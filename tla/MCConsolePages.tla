---------------------------- MODULE MCConsolePages ----------------------------
(* The whole console.  One user holds everything, or just what it takes to   *)
(* be offered some link: every way of passing its gates at least cost.  A    *)
(* role is any set of codes: who may write need not read.  The other reads   *)
(* the audit trail.                                                          *)
(* The lists are the console's exceptions: without an entry the run finds    *)
(* its counterexample.                                                       *)
EXTENDS ConsolePages, ConsoleRoutes

CONSTANTS ana, ben

Picks(gates) ==
  {Range(f) : f \in {f \in [gates -> UNION gates] : \A g \in gates : f[g] \in g}}
GatesOf(l) == l.shows \cup IF l.on = Everywhere THEN {} ELSE Route[l.on].gates

FewestCodes == UNION {Picks(GatesOf(l)) : l \in ConsoleLinks}
Everything == UNION FewestCodes

Team == {ana, ben}
TeamRights ==
  {ana :> held @@ ben :> {"audit:read"} : held \in FewestCodes \cup {Everything}}

Ungated(on, paths) == {<<on, p>> : p \in paths}

(* Rows and panels that lead to a record of another area, or to its list.    *)
ToRecords ==
  {<<p, "/contacts/:id">> : p \in {"/", "/tasks", "/inbox", "/campaigns/:id", "/segments/:id",
                                  "/reactivation/pipeline", "/reactivation/kyc", Everywhere}} \cup
  {<<p, "/inbox">> : p \in {"/", "/tasks"}} \cup Ungated("/segments/:id", {"/contacts"}) \cup
  Ungated("/channels/accounts/:id", {"/templates"}) \cup
  Ungated("/channels/numbers/:id", {"/campaigns"}) \cup
  {<<p, "/segments">> : p \in {"/scan", "/campaigns/new", "/campaigns/:id/edit"}} \cup
  Ungated(Everywhere, {"/reactivation/pipeline"})

(* Ways to start something in another area.                                  *)
ToWork ==
  {<<p, "/campaigns/new">> : p \in {"/", "/templates/:id"}} \cup
  Ungated("/reactivation/eligible", {"/segments/new"}) \cup
  {<<p, "/contacts">> : p \in {"/reactivation/bulk-eligibility", "/reactivation/interested",
                              "/reactivation/completed"}} \cup
  Ungated("/reactivation/sim-orders", {"/tasks"}) \cup
  Ungated("/reactivation/activation", {"/pipelines"})

(* Sections shown to whoever reads the area.                                 *)
ToSections ==
  UNION {Ungated(p, {"/reactivation/documents", "/reactivation/reports"} \ {p}) :
           p \in DOMAIN ReactivationRoutes} \cup
  Ungated("/operations/overview", {"/operations/api", "/operations/webhooks"}) \cup
  Ungated("/operations/jobs/:id", {"/admin/audit"})

(* Create actions, for a role that may write and not read.                   *)
ToCreate ==
  {<<p, "/contacts">> : p \in {"/", Everywhere}} \cup
  {<<p, "/templates/new">> : p \in {"/", Everywhere}} \cup
  {<<p, "/campaigns/new">> : p \in {"/contacts", "/contacts/:id", Everywhere}}

OpenDoors == ToRecords \cup ToWork \cup ToSections \cup ToCreate
DeadLetters == {<<"/contacts", "import">>, <<"/tasks", "task">>, <<"/reactivation/pipeline", "case">>}
==============================================================================
