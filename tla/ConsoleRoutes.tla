----------------------------- MODULE ConsoleRoutes -----------------------------
(***************************************************************************)
(* The console's pages, area by area: what each is gated on and which       *)
(* parameters, of the URL or of the navigation, it reads; and the links its screens offer: where they  *)
(* are shown, on what condition, and the parameters they carry.             *)
(* A condition is a set of gates, all of which must be passed; a gate is    *)
(* the set of codes that pass it.  Parents in the breadcrumbs, which share  *)
(* their page's gate, are left out.                                         *)
(***************************************************************************)
EXTENDS TLC, Sequences, Functions

Anyone == {}
Has(code) == {{code}}
HasAll(codes) == {{c} : c \in codes}
HasAny(codes) == {codes}

Page(gates, reads) == [gates |-> gates, reads |-> reads]
Plain(gates, paths) == [p \in paths |-> Page(gates, {})]

-----------------------------------------------------------------------------
(* The router, an area per definition.                                       *)
EntryRoutes == ("/" :> Page(Anyone, {})) @@ ("/login" :> Page(Anyone, {})) @@ ("*" :> Page(Anyone, {}))

ContactRoutes ==
  ("/contacts" :> Page(Has("contacts:read"), {"q", "tag", "attr", "cursor"})) @@
  ("/contacts/:id" :> Page(Has("contacts:read"), {}))

TaskRoutes ==
  "/tasks" :> Page(Has("tasks:read"),
                   {"preset", "q", "status", "type", "priority", "due", "sort", "cursor", "assignee"})

(* Mutant: the inbox opens on no conversation in particular. *)
InboxRoutes_Closed == "/inbox" :> Page(Has("inbox:read"), {"status", "assignee", "tag", "q", "cursor"})
InboxRoutes ==
  "/inbox" :> Page(Has("inbox:read"), {"status", "assignee", "tag", "q", "cursor", "conversation"})

CampaignRoutes ==
  ("/campaigns" :> Page(Has("campaigns:read"), {"q", "status", "sort", "page"})) @@
  ("/campaigns/:id" :> Page(Has("campaigns:read"), {})) @@
  ("/campaigns/new" :> Page(HasAll({"campaigns:read", "campaigns:write"}), {"duplicateOf", "intent", "contactIds"})) @@
  ("/campaigns/:id/edit" :> Page(HasAll({"campaigns:read", "campaigns:write"}), {})) @@
  ("/broadcasts" :> Page(Has("campaigns:read"), {"q", "status", "sort", "page"}))

TemplateRoutes ==
  ("/templates" :> Page(Has("templates:read"), {"q", "status", "category", "language", "sort", "page"})) @@
  ("/templates/:id" :> Page(Has("templates:read"), {})) @@
  ("/templates/new" :> Page(HasAll({"templates:read", "templates:write"}), {"cloneOf"})) @@
  ("/templates/:id/edit" :> Page(HasAll({"templates:read", "templates:write"}), {}))

MediaRoutes ==
  ("/media" :> Page(Has("media:read"), {"q", "type", "sort", "page"})) @@
  ("/media/:id" :> Page(Has("media:read"), {}))

WorkRoutes ==
  ("/analytics" :> Page(Has("analytics:read"), {"from", "to", "preset", "granularity", "compare"})) @@
  ("/automation" :> Page(Has("automations:read"), {"flow"})) @@
  ("/scan" :> Page(Has("contacts:read"), {}))

ReactivationOpen ==
  {"/reactivation", "/reactivation/eligible", "/reactivation/bulk-eligibility",
   "/reactivation/interested", "/reactivation/pipeline", "/reactivation/kyc",
   "/reactivation/sim-orders", "/reactivation/activation", "/reactivation/completed"}
ReactivationRoutes ==
  Plain(Has("reactivation:read"), ReactivationOpen) @@
  ("/reactivation/documents" :> Page(HasAll({"reactivation:read", "documents:read"}), {})) @@
  ("/reactivation/reports" :> Page(HasAll({"reactivation:read", "analytics:read"}), {}))

ChannelRoutes ==
  Plain(Has("waba:read"), {"/channels", "/channels/accounts/:id", "/channels/numbers/:id"}) @@
  ("/channels/accounts" :> Page(Has("waba:read"), {"q", "status", "sort"})) @@
  ("/channels/numbers" :> Page(Has("waba:read"), {"q", "waba", "status", "quality", "sort"}))

PipelineRoutes == Plain(Has("contacts:read"), {"/pipelines/:id"}) @@
                  ("/pipelines" :> Page(Has("contacts:read"), {"q", "kind", "sort"}))

SegmentRoutes ==
  ("/segments" :> Page(Has("segments:read"), {"q", "state", "match", "sort", "page"})) @@
  ("/segments/:id" :> Page(Has("segments:read"), {})) @@
  ("/segments/new" :> Page(HasAll({"segments:read", "segments:write"}), {"duplicateOf", "audiencePresetId"})) @@
  ("/segments/:id/edit" :> Page(HasAll({"segments:read", "segments:write"}), {}))

OperationsCodes == {"system:read", "apikeys:manage", "waba:read"}
OperationsRoutes ==
  LET Behind(code) == HasAny(OperationsCodes) \cup Has(code) IN
  Plain(HasAny(OperationsCodes), {"/operations", "/operations/jobs/:id"}) @@
  Plain(Behind("system:read"),
        {"/operations/overview", "/operations/queues", "/operations/health", "/operations/logs"}) @@
  ("/operations/jobs" :> Page(Behind("system:read"), {"q", "status", "queue", "sort", "page"})) @@
  Plain(Behind("apikeys:manage"), {"/operations/api"}) @@
  Plain(Behind("waba:read"), {"/operations/webhooks"})

AdminRoutes ==
  ("/admin" :> Page(Anyone, {})) @@
  ("/admin/users" :> Page(Has("users:read"), {"q", "status", "role", "sort", "page"})) @@
  Plain(Has("roles:read"), {"/admin/roles", "/admin/permissions"}) @@
  Plain(Has("apikeys:manage"), {"/admin/api-keys"}) @@
  ("/admin/audit" :> Page(Has("audit:read"), {"q", "action", "entity", "actor", "page"}))

SettingsRoutes ==
  Plain(Anyone, {"/settings"}) @@
  Plain(Has("settings:read"), {"/settings/organization", "/settings/application", "/settings/flags"}) @@
  Plain(Has("auth:self"), {"/settings/preferences"})

ConsoleRouter ==
  EntryRoutes @@ ContactRoutes @@ TaskRoutes @@ InboxRoutes @@ CampaignRoutes @@ TemplateRoutes @@
  MediaRoutes @@ WorkRoutes @@ ReactivationRoutes @@ ChannelRoutes @@ PipelineRoutes @@
  SegmentRoutes @@ OperationsRoutes @@ AdminRoutes @@ SettingsRoutes


-----------------------------------------------------------------------------
(* The shells that have no content of their own, and their sections in       *)
(* order, each with the code it is offered on.                               *)
Section(path, code) == [path |-> path, code |-> code]

AdminSections ==
  << Section("/admin/users", "users:read"), Section("/admin/roles", "roles:read"),
     Section("/admin/permissions", "roles:read"), Section("/admin/api-keys", "apikeys:manage"),
     Section("/admin/audit", "audit:read") >>

OperationsSections ==
  << Section("/operations/overview", "system:read"), Section("/operations/jobs", "system:read"),
     Section("/operations/queues", "system:read"), Section("/operations/health", "system:read"),
     Section("/operations/logs", "system:read"), Section("/operations/api", "apikeys:manage"),
     Section("/operations/webhooks", "waba:read") >>

SettingsSections ==
  << Section("/settings/organization", "settings:read"),
     Section("/settings/application", "settings:read"), Section("/settings/flags", "settings:read"),
     Section("/settings/preferences", "auth:self") >>

ChannelSections ==
  << Section("/channels/accounts", "waba:read"), Section("/channels/numbers", "waba:read") >>

ConsoleShells ==
  ("/admin" :> AdminSections) @@ ("/operations" :> OperationsSections) @@
  ("/settings" :> SettingsSections) @@ ("/channels" :> ChannelSections)

AdminCodes == {AdminSections[i].code : i \in DOMAIN AdminSections}
SettingsCodes == {SettingsSections[i].code : i \in DOMAIN SettingsSections}

-----------------------------------------------------------------------------
Link(on, to, shows, with) == [on |-> on, to |-> to, shows |-> shows, with |-> with]
Links(on, shows, paths) == {Link(on, p, shows, {}) : p \in paths}
Frame == "shell"  \* of every signed-in page

(* The sidebar: what is not primary is under "More", or in mobile's menu.    *)
NavItems ==
  Links(Frame, Anyone, {"/"}) \cup
  Links(Frame, Has("inbox:read"), {"/inbox"}) \cup
  Links(Frame, Has("campaigns:read"), {"/campaigns", "/broadcasts"}) \cup
  Links(Frame, Has("templates:read"), {"/templates"}) \cup
  Links(Frame, Has("contacts:read"), {"/contacts", "/pipelines", "/scan"}) \cup
  Links(Frame, Has("segments:read"), {"/segments"}) \cup
  Links(Frame, Has("automations:read"), {"/automation"}) \cup
  Links(Frame, Has("analytics:read"), {"/analytics"}) \cup
  Links(Frame, Has("reactivation:read"), {"/reactivation"}) \cup
  Links(Frame, Has("tasks:read"), {"/tasks"}) \cup
  Links(Frame, Has("media:read"), {"/media"}) \cup
  Links(Frame, Has("waba:read"), {"/channels"}) \cup
  Links(Frame, HasAny(OperationsCodes), {"/operations"}) \cup
  Links(Frame, HasAny(AdminCodes), {"/admin"}) \cup
  Links(Frame, HasAny(SettingsCodes), {"/settings"})

CreateActions ==
  Links(Frame, Has("campaigns:write"), {"/campaigns/new"}) \cup
  Links(Frame, Has("templates:write"), {"/templates/new"}) \cup
  {Link(Frame, "/contacts", Has("contacts:import"), {"import"})}

AccountMenu == Links(Frame, Has("auth:self"), {"/settings/preferences"})

(* The records the palette finds, each kind asked for on its own code.       *)
PaletteRecords ==
  Links(Frame, Has("contacts:read"), {"/contacts/:id"}) \cup
  Links(Frame, Has("campaigns:read"), {"/campaigns/:id"}) \cup
  Links(Frame, Has("templates:read"), {"/templates/:id"}) \cup
  Links(Frame, Has("media:read"), {"/media/:id"}) \cup
  Links(Frame, Has("waba:read"), {"/channels/numbers/:id"}) \cup
  {Link(Frame, "/admin/users", Has("users:read"), {"q"}),
   Link(Frame, "/tasks", Has("tasks:read"), {"q"}),
   Link(Frame, "/inbox", Has("inbox:read"), {"conversation"})}

(* A notification leads to what it is about, whatever its reader may open.   *)
NotificationLinks ==
  {Link(Frame, "/contacts/:id", Has("tasks:read"), {}),
   Link(Frame, "/reactivation/pipeline", Has("tasks:read"), {"case"}),
   Link(Frame, "/tasks", Has("tasks:read"), {"task"}),
   Link(Frame, "/operations", Has("system:read"), {})}

(* The tasks of the dashboard's work queue.                                  *)
WorkQueueLinks ==
  Links("/", Has("tasks:read"), {"/contacts/:id"}) \cup
  {Link("/", "/inbox", Has("tasks:read"), {"conversation"})}

DashboardLinks ==
  {Link("/", "/contacts", Has("contacts:import"), {"import"})} \cup
  Links("/", Has("templates:write"), {"/templates/new"}) \cup
  Links("/", Has("campaigns:write"), {"/campaigns/new"}) \cup
  Links("/", Has("campaigns:read"), {"/campaigns/new"}) \cup
  Links("/", Has("inbox:read"), {"/inbox"}) \cup Links("/", Has("tasks:read"), {"/tasks"})

(* Mutant: the overview is left to the pages it opens. *)
WhatsAppOverview_Ungated ==
  Links("/", Anyone, {"/channels/accounts", "/channels/numbers", "/channels/numbers/:id"})

WhatsAppOverview ==
  Links("/", Has("waba:read"), {"/channels/accounts", "/channels/numbers", "/channels/numbers/:id"})


-----------------------------------------------------------------------------
(* What the areas' own screens lead to.  What a page is gated on its links   *)
(* are too; here is what they ask for besides.                               *)
ContactLinks == Links("/contacts", Anyone, {"/contacts/:id"})
BulkActionLinks == {Link("/contacts", "/campaigns/new", Has("campaigns:write"), {"contactIds"})}

ProfileLinks ==
  {Link("/contacts/:id", "/inbox", Has("inbox:read"), {"q"})} \cup
  Links("/contacts/:id", Has("campaigns:write"), {"/campaigns/new"})
ProfileReactivation ==
  Links("/contacts/:id", Has("reactivation:read"), {"/reactivation/pipeline"}) \cup
  Links("/contacts/:id", HasAll({"reactivation:read", "kyc:read"}), {"/reactivation/kyc"})
ProfileConversations == {Link("/contacts/:id", "/inbox", Has("inbox:read"), {"conversation"})}
ProfileTimeline == Links("/contacts/:id", Has("audit:read"), {"/admin/audit"})

TaskLinks == {Link("/tasks", "/inbox", Anyone, {"conversation"})}
TaskRows == Links("/tasks", Anyone, {"/contacts/:id"})
InboxContext == Links("/inbox", Anyone, {"/contacts/:id"})

CampaignRows == UNION {Links(p, Anyone, {"/campaigns/:id"}) : p \in {"/campaigns", "/broadcasts"}}
CampaignCreate ==
  UNION {Links(p, Has("campaigns:write"), {"/campaigns/new"}) : p \in {"/campaigns", "/broadcasts"}}
CampaignPages ==
  UNION {Links(p, Has("campaigns:write"), {"/campaigns/:id/edit"}) \cup
         {Link(p, "/campaigns/new", Has("campaigns:write"), {"duplicateOf", "intent"})} :
           p \in {"/campaigns", "/campaigns/:id"}}
CampaignRecipients == Links("/campaigns/:id", Anyone, {"/contacts/:id"})
CampaignSaved ==
  UNION {Links(p, Anyone, {"/campaigns", "/campaigns/:id"}) :
           p \in {"/campaigns/new", "/campaigns/:id/edit"}}
AudienceStep ==
  UNION {Links(p, Anyone, {"/segments"}) : p \in {"/campaigns/new", "/campaigns/:id/edit"}}

TemplateRows == Links("/templates", Anyone, {"/templates/:id"})
TemplateCreate == Links("/templates", Has("templates:write"), {"/templates/new"})
TemplatePages ==
  UNION {Links(p, Has("templates:write"), {"/templates/:id/edit"}) \cup
         {Link(p, "/templates/new", Has("templates:write"), {"cloneOf"})} :
           p \in {"/templates", "/templates/:id"}}
TemplateUse == Links("/templates/:id", Anyone, {"/campaigns/new"})
TemplateSaved ==
  UNION {Links(p, Anyone, {"/templates", "/templates/:id"}) :
           p \in {"/templates/new", "/templates/:id/edit"}}

MediaRows == Links("/media", Anyone, {"/media/:id"})

AccountRows == Links("/channels/accounts", Anyone, {"/channels/accounts/:id"})
NumberRows == Links("/channels/numbers", Anyone, {"/channels/numbers/:id", "/channels/accounts/:id"})
LinkedNumbers ==
  {Link("/channels/accounts/:id", "/channels/numbers", Anyone, {"waba"})} \cup
  Links("/channels/accounts/:id", Anyone, {"/channels/numbers/:id"})
LinkedTemplates ==
  Links("/channels/accounts/:id", Anyone, {"/templates"}) \cup
  Links("/channels/accounts/:id", Has("templates:read"), {"/templates/:id"})
NumberAccount == Links("/channels/numbers/:id", Anyone, {"/channels/accounts/:id"})
LinkedCampaigns ==
  Links("/channels/numbers/:id", Anyone, {"/campaigns"}) \cup
  Links("/channels/numbers/:id", Has("campaigns:read"), {"/campaigns/:id"})

PipelineRows == Links("/pipelines", Anyone, {"/pipelines/:id"})

SegmentRows ==
  Links("/segments", Anyone, {"/segments/:id"}) \cup
  Links("/segments", Has("segments:write"), {"/segments/new"})
AudiencePresets == {Link("/segments", "/segments/new", Has("segments:write"), {"audiencePresetId"})}
SegmentPages ==
  UNION {Links(p, Has("segments:write"), {"/segments/:id/edit"}) \cup
         {Link(p, "/segments/new", Has("segments:write"), {"duplicateOf"})} :
           p \in {"/segments", "/segments/:id"}}
SegmentMembers == Links("/segments/:id", Anyone, {"/contacts", "/contacts/:id"})
SegmentSaved ==
  UNION {Links(p, Anyone, {"/segments", "/segments/:id"}) :
           p \in {"/segments/new", "/segments/:id/edit"}}

OperationsOverview ==
  Links("/operations/overview", Anyone,
        {"/operations/jobs", "/operations/queues", "/operations/health", "/operations/logs",
         "/operations/api", "/operations/webhooks"})
WebhooksPanel == Links("/operations/webhooks", Anyone, {"/channels/accounts"})
JobRows == Links("/operations/jobs", Anyone, {"/operations/jobs/:id"})
FailedJobs == {Link("/operations/queues", "/operations/jobs", Anyone, {"status", "queue"})}
JobAudit == Links("/operations/jobs/:id", Anyone, {"/admin/audit"})
JobCancelled == Links("/operations/jobs/:id", HasAll({"system:read", "system:manage"}), {"/operations/jobs"})

ReactivationTabs ==
  UNION {Links(p, Anyone, DOMAIN ReactivationRoutes \ {"/reactivation"}) :
           p \in DOMAIN ReactivationRoutes}
WorkspaceActions ==
  Links("/reactivation/eligible", Anyone, {"/segments/new"}) \cup
  {Link("/reactivation/bulk-eligibility", "/contacts", Anyone, {"import"})} \cup
  UNION {Links(p, Anyone, {"/contacts"}) : p \in {"/reactivation/interested", "/reactivation/completed"}} \cup
  Links("/reactivation/sim-orders", Anyone, {"/tasks"}) \cup
  Links("/reactivation/activation", Anyone, {"/pipelines"})
CaseContact == Links("/reactivation/pipeline", Anyone, {"/contacts/:id"})
CaseKyc == Links("/reactivation/pipeline", Has("kyc:read"), {"/reactivation/kyc"})
KycContact == Links("/reactivation/kyc", Anyone, {"/contacts/:id"})
ScanLinks ==
  {Link("/scan", "/contacts", Anyone, {"import"})} \cup Links("/scan", Anyone, {"/segments"})
NotFound == Links("*", Anyone, {"/"})

(* The tabs of the shells, on every page of theirs.                          *)
TabsOf(sections) == UNION {Links(s.path, Has(t.code), {t.path}) : s, t \in Range(sections)}
SectionTabs == UNION {TabsOf(ConsoleShells[area]) : area \in DOMAIN ConsoleShells}

ShellLinks == NavItems \cup CreateActions \cup AccountMenu \cup PaletteRecords \cup NotificationLinks
CrmLinks ==
  ContactLinks \cup BulkActionLinks \cup ProfileLinks \cup ProfileReactivation \cup
  ProfileConversations \cup ProfileTimeline \cup TaskLinks \cup TaskRows \cup InboxContext \cup
  PipelineRows \cup SegmentRows \cup AudiencePresets \cup SegmentPages \cup SegmentMembers \cup SegmentSaved
MessagingLinks ==
  CampaignRows \cup CampaignCreate \cup CampaignPages \cup CampaignRecipients \cup CampaignSaved \cup
  AudienceStep \cup TemplateRows \cup TemplateCreate \cup TemplatePages \cup TemplateUse \cup
  TemplateSaved \cup MediaRows \cup AccountRows \cup NumberRows \cup LinkedNumbers \cup
  LinkedTemplates \cup NumberAccount \cup LinkedCampaigns
PlatformLinks ==
  OperationsOverview \cup WebhooksPanel \cup JobRows \cup FailedJobs \cup JobAudit \cup JobCancelled \cup
  ReactivationTabs \cup WorkspaceActions \cup CaseContact \cup CaseKyc \cup KycContact \cup
  ScanLinks \cup NotFound
ConsoleLinks == ShellLinks \cup DashboardLinks \cup WorkQueueLinks \cup WhatsAppOverview \cup CrmLinks \cup
                MessagingLinks \cup PlatformLinks \cup SectionTabs
=============================================================================
