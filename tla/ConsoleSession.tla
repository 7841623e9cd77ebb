---------------------------- MODULE ConsoleSession ----------------------------
(***************************************************************************)
(* The sign-in of the console: the tabs of one browser, which share one     *)
(* refresh token through localStorage and keep an access token each in      *)
(* memory, and the server's refresh tokens.                                 *)
(*                                                                          *)
(* A request answered 401 waits for the tab's one exchange of the refresh   *)
(* token and is replayed, or ends the session.  The server reads the token  *)
(* presented, and then revokes it and mints its successor: a token          *)
(* presented again revokes its whole family.                                *)
(***************************************************************************)
EXTENDS Integers, FiniteSets

CONSTANTS
  Users, Tabs, Queries,
  Families,   \* bound: the sign-ins, numbered 1..Families
  Tokens,     \* bound: the refresh tokens of one sign-in
  MaxFaults,  \* bound: page loads and requests that fail without an answer
  None, Refused

ASSUME Bounds == Families \in Nat \ {0} /\ Tokens \in Nat \ {0} /\ MaxFaults \in Nat

Requests == Queries \cup {"me", "logout"}
Token == (1..Families) \X (1..Tokens)
Nobody == "nobody"   \* a page that is gone

ASSUME Distinct ==
  /\ Queries \cap {"me", "logout", "boot"} = {}
  /\ Tabs \cap {"live", "revoked", Nobody} = {}
  /\ None \notin Token \cup Tabs \cup Users \cup {"live", "revoked", Nobody, Refused}
  /\ Refused \notin Token

VARIABLES
  \* the server
  owner,    \* owner[f]: who signed in
  row,      \* row[token]: None, "live", "revoked", or the page whose exchange spent it
  serving,  \* the exchanges the server has not answered: [by, token, read]
  \* the browser
  stored,   \* localStorage
  expired,  \* the access tokens (named by the refresh token of their pair) past their time
  \* the tabs
  status,   \* AuthStatus
  shown,    \* the MeResponse held
  access,   \* the access token held
  data,     \* whose answers the query cache holds
  sent,     \* sent[t][r]: None or [token, again]
  dropped,  \* queries under way whose cache entry was cleared
  waiting,  \* the callers of refreshOnce: requests, and "boot"
  flight,   \* refreshInFlight: None or the token presented
  answer,   \* of the exchange: None, Refused or the successor
  faults

server == <<owner, row>>
view == <<status, shown, data>>
vars == <<owner, row, serving, stored, expired, status, shown, access, data, sent, dropped,
          waiting, flight, answer, faults>>

Nothing == [r \in Requests |-> None]

TypeOK ==
  /\ owner \in [1..Families -> Users \cup {None}]
  /\ row \in [Token -> {None, "live", "revoked", Nobody} \cup Tabs]
  /\ serving \subseteq [by : Tabs \cup {Nobody}, token : Token, read : BOOLEAN]
  /\ stored \in Token \cup {None}
  /\ expired \subseteq Token
  /\ status \in [Tabs -> {"loading", "anonymous", "authenticated"}]
  /\ shown \in [Tabs -> Users \cup {None}]
  /\ access \in [Tabs -> Token \cup {None}]
  /\ data \in [Tabs -> SUBSET Users]
  /\ sent \in [Tabs -> [Requests -> {None} \cup [token : Token \cup {None}, again : BOOLEAN]]]
  /\ dropped \in [Tabs -> SUBSET Queries]
  /\ waiting \in [Tabs -> SUBSET (Requests \cup {"boot"})]
  /\ flight \in [Tabs -> Token \cup {None}]
  /\ answer \in [Tabs -> Token \cup {None, Refused}]
  /\ faults \in 0..MaxFaults

Init ==
  /\ owner = [f \in 1..Families |-> None]
  /\ row = [k \in Token |-> None]
  /\ serving = {} /\ stored = None /\ expired = {}
  /\ status = [t \in Tabs |-> "loading"]
  /\ shown = [t \in Tabs |-> None]
  /\ access = [t \in Tabs |-> None]
  /\ data = [t \in Tabs |-> {}]
  /\ sent = [t \in Tabs |-> Nothing]
  /\ dropped = [t \in Tabs |-> {}]
  /\ waiting = [t \in Tabs |-> {}]
  /\ flight = [t \in Tabs |-> None]
  /\ answer = [t \in Tabs |-> None]
  /\ faults = 0

-----------------------------------------------------------------------------
Live(f) == {k \in Token : k[1] = f /\ row[k] = "live"}
Minted(f) == {k \in Token : k[1] = f /\ row[k] # None}
RevokeFamily(f) == row' = [k \in Token |-> IF k \in Live(f) THEN "revoked" ELSE row[k]]

Outstanding(t) == {r \in Requests : sent[t][r] # None \/ r \in waiting[t]}

(* Mutant: what the queries bring is kept. *)
EndSession_KeepsQueries(t, over) ==
  /\ stored' = None
  /\ access' = [access EXCEPT ![t] = None]
  /\ status' = [status EXCEPT ![t] = "anonymous"]
  /\ shown' = [shown EXCEPT ![t] = None]
  /\ data' = [data EXCEPT ![t] = {}]
  /\ UNCHANGED dropped

(* endSession, called while the requests in "over" end as well: the cache is *)
(* cleared, and what the other queries will bring is dropped.                *)
EndSession(t, over) ==
  /\ stored' = None
  /\ access' = [access EXCEPT ![t] = None]
  /\ status' = [status EXCEPT ![t] = "anonymous"]
  /\ shown' = [shown EXCEPT ![t] = None]
  /\ data' = [data EXCEPT ![t] = {}]
  /\ dropped' = [dropped EXCEPT ![t] = (Queries \cap Outstanding(t)) \ over]

Ended(t, r) == sent' = [sent EXCEPT ![t][r] = None]

(* Mutant: every caller makes an exchange of its own. *)
RefreshOnce_Each(t, caller) ==
  /\ waiting' = [waiting EXCEPT ![t] = @ \cup {caller}]
  /\ flight' = [flight EXCEPT ![t] = stored]
  /\ serving' = serving \cup {[by |-> t, token |-> stored, read |-> FALSE]}

(* refreshOnce with a token to present: the first caller starts the          *)
(* exchange, the others wait for it.                                         *)
RefreshOnce(t, caller) ==
  /\ waiting' = [waiting EXCEPT ![t] = @ \cup {caller}]
  /\ IF flight[t] # None THEN UNCHANGED <<flight, serving>>
     ELSE /\ flight' = [flight EXCEPT ![t] = stored]
          /\ serving' = serving \cup {[by |-> t, token |-> stored, read |-> FALSE]}

(* The exchange failed, or there was nothing to present: clearTokens and     *)
(* onSessionExpired, for every caller.                                       *)
RefreshFailed(t, callers) ==
  /\ EndSession(t, callers)
  /\ waiting' = [waiting EXCEPT ![t] = {}]
  /\ flight' = [flight EXCEPT ![t] = None]
  /\ answer' = [answer EXCEPT ![t] = None]

-----------------------------------------------------------------------------
(* A page load: the memory of the tab is gone, its requests are not.         *)
Load(t) ==
  /\ faults < MaxFaults /\ faults' = faults + 1
  /\ status' = [status EXCEPT ![t] = "loading"]
  /\ shown' = [shown EXCEPT ![t] = None]
  /\ access' = [access EXCEPT ![t] = None]
  /\ data' = [data EXCEPT ![t] = {}]
  /\ sent' = [sent EXCEPT ![t] = Nothing]
  /\ dropped' = [dropped EXCEPT ![t] = {}]
  /\ waiting' = [waiting EXCEPT ![t] = {}]
  /\ flight' = [flight EXCEPT ![t] = None]
  /\ answer' = [answer EXCEPT ![t] = None]
  /\ serving' = {IF x.by = t THEN [x EXCEPT !.by = Nobody] ELSE x : x \in serving}
  /\ row' = [k \in Token |-> IF row[k] = t THEN Nobody ELSE row[k]]
  /\ UNCHANGED <<owner, stored, expired>>

(* bootstrap, up to its first await.                                         *)
Bootstrap(t) ==
  /\ status[t] = "loading" /\ waiting[t] = {} /\ sent[t] = Nothing
  /\ IF stored = None
     THEN /\ status' = [status EXCEPT ![t] = "anonymous"]
          /\ UNCHANGED <<waiting, flight, serving>>
     ELSE RefreshOnce(t, "boot") /\ UNCHANGED status
  /\ UNCHANGED <<server, stored, expired, shown, access, data, sent, dropped, answer, faults>>

(* login: authenticate opens a family, and /auth/me is asked.                *)
SignIn(t) ==
  /\ status[t] = "anonymous" /\ "me" \notin Outstanding(t)
  /\ \E u \in Users, f \in 1..Families :
       /\ owner[f] = None /\ \A g \in 1..f - 1 : owner[g] # None
       /\ owner' = [owner EXCEPT ![f] = u]
       /\ row' = [row EXCEPT ![<<f, 1>>] = "live"]
       /\ stored' = <<f, 1>>
       /\ access' = [access EXCEPT ![t] = <<f, 1>>]
       /\ sent' = [sent EXCEPT ![t]["me"] = [token |-> <<f, 1>>, again |-> FALSE]]
  /\ UNCHANGED <<serving, expired, view, dropped, waiting, flight, answer, faults>>

(* A query of a page, or the sign-out.                                       *)
Ask(t, r) ==
  /\ status[t] = "authenticated" /\ r # "me" /\ r \notin Outstanding(t)
  /\ sent' = [sent EXCEPT ![t][r] = [token |-> access[t], again |-> FALSE]]
  /\ UNCHANGED <<server, serving, stored, expired, view, access, dropped, waiting, flight,
                 answer, faults>>

Expire ==
  /\ \E t \in Tabs : access[t] # None /\ access[t] \notin expired
                       /\ expired' = expired \cup {access[t]}
  /\ UNCHANGED <<server, serving, stored, view, access, sent, dropped, waiting, flight, answer,
                 faults>>

-----------------------------------------------------------------------------
Valid(s) == s.token # None /\ s.token \notin expired

(* The server knows the access token and answers.  logout revokes the family *)
(* the token belongs to.                                                     *)
Served(t, r) ==
  /\ sent[t][r] # None /\ Valid(sent[t][r])
  /\ Ended(t, r)
  /\ LET f == sent[t][r].token[1] IN
     CASE r = "me" ->
            /\ shown' = [shown EXCEPT ![t] = owner[f]]
            /\ status' = [status EXCEPT ![t] = "authenticated"]
            /\ UNCHANGED <<row, stored, access, data, dropped>>
       [] r = "logout" -> RevokeFamily(f) /\ EndSession(t, {r})
       [] OTHER ->
            /\ data' = IF r \in dropped[t] THEN data ELSE [data EXCEPT ![t] = @ \cup {owner[f]}]
            /\ dropped' = [dropped EXCEPT ![t] = @ \ {r}]
            /\ UNCHANGED <<row, stored, access, status, shown>>
  /\ UNCHANGED <<owner, serving, expired, waiting, flight, answer, faults>>

(* Mutant: a missing refresh token is presented. *)
Unauthorized_Blind(t, r) ==
  /\ sent[t][r] # None /\ ~ Valid(sent[t][r]) /\ ~ sent[t][r].again
  /\ Ended(t, r) /\ RefreshOnce(t, r)
  /\ UNCHANGED <<stored, access, view, dropped, answer, server, expired, faults>>

(* 401 the first time: the refresh token is exchanged.                       *)
Unauthorized(t, r) ==
  /\ sent[t][r] # None /\ ~ Valid(sent[t][r]) /\ ~ sent[t][r].again
  /\ Ended(t, r)
  /\ IF stored = None /\ flight[t] = None
     THEN RefreshFailed(t, {r}) /\ UNCHANGED serving
     ELSE /\ RefreshOnce(t, r)
          /\ UNCHANGED <<stored, access, view, dropped, answer>>
  /\ UNCHANGED <<server, expired, faults>>

(* 401 again, or no answer: the caller gets an error.  bootstrap and logout  *)
(* end the session, login leaves it as it is.                                *)
Errs(t, r) ==
  /\ sent[t][r] # None
  /\ \/ ~ Valid(sent[t][r]) /\ sent[t][r].again /\ UNCHANGED faults
     \/ faults < MaxFaults /\ faults' = faults + 1
  /\ Ended(t, r)
  /\ IF r = "logout" \/ (r = "me" /\ status[t] = "loading")
     THEN EndSession(t, {r})
     ELSE /\ dropped' = [dropped EXCEPT ![t] = @ \ {r}]
          /\ UNCHANGED <<stored, access, view>>
  /\ UNCHANGED <<server, serving, expired, waiting, flight, answer>>

-----------------------------------------------------------------------------
Answered(x, a) ==
  /\ serving' = serving \ {x}
  /\ answer' = IF x.by \in Tabs THEN [answer EXCEPT ![x.by] = a] ELSE answer

browser == <<stored, expired, view, access, sent, dropped, waiting, flight, faults>>

(* The bound stands for expires_at: the last token is past it.               *)
RunOut(f) ==
  Cardinality(Minted(f)) + Cardinality({x \in serving : x.read /\ x.token[1] = f}) >= Tokens

(* auth_service.refresh: the token is read; one already revoked revokes its  *)
(* family, one that has run out is refused.                                  *)
ReadToken ==
  /\ \E x \in serving :
       /\ ~ x.read
       /\ IF row[x.token] # "live"
          THEN RevokeFamily(x.token[1]) /\ Answered(x, Refused)
          ELSE IF RunOut(x.token[1]) THEN Answered(x, Refused) /\ UNCHANGED row
          ELSE /\ serving' = (serving \ {x}) \cup {[x EXCEPT !.read = TRUE]}
               /\ UNCHANGED <<row, answer>>
  /\ UNCHANGED <<owner, browser>>

(* Its commit: the token read is revoked, a successor minted.                *)
Rotate ==
  /\ \E x \in serving, k \in Token :
       /\ x.read /\ k[1] = x.token[1]
       /\ row[k] = None /\ k[2] = Cardinality(Minted(k[1])) + 1
       /\ row' = [row EXCEPT ![x.token] = x.by, ![k] = "live"]
       /\ Answered(x, k)
  /\ UNCHANGED <<owner, browser>>

(* The exchange's answer: setTokens, and every caller goes on.               *)
Refreshed(t) ==
  /\ flight[t] # None /\ answer[t] \in Token
  /\ stored' = answer[t]
  /\ access' = [access EXCEPT ![t] = answer[t]]
  /\ sent' = [sent EXCEPT ![t] = [r \in Requests |->
       IF r \in waiting[t] THEN [token |-> answer[t], again |-> TRUE]
       ELSE IF r = "me" /\ "boot" \in waiting[t] THEN [token |-> answer[t], again |-> FALSE]
       ELSE sent[t][r]]]
  /\ waiting' = [waiting EXCEPT ![t] = {}]
  /\ flight' = [flight EXCEPT ![t] = None]
  /\ answer' = [answer EXCEPT ![t] = None]
  /\ UNCHANGED <<server, serving, expired, view, dropped, faults>>

(* Mutant: the exchange is a request like any other, and a refusal of it     *)
(* waits for the exchange under way. *)
NotRefreshed_WaitsForItself(t) ==
  /\ flight[t] # None
  /\ faults < MaxFaults /\ faults' = faults + 1
  /\ serving' = {IF x.by = t THEN [x EXCEPT !.by = Nobody] ELSE x : x \in serving}
  /\ RefreshFailed(t, waiting[t])
  /\ UNCHANGED <<server, expired, sent>>

(* It was refused, or never answered: a fetch that fails ends like one that  *)
(* is refused, whatever the server makes of it.                              *)
NotRefreshed(t) ==
  /\ flight[t] # None
  /\ \/ answer[t] = Refused /\ UNCHANGED <<faults, serving>>
     \/ /\ faults < MaxFaults /\ faults' = faults + 1
        /\ serving' = {IF x.by = t THEN [x EXCEPT !.by = Nobody] ELSE x : x \in serving}
  /\ RefreshFailed(t, waiting[t])
  /\ UNCHANGED <<server, expired, sent>>

Settle(t) == (\E r \in Requests : Served(t, r) \/ Unauthorized(t, r) \/ Errs(t, r))
               \/ Refreshed(t) \/ NotRefreshed(t)

Next ==
  \/ Expire \/ ReadToken \/ Rotate
  \/ \E t \in Tabs : Load(t) \/ Bootstrap(t) \/ SignIn(t) \/ Settle(t)
                       \/ \E r \in Requests : Ask(t, r)

Spec == Init /\ [][Next]_vars

(* A request is answered or fails, the server finishes what it serves, and   *)
(* the effect that bootstraps a page runs.                                   *)
FairSpec ==
  /\ Spec
  /\ WF_vars(ReadToken) /\ WF_vars(Rotate)
  /\ \A t \in Tabs :
       /\ WF_vars(Bootstrap(t)) /\ WF_vars(Refreshed(t)) /\ WF_vars(NotRefreshed(t))
       /\ \A r \in Requests : WF_vars(Served(t, r) \/ Unauthorized(t, r) \/ Errs(t, r))

-----------------------------------------------------------------------------
(* A family is never revoked for reuse because a page presented one token    *)
(* twice: the requests of a page share one exchange, so the token a page     *)
(* presents was spent, if at all, by another page (client.ts,                *)
(* refreshInFlight).                                                         *)
ReuseIsAnothers ==
  \A x \in serving : x.by \in Tabs /\ ~ x.read => row[x.token] # x.by

(* After a sign-out, forced or not, nothing of the session is on the screen, *)
(* and nothing that was under way puts it there (AuthProvider.endSession).   *)
SignedOutShowsNothing ==
  \A t \in Tabs : status[t] = "anonymous" => shown[t] = None /\ data[t] = {}

(* Why the first holds.  What anybody knows of is issued.                     *)
Issued(k) == k = None \/ row[k] # None
TokensAreIssued ==
  /\ \A k \in Token : row[k] # None => owner[k[1]] # None
  /\ Issued(stored)
  /\ \A x \in serving : row[x.token] # None
  /\ \A t \in Tabs :
       /\ Issued(access[t])
       /\ \A r \in Requests : sent[t][r] # None => Issued(sent[t][r].token)

(* A page has one exchange at the server, the one it waits for, and none once *)
(* it is answered.                                                            *)
OneExchange ==
  /\ \A x, y \in serving : x.by \in Tabs =>
       /\ flight[x.by] = x.token /\ answer[x.by] = None
       /\ y.by = x.by => y = x
  /\ \A t \in Tabs : flight[t] = None => answer[t] = None

(* A successor on its way is known to nobody but the page it goes to.         *)
AnswersAreNew ==
  \A t \in Tabs : answer[t] \in Token =>
    /\ row[answer[t]] \in {"live", "revoked"} /\ stored # answer[t]
    /\ \A x \in serving : x.token # answer[t]
    /\ \A u \in Tabs : answer[u] = answer[t] => u = t

(* The token stored was not spent by a page, but for one that is about to     *)
(* replace it.                                                                *)
SpentIsReplaced ==
  \A t \in Tabs : stored # None /\ row[stored] = t => flight[t] = stored /\ answer[t] \in Token

(* And why the second: what a signed-out page still waits for is dropped.     *)
Quiet ==
  \A t \in Tabs :
    /\ \A r \in waiting[t] \cap Requests : sent[t][r] = None
    /\ status[t] # "authenticated" =>
         shown[t] = None /\ data[t] = {} /\ Queries \cap Outstanding(t) \subseteq dropped[t]

IInv ==
  /\ TypeOK /\ TokensAreIssued /\ OneExchange /\ AnswersAreNew /\ SpentIsReplaced
  /\ ReuseIsAnothers /\ Quiet

(* A page holds its splash and a request its spinner for a while only: the   *)
(* exchange they wait for is never waited for by itself.                     *)
EverythingSettles ==
  \A t \in Tabs :
    /\ status[t] = "loading" ~> status[t] # "loading"
    /\ \A r \in Requests : (r \in Outstanding(t)) ~> (r \notin Outstanding(t))

==============================================================================
