-------------------------- MODULE ConsoleSessionProofs --------------------------
(***************************************************************************)
(* Theorems about ConsoleSession for any users, tabs and queries, and any   *)
(* bounds on sign-ins, refresh tokens and faults.                           *)
(*                                                                         *)
(* ReuseIsAnothers is not inductive.  A page presents the token stored, so  *)
(* that one must not be spent by the page itself, unless it has the         *)
(* successor already (SpentIsReplaced); the successor it stores must be     *)
(* unspent (AnswersAreNew), because nobody else knows of it when it is      *)
(* minted (TokensAreIssued), and the page has no second exchange under way  *)
(* that would spend it (OneExchange).  SignedOutShowsNothing needs what the *)
(* queries under way would bring to be dropped (Quiet).  The last section   *)
(* puts the two halves together.                                            *)
(***************************************************************************)
EXTENDS ConsoleSession, TLAPS

Exchange == [by : Tabs \cup {Nobody}, token : Token, read : BOOLEAN]

(* A page that is gone is no page's exchange any more. *)
LEMMA OrphanedType ==
  ASSUME serving \subseteq Exchange, NEW t
  PROVE  {IF x.by = t THEN [x EXCEPT !.by = Nobody] ELSE x : x \in serving} \subseteq Exchange
  <1>1. ASSUME NEW x \in Exchange PROVE [x EXCEPT !.by = Nobody] \in Exchange
    BY DEF Exchange
  <1> QED BY <1>1

(* A revocation leaves the rows what rows are. *)
LEMMA RevokeType ==
  ASSUME TypeOK, NEW f, RevokeFamily(f)
  PROVE  row' \in [Token -> {None, "live", "revoked", Nobody} \cup Tabs]
  BY DEF RevokeFamily, TypeOK

LEMMA InitType == Init => TypeOK
  BY Bounds, Distinct DEF Init, TypeOK, Nothing

LEMMA EndSessionType ==
  ASSUME TypeOK, NEW t \in Tabs, NEW over, EndSession(t, over)
  PROVE  /\ stored' \in Token \cup {None} /\ access' \in [Tabs -> Token \cup {None}]
         /\ status' \in [Tabs -> {"loading", "anonymous", "authenticated"}]
         /\ shown' \in [Tabs -> Users \cup {None}]
         /\ data' \in [Tabs -> SUBSET Users]
         /\ dropped' \in [Tabs -> SUBSET Queries]
  BY DEF TypeOK, EndSession

LEMMA RefreshOnceType ==
  ASSUME TypeOK, NEW t \in Tabs, NEW c \in Requests \cup {"boot"}, RefreshOnce(t, c),
         flight[t] = None => stored # None
  PROVE  /\ waiting' \in [Tabs -> SUBSET (Requests \cup {"boot"})]
         /\ flight' \in [Tabs -> Token \cup {None}]
         /\ serving' \subseteq [by : Tabs \cup {Nobody}, token : Token, read : BOOLEAN]
  <1>1. /\ waiting' \in [Tabs -> SUBSET (Requests \cup {"boot"})]
        /\ flight' \in [Tabs -> Token \cup {None}]
    BY DEF TypeOK, RefreshOnce
  <1>2. CASE flight[t] # None
    BY <1>1, <1>2 DEF TypeOK, RefreshOnce
  <1>3. CASE flight[t] = None
    <2>1. stored \in Token /\ serving' = serving \cup {[by |-> t, token |-> stored, read |-> FALSE]}
      BY <1>3 DEF TypeOK, RefreshOnce
    <2>2. [by |-> t, token |-> stored, read |-> FALSE] \in
             [by : Tabs \cup {Nobody}, token : Token, read : BOOLEAN]
      BY <2>1
    <2> QED BY <1>1, <2>1, <2>2 DEF TypeOK
  <1> QED BY <1>2, <1>3

LEMMA RefreshFailedType ==
  ASSUME TypeOK, NEW t \in Tabs, NEW callers, RefreshFailed(t, callers)
  PROVE  /\ waiting' \in [Tabs -> SUBSET (Requests \cup {"boot"})]
         /\ flight' \in [Tabs -> Token \cup {None}]
         /\ answer' \in [Tabs -> Token \cup {None, Refused}]
  BY DEF TypeOK, RefreshFailed

LEMMA EndedType ==
  ASSUME TypeOK, NEW t \in Tabs, NEW r \in Requests, Ended(t, r)
  PROVE  sent' \in [Tabs -> [Requests -> {None} \cup [token : Token \cup {None}, again : BOOLEAN]]]
  BY DEF TypeOK, Ended

LEMMA LoadType == ASSUME TypeOK, NEW t \in Tabs, Load(t) PROVE TypeOK'
  <1>1. serving' \subseteq [by : Tabs \cup {Nobody}, token : Token, read : BOOLEAN]
    BY OrphanedType DEF TypeOK, Load, Exchange
  <1>2. /\ status' \in [Tabs -> {"loading", "anonymous", "authenticated"}]
        /\ shown' \in [Tabs -> Users \cup {None}] /\ access' \in [Tabs -> Token \cup {None}]
        /\ data' \in [Tabs -> SUBSET Users] /\ dropped' \in [Tabs -> SUBSET Queries]
    BY DEF TypeOK, Load
  <1>3. /\ sent' \in [Tabs -> [Requests -> {None} \cup [token : Token \cup {None}, again : BOOLEAN]]]
        /\ waiting' \in [Tabs -> SUBSET (Requests \cup {"boot"})]
        /\ flight' \in [Tabs -> Token \cup {None}] /\ answer' \in [Tabs -> Token \cup {None, Refused}]
    BY DEF TypeOK, Load, Nothing
  <1>4. row' \in [Token -> {None, "live", "revoked", Nobody} \cup Tabs]
    BY DEF TypeOK, Load
  <1>5. faults' \in 0..MaxFaults /\ UNCHANGED <<owner, stored, expired>>
    BY Bounds DEF TypeOK, Load
  <1> QED BY <1>1, <1>2, <1>3, <1>4, <1>5 DEF TypeOK

LEMMA BootstrapType == ASSUME TypeOK, NEW t \in Tabs, Bootstrap(t) PROVE TypeOK'
  BY RefreshOnceType DEF TypeOK, Bootstrap, server

LEMMA SignInType == ASSUME TypeOK, NEW t \in Tabs, SignIn(t) PROVE TypeOK'
  <1>1. PICK u \in Users, f \in 1..Families :
          /\ owner' = [owner EXCEPT ![f] = u]
          /\ row' = [row EXCEPT ![<<f, 1>>] = "live"]
          /\ stored' = <<f, 1>>
          /\ access' = [access EXCEPT ![t] = <<f, 1>>]
          /\ sent' = [sent EXCEPT ![t]["me"] = [token |-> <<f, 1>>, again |-> FALSE]]
    BY DEF SignIn
  <1>2. <<f, 1>> \in Token
    BY Bounds DEF Token
  <1>3. [token |-> <<f, 1>>, again |-> FALSE] \in [token : Token \cup {None}, again : BOOLEAN]
    BY <1>2
  <1>4. sent' \in [Tabs -> [Requests -> {None} \cup [token : Token \cup {None}, again : BOOLEAN]]]
    BY <1>1, <1>3 DEF TypeOK, Requests
  <1>5. owner' \in [1..Families -> Users \cup {None}] /\ access' \in [Tabs -> Token \cup {None}]
    BY <1>1, <1>2 DEF TypeOK
  <1>6. row' \in [Token -> {None, "live", "revoked", Nobody} \cup Tabs]
    BY <1>1, <1>2 DEF TypeOK
  <1> QED BY <1>1, <1>2, <1>4, <1>5, <1>6 DEF TypeOK, SignIn, view

LEMMA AskType == ASSUME TypeOK, NEW t \in Tabs, NEW r \in Requests, Ask(t, r) PROVE TypeOK'
  BY DEF TypeOK, Ask, view, server

LEMMA ExpireType == ASSUME TypeOK, Expire PROVE TypeOK'
  BY DEF TypeOK, Expire, view, server

LEMMA UnauthorizedType == ASSUME TypeOK, NEW t \in Tabs, NEW r \in Requests, Unauthorized(t, r) PROVE TypeOK'
  BY EndedType, EndSessionType, RefreshFailedType, RefreshOnceType DEF TypeOK, Unauthorized, RefreshFailed, view, server

LEMMA ErrsType == ASSUME TypeOK, NEW t \in Tabs, NEW r \in Requests, Errs(t, r) PROVE TypeOK'
  <1>1. faults' \in 0..MaxFaults
    BY Bounds DEF TypeOK, Errs
  <1>2. CASE EndSession(t, {r})
    BY <1>1, <1>2, EndedType, EndSessionType DEF TypeOK, Errs, server
  <1>3. CASE dropped' = [dropped EXCEPT ![t] = @ \ {r}] /\ UNCHANGED <<stored, access, view>>
    BY <1>1, <1>3, EndedType DEF TypeOK, Errs, view, server
  <1> QED BY <1>2, <1>3 DEF Errs

LEMMA ServedType ==
  ASSUME TypeOK, TokensAreIssued, NEW t \in Tabs, NEW r \in Requests, Served(t, r)
  PROVE  TypeOK'
  <1> DEFINE f == sent[t][r].token[1]
  <1>1. owner[f] \in Users \cup {None}
    BY DEF TypeOK, Served, Valid, Token
  <1>2. owner[f] # None
    BY DEF TypeOK, Served, Valid, TokensAreIssued, Issued
  <1>3. CASE r = "me"
    BY <1>1, <1>3, EndedType DEF TypeOK, Served
  <1>4. CASE r = "logout"
    <2>1. RevokeFamily(f) /\ EndSession(t, {r})
      BY <1>4 DEF Served
    <2> QED BY <2>1, EndedType, RevokeType, EndSessionType DEF TypeOK, Served
  <1>5. CASE r \notin {"me", "logout"}
    <2>1. /\ data' = IF r \in dropped[t] THEN data ELSE [data EXCEPT ![t] = @ \cup {owner[f]}]
          /\ dropped' = [dropped EXCEPT ![t] = @ \ {r}]
          /\ UNCHANGED <<row, stored, access, status, shown>>
      BY <1>5 DEF Served
    <2>2. data' \in [Tabs -> SUBSET Users] /\ dropped' \in [Tabs -> SUBSET Queries]
      BY <1>1, <1>2, <2>1 DEF TypeOK
    <2> QED BY <2>1, <2>2, EndedType DEF TypeOK, Served
  <1> QED BY <1>3, <1>4, <1>5

LEMMA ReadTokenType == ASSUME TypeOK, ReadToken PROVE TypeOK'
  <1>1. PICK x \in serving :
          /\ ~ x.read
          /\ \/ RevokeFamily(x.token[1]) /\ Answered(x, Refused)
             \/ Answered(x, Refused) /\ UNCHANGED row
             \/ serving' = (serving \ {x}) \cup {[x EXCEPT !.read = TRUE]} /\ UNCHANGED <<row, answer>>
    BY DEF ReadToken
  <1>2. row' \in [Token -> {None, "live", "revoked", Nobody} \cup Tabs]
    BY <1>1, RevokeType DEF TypeOK
  <1>3. answer' \in [Tabs -> Token \cup {None, Refused}]
    BY <1>1 DEF Answered, TypeOK
  <1>4. serving' \subseteq [by : Tabs \cup {Nobody}, token : Token, read : BOOLEAN]
    <2>1. x \in Exchange
      BY DEF TypeOK, Exchange
    <2>2. [x EXCEPT !.read = TRUE] \in [by : Tabs \cup {Nobody}, token : Token, read : BOOLEAN]
      BY <2>1 DEF Exchange
    <2> QED BY <1>1, <2>2 DEF Answered, TypeOK
  <1> QED BY <1>2, <1>3, <1>4 DEF TypeOK, ReadToken, browser, view

LEMMA RotateType == ASSUME TypeOK, Rotate PROVE TypeOK'
  <1>1. PICK x \in serving, k \in Token :
          row' = [row EXCEPT ![x.token] = x.by, ![k] = "live"] /\ Answered(x, k)
    BY DEF Rotate
  <1>2. x.by \in Tabs \cup {Nobody} /\ x.token \in Token
    BY DEF TypeOK
  <1>3. row' \in [Token -> {None, "live", "revoked", Nobody} \cup Tabs]
    BY <1>1, <1>2 DEF TypeOK
  <1>4. answer' \in [Tabs -> Token \cup {None, Refused}] /\ serving' \subseteq serving
    BY <1>1 DEF Answered, TypeOK
  <1> QED BY <1>3, <1>4 DEF TypeOK, Rotate, browser, view

LEMMA RefreshedType == ASSUME TypeOK, NEW t \in Tabs, Refreshed(t) PROVE TypeOK'
  BY DEF TypeOK, Refreshed, view, server

LEMMA NotRefreshedType == ASSUME TypeOK, NEW t \in Tabs, NotRefreshed(t) PROVE TypeOK'
  <1>1. faults' \in 0..MaxFaults
    BY Bounds DEF TypeOK, NotRefreshed
  <1>2. serving' \subseteq [by : Tabs \cup {Nobody}, token : Token, read : BOOLEAN]
    <2>1. CASE UNCHANGED serving
      BY <2>1 DEF TypeOK
    <2>2. CASE serving' = {IF x.by = t THEN [x EXCEPT !.by = Nobody] ELSE x : x \in serving}
      BY <2>2, OrphanedType DEF TypeOK, Exchange
    <2> QED BY <2>1, <2>2 DEF NotRefreshed
  <1>3. RefreshFailed(t, waiting[t]) /\ EndSession(t, waiting[t])
    BY DEF NotRefreshed, RefreshFailed
  <1> QED BY <1>1, <1>2, <1>3, EndSessionType, RefreshFailedType DEF TypeOK, NotRefreshed, server

LEMMA NextType == ASSUME TypeOK, TokensAreIssued, [Next]_vars PROVE TypeOK'
  <1>1. CASE Expire
    BY <1>1, ExpireType
  <1>2. CASE ReadToken \/ Rotate
    BY <1>2, ReadTokenType, RotateType
  <1>3. CASE \E t \in Tabs : Load(t) \/ Bootstrap(t) \/ SignIn(t) \/ \E r \in Requests : Ask(t, r)
    BY <1>3, LoadType, BootstrapType, SignInType, AskType
  <1>4. CASE \E t \in Tabs : Settle(t)
    BY <1>4, ServedType, UnauthorizedType, ErrsType, RefreshedType, NotRefreshedType DEF Settle
  <1>5. CASE UNCHANGED vars
    BY <1>5 DEF vars, TypeOK
  <1> QED BY <1>1, <1>2, <1>3, <1>4, <1>5 DEF Next

-----------------------------------------------------------------------------
Exchanges == TokensAreIssued /\ OneExchange /\ AnswersAreNew /\ SpentIsReplaced /\ ReuseIsAnothers

LEMMA InitExchanges == Init => Exchanges
  BY Distinct DEF Init, Exchanges, TokensAreIssued, OneExchange, AnswersAreNew, SpentIsReplaced,
     ReuseIsAnothers, Issued, Nothing

(* What an action does not know of stays so: nothing new is presented, read    *)
(* or minted, a live token may be revoked, the one stored given up, and what    *)
(* requests carry is issued.                                                    *)
LEMMA Recedes ==
  ASSUME TypeOK, TypeOK', Exchanges, UNCHANGED <<owner, serving, flight, answer>>,
         stored' \in {stored, None},
         \A k \in Token : row'[k] = row[k] \/ (row[k] = "live" /\ row'[k] = "revoked"),
         \A t \in Tabs : access'[t] \in {access[t], None},
         \A t \in Tabs, r \in Requests : sent'[t][r] # None =>
             sent'[t][r] = sent[t][r] \/ Issued(sent'[t][r].token)
  PROVE  Exchanges'
  <1> USE Distinct
  <1>1. \A k : k \in Token \cup {None} => (Issued(k) => Issued(k)')
    BY DEF Issued, TypeOK
  <1>2. TokensAreIssued'
    <2>1. \A k \in Token : row'[k] # None => owner'[k[1]] # None
      BY DEF Exchanges, TokensAreIssued
    <2>2. Issued(stored)'
      BY <1>1 DEF Exchanges, TokensAreIssued, Issued, TypeOK
    <2>3. \A x \in serving' : row'[x.token] # None
      BY DEF Exchanges, TokensAreIssued, TypeOK
    <2>4. \A t \in Tabs : Issued(access[t])'
      BY <1>1 DEF Exchanges, TokensAreIssued, Issued, TypeOK
    <2>5. ASSUME NEW t \in Tabs, NEW r \in Requests, sent'[t][r] # None
          PROVE  Issued(sent[t][r].token)'
      <3>1. sent'[t][r].token \in Token \cup {None}
        BY <2>5 DEF TypeOK
      <3>2. Issued(sent'[t][r].token)
        BY <2>5 DEF Exchanges, TokensAreIssued
      <3> QED BY <3>1, <3>2, <1>1
    <2> QED BY <2>1, <2>2, <2>3, <2>4, <2>5 DEF TokensAreIssued
  <1>3. OneExchange'
    BY DEF Exchanges, OneExchange
  <1>4. AnswersAreNew'
    BY DEF Exchanges, AnswersAreNew, TypeOK
  <1>5. SpentIsReplaced'
    BY DEF Exchanges, SpentIsReplaced, TypeOK
  <1>6. ReuseIsAnothers'
    BY DEF Exchanges, ReuseIsAnothers, TypeOK
  <1> QED BY <1>2, <1>3, <1>4, <1>5, <1>6 DEF Exchanges

LEMMA AskExchanges ==
  ASSUME TypeOK, TypeOK', Exchanges, NEW t \in Tabs, NEW r \in Requests, Ask(t, r)
  PROVE  Exchanges'
  <1>1. \A u \in Tabs, q \in Requests : sent'[u][q] # None =>
           sent'[u][q] = sent[u][q] \/ Issued(sent'[u][q].token)
    BY DEF Ask, TypeOK, Exchanges, TokensAreIssued
  <1> QED BY <1>1, Recedes DEF Ask, server

LEMMA ExpireExchanges ==
  ASSUME TypeOK, TypeOK', Exchanges, Expire PROVE Exchanges'
  BY Recedes DEF Expire, server

LEMMA EndedTokens ==
  ASSUME TypeOK, NEW t \in Tabs, NEW r \in Requests, Ended(t, r)
  PROVE  \A u \in Tabs, q \in Requests : sent'[u][q] # None => sent'[u][q] = sent[u][q]
  BY DEF TypeOK, Ended

LEMMA EndSessionKeeps ==
  ASSUME TypeOK, NEW t \in Tabs, NEW over, EndSession(t, over)
  PROVE  stored' = None /\ \A u \in Tabs : access'[u] \in {access[u], None}
  BY DEF TypeOK, EndSession

LEMMA ServedExchanges ==
  ASSUME TypeOK, TypeOK', Exchanges, NEW t \in Tabs, NEW r \in Requests, Served(t, r)
  PROVE  Exchanges'
  <1>1. \A u \in Tabs, q \in Requests : sent'[u][q] # None => sent'[u][q] = sent[u][q]
    BY EndedTokens DEF Served
  <1>2. UNCHANGED <<owner, serving, flight, answer>>
    BY DEF Served
  <1>3. CASE r = "logout"
    <2>1. RevokeFamily(sent[t][r].token[1]) /\ EndSession(t, {r})
      BY <1>3 DEF Served
    <2>2. \A k \in Token : row'[k] = row[k] \/ (row[k] = "live" /\ row'[k] = "revoked")
      BY <2>1 DEF RevokeFamily, Live
    <2> QED BY <1>1, <1>2, <2>1, <2>2, EndSessionKeeps, Recedes
  <1>4. CASE r # "logout"
    <2>1. UNCHANGED <<row, stored, access>>
      BY <1>4 DEF Served
    <2> QED BY <1>1, <1>2, <2>1, Recedes
  <1> QED BY <1>3, <1>4

LEMMA ErrsExchanges ==
  ASSUME TypeOK, TypeOK', Exchanges, NEW t \in Tabs, NEW r \in Requests, Errs(t, r)
  PROVE  Exchanges'
  <1>1. \A u \in Tabs, q \in Requests : sent'[u][q] # None => sent'[u][q] = sent[u][q]
    BY EndedTokens DEF Errs
  <1>2. UNCHANGED <<owner, row, serving, flight, answer>>
    BY DEF Errs, server
  <1>3. CASE EndSession(t, {r})
    BY <1>1, <1>2, <1>3, EndSessionKeeps, Recedes
  <1>4. CASE UNCHANGED <<stored, access>>
    BY <1>1, <1>2, <1>4, Recedes
  <1> QED BY <1>3, <1>4 DEF Errs

(* The exchange of a page that is gone is the same exchange, of nobody. *)
LEMMA Orphaned ==
  ASSUME TypeOK, NEW t \in Tabs,
         serving' = {IF x.by = t THEN [x EXCEPT !.by = Nobody] ELSE x : x \in serving}
  PROVE  \A y \in serving' : \E x \in serving :
            y.token = x.token /\ (y.by \in Tabs => y = x /\ x.by # t)
  <1> SUFFICES ASSUME NEW x \in serving
               PROVE  LET y == IF x.by = t THEN [x EXCEPT !.by = Nobody] ELSE x
                      IN  y.token = x.token /\ (y.by \in Tabs => y = x /\ x.by # t)
    OBVIOUS
  <1>1. x \in Exchange
    BY DEF TypeOK, Exchange
  <1>2. [x EXCEPT !.by = Nobody].token = x.token /\ [x EXCEPT !.by = Nobody].by = Nobody
    BY <1>1 DEF Exchange
  <1> QED BY <1>2, Distinct

LEMMA LoadExchanges ==
  ASSUME TypeOK, TypeOK', Exchanges, NEW t \in Tabs, Load(t)
  PROVE  Exchanges'
  <1> USE Distinct
  <1>1. /\ \A y \in serving' : \E x \in serving :
              y.token = x.token /\ (y.by \in Tabs => y = x /\ x.by # t)
        /\ \A k \in Token : row'[k] = IF row[k] = t THEN Nobody ELSE row[k]
        /\ UNCHANGED <<owner, stored>>
    BY Orphaned DEF Load
  <1>2. \A u \in Tabs : /\ flight'[u] = IF u = t THEN None ELSE flight[u]
                        /\ answer'[u] = IF u = t THEN None ELSE answer[u]
                        /\ access'[u] = IF u = t THEN None ELSE access[u]
                        /\ sent'[u] = IF u = t THEN Nothing ELSE sent[u]
    BY DEF Load, TypeOK
  <1>3. TokensAreIssued'
    <2>1. \A k : k \in Token \cup {None} => (Issued(k) => Issued(k)')
      BY <1>1 DEF Issued, TypeOK
    <2>2. (\A k \in Token : row'[k] # None => owner'[k[1]] # None) /\ Issued(stored)'
      BY <1>1, <2>1 DEF Exchanges, TokensAreIssued, Issued, TypeOK
    <2>3. \A y \in serving' : row'[y.token] # None
      BY <1>1 DEF Exchanges, TokensAreIssued, TypeOK
    <2>4. ASSUME NEW u \in Tabs PROVE Issued(access[u])'
      BY <1>2, <2>1 DEF Exchanges, TokensAreIssued, Issued, TypeOK
    <2>5. ASSUME NEW u \in Tabs, NEW r \in Requests, sent'[u][r] # None
          PROVE  Issued(sent[u][r].token)'
      <3>1. sent'[u][r] = sent[u][r]
        BY <1>2, <2>5 DEF Nothing
      <3>2. sent'[u][r].token \in Token \cup {None} /\ Issued(sent'[u][r].token)
        BY <2>5, <3>1 DEF TypeOK, Exchanges, TokensAreIssued
      <3> QED BY <3>2, <2>1
    <2> QED BY <2>2, <2>3, <2>4, <2>5 DEF TokensAreIssued
  <1>4. OneExchange'
    BY <1>1, <1>2 DEF Exchanges, OneExchange
  <1>5. AnswersAreNew'
    <2> SUFFICES ASSUME NEW u \in Tabs, answer'[u] \in Token
                 PROVE  /\ row'[answer'[u]] \in {"live", "revoked"} /\ stored' # answer'[u]
                        /\ \A y \in serving' : y.token # answer'[u]
                        /\ \A w \in Tabs : answer'[w] = answer'[u] => w = u
      BY DEF AnswersAreNew
    <2>1. u # t /\ answer'[u] = answer[u]
      BY <1>2
    <2> QED BY <1>1, <1>2, <2>1 DEF Exchanges, AnswersAreNew
  <1>6. SpentIsReplaced'
    BY <1>1, <1>2 DEF Exchanges, SpentIsReplaced, TypeOK
  <1>7. ReuseIsAnothers'
    BY <1>1 DEF Exchanges, ReuseIsAnothers, TypeOK
  <1> QED BY <1>3, <1>4, <1>5, <1>6, <1>7 DEF Exchanges

(* The only way an exchange begins. *)
LEMMA RefreshOnceExchanges ==
  ASSUME TypeOK, TypeOK', Exchanges, NEW t \in Tabs, NEW c, RefreshOnce(t, c),
         UNCHANGED <<owner, row, stored, access, answer>>, flight[t] = None => stored # None,
         \A u \in Tabs, q \in Requests : sent'[u][q] # None => sent'[u][q] = sent[u][q]
  PROVE  Exchanges'
  <1> USE Distinct
  <1>1. CASE flight[t] # None
    <2>1. UNCHANGED <<flight, serving>>
      BY <1>1 DEF RefreshOnce
    <2> QED BY <2>1, Recedes
  <1>2. CASE flight[t] = None
    <2> DEFINE new == [by |-> t, token |-> stored, read |-> FALSE]
    <2>1. flight' = [flight EXCEPT ![t] = stored] /\ serving' = serving \cup {new} /\ stored \in Token
      BY <1>2 DEF RefreshOnce, TypeOK
    <2>2. new.by = t /\ new.token = stored /\ new.read = FALSE
      OBVIOUS
    <2>3. \A u \in Tabs : flight'[u] = IF u = t THEN stored ELSE flight[u]
      BY <2>1 DEF TypeOK
    <2>4. answer[t] = None /\ \A x \in serving : x.by # t
      BY <1>2, <2>1 DEF Exchanges, OneExchange, TypeOK
    <2> HIDE DEF new
    <2>5. TokensAreIssued'
      BY <2>1, <2>2 DEF Exchanges, TokensAreIssued, Issued
    <2>6. OneExchange'
      BY <2>1, <2>2, <2>3, <2>4 DEF Exchanges, OneExchange
    <2>7. AnswersAreNew'
      BY <2>1, <2>2, <2>4 DEF Exchanges, AnswersAreNew
    <2>8. SpentIsReplaced'
      BY <1>2, <2>1, <2>3, <2>4 DEF Exchanges, SpentIsReplaced
    <2>9. row[stored] # t
      BY <1>2, <2>1, <2>4 DEF Exchanges, SpentIsReplaced
    <2>10. ReuseIsAnothers'
      BY <2>1, <2>2, <2>9 DEF Exchanges, ReuseIsAnothers
    <2> QED BY <2>5, <2>6, <2>7, <2>8, <2>10 DEF Exchanges
  <1> QED BY <1>1, <1>2

LEMMA BootstrapExchanges ==
  ASSUME TypeOK, TypeOK', Exchanges, NEW t \in Tabs, Bootstrap(t)
  PROVE  Exchanges'
  <1>1. CASE stored = None
    BY <1>1, Recedes DEF Bootstrap, server
  <1>2. CASE stored # None
    BY <1>2, RefreshOnceExchanges DEF Bootstrap, server
  <1> QED BY <1>1, <1>2

LEMMA UnauthorizedExchanges ==
  ASSUME TypeOK, TypeOK', Exchanges, NEW t \in Tabs, NEW r \in Requests, Unauthorized(t, r)
  PROVE  Exchanges'
  <1>1. \A u \in Tabs, q \in Requests : sent'[u][q] # None => sent'[u][q] = sent[u][q]
    BY EndedTokens DEF Unauthorized
  <1>2. CASE stored = None /\ flight[t] = None
    <2>1. EndSession(t, {r}) /\ UNCHANGED <<owner, row, serving>>
      BY <1>2 DEF Unauthorized, RefreshFailed, server
    <2>2. UNCHANGED <<flight, answer>>
      BY <1>2 DEF Unauthorized, RefreshFailed, TypeOK, Exchanges, OneExchange
    <2> QED BY <1>1, <2>1, <2>2, EndSessionKeeps, Recedes
  <1>3. CASE ~ (stored = None /\ flight[t] = None)
    BY <1>1, <1>3, RefreshOnceExchanges DEF Unauthorized, server
  <1> QED BY <1>2, <1>3

(* A family is new: nobody knows of a token of it. *)
LEMMA SignInExchanges ==
  ASSUME TypeOK, TypeOK', Exchanges, NEW t \in Tabs, SignIn(t)
  PROVE  Exchanges'
  <1> USE Distinct
  <1>1. PICK u \in Users, f \in 1..Families :
          /\ owner[f] = None
          /\ owner' = [owner EXCEPT ![f] = u]
          /\ row' = [row EXCEPT ![<<f, 1>>] = "live"]
          /\ stored' = <<f, 1>>
          /\ access' = [access EXCEPT ![t] = <<f, 1>>]
          /\ sent' = [sent EXCEPT ![t]["me"] = [token |-> <<f, 1>>, again |-> FALSE]]
    BY DEF SignIn
  <1> DEFINE n == <<f, 1>>
  <1>2. n \in Token /\ n[1] = f
    BY Bounds DEF Token
  <1>3. row[n] = None
    BY <1>1, <1>2 DEF Exchanges, TokensAreIssued
  <1>4. UNCHANGED <<serving, flight, answer>>
    BY DEF SignIn
  <1>5. \A k \in Token : row'[k] = IF k = n THEN "live" ELSE row[k]
    BY <1>1, <1>2 DEF TypeOK
  <1>6. owner'[f] # None /\ \A g \in 1..Families : g # f => owner'[g] = owner[g]
    BY <1>1 DEF TypeOK
  <1>7. /\ \A w \in Tabs : access'[w] = IF w = t THEN n ELSE access[w]
        /\ \A w \in Tabs, q \in Requests : sent'[w][q] = IF w = t /\ q = "me"
             THEN [token |-> n, again |-> FALSE] ELSE sent[w][q]
    BY <1>1 DEF TypeOK, Requests
  <1> HIDE DEF n
  <1>8. TokensAreIssued'
    <2>1. \A k \in Token : row'[k] # None => owner'[k[1]] # None
      BY <1>2, <1>5, <1>6 DEF Exchanges, TokensAreIssued, Token
    <2>2. Issued(n)' /\ \A k : k \in Token \cup {None} => (Issued(k) => Issued(k)')
      BY <1>2, <1>5 DEF Issued, TypeOK
    <2>3. Issued(stored)' /\ \A x \in serving' : row'[x.token] # None
      BY <1>1, <1>4, <1>5, <2>2 DEF Exchanges, TokensAreIssued, TypeOK, n
    <2>4. \A w \in Tabs : Issued(access[w])'
      BY <1>7, <2>2 DEF Exchanges, TokensAreIssued, TypeOK
    <2>5. ASSUME NEW w \in Tabs, NEW q \in Requests, sent'[w][q] # None
          PROVE  Issued(sent[w][q].token)'
      <3>1. CASE w = t /\ q = "me"
        BY <1>7, <2>2, <3>1
      <3>2. CASE ~ (w = t /\ q = "me")
        <4>1. sent'[w][q] = sent[w][q]
          BY <1>7, <3>2
        <4>2. sent'[w][q].token \in Token \cup {None} /\ Issued(sent'[w][q].token)
          BY <2>5, <4>1 DEF TypeOK, Exchanges, TokensAreIssued
        <4> QED BY <4>2, <2>2
      <3> QED BY <3>1, <3>2
    <2> QED BY <2>1, <2>3, <2>4, <2>5 DEF TokensAreIssued
  <1>9. OneExchange'
    BY <1>4 DEF Exchanges, OneExchange
  <1>10. AnswersAreNew'
    BY <1>1, <1>2, <1>3, <1>4, <1>5 DEF Exchanges, AnswersAreNew, n
  <1>11. SpentIsReplaced'
    BY <1>1, <1>2, <1>5 DEF SpentIsReplaced, n
  <1>12. ReuseIsAnothers'
    BY <1>4, <1>5 DEF Exchanges, ReuseIsAnothers, TypeOK
  <1> QED BY <1>8, <1>9, <1>10, <1>11, <1>12 DEF Exchanges

(* Reading a token, or refusing it, takes the request from those not yet read. *)
LEMMA ReadTokenExchanges ==
  ASSUME TypeOK, TypeOK', Exchanges, ReadToken PROVE Exchanges'
  <1> USE Distinct
  <1>1. PICK x \in serving :
          /\ ~ x.read
          /\ \/ RevokeFamily(x.token[1]) /\ Answered(x, Refused)
             \/ Answered(x, Refused) /\ UNCHANGED row
             \/ serving' = (serving \ {x}) \cup {[x EXCEPT !.read = TRUE]} /\ UNCHANGED <<row, answer>>
    BY DEF ReadToken
  <1>2. UNCHANGED <<owner, stored, access, sent, flight>>
    BY DEF ReadToken, browser
  <1>3. \A k \in Token : row'[k] = row[k] \/ (row[k] = "live" /\ row'[k] = "revoked")
    BY <1>1 DEF RevokeFamily, Live, TypeOK
  <1> DEFINE z == [x EXCEPT !.read = TRUE]
  <1>4. z.by = x.by /\ z.token = x.token /\ z.read
    <2>1. x \in Exchange
      BY DEF TypeOK, Exchange
    <2> QED BY <2>1 DEF Exchange
  <1> HIDE DEF z
  <1>5. \/ /\ serving' = serving \ {x}
           /\ \A u \in Tabs : answer'[u] = IF u = x.by THEN Refused ELSE answer[u]
        \/ serving' = (serving \ {x}) \cup {z} /\ UNCHANGED answer
    BY <1>1 DEF Answered, TypeOK, z
  <1>6. TokensAreIssued'
    <2>1. \A k : k \in Token \cup {None} => (Issued(k) => Issued(k)')
      BY <1>3 DEF Issued, TypeOK
    <2>2. \A k \in Token : row'[k] # None => owner'[k[1]] # None
      BY <1>2, <1>3 DEF Exchanges, TokensAreIssued
    <2>3. Issued(stored)' /\ \A u \in Tabs : Issued(access[u])'
      BY <1>2, <2>1 DEF Exchanges, TokensAreIssued, TypeOK
    <2>4. \A y \in serving' : row'[y.token] # None
      BY <1>3, <1>4, <1>5 DEF Exchanges, TokensAreIssued, TypeOK
    <2>5. ASSUME NEW u \in Tabs, NEW q \in Requests, sent'[u][q] # None
          PROVE  Issued(sent[u][q].token)'
      <3>1. sent[u][q].token \in Token \cup {None} /\ Issued(sent[u][q].token)
        BY <1>2, <2>5 DEF TypeOK, Exchanges, TokensAreIssued
      <3> QED BY <1>2, <3>1, <2>1
    <2> QED BY <2>2, <2>3, <2>4, <2>5 DEF TokensAreIssued
  <1>7. OneExchange'
    <2>1. \A y \in serving' : (y \in serving /\ y # x) \/ (y = z /\ UNCHANGED answer)
      BY <1>5
    <2>2. ASSUME NEW y \in serving', y.by \in Tabs
          PROVE  flight'[y.by] = y.token /\ answer'[y.by] = None
      <3>1. CASE y \in serving /\ y # x
        BY <1>2, <1>5, <2>2, <3>1 DEF Exchanges, OneExchange
      <3>2. CASE y = z /\ UNCHANGED answer
        BY <1>2, <1>4, <2>2, <3>2 DEF Exchanges, OneExchange
      <3> QED BY <2>1, <3>1, <3>2
    <2>3. ASSUME NEW y \in serving', NEW w \in serving', y.by \in Tabs, w.by = y.by PROVE w = y
      BY <1>4, <2>1, <2>3 DEF Exchanges, OneExchange
    <2>4. ASSUME NEW u \in Tabs, flight'[u] = None PROVE answer'[u] = None
      <3>1. x.token # None
        BY DEF TypeOK
      <3>2. u # x.by
        BY <1>2, <2>4, <3>1 DEF Exchanges, OneExchange
      <3> QED BY <1>2, <1>5, <2>4, <3>2 DEF Exchanges, OneExchange
    <2> QED BY <2>2, <2>3, <2>4 DEF OneExchange
  <1>8. AnswersAreNew'
    BY <1>2, <1>3, <1>4, <1>5 DEF Exchanges, AnswersAreNew
  <1>9. SpentIsReplaced'
    <2> SUFFICES ASSUME NEW u \in Tabs, stored # None, row'[stored] = u
                 PROVE  flight[u] = stored /\ answer'[u] \in Token
      BY <1>2 DEF SpentIsReplaced
    <2>1. row[stored] = u
      BY <1>3 DEF TypeOK
    <2>2. flight[u] = stored /\ answer[u] \in Token
      BY <2>1 DEF Exchanges, SpentIsReplaced
    <2>3. u # x.by
      BY <2>2 DEF Exchanges, OneExchange
    <2> QED BY <1>5, <2>2, <2>3
  <1>10. ReuseIsAnothers'
    BY <1>3, <1>4, <1>5 DEF Exchanges, ReuseIsAnothers, TypeOK
  <1> QED BY <1>6, <1>7, <1>8, <1>9, <1>10 DEF Exchanges

(* The successor minted is new to everybody but the page whose exchange it is. *)
LEMMA RotateExchanges ==
  ASSUME TypeOK, TypeOK', Exchanges, Rotate PROVE Exchanges'
  <1> USE Distinct
  <1>1. PICK x \in serving, k \in Token :
          /\ k[1] = x.token[1] /\ row[k] = None
          /\ row' = [row EXCEPT ![x.token] = x.by, ![k] = "live"]
          /\ Answered(x, k)
    BY DEF Rotate
  <1>2. UNCHANGED <<owner, stored, access, sent, flight>>
    BY DEF Rotate, browser
  <1>3. x.by \in Tabs \cup {Nobody} /\ x.token \in Token /\ row[x.token] # None
    BY DEF TypeOK, Exchanges, TokensAreIssued
  <1>4. k # x.token
    BY <1>1, <1>3
  <1>5. \A j \in Token : row'[j] = IF j = k THEN "live" ELSE IF j = x.token THEN x.by ELSE row[j]
    BY <1>1, <1>3, <1>4 DEF TypeOK
  <1>6. serving' = serving \ {x} /\ \A u \in Tabs : answer'[u] = IF u = x.by THEN k ELSE answer[u]
    BY <1>1 DEF Answered, TypeOK
  <1>7. \A j : j \in Token \cup {None} => (Issued(j) => Issued(j)')
    BY <1>3, <1>5 DEF Issued
  <1>8. TokensAreIssued'
    <2>1. \A j \in Token : row'[j] # None => owner'[j[1]] # None
      BY <1>1, <1>2, <1>3, <1>5 DEF Exchanges, TokensAreIssued
    <2>2. Issued(stored)' /\ \A u \in Tabs : Issued(access[u])'
      BY <1>2, <1>7 DEF Exchanges, TokensAreIssued, TypeOK
    <2>3. \A y \in serving' : row'[y.token] # None
      BY <1>3, <1>5, <1>6 DEF Exchanges, TokensAreIssued, TypeOK
    <2>4. ASSUME NEW u \in Tabs, NEW q \in Requests, sent'[u][q] # None
          PROVE  Issued(sent[u][q].token)'
      <3>1. sent[u][q].token \in Token \cup {None} /\ Issued(sent[u][q].token)
        BY <1>2, <2>4 DEF TypeOK, Exchanges, TokensAreIssued
      <3> QED BY <1>2, <3>1, <1>7
    <2> QED BY <2>1, <2>2, <2>3, <2>4 DEF TokensAreIssued
  <1>9. OneExchange'
    <2>1. \A y \in serving' : y.by \in Tabs => y.by # x.by
      BY <1>6 DEF Exchanges, OneExchange
    <2>2. \A u \in Tabs : flight[u] = None => u # x.by
      BY <1>3 DEF Exchanges, OneExchange
    <2> QED BY <1>2, <1>6, <2>1, <2>2 DEF Exchanges, OneExchange
  <1>10. \A u \in Tabs : answer[u] \in Token => answer[u] # k /\ answer[u] # x.token
    BY <1>1 DEF Exchanges, AnswersAreNew
  <1>11. stored # k /\ \A y \in serving : y.token # k
    BY <1>1 DEF Exchanges, TokensAreIssued, Issued
  <1>12. AnswersAreNew'
    <2> SUFFICES ASSUME NEW u \in Tabs, answer'[u] \in Token
                 PROVE  /\ row'[answer'[u]] \in {"live", "revoked"} /\ stored' # answer'[u]
                        /\ \A y \in serving' : y.token # answer'[u]
                        /\ \A w \in Tabs : answer'[w] = answer'[u] => w = u
      BY DEF AnswersAreNew
    <2>1. CASE u = x.by
      BY <1>2, <1>5, <1>6, <1>10, <1>11, <2>1
    <2>2. CASE u # x.by
      BY <1>2, <1>5, <1>6, <1>10, <2>2 DEF Exchanges, AnswersAreNew
    <2> QED BY <2>1, <2>2
  <1>13. SpentIsReplaced'
    <2> SUFFICES ASSUME NEW u \in Tabs, stored # None, row'[stored] = u
                 PROVE  flight[u] = stored /\ answer'[u] \in Token
      BY <1>2 DEF SpentIsReplaced
    <2>1. CASE stored = x.token
      BY <1>4, <1>5, <1>6, <2>1 DEF Exchanges, OneExchange, TypeOK
    <2>2. CASE stored # x.token
      BY <1>5, <1>6, <1>11, <2>2 DEF Exchanges, SpentIsReplaced, TypeOK
    <2> QED BY <2>1, <2>2
  <1>14. ReuseIsAnothers'
    <2> SUFFICES ASSUME NEW y \in serving', y.by \in Tabs, ~ y.read PROVE row'[y.token] # y.by
      BY DEF ReuseIsAnothers
    <2>1. y \in serving /\ y # x /\ y.by # x.by /\ y.token # k /\ y.token \in Token
      BY <1>6, <1>11 DEF Exchanges, OneExchange, TypeOK
    <2> QED BY <1>5, <2>1 DEF Exchanges, ReuseIsAnothers
  <1> QED BY <1>8, <1>9, <1>12, <1>13, <1>14 DEF Exchanges

(* The page takes the successor over, which no page has spent. *)
LEMMA RefreshedExchanges ==
  ASSUME TypeOK, TypeOK', Exchanges, NEW t \in Tabs, Refreshed(t) PROVE Exchanges'
  <1> USE Distinct
  <1> DEFINE k == answer[t]
  <1>1. k \in Token /\ k # None /\ row[k] \in {"live", "revoked"} /\ stored' = k
    BY DEF Refreshed, Exchanges, AnswersAreNew
  <1>2. UNCHANGED <<owner, row, serving>>
    BY DEF Refreshed, server
  <1>3. \A u \in Tabs : /\ flight'[u] = IF u = t THEN None ELSE flight[u]
                        /\ answer'[u] = IF u = t THEN None ELSE answer[u]
                        /\ access'[u] = IF u = t THEN k ELSE access[u]
    BY DEF Refreshed, TypeOK
  <1>4. \A u \in Tabs, q \in Requests : sent'[u][q] = sent[u][q] \/ sent'[u][q].token = k
    BY DEF Refreshed, TypeOK
  <1>5. \A x \in serving : x.by # t
    BY <1>1 DEF Exchanges, OneExchange
  <1> HIDE DEF k
  <1>6. TokensAreIssued'
    <2>1. \A j : Issued(j)' <=> Issued(j)
      BY <1>2 DEF Issued
    <2>2. Issued(k)
      BY <1>1 DEF Issued
    <2>3. ASSUME NEW u \in Tabs, NEW q \in Requests, sent'[u][q] # None
          PROVE  Issued(sent'[u][q].token)
      BY <1>4, <2>2, <2>3 DEF Exchanges, TokensAreIssued
    <2>4. \A u \in Tabs : Issued(access'[u])
      BY <1>3, <2>2 DEF Exchanges, TokensAreIssued
    <2>5. ASSUME NEW u \in Tabs, NEW q \in Requests, sent'[u][q] # None
          PROVE  Issued(sent[u][q].token)'
      BY <1>2, <2>3, <2>5 DEF Issued
    <2>6. \A u \in Tabs : Issued(access[u])'
      BY <1>2, <2>4 DEF Issued
    <2> QED BY <1>1, <1>2, <2>5, <2>6 DEF Exchanges, TokensAreIssued, Issued
  <1>7. OneExchange'
    BY <1>2, <1>3, <1>5 DEF Exchanges, OneExchange
  <1>8. AnswersAreNew'
    <2> SUFFICES ASSUME NEW u \in Tabs, answer'[u] \in Token
                 PROVE  /\ row'[answer'[u]] \in {"live", "revoked"} /\ stored' # answer'[u]
                        /\ \A y \in serving' : y.token # answer'[u]
                        /\ \A w \in Tabs : answer'[w] = answer'[u] => w = u
      BY DEF AnswersAreNew
    <2>1. u # t /\ answer'[u] = answer[u]
      BY <1>3
    <2> QED BY <1>1, <1>2, <1>3, <2>1 DEF Exchanges, AnswersAreNew, k
  <1>9. SpentIsReplaced'
    BY <1>1, <1>2 DEF SpentIsReplaced
  <1>10. ReuseIsAnothers'
    BY <1>2 DEF Exchanges, ReuseIsAnothers
  <1> QED BY <1>6, <1>7, <1>8, <1>9, <1>10 DEF Exchanges

LEMMA NotRefreshedExchanges ==
  ASSUME TypeOK, TypeOK', Exchanges, NEW t \in Tabs, NotRefreshed(t) PROVE Exchanges'
  <1> USE Distinct
  <1>1. \A y \in serving' : \E x \in serving :
           y.token = x.token /\ (y.by \in Tabs => y = x /\ x.by # t)
    <2>1. CASE answer[t] = Refused /\ UNCHANGED serving
      BY <2>1 DEF Exchanges, OneExchange
    <2>2. CASE serving' = {IF x.by = t THEN [x EXCEPT !.by = Nobody] ELSE x : x \in serving}
      BY <2>2, Orphaned
    <2> QED BY <2>1, <2>2 DEF NotRefreshed
  <1>2. UNCHANGED <<owner, row, sent>> /\ stored' = None
    BY DEF NotRefreshed, RefreshFailed, EndSession, server
  <1>3. \A u \in Tabs : /\ flight'[u] = IF u = t THEN None ELSE flight[u]
                        /\ answer'[u] = IF u = t THEN None ELSE answer[u]
                        /\ access'[u] = IF u = t THEN None ELSE access[u]
    BY DEF NotRefreshed, RefreshFailed, EndSession, TypeOK
  <1>4. TokensAreIssued'
    <2>1. ASSUME NEW u \in Tabs PROVE Issued(access[u])'
      BY <1>2, <1>3 DEF Exchanges, TokensAreIssued, Issued
    <2>2. ASSUME NEW u \in Tabs, NEW q \in Requests, sent'[u][q] # None
          PROVE  Issued(sent[u][q].token)'
      BY <1>2, <2>2 DEF Exchanges, TokensAreIssued, Issued
    <2> QED BY <1>1, <1>2, <2>1, <2>2 DEF Exchanges, TokensAreIssued, Issued
  <1>5. OneExchange'
    BY <1>1, <1>3 DEF Exchanges, OneExchange
  <1>6. AnswersAreNew'
    <2> SUFFICES ASSUME NEW u \in Tabs, answer'[u] \in Token
                 PROVE  /\ row'[answer'[u]] \in {"live", "revoked"} /\ stored' # answer'[u]
                        /\ \A y \in serving' : y.token # answer'[u]
                        /\ \A w \in Tabs : answer'[w] = answer'[u] => w = u
      BY DEF AnswersAreNew
    <2>1. u # t /\ answer'[u] = answer[u]
      BY <1>3
    <2> QED BY <1>1, <1>2, <1>3, <2>1 DEF Exchanges, AnswersAreNew
  <1>7. SpentIsReplaced'
    BY <1>2 DEF SpentIsReplaced
  <1>8. ReuseIsAnothers'
    BY <1>1, <1>2 DEF Exchanges, ReuseIsAnothers
  <1> QED BY <1>4, <1>5, <1>6, <1>7, <1>8 DEF Exchanges

LEMMA NextExchanges == ASSUME TypeOK, TypeOK', Exchanges, [Next]_vars PROVE Exchanges'
  <1>1. CASE Expire \/ ReadToken \/ Rotate
    BY <1>1, ExpireExchanges, ReadTokenExchanges, RotateExchanges
  <1>2. CASE \E t \in Tabs : Load(t) \/ Bootstrap(t) \/ SignIn(t) \/ \E r \in Requests : Ask(t, r)
    BY <1>2, LoadExchanges, BootstrapExchanges, SignInExchanges, AskExchanges
  <1>3. CASE \E t \in Tabs : Settle(t)
    BY <1>3, ServedExchanges, UnauthorizedExchanges, ErrsExchanges, RefreshedExchanges,
       NotRefreshedExchanges DEF Settle
  <1>4. CASE UNCHANGED vars
    BY <1>4 DEF vars, Exchanges, TokensAreIssued, OneExchange, AnswersAreNew, SpentIsReplaced,
       ReuseIsAnothers, Issued
  <1> QED BY <1>1, <1>2, <1>3, <1>4 DEF Next

-----------------------------------------------------------------------------
(* Quiet, tab by tab: an action of one tab leaves the others as they are.      *)
QuietIn(t) ==
  /\ \A r \in waiting[t] \cap Requests : sent[t][r] = None
  /\ status[t] # "authenticated" =>
       /\ shown[t] = None /\ data[t] = {}
       /\ \A q \in Queries : sent[t][q] # None \/ q \in waiting[t] => q \in dropped[t]

LEMMA QuietTabs == Quiet <=> \A t \in Tabs : QuietIn(t)
  BY DEF Quiet, QuietIn, Outstanding, Requests

LEMMA QuietNext ==
  ASSUME TypeOK, Quiet, NEW t \in Tabs, QuietIn(t)',
         \A u \in Tabs : u # t =>
            /\ waiting'[u] = waiting[u] /\ sent'[u] = sent[u] /\ status'[u] = status[u]
            /\ shown'[u] = shown[u] /\ data'[u] = data[u] /\ dropped'[u] = dropped[u]
  PROVE  Quiet'
  <1>1. ASSUME NEW u \in Tabs, u # t PROVE QuietIn(u)'
    BY <1>1, QuietTabs DEF QuietIn
  <1>2. \A u \in Tabs : QuietIn(u)'
    BY <1>1
  <1> QED BY <1>2 DEF Quiet, QuietIn, Outstanding, Requests

LEMMA EndedIn ==
  ASSUME TypeOK, NEW t \in Tabs, NEW r \in Requests, Ended(t, r)
  PROVE  /\ \A u \in Tabs : u # t => sent'[u] = sent[u]
         /\ \A q \in Requests : sent'[t][q] = IF q = r THEN None ELSE sent[t][q]
  BY DEF TypeOK, Ended

LEMMA EndSessionIn ==
  ASSUME TypeOK, NEW t \in Tabs, NEW over, EndSession(t, over)
  PROVE  /\ \A u \in Tabs : u # t =>
              /\ status'[u] = status[u] /\ shown'[u] = shown[u]
              /\ data'[u] = data[u] /\ dropped'[u] = dropped[u]
         /\ status'[t] = "anonymous" /\ shown'[t] = None /\ data'[t] = {}
         /\ \A q \in Queries :
              (sent[t][q] # None \/ q \in waiting[t]) /\ q \notin over => q \in dropped'[t]
  BY DEF TypeOK, EndSession, Outstanding, Requests

LEMMA LoadQuiet == ASSUME TypeOK, Quiet, NEW t \in Tabs, Load(t) PROVE Quiet'
  <1>1. QuietIn(t)'
    BY DEF Load, TypeOK, QuietIn, Nothing, Requests
  <1> QED BY <1>1, QuietNext DEF Load, TypeOK

LEMMA BootstrapQuiet == ASSUME TypeOK, Quiet, NEW t \in Tabs, Bootstrap(t) PROVE Quiet'
  <1>1. "boot" \notin Requests /\ QuietIn(t) /\ status[t] = "loading" /\ UNCHANGED <<sent, shown, data, dropped>>
    BY Distinct, QuietTabs DEF Bootstrap, Requests
  <1>2. status'[t] # "authenticated" /\ waiting'[t] \subseteq waiting[t] \cup {"boot"}
    BY DEF Bootstrap, RefreshOnce, TypeOK
  <1>3. QuietIn(t)'
    BY <1>1, <1>2 DEF QuietIn, Requests
  <1> QED BY <1>3, QuietNext DEF Bootstrap, RefreshOnce, TypeOK

LEMMA SignInQuiet == ASSUME TypeOK, Quiet, NEW t \in Tabs, SignIn(t) PROVE Quiet'
  <1>1. /\ \A u \in Tabs : u # t => sent'[u] = sent[u]
        /\ \A q \in Requests : q # "me" => sent'[t][q] = sent[t][q]
    BY DEF SignIn, TypeOK, Requests
  <1>2. "me" \notin waiting[t] /\ "me" \notin Queries /\ QuietIn(t)
    BY Distinct, QuietTabs DEF SignIn, Outstanding, Requests
  <1>3. UNCHANGED <<waiting, status, shown, data, dropped>>
    BY DEF SignIn, view
  <1>4. QuietIn(t)'
    BY <1>1, <1>2, <1>3 DEF QuietIn, Requests
  <1> QED BY <1>1, <1>3, <1>4, QuietNext

LEMMA AskQuiet ==
  ASSUME TypeOK, Quiet, NEW t \in Tabs, NEW r \in Requests, Ask(t, r) PROVE Quiet'
  <1>1. /\ \A u \in Tabs : u # t => sent'[u] = sent[u]
        /\ \A q \in Requests : q # r => sent'[t][q] = sent[t][q]
    BY DEF Ask, TypeOK
  <1>2. r \notin waiting[t] /\ status[t] = "authenticated" /\ QuietIn(t)
    BY QuietTabs DEF Ask, Outstanding
  <1>3. UNCHANGED <<waiting, status, shown, data, dropped>>
    BY DEF Ask, view
  <1>4. QuietIn(t)'
    BY <1>1, <1>2, <1>3 DEF QuietIn
  <1> QED BY <1>1, <1>3, <1>4, QuietNext

LEMMA ServedQuiet ==
  ASSUME TypeOK, Quiet, NEW t \in Tabs, NEW r \in Requests, Served(t, r) PROVE Quiet'
  <1>1. /\ \A u \in Tabs : u # t => sent'[u] = sent[u]
        /\ \A q \in Requests : sent'[t][q] = IF q = r THEN None ELSE sent[t][q]
        /\ UNCHANGED waiting
    BY EndedIn DEF Served
  <1>2. QuietIn(t) /\ r \notin waiting[t] /\ Queries \subseteq Requests
    BY QuietTabs DEF Served, QuietIn, Requests
  <1>3. CASE r = "me"
    <2>1. status'[t] = "authenticated" /\ UNCHANGED <<data, dropped>>
          /\ \A u \in Tabs : u # t => status'[u] = status[u] /\ shown'[u] = shown[u]
      BY <1>3 DEF Served, TypeOK
    <2>2. QuietIn(t)'
      BY <1>1, <1>2, <2>1 DEF QuietIn
    <2> QED BY <1>1, <2>1, <2>2, QuietNext
  <1>4. CASE r = "logout"
    <2>1. EndSession(t, {r})
      BY <1>4 DEF Served
    <2>2. QuietIn(t)'
      BY <1>1, <1>2, <2>1, EndSessionIn DEF QuietIn
    <2> QED BY <1>1, <2>1, <2>2, EndSessionIn, QuietNext
  <1>5. CASE r \notin {"me", "logout"}
    <2>1. /\ data' = IF r \in dropped[t] THEN data
                     ELSE [data EXCEPT ![t] = @ \cup {owner[sent[t][r].token[1]]}]
          /\ dropped' = [dropped EXCEPT ![t] = @ \ {r}] /\ UNCHANGED <<status, shown>>
      BY <1>5 DEF Served
    <2>2. r \in Queries /\ sent[t][r] # None
      BY <1>5 DEF Requests, Served
    <2>3. QuietIn(t)'
      BY <1>1, <1>2, <2>1, <2>2 DEF QuietIn, TypeOK
    <2> QED BY <1>1, <2>1, <2>3, QuietNext DEF TypeOK
  <1> QED BY <1>3, <1>4, <1>5

LEMMA UnauthorizedQuiet ==
  ASSUME TypeOK, Quiet, NEW t \in Tabs, NEW r \in Requests, Unauthorized(t, r) PROVE Quiet'
  <1>1. /\ \A u \in Tabs : u # t => sent'[u] = sent[u]
        /\ \A q \in Requests : sent'[t][q] = IF q = r THEN None ELSE sent[t][q]
    BY EndedIn DEF Unauthorized
  <1>2. QuietIn(t) /\ sent[t][r] # None /\ Queries \subseteq Requests
    BY QuietTabs DEF Unauthorized, Requests
  <1>3. CASE RefreshFailed(t, {r})
    <2>1. EndSession(t, {r}) /\ waiting'[t] = {} /\ \A u \in Tabs : u # t => waiting'[u] = waiting[u]
      BY <1>3 DEF RefreshFailed, TypeOK
    <2>2. QuietIn(t)'
      BY <1>1, <1>2, <2>1, EndSessionIn DEF QuietIn
    <2> QED BY <1>1, <2>1, <2>2, EndSessionIn, QuietNext
  <1>4. CASE RefreshOnce(t, r) /\ UNCHANGED <<view, dropped>>
    <2>1. waiting'[t] = waiting[t] \cup {r} /\ \A u \in Tabs : u # t => waiting'[u] = waiting[u]
      BY <1>4 DEF RefreshOnce, TypeOK
    <2>2. UNCHANGED <<status, shown, data, dropped>>
      BY <1>4 DEF view
    <2>3. QuietIn(t)'
      BY <1>1, <1>2, <2>1, <2>2 DEF QuietIn
    <2> QED BY <1>1, <2>1, <2>2, <2>3, QuietNext
  <1> QED BY <1>3, <1>4 DEF Unauthorized

LEMMA ErrsQuiet ==
  ASSUME TypeOK, Quiet, NEW t \in Tabs, NEW r \in Requests, Errs(t, r) PROVE Quiet'
  <1>1. /\ \A u \in Tabs : u # t => sent'[u] = sent[u]
        /\ \A q \in Requests : sent'[t][q] = IF q = r THEN None ELSE sent[t][q]
        /\ UNCHANGED waiting
    BY EndedIn DEF Errs
  <1>2. QuietIn(t) /\ r \notin waiting[t] /\ Queries \subseteq Requests
    BY QuietTabs DEF Errs, QuietIn, Requests
  <1>3. CASE EndSession(t, {r})
    <2>1. QuietIn(t)'
      BY <1>1, <1>2, <1>3, EndSessionIn DEF QuietIn
    <2> QED BY <1>1, <1>3, <2>1, EndSessionIn, QuietNext
  <1>4. CASE dropped' = [dropped EXCEPT ![t] = @ \ {r}] /\ UNCHANGED view
    <2>1. QuietIn(t)'
      BY <1>1, <1>2, <1>4 DEF QuietIn, TypeOK, view
    <2> QED BY <1>1, <1>4, <2>1, QuietNext DEF TypeOK, view
  <1> QED BY <1>3, <1>4 DEF Errs

LEMMA RefreshedQuiet == ASSUME TypeOK, Quiet, NEW t \in Tabs, Refreshed(t) PROVE Quiet'
  <1>1. /\ \A u \in Tabs : u # t => sent'[u] = sent[u] /\ waiting'[u] = waiting[u]
        /\ waiting'[t] = {} /\ UNCHANGED <<status, shown, data, dropped>>
    BY DEF Refreshed, view, TypeOK
  <1>2. \A q \in Requests : q # "me" =>
           (sent'[t][q] # None => sent[t][q] # None \/ q \in waiting[t])
    BY DEF Refreshed, TypeOK
  <1>3. QuietIn(t) /\ Queries \subseteq Requests /\ "me" \notin Queries
    BY QuietTabs, Distinct DEF Requests
  <1>4. QuietIn(t)'
    BY <1>1, <1>2, <1>3 DEF QuietIn
  <1> QED BY <1>1, <1>4, QuietNext

LEMMA NotRefreshedQuiet == ASSUME TypeOK, Quiet, NEW t \in Tabs, NotRefreshed(t) PROVE Quiet'
  <1>1. /\ EndSession(t, waiting[t]) /\ UNCHANGED sent /\ waiting'[t] = {}
        /\ \A u \in Tabs : u # t => waiting'[u] = waiting[u]
    BY DEF NotRefreshed, RefreshFailed, TypeOK
  <1>2. QuietIn(t) /\ Queries \subseteq Requests
    BY QuietTabs DEF Requests
  <1>3. QuietIn(t)'
    BY <1>1, <1>2, EndSessionIn DEF QuietIn
  <1> QED BY <1>1, <1>3, EndSessionIn, QuietNext

LEMMA NextQuiet == ASSUME TypeOK, Quiet, [Next]_vars PROVE Quiet'
  <1>1. CASE Expire \/ ReadToken \/ Rotate \/ UNCHANGED vars
    BY <1>1 DEF Expire, ReadToken, Rotate, browser, vars, view, Quiet, Outstanding
  <1>2. CASE \E t \in Tabs : Load(t) \/ Bootstrap(t) \/ SignIn(t) \/ \E r \in Requests : Ask(t, r)
    BY <1>2, LoadQuiet, BootstrapQuiet, SignInQuiet, AskQuiet
  <1>3. CASE \E t \in Tabs : Settle(t)
    BY <1>3, ServedQuiet, UnauthorizedQuiet, ErrsQuiet, RefreshedQuiet, NotRefreshedQuiet DEF Settle
  <1> QED BY <1>1, <1>2, <1>3 DEF Next

-----------------------------------------------------------------------------
(* The inductive invariant: every state the console and the server reach has   *)
(* the shape of one, with the facts ConsoleSession lists about the exchanges   *)
(* and about a signed-out page (refreshOnce, AuthProvider.endSession).         *)
THEOREM Inductive == Spec => []IInv
  <1>1. Init => IInv
    <2>1. Init => Quiet
      BY DEF Init, Quiet, Nothing, Outstanding
    <2> QED BY <2>1, InitType, InitExchanges DEF IInv, Exchanges
  <1>2. ASSUME IInv, [Next]_vars PROVE IInv'
    <2>1. TypeOK /\ Exchanges /\ Quiet /\ TokensAreIssued
      BY <1>2 DEF IInv, Exchanges
    <2>2. TypeOK'
      BY <1>2, <2>1, NextType
    <2>3. Exchanges' /\ Quiet'
      BY <1>2, <2>1, <2>2, NextExchanges, NextQuiet
    <2> QED BY <2>2, <2>3 DEF IInv, Exchanges
  <1> QED BY <1>1, <1>2, PTL DEF Spec

(* The state keeps its type, whatever is signed in, read or refused. *)
THEOREM TypeCorrect == Spec => []TypeOK
  <1>1. IInv => TypeOK
    BY DEF IInv
  <1> QED BY <1>1, Inductive, PTL

(* No page presents a token it has spent itself: a family is revoked for reuse *)
(* only over a token another page spent (client.ts, refreshInFlight).          *)
THEOREM ReuseNeedsAnother == Spec => []ReuseIsAnothers
  <1>1. IInv => ReuseIsAnothers
    BY DEF IInv
  <1> QED BY <1>1, Inductive, PTL

(* Whatever was under way when the session ended, a signed-out page holds no   *)
(* user and no answers (AuthProvider.endSession).                              *)
THEOREM SignedOutIsBlank == Spec => []SignedOutShowsNothing
  <1>1. IInv => SignedOutShowsNothing
    BY DEF IInv, Quiet, SignedOutShowsNothing
  <1> QED BY <1>1, Inductive, PTL
===============================================================================
