----------------------------- MODULE ConsolePages -----------------------------
(***************************************************************************)
(* Where a tab of the console is, and how it got there: pages opened by     *)
(* their address or reloaded, links followed, the guards that send an       *)
(* anonymous visitor to sign in and back, the areas that open on their      *)
(* first section, and what a signed-in user is refused.                     *)
(*                                                                          *)
(* A redirect is rendered: until it is done the user can do nothing, though *)
(* the session may end.  What the browser keeps is shared with other tabs,  *)
(* which sign in and out at any time; a tab looks only as it loads.  What a *)
(* page asks of the server is in ServerCache, and how a session is restored *)
(* or ends in ConsoleSession.                                               *)
(***************************************************************************)
EXTENDS Naturals, Sequences

CONSTANTS
  Route,      \* the router: the gates of each page, and the parameters it reads
  Sections,   \* the sections, in order, of the areas that have no content of their own
  Offers,     \* what the screens link to, and what they offer it on
  Everywhere, \* where a link of the shell is shown
  Users,
  Rights,     \* the assignments of codes to users that are tried
  Unlocked,   \* links known to lead where their reader may be refused: <<on, to>>
  Unread,     \* parameters known to be sent to a page that does not read them: <<to, with>>
  None

Pages == DOMAIN Route

ASSUME Entrances == {"/", "/login"} \subseteq Pages \ DOMAIN Sections
ASSUME NoneIsNothing == None \notin Users \cup Pages
ASSUME LinksLead == \A l \in Offers : l.to \in Pages
ASSUME SectionsAreListed ==
  Sections \in [DOMAIN Sections -> Seq([path : Pages, code : STRING])]

(* A section is a page with content, and who is offered one passes the gates *)
(* of its area.                                                              *)
ASSUME SectionsLead ==
  \A area \in DOMAIN Sections : \A i \in DOMAIN Sections[area] :
    /\ Sections[area][i].path \notin DOMAIN Sections \cup {"/login"}
    /\ area \in Pages /\ \A g \in Route[area].gates : Sections[area][i].code \in g

VARIABLES
  codes,   \* the permissions of each user
  stored,  \* whose refresh token the browser keeps, for all its tabs
  status,  \* AuthStatus
  user,    \* the MeResponse held
  signing, \* whose tokens a login under way has been given
  here,    \* the location: a page, and the parameters it was opened with
  from,    \* what the guard leaves for the sign-in page
  asked,   \* history: the page last asked for, or on the screen as a session ended
  via,     \* history: the link followed to get here
  restored \* history: a session was restored at the sign-in page, past the guard's note

session == <<codes, stored, status, user, signing>>
vars == <<codes, stored, status, user, signing, here, from, asked, via, restored>>

At(page, with) == [page |-> page, with |-> with]
Signed == status = "authenticated"
Held == IF user = None THEN {} ELSE codes[user]

Passes(gates, held) == \A g \in gates : g \cap held # {}

(* AdminIndexRedirect and its like: the first section the user may read; an  *)
(* area with none stays where it is.                                         *)
Readable(area, held) == {i \in DOMAIN Sections[area] : Sections[area][i].code \in held}
First(indices) == CHOOSE i \in indices : \A j \in indices : i <= j

Landing(page, held) ==
  IF page \notin DOMAIN Sections \/ Readable(page, held) = {} THEN page
  ELSE Sections[page][First(Readable(page, held))].path

(* A signed-in visitor of the sign-in page is sent home.                     *)
Home(page) == IF page = "/login" THEN "/" ELSE page

Refused(page, held) ==
  \/ ~Passes(Route[page].gates, held)
  \/ page \in DOMAIN Sections /\ Landing(page, held) = page

Offered(l) ==
  /\ Signed /\ here.page # "/login"
  /\ l.on \in {Everywhere, here.page} /\ Passes(l.shows, Held)
  /\ l.on = Everywhere \/ ~Refused(here.page, Held)

-----------------------------------------------------------------------------
(* A guard or an index redirect is to be rendered.                           *)
Redirecting ==
  \/ status = "anonymous" /\ here.page # "/login"
  \/ Signed /\ here.page = "/login"
  \/ Signed /\ Passes(Route[here.page].gates, Held) /\ Landing(here.page, Held) # here.page

Settled == status # "loading" /\ ~Redirecting

TypeOK ==
  /\ {stored, user, signing} \subseteq Users \cup {None} /\ restored \in BOOLEAN
  /\ status \in {"loading", "anonymous", "authenticated"} /\ (Signed <=> user # None)
  /\ here.page \in Pages /\ from \in Pages \cup {None} /\ asked \in Pages
  /\ (via = None \/ via \in Offers)

Init ==
  /\ codes \in Rights
  /\ stored \in Users \cup {None}
  /\ status = "loading" /\ user = None /\ signing = None
  /\ \E p \in Pages : here = At(p, {}) /\ asked = p
  /\ from = None /\ via = None /\ restored = FALSE

(* The tab is loaded at an address typed, followed from a mail or kept in a  *)
(* bookmark.                                                                 *)
Open ==
  /\ ~Redirecting
  /\ \E p \in Pages : here' = At(p, {}) /\ asked' = p
  /\ status' = "loading" /\ user' = None /\ signing' = None
  /\ from' = None /\ via' = None /\ restored' = FALSE
  /\ UNCHANGED <<codes, stored>>

(* The history entry keeps the guard's note through a reload.                *)
Reload ==
  /\ ~Redirecting
  /\ status' = "loading" /\ user' = None /\ signing' = None
  /\ via' = None /\ restored' = FALSE
  /\ asked' = IF from = None THEN here.page ELSE asked
  /\ UNCHANGED <<codes, stored, here, from>>

(* bootstrap: the session of whoever is stored, or none.                     *)
Restore ==
  /\ status = "loading"
  /\ \/ /\ stored # None /\ status' = "authenticated" /\ user' = stored
        /\ restored' = (from # None)
        /\ UNCHANGED stored
     \/ status' = "anonymous" /\ user' = None /\ stored' = None /\ UNCHANGED restored
  /\ UNCHANGED <<codes, signing, here, from, asked, via>>

(* setTokens and clearTokens in another tab.                                 *)
OtherTab ==
  /\ stored' \in Users \cup {None}
  /\ UNCHANGED <<codes, status, user, signing, here, from, asked, via, restored>>

(* Mutant: the guard leaves no note. *)
ToSignIn_Forgets ==
  /\ status = "anonymous" /\ here.page # "/login"
  /\ here' = At("/login", {}) /\ from' = None
  /\ UNCHANGED <<session, asked, via, restored>>

(* RequireAuth.  It leaves the whole location; the sign-in page takes its    *)
(* path.                                                                     *)
ToSignIn ==
  /\ status = "anonymous" /\ here.page # "/login"
  /\ here' = At("/login", {}) /\ from' = here.page
  /\ UNCHANGED <<session, asked, via, restored>>

(* Mutant: a signed-in visitor is sent back to the page last asked for. *)
ToHome_Back ==
  /\ Signed /\ here.page = "/login"
  /\ here' = At(asked, {}) /\ from' = None
  /\ UNCHANGED <<session, asked, via, restored>>

(* RequireAnonymous, whatever the guard had noted.                           *)
ToHome ==
  /\ Signed /\ here.page = "/login"
  /\ here' = At("/", {}) /\ from' = None
  /\ asked' = Home(asked)
  /\ UNCHANGED <<session, via, restored>>

ToSection ==
  /\ Signed /\ Passes(Route[here.page].gates, Held)
  /\ Landing(here.page, Held) # here.page
  /\ here' = At(Landing(here.page, Held), {}) /\ from' = None
  /\ UNCHANGED <<session, asked, via, restored>>

(* login, first half: the tokens are kept before /auth/me is asked.          *)
Store(u) ==
  /\ status = "anonymous" /\ here.page = "/login" /\ signing = None
  /\ stored' = u /\ signing' = u
  /\ UNCHANGED <<codes, status, user, here, from, asked, via, restored>>

(* login, second half, and the navigation that follows it in the same        *)
(* commit.                                                                   *)
Enter ==
  /\ signing # None
  /\ status' = "authenticated" /\ user' = signing /\ signing' = None
  /\ here' = At(IF from = None THEN "/" ELSE from, {}) /\ from' = None
  /\ asked' = Home(asked)
  /\ UNCHANGED <<codes, stored, via, restored>>

(* /auth/me fails: the form says so and the tokens stay, unless the failure  *)
(* is a 401 that could not be recovered.                                     *)
EnterFails ==
  /\ signing # None /\ signing' = None
  /\ stored' \in {stored, None}
  /\ UNCHANGED <<codes, status, user, here, from, asked, via, restored>>

(* logout, or a 401 that could not be recovered.                             *)
EndSession ==
  /\ Signed
  /\ stored' = None /\ status' = "anonymous" /\ user' = None
  /\ asked' = (IF from = None THEN here.page ELSE asked)
  /\ via' = None /\ restored' = FALSE
  /\ UNCHANGED <<codes, signing, here, from>>

Follow ==
  /\ ~Redirecting
  /\ \E l \in Offers :
       Offered(l) /\ here' = At(l.to, l.with) /\ asked' = l.to /\ via' = l
  /\ from' = None /\ restored' = FALSE
  /\ UNCHANGED session

Redirect == ToSignIn \/ ToHome \/ ToSection

Next ==
  \/ Open \/ Reload \/ Restore \/ OtherTab \/ Redirect \/ Follow
  \/ Enter \/ EnterFails \/ EndSession
  \/ \E u \in Users : Store(u)

Spec == Init /\ [][Next]_vars /\ WF_vars(Restore) /\ WF_vars(Redirect)

-----------------------------------------------------------------------------
(* A login under way is at the sign-in page.                                 *)
SigningIn == signing # None => status = "anonymous" /\ here.page = "/login"

(* The guard's note is of the page asked for, and only a session restored    *)
(* makes it idle.                                                            *)
Noted ==
  from # None =>
    /\ here.page = "/login" /\ from = asked /\ asked # "/login"
    /\ Signed => restored

(* Who is restored past the note is sent home.                               *)
SentHome == restored => Signed /\ via = None /\ (from # None \/ here.page = "/")

(* A tab is where it was asked to be, or where that area opens.              *)
Located ==
  from = None /\ ~restored =>
    here.page = asked \/ (Signed /\ here.page = Landing(asked, Held))

(* Who followed a link was offered it and holds the same codes still; what   *)
(* the link carries is lost on the way to a section, or home.                *)
Followed ==
  via # None =>
    /\ Signed /\ via \in Offers
    /\ Passes(via.shows, Held) /\ (via.on = Everywhere \/ ~Refused(via.on, Held))
    /\ asked \in {via.to, Home(via.to)}
    /\ here.with = via.with \/ (via.to \in DOMAIN Sections \cup {"/login"} /\ here.with = {})

IInv == TypeOK /\ SigningIn /\ Noted /\ SentHome /\ Located /\ Followed

(* The links rule: who is offered one passes the gates of the page it opens, *)
(* but for those listed.                                                     *)
OffersAreOpen ==
  \A l \in Offers, rights \in Rights, u \in Users :
    LET opens == Landing(Home(l.to), rights[u]) IN
    /\ Passes(l.shows, rights[u]) /\ (l.on = Everywhere \/ ~Refused(l.on, rights[u]))
    /\ Refused(opens, rights[u])
    => <<l.on, l.to>> \in Unlocked

(* The parameters rule: a link carries only what its page reads, but for     *)
(* those listed, and nothing to a page that leads on.                        *)
OffersAreRead ==
  \A l \in Offers : \A w \in l.with :
    /\ l.to \notin DOMAIN Sections \cup {"/login"}
    /\ w \in Route[l.to].reads \/ <<l.to, w>> \in Unread

(* Every way in ends where it was meant to: the page asked for by address,   *)
(* by link or by reload, through a restored session or a sign-in, is the one *)
(* shown, or the first section the user may read of the area asked for       *)
(* (guards.tsx: "a reload never bounces a signed-in user to the login page", *)
(* "login can return there").  One way does not: a session that another tab  *)
(* or a failed sign-in left in the browser, restored by a reload of the      *)
(* sign-in page, opens the dashboard.                                        *)
ArrivesWhereAsked ==
  Signed /\ Settled =>
    here.page = IF restored THEN "/" ELSE Landing(Home(asked), Held)

(* A link shown to a user leads to a page that same user may open, whatever  *)
(* gates lie on the way, but for the links listed.                           *)
OfferedIsOpen ==
  Signed /\ Settled /\ via # None /\ Refused(here.page, Held) =>
    <<via.on, via.to>> \in Unlocked

(* What a link carries reaches a page that reads it, but for those listed.   *)
LinksArrive ==
  Signed /\ Settled /\ via # None =>
    /\ here.with = via.with
    /\ \A w \in via.with : w \in Route[here.page].reads \/ <<here.page, w>> \in Unread

(* No chain of guards and redirects goes on for ever.                        *)
NavigationSettles == ~Settled ~> Settled
=============================================================================
