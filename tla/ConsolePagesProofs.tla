-------------------------- MODULE ConsolePagesProofs --------------------------
(***************************************************************************)
(* Where a tab of the console arrives, for any router, areas and links: an  *)
(* area opens on a page with content that its visitor may open, so a chain  *)
(* of redirects has at most one such step, and the tab is always where it   *)
(* was asked to be, one redirect short of it, or at the sign-in page with   *)
(* the page asked for in hand - unless a reload there found a session that  *)
(* someone else, or a failed sign-in, had left.  The two properties of links then come down  *)
(* to the two rules of the tables.                                          *)
(***************************************************************************)
EXTENDS ConsolePages, SequenceTheorems, WellFoundedInduction, TLAPS

(* A set of indices that is not empty has a first.                           *)
LEMMA FirstIsOne ==
  ASSUME NEW indices, indices \subseteq Nat, indices # {}
  PROVE  First(indices) \in indices
<1> DEFINE Below == OpToRel(<, Nat)
<1>1. IsWellFoundedOn(Below, Nat)
  BY NatLessThanWellFounded
<1> HIDE DEF Below
<1>2. PICK i \in indices : \A j \in indices : ~(<<j, i>> \in Below)
  BY <1>1, WFMin, Zenon
<1>3. ASSUME NEW j \in indices  PROVE i <= j
  <2>1. <<j, i>> \in Below <=> j < i
    BY DEF Below, OpToRel
  <2>2. i \in Nat /\ j \in Nat
    OBVIOUS
  <2> QED  BY <1>2, <2>1, <2>2
<1> QED  BY <1>3 DEF First

(* The sections an area offers are at positions of its list.                 *)
LEMMA ReadableIsListed ==
  ASSUME NEW area \in DOMAIN Sections, NEW held, Readable(area, held) # {}
  PROVE  LET i == First(Readable(area, held)) IN
         i \in DOMAIN Sections[area] /\ Sections[area][i].code \in held
<1>1. Sections[area] \in Seq([path : Pages, code : STRING])
  BY SectionsAreListed
<1>2. DOMAIN Sections[area] \subseteq Nat
  BY <1>1
<1>3. Readable(area, held) \subseteq Nat
  BY <1>2 DEF Readable
<1>4. First(Readable(area, held)) \in Readable(area, held)
  BY <1>3, FirstIsOne
<1> QED  BY <1>4 DEF Readable

(* An area that leads on leads to a page that leads nowhere else, and        *)
(* whoever it leads passes its own gates.                                    *)
LEMMA LandingLeads ==
  ASSUME NEW page \in Pages, NEW held, Landing(page, held) # page
  PROVE  /\ page \in DOMAIN Sections
         /\ Landing(page, held) \in Pages \ (DOMAIN Sections \cup {"/login"})
         /\ Passes(Route[page].gates, held)
<1>1. page \in DOMAIN Sections /\ Readable(page, held) # {}
  BY DEF Landing
<1> DEFINE i == First(Readable(page, held))
<1>2. i \in DOMAIN Sections[page] /\ Sections[page][i].code \in held
  BY <1>1, ReadableIsListed
<1>3. Landing(page, held) = Sections[page][i].path
  BY <1>1 DEF Landing
<1> HIDE DEF i
<1>4. Sections[page][i] \in [path : Pages, code : STRING]
  <2>1. Sections[page] \in Seq([path : Pages, code : STRING])
    BY <1>1, SectionsAreListed
  <2>2. i \in 1..Len(Sections[page])
    BY <1>2, <2>1
  <2> QED  BY <2>1, <2>2, ElementOfSeq
<1>5. Sections[page][i].path \in Pages
  BY <1>4
<1>6. /\ Sections[page][i].path \notin DOMAIN Sections \cup {"/login"}
      /\ \A g \in Route[page].gates : Sections[page][i].code \in g
  BY <1>1, <1>2, SectionsLead
<1> QED  BY <1>1, <1>2, <1>3, <1>5, <1>6 DEF Passes

LEMMA LandingRests ==
  ASSUME NEW page \in Pages, NEW held
  PROVE  /\ Landing(page, held) \in Pages
         /\ Landing(Landing(page, held), held) = Landing(page, held)
         /\ Landing(page, held) = "/login" => page = "/login"
<1>1. CASE Landing(page, held) = page
  BY <1>1
<1>2. CASE Landing(page, held) # page
  BY <1>2, LandingLeads DEF Landing
<1> QED  BY <1>1, <1>2

LEMMA LandingOfEntrances ==
  ASSUME NEW held
  PROVE  Landing("/", held) = "/" /\ Landing("/login", held) = "/login"
BY Entrances DEF Landing

LEMMA HomeFacts ==
  ASSUME NEW page \in Pages
  PROVE  /\ Home(page) \in Pages /\ Home(page) # "/login"
         /\ page # "/login" => Home(page) = page
         /\ Home(Home(page)) = Home(page)
BY Entrances DEF Home

-----------------------------------------------------------------------------
(* The codes are those tried from the start.                                *)
Inv == IInv /\ codes \in Rights

LEMMA InitInv == Init => Inv
<1> SUFFICES ASSUME Init  PROVE Inv
  OBVIOUS
<1>1. PICK p \in Pages : here = At(p, {}) /\ asked = p
  BY DEF Init
<1>2. TypeOK
  BY <1>1, NoneIsNothing DEF Init, TypeOK, Signed, At
<1>3. SigningIn /\ Noted /\ SentHome /\ Located /\ Followed
  BY <1>1 DEF Init, SigningIn, Noted, SentHome, Located, Followed, At
<1> QED  BY <1>2, <1>3 DEF Init, Inv, IInv

LEMMA OpenKeeps ==
  ASSUME Inv, Open  PROVE Inv'
<1>1. PICK p \in Pages : here' = At(p, {}) /\ asked' = p
  BY DEF Open
<1> QED
  BY <1>1, NoneIsNothing
  DEF Open, Inv, IInv, TypeOK, SigningIn, Noted, SentHome, Located, Followed, Signed, At

LEMMA ReloadKeeps ==
  ASSUME Inv, Reload  PROVE Inv'
<1>1. CASE from = None
  BY <1>1 DEF Reload, Inv, IInv, TypeOK, SigningIn, Noted, SentHome, Located, Followed, Signed
<1>2. CASE from # None
  BY <1>2 DEF Reload, Inv, IInv, TypeOK, SigningIn, Noted, SentHome, Located, Followed, Signed
<1> QED  BY <1>1, <1>2

LEMMA RestoreKeeps ==
  ASSUME Inv, Restore  PROVE Inv'
<1>1. via = None /\ signing = None /\ ~restored /\ ~Signed
  BY DEF Restore, Inv, IInv, SigningIn, SentHome, Followed, Signed
<1>2. from = None => here.page = asked
  BY <1>1 DEF Inv, IInv, Located
<1>3. restored' \in BOOLEAN /\ (restored' => Signed' /\ from # None)
  <2>1. CASE restored' = (from # None) /\ status' = "authenticated"
    BY <2>1, Zenon DEF Signed
  <2>2. CASE restored' = restored
    <3>1. restored = FALSE
      BY <1>1 DEF Inv, IInv, TypeOK
    <3> QED  BY <2>2, <3>1
  <2> QED  BY <2>1, <2>2 DEF Restore
<1>4. TypeOK'
  BY <1>1, <1>3, NoneIsNothing DEF Restore, Inv, IInv, TypeOK, Signed
<1>5. SigningIn' /\ SentHome'
  BY <1>1, <1>3 DEF Restore, SigningIn, SentHome
<1>6. Noted'
  <2> SUFFICES ASSUME from # None, Signed'  PROVE restored'
    BY DEF Restore, Inv, IInv, Noted
  <2> QED  BY <1>1 DEF Restore, Signed
<1>7. Located' /\ Followed'
  BY <1>1, <1>2 DEF Restore, Located, Followed
<1> QED
  BY <1>4, <1>5, <1>6, <1>7 DEF Restore, Inv, IInv

LEMMA OtherTabKeeps ==
  ASSUME Inv, OtherTab  PROVE Inv'
BY DEF OtherTab, Inv, IInv, TypeOK, SigningIn, Noted, SentHome, Located, Followed, Signed, Held

LEMMA ToSignInKeeps ==
  ASSUME Inv, ToSignIn  PROVE Inv'
<1>1. /\ from = None /\ here.page = asked /\ via = None
      /\ signing = None /\ ~restored /\ ~Signed
  BY DEF ToSignIn, Inv, IInv, SigningIn, Noted, SentHome, Located, Followed, Signed
<1>2. TypeOK'
  BY <1>1, Entrances DEF ToSignIn, session, At, Inv, IInv, TypeOK, Signed
<1>3. Noted'
  BY <1>1 DEF ToSignIn, session, At, Noted, Signed
<1>4. SigningIn' /\ SentHome' /\ Located' /\ Followed'
  BY <1>1, NoneIsNothing
  DEF ToSignIn, session, At, Inv, IInv, TypeOK, SigningIn, SentHome, Located, Followed
<1> QED
  BY <1>2, <1>3, <1>4 DEF ToSignIn, session, Inv, IInv

LEMMA ToHomeKeeps ==
  ASSUME Inv, ToHome  PROVE Inv'
<1>1. here.page = "/login" /\ Signed /\ asked \in Pages /\ signing = None
  BY DEF ToHome, Inv, IInv, TypeOK, SigningIn, Signed
<1>2. /\ here'.page = "/" /\ here'.with = {} /\ from' = None /\ Signed' /\ Held' = Held
      /\ asked' = Home(asked) /\ UNCHANGED <<session, via, restored>>
  BY <1>1 DEF ToHome, session, At, Signed, Held
<1>3. TypeOK'
  BY <1>1, <1>2, HomeFacts, Entrances DEF session, Inv, IInv, TypeOK, Signed
<1>4. CASE from # None
  <2>1. restored /\ via = None
    BY <1>1, <1>4 DEF Inv, IInv, Noted, SentHome
  <2> QED
    BY <1>1, <1>2, <1>3, <2>1
    DEF session, Inv, IInv, SigningIn, Noted, SentHome, Located, Followed
<1>5. CASE from = None
  <2>1. ~restored
    BY <1>1, <1>5 DEF Inv, IInv, SentHome
  <2>2. asked = "/login"
    BY <1>1, <1>5, <2>1, LandingRests DEF Inv, IInv, Located
  <2>3. asked' = "/"
    BY <1>2, <2>2 DEF Home
  <2>4. Followed'
    <3> SUFFICES ASSUME via # None  PROVE Followed'
      BY <1>2 DEF Followed
    <3>1. via \in Offers /\ via.to \in {"/login", "/"}
      BY <2>2, LinksLead DEF Inv, IInv, Followed, Home
    <3> QED
      BY <1>1, <1>2, <2>2, <2>3, <3>1 DEF session, Inv, IInv, Followed, Home
  <2> QED
    BY <1>1, <1>2, <1>3, <2>1, <2>3, <2>4
    DEF session, Inv, IInv, SigningIn, Noted, SentHome, Located
<1> QED  BY <1>4, <1>5

LEMMA ToSectionKeeps ==
  ASSUME Inv, ToSection  PROVE Inv'
<1>1. here.page \in Pages /\ asked \in Pages /\ Signed /\ signing = None
  BY DEF ToSection, Inv, IInv, TypeOK, SigningIn, Signed
<1>2. /\ here.page \in DOMAIN Sections /\ Landing(here.page, Held) \in Pages
      /\ here'.page = Landing(here.page, Held) /\ here'.with = {}
  BY <1>1, LandingLeads DEF ToSection, At
<1>3. from = None /\ ~restored
  BY <1>2, Entrances DEF Inv, IInv, Noted, SentHome
<1>4. here.page = asked
  <2>1. Landing(Landing(asked, Held), Held) = Landing(asked, Held)
    BY <1>1, LandingRests
  <2> QED  BY <1>1, <1>3, <2>1 DEF ToSection, Inv, IInv, Located
<1>5. TypeOK'
  BY <1>2 DEF ToSection, session, Inv, IInv, TypeOK, Signed
<1>6. Held' = Held /\ Signed'
  BY <1>1 DEF ToSection, session, Held, Signed
<1>7. Located'
  BY <1>2, <1>4, <1>6 DEF ToSection, Located
<1>8. Followed'
  <2> SUFFICES ASSUME via # None  PROVE Followed'
    BY DEF ToSection, Followed
  <2>1. via.to \in DOMAIN Sections \cup {"/login"}
    BY <1>2, <1>4 DEF Inv, IInv, Followed, Home
  <2> QED  BY <1>2, <1>6, <2>1 DEF ToSection, Inv, IInv, Followed
<1> QED
  BY <1>1, <1>3, <1>5, <1>7, <1>8
  DEF ToSection, session, Inv, IInv, SigningIn, Noted, SentHome

LEMMA StoreKeeps ==
  ASSUME Inv, NEW u \in Users, Store(u)  PROVE Inv'
BY DEF Store, Inv, IInv, TypeOK, SigningIn, Noted, SentHome, Located, Followed, Signed, Held

(* A login takes no note for its own, whoever else is in the browser by now. *)
LEMMA EnterKeeps ==
  ASSUME Inv, Enter  PROVE Inv'
<1>1. /\ here.page = "/login" /\ ~Signed /\ via = None /\ ~restored
      /\ signing \in Users /\ asked \in Pages
  BY DEF Enter, Inv, IInv, TypeOK, SigningIn, SentHome, Followed, Signed
<1>2. here'.page = asked' /\ asked' \in Pages
  <2>1. CASE from = None
    <3>1. asked = "/login"
      BY <1>1, <2>1 DEF Inv, IInv, Located
    <3> QED  BY <2>1, <3>1, Entrances DEF Enter, Home, At
  <2>2. CASE from # None
    BY <1>1, <2>2 DEF Enter, Home, At, Inv, IInv, Noted
  <2> QED  BY <2>1, <2>2
<1>3. TypeOK'
  BY <1>1, <1>2, NoneIsNothing DEF Enter, Inv, IInv, TypeOK, Signed
<1> QED
  BY <1>1, <1>2, <1>3
  DEF Enter, Inv, IInv, SigningIn, Noted, SentHome, Located, Followed

LEMMA EnterFailsKeeps ==
  ASSUME Inv, EnterFails  PROVE Inv'
BY DEF EnterFails, Inv, IInv, TypeOK, SigningIn, Noted, SentHome, Located, Followed, Signed, Held

LEMMA EndSessionKeeps ==
  ASSUME Inv, EndSession  PROVE Inv'
<1>1. signing = None
  BY DEF EndSession, Inv, IInv, SigningIn, Signed
<1>2. CASE from = None
  BY <1>1, <1>2
  DEF EndSession, Inv, IInv, TypeOK, SigningIn, Noted, SentHome, Located, Followed, Signed
<1>3. CASE from # None
  BY <1>1, <1>3
  DEF EndSession, Inv, IInv, TypeOK, SigningIn, Noted, SentHome, Located, Followed, Signed
<1> QED  BY <1>2, <1>3

LEMMA FollowKeeps ==
  ASSUME Inv, Follow  PROVE Inv'
<1>1. PICK l \in Offers : Offered(l) /\ here' = At(l.to, l.with) /\ asked' = l.to /\ via' = l
  BY DEF Follow
<1>2. /\ l.to \in Pages /\ here'.page = l.to /\ here'.with = l.with /\ Signed
      /\ Passes(l.shows, Held) /\ (l.on = Everywhere \/ ~Refused(l.on, Held))
  BY <1>1, LinksLead DEF Offered, At
<1>3. Held' = Held /\ Signed' /\ from' = None
  BY <1>2 DEF Follow, session, Held, Signed
<1>4. TypeOK'
  BY <1>1, <1>2, <1>3 DEF Follow, session, Inv, IInv, TypeOK, Signed
<1>5. SigningIn' /\ Noted' /\ SentHome' /\ Located'
  BY <1>1, <1>2, <1>3 DEF Follow, session, Inv, IInv, SigningIn, Noted, SentHome, Located, Signed
<1>6. Followed'
  BY <1>1, <1>2, <1>3 DEF Followed
<1> QED
  BY <1>4, <1>5, <1>6 DEF Follow, session, Inv, IInv

LEMMA NextInv == Inv /\ [Next]_vars => Inv'
<1> SUFFICES ASSUME Inv, [Next]_vars  PROVE Inv'
  OBVIOUS
<1>1. CASE Open
  BY <1>1, OpenKeeps
<1>2. CASE Reload
  BY <1>2, ReloadKeeps
<1>3. CASE Restore
  BY <1>3, RestoreKeeps
<1>4. CASE Redirect
  BY <1>4, ToSignInKeeps, ToHomeKeeps, ToSectionKeeps DEF Redirect
<1>5. CASE Follow
  BY <1>5, FollowKeeps
<1>6. CASE EndSession
  BY <1>6, EndSessionKeeps
<1>7. CASE \E u \in Users : Store(u)
  BY <1>7, StoreKeeps
<1>8. CASE Enter
  BY <1>8, EnterKeeps
<1>9. CASE EnterFails
  BY <1>9, EnterFailsKeeps
<1>10. CASE OtherTab
  BY <1>10, OtherTabKeeps
<1>11. CASE UNCHANGED vars
  BY <1>11
  DEF vars, Inv, IInv, TypeOK, SigningIn, Noted, SentHome, Located, Followed, Signed, Held
<1> QED
  BY <1>1, <1>2, <1>3, <1>4, <1>5, <1>6, <1>7, <1>8, <1>9, <1>10, <1>11 DEF Next

LEMMA InvHolds == Spec => []Inv
BY InitInv, NextInv, PTL DEF Spec

(* The tab is where it was asked to be, one redirect short of it, at the     *)
(* sign-in page with the page asked for in hand, or sent home past that      *)
(* note by a session restored there; and who followed a link was *)
(* offered it and holds the same codes still.                                *)
THEOREM IInvHolds == Spec => []IInv
<1>1. Inv => IInv
  BY DEF Inv
<1> QED  BY <1>1, InvHolds, PTL

-----------------------------------------------------------------------------
(* A tab at rest that nobody restored past the note is where it was asked    *)
(* to be.                                                                    *)
LEMMA Rests ==
  ASSUME Inv, Signed, Settled, ~restored
  PROVE  here.page = Landing(Home(asked), Held)
<1>1. /\ from = None /\ here.page # "/login" /\ asked \in Pages
      /\ Passes(Route[here.page].gates, Held) => Landing(here.page, Held) = here.page
  BY DEF Inv, IInv, TypeOK, Noted, Settled, Redirecting, Signed
<1>2. asked # "/login"
  BY <1>1, LandingOfEntrances DEF Inv, IInv, Located
<1>3. Home(asked) = asked
  BY <1>2 DEF Home
<1>4. CASE here.page = asked
  BY <1>1, <1>3, <1>4, LandingLeads
<1>5. CASE here.page = Landing(asked, Held)
  BY <1>3, <1>5
<1> QED  BY <1>1, <1>4, <1>5 DEF Inv, IInv, Located

LEMMA Arrives == Inv => ArrivesWhereAsked
<1> SUFFICES ASSUME Inv, Signed, Settled
             PROVE  here.page = IF restored THEN "/" ELSE Landing(Home(asked), Held)
  BY DEF ArrivesWhereAsked
<1>1. CASE restored
  BY <1>1 DEF Inv, IInv, Noted, SentHome, Settled, Redirecting
<1>2. CASE ~restored
  BY <1>2, Rests
<1> QED  BY <1>1, <1>2

(* Every way in - by address, by link, by reload, through a restored session *)
(* or a sign-in - ends at the page asked for, or at the first section the    *)
(* user may read of the area asked for, whatever other tabs store and        *)
(* however often the sign-in fails half-way; but a session restored by a     *)
(* reload of the sign-in page opens the dashboard.                           *)
THEOREM EveryWayArrives == Spec => []ArrivesWhereAsked
<1> QED
  BY InvHolds, Arrives, PTL

LEMMA FollowedArrives ==
  ASSUME Inv, Signed, Settled, via # None
  PROVE  here.page = Landing(Home(via.to), Held)
<1>1. via \in Offers /\ asked \in {via.to, Home(via.to)}
  BY DEF Inv, IInv, Followed
<1>2. via.to \in Pages
  BY <1>1, LinksLead
<1>3. Home(asked) = Home(via.to)
  BY <1>1, <1>2, HomeFacts
<1>4. ~restored
  BY DEF Inv, IInv, SentHome
<1> QED  BY <1>3, <1>4, Rests

LEMMA Opens ==
  ASSUME OffersAreOpen, Inv  PROVE OfferedIsOpen
<1> SUFFICES ASSUME Signed, Settled, via # None, Refused(here.page, Held)
             PROVE  <<via.on, via.to>> \in Unlocked
  BY DEF OfferedIsOpen
<1>1. user \in Users /\ Held = codes[user] /\ codes \in Rights
  BY DEF Inv, IInv, TypeOK, Held
<1>2. /\ via \in Offers /\ Passes(via.shows, Held)
      /\ via.on = Everywhere \/ ~Refused(via.on, Held)
  BY DEF Inv, IInv, Followed
<1>3. here.page = Landing(Home(via.to), Held)
  BY FollowedArrives
<1> QED  BY <1>1, <1>2, <1>3 DEF OffersAreOpen

(* If who is offered a link passes the gates of the page it opens, whoever   *)
(* followed a link may open the page it led to, whatever redirects lay on    *)
(* the way.                                                                  *)
THEOREM OfferedLinksAreOpen == OffersAreOpen => (Spec => []OfferedIsOpen)
<1> SUFFICES ASSUME OffersAreOpen  PROVE Spec => []OfferedIsOpen
  OBVIOUS
<1>1. Inv => OfferedIsOpen
  BY Opens
<1> QED  BY <1>1, InvHolds, PTL

LEMMA Carries ==
  ASSUME OffersAreRead, Inv  PROVE LinksArrive
<1> SUFFICES ASSUME Signed, Settled, via # None
             PROVE  /\ here.with = via.with
                    /\ \A w \in via.with :
                         w \in Route[here.page].reads \/ <<here.page, w>> \in Unread
  BY DEF LinksArrive
<1>1. /\ via \in Offers
      /\ here.with = via.with \/ (via.to \in DOMAIN Sections \cup {"/login"} /\ here.with = {})
  BY DEF Inv, IInv, Followed
<1>2. here.with = via.with
  BY <1>1 DEF OffersAreRead
<1>3. ASSUME NEW w \in via.with
      PROVE  w \in Route[here.page].reads \/ <<here.page, w>> \in Unread
  <2>1. /\ via.to \notin DOMAIN Sections \cup {"/login"}
        /\ w \in Route[via.to].reads \/ <<via.to, w>> \in Unread
    BY <1>1, <1>3 DEF OffersAreRead
  <2>2. here.page = via.to
    BY <2>1, FollowedArrives DEF Home, Landing
  <2> QED  BY <2>1, <2>2
<1> QED  BY <1>2, <1>3

(* If a link carries only what its page reads, and nothing to a page that    *)
(* leads on, what it carries is there to be read when the tab comes to rest. *)
THEOREM LinksCarry == OffersAreRead => (Spec => []LinksArrive)
<1> SUFFICES ASSUME OffersAreRead  PROVE Spec => []LinksArrive
  OBVIOUS
<1>1. Inv => LinksArrive
  BY Carries
<1> QED  BY <1>1, InvHolds, PTL
==============================================================================
