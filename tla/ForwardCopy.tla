----------------------------- MODULE ForwardCopy -----------------------------
(***************************************************************************)
(* What a reader of the console may assume of a view: it shows some state   *)
(* the server has been in, and a later state each time it changes.  Only an *)
(* entry that success handlers fill from their own answer (settable) may go *)
(* back, to another state the server was in.                                *)
(***************************************************************************)
EXTENDS Integers

VARIABLES server, data, settable

vars == <<server, data, settable>>

Init == server = 0 /\ data = -1 /\ settable \in BOOLEAN

Write ==
  /\ server' = server + 1
  /\ UNCHANGED <<data, settable>>

Refresh ==
  /\ data' \in data..server
  /\ UNCHANGED <<server, settable>>

FillFromAnswer ==
  /\ settable
  /\ data' \in 0..server
  /\ UNCHANGED <<server, settable>>

Next == Write \/ Refresh \/ FillFromAnswer

Spec == Init /\ [][Next]_vars
==============================================================================
