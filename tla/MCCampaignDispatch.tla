------------------------- MODULE MCCampaignDispatch -------------------------
(* The instances of CampaignDispatch that TLC checks.                      *)
EXTENDS CampaignDispatch, TLC

CONSTANT MaxTroubles    \* bound: disturbances of all kinds, those in the making included

Symmetry == Permutations(Workers) \cup Permutations(Requests)

\* The requests in flight that will disturb the campaign when they commit.
Troubling == {q \in Requests :
                \/ asked[q].verb \in {"pause", "cancel", "retry"}
                \/ asked[q].verb # "none" /\ ~ Allows(asked[q].verb, campaign)}

\* The selections whose row has gone.
Overtaken == UNION {{s} \X (scans[s] \ PendingRows) : s \in Scanners}

Troubles == faults + pauses + cancels + reruns + overlaps
              + Cardinality(Troubling) + Cardinality(Overtaken)

FewTroubles == Troubles' <= MaxTroubles

=============================================================================
