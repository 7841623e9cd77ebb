------------------------ MODULE MCWebhookPipeline ------------------------
(* The instances of WebhookPipeline that TLC checks.                       *)
EXTENDS WebhookPipeline, TLC

Symmetry == Permutations(Workers) \cup Permutations(Inbounds)

==========================================================================
