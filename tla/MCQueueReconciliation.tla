------------------------ MODULE MCQueueReconciliation ------------------------
(***************************************************************************)
(* QueueReconciliation with an episode the loader accepts and one too      *)
(* large for it.                                                           *)
(***************************************************************************)
EXTENDS QueueReconciliation, TLC

CONSTANTS e1, e2

MCVerdict == (e1 :> "ready") @@ (e2 :> "oversized")
=============================================================================
