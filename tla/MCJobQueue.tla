---------------------------- MODULE MCJobQueue ----------------------------
(***************************************************************************)
(* JobQueue on a small instance: two rows of different priority and two    *)
(* owners that lease, finish and vanish in any order.                      *)
(***************************************************************************)
EXTENDS JobQueue

CONSTANTS extract, consolidate      \* a Phase 1 row and a Phase 2 row

\* enqueue_phase1_jobs queues with priority 10, enqueue_phase2_jobs with 5.
MCPriority == [j \in {extract, consolidate} |-> IF j = extract THEN 10 ELSE 5]
=============================================================================
