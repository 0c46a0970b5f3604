------------------------- MODULE MCReviewLifecycle -------------------------
(***************************************************************************)
(* ReviewLifecycle with three slots: a plan and a deadline that have both  *)
(* expired, and a taste that is still empty and is a semantic neighbour of *)
(* the plan.                                                               *)
(***************************************************************************)
EXTENDS ReviewLifecycle, TLC

CONSTANTS plan, deadline, taste

MCRelated == [s \in {plan, deadline, taste} |->
                 CASE s = plan -> {taste} [] s = taste -> {plan} [] OTHER -> {}]

\* Batch ids and processes differ in nothing but their names.
NameSymmetry == Permutations(Batches) \cup Permutations(Commands)
=============================================================================
