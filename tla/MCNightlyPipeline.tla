------------------------- MODULE MCNightlyPipeline -------------------------
(***************************************************************************)
(* NightlyPipeline with two episodes, whose candidates fall into one slot  *)
(* or into two, and two processes.                                         *)
(***************************************************************************)
EXTENDS NightlyPipeline, TLC

MCEpisodes == 1 .. 2

OneSlot == [e \in MCEpisodes |-> 1]
TwoSlots == [e \in MCEpisodes |-> e]

\* Processes differ in nothing but their names.
RunSymmetry == Permutations(Runs)
=============================================================================
