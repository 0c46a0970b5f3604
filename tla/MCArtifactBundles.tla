------------------------- MODULE MCArtifactBundles -------------------------
(***************************************************************************)
(* ArtifactBundles with two processes and a few commits.                   *)
(***************************************************************************)
EXTENDS ArtifactBundles, TLC

\* Processes differ in nothing but their names.
ProcSymmetry == Permutations(Procs)
=============================================================================
