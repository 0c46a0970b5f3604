------------------------ MODULE MCForgetAndRestore ------------------------
(***************************************************************************)
(* ForgetAndRestore with a known fact and one that may still be learned,   *)
(* and two processes.                                                      *)
(***************************************************************************)
EXTENDS ForgetAndRestore, TLC

\* Processes and snapshot directories differ in nothing but their names.
NameSymmetry == Permutations(Procs) \cup Permutations(SnapshotIds)
=============================================================================
