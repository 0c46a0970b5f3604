----------------------------- MODULE MCWorkerCalls -----------------------------
(***************************************************************************)
(* WorkerCalls with two calls and one fault.  The shortest regular turn    *)
(* has four lines; one more leaves room for what may be wrong with one.    *)
(***************************************************************************)
EXTENDS WorkerCalls
=============================================================================
