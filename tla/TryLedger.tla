----------------------------- MODULE TryLedger -----------------------------
(***************************************************************************)
(* What the job queue of operations.sqlite3 promises to whoever queues     *)
(* work: a job is tried a bounded number of times, it is decided at most   *)
(* once, it is "done" only if it was tried at least once and "dead" only   *)
(* after every permitted try was spent.  Nothing is said about leases,     *)
(* owners or clocks: those belong to JobQueue, which implements this.      *)
(***************************************************************************)
EXTENDS Naturals

CONSTANTS
    Jobs,       \* the deduplication keys work is queued under
    MaxTries    \* how often one job may be tried

VARIABLE ledger     \* ledger[j]: what was promised and decided for job j

Entry == [phase : {"new", "open", "done", "dead"}, tries : 0 .. MaxTries]

Init == ledger = [j \in Jobs |-> [phase |-> "new", tries |-> 0]]

(***************************************************************************)
(* The steps of one job.  e is its entry before the step and f after it.   *)
(***************************************************************************)
Submit(e, f) == /\ e.phase = "new"
                /\ f = [phase |-> "open", tries |-> 0]

Try(e, f) == /\ e.phase = "open"
             /\ e.tries < MaxTries
             /\ f = [phase |-> "open", tries |-> e.tries + 1]

Settle(e, f) == /\ e.phase = "open"
                /\ e.tries > 0
                /\ f = [phase |-> "done", tries |-> e.tries]

GiveUp(e, f) == /\ e.phase = "open"
                /\ e.tries = MaxTries
                /\ f = [phase |-> "dead", tries |-> e.tries]

Step(e, f) == \/ f = e
              \/ Submit(e, f)
              \/ Try(e, f)
              \/ Settle(e, f)
              \/ GiveUp(e, f)

\* One transaction of the queue may move several jobs, each by one step.
Next == /\ ledger' \in [Jobs -> Entry]
        /\ \A j \in Jobs : Step(ledger[j], ledger'[j])

Spec == Init /\ [][Next]_ledger
=============================================================================
