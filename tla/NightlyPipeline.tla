-------------------------- MODULE NightlyPipeline --------------------------
(***************************************************************************)
(* Nightly runs over the job queue.  A run is one `run-nightly` process:   *)
(* it queues Phase 1 and Phase 2 work, takes nightly.lock, and then leases *)
(* jobs one at a time, loads each from memory.sqlite3, calls the worker,   *)
(* persists the output, completes the job and, after the last open Phase 1 *)
(* job, queues Phase 2.  Queue and memory are two databases: every arrow   *)
(* of that list is a transaction of its own and the process may die        *)
(* between any two.                                                        *)
(*                                                                         *)
(* An episode yields at most one candidate, named by the episode.  A Phase *)
(* 2 job is identified by the candidates of one slot that it consolidates, *)
(* since its dedupe_key hashes exactly that set (heads and neighbours do   *)
(* not change here: reviewing is the subject of ReviewLifecycle).          *)
(***************************************************************************)
EXTENDS Integers, FiniteSets

CONSTANTS
    Episodes,       \* eligible episodes, numbered by (occurred_from, episode_id)
    Slot,           \* Slot[e]: identity fingerprint of e's candidate, in order
    Limit,          \* max_episodes: the limit run-nightly passes to both enqueues
    Runs,           \* process identities, reused once no row names them
    NoRun,          \* nobody
    MaxAttempts,    \* max_attempts of a job
    MaxCalls,       \* max_model_calls of one run's budget
    MaxLeases,      \* iteration_limit of one run
    MaxMishaps      \* bound: processes that die, find no certification or
                    \* meet an error between persisting and completing

ASSUME EpisodesAssumption == Episodes \subseteq Nat /\ IsFiniteSet(Episodes)
ASSUME SlotAssumption == Slot \in [Episodes -> Nat]
ASSUME BoundsAssumption ==
    /\ {Limit, MaxAttempts, MaxCalls, MaxLeases} \subseteq Nat \ {0}
    /\ MaxMishaps \in Nat
    /\ NoRun \notin Runs

VARIABLES
    jobs,           \* operations.sqlite3: the job rows
    disposition,    \* memory.sqlite3: current disposition of e's candidate
    drafts,         \* memory.sqlite3: review proposals drafted from e's candidate
    lock,           \* the run that holds nightly.lock
    run,            \* run[r]: where process r is and what it remembers
    mishaps         \* how many did so far

vars == <<jobs, disposition, drafts, lock, run, mishaps>>

Phase1(e) == [phase |-> 1, of |-> {e}]
Phase2(group) == [phase |-> 2, of |-> group]

SameSlot(group) == \A c, d \in group : Slot[c] = Slot[d]

Phase1Jobs == {Phase1(e) : e \in Episodes}
Phase2Jobs == {Phase2(g) : g \in {h \in SUBSET Episodes : h # {} /\ SameSlot(h)}}
AllJobs == Phase1Jobs \cup Phase2Jobs

Queue == INSTANCE JobQueue WITH
    Jobs     <- AllJobs,
    Owners   <- Runs,
    NoOwner  <- NoRun,
    Priority <- [j \in AllJobs |-> IF j.phase = 1 THEN 10 ELSE 5]

NoJob == [phase |-> 0, of |-> {}]

\* What a process remembers: its place, the job it leased, the candidates it
\* saw eligible, and the model calls and leases of this run.
Fresh(pc) == [pc |-> pc, job |-> NoJob, seen |-> {}, calls |-> 0, leases |-> 0]

Working == {"load", "reserve", "call", "persist", "complete"}

Pc == Working \cup {"idle", "pick", "group", "lock", "certify", "loop",
                    "count", "regroup", "done"}

Init ==
    /\ Queue!Init
    /\ disposition = [e \in Episodes |-> "none"]
    /\ drafts = [e \in Episodes |-> 0]
    /\ lock = NoRun
    /\ run = [r \in Runs |-> Fresh("idle")]
    /\ mishaps = 0

At(r, pc) == run[r].pc = pc
Goto(r, pc) == run' = [run EXCEPT ![r].pc = pc]

-----------------------------------------------------------------------------
(***************************************************************************)
(* enqueue_phase1_jobs: the first Limit eligible episodes, then those of   *)
(* them whose key is not in the jobs table, one transaction each.          *)
(***************************************************************************)
FirstOf(S, n) == {x \in S : Cardinality({y \in S : y < x}) < n}

Window == FirstOf(Episodes, Limit)

QueueEpisode(r) ==
    /\ At(r, "idle")
    /\ \E e \in Window : Queue!EnqueueJob(Phase1(e))
    /\ UNCHANGED <<disposition, drafts, lock, run, mishaps>>

EpisodesQueued(r) ==
    /\ At(r, "idle")
    /\ \A e \in Window : jobs[Phase1(e)].status # "absent"
    /\ Goto(r, "pick")
    /\ UNCHANGED <<jobs, disposition, drafts, lock, mishaps>>

(***************************************************************************)
(* enqueue_phase2_jobs reads the eligible candidates of memory.sqlite3 in  *)
(* one connection and queues their groups afterwards: what it queues is    *)
(* what it saw.                                                            *)
(***************************************************************************)
Eligible == {e \in Episodes : disposition[e] = "eligible"}

GroupsOf(seen) ==
    {{c \in seen : Slot[c] = s} : s \in FirstOf({Slot[c] : c \in seen}, Limit)}

\* As if run-nightly left Phase 2 to the coordinating store alone.
PickCandidatesNever(r) ==
    /\ At(r, "pick")
    /\ run' = [run EXCEPT ![r].pc = "group", ![r].seen = {}]
    /\ UNCHANGED <<jobs, disposition, drafts, lock, mishaps>>

PickCandidates(r) ==
    /\ At(r, "pick")
    /\ run' = [run EXCEPT ![r].pc = "group", ![r].seen = Eligible]
    /\ UNCHANGED <<jobs, disposition, drafts, lock, mishaps>>

QueueGroup(r) ==
    /\ At(r, "group") \/ At(r, "regroup")
    /\ \E g \in GroupsOf(run[r].seen) : Queue!EnqueueJob(Phase2(g))
    /\ UNCHANGED <<disposition, drafts, lock, run, mishaps>>

GroupsQueued(r) ==
    /\ At(r, "group") \/ At(r, "regroup")
    /\ \A g \in GroupsOf(run[r].seen) : jobs[Phase2(g)].status # "absent"
    /\ run' = [run EXCEPT ![r].seen = {},
                          ![r].pc = IF At(r, "group") THEN "lock" ELSE "loop"]
    /\ UNCHANGED <<jobs, disposition, drafts, lock, mishaps>>

-----------------------------------------------------------------------------
(***************************************************************************)
(* NightlyRunner.run: without nightly.lock the process reports             *)
(* already_running and is done; the certification stamp gates the rest.    *)
(***************************************************************************)
\* As if the runner went on without nightly.lock.
TakeLockAnyway(r) ==
    /\ At(r, "lock")
    /\ lock' = r
    /\ Goto(r, "certify")
    /\ UNCHANGED <<jobs, disposition, drafts, mishaps>>

TakeLock(r) ==
    /\ At(r, "lock")
    /\ lock = NoRun
    /\ lock' = r
    /\ Goto(r, "certify")
    /\ UNCHANGED <<jobs, disposition, drafts, mishaps>>

AlreadyRunning(r) ==
    /\ At(r, "lock")
    /\ lock # NoRun
    /\ Goto(r, "done")
    /\ UNCHANGED <<jobs, disposition, drafts, lock, mishaps>>

Certified(r) ==
    /\ At(r, "certify")
    /\ Goto(r, "loop")
    /\ UNCHANGED <<jobs, disposition, drafts, lock, mishaps>>

Finish(r) ==
    /\ lock' = NoRun
    /\ run' = [run EXCEPT ![r] = Fresh("done")]
    /\ UNCHANGED <<disposition, drafts>>

NotCertified(r) ==
    /\ At(r, "certify")
    /\ mishaps < MaxMishaps
    /\ mishaps' = mishaps + 1
    /\ Finish(r)
    /\ UNCHANGED jobs

(***************************************************************************)
(* The loop of _run_locked.  It stops when the budget, the wall clock or   *)
(* the iteration limit is reached; all are positive, so at least one lease *)
(* comes first.  It also stops when there is nothing to lease.             *)
(***************************************************************************)
\* As if the budget, checked before anything was leased, could be used up.
StopLeasingEarly(r) ==
    /\ At(r, "loop")
    /\ Finish(r)
    /\ UNCHANGED <<jobs, mishaps>>

StopLeasing(r) ==
    /\ At(r, "loop")
    /\ run[r].leases > 0
    /\ Finish(r)
    /\ UNCHANGED <<jobs, mishaps>>

QueueEmpty(r) ==
    /\ At(r, "loop")
    /\ run[r].calls < MaxCalls /\ run[r].leases < MaxLeases
    /\ Queue!GrantNothing(AllJobs)
    /\ Finish(r)
    /\ UNCHANGED mishaps

\* As if iteration_limit were not checked.
LeaseNextUnbounded(r) ==
    /\ At(r, "loop")
    /\ run[r].calls < MaxCalls
    /\ \E j \in AllJobs :
          /\ Queue!Grant(r, j, AllJobs)
          /\ run' = [run EXCEPT ![r].pc = "load", ![r].job = j,
                                ![r].leases = @ + 1]
    /\ UNCHANGED <<disposition, drafts, lock, mishaps>>

LeaseNext(r) ==
    /\ At(r, "loop")
    /\ run[r].calls < MaxCalls /\ run[r].leases < MaxLeases
    /\ \E j \in AllJobs :
          /\ Queue!Grant(r, j, AllJobs)
          /\ run' = [run EXCEPT ![r].pc = "load", ![r].job = j,
                                ![r].leases = @ + 1]
    /\ UNCHANGED <<disposition, drafts, lock, mishaps>>

-----------------------------------------------------------------------------
(***************************************************************************)
(* DatabaseJobLoader.load.  A Phase 2 reference is stale unless every one  *)
(* of its candidates is still eligible; any reference may be stale for     *)
(* reasons outside this model (a policy, a forgotten source).              *)
(***************************************************************************)
\* As if _load_phase2 did not join on disposition = 'eligible'.
LoadUnchecked(r) ==
    /\ At(r, "load")
    /\ Goto(r, "reserve")
    /\ UNCHANGED <<jobs, disposition, drafts, lock, mishaps>>

Load(r) ==
    /\ At(r, "load")
    /\ run[r].job.phase = 2 => run[r].job.of \subseteq Eligible
    /\ Goto(r, "reserve")
    /\ UNCHANGED <<jobs, disposition, drafts, lock, mishaps>>

(***************************************************************************)
(* run_leased_job.  The budget is charged before the call and the job is   *)
(* failed if it does not fit, which ends the run.  A first job always fits *)
(* (bound: no job exceeds a whole budget by itself).                       *)
(***************************************************************************)
Reserve(r) ==
    /\ At(r, "reserve")
    /\ run[r].calls < MaxCalls
    /\ run' = [run EXCEPT ![r].pc = "call", ![r].calls = @ + 1]
    /\ UNCHANGED <<jobs, disposition, drafts, lock, mishaps>>

BudgetExceeded(r) ==
    /\ At(r, "reserve")
    /\ run[r].leases > 1
    /\ Queue!FailJob(r, run[r].job)
    /\ Finish(r)
    /\ UNCHANGED mishaps

\* The worker answers with output that passes every check.
WorkerAnswers(r) ==
    /\ At(r, "call")
    /\ Goto(r, "persist")
    /\ UNCHANGED <<jobs, disposition, drafts, lock, mishaps>>

(***************************************************************************)
(* The job fails: the loader rejects it, a source or privacy check does,   *)
(* the worker or its protocol fails, or persistence raises.                *)
(***************************************************************************)
GiveBack(r) ==
    /\ run[r].pc \in Working \ {"complete"}
    /\ Queue!FailJob(r, run[r].job)
    /\ run' = [run EXCEPT ![r].pc = "loop", ![r].job = NoJob]
    /\ UNCHANGED <<disposition, drafts, lock, mishaps>>

(***************************************************************************)
(* StorageOutputSink.  Phase 1: create_candidate inserts the candidate and *)
(* its first disposition unless its fingerprint is there already.  Phase   *)
(* 2: one transaction drafts proposals for some of the candidates and      *)
(* suppresses the others.                                                  *)
(***************************************************************************)
PersistCandidates(r) ==
    /\ At(r, "persist")
    /\ run[r].job.phase = 1
    /\ \E found \in SUBSET run[r].job.of, fate \in {"eligible", "suppressed"} :
          disposition' = [e \in Episodes |->
              IF e \in found /\ disposition[e] = "none" THEN fate ELSE disposition[e]]
    /\ Goto(r, "complete")
    /\ UNCHANGED <<jobs, drafts, lock, mishaps>>

\* As if a no_op answer of Phase 2 were not persisted either.
PersistProposalsIfAny(r) ==
    /\ At(r, "persist")
    /\ run[r].job.phase = 2
    /\ \E proposed \in SUBSET run[r].job.of :
          /\ disposition' = [e \in Episodes |->
                IF proposed = {} THEN disposition[e]
                ELSE IF e \in proposed THEN "proposed"
                ELSE IF e \in run[r].job.of THEN "suppressed" ELSE disposition[e]]
          /\ drafts' = [e \in Episodes |->
                IF e \in proposed THEN drafts[e] + 1 ELSE drafts[e]]
    /\ Goto(r, "complete")
    /\ UNCHANGED <<jobs, lock, mishaps>>

PersistProposals(r) ==
    /\ At(r, "persist")
    /\ run[r].job.phase = 2
    /\ \E proposed \in SUBSET run[r].job.of :
          /\ disposition' = [e \in Episodes |->
                IF e \in proposed THEN "proposed"
                ELSE IF e \in run[r].job.of THEN "suppressed" ELSE disposition[e]]
          /\ drafts' = [e \in Episodes |->
                IF e \in proposed THEN drafts[e] + 1 ELSE drafts[e]]
    /\ Goto(r, "complete")
    /\ UNCHANGED <<jobs, lock, mishaps>>

-----------------------------------------------------------------------------
(***************************************************************************)
(* CoordinatingOperationsStore.complete_job: complete the row, then, in    *)
(* transactions of their own, count the open Phase 1 rows and queue Phase  *)
(* 2 if there are none.  The branch for a lease lost before completion is  *)
(* left out: HeldWhileWorking says it cannot be taken.                     *)
(***************************************************************************)
Complete(r) ==
    /\ At(r, "complete")
    /\ Queue!CompleteJob(r, run[r].job)
    /\ run' = [run EXCEPT ![r].job = NoJob,
                          ![r].pc = IF run[r].job.phase = 1 THEN "count" ELSE "loop"]
    /\ UNCHANGED <<disposition, drafts, lock, mishaps>>

\* A database error after persisting, in finish_model_call or complete_job:
\* the job is failed although its output is in memory.sqlite3.
CompletionFails(r) ==
    /\ At(r, "complete")
    /\ mishaps < MaxMishaps
    /\ mishaps' = mishaps + 1
    /\ Queue!FailJob(r, run[r].job)
    /\ run' = [run EXCEPT ![r].pc = "loop", ![r].job = NoJob]
    /\ UNCHANGED <<disposition, drafts, lock>>

OpenPhase1 == {j \in Phase1Jobs : jobs[j].status \in {"queued", "leased"}}

CountOpen(r) ==
    /\ At(r, "count")
    /\ IF OpenPhase1 = {}
       THEN run' = [run EXCEPT ![r].pc = "regroup", ![r].seen = Eligible]
       ELSE Goto(r, "loop")
    /\ UNCHANGED <<jobs, disposition, drafts, lock, mishaps>>

\* An error while queueing Phase 2 is reported as a failure of the Phase 1
\* job, which is completed already: fail_job finds no lease and does nothing.
RegroupFails(r) ==
    /\ At(r, "count") \/ At(r, "regroup")
    /\ run' = [run EXCEPT ![r].pc = "loop", ![r].seen = {}]
    /\ UNCHANGED <<jobs, disposition, drafts, lock, mishaps>>

-----------------------------------------------------------------------------
(***************************************************************************)
(* The operating system: a process dies anywhere and its flock goes with   *)
(* it; a fresh process starts under an owner id that no row names.         *)
(***************************************************************************)
Crash(r) ==
    /\ run[r].pc \notin {"idle", "done"}
    /\ mishaps < MaxMishaps
    /\ mishaps' = mishaps + 1
    /\ lock' = IF lock = r THEN NoRun ELSE lock
    /\ run' = [run EXCEPT ![r] = Fresh("done")]
    /\ UNCHANGED <<jobs, disposition, drafts>>

Restart(r) ==
    /\ At(r, "done")
    /\ \A j \in AllJobs : jobs[j].owner # r
    /\ run' = [run EXCEPT ![r] = Fresh("idle")]
    /\ UNCHANGED <<jobs, disposition, drafts, lock, mishaps>>

DueTick(j) == /\ Queue!BecomesDue(j)
              /\ UNCHANGED <<disposition, drafts, lock, run, mishaps>>

ExpiryTick(j) == /\ Queue!LeaseExpires(j)
                 /\ UNCHANGED <<disposition, drafts, lock, run, mishaps>>

RunStep(r) ==
    \/ QueueEpisode(r) \/ EpisodesQueued(r)
    \/ PickCandidates(r) \/ QueueGroup(r) \/ GroupsQueued(r)
    \/ TakeLock(r) \/ AlreadyRunning(r) \/ Certified(r)
    \/ StopLeasing(r) \/ QueueEmpty(r) \/ LeaseNext(r)
    \/ Load(r) \/ Reserve(r) \/ BudgetExceeded(r) \/ WorkerAnswers(r) \/ GiveBack(r)
    \/ PersistCandidates(r) \/ PersistProposals(r)
    \/ Complete(r) \/ CountOpen(r) \/ RegroupFails(r)
    \/ Restart(r)

Next ==
    \/ \E r \in Runs : RunStep(r) \/ NotCertified(r) \/ CompletionFails(r) \/ Crash(r)
    \/ \E j \in AllJobs : DueTick(j) \/ ExpiryTick(j)

Spec == Init /\ [][Next]_vars

(***************************************************************************)
(* The LaunchAgent starts run-nightly every day and a started process goes *)
(* on until it is done or has a mishap; the clock advances.                *)
(***************************************************************************)
Fairness ==
    /\ \A r \in Runs : WF_vars(RunStep(r))
    /\ \A j \in AllJobs : WF_vars(DueTick(j)) /\ WF_vars(ExpiryTick(j))

FairSpec == Spec /\ Fairness

-----------------------------------------------------------------------------
TypeOK ==
    /\ Queue!TypeOK
    /\ disposition \in [Episodes -> {"none", "eligible", "suppressed", "proposed"}]
    /\ drafts \in [Episodes -> Nat]
    /\ lock \in Runs \cup {NoRun}
    /\ run \in [Runs -> [pc : Pc, job : AllJobs \cup {NoJob}, seen : SUBSET Episodes,
                         calls : 0 .. MaxCalls, leases : 0 .. MaxLeases]]
    /\ mishaps \in 0 .. MaxMishaps

(***************************************************************************)
(* A run holds the lease of the job it works on until it gives the job up  *)
(* itself.  The lease may expire under it (the machine slept), but only    *)
(* lease_job recovers it and only the holder of nightly.lock calls that.   *)
(* So complete_job never reports a lost lease to it, and no two processes  *)
(* ever execute one job.                                                   *)
(***************************************************************************)
HeldWhileWorking ==
    \A r \in Runs : run[r].pc \in Working => Queue!Holds(r, run[r].job)

(***************************************************************************)
(* A candidate enters at most one review proposal, and is never both       *)
(* proposed and suppressed, although Phase 2 persists before it completes, *)
(* a crash in between makes the job run again, and overlapping groups of   *)
(* candidates can be queued under different keys.                          *)
(***************************************************************************)
OneVerdict ==
    \A e \in Episodes :
        drafts[e] = IF disposition[e] = "proposed" THEN 1 ELSE 0

(***************************************************************************)
(* Once a Phase 2 job is completed, none of its candidates is eligible any *)
(* more: a completed consolidation left a verdict on each of them.         *)
(***************************************************************************)
CompletedMeansConsolidated ==
    \A j \in Phase2Jobs : jobs[j].status = "completed" => j.of \cap Eligible = {}

(***************************************************************************)
(* Whatever the runs do, the queue behaves as JobQueue says, and the runs  *)
(* provide the fairness JobQueue assumes of its environment: work that is  *)
(* due keeps being leased.                                                 *)
(***************************************************************************)
DrivesTheQueue == Queue!FairSpec

(***************************************************************************)
(* An eligible candidate does not wait for ever: it gets a verdict, or a   *)
(* Phase 2 job that carries it is seen to have failed.  The coordinating   *)
(* store alone would not give this: it queues Phase 2 only after a Phase 1 *)
(* job *completes* as the last open one.                                   *)
(***************************************************************************)
EligibleIsDecided ==
    \A e \in Episodes :
        (disposition[e] = "eligible")
          ~> \/ disposition[e] # "eligible"
             \/ \E j \in Phase2Jobs : e \in j.of /\ jobs[j].status = "failed"

(***************************************************************************)
(* Every eligible episode is queued for Phase 1 in the end: the pipeline   *)
(* of docs/ARCHITECTURE.md leads from stable episodes to candidates.       *)
(***************************************************************************)
EveryEpisodeQueued ==
    \A e \in Episodes : <>(jobs[Phase1(e)].status # "absent")
=============================================================================
