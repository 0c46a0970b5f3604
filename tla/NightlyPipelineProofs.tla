----------------------- MODULE NightlyPipelineProofs -----------------------
(***************************************************************************)
(* Proofs about NightlyPipeline, for any episodes, slots, limits and       *)
(* number of processes and of crashes.  Only the holder of nightly.lock    *)
(* leases, loads and persists: everything else follows from that.          *)
(***************************************************************************)
EXTENDS NightlyPipeline, TLAPS

-----------------------------------------------------------------------------
\* Where a process has nightly.lock, and where its Phase 2 job was loaded
\* and nothing of it is persisted yet.
Locked == Working \cup {"certify", "loop", "count", "regroup"}
Loaded == {"reserve", "call", "persist"}

RunRecord == [pc : Pc, job : AllJobs \cup {NoJob}, seen : SUBSET Episodes,
              calls : 0 .. MaxCalls, leases : 0 .. MaxLeases]

Decided == {"suppressed", "proposed"}

(***************************************************************************)
(* What holds of one process, and of the two databases.                    *)
(***************************************************************************)
ProcInv(q) ==
    /\ run[q].pc \in Locked => lock = q
    /\ run[q].pc \in Working => Queue!Holds(q, run[q].job)
    /\ run[q].pc \in Working => run[q].job \in AllJobs
    /\ (run[q].pc \in Loaded /\ run[q].job.phase = 2) =>
          \A e \in run[q].job.of : disposition[e] = "eligible"
    /\ (run[q].pc = "complete" /\ run[q].job.phase = 2) =>
          \A e \in run[q].job.of : disposition[e] \in Decided

CompletedDecided ==
    \A j \in Phase2Jobs : jobs[j].status = "completed" =>
        \A e \in j.of : disposition[e] \in Decided

IInv ==
    /\ TypeOK
    /\ \A q \in Runs : ProcInv(q)
    /\ CompletedDecided
    /\ OneVerdict

-----------------------------------------------------------------------------
LEMMA Bounds ==
  /\ MaxAttempts \in Nat \ {0} /\ MaxCalls \in Nat \ {0} /\ MaxLeases \in Nat \ {0}
  /\ MaxMishaps \in Nat
  /\ NoRun \notin Runs
BY BoundsAssumption

LEMMA JobShape ==
  /\ \A j \in AllJobs : j.of \subseteq Episodes
  /\ \A j \in AllJobs : j.phase = 2 <=> j \in Phase2Jobs
  /\ Phase2Jobs \subseteq AllJobs
BY DEF AllJobs, Phase1Jobs, Phase2Jobs, Phase1, Phase2

(***************************************************************************)
(* What a step of the queue does to its rows: they keep their types, and   *)
(* only rows in done are newly completed.                                  *)
(***************************************************************************)
RowsStep(done) ==
    /\ jobs' \in [AllJobs -> Queue!Row]
    /\ \A k \in AllJobs :
          jobs'[k].status = "completed" => jobs[k].status = "completed" \/ k \in done

\* Every lease that is held stays with its holder.
LeasesKept == \A k \in AllJobs, q \in Runs : Queue!Holds(q, k) => Queue!Holds(q, k)'

LEMMA EnqueueRows ==
  ASSUME Queue!TypeOK, NEW j, Queue!EnqueueJob(j)
  PROVE  RowsStep({}) /\ LeasesKept
<1>1. Queue!FreeRow("queued", 0, TRUE) \in Queue!Row
  BY Bounds DEF Queue!FreeRow, Queue!Row, Queue!JobStatus
<1>2. Queue!FreeRow("queued", 0, TRUE).status = "queued"
  BY DEF Queue!FreeRow
<1>. QED BY <1>1, <1>2 DEF Queue!EnqueueJob, Queue!TypeOK, RowsStep, LeasesKept, Queue!Holds

LEMMA RecoverRowKeeps ==
  ASSUME NEW row \in Queue!Row
  PROVE  /\ Queue!RecoverRow(row) \in Queue!Row
         /\ Queue!RecoverRow(row).status = "completed" => row.status = "completed"
BY Bounds DEF Queue!RecoverRow, Queue!FreeRow, Queue!Row, Queue!JobStatus

LEMMA RecoveredKeeps ==
  ASSUME Queue!TypeOK
  PROVE  /\ Queue!Recovered(AllJobs) \in [AllJobs -> Queue!Row]
         /\ \A k \in AllJobs :
              Queue!Recovered(AllJobs)[k].status = "completed" => jobs[k].status = "completed"
<1>1. \A k \in AllJobs : Queue!Recovered(AllJobs)[k] = Queue!RecoverRow(jobs[k])
  BY DEF Queue!Recovered
<1>2. \A k \in AllJobs : jobs[k] \in Queue!Row
  BY DEF Queue!TypeOK
<1>3. \A k \in AllJobs : Queue!Recovered(AllJobs)[k] \in Queue!Row
  BY <1>1, <1>2, RecoverRowKeeps
<1>4. Queue!Recovered(AllJobs) \in [AllJobs -> Queue!Row]
  BY <1>3 DEF Queue!Recovered
<1>. QED BY <1>1, <1>2, <1>4, RecoverRowKeeps

LEMMA GrantNothingRows ==
  ASSUME Queue!TypeOK, Queue!GrantNothing(AllJobs)
  PROVE  RowsStep({})
BY RecoveredKeeps DEF Queue!GrantNothing, RowsStep

LEMMA GrantRows ==
  ASSUME Queue!TypeOK, NEW r \in Runs, NEW j \in AllJobs, Queue!Grant(r, j, AllJobs)
  PROVE  RowsStep({}) /\ Queue!Holds(r, j)'
<1>. DEFINE rec == Queue!Recovered(AllJobs)
            row == Queue!HeldRow(rec[j], r)
<1>1. /\ rec \in [AllJobs -> Queue!Row]
      /\ \A k \in AllJobs : rec[k].status = "completed" => jobs[k].status = "completed"
  BY RecoveredKeeps
<1>2. rec[j].status = "queued" /\ rec[j].attempts < MaxAttempts
  BY DEF Queue!Grant, Queue!Front, Queue!Leasable
<1>3. jobs' = [rec EXCEPT ![j] = row]
  BY DEF Queue!Grant
<1>4. row \in Queue!Row /\ row.status = "leased" /\ row.owner = r
  BY <1>1, <1>2, Bounds DEF Queue!HeldRow, Queue!Row, Queue!JobStatus
<1>. HIDE DEF rec, row
<1>5. jobs' \in [AllJobs -> Queue!Row] /\ jobs'[j] = row
  BY <1>1, <1>3, <1>4
<1>6. \A k \in AllJobs : k # j => jobs'[k] = rec[k]
  BY <1>1, <1>3
<1>. QED BY <1>1, <1>2, <1>4, <1>5, <1>6 DEF RowsStep, Queue!Holds

LEMMA CompleteRows ==
  ASSUME Queue!TypeOK, NEW r \in Runs, NEW j \in AllJobs, Queue!CompleteJob(r, j)
  PROVE  RowsStep({j})
<1>. DEFINE row == Queue!FreeRow("completed", jobs[j].attempts, jobs[j].due)
<1>1. row \in Queue!Row
  BY DEF Queue!TypeOK, Queue!FreeRow, Queue!Row, Queue!JobStatus
<1>2. jobs' = [jobs EXCEPT ![j] = row] /\ jobs[j].status = "leased"
  BY DEF Queue!CompleteJob, Queue!Holds
<1>. HIDE DEF row
<1>. QED BY <1>1, <1>2 DEF RowsStep, Queue!TypeOK

LEMMA FailRows ==
  ASSUME Queue!TypeOK, NEW r \in Runs, NEW j \in AllJobs, Queue!FailJob(r, j)
  PROVE  RowsStep({})
<1>. DEFINE row == Queue!FailedRow(jobs[j])
<1>1. row \in Queue!Row /\ row.status # "completed"
  BY DEF Queue!TypeOK, Queue!FailedRow, Queue!FreeRow, Queue!Row, Queue!JobStatus
<1>2. jobs' = [jobs EXCEPT ![j] = row] /\ jobs[j].status = "leased"
  BY DEF Queue!FailJob, Queue!Holds
<1>. HIDE DEF row
<1>. QED BY <1>1, <1>2 DEF RowsStep, Queue!TypeOK

LEMMA TickRows ==
  ASSUME Queue!TypeOK, NEW j \in AllJobs, Queue!BecomesDue(j) \/ Queue!LeaseExpires(j)
  PROVE  RowsStep({}) /\ LeasesKept
<1>1. CASE Queue!BecomesDue(j)
  <2>. DEFINE row == [jobs[j] EXCEPT !.due = TRUE]
  <2>1. row \in Queue!Row /\ row.status = jobs[j].status /\ row.owner = jobs[j].owner
    BY DEF Queue!TypeOK, Queue!Row
  <2>2. jobs' = [jobs EXCEPT ![j] = row]
    BY <1>1 DEF Queue!BecomesDue
  <2>. HIDE DEF row
  <2>. QED BY <2>1, <2>2 DEF RowsStep, LeasesKept, Queue!TypeOK, Queue!Holds
<1>2. CASE Queue!LeaseExpires(j)
  <2>. DEFINE row == [jobs[j] EXCEPT !.expired = TRUE]
  <2>1. row \in Queue!Row /\ row.status = jobs[j].status /\ row.owner = jobs[j].owner
    BY DEF Queue!TypeOK, Queue!Row
  <2>2. jobs' = [jobs EXCEPT ![j] = row]
    BY <1>2 DEF Queue!LeaseExpires
  <2>. HIDE DEF row
  <2>. QED BY <2>1, <2>2 DEF RowsStep, LeasesKept, Queue!TypeOK, Queue!Holds
<1>. QED BY <1>1, <1>2

-----------------------------------------------------------------------------
(***************************************************************************)
(* Other processes.  While r is where nightly.lock is needed no other      *)
(* process is, and r may do anything; elsewhere r touches no lease and no  *)
(* disposition.                                                            *)
(***************************************************************************)
LEMMA LockedStepOthers ==
  ASSUME IInv, NEW r \in Runs, run[r].pc \in Locked,
         NEW q \in Runs, q # r, run'[q] = run[q]
  PROVE  ProcInv(q)'
<1>1. run[q].pc \notin Locked
  BY DEF IInv, ProcInv
<1>2. run[q].pc \notin Working /\ run[q].pc \notin Loaded /\ run[q].pc # "complete"
  BY <1>1 DEF Locked, Working, Loaded
<1>. QED BY <1>1, <1>2 DEF ProcInv

LEMMA FreeStepKeeps ==
  ASSUME IInv, NEW q \in Runs, run'[q] = run[q], lock = q => lock' = q,
         disposition' = disposition, LeasesKept
  PROVE  ProcInv(q)'
<1>1. ProcInv(q)
  BY DEF IInv
<1>2. run[q].pc \in Working => Queue!Holds(q, run[q].job)'
  BY <1>1 DEF ProcInv, LeasesKept
<1>3. run[q].pc \in Working => Queue!Holds(q, run[q].job)' /\ run'[q].job = run[q].job
  BY <1>2
<1>4. run'[q].pc \in Working => jobs'[run'[q].job].status = "leased" /\ jobs'[run'[q].job].owner = q
  BY <1>3 DEF Queue!Holds
<1>. QED BY <1>1, <1>4 DEF ProcInv, Queue!Holds

(***************************************************************************)
(* The databases.  A step that leaves memory alone keeps their part of the *)
(* invariant if the Phase 2 jobs it completes carry decided candidates.    *)
(***************************************************************************)
LEMMA MemoryKept ==
  ASSUME IInv, NEW done, RowsStep(done),
         UNCHANGED <<disposition, drafts>>,
         \A j \in Phase2Jobs : j \in done => \A e \in j.of : disposition[e] \in Decided
  PROVE  CompletedDecided' /\ OneVerdict'
<1>1. ASSUME NEW j \in Phase2Jobs, jobs'[j].status = "completed", NEW e \in j.of
      PROVE  disposition'[e] \in Decided
  <2>1. jobs[j].status = "completed" \/ j \in done
    BY <1>1, JobShape DEF RowsStep
  <2>2. disposition[e] \in Decided
    BY <1>1, <2>1 DEF IInv, CompletedDecided
  <2>. QED BY <2>2
<1>2. OneVerdict'
  BY DEF IInv, OneVerdict
<1>. QED BY <1>1, <1>2 DEF CompletedDecided

LEMMA RowsUnchanged ==
  ASSUME Queue!TypeOK, jobs' = jobs
  PROVE  RowsStep({}) /\ LeasesKept
BY DEF Queue!TypeOK, RowsStep, LeasesKept, Queue!Holds

(***************************************************************************)
(* A step in which one process goes on and nothing else changes but the    *)
(* lock, which is not taken from another process.                          *)
(***************************************************************************)
LEMMA WalkOK ==
  ASSUME IInv, NEW r \in Runs, NEW rec \in RunRecord,
         run' = [run EXCEPT ![r] = rec],
         UNCHANGED <<jobs, disposition, drafts>>,
         lock' \in Runs \cup {NoRun}, \A q \in Runs : q # r /\ lock = q => lock' = q,
         mishaps' \in 0 .. MaxMishaps,
         ProcInv(r)'
  PROVE  IInv'
<1>1. TypeOK'
  BY DEF IInv, TypeOK, Queue!TypeOK, RunRecord
<1>2. RowsStep({}) /\ LeasesKept
  BY RowsUnchanged DEF IInv, TypeOK
<1>3. ASSUME NEW q \in Runs, q # r PROVE ProcInv(q)'
  <2>1. run'[q] = run[q]
    BY <1>3 DEF IInv, TypeOK
  <2>. QED BY <1>2, <1>3, <2>1, FreeStepKeeps
<1>4. CompletedDecided' /\ OneVerdict'
  BY <1>2, MemoryKept
<1>. QED BY <1>1, <1>3, <1>4 DEF IInv

(***************************************************************************)
(* A step in which the holder of the lock changes the queue.               *)
(***************************************************************************)
LEMMA QueueStepOK ==
  ASSUME IInv, NEW r \in Runs, run[r].pc \in Locked, NEW rec \in RunRecord,
         run' = [run EXCEPT ![r] = rec],
         NEW done, RowsStep(done), UNCHANGED <<disposition, drafts>>,
         \A j \in Phase2Jobs : j \in done => \A e \in j.of : disposition[e] \in Decided,
         lock' \in Runs \cup {NoRun}, mishaps' \in 0 .. MaxMishaps,
         ProcInv(r)'
  PROVE  IInv'
<1>1. TypeOK'
  BY DEF IInv, TypeOK, Queue!TypeOK, RowsStep, RunRecord
<1>2. ASSUME NEW q \in Runs, q # r PROVE ProcInv(q)'
  <2>1. run'[q] = run[q]
    BY <1>2 DEF IInv, TypeOK
  <2>. QED BY <1>2, <2>1, LockedStepOthers
<1>3. CompletedDecided' /\ OneVerdict'
  BY MemoryKept
<1>. QED BY <1>1, <1>2, <1>3 DEF IInv

\* The same when the step completes no job.
LEMMA NothingCompletedOK ==
  ASSUME IInv, NEW r \in Runs, run[r].pc \in Locked, NEW rec \in RunRecord,
         run' = [run EXCEPT ![r] = rec],
         RowsStep({}), UNCHANGED <<disposition, drafts>>,
         lock' = lock \/ lock' = NoRun, mishaps' \in 0 .. MaxMishaps,
         ProcInv(r)'
  PROVE  IInv'
<1>. DEFINE none == {}
<1>1. /\ RowsStep(none)
      /\ \A j \in Phase2Jobs : j \in none => \A e \in j.of : disposition[e] \in Decided
  OBVIOUS
<1>2. lock' \in Runs \cup {NoRun}
  BY DEF IInv, TypeOK
<1>. HIDE DEF none
<1>. QED BY <1>1, <1>2, QueueStepOK

(***************************************************************************)
(* A step in which only the queue changes, and no lease is lost.           *)
(***************************************************************************)
LEMMA EnqueueOrTickOK ==
  ASSUME IInv, RowsStep({}), LeasesKept,
         UNCHANGED <<disposition, drafts, lock, run, mishaps>>
  PROVE  IInv'
<1>1. TypeOK'
  BY DEF IInv, TypeOK, Queue!TypeOK, RowsStep
<1>2. ASSUME NEW q \in Runs PROVE ProcInv(q)'
  BY <1>2, FreeStepKeeps
<1>3. CompletedDecided' /\ OneVerdict'
  BY MemoryKept
<1>. QED BY <1>1, <1>2, <1>3 DEF IInv

-----------------------------------------------------------------------------
(***************************************************************************)
(* The steps of one process in which only it goes on.                      *)
(***************************************************************************)
LEMMA RunTyped ==
  ASSUME IInv, NEW r \in Runs
  PROVE  /\ run \in [Runs -> RunRecord] /\ run[r] \in RunRecord
         /\ run[r].pc \in Working => run[r].job \in AllJobs
BY DEF IInv, TypeOK, RunRecord, ProcInv

LEMMA FreshTyped ==
  ASSUME NEW pc \in Pc
  PROVE  Fresh(pc) \in RunRecord /\ Fresh(pc).pc = pc
BY Bounds DEF Fresh, RunRecord

\* Finishing, crashing and starting anew leave nothing to hold or remember.
LEMMA FreshProcess ==
  ASSUME IInv, NEW r \in Runs, NEW pc \in {"idle", "done"},
         run' = [run EXCEPT ![r] = Fresh(pc)]
  PROVE  Fresh(pc) \in RunRecord /\ ProcInv(r)'
<1>1. pc \in Pc /\ pc \notin Locked /\ pc \notin Working /\ pc \notin Loaded /\ pc # "complete"
  BY DEF Pc, Locked, Working, Loaded
<1>2. Fresh(pc) \in RunRecord /\ Fresh(pc).pc = pc
  BY <1>1, FreshTyped
<1>3. run'[r] = Fresh(pc)
  BY DEF IInv, TypeOK
<1>. QED BY <1>1, <1>2, <1>3 DEF ProcInv

LEMMA BeforeLockOK ==
  ASSUME IInv, NEW r \in Runs,
         \/ EpisodesQueued(r) \/ PickCandidates(r) \/ GroupsQueued(r)
         \/ TakeLock(r) \/ AlreadyRunning(r) \/ Certified(r)
  PROVE  IInv'
<1>. USE RunTyped
<1>1. CASE EpisodesQueued(r)
  <2>. DEFINE rec == [run[r] EXCEPT !.pc = "pick"]
  <2>1. rec \in RunRecord
    BY DEF RunRecord, Pc
  <2>2. run' = [run EXCEPT ![r] = rec]
    BY <1>1 DEF EpisodesQueued, Goto
  <2>3. ProcInv(r)'
    BY <1>1, <2>2 DEF EpisodesQueued, IInv, ProcInv, RunRecord, Locked, Working, Loaded
  <2>. QED BY <1>1, <2>1, <2>2, <2>3, WalkOK DEF EpisodesQueued, IInv, TypeOK
<1>2. CASE PickCandidates(r)
  <2>. DEFINE rec == [run[r] EXCEPT !.pc = "group", !.seen = Eligible]
  <2>1. rec \in RunRecord
    BY DEF RunRecord, Pc, Eligible
  <2>2. run' = [run EXCEPT ![r] = rec]
    BY <1>2 DEF PickCandidates
  <2>3. ProcInv(r)'
    BY <1>2, <2>2 DEF PickCandidates, Eligible, ProcInv, RunRecord, Locked, Working, Loaded
  <2>. QED BY <1>2, <2>1, <2>2, <2>3, WalkOK DEF PickCandidates, IInv, TypeOK
<1>3. CASE GroupsQueued(r)
  <2>. DEFINE next == IF At(r, "group") THEN "lock" ELSE "loop"
              rec == [run[r] EXCEPT !.seen = {}, !.pc = next]
  <2>1. rec \in RunRecord
    BY DEF RunRecord, Pc
  <2>2. run' = [run EXCEPT ![r] = rec]
    BY <1>3 DEF GroupsQueued
  <2>3. /\ run'[r].pc = next
        /\ next \notin Working /\ next \notin Loaded /\ next # "complete"
    BY <2>2 DEF RunRecord, Working, Loaded
  <2>4. next \in Locked => lock = r
    BY <1>3 DEF GroupsQueued, At, IInv, ProcInv, Locked, Working
  <2>5. ProcInv(r)'
    BY <1>3, <2>3, <2>4 DEF GroupsQueued, ProcInv
  <2>. QED BY <1>3, <2>1, <2>2, <2>5, WalkOK DEF GroupsQueued, IInv, TypeOK
<1>4. CASE TakeLock(r)
  <2>. DEFINE rec == [run[r] EXCEPT !.pc = "certify"]
  <2>1. rec \in RunRecord
    BY DEF RunRecord, Pc
  <2>2. run' = [run EXCEPT ![r] = rec]
    BY <1>4 DEF TakeLock, Goto
  <2>3. ProcInv(r)'
    BY <1>4, <2>2 DEF TakeLock, IInv, ProcInv, RunRecord, Working, Loaded
  <2>. QED BY <1>4, <2>1, <2>2, <2>3, WalkOK, Bounds DEF TakeLock, IInv, TypeOK
<1>5. CASE AlreadyRunning(r)
  <2>. DEFINE rec == [run[r] EXCEPT !.pc = "done"]
  <2>1. rec \in RunRecord
    BY DEF RunRecord, Pc
  <2>2. run' = [run EXCEPT ![r] = rec]
    BY <1>5 DEF AlreadyRunning, Goto
  <2>3. ProcInv(r)'
    BY <1>5, <2>2 DEF AlreadyRunning, IInv, ProcInv, RunRecord, Locked, Working, Loaded
  <2>. QED BY <1>5, <2>1, <2>2, <2>3, WalkOK DEF AlreadyRunning, IInv, TypeOK
<1>6. CASE Certified(r)
  <2>. DEFINE rec == [run[r] EXCEPT !.pc = "loop"]
  <2>1. rec \in RunRecord
    BY DEF RunRecord, Pc
  <2>2. run' = [run EXCEPT ![r] = rec]
    BY <1>6 DEF Certified, Goto
  <2>3. ProcInv(r)'
    BY <1>6, <2>2 DEF Certified, At, IInv, ProcInv, RunRecord, Locked, Working, Loaded
  <2>. QED BY <1>6, <2>1, <2>2, <2>3, WalkOK DEF Certified, IInv, TypeOK
<1>. QED BY <1>1, <1>2, <1>3, <1>4, <1>5, <1>6

LEMMA InsideLoopOK ==
  ASSUME IInv, NEW r \in Runs,
         Load(r) \/ Reserve(r) \/ WorkerAnswers(r) \/ CountOpen(r) \/ RegroupFails(r)
  PROVE  IInv'
<1>. USE RunTyped
<1>1. CASE Load(r)
  <2>. DEFINE rec == [run[r] EXCEPT !.pc = "reserve"]
  <2>1. rec \in RunRecord
    BY DEF RunRecord, Pc, Working
  <2>2. run' = [run EXCEPT ![r] = rec]
    BY <1>1 DEF Load, Goto
  <2>3. ProcInv(r)'
    BY <1>1, <2>2
    DEF Load, At, Eligible, IInv, ProcInv, RunRecord, Locked, Working, Loaded, Queue!Holds
  <2>. QED BY <1>1, <2>1, <2>2, <2>3, WalkOK DEF Load, IInv, TypeOK
<1>2. CASE Reserve(r)
  <2>. DEFINE rec == [run[r] EXCEPT !.pc = "call", !.calls = @ + 1]
  <2>1. rec \in RunRecord
    BY <1>2, Bounds DEF Reserve, RunRecord, Pc, Working
  <2>2. run' = [run EXCEPT ![r] = rec]
    BY <1>2 DEF Reserve
  <2>3. ProcInv(r)'
    BY <1>2, <2>2
    DEF Reserve, At, IInv, ProcInv, RunRecord, Locked, Working, Loaded, Queue!Holds
  <2>. QED BY <1>2, <2>1, <2>2, <2>3, WalkOK DEF Reserve, IInv, TypeOK
<1>3. CASE WorkerAnswers(r)
  <2>. DEFINE rec == [run[r] EXCEPT !.pc = "persist"]
  <2>1. rec \in RunRecord
    BY DEF RunRecord, Pc, Working
  <2>2. run' = [run EXCEPT ![r] = rec]
    BY <1>3 DEF WorkerAnswers, Goto
  <2>3. ProcInv(r)'
    BY <1>3, <2>2
    DEF WorkerAnswers, At, IInv, ProcInv, RunRecord, Locked, Working, Loaded, Queue!Holds
  <2>. QED BY <1>3, <2>1, <2>2, <2>3, WalkOK DEF WorkerAnswers, IInv, TypeOK
<1>4. CASE CountOpen(r) /\ OpenPhase1 = {}
  <2>. DEFINE rec == [run[r] EXCEPT !.pc = "regroup", !.seen = Eligible]
  <2>1. rec \in RunRecord
    BY DEF RunRecord, Pc, Eligible
  <2>2. run' = [run EXCEPT ![r] = rec]
    BY <1>4 DEF CountOpen
  <2>3. ProcInv(r)'
    BY <1>4, <2>2
    DEF CountOpen, At, Eligible, IInv, ProcInv, RunRecord, Locked, Working, Loaded
  <2>. QED BY <1>4, <2>1, <2>2, <2>3, WalkOK DEF CountOpen, IInv, TypeOK
<1>5. CASE CountOpen(r) /\ OpenPhase1 # {}
  <2>. DEFINE rec == [run[r] EXCEPT !.pc = "loop"]
  <2>1. rec \in RunRecord
    BY DEF RunRecord, Pc
  <2>2. run' = [run EXCEPT ![r] = rec]
    BY <1>5 DEF CountOpen, Goto
  <2>3. ProcInv(r)'
    BY <1>5, <2>2 DEF CountOpen, At, IInv, ProcInv, RunRecord, Locked, Working, Loaded
  <2>. QED BY <1>5, <2>1, <2>2, <2>3, WalkOK DEF CountOpen, IInv, TypeOK
<1>6. CASE RegroupFails(r)
  <2>. DEFINE rec == [run[r] EXCEPT !.pc = "loop", !.seen = {}]
  <2>1. rec \in RunRecord
    BY DEF RunRecord, Pc
  <2>2. run' = [run EXCEPT ![r] = rec]
    BY <1>6 DEF RegroupFails
  <2>3. ProcInv(r)'
    BY <1>6, <2>2 DEF RegroupFails, At, IInv, ProcInv, RunRecord, Locked, Working, Loaded
  <2>. QED BY <1>6, <2>1, <2>2, <2>3, WalkOK DEF RegroupFails, IInv, TypeOK
<1>. QED BY <1>1, <1>2, <1>3, <1>4, <1>5, <1>6

(***************************************************************************)
(* The steps in which a process ends or starts anew.                       *)
(***************************************************************************)
LEMMA EndOrStartOK ==
  ASSUME IInv, NEW r \in Runs,
         NotCertified(r) \/ StopLeasing(r) \/ Crash(r) \/ Restart(r)
  PROVE  IInv'
<1>1. CASE NotCertified(r) \/ StopLeasing(r)
  <2>1. lock = r
    BY <1>1 DEF NotCertified, StopLeasing, At, IInv, ProcInv, Locked
  <2>2. run' = [run EXCEPT ![r] = Fresh("done")]
    BY <1>1 DEF NotCertified, StopLeasing, Finish
  <2>3. /\ lock' = NoRun /\ mishaps' \in 0 .. MaxMishaps
        /\ UNCHANGED <<jobs, disposition, drafts>>
    BY <1>1, Bounds DEF NotCertified, StopLeasing, Finish, IInv, TypeOK
  <2>. QED BY <2>1, <2>2, <2>3, FreshProcess, WalkOK
<1>2. CASE Crash(r)
  <2>1. run' = [run EXCEPT ![r] = Fresh("done")]
    BY <1>2 DEF Crash
  <2>2. /\ lock' \in Runs \cup {NoRun} /\ mishaps' \in 0 .. MaxMishaps
        /\ \A q \in Runs : q # r /\ lock = q => lock' = q
        /\ UNCHANGED <<jobs, disposition, drafts>>
    BY <1>2, Bounds DEF Crash, IInv, TypeOK
  <2>. QED BY <2>1, <2>2, FreshProcess, WalkOK
<1>3. CASE Restart(r)
  <2>1. run' = [run EXCEPT ![r] = Fresh("idle")]
    BY <1>3 DEF Restart
  <2>2. /\ lock' \in Runs \cup {NoRun} /\ mishaps' \in 0 .. MaxMishaps
        /\ lock' = lock /\ UNCHANGED <<jobs, disposition, drafts>>
    BY <1>3 DEF Restart, IInv, TypeOK
  <2>. QED BY <2>1, <2>2, FreshProcess, WalkOK
<1>. QED BY <1>1, <1>2, <1>3

(***************************************************************************)
(* The steps in which the holder of the lock leases, completes or fails.   *)
(***************************************************************************)
LEMMA LeaseOK ==
  ASSUME IInv, NEW r \in Runs, LeaseNext(r) \/ QueueEmpty(r)
  PROVE  IInv'
<1>. USE RunTyped
<1>1. Queue!TypeOK
  BY DEF IInv, TypeOK
<1>2. CASE LeaseNext(r)
  <2>1. PICK j \in AllJobs :
          /\ Queue!Grant(r, j, AllJobs)
          /\ run' = [run EXCEPT ![r].pc = "load", ![r].job = j, ![r].leases = @ + 1]
    BY <1>2 DEF LeaseNext
  <2>. DEFINE rec == [run[r] EXCEPT !.pc = "load", !.job = j, !.leases = @ + 1]
  <2>0. /\ run[r].pc = "loop" /\ run[r].leases < MaxLeases
        /\ UNCHANGED <<disposition, drafts, lock, mishaps>>
    BY <1>2 DEF LeaseNext, At
  <2>2. rec \in RunRecord
    <3>1. run[r].leases + 1 \in 0 .. MaxLeases
      BY <2>0, Bounds DEF RunRecord
    <3>2. "load" \in Pc /\ j \in AllJobs \cup {NoJob}
      BY DEF Pc, Working
    <3>. QED BY <3>1, <3>2 DEF RunRecord
  <2>3. run' = [run EXCEPT ![r] = rec]
    BY <2>1
  <2>4. RowsStep({}) /\ Queue!Holds(r, j)'
    BY <1>1, <2>1, GrantRows
  <2>5. run'[r].pc = "load" /\ run'[r].job = j
    BY <2>3 DEF RunRecord
  <2>6. run[r].pc \in Locked /\ lock = r
    BY <2>0 DEF IInv, ProcInv, Locked
  <2>7. run'[r].pc \notin Loaded /\ run'[r].pc # "complete"
    BY <2>5 DEF Loaded
  <2>8. ProcInv(r)'
    BY <2>0, <2>4, <2>5, <2>6, <2>7 DEF ProcInv, Queue!Holds
  <2>9. mishaps' \in 0 .. MaxMishaps
    BY <2>0 DEF IInv, TypeOK
  <2>. HIDE DEF rec
  <2>. QED BY <2>0, <2>2, <2>3, <2>4, <2>6, <2>8, <2>9, NothingCompletedOK
<1>3. CASE QueueEmpty(r)
  <2>1. RowsStep({})
    BY <1>1, <1>3, GrantNothingRows DEF QueueEmpty
  <2>2. run[r].pc \in Locked /\ run' = [run EXCEPT ![r] = Fresh("done")]
    BY <1>3 DEF QueueEmpty, Finish, At, Locked
  <2>3. /\ lock' = NoRun /\ UNCHANGED <<disposition, drafts>>
        /\ mishaps' \in 0 .. MaxMishaps
    BY <1>3 DEF QueueEmpty, Finish, IInv, TypeOK
  <2>. QED BY <2>1, <2>2, <2>3, FreshProcess, NothingCompletedOK
<1>. QED BY <1>2, <1>3

LEMMA GiveUpOK ==
  ASSUME IInv, NEW r \in Runs, BudgetExceeded(r) \/ GiveBack(r) \/ CompletionFails(r)
  PROVE  IInv'
<1>. USE RunTyped
<1>1. run[r].pc \in Working /\ Queue!FailJob(r, run[r].job)
  BY DEF BudgetExceeded, GiveBack, CompletionFails, At, Working
<1>2. RowsStep({})
  BY <1>1, FailRows DEF IInv, TypeOK
<1>3. run[r].pc \in Locked /\ lock = r
  BY <1>1 DEF IInv, ProcInv, Locked
<1>4. CASE BudgetExceeded(r)
  <2>1. run' = [run EXCEPT ![r] = Fresh("done")]
    BY <1>4 DEF BudgetExceeded, Finish
  <2>2. /\ lock' = NoRun /\ UNCHANGED <<disposition, drafts>>
        /\ mishaps' \in 0 .. MaxMishaps
    BY <1>4 DEF BudgetExceeded, Finish, IInv, TypeOK
  <2>. QED BY <1>2, <1>3, <2>1, <2>2, FreshProcess, NothingCompletedOK
<1>5. CASE GiveBack(r) \/ CompletionFails(r)
  <2>. DEFINE rec == [run[r] EXCEPT !.pc = "loop", !.job = NoJob]
  <2>1. rec \in RunRecord
    BY DEF RunRecord, Pc
  <2>2. run' = [run EXCEPT ![r] = rec]
    BY <1>5 DEF GiveBack, CompletionFails
  <2>3. /\ UNCHANGED <<disposition, drafts, lock>>
        /\ mishaps' \in 0 .. MaxMishaps
    BY <1>5, Bounds DEF GiveBack, CompletionFails, IInv, TypeOK
  <2>4. ProcInv(r)'
    BY <1>3, <2>2, <2>3 DEF IInv, ProcInv, RunRecord, Working, Loaded
  <2>. HIDE DEF rec
  <2>. QED BY <1>2, <1>3, <2>1, <2>2, <2>3, <2>4, NothingCompletedOK
<1>. QED BY <1>4, <1>5

LEMMA CompleteOK ==
  ASSUME IInv, NEW r \in Runs, Complete(r)
  PROVE  IInv'
<1>. USE RunTyped
<1>. DEFINE job == run[r].job
            next == IF job.phase = 1 THEN "count" ELSE "loop"
            rec == [run[r] EXCEPT !.job = NoJob, !.pc = next]
<1>1. /\ run[r].pc = "complete" /\ Queue!CompleteJob(r, job)
      /\ run' = [run EXCEPT ![r] = rec]
      /\ UNCHANGED <<disposition, drafts, lock, mishaps>>
  BY DEF Complete, At
<1>2. run[r].pc \in Locked /\ lock = r /\ job \in AllJobs
  BY <1>1 DEF IInv, ProcInv, Locked, Working
<1>3. RowsStep({job})
  BY <1>1, <1>2, CompleteRows DEF IInv, TypeOK
<1>4. \A j \in Phase2Jobs : j \in {job} => \A e \in j.of : disposition[e] \in Decided
  BY <1>1, JobShape DEF IInv, ProcInv
<1>5. rec \in RunRecord
  BY DEF RunRecord, Pc
<1>6. ProcInv(r)'
  BY <1>1, <1>2 DEF IInv, ProcInv, RunRecord, Working, Loaded
<1>7. lock' \in Runs \cup {NoRun} /\ mishaps' \in 0 .. MaxMishaps
  BY <1>1 DEF IInv, TypeOK
<1>. QED BY <1>1, <1>2, <1>3, <1>4, <1>5, <1>6, <1>7, QueueStepOK

(***************************************************************************)
(* The steps that queue work, and the clock.                               *)
(***************************************************************************)
LEMMA QueueingOK ==
  ASSUME IInv, NEW r \in Runs, QueueEpisode(r) \/ QueueGroup(r)
  PROVE  IInv'
<1>1. Queue!TypeOK
  BY DEF IInv, TypeOK
<1>2. RowsStep({}) /\ LeasesKept
  BY <1>1, EnqueueRows DEF QueueEpisode, QueueGroup
<1>. QED BY <1>2, EnqueueOrTickOK DEF QueueEpisode, QueueGroup

LEMMA ClockOK ==
  ASSUME IInv, NEW j \in AllJobs, DueTick(j) \/ ExpiryTick(j)
  PROVE  IInv'
<1>1. RowsStep({}) /\ LeasesKept
  BY TickRows DEF IInv, TypeOK, DueTick, ExpiryTick
<1>. QED BY <1>1, EnqueueOrTickOK DEF DueTick, ExpiryTick

(***************************************************************************)
(* The steps that write memory.  Phase 1 only adds dispositions; Phase 2   *)
(* decides candidates that are all still eligible: they were when the job  *)
(* was loaded, and the lock kept every other process from deciding them.   *)
(***************************************************************************)
LEMMA PersistCandidatesOK ==
  ASSUME IInv, NEW r \in Runs, PersistCandidates(r)
  PROVE  IInv'
<1>. USE RunTyped
<1>. DEFINE rec == [run[r] EXCEPT !.pc = "complete"]
<1>1. /\ run[r].pc = "persist" /\ run[r].job.phase = 1
      /\ run' = [run EXCEPT ![r] = rec]
      /\ UNCHANGED <<jobs, drafts, lock, mishaps>>
  BY DEF PersistCandidates, At, Goto
<1>2. /\ disposition' \in [Episodes -> {"none", "eligible", "suppressed", "proposed"}]
      /\ \A e \in Episodes : disposition[e] # "none" => disposition'[e] = disposition[e]
      /\ \A e \in Episodes : disposition'[e] = "proposed" => disposition[e] = "proposed"
  BY DEF PersistCandidates, IInv, TypeOK
<1>3. run[r].pc \in Locked /\ lock = r /\ rec \in RunRecord
  BY <1>1 DEF IInv, ProcInv, Locked, Working, RunRecord, Pc
<1>4. TypeOK'
  BY <1>1, <1>2, <1>3 DEF IInv, TypeOK, Queue!TypeOK, RunRecord
<1>5. ASSUME NEW q \in Runs PROVE ProcInv(q)'
  <2>1. CASE q = r
    <3>1. run'[r].pc = "complete" /\ run'[r].job = run[r].job
      BY <1>1 DEF RunRecord
    <3>2. jobs[run[r].job].status = "leased" /\ jobs[run[r].job].owner = r
      BY <1>1 DEF IInv, ProcInv, Working, Queue!Holds
    <3>3. ProcInv(r)'
      BY <1>1, <1>3, <3>1, <3>2 DEF ProcInv, Working, Loaded, Queue!Holds
    <3>. QED BY <2>1, <3>3
  <2>2. CASE q # r
    <3>1. run'[q] = run[q]
      BY <1>1, <2>2
    <3>. QED BY <1>3, <2>2, <3>1, LockedStepOthers
  <2>. QED BY <2>1, <2>2
<1>6. CompletedDecided'
  <2>1. ASSUME NEW j \in Phase2Jobs, jobs[j].status = "completed", NEW e \in j.of
        PROVE  disposition'[e] \in Decided
    BY <1>2, <2>1, JobShape DEF IInv, CompletedDecided, Decided
  <2>. QED BY <1>1, <2>1 DEF CompletedDecided
<1>7. OneVerdict'
  BY <1>1, <1>2 DEF IInv, OneVerdict
<1>. QED BY <1>4, <1>5, <1>6, <1>7 DEF IInv

LEMMA PersistProposalsOK ==
  ASSUME IInv, NEW r \in Runs, PersistProposals(r)
  PROVE  IInv'
<1>. USE RunTyped
<1>. DEFINE rec == [run[r] EXCEPT !.pc = "complete"]
            group == run[r].job.of
<1>1. /\ run[r].pc = "persist" /\ run[r].job.phase = 2
      /\ run' = [run EXCEPT ![r] = rec]
      /\ UNCHANGED <<jobs, lock, mishaps>>
  BY DEF PersistProposals, At, Goto
<1>2. PICK proposed \in SUBSET group :
        /\ disposition' = [e \in Episodes |->
              IF e \in proposed THEN "proposed"
              ELSE IF e \in group THEN "suppressed" ELSE disposition[e]]
        /\ drafts' = [e \in Episodes |->
              IF e \in proposed THEN drafts[e] + 1 ELSE drafts[e]]
  BY DEF PersistProposals
<1>3. run[r].pc \in Locked /\ lock = r /\ rec \in RunRecord
  BY <1>1 DEF IInv, ProcInv, Locked, Working, RunRecord, Pc
<1>4. \A e \in group : e \in Episodes /\ disposition[e] = "eligible"
  BY <1>1, JobShape DEF IInv, ProcInv, Loaded, Working
<1>5. /\ \A e \in group : disposition'[e] \in Decided
      /\ \A e \in Episodes : e \notin group => disposition'[e] = disposition[e]
  BY <1>2, <1>4 DEF Decided
<1>6. TypeOK'
  <2>1. disposition' \in [Episodes -> {"none", "eligible", "suppressed", "proposed"}]
    BY <1>2 DEF IInv, TypeOK
  <2>2. drafts' \in [Episodes -> Nat]
    BY <1>2 DEF IInv, TypeOK
  <2>. QED BY <1>1, <1>3, <2>1, <2>2 DEF IInv, TypeOK, Queue!TypeOK, RunRecord
<1>7. ASSUME NEW q \in Runs PROVE ProcInv(q)'
  <2>1. CASE q = r
    BY <1>1, <1>3, <1>5, <2>1
    DEF IInv, ProcInv, RunRecord, Working, Loaded, Queue!Holds
  <2>2. CASE q # r
    <3>1. run'[q] = run[q]
      BY <1>1, <2>2
    <3>. QED BY <1>3, <2>2, <3>1, LockedStepOthers
  <2>. QED BY <2>1, <2>2
<1>8. CompletedDecided'
  <2>1. ASSUME NEW j \in Phase2Jobs, jobs[j].status = "completed", NEW e \in j.of
        PROVE  disposition'[e] \in Decided
    BY <1>5, <2>1, JobShape DEF IInv, CompletedDecided
  <2>. QED BY <1>1, <2>1 DEF CompletedDecided
<1>9. OneVerdict'
  <2>1. ASSUME NEW e \in Episodes
        PROVE  drafts'[e] = IF disposition'[e] = "proposed" THEN 1 ELSE 0
    BY <1>2, <1>4 DEF IInv, OneVerdict
  <2>. QED BY <2>1 DEF OneVerdict
<1>. QED BY <1>6, <1>7, <1>8, <1>9 DEF IInv

-----------------------------------------------------------------------------
LEMMA InitIInv == Init => IInv
<1>. SUFFICES ASSUME Init PROVE IInv
  OBVIOUS
<1>1. Queue!TypeOK /\ \A j \in AllJobs : jobs[j].status = "absent"
  BY Bounds DEF Init, Queue!Init, Queue!TypeOK, Queue!NoRow, Queue!Row, Queue!JobStatus
<1>2. \A r \in Runs : /\ run[r] \in RunRecord
                      /\ run[r].pc = "idle"
  BY FreshTyped DEF Init, Pc
<1>3. TypeOK
  BY <1>1, <1>2, Bounds DEF Init, TypeOK, RunRecord
<1>4. \A r \in Runs : ProcInv(r)
  BY <1>2 DEF ProcInv, Locked, Working, Loaded
<1>5. CompletedDecided /\ OneVerdict
  BY <1>1, JobShape DEF Init, CompletedDecided, OneVerdict
<1>. QED BY <1>3, <1>4, <1>5 DEF IInv

LEMMA NextIInv == IInv /\ [Next]_vars => IInv'
<1>. SUFFICES ASSUME IInv, [Next]_vars PROVE IInv'
  OBVIOUS
<1>1. ASSUME NEW r \in Runs, RunStep(r) PROVE IInv'
  BY <1>1, QueueingOK, BeforeLockOK, EndOrStartOK, LeaseOK, InsideLoopOK, GiveUpOK,
     PersistCandidatesOK, PersistProposalsOK, CompleteOK
  DEF RunStep
<1>2. ASSUME NEW r \in Runs, NotCertified(r) \/ CompletionFails(r) \/ Crash(r)
      PROVE  IInv'
  BY <1>2, EndOrStartOK, GiveUpOK
<1>3. ASSUME NEW j \in AllJobs, DueTick(j) \/ ExpiryTick(j) PROVE IInv'
  BY <1>3, ClockOK
<1>4. CASE UNCHANGED vars
  <2>1. RowsStep({}) /\ LeasesKept
    BY <1>4, RowsUnchanged DEF vars, IInv, TypeOK
  <2>. QED BY <1>4, <2>1, EnqueueOrTickOK DEF vars
<1>. QED BY <1>1, <1>2, <1>3, <1>4 DEF Next

LEMMA SpecIInv == Spec => []IInv
BY InitIInv, NextIInv, PTL DEF Spec

-----------------------------------------------------------------------------
(***************************************************************************)
(* The rows, dispositions and processes keep their types: in particular no *)
(* run exceeds max_model_calls or its iteration limit.                     *)
(***************************************************************************)
THEOREM TypeCorrect == Spec => []TypeOK
<1>1. IInv => TypeOK
  BY DEF IInv
<1>. QED BY SpecIInv, <1>1, PTL

(***************************************************************************)
(* A process that works on a job holds its lease, however many processes   *)
(* run-nightly is started in, wherever they die and whatever leases expire *)
(* under them: complete_job never finds the lease gone.                    *)
(***************************************************************************)
THEOREM LeaseHeldWhileWorking == Spec => []HeldWhileWorking
<1>1. IInv => HeldWhileWorking
  BY DEF IInv, ProcInv, HeldWhileWorking
<1>. QED BY SpecIInv, <1>1, PTL

(***************************************************************************)
(* No two processes work on one job at a time.                             *)
(***************************************************************************)
THEOREM OneWorkerPerJob ==
  Spec => [](\A q, r \in Runs : q # r /\ run[q].pc \in Working /\ run[r].pc \in Working
                => run[q].job # run[r].job)
<1>1. IInv => (\A q, r \in Runs : q # r /\ run[q].pc \in Working /\ run[r].pc \in Working
                => run[q].job # run[r].job)
  BY DEF IInv, ProcInv, Queue!Holds
<1>. QED BY SpecIInv, <1>1, PTL

(***************************************************************************)
(* A candidate enters at most one proposal and is never both proposed and  *)
(* suppressed: a job run again after a crash between persisting and        *)
(* completing, or a job that overlaps another, is stale when it is loaded. *)
(***************************************************************************)
THEOREM AtMostOneVerdict == Spec => []OneVerdict
<1>1. IInv => OneVerdict
  BY DEF IInv
<1>. QED BY SpecIInv, <1>1, PTL

(***************************************************************************)
(* A completed Phase 2 job left a verdict on each of its candidates.       *)
(***************************************************************************)
THEOREM CompletionConsolidates == Spec => []CompletedMeansConsolidated
<1>1. IInv => CompletedMeansConsolidated
  <2>1. ASSUME IInv, NEW j \in Phase2Jobs, jobs[j].status = "completed", NEW e \in j.of
        PROVE  e \notin Eligible
    BY <2>1 DEF IInv, CompletedDecided, Decided, Eligible
  <2>. QED BY <2>1 DEF CompletedMeansConsolidated
<1>. QED BY SpecIInv, <1>1, PTL

-----------------------------------------------------------------------------
(***************************************************************************)
(* The runs use the queue only as JobQueue allows.                         *)
(***************************************************************************)
LEMMA WindowInEpisodes == Window \subseteq Episodes
BY DEF Window, FirstOf

LEMMA GroupsAreJobs ==
  ASSUME NEW seen \in SUBSET Episodes, NEW g \in GroupsOf(seen)
  PROVE  Phase2(g) \in AllJobs
<1>1. PICK s \in {Slot[c] : c \in seen} : g = {c \in seen : Slot[c] = s}
  BY DEF GroupsOf, FirstOf
<1>2. g # {} /\ g \in SUBSET Episodes /\ \A c, d \in g : Slot[c] = Slot[d]
  BY <1>1
<1>. QED BY <1>2 DEF AllJobs, Phase2Jobs, SameSlot

LEMMA StepDrivesQueue == IInv /\ [Next]_vars => [Queue!Next]_jobs
<1>. SUFFICES ASSUME IInv, [Next]_vars PROVE Queue!Next \/ UNCHANGED jobs
  OBVIOUS
<1>. USE RunTyped
<1>1. ASSUME NEW r \in Runs, QueueEpisode(r) PROVE Queue!Next
  <2>1. PICK e \in Episodes : Queue!EnqueueJob(Phase1(e))
    BY <1>1, WindowInEpisodes DEF QueueEpisode
  <2>2. Phase1(e) \in AllJobs
    BY DEF AllJobs, Phase1Jobs
  <2>. QED BY <2>1, <2>2 DEF Queue!Next
<1>2. ASSUME NEW r \in Runs, QueueGroup(r) PROVE Queue!Next
  <2>1. PICK g \in GroupsOf(run[r].seen) : Queue!EnqueueJob(Phase2(g))
    BY <1>2 DEF QueueGroup
  <2>2. run[r].seen \in SUBSET Episodes
    BY DEF RunRecord
  <2>3. Phase2(g) \in AllJobs
    BY <2>2, GroupsAreJobs
  <2>. QED BY <2>1, <2>3 DEF Queue!Next
<1>3. ASSUME NEW r \in Runs, QueueEmpty(r) \/ LeaseNext(r) PROVE Queue!Next
  <2>1. Queue!LeaseJob(r, AllJobs)
    BY <1>3 DEF QueueEmpty, LeaseNext, Queue!LeaseJob
  <2>2. AllJobs \in SUBSET AllJobs
    OBVIOUS
  <2>. QED BY <2>1, <2>2 DEF Queue!Next
<1>4. ASSUME NEW r \in Runs, BudgetExceeded(r) \/ GiveBack(r) \/ CompletionFails(r)
      PROVE  Queue!Next
  <2>1. run[r].pc \in Working /\ Queue!FailJob(r, run[r].job)
    BY <1>4 DEF BudgetExceeded, GiveBack, CompletionFails, At, Working
  <2>. QED BY <2>1 DEF Queue!Next
<1>5. ASSUME NEW r \in Runs, Complete(r) PROVE Queue!Next
  <2>1. run[r].pc \in Working /\ Queue!CompleteJob(r, run[r].job)
    BY <1>5 DEF Complete, At, Working
  <2>. QED BY <2>1 DEF Queue!Next
<1>6. ASSUME NEW j \in AllJobs, DueTick(j) \/ ExpiryTick(j) PROVE Queue!Next
  BY <1>6 DEF DueTick, ExpiryTick, Queue!Next
<1>7. ASSUME NEW r \in Runs,
             \/ EpisodesQueued(r) \/ PickCandidates(r) \/ GroupsQueued(r)
             \/ TakeLock(r) \/ AlreadyRunning(r) \/ Certified(r) \/ NotCertified(r)
             \/ StopLeasing(r) \/ Load(r) \/ Reserve(r) \/ WorkerAnswers(r)
             \/ PersistCandidates(r) \/ PersistProposals(r)
             \/ CountOpen(r) \/ RegroupFails(r) \/ Restart(r) \/ Crash(r)
      PROVE  UNCHANGED jobs
  BY <1>7
  DEF EpisodesQueued, PickCandidates, GroupsQueued, TakeLock, AlreadyRunning, Certified,
      NotCertified, StopLeasing, Load, Reserve, WorkerAnswers, PersistCandidates,
      PersistProposals, CountOpen, RegroupFails, Restart, Crash
<1>8. CASE UNCHANGED vars
  BY <1>8 DEF vars
<1>. QED BY <1>1, <1>2, <1>3, <1>4, <1>5, <1>6, <1>7, <1>8 DEF Next, RunStep

(***************************************************************************)
(* Every behaviour of the runs is one of JobQueue, so what is proved of    *)
(* the queue holds in the pipeline: run-nightly never completes or fails a *)
(* job it does not lease, and never touches a row by any other way.        *)
(***************************************************************************)
THEOREM RunsImplementQueue == Spec => Queue!Spec
<1>1. Init => Queue!Init
  BY DEF Init
<1>. QED BY <1>1, SpecIInv, StepDrivesQueue, PTL DEF Spec, Queue!Spec
=============================================================================
