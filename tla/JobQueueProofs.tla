-------------------------- MODULE JobQueueProofs --------------------------
(***************************************************************************)
(* Theorems about JobQueue, for every set of jobs and owners, every        *)
(* priority and every bound on the attempts.                               *)
(***************************************************************************)
EXTENDS JobQueue, TLAPS

(***************************************************************************)
(* The inductive invariant.  A row's status decides which of its other     *)
(* columns mean something: a lease has been charged, a queued row still    *)
(* has an attempt left, a settled row was tried, a failed one to the last. *)
(***************************************************************************)
RowOK(row) ==
    /\ row.status = "queued"    => row.attempts < MaxAttempts
    /\ row.status = "leased"    => row.attempts > 0
    /\ row.status = "completed" => row.attempts > 0
    /\ row.status = "failed"    => row.attempts = MaxAttempts

IInv == TypeOK /\ \A j \in Jobs : RowOK(jobs[j])

-----------------------------------------------------------------------------
(***************************************************************************)
(* What each operation makes of one well-formed row.                       *)
(***************************************************************************)
LEMMA RecoverRowOK ==
  ASSUME NEW row \in Row, RowOK(row)
  PROVE  RecoverRow(row) \in Row /\ RowOK(RecoverRow(row))
BY MaxAttemptsAssumption DEF RecoverRow, FreeRow, Row, RowOK, JobStatus

LEMMA RecoveredOK ==
  ASSUME IInv, NEW scope \in SUBSET Jobs, NEW j \in Jobs
  PROVE  Recovered(scope)[j] \in Row /\ RowOK(Recovered(scope)[j])
BY RecoverRowOK DEF IInv, TypeOK, Recovered

LEMMA HeldRowOK ==
  ASSUME NEW row \in Row, row.attempts < MaxAttempts, NEW o \in Owners
  PROVE  HeldRow(row, o) \in Row /\ RowOK(HeldRow(row, o))
BY MaxAttemptsAssumption DEF HeldRow, Row, RowOK, JobStatus

LEMMA FailedRowOK ==
  ASSUME NEW row \in Row, RowOK(row), row.status = "leased"
  PROVE  FailedRow(row) \in Row /\ RowOK(FailedRow(row))
BY MaxAttemptsAssumption DEF FailedRow, FreeRow, Row, RowOK, JobStatus

\* Changing one row to a well-formed one keeps the invariant.
LEMMA OneRowChanged ==
  ASSUME IInv, NEW j \in Jobs, NEW row \in Row, RowOK(row),
         jobs' = [jobs EXCEPT ![j] = row]
  PROVE  IInv'
BY DEF IInv, TypeOK, RowOK

LEMMA GrantOK ==
  ASSUME IInv, NEW o \in Owners, NEW scope \in SUBSET Jobs, NEW j \in scope,
         Grant(o, j, scope)
  PROVE  IInv'
<1>1. /\ Recovered(scope) \in [Jobs -> Row]
      /\ \A k \in Jobs : RowOK(Recovered(scope)[k])
  <2>1. \A k \in Jobs : Recovered(scope)[k] \in Row /\ RowOK(Recovered(scope)[k])
    BY RecoveredOK
  <2>. QED BY <2>1 DEF Recovered
<1>2. j \in Jobs /\ Recovered(scope)[j].attempts < MaxAttempts
  BY DEF Grant, Front, Leasable
<1>3. /\ HeldRow(Recovered(scope)[j], o) \in Row
      /\ RowOK(HeldRow(Recovered(scope)[j], o))
  BY <1>1, <1>2, HeldRowOK
<1>4. jobs' = [Recovered(scope) EXCEPT ![j] = HeldRow(Recovered(scope)[j], o)]
  BY DEF Grant
<1>5. /\ jobs' \in [Jobs -> Row]
      /\ \A k \in Jobs : RowOK(jobs'[k])
  BY <1>1, <1>2, <1>3, <1>4
<1>. QED BY <1>5 DEF IInv, TypeOK, RowOK

LEMMA GrantNothingOK ==
  ASSUME IInv, NEW scope \in SUBSET Jobs, GrantNothing(scope)
  PROVE  IInv'
<1>1. \A k \in Jobs : Recovered(scope)[k] \in Row /\ RowOK(Recovered(scope)[k])
  BY RecoveredOK
<1>2. jobs' = Recovered(scope)
  BY DEF GrantNothing
<1>3. jobs' \in [Jobs -> Row]
  BY <1>1, <1>2 DEF Recovered
<1>. QED BY <1>1, <1>2, <1>3 DEF IInv, TypeOK, RowOK

-----------------------------------------------------------------------------
LEMMA InitIInv == Init => IInv
BY MaxAttemptsAssumption DEF Init, IInv, TypeOK, Row, NoRow, JobStatus, RowOK

LEMMA NextIInv == IInv /\ [Next]_jobs => IInv'
<1>. SUFFICES ASSUME IInv, [Next]_jobs PROVE IInv'
  OBVIOUS
<1>1. ASSUME NEW j \in Jobs, EnqueueJob(j) PROVE IInv'
  <2>1. FreeRow("queued", 0, TRUE) \in Row /\ RowOK(FreeRow("queued", 0, TRUE))
    BY MaxAttemptsAssumption DEF FreeRow, Row, RowOK, JobStatus
  <2>. QED BY <1>1, <2>1, OneRowChanged DEF EnqueueJob
<1>2. ASSUME NEW j \in Jobs, BecomesDue(j) PROVE IInv'
  <2>. DEFINE row == [jobs[j] EXCEPT !.due = TRUE]
  <2>1. row \in Row /\ RowOK(row)
    BY DEF IInv, TypeOK, Row, RowOK
  <2>2. jobs' = [jobs EXCEPT ![j] = row]
    BY <1>2 DEF BecomesDue
  <2>. HIDE DEF row
  <2>. QED BY <2>1, <2>2, OneRowChanged
<1>3. ASSUME NEW j \in Jobs, LeaseExpires(j) PROVE IInv'
  <2>. DEFINE row == [jobs[j] EXCEPT !.expired = TRUE]
  <2>1. row \in Row /\ RowOK(row)
    BY DEF IInv, TypeOK, Row, RowOK
  <2>2. jobs' = [jobs EXCEPT ![j] = row]
    BY <1>3 DEF LeaseExpires
  <2>. HIDE DEF row
  <2>. QED BY <2>1, <2>2, OneRowChanged
<1>4. ASSUME NEW o \in Owners, NEW scope \in SUBSET Jobs, LeaseJob(o, scope)
      PROVE  IInv'
  BY <1>4, GrantOK, GrantNothingOK DEF LeaseJob
<1>5. ASSUME NEW o \in Owners, NEW j \in Jobs, CompleteJob(o, j) PROVE IInv'
  <2>. DEFINE row == FreeRow("completed", jobs[j].attempts, jobs[j].due)
  <2>1. row \in Row /\ RowOK(row)
    BY <1>5 DEF IInv, TypeOK, Row, RowOK, FreeRow, JobStatus, CompleteJob, Holds
  <2>2. jobs' = [jobs EXCEPT ![j] = row]
    BY <1>5 DEF CompleteJob
  <2>. HIDE DEF row
  <2>. QED BY <2>1, <2>2, OneRowChanged
<1>6. ASSUME NEW o \in Owners, NEW j \in Jobs, FailJob(o, j) PROVE IInv'
  <2>1. FailedRow(jobs[j]) \in Row /\ RowOK(FailedRow(jobs[j]))
    BY <1>6, FailedRowOK DEF IInv, TypeOK, FailJob, Holds
  <2>2. jobs' = [jobs EXCEPT ![j] = FailedRow(jobs[j])]
    BY <1>6 DEF FailJob
  <2>. QED BY <2>1, <2>2, OneRowChanged
<1>7. CASE UNCHANGED jobs
  BY <1>7 DEF IInv, TypeOK, RowOK
<1>. QED BY <1>1, <1>2, <1>3, <1>4, <1>5, <1>6, <1>7 DEF Next

LEMMA SpecIInv == Spec => []IInv
BY InitIInv, NextIInv, PTL DEF Spec

-----------------------------------------------------------------------------
(***************************************************************************)
(* Every row of the jobs table has its type: in particular attempts never  *)
(* exceeds max_attempts, however leases expire and retries race.           *)
(***************************************************************************)
THEOREM TypeCorrect == Spec => []TypeOK
BY SpecIInv, PTL DEF IInv

(***************************************************************************)
(* No queued row is out of attempts, so the SELECT of lease_job can find   *)
(* every queued row that is due.                                           *)
(***************************************************************************)
THEOREM QueuedIsVisible == Spec => []NoHiddenJob
<1>1. IInv => NoHiddenJob
  BY DEF IInv, RowOK, NoHiddenJob
<1>. QED BY <1>1, SpecIInv, PTL

(***************************************************************************)
(* A row is failed only after max_attempts attempts, whether fail_job or   *)
(* the recovery in lease_job fails it.                                     *)
(***************************************************************************)
THEOREM FailedIsSpent == Spec => []FailedOnlyWhenSpent
<1>1. IInv => FailedOnlyWhenSpent
  BY DEF IInv, RowOK, FailedOnlyWhenSpent
<1>. QED BY <1>1, SpecIInv, PTL

-----------------------------------------------------------------------------
(***************************************************************************)
(* What one step can do to one row.                                        *)
(***************************************************************************)
RowStep(row, next) ==
    \/ next = row
    \/ row.status = "absent" /\ next = FreeRow("queued", 0, TRUE)
    \/ row.status = "queued" /\ next = [row EXCEPT !.due = TRUE]
    \/ row.status = "leased" /\ next = [row EXCEPT !.expired = TRUE]
    \/ row.status = "leased" /\ row.expired /\ next = RecoverRow(row)
    \/ /\ row.status = "queued"
       /\ row.attempts < MaxAttempts
       /\ \E o \in Owners : next = HeldRow(row, o)
    \/ /\ row.status = "leased" /\ row.expired
       /\ row.attempts < MaxAttempts
       /\ \E o \in Owners : next = HeldRow(RecoverRow(row), o)
    \/ row.status = "leased" /\ next = FreeRow("completed", row.attempts, row.due)
    \/ row.status = "leased" /\ next = FailedRow(row)

LEMMA RecoveredStep ==
  ASSUME NEW row \in Row
  PROVE  RowStep(row, RecoverRow(row))
BY DEF RowStep, RecoverRow

LEMMA GrantStep ==
  ASSUME IInv, NEW o \in Owners, NEW scope \in SUBSET Jobs, NEW j \in scope,
         Grant(o, j, scope), NEW k \in Jobs
  PROVE  RowStep(jobs[k], jobs'[k])
<1>1. jobs[k] \in Row /\ Recovered(scope)[k] \in {jobs[k], RecoverRow(jobs[k])}
  BY DEF IInv, TypeOK, Recovered
<1>2. CASE k # j
  <2>1. jobs'[k] = Recovered(scope)[k]
    BY <1>2 DEF Grant, Recovered
  <2>. QED BY <1>1, <2>1, RecoveredStep DEF RowStep
<1>3. CASE k = j
  <2>1. /\ Recovered(scope)[j] = RecoverRow(jobs[j])
        /\ jobs'[j] = HeldRow(RecoverRow(jobs[j]), o)
        /\ RecoverRow(jobs[j]).status = "queued"
        /\ RecoverRow(jobs[j]).attempts < MaxAttempts
    BY DEF Grant, Front, Leasable, Recovered
  <2>2. CASE jobs[j].status = "leased" /\ jobs[j].expired
    <3>1. jobs[j].attempts < MaxAttempts
      BY <2>1, <2>2 DEF RecoverRow, FreeRow
    <3>. QED BY <1>3, <2>1, <2>2, <3>1 DEF RowStep
  <2>3. CASE ~(jobs[j].status = "leased" /\ jobs[j].expired)
    <3>1. RecoverRow(jobs[j]) = jobs[j]
      BY <2>3 DEF RecoverRow
    <3>. QED BY <1>3, <2>1, <3>1 DEF RowStep
  <2>. QED BY <2>2, <2>3
<1>. QED BY <1>2, <1>3

LEMMA NextRowStep ==
  ASSUME IInv, [Next]_jobs, NEW k \in Jobs
  PROVE  RowStep(jobs[k], jobs'[k])
<1>0. jobs \in [Jobs -> Row]
  BY DEF IInv, TypeOK
<1>1. ASSUME NEW j \in Jobs, EnqueueJob(j) PROVE RowStep(jobs[k], jobs'[k])
  BY <1>0, <1>1 DEF EnqueueJob, RowStep
<1>2. ASSUME NEW j \in Jobs, BecomesDue(j) PROVE RowStep(jobs[k], jobs'[k])
  BY <1>0, <1>2 DEF BecomesDue, RowStep
<1>3. ASSUME NEW j \in Jobs, LeaseExpires(j) PROVE RowStep(jobs[k], jobs'[k])
  BY <1>0, <1>3 DEF LeaseExpires, RowStep
<1>4. ASSUME NEW o \in Owners, NEW scope \in SUBSET Jobs, LeaseJob(o, scope)
      PROVE  RowStep(jobs[k], jobs'[k])
  <2>1. CASE GrantNothing(scope)
    <3>1. jobs'[k] \in {jobs[k], RecoverRow(jobs[k])}
      BY <2>1 DEF GrantNothing, Recovered
    <3>. QED BY <1>0, <3>1, RecoveredStep DEF RowStep
  <2>. QED BY <1>4, <2>1, GrantStep DEF LeaseJob
<1>5. ASSUME NEW o \in Owners, NEW j \in Jobs, CompleteJob(o, j)
      PROVE  RowStep(jobs[k], jobs'[k])
  BY <1>0, <1>5 DEF CompleteJob, Holds, RowStep
<1>6. ASSUME NEW o \in Owners, NEW j \in Jobs, FailJob(o, j)
      PROVE  RowStep(jobs[k], jobs'[k])
  BY <1>0, <1>6 DEF FailJob, Holds, RowStep
<1>7. CASE UNCHANGED jobs
  BY <1>7 DEF RowStep
<1>. QED BY <1>1, <1>2, <1>3, <1>4, <1>5, <1>6, <1>7 DEF Next

(***************************************************************************)
(* A completed or failed row is never written again: not by a second       *)
(* enqueue under its key, a late owner or a recovery.                      *)
(***************************************************************************)
THEOREM SettledForGood == Spec => SettledJobsStay
<1>1. ASSUME IInv, [Next]_jobs, NEW j \in Jobs, jobs[j].status \in Settled
      PROVE  jobs'[j] = jobs[j]
  <2>1. RowStep(jobs[j], jobs'[j])
    BY <1>1, NextRowStep
  <2>. QED BY <1>1, <2>1 DEF RowStep, Settled
<1>2. IInv /\ [Next]_jobs
        => [\A j \in Jobs : jobs[j].status \in Settled => jobs'[j] = jobs[j]]_jobs
  BY <1>1
<1>. QED BY <1>2, SpecIInv, PTL DEF Spec, SettledJobsStay

(***************************************************************************)
(* An unexpired lease keeps its owner and its attempt count whatever other *)
(* owners ask for.                                                         *)
(***************************************************************************)
THEOREM LeaseIsExclusive == Spec => LiveLeaseKept
<1>. DEFINE Kept(j) ==
       (jobs[j].status = "leased" /\ ~jobs[j].expired /\ jobs'[j].status = "leased")
         => jobs'[j].owner = jobs[j].owner /\ jobs'[j].attempts = jobs[j].attempts
<1>1. ASSUME IInv, [Next]_jobs, NEW j \in Jobs PROVE Kept(j)
  <2>1. jobs[j] \in Row /\ RowStep(jobs[j], jobs'[j])
    BY <1>1, NextRowStep DEF IInv, TypeOK
  <2>. QED BY <2>1 DEF RowStep, Row, FreeRow, FailedRow
<1>2. IInv /\ [Next]_jobs => [\A j \in Jobs : Kept(j)]_jobs
  BY <1>1
<1>. QED BY <1>2, SpecIInv, PTL DEF Spec, LiveLeaseKept

-----------------------------------------------------------------------------
\* A row step is a step of the promise, or none.
EntryOf(row) == [phase |-> PhaseOf(row.status), tries |-> row.attempts]

LEMMA EntryTyped ==
  ASSUME NEW row \in Row
  PROVE  EntryOf(row) \in Promise!Entry
BY DEF Row, JobStatus, EntryOf, PhaseOf, Promise!Entry

LEMMA RowStepKeepsPromise ==
  ASSUME NEW row \in Row, RowOK(row), NEW next \in Row, RowStep(row, next)
  PROVE  Promise!Step(EntryOf(row), EntryOf(next))
<1>. USE MaxAttemptsAssumption
<1>1. CASE next = row
  BY <1>1 DEF Promise!Step
<1>2. CASE row.status = "absent" /\ next = FreeRow("queued", 0, TRUE)
  BY <1>2 DEF FreeRow, EntryOf, PhaseOf, Promise!Step, Promise!Submit
<1>3. CASE row.status = "queued" /\ next = [row EXCEPT !.due = TRUE]
  BY <1>3 DEF Row, EntryOf, PhaseOf, Promise!Step
<1>4. CASE row.status = "leased" /\ next = [row EXCEPT !.expired = TRUE]
  BY <1>4 DEF Row, EntryOf, PhaseOf, Promise!Step
<1>5. CASE row.status = "leased" /\ row.expired /\ next = RecoverRow(row)
  BY <1>5 DEF Row, RecoverRow, FreeRow, EntryOf, PhaseOf, Promise!Step, Promise!GiveUp
<1>6. CASE /\ row.status = "queued" /\ row.attempts < MaxAttempts
           /\ \E o \in Owners : next = HeldRow(row, o)
  BY <1>6 DEF Row, HeldRow, EntryOf, PhaseOf, Promise!Step, Promise!Try
<1>7. CASE /\ row.status = "leased" /\ row.expired /\ row.attempts < MaxAttempts
           /\ \E o \in Owners : next = HeldRow(RecoverRow(row), o)
  BY <1>7 DEF Row, RecoverRow, FreeRow, HeldRow, EntryOf, PhaseOf, Promise!Step, Promise!Try
<1>8. CASE row.status = "leased" /\ next = FreeRow("completed", row.attempts, row.due)
  BY <1>8 DEF Row, RowOK, FreeRow, EntryOf, PhaseOf, Promise!Step, Promise!Settle
<1>9. CASE row.status = "leased" /\ next = FailedRow(row)
  BY <1>9 DEF Row, FailedRow, FreeRow, EntryOf, PhaseOf, Promise!Step, Promise!GiveUp
<1>. QED
  BY <1>1, <1>2, <1>3, <1>4, <1>5, <1>6, <1>7, <1>8, <1>9 DEF RowStep

(***************************************************************************)
(* The queue implements TryLedger: a job gets at most max_attempts tries,  *)
(* is decided at most once, done only after a try and dead only after the  *)
(* last one.                                                               *)
(***************************************************************************)
THEOREM QueueKeepsPromise == Spec => KeepsPromise
<1>1. Init => Promise!Init
  BY DEF Init, Promise!Init, LedgerView, NoRow, PhaseOf
<1>2. ASSUME IInv, IInv', [Next]_jobs PROVE [Promise!Next]_LedgerView
  <2>1. /\ LedgerView = [j \in Jobs |-> EntryOf(jobs[j])]
        /\ LedgerView' = [j \in Jobs |-> EntryOf(jobs'[j])]
    BY DEF LedgerView, EntryOf
  <2>2. LedgerView' \in [Jobs -> Promise!Entry]
    <3>1. \A j \in Jobs : EntryOf(jobs'[j]) \in Promise!Entry
      BY <1>2, EntryTyped DEF IInv, TypeOK
    <3>. QED BY <2>1, <3>1
  <2>3. ASSUME NEW j \in Jobs PROVE Promise!Step(LedgerView[j], LedgerView'[j])
    <3>1. jobs[j] \in Row /\ RowOK(jobs[j]) /\ jobs'[j] \in Row
      BY <1>2 DEF IInv, TypeOK
    <3>2. RowStep(jobs[j], jobs'[j])
      BY <1>2, NextRowStep
    <3>3. Promise!Step(EntryOf(jobs[j]), EntryOf(jobs'[j]))
      BY <3>1, <3>2, RowStepKeepsPromise
    <3>. QED BY <2>1, <3>3
  <2>. QED BY <2>2, <2>3 DEF Promise!Next
<1>. QED BY <1>1, <1>2, SpecIInv, PTL DEF Spec, KeepsPromise, Promise!Spec
=============================================================================
