----------------------------- MODULE JobQueue -----------------------------
(***************************************************************************)
(* The jobs table of operations.sqlite3 and the methods of OperationsStore *)
(* that write it: enqueue_job, lease_job, complete_job and fail_job.  Each *)
(* method is one SQLite transaction under the operations writer lock, so   *)
(* each is one action; callers (nightly runs, pilots) interleave freely.   *)
(*                                                                         *)
(* Time is not a number here.  A row compares the clock only with its      *)
(* available_at and its lease_expires_at, so it keeps the two answers:     *)
(* due (available_at <= now) and expired (lease_expires_at <= now).  Two   *)
(* actions let them become true at any moment: the worker call may be      *)
(* short, or the machine may sleep through the whole lease.                *)
(***************************************************************************)
EXTENDS Integers

CONSTANTS
    Jobs,           \* deduplication keys; the column is UNIQUE, so also rows
    Owners,         \* lease_owner values, one per nightly process
    NoOwner,        \* NULL in lease_owner
    MaxAttempts,    \* max_attempts of the rows
    Priority        \* Priority[j]: the priority j is queued with

ASSUME MaxAttemptsAssumption == MaxAttempts \in Nat \ {0}
ASSUME NoOwnerAssumption == NoOwner \notin Owners
ASSUME PriorityAssumption == Priority \in [Jobs -> Int]

VARIABLE jobs       \* jobs[j]: the row with dedupe_key j, or NoRow

JobStatus == {"absent", "queued", "leased", "completed", "failed"}

Settled == {"completed", "failed"}

Row == [status   : JobStatus,
        attempts : 0 .. MaxAttempts,
        owner    : Owners \cup {NoOwner},
        due      : BOOLEAN,
        expired  : BOOLEAN]

NoRow == [status |-> "absent", attempts |-> 0, owner |-> NoOwner,
          due |-> FALSE, expired |-> FALSE]

\* A row nobody holds: lease_owner and lease_expires_at are NULL.
FreeRow(status, attempts, due) ==
    [status |-> status, attempts |-> attempts, owner |-> NoOwner,
     due |-> due, expired |-> FALSE]

\* As if lease_job forgot attempts = attempts + 1.
HeldRowUncharged(row, o) ==
    [status |-> "leased", attempts |-> row.attempts, owner |-> o,
     due |-> row.due, expired |-> FALSE]

HeldRow(row, o) ==
    [status |-> "leased", attempts |-> row.attempts + 1, owner |-> o,
     due |-> row.due, expired |-> FALSE]

Init == jobs = [j \in Jobs |-> NoRow]

-----------------------------------------------------------------------------
\* As if the insert were ON CONFLICT(dedupe_key) DO UPDATE SET status = 'queued'.
EnqueueJobUpserting(j) ==
    /\ jobs[j].status # "leased"
    /\ jobs' = [jobs EXCEPT ![j] = FreeRow("queued", 0, TRUE)]

(***************************************************************************)
(* enqueue_job: INSERT ... ON CONFLICT(dedupe_key) DO NOTHING.  A row of   *)
(* any status, settled ones included, keeps the key.                       *)
(***************************************************************************)
EnqueueJob(j) ==
    /\ jobs[j].status = "absent"
    /\ jobs' = [jobs EXCEPT ![j] = FreeRow("queued", 0, TRUE)]

\* As if the first UPDATE of lease_job missed its attempts >= max_attempts,
RecoverRowEager(row) ==
    IF row.status = "leased" /\ row.expired
    THEN FreeRow("failed", row.attempts, row.due)
    ELSE row

\* both missed lease_expires_at <= now,
RecoverRowUnexpired(row) ==
    IF row.status = "leased"
    THEN FreeRow(IF row.attempts >= MaxAttempts THEN "failed" ELSE "queued",
                 row.attempts, row.due)
    ELSE row

\* or the first one were not there at all.
RecoverRowRetryOnly(row) ==
    IF row.status = "leased" /\ row.expired /\ row.attempts < MaxAttempts
    THEN FreeRow("queued", row.attempts, row.due)
    ELSE row

(***************************************************************************)
(* lease_job, first part: the two UPDATEs that recover expired leases in   *)
(* the scope.  The first fails a row whose last permitted attempt expired, *)
(* the second puts the others back in the queue.                           *)
(***************************************************************************)
RecoverRow(row) ==
    IF row.status = "leased" /\ row.expired
    THEN FreeRow(IF row.attempts >= MaxAttempts THEN "failed" ELSE "queued",
                 row.attempts, row.due)
    ELSE row

Recovered(scope) ==
    [j \in Jobs |-> IF j \in scope THEN RecoverRow(jobs[j]) ELSE jobs[j]]

(***************************************************************************)
(* lease_job, second part: SELECT a queued, due row with attempts left, by *)
(* descending priority (created_at and job_id only break ties).  scope is  *)
(* the rows the job_types and job_ids filters admit.                       *)
(***************************************************************************)
Leasable(rows, scope) ==
    {j \in scope : /\ rows[j].status = "queued"
                   /\ rows[j].due
                   /\ rows[j].attempts < MaxAttempts}

Front(rows, scope) ==
    {j \in Leasable(rows, scope) :
        \A k \in Leasable(rows, scope) : Priority[k] <= Priority[j]}

Grant(o, j, scope) ==
    /\ j \in Front(Recovered(scope), scope)
    /\ jobs' = [Recovered(scope) EXCEPT ![j] = HeldRow(Recovered(scope)[j], o)]

\* No row to lease: the recovery is committed and None returned.
GrantNothing(scope) ==
    /\ Leasable(Recovered(scope), scope) = {}
    /\ jobs' = Recovered(scope)

LeaseJob(o, scope) ==
    \/ \E j \in scope : Grant(o, j, scope)
    \/ GrantNothing(scope)

(***************************************************************************)
(* complete_job and fail_job act only on a row leased by the caller.       *)
(* Neither looks at lease_expires_at: an owner that is late but whose row  *)
(* nobody recovered may still finish it.                                   *)
(***************************************************************************)
Holds(o, j) == jobs[j].status = "leased" /\ jobs[j].owner = o

CompleteJob(o, j) ==
    /\ Holds(o, j)
    /\ jobs' = [jobs EXCEPT ![j] = FreeRow("completed", @.attempts, @.due)]

\* As if fail_job compared attempts <= max_attempts,
FailedRowLax(row) ==
    IF row.attempts <= MaxAttempts
    THEN FreeRow("queued", row.attempts, FALSE)
    ELSE FreeRow("failed", row.attempts, FALSE)

\* or charged the failed attempt once more.
FailedRowCharged(row) ==
    IF row.attempts < MaxAttempts
    THEN FreeRow("queued", row.attempts, FALSE)
    ELSE FreeRow("failed", row.attempts + 1, FALSE)

\* Every caller passes a retry_at in the future, so a retried row is not due.
FailedRow(row) ==
    IF row.attempts < MaxAttempts
    THEN FreeRow("queued", row.attempts, FALSE)
    ELSE FreeRow("failed", row.attempts, FALSE)

FailJob(o, j) ==
    /\ Holds(o, j)
    /\ jobs' = [jobs EXCEPT ![j] = FailedRow(@)]

-----------------------------------------------------------------------------
(***************************************************************************)
(* The clock.                                                              *)
(***************************************************************************)
BecomesDue(j) ==
    /\ jobs[j].status = "queued"
    /\ ~jobs[j].due
    /\ jobs' = [jobs EXCEPT ![j].due = TRUE]

LeaseExpires(j) ==
    /\ jobs[j].status = "leased"
    /\ ~jobs[j].expired
    /\ jobs' = [jobs EXCEPT ![j].expired = TRUE]

Next ==
    \/ \E j \in Jobs : EnqueueJob(j) \/ BecomesDue(j) \/ LeaseExpires(j)
    \/ \E o \in Owners, scope \in SUBSET Jobs : LeaseJob(o, scope)
    \/ \E o \in Owners, j \in Jobs : CompleteJob(o, j) \/ FailJob(o, j)

Spec == Init /\ [][Next]_jobs

(***************************************************************************)
(* The clock advances, and somebody keeps asking for work of every kind:   *)
(* the schedule starts a nightly run every day and a run leases over the   *)
(* whole queue.  Nothing makes an owner finish what it leased.             *)
(***************************************************************************)
Fairness ==
    /\ \A j \in Jobs : WF_jobs(BecomesDue(j)) /\ WF_jobs(LeaseExpires(j))
    /\ WF_jobs(\E o \in Owners : LeaseJob(o, Jobs))

FairSpec == Spec /\ Fairness

-----------------------------------------------------------------------------
TypeOK == jobs \in [Jobs -> Row]

(***************************************************************************)
(* A queued row always has an attempt left.  lease_job selects only rows   *)
(* with attempts < max_attempts, and no statement settles a queued row, so *)
(* a row that broke this would sit in the queue for ever, unseen.          *)
(***************************************************************************)
NoHiddenJob ==
    \A j \in Jobs : jobs[j].status = "queued" => jobs[j].attempts < MaxAttempts

(***************************************************************************)
(* A job is given up only after every permitted attempt: neither the       *)
(* recovery in lease_job nor fail_job fails a row that could be retried.   *)
(***************************************************************************)
FailedOnlyWhenSpent ==
    \A j \in Jobs : jobs[j].status = "failed" => jobs[j].attempts = MaxAttempts

(***************************************************************************)
(* A lease that has not expired never changes hands and is never charged   *)
(* twice, whoever else calls lease_job, with whatever scope.               *)
(***************************************************************************)
LiveLeaseKept ==
    [][\A j \in Jobs :
         (jobs[j].status = "leased" /\ ~jobs[j].expired /\ jobs'[j].status = "leased")
            => jobs'[j].owner = jobs[j].owner /\ jobs'[j].attempts = jobs[j].attempts]_jobs

(***************************************************************************)
(* A settled job stays as it is: a late complete_job or fail_job, a second *)
(* enqueue under the same key or a recovery never reopens or redecides it. *)
(***************************************************************************)
SettledJobsStay ==
    [][\A j \in Jobs : jobs[j].status \in Settled => jobs'[j] = jobs[j]]_jobs

(***************************************************************************)
(* Every queued job is decided in the end, even if every process that ever *)
(* leases it dies: expiry and the attempt bound see to it.                 *)
(***************************************************************************)
EveryJobSettles ==
    \A j \in Jobs : (jobs[j].status # "absent") ~> (jobs[j].status \in Settled)

-----------------------------------------------------------------------------
(***************************************************************************)
(* The queue implements the promise of TryLedger.                          *)
(***************************************************************************)
PhaseOf(status) ==
    CASE status = "absent"    -> "new"
      [] status = "completed" -> "done"
      [] status = "failed"    -> "dead"
      [] OTHER                -> "open"

LedgerView ==
    [j \in Jobs |-> [phase |-> PhaseOf(jobs[j].status), tries |-> jobs[j].attempts]]

Promise == INSTANCE TryLedger WITH MaxTries <- MaxAttempts, ledger <- LedgerView

(***************************************************************************)
(* enqueue_job, lease_job, complete_job and fail_job together keep the     *)
(* promise of TryLedger: bounded tries, one decision, none before a try.   *)
(***************************************************************************)
KeepsPromise == Promise!Spec
=============================================================================
