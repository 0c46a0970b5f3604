------------------------- MODULE QueueReconciliation -------------------------
(***************************************************************************)
(* `dream queue-reconcile` and `dream queue-reactivate`: after an upgrade  *)
(* has changed the identity of Phase 1 jobs, the rows queued before it are *)
(* cancelled one allowlist at a time, and a cancelled barrier takes the    *)
(* key under which the upgraded program would queue the episode again.     *)
(* Some barriers may be reactivated later.                                 *)
(*                                                                         *)
(* A row is known by its dedupe_key, here the episode and the version of   *)
(* prompt, schema and model that queued it.  Meanwhile nightly runs queue  *)
(* and work, a source (with its episode) is forgotten, and a snapshot is   *)
(* restored, which takes both maintenance locks.                           *)
(***************************************************************************)
EXTENDS Naturals, FiniteSets

CONSTANTS
    Episodes,
    Verdict,        \* Verdict[e]: what DatabaseJobLoader makes of its text
    MaxVersion,     \* bound: upgrades
    MaxAttempts,
    Commands        \* processes that reconcile or restore (bound)

ASSUME VerdictAssumption == Verdict \in [Episodes -> {"ready", "oversized", "ineligible"}]
ASSUME VersionsAssumption == MaxVersion \in Nat \ {0}
ASSUME AttemptsAssumption == MaxAttempts \in Nat \ {0}

Versions == 1 .. MaxVersion
Key == Episodes \X Versions
EpisodeOf(k) == k[1]

\* Phase1ReconciliationDisposition, as a cancelled row's last_error has it.
Permanent == {"oversized", "ineligible"}
Reactivatable == {"protocol deferred", "prompt stale"}
Reconciled == Permanent \cup Reactivatable

VARIABLES
    rows,           \* operations.sqlite3: rows[k], the Phase 1 jobs
    present,        \* memory.sqlite3: the episodes it has
    installed,      \* the version of the installed program
    proc            \* proc[c]: what command c has planned or locked

vars == <<rows, present, installed, proc>>

\* error: last_error, where "" is none and any that no decision depends on;
\* barrier: whether the job_id is that of a barrier; peer: the other row that
\* last_error names.
Row == [status : {"none", "queued", "leased", "completed", "failed", "cancelled"},
        attempts : 0 .. MaxAttempts,
        error : {"", "WorkerProtocolError"} \cup Reconciled,
        barrier : BOOLEAN,
        peer : Key]

Fresh(k, status) ==
    [status |-> status, attempts |-> 0, error |-> "", barrier |-> FALSE, peer |-> k]

\* The item of a plan: the row it saw and what it decided.
Item == [key : Key, row : Row, disposition : Reconciled \cup {"ready", "already"}]
Idle == [pc |-> "idle", version |-> 1, plan |-> {}]

Init ==
    /\ \E legacy \in SUBSET Episodes :
          rows = [k \in Key |-> Fresh(k, IF k[2] = 1 /\ k[1] \in legacy THEN "queued" ELSE "none")]
    /\ present = Episodes
    /\ installed = 1
    /\ proc = [c \in Commands |-> Idle]

\* A reconcile holds the operations lock from before its plan to its end, a
\* restore the memory lock and then both.
OperationsFree == \A c \in Commands : proc[c].pc # "planned"
MemoryFree == \A c \in Commands : proc[c].pc # "restoring"

-----------------------------------------------------------------------------
(***************************************************************************)
(* The nightly runs and what happens to the databases meanwhile.           *)
(***************************************************************************)
Becomes(k, row) ==
    /\ OperationsFree
    /\ rows' = [rows EXCEPT ![k] = row]
    /\ UNCHANGED <<present, installed, proc>>

\* enqueue_phase1_jobs: a key that is there stays as it is.
Enqueue(e) ==
    /\ e \in present
    /\ Verdict[e] # "ineligible"
    /\ rows[<<e, installed>>].status = "none"
    /\ Becomes(<<e, installed>>, Fresh(<<e, installed>>, "queued"))

\* As if a failed row were leased again.
LeaseFailed(k) ==
    /\ rows[k].status \in {"queued", "failed"}
    /\ Becomes(k, [rows[k] EXCEPT !.status = "leased", !.attempts = @ + 1])

Lease(k) ==
    /\ rows[k].status = "queued"
    /\ rows[k].attempts < MaxAttempts
    /\ Becomes(k, [rows[k] EXCEPT !.status = "leased", !.attempts = @ + 1])

Returned(row) == IF row.attempts < MaxAttempts THEN "queued" ELSE "failed"

Fail(k) ==
    \E error \in {"", "WorkerProtocolError"} :
        /\ rows[k].status = "leased"
        /\ Becomes(k, [rows[k] EXCEPT !.status = Returned(rows[k]), !.error = error])

Expire(k) ==
    /\ rows[k].status = "leased"
    /\ Becomes(k, [rows[k] EXCEPT !.status = Returned(rows[k])])

Complete(k) ==
    /\ rows[k].status = "leased"
    /\ Becomes(k, [rows[k] EXCEPT !.status = "completed"])

Upgrade ==
    /\ installed < MaxVersion
    /\ installed' = installed + 1
    /\ UNCHANGED <<rows, present, proc>>

\* forget_source, as far as an episode of its own is concerned.
Forget(e) ==
    /\ MemoryFree
    /\ e \in present
    /\ present' = present \ {e}
    /\ UNCHANGED <<rows, installed, proc>>

-----------------------------------------------------------------------------
(***************************************************************************)
(* reconcile_phase1_queue, by a command of the version installed when it   *)
(* started.                                                                *)
(***************************************************************************)
IsReconciled(row) == row.status = "cancelled" /\ row.error \in Reconciled

\* _classify_row; the row is queued or reconciled.
Disposition(k, version) ==
    LET row == rows[k]
        e == EpisodeOf(k) IN
    CASE IsReconciled(row) -> "already"
      [] ~IsReconciled(row) /\ Verdict[e] # "ready" -> Verdict[e]
      [] ~IsReconciled(row) /\ Verdict[e] = "ready" ->
            IF row.error = "WorkerProtocolError" THEN "protocol deferred"
            ELSE IF k = <<e, version>> THEN "ready"
            ELSE "prompt stale"

Classifiable(k) ==
    /\ EpisodeOf(k) \in present
    /\ rows[k].status = "queued" \/ IsReconciled(rows[k])

\* The key of the plan's version is free, the row's own, or a barrier's.
NoConflict(k, version) ==
    LET current == <<EpisodeOf(k), version>> IN
    \/ current = k
    \/ rows[current].status = "none"
    \/ rows[current].barrier /\ IsReconciled(rows[current])

Planned(k, version) ==
    [key |-> k, row |-> rows[k], disposition |-> Disposition(k, version)]

\* plan_phase1_queue_reconciliation, under the operations lock.
Plan(c) ==
    \E allowlist \in SUBSET {k \in Key : rows[k].status # "none"} :
        /\ proc[c].pc = "idle"
        /\ OperationsFree
        /\ allowlist # {}
        /\ \A k \in allowlist : Classifiable(k) /\ NoConflict(k, installed)
        /\ \A k, l \in allowlist : EpisodeOf(k) = EpisodeOf(l) => k = l
        /\ proc' = [proc EXCEPT ![c] =
              [pc |-> "planned", version |-> installed,
               plan |-> {Planned(k, installed) : k \in allowlist}]]
        /\ UNCHANGED <<rows, present, installed>>

\* The rows that change, each with the key of its barrier.
Transitions(c) == {i \in proc[c].plan : i.disposition \in Reconciled}
BarrierKey(c, i) == <<EpisodeOf(i.key), proc[c].version>>

Retired(c, i) ==
    [rows[i.key] EXCEPT !.status = "cancelled", !.error = i.disposition,
                        !.peer = BarrierKey(c, i)]

Barrier(i) ==
    [status |-> "cancelled", attempts |-> 0, error |-> i.disposition,
     barrier |-> TRUE, peer |-> i.key]

\* As if the retired row were enough.
ReconciledRowUnbarred(c, k) ==
    IF \E i \in Transitions(c) : i.key = k
    THEN Retired(c, CHOOSE i \in Transitions(c) : i.key = k)
    ELSE rows[k]

\* Row k after the transaction: retired, or a barrier where there was
\* nothing (ON CONFLICT DO NOTHING), or as it was.
ReconciledRow(c, k) ==
    IF \E i \in Transitions(c) : i.key = k
    THEN Retired(c, CHOOSE i \in Transitions(c) : i.key = k)
    ELSE IF rows[k].status = "none" /\ \E i \in Transitions(c) : BarrierKey(c, i) = k
    THEN Barrier(CHOOSE i \in Transitions(c) : BarrierKey(c, i) = k)
    ELSE rows[k]

\* Under both locks nothing may have changed since the plan.
StillHolds(c) ==
    \A i \in proc[c].plan :
        /\ rows[i.key] = i.row
        /\ Classifiable(i.key)
        /\ Disposition(i.key, proc[c].version) = i.disposition

\* As if the plan were applied without looking again.
ApplyPlanned(c) ==
    /\ proc[c].pc = "planned"
    /\ MemoryFree
    /\ rows' = [k \in Key |-> ReconciledRow(c, k)]
    /\ proc' = [proc EXCEPT ![c] = Idle]
    /\ UNCHANGED <<present, installed>>

Apply(c) ==
    /\ proc[c].pc = "planned"
    /\ MemoryFree
    /\ StillHolds(c)
    /\ rows' = [k \in Key |-> ReconciledRow(c, k)]
    /\ proc' = [proc EXCEPT ![c] = Idle]
    /\ UNCHANGED <<present, installed>>

\* The recheck fails, or the process dies; the locks go with it.
Abandon(c) ==
    /\ proc[c].pc # "idle"
    /\ proc' = [proc EXCEPT ![c] = Idle]
    /\ UNCHANGED <<rows, present, installed>>

\* As if any row the reconciler cancelled could be reactivated.
ReactivateAny ==
    \E allowlist \in SUBSET {k \in Key : IsReconciled(rows[k])} :
        /\ allowlist # {}
        /\ OperationsFree
        /\ rows' = [k \in Key |-> IF k \in allowlist
                                  THEN [rows[k] EXCEPT !.status = "queued", !.attempts = 0]
                                  ELSE rows[k]]
        /\ UNCHANGED <<present, installed, proc>>

\* reactivate_phase1_barriers, after a live doctor, plans and changes the
\* rows under the operations lock.
Reactivate ==
    \E allowlist \in SUBSET {k \in Key : IsReconciled(rows[k])} :
        /\ allowlist # {}
        /\ OperationsFree
        /\ \A k \in allowlist : rows[k].error \in Reactivatable
        /\ rows' = [k \in Key |-> IF k \in allowlist
                                  THEN [rows[k] EXCEPT !.status = "queued", !.attempts = 0]
                                  ELSE rows[k]]
        /\ UNCHANGED <<present, installed, proc>>

\* `snapshot restore` takes the memory lock, then the operations lock.  (The
\* snapshot is that of the moment: what a restore brings back is the subject
\* of ForgetAndRestore.)
BeginRestore(c) ==
    /\ proc[c].pc = "idle"
    /\ MemoryFree
    /\ proc' = [proc EXCEPT ![c].pc = "restoring"]
    /\ UNCHANGED <<rows, present, installed>>

EndRestore(c) ==
    /\ proc[c].pc = "restoring"
    /\ OperationsFree
    /\ proc' = [proc EXCEPT ![c] = Idle]
    /\ UNCHANGED <<rows, present, installed>>

Next ==
    \/ \E e \in Episodes : Enqueue(e) \/ Forget(e)
    \/ \E k \in Key : Lease(k) \/ Fail(k) \/ Expire(k) \/ Complete(k)
    \/ Upgrade
    \/ \E c \in Commands :
          Plan(c) \/ Apply(c) \/ Abandon(c) \/ BeginRestore(c) \/ EndRestore(c)
    \/ Reactivate

Spec == Init /\ [][Next]_vars
-----------------------------------------------------------------------------
TypeOK ==
    /\ rows \in [Key -> Row]
    /\ present \subseteq Episodes
    /\ installed \in Versions
    /\ proc \in [Commands -> [pc : {"idle", "planned", "restoring"}, version : Versions,
                              plan : SUBSET Item]]

\* No row is retired without one that keeps its episode from being queued
\* anew by the version that retired it: itself or a barrier, both written in
\* one transaction (reconcile_phase1_queue, reactivate_phase1_barriers).
RetiredHasBarrier ==
    \A k \in Key :
        rows[k].status = "cancelled" =>
            LET other == rows[k].peer IN
            /\ EpisodeOf(other) = EpisodeOf(k)
            /\ rows[other].status # "none"

\* What was found too large or not permitted is never queued again, by a
\* nightly run, another reconciliation or a reactivation.
PermanentStaysRetired ==
    [][\A k \in Key :
          (rows[k].status = "cancelled" /\ rows[k].error \in Permanent) =>
              rows'[k] = rows[k]]_vars

\* A reconciliation decides over memory as it is when it commits: no row of
\* an episode forgotten since the plan is retired.
RetiredWhilePresent ==
    [][\A k \in Key :
          (rows'[k].status = "cancelled" /\ rows[k].status # "cancelled") =>
              EpisodeOf(k) \in present]_vars

\* Writers that need both locks do not wait for each other (the comment at
\* cli.snapshot_restore_command).
NoCircularWait ==
    ~ \E c, d \in Commands : proc[c].pc = "planned" /\ proc[d].pc = "restoring"
=============================================================================
