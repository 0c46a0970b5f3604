--------------------- MODULE QueueReconciliationProofs ---------------------
(***************************************************************************)
(* Theorems about QueueReconciliation, for every set of episodes and       *)
(* whatever the loader makes of them, any number of upgrades, attempts and *)
(* commands.                                                               *)
(***************************************************************************)
EXTENDS QueueReconciliation, TLAPS

USE DEF Permanent, Reactivatable, Reconciled

\* The tables and the plans are typed, and a cancelled row has its partner.
IInv == TypeOK /\ RetiredHasBarrier

-----------------------------------------------------------------------------
(***************************************************************************)
(* Keys, and what an item says of the row it was made from.                *)
(***************************************************************************)
LEMMA KeyOf ==
  ASSUME NEW e \in Episodes, NEW v \in Versions
  PROVE  <<e, v>> \in Key /\ EpisodeOf(<<e, v>>) = e
BY DEF Key, EpisodeOf

LEMMA EpisodeOfKey ==
  ASSUME NEW k \in Key
  PROVE  EpisodeOf(k) \in Episodes
BY DEF Key, EpisodeOf

LEMMA DispositionOfReconciled ==
  ASSUME NEW k \in Key, NEW v \in Versions, IsReconciled(rows[k])
  PROVE  Disposition(k, v) = "already"
BY DEF Disposition

LEMMA DispositionTyped ==
  ASSUME NEW k \in Key, NEW v \in Versions
  PROVE  Disposition(k, v) \in Reconciled \cup {"ready", "already"}
<1>1. Verdict[EpisodeOf(k)] \in {"ready", "oversized", "ineligible"}
  BY EpisodeOfKey, VerdictAssumption
<1>2. CASE IsReconciled(rows[k])
  BY <1>2, DispositionOfReconciled
<1>3. CASE ~IsReconciled(rows[k]) /\ Verdict[EpisodeOf(k)] # "ready"
  BY <1>1, <1>3 DEF Disposition
<1>4. CASE ~IsReconciled(rows[k]) /\ Verdict[EpisodeOf(k)] = "ready"
  BY <1>4 DEF Disposition
<1>. QED BY <1>2, <1>3, <1>4

\* A row that Apply retires was queued, and its episode is in memory.
LEMMA TransitionOfQueued ==
  ASSUME TypeOK, NEW c \in Commands, StillHolds(c), NEW i \in Transitions(c)
  PROVE  /\ i.key \in Key
         /\ i.disposition \in Reconciled
         /\ rows[i.key].status = "queued"
         /\ EpisodeOf(i.key) \in present
         /\ BarrierKey(c, i) \in Key
         /\ EpisodeOf(BarrierKey(c, i)) = EpisodeOf(i.key)
<1>1. i \in proc[c].plan /\ i \in Item /\ i.disposition \in Reconciled
  BY DEF Transitions, TypeOK
<1>2. i.key \in Key /\ proc[c].version \in Versions
  BY <1>1 DEF Item, TypeOK
<1>3. Classifiable(i.key) /\ Disposition(i.key, proc[c].version) = i.disposition
  BY <1>1 DEF StillHolds
<1>4. ~IsReconciled(rows[i.key])
  BY <1>1, <1>2, <1>3, DispositionOfReconciled
<1>. QED BY <1>1, <1>2, <1>3, <1>4, KeyOf, EpisodeOfKey DEF Classifiable, BarrierKey

-----------------------------------------------------------------------------
(***************************************************************************)
(* What a reconciliation makes of one row: it is retired for a reason and  *)
(* pointed to its barrier, or it is the barrier of a retired row, or it is *)
(* what it was.                                                            *)
(***************************************************************************)
IsRetired(c, k) == \E i \in Transitions(c) : i.key = k
IsBarrier(c, k) ==
    /\ ~IsRetired(c, k)
    /\ rows[k].status = "none"
    /\ \E i \in Transitions(c) : BarrierKey(c, i) = k

LEMMA RowRetired ==
  ASSUME TypeOK, NEW c \in Commands, StillHolds(c), NEW k \in Key, IsRetired(c, k)
  PROVE  /\ ReconciledRow(c, k) \in Row
         /\ ReconciledRow(c, k).status = "cancelled"
         /\ ReconciledRow(c, k).peer = <<EpisodeOf(k), proc[c].version>>
         /\ \E i \in Transitions(c) :
               i.key = k /\ ReconciledRow(c, k).peer = BarrierKey(c, i)
         /\ rows[k].status = "queued"
         /\ EpisodeOf(k) \in present
<1>. DEFINE i == CHOOSE i \in Transitions(c) : i.key = k
<1>1. i \in Transitions(c) /\ i.key = k
  BY DEF IsRetired
<1>2. ReconciledRow(c, k) = Retired(c, i)
  BY DEF ReconciledRow, IsRetired
<1>3. /\ i.disposition \in Reconciled /\ rows[k].status = "queued"
      /\ EpisodeOf(k) \in present /\ BarrierKey(c, i) \in Key
  BY <1>1, TransitionOfQueued
<1>4. rows[k] \in Row
  BY DEF TypeOK
<1>. HIDE DEF i
<1>. QED BY <1>1, <1>2, <1>3, <1>4 DEF Retired, Row, BarrierKey

LEMMA RowBarrier ==
  ASSUME TypeOK, NEW c \in Commands, StillHolds(c), NEW k \in Key, IsBarrier(c, k)
  PROVE  /\ ReconciledRow(c, k) \in Row
         /\ ReconciledRow(c, k).status = "cancelled"
         /\ \E i \in Transitions(c) :
               /\ ReconciledRow(c, k).peer = i.key
               /\ EpisodeOf(i.key) = EpisodeOf(k)
         /\ EpisodeOf(k) \in present
<1>. DEFINE i == CHOOSE i \in Transitions(c) : BarrierKey(c, i) = k
<1>1. i \in Transitions(c) /\ BarrierKey(c, i) = k
  BY DEF IsBarrier
<1>2. ReconciledRow(c, k) = Barrier(i)
  BY DEF ReconciledRow, IsBarrier, IsRetired
<1>3. /\ i.key \in Key /\ i.disposition \in Reconciled
      /\ EpisodeOf(i.key) \in present /\ EpisodeOf(k) = EpisodeOf(i.key)
  BY <1>1, TransitionOfQueued
<1>. HIDE DEF i
<1>4. Barrier(i) \in Row
  <2>1. 0 \in 0 .. MaxAttempts
    BY AttemptsAssumption
  <2>2. i.disposition \in {"", "WorkerProtocolError"} \cup Reconciled
    BY <1>3
  <2>3. i.key \in Key
    BY <1>3
  <2>. QED BY <2>1, <2>2, <2>3, Zenon DEF Barrier, Row
<1>5. Barrier(i).status = "cancelled" /\ Barrier(i).peer = i.key
  BY DEF Barrier
<1>. QED BY <1>1, <1>2, <1>3, <1>4, <1>5

LEMMA RowKept ==
  ASSUME NEW c \in Commands, NEW k \in Key, ~IsRetired(c, k), ~IsBarrier(c, k)
  PROVE  ReconciledRow(c, k) = rows[k]
BY DEF ReconciledRow, IsRetired, IsBarrier

\* The partner of a retired row is there after the transaction.
LEMMA BarrierIsThere ==
  ASSUME TypeOK, NEW c \in Commands, StillHolds(c), NEW i \in Transitions(c)
  PROVE  ReconciledRow(c, BarrierKey(c, i)).status # "none"
<1>. DEFINE b == BarrierKey(c, i)
<1>1. b \in Key
  BY TransitionOfQueued
<1>2. CASE IsRetired(c, b)
  BY <1>1, <1>2, RowRetired
<1>3. CASE IsBarrier(c, b)
  BY <1>1, <1>3, RowBarrier
<1>4. CASE ~IsRetired(c, b) /\ ~IsBarrier(c, b)
  <2>1. rows[b].status # "none"
    BY <1>4 DEF IsBarrier
  <2>. QED BY <1>1, <1>4, <2>1, RowKept
<1>. QED BY <1>2, <1>3, <1>4

-----------------------------------------------------------------------------
(***************************************************************************)
(* Every step keeps the invariant.                                         *)
(***************************************************************************)
\* A row that is there, changed into another that is not cancelled, or is
\* cancelled as it was.
LEMMA OneRowChanged ==
  ASSUME IInv, NEW k \in Key, NEW row \in Row, row.status \notin {"none", "cancelled"},
         rows' = [rows EXCEPT ![k] = row], UNCHANGED <<present, installed, proc>>
  PROVE  IInv'
<1>1. TypeOK'
  BY DEF IInv, TypeOK
<1>2. RetiredHasBarrier'
  <2>1. ASSUME NEW l \in Key, rows'[l].status = "cancelled"
        PROVE  EpisodeOf(rows'[l].peer) = EpisodeOf(l) /\ rows'[rows'[l].peer].status # "none"
    <3>1. l # k /\ rows'[l] = rows[l]
      BY <2>1 DEF IInv, TypeOK
    <3>2. rows[l].peer \in Key
      BY DEF IInv, TypeOK, Row
    <3>3. /\ EpisodeOf(rows[l].peer) = EpisodeOf(l)
          /\ rows[rows[l].peer].status # "none"
      BY <2>1, <3>1 DEF IInv, RetiredHasBarrier
    <3>. QED BY <3>1, <3>2, <3>3 DEF IInv, TypeOK
  <2>. QED BY <2>1 DEF RetiredHasBarrier
<1>. QED BY <1>1, <1>2 DEF IInv

\* No row changes, and memory and the processes are typed.
LEMMA NoRowChanged ==
  ASSUME IInv, rows' = rows, TypeOK'
  PROVE  IInv'
BY DEF IInv, RetiredHasBarrier

LEMMA PlanOK ==
  ASSUME IInv, NEW c \in Commands, Plan(c)
  PROVE  IInv'
<1>1. installed \in Versions
  BY DEF IInv, TypeOK
<1>2. \A k \in Key : Planned(k, installed) \in Item
  BY <1>1, DispositionTyped DEF IInv, TypeOK, Planned, Item
<1>3. TypeOK'
  BY <1>1, <1>2 DEF Plan, IInv, TypeOK
<1>. QED BY <1>3, NoRowChanged DEF Plan

LEMMA ApplyOK ==
  ASSUME IInv, NEW c \in Commands, Apply(c)
  PROVE  IInv'
<1>1. /\ TypeOK /\ StillHolds(c)
      /\ rows' = [k \in Key |-> ReconciledRow(c, k)]
      /\ UNCHANGED <<present, installed>>
  BY DEF IInv, Apply
<1>2. ASSUME NEW k \in Key
      PROVE  ReconciledRow(c, k) \in Row
  <2>1. rows[k] \in Row
    BY <1>1 DEF TypeOK
  <2>. QED BY <1>1, <2>1, RowRetired, RowBarrier, RowKept
<1>3. TypeOK'
  <2>1. proc' = [proc EXCEPT ![c] = Idle] /\ Idle.version = 1
    BY DEF Apply, Idle
  <2>2. Idle \in [pc : {"idle", "planned", "restoring"}, version : Versions, plan : SUBSET Item]
    BY VersionsAssumption DEF Idle, Versions
  <2>. QED BY <1>1, <1>2, <2>1, <2>2 DEF TypeOK
<1>4. ASSUME NEW k \in Key, rows'[k].status = "cancelled"
      PROVE  EpisodeOf(rows'[k].peer) = EpisodeOf(k) /\ rows'[rows'[k].peer].status # "none"
  <2>1. CASE IsRetired(c, k)
    <3>1. PICK i \in Transitions(c) : i.key = k /\ rows'[k].peer = BarrierKey(c, i)
      BY <1>1, <2>1, RowRetired
    <3>2. BarrierKey(c, i) \in Key /\ EpisodeOf(BarrierKey(c, i)) = EpisodeOf(k)
      BY <1>1, <3>1, TransitionOfQueued
    <3>. QED BY <1>1, <3>1, <3>2, BarrierIsThere
  <2>2. CASE IsBarrier(c, k)
    <3>1. PICK i \in Transitions(c) : rows'[k].peer = i.key /\ EpisodeOf(i.key) = EpisodeOf(k)
      BY <1>1, <2>2, RowBarrier
    <3>2. i.key \in Key /\ IsRetired(c, i.key)
      BY <1>1, <3>1, TransitionOfQueued DEF IsRetired
    <3>. QED BY <1>1, <3>1, <3>2, RowRetired
  <2>3. CASE ~IsRetired(c, k) /\ ~IsBarrier(c, k)
    <3>1. rows'[k] = rows[k] /\ rows[k].status = "cancelled" /\ rows[k].peer \in Key
      BY <1>1, <1>4, <2>3, RowKept DEF TypeOK, Row
    <3>2. /\ EpisodeOf(rows[k].peer) = EpisodeOf(k)
          /\ rows[rows[k].peer].status # "none"
      BY <3>1 DEF IInv, RetiredHasBarrier
    <3>3. rows'[rows[k].peer].status # "none"
      BY <1>1, <3>1, <3>2, RowRetired, RowBarrier, RowKept
    <3>. QED BY <3>1, <3>2, <3>3
  <2>. QED BY <2>1, <2>2, <2>3
<1>. QED BY <1>3, <1>4 DEF IInv, RetiredHasBarrier

LEMMA ReactivateOK ==
  ASSUME IInv, Reactivate
  PROVE  IInv'
<1>1. PICK allowlist \in SUBSET Key :
        /\ \A k \in allowlist : IsReconciled(rows[k])
        /\ rows' = [k \in Key |-> IF k \in allowlist
                                  THEN [rows[k] EXCEPT !.status = "queued", !.attempts = 0]
                                  ELSE rows[k]]
        /\ UNCHANGED <<present, installed, proc>>
  BY DEF Reactivate
<1>2. ASSUME NEW k \in Key
      PROVE  /\ rows'[k] \in Row
             /\ rows'[k].status # "none" \/ rows[k].status = "none"
             /\ rows'[k].status = "cancelled" => rows'[k] = rows[k]
  <2>1. rows[k] \in Row
    BY DEF IInv, TypeOK
  <2>2. 0 \in 0 .. MaxAttempts
    BY AttemptsAssumption
  <2>. QED BY <1>1, <2>1, <2>2 DEF Row
<1>3. TypeOK'
  BY <1>1, <1>2 DEF IInv, TypeOK
<1>4. RetiredHasBarrier'
  <2>1. \A k \in Key : rows[k].peer \in Key
    BY DEF IInv, TypeOK, Row
  <2>. QED BY <1>2, <2>1 DEF IInv, RetiredHasBarrier
<1>. QED BY <1>3, <1>4 DEF IInv

LEMMA InitOK == Init => IInv
<1>. SUFFICES ASSUME Init PROVE IInv
  OBVIOUS
<1>1. \A k \in Key, status \in {"none", "queued"} : Fresh(k, status) \in Row
  BY AttemptsAssumption DEF Fresh, Row
<1>2. \A k \in Key : rows[k] \in Row /\ rows[k].status # "cancelled"
  <2>1. PICK legacy \in SUBSET Episodes :
          rows = [k \in Key |-> Fresh(k, IF k[2] = 1 /\ k[1] \in legacy THEN "queued" ELSE "none")]
    BY DEF Init
  <2>. QED BY <1>1, <2>1 DEF Fresh
<1>3. rows = [k \in Key |-> rows[k]]
  BY DEF Init
<1>4. 1 \in Versions
  BY VersionsAssumption DEF Versions
<1>5. TypeOK
  BY <1>2, <1>3, <1>4 DEF Init, TypeOK, Idle
<1>. QED BY <1>2, <1>5 DEF IInv, RetiredHasBarrier

LEMMA NightlyStepOK ==
  ASSUME IInv, NEW k \in Key, Lease(k) \/ Fail(k) \/ Expire(k) \/ Complete(k)
  PROVE  IInv'
<1>1. rows[k] \in Row /\ rows[k].attempts \in 0 .. MaxAttempts
  BY DEF IInv, TypeOK, Row
<1>2. CASE Lease(k)
  <2>1. rows[k].attempts + 1 \in 0 .. MaxAttempts
    BY <1>1, <1>2, AttemptsAssumption DEF Lease
  <2>2. [rows[k] EXCEPT !.status = "leased", !.attempts = @ + 1] \in Row
    BY <1>1, <2>1 DEF Row
  <2>. QED BY <1>1, <1>2, <2>2, OneRowChanged DEF Lease, Becomes, Row
<1>3. CASE Fail(k)
  <2>1. PICK error \in {"", "WorkerProtocolError"} :
          Becomes(k, [rows[k] EXCEPT !.status = Returned(rows[k]), !.error = error])
    BY <1>3 DEF Fail
  <2>. DEFINE row == [rows[k] EXCEPT !.status = Returned(rows[k]), !.error = error]
  <2>2. row \in Row /\ row.status \notin {"none", "cancelled"}
    BY <1>1 DEF Row, Returned
  <2>3. rows' = [rows EXCEPT ![k] = row] /\ UNCHANGED <<present, installed, proc>>
    BY <2>1 DEF Becomes
  <2>. HIDE DEF row
  <2>. QED BY <2>2, <2>3, OneRowChanged
<1>4. CASE Expire(k)
  <2>. DEFINE row == [rows[k] EXCEPT !.status = Returned(rows[k])]
  <2>1. row \in Row /\ row.status \notin {"none", "cancelled"}
    BY <1>1 DEF Row, Returned
  <2>2. rows' = [rows EXCEPT ![k] = row] /\ UNCHANGED <<present, installed, proc>>
    BY <1>4 DEF Expire, Becomes
  <2>. HIDE DEF row
  <2>. QED BY <2>1, <2>2, OneRowChanged
<1>5. CASE Complete(k)
  <2>. DEFINE row == [rows[k] EXCEPT !.status = "completed"]
  <2>1. row \in Row /\ row.status \notin {"none", "cancelled"}
    BY <1>1 DEF Row
  <2>2. rows' = [rows EXCEPT ![k] = row] /\ UNCHANGED <<present, installed, proc>>
    BY <1>5 DEF Complete, Becomes
  <2>. HIDE DEF row
  <2>. QED BY <2>1, <2>2, OneRowChanged
<1>. QED BY <1>2, <1>3, <1>4, <1>5

LEMMA EnqueueOK ==
  ASSUME IInv, NEW e \in Episodes, Enqueue(e)
  PROVE  IInv'
<1>. DEFINE k == <<e, installed>>
<1>. DEFINE row == Fresh(k, "queued")
<1>1. k \in Key
  BY KeyOf DEF IInv, TypeOK
<1>2. row \in Row /\ row.status = "queued"
  BY <1>1, AttemptsAssumption DEF Fresh, Row
<1>3. rows' = [rows EXCEPT ![k] = row] /\ UNCHANGED <<present, installed, proc>>
  BY DEF Enqueue, Becomes
<1>. HIDE DEF k, row
<1>. QED BY <1>1, <1>2, <1>3, OneRowChanged

LEMMA CommandStepOK ==
  ASSUME IInv, NEW c \in Commands, Abandon(c) \/ BeginRestore(c) \/ EndRestore(c)
  PROVE  IInv'
<1>1. Idle \in [pc : {"idle", "planned", "restoring"}, version : Versions, plan : SUBSET Item]
  BY VersionsAssumption DEF Idle, Versions
<1>2. rows' = rows
  BY DEF Abandon, BeginRestore, EndRestore
<1>3. TypeOK'
  BY <1>1 DEF Abandon, BeginRestore, EndRestore, IInv, TypeOK
<1>. QED BY <1>2, <1>3, NoRowChanged

LEMMA StepOK == IInv /\ [Next]_vars => IInv'
<1>. SUFFICES ASSUME IInv, [Next]_vars PROVE IInv'
  OBVIOUS
<1>1. CASE \E e \in Episodes : Enqueue(e)
  BY <1>1, EnqueueOK
<1>2. CASE \E e \in Episodes : Forget(e)
  <2>1. TypeOK' /\ rows' = rows
    BY <1>2 DEF Forget, IInv, TypeOK
  <2>. QED BY <2>1, NoRowChanged
<1>3. CASE \E k \in Key : Lease(k) \/ Fail(k) \/ Expire(k) \/ Complete(k)
  BY <1>3, NightlyStepOK
<1>4. CASE Upgrade
  <2>1. TypeOK' /\ rows' = rows
    BY <1>4, VersionsAssumption DEF Upgrade, IInv, TypeOK, Versions
  <2>. QED BY <2>1, NoRowChanged
<1>5. CASE \E c \in Commands : Plan(c)
  BY <1>5, PlanOK
<1>6. CASE \E c \in Commands : Apply(c)
  BY <1>6, ApplyOK
<1>7. CASE \E c \in Commands : Abandon(c) \/ BeginRestore(c) \/ EndRestore(c)
  BY <1>7, CommandStepOK
<1>8. CASE Reactivate
  BY <1>8, ReactivateOK
<1>9. CASE UNCHANGED vars
  BY <1>9 DEF vars, IInv, TypeOK, RetiredHasBarrier
<1>. QED BY <1>1, <1>2, <1>3, <1>4, <1>5, <1>6, <1>7, <1>8, <1>9 DEF Next

LEMMA SpecIInv == Spec => []IInv
BY InitOK, StepOK, PTL DEF Spec

-----------------------------------------------------------------------------
(***************************************************************************)
(* The tables and the plans of all commands are typed in every reachable   *)
(* state (jobs, Phase1ReconciliationItem).                                 *)
(***************************************************************************)
THEOREM TypeCorrect == Spec => []TypeOK
<1>1. IInv => TypeOK
  BY DEF IInv
<1>. QED BY <1>1, SpecIInv, PTL

(***************************************************************************)
(* Every row a reconciliation cancelled has a partner of the same episode  *)
(* that is in the table, whatever is queued, reactivated or upgraded       *)
(* afterwards (reconcile_phase1_queue, one transaction for both).          *)
(***************************************************************************)
THEOREM NoneRetiredBare == Spec => []RetiredHasBarrier
<1>1. IInv => RetiredHasBarrier
  BY DEF IInv
<1>. QED BY <1>1, SpecIInv, PTL

\* What a step other than Apply and Reactivate does to a cancelled row, or
\* to a row that is cancelled after it.
LEMMA OnlyTheyCancel ==
  ASSUME TypeOK, [Next]_vars, NEW k \in Key,
         \A c \in Commands : ~Apply(c), ~Reactivate
  PROVE  rows[k].status = "cancelled" \/ rows'[k].status = "cancelled" => rows'[k] = rows[k]
<1>1. rows[k] \in Row
  BY DEF TypeOK
<1>2. CASE \E e \in Episodes : Enqueue(e)
  <2>1. PICK e \in Episodes : Enqueue(e)
    BY <1>2
  <2>2. /\ rows[<<e, installed>>].status = "none"
        /\ rows' = [rows EXCEPT ![<<e, installed>>] = Fresh(<<e, installed>>, "queued")]
    BY <2>1 DEF Enqueue, Becomes
  <2>. QED BY <2>2 DEF TypeOK, Fresh
<1>3. CASE \E l \in Key : Lease(l) \/ Fail(l) \/ Expire(l) \/ Complete(l)
  <2>1. PICK l \in Key : Lease(l) \/ Fail(l) \/ Expire(l) \/ Complete(l)
    BY <1>3
  <2>2. rows[l].status \in {"queued", "leased"} /\ rows[l] \in Row
    BY <2>1 DEF TypeOK, Lease, Fail, Expire, Complete
  <2>3. PICK row : rows' = [rows EXCEPT ![l] = row] /\ row.status # "cancelled"
    <3>1. CASE Lease(l)
      <4>. DEFINE leased == [rows[l] EXCEPT !.status = "leased", !.attempts = @ + 1]
      <4>1. leased.status # "cancelled"
        BY <2>2 DEF Row
      <4>. QED BY <3>1, <4>1 DEF Lease, Becomes
    <3>2. CASE Fail(l)
      <4>1. PICK error \in {"", "WorkerProtocolError"} :
              Becomes(l, [rows[l] EXCEPT !.status = Returned(rows[l]), !.error = error])
        BY <3>2 DEF Fail
      <4>. DEFINE failed == [rows[l] EXCEPT !.status = Returned(rows[l]), !.error = error]
      <4>2. failed.status # "cancelled"
        BY <2>2 DEF Row, Returned
      <4>. QED BY <4>1, <4>2 DEF Becomes
    <3>3. CASE Expire(l)
      <4>. DEFINE expired == [rows[l] EXCEPT !.status = Returned(rows[l])]
      <4>1. expired.status # "cancelled"
        BY <2>2 DEF Row, Returned
      <4>. QED BY <3>3, <4>1 DEF Expire, Becomes
    <3>4. CASE Complete(l)
      <4>. DEFINE done == [rows[l] EXCEPT !.status = "completed"]
      <4>1. done.status # "cancelled"
        BY <2>2 DEF Row
      <4>. QED BY <3>4, <4>1 DEF Complete, Becomes
    <3>. QED BY <2>1, <3>1, <3>2, <3>3, <3>4
  <2>. QED BY <2>2, <2>3 DEF TypeOK
<1>4. CASE rows' = rows
  BY <1>4
<1>. QED BY <1>2, <1>3, <1>4
     DEF Next, Forget, Upgrade, Plan, Abandon, BeginRestore, EndRestore, vars

LEMMA PermanentStep ==
  ASSUME TypeOK, [Next]_vars, NEW k \in Key,
         rows[k].status = "cancelled", rows[k].error \in Permanent
  PROVE  rows'[k] = rows[k]
<1>1. ASSUME NEW c \in Commands, Apply(c)
      PROVE  rows'[k] = rows[k]
  <2>1. StillHolds(c) /\ rows'[k] = ReconciledRow(c, k)
    BY <1>1 DEF Apply
  <2>2. ~IsRetired(c, k)
    BY <2>1, RowRetired
  <2>3. ~IsBarrier(c, k)
    BY DEF IsBarrier
  <2>. QED BY <2>1, <2>2, <2>3, RowKept
<1>2. CASE Reactivate
  BY <1>2 DEF Reactivate
<1>. QED BY <1>1, <1>2, OnlyTheyCancel

(***************************************************************************)
(* A row retired as oversized or ineligible never changes again: neither   *)
(* nightly runs nor reconciliations of any version nor reactivations bring *)
(* it back.                                                                *)
(***************************************************************************)
THEOREM PermanentForGood == Spec => PermanentStaysRetired
<1>1. TypeOK /\ [Next]_vars =>
        [\A k \in Key :
            (rows[k].status = "cancelled" /\ rows[k].error \in Permanent) =>
                rows'[k] = rows[k]]_vars
  BY PermanentStep
<1>. QED BY <1>1, TypeCorrect, PTL DEF Spec, PermanentStaysRetired

LEMMA RetiringStep ==
  ASSUME TypeOK, [Next]_vars, NEW k \in Key,
         rows'[k].status = "cancelled", rows[k].status # "cancelled"
  PROVE  EpisodeOf(k) \in present
<1>1. ASSUME NEW c \in Commands, Apply(c)
      PROVE  EpisodeOf(k) \in present
  <2>1. StillHolds(c) /\ rows'[k] = ReconciledRow(c, k)
    BY <1>1 DEF Apply
  <2>2. IsRetired(c, k) \/ IsBarrier(c, k)
    BY <2>1, RowKept
  <2>. QED BY <2>1, <2>2, RowRetired, RowBarrier
<1>2. ~Reactivate
  <2>1. rows[k] \in Row
    BY DEF TypeOK
  <2>. QED BY <2>1 DEF Reactivate, IsReconciled, Row
<1>. QED BY <1>1, <1>2, OnlyTheyCancel

(***************************************************************************)
(* A reconciliation retires rows of episodes that memory has when it       *)
(* commits, however long ago it planned and whatever was forgotten since.  *)
(***************************************************************************)
THEOREM NoneRetiredAfterForgetting == Spec => RetiredWhilePresent
<1>1. TypeOK /\ [Next]_vars =>
        [\A k \in Key :
            (rows'[k].status = "cancelled" /\ rows[k].status # "cancelled") =>
                EpisodeOf(k) \in present]_vars
  BY RetiringStep
<1>. QED BY <1>1, TypeCorrect, PTL DEF Spec, RetiredWhilePresent
=============================================================================
