----------------------- MODULE ForgetAndRestoreProofs -----------------------
(***************************************************************************)
(* Theorems about ForgetAndRestore, for any facts, processes, snapshots    *)
(* and mishaps.                                                            *)
(***************************************************************************)
EXTENDS ForgetAndRestore, TLAPS

\* What was deleted and not written again.
Lost == gone \ readded

\* Forgetting up to its commit and all of restoring is done under the lock.
Held == {"prepare", "delete"} \cup Restoring
HolderWorks == \A p \in Procs : proc[p].pc \in Held => lock = p

\* Whatever was deleted is in the ledger, and so is what a process has gone
\* through of what it is about to delete.
Entered(p) ==
    /\ At(p, "prepare") => proc[p].facts \subseteq Suppressed \cup UNION proc[p].entries
    /\ At(p, "delete") => proc[p].facts \subseteq Suppressed
LedgerFirst == gone \subseteq Suppressed /\ \A p \in Procs : Entered(p)

\* Between the purge of the artifacts and the deletion there are none.
Unpublished == \A p \in Procs : proc[p].pc \in {"prepare", "delete"} => artifacts = {}

\* The baseline a restore falls back to was taken under its lock: if memory
\* was clean then, it is clean, or purged.
Clean(p) ==
    (proc[p].pc \in Restoring /\ ~proc[p].was /\ proc[p].baseline \in Taken)
        => Lost \cap snapshots[proc[p].baseline].claims = {}
BaselineClean == \A p \in Procs : Clean(p)

\* Once the ledger is reapplied, memory is clean.
ReappliedClean ==
    \A p \in Procs : At(p, "recompile") => Lost \cap memory.claims = {}

IInv ==
    /\ TypeOK
    /\ HolderWorks
    /\ LedgerFirst
    /\ Unpublished
    /\ BaselineClean
    /\ ReappliedClean
    /\ ForgottenStaysGone

USE DEF At, Goto, Ends, Restoring

-----------------------------------------------------------------------------
(***************************************************************************)
(* Types.                                                                  *)
(***************************************************************************)
Entry == [pc : Pc, facts : SUBSET Facts, entries : SUBSET SUBSET Facts,
          from : SnapshotIds \cup {NoSnapshot}, baseline : SnapshotIds \cup {NoSnapshot},
          was : BOOLEAN]

LEMMA Places ==
  /\ Pc = {"idle", "insert", "prepare", "delete", "mark", "purge", "snapshot", "publish",
           "operations", "memory", "reapply", "recompile", "rollback"}
BY DEF Pc, Forgetting

LEMMA IdleTyped == Idle \in Entry /\ Idle.pc = "idle"
BY Places DEF Idle, Entry

LEMMA SetTyped ==
  ASSUME TypeOK, NEW p \in Procs, NEW entry \in Entry, proc' = [proc EXCEPT ![p] = entry]
  PROVE  proc' \in [Procs -> Entry]
BY DEF TypeOK, Entry

LEMMA GotoTyped ==
  ASSUME TypeOK, NEW p \in Procs, NEW pc \in Pc, Goto(p, pc)
  PROVE  proc' \in [Procs -> Entry]
BY DEF TypeOK, Entry

LEMMA EndsTyped ==
  ASSUME TypeOK, NEW p \in Procs, Ends(p)
  PROVE  proc' \in [Procs -> Entry]
BY IdleTyped DEF TypeOK, Entry

LEMMA AppendTyped ==
  ASSUME TypeOK, NEW entry, NEW status \in {"pending", "applied"}, Append(entry, status)
  PROVE  /\ ledger' \in [Facts -> {"none", "pending", "applied"}]
         /\ Suppressed' = Suppressed \cup (entry \cap Facts)
<1>1. ledger' \in [Facts -> {"none", "pending", "applied"}]
  BY DEF Append, TypeOK
<1>2. \A f \in Facts : ledger'[f] # "none" <=> ledger[f] # "none" \/ f \in entry
  BY DEF Append
<1>. QED BY <1>1, <1>2 DEF Suppressed

LEMMA WithoutTyped ==
  ASSUME NEW image \in Image, NEW facts
  PROVE  /\ Without(image, facts) \in Image
         /\ Without(image, facts).claims = image.claims \ facts
BY DEF Without, Image

\* The snapshot a process opens or adds.
LEMMA SnapshotTyped ==
  ASSUME TypeOK
  PROVE  /\ \A i \in Taken : i \in SnapshotIds /\ snapshots[i] \in Image
         /\ FreeIds \subseteq SnapshotIds
         /\ \A i \in SnapshotIds :
              Snapshot(i) => snapshots' \in [SnapshotIds -> Image \cup {NoImage}]
BY DEF TypeOK, Taken, FreeIds, Snapshot

LEMMA TypeOKFromParts ==
  ASSUME memory' \in Image, ledger' \in [Facts -> {"none", "pending", "applied"}],
         snapshots' \in [SnapshotIds -> Image \cup {NoImage}],
         artifacts' \in SUBSET Facts, lock' \in Procs \cup {Nobody},
         proc' \in [Procs -> Entry], mishaps' \in 0 .. MaxMishaps,
         gone' \in SUBSET Facts, readded' \in SUBSET Facts, unfiltered' \in BOOLEAN
  PROVE  TypeOK'
BY DEF TypeOK, Entry

LEMMA TypedParts ==
  ASSUME TypeOK
  PROVE  /\ memory \in Image /\ memory.claims \in SUBSET Facts
         /\ ledger \in [Facts -> {"none", "pending", "applied"}]
         /\ snapshots \in [SnapshotIds -> Image \cup {NoImage}]
         /\ artifacts \in SUBSET Facts /\ lock \in Procs \cup {Nobody}
         /\ proc \in [Procs -> Entry] /\ mishaps \in 0 .. MaxMishaps
         /\ gone \in SUBSET Facts /\ readded \in SUBSET Facts /\ unfiltered \in BOOLEAN
         /\ \A p \in Procs : proc[p].facts \in SUBSET Facts
BY DEF TypeOK, Entry, Image

LEMMA ForgetTyped ==
  ASSUME TypeOK, NEW p \in Procs, Forget(p)
  PROVE  TypeOK'
<1>. USE TypedParts, TypeOKFromParts
<1>1. ASSUME NEW wide \in BOOLEAN, BeginForget(p, wide)
      PROVE  TypeOK'
  <2>1. EntriesFor(wide) \in SUBSET SUBSET Facts /\ UNION EntriesFor(wide) \in SUBSET Facts
    BY DEF EntriesFor
  <2>. DEFINE entry == [proc[p] EXCEPT !.pc = "prepare", !.entries = EntriesFor(wide),
                                       !.facts = UNION EntriesFor(wide)]
  <2>2. proc' \in [Procs -> Entry]
    <3>1. proc[p] \in Entry /\ "prepare" \in Pc
      BY Places
    <3>2. entry \in Entry
      BY <2>1, <3>1 DEF Entry
    <3>3. proc' = [proc EXCEPT ![p] = entry]
      BY <1>1 DEF BeginForget
    <3>. HIDE DEF entry
    <3>. QED BY <3>2, <3>3, SetTyped
  <2>. QED BY <1>1, <2>2 DEF BeginForget
<1>2. CASE Prepare(p)
  <2>1. PICK left \in proc[p].entries :
          /\ Append(left, "pending")
          /\ proc' = [proc EXCEPT ![p].entries = proc[p].entries \ {left},
                                  ![p].pc = IF proc[p].entries \ {left} = {}
                                            THEN "delete" ELSE "prepare"]
    BY <1>2 DEF Prepare
  <2>. DEFINE entry == [proc[p] EXCEPT !.entries = proc[p].entries \ {left},
                                       !.pc = IF proc[p].entries \ {left} = {}
                                              THEN "delete" ELSE "prepare"]
  <2>2. proc' \in [Procs -> Entry]
    <3>1. /\ proc[p] \in Entry /\ {"delete", "prepare"} \subseteq Pc
          /\ proc[p].entries \ {left} \in SUBSET SUBSET Facts
      BY Places DEF Entry
    <3>2. entry \in Entry
      BY <3>1 DEF Entry
    <3>3. proc' = [proc EXCEPT ![p] = entry]
      BY <2>1
    <3>. HIDE DEF entry
    <3>. QED BY <3>2, <3>3, SetTyped
  <2>. QED BY <1>2, <2>1, <2>2, AppendTyped DEF Prepare
<1>3. CASE Delete(p)
  <2>1. proc' \in [Procs -> Entry]
    BY <1>3, GotoTyped, Places DEF Delete
  <2>2. gone' \in SUBSET Facts /\ readded' \in SUBSET Facts
    BY <1>3 DEF Delete
  <2>. QED BY <1>3, <2>1, <2>2, WithoutTyped DEF Delete
<1>4. CASE MarkApplied(p)
  <2>1. proc' \in [Procs -> Entry]
    BY <1>4, GotoTyped, Places DEF MarkApplied
  <2>. QED BY <1>4, <2>1, AppendTyped DEF MarkApplied
<1>5. CASE PurgeSnapshots(p)
  <2>1. proc' \in [Procs -> Entry]
    BY <1>5, GotoTyped, Places DEF PurgeSnapshots
  <2>. QED BY <1>5, <2>1 DEF PurgeSnapshots
<1>6. CASE NewSnapshot(p)
  <2>1. proc' \in [Procs -> Entry]
    BY <1>6, GotoTyped, Places DEF NewSnapshot
  <2>. QED BY <1>6, <2>1, SnapshotTyped DEF NewSnapshot
<1>7. CASE Publish(p)
  <2>1. proc' \in [Procs -> Entry]
    BY <1>7, EndsTyped DEF Publish
  <2>. QED BY <1>7, <2>1 DEF Publish
<1>. QED BY <1>1, <1>2, <1>3, <1>4, <1>5, <1>6, <1>7 DEF Forget

LEMMA RestoreTyped ==
  ASSUME TypeOK, NEW p \in Procs, Restore(p)
  PROVE  TypeOK'
<1>. USE TypedParts, TypeOKFromParts
<1>1. ASSUME NEW i \in SnapshotIds, BeginRestore(p, i)
      PROVE  TypeOK'
  <2>1. PICK j \in FreeIds :
          /\ Snapshot(j)
          /\ proc' = [proc EXCEPT ![p].pc = "operations", ![p].from = i,
                                  ![p].baseline = j, ![p].was = unfiltered]
    BY <1>1 DEF BeginRestore
  <2>2. j \in SnapshotIds /\ snapshots' \in [SnapshotIds -> Image \cup {NoImage}]
    BY <2>1, SnapshotTyped
  <2>. DEFINE entry == [proc[p] EXCEPT !.pc = "operations", !.from = i,
                                       !.baseline = j, !.was = unfiltered]
  <2>3. proc' \in [Procs -> Entry]
    <3>1. proc[p] \in Entry /\ "operations" \in Pc
      BY Places
    <3>2. entry \in Entry
      BY <2>2, <3>1 DEF Entry
    <3>3. proc' = [proc EXCEPT ![p] = entry]
      BY <2>1
    <3>. HIDE DEF entry
    <3>. QED BY <3>2, <3>3, SetTyped
  <2>. QED BY <1>1, <2>2, <2>3 DEF BeginRestore
<1>2. CASE ReplaceOperations(p)
  <2>1. proc' \in [Procs -> Entry]
    BY <1>2, GotoTyped, Places DEF ReplaceOperations
  <2>. QED BY <1>2, <2>1 DEF ReplaceOperations
<1>3. CASE ReplaceMemory(p)
  <2>1. proc' \in [Procs -> Entry]
    BY <1>3, GotoTyped, Places DEF ReplaceMemory
  <2>. QED BY <1>3, <2>1, SnapshotTyped DEF ReplaceMemory
<1>4. CASE Reapply(p)
  <2>1. proc' \in [Procs -> Entry]
    BY <1>4, GotoTyped, Places DEF Reapply
  <2>. QED BY <1>4, <2>1, WithoutTyped DEF Reapply
<1>5. CASE Recompile(p)
  <2>1. proc' \in [Procs -> Entry]
    BY <1>5, EndsTyped DEF Recompile
  <2>. QED BY <1>5, <2>1 DEF Recompile
<1>6. CASE SnapshotGone(p)
  <2>1. proc' \in [Procs -> Entry]
    BY <1>6, GotoTyped, Places DEF SnapshotGone
  <2>. QED BY <1>6, <2>1 DEF SnapshotGone
<1>7. CASE RestoreFails(p)
  <2>1. proc' \in [Procs -> Entry]
    BY <1>7, GotoTyped, Places DEF RestoreFails
  <2>2. mishaps' \in 0 .. MaxMishaps
    BY <1>7, MishapsAssumption DEF RestoreFails
  <2>. QED BY <1>7, <2>1, <2>2 DEF RestoreFails
<1>8. CASE Rollback(p)
  <2>1. proc' \in [Procs -> Entry]
    BY <1>8, EndsTyped DEF Rollback
  <2>2. memory' \in Image /\ artifacts' \in SUBSET Facts
    BY <1>8, SnapshotTyped DEF Rollback, Image
  <2>3. unfiltered' \in BOOLEAN
    BY <1>8 DEF Rollback, Entry
  <2>. QED BY <1>8, <2>1, <2>2, <2>3 DEF Rollback
<1>9. CASE RollbackFails(p)
  <2>1. proc' \in [Procs -> Entry]
    BY <1>9, EndsTyped DEF RollbackFails
  <2>. QED BY <1>9, <2>1 DEF RollbackFails
<1>. QED BY <1>1, <1>2, <1>3, <1>4, <1>5, <1>6, <1>7, <1>8, <1>9 DEF Restore

Global ==
    \/ \E f \in Facts : Approve(f) \/ Correct(f)
    \/ \E i \in SnapshotIds : TakeSnapshot(i)
    \/ Compile

LEMMA TypeStep == TypeOK /\ [Next]_vars => TypeOK'
<1>. SUFFICES ASSUME TypeOK, [Next]_vars PROVE TypeOK'
  OBVIOUS
<1>. USE TypedParts, TypeOKFromParts
<1>1. ASSUME NEW p \in Procs, NEW f \in Facts, CheckCandidate(p, f)
      PROVE  TypeOK'
  <2>. DEFINE entry == [proc[p] EXCEPT !.pc = "insert", !.facts = {f}]
  <2>1. proc' \in [Procs -> Entry]
    <3>1. proc[p] \in Entry /\ "insert" \in Pc /\ {f} \in SUBSET Facts
      BY Places
    <3>2. entry \in Entry
      BY <3>1 DEF Entry
    <3>3. proc' = [proc EXCEPT ![p] = entry]
      BY <1>1 DEF CheckCandidate
    <3>. HIDE DEF entry
    <3>. QED BY <3>2, <3>3, SetTyped
  <2>. QED BY <1>1, <2>1 DEF CheckCandidate
<1>2. ASSUME NEW p \in Procs, InsertCandidate(p)
      PROVE  TypeOK'
  <2>1. proc' \in [Procs -> Entry]
    BY <1>2, EndsTyped DEF InsertCandidate
  <2>2. memory' \in Image
    BY <1>2 DEF InsertCandidate, Image
  <2>. QED BY <1>2, <2>1, <2>2 DEF InsertCandidate
<1>3. ASSUME NEW p \in Procs, Kill(p)
      PROVE  TypeOK'
  <2>1. proc' \in [Procs -> Entry]
    BY <1>3, EndsTyped DEF Kill
  <2>2. mishaps' \in 0 .. MaxMishaps
    BY <1>3, MishapsAssumption DEF Kill
  <2>. QED BY <1>3, <2>1, <2>2 DEF Kill
<1>4. ASSUME NEW f \in Facts, Approve(f) \/ Correct(f)
      PROVE  TypeOK'
  BY <1>4 DEF Approve, Correct, Image
<1>5. ASSUME NEW i \in SnapshotIds, TakeSnapshot(i)
      PROVE  TypeOK'
  BY <1>5, SnapshotTyped DEF TakeSnapshot
<1>6. CASE Compile
  BY <1>6 DEF Compile
<1>7. CASE UNCHANGED vars
  BY <1>7 DEF vars
<1>. QED BY <1>1, <1>2, <1>3, <1>4, <1>5, <1>6, <1>7, ForgetTyped, RestoreTyped DEF Next, Learn

-----------------------------------------------------------------------------
(***************************************************************************)
(* The lock.  A step of a process changes its own entry only, and takes or *)
(* gives back the lock only if nobody else has it.                         *)
(***************************************************************************)
Acts(p) == Forget(p) \/ Restore(p) \/ Learn(p) \/ Kill(p)

OwnStep(p) ==
    /\ \A q \in Procs \ {p} : proc'[q] = proc[q]
    /\ proc'[p].pc \in Held => lock' = p
    /\ lock' # lock => lock \in {p, Nobody}

LEMMA ForgetOwn ==
  ASSUME TypeOK, HolderWorks, NEW p \in Procs, Forget(p)
  PROVE  OwnStep(p)
<1>1. ASSUME NEW wide \in BOOLEAN, BeginForget(p, wide)
      PROVE  OwnStep(p)
  BY <1>1 DEF BeginForget, OwnStep, TypeOK
<1>2. CASE Prepare(p)
  BY <1>2 DEF Prepare, OwnStep, TypeOK, HolderWorks, Held
<1>3. CASE Delete(p)
  BY <1>3 DEF Delete, OwnStep, TypeOK, HolderWorks, Held
<1>4. CASE MarkApplied(p) \/ PurgeSnapshots(p) \/ NewSnapshot(p)
  BY <1>4 DEF MarkApplied, PurgeSnapshots, NewSnapshot, OwnStep, TypeOK, Held
<1>5. CASE Publish(p)
  BY <1>5, IdleTyped DEF Publish, OwnStep, TypeOK, Held
<1>. QED BY <1>1, <1>2, <1>3, <1>4, <1>5 DEF Forget

LEMMA RestoreOwn ==
  ASSUME TypeOK, HolderWorks, NEW p \in Procs, Restore(p)
  PROVE  OwnStep(p)
<1>1. ASSUME NEW i \in SnapshotIds, BeginRestore(p, i)
      PROVE  OwnStep(p)
  BY <1>1 DEF BeginRestore, OwnStep, TypeOK
<1>2. CASE ReplaceOperations(p) \/ ReplaceMemory(p) \/ Reapply(p) \/ SnapshotGone(p) \/ RestoreFails(p)
  BY <1>2 DEF ReplaceOperations, ReplaceMemory, Reapply, SnapshotGone, RestoreFails,
              OwnStep, TypeOK, HolderWorks, Held
<1>3. CASE Recompile(p) \/ Rollback(p) \/ RollbackFails(p)
  BY <1>3, IdleTyped DEF Recompile, Rollback, RollbackFails, OwnStep, TypeOK, HolderWorks, Held
<1>. QED BY <1>1, <1>2, <1>3 DEF Restore

LEMMA ActsOwn ==
  ASSUME TypeOK, HolderWorks, NEW p \in Procs, Acts(p)
  PROVE  OwnStep(p)
<1>1. CASE Learn(p)
  BY <1>1, IdleTyped DEF Learn, CheckCandidate, InsertCandidate, OwnStep, TypeOK, Held
<1>2. CASE Kill(p)
  BY <1>2, IdleTyped DEF Kill, OwnStep, TypeOK, Held
<1>. QED BY <1>1, <1>2, ForgetOwn, RestoreOwn DEF Acts

LEMMA GlobalKeeps ==
  ASSUME Global \/ UNCHANGED vars
  PROVE  proc' = proc /\ lock' = lock /\ ledger' = ledger /\ gone' = gone /\ unfiltered' = unfiltered
BY DEF Global, Approve, Correct, TakeSnapshot, Compile, vars

LEMMA StepCases ==
  ASSUME [Next]_vars
  PROVE  (\E p \in Procs : Acts(p)) \/ Global \/ UNCHANGED vars
BY DEF Next, Acts, Global

LEMMA HolderStep ==
  ASSUME TypeOK, HolderWorks, [Next]_vars
  PROVE  HolderWorks'
<1>1. ASSUME NEW p \in Procs, Acts(p)
      PROVE  HolderWorks'
  BY <1>1, ActsOwn, NobodyAssumption DEF OwnStep, HolderWorks
<1>2. CASE Global \/ UNCHANGED vars
  BY <1>2, GlobalKeeps DEF HolderWorks
<1>. QED BY <1>1, <1>2, StepCases

-----------------------------------------------------------------------------
(***************************************************************************)
(* What nobody else does to whoever holds the lock.  The ledger may grow   *)
(* and the snapshots may be purged.                                        *)
(***************************************************************************)
Undisturbed(q) ==
    /\ proc'[q] = proc[q]
    /\ UNCHANGED <<memory, artifacts, gone, readded, unfiltered>>
    /\ proc[q].pc \in Restoring =>
          \/ proc[q].baseline \notin Taken'
          \/ proc[q].baseline \in Taken /\ snapshots'[proc[q].baseline] = snapshots[proc[q].baseline]

\* The directory a restore remembers is not used for another snapshot.
LEMMA RememberedKept ==
  ASSUME TypeOK, NEW q \in Procs, proc[q].pc \in Restoring,
         \/ UNCHANGED snapshots
         \/ snapshots' = [i \in SnapshotIds |-> NoImage]
         \/ \E i \in FreeIds : Snapshot(i)
  PROVE  \/ proc[q].baseline \notin Taken'
         \/ proc[q].baseline \in Taken /\ snapshots'[proc[q].baseline] = snapshots[proc[q].baseline]
<1>1. CASE UNCHANGED snapshots
  BY <1>1 DEF Taken
<1>2. CASE snapshots' = [i \in SnapshotIds |-> NoImage]
  BY <1>2 DEF Taken
<1>3. CASE \E i \in FreeIds : Snapshot(i)
  <2>1. PICK i \in FreeIds : snapshots' = [snapshots EXCEPT ![i] = memory]
    BY <1>3 DEF Snapshot
  <2>2. i # proc[q].baseline
    BY <2>1 DEF FreeIds
  <2>. QED BY <2>1, <2>2 DEF Taken, TypeOK
<1>. QED BY <1>1, <1>2, <1>3

LEMMA SnapshotsOfAStep ==
  ASSUME [Next]_vars
  PROVE  \/ UNCHANGED snapshots
         \/ snapshots' = [i \in SnapshotIds |-> NoImage]
         \/ \E i \in FreeIds : Snapshot(i)
<1>1. ASSUME NEW p \in Procs, Forget(p)
      PROVE  \/ UNCHANGED snapshots
             \/ snapshots' = [i \in SnapshotIds |-> NoImage]
             \/ \E i \in FreeIds : Snapshot(i)
  BY <1>1 DEF Forget, BeginForget, Prepare, Delete, MarkApplied, PurgeSnapshots, NewSnapshot, Publish
<1>2. ASSUME NEW p \in Procs, Restore(p)
      PROVE  UNCHANGED snapshots \/ \E i \in FreeIds : Snapshot(i)
  BY <1>2 DEF Restore, BeginRestore, ReplaceOperations, ReplaceMemory, Reapply, Recompile, SnapshotGone,
              RestoreFails, Rollback, RollbackFails
<1>3. ASSUME NEW p \in Procs, Learn(p) \/ Kill(p)
      PROVE  UNCHANGED snapshots
  BY <1>3 DEF Learn, CheckCandidate, InsertCandidate, Kill
<1>4. CASE Global \/ UNCHANGED vars
  BY <1>4 DEF Global, Approve, Correct, TakeSnapshot, Compile, vars
<1>. QED BY <1>1, <1>2, <1>3, <1>4, StepCases DEF Acts

\* Only who holds the lock, or anyone while nobody does, changes memory.
LEMMA OtherStep ==
  ASSUME TypeOK, HolderWorks, NEW q \in Procs, proc[q].pc \in Held,
         \/ \E p \in Procs \ {q} : Acts(p)
         \/ Global
         \/ UNCHANGED vars
  PROVE  UNCHANGED <<memory, artifacts, gone, readded, unfiltered>>
<1>1. lock = q /\ lock # Nobody
  BY NobodyAssumption DEF HolderWorks
<1>2. CASE Global \/ UNCHANGED vars
  BY <1>1, <1>2 DEF Global, Approve, Correct, TakeSnapshot, Compile, vars
<1>3. ASSUME NEW p \in Procs \ {q}, Acts(p)
      PROVE  UNCHANGED <<memory, artifacts, gone, readded, unfiltered>>
  <2>1. proc[p].pc \notin Held
    BY <1>1 DEF HolderWorks
  <2>2. CASE Forget(p)
    BY <1>1, <2>1, <2>2 DEF Forget, BeginForget, Prepare, Delete, MarkApplied, PurgeSnapshots, NewSnapshot,
                            Publish, Held
  <2>3. CASE Restore(p)
    BY <1>1, <2>1, <2>3 DEF Restore, BeginRestore, ReplaceOperations, ReplaceMemory, Reapply, Recompile,
                            SnapshotGone, RestoreFails, Rollback, RollbackFails, Held
  <2>4. CASE Learn(p) \/ Kill(p)
    BY <1>1, <2>4 DEF Learn, CheckCandidate, InsertCandidate, Kill
  <2>. QED BY <1>3, <2>2, <2>3, <2>4 DEF Acts
<1>. QED BY <1>2, <1>3

LEMMA OthersDoNotDisturb ==
  ASSUME TypeOK, HolderWorks, [Next]_vars, NEW q \in Procs, proc[q].pc \in Held, ~Acts(q)
  PROVE  Undisturbed(q)
<1>1. \/ \E p \in Procs \ {q} : Acts(p)
      \/ Global
      \/ UNCHANGED vars
  BY StepCases
<1>2. proc'[q] = proc[q]
  BY <1>1, ActsOwn, GlobalKeeps DEF OwnStep
<1>. QED BY <1>1, <1>2, OtherStep, RememberedKept, SnapshotsOfAStep DEF Undisturbed

-----------------------------------------------------------------------------
(***************************************************************************)
(* The ledger never loses an entry.                                        *)
(***************************************************************************)
LEMMA SuppressedGrows ==
  ASSUME TypeOK, [Next]_vars
  PROVE  Suppressed \subseteq Suppressed'
<1>1. CASE ledger' = ledger
  BY <1>1 DEF Suppressed
<1>2. ASSUME NEW p \in Procs, Prepare(p) \/ MarkApplied(p)
      PROVE  Suppressed \subseteq Suppressed'
  BY <1>2, AppendTyped DEF Prepare, MarkApplied
<1>3. ASSUME NEW p \in Procs, Acts(p), ~Prepare(p), ~MarkApplied(p)
      PROVE  ledger' = ledger
  BY <1>3 DEF Acts, Forget, BeginForget, Delete, PurgeSnapshots, NewSnapshot, Publish,
              Restore, BeginRestore, ReplaceOperations, ReplaceMemory, Reapply, Recompile, SnapshotGone,
              RestoreFails, Rollback, RollbackFails, Learn, CheckCandidate, InsertCandidate, Kill
<1>. QED BY <1>1, <1>2, <1>3, StepCases, GlobalKeeps

\* Nobody gets between the purge and the deletion but in these two ways.
LEMMA IntoForget ==
  ASSUME TypeOK, NEW q \in Procs, Acts(q), ~Prepare(q), \A wide \in BOOLEAN : ~BeginForget(q, wide)
  PROVE  proc'[q].pc \notin {"prepare", "delete"}
<1>1. CASE Forget(q)
  BY <1>1, IdleTyped DEF Forget, Delete, MarkApplied, PurgeSnapshots, NewSnapshot, Publish, TypeOK
<1>2. ASSUME NEW i \in SnapshotIds, BeginRestore(q, i)
      PROVE  proc'[q].pc = "operations"
  BY <1>2 DEF BeginRestore, TypeOK
<1>3. CASE Restore(q) /\ \A i \in SnapshotIds : ~BeginRestore(q, i)
  BY <1>3, IdleTyped DEF Restore, ReplaceOperations, ReplaceMemory, Reapply, Recompile,
                           SnapshotGone, RestoreFails, Rollback, RollbackFails, TypeOK
<1>4. CASE Learn(q) \/ Kill(q)
  BY <1>4, IdleTyped DEF Learn, CheckCandidate, InsertCandidate, Kill, TypeOK
<1>. QED BY <1>1, <1>2, <1>3, <1>4 DEF Acts

LEMMA EnteredStep ==
  ASSUME TypeOK, HolderWorks, LedgerFirst, [Next]_vars, NEW q \in Procs
  PROVE  Entered(q)'
<1>1. CASE ~Acts(q) /\ proc[q].pc \in Held
  <2>1. proc'[q] = proc[q]
    BY <1>1, OthersDoNotDisturb DEF Undisturbed
  <2>. QED BY <2>1, SuppressedGrows DEF LedgerFirst, Entered
<1>2. CASE ~Acts(q) /\ proc[q].pc \notin Held
  <2>1. proc'[q] = proc[q]
    BY <1>2, StepCases, ActsOwn, GlobalKeeps DEF OwnStep
  <2>. QED BY <1>2, <2>1 DEF Entered, Held
<1>3. ASSUME NEW wide \in BOOLEAN, BeginForget(q, wide)
      PROVE  Entered(q)'
  BY <1>3 DEF BeginForget, Entered, TypeOK
<1>4. CASE Prepare(q)
  <2>1. PICK entry \in proc[q].entries :
          /\ Append(entry, "pending")
          /\ proc' = [proc EXCEPT ![q].entries = proc[q].entries \ {entry},
                                  ![q].pc = IF proc[q].entries \ {entry} = {}
                                            THEN "delete" ELSE "prepare"]
    BY <1>4 DEF Prepare
  <2>2. Suppressed' = Suppressed \cup (entry \cap Facts)
    BY <2>1, AppendTyped
  <2>3. proc[q].facts \subseteq Suppressed \cup UNION proc[q].entries /\ proc[q].facts \subseteq Facts
    BY <1>4, TypedParts DEF Prepare, LedgerFirst, Entered
  <2>4. proc[q].facts \subseteq Suppressed' \cup UNION (proc[q].entries \ {entry})
    BY <2>2, <2>3
  <2>5. /\ proc'[q].facts = proc[q].facts
        /\ proc'[q].entries = proc[q].entries \ {entry}
        /\ At(q, "delete")' => proc[q].entries \ {entry} = {}
    BY <2>1 DEF TypeOK
  <2>. QED BY <2>4, <2>5 DEF Entered
<1>5. ASSUME Acts(q), ~Prepare(q), \A wide \in BOOLEAN : ~BeginForget(q, wide)
      PROVE  proc'[q].pc \notin {"prepare", "delete"}
  BY <1>5, IntoForget
<1>. QED BY <1>1, <1>2, <1>3, <1>4, <1>5 DEF Entered

LEMMA LedgerFirstStep ==
  ASSUME TypeOK, HolderWorks, LedgerFirst, [Next]_vars
  PROVE  LedgerFirst'
<1>1. ASSUME NEW p \in Procs, Delete(p)
      PROVE  gone' \subseteq Suppressed
  BY <1>1 DEF Delete, LedgerFirst, Entered
<1>2. ASSUME NEW p \in Procs, Acts(p), ~Delete(p)
      PROVE  gone' = gone
  BY <1>2 DEF Acts, Forget, BeginForget, Prepare, MarkApplied, PurgeSnapshots, NewSnapshot, Publish,
              Restore, BeginRestore, ReplaceOperations, ReplaceMemory, Reapply, Recompile, SnapshotGone,
              RestoreFails, Rollback, RollbackFails, Learn, CheckCandidate, InsertCandidate, Kill
<1>3. gone' \subseteq Suppressed
  BY <1>1, <1>2, StepCases, GlobalKeeps DEF LedgerFirst
<1>. QED BY <1>3, SuppressedGrows, EnteredStep DEF LedgerFirst

-----------------------------------------------------------------------------
(***************************************************************************)
(* What holds of whoever has the lock: undisturbed, it stays so, and the   *)
(* process' own steps bring it about.                                      *)
(***************************************************************************)
LEMMA UnpublishedStep ==
  ASSUME TypeOK, HolderWorks, Unpublished, [Next]_vars, NEW q \in Procs
  PROVE  proc'[q].pc \in {"prepare", "delete"} => artifacts' = {}
<1>1. CASE ~Acts(q) /\ proc[q].pc \in Held
  BY <1>1, OthersDoNotDisturb DEF Undisturbed, Unpublished
<1>2. CASE ~Acts(q) /\ proc[q].pc \notin Held
  BY <1>2, StepCases, ActsOwn, GlobalKeeps DEF OwnStep, Held
<1>3. ASSUME NEW wide \in BOOLEAN, BeginForget(q, wide)
      PROVE  artifacts' = {}
  BY <1>3 DEF BeginForget
<1>4. CASE Prepare(q)
  BY <1>4 DEF Prepare, Unpublished
<1>5. ASSUME Acts(q), ~Prepare(q), \A wide \in BOOLEAN : ~BeginForget(q, wide)
      PROVE  proc'[q].pc \notin {"prepare", "delete"}
  BY <1>5, IntoForget
<1>. QED BY <1>1, <1>2, <1>3, <1>4, <1>5

\* The entry of a process that goes on with a restore.
LEMMA RestoreGoesOn ==
  ASSUME TypeOK, HolderWorks, NEW q \in Procs, Acts(q), proc'[q].pc \in Restoring,
         \A i \in SnapshotIds : ~BeginRestore(q, i)
  PROVE  /\ proc[q].pc \in Restoring
         /\ proc'[q].baseline = proc[q].baseline /\ proc'[q].was = proc[q].was
         /\ UNCHANGED <<snapshots, artifacts, gone, readded>>
         /\ At(q, "recompile")' => Reapply(q)
<1>1. CASE Forget(q)
  <2>1. ASSUME NEW wide \in BOOLEAN, BeginForget(q, wide)
        PROVE  proc'[q].pc = "prepare"
    BY <2>1 DEF BeginForget, TypeOK
  <2>2. ASSUME Prepare(q)
        PROVE  proc'[q].pc \in {"prepare", "delete"}
    BY <2>2 DEF Prepare, TypeOK
  <2>3. ASSUME Delete(q) \/ MarkApplied(q) \/ PurgeSnapshots(q) \/ NewSnapshot(q) \/ Publish(q)
        PROVE  proc'[q].pc \in {"mark", "purge", "snapshot", "publish", "idle"}
    BY <2>3, IdleTyped DEF Delete, MarkApplied, PurgeSnapshots, NewSnapshot, Publish, TypeOK
  <2>. QED BY <1>1, <2>1, <2>2, <2>3 DEF Forget
<1>2. CASE Learn(q) \/ Kill(q)
  BY <1>2, IdleTyped DEF Learn, CheckCandidate, InsertCandidate, Kill, TypeOK
<1>3. CASE Recompile(q) \/ Rollback(q) \/ RollbackFails(q)
  BY <1>3, IdleTyped DEF Recompile, Rollback, RollbackFails, TypeOK
<1>4. CASE ReplaceOperations(q) \/ ReplaceMemory(q) \/ Reapply(q) \/ SnapshotGone(q) \/ RestoreFails(q)
  BY <1>4 DEF ReplaceOperations, ReplaceMemory, Reapply, SnapshotGone, RestoreFails, TypeOK
<1>. QED BY <1>1, <1>2, <1>3, <1>4 DEF Acts, Restore

LEMMA BaselineStep ==
  ASSUME TypeOK, HolderWorks, ForgottenStaysGone, BaselineClean, [Next]_vars, NEW q \in Procs
  PROVE  Clean(q)'
<1>1. CASE ~Acts(q) /\ proc[q].pc \in Held
  BY <1>1, OthersDoNotDisturb DEF Undisturbed, BaselineClean, Clean, Lost
<1>2. CASE ~Acts(q) /\ proc[q].pc \notin Held
  BY <1>2, StepCases, ActsOwn, GlobalKeeps DEF OwnStep, Held, Clean
<1>3. ASSUME NEW i \in SnapshotIds, BeginRestore(q, i)
      PROVE  Clean(q)'
  <2>1. PICK j \in FreeIds :
          /\ Snapshot(j)
          /\ proc' = [proc EXCEPT ![q].pc = "operations", ![q].from = i,
                                  ![q].baseline = j, ![q].was = unfiltered]
          /\ UNCHANGED <<gone, readded>>
    BY <1>3 DEF BeginRestore
  <2>2. proc'[q].baseline = j /\ proc'[q].was = unfiltered
    BY <2>1 DEF TypeOK
  <2>3. snapshots'[j] = memory
    BY <2>1 DEF Snapshot, FreeIds, TypeOK
  <2>4. ~unfiltered => Lost \cap memory.claims = {}
    BY DEF ForgottenStaysGone, Lost
  <2>5. Lost' = Lost
    BY <2>1 DEF Lost
  <2>. QED BY <2>2, <2>3, <2>4, <2>5 DEF Clean
<1>4. CASE Acts(q) /\ proc'[q].pc \in Restoring /\ \A i \in SnapshotIds : ~BeginRestore(q, i)
  BY <1>4, RestoreGoesOn DEF Clean, BaselineClean, Taken, Lost
<1>. QED BY <1>1, <1>2, <1>3, <1>4 DEF Clean

LEMMA ReappliedStep ==
  ASSUME TypeOK, HolderWorks, LedgerFirst, ReappliedClean, [Next]_vars, NEW q \in Procs
  PROVE  At(q, "recompile")' => Lost' \cap memory'.claims = {}
<1>1. CASE ~Acts(q) /\ proc[q].pc \in Held
  BY <1>1, OthersDoNotDisturb DEF Undisturbed, ReappliedClean, Lost
<1>2. CASE ~Acts(q) /\ proc[q].pc \notin Held
  BY <1>2, StepCases, ActsOwn, GlobalKeeps DEF OwnStep, Held
<1>3. ASSUME NEW i \in SnapshotIds, BeginRestore(q, i)
      PROVE  proc'[q].pc = "operations"
  BY <1>3 DEF BeginRestore, TypeOK
<1>4. CASE Reapply(q)
  <2>1. memory'.claims = memory.claims \ Suppressed /\ Lost' = Lost
    BY <1>4, WithoutTyped, TypedParts DEF Reapply, Lost
  <2>2. Lost \subseteq Suppressed
    BY DEF LedgerFirst, Lost
  <2>. QED BY <2>1, <2>2
<1>. QED BY <1>1, <1>2, <1>3, <1>4, RestoreGoesOn

-----------------------------------------------------------------------------
(***************************************************************************)
(* ForgottenStaysGone.                                                     *)
(***************************************************************************)
\* A step that writes no claims, publishes nothing but what memory has and
\* changes no history.
LEMMA GoneKept ==
  ASSUME ForgottenStaysGone, UNCHANGED <<gone, readded, unfiltered>>, memory'.claims = memory.claims,
         artifacts' \in {artifacts, {}, memory.claims}
  PROVE  ForgottenStaysGone'
BY DEF ForgottenStaysGone

LEMMA GoneStep ==
  ASSUME IInv, [Next]_vars
  PROVE  ForgottenStaysGone'
<1>. USE DEF IInv
<1>1. ASSUME NEW p \in Procs, Delete(p)
      PROVE  ForgottenStaysGone'
  <2>1. memory'.claims = memory.claims \ proc[p].facts /\ artifacts' = {}
    BY <1>1, WithoutTyped, TypedParts DEF Delete, Unpublished
  <2>2. /\ gone' = gone \cup proc[p].facts /\ readded' = readded \ proc[p].facts
        /\ unfiltered' = unfiltered
    BY <1>1 DEF Delete
  <2>. QED BY <2>1, <2>2 DEF ForgottenStaysGone
<1>2. ASSUME NEW p \in Procs, Forget(p), ~Delete(p)
      PROVE  ForgottenStaysGone'
  BY <1>2, GoneKept DEF Forget, BeginForget, Prepare, MarkApplied, PurgeSnapshots, NewSnapshot, Publish
<1>3. ASSUME NEW p \in Procs, ReplaceMemory(p)
      PROVE  ForgottenStaysGone'
  BY <1>3 DEF ReplaceMemory, ForgottenStaysGone
<1>4. ASSUME NEW p \in Procs, Reapply(p)
      PROVE  ForgottenStaysGone'
  <2>1. memory'.claims \subseteq memory.claims
    BY <1>4, WithoutTyped, TypedParts DEF Reapply
  <2>. QED BY <1>4, <2>1 DEF Reapply, ForgottenStaysGone
<1>5. ASSUME NEW p \in Procs, Recompile(p)
      PROVE  ForgottenStaysGone'
  BY <1>5 DEF Recompile, ReappliedClean, ForgottenStaysGone, Lost
<1>6. ASSUME NEW p \in Procs, Rollback(p)
      PROVE  ForgottenStaysGone'
  BY <1>6 DEF Rollback, BaselineClean, Clean, ForgottenStaysGone, Lost
<1>7. ASSUME NEW p \in Procs, Restore(p),
             ~ReplaceMemory(p), ~Reapply(p), ~Recompile(p), ~Rollback(p)
      PROVE  ForgottenStaysGone'
  BY <1>7, GoneKept DEF Restore, BeginRestore, ReplaceOperations, SnapshotGone, RestoreFails, RollbackFails
<1>8. ASSUME NEW p \in Procs, Learn(p) \/ Kill(p)
      PROVE  ForgottenStaysGone'
  <2>1. memory'.claims = memory.claims
    BY <1>8, TypedParts DEF Learn, CheckCandidate, InsertCandidate, Kill, Image
  <2>. QED BY <1>8, <2>1, GoneKept DEF Learn, CheckCandidate, InsertCandidate, Kill
<1>9. ASSUME NEW f \in Facts, Approve(f)
      PROVE  ForgottenStaysGone'
  <2>1. memory'.claims = memory.claims \cup {f} /\ f \notin gone
    BY <1>9, TypedParts DEF Approve, LedgerFirst, Image
  <2>. QED BY <1>9, <2>1 DEF Approve, ForgottenStaysGone
<1>10. ASSUME NEW f \in Facts, Correct(f)
       PROVE  ForgottenStaysGone'
  <2>1. memory'.claims = memory.claims \cup {f}
    BY <1>10, TypedParts DEF Correct, Image
  <2>. QED BY <1>10, <2>1 DEF Correct, ForgottenStaysGone
<1>11. ASSUME NEW i \in SnapshotIds, TakeSnapshot(i)
       PROVE  ForgottenStaysGone'
  BY <1>11, GoneKept DEF TakeSnapshot
<1>12. CASE Compile
  BY <1>12, GoneKept DEF Compile
<1>13. CASE UNCHANGED vars
  BY <1>13 DEF vars, ForgottenStaysGone
<1>. QED BY <1>1, <1>2, <1>3, <1>4, <1>5, <1>6, <1>7, <1>8, <1>9, <1>10, <1>11, <1>12, <1>13 DEF Next

-----------------------------------------------------------------------------
LEMMA InitOK == Init => IInv
<1>. SUFFICES ASSUME Init PROVE IInv
  OBVIOUS
<1>1. TypeOK
  <2>1. memory \in Image /\ artifacts \in SUBSET Facts
    BY FactsAssumption DEF Init, Image
  <2>2. proc \in [Procs -> Entry] /\ mishaps \in 0 .. MaxMishaps
    BY IdleTyped, MishapsAssumption DEF Init
  <2>3. snapshots \in [SnapshotIds -> Image \cup {NoImage}]
    BY DEF Init
  <2>. QED BY <2>1, <2>2, <2>3 DEF Init, TypeOK, Entry
<1>2. \A p \in Procs : proc[p].pc = "idle"
  BY IdleTyped DEF Init
<1>. QED BY <1>1, <1>2 DEF Init, IInv, HolderWorks, Held, LedgerFirst, Entered, Unpublished, BaselineClean, Clean,
                           ReappliedClean, ForgottenStaysGone

LEMMA StepOK == IInv /\ [Next]_vars => IInv'
<1>. SUFFICES ASSUME IInv, [Next]_vars PROVE IInv'
  OBVIOUS
<1>1. TypeOK' /\ HolderWorks' /\ LedgerFirst'
  BY TypeStep, HolderStep, LedgerFirstStep DEF IInv
<1>2. Unpublished'
  BY UnpublishedStep DEF IInv, Unpublished
<1>3. BaselineClean'
  BY BaselineStep DEF IInv, BaselineClean
<1>4. ReappliedClean'
  BY ReappliedStep DEF IInv, ReappliedClean
<1>. QED BY <1>1, <1>2, <1>3, <1>4, GoneStep DEF IInv

LEMMA Invariance == Spec => []IInv
BY InitOK, StepOK, PTL DEF Spec

(***************************************************************************)
(* The four stores, the lock and the processes are always typed.           *)
(***************************************************************************)
THEOREM TypeCorrect == Spec => []TypeOK
<1>1. IInv => TypeOK
  BY DEF IInv
<1>. QED BY <1>1, Invariance, PTL

(***************************************************************************)
(* What was forgotten and not written again is neither in memory nor       *)
(* published, whatever is restored and whoever dies where, but for a       *)
(* restore that was left unfinished.                                       *)
(***************************************************************************)
THEOREM ForgottenIsGone == Spec => []ForgottenStaysGone
<1>1. IInv => ForgottenStaysGone
  BY DEF IInv
<1>. QED BY <1>1, Invariance, PTL

(***************************************************************************)
(* While a fact is being forgotten no artifact has it.                     *)
(***************************************************************************)
THEOREM PurgedBeforeDeletion == Spec => []NotPublishedWhileForgotten
<1>1. IInv => NotPublishedWhileForgotten
  BY DEF IInv, Unpublished, NotPublishedWhileForgotten
<1>. QED BY <1>1, Invariance, PTL

LEMMA DeletionStep ==
  ASSUME IInv, [Next]_vars, NEW f \in memory.claims \ memory'.claims
  PROVE  ledger[f] # "none" \/ (lock # Nobody /\ proc[lock].pc \in Restoring)
<1>. USE DEF IInv
<1>1. ASSUME NEW p \in Procs, Delete(p)
      PROVE  ledger[f] # "none"
  <2>1. f \in proc[p].facts
    BY <1>1, WithoutTyped, TypedParts DEF Delete
  <2>. QED BY <1>1, <2>1 DEF Delete, LedgerFirst, Entered, Suppressed
<1>2. ASSUME NEW p \in Procs, proc[p].pc \in Restoring
      PROVE  lock # Nobody /\ proc[lock].pc \in Restoring
  BY <1>2, NobodyAssumption DEF HolderWorks, Held
<1>3. ASSUME NEW p \in Procs, Acts(p), ~Delete(p), proc[p].pc \notin Restoring
      PROVE  memory'.claims = memory.claims
  <2>1. CASE Forget(p)
    BY <1>3, <2>1 DEF Forget, BeginForget, Prepare, MarkApplied, PurgeSnapshots, NewSnapshot, Publish
  <2>2. CASE Restore(p)
    BY <1>3, <2>2 DEF Restore, BeginRestore, ReplaceOperations, ReplaceMemory, Reapply, Recompile,
                      SnapshotGone, RestoreFails, Rollback, RollbackFails
  <2>3. CASE Learn(p) \/ Kill(p)
    BY <2>3, TypedParts DEF Learn, CheckCandidate, InsertCandidate, Kill, Image
  <2>. QED BY <1>3, <2>1, <2>2, <2>3 DEF Acts
<1>4. CASE Global \/ UNCHANGED vars
  <2>1. memory.claims \subseteq memory'.claims
    BY <1>4, TypedParts DEF Global, Approve, Correct, TakeSnapshot, Compile, vars, Image
  <2>. QED BY <2>1
<1>. QED BY <1>1, <1>2, <1>3, <1>4, StepCases

(***************************************************************************)
(* No fact leaves memory before the ledger has it, unless a restore        *)
(* replaces the whole of memory.                                           *)
(***************************************************************************)
THEOREM LedgerFirstAlways == Spec => LedgerBeforeDeletion
<1>1. IInv /\ [Next]_vars =>
        [\A f \in memory.claims \ memory'.claims :
            \/ ledger[f] # "none"
            \/ lock # Nobody /\ proc[lock].pc \in Restoring]_vars
  BY DeletionStep
<1>. QED BY <1>1, Invariance, PTL DEF Spec, LedgerBeforeDeletion
-----------------------------------------------------------------------------
(***************************************************************************)
(* Restores that are not left unfinished.  A process abandons one when it  *)
(* is killed, or cannot roll back, between the replacement of memory and   *)
(* the compilation that ends the restore.                                  *)
(***************************************************************************)
Abandons(p) ==
    /\ proc[p].pc \in Restoring
    /\ unfiltered
    /\ Kill(p) \/ RollbackFails(p)

FinishedNext == Next /\ \A p \in Procs : ~Abandons(p)
FinishedSpec == Init /\ [][FinishedNext]_vars

\* Memory without the ledger applied is seen by a restore under way only,
\* and no restore begins with such a memory.
RestoreUnderWay == unfiltered => \E p \in Procs : proc[p].pc \in Restoring
BaselineFiltered == \A p \in Procs : proc[p].pc \in Restoring => ~proc[p].was

FInv == IInv /\ RestoreUnderWay /\ BaselineFiltered /\ NothingForgottenPublished

\* Nothing is published, deleted or written again during such a restore.
LEMMA UnfilteredStep ==
  ASSUME FInv, [FinishedNext]_vars, unfiltered'
  PROVE  /\ \E p \in Procs : proc'[p].pc \in Restoring
         /\ UNCHANGED <<artifacts, gone, readded>>
<1>. USE DEF FInv, IInv
<1>1. [Next]_vars
  BY DEF FinishedNext
<1>2. CASE unfiltered
  <2>1. PICK q \in Procs : proc[q].pc \in Restoring
    BY <1>2 DEF RestoreUnderWay
  <2>2. CASE ~Acts(q)
    <3>1. Undisturbed(q)
      BY <1>1, <2>1, <2>2, OthersDoNotDisturb DEF Held
    <3>. QED BY <2>1, <3>1 DEF Undisturbed
  <2>3. CASE Acts(q)
    <3>1. ~Forget(q) /\ ~Learn(q)
      BY <2>1 DEF Forget, BeginForget, Prepare, Delete, MarkApplied, PurgeSnapshots, NewSnapshot,
                  Publish, Learn, CheckCandidate, InsertCandidate
    <3>2. \A i \in SnapshotIds : ~BeginRestore(q, i)
      BY <2>1 DEF BeginRestore
    <3>3. ~Recompile(q) /\ ~Rollback(q)
      BY <2>1 DEF Recompile, Rollback, BaselineFiltered
    <3>4. ~Kill(q) /\ ~RollbackFails(q)
      <4>1. CASE UNCHANGED vars
        <5>1. proc' = proc
          BY <4>1 DEF vars
        <5>2. proc'[q].pc = "idle" \/ (~Kill(q) /\ ~RollbackFails(q))
          BY IdleTyped DEF Kill, RollbackFails, TypeOK
        <5>. QED BY <2>1, <5>1, <5>2
      <4>2. CASE FinishedNext
        BY <1>2, <2>1, <4>2 DEF FinishedNext, Abandons
      <4>. QED BY <4>1, <4>2
    <3>5. ReplaceOperations(q) \/ ReplaceMemory(q) \/ Reapply(q) \/ SnapshotGone(q) \/ RestoreFails(q)
      BY <2>3, <3>1, <3>2, <3>3, <3>4 DEF Acts, Restore
    <3>6. proc'[q].pc \in Restoring
      BY <3>5 DEF ReplaceOperations, ReplaceMemory, Reapply, SnapshotGone, RestoreFails, TypeOK
    <3>. QED BY <2>3, <3>2, <3>6, RestoreGoesOn
  <2>. QED BY <2>2, <2>3
<1>3. CASE ~unfiltered
  <2>1. ASSUME NEW p \in Procs, Acts(p), ~ReplaceMemory(p)
        PROVE  ~unfiltered'
    <3>1. CASE Forget(p)
      BY <1>3, <3>1 DEF Forget, BeginForget, Prepare, Delete, MarkApplied, PurgeSnapshots, NewSnapshot, Publish
    <3>2. CASE Restore(p)
      BY <1>3, <2>1, <3>2 DEF Restore, BeginRestore, ReplaceOperations, Reapply, Recompile, SnapshotGone,
                       RestoreFails, Rollback, RollbackFails, BaselineFiltered
    <3>3. CASE Learn(p) \/ Kill(p)
      BY <1>3, <3>3 DEF Learn, CheckCandidate, InsertCandidate, Kill
    <3>. QED BY <2>1, <3>1, <3>2, <3>3 DEF Acts
  <2>2. PICK p \in Procs : ReplaceMemory(p)
    BY <1>1, <1>3, <2>1, StepCases, GlobalKeeps
  <2>3. proc'[p].pc = "reapply" /\ UNCHANGED <<artifacts, gone, readded>>
    BY <2>2 DEF ReplaceMemory, TypeOK
  <2>. QED BY <2>3
<1>. QED BY <1>2, <1>3

LEMMA BaselineFilteredStep ==
  ASSUME FInv, [Next]_vars
  PROVE  BaselineFiltered'
<1>. USE DEF FInv, IInv
<1>. SUFFICES ASSUME NEW q \in Procs, proc'[q].pc \in Restoring
     PROVE  ~proc'[q].was
  BY DEF BaselineFiltered
<1>1. CASE ~Acts(q)
  <2>1. proc'[q] = proc[q]
    BY <1>1, StepCases, ActsOwn, GlobalKeeps DEF OwnStep
  <2>. QED BY <2>1 DEF BaselineFiltered
<1>2. ASSUME NEW i \in SnapshotIds, BeginRestore(q, i)
      PROVE  ~proc'[q].was
  <2>1. ~unfiltered
    BY <1>2, NobodyAssumption DEF BeginRestore, HolderWorks, Held, RestoreUnderWay
  <2>2. proc'[q].was = unfiltered
    BY <1>2 DEF BeginRestore, TypeOK
  <2>. QED BY <2>1, <2>2
<1>3. CASE Acts(q) /\ \A i \in SnapshotIds : ~BeginRestore(q, i)
  BY <1>3, RestoreGoesOn DEF BaselineFiltered
<1>. QED BY <1>1, <1>2, <1>3

(***************************************************************************)
(* What NothingForgottenPublished needs: if every restore that replaced    *)
(* memory gets to its end or to the end of its rollback, no artifact ever  *)
(* has a forgotten claim, whoever else is killed wherever.                 *)
(***************************************************************************)
THEOREM FinishedRestoresPublishNothingForgotten == FinishedSpec => []NothingForgottenPublished
<1>1. Init => FInv
  <2>1. Init => RestoreUnderWay /\ NothingForgottenPublished
    BY DEF Init, RestoreUnderWay, NothingForgottenPublished
  <2>2. Init => BaselineFiltered
    BY IdleTyped DEF Init, BaselineFiltered
  <2>. QED BY <2>1, <2>2, InitOK DEF FInv
<1>2. FInv /\ [FinishedNext]_vars => FInv'
  <2>. SUFFICES ASSUME FInv, [FinishedNext]_vars PROVE FInv'
    OBVIOUS
  <2>1. IInv' /\ BaselineFiltered'
    BY StepOK, BaselineFilteredStep DEF FInv, FinishedNext
  <2>2. RestoreUnderWay'
    BY UnfilteredStep DEF RestoreUnderWay
  <2>3. CASE unfiltered'
    BY <2>1, <2>2, <2>3, UnfilteredStep DEF FInv, NothingForgottenPublished
  <2>4. CASE ~unfiltered'
    <3>1. NothingForgottenPublished'
      BY <2>1, <2>4 DEF IInv, ForgottenStaysGone, NothingForgottenPublished
    <3>. QED BY <2>1, <2>2, <3>1 DEF FInv
  <2>. QED BY <2>3, <2>4
<1>3. FInv => NothingForgottenPublished
  BY DEF FInv
<1>. QED BY <1>1, <1>2, <1>3, PTL DEF FinishedSpec
=============================================================================
