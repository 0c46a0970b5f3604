----------------------- MODULE ArtifactBundlesProofs -----------------------
(***************************************************************************)
(* Theorems about ArtifactBundles, for any number of processes, commits    *)
(* and kills.                                                              *)
(***************************************************************************)
EXTENDS ArtifactBundles, TLAPS

\* No revision that is remembered anywhere is larger than the number of
\* commits: a restore takes the counter back and never forth.
RevisionsCounted ==
    /\ memory.rev <= commits
    /\ \A image \in saved : image.rev <= commits
    /\ \A p \in Procs : proc[p].read.rev <= commits /\ proc[p].baseline.rev <= commits

\* Everything but a commit that is not compiled yet happens under the lock.
Held == Pc \ {"idle", "written"}
HolderWorks == \A p \in Procs : proc[p].pc \in Held => lock = p

\* Who is about to publish has read what memory says now, and behind the
\* revision he is about to switch to is what he read.
Publishes(p) ==
    /\ proc[p].pc \in {"install", "switch"} => proc[p].read = memory
    /\ At(p, "switch") =>
          /\ bundles[proc[p].read.rev] # Absent
          /\ bundles[proc[p].read.rev].says = proc[p].read.says

PublishesMemory == \A p \in Procs : Publishes(p)

\* A directory without all its files is left by a purge.
Purged == interrupted \/ \E p \in Procs : At(p, "purge")
DamagedByPurge == Purged \/ \A r \in Revisions : bundles[r].state \in {"whole", "absent"}

IInv ==
    /\ TypeOK
    /\ RevisionsCounted
    /\ HolderWorks
    /\ PublishesMemory
    /\ DamagedByPurge
    /\ CurrentIsComplete

USE DEF At, Goto, Ends

-----------------------------------------------------------------------------
(***************************************************************************)
(* Types, and with them the bound on revisions: only a commit bumps one,   *)
(* and it is counted in the same step.                                     *)
(***************************************************************************)
Typed == TypeOK /\ RevisionsCounted


Entry == [pc : Pc, command : Command, read : Image, baseline : Image]

\* proc is typed and remembers no revision above a count.
ProcTyped(entries, count) ==
    /\ entries \in [Procs -> Entry]
    /\ \A p \in Procs : entries[p].read.rev <= count /\ entries[p].baseline.rev <= count

LEMMA TypedParts ==
  ASSUME Typed
  PROVE  ProcTyped(proc, commits) /\ commits \in Nat /\ commits <= MaxCommits
BY BoundsAssumption DEF Typed, TypeOK, RevisionsCounted, ProcTyped, Entry, Revisions

LEMMA TypedFromParts ==
  ASSUME memory' \in Image, commits' \in Revisions, saved' \in SUBSET Image, forgot' \in BOOLEAN,
         bundles' \in [Revisions -> Bundle \cup {Absent}],
         current' \in Revisions \cup {NoRevision}, lock' \in Procs \cup {Nobody},
         kills' \in 0 .. MaxKills, interrupted' \in BOOLEAN,
         memory'.rev <= commits', \A image \in saved' : image.rev <= commits',
         ProcTyped(proc', commits')
  PROVE  Typed'
BY DEF Typed, TypeOK, RevisionsCounted, ProcTyped, Entry

\* A later count bounds the same revisions.
LEMMA CountGrows ==
  ASSUME NEW m \in Nat, NEW n \in Nat, m <= n, NEW entries, ProcTyped(entries, m)
  PROVE  ProcTyped(entries, n)
<1>1. ASSUME NEW p \in Procs
      PROVE  entries[p].read.rev \in Int /\ entries[p].baseline.rev \in Int
  <2>1. entries[p].read \in Image /\ entries[p].baseline \in Image
    BY DEF ProcTyped, Entry
  <2>. QED BY <2>1, BoundsAssumption DEF Image, Revisions
<1>. QED BY <1>1 DEF ProcTyped

LEMMA GotoTyped ==
  ASSUME NEW n, ProcTyped(proc, n), NEW p \in Procs, NEW pc \in Pc, Goto(p, pc)
  PROVE  ProcTyped(proc', n)
BY DEF ProcTyped, Entry

LEMMA EndsTyped ==
  ASSUME NEW n \in Nat, ProcTyped(proc, n), NEW p \in Procs, proc' = [proc EXCEPT ![p] = Idle]
  PROVE  ProcTyped(proc', n)
<1>1. Idle \in Entry /\ Idle.read.rev = 0 /\ Idle.baseline.rev = 0
  BY BoundsAssumption DEF Idle, Entry, Pc, Command, Image, Revisions
<1>. QED BY <1>1 DEF ProcTyped

LEMMA BumpTyped ==
  ASSUME Typed, Bump
  PROVE  /\ commits' \in Revisions /\ memory' \in Image
         /\ memory'.rev <= commits'
         /\ commits' = commits + 1
         /\ ProcTyped(proc, commits')
         /\ \A image \in saved : image.rev <= commits'
<1>1. /\ commits \in 0 .. MaxCommits /\ commits < MaxCommits
      /\ memory.rev \in 0 .. MaxCommits /\ memory.rev <= commits
      /\ \A image \in saved : image.rev \in 0 .. MaxCommits /\ image.rev <= commits
  BY DEF Typed, TypeOK, RevisionsCounted, Bump, Image, Revisions
<1>2. /\ commits' = commits + 1
      /\ memory' = [rev |-> memory.rev + 1, says |-> commits + 1]
  BY DEF Bump
<1>3. ProcTyped(proc, commits')
  BY <1>1, <1>2, TypedParts, CountGrows, BoundsAssumption
<1>. QED BY <1>1, <1>2, <1>3, BoundsAssumption DEF Image, Revisions

LEMMA TypedStep == Typed /\ [Next]_vars => Typed'
<1>. SUFFICES ASSUME Typed, [Next]_vars PROVE Typed'
  OBVIOUS
<1>. USE TypedParts, TypedFromParts
<1>1. /\ memory \in Image /\ commits \in Revisions /\ saved \in SUBSET Image /\ forgot \in BOOLEAN
      /\ bundles \in [Revisions -> Bundle \cup {Absent}]
      /\ current \in Revisions \cup {NoRevision} /\ lock \in Procs \cup {Nobody}
      /\ kills \in 0 .. MaxKills /\ interrupted \in BOOLEAN
      /\ memory.rev <= commits /\ \A image \in saved : image.rev <= commits
  BY DEF Typed, TypeOK, RevisionsCounted
<1>2. ASSUME NEW p \in Procs, Commit(p)
      PROVE  Typed'
  <2>1. ProcTyped(proc', commits')
    BY <1>2, BumpTyped, GotoTyped DEF Commit, Pc
  <2>. QED BY <1>1, <1>2, <2>1, BumpTyped DEF Commit
<1>3. ASSUME NEW p \in Procs, ReadMemory(p) \/ ReadRestored(p)
      PROVE  Typed'
  <2>1. ProcTyped(proc', commits)
    BY <1>1, <1>3 DEF ReadMemory, ReadRestored, ProcTyped, Entry, Pc
  <2>. QED BY <1>1, <1>3, <2>1 DEF ReadMemory, ReadRestored
<1>4. ASSUME NEW p \in Procs, Install(p)
      PROVE  Typed'
  <2>1. ProcTyped(proc', commits)
    BY <1>4, GotoTyped DEF Install, Pc
  <2>2. bundles' \in [Revisions -> Bundle \cup {Absent}]
    <3>1. proc[p].read.says \in Revisions
      BY DEF ProcTyped, Entry, Image
    <3>. QED BY <1>1, <1>4, <3>1 DEF Install, Bundle, Whole
  <2>. QED BY <1>1, <1>4, <2>1, <2>2 DEF Install
<1>5. ASSUME NEW p \in Procs, SwitchCurrent(p)
      PROVE  Typed'
  <2>1. ProcTyped(proc', commits)
    BY <1>5, EndsTyped DEF SwitchCurrent
  <2>2. proc[p].read.rev \in Revisions
    BY DEF ProcTyped, Entry, Image
  <2>. QED BY <1>1, <1>5, <2>1, <2>2 DEF SwitchCurrent
<1>6. ASSUME NEW p \in Procs, PublishFails(p)
      PROVE  Typed'
  <2>1. ProcTyped(proc', commits)
    BY <1>6, EndsTyped, GotoTyped DEF PublishFails, Pc
  <2>. QED BY <1>1, <1>6, <2>1 DEF PublishFails
<1>7. ASSUME NEW p \in Procs, BeginForget(p) \/ EndPurge(p)
      PROVE  Typed'
  <2>1. ProcTyped(proc', commits)
    BY <1>7, GotoTyped DEF BeginForget, EndPurge, Pc
  <2>. QED BY <1>1, <1>7, <2>1 DEF BeginForget, EndPurge
<1>8. ASSUME NEW p \in Procs, PurgeEntry(p)
      PROVE  Typed'
  <2>1. \A r \in Revisions : bundles[r] # Absent => Shredded(bundles[r]) \subseteq Bundle \cup {Absent}
    BY <1>1 DEF Bundle, Shredded
  <2>2. bundles' \in [Revisions -> Bundle \cup {Absent}] /\ current' \in Revisions \cup {NoRevision}
    BY <1>1, <1>8, <2>1 DEF PurgeEntry
  <2>. QED BY <1>1, <1>8, <2>2 DEF PurgeEntry
<1>9. ASSUME NEW p \in Procs, Forget(p)
      PROVE  Typed'
  <2>1. ProcTyped(proc', commits')
    BY <1>9, BumpTyped, GotoTyped DEF Forget, Pc
  <2>. QED BY <1>1, <1>9, <2>1, BumpTyped DEF Forget
<1>10. ASSUME NEW p \in Procs, BeginRestore(p)
       PROVE  Typed'
  <2>1. PICK image \in saved :
          proc' = [proc EXCEPT ![p].pc = "replace", ![p].command = "restore",
                               ![p].read = image, ![p].baseline = memory]
    BY <1>10 DEF BeginRestore
  <2>. DEFINE entry == [proc[p] EXCEPT !.pc = "replace", !.command = "restore",
                                       !.read = image, !.baseline = memory]
  <2>2. entry \in Entry /\ entry.read.rev <= commits /\ entry.baseline.rev <= commits
    BY <1>1 DEF ProcTyped, Entry, Pc, Command
  <2>3. proc' = [proc EXCEPT ![p] = entry]
    BY <2>1 DEF ProcTyped, Entry
  <2>4. ProcTyped(proc', commits)
    <3>. HIDE DEF entry
    <3>. QED BY <2>2, <2>3 DEF ProcTyped
  <2>. QED BY <1>1, <1>10, <2>4 DEF BeginRestore
<1>11. ASSUME NEW p \in Procs, Replace(p) \/ Rollback(p)
       PROVE  Typed'
  <2>1. ProcTyped(proc', commits)
    <3>1. CASE Replace(p)
      BY <3>1, GotoTyped DEF Replace, Pc
    <3>2. CASE Rollback(p)
      BY <3>2 DEF Rollback, ProcTyped, Entry, Pc, Command
    <3>. QED BY <1>11, <3>1, <3>2
  <2>2. memory' \in Image /\ memory'.rev <= commits
    BY <1>11 DEF Replace, Rollback, ProcTyped, Entry
  <2>. QED BY <1>1, <1>11, <2>1, <2>2 DEF Replace, Rollback
<1>12. ASSUME NEW p \in Procs, Reapply(p)
       PROVE  Typed'
  <2>1. CASE Bump
    <3>1. ProcTyped(proc', commits')
      BY <1>12, <2>1, BumpTyped, GotoTyped DEF Reapply, Pc
    <3>. QED BY <1>1, <1>12, <2>1, <3>1, BumpTyped DEF Reapply
  <2>2. CASE UNCHANGED <<memory, commits>>
    <3>1. ProcTyped(proc', commits)
      BY <1>12, GotoTyped DEF Reapply, Pc
    <3>. QED BY <1>1, <1>12, <2>2, <3>1 DEF Reapply
  <2>. QED BY <1>12, <2>1, <2>2 DEF Reapply
<1>13. ASSUME NEW p \in Procs, Kill(p)
       PROVE  Typed'
  <2>1. ProcTyped(proc', commits)
    BY <1>13, EndsTyped DEF Kill
  <2>2. kills' \in 0 .. MaxKills /\ interrupted' \in BOOLEAN /\ lock' \in Procs \cup {Nobody}
    BY <1>1, <1>13, BoundsAssumption DEF Kill
  <2>. QED BY <1>1, <1>13, <2>1, <2>2 DEF Kill
<1>14. CASE TakeSnapshot
  BY <1>1, <1>14 DEF TakeSnapshot
<1>15. CASE UNCHANGED vars
  BY <1>1, <1>15 DEF vars
<1>. QED BY <1>2, <1>3, <1>4, <1>5, <1>6, <1>7, <1>8, <1>9, <1>10, <1>11, <1>12, <1>13,
            <1>14, <1>15 DEF Next

-----------------------------------------------------------------------------
(***************************************************************************)
(* The lock.  Whoever takes a step, other than to die, is alone with it.   *)
(***************************************************************************)
Works(p) ==
    \/ Commit(p) \/ ReadMemory(p) \/ ReadRestored(p)
    \/ Install(p) \/ SwitchCurrent(p) \/ PublishFails(p)
    \/ BeginForget(p) \/ PurgeEntry(p) \/ EndPurge(p) \/ Forget(p)
    \/ BeginRestore(p) \/ Replace(p) \/ Reapply(p) \/ Rollback(p)

Alone(p) == \A q \in Procs \ {p} : proc[q].pc \notin Held

LEMMA WorksAlone ==
  ASSUME TypeOK, HolderWorks, NEW p \in Procs, Works(p)
  PROVE  Alone(p)
<1>1. lock = Nobody \/ proc[p].pc \in Held
  BY DEF Works, Commit, ReadMemory, ReadRestored, Install, SwitchCurrent, PublishFails, BeginForget,
         PurgeEntry, EndPurge, Forget, BeginRestore, Replace, Reapply, Rollback, Held, Pc
<1>2. lock = Nobody \/ lock = p
  BY <1>1 DEF HolderWorks
<1>. QED BY <1>2, NamesAssumption DEF Alone, HolderWorks

\* What a step does to the processes: only its own entry changes, and after
\* it the process holds the lock if it has to.
LEMMA OwnStep ==
  ASSUME TypeOK, HolderWorks, NEW p \in Procs, Works(p)
  PROVE  /\ \A q \in Procs \ {p} : proc'[q] = proc[q]
         /\ proc'[p].pc \in Held => lock' = p
<1>1. CASE Commit(p) \/ ReadMemory(p) \/ ReadRestored(p)
  BY <1>1 DEF Commit, ReadMemory, ReadRestored, TypeOK, HolderWorks, Held, Pc
<1>2. CASE Install(p) \/ SwitchCurrent(p) \/ PublishFails(p)
  BY <1>2 DEF Install, SwitchCurrent, PublishFails, TypeOK, HolderWorks, Held, Pc, Idle
<1>3. CASE BeginForget(p) \/ PurgeEntry(p) \/ EndPurge(p) \/ Forget(p)
  BY <1>3 DEF BeginForget, PurgeEntry, EndPurge, Forget, TypeOK, HolderWorks, Held, Pc
<1>4. CASE BeginRestore(p)
  <2>1. PICK image \in saved :
          proc' = [proc EXCEPT ![p].pc = "replace", ![p].command = "restore",
                               ![p].read = image, ![p].baseline = memory]
    BY <1>4 DEF BeginRestore
  <2>. QED BY <1>4, <2>1 DEF BeginRestore, TypeOK
<1>5. CASE Replace(p) \/ Reapply(p)
  BY <1>5 DEF Replace, Reapply, TypeOK, HolderWorks, Held, Pc
<1>6. CASE Rollback(p)
  BY <1>6 DEF Rollback, TypeOK, HolderWorks, Held, Pc
<1>. QED BY <1>1, <1>2, <1>3, <1>4, <1>5, <1>6 DEF Works

LEMMA KillStep ==
  ASSUME TypeOK, NEW p \in Procs, Kill(p)
  PROVE  /\ \A q \in Procs \ {p} : proc'[q] = proc[q]
         /\ proc'[p].pc = "idle"
         /\ UNCHANGED <<memory, bundles, current>>
         /\ lock' = IF lock = p THEN Nobody ELSE lock
BY DEF Kill, TypeOK, Idle

LEMMA HolderStep ==
  ASSUME TypeOK, HolderWorks, [Next]_vars
  PROVE  HolderWorks'
<1>1. ASSUME NEW p \in Procs, Works(p)
      PROVE  HolderWorks'
  BY <1>1, WorksAlone, OwnStep DEF Alone, HolderWorks
<1>2. ASSUME NEW p \in Procs, Kill(p)
      PROVE  HolderWorks'
  BY <1>2, KillStep, NamesAssumption DEF HolderWorks, Held, Pc
<1>3. CASE TakeSnapshot \/ UNCHANGED vars
  BY <1>3 DEF TakeSnapshot, vars, HolderWorks
<1>. QED BY <1>1, <1>2, <1>3 DEF Next, Works

-----------------------------------------------------------------------------
(***************************************************************************)
(* What is about to be published.                                          *)
(***************************************************************************)
LEMMA OwnPublication ==
  ASSUME TypeOK, PublishesMemory, NEW p \in Procs, Works(p)
  PROVE  Publishes(p)'
<1>1. CASE ReadMemory(p) \/ ReadRestored(p)
  BY <1>1 DEF ReadMemory, ReadRestored, Publishes, TypeOK
<1>2. CASE Install(p)
  <2>1. proc[p].read = memory /\ memory.rev \in Revisions
    BY <1>2 DEF Install, PublishesMemory, Publishes, TypeOK, Image
  <2>2. proc'[p].read = proc[p].read /\ memory' = memory
    BY <1>2 DEF Install, TypeOK
  <2>3. bundles'[memory.rev] # Absent /\ bundles'[memory.rev].says = memory.says
    BY <1>2, <2>1 DEF Install, Fits, TypeOK, Whole, Absent
  <2>. QED BY <2>1, <2>2, <2>3 DEF Publishes
<1>3. CASE BeginRestore(p)
  <2>1. PICK image \in saved :
          proc' = [proc EXCEPT ![p].pc = "replace", ![p].command = "restore",
                               ![p].read = image, ![p].baseline = memory]
    BY <1>3 DEF BeginRestore
  <2>. QED BY <2>1 DEF TypeOK, Publishes
<1>4. CASE PurgeEntry(p)
  BY <1>4 DEF PurgeEntry, Publishes
<1>5. ASSUME Works(p), ~ReadMemory(p), ~ReadRestored(p), ~Install(p), ~BeginRestore(p), ~PurgeEntry(p)
      PROVE  proc'[p].pc \notin {"install", "switch"}
  <2>1. CASE Commit(p) \/ BeginForget(p) \/ EndPurge(p) \/ Forget(p)
    BY <2>1 DEF Commit, BeginForget, EndPurge, Forget, TypeOK
  <2>2. CASE SwitchCurrent(p) \/ PublishFails(p)
    BY <2>2 DEF SwitchCurrent, PublishFails, TypeOK, Idle
  <2>3. CASE Replace(p) \/ Reapply(p)
    BY <2>3 DEF Replace, Reapply, TypeOK
  <2>4. CASE Rollback(p)
    BY <2>4 DEF Rollback, TypeOK
  <2>. QED BY <1>5, <2>1, <2>2, <2>3, <2>4 DEF Works
<1>. QED BY <1>1, <1>2, <1>3, <1>4, <1>5 DEF Publishes

LEMMA PublishesStep ==
  ASSUME TypeOK, HolderWorks, PublishesMemory, [Next]_vars
  PROVE  PublishesMemory'
<1>1. ASSUME NEW p \in Procs, Works(p), NEW q \in Procs
      PROVE  Publishes(q)'
  <2>1. CASE q = p
    BY <1>1, <2>1, OwnPublication
  <2>2. CASE q # p
    <3>1. proc'[q].pc \notin {"install", "switch"}
      BY <1>1, <2>2, WorksAlone, OwnStep DEF Alone, Held, Pc
    <3>. QED BY <3>1 DEF Publishes
  <2>. QED BY <2>1, <2>2
<1>2. ASSUME NEW p \in Procs, Kill(p), NEW q \in Procs
      PROVE  Publishes(q)'
  BY <1>2, KillStep DEF PublishesMemory, Publishes
<1>3. CASE TakeSnapshot \/ UNCHANGED vars
  BY <1>3 DEF TakeSnapshot, vars, PublishesMemory, Publishes
<1>. QED BY <1>1, <1>2, <1>3 DEF Next, Works, Publishes, PublishesMemory

-----------------------------------------------------------------------------
(***************************************************************************)
(* Damage.                                                                 *)
(***************************************************************************)
Sound == DamagedByPurge /\ CurrentIsComplete

\* A step that leaves the artifacts alone, by a process that does not purge.
LEMMA SoundKept ==
  ASSUME Sound, Purged => Purged', UNCHANGED <<bundles, current>>
  PROVE  Sound'
BY DEF Sound, DamagedByPurge, CurrentIsComplete, Purged

LEMMA SoundStep ==
  ASSUME TypeOK, HolderWorks, PublishesMemory, Sound, [Next]_vars
  PROVE  Sound'
<1>1. ASSUME NEW p \in Procs, Works(p), ~At(p, "purge"), interrupted' = interrupted
      PROVE  Purged => Purged'
  BY <1>1, OwnStep DEF Purged
<1>2. ASSUME NEW p \in Procs, Install(p)
      PROVE  Sound'
  <2>1. Purged => Purged'
    BY <1>1, <1>2 DEF Install, Works
  <2>2. \A r \in Revisions : \/ bundles'[r] = bundles[r]
                             \/ bundles[r] = Absent /\ bundles'[r].state = "whole"
    BY <1>2 DEF Install, TypeOK, Whole
  <2>3. current' = current /\ (current # NoRevision => current \in Revisions)
    BY <1>2 DEF Install, TypeOK
  <2>. QED BY <2>1, <2>2, <2>3 DEF Sound, DamagedByPurge, CurrentIsComplete, Purged, Absent
<1>3. ASSUME NEW p \in Procs, SwitchCurrent(p)
      PROVE  Sound'
  <2>1. Purged => Purged'
    BY <1>1, <1>3 DEF SwitchCurrent, Works
  <2>2. current' = proc[p].read.rev /\ current' \in Revisions /\ bundles' = bundles
    BY <1>3 DEF SwitchCurrent, TypeOK, Image
  <2>3. bundles[current'] # Absent
    BY <1>3, <2>2 DEF SwitchCurrent, PublishesMemory, Publishes
  <2>4. bundles[current'].state # "absent"
    BY <2>2, <2>3 DEF TypeOK, Bundle
  <2>. QED BY <2>1, <2>2, <2>4 DEF Sound, DamagedByPurge, CurrentIsComplete, Purged
<1>4. ASSUME NEW p \in Procs, PurgeEntry(p)
      PROVE  Sound'
  <2>1. Purged'
    BY <1>4 DEF PurgeEntry, Purged
  <2>. QED BY <2>1 DEF Sound, DamagedByPurge, CurrentIsComplete, Purged
<1>5. ASSUME NEW p \in Procs, EndPurge(p)
      PROVE  Sound'
  BY <1>5 DEF EndPurge, NothingLeft, Sound, DamagedByPurge, CurrentIsComplete, Absent
<1>6. ASSUME NEW p \in Procs, Works(p),
             ~Install(p), ~SwitchCurrent(p), ~PurgeEntry(p), ~EndPurge(p)
      PROVE  Sound'
  <2>1. ~At(p, "purge") /\ interrupted' = interrupted /\ UNCHANGED <<bundles, current>>
    BY <1>6 DEF Works, Commit, ReadMemory, ReadRestored, PublishFails, BeginForget, Forget,
                BeginRestore, Replace, Reapply, Rollback
  <2>. QED BY <1>1, <1>6, <2>1, SoundKept
<1>7. ASSUME NEW p \in Procs, Kill(p)
      PROVE  Sound'
  <2>1. Purged => Purged'
    BY <1>7, KillStep DEF Kill, Purged
  <2>. QED BY <1>7, <2>1, KillStep, SoundKept
<1>8. CASE TakeSnapshot \/ UNCHANGED vars
  BY <1>8 DEF TakeSnapshot, vars, Sound, DamagedByPurge, CurrentIsComplete, Purged
<1>. QED BY <1>2, <1>3, <1>4, <1>5, <1>6, <1>7, <1>8 DEF Next, Works

-----------------------------------------------------------------------------
LEMMA InitOK == Init => IInv
<1>. SUFFICES ASSUME Init PROVE IInv
  OBVIOUS
<1>1. 0 \in Revisions
  BY BoundsAssumption DEF Revisions
<1>2. Idle \in Entry /\ Idle.pc = "idle" /\ Idle.read.rev = 0 /\ Idle.baseline.rev = 0
  BY <1>1 DEF Idle, Entry, Pc, Command, Image
<1>3. TypeOK
  <2>1. memory \in Image /\ proc \in [Procs -> Entry]
    BY <1>1, <1>2 DEF Init, Image
  <2>2. kills \in 0 .. MaxKills /\ commits \in Revisions
    BY <1>1, BoundsAssumption DEF Init
  <2>. QED BY <2>1, <2>2 DEF Init, TypeOK, Entry
<1>4. RevisionsCounted
  BY <1>2 DEF Init, RevisionsCounted
<1>5. HolderWorks /\ PublishesMemory
  BY <1>2 DEF Init, HolderWorks, PublishesMemory, Publishes, Held, Pc
<1>6. DamagedByPurge /\ CurrentIsComplete
  BY DEF Init, DamagedByPurge, CurrentIsComplete, Absent
<1>. QED BY <1>3, <1>4, <1>5, <1>6 DEF IInv

LEMMA StepOK == IInv /\ [Next]_vars => IInv'
BY TypedStep, HolderStep, PublishesStep, SoundStep DEF IInv, Typed, Sound

LEMMA Invariance == Spec => []IInv
BY InitOK, StepOK, PTL DEF Spec

(***************************************************************************)
(* Memory, the processes and the published files are always typed; in      *)
(* particular no revision overtakes the number of commits.                 *)
(***************************************************************************)
THEOREM TypeCorrect == Spec => []TypeOK
<1>1. IInv => TypeOK
  BY DEF IInv
<1>. QED BY <1>1, Invariance, PTL

(***************************************************************************)
(* CURRENT names a bundle with all its files, unless a purge is under way  *)
(* or died half way.                                                       *)
(***************************************************************************)
THEOREM CurrentBundleIsWhole == Spec => []CurrentIsComplete
<1>1. IInv => CurrentIsComplete
  BY DEF IInv
<1>. QED BY <1>1, Invariance, PTL

LEMMA ImmutableStep ==
  ASSUME IInv, [Next]_vars, NEW r \in Revisions, bundles[r] # Absent, bundles'[r] # bundles[r]
  PROVE  lock # Nobody /\ At(lock, "purge")
<1>1. ASSUME NEW p \in Procs, PurgeEntry(p)
      PROVE  lock # Nobody /\ At(lock, "purge")
  BY <1>1, NamesAssumption DEF PurgeEntry, IInv, HolderWorks, Held, Pc
<1>2. ASSUME NEW p \in Procs, Install(p)
      PROVE  FALSE
  BY <1>2 DEF Install, IInv, TypeOK
<1>3. ASSUME NEW p \in Procs, Works(p) \/ Kill(p), ~PurgeEntry(p), ~Install(p)
      PROVE  bundles' = bundles
  BY <1>3 DEF Works, Commit, ReadMemory, ReadRestored, SwitchCurrent, PublishFails, BeginForget,
              EndPurge, Forget, BeginRestore, Replace, Reapply, Rollback, Kill
<1>4. CASE TakeSnapshot \/ UNCHANGED vars
  BY <1>4 DEF TakeSnapshot, vars
<1>. QED BY <1>1, <1>2, <1>3, <1>4 DEF Next, Works

(***************************************************************************)
(* Only a purge, under the lock, changes a directory that is there.        *)
(***************************************************************************)
THEOREM OnlyPurgesChangeBundles == Spec => BundlesAreImmutable
<1>1. IInv /\ [Next]_vars =>
        [\A r \in Revisions :
            bundles[r] # Absent /\ bundles'[r] # bundles[r]
               => lock # Nobody /\ At(lock, "purge")]_vars
  BY ImmutableStep
<1>. QED BY <1>1, Invariance, PTL DEF Spec, BundlesAreImmutable

LEMMA SwitchStep ==
  ASSUME IInv, [Next]_vars, current' # current, current' # NoRevision
  PROVE  current' = memory.rev /\ bundles[current'].says = memory.says
<1>1. ASSUME NEW p \in Procs, SwitchCurrent(p)
      PROVE  current' = memory.rev /\ bundles[current'].says = memory.says
  BY <1>1 DEF SwitchCurrent, IInv, PublishesMemory, Publishes
<1>2. ASSUME NEW p \in Procs, Works(p) \/ Kill(p), ~SwitchCurrent(p)
      PROVE  current' \in {current, NoRevision}
  BY <1>2 DEF Works, Commit, ReadMemory, ReadRestored, Install, PublishFails, BeginForget,
              PurgeEntry, EndPurge, Forget, BeginRestore, Replace, Reapply, Rollback, Kill
<1>3. CASE TakeSnapshot \/ UNCHANGED vars
  BY <1>3 DEF TakeSnapshot, vars
<1>. QED BY <1>1, <1>2, <1>3 DEF Next, Works

(***************************************************************************)
(* CURRENT is only ever switched to what memory says at that moment.       *)
(***************************************************************************)
THEOREM SwitchesToMemory == Spec => NeverPublishesStale
<1>1. IInv /\ [Next]_vars =>
        [current' # current /\ current' # NoRevision
            => /\ current' = memory.rev
               /\ bundles[current'].says = memory.says]_vars
  BY SwitchStep
<1>. QED BY <1>1, Invariance, PTL DEF Spec, NeverPublishesStale
-----------------------------------------------------------------------------
(***************************************************************************)
(* Revisions that no restore takes back.                                   *)
(***************************************************************************)
UnrestoredNext == Next /\ \A p \in Procs : ~Replace(p)
UnrestoredSpec == Init /\ [][UnrestoredNext]_vars

\* Memory is at its last commit, and a directory says what that revision did.
OneTextEach ==
    /\ memory.rev = commits /\ memory.says = commits
    /\ \A r \in Revisions : bundles[r] # Absent => bundles[r].says = r

\* No restore gets past its baseline.
NoneRestored ==
    \A p \in Procs :
        /\ proc[p].pc \notin {"reapply", "compile", "rollback"}
        /\ proc[p].command = "restore" => proc[p].pc = "replace"

UInv == IInv /\ OneTextEach /\ NoneRestored

LEMMA NoneRestoredStep ==
  ASSUME UInv, [UnrestoredNext]_vars
  PROVE  NoneRestored'
<1>. USE DEF UInv, IInv
<1>1. ASSUME NEW p \in Procs, Works(p), ~Replace(p)
      PROVE  /\ proc'[p].pc \notin {"reapply", "compile", "rollback"}
             /\ proc'[p].command = "restore" => proc'[p].pc = "replace"
  <2>1. /\ proc[p].pc \notin {"reapply", "compile", "rollback"}
        /\ proc[p].command = "restore" => proc[p].pc = "replace"
    BY DEF NoneRestored
  <2>2. CASE Commit(p) \/ ReadMemory(p) \/ Install(p)
    BY <2>1, <2>2 DEF Commit, ReadMemory, Install, TypeOK
  <2>3. CASE SwitchCurrent(p) \/ PublishFails(p)
    BY <2>1, <2>3 DEF SwitchCurrent, PublishFails, TypeOK, Idle
  <2>4. CASE BeginForget(p) \/ PurgeEntry(p) \/ EndPurge(p) \/ Forget(p)
    BY <2>1, <2>4 DEF BeginForget, PurgeEntry, EndPurge, Forget, TypeOK
  <2>5. CASE BeginRestore(p)
    <3>1. PICK image \in saved :
            proc' = [proc EXCEPT ![p].pc = "replace", ![p].command = "restore",
                                 ![p].read = image, ![p].baseline = memory]
      BY <2>5 DEF BeginRestore
    <3>. QED BY <3>1 DEF TypeOK
  <2>6. ~ReadRestored(p) /\ ~Reapply(p) /\ ~Rollback(p)
    BY <2>1 DEF ReadRestored, Reapply, Rollback
  <2>. QED BY <1>1, <2>2, <2>3, <2>4, <2>5, <2>6 DEF Works
<1>2. ASSUME NEW p \in Procs, Works(p), ~Replace(p)
      PROVE  NoneRestored'
  BY <1>1, <1>2, OwnStep DEF NoneRestored
<1>3. ASSUME NEW p \in Procs, Kill(p)
      PROVE  NoneRestored'
  BY <1>3 DEF Kill, TypeOK, Idle, NoneRestored
<1>4. CASE TakeSnapshot \/ UNCHANGED vars
  BY <1>4 DEF TakeSnapshot, vars, NoneRestored
<1>. QED BY <1>2, <1>3, <1>4 DEF UnrestoredNext, Next, Works

LEMMA OneTextStep ==
  ASSUME UInv, [UnrestoredNext]_vars
  PROVE  OneTextEach'
<1>. USE DEF UInv, IInv
<1>1. /\ commits \in Nat
      /\ memory = [rev |-> memory.rev, says |-> memory.says]
      /\ memory.rev \in Revisions
      /\ bundles \in [Revisions -> Bundle \cup {Absent}]
  BY BoundsAssumption DEF TypeOK, Image, Revisions
<1>2. ASSUME Bump, UNCHANGED bundles
      PROVE  OneTextEach'
  BY <1>1, <1>2 DEF Bump, OneTextEach
<1>3. ASSUME NEW p \in Procs, Install(p)
      PROVE  OneTextEach'
  <2>1. proc[p].read = memory
    BY <1>3 DEF Install, PublishesMemory, Publishes
  <2>2. /\ bundles' = [bundles EXCEPT
              ![memory.rev] = IF @ = Absent THEN Whole(memory.says) ELSE @]
        /\ UNCHANGED <<memory, commits>>
    BY <1>3, <2>1 DEF Install
  <2>3. Whole(memory.says).says = memory.says
    BY DEF Whole
  <2>. QED BY <1>1, <2>2, <2>3 DEF OneTextEach
<1>4. ASSUME NEW p \in Procs, PurgeEntry(p)
      PROVE  OneTextEach'
  <2>1. UNCHANGED <<memory, commits>>
    BY <1>4 DEF PurgeEntry
  <2>2. CASE UNCHANGED bundles
    BY <2>1, <2>2 DEF OneTextEach
  <2>3. ASSUME NEW r \in Revisions, NEW b \in Shredded(bundles[r]), bundles[r] # Absent,
               bundles' = [bundles EXCEPT ![r] = b]
        PROVE  OneTextEach'
    <3>1. bundles[r] \in Bundle /\ bundles[r].says = r
      BY <1>1, <2>3 DEF OneTextEach
    <3>2. b = Absent \/ b.says = r
      BY <3>1 DEF Shredded, Bundle
    <3>. QED BY <1>1, <2>1, <2>3, <3>2 DEF OneTextEach
  <2>. QED BY <1>4, <2>2, <2>3 DEF PurgeEntry
<1>5. ASSUME NEW p \in Procs, Works(p), ~Replace(p), ~Install(p), ~PurgeEntry(p)
      PROVE  UNCHANGED bundles /\ (Bump \/ UNCHANGED <<memory, commits>>)
  <2>1. ~Rollback(p)
    BY DEF Rollback, NoneRestored
  <2>. QED BY <1>5, <2>1 DEF Works, Commit, ReadMemory, ReadRestored, SwitchCurrent, PublishFails,
                             BeginForget, EndPurge, Forget, BeginRestore, Reapply
<1>6. ASSUME UNCHANGED <<bundles, memory, commits>>
      PROVE  OneTextEach'
  BY <1>6 DEF OneTextEach
<1>7. ASSUME NEW p \in Procs, Kill(p)
      PROVE  UNCHANGED <<bundles, memory, commits>>
  BY <1>7 DEF Kill
<1>8. CASE TakeSnapshot \/ UNCHANGED vars
  BY <1>6, <1>8 DEF TakeSnapshot, vars
<1>. QED BY <1>2, <1>3, <1>4, <1>5, <1>6, <1>7, <1>8 DEF UnrestoredNext, Next, Works

(***************************************************************************)
(* What SameRevisionSameBundle needs: while no snapshot replaces memory, a *)
(* revision has one text, whatever is forgotten, purged or killed.         *)
(***************************************************************************)
THEOREM UnrestoredRevisionsHaveOneText == UnrestoredSpec => []SameRevisionSameBundle
<1>1. Init => UInv
  <2>1. Init => NoneRestored
    <3>1. Idle.pc = "idle" /\ Idle.command = "write"
      BY DEF Idle
    <3>. QED BY <3>1 DEF Init, NoneRestored
  <2>2. Init => OneTextEach
    BY DEF Init, OneTextEach
  <2>. QED BY <2>1, <2>2, InitOK DEF UInv
<1>2. UInv /\ [UnrestoredNext]_vars => UInv'
  BY StepOK, NoneRestoredStep, OneTextStep DEF UInv, UnrestoredNext
<1>3. UInv => SameRevisionSameBundle
  BY DEF UInv, IInv, TypeOK, Image, OneTextEach, SameRevisionSameBundle
<1>. QED BY <1>1, <1>2, <1>3, PTL DEF UnrestoredSpec
=============================================================================
