-------------------------- MODULE ArtifactBundles --------------------------
(***************************************************************************)
(* The published artifacts: bundle directories r<revision>, which are      *)
(* immutable, and the file CURRENT, which names one of them.  Commands     *)
(* that commit to memory.sqlite3 compile afterwards; forgetting purges the *)
(* directory tree entry by entry; restoring a snapshot takes the revision  *)
(* counter back.  A process may be killed between any two file operations. *)
(*                                                                         *)
(* What a bundle says is a number: that of the commit it was compiled      *)
(* from, since CHANGELOG.md lists every revision with its time and so no   *)
(* two commits compile to the same files.                                  *)
(***************************************************************************)
EXTENDS Integers

CONSTANTS
    Procs,          \* command processes (bound: so many at once)
    Nobody,         \* the maintenance lock is free
    NoRevision,     \* there is no file CURRENT
    MaxCommits,     \* bound: commits
    MaxKills        \* bound: processes killed

ASSUME NamesAssumption == Nobody \notin Procs /\ NoRevision \notin Nat
ASSUME BoundsAssumption == MaxCommits \in Nat /\ MaxKills \in Nat

VARIABLES
    memory,         \* memory.sqlite3: its memory_revision and what it says
    commits,        \* how many commits there were in all
    saved,          \* the managed snapshots of memory
    forgot,         \* forgotten.jsonl has entries
    bundles,        \* bundles[r]: the directory of revision r
    current,        \* the revision CURRENT names
    lock,           \* holder of the maintenance lock of memory.sqlite3
    proc,           \* proc[p]: where process p is and what it has read
    kills,          \* how many so far
    interrupted     \* history: a purge died and none was completed since

vars == <<memory, commits, saved, forgot, bundles, current, lock, proc, kills, interrupted>>

Revisions == 0 .. MaxCommits

Image == [rev : Revisions, says : Revisions]

\* A directory without its manifest is bare, with it but without some other
\* file it is partial.
Bundle == [says : Revisions, state : {"whole", "partial", "bare"}]

Absent == [says |-> 0, state |-> "absent"]

Whole(says) == [says |-> says, state |-> "whole"]

Pc == {"idle", "written", "install", "switch", "purge", "forget",
       "replace", "reapply", "compile", "rollback"}

\* The command of a process decides what an error while publishing means.
Command == {"write", "restore", "undo"}

Idle == [pc |-> "idle", command |-> "write", read |-> [rev |-> 0, says |-> 0],
         baseline |-> [rev |-> 0, says |-> 0]]

Init ==
    /\ memory = [rev |-> 0, says |-> 0]
    /\ commits = 0
    /\ saved = {}
    /\ forgot = FALSE
    /\ bundles = [r \in Revisions |-> Absent]
    /\ current = NoRevision
    /\ lock = Nobody
    /\ proc = [p \in Procs |-> Idle]
    /\ kills = 0
    /\ interrupted = FALSE

At(p, pc) == proc[p].pc = pc
Goto(p, pc) == proc' = [proc EXCEPT ![p].pc = pc]
Ends(p) == proc' = [proc EXCEPT ![p] = Idle] /\ lock' = Nobody

-----------------------------------------------------------------------------
\* As if the revision were bumped for the batch and again for its version.
BumpTwice ==
    /\ commits < MaxCommits
    /\ commits' = commits + 1
    /\ memory' = [rev |-> memory.rev + 2, says |-> commits + 1]

\* bump_memory_revision, in the transaction of whatever is committed.
Bump ==
    /\ commits < MaxCommits
    /\ commits' = commits + 1
    /\ memory' = [rev |-> memory.rev + 1, says |-> commits + 1]

\* apply_batch, add_claim_version and set_claim_pin.
Commit(p) ==
    /\ At(p, "idle")
    /\ lock = Nobody
    /\ Bump
    /\ Goto(p, "written")
    /\ UNCHANGED <<saved, forgot, bundles, current, lock, kills, interrupted>>

(***************************************************************************)
(* compile_memory reads the database and publishes under one hold of the   *)
(* lock, after a commit or (`dream init`) without one.  A restore compiles *)
(* under the hold it has.                                                  *)
(***************************************************************************)
\* As if compile_memory took no lock.
ReadMemoryUnlocked(p) ==
    /\ At(p, "idle") \/ At(p, "written")
    /\ proc' = [proc EXCEPT ![p].pc = "install", ![p].read = memory]
    /\ UNCHANGED <<memory, commits, saved, forgot, bundles, current, lock, kills, interrupted>>

ReadMemory(p) ==
    /\ At(p, "idle") \/ At(p, "written")
    /\ lock = Nobody
    /\ lock' = p
    /\ proc' = [proc EXCEPT ![p].pc = "install", ![p].read = memory]
    /\ UNCHANGED <<memory, commits, saved, forgot, bundles, current, kills, interrupted>>

ReadRestored(p) ==
    /\ At(p, "compile")
    /\ proc' = [proc EXCEPT ![p].pc = "install", ![p].read = memory]
    /\ UNCHANGED <<memory, commits, saved, forgot, bundles, current, lock, kills, interrupted>>

(***************************************************************************)
(* publish_bundle.  The bundle is written to .staging, where nobody looks, *)
(* and renamed; a directory of that name is kept if it has a manifest and  *)
(* the manifest is the same, and is an error otherwise.                    *)
(***************************************************************************)
Fits(p) ==
    LET there == bundles[proc[p].read.rev] IN
    \/ there = Absent
    \/ there.state \in {"whole", "partial"} /\ there.says = proc[p].read.says

\* As if the staged directory replaced whatever is there.
InstallOver(p) ==
    /\ At(p, "install")
    /\ bundles' = [bundles EXCEPT ![proc[p].read.rev] = Whole(proc[p].read.says)]
    /\ Goto(p, "switch")
    /\ UNCHANGED <<memory, commits, saved, forgot, current, lock, kills, interrupted>>

Install(p) ==
    /\ At(p, "install")
    /\ Fits(p)
    /\ bundles' = [bundles EXCEPT
          ![proc[p].read.rev] = IF @ = Absent THEN Whole(proc[p].read.says) ELSE @]
    /\ Goto(p, "switch")
    /\ UNCHANGED <<memory, commits, saved, forgot, current, lock, kills, interrupted>>

SwitchCurrent(p) ==
    /\ At(p, "switch")
    /\ current' = proc[p].read.rev
    /\ Ends(p)
    /\ UNCHANGED <<memory, commits, saved, forgot, bundles, kills, interrupted>>

\* ArtifactPublishError: a write stays committed, a restore is undone.
PublishFails(p) ==
    /\ At(p, "install")
    /\ ~Fits(p)
    /\ IF proc[p].command = "restore"
       THEN Goto(p, "rollback") /\ UNCHANGED lock
       ELSE Ends(p)
    /\ UNCHANGED <<memory, commits, saved, forgot, bundles, current, kills, interrupted>>

-----------------------------------------------------------------------------
(***************************************************************************)
(* _purge_artifacts removes the entries in directory order, a directory    *)
(* file by file.  It is the first thing a forget does in its transaction.  *)
(***************************************************************************)
BeginForget(p) ==
    /\ At(p, "idle")
    /\ lock = Nobody
    /\ memory.rev > 0
    /\ lock' = p
    /\ Goto(p, "purge")
    /\ UNCHANGED <<memory, commits, saved, forgot, bundles, current, kills, interrupted>>

Shredded(bundle) ==
    CASE bundle.state = "whole"   -> {[bundle EXCEPT !.state = s] : s \in {"partial", "bare"}}
      [] bundle.state = "partial" -> {[bundle EXCEPT !.state = "bare"]}
      [] OTHER                    -> {Absent}

PurgeEntry(p) ==
    /\ At(p, "purge")
    /\ \/ /\ current # NoRevision
          /\ current' = NoRevision
          /\ UNCHANGED bundles
       \/ /\ \E r \in Revisions :
                /\ bundles[r] # Absent
                /\ \E b \in Shredded(bundles[r]) : bundles' = [bundles EXCEPT ![r] = b]
          /\ UNCHANGED current
    /\ UNCHANGED <<memory, commits, saved, forgot, lock, proc, kills, interrupted>>

\* As if the purge removed directories only.
NothingLeftButFiles == \A r \in Revisions : bundles[r] = Absent

NothingLeft == current = NoRevision /\ \A r \in Revisions : bundles[r] = Absent

EndPurge(p) ==
    /\ At(p, "purge")
    /\ NothingLeft
    /\ interrupted' = FALSE
    /\ forgot' = TRUE
    /\ Goto(p, "forget")
    /\ UNCHANGED <<memory, commits, saved, bundles, current, lock, kills>>

\* The deletion is committed and the snapshots are replaced by a new one: one
\* step here, and the steps that they are in ForgetAndRestore.
Forget(p) ==
    /\ At(p, "forget")
    /\ Bump
    /\ saved' = {memory'}
    /\ lock' = Nobody
    /\ Goto(p, "written")
    /\ UNCHANGED <<forgot, bundles, current, kills, interrupted>>

-----------------------------------------------------------------------------
\* `dream snapshot create`.
TakeSnapshot ==
    /\ saved' = saved \cup {memory}
    /\ UNCHANGED <<memory, commits, forgot, bundles, current, lock, proc, kills, interrupted>>

(***************************************************************************)
(* `dream snapshot restore`, all of it under the lock.                     *)
(***************************************************************************)
BeginRestore(p) ==
    /\ At(p, "idle")
    /\ lock = Nobody
    /\ lock' = p
    /\ \E image \in saved :
          proc' = [proc EXCEPT ![p].pc = "replace", ![p].command = "restore",
                               ![p].read = image, ![p].baseline = memory]
    /\ saved' = saved \cup {memory}
    /\ UNCHANGED <<memory, commits, forgot, bundles, current, kills, interrupted>>

Replace(p) ==
    /\ At(p, "replace")
    /\ memory' = proc[p].read
    /\ Goto(p, "reapply")
    /\ UNCHANGED <<commits, saved, forgot, bundles, current, lock, kills, interrupted>>

\* The ledger may or may not find something to delete in the snapshot.
Reapply(p) ==
    /\ At(p, "reapply")
    /\ \/ UNCHANGED <<memory, commits>>
       \/ forgot /\ Bump
    /\ Goto(p, "compile")
    /\ UNCHANGED <<saved, forgot, bundles, current, lock, kills, interrupted>>

Rollback(p) ==
    /\ At(p, "rollback")
    /\ memory' = proc[p].baseline
    /\ proc' = [proc EXCEPT ![p].pc = "compile", ![p].command = "undo"]
    /\ UNCHANGED <<commits, saved, forgot, bundles, current, lock, kills, interrupted>>

\* SIGKILL or a power cut; an uncommitted transaction is rolled back.
Kill(p) ==
    /\ ~At(p, "idle")
    /\ kills < MaxKills
    /\ kills' = kills + 1
    /\ interrupted' = (interrupted \/ At(p, "purge"))
    /\ lock' = IF lock = p THEN Nobody ELSE lock
    /\ proc' = [proc EXCEPT ![p] = Idle]
    /\ UNCHANGED <<memory, commits, saved, forgot, bundles, current>>

Next ==
    \/ \E p \in Procs :
          \/ Commit(p) \/ ReadMemory(p) \/ ReadRestored(p)
          \/ Install(p) \/ SwitchCurrent(p) \/ PublishFails(p)
          \/ BeginForget(p) \/ PurgeEntry(p) \/ EndPurge(p) \/ Forget(p)
          \/ BeginRestore(p) \/ Replace(p) \/ Reapply(p) \/ Rollback(p)
          \/ Kill(p)
    \/ TakeSnapshot

Spec == Init /\ [][Next]_vars

-----------------------------------------------------------------------------
TypeOK ==
    /\ memory \in Image
    /\ commits \in Revisions
    /\ saved \in SUBSET Image
    /\ forgot \in BOOLEAN
    /\ bundles \in [Revisions -> Bundle \cup {Absent}]
    /\ current \in Revisions \cup {NoRevision}
    /\ lock \in Procs \cup {Nobody}
    /\ proc \in [Procs -> [pc : Pc, command : Command, read : Image, baseline : Image]]
    /\ kills \in 0 .. MaxKills
    /\ interrupted \in BOOLEAN

(***************************************************************************)
(* CURRENT names a bundle with all its files, through kills at any point   *)
(* of publishing, except while artifacts are being purged or after a purge *)
(* died half way.                                                          *)
(***************************************************************************)
CurrentIsComplete ==
    current # NoRevision =>
        \/ bundles[current].state = "whole"
        \/ \E p \in Procs : At(p, "purge")
        \/ interrupted

(***************************************************************************)
(* A bundle that was published is never changed: whichever revision a      *)
(* commit or a restore arrives at, only a purge touches an existing one.   *)
(***************************************************************************)
BundlesAreImmutable ==
    [][\A r \in Revisions :
         bundles[r] # Absent /\ bundles'[r] # bundles[r]
            => lock # Nobody /\ At(lock, "purge")]_vars

(***************************************************************************)
(* CURRENT is switched only to what memory says at that moment: a compiler *)
(* that read an older state cannot publish after a newer commit, a forget  *)
(* or a restore, nor take an old bundle of the same revision for its own.  *)
(***************************************************************************)
NeverPublishesStale ==
    [][current' # current /\ current' # NoRevision
         => /\ current' = memory.rev
            /\ bundles[current'].says = memory.says]_vars

(***************************************************************************)
(* What the documents say and the code does not do: a canonical revision   *)
(* has one text, so whatever bundle exists under the present revision is   *)
(* the one memory compiles to.                                             *)
(***************************************************************************)
SameRevisionSameBundle ==
    bundles[memory.rev] # Absent => bundles[memory.rev].says = memory.says
=============================================================================
