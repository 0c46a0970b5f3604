-------------------------- MODULE ForgetAndRestore --------------------------
(***************************************************************************)
(* Forgetting a claim and restoring a snapshot.  Four stores have to agree *)
(* and no transaction spans them: memory.sqlite3, the append-only ledger   *)
(* forgotten.jsonl, the managed snapshots and the published artifacts.     *)
(* `dream forget-claim`, `dream snapshot restore` and the nightly sink are *)
(* processes; each goes through its steps, others interleave wherever the  *)
(* maintenance lock of memory.sqlite3 is not held, and any of them may be  *)
(* killed between two steps.                                               *)
(*                                                                         *)
(* Facts are the values of one claim identity: a claim_exact entry of the  *)
(* ledger names one of them, a claim_identity entry all of them.           *)
(***************************************************************************)
EXTENDS Naturals, FiniteSets

CONSTANTS
    Facts,          \* values the claim may have
    Known,          \* those its approved versions have at the start
    Procs,          \* command processes (bound: so many at once)
    Nobody,         \* the lock is free
    SnapshotIds,    \* directory names of managed snapshots (bound: so many at once)
    NoSnapshot,
    NoImage,        \* what a snapshot id without a directory holds
    MaxMishaps      \* bound: processes killed and I/O errors

ASSUME FactsAssumption == Known \subseteq Facts
ASSUME NobodyAssumption == Nobody \notin Procs
ASSUME SnapshotsAssumption == NoSnapshot \notin SnapshotIds
ASSUME MishapsAssumption == MaxMishaps \in Nat

VARIABLES
    memory,         \* memory.sqlite3: the claims and the candidates in it
    ledger,         \* forgotten.jsonl: the latest status written for a fact
    snapshots,      \* snapshots[i]: the copy of memory.sqlite3 in snapshot i
    artifacts,      \* the facts in the bundle CURRENT points to
    lock,           \* holder of the maintenance lock of memory.sqlite3
    proc,           \* proc[p]: where process p is and what it remembers
    mishaps,        \* how many so far
    \* History: facts whose deletion was committed, facts Leo wrote again
    \* since, and whether memory came from a restore that did not reapply
    \* the ledger.
    gone,
    readded,
    unfiltered

vars == <<memory, ledger, snapshots, artifacts, lock, proc, mishaps, gone, readded, unfiltered>>

Image == [claims : SUBSET Facts, candidates : SUBSET Facts]

Idle == [pc |-> "idle", facts |-> {}, entries |-> {}, from |-> NoSnapshot,
         baseline |-> NoSnapshot, was |-> FALSE]

Forgetting == {"prepare", "delete", "mark", "purge", "snapshot", "publish"}
Restoring == {"operations", "memory", "reapply", "recompile", "rollback"}
Pc == Forgetting \cup Restoring \cup {"idle", "insert"}

Init ==
    /\ memory = [claims |-> Known, candidates |-> {}]
    /\ ledger = [f \in Facts |-> "none"]
    /\ snapshots = [i \in SnapshotIds |-> NoImage]
    /\ artifacts = Known
    /\ lock = Nobody
    /\ proc = [p \in Procs |-> Idle]
    /\ mishaps = 0
    /\ gone = {}
    /\ readded = {}
    /\ unfiltered = FALSE

At(p, pc) == proc[p].pc = pc
Goto(p, pc) == proc' = [proc EXCEPT ![p].pc = pc]
Ends(p) == proc' = [proc EXCEPT ![p] = Idle]

Taken == {i \in SnapshotIds : snapshots[i] # NoImage}

\* Directory names are unique: one is used again only when no process still
\* remembers the snapshot that had it.
FreeIds ==
    {i \in SnapshotIds \ Taken :
        \A p \in Procs : proc[p].pc \in Restoring => i \notin {proc[p].from, proc[p].baseline}}

\* effective_entries: pending entries suppress as much as applied ones.
Suppressed == {f \in Facts : ledger[f] # "none"}

Without(image, facts) ==
    [claims |-> image.claims \ facts, candidates |-> image.candidates \ facts]

-----------------------------------------------------------------------------
(***************************************************************************)
(* forget_claim.  In one memory transaction, so under the lock: purge the  *)
(* artifacts, append the pending entries (fsync), delete the rows, commit. *)
(* Then, without the lock: append the applied entries, purge the           *)
(* snapshots, take a new one, and publish.                                 *)
(***************************************************************************)
\* One entry per version, or one for the identity.
EntriesFor(wide) == IF wide THEN {Facts} ELSE {{f} : f \in memory.claims}

\* As if the artifacts were left for the next compilation to replace.
BeginForgetUnpurged(p, wide) ==
    /\ At(p, "idle")
    /\ lock = Nobody
    /\ memory.claims # {}
    /\ lock' = p
    /\ proc' = [proc EXCEPT ![p].pc = "prepare", ![p].entries = EntriesFor(wide),
                            ![p].facts = UNION EntriesFor(wide)]
    /\ UNCHANGED <<memory, ledger, snapshots, artifacts, mishaps, gone, readded, unfiltered>>

BeginForget(p, wide) ==
    /\ At(p, "idle")
    /\ lock = Nobody
    /\ memory.claims # {}
    /\ lock' = p
    /\ artifacts' = {}
    /\ proc' = [proc EXCEPT ![p].pc = "prepare", ![p].entries = EntriesFor(wide),
                            ![p].facts = UNION EntriesFor(wide)]
    /\ UNCHANGED <<memory, ledger, snapshots, mishaps, gone, readded, unfiltered>>

Append(entry, status) ==
    ledger' = [f \in Facts |-> IF f \in entry THEN status ELSE ledger[f]]

\* As if the loop over the versions ended after the first.
PrepareFirst(p) ==
    /\ At(p, "prepare")
    /\ \E entry \in proc[p].entries :
          /\ Append(entry, "pending")
          /\ Goto(p, "delete")
    /\ UNCHANGED <<memory, snapshots, artifacts, lock, mishaps, gone, readded, unfiltered>>

Prepare(p) ==
    /\ At(p, "prepare")
    /\ \E entry \in proc[p].entries :
          /\ Append(entry, "pending")
          /\ LET left == proc[p].entries \ {entry} IN
             proc' = [proc EXCEPT ![p].entries = left,
                                  ![p].pc = IF left = {} THEN "delete" ELSE "prepare"]
    /\ UNCHANGED <<memory, snapshots, artifacts, lock, mishaps, gone, readded, unfiltered>>

Delete(p) ==
    /\ At(p, "delete")
    /\ memory' = Without(memory, proc[p].facts)
    /\ gone' = gone \cup proc[p].facts
    /\ readded' = readded \ proc[p].facts
    /\ lock' = Nobody
    /\ Goto(p, "mark")
    /\ UNCHANGED <<ledger, snapshots, artifacts, mishaps, unfiltered>>

MarkApplied(p) ==
    /\ At(p, "mark")
    /\ Append(proc[p].facts, "applied")
    /\ Goto(p, "purge")
    /\ UNCHANGED <<memory, snapshots, artifacts, lock, mishaps, gone, readded, unfiltered>>

PurgeSnapshots(p) ==
    /\ At(p, "purge")
    /\ snapshots' = [i \in SnapshotIds |-> NoImage]
    /\ Goto(p, "snapshot")
    /\ UNCHANGED <<memory, ledger, artifacts, lock, mishaps, gone, readded, unfiltered>>

Snapshot(i) == snapshots' = [snapshots EXCEPT ![i] = memory]

NewSnapshot(p) ==
    /\ At(p, "snapshot")
    /\ \E i \in FreeIds : Snapshot(i)
    /\ Goto(p, "publish")
    /\ UNCHANGED <<memory, ledger, artifacts, lock, mishaps, gone, readded, unfiltered>>

\* compile_memory holds the lock while it reads and publishes.
Publish(p) ==
    /\ At(p, "publish")
    /\ lock = Nobody
    /\ artifacts' = memory.claims
    /\ Ends(p)
    /\ UNCHANGED <<memory, ledger, snapshots, lock, mishaps, gone, readded, unfiltered>>

-----------------------------------------------------------------------------
(***************************************************************************)
(* `dream snapshot restore` under the locks of both databases: snapshot    *)
(* the present state as a baseline, replace operations.sqlite3, replace    *)
(* memory.sqlite3, reapply the ledger, publish.                            *)
(***************************************************************************)
BeginRestore(p, i) ==
    /\ At(p, "idle")
    /\ lock = Nobody
    /\ i \in Taken
    /\ lock' = p
    /\ \E j \in FreeIds :
          /\ Snapshot(j)
          /\ proc' = [proc EXCEPT ![p].pc = "operations", ![p].from = i,
                                  ![p].baseline = j, ![p].was = unfiltered]
    /\ UNCHANGED <<memory, ledger, artifacts, mishaps, gone, readded, unfiltered>>

ReplaceOperations(p) ==
    /\ At(p, "operations")
    /\ proc[p].from \in Taken
    /\ Goto(p, "memory")
    /\ UNCHANGED <<memory, ledger, snapshots, artifacts, lock, mishaps, gone, readded, unfiltered>>

\* As if a snapshot that is gone were opened, and so created, all the same.
ReplaceMemoryUnchecked(p) ==
    /\ At(p, "memory")
    /\ memory' = snapshots[proc[p].from]
    /\ unfiltered' = TRUE
    /\ Goto(p, "reapply")
    /\ UNCHANGED <<ledger, snapshots, artifacts, lock, mishaps, gone, readded>>

ReplaceMemory(p) ==
    /\ At(p, "memory")
    /\ proc[p].from \in Taken
    /\ memory' = snapshots[proc[p].from]
    /\ unfiltered' = TRUE
    /\ Goto(p, "reapply")
    /\ UNCHANGED <<ledger, snapshots, artifacts, lock, mishaps, gone, readded>>

\* As if a pending entry were not in force yet.
ReapplyApplied(p) ==
    /\ At(p, "reapply")
    /\ memory' = Without(memory, {f \in Facts : ledger[f] = "applied"})
    /\ Goto(p, "recompile")
    /\ UNCHANGED <<ledger, snapshots, artifacts, lock, mishaps, gone, readded, unfiltered>>

\* apply_forgotten_ledger.
Reapply(p) ==
    /\ At(p, "reapply")
    /\ memory' = Without(memory, Suppressed)
    /\ Goto(p, "recompile")
    /\ UNCHANGED <<ledger, snapshots, artifacts, lock, mishaps, gone, readded, unfiltered>>

Recompile(p) ==
    /\ At(p, "recompile")
    /\ artifacts' = memory.claims
    /\ unfiltered' = FALSE
    /\ lock' = Nobody
    /\ Ends(p)
    /\ UNCHANGED <<memory, ledger, snapshots, mishaps, gone, readded>>

(***************************************************************************)
(* An error on the way restores both databases from the baseline and       *)
(* publishes, unless the baseline is gone.                                 *)
(***************************************************************************)
SnapshotGone(p) ==
    /\ At(p, "operations") \/ At(p, "memory")
    /\ proc[p].from \notin Taken
    /\ Goto(p, "rollback")
    /\ UNCHANGED <<memory, ledger, snapshots, artifacts, lock, mishaps, gone, readded, unfiltered>>

RestoreFails(p) ==
    /\ proc[p].pc \in Restoring \ {"rollback"}
    /\ mishaps < MaxMishaps
    /\ mishaps' = mishaps + 1
    /\ Goto(p, "rollback")
    /\ UNCHANGED <<memory, ledger, snapshots, artifacts, lock, gone, readded, unfiltered>>

Rollback(p) ==
    /\ At(p, "rollback")
    /\ proc[p].baseline \in Taken
    /\ memory' = snapshots[proc[p].baseline]
    /\ artifacts' = memory'.claims
    /\ unfiltered' = proc[p].was
    /\ lock' = Nobody
    /\ Ends(p)
    /\ UNCHANGED <<ledger, snapshots, mishaps, gone, readded>>

RollbackFails(p) ==
    /\ At(p, "rollback")
    /\ proc[p].baseline \notin Taken
    /\ lock' = Nobody
    /\ Ends(p)
    /\ UNCHANGED <<memory, ledger, snapshots, artifacts, mishaps, gone, readded, unfiltered>>

-----------------------------------------------------------------------------
(***************************************************************************)
(* Everything that writes facts back.  persist_candidates looks into the   *)
(* ledger first and inserts in a transaction of its own; apply_batch looks *)
(* into it inside its transaction; `dream review correct` does not look.   *)
(***************************************************************************)
CheckCandidate(p, f) ==
    /\ At(p, "idle")
    /\ f \notin Suppressed
    /\ proc' = [proc EXCEPT ![p].pc = "insert", ![p].facts = {f}]
    /\ UNCHANGED <<memory, ledger, snapshots, artifacts, lock, mishaps, gone, readded, unfiltered>>

InsertCandidate(p) ==
    /\ At(p, "insert")
    /\ lock = Nobody
    /\ memory' = [memory EXCEPT !.candidates = @ \cup proc[p].facts]
    /\ Ends(p)
    /\ UNCHANGED <<ledger, snapshots, artifacts, lock, mishaps, gone, readded, unfiltered>>

Approve(f) ==
    /\ lock = Nobody
    /\ f \in memory.candidates \ Suppressed
    /\ memory' = [memory EXCEPT !.claims = @ \cup {f}]
    /\ UNCHANGED <<ledger, snapshots, artifacts, lock, proc, mishaps, gone, readded, unfiltered>>

\* It needs a proposal about the claim: for a candidate, or for a version.
Correct(f) ==
    /\ lock = Nobody
    /\ memory.claims \cup memory.candidates # {}
    /\ memory' = [memory EXCEPT !.claims = @ \cup {f}]
    /\ readded' = readded \cup {f}
    /\ UNCHANGED <<ledger, snapshots, artifacts, lock, proc, mishaps, gone, unfiltered>>

\* `dream compile` and the last step of every review command.
Compile ==
    /\ lock = Nobody
    /\ artifacts' = memory.claims
    /\ UNCHANGED <<memory, ledger, snapshots, lock, proc, mishaps, gone, readded, unfiltered>>

\* `dream snapshot create` takes no lock.
TakeSnapshot(i) ==
    /\ i \in FreeIds
    /\ Snapshot(i)
    /\ UNCHANGED <<memory, ledger, artifacts, lock, proc, mishaps, gone, readded, unfiltered>>

\* SIGKILL or a power cut: the lock goes with the process, an uncommitted
\* transaction is rolled back.
Kill(p) ==
    /\ ~At(p, "idle")
    /\ mishaps < MaxMishaps
    /\ mishaps' = mishaps + 1
    /\ lock' = IF lock = p THEN Nobody ELSE lock
    /\ Ends(p)
    /\ UNCHANGED <<memory, ledger, snapshots, artifacts, gone, readded, unfiltered>>

Forget(p) ==
    \/ \E wide \in BOOLEAN : BeginForget(p, wide)
    \/ Prepare(p) \/ Delete(p) \/ MarkApplied(p)
    \/ PurgeSnapshots(p) \/ NewSnapshot(p) \/ Publish(p)

Restore(p) ==
    \/ \E i \in SnapshotIds : BeginRestore(p, i)
    \/ ReplaceOperations(p) \/ ReplaceMemory(p) \/ Reapply(p) \/ Recompile(p)
    \/ SnapshotGone(p) \/ RestoreFails(p) \/ Rollback(p) \/ RollbackFails(p)

Learn(p) == (\E f \in Facts : CheckCandidate(p, f)) \/ InsertCandidate(p)

Next ==
    \/ \E p \in Procs : Forget(p) \/ Restore(p) \/ Learn(p) \/ Kill(p)
    \/ \E f \in Facts : Approve(f) \/ Correct(f)
    \/ \E i \in SnapshotIds : TakeSnapshot(i)
    \/ Compile

Spec == Init /\ [][Next]_vars

-----------------------------------------------------------------------------
TypeOK ==
    /\ memory \in Image
    /\ ledger \in [Facts -> {"none", "pending", "applied"}]
    /\ snapshots \in [SnapshotIds -> Image \cup {NoImage}]
    /\ artifacts \in SUBSET Facts
    /\ lock \in Procs \cup {Nobody}
    /\ proc \in [Procs -> [pc : Pc, facts : SUBSET Facts, entries : SUBSET SUBSET Facts,
                           from : SnapshotIds \cup {NoSnapshot},
                           baseline : SnapshotIds \cup {NoSnapshot},
                           was : BOOLEAN]]
    /\ mishaps \in 0 .. MaxMishaps
    /\ gone \in SUBSET Facts
    /\ readded \in SUBSET Facts
    /\ unfiltered \in BOOLEAN

(***************************************************************************)
(* No fact leaves memory unless the ledger says so already: whoever dies   *)
(* wherever, every deletion that was committed will be found by a later    *)
(* restore and by every reader.  (A restore replaces the whole database.)  *)
(***************************************************************************)
LedgerBeforeDeletion ==
    [][\A f \in memory.claims \ memory'.claims :
          \/ ledger[f] # "none"
          \/ lock # Nobody /\ proc[lock].pc \in Restoring]_vars

(***************************************************************************)
(* A forgotten claim is back neither in memory nor in the published        *)
(* artifacts, whatever snapshot is restored, and whatever was killed       *)
(* before, unless Leo wrote it again or a restore was left unfinished.     *)
(***************************************************************************)
ForgottenStaysGone ==
    ~unfiltered =>
        (gone \ readded) \cap (memory.claims \cup artifacts) = {}

(***************************************************************************)
(* While a command forgets a fact no bundle contains it: the artifacts are *)
(* purged first and nobody can publish before the deletion is committed.   *)
(***************************************************************************)
NotPublishedWhileForgotten ==
    \A p \in Procs :
        proc[p].pc \in {"prepare", "delete"} => proc[p].facts \cap artifacts = {}

(***************************************************************************)
(* What the documents say and the code does not do.                        *)
(*                                                                         *)
(* After a restore the ledger is applied first: no published artifact      *)
(* brings back a forgotten claim that Leo did not write again.             *)
(***************************************************************************)
NothingForgottenPublished == (gone \ readded) \cap artifacts = {}
=============================================================================
