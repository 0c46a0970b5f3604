---------------------------- MODULE IngestCursor ----------------------------
(***************************************************************************)
(* `dream ingest --adapter codex-session`: one session file, written line  *)
(* by line by Codex, is read in bounded batches.  A batch goes to          *)
(* memory.sqlite3 one transaction per source, event and observation, and   *)
(* only then does the cursor in operations.sqlite3 move past it.  No lock  *)
(* spans an ingest, so several may run at once, and a source may be        *)
(* forgotten, a snapshot taken or restored, and an ingest killed between   *)
(* any two steps.                                                          *)
(*                                                                         *)
(* Bytes are counted in half records: record k fills 2k-1 and 2k, an odd   *)
(* size is a file whose last line is half written.                         *)
(*                                                                         *)
(* Reading a line changes nothing but the reader's own variables, so the   *)
(* lines of one scan are read one after the other, with no step of anyone  *)
(* else between; the steps that persist what was read interleave.          *)
(***************************************************************************)
EXTENDS Naturals, Sequences, FiniteSets

CONSTANTS
    Sources,        \* one for each source kind of the session
    Families,       \* the texts (with their role)
    Times,          \* seconds
    Items,          \* item and call ids
    Contents,       \* what the file may come to hold (bound: their lengths)
    Ingesters,      \* ingest processes (bound: so many at once)
    BatchSize,      \* max_extracted_records_per_file
    MaxMishaps,     \* bound: kills, half lines, new files, snapshots, forgettings
    Nothing         \* no cursor, no previous record, no source

Kinds == {"event",      \* a user message, a final answer, a tool result
          "long",       \* such a record that takes room in a batch and gives no
                        \* event: more than max_content_chars, or no timestamp
          "huge",       \* with more than max_extracted_chars_per_file
          "oversized",  \* a line of more than max_record_bytes
          "skip"}       \* session_meta, reasoning, malformed

Identity == [source : Sources, family : Families, time : Times, item : Items]
Record == [kind : Kinds, id : Identity]

ASSUME TimesAssumption == Times \subseteq Nat
ASSUME ContentsAssumption == Contents \subseteq Seq(Record)
ASSUME BatchSizeAssumption == BatchSize \in Nat \ {0}
ASSUME MishapsAssumption == MaxMishaps \in Nat

VARIABLES
    content,        \* the records of the file, those not written yet included
    written,        \* its size
    inode,          \* its identity
    memory,         \* memory.sqlite3: sources, events, collapsed observations
    ledger,         \* forgotten.jsonl: the sources forgotten
    cursor,         \* operations.sqlite3: the cursor of the file
    snapshot,       \* the managed snapshot, or the half of one
    proc,           \* proc[p]: where ingest p is and what it has read
    mishaps,
    \* History: records whose first half was taken for a line, sources
    \* forgotten between the check of the ledger and create_source, and
    \* whether a restore paired a cursor with the memory of another moment.
    torn,
    slipped,
    spoiled

vars == <<content, written, inode, memory, ledger, cursor, snapshot, proc, mishaps,
          torn, slipped, spoiled>>

file == <<content, written, inode>>
history == <<torn, slipped, spoiled>>

Observation == [of : Identity, number : Nat, representative : Identity]
Image == [sources : SUBSET Sources, events : SUBSET Identity, observed : SUBSET Observation]

\* adjacent_primary_state: by lineage (a source and its role), the last
\* observation of it and the event that stands for it.
Previous == [family : Families, time : Times, representative : Identity]
Position == [inode : Nat, offset : Nat, number : Nat, discarding : BOOLEAN,
             adjacent : [Sources -> Previous \cup {Nothing}], sources : SUBSET Sources]

\* As if a file without a cursor had no record number to start from.
StartUnnumbered(i) ==
    [inode |-> i, offset |-> 0, number |-> Nothing, discarding |-> FALSE,
     adjacent |-> [s \in Sources |-> Nothing], sources |-> {}]

Start(i) == [inode |-> i, offset |-> 0, number |-> 0, discarding |-> FALSE,
             adjacent |-> [s \in Sources |-> Nothing], sources |-> {}]

Idle == [pc |-> "idle", at |-> Start(0), streamed |-> FALSE,
         consumed |-> FALSE, batch |-> 0, seen |-> {}, events |-> <<>>, observed |-> <<>>,
         kept |-> {}, suppressed |-> {}, cleared |-> Nothing]

NoImage == [sources |-> {}, events |-> {}, observed |-> {}]
NoSnapshot == [stage |-> "none", memory |-> NoImage, cursor |-> Nothing,
               cut |-> FALSE, restored |-> FALSE]

Init ==
    /\ content \in Contents
    /\ written = 0
    /\ inode = 1
    /\ memory = NoImage
    /\ ledger = {}
    /\ cursor = Nothing
    /\ snapshot = NoSnapshot
    /\ proc = [p \in Ingesters |-> Idle]
    /\ mishaps = 0
    /\ torn = {}
    /\ slipped = {}
    /\ spoiled = FALSE

-----------------------------------------------------------------------------
(***************************************************************************)
(* Codex appends to the file; a reader may see half a line.  The file may  *)
(* also be put in place again, under another inode.                        *)
(***************************************************************************)
WriteLine ==
    /\ written < 2 * Len(content)
    /\ written' = 2 * (written \div 2) + 2
    /\ UNCHANGED <<content, inode, memory, ledger, cursor, snapshot, proc, mishaps, history>>

WriteHalf ==
    /\ written < 2 * Len(content)
    /\ written % 2 = 0
    /\ mishaps < MaxMishaps
    /\ mishaps' = mishaps + 1
    /\ written' = written + 1
    /\ UNCHANGED <<content, inode, memory, ledger, cursor, snapshot, proc, history>>

ReplaceFile ==
    /\ mishaps < MaxMishaps
    /\ mishaps' = mishaps + 1
    /\ inode' = inode + 1
    /\ UNCHANGED <<content, written, memory, ledger, cursor, snapshot, proc, history>>

-----------------------------------------------------------------------------
(***************************************************************************)
(* scan: the cursor is loaded, the file opened and its size taken.         *)
(***************************************************************************)
\* _cursor_matches_file (the hash of the prefix follows from the content)
Matches(c) == c # Nothing /\ c.inode = inode /\ c.offset <= written

AtEof == Matches(cursor) /\ ~cursor.discarding /\ cursor.offset >= written

\* Only the descriptors of the file are registered again.
OpenAtEof(p) ==
    /\ proc[p].pc = "idle"
    /\ AtEof
    /\ proc' = [proc EXCEPT ![p] = [Idle EXCEPT !.pc = "persisting", !.at = cursor]]
    /\ UNCHANGED <<file, memory, ledger, cursor, snapshot, mishaps, history>>

\* As if of the cursor only the offset came back.
OpenAnyway(p) ==
    /\ proc[p].pc = "idle"
    /\ ~AtEof
    /\ proc' = [proc EXCEPT ![p] =
            [Idle EXCEPT !.pc = "reading", !.streamed = TRUE,
                         !.at = IF cursor # Nothing
                                THEN [Start(inode) EXCEPT !.offset = cursor.offset]
                                ELSE Start(inode)]]
    /\ UNCHANGED <<file, memory, ledger, cursor, snapshot, mishaps, history>>

Open(p) ==
    /\ proc[p].pc = "idle"
    /\ ~AtEof
    /\ proc' = [proc EXCEPT ![p] =
            [Idle EXCEPT !.pc = "reading", !.streamed = TRUE,
                         !.at = IF Matches(cursor) THEN cursor ELSE Start(inode)]]
    /\ UNCHANGED <<file, memory, ledger, cursor, snapshot, mishaps, history>>

-----------------------------------------------------------------------------
(***************************************************************************)
(* _stream_file and _parse_records, one step for each line.                *)
(***************************************************************************)
Line(at) == at.offset \div 2 + 1
Here(p) == content[Line(proc[p].at)]

Reading(p) == proc[p].pc = "reading" /\ proc[p].at.offset < written
AtLine(p) == Reading(p) /\ proc[p].at.offset % 2 = 0
WholeLine(p) == AtLine(p) /\ written >= proc[p].at.offset + 2

Reads(p, halves, at) ==
    [proc[p] EXCEPT !.consumed = TRUE,
                    !.at = [at EXCEPT !.offset = @ + halves, !.number = @ + 1]]

\* The last line has no newline yet but is taken for complete: it does not
\* parse, or it is too large already.
ReadTorn(p) ==
    /\ AtLine(p)
    /\ written = proc[p].at.offset + 1
    /\ \E large \in IF Here(p).kind = "oversized" THEN BOOLEAN ELSE {FALSE} :
          proc' = [proc EXCEPT ![p] = Reads(p, 1, [proc[p].at EXCEPT !.discarding = large])]
    /\ UNCHANGED <<file, memory, ledger, cursor, snapshot, mishaps, history>>

\* What is left of a torn line is read as a line of its own.
ReadRest(p) ==
    /\ Reading(p)
    /\ proc[p].at.offset % 2 = 1
    /\ ~proc[p].at.discarding
    /\ proc' = [proc EXCEPT ![p] = Reads(p, 1, proc[p].at)]
    /\ UNCHANGED <<file, memory, ledger, cursor, snapshot, mishaps, history>>

ReadOversized(p) ==
    /\ WholeLine(p)
    /\ Here(p).kind = "oversized"
    /\ proc' = [proc EXCEPT ![p] = Reads(p, 1, [proc[p].at EXCEPT !.discarding = TRUE])]
    /\ UNCHANGED <<file, memory, ledger, cursor, snapshot, mishaps, history>>

Discard(p) ==
    /\ Reading(p)
    /\ proc[p].at.discarding
    /\ proc' = [proc EXCEPT ![p].at.offset = @ + 1, ![p].at.discarding = FALSE,
                            ![p].consumed = TRUE]
    /\ UNCHANGED <<file, memory, ledger, cursor, snapshot, mishaps, history>>

ReadSkipped(p) ==
    /\ WholeLine(p)
    /\ Here(p).kind = "skip"
    /\ proc' = [proc EXCEPT ![p] = Reads(p, 2, proc[p].at)]
    /\ UNCHANGED <<file, memory, ledger, cursor, snapshot, mishaps, history>>

Relevant(p) == WholeLine(p) /\ Here(p).kind \in {"event", "long", "huge"}
Fits(p) == proc[p].batch < BatchSize /\ Here(p).kind # "huge"

\* As if the stream were not taken back to the start of the line.
DeferPast(p) ==
    /\ Relevant(p)
    /\ ~Fits(p)
    /\ proc' = [proc EXCEPT ![p].pc = "persisting", ![p].at.offset = @ + 2]
    /\ UNCHANGED <<file, memory, ledger, cursor, snapshot, mishaps, history>>

\* The record does not fit into the batch and waits for the next one.
Defer(p) ==
    /\ Relevant(p)
    /\ ~Fits(p)
    /\ proc' = [proc EXCEPT ![p].pc = "persisting"]
    /\ UNCHANGED <<file, memory, ledger, cursor, snapshot, mishaps, history>>

ReadLong(p) ==
    /\ Relevant(p)
    /\ Fits(p)
    /\ Here(p).kind = "long"
    /\ proc' = [proc EXCEPT ![p] = [Reads(p, 2, proc[p].at) EXCEPT !.batch = @ + 1]]
    /\ UNCHANGED <<file, memory, ledger, cursor, snapshot, mishaps, history>>

\* _is_adjacent_duplicate: same text as the one before it in its lineage,
\* at most a second later.
IsDuplicate(previous, id) ==
    /\ previous # Nothing
    /\ previous.family = id.family
    /\ previous.time <= id.time
    /\ id.time <= previous.time + 1

IsEvent(p) == Relevant(p) /\ Fits(p) /\ Here(p).kind = "event"

Alike(a, b) == a.source = b.source /\ a.family = b.family /\ a.time = b.time

\* A record like one of the same batch is left out, but it is the one that
\* later duplicates refer to.
ReadNew(p) ==
    LET id == Here(p).id
        at == [proc[p].at EXCEPT
                  !.adjacent[id.source] = [family |-> id.family, time |-> id.time,
                                           representative |-> id],
                  !.sources = @ \cup {id.source}]
        known == \E e \in proc[p].seen : Alike(e, id) IN
    /\ IsEvent(p)
    /\ ~IsDuplicate(proc[p].at.adjacent[id.source], id)
    /\ proc' = [proc EXCEPT ![p] =
            [Reads(p, 2, at) EXCEPT !.batch = @ + 1,
                                    !.seen = @ \cup {id},
                                    !.events = IF known THEN @ ELSE Append(@, id)]]
    /\ UNCHANGED <<file, memory, ledger, cursor, snapshot, mishaps, history>>

ReadDuplicate(p) ==
    LET id == Here(p).id
        previous == proc[p].at.adjacent[id.source]
        at == [proc[p].at EXCEPT !.adjacent[id.source].time = id.time,
                                 !.sources = @ \cup {id.source}] IN
    /\ IsEvent(p)
    /\ IsDuplicate(previous, id)
    /\ proc' = [proc EXCEPT ![p] =
            [Reads(p, 2, at) EXCEPT
                !.batch = @ + 1,
                !.observed = Append(@, [of |-> id, number |-> proc[p].at.number + 1,
                                        representative |-> previous.representative])]]
    /\ UNCHANGED <<file, memory, ledger, cursor, snapshot, mishaps, history>>

\* The end of the file as it was when opened, or one of the limits on bytes,
\* records and time, which leave room for one line at least.
StopReading(p) ==
    /\ proc[p].pc = "reading"
    /\ Reading(p) => proc[p].consumed
    /\ proc' = [proc EXCEPT ![p].pc = "persisting"]
    /\ UNCHANGED <<file, memory, ledger, cursor, snapshot, mishaps, history>>

-----------------------------------------------------------------------------
(***************************************************************************)
(* _persist_scan_result: sources, events, observations, then the cursor.   *)
(* An exception ends the ingest and leaves the cursor where it was.        *)
(***************************************************************************)
Persisting(p) == proc[p].pc = "persisting"
Unchecked(p) == proc[p].at.sources \ (proc[p].kept \cup proc[p].suppressed)
Registered(p) == Persisting(p) /\ Unchecked(p) = {}

CheckSource(p) ==
    LET s == CHOOSE s \in Sources : s \in Unchecked(p) IN
    /\ Persisting(p)
    /\ proc[p].cleared = Nothing
    /\ Unchecked(p) # {}
    /\ proc' = IF s \in ledger THEN [proc EXCEPT ![p].suppressed = @ \cup {s}]
                               ELSE [proc EXCEPT ![p].cleared = s]
    /\ UNCHANGED <<file, memory, ledger, cursor, snapshot, mishaps, history>>

\* create_source to set_partition_policy, which go back to the rows of the
\* source: forgetting it between them ends like forgetting it after them.
RegisterSource(p) ==
    /\ Persisting(p)
    /\ proc[p].cleared # Nothing
    /\ memory' = [memory EXCEPT !.sources = @ \cup {proc[p].cleared}]
    /\ proc' = [proc EXCEPT ![p].kept = @ \cup {proc[p].cleared}, ![p].cleared = Nothing]
    /\ UNCHANGED <<file, ledger, cursor, snapshot, mishaps, history>>

Fails(p) == proc' = [proc EXCEPT ![p] = Idle]

\* As if an event of a suppressed source were stored all the same.
StoreEventUnfiltered(p) ==
    LET e == Head(proc[p].events) IN
    /\ Registered(p)
    /\ proc[p].events # <<>>
    /\ proc' = [proc EXCEPT ![p].events = Tail(@)]
    /\ memory' = [memory EXCEPT !.events = @ \cup {e}]
    /\ UNCHANGED <<file, ledger, cursor, snapshot, mishaps, history>>

\* create_event: inserting an external id that is there changes nothing.
StoreEvent(p) ==
    LET e == Head(proc[p].events) IN
    /\ Registered(p)
    /\ proc[p].events # <<>>
    /\ IF e.source \in proc[p].kept /\ e.source \notin memory.sources
       THEN Fails(p)
       ELSE proc' = [proc EXCEPT ![p].events = Tail(@)]
    /\ memory' = [memory EXCEPT !.events =
            IF e.source \in proc[p].kept \cap memory.sources THEN @ \cup {e} ELSE @]
    /\ UNCHANGED <<file, ledger, cursor, snapshot, mishaps, history>>

\* record_collapsed_observation: the event it refers to has to be there, and
\* the same line may not have been observed of another one.
Resolves(o) ==
    /\ o.representative \in memory.events
    /\ \A other \in memory.observed :
          (other.of = o.of /\ other.number = o.number) => other = o

StoreObservation(p) ==
    LET o == Head(proc[p].observed) IN
    /\ Registered(p)
    /\ proc[p].events = <<>>
    /\ proc[p].observed # <<>>
    /\ IF o.of.source \in proc[p].kept /\ ~Resolves(o)
       THEN Fails(p)
       ELSE proc' = [proc EXCEPT ![p].observed = Tail(@)]
    /\ memory' = [memory EXCEPT !.observed =
            IF o.of.source \in proc[p].kept /\ Resolves(o) THEN @ \cup {o} ELSE @]
    /\ UNCHANGED <<file, ledger, cursor, snapshot, mishaps, history>>

Cursors(p) == IF proc[p].streamed THEN proc[p].at ELSE cursor

Commits(p) ==
    /\ cursor' = Cursors(p)
    /\ snapshot' = [snapshot EXCEPT !.cut = @ \/ (snapshot.stage = "memory" /\ proc[p].streamed)]
    /\ torn' = IF proc[p].streamed /\ proc[p].at.offset % 2 = 1 /\ ~proc[p].at.discarding
               THEN torn \cup {Line(proc[p].at)}
               ELSE torn
    /\ proc' = [proc EXCEPT ![p] = Idle]
    /\ UNCHANGED <<file, memory, ledger, mishaps, slipped, spoiled>>

\* As if the cursor were stored with the scan, before what it read.
CommitFirst(p) ==
    /\ Persisting(p)
    /\ Commits(p)

Commit(p) ==
    /\ Registered(p)
    /\ proc[p].events = <<>>
    /\ proc[p].observed = <<>>
    /\ Commits(p)

-----------------------------------------------------------------------------
Kill(p) ==
    /\ Persisting(p)
    /\ mishaps < MaxMishaps
    /\ mishaps' = mishaps + 1
    /\ proc' = [proc EXCEPT ![p] = Idle]
    /\ UNCHANGED <<file, memory, ledger, cursor, snapshot, history>>

Without(image, gone) ==
    [sources |-> image.sources \ gone,
     events |-> {e \in image.events : e.source \notin gone},
     observed |-> {o \in image.observed : o.of.source \notin gone}]

\* forget_source: one transaction with the entry of the ledger in it, then
\* the snapshots are purged (the steps between are those of ForgetAndRestore).
Forget(s) ==
    /\ s \in memory.sources
    /\ mishaps < MaxMishaps
    /\ mishaps' = mishaps + 1
    /\ memory' = Without(memory, {s})
    /\ ledger' = ledger \cup {s}
    /\ snapshot' = NoSnapshot
    /\ slipped' = (slipped \ {s}) \cup {t \in {s} : \E p \in Ingesters : proc[p].cleared = t}
    /\ UNCHANGED <<file, cursor, proc, torn, spoiled>>

\* SnapshotManager.create: two backups, under no lock.
CopyMemory ==
    /\ mishaps < MaxMishaps
    /\ mishaps' = mishaps + 1
    /\ snapshot' = [NoSnapshot EXCEPT !.stage = "memory", !.memory = memory]
    /\ UNCHANGED <<file, memory, ledger, cursor, proc, history>>

CopyOperations ==
    /\ snapshot.stage = "memory"
    /\ snapshot' = [snapshot EXCEPT !.stage = "whole", !.cursor = cursor]
    /\ UNCHANGED <<file, memory, ledger, cursor, proc, mishaps, history>>

\* Both databases are replaced under both locks and the ledger reapplied,
\* but an ingest holds neither lock between its transactions.  (Bound: a
\* snapshot is restored once.)
Restore ==
    /\ snapshot.stage = "whole"
    /\ ~snapshot.restored
    /\ snapshot' = [snapshot EXCEPT !.restored = TRUE]
    /\ memory' = Without(snapshot.memory, ledger)
    /\ cursor' = snapshot.cursor
    /\ spoiled' = (spoiled \/ snapshot.cut \/ \E p \in Ingesters : proc[p].pc # "idle")
    /\ UNCHANGED <<file, ledger, proc, mishaps, torn, slipped>>

Read(p) ==
    \/ ReadTorn(p)
    \/ ReadRest(p)
    \/ ReadOversized(p)
    \/ Discard(p)
    \/ ReadSkipped(p)
    \/ Defer(p)
    \/ ReadLong(p)
    \/ ReadNew(p)
    \/ ReadDuplicate(p)
    \/ StopReading(p)

Persist(p) ==
    \/ CheckSource(p)
    \/ RegisterSource(p)
    \/ StoreEvent(p)
    \/ StoreObservation(p)
    \/ Commit(p)

NobodyReads == \A p \in Ingesters : proc[p].pc # "reading"

Ingest(p) == Read(p) \/ (NobodyReads /\ (OpenAtEof(p) \/ Open(p) \/ Persist(p)))

Others ==
    \/ WriteLine
    \/ WriteHalf
    \/ ReplaceFile
    \/ \E p \in Ingesters : Kill(p)
    \/ \E s \in Sources : Forget(s)
    \/ CopyMemory
    \/ CopyOperations
    \/ Restore

Next == (\E p \in Ingesters : Ingest(p)) \/ (NobodyReads /\ Others)

Spec == Init /\ [][Next]_vars

\* Ingest is started again and again, and one that runs goes on.
FairSpec == Spec /\ \A p \in Ingesters : WF_vars(Ingest(p))
-----------------------------------------------------------------------------
TypeOK ==
    /\ content \in Contents
    /\ written \in Nat
    /\ inode \in Nat
    /\ memory \in Image
    /\ ledger \subseteq Sources
    /\ cursor \in Position \cup {Nothing}
    /\ snapshot \in [stage : {"none", "memory", "whole"}, memory : Image,
                     cursor : Position \cup {Nothing}, cut : BOOLEAN, restored : BOOLEAN]
    /\ proc \in [Ingesters ->
          [pc : {"idle", "reading", "persisting"}, at : Position,
           streamed : BOOLEAN, consumed : BOOLEAN, batch : Nat, seen : SUBSET Identity,
           events : Seq(Identity), observed : Seq(Observation),
           kept : SUBSET Sources, suppressed : SUBSET Sources,
           cleared : Sources \cup {Nothing}]]
    /\ mishaps \in 0 .. MaxMishaps
    /\ torn \subseteq Nat
    /\ slipped \subseteq Sources
    /\ spoiled \in BOOLEAN

Represented(id, image) ==
    \/ \E e \in image.events : Alike(e, id)
    \/ \E o \in image.observed : o.of = id

Passed(c, k) == c # Nothing /\ 2 * k <= c.offset

\* Whatever was killed, run twice or replaced, the cursor is never past a
\* record that memory has neither as an event nor as an observation of one
\* (_persist_scan_result, source_adapters._stream_file), but for sources
\* forgotten, records read half written and restores that paired the
\* cursor with another memory.
CursorBehindEvents ==
    ~spoiled =>
        \A k \in DOMAIN content :
            (content[k].kind = "event" /\ Passed(cursor, k) /\ k \notin torn) =>
                \/ Represented(content[k].id, memory)
                \/ content[k].id.source \in ledger

\* Wherever the batches were cut, and whoever read a record twice, it is
\* stored in one role: it is an event or an observation of another, and is
\* observed once (record numbers and adjacent_primary_state of the cursor).
\* A record read half written shifts the numbers of those after it.
OneRole ==
    torn = {} =>
        \A o \in memory.observed :
            /\ o.of \notin memory.events
            /\ \A other \in memory.observed : other.of = o.of => other = o

\* An ingest that was under way does not bring back a source forgotten
\* meanwhile (_persist_scan_result checks the ledger, create_event the
\* source), unless it had passed the check and not yet written the source.
ForgottenStaysOut ==
    \A s \in ledger \ slipped :
        /\ s \notin memory.sources
        /\ \A e \in memory.events : e.source # s
        /\ \A o \in memory.observed : o.of.source # s

\* A snapshot is a pair: its cursor is not past a record its memory lacks
\* (SnapshotManager.create).
SnapshotIsPair ==
    (snapshot.stage = "whole" /\ ~spoiled) =>
        \A k \in DOMAIN content :
            (content[k].kind = "event" /\ Passed(snapshot.cursor, k) /\ k \notin torn) =>
                \/ Represented(content[k].id, snapshot.memory)
                \/ content[k].id.source \in ledger

(***************************************************************************)
(* What may keep a record out for good.  It is behind one too large for    *)
(* any batch, or at or behind a repetition that is refused in every        *)
(* attempt: the event it refers to is left out of a batch as like another  *)
(* of the batch, so that nothing of that name is ever stored               *)
(* (record_collapsed_observation).                                         *)
(***************************************************************************)
Kin(j, k) == content[j].kind = "event" /\ content[j].id.source = content[k].id.source

\* Record k is a duplicate of the event before it in its lineage.
Repetition(k) ==
    \E j \in 1 .. k - 1 :
        /\ Kin(j, k)
        /\ \A i \in j + 1 .. k - 1 : ~Kin(i, k)
        /\ IsDuplicate(content[j].id, content[k].id)

\* It refers to r, the event that the repetitions up to k began with.
RefersTo(k, r) ==
    /\ Kin(r, k)
    /\ ~Repetition(r)
    /\ \A j \in r + 1 .. k : Kin(j, k) => Repetition(j)

\* A batch may hold both of them.
Together(i, r) == Cardinality({j \in i .. r : content[j].kind \in {"event", "long"}}) <= BatchSize

LeftOut(r) ==
    \E i \in 1 .. r - 1 : /\ content[i].kind = "event"
                          /\ ~Repetition(i)
                          /\ Alike(content[i].id, content[r].id)
                          /\ Together(i, r)

Refusable(k) ==
    /\ content[k].kind = "event"
    /\ \E r \in 1 .. k - 1 : RefersTo(k, r) /\ LeftOut(r)

Blocked(k) == \E j \in 1 .. k : content[j].kind = "huge"

Complete(k) ==
    /\ k \in DOMAIN content
    /\ content[k].kind = "event"
    /\ ~Blocked(k)
    /\ written >= 2 * k

Due(k) == Complete(k) /\ \A j \in 1 .. k : ~Refusable(j)

\* A line read half written is no event of its lineage, and what repeats it
\* refers to another.
Disturbed(k) ==
    \/ k \in torn
    \/ \E i \in torn : \E j \in i + 1 .. k : Kin(j, i)

Arrived(k) ==
    \/ spoiled
    \/ k \in DOMAIN content /\ (\/ Disturbed(k)
                                \/ Represented(content[k].id, memory)
                                \/ content[k].id.source \in ledger)

\* Every complete record arrives in memory in the end, whatever fails on
\* the way (scan resumes from the cursor, persisting again is harmless):
\* unless it is behind a record that fits into no batch, or at or behind
\* a repetition that may be refused for ever, or at or behind an event
\* whose lineage had a line read half written.
EveryRecordArrives ==
    \A k \in UNION {DOMAIN c : c \in Contents} : Due(k) ~> Arrived(k)

\* What docs/OPERATIONS.md:89-91 says, that a batch replayed converges and
\* nothing is skipped: no repetition is refused for ever.
EveryReplayConverges ==
    \A k \in UNION {DOMAIN c : c \in Contents} : Complete(k) ~> Arrived(k)
=============================================================================
