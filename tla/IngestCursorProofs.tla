------------------------- MODULE IngestCursorProofs -------------------------
(***************************************************************************)
(* Theorems about IngestCursor, for any files, sources, batch size, number *)
(* of ingests and mishaps.                                                 *)
(***************************************************************************)
EXTENDS IngestCursor, TLAPS

FileWritten == written <= 2 * Len(content)

\* A position in the middle of a line that was read half written, not one
\* too large for a line.
HalfRead(at) == at.offset % 2 = 1 /\ ~at.discarding

Placed(at) ==
    /\ at.discarding => /\ at.offset % 2 = 1
                        /\ Line(at) \in DOMAIN content
                        /\ content[Line(at)].kind = "oversized"
    /\ \A s \in Sources :
          at.adjacent[s] # Nothing => at.adjacent[s].representative.source = s

\* A position that some cursor holds or held.
Kept(at) == Placed(at) /\ (HalfRead(at) => Line(at) \in torn)

\* The events of the file before a position, the torn ones left out.
Before(at) ==
    {k \in DOMAIN content : content[k].kind = "event" /\ 2 * k <= at.offset /\ k \notin torn}

InMemory(id, image) == Represented(id, image) \/ id.source \in ledger

\* What an ingest has read and not persisted yet.
InHand(entry, id) ==
    \/ \E i \in DOMAIN entry.events : Alike(entry.events[i], id)
    \/ \E i \in DOMAIN entry.observed : entry.observed[i].of = id

\* A half line met while reading was half written at an earlier time, when
\* the line is not the last.
TornBefore(entry) ==
    (entry.pc = "reading" /\ HalfRead(entry.at) /\ entry.at.offset < written)
        => Line(entry.at) \in torn

Accounted(entry) ==
    /\ entry.suppressed \subseteq ledger
    /\ \A i \in DOMAIN entry.events : entry.events[i].source \in entry.at.sources
    /\ \A i \in DOMAIN entry.observed :
          /\ entry.observed[i].of.source \in entry.at.sources
          /\ entry.observed[i].representative.source = entry.observed[i].of.source

Listed(entry) ==
    entry.pc = "reading" =>
        \A e \in entry.seen : \E i \in DOMAIN entry.events : Alike(entry.events[i], e)

\* What an ingest has passed is in memory or in its hands.
Covered(entry) ==
    (entry.streamed /\ ~spoiled) =>
        \A k \in Before(entry.at) :
            InMemory(content[k].id, memory) \/ InHand(entry, content[k].id)

EntryOK(entry) ==
    /\ Placed(entry.at)
    /\ entry.pc = "idle" => ~entry.streamed
    /\ TornBefore(entry)
    /\ Accounted(entry)
    /\ Listed(entry)
    /\ Covered(entry)

EntriesOK == \A p \in Ingesters : EntryOK(proc[p])

CursorsKept ==
    /\ cursor # Nothing => Kept(cursor)
    /\ snapshot.cursor # Nothing => Kept(snapshot.cursor)

\* The two halves of a snapshot fit, but for a cursor moved between them.
Pairs(image, c) == c # Nothing => \A k \in Before(c) : InMemory(content[k].id, image)

SnapshotPairs ==
    (~spoiled /\ ~snapshot.cut) =>
        /\ snapshot.stage = "memory" => Pairs(snapshot.memory, cursor)
        /\ snapshot.stage = "whole" => Pairs(snapshot.memory, snapshot.cursor)

\* A source cleared and then forgotten has slipped through.
ClearedSlips ==
    \A p \in Ingesters :
        (proc[p].cleared # Nothing /\ proc[p].cleared \in ledger)
            => proc[p].cleared \in slipped

IInv ==
    /\ TypeOK
    /\ FileWritten
    /\ EntriesOK
    /\ CursorsKept
    /\ CursorBehindEvents
    /\ SnapshotPairs
    /\ ClearedSlips
    /\ ForgottenStaysOut

-----------------------------------------------------------------------------
(***************************************************************************)
(* Halves and lines.                                                       *)
(***************************************************************************)
LEMMA EvenOffset ==
  ASSUME NEW n \in Nat, n % 2 = 0
  PROVE  /\ n \div 2 + 1 \in Nat \ {0}
         /\ n = 2 * (n \div 2)
         /\ (n + 1) % 2 = 1
         /\ (n + 1) \div 2 = n \div 2
         /\ \A k \in Nat : 2 * k <= n + 1 => 2 * k <= n
         /\ \A k \in Nat : 2 * k <= n + 2 => 2 * k <= n \/ k = n \div 2 + 1
         /\ (n + 2) % 2 = 0
OBVIOUS

LEMMA OddOffset ==
  ASSUME NEW n \in Nat, n % 2 = 1
  PROVE  /\ n \div 2 + 1 \in Nat \ {0}
         /\ n = 2 * (n \div 2) + 1
         /\ (n + 1) % 2 = 0
         /\ \A k \in Nat : 2 * k <= n + 1 => 2 * k <= n \/ k = n \div 2 + 1
OBVIOUS

LEMMA Parity == \A n \in Nat : n % 2 = 0 \/ n % 2 = 1
OBVIOUS

LEMMA NextLine ==
  ASSUME NEW n \in Nat, NEW m \in Nat, n < 2 * m
  PROVE  /\ 2 * (n \div 2) + 2 \in Nat
         /\ 2 * (n \div 2) + 2 <= 2 * m
         /\ n % 2 = 0 => n + 1 <= 2 * m
OBVIOUS

-----------------------------------------------------------------------------
(***************************************************************************)
(* Types.                                                                  *)
(***************************************************************************)
Entry == [pc : {"idle", "reading", "persisting"}, at : Position,
          streamed : BOOLEAN, consumed : BOOLEAN, batch : Nat, seen : SUBSET Identity,
          events : Seq(Identity), observed : Seq(Observation),
          kept : SUBSET Sources, suppressed : SUBSET Sources,
          cleared : Sources \cup {Nothing}]

SnapshotRecord == [stage : {"none", "memory", "whole"}, memory : Image,
                   cursor : Position \cup {Nothing}, cut : BOOLEAN, restored : BOOLEAN]

LEMMA TypedParts ==
  ASSUME TypeOK
  PROVE  /\ content \in Contents /\ content \in Seq(Record)
         /\ Len(content) \in Nat /\ DOMAIN content = 1 .. Len(content)
         /\ \A k \in DOMAIN content : content[k] \in Record
         /\ written \in Nat /\ inode \in Nat /\ memory \in Image
         /\ ledger \in SUBSET Sources
         /\ cursor \in Position \cup {Nothing}
         /\ snapshot \in SnapshotRecord
         /\ proc \in [Ingesters -> Entry]
         /\ \A p \in Ingesters : proc[p] \in Entry
         /\ mishaps \in 0 .. MaxMishaps
         /\ torn \in SUBSET Nat /\ slipped \in SUBSET Sources /\ spoiled \in BOOLEAN
<1>1. content \in Contents /\ content \in Seq(Record)
  BY ContentsAssumption DEF TypeOK
<1>2. Len(content) \in Nat /\ DOMAIN content = 1 .. Len(content)
  BY <1>1
<1>3. \A k \in DOMAIN content : content[k] \in Record
  BY <1>1
<1>. QED BY <1>1, <1>2, <1>3 DEF TypeOK, Entry, SnapshotRecord

LEMMA TypeOKFromParts ==
  ASSUME content' \in Contents, written' \in Nat, inode' \in Nat, memory' \in Image,
         ledger' \in SUBSET Sources, cursor' \in Position \cup {Nothing},
         snapshot' \in SnapshotRecord, proc' \in [Ingesters -> Entry],
         mishaps' \in 0 .. MaxMishaps, torn' \in SUBSET Nat,
         slipped' \in SUBSET Sources, spoiled' \in BOOLEAN
  PROVE  TypeOK'
BY DEF TypeOK, Entry, SnapshotRecord

LEMMA EntryParts ==
  ASSUME NEW entry \in Entry
  PROVE  /\ entry.at \in Position /\ entry.at.offset \in Nat /\ entry.at.number \in Nat
         /\ entry.at.sources \in SUBSET Sources /\ entry.at.discarding \in BOOLEAN
         /\ entry.at.adjacent \in [Sources -> Previous \cup {Nothing}]
         /\ entry.streamed \in BOOLEAN /\ entry.batch \in Nat
         /\ entry.seen \in SUBSET Identity
         /\ entry.events \in Seq(Identity) /\ entry.observed \in Seq(Observation)
         /\ entry.kept \in SUBSET Sources /\ entry.suppressed \in SUBSET Sources
         /\ entry.cleared \in Sources \cup {Nothing}
<1>1. entry.at \in Position
  BY DEF Entry
<1>. QED BY <1>1 DEF Entry, Position

LEMMA StartTyped ==
  ASSUME NEW i \in Nat
  PROVE  /\ Start(i) \in Position /\ Start(i).offset = 0 /\ ~Start(i).discarding
         /\ Start(i).number = 0
         /\ Start(i).adjacent = [s \in Sources |-> Nothing]
BY DEF Start, Position

LEMMA IdleTyped ==
  /\ Idle \in Entry
  /\ Idle.pc = "idle" /\ Idle.at = Start(0) /\ Idle.streamed = FALSE
  /\ Idle.seen = {} /\ Idle.events = <<>> /\ Idle.observed = <<>>
  /\ Idle.suppressed = {} /\ Idle.kept = {} /\ Idle.cleared = Nothing
BY StartTyped DEF Idle, Entry

LEMMA SetTyped ==
  ASSUME TypeOK, NEW p \in Ingesters, NEW entry \in Entry, proc' = [proc EXCEPT ![p] = entry]
  PROVE  /\ proc' \in [Ingesters -> Entry]
         /\ proc'[p] = entry
         /\ \A q \in Ingesters \ {p} : proc'[q] = proc[q]
BY TypedParts

-----------------------------------------------------------------------------
(***************************************************************************)
(* Reading.                                                                *)
(***************************************************************************)
LEMMA LinePlace ==
  ASSUME TypeOK, FileWritten, NEW at \in Position, at.offset < written
  PROVE  Line(at) \in DOMAIN content /\ content[Line(at)] \in Record
<1>1. /\ at.offset \in Nat /\ written \in Nat /\ Len(content) \in Nat
      /\ at.offset < 2 * Len(content)
  BY TypedParts DEF Position, FileWritten
<1>2. at.offset \div 2 + 1 \in 1 .. Len(content)
  BY <1>1
<1>. QED BY <1>2, TypedParts DEF Line

LEMMA ReadsFields ==
  ASSUME TypeOK, NEW p \in Ingesters, NEW halves \in {1, 2}, NEW at \in Position
  PROVE  LET entry == Reads(p, halves, at) IN
         /\ entry \in Entry
         /\ entry.at.offset = at.offset + halves
         /\ entry.at.discarding = at.discarding
         /\ entry.at.adjacent = at.adjacent /\ entry.at.sources = at.sources
         /\ entry.at.number = at.number + 1
         /\ entry.pc = proc[p].pc /\ entry.streamed = proc[p].streamed
         /\ entry.batch = proc[p].batch /\ entry.seen = proc[p].seen
         /\ entry.events = proc[p].events /\ entry.observed = proc[p].observed
         /\ entry.kept = proc[p].kept /\ entry.suppressed = proc[p].suppressed
         /\ entry.cleared = proc[p].cleared
<1>. DEFINE at2 == [at EXCEPT !.offset = @ + halves, !.number = @ + 1]
<1>1. at.offset + halves \in Nat /\ at.number + 1 \in Nat
  BY DEF Position
<1>2. /\ at2 \in Position
      /\ at2.offset = at.offset + halves /\ at2.number = at.number + 1
      /\ at2.discarding = at.discarding
      /\ at2.adjacent = at.adjacent /\ at2.sources = at.sources
  BY <1>1 DEF Position
<1>3. Reads(p, halves, at) = [proc[p] EXCEPT !.consumed = TRUE, !.at = at2]
  BY DEF Reads
<1>. HIDE DEF at2
<1>4. proc[p] \in Entry
  BY TypedParts
<1>. QED BY <1>2, <1>3, <1>4 DEF Entry

\* What a reader keeps while it reads.
SameHands(entry, next) ==
    /\ next.pc \in {"reading", "persisting"}
    /\ next.streamed = entry.streamed
    /\ next.seen = entry.seen
    /\ next.events = entry.events /\ next.observed = entry.observed
    /\ next.kept = entry.kept /\ next.suppressed = entry.suppressed
    /\ next.cleared = entry.cleared

\* A line without an event, or a part of one.
LEMMA PassOK ==
  ASSUME NEW entry, NEW next, EntryOK(entry), entry.pc = "reading",
         SameHands(entry, next),
         next.at.adjacent = entry.at.adjacent, next.at.sources = entry.at.sources,
         next.at.discarding => /\ next.at.offset % 2 = 1
                               /\ Line(next.at) \in DOMAIN content
                               /\ content[Line(next.at)].kind = "oversized",
         TornBefore(next), Before(next.at) \subseteq Before(entry.at)
  PROVE  EntryOK(next)
<1>1. Placed(next.at)
  BY DEF EntryOK, Placed
<1>2. Accounted(next) /\ Listed(next)
  BY DEF EntryOK, SameHands, Accounted, Listed
<1>3. \A id : InHand(next, id) <=> InHand(entry, id)
  BY DEF SameHands, InHand
<1>4. Covered(next)
  BY <1>3 DEF EntryOK, SameHands, Covered
<1>5. next.pc = "idle" => ~next.streamed
  BY DEF SameHands
<1>. QED BY <1>1, <1>2, <1>4, <1>5 DEF EntryOK

LEMMA BeforeNext ==
  ASSUME TypeOK, NEW at \in Position, NEW next \in Position
  PROVE  /\ at.offset % 2 = 0 /\ next.offset = at.offset + 1
              => Before(next) \subseteq Before(at)
         /\ at.offset % 2 = 0 /\ next.offset = at.offset + 2
              => Before(next) \subseteq Before(at) \cup {Line(at)}
         /\ at.offset % 2 = 1 /\ next.offset = at.offset + 1
              => Before(next) \subseteq Before(at) \cup {Line(at)}
<1>1. at.offset \in Nat
  BY DEF Position
<1>2. \A k \in DOMAIN content : k \in Nat
  BY TypedParts
<1>3. CASE at.offset % 2 = 0
  <2>1. /\ \A k \in Nat : 2 * k <= at.offset + 1 => 2 * k <= at.offset
        /\ \A k \in Nat : 2 * k <= at.offset + 2 => 2 * k <= at.offset \/ k = Line(at)
        /\ at.offset % 2 # 1
    <3>1. PICK n \in Nat : n = at.offset
      BY <1>1
    <3>2. /\ \A k \in Nat : 2 * k <= n + 1 => 2 * k <= n
          /\ \A k \in Nat : 2 * k <= n + 2 => 2 * k <= n \/ k = n \div 2 + 1
      BY <1>3, <3>1, EvenOffset
    <3>. QED BY <1>3, <3>1, <3>2 DEF Line
  <2>. QED BY <1>2, <2>1 DEF Before
<1>4. CASE at.offset % 2 = 1
  <2>1. /\ \A k \in Nat : 2 * k <= at.offset + 1 => 2 * k <= at.offset \/ k = Line(at)
        /\ at.offset % 2 # 0
    BY <1>1, <1>4, OddOffset DEF Line
  <2>. QED BY <1>2, <2>1 DEF Before
<1>. QED BY <1>1, <1>3, <1>4, Parity

\* A reader's step changes its own entry only.
Reader(p, next) ==
    /\ next \in Entry
    /\ proc' = [proc EXCEPT ![p] = next]
    /\ EntryOK(next)
    /\ next.cleared = proc[p].cleared
    /\ next.pc \in {"reading", "persisting"}

LEMMA ReadTornOK ==
  ASSUME TypeOK, FileWritten, EntriesOK, NEW p \in Ingesters, ReadTorn(p)
  PROVE  \E next : Reader(p, next)
<1>. DEFINE at == proc[p].at
<1>1. /\ proc[p] \in Entry /\ at \in Position /\ at.offset \in Nat /\ EntryOK(proc[p])
      /\ proc[p].pc = "reading" /\ at.offset < written /\ at.offset % 2 = 0
      /\ written = at.offset + 1
  BY TypedParts, EntryParts DEF EntriesOK, ReadTorn, AtLine, Reading
<1>2. PICK large \in IF Here(p).kind = "oversized" THEN BOOLEAN ELSE {FALSE} :
         proc' = [proc EXCEPT ![p] = Reads(p, 1, [at EXCEPT !.discarding = large])]
  BY DEF ReadTorn
<1>. DEFINE at2 == [at EXCEPT !.discarding = large]
            next == Reads(p, 1, at2)
<1>3. /\ at2 \in Position /\ at2.offset = at.offset /\ at2.discarding = large
      /\ at2.adjacent = at.adjacent /\ at2.sources = at.sources
  BY <1>1 DEF Position
<1>. HIDE DEF at2
<1>4. /\ next \in Entry /\ SameHands(proc[p], next) /\ next.pc = "reading"
      /\ next.at.offset = at.offset + 1 /\ next.at.discarding = large
      /\ next.at.adjacent = at.adjacent /\ next.at.sources = at.sources
  BY <1>1, <1>3, ReadsFields DEF SameHands
<1>5. proc' = [proc EXCEPT ![p] = next]
  BY <1>2 DEF at2
<1>. HIDE DEF next
<1>6. (at.offset + 1) % 2 = 1 /\ (at.offset + 1) \div 2 = at.offset \div 2
  BY <1>1, EvenOffset
<1>7. Line(next.at) = Line(at) /\ Line(at) \in DOMAIN content
  BY <1>1, <1>4, <1>6, LinePlace DEF Line
<1>8. large => content[Line(at)].kind = "oversized"
  BY DEF Here
<1>9. TornBefore(next)
  BY <1>1, <1>4 DEF TornBefore
<1>10. Before(next.at) \subseteq Before(at)
  BY <1>1, <1>4, BeforeNext, EntryParts
<1>11. EntryOK(next)
  BY <1>1, <1>4, <1>6, <1>7, <1>8, <1>9, <1>10, PassOK
<1>. QED BY <1>1, <1>4, <1>5, <1>11 DEF Reader, SameHands

LEMMA ReadOversizedOK ==
  ASSUME TypeOK, FileWritten, EntriesOK, NEW p \in Ingesters, ReadOversized(p)
  PROVE  \E next : Reader(p, next)
<1>. DEFINE at == proc[p].at
            at2 == [at EXCEPT !.discarding = TRUE]
            next == Reads(p, 1, at2)
<1>1. /\ proc[p] \in Entry /\ at \in Position /\ at.offset \in Nat /\ EntryOK(proc[p])
      /\ proc[p].pc = "reading" /\ at.offset < written /\ at.offset % 2 = 0
  BY TypedParts, EntryParts DEF EntriesOK, ReadOversized, WholeLine, AtLine, Reading
<1>3. /\ at2 \in Position /\ at2.offset = at.offset /\ at2.discarding = TRUE
      /\ at2.adjacent = at.adjacent /\ at2.sources = at.sources
  BY <1>1 DEF Position
<1>5. proc' = [proc EXCEPT ![p] = next]
  BY DEF ReadOversized
<1>. HIDE DEF at2
<1>4. /\ next \in Entry /\ SameHands(proc[p], next) /\ next.pc = "reading"
      /\ next.at.offset = at.offset + 1 /\ next.at.discarding = TRUE
      /\ next.at.adjacent = at.adjacent /\ next.at.sources = at.sources
  BY <1>1, <1>3, ReadsFields DEF SameHands
<1>. HIDE DEF next
<1>6. (at.offset + 1) % 2 = 1 /\ (at.offset + 1) \div 2 = at.offset \div 2
  BY <1>1, EvenOffset
<1>7. Line(next.at) = Line(at) /\ Line(at) \in DOMAIN content
  BY <1>1, <1>4, <1>6, LinePlace DEF Line
<1>8. content[Line(at)].kind = "oversized"
  BY DEF Here, ReadOversized
<1>9. TornBefore(next)
  BY <1>1, <1>4 DEF TornBefore, HalfRead
<1>10. Before(next.at) \subseteq Before(at)
  BY <1>1, <1>4, BeforeNext, EntryParts
<1>11. EntryOK(next)
  BY <1>1, <1>4, <1>6, <1>7, <1>8, <1>9, <1>10, PassOK
<1>. QED BY <1>1, <1>4, <1>5, <1>11 DEF Reader, SameHands

\* The second half of a line.
LEMMA ReadRestOK ==
  ASSUME TypeOK, FileWritten, EntriesOK, NEW p \in Ingesters, ReadRest(p) \/ Discard(p)
  PROVE  \E next : Reader(p, next)
<1>. DEFINE at == proc[p].at
<1>1. /\ proc[p] \in Entry /\ at \in Position /\ at.offset \in Nat /\ EntryOK(proc[p])
      /\ proc[p].pc = "reading" /\ at.offset < written
  BY TypedParts, EntryParts DEF EntriesOK, ReadRest, Discard, Reading
<1>2. at.offset % 2 = 1 /\ (Line(at) \in torn \/ content[Line(at)].kind = "oversized")
  <2>1. CASE ReadRest(p)
    BY <1>1, <2>1 DEF ReadRest, EntryOK, TornBefore, HalfRead
  <2>2. CASE Discard(p)
    BY <1>1, <2>2 DEF Discard, EntryOK, Placed
  <2>. QED BY <2>1, <2>2
<1>3. \E next \in Entry :
        /\ proc' = [proc EXCEPT ![p] = next]
        /\ SameHands(proc[p], next) /\ next.pc = "reading"
        /\ next.at.offset = at.offset + 1 /\ ~next.at.discarding
        /\ next.at.adjacent = at.adjacent /\ next.at.sources = at.sources
  <2>1. CASE ReadRest(p)
    <3>1. proc' = [proc EXCEPT ![p] = Reads(p, 1, at)] /\ ~at.discarding
      BY <2>1 DEF ReadRest
    <3>. DEFINE next == Reads(p, 1, at)
    <3>2. /\ next \in Entry /\ SameHands(proc[p], next) /\ next.pc = "reading"
          /\ next.at.offset = at.offset + 1 /\ next.at.discarding = at.discarding
          /\ next.at.adjacent = at.adjacent /\ next.at.sources = at.sources
      BY <1>1, ReadsFields DEF SameHands
    <3>. HIDE DEF next
    <3>3. proc' = [proc EXCEPT ![p] = next]
      BY <3>1 DEF next
    <3>. QED BY <3>1, <3>2, <3>3
  <2>2. CASE Discard(p)
    <3>. DEFINE at2 == [at EXCEPT !.offset = @ + 1, !.discarding = FALSE]
                next == [proc[p] EXCEPT !.at = at2, !.consumed = TRUE]
    <3>1. proc' = [proc EXCEPT ![p] = next]
      BY <1>1, <2>2, TypedParts DEF Discard, Entry, Position
    <3>2. /\ at2 \in Position /\ at2.offset = at.offset + 1 /\ ~at2.discarding
          /\ at2.adjacent = at.adjacent /\ at2.sources = at.sources
      <4>1. PICK there \in Position : there = at
        BY <1>1
      <4>2. there.offset + 1 \in Nat
        BY DEF Position
      <4>. QED BY <4>1, <4>2 DEF Position
    <3>. HIDE DEF at2
    <3>3. next \in Entry /\ next.at = at2 /\ SameHands(proc[p], next) /\ next.pc = "reading"
      BY <1>1, <3>2 DEF Entry, SameHands
    <3>. HIDE DEF next
    <3>. QED BY <3>1, <3>2, <3>3
  <2>. QED BY <2>1, <2>2
<1>4. PICK next \in Entry :
        /\ proc' = [proc EXCEPT ![p] = next]
        /\ SameHands(proc[p], next) /\ next.pc = "reading"
        /\ next.at.offset = at.offset + 1 /\ ~next.at.discarding
        /\ next.at.adjacent = at.adjacent /\ next.at.sources = at.sources
  BY <1>3
<1>5. (at.offset + 1) % 2 = 0
  BY <1>1, <1>2, OddOffset
<1>6. TornBefore(next)
  BY <1>4, <1>5 DEF TornBefore, HalfRead
<1>7. Before(next.at) \subseteq Before(at)
  <2>1. Before(next.at) \subseteq Before(at) \cup {Line(at)}
    BY <1>1, <1>2, <1>4, BeforeNext, EntryParts
  <2>2. Line(at) \notin Before(next.at)
    BY <1>2 DEF Before
  <2>. QED BY <2>1, <2>2
<1>8. EntryOK(next)
  BY <1>1, <1>4, <1>6, <1>7, PassOK
<1>. QED BY <1>4, <1>8 DEF Reader, SameHands

LEMMA ReadNoEventOK ==
  ASSUME TypeOK, FileWritten, EntriesOK, NEW p \in Ingesters, ReadSkipped(p) \/ ReadLong(p)
  PROVE  \E next : Reader(p, next)
<1>. DEFINE at == proc[p].at
            read == Reads(p, 2, at)
<1>1. /\ proc[p] \in Entry /\ at \in Position /\ at.offset \in Nat /\ EntryOK(proc[p])
      /\ proc[p].pc = "reading" /\ at.offset < written /\ at.offset % 2 = 0
  BY TypedParts, EntryParts
     DEF EntriesOK, ReadSkipped, ReadLong, Relevant, WholeLine, AtLine, Reading
<1>2. /\ read \in Entry /\ SameHands(proc[p], read) /\ read.pc = "reading"
      /\ read.at.offset = at.offset + 2 /\ read.at.discarding = at.discarding
      /\ read.at.adjacent = at.adjacent /\ read.at.sources = at.sources
  BY <1>1, ReadsFields DEF SameHands
<1>3. \E next \in Entry :
        /\ proc' = [proc EXCEPT ![p] = next]
        /\ SameHands(proc[p], next) /\ next.pc = "reading"
        /\ next.at = read.at
  <2>1. CASE ReadSkipped(p)
    <3>1. proc' = [proc EXCEPT ![p] = read]
      BY <2>1 DEF ReadSkipped
    <3>. HIDE DEF read
    <3>. QED BY <1>2, <3>1
  <2>2. CASE ReadLong(p)
    <3>1. proc' = [proc EXCEPT ![p] = [read EXCEPT !.batch = @ + 1]]
      BY <2>2 DEF ReadLong
    <3>. HIDE DEF read
    <3>. DEFINE next == [read EXCEPT !.batch = @ + 1]
    <3>2. read.batch + 1 \in Nat
      BY <1>2, EntryParts
    <3>3. next \in Entry /\ SameHands(proc[p], next) /\ next.at = read.at /\ next.pc = "reading"
      BY <1>2, <3>2 DEF Entry, SameHands
    <3>. QED BY <3>1, <3>3
  <2>. QED BY <2>1, <2>2
<1>. HIDE DEF read
<1>4. PICK next \in Entry :
        /\ proc' = [proc EXCEPT ![p] = next]
        /\ SameHands(proc[p], next) /\ next.pc = "reading"
        /\ next.at = read.at
  BY <1>3
<1>5. (at.offset + 2) % 2 = 0 /\ ~at.discarding
  BY <1>1, EvenOffset DEF EntryOK, Placed
<1>6. TornBefore(next)
  BY <1>2, <1>4, <1>5 DEF TornBefore, HalfRead
<1>7. Before(next.at) \subseteq Before(at)
  <2>1. Before(next.at) \subseteq Before(at) \cup {Line(at)}
    BY <1>1, <1>2, <1>4, BeforeNext, EntryParts
  <2>2. content[Line(at)].kind # "event"
    BY DEF ReadSkipped, ReadLong, Here
  <2>3. Line(at) \notin Before(next.at)
    BY <2>2 DEF Before
  <2>. QED BY <2>1, <2>3
<1>8. EntryOK(next)
  BY <1>1, <1>2, <1>4, <1>5, <1>6, <1>7, PassOK
<1>. QED BY <1>4, <1>8 DEF Reader, SameHands

LEMMA StopOK ==
  ASSUME TypeOK, FileWritten, EntriesOK, NEW p \in Ingesters, Defer(p) \/ StopReading(p)
  PROVE  \E next : Reader(p, next)
<1>. DEFINE next == [proc[p] EXCEPT !.pc = "persisting"]
<1>1. proc[p] \in Entry /\ EntryOK(proc[p]) /\ proc[p].pc = "reading"
  BY TypedParts DEF EntriesOK, Defer, StopReading, Relevant, WholeLine, AtLine, Reading
<1>2. proc' = [proc EXCEPT ![p] = next]
  BY DEF Defer, StopReading
<1>3. /\ next \in Entry /\ SameHands(proc[p], next) /\ next.pc = "persisting"
      /\ next.at = proc[p].at
  BY <1>1 DEF Entry, SameHands
<1>. HIDE DEF next
<1>4. TornBefore(next)
  BY <1>3 DEF TornBefore
<1>5. EntryOK(next)
  BY <1>1, <1>3, <1>4, PassOK DEF EntryOK, Placed
<1>. QED BY <1>2, <1>3, <1>5 DEF Reader, SameHands

LEMMA AppendTo ==
  ASSUME NEW S, NEW list \in Seq(S), NEW x \in S
  PROVE  LET longer == Append(list, x) IN
         /\ longer \in Seq(S)
         /\ DOMAIN longer = DOMAIN list \cup {Len(list) + 1}
         /\ \A i \in DOMAIN list : longer[i] = list[i]
         /\ longer[Len(list) + 1] = x
<1>. DEFINE longer == Append(list, x)
<1>1. Len(list) \in Nat /\ DOMAIN list = 1 .. Len(list)
  OBVIOUS
<1>2. longer \in Seq(S) /\ Len(longer) = Len(list) + 1
  OBVIOUS
<1>3. DOMAIN longer = 1 .. Len(list) + 1
  BY <1>1, <1>2
<1>4. 1 .. Len(list) + 1 = (1 .. Len(list)) \cup {Len(list) + 1}
  BY <1>1
<1>5. \A i \in 1 .. Len(list) : longer[i] = list[i]
  OBVIOUS
<1>6. longer[Len(list) + 1] = x
  OBVIOUS
<1>. HIDE DEF longer
<1>. QED BY <1>1, <1>2, <1>3, <1>4, <1>5, <1>6 DEF longer

\* A line with an event, which is in the reader's hands from then on.
LEMMA EventOK ==
  ASSUME NEW entry, NEW next, EntryOK(entry), entry.pc = "reading",
         next.pc = "reading", next.streamed = entry.streamed,
         Placed(next.at), TornBefore(next), Accounted(next), Listed(next),
         NEW k, Before(next.at) \subseteq Before(entry.at) \cup {k},
         InHand(next, content[k].id),
         \A id : InHand(entry, id) => InHand(next, id)
  PROVE  EntryOK(next)
<1>1. Covered(next)
  BY DEF EntryOK, Covered
<1>. QED BY <1>1 DEF EntryOK

LEMMA ReadNewOK ==
  ASSUME TypeOK, FileWritten, EntriesOK, NEW p \in Ingesters, ReadNew(p)
  PROVE  \E next : Reader(p, next)
<1>. DEFINE entry == proc[p]
            at == entry.at
            id == Here(p).id
            latest == [family |-> id.family, time |-> id.time, representative |-> id]
            adjacent == [at.adjacent EXCEPT ![id.source] = latest]
            sources == at.sources \cup {id.source}
            at2 == [at EXCEPT !.adjacent = adjacent, !.sources = sources]
            read == Reads(p, 2, at2)
            seen == entry.seen \cup {id}
            known == \E e \in entry.seen : Alike(e, id)
            events == IF known THEN entry.events ELSE Append(entry.events, id)
            next == [read EXCEPT !.batch = @ + 1, !.seen = seen, !.events = events]
<1>1. /\ entry \in Entry /\ at \in Position /\ at.offset \in Nat /\ EntryOK(entry)
      /\ entry.pc = "reading" /\ at.offset < written /\ at.offset % 2 = 0
  BY TypedParts, EntryParts
     DEF EntriesOK, ReadNew, IsEvent, Relevant, WholeLine, AtLine, Reading
<1>2. id \in Identity /\ id = content[Line(at)].id
  BY <1>1, LinePlace DEF Here, Record
<1>3. id.source \in Sources /\ latest \in Previous /\ latest.representative.source = id.source
  BY <1>2 DEF Identity, Previous
<1>4. proc' = [proc EXCEPT ![p] =
         [Reads(p, 2, [at EXCEPT !.adjacent[id.source] = latest,
                                 !.sources = @ \cup {id.source}])
            EXCEPT !.batch = @ + 1,
                   !.seen = @ \cup {id},
                   !.events = IF known THEN @ ELSE Append(@, id)]]
  BY DEF ReadNew
<1>5. [at EXCEPT !.adjacent[id.source] = latest, !.sources = @ \cup {id.source}] = at2
  BY <1>1 DEF Position
<1>. HIDE DEF latest
<1>6. /\ adjacent \in [Sources -> Previous \cup {Nothing}]
      /\ \A s \in Sources : adjacent[s] = IF s = id.source THEN latest ELSE at.adjacent[s]
  BY <1>1, <1>3, EntryParts
<1>7. sources \in SUBSET Sources /\ at.sources \subseteq sources /\ id.source \in sources
  BY <1>1, <1>3, EntryParts
<1>. HIDE DEF adjacent, sources
<1>8. /\ at2 \in Position /\ at2.offset = at.offset /\ at2.discarding = at.discarding
      /\ at2.adjacent = adjacent /\ at2.sources = sources
  BY <1>1, <1>6, <1>7 DEF Position
<1>. HIDE DEF at2
<1>9. /\ read \in Entry /\ read.pc = "reading" /\ read.streamed = entry.streamed
      /\ read.at.offset = at.offset + 2 /\ read.at.discarding = at.discarding
      /\ read.at.adjacent = adjacent /\ read.at.sources = sources
      /\ read.seen = entry.seen /\ read.events = entry.events
      /\ read.observed = entry.observed /\ read.suppressed = entry.suppressed
      /\ read.cleared = entry.cleared
  BY <1>1, <1>8, ReadsFields
<1>. HIDE DEF read
<1>10. proc' = [proc EXCEPT ![p] = next]
  BY <1>4, <1>5, <1>9 DEF Entry, read
<1>11. /\ entry.events \in Seq(Identity) /\ entry.seen \in SUBSET Identity
       /\ read.batch + 1 \in Nat
  BY <1>1, <1>9, EntryParts
<1>12. /\ events \in Seq(Identity)
       /\ DOMAIN entry.events \subseteq DOMAIN events
       /\ \A i \in DOMAIN entry.events : events[i] = entry.events[i]
       /\ \A i \in DOMAIN events : i \in DOMAIN entry.events \/ events[i] = id
       /\ ~known => \E i \in DOMAIN events : events[i] = id
  <2>1. CASE known
    BY <1>11, <2>1
  <2>2. CASE ~known
    BY <1>2, <1>11, <2>2, AppendTo
  <2>. QED BY <2>1, <2>2
<1>13. Alike(id, id) /\ \A e : Alike(e, id) => Alike(id, e)
  BY DEF Alike
<1>14. \A e \in entry.seen : \E i \in DOMAIN entry.events : Alike(entry.events[i], e)
  BY <1>1 DEF EntryOK, Listed
<1>15. \A e \in seen : \E i \in DOMAIN events : Alike(events[i], e)
  <2>1. ASSUME NEW e \in entry.seen
        PROVE  \E i \in DOMAIN events : Alike(events[i], e)
    BY <1>12, <1>14
  <2>2. CASE known
    <3>1. PICK e \in entry.seen : Alike(e, id)
      BY <2>2
    <3>2. PICK i \in DOMAIN events : Alike(events[i], e)
      BY <2>1
    <3>3. Alike(events[i], id)
      BY <3>1, <3>2 DEF Alike
    <3>. QED BY <2>1, <3>3
  <2>3. CASE ~known
    <3>1. \E i \in DOMAIN events : Alike(events[i], id)
      BY <1>12, <1>13, <2>3
    <3>. QED BY <2>1, <3>1
  <2>. QED BY <2>2, <2>3
<1>16. seen \in SUBSET Identity /\ id \in seen
  BY <1>2, <1>11
<1>. HIDE DEF events, seen, known
<1>17. /\ next \in Entry /\ next.pc = "reading" /\ next.streamed = entry.streamed
       /\ next.at = read.at /\ next.seen = seen /\ next.events = events
       /\ next.observed = entry.observed /\ next.suppressed = entry.suppressed
       /\ next.cleared = entry.cleared
  BY <1>9, <1>11, <1>12, <1>16 DEF Entry
<1>. HIDE DEF next, id
<1>18. (at.offset + 2) % 2 = 0 /\ ~at.discarding
  BY <1>1, EvenOffset DEF EntryOK, Placed
<1>19. TornBefore(next)
  BY <1>9, <1>17, <1>18 DEF TornBefore, HalfRead
<1>20. Placed(next.at)
  BY <1>1, <1>3, <1>6, <1>9, <1>17, <1>18 DEF EntryOK, Placed
<1>21. Accounted(next)
  BY <1>1, <1>7, <1>9, <1>12, <1>17 DEF EntryOK, Accounted
<1>22. Listed(next)
  BY <1>15, <1>17 DEF Listed
<1>23. InHand(next, id) /\ \A x : InHand(entry, x) => InHand(next, x)
  BY <1>12, <1>15, <1>16, <1>17 DEF InHand
<1>24. Before(next.at) \subseteq Before(at) \cup {Line(at)}
  BY <1>1, <1>9, <1>17, BeforeNext, EntryParts
<1>25. EntryOK(next)
  BY <1>1, <1>2, <1>17, <1>19, <1>20, <1>21, <1>22, <1>23, <1>24, EventOK
<1>. QED BY <1>10, <1>17, <1>25 DEF Reader

LEMMA ReadDuplicateOK ==
  ASSUME TypeOK, FileWritten, EntriesOK, NEW p \in Ingesters, ReadDuplicate(p)
  PROVE  \E next : Reader(p, next)
<1>. DEFINE entry == proc[p]
            at == entry.at
            id == Here(p).id
            previous == at.adjacent[id.source]
            latest == [previous EXCEPT !.time = id.time]
            adjacent == [at.adjacent EXCEPT ![id.source] = latest]
            sources == at.sources \cup {id.source}
            at2 == [at EXCEPT !.adjacent = adjacent, !.sources = sources]
            read == Reads(p, 2, at2)
            new == [of |-> id, number |-> at.number + 1,
                    representative |-> previous.representative]
            observed == Append(entry.observed, new)
            next == [read EXCEPT !.batch = @ + 1, !.observed = observed]
<1>1. /\ entry \in Entry /\ at \in Position /\ at.offset \in Nat /\ EntryOK(entry)
      /\ entry.pc = "reading" /\ at.offset < written /\ at.offset % 2 = 0
  BY TypedParts, EntryParts
     DEF EntriesOK, ReadDuplicate, IsEvent, Relevant, WholeLine, AtLine, Reading
<1>2. id \in Identity /\ id = content[Line(at)].id /\ id.source \in Sources
  BY <1>1, LinePlace DEF Here, Record, Identity
<1>3. previous # Nothing /\ previous \in Previous /\ previous.representative.source = id.source
  <2>1. previous # Nothing
    BY DEF ReadDuplicate, IsDuplicate
  <2>. QED BY <1>1, <1>2, <2>1, EntryParts DEF EntryOK, Placed
<1>4. proc' = [proc EXCEPT ![p] =
         [Reads(p, 2, [at EXCEPT !.adjacent[id.source].time = id.time,
                                 !.sources = @ \cup {id.source}])
            EXCEPT !.batch = @ + 1,
                   !.observed = Append(@, [of |-> id, number |-> at.number + 1,
                                           representative |-> previous.representative])]]
  BY DEF ReadDuplicate
<1>5. [at EXCEPT !.adjacent[id.source].time = id.time, !.sources = @ \cup {id.source}] = at2
  BY <1>1 DEF Position
<1>6. /\ latest \in Previous
      /\ latest.representative = previous.representative
  BY <1>2, <1>3 DEF Previous, Identity
<1>7. /\ new \in Observation /\ new.of = id /\ new.representative.source = id.source
  <2>1. at.number + 1 \in Nat
    BY <1>1, EntryParts
  <2>2. previous.representative \in Identity
    BY <1>3 DEF Previous
  <2>. QED BY <1>2, <1>3, <2>1, <2>2 DEF Observation
<1>. HIDE DEF latest
<1>8. /\ adjacent \in [Sources -> Previous \cup {Nothing}]
      /\ \A s \in Sources : adjacent[s] = IF s = id.source THEN latest ELSE at.adjacent[s]
  BY <1>1, <1>6, EntryParts
<1>9. sources \in SUBSET Sources /\ at.sources \subseteq sources /\ id.source \in sources
  BY <1>1, <1>2, EntryParts
<1>. HIDE DEF adjacent, sources
<1>10. /\ at2 \in Position /\ at2.offset = at.offset /\ at2.discarding = at.discarding
       /\ at2.adjacent = adjacent /\ at2.sources = sources
  BY <1>1, <1>8, <1>9 DEF Position
<1>. HIDE DEF at2
<1>11. /\ read \in Entry /\ read.pc = "reading" /\ read.streamed = entry.streamed
       /\ read.at.offset = at.offset + 2 /\ read.at.discarding = at.discarding
       /\ read.at.adjacent = adjacent /\ read.at.sources = sources
       /\ read.seen = entry.seen /\ read.events = entry.events
       /\ read.observed = entry.observed /\ read.suppressed = entry.suppressed
       /\ read.cleared = entry.cleared
  BY <1>1, <1>10, ReadsFields
<1>. HIDE DEF read
<1>12. proc' = [proc EXCEPT ![p] = next]
  BY <1>4, <1>5, <1>11 DEF Entry, read
<1>13. entry.observed \in Seq(Observation) /\ read.batch + 1 \in Nat
  BY <1>1, <1>11, EntryParts
<1>. HIDE DEF new
<1>14. /\ observed \in Seq(Observation)
       /\ DOMAIN entry.observed \subseteq DOMAIN observed
       /\ \A i \in DOMAIN entry.observed : observed[i] = entry.observed[i]
       /\ \A i \in DOMAIN observed : i \in DOMAIN entry.observed \/ observed[i] = new
       /\ \E i \in DOMAIN observed : observed[i] = new
  BY <1>7, <1>13, AppendTo
<1>. HIDE DEF observed
<1>15. /\ next \in Entry /\ next.pc = "reading" /\ next.streamed = entry.streamed
       /\ next.at = read.at /\ next.seen = entry.seen /\ next.events = entry.events
       /\ next.observed = observed /\ next.suppressed = entry.suppressed
       /\ next.cleared = entry.cleared
  BY <1>11, <1>13, <1>14 DEF Entry
<1>. HIDE DEF next, id, previous
<1>16. (at.offset + 2) % 2 = 0 /\ ~at.discarding
  BY <1>1, EvenOffset DEF EntryOK, Placed
<1>17. TornBefore(next)
  BY <1>11, <1>15, <1>16 DEF TornBefore, HalfRead
<1>18. Placed(next.at)
  BY <1>1, <1>3, <1>6, <1>8, <1>11, <1>15, <1>16 DEF EntryOK, Placed
<1>19. Accounted(next)
  BY <1>1, <1>7, <1>9, <1>11, <1>14, <1>15 DEF EntryOK, Accounted
<1>20. Listed(next)
  BY <1>1, <1>15 DEF EntryOK, Listed
<1>21. InHand(next, id) /\ \A x : InHand(entry, x) => InHand(next, x)
  BY <1>7, <1>14, <1>15 DEF InHand
<1>22. Before(next.at) \subseteq Before(at) \cup {Line(at)}
  BY <1>1, <1>11, <1>15, BeforeNext, EntryParts
<1>23. EntryOK(next)
  BY <1>1, <1>2, <1>15, <1>17, <1>18, <1>19, <1>20, <1>21, <1>22, EventOK
<1>. QED BY <1>12, <1>15, <1>23 DEF Reader

LEMMA ReadOK ==
  ASSUME TypeOK, FileWritten, EntriesOK, NEW p \in Ingesters, Read(p)
  PROVE  /\ \E next : Reader(p, next)
         /\ UNCHANGED <<file, memory, ledger, cursor, snapshot, mishaps, history>>
<1>1. \E next : Reader(p, next)
  BY ReadTornOK, ReadOversizedOK, ReadRestOK, ReadNoEventOK, StopOK, ReadNewOK, ReadDuplicateOK
     DEF Read
<1>2. UNCHANGED <<file, memory, ledger, cursor, snapshot, mishaps, history>>
  BY DEF Read, ReadTorn, ReadRest, ReadOversized, Discard, ReadSkipped, Defer, ReadLong,
         ReadNew, ReadDuplicate, StopReading
<1>. QED BY <1>1, <1>2

-----------------------------------------------------------------------------
(***************************************************************************)
(* What steps of others leave alone: the file is not rewritten, and the    *)
(* ledger, the torn lines and the spoiled runs only grow.                  *)
(***************************************************************************)
Forward ==
    /\ content' = content
    /\ ledger \subseteq ledger'
    /\ torn \subseteq torn'
    /\ spoiled => spoiled'

Remembers ==
    ~spoiled' => \A id \in Identity :
        Represented(id, memory) => Represented(id, memory') \/ id.source \in ledger'

LEMMA StillBefore ==
  ASSUME Forward, NEW at
  PROVE  /\ Before(at)' \subseteq Before(at)
         /\ Placed(at) <=> Placed(at)'
BY DEF Forward, Before, Placed, Line

LEMMA EventIds ==
  ASSUME TypeOK, NEW at, NEW k \in Before(at)
  PROVE  content[k].id \in Identity
BY TypedParts DEF Before, Record

LEMMA StillOK ==
  ASSUME TypeOK, Forward, NEW entry, EntryOK(entry),
         entry.pc = "reading" => written' = written,
         Remembers \/ ~entry.streamed \/ spoiled'
  PROVE  EntryOK(entry)'
<1>1. Before(entry.at)' \subseteq Before(entry.at) /\ Placed(entry.at)'
  BY StillBefore DEF EntryOK
<1>2. TornBefore(entry)'
  BY DEF EntryOK, TornBefore, Forward, HalfRead, Line
<1>3. Accounted(entry)' /\ Listed(entry)'
  BY DEF EntryOK, Accounted, Listed, Forward
<1>4. Covered(entry)'
  <2>. SUFFICES ASSUME entry.streamed, ~spoiled', NEW k \in Before(entry.at)'
       PROVE  \/ Represented(content'[k].id, memory') \/ content'[k].id.source \in ledger'
              \/ InHand(entry, content'[k].id)
    BY DEF Covered, InMemory
  <2>1. k \in Before(entry.at) /\ content' = content /\ ~spoiled
    BY <1>1 DEF Forward
  <2>2. InMemory(content[k].id, memory) \/ InHand(entry, content[k].id)
    BY <2>1 DEF EntryOK, Covered
  <2>3. content[k].id \in Identity
    BY <2>1, EventIds
  <2>4. ~spoiled' /\ Remembers
    OBVIOUS
  <2>. QED BY <2>1, <2>2, <2>3, <2>4 DEF InMemory, Remembers, Forward
<1>. QED BY <1>1, <1>2, <1>3, <1>4 DEF EntryOK

LEMMA StillKept ==
  ASSUME Forward, NEW at, Kept(at)
  PROVE  Kept(at)'
BY StillBefore DEF Kept, Forward, HalfRead, Line

LEMMA StillPairs ==
  ASSUME Forward, NEW image, NEW c, Pairs(image, c)
  PROVE  Pairs(image, c)'
<1>1. Before(c)' \subseteq Before(c)
  BY StillBefore
<1>. QED BY <1>1 DEF Pairs, InMemory, Forward

LEMMA BehindIsPairs ==
  CursorBehindEvents <=> (~spoiled => Pairs(memory, cursor))
BY DEF CursorBehindEvents, Pairs, Before, Passed, InMemory

LEMMA StillBehind ==
  ASSUME TypeOK, Forward, Remembers, CursorBehindEvents, cursor' = cursor
  PROVE  CursorBehindEvents'
<1>. SUFFICES ASSUME ~spoiled', NEW k \in DOMAIN content',
                     content'[k].kind = "event", Passed(cursor', k), k \notin torn'
     PROVE  Represented(content'[k].id, memory') \/ content'[k].id.source \in ledger'
  BY DEF CursorBehindEvents
<1>1. k \in Before(cursor) /\ content' = content /\ ~spoiled /\ cursor # Nothing
  BY DEF Forward, Before, Passed
<1>2. InMemory(content[k].id, memory)
  BY <1>1, BehindIsPairs DEF Pairs
<1>3. content[k].id \in Identity
  BY <1>1, EventIds
<1>. QED BY <1>1, <1>2, <1>3 DEF InMemory, Remembers, Forward

LEMMA StillEntries ==
  ASSUME TypeOK, EntriesOK, Forward, Remembers, NEW p \in Ingesters, NEW next \in Entry,
         written' = written, proc' = [proc EXCEPT ![p] = next], EntryOK(next)'
  PROVE  EntriesOK'
<1>. SUFFICES ASSUME NEW q \in Ingesters
     PROVE  EntryOK(proc[q])'
  BY DEF EntriesOK
<1>1. CASE q = p
  BY <1>1, SetTyped
<1>2. CASE q # p
  <2>1. PICK entry : entry = proc[q]
    OBVIOUS
  <2>2. EntryOK(entry)'
    BY <2>1, StillOK DEF EntriesOK
  <2>3. proc'[q] = entry
    BY <1>2, <2>1, SetTyped
  <2>. QED BY <2>2, <2>3
<1>. QED BY <1>1, <1>2

\* A step of an ingest that takes nothing out of memory and stores no cursor.
LEMMA GrowKeeps ==
  ASSUME IInv, NEW p \in Ingesters, NEW next \in Entry,
         proc' = [proc EXCEPT ![p] = next], EntryOK(next)',
         UNCHANGED <<file, ledger, cursor, snapshot, mishaps, history>>,
         memory' \in Image,
         memory.events \subseteq memory'.events, memory.observed \subseteq memory'.observed,
         next.cleared \in {Nothing, proc[p].cleared} \/ next.cleared \notin ledger,
         ForgottenStaysOut'
  PROVE  IInv'
<1>. USE DEF IInv
<1>1. Forward /\ Remembers
  BY DEF file, history, Forward, Remembers, Represented, InMemory
<1>2. UNCHANGED <<content, written, inode, ledger, cursor, snapshot, mishaps, torn, slipped, spoiled>>
  BY DEF file, history
<1>3. TypeOK'
  <2>1. proc' \in [Ingesters -> Entry]
    BY SetTyped
  <2>. QED BY <1>2, <2>1, TypedParts, TypeOKFromParts
<1>4. FileWritten'
  BY <1>2 DEF FileWritten
<1>5. EntriesOK'
  BY <1>1, <1>2, StillEntries
<1>6. CursorsKept'
  BY <1>2 DEF CursorsKept, Kept, Placed, HalfRead, Line
<1>7. CursorBehindEvents'
  BY <1>1, <1>2, StillBehind
<1>8. SnapshotPairs'
  BY <1>2 DEF SnapshotPairs, Pairs, Before, InMemory
<1>9. ClearedSlips'
  <2>1. \A q \in Ingesters : \/ proc'[q].cleared \in {Nothing, proc[q].cleared}
                             \/ proc'[q].cleared \notin ledger
    BY SetTyped
  <2>. QED BY <1>2, <2>1 DEF ClearedSlips
<1>. QED BY <1>3, <1>4, <1>5, <1>6, <1>7, <1>8, <1>9

-----------------------------------------------------------------------------
(***************************************************************************)
(* Ingest, step by step.                                                   *)
(***************************************************************************)
LEMMA ReadKeeps ==
  ASSUME IInv, NEW p \in Ingesters, Read(p)
  PROVE  IInv'
<1>1. PICK next : Reader(p, next)
  BY ReadOK DEF IInv
<1>2. UNCHANGED <<file, memory, ledger, cursor, snapshot, mishaps, history>>
  BY ReadOK DEF IInv
<1>3. Forward /\ Remembers /\ written' = written
  BY <1>2 DEF Forward, Remembers, file, history
<1>4. EntryOK(next)'
  BY <1>1, <1>3, StillOK DEF Reader, IInv
<1>5. memory' = memory /\ memory' \in Image /\ ForgottenStaysOut'
  BY <1>2, TypedParts DEF IInv, ForgottenStaysOut, history
<1>. QED BY <1>1, <1>2, <1>4, <1>5, GrowKeeps DEF Reader

LEMMA NothingBefore ==
  ASSUME TypeOK, NEW at, at.offset = 0
  PROVE  Before(at) = {}
<1>1. \A k \in DOMAIN content : k \in Nat /\ ~(2 * k <= 0)
  BY TypedParts
<1>. QED BY <1>1 DEF Before

LEMMA StartPlaced ==
  ASSUME NEW i \in Nat
  PROVE  Placed(Start(i)) /\ ~HalfRead(Start(i))
<1>1. Start(i).offset % 2 = 0
  BY StartTyped
<1>. QED BY <1>1, StartTyped DEF Placed, HalfRead

LEMMA IdleOK == TypeOK => EntryOK(Idle)
<1>1. Placed(Idle.at)
  BY IdleTyped, StartPlaced
<1>2. DOMAIN Idle.events = {} /\ DOMAIN Idle.observed = {}
  BY IdleTyped
<1>. QED BY <1>1, <1>2, IdleTyped DEF EntryOK, TornBefore, Accounted, Listed, Covered

LEMMA OpenKeeps ==
  ASSUME IInv, NEW p \in Ingesters, Open(p) \/ OpenAtEof(p)
  PROVE  IInv'
<1>. USE DEF IInv
<1>1. PICK next \in Entry :
        /\ proc' = [proc EXCEPT ![p] = next]
        /\ next.pc \in {"reading", "persisting"}
        /\ (next.at = cursor /\ cursor # Nothing) \/ next.at = Start(inode)
        /\ next.seen = {} /\ next.events = <<>> /\ next.observed = <<>>
        /\ next.suppressed = {} /\ next.cleared = Nothing
  <2>1. CASE Open(p)
    <3>. DEFINE at == IF Matches(cursor) THEN cursor ELSE Start(inode)
                next == [Idle EXCEPT !.pc = "reading", !.streamed = TRUE, !.at = at]
    <3>1. at \in Position /\ ((at = cursor /\ cursor # Nothing) \/ at = Start(inode))
      BY TypedParts, StartTyped DEF Matches
    <3>2. proc' = [proc EXCEPT ![p] = next]
      BY <2>1 DEF Open
    <3>. HIDE DEF at
    <3>3. /\ next \in Entry /\ next.pc = "reading" /\ next.streamed = TRUE /\ next.at = at
          /\ next.seen = {} /\ next.events = <<>> /\ next.observed = <<>>
          /\ next.suppressed = {} /\ next.cleared = Nothing
      BY <3>1, IdleTyped DEF Entry
    <3>. HIDE DEF next
    <3>. QED BY <3>1, <3>2, <3>3
  <2>2. CASE OpenAtEof(p)
    <3>. DEFINE next == [Idle EXCEPT !.pc = "persisting", !.at = cursor]
    <3>1. cursor \in Position /\ cursor # Nothing
      BY <2>2, TypedParts DEF OpenAtEof, AtEof, Matches
    <3>2. proc' = [proc EXCEPT ![p] = next]
      BY <2>2 DEF OpenAtEof
    <3>3. /\ next \in Entry /\ next.pc = "persisting" /\ next.at = cursor
          /\ next.seen = {} /\ next.events = <<>> /\ next.observed = <<>>
          /\ next.suppressed = {} /\ next.cleared = Nothing
      BY <3>1, IdleTyped DEF Entry
    <3>. HIDE DEF next
    <3>. QED BY <3>1, <3>2, <3>3
  <2>. QED BY <2>1, <2>2
<1>2. UNCHANGED <<file, memory, ledger, cursor, snapshot, mishaps, history>>
  BY DEF Open, OpenAtEof
<1>3. Placed(next.at) /\ (HalfRead(next.at) => Line(next.at) \in torn)
  BY <1>1, StartPlaced, TypedParts DEF CursorsKept, Kept
<1>4. DOMAIN next.events = {} /\ DOMAIN next.observed = {}
  BY <1>1
<1>5. Accounted(next) /\ Listed(next) /\ TornBefore(next)
  BY <1>1, <1>3, <1>4 DEF Accounted, Listed, TornBefore
<1>6. Covered(next)
  <2>1. CASE next.at = cursor /\ cursor # Nothing
    BY <2>1, BehindIsPairs DEF Covered, Pairs
  <2>2. CASE next.at = Start(inode)
    BY <2>2, NothingBefore, StartTyped, TypedParts DEF Covered
  <2>. QED BY <1>1, <2>1, <2>2
<1>7. EntryOK(next)
  BY <1>1, <1>3, <1>5, <1>6 DEF EntryOK
<1>8. Forward /\ Remembers /\ written' = written
  BY <1>2 DEF Forward, Remembers, file, history
<1>9. EntryOK(next)'
  BY <1>7, <1>8, StillOK
<1>10. memory' = memory /\ memory' \in Image /\ ForgottenStaysOut'
  BY <1>2, TypedParts DEF ForgottenStaysOut, history
<1>. HIDE DEF IInv
<1>. QED BY <1>1, <1>2, <1>9, <1>10, GrowKeeps

LEMMA CheckKeeps ==
  ASSUME IInv, NEW p \in Ingesters, CheckSource(p)
  PROVE  IInv'
<1>. DEFINE s == CHOOSE s \in Sources : s \in Unchecked(p)
            entry == proc[p]
<1>1. entry \in Entry /\ EntryOK(entry) /\ entry.at.sources \in SUBSET Sources
  BY TypedParts, EntryParts DEF IInv, EntriesOK
<1>2. s \in Sources
  BY <1>1 DEF CheckSource, Unchecked
<1>3. /\ proc' = IF s \in ledger THEN [proc EXCEPT ![p].suppressed = @ \cup {s}]
                                 ELSE [proc EXCEPT ![p].cleared = s]
      /\ UNCHANGED <<file, memory, ledger, cursor, snapshot, mishaps, history>>
  BY DEF CheckSource
<1>. HIDE DEF s
<1>4. PICK next \in Entry :
        /\ proc' = [proc EXCEPT ![p] = next]
        /\ next.pc = entry.pc /\ next.at = entry.at /\ next.streamed = entry.streamed
        /\ next.seen = entry.seen /\ next.events = entry.events
        /\ next.observed = entry.observed
        /\ next.suppressed \subseteq entry.suppressed \cup (ledger \cap {s})
        /\ next.cleared = entry.cleared \/ next.cleared \notin ledger
  <2>1. CASE s \in ledger
    <3>. DEFINE suppressed == entry.suppressed \cup {s}
                next == [entry EXCEPT !.suppressed = suppressed]
    <3>1. suppressed \in SUBSET Sources
      BY <1>1, <1>2, EntryParts
    <3>2. proc' = [proc EXCEPT ![p] = next]
      BY <1>3, <2>1
    <3>. HIDE DEF suppressed
    <3>3. /\ next \in Entry /\ next.pc = entry.pc /\ next.at = entry.at
          /\ next.streamed = entry.streamed /\ next.seen = entry.seen
          /\ next.events = entry.events /\ next.observed = entry.observed
          /\ next.suppressed = suppressed /\ next.cleared = entry.cleared
      BY <1>1, <3>1 DEF Entry
    <3>. HIDE DEF next
    <3>. QED BY <2>1, <3>2, <3>3 DEF suppressed
  <2>2. CASE s \notin ledger
    <3>. DEFINE next == [entry EXCEPT !.cleared = s]
    <3>1. proc' = [proc EXCEPT ![p] = next]
      BY <1>3, <2>2
    <3>2. /\ next \in Entry /\ next.pc = entry.pc /\ next.at = entry.at
          /\ next.streamed = entry.streamed /\ next.seen = entry.seen
          /\ next.events = entry.events /\ next.observed = entry.observed
          /\ next.suppressed = entry.suppressed /\ next.cleared = s
      BY <1>1, <1>2 DEF Entry
    <3>. HIDE DEF next
    <3>. QED BY <2>2, <3>1, <3>2
  <2>. QED BY <2>1, <2>2
<1>5. EntryOK(next)
  <2>1. \A id : InHand(next, id) <=> InHand(entry, id)
    BY <1>4 DEF InHand
  <2>. QED BY <1>1, <1>4, <2>1
           DEF EntryOK, TornBefore, Accounted, Listed, Covered
<1>6. Forward /\ Remembers /\ written' = written
  BY <1>3 DEF Forward, Remembers, file, history
<1>7. EntryOK(next)'
  BY <1>5, <1>6, StillOK DEF IInv
<1>8. memory' = memory /\ memory' \in Image /\ ForgottenStaysOut'
  BY <1>3, TypedParts DEF IInv, ForgottenStaysOut, history
<1>. QED BY <1>3, <1>4, <1>7, <1>8, GrowKeeps

LEMMA RegisterKeeps ==
  ASSUME IInv, NEW p \in Ingesters, RegisterSource(p)
  PROVE  IInv'
<1>. DEFINE entry == proc[p]
            s == entry.cleared
            kept == entry.kept \cup {s}
            after == [entry EXCEPT !.kept = kept, !.cleared = Nothing]
<1>1. entry \in Entry /\ EntryOK(entry)
  BY TypedParts DEF IInv, EntriesOK
<1>2. s # Nothing /\ s \in Sources
  BY <1>1, EntryParts DEF RegisterSource
<1>3. /\ memory' = [memory EXCEPT !.sources = @ \cup {s}]
      /\ proc' = [proc EXCEPT ![p].kept = @ \cup {s}, ![p].cleared = Nothing]
      /\ UNCHANGED <<file, ledger, cursor, snapshot, mishaps, history>>
  BY DEF RegisterSource
<1>4. kept \in SUBSET Sources
  BY <1>1, <1>2, EntryParts
<1>5. proc' = [proc EXCEPT ![p] = after]
  BY <1>1, <1>3, TypedParts DEF IInv, Entry
<1>. HIDE DEF kept
<1>6. PICK next \in Entry :
        /\ proc' = [proc EXCEPT ![p] = next]
        /\ next.pc = entry.pc /\ next.at = entry.at
        /\ next.streamed = entry.streamed /\ next.seen = entry.seen
        /\ next.events = entry.events /\ next.observed = entry.observed
        /\ next.suppressed = entry.suppressed /\ next.cleared = Nothing
  <2>1. /\ after \in Entry /\ after.pc = entry.pc /\ after.at = entry.at
        /\ after.streamed = entry.streamed /\ after.seen = entry.seen
        /\ after.events = entry.events /\ after.observed = entry.observed
        /\ after.suppressed = entry.suppressed /\ after.cleared = Nothing
    BY <1>1, <1>4 DEF Entry
  <2>. HIDE DEF after
  <2>. QED BY <1>5, <2>1
<1>. HIDE DEF after
<1>7. EntryOK(next)
  <2>1. \A id : InHand(next, id) <=> InHand(entry, id)
    BY <1>6 DEF InHand
  <2>. QED BY <1>1, <1>6, <2>1 DEF EntryOK, TornBefore, Accounted, Listed, Covered
<1>8. /\ memory' \in Image
      /\ memory'.sources = memory.sources \cup {s}
      /\ memory'.events = memory.events /\ memory'.observed = memory.observed
  BY <1>2, <1>3, TypedParts DEF IInv, Image
<1>9. Forward /\ Remembers /\ written' = written
  BY <1>3, <1>8 DEF Forward, Remembers, Represented, file, history
<1>10. EntryOK(next)'
  BY <1>7, <1>9, StillOK DEF IInv
<1>11. s \in ledger => s \in slipped
  BY <1>2 DEF IInv, ClearedSlips
<1>12. ForgottenStaysOut'
  BY <1>3, <1>8, <1>11 DEF IInv, ForgottenStaysOut, history
<1>. QED BY <1>3, <1>6, <1>8, <1>10, <1>12, GrowKeeps

LEMMA HeadAndTail ==
  ASSUME NEW S, NEW list \in Seq(S), list # <<>>
  PROVE  /\ Head(list) \in S /\ Tail(list) \in Seq(S)
         /\ 1 \in DOMAIN list /\ list[1] = Head(list)
         /\ \A i \in DOMAIN list : i = 1 \/ \E j \in DOMAIN Tail(list) : Tail(list)[j] = list[i]
         /\ \A j \in DOMAIN Tail(list) : \E i \in DOMAIN list : Tail(list)[j] = list[i]
<1>1. /\ Len(list) \in Nat \ {0} /\ DOMAIN list = 1 .. Len(list)
      /\ Len(Tail(list)) = Len(list) - 1 /\ DOMAIN Tail(list) = 1 .. Len(list) - 1
      /\ Tail(list) \in Seq(S) /\ Head(list) = list[1]
  OBVIOUS
<1>2. \A j \in 1 .. Len(list) - 1 : Tail(list)[j] = list[j + 1]
  OBVIOUS
<1>3. 1 \in DOMAIN list /\ Head(list) \in S
  BY <1>1
<1>4. ASSUME NEW i \in DOMAIN list, i # 1
      PROVE  \E j \in DOMAIN Tail(list) : Tail(list)[j] = list[i]
  <2>1. i - 1 \in 1 .. Len(list) - 1 /\ (i - 1) + 1 = i
    BY <1>1, <1>4
  <2>. QED BY <1>1, <1>2, <2>1
<1>5. ASSUME NEW j \in DOMAIN Tail(list)
      PROVE  \E i \in DOMAIN list : Tail(list)[j] = list[i]
  <2>1. j + 1 \in 1 .. Len(list) /\ j \in 1 .. Len(list) - 1
    BY <1>1
  <2>. QED BY <1>1, <1>2, <2>1
<1>. QED BY <1>1, <1>3, <1>4, <1>5

\* One thing leaves the hands of an ingest.
LEMMA HandOver ==
  ASSUME NEW entry, NEW next, EntryOK(entry)', entry.pc = "persisting",
         next.pc = "persisting", next.at = entry.at, next.streamed = entry.streamed,
         next.suppressed = entry.suppressed,
         \A i \in DOMAIN next.events : \E j \in DOMAIN entry.events :
            next.events[i] = entry.events[j],
         \A i \in DOMAIN next.observed : \E j \in DOMAIN entry.observed :
            next.observed[i] = entry.observed[j],
         \A id : InHand(entry, id) =>
                   InHand(next, id) \/ Represented(id, memory') \/ id.source \in ledger'
  PROVE  EntryOK(next)'
<1>1. Placed(next.at)' /\ TornBefore(next)' /\ Listed(next)'
  BY DEF EntryOK, TornBefore, Listed
<1>2. Accounted(next)'
  BY DEF EntryOK, Accounted
<1>3. Covered(next)'
  BY DEF EntryOK, Covered, InMemory
<1>. QED BY <1>1, <1>2, <1>3 DEF EntryOK

\* A source that was checked is kept or forgotten.
LEMMA Settled ==
  ASSUME IInv, NEW p \in Ingesters, Registered(p), NEW s \in proc[p].at.sources
  PROVE  s \in proc[p].kept \/ s \in ledger
BY DEF Registered, Unchecked, IInv, EntriesOK, EntryOK, Accounted

\* An ingest that ends leaves memory and cursors as they are.
LEMMA FailsKeeps ==
  ASSUME IInv, NEW p \in Ingesters, Fails(p),
         UNCHANGED <<file, memory, ledger, cursor, snapshot, mishaps, history>>
  PROVE  IInv'
<1>1. Forward /\ Remembers /\ written' = written
  BY DEF Forward, Remembers, file, history
<1>2. PICK next \in Entry : next = Idle
  BY IdleTyped
<1>3. EntryOK(next) /\ next.cleared = Nothing /\ proc' = [proc EXCEPT ![p] = next]
  BY <1>2, IdleOK, IdleTyped DEF IInv, Fails
<1>4. EntryOK(next)'
  BY <1>1, <1>3, StillOK DEF IInv
<1>5. memory' = memory /\ memory' \in Image /\ ForgottenStaysOut'
  BY TypedParts DEF IInv, ForgottenStaysOut, history
<1>. QED BY <1>2, <1>3, <1>4, <1>5, GrowKeeps

LEMMA StoreEventKeeps ==
  ASSUME IInv, NEW p \in Ingesters, StoreEvent(p)
  PROVE  IInv'
<1>1. PICK entry \in Entry : entry = proc[p]
  BY TypedParts DEF IInv
<1>. DEFINE e == Head(entry.events)
<1>2. /\ EntryOK(entry) /\ entry.pc = "persisting" /\ entry.events # <<>>
      /\ entry.events \in Seq(Identity)
  BY <1>1, EntryParts DEF IInv, EntriesOK, StoreEvent, Registered, Persisting
<1>3. /\ e \in Identity /\ Tail(entry.events) \in Seq(Identity)
      /\ 1 \in DOMAIN entry.events /\ entry.events[1] = e
      /\ \A i \in DOMAIN entry.events :
            i = 1 \/ \E j \in DOMAIN Tail(entry.events) :
                        Tail(entry.events)[j] = entry.events[i]
      /\ \A j \in DOMAIN Tail(entry.events) : \E i \in DOMAIN entry.events :
            Tail(entry.events)[j] = entry.events[i]
  BY <1>2, HeadAndTail
<1>4. e.source \in entry.kept \/ e.source \in ledger
  BY <1>1, <1>2, <1>3, Settled DEF StoreEvent, EntryOK, Accounted
<1>5. /\ memory' = [memory EXCEPT !.events =
             IF e.source \in entry.kept \cap memory.sources THEN @ \cup {e} ELSE @]
      /\ UNCHANGED <<file, ledger, cursor, snapshot, mishaps, history>>
      /\ IF e.source \in entry.kept /\ e.source \notin memory.sources
         THEN Fails(p)
         ELSE proc' = [proc EXCEPT ![p].events = Tail(@)]
  BY <1>1 DEF StoreEvent
<1>. HIDE DEF e
<1>6. CASE e.source \in entry.kept /\ e.source \notin memory.sources
  <2>1. memory' = memory
    BY <1>5, <1>6, TypedParts DEF IInv, Image
  <2>. QED BY <1>5, <1>6, <2>1, FailsKeeps
<1>7. CASE ~(e.source \in entry.kept /\ e.source \notin memory.sources)
  <2>. DEFINE after == [entry EXCEPT !.events = Tail(entry.events)]
  <2>1. proc' = [proc EXCEPT ![p] = after]
    BY <1>1, <1>5, <1>7
  <2>2. /\ after \in Entry /\ after.pc = entry.pc /\ after.at = entry.at
        /\ after.streamed = entry.streamed /\ after.events = Tail(entry.events)
        /\ after.observed = entry.observed /\ after.suppressed = entry.suppressed
        /\ after.cleared = entry.cleared
    BY <1>3 DEF Entry
  <2>. HIDE DEF after
  <2>3. PICK next \in Entry :
          /\ proc' = [proc EXCEPT ![p] = next]
          /\ next.pc = "persisting" /\ next.at = entry.at
          /\ next.streamed = entry.streamed /\ next.events = Tail(entry.events)
          /\ next.observed = entry.observed /\ next.suppressed = entry.suppressed
          /\ next.cleared = proc[p].cleared
    BY <1>1, <1>2, <2>1, <2>2
  <2>4. /\ memory' \in Image /\ memory'.sources = memory.sources
        /\ memory'.observed = memory.observed
        /\ memory'.events = IF e.source \in entry.kept \cap memory.sources
                            THEN memory.events \cup {e} ELSE memory.events
    BY <1>3, <1>5, TypedParts DEF IInv, Image
  <2>5. Forward /\ Remembers /\ written' = written /\ ledger' = ledger
    BY <1>5, <2>4 DEF Forward, Remembers, Represented, file, history
  <2>6. EntryOK(entry)'
    BY <1>2, <2>5, StillOK DEF IInv
  <2>7. ASSUME NEW id, InHand(entry, id)
        PROVE  InHand(next, id) \/ Represented(id, memory') \/ id.source \in ledger'
    <3>1. CASE \E i \in DOMAIN entry.observed : entry.observed[i].of = id
      BY <2>3, <3>1 DEF InHand
    <3>2. CASE \E i \in DOMAIN entry.events : Alike(entry.events[i], id)
      <4>1. PICK i \in DOMAIN entry.events : Alike(entry.events[i], id)
        BY <3>2
      <4>2. CASE i = 1
        <5>1. Alike(e, id) /\ e.source = id.source
          BY <1>3, <4>1, <4>2 DEF Alike
        <5>2. CASE e.source \in entry.kept
          BY <1>7, <2>4, <5>1, <5>2 DEF Represented
        <5>3. CASE e.source \in ledger
          BY <2>5, <5>1, <5>3
        <5>. QED BY <1>4, <5>2, <5>3
      <4>3. CASE i # 1
        <5>1. PICK j \in DOMAIN Tail(entry.events) : Tail(entry.events)[j] = entry.events[i]
          BY <1>3, <4>3
        <5>2. j \in DOMAIN next.events /\ next.events[j] = entry.events[i]
          BY <2>3, <5>1
        <5>. QED BY <4>1, <5>2 DEF InHand
      <4>. QED BY <4>2, <4>3
    <3>. QED BY <2>7, <3>1, <3>2 DEF InHand
  <2>8. EntryOK(next)'
    <3>1. \A i \in DOMAIN next.events : \E j \in DOMAIN entry.events :
             next.events[i] = entry.events[j]
      BY <1>3, <2>3
    <3>2. \A i \in DOMAIN next.observed : \E j \in DOMAIN entry.observed :
             next.observed[i] = entry.observed[j]
      BY <2>3
    <3>. QED BY <1>2, <2>3, <2>6, <2>7, <3>1, <3>2, HandOver
  <2>9. ForgottenStaysOut'
    BY <1>5, <2>4 DEF IInv, ForgottenStaysOut, history
  <2>10. memory.events \subseteq memory'.events /\ memory.observed \subseteq memory'.observed
    BY <2>4
  <2>. QED BY <1>5, <2>3, <2>4, <2>8, <2>9, <2>10, GrowKeeps
<1>. QED BY <1>6, <1>7

LEMMA StoreObservationKeeps ==
  ASSUME IInv, NEW p \in Ingesters, StoreObservation(p)
  PROVE  IInv'
<1>1. PICK entry \in Entry : entry = proc[p]
  BY TypedParts DEF IInv
<1>. DEFINE o == Head(entry.observed)
<1>2. /\ EntryOK(entry) /\ entry.pc = "persisting" /\ entry.observed # <<>>
      /\ entry.observed \in Seq(Observation)
  BY <1>1, EntryParts DEF IInv, EntriesOK, StoreObservation, Registered, Persisting
<1>3. /\ o \in Observation /\ Tail(entry.observed) \in Seq(Observation)
      /\ 1 \in DOMAIN entry.observed /\ entry.observed[1] = o
      /\ \A i \in DOMAIN entry.observed :
            i = 1 \/ \E j \in DOMAIN Tail(entry.observed) :
                        Tail(entry.observed)[j] = entry.observed[i]
      /\ \A j \in DOMAIN Tail(entry.observed) : \E i \in DOMAIN entry.observed :
            Tail(entry.observed)[j] = entry.observed[i]
  BY <1>2, HeadAndTail
<1>4. /\ o.of.source \in entry.kept \/ o.of.source \in ledger
      /\ o.representative.source = o.of.source
  BY <1>1, <1>2, <1>3, Settled DEF StoreObservation, EntryOK, Accounted
<1>5. /\ memory' = [memory EXCEPT !.observed =
             IF o.of.source \in entry.kept /\ Resolves(o) THEN @ \cup {o} ELSE @]
      /\ UNCHANGED <<file, ledger, cursor, snapshot, mishaps, history>>
      /\ IF o.of.source \in entry.kept /\ ~Resolves(o)
         THEN Fails(p)
         ELSE proc' = [proc EXCEPT ![p].observed = Tail(@)]
  BY <1>1 DEF StoreObservation
<1>. HIDE DEF o
<1>6. CASE o.of.source \in entry.kept /\ ~Resolves(o)
  <2>1. memory' = memory
    BY <1>5, <1>6, TypedParts DEF IInv, Image
  <2>. QED BY <1>5, <1>6, <2>1, FailsKeeps
<1>7. CASE ~(o.of.source \in entry.kept /\ ~Resolves(o))
  <2>. DEFINE after == [entry EXCEPT !.observed = Tail(entry.observed)]
  <2>1. proc' = [proc EXCEPT ![p] = after]
    BY <1>1, <1>5, <1>7
  <2>2. /\ after \in Entry /\ after.pc = entry.pc /\ after.at = entry.at
        /\ after.streamed = entry.streamed /\ after.events = entry.events
        /\ after.observed = Tail(entry.observed) /\ after.suppressed = entry.suppressed
        /\ after.cleared = entry.cleared
    BY <1>3 DEF Entry
  <2>. HIDE DEF after
  <2>3. PICK next \in Entry :
          /\ proc' = [proc EXCEPT ![p] = next]
          /\ next.pc = "persisting" /\ next.at = entry.at
          /\ next.streamed = entry.streamed /\ next.observed = Tail(entry.observed)
          /\ next.events = entry.events /\ next.suppressed = entry.suppressed
          /\ next.cleared = proc[p].cleared
    BY <1>1, <1>2, <2>1, <2>2
  <2>4. /\ memory' \in Image /\ memory'.sources = memory.sources
        /\ memory'.events = memory.events
        /\ memory'.observed = IF o.of.source \in entry.kept /\ Resolves(o)
                              THEN memory.observed \cup {o} ELSE memory.observed
    BY <1>3, <1>5, TypedParts DEF IInv, Image
  <2>5. Forward /\ Remembers /\ written' = written /\ ledger' = ledger
    BY <1>5, <2>4 DEF Forward, Remembers, Represented, file, history
  <2>6. EntryOK(entry)'
    BY <1>2, <2>5, StillOK DEF IInv
  <2>7. ASSUME NEW id, InHand(entry, id)
        PROVE  InHand(next, id) \/ Represented(id, memory') \/ id.source \in ledger'
    <3>1. CASE \E i \in DOMAIN entry.events : Alike(entry.events[i], id)
      BY <2>3, <3>1 DEF InHand
    <3>2. CASE \E i \in DOMAIN entry.observed : entry.observed[i].of = id
      <4>1. PICK i \in DOMAIN entry.observed : entry.observed[i].of = id
        BY <3>2
      <4>2. CASE i = 1
        <5>1. o.of = id
          BY <1>3, <4>1, <4>2
        <5>2. CASE o.of.source \in entry.kept
          BY <1>7, <2>4, <5>1, <5>2 DEF Represented
        <5>3. CASE o.of.source \in ledger
          BY <2>5, <5>1, <5>3
        <5>. QED BY <1>4, <5>2, <5>3
      <4>3. CASE i # 1
        <5>1. PICK j \in DOMAIN Tail(entry.observed) : Tail(entry.observed)[j] = entry.observed[i]
          BY <1>3, <4>3
        <5>2. j \in DOMAIN next.observed /\ next.observed[j] = entry.observed[i]
          BY <2>3, <5>1
        <5>. QED BY <4>1, <5>2 DEF InHand
      <4>. QED BY <4>2, <4>3
    <3>. QED BY <2>7, <3>1, <3>2 DEF InHand
  <2>8. EntryOK(next)'
    <3>1. \A i \in DOMAIN next.observed : \E j \in DOMAIN entry.observed :
             next.observed[i] = entry.observed[j]
      BY <1>3, <2>3
    <3>2. \A i \in DOMAIN next.events : \E j \in DOMAIN entry.events :
             next.events[i] = entry.events[j]
      BY <2>3
    <3>. QED BY <1>2, <2>3, <2>6, <2>7, <3>1, <3>2, HandOver
  <2>9. ForgottenStaysOut'
    <3>1. Resolves(o) => o.representative \in memory.events
      BY DEF Resolves
    <3>. QED BY <1>4, <1>5, <2>4, <3>1 DEF IInv, ForgottenStaysOut, history
  <2>10. memory.events \subseteq memory'.events /\ memory.observed \subseteq memory'.observed
    BY <2>4
  <2>. QED BY <1>5, <2>3, <2>4, <2>8, <2>9, <2>10, GrowKeeps
<1>. QED BY <1>6, <1>7
\* Entries of ingests that do not step, or end.
LEMMA OthersEntries ==
  ASSUME TypeOK, EntriesOK, NobodyReads, Forward,
         \A q \in Ingesters : proc'[q] = proc[q] \/ proc'[q] = Idle,
         \A q \in Ingesters : Remembers \/ ~proc[q].streamed \/ spoiled'
  PROVE  EntriesOK'
<1>. SUFFICES ASSUME NEW q \in Ingesters
     PROVE  EntryOK(proc[q])'
  BY DEF EntriesOK
<1>1. CASE proc'[q] = proc[q]
  <2>1. PICK entry : entry = proc[q]
    OBVIOUS
  <2>2. EntryOK(entry) /\ entry.pc # "reading"
    BY <2>1 DEF EntriesOK, NobodyReads
  <2>3. EntryOK(entry)'
    BY <2>1, <2>2, StillOK
  <2>. QED BY <1>1, <2>1, <2>3
<1>2. CASE proc'[q] = Idle
  <2>1. PICK entry \in Entry : entry = Idle
    BY IdleTyped
  <2>2. EntryOK(entry) /\ entry.pc # "reading" /\ ~entry.streamed
    BY <2>1, IdleOK, IdleTyped
  <2>3. EntryOK(entry)'
    BY <2>2, StillOK
  <2>. QED BY <1>2, <2>1, <2>3
<1>. QED BY <1>1, <1>2

LEMMA StillCursors ==
  ASSUME CursorsKept, Forward, cursor' \in {Nothing, cursor, snapshot.cursor},
         snapshot'.cursor \in {Nothing, cursor, snapshot.cursor}
  PROVE  CursorsKept'
<1>1. PICK c, d : c = cursor' /\ d = snapshot'.cursor
  OBVIOUS
<1>2. (c # Nothing => Kept(c)) /\ (d # Nothing => Kept(d))
  BY <1>1 DEF CursorsKept
<1>3. (c # Nothing => Kept(c)') /\ (d # Nothing => Kept(d)')
  BY <1>2, StillKept
<1>. QED BY <1>1, <1>3 DEF CursorsKept

LEMMA CommitKeeps ==
  ASSUME IInv, NobodyReads, NEW p \in Ingesters, Commit(p)
  PROVE  IInv'
<1>. USE DEF IInv
<1>1. PICK entry \in Entry : entry = proc[p]
  BY TypedParts
<1>2. /\ EntryOK(entry) /\ entry.events = <<>> /\ entry.observed = <<>>
      /\ entry.at \in Position
  BY <1>1, EntryParts DEF EntriesOK, Commit
<1>3. /\ cursor' = IF entry.streamed THEN entry.at ELSE cursor
      /\ snapshot' = [snapshot EXCEPT
             !.cut = @ \/ (snapshot.stage = "memory" /\ entry.streamed)]
      /\ torn' = IF entry.streamed /\ HalfRead(entry.at)
                 THEN torn \cup {Line(entry.at)} ELSE torn
      /\ proc' = [proc EXCEPT ![p] = Idle]
      /\ UNCHANGED <<content, written, inode, memory, ledger, mishaps, slipped, spoiled>>
  BY <1>1 DEF Commit, Commits, Cursors, HalfRead, file
<1>4. Line(entry.at) \in Nat
  <2>1. PICK n \in Nat : n = entry.at.offset
    BY EntryParts
  <2>2. n \div 2 + 1 \in Nat
    BY <2>1, Parity, EvenOffset, OddOffset
  <2>. QED BY <2>1, <2>2 DEF Line
<1>5. /\ Forward /\ Remembers /\ torn' \in SUBSET Nat
  BY <1>3, <1>4, TypedParts DEF Forward, Remembers
<1>6. /\ snapshot' \in SnapshotRecord /\ snapshot'.stage = snapshot.stage
      /\ snapshot'.memory = snapshot.memory /\ snapshot'.cursor = snapshot.cursor
      /\ snapshot'.cut <=> (snapshot.cut \/ (snapshot.stage = "memory" /\ entry.streamed))
  <2>1. PICK cut \in BOOLEAN :
           cut <=> (snapshot.cut \/ (snapshot.stage = "memory" /\ entry.streamed))
    OBVIOUS
  <2>2. snapshot' = [snapshot EXCEPT !.cut = cut]
    BY <1>3, <2>1, TypedParts, EntryParts DEF SnapshotRecord
  <2>. QED BY <2>1, <2>2, TypedParts DEF SnapshotRecord
<1>7. TypeOK'
  <2>1. proc' \in [Ingesters -> Entry]
    BY <1>3, IdleTyped, SetTyped
  <2>. QED BY <1>2, <1>3, <1>5, <1>6, <2>1, TypedParts, TypeOKFromParts
<1>8. FileWritten'
  BY <1>3 DEF FileWritten
<1>9. \A q \in Ingesters : proc'[q] = proc[q] \/ proc'[q] = Idle
  BY <1>3, TypedParts
<1>10. EntriesOK'
  BY <1>5, <1>9, OthersEntries
<1>11. CursorsKept'
  <2>1. PICK c, d : c = cursor' /\ d = snapshot'.cursor
    OBVIOUS
  <2>2. d # Nothing => Kept(d)'
    BY <1>5, <1>6, <2>1, StillKept DEF CursorsKept
  <2>3. CASE entry.streamed
    <3>1. c = entry.at /\ Placed(entry.at)'
      BY <1>2, <1>3, <1>5, <2>1, <2>3, StillBefore DEF EntryOK
    <3>2. HalfRead(entry.at) => Line(entry.at) \in torn'
      BY <1>3, <2>3
    <3>3. Kept(c)'
      BY <3>1, <3>2 DEF Kept, HalfRead, Line
    <3>. QED BY <2>1, <2>2, <3>3 DEF CursorsKept
  <2>4. CASE ~entry.streamed
    <3>1. c # Nothing => Kept(c)'
      BY <1>3, <1>5, <2>1, <2>4, StillKept DEF CursorsKept
    <3>. QED BY <2>1, <2>2, <3>1 DEF CursorsKept
  <2>. QED BY <2>3, <2>4
<1>12. CursorBehindEvents'
  <2>1. CASE entry.streamed
    <3>1. PICK image, c : image = memory /\ c = entry.at
      OBVIOUS
    <3>2. \A id : ~InHand(entry, id)
      BY <1>2 DEF InHand
    <3>3. ~spoiled => Pairs(image, c)
      BY <1>2, <2>1, <3>1, <3>2 DEF EntryOK, Covered, Pairs
    <3>4. ~spoiled => Pairs(image, c)'
      BY <1>5, <3>3, StillPairs
    <3>5. memory' = image /\ cursor' = c /\ spoiled' = spoiled
      BY <1>3, <2>1, <3>1
    <3>6. ~spoiled' => Pairs(memory, cursor)'
      BY <3>4, <3>5
    <3>. QED BY <3>6 DEF CursorBehindEvents, Pairs, Before, Passed, InMemory
  <2>2. CASE ~entry.streamed
    BY <1>3, <1>5, <2>2, StillBehind
  <2>. QED BY <2>1, <2>2
<1>13. SnapshotPairs'
  <2>. SUFFICES ASSUME ~spoiled', ~snapshot'.cut
       PROVE  /\ snapshot'.stage = "memory" => Pairs(snapshot.memory, cursor)'
              /\ snapshot'.stage = "whole" => Pairs(snapshot.memory, snapshot.cursor)'
    BY DEF SnapshotPairs
  <2>1. PICK image, c, d : image = snapshot.memory /\ c = cursor /\ d = snapshot.cursor
    OBVIOUS
  <2>2. /\ snapshot.stage = "memory" => Pairs(image, c)
        /\ snapshot.stage = "whole" => Pairs(image, d)
    BY <1>3, <1>6, <2>1 DEF SnapshotPairs
  <2>3. /\ snapshot.stage = "memory" => Pairs(image, c)'
        /\ snapshot.stage = "whole" => Pairs(image, d)'
    BY <1>5, <2>2, StillPairs
  <2>4. snapshot.stage = "memory" => cursor' = c
    BY <1>3, <1>6, <2>1
  <2>5. snapshot'.memory = image /\ snapshot'.cursor = d
    BY <1>6, <2>1
  <2>. QED BY <1>6, <2>3, <2>4, <2>5
<1>14. ClearedSlips'
  BY <1>3, <1>9, IdleTyped DEF ClearedSlips
<1>15. ForgottenStaysOut'
  BY <1>3 DEF ForgottenStaysOut
<1>. QED BY <1>7, <1>8, <1>10, <1>11, <1>12, <1>13, <1>14, <1>15

-----------------------------------------------------------------------------
(***************************************************************************)
(* The steps of others.                                                    *)
(***************************************************************************)
\* A step that leaves both databases and the snapshot alone.
LEMMA QuietKeeps ==
  ASSUME IInv, NobodyReads, TypeOK', FileWritten',
         UNCHANGED <<content, memory, ledger, cursor, snapshot, history>>,
         \A q \in Ingesters : proc'[q] = proc[q] \/ proc'[q] = Idle
  PROVE  IInv'
<1>. USE DEF IInv
<1>1. UNCHANGED <<content, memory, ledger, cursor, snapshot, torn, slipped, spoiled>>
  BY DEF history
<1>2. Forward /\ Remembers
  BY <1>1 DEF Forward, Remembers
<1>3. EntriesOK'
  BY <1>2, OthersEntries
<1>4. CursorsKept'
  BY <1>1, <1>2, StillCursors
<1>5. CursorBehindEvents'
  BY <1>1, <1>2, StillBehind
<1>6. SnapshotPairs'
  BY <1>1 DEF SnapshotPairs, Pairs, Before, InMemory
<1>7. ClearedSlips'
  BY <1>1, IdleTyped DEF ClearedSlips
<1>8. ForgottenStaysOut'
  BY <1>1 DEF ForgottenStaysOut
<1>. QED BY <1>3, <1>4, <1>5, <1>6, <1>7, <1>8

LEMMA OneMoreMishap ==
  ASSUME TypeOK, mishaps < MaxMishaps
  PROVE  mishaps + 1 \in 0 .. MaxMishaps
BY TypedParts, MishapsAssumption

LEMMA WriteKeeps ==
  ASSUME IInv, NobodyReads, WriteLine \/ WriteHalf \/ ReplaceFile
  PROVE  IInv'
<1>. USE DEF IInv
<1>1. UNCHANGED <<content, memory, ledger, cursor, snapshot, proc, history>>
  BY DEF WriteLine, WriteHalf, ReplaceFile
<1>2. PICK n \in Nat : n = written
  BY TypedParts
<1>3. PICK m \in Nat : m = Len(content)
  BY TypedParts
<1>4. written' \in Nat /\ written' <= 2 * Len(content)
  <2>1. CASE WriteLine
    BY <1>2, <1>3, <2>1, NextLine DEF WriteLine
  <2>2. CASE WriteHalf
    <3>1. n < 2 * m /\ n % 2 = 0 /\ written' = n + 1
      BY <1>2, <1>3, <2>2 DEF WriteHalf
    <3>2. n + 1 <= 2 * m /\ n + 1 \in Nat
      BY <3>1, NextLine
    <3>. QED BY <1>3, <3>1, <3>2
  <2>3. CASE ReplaceFile
    BY <1>2, <2>3 DEF ReplaceFile, FileWritten
  <2>. QED BY <2>1, <2>2, <2>3
<1>5. inode' \in Nat /\ mishaps' \in 0 .. MaxMishaps
  BY TypedParts, OneMoreMishap DEF WriteLine, WriteHalf, ReplaceFile
<1>6. TypeOK'
  BY <1>1, <1>4, <1>5, TypedParts, TypeOKFromParts DEF history
<1>7. FileWritten'
  BY <1>1, <1>4 DEF FileWritten
<1>. QED BY <1>1, <1>6, <1>7, QuietKeeps

LEMMA KillKeeps ==
  ASSUME IInv, NobodyReads, NEW p \in Ingesters, Kill(p)
  PROVE  IInv'
<1>. USE DEF IInv
<1>1. /\ mishaps' \in 0 .. MaxMishaps /\ proc' = [proc EXCEPT ![p] = Idle]
      /\ UNCHANGED <<content, written, inode, memory, ledger, cursor, snapshot, history>>
  BY OneMoreMishap DEF Kill, file
<1>2. /\ proc' \in [Ingesters -> Entry]
      /\ \A q \in Ingesters : proc'[q] = proc[q] \/ proc'[q] = Idle
  BY <1>1, IdleTyped, SetTyped, TypedParts
<1>3. TypeOK'
  BY <1>1, <1>2, TypedParts, TypeOKFromParts DEF history
<1>4. FileWritten'
  BY <1>1 DEF FileWritten
<1>. QED BY <1>1, <1>2, <1>3, <1>4, QuietKeeps

\* Only what was forgotten is gone without it.
LEMMA WithoutTyped ==
  ASSUME NEW image \in Image, NEW gone \in SUBSET Sources
  PROVE  /\ Without(image, gone) \in Image
         /\ Without(image, gone).sources = image.sources \ gone
         /\ Without(image, gone).events = {e \in image.events : e.source \notin gone}
         /\ Without(image, gone).observed = {o \in image.observed : o.of.source \notin gone}
BY DEF Without, Image

LEMMA WithoutRepresents ==
  ASSUME NEW image \in Image, NEW gone \in SUBSET Sources, NEW id, Represented(id, image)
  PROVE  Represented(id, Without(image, gone)) \/ id.source \in gone
<1>1. CASE \E e \in image.events : Alike(e, id)
  <2>1. PICK e \in image.events : Alike(e, id)
    BY <1>1
  <2>2. e.source = id.source
    BY <2>1 DEF Alike
  <2>. QED BY <2>1, <2>2, WithoutTyped DEF Represented
<1>2. CASE \E o \in image.observed : o.of = id
  BY <1>2, WithoutTyped DEF Represented
<1>. QED BY <1>1, <1>2 DEF Represented

LEMMA ForgetKeeps ==
  ASSUME IInv, NobodyReads, NEW s \in Sources, Forget(s)
  PROVE  IInv'
<1>. USE DEF IInv
<1>1. /\ memory' = Without(memory, {s}) /\ ledger' = ledger \cup {s}
      /\ snapshot' = NoSnapshot
      /\ slipped' = (slipped \ {s})
                       \cup {t \in {s} : \E p \in Ingesters : proc[p].cleared = t}
      /\ mishaps' \in 0 .. MaxMishaps
      /\ UNCHANGED <<content, written, inode, cursor, proc, torn, spoiled>>
  BY OneMoreMishap DEF Forget, file
<1>2. /\ memory \in Image /\ {s} \in SUBSET Sources
  BY TypedParts
<1>3. /\ NoSnapshot \in SnapshotRecord /\ NoSnapshot.stage = "none"
      /\ NoSnapshot.cursor = Nothing
  BY DEF NoSnapshot, NoImage, SnapshotRecord, Image
<1>4. TypeOK'
  <2>1. memory' \in Image
    BY <1>1, <1>2, WithoutTyped
  <2>2. ledger' \in SUBSET Sources /\ slipped' \in SUBSET Sources
    BY <1>1, TypedParts
  <2>. QED BY <1>1, <1>3, <2>1, <2>2, TypedParts, TypeOKFromParts
<1>5. FileWritten'
  BY <1>1 DEF FileWritten
<1>6. Forward /\ Remembers
  <2>1. Forward
    BY <1>1 DEF Forward
  <2>2. ASSUME NEW id \in Identity, Represented(id, memory)
        PROVE  Represented(id, memory') \/ id.source \in ledger'
    BY <1>1, <1>2, <2>2, WithoutRepresents
  <2>. QED BY <2>1, <2>2 DEF Remembers
<1>7. EntriesOK'
  BY <1>1, <1>6, OthersEntries
<1>8. CursorsKept'
  BY <1>1, <1>3, <1>6, StillCursors
<1>9. CursorBehindEvents'
  BY <1>1, <1>6, StillBehind
<1>10. SnapshotPairs'
  BY <1>1, <1>3 DEF SnapshotPairs
<1>11. ClearedSlips'
  BY <1>1 DEF ClearedSlips
<1>12. ForgottenStaysOut'
  <2>1. /\ memory'.sources = memory.sources \ {s}
        /\ memory'.events = {e \in memory.events : e.source \notin {s}}
        /\ memory'.observed = {o \in memory.observed : o.of.source \notin {s}}
    BY <1>1, <1>2, WithoutTyped
  <2>2. \A t \in ledger' \ slipped' : t = s \/ t \in ledger \ slipped
    BY <1>1
  <2>. QED BY <2>1, <2>2 DEF ForgottenStaysOut
<1>. QED BY <1>4, <1>5, <1>7, <1>8, <1>9, <1>10, <1>11, <1>12

\* A step that changes the snapshot only.
LEMMA SnapshotKeeps ==
  ASSUME IInv, NobodyReads, mishaps' \in 0 .. MaxMishaps, snapshot' \in SnapshotRecord,
         UNCHANGED <<file, memory, ledger, cursor, proc, history>>,
         snapshot'.cursor \in {Nothing, cursor, snapshot.cursor}, SnapshotPairs'
  PROVE  IInv'
<1>. USE DEF IInv
<1>1. UNCHANGED <<content, written, inode, memory, ledger, cursor, proc, torn, slipped, spoiled>>
  BY DEF file, history
<1>2. Forward /\ Remembers
  BY <1>1 DEF Forward, Remembers
<1>3. TypeOK'
  BY <1>1, TypedParts, TypeOKFromParts
<1>4. FileWritten'
  BY <1>1 DEF FileWritten
<1>5. EntriesOK'
  BY <1>1, <1>2, OthersEntries
<1>6. CursorsKept'
  BY <1>1, <1>2, StillCursors
<1>7. CursorBehindEvents'
  BY <1>1, <1>2, StillBehind
<1>8. ClearedSlips'
  BY <1>1 DEF ClearedSlips
<1>9. ForgottenStaysOut'
  BY <1>1 DEF ForgottenStaysOut
<1>. QED BY <1>3, <1>4, <1>5, <1>6, <1>7, <1>8, <1>9

LEMMA CopyKeeps ==
  ASSUME IInv, NobodyReads, CopyMemory \/ CopyOperations
  PROVE  IInv'
<1>. USE DEF IInv
<1>1. UNCHANGED <<file, memory, ledger, cursor, proc, history>>
  BY DEF CopyMemory, CopyOperations
<1>2. UNCHANGED <<content, memory, ledger, cursor, torn, spoiled>>
  BY <1>1 DEF file, history
<1>3. CASE CopyMemory
  <2>1. snapshot' = [NoSnapshot EXCEPT !.stage = "memory", !.memory = memory]
    BY <1>3 DEF CopyMemory
  <2>2. /\ snapshot' \in SnapshotRecord /\ snapshot'.stage = "memory"
        /\ snapshot'.memory = memory /\ snapshot'.cursor = Nothing
    BY <2>1, TypedParts DEF NoSnapshot, SnapshotRecord
  <2>3. mishaps' \in 0 .. MaxMishaps
    BY <1>3, OneMoreMishap DEF CopyMemory
  <2>4. SnapshotPairs'
    <3>1. ~spoiled => Pairs(memory, cursor)
      BY BehindIsPairs
    <3>. QED BY <1>2, <2>2, <3>1 DEF SnapshotPairs, Pairs, Before, InMemory
  <2>. QED BY <1>1, <2>2, <2>3, <2>4, SnapshotKeeps
<1>4. CASE CopyOperations
  <2>1. /\ snapshot' = [snapshot EXCEPT !.stage = "whole", !.cursor = cursor]
        /\ snapshot.stage = "memory" /\ mishaps' = mishaps
    BY <1>4 DEF CopyOperations
  <2>2. /\ snapshot' \in SnapshotRecord /\ snapshot'.stage = "whole"
        /\ snapshot'.memory = snapshot.memory /\ snapshot'.cursor = cursor
        /\ snapshot'.cut = snapshot.cut
    BY <2>1, TypedParts DEF SnapshotRecord
  <2>3. mishaps' \in 0 .. MaxMishaps
    BY <2>1, TypedParts
  <2>4. SnapshotPairs'
    <3>1. (~spoiled /\ ~snapshot.cut) => Pairs(snapshot.memory, cursor)
      BY <2>1 DEF SnapshotPairs
    <3>. QED BY <1>2, <2>2, <3>1 DEF SnapshotPairs, Pairs, Before, InMemory
  <2>. QED BY <1>1, <2>2, <2>3, <2>4, SnapshotKeeps
<1>. QED BY <1>3, <1>4

LEMMA RestoreKeeps ==
  ASSUME IInv, NobodyReads, Restore
  PROVE  IInv'
<1>. USE DEF IInv
<1>1. /\ snapshot.stage = "whole"
      /\ snapshot' = [snapshot EXCEPT !.restored = TRUE]
      /\ memory' = Without(snapshot.memory, ledger)
      /\ cursor' = snapshot.cursor
      /\ spoiled' = (spoiled \/ snapshot.cut \/ \E p \in Ingesters : proc[p].pc # "idle")
      /\ UNCHANGED <<content, written, inode, ledger, proc, mishaps, torn, slipped>>
  BY DEF Restore, file
<1>2. /\ snapshot.memory \in Image /\ snapshot.cursor \in Position \cup {Nothing}
      /\ snapshot' \in SnapshotRecord /\ snapshot'.stage = "whole"
      /\ snapshot'.memory = snapshot.memory /\ snapshot'.cursor = snapshot.cursor
      /\ snapshot'.cut = snapshot.cut
  BY <1>1, TypedParts DEF SnapshotRecord
<1>3. /\ ledger \in SUBSET Sources
      /\ memory' \in Image /\ memory'.sources = snapshot.memory.sources \ ledger
      /\ memory'.events = {e \in snapshot.memory.events : e.source \notin ledger}
      /\ memory'.observed = {o \in snapshot.memory.observed : o.of.source \notin ledger}
  BY <1>1, <1>2, TypedParts, WithoutTyped
<1>4. TypeOK'
  BY <1>1, <1>2, <1>3, TypedParts, TypeOKFromParts
<1>5. FileWritten'
  BY <1>1 DEF FileWritten
<1>6. Forward
  BY <1>1 DEF Forward
<1>7. EntriesOK'
  <2>1. \A q \in Ingesters : ~proc[q].streamed \/ spoiled'
    BY <1>1 DEF EntriesOK, EntryOK
  <2>. QED BY <1>1, <1>6, <2>1, OthersEntries
<1>8. CursorsKept'
  BY <1>1, <1>2, <1>6, StillCursors
<1>9. (~spoiled' /\ ~snapshot'.cut) =>
         /\ ~spoiled /\ ~snapshot.cut /\ Pairs(snapshot.memory, snapshot.cursor)
  BY <1>1, <1>2 DEF SnapshotPairs
<1>10. CursorBehindEvents'
  <2>. SUFFICES ASSUME ~spoiled', NEW k \in DOMAIN content,
                       content[k].kind = "event", Passed(snapshot.cursor, k), k \notin torn
       PROVE  Represented(content[k].id, memory') \/ content[k].id.source \in ledger
    BY <1>1 DEF CursorBehindEvents
  <2>1. Pairs(snapshot.memory, snapshot.cursor)
    BY <1>1, <1>2, <1>9
  <2>2. k \in Before(snapshot.cursor) /\ snapshot.cursor # Nothing
    BY DEF Before, Passed
  <2>3. InMemory(content[k].id, snapshot.memory)
    BY <2>1, <2>2 DEF Pairs
  <2>4. Represented(content[k].id, snapshot.memory)
           => Represented(content[k].id, memory') \/ content[k].id.source \in ledger
    BY <1>1, <1>2, <1>3, WithoutRepresents
  <2>. QED BY <2>3, <2>4 DEF InMemory
<1>11. SnapshotPairs'
  BY <1>1, <1>2, <1>9 DEF SnapshotPairs, Pairs, Before, InMemory
<1>12. ClearedSlips'
  BY <1>1 DEF ClearedSlips
<1>13. ForgottenStaysOut'
  BY <1>1, <1>3 DEF ForgottenStaysOut
<1>. QED BY <1>4, <1>5, <1>7, <1>8, <1>10, <1>11, <1>12, <1>13

-----------------------------------------------------------------------------
(***************************************************************************)
(* The invariant.                                                          *)
(***************************************************************************)
LEMMA InitIInv == Init => IInv
<1>. SUFFICES ASSUME Init
     PROVE  IInv
  OBVIOUS
<1>. USE DEF Init
<1>1. /\ NoImage \in Image /\ NoSnapshot \in SnapshotRecord
      /\ NoSnapshot.stage = "none" /\ NoSnapshot.cursor = Nothing
      /\ NoImage.sources = {} /\ NoImage.events = {} /\ NoImage.observed = {}
  BY DEF NoImage, NoSnapshot, Image, SnapshotRecord
<1>2. TypeOK
  <2>1. proc \in [Ingesters -> Entry]
    BY IdleTyped
  <2>2. mishaps \in 0 .. MaxMishaps
    BY MishapsAssumption
  <2>. QED BY <1>1, <2>1, <2>2 DEF TypeOK, Entry, SnapshotRecord
<1>3. FileWritten
  BY <1>2, TypedParts DEF FileWritten
<1>4. EntriesOK
  BY <1>2, IdleOK DEF EntriesOK
<1>5. CursorsKept /\ CursorBehindEvents /\ SnapshotPairs
  BY <1>1 DEF CursorsKept, CursorBehindEvents, Passed, SnapshotPairs
<1>6. ClearedSlips /\ ForgottenStaysOut
  BY DEF ClearedSlips, ForgottenStaysOut
<1>. QED BY <1>2, <1>3, <1>4, <1>5, <1>6 DEF IInv

LEMMA NextKeeps == IInv /\ [Next]_vars => IInv'
<1>. SUFFICES ASSUME IInv, [Next]_vars
     PROVE  IInv'
  OBVIOUS
<1>1. ASSUME NEW p \in Ingesters, Ingest(p)
      PROVE  IInv'
  BY <1>1, ReadKeeps, OpenKeeps, CheckKeeps, RegisterKeeps, StoreEventKeeps,
     StoreObservationKeeps, CommitKeeps DEF Ingest, Persist
<1>2. CASE NobodyReads /\ Others
  BY <1>2, WriteKeeps, KillKeeps, ForgetKeeps, CopyKeeps, RestoreKeeps DEF Others
<1>3. CASE UNCHANGED vars
  BY <1>3 DEF vars, IInv, TypeOK, FileWritten, EntriesOK, EntryOK, Placed, TornBefore, HalfRead,
              Accounted, Listed, Covered, Before, InMemory, CursorsKept, Kept, Line,
              CursorBehindEvents, SnapshotPairs, Pairs, ClearedSlips, ForgottenStaysOut
<1>. QED BY <1>1, <1>2, <1>3 DEF Next

THEOREM AlwaysIInv == Spec => []IInv
BY InitIInv, NextKeeps, PTL DEF Spec

-----------------------------------------------------------------------------
\* The variables keep their types, in particular every cursor and every
\* position of a reader.
THEOREM TypeCorrect == Spec => []TypeOK
<1>1. IInv => TypeOK
  BY DEF IInv
<1>. QED BY <1>1, AlwaysIInv, PTL

\* The cursor is never past a record that memory lacks, whatever is killed,
\* run twice, replaced or forgotten (_persist_scan_result).
THEOREM CursorNeverAhead == Spec => []CursorBehindEvents
<1>1. IInv => CursorBehindEvents
  BY DEF IInv
<1>. QED BY <1>1, AlwaysIInv, PTL

\* No ingest under way brings a forgotten source back, but for one that had
\* passed the check of the ledger and not yet written the source.
THEOREM ForgottenStaysForgotten == Spec => []ForgottenStaysOut
<1>1. IInv => ForgottenStaysOut
  BY DEF IInv
<1>. QED BY <1>1, AlwaysIInv, PTL

-----------------------------------------------------------------------------
(***************************************************************************)
(* One role for each record.  What the scan carries from line to line, the *)
(* record number and the last observation of each source, follows from the *)
(* lines alone, however they are cut into batches.  H[k] is what it        *)
(* carries after k lines, of the m lines that somebody has read.           *)
(***************************************************************************)
Carry == [number : Nat, adjacent : [Sources -> Previous \cup {Nothing}]]

Repeats(h, r) == r.kind = "event" /\ IsDuplicate(h.adjacent[r.id.source], r.id)
Begins(h, r) == r.kind = "event" /\ ~IsDuplicate(h.adjacent[r.id.source], r.id)

AfterLine(h, r) ==
    [number |-> h.number + 1,
     adjacent |->
        IF Repeats(h, r) THEN [h.adjacent EXCEPT ![r.id.source].time = r.id.time]
        ELSE IF Begins(h, r)
        THEN [h.adjacent EXCEPT ![r.id.source] =
                 [family |-> r.id.family, time |-> r.id.time, representative |-> r.id]]
        ELSE h.adjacent]

IsStory(c, H, m) ==
    /\ m \in 0 .. Len(c)
    /\ H \in [0 .. m -> Carry]
    /\ H[0] = [number |-> 0, adjacent |-> [s \in Sources |-> Nothing]]
    /\ \A k \in 1 .. m : H[k] = AfterLine(H[k - 1], c[k])

\* The lines a position is behind, the first half of one too large included.
Reached(at) == (at.offset + 1) \div 2

Follows(at, H, m) ==
    ~HalfRead(at) => /\ Reached(at) \in 0 .. m
                     /\ at.number = H[Reached(at)].number
                     /\ at.adjacent = H[Reached(at)].adjacent

ObservationOf(h, r) ==
    [of |-> r.id, number |-> h.number + 1,
     representative |-> h.adjacent[r.id.source].representative]

EventsTold(events, c, H, m) ==
    \A e \in events : \E k \in 1 .. m : Begins(H[k - 1], c[k]) /\ e = c[k].id

ObservedTold(observed, c, H, m) ==
    \A o \in observed : \E k \in 1 .. m :
        Repeats(H[k - 1], c[k]) /\ o = ObservationOf(H[k - 1], c[k])

Elements(list) == {list[i] : i \in DOMAIN list}

EntryTold(entry, c, H, m) ==
    /\ Follows(entry.at, H, m)
    /\ EventsTold(Elements(entry.events), c, H, m)
    /\ ObservedTold(Elements(entry.observed), c, H, m)

ImageTold(image, c, H, m) ==
    EventsTold(image.events, c, H, m) /\ ObservedTold(image.observed, c, H, m)

Tells(H, m) ==
    /\ IsStory(content, H, m)
    /\ \A p \in Ingesters : EntryTold(proc[p], content, H, m)
    /\ \A at \in {cursor, snapshot.cursor} \ {Nothing} : Follows(at, H, m)
    /\ \A image \in {memory, snapshot.memory} : ImageTold(image, content, H, m)

\* Cursors, readers, memory and snapshot agree on one reading of the file.
OneStory == torn = {} => \E m, H : Tells(H, m)

LEMMA HalvesOfALine ==
  ASSUME NEW n \in Nat
  PROVE  /\ n % 2 = 0 => /\ (n + 1) \div 2 = n \div 2
                         /\ (n + 1 + 1) \div 2 = n \div 2 + 1
                         /\ (n + 2 + 1) \div 2 = n \div 2 + 1
         /\ n % 2 = 1 => (n + 1 + 1) \div 2 = (n + 1) \div 2
         /\ n \div 2 \in Nat
OBVIOUS

LEMMA CarryOn ==
  ASSUME NEW h \in Carry, NEW r \in Record
  PROVE  AfterLine(h, r) \in Carry
<1>1. h.number + 1 \in Nat /\ h.adjacent \in [Sources -> Previous \cup {Nothing}]
  BY DEF Carry
<1>2. r.id \in Identity /\ r.id.source \in Sources
  BY DEF Record, Identity
<1>3. CASE Repeats(h, r)
  <2>1. h.adjacent[r.id.source] \in Previous
    BY <1>1, <1>2, <1>3 DEF Repeats, IsDuplicate
  <2>2. [h.adjacent[r.id.source] EXCEPT !.time = r.id.time] \in Previous
    BY <1>2, <2>1 DEF Previous, Identity
  <2>3. [h.adjacent EXCEPT ![r.id.source].time = r.id.time]
           \in [Sources -> Previous \cup {Nothing}]
    BY <1>1, <1>2, <2>2
  <2>. QED BY <1>1, <1>3, <2>3 DEF AfterLine, Carry
<1>4. CASE ~Repeats(h, r) /\ Begins(h, r)
  <2>1. [family |-> r.id.family, time |-> r.id.time, representative |-> r.id] \in Previous
    BY <1>2 DEF Previous, Identity
  <2>2. [h.adjacent EXCEPT ![r.id.source] =
            [family |-> r.id.family, time |-> r.id.time, representative |-> r.id]]
           \in [Sources -> Previous \cup {Nothing}]
    BY <1>1, <1>2, <2>1
  <2>. QED BY <1>1, <1>4, <2>2 DEF AfterLine, Carry
<1>5. CASE ~Repeats(h, r) /\ ~Begins(h, r)
  BY <1>1, <1>5 DEF AfterLine, Carry
<1>. QED BY <1>3, <1>4, <1>5

\* The next line makes the story longer and changes nothing of it.
LEMMA StoryGrows ==
  ASSUME NEW c \in Seq(Record), NEW H, NEW m, IsStory(c, H, m), m < Len(c)
  PROVE  \E G : IsStory(c, G, m + 1) /\ \A k \in 0 .. m : G[k] = H[k]
<1>. DEFINE G == [k \in 0 .. m + 1 |-> IF k \in 0 .. m THEN H[k]
                                       ELSE AfterLine(H[m], c[m + 1])]
<1>1. m \in Nat /\ Len(c) \in Nat /\ m + 1 \in 0 .. Len(c) /\ m + 1 \in 1 .. Len(c)
  BY DEF IsStory
<1>2. H[m] \in Carry /\ c[m + 1] \in Record
  BY <1>1 DEF IsStory
<1>3. AfterLine(H[m], c[m + 1]) \in Carry
  BY <1>2, CarryOn
<1>4. G \in [0 .. m + 1 -> Carry]
  BY <1>3 DEF IsStory
<1>5. /\ \A k \in 0 .. m : k \in 0 .. m + 1
      /\ m + 1 \in 0 .. m + 1 /\ m + 1 \notin 0 .. m /\ 0 \in 0 .. m
      /\ \A k \in 1 .. m + 1 : k = m + 1 \/ k \in 1 .. m
      /\ \A k \in 1 .. m + 1 : k - 1 \in 0 .. m
      /\ (m + 1) - 1 = m
      /\ \A k \in 1 .. m : k \in 0 .. m
  BY <1>1
<1>6. (\A k \in 0 .. m : G[k] = H[k]) /\ G[m + 1] = AfterLine(H[m], c[m + 1])
  BY <1>5
<1>. HIDE DEF G
<1>7. \A k \in 1 .. m + 1 : G[k] = AfterLine(G[k - 1], c[k])
  <2>. SUFFICES ASSUME NEW k \in 1 .. m + 1
       PROVE  G[k] = AfterLine(G[k - 1], c[k])
    OBVIOUS
  <2>1. G[k - 1] = H[k - 1]
    BY <1>5, <1>6
  <2>2. CASE k = m + 1
    BY <1>5, <1>6, <2>1, <2>2
  <2>3. CASE k \in 1 .. m
    <3>1. H[k] = AfterLine(H[k - 1], c[k]) /\ G[k] = H[k]
      BY <1>5, <1>6, <2>3 DEF IsStory
    <3>. QED BY <2>1, <3>1
  <2>. QED BY <1>5, <2>2, <2>3
<1>8. G[0] = H[0]
  BY <1>5, <1>6
<1>9. IsStory(c, G, m + 1)
  BY <1>1, <1>4, <1>7, <1>8 DEF IsStory
<1>. QED BY <1>6, <1>9

LEMMA StillTold ==
  ASSUME NEW c, NEW m \in Nat, NEW H, NEW G, \A k \in 0 .. m : G[k] = H[k]
  PROVE  /\ \A at : Follows(at, H, m) => Follows(at, G, m + 1)
         /\ \A events : EventsTold(events, c, H, m) => EventsTold(events, c, G, m + 1)
         /\ \A observed : ObservedTold(observed, c, H, m)
                             => ObservedTold(observed, c, G, m + 1)
<1>1. /\ \A k \in 0 .. m : k \in 0 .. m + 1
      /\ \A k \in 1 .. m : k \in 1 .. m + 1 /\ k - 1 \in 0 .. m
  OBVIOUS
<1>2. \A k \in 1 .. m : G[k - 1] = H[k - 1]
  BY <1>1
<1>. QED BY <1>1, <1>2 DEF Follows, EventsTold, ObservedTold

LEMMA TellsMore ==
  ASSUME TypeOK, NEW H, NEW m, Tells(H, m), m < Len(content)
  PROVE  \E G : Tells(G, m + 1)
<1>1. content \in Seq(Record) /\ m \in Nat
  BY TypedParts DEF Tells, IsStory
<1>2. PICK G : IsStory(content, G, m + 1) /\ \A k \in 0 .. m : G[k] = H[k]
  BY <1>1, StoryGrows DEF Tells
<1>3. PICK c : c = content
  OBVIOUS
<1>4. /\ \A at : Follows(at, H, m) => Follows(at, G, m + 1)
      /\ \A events : EventsTold(events, c, H, m) => EventsTold(events, c, G, m + 1)
      /\ \A observed : ObservedTold(observed, c, H, m)
                          => ObservedTold(observed, c, G, m + 1)
  BY <1>1, <1>2, StillTold
<1>5. Tells(G, m + 1)
  BY <1>2, <1>3, <1>4 DEF Tells, EntryTold, ImageTold
<1>. QED BY <1>5

\* A story that has the line a reader is at.
HasLine(H, m, at) ==
    LET k == Line(at) IN
    /\ k \in 1 .. m
    /\ at.number = H[k - 1].number
    /\ at.adjacent = H[k - 1].adjacent
    /\ H[k - 1] \in Carry
    /\ H[k] = AfterLine(H[k - 1], content[k])

LEMMA ReaderHasLine ==
  ASSUME TypeOK, FileWritten, OneStory, torn = {}, NEW p \in Ingesters, AtLine(p)
  PROVE  \E m, H : Tells(H, m) /\ HasLine(H, m, proc[p].at)
<1>1. PICK at \in Position : at = proc[p].at
  BY TypedParts, EntryParts
<1>2. PICK n \in Nat : n = at.offset
  BY DEF Position
<1>3. n % 2 = 0 /\ at.offset < written /\ ~HalfRead(at)
  BY <1>1, <1>2 DEF AtLine, Reading, HalfRead
<1>4. Line(at) \in DOMAIN content /\ Line(at) = n \div 2 + 1 /\ Reached(at) = n \div 2
  BY <1>2, <1>3, LinePlace, HalvesOfALine DEF Line, Reached
<1>5. PICK half \in Nat : half = n \div 2
  BY HalvesOfALine
<1>6. PICK m0, H0 : Tells(H0, m0)
  BY DEF OneStory
<1>7. /\ m0 \in Nat /\ m0 <= Len(content) /\ Len(content) \in Nat
      /\ half \in 0 .. m0 /\ half + 1 <= Len(content)
  <2>1. Follows(at, H0, m0)
    BY <1>1, <1>6 DEF Tells, EntryTold
  <2>2. half \in 0 .. m0
    BY <1>3, <1>4, <1>5, <2>1 DEF Follows
  <2>3. half + 1 \in 1 .. Len(content)
    BY <1>4, <1>5, TypedParts
  <2>4. m0 \in 0 .. Len(content)
    BY <1>6 DEF Tells, IsStory
  <2>. QED BY <2>2, <2>3, <2>4, TypedParts
<1>8. \E m, H : Tells(H, m) /\ half + 1 \in 1 .. m
  <2>1. CASE half < m0
    <3>1. half + 1 \in 1 .. m0
      BY <1>7, <2>1
    <3>. QED BY <1>6, <3>1
  <2>2. CASE half = m0
    <3>1. m0 < Len(content) /\ half + 1 \in 1 .. m0 + 1
      BY <1>7, <2>2
    <3>2. PICK G : Tells(G, m0 + 1)
      BY <1>6, <3>1, TellsMore
    <3>. QED BY <3>1, <3>2
  <2>. QED BY <1>7, <2>1, <2>2
<1>9. PICK m, H : Tells(H, m) /\ half + 1 \in 1 .. m
  BY <1>8
<1>10. at.number = H[half].number /\ at.adjacent = H[half].adjacent
  <2>1. Follows(at, H, m)
    BY <1>1, <1>9 DEF Tells, EntryTold
  <2>. QED BY <1>3, <1>4, <1>5, <2>1 DEF Follows
<1>11. H[half] \in Carry /\ H[half + 1] = AfterLine(H[half], content[half + 1])
  <2>1. IsStory(content, H, m) /\ m \in Nat
    BY <1>9 DEF Tells, IsStory
  <2>2. (half + 1) - 1 = half /\ half \in 0 .. m
    BY <1>9, <2>1
  <2>. QED BY <1>9, <2>1, <2>2 DEF IsStory
<1>12. (half + 1) - 1 = half
  OBVIOUS
<1>13. HasLine(H, m, at)
  BY <1>4, <1>5, <1>9, <1>10, <1>11, <1>12 DEF HasLine
<1>. QED BY <1>1, <1>9, <1>13

\* The position behind the line, or behind the first half of one too large.
LEMMA FollowsLine ==
  ASSUME NEW at \in Position, at.offset % 2 = 0, NEW H, NEW m, HasLine(H, m, at),
         NEW next, next.offset \in {at.offset + 1, at.offset + 2},
         next.number = H[Line(at)].number, next.adjacent = H[Line(at)].adjacent,
         m \in Nat
  PROVE  Follows(next, H, m)
<1>1. PICK n \in Nat : n = at.offset
  BY DEF Position
<1>2. Reached(next) = Line(at)
  BY <1>1, HalvesOfALine DEF Reached, Line
<1>3. Line(at) \in 0 .. m
  BY DEF HasLine
<1>. QED BY <1>2, <1>3 DEF Follows

\* A reader's step makes the story no longer false for anyone else.
LEMMA ReadsOn ==
  ASSUME TypeOK, NEW p \in Ingesters, NEW next \in Entry, proc' = [proc EXCEPT ![p] = next],
         UNCHANGED <<file, memory, ledger, cursor, snapshot, mishaps, history>>,
         NEW H, NEW m, Tells(H, m), EntryTold(next, content, H, m)
  PROVE  OneStory'
<1>1. UNCHANGED <<content, memory, cursor, snapshot>>
  BY DEF file
<1>2. \A q \in Ingesters : proc'[q] = IF q = p THEN next ELSE proc[q]
  BY SetTyped
<1>3. Tells(H, m)'
  BY <1>1, <1>2 DEF Tells
<1>. QED BY <1>3 DEF OneStory

\* A line, or the first half of one too large, that is not kept.
LEMMA PassTold ==
  ASSUME NEW entry, NEW next, entry.at \in Position, entry.at.offset % 2 = 0,
         NEW H, NEW m \in Nat, EntryTold(entry, content, H, m), HasLine(H, m, entry.at),
         next.events = entry.events, next.observed = entry.observed,
         \/ /\ content[Line(entry.at)].kind # "event"
            /\ next.at.offset \in {entry.at.offset + 1, entry.at.offset + 2}
            /\ next.at.number = entry.at.number + 1
            /\ next.at.adjacent = entry.at.adjacent
         \/ HalfRead(next.at)
  PROVE  EntryTold(next, content, H, m)
<1>1. Follows(next.at, H, m)
  <2>1. CASE HalfRead(next.at)
    BY <2>1 DEF Follows
  <2>2. CASE ~HalfRead(next.at)
    <3>1. PICK k, h, r : k = Line(entry.at) /\ h = H[k - 1] /\ r = content[k]
      OBVIOUS
    <3>2. /\ H[k] = AfterLine(h, r) /\ r.kind # "event"
          /\ next.at.number = h.number + 1 /\ next.at.adjacent = h.adjacent
      BY <2>2, <3>1 DEF HasLine
    <3>3. AfterLine(h, r) = [number |-> h.number + 1, adjacent |-> h.adjacent]
      BY <3>2 DEF AfterLine, Repeats, Begins
    <3>4. H[k].number = next.at.number /\ H[k].adjacent = next.at.adjacent
      BY <3>2, <3>3
    <3>. QED BY <2>2, <3>1, <3>4, FollowsLine
  <2>. QED BY <2>1, <2>2
<1>. QED BY <1>1 DEF EntryTold

LEMMA ReadTornTold ==
  ASSUME TypeOK, FileWritten, OneStory, torn = {}, NEW p \in Ingesters,
         ReadTorn(p)
  PROVE  OneStory'
<1>1. PICK entry \in Entry : entry = proc[p]
  BY TypedParts
<1>2. PICK large \in IF Here(p).kind = "oversized" THEN BOOLEAN ELSE {FALSE} :
         proc' = [proc EXCEPT ![p] = Reads(p, 1, [entry.at EXCEPT !.discarding = large])]
  BY <1>1 DEF ReadTorn
<1>3. /\ AtLine(p) /\ entry.at \in Position /\ entry.at.offset % 2 = 0
      /\ entry.at.offset \in Nat
  BY <1>1, EntryParts DEF ReadTorn, AtLine
<1>. DEFINE at2 == [entry.at EXCEPT !.discarding = large]
            after == Reads(p, 1, at2)
<1>4. /\ at2 \in Position /\ at2.offset = entry.at.offset /\ at2.discarding = large
      /\ at2.adjacent = entry.at.adjacent /\ at2.number = entry.at.number
  BY <1>3 DEF Position
<1>5. proc' = [proc EXCEPT ![p] = after]
  BY <1>2
<1>. HIDE DEF at2
<1>6. /\ after \in Entry
      /\ after.at.offset = entry.at.offset + 1 /\ after.at.discarding = large
      /\ after.at.number = entry.at.number + 1
      /\ after.at.adjacent = entry.at.adjacent
      /\ after.events = entry.events /\ after.observed = entry.observed
  BY <1>1, <1>4, ReadsFields
<1>. HIDE DEF after
<1>7. PICK next \in Entry : next = after
  BY <1>6
<1>8. PICK m, H : Tells(H, m) /\ HasLine(H, m, entry.at)
  BY <1>1, <1>3, ReaderHasLine
<1>9. m \in Nat /\ EntryTold(entry, content, H, m)
  BY <1>1, <1>8 DEF Tells, IsStory
<1>10. CASE large
  <2>1. content[Line(entry.at)].kind # "event"
    BY <1>1, <1>2, <1>10 DEF Here
  <2>2. EntryTold(next, content, H, m)
    BY <1>3, <1>6, <1>7, <1>8, <1>9, <2>1, PassTold
  <2>. QED BY <1>5, <1>7, <1>8, <2>2, ReadsOn DEF ReadTorn
<1>11. CASE ~large
  <2>1. (entry.at.offset + 1) % 2 = 1
    BY <1>3, EvenOffset
  <2>2. HalfRead(next.at)
    BY <1>6, <1>7, <1>11, <2>1 DEF HalfRead
  <2>3. EntryTold(next, content, H, m)
    BY <1>3, <1>6, <1>7, <1>8, <1>9, <2>2, PassTold
  <2>. QED BY <1>5, <1>7, <1>8, <2>3, ReadsOn DEF ReadTorn
<1>. QED BY <1>10, <1>11

LEMMA ReadNoEventTold ==
  ASSUME TypeOK, FileWritten, OneStory, torn = {}, NEW p \in Ingesters,
         ReadOversized(p) \/ ReadSkipped(p) \/ ReadLong(p)
  PROVE  OneStory'
<1>1. PICK entry \in Entry : entry = proc[p]
  BY TypedParts
<1>2. /\ AtLine(p) /\ entry.at \in Position /\ entry.at.offset % 2 = 0
      /\ content[Line(entry.at)].kind # "event"
      /\ UNCHANGED <<file, memory, ledger, cursor, snapshot, mishaps, history>>
  BY <1>1, EntryParts
     DEF ReadOversized, ReadSkipped, ReadLong, Relevant, WholeLine, AtLine, Here
<1>3. \E next \in Entry :
        /\ proc' = [proc EXCEPT ![p] = next]
        /\ next.at.offset \in {entry.at.offset + 1, entry.at.offset + 2}
        /\ next.at.number = entry.at.number + 1
        /\ next.at.adjacent = entry.at.adjacent
        /\ next.events = entry.events /\ next.observed = entry.observed
  <2>1. CASE ReadOversized(p)
    <3>. DEFINE at2 == [entry.at EXCEPT !.discarding = TRUE]
                after == Reads(p, 1, at2)
    <3>1. /\ at2 \in Position /\ at2.offset = entry.at.offset
          /\ at2.adjacent = entry.at.adjacent /\ at2.number = entry.at.number
      BY <1>2 DEF Position
    <3>2. proc' = [proc EXCEPT ![p] = after]
      BY <1>1, <2>1 DEF ReadOversized
    <3>. HIDE DEF at2
    <3>3. /\ after \in Entry /\ after.at.offset = entry.at.offset + 1
          /\ after.at.number = entry.at.number + 1
          /\ after.at.adjacent = entry.at.adjacent
          /\ after.events = entry.events /\ after.observed = entry.observed
      BY <1>1, <3>1, ReadsFields
    <3>. HIDE DEF after
    <3>. QED BY <3>2, <3>3
  <2>2. CASE ReadSkipped(p) \/ ReadLong(p)
    <3>. DEFINE read == Reads(p, 2, entry.at)
    <3>1. /\ read \in Entry /\ read.at.offset = entry.at.offset + 2
          /\ read.at.number = entry.at.number + 1
          /\ read.at.adjacent = entry.at.adjacent
          /\ read.events = entry.events /\ read.observed = entry.observed
      BY <1>1, <1>2, ReadsFields
    <3>2. CASE ReadSkipped(p)
      <4>1. proc' = [proc EXCEPT ![p] = read]
        BY <1>1, <3>2 DEF ReadSkipped
      <4>. HIDE DEF read
      <4>. QED BY <3>1, <4>1
    <3>3. CASE ReadLong(p)
      <4>. DEFINE after == [read EXCEPT !.batch = @ + 1]
      <4>1. proc' = [proc EXCEPT ![p] = after]
        BY <1>1, <3>3 DEF ReadLong
      <4>. HIDE DEF read
      <4>2. read.batch + 1 \in Nat
        BY <3>1, EntryParts
      <4>3. /\ after \in Entry /\ after.at = read.at
            /\ after.events = read.events /\ after.observed = read.observed
        BY <3>1, <4>2 DEF Entry
      <4>. HIDE DEF after
      <4>. QED BY <3>1, <4>1, <4>3
    <3>. QED BY <2>2, <3>2, <3>3
  <2>. QED BY <2>1, <2>2
<1>4. PICK next \in Entry :
        /\ proc' = [proc EXCEPT ![p] = next]
        /\ next.at.offset \in {entry.at.offset + 1, entry.at.offset + 2}
        /\ next.at.number = entry.at.number + 1
        /\ next.at.adjacent = entry.at.adjacent
        /\ next.events = entry.events /\ next.observed = entry.observed
  BY <1>3
<1>5. PICK m, H : Tells(H, m) /\ HasLine(H, m, entry.at)
  BY <1>1, <1>2, ReaderHasLine
<1>6. m \in Nat /\ EntryTold(entry, content, H, m)
  BY <1>1, <1>5 DEF Tells, IsStory
<1>7. EntryTold(next, content, H, m)
  BY <1>2, <1>4, <1>5, <1>6, PassTold
<1>. QED BY <1>2, <1>4, <1>5, <1>7, ReadsOn

\* The second half of a line: of one too large, for no line was torn.
LEMMA ReadRestTold ==
  ASSUME TypeOK, FileWritten, EntriesOK, OneStory, torn = {}, NEW p \in Ingesters,
         ReadRest(p) \/ Discard(p)
  PROVE  OneStory'
<1>1. PICK entry \in Entry : entry = proc[p]
  BY TypedParts
<1>2. /\ entry.at \in Position /\ entry.at.offset \in Nat /\ EntryOK(entry)
      /\ entry.pc = "reading" /\ entry.at.offset < written
  BY <1>1, EntryParts DEF EntriesOK, ReadRest, Discard, Reading
<1>3. ~ReadRest(p)
  BY <1>1, <1>2 DEF ReadRest, EntryOK, TornBefore, HalfRead
<1>4. entry.at.discarding /\ entry.at.offset % 2 = 1
  BY <1>1, <1>2, <1>3 DEF Discard, EntryOK, Placed
<1>. DEFINE at2 == [entry.at EXCEPT !.offset = @ + 1, !.discarding = FALSE]
            after == [entry EXCEPT !.at = at2, !.consumed = TRUE]
<1>5. proc' = [proc EXCEPT ![p] = after]
  <2>1. /\ proc \in [Ingesters -> Entry] /\ proc[p] \in Entry
        /\ proc[p].at \in Position /\ Discard(p)
    BY <1>1, <1>2, <1>3, TypedParts
  <2>2. proc' = [proc EXCEPT ![p] =
           [proc[p] EXCEPT !.at = [proc[p].at EXCEPT !.offset = @ + 1, !.discarding = FALSE],
                           !.consumed = TRUE]]
    BY <2>1 DEF Discard, Entry, Position
  <2>. QED BY <1>1, <2>2
<1>6. /\ at2 \in Position /\ at2.offset = entry.at.offset + 1
      /\ at2.number = entry.at.number /\ at2.adjacent = entry.at.adjacent
  <2>1. entry.at.offset + 1 \in Nat
    BY <1>2
  <2>. QED BY <1>2, <2>1 DEF Position
<1>. HIDE DEF at2
<1>7. /\ after \in Entry /\ after.at = at2
      /\ after.events = entry.events /\ after.observed = entry.observed
  BY <1>6 DEF Entry
<1>. HIDE DEF after
<1>8. PICK next \in Entry : next = after
  BY <1>7
<1>9. PICK m, H : Tells(H, m)
  BY DEF OneStory
<1>10. EntryTold(next, content, H, m)
  <2>1. EntryTold(entry, content, H, m)
    BY <1>1, <1>9 DEF Tells
  <2>2. Reached(next.at) = Reached(entry.at)
    BY <1>2, <1>4, <1>6, <1>7, <1>8, HalvesOfALine DEF Reached
  <2>3. Follows(next.at, H, m)
    BY <1>4, <1>6, <1>7, <1>8, <2>1, <2>2 DEF EntryTold, Follows, HalfRead
  <2>. QED BY <1>7, <1>8, <2>1, <2>3 DEF EntryTold
<1>. QED BY <1>3, <1>5, <1>8, <1>9, <1>10, ReadsOn DEF Discard

LEMMA ReadNewTold ==
  ASSUME TypeOK, FileWritten, OneStory, torn = {}, NEW p \in Ingesters, ReadNew(p)
  PROVE  OneStory'
<1>1. PICK entry \in Entry : entry = proc[p]
  BY TypedParts
<1>2. PICK at \in Position : at = entry.at
  BY EntryParts
<1>3. PICK r : r = content[Line(at)]
  OBVIOUS
<1>4. /\ AtLine(p) /\ at.offset % 2 = 0 /\ at.offset < written
      /\ r = Here(p) /\ r.kind = "event"
      /\ ~IsDuplicate(at.adjacent[r.id.source], r.id)
      /\ UNCHANGED <<file, memory, ledger, cursor, snapshot, mishaps, history>>
  BY <1>1, <1>2, <1>3
     DEF ReadNew, IsEvent, Relevant, WholeLine, AtLine, Reading, Here
<1>5. r \in Record /\ r.id \in Identity /\ r.id.source \in Sources
  BY <1>2, <1>3, <1>4, LinePlace DEF Record, Identity
<1>. DEFINE latest == [family |-> r.id.family, time |-> r.id.time, representative |-> r.id]
            adjacent == [at.adjacent EXCEPT ![r.id.source] = latest]
            sources == at.sources \cup {r.id.source}
            at2 == [at EXCEPT !.adjacent = adjacent, !.sources = sources]
            read == Reads(p, 2, at2)
            seen == entry.seen \cup {r.id}
            known == \E e \in entry.seen : Alike(e, r.id)
            events == IF known THEN entry.events ELSE Append(entry.events, r.id)
            after == [read EXCEPT !.batch = @ + 1, !.seen = seen, !.events = events]
<1>6. proc' = [proc EXCEPT ![p] =
         [Reads(p, 2, [at EXCEPT !.adjacent[r.id.source] = latest,
                                 !.sources = @ \cup {r.id.source}])
            EXCEPT !.batch = @ + 1,
                   !.seen = @ \cup {r.id},
                   !.events = IF known THEN @ ELSE Append(@, r.id)]]
  BY <1>1, <1>2, <1>4 DEF ReadNew
<1>7. [at EXCEPT !.adjacent[r.id.source] = latest, !.sources = @ \cup {r.id.source}] = at2
  BY DEF Position
<1>8. /\ adjacent \in [Sources -> Previous \cup {Nothing}] /\ sources \in SUBSET Sources
  <2>1. latest \in Previous
    BY <1>5 DEF Previous, Identity
  <2>. QED BY <1>5, <2>1 DEF Position
<1>. HIDE DEF latest, adjacent, sources
<1>9. /\ at2 \in Position /\ at2.offset = at.offset /\ at2.number = at.number
      /\ at2.adjacent = adjacent
  BY <1>8 DEF Position
<1>. HIDE DEF at2
<1>10. /\ read \in Entry /\ read.at.offset = at.offset + 2
       /\ read.at.number = at.number + 1 /\ read.at.adjacent = adjacent
       /\ read.events = entry.events /\ read.observed = entry.observed
       /\ read.seen = entry.seen
  BY <1>1, <1>9, ReadsFields
<1>. HIDE DEF read
<1>11. proc' = [proc EXCEPT ![p] = after]
  BY <1>6, <1>7, <1>10 DEF Entry, read
<1>12. /\ entry.events \in Seq(Identity) /\ seen \in SUBSET Identity
       /\ read.batch + 1 \in Nat
  BY <1>5, <1>10, EntryParts
<1>13. /\ events \in Seq(Identity)
       /\ Elements(events) \subseteq Elements(entry.events) \cup {r.id}
  <2>1. CASE known
    BY <1>12, <2>1 DEF Elements
  <2>2. CASE ~known
    BY <1>5, <1>12, <2>2, AppendTo DEF Elements
  <2>. QED BY <2>1, <2>2
<1>. HIDE DEF seen, known, events
<1>14. /\ after \in Entry /\ after.at = read.at
       /\ after.events = events /\ after.observed = entry.observed
  BY <1>10, <1>12, <1>13 DEF Entry
<1>. HIDE DEF after
<1>15. PICK next \in Entry : next = after
  BY <1>14
<1>16. PICK m, H : Tells(H, m) /\ HasLine(H, m, at)
  BY <1>1, <1>2, <1>4, ReaderHasLine
<1>17. m \in Nat /\ EntryTold(entry, content, H, m)
  BY <1>1, <1>16 DEF Tells, IsStory
<1>18. PICK k, h : k = Line(at) /\ h = H[k - 1]
  OBVIOUS
<1>19. /\ k \in 1 .. m /\ at.number = h.number /\ at.adjacent = h.adjacent
       /\ H[k] = AfterLine(h, r) /\ r = content[k]
  BY <1>3, <1>16, <1>18 DEF HasLine
<1>20. Begins(h, r) /\ ~Repeats(h, r)
  BY <1>4, <1>19 DEF Begins, Repeats
<1>21. AfterLine(h, r) = [number |-> h.number + 1, adjacent |-> adjacent]
  BY <1>19, <1>20 DEF AfterLine, adjacent, latest
<1>22. Follows(next.at, H, m)
  <2>1. /\ next.at.offset = at.offset + 2 /\ next.at.number = H[k].number
        /\ next.at.adjacent = H[k].adjacent
    BY <1>10, <1>14, <1>15, <1>19, <1>21
  <2>. QED BY <1>4, <1>16, <1>17, <1>18, <2>1, FollowsLine
<1>23. EventsTold(Elements(next.events), content, H, m)
  BY <1>13, <1>14, <1>15, <1>17, <1>18, <1>19, <1>20 DEF EntryTold, EventsTold
<1>24. EntryTold(next, content, H, m)
  BY <1>14, <1>15, <1>17, <1>22, <1>23 DEF EntryTold
<1>. QED BY <1>4, <1>11, <1>15, <1>16, <1>24, ReadsOn

LEMMA ReadDuplicateTold ==
  ASSUME TypeOK, FileWritten, OneStory, torn = {}, NEW p \in Ingesters, ReadDuplicate(p)
  PROVE  OneStory'
<1>1. PICK entry \in Entry : entry = proc[p]
  BY TypedParts
<1>2. PICK at \in Position : at = entry.at
  BY EntryParts
<1>3. PICK r : r = content[Line(at)]
  OBVIOUS
<1>4. /\ AtLine(p) /\ at.offset % 2 = 0 /\ at.offset < written
      /\ r = Here(p) /\ r.kind = "event"
      /\ IsDuplicate(at.adjacent[r.id.source], r.id)
      /\ UNCHANGED <<file, memory, ledger, cursor, snapshot, mishaps, history>>
  BY <1>1, <1>2, <1>3
     DEF ReadDuplicate, IsEvent, Relevant, WholeLine, AtLine, Reading, Here
<1>5. r \in Record /\ r.id \in Identity /\ r.id.source \in Sources
  BY <1>2, <1>3, <1>4, LinePlace DEF Record, Identity
<1>. DEFINE previous == at.adjacent[r.id.source]
            latest == [previous EXCEPT !.time = r.id.time]
            adjacent == [at.adjacent EXCEPT ![r.id.source] = latest]
            sources == at.sources \cup {r.id.source}
            at2 == [at EXCEPT !.adjacent = adjacent, !.sources = sources]
            read == Reads(p, 2, at2)
            new == [of |-> r.id, number |-> at.number + 1,
                    representative |-> previous.representative]
            observed == Append(entry.observed, new)
            after == [read EXCEPT !.batch = @ + 1, !.observed = observed]
<1>6. proc' = [proc EXCEPT ![p] =
         [Reads(p, 2, [at EXCEPT !.adjacent[r.id.source].time = r.id.time,
                                 !.sources = @ \cup {r.id.source}])
            EXCEPT !.batch = @ + 1,
                   !.observed = Append(@, [of |-> r.id, number |-> at.number + 1,
                                           representative |-> previous.representative])]]
  BY <1>1, <1>2, <1>4 DEF ReadDuplicate
<1>7. /\ [at.adjacent EXCEPT ![r.id.source].time = r.id.time] = adjacent
      /\ [at EXCEPT !.adjacent[r.id.source].time = r.id.time,
                    !.sources = @ \cup {r.id.source}] = at2
  BY DEF Position
<1>8. previous \in Previous
  BY <1>4, <1>5 DEF IsDuplicate, Position
<1>9. /\ adjacent \in [Sources -> Previous \cup {Nothing}] /\ sources \in SUBSET Sources
      /\ new \in Observation
  <2>1. latest \in Previous
    BY <1>5, <1>8 DEF Previous, Identity
  <2>2. at.number + 1 \in Nat /\ previous.representative \in Identity
    BY <1>8 DEF Position, Previous
  <2>. QED BY <1>5, <2>1, <2>2 DEF Position, Observation
<1>. HIDE DEF adjacent, sources
<1>10. /\ at2 \in Position /\ at2.offset = at.offset /\ at2.number = at.number
       /\ at2.adjacent = adjacent
  BY <1>9 DEF Position
<1>. HIDE DEF at2
<1>11. /\ read \in Entry /\ read.at.offset = at.offset + 2
       /\ read.at.number = at.number + 1 /\ read.at.adjacent = adjacent
       /\ read.events = entry.events /\ read.observed = entry.observed
  BY <1>1, <1>10, ReadsFields
<1>. HIDE DEF read
<1>12. proc' = [proc EXCEPT ![p] = after]
  BY <1>6, <1>7, <1>11 DEF Entry, read
<1>. HIDE DEF new
<1>13. entry.observed \in Seq(Observation) /\ read.batch + 1 \in Nat
  BY <1>11, EntryParts
<1>14. /\ observed \in Seq(Observation)
       /\ Elements(observed) \subseteq Elements(entry.observed) \cup {new}
  BY <1>9, <1>13, AppendTo DEF Elements
<1>. HIDE DEF observed
<1>15. /\ after \in Entry /\ after.at = read.at
       /\ after.events = entry.events /\ after.observed = observed
  BY <1>11, <1>13, <1>14 DEF Entry
<1>. HIDE DEF after
<1>16. PICK next \in Entry : next = after
  BY <1>15
<1>17. PICK m, H : Tells(H, m) /\ HasLine(H, m, at)
  BY <1>1, <1>2, <1>4, ReaderHasLine
<1>18. m \in Nat /\ EntryTold(entry, content, H, m)
  BY <1>1, <1>17 DEF Tells, IsStory
<1>19. PICK k, h : k = Line(at) /\ h = H[k - 1]
  OBVIOUS
<1>20. /\ k \in 1 .. m /\ at.number = h.number /\ at.adjacent = h.adjacent
       /\ H[k] = AfterLine(h, r) /\ r = content[k]
  BY <1>3, <1>17, <1>19 DEF HasLine
<1>21. Repeats(h, r)
  BY <1>4, <1>20 DEF Repeats
<1>22. AfterLine(h, r) = [number |-> h.number + 1, adjacent |-> adjacent]
  BY <1>7, <1>20, <1>21 DEF AfterLine
<1>23. new = ObservationOf(h, r)
  BY <1>20 DEF new, ObservationOf
<1>24. Follows(next.at, H, m)
  <2>1. /\ next.at.offset = at.offset + 2 /\ next.at.number = H[k].number
        /\ next.at.adjacent = H[k].adjacent
    BY <1>11, <1>15, <1>16, <1>20, <1>22
  <2>. QED BY <1>4, <1>17, <1>18, <1>19, <2>1, FollowsLine
<1>25. ObservedTold(Elements(next.observed), content, H, m)
  BY <1>14, <1>15, <1>16, <1>18, <1>19, <1>20, <1>21, <1>23 DEF EntryTold, ObservedTold
<1>26. EntryTold(next, content, H, m)
  BY <1>15, <1>16, <1>18, <1>24, <1>25 DEF EntryTold
<1>. QED BY <1>4, <1>12, <1>16, <1>17, <1>26, ReadsOn

\* Where a step that reads no line may take the positions and images from.
LEMMA StepTold ==
  ASSUME NEW H, NEW m, Tells(H, m), content' = content,
         \A p \in Ingesters : EntryTold(proc'[p], content, H, m),
         cursor' # Nothing => Follows(cursor', H, m),
         snapshot'.cursor # Nothing => Follows(snapshot'.cursor, H, m),
         ImageTold(memory', content, H, m), ImageTold(snapshot'.memory, content, H, m)
  PROVE  Tells(H, m)'
BY DEF Tells

\* A step of one ingest that stores no cursor.
LEMMA OwnStepTold ==
  ASSUME TypeOK, NEW H, NEW m, Tells(H, m), NEW p \in Ingesters, NEW next \in Entry,
         proc' = [proc EXCEPT ![p] = next], EntryTold(next, content, H, m),
         UNCHANGED <<file, cursor, snapshot>>, ImageTold(memory', content, H, m)
  PROVE  Tells(H, m)'
<1>1. \A q \in Ingesters : EntryTold(proc'[q], content, H, m)
  BY SetTyped DEF Tells
<1>2. UNCHANGED <<content, cursor, snapshot>>
  BY DEF file
<1>. QED BY <1>1, <1>2, StepTold DEF Tells

LEMMA StartTold ==
  ASSUME NEW c, NEW H, NEW m, IsStory(c, H, m), NEW i \in Nat
  PROVE  Follows(Start(i), H, m)
<1>1. Reached(Start(i)) = 0
  BY StartTyped DEF Reached
<1>2. 0 \in 0 .. m
  BY DEF IsStory
<1>. QED BY <1>1, <1>2, StartTyped DEF Follows, IsStory

LEMMA IdleTold ==
  ASSUME NEW c, NEW H, NEW m, IsStory(c, H, m)
  PROVE  EntryTold(Idle, c, H, m)
<1>1. Follows(Idle.at, H, m)
  BY IdleTyped, StartTold
<1>2. Elements(Idle.events) = {} /\ Elements(Idle.observed) = {}
  BY IdleTyped DEF Elements
<1>. QED BY <1>1, <1>2 DEF EntryTold, EventsTold, ObservedTold

LEMMA OpenTold ==
  ASSUME TypeOK, NEW H, NEW m, Tells(H, m), NEW p \in Ingesters, Open(p) \/ OpenAtEof(p)
  PROVE  Tells(H, m)'
<1>1. /\ UNCHANGED <<file, memory, cursor, snapshot>>
      /\ ImageTold(memory', content, H, m)
  BY DEF Open, OpenAtEof, Tells
<1>2. PICK at \in Position :
         /\ Follows(at, H, m)
         /\ \/ proc' = [proc EXCEPT ![p] = [Idle EXCEPT !.pc = "persisting", !.at = at]]
            \/ proc' = [proc EXCEPT ![p] =
                          [Idle EXCEPT !.pc = "reading", !.streamed = TRUE, !.at = at]]
  <2>1. cursor # Nothing => cursor \in Position /\ Follows(cursor, H, m)
    BY TypedParts DEF Tells
  <2>2. Start(inode) \in Position /\ Follows(Start(inode), H, m)
    BY TypedParts, StartTyped, StartTold DEF Tells
  <2>3. CASE OpenAtEof(p) \/ (Open(p) /\ Matches(cursor))
    BY <2>1, <2>3 DEF Open, OpenAtEof, AtEof, Matches
  <2>4. CASE Open(p) /\ ~Matches(cursor)
    BY <2>2, <2>4 DEF Open
  <2>. QED BY <2>3, <2>4
<1>3. PICK next \in Entry :
         /\ proc' = [proc EXCEPT ![p] = next] /\ next.at = at
         /\ next.events = <<>> /\ next.observed = <<>>
  <2>1. ASSUME NEW pc \in {"reading", "persisting"}, NEW streamed \in BOOLEAN,
               NEW next, next = [Idle EXCEPT !.pc = pc, !.streamed = streamed, !.at = at]
        PROVE  next \in Entry /\ next.at = at /\ next.events = <<>> /\ next.observed = <<>>
    BY <2>1, IdleTyped DEF Entry
  <2>2. [Idle EXCEPT !.pc = "persisting", !.at = at]
           = [Idle EXCEPT !.pc = "persisting", !.streamed = FALSE, !.at = at]
    BY IdleTyped DEF Entry
  <2>. QED BY <1>2, <2>1, <2>2
<1>4. EntryTold(next, content, H, m)
  <2>1. Elements(next.events) = {} /\ Elements(next.observed) = {}
    BY <1>3 DEF Elements
  <2>. QED BY <1>2, <1>3, <2>1 DEF EntryTold, EventsTold, ObservedTold
<1>. QED BY <1>1, <1>3, <1>4, OwnStepTold

\* Steps that leave what an ingest has in its hands.
LEMMA HandsTold ==
  ASSUME TypeOK, NEW H, NEW m, Tells(H, m), NEW p \in Ingesters,
         Defer(p) \/ StopReading(p) \/ CheckSource(p) \/ RegisterSource(p)
  PROVE  Tells(H, m)'
<1>1. PICK entry \in Entry : entry = proc[p]
  BY TypedParts
<1>2. \E next \in Entry :
         /\ proc' = [proc EXCEPT ![p] = next] /\ next.at = entry.at
         /\ next.events = entry.events /\ next.observed = entry.observed
  <2>1. CASE Defer(p) \/ StopReading(p)
    <3>. DEFINE next == [entry EXCEPT !.pc = "persisting"]
    <3>1. proc' = [proc EXCEPT ![p] = next]
      BY <1>1, <2>1 DEF Defer, StopReading
    <3>2. /\ next \in Entry /\ next.at = entry.at
          /\ next.events = entry.events /\ next.observed = entry.observed
      BY DEF Entry
    <3>. HIDE DEF next
    <3>. QED BY <3>1, <3>2
  <2>2. CASE CheckSource(p)
    <3>1. PICK s \in Sources : s \in Unchecked(p)
              /\ proc' = IF s \in ledger THEN [proc EXCEPT ![p].suppressed = @ \cup {s}]
                         ELSE [proc EXCEPT ![p].cleared = s]
      <4>1. Unchecked(p) # {} /\ Unchecked(p) \subseteq Sources
        BY <1>1, <2>2, EntryParts DEF CheckSource, Unchecked
      <4>. QED BY <2>2, <4>1 DEF CheckSource
    <3>2. CASE s \in ledger
      <4>. DEFINE suppressed == entry.suppressed \cup {s}
                  next == [entry EXCEPT !.suppressed = suppressed]
      <4>1. suppressed \in SUBSET Sources
        BY EntryParts
      <4>2. proc' = [proc EXCEPT ![p] = next]
        BY <1>1, <3>1, <3>2
      <4>. HIDE DEF suppressed
      <4>3. /\ next \in Entry /\ next.at = entry.at
            /\ next.events = entry.events /\ next.observed = entry.observed
        BY <4>1 DEF Entry
      <4>. HIDE DEF next
      <4>. QED BY <4>2, <4>3
    <3>3. CASE s \notin ledger
      <4>. DEFINE next == [entry EXCEPT !.cleared = s]
      <4>1. proc' = [proc EXCEPT ![p] = next]
        BY <1>1, <3>1, <3>3
      <4>2. /\ next \in Entry /\ next.at = entry.at
            /\ next.events = entry.events /\ next.observed = entry.observed
        BY DEF Entry
      <4>. HIDE DEF next
      <4>. QED BY <4>1, <4>2
    <3>. QED BY <3>2, <3>3
  <2>3. CASE RegisterSource(p)
    <3>. DEFINE kept == entry.kept \cup {entry.cleared}
                next == [entry EXCEPT !.kept = kept, !.cleared = Nothing]
    <3>1. kept \in SUBSET Sources
      BY <1>1, <2>3, EntryParts DEF RegisterSource
    <3>2. proc' = [proc EXCEPT ![p] = next]
      <4>1. proc' = [proc EXCEPT ![p] =
               [proc[p] EXCEPT !.kept = @ \cup {proc[p].cleared}, !.cleared = Nothing]]
        BY <1>1, <2>3, TypedParts DEF RegisterSource, Entry
      <4>. QED BY <1>1, <4>1, TypedParts DEF Entry
    <3>. HIDE DEF kept
    <3>3. /\ next \in Entry /\ next.at = entry.at
          /\ next.events = entry.events /\ next.observed = entry.observed
      BY <3>1 DEF Entry
    <3>. HIDE DEF next
    <3>. QED BY <3>2, <3>3
  <2>. QED BY <2>1, <2>2, <2>3
<1>3. PICK next \in Entry :
         /\ proc' = [proc EXCEPT ![p] = next] /\ next.at = entry.at
         /\ next.events = entry.events /\ next.observed = entry.observed
  BY <1>2
<1>4. EntryTold(next, content, H, m)
  BY <1>1, <1>3 DEF Tells, EntryTold
<1>5. /\ UNCHANGED <<file, cursor, snapshot>>
      /\ memory'.events = memory.events /\ memory'.observed = memory.observed
  BY TypedParts DEF Defer, StopReading, CheckSource, RegisterSource, Image
<1>6. ImageTold(memory', content, H, m)
  BY <1>5 DEF Tells, ImageTold
<1>. QED BY <1>3, <1>4, <1>5, <1>6, OwnStepTold

LEMMA TailElements ==
  ASSUME NEW S, NEW list \in Seq(S), list # <<>>
  PROVE  /\ Elements(Tail(list)) \subseteq Elements(list)
         /\ Head(list) \in Elements(list)
BY HeadAndTail DEF Elements

LEMMA StoreTold ==
  ASSUME TypeOK, NEW H, NEW m, Tells(H, m), NEW p \in Ingesters,
         StoreEvent(p) \/ StoreObservation(p)
  PROVE  Tells(H, m)'
<1>1. PICK entry \in Entry : entry = proc[p]
  BY TypedParts
<1>2. /\ entry.events \in Seq(Identity) /\ entry.observed \in Seq(Observation)
      /\ EntryTold(entry, content, H, m)
      /\ ImageTold(memory, content, H, m) /\ IsStory(content, H, m)
  BY <1>1, EntryParts DEF Tells
<1>3. UNCHANGED <<file, cursor, snapshot>>
  BY DEF StoreEvent, StoreObservation
<1>4. ImageTold(memory', content, H, m)
  <2>1. CASE StoreEvent(p)
    <3>1. entry.events # <<>>
      BY <1>1, <2>1 DEF StoreEvent
    <3>2. PICK e : e = Head(entry.events) /\ e \in Elements(entry.events)
      BY <1>2, <3>1, TailElements
    <3>3. /\ memory'.events \subseteq memory.events \cup {e}
          /\ memory'.observed = memory.observed
      BY <1>1, <2>1, <3>2, TypedParts DEF StoreEvent, Image
    <3>. QED BY <1>2, <3>2, <3>3 DEF ImageTold, EntryTold, EventsTold
  <2>2. CASE StoreObservation(p)
    <3>1. entry.observed # <<>>
      BY <1>1, <2>2 DEF StoreObservation
    <3>2. PICK o : o = Head(entry.observed) /\ o \in Elements(entry.observed)
      BY <1>2, <3>1, TailElements
    <3>3. /\ memory'.observed \subseteq memory.observed \cup {o}
          /\ memory'.events = memory.events
      BY <1>1, <2>2, <3>2, TypedParts DEF StoreObservation, Image
    <3>. QED BY <1>2, <3>2, <3>3 DEF ImageTold, EntryTold, ObservedTold
  <2>. QED BY <2>1, <2>2
<1>5. \E next \in Entry :
         proc' = [proc EXCEPT ![p] = next] /\ EntryTold(next, content, H, m)
  <2>1. CASE Fails(p)
    BY <1>2, <2>1, IdleTyped, IdleTold DEF Fails
  <2>2. CASE StoreEvent(p) /\ ~Fails(p)
    <3>. DEFINE next == [entry EXCEPT !.events = Tail(entry.events)]
    <3>1. entry.events # <<>> /\ proc' = [proc EXCEPT ![p] = next]
      BY <1>1, <2>2 DEF StoreEvent
    <3>2. /\ Tail(entry.events) \in Seq(Identity)
          /\ Elements(Tail(entry.events)) \subseteq Elements(entry.events)
      BY <1>2, <3>1, HeadAndTail, TailElements
    <3>3. /\ next \in Entry /\ next.at = entry.at
          /\ next.events = Tail(entry.events) /\ next.observed = entry.observed
      BY <3>2 DEF Entry
    <3>. HIDE DEF next
    <3>4. EntryTold(next, content, H, m)
      BY <1>2, <3>2, <3>3 DEF EntryTold, EventsTold
    <3>. QED BY <3>1, <3>3, <3>4
  <2>3. CASE StoreObservation(p) /\ ~Fails(p)
    <3>. DEFINE next == [entry EXCEPT !.observed = Tail(entry.observed)]
    <3>1. entry.observed # <<>> /\ proc' = [proc EXCEPT ![p] = next]
      BY <1>1, <2>3 DEF StoreObservation
    <3>2. /\ Tail(entry.observed) \in Seq(Observation)
          /\ Elements(Tail(entry.observed)) \subseteq Elements(entry.observed)
      BY <1>2, <3>1, HeadAndTail, TailElements
    <3>3. /\ next \in Entry /\ next.at = entry.at
          /\ next.observed = Tail(entry.observed) /\ next.events = entry.events
      BY <3>2 DEF Entry
    <3>. HIDE DEF next
    <3>4. EntryTold(next, content, H, m)
      BY <1>2, <3>2, <3>3 DEF EntryTold, ObservedTold
    <3>. QED BY <3>1, <3>3, <3>4
  <2>. QED BY <2>1, <2>2, <2>3
<1>. QED BY <1>3, <1>4, <1>5, OwnStepTold

LEMMA CommitTold ==
  ASSUME TypeOK, NEW H, NEW m, Tells(H, m), NEW p \in Ingesters, Commit(p)
  PROVE  Tells(H, m)'
<1>1. /\ cursor' \in {proc[p].at, cursor} /\ proc' = [proc EXCEPT ![p] = Idle]
      /\ content' = content /\ memory' = memory
      /\ snapshot'.cursor = snapshot.cursor /\ snapshot'.memory = snapshot.memory
  BY TypedParts DEF Commit, Commits, Cursors, file, SnapshotRecord
<1>2. \A q \in Ingesters : EntryTold(proc'[q], content, H, m)
  <2>1. EntryTold(Idle, content, H, m)
    BY IdleTold DEF Tells
  <2>. QED BY <1>1, <2>1, TypedParts DEF Tells
<1>3. cursor' # Nothing => Follows(cursor', H, m)
  BY <1>1 DEF Tells, EntryTold
<1>. QED BY <1>1, <1>2, <1>3, StepTold DEF Tells

LEMMA OthersTold ==
  ASSUME TypeOK, NEW H, NEW m, Tells(H, m), Others
  PROVE  Tells(H, m)'
<1>1. /\ IsStory(content, H, m)
      /\ ImageTold(memory, content, H, m) /\ ImageTold(snapshot.memory, content, H, m)
      /\ cursor # Nothing => Follows(cursor, H, m)
      /\ snapshot.cursor # Nothing => Follows(snapshot.cursor, H, m)
      /\ \A q \in Ingesters : EntryTold(proc[q], content, H, m)
      /\ EntryTold(Idle, content, H, m)
  BY IdleTold DEF Tells
<1>2. ImageTold(NoImage, content, H, m)
  BY DEF NoImage, ImageTold, EventsTold, ObservedTold
<1>3. ASSUME NEW image \in Image, NEW gone \in SUBSET Sources,
             ImageTold(image, content, H, m)
      PROVE  ImageTold(Without(image, gone), content, H, m)
  BY <1>3, WithoutTyped DEF ImageTold, EventsTold, ObservedTold
<1>4. memory \in Image /\ snapshot.memory \in Image /\ ledger \in SUBSET Sources
  BY TypedParts DEF SnapshotRecord
<1>5. CASE WriteLine \/ WriteHalf \/ ReplaceFile
  <2>1. UNCHANGED <<content, memory, cursor, snapshot, proc>>
    BY <1>5 DEF WriteLine, WriteHalf, ReplaceFile
  <2>. QED BY <1>1, <2>1, StepTold
<1>6. ASSUME NEW p \in Ingesters, Kill(p)
      PROVE  Tells(H, m)'
  <2>1. /\ UNCHANGED <<content, memory, cursor, snapshot>>
        /\ proc' = [proc EXCEPT ![p] = Idle]
    BY <1>6 DEF Kill, file
  <2>2. \A q \in Ingesters : EntryTold(proc'[q], content, H, m)
    BY <1>1, <2>1, TypedParts
  <2>. QED BY <1>1, <2>1, <2>2, StepTold
<1>7. ASSUME NEW s \in Sources, Forget(s)
      PROVE  Tells(H, m)'
  <2>1. /\ UNCHANGED <<content, cursor, proc>> /\ memory' = Without(memory, {s})
        /\ snapshot'.cursor = Nothing /\ snapshot'.memory = NoImage
    BY <1>7 DEF Forget, file, NoSnapshot
  <2>2. ImageTold(memory', content, H, m)
    BY <1>1, <1>3, <1>4, <2>1
  <2>. QED BY <1>1, <1>2, <2>1, <2>2, StepTold
<1>8. CASE CopyMemory
  <2>1. /\ UNCHANGED <<content, memory, cursor, proc>>
        /\ snapshot'.cursor = Nothing /\ snapshot'.memory = memory
    BY <1>8 DEF CopyMemory, file, NoSnapshot
  <2>. QED BY <1>1, <2>1, StepTold
<1>9. CASE CopyOperations
  <2>1. /\ UNCHANGED <<content, memory, cursor, proc>>
        /\ snapshot'.cursor = cursor /\ snapshot'.memory = snapshot.memory
    BY <1>9, TypedParts DEF CopyOperations, file, SnapshotRecord
  <2>. QED BY <1>1, <2>1, StepTold
<1>10. CASE Restore
  <2>1. /\ UNCHANGED <<content, proc>> /\ memory' = Without(snapshot.memory, ledger)
        /\ cursor' = snapshot.cursor
        /\ snapshot'.cursor = snapshot.cursor /\ snapshot'.memory = snapshot.memory
    BY <1>10, TypedParts DEF Restore, file, SnapshotRecord
  <2>2. ImageTold(memory', content, H, m)
    BY <1>1, <1>3, <1>4, <2>1
  <2>. QED BY <1>1, <2>1, <2>2, StepTold
<1>. QED BY <1>5, <1>6, <1>7, <1>8, <1>9, <1>10 DEF Others

LEMMA InitOneStory == Init => OneStory
<1>. SUFFICES ASSUME Init
     PROVE  OneStory
  OBVIOUS
<1>1. PICK first : first = [number |-> 0, adjacent |-> [s \in Sources |-> Nothing]]
  OBVIOUS
<1>2. PICK H : H = [k \in 0 .. 0 |-> first]
  OBVIOUS
<1>3. IsStory(content, H, 0)
  <2>1. first \in Carry
    BY <1>1 DEF Carry
  <2>2. Len(content) \in Nat
    BY InitIInv, TypedParts DEF IInv
  <2>. QED BY <1>1, <1>2, <2>1, <2>2 DEF IsStory
<1>4. ImageTold(NoImage, content, H, 0)
  BY DEF NoImage, ImageTold, EventsTold, ObservedTold
<1>5. \A p \in Ingesters : EntryTold(proc[p], content, H, 0)
  BY <1>3, IdleTold DEF Init
<1>6. Tells(H, 0)
  BY <1>3, <1>4, <1>5 DEF Init, Tells, NoSnapshot
<1>. QED BY <1>6 DEF OneStory

\* Only a commit says that a line was torn, and nothing unsays it.
LEMMA TornGrows == [Next]_vars => torn \subseteq torn'
<1>1. ASSUME NEW p \in Ingesters, Read(p)
      PROVE  UNCHANGED torn
  <2>1. CASE ReadTorn(p) \/ ReadRest(p) \/ ReadOversized(p) \/ Discard(p) \/ ReadSkipped(p)
    BY <2>1 DEF ReadTorn, ReadRest, ReadOversized, Discard, ReadSkipped, history
  <2>2. CASE Defer(p) \/ ReadLong(p) \/ ReadNew(p) \/ ReadDuplicate(p) \/ StopReading(p)
    BY <2>2 DEF Defer, ReadLong, ReadNew, ReadDuplicate, StopReading, history
  <2>. QED BY <1>1, <2>1, <2>2 DEF Read
<1>2. ASSUME NEW p \in Ingesters, OpenAtEof(p) \/ Open(p)
      PROVE  UNCHANGED torn
  BY <1>2 DEF OpenAtEof, Open, history
<1>3. ASSUME NEW p \in Ingesters, Persist(p)
      PROVE  torn \subseteq torn'
  <2>1. CASE CheckSource(p) \/ RegisterSource(p) \/ StoreEvent(p) \/ StoreObservation(p)
    BY <2>1 DEF CheckSource, RegisterSource, StoreEvent, StoreObservation, history
  <2>2. CASE Commit(p)
    BY <2>2 DEF Commit, Commits
  <2>. QED BY <1>3, <2>1, <2>2 DEF Persist
<1>4. CASE Others
  <2>1. CASE WriteLine \/ WriteHalf \/ ReplaceFile
    BY <2>1 DEF WriteLine, WriteHalf, ReplaceFile, history
  <2>2. CASE \/ \E p \in Ingesters : Kill(p)
             \/ \E s \in Sources : Forget(s)
    BY <2>2 DEF Kill, Forget, history
  <2>3. CASE CopyMemory \/ CopyOperations \/ Restore
    BY <2>3 DEF CopyMemory, CopyOperations, Restore, history
  <2>. QED BY <1>4, <2>1, <2>2, <2>3 DEF Others
<1>5. CASE UNCHANGED vars
  BY <1>5 DEF vars
<1>. QED BY <1>1, <1>2, <1>3, <1>4, <1>5 DEF Next, Ingest

LEMMA NextOneStory == IInv /\ OneStory /\ [Next]_vars => OneStory'
<1>. SUFFICES ASSUME IInv, OneStory, [Next]_vars, torn' = {}
     PROVE  OneStory'
  BY DEF OneStory
<1>. USE DEF IInv
<1>1. torn = {}
  BY TornGrows
<1>2. PICK m, H : Tells(H, m)
  BY <1>1 DEF OneStory
<1>3. ASSUME NEW p \in Ingesters, Ingest(p)
      PROVE  OneStory'
  <2>1. CASE Read(p)
    <3>1. CASE Defer(p) \/ StopReading(p)
      <4>1. Tells(H, m)'
        BY <1>2, <3>1, HandsTold
      <4>. QED BY <4>1 DEF OneStory
    <3>. QED BY <1>1, <2>1, <3>1, ReadTornTold, ReadRestTold, ReadNoEventTold, ReadNewTold,
                ReadDuplicateTold DEF Read
  <2>2. CASE OpenAtEof(p) \/ Open(p) \/ Persist(p)
    <3>1. Tells(H, m)'
      BY <1>2, <2>2, OpenTold, HandsTold, StoreTold, CommitTold DEF Persist
    <3>. QED BY <3>1 DEF OneStory
  <2>. QED BY <1>3, <2>1, <2>2 DEF Ingest
<1>4. CASE Others
  <2>1. Tells(H, m)'
    BY <1>2, <1>4, OthersTold
  <2>. QED BY <2>1 DEF OneStory
<1>5. CASE UNCHANGED vars
  <2>1. Tells(H, m)'
    BY <1>2, <1>5 DEF vars, Tells
  <2>. QED BY <2>1 DEF OneStory
<1>. QED BY <1>3, <1>4, <1>5 DEF Next

\* However the lines were cut into batches and whoever read them, cursors,
\* readers and databases agree on one reading of the file, in which the
\* record numbers and the last observation of each source follow from the
\* lines (adjacent_primary_state), as long as no line was read half written.
THEOREM BatchesDoNotMatter == Spec => []OneStory
BY InitOneStory, NextOneStory, AlwaysIInv, PTL DEF Spec

\* No two events of a file are the same item of the same second.
EventsDiffer ==
    \A c \in Contents : \A j, k \in DOMAIN c :
        (c[j].kind = "event" /\ c[k].kind = "event" /\ c[j].id = c[k].id) => j = k

LEMMA StoryGivesRoles == ASSUME EventsDiffer PROVE TypeOK /\ OneStory => OneRole
<1>. SUFFICES ASSUME TypeOK, OneStory, torn = {}, NEW o \in memory.observed
     PROVE  /\ o.of \notin memory.events
            /\ \A other \in memory.observed : other.of = o.of => other = o
  BY DEF OneRole
<1>1. PICK m, H : Tells(H, m)
  BY DEF OneStory
<1>2. /\ EventsTold(memory.events, content, H, m)
      /\ ObservedTold(memory.observed, content, H, m)
      /\ 1 .. m \subseteq DOMAIN content
  BY <1>1, TypedParts DEF Tells, ImageTold, IsStory
<1>3. PICK k \in 1 .. m : Repeats(H[k - 1], content[k]) /\ o = ObservationOf(H[k - 1], content[k])
  BY <1>2 DEF ObservedTold
<1>4. ASSUME NEW j \in 1 .. m, content[j].kind = "event", content[j].id = content[k].id
      PROVE  j = k
  BY <1>2, <1>3, <1>4, TypedParts DEF EventsDiffer, Repeats
<1>5. o.of = content[k].id
  BY <1>3 DEF ObservationOf
<1>6. o.of \notin memory.events
  <2>. SUFFICES ASSUME o.of \in memory.events
       PROVE  FALSE
    OBVIOUS
  <2>1. PICK j \in 1 .. m : Begins(H[j - 1], content[j]) /\ o.of = content[j].id
    BY <1>2 DEF EventsTold
  <2>2. j = k
    BY <1>4, <1>5, <2>1 DEF Begins
  <2>. QED BY <1>3, <2>1, <2>2 DEF Begins, Repeats
<1>7. ASSUME NEW other \in memory.observed, other.of = o.of
      PROVE  other = o
  <2>1. PICK j \in 1 .. m :
           Repeats(H[j - 1], content[j]) /\ other = ObservationOf(H[j - 1], content[j])
    BY <1>2 DEF ObservedTold
  <2>2. other.of = content[j].id
    BY <2>1 DEF ObservationOf
  <2>3. j = k
    BY <1>4, <1>5, <1>7, <2>1, <2>2 DEF Repeats
  <2>. QED BY <1>3, <2>1, <2>3
<1>. QED BY <1>6, <1>7

\* A record has one role, event or observation of another, and is observed
\* once, in any file whose records can be told apart.
THEOREM OneRoleForEach == ASSUME EventsDiffer PROVE Spec => []OneRole
<1>1. TypeOK /\ OneStory => OneRole
  BY StoryGivesRoles
<1>2. IInv => TypeOK
  BY DEF IInv
<1>. QED BY <1>1, <1>2, AlwaysIInv, BatchesDoNotMatter, PTL

\* A snapshot between whose two copies no ingest stored a cursor is a pair,
\* so that restoring it loses no record (SnapshotManager.create); with one
\* in between it need not be.
THEOREM UncutSnapshotIsPair == Spec => []SnapshotPairs
<1>1. IInv => SnapshotPairs
  BY DEF IInv
<1>. QED BY <1>1, AlwaysIInv, PTL
=============================================================================
