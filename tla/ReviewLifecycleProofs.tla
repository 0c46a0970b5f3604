----------------------- MODULE ReviewLifecycleProofs -----------------------
(***************************************************************************)
(* Theorems about ReviewLifecycle, for any slots and neighbours, batches   *)
(* and commands.                                                           *)
(***************************************************************************)
EXTENDS ReviewLifecycle, TLAPS

\* No version is recorded under a revision that memory has not reached.
Dated == \A s \in Slots : \A v \in DOMAIN canon[s] : canon[s][v].rev <= revision

\* A batch that Leo can see.  What it is bound to stays as it is from then on.
Posted(b) == batch[b].status \notin {"none"} \cup Drafting

\* Before that, nothing of it is decided.
DraftsUndecided ==
    \A b \in Batches : ~Posted(b) => AllProps(b, {"pending"})

\* A command works on a batch it has seen.
CommandsOnPosted ==
    \A c \in Commands : ~At(c, "idle") => cmd[c].batch \in Batches /\ Posted(cmd[c].batch)

IInv ==
    /\ TypeOK
    /\ Dated
    /\ DraftsUndecided
    /\ CommandsOnPosted
    /\ WrittenAsReviewed
    /\ AppliedWhole

USE DEF At, Goto, Step

-----------------------------------------------------------------------------
(***************************************************************************)
(* Sequences of versions.                                                  *)
(***************************************************************************)
HeadsIn(versions, rev) ==
    LET known == {v \in DOMAIN versions : versions[v].rev < rev} IN
    {v \in known : \A w \in known : v \notin versions[w].retires}

WrittenIn(versions, b) == {v \in DOMAIN versions : versions[v].by = b}

LEMMA AppendProperties ==
  ASSUME NEW versions \in Seq(VersionRecord), NEW new \in VersionRecord
  PROVE  LET longer == Append(versions, new) IN
         /\ longer \in Seq(VersionRecord)
         /\ DOMAIN versions = 1 .. Len(versions)
         /\ DOMAIN longer = DOMAIN versions \cup {Len(versions) + 1}
         /\ Len(versions) + 1 \notin DOMAIN versions
         /\ \A v \in DOMAIN versions : longer[v] = versions[v]
         /\ longer[Len(versions) + 1] = new
<1>. DEFINE longer == Append(versions, new)
<1>1. Len(versions) \in Nat /\ DOMAIN versions = 1 .. Len(versions)
  OBVIOUS
<1>2. longer \in Seq(VersionRecord) /\ Len(longer) = Len(versions) + 1
  OBVIOUS
<1>3. DOMAIN longer = 1 .. Len(versions) + 1
  BY <1>1, <1>2
<1>4. 1 .. Len(versions) + 1 = (1 .. Len(versions)) \cup {Len(versions) + 1}
  BY <1>1
<1>5. \A v \in 1 .. Len(versions) : longer[v] = versions[v]
  OBVIOUS
<1>6. longer[Len(versions) + 1] = new
  OBVIOUS
<1>. HIDE DEF longer
<1>7. Len(versions) + 1 \notin 1 .. Len(versions)
  BY <1>1
<1>. QED BY <1>1, <1>2, <1>3, <1>4, <1>5, <1>6, <1>7 DEF longer

\* A later version changes nothing about what was current before it.
LEMMA EarlierHeads ==
  ASSUME NEW versions \in Seq(VersionRecord), NEW new \in VersionRecord,
         NEW rev \in Nat, rev <= new.rev
  PROVE  HeadsIn(Append(versions, new), rev) = HeadsIn(versions, rev)
<1>. DEFINE longer == Append(versions, new)
            next == Len(versions) + 1
            known == {v \in DOMAIN versions : versions[v].rev < rev}
            known2 == {v \in DOMAIN longer : longer[v].rev < rev}
<1>1. /\ DOMAIN longer = DOMAIN versions \cup {next}
      /\ next \notin DOMAIN versions
      /\ \A v \in DOMAIN versions : longer[v] = versions[v]
      /\ longer[next] = new
  BY AppendProperties
<1>2. ~(new.rev < rev)
  BY DEF VersionRecord
<1>. HIDE DEF longer, next
<1>3. known2 = known
  BY <1>1, <1>2
<1>4. {v \in known2 : \A w \in known2 : v \notin longer[w].retires}
        = {v \in known : \A w \in known : v \notin versions[w].retires}
  BY <1>1, <1>3
<1>. QED BY <1>4 DEF HeadsIn, longer

LEMMA WrittenByAppend ==
  ASSUME NEW versions \in Seq(VersionRecord), NEW new \in VersionRecord, NEW b
  PROVE  WrittenIn(Append(versions, new), b) =
           WrittenIn(versions, b) \cup (IF new.by = b THEN {Len(versions) + 1} ELSE {})
<1>. DEFINE longer == Append(versions, new)
            next == Len(versions) + 1
<1>1. /\ DOMAIN longer = DOMAIN versions \cup {next}
      /\ next \notin DOMAIN versions
      /\ \A v \in DOMAIN versions : longer[v] = versions[v]
      /\ longer[next] = new
  BY AppendProperties
<1>. HIDE DEF longer, next
<1>2. {v \in DOMAIN longer : longer[v].by = b} =
        {v \in DOMAIN versions : versions[v].by = b}
          \cup (IF new.by = b THEN {next} ELSE {})
  BY <1>1
<1>. QED BY <1>2 DEF WrittenIn, longer, next

-----------------------------------------------------------------------------
(***************************************************************************)
(* The invariants in terms of them.                                        *)
(***************************************************************************)
LEMMA HeadsTyped ==
  ASSUME TypeOK
  PROVE  /\ \A s \in Slots : Heads(s) \in SUBSET Nat
         /\ [t \in Slots |-> Heads(t)] \in [Slots -> SUBSET Nat]
         /\ \A slots : Expected(slots) \in [Slots -> SUBSET Nat]
<1>1. ASSUME NEW s \in Slots
      PROVE  Heads(s) \in SUBSET Nat
  <2>1. canon[s] \in Seq(VersionRecord)
    BY DEF TypeOK
  <2>2. DOMAIN canon[s] = 1 .. Len(canon[s]) /\ Len(canon[s]) \in Nat
    BY <2>1
  <2>. QED BY <2>2 DEF Heads
<1>. QED BY <1>1 DEF Expected

LEMMA PresentHeads ==
  ASSUME TypeOK, Dated, NEW s \in Slots
  PROVE  HeadsIn(canon[s], revision + 1) = Heads(s)
<1>1. canon[s] \in Seq(VersionRecord) /\ revision \in Nat
  BY DEF TypeOK
<1>2. \A v \in DOMAIN canon[s] : canon[s][v] \in VersionRecord
  BY <1>1
<1>3. \A v \in DOMAIN canon[s] : canon[s][v].rev \in Nat /\ canon[s][v].rev <= revision
  BY <1>2 DEF VersionRecord, Dated
<1>4. {v \in DOMAIN canon[s] : canon[s][v].rev < revision + 1} = DOMAIN canon[s]
  BY <1>1, <1>3
<1>. QED BY <1>4 DEF HeadsIn, Heads

AsReviewed(s, v) ==
    LET b == canon[s][v].by
        rev == canon[s][v].rev
    IN b \in Batches =>
         /\ HeadsIn(canon[s], rev) = batch[b].expect[s]
         /\ batch[b].origin = "phase2" =>
              \A t \in Related[s] : HeadsIn(canon[t], rev) = batch[b].shown[t]

Whole(b) ==
    /\ (\E s \in Slots : batch[b].props[s] = "applied")
         => \A s \in Slots : batch[b].props[s] \in {"none", "applied"}
    /\ \A s \in Slots :
          IF batch[b].props[s] = "applied" THEN \E v : WrittenIn(canon[s], b) = {v}
          ELSE WrittenIn(canon[s], b) = {}

LEMMA Restated ==
  /\ WrittenAsReviewed <=> \A s \in Slots : \A v \in DOMAIN canon[s] : AsReviewed(s, v)
  /\ AppliedWhole <=> \A b \in Batches : Whole(b)
<1>1. WrittenAsReviewed <=> \A s \in Slots : \A v \in DOMAIN canon[s] : AsReviewed(s, v)
  BY DEF WrittenAsReviewed, AsReviewed, HeadsBefore, HeadsIn
<1>2. ASSUME NEW b \in Batches
      PROVE  AllProps(b, {"applied"}) <=>
               \A s \in Slots : batch[b].props[s] \in {"none", "applied"}
  BY DEF AllProps, SlotsOf
<1>3. ASSUME NEW b \in Batches, NEW s \in Slots
      PROVE  (\E v \in WrittenIn(canon[s], b) : WrittenIn(canon[s], b) = {v})
               <=> \E v : WrittenIn(canon[s], b) = {v}
  OBVIOUS
<1>4. AppliedWhole <=>
        \A b \in Batches :
          /\ (\E s \in Slots : batch[b].props[s] = "applied") => AllProps(b, {"applied"})
          /\ \A s \in Slots :
                IF batch[b].props[s] = "applied"
                THEN \E v \in WrittenIn(canon[s], b) : WrittenIn(canon[s], b) = {v}
                ELSE WrittenIn(canon[s], b) = {}
  BY DEF AppliedWhole, WrittenIn
<1>. QED BY <1>1, <1>2, <1>3, <1>4 DEF Whole

LEMMA RestatedNext ==
  /\ WrittenAsReviewed' <=> \A s \in Slots : \A v \in DOMAIN canon'[s] : AsReviewed(s, v)'
  /\ AppliedWhole' <=> \A b \in Batches : Whole(b)'
<1>. DEFINE Versions == \A s \in Slots : \A v \in DOMAIN canon[s] : AsReviewed(s, v)
            Wholes == \A b \in Batches : Whole(b)
<1>1. (WrittenAsReviewed <=> Versions) /\ (AppliedWhole <=> Wholes)
  BY Restated
<1>. HIDE DEF Versions, Wholes
<1>2. (WrittenAsReviewed' <=> Versions') /\ (AppliedWhole' <=> Wholes')
  BY <1>1, PTL
<1>. QED BY <1>2 DEF Versions, Wholes

-----------------------------------------------------------------------------
(***************************************************************************)
(* Types.                                                                  *)
(***************************************************************************)
CommandPc == {"idle", "mark", "record", "apply", "reject", "write", "settle", "done", "rerun"}

LEMMA TypedParts ==
  ASSUME TypeOK
  PROVE  /\ canon \in [Slots -> Seq(VersionRecord)]
         /\ revision \in Nat
         /\ batch \in [Batches -> BatchRecord]
         /\ waiting \in SUBSET Slots
         /\ cmd \in [Commands -> CommandRecord]
         /\ \A b \in Batches : batch[b] \in BatchRecord
         /\ \A c \in Commands : cmd[c] \in CommandRecord
BY DEF TypeOK

LEMMA SetBatchTyped ==
  ASSUME TypeOK, NEW b, NEW row \in BatchRecord, batch' = [batch EXCEPT ![b] = row]
  PROVE  batch' \in [Batches -> BatchRecord]
BY DEF TypeOK

LEMMA StepTyped ==
  ASSUME TypeOK, NEW c \in Commands, NEW entry \in CommandRecord, Step(c, entry)
  PROVE  cmd' \in [Commands -> CommandRecord]
BY DEF TypeOK

LEMMA GotoTyped ==
  ASSUME TypeOK, NEW c \in Commands, NEW pc \in CommandPc, Goto(c, pc)
  PROVE  cmd' \in [Commands -> CommandRecord]
BY DEF TypeOK, CommandRecord, CommandPc

LEMMA Statuses ==
  /\ BatchStatus = {"none", "shown", "bound", "checked",
                    "pending", "approved", "rejected", "stale", "applied"}
  /\ Proposal = {"none", "pending", "approved", "rejected", "stale", "applied"}
  /\ CommandPc = {"idle", "mark", "record", "apply", "reject", "write",
                  "settle", "done", "rerun"}
BY DEF BatchStatus, Drafting, Decided, Proposal, CommandPc

LEMMA NoRowTyped == NoRow \in BatchRecord
BY Statuses DEF NoRow, BatchRecord, Operations

\* What the transactions on a batch leave behind.
LEMMA MarkedStaleRow ==
  ASSUME TypeOK, NEW b \in Batches, NEW selected
  PROVE  LET row == MarkedStale(b, selected) IN
         /\ row \in BatchRecord
         /\ row.status \in {batch[b].status, "stale"}
         /\ row.origin = batch[b].origin
         /\ row.shown = batch[b].shown
         /\ row.expect = batch[b].expect
         /\ \A s \in Slots : row.props[s] = batch[b].props[s]
                             \/ (batch[b].props[s] = "pending" /\ row.props[s] = "stale")
<1>. DEFINE props == WithProps(b, selected, {"pending"}, "stale")
<1>1. batch[b] \in BatchRecord
  BY TypedParts
<1>2. props \in [Slots -> Proposal]
  BY <1>1, Statuses DEF WithProps, BatchRecord
<1>3. \A s \in Slots : props[s] = batch[b].props[s]
                       \/ (batch[b].props[s] = "pending" /\ props[s] = "stale")
  BY DEF WithProps
<1>. HIDE DEF props
<1>4. "stale" \in BatchStatus
  BY Statuses
<1>5. MarkedStale(b, selected) =
        [batch[b] EXCEPT !.props = props,
                         !.status = IF \E s \in Slots : props[s] = "pending"
                                    THEN batch[b].status ELSE "stale"]
  BY DEF MarkedStale, props
<1>. QED BY <1>1, <1>2, <1>3, <1>4, <1>5 DEF BatchRecord

LEMMA RecordedRow ==
  ASSUME TypeOK, NEW b \in Batches, NEW decided, NEW verdict \in {"approved", "rejected"}
  PROVE  LET row == Recorded(b, decided, verdict) IN
         /\ row \in BatchRecord
         /\ row.status \in {"pending", "approved", "rejected"}
         /\ row.origin = batch[b].origin
         /\ row.shown = batch[b].shown
         /\ row.expect = batch[b].expect
         /\ \A s \in Slots : row.props[s] = batch[b].props[s]
                             \/ (batch[b].props[s] = "pending" /\ row.props[s] = verdict)
<1>. DEFINE props == WithProps(b, decided, {"pending"}, verdict)
<1>1. batch[b] \in BatchRecord
  BY TypedParts
<1>2. props \in [Slots -> Proposal]
  BY <1>1, Statuses DEF WithProps, BatchRecord
<1>3. \A s \in Slots : props[s] = batch[b].props[s]
                       \/ (batch[b].props[s] = "pending" /\ props[s] = verdict)
  BY DEF WithProps
<1>. HIDE DEF props
<1>4. /\ BatchVerdict(props) \in {"pending", "approved", "rejected"}
      /\ {"pending", "approved", "rejected"} \subseteq BatchStatus
  BY Statuses DEF BatchVerdict
<1>. DEFINE status == BatchVerdict(props)
<1>5. Recorded(b, decided, verdict) = [batch[b] EXCEPT !.props = props, !.status = status]
  BY DEF Recorded, props
<1>. HIDE DEF status
<1>6. status \in {"pending", "approved", "rejected"} /\ status \in BatchStatus
  BY <1>4 DEF status
<1>. QED BY <1>1, <1>2, <1>3, <1>5, <1>6 DEF BatchRecord

\* The rows of a draft and of a proposal for expired plans.
LEMMA DraftRow ==
  ASSUME TypeOK, NEW s \in Slots, NEW op \in Operations
  PROVE  LET row == [NoRow EXCEPT !.status = "shown",
                                  !.op = op,
                                  !.shown = [t \in Slots |-> Heads(t)],
                                  !.props[s] = "pending"]
         IN /\ row \in BatchRecord
            /\ \A t \in Slots : row.props[t] \in {"none", "pending"}
<1>. DEFINE shown == [t \in Slots |-> Heads(t)]
            row == [NoRow EXCEPT !.status = "shown", !.op = op, !.shown = shown,
                                 !.props[s] = "pending"]
<1>1. shown \in [Slots -> SUBSET Nat]
  BY HeadsTyped
<1>. HIDE DEF shown
<1>2. "shown" \in BatchStatus /\ "pending" \in Proposal
  BY Statuses
<1>3. row \in BatchRecord
  BY <1>1, <1>2, NoRowTyped DEF BatchRecord
<1>4. row.props = [NoRow.props EXCEPT ![s] = "pending"] /\ NoRow.props = [t \in Slots |-> "none"]
  BY DEF NoRow
<1>. HIDE DEF row
<1>5. \A t \in Slots : row.props[t] \in {"none", "pending"}
  BY <1>4
<1>6. row \in BatchRecord /\ \A t \in Slots : row.props[t] \in {"none", "pending"}
  BY <1>3, <1>5
<1>. QED BY <1>6 DEF row, shown

LEMMA ExpiredRow ==
  ASSUME TypeOK, NEW due \in SUBSET Slots
  PROVE  LET row == [NoRow EXCEPT !.status = "pending",
                                  !.origin = "temporal",
                                  !.op = "replace",
                                  !.shown  = [t \in Slots |-> Heads(t)],
                                  !.expect = Expected(due),
                                  !.props  = [s \in Slots |->
                                                IF s \in due THEN "pending" ELSE "none"]]
         IN /\ row \in BatchRecord
            /\ \A t \in Slots : row.props[t] \in {"none", "pending"}
<1>. DEFINE shown == [t \in Slots |-> Heads(t)]
            expect == Expected(due)
            props == [s \in Slots |-> IF s \in due THEN "pending" ELSE "none"]
            row == [NoRow EXCEPT !.status = "pending", !.origin = "temporal",
                                 !.op = "replace", !.shown = shown,
                                 !.expect = expect, !.props = props]
<1>1. shown \in [Slots -> SUBSET Nat] /\ expect \in [Slots -> SUBSET Nat]
  BY HeadsTyped
<1>2. /\ props \in [Slots -> Proposal]
      /\ \A t \in Slots : props[t] \in {"none", "pending"}
  BY Statuses
<1>3. "pending" \in BatchStatus /\ "replace" \in Operations
  BY Statuses DEF Operations
<1>. HIDE DEF shown, expect, props
<1>4. row \in BatchRecord
  BY <1>1, <1>2, <1>3, NoRowTyped DEF BatchRecord
<1>5. row.props = props
  BY DEF NoRow
<1>. HIDE DEF row
<1>6. row \in BatchRecord /\ \A t \in Slots : row.props[t] \in {"none", "pending"}
  BY <1>2, <1>4, <1>5
<1>. QED BY <1>6 DEF row, shown, expect, props

-----------------------------------------------------------------------------
(***************************************************************************)
(* What a step may do to a batch before it is applied, and to the slots.   *)
(***************************************************************************)
Evolves(b) ==
    /\ Posted(b) =>
         /\ Posted(b)'
         /\ batch'[b].origin = batch[b].origin
         /\ batch'[b].shown = batch[b].shown
         /\ batch'[b].expect = batch[b].expect
         /\ \A s \in Slots :
              \/ batch'[b].props[s] = batch[b].props[s]
              \/ /\ batch[b].props[s] = "pending"
                 /\ batch'[b].props[s] \in {"approved", "rejected", "stale"}
    /\ ~Posted(b) => \A s \in Slots : batch'[b].props[s] \in {"none", "pending"}

Grows(by, slots) ==
    /\ revision' = revision + 1
    /\ \A s \in slots :
         \E new \in VersionRecord :
            /\ new.by = by
            /\ new.rev = revision + 1
            /\ canon'[s] = Append(canon[s], new)
    /\ \A s \in Slots \ slots : canon'[s] = canon[s]

Unwritten == canon' = canon /\ revision' = revision

LEMMA Growth ==
  ASSUME TypeOK, Dated, NEW by, NEW slots \in SUBSET Slots, Grows(by, slots)
  PROVE  /\ \A s \in Slots : \A v \in DOMAIN canon'[s] :
              \/ v \in DOMAIN canon[s] /\ canon'[s][v] = canon[s][v]
              \/ /\ s \in slots
                 /\ canon'[s][v].by = by
                 /\ canon'[s][v].rev = revision + 1
         /\ \A s \in Slots : \A rev \in Nat :
              rev <= revision + 1 => HeadsIn(canon'[s], rev) = HeadsIn(canon[s], rev)
         /\ \A s \in Slots : \A b :
              WrittenIn(canon'[s], b) =
                WrittenIn(canon[s], b)
                  \cup (IF s \in slots /\ b = by THEN {Len(canon[s]) + 1} ELSE {})
<1>. SUFFICES ASSUME NEW s \in Slots
     PROVE  /\ \A v \in DOMAIN canon'[s] :
                 \/ v \in DOMAIN canon[s] /\ canon'[s][v] = canon[s][v]
                 \/ /\ s \in slots
                    /\ canon'[s][v].by = by
                    /\ canon'[s][v].rev = revision + 1
            /\ \A rev \in Nat :
                 rev <= revision + 1 => HeadsIn(canon'[s], rev) = HeadsIn(canon[s], rev)
            /\ \A b :
                 WrittenIn(canon'[s], b) =
                   WrittenIn(canon[s], b)
                     \cup (IF s \in slots /\ b = by THEN {Len(canon[s]) + 1} ELSE {})
  OBVIOUS
<1>1. canon[s] \in Seq(VersionRecord)
  BY TypedParts
<1>2. CASE s \notin slots
  BY <1>2 DEF Grows
<1>3. CASE s \in slots
  <2>1. PICK new \in VersionRecord : /\ new.by = by
                                     /\ new.rev = revision + 1
                                     /\ canon'[s] = Append(canon[s], new)
    BY <1>3 DEF Grows
  <2>2. \A v \in DOMAIN canon'[s] :
           \/ v \in DOMAIN canon[s] /\ canon'[s][v] = canon[s][v]
           \/ v = Len(canon[s]) + 1 /\ canon'[s][v] = new
    BY <1>1, <2>1, AppendProperties
  <2>3. \A rev \in Nat :
          rev <= revision + 1 => HeadsIn(canon'[s], rev) = HeadsIn(canon[s], rev)
    BY <1>1, <2>1, EarlierHeads
  <2>4. \A b : WrittenIn(canon'[s], b) =
                 WrittenIn(canon[s], b) \cup (IF b = by THEN {Len(canon[s]) + 1} ELSE {})
    BY <1>1, <2>1, WrittenByAppend
  <2>. QED BY <1>3, <2>1, <2>2, <2>3, <2>4
<1>. QED BY <1>2, <1>3

LEMMA GrowthDated ==
  ASSUME TypeOK, Dated, NEW by, NEW slots \in SUBSET Slots, Grows(by, slots)
  PROVE  Dated'
<1>. SUFFICES ASSUME NEW s \in Slots, NEW v \in DOMAIN canon'[s]
     PROVE  canon'[s][v].rev <= revision'
  BY DEF Dated
<1>1. revision \in Nat /\ revision' = revision + 1
  BY TypedParts DEF Grows
<1>2. CASE v \in DOMAIN canon[s] /\ canon'[s][v] = canon[s][v]
  <2>1. canon[s][v] \in VersionRecord
    BY <1>2, TypedParts
  <2>2. canon[s][v].rev \in Nat /\ canon[s][v].rev <= revision
    BY <1>2, <2>1 DEF VersionRecord, Dated
  <2>. QED BY <1>1, <1>2, <2>2
<1>3. CASE canon'[s][v].rev = revision + 1
  BY <1>1, <1>3
<1>. QED BY <1>2, <1>3, Growth

\* A version by a batch is there because one of its proposals was applied.
LEMMA WritersArePosted ==
  ASSUME TypeOK, DraftsUndecided, AppliedWhole,
         NEW s \in Slots, NEW v \in DOMAIN canon[s], canon[s][v].by \in Batches
  PROVE  Posted(canon[s][v].by) /\ batch[canon[s][v].by].props[s] = "applied"
<1>. DEFINE b == canon[s][v].by
<1>1. v \in WrittenIn(canon[s], b)
  BY DEF WrittenIn
<1>2. Whole(b)
  BY Restated
<1>3. batch[b].props[s] = "applied"
  BY <1>1, <1>2 DEF Whole
<1>. HIDE DEF b
<1>4. s \in SlotsOf(b)
  BY <1>3 DEF SlotsOf
<1>5. b \in Batches
  BY DEF b
<1>6. Posted(b)
  BY <1>3, <1>4, <1>5 DEF DraftsUndecided, AllProps
<1>. QED BY <1>3, <1>6 DEF b

\* An old version stays as reviewed, whoever writes.
LEMMA StillAsReviewed ==
  ASSUME TypeOK, Dated, DraftsUndecided, AppliedWhole, WrittenAsReviewed,
         Unwritten \/ \E by : \E slots \in SUBSET Slots : Grows(by, slots),
         \A b \in Batches : Posted(b) => /\ batch'[b].origin = batch[b].origin
                                         /\ batch'[b].shown = batch[b].shown
                                         /\ batch'[b].expect = batch[b].expect,
         NEW s \in Slots, NEW v \in DOMAIN canon[s], canon'[s][v] = canon[s][v]
  PROVE  AsReviewed(s, v)'
<1>. SUFFICES ASSUME canon[s][v].by \in Batches
     PROVE  AsReviewed(s, v)'
  BY DEF AsReviewed
<1>. DEFINE b == canon[s][v].by
            rev == canon[s][v].rev
<1>1. canon[s][v] \in VersionRecord
  BY TypedParts
<1>2. rev \in Nat /\ rev <= revision + 1
  <2>1. rev \in Nat /\ revision \in Nat /\ rev <= revision
    BY <1>1, TypedParts DEF VersionRecord, Dated
  <2>. QED BY <2>1
<1>3. \A t \in Slots : HeadsIn(canon'[t], rev) = HeadsIn(canon[t], rev)
  <2>1. CASE Unwritten
    BY <2>1 DEF Unwritten
  <2>2. CASE \E by : \E slots \in SUBSET Slots : Grows(by, slots)
    BY <1>2, <2>2, Growth
  <2>. QED BY <2>1, <2>2
<1>4. AsReviewed(s, v)
  BY Restated
<1>5. \A t \in Related[s] : t \in Slots
  BY SlotsAssumption
<1>6. Posted(b)
  BY WritersArePosted
<1>7. /\ batch'[b].origin = batch[b].origin
      /\ batch'[b].shown = batch[b].shown
      /\ batch'[b].expect = batch[b].expect
  BY <1>6
<1>8. canon'[s][v].by = b /\ canon'[s][v].rev = rev
  OBVIOUS
<1>9. /\ HeadsIn(canon[s], rev) = batch[b].expect[s]
      /\ batch[b].origin = "phase2" =>
            \A t \in Related[s] : HeadsIn(canon[t], rev) = batch[b].shown[t]
  BY <1>4 DEF AsReviewed
<1>. HIDE DEF b, rev
<1>10. /\ HeadsIn(canon'[s], rev) = batch'[b].expect[s]
       /\ batch'[b].origin = "phase2" =>
             \A t \in Related[s] : HeadsIn(canon'[t], rev) = batch'[b].shown[t]
  BY <1>3, <1>5, <1>7, <1>9
<1>. QED BY <1>8, <1>10 DEF AsReviewed

\* Leo may write a correction at the same time, not another batch.
LEMMA EvolvingKeeps ==
  ASSUME TypeOK, Dated, DraftsUndecided, AppliedWhole, WrittenAsReviewed,
         Unwritten \/ \E slots \in SUBSET Slots : Grows(Leo, slots),
         \A b \in Batches : Evolves(b)
  PROVE  Dated' /\ DraftsUndecided' /\ AppliedWhole' /\ WrittenAsReviewed'
<1>0. Leo \notin Batches
  BY NamesAssumption
<1>1. Dated'
  <2>1. CASE Unwritten
    BY <2>1 DEF Unwritten, Dated
  <2>2. CASE \E slots \in SUBSET Slots : Grows(Leo, slots)
    BY <2>2, GrowthDated
  <2>. QED BY <2>1, <2>2
<1>2. DraftsUndecided'
  <2>. SUFFICES ASSUME NEW b \in Batches, ~Posted(b)'
       PROVE  \A s \in Slots : batch'[b].props[s] \in {"none", "pending"}
    BY DEF DraftsUndecided, AllProps, SlotsOf
  <2>. QED BY DEF Evolves
<1>3. \A b \in Batches, s \in Slots : WrittenIn(canon'[s], b) = WrittenIn(canon[s], b)
  <2>1. CASE Unwritten
    BY <2>1 DEF Unwritten
  <2>2. CASE \E slots \in SUBSET Slots : Grows(Leo, slots)
    <3>1. PICK slots \in SUBSET Slots : Grows(Leo, slots)
      BY <2>2
    <3>2. \A s \in Slots : \A b :
             WrittenIn(canon'[s], b) =
               WrittenIn(canon[s], b)
                 \cup (IF s \in slots /\ b = Leo THEN {Len(canon[s]) + 1} ELSE {})
      BY <3>1, Growth
    <3>3. \A b \in Batches : b # Leo
      BY <1>0
    <3>. QED BY <3>2, <3>3
  <2>. QED BY <2>1, <2>2
<1>4. AppliedWhole'
  <2>. SUFFICES ASSUME NEW b \in Batches
       PROVE  Whole(b)'
    BY RestatedNext
  <2>1. Whole(b)
    BY Restated
  <2>2. CASE Posted(b)
    <3>1. \A s \in Slots :
             /\ batch'[b].props[s] = "applied" <=> batch[b].props[s] = "applied"
             /\ batch[b].props[s] = "none" => batch'[b].props[s] = "none"
      BY <2>2 DEF Evolves
    <3>2. (\E s \in Slots : batch'[b].props[s] = "applied")
            => \A s \in Slots : batch'[b].props[s] \in {"none", "applied"}
      BY <2>1, <3>1 DEF Whole
    <3>3. \A s \in Slots :
             IF batch'[b].props[s] = "applied" THEN \E v : WrittenIn(canon'[s], b) = {v}
             ELSE WrittenIn(canon'[s], b) = {}
      BY <1>3, <2>1, <3>1 DEF Whole
    <3>. QED BY <3>2, <3>3 DEF Whole
  <2>3. CASE ~Posted(b)
    <3>1. \A s \in Slots : batch[b].props[s] # "applied" /\ batch'[b].props[s] # "applied"
      BY <2>3 DEF Evolves, DraftsUndecided, AllProps, SlotsOf
    <3>2. \A s \in Slots : WrittenIn(canon'[s], b) = {}
      BY <1>3, <2>1, <3>1 DEF Whole
    <3>. QED BY <3>1, <3>2 DEF Whole
  <2>. QED BY <2>2, <2>3
<1>5. WrittenAsReviewed'
  <2>. SUFFICES ASSUME NEW s \in Slots, NEW v \in DOMAIN canon'[s]
       PROVE  AsReviewed(s, v)'
    BY RestatedNext
  <2>1. CASE v \in DOMAIN canon[s] /\ canon'[s][v] = canon[s][v]
    BY <2>1, StillAsReviewed DEF Evolves
  <2>2. CASE canon'[s][v].by = Leo
    BY <1>0, <2>2 DEF AsReviewed
  <2>3. CASE Unwritten
    BY <2>1, <2>3 DEF Unwritten
  <2>. QED BY <2>1, <2>2, <2>3, Growth
<1>. QED BY <1>1, <1>2, <1>4, <1>5

\* Applying a batch that was approved.
LEMMA ApplyGrows ==
  ASSUME TypeOK, NEW b \in Batches, Apply(b)
  PROVE  /\ Grows(b, SlotsOf(b))
         /\ batch' \in [Batches -> BatchRecord]
         /\ canon' \in [Slots -> Seq(VersionRecord)]
         /\ revision' \in Nat
         /\ \A a \in Batches \ {b} : batch'[a] = batch[a]
         /\ batch'[b].status = "applied"
         /\ batch'[b].origin = batch[b].origin
         /\ batch'[b].shown = batch[b].shown
         /\ batch'[b].expect = batch[b].expect
         /\ \A s \in Slots : batch'[b].props[s] =
                               IF s \in SlotsOf(b) THEN "applied" ELSE "none"
<1>. DEFINE props == WithProps(b, SlotsOf(b), {"approved"}, "applied")
            row == [batch[b] EXCEPT !.props = props, !.status = "applied"]
<1>1. batch[b] \in BatchRecord
  BY TypedParts
<1>2. props \in [Slots -> Proposal]
  BY <1>1, Statuses DEF WithProps, BatchRecord
<1>3. \A s \in Slots : props[s] = IF s \in SlotsOf(b) THEN "applied" ELSE "none"
  BY DEF WithProps, Apply, CanApply, AllProps, SlotsOf
<1>4. batch' = [batch EXCEPT ![b] = row]
  <2>1. batch' = [batch EXCEPT ![b].props = props, ![b].status = "applied"]
    BY DEF Apply
  <2>. HIDE DEF props
  <2>. QED BY <1>1, <2>1, TypedParts
<1>. HIDE DEF props
<1>5. /\ row \in BatchRecord
      /\ row.status = "applied"
      /\ row.origin = batch[b].origin
      /\ row.shown = batch[b].shown
      /\ row.expect = batch[b].expect
      /\ row.props = props
  BY <1>1, <1>2, Statuses DEF BatchRecord
<1>. HIDE DEF row
<1>6. /\ batch' \in [Batches -> BatchRecord]
      /\ batch'[b] = row
      /\ \A a \in Batches \ {b} : batch'[a] = batch[a]
  BY <1>4, <1>5, SetBatchTyped, TypedParts
<1>7. \A s \in Slots : AppliedVersion(b, s) \in VersionRecord
  <2>. SUFFICES ASSUME NEW s \in Slots
       PROVE  AppliedVersion(b, s) \in VersionRecord
    OBVIOUS
  <2>1. Heads(s) \in SUBSET Nat /\ revision + 1 \in Nat
    BY HeadsTyped, TypedParts
  <2>2. StatusAfter(b) \in {"approved", "disputed", "outcome_unknown"}
    BY DEF StatusAfter
  <2>. QED BY <2>1, <2>2 DEF AppliedVersion, Version, VersionRecord
<1>8. \A s \in Slots : AppliedVersion(b, s).by = b /\ AppliedVersion(b, s).rev = revision + 1
  BY DEF AppliedVersion, Version
<1>9. /\ canon' = [s \in Slots |-> IF s \in SlotsOf(b)
                     THEN Append(canon[s], AppliedVersion(b, s)) ELSE canon[s]]
      /\ revision' = revision + 1
      /\ SlotsOf(b) \subseteq Slots
  BY DEF Apply, SlotsOf
<1>10. \A s \in Slots : Append(canon[s], AppliedVersion(b, s)) \in Seq(VersionRecord)
  BY <1>7, TypedParts, AppendProperties
<1>11. Grows(b, SlotsOf(b))
  BY <1>7, <1>8, <1>9 DEF Grows
<1>12. canon' \in [Slots -> Seq(VersionRecord)] /\ revision' \in Nat
  BY <1>9, <1>10, TypedParts
<1>. QED BY <1>3, <1>5, <1>6, <1>11, <1>12

LEMMA ApplyKeeps ==
  ASSUME TypeOK, Dated, DraftsUndecided, AppliedWhole, WrittenAsReviewed,
         NEW b \in Batches, Apply(b)
  PROVE  Dated' /\ DraftsUndecided' /\ AppliedWhole' /\ WrittenAsReviewed'
<1>0. /\ Grows(b, SlotsOf(b)) /\ SlotsOf(b) \in SUBSET Slots
      /\ \A a \in Batches \ {b} : batch'[a] = batch[a]
      /\ batch'[b].status = "applied"
      /\ batch'[b].origin = batch[b].origin
      /\ batch'[b].shown = batch[b].shown
      /\ batch'[b].expect = batch[b].expect
      /\ \A s \in Slots : batch'[b].props[s] =
                            IF s \in SlotsOf(b) THEN "applied" ELSE "none"
  BY ApplyGrows DEF SlotsOf
<1>1. Dated'
  BY <1>0, GrowthDated
<1>2. DraftsUndecided'
  <2>. SUFFICES ASSUME NEW a \in Batches, ~Posted(a)'
       PROVE  \A s \in Slots : batch'[a].props[s] \in {"none", "pending"}
    BY DEF DraftsUndecided, AllProps, SlotsOf
  <2>1. a # b
    BY <1>0 DEF Posted, Drafting
  <2>2. batch'[a] = batch[a]
    BY <1>0, <2>1
  <2>. QED BY <2>2 DEF Posted, DraftsUndecided, AllProps, SlotsOf
<1>3. \A a \in Batches, s \in Slots :
         WrittenIn(canon'[s], a) =
           WrittenIn(canon[s], a)
             \cup (IF s \in SlotsOf(b) /\ a = b THEN {Len(canon[s]) + 1} ELSE {})
  BY <1>0, Growth
<1>4. AppliedWhole'
  <2>. SUFFICES ASSUME NEW a \in Batches
       PROVE  Whole(a)'
    BY RestatedNext
  <2>1. Whole(a)
    BY Restated
  <2>2. CASE a = b
    <3>1. \A s \in Slots : batch[b].props[s] # "applied"
      BY DEF Apply, CanApply, AllProps, SlotsOf
    <3>2. \A s \in Slots : WrittenIn(canon[s], b) = {}
      BY <2>1, <2>2, <3>1 DEF Whole
    <3>3. \A s \in Slots : WrittenIn(canon'[s], b) =
                             IF s \in SlotsOf(b) THEN {Len(canon[s]) + 1} ELSE {}
      BY <1>3, <3>2
    <3>. QED BY <1>0, <2>2, <3>3 DEF Whole
  <2>3. CASE a # b
    BY <1>0, <1>3, <2>1, <2>3 DEF Whole
  <2>. QED BY <2>2, <2>3
<1>5. WrittenAsReviewed'
  <2>. SUFFICES ASSUME NEW s \in Slots, NEW v \in DOMAIN canon'[s]
       PROVE  AsReviewed(s, v)'
    BY RestatedNext
  <2>1. CASE v \in DOMAIN canon[s] /\ canon'[s][v] = canon[s][v]
    <3>1. \A a \in Batches : /\ batch'[a].origin = batch[a].origin
                             /\ batch'[a].shown = batch[a].shown
                             /\ batch'[a].expect = batch[a].expect
      BY <1>0
    <3>. QED BY <1>0, <2>1, <3>1, StillAsReviewed
  <2>2. CASE /\ s \in SlotsOf(b)
             /\ canon'[s][v].by = b
             /\ canon'[s][v].rev = revision + 1
    <3>1. revision + 1 \in Nat /\ revision + 1 <= revision + 1
      BY TypedParts
    <3>2. \A t \in Slots : HeadsIn(canon'[t], revision + 1) = Heads(t)
      BY <1>0, <3>1, Growth, PresentHeads
    <3>3. Heads(s) = batch[b].expect[s]
      BY <2>2 DEF Apply, CanApply, HeadsMatch
    <3>4. batch[b].origin = "phase2" => \A t \in Related[s] : Heads(t) = batch[b].shown[t]
      BY <2>2 DEF Apply, CanApply, ContextMatches
    <3>5. \A t \in Related[s] : t \in Slots
      BY SlotsAssumption
    <3>. QED BY <1>0, <2>2, <3>2, <3>3, <3>4, <3>5 DEF AsReviewed
  <2>. QED BY <1>0, <2>1, <2>2, Growth
<1>. QED BY <1>1, <1>2, <1>4, <1>5

-----------------------------------------------------------------------------
(***************************************************************************)
(* The actions.  One batch changes at a time.                              *)
(***************************************************************************)
LEMMA OneBatch ==
  ASSUME TypeOK, DraftsUndecided, NEW b \in Batches, NEW row \in BatchRecord,
         batch' = [batch EXCEPT ![b] = row],
         ~Posted(b), \A s \in Slots : row.props[s] \in {"none", "pending"}
  PROVE  batch' \in [Batches -> BatchRecord] /\ \A a \in Batches : Evolves(a)
<1>1. /\ batch' \in [Batches -> BatchRecord]
      /\ batch'[b] = row
      /\ \A a \in Batches \ {b} : batch'[a] = batch[a]
  BY SetBatchTyped, TypedParts
<1>2. \A a \in Batches \ {b} : Posted(a)' <=> Posted(a)
  BY <1>1 DEF Posted
<1>3. \A a \in Batches \ {b} : Evolves(a)
  BY <1>1, <1>2 DEF Evolves, DraftsUndecided, AllProps, SlotsOf
<1>. QED BY <1>1, <1>3 DEF Evolves

LEMMA OnePosted ==
  ASSUME TypeOK, DraftsUndecided, NEW b \in Batches, NEW row \in BatchRecord,
         batch' = [batch EXCEPT ![b] = row],
         Posted(b),
         row.status \in {batch[b].status, "pending", "approved", "rejected", "stale"},
         row.origin = batch[b].origin,
         row.shown = batch[b].shown,
         row.expect = batch[b].expect,
         \A s \in Slots : \/ row.props[s] = batch[b].props[s]
                          \/ /\ batch[b].props[s] = "pending"
                             /\ row.props[s] \in {"approved", "rejected", "stale"}
  PROVE  batch' \in [Batches -> BatchRecord] /\ \A a \in Batches : Evolves(a)
<1>1. /\ batch' \in [Batches -> BatchRecord]
      /\ batch'[b] = row
      /\ \A a \in Batches \ {b} : batch'[a] = batch[a]
  BY SetBatchTyped, TypedParts
<1>2. \A a \in Batches \ {b} : Posted(a)' <=> Posted(a)
  BY <1>1 DEF Posted
<1>3. \A a \in Batches \ {b} : Evolves(a)
  BY <1>1, <1>2 DEF Evolves, DraftsUndecided, AllProps, SlotsOf
<1>4. Posted(b)'
  BY <1>1 DEF Posted, Drafting
<1>. QED BY <1>1, <1>3, <1>4 DEF Evolves

LEMMA SameBatches ==
  ASSUME DraftsUndecided, UNCHANGED batch
  PROVE  \A b \in Batches : Evolves(b)
<1>1. \A b \in Batches : Posted(b)' <=> Posted(b)
  BY DEF Posted
<1>. QED BY <1>1 DEF Evolves, DraftsUndecided, AllProps, SlotsOf

\* What the steps of a draft leave: nothing of it is decided.
LEMMA DraftEvolves ==
  ASSUME TypeOK, DraftsUndecided, NEW b \in Batches,
         DraftStep(b) \/ AbandonDraft(b) \/ ProposeExpired(b)
  PROVE  /\ TypeOK'
         /\ Unwritten
         /\ cmd' = cmd
         /\ \A a \in Batches : Evolves(a)
<1>1. \A a \in Batches : batch[a] \in BatchRecord
  BY TypedParts
<1>2. Unwritten /\ cmd' = cmd /\ waiting' \in SUBSET Slots
  <2>1. CASE DraftStep(b)
    BY <2>1, TypedParts DEF DraftStep, ShowHeads, BindHeads, RecheckContext, CreateBatch,
                            SuppressCandidates, Unwritten
  <2>2. CASE AbandonDraft(b)
    BY <2>2, TypedParts DEF AbandonDraft, Unwritten
  <2>3. CASE ProposeExpired(b)
    BY <2>3, TypedParts DEF ProposeExpired, Unwritten
  <2>. QED BY <2>1, <2>2, <2>3
<1>3. ~Posted(b)
  BY DEF DraftStep, ShowHeads, BindHeads, RecheckContext, CreateBatch, SuppressCandidates,
         AbandonDraft, ProposeExpired, Posted, Drafting
<1>4. \A s \in Slots : batch[b].props[s] \in {"none", "pending"}
  BY <1>3 DEF DraftsUndecided, AllProps, SlotsOf
<1>5. \A s \in Slots : NoRow.props[s] \in {"none", "pending"}
  BY DEF NoRow
<1>6. \E row \in BatchRecord :
         /\ batch' = [batch EXCEPT ![b] = row]
         /\ \A s \in Slots : row.props[s] \in {"none", "pending"}
  <2>1. ASSUME NEW s \in Slots, ShowHeads(b, s)
        PROVE  <1>6!:
    <3>1. PICK op \in OperationsOn(Heads(s)) :
            batch' = [batch EXCEPT ![b] =
                        [NoRow EXCEPT !.status = "shown", !.op = op,
                                      !.shown = [t \in Slots |-> Heads(t)],
                                      !.props[s] = "pending"]]
      BY <2>1 DEF ShowHeads
    <3>2. op \in Operations
      BY DEF OperationsOn, Operations
    <3>. QED BY <3>1, <3>2, DraftRow
  <2>2. CASE BindHeads(b)
    <3>. DEFINE expect == Expected(SlotsOf(b))
                row == [batch[b] EXCEPT !.status = "bound", !.expect = expect]
    <3>1. batch' = [batch EXCEPT ![b].status = "bound", ![b].expect = expect]
      BY <2>2 DEF BindHeads
    <3>2. expect \in [Slots -> SUBSET Nat]
      BY HeadsTyped
    <3>. HIDE DEF expect
    <3>3. batch' = [batch EXCEPT ![b] = row]
      BY <1>1, <3>1, TypedParts
    <3>4. row \in BatchRecord /\ row.props = batch[b].props
      BY <1>1, <3>2, Statuses DEF BatchRecord
    <3>. HIDE DEF row
    <3>. QED BY <1>4, <3>3, <3>4
  <2>3. ASSUME NEW status \in {"checked", "pending"},
               batch' = [batch EXCEPT ![b].status = status]
        PROVE  <1>6!:
    <3>. DEFINE row == [batch[b] EXCEPT !.status = status]
    <3>1. batch' = [batch EXCEPT ![b] = row]
      BY <2>3, TypedParts
    <3>2. row \in BatchRecord /\ row.props = batch[b].props
      BY <1>1, Statuses DEF BatchRecord
    <3>. HIDE DEF row
    <3>. QED BY <1>4, <3>1, <3>2
  <2>4. CASE batch' = [batch EXCEPT ![b] = NoRow]
    BY <1>5, <2>4, NoRowTyped
  <2>5. CASE ProposeExpired(b)
    <3>. DEFINE due == {s \in Slots : Expired(s) /\ ~AlreadyProposed(s)}
    <3>1. batch' = [batch EXCEPT ![b] =
             [NoRow EXCEPT !.status = "pending", !.origin = "temporal", !.op = "replace",
                           !.shown  = [t \in Slots |-> Heads(t)],
                           !.expect = Expected(due),
                           !.props  = [s \in Slots |->
                                         IF s \in due THEN "pending" ELSE "none"]]]
      BY <2>5 DEF ProposeExpired
    <3>2. due \in SUBSET Slots
      OBVIOUS
    <3>. HIDE DEF due
    <3>. QED BY <3>1, <3>2, ExpiredRow
  <2>. QED BY <2>1, <2>2, <2>3, <2>4, <2>5
           DEF DraftStep, RecheckContext, CreateBatch, SuppressCandidates, AbandonDraft
<1>7. batch' \in [Batches -> BatchRecord] /\ \A a \in Batches : Evolves(a)
  BY <1>3, <1>6, OneBatch
<1>8. TypeOK'
  BY <1>2, <1>7, TypedParts DEF TypeOK, Unwritten
<1>. QED BY <1>2, <1>7, <1>8

LEMMA CommandsKept ==
  ASSUME CommandsOnPosted,
         \A b \in Batches : Posted(b) => Posted(b)',
         \A c \in Commands :
            \/ cmd'[c] = cmd[c]
            \/ cmd[c].pc # "idle" /\ cmd'[c].batch = cmd[c].batch
            \/ cmd'[c].batch \in Batches /\ Posted(cmd'[c].batch)
  PROVE  CommandsOnPosted'
<1>. SUFFICES ASSUME NEW c \in Commands, cmd'[c].pc # "idle"
     PROVE  cmd'[c].batch \in Batches /\ batch'[cmd'[c].batch].status \notin {"none"} \cup Drafting
  BY DEF CommandsOnPosted, Posted
<1>1. \A b \in Batches : Posted(b) => batch'[b].status \notin {"none"} \cup Drafting
  BY DEF Posted
<1>. QED BY <1>1 DEF CommandsOnPosted

\* A command moves on within its batch.
LEMMA GotoKeeps ==
  ASSUME TypeOK, CommandsOnPosted, NEW c \in Commands, NEW pc \in CommandPc,
         ~At(c, "idle"), Goto(c, pc)
  PROVE  /\ cmd' \in [Commands -> CommandRecord]
         /\ cmd[c].batch \in Batches /\ Posted(cmd[c].batch)
         /\ (\A b \in Batches : Posted(b) => Posted(b)') => CommandsOnPosted'
<1>1. cmd' \in [Commands -> CommandRecord]
  BY GotoTyped
<1>2. \A d \in Commands : cmd'[d] = cmd[d] \/ (d = c /\ cmd'[d].batch = cmd[d].batch)
  BY TypedParts DEF CommandRecord
<1>3. cmd[c].batch \in Batches /\ Posted(cmd[c].batch)
  BY DEF CommandsOnPosted
<1>4. (\A b \in Batches : Posted(b) => Posted(b)') => CommandsOnPosted'
  BY <1>2, CommandsKept
<1>. QED BY <1>1, <1>3, <1>4

\* A command starts on a batch that Leo can see.
Starts(c) ==
    \E b \in Batches : \/ ValidateFresh(c, b) \/ ValidateStale(c, b)
                       \/ ResumeApproved(c, b) \/ StartReject(c, b)
                       \/ \E s \in Slots : StartCorrect(c, b, s)

LEMMA StartKeeps ==
  ASSUME TypeOK, DraftsUndecided, CommandsOnPosted, NEW c \in Commands, Starts(c)
  PROVE  /\ TypeOK'
         /\ CommandsOnPosted'
         /\ Unwritten
         /\ \A b \in Batches : Evolves(b)
<1>1. PICK b \in Batches : \/ ValidateFresh(c, b) \/ ValidateStale(c, b)
                           \/ ResumeApproved(c, b) \/ StartReject(c, b)
                           \/ \E s \in Slots : StartCorrect(c, b, s)
  BY DEF Starts
<1>2. Posted(b)
  BY <1>1 DEF ValidateFresh, ValidateStale, ResumeApproved, StartReject, StartCorrect,
              Posted, Drafting
<1>3. \E pc \in CommandPc, picks \in SUBSET Slots, heads \in SUBSET Nat :
         Enter(c, pc, b, picks, heads)
  <2>1. /\ {"record", "mark", "apply", "reject", "write"} \subseteq CommandPc
        /\ SlotsOf(b) \in SUBSET Slots
        /\ {s \in Slots : batch[b].props[s] = "pending"} \in SUBSET Slots
        /\ \A s \in Slots : {s} \in SUBSET Slots /\ Heads(s) \in SUBSET Nat
        /\ {} \in SUBSET Nat
    BY Statuses, HeadsTyped DEF SlotsOf
  <2>2. CASE ValidateFresh(c, b)
    BY <2>1, <2>2 DEF ValidateFresh
  <2>3. CASE ValidateStale(c, b)
    BY <2>1, <2>3 DEF ValidateStale
  <2>4. CASE ResumeApproved(c, b)
    BY <2>1, <2>4 DEF ResumeApproved
  <2>5. CASE StartReject(c, b)
    BY <2>1, <2>5 DEF StartReject
  <2>6. ASSUME NEW s \in Slots, StartCorrect(c, b, s)
        PROVE  <1>3!:
    BY <2>1, <2>6 DEF StartCorrect
  <2>. QED BY <1>1, <2>2, <2>3, <2>4, <2>5, <2>6
<1>4. PICK pc \in CommandPc, picks \in SUBSET Slots, heads \in SUBSET Nat :
         Enter(c, pc, b, picks, heads)
  BY <1>3
<1>. DEFINE entry == [pc |-> pc, batch |-> b, picks |-> picks, heads |-> heads]
<1>5. entry \in CommandRecord /\ entry.batch = b
  BY DEF CommandRecord, CommandPc
<1>6. cmd' = [cmd EXCEPT ![c] = entry] /\ UNCHANGED <<canon, revision, batch, waiting>>
  BY <1>4 DEF Enter
<1>. HIDE DEF entry
<1>7. cmd' \in [Commands -> CommandRecord]
  BY <1>5, <1>6, StepTyped
<1>8. \A b2 \in Batches : Evolves(b2)
  BY <1>6, SameBatches
<1>9. CommandsOnPosted'
  <2>1. \A d \in Commands : cmd'[d] = cmd[d] \/ (cmd'[d].batch = b)
    BY <1>5, <1>6, TypedParts
  <2>2. \A b2 \in Batches : Posted(b2) => Posted(b2)'
    BY <1>8 DEF Evolves
  <2>. QED BY <1>2, <2>1, <2>2, CommandsKept
<1>. QED BY <1>6, <1>7, <1>8, <1>9, TypedParts DEF TypeOK, Unwritten

\* Every other step of a command but the one that applies the batch.
LEMMA CommandEvolves ==
  ASSUME TypeOK, DraftsUndecided, CommandsOnPosted, NEW c \in Commands,
         Command(c), ~ApplyApproved(c)
  PROVE  /\ TypeOK'
         /\ CommandsOnPosted'
         /\ Unwritten \/ \E slots \in SUBSET Slots : Grows(Leo, slots)
         /\ \A b \in Batches : Evolves(b)
<1>. USE TypedParts
<1>. DEFINE Kept == \A b \in Batches : Posted(b) => Posted(b)'
<1>0. (\A b \in Batches : Evolves(b)) => Kept
  BY DEF Evolves
<1>1. CASE Starts(c)
  BY <1>1, StartKeeps
<1>2. CASE MarkStale(c) \/ SettleCorrection(c)
  <2>. DEFINE row == MarkedStale(cmd[c].batch, cmd[c].picks)
  <2>1. /\ batch' = [batch EXCEPT ![cmd[c].batch] = row]
        /\ \E pc \in CommandPc : Goto(c, pc)
        /\ ~At(c, "idle")
        /\ UNCHANGED <<canon, revision, waiting>>
    BY <1>2, Statuses DEF MarkStale, SettleCorrection
  <2>2. /\ cmd' \in [Commands -> CommandRecord]
        /\ cmd[c].batch \in Batches /\ Posted(cmd[c].batch)
        /\ Kept => CommandsOnPosted'
    BY <2>1, GotoKeeps
  <2>3. /\ row \in BatchRecord
        /\ row.status \in {batch[cmd[c].batch].status, "stale"}
        /\ row.origin = batch[cmd[c].batch].origin
        /\ row.shown = batch[cmd[c].batch].shown
        /\ row.expect = batch[cmd[c].batch].expect
        /\ \A s \in Slots :
             \/ row.props[s] = batch[cmd[c].batch].props[s]
             \/ (batch[cmd[c].batch].props[s] = "pending" /\ row.props[s] = "stale")
    BY <2>2, MarkedStaleRow
  <2>. HIDE DEF row, Kept
  <2>4. batch' \in [Batches -> BatchRecord] /\ \A b \in Batches : Evolves(b)
    <3>1. PICK b \in Batches : b = cmd[c].batch
      BY <2>2
    <3>2. /\ batch' = [batch EXCEPT ![b] = row]
          /\ Posted(b)
          /\ row.status \in {batch[b].status, "pending", "approved", "rejected", "stale"}
          /\ row.origin = batch[b].origin
          /\ row.shown = batch[b].shown
          /\ row.expect = batch[b].expect
          /\ \A s \in Slots : \/ row.props[s] = batch[b].props[s]
                              \/ /\ batch[b].props[s] = "pending"
                                 /\ row.props[s] \in {"approved", "rejected", "stale"}
      BY <2>1, <2>2, <2>3, <3>1
    <3>. QED BY <2>3, <3>2, OnePosted
  <2>. QED BY <1>0, <2>1, <2>2, <2>4 DEF TypeOK, Unwritten
<1>3. CASE RecordApproval(c) \/ RecordRejection(c)
  <2>1. PICK verdict \in {"approved", "rejected"} :
          batch' = [batch EXCEPT ![cmd[c].batch] =
                      Recorded(cmd[c].batch, cmd[c].picks, verdict)]
    BY <1>3 DEF RecordApproval, RecordRejection
  <2>. DEFINE row == Recorded(cmd[c].batch, cmd[c].picks, verdict)
  <2>2. /\ \E pc \in CommandPc : Goto(c, pc)
        /\ ~At(c, "idle")
        /\ UNCHANGED <<canon, revision, waiting>>
    BY <1>3, Statuses DEF RecordApproval, RecordRejection
  <2>3. /\ cmd' \in [Commands -> CommandRecord]
        /\ cmd[c].batch \in Batches /\ Posted(cmd[c].batch)
        /\ Kept => CommandsOnPosted'
    BY <2>2, GotoKeeps
  <2>4. /\ row \in BatchRecord
        /\ row.status \in {"pending", "approved", "rejected"}
        /\ row.origin = batch[cmd[c].batch].origin
        /\ row.shown = batch[cmd[c].batch].shown
        /\ row.expect = batch[cmd[c].batch].expect
        /\ \A s \in Slots :
             \/ row.props[s] = batch[cmd[c].batch].props[s]
             \/ (batch[cmd[c].batch].props[s] = "pending" /\ row.props[s] = verdict)
    BY <2>3, RecordedRow
  <2>5. batch' = [batch EXCEPT ![cmd[c].batch] = row]
    BY <2>1
  <2>. HIDE DEF row, Kept
  <2>6. batch' \in [Batches -> BatchRecord] /\ \A b \in Batches : Evolves(b)
    <3>1. PICK b \in Batches : b = cmd[c].batch
      BY <2>3
    <3>2. /\ batch' = [batch EXCEPT ![b] = row]
          /\ Posted(b)
          /\ row.status \in {batch[b].status, "pending", "approved", "rejected", "stale"}
          /\ row.origin = batch[b].origin
          /\ row.shown = batch[b].shown
          /\ row.expect = batch[b].expect
          /\ \A s \in Slots : \/ row.props[s] = batch[b].props[s]
                              \/ /\ batch[b].props[s] = "pending"
                                 /\ row.props[s] \in {"approved", "rejected", "stale"}
      BY <2>3, <2>4, <2>5, <3>1
    <3>. QED BY <2>4, <3>2, OnePosted
  <2>. QED BY <1>0, <2>2, <2>3, <2>6 DEF TypeOK, Unwritten
<1>4. CASE WriteCorrection(c)
  <2>. DEFINE new == Version("approved", cmd[c].heads, Leo, revision + 1)
              slots == cmd[c].picks
  <2>1. /\ canon' = [s \in Slots |-> IF s \in slots THEN Append(canon[s], new) ELSE canon[s]]
        /\ revision' = revision + 1
        /\ Goto(c, "settle")
        /\ "settle" \in CommandPc
        /\ ~At(c, "idle")
        /\ UNCHANGED <<batch, waiting>>
    BY <1>4, Statuses DEF WriteCorrection
  <2>2. cmd[c].heads \in SUBSET Nat /\ slots \in SUBSET Slots
    BY DEF CommandRecord
  <2>3. new \in VersionRecord /\ new.by = Leo /\ new.rev = revision + 1
    BY <2>2 DEF Version, VersionRecord
  <2>. HIDE DEF new, slots
  <2>4. Grows(Leo, slots)
    BY <2>1, <2>2, <2>3 DEF Grows
  <2>5. canon' \in [Slots -> Seq(VersionRecord)] /\ revision' \in Nat
    BY <2>1, <2>3, AppendProperties
  <2>6. \A b \in Batches : Evolves(b)
    BY <2>1, SameBatches
  <2>7. /\ cmd' \in [Commands -> CommandRecord]
        /\ Kept => CommandsOnPosted'
    BY <2>1, GotoKeeps
  <2>. HIDE DEF Kept
  <2>. QED BY <1>0, <2>1, <2>2, <2>4, <2>5, <2>6, <2>7 DEF TypeOK
<1>5. CASE Abort(c)
  <2>1. /\ Goto(c, "done") /\ "done" \in CommandPc /\ ~At(c, "idle")
        /\ UNCHANGED <<canon, revision, batch, waiting>>
    BY <1>5, Statuses DEF Abort
  <2>2. /\ cmd' \in [Commands -> CommandRecord]
        /\ Kept => CommandsOnPosted'
    BY <2>1, GotoKeeps
  <2>3. \A b \in Batches : Evolves(b)
    BY <2>1, SameBatches
  <2>. HIDE DEF Kept
  <2>. QED BY <1>0, <2>1, <2>2, <2>3 DEF TypeOK, Unwritten
<1>. QED BY <1>1, <1>2, <1>3, <1>4, <1>5 DEF Command, Starts

LEMMA ApplyApprovedKeeps ==
  ASSUME TypeOK, CommandsOnPosted, NEW c \in Commands, ApplyApproved(c)
  PROVE  /\ TypeOK'
         /\ CommandsOnPosted'
         /\ cmd[c].batch \in Batches /\ Apply(cmd[c].batch)
<1>1. /\ Goto(c, "done") /\ "done" \in CommandPc /\ ~At(c, "idle")
      /\ Apply(cmd[c].batch) /\ UNCHANGED waiting
  BY Statuses DEF ApplyApproved
<1>2. /\ cmd' \in [Commands -> CommandRecord]
      /\ cmd[c].batch \in Batches
      /\ (\A b \in Batches : Posted(b) => Posted(b)') => CommandsOnPosted'
  BY <1>1, GotoKeeps
<1>3. /\ batch' \in [Batches -> BatchRecord]
      /\ canon' \in [Slots -> Seq(VersionRecord)]
      /\ revision' \in Nat
      /\ \A a \in Batches \ {cmd[c].batch} : batch'[a] = batch[a]
      /\ batch'[cmd[c].batch].status = "applied"
  BY <1>1, <1>2, ApplyGrows
<1>4. \A b \in Batches : Posted(b) => Posted(b)'
  BY <1>3 DEF Posted, Drafting
<1>. QED BY <1>1, <1>2, <1>3, <1>4, TypedParts DEF TypeOK

-----------------------------------------------------------------------------
(***************************************************************************)
(* The invariant is inductive.                                             *)
(***************************************************************************)
LEMMA InitInv == Init => IInv
<1>. SUFFICES ASSUME Init
     PROVE  IInv
  OBVIOUS
<1>0. Origin \notin Batches /\ Founded \subseteq Slots
  BY NamesAssumption, SlotsAssumption
<1>. DEFINE first == Version("approved", {}, Origin, 0)
<1>1. first \in VersionRecord /\ first.by = Origin /\ first.rev = 0
  BY DEF Version, VersionRecord
<1>. HIDE DEF first
<1>2. \A s \in Slots : canon[s] = <<first>> \/ canon[s] = <<>>
  BY DEF Init, first
<1>3. \A s \in Slots : canon[s] \in Seq(VersionRecord)
  <2>1. <<>> \in Seq(VersionRecord)
    OBVIOUS
  <2>2. <<first>> \in Seq(VersionRecord)
    BY <1>1
  <2>. QED BY <1>2, <2>1, <2>2
<1>4. \A s \in Slots : \A v \in DOMAIN canon[s] : canon[s][v] = first
  BY <1>2
<1>5. TypeOK
  <2>1. canon \in [Slots -> Seq(VersionRecord)]
    BY <1>3 DEF Init
  <2>2. cmd \in [Commands -> CommandRecord]
    BY DEF Init, Fresh, CommandRecord
  <2>3. waiting \in SUBSET Slots
    BY SlotsAssumption DEF Init
  <2>. QED BY <2>1, <2>2, <2>3, NoRowTyped DEF Init, TypeOK
<1>6. Dated
  BY <1>1, <1>4 DEF Dated, Init
<1>7. \A b \in Batches, s \in Slots : batch[b].props[s] = "none"
  BY DEF Init, NoRow
<1>8. DraftsUndecided
  BY <1>7 DEF DraftsUndecided, AllProps, SlotsOf
<1>9. CommandsOnPosted
  BY DEF CommandsOnPosted, Init, Fresh
<1>10. WrittenAsReviewed
  BY <1>0, <1>1, <1>4 DEF WrittenAsReviewed
<1>11. AppliedWhole
  <2>1. \A b \in Batches, s \in Slots : WrittenIn(canon[s], b) = {}
    BY <1>0, <1>1, <1>4 DEF WrittenIn
  <2>2. \A b \in Batches : Whole(b)
    BY <1>7, <2>1 DEF Whole
  <2>. QED BY <2>2, Restated
<1>. QED BY <1>5, <1>6, <1>8, <1>9, <1>10, <1>11 DEF IInv

LEMMA StepInv == IInv /\ [Next]_vars => IInv'
<1>. SUFFICES ASSUME IInv, [Next]_vars
     PROVE  IInv'
  OBVIOUS
<1>. USE DEF IInv
<1>1. ASSUME NEW b \in Batches, DraftStep(b) \/ AbandonDraft(b) \/ ProposeExpired(b)
      PROVE  IInv'
  <2>1. TypeOK' /\ Unwritten /\ cmd' = cmd /\ \A a \in Batches : Evolves(a)
    BY <1>1, DraftEvolves
  <2>2. Dated' /\ DraftsUndecided' /\ AppliedWhole' /\ WrittenAsReviewed'
    BY <2>1, EvolvingKeeps
  <2>3. CommandsOnPosted'
    <3>1. \A a \in Batches : Posted(a) => Posted(a)'
      BY <2>1 DEF Evolves
    <3>. QED BY <2>1, <3>1, CommandsKept
  <2>. QED BY <2>1, <2>2, <2>3
<1>2. ASSUME NEW c \in Commands, Command(c), ~ApplyApproved(c)
      PROVE  IInv'
  BY <1>2, CommandEvolves, EvolvingKeeps
<1>3. ASSUME NEW c \in Commands, ApplyApproved(c)
      PROVE  IInv'
  <2>1. TypeOK' /\ CommandsOnPosted' /\ cmd[c].batch \in Batches /\ Apply(cmd[c].batch)
    BY <1>3, ApplyApprovedKeeps
  <2>. QED BY <2>1, ApplyKeeps
<1>4. CASE UNCHANGED vars
  <2>1. TypeOK'
    BY <1>4 DEF vars, TypeOK
  <2>2. Unwritten /\ UNCHANGED batch /\ cmd' = cmd
    BY <1>4 DEF vars, Unwritten
  <2>3. \A b \in Batches : Evolves(b)
    BY <2>2, SameBatches
  <2>4. CommandsOnPosted'
    BY <2>2 DEF CommandsOnPosted, Posted
  <2>. QED BY <2>1, <2>2, <2>3, <2>4, EvolvingKeeps
<1>. QED BY <1>1, <1>2, <1>3, <1>4 DEF Next

LEMMA AlwaysIInv == Spec => []IInv
BY InitInv, StepInv, PTL DEF Spec

-----------------------------------------------------------------------------
(***************************************************************************)
(* Every slot holds a sequence of versions, every batch one status of the  *)
(* schema, whatever Leo's commands and the nightly job do.                 *)
(***************************************************************************)
THEOREM TypeCorrect == Spec => []TypeOK
<1>1. IInv => TypeOK
  BY DEF IInv
<1>. QED BY <1>1, AlwaysIInv, PTL

(***************************************************************************)
(* Review is not bypassed by time: apply_batch writes each version over    *)
(* exactly the heads and the neighbours its proposal is bound to.          *)
(***************************************************************************)
THEOREM HeadsAsReviewed == Spec => []WrittenAsReviewed
<1>1. IInv => WrittenAsReviewed
  BY DEF IInv
<1>. QED BY <1>1, AlwaysIInv, PTL

(***************************************************************************)
(* A batch is applied as a whole and once: each of its proposals writes    *)
(* one version or none does, for any number of commands on the same batch. *)
(***************************************************************************)
THEOREM WholeAndOnce == Spec => []AppliedWhole
<1>1. IInv => AppliedWhole
  BY DEF IInv
<1>. QED BY <1>1, AlwaysIInv, PTL

(***************************************************************************)
(* A decision recorded by `dream review` is never taken back: no draft, no *)
(* other command and no late write on an earlier read changes it.          *)
(***************************************************************************)
THEOREM DecisionsStay == Spec => DecisionsAreFinal
<1>. DEFINE Final == \A b \in Batches, s \in Slots :
              LET before == batch[b].props[s]
                  after == batch'[b].props[s]
              IN /\ before \in {"rejected", "stale", "applied"} => after = before
                 /\ before = "approved" => after \in {"approved", "applied"}
<1>1. ASSUME DraftsUndecided, \A b \in Batches : Evolves(b)
      PROVE  Final
  BY <1>1 DEF Evolves, DraftsUndecided, AllProps, SlotsOf
<1>2. IInv /\ [Next]_vars => Final
  <2>. SUFFICES ASSUME IInv, [Next]_vars
       PROVE  Final
    OBVIOUS
  <2>. USE DEF IInv
  <2>1. ASSUME NEW b \in Batches, DraftStep(b) \/ AbandonDraft(b) \/ ProposeExpired(b)
        PROVE  Final
    BY <1>1, <2>1, DraftEvolves
  <2>2. ASSUME NEW c \in Commands, Command(c), ~ApplyApproved(c)
        PROVE  Final
    BY <1>1, <2>2, CommandEvolves
  <2>3. ASSUME NEW c \in Commands, ApplyApproved(c)
        PROVE  Final
    <3>1. PICK b \in Batches : b = cmd[c].batch /\ Apply(b)
      BY <2>3, ApplyApprovedKeeps
    <3>2. /\ \A a \in Batches \ {b} : batch'[a] = batch[a]
          /\ \A s \in Slots : batch'[b].props[s] =
                                IF s \in SlotsOf(b) THEN "applied" ELSE "none"
      BY <3>1, ApplyGrows
    <3>3. \A s \in Slots : batch[b].props[s] \in {"none", "approved"}
      BY <3>1 DEF Apply, CanApply, AllProps, SlotsOf
    <3>. QED BY <3>2, <3>3 DEF SlotsOf
  <2>4. CASE UNCHANGED vars
    BY <2>4 DEF vars
  <2>. QED BY <2>1, <2>2, <2>3, <2>4 DEF Next
<1>3. IInv /\ [Next]_vars => [Final]_vars
  BY <1>2
<1>. HIDE DEF Final
<1>4. Spec => [][Final]_vars
  BY <1>3, AlwaysIInv, PTL DEF Spec
<1>. QED BY <1>4 DEF DecisionsAreFinal, Final
-----------------------------------------------------------------------------
(***************************************************************************)
(* What a batch retires.                                                   *)
(***************************************************************************)
RetiresBound ==
    \A s \in Slots : \A v \in DOMAIN canon[s] :
        canon[s][v].by \in Batches => canon[s][v].retires \subseteq batch[canon[s][v].by].expect[s]

\* The versions there were, of batches that keep what they are bound to.
LEMMA OlderVersionsBound ==
  ASSUME IInv, RetiresBound, NEW s \in Slots, NEW v \in DOMAIN canon[s],
         canon[s][v].by \in Batches,
         \A b \in Batches : Posted(b) => batch'[b].expect = batch[b].expect
  PROVE  canon[s][v].retires \subseteq batch'[canon[s][v].by].expect[s]
<1>1. Posted(canon[s][v].by)
  BY WritersArePosted DEF IInv
<1>. QED BY <1>1 DEF RetiresBound

LEMMA RetiresBoundStep ==
  ASSUME IInv, RetiresBound, [Next]_vars
  PROVE  RetiresBound'
<1>. USE DEF IInv
<1>1. ASSUME \A b \in Batches : Evolves(b),
             Unwritten \/ \E slots \in SUBSET Slots : Grows(Leo, slots)
      PROVE  RetiresBound'
  <2>1. \A b \in Batches : Posted(b) => batch'[b].expect = batch[b].expect
    BY <1>1 DEF Evolves
  <2>2. ASSUME NEW s \in Slots, NEW v \in DOMAIN canon'[s], canon'[s][v].by \in Batches
        PROVE  v \in DOMAIN canon[s] /\ canon'[s][v] = canon[s][v]
    <3>1. CASE Unwritten
      BY <2>2, <3>1 DEF Unwritten
    <3>2. ASSUME NEW slots \in SUBSET Slots, Grows(Leo, slots)
          PROVE  v \in DOMAIN canon[s] /\ canon'[s][v] = canon[s][v]
      BY <2>2, <3>2, Growth, NamesAssumption
    <3>. QED BY <1>1, <3>1, <3>2
  <2>. QED BY <2>1, <2>2, OlderVersionsBound DEF RetiresBound
<1>2. ASSUME NEW b \in Batches, Apply(b)
      PROVE  RetiresBound'
  <2>1. /\ Grows(b, SlotsOf(b)) /\ SlotsOf(b) \in SUBSET Slots
        /\ \A a \in Batches : batch'[a].expect = batch[a].expect
    BY <1>2, ApplyGrows DEF SlotsOf
  <2>2. ASSUME NEW s \in Slots, NEW v \in DOMAIN canon'[s], canon'[s][v].by \in Batches
        PROVE  canon'[s][v].retires \subseteq batch'[canon'[s][v].by].expect[s]
    <3>1. CASE v \in DOMAIN canon[s] /\ canon'[s][v] = canon[s][v]
      BY <2>1, <2>2, <3>1, OlderVersionsBound
    <3>2. CASE ~(v \in DOMAIN canon[s] /\ canon'[s][v] = canon[s][v])
      <4>1. s \in SlotsOf(b)
        BY <2>1, <3>2, Growth
      <4>2. AppliedVersion(b, s) \in VersionRecord
        BY HeadsTyped, TypedParts DEF AppliedVersion, Version, VersionRecord, StatusAfter
      <4>3. canon'[s] = Append(canon[s], AppliedVersion(b, s)) /\ canon[s] \in Seq(VersionRecord)
        BY <1>2, <4>1, TypedParts DEF Apply
      <4>4. canon'[s][v] = AppliedVersion(b, s)
        BY <3>2, <4>2, <4>3, AppendProperties
      <4>5. canon'[s][v].by = b /\ canon'[s][v].retires \subseteq Heads(s)
        BY <4>4 DEF AppliedVersion, Version
      <4>6. Heads(s) = batch[b].expect[s]
        BY <1>2, <4>1 DEF Apply, CanApply, HeadsMatch
      <4>. QED BY <2>1, <4>5, <4>6
    <3>. QED BY <3>1, <3>2
  <2>. QED BY <2>2 DEF RetiresBound
<1>3. ASSUME NEW b \in Batches, DraftStep(b) \/ AbandonDraft(b) \/ ProposeExpired(b)
      PROVE  RetiresBound'
  BY <1>1, <1>3, DraftEvolves
<1>4. ASSUME NEW c \in Commands, Command(c), ~ApplyApproved(c)
      PROVE  RetiresBound'
  BY <1>1, <1>4, CommandEvolves
<1>5. ASSUME NEW c \in Commands, ApplyApproved(c)
      PROVE  RetiresBound'
  BY <1>2, <1>5, ApplyApprovedKeeps
<1>6. CASE UNCHANGED vars
  BY <1>6 DEF vars, RetiresBound
<1>. QED BY <1>3, <1>4, <1>5, <1>6 DEF Next

LEMMA InitRetires == Init => RetiresBound
<1>. SUFFICES ASSUME Init, NEW s \in Slots, NEW v \in DOMAIN canon[s]
     PROVE  canon[s][v].by \notin Batches
  BY DEF RetiresBound
<1>. QED BY NamesAssumption DEF Init, Version

(***************************************************************************)
(* Applying a batch retires nothing but heads its proposal is bound to by  *)
(* head_set_hash.  That the model was shown them is another matter: the    *)
(* hash is taken of a later read.                                          *)
(***************************************************************************)
THEOREM RetiresOnlyWhatItIsBoundTo == Spec => []RetiresBound
<1>1. Init => IInv /\ RetiresBound
  BY InitInv, InitRetires
<1>2. (IInv /\ RetiresBound) /\ [Next]_vars => (IInv /\ RetiresBound)'
  BY StepInv, RetiresBoundStep
<1>. QED BY <1>1, <1>2, PTL DEF Spec

-----------------------------------------------------------------------------
(***************************************************************************)
(* Drafts during which nobody writes.                                      *)
(***************************************************************************)
BetweenReads == \E b \in Batches : batch[b].status = "shown"

QuietNext == Next /\ (BetweenReads => UNCHANGED canon)
QuietSpec == Init /\ [][QuietNext]_vars

\* What a batch was shown, and from its second read on what it is bound to.
ReadsAgree(b) ==
    IF batch[b].status = "shown"
    THEN \A s \in Slots : batch[b].shown[s] = Heads(s)
    ELSE \A s \in SlotsOf(b) : batch[b].expect[s] = batch[b].shown[s]

LEMMA DraftReadsAgree ==
  ASSUME IInv, \A b \in Batches : ReadsAgree(b), NEW b \in Batches,
         DraftStep(b) \/ AbandonDraft(b) \/ ProposeExpired(b)
  PROVE  \A a \in Batches : ReadsAgree(a)'
<1>. USE DEF IInv
<1>1. batch \in [Batches -> BatchRecord] /\ batch[b] \in BatchRecord
  BY TypedParts
<1>2. UNCHANGED canon
  BY DraftEvolves DEF Unwritten
<1>3. \A s \in Slots : Heads(s)' = Heads(s)
  BY <1>2 DEF Heads
<1>4. ASSUME NEW row, batch' = [batch EXCEPT ![b] = row],
             IF row.status = "shown"
             THEN \A s \in Slots : row.shown[s] = Heads(s)
             ELSE \A s \in Slots : row.props[s] # "none" => row.expect[s] = row.shown[s]
      PROVE  \A a \in Batches : ReadsAgree(a)'
  <2>1. batch'[b] = row /\ \A a \in Batches \ {b} : batch'[a] = batch[a]
    BY <1>1, <1>4
  <2>2. ReadsAgree(b)'
    BY <1>3, <1>4, <2>1 DEF ReadsAgree, SlotsOf
  <2>3. \A a \in Batches \ {b} : ReadsAgree(a)'
    BY <1>3, <2>1 DEF ReadsAgree, SlotsOf
  <2>. QED BY <2>2, <2>3
<1>5. ASSUME NEW s \in Slots, ShowHeads(b, s)
      PROVE  \A a \in Batches : ReadsAgree(a)'
  <2>1. PICK op \in OperationsOn(Heads(s)) :
          batch' = [batch EXCEPT ![b] =
              [NoRow EXCEPT !.status = "shown", !.op = op,
                            !.shown = [t \in Slots |-> Heads(t)], !.props[s] = "pending"]]
    BY <1>5 DEF ShowHeads
  <2>. DEFINE row == [NoRow EXCEPT !.status = "shown", !.op = op,
                                   !.shown = [t \in Slots |-> Heads(t)], !.props[s] = "pending"]
  <2>2. row.status = "shown" /\ \A t \in Slots : row.shown[t] = Heads(t)
    BY DEF NoRow
  <2>3. batch' = [batch EXCEPT ![b] = row]
    BY <2>1
  <2>. HIDE DEF row
  <2>. QED BY <1>4, <2>2, <2>3
<1>6. CASE BindHeads(b)
  <2>. DEFINE expect == Expected(SlotsOf(b))
              row == [batch[b] EXCEPT !.status = "bound", !.expect = expect]
  <2>1. batch' = [batch EXCEPT ![b].status = "bound", ![b].expect = expect]
    BY <1>6 DEF BindHeads
  <2>2. \A s \in Slots : batch[b].props[s] # "none" => expect[s] = Heads(s)
    BY DEF Expected, SlotsOf
  <2>3. \A s \in Slots : batch[b].shown[s] = Heads(s)
    BY <1>6 DEF BindHeads, ReadsAgree
  <2>. HIDE DEF expect
  <2>4. batch' = [batch EXCEPT ![b] = row]
    BY <1>1, <2>1
  <2>5. /\ row.status = "bound" /\ row.props = batch[b].props
        /\ row.shown = batch[b].shown /\ row.expect = expect
    BY <1>1 DEF BatchRecord
  <2>. HIDE DEF row
  <2>. QED BY <1>4, <2>2, <2>3, <2>4, <2>5
<1>7. ASSUME NEW status \in {"checked", "pending"}, batch[b].status # "shown",
             batch' = [batch EXCEPT ![b].status = status]
      PROVE  \A a \in Batches : ReadsAgree(a)'
  <2>. DEFINE row == [batch[b] EXCEPT !.status = status]
  <2>1. batch' = [batch EXCEPT ![b] = row]
    BY <1>1, <1>7
  <2>2. /\ row.status # "shown" /\ row.props = batch[b].props
        /\ row.shown = batch[b].shown /\ row.expect = batch[b].expect
    BY <1>1 DEF BatchRecord
  <2>. HIDE DEF row
  <2>3. \A s \in Slots : row.props[s] # "none" => row.expect[s] = row.shown[s]
    BY <1>7, <2>2 DEF ReadsAgree, SlotsOf
  <2>. QED BY <1>4, <2>1, <2>2, <2>3
<1>8. CASE batch' = [batch EXCEPT ![b] = NoRow]
  <2>1. NoRow.status = "none" /\ \A s \in Slots : NoRow.props[s] = "none"
    BY DEF NoRow
  <2>. QED BY <1>4, <1>8, <2>1
<1>9. CASE ProposeExpired(b)
  <2>. DEFINE due == {s \in Slots : Expired(s) /\ ~AlreadyProposed(s)}
              shown == [t \in Slots |-> Heads(t)]
              expect == Expected(due)
              props == [s \in Slots |-> IF s \in due THEN "pending" ELSE "none"]
              row == [NoRow EXCEPT !.status = "pending", !.origin = "temporal", !.op = "replace",
                                   !.shown = shown, !.expect = expect, !.props = props]
  <2>1. batch' = [batch EXCEPT ![b] = row]
    BY <1>9 DEF ProposeExpired
  <2>. HIDE DEF due
  <2>2. \A s \in Slots : props[s] # "none" => expect[s] = shown[s]
    BY DEF Expected
  <2>. HIDE DEF props, expect, shown
  <2>3. row.status = "pending" /\ row.props = props /\ row.shown = shown /\ row.expect = expect
    BY DEF NoRow
  <2>. HIDE DEF row
  <2>. QED BY <1>4, <2>1, <2>2, <2>3
<1>. QED BY <1>5, <1>6, <1>7, <1>8, <1>9
         DEF DraftStep, RecheckContext, CreateBatch, SuppressCandidates, AbandonDraft

\* A command leaves every batch alone that Leo cannot see.
LEMMA CommandSparesDrafts ==
  ASSUME IInv, NEW c \in Commands, Command(c), NEW b \in Batches, ~Posted(b)
  PROVE  batch'[b] = batch[b]
<1>1. CASE Starts(c) \/ WriteCorrection(c) \/ Abort(c)
  BY <1>1 DEF Starts, ValidateFresh, ValidateStale, ResumeApproved, StartReject, StartCorrect, Enter,
              WriteCorrection, Abort
<1>2. CASE MarkStale(c) \/ SettleCorrection(c) \/ RecordApproval(c) \/ RecordRejection(c)
           \/ ApplyApproved(c)
  <2>1. cmd[c].batch # b
    BY <1>2 DEF MarkStale, SettleCorrection, RecordApproval, RecordRejection, ApplyApproved,
                IInv, CommandsOnPosted
  <2>. QED BY <1>2, <2>1 DEF MarkStale, SettleCorrection, RecordApproval, RecordRejection,
                             ApplyApproved, Apply, IInv, TypeOK
<1>. QED BY <1>1, <1>2 DEF Command, Starts

LEMMA CommandReadsAgree ==
  ASSUME IInv, \A b \in Batches : ReadsAgree(b), NEW c \in Commands, Command(c),
         BetweenReads => UNCHANGED canon
  PROVE  \A b \in Batches : ReadsAgree(b)'
<1>. USE DEF IInv
<1>. SUFFICES ASSUME NEW b \in Batches PROVE ReadsAgree(b)'
  OBVIOUS
<1>1. CASE ~Posted(b)
  <2>1. batch'[b] = batch[b]
    BY <1>1, CommandSparesDrafts
  <2>2. CASE batch[b].status = "shown"
    <3>1. UNCHANGED canon
      BY <2>2 DEF BetweenReads
    <3>. QED BY <2>1, <2>2, <3>1 DEF ReadsAgree, Heads
  <2>3. CASE batch[b].status # "shown"
    BY <2>1, <2>3 DEF ReadsAgree, SlotsOf
  <2>. QED BY <2>2, <2>3
<1>2. CASE Posted(b)
  <2>1. /\ batch'[b].status # "shown" /\ batch[b].status # "shown"
        /\ batch'[b].shown = batch[b].shown
        /\ batch'[b].expect = batch[b].expect
        /\ \A s \in Slots : batch'[b].props[s] # "none" => batch[b].props[s] # "none"
    <3>1. CASE ~ApplyApproved(c)
      BY <1>2, <3>1, CommandEvolves DEF Evolves, Posted, Drafting
    <3>2. CASE ApplyApproved(c)
      <4>1. PICK d \in Batches : d = cmd[c].batch /\ Apply(d)
        BY <3>2, ApplyApprovedKeeps
      <4>2. TypeOK
        OBVIOUS
      <4>. HIDE DEF IInv
      <4>3. CASE d # b
        <5>1. batch'[b] = batch[b]
          BY <4>1, <4>2, <4>3, ApplyGrows
        <5>. QED BY <1>2, <5>1 DEF Posted, Drafting
      <4>4. CASE d = b
        <5>1. /\ batch'[b].status = "applied"
              /\ batch'[b].shown = batch[b].shown
              /\ batch'[b].expect = batch[b].expect
              /\ \A s \in Slots : batch'[b].props[s] =
                                    IF s \in SlotsOf(b) THEN "applied" ELSE "none"
          BY <4>1, <4>2, <4>4, ApplyGrows
        <5>2. batch[b].status # "shown"
          BY <1>2 DEF Posted, Drafting
        <5>3. \A s \in SlotsOf(b) : batch[b].props[s] # "none"
          BY DEF SlotsOf
        <5>. QED BY <5>1, <5>2, <5>3
      <4>. QED BY <4>3, <4>4
    <3>. QED BY <3>1, <3>2
  <2>. QED BY <2>1 DEF ReadsAgree, SlotsOf
<1>. QED BY <1>1, <1>2

(***************************************************************************)
(* What NothingUnseenRetired needs: while no version is written between    *)
(* the two reads of a draft, applying a batch retires only heads that the  *)
(* model was shown, however late it is applied.                            *)
(***************************************************************************)
THEOREM QuietDraftsRetireNothingUnseen == QuietSpec => []NothingUnseenRetired
<1>. DEFINE Agree == \A b \in Batches : ReadsAgree(b)
            QInv == IInv /\ RetiresBound /\ Agree
<1>1. Init => Agree
  <2>1. NoRow.status = "none" /\ \A s \in Slots : NoRow.props[s] = "none"
    BY DEF NoRow
  <2>. QED BY <2>1 DEF Init, ReadsAgree, SlotsOf
<1>2. QInv /\ [QuietNext]_vars => QInv'
  <2>. SUFFICES ASSUME QInv, [QuietNext]_vars PROVE QInv'
    OBVIOUS
  <2>1. IInv' /\ RetiresBound'
    BY StepInv, RetiresBoundStep DEF QuietNext
  <2>2. CASE UNCHANGED vars
    BY <2>1, <2>2 DEF vars, ReadsAgree, SlotsOf, Heads
  <2>3. CASE QuietNext
    BY <2>1, <2>3, DraftReadsAgree, CommandReadsAgree DEF QuietNext, Next
  <2>. QED BY <2>2, <2>3
<1>3. QInv => NothingUnseenRetired
  <2>. SUFFICES ASSUME QInv, NEW s \in Slots, NEW v \in DOMAIN canon[s], canon[s][v].by \in Batches
       PROVE  canon[s][v].retires \subseteq batch[canon[s][v].by].shown[s]
    BY DEF NothingUnseenRetired
  <2>1. PICK b \in Batches : b = canon[s][v].by
    OBVIOUS
  <2>2. Posted(b) /\ s \in SlotsOf(b)
    BY <2>1, WritersArePosted DEF IInv, SlotsOf
  <2>3. batch[b].expect[s] = batch[b].shown[s]
    BY <2>2 DEF Posted, Drafting, ReadsAgree
  <2>. QED BY <2>1, <2>3 DEF RetiresBound
<1>. HIDE DEF QInv
<1>4. Init => QInv
  BY <1>1, InitInv, InitRetires DEF QInv
<1>. QED BY <1>2, <1>3, <1>4, PTL DEF QuietSpec
=============================================================================
