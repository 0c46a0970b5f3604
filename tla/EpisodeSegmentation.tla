------------------------- MODULE EpisodeSegmentation -------------------------
(***************************************************************************)
(* `dream segment`: the events that are in no episode yet are read, cut    *)
(* into episodes by partition, time gap and size, and the first few of     *)
(* them stored, one transaction each.  Nothing is locked between the read  *)
(* and the transactions: events go on arriving, sources are forgotten,     *)
(* and a second run may be under way.                                      *)
(***************************************************************************)
EXTENDS Naturals, FiniteSetsExt

CONSTANTS
    Events,         \* event ids, in their order
    Source,         \* Source[e], Partition[e]: where e belongs
    Partition,
    Time,           \* Time[e]: occurred_at
    Size,           \* Size[e]: characters of the redacted text
    MaxGap,         \* SegmenterConfig
    MaxChars,
    MaxEvents,
    Limit,          \* --limit
    Segmenters,     \* runs of the command (bound: so many at once)
    MaxMishaps      \* bound: runs killed, sources forgotten

ASSUME EventsAssumption == Events \subseteq Nat /\ IsFiniteSet(Events)
ASSUME TextAssumption ==
    /\ Time \in [Events -> Nat]
    /\ Size \in [Events -> Nat]
    /\ DOMAIN Source = Events /\ DOMAIN Partition = Events
ASSUME ConfigAssumption ==
    /\ MaxGap \in Nat
    /\ {MaxChars, MaxEvents, Limit} \subseteq Nat \ {0}
ASSUME MishapsAssumption == MaxMishaps \in Nat

VARIABLES
    events,         \* events in memory.sqlite3
    episodes,       \* episodes, each the set of its events (kept in their order)
    forgotten,      \* sources in the ledger
    run,            \* run[p]: what it still has to store
    mishaps,
    \* History: groups with an event that arrived after a run had read, and
    \* groups that two runs under way together, or two episodes of one start,
    \* may cut in different places.
    late,
    excused

vars == <<events, episodes, forgotten, run, mishaps, late, excused>>

Group(e) == <<Source[e], Partition[e]>>
Groups == {Group(e) : e \in Events}
Of(g, S) == {e \in S : Group(e) = g}

Idle == [plan |-> {}, missed |-> {}]

Init ==
    /\ events = {}
    /\ episodes = {}
    /\ forgotten = {}
    /\ run = [p \in Segmenters |-> Idle]
    /\ mishaps = 0
    /\ late = {}
    /\ excused = {}

-----------------------------------------------------------------------------
(***************************************************************************)
(* segment_events.  The events of an episode are in the order of their     *)
(* times and ids, so that it is given by their set.                        *)
(***************************************************************************)
Earlier(a, b) == Time[a] < Time[b] \/ (Time[a] = Time[b] /\ a < b)

Earliest(S) == CHOOSE e \in S : \A other \in S \ {e} : Earlier(e, other)
Latest(S) == CHOOSE e \in S : \A other \in S \ {e} : Earlier(other, e)

Characters(S) == MapThenSumSet(LAMBDA e : Size[e], S)

\* As if the blank lines between the texts were not counted.
BoundaryUncounted(current, e) ==
    \/ Time[e] > Time[Latest(current)] + MaxGap
    \/ Characters(current) + Size[e] > MaxChars
    \/ Cardinality(current) >= MaxEvents

\* _boundary_reason, of a draft that has an event
Boundary(current, e) ==
    \/ Time[e] > Time[Latest(current)] + MaxGap
    \/ Characters(current) + Size[e] + 2 * Cardinality(current) > MaxChars
    \/ Cardinality(current) >= MaxEvents

\* An event starts a draft when there is a boundary in front of it.
Unbroken(draft) ==
    \A e \in draft \ {Earliest(draft)} : ~Boundary({a \in draft : Earlier(a, e)}, e)

Leading(S) == {{e} \cup {a \in S : Earlier(a, e)} : e \in S}

\* The longest of them, which holds the others.
FirstDraft(S) == UNION {P \in Leading(S) : Unbroken(P)}

\* The drafts of one group, and those of all.
Cut[S \in SUBSET Events] ==
    IF S = {} THEN {} ELSE {FirstDraft(S)} \cup Cut[S \ FirstDraft(S)]

Drafts(S) == UNION {Cut[Of(g, S)] : g \in Groups}

Start(draft) == Time[Earliest(draft)]
GroupOf(draft) == Group(Earliest(draft))

\* The first n by start; among equal starts the order is that of the episode
\* ids, hashes of the event ids.
Firsts(n, drafts) ==
    {kept \in SUBSET drafts :
        /\ Cardinality(kept) = IF Cardinality(drafts) < n THEN Cardinality(drafts) ELSE n
        /\ \A a \in kept, b \in drafts \ kept : Start(a) <= Start(b)}

Tied(drafts) ==
    {GroupOf(a) : a \in {a \in drafts :
        \E b \in drafts \ {a} : Start(a) = Start(b) /\ GroupOf(a) = GroupOf(b)}}

-----------------------------------------------------------------------------
\* Ingest stores an event of a source that was not forgotten, whatever its
\* time: files are read one after the other.
Arrive(e) ==
    /\ e \notin events
    /\ Source[e] \notin forgotten
    /\ events' = events \cup {e}
    /\ late' = late \cup {g \in {Group(e)} :
          \/ \E p \in Segmenters : run[p].plan # {}
          \/ \E episode \in episodes : GroupOf(episode) = g}
    /\ run' = [p \in Segmenters |->
          IF run[p].plan = {} THEN run[p] ELSE [run[p] EXCEPT !.missed = @ \cup {Group(e)}]]
    /\ UNCHANGED <<episodes, forgotten, mishaps, excused>>

\* As if events that are in an episode were read again.
PendingAll == events

Pending == {e \in events : \A episode \in episodes : e \notin episode}

Oversized(e) == Size[e] > MaxChars

Starts(p, drafts) ==
    /\ run[p].plan = {}
    /\ UNCHANGED <<events, episodes, forgotten, mishaps, late>>
    /\ drafts # {}
    /\ \E kept \in Firsts(Limit, drafts) :
          run' = [run EXCEPT ![p] = [plan |-> kept, missed |-> {}]]
    /\ excused' = excused \cup Tied(drafts) \cup UNION {run[r].missed : r \in Segmenters \ {p}}

\* As if --limit were the limit of the query.
ReadLimited(p) ==
    \E rows \in {S \in SUBSET Pending :
          /\ Cardinality(S) = IF Cardinality(Pending) < Limit THEN Cardinality(Pending) ELSE Limit
          /\ \A a \in S, b \in Pending \ S : Earlier(a, b)} :
        Starts(p, Drafts({e \in rows : ~Oversized(e)}))

\* As if one oversized event failed the whole run.
ReadOrFail(p) ==
    /\ \A e \in Pending : ~Oversized(e)
    /\ Starts(p, Drafts(Pending))

\* The query, the drafts and the first Limit of them.
Read(p) == \E drafts \in {Drafts({e \in Pending : ~Oversized(e)})} : Starts(p, drafts)

\* As if the events were not looked up when their episode is stored.
PersistUnchecked(p) ==
    \E episode \in UNION Firsts(1, run[p].plan) :
        LET left == run[p].plan \ {episode} IN
        /\ episodes' = episodes \cup {episode}
        /\ run' = [run EXCEPT ![p] = IF left # {} THEN [@ EXCEPT !.plan = left] ELSE Idle]
        /\ UNCHANGED <<events, forgotten, mishaps, late, excused>>

\* create_episode: the events have to be there; a sequence stored before is
\* not stored again.  A failure ends the run.
PersistNext(p) ==
    \E episode \in UNION Firsts(1, run[p].plan) :
        LET present == episode \subseteq events
            left == run[p].plan \ {episode} IN
        /\ episodes' = IF present THEN episodes \cup {episode} ELSE episodes
        /\ run' = [run EXCEPT ![p] =
              IF present /\ left # {} THEN [@ EXCEPT !.plan = left] ELSE Idle]
        /\ UNCHANGED <<events, forgotten, mishaps, late, excused>>

Kill(p) ==
    /\ run[p].plan # {}
    /\ mishaps < MaxMishaps
    /\ mishaps' = mishaps + 1
    /\ run' = [run EXCEPT ![p] = Idle]
    /\ UNCHANGED <<events, episodes, forgotten, late, excused>>

\* forget_source: one transaction; events and episodes go with the source.
Forget(s) ==
    /\ \E e \in events : Source[e] = s
    /\ mishaps < MaxMishaps
    /\ mishaps' = mishaps + 1
    /\ forgotten' = forgotten \cup {s}
    /\ events' = {e \in events : Source[e] # s}
    /\ episodes' = {episode \in episodes : Source[Earliest(episode)] # s}
    /\ UNCHANGED <<run, late, excused>>

Next ==
    \/ \E e \in Events : Arrive(e)
    \/ \E p \in Segmenters : Read(p) \/ PersistNext(p) \/ Kill(p)
    \/ \E s \in {Source[e] : e \in Events} : Forget(s)

Spec == Init /\ [][Next]_vars

\* Somebody runs the command again as long as there is something for it to
\* do, or lets a run that is under way go on; another may hang for ever.
FairSpec == Spec /\ WF_vars(\E p \in Segmenters : Read(p) \/ PersistNext(p))
-----------------------------------------------------------------------------
TypeOK ==
    /\ events \subseteq Events
    /\ episodes \subseteq (SUBSET events) \ {{}}
    /\ forgotten \subseteq {Source[e] : e \in Events}
    /\ run \in [Segmenters -> [plan : SUBSET ((SUBSET Events) \ {{}}), missed : SUBSET Groups]]
    /\ mishaps \in 0 .. MaxMishaps
    /\ late \subseteq Groups
    /\ excused \subseteq Groups

\* An event is in one episode (the query leaves out events with a row in
\* episode_events, but that table would take a second row), whatever is
\* killed, deferred or forgotten and whichever runs overlap, as long as no
\* event arrived between the reads of two runs that overlap and no two
\* drafts of its group started at the same instant (Tied).
OneEpisodeEach ==
    \A a, b \in episodes :
        (a # b /\ GroupOf(a) \notin excused) => a \cap b = {}

\* The joined text, a blank line between two events.
TextLength(episode) == Characters(episode) + 2 * (Cardinality(episode) - 1)

\* The text of an episode, with what joins its events, is within the
\* boundary (segmentation._boundary_reason counts it before it is joined).
TextFits == \A episode \in episodes : TextLength(episode) <= MaxChars

\* Where an episode ends depends on the events and not on --limit, on runs
\* that were killed or on a second run: what was deferred is cut again in
\* the same places (segment_pending_events, deferred_episodes).
SameAsOneRun ==
    \A episode \in episodes :
        GroupOf(episode) \notin late \cup excused =>
            episode \in Drafts({e \in events : ~Oversized(e)})

Segmented(e) == \E episode \in episodes : e \in episode

\* Every event that is not oversized ends up in an episode, however many are
\* deferred or blocked before it and whatever a run that failed left undone.
EveryEventSegmented ==
    <>[](\A e \in events : Oversized(e) \/ Segmented(e))
=============================================================================
