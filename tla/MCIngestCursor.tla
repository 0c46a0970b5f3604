--------------------------- MODULE MCIngestCursor ---------------------------
(***************************************************************************)
(* IngestCursor with two sources of one session, the user's messages and   *)
(* the results of tools, and a few files that between them have every kind *)
(* of record.                                                              *)
(***************************************************************************)
EXTENDS IngestCursor, TLC

CONSTANTS user, tool, hi, ok, no

MCTimes == 0 .. 3
MCItems == 1 .. 5

Line_(kind, source, family, time, item) ==
    [kind |-> kind, id |-> [source |-> source, family |-> family, time |-> time, item |-> item]]

\* A message, a result of a tool, the message again.
Repeated ==
    <<Line_("event", user, hi, 0, 1), Line_("event", tool, ok, 1, 2),
      Line_("event", user, hi, 1, 3)>>

\* Lines that give no event, and one that no batch has room for.
Crooked ==
    <<Line_("skip", user, hi, 0, 5), Line_("oversized", tool, ok, 0, 1),
      Line_("long", tool, ok, 0, 2), Line_("event", tool, ok, 0, 3),
      Line_("huge", tool, no, 1, 4)>>

\* The first lines of a session: the same message as two items, three times.
Opening ==
    <<Line_("event", user, hi, 1, 2), Line_("event", user, hi, 2, 3),
      Line_("event", user, hi, 3, 4)>>

\* Parallel calls answered within one instant, two of them alike.
Parallel ==
    <<Line_("event", tool, ok, 0, 1), Line_("event", tool, no, 0, 2),
      Line_("event", tool, ok, 0, 3)>>

\* The last once more a second later.
ParallelAgain == Append(Parallel, Line_("event", tool, ok, 1, 4))

\* The two that are alike are too far apart for one batch of three.
ParallelApart ==
    <<Line_("event", tool, ok, 0, 1), Line_("event", tool, no, 0, 2),
      Line_("long", tool, no, 0, 3), Line_("event", tool, ok, 0, 4),
      Line_("event", tool, ok, 1, 5)>>

\* The last repeats nothing, unless the line before it is read half written.
ParallelBroken ==
    <<Line_("event", tool, ok, 0, 1), Line_("event", tool, no, 0, 2),
      Line_("event", tool, ok, 0, 3), Line_("event", tool, no, 1, 4),
      Line_("event", tool, ok, 1, 5)>>

\* The last is read only if the line before it is read half written.
Behind ==
    <<Line_("event", user, hi, 0, 1), Line_("huge", tool, no, 1, 2),
      Line_("event", user, ok, 2, 3)>>

MCContents == {Repeated, Crooked, Opening, Parallel}
MCLonger ==
    {Repeated, Crooked, Opening, ParallelAgain, ParallelApart, ParallelBroken, Behind}
OneAgain == {ParallelAgain}

\* Processes differ in nothing but their names.
IngestSymmetry == Permutations(Ingesters)
=============================================================================
