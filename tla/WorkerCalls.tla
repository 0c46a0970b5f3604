------------------------------ MODULE WorkerCalls ------------------------------
(***************************************************************************)
(* run_leased_job seen from the worker: each call of the Codex binary has  *)
(* a row in model_calls, written before it and settled after it, and what  *)
(* it prints is believed only if it is the record of one turn in which     *)
(* nothing was used but words.  The process may die anywhere, and a        *)
(* transaction that settles a row may fail.                                *)
(*                                                                         *)
(* Of a line only what the parser looks at is kept.  An answer is the text *)
(* of a completed message that fits the schema and refers to nothing but   *)
(* what the job was given; a note is any other text.                       *)
(*                                                                         *)
(* The specification is CallsSpec, with a name of its own so that a module *)
(* can extend this one and EpisodeSegmentation.                            *)
(***************************************************************************)
EXTENDS Naturals, Sequences, SequencesExt

CONSTANTS
    MaxLines,       \* bound: lines of one call
    MaxCalls,       \* bound: calls
    MaxFaults       \* bound: kills, transactions that fail

ASSUME BoundsAssumption == {MaxLines, MaxCalls, MaxFaults} \subseteq Nat

Silent == {"item"}              \* reasoning, or a message not completed yet
Spoken == {"answer", "note"}
Effects == {"tool"}             \* any other item, a message without text
Endings == {"done", "unmetered"}    \* turn.completed, unmetered without usage
Lines == {"thread", "turn", "junk"} \cup Silent \cup Spoken \cup Effects \cup Endings

Statuses == {"prepared", "completed", "failed", "quarantined"}
Call == [status : Statuses, stored : {"none", "some", "all"}, lost : BOOLEAN]

VARIABLES
    calls,          \* model_calls rows in their order, what each of them led
                    \* to store, and whether its settling was lost (history)
    pc,             \* where run_leased_job is
    stdout,         \* what the last call printed
    verdict,        \* the status the call is to be settled with
    faults

callsVars == <<calls, pc, stdout, verdict, faults>>

CallsInit ==
    /\ calls = <<>>
    /\ pc = "idle"
    /\ stdout = <<>>
    /\ verdict = "prepared"
    /\ faults = 0

-----------------------------------------------------------------------------
(***************************************************************************)
(* parse_codex_jsonl.                                                      *)
(***************************************************************************)
Unread == [ok |-> TRUE, thread |-> FALSE, turn |-> FALSE, done |-> FALSE, last |-> "none"]

\* As if lines after turn.completed were let through.
PermittedAfterEnd(state, line) ==
    \/ line = "thread" /\ ~state.thread /\ ~state.turn
    \/ line = "turn" /\ state.thread /\ ~state.turn
    \/ line \in Silent \cup Spoken \cup {"done"} /\ state.turn

Permitted(state, line) ==
    /\ ~state.done
    /\ \/ line = "thread" /\ ~state.thread /\ ~state.turn
       \/ line = "turn" /\ state.thread /\ ~state.turn
       \/ line \in Silent \cup Spoken \cup {"done"} /\ state.turn

ParseLine(state, line) ==
    IF state.ok /\ Permitted(state, line)
    THEN [state EXCEPT !.thread = @ \/ line = "thread",
                       !.turn = @ \/ line = "turn",
                       !.done = @ \/ line = "done",
                       !.last = IF line \in Spoken THEN line ELSE @]
    ELSE [state EXCEPT !.ok = FALSE]

\* What is left after the lines: a usage, and a last message that is valid.
Accepted(lines) ==
    LET end == FoldLeft(ParseLine, Unread, lines) IN
    end.ok /\ end.thread /\ end.done /\ end.last = "answer"

-----------------------------------------------------------------------------
At(place) == pc = place

Goes(place) == pc' = place

Current == Len(calls)

Lease ==
    /\ At("idle")
    /\ Current < MaxCalls
    /\ Goes("leased")
    /\ UNCHANGED <<calls, stdout, verdict, faults>>

\* Too large for a worker, or over budget: the job is failed without a call.
GiveUpEarly ==
    /\ At("leased")
    /\ Goes("failing")
    /\ UNCHANGED <<calls, stdout, verdict, faults>>

Prepared == Append(calls, [status |-> "prepared", stored |-> "none", lost |-> FALSE])

\* A source or its sensitivity does not permit the call: it has a row all
\* the same.
Refuse ==
    /\ At("leased")
    /\ calls' = Prepared
    /\ verdict' = "quarantined"
    /\ Goes("settling")
    /\ UNCHANGED <<stdout, faults>>

Prepare ==
    /\ At("leased")
    /\ calls' = Prepared
    /\ Goes("calling")
    /\ UNCHANGED <<stdout, verdict, faults>>

\* Codex exits with 0 and no more output than permitted.
Answers ==
    /\ At("calling")
    /\ stdout' \in SeqOf(Lines, MaxLines)
    /\ Goes("reading")
    /\ UNCHANGED <<calls, verdict, faults>>

\* It exits otherwise, or prints too much (WorkerProtocolError), or cannot be
\* started (OSError).
Breaks ==
    /\ At("calling")
    /\ verdict' \in {"quarantined", "failed"}
    /\ Goes("settling")
    /\ UNCHANGED <<calls, stdout, faults>>

\* As if a call that timed out had a status of its own.
TimesOutNamed ==
    /\ At("calling")
    /\ verdict' = "timeout"
    /\ Goes("settling")
    /\ UNCHANGED <<calls, stdout, faults>>

\* It is killed after timeout_seconds.
TimesOut ==
    /\ At("calling")
    /\ verdict' = "quarantined"
    /\ Goes("settling")
    /\ UNCHANGED <<calls, stdout, faults>>

Accept ==
    /\ At("reading")
    /\ Accepted(stdout)
    /\ Goes("persisting")
    /\ UNCHANGED <<calls, stdout, verdict, faults>>

Reject ==
    /\ At("reading")
    /\ ~Accepted(stdout)
    /\ verdict' = "quarantined"
    /\ Goes("settling")
    /\ UNCHANGED <<calls, stdout, faults>>

Persist ==
    /\ At("persisting")
    /\ calls' = [calls EXCEPT ![Current].stored = "all"]
    /\ Goes("finishing")
    /\ UNCHANGED <<stdout, verdict, faults>>

\* The sink refuses the output.  Phase 1 stores one candidate at a time.
PersistFails ==
    /\ At("persisting")
    /\ \E stored \in {"none", "some"} : calls' = [calls EXCEPT ![Current].stored = stored]
    /\ verdict' = "failed"
    /\ Goes("settling")
    /\ UNCHANGED <<stdout, faults>>

Finish ==
    /\ At("finishing")
    /\ calls' = [calls EXCEPT ![Current].status = "completed"]
    /\ Goes("completing")
    /\ UNCHANGED <<stdout, verdict, faults>>

\* The handler tries to settle the row as failed, whatever was stored.
FinishFails ==
    /\ At("finishing")
    /\ faults < MaxFaults
    /\ faults' = faults + 1
    /\ verdict' = "failed"
    /\ Goes("settling")
    /\ UNCHANGED <<calls, stdout>>

Ends ==
    /\ Goes("idle")
    /\ stdout' = <<>>
    /\ verdict' = "prepared"

Complete ==
    /\ At("completing")
    /\ Ends
    /\ UNCHANGED <<calls, faults>>

\* The lease is lost: the row is finished and stays so, the job fails.
CompleteFails ==
    /\ At("completing")
    /\ Goes("failing")
    /\ UNCHANGED <<calls, stdout, verdict, faults>>

\* As if only the job were failed.
SettleNothing ==
    /\ At("settling")
    /\ Goes("failing")
    /\ UNCHANGED <<calls, stdout, verdict, faults>>

Settle ==
    /\ At("settling")
    /\ calls' = [calls EXCEPT ![Current].status = verdict]
    /\ Goes("failing")
    /\ UNCHANGED <<stdout, verdict, faults>>

\* The exception leaves run_leased_job; the nightly loop fails the job.
SettleFails ==
    /\ At("settling")
    /\ faults < MaxFaults
    /\ faults' = faults + 1
    /\ calls' = [calls EXCEPT ![Current].lost = TRUE]
    /\ Goes("failing")
    /\ UNCHANGED <<stdout, verdict>>

FailJob ==
    /\ At("failing")
    /\ Ends
    /\ UNCHANGED <<calls, faults>>

OnCall == {"calling", "reading", "persisting", "finishing", "settling"}

\* The night is over; another one leases again.
Die ==
    /\ pc # "idle"
    /\ faults < MaxFaults
    /\ faults' = faults + 1
    /\ \E stored \in {"none", "some"} :
          calls' = [i \in DOMAIN calls |->
              IF i # Current \/ pc \notin OnCall THEN calls[i]
              ELSE [calls[i] EXCEPT !.lost = TRUE,
                                    !.stored = IF pc = "persisting" THEN stored ELSE @]]
    /\ Ends

CallsNext ==
    \/ Lease \/ GiveUpEarly \/ Refuse \/ Prepare
    \/ Answers \/ Breaks \/ TimesOut
    \/ Accept \/ Reject
    \/ Persist \/ PersistFails
    \/ Finish \/ FinishFails
    \/ Complete \/ CompleteFails
    \/ Settle \/ SettleFails \/ FailJob
    \/ Die

CallsSpec == CallsInit /\ [][CallsNext]_callsVars
-----------------------------------------------------------------------------
CallsTypeOK ==
    /\ calls \in Seq(Call)
    /\ Len(calls) <= MaxCalls
    /\ pc \in OnCall \cup {"idle", "leased", "completing", "failing"}
    /\ stdout \in Seq(Lines)
    /\ verdict \in Statuses
    /\ faults \in 0 .. MaxFaults

\* One turn of one thread, ended and metered, in which there were messages
\* and nothing but messages and reasoning, the last of them valid.
IsOneTurn(lines) ==
    /\ Len(lines) >= 4
    /\ lines[1] = "thread" /\ lines[2] = "turn" /\ Last(lines) = "done"
    /\ \A i \in 3 .. Len(lines) - 1 : lines[i] \in Silent \cup Spoken
    /\ \E i \in 3 .. Len(lines) - 1 :
          lines[i] = "answer" /\ \A j \in i + 1 .. Len(lines) : lines[j] # "note"

\* Output is persisted exactly if it is the record of one turn: no call with
\* a tool in it, with two turns, cut short or going on after its end gets
\* through, and no regular one is refused (parse_codex_jsonl).
ParsedAsWritten ==
    /\ pc \in {"persisting", "finishing", "completing"} => IsOneTurn(stdout)
    /\ (pc = "settling" /\ verdict = "quarantined") => ~IsOneTurn(stdout)

\* The rows tell what became of the calls, with kills and failures at any
\* point: a completed call was stored whole, of a quarantined one nothing
\* was, and a call is open only while it is made, or if its end was lost
\* (create_model_call, finish_model_call, the handlers of run_leased_job).
RowsMatchStore ==
    \A i \in DOMAIN calls :
        /\ calls[i].status = "completed" => calls[i].stored = "all"
        /\ calls[i].status = "quarantined" => calls[i].stored = "none"
        /\ calls[i].status = "prepared" => calls[i].lost \/ (i = Current /\ pc \in OnCall)
=============================================================================
