-------------------------- MODULE ReviewLifecycle --------------------------
(***************************************************************************)
(* From a drafted review proposal to a canonical claim version.            *)
(*                                                                         *)
(* Everything here lives in memory.sqlite3.  Writers are the nightly       *)
(* worker (Phase 2 drafts, expired plans) and any number of `dream review` *)
(* commands Leo runs side by side.  Each store method is one transaction   *)
(* under the maintenance lock; what a command reads it reads before, in    *)
(* connections of its own, and a process may die between two steps.        *)
(*                                                                         *)
(* A slot is a claim identity (subject, predicate, scope).  Values are not *)
(* modelled: a head set hash is the set of version numbers it hashes.      *)
(***************************************************************************)
EXTENDS Integers, Sequences

CONSTANTS
    Slots,          \* identity fingerprints
    Related,        \* Related[s]: slots whose heads are s's semantic neighbours
    Founded,        \* slots that have one approved version from the start
    Plans,          \* those of them that hold a plan whose valid_to has passed
    Candidates,     \* slots with a group of eligible candidates at the start
    Batches,        \* review batch ids
    Leo, Origin,    \* authors of versions that come from no batch
    Commands,       \* invocations of `dream review ...`, each run once
    NoBatch

ASSUME SlotsAssumption ==
    /\ Plans \subseteq Founded
    /\ Founded \cup Candidates \subseteq Slots
    /\ Related \in [Slots -> SUBSET Slots]
    /\ \A s \in Slots : s \notin Related[s]
ASSUME NamesAssumption ==
    /\ {Leo, Origin, NoBatch} \cap Batches = {}
    /\ Leo # Origin

VARIABLES
    canon,      \* canon[s]: claim_versions of s, by version_number
    revision,   \* memory_revision
    batch,      \* review_batches and their review_proposals
    waiting,    \* slots with a group of eligible candidates
    cmd         \* cmd[c]: where command c is and what it has read

vars == <<canon, revision, batch, waiting, cmd>>

Proposal == {"none", "pending", "approved", "rejected", "stale", "applied"}

\* The stages of a Phase 2 job under way, before any row exists.
Drafting == {"shown", "bound", "checked"}

Decided == {"approved", "rejected", "stale", "applied"}

BatchStatus == {"none", "pending"} \cup Drafting \cup Decided

\* update, supersede and narrow differ in wording only: all of them retire
\* the heads they replace.  add and dispute retire nothing.
Operations == {"add", "replace", "dispute"}

NoRow == [status |-> "none", origin |-> "phase2", op |-> "add",
          props  |-> [s \in Slots |-> "none"],
          shown  |-> [s \in Slots |-> {}],
          expect |-> [s \in Slots |-> {}]]

Fresh(pc) == [pc |-> pc, batch |-> NoBatch, picks |-> {}, heads |-> {}]

\* A version: its status, the versions of its slot it retires, the batch or
\* person it comes from, and its recorded_revision.
Version(status, retires, by, rev) ==
    [status |-> status, retires |-> retires, by |-> by, rev |-> rev]

Init ==
    /\ canon = [s \in Slots |->
          IF s \in Founded THEN <<Version("approved", {}, Origin, 0)>> ELSE <<>>]
    /\ revision = 0
    /\ batch = [b \in Batches |-> NoRow]
    /\ waiting = Candidates
    /\ cmd = [c \in Commands |-> Fresh("idle")]

-----------------------------------------------------------------------------
(***************************************************************************)
(* The view current_claim_versions, now and as of an earlier revision.     *)
(***************************************************************************)
HeadsBefore(rev, s) ==
    LET known == {v \in DOMAIN canon[s] : canon[s][v].rev < rev} IN
    {v \in known : \A w \in known : v \notin canon[s][w].retires}

Heads(s) ==
    {v \in DOMAIN canon[s] : \A w \in DOMAIN canon[s] : v \notin canon[s][w].retires}

SlotsOf(b) == {s \in Slots : batch[b].props[s] # "none"}

HeadsMatch(b) == \A s \in SlotsOf(b) : Heads(s) = batch[b].expect[s]

\* The semantic_context_hash, which only Phase 2 proposals carry.
ContextMatches(b) ==
    batch[b].origin = "phase2" =>
        \A s \in SlotsOf(b) : \A t \in Related[s] : Heads(t) = batch[b].shown[t]

AllProps(b, statuses) == \A s \in SlotsOf(b) : batch[b].props[s] \in statuses

-----------------------------------------------------------------------------
(***************************************************************************)
(* Phase 2.  The loader reads the heads it shows to the model and hashes   *)
(* the head set in another connection; the sink rechecks the context and   *)
(* creates the batch in a transaction of its own.  A Phase 2 job carries   *)
(* one slot, so its batch has one proposal.  nightly.lock lets one job     *)
(* run at a time.                                                          *)
(***************************************************************************)
OperationsOn(heads) ==
    IF heads = {} THEN {"add"} ELSE Operations

ShowHeads(b, s) ==
    /\ \A other \in Batches : batch[other].status \notin Drafting
    /\ batch[b].status = "none"
    /\ s \in waiting
    /\ \E op \in OperationsOn(Heads(s)) :
          batch' = [batch EXCEPT ![b] =
              [NoRow EXCEPT !.status = "shown",
                            !.op = op,
                            !.shown = [t \in Slots |-> Heads(t)],
                            !.props[s] = "pending"]]
    /\ UNCHANGED <<canon, revision, waiting, cmd>>

Expected(slots) == [s \in Slots |-> IF s \in slots THEN Heads(s) ELSE {}]

BindHeads(b) ==
    /\ batch[b].status = "shown"
    /\ batch' = [batch EXCEPT ![b].status = "bound",
                              ![b].expect = Expected(SlotsOf(b))]
    /\ UNCHANGED <<canon, revision, waiting, cmd>>

RecheckContext(b) ==
    /\ batch[b].status = "bound"
    /\ ContextMatches(b)
    /\ batch' = [batch EXCEPT ![b].status = "checked"]
    /\ UNCHANGED <<canon, revision, waiting, cmd>>

\* create_review_batch: the rows and the candidates' new disposition.
CreateBatch(b) ==
    /\ batch[b].status = "checked"
    /\ batch' = [batch EXCEPT ![b].status = "pending"]
    /\ waiting' = waiting \ SlotsOf(b)
    /\ UNCHANGED <<canon, revision, cmd>>

\* The model proposed nothing, or only what a fixed rule suppresses.
SuppressCandidates(b) ==
    /\ batch[b].status = "checked"
    /\ batch' = [batch EXCEPT ![b] = NoRow]
    /\ waiting' = waiting \ SlotsOf(b)
    /\ UNCHANGED <<canon, revision, cmd>>

\* The job fails or its process dies; a later run starts over.
AbandonDraft(b) ==
    /\ batch[b].status \in Drafting
    /\ batch' = [batch EXCEPT ![b] = NoRow]
    /\ UNCHANGED <<canon, revision, waiting, cmd>>

(***************************************************************************)
(* propose_expired_plan_outcomes: one batch for every expired plan whose   *)
(* present heads no earlier batch proposed an outcome for.  All of it runs *)
(* under the maintenance lock.                                             *)
(***************************************************************************)
Expired(s) ==
    /\ s \in Plans
    /\ \E v \in Heads(s) : canon[s][v].by = Origin

AlreadyProposed(s) ==
    \E b \in Batches : /\ batch[b].origin = "temporal"
                       /\ s \in SlotsOf(b)
                       /\ batch[b].expect[s] = Heads(s)

ProposeExpired(b) ==
    LET due == {s \in Slots : Expired(s) /\ ~AlreadyProposed(s)} IN
    /\ batch[b].status = "none"
    /\ due # {}
    /\ batch' = [batch EXCEPT ![b] =
          [NoRow EXCEPT !.status = "pending",
                        !.origin = "temporal",
                        !.op = "replace",
                        !.shown  = [t \in Slots |-> Heads(t)],
                        !.expect = Expected(due),
                        !.props  = [s \in Slots |->
                                      IF s \in due THEN "pending" ELSE "none"]]]
    /\ UNCHANGED <<canon, revision, waiting, cmd>>

-----------------------------------------------------------------------------
(***************************************************************************)
(* The transactions on a batch.  mark_review_stale: its selected pending   *)
(* proposals become stale, and the batch too if none is left pending.      *)
(***************************************************************************)
WithProps(b, selected, from, to) ==
    [s \in Slots |-> IF s \in selected /\ batch[b].props[s] \in from
                     THEN to ELSE batch[b].props[s]]

\* As if its UPDATE had no status = 'pending'.
MarkedStaleAny(b, selected) ==
    [batch[b] EXCEPT
        !.props = [s \in Slots |-> IF s \in selected THEN "stale" ELSE @[s]],
        !.status = "stale"]

MarkedStale(b, selected) ==
    LET props == WithProps(b, selected, {"pending"}, "stale") IN
    [batch[b] EXCEPT
        !.props = props,
        !.status = IF \E s \in Slots : props[s] = "pending" THEN @ ELSE "stale"]

(***************************************************************************)
(* record_review_decisions raises unless the batch and every decided       *)
(* proposal are pending.                                                   *)
(***************************************************************************)
CanDecide(b, decided) ==
    /\ batch[b].status = "pending"
    /\ decided # {}
    /\ \A s \in decided : batch[b].props[s] = "pending"

BatchVerdict(props) ==
    IF \E s \in Slots : props[s] = "pending" THEN "pending"
    ELSE IF \A s \in Slots : props[s] \in {"none", "approved"} THEN "approved"
    ELSE "rejected"

Recorded(b, decided, verdict) ==
    LET props == WithProps(b, decided, {"pending"}, verdict) IN
    [batch[b] EXCEPT !.props = props, !.status = BatchVerdict(props)]

(***************************************************************************)
(* apply_batch: everything is checked before anything is written, and all  *)
(* of it is one transaction.                                               *)
(***************************************************************************)
\* As if the head sets compared during validation were not compared again.
CanApplyUnread(b) ==
    /\ batch[b].status = "approved"
    /\ AllProps(b, {"approved"})
    /\ ContextMatches(b)

CanApply(b) ==
    /\ batch[b].status = "approved"
    /\ AllProps(b, {"approved"})
    /\ HeadsMatch(b)
    /\ ContextMatches(b)

\* As if the new version took the operation for its status.
StatusAfterNamed(b) == batch[b].op

StatusAfter(b) ==
    IF batch[b].origin = "temporal" THEN "outcome_unknown"
    ELSE IF batch[b].op = "dispute" THEN "disputed"
    ELSE "approved"

AppliedVersion(b, s) ==
    Version(StatusAfter(b), IF batch[b].op = "replace" THEN Heads(s) ELSE {},
            b, revision + 1)

\* As if every proposal were applied that can be, and the others skipped.
ApplySome(b) ==
    LET fit == {s \in SlotsOf(b) : Heads(s) = batch[b].expect[s]} IN
    /\ batch[b].status = "approved"
    /\ AllProps(b, {"approved"})
    /\ ContextMatches(b)
    /\ canon' = [s \in Slots |-> IF s \in fit
                    THEN Append(canon[s], AppliedVersion(b, s)) ELSE canon[s]]
    /\ revision' = revision + 1
    /\ batch' = [batch EXCEPT
          ![b].props = WithProps(b, fit, {"approved"}, "applied"),
          ![b].status = "applied"]

Apply(b) ==
    /\ CanApply(b)
    /\ canon' = [s \in Slots |-> IF s \in SlotsOf(b)
                    THEN Append(canon[s], AppliedVersion(b, s)) ELSE canon[s]]
    /\ revision' = revision + 1
    /\ batch' = [batch EXCEPT
          ![b].props = WithProps(b, SlotsOf(b), {"approved"}, "applied"),
          ![b].status = "applied"]

-----------------------------------------------------------------------------
(***************************************************************************)
(* `dream review approve`: validate, then record, then apply.  A batch     *)
(* found approved (a command died after recording) is applied if its heads *)
(* still match.                                                            *)
(***************************************************************************)
At(c, pc) == cmd[c].pc = pc

Step(c, entry) == cmd' = [cmd EXCEPT ![c] = entry]

Goto(c, pc) == Step(c, [cmd[c] EXCEPT !.pc = pc])

Enter(c, pc, b, picks, heads) ==
    /\ At(c, "idle")
    /\ Step(c, [pc |-> pc, batch |-> b, picks |-> picks, heads |-> heads])
    /\ UNCHANGED <<canon, revision, batch, waiting>>

FreshBatch(b) ==
    /\ AllProps(b, {"pending"})
    /\ HeadsMatch(b)
    /\ ContextMatches(b)
    /\ batch[b].op = "add" => \A s \in SlotsOf(b) : Heads(s) = {}

ValidateFresh(c, b) ==
    /\ batch[b].status = "pending"
    /\ FreshBatch(b)
    /\ Enter(c, "record", b, SlotsOf(b), {})

ValidateStale(c, b) ==
    /\ batch[b].status = "pending"
    /\ ~FreshBatch(b)
    /\ Enter(c, "mark", b, SlotsOf(b), {})

ResumeApproved(c, b) ==
    /\ batch[b].status = "approved"
    /\ HeadsMatch(b)
    /\ Enter(c, "apply", b, SlotsOf(b), {})

\* "review batch is stale; rerun Phase 2"
MarkStale(c) ==
    /\ At(c, "mark")
    /\ batch' = [batch EXCEPT ![cmd[c].batch] = MarkedStale(cmd[c].batch, cmd[c].picks)]
    /\ Goto(c, "rerun")
    /\ UNCHANGED <<canon, revision, waiting>>

RecordApproval(c) ==
    /\ At(c, "record")
    /\ CanDecide(cmd[c].batch, cmd[c].picks)
    /\ batch' = [batch EXCEPT ![cmd[c].batch] =
          Recorded(cmd[c].batch, cmd[c].picks, "approved")]
    /\ Goto(c, "apply")
    /\ UNCHANGED <<canon, revision, waiting>>

ApplyApproved(c) ==
    /\ At(c, "apply")
    /\ Apply(cmd[c].batch)
    /\ Goto(c, "done")
    /\ UNCHANGED waiting

(***************************************************************************)
(* `dream review reject`: the proposals pending when the batch was read.   *)
(***************************************************************************)
StartReject(c, b) ==
    /\ batch[b].status \notin {"none"} \cup Drafting
    /\ Enter(c, "reject", b, {s \in Slots : batch[b].props[s] = "pending"}, {})

RecordRejection(c) ==
    /\ At(c, "reject")
    /\ CanDecide(cmd[c].batch, cmd[c].picks)
    /\ batch' = [batch EXCEPT ![cmd[c].batch] =
          Recorded(cmd[c].batch, cmd[c].picks, "rejected")]
    /\ Goto(c, "done")
    /\ UNCHANGED <<canon, revision, waiting>>

(***************************************************************************)
(* `dream review correct`: read the proposal and the heads, write a        *)
(* version that supersedes these heads, then mark the proposal stale.      *)
(***************************************************************************)
StartCorrect(c, b, s) ==
    /\ batch[b].status \notin {"none"} \cup Drafting
    /\ batch[b].props[s] = "pending"
    /\ Enter(c, "write", b, {s}, Heads(s))

WriteCorrection(c) ==
    /\ At(c, "write")
    /\ canon' = [s \in Slots |->
          IF s \in cmd[c].picks
          THEN Append(canon[s], Version("approved", cmd[c].heads, Leo, revision + 1))
          ELSE canon[s]]
    /\ revision' = revision + 1
    /\ Goto(c, "settle")
    /\ UNCHANGED <<batch, waiting>>

SettleCorrection(c) ==
    /\ At(c, "settle")
    /\ batch' = [batch EXCEPT ![cmd[c].batch] = MarkedStale(cmd[c].batch, cmd[c].picks)]
    /\ Goto(c, "done")
    /\ UNCHANGED <<canon, revision, waiting>>

\* A store method raises, or the process is killed: nothing of the step is
\* written, and nothing of the steps before it is undone.
Abort(c) ==
    /\ cmd[c].pc \notin {"idle", "done", "rerun"}
    /\ Goto(c, "done")
    /\ UNCHANGED <<canon, revision, batch, waiting>>

-----------------------------------------------------------------------------
DraftStep(b) ==
    \/ \E s \in Slots : ShowHeads(b, s)
    \/ BindHeads(b)
    \/ RecheckContext(b)
    \/ CreateBatch(b)
    \/ SuppressCandidates(b)

Command(c) ==
    \/ \E b \in Batches : \/ ValidateFresh(c, b) \/ ValidateStale(c, b)
                          \/ ResumeApproved(c, b) \/ StartReject(c, b)
                          \/ \E s \in Slots : StartCorrect(c, b, s)
    \/ MarkStale(c) \/ RecordApproval(c) \/ ApplyApproved(c)
    \/ RecordRejection(c) \/ WriteCorrection(c) \/ SettleCorrection(c)
    \/ Abort(c)

Next ==
    \/ \E b \in Batches : DraftStep(b) \/ AbandonDraft(b) \/ ProposeExpired(b)
    \/ \E c \in Commands : Command(c)

Spec == Init /\ [][Next]_vars

(***************************************************************************)
(* run-nightly goes on with a Phase 2 job it can load and ends every night *)
(* by looking for expired plans.  Nothing makes Leo run a command.         *)
(***************************************************************************)
FairSpec ==
    /\ Spec
    /\ WF_vars(\E b \in Batches : DraftStep(b))
    /\ WF_vars(\E b \in Batches : ProposeExpired(b))

-----------------------------------------------------------------------------
VersionRecord == [status : {"approved", "disputed", "outcome_unknown"},
                  retires : SUBSET Nat, by : Batches \cup {Leo, Origin}, rev : Nat]

BatchRecord == [status : BatchStatus, origin : {"phase2", "temporal"}, op : Operations,
                props : [Slots -> Proposal],
                shown : [Slots -> SUBSET Nat], expect : [Slots -> SUBSET Nat]]

CommandRecord == [pc : {"idle", "mark", "record", "apply", "reject", "write",
                        "settle", "done", "rerun"},
                  batch : Batches \cup {NoBatch}, picks : SUBSET Slots, heads : SUBSET Nat]

TypeOK ==
    /\ canon \in [Slots -> Seq(VersionRecord)]
    /\ revision \in Nat
    /\ batch \in [Batches -> BatchRecord]
    /\ waiting \in SUBSET Slots
    /\ cmd \in [Commands -> CommandRecord]

(***************************************************************************)
(* A version that a batch wrote was written over exactly the heads its     *)
(* proposal is bound to, and next to exactly the semantic neighbours it    *)
(* was drafted with, whatever was corrected or applied between drafting,   *)
(* validation, approval and application ("舊 proposal 覆蓋較新的           *)
(* correction" is the threat, docs/THREAT_MODEL.md).                       *)
(***************************************************************************)
WrittenAsReviewed ==
    \A s \in Slots : \A v \in DOMAIN canon[s] :
        LET b == canon[s][v].by
            rev == canon[s][v].rev
        IN b \in Batches =>
             /\ HeadsBefore(rev, s) = batch[b].expect[s]
             /\ batch[b].origin = "phase2" =>
                  \A t \in Related[s] : HeadsBefore(rev, t) = batch[b].shown[t]

(***************************************************************************)
(* A batch becomes canonical as a whole and once: if one of its proposals  *)
(* is applied all are, and every applied proposal wrote one version, and   *)
(* no other proposal wrote any, with two approvals racing, one of them     *)
(* resuming the work of a process that died between approving and          *)
(* applying, or a correction between the two.                              *)
(***************************************************************************)
AppliedWhole ==
    \A b \in Batches :
        /\ (\E s \in Slots : batch[b].props[s] = "applied") => AllProps(b, {"applied"})
        /\ \A s \in Slots :
              LET written == {v \in DOMAIN canon[s] : canon[s][v].by = b} IN
              IF batch[b].props[s] = "applied" THEN \E v \in written : written = {v}
              ELSE written = {}

(***************************************************************************)
(* What Leo decided about a proposal is never decided again: a rejected,   *)
(* stale or applied proposal stays so and an approved one can only become  *)
(* applied, although every command writes on the strength of an earlier    *)
(* read.                                                                   *)
(***************************************************************************)
DecisionsAreFinal ==
    [][\A b \in Batches, s \in Slots :
         LET before == batch[b].props[s]
             after == batch'[b].props[s]
         IN /\ before \in {"rejected", "stale", "applied"} => after = before
            /\ before = "approved" => after \in {"approved", "applied"}]_vars

(***************************************************************************)
(* What the documents say and the code does not do.                        *)
(*                                                                         *)
(* A proposal retires only heads that its drafter was shown.               *)
(***************************************************************************)
NothingUnseenRetired ==
    \A s \in Slots : \A v \in DOMAIN canon[s] :
        canon[s][v].by \in Batches =>
            canon[s][v].retires \subseteq batch[canon[s][v].by].shown[s]

(***************************************************************************)
(* A command that ended with "review batch is stale; rerun Phase 2" was    *)
(* right: Phase 2 does get the candidates of the stale proposal again.     *)
(***************************************************************************)
StaleIsRedrafted ==
    \A c \in Commands, s \in Slots :
        (/\ At(c, "rerun")
         /\ s \in cmd[c].picks
         /\ batch[cmd[c].batch].origin = "phase2") ~> (s \in waiting)

(***************************************************************************)
(* An expired plan is proposed to Leo: while it is a head, some proposal   *)
(* of its outcome is open or decided by Leo (bound: batch ids run out).    *)
(***************************************************************************)
ExpiredIsProposed ==
    \A s \in Plans :
        Expired(s) ~> \/ ~Expired(s)
                      \/ \E b \in Batches :
                            /\ batch[b].origin = "temporal"
                            /\ batch[b].props[s] \in Proposal \ {"none", "stale"}
                      \/ \A b \in Batches : batch[b].status # "none"
=============================================================================
