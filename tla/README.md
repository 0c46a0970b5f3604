# local-dreaming: models, checks and proofs

local-dreaming turns a person's local conversation history into reviewed,
versioned memory.  Events are ingested into `memory.sqlite3` and grouped into
episodes; a nightly run has a model extract candidate claims from each episode
(Phase 1) and consolidate the candidates of one claim identity into review
proposals (Phase 2); Leo, the owner, approves, rejects or corrects; what he
approves becomes canonical claim versions, from which Markdown artifacts are
compiled and which CLI and MCP serve.  He can also forget claims and restore
snapshots.

Nearly everything difficult here comes from one fact: **no transaction spans two
stores**.  There are two SQLite databases, an append-only ledger, a directory of
snapshots, a directory of artifacts, and several processes (a nightly run, any
number of `dream` commands), any of which may be killed.  The modules of this
directory model the stores, the steps of the processes and every interleaving of
them, and say what must stay true.

The source is `src/local_dreaming/*.py`; file names below are relative to it.

## 1. Inventory

| Component | State it keeps | Operations | What is hard | What makes it correct |
|---|---|---|---|---|
| Job queue (`storage.py`, `OperationsStore`) | table `jobs` in `operations.sqlite3` | enqueue, lease (with recovery of expired leases), complete, fail | leases expire under a slow owner; late answers; last attempts | bounded attempts, one decision, no row stuck unseen, no lease taken from a live owner |
| Nightly run (`nightly.py`, `pipeline.py`, `orchestration.py`, `persistence.py`) | `nightly.lock`, the run's budget, the job in hand; candidates and their dispositions | `run-nightly`: enqueue, lease loop, load, call, persist, complete, coordinate Phase 2 | two databases, crashes between any two steps, overlapping processes, stale reads of the eligible set | no job executed by two, no candidate drafted twice, every eligible candidate decided |
| Review and application (`review.py`, `application.py`, `cli.py`, `storage.py`) | `review_batches`, `review_proposals`, `claim_versions`, `claim_relations` | validate, approve, apply, reject, correct, mark stale | every command acts on what it read earlier; head sets change meanwhile | versions are written over exactly the heads reviewed; batches apply whole and once; decisions are final |
| Temporal proposals (`temporal.py`) | none of its own | propose outcomes for expired plans | staleness of a batch with several slots | an expired plan is proposed |
| Semantic neighbours (`semantic_neighbors.py`) | none | select neighbours, hash the context | the context changes between drafting and applying | a version is written next to the neighbours it was drafted with |
| Forgetting (`forgetting.py`) | `forgotten.jsonl` | forget claim, forget source, reapply ledger | ledger, database, snapshots and artifacts cannot change together | the ledger is ahead of every deletion; nothing forgotten returns |
| Snapshots and restore (`storage.py`, `cli.py`) | snapshot directories | create, purge, restore with rollback | two databases are replaced one after the other; kills | a restore never brings forgotten claims back |
| Compiler and artifacts (`compiler.py`, `artifacts.py`) | bundles `r<revision>`, `CURRENT` | compile, publish, purge | kills between file operations; revisions that repeat | bundles immutable, `CURRENT` complete and up to date |
| Queue reconciliation (`queue_reconciliation.py`, `cli.py`) | cancelled rows and barriers in `jobs` | inventory, retire, reactivate | the plan reads two databases and is applied later; two maintenance locks | nothing retired without a barrier or over a stale plan; permanent verdicts stay |
| Worker and its rows (`worker.py`, `pipeline.py`, `storage.py`) | table `model_calls`; a subprocess and its event stream | prepare, call, parse, persist, settle | a forbidden line anywhere invalidates the stream; deaths between any two steps | only one whole turn of words is believed; a row agrees with what was stored |
| Ingest (`source_adapters.py`, `ingest.py`, `cli.py`) | cursors in `operations.sqlite3`; sources, events, collapsed observations in `memory.sqlite3` | scan a batch, persist it, move the cursor | batches cut anywhere, repeated messages, half-written lines, kills between events and cursor, two ingests | every record arrives once, in one role; the cursor never runs ahead |
| Segmentation (`segmentation.py`, `orchestration.py`) | episodes, `episode_events` | read pending events, cut, store the first `--limit` | events arrive in between; limits, kills, two runs | each event in one episode, cut where one run would cut |
| Retrieval, MCP (`retrieval.py`, `mcp_server.py`, `handoff.py`) | usage rows | search, context, explain | ledger consulted at every read | nothing suppressed is served |
| Certification, scheduler, provenance (`doctor.py`, `scheduler.py`, `installation_provenance.py`) | certification stamp, launchd files | certify, install | stamp older than the installation | no run without certification |
| Schema (`database.py`) | schema version | migrate | migration interrupted | fails closed |
| Configuration, models, evals, agents integration; `v3/redact_gate.py` | none | data definitions, stateless filters | - | - |

How they interact: `run-nightly` calls the job queue and both databases; review
commands and `forget` call `memory.sqlite3` under a reentrant maintenance lock (a
`flock`, so it dies with its process); restore takes the locks of both databases;
all of them end by compiling.  Operations and memory meet in a job's `dedupe_key`,
which hashes what the job was queued for, and in the cursor of a session file, which
says what memory is supposed to hold.  Ingest and segmentation take no lock at all.

## 2. Modules

| Module | Models | Proofs |
|---|---|---|
| `TryLedger` | abstract: what the queue promises to whoever queues work | |
| `JobQueue` | the `jobs` table and the four methods that write it | `JobQueueProofs` |
| `NightlyPipeline` | `run-nightly` processes over an instance of `JobQueue` | `NightlyPipelineProofs` |
| `ReviewLifecycle` | drafting, review, correction, application, expiry | `ReviewLifecycleProofs` |
| `ForgetAndRestore` | forget, ledger, snapshots, restore, relearning | `ForgetAndRestoreProofs` |
| `ArtifactBundles` | bundles, `CURRENT`, purge, revisions under restore | `ArtifactBundlesProofs` |
| `IngestCursor` | scanning and ingesting one growing Codex session file | `IngestCursorProofs` |
| `EpisodeSegmentation` | `dream segment` over arriving events | `EpisodesAndCallsProofs` |
| `QueueReconciliation` | `queue-reconcile`, `queue-reactivate` and restore over the jobs of an upgrade | `QueueReconciliationProofs` |
| `WorkerCalls` | the event stream of a call and the life of its `model_calls` row | `EpisodesAndCallsProofs` |

`JobQueue` implements `TryLedger` (`LedgerView` maps rows to entries), and
`NightlyPipeline` instantiates `JobQueue` as `Queue`: its runs call the queue's
actions, and `DrivesTheQueue` checks that they use it as `JobQueue` assumes.
`MC*` modules hold the constants of the small instances and nothing else.

### JobQueue

One row per `dedupe_key` (the column is UNIQUE).  Each store method is one SQLite
transaction under the operations writer lock, so each is one action: `EnqueueJob`,
`LeaseJob` (recovery of expired rows *and* the grant, or only the recovery when
there is nothing to lease), `CompleteJob`, `FailJob`.  A row compares the clock only
with `available_at` and `lease_expires_at`; the model keeps the two answers (`due`,
`expired`) and lets them become true at any time (`BecomesDue`, `LeaseExpires`).
`complete_job` and `fail_job` do not look at the expiry, and neither do their actions.
In the code `job_types` filters only the selection and `job_ids` the recovery too; the
one caller passes every job type, so a scope is a set of job ids.

### NightlyPipeline

A run is a process with a program counter.  Every database transaction and every
read in a connection of its own is one step: `QueueEpisode`, `PickCandidates` (read)
and `QueueGroup` (write), `TakeLock`, `LeaseNext`, `Load`, `Reserve`, `WorkerAnswers`,
`PersistCandidates`/`PersistProposals` (memory), `Complete` (operations), `CountOpen`
and `QueueGroup` again.  `GiveBack` is every exception path that ends in `fail_job`,
from load to completion; `BudgetExceeded` the one that also ends the run.  `Crash`
kills a process at any step; its `flock` goes with it and its lease stays.

### ReviewLifecycle

A slot is a claim identity; a version records what it retires, who wrote it and at
which revision; a head is a version nobody retired.  Values do not matter: a head
set hash is the set of version numbers hashed.  A batch goes through `ShowHeads`
(what the model sees), `BindHeads` (the hash it is bound to), `RecheckContext`,
`CreateBatch`/`SuppressCandidates`.  A command reads (`Validate*`, `Resume*`, `Start*`)
and writes (`Record*`, `Apply*`, `Write*`, `Mark*`, `Settle*`) in separate steps and may
abort between them.

### ForgetAndRestore

Facts are values of one claim identity.  The steps of `forget_claim` and of
`snapshot restore` are actions of a process; the maintenance lock is held exactly
where the code holds it, so everything else interleaves where it does not.  `gone`,
`readded` and `unfiltered` are history variables: what was deleted, what Leo wrote
again, and whether the database came from a restore that died before the ledger was
reapplied.

### ArtifactBundles

The file operations of `publish_bundle` (rename of the staged directory, replacement
of `CURRENT`) and of `_purge_artifacts` (entry by entry, a directory file by file),
for commands that commit, forget, restore and roll back.  What a bundle says is the
number of the commit it was compiled from.  `Forget` is the commit of the deletion and
the purge of the snapshots, which holds no lock, in one step: the steps between them are
actions of `ForgetAndRestore`.

### IngestCursor

A file is a sequence of records that Codex writes one after the other; bytes are
counted in half records, so that a file may end inside a line.  A record has a kind
(what the scan does with it) and an identity (source, text and role, second, item).
`Open` and `OpenAtEof` are the beginning of a scan (does the cursor match the file?),
`Read*`, `Discard`, `Defer` and `StopReading` its lines, `CheckSource` ... `Commit` the
persistence of the batch: ledger, source, each event, each observation, cursor.  The
cursor carries the record number and, for each source, what the last record said, with
which the next batch recognises a repetition.  Lines are read with no other step
between them, since reading changes nothing that others see; every step that persists
interleaves with the other ingest, `Forget`, `CopyMemory`/`CopyOperations` (the two
halves of a snapshot), `Restore` and `Kill`.  Limits are assumed to leave room for one
record.  `torn`, `slipped` and `spoiled` record what went wrong for reasons given in
section 5, and the properties name them where they make an exception.

### EpisodeSegmentation

An episode is the set of its events.  `Cut` follows `segment_events`: the events of a
partition in the order of time and id, a draft ended by `Boundary` (gap, characters with
the separators that will join them, number).  `Read` is the query with all the drafts and
the choice of the first `Limit`, `PersistNext` one `create_episode`.  `late` holds the
partitions that got an event after one of them was cut, and `excused` those that two
overlapping runs, or drafts of equal start, may cut differently (section 5).

### QueueReconciliation

A row is known by the episode and the version of prompt, schema and model that queued
it.  `Plan` is the inventory with its fingerprints (an item keeps the row it saw),
`Apply` the recheck under both locks and the transaction that cancels rows and inserts
barriers, `Reactivate` the other command.  Nightly steps, upgrades and the forgetting of
an episode go on between the two; the operations lock, held from plan to end, keeps
the writers of `operations.sqlite3` out and not those of `memory.sqlite3`.
`BeginRestore`/`EndRestore` are the two locks of a restore.

### WorkerCalls

Of a line of output only what the parser distinguishes is kept; `ParseLine` folded over
the lines is `parse_codex_jsonl`.  An answer is a final message that passes the schema
and `_validate_references`.  A call goes through `Prepare` (its row), `Answers`, `Breaks` or
`TimesOut`, `Accept`/`Reject`, `Persist`, `Finish`, `Complete`, and on any exception through
`Settle` and `FailJob`; `stored` and `lost` are history: what the call led to in memory,
and whether the transaction that should settle its row was lost.  The specification is
called `CallsSpec` here and the deaths and errors it counts `faults`: no name of this
module is one of `EpisodeSegmentation`, so that `EpisodesAndCallsProofs` can extend both.

## 3. Runs

| Run | Question | Bounds |
|---|---|---|
| `job_queue` | all queue properties, liveness and refinement of `TryLedger` | 2 rows of different priority, 2 owners, 2 attempts: enough for a retry, a last attempt, a lease taken over and a late finish |
| `nightly_safety` | exclusive work, one verdict per candidate, completed means consolidated | 2 episodes in one slot (so groups can overlap), 2 processes, 2 attempts, 2 calls and 2 leases per run, 1 crash |
| `nightly_liveness` | the runs drive the queue fairly; eligible candidates are decided | the same with 1 attempt, call and lease per run; a run that stops for want of a call it has leased a job for (`BudgetExceeded`) is met in `nightly_safety` and not here |
| `review` | written as reviewed, applied whole, decisions final | 3 slots (two of them expired plans, two of them neighbours), 2 batches, 3 commands |
| `forget_restore` | ledger first, forgotten stays gone, nothing published meanwhile | 2 values, 2 processes reused for command after command, 2 snapshots, 1 kill or error |
| `artifacts` | bundles immutable, `CURRENT` complete and never outdated | 2 processes, 3 commits, 1 kill |
| `ingest` | the cursor never passes what memory lacks, one role per record, forgotten sources stay out | 2 ingests, batches of 3, four files of 3 to 5 records that between them have every kind of record and repetition, 1 mishap (kill, half line, new inode, forgetting, snapshot) |
| `ingest_liveness` | every record arrives that nothing keeps out for good | the same files, one of them with a repetition added, and three more of 3 or 5 records, batches of 3, 1 ingest, 1 mishap; without any one of its exceptions, or without the ledger, the property fails here |
| `segmentation` | one episode each, text fits, cut as by one run, every event segmented | 6 events of 2 sources that hit each boundary and are one too long, limit 2, 2 runs, 1 mishap |
| `reconciliation` | barriers, permanent verdicts, no stale plan | 1 acceptable and 1 oversized episode, 2 versions, 2 attempts, 1 command |
| `reconcile_lock_order` | expected violation, see section 5 | the same with 2 commands |
| `worker_calls` | streams parsed as specified, rows agree with what is stored | every stream of up to 5 lines out of 9 kinds, 2 calls, 1 fault (kill or failing transaction) |

Two of everything is where interleaving begins; the third command in `review` lets an
approval, its resumption and a correction meet; the third commit in `artifacts` lets a
restored revision number be reused and then restored again. A scan may stop after any
line, so batches of three are cut everywhere; a full batch ends one in the files of
`ingest_liveness`, and in those of `ingest` a record too large does. Three is the least
with which a batch can hold two records that are alike and no adjacent repetition, and
leave one of them out. Six events are enough for two drafts of one source behind a limit
that also has to serve another. A stream of four lines is the shortest that is accepted,
so five reach every deviation by one line. Bounds that cap an otherwise unbounded count
are constants named `Max...`. Symmetry is used only over names of processes, batches and
snapshot directories, and only in runs without liveness properties. Deadlock is checked
for `ForgetAndRestore`, whose commands are always possible; the other systems may
legitimately have nothing left to do.

### Properties

*JobQueue*: `NoHiddenJob` (a queued row always has an attempt left: `lease_job` would
never see it otherwise), `LiveLeaseKept`, `EveryJobSettles` (liveness), `KeepsPromise`
(refinement); `FailedOnlyWhenSpent` and `SettledJobsStay` are proved and not run.
*NightlyPipeline*: `HeldWhileWorking` (a run holds the lease of the job it works on even
if the lease expired), `OneVerdict`, `CompletedMeansConsolidated`, `DrivesTheQueue`,
`EligibleIsDecided`.
*ReviewLifecycle*: `WrittenAsReviewed`, `AppliedWhole`, `DecisionsAreFinal`.
*ForgetAndRestore*: `LedgerBeforeDeletion`, `ForgottenStaysGone`,
`NotPublishedWhileForgotten`.
*ArtifactBundles*: `CurrentIsComplete`, `BundlesAreImmutable`, `NeverPublishesStale`.
*IngestCursor*: `CursorBehindEvents` (what the cursor has passed is in memory, though the
two are in two databases), `OneRole` (an event is not also an observation of another,
however batches were cut and whoever read the record twice), `ForgottenStaysOut`,
`EveryRecordArrives` (liveness).  That one makes four exceptions, each for something that
section 5 reports: a record behind one that no batch has room for (`Blocked`); a record at
or behind a repetition that may be refused for ever (`Refusable`: it refers to an event
that a batch can leave out as like another); one at or behind an event whose lineage had
a line read half written (`Disturbed`); and everything after a restore whose two databases
do not fit, or that an ingest was under way in (`spoiled`).  A source in the ledger is kept
out as it should be.
*EpisodeSegmentation*: `OneEpisodeEach`, `TextFits` (the joined text is within the limit),
`SameAsOneRun` (limits, kills and second runs do not change where episodes end),
`EveryEventSegmented` (liveness).
*QueueReconciliation*: `RetiredHasBarrier`, `PermanentStaysRetired`, `RetiredWhilePresent`.
*WorkerCalls*: `ParsedAsWritten` (the automaton accepts exactly the records of one turn),
`RowsMatchStore`.

Each module also has one `TypeOK` (`CallsTypeOK` in `WorkerCalls`).  For each property a
definition named "As if ..." next to the one it imitates is a plausible bug that the
property catches.

### Fairness

`JobQueue`: weak fairness of the clock and of somebody leasing over the whole queue;
nothing makes an owner finish.  `NightlyPipeline`: weak fairness of each process's steps
and of the clock, because launchd starts a run every day and a started process goes on
until it ends or dies; crashes and refused certifications are not fair and are bounded.
`DrivesTheQueue` shows that the second provides the first.  `ReviewLifecycle`: weak
fairness of the nightly drafting and of the expiry check that ends every night; nothing
makes Leo run a command.  `IngestCursor`: weak fairness of each ingest, which stands for
the command being started again (by hand or by launchd) and a started one going on;
neither the writer of the file nor a mishap is fair.  `EpisodeSegmentation`: weak fairness
of somebody segmenting, not of each process: a run may hang with its plan in hand for
ever, and another must do the work.

## 4. Proofs

`JobQueueProofs` proves, for any set of rows and owners, any priorities and any
`MaxAttempts >= 1` (`MaxAttemptsAssumption`, `NoOwnerAssumption`, `PriorityAssumption`):

- `TypeCorrect`, `QueuedIsVisible`, `FailedIsSpent`: from the inductive invariant `IInv`,
  a typed table in which every row is in one of the shapes the code produces: queued
  rows have an attempt left, leased and settled rows have used at least one, a failed
  row all of them.  `NoHiddenJob` alone is not inductive: `lease_job` requeues an expired
  row only if its attempts are below the limit, and that the row it then grants had one
  left is what makes the next state satisfy it.
- `SettledForGood`, `LeaseIsExclusive`: action properties, by cases on the action and,
  for `LeaseJob`, on the row being recovered, granted or untouched.
- `QueueKeepsPromise`: the refinement of `TryLedger`.  Every action is, for each row, a
  step of the ledger or a stutter; a lease that first recovers a row and then grants
  it is one `Try`.

`NightlyPipelineProofs` proves, for any finite set of episodes, any slots, any number of
processes and mishaps and any positive limits (`EpisodesAssumption`, `SlotAssumption`,
`BoundsAssumption`):

- `TypeCorrect`, `LeaseHeldWhileWorking`, `OneWorkerPerJob`, `AtMostOneVerdict`,
  `CompletionConsolidates`: from one inductive invariant.  Its core is that a process past
  `TakeLock` has `nightly.lock`, so at most one process leases, loads or persists.  Hence
  the lease a process holds can only be recovered by itself (`HeldWhileWorking`), and the
  candidates of a Phase 2 job, all eligible when it was loaded, are still so when it
  persists; that is what `OneVerdict` needs and does not say.  `CompletedDecided` says
  that the candidates of a completed group are suppressed or proposed, which no step
  takes back; not being eligible, which is all `CompletedMeansConsolidated` says, would
  also be true of a candidate that Phase 1 has yet to make eligible.
- `RunsImplementQueue`: every step of a run is a step of `JobQueue` or leaves its table
  alone, so the theorems of `JobQueueProofs` hold of the queue a nightly run uses.  This is
  the safety part of `DrivesTheQueue`.

`QueueReconciliationProofs` proves, for any episodes, any verdicts of the loader, any
number of upgrades, attempts and commands (`VerdictAssumption`, `VersionsAssumption`,
`AttemptsAssumption`):

- `TypeCorrect`, `NoneRetiredBare`: the two are inductive together.  `Apply` is treated row by
  row: a row is retired (`RowRetired`), becomes a barrier (`RowBarrier`) or stays
  (`RowKept`), and in each case the partner it names is there afterwards (`BarrierIsThere`).
- `PermanentForGood`, `NoneRetiredAfterForgetting`: from the recheck in `Apply`.  A row that
  was reconciled is classified as such and is no transition (`TransitionOfQueued`); a
  row is cancelled by nothing else (`OnlyTheyCancel`).

`EpisodesAndCallsProofs` proves of `EpisodeSegmentation`, for any finite set of events, any
sizes, times and sources, any limits and any number of runs and mishaps
(`EventsAssumption`, `TextAssumption`, `ConfigAssumption`, `MishapsAssumption`):

- `DraftsPartitionTheEvents`: what `segment_events` promises of every set of events none of
  which is too large.  Its drafts have all of them and each only once; a draft is of one
  group, within the limits on its joined text and its number of events, and has no gap
  larger than permitted; it leaves out no event of the group between two of its own, and
  it ends only where `Boundary` holds of it and the next event (`LongestRun`).  This is
  about a recursive function, so it rests on `SubsetInduction`: the strict subsets of a
  finite set are well founded, and every claim about the drafts of some events is made
  of the drafts of what the first one leaves.  `RecursionsAgree` and `RecursionExists` show
  first that `Cut` and the sum in `Characters` are what their definitions say.
- `TypeCorrect`, `NoEventInTwoEpisodes`, `EveryEpisodeFits`, `EpisodesEndWhereOneRunEndsThem`: from
  one inductive invariant.  `SameAsOneRun` compares what is stored with what one run over
  all events would cut, and a run that stores the first `Limit` drafts leaves the others for
  a run that cuts what remains; the lemma `StoresFirst` says that this is the same, namely
  that without its first draft a set of events is cut into its other drafts.
  `InStep` carries it: what each run has still to store is what one run would cut of the
  events that are not in episodes, unless its partition got an event late or is `excused`.
  `EpisodesApart` and `PlansApart` keep the plans of two runs and the episodes stored apart,
  with the same exceptions.

and of `WorkerCalls`, for any number of calls, lines and faults (`BoundsAssumption`):

- `CallsTypeCorrect`, `RowsTellWhatWasStored`: `RowsMatchStore` alone is not inductive.
  `OnItsWay` adds what the row under way says at each place of `run_leased_job`, in
  particular that a call about to be quarantined has stored nothing.
- `AcceptedIsOneTurn`: of every sequence of lines, however long, the parser accepts exactly
  the records of one turn.  By induction on the length, with an invariant of the fold:
  `Knows` says what each field of the parser's state tells of the lines so far, `Regular`
  that every line was one it lets pass, and `SaidLast` that the text it has is that of the
  last message.
- `ExactlyOneTurnIsPersisted`: hence `ParsedAsWritten`, with `Sorted`, that a call beyond the
  parser was accepted by it and one that failed in it was not.

`ReviewLifecycleProofs` proves, for any slots and neighbours, any number of batches, commands
and proposals (`SlotsAssumption`, `NamesAssumption`):

- `TypeCorrect`, `HeadsAsReviewed`, `WholeAndOnce`: from one inductive invariant.
  `WrittenAsReviewed` compares what a version retired with what its batch is bound to *now*,
  so it needs that nothing binds a batch again once Leo can see it (`CommandsOnPosted`: a
  command only works on such a batch) and that no later version counts among the heads
  before an earlier one: `Dated` says that no version carries a revision that memory has
  not reached, and `EarlierHeads` that appending one leaves the heads before it alone.
  `AppliedWhole` needs `DraftsUndecided`: a batch nobody has seen has no decision to apply.
- `DecisionsStay`: an action property of the same invariant.  Commands act on what they
  read earlier, but what they write changes only proposals that are pending, or to apply
  approved, at that moment.
- `RetiresOnlyWhatItIsBoundTo`, `QuietDraftsRetireNothingUnseen`: a batch retires only heads it
  is bound to, always; and only heads the model was shown (`NothingUnseenRetired`) in every
  execution of `QuietSpec`, in which no version is written between the two reads of a draft.
  So the two connections of section 5 are the one place where the promise can be broken.

`ForgetAndRestoreProofs` proves, for any facts, processes, snapshots and mishaps
(`FactsAssumption`, `NobodyAssumption`, `SnapshotsAssumption`, `MishapsAssumption`):

- `TypeCorrect`, `ForgottenIsGone`, `PurgedBeforeDeletion`: from one inductive invariant.  Its
  core is `HolderWorks`, that a process in a locked section has the maintenance lock.
  `LedgerFirst` says that all that was ever deleted is in the ledger, which is why reapplying
  the ledger cleans whatever a snapshot held (`ReappliedClean`); `BaselineClean` covers the
  other way out of a restore, the rollback to a baseline taken under the same lock.
  `PurgedBeforeDeletion` needs the stronger `Unpublished`: there are no artifacts at all.
- `LedgerFirstAlways`: an action property from `LedgerFirst`.
- `FinishedRestoresPublishNothingForgotten`: `NothingForgottenPublished` in every execution of
  `FinishedSpec`, in which a restore that has replaced memory is neither killed nor fails to
  roll back.  Everybody else may die anywhere.  Until such a restore ends, it has the lock,
  and so nobody compiles the memory that the ledger was not applied to (`UnfilteredStep`).

`ArtifactBundlesProofs` proves, for any number of processes, commits and kills
(`NamesAssumption`, `BoundsAssumption`):

- `TypeCorrect`, `CurrentBundleIsWhole`, `OnlyPurgesChangeBundles`, `SwitchesToMemory`: from one
  inductive invariant.  `NeverPublishesStale` needs that who is about to publish still reads
  what memory says, and that the bundle he is about to switch to says what he read
  (`PublishesMemory`); both hold because he has had the lock since (`HolderWorks`).
  `CurrentIsComplete` needs `DamagedByPurge`: *no* directory, whatever its revision, is
  incomplete but by a purge, for `CURRENT` may come to name any of them.
- `UnrestoredRevisionsHaveOneText`: `SameRevisionSameBundle` in every execution of
  `UnrestoredSpec`, in which no snapshot replaces memory: then the revision counts the
  commits, and a directory says what the commit of its number said (`OneTextEach`).

`IngestCursorProofs` proves, for any files, any batch size, any number of ingests and mishaps
(`TimesAssumption`, `ContentsAssumption`, `BatchSizeAssumption`, `MishapsAssumption`):

- `TypeCorrect`, `CursorNeverAhead`, `ForgottenStaysForgotten`, `UncutSnapshotIsPair`: from one
  inductive invariant.  `CursorBehindEvents` becomes true long before the cursor moves: an
  ingest has every record it has passed in memory or in hand (`Covered`), a record left out
  as known in the batch being like one in hand (`Listed`), and what it has in hand comes
  from sources that are kept or in the ledger (`Accounted`).  What is in memory may go only
  with its source into the ledger, or by a restore, which brings a cursor that its memory
  fits (`SnapshotPairs`) or is recorded as `spoiled`.  `TornBefore` and `CursorsKept` say that a
  position inside a line, from which a record can be skipped, is one that was recorded as
  `torn`.  `ClearedSlips` is what the one exception of `ForgottenStaysOut` amounts to.
- `BatchesDoNotMatter`, `OneRoleForEach`: for `OneRole` the positions have to agree with each
  other, not only with memory.  `OneStory` says that there is a reading `H` of the lines
  read so far, each entry following from the one before it and its line (`AfterLine`), that
  every cursor, reader, database image and snapshot agrees with.  It is an existential
  statement, and grows by one line when somebody reads further than anybody before
  (`TellsMore`); so it needs no induction over the file.  A record's role follows from `H`.
  `OneRole` names records by their identity, so `OneRoleForEach` assumes that the events of
  a file can be told apart (`EventsDiffer`): nothing in the code ensures that a session does
  not hold the same item of the same second twice, and for such a file `OneRole` would
  call an event and its repetition one record.  `BatchesDoNotMatter` assumes nothing.

The inductive invariants were checked by TLC on the instances of section 3 before
they were proved.  What is only model-checked is liveness under fairness
(`EveryJobSettles`, the fairness in `DrivesTheQueue`, `EligibleIsDecided`,
`EveryRecordArrives`, `EveryEventSegmented`): it and anything about ENABLED are out of the
prover's reach.

No module here declares a RECURSIVE operator.

## 5. Where documents and code disagree

- Run `reconcile_lock_order`: "All multi-database maintenance acquires canonical memory
  first, then operations, so writers cannot deadlock by choosing opposite orders"
  (`cli.py:1517`).  `queue-reconcile` takes the operations lock (`cli.py:1803`) and then, in
  `reconcile_phase1_queue`, the memory lock; with a restore each may hold what the other
  waits for.  `flock` here has no timeout.

The following configurations are kept beside the runs, each with one property that TLC
violates; run them by hand (`tlc -config <cfg> <module>`).

| Configuration | Module | Property | What the counterexample shows |
|---|---|---|---|
| `NightlyEpisodeStarved.cfg` | `MCNightlyPipeline` | `EveryEpisodeQueued` | `enqueue_phase1_jobs` takes the first `limit` eligible episodes and only then skips those already queued. `run-nightly` passes 40, so once the 40 oldest episodes have rows, no later one is ever extracted. |
| `ReviewUnseenHeads.cfg` | `MCReviewLifecycle` | `NothingUnseenRetired` | the heads shown to the model and the head-set hash a proposal is bound to come from two reads; a version written between them is superseded unseen. |
| `ReviewStaleNotRerun.cfg` | `MCReviewLifecycle` | `StaleIsRedrafted` | "review batch is stale; rerun Phase 2" (`cli.py:954`), but the candidates stay `proposed` and Phase 2 selects only `eligible` ones. |
| `ReviewExpiredPlanDropped.cfg` | `MCReviewLifecycle` | `ExpiredIsProposed` | a temporal batch covers all expired plans and goes stale as a whole; a stale proposal still counts as proposed, so the others are never proposed again (`temporal.py:80`). |
| `RestoreKilledUnfiltered.cfg` | `MCForgetAndRestore` | `NothingForgottenPublished` | a restore killed between replacing `memory.sqlite3` and reapplying the ledger leaves a database whose next compilation publishes what was forgotten. |
| `ArtifactRevisionReused.cfg` | `MCArtifactBundles` | `SameRevisionSameBundle` | restoring takes `memory_revision` back; the next commit reuses a number whose bundle exists with other content, and `publish_bundle` refuses it after the commit. |
| `SnapshotUnpaired.cfg` | `MCIngestCursor` | `SnapshotIsPair` | "Create immutable paired memory/operations snapshots" (`storage.py:2225`), but nothing is locked between the two copies: the cursor copied second can be past records the first copy lacks, and after a restore they are not read again. |
| `IngestNeverConverges.cfg` | `MCIngestCursor` | `EveryReplayConverges` | the same as `EveryRecordArrives` without the exception `Refusable`, with one ingest and no mishap: two results of parallel calls are alike in one second, a third repeats one of them later: the observation is refused in every attempt, the cursor stays, and nothing behind it in that file is ever ingested (`storage.py:801`; `docs/OPERATIONS.md:89-91` says that a batch replayed converges by the identity of its events and that nothing is skipped). |

Seen while modelling, with no run of their own:

- A correction supersedes the heads it read; an approval applied in between stays an
  approved head beside it.
- `mark_review_stale` sets the status of a batch that was decided meanwhile to `stale`
  (its proposals keep their decisions, which is what `DecisionsAreFinal` says).
- An approved batch whose heads changed can be neither applied nor marked stale.
- `SnapshotManager.purge` at the end of a forget takes no lock and can delete both the
  source and the baseline of a running restore, after one database was replaced.
- `persist_candidates` consults the ledger before its transaction: a claim forgotten in
  between becomes a candidate again (it cannot be approved: `apply_batch` looks again).
- A value Leo forgets and later writes again by `review correct` stays suppressed.
- A purge killed inside a bundle directory may leave its manifest and not all of its
  files; the next compilation of the same revision takes it for complete
  (`CurrentIsComplete` excepts it by `interrupted`).
- Two expired approved plans in one slot make `create_review_batch` refuse the whole
  temporal batch.
- A line that Codex has half written when the file is read is taken for a complete
  malformed one: its record is lost and those after it are numbered one off (`torn`).
- A record with more text than a batch may hold is deferred by every scan, and everything
  behind it in the file with it (`Blocked`).
- The `session_id` of the last `session_meta` in a batch is given to all its records.
- An ingest holds no lock between its transactions: one that goes on over a restore may
  commit a cursor past events that the restored memory does not have (`spoiled`).
- A source forgotten between the ledger check of an ingest and `create_source` is
  created again (`slipped`).
- Two `dream segment` runs under way at once can put an event into two episodes:
  `episode_events` is keyed by the pair, and the query that leaves segmented events out is
  not repeated (`excused`).
- Drafts that start at the same instant are ordered by a hash, so `--limit` may store the
  second of one partition first; what is left of the first is then cut together with
  other events (`Tied`).
- `queue-reactivate` also accepts the retired row beside its barrier, or the barrier of an
  outdated version; the episode then has two live jobs.
- After an upgrade the first nightly run queues the new identities, and from then on
  `queue-reconcile` refuses the old rows of those episodes as conflicts.
- `queue-reconcile --apply` plans anew; it is not bound to the dry run Leo looked at.
- `str.splitlines` also cuts at U+2028 and U+0085, which JSON allows inside a string: a
  regular stream whose message holds one is refused (a "junk" line in `WorkerCalls`).
- When `finish_model_call` fails after the output was persisted, the row is settled as
  `failed` although everything was stored; when settling fails, it stays `prepared`.
- A call whose `run_leased_job` raises is not added to the usage of `nightly_runs`.

## 6. What is not modelled

Parsing of source formats, prompts, schemas, redaction rules and Markdown layout (data
conversion without state); ranking of search results; file permissions; launchd.  The
three source formats other than Codex sessions are read whole and without a cursor.
Assumed rather than modelled: SQLite transactions are atomic and durable, `flock` is
released when a process dies, `os.replace` is atomic.  In `NightlyPipeline` an episode
yields at most one candidate, heads do not change and every limit is positive; egress
approvals (whose ledger no command of the CLI passes in) and the pilot runner are left
out.  In `ForgetAndRestore` file-level errors of snapshots are one `RestoreFails`;
`forget-source` appears where it meets ingest, segmentation and reconciliation, and its
pruning of versions by evidence is left out.  In `QueueReconciliation` the restored
snapshot is that of the moment: a restore is there for its locks.  What the loader
makes of an episode does not change with the version.  `doctor.py`, `evals.py`,
`config.py` and the generators of files hold no state that others race for.

## 7. Plan

1. Done: the queue, the nightly run, review, forgetting and restore, artifacts;
   ingest with its cursor, segmentation, queue reconciliation, worker calls.
2. Done: theorems for every component modelled, among them every safety property of
   the passing runs.
3. Done: what is true of the known disagreements under a condition
   (`UncutSnapshotIsPair`, `QuietDraftsRetireNothingUnseen`,
   `FinishedRestoresPublishNothingForgotten`, `UnrestoredRevisionsHaveOneText`).
4. `ForgetSource`: evidence support, pruning of versions, heads that come back.
5. Head forks (two approved heads in one slot) in `ReviewLifecycle`.
