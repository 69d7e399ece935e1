# A TLA+ model of narracut

narracut is a local, replayable video production system: a Python engine plans,
renders and stores videos on one machine, a FastAPI service (the Studio API)
drives it for a React front end, a Remotion project draws the frames, and a
legacy v2 pipeline is kept for migration. This directory holds TLA+ models of
the parts whose behaviour depends on order, failure, concurrency or exact
arithmetic, the TLC configurations that check them on small instances, and
proofs of the results that matter most for every value of the constants.

`tlc -config X.cfg M` checks a configuration (the table of runs names the
module), `tlapm <Module>Proofs.tla` the proofs. `PROJECT.json` lists the
components, the runs, which lines every definition stands for, and the hazards
the properties are aimed at.

## Inventory

The system is single-host and file based. Concurrency comes from three places:
independent processes that work on one project directory (renderers, workers,
workspace hosts), threads of the Studio API's request pool, and the operating
system (a process dies, a disk operation raises). Beside it stands a large body
of deterministic compilers whose artifacts name each other by content hash.

| Component | State it keeps | Operations | What is hard | Correct when |
|---|---|---|---|---|
| FULL render lifecycle (`engine/rendering/full_orchestrator.py`, `full_render.py`, `lifecycle_registry.py`) | `output-targets.jsonl`, `registry.jsonl`, `transactions/*.json`, the lock file, the published file, backups | provision, `run_full_render` (render, publish, commit, restore, compensate, terminal journal) | publication and commit are many file operations; a lock file that survives its owner; a head read minutes before it is replaced | one linear chain of revisions, each with its evidence; bytes, head and journal agree; no committed render is lost |
| Durable queue (`engine/durable_queue.py`) | SQLite table of jobs | enqueue, lease, complete, recover | a completion that is not conditional on the state; crash recovery | at most `max_attempts` leases; exclusive leases; finished jobs stay |
| Studio preview jobs (`studio_workflow_service.py`, SQLite repository, `preview_adapters.py`) | jobs, events, delivery folders | `request_preview`, transitions, delivery | check, number and insert are separate calls; an exception in the middle; restarts | one driver per request; ordered attempts; a success is delivered; terminal jobs are frozen |
| Studio manual tasks (same service) | tasks, task events | create, submit, approve, repair | status read in one call, event written in another; ids with a clock of seconds | approvals name an accepted response; repairs have a rejected parent; an id has one content |
| Workspace revisions (`engine/workspace_store.py`) | revision directories, the active pointer, staging | publish, load, recover | no exclusion between processes; a crash between install and pointer | the pointer names a revision that verifies; recovery never rolls back |
| Timing publication (`contracts/timing_publication.py`) | one directory, staging | publish | a rename decides between publishers; clean-up after failure | what is published is one publication, whole |
| Artifact registry and trash (`engine/lifecycle.py`, `storage_manager.py`) | registry rows, the trash, receipts | append, plan, execute, restore, admit | read-then-append; multi-file moves; usage measured before the run | unique, closed under dependencies; nothing protected is trashed; restore undoes |
| Render cache and its retention (`engine/cache*.py`) | payload and metadata files, a transaction ledger | put, get, plan, evict, restore | two files per entry; a move and a ledger row | what get returns was put; ledger and files agree |
| Recording intake (`contracts/audio.py`) | none; a file that others may rewrite | open, read, read again, judge | the file changes between the two reads | an artifact describes bytes that both reads found |
| Asset catalog (`engine/acquisition`) | an immutable catalog | compile, serialise, load | duplicates and reuse decided candidate by candidate | no duplicates; a reader accepts what was compiled |
| Research and planner tasks (`engine/research`, `engine/planner`) | SQLite task, response, claim and plan tables | create, revise, submit, import, assemble | immutable rows, transition tables, imports that stop half way | every row stands on accepted rows; revisions follow the transition table |
| Narration, alignment, captions, frames, timelines (`engine/contracts`) | registries of materialized artifacts | materialize, compile, serialise, load | one lineage across a dozen artifacts; rounding to frames and samples | nothing is built on drifted or foreign parts; nothing is lost or doubled on the way from text to timeline |
| Workspace graph and migration (`contracts/workspace.py`, `engine/migration`) | workspace documents, four output files | load, validate, migrate | references in both directions; every source value accounted for; failing writes | accepted workspaces are trees; what is migrated is accepted or refused by the schema before anything is written |
| Sequence reviews, job journal, preview runner, validators, benchmarks, UI, Remotion, legacy v2 | inserts, or nothing that is shared | pure transformations, one subprocess, presentation | - | not modelled, see `PROJECT.json` |

How they interact: the Studio API calls the engine's task factories and the
preview executor in the request's thread and keeps all its tables in one SQLite
file behind one re-entrant lock; a FULL render reads a provisioned target, runs
subprocesses, and appends to the project's journals; the storage manager calls
a render and afterwards copies its committed rows into the artifact registry;
cache and registry share a managed root. Nothing sends messages: everything
meets in files and tables, or in artifacts that carry the hashes of what they
were made from.

## Modules

### FullRender (with OutputTarget and FullRenderProofs)

`FullRender` models any number of `run_full_render` attempts and provisioning
processes on one output target. A variable is a file or a local variable of the
code:

| Variable | In the code |
|---|---|
| `targets` | the rows of the target in `artifacts/output-targets.jsonl` |
| `registry` | rows of `artifacts/registry.jsonl`: artifacts, receipt, `COMMITTED`, `RECOVERY_COMPENSATION_RECORDED` |
| `journals` | `artifacts/transactions/<id>.json`, of the main and of the terminal transaction |
| `lock` | `artifacts/.phase4b-registry.lock` |
| `dest`, `backup`, `displaced` | the published file, the replaced output, the output moved away while restoring |
| `base`, `out`, `output`, `prov` | `base_target`, `output_sha256`, whether `atomic_publish` returned, `provisional_target` |
| `pc` | where the attempt's process is |

Every action is one operation on a shared file, together with whatever the
attempt does to files of its own: `Vacate` and `PublishStaged` are the two
renames of `atomic_publish`, `WriteJournal` reads the published bytes back and
writes the prepare journal, `LockTargets` creates the lock file,
`AppendEvidence`, `AppendRevision` and `AppendCommitted` are the appends of
`commit_transaction` in order. The comparison of the head with the base is part
of `AppendEvidence`: it is made under the lock, so that an attempt that will be
refused does hold the lock for a moment. `HandleFailure` to
`AppendTerminalCommitted` are the `except FullRenderError` branch. Which
exception leaves the function and which enters that branch follows the code:
only a `FullRenderError` is handled, `unlink` and reads raise a plain
`OSError` and end in `raised`.

A row's id is a hash of the whole row with its predecessor's id, so `RecordId`
is the list of all bodies up to the row; that no two rows share an id is
therefore a fact about lists (`RecordIdInjective`), not an assumption.
`FaultOutcomes` says what an append that raised has left behind: nothing
(`lost`) or the whole row (`landed`, when only the `fsync` failed).

`OutputTarget` is the abstract specification: a history of outputs that grows
by a publication or by a rollback that names what the undone head had replaced,
and never once the target is sealed. `FullRender` implements it with the
outputs of the rows as the history (`ImplementsOutputTarget`).

The code identifies a revision by its content: a failing attempt asks whether
the head's hash is the one it meant to commit. If another attempt has committed
the very same content, the failing one may undo it, or be taken for it; the
properties about failed attempts are worded accordingly
(`FailedReplacementIsNotHead`: unless another attempt answers for it).

### DurableQueue

Jobs, workers, and the five public operations. `lease_next` runs in an
immediate transaction and is one action; `complete` is a read, a decision and
an update whose `WHERE` names the job only, and is two actions. `HotRecovery`
says whether `recover_interrupted` may run while a worker is busy: the code
does not prevent it, and its name and callers assume a start-up. With a hot
recovery a job may be leased while its first worker goes on, so exclusive leases
and frozen ends are promised, checked and proved for cold recovery only.

### PreviewJobs (with PreviewHistory and PreviewJobsProofs)

`request_preview`, one repository call per action, for any number of handler
threads; `active` and `events` are the columns and rows the repository writes
next to the state; `CreateJob` carries the primary key and the partial unique
index. `DeliverRaises` is an `OSError` of the delivery, which the code does not
catch. `PreviewHistory` is the abstract specification: per request a list of
attempts in which only the last can be open and a new one follows only an ended
one.

### ManualWork: ResearchStore, PlannerStore, StudioTasks (with ManualWorkProofs)

`ManualWork` puts the engine's manual tasks and the Studio's side by side; they
share no table, so a behaviour is one of the engine or one of the Studio.

`ResearchStore` has the append-only tables of `research/store.py` as one set
`rows`, and importers that put one record per step and may stop between any two:
discovery, extraction, normalization and comparison, each with the checks of
`research/gateway.py` in order. `PlannerStore` extends it (planner tasks and
plans stand on claims): task creation, repair, submission, the import of a plan
proposal record by record, snapshots, and the assembly of a whole plan.

`StudioTasks` has the task operations of the Studio; `HasStatus` is the query
that takes a task's status from its last event, and each operation that reads a
status and records an event later is two actions. A task id is a hash of the
identifying fields, the parent and a clock of whole seconds and is modelled as
just these, which is what makes two tasks of one second meet.

### LocalStores: seven stores on one disk (with LocalStoresProofs)

`LocalStores` instantiates the stores, which share no file; `area` says which
one a behaviour is about.

* `WorkspaceRevisions`: `publish`, `load_active` and `recover` by processes that
  nothing excludes from one another. `Rot` spoils a file between two calls.
  `overlapped` is a history variable, TRUE once a recovery and a publication
  have been in flight together: `recover` moves the staging directories of live
  publishers away and `_write_durable` re-creates a path, so with an overlap an
  incomplete revision can be installed and named. The store promises nothing for
  that case; the properties say which of them survive it. A first publication
  has nothing to fall back to.
* `TimingFiles`: `publish_timing_artifacts`, file by file, with a failing
  operation anywhere, and a clean-up that may meet the staging directory of
  another publisher of the same publication.
* `ArtifactShelf`: the registry as a list of rows, deletion plans, trash,
  receipts, restoration, and the storage manager around one render.
* `RenderCache`: `cache_put` and `cache_get` over two files.
* `CacheRetention`: the soft quota over payloads that several entries share, the
  ledger, and the restoration of a transaction.
* `AudioIntake`: the reader opens the object (`OpenSnapshot`), takes its bytes
  (`TakeBytes`) and reads it once more (`ReadAgain`), all within `open_snapshot`,
  while somebody rewrites the file. What follows is one step, `Judge`, that looks
  only at what was handed over: `reverify_same_object` returns the evidence that
  was fixed with the snapshot, so nothing of the file is read after the second
  read and a change from then on goes unnoticed, in the code and in the model.
  The reader is a protocol (`SecureAudioReader`) that the repository does not
  implement; the one modelled reports what it found. `DeclarationRows` and
  `WaveRows` are the checks of the declaration and of the bytes as lists of
  questions.
* `AssetCatalog`: `compile_asset_catalog` as a fold over candidates, and the
  loaders' checks of its result.

### NarrationWork: text and the artifacts built on it (with NarrationWorkProofs)

`NarrationText` and `NarrationRevisions` model
`materialize_canonical_narration`: the structure of sections, paragraphs and
sentences, tokens, words, and the lineage manifest by which every node of the
predecessor is continued, superseded or removed. `ContractRegistry` is what
makes an artifact genuine: an object is in the registry of its module under its
identity with the bytes it was registered with, and a copy is not. An object
may be altered in place (`Drift`): its identifiers and hashes stay, and what else
it says is then one of `Alterations` (`Says`). Where the code compares an object
with what was registered - from the alignment result on - an altered one is
refused. Where it only asks whether the object is registered it goes on with what
the object says now: a call takes `[is |-> artifact, says |-> content]`
(`Objects`) and its checks read `says` where the code reads a field and `is` where
it reads an identity. `TakenAtTheirWord` lists these objects: the recording of a
request and of a soundtrack, the request of an execution and, for a replay, the
request and the execution that are repeated. `AlignmentContracts` (request,
adapter execution, replay evidence, alignment result) and `CaptionContracts`
(caption groups, alignment report, emphasis events, frames, caption preview,
collision report, video and audio edit lists, publication) give for each
artifact the checks of its compiler and loader as rows `<<condition, reason>>`
in the order of the code; the first true one is the refusal (`Refusals`).
`damaged` names the parts of stored bytes that are not what was written.
`TemporalArtifacts` has the actions: every compiler, serialiser and loader, with
any genuine, copied or altered dependency. `Worlds` are the artifacts a process
may start from: what earlier calls could have made, for each stage. A request
or an execution is written back only when it was altered, since writing it back
unaltered leads nowhere new.

`OneLineage` and `ReplaysAnOriginal` are about steps: what is made in this step is
of one revision and one recording, and repeats a call that succeeded, unless an
object that is taken at its word has been altered. The exception is necessary. A
recording whose `narration_revision_id` was changed lets a request of two revisions
be registered (`alignment.py:450-453` asks for the registry entry, 637-640 compares
the changed field), and an execution that failed is repeated after its `status` was
changed (`alignment_execution.py:583-594`).

### TemporalCompile and TimelineCompile: what the compilers compute

`CaptionGroups` aligns a recogniser's tokens to the words, groups words into
captions and derives the alignment report; `WordFrames` places emphasis events
and rounds milliseconds to frames; `VideoEdl` lays out scenes, tracks, previews
and collisions; `AudioPlan` places sounds, trims, fades and the sample plan.
They are operators and recursive functions; `TemporalCompile` and
`TimelineCompile` turn the loops of the code into steps, so that a property is
about everything that a run has produced so far.

### WorkspaceMigration: graphs and the migration command (with WorkspaceMigrationProofs)

`WorkspaceGraph` is `WorkspaceLoader`: documents, domain, hierarchy, tracks,
events, targets and the artifact graph, each as the set of issue codes it finds.
`V2Timeline` is the conversion of a V2 timeline with its account of every source
value. A source has its root and `bgm` fields and a list of blocks, a block its
fields and visuals, a visual its fields, `extra` and `sfx`; fields that the code
has no use for, nulls, values of a wrong type and secrets (`Null`, `Wrong`,
`Secret`) may stand anywhere. `SchemaTakes` is what the V3 schema has to say of the
workspace that is built: `claim_refs` without duplicates, identities of the pattern
and origins that are URIs. The claims of blocks are not registered as the other
identities are, so that blocks called `one` and `clm_one` yield one claim
(`SlugOf` has both) and the migration ends in `MIGRATION_TARGET_INVALID`.
`WorkspaceMigration` is the command: packs that
change between the steps of a call, validation, and the four files of an outcome
with failing writes and crashes, which may leave the candidate or a temporary
file behind (`litter`) and so a directory that is not empty.

## Runs

| Run | Instance | Shows |
|---|---|---|
| `full_render_shared` | 2 attempts in flight, 1 owner, 2 outputs, 1 fault of any kind, 1 crash | the chain, the lock, evidence before visibility, compensation, refinement, and that every attempt ends |
| `full_render_writer` | 3 attempts one after the other, 2 faults, 1 crash | published bytes follow the head, success and failure are never both on record, the last committed render is on disk |
| `durable_queue_cold` | jobs with limits 1, 2 and 3, 2 workers, recovery while nobody works | the attempt limit, exclusive leases, exhausted failures, frozen final states |
| `preview_jobs_race` | 3 handlers, 1 request, 2 attempts, 1 fault, 1 restart | one driver, ordered attempts, truthful events, the abstract history, answers and ends |
| `preview_jobs_delivery` (violation) | 2 handlers, 1 fault | a delivery that raises leaves the job running for ever |
| `manual_work` | 2 importers, 2 planners, agendas of one or two topics; 2 handlers, 2 requests that share an identity, 2 seconds | what research, plans and Studio tasks stand on |
| `two_responses` (violation) | 2 importers of one task | two responses are taken for one task |
| `local_stores` | per store 1 to 3 processes, 1 fault, small inventories | the seven stores |
| `temporal_compile` | narrations of 1 to 21 words; families of spellings, times, confidences, policies, intents, rates, layouts, cuts, sounds | the compilers from speech to sample plan |
| `touching_captions` (violation) | captions that meet within a frame | a genuine preview that the collision report refuses |
| `narration_work` | nine starting worlds, one object altered or forgotten at a time; narrations of two or three words | contracts between artifacts, and the lineage of revisions |
| `workspace_migration` | some five thousand workspaces, some five hundred sources | accepted graphs are trees; a migrated workspace passes every rule on references and is written only if the schema takes it; every value is accounted for |

The bounds. Two attempts are enough for every conflict over the head, the lock
and the published file, since each conflict is between one attempt and what
another has done; the third attempt of `full_render_writer` is a replacement of
a replacement. Two faults let the repair of a fault fail too. Queue jobs with
limits 1 to 3 reach the last attempt through a failure, through a recovery and
through both. Three handlers are one more than the collision over the insert
needs, so that a third may arrive after it; two attempts are the fewest with a
successor. Three publishers, of two publications, have two racing for one and a
third in the way. Four events carry a Studio task through creation, answer,
re-creation and a second answer. Twenty-one words are the fewest that need three
caption groups of unequal size; sounds, layouts and cuts come in families that
each vary one respect. All bounds are constants that guard the actions they
bound: `MaxInFlight`, `MaxFaults`, `MaxCrashes`, `MaxAttempts`, `MaxRestarts`,
`MaxSecond`, `MaxEvents`, `MaxDamage`, `MaxRuns`, `MaxTrashed`,
`MaxShelfFaults`, `MaxCacheFaults`, `MaxTransactions`, `MaxCleanFaults`,
`MaxRewrites`, `MaxLogged`, `MaxSnapshots`, `MaxRevisions`, `MaxCalls`,
`MaxEdits`.

Deadlock is not checked where the bounded system really stops (all attempts
used, all jobs done, a compilation finished). Symmetry is used over workers and
threads, and only in runs without liveness properties.

Fairness. `FullRender` assumes weak fairness of an attempt's own step and
`PreviewJobs` of a handler's: both are straight-line code in a thread or process
that runs. There is no fairness for starting an attempt, for faults, crashes,
restarts or for the environment. `AttemptsEnd` then rests on the lock file being
tried once and never waited for; `RequestsFinish` promises an answer to every
handler, and an end to every job only while nothing restarts and no delivery
raises, since the code ends an open job nowhere else.

### Where documents and code differ

Three runs show it (`findings` in `PROJECT.json` quotes the lines):

* An `OSError` of the delivery leaves a preview job running and its request
  blocked (`EveryAttemptEnds`).
* Of two responses that pass the check for an accepted one, the later insertion
  is ignored and its import returns as if accepted (`OneResponseTaken`).
* Two captions that share a frame after rounding make the collision report
  refuse the preview (`PreviewIsReported`).

Others met while modelling, without a run:

* FULL render: a first publication whose commit fails leaves its file at the
  target; a fault after the `COMMITTED` row has reached the file gives one
  attempt a success marker and a terminal failure; the published file is
  replaced before the head is compared under the lock.
* Studio tasks: creating a task twice within a second appends `waiting` to the
  existing one, whatever its state.
* Planner: `incoming is None != outgoing is None` is a chained comparison that
  is never true, so one-sided continuity handoffs pass, which the phase 10
  contract says are rejected; a successor record makes the assembly impossible
  for good.
* Research: a repair task can be neither revised nor answered; records of a
  refused response stay and may support claims.
* Timelines: the leading cross fade may read the frame before its event; the two
  branches of A3 and A5 `BETWEEN` fades are swapped against the document; an
  EDL with fades at the ends of a track is accepted but cannot be rendered.
* Retention: the ledger's `restored` never takes back the effective state
  `retired`; the soft quota retires one payload even under its limit. A crash in
  `publish_timing_artifacts` leaves a staging directory under a name derived
  from the content, so that publication fails for ever.
* Asset catalog: ingesting a blocked candidate again logs its decision twice,
  and evidence that names the probe is refused though the document allows it.
* Migration: with overwrite, a crash between the workspace and its result leaves
  files of two outcomes (`torn` tells these directories apart). Two blocks whose
  names differ by the prefix `clm_` only, a name with a punctuation mark behind its
  prefix, and an origin that only begins like a URI pass the mapping without an
  error and make a workspace that the schema refuses.
* Contracts: objects altered in place are refused from the alignment result on and
  believed before (`OneLineage`, `ReplaysAnOriginal`).
* Recordings: the evidence that is checked "after decoding" is that of the second
  read, before it.

## Proofs

TLC agrees with all of these on the instances above; TLAPS proves them for any
constants that satisfy the named assumptions. No bound is used: the proofs hold
for any number of attempts, faults, crashes, processes and rows.

### FullRenderProofs, in five layers

1. `TypeInv`: `TypeOK`, and which local results exist in which phase. It gives
   `TypeCorrect`.
2. `LockExclusive` is inductive given the types (`LockIsExclusive`): a phase
   inside the transaction is entered only by creating the lock file and left
   only by removing it or dying.
3. `ChainInv` adds what each phase knows: from the comparison under the lock to
   the append of the revision the head is the base (`Knows`), the provisional
   revision is the successor of the base, all rows are sealed alike, and the
   owner appends only to an empty file. `ChainLinear` alone is not inductive:
   that the appended row follows the head is exactly what `Knows` says, and it
   stays true while others act only because of `LockExclusive`. `ChainStaysLinear`
   and `FullRenderImplements` (initial states map to initial states, each step to
   a step of `OutputTarget` or a stutter) follow.
4. `JournalInv` says what each phase has put on record: evidence before the
   revision, a backup with the old bytes while a replacement can still fail, and
   for every row of the chain an attempt that answers for it. Rows and marks are
   only added, so what another attempt knows survives; the one fact that other
   attempts can take back, that a failed revision is not the head, is stated with
   the attempt that put it there. It gives `JournalTellsTheTruth`.
5. `WriterInv` and `KeptInv` follow the bytes: in each phase of the only writer,
   which of the published file, backup and displaced file holds the old output
   and which the new, and which copy of the last committed render no later step
   removes. They give `OutputFollowsJournal` and `CommittedBytesAreKept`.

Layers 3 to 5 assume `SingleOwner`: `provision_output_target` takes no lock, and
with two owners both may append a first row. Layer 5 assumes `OneWriter`
(`MaxInFlight = 1`): with two attempts in flight the one that will be refused
has already replaced the published file. `OutputFollowsJournal` and
`CommittedBytesAreKept` also assume `AppendsAreWhole` (an append that raises has
written nothing); without it one attempt can have both ends on record. That
the bytes are the head's is promised while at most one operation has failed: a
second failure inside the restoration leaves the file away.

### DurableQueue (its proofs are in the module itself)

`AttemptsLimited`, `LeasesExclusive`, `FailuresExhausted` and `FinishedStays`
for cold recovery, from one invariant: a busy worker's job is running and nobody
else's, an unfinished job that can still be leased has attempts left, and the
verdict a worker has decided on is still right when it is written.

### PreviewJobsProofs

`RowsInv` (the tables) and `HandlerFits` (what a handler remembers fits the
rows) are inductive together: a handler's job is where its own last call left it
because, while it works, the job is active and every other handler of the
request is given that job back. So the exception of `transition_preview_job` is
never raised (`AttemptsOneAtATime`, `TruthTold`). `PreviewJobsImplement` is the
refinement: the creation of a job starts an attempt of the history, its end ends
the newest one, no other step is seen. It needs that ordinals have no gap.

### LocalStoresProofs

One inductive invariant per store; the stores share no variable.

* `NamedRevisionsVerify`, `RecoveryLosesNothing`: as long as no recovery has met
  a publication, staging directories hold what their publisher wrote (`Staged`),
  publishers and recoverers keep apart (`Apart`), and a recovery moves the
  pointer only from nothing that verifies.
* `PublishedTimingIsWhole`: until something is published a staging directory in
  use has one user and holds what that user has written, so it is whole once
  everything is; afterwards the published directory is only read.
* `CacheHitIsOnePut`: metadata is never made up and names its payload by content,
  so a hit pairs the two files of one put, however files were replaced.
* `RecordingsDescribeTheirBytes`: a list of questions whose answer is `accepted`
  has no true row (`NoRowHolds`, by the least counterexample), so what a clerk
  has established at each phase follows from the questions it has passed; bytes
  that pass the decoder are a header and whole frames. That both reads found them in
  one object is what the evidence says, and the modelled reader reports what it finds.
* `NothingGetsMislaid` joins the two above on timing and cache with four facts
  about artifacts and payloads:
  - the registry loads (`RegistryInv`): what is registered and what a render has
    yet to append hang together, and that stays so when one row goes over whose
    dependencies are registered (`OneMore`), whichever append fails or whenever
    the renderer dies;
  - the trash is on record (`TrashInv`, `Accounted`): whatever is neither on the
    shelf nor on a receipt is in the hands of a keeper that is moving or undoing,
    so when all are done nothing is. Several keepers may race over one plan: a
    file one of them finds gone is accounted for by another;
  - what is protected stays (`TrashIsPlanned`): the trash of a plan has only
    candidates of that plan. `ProtectionIsClosed` is the lemma about the loop of
    `plan_deletion`: after as many rounds as there are rows nothing more becomes
    protected, since every earlier round that changes anything reaches a new row;
  - payloads (`RetentionInv`): a ready payload is in exactly one of its two
    places and, as long as the ledger has no retired transaction, one that is in
    the trash is in the hand of a cleaner that is at work.

* `CatalogsStaySound`: the four parts of `CatalogHolds` from one invariant. A
  catalog that a caller holds or has kept is sound (`SoundCatalog`): its records
  hold, have nothing in common, and each candidate in its log has something in
  common with one of them.
  - a decision names the strongest kind of match there is, or there is none
    (`DecisionIsRead`), so a candidate let in has nothing in common with any record,
    whatever the order of the comparisons, and one that was blocked meets the
    record it met as long as it is in the log, as no step takes a record away but a
    reload, which takes the log back too;
  - what a compilation accepts, every reader does: the candidate's record and its
    package pass the loaders' checks (`CandidateHolds`), although the compiler
    compares ranges with their neighbours and the validator with all
    (`RangesAreInOrder`), and a duplicate of the same origin that is not of the same
    bytes is logged as the validator wants it (`LoggedIsSound`);
  - which record a decision names depends on the order of the identifiers, so the
    invariant says of the last mutation under which order it was made (`MadeUnder`);
  - `_reuse` compares only neighbours, in the order of their ordinals: uses that
    keep their distance from their neighbours keep it from all (`DistanceAddsUp`),
    because a use ends after it begins, which the context's own checks ensure.

* `LimitsAreKept`: both halves of `LimitsHold`.
  - `FitsInv`: every file on disk is that of some row in some place, what is on disk
    fits and, while a render runs, so does that and its estimate together. A render is
    measured once, before it runs; what keeps the room free until it has written is
    that no keeper adds a byte, for a file that is trashed, put back or restored goes
    from one place to one other, and that renders come one at a time.
  - the bytes on disk are a sum over a set of files, which the proof takes apart by
    the least set for which a claim about sums would be false (`SmallestSet`): sums
    exist (`SumsExist`), any member can be taken out (`TotalTakes`), two sets weigh
    together no more than both (`TotalOfTwo`), a move adds nothing (`TotalMoved`).
  - the queue of a soft quota plan has every eligible payload in one place and a
    payload in every place (`QueueIsFull`): how many are older is different for any
    two, by the time they were made and else by their ids, which `storage_report`
    has found to be distinct. What is taken is a first part of it, and all but the
    last of that was asked about and not enough (`TakenIsPart`).

Assumptions: `FilesAssumption`, `EntriesAssumption`, `RecordingsAssumption`,
`CatalogAssumption` (the rows renders deliver are rows of the catalog),
`AssetsAssumption` (the four media types, and which fields are whole numbers),
`LimitAssumption` (sizes are numbers, and a render writes no more than the estimate it
is admitted with: `storage_pressure_admission` gets the estimate from its caller, and
nothing measures what is then written), `InventoriesAssumption` (an inventory is finite,
its sizes, times and ids can be compared as numbers) and `WorkspaceAssumption`, each
checked by the run.

The lemmas about chains of checks that three of the proof modules share are in
`Refusals` itself: `Accepted` (a chain answers "accepted" when no row of it is true,
by the least counterexample), `ThenIsChain` and `AcceptedIsClear`.

### ManualWorkProofs

`StudioTasksAreSound`: tables only grow and a row never changes, so what a
handler has read is a fact about the tables that nobody takes back (`Tables`,
and what each phase relies on). That a repair's parent was rejected and that an
approval names the response that was accepted follow from the event that was
read, not from the task's present status, which may have moved on.

`ResearchIsWhole`: `ResearchHolds` speaks of a response that is accepted, but an
importer puts its records one by one and others work in between. `ResearchInv`
therefore says of each importer how far its records go (`Progress`), what its
list of questions has established about the store it read (`Knows`), and that
what it has put is still there (`Kept`). A list of questions that ends with
`accepted` has no true row (`Accepted` of `Refusals`); the check on contradictory claims needs that stores are finite.

`PlansAreGrounded`: the same argument for the planners (`PlannerInv`): an accepted
task is backed by a response (`Backed`) whose records are stored (`Holds`), a
record's parent and predecessor are put before it, and a planner owes what it has
not put yet (`Owed`). For the requests that are assembled, `GroundInv` says what
assembly finds and does not ask again: every record is what the policy wants
(`Sober`: no outline without chapters, no chapter or beat without time), cites
claims as claims and facts as facts, and every snapshot of claims was taken of
this very store. `AssemblyChecks` reads the six checks off the chain. Numbered
children have numbers of their own (`NumbersApart`), so `Sooner` sorts the plans
and the request names each of them (`PlacesAreTaken`, `PlansAreSorted`); what takes
time has a child, so the plans' parents are all the beats and theirs all the
chapters, and times add up from plans to chapters (`TotalOfChildren`, `PlansFill`).
`ContextLoads` is where a cited claim is found in the store.

Assumptions: `AgendaAssumption` and `PlanningAssumption`. A behaviour begins with
a store that earlier imports could have filled, the empty one among them, so it
is itself lineage-closed and finite, its records passed the checks of `put` and its
snapshots were taken of it; only an answer makes an accepted revision of a task
(`submit_response`, planner/gateway.py), so an accepted one is not among the states
a topic begins in; and a record's claims and facts are told apart, as the prefixes
`clm_` and `fact_` do that planner/contracts.py asks of their ids (`_pairs`). The
run evaluates both.

### WorkspaceMigrationProofs

`AcceptsOnlyTrees`: whatever workspaces a loader is asked about, it accepts none
that is not a tree whose artifacts have an order and whose policy is the pack's.
The invariant says what the last verdict means, so the argument is about one
load:

* `HierarchyIsATree`: an id means one item when there are no duplicates
  (`IndexedIsTheItem`); the two lists that could hold a sequence or a beat a second
  time are ruled out by the issues of the other direction.
* `ArtifactsAreOrdered`: `Reaches`, the rounds that stand for the recursive `visit`,
  ends closed (`ReachesIsClosed`: a round that adds nothing comes at the latest
  when all artifacts are in) and is the least closed set (`ReachesIsLeast`). So
  what an artifact depends on reaches strictly fewer artifacts, as it reaches
  itself only on a cycle, and that number is the order.
* `PolicyIsThePacks`: from the parity check with the resolver.
* `PartsAreLists`: what `AllOfKind` collects of the documents of a split workspace
  is a list, and its values are those of documents that were loaded.

The assumption, `WorkspacesAssumption`, is what the JSON schemas guarantee of a
workspace that passes them: its fields, two layouts, and lists where lists are
asked for. It says nothing of ids, references or of workspaces that do not fit.

`OutputStaysTogether`: `OutputAgrees` speaks of a directory between calls, and the
four files are written one by one. `OutputInv` adds what is on disk while they
are (`Underway`: every file that is no longer to be written is of the present
outcome, and without a workspace there is none on disk) and that the directory
still agrees until the first of them is written. A crash after that is `torn`,
and only a call that finishes clears it. TLC agrees that `OutputInv` is an
invariant of the run's instance.

### NarrationWorkProofs

`LineageIsOne`, `ReplaysGoBack`, `FilesStayExact` and `AlteredGoesNowhere`: for any
revisions, recordings, declarations and intents, any number of calls with any
genuine, copied or altered objects, whatever these then say, and any damage to stored
bytes. The invariant is `RegistryInv`: whatever was ever returned, also what has since
been forgotten, is `WellMade`; stored bytes were written from something that was
returned; and the files are exact. `OneLineage`, `ReplaysAnOriginal` and
`NothingFromDrift` say what a step makes: each step keeps `RegistryInv` and makes
only what is `TrueToWord`, because an object that was not altered says what it was
registered as (`ObjectRead`). Artifacts that rest on no object taken at its word are
of one lineage for good, and `WellMade` says so. What else it has to say:

* `PaidWasApproved`: a replay copies the call it repeats, and its checks compare
  the two but do not ask for the approval again.
* `AsCompiled`: a loader takes stored bytes back when they say what the compiler
  would say now, so the lineage of what is loaded is that of what was written,
  and a publication's frames are of its result because frames name it.
* `ShowsOnePreview`: a soundtrack is made from a video whose preview may have been
  forgotten, so the video itself has to keep what was checked of the preview.

A materializer or loader is a chain of some dozen conditions, and what its answer
"accepted" says is all the proofs use. `Then` puts parts of a chain together;
`AcceptedIsClear` says that no condition of an accepted chain holds and `ThenIsChain`
that the parts of a clear chain are clear. So there is one lemma for each
materializer, compiler and loader (`RequestAccepted`, ..., `GroupsLoadAccepted`, ...,
`PublicationAccepted`) that reads its chain part by part and says what must be true
of the objects it was given. After that there is one lemma for each action
(`RequestsAreAnswered`, ..., `PublicationAnswered`): it refuses, or registers one
artifact that is well made, from nothing altered, true to the word of what it took at
its word, and as it was declared.

The assumption, `WorldsAssumption`, is that what a process starts from is
`WellMade`. It holds of the empty world, and `NextKeeps` shows that no call leads
away from it, so it says no more than that earlier calls of this code made these
artifacts. TLC evaluates it for the worlds of the run and agrees that `RegistryInv`
is an invariant there.

`LineagesHold`: `LineageHolds` for any narrations, alterations of them, claims and
number of revisions. The invariant is `LineageInv`: the narration of a revision
`Passes` (it is well nested, and no check of a node or token would refuse it), its
views are those of that narration, and the manifest of a successor raises no fault
against the views of the predecessor. Three arguments lead from there to the
property:

* `TextPasses` reads the checks of a text out of `FirstRefusal`. By them siblings
  follow one another (`SiblingsInOrder`, by the smallest node that would not) and
  tokens do (`TokensInOrder`), while a token lies within its sentence, paragraph
  and section (`AncestorsCover`). Of two siblings one of which has a word before
  and one after a word of the other, both are therefore the same (`SameSibling`),
  level by level from the section down: the words of a node are a range.
* Identifiers hash the order and the parent, so no two views of a text are the
  same (`IdsApart`, `ViewsApart`).
* Then a predecessor's node is claimed by one record (`ClaimsAreUnique`) or occurs
  once among the unclaimed (`PickedApart`), never both.

The assumption is `NarrationsAssumption`: what the nesting of a declaration and
the parsers of its fields leave open, before any check. `AlteredAreNarrations`
shows that the alterations tried stay within it.

### Only model-checked

`AttemptsEnd`, `RequestsFinish` and `EveryAttemptEnds`: liveness under fairness
and `ENABLED` are out of the provers' reach. `DivergenceIsReal`,
`GroupsTileSentences`, `NothingIsLeftOut`, `SpansNest`, `PictureFits`,
`AudioNeverPilesUp`: what recursive functions compute over sequences of any
length needs induction over data. `MigratedIsAccepted` and `DestinationsHold`:
statements about everything that the conversion builds by selecting and
flattening lists, whose operators tlapm cannot expand.

No module that is proved about declares a recursive operator.

## Abstractions worth knowing

* Appends land whole or not at all. A process that dies inside one write could
  leave half a line, which every later reader refuses; that is not modelled.
* The media pipeline is one step that yields an output or fails.
* Locked and approved targets are one flag, `sealed`: the code treats them alike
  and nothing changes them once provisioned.
* Responses, requests, revisions, texts and outputs are model values; hashes are
  injective by construction.
* `recover` in `WorkspaceRevisions` moves all staging directories in one step.
* The attempt numbers explored per preview request end at `MaxAttempts`; a
  handler that would need the next one returns (`NumberBeyondBound`).
* Renders run and register one at a time, as the storage manager is called; a
  rollback's own renames do not fail.
* An alteration changes fields and never identifiers or hashes, and one object is
  altered at a time. The run alters one field that a later check reads (the revision
  of a recording; mode and confidence of a request; status, mode and request of an
  execution) or one that nobody reads. Executions of the run are paid or replays: a
  local call passes the same checks as a free one, with no approval.
* An assembly reads the plan tables in one step. The code reads outline, chapters,
  beats and plans with one query each; rows are never changed or removed, so what it
  returns in between is what some earlier tables would have given it.
* A lock file whose removal fails at the end of a transaction (`__exit__`) is only
  modelled as that of a process that died: either way it stays and later attempts end
  with an error. A snapshot or a clean-up that fails after the file was published ends
  in `failing` like the other errors of the render (`AttemptFileFails`).
* The reader of a recording is honest; two reads that lie alike are not modelled.
* Identifier formats, text normalisation, styles, gain tables and report wording
  are left out; JSON schemas are an external check, except what they refuse of a
  migrated workspace. Structure faults of stored bytes are named parts that are
  damaged or not.
* A planned silence that names an unknown sound counts as one at an edge, as in the
  code, and is then found at no place when the transitions are planned.
* The narration's predecessor is whatever object the caller hands in: the code
  asks neither whether it is genuine nor whether it is the latest, so revisions
  form a tree.
* In `TemporalCompile` the compilers follow one another and the first refusal
  ends the run; in the code each is called by itself.
* Two migrations into one directory at once are not modelled. Nor is what
  `_stable_id` does to a slug shorter than 3 or longer than 63 characters, and so
  nothing that the schema says of lengths; a list
  or an object where the source should have a plain value stands for one value
  that is `Wrong`, and a source that is no object is refused before any of this.

## Plan

1. `FullRender`, `OutputTarget`, `DurableQueue`, `PreviewJobs`, `StudioTasks`,
   `WorkspaceRevisions`, `TimingFiles`, `RenderCache`, `AudioIntake` - checked
   and proved.
2. `ResearchStore`, `PlannerStore` - checked and proved.
3. `ArtifactShelf`, `CacheRetention`, `AssetCatalog` - checked; `NothingIsMislaid`,
   `LimitsHold` and `CatalogHolds` proved.
4. `WorkspaceGraph`, `V2Timeline`, `WorkspaceMigration` - checked; `AcceptedIsATree`
   and `OutputAgrees` proved.
5. `NarrationText`, `NarrationRevisions`, `ContractRegistry`, `AlignmentContracts`,
   `CaptionContracts`, `TemporalArtifacts` - checked and proved.
6. `CaptionGroups`, `WordFrames`, `VideoEdl`, `AudioPlan` - checked step by step
   against what the loops have produced so far.
7. To be added if the budget of runs allows: sequence reviews, the workspace job
   journal, the preview runner's timeout.

Not planned: schemas and validators without behaviour over time, benchmarks, the
Studio UI and frame drawing.
