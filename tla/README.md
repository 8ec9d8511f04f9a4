# RevelAI: a TLA+ model of the attempt platform

RevelAI takes a video of a football training exercise, analyses it and, for
verified exercises, ranks the result. The program is a TypeScript monorepo
(`src/`): an API process with a SQLite database, files on a local disk and an
in-memory queue (`src/apps/api`), a web client (`src/apps/web`), a mobile shell
(`src/apps/mobile`) and shared packages (`src/packages`). These modules model the
part whose correctness depends on the order of things: attempts, and everything
that may happen to them between a request of the web page and the deletion of the
last byte.

Paths below are relative to `src/apps/api/src` unless they begin with `src/`.

## 1. Inventory

| Component | State | Operations | Interacts through | What is hard | What makes it correct |
|---|---|---|---|---|---|
| Attempt store: `repositories/sqlite-attempt-repository.ts` | `attempts`, `terminal_results`, `leaderboard_entries`, `processing_recovery_records`, `media_delivery_recovery_records` | create, prepare/attach/roll back media, mark queued, claim/release/record failure/dead-letter/finalize, tombstone, recovery claims | transactions; every other component calls it | any order of calls by several owners; leases that run out under their holder; deletion at any time | results final, deletions permanent, tables agree, stale jobs harmless, an attached upload always tracked |
| Database: `database/sqlite-database.ts` | the file, its ledger of migrations, the write lock | open, check, bootstrap the log, migrate, commit | one file, several processes | a file of any age; two processes opening; a stop inside the transaction; one migration repairs the work of another | whoever holds the file finds it at the last version and sound, or it is refused for a reason it holds |
| Calibration sessions (same repository) | `calibration_sessions`, creation receipts | issue, read, ready, consume in `createAttempt` | transaction of `createAttempt` | retries with an idempotency key, expiry between two calls | one session makes one attempt, one key names one attempt |
| Attempt and upload service: `services/attempt-service.ts`, `services/media-upload-service.ts` | the position in the request | preflight, accept, attach, enqueue, mark, compensate | store, pipeline, queue, cleaner | each await may fail or be the last before a crash; an answer may be lost after the effect | the client's answer is never a lie about a withdrawn upload; no byte and no attempt forgotten |
| Queue: `queue/in-memory-analysis-queue.ts` | `pending`, `subscribers`, `drainScheduled`, `closed` | enqueue, drain, subscribe, close | callbacks of workers, microtasks | overlapping drains, rejection while another drain runs, modes | at least once, no lost wake-up |
| Worker: `workers/analysis-worker.ts` | `started`, `stopping`, `inFlight` | start, stop, deliver, recover | queue, store, processor | wrong-mode jobs, lost claims, retry budget, stop while leases are held | terminal exactly once, stop leaves nothing running |
| C8 recovery runtime: `services/media-attachment-recovery.ts` | `running`, `inFlight`, lifecycle flags; leases on delivery rows | redeliver pass, reconcile pass, register/activate/stop | store, queue, cleaner, hourly timer | works on a snapshot of claimed rows beside requests, workers and scavenger | every stuck row moves on, nothing live is taken |
| Retention: `media/sqlite-retention-repository.ts`, `media/retention-scavenger.ts`, `services/retention-runtime.ts` | `media_retention_records`, `retention_cleanup_records` | schedule, request, list due, delete, acknowledge | disk, store, hourly timer | list, delete and acknowledge are separate; two facts name the same bytes | every byte has a fact; referenced bytes survive until the deadline |
| Upload intake: `http/streamed-multipart.ts`, `media/multipart-intake.ts`, `media/media-pipeline.ts`, `storage/local-media-storage.ts`, `storage/local-frame-extraction.ts` | the stream, the part queue, staged and published files | parse, stage, count, probe, extract, publish, abort, clean up | client, disk, FFmpeg, retention | every await may fail; the client may leave; limits are met in the middle of a stream | all or nothing, and a fact before every file |
| Runtime supervisor and composition: `services/c8-runtime-supervisor.ts`, `startup.ts`, `composition/*` | owner maps, runtimes, timers, hooks | compose, reserve, register, activate, roll back, stop, drain, close | hourly scheduler, database | a second owner, a start that fails half way, stop during a pass | one owner at work; the database is closed last |
| Leaderboard: repository, `src/packages/domain/src/ranking.ts`, the ranking screen of `src/apps/web/src/verified/tracer.tsx` | `leaderboard_entries`, `leaderboard_commit_clock`, the reader's cursor | publish, remove, page | store, HTTP | paging while entries come and go and the server restarts | a reader sees one snapshot, no entry twice or skipped |
| Competitive policy and benchmark: `processing/competitive-policy.ts`, `processing/workflow-benchmark.ts` | receipts, invalidations, policies | store, activate, deactivate, invalidate, look up, benchmark | operators' scripts, finalization | a policy changes between the judgement and the commit | ranked only under a policy that holds at the commit; a receipt stands on measurements |
| Training processors: `services/*-training-*.ts`, `processing/*` | one claimed attempt | observe, judge, score, look up, commit | vision package, domain, policy | failure classes decide retry | an analysis ends; what is ranked was judged valid |
| Vision: `src/packages/vision` | cursor, workers, abort controllers | bounded parallel dispatch with retries, evidence | provider | timeout against retry against batch deadline; calls given up on go on | no overlapping calls for one frame; complete or failed |
| Domain: `src/packages/domain` | none | attempt machine, scoring, ranking | store, services | boundaries in time and distance | no impact or touch counted twice |
| Web attempt flow and screens: `src/apps/web/src` | page, session storage, requests in flight, cameras | create, upload, cancel, reconcile, poll, reset, record, delete | HTTP API, browser | answers of an older generation, reloads, lost answers, a camera that answers late | no training lost, an accepted upload stays, no camera on behind the athlete's back |
| Contracts, config, design system, mobile, scripts | | | | | not modelled, see section 7 |

`PROJECT.json` lists every component with its status, and the hazards: the
places where a test would hardly reach, each with the properties that watch it or
the reason none does.

## 2. Modules

Modules in one row of the table are one tree: each extends the one before it.

| Module | Models | Composes |
|---|---|---|
| `AttemptStore` | the repository under arbitrary callers: every operation in every order | instantiates `AttemptLifecycle` |
| `AttemptLifecycle` | abstract: the life of one attempt as a client of the API may assume it (`src/packages/domain/src/attempt-machine.ts`) | |
| `MediaDelivery` | request, queue, workers, recovery runtime, cleaner, scavenger, disk, faults and crash over the store | extends `AttemptStore`: its operations are the store's actions, conjoined with what the caller does |
| `AnalysisQueue` | the queue's drains and subscriptions and the worker's start, stop, misrouting and retry | instantiates `AtLeastOnceQueue` |
| `AtLeastOnceQueue` | abstract: a job is waiting, held or refused, and leaves only by being acknowledged | |
| `CalibrationSession` | sessions, idempotency keys and the attempts they make | |
| `DatabaseUpgrade` | a file of any earlier version, opened and upgraded by several processes | |
| `SessionDatabase` | a session's transaction needs the lock of a file that is upgraded | extends both |
| `VisionProvider`, `VisionScheduler`, `BenchmarkReceipt`, `WorkflowBenchmark` | a provider call, a batch of them, what a receipt says, the benchmark that earns one | extend each other |
| `WallPassScoring`, `VerifiedEvidence` | passes and score of canonical evidence; how frames become evidence, and integrity | extend each other |
| `CompetitivePolicy`, `Leaderboard` | receipts, invalidations, policies; entries, frozen ranks, and a reader | extend each other |
| `TrainingAnalysis` | analyses from claim to commit, beside operators, deletions and readers; or a benchmark | extends the three trees above |
| `AttemptServer`, `AttemptFlow` | the API as a browser sees it; the tab, its storage and its requests | extend each other |
| `Capture` | the two cameras of the verified tab | |
| `FrameBundle`, `MediaIntake` | selection of frames, receipt and its reading back; one upload request from its first byte to its answer | extend each other |
| `ServiceHost` | applications composed, started, shut down; their runtimes, timers and the database | |
| `ApiProcess` | the upload served by such applications | extends `MediaIntake`, instantiates `ServiceHost` |
| `...Proofs` | the theorems of section 5 | extend what they prove about |
| `MC...` | the constants of the runs | |

Where two trees use one name (`Required`, `ReceiptOf`) the two never meet.

### State and code

`AttemptStore`. `attempt[a]` is the row of `attempts` (status, deletion state,
generation, media, processing lease and whether it is unexpired). `result` and
`board` are `terminal_results` and `leaderboard_entries`. `upload[m]` is what a
prepared upload was handed; `delivery[m]` the row of
`media_delivery_recovery_records`, `recovery[m]` the retry record, and
`transition`, `original`, `frame` the three retention facts of an upload: `none`,
`held` or `due`. Every repository method is one action, because every method is one
`BEGIN IMMEDIATE` transaction. Time is two kinds of step: a lease may run out and a
deadline may pass. A claim needs a lease nobody used before. Delivery rows and retry
records belong to an attempt and a generation: two uploads of one generation share
them (`SameJob`).

`MediaDelivery`. `svc[m]` is the position of the request that uploads `m` between
its awaits, `queue[m]` the copies of its job that are pending, `slot[d]` what
worker delivery `d` holds, `exec` the recovery runtime's pass, `scav` the
scavenger's, `originals` and `frames` the files. A fault is an awaited call that
fails before it has any effect, one deletion of a pair that fails, a lease that expires
under a working holder, or a crash that loses the queue and every position in a request.
That the answer of a call is lost after its effect is not a fault of the model. The state
it would leave at the mark (a marked row, a request that thinks it is not) is reached
when a concurrent redelivery marks the row and the request's own mark fails; the other
calls are synchronous SQLite commits. A worker whose lease ran out and whose successor
has finalized is answered with a conflict (`Conflicts`): its internal failure conflicts
too, and its delivery is rejected.

`AnalysisQueue`. A drain is a process, because `scheduleDrain` clears its flag before
it awaits and so a second drain can start while the first awaits a delivery. The
worker's `deliver` is split at its awaits. A job's tag may be missing, as the queue's
comment on older payloads allows, and then any subscriber may get it.

`CalibrationSession`. One record per session and attempt. `RefuseExpired` models the
answer the client is given and the row that the rolled-back transaction leaves.

`DatabaseUpgrade`. `file` is what is committed, `draft` what the transaction that
holds the lock has written. A file holds one attempt with its delivery rows, one
receipt with its policy and its invalidation, and a few leaderboard entries; of a
stored document only its shape is kept. A migration is one step; a migration that
only adds what is empty is the step from one version to the next. `LeftBy(version)` is
what the programs up to a version may leave in a file. From version 20 on no migration
repairs a delivery, so a file may hold what the repository leaves when it stops at any
point: a live attempt whose only row is `cleanup-recoverable` (with or without its
`queued_at`), or one whose bytes the scavenger deleted. Such files are among the
initial files of the run.

`VisionScheduler`. `worker[w]` is what a worker awaits, `calls[f]` the provider calls
for a frame that have not settled, whether or not somebody still waits for them.
`WorkflowBenchmark` adds the samples its wrapped provider takes of every call that
answers. `TrainingAnalysis` goes through batches of some attempts call by call
(`Stepwise`) and settles others in a step.

`AttemptFlow`. One action per handler. What a page remembers of a request is kept
with the request: `heard` while its controller is the active one, `current` while
neither the flow nor the upload generation moved since it was sent.

`MediaIntake`. `request.pc` is the call the handler is about to make, `parts` the
queue between parser and handler, `file` the media stream, `disk` the five names an
upload may have on disk, `facts` its retention records. `ServiceHost` has the step
each application's start or close is at, its runtimes, the timers the scheduler
holds, the owner maps, and what is at work on the database.

## 3. Runs

| Run | Question | Bounds | Distinct states |
|---|---|---|---|
| `AttemptStore` | do the store's tables stay consistent under any caller, and does it implement the lifecycle? | one attempt, two uploads, two leases, retry budget 2; uploads and leases symmetric | 134,140 |
| `MediaDelivery` | with one fault or crash anywhere, do bytes, facts and attempts stay owned by somebody, and does everything settle? | one upload, two worker deliveries, three leases, two copies of a job, one fault | 140,659 |
| `MediaDeliveryReupload` | can handling one upload harm another of the same attempt? | two uploads, one worker, two leases, deadlines off | 1,534,374 |
| `MediaDeliveryCompensation` | does a failed compensation leave a claimable row, as its comment says? | as `MediaDelivery` | violation |
| `CalibrationSession` | one session, one attempt; one key, one attempt; is an opened file at the last version and sound? | two openers; two athletes, two sessions, one key, three attempts; 2,410 initial files | 475,347 |
| `CalibrationSessionExpiry` | is an expired session recorded as expired, as the spec says? | the sessions alone | violation |
| `AnalysisQueue` | are wake-ups kept, leases worked on, stops complete? Is it an at-least-once queue, is every job analysed, does stop end? | a free and a verified attempt and worker, two drains, two enqueues, retry budget 2, one expiry | 141,681 |
| `TrainingAnalysis` | do calls for one frame overlap, what may a receipt stand on, what may be ranked, what does a reader see? | three verified attempts that race, one free attempt call by call, one with any video of up to five phrases, one demo; four receipts, two policies, pages of one entry; three frames, two workers, two retry delays, two manifests | 707,685 |
| `AttemptFlow` | does a tab lose a training or an accepted upload, or leave a camera on? | two trainings, one fault, two uploads, two visits, three camera requests | 883,498 |
| `AttemptFlowRollback` | does an upload the server took back return to the capture screen, as the spec says? | as `AttemptFlow` | violation |
| `ApiProcess` | is an answered upload whole, has every file a fact, who runs, when is the database closed? | two starts, six bodies, fifteen ways a video may decode, one failing call, one failing removal | 194,247 |
| `MediaIntakeDisconnect` | is a client that leaves before its body is read noticed? | the upload alone | violation |

Each guard that a bound adds names it: `MaxEnqueues`, `MaxExpiries`, `MaxCopies`,
`MaxFaults`, `MaxUploads`, `MaxVisits`, `MaxRequests`, `MaxStarts`, `Horizon`,
`LastInstant`. `MaxRecoveryAttempts`, `WorkerMaxAttempts`, `PageLimit` and the
limits of an upload are the code's own numbers made small. In `ApiProcess` the four
operators `MayCompose`, `MayArrive`, `MayStart` and `StaysUp` keep the product of
host and upload small; no proof expands them.

Why these bounds are enough. The store's rules compare an attempt's generation,
media and lease with those of one caller; a stale caller and a current one are two
uploads and two leases, and rows of different attempts never meet in a rule except
in the recovery claims, whose batches are subsets of the uploads. In `MediaDelivery`
a fault budget of one is what the code compensates for: each step repairs the
failure of one other. Liveness is false with two faults and section 7 says where;
the safety properties are proved for any number. Two drains are
enough because a drain interacts with others only through the pending list and the
flag. Two openers are the smallest number that can race for the lock, and a
migration depends on one file only. Three ranked attempts are what it takes for one
to enter, one to leave and one to be read in between. Six bodies are those the
intake tells apart: accepted, too long for a file, of two parts and above the limit of
the envelope, cut off, an empty file, and no part at all; fifteen decodings are one for
each reason to accept or refuse a video of either mode. Deadlines are off in `MediaDeliveryReupload` because
the scavenger and its races are the subject of `MediaDelivery`. What is a theorem of
section 5 does not rest on any bound.

In `SessionDatabase` sessions are made in a new file only, and a file holds one
attempt, one receipt and a few entries. `AttemptFlow` goes either through requests or
through the camera in one behaviour, since the two do not share state.

Deadlock checking is off in every run: a state where nobody wants anything and all
bytes are gone is a normal end of the modelled system.

### Fairness

Only what the process does by itself is fair: a request that started continues,
a worker's processor answers (frame extraction is killed after 30 s,
`storage/local-frame-extraction.ts:226`, and provider calls run under the request
timeout and batch deadline of `src/packages/vision/src/scheduler.ts`), the hourly
timers fire, microtasks run, a page that shows a pending attempt polls, an
application that starts or closes goes on, leases and deadlines that can run out do.
No fairness is given to clients and athletes, operators, faults, starts and stops.
Weak fairness suffices everywhere: a step of these processes stays possible until the
process takes one.

### What the violations show

* `CalibrationSessionExpiry`: `readyCalibrationSession` and
  `consumeCalibrationSession` set the row to `expired` and then throw inside
  `#transaction`, which rolls the write back. `src/docs/specs/2026-08-30-revelai-mvp.md:103`
  says the session *transitions* to `expired`. The answer given is right and
  every read compares `expires_at` again, so only the stored state differs.
* `MediaDeliveryCompensation`: the recovery runtime redelivers and marks a pending
  row (a request's row is pending from attach on, and the runtime does not know
  that the request is alive); then the request's own enqueue fails and it begins
  compensation on a row that already carries `queued_at`. The row becomes
  `cleanup-recoverable` with `queued_at` still set, which
  `projectMediaDeliveryRecovery` refuses as corrupt, on every later claim of any
  batch the row is in. `services/attempt-service.ts:129` says the fact
  "remains claimable".
* `AttemptFlowRollback`: a page reads an upload as received before its job is
  queued, moves on to waiting and drops its file. The enqueue fails, the server takes
  the upload back, and every poll now answers `awaiting-upload`, which `onDecision`
  (`src/apps/web/src/verified/tracer.tsx:333`) only stores. The page waits for ever,
  although `src/docs/specs/2026-08-30-revelai-mvp.md:184` calls the retry safe.
* `MediaIntakeDisconnect`: `prepared.failure` is read once, before the session is
  opened (`http/streamed-multipart.ts:117`), and the parser attaches its own listeners
  only when the first part is asked for. A client that leaves in between raises no
  further event; the handler waits for a part for ever. The same line of the spec says
  that a cancellation the server observes aborts the request.

## 4. Properties

Each property is stated in words above its definition. By subject:

* What a client was shown stays: `OutcomeIsFinal`, `NoResurrection`,
  `TerminalTablesAgree`, `LeaseHeldIffProcessing`, and `ImplementsLifecycle` for all of
  an attempt's life.
* Jobs name (attempt, generation) only, so a job can outlive its upload.
  `DeliveriesIdentifyUploads` says why it is harmless: one row per generation, a row
  for every attached upload, and a job that can be claimed names the attached media.
* Bytes: `ReferencedBytesSurvive`, `EveryByteHasARetentionFact` and
  `BytesAreEventuallyDeleted` across requests, workers and passes; `EveryFileHasAFact`,
  `UploadIsAllOrNothing` and `AttachedBytesAreThere` within one upload.
* Promises to the client: `EnqueuedNotWithdrawn` (the "uncertain" answer is honest
  only if the upload is not taken back), `SessionMakesOneAttempt`, `KeyNamesOneAttempt`,
  `ExpiredSessionStaysUnused`.
* `UpgradeIsSound`: 23 migrations, some of which repair what others left. Who holds the
  file finds it at the last version and as sound as the program keeps it while it runs
  (`DeliveryIsSound` and its neighbours). The transaction that upgrades a file from before
  version 20 promises more, because it rewrites every delivery (`DeliveriesAreRepaired`):
  live work owns its bytes and is to be delivered, and no row is one at which a claim
  throws. One from before version 18 numbers the ranking in order (`RankedInOrder`). A
  file is refused only for what it holds.
* The queue's hand-written scheduling: `NoLostWakeUp`, `LiveLeaseIsWorkedOn`,
  `StopDrainsEverything`, `ImplementsAtLeastOnce`.
* What is ranked: `RankedUnderCurrentPolicy`, `ReceiptIsEarned`,
  `NoImpactCountsTwice`, `PagesShowOneSnapshot`, and under them `NoOverlappingRequests`.
* The tab: `TrainingIsNeverLost`, `AcceptedUploadStays`, `CameraOnlyWhileShown`,
  `OnlyFullRecordings`.
* The process: `OwnerRunsAlone`, `DatabaseOutlivesItsUsers`.
* It ends: `AttachedUploadsSettle`, `EnqueuedIsAnalysed`, `StopEnds`, `AnalysisEnds`,
  `PendingEnds`, `UploadEnds`, `CloseEnds`.

Each property of a passing run has a mutant: a plausible bug of the code (a dropped
guard, a missing reset), written beside the definition it replaces, under which TLC
finds the property violated.

## 5. Proofs

Every theorem holds for every value of the constants that their assumptions allow;
the assumptions are listed at the end of this section. An invariant that a run checks
is seldom inductive; where the table says "the inductive invariant", TLC checked it
on the run's instance before it was proved.

| Module | Theorem | States |
|---|---|---|
| `AttemptStoreProofs` | `StoreInvariant` | `StoreInv`, the inductive invariant |
| | `TypeCorrect` | `TypeOK` |
| | `LeasesMatchStatus` | `LeaseHeldIffProcessing` |
| | `DeletionIsPermanent` | `NoResurrection` |
| | `TerminalTablesConsistent` | `TerminalTablesAgree` |
| | `DeliveryRecordsAreSound` | `DeliveriesIdentifyUploads` |
| | `ResultsAreFinal` | `OutcomeIsFinal` |
| | `MediaChangesGeneration` | other media come with another generation |
| | `FilesAreLeftSound` | the rows of an attempt are always those `UpgradeSound` assumes of a file of version 20 or later |
| | `StoreImplementsLifecycle` | every step of the store is a step of `AttemptLifecycle` or a stutter |
| `DeliveryProofs` | `DeliveryInvariant` | `DeliveryInv`, the inductive invariant |
| | `DeliveryUsesTheStore` | every behaviour of the delivery is one of the store |
| | `AnalysableBytesSurvive` | `ReferencedBytesSurvive` |
| | `BytesHaveRetentionFacts` | `EveryByteHasARetentionFact` |
| | `HandedOverStaysAttached` | `EnqueuedNotWithdrawn` |
| `SessionProofs` | `SessionInvariant` | `SessionInv`, the inductive invariant |
| | `SessionUsedOnce` | `SessionMakesOneAttempt` |
| | `KeysAreIdempotent` | `KeyNamesOneAttempt` |
| | `ExpiryIsFinal` | `ExpiredSessionStaysUnused` |
| | `FileKeepsSessions` | the sessions in an upgraded file behave as the sessions alone |
| | `UpgradeSound` | `UpgradeIsSound` |
| `QueueProofs` | `QueueInvariant` | `QueueInv`, the inductive invariant |
| | `WakeUpsAreKept` | `NoLostWakeUp` |
| | `LeasesAreWorkedOn` | `LiveLeaseIsWorkedOn` |
| | `StopIsComplete` | `StopDrainsEverything` |
| | `QueueIsAtLeastOnce` | every step of the queue is a step of `AtLeastOnceQueue` or a stutter |
| `TrainingProofs` | `TrainingInvariant` | `TrainingInv`, the inductive invariant |
| (`SchedulerProofs` has its lemmas) | `CallsNeverOverlap` | `NoOverlappingRequests` |
| | `ReceiptsAreEarned` | `ReceiptIsEarned` |
| | `ImpactsCountOnce` | `NoImpactCountsTwice` |
| | `RankingHoldsAtCommit` | `RankedUnderCurrentPolicy` |
| | `PagesAreSnapshots` | `PagesShowOneSnapshot` |
| `ProcessProofs` | `UploadIsInvariant` | `UploadInv`, the inductive invariant of an upload |
| | `AnsweredUploads` | `UploadIsAllOrNothing` |
| | `FilesHaveFacts` | `EveryFileHasAFact` |
| | `AttachedBytes` | `AttachedBytesAreThere` |
| | `HostIsInvariant` | `HostInv`, the inductive invariant of the applications |
| | `OwnerAlone` | `OwnerRunsAlone` |
| | `DatabaseOutlives` | `DatabaseOutlivesItsUsers` |
| `WebProofs` | `PanelsInvariant` | `PanelInv`, the inductive invariant of the cameras |
| | `CameraIsShown` | `CameraOnlyWhileShown` |
| | `RecordingsAreFull` | `OnlyFullRecordings` |
| | `FlowInvariant` | `FlowInv`, the inductive invariant of a tab and the server it sees |
| | `TrainingsAreKept` | `TrainingIsNeverLost` |
| | `AcceptedUploadsStay` | `AcceptedUploadStays` |

### The arguments

**The store.** `StoreInv` is the conjunction of `TypeOK`, `LeaseHeldIffProcessing`,
`DeletionHides` (what is left of a deleted attempt, in terms of rows instead of
enabled operations), `TerminalRows` (status, result and board row by row, which also
says that a result is never present without its status) and `TrackingInv`. The last
is the heart. `UniqueRows`: two rows of one attempt never have the same generation.
`BoundedRows`: a row's generation is not zero and not ahead of its attempt's.
`Tracked`: the media of an attempt that waits for a worker or is held by one is an
upload of the current generation with a row. Generations never go down and a row
keeps the one it was written under, so a new row, written for the attempt's newest
generation only where no other has it, keeps the three; together they say that an
upload whose job can be claimed is the attached one. A step changes one attempt, one
upload, or a batch of leases on rows; lemmas by kind of step show what it leaves alone,
and steps that only touch retention facts and row leases (`Quiet`) keep everything.
`FilesAreLeftSound` adds `RowsAreSound`: an undelivered row belongs to the upload that is
attached or claimed, and its flags are those of its state. Nothing is said there of a row
that a compensation has begun to withdraw, nor of retention facts: the recovery may stop
before the rollback, and the scavenger does not ask whether somebody still waits.

**The delivery.** Every step is a step of the store or leaves it alone, so `StoreInv`
holds. What can go wrong is that an actor acts on a row it read several steps ago, and
`DeliveryInv` says what it may still rely on: `ActorsHaveWork` and `RowsAgree` tie the
positions of requests, workers, runtime and scavenger to the tables; `RequestsKnow`,
`RuntimeKnows` and `ScavengerKnows` say which upload each of them holds and that
nothing it will delete can become attached again; `AcknowledgedAreGone` that a fact
is dropped only after its bytes; `BytesInv` that bytes were accepted, that what may be
attached exists, and the two properties themselves. Most steps of the store are `Gentle`
or `Calm` (they attach nothing and withdraw no fact), and one lemma covers all of those;
three steps of the request, preflight, acceptance and attachment, are treated one by one.

**Sessions and upgrades.** `SessionInv` adds to the types and to
`SessionMakesOneAttempt` that a key of an athlete names one attempt, and that every
answer given under a key still describes it (`KeysAreAnswered`). For the file, `LeftBy(v)` describes what the programs up to version
`v` leave behind. `LEMMA Migrates`, in 23 parts, shows that migration `v` takes a file
of `LeftBy(v)` to one of `LeftBy(v + 1)` and keeps what a refusal would show;
`LEMMA MigrationRepairs` that the repairs of versions 18, 19 and 20 are done and no
later migration undoes them;
`RefusedIsUnreadable` that whatever makes a migration refuse is in the committed file;
`UpgradedIsReadable` that the last version has no such thing. One lemma is arithmetic: in
a finite table with distinct identifiers the number of older rows tells rows apart, so
the unique index of migration 18 never refuses. `UpgradeInv` then follows the lock: one
opener has it, its draft differs from the file only by migrations, and the file moves
when the draft is committed.

**The queue.** `SubscribersRun`, `CallbacksHaveWorkers` and `ClaimsAreWorkedOn` relate
drains, subscriptions and workers. `NoLostWakeUp` is inductive with them: whoever puts a
job back, subscribes or enqueues schedules a drain, or a drain that runs will look at
the place it left. The refinement counts, for each attempt, the jobs
that are pending, in a callback, and refused but not yet put back, and maps the counts
to the abstract queue's `waiting`, `held` and `refused`.

**Batches and benchmarks.** A batch's invariant says which frames the workers own:
`FramesAreTaken` (below the cursor and by nobody else: `WorkersHaveOwnFrames`), frames
ahead of the cursor are untouched, a call under way has a caller or was given up on in
a failed batch (`CallsAreSingle`, `CallsHaveCallers`), and a complete batch has the
result of every frame (`ResultsAreInPlace`, `CompleteIsCorrelated`). On it rests
`BenchInv`: while nothing failed, a frame has one sample of every earlier batch and one
more once it answered, so a receipt stands on them all.

**Analyses and ranking.** `PolicyInv` says that whatever is stored as a receipt holds by
its schema; `BoundActivationsStay` that an activation a result was scored under is never
removed, only made inactive; `ScoredIsValid` that only valid evidence has a score.
Scoring is proved for every evidence: a completed pass takes the first impact after its
touch and the first return before the next touch, and accepted rows are spaced.

**The board and its reader.** `BoardInv` says that scores and instants are numbers
(`CandidatesFit`: the score of any accepted evidence is an integer, since its contacts
are finitely many and no divisor is zero), that an attempt has one entry, with a
sequence that was reached (`BoardFits`), that one request is under way, and that what a
cursor selects of the board now is what is left of the list its reader began with
(`CursorSelects`); an entry published later has a higher sequence. The order of a list
is defined by counting the rows before each row, so that no induction over sorting is
needed: in a finite set of distinct attempts the counts are all different
(`RankedRows`). A page is a beginning of the list (`FirstRows`), and what follows a
cursor continues it (`PagesJoin`).

**An upload.** `UploadInv` says of each point the request can be at what is on disk, which
records cover it and what the client sent: `NothingYet`, `FramesByStep`,
`OriginalByStep`, `ReceiptByStep`, `BytesAreCounted`, and for the end `AttachedIsWhole`
and `RefusedIsGone`. `PassKnows` says the same of a retention pass. That a receipt reads
back as the selection it was made of is a lemma about sequences.

**The host.** `HostInv` ties each application's stage to its runtimes
(`RuntimesFit`, `UsersFit`), both owner maps to the applications (`OwnersHold`), and says
that one application at a time starts or closes (`OneAtATime`). Every step moves one
application; one lemma says what the others keep. `DatabaseOutlivesItsUsers` names two
cases in which something is left at work; they are in section 7.

**The cameras.** `PanelInv` says that a panel's state is what its timers and its recorder
do (`PanelIsConsistent`), that a panel which is not shown has none of them, that at most
one request for a camera will be heard, by a panel that waits and has no camera yet
(`OnlyWaitersHear`), and that a running camera is the panel's (`StreamIsHeld`). A request
outlives its panel; that nobody hears it is what stops a late camera.

**A tab.** `FlowInv` is about the page, its storage, the requests in flight and the
server together. `CallsFit` says of each request that what it asks about exists and that
its answer was so when it was given and stays so: trainings are only made, moved and
deleted. `Expected` says where the page waits for an answer it would heed, one at a time
for each question, and `Listening` that the requests of an effect are heard only on its
screen: with `PageFits` this is all that `AcceptedUploadStays` needs, since an earlier
reconciliation is heeded only before the upload that followed it, or after one that
overtook it. `TrainingIsNeverLost` needs the keys: `KeysAreKept` says that a training of
this tab carries a key the tab used, that a key made one training, and that every used
key is the stored one or `Settled`, that is, its training is deleted or the athlete left
it. Keeping that true needs to know why the storage may be cleared: `OwnerIsKept` says
that the training stored as the owner's, the one on the screen and the one being
recovered all belong to the stored key (or are gone, with no key stored), that a creation
under way asks with the stored key, and that a page which must clean the storage has a
stored key that is settled.

### Assumptions

`StoreAssumption`: every upload belongs to an attempt, the null values are not
values, the retry budget is positive. `CalibrationAssumption`, `QueueAssumption`,
`SchedulerAssumption`, `BenchmarkAssumption`, `AnalysisAssumption`, `IntakeAssumption`,
`HostAssumption`, `BundleAssumption`, `LeaderboardAssumption`, `PolicyAssumption`,
`CaptureAssumption`, `ServerAssumption`, `FlowAssumption`,
`EvidenceAssumption`, `RuleAssumption` and `ReceiptAssumption` are of the same kind:
types, null values that are not values, positive numbers, a minimum below its maximum,
a body that ends once and at its end. Every named assumption is evaluated by TLC in a run.

`FileAssumption` says more, and `UpgradeSound` rests on it: a file with a valid ledger is
one that the programs up to its version leave behind (`LeftBy`). Its conjuncts come from
three places. Some are constraints of the tables of that version, or what an earlier
migration wrote. What it says of delivery rows from version 20 on (`DeliveryIsSound`) is
what the attempt repository leaves wherever it stops; for the program of this commit
that is the theorem `FilesAreLeftSound`, with each attempt's rows read as a row of the
file. The rest is how the repository's other statements write sound documents, policies
and ranking numbers. The sources of the programs of version 20 to 22 are not in the
repository; of them, and of every older program, `LeftBy` is an assumption. A file
edited by hand, or damaged, is outside.

## 6. Model-checked only

* Liveness and everything with ENABLED: the seven properties listed last in section 4,
  and the fairness of both abstract specifications. The prover handles neither.
* That the violations are reachable is shown by their traces.

No module declares a RECURSIVE operator, which would keep the SMT back end from every
module that reaches it.

## 7. Not modelled, and known limits

What the models leave out, or take as given:

* `MediaDelivery`: a request is shorter than its first retention deadline (the guard of
  `Deadline`). The code has no such limit; `MediaIntake` lets that deadline pass in
  the middle of a request, once its parser is attached.
* `SessionDatabase`: a migration is one step, and so is the exclusive bootstrap of the
  log. The deliveries of a file of version 20 or later are not repaired again: an
  unfinished compensation, a row that kept `queued_at` (section 3) or an attempt whose
  bytes are deleted stays as it is when the file is opened, and `UpgradeIsSound` does not
  say otherwise. Version 14 refuses receipts of a predecessor
  schema, and version 19 resets a live attempt that also has a delivery row of an older
  generation; both are by design and both are in the model.
* `VisionScheduler`: calls of a batch that is retried later are not counted with the
  calls of the next. The external abort signal, which no processor passes, is left out.
* `WorkflowBenchmark`: the 3,200 samples, percentile and limits are scaled down; digests
  and the exclusive publication of the receipt file are left out. A call that is late or
  given up always fails its batch, so the count of samples is the code's second line of
  defence.
* `CompetitivePolicy`: rows that are corrupt on disk. A failed policy look-up is called
  retryable by `processing/competitive-policy.ts` and made terminal by
  `services/verified-training-analysis.ts`; the model follows the second.
* `VerifiedEvidence`: homography, projection, rejection of outliers and collinear
  corners are numeric and decide what a frame of the model shows. A contact and a wall
  impact in one frame are answered `calibration_not_verified`, as in the code.
* `Leaderboard`: encryption of cursors and the exhaustion of nonces; a cursor opens if
  it was sealed by the key of the living process.
* `MediaIntake` and `FrameBundle`: collisions of identifiers, the limits inside Busboy,
  the structure of a JPEG, the pre-roll digest of the first receipt version.
* `AttemptFlow`: one mode per tab; storage and state change together within a handler;
  identical requests in flight are merged; gates and back buttons are left out.
* `Capture` models the panel the product mounts (`production-capture.tsx`), not the
  review harness beside it (`capture.tsx`).
* The `available` hook of the queue is constant in every composition. Observation and
  competitive-video retention records, batch limits, the exact arithmetic of deadlines,
  JSON validation of stored rows, capability tokens.
* Schemas and routes as such, configuration, design tokens, the mobile shell, scripts
  and demo have no state of their own that order could break.

What the code does that a reader may not expect, as the models show it:

* Finalization requests no clean-up of the analysed media, although
  `src/docs/specs/2026-08-30-revelai-mvp.md:291` and `src/docs/adr/` speak of deletion
  after the result; the bytes wait for the 23-hour deadline.
* The redelivery claim and a worker's acknowledged duplicate can strand an attempt
  after two faults (a row marked queued, and the only live lease dying later).
* A row that becomes `cleanup-recoverable` when both its retention facts are
  already acknowledged is retried for ever without harm.
* A scavenger's stale list can delete an original that was attached after it was
  listed; `AttachedBytesAreThere` says that nothing else can.
* If the workers of an application cannot be created, its immediate passes are
  abandoned; and Fastify does not wait for the handler of a client that is gone. These
  are the two exceptions of `DatabaseOutlivesItsUsers`.
* After the athlete leaves the capture panel for the ranking and comes back, the
  panel's own copy of the recording is gone but the page still holds it: a new recording
  does not clear it, and "Enviar vídeo" stays enabled while it runs. A recording that
  ends during an upload aborts that upload and sends the new file.
* That restarted upload has no generation of its own, so the answer of a reconciliation
  that was under way can take a page that shows it as received back to the capture
  (`page.overtaken`; `src/apps/web/src/verified/tracer.test.tsx:1891` tests the case in
  which the athlete sends anew).

Four hazards have no property, each for a reason given in `PROJECT.json`: the two-fault
case above, a retention batch full of records that always fail, the creation of a
verified attempt without an idempotency key, and the count of failures under a lost
lease, of which only the budget is proved (`TypeCorrect`). In `CalibrationSession` the
instant of expiry is one step, so the comparison at that instant is read, not checked.

## 8. Plan

Done, in this order: the store with its abstract lifecycle and its proofs; delivery;
sessions; queue; scheduler, evidence, scoring, policy, benchmark and ranking, composed
in `TrainingAnalysis`; the web flow and the cameras; upload intake; the host and the
process; database upgrades; and the proofs of section 5.

Left: the two faults that strand an attempt (section 7) could be a run of their own.
