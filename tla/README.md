# Verification of Open Outdoor

TLA+ models of the stateful core of Open Outdoor, TLC configurations that check
them on small instances, and TLAPS proofs of what matters most. The code is the
reference: every definition listed under `map` in `PROJECT.json` names the lines
it stands for.

Contents: [the system](#the-system), [modules](#modules),
[the recording pipeline](#the-recording-pipeline),
[the state package store](#the-state-package-store),
[catalog activation](#catalog-activation), [connectors](#connectors),
[laptop transfer](#laptop-transfer), [the laptop's server](#the-laptops-server),
[services of the app](#services-of-the-app), [runs](#runs),
[proofs](#proofs), [divergences from the documentation](#divergences-from-the-documentation),
[what is left out](#what-is-left-out), [plan](#plan).

## The system

Open Outdoor is a local-first hiking application: a React Native application
over TypeScript packages and two native Swift modules. There is no remote server. State
lives on the phone (SQLite, files, an in-memory library); a laptop may offer map
packages over a paired connection.

| Component | State it keeps | Operations | Talks to |
|---|---|---|---|
| Native tracker and active spool (`OpenOutdoorTrackerSpike.swift`) | manifest file, JSONL spool, `isPaused`, sensors, next sequence | start, pause, resume, stop, recover, discardRecovery, readBatch, acknowledge/seal, location and permission callbacks | CoreLocation; the adapter through the native module |
| Native tracker adapter (`application.ts`) | session id, acknowledged sequence | start, pause, resume, recover, readPendingBatches, acknowledge, finish, finalize | tracker, SQLite checkpoint |
| Recorder state machine (`tracking/src/recorder.ts`) | kind, session, committed samples | start, pause, resume, interrupt, recover, commit, finish | called by the coordinator only |
| Recorder coordinator (`recorder/src/index.ts`) | `synchronizationDirty`, `stoppedSession`, `pendingFinish`, the promise queue | start, pause, resume, recover, synchronize, finish | machine, adapter, library, persistence |
| Private repository (`storage/src/private.ts`) | activities, samples, derived revisions, journal | createActivity, appendSamples, updateActivityLifecycle, saveDerivedRevision, savePlaceJournal | coordinator, journal service |
| Persistence queue (`privatePersistence.ts`) | FIFO of writes | commit, placeJournal.save | SQLite private store |
| SQLite private store (`OpenOutdoorPrivateStore.swift`) | `private_snapshot`, `tracking_checkpoint` | load, commitPrivateSnapshot, commitTrackingSnapshot | disk |
| App recording screens (`App.tsx`) | `recorderState`, `captureOperation` | start, pause, resume, finish, recover, discard, five-second refresh | coordinator, tracker |
| Catalog activation (`catalog-activation.ts`) | staging record, active pointer, accepted version | activate, resume after interruption, roll back | trust, remaps, private data |
| State package store (`OpenOutdoorStatePackages.swift`) | registry with previous copy, package files, trust floors | install, activate, rollback, remove, quarantine on load | update trust, laptop client |
| Laptop transfer (`OpenOutdoorLaptopPackages.swift`, `tools/laptop`) | pairing, session, offered list, download under way | pair, list, download, cancel, disconnect, revoke | state package store |
| Connector operations (`connector-operations.ts`) | checkpoint, failures in a row, last good dataset | run with conditional request, accept, reject, back off | sources |
| Ingestion (`ingestion.ts`) | raw artifacts and metadata | stage, commit, recover | disk |
| Laptop server (`laptop-package-server.mjs`, `laptop-update-signing.mjs`) | lock, signing identity with a revision, hotspot helper | start, reserve and sign, serve, stop | phones |
| Location access (`useLocationAccess.ts`) | the permission shown, a revision of reads | refresh, event, request | CoreLocation |
| Imported map datasets (`useImportedMapDatasets.ts`) | `datasets.json`, the list shown, a draft | load, pick, commit, toggle, remove, reset | disk |
| Private package transaction (`private-package-transaction.mjs`) | directory, staged directory, journal | stage, activate, recover | a maintainer's scripts |
| Backup (`backup/src/index.ts`) | staged restore | create, inspect, stage, commit, roll back | private repository |
| Foreground task (`foreground-task.ts`) | running, eligible, pending request | request, setEligible | hooks of the application |

The remaining parts (acquisition, entity resolution, package builders, map,
import and export, statistics, tools, Python) transform data without state of
their own between calls; `PROJECT.json` lists them all with the reason each is
or is not modelled.

What is hard here, and what makes each part correct:

- *Recording.* Location callbacks, user requests, a refresh timer, journal
  saves and a coordinator that awaits native calls interleave; the process may
  end anywhere; a write may fail, or succeed and be reported as failed. Correct:
  no observation that reached the disk is lost, nothing is acknowledged before
  it is durable, a spool disappears only for an activity that is stored
  complete, and every retry goes on where it stopped.
- *Catalog activation.* Copying, verification and the pointer switch are
  separate durable steps. Correct: the active pointer is always a complete and
  verified catalog or the previous one, the accepted version never goes down,
  private data is never changed.
- *State packages.* A registry, files and trust floors are saved one after the
  other. Correct: no untrusted or older package becomes active, an interrupted
  installation leaves the previous one in use.
- *Laptop transfer.* Callbacks of a cancelled transfer arrive late. Correct:
  they change nothing of a later session.
- *Connector operations, ingestion.* A step fails between two durable ones.
  Correct: the last good output stays and is traceable, what the source was told
  is done follows the output and can be replayed.
- *Laptop server.* Servers start, die and overlap. Correct: one at a time signs,
  a phone never meets a revision that goes back, the hotspot is left as found.
- *Services of the app.* Timers, native answers and file calls race AppState and
  the end of the process. Correct: the display refresh neither dies nor doubles,
  the permission shown is the one granted, an imported dataset stays.

## Modules

| Module | What it is | Code |
|---|---|---|
| `ActiveSpool` | the spool file as a value: its readable prefix and how its end is damaged; what inspect, readBatch and append do with it | `OpenOutdoorActiveSpool` |
| `PrivateSnapshot` | the private library as a value and the operations that change it | `storage/src/private.ts` |
| `RecordingPipeline` | tracker, adapter, state machine, coordinator, persistence queue, store and the App's recording handlers, composed | the first eight rows of the table above |
| `HikePromise` | what recording promises a user, without the machinery; `RecordingPipeline` implements it | abstract |
| `MCRecordingPipeline`, `MCPipeline*.cfg` | small instances | |
| `RecordingClaims`, `ClaimTornTail.cfg` | a sentence of the documentation that the code does not satisfy | |
| `RecordingPipelineProofs` | proofs of its types and of the durability invariants | |
| `RecordingPromiseProofs` | proofs that nothing is lost, that what is sealed is saved, and of the refinement of `HikePromise` | |
| `StatePackages` | the store of downloadable state maps with its registry, files and trust floors | `OpenOutdoorStatePackages`, `OpenOutdoorStateUpdateTrust` |
| `MCStatePackages`, `MCStatePackages.cfg`, `ClaimReinstall.cfg` | small instance, and a sentence the code does not satisfy | |
| `StatePackagesProofs` | proofs of all its safety properties | |
| `CatalogActivation` | the activation of a reference catalog, one step per call that changes the repository | `storage/src/catalog-activation.ts`, the decision of `config/src/catalog-trust.ts` |
| `PublishedCatalog` | what an activation promises; `CatalogActivation` implements it | abstract |
| `MCCatalogActivation`, `MCCatalogActivation.cfg`, `ClaimRollback.cfg` | small instance, and a sentence the code does not satisfy | |
| `CatalogActivationProofs` | proofs of its invariants and of the refinement | |
| `ConnectorRuns`, `MCConnectorRuns` | monitored connector runs over the ingestion pipeline and the raw store | `data/src/connector-operations.ts`, `ingestion.ts` |
| `ConnectorRunsProofs` | proofs of all its safety properties | |
| `LaptopTransfer`, `MCLaptopTransfer` | the phone's client, the hooks that drive it, and the answers of laptops | `OpenOutdoorLaptopPackages.swift`, `useStatePackages.ts`, `useLaptopPairing.ts`, `laptop-package-server.mjs` |
| `LaptopTransferProofs` | proofs of all its safety properties | |
| `UpdateSigner`, `MCUpdateSigner`, `ClaimOneWriter.cfg` | the laptop's server from start to end | `laptop-update-signing.mjs`, `laptop-package-server.mjs`, `laptop-hotspot.mjs` and its helper |
| `UpdateSignerProofs` | proofs of its types, of the single writer, of the revisions and of the hotspot | |
| `AppScreens`, `MCAppScreens` | the display refresh, location access and imported datasets beside AppState and the process | `foreground-task.ts`, `App.tsx`, `useLocationAccess.ts`, `useImportedMapDatasets.ts` and their native modules |
| `AppScreensProofs` | proofs of all its safety properties | |

## The recording pipeline

### State

| Variable | Code | Lost on a crash |
|---|---|---|
| `manifest` | `active-session.json` | no |
| `spool` | the JSONL file the manifest names: `present`, `good` (observations in the readable prefix), `tail` | no |
| `store` | the row of `private_snapshot` | no |
| `checkpoint` | `tracking_checkpoint.highest_sequence` | no |
| `native` | the open spool, `isPaused`, sensors, last sequence | yes |
| `sm` | `RecorderStateMachine` | yes |
| `tracker` | `NativeTrackerAdapter` | yes |
| `repo` | `InMemoryPrivateRepository` | rebuilt from `store` |
| `co` | `synchronizationDirty`, `stoppedSession`, `pendingFinish` | yes |
| `op` | the coordinator operation under way, the await it waits at, and the snapshot it queued | yes |
| `ui` | `recorderState` of App | chosen anew by the launch effect |
| `issued`, `faults`, `appended`, `discarded`, `savedNotes` | history: session ids used, faults so far, how much of each hike reached the disk, hikes discarded by the user, journal entries confirmed | |

### Grain of atomicity

All calls of the tracker and of the store run on the main queue
(`OpenOutdoorNativeSpikesModule.swift`), where the sensor callbacks run too, so
one native call is one step. JavaScript between two awaits touches no native
state and belongs to the step of the call it follows. `serialize` in the
coordinator runs one operation at a time, so there is one `op`. Everything else
(callbacks, requests, journal saves, a relaunch) may happen between any two
steps of an operation. Journal saves and checkpoints go through one FIFO queue.
A save is one step: the only state it reads is the library at the time it runs.
A checkpoint takes its snapshot of the activities when it is queued and the
journal when it runs; both moments are separate steps of the model.

### Actions

| Action | Handler |
|---|---|
| `Locate`, `AppendFails`, `LosePermission`, `SensorFault` | location, altimeter, authorization and error callbacks |
| `Relaunch` | the process ends (perhaps in an append) and the launch effect runs |
| `StartHike` then `SaveLifecycle` | `startUnlocked` |
| `RefreshTick`, then `ReadFails`, `ReadNothing` or `ReadBatch`, then `SaveBatch` | `synchronizeUnlocked` |
| `PauseRequest`, read and save, `HaltSensors`, `SaveLifecycle`, then the drain | `pause` in App and `pauseUnlocked` |
| `ResumeHike`, `ResumeFails`, `SaveLifecycle` | `resumeUnlocked` |
| `SuspendSensors`, `ShutdownSensors` | `suspendAfterFailure` |
| `RecoverHike`, `RecoverRefused`, `LoadCheckpoint`, one synchronization | `recoverUnlocked` |
| `DiscardHike` | `confirmDiscard` |
| `FinishRequest`, `StopSensors`, reads and saves, `CompleteFinish`, `SaveFinish`, `SealSpool` | `finishUnlocked` and `commitPendingFinish` |
| `SaveNote` | `placeJournal.save` |

### Faults

`Faults` names the kinds a run admits, `MaxFaults` how many.

- `store`: a commit or query reports an error. A commit may nevertheless have
  happened, because the file policy is applied after COMMIT.
- `append`, `torn`: writing an observation fails; with `torn` a write that is
  cut short may leave a part of the line, or all of it but the newline.
- `permission`, `sensor`: authorization withdrawn, fatal CoreLocation error.
- `crash`: the process ends and starts again.
- `seal`, `unlink`: sealing fails before it removed a file, or between the
  removal of the spool and that of the manifest (discarding too).

## The state package store

A package is two files named by their content: the SQLite catalog and the tiles
extracted from it. What is shown is decided by a registry, `active.json`, with a
copy, `active.previous.json`. Packages come from the allowlist of the build, or
from a laptop that signs them; the Keychain keeps the signing key and, per
state, a floor: the newest update accepted.

| Variable | Code | Lost on a crash |
|---|---|---|
| `active`, `backup` | `active.json`, `active.previous.json` | no |
| `sqlite`, `tiles` | the contents whose file is there and intact | no |
| `floor`, `signer` | `Registry.floors`, `Registry.keys` in the Keychain | no |
| `loaded` | `ready` of `useStatePackages`: `load` has returned | yes |
| `recovered` | `registryRecovered` | yes |
| `op` | the operation under way: which, what it writes next, the entries it will save | yes |
| `rotten`, `faults` | history: contents damaged since they were last verified, faults so far | |

Grain. The native queue is serial, so there is one `op`, but one operation
writes several files. Each write is a step and the process may end, or a write
fail, between any two: an install is `ClearCatalog`, `PlaceCatalog`,
`ClearTiles`, `PlaceTiles`, `AcceptUpdate` (the floor), and then, as in every
other operation, `save` (`KeepCopy`, `Publish`, `EnsureCopy`) and `Discard` (the
prune). What happens between two writes only reads files that no other
operation writes, and belongs to the step that follows. `WriteFails` includes the
deferred clean-up of an install; a write that is done but whose file attributes
cannot be set leaves what the failure of the next write leaves, except in the
last write of `save`, which is modelled with both outcomes.

Faults: `io` (a write fails), `crash`, `rot` (an installed file becomes
unreadable), `registry` (`active.json` is found damaged at a start).

One laptop key stands for up to eight: `AboveFloor` does not look at the key, and
revocation concerns each key alone. Contents with their dates and revisions are
constants, with functions that say what a content is.

Properties, beside the type invariant:

- `ShownIsWhole`: a map that is shown has its catalog and its tiles, unless they
  were damaged after they were last verified.
- `MapStays` (action): a state that shows a whole map shows one after every
  step, failed installs, clean-ups, prunes and repairs included, until the user
  removes it or a file is damaged.
- `CopyRecovers`: were `active.json` lost now, its copy would restore a whole map
  for each state that showed one before and after the last change.
  This holds since the inventory of the build has one package of a state and
  updates are newer than it. If a laptop published the build's own content again
  later, or the inventory had two packages of a state, an install that is
  interrupted could replace the one file the copy names.
- `FloorCovers`: no signed update named in the registry or its copy is newer than
  the floor.
- `NoBuildPinAfterUpdate` (action): once an update of a state was accepted, a
  build-pinned version becomes current only if the state had retained it.
- `RetrySucceeds` (liveness): the newest update comes to be shown if the user
  keeps asking for it.

## Catalog activation

`activate(candidate)` copies a candidate in chunks, checks it, switches the
pointer, and accepts its version after a first launch. Each call to the
repository is durable, and the staging record says how far the last activation
came.

| Variable | Code |
|---|---|
| `active`, `accepted` | the pointer to the active catalog, the highest accepted version |
| `staging`, `staged` | the staging record (candidate, previous catalog, chunks copied, phase, digest of private data) and the staged chunks |
| `private`, `revoked` | the protected private data, the keys revoked by the trust document |
| `run` | the activation under way: its candidate and its next call |
| `ends`, `mishaps` | bounds: ends of an activation, and damage, failed launches and edits |

`Activate` is the read of the record; `AppendChunk`/`RecordChunk`, `RecordCopied`,
`VerifyChecksum`, `VerifyTrust`, `ValidateRemaps`, `AtomicSwitch`,
`RecordSwitch`, `LaunchSucceeds`/`LaunchFails`, `RollbackSwitch`/
`RecordRollback`, `AcceptVersion` and `ClearStaging` are the calls in their order.
`EndEarly` is `interruptAt`, a call that throws, or the end of the process, at the
points in `EndPoints`. Between activations the user edits private data, a key is
revoked, a staged chunk is damaged.

- `ActivationInv`: types, and outside a pending first launch the accepted version
  is that of the active catalog.
- `SwitchIsVetted` (action): what a resumed activation skips was not lost: at the
  switch all bytes are as signed, the key is not revoked *now*, the version is
  above the accepted one *now*, private data are those of the beginning.
- `ActivationIsAtomic`: the refinement of `PublishedCatalog`; what may be relied
  on (`Confirmed`) and the accepted version change in one step, upwards.
- `InterruptedActivates` (liveness): an interrupted copy of a sound candidate
  becomes active when offered again.

`EndPoints` of the run `catalog` are the points from which the code goes on. Four
others are dead ends of the code, found by setting `EndPoints` to them:

- `record` (between `appendStaging` and its record): the offset never matches
  again, and every later activation of the candidate throws.
- `switched` (between the pointer and its record): the compare-and-swap is asked
  again for a pointer that has moved, and fails for good.
- `undone` (between the pointer moved back and its record): the run
  `rollback_record`, below.
- `clear` (between `acceptVersion` and `clearStaging`): the candidate is refused
  as a replay of its own version, and its staging record blocks all others.

Two more things the model shows: the staging record of a candidate that is
refused is never cleared, and blocks every other one; an edit of private data
while a candidate is staged makes the staging impossible to resume.

## Connectors

A run of a connector goes through rights and circuit, discovery, the pipeline of
each asset, a judgement, and publishing.

| Variable | Code |
|---|---|
| `edition`, `permitted` | what the source has, and whether its rights allow its use |
| `payload`, `metadata` | the files of the raw store, of each asset and edition: absent, torn or whole |
| `stored` | the operations store: failures in a row, last good output and schema |
| `checkpoint` | the source's own checkpoint of each asset |
| `run` | the run under way: its point, the output and failures it loaded, the assets pending, rejected and queued for a checkpoint, its own output |

`Start` is everything before the first asset; `FetchAsset`, `StoreMetadata`,
`ParseAsset`, `AssetFails` and `AssetLate` are `runConnector`; `Judge` applies the policy of
volume, failures and schema; `EmitOutput`, `CommitRun`, `AdvanceCheckpoint`,
`UpdateReport` and `ReportFailure` publish. Faults: a stage fails or is late
(`asset`), a raw write stops half-way (`torn`), `emit`, `commit`, `checkpoint`
(which may have been made after all), `update` (the report of a failed checkpoint
cannot be written), `crash`.

`AssetLate` is the end of an asset's pipeline in which the clock is read after its
checkpoint was queued (`ingestion.ts:435`, `deadline.ts:24`): the asset is
quarantined, and its checkpoint stays queued. If the policy tolerates the loss, the
run is accepted and the checkpoint made (`connector-operations.ts:330`), so that a
checkpoint may be ahead of what is published. The properties say what holds
nevertheless.

- `ConnectorInv`: types, and whatever is published is whole in the raw store.
- `CheckpointIsRetained`: the edition of every checkpoint is whole in the raw
  store, so that what is not published can be replayed without the source.
- `CheckpointFollowsOutput` (action): a checkpoint is made by an accepted run
  whose own output is the last good one, for an asset in that output, in its
  edition, or for one that this run quarantined and left out.
- `OutputChangesHealthily` (action): the output is replaced only within the
  policy's volume, with the same or a reviewed schema, and by nothing older. One
  exception: a run that could not report a failed checkpoint takes its own output
  back, to exactly the one before.
- `CatchesUp` (liveness): a source that is permitted, within the volume and
  without a torn artifact is published and checkpointed in the end.

`CatchesUp` has its premises because the code has no way out otherwise: a raw
artifact left torn makes each retry of that content fail (`put` writes with `wx`
and compares; the comment at `ingestion.ts:287` speaks of a retry), and an
operator can approve a schema but not a volume. The source of the model offers all
its assets at each discovery; a connector that skips what it has checkpointed would
not offer a late asset again, and `CatchesUp` says nothing of it. Work that goes on
after its deadline is not modelled: of an asset it can only complete a raw file,
since a look at the clock follows each stage; an overdue checkpoint is made at once
or not at all.

## Laptop transfer

| Variable | Code |
|---|---|
| `phone` | the fields of `OpenOutdoorLaptopPackages`: session, promise, base URL, pairing code, expected and signing key, cached catalog, offered and incoming package |
| `task` | the URL sessions, each with its request and how far it is |
| `store` | what is installed, the replay floor, the trusted keys |
| `screen`, `pairing` | `useStatePackages` and `useLaptopPairing`: operation in flight, list, scans with their generations |
| `calls`, `answers` | calls on their way to the client's queue, settled promises on their way back |
| `laptop` | each laptop's code, package and file |

Every call is queued and later served in order (`ConnectCall` to
`DisconnectCall`); every callback of every session, also of abandoned ones, is a
step (`ReceiveCatalog`, `FileArrives`, `Complete`); `Background` and `CancelLaptop`
come at any moment. A laptop may restart with a new code and package (`Restart`),
replace the file it offers (`ReplaceFile`); the connection may break (`Lose`).
An installation is one step that succeeds, fails, or fails after the floor was
raised: `StatePackages` has its writes.

- `TransferInv`: types; every promise is settled exactly once (`SettledOnce`);
  what is offered, cached or approvable is of the present connection
  (`CatalogOfConnection`).
- `BackgroundDisconnects`: in the background, once the calls are served, nothing
  is connected and nothing shown.
- `TrustIsVouched` (action): a key becomes trusted only if the user gave its
  fingerprint for this connection.
- `InstalledWasShown` (action): what is installed was on the list when chosen.
- `ScanNotStuck`: the scan button is enabled again by something that is pending.

Left out: catalogs of schema version 1, discovery, progress, sizes, the end of
the process (the client keeps nothing), a Keychain that fails while trusted
signers are refreshed. Generations are flags (`current`, `latest`) instead of
counters: only "is it the last" is ever asked. A new request waits for a free
session, so that a session has one request; there is no liveness for the same
reason. As the code has it, a refresh that fails leaves the old list on the screen
while the client has nothing to download, and cancelling a refresh keeps the
cached catalog.

## The laptop's server

Processes start at any time, may be stopped after any step and may die at any
step. `lock`, `identity` and `staging` are files; `server` has each process's
point in its start; `helper` its hotspot helper, a process of its own that cleans
up when its pipe closes; `radio` is the hotspot, `wanted` what it was before;
`shared` is what a phone has read; `warned` that the user was told to switch the
hotspot off.

`OpenLock`, `InspectLock`, `UnlinkStale`, `ReopenLock`, `WritePid` are the lock;
`LoadIdentity`, `StageIdentity`, `KeepIdentity` the key and the reserved revision;
`StartHotspot` and the `Helper…` actions the hotspot; `VerifyPackages`, `Listen`
the server; `Abort`, `Close`, `HotspotClosed`, `HotspotStuck`, `ReleaseLock` the
end. Faults: `crash`, `disk`, `hotspot`, `stuck` (the helper is killed after 75 s),
`rebuild` (new package content), `clock`.

- `OneWriter`: one process at a time is between its lock and its release.
- `RevisionsGrow` (action): a phone meets one key, and of it what it has or a
  higher revision.
- `LeftAsFound`: a server that ended left no lock and no helper
  (`EndedLeavesNothing`); with all helpers gone the hotspot is as it was
  (`HotspotRestored`).

`ConcurrentTakeover` says whether two starts may judge one stale lock at once. It
is FALSE in the run `signer` and an assumption of the theorems; with TRUE
`OneWriter` fails (`one_writer`). As the code has it: a process that dies between
creating the lock and writing its pid leaves a lock that no later start can
parse; a reused pid makes a stale lock look alive (pids are not reused in the
model).

## Services of the app

Three services follow AppState and the process. `task` is the `ForegroundTask` of
each recording period (`StartRecording`, `StopRecording`, `RunEnds`,
`TimerFires`); `location` has the permission shown and the reads under way, each
of which looks at the authorization and, on another queue, at the Location
Services switch (`ReadStatus`, `CheckServices`, `AnswerArrives`), beside the event
of a change (`EventArrives`); `disk`, `data` and `op` are the imported datasets
(`Load`, `Pick`, `Commit`, `Toggle`, `Remove`, `Reset`, and a save in three
steps). `AppStateChange` and `Restart` concern all three.

- `ScreensInv`: types, and the refresh is running or scheduled, never both or
  neither, exactly while it should be (`RefreshGoesOn`).
- `ShownIsGranted`: once no answer and no event is on its way, the permission
  shown is the one granted.
- `ImportedIsKept`: a dataset reported as imported is in the file until the user
  removes it or resets a file that would not load.

As the code has it: with Location Services off, the event says 'denied' and a read
says 'services-disabled', and either may be last; a save that fails after its
atomic write leaves the file ahead of the screen until the next save.

## Runs

| Run | Asks | Answer |
|---|---|---|
| `library` | all safety properties of recording and the refinement of `HikePromise`: two hikes of up to three observations in batches of two, one entry, two faults of every kind but `torn` | hold, 312,725 states |
| `settle` | is a hike saved and sealed by a user who keeps pressing Finish, and does every operation settle, with three faults of `store`, `seal`, `sensor`? | yes, 11,637 states |
| `packages` | the package store: one state, a build's content and two updates, two faults of every kind | hold, 289,549 states |
| `catalog` | activation: five catalogs, two chunks, two early ends, two mishaps | hold, 28,134 states |
| `connectors` | two assets, two editions of different schema, three faults of every kind | hold, 778,071 states |
| `laptop` | two laptops, two sessions, three operations, one scan, one fault | hold, 1,857,164 states |
| `screens` | two datasets of which one fits, two recording periods, three events | hold, 1,075,281 states |
| `signer` | three processes, two contents, a clock of two readings, two faults | hold, 1,384,132 states |
| `torn_tail`, `claim_reinstall`, `rollback_record`, `one_writer` | a sentence of the repository each | refuted, see below |

Bounds. *Recording*: `BatchLimit` stands for the 256 observations of a batch; with
1 or 2 and hikes of up to three observations there are hikes of no, one and
several batches, full and partial ones. Two sessions are enough to see what one
hike leaves for the next, one journal entry for its race with a checkpoint.
*Package store*: a state retains two versions, so three contents are what it takes
for one to be pruned; two updates are what it takes for a floor to rise.
*Catalogs*: the shipped one and two successors with different keys let a newer
catalog be accepted, and a key be revoked, while another is staged; one never
passes the checksum or signature, one never the remaps. *Connectors*: a policy
that tolerates one rejected asset of two but no halved volume, so every branch of
the judgement is taken, but that of too many records; two failures in a row open
the circuit; three faults are a late asset whose run then fails a checkpoint and
its report. *Laptop*: two laptops
and two sessions are a present and an abandoned one; three operations are pair,
choose and one that disturbs. *Screens*: two periods overlap in one late run;
`OneWaits` keeps a dataset operation and a read of the permission from being
under way together, which share no variable. *Signer*: three processes are a dead
one and two that compete. Two faults admit a failure and a second one while
the first is handled, three a failure of that retry.

Properties of `library`, beside the type invariant:

- `CheckpointBacked`: a durable checkpoint is never ahead of the samples stored
  with it. Recovery does not read below it.
- `AcknowledgedDurable`: what the adapter will not deliver again is covered by a
  checkpoint.
- `NothingLost`: what reached the spool is in the library or in a spool that can
  be recovered, until the user discards it.
- `SealedIsSaved`: a spool goes only for an activity stored as finished, revised
  and complete.
- `CommittedMatchesLibrary`: the machine (statistics) and the library (samples)
  agree at all times.
- `OneBatchAhead`: memory is never more than a batch ahead of the checkpoint.
- `JournalDurable`: a checkpoint prepared before an entry does not undo it.
- `TrackerFollows`: when App shows a pause and nothing is under way, no sensor
  runs, whichever failure led there (`PausedIsSilent`); an accepted stop remains
  the truth for all retries (`StoppedStaysSealed`).
- `PromiseKept`: the refinement.

Torn lines are not among the faults of `library`, since `NothingLost` does not
survive them (`torn_tail`).

Deadlock is checked in every run of the recording pipeline: it can always save a
journal entry. The others may stop: a phone whose registry is damaged and has no
copy cannot load its packages; a catalog whose staging cannot be resumed, a source
without rights, operations and processes that are used up by their bound.

Fairness. `ServedSpec` assumes weak fairness of the coordinator's steps: native
calls return and promise reactions run; the code has no lock it could wait for.
`FinishingSpec` adds strong fairness of `FinishRequest`, an assumption about the
user, under which alone "the hike is saved" can be asked. Nothing is assumed of
sensors, timers or faults. `FairSpec` of the package store assumes weak fairness
of the steps of an operation (the queue runs what it was given) and of `Load`
(after a failed start the user opens the app again), and strong fairness of
`Install` (who wants an update asks for it again). `FairSpec` of the activation
assumes that its synchronous calls follow each other and that a candidate is
offered again; that of the connectors that a run's steps follow each other and,
strongly, that among the runs asked for there is again a recovery probe by an
operator who reviewed the last schema. Nothing is assumed of the laptop, the
server's processes and the screens, which have no liveness property.

Every property has a mutant: a damaged twin of a definition (a dropped guard, a
stale read, a missing reset) with which TLC finds the property violated. The
twins stand beside the originals and no action uses them.

## Proofs

Every safety property that a run checks, on states, on steps or as a refinement,
is also a theorem, proved by TLAPS for every value of the constants:

| Module | Theorem | Property | Assumes |
|---|---|---|---|
| `RecordingPipelineProofs` | `TypeCorrect` | `TypeOK` | |
| | `CheckpointsBacked` | `CheckpointBacked` | |
| | `AcknowledgementsDurable` | `AcknowledgedDurable` | |
| | `MachineMatchesLibrary` | `CommittedMatchesLibrary` | |
| | `LibraryOneBatchAhead` | `OneBatchAhead` | |
| | `SavedNotesStay` | `JournalDurable` | |
| `RecordingPromiseProofs` | `RecordedIsKept` | `NothingLost` | `Orderly` |
| | `SealingIsSaved` | `SealedIsSaved` | `Orderly` |
| | `TrackerIsFollowed` | `TrackerFollows` | `Orderly` |
| | `PipelineKeepsPromise` | `PromiseKept` | `Orderly` |
| `StatePackagesProofs` | `TypesHold` | `TypeOK` | |
| | `FloorHolds` | `FloorCovers` | |
| | `ShownHolds` | `ShownIsWhole` | |
| | `MapsStay` | `MapStays` | |
| | `BuildPinsStayBehind` | `NoBuildPinAfterUpdate` | |
| | `CopyRestores` | `CopyRecovers` | `BuildsAreOldest` |
| `CatalogActivationProofs` | `SwitchVettedHolds` | `SwitchIsVetted` | |
| | `ActivationHolds` | `ActivationInv` | `EndPoints` |
| | `ActivationRefines` | `ActivationIsAtomic` | `EndPoints` |
| | `AcceptedLaunchedHolds` | `AcceptedWasLaunched` | `EndPoints` |
| `ConnectorRunsProofs` | `OutputTraceable` | `ConnectorInv` | |
| | `CheckpointsFollow` | `CheckpointFollowsOutput` | |
| | `CheckpointsRetained` | `CheckpointIsRetained` | |
| | `OutputHealthy` | `OutputChangesHealthily` | |
| | `StrictPolicyCheckpoints` | | no rejected asset tolerated |
| `LaptopTransferProofs` | `TransferHolds` | `TransferInv` | |
| | `ScanButtonReturns` | `ScanNotStuck` | |
| | `BackgroundHolds` | `BackgroundDisconnects` | |
| | `TrustHolds` | `TrustIsVouched` | |
| | `InstallsHold` | `InstalledWasShown` | |
| `UpdateSignerProofs` | `SignerTypes` | `TypeOK` | |
| | `OneWriterHolds` | `OneWriter` | `~ConcurrentTakeover` |
| | `RevisionsGrowHolds` | `RevisionsGrow` | `~ConcurrentTakeover` |
| | `LeftAsFoundHolds` | `LeftAsFound` | `~ConcurrentTakeover` |
| `AppScreensProofs` | `RefreshHolds` | `ScreensInv` | |
| | `AccessIsGranted` | `ShownIsGranted` | |
| | `ImportsAreKept` | `ImportedIsKept` | |

The assumptions that the modules declare on their constants (`BatchLimit` is a
positive number, bounds are numbers, the faults are of the known kinds) are used
throughout. The last column has the others; each names a defect shown elsewhere,
or a fact about the data:

- `Orderly`: a line of the spool is written as a whole or not at all, that is,
  `torn` is no fault. With torn lines the run `torn_tail` has a counterexample.
- `BuildsAreOldest`: the inventory of the build has one package of a state, and
  the updates of the state are newer.
- `EndPoints`: no activation ends at `switched` or `undone`; see the run
  `rollback_record`.
- No rejected asset tolerated: the policy's `MaximumFailurePercent` is 0.
  Otherwise a late asset may be checkpointed without being published.
- `~ConcurrentTakeover`: no two starts judge one stale lock at once; see the run
  `one_writer`.

*Recording: types.* `TypeOK` alone is not inductive. An append to a spool whose
last line lacks its newline takes the last observation away, so the length could
fall below zero; and `LoadCheckpoint` indexes the checkpoint by the session of the
adapter, which must be one. `TypeInv` adds the two facts: a bare line is
preceded by its observation (`BareFollowsLine`), and a recovery that waits for
its checkpoint knows its session (`RecoveringKnown`).

*Recording: durability.* The five properties support each other. `DurableInv`
consists of

- `LibrariesOK`: in memory and in the store the samples of a hike are a prefix
  1..n that contains the checkpoint and is at most a batch ahead of it, a session
  not yet issued has none, and confirmed journal entries are there;
- `MachineOK`: the machine's samples are those of the library and its highest
  number is the last;
- `AdapterOK`: while the machine is active the adapter has its session; the
  number it acknowledged is at most the checkpoint of that session; the manifest,
  if any, names it;
- `OperationOK`: the activities in a snapshot that an operation has queued are
  those in memory, an operation that writes a checkpoint knows a session, and a
  pending finish belongs to a finished machine that has read all it stopped at.

The heart is one observation about batches. A batch is read after the
*acknowledged* number, which never exceeds the checkpoint, so what is new in it
ends at most one batch above the checkpoint, however many writes have failed in
between; and since the machine's samples are a prefix, adding an interval that
begins no later than its end keeps them one. Every action preserves
`DurableInv` (`NextParts`, one lemma per part), and each property follows from
it at once.

*Recording: the promise.* That a spool may go depends on how far its hike is at
every await of every operation. `PromiseInv` adds to `DurableInv`

- `ControlOK`: which operation waits where; a stopped tracker stays closed, and
  while App shows a pause only a resume can have started the sensors;
- `SpoolOK`: the spool of the manifest has exactly what was appended, and an
  open tracker goes on at its end;
- `SamplesOK`: only the hike of the machine can be ahead of the store;
- `SessionOK`: an interrupted machine is continued in its own session, and a
  finished one has everything stored before another hike can begin;
- `SealedOK`: each hike has its spool, or is finished, revised and complete in
  memory *and* in the store, which are equal at the seal;
- `StoppedOK`: the tracker stopped at what its spool has, and the machine has
  read no more than that.

`NothingLost`, `SealedIsSaved` and `TrackerFollows` follow. In the refinement a
start, a seal and a discard are the steps of `HikePromise` that open, close and
abandon a hike, an append is an observation, and any other write stores more of
the machine's hike or nothing (`SaveRefines`). All other steps stutter.

*Package store.* `TypeOK` needs that an install under way has a content, since
its steps add that content to the files (`InstallHasPin`). `FloorCovers` needs
that the registry an operation is about to publish is covered too (`FloorInv`). An
install reaches that by raising the floor before it saves, and the replay check at
that moment (`AboveFloor`) is why what was covered stays covered (`FloorRises`);
load, rollback and removal only reorder or drop versions. The rest stands on
`StoreInv`: `NamesInv` (every version named in either registry, or in the one
about to be published, has an authority and is of its state; an install under way
was authorized), `ShapeInv` (which registry an operation works on, by where it
is; what a removal deletes is not named by what it saves) and `SoundInv` (a
version shown in any of these has its files unless they were damaged; an install
clears the files of a shown version only when they are damaged). `SoundInv` gives
`ShownIsWhole` and, for steps, `MapStays`. `SavingInv` says what publishing changes
of the maps in use, which gives `NoBuildPinAfterUpdate`, and `CopyInv` what the
copy restores, from the clean-up of one operation to the next.

*Catalog activation.* `TypeOK` needs that an activation under way has its record
(`Tied`), that a chunk about to be recorded is one of the catalog's and that
private data changed only by mishaps (`Within`). `VettedInv` says what each
check leaves known for the calls that follow it: after `VerifyChecksum` the bytes
are whole, after `VerifyTrust` the candidate is trusted too, before the switch
its remaps passed and private data are unchanged. Nothing between two calls of an
activation disturbs that, so `SwitchIsVetted` holds wherever activations end.
`FollowInv` relates pointer, record and accepted version at every point: either
the version is that of the pointer (`Settled`), or the record names a previous
catalog with the accepted version and a newer candidate (`Pending`), and which
of the two follows from the phase and the call. An end at `switched` or `undone`
would rest in a state that neither the phase nor the pointer tells apart, which
is why they are excluded. The refinement follows: only `AcceptVersion` moves
what is confirmed.

*Connectors.* `RetainedInv`: the last good output, the one before the run and that
of the run are whole in the raw store, and the asset under way has stored what
its point says; whole files stay whole. `QueueInv`: a checkpoint is queued only
for what was parsed, which is in the run's output unless it was rejected
afterwards, and checkpoints are made only while that output is the last good one.
`KeptInv`: what is queued or checkpointed is whole in the raw store; an asset comes
into the queue from the point at which both its files were stored, and what it
fetched does not change any more. `EditionInv`: what was fetched is at most the
edition of the source and at least what the output before had, and what is emitted
or accepted is healthy. `PublishedInv`: until a run commits, the last good output
is the one it began with; when it comes to report a failure, that one or, after an
accepted commit, its own. No theorem of this module assumes anything of the faults.
With a policy of no rejected assets, health leaves nothing quarantined in an
accepted run, and `QueueInv` then gives `StrictPolicyCheckpoints`.

*Laptop transfer.* `PromiseInv` is the account of promises: while an operation is
on the screen there is exactly one of a call on its way, a request of the client
and an answer (`OnceInv`), it is of that operation (`KindInv`), and a session
lives exactly while a promise waits for it (`PhoneOK`). `ConnectionInv`: the
catalog, the offer, what was received and the request of the present session are
of the laptop connected to. Together they give `TransferInv`. In the background,
`BackgroundInv` has a disconnect that is done, or on its way with no connect
behind it. For `TrustIsVouched`, `VouchInv` follows the fingerprint the user gave
from the screen through the queue into the client until the list is gone; for
`InstalledWasShown`, `OfferInv` follows what is offered from the client through
the answer onto the list and, once chosen, into the download.

*Server.* `OneWriter` needs to know who may unlink (`LockInv`): a process that
holds, or has just created, the lock is the one the file names; a start about to
unlink saw the lock of a dead process, and there is one such start.
`RevisionsGrow` then follows from `SignedInv`: what a phone has read is at most
the identity on disk, which is at most what the one holder is about to write.
`LeftAsFound` needs to know in which phases there is a helper (`HelperInv`) and who
answers for the hotspot (`RadioInv`): a helper that found it off and has not
ended, at most one of all processes, dead ones included.

*Services of the app.* They share only the foreground, so `AppInv` is the
conjunction of three invariants: a task that is eligible is in a run or has its
timer set (`TaskOK`); a read that may still be shown, or the last event on its
way, has seen the present authorization (`AccessOK`); what is shown, about to be
saved and stored each have all that was reported as imported (`DataOK`).

Only model-checked: liveness (`HikeIsSaved`, `OperationsEnd`, `RetrySucceeds`,
`InterruptedActivates`, `CatchesUp`), which is out of the prover's reach.

## Divergences from the documentation

Each of the first four is a run in which TLC refutes a sentence of the repository.
The story of each counterexample:

- `torn_tail` (ARCHITECTURE.md:78, recovery "ignores only a torn final line").
  A crash in an append leaves a fragment; recovery reopens the file at its end
  without truncating; the next observation is glued to the fragment, which is
  now no final line, and the spool is rejected from then on.
- `claim_reinstall` (LAPTOP_STATE_UPDATES.md:29, "Exact retries/reinstallation of
  the latest accepted snapshot are allowed, including after rollback"). A
  build-pinned map is damaged and quarantined; its reinstall is interrupted after
  it repaired the file; an update packaged earlier is accepted, since a
  quarantined map is not compared; the repaired map becomes its rollback
  version; after the rollback the update is refused as older.
- `rollback_record` (WP-303.md:7, "a rolled-back candidate can be safely retried.
  The accepted anti-replay version advances only after successful first-launch
  confirmation"). The first launch fails, the pointer is moved back, and the
  process ends before the record says so. The next activation finds 'switched',
  skips the switch, launches and accepts the new version, with the old catalog
  active.
- `one_writer` (laptop-update-signing.mjs:159, "One writer across laptop server
  processes prevents counter/key races"). A server died and left its lock. Two
  starts read it; the first unlinks it and creates its own; the second unlinks
  that one, by name, and creates another. Both sign. On Windows the second open
  may fail while the first file is still being deleted.

Others were seen while modelling and have no run of their own.

- Sealing or discarding removes the spool and then fails on the manifest: start,
  recover and discard all refuse afterwards (ARCHITECTURE.md:78, the manifest
  "identifies the recoverable spool").
- Recovery starts the sensors, then the checkpoint query fails and App still
  offers to recover (THREAT_MODEL.md:50, "visible state, active-session-only
  sensors").
- After permission is withdrawn App shows a recording; Finish fails each time,
  and recovery is offered only at a launch (recorder.test.ts:66, recovery
  "without requiring another relaunch").
- A journal save fails after COMMIT; the entry is in the store
  (PR18_BUG_AUDIT.md:8, "failed writes leave the previous entry intact").
- A crash between the last persist of a finish and the sealing of the spool:
  recovery then stores the finished activity as `recovered` (ARCHITECTURE.md:103,
  "finish seals the immutable activity").
- When the persist of a start, pause or resume fails, nothing is marked for a
  retry (PRODUCTION_QUALITY.md:15, "a failed persistence operation remains dirty
  until retry succeeds").
- After a rollback, installing the newer version again removes the file that is
  kept for rollback before the new one is moved there; if the move fails, that
  version is gone (STATE_PACKAGE_LOADER.md:26, "The preceding catalog remains
  available for explicit rollback").
- If the process ends after the first `active.json` and before its copy, later
  starts find nothing to repair and make none; were the registry damaged then,
  no start could read it (STATE_PACKAGE_LOADER.md:26, "A protected previous
  registry snapshot supports recovery from a damaged active pointer").
- If the Keychain cannot be read while the registry is loaded, every signed map is
  judged invalid (`OpenOutdoorStateUpdateTrust.swift:16`).
- A connector's checkpoint fails and then the report of that failure cannot be
  written: the handler commits the previous output, while other checkpoints have
  advanced (`connector-operations.ts:337`; CONNECTOR_ECOSYSTEM.md:69). The fault
  `update` of `ConnectorRuns`.
- An asset that is late only after its checkpoint was queued is quarantined, and
  checkpointed by the same run if the rest is healthy (`ingestion.ts:434`;
  PROJECT_SCOPE.md:408, "checkpoint ... completed partitions after durable
  success"). `AssetLate` of `ConnectorRuns`.

## What is left out

- Wording, layout, benchmark and diagnostics screens.
- A start that fails after the manifest was written, and a `close()` that throws
  while stopping.
- A reload of the JavaScript bundle without the end of the process.
- The limit of 10,000 batches of the drain and finish loops, far above any hike
  of a bounded model.
- Conflicting content of two samples of one number: the tracker never rewrites
  a line.
- `pendingAcknowledgement`: the adapter acknowledges synchronously and throws
  only when the number goes down, which `SaveBatch` models by keeping the
  greater one.
- In the package store: free space (a refusal changes nothing), staging files,
  search, and a Keychain that fails while the registry can be read.
- In the activation: free space, versions of app and schema, malformed
  candidates (refused before any call), the unsigned development channel, and the
  calls of the simulated repository, which is a test double.
- In the connectors, the laptop's client, the server and the screens: what their
  sections name.
- *Backup and restore*: encryption and validation in one synchronous call; the
  only target of an atomic restore is an object in memory, whose commit and
  rollback are an assignment each.
- *Private package transaction*: a maintainer's script with a journal of its own,
  which exchanges a directory while nothing else uses it.
- *Package composition, entity resolution, package builders, converters, import
  and export, statistics, the map*: transformations of data without state between
  calls, the larger part of the repository's lines. What could be wrong there is
  in the data (geometry, wording, numbers in floating point), which a model with a
  few abstract values would not show; the repository's own tests and fixtures
  reach it.
- Every component with status `not_modelled` has its reason in `PROJECT.json`.

## Plan

1. *Recording pipeline*, *state packages*, *catalog activation*, *connectors*,
   *laptop transfer*, *server*, *services of the app*: done.
2. *Proofs*: every safety property of the runs is a theorem. Left: what holds
   without the assumption `BuildsAreOldest`.
3. *More of the system*: the private package transaction; batch replay and package
   composition as operators checked against reference definitions.
