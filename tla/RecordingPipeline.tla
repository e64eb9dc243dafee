------------------------- MODULE RecordingPipeline -------------------------
(***************************************************************************)
(* How a hike becomes a saved activity in Open Outdoor.                    *)
(*                                                                         *)
(* Location callbacks append observations to an active spool on disk       *)
(* (OpenOutdoorTrackerSpike.swift).  The recorder coordinator in           *)
(* JavaScript (packages/recorder) reads them in batches through the        *)
(* NativeTrackerAdapter (apps/mobile/application.ts), adds them to the     *)
(* in-memory library, writes the library and a checkpoint to SQLite in one *)
(* transaction, and only then acknowledges the batch.  Finishing a hike    *)
(* seals the spool: removes it once the library covers it.                 *)
(*                                                                         *)
(* Grain of atomicity.  Every native call, of the tracker and of the       *)
(* store, runs on the main queue (NativeSpikesModule.swift), where the     *)
(* sensor callbacks run as well, so a native call is one step; the         *)
(* JavaScript between two awaits touches no native state and belongs to    *)
(* the step of the call it follows.  The coordinator serializes its        *)
(* operations, so at most one is under way: `op`.  A journal entry and a   *)
(* checkpoint share one FIFO write queue, so saving an entry is one step,  *)
(* which may fall between any two steps of an operation.                   *)
(*                                                                         *)
(* Some definitions have a damaged twin before them (SavingStale beside    *)
(* Saving, say).  No action uses a twin: PROJECT.json names each with the  *)
(* property that fails when it takes its original's place.                 *)
(***************************************************************************)
EXTENDS ActiveSpool, PrivateSnapshot

CONSTANTS
  NoSession,      \* what stands for nil where a session is expected
  MaxSequence,    \* bound: observations the sensors deliver for one session
  MaxFaults,      \* bound: faults of the environment in one behaviour
  Faults          \* the kinds of fault the environment may produce

FaultKinds == {"store",       \* a SQLite commit or query reports an error
               "append",      \* writing an observation to the spool fails
               "torn",        \* a write that is cut short leaves a part
               "permission",  \* Always authorization is withdrawn
               "sensor",      \* CoreLocation reports a fatal error
               "crash",       \* the process ends and is started again
               "seal",        \* sealing fails before it removes a file
               "unlink"}      \* sealing or discarding fails halfway

ASSUME ConstantsAssumption ==
  /\ NoSession \notin Sessions
  /\ MaxSequence \in Nat
  /\ MaxFaults \in Nat
  /\ Faults \subseteq FaultKinds

VARIABLES
  \* durable: files of the native tracker, SQLite
  manifest,     \* session of active-session.json, NoSession if absent
  spool,        \* the file that manifest names
  store,        \* private_snapshot
  checkpoint,   \* tracking_checkpoint: session -> highest_sequence
  \* volatile: Swift
  native,       \* open spool, isPaused, sensors running, sequence
  \* volatile: JavaScript
  sm,           \* RecorderStateMachine
  tracker,      \* NativeTrackerAdapter: sessionId, acknowledged
  repo,         \* InMemoryPrivateRepository
  co,           \* RecorderCoordinator: synchronizationDirty, stopped, ...
  op,           \* the coordinator operation under way and where it is
  ui,           \* App's recorderState
  \* the environment, and what the properties remember
  issued,       \* session ids already used (UUIDs never repeat)
  faults,       \* faults so far
  appended,     \* session -> last observation that reached the spool
  discarded,    \* sessions the user discarded
  savedNotes    \* journal entries whose save was reported to succeed

durable  == <<manifest, spool, store, checkpoint>>
volatile == <<native, sm, tracker, repo, co, op, ui>>
history  == <<issued, faults, appended, discarded, savedNotes>>
vars     == <<manifest, spool, store, checkpoint, native, sm, tracker, repo,
              co, op, ui, issued, faults, appended, discarded, savedNotes>>

NotStopped == -1      \* co.stopped is null

OpKinds == {"none", "start", "tick", "pause", "drain", "resume", "recover",
            "finish"}

(* Where an operation waits for a promise:                                 *)
(*   read, write        synchronizeUnlocked: readPendingBatches, persist   *)
(*   halt, lifecycle    pauseUnlocked: tracker.pause, persist; also the    *)
(*                      persist of start and resume                        *)
(*   suspend, shutdown  suspendAfterFailure: tracker.pause, tracker.finish *)
(*   checkpoint         NativeTrackerAdapter.recover: trackingCheckpoint   *)
(*   stop, complete     finishUnlocked: tracker.finish, after its loop     *)
(*   final, seal        commitPendingFinish: persist, tracker.finalize     *)
OpPoints == {"rest", "read", "write", "halt", "lifecycle", "suspend",
             "shutdown", "checkpoint", "stop", "complete", "final", "seal"}

SessionOrNone == Sessions \cup {NoSession}

NativeTracker == [open : BOOLEAN, paused : BOOLEAN, sensing : BOOLEAN,
                  sequence : Nat]

Machine == [kind : {"idle", "recording", "paused", "recoverable", "finished"},
            session : SessionOrNone, highest : Nat, samples : SUBSET Nat]

Adapter == [session : SessionOrNone, acknowledged : Nat]

Control == [dirty : BOOLEAN, stopped : Nat \cup {NotStopped},
            pendingFinish : BOOLEAN]

Operation == [kind : OpKinds, pc : OpPoints, before : Nat,
              snapshot : Snapshot]

TypeOK ==
  /\ manifest \in SessionOrNone
  /\ spool \in Spool
  /\ store \in Snapshot
  /\ checkpoint \in [Sessions -> Nat]
  /\ native \in NativeTracker
  /\ sm \in Machine
  /\ tracker \in Adapter
  /\ repo \in Snapshot
  /\ co \in Control
  /\ op \in Operation
  /\ ui \in {"idle", "recording", "paused", "recoverable"}
  /\ issued \in SUBSET Sessions
  /\ faults \in Nat
  /\ appended \in [Sessions -> Nat]
  /\ discarded \in SUBSET Sessions
  /\ savedNotes \in SUBSET Notes

-----------------------------------------------------------------------------
ClosedTracker  == [open |-> FALSE, paused |-> FALSE, sensing |-> FALSE,
                   sequence |-> 0]
OpenTracker(n) == [open |-> TRUE, paused |-> FALSE, sensing |-> TRUE,
                   sequence |-> n]
IdleMachine    == [kind |-> "idle", session |-> NoSession, highest |-> 0,
                   samples |-> {}]
IdleAdapter    == [session |-> NoSession, acknowledged |-> 0]
IdleControl    == [dirty |-> FALSE, stopped |-> NotStopped,
                   pendingFinish |-> FALSE]

(* An operation that waits at pc, and one that waits there for the write   *)
(* of a snapshot it took of the library.                                   *)
At(kind, pc) == [kind |-> kind, pc |-> pc, before |-> 0,
                 snapshot |-> EmptySnapshot]

SavingStale(kind, pc, library) == [kind |-> kind, pc |-> pc, before |-> 0,
                                   snapshot |-> repo]

Saving(kind, pc, library) == [kind |-> kind, pc |-> pc, before |-> 0,
                              snapshot |-> library]

Resting == At("none", "rest")

Init ==
  /\ manifest = NoSession
  /\ spool = NoSpool
  /\ store = EmptySnapshot
  /\ checkpoint = [s \in Sessions |-> 0]
  /\ native = ClosedTracker
  /\ sm = IdleMachine
  /\ tracker = IdleAdapter
  /\ repo = EmptySnapshot
  /\ co = IdleControl
  /\ op = Resting
  /\ ui = "idle"
  /\ issued = {}
  /\ faults = 0
  /\ appended = [s \in Sessions |-> 0]
  /\ discarded = {}
  /\ savedNotes = {}

Fault(kind) ==
  /\ kind \in Faults
  /\ faults < MaxFaults
  /\ faults' = faults + 1

Tearing == "torn" \in Faults

Raised(old, new) == IF new > old THEN new ELSE old

Active(machine) == machine.kind \in {"recording", "paused"}

(* RecorderStateMachine.pause, where the code calls it only if recording.  *)
PausedMachine(machine) ==
  [machine EXCEPT !.kind = IF @ = "recording" THEN "paused" ELSE @]

(* RecorderStateMachine.interrupt, as recoverUnlocked calls it.            *)
InterruptedMachine(machine) ==
  [machine EXCEPT !.kind = IF Active(machine) THEN "recoverable" ELSE @]

(* The operation under way throws.  App reports it; the handlers of start  *)
(* and finish then show the paused controls if the machine is paused.      *)
OperationFails(machine) ==
  /\ op' = Resting
  /\ ui' = IF op.kind \in {"start", "finish"} /\ machine.kind = "paused"
           THEN "paused" ELSE ui

-----------------------------------------------------------------------------
(* The sensors and the process.                                            *)

(* didUpdateLocations or the altimeter: appendObservation succeeds.        *)
Locate ==
  /\ native.open /\ native.sensing
  /\ native.sequence < MaxSequence
  /\ native' = [native EXCEPT !.sequence = @ + 1]
  /\ spool' = AppendLine(spool)
  /\ appended' = [appended EXCEPT ![manifest] = native.sequence + 1]
  /\ UNCHANGED <<manifest, store, checkpoint, sm, tracker, repo, co, op, ui,
                 issued, faults, discarded, savedNotes>>

(* What reached the disk counts as appended, even if the call failed.      *)
Reached == [appended EXCEPT ![manifest] = Raised(@, spool'.good)]

(* appendObservation throws: the sensors stop and the spool is abandoned.  *)
AppendFails ==
  /\ Fault("append")
  /\ native.open /\ native.sensing
  /\ native.sequence < MaxSequence
  /\ spool' \in InterruptedAppends(spool, Tearing)
  /\ appended' = Reached
  /\ native' = ClosedTracker
  /\ UNCHANGED <<manifest, store, checkpoint, sm, tracker, repo, co, op, ui,
                 issued, discarded, savedNotes>>

(* locationManagerDidChangeAuthorization while a spool is open.            *)
LosePermission ==
  /\ Fault("permission")
  /\ native.open
  /\ native' = ClosedTracker
  /\ UNCHANGED <<durable, sm, tracker, repo, co, op, ui,
                 issued, appended, discarded, savedNotes>>

(* didFailWithError: the sensors stop, the spool stays open.               *)
SensorFault ==
  /\ Fault("sensor")
  /\ native.open /\ native.sensing
  /\ native' = [native EXCEPT !.sensing = FALSE]
  /\ UNCHANGED <<durable, sm, tracker, repo, co, op, ui,
                 issued, appended, discarded, savedNotes>>

(* The process ends, perhaps within an append, and starts again:           *)
(* createMobileApplication reads the store, and App's launch effect offers *)
(* recovery if the manifest names a spool that inspect() accepts.          *)
Relaunch ==
  /\ Fault("crash")
  /\ IF native.open /\ native.sensing /\ native.sequence < MaxSequence
     THEN /\ spool' \in InterruptedAppends(spool, Tearing)
          /\ appended' = Reached
     ELSE UNCHANGED <<spool, appended>>
  /\ native' = ClosedTracker
  /\ sm' = IdleMachine
  /\ tracker' = IdleAdapter
  /\ repo' = store
  /\ co' = IdleControl
  /\ op' = Resting
  /\ ui' = IF manifest # NoSession /\ Readable(spool') THEN "recoverable"
           ELSE "idle"
  /\ UNCHANGED <<manifest, store, checkpoint,
                 issued, discarded, savedNotes>>

-----------------------------------------------------------------------------
(* What the user asks for.  Each request is refused while another one is   *)
(* being handled (captureOperation), and App offers it only in some of its *)
(* states.  A refusal that changes nothing is not a step.                  *)

StartHike(s) ==
  /\ ui = "idle" /\ op.kind = "none"
  /\ ~co.pendingFinish /\ sm.kind \in {"idle", "finished"}
  /\ ~native.open /\ manifest = NoSession
  /\ s \notin issued
  /\ issued' = issued \cup {s}
  /\ manifest' = s
  /\ spool' = FreshSpool
  /\ native' = OpenTracker(0)
  /\ tracker' = [session |-> s, acknowledged |-> 0]
  /\ co' = [co EXCEPT !.stopped = NotStopped]
  /\ sm' = [kind |-> "recording", session |-> s, highest |-> 0,
            samples |-> {}]
  /\ repo' = WithLifecycle(repo, s, "recording")
  /\ op' = Saving("start", "lifecycle", repo')
  /\ UNCHANGED <<store, checkpoint, ui, faults, appended, discarded,
                 savedNotes>>

(* The five-second refresh while App shows a recording.                    *)
RefreshTick ==
  /\ ui = "recording" /\ op.kind = "none"
  /\ op' = At("tick", "read")
  /\ UNCHANGED <<durable, native, sm, tracker, repo, co, ui, history>>

PauseRequest ==
  /\ ui = "recording" /\ op.kind = "none"
  /\ op' = At("pause", "read")
  /\ UNCHANGED <<durable, native, sm, tracker, repo, co, ui, history>>

(* resumeUnlocked up to its persist.  App offers it when the machine is    *)
(* paused or, after a finish that is still to be saved, finished.          *)
ResumeHike ==
  /\ ui = "paused" /\ op.kind = "none"
  /\ co.stopped = NotStopped
  /\ native.open /\ native.paused /\ sm.kind = "paused"
  /\ native' = [native EXCEPT !.paused = FALSE, !.sensing = TRUE]
  /\ sm' = [sm EXCEPT !.kind = "recording"]
  /\ repo' = WithLifecycle(repo, sm.session, "recording")
  /\ op' = Saving("resume", "lifecycle", repo')
  /\ UNCHANGED <<durable, tracker, co, ui, history>>

(* resumeUnlocked when tracker.resume throws.                              *)
ResumeFails ==
  /\ ui = "paused" /\ op.kind = "none"
  /\ co.stopped = NotStopped
  /\ ~(native.open /\ native.paused)
  /\ op' = At("resume", "suspend")
  /\ UNCHANGED <<durable, native, sm, tracker, repo, co, ui, history>>

FinishRequest ==
  /\ ui \in {"recording", "paused"} /\ op.kind = "none"
  /\ \/ co.pendingFinish /\ op' = Saving("finish", "final", repo)
     \/ ~co.pendingFinish /\ Active(sm) /\ op' = At("finish", "stop")
  /\ UNCHANGED <<durable, native, sm, tracker, repo, co, ui, history>>

(* recoverUnlocked up to the checkpoint query: the machine is interrupted  *)
(* first, then the native tracker reopens the spool and its sensors run.   *)
RecoverHike ==
  /\ ui = "recoverable" /\ op.kind = "none"
  /\ co.stopped = NotStopped /\ ~co.pendingFinish
  /\ ~native.open /\ manifest # NoSession /\ Readable(spool)
  /\ sm' = InterruptedMachine(sm)
  /\ native' = OpenTracker(spool.good)
  /\ tracker' = [tracker EXCEPT !.session = manifest]
  /\ op' = At("recover", "checkpoint")
  /\ UNCHANGED <<durable, repo, co, ui, history>>

(* recoverUnlocked when the native tracker refuses.                        *)
RecoverRefused ==
  /\ ui = "recoverable" /\ op.kind = "none"
  /\ co.stopped = NotStopped /\ ~co.pendingFinish
  /\ native.open \/ manifest = NoSession \/ ~Readable(spool)
  /\ Active(sm)
  /\ sm' = InterruptedMachine(sm)
  /\ UNCHANGED <<durable, native, tracker, repo, co, op, ui, history>>

(* confirmDiscard: straight to the native tracker.  The spool is removed   *)
(* before the manifest, and the second removal may fail.                   *)
DiscardHike ==
  /\ ui = "recoverable" /\ op.kind = "none"
  /\ ~native.open /\ manifest # NoSession /\ Readable(spool)
  /\ spool' = NoSpool
  /\ discarded' = discarded \cup {manifest}
  /\ \/ manifest' = NoSession /\ ui' = "idle" /\ UNCHANGED faults
     \/ Fault("unlink") /\ UNCHANGED <<manifest, ui>>
  /\ UNCHANGED <<store, checkpoint, native, sm, tracker, repo, co, op,
                 issued, appended, savedNotes>>

(* PlaceJournalService.save: a draft of the library with the entry is      *)
(* written, and the entry is published in memory once that is confirmed.   *)
SaveNote(n) ==
  /\ \/ /\ store' = WithNote(repo, n)
        /\ repo' = WithNote(repo, n)
        /\ savedNotes' = savedNotes \cup {n}
        /\ UNCHANGED faults
     \/ /\ Fault("store")
        /\ store' \in {store, WithNote(repo, n)}
        /\ UNCHANGED <<repo, savedNotes>>
  /\ UNCHANGED <<manifest, spool, checkpoint, native, sm, tracker, co, op, ui,
                 issued, appended, discarded>>

-----------------------------------------------------------------------------
PersistedAsQueued == op.snapshot

(* RecorderPersistence.commit with a checkpoint: activities as they were   *)
(* when the write was queued, the journal as it is when the write runs,    *)
(* and MAX(old, new) of the checkpoint, in one transaction.                *)
PersistedLibrary == [op.snapshot EXCEPT !.journal = repo.journal]

CommitWithoutCheckpoint(highest) ==
  store' = PersistedLibrary /\ UNCHANGED checkpoint

Commit(highest) ==
  /\ store' = PersistedLibrary
  /\ checkpoint' = [checkpoint EXCEPT ![sm.session] = Raised(@, highest)]

Persist(highest) == Commit(highest) /\ UNCHANGED faults

(* The call rejects, because the transaction was rolled back or because    *)
(* applyUserDatabasePolicy threw after COMMIT.                             *)
PersistFails(highest) ==
  /\ Fault("store")
  /\ Commit(highest) \/ UNCHANGED <<store, checkpoint>>

(* The persist of start, resume and pause.                                 *)
SaveLifecycle ==
  /\ op.pc = "lifecycle"
  /\ \/ /\ Persist(sm.highest)
        /\ IF op.kind = "pause"
           THEN ui' = "paused" /\ op' = At("drain", "read")
           ELSE ui' = "recording" /\ op' = Resting
     \/ /\ PersistFails(sm.highest)
        /\ IF op.kind = "pause"
           THEN OperationFails(sm)
           ELSE op' = At(op.kind, "suspend") /\ UNCHANGED ui
  /\ UNCHANGED <<manifest, spool, native, sm, tracker, repo, co,
                 issued, appended, discarded, savedNotes>>

(* pauseUnlocked up to its persist.  The machine is recording whenever the *)
(* native tracker accepts a pause here.                                    *)
HaltSensors ==
  /\ op.pc = "halt"
  /\ \/ /\ native.open /\ ~native.paused /\ sm.kind = "recording"
        /\ native' = [native EXCEPT !.paused = TRUE, !.sensing = FALSE]
        /\ sm' = PausedMachine(sm)
        /\ repo' = WithLifecycle(repo, sm.session, "paused")
        /\ op' = Saving("pause", "lifecycle", repo')
        /\ UNCHANGED ui
     \/ /\ ~native.open \/ native.paused
        /\ OperationFails(sm)
        /\ UNCHANGED <<native, sm, repo>>
  /\ UNCHANGED <<durable, tracker, co, history>>

SuspendMachineOnly ==
  /\ op.pc = "suspend"
  /\ sm' = PausedMachine(sm)
  /\ OperationFails(sm')
  /\ UNCHANGED <<durable, native, tracker, repo, co, history>>

(* suspendAfterFailure.                                                    *)
SuspendSensors ==
  /\ op.pc = "suspend"
  /\ \/ /\ native.open /\ ~native.paused
        /\ native' = [native EXCEPT !.paused = TRUE, !.sensing = FALSE]
        /\ sm' = PausedMachine(sm)
        /\ OperationFails(sm')
     \/ /\ ~native.open \/ native.paused
        /\ op' = At(op.kind, "shutdown")
        /\ UNCHANGED <<native, sm, ui>>
  /\ UNCHANGED <<durable, tracker, repo, co, history>>

(* ... and its fallback, which interrupts the machine only if the native   *)
(* tracker had something to stop.                                          *)
ShutdownSensors ==
  /\ op.pc = "shutdown"
  /\ native' = ClosedTracker
  /\ sm' = [sm EXCEPT !.kind = IF native.open /\ @ = "recording"
                               THEN "recoverable" ELSE @]
  /\ OperationFails(sm')
  /\ UNCHANGED <<durable, tracker, repo, co, history>>

-----------------------------------------------------------------------------
(* synchronizeUnlocked.  Its callers go on with what it returns; all that  *)
(* matters to them is whether that is more than was committed before.      *)
AfterSynchronize(machine, progress) ==
  CASE op.kind = "tick"    -> op' = Resting /\ UNCHANGED ui
    [] op.kind = "pause"   -> op' = At("pause", "halt") /\ UNCHANGED ui
    [] op.kind = "drain"   -> /\ op' = IF progress THEN At("drain", "read")
                                       ELSE Resting
                              /\ UNCHANGED ui
    [] op.kind = "recover" -> op' = Resting /\ ui' = "recording"
    [] OTHER               ->
         IF ~progress THEN OperationFails(machine)
         ELSE /\ op' = At("finish", IF machine.highest = co.stopped
                                    THEN "complete" ELSE "read")
              /\ UNCHANGED ui

ReadFromCommitted == sm.highest

(* What readPendingBatches delivers, and what replayTrackingBatches finds  *)
(* new in it: LastRead is the last observation of the batch.               *)
ReadAfter == tracker.acknowledged
LastRead == BatchEnd(spool, ReadAfter)
NewInBatch == {n \in (ReadAfter + 1) .. LastRead : n > sm.highest}
Gap == NewInBatch # {} /\ ReadAfter > sm.highest

CanRead == Active(sm) /\ manifest # NoSession /\ Deliverable(spool, ReadAfter)

ReadFails ==
  /\ op.pc = "read"
  /\ ~CanRead
  /\ OperationFails(sm)
  /\ UNCHANGED <<durable, native, sm, tracker, repo, co, history>>

EmptyReadIsProgress ==
  /\ op.pc = "read"
  /\ CanRead
  /\ Gap \/ (NewInBatch = {} /\ ~co.dirty)
  /\ AfterSynchronize(sm, TRUE)
  /\ UNCHANGED <<durable, native, sm, tracker, repo, co, history>>

ReadNothing ==
  /\ op.pc = "read"
  /\ CanRead
  /\ Gap \/ (NewInBatch = {} /\ ~co.dirty)
  /\ AfterSynchronize(sm, FALSE)
  /\ UNCHANGED <<durable, native, sm, tracker, repo, co, history>>

ReadBatch ==
  /\ op.pc = "read"
  /\ CanRead
  /\ ~Gap /\ (NewInBatch # {} \/ co.dirty)
  /\ co' = [co EXCEPT !.dirty = TRUE]
  /\ sm' = [sm EXCEPT !.samples = @ \cup NewInBatch,
                      !.highest = IF NewInBatch = {} THEN @ ELSE LastRead]
  /\ repo' = WithSamples(repo, sm.session, NewInBatch)
  /\ op' = [Saving(op.kind, "write", repo') EXCEPT !.before = sm.highest]
  /\ UNCHANGED <<durable, native, tracker, ui, history>>

(* The persist of synchronizeUnlocked, then acknowledge: the adapter only  *)
(* records the number, and refuses one below what it has.                  *)
SaveBatch ==
  /\ op.pc = "write"
  /\ \/ /\ Persist(sm.highest)
        /\ co' = [co EXCEPT !.dirty = FALSE]
        /\ tracker' = [tracker EXCEPT !.acknowledged = Raised(@, sm.highest)]
        /\ AfterSynchronize(sm, sm.highest # op.before)
     \/ /\ PersistFails(sm.highest)
        /\ OperationFails(sm)
        /\ UNCHANGED <<co, tracker>>
  /\ UNCHANGED <<manifest, spool, native, sm, repo, issued, appended,
                 discarded, savedNotes>>

-----------------------------------------------------------------------------
(* The rest of recover.                                                    *)

IsHighest(n, samples) == \A m \in samples : n >= m

HighestOrMinusOne(samples) ==
  IF \E n \in samples : IsHighest(n, samples)
  THEN CHOOSE n \in samples : IsHighest(n, samples) ELSE -1

HighestOf(samples) ==
  IF \E n \in samples : IsHighest(n, samples)
  THEN CHOOSE n \in samples : IsHighest(n, samples) ELSE 0

StartedEmpty(s, samples) ==
  IF sm.kind = "recoverable" /\ sm.session = s
  THEN [sm EXCEPT !.kind = "recording"]
  ELSE [kind |-> "recording", session |-> s, highest |-> HighestOf(samples),
        samples |-> {}]

(* The machine continues the session it was interrupted in, or starts anew *)
(* with the samples the library has.                                       *)
RecoveredMachine(s, samples) ==
  IF sm.kind = "recoverable" /\ sm.session = s
  THEN [sm EXCEPT !.kind = "recording"]
  ELSE [kind |-> "recording", session |-> s, highest |-> HighestOf(samples),
        samples |-> samples]

(* Either way the library is marked for rewriting, so that it is durable   *)
(* before the next acknowledgement.                                        *)
LoadCheckpoint ==
  /\ op.pc = "checkpoint"
  /\ \/ LET s == tracker.session IN
        /\ tracker' = [tracker EXCEPT !.acknowledged = checkpoint[s]]
        /\ sm' = RecoveredMachine(s, repo.activity[s].samples)
        /\ repo' = WithLifecycle(repo, s, "recovered")
        /\ co' = [co EXCEPT !.dirty = TRUE]
        /\ op' = At("recover", "read")
        /\ UNCHANGED <<faults, ui>>
     \/ /\ Fault("store")
        /\ OperationFails(sm)
        /\ UNCHANGED <<tracker, sm, repo, co>>
  /\ UNCHANGED <<durable, native, issued, appended, discarded, savedNotes>>

-----------------------------------------------------------------------------
(* finishUnlocked and commitPendingFinish.                                 *)

StopsOnlyOnce == native.open

(* tracker.finish unless an earlier attempt already stopped the session.   *)
CanStop == native.open \/ co.stopped # NotStopped

StopSensors ==
  /\ op.pc = "stop"
  /\ \/ /\ CanStop
        /\ co' = [co EXCEPT !.stopped =
                    IF @ = NotStopped THEN native.sequence ELSE @]
        /\ native' = ClosedTracker
        /\ sm' = PausedMachine(sm)
        /\ op' = At("finish", IF sm.highest = co'.stopped
                              THEN "complete" ELSE "read")
        /\ UNCHANGED ui
     \/ /\ ~CanStop
        /\ OperationFails(sm)
        /\ UNCHANGED <<co, native, sm>>
  /\ UNCHANGED <<durable, tracker, repo, history>>

(* The machine and the library are finished in memory; a second derived    *)
(* revision 1 of one activity is refused (DUPLICATE_CONFLICT).             *)
CompleteFinish ==
  /\ op.pc = "complete"
  /\ sm' = [sm EXCEPT !.kind = "finished"]
  /\ LET finished == WithLifecycle(repo, sm.session, "finished") IN
     \/ /\ ~repo.activity[sm.session].revised
        /\ repo' = WithRevision(finished, sm.session)
        /\ co' = [co EXCEPT !.pendingFinish = TRUE]
        /\ op' = Saving("finish", "final", repo')
        /\ UNCHANGED ui
     \/ /\ repo.activity[sm.session].revised
        /\ repo' = finished
        /\ OperationFails(sm')
        /\ UNCHANGED co
  /\ UNCHANGED <<durable, native, tracker, history>>

SealRegardless ==
  /\ op.pc = "final"
  /\ Persist(co.stopped) \/ PersistFails(co.stopped)
  /\ op' = At("finish", "seal")
  /\ UNCHANGED <<manifest, spool, native, sm, tracker, repo, co, ui,
                 issued, appended, discarded, savedNotes>>

SaveFinish ==
  /\ op.pc = "final"
  /\ \/ Persist(co.stopped) /\ op' = At("finish", "seal") /\ UNCHANGED ui
     \/ PersistFails(co.stopped) /\ OperationFails(sm)
  /\ UNCHANGED <<manifest, spool, native, sm, tracker, repo, co,
                 issued, appended, discarded, savedNotes>>

(* OpenOutdoorActiveSpool.seal accepts only a checkpoint that covers the   *)
(* whole spool.  It removes the spool, then the manifest.                  *)
CoversSpool ==
  manifest = sm.session /\ Readable(spool) /\ spool.good = co.stopped

SealSpool ==
  /\ op.pc = "seal"
  /\ \/ /\ CoversSpool
        /\ spool' = NoSpool
        /\ manifest' = NoSession
        /\ tracker' = IdleAdapter
        /\ co' = IdleControl
        /\ op' = Resting
        /\ ui' = "idle"
        /\ UNCHANGED faults
     \/ /\ CoversSpool
        /\ Fault("unlink")
        /\ spool' = NoSpool
        /\ OperationFails(sm)
        /\ UNCHANGED <<manifest, tracker, co>>
     \/ /\ Fault("seal")
        /\ OperationFails(sm)
        /\ UNCHANGED <<spool, manifest, tracker, co>>
     \/ /\ ~CoversSpool
        /\ OperationFails(sm)
        /\ UNCHANGED <<spool, manifest, tracker, co, faults>>
  /\ UNCHANGED <<store, checkpoint, native, sm, repo,
                 issued, appended, discarded, savedNotes>>

-----------------------------------------------------------------------------
Environment == Locate \/ AppendFails \/ LosePermission \/ SensorFault
                 \/ Relaunch

User == \/ \E s \in Sessions : StartHike(s)
        \/ RefreshTick \/ PauseRequest \/ ResumeHike \/ ResumeFails
        \/ FinishRequest \/ RecoverHike \/ RecoverRefused \/ DiscardHike
        \/ \E n \in Notes : SaveNote(n)

Coordinator == \/ SaveLifecycle \/ HaltSensors
               \/ SuspendSensors \/ ShutdownSensors
               \/ ReadFails \/ ReadNothing \/ ReadBatch \/ SaveBatch
               \/ LoadCheckpoint
               \/ StopSensors \/ CompleteFinish \/ SaveFinish \/ SealSpool

Next == Environment \/ User \/ Coordinator

Spec == Init /\ [][Next]_vars

(* Promise reactions run and native calls return, so an operation under    *)
(* way always takes its next step; nothing else is promised by the code.   *)
ServedSpec == Spec /\ WF_vars(Coordinator)

(* ... and a user who keeps pressing Finish whenever App offers it: an     *)
(* assumption about the user under which saving can be asked for at all.   *)
FinishingSpec == ServedSpec /\ SF_vars(FinishRequest)

-----------------------------------------------------------------------------
(* What must never happen.                                                 *)

UpTo(n) == 1 .. n

(* A checkpoint in SQLite never runs ahead of the samples stored with it:  *)
(* recovery reads the spool only from there on, so whatever lies below is  *)
(* in the library or nowhere (commitTrackingSnapshot, recoverUnlocked).    *)
CheckpointBacked ==
  \A s \in Sessions : UpTo(checkpoint[s]) \subseteq store.activity[s].samples

(* The adapter acknowledges, and so never asks again for, only what a      *)
(* checkpoint covers; a reported failure of the write acknowledges nothing *)
(* (synchronizeUnlocked).                                                  *)
AcknowledgedDurable ==
  tracker.session # NoSession =>
    tracker.acknowledged <= checkpoint[tracker.session]

(* Whatever was synchronized to the spool is, until the user discards it,  *)
(* in the library or in a spool that recovery can read, through failed     *)
(* writes, revoked permissions and relaunches at any point.                *)
NothingLost ==
  \A s \in issued \ discarded :
    UpTo(appended[s]) \subseteq
      store.activity[s].samples \cup
        (IF manifest = s /\ Readable(spool) THEN UpTo(spool.good) ELSE {})

(* A spool goes away only for an activity that is stored as finished, with *)
(* its derived revision and with every observation of the hike, or because *)
(* the user discarded it (finalize after the last persist).                *)
SealedIsSaved ==
  \A s \in issued \ discarded :
    manifest # s \/ ~spool.present =>
      /\ store.activity[s].lifecycle = "finished"
      /\ store.activity[s].revised
      /\ UpTo(appended[s]) \subseteq store.activity[s].samples

(* The statistics of a hike are computed from the observations of the      *)
(* state machine and stored beside the samples of the library: the two are *)
(* the same set at all times, retries and recoveries included.             *)
CommittedMatchesLibrary ==
  sm.session # NoSession =>
    sm.samples = repo.activity[sm.session].samples

(* The library in memory is never more than one batch ahead of the durable *)
(* checkpoint, however many writes fail.                                   *)
OneBatchAhead ==
  \A s \in Sessions :
    repo.activity[s].samples \subseteq UpTo(checkpoint[s] + BatchLimit)

(* A journal entry whose save succeeded is never undone by a checkpoint    *)
(* that was prepared before it (createPrivatePersistence).                 *)
JournalDurable == savedNotes \subseteq store.journal

(* While App shows a paused hike and nothing is under way, the sensors are *)
(* stopped, whichever failure led there (suspendAfterFailure).             *)
PausedIsSilent ==
  ui = "paused" /\ op.kind = "none" => ~native.sensing

(* A finish that was accepted stays retryable: the stop result is kept,    *)
(* the spool it refers to is closed, and the machine holds no more than    *)
(* that final sequence.                                                    *)
StoppedStaysSealed ==
  co.stopped # NotStopped =>
    /\ ~native.open
    /\ sm.highest <= co.stopped
    /\ manifest = sm.session /\ spool.present => spool.good = co.stopped

(* What App and the coordinator believe of the tracker is so.              *)
TrackerFollows == PausedIsSilent /\ StoppedStaysSealed

-----------------------------------------------------------------------------
(* What every step must respect, and what must eventually happen.          *)

(* The promise of HikePromise: every observation that reached the disk     *)
(* stays known, the library grows by prefixes of it, and a hike is closed  *)
(* only with all of it stored.                                             *)
HikeStatus ==
  [s \in Sessions |-> CASE s \notin issued \cup discarded      -> "new"
                       [] s \in discarded                     -> "abandoned"
                       [] manifest = s /\ s \in issued \ discarded -> "open"
                       [] OTHER                               -> "closed"]

StoredSamples == [s \in Sessions |-> store.activity[s].samples]

Promise == INSTANCE HikePromise WITH Hikes    <- Sessions,
                                     observed <- appended,
                                     saved    <- StoredSamples,
                                     status   <- HikeStatus

PromiseKept == Promise!Spec

(* The coordinator runs one operation at a time, so one that never settled *)
(* would block every later one: each loop of synchronizations ends.        *)
OperationsEnd == (op.kind # "none") ~> (op.kind = "none")

(* A hike whose start was reached is saved as finished and its spool is    *)
(* sealed, however writes and the sealing itself failed before (the retry  *)
(* state of finishUnlocked and commitPendingFinish).                       *)
HikeIsSaved ==
  \A s \in Sessions :
    (manifest = s) ~> (/\ manifest # s
                       /\ store.activity[s].lifecycle = "finished")

=============================================================================
