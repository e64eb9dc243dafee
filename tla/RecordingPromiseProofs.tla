----------------------- MODULE RecordingPromiseProofs -----------------------
(***************************************************************************)
(* What recording promises, for every number of sessions and notes, every  *)
(* batch limit and every fault except a line of the spool that is written  *)
(* in part: App and the coordinator are right about the tracker, nothing   *)
(* that reached the spool is lost, a spool is removed only for an activity *)
(* that is saved, and the pipeline implements HikePromise.                 *)
(***************************************************************************)
EXTENDS RecordingPipelineProofs

(* Writes of the spool are all or nothing; see RecordingClaims for what    *)
(* the code does with a line that is not.                                  *)
Orderly == "torn" \notin Faults

-----------------------------------------------------------------------------
(* The coordinator's operations and what they know of the tracker.         *)

(* Which operation may wait where, and what it has on the screen.          *)
PointsOK ==
  /\ op.pc = "halt" => op.kind = "pause"
  /\ op.pc = "checkpoint" => op.kind = "recover" /\ co.stopped = NotStopped
  /\ op.pc = "lifecycle" => op.kind \in {"start", "resume", "pause"}
  /\ op.pc \in {"suspend", "shutdown"} => op.kind \in {"start", "resume"}
  /\ op.pc \in {"read", "write"} =>
       op.kind \in {"tick", "pause", "drain", "recover", "finish"}
  /\ op.pc \in {"stop", "complete", "final", "seal"} => op.kind = "finish"
  /\ op.kind = "finish" => ui \in {"recording", "paused"}

(* Once the tracker is stopped it stays closed, and while App shows a      *)
(* paused hike only a resume can have started the sensors.                 *)
QuietOK ==
  /\ native.sensing => native.open
  /\ co.stopped # NotStopped => ~native.open
  /\ op.kind = "finish" /\ op.pc # "stop" => ~native.open
  /\ ui = "paused" /\ native.sensing => op.kind = "resume"
  /\ op.kind = "pause" /\ op.pc = "lifecycle" => ~native.sensing

ControlOK == PointsOK /\ QuietOK

LEMMA InitControl == Init => ControlOK
BY DEF Init, ControlOK, PointsOK, QuietOK, Resting, At, ClosedTracker,
       IdleControl

LEMMA EnvironmentControl ==
  ASSUME DurableInv, ControlOK, Environment
  PROVE  ControlOK'
<1> USE DEF ControlOK, PointsOK, QuietOK
<1>1. CASE Relaunch
  BY <1>1 DEF Relaunch, Resting, At, ClosedTracker, IdleControl
<1>2. CASE AppendFails \/ LosePermission
  BY <1>2 DEF AppendFails, LosePermission, ClosedTracker
<1>3. CASE Locate \/ SensorFault
  <2>1. native'.open = native.open /\ (native'.sensing => native.sensing)
    BY <1>3 DEF Locate, SensorFault, DurableInv, TypeInv, TypeOK, NativeTracker
  <2>2. UNCHANGED <<op, ui, co>>
    BY <1>3 DEF Locate, SensorFault
  <2> QED BY <2>1, <2>2
<1> QED BY <1>1, <1>2, <1>3 DEF Environment

LEMMA UserControl ==
  ASSUME DurableInv, ControlOK, User
  PROVE  ControlOK'
<1> USE DEF ControlOK, PointsOK, QuietOK
<1>1. ASSUME NEW s \in Sessions, StartHike(s)
      PROVE  ControlOK'
  <2>1. co'.stopped = NotStopped /\ native'.open /\ ui' = "idle"
    BY <1>1 DEF StartHike, OpenTracker, DurableInv, TypeInv, TypeOK, Control
  <2>2. op'.kind = "start" /\ op'.pc = "lifecycle"
    BY <1>1 DEF StartHike, Saving
  <2> QED BY <2>1, <2>2
<1>2. CASE RefreshTick \/ PauseRequest
  BY <1>2 DEF RefreshTick, PauseRequest, At
<1>3. CASE ResumeHike
  <2>1. native'.open /\ op'.kind = "resume" /\ op'.pc = "lifecycle"
    BY <1>3 DEF ResumeHike, Saving, DurableInv, TypeInv, TypeOK, NativeTracker
  <2> QED BY <1>3, <2>1 DEF ResumeHike
<1>4. CASE ResumeFails
  BY <1>4 DEF ResumeFails, At
<1>5. CASE FinishRequest
  <2>1. co.pendingFinish => co.stopped # NotStopped
    BY DEF DurableInv, OperationOK, TypeInv, TypeOK, Machine, NotStopped
  <2>2. op'.kind = "finish" /\ (op'.pc = "stop" \/ co.pendingFinish)
        /\ op'.pc \in {"stop", "final"}
    BY <1>5 DEF FinishRequest, At, Saving
  <2> QED BY <1>5, <2>1, <2>2 DEF FinishRequest, history
<1>6. CASE RecoverHike
  BY <1>6 DEF RecoverHike, At, OpenTracker
<1>7. CASE RecoverRefused
  BY <1>7 DEF RecoverRefused
<1>8. CASE DiscardHike
  BY <1>8 DEF DiscardHike, DurableInv, OperationOK
<1>9. ASSUME NEW n \in Notes, SaveNote(n)
      PROVE  ControlOK'
  BY <1>9 DEF SaveNote
<1> QED
  BY <1>1, <1>2, <1>3, <1>4, <1>5, <1>6, <1>7, <1>8, <1>9 DEF User

(* How an operation ends, or goes on after a synchronization.              *)
LEMMA FailControl ==
  ASSUME ControlOK, NEW m, OperationFails(m), UNCHANGED co,
         native'.sensing => native'.open,
         co.stopped # NotStopped => ~native'.open,
         \/ ui # "paused" /\ op.kind \notin {"start", "finish"}
         \/ ~native'.sensing
  PROVE  ControlOK'
BY DEF ControlOK, PointsOK, QuietOK, OperationFails, Resting, At

LEMMA AfterControl ==
  ASSUME ControlOK, NEW m, NEW progress \in BOOLEAN,
         AfterSynchronize(m, progress), op.pc \in {"read", "write"},
         co'.stopped = co.stopped, UNCHANGED native
  PROVE  ControlOK'
<1>1. CASE op.kind = "finish" /\ ~progress
  BY <1>1 DEF AfterSynchronize, OperationFails, Resting, At, ControlOK,
              PointsOK, QuietOK
<1>2. CASE op.kind = "finish" /\ progress
  BY <1>2 DEF AfterSynchronize, At, ControlOK, PointsOK, QuietOK
<1>3. CASE op.kind \in {"tick", "pause", "drain", "recover"}
  BY <1>3 DEF AfterSynchronize, Resting, At, ControlOK, PointsOK, QuietOK
<1> QED BY <1>1, <1>2, <1>3 DEF ControlOK, PointsOK

LEMMA CoordinatorControl ==
  ASSUME DurableInv, ControlOK, Coordinator
  PROVE  ControlOK'
<1> USE DEF ControlOK, PointsOK, QuietOK
<1>0. co.pendingFinish => co.stopped # NotStopped
  BY DEF DurableInv, OperationOK, TypeInv, TypeOK, Machine, NotStopped
<1>1. CASE SaveLifecycle
  BY <1>1 DEF SaveLifecycle, OperationFails, Resting, At
<1>2. CASE HaltSensors
  <2>1. CASE op' = Saving("pause", "lifecycle", repo')
    <3>1. native'.open = native.open /\ ~native'.sensing
      BY <1>2, <2>1 DEF HaltSensors, OperationFails, Saving, Resting, At,
         DurableInv, TypeInv, TypeOK, NativeTracker
    <3> QED BY <1>2, <2>1, <3>1 DEF HaltSensors, Saving, OperationFails
  <2>2. CASE OperationFails(sm) /\ UNCHANGED native
    BY <1>2, <2>2, FailControl DEF HaltSensors
  <2> QED BY <1>2, <2>1, <2>2 DEF HaltSensors
<1>3. CASE SuspendSensors
  <2>1. CASE native' = [native EXCEPT !.paused = TRUE, !.sensing = FALSE]
             /\ op' = Resting
    <3>1. native'.open = native.open /\ ~native'.sensing
      BY <2>1 DEF DurableInv, TypeInv, TypeOK, NativeTracker
    <3> QED BY <1>3, <2>1, <3>1 DEF SuspendSensors, Resting, At
  <2>2. CASE op' = At(op.kind, "shutdown") /\ UNCHANGED <<native, ui>>
    BY <1>3, <2>2 DEF SuspendSensors, At
  <2> QED BY <1>3, <2>1, <2>2 DEF SuspendSensors, OperationFails
<1>4. CASE ShutdownSensors
  BY <1>4 DEF ShutdownSensors, OperationFails, Resting, At, ClosedTracker
<1>5. CASE ReadFails
  BY <1>5 DEF ReadFails, OperationFails, Resting, At
<1>6. CASE ReadNothing
  BY <1>6, AfterControl DEF ReadNothing
<1>7. CASE ReadBatch
  <2>1. op'.kind = op.kind /\ op'.pc = "write" /\ co'.stopped = co.stopped
    BY <1>7 DEF ReadBatch, Saving, DurableInv, TypeInv, TypeOK, Control
  <2> QED BY <1>7, <2>1 DEF ReadBatch
<1>8. CASE SaveBatch
  <2>1. CASE OperationFails(sm) /\ UNCHANGED co
    BY <1>8, <2>1 DEF SaveBatch, OperationFails, Resting, At
  <2>2. CASE ~(OperationFails(sm) /\ UNCHANGED co)
    <3>1. co'.stopped = co.stopped
      BY <1>8, <2>2 DEF SaveBatch, DurableInv, TypeInv, TypeOK, Control
    <3> QED BY <1>8, <2>2, <3>1, AfterControl DEF SaveBatch
  <2> QED BY <2>1, <2>2
<1>9. CASE LoadCheckpoint
  <2>1. co'.stopped = co.stopped
    BY <1>9 DEF LoadCheckpoint, DurableInv, TypeInv, TypeOK, Control
  <2> QED BY <1>9, <2>1 DEF LoadCheckpoint, OperationFails, Resting, At
<1>10. CASE StopSensors
  BY <1>10 DEF StopSensors, CanStop, OperationFails, Resting, At, ClosedTracker
<1>11. CASE CompleteFinish
  <2>1. co'.stopped = co.stopped
    BY <1>11 DEF CompleteFinish, DurableInv, TypeInv, TypeOK, Control
  <2> QED
    BY <1>11, <2>1 DEF CompleteFinish, OperationFails, Resting, At, Saving
<1>12. CASE SaveFinish
  BY <1>12 DEF SaveFinish, OperationFails, Resting, At
<1>13. CASE SealSpool
  BY <1>13 DEF SealSpool, OperationFails, Resting, At, IdleControl
<1> QED
  BY <1>1, <1>2, <1>3, <1>4, <1>5, <1>6, <1>7, <1>8, <1>9, <1>10, <1>11,
     <1>12, <1>13 DEF Coordinator

LEMMA NextControl == DurableInv /\ ControlOK /\ [Next]_vars => ControlOK'
<1>1. ControlOK /\ UNCHANGED vars => ControlOK'
  BY DEF ControlOK, PointsOK, QuietOK, vars
<1> QED
  BY <1>1, EnvironmentControl, UserControl, CoordinatorControl DEF Next

-----------------------------------------------------------------------------
(* The two libraries.                                                      *)

(* Whose activity the library in memory may change for: a new session, the *)
(* machine's, or the one that is being recovered.                          *)
Written(s) == \/ s \notin issued
              \/ Active(sm) /\ s = sm.session
              \/ op.pc = "checkpoint" /\ s = tracker.session

StoreFollows  == store'.activity = repo.activity
                   /\ repo'.activity = repo.activity
MemoryChanges == UNCHANGED store
                   /\ \A s \in Sessions : ~Written(s) =>
                        repo'.activity[s] = repo.activity[s]

LEMMA LifecycleTouches ==
  ASSUME NEW snap \in Snapshot, NEW s, NEW l, NEW t \in Sessions, t # s
  PROVE  WithLifecycle(snap, s, l).activity[t] = snap.activity[t]
BY DEF WithLifecycle, Snapshot

LEMMA CommitFollows ==
  ASSUME DurableInv, NEW n, Commit(n), UNCHANGED repo,
         op.pc \in {"lifecycle", "write", "final"}
  PROVE  StoreFollows
BY DEF DurableInv, OperationOK, TypeInv, TypeOK, Commit, PersistedLibrary,
       StoreFollows, Operation, Snapshot

LEMMA LibraryStep ==
  ASSUME DurableInv, [Next]_vars
  PROVE  Relaunch \/ StoreFollows \/ MemoryChanges
<1> USE DEF MemoryChanges
<1>0. repo \in Snapshot
  BY DEF DurableInv, TypeInv, TypeOK
<1>1. CASE \E s \in Sessions : StartHike(s)
  <2> PICK s \in Sessions : StartHike(s)
    BY <1>1
  <2> QED BY <1>0, LifecycleTouches DEF StartHike, Written
<1>2. CASE ResumeHike \/ HaltSensors
  <2>1. Active(sm) \/ repo' = repo
    BY <1>2 DEF ResumeHike, HaltSensors, Active
  <2> QED
    BY <1>0, <1>2, <2>1, LifecycleTouches
       DEF ResumeHike, HaltSensors, durable, Written
<1>3. CASE \E n \in Notes : SaveNote(n)
  <2> PICK n \in Notes : SaveNote(n)
    BY <1>3
  <2>1. WithNote(repo, n).activity = repo.activity
    BY <1>0, NoteFrame
  <2> QED BY <2>1 DEF SaveNote, StoreFollows
<1>4. CASE SaveLifecycle \/ SaveBatch \/ SaveFinish
  <2>1. /\ op.pc \in {"lifecycle", "write", "final"} /\ UNCHANGED repo
        /\ Commit(sm.highest) \/ Commit(co.stopped) \/ UNCHANGED store
    BY <1>4 DEF SaveLifecycle, SaveBatch, SaveFinish, Persist, PersistFails
  <2> QED BY <2>1, CommitFollows
<1>5. CASE ReadBatch
  <2>1. Active(sm) /\ UNCHANGED store
    BY <1>5 DEF ReadBatch, CanRead, durable
  <2> QED
    BY <1>0, <1>5, <2>1 DEF ReadBatch, Written, WithSamples, Snapshot
<1>6. CASE LoadCheckpoint
  BY <1>0, <1>6, LifecycleTouches DEF LoadCheckpoint, durable, Written
<1>7. CASE CompleteFinish
  <2>1. Active(sm) /\ UNCHANGED store
    BY <1>7 DEF CompleteFinish, durable, DurableInv, OperationOK
  <2>2. WithLifecycle(repo, sm.session, "finished") \in Snapshot
    BY <1>0, WithLifecycleType DEF Lifecycles
  <2>3. \A t \in Sessions : t # sm.session =>
          WithRevision(WithLifecycle(repo, sm.session, "finished"),
                       sm.session).activity[t]
            = WithLifecycle(repo, sm.session, "finished").activity[t]
    BY <2>2 DEF WithRevision, Snapshot
  <2> QED
    BY <1>0, <1>7, <2>1, <2>3, LifecycleTouches DEF CompleteFinish, Written
<1>8. CASE Locate \/ AppendFails \/ LosePermission \/ SensorFault
             \/ RefreshTick \/ PauseRequest \/ ResumeFails \/ FinishRequest
             \/ RecoverHike \/ RecoverRefused \/ DiscardHike
             \/ SuspendSensors \/ ShutdownSensors \/ ReadFails \/ ReadNothing
             \/ StopSensors \/ SealSpool \/ UNCHANGED vars
  <2>1. UNCHANGED <<store, repo>>
    BY <1>8
       DEF Locate, AppendFails, LosePermission, SensorFault, RefreshTick,
           PauseRequest, ResumeFails, FinishRequest, RecoverHike,
           RecoverRefused, DiscardHike, SuspendSensors, ShutdownSensors,
           ReadFails, ReadNothing, StopSensors, SealSpool, vars, durable
  <2> QED BY <2>1
<1> QED
  BY <1>1, <1>2, <1>3, <1>4, <1>5, <1>6, <1>7, <1>8
     DEF Next, Environment, User, Coordinator

-----------------------------------------------------------------------------
(* The spool.                                                              *)

(* Without a line in part, the spool has what was appended, the tracker    *)
(* that is open has it open, and a discarded hike has none.                *)
SpoolOK ==
  /\ spool.tail = "clean"
  /\ discarded \subseteq issued
  /\ \A s \in Sessions \ issued : appended[s] = 0
  /\ manifest # NoSession /\ spool.present =>
       spool.good = appended[manifest] /\ manifest \notin discarded
  /\ native.open => /\ manifest # NoSession /\ spool.present
                    /\ native.sequence = spool.good

(* What was appended grows only with the spool of the manifest.            *)
AppendedGrows ==
  \/ UNCHANGED <<spool, appended>>
  \/ /\ manifest # NoSession /\ spool.present /\ UNCHANGED manifest
     /\ spool' = [spool EXCEPT !.good = @ + 1]
     /\ appended' = [appended EXCEPT ![manifest] = @ + 1]

LEMMA InitSpool == Init => SpoolOK
BY DEF Init, SpoolOK, NoSpool, ClosedTracker

LEMMA OrderlyAppends ==
  ASSUME Orderly, NEW sp \in Spool, sp.tail = "clean"
  PROVE  /\ AppendLine(sp) = [sp EXCEPT !.good = @ + 1]
         /\ InterruptedAppends(sp, Tearing) = {sp, AppendLine(sp)}
BY DEF Orderly, AppendLine, InterruptedAppends, Tearing

LEMMA AppendStep ==
  ASSUME Orderly, TypeInv, SpoolOK,
         Locate \/ AppendFails \/ Relaunch
  PROVE  AppendedGrows /\ UNCHANGED <<manifest, issued, discarded>>
<1>1. UNCHANGED <<manifest, issued, discarded>>
  BY DEF Locate, AppendFails, Relaunch
<1>2. spool \in Spool /\ appended \in [Sessions -> Nat]
      /\ manifest \in SessionOrNone
  BY DEF TypeInv, TypeOK
<1>3. CASE Locate
  <2>1. spool' = [spool EXCEPT !.good = @ + 1]
    BY <1>2, <1>3, OrderlyAppends DEF Locate, SpoolOK
  <2>2. native.sequence = appended[manifest] /\ manifest # NoSession
        /\ spool.present
    BY <1>3 DEF Locate, SpoolOK
  <2> QED BY <1>1, <1>2, <1>3, <2>1, <2>2 DEF Locate, AppendedGrows
<1>4. CASE ~(spool' = spool /\ appended' = appended)
             /\ (AppendFails \/ Relaunch)
  <2>1. native.open /\ spool' \in InterruptedAppends(spool, Tearing)
        /\ appended' = Reached
    BY <1>4 DEF AppendFails, Relaunch
  <2>2. manifest # NoSession /\ spool.present
        /\ spool.good = appended[manifest] /\ spool.tail = "clean"
        /\ manifest \in Sessions
    BY <1>2, <2>1 DEF SpoolOK, SessionOrNone
  <2>3. spool' \in {spool, [spool EXCEPT !.good = @ + 1]}
    BY <1>2, <2>1, <2>2, OrderlyAppends
  <2>4. CASE spool' = spool
    BY <1>2, <1>4, <2>1, <2>2, <2>4 DEF Reached, Raised
  <2>5. CASE spool' = [spool EXCEPT !.good = @ + 1]
    <3>1. spool'.good = appended[manifest] + 1 /\ appended[manifest] \in Nat
      BY <1>2, <2>2, <2>5 DEF Spool
    <3>2. Raised(appended[manifest], spool'.good) = appended[manifest] + 1
      BY <3>1 DEF Raised
    <3>3. appended' = [appended EXCEPT ![manifest] = @ + 1]
      BY <2>1, <3>2 DEF Reached
    <3> QED BY <1>1, <2>2, <2>5, <3>3 DEF AppendedGrows
  <2> QED BY <2>3, <2>4, <2>5
<1>5. CASE spool' = spool /\ appended' = appended
  BY <1>1, <1>5 DEF AppendedGrows
<1> QED BY <1>3, <1>4, <1>5

LEMMA SpoolKept ==
  ASSUME TypeInv, SpoolOK, AppendedGrows,
         UNCHANGED <<manifest, issued, discarded>>,
         manifest \in issued \cup {NoSession},
         native'.open => native.open /\ native'.sequence = spool'.good
  PROVE  SpoolOK'
<1>1. spool \in Spool /\ appended \in [Sessions -> Nat]
      /\ manifest \in SessionOrNone
  BY DEF TypeInv, TypeOK
<1>2. CASE UNCHANGED <<spool, appended>>
  BY <1>2 DEF SpoolOK
<1>3. CASE /\ manifest # NoSession /\ spool.present
           /\ spool' = [spool EXCEPT !.good = @ + 1]
           /\ appended' = [appended EXCEPT ![manifest] = @ + 1]
  <2>1. /\ spool'.good = spool.good + 1 /\ spool'.present = spool.present
        /\ spool'.tail = spool.tail
    BY <1>1, <1>3 DEF Spool
  <2>2. /\ appended'[manifest] = appended[manifest] + 1
        /\ \A s \in Sessions \ {manifest} : appended'[s] = appended[s]
    BY <1>1, <1>3 DEF SessionOrNone
  <2> QED BY <1>1, <1>3, <2>1, <2>2 DEF SpoolOK
<1> QED BY <1>2, <1>3 DEF AppendedGrows

LEMMA NextSpool ==
  ASSUME Orderly, DurableInv, ControlOK, SpoolOK, [Next]_vars
  PROVE  SpoolOK'
<1>0. TypeInv /\ native \in NativeTracker /\ spool \in Spool
      /\ manifest \in issued \cup {NoSession}
  BY DEF DurableInv, TypeInv, TypeOK, AdapterOK
<1>1. CASE Locate \/ AppendFails \/ Relaunch
  <2>1. native'.open => native.open /\ native'.sequence = spool'.good
    <3>1. CASE Locate
      <4>1. spool' = [spool EXCEPT !.good = @ + 1]
        BY <1>0, <3>1, OrderlyAppends DEF Locate, SpoolOK
      <4>2. spool'.good = spool.good + 1
        BY <1>0, <4>1 DEF Spool
      <4>3. native'.sequence = native.sequence + 1
        BY <1>0, <3>1 DEF Locate, NativeTracker
      <4> QED BY <3>1, <4>2, <4>3 DEF Locate, SpoolOK
    <3>2. CASE AppendFails \/ Relaunch
      BY <3>2 DEF AppendFails, Relaunch, ClosedTracker
    <3> QED BY <1>1, <3>1, <3>2
  <2> QED BY <1>0, <1>1, <2>1, AppendStep, SpoolKept
<1>2. CASE \E s \in Sessions : StartHike(s)
  <2> PICK s \in Sessions : StartHike(s)
    BY <1>2
  <2>1. /\ s \notin issued /\ issued' = issued \cup {s} /\ manifest' = s
        /\ s # NoSession /\ UNCHANGED <<appended, discarded>>
    BY ConstantsAssumption DEF StartHike
  <2>2. /\ spool'.tail = "clean" /\ spool'.present /\ spool'.good = 0
        /\ native'.sequence = 0
    BY DEF StartHike, FreshSpool, OpenTracker
  <2> QED BY <2>1, <2>2 DEF SpoolOK
<1>3. CASE RecoverHike
  BY <1>0, <1>3 DEF RecoverHike, OpenTracker, SpoolOK, Readable, durable, history
<1>4. CASE DiscardHike
  <2>1. ~native.open /\ manifest \in issued /\ spool' = NoSpool
        /\ discarded' = discarded \cup {manifest}
        /\ UNCHANGED <<native, issued, appended>>
    BY <1>0, <1>4 DEF DiscardHike
  <2> QED BY <2>1 DEF SpoolOK, NoSpool
<1>5. CASE SealSpool
  <2>1. UNCHANGED <<native, issued, appended, discarded>>
    BY <1>5 DEF SealSpool
  <2>2. \/ UNCHANGED <<spool, manifest>>
        \/ spool' = NoSpool
    BY <1>5 DEF SealSpool
  <2>3. CASE UNCHANGED <<spool, manifest>>
    BY <2>1, <2>3 DEF SpoolOK
  <2>4. CASE spool' = NoSpool
    <3>1. ~native.open
      BY <1>5 DEF SealSpool, ControlOK, PointsOK, QuietOK
    <3> QED BY <2>1, <2>4, <3>1 DEF SpoolOK, NoSpool
  <2> QED BY <2>2, <2>3, <2>4
<1>6. CASE \/ LosePermission \/ SensorFault \/ ResumeHike \/ HaltSensors
           \/ SuspendSensors \/ ShutdownSensors \/ StopSensors
  <2>1. native'.open => native.open /\ native'.sequence = native.sequence
    <3>1. CASE LosePermission \/ ShutdownSensors \/ StopSensors
      BY <3>1 DEF LosePermission, ShutdownSensors, StopSensors, ClosedTracker
    <3>2. CASE SensorFault \/ ResumeHike
      BY <1>0, <3>2 DEF SensorFault, ResumeHike, NativeTracker
    <3>3. CASE HaltSensors \/ SuspendSensors
      BY <1>0, <3>3 DEF HaltSensors, SuspendSensors, NativeTracker
    <3> QED BY <1>6, <3>1, <3>2, <3>3
  <2>2. UNCHANGED <<manifest, spool, appended, issued, discarded>>
    BY <1>6 DEF LosePermission, SensorFault, ResumeHike, HaltSensors,
       SuspendSensors, ShutdownSensors, StopSensors, durable, history
  <2> QED BY <2>1, <2>2 DEF SpoolOK
<1>7. CASE \/ RefreshTick \/ PauseRequest \/ ResumeFails \/ FinishRequest
           \/ RecoverRefused \/ (\E n \in Notes : SaveNote(n))
           \/ SaveLifecycle \/ ReadFails \/ ReadNothing \/ ReadBatch
           \/ SaveBatch \/ LoadCheckpoint \/ CompleteFinish \/ SaveFinish
           \/ UNCHANGED vars
  <2>1. UNCHANGED <<manifest, spool, appended, issued, discarded, native>>
    BY <1>7 DEF RefreshTick, PauseRequest, ResumeFails, FinishRequest,
       RecoverRefused, SaveNote, SaveLifecycle, ReadFails, ReadNothing,
       ReadBatch, SaveBatch, LoadCheckpoint, CompleteFinish, SaveFinish, vars,
       durable, history
  <2> QED BY <2>1 DEF SpoolOK
<1> QED
  BY <1>1, <1>2, <1>3, <1>4, <1>5, <1>6, <1>7
     DEF Next, Environment, User, Coordinator

LEMMA AppendedStep ==
  ASSUME Orderly, DurableInv, SpoolOK, [Next]_vars
  PROVE  /\ UNCHANGED appended \/ AppendedGrows
         /\ \A s \in Sessions :
              /\ appended'[s] \in Nat /\ appended[s] \in Nat
              /\ appended[s] <= appended'[s]
              /\ appended'[s] # appended[s] =>
                   manifest = s /\ spool.present /\ manifest' = s
<1>0. appended \in [Sessions -> Nat] /\ manifest \in SessionOrNone
  BY DEF DurableInv, TypeInv, TypeOK
<1>1. UNCHANGED appended \/ AppendedGrows
  <2>1. CASE Locate \/ AppendFails \/ Relaunch
    BY <2>1, AppendStep DEF DurableInv
  <2>2. CASE ~(Locate \/ AppendFails \/ Relaunch)
    BY <2>2 DEF Next, Environment, User, Coordinator, LosePermission,
       SensorFault, StartHike, RefreshTick, PauseRequest, ResumeHike,
       ResumeFails, FinishRequest, RecoverHike, RecoverRefused, DiscardHike,
       SaveNote, SaveLifecycle, HaltSensors, SuspendSensors, ShutdownSensors,
       ReadFails, ReadNothing, ReadBatch, SaveBatch, LoadCheckpoint,
       StopSensors, CompleteFinish, SaveFinish, SealSpool, vars, history
  <2> QED BY <2>1, <2>2
<1>2. CASE UNCHANGED appended
  BY <1>0, <1>1, <1>2
<1>3. CASE /\ manifest # NoSession /\ spool.present /\ UNCHANGED manifest
           /\ appended' = [appended EXCEPT ![manifest] = @ + 1]
  BY <1>0, <1>1, <1>3 DEF SessionOrNone
<1> QED BY <1>1, <1>2, <1>3 DEF AppendedGrows

-----------------------------------------------------------------------------
(* The machine's session, and how far memory is ahead of the store.        *)

SameStored(s) == store.activity[s].samples = repo.activity[s].samples

(* Only the session of the machine can have samples in memory that are not *)
(* stored, and no library has any that were not appended.                  *)
SamplesOK ==
  \A s \in Sessions :
    /\ store.activity[s].samples \subseteq repo.activity[s].samples
    /\ repo.activity[s].samples \subseteq UpTo(appended[s])
    /\ s # sm.session => SameStored(s)

(* An interrupted machine is continued in its own session, and one that    *)
(* finished has everything stored before another hike can begin.           *)
SessionOK ==
  /\ sm.kind = "recoverable" => tracker.session = sm.session
  /\ sm.kind = "finished" =>
       /\ ui # "recoverable"
       /\ ui = "idle" => \A s \in Sessions : SameStored(s)
  /\ op.pc = "checkpoint" =>
       /\ manifest = tracker.session /\ spool.present
       /\ sm.kind \in {"idle", "recoverable"}

(* The hike whose machine is active, unless the user discarded it, is the  *)
(* one whose spool is there.                                               *)
Recorded(s) == manifest = s /\ spool.present
Covered(lib, s) ==
  /\ lib.activity[s].lifecycle = "finished"
  /\ lib.activity[s].revised
  /\ UpTo(appended[s]) \subseteq lib.activity[s].samples

SealedOK ==
  /\ \A s \in issued \ discarded :
       Recorded(s) \/ (Covered(repo, s) /\ Covered(store, s))
  /\ Active(sm) => sm.session \in discarded \/ Recorded(sm.session)
  /\ co.pendingFinish => /\ repo.activity[sm.session].lifecycle = "finished"
                         /\ repo.activity[sm.session].revised
  /\ op.pc = "seal" => store.activity = repo.activity

StoppedOK ==
  co.stopped # NotStopped =>
    /\ sm.highest <= co.stopped
    /\ manifest = sm.session /\ spool.present => spool.good = co.stopped

PromiseInv == /\ DurableInv /\ ControlOK /\ SpoolOK /\ SamplesOK /\ SessionOK
              /\ SealedOK /\ StoppedOK

LEMMA InitPromise == Init => SamplesOK /\ SessionOK /\ SealedOK /\ StoppedOK
BY DEF Init, SamplesOK, SessionOK, SealedOK, StoppedOK, SameStored,
       EmptySnapshot, NoActivity, IdleMachine, IdleControl, Resting, At,
       Active, UpTo

(* While the machine is active, its hike is the one of the manifest.       *)
LEMMA ActiveHike ==
  ASSUME PromiseInv, Active(sm), manifest # NoSession
  PROVE  /\ manifest = sm.session /\ manifest = tracker.session
         /\ manifest \in Sessions /\ manifest \in issued
         /\ spool.present => manifest \notin discarded
                               /\ spool.good = appended[manifest]
BY DEF PromiseInv, DurableInv, AdapterOK, MachineOK, SpoolOK, Active, TypeInv,
       TypeOK, SessionOrNone

LEMMA BatchWithin ==
  ASSUME PromiseInv, ReadBatch
  PROVE  /\ Recorded(sm.session) /\ Active(sm)
         /\ sm.session \in Sessions /\ sm.session \notin discarded
         /\ LastRead <= spool.good /\ spool.good = appended[sm.session]
         /\ NewInBatch \subseteq UpTo(appended[sm.session])
<1>1. Active(sm) /\ manifest # NoSession /\ spool.present
  BY DEF ReadBatch, CanRead, Deliverable
<1>2. ReadAfter \in Nat /\ spool.good \in Nat
  BY DEF PromiseInv, DurableInv, TypeInv, TypeOK, Adapter, Spool, ReadAfter
<1>3. LastRead <= spool.good /\ LastRead \in Nat
  BY <1>2, BatchLimitAssumption DEF LastRead, BatchEnd
<1>4. NewInBatch \subseteq UpTo(spool.good)
  BY <1>2, <1>3 DEF NewInBatch, UpTo
<1> QED BY <1>1, <1>3, <1>4, ActiveHike DEF Recorded

LEMMA SamplesStep ==
  ASSUME DurableInv, [Next]_vars, ~Relaunch, ~ReadBatch
  PROVE  \A t \in Sessions :
           repo'.activity[t].samples = repo.activity[t].samples
<1>0. repo \in Snapshot
  BY DEF DurableInv, TypeInv, TypeOK
<1>1. CASE \E s \in Sessions : StartHike(s)
  BY <1>0, <1>1, LifecycleFrame DEF StartHike
<1>2. CASE ResumeHike \/ HaltSensors \/ LoadCheckpoint
  BY <1>0, <1>2, LifecycleFrame DEF ResumeHike, HaltSensors, LoadCheckpoint
<1>3. CASE \E n \in Notes : SaveNote(n)
  BY <1>0, <1>3, NoteFrame DEF SaveNote
<1>4. CASE CompleteFinish
  <2>1. WithLifecycle(repo, sm.session, "finished") \in Snapshot
    BY <1>0, WithLifecycleType DEF Lifecycles
  <2> QED BY <1>0, <1>4, <2>1, LifecycleFrame, RevisionFrame DEF CompleteFinish
<1>5. CASE Locate \/ AppendFails \/ LosePermission \/ SensorFault
             \/ RefreshTick \/ PauseRequest \/ ResumeFails \/ FinishRequest
             \/ RecoverHike \/ RecoverRefused \/ DiscardHike
             \/ SaveLifecycle \/ SaveBatch \/ SaveFinish
             \/ SuspendSensors \/ ShutdownSensors \/ ReadFails \/ ReadNothing
             \/ StopSensors \/ SealSpool \/ UNCHANGED vars
  <2>1. UNCHANGED repo
    BY <1>5
       DEF Locate, AppendFails, LosePermission, SensorFault, RefreshTick,
           PauseRequest, ResumeFails, FinishRequest, RecoverHike,
           RecoverRefused, DiscardHike, SuspendSensors, ShutdownSensors,
           SaveLifecycle, SaveBatch, SaveFinish,
           ReadFails, ReadNothing, StopSensors, SealSpool, vars
  <2> QED BY <2>1
<1> QED
  BY <1>1, <1>2, <1>3, <1>4, <1>5 DEF Next, Environment, User, Coordinator

(* The machine changes its session only when nothing in memory is unsaved. *)
LEMMA SessionStep ==
  ASSUME PromiseInv, [Next]_vars, ~Relaunch, sm'.session # sm.session
  PROVE  \A s \in Sessions : SameStored(s)
<1>0. sm \in Machine
  BY DEF PromiseInv, DurableInv, TypeInv, TypeOK
<1>1. (\E s \in Sessions : StartHike(s)) \/ LoadCheckpoint
  BY <1>0 DEF Next, Environment, User, Coordinator, Locate, AppendFails,
     LosePermission, SensorFault, RefreshTick, PauseRequest, ResumeHike,
     ResumeFails, FinishRequest, RecoverHike, RecoverRefused, DiscardHike,
     SaveNote, SaveLifecycle, HaltSensors, SuspendSensors, ShutdownSensors,
     ReadFails, ReadNothing, ReadBatch, SaveBatch, StopSensors,
     CompleteFinish, SaveFinish, SealSpool, vars, history, Machine,
     PausedMachine, InterruptedMachine
<1>2. sm.kind = "idle" => \A s \in Sessions : SameStored(s)
  BY ConstantsAssumption DEF PromiseInv, DurableInv, MachineOK, SamplesOK
<1>3. CASE \E s \in Sessions : StartHike(s)
  BY <1>2, <1>3 DEF StartHike, PromiseInv, SessionOK
<1>4. CASE LoadCheckpoint
  BY <1>0, <1>2, <1>4
     DEF LoadCheckpoint, RecoveredMachine, PromiseInv, SessionOK, Machine
<1> QED BY <1>1, <1>3, <1>4

LEMMA NextSamples ==
  ASSUME Orderly, PromiseInv, [Next]_vars
  PROVE  SamplesOK'
<1> USE DEF PromiseInv
<1>0. \A s \in Sessions : UpTo(appended[s]) \subseteq UpTo(appended'[s])
  BY AppendedStep DEF UpTo
<1>1. CASE Relaunch
  BY <1>0, <1>1 DEF Relaunch, SamplesOK, SameStored
<1>2. CASE StoreFollows
  BY <1>0, <1>2 DEF StoreFollows, SamplesOK, SameStored
<1>3. CASE MemoryChanges /\ ReadBatch
  <2>1. NewInBatch \subseteq Nat
    BY DEF NewInBatch, UpTo, ReadAfter, LastRead, BatchEnd, DurableInv,
           TypeInv, TypeOK, Adapter, Spool
  <2>2. sm'.session = sm.session /\ sm.session \in Sessions
        /\ NewInBatch \subseteq UpTo(appended[sm.session])
    BY <1>3, BatchWithin, BatchExtends
  <2>3. /\ \A t \in Sessions \ {sm.session} :
             repo'.activity[t].samples = repo.activity[t].samples
        /\ repo'.activity[sm.session].samples =
             repo.activity[sm.session].samples \cup NewInBatch
    <3>1. repo' = WithSamples(repo, sm.session, NewInBatch)
      BY <1>3 DEF ReadBatch
    <3>2. repo \in Snapshot /\ NewInBatch \in SUBSET Nat
      BY <2>1 DEF DurableInv, TypeInv, TypeOK
    <3>3. sm.session \in Sessions
      BY <2>2
    <3> QED BY ONLY <3>1, <3>2, <3>3, SamplesFrame
  <2> QED BY <1>0, <1>3, <2>2, <2>3 DEF MemoryChanges, SamplesOK, SameStored
<1>4. CASE MemoryChanges /\ ~ReadBatch /\ ~Relaunch
  <2>1. \A t \in Sessions :
          repo'.activity[t].samples = repo.activity[t].samples
    BY <1>4, SamplesStep
  <2>2. \A s \in Sessions : s # sm'.session => SameStored(s)
    BY <1>4, SessionStep DEF SamplesOK
  <2> QED BY <1>0, <1>4, <2>1, <2>2 DEF MemoryChanges, SamplesOK, SameStored
<1> QED BY <1>1, <1>2, <1>3, <1>4, LibraryStep

LEMMA NextSession ==
  ASSUME Orderly, PromiseInv, [Next]_vars
  PROVE  SessionOK'
<1> USE DEF PromiseInv
<1>0. /\ sm \in Machine /\ tracker \in Adapter /\ co \in Control
      /\ op.kind = "none" <=> op.pc = "rest"
      /\ Active(sm) => tracker.session = sm.session /\ sm.session # NoSession
  BY DEF DurableInv, TypeInv, TypeOK, AdapterOK, OperationOK, MachineOK, Active
<1>1. CASE Relaunch
  BY <1>1 DEF Relaunch, SessionOK, IdleMachine, Resting, At
<1>2. CASE \E s \in Sessions : StartHike(s)
  BY <1>2 DEF StartHike, SessionOK, Saving
<1>3. CASE RecoverHike
  <2>1. sm'.kind \in {"idle", "recoverable"} /\ sm'.session = sm.session
        /\ (sm'.kind = "recoverable" => sm.kind = "recoverable" \/ Active(sm))
    BY <1>0, <1>3 DEF RecoverHike, InterruptedMachine, Machine, Active,
                      SessionOK
  <2>2. sm'.kind = "recoverable" => manifest = sm.session
    <3>1. sm'.kind = "recoverable" =>
            sm.session # NoSession /\ tracker.session = sm.session
      BY <1>0, <2>1 DEF SessionOK, DurableInv, MachineOK
    <3>2. manifest # NoSession
      BY <1>3 DEF RecoverHike
    <3> QED BY <3>1, <3>2 DEF DurableInv, AdapterOK
  <2>3. tracker'.session = manifest
    BY <1>0, <1>3 DEF RecoverHike, Adapter
  <2> QED BY <1>3, <2>1, <2>2, <2>3
          DEF RecoverHike, SessionOK, At, Readable, durable
<1>4. CASE RecoverRefused
  BY <1>0, <1>4 DEF RecoverRefused, InterruptedMachine, Active, Machine,
                    SessionOK, durable
<1>5. CASE ShutdownSensors
  <2>1. /\ sm'.session = sm.session /\ op'.pc = "rest"
        /\ sm'.kind = "recoverable" => sm.kind = "recoverable" \/ Active(sm)
        /\ sm'.kind = "finished" => sm.kind = "finished"
        /\ sm'.kind # "paused" => ui' = ui
        /\ UNCHANGED <<tracker, store, repo>>
    BY <1>0, <1>5 DEF ShutdownSensors, OperationFails, Resting, At, Machine,
                      Active, durable
  <2> QED BY <1>0, <2>1 DEF SessionOK, SameStored
<1>6. CASE LoadCheckpoint
  <2>1. CASE OperationFails(sm) /\ UNCHANGED <<tracker, sm, repo>>
    <3>1. sm.kind \in {"idle", "recoverable"} /\ op'.pc = "rest"
      BY <1>6, <2>1 DEF LoadCheckpoint, OperationFails, Resting, At, SessionOK
    <3> QED BY <2>1, <3>1 DEF SessionOK
  <2>2. CASE sm' = RecoveredMachine(tracker.session,
                     repo.activity[tracker.session].samples)
             /\ op' = At("recover", "read")
    BY <1>0, <2>2 DEF RecoveredMachine, At, SessionOK, Machine
  <2> QED BY <1>6, <2>1, <2>2 DEF LoadCheckpoint
<1>7. CASE SealSpool
  <2>1. /\ sm'.kind = "finished" /\ op'.pc = "rest"
        /\ \A s \in Sessions : SameStored(s)' <=> SameStored(s)
    BY <1>7 DEF SealSpool, DurableInv, OperationOK, OperationFails, Resting,
                At, SameStored
  <2>2. \A s \in Sessions : SameStored(s)
    BY <1>7 DEF SealSpool, SealedOK, SameStored
  <2>3. ui' # "recoverable"
    BY <1>7 DEF SealSpool, OperationFails, ControlOK, PointsOK
  <2> QED BY <2>1, <2>2, <2>3 DEF SessionOK
<1>8. CASE CompleteFinish
  <2>1. op.kind = "finish" /\ ui \in {"recording", "paused"}
    BY <1>8 DEF CompleteFinish, ControlOK, PointsOK
  <2>2. ui' \in {"recording", "paused"} /\ sm'.kind = "finished"
        /\ op'.pc # "checkpoint"
    BY <1>0, <1>8, <2>1 DEF CompleteFinish, OperationFails, Saving, Resting,
                            At, Machine
  <2> QED BY <2>2 DEF SessionOK
<1>9. CASE SaveFinish
  <2>1. op.kind = "finish" /\ ui \in {"recording", "paused"}
        /\ sm.kind = "finished"
    BY <1>9 DEF SaveFinish, ControlOK, PointsOK, DurableInv, OperationOK
  <2> QED BY <1>9, <2>1 DEF SaveFinish, SessionOK, OperationFails, At, Resting
<1>10. CASE ResumeHike \/ HaltSensors \/ SuspendSensors \/ StopSensors
  <2>1. /\ sm'.session = sm.session
        /\ sm'.kind \in {"finished", "recoverable"} =>
             sm'.kind = sm.kind /\ ui' \in {ui, "paused"}
        /\ op'.pc # "checkpoint" /\ UNCHANGED <<tracker, store>>
        /\ sm.kind = "finished" => UNCHANGED repo
    BY <1>0, <1>10 DEF ResumeHike, HaltSensors, SuspendSensors, StopSensors,
       PausedMachine, OperationFails, Saving, Resting, At, Machine, durable
  <2> QED BY <2>1 DEF SessionOK, SameStored
<1>11. CASE SaveLifecycle \/ SaveBatch \/ ReadBatch \/ ReadNothing
  <2>1. Active(sm) /\ sm'.kind = sm.kind
    BY <1>0, <1>11 DEF SaveLifecycle, SaveBatch, ReadBatch, ReadNothing,
       CanRead, DurableInv, OperationOK, Machine
  <2>2. op'.pc # "checkpoint"
    <3>1. CASE SaveLifecycle \/ ReadBatch
      BY <3>1 DEF SaveLifecycle, ReadBatch, OperationFails, Saving, Resting, At
    <3>2. CASE SaveBatch \/ ReadNothing
      <4>1. op.kind # "none"
        BY <3>2 DEF SaveBatch, ReadNothing, DurableInv, OperationOK
      <4>2. \E progress \in BOOLEAN :
              OperationFails(sm) \/ AfterSynchronize(sm, progress)
        BY <3>2 DEF SaveBatch, ReadNothing
      <4> QED BY <4>1, <4>2, OutcomeOK
    <3> QED BY <1>11, <3>1, <3>2
  <2> QED BY <2>1, <2>2 DEF SessionOK, Active
<1>12. CASE \E n \in Notes : SaveNote(n)
  <2>1. PICK n \in Notes : SaveNote(n)
    BY <1>12
  <2>2. WithNote(repo, n).activity = repo.activity
    BY NoteFrame DEF DurableInv, TypeInv, TypeOK
  <2>3. store'.activity \in {store.activity, repo.activity}
        /\ repo'.activity = repo.activity
    BY <2>1, <2>2 DEF SaveNote
  <2> QED BY <2>1, <2>3 DEF SaveNote, SessionOK, SameStored
<1>13. CASE Locate \/ AppendFails
  <2>1. spool'.present = spool.present
    BY <1>13, AppendStep DEF AppendedGrows, DurableInv, TypeInv, TypeOK, Spool
  <2> QED BY <1>13, <2>1 DEF Locate, AppendFails, SessionOK, SameStored
<1>14. CASE LosePermission \/ SensorFault \/ DiscardHike \/ UNCHANGED vars
  BY <1>0, <1>14 DEF LosePermission, SensorFault, DiscardHike, vars, durable,
                     SessionOK, SameStored
<1>15. CASE RefreshTick \/ PauseRequest \/ ResumeFails \/ FinishRequest
              \/ ReadFails
  BY <1>15 DEF RefreshTick, PauseRequest, ResumeFails, FinishRequest,
     ReadFails, OperationFails, At, Saving, Resting, durable, history,
     SessionOK, SameStored
<1> QED
  BY <1>1, <1>2, <1>3, <1>4, <1>5, <1>6, <1>7, <1>8, <1>9, <1>10, <1>11,
     <1>12, <1>13, <1>14, <1>15 DEF Next, Environment, User, Coordinator

LEMMA NextStopped ==
  ASSUME PromiseInv, [Next]_vars
  PROVE  StoppedOK'
<1> USE DEF PromiseInv
<1>0. /\ sm \in Machine /\ co \in Control /\ native \in NativeTracker
      /\ spool \in Spool /\ appended \in [Sessions -> Nat]
  BY DEF DurableInv, TypeInv, TypeOK
<1>1. CASE \/ Relaunch \/ (\E s \in Sessions : StartHike(s))
           \/ Locate \/ AppendFails \/ RecoverHike \/ LoadCheckpoint
  <2>1. co'.stopped = NotStopped
    <3>1. CASE Relaunch \/ \E s \in Sessions : StartHike(s)
      BY <1>0, <3>1 DEF Relaunch, StartHike, IdleControl, Control
    <3>2. CASE Locate \/ AppendFails
      BY <3>2 DEF Locate, AppendFails, ControlOK, QuietOK
    <3>3. CASE RecoverHike
      BY <3>3 DEF RecoverHike
    <3>4. CASE LoadCheckpoint
      BY <1>0, <3>4 DEF LoadCheckpoint, ControlOK, PointsOK, Control
    <3> QED BY <1>1, <3>1, <3>2, <3>3, <3>4
  <2> QED BY <2>1 DEF StoppedOK
<1>2. CASE StopSensors
  <2>1. CASE native.open /\ co.stopped = NotStopped
    <3>1. Active(sm) /\ manifest # NoSession /\ spool.present
          /\ native.sequence = spool.good
      BY <1>2, <2>1 DEF StopSensors, DurableInv, OperationOK, SpoolOK
    <3>2. sm.session = manifest /\ sm.session \in Sessions
          /\ spool.good = appended[sm.session]
      BY <3>1, ActiveHike
    <3>3. UpTo(sm.highest) \subseteq UpTo(appended[sm.session])
      BY <3>2, ConstantsAssumption DEF SamplesOK, DurableInv, MachineOK
    <3>4. sm.highest <= spool.good
      BY <1>0, <3>2, <3>3 DEF UpTo, Machine
    <3>5. /\ co'.stopped = spool.good /\ sm'.highest = sm.highest
          /\ UNCHANGED spool
      BY <1>0, <1>2, <2>1, <3>1 DEF StopSensors, CanStop, PausedMachine,
                                    Machine, Control, durable
    <3> QED BY <3>4, <3>5 DEF StoppedOK
  <2>2. CASE ~(native.open /\ co.stopped = NotStopped)
    <3>1. co'.stopped = co.stopped
      BY <1>0, <1>2, <2>2 DEF StopSensors, CanStop, Control
    <3>2. sm'.highest = sm.highest /\ sm'.session = sm.session
      BY <1>0, <1>2 DEF StopSensors, PausedMachine, Machine
    <3> QED BY <1>2, <3>1, <3>2 DEF StopSensors, durable, StoppedOK
  <2> QED BY <2>1, <2>2
<1>3. CASE ReadBatch
  <2>1. /\ sm'.highest \in {sm.highest, LastRead} /\ sm'.session = sm.session
        /\ co'.stopped = co.stopped /\ UNCHANGED <<manifest, spool>>
    BY <1>0, <1>3 DEF ReadBatch, Machine, Control, durable
  <2>2. LastRead <= spool.good /\ Recorded(sm.session)
    BY <1>3, BatchWithin
  <2> QED BY <2>1, <2>2 DEF StoppedOK, Recorded
<1>4. CASE SealSpool \/ DiscardHike
  <2>1. \/ co'.stopped = NotStopped
        \/ UNCHANGED <<co, sm>> /\ spool' = NoSpool
        \/ UNCHANGED <<co, sm, manifest, spool>>
    BY <1>4 DEF SealSpool, DiscardHike, IdleControl
  <2> QED BY <2>1 DEF StoppedOK, NoSpool
<1>5. CASE \/ LosePermission \/ SensorFault \/ RefreshTick \/ PauseRequest
           \/ ResumeHike \/ ResumeFails \/ FinishRequest \/ RecoverRefused
           \/ (\E n \in Notes : SaveNote(n)) \/ SaveLifecycle \/ HaltSensors
           \/ SuspendSensors \/ ShutdownSensors \/ ReadFails \/ ReadNothing
           \/ SaveBatch \/ CompleteFinish \/ SaveFinish \/ UNCHANGED vars
  <2>1. UNCHANGED <<manifest, spool>> /\ co'.stopped = co.stopped
    BY <1>0, <1>5 DEF LosePermission, SensorFault, RefreshTick, PauseRequest,
       ResumeHike, ResumeFails, FinishRequest, RecoverRefused, SaveNote,
       SaveLifecycle, HaltSensors, SuspendSensors, ShutdownSensors,
       ReadFails, ReadNothing, SaveBatch, CompleteFinish, SaveFinish, vars,
       durable, Control
  <2>2. sm'.session = sm.session /\ sm'.highest = sm.highest
    BY <1>0, <1>5 DEF LosePermission, SensorFault, RefreshTick, PauseRequest,
       ResumeHike, ResumeFails, FinishRequest, RecoverRefused, SaveNote,
       SaveLifecycle, HaltSensors, SuspendSensors, ShutdownSensors,
       ReadFails, ReadNothing, SaveBatch, CompleteFinish, SaveFinish, vars,
       PausedMachine, InterruptedMachine, Machine
  <2> QED BY <2>1, <2>2 DEF StoppedOK
<1> QED
  BY <1>1, <1>2, <1>3, <1>4, <1>5 DEF Next, Environment, User, Coordinator

(* The spool of the manifest stays until it is sealed or discarded.        *)
LEMMA SpoolStays ==
  ASSUME Orderly, PromiseInv, [Next]_vars, ~SealSpool, ~DiscardHike,
         ~\E s \in Sessions : StartHike(s)
  PROVE  manifest' = manifest /\ spool'.present = spool.present
<1>1. CASE Locate \/ AppendFails \/ Relaunch
  BY <1>1, AppendStep DEF AppendedGrows, PromiseInv, DurableInv, TypeInv,
                          TypeOK, Spool
<1>2. CASE ~(Locate \/ AppendFails \/ Relaunch)
  BY <1>2 DEF Next, Environment, User, Coordinator, LosePermission,
     SensorFault, RefreshTick, PauseRequest, ResumeHike, ResumeFails,
     FinishRequest, RecoverHike, RecoverRefused, SaveNote, SaveLifecycle,
     HaltSensors, SuspendSensors, ShutdownSensors, ReadFails, ReadNothing,
     ReadBatch, SaveBatch, LoadCheckpoint, StopSensors, CompleteFinish,
     SaveFinish, vars, durable
<1> QED BY <1>1, <1>2

(* The library changes only for a hike that has its spool, is discarded or *)
(* is new.                                                                 *)
LEMMA WrittenRecorded ==
  ASSUME PromiseInv, NEW s \in issued \ discarded, Written(s)
  PROVE  Recorded(s)
BY DEF Written, PromiseInv, SealedOK, SessionOK, Recorded

LEMMA CoveredStep ==
  ASSUME Orderly, PromiseInv, [Next]_vars, NEW s \in issued \ discarded,
         ~Recorded(s), s \in Sessions
  PROVE  Covered(repo, s)' /\ Covered(store, s)'
<1> USE DEF PromiseInv
<1>1. Covered(repo, s) /\ Covered(store, s)
  BY DEF SealedOK
<1>2. appended'[s] = appended[s]
  BY AppendedStep DEF Recorded
<1>3. ~Written(s)
  BY WrittenRecorded
<1>4. CASE Relaunch
  BY <1>1, <1>2, <1>4 DEF Relaunch, Covered
<1>5. CASE StoreFollows \/ MemoryChanges
  BY <1>1, <1>2, <1>3, <1>5 DEF StoreFollows, MemoryChanges, Covered
<1> QED BY <1>4, <1>5, LibraryStep

(* What is sealed is complete: the machine has read all of the spool, and  *)
(* what it committed is stored.                                            *)
LEMMA SealCovers ==
  ASSUME PromiseInv, SealSpool, CoversSpool
  PROVE  /\ Covered(repo, manifest) /\ Covered(store, manifest)
         /\ UNCHANGED <<repo, store, appended>>
<1> USE DEF PromiseInv
<1>1. /\ op.pc = "seal" /\ co.pendingFinish
      /\ store.activity = repo.activity
      /\ UNCHANGED <<repo, store, appended>>
  BY DEF SealSpool, DurableInv, OperationOK, SealedOK
<1>2. /\ manifest = sm.session /\ spool.present /\ manifest # NoSession
      /\ spool.good = sm.highest
  BY <1>1 DEF CoversSpool, Readable, DurableInv, OperationOK, MachineOK
<1>3. spool.good = appended[manifest]
  BY <1>2 DEF SpoolOK
<1>4. repo.activity[manifest].samples = UpTo(appended[manifest])
  BY <1>2, <1>3 DEF DurableInv, MachineOK
<1> QED BY <1>1, <1>2, <1>4 DEF Covered, SealedOK

LEMMA NextCovered ==
  ASSUME Orderly, PromiseInv, [Next]_vars, NEW s \in (issued \ discarded)'
  PROVE  Recorded(s)' \/ (Covered(repo, s)' /\ Covered(store, s)')
<1> USE DEF PromiseInv
<1>0. issued \subseteq Sessions
  BY DEF DurableInv, TypeInv, TypeOK
<1>1. CASE \E t \in Sessions : StartHike(t)
  <2>1. PICK t \in Sessions : StartHike(t)
    BY <1>1
  <2>2. CASE s = t
    BY <2>1, <2>2 DEF StartHike, Recorded, FreshSpool
  <2>3. CASE s # t
    <3>1. s \in issued \ discarded /\ ~Recorded(s)
      BY <2>1, <2>3, <1>0, ConstantsAssumption DEF StartHike, Recorded
    <3> QED BY <1>0, <3>1, CoveredStep
  <2> QED BY <2>2, <2>3
<1>2. CASE s \in issued \ discarded /\ ~Recorded(s)
  BY <1>0, <1>2, CoveredStep
<1>3. CASE /\ ~\E t \in Sessions : StartHike(t)
           /\ s \in issued \ discarded => Recorded(s)
  <2>1. discarded \subseteq discarded' /\ issued' = issued
    BY <1>3 DEF Next, Environment, User, Coordinator, Locate, AppendFails,
       Relaunch, LosePermission, SensorFault, RefreshTick, PauseRequest,
       ResumeHike, ResumeFails, FinishRequest, RecoverHike, RecoverRefused,
       DiscardHike, SaveNote, SaveLifecycle, HaltSensors, SuspendSensors,
       ShutdownSensors, ReadFails, ReadNothing, ReadBatch, SaveBatch,
       LoadCheckpoint, StopSensors, CompleteFinish, SaveFinish, SealSpool,
       vars, history
  <2>2. Recorded(s)
    BY <1>3, <2>1
  <2>3. CASE SealSpool
    BY <2>2, <2>3, SealCovers DEF SealSpool, Recorded, Covered
  <2>4. CASE DiscardHike
    BY <2>2, <2>4 DEF DiscardHike, Recorded
  <2>5. CASE ~SealSpool /\ ~DiscardHike
    BY <1>3, <2>2, <2>5, SpoolStays DEF Recorded
  <2> QED BY <2>3, <2>4, <2>5
<1> QED BY <1>1, <1>2, <1>3

(* Only a start and a recovery make the machine active.                    *)
LEMMA ActiveStep ==
  ASSUME TypeInv, [Next]_vars, Active(sm)', ~LoadCheckpoint,
         ~\E s \in Sessions : StartHike(s)
  PROVE  Active(sm) /\ sm'.session = sm.session
<1>0. sm \in Machine
  BY DEF TypeInv, TypeOK
<1>1. ~Relaunch
  BY DEF Relaunch, IdleMachine, Active
<1> QED
  BY <1>0, <1>1 DEF Next, Environment, User, Coordinator, Locate, AppendFails,
     LosePermission, SensorFault, RefreshTick, PauseRequest, ResumeHike,
     ResumeFails, FinishRequest, RecoverHike, RecoverRefused, DiscardHike,
     SaveNote, SaveLifecycle, HaltSensors, SuspendSensors, ShutdownSensors,
     ReadFails, ReadNothing, ReadBatch, SaveBatch, StopSensors,
     CompleteFinish, SaveFinish, SealSpool, vars, history, Machine, Active,
     PausedMachine, InterruptedMachine

LEMMA NextActive ==
  ASSUME Orderly, PromiseInv, [Next]_vars, Active(sm)'
  PROVE  sm'.session \in discarded' \/ Recorded(sm.session)'
<1> USE DEF PromiseInv
<1>1. CASE \E s \in Sessions : StartHike(s)
  BY <1>1 DEF StartHike, Recorded, FreshSpool
<1>2. CASE LoadCheckpoint
  <2>1. UNCHANGED <<manifest, spool, discarded>> /\ Recorded(tracker.session)
    BY <1>2 DEF LoadCheckpoint, durable, SessionOK, Recorded
  <2>2. CASE sm' = sm
    BY <2>1, <2>2 DEF SealedOK, Recorded
  <2>3. CASE sm' = RecoveredMachine(tracker.session,
                     repo.activity[tracker.session].samples)
    <3>1. sm'.session = tracker.session
      BY <2>3 DEF RecoveredMachine, DurableInv, TypeInv, TypeOK, Machine
    <3> QED BY <2>1, <3>1 DEF Recorded
  <2> QED BY <1>2, <2>2, <2>3 DEF LoadCheckpoint
<1>3. CASE ~LoadCheckpoint /\ ~\E s \in Sessions : StartHike(s)
  <2>1. Active(sm) /\ sm'.session = sm.session
    BY <1>3, ActiveStep DEF DurableInv
  <2>2. sm.session \in discarded \/ Recorded(sm.session)
    BY <2>1 DEF SealedOK
  <2>3. CASE SealSpool
    BY <2>1, <2>3 DEF SealSpool, DurableInv, OperationOK, Active
  <2>4. CASE DiscardHike
    BY <2>1, <2>2, <2>4 DEF DiscardHike, Recorded
  <2>5. CASE ~SealSpool /\ ~DiscardHike
    <3>1. manifest' = manifest /\ spool'.present = spool.present
      BY <1>3, <2>5, SpoolStays
    <3>2. discarded' = discarded
      BY <1>3, <2>5 DEF Next, Environment, User, Coordinator, Locate,
         AppendFails, Relaunch, LosePermission, SensorFault, RefreshTick,
         PauseRequest, ResumeHike, ResumeFails, FinishRequest, RecoverHike,
         RecoverRefused, SaveNote, SaveLifecycle, HaltSensors,
         SuspendSensors, ShutdownSensors, ReadFails, ReadNothing, ReadBatch,
         SaveBatch, StopSensors, CompleteFinish, SaveFinish, vars, history
    <3> QED BY <2>1, <2>2, <3>1, <3>2 DEF Recorded
  <2> QED BY <2>3, <2>4, <2>5
<1> QED BY <1>1, <1>2, <1>3

LEMMA NextPending ==
  ASSUME Orderly, PromiseInv, [Next]_vars, co'.pendingFinish
  PROVE  /\ repo'.activity[sm'.session].lifecycle = "finished"
         /\ repo'.activity[sm'.session].revised
<1> USE DEF PromiseInv
<1>0. sm \in Machine /\ co \in Control /\ repo \in Snapshot
  BY DEF DurableInv, TypeInv, TypeOK
<1>1. CASE CompleteFinish
  <2>1. ~co.pendingFinish /\ sm.session \in Sessions
    BY <1>0, <1>1, ConstantsAssumption
       DEF CompleteFinish, DurableInv, OperationOK, MachineOK, Active, Machine,
           SessionOrNone
  <2>2. repo' = WithRevision(WithLifecycle(repo, sm.session, "finished"),
                             sm.session)
        /\ sm'.session = sm.session
    BY <1>0, <1>1, <2>1 DEF CompleteFinish, Machine
  <2> QED
    BY <1>0, <2>1, <2>2 DEF WithRevision, WithLifecycle, Snapshot, Activity
<1>2. CASE ~CompleteFinish
  <2>1. co.pendingFinish /\ ~Relaunch /\ ~LoadCheckpoint
        /\ ~\E s \in Sessions : StartHike(s)
    <3>1. ~Relaunch /\ ~\E s \in Sessions : StartHike(s)
      BY <1>0 DEF Relaunch, StartHike, IdleControl, Control
    <3>2. ~LoadCheckpoint
      BY <1>0 DEF LoadCheckpoint, DurableInv, OperationOK, Control
    <3>3. \/ UNCHANGED co \/ co' = IdleControl
          \/ \E d \in BOOLEAN : co' = [co EXCEPT !.dirty = d]
          \/ \E n \in Nat \cup {NotStopped} : co' = [co EXCEPT !.stopped = n]
      BY <1>0, <1>2, <3>1, <3>2
         DEF Next, Environment, User, Coordinator, Locate, AppendFails,
         LosePermission, SensorFault, RefreshTick, PauseRequest, ResumeHike,
         ResumeFails, FinishRequest, RecoverHike, RecoverRefused,
         DiscardHike, SaveNote, SaveLifecycle, HaltSensors, SuspendSensors,
         ShutdownSensors, ReadFails, ReadNothing, ReadBatch, SaveBatch,
         StopSensors, SaveFinish, SealSpool, vars, Control, NativeTracker,
         DurableInv, TypeInv, TypeOK
    <3>4. co.pendingFinish
      BY <1>0, <3>3 DEF Control, IdleControl
    <3> QED BY <3>1, <3>2, <3>3, <3>4
  <2>2. /\ sm.kind = "finished" /\ op.pc # "checkpoint"
        /\ sm.session \in issued /\ sm.session \in Sessions
    BY <2>1 DEF DurableInv, OperationOK, MachineOK, TypeInv, TypeOK
  <2>3. ~Written(sm.session)
    BY <2>2 DEF Written, Active
  <2>4. repo'.activity[sm.session] = repo.activity[sm.session]
    BY <2>1, <2>2, <2>3, LibraryStep DEF StoreFollows, MemoryChanges
  <2>5. sm'.session = sm.session
    BY <1>0, <1>2, <2>1
       DEF Next, Environment, User, Coordinator, Locate, AppendFails,
       LosePermission, SensorFault, RefreshTick, PauseRequest, ResumeHike,
       ResumeFails, FinishRequest, RecoverHike, RecoverRefused, DiscardHike,
       SaveNote, SaveLifecycle, HaltSensors, SuspendSensors, ShutdownSensors,
       ReadFails, ReadNothing, ReadBatch, SaveBatch, StopSensors, SaveFinish,
       SealSpool, vars, Machine, PausedMachine, InterruptedMachine
  <2> QED BY <2>1, <2>4, <2>5 DEF SealedOK
<1> QED BY <1>1, <1>2

LEMMA NextSealing ==
  ASSUME PromiseInv, [Next]_vars, op'.pc = "seal"
  PROVE  store'.activity = repo'.activity
<1> USE DEF PromiseInv
<1>1. CASE SaveFinish
  <2>1. /\ store' = PersistedLibrary /\ repo' = repo
        /\ op.snapshot.activity = repo.activity
    BY <1>1 DEF SaveFinish, Persist, Commit, OperationFails, Resting, At,
                DurableInv, OperationOK
  <2> QED
    BY <2>1 DEF PersistedLibrary, DurableInv, TypeInv, TypeOK, Operation,
                Snapshot
<1>2. CASE \E n \in Notes : SaveNote(n)
  <2>1. PICK n \in Notes : SaveNote(n)
    BY <1>2
  <2>2. WithNote(repo, n).activity = repo.activity
    BY NoteFrame DEF DurableInv, TypeInv, TypeOK
  <2> QED BY <2>1, <2>2 DEF SaveNote, SealedOK
<1>3. CASE \/ Locate \/ AppendFails \/ LosePermission \/ SensorFault
           \/ RecoverRefused \/ DiscardHike \/ UNCHANGED vars
  BY <1>3 DEF Locate, AppendFails, LosePermission, SensorFault,
     RecoverRefused, DiscardHike, vars, durable, SealedOK
<1>4. CASE \/ Relaunch \/ (\E s \in Sessions : StartHike(s))
           \/ RefreshTick \/ PauseRequest \/ ResumeHike \/ ResumeFails
           \/ FinishRequest \/ RecoverHike \/ SaveLifecycle \/ HaltSensors
           \/ SuspendSensors \/ ShutdownSensors \/ ReadFails \/ ReadBatch
           \/ LoadCheckpoint \/ StopSensors \/ CompleteFinish \/ SealSpool
  BY <1>4 DEF Relaunch, StartHike, RefreshTick, PauseRequest, ResumeHike,
     ResumeFails, FinishRequest, RecoverHike, SaveLifecycle, HaltSensors,
     SuspendSensors, ShutdownSensors, ReadFails, ReadBatch, LoadCheckpoint,
     StopSensors, CompleteFinish, SealSpool, OperationFails, Resting, At,
     Saving
<1>5. CASE ReadNothing \/ SaveBatch
  <2>1. op.kind # "none"
    BY <1>5 DEF SaveBatch, ReadNothing, DurableInv, OperationOK
  <2>2. \E progress \in BOOLEAN :
          OperationFails(sm) \/ AfterSynchronize(sm, progress)
    BY <1>5 DEF SaveBatch, ReadNothing
  <2> QED BY <2>1, <2>2, OutcomeOK
<1> QED
  BY <1>1, <1>2, <1>3, <1>4, <1>5 DEF Next, Environment, User, Coordinator

LEMMA NextSealed == Orderly /\ PromiseInv /\ [Next]_vars => SealedOK'
BY NextCovered, NextActive, NextPending, NextSealing DEF SealedOK

-----------------------------------------------------------------------------
(* The invariant and what it says.                                         *)

LEMMA NextPromise == Orderly /\ PromiseInv /\ [Next]_vars => PromiseInv'
<1> SUFFICES ASSUME Orderly, PromiseInv, [Next]_vars
             PROVE  PromiseInv'
  OBVIOUS
<1>1. DurableInv'
  BY NextTypeInv, NextParts DEF PromiseInv, DurableInv, Parts
<1>2. ControlOK' /\ SpoolOK'
  BY NextControl, NextSpool DEF PromiseInv
<1> QED
  BY <1>1, <1>2, NextSamples, NextSession, NextSealed, NextStopped
     DEF PromiseInv

LEMMA PromiseInvariant == ASSUME Orderly PROVE Spec => []PromiseInv
<1>1. Init => PromiseInv
  BY InitTypeInv, InitParts, InitControl, InitSpool, InitPromise
     DEF PromiseInv, DurableInv, Parts
<1>2. PromiseInv /\ [Next]_vars => PromiseInv'
  BY NextPromise
<1> QED BY <1>1, <1>2, PTL DEF Spec

(* Nothing that reached the spool is lost until the user discards it: as   *)
(* long as its spool is there it holds all of the hike, and it goes away   *)
(* only when the library has all of it.                                    *)
THEOREM RecordedIsKept == ASSUME Orderly PROVE Spec => []NothingLost
<1>1. PromiseInv => NothingLost
  <2> SUFFICES ASSUME PromiseInv, NEW s \in issued \ discarded
               PROVE  \/ UpTo(appended[s]) \subseteq store.activity[s].samples
                      \/ /\ manifest = s /\ Readable(spool)
                         /\ spool.good = appended[s]
    BY DEF NothingLost
  <2>1. CASE Recorded(s)
    <3>1. s # NoSession
      BY ConstantsAssumption DEF PromiseInv, DurableInv, TypeInv, TypeOK
    <3> QED BY <2>1, <3>1 DEF Recorded, PromiseInv, SpoolOK, Readable
  <2>2. CASE ~Recorded(s)
    BY <2>2 DEF PromiseInv, SealedOK, Covered
  <2> QED BY <2>1, <2>2
<1> QED BY <1>1, PromiseInvariant, PTL

(* A spool goes away only for an activity that is stored as finished, with *)
(* its derived revision and every observation, or because the user         *)
(* discarded the hike, also when removing the files fails halfway.         *)
THEOREM SealingIsSaved == ASSUME Orderly PROVE Spec => []SealedIsSaved
<1>1. PromiseInv => SealedIsSaved
  BY DEF PromiseInv, SealedOK, Recorded, Covered, SealedIsSaved
<1> QED BY <1>1, PromiseInvariant, PTL

(* A paused hike on the screen has its sensors stopped, and a finish that  *)
(* was accepted has the tracker closed at the sequence it was told.        *)
THEOREM TrackerIsFollowed == ASSUME Orderly PROVE Spec => []TrackerFollows
<1>1. PromiseInv => TrackerFollows
  <2> SUFFICES ASSUME PromiseInv PROVE TrackerFollows
    OBVIOUS
  <2>1. PausedIsSilent
    BY DEF PromiseInv, ControlOK, QuietOK, PausedIsSilent
  <2>2. StoppedStaysSealed
    BY DEF PromiseInv, ControlOK, QuietOK, StoppedOK, StoppedStaysSealed
  <2> QED BY <2>1, <2>2 DEF TrackerFollows
<1> QED BY <1>1, PromiseInvariant, PTL

-----------------------------------------------------------------------------
(* The pipeline implements HikePromise.                                    *)

LEMMA StatusIs ==
  ASSUME PromiseInv
  PROVE  \A s \in Sessions :
           /\ HikeStatus[s] = "new" <=> s \notin issued
           /\ HikeStatus[s] = "abandoned" <=> s \in discarded
           /\ HikeStatus[s] = "open" <=> manifest = s /\ s \notin discarded
           /\ HikeStatus[s] = "closed" <=>
                s \in issued \ discarded /\ manifest # s
<1>1. discarded \subseteq issued /\ manifest \in issued \cup {NoSession}
      /\ NoSession \notin Sessions
  BY ConstantsAssumption DEF PromiseInv, SpoolOK, DurableInv, AdapterOK
<1>2. TAKE s \in Sessions
<1>3. CASE s \notin issued
  BY <1>1, <1>3 DEF HikeStatus
<1>4. CASE s \in discarded
  BY <1>1, <1>4 DEF HikeStatus
<1>5. CASE s \in issued \ discarded /\ manifest = s
  BY <1>1, <1>5 DEF HikeStatus
<1>6. CASE s \in issued \ discarded /\ manifest # s
  BY <1>1, <1>6 DEF HikeStatus
<1> QED BY <1>1, <1>3, <1>4, <1>5, <1>6

Promised == <<appended, StoredSamples, HikeStatus>>

(* A write of the library stores more of the machine's hike or nothing:    *)
(* every other hike is stored already, and a closed one all of it.         *)
LEMMA SaveRefines ==
  ASSUME PromiseInv, StoreFollows,
         UNCHANGED <<appended, manifest, issued, discarded>>
  PROVE  \/ UNCHANGED Promised
         \/ sm.session \in Sessions /\ Promise!Save(sm.session)
<1> DEFINE h == sm.session
<1> USE DEF PromiseInv
<1>1. UNCHANGED <<appended, HikeStatus>>
  BY DEF HikeStatus
<1>2. \A s \in Sessions : s # h => StoredSamples'[s] = StoredSamples[s]
  BY DEF StoreFollows, StoredSamples, SamplesOK, SameStored
<1>3. CASE h \notin Sessions \/ SameStored(h)
  <2>1. \A s \in Sessions :
          store'.activity[s].samples = store.activity[s].samples
    BY <1>3 DEF StoreFollows, SamplesOK, SameStored
  <2> QED BY <1>1, <2>1 DEF Promised, StoredSamples
<1>4. CASE h \in Sessions /\ ~SameStored(h)
  <2>1. /\ h \in issued /\ sm.highest \in Nat /\ appended[h] \in Nat
        /\ repo.activity[h].samples = UpTo(sm.highest)
    BY <1>4, ConstantsAssumption DEF DurableInv, MachineOK, TypeInv, TypeOK,
                                     Machine
  <2>2. sm.highest \in 0 .. appended[h]
    <3>1. UpTo(sm.highest) \subseteq UpTo(appended[h])
      BY <1>4, <2>1 DEF SamplesOK
    <3> QED BY <2>1, <3>1 DEF UpTo
  <2>3. h \in discarded \/ manifest = h
    BY <1>4, <2>1 DEF SealedOK, Covered, SamplesOK, SameStored, Recorded
  <2>4. HikeStatus[h] \in {"open", "abandoned"}
    BY <1>4, <2>3, StatusIs
  <2>5. StoredSamples[h] \subseteq Promise!Prefix(sm.highest)
    BY <1>4, <2>1 DEF SamplesOK, StoredSamples, Promise!Prefix, UpTo
  <2>6. StoredSamples' =
          [StoredSamples EXCEPT ![h] = Promise!Prefix(sm.highest)]
    BY <1>2, <1>4, <2>1
       DEF StoreFollows, StoredSamples, Promise!Prefix, UpTo
  <2> QED BY <1>1, <1>4, <2>2, <2>4, <2>5, <2>6 DEF Promise!Save
<1> QED BY <1>3, <1>4

LEMMA ObserveRefines ==
  ASSUME PromiseInv, AppendedGrows,
         UNCHANGED <<store, manifest, issued, discarded>>
  PROVE  \/ UNCHANGED Promised
         \/ manifest \in Sessions /\ Promise!Observe(manifest)
<1> USE DEF PromiseInv
<1>1. UNCHANGED <<StoredSamples, HikeStatus>>
  BY DEF StoredSamples, HikeStatus
<1>2. CASE UNCHANGED appended
  BY <1>1, <1>2 DEF Promised
<1>3. CASE /\ manifest # NoSession /\ spool.present
           /\ appended' = [appended EXCEPT ![manifest] = @ + 1]
  <2>1. manifest \in Sessions /\ manifest \notin discarded
    BY <1>3 DEF SpoolOK, DurableInv, TypeInv, TypeOK, SessionOrNone
  <2>2. HikeStatus[manifest] = "open"
    BY <2>1, StatusIs
  <2> QED BY <1>1, <1>3, <2>1, <2>2 DEF Promise!Observe
<1> QED BY <1>2, <1>3 DEF AppendedGrows

LEMMA OpenRefines ==
  ASSUME PromiseInv, PromiseInv', NEW s \in Sessions, StartHike(s)
  PROVE  Promise!Open(s)
<1>1. UNCHANGED <<appended, StoredSamples>>
  BY DEF StartHike, StoredSamples
<1>2. HikeStatus[s] = "new" /\ \A t \in Sessions : HikeStatus[t] # "open"
  BY StatusIs, ConstantsAssumption DEF StartHike
<1>3. HikeStatus' = [HikeStatus EXCEPT ![s] = "open"]
  <2>1. /\ s \notin issued /\ issued' = issued \cup {s} /\ manifest' = s
        /\ manifest = NoSession /\ UNCHANGED discarded
    BY DEF StartHike
  <2>2. discarded \subseteq issued /\ NoSession \notin Sessions
    BY ConstantsAssumption DEF PromiseInv, SpoolOK
  <2> QED BY <2>1, <2>2 DEF HikeStatus
<1> QED BY <1>1, <1>2, <1>3 DEF Promise!Open

LEMMA CloseRefines ==
  ASSUME PromiseInv, SealSpool
  PROVE  \/ UNCHANGED Promised
         \/ manifest \in Sessions /\ Promise!Close(manifest)
<1> USE DEF PromiseInv
<1>1. UNCHANGED <<appended, StoredSamples, issued, discarded>>
  BY DEF SealSpool, StoredSamples
<1>2. CASE UNCHANGED manifest
  BY <1>1, <1>2 DEF Promised, HikeStatus
<1>3. CASE CoversSpool /\ manifest' = NoSession
  <2>1. /\ manifest = sm.session /\ spool.present /\ manifest # NoSession
    BY <1>3 DEF CoversSpool, Readable, SealSpool, DurableInv, OperationOK,
                MachineOK
  <2>2. /\ manifest \in Sessions /\ manifest \in issued
        /\ manifest \notin discarded
    BY <2>1 DEF SpoolOK, DurableInv, AdapterOK, TypeInv, TypeOK, SessionOrNone
  <2>3. StoredSamples[manifest] = Promise!Prefix(appended[manifest])
    BY <1>3, <2>2, SealCovers
       DEF StoredSamples, Covered, SamplesOK, Promise!Prefix, UpTo
  <2>4. HikeStatus' = [HikeStatus EXCEPT ![manifest] = "closed"]
    BY <1>1, <1>3, <2>2, ConstantsAssumption DEF HikeStatus
  <2>5. HikeStatus[manifest] = "open"
    BY <2>2, StatusIs
  <2> QED BY <1>1, <2>2, <2>3, <2>4, <2>5 DEF Promise!Close
<1> QED BY <1>2, <1>3 DEF SealSpool

LEMMA AbandonRefines ==
  ASSUME PromiseInv, DiscardHike
  PROVE  manifest \in Sessions /\ Promise!Abandon(manifest)
<1> USE DEF PromiseInv
<1>1. UNCHANGED <<appended, StoredSamples, issued>>
  BY DEF DiscardHike, StoredSamples
<1>2. /\ manifest \in Sessions /\ manifest \in issued
      /\ manifest \notin discarded /\ discarded \subseteq issued
      /\ discarded' = discarded \cup {manifest}
      /\ manifest' \in {manifest, NoSession}
  BY DEF DiscardHike, Readable, SpoolOK, DurableInv, AdapterOK, TypeInv,
         TypeOK, SessionOrNone
<1>3. HikeStatus[manifest] = "open"
  BY <1>2, StatusIs
<1>4. HikeStatus' = [HikeStatus EXCEPT ![manifest] = "abandoned"]
  BY <1>1, <1>2, ConstantsAssumption DEF HikeStatus
<1> QED BY <1>1, <1>2, <1>3, <1>4 DEF Promise!Abandon

LEMMA OtherRefines ==
  ASSUME Orderly, PromiseInv, [Next]_vars, ~SealSpool, ~DiscardHike,
         ~\E s \in Sessions : StartHike(s)
  PROVE  \/ UNCHANGED Promised
         \/ sm.session \in Sessions /\ Promise!Save(sm.session)
         \/ manifest \in Sessions /\ Promise!Observe(manifest)
<1>1. CASE Locate \/ AppendFails \/ Relaunch
  <2>1. UNCHANGED store
    BY <1>1 DEF Locate, AppendFails, Relaunch
  <2> QED BY <1>1, <2>1, AppendStep, ObserveRefines DEF PromiseInv, DurableInv
<1>2. CASE ~(Locate \/ AppendFails \/ Relaunch)
  <2>1. UNCHANGED <<appended, manifest, issued, discarded>>
    BY <1>2 DEF Next, Environment, User, Coordinator, LosePermission,
       SensorFault, RefreshTick, PauseRequest, ResumeHike, ResumeFails,
       FinishRequest, RecoverHike, RecoverRefused, SaveNote, SaveLifecycle,
       HaltSensors, SuspendSensors, ShutdownSensors, ReadFails, ReadNothing,
       ReadBatch, SaveBatch, LoadCheckpoint, StopSensors, CompleteFinish,
       SaveFinish, vars, durable, history
  <2>2. CASE StoreFollows
    BY <2>1, <2>2, SaveRefines
  <2>3. CASE UNCHANGED store
    BY <2>1, <2>3 DEF Promised, StoredSamples, HikeStatus
  <2> QED BY <1>2, <2>2, <2>3, LibraryStep DEF MemoryChanges, PromiseInv
<1> QED BY <1>1, <1>2

(* With its batches, retries, failures, relaunches and recoveries, a       *)
(* recording is the few steps of HikePromise: an observation that reached  *)
(* the device stays known, the library takes prefixes of it, and a hike is *)
(* closed only with all of it.                                             *)
THEOREM PipelineKeepsPromise == ASSUME Orderly PROVE Spec => PromiseKept
<1>1. Spec => []PromiseInv
  BY PromiseInvariant
<1>2. Init => Promise!Init
  BY DEF Init, Promise!Init, StoredSamples, HikeStatus, EmptySnapshot,
         NoActivity
<1>3. PromiseInv /\ PromiseInv' /\ [Next]_vars => [Promise!Next]_Promised
  <2> SUFFICES ASSUME PromiseInv, PromiseInv', [Next]_vars
               PROVE  [Promise!Next]_Promised
    OBVIOUS
  <2>1. CASE \E s \in Sessions : StartHike(s)
    BY <2>1, OpenRefines DEF Promise!Next
  <2>2. CASE SealSpool
    BY <2>2, CloseRefines DEF Promise!Next
  <2>3. CASE DiscardHike
    BY <2>3, AbandonRefines DEF Promise!Next
  <2>4. CASE ~(SealSpool \/ DiscardHike \/ \E s \in Sessions : StartHike(s))
    BY <2>4, OtherRefines DEF Promise!Next
  <2> QED BY <2>1, <2>2, <2>3, <2>4
<1> QED
  BY <1>1, <1>2, <1>3, PTL
     DEF Spec, PromiseKept, Promise!Spec, Promise!vars, Promised

=============================================================================
