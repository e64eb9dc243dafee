---------------------- MODULE RecordingPipelineProofs ----------------------
(***************************************************************************)
(* Proofs about RecordingPipeline, for every number of sessions and notes, *)
(* every batch limit and every fault: first the type invariant and the     *)
(* facts about the operators on spools and snapshots; then durability: a   *)
(* checkpoint never runs ahead of the library, the adapter never           *)
(* acknowledges what no checkpoint covers, state machine and library       *)
(* agree, and saved journal entries stay saved.                            *)
(***************************************************************************)
EXTENDS RecordingPipeline, TLAPS

(* The operators on a snapshot return a snapshot.                          *)
LEMMA WithLifecycleType ==
  ASSUME NEW snap \in Snapshot, NEW s, NEW l \in Lifecycles
  PROVE  WithLifecycle(snap, s, l) \in Snapshot
  BY DEF WithLifecycle, Snapshot, Activity

LEMMA WithSamplesType ==
  ASSUME NEW snap \in Snapshot, NEW s, NEW seqs \in SUBSET Nat
  PROVE  WithSamples(snap, s, seqs) \in Snapshot
  BY DEF WithSamples, Snapshot, Activity

LEMMA WithRevisionType ==
  ASSUME NEW snap \in Snapshot, NEW s
  PROVE  WithRevision(snap, s) \in Snapshot
  BY DEF WithRevision, Snapshot, Activity

LEMMA WithNoteType ==
  ASSUME NEW snap \in Snapshot, NEW n \in Notes
  PROVE  WithNote(snap, n) \in Snapshot
  BY DEF WithNote, Snapshot, Activity

LEMMA EmptySnapshotType == EmptySnapshot \in Snapshot
  BY DEF EmptySnapshot, NoActivity, Snapshot, Activity, Lifecycles

(* The last observation of a batch is a natural number.                    *)
LEMMA BatchEndType ==
  ASSUME NEW sp \in Spool, NEW n \in Nat
  PROVE  BatchEnd(sp, n) \in Nat /\ BatchEnd(sp, n) <= n + BatchLimit
  BY BatchLimitAssumption DEF BatchEnd, Spool

(* The highest of any set of sequence numbers is a natural number.         *)
LEMMA HighestOfType ==
  ASSUME NEW samples \in SUBSET Nat
  PROVE  HighestOf(samples) \in Nat
  BY DEF HighestOf

(* A missing newline can only follow an observation.                       *)
BareFollowsLine == spool.tail = "bare" => spool.good > 0

(* What an append leaves on disk, in every outcome.                        *)
LEMMA AppendType ==
  ASSUME NEW sp \in Spool, sp.tail = "bare" => sp.good > 0
  PROVE  /\ AppendLine(sp) \in Spool
         /\ AppendLine(sp).tail # "bare"
         /\ \A out \in InterruptedAppends(sp, Tearing) :
              out \in Spool /\ (out.tail = "bare" => out.good > 0)
<1> sp.tail = "clean" \/ sp.tail = "bare" \/ sp.tail \in {"torn", "corrupt"}
  BY DEF Spool, Tails
<1>0. sp.tail = "bare" => sp.good - 1 \in Nat
  BY DEF Spool
<1>1. AppendLine(sp) \in Spool /\ AppendLine(sp).tail # "bare"
  <2>1. CASE sp.tail = "clean"
    BY <2>1 DEF AppendLine, Spool, Tails
  <2>2. CASE sp.tail = "bare"
    <3>1. AppendLine(sp) = [sp EXCEPT !.good = @ - 1, !.tail = "corrupt"]
      BY <2>2 DEF AppendLine
    <3> QED
      BY <1>0, <2>2, <3>1 DEF Spool, Tails
  <2>3. CASE sp.tail \in {"torn", "corrupt"}
    BY <2>3 DEF AppendLine, Spool, Tails
  <2> QED
    BY <2>1, <2>2, <2>3
<1>2. AppendFragment(sp) \in Spool /\ AppendFragment(sp).tail # "bare"
  <2>1. CASE sp.tail = "clean"
    BY <2>1 DEF AppendFragment, Spool, Tails
  <2>2. CASE sp.tail = "bare"
    <3>1. AppendFragment(sp) = [sp EXCEPT !.good = @ - 1, !.tail = "torn"]
      BY <2>2 DEF AppendFragment
    <3> QED
      BY <1>0, <2>2, <3>1 DEF Spool, Tails
  <2>3. CASE sp.tail \in {"torn", "corrupt"}
    BY <2>3 DEF AppendFragment, Spool, Tails
  <2> QED
    BY <2>1, <2>2, <2>3
<1>3. AppendBare(sp) \in Spool
      /\ (AppendBare(sp).tail = "bare" => AppendBare(sp).good > 0)
  <2>1. CASE sp.tail = "clean"
    <3>1. AppendBare(sp) = [sp EXCEPT !.good = @ + 1, !.tail = "bare"]
      BY <2>1 DEF AppendBare
    <3>2. sp.good + 1 \in Nat /\ sp.good + 1 > 0
      BY DEF Spool
    <3> QED
      BY <3>1, <3>2 DEF Spool, Tails
  <2>2. CASE sp.tail # "clean"
    BY <1>2, <2>2 DEF AppendBare
  <2> QED
    BY <2>1, <2>2
<1>4. InterruptedAppends(sp, Tearing)
        \subseteq {sp, AppendLine(sp), AppendFragment(sp), AppendBare(sp)}
  BY DEF InterruptedAppends
<1> QED
  BY <1>1, <1>2, <1>3, <1>4

(* The records an operation moves through.                                 *)
LEMMA OperationTypes ==
  /\ Resting \in Operation /\ Resting.pc = "rest"
  /\ \A kind \in OpKinds, pc \in OpPoints :
       At(kind, pc) \in Operation /\ At(kind, pc).pc = pc
  /\ \A kind \in OpKinds, pc \in OpPoints, lib \in Snapshot :
       Saving(kind, pc, lib) \in Operation /\ Saving(kind, pc, lib).pc = pc
  BY EmptySnapshotType DEF Resting, At, Saving, Operation, OpKinds, OpPoints

(* The names of operations and points, to be cited without their lists.    *)
LEMMA OpNames ==
  /\ "none" \in OpKinds /\ "start" \in OpKinds /\ "tick" \in OpKinds
  /\ "pause" \in OpKinds /\ "drain" \in OpKinds /\ "resume" \in OpKinds
  /\ "recover" \in OpKinds /\ "finish" \in OpKinds
  /\ "rest" \in OpPoints /\ "read" \in OpPoints /\ "write" \in OpPoints
  /\ "halt" \in OpPoints /\ "lifecycle" \in OpPoints
  /\ "suspend" \in OpPoints /\ "shutdown" \in OpPoints
  /\ "checkpoint" \in OpPoints /\ "stop" \in OpPoints
  /\ "complete" \in OpPoints /\ "final" \in OpPoints
  /\ "seal" \in OpPoints
  /\ \A o \in Operation : o.kind \in OpKinds
  BY DEF OpKinds, OpPoints, Operation

(* Where an operation may wait, without a checkpoint to load.               *)
LEMMA WaitTypes ==
  /\ \A kind \in OpKinds :
       /\ At(kind, "read") \in Operation
       /\ At(kind, "read").pc # "checkpoint"
       /\ At(kind, "halt") \in Operation
       /\ At(kind, "halt").pc # "checkpoint"
       /\ At(kind, "suspend") \in Operation
       /\ At(kind, "suspend").pc # "checkpoint"
       /\ At(kind, "shutdown") \in Operation
       /\ At(kind, "shutdown").pc # "checkpoint"
       /\ At(kind, "stop") \in Operation
       /\ At(kind, "stop").pc # "checkpoint"
       /\ At(kind, "complete") \in Operation
       /\ At(kind, "complete").pc # "checkpoint"
       /\ At(kind, "seal") \in Operation
       /\ At(kind, "seal").pc # "checkpoint"
  /\ \A kind \in OpKinds, lib \in Snapshot :
       /\ Saving(kind, "lifecycle", lib) \in Operation
       /\ Saving(kind, "lifecycle", lib).pc # "checkpoint"
       /\ Saving(kind, "final", lib) \in Operation
       /\ Saving(kind, "final", lib).pc # "checkpoint"
<1>1. \A kind \in OpKinds, pc \in OpPoints :
        pc # "checkpoint" =>
          At(kind, pc) \in Operation /\ At(kind, pc).pc # "checkpoint"
  BY OperationTypes
<1>2. \A kind \in OpKinds, pc \in OpPoints, lib \in Snapshot :
        pc # "checkpoint" =>
          /\ Saving(kind, pc, lib) \in Operation
          /\ Saving(kind, pc, lib).pc # "checkpoint"
  BY OperationTypes
<1> QED
  BY <1>1, <1>2, OpNames

(* The states of the native tracker.                                       *)
LEMMA NativeTypes ==
  /\ ClosedTracker \in NativeTracker
  /\ \A n \in Nat : OpenTracker(n) \in NativeTracker
  /\ \A t \in NativeTracker :
       /\ [t EXCEPT !.sequence = @ + 1] \in NativeTracker
       /\ [t EXCEPT !.sensing = FALSE] \in NativeTracker
       /\ [t EXCEPT !.paused = TRUE, !.sensing = FALSE] \in NativeTracker
       /\ [t EXCEPT !.paused = FALSE, !.sensing = TRUE] \in NativeTracker
<1>1. \A t \in NativeTracker : t.sequence \in Nat /\ t.sequence + 1 \in Nat
  BY DEF NativeTracker
<1> QED
  BY <1>1 DEF ClosedTracker, OpenTracker, NativeTracker

(* What an operation that ends, and a relaunch, reset to.                  *)
LEMMA ResetTypes ==
  /\ IdleAdapter \in Adapter
  /\ IdleControl \in Control
  /\ NoSpool \in Spool /\ FreshSpool \in Spool
  /\ NoSpool.tail = "clean" /\ FreshSpool.tail = "clean"
  BY DEF IdleAdapter, IdleControl, Adapter, Control, SessionOrNone, NotStopped,
         NoSpool, FreshSpool, Spool, Tails

(* The states of the state machine.                                        *)
LEMMA MachineTypes ==
  /\ IdleMachine \in Machine
  /\ \A m \in Machine :
       /\ PausedMachine(m) \in Machine
       /\ InterruptedMachine(m) \in Machine
       /\ [m EXCEPT !.kind = "recording"] \in Machine
       /\ [m EXCEPT !.kind = "recoverable"] \in Machine
       /\ [m EXCEPT !.kind = "finished"] \in Machine
  BY DEF IdleMachine, PausedMachine, InterruptedMachine, Active, Machine,
         SessionOrNone

(* The outcome of an operation that throws, and of a synchronization.      *)
LEMMA OutcomeTypes ==
  ASSUME TypeOK, NEW m \in Machine
  PROVE  /\ OperationFails(m) =>
              /\ op' \in Operation /\ op'.pc # "checkpoint"
              /\ ui' \in {"idle", "recording", "paused", "recoverable"}
         /\ \A progress \in BOOLEAN : AfterSynchronize(m, progress) =>
              /\ op' \in Operation /\ op'.pc # "checkpoint"
              /\ ui' \in {"idle", "recording", "paused", "recoverable"}
<1>1. OperationFails(m) =>
              /\ op' \in Operation /\ op'.pc # "checkpoint"
              /\ ui' \in {"idle", "recording", "paused", "recoverable"}
  BY OperationTypes DEF OperationFails, TypeOK
<1>2. ASSUME NEW progress \in BOOLEAN, AfterSynchronize(m, progress)
      PROVE  /\ op' \in Operation /\ op'.pc # "checkpoint"
             /\ ui' \in {"idle", "recording", "paused", "recoverable"}
  <2>1. /\ At(op.kind, "read") \in Operation
        /\ At("drain", "read") \in Operation
        /\ At("drain", "read").pc # "checkpoint"
        /\ At("pause", "halt") \in Operation
        /\ At("pause", "halt").pc # "checkpoint"
    BY WaitTypes, OpNames DEF TypeOK
  <2>2. \A pc \in {"read", "complete"} :
          At("finish", pc) \in Operation /\ At("finish", pc).pc # "checkpoint"
    BY WaitTypes, OpNames
  <2> QED
    BY <1>1, <1>2, <2>1, <2>2, OperationTypes DEF AfterSynchronize, TypeOK
<1> QED
  BY <1>1, <1>2

(* What a commit leaves in the store.                                      *)
LEMMA CommitTypes ==
  ASSUME TypeOK, NEW n \in Nat \cup {NotStopped}, Commit(n)
  PROVE  store' \in Snapshot /\ checkpoint' \in [Sessions -> Nat]
<1>1. PersistedLibrary \in Snapshot
  BY DEF PersistedLibrary, TypeOK, Operation, Snapshot
<1>2. \A old \in Nat : Raised(old, n) \in Nat
  BY DEF Raised, NotStopped
<1> QED
  BY <1>1, <1>2 DEF Commit, TypeOK

-----------------------------------------------------------------------------
(* A recovery that waits for its checkpoint knows its session.             *)
RecoveringKnown == op.pc = "checkpoint" => tracker.session \in Sessions

TypeInv == TypeOK /\ BareFollowsLine /\ RecoveringKnown

LEMMA InitTypeInv == Init => TypeInv
<1> SUFFICES ASSUME Init PROVE TypeInv
  OBVIOUS
<1>1. store \in Snapshot /\ repo \in Snapshot
  BY EmptySnapshotType DEF Init
<1>2. native \in NativeTracker /\ sm \in Machine /\ op \in Operation
  BY NativeTypes, MachineTypes, OperationTypes DEF Init
<1>3. spool \in Spool /\ BareFollowsLine
  BY DEF Init, NoSpool, Spool, Tails, BareFollowsLine
<1>4. tracker \in Adapter /\ co \in Control /\ manifest \in SessionOrNone
  BY DEF Init, IdleAdapter, IdleControl, Adapter, Control, SessionOrNone,
         NotStopped
<1> QED
  BY <1>1, <1>2, <1>3, <1>4, OperationTypes
     DEF Init, TypeInv, TypeOK, RecoveringKnown

LEMMA EnvironmentTypeInv == TypeInv /\ Environment => TypeInv'
<1> SUFFICES ASSUME TypeInv, Environment PROVE TypeInv'
  OBVIOUS
<1> USE DEF TypeInv, TypeOK, BareFollowsLine, RecoveringKnown
<1>1. CASE Locate
  <2>1. spool' \in Spool /\ BareFollowsLine'
    BY <1>1, AppendType DEF Locate
  <2>2. native.sequence + 1 \in Nat
    BY <1>1 DEF Locate, NativeTracker
  <2>3. native' \in NativeTracker
    BY <1>1, NativeTypes DEF Locate
  <2>4. appended' \in [Sessions -> Nat]
    BY <1>1, <2>2 DEF Locate
  <2> QED
    BY <1>1, <2>1, <2>2, <2>3, <2>4 DEF Locate
<1>2. CASE AppendFails
  <2>1. spool' \in Spool /\ BareFollowsLine'
    BY <1>2, AppendType DEF AppendFails
  <2>2. spool'.good \in Nat
    BY <1>2, <2>1 DEF AppendFails, Spool
  <2>3. appended' \in [Sessions -> Nat]
    BY <1>2, <2>2 DEF AppendFails, Reached, Raised
  <2>4. native' \in NativeTracker
    BY <1>2, NativeTypes DEF AppendFails
  <2>5. faults' \in Nat
    BY <1>2 DEF AppendFails, Fault
  <2> QED
    BY <1>2, <2>1, <2>2, <2>3, <2>4, <2>5 DEF AppendFails
<1>3. CASE LosePermission
  <2>1. native' \in NativeTracker
    BY <1>3, NativeTypes DEF LosePermission
  <2>2. faults' \in Nat
    BY <1>3 DEF LosePermission, Fault
  <2> QED
    BY <1>3, <2>1, <2>2 DEF LosePermission, durable
<1>4. CASE SensorFault
  <2>1. native' \in NativeTracker
    BY <1>4, NativeTypes DEF SensorFault
  <2>2. faults' \in Nat
    BY <1>4 DEF SensorFault, Fault
  <2> QED
    BY <1>4, <2>1, <2>2 DEF SensorFault, durable
<1>5. CASE Relaunch
  <2>1. spool' \in Spool /\ BareFollowsLine'
    BY <1>5, AppendType DEF Relaunch
  <2>2. spool'.good \in Nat
    BY <1>5, <2>1 DEF Relaunch, Spool
  <2>3. appended' \in [Sessions -> Nat]
    BY <1>5, <2>2 DEF Relaunch, Reached, Raised
  <2>4. native' \in NativeTracker
    BY <1>5, NativeTypes DEF Relaunch
  <2>5. sm' \in Machine
    BY <1>5, MachineTypes DEF Relaunch
  <2>6. tracker' \in Adapter /\ co' \in Control
    BY <1>5, ResetTypes DEF Relaunch
  <2>7. op' \in Operation /\ op'.pc # "checkpoint"
    BY <1>5, OperationTypes DEF Relaunch
  <2>8. faults' \in Nat
    BY <1>5 DEF Relaunch, Fault
  <2> QED
    BY <1>5, <2>1, <2>2, <2>3, <2>4, <2>5, <2>6, <2>7, <2>8 DEF Relaunch
<1> QED
  BY <1>1, <1>2, <1>3, <1>4, <1>5 DEF Environment

LEMMA UserTypeInv == TypeInv /\ User => TypeInv'
<1> SUFFICES ASSUME TypeInv, User PROVE TypeInv'
  OBVIOUS
<1> USE DEF TypeInv, TypeOK, BareFollowsLine, RecoveringKnown
<1>1. CASE \E s \in Sessions : StartHike(s)
  <2>0. PICK s \in Sessions : StartHike(s)
    BY <1>1
  <2>1. native' \in NativeTracker
    BY <2>0, NativeTypes DEF StartHike
  <2>2. sm' \in Machine /\ tracker' \in Adapter
    BY <2>0 DEF StartHike, Machine, Adapter, SessionOrNone
  <2>3. repo' \in Snapshot
    BY <2>0, WithLifecycleType DEF StartHike, Lifecycles
  <2>4. co' \in Control
    BY <2>0 DEF StartHike, Control, NotStopped
  <2>5. op' \in Operation /\ op'.pc # "checkpoint"
    BY <2>0, <2>3, WaitTypes, OpNames DEF StartHike
  <2>6. spool' \in Spool /\ BareFollowsLine'
    BY <2>0 DEF StartHike, FreshSpool, Spool, Tails
  <2>7. manifest' \in SessionOrNone /\ issued' \in SUBSET Sessions
    BY <2>0 DEF StartHike, SessionOrNone
  <2> QED
    BY <2>0, <2>1, <2>2, <2>3, <2>4, <2>5, <2>6, <2>7 DEF StartHike
<1>2. CASE RefreshTick
  <2>1. op' \in Operation /\ op'.pc # "checkpoint"
    BY <1>2, WaitTypes, OpNames DEF RefreshTick
  <2> QED
    BY <1>2, <2>1 DEF RefreshTick, durable, history
<1>3. CASE PauseRequest
  <2>1. op' \in Operation /\ op'.pc # "checkpoint"
    BY <1>3, WaitTypes, OpNames DEF PauseRequest
  <2> QED
    BY <1>3, <2>1 DEF PauseRequest, durable, history
<1>4. CASE ResumeHike
  <2>1. native' \in NativeTracker
    BY <1>4, NativeTypes DEF ResumeHike
  <2>2. sm' \in Machine
    BY <1>4, MachineTypes DEF ResumeHike
  <2>3. repo' \in Snapshot
    BY <1>4, WithLifecycleType DEF ResumeHike, Lifecycles
  <2>4. op' \in Operation /\ op'.pc # "checkpoint"
    BY <1>4, <2>3, WaitTypes, OpNames DEF ResumeHike
  <2> QED
    BY <1>4, <2>1, <2>2, <2>3, <2>4 DEF ResumeHike, durable, history
<1>5. CASE ResumeFails
  <2>1. op' \in Operation /\ op'.pc # "checkpoint"
    BY <1>5, WaitTypes, OpNames DEF ResumeFails
  <2> QED
    BY <1>5, <2>1 DEF ResumeFails, durable, history
<1>6. CASE FinishRequest
  <2>1. op' \in Operation /\ op'.pc # "checkpoint"
    BY <1>6, WaitTypes, OpNames DEF FinishRequest
  <2> QED
    BY <1>6, <2>1 DEF FinishRequest, durable, history
<1>7. CASE RecoverHike
  <2>1. spool.good \in Nat
    BY <1>7 DEF RecoverHike, Spool
  <2>2. native' \in NativeTracker
    BY <1>7, <2>1, NativeTypes DEF RecoverHike
  <2>3. sm' \in Machine
    BY <1>7, MachineTypes DEF RecoverHike
  <2>4. tracker' \in Adapter
    BY <1>7 DEF RecoverHike, Adapter
  <2>5. op' \in Operation /\ tracker'.session \in Sessions
    BY <1>7, OperationTypes, OpNames DEF RecoverHike, Adapter, SessionOrNone
  <2> QED
    BY <1>7, <2>1, <2>2, <2>3, <2>4, <2>5 DEF RecoverHike, durable, history
<1>8. CASE RecoverRefused
  <2>1. sm' \in Machine
    BY <1>8, MachineTypes DEF RecoverRefused
  <2> QED
    BY <1>8, <2>1 DEF RecoverRefused, durable, history
<1>9. CASE DiscardHike
  <2>1. spool' \in Spool /\ BareFollowsLine'
    BY <1>9 DEF DiscardHike, NoSpool, Spool, Tails
  <2>2. manifest' \in SessionOrNone
    BY <1>9 DEF DiscardHike, SessionOrNone
  <2>3. discarded' \in SUBSET Sessions
    BY <1>9 DEF DiscardHike, SessionOrNone
  <2>4. faults' \in Nat
    BY <1>9 DEF DiscardHike, Fault
  <2>5. ui' \in {"idle", "recording", "paused", "recoverable"}
    BY <1>9 DEF DiscardHike
  <2> QED
    BY <1>9, <2>1, <2>2, <2>3, <2>4, <2>5 DEF DiscardHike
<1>10. CASE \E n \in Notes : SaveNote(n)
  <2>0. PICK n \in Notes : SaveNote(n)
    BY <1>10
  <2>1. WithNote(repo, n) \in Snapshot
    BY <2>0, WithNoteType DEF SaveNote
  <2>2. store' \in Snapshot /\ repo' \in Snapshot
    BY <2>0, <2>1 DEF SaveNote
  <2>3. savedNotes' \in SUBSET Notes
    BY <2>0 DEF SaveNote
  <2>4. faults' \in Nat
    BY <2>0 DEF SaveNote, Fault
  <2> QED
    BY <2>0, <2>1, <2>2, <2>3, <2>4 DEF SaveNote
<1> QED
  BY <1>1, <1>2, <1>3, <1>4, <1>5, <1>6, <1>7, <1>8, <1>9, <1>10 DEF User

LEMMA CoordinatorTypeInv == TypeInv /\ Coordinator => TypeInv'
<1> SUFFICES ASSUME TypeInv, Coordinator PROVE TypeInv'
  OBVIOUS
<1> USE DEF TypeInv, TypeOK, BareFollowsLine, RecoveringKnown
<1>1. CASE SaveLifecycle
  <2>1. sm.highest \in Nat
    BY <1>1 DEF SaveLifecycle, Machine
  <2>2. store' \in Snapshot
       /\ checkpoint' \in [Sessions -> Nat]
    BY <1>1, <2>1, CommitTypes DEF SaveLifecycle, Persist, PersistFails
  <2>3. faults' \in Nat
    BY <1>1 DEF SaveLifecycle, Persist, PersistFails, Fault
  <2>4. /\ op' \in Operation /\ op'.pc # "checkpoint"
        /\ ui' \in {"idle", "recording", "paused", "recoverable"}
    <3>1. At("drain", "read") \in Operation /\ At("drain", "read").pc = "read"
      BY OperationTypes, OpNames
    <3>2. /\ At(op.kind, "suspend") \in Operation
          /\ At(op.kind, "suspend").pc = "suspend"
      BY OperationTypes, OpNames, SMTT(30)
    <3> QED
      BY <1>1, <3>1, <3>2, OperationTypes, OutcomeTypes DEF SaveLifecycle
  <2> QED
    BY <1>1, <2>1, <2>2, <2>3, <2>4 DEF SaveLifecycle, durable, history
<1>2. CASE HaltSensors
  <2>1. native' \in NativeTracker
    BY <1>2, NativeTypes DEF HaltSensors
  <2>2. sm' \in Machine
    BY <1>2, MachineTypes DEF HaltSensors
  <2>3. repo' \in Snapshot
    BY <1>2, WithLifecycleType DEF HaltSensors, Lifecycles
  <2>4. /\ op' \in Operation /\ op'.pc # "checkpoint"
        /\ ui' \in {"idle", "recording", "paused", "recoverable"}
    BY <1>2, <2>3, WaitTypes, OutcomeTypes, OpNames DEF HaltSensors
  <2> QED
    BY <1>2, <2>1, <2>2, <2>3, <2>4 DEF HaltSensors, durable, history
<1>3. CASE SuspendSensors
  <2>1. native' \in NativeTracker
    BY <1>3, NativeTypes DEF SuspendSensors
  <2>2. sm' \in Machine
    BY <1>3, MachineTypes DEF SuspendSensors
  <2>3. /\ op' \in Operation /\ op'.pc # "checkpoint"
        /\ ui' \in {"idle", "recording", "paused", "recoverable"}
    <3>1. /\ At(op.kind, "shutdown") \in Operation
          /\ At(op.kind, "shutdown").pc = "shutdown"
      BY OperationTypes, OpNames, SMTT(30)
    <3> QED
      BY <1>3, <2>2, <3>1, OutcomeTypes DEF SuspendSensors
  <2> QED
    BY <1>3, <2>1, <2>2, <2>3 DEF SuspendSensors, durable, history
<1>4. CASE ShutdownSensors
  <2>1. native' \in NativeTracker
    BY <1>4, NativeTypes DEF ShutdownSensors
  <2>2. sm' \in Machine
    BY <1>4, MachineTypes DEF ShutdownSensors, Machine
  <2>3. /\ op' \in Operation /\ op'.pc # "checkpoint"
        /\ ui' \in {"idle", "recording", "paused", "recoverable"}
    BY <1>4, <2>2, OutcomeTypes DEF ShutdownSensors
  <2> QED
    BY <1>4, <2>1, <2>2, <2>3 DEF ShutdownSensors, durable, history
<1>5. CASE ReadFails
  <2>1. /\ op' \in Operation /\ op'.pc # "checkpoint"
        /\ ui' \in {"idle", "recording", "paused", "recoverable"}
    BY <1>5, OutcomeTypes DEF ReadFails
  <2> QED
    BY <1>5, <2>1 DEF ReadFails, durable, history
<1>6. CASE ReadNothing
  <2>1. /\ op' \in Operation /\ op'.pc # "checkpoint"
        /\ ui' \in {"idle", "recording", "paused", "recoverable"}
    BY <1>6, OutcomeTypes DEF ReadNothing
  <2> QED
    BY <1>6, <2>1 DEF ReadNothing, durable, history
<1>7. CASE ReadBatch
  <2>1. ReadAfter \in Nat
    BY <1>7 DEF ReadBatch, ReadAfter, Adapter
  <2>2. LastRead \in Nat
    BY <1>7, <2>1, BatchEndType DEF ReadBatch, LastRead
  <2>3. NewInBatch \in SUBSET Nat
    BY <1>7, <2>1, <2>2 DEF ReadBatch, NewInBatch
  <2>4. sm' \in Machine
    BY <1>7, <2>2, <2>3 DEF ReadBatch, Machine
  <2>5. repo' \in Snapshot
    BY <1>7, <2>3, WithSamplesType DEF ReadBatch
  <2>6. co' \in Control
    BY <1>7 DEF ReadBatch, Control
  <2>7. op' \in Operation /\ op'.pc # "checkpoint"
    <3>1. /\ op' = [Saving(op.kind, "write", repo')
                     EXCEPT !.before = sm.highest]
          /\ sm.highest \in Nat
      BY <1>7 DEF ReadBatch, Machine
    <3>2. Saving(op.kind, "write", repo') \in Operation
          /\ Saving(op.kind, "write", repo').pc = "write"
      <4>1. op.kind \in OpKinds /\ "write" \in OpPoints
        BY OpNames
      <4> QED
        BY <2>5, <4>1, OperationTypes
    <3> QED
      BY <3>1, <3>2 DEF Operation
  <2> QED
    BY <1>7, <2>1, <2>2, <2>3, <2>4, <2>5, <2>6, <2>7
       DEF ReadBatch, durable, history
<1>8. CASE SaveBatch
  <2>1. sm.highest \in Nat
    BY <1>8 DEF SaveBatch, Machine
  <2>2. store' \in Snapshot
       /\ checkpoint' \in [Sessions -> Nat]
    BY <1>8, <2>1, CommitTypes DEF SaveBatch, Persist, PersistFails
  <2>3. faults' \in Nat
    BY <1>8 DEF SaveBatch, Persist, PersistFails, Fault
  <2>4. tracker' \in Adapter
    BY <1>8, <2>1 DEF SaveBatch, Adapter, Raised
  <2>5. co' \in Control
    BY <1>8 DEF SaveBatch, Control
  <2>6. /\ op' \in Operation /\ op'.pc # "checkpoint"
        /\ ui' \in {"idle", "recording", "paused", "recoverable"}
    BY <1>8, OutcomeTypes DEF SaveBatch
  <2> QED
    BY <1>8, <2>1, <2>2, <2>3, <2>4, <2>5, <2>6 DEF SaveBatch, durable, history
<1>9. CASE LoadCheckpoint
  <2>1. tracker.session \in Sessions => checkpoint[tracker.session] \in Nat
    BY <1>9 DEF LoadCheckpoint
  <2>2. tracker' \in Adapter
    BY <1>9, <2>1 DEF LoadCheckpoint, Adapter, SessionOrNone
  <2>3. sm' \in Machine
    <3>1. CASE sm' = RecoveredMachine(tracker.session,
                                repo.activity[tracker.session].samples)
      <4>1. tracker.session \in Sessions
            /\ repo.activity[tracker.session].samples \in SUBSET Nat
        BY <1>9 DEF LoadCheckpoint, Snapshot, Activity
      <4>2. HighestOf(repo.activity[tracker.session].samples) \in Nat
        BY <4>1, HighestOfType
      <4> QED
        BY <3>1, <4>1, <4>2, MachineTypes
           DEF RecoveredMachine, Machine, SessionOrNone
    <3>2. CASE sm' = sm
      BY <3>2
    <3> QED
      BY <1>9, <3>1, <3>2 DEF LoadCheckpoint
  <2>4. repo' \in Snapshot
    BY <1>9, WithLifecycleType DEF LoadCheckpoint, Lifecycles
  <2>5. co' \in Control
    BY <1>9 DEF LoadCheckpoint, Control
  <2>6. /\ op' \in Operation /\ op'.pc # "checkpoint"
        /\ ui' \in {"idle", "recording", "paused", "recoverable"}
    BY <1>9, WaitTypes, OutcomeTypes, OpNames DEF LoadCheckpoint
  <2>7. faults' \in Nat
    BY <1>9 DEF LoadCheckpoint, Fault
  <2> QED
    BY <1>9, <2>1, <2>2, <2>3, <2>4, <2>5, <2>6, <2>7
       DEF LoadCheckpoint, durable, history
<1>10. CASE StopSensors
  <2>1. native' \in NativeTracker
    BY <1>10, NativeTypes DEF StopSensors
  <2>2. sm' \in Machine
    BY <1>10, MachineTypes DEF StopSensors
  <2>3. co' \in Control
    BY <1>10 DEF StopSensors, Control, NativeTracker, NotStopped
  <2>4. /\ op' \in Operation /\ op'.pc # "checkpoint"
        /\ ui' \in {"idle", "recording", "paused", "recoverable"}
    BY <1>10, WaitTypes, OutcomeTypes, OpNames DEF StopSensors
  <2> QED
    BY <1>10, <2>1, <2>2, <2>3, <2>4 DEF StopSensors, durable, history
<1>11. CASE CompleteFinish
  <2>1. sm' \in Machine
    BY <1>11, MachineTypes DEF CompleteFinish
  <2>2. repo' \in Snapshot
    BY <1>11, WithLifecycleType, WithRevisionType
       DEF CompleteFinish, Lifecycles
  <2>3. co' \in Control
    BY <1>11 DEF CompleteFinish, Control
  <2>4. /\ op' \in Operation /\ op'.pc # "checkpoint"
        /\ ui' \in {"idle", "recording", "paused", "recoverable"}
    <3>1. Saving("finish", "final", repo') \in Operation
          /\ Saving("finish", "final", repo').pc = "final"
      BY <2>2, OperationTypes, OpNames
    <3> QED
      BY <1>11, <2>1, <3>1, OutcomeTypes DEF CompleteFinish
  <2> QED
    BY <1>11, <2>1, <2>2, <2>3, <2>4 DEF CompleteFinish, durable, history
<1>12. CASE SaveFinish
  <2>1. co.stopped \in Nat \cup {NotStopped}
    BY <1>12 DEF SaveFinish, Control
  <2>2. store' \in Snapshot
       /\ checkpoint' \in [Sessions -> Nat]
    BY <1>12, <2>1, CommitTypes DEF SaveFinish, Persist, PersistFails
  <2>3. faults' \in Nat
    BY <1>12 DEF SaveFinish, Persist, PersistFails, Fault
  <2>4. /\ op' \in Operation /\ op'.pc # "checkpoint"
        /\ ui' \in {"idle", "recording", "paused", "recoverable"}
    BY <1>12, WaitTypes, OutcomeTypes, OpNames DEF SaveFinish
  <2> QED
    BY <1>12, <2>1, <2>2, <2>3, <2>4 DEF SaveFinish, durable, history
<1>13. CASE SealSpool
  <2>1. spool' \in Spool /\ BareFollowsLine'
    BY <1>13, ResetTypes DEF SealSpool
  <2>2. manifest' \in SessionOrNone
    BY <1>13 DEF SealSpool, SessionOrNone
  <2>3. tracker' \in Adapter /\ co' \in Control
    BY <1>13, ResetTypes DEF SealSpool
  <2>4. /\ op' \in Operation /\ op'.pc # "checkpoint"
        /\ ui' \in {"idle", "recording", "paused", "recoverable"}
    BY <1>13, OperationTypes, OutcomeTypes DEF SealSpool
  <2>5. faults' \in Nat
    BY <1>13 DEF SealSpool, Fault
  <2> QED
    BY <1>13, <2>1, <2>2, <2>3, <2>4, <2>5 DEF SealSpool, durable, history
<1> QED
  BY <1>1, <1>2, <1>3, <1>4, <1>5, <1>6, <1>7, <1>8, <1>9, <1>10,
     <1>11, <1>12, <1>13 DEF Coordinator
-----------------------------------------------------------------------------
LEMMA NextTypeInv == TypeInv /\ [Next]_vars => TypeInv'
<1>1. TypeInv /\ UNCHANGED vars => TypeInv'
  BY DEF TypeInv, TypeOK, BareFollowsLine, RecoveringKnown, vars
<1> QED
  BY <1>1, EnvironmentTypeInv, UserTypeInv, CoordinatorTypeInv DEF Next

(* Type correctness, for every number of sessions and notes, every bound   *)
(* and every set of faults: TypeOK alone is not inductive, because a spool *)
(* whose last newline is missing must hold a line for the next append to   *)
(* damage, and a recovery must know the session it asks a checkpoint for.  *)
THEOREM TypeCorrect == Spec => []TypeOK
<1>1. TypeInv => TypeOK
  BY DEF TypeInv
<1> QED
  BY InitTypeInv, NextTypeInv, <1>1, PTL DEF Spec

-----------------------------------------------------------------------------
(* Durability.                                                             *)


IsPrefix(samples) == samples = UpTo(HighestOf(samples))

(* A library that may be the one in memory or the one on disk: every       *)
(* activity holds a prefix of its hike, which covers the checkpoint and is *)
(* at most one batch longer; a session not yet issued has nothing; every   *)
(* saved note is there.                                                    *)
LibraryOK(lib, ck, iss, notes) ==
  /\ \A s \in Sessions :
       /\ IsPrefix(lib.activity[s].samples)
       /\ UpTo(ck[s]) \subseteq lib.activity[s].samples
       /\ lib.activity[s].samples \subseteq UpTo(ck[s] + BatchLimit)
       /\ s \notin iss => lib.activity[s].samples = {}
  /\ notes \subseteq lib.journal

LibrariesOK == /\ LibraryOK(repo, checkpoint, issued, savedNotes)
               /\ LibraryOK(store, checkpoint, issued, savedNotes)

(* What the state machine committed is what the library in memory has.     *)
MachineOK ==
  /\ sm.kind = "idle" <=> sm.session = NoSession
  /\ sm.session # NoSession =>
       /\ sm.session \in issued
       /\ sm.samples = UpTo(sm.highest)
       /\ repo.activity[sm.session].samples = sm.samples

(* The adapter follows the session of the machine and of the manifest.     *)
AdapterOK ==
  /\ manifest \in issued \cup {NoSession}
  /\ tracker.session \in issued \cup {NoSession}
  /\ Active(sm) => tracker.session = sm.session
  /\ tracker.session = NoSession => tracker.acknowledged = 0
  /\ tracker.session # NoSession =>
       /\ tracker.acknowledged <= checkpoint[tracker.session]
       /\ manifest \in {NoSession, tracker.session}

(* What each stage of an operation relies on.                              *)
OperationOK ==
  /\ op.kind = "none" <=> op.pc = "rest"
  /\ op.pc \in {"lifecycle", "write", "final"} =>
       op.snapshot.activity = repo.activity
  /\ op.pc \in {"lifecycle", "write", "stop", "complete"} => Active(sm)
  /\ op.pc = "complete" => co.stopped = sm.highest
  /\ op.pc \in {"final", "seal"} => co.pendingFinish
  /\ op.pc = "checkpoint" => ~co.pendingFinish
  /\ co.pendingFinish => sm.kind = "finished" /\ co.stopped = sm.highest

DurableInv == TypeInv /\ LibrariesOK /\ MachineOK /\ AdapterOK /\ OperationOK

-----------------------------------------------------------------------------
(* The highest sequence number of a prefix is its length.                  *)
LEMMA HighestOfPrefix ==
  ASSUME NEW k \in Nat
  PROVE  HighestOf(UpTo(k)) = k
<1>1. CASE k = 0
  <2>1. UpTo(k) = {}
    BY <1>1 DEF UpTo
  <2> QED
    BY <1>1, <2>1 DEF HighestOf
<1>2. CASE k > 0
  <2>1. k \in UpTo(k) /\ IsHighest(k, UpTo(k))
    BY <1>2 DEF UpTo, IsHighest
  <2>2. \A n \in UpTo(k) : IsHighest(n, UpTo(k)) => n = k
    BY <2>1 DEF UpTo, IsHighest
  <2> QED
    BY <2>1, <2>2 DEF HighestOf
<1> QED
  BY <1>1, <1>2

(* How the operators on a snapshot change samples and journal.             *)
LEMMA LifecycleFrame ==
  ASSUME NEW snap \in Snapshot, NEW s, NEW l
  PROVE  /\ \A t \in Sessions : WithLifecycle(snap, s, l).activity[t].samples
                                 = snap.activity[t].samples
         /\ WithLifecycle(snap, s, l).journal = snap.journal
  BY DEF WithLifecycle, Snapshot, Activity

LEMMA RevisionFrame ==
  ASSUME NEW snap \in Snapshot, NEW s
  PROVE  /\ \A t \in Sessions : WithRevision(snap, s).activity[t].samples
                                 = snap.activity[t].samples
         /\ WithRevision(snap, s).journal = snap.journal
  BY DEF WithRevision, Snapshot, Activity

LEMMA SamplesFrame ==
  ASSUME NEW snap \in Snapshot, NEW s \in Sessions, NEW seqs \in SUBSET Nat
  PROVE  /\ \A t \in Sessions \ {s} :
              WithSamples(snap, s, seqs).activity[t].samples
                = snap.activity[t].samples
         /\ WithSamples(snap, s, seqs).activity[s].samples
              = snap.activity[s].samples \cup seqs
         /\ WithSamples(snap, s, seqs).journal = snap.journal
  BY DEF WithSamples, Snapshot, Activity

LEMMA NoteFrame ==
  ASSUME NEW snap \in Snapshot, NEW n
  PROVE  /\ WithNote(snap, n).activity = snap.activity
         /\ WithNote(snap, n).journal = snap.journal \cup {n}
  BY DEF WithNote, Snapshot

(* A library that differs from a good one in neither samples nor notes is  *)
(* good, and more issued sessions or notes it has do no harm.              *)
LEMMA SameSamples ==
  ASSUME NEW a, NEW b, NEW ck, NEW iss, NEW notes, NEW iss2, NEW notes2,
         LibraryOK(a, ck, iss, notes),
         \A s \in Sessions : b.activity[s].samples = a.activity[s].samples,
         iss \subseteq iss2, notes2 \subseteq b.journal
  PROVE  LibraryOK(b, ck, iss2, notes2)
  BY DEF LibraryOK

(* A commit of what the library in memory has, with the highest sequence   *)
(* number of the current session as its checkpoint.                        *)
LEMMA CommitKeeps ==
  ASSUME DurableInv, Commit(sm.highest),
         UNCHANGED <<repo, issued, savedNotes>>,
         op.snapshot.activity = repo.activity, sm.session # NoSession
  PROVE  /\ LibrariesOK'
         /\ \A s \in Sessions, n \in Nat :
              n <= checkpoint[s] => n <= checkpoint'[s]
         /\ sm.highest <= checkpoint'[sm.session]
<1> USE DEF DurableInv
<1>1. sm.session \in Sessions /\ sm.highest \in Nat
  BY DEF TypeInv, TypeOK, Machine, SessionOrNone
<1>2. /\ checkpoint' \in [Sessions -> Nat]
      /\ \A s \in Sessions : checkpoint'[s] =
           IF s = sm.session THEN Raised(checkpoint[s], sm.highest)
           ELSE checkpoint[s]
  BY <1>1, CommitTypes DEF Commit, TypeInv, TypeOK
<1>3. \A s \in Sessions :
        checkpoint[s] \in Nat /\ checkpoint[s] <= checkpoint'[s]
  BY <1>1, <1>2 DEF Raised, TypeInv, TypeOK
<1>4. LibraryOK(repo', checkpoint', issued', savedNotes')
  <2>1. ASSUME NEW s \in Sessions
        PROVE  UpTo(checkpoint'[s]) \subseteq repo.activity[s].samples
    <3>1. CASE s = sm.session /\ sm.highest > checkpoint[s]
      BY <1>1, <1>2, <3>1 DEF MachineOK, Raised
    <3>2. CASE ~(s = sm.session /\ sm.highest > checkpoint[s])
      <4>1. checkpoint'[s] = checkpoint[s]
        BY <1>2, <3>2 DEF Raised
      <4> QED
        BY <4>1 DEF LibrariesOK, LibraryOK
    <3> QED
      BY <3>1, <3>2
  <2>2. ASSUME NEW s \in Sessions
        PROVE  repo.activity[s].samples
                 \subseteq UpTo(checkpoint'[s] + BatchLimit)
    <3>1. repo.activity[s].samples \subseteq UpTo(checkpoint[s] + BatchLimit)
      BY DEF LibrariesOK, LibraryOK
    <3>2. checkpoint'[s] \in Nat /\ checkpoint[s] \in Nat
          /\ checkpoint[s] <= checkpoint'[s]
      BY <1>2, <1>3
    <3> QED
      BY <3>1, <3>2, BatchLimitAssumption DEF UpTo
  <2> QED
    BY <2>1, <2>2 DEF LibrariesOK, LibraryOK
<1>5. store'.activity = repo'.activity /\ store'.journal = repo'.journal
  BY DEF Commit, PersistedLibrary, TypeInv, TypeOK, Operation, Snapshot
<1>6. LibrariesOK'
  BY <1>4, <1>5 DEF LibrariesOK, LibraryOK
<1>7. \A s \in Sessions, n \in Nat : n <= checkpoint[s] => n <= checkpoint'[s]
  BY <1>2, <1>3
<1>8. sm.highest <= checkpoint'[sm.session]
  BY <1>1, <1>2 DEF Raised, TypeInv, TypeOK
<1> QED
  BY <1>6, <1>7, <1>8

-----------------------------------------------------------------------------
(* Every step keeps what the four parts say.                               *)
Parts == LibrariesOK /\ MachineOK /\ AdapterOK /\ OperationOK

LEMMA InitParts == Init => Parts
<1> SUFFICES ASSUME Init PROVE Parts
  OBVIOUS
<1>1. \A s \in Sessions : EmptySnapshot.activity[s].samples = UpTo(0)
  BY DEF EmptySnapshot, NoActivity, UpTo
<1>2. UpTo(0) = {} /\ HighestOf({}) = 0
  BY HighestOfPrefix DEF UpTo
<1>3. \A s \in Sessions : checkpoint[s] = 0
  BY DEF Init
<1>4. LibraryOK(EmptySnapshot, checkpoint, {}, {})
  BY <1>1, <1>2, <1>3 DEF LibraryOK, IsPrefix
<1> QED
  BY <1>4 DEF Init, Parts, LibrariesOK, MachineOK, AdapterOK, OperationOK,
     IdleMachine, IdleAdapter, IdleControl, Resting, At, Active

(* Steps that touch none of the state the parts speak of.                  *)
LEMMA FrameParts ==
  ASSUME DurableInv,
         UNCHANGED <<manifest, store, checkpoint, sm, tracker, repo, co, op,
                     issued, savedNotes>>
  PROVE  Parts'
  BY DEF DurableInv, Parts, LibrariesOK, MachineOK, AdapterOK, OperationOK,
         Active

LEMMA RelaunchParts == DurableInv /\ Relaunch => Parts'
<1> SUFFICES ASSUME DurableInv, Relaunch PROVE Parts'
  OBVIOUS
<1> USE DEF DurableInv
<1>1. LibrariesOK'
  BY DEF Relaunch, LibrariesOK
<1>2. MachineOK'
  BY DEF Relaunch, MachineOK, IdleMachine
<1>3. AdapterOK'
  BY DEF Relaunch, AdapterOK, IdleAdapter, IdleMachine, Active
<1>4. OperationOK'
  BY DEF Relaunch, OperationOK, Resting, At, IdleControl
<1> QED
  BY <1>1, <1>2, <1>3, <1>4 DEF Parts

LEMMA StartParts ==
  ASSUME DurableInv, NEW s \in Sessions, StartHike(s)
  PROVE  Parts'
<1> USE DEF DurableInv
<1>1. \A t \in Sessions : repo'.activity[t].samples = repo.activity[t].samples
  BY LifecycleFrame DEF StartHike, TypeInv, TypeOK
<1>2. repo'.journal = repo.journal
  BY LifecycleFrame DEF StartHike, TypeInv, TypeOK
<1>3. LibrariesOK'
  BY <1>1, <1>2, SameSamples DEF StartHike, LibrariesOK, LibraryOK
<1>4. repo'.activity[s].samples = {} /\ UpTo(0) = {}
  BY <1>1 DEF StartHike, LibrariesOK, LibraryOK, UpTo
<1>5. MachineOK'
  BY <1>4, ConstantsAssumption DEF StartHike, MachineOK
<1>6. AdapterOK'
  BY ConstantsAssumption DEF StartHike, AdapterOK, Active, TypeInv, TypeOK
<1>7. OperationOK'
  BY DEF StartHike, OperationOK, Saving, Active
<1> QED
  BY <1>3, <1>5, <1>6, <1>7 DEF Parts

(* Requests and refusals that move the operation, and at most interrupt    *)
(* the machine.                                                            *)
LEMMA RequestParts ==
  DurableInv /\ (RefreshTick \/ PauseRequest \/ ResumeFails \/ FinishRequest
                   \/ RecoverRefused) => Parts'
<1> SUFFICES ASSUME DurableInv, RefreshTick \/ PauseRequest \/ ResumeFails
                                  \/ FinishRequest \/ RecoverRefused
             PROVE  Parts'
  OBVIOUS
<1> USE DEF DurableInv
<1>0. UNCHANGED <<manifest, store, checkpoint, tracker, repo, co, issued,
                  savedNotes>>
  BY DEF RefreshTick, PauseRequest, ResumeFails, FinishRequest,
         RecoverRefused, durable, history
<1>1. LibrariesOK'
  BY <1>0 DEF LibrariesOK
<1>2. MachineOK' /\ (Active(sm') => Active(sm) /\ sm'.session = sm.session)
  BY <1>0 DEF RefreshTick, PauseRequest, ResumeFails, FinishRequest,
              RecoverRefused, history, MachineOK, InterruptedMachine, Active,
              TypeInv, TypeOK, Machine
<1>3. AdapterOK'
  BY <1>0, <1>2 DEF AdapterOK
<1>4. OperationOK'
  <2>1. CASE RecoverRefused
    BY <1>0, <2>1 DEF RecoverRefused, OperationOK
  <2>2. CASE ~RecoverRefused
    BY <1>0, <2>2 DEF RefreshTick, PauseRequest, ResumeFails, FinishRequest,
                      OperationOK, At, Saving, Active
  <2> QED
    BY <2>1, <2>2
<1> QED
  BY <1>1, <1>2, <1>3, <1>4 DEF Parts

LEMMA ResumeParts == DurableInv /\ ResumeHike => Parts'
<1> SUFFICES ASSUME DurableInv, ResumeHike PROVE Parts'
  OBVIOUS
<1> USE DEF DurableInv
<1>1. \A t \in Sessions : repo'.activity[t].samples = repo.activity[t].samples
  BY LifecycleFrame DEF ResumeHike, TypeInv, TypeOK
<1>2. repo'.journal = repo.journal
  BY LifecycleFrame DEF ResumeHike, TypeInv, TypeOK
<1>3. LibrariesOK'
  BY <1>1, <1>2, SameSamples
     DEF ResumeHike, LibrariesOK, LibraryOK, durable, history
<1>4. sm'.kind = "recording" /\ sm'.session = sm.session
      /\ sm'.samples = sm.samples /\ sm'.highest = sm.highest
      /\ sm.session \in SessionOrNone
  BY DEF ResumeHike, TypeInv, TypeOK, Machine
<1>5. MachineOK'
  BY <1>1, <1>4 DEF ResumeHike, MachineOK, history, SessionOrNone
<1>6. AdapterOK'
  BY <1>4 DEF ResumeHike, AdapterOK, Active, durable, history
<1>7. OperationOK'
  BY <1>4 DEF ResumeHike, OperationOK, Saving, Active
<1> QED
  BY <1>3, <1>5, <1>6, <1>7 DEF Parts

LEMMA RecoverParts == DurableInv /\ RecoverHike => Parts'
<1> SUFFICES ASSUME DurableInv, RecoverHike PROVE Parts'
  OBVIOUS
<1> USE DEF DurableInv
<1>1. LibrariesOK'
  BY DEF RecoverHike, LibrariesOK, durable, history
<1>2. MachineOK' /\ ~Active(sm')
  BY DEF RecoverHike, MachineOK, InterruptedMachine, Active, history, TypeInv,
         TypeOK, Machine
<1>3. /\ tracker'.session = manifest
      /\ tracker'.acknowledged = tracker.acknowledged
  BY DEF RecoverHike, TypeInv, TypeOK, Adapter
<1>4. checkpoint[manifest] \in Nat
  BY DEF RecoverHike, TypeInv, TypeOK, SessionOrNone
<1>5. AdapterOK'
  BY <1>2, <1>3, <1>4 DEF RecoverHike, AdapterOK, durable, history
<1>6. OperationOK'
  BY <1>2 DEF RecoverHike, OperationOK, At
<1> QED
  BY <1>1, <1>2, <1>5, <1>6 DEF Parts

LEMMA DiscardParts == DurableInv /\ DiscardHike => Parts'
<1> SUFFICES ASSUME DurableInv, DiscardHike PROVE Parts'
  OBVIOUS
<1> USE DEF DurableInv
<1>1. LibrariesOK' /\ MachineOK' /\ OperationOK'
  BY DEF DiscardHike, LibrariesOK, MachineOK, OperationOK, Active
<1>2. AdapterOK'
  BY DEF DiscardHike, AdapterOK, Active
<1> QED
  BY <1>1, <1>2 DEF Parts

LEMMA NoteParts ==
  ASSUME DurableInv, NEW n \in Notes, SaveNote(n)
  PROVE  Parts'
<1> USE DEF DurableInv
<1>1. WithNote(repo, n).activity = repo.activity
      /\ WithNote(repo, n).journal = repo.journal \cup {n}
  BY NoteFrame DEF TypeInv, TypeOK
<1>2. repo'.activity = repo.activity
  BY <1>1 DEF SaveNote
<1>3. LibraryOK(WithNote(repo, n), checkpoint, issued, savedNotes')
  BY <1>1 DEF SaveNote, LibrariesOK, LibraryOK
<1>4. LibrariesOK'
  BY <1>3 DEF SaveNote, LibrariesOK
<1>5. MachineOK' /\ AdapterOK' /\ OperationOK'
  BY <1>2 DEF SaveNote, MachineOK, AdapterOK, OperationOK, Active
<1> QED
  BY <1>4, <1>5 DEF Parts

-----------------------------------------------------------------------------
(* The coordinator.  Where an operation ends or goes on to read, nothing   *)
(* but the machine's last state is relied on.                              *)
LEMMA OutcomeOK ==
  ASSUME NEW m, NEW progress \in BOOLEAN, op.kind # "none",
         OperationFails(m) \/ AfterSynchronize(m, progress)
  PROVE  /\ op'.kind = "none" <=> op'.pc = "rest"
         /\ op'.pc \in {"rest", "halt", "read", "complete"}
         /\ op'.pc = "complete" =>
              AfterSynchronize(m, progress) /\ progress
              /\ m.highest = co.stopped
  BY DEF OperationFails, AfterSynchronize, Resting, At

(* A persist of the current library, whichever way it ends.                *)
LEMMA PersistParts ==
  ASSUME DurableInv, Persist(sm.highest) \/ PersistFails(sm.highest),
         UNCHANGED <<manifest, sm, repo, issued, savedNotes>>,
         tracker'.session = tracker.session,
         tracker'.acknowledged = tracker.acknowledged,
         op.snapshot.activity = repo.activity, sm.session # NoSession
  PROVE  /\ LibrariesOK' /\ MachineOK' /\ AdapterOK'
         /\ Persist(sm.highest) => sm.highest <= checkpoint'[sm.session]
<1> USE DEF DurableInv
<1>1. CASE Commit(sm.highest)
  <2>1. LibrariesOK' /\ sm.highest <= checkpoint'[sm.session]
    BY <1>1, CommitKeeps
  <2>2. tracker.session # NoSession =>
          tracker.acknowledged <= checkpoint'[tracker.session]
    BY <1>1, CommitKeeps DEF AdapterOK, TypeInv, TypeOK, Adapter, SessionOrNone
  <2> QED
    BY <2>1, <2>2 DEF MachineOK, AdapterOK, Active
<1>2. CASE ~Commit(sm.highest)
  BY <1>2 DEF Persist, PersistFails, LibrariesOK, MachineOK, AdapterOK, Active
<1> QED
  BY <1>1, <1>2

LEMMA SaveLifecycleParts == DurableInv /\ SaveLifecycle => Parts'
<1> SUFFICES ASSUME DurableInv, SaveLifecycle PROVE Parts'
  OBVIOUS
<1> USE DEF DurableInv
<1>1. op.snapshot.activity = repo.activity /\ Active(sm) /\ op.kind # "none"
      /\ sm.session # NoSession
  BY DEF SaveLifecycle, OperationOK, MachineOK, Active
<1>2. LibrariesOK' /\ MachineOK' /\ AdapterOK'
  BY <1>1, PersistParts DEF SaveLifecycle
<1>3. OperationOK'
  BY <1>1 DEF SaveLifecycle, OperationOK, OperationFails, Resting, At, Active
<1> QED
  BY <1>2, <1>3 DEF Parts

LEMMA HaltParts == DurableInv /\ HaltSensors => Parts'
<1> SUFFICES ASSUME DurableInv, HaltSensors PROVE Parts'
  OBVIOUS
<1> USE DEF DurableInv
<1>1. /\ \A t \in Sessions :
           repo'.activity[t].samples = repo.activity[t].samples
      /\ repo'.journal = repo.journal
  BY LifecycleFrame DEF HaltSensors, TypeInv, TypeOK
<1>2. LibrariesOK'
  BY <1>1, SameSamples
     DEF HaltSensors, LibrariesOK, LibraryOK, durable, history
<1>3. /\ sm'.session = sm.session /\ sm'.samples = sm.samples
      /\ sm'.highest = sm.highest /\ sm.session \in SessionOrNone
      /\ sm'.kind = sm.kind \/ (sm.kind = "recording" /\ sm'.kind = "paused")
  BY DEF HaltSensors, PausedMachine, TypeInv, TypeOK, Machine
<1>4. MachineOK'
  BY <1>1, <1>3 DEF HaltSensors, MachineOK, history, SessionOrNone
<1>5. AdapterOK'
  BY <1>3 DEF HaltSensors, AdapterOK, Active, durable, history
<1>6. OperationOK'
  BY <1>3 DEF HaltSensors, OperationOK, OperationFails, Saving, Resting, At,
              Active
<1> QED
  BY <1>2, <1>4, <1>5, <1>6 DEF Parts

LEMMA SuspendParts ==
  DurableInv /\ (SuspendSensors \/ ShutdownSensors) => Parts'
<1> SUFFICES ASSUME DurableInv, SuspendSensors \/ ShutdownSensors PROVE Parts'
  OBVIOUS
<1> USE DEF DurableInv
<1>1. LibrariesOK'
  BY DEF SuspendSensors, ShutdownSensors, LibrariesOK, durable, history
<1>2. /\ sm'.session = sm.session /\ sm'.samples = sm.samples
      /\ sm'.highest = sm.highest
      /\ sm'.kind = sm.kind
           \/ (sm.kind = "recording" /\ sm'.kind \in {"paused", "recoverable"})
  BY DEF SuspendSensors, ShutdownSensors, PausedMachine, TypeInv, TypeOK,
         Machine
<1>3. MachineOK'
  BY <1>2 DEF SuspendSensors, ShutdownSensors, MachineOK, history
<1>4. AdapterOK'
  BY <1>2 DEF SuspendSensors, ShutdownSensors, AdapterOK, Active, durable,
              history
<1>5. OperationOK'
  BY <1>2 DEF SuspendSensors, ShutdownSensors, OperationOK, OperationFails,
              Resting, At, Active
<1> QED
  BY <1>1, <1>3, <1>4, <1>5 DEF Parts

LEMMA ReadNoneParts == DurableInv /\ (ReadFails \/ ReadNothing) => Parts'
<1> SUFFICES ASSUME DurableInv, ReadFails \/ ReadNothing PROVE Parts'
  OBVIOUS
<1> USE DEF DurableInv
<1>1. UNCHANGED <<manifest, store, checkpoint, sm, tracker, repo, co, issued,
                  savedNotes>>
  BY DEF ReadFails, ReadNothing, durable, history
<1>2. op.kind # "none"
  BY DEF ReadFails, ReadNothing, OperationOK
<1>3. /\ op'.kind = "none" <=> op'.pc = "rest"
      /\ op'.pc \in {"rest", "halt", "read"}
  BY <1>2, OutcomeOK DEF ReadFails, ReadNothing
<1> QED
  BY <1>1, <1>3 DEF Parts, LibrariesOK, MachineOK, AdapterOK, OperationOK,
                    Active

(* A batch extends the prefix the machine has: it begins no later than     *)
(* what is missing, and reaches at most one batch beyond the checkpoint.   *)
LEMMA BatchExtends ==
  ASSUME DurableInv, ReadBatch
  PROVE  /\ sm'.samples = UpTo(sm'.highest) /\ sm'.highest \in Nat
         /\ sm'.session = sm.session /\ sm'.kind = sm.kind
         /\ sm'.samples = sm.samples \cup NewInBatch
         /\ sm.session \in Sessions /\ sm.session \in issued
         /\ sm'.samples \subseteq UpTo(checkpoint[sm.session] + BatchLimit)
<1> USE DEF DurableInv
<1>1. /\ sm.session \in Sessions /\ sm.session \in issued
      /\ sm.samples = UpTo(sm.highest) /\ sm.highest \in Nat
      /\ sm.samples = repo.activity[sm.session].samples
      /\ tracker.session = sm.session
  BY DEF ReadBatch, CanRead, MachineOK, AdapterOK, Active, TypeInv, TypeOK,
         Machine, SessionOrNone
<1>2. ReadAfter \in Nat /\ ReadAfter <= checkpoint[sm.session]
      /\ checkpoint[sm.session] \in Nat
  BY <1>1, ConstantsAssumption
     DEF ReadAfter, AdapterOK, TypeInv, TypeOK, Adapter
<1>3. LastRead \in Nat /\ LastRead <= ReadAfter + BatchLimit
  BY <1>2, BatchEndType DEF LastRead, TypeInv, TypeOK
<1>4. /\ sm'.samples = sm.samples \cup NewInBatch
      /\ sm'.highest = IF NewInBatch = {} THEN sm.highest ELSE LastRead
      /\ sm'.session = sm.session /\ sm'.kind = sm.kind
  BY DEF ReadBatch, TypeInv, TypeOK, Machine
<1>5. CASE NewInBatch = {}
  <2>1. sm.samples \subseteq UpTo(checkpoint[sm.session] + BatchLimit)
    BY <1>1 DEF LibrariesOK, LibraryOK
  <2> QED
    BY <1>1, <1>4, <1>5, <2>1
<1>6. CASE NewInBatch # {}
  <2>1. ReadAfter <= sm.highest
    BY <1>1, <1>2, <1>6 DEF ReadBatch, Gap
  <2>2. sm.highest < LastRead
    BY <1>1, <1>2, <1>3, <1>6 DEF NewInBatch
  <2>3. sm.samples \cup NewInBatch = UpTo(LastRead)
    BY <1>1, <1>2, <1>3, <2>1, <2>2 DEF NewInBatch, UpTo
  <2>4. UpTo(LastRead) \subseteq UpTo(checkpoint[sm.session] + BatchLimit)
    BY <1>2, <1>3, BatchLimitAssumption DEF UpTo
  <2> QED
    BY <1>1, <1>3, <1>4, <1>6, <2>3, <2>4
<1> QED
  BY <1>5, <1>6

LEMMA ReadBatchParts == DurableInv /\ ReadBatch => Parts'
<1> SUFFICES ASSUME DurableInv, ReadBatch PROVE Parts'
  OBVIOUS
<1> USE DEF DurableInv
<1>1. NewInBatch \in SUBSET Nat
  <2>1. ReadAfter \in Nat
    BY DEF ReadAfter, TypeInv, TypeOK, Adapter
  <2>2. LastRead \in Nat
    BY <2>1, BatchEndType DEF LastRead, TypeInv, TypeOK
  <2> QED
    BY <2>1, <2>2 DEF NewInBatch
<1>2. /\ \A t \in Sessions \ {sm.session} :
           repo'.activity[t].samples = repo.activity[t].samples
      /\ repo'.activity[sm.session].samples
           = repo.activity[sm.session].samples \cup NewInBatch
      /\ repo'.journal = repo.journal
  BY <1>1, BatchExtends, SamplesFrame DEF ReadBatch, TypeInv, TypeOK
<1>3. repo'.activity[sm.session].samples = sm'.samples
  BY <1>2, BatchExtends, ConstantsAssumption DEF MachineOK
<1>4. LibraryOK(repo', checkpoint, issued, savedNotes)
  <2>1. ASSUME NEW s \in Sessions, s # sm.session
        PROVE  repo'.activity[s].samples = repo.activity[s].samples
    BY <1>2, <2>1
  <2>2. IsPrefix(sm'.samples)
    BY BatchExtends, HighestOfPrefix DEF IsPrefix
  <2>3. UpTo(checkpoint[sm.session]) \subseteq sm'.samples
    BY <1>2, <1>3, BatchExtends DEF LibrariesOK, LibraryOK
  <2> QED
    BY <1>2, <1>3, <2>1, <2>2, <2>3, BatchExtends DEF LibrariesOK, LibraryOK
<1>5. LibrariesOK'
  BY <1>4 DEF ReadBatch, LibrariesOK, durable, history
<1>6. MachineOK'
  BY <1>3, BatchExtends DEF ReadBatch, MachineOK, history
<1>7. AdapterOK'
  BY BatchExtends DEF ReadBatch, AdapterOK, Active, durable, history
<1>8. OperationOK'
  <2>1. op.kind # "none" /\ Active(sm) /\ Active(sm') /\ ~co'.pendingFinish
    BY BatchExtends
       DEF ReadBatch, CanRead, OperationOK, Active, TypeInv, TypeOK, Control
  <2>2. op'.kind = op.kind /\ op'.pc = "write" /\ op'.snapshot = repo'
    BY DEF ReadBatch, Saving
  <2> QED
    BY <2>1, <2>2 DEF OperationOK
<1> QED
  BY <1>5, <1>6, <1>7, <1>8 DEF Parts

LEMMA SaveBatchParts == DurableInv /\ SaveBatch => Parts'
<1> SUFFICES ASSUME DurableInv, SaveBatch PROVE Parts'
  OBVIOUS
<1> USE DEF DurableInv
<1>1. /\ op.snapshot.activity = repo.activity /\ Active(sm)
      /\ op.kind # "none" /\ sm.session # NoSession
      /\ tracker.session = sm.session
  BY DEF SaveBatch, OperationOK, MachineOK, AdapterOK, Active
<1>2. CASE UNCHANGED tracker /\ UNCHANGED co /\ OperationFails(sm)
            /\ PersistFails(sm.highest)
  <2>1. LibrariesOK' /\ MachineOK' /\ AdapterOK'
    BY <1>1, <1>2, PersistParts DEF SaveBatch
  <2>2. OperationOK'
    BY <1>1, <1>2 DEF SaveBatch, OperationOK, OperationFails, Resting, At,
                      Active
  <2> QED
    BY <2>1, <2>2 DEF Parts
<1>3. CASE /\ Persist(sm.highest)
           /\ co' = [co EXCEPT !.dirty = FALSE]
           /\ tracker' = [tracker EXCEPT !.acknowledged =
                             Raised(@, sm.highest)]
           /\ AfterSynchronize(sm, sm.highest # op.before)
  <2>1. LibrariesOK' /\ sm.highest <= checkpoint'[sm.session]
        /\ tracker.acknowledged <= checkpoint'[sm.session]
    <3>1. Commit(sm.highest)
      BY <1>3 DEF Persist
    <3>2. sm.session \in Sessions /\ tracker.acknowledged \in Nat
          /\ tracker.acknowledged <= checkpoint[sm.session]
      BY <1>1 DEF AdapterOK, TypeInv, TypeOK, Machine, Adapter, SessionOrNone
    <3> QED
      BY <1>1, <3>1, <3>2, CommitKeeps DEF SaveBatch
  <2>2. tracker'.session = tracker.session
        /\ tracker'.acknowledged = Raised(tracker.acknowledged, sm.highest)
    BY <1>3 DEF TypeInv, TypeOK, Adapter
  <2>3. AdapterOK'
    BY <1>1, <2>1, <2>2 DEF SaveBatch, AdapterOK, Raised, Active
  <2>4. MachineOK'
    BY DEF SaveBatch, MachineOK
  <2>5. OperationOK'
    <3>1. co'.stopped = co.stopped /\ co'.pendingFinish = co.pendingFinish
      BY <1>3 DEF TypeInv, TypeOK, Control
    <3>2. /\ op'.kind = "none" <=> op'.pc = "rest"
          /\ op'.pc \in {"rest", "halt", "read", "complete"}
          /\ op'.pc = "complete" => sm.highest = co.stopped
      BY <1>1, <1>3, OutcomeOK
    <3> QED
      BY <1>1, <3>1, <3>2 DEF SaveBatch, OperationOK, Active
  <2> QED
    BY <2>1, <2>3, <2>4, <2>5 DEF Parts
<1> QED
  BY <1>2, <1>3 DEF SaveBatch

(* A recovered machine holds what the library has.                         *)
LEMMA LoadCheckpointParts == DurableInv /\ LoadCheckpoint => Parts'
<1> SUFFICES ASSUME DurableInv, LoadCheckpoint PROVE Parts'
  OBVIOUS
<1> USE DEF DurableInv
<1>1. tracker.session \in Sessions /\ tracker.session \in issued
  BY ConstantsAssumption
     DEF LoadCheckpoint, TypeInv, RecoveringKnown, AdapterOK
<1>2. op.kind # "none" /\ ~co.pendingFinish
  BY DEF LoadCheckpoint, OperationOK
<1>3. CASE OperationFails(sm) /\ UNCHANGED <<tracker, sm, repo, co>>
  <2>1. LibrariesOK' /\ MachineOK' /\ AdapterOK'
    BY <1>3 DEF LoadCheckpoint, LibrariesOK, MachineOK, AdapterOK, Active,
                durable
  <2>2. OperationOK'
    BY <1>2, <1>3 DEF LoadCheckpoint, OperationOK, OperationFails, Resting,
                      At, Active
  <2> QED
    BY <2>1, <2>2 DEF Parts
<1>4. CASE ~(OperationFails(sm) /\ UNCHANGED <<tracker, sm, repo, co>>)
  <2> DEFINE s == tracker.session
  <2>1. /\ tracker' = [tracker EXCEPT !.acknowledged = checkpoint[s]]
        /\ sm' = RecoveredMachine(s, repo.activity[s].samples)
        /\ repo' = WithLifecycle(repo, s, "recovered")
        /\ co' = [co EXCEPT !.dirty = TRUE]
        /\ op' = At("recover", "read")
    BY <1>4 DEF LoadCheckpoint
  <2>2. /\ \A t \in Sessions :
             repo'.activity[t].samples = repo.activity[t].samples
        /\ repo'.journal = repo.journal
    BY <2>1, LifecycleFrame DEF TypeInv, TypeOK
  <2>3. LibrariesOK'
    BY <2>2, SameSamples
       DEF LoadCheckpoint, LibrariesOK, LibraryOK, durable
  <2>4. sm'.session = s /\ sm'.kind = "recording"
    BY <2>1 DEF RecoveredMachine, TypeInv, TypeOK, Machine
  <2>5. /\ sm'.samples = UpTo(sm'.highest)
        /\ sm'.samples = repo.activity[s].samples
    <3>1. CASE sm.kind = "recoverable" /\ sm.session = s
      <4>1. sm'.samples = sm.samples /\ sm'.highest = sm.highest
        BY <2>1, <3>1 DEF RecoveredMachine, TypeInv, TypeOK, Machine
      <4> QED
        BY <1>1, <3>1, <4>1, ConstantsAssumption DEF MachineOK
    <3>2. CASE ~(sm.kind = "recoverable" /\ sm.session = s)
      <4>1. /\ sm'.samples = repo.activity[s].samples
            /\ sm'.highest = HighestOf(repo.activity[s].samples)
        BY <2>1, <3>2 DEF RecoveredMachine
      <4> QED
        BY <1>1, <4>1 DEF LibrariesOK, LibraryOK, IsPrefix
    <3> QED
      BY <3>1, <3>2
  <2>6. MachineOK'
    BY <1>1, <2>2, <2>4, <2>5, ConstantsAssumption
       DEF LoadCheckpoint, MachineOK
  <2>7. tracker'.session = s /\ tracker'.acknowledged = checkpoint[s]
        /\ checkpoint[s] \in Nat
    BY <1>1, <2>1 DEF TypeInv, TypeOK, Adapter
  <2>8. AdapterOK'
    <3>1. UNCHANGED <<manifest, issued, checkpoint>>
      BY DEF LoadCheckpoint, durable
    <3>2. s # NoSession /\ s \in issued /\ manifest \in {NoSession, s}
          /\ manifest \in issued \cup {NoSession}
      BY <1>1, ConstantsAssumption DEF AdapterOK
    <3> HIDE DEF s
    <3>3. tracker'.acknowledged <= checkpoint'[tracker'.session]
      BY <2>7, <3>1
    <3> QED
      BY <2>4, <2>7, <3>1, <3>2, <3>3 DEF AdapterOK
  <2>9. co'.pendingFinish = co.pendingFinish
    BY <2>1 DEF TypeInv, TypeOK, Control
  <2>10. OperationOK'
    BY <1>2, <2>1, <2>9 DEF OperationOK, At
  <2> QED
    BY <2>3, <2>6, <2>8, <2>10 DEF Parts
<1> QED
  BY <1>3, <1>4

LEMMA StopParts == DurableInv /\ StopSensors => Parts'
<1> SUFFICES ASSUME DurableInv, StopSensors PROVE Parts'
  OBVIOUS
<1> USE DEF DurableInv
<1>1. LibrariesOK'
  BY DEF StopSensors, LibrariesOK, durable, history
<1>2. /\ op.kind # "none" /\ Active(sm) /\ ~co.pendingFinish
  BY DEF StopSensors, OperationOK, Active
<1>3. /\ sm'.session = sm.session /\ sm'.samples = sm.samples
      /\ sm'.highest = sm.highest /\ sm.session \in SessionOrNone
      /\ sm'.kind = sm.kind \/ (sm.kind = "recording" /\ sm'.kind = "paused")
  BY DEF StopSensors, PausedMachine, TypeInv, TypeOK, Machine
<1>4. MachineOK'
  BY <1>3 DEF StopSensors, MachineOK, history
<1>5. AdapterOK'
  BY <1>3 DEF StopSensors, AdapterOK, Active, durable, history
<1>6. co'.pendingFinish = co.pendingFinish
  BY DEF StopSensors, TypeInv, TypeOK, Control
<1>7. Active(sm')
  BY <1>2, <1>3 DEF Active
<1>8. OperationOK'
  <2>1. /\ op'.kind = "none" <=> op'.pc = "rest"
        /\ op'.pc \in {"rest", "read", "complete"}
        /\ op'.pc = "complete" => co'.stopped = sm.highest
    BY <1>2 DEF StopSensors, OperationFails, Resting, At
  <2> QED
    BY <1>2, <1>3, <1>6, <1>7, <2>1 DEF OperationOK
<1> QED
  BY <1>1, <1>4, <1>5, <1>8 DEF Parts

LEMMA CompleteParts == DurableInv /\ CompleteFinish => Parts'
<1> SUFFICES ASSUME DurableInv, CompleteFinish PROVE Parts'
  OBVIOUS
<1> USE DEF DurableInv
<1> DEFINE finished == WithLifecycle(repo, sm.session, "finished")
<1>1. /\ op.kind # "none" /\ Active(sm) /\ ~co.pendingFinish
      /\ co.stopped = sm.highest
  BY DEF CompleteFinish, OperationOK, Active
<1>2. finished \in Snapshot
  BY WithLifecycleType DEF TypeInv, TypeOK, Lifecycles
<1>3. /\ \A t \in Sessions :
           finished.activity[t].samples = repo.activity[t].samples
      /\ finished.journal = repo.journal
  BY LifecycleFrame DEF TypeInv, TypeOK
<1>4. /\ \A t \in Sessions :
           WithRevision(finished, sm.session).activity[t].samples
             = finished.activity[t].samples
      /\ WithRevision(finished, sm.session).journal = finished.journal
  BY <1>2, RevisionFrame
<1>5. repo' \in {finished, WithRevision(finished, sm.session)}
  BY DEF CompleteFinish
<1>6. /\ \A t \in Sessions :
           repo'.activity[t].samples = repo.activity[t].samples
      /\ repo'.journal = repo.journal
  BY <1>3, <1>4, <1>5
<1>7. LibrariesOK'
  BY <1>6, SameSamples
     DEF CompleteFinish, LibrariesOK, LibraryOK, durable, history
<1>8. /\ sm'.kind = "finished" /\ sm'.session = sm.session
      /\ sm'.samples = sm.samples /\ sm'.highest = sm.highest
      /\ sm.session \in SessionOrNone
  BY DEF CompleteFinish, TypeInv, TypeOK, Machine
<1>9. MachineOK'
  BY <1>1, <1>6, <1>8
     DEF CompleteFinish, MachineOK, history, SessionOrNone, Active
<1>10. AdapterOK'
  BY <1>8 DEF CompleteFinish, AdapterOK, Active, durable, history
<1>11. co'.stopped = co.stopped
  BY DEF CompleteFinish, TypeInv, TypeOK, Control
<1>12. OperationOK'
  <2>1. CASE op'.pc = "final"
    <3>1. op' = Saving("finish", "final", repo')
          /\ co' = [co EXCEPT !.pendingFinish = TRUE]
      BY <2>1 DEF CompleteFinish, OperationFails, Resting, At
    <3>2. co'.pendingFinish
      BY <3>1 DEF TypeInv, TypeOK, Control
    <3> QED
      BY <1>1, <1>8, <1>11, <3>1, <3>2 DEF OperationOK, Saving
  <2>2. CASE op'.pc # "final"
    <3>1. op' = Resting /\ UNCHANGED co
      BY <2>2 DEF CompleteFinish, OperationFails, Saving
    <3> QED
      BY <1>1, <3>1 DEF OperationOK, Resting, At
  <2> QED
    BY <2>1, <2>2
<1> QED
  BY <1>7, <1>9, <1>10, <1>12 DEF Parts

LEMMA SaveFinishParts == DurableInv /\ SaveFinish => Parts'
<1> SUFFICES ASSUME DurableInv, SaveFinish PROVE Parts'
  OBVIOUS
<1> USE DEF DurableInv
<1>1. /\ op.snapshot.activity = repo.activity /\ op.kind # "none"
      /\ sm.session # NoSession /\ co.stopped = sm.highest
      /\ co.pendingFinish /\ sm.kind = "finished"
  BY DEF SaveFinish, OperationOK, MachineOK
<1>2. LibrariesOK' /\ MachineOK' /\ AdapterOK'
  BY <1>1, PersistParts DEF SaveFinish
<1>3. OperationOK'
  BY <1>1 DEF SaveFinish, OperationOK, OperationFails, Resting, At, Active
<1> QED
  BY <1>2, <1>3 DEF Parts

LEMMA SealParts == DurableInv /\ SealSpool => Parts'
<1> SUFFICES ASSUME DurableInv, SealSpool PROVE Parts'
  OBVIOUS
<1> USE DEF DurableInv
<1>1. LibrariesOK' /\ MachineOK'
  BY DEF SealSpool, LibrariesOK, MachineOK
<1>2. op.kind # "none" /\ sm.kind = "finished"
  BY DEF SealSpool, OperationOK
<1>3. CASE UNCHANGED <<tracker, co, manifest>> /\ OperationFails(sm)
  <2>1. AdapterOK'
    BY <1>3 DEF SealSpool, AdapterOK, Active
  <2>2. OperationOK'
    BY <1>2, <1>3 DEF SealSpool, OperationOK, OperationFails, Resting, At,
                      Active
  <2> QED
    BY <1>1, <2>1, <2>2 DEF Parts
<1>4. CASE /\ tracker' = IdleAdapter /\ co' = IdleControl /\ op' = Resting
           /\ manifest' = NoSession
  <2>1. AdapterOK'
    BY <1>2, <1>4 DEF SealSpool, AdapterOK, IdleAdapter, Active
  <2>2. OperationOK'
    BY <1>4 DEF OperationOK, Resting, At, IdleControl
  <2> QED
    BY <1>1, <2>1, <2>2 DEF Parts
<1> QED
  BY <1>3, <1>4 DEF SealSpool

-----------------------------------------------------------------------------
LEMMA NextParts == DurableInv /\ [Next]_vars => Parts'
<1> SUFFICES ASSUME DurableInv, [Next]_vars PROVE Parts'
  OBVIOUS
<1>1. CASE Environment
  <2>1. CASE Relaunch
    BY <2>1, RelaunchParts
  <2>2. CASE Locate \/ AppendFails \/ LosePermission \/ SensorFault
    BY <2>2, FrameParts
       DEF Locate, AppendFails, LosePermission, SensorFault, durable
  <2> QED
    BY <1>1, <2>1, <2>2 DEF Environment
<1>2. CASE User
  BY <1>2, StartParts, RequestParts, ResumeParts, RecoverParts,
     DiscardParts, NoteParts DEF User
<1>3. CASE Coordinator
  BY <1>3, SaveLifecycleParts, HaltParts, SuspendParts, ReadNoneParts,
     ReadBatchParts, SaveBatchParts, LoadCheckpointParts, StopParts,
     CompleteParts, SaveFinishParts, SealParts DEF Coordinator
<1>4. CASE UNCHANGED vars
  BY <1>4, FrameParts DEF vars
<1> QED
  BY <1>1, <1>2, <1>3, <1>4 DEF Next

LEMMA DurableInvariant == Spec => []DurableInv
<1>1. Init => DurableInv
  BY InitTypeInv, InitParts DEF DurableInv, Parts
<1>2. DurableInv /\ [Next]_vars => DurableInv'
  BY NextTypeInv, NextParts DEF DurableInv, Parts
<1> QED
  BY <1>1, <1>2, PTL DEF Spec

(* A checkpoint in SQLite never runs ahead of the samples stored with it,  *)
(* whatever fails and wherever the process ends.                           *)
THEOREM CheckpointsBacked == Spec => []CheckpointBacked
<1>1. DurableInv => CheckpointBacked
  BY DEF DurableInv, LibrariesOK, LibraryOK, CheckpointBacked
<1> QED
  BY <1>1, DurableInvariant, PTL

(* The adapter acknowledges only what a checkpoint covers.                 *)
THEOREM AcknowledgementsDurable == Spec => []AcknowledgedDurable
<1>1. DurableInv => AcknowledgedDurable
  BY DEF DurableInv, AdapterOK, AcknowledgedDurable
<1> QED
  BY <1>1, DurableInvariant, PTL

(* The state machine and the library hold the same observations, through   *)
(* every retry, interruption and recovery.                                 *)
THEOREM MachineMatchesLibrary == Spec => []CommittedMatchesLibrary
<1>1. DurableInv => CommittedMatchesLibrary
  BY DEF DurableInv, MachineOK, CommittedMatchesLibrary
<1> QED
  BY <1>1, DurableInvariant, PTL

(* The library is at most one batch ahead of the durable checkpoint.       *)
THEOREM LibraryOneBatchAhead == Spec => []OneBatchAhead
<1>1. DurableInv => OneBatchAhead
  BY DEF DurableInv, LibrariesOK, LibraryOK, OneBatchAhead
<1> QED
  BY <1>1, DurableInvariant, PTL

(* A journal entry whose save succeeded stays in the store, whatever       *)
(* checkpoint was queued before it.                                        *)
THEOREM SavedNotesStay == Spec => []JournalDurable
<1>1. DurableInv => JournalDurable
  BY DEF DurableInv, LibrariesOK, LibraryOK, JournalDurable
<1> QED
  BY <1>1, DurableInvariant, PTL

=============================================================================
