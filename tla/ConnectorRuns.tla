--------------------------- MODULE ConnectorRuns ---------------------------
(***************************************************************************)
(* Monitored runs of a source connector                                    *)
(* (packages/data/src/connector-operations.ts) over the ingestion pipeline *)
(* and the store of raw artifacts (packages/data/src/ingestion.ts).        *)
(*                                                                         *)
(* A run discovers the assets of a source, stores each one's payload and   *)
(* metadata, parses it, and judges the whole run.  A healthy run replaces  *)
(* the last-good output in the operations store; then the source's         *)
(* checkpoints are advanced.  Any other run keeps the output and counts as *)
(* a failure; too many open a circuit that only a recovery probe passes.   *)
(*                                                                         *)
(* Grain of atomicity.  The operations store is a single-worker store, so  *)
(* one run is under way at a time.  One step is one file written, one call *)
(* of the connector that has an effect, or one decision.                   *)
(*                                                                         *)
(* Left out: an asset yields one record; required fields (decided like the *)
(* schema); time-dependent alerts, which decide nothing; the bounds and    *)
(* checks on paths, hosts and sizes, each of which fails an asset.         *)
(***************************************************************************)
EXTENDS Integers, FiniteSets, FiniteSetsExt

CONSTANTS
  Assets,            \* assets of the source
  Editions,          \* the source's contents over time: 1..n
  Offered,           \* edition -> assets it has
  Schema,            \* edition -> shape of its records
  Reviews,           \* values of the option reviewedSchemaFingerprint
  MinimumRecords, MaximumRecords, MaximumFailurePercent,
  MaximumVolumeChangePercent,
  MaximumConsecutiveFailures,   \* the health policy
  MaxFaults,         \* bound: faults in one behaviour
  Faults             \* kinds of fault that may happen

FaultKinds == {"asset",       \* a stage of the pipeline fails or is late
               "torn",        \* a write of a raw artifact stops half-way
               "emit",        \* the connector's emit fails or is late
               "checkpoint",  \* the connector's checkpoint does
               "commit",      \* a report cannot be written
               "update",      \* the report of a failed checkpoint cannot
               "crash"}       \* the process ends

Last == Max(Editions)

ASSUME ConnectorAssumption ==
  /\ IsFiniteSet(Editions) /\ Editions # {}
  /\ Editions = 1..Cardinality(Editions)
  /\ IsFiniteSet(Assets)
  /\ Offered \in [Editions -> SUBSET Assets]
  /\ {{}, {Schema[Last]}} \subseteq Reviews
  /\ MinimumRecords \in Nat /\ MaximumRecords \in Nat
  /\ MinimumRecords <= MaximumRecords
  /\ MaximumFailurePercent \in 0..100
  /\ MaximumVolumeChangePercent \in Nat
  /\ MaximumConsecutiveFailures \in Nat \ {0}
  /\ MaxFaults \in Nat
  /\ Faults \subseteq FaultKinds

VARIABLES
  edition,      \* what the source has now
  permitted,    \* the rights of the source allow its use
  payload,      \* raw artifacts: asset, edition -> its payload file
  metadata,     \* the same for the file with its provenance
  stored,       \* the operations store: consecutive failures, last good
  checkpoint,   \* asset -> edition of its checkpoint at the source
  run,          \* the run under way
  faults        \* faults so far

raw  == <<payload, metadata>>
vars == <<edition, permitted, payload, metadata, stored, checkpoint, run,
          faults>>

FileStates == {"absent", "torn", "whole"}
Output == [Assets -> Editions \cup {0}]
NoOutput == [a \in Assets |-> 0]

(* A schema fingerprint: the shapes that occur in a run's records.         *)
Fingerprints == SUBSET {Schema[e] : e \in Editions}
NotReviewed == {}
LastReview == {Schema[Last]}

(* lastGood: whether there is one (it may be empty if the policy allows),  *)
(* its output and the fingerprint of its records.                          *)
Good == [kept : BOOLEAN, output : Output, schema : Fingerprints]
NoGood == [kept |-> FALSE, output |-> NoOutput, schema |-> {}]

(* Where a run is.                                                         *)
(*   assets, metadata, parse   the pipeline of one asset after another     *)
(*   emit, commit, checkpoint  publishing                                  *)
(*   update                    the report after a failed checkpoint        *)
(*   report                    the report of a run that failed or paused   *)
Points == {"rest", "assets", "metadata", "parse", "emit", "commit",
           "checkpoint", "update", "report"}

Run == [pc : Points, previous : Good,
        failures : 0..MaximumConsecutiveFailures,   \* as loaded
        reviewed : Reviews, probe : BOOLEAN, paused : BOOLEAN,
        pending : SUBSET Assets,           \* assets not yet processed
        rejected : SUBSET Assets,          \* quarantined assets
        queued : SUBSET Assets,            \* deferred checkpoints
        fetched : Output,                  \* assets and edition fetched
        output : Output,                   \* what was normalized
        accepted : BOOLEAN]

Resting == [pc |-> "rest", previous |-> NoGood, failures |-> 0,
            reviewed |-> NotReviewed, probe |-> FALSE, paused |-> FALSE, pending |-> {},
            rejected |-> {}, queued |-> {}, fetched |-> NoOutput,
            output |-> NoOutput, accepted |-> FALSE]

TypeOK ==
  /\ edition \in Editions
  /\ permitted \in BOOLEAN
  /\ payload \in [Assets \X Editions -> FileStates]
  /\ metadata \in [Assets \X Editions -> FileStates]
  /\ stored \in [failures : 0..MaximumConsecutiveFailures, good : Good]
  /\ checkpoint \in Output
  /\ run \in Run
  /\ faults \in 0..MaxFaults

Init ==
  /\ edition = 1
  /\ permitted = TRUE
  /\ payload = [p \in Assets \X Editions |-> "absent"]
  /\ metadata = payload
  /\ stored = [failures |-> 0, good |-> NoGood]
  /\ checkpoint = NoOutput
  /\ run = Resting
  /\ faults = 0

Fault(kind) ==
  /\ kind \in Faults
  /\ faults < MaxFaults
  /\ faults' = faults + 1
NoFault == UNCHANGED faults

Idle == run = Resting
At(point) == run.pc = point
Goto(point) == run' = [run EXCEPT !.pc = point]

Present(output) == {a \in Assets : output[a] # 0}
Records(output) == Cardinality(Present(output))

-----------------------------------------------------------------------------
(* The source and its rights.                                              *)

SourceChanges ==
  /\ edition < Last
  /\ edition' = edition + 1
  /\ UNCHANGED <<permitted, raw, stored, checkpoint, run, faults>>

(* They are evaluated for the time of the run.                             *)
RightsChange ==
  /\ Idle
  /\ permitted' = ~permitted
  /\ UNCHANGED <<edition, raw, stored, checkpoint, run, faults>>

-----------------------------------------------------------------------------
(* runMonitoredConnector: before the source is contacted, and discovery.   *)

CircuitOpen == stored.failures >= MaximumConsecutiveFailures

Begun(probe, reviewed) ==
  [Resting EXCEPT !.previous = stored.good, !.failures = stored.failures,
                  !.reviewed = reviewed, !.probe = probe]

Start(probe, reviewed) ==
  /\ Idle
  /\ LET paused == CircuitOpen /\ ~probe
         begun == Begun(probe, reviewed)
     IN \/ /\ paused \/ ~permitted
           /\ run' = [begun EXCEPT !.pc = "report", !.paused = paused]
           /\ NoFault
        \/ /\ ~paused /\ permitted
           /\ run' = [begun EXCEPT !.pc = "assets",
                                   !.pending = Offered[edition]]
           /\ NoFault
        \/ /\ ~paused /\ permitted       \* discovery fails: 'run-failed'
           /\ Fault("asset")
           /\ run' = [begun EXCEPT !.pc = "commit"]
  /\ UNCHANGED <<edition, permitted, raw, stored, checkpoint>>

-----------------------------------------------------------------------------
(* runConnector: each asset through the pipeline, or to quarantine.        *)

(* Mutant: an asset is checkpointed wherever it failed.                    *)
RejectQueued(a) == [run EXCEPT !.pc = "assets", !.pending = @ \ {a},
                               !.rejected = @ \cup {a},
                               !.queued = @ \cup {a}]

Reject(a) == [run EXCEPT !.pc = "assets", !.pending = @ \ {a},
                         !.rejected = @ \cup {a}]

(* Mutant: a file that exists is taken for what should be in it.           *)
PutTrusting(files, file, a, next) ==
  \/ /\ files[file] # "absent"
     /\ run' = next
     /\ UNCHANGED files /\ NoFault
  \/ /\ files[file] = "absent"
     /\ \/ files' = [files EXCEPT ![file] = "whole"] /\ run' = next /\ NoFault
        \/ /\ files' = [files EXCEPT ![file] = "torn"] /\ run' = Reject(a)
           /\ Fault("torn")

(* Mutant: a file that exists fails the asset.                             *)
PutNew(files, file, a, next) ==
  \/ /\ files[file] = "absent"
     /\ files' = [files EXCEPT ![file] = "whole"] /\ run' = next /\ NoFault
  \/ /\ files[file] # "absent"
     /\ run' = Reject(a)
     /\ UNCHANGED files /\ NoFault

(* RawArtifactStore.put writes a file that must not exist; a file that     *)
(* does is accepted if it is whole.                                        *)
Put(files, file, a, next) ==
  \/ /\ files[file] # "torn"
     /\ files' = [files EXCEPT ![file] = "whole"]
     /\ run' = next
     /\ NoFault
  \/ /\ files[file] = "torn"
     /\ run' = Reject(a)
     /\ UNCHANGED files /\ NoFault
  \/ /\ files[file] = "absent"
     /\ Fault("torn")
     /\ files' = [files EXCEPT ![file] = "torn"]
     /\ run' = Reject(a)

FetchAsset(a) ==
  /\ At("assets") /\ a \in run.pending
  /\ Put(payload, <<a, edition>>, a,
         [run EXCEPT !.pc = "metadata", !.fetched[a] = edition])
  /\ UNCHANGED <<edition, permitted, metadata, stored, checkpoint>>

(* The asset under way: fetched, and not yet parsed.                       *)
Current == {a \in run.pending : run.fetched[a] # 0}

StoreMetadata(a) ==
  /\ At("metadata") /\ a \in Current
  /\ Put(metadata, <<a, run.fetched[a]>>, a, [run EXCEPT !.pc = "parse"])
  /\ UNCHANGED <<edition, permitted, payload, stored, checkpoint>>

Parsed(a) == [run EXCEPT !.pc = "assets", !.pending = @ \ {a},
                         !.queued = @ \cup {a},
                         !.output[a] = run.fetched[a]]

ParseAsset(a) ==
  /\ At("parse") /\ a \in Current
  /\ run' = Parsed(a)
  /\ UNCHANGED <<edition, permitted, raw, stored, checkpoint, faults>>

(* A stage up to the checkpoint fails or misses its deadline.              *)
AssetFails(a) ==
  /\ Fault("asset")
  /\ \/ At("assets") /\ a \in run.pending
     \/ run.pc \in {"metadata", "parse"} /\ a \in Current
  /\ run' = Reject(a)
  /\ UNCHANGED <<edition, permitted, raw, stored, checkpoint>>

(* The deadline is missed after the asset's checkpoint was queued: the     *)
(* asset is quarantined, and its checkpoint stays queued.                  *)
LateRejected(a) == [Reject(a) EXCEPT !.queued = @ \cup {a}]

AssetLate(a) ==
  /\ At("parse") /\ a \in Current
  /\ Fault("asset")
  /\ run' = LateRejected(a)
  /\ UNCHANGED <<edition, permitted, raw, stored, checkpoint>>

-----------------------------------------------------------------------------
(* The judgement of a run.                                                 *)

Exceeds(part, whole, percent) == part * 100 > percent * Max({1, whole})

VolumeAnomaly ==
  \/ Records(run.output) \notin MinimumRecords..MaximumRecords
  \/ /\ run.previous # NoGood
     /\ LET now == Records(run.output)
            before == Records(run.previous.output)
        IN Exceeds(Max({now - before, before - now}), before,
                   MaximumVolumeChangePercent)

RejectionRate == Exceeds(Cardinality(run.rejected),
                         Records(run.output) + Cardinality(run.rejected),
                         MaximumFailurePercent)

Fingerprint(output) == {Schema[output[a]] : a \in Present(output)}

(* Mutant: a recovery probe approves any schema.                           *)
SchemaDriftUnprobed ==
  /\ run.previous # NoGood /\ ~run.probe
  /\ Fingerprint(run.output) # run.previous.schema

SchemaDrift ==
  /\ run.previous # NoGood
  /\ Fingerprint(run.output) \notin {run.previous.schema, run.reviewed}

Healthy == ~VolumeAnomaly /\ ~RejectionRate /\ ~SchemaDrift

Judge ==
  /\ At("assets") /\ run.pending = {}
  /\ Goto(IF Healthy THEN "emit" ELSE "commit")
  /\ UNCHANGED <<edition, permitted, raw, stored, checkpoint, faults>>

EmitOutput ==
  /\ At("emit")
  /\ \/ run' = [run EXCEPT !.pc = "commit", !.accepted = TRUE] /\ NoFault
     \/ Goto("report") /\ Fault("emit")
  /\ UNCHANGED <<edition, permitted, raw, stored, checkpoint>>

-----------------------------------------------------------------------------
(* Publishing.  FileConnectorOperationsStore.commit renames a synced file  *)
(* into place: a commit happens or does not.                               *)

OneMoreFailure == Min({run.failures + 1, MaximumConsecutiveFailures})

NewGood == [kept |-> TRUE, output |-> run.output,
            schema |-> Fingerprint(run.output)]

(* Mutant: the checkpoints of a run that was not accepted are made too.    *)
CommitAndCheckpoint ==
  /\ At("commit")
  /\ \/ /\ stored' = IF run.accepted
                     THEN [failures |-> 0, good |-> NewGood]
                     ELSE [failures |-> OneMoreFailure, good |-> run.previous]
        /\ Goto("checkpoint")
        /\ NoFault
     \/ /\ Fault("commit")
        /\ Goto("report")
        /\ UNCHANGED stored
  /\ UNCHANGED <<edition, permitted, raw, checkpoint>>

CommitRun ==
  /\ At("commit")
  /\ \/ /\ run.accepted
        /\ stored' = [failures |-> 0, good |-> NewGood]
        /\ Goto("checkpoint")
        /\ NoFault
     \/ /\ ~run.accepted
        /\ stored' = [failures |-> OneMoreFailure, good |-> run.previous]
        /\ run' = Resting
        /\ NoFault
     \/ /\ Fault("commit")
        /\ Goto("report")
        /\ UNCHANGED stored
  /\ UNCHANGED <<edition, permitted, raw, checkpoint>>

(* A checkpoint that misses its deadline may still be made.                *)
AdvanceCheckpoint(a) ==
  /\ At("checkpoint") /\ a \in run.queued
  /\ \/ /\ checkpoint' = [checkpoint EXCEPT ![a] = run.fetched[a]]
        /\ run' = [run EXCEPT !.queued = @ \ {a}]
        /\ NoFault
     \/ /\ Fault("checkpoint")
        /\ checkpoint' \in {checkpoint,
                            [checkpoint EXCEPT ![a] = run.fetched[a]]}
        /\ Goto("update")
  /\ UNCHANGED <<edition, permitted, raw, stored>>

CheckpointsDone ==
  /\ At("checkpoint") /\ run.queued = {}
  /\ run' = Resting
  /\ UNCHANGED <<edition, permitted, raw, stored, checkpoint, faults>>

(* The report again, with the alert 'checkpoint-failed'.                   *)
UpdateReport ==
  /\ At("update")
  /\ \/ run' = Resting /\ NoFault
     \/ Goto("report") /\ Fault("update")
  /\ UNCHANGED <<edition, permitted, raw, stored, checkpoint>>

(* After any exception, and for a run that was paused or not permitted.    *)
ReportFailure ==
  /\ At("report")
  /\ \/ /\ stored' = [failures |-> IF run.paused THEN run.failures
                                   ELSE OneMoreFailure,
                      good |-> run.previous]
        /\ NoFault
     \/ UNCHANGED stored /\ Fault("commit")
  /\ run' = Resting
  /\ UNCHANGED <<edition, permitted, raw, checkpoint>>

Crash ==
  /\ ~Idle /\ Fault("crash")
  /\ run' = Resting
  /\ UNCHANGED <<edition, permitted, raw, stored, checkpoint>>

-----------------------------------------------------------------------------

Step == \/ \E a \in Assets : \/ FetchAsset(a) \/ StoreMetadata(a)
                             \/ ParseAsset(a) \/ AdvanceCheckpoint(a)
        \/ Judge \/ EmitOutput \/ CommitRun \/ CheckpointsDone
        \/ UpdateReport \/ ReportFailure

Next == \/ Step
        \/ \E probe \in BOOLEAN, reviewed \in Reviews : Start(probe, reviewed)
        \/ \E a \in Assets : AssetFails(a) \/ AssetLate(a)
        \/ Crash
        \/ SourceChanges
        \/ RightsChange

Spec == Init /\ [][Next]_vars

(* A run comes to its end, and among the runs that are asked for there is  *)
(* always again a recovery probe by an operator who has reviewed the       *)
(* source's last schema.                                                   *)
FairSpec == Spec /\ WF_vars(Step) /\ SF_vars(Start(TRUE, LastReview))
-----------------------------------------------------------------------------
(* Properties.                                                             *)

(* What is published can be traced: the payload and the metadata of every  *)
(* asset in the last-good output are in the raw store, whole, whatever was *)
(* interrupted, retried or left over from an earlier run.                  *)
OutputIsRetained ==
  \A a \in Present(stored.good.output) :
    /\ payload[<<a, stored.good.output[a]>>] = "whole"
    /\ metadata[<<a, stored.good.output[a]>>] = "whole"

(* Every variable has its type, and the last-good output can be traced to *)
(* whole raw files (OutputIsRetained).                                     *)
ConnectorInv == TypeOK /\ OutputIsRetained

(* What a source was told is done is never lost: the edition of every      *)
(* checkpoint is in the raw store, payload and metadata whole, even when   *)
(* its asset was quarantined after the checkpoint was queued, or the       *)
(* output was taken back.  It can be replayed without the source.          *)
CheckpointIsRetained ==
  \A a \in Assets : checkpoint[a] # 0 =>
    /\ payload[<<a, checkpoint[a]>>] = "whole"
    /\ metadata[<<a, checkpoint[a]>>] = "whole"

(* Checkpoints are made by accepted runs only, when their own output has   *)
(* become the last good one: for an asset in that output, of the edition   *)
(* that is in it; or for one that this run quarantined and left out.       *)
CheckpointFollowsOutput ==
  [][\A a \in Assets : checkpoint'[a] # checkpoint[a] =>
       /\ run.accepted /\ stored.good = NewGood
       /\ stored.good.output[a] =
            IF a \in run.rejected THEN 0 ELSE checkpoint'[a]]_vars

(* The output changes only from one healthy run to the next: never to less *)
(* or more than the policy's volume, never to another schema unless that   *)
(* very schema was reviewed, and never to anything older than what it      *)
(* replaces.  The one exception is a run that could not report a failed    *)
(* checkpoint: it takes back its own output, to exactly the one before.    *)
HealthyChange ==
  LET before == Records(stored.good.output)
      now == Records(stored'.good.output)
  IN /\ ~Exceeds(Max({now - before, before - now}), before,
                 MaximumVolumeChangePercent)
     /\ stored'.good.schema \in {stored.good.schema, run.reviewed}
     /\ \A a \in Present(stored'.good.output), b \in Assets :
          stored.good.output[b] <= stored'.good.output[a]

TakenBack ==
  /\ At("report") /\ run.accepted
  /\ stored.good = NewGood /\ stored'.good = run.previous

OutputChangesHealthily ==
  [][stored.good # NoGood /\ stored'.good # stored.good =>
       HealthyChange \/ TakenBack]_vars

(* A source that is permitted and fails only so often is in the output in  *)
(* the end, in its last edition and checkpointed, if that is within the    *)
(* policy's volume (an operator can approve a schema, but not a volume)    *)
(* and no raw artifact was left torn (put() never replaces a file).        *)
UpToDate == \A a \in Offered[Last] : /\ stored.good.output[a] = Last
                                     /\ checkpoint[a] = Last
VolumeFits == stored.good # NoGood =>
  ~Exceeds(Cardinality(Offered[Last]) - Records(stored.good.output),
           Records(stored.good.output), MaximumVolumeChangePercent)
NoneTorn == \A a \in Assets : "torn" \notin {payload[<<a, Last>>],
                                            metadata[<<a, Last>>]}
CatchesUp == <>[](edition = Last /\ permitted /\ VolumeFits /\ NoneTorn)
             => <>[]UpToDate
=============================================================================
