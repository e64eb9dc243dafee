------------------------ MODULE ConnectorRunsProofs ------------------------
(***************************************************************************)
(* Monitored runs of a source connector, for every set of assets, number   *)
(* of editions, health policy and kind of fault: the last-good output and  *)
(* every checkpoint can be traced to whole raw files, a checkpoint follows *)
(* the output of its own run, and the output changes from one healthy run  *)
(* to the next, or back to the one before a run that could not report.     *)
(***************************************************************************)
EXTENDS ConnectorRuns, FiniteSetTheorems, WellFoundedInduction, TLAPS

-----------------------------------------------------------------------------
(* The highest of a bounded set of numbers.                                *)

LEMMA LeastOf ==
  ASSUME NEW T \in SUBSET Nat, T # {}
  PROVE  \E x \in T : \A y \in T : x <= y
<1> DEFINE R == OpToRel(<, Nat)
<1>1. IsWellFoundedOn(R, Nat)
  BY NatLessThanWellFounded
<1>2. \A x, y \in Nat : x < y => <<x, y>> \in R
  BY DEF OpToRel
<1> HIDE DEF R
<1>3. PICK x \in T : \A y \in T : ~(<<y, x>> \in R)
  BY <1>1, WFMin
<1>4. ASSUME NEW y \in T PROVE x <= y
  <2>1. x \in Nat /\ y \in Nat
    OBVIOUS
  <2>2. ~(y < x)
    BY <1>2, <1>3, <2>1
  <2> QED BY <2>1, <2>2
<1> QED BY <1>4

LEMMA MaxIs ==
  ASSUME NEW S \in SUBSET Nat, S # {}, NEW n \in Nat, \A x \in S : x <= n
  PROVE  Max(S) \in S /\ \A x \in S : x <= Max(S)
<1> DEFINE Bounds == {m \in Nat : \A x \in S : x <= m}
<1>1. Bounds # {}
  OBVIOUS
<1>2. PICK m \in Bounds : \A k \in Bounds : m <= k
  BY <1>1, LeastOf
<1>3. m \in S
  <2>1. SUFFICES ASSUME m \notin S PROVE FALSE
    OBVIOUS
  <2>2. \A x \in S : x < m
    BY <2>1
  <2>3. m - 1 \in Bounds
    <3>1. PICK x \in S : x < m
      BY <2>2
    <3>2. m - 1 \in Nat
      BY <3>1
    <3> QED BY <2>2, <3>2
  <2>4. m <= m - 1
    BY <1>2, <2>3
  <2> QED BY <2>4
<1>4. m \in S /\ \A x \in S : m >= x
  BY <1>3
<1> QED BY <1>4 DEF Max
-----------------------------------------------------------------------------
(* Types.                                                                  *)

LEMMA EditionsAre ==
  /\ Editions \subseteq Nat \ {0} /\ 1 \in Editions /\ Last \in Editions
  /\ \A e \in Editions : e <= Last
  /\ \A e \in Editions : e < Last => e + 1 \in Editions
<1> DEFINE n == Cardinality(Editions)
<1>1. n \in Nat
  BY ConnectorAssumption, FS_CardinalityType
<1>2. Editions = 1 .. n /\ Editions # {}
  BY ConnectorAssumption
<1> HIDE DEF n
<1>3. Editions \in SUBSET Nat /\ \A e \in Editions : e <= n
  BY <1>1, <1>2
<1>4. Last \in Editions /\ \A e \in Editions : e <= Last
  BY <1>1, <1>2, <1>3, MaxIs DEF Last
<1> QED BY <1>1, <1>2, <1>4

LEMMA ConstantTypes ==
  /\ NoGood \in Good /\ NoOutput \in Output
  /\ NotReviewed \in Reviews /\ LastReview \in Reviews
  /\ Resting \in Run /\ Resting.pc = "rest"
<1>1. NoOutput \in Output /\ NoGood \in Good
  BY DEF NoOutput, Output, NoGood, Good, Fingerprints
<1>2. NotReviewed \in Reviews /\ LastReview \in Reviews
  BY ConnectorAssumption DEF NotReviewed, LastReview
<1>3. 0 \in 0..MaximumConsecutiveFailures
  BY ConnectorAssumption
<1> QED BY <1>1, <1>2, <1>3 DEF Resting, Run, Points

LEMMA InitTypes == Init => TypeOK
<1> SUFFICES ASSUME Init PROVE TypeOK
  OBVIOUS
<1>1. payload \in [Assets \X Editions -> FileStates]
      /\ metadata \in [Assets \X Editions -> FileStates]
  BY DEF Init, FileStates
<1>2. 0 \in 0..MaximumConsecutiveFailures /\ 0 \in 0..MaxFaults
  BY ConnectorAssumption
<1> QED BY <1>1, <1>2, EditionsAre, ConstantTypes DEF Init, TypeOK

LEMMA GotoType ==
  ASSUME NEW r \in Run, NEW point \in Points
  PROVE  [r EXCEPT !.pc = point] \in Run
BY DEF Run

LEMMA FaultType ==
  ASSUME TypeOK, NEW kind, Fault(kind) \/ NoFault
  PROVE  faults' \in 0..MaxFaults
BY ConnectorAssumption DEF TypeOK, Fault, NoFault

LEMMA RejectType ==
  ASSUME TypeOK, NEW a \in Assets
  PROVE  /\ Reject(a) \in Run
         /\ Reject(a).pc = "assets" /\ Reject(a).pending = run.pending \ {a}
         /\ Reject(a).previous = run.previous
         /\ Reject(a).rejected = run.rejected \cup {a}
         /\ Reject(a).queued = run.queued /\ Reject(a).fetched = run.fetched
         /\ Reject(a).output = run.output /\ Reject(a).accepted = run.accepted
BY DEF TypeOK, Reject, Run, Points

LEMMA LateType ==
  ASSUME TypeOK, NEW a \in Assets
  PROVE  /\ LateRejected(a) \in Run
         /\ LateRejected(a).pc = "assets"
         /\ LateRejected(a).pending = run.pending \ {a}
         /\ LateRejected(a).previous = run.previous
         /\ LateRejected(a).rejected = run.rejected \cup {a}
         /\ LateRejected(a).queued = run.queued \cup {a}
         /\ LateRejected(a).fetched = run.fetched
         /\ LateRejected(a).output = run.output
         /\ LateRejected(a).accepted = run.accepted
BY RejectType DEF TypeOK, LateRejected, Run

FetchedRun(a) == [run EXCEPT !.pc = "metadata", !.fetched[a] = edition]

LEMMA FetchedType ==
  ASSUME TypeOK, NEW a \in Assets
  PROVE  /\ FetchedRun(a) \in Run
         /\ FetchedRun(a).pc = "metadata" /\ FetchedRun(a).pending = run.pending
         /\ FetchedRun(a).previous = run.previous
         /\ FetchedRun(a).rejected = run.rejected
         /\ FetchedRun(a).queued = run.queued
         /\ FetchedRun(a).fetched = [run.fetched EXCEPT ![a] = edition]
         /\ FetchedRun(a).output = run.output
         /\ FetchedRun(a).accepted = run.accepted
BY DEF TypeOK, FetchedRun, Run, Points, Output

LEMMA ParsedType ==
  ASSUME TypeOK, NEW a \in Assets
  PROVE  /\ Parsed(a) \in Run
         /\ Parsed(a).pc = "assets" /\ Parsed(a).pending = run.pending \ {a}
         /\ Parsed(a).previous = run.previous
         /\ Parsed(a).rejected = run.rejected
         /\ Parsed(a).queued = run.queued \cup {a}
         /\ Parsed(a).fetched = run.fetched
         /\ Parsed(a).output = [run.output EXCEPT ![a] = run.fetched[a]]
         /\ Parsed(a).accepted = run.accepted
BY DEF TypeOK, Parsed, Run, Points, Output

(* Whatever a put does, no whole file is damaged, and the pipeline goes on *)
(* only with a whole one.                                                  *)
Files == [Assets \X Editions -> FileStates]

LEMMA PutPayload ==
  ASSUME TypeOK, NEW file \in Assets \X Editions, NEW a, NEW next,
         Put(payload, file, a, next)
  PROVE  /\ payload' \in Files
         /\ \A f \in Assets \X Editions :
              payload[f] = "whole" => payload'[f] = "whole"
         /\ \/ run' = next /\ payload'[file] = "whole"
            \/ run' = Reject(a)
         /\ faults' \in 0..MaxFaults
<1>1. faults' \in 0..MaxFaults
  BY FaultType DEF Put
<1> QED BY <1>1 DEF Put, Files, FileStates, TypeOK

LEMMA PutMetadata ==
  ASSUME TypeOK, NEW file \in Assets \X Editions, NEW a, NEW next,
         Put(metadata, file, a, next)
  PROVE  /\ metadata' \in Files
         /\ \A f \in Assets \X Editions :
              metadata[f] = "whole" => metadata'[f] = "whole"
         /\ \/ run' = next /\ metadata'[file] = "whole"
            \/ run' = Reject(a)
         /\ faults' \in 0..MaxFaults
<1>1. faults' \in 0..MaxFaults
  BY FaultType DEF Put
<1> QED BY <1>1 DEF Put, Files, FileStates, TypeOK

LEMMA FailuresType ==
  ASSUME TypeOK
  PROVE  OneMoreFailure \in 0..MaximumConsecutiveFailures
<1> DEFINE S == {run.failures + 1, MaximumConsecutiveFailures}
<1>1. run.failures \in 0..MaximumConsecutiveFailures
  BY DEF TypeOK, Run
<1>2. /\ run.failures + 1 \in Nat /\ MaximumConsecutiveFailures \in Nat
      /\ MaximumConsecutiveFailures # 0
  BY <1>1, ConnectorAssumption
<1>3. \E x \in S : \A y \in S : x <= y
  BY <1>2
<1>4. Min(S) \in S /\ \A y \in S : Min(S) <= y
  BY <1>3 DEF Min
<1> QED BY <1>2, <1>4 DEF OneMoreFailure

LEMMA NewGoodType ==
  ASSUME TypeOK
  PROVE  NewGood \in Good
BY DEF TypeOK, NewGood, Good, Run, Output, Fingerprint, Fingerprints, Present

(* The run that Start leaves, whichever way it goes.                       *)
LEMMA StartRun ==
  ASSUME TypeOK, NEW probe \in BOOLEAN, NEW reviewed \in Reviews,
         Start(probe, reviewed)
  PROVE  /\ run' \in Run /\ Idle /\ faults' \in 0..MaxFaults
         /\ run'.pc \in {"report", "assets", "commit"}
         /\ run'.previous = stored.good
         /\ run'.queued = {} /\ run'.rejected = {}
         /\ run'.fetched = NoOutput /\ run'.output = NoOutput
         /\ run'.accepted = FALSE
<1> DEFINE begun == Begun(probe, reviewed)
           paused == CircuitOpen /\ ~probe
<1>1. /\ stored.good \in Good
      /\ stored.failures \in 0..MaximumConsecutiveFailures
  BY DEF TypeOK
<1>2. /\ begun \in Run
      /\ begun.previous = stored.good
      /\ begun.queued = {} /\ begun.rejected = {}
      /\ begun.fetched = NoOutput /\ begun.output = NoOutput
      /\ begun.accepted = FALSE
  BY <1>1, ConstantTypes DEF Begun, Resting, Run
<1>3. Offered[edition] \in SUBSET Assets
  BY ConnectorAssumption DEF TypeOK
<1>4. faults' \in 0..MaxFaults /\ Idle
  BY FaultType DEF Start
<1>5. \/ run' = [begun EXCEPT !.pc = "report", !.paused = paused]
      \/ run' = [begun EXCEPT !.pc = "assets", !.pending = Offered[edition]]
      \/ run' = [begun EXCEPT !.pc = "commit"]
  BY DEF Start
<1>6. paused \in BOOLEAN
  OBVIOUS
<1> HIDE DEF begun, paused
<1> QED BY <1>2, <1>3, <1>4, <1>5, <1>6 DEF Run, Points

LEMMA NextTypes == TypeOK /\ [Next]_vars => TypeOK'
<1> SUFFICES ASSUME TypeOK, [Next]_vars PROVE TypeOK'
  OBVIOUS
<1> USE DEF TypeOK, raw
<1>0. /\ run \in Run /\ stored.good \in Good /\ run.previous \in Good
      /\ run.failures \in 0..MaximumConsecutiveFailures
      /\ \A point \in Points : [run EXCEPT !.pc = point] \in Run
      /\ "emit" \in Points /\ "commit" \in Points /\ "checkpoint" \in Points
      /\ "update" \in Points /\ "report" \in Points
  BY GotoType, ZenonT(60) DEF Run, Points
<1>1. \A kind : Fault(kind) \/ NoFault => faults' \in 0..MaxFaults
  BY FaultType
<1>2. ASSUME NEW probe \in BOOLEAN, NEW reviewed \in Reviews,
             Start(probe, reviewed)
      PROVE  TypeOK'
  BY <1>2, StartRun DEF Start
<1>3. ASSUME NEW a \in Assets, FetchAsset(a)
      PROVE  TypeOK'
  <2>1. /\ <<a, edition>> \in Assets \X Editions
        /\ Put(payload, <<a, edition>>, a, FetchedRun(a))
        /\ UNCHANGED <<edition, permitted, metadata, stored, checkpoint>>
    BY <1>3 DEF FetchAsset, FetchedRun
  <2>2. payload' \in Files /\ faults' \in 0..MaxFaults
        /\ run' \in {FetchedRun(a), Reject(a)}
    BY <2>1, PutPayload
  <2> QED BY <2>1, <2>2, RejectType, FetchedType DEF Files
<1>4. ASSUME NEW a \in Assets, StoreMetadata(a)
      PROVE  TypeOK'
  <2>1. run.fetched[a] \in Editions
    BY <1>0, <1>4 DEF StoreMetadata, Current, Run, Output
  <2>2. [run EXCEPT !.pc = "parse"] \in Run
    BY <1>0 DEF Points
  <2> QED
    BY <1>4, <2>1, <2>2, PutMetadata, RejectType DEF StoreMetadata, Files
<1>5. ASSUME NEW a \in Assets, ParseAsset(a)
      PROVE  TypeOK'
  BY <1>5, ParsedType DEF ParseAsset
<1>6. ASSUME NEW a \in Assets, AssetFails(a)
      PROVE  TypeOK'
  BY <1>1, <1>6, RejectType DEF AssetFails
<1>18. ASSUME NEW a \in Assets, AssetLate(a)
       PROVE  TypeOK'
  BY <1>1, <1>18, LateType DEF AssetLate
<1>7. CASE Judge
  BY <1>0, <1>7 DEF Judge, Goto
<1>8. CASE EmitOutput
  <2>1. [run EXCEPT !.pc = "commit", !.accepted = TRUE] \in Run
    BY <1>0 DEF Run
  <2> QED BY <1>0, <1>1, <1>8, <2>1 DEF EmitOutput, Goto
<1>9. CASE CommitRun
  <2>1. /\ NewGood \in Good /\ OneMoreFailure \in 0..MaximumConsecutiveFailures
        /\ 0 \in 0..MaximumConsecutiveFailures
    BY NewGoodType, FailuresType, ConnectorAssumption
  <2>2. \/ stored' = stored
        \/ stored' = [failures |-> 0, good |-> NewGood]
        \/ stored' = [failures |-> OneMoreFailure, good |-> run.previous]
    BY <1>9 DEF CommitRun
  <2>3. stored' \in [failures : 0..MaximumConsecutiveFailures, good : Good]
    BY <1>0, <2>1, <2>2
  <2>4. run' \in Run /\ faults' \in 0..MaxFaults
    BY <1>0, <1>1, <1>9, ConstantTypes DEF CommitRun, Goto
  <2> QED BY <1>9, <2>3, <2>4 DEF CommitRun
<1>10. ASSUME NEW a \in Assets, AdvanceCheckpoint(a)
       PROVE  TypeOK'
  <2>1. run.fetched[a] \in Editions \cup {0}
        /\ [run EXCEPT !.queued = @ \ {a}] \in Run
    BY <1>0 DEF Run, Output
  <2>2. [checkpoint EXCEPT ![a] = run.fetched[a]] \in Output
    BY <2>1 DEF Output
  <2> QED BY <1>0, <1>1, <1>10, <2>1, <2>2 DEF AdvanceCheckpoint, Goto
<1>11. CASE CheckpointsDone
  BY <1>11, ConstantTypes DEF CheckpointsDone
<1>12. CASE UpdateReport
  BY <1>0, <1>1, <1>12, ConstantTypes DEF UpdateReport, Goto
<1>13. CASE ReportFailure
  <2>1. stored' = stored \/ stored' \in [failures : 0..MaximumConsecutiveFailures,
                                        good : Good]
    BY <1>0, <1>13, FailuresType DEF ReportFailure
  <2> QED BY <1>1, <1>13, <2>1, ConstantTypes DEF ReportFailure
<1>14. CASE Crash
  BY <1>1, <1>14, ConstantTypes DEF Crash
<1>15. CASE SourceChanges
  BY <1>15, EditionsAre DEF SourceChanges
<1>16. CASE RightsChange
  BY <1>16 DEF RightsChange
<1>17. CASE UNCHANGED vars
  BY <1>17 DEF vars
<1> QED
  BY <1>2, <1>3, <1>4, <1>5, <1>6, <1>7, <1>8, <1>9, <1>10, <1>11, <1>12,
     <1>13, <1>14, <1>15, <1>16, <1>17, <1>18 DEF Next, Step

-----------------------------------------------------------------------------
(* What is under way and what is kept can be traced to whole files.        *)

Whole(output) ==
  \A a \in Present(output) : /\ payload[<<a, output[a]>>] = "whole"
                             /\ metadata[<<a, output[a]>>] = "whole"

(* The one asset under way has its payload stored, and its metadata once   *)
(* it is to be parsed.                                                     *)
PipelineOK ==
  /\ At("assets") => Current = {}
  /\ run.pc \in {"metadata", "parse"} => \A a, b \in Current : a = b
  /\ \A a \in Current : /\ payload[<<a, run.fetched[a]>>] = "whole"
                        /\ At("parse") =>
                             metadata[<<a, run.fetched[a]>>] = "whole"

RetainedInv ==
  /\ TypeOK /\ PipelineOK
  /\ Whole(stored.good.output) /\ Whole(run.previous.output)
  /\ Whole(run.output)

LEMMA NothingToRetain == Whole(NoOutput)
BY DEF Whole, Present, NoOutput

LEMMA InitRetained == Init => RetainedInv
<1> SUFFICES ASSUME Init PROVE RetainedInv
  OBVIOUS
<1>1. PipelineOK
  BY DEF Init, PipelineOK, At, Current, Resting
<1> QED
  BY <1>1, InitTypes, NothingToRetain DEF Init, RetainedInv, Resting, NoGood

(* The files only get better.                                              *)
FilesKept ==
  /\ \A f \in Assets \X Editions : payload[f] = "whole" => payload'[f] = "whole"
  /\ \A f \in Assets \X Editions :
       metadata[f] = "whole" => metadata'[f] = "whole"

LEMMA WholeStays ==
  ASSUME FilesKept, NEW output \in Output, Whole(output)
  PROVE  /\ \A a \in Present(output) :
              /\ payload'[<<a, output[a]>>] = "whole"
              /\ metadata'[<<a, output[a]>>] = "whole"
BY DEF FilesKept, Output, Whole, Present

LEMMA FilesStep ==
  ASSUME TypeOK, [Next]_vars
  PROVE  FilesKept
<1>1. ASSUME NEW a \in Assets, FetchAsset(a) PROVE FilesKept
  BY <1>1, PutPayload DEF FetchAsset, FilesKept, TypeOK
<1>2. ASSUME NEW a \in Assets, StoreMetadata(a) PROVE FilesKept
  <2>1. <<a, run.fetched[a]>> \in Assets \X Editions
    BY <1>2 DEF StoreMetadata, Current, TypeOK, Run, Output
  <2> QED BY <1>2, <2>1, PutMetadata DEF StoreMetadata, FilesKept
<1>3. CASE UNCHANGED raw
  BY <1>3 DEF raw, FilesKept
<1> QED
  BY <1>1, <1>2, <1>3 DEF Next, Step, Start, ParseAsset, AssetFails, AssetLate, Judge,
     EmitOutput, CommitRun, AdvanceCheckpoint, CheckpointsDone, UpdateReport,
     ReportFailure, Crash, SourceChanges, RightsChange, vars, raw

(* Where outputs come from.                                                *)
LEMMA OutputStep ==
  ASSUME TypeOK, [Next]_vars
  PROVE  /\ stored'.good \in {stored.good, run.previous, NewGood}
         /\ run'.previous \in {run.previous, stored.good, NoGood}
         /\ \/ run'.output \in {run.output, NoOutput}
            \/ \E a \in Assets : ParseAsset(a)
<1>0. run \in Run /\ stored \in [failures : 0..MaximumConsecutiveFailures,
                                 good : Good]
  BY DEF TypeOK
<1>1. Resting.previous = NoGood /\ Resting.output = NoOutput
  BY DEF Resting
<1>2. ASSUME NEW probe \in BOOLEAN, NEW reviewed \in Reviews,
             Start(probe, reviewed)
      PROVE  run'.previous = stored.good /\ run'.output = NoOutput
             /\ stored' = stored
  BY <1>2, StartRun DEF Start
<1>3. ASSUME NEW a \in Assets,
             FetchAsset(a) \/ StoreMetadata(a) \/ AssetFails(a)
      PROVE  run'.previous = run.previous /\ run'.output = run.output
             /\ stored' = stored
  <2>1. /\ stored' = stored
        /\ \/ run' = Reject(a) \/ run' = FetchedRun(a)
           \/ run' = [run EXCEPT !.pc = "parse"]
    BY <1>3 DEF FetchAsset, StoreMetadata, AssetFails, Put, FetchedRun
  <2>2. CASE run' = [run EXCEPT !.pc = "parse"]
    BY <1>0, <2>1, <2>2 DEF Run
  <2> QED BY <2>1, <2>2, RejectType, FetchedType
<1>4. ASSUME NEW a \in Assets, ParseAsset(a)
      PROVE  run'.previous = run.previous /\ stored' = stored
  BY <1>4, ParsedType DEF ParseAsset
<1>6. ASSUME NEW a \in Assets, AssetLate(a)
      PROVE  run'.previous = run.previous /\ run'.output = run.output
             /\ stored' = stored
  BY <1>6, LateType DEF AssetLate
<1>5. CASE \/ Judge \/ EmitOutput \/ CommitRun \/ CheckpointsDone
           \/ UpdateReport \/ ReportFailure \/ Crash \/ SourceChanges
           \/ RightsChange \/ UNCHANGED vars
           \/ \E a \in Assets : AdvanceCheckpoint(a)
  <2>1. \/ run' = Resting
        \/ run'.previous = run.previous /\ run'.output = run.output
    BY <1>0, <1>5 DEF Judge, EmitOutput, CommitRun, CheckpointsDone,
       UpdateReport, ReportFailure, Crash, SourceChanges, RightsChange, vars,
       AdvanceCheckpoint, Goto, Run
  <2>2. stored'.good \in {stored.good, run.previous, NewGood}
    BY <1>0, <1>5 DEF Judge, EmitOutput, CommitRun, CheckpointsDone,
       UpdateReport, ReportFailure, Crash, SourceChanges, RightsChange, vars,
       AdvanceCheckpoint
  <2> QED BY <1>1, <2>1, <2>2
<1> QED BY <1>2, <1>3, <1>4, <1>5, <1>6 DEF Next, Step

LEMMA NextPipeline ==
  ASSUME TypeOK, PipelineOK, [Next]_vars
  PROVE  PipelineOK'
<1> USE DEF At
<1>0. run \in Run
  BY DEF TypeOK
<1>1. ASSUME run' = Resting
      PROVE  PipelineOK'
  <2>1. Current' = {}
    BY <1>1 DEF Current, Resting
  <2> QED BY <2>1 DEF PipelineOK
<1>2. ASSUME NEW a, run' = Reject(a), a \in Assets,
             Current \subseteq {a}
      PROVE  PipelineOK'
  <2>1. Current' = {}
    BY <1>2, RejectType DEF Current
  <2> QED BY <2>1 DEF PipelineOK
<1>3. ASSUME NEW probe \in BOOLEAN, NEW reviewed \in Reviews,
             Start(probe, reviewed)
      PROVE  PipelineOK'
  <2>1. run'.fetched = NoOutput /\ run' \in Run
    BY <1>3, StartRun
  <2>2. Current' = {}
    BY <2>1 DEF Current, NoOutput, Run
  <2> QED BY <2>2 DEF PipelineOK
<1>4. ASSUME NEW a \in Assets, FetchAsset(a)
      PROVE  PipelineOK'
  <2>1. /\ <<a, edition>> \in Assets \X Editions /\ Current = {}
        /\ Put(payload, <<a, edition>>, a, FetchedRun(a))
    BY <1>4 DEF FetchAsset, FetchedRun, TypeOK, PipelineOK
  <2>2. CASE run' = FetchedRun(a) /\ payload'[<<a, edition>>] = "whole"
    <3>1. /\ run'.pc = "metadata" /\ run'.pending = run.pending
          /\ run'.fetched = [run.fetched EXCEPT ![a] = edition]
          /\ run.fetched \in Output
      BY <1>0, <2>2, FetchedType DEF Run
    <3>2. Current' \subseteq {a} /\ run'.fetched[a] = edition
      BY <2>1, <3>1 DEF Current, Output, Run
    <3> QED BY <2>2, <3>1, <3>2 DEF PipelineOK
  <2>3. CASE run' = Reject(a)
    BY <1>2, <2>1, <2>3
  <2> QED BY <2>1, <2>2, <2>3, PutPayload
<1>5. ASSUME NEW a \in Assets, StoreMetadata(a)
      PROVE  PipelineOK'
  <2>1. /\ a \in Current /\ \A b \in Current : b = a
        /\ <<a, run.fetched[a]>> \in Assets \X Editions
        /\ Put(metadata, <<a, run.fetched[a]>>, a, [run EXCEPT !.pc = "parse"])
        /\ payload' = payload
    BY <1>0, <1>5 DEF StoreMetadata, PipelineOK, Current, Run, Output
  <2>2. CASE /\ run' = [run EXCEPT !.pc = "parse"]
             /\ metadata'[<<a, run.fetched[a]>>] = "whole"
    <3>1. run'.pc = "parse" /\ run'.fetched = run.fetched /\ Current' = Current
      BY <1>0, <2>2 DEF Run, Current
    <3> QED BY <2>1, <2>2, <3>1 DEF PipelineOK
  <2>3. CASE run' = Reject(a)
    BY <1>2, <2>1, <2>3
  <2> QED BY <2>1, <2>2, <2>3, PutMetadata
<1>6. ASSUME NEW a \in Assets, ParseAsset(a)
      PROVE  PipelineOK'
  <2>1. Current \subseteq {a} /\ run' = Parsed(a)
    BY <1>6 DEF ParseAsset, PipelineOK
  <2>2. Current' = {}
    BY <2>1, ParsedType DEF Current
  <2> QED BY <2>2 DEF PipelineOK
<1>7. ASSUME NEW a \in Assets, AssetFails(a)
      PROVE  PipelineOK'
  <2>1. Current \subseteq {a} /\ run' = Reject(a)
    BY <1>7 DEF AssetFails, PipelineOK
  <2> QED BY <1>2, <2>1
<1>10. ASSUME NEW a \in Assets, AssetLate(a)
       PROVE  PipelineOK'
  <2>1. Current \subseteq {a} /\ run' = LateRejected(a)
    BY <1>10 DEF AssetLate, PipelineOK
  <2>2. Current' = {}
    BY <2>1, LateType DEF Current
  <2> QED BY <2>2 DEF PipelineOK
<1>8. CASE \/ Judge \/ EmitOutput \/ CommitRun \/ CheckpointsDone
           \/ UpdateReport \/ ReportFailure \/ Crash
           \/ \E a \in Assets : AdvanceCheckpoint(a)
  <2>1. CASE run' = Resting
    BY <1>1, <2>1
  <2>2. CASE run' # Resting
    <3>1. /\ run'.pc \in {"emit", "commit", "checkpoint", "update", "report"}
          /\ run'.pending = run.pending /\ run'.fetched = run.fetched
          /\ UNCHANGED <<payload, metadata>>
      BY <1>0, <1>8, <2>2 DEF Judge, EmitOutput, CommitRun, CheckpointsDone,
         UpdateReport, ReportFailure, Crash, AdvanceCheckpoint, Goto, Run, raw
    <3> QED BY <3>1 DEF PipelineOK, Current
  <2> QED BY <2>1, <2>2
<1>9. CASE SourceChanges \/ RightsChange \/ UNCHANGED vars
  <2>1. UNCHANGED <<payload, metadata, run>>
    BY <1>9 DEF SourceChanges, RightsChange, vars, raw
  <2> QED BY <2>1 DEF PipelineOK, Current
<1> QED BY <1>3, <1>4, <1>5, <1>6, <1>7, <1>8, <1>9, <1>10 DEF Next, Step

LEMMA NextRetained == RetainedInv /\ [Next]_vars => RetainedInv'
<1> SUFFICES ASSUME RetainedInv, [Next]_vars PROVE RetainedInv'
  OBVIOUS
<1> USE DEF RetainedInv
<1>0. run \in Run /\ run.previous \in Good /\ stored.good \in Good
  BY DEF TypeOK, Run
<1>1. FilesKept /\ TypeOK' /\ PipelineOK'
  BY FilesStep, NextTypes, NextPipeline
<1>2. \A output \in {stored.good.output, run.previous.output, run.output,
                     NoOutput} :
        \A a \in Present(output) : /\ payload'[<<a, output[a]>>] = "whole"
                                   /\ metadata'[<<a, output[a]>>] = "whole"
  <2>1. TAKE output \in {stored.good.output, run.previous.output, run.output,
                         NoOutput}
  <2>2. output \in Output /\ Whole(output)
    BY <1>0, NothingToRetain, ConstantTypes DEF Good, Run
  <2> QED BY <1>1, <2>2, WholeStays
<1>3. /\ stored'.good.output \in
           {stored.good.output, run.previous.output, run.output}
      /\ run'.previous.output \in
           {run.previous.output, stored.good.output, NoOutput}
  BY OutputStep DEF NewGood, NoGood
<1>4. Whole(stored.good.output)' /\ Whole(run.previous.output)'
  BY <1>2, <1>3 DEF Whole, Present
<1>5. Whole(run.output)'
  <2>1. CASE run'.output \in {run.output, NoOutput}
    BY <1>2, <2>1 DEF Whole, Present
  <2>2. ASSUME NEW a \in Assets, ParseAsset(a)
        PROVE  Whole(run.output)'
    <3>1. /\ run'.output = [run.output EXCEPT ![a] = run.fetched[a]]
          /\ a \in Current /\ At("parse") /\ UNCHANGED <<payload, metadata>>
      BY <2>2, ParsedType DEF ParseAsset, raw
    <3>2. /\ payload[<<a, run.fetched[a]>>] = "whole"
          /\ metadata[<<a, run.fetched[a]>>] = "whole"
      BY <3>1 DEF PipelineOK
    <3>3. run.output \in Output
      BY <1>0 DEF Run
    <3> QED BY <3>1, <3>2, <3>3 DEF Whole, Present, Output
  <2> QED BY <2>1, <2>2, OutputStep
<1> QED BY <1>1, <1>4, <1>5

LEMMA RetainedInvariant == Spec => []RetainedInv
BY InitRetained, NextRetained, PTL DEF Spec

(* Every variable keeps its type, and every asset of the last-good output  *)
(* has its payload and its metadata whole in the raw store, whatever was   *)
(* interrupted, torn, retried or left over.                                *)
THEOREM OutputTraceable == Spec => []ConnectorInv
<1>1. RetainedInv => ConnectorInv
  BY DEF RetainedInv, ConnectorInv, OutputIsRetained, Whole
<1> QED BY <1>1, RetainedInvariant, PTL

-----------------------------------------------------------------------------
(* How a run changes in a step.                                            *)

(* The steps that leave what a run is judged by as it is.                  *)
SameRun ==
  /\ run' \in Run
  /\ run'.previous = run.previous /\ run'.reviewed = run.reviewed
  /\ run'.pending = run.pending /\ run'.rejected = run.rejected
  /\ run'.fetched = run.fetched /\ run'.output = run.output
  /\ run'.queued \subseteq run.queued

Alike ==
  /\ SameRun
  /\ \/ /\ \/ run'.pc = run.pc
           \/ run.pc = "metadata" /\ run'.pc = "parse"
           \/ run.pc = "commit" /\ run'.pc = "report"
           \/ run.pc = "checkpoint" /\ run'.pc = "update"
           \/ run.pc = "update" /\ run'.pc = "report"
        /\ run'.accepted = run.accepted /\ stored' = stored
     \/ run.pc = "emit" /\ run'.pc \in {"commit", "report"} /\ stored' = stored
     \/ /\ run.pc = "commit" /\ run'.pc = "checkpoint"
        /\ run.accepted /\ run'.accepted /\ stored'.good = NewGood

Working == run.pc \in {"assets", "metadata", "parse"}

RunSteps ==
  \/ run' = Resting
  \/ \E probe \in BOOLEAN, reviewed \in Reviews : Start(probe, reviewed)
  \/ \E a \in Assets : FetchAsset(a) /\ run' = FetchedRun(a)
  \/ \E a \in Assets : ParseAsset(a) \/ AssetLate(a)
  \/ \E a \in run.pending : Working /\ run' = Reject(a)
  \/ Judge
  \/ Alike

LEMMA RunStep ==
  ASSUME TypeOK, [Next]_vars
  PROVE  RunSteps
<1>0. run \in Run
  BY DEF TypeOK
<1>1. ASSUME NEW a \in Assets, FetchAsset(a)
      PROVE  RunSteps
  <2>1. \/ run' = FetchedRun(a)
        \/ a \in run.pending /\ Working /\ run' = Reject(a)
    BY <1>1 DEF FetchAsset, Put, FetchedRun, Working, At
  <2> QED BY <1>1, <2>1 DEF RunSteps
<1>2. ASSUME NEW a \in Assets, StoreMetadata(a)
      PROVE  RunSteps
  <2>1. /\ run.pc = "metadata" /\ a \in run.pending /\ stored' = stored
        /\ run' = [run EXCEPT !.pc = "parse"] \/ run' = Reject(a)
    BY <1>2 DEF StoreMetadata, Put, Current, At
  <2>2. CASE run' = [run EXCEPT !.pc = "parse"]
    BY <1>0, <2>1, <2>2 DEF RunSteps, Alike, SameRun, Run, Points
  <2>3. CASE run' = Reject(a)
    BY <2>1, <2>3 DEF Working, RunSteps
  <2> QED BY <2>1, <2>2, <2>3
<1>3. ASSUME NEW a \in Assets, AssetFails(a)
      PROVE  RunSteps
  BY <1>3 DEF AssetFails, Working, At, Current, RunSteps
<1>4. CASE EmitOutput
  <2>1. /\ run.pc = "emit"
        /\ \/ run' = [run EXCEPT !.pc = "commit", !.accepted = TRUE]
           \/ run' = [run EXCEPT !.pc = "report"]
        /\ stored' = stored
    BY <1>4 DEF EmitOutput, Goto, At
  <2>2. SameRun /\ run'.pc \in {"commit", "report"}
    BY <1>0, <2>1, ZenonT(60) DEF SameRun, Run, Points
  <2> QED BY <2>1, <2>2 DEF RunSteps, Alike
<1>5. CASE CommitRun
  <2>1. \/ run' = Resting
        \/ /\ run.pc = "commit" /\ run' = [run EXCEPT !.pc = "checkpoint"]
           /\ run.accepted /\ stored'.good = NewGood
        \/ /\ run.pc = "commit" /\ run' = [run EXCEPT !.pc = "report"]
           /\ stored' = stored
    BY <1>5 DEF CommitRun, Goto, At
  <2>2. ASSUME NEW pc \in {"checkpoint", "report"},
               run' = [run EXCEPT !.pc = pc]
        PROVE  SameRun /\ run'.pc = pc /\ run'.accepted = run.accepted
    BY <1>0, <2>2 DEF SameRun, Run, Points
  <2> QED BY <2>1, <2>2 DEF RunSteps, Alike
<1>6. ASSUME NEW a \in Assets, AdvanceCheckpoint(a)
      PROVE  RunSteps
  <2>1. /\ \/ run' = [run EXCEPT !.queued = @ \ {a}]
           \/ run.pc = "checkpoint" /\ run' = [run EXCEPT !.pc = "update"]
        /\ stored' = stored
    BY <1>6 DEF AdvanceCheckpoint, Goto, At
  <2>2. CASE run' = [run EXCEPT !.queued = @ \ {a}]
    <3>1. SameRun /\ run'.pc = run.pc /\ run'.accepted = run.accepted
      BY <1>0, <2>2 DEF SameRun, Run
    <3> QED BY <2>1, <3>1 DEF RunSteps, Alike
  <2>3. CASE run.pc = "checkpoint" /\ run' = [run EXCEPT !.pc = "update"]
    <3>1. SameRun /\ run'.pc = "update" /\ run'.accepted = run.accepted
      BY <1>0, <2>3 DEF SameRun, Run, Points
    <3> QED BY <2>1, <2>3, <3>1 DEF RunSteps, Alike
  <2> QED BY <2>1, <2>2, <2>3
<1>7. CASE UpdateReport
  <2>1. \/ run' = Resting
        \/ /\ run.pc = "update" /\ run' = [run EXCEPT !.pc = "report"]
           /\ stored' = stored
    BY <1>7 DEF UpdateReport, Goto, At
  <2>2. CASE /\ run.pc = "update" /\ run' = [run EXCEPT !.pc = "report"]
             /\ stored' = stored
    <3>1. SameRun /\ run'.pc = "report" /\ run'.accepted = run.accepted
      BY <1>0, <2>2 DEF SameRun, Run, Points
    <3> QED BY <2>2, <3>1 DEF RunSteps, Alike
  <2> QED BY <2>1, <2>2 DEF RunSteps
<1>8. CASE CheckpointsDone \/ ReportFailure \/ Crash
  BY <1>8 DEF CheckpointsDone, ReportFailure, Crash, RunSteps
<1>9. CASE SourceChanges \/ RightsChange \/ UNCHANGED vars
  <2>1. run' = run /\ stored' = stored
    BY <1>9 DEF SourceChanges, RightsChange, vars
  <2> QED BY <1>0, <2>1 DEF RunSteps, Alike, SameRun
<1> QED
  <2>1. ASSUME NEW a \in Assets, ParseAsset(a) \/ AssetLate(a)
        PROVE  RunSteps
    BY <2>1 DEF RunSteps
  <2>2. ASSUME NEW probe \in BOOLEAN, NEW reviewed \in Reviews,
               Start(probe, reviewed)
        PROVE  RunSteps
    BY <2>2 DEF RunSteps
  <2>3. CASE Judge
    BY <2>3 DEF RunSteps
  <2> QED
    BY <1>1, <1>2, <1>3, <1>4, <1>5, <1>6, <1>7, <1>8, <1>9, <2>1, <2>2, <2>3
       DEF Next, Step

-----------------------------------------------------------------------------
(* A checkpoint follows the output of its own run.                         *)

(* A checkpoint is queued only for what was parsed; that is in the output, *)
(* unless it was late after all.                                           *)
QueueOK ==
  \A a \in run.queued :
    /\ a \notin run.pending /\ run.fetched[a] # 0
    /\ run.output[a] = IF a \in run.rejected THEN 0 ELSE run.fetched[a]

PendingOK ==
  \A a \in run.pending : a \notin run.rejected /\ run.output[a] = 0

(* Checkpoints are made while the output of an accepted run is the last    *)
(* good one.                                                               *)
Publishing ==
  run.pc \in {"checkpoint", "update"} => run.accepted /\ stored.good = NewGood

QueueInv == TypeOK /\ QueueOK /\ PendingOK /\ Publishing

LEMMA InitQueue == Init => QueueInv
BY InitTypes DEF Init, QueueInv, QueueOK, PendingOK, Publishing, Resting

LEMMA NewGoodSame ==
  ASSUME run'.output = run.output
  PROVE  NewGood' = NewGood
BY DEF NewGood, Fingerprint, Present

LEMMA NextQueue == QueueInv /\ [Next]_vars => QueueInv'
<1> SUFFICES ASSUME QueueInv, [Next]_vars PROVE QueueInv'
  OBVIOUS
<1> USE DEF QueueInv
<1>0. /\ run \in Run /\ run.output \in Output /\ run.fetched \in Output
      /\ run.pending \subseteq Assets /\ run.queued \subseteq Assets
  BY DEF TypeOK, Run
<1> SUFFICES QueueOK' /\ PendingOK' /\ Publishing'
  BY NextTypes
<1> USE DEF QueueOK, PendingOK, Publishing
<1>1. CASE run' = Resting
  BY <1>1 DEF Resting
<1>2. ASSUME NEW probe \in BOOLEAN, NEW reviewed \in Reviews,
             Start(probe, reviewed)
      PROVE  QueueOK' /\ PendingOK' /\ Publishing'
  <2>1. /\ run' \in Run /\ run'.queued = {} /\ run'.rejected = {}
        /\ run'.output = NoOutput
        /\ run'.pc \notin {"checkpoint", "update"}
    BY <1>2, StartRun
  <2>2. \A a \in run'.pending : run'.output[a] = 0
    BY <2>1 DEF NoOutput, Run
  <2> QED BY <2>1, <2>2
<1>3. ASSUME NEW a \in Assets, FetchAsset(a), run' = FetchedRun(a)
      PROVE  QueueOK' /\ PendingOK' /\ Publishing'
  <2>1. /\ run'.pc = "metadata" /\ run'.pending = run.pending
        /\ run'.queued = run.queued /\ run'.output = run.output
        /\ run'.rejected = run.rejected
        /\ run'.fetched = [run.fetched EXCEPT ![a] = edition]
    BY <1>3, FetchedType
  <2>2. \A b \in run.queued : run'.fetched[b] = run.fetched[b]
    BY <1>0, <1>3, <2>1 DEF FetchAsset, Output
  <2> QED BY <2>1, <2>2
<1>4. ASSUME NEW a \in Assets, ParseAsset(a)
      PROVE  QueueOK' /\ PendingOK' /\ Publishing'
  <2>1. /\ run'.pc = "assets" /\ run'.pending = run.pending \ {a}
        /\ run'.queued = run.queued \cup {a} /\ run'.fetched = run.fetched
        /\ run'.rejected = run.rejected
        /\ run'.output = [run.output EXCEPT ![a] = run.fetched[a]]
        /\ a \in run.pending /\ run.fetched[a] # 0
    BY <1>4, ParsedType DEF ParseAsset, Current
  <2>2. /\ run'.output[a] = run.fetched[a]
        /\ \A b \in Assets : b # a => run'.output[b] = run.output[b]
    BY <1>0, <2>1 DEF Output
  <2> QED BY <1>0, <2>1, <2>2
<1>5. ASSUME NEW a \in Assets, AssetLate(a)
      PROVE  QueueOK' /\ PendingOK' /\ Publishing'
  <2>1. /\ run'.pc = "assets" /\ run'.pending = run.pending \ {a}
        /\ run'.queued = run.queued \cup {a} /\ run'.fetched = run.fetched
        /\ run'.rejected = run.rejected \cup {a}
        /\ run'.output = run.output
        /\ a \in run.pending /\ run.fetched[a] # 0
    BY <1>5, LateType DEF AssetLate, Current
  <2> QED BY <2>1
<1>6. ASSUME NEW a \in run.pending, Working, run' = Reject(a)
      PROVE  QueueOK' /\ PendingOK' /\ Publishing'
  <2>1. /\ run'.pc = "assets" /\ run'.pending = run.pending \ {a}
        /\ run'.queued = run.queued /\ run'.fetched = run.fetched
        /\ run'.rejected = run.rejected \cup {a}
        /\ run'.output = run.output
    BY <1>0, <1>6, RejectType
  <2> QED BY <2>1
<1>7. CASE Judge
  <2>1. /\ run'.pc \in {"emit", "commit"} /\ run'.pending = run.pending
        /\ run'.queued = run.queued /\ run'.fetched = run.fetched
        /\ run'.rejected = run.rejected /\ run'.output = run.output
    BY <1>0, <1>7 DEF Judge, Goto, Run
  <2> QED BY <2>1
<1>8. CASE Alike
  <2>1. QueueOK' /\ PendingOK'
    BY <1>8 DEF Alike, SameRun
  <2>2. Publishing'
    BY <1>8, NewGoodSame DEF Alike, SameRun
  <2> QED BY <2>1, <2>2
<1> QED
  BY <1>1, <1>2, <1>3, <1>4, <1>5, <1>6, <1>7, <1>8, RunStep DEF RunSteps

LEMMA AdvanceStep ==
  ASSUME [Next]_vars, checkpoint' # checkpoint
  PROVE  \E a \in Assets :
           /\ At("checkpoint") /\ a \in run.queued
           /\ UNCHANGED <<raw, stored>>
           /\ checkpoint' = [checkpoint EXCEPT ![a] = run.fetched[a]]
BY DEF Next, Step, Start, FetchAsset, StoreMetadata, ParseAsset, AssetFails,
   AssetLate, Judge, EmitOutput, CommitRun, AdvanceCheckpoint,
   CheckpointsDone, UpdateReport, ReportFailure, Crash, SourceChanges,
   RightsChange, vars

(* Whatever fails, and whenever an asset is late: a checkpoint is made     *)
(* only by an accepted run whose output is the last good one, for an asset *)
(* in that output, in its edition, or for one that this run left out.      *)
THEOREM CheckpointsFollow == Spec => CheckpointFollowsOutput
<1>1. QueueInv /\ [Next]_vars =>
        [\A a \in Assets : checkpoint'[a] # checkpoint[a] =>
           /\ run.accepted /\ stored.good = NewGood
           /\ stored.good.output[a] =
                IF a \in run.rejected THEN 0 ELSE checkpoint'[a]]_vars
  <2> SUFFICES ASSUME QueueInv, [Next]_vars, NEW a \in Assets,
                      checkpoint'[a] # checkpoint[a]
               PROVE  /\ run.accepted /\ stored.good = NewGood
                      /\ stored.good.output[a] =
                           IF a \in run.rejected THEN 0 ELSE checkpoint'[a]
    OBVIOUS
  <2>1. PICK b \in Assets :
          /\ At("checkpoint") /\ b \in run.queued
          /\ checkpoint' = [checkpoint EXCEPT ![b] = run.fetched[b]]
    BY AdvanceStep
  <2>2. checkpoint \in Output
    BY DEF QueueInv, TypeOK
  <2>3. a = b /\ checkpoint'[a] = run.fetched[a]
    BY <2>1, <2>2 DEF Output
  <2>4. run.accepted /\ stored.good = NewGood
    BY <2>1 DEF QueueInv, Publishing, At
  <2>5. stored.good.output = run.output
    BY <2>4 DEF NewGood
  <2> QED BY <2>1, <2>3, <2>4, <2>5 DEF QueueInv, QueueOK
<1> QED
  BY <1>1, InitQueue, NextQueue, PTL DEF Spec, CheckpointFollowsOutput

-----------------------------------------------------------------------------
(* What was checkpointed is retained.                                      *)

Kept(a, e) == payload[<<a, e>>] = "whole" /\ metadata[<<a, e>>] = "whole"

KeptInv ==
  /\ RetainedInv /\ QueueInv /\ CheckpointIsRetained
  /\ \A a \in run.queued : Kept(a, run.fetched[a])

LEMMA InitKept == Init => KeptInv
BY InitRetained, InitQueue
   DEF Init, KeptInv, CheckpointIsRetained, NoOutput, Resting

(* What is in the queue after a step was there before, or is the asset     *)
(* that was just parsed.                                                   *)
LEMMA QueuedStep ==
  ASSUME QueueInv, [Next]_vars, NEW a \in run'.queued
  PROVE  /\ run'.fetched[a] = run.fetched[a]
         /\ a \in run.queued \/ (At("parse") /\ a \in Current)
<1>0. run \in Run /\ run.fetched \in Output
  BY DEF QueueInv, TypeOK, Run
<1>1. CASE run' = Resting
  BY <1>1 DEF Resting
<1>2. CASE \E probe \in BOOLEAN, reviewed \in Reviews : Start(probe, reviewed)
  BY <1>2, StartRun DEF QueueInv
<1>3. ASSUME NEW b \in Assets, FetchAsset(b), run' = FetchedRun(b)
      PROVE  a \in run.queued /\ run'.fetched[a] = run.fetched[a]
  <2>1. /\ run'.queued = run.queued
        /\ run'.fetched = [run.fetched EXCEPT ![b] = edition]
        /\ b \in run.pending
    BY <1>3, FetchedType DEF FetchAsset, QueueInv
  <2> QED BY <1>0, <2>1 DEF QueueInv, QueueOK, Output
<1>4. ASSUME NEW b \in Assets, ParseAsset(b) \/ AssetLate(b)
      PROVE  /\ run'.fetched[a] = run.fetched[a]
             /\ a \in run.queued \/ (At("parse") /\ a \in Current)
  <2>1. /\ run'.queued = run.queued \cup {b} /\ run'.fetched = run.fetched
        /\ At("parse") /\ b \in Current
    BY <1>4, ParsedType, LateType DEF ParseAsset, AssetLate, QueueInv
  <2> QED BY <2>1
<1>5. ASSUME NEW b \in run.pending, run' = Reject(b)
      PROVE  a \in run.queued /\ run'.fetched[a] = run.fetched[a]
  BY <1>0, <1>5, RejectType DEF QueueInv, Run
<1>6. CASE Judge
  BY <1>0, <1>6 DEF Judge, Goto, Run
<1>7. CASE Alike
  BY <1>7 DEF Alike, SameRun
<1> QED
  BY <1>1, <1>2, <1>3, <1>4, <1>5, <1>6, <1>7, RunStep DEF RunSteps, QueueInv

LEMMA NextKept == KeptInv /\ [Next]_vars => KeptInv'
<1> SUFFICES ASSUME KeptInv, [Next]_vars PROVE KeptInv'
  OBVIOUS
<1>0. /\ RetainedInv' /\ QueueInv' /\ FilesKept /\ TypeOK /\ TypeOK'
  BY NextRetained, NextQueue, FilesStep DEF KeptInv, QueueInv
<1>1. ASSUME NEW a \in run'.queued
      PROVE  Kept(a, run.fetched[a])'
  <2>1. /\ run'.fetched[a] = run.fetched[a]
        /\ a \in run.queued \/ (At("parse") /\ a \in Current)
    BY QueuedStep DEF KeptInv
  <2>2. a \in Assets /\ run'.fetched[a] \in Editions
    BY <1>0 DEF QueueInv, QueueOK, TypeOK, Run, Output
  <2>3. Kept(a, run.fetched[a])
    BY <2>1 DEF KeptInv, RetainedInv, PipelineOK, Kept
  <2>4. Kept(a, run.fetched[a]) => /\ payload'[<<a, run'.fetched[a]>>] = "whole"
                                   /\ metadata'[<<a, run'.fetched[a]>>] = "whole"
    BY <1>0, <2>1, <2>2 DEF FilesKept, Kept
  <2> QED BY <2>3, <2>4 DEF Kept
<1>2. CheckpointIsRetained'
  <2> SUFFICES ASSUME NEW a \in Assets, checkpoint'[a] # 0
               PROVE  /\ payload'[<<a, checkpoint'[a]>>] = "whole"
                      /\ metadata'[<<a, checkpoint'[a]>>] = "whole"
    BY DEF CheckpointIsRetained
  <2>1. /\ checkpoint \in Output /\ checkpoint' \in Output
        /\ checkpoint'[a] \in Editions
    BY <1>0 DEF TypeOK, Output
  <2>2. Kept(a, checkpoint'[a])
    <3>1. CASE checkpoint'[a] = checkpoint[a]
      BY <3>1 DEF KeptInv, CheckpointIsRetained, Kept
    <3>2. CASE checkpoint'[a] # checkpoint[a]
      <4>1. PICK b \in Assets :
              /\ b \in run.queued
              /\ checkpoint' = [checkpoint EXCEPT ![b] = run.fetched[b]]
        BY <3>2, AdvanceStep
      <4>2. a = b /\ checkpoint'[a] = run.fetched[a]
        BY <2>1, <3>2, <4>1 DEF Output
      <4> QED BY <4>1, <4>2 DEF KeptInv
    <3> QED BY <3>1, <3>2
  <2> QED BY <1>0, <2>1, <2>2 DEF FilesKept, Kept
<1> QED BY <1>0, <1>1, <1>2 DEF KeptInv

(* Whatever fails, and whenever an asset is late: the edition that a       *)
(* checkpoint names is in the raw store, payload and metadata whole.       *)
THEOREM CheckpointsRetained == Spec => []CheckpointIsRetained
<1>1. KeptInv => CheckpointIsRetained
  BY DEF KeptInv
<1> QED BY <1>1, InitKept, NextKept, PTL DEF Spec

-----------------------------------------------------------------------------
(* What a run has fetched is at most as new as the source, and at least as *)
(* new as the output that it is to replace.                                *)

LEMMA EditionStep ==
  ASSUME TypeOK, [Next]_vars
  PROVE  edition \in Nat /\ edition' \in Nat /\ edition <= edition'
<1>1. edition \in Nat
  BY EditionsAre DEF TypeOK
<1>2. edition' \in {edition, edition + 1}
  BY DEF Next, Step, Start, FetchAsset, StoreMetadata, ParseAsset, AssetFails, AssetLate,
     Judge, EmitOutput, CommitRun, AdvanceCheckpoint, CheckpointsDone,
     UpdateReport, ReportFailure, Crash, SourceChanges, RightsChange, vars
<1> QED BY <1>1, <1>2

Upto(output, n) == \A a \in Assets : output[a] <= n

LEMMA OutputNat ==
  ASSUME NEW output \in Output
  PROVE  \A a \in Assets : output[a] \in Nat
<1>1. Editions \cup {0} \subseteq Nat
  BY EditionsAre
<1> QED BY <1>1 DEF Output

LEMMA UptoMore ==
  ASSUME NEW output \in Output, NEW m \in Nat, NEW n \in Nat, m <= n,
         Upto(output, m)
  PROVE  Upto(output, n)
<1> SUFFICES ASSUME NEW a \in Assets PROVE output[a] <= n
  BY DEF Upto
<1>1. output[a] \in Nat
  BY OutputNat
<1> QED BY <1>1 DEF Upto

FetchedNewer ==
  /\ Upto(run.fetched, edition)
  /\ \A a \in Assets : run.output[a] \in {0, run.fetched[a]}
  /\ \A a \in Assets :
       run.fetched[a] # 0 => Upto(run.previous.output, run.fetched[a])

(* Only a healthy run is emitted.                                          *)
AcceptedHealthy ==
  /\ run.accepted => run.pc \in {"commit", "checkpoint", "update", "report"}
  /\ run.pc = "emit" \/ run.accepted => Healthy

EditionInv ==
  /\ QueueInv
  /\ Upto(stored.good.output, edition) /\ Upto(run.previous.output, edition)
  /\ FetchedNewer
  /\ AcceptedHealthy

LEMMA UptoNothing ==
  ASSUME NEW n \in Nat
  PROVE  Upto(NoOutput, n)
BY DEF Upto, NoOutput

LEMMA NotWorking ==
  ASSUME NEW n \in Nat, edition' = n, run'.fetched = NoOutput,
         run'.output = NoOutput, run'.accepted = FALSE, run'.pc # "emit",
         run' \in Run
  PROVE  FetchedNewer' /\ AcceptedHealthy'
<1>1. Upto(run.fetched, edition)'
  BY UptoNothing
<1>2. \A a \in Assets : run'.output[a] = 0 /\ run'.fetched[a] = 0
  BY DEF NoOutput
<1> QED BY <1>1, <1>2 DEF FetchedNewer, AcceptedHealthy, Run

LEMMA InitEdition == Init => EditionInv
<1> SUFFICES ASSUME Init PROVE EditionInv
  OBVIOUS
<1>1. Upto(NoOutput, edition) /\ QueueInv
  BY UptoNothing, InitTypes, InitQueue DEF Init, TypeOK
<1>2. /\ run.previous.output = NoOutput /\ stored.good.output = NoOutput
      /\ run.fetched = NoOutput /\ run.output = NoOutput
      /\ run.accepted = FALSE /\ run.pc = "rest" /\ run.pending = {}
  BY DEF Init, Resting, NoGood
<1>3. \A a \in Assets : run.output[a] = 0 /\ run.fetched[a] = 0
  BY <1>2 DEF NoOutput
<1> QED BY <1>1, <1>2, <1>3 DEF EditionInv, FetchedNewer, AcceptedHealthy

LEMMA HealthAlike ==
  ASSUME SameRun
  PROVE  Healthy' <=> Healthy
BY DEF SameRun, Healthy, VolumeAnomaly, RejectionRate, SchemaDrift, Records,
   Fingerprint, Present

LEMMA NextFetched ==
  ASSUME EditionInv, [Next]_vars
  PROVE  FetchedNewer' /\ AcceptedHealthy'
<1> USE DEF EditionInv, QueueInv
<1>0. /\ run \in Run /\ run.fetched \in Output /\ run.output \in Output
      /\ run.previous.output \in Output
      /\ edition \in Nat /\ edition' \in Nat /\ edition <= edition'
  BY EditionStep DEF TypeOK, Run, Good
<1>1. CASE run' = Resting
  BY <1>0, <1>1, NotWorking, ConstantTypes DEF Resting
<1>2. ASSUME NEW probe \in BOOLEAN, NEW reviewed \in Reviews,
             Start(probe, reviewed)
      PROVE  FetchedNewer' /\ AcceptedHealthy'
  BY <1>0, <1>2, StartRun, NotWorking
<1>3. ASSUME NEW a \in Assets, FetchAsset(a), run' = FetchedRun(a)
      PROVE  FetchedNewer' /\ AcceptedHealthy'
  <2>1. /\ run'.pc = "metadata" /\ run'.pending = run.pending
        /\ run'.previous = run.previous /\ run'.output = run.output
        /\ run'.fetched = [run.fetched EXCEPT ![a] = edition]
        /\ run'.accepted = run.accepted
    BY <1>3, FetchedType
  <2>2. /\ run.pc = "assets" /\ a \in run.pending /\ edition' = edition
        /\ run.output[a] = 0
    BY <1>3 DEF FetchAsset, At, PendingOK
  <2>3. FetchedNewer'
    BY <1>0, <2>1, <2>2 DEF FetchedNewer, Upto, Output
  <2> QED BY <2>1, <2>2, <2>3 DEF AcceptedHealthy, Run
<1>4. ASSUME NEW a \in Assets, ParseAsset(a)
      PROVE  FetchedNewer' /\ AcceptedHealthy'
  <2>1. /\ run'.pc = "assets" /\ run'.pending = run.pending \ {a}
        /\ run'.previous = run.previous /\ run'.fetched = run.fetched
        /\ run'.output = [run.output EXCEPT ![a] = run.fetched[a]]
        /\ run'.accepted = run.accepted
    BY <1>4, ParsedType DEF ParseAsset
  <2>2. run.pc = "parse" /\ edition' = edition
    BY <1>4 DEF ParseAsset, At
  <2>3. FetchedNewer'
    BY <1>0, <2>1, <2>2 DEF FetchedNewer, Upto, Output
  <2> QED BY <2>1, <2>2, <2>3 DEF AcceptedHealthy, Run
<1>5. ASSUME NEW a \in run.pending, Working, run' = Reject(a)
      PROVE  FetchedNewer' /\ AcceptedHealthy'
  <2>1. /\ run'.pc = "assets" /\ run'.pending = run.pending \ {a}
        /\ run'.previous = run.previous /\ run'.fetched = run.fetched
        /\ run'.output = run.output /\ run'.accepted = run.accepted
    BY <1>0, <1>5, RejectType DEF Run
  <2>2. Upto(run.fetched, edition')
    BY <1>0, UptoMore DEF FetchedNewer
  <2> QED BY <1>5, <2>1, <2>2 DEF FetchedNewer, AcceptedHealthy, Working, Upto
<1>8. ASSUME NEW a \in Assets, AssetLate(a)
      PROVE  FetchedNewer' /\ AcceptedHealthy'
  <2>1. /\ run'.pc = "assets" /\ run'.pending = run.pending \ {a}
        /\ run'.previous = run.previous /\ run'.fetched = run.fetched
        /\ run'.output = run.output /\ run'.accepted = run.accepted
    BY <1>8, LateType DEF AssetLate
  <2>2. run.pc = "parse" /\ edition' = edition
    BY <1>8 DEF AssetLate, At
  <2> QED BY <2>1, <2>2 DEF FetchedNewer, AcceptedHealthy, Upto
<1>6. CASE Judge
  <2>1. /\ SameRun /\ edition' = edition /\ run'.accepted = run.accepted
        /\ run'.pc = "emit" => Healthy
        /\ run.pc = "assets"
    BY <1>0, <1>6 DEF Judge, Goto, At, SameRun, Run, Points
  <2>2. FetchedNewer'
    BY <2>1 DEF SameRun, FetchedNewer, Upto
  <2>3. ~run.accepted /\ ~run'.accepted
    BY <2>1 DEF AcceptedHealthy
  <2> QED
    BY <2>1, <2>2, <2>3, HealthAlike DEF AcceptedHealthy
<1>7. CASE Alike
  <2>1. /\ SameRun /\ Upto(run.fetched, edition')
    BY <1>0, <1>7, UptoMore DEF Alike, FetchedNewer
  <2>2. FetchedNewer'
    BY <2>1 DEF SameRun, FetchedNewer, Upto
  <2>3. /\ run'.accepted => /\ run'.pc \in {"commit", "checkpoint", "update",
                                            "report"}
                            /\ run.accepted \/ run.pc = "emit"
        /\ run'.pc = "emit" => run.pc = "emit"
    BY <1>7 DEF Alike, AcceptedHealthy
  <2> QED
    BY <2>1, <2>2, <2>3, HealthAlike DEF AcceptedHealthy
<1> QED BY <1>1, <1>2, <1>3, <1>4, <1>5, <1>6, <1>7, <1>8, RunStep
     DEF RunSteps

LEMMA NextEdition == EditionInv /\ [Next]_vars => EditionInv'
<1> SUFFICES ASSUME EditionInv, [Next]_vars PROVE EditionInv'
  OBVIOUS
<1>0. /\ TypeOK /\ QueueInv' /\ run.output \in Output
      /\ stored.good.output \in Output /\ run.previous.output \in Output
      /\ edition \in Nat /\ edition' \in Nat /\ edition <= edition'
      /\ run.fetched \in Output
  BY NextQueue, EditionStep DEF EditionInv, QueueInv, TypeOK, Run, Good
<1>1. /\ Upto(stored.good.output, edition')
      /\ Upto(run.previous.output, edition')
  BY <1>0, UptoMore DEF EditionInv
<1>2. Upto(run.output, edition')
  <2>1. Upto(run.fetched, edition')
    BY <1>0, UptoMore DEF EditionInv, FetchedNewer
  <2> QED BY <1>0, <2>1 DEF EditionInv, FetchedNewer, Upto
<1>3. Upto(NoOutput, edition')
  BY <1>0, UptoNothing
<1>4. /\ stored'.good.output \in
           {stored.good.output, run.previous.output, run.output}
      /\ run'.previous.output \in
           {run.previous.output, stored.good.output, NoOutput}
  BY <1>0, OutputStep DEF NewGood, NoGood
<1>5. /\ Upto(stored'.good.output, edition')
      /\ Upto(run'.previous.output, edition')
  BY <1>1, <1>2, <1>3, <1>4
<1> QED BY <1>0, <1>5, NextFetched DEF EditionInv, Upto

-----------------------------------------------------------------------------
(* What is published, and when.                                            *)

(* Until a run commits, the last-good output is the one that it began      *)
(* with; a run that could not report a failed checkpoint still has its own *)
(* published when it comes to the report of its failure.                   *)
PublishedInv ==
  /\ run.pc \notin {"rest", "checkpoint", "update", "report"} =>
       stored.good = run.previous
  /\ run.pc = "report" => \/ stored.good = run.previous
                          \/ run.accepted /\ stored.good = NewGood

OutputInv == EditionInv /\ PublishedInv

LEMMA InitOutput == Init => OutputInv
BY InitEdition DEF Init, OutputInv, PublishedInv, Resting

LEMMA NextOutput == OutputInv /\ [Next]_vars => OutputInv'
<1> SUFFICES ASSUME OutputInv, [Next]_vars PROVE PublishedInv'
  BY NextEdition DEF OutputInv
<1>0. TypeOK /\ run \in Run /\ QueueInv
  BY DEF OutputInv, EditionInv, QueueInv, TypeOK
<1> USE DEF OutputInv, PublishedInv
<1>1. CASE run' = Resting
  BY <1>1 DEF Resting
<1>2. ASSUME NEW probe \in BOOLEAN, NEW reviewed \in Reviews,
             Start(probe, reviewed)
      PROVE  PublishedInv'
  BY <1>0, <1>2, StartRun DEF Start
<1>3. ASSUME NEW a \in Assets, FetchAsset(a), run' = FetchedRun(a)
      PROVE  PublishedInv'
  BY <1>0, <1>3, FetchedType DEF FetchAsset, At
<1>4. ASSUME NEW a \in Assets, ParseAsset(a) \/ AssetLate(a)
      PROVE  PublishedInv'
  BY <1>0, <1>4, ParsedType, LateType DEF ParseAsset, AssetLate, At
<1>5. ASSUME NEW a \in run.pending, Working, run' = Reject(a)
      PROVE  PublishedInv'
  <2>1. stored' = stored
    <3>1. ~CommitRun /\ ~ReportFailure
      BY <1>5 DEF CommitRun, ReportFailure, Working, At
    <3> QED
      BY <3>1 DEF Next, Step, Start, FetchAsset, StoreMetadata, ParseAsset,
         AssetFails, AssetLate, Judge, EmitOutput, AdvanceCheckpoint,
         CheckpointsDone, UpdateReport, Crash, SourceChanges, RightsChange,
         vars
  <2>2. run'.pc = "assets" /\ run'.previous = run.previous
    BY <1>0, <1>5, RejectType DEF Run
  <2> QED BY <1>5, <2>1, <2>2 DEF Working
<1>6. CASE Judge
  <2>1. /\ run.pc = "assets" /\ run'.pc \in {"emit", "commit"}
        /\ run'.previous = run.previous /\ stored' = stored
    BY <1>0, <1>6 DEF Judge, Goto, At, Run
  <2> QED BY <2>1
<1>7. CASE Alike
  <2>1. run'.previous = run.previous /\ NewGood' = NewGood
    BY <1>7, NewGoodSame DEF Alike, SameRun
  <2>2. CASE run.pc = "update" /\ run'.pc = "report"
    BY <1>0, <1>7, <2>1, <2>2 DEF Alike, QueueInv, Publishing
  <2>3. CASE ~(run.pc = "update" /\ run'.pc = "report")
    BY <1>7, <2>1, <2>3 DEF Alike
  <2> QED BY <2>2, <2>3
<1> QED
  BY <1>0, <1>1, <1>2, <1>3, <1>4, <1>5, <1>6, <1>7, RunStep DEF RunSteps

LEMMA OutputInvariant == Spec => []OutputInv
BY InitOutput, NextOutput, PTL DEF Spec

(* What a step does to the last-good output.                               *)
LEMMA GoodStep ==
  ASSUME OutputInv, [Next]_vars, stored'.good # stored.good
  PROVE  \/ /\ run.accepted /\ stored'.good = NewGood
            /\ stored.good = run.previous
         \/ TakenBack
<1>1. CASE CommitRun
  BY <1>1 DEF CommitRun, At, OutputInv, PublishedInv
<1>2. CASE ReportFailure
  BY <1>2 DEF ReportFailure, At, OutputInv, PublishedInv, TakenBack
<1> QED
  BY <1>1, <1>2 DEF Next, Step, Start, FetchAsset, StoreMetadata, ParseAsset,
     AssetFails, AssetLate, Judge, EmitOutput, AdvanceCheckpoint,
     CheckpointsDone, UpdateReport, Crash, SourceChanges, RightsChange, vars

(* Whatever fails: the output is only ever replaced by that of a healthy   *)
(* run, within the policy's volume, in the same or in a reviewed schema,   *)
(* with nothing older than what it replaces; or a run that could not       *)
(* report a failed checkpoint takes back its own.                          *)
THEOREM OutputHealthy == Spec => OutputChangesHealthily
<1>1. ASSUME OutputInv, [Next]_vars, stored.good # NoGood,
             run.accepted, stored'.good = NewGood, stored.good = run.previous
      PROVE  HealthyChange
  <2>1. ~VolumeAnomaly /\ ~SchemaDrift
    BY <1>1 DEF OutputInv, EditionInv, AcceptedHealthy, Healthy
  <2>2. /\ stored'.good.output = run.output
        /\ stored'.good.schema = Fingerprint(run.output)
    BY <1>1 DEF NewGood
  <2>3. LET before == Records(stored.good.output)
            now == Records(stored'.good.output)
        IN ~Exceeds(Max({now - before, before - now}), before,
                    MaximumVolumeChangePercent)
    BY <1>1, <2>1, <2>2 DEF VolumeAnomaly, Records, Present
  <2>4. stored'.good.schema \in {stored.good.schema, run.reviewed}
    BY <1>1, <2>1, <2>2 DEF SchemaDrift
  <2>5. ASSUME NEW a \in Present(stored'.good.output), NEW b \in Assets
        PROVE  stored.good.output[b] <= stored'.good.output[a]
    <3>1. a \in Assets /\ run.output[a] # 0
      BY <2>2, <2>5 DEF Present
    <3>2. /\ run.output[a] = run.fetched[a]
          /\ Upto(run.previous.output, run.fetched[a])
      BY <1>1, <3>1 DEF OutputInv, EditionInv, FetchedNewer
    <3> QED BY <1>1, <2>2, <3>2 DEF Upto
  <2> QED BY <2>3, <2>4, <2>5 DEF HealthyChange
<1>2. OutputInv /\ [Next]_vars =>
        [stored.good # NoGood /\ stored'.good # stored.good =>
           HealthyChange \/ TakenBack]_vars
  BY <1>1, GoodStep
<1> QED
  BY <1>2, OutputInvariant, PTL DEF Spec, OutputChangesHealthily

(* A policy that tolerates no rejected asset closes the gap that a late    *)
(* asset leaves: then every checkpoint is for an asset of the output, in   *)
(* the edition that is in it.                                              *)
THEOREM StrictPolicyCheckpoints ==
  ASSUME MaximumFailurePercent = 0
  PROVE  Spec => [][\A a \in Assets : checkpoint'[a] # checkpoint[a] =>
                      stored.good.output[a] = checkpoint'[a]]_vars
<1>1. ASSUME EditionInv, run.accepted PROVE run.rejected = {}
  <2> DEFINE n == Cardinality(run.rejected)
             m == Records(run.output)
  <2>1. IsFiniteSet(run.rejected) /\ IsFiniteSet(Present(run.output))
    <3>1. run.rejected \subseteq Assets /\ Present(run.output) \subseteq Assets
      BY <1>1 DEF EditionInv, QueueInv, TypeOK, Run, Present
    <3> QED BY <3>1, ConnectorAssumption, FS_Subset
  <2>2. n \in Nat /\ m \in Nat
    BY <2>1, FS_CardinalityType DEF Records
  <2>3. ~Exceeds(n, m + n, 0)
    BY <1>1 DEF EditionInv, AcceptedHealthy, Healthy, RejectionRate
  <2> HIDE DEF n, m
  <2>4. Max({1, m + n}) \in Nat
    <3>1. \A x \in {1, m + n} : x <= m + n + 1
      BY <2>2
    <3>2. {1, m + n} \in SUBSET Nat /\ {1, m + n} # {} /\ m + n + 1 \in Nat
      BY <2>2
    <3>3. Max({1, m + n}) \in {1, m + n}
      BY <3>1, <3>2, MaxIs
    <3> QED BY <2>2, <3>3
  <2>5. n = 0
    BY <2>2, <2>3, <2>4 DEF Exceeds
  <2> QED BY <2>1, <2>5, FS_EmptySet DEF n
<1>2. EditionInv /\ [Next]_vars =>
        [\A a \in Assets : checkpoint'[a] # checkpoint[a] =>
           stored.good.output[a] = checkpoint'[a]]_vars
  <2> SUFFICES ASSUME EditionInv, [Next]_vars, NEW a \in Assets,
                      checkpoint'[a] # checkpoint[a]
               PROVE  stored.good.output[a] = checkpoint'[a]
    OBVIOUS
  <2>1. PICK b \in Assets :
          /\ At("checkpoint") /\ b \in run.queued
          /\ checkpoint' = [checkpoint EXCEPT ![b] = run.fetched[b]]
    BY AdvanceStep
  <2>2. checkpoint \in Output
    BY DEF EditionInv, QueueInv, TypeOK
  <2>3. a = b /\ checkpoint'[a] = run.fetched[a]
    BY <2>1, <2>2 DEF Output
  <2>4. run.accepted /\ stored.good = NewGood
    BY <2>1 DEF EditionInv, QueueInv, Publishing, At
  <2>5. run.output[a] = run.fetched[a]
    BY <1>1, <2>1, <2>3, <2>4 DEF EditionInv, QueueInv, QueueOK
  <2> QED BY <2>3, <2>4, <2>5 DEF NewGood
<1> QED BY <1>2, InitEdition, NextEdition, PTL DEF Spec

=============================================================================
