---------------------- MODULE CatalogActivationProofs ----------------------
(***************************************************************************)
(* Proofs about CatalogActivation, for any catalogs, versions, keys, number *)
(* of chunks and bounds.  The type and what is known at a switch hold for   *)
(* activations that end anywhere; that the accepted version follows the    *)
(* active catalog, and the refinement of PublishedCatalog, for those that  *)
(* do not end between a switch of the pointer and the record of it.        *)
(***************************************************************************)
EXTENDS CatalogActivation, TLAPS

-----------------------------------------------------------------------------
(* Facts about the definitions.                                            *)

LEMMA RankFacts ==
  /\ Rank["switched"] = 6
  /\ \A p \in Phases \ {"switched"} : Rank[p] \in 0 .. 4
BY DEF Rank, Phases

LEMMA ReachedSwitched ==
  ASSUME staging.phase \in Phases
  PROVE  /\ Reached("switched") <=> staging.phase = "switched"
         /\ \A p \in Phases : staging.phase = "switched" => Reached(p)
BY RankFacts DEF Reached, Phases

LEMMA NoStagingTypes ==
  /\ NoStaging.phase = "copying" /\ NoStaging.copied \in 0 .. Chunks
  /\ NoStaging.digest \in Nat /\ NoStaging.catalog = NoCatalog
  /\ Resting.catalog = NoCatalog /\ Resting.pc = "rest"
BY CatalogAssumption DEF NoStaging, Resting

-----------------------------------------------------------------------------
(* Types, with what ties an activation under way to its staging record.    *)

Tied == ~Idle => staging \in Staging /\ staging.catalog = run.catalog
Within == /\ At("record") => staging.copied < Chunks
          /\ private <= mishaps

TypeInv == TypeOK /\ Tied /\ Within

LEMMA InitTypes == Init => TypeInv
BY CatalogAssumption
   DEF Init, TypeInv, TypeOK, Tied, Within, At, Idle, Resting

LEMMA ActivateTypes ==
  ASSUME TypeInv, NEW c \in Catalogs, Activate(c)
  PROVE  TypeInv'
<1>1. staging' \in Staging /\ staging'.catalog = c
  <2>1. CASE staging' = FreshStaging(c)
    <3>1. 0 \in 0 .. Chunks /\ private \in Nat /\ active \in Catalogs
      BY CatalogAssumption DEF TypeInv, TypeOK
    <3> QED BY <2>1, <3>1 DEF FreshStaging, Staging, Phases
  <2>2. CASE staging.catalog = c /\ staging' = staging
    BY <2>2, CatalogAssumption DEF TypeInv, TypeOK, NoStaging
  <2> QED BY <2>1, <2>2 DEF Activate
<1>2. /\ run' \in [catalog : Catalogs, pc : Points \ {"rest"}]
      /\ run'.catalog = c /\ run'.pc # "record"
  BY DEF Activate, AfterRead, Points
<1>3. staged' \in Seq(BOOLEAN) /\ Len(staged') <= Chunks
  <2>1. <<>> \in Seq(BOOLEAN) /\ Len(<<>>) = 0 /\ 0 <= Chunks
    BY CatalogAssumption
  <2> QED BY <2>1 DEF Activate, TypeInv, TypeOK
<1> QED BY <1>1, <1>2, <1>3 DEF TypeInv, TypeOK, Tied, Within, At, Activate

LEMMA GotoTypes ==
  ASSUME TypeInv, ~Idle, NEW point \in Points \ {"rest"}, Goto(point)
  PROVE  /\ run' \in [catalog : Catalogs, pc : Points \ {"rest"}]
         /\ run' # Resting /\ run'.catalog = run.catalog /\ run'.pc = point
BY CatalogAssumption DEF TypeInv, TypeOK, Idle, Goto, Resting

LEMMA RecordTypes ==
  ASSUME TypeInv, ~Idle, NEW phase \in Phases, Record(phase)
  PROVE  /\ staging' \in Staging /\ staging'.catalog = staging.catalog
         /\ staging'.previous = staging.previous
         /\ staging'.digest = staging.digest /\ staging'.phase = phase
BY DEF TypeInv, Tied, Record, Staging

(* An action that moves on, perhaps with a new phase.                      *)
LEMMA AdvanceTypes ==
  ASSUME TypeInv, ~Idle,
         NEW point \in Points \ {"rest", "record"}, Goto(point),
         staging' = staging \/ \E phase \in Phases : Record(phase),
         active' \in Catalogs, accepted' \in Nat, private' \in 0 .. MaxMishaps,
         mishaps' \in 0 .. MaxMishaps, private' <= mishaps',
         UNCHANGED <<staged, revoked, ends>>
  PROVE  TypeInv'
<1>1. staging' \in Staging /\ staging'.catalog = staging.catalog
  BY RecordTypes DEF TypeInv, Tied
<1> QED BY <1>1, GotoTypes DEF TypeInv, TypeOK, Tied, Within, At

(* An action that leaves no activation under way.                          *)
LEMMA RestTypes ==
  ASSUME TypeInv, run' = Resting,
         staging' \in Staging \cup {NoStaging},
         staged' \in Seq(BOOLEAN), Len(staged') <= Chunks,
         active' \in Catalogs, accepted' \in Nat, private' \in 0 .. MaxMishaps,
         revoked' \in SUBSET Keys, ends' \in 0 .. MaxEnds,
         mishaps' \in 0 .. MaxMishaps, private' <= mishaps'
  PROVE  TypeInv'
BY DEF TypeInv, TypeOK, Tied, Within, At, Resting, Idle

LEMMA AtPoint ==
  ASSUME TypeInv, NEW point, At(point), point # "rest"
  PROVE  ~Idle /\ run.catalog \in Catalogs /\ staging \in Staging
         /\ staging.catalog = run.catalog
BY NoStagingTypes DEF TypeInv, TypeOK, Tied, Idle, At, Resting

LEMMA MishapTypes ==
  ASSUME TypeOK, Mishap
  PROVE  mishaps' \in 0 .. MaxMishaps /\ mishaps' = mishaps + 1
BY CatalogAssumption DEF TypeOK, Mishap

LEMMA CheckTypes ==
  ASSUME TypeInv, NEW point \in Points \ {"rest"}, NEW passes,
         NEW phase \in Phases, NEW next \in Points \ {"rest", "record"},
         Check(point, passes, phase, next)
  PROVE  TypeInv'
<1>1. ~Idle
  BY AtPoint DEF Check
<1>2. CASE passes
  BY <1>1, <1>2, AdvanceTypes DEF Check, TypeInv, TypeOK, Within
<1>3. CASE ~passes
  BY <1>3, RestTypes DEF Check, Refused, durable, TypeInv, TypeOK, Within
<1> QED BY <1>2, <1>3

LEMMA AppendTypes ==
  ASSUME TypeInv, AppendChunk
  PROVE  TypeInv'
<1>1. ~Idle /\ staging \in Staging /\ staging.copied < Chunks
  BY AtPoint DEF AppendChunk
<1>2. CASE Len(staged) = staging.copied
  <2>1. \E b \in BOOLEAN : staged' = Append(staged, b)
    BY <1>2 DEF AppendChunk
  <2>2. staged' \in Seq(BOOLEAN) /\ Len(staged') = Len(staged) + 1
    BY <2>1 DEF TypeInv, TypeOK
  <2>3. Len(staged') <= Chunks
    BY <1>1, <1>2, <2>2, CatalogAssumption DEF Staging
  <2>4. mishaps' \in 0 .. MaxMishaps /\ private' <= mishaps'
    <3>1. private \in 0 .. MaxMishaps /\ mishaps \in 0 .. MaxMishaps
          /\ private <= mishaps /\ private' = private
      BY DEF AppendChunk, TypeInv, TypeOK, Within
    <3>2. CASE NoMishap
      BY <3>1, <3>2 DEF NoMishap
    <3>3. CASE Mishap
      BY <3>1, <3>3, CatalogAssumption DEF Mishap
    <3> QED BY <1>2, <3>2, <3>3 DEF AppendChunk
  <2>5. /\ run' \in [catalog : Catalogs, pc : Points \ {"rest"}]
        /\ run'.catalog = run.catalog
    BY <1>1, <1>2, GotoTypes DEF AppendChunk, Points
  <2> QED
    BY <1>1, <1>2, <2>2, <2>3, <2>4, <2>5
       DEF AppendChunk, TypeInv, TypeOK, Tied, Within
<1>3. CASE Len(staged) # staging.copied
  BY <1>3, RestTypes 
     DEF AppendChunk, Refused, durable, NoMishap, TypeInv, TypeOK, Within
<1> QED BY <1>2, <1>3

LEMMA ChunkTypes ==
  ASSUME TypeInv, RecordChunk \/ RecordCopied
  PROVE  TypeInv'
<1>1. ~Idle /\ staging \in Staging
  BY AtPoint DEF RecordChunk, RecordCopied
<1>2. CASE RecordCopied
  BY <1>1, <1>2, AdvanceTypes
     DEF RecordCopied, TypeInv, TypeOK, Within, Points, Phases
<1>3. CASE RecordChunk
  <2>1. staging.copied + 1 \in 0 .. Chunks
    BY <1>1, <1>3, CatalogAssumption DEF RecordChunk, TypeInv, Within, Staging
  <2>2. staging' \in Staging /\ staging'.catalog = staging.catalog
    BY <1>1, <1>3, <2>1 DEF RecordChunk, Staging
  <2>3. /\ run' \in [catalog : Catalogs, pc : Points \ {"rest"}]
        /\ run'.catalog = run.catalog /\ run'.pc = "append"
    BY <1>1, <1>3, GotoTypes DEF RecordChunk, Points
  <2> QED
    BY <1>1, <1>3, <2>2, <2>3
       DEF RecordChunk, TypeInv, TypeOK, Tied, Within, At
<1> QED BY <1>2, <1>3

LEMMA SwitchTypes ==
  ASSUME TypeInv, AtomicSwitch \/ RecordSwitch \/ LaunchSucceeds \/ LaunchFails
                  \/ AcceptVersion
  PROVE  TypeInv'
<1>1. ~Idle /\ staging \in Staging /\ run.catalog \in Catalogs
  BY AtPoint DEF AtomicSwitch, RecordSwitch, LaunchSucceeds, LaunchFails,
     AcceptVersion
<1>2. CASE AtomicSwitch
  <2>1. /\ private' \in 0 .. MaxMishaps /\ mishaps' \in 0 .. MaxMishaps
        /\ private' <= mishaps'
    BY <1>2, MishapTypes, CatalogAssumption
       DEF AtomicSwitch, NoMishap, TypeInv, TypeOK, Within
  <2>2. CASE active = staging.previous
    BY <1>1, <1>2, <2>1, <2>2, AdvanceTypes
       DEF AtomicSwitch, TypeInv, TypeOK, Points
  <2>3. CASE active # staging.previous
    BY <1>2, <2>1, <2>3, RestTypes
       DEF AtomicSwitch, Refused, durable, TypeInv, TypeOK
  <2> QED BY <2>2, <2>3
<1>3. CASE RecordSwitch
  BY <1>1, <1>3, AdvanceTypes
     DEF RecordSwitch, TypeInv, TypeOK, Within, Points, Phases
<1>4. CASE LaunchSucceeds \/ LaunchFails
  <2>1. mishaps' \in 0 .. MaxMishaps /\ private <= mishaps'
    BY <1>4, MishapTypes, CatalogAssumption
       DEF LaunchSucceeds, LaunchFails, TypeInv, TypeOK, Within
  <2> QED
    BY <1>1, <1>4, <2>1, AdvanceTypes
       DEF LaunchSucceeds, LaunchFails, durable, TypeInv, TypeOK, Points
<1>5. CASE AcceptVersion
  BY <1>1, <1>5, AdvanceTypes, CatalogAssumption
     DEF AcceptVersion, TypeInv, TypeOK, Within, Points
<1> QED BY <1>2, <1>3, <1>4, <1>5

LEMMA UndoTypes ==
  ASSUME TypeInv, RollbackSwitch \/ RecordRollback \/ ClearStaging
  PROVE  TypeInv'
<1>1. ~Idle /\ staging \in Staging
  BY AtPoint DEF RollbackSwitch, RecordRollback, ClearStaging
<1>2. CASE RollbackSwitch
  <2>1. CASE active = run.catalog
    BY <1>1, <1>2, <2>1, AdvanceTypes
       DEF RollbackSwitch, TypeInv, TypeOK, Within, Points, Staging
  <2>2. CASE active # run.catalog
    BY <1>2, <2>2, RestTypes
       DEF RollbackSwitch, Refused, durable, TypeInv, TypeOK, Within
  <2> QED BY <2>1, <2>2
<1>3. CASE RecordRollback
  <2>1. staging' \in Staging
    BY <1>1, <1>3, RecordTypes DEF RecordRollback, Phases
  <2> QED
    BY <1>3, <2>1, RestTypes DEF RecordRollback, TypeInv, TypeOK, Within
<1>4. CASE ClearStaging
  <2>1. staged' \in Seq(BOOLEAN) /\ Len(staged') <= Chunks
    BY <1>4, CatalogAssumption DEF ClearStaging
  <2> QED
    BY <1>4, <2>1, RestTypes DEF ClearStaging, TypeInv, TypeOK, Within
<1> QED BY <1>2, <1>3, <1>4

LEMMA OutsideTypes ==
  ASSUME TypeInv,
         \/ EndEarly \/ EditPrivate
         \/ \E k \in Keys : RevokeKey(k)
         \/ \E i \in DOMAIN staged : DamageStaged(i)
  PROVE  TypeInv'
<1>1. CASE EndEarly
  BY <1>1, RestTypes, CatalogAssumption
     DEF EndEarly, durable, TypeInv, TypeOK, Within
<1>2. CASE EditPrivate
  <2>1. mishaps' \in 0 .. MaxMishaps /\ mishaps' = mishaps + 1
    BY <1>2, MishapTypes DEF EditPrivate, TypeInv
  <2> QED
    BY <1>2, <2>1, RestTypes, CatalogAssumption
       DEF EditPrivate, Idle, durable, TypeInv, TypeOK, Within
<1>3. ASSUME NEW k \in Keys, RevokeKey(k) PROVE TypeInv'
  BY <1>3, RestTypes DEF RevokeKey, Idle, durable, TypeInv, TypeOK, Within
<1>4. ASSUME NEW i \in DOMAIN staged, DamageStaged(i) PROVE TypeInv'
  <2>1. mishaps' \in 0 .. MaxMishaps /\ mishaps' = mishaps + 1
    BY <1>4, MishapTypes DEF DamageStaged, TypeInv
  <2>2. staged' \in Seq(BOOLEAN) /\ Len(staged') = Len(staged)
    BY <1>4 DEF DamageStaged, TypeInv, TypeOK
  <2> QED
    BY <1>4, <2>1, <2>2, RestTypes, CatalogAssumption
       DEF DamageStaged, Idle, TypeInv, TypeOK, Within
<1> QED BY <1>1, <1>2, <1>3, <1>4

LEMMA NextTypes ==
  ASSUME TypeInv, [Next]_vars
  PROVE  TypeInv'
<1>1. CASE VerifyChecksum
  BY <1>1, CheckTypes DEF VerifyChecksum, Points, Phases
<1>2. CASE VerifyTrust
  BY <1>2, CheckTypes DEF VerifyTrust, Points, Phases
<1>3. CASE ValidateRemaps
  BY <1>3, CheckTypes DEF ValidateRemaps, AfterRemaps, Points, Phases
<1>4. CASE UNCHANGED vars
  BY <1>4 DEF vars, TypeInv, TypeOK, Tied, Within, At, Idle, Staging
<1> QED
  BY <1>1, <1>2, <1>3, <1>4, AppendTypes, ChunkTypes, SwitchTypes, UndoTypes,
     ActivateTypes, OutsideTypes
     DEF Next, Progress

(* In every state every variable has its type.                             *)
THEOREM CatalogTypes == Spec => []TypeOK
<1>1. Init => TypeInv
  BY InitTypes
<1>2. TypeInv /\ [Next]_vars => TypeInv'
  BY NextTypes
<1>3. TypeInv => TypeOK
  BY DEF TypeInv
<1> QED BY <1>1, <1>2, <1>3, PTL DEF Spec

-----------------------------------------------------------------------------
(* What is known when the pointer is switched.                             *)

VettedInv ==
  /\ run.pc \in {"trust", "remaps", "switch"} => Whole
  /\ run.pc \in {"remaps", "switch"} => Trusted(run.catalog)
  /\ run.pc = "switch" => run.catalog \notin BadRemaps /\ PrivateUnchanged

(* A step that leaves what was vetted alone, in staging all but its phase. *)
LEMMA VettedCarries ==
  ASSUME UNCHANGED <<accepted, staged, private, revoked>>,
         run'.catalog = run.catalog, staging'.digest = staging.digest
  PROVE  /\ Whole' <=> Whole
         /\ Trusted(run.catalog)' <=> Trusted(run.catalog)
         /\ PrivateUnchanged' <=> PrivateUnchanged
BY DEF Whole, Trusted, PrivateUnchanged

LEMMA CheckVetted ==
  ASSUME TypeInv, VettedInv, VerifyChecksum \/ VerifyTrust \/ ValidateRemaps
  PROVE  VettedInv'
<1>1. ~Idle
  BY AtPoint DEF VerifyChecksum, VerifyTrust, ValidateRemaps, Check
<1>2. CASE run' = Resting
  BY <1>2, NoStagingTypes DEF VettedInv
<1>3. CASE run' # Resting
  <2>1. UNCHANGED <<accepted, staged, private, revoked>>
    BY <1>3 DEF VerifyChecksum, VerifyTrust, ValidateRemaps, Check, Refused
  <2>2. staging' = staging \/ \E phase \in Phases : Record(phase)
    BY <1>3 DEF VerifyChecksum, VerifyTrust, ValidateRemaps, Check, Refused,
       Phases
  <2>3. staging'.digest = staging.digest
    BY <1>1, <2>2, RecordTypes
  <2>4. ASSUME NEW point \in Points \ {"rest"}, Goto(point)
        PROVE  run'.pc = point /\ run'.catalog = run.catalog
    BY <1>1, <2>4, GotoTypes
  <2>5. CASE VerifyChecksum
    <3>1. run.pc = "checksum" /\ Whole /\ Goto("trust")
      BY <1>3, <2>5 DEF VerifyChecksum, Check, Refused, At
    <3>2. run'.pc = "trust" /\ run'.catalog = run.catalog
      BY <2>4, <3>1 DEF Points
    <3> QED BY <2>1, <2>3, <3>1, <3>2, VettedCarries DEF VettedInv
  <2>6. CASE VerifyTrust
    <3>1. run.pc = "trust" /\ Trusted(run.catalog) /\ Goto("remaps")
      BY <1>3, <2>6 DEF VerifyTrust, Check, Refused, At
    <3>2. run'.pc = "remaps" /\ run'.catalog = run.catalog
      BY <2>4, <3>1 DEF Points
    <3> QED BY <2>1, <2>3, <3>1, <3>2, VettedCarries DEF VettedInv
  <2>7. CASE ValidateRemaps
    <3>1. /\ run.pc = "remaps" /\ Goto(AfterRemaps)
          /\ run.catalog \notin BadRemaps /\ PrivateUnchanged
      BY <1>3, <2>7 DEF ValidateRemaps, Check, Refused, At
    <3>2. run'.pc \in {"launch", "switch"} /\ run'.catalog = run.catalog
      BY <2>4, <3>1 DEF Points, AfterRemaps
    <3> QED BY <2>1, <2>3, <3>1, <3>2, VettedCarries DEF VettedInv
  <2> QED BY <2>5, <2>6, <2>7
<1> QED BY <1>2, <1>3

(* Where an activation goes on when it is not one of the vetted points.    *)
LEMMA StepVetted ==
  ASSUME TypeInv, VettedInv, [Next]_vars,
         ~VerifyChecksum, ~VerifyTrust, ~ValidateRemaps
  PROVE  VettedInv'
<1> DEFINE Vetted == {"trust", "remaps", "switch"}
<1>1. CASE run'.pc \notin Vetted
  BY <1>1 DEF VettedInv
<1>2. CASE UNCHANGED vars
  BY <1>2, VettedCarries DEF vars, VettedInv
<1>3. CASE Next
  <2>1. CASE Idle /\ UNCHANGED run
    BY <2>1, NoStagingTypes DEF VettedInv, Idle
  <2>2. CASE run' = Resting
    BY <2>2, NoStagingTypes DEF VettedInv
  <2>3. CASE \E c \in Catalogs : Activate(c)
    <3>1. run'.pc \in {"append", "checksum"}
      BY <2>3 DEF Activate, AfterRead
    <3> QED BY <1>1, <3>1
  <2>4. CASE ~Idle /\ run' # Resting
    <3>1. \E point \in {"append", "record", "checksum", "switched", "launch",
                       "accept", "rollback", "undone", "clear"} : Goto(point)
      <4>1. EditPrivate \/ (\E k \in Keys : RevokeKey(k))
              \/ (\E i \in DOMAIN staged : DamageStaged(i))
              \/ (\E c \in Catalogs : Activate(c)) => Idle
        BY DEF EditPrivate, RevokeKey, DamageStaged, Activate
      <4>2. RecordRollback \/ ClearStaging \/ EndEarly => run' = Resting
        BY DEF RecordRollback, ClearStaging, EndEarly
      <4>3. AppendChunk \/ RecordChunk \/ RecordCopied \/ AtomicSwitch
              \/ RecordSwitch \/ LaunchSucceeds \/ LaunchFails
              \/ RollbackSwitch \/ AcceptVersion
        BY <1>3, <2>4, <4>1, <4>2 DEF Next, Progress
      <4> QED
        BY <2>4, <4>3
           DEF AppendChunk, RecordChunk, RecordCopied, AtomicSwitch,
               RecordSwitch, LaunchSucceeds, LaunchFails, RollbackSwitch,
               AcceptVersion, Refused
    <3>2. run'.pc \notin Vetted
      BY <2>4, <3>1, GotoTypes DEF Points
    <3> QED BY <1>1, <3>2
  <2>5. Idle => UNCHANGED run \/ \E c \in Catalogs : Activate(c)
    <3>1. ASSUME Idle, Progress \/ LaunchFails \/ EndEarly PROVE FALSE
      BY <3>1, NoStagingTypes
         DEF Progress, LaunchFails, EndEarly, Idle, At, AppendChunk,
             RecordChunk, RecordCopied, VerifyChecksum, VerifyTrust,
             ValidateRemaps, Check, AtomicSwitch, RecordSwitch,
             LaunchSucceeds, RollbackSwitch, RecordRollback, AcceptVersion,
             ClearStaging
    <3> QED
      BY <1>3, <3>1 DEF Next, EditPrivate, RevokeKey, DamageStaged
  <2> QED BY <2>1, <2>2, <2>3, <2>4, <2>5
<1> QED BY <1>2, <1>3

LEMMA NextVetted ==
  ASSUME TypeInv, VettedInv, [Next]_vars
  PROVE  VettedInv'
BY CheckVetted, StepVetted

LEMMA InitVetted == Init => VettedInv
BY NoStagingTypes DEF Init, VettedInv

(* The only steps that move the pointer.                                   *)
LEMMA PointerMoves ==
  ASSUME [Next]_vars, active' # active
  PROVE  \/ AtomicSwitch /\ active' = run.catalog
         \/ RollbackSwitch /\ active = run.catalog
BY DEF Next, Progress, vars, durable, AppendChunk, RecordChunk, RecordCopied,
   VerifyChecksum, VerifyTrust, ValidateRemaps, Check, Refused, AtomicSwitch,
   RecordSwitch, LaunchSucceeds, LaunchFails, RollbackSwitch, RecordRollback,
   AcceptVersion, ClearStaging, EndEarly, EditPrivate, RevokeKey,
   DamageStaged, Activate

LEMMA SwitchVetted ==
  ASSUME TypeInv, VettedInv, [Next]_vars, active' # active,
         active' = staging.catalog
  PROVE  /\ Whole
         /\ active' \notin Unsound \cup BadRemaps
         /\ Key[active'] \notin revoked
         /\ Version[active'] > accepted
         /\ private = staging.digest
<1>1. CASE AtomicSwitch /\ active' = run.catalog
  <2>1. run.pc = "switch"
    BY <1>1 DEF AtomicSwitch, At
  <2> QED BY <1>1, <2>1 DEF VettedInv, Trusted, PrivateUnchanged
<1>2. CASE RollbackSwitch /\ active = run.catalog
  BY <1>2, AtPoint DEF RollbackSwitch
<1> QED BY <1>1, <1>2, PointerMoves

(* Wherever activations end: the pointer moves to a candidate only when it *)
(* is complete, trusted and newer now, and private data are untouched.     *)
THEOREM SwitchVettedHolds == Spec => SwitchIsVetted
<1>1. Init => TypeInv /\ VettedInv
  BY InitTypes, InitVetted
<1>2. TypeInv /\ VettedInv /\ [Next]_vars => TypeInv' /\ VettedInv'
  BY NextTypes, NextVetted
<1>3. TypeInv /\ VettedInv /\ [Next]_vars =>
        [active' # active /\ active' = staging.catalog =>
           /\ Whole
           /\ active' \notin Unsound \cup BadRemaps
           /\ Key[active'] \notin revoked
           /\ Version[active'] > accepted
           /\ private = staging.digest]_vars
  BY SwitchVetted
<1> QED BY <1>1, <1>2, <1>3, PTL DEF Spec, SwitchIsVetted

-----------------------------------------------------------------------------
(* The accepted version follows the pointer.  Pending: the pointer has     *)
(* moved, or moves, to a catalog that is not confirmed.                    *)

Pending == /\ accepted = Version[staging.previous]
           /\ accepted < Version[staging.catalog]
Settled == accepted = Version[active]

FollowInv ==
  /\ run.pc \in {"append", "record"} => staging.phase = "copying"
  /\ run.pc = "switch" => staging.phase # "switched"
  /\ staging.phase # "switched" /\ run.pc # "switched" => Settled
  /\ run.pc = "switched" => /\ staging.phase # "switched"
                            /\ active = staging.catalog
                            /\ Pending
  /\ staging.phase = "switched" /\ run.pc # "undone" =>
       active = staging.catalog /\ (Pending \/ Settled)
  /\ run.pc \in {"launch", "rollback", "accept"} =>
       staging.phase = "switched" /\ Pending
  /\ run.pc = "undone" => /\ staging.phase = "switched"
                          /\ active = staging.previous
                          /\ Pending
  /\ run.pc = "clear" => staging.phase = "switched" /\ Settled

Kept == EndPoints \cap {"switched", "undone"} = {}

LEMMA FollowCarries ==
  ASSUME UNCHANGED <<active, accepted>>, staging'.catalog = staging.catalog,
         staging'.previous = staging.previous
  PROVE  (Pending' <=> Pending) /\ (Settled' <=> Settled)
BY DEF Pending, Settled

LEMMA InitFollow == Init => FollowInv
BY NoStagingTypes DEF Init, FollowInv, Settled

(* An activation that is refused or ends early.                            *)
LEMMA RestFollow ==
  ASSUME FollowInv, run' = Resting, UNCHANGED durable,
         run.pc \notin {"switched", "undone"}
  PROVE  FollowInv'
BY FollowCarries, NoStagingTypes DEF FollowInv, durable

LEMMA ActivateFollow ==
  ASSUME TypeInv, FollowInv, NEW c \in Catalogs, Activate(c)
  PROVE  FollowInv'
<1>1. run.pc = "rest" /\ UNCHANGED <<active, accepted>>
  BY NoStagingTypes DEF Activate, Idle
<1>2. /\ run'.pc = AfterRead(staging')
      /\ staging.phase # "switched" => Settled
  BY <1>1 DEF Activate, FollowInv
<1>3. CASE staging = NoStaging /\ staging' = FreshStaging(c)
  <2>1. staging'.phase = "copying" /\ Settled
    BY <1>2, <1>3, NoStagingTypes DEF FreshStaging
  <2>2. run'.pc \in {"append", "checksum"}
    BY <1>2 DEF AfterRead
  <2> QED BY <1>1, <2>1, <2>2 DEF FollowInv, Settled
<1>4. CASE UNCHANGED staging
  <2>1. staging.phase \in Phases
    BY NoStagingTypes DEF TypeInv, TypeOK, Staging, Phases
  <2>2. \/ run'.pc = "append" /\ staging.phase = "copying"
        \/ run'.pc = "checksum"
    BY <1>2, <1>4, <2>1 DEF AfterRead, Rank, Phases
  <2> QED BY <1>1, <1>4, <2>2, FollowCarries DEF FollowInv
<1> QED BY <1>3, <1>4 DEF Activate

LEMMA CopyFollow ==
  ASSUME TypeInv, FollowInv, AppendChunk \/ RecordChunk \/ RecordCopied
  PROVE  FollowInv'
<1>1. ~Idle /\ staging \in Staging /\ run.pc \in {"append", "record"}
  BY AtPoint DEF AppendChunk, RecordChunk, RecordCopied, At
<1>2. staging.phase = "copying" /\ Settled /\ UNCHANGED <<active, accepted>>
  BY <1>1 DEF FollowInv, AppendChunk, RecordChunk, RecordCopied, Refused,
     durable
<1>3. CASE run' = Resting /\ UNCHANGED durable
  BY <1>1, <1>3, RestFollow
<1>4. CASE AppendChunk /\ Goto("record") /\ UNCHANGED staging
  <2>1. run'.pc = "record"
    BY <1>1, <1>4, GotoTypes DEF Points
  <2> QED BY <1>2, <1>4, <2>1, FollowCarries DEF FollowInv
<1>5. CASE RecordChunk
  <2>1. staging'.phase = "copying"
    BY <1>1, <1>2, <1>5 DEF RecordChunk, Staging
  <2>2. run'.pc = "append"
    BY <1>1, <1>5, GotoTypes DEF RecordChunk, Points
  <2> QED BY <1>2, <2>1, <2>2 DEF FollowInv, Settled
<1>6. CASE RecordCopied
  <2>1. staging'.phase = "copied"
    BY <1>1, <1>6, RecordTypes DEF RecordCopied, Phases
  <2>2. run'.pc = "checksum"
    BY <1>1, <1>6, GotoTypes DEF RecordCopied, Points
  <2> QED BY <1>2, <2>1, <2>2 DEF FollowInv, Settled
<1> QED BY <1>3, <1>4, <1>5, <1>6 DEF AppendChunk, Refused

(* A check records a phase before the switch, or leaves the record.        *)
LEMMA CheckRecords ==
  ASSUME TypeInv, NEW point \in Points \ {"rest"}, NEW passes,
         NEW phase \in Phases \ {"switched"}, NEW next \in Points \ {"rest"},
         Check(point, passes, phase, next), run' # Resting
  PROVE  /\ passes /\ run.pc = point /\ run'.pc = next
         /\ UNCHANGED <<active, accepted>>
         /\ staging'.catalog = staging.catalog
         /\ staging'.previous = staging.previous
         /\ staging'.phase = "switched" <=> staging.phase = "switched"
         /\ staging \in Staging /\ staging' \in Staging
         /\ run'.catalog = run.catalog
<1>1. ~Idle /\ staging \in Staging
  BY AtPoint DEF Check
<1>2. passes /\ Goto(next) /\ UNCHANGED <<active, accepted>>
  BY DEF Check, Refused
<1>3. run'.pc = next /\ run.pc = point /\ run'.catalog = run.catalog
  BY <1>1, <1>2, GotoTypes DEF Check, At
<1>4. CASE UNCHANGED staging
  BY <1>1, <1>2, <1>3, <1>4
<1>5. CASE Record(phase) /\ ~Reached(phase)
  BY <1>1, <1>2, <1>3, <1>5, RecordTypes, ReachedSwitched DEF Staging
<1> QED BY <1>4, <1>5 DEF Check, Refused

LEMMA CheckFollow ==
  ASSUME TypeInv, VettedInv, FollowInv,
         VerifyChecksum \/ VerifyTrust \/ ValidateRemaps
  PROVE  FollowInv'
<1>1. run.pc \in {"checksum", "trust", "remaps"}
  BY DEF VerifyChecksum, VerifyTrust, ValidateRemaps, Check, At
<1>2. CASE run' = Resting
  <2>1. UNCHANGED durable
    <3>1. ~Idle
      BY AtPoint DEF VerifyChecksum, VerifyTrust, ValidateRemaps, Check
    <3>2. ASSUME NEW point \in Points \ {"rest"}, Goto(point) PROVE FALSE
      BY <1>2, <3>1, <3>2, GotoTypes
    <3> QED
      BY <3>2
         DEF VerifyChecksum, VerifyTrust, ValidateRemaps, AfterRemaps, Check,
             Refused, Points
  <2> QED BY <1>1, <1>2, <2>1, RestFollow
<1>3. CASE run' # Resting
  <2>1. /\ UNCHANGED <<active, accepted>>
        /\ staging'.catalog = staging.catalog
        /\ staging'.previous = staging.previous
        /\ staging'.phase = "switched" <=> staging.phase = "switched"
    BY <1>3, CheckRecords
       DEF VerifyChecksum, VerifyTrust, ValidateRemaps, AfterRemaps, Points,
           Phases
  <2>2. (Pending' <=> Pending) /\ (Settled' <=> Settled)
    BY <2>1, FollowCarries
  <2>3. CASE VerifyChecksum
    <3>1. run'.pc = "trust"
      BY <1>3, <2>3, CheckRecords DEF VerifyChecksum, Points, Phases
    <3> QED BY <1>1, <2>1, <2>2, <3>1 DEF FollowInv
  <2>4. CASE VerifyTrust
    <3>1. run'.pc = "remaps"
      BY <1>3, <2>4, CheckRecords DEF VerifyTrust, Points, Phases
    <3> QED BY <1>1, <2>1, <2>2, <3>1 DEF FollowInv
  <2>5. CASE ValidateRemaps
    <3>1. run'.pc = AfterRemaps /\ run.pc = "remaps" /\ staging \in Staging
      BY <1>3, <2>5, CheckRecords
         DEF ValidateRemaps, AfterRemaps, Points, Phases
    <3>2. CASE staging.phase = "switched"
      <4>1. run'.pc = "launch"
        BY <3>1, <3>2, ReachedSwitched DEF AfterRemaps, Staging
      <4>2. accepted < Version[run.catalog] /\ accepted \in Nat
            /\ run.catalog \in Catalogs /\ staging.catalog = run.catalog
        BY <2>5, <3>1, AtPoint, CatalogAssumption
           DEF VettedInv, Trusted, ValidateRemaps, Check, TypeInv, TypeOK
      <4>3. active = staging.catalog /\ Pending
        BY <3>1, <3>2, <4>2, CatalogAssumption DEF FollowInv, Settled
      <4> QED BY <2>1, <2>2, <3>2, <4>1, <4>3 DEF FollowInv
    <3>3. CASE staging.phase # "switched"
      <4>1. run'.pc = "switch"
        BY <3>1, <3>3, ReachedSwitched DEF AfterRemaps, Staging
      <4> QED BY <2>1, <2>2, <3>1, <3>3, <4>1 DEF FollowInv
    <3> QED BY <3>2, <3>3
  <2> QED BY <2>3, <2>4, <2>5
<1> QED BY <1>2, <1>3

LEMMA SwitchFollow ==
  ASSUME TypeInv, VettedInv, FollowInv, AtomicSwitch
  PROVE  FollowInv'
<1>1. /\ ~Idle /\ staging \in Staging /\ run.pc = "switch"
      /\ staging.catalog = run.catalog
  BY AtPoint DEF AtomicSwitch, At
<1>2. staging.phase # "switched" /\ Settled
  BY <1>1 DEF FollowInv
<1>3. CASE active = staging.previous
  <2>1. run'.pc = "switched" /\ active' = run.catalog
        /\ UNCHANGED <<accepted, staging>>
    BY <1>1, <1>3, GotoTypes DEF AtomicSwitch, Points
  <2>2. accepted < Version[run.catalog]
    BY <1>1, CatalogAssumption, AtPoint
       DEF VettedInv, Trusted, TypeInv, TypeOK, AtomicSwitch
  <2>3. Pending'
    BY <1>1, <1>2, <1>3, <2>1, <2>2 DEF Pending, Settled
  <2> QED BY <1>1, <1>2, <2>1, <2>3 DEF FollowInv
<1>4. CASE active # staging.previous
  BY <1>1, <1>4, RestFollow DEF AtomicSwitch, Refused
<1> QED BY <1>3, <1>4

LEMMA LaunchFollow ==
  ASSUME TypeInv, FollowInv, RecordSwitch \/ LaunchSucceeds \/ LaunchFails
  PROVE  FollowInv'
<1>1. ~Idle
  BY AtPoint DEF RecordSwitch, LaunchSucceeds, LaunchFails
<1>2. run'.pc \in {"launch", "rollback", "accept"}
  BY <1>1, GotoTypes DEF RecordSwitch, LaunchSucceeds, LaunchFails, Points
<1>3. CASE RecordSwitch
  <2>1. /\ run.pc = "switched" /\ UNCHANGED <<active, accepted>>
        /\ Record("switched")
    BY <1>3 DEF RecordSwitch, At
  <2>2. /\ staging'.catalog = staging.catalog /\ staging'.phase = "switched"
        /\ staging'.previous = staging.previous
    BY <1>1, <2>1, RecordTypes DEF Phases
  <2>3. active = staging.catalog /\ Pending
    BY <2>1 DEF FollowInv
  <2> QED BY <1>2, <2>1, <2>2, <2>3, FollowCarries DEF FollowInv
<1>4. CASE LaunchSucceeds \/ LaunchFails
  <2>1. run.pc = "launch" /\ UNCHANGED <<active, accepted, staging>>
    BY <1>4 DEF LaunchSucceeds, LaunchFails, At, durable
  <2>2. staging.phase = "switched" /\ active = staging.catalog /\ Pending
    BY <2>1 DEF FollowInv
  <2> QED BY <1>2, <2>1, <2>2, FollowCarries DEF FollowInv
<1> QED BY <1>3, <1>4

LEMMA UndoFollow ==
  ASSUME TypeInv, FollowInv, RollbackSwitch \/ RecordRollback
  PROVE  FollowInv'
<1>1. ~Idle /\ staging \in Staging /\ staging.catalog = run.catalog
  BY AtPoint DEF RollbackSwitch, RecordRollback
<1>2. CASE RollbackSwitch
  <2>1. run.pc = "rollback"
    BY <1>2 DEF RollbackSwitch, At
  <2>2. staging.phase = "switched" /\ active = run.catalog /\ Pending
    BY <1>1, <2>1 DEF FollowInv
  <2>3. run'.pc = "undone" /\ UNCHANGED <<accepted, staging>>
        /\ active' = staging.previous
    BY <1>1, <1>2, <2>2, GotoTypes DEF RollbackSwitch, Points
  <2> QED BY <2>2, <2>3 DEF FollowInv, Pending
<1>3. CASE RecordRollback
  <2>1. run.pc = "undone" /\ Record("rolled-back")
        /\ UNCHANGED <<active, accepted>> /\ run'.pc = "rest"
    BY <1>3, NoStagingTypes DEF RecordRollback, At
  <2>2. staging'.phase = "rolled-back"
    BY <1>1, <2>1, RecordTypes DEF Phases
  <2>3. Settled
    BY <2>1 DEF FollowInv, Pending, Settled
  <2> QED BY <2>1, <2>2, <2>3 DEF FollowInv, Settled
<1> QED BY <1>2, <1>3

LEMMA AcceptFollow ==
  ASSUME TypeInv, FollowInv, AcceptVersion \/ ClearStaging
  PROVE  FollowInv'
<1>1. ~Idle /\ staging \in Staging /\ staging.catalog = run.catalog
  BY AtPoint DEF AcceptVersion, ClearStaging
<1>2. CASE AcceptVersion
  <2>1. run.pc = "accept"
    BY <1>2 DEF AcceptVersion, At
  <2>2. staging.phase = "switched" /\ active = staging.catalog
    BY <2>1 DEF FollowInv
  <2>3. /\ run'.pc = "clear" /\ accepted' = Version[run.catalog]
        /\ UNCHANGED <<active, staging>>
    BY <1>1, <1>2, GotoTypes DEF AcceptVersion, Points
  <2> QED BY <1>1, <2>2, <2>3 DEF FollowInv, Settled
<1>3. CASE ClearStaging
  <2>1. run.pc = "clear" /\ UNCHANGED <<active, accepted>>
        /\ staging'.phase = "copying" /\ run'.pc = "rest"
    BY <1>3, NoStagingTypes DEF ClearStaging, At
  <2>2. Settled
    BY <2>1 DEF FollowInv
  <2> QED BY <2>1, <2>2 DEF FollowInv, Settled
<1> QED BY <1>2, <1>3

LEMMA OutsideFollow ==
  ASSUME Kept, TypeInv, FollowInv,
         \/ EndEarly \/ EditPrivate \/ UNCHANGED vars
         \/ \E k \in Keys : RevokeKey(k)
         \/ \E i \in DOMAIN staged : DamageStaged(i)
  PROVE  FollowInv'
<1>1. CASE EndEarly
  BY <1>1, RestFollow DEF EndEarly, Kept
<1>2. CASE UNCHANGED <<active, accepted, staging, run>>
  BY <1>2, FollowCarries DEF FollowInv
<1> QED
  BY <1>1, <1>2 DEF EditPrivate, RevokeKey, DamageStaged, durable, vars

LEMMA NextFollow ==
  ASSUME Kept, TypeInv, VettedInv, FollowInv, [Next]_vars
  PROVE  FollowInv'
BY ActivateFollow, CopyFollow, CheckFollow, SwitchFollow, LaunchFollow,
   UndoFollow, AcceptFollow, OutsideFollow
   DEF Next, Progress

CatalogInv == TypeInv /\ VettedInv /\ FollowInv

LEMMA SpecFollows ==
  ASSUME Kept
  PROVE  Spec => []CatalogInv
<1>1. Init => CatalogInv
  BY InitTypes, InitVetted, InitFollow DEF CatalogInv
<1>2. CatalogInv /\ [Next]_vars => CatalogInv'
  BY NextTypes, NextVetted, NextFollow DEF CatalogInv
<1> QED BY <1>1, <1>2, PTL DEF Spec

(* Between activations the accepted version is that of the active catalog, *)
(* unless a first launch is still to be confirmed.                         *)
THEOREM ActivationHolds ==
  ASSUME EndPoints \cap {"switched", "undone"} = {}
  PROVE  Spec => []ActivationInv
<1>1. Spec => []CatalogInv
  BY SpecFollows DEF Kept
<1>2. CatalogInv => ActivationInv
  BY NoStagingTypes
     DEF CatalogInv, TypeInv, FollowInv, Settled, Idle, ActivationInv,
         AcceptedIsActive
<1> QED BY <1>1, <1>2, PTL

(* A version is accepted only while its catalog is active: what an end     *)
(* between a rollback and its record breaks.                               *)
THEOREM AcceptedLaunchedHolds ==
  ASSUME EndPoints \cap {"switched", "undone"} = {}
  PROVE  Spec => AcceptedWasLaunched
<1>1. Spec => []CatalogInv
  BY SpecFollows DEF Kept
<1>2. CatalogInv /\ [Next]_vars =>
        [accepted' # accepted => active = run.catalog]_vars
  <2> SUFFICES ASSUME CatalogInv, [Next]_vars, accepted' # accepted
               PROVE  active = run.catalog
    OBVIOUS
  <2>1. AcceptVersion
    BY DEF Next, Progress, vars, durable, AppendChunk, RecordChunk,
       RecordCopied, VerifyChecksum, VerifyTrust, ValidateRemaps, Check,
       Refused, AtomicSwitch, RecordSwitch, LaunchSucceeds, LaunchFails,
       RollbackSwitch, RecordRollback, ClearStaging, EndEarly, EditPrivate,
       RevokeKey, DamageStaged, Activate
  <2>2. run.pc = "accept" /\ staging.catalog = run.catalog
    BY <2>1, AtPoint DEF AcceptVersion, At, CatalogInv
  <2> QED BY <2>2 DEF CatalogInv, FollowInv
<1> QED BY <1>1, <1>2, PTL DEF Spec, AcceptedWasLaunched

-----------------------------------------------------------------------------
(* The refinement of PublishedCatalog: only AcceptVersion moves what is    *)
(* confirmed.                                                              *)

LEMMA SettledConfirmed ==
  ASSUME TypeInv, Settled
  PROVE  Confirmed = active
BY CatalogAssumption DEF TypeInv, TypeOK, Settled, Confirmed

LEMMA PendingConfirmed ==
  ASSUME staging \in Staging, active = staging.catalog, Pending
  PROVE  Confirmed = staging.previous
<1>1. staging # NoStaging
  BY CatalogAssumption DEF Staging, NoStaging
<1> QED BY <1>1 DEF Pending, Confirmed

LEMMA UndoneConfirmed ==
  ASSUME TypeInv, staging \in Staging, active = staging.previous, Pending
  PROVE  Confirmed = staging.previous
BY SettledConfirmed DEF Pending, Settled

(* Three shapes of a state; at a resting one the record may be any.        *)
LEMMA Shapes ==
  ASSUME CatalogInv
  PROVE  \/ Settled
         \/ staging \in Staging /\ Pending
            /\ (active = staging.catalog \/ active = staging.previous)
<1>1. staging.phase = "switched" \/ run.pc = "switched" \/ run.pc = "undone"
        => staging \in Staging
  BY NoStagingTypes DEF CatalogInv, TypeInv, TypeOK, Tied, Idle, Resting
<1> QED BY <1>1 DEF CatalogInv, FollowInv

LEMMA ConfirmedAccepted ==
  ASSUME CatalogInv
  PROVE  accepted = Version[Confirmed] /\ Confirmed \in Catalogs
<1>1. CASE Settled
  BY <1>1, SettledConfirmed DEF Settled, CatalogInv, TypeInv, TypeOK
<1>2. CASE staging \in Staging /\ Pending
           /\ (active = staging.catalog \/ active = staging.previous)
  BY <1>2, PendingConfirmed, UndoneConfirmed
     DEF Pending, Staging, CatalogInv
<1> QED BY <1>1, <1>2, Shapes

(* A step that keeps the pointer and the names in the record, or that      *)
(* happens where no catalog waits for its launch.                          *)
LEMMA ConfirmedStays ==
  ASSUME CatalogInv, CatalogInv', UNCHANGED <<active, accepted>>,
         \/ Settled
         \/ /\ staging'.catalog = staging.catalog
            /\ staging'.previous = staging.previous
            /\ staging' \in Staging
  PROVE  UNCHANGED Confirmed
<1>1. CASE Settled
  <2>1. Settled'
    BY <1>1 DEF Settled
  <2>2. Confirmed = active
    BY <1>1, SettledConfirmed DEF CatalogInv
  <2>3. Confirmed' = active'
    BY <2>1, CatalogAssumption
       DEF CatalogInv, TypeInv, TypeOK, Settled, Confirmed
  <2> QED BY <2>2, <2>3
<1>2. CASE ~Settled
  <2>1. staging \in Staging
    BY <1>2, Shapes
  <2>2. staging # NoStaging /\ staging' # NoStaging
    BY <1>2, <2>1, CatalogAssumption DEF Staging, NoStaging
  <2> QED BY <1>2, <2>2 DEF Confirmed
<1> QED BY <1>1, <1>2

LEMMA KeepStep ==
  ASSUME CatalogInv, CatalogInv', [Next]_vars,
         ~AtomicSwitch, ~RollbackSwitch, ~AcceptVersion
  PROVE  UNCHANGED <<active, accepted>> /\ UNCHANGED Confirmed
<1>1. UNCHANGED <<active, accepted>>
  BY DEF Next, Progress, vars, durable, AppendChunk, RecordChunk, RecordCopied,
     VerifyChecksum, VerifyTrust, ValidateRemaps, Check, Refused,
     RecordSwitch, LaunchSucceeds, LaunchFails, RecordRollback, ClearStaging,
     EndEarly, EditPrivate, RevokeKey, DamageStaged, Activate
<1>2. CASE UNCHANGED staging
  <2>1. (staging' \in Staging \/ Settled)
    BY <1>2, Shapes
  <2> QED BY <1>1, <1>2, <2>1, ConfirmedStays
<1>3. CASE \E c \in Catalogs : Activate(c)
  <2>1. UNCHANGED staging \/ staging = NoStaging
    BY <1>3 DEF Activate
  <2>2. staging = NoStaging => Settled
    BY <1>3, NoStagingTypes DEF CatalogInv, FollowInv, Activate, Idle
  <2> QED BY <1>1, <1>2, <2>1, <2>2, ConfirmedStays
<1>4. CASE ClearStaging
  <2>1. Settled
    BY <1>4 DEF ClearStaging, At, CatalogInv, FollowInv
  <2> QED BY <1>1, <2>1, ConfirmedStays
<1>5. CASE ~Idle /\ \E phase \in Phases : Record(phase)
  BY <1>1, <1>5, RecordTypes, ConfirmedStays DEF CatalogInv
<1>6. CASE RecordChunk
  <2>1. staging \in Staging
    BY <1>6, AtPoint DEF RecordChunk, CatalogInv
  <2>2. /\ staging'.catalog = staging.catalog
        /\ staging'.previous = staging.previous
    BY <1>6, <2>1 DEF RecordChunk, Staging
  <2>3. staging' \in Staging
    <3>1. ~Idle' \/ run' = Resting
      BY DEF Idle
    <3>2. run'.pc = "append"
      BY <1>6, AtPoint, GotoTypes DEF RecordChunk, CatalogInv, Points
    <3> QED
      BY <3>1, <3>2, NoStagingTypes DEF CatalogInv, TypeInv, Tied
  <2> QED BY <1>1, <2>2, <2>3, ConfirmedStays
<1>7. VerifyChecksum \/ VerifyTrust \/ ValidateRemaps \/ RecordCopied
        \/ RecordSwitch \/ RecordRollback
        => UNCHANGED staging \/ (~Idle /\ \E phase \in Phases : Record(phase))
  <2>1. VerifyChecksum \/ VerifyTrust \/ ValidateRemaps \/ RecordCopied
        \/ RecordSwitch \/ RecordRollback => ~Idle
    BY AtPoint
       DEF CatalogInv, VerifyChecksum, VerifyTrust, ValidateRemaps, Check,
           RecordCopied, RecordSwitch, RecordRollback
  <2> QED
    BY <2>1
       DEF VerifyChecksum, VerifyTrust, ValidateRemaps, Check, Refused, durable,
           RecordCopied, RecordSwitch, RecordRollback, Phases
<1>8. AppendChunk \/ LaunchSucceeds \/ LaunchFails \/ EndEarly \/ EditPrivate
        \/ (\E k \in Keys : RevokeKey(k))
        \/ (\E i \in DOMAIN staged : DamageStaged(i)) \/ UNCHANGED vars
        => UNCHANGED staging
  BY DEF AppendChunk, Refused, durable, LaunchSucceeds, LaunchFails, EndEarly,
     EditPrivate, RevokeKey, DamageStaged, vars
<1> QED
  BY <1>1, <1>2, <1>3, <1>4, <1>5, <1>6, <1>7, <1>8 DEF Next, Progress

LEMMA SwitchStep ==
  ASSUME CatalogInv, CatalogInv', AtomicSwitch \/ RollbackSwitch
  PROVE  UNCHANGED accepted /\ UNCHANGED Confirmed
<1>1. ~Idle /\ staging \in Staging /\ run.catalog = staging.catalog
  BY AtPoint DEF AtomicSwitch, RollbackSwitch, CatalogInv
<1>2. CASE run' = Resting
  BY <1>1, <1>2, GotoTypes, ConfirmedStays
     DEF AtomicSwitch, RollbackSwitch, Refused, durable, CatalogInv, Points
<1>3. CASE AtomicSwitch /\ run' # Resting
  <2>1. /\ run.pc = "switch" /\ active = staging.previous
        /\ UNCHANGED <<accepted, staging>>
    BY <1>3 DEF AtomicSwitch, At, Refused
  <2>2. Settled /\ Confirmed = staging.previous
    BY <2>1, SettledConfirmed DEF CatalogInv, FollowInv
  <2>3. run'.pc = "switched"
    BY <1>1, <1>3, GotoTypes DEF AtomicSwitch, Refused, CatalogInv, Points
  <2>4. active' = staging'.catalog /\ Pending'
    BY <2>3 DEF CatalogInv, FollowInv
  <2>5. Confirmed' = staging'.previous
    <3>1. staging' # NoStaging
      BY <1>1, <2>1, CatalogAssumption DEF Staging, NoStaging
    <3> QED BY <2>4, <3>1 DEF Pending, Confirmed
  <2> QED BY <2>1, <2>2, <2>5
<1>4. CASE RollbackSwitch /\ run' # Resting
  <2>1. /\ run.pc = "rollback" /\ active = staging.catalog
        /\ active' = staging.previous /\ UNCHANGED <<accepted, staging>>
    BY <1>1, <1>4 DEF RollbackSwitch, At, Refused
  <2>2. Pending /\ Confirmed = staging.previous
    BY <1>1, <2>1, PendingConfirmed DEF CatalogInv, FollowInv
  <2>3. accepted' = Version[active'] /\ accepted' \in Nat
    BY <2>1, <2>2 DEF Pending, CatalogInv, TypeInv, TypeOK
  <2>4. Confirmed' = active'
    BY <2>3 DEF Confirmed
  <2> QED BY <2>1, <2>2, <2>4
<1> QED BY <1>2, <1>3, <1>4

LEMMA AcceptStep ==
  ASSUME CatalogInv, CatalogInv', AcceptVersion
  PROVE  Published!Publish(run.catalog) /\ run.catalog \in Catalogs
<1>1. /\ ~Idle /\ staging \in Staging /\ run.pc = "accept"
      /\ run.catalog = staging.catalog /\ run.catalog \in Catalogs
  BY AtPoint DEF AcceptVersion, At, CatalogInv
<1>2. Pending /\ active = staging.catalog
  BY <1>1 DEF CatalogInv, FollowInv
<1>3. accepted' = Version[run.catalog] /\ UNCHANGED active
  BY DEF AcceptVersion
<1>4. Confirmed' = active'
  BY <1>1, <1>2, <1>3, CatalogAssumption DEF Confirmed
<1>5. Version[run.catalog] > accepted
  BY <1>1, <1>2, CatalogAssumption DEF Pending, CatalogInv, TypeInv, TypeOK
<1> QED BY <1>1, <1>2, <1>3, <1>4, <1>5 DEF Published!Publish

(* With its chunks, checks, early ends and rollbacks an activation is the  *)
(* one step of PublishedCatalog.                                           *)
THEOREM ActivationRefines ==
  ASSUME EndPoints \cap {"switched", "undone"} = {}
  PROVE  Spec => ActivationIsAtomic
<1>1. Spec => []CatalogInv
  BY SpecFollows DEF Kept
<1>2. Init => Published!Init
  <2> SUFFICES ASSUME Init PROVE Published!Init
    OBVIOUS
  <2>1. CatalogInv
    BY InitTypes, InitVetted, InitFollow DEF CatalogInv
  <2> QED BY <2>1, ConfirmedAccepted DEF Published!Init
<1>3. CatalogInv /\ CatalogInv' /\ [Next]_vars =>
        [Published!Next]_<<Confirmed, accepted>>
  <2> SUFFICES ASSUME CatalogInv, CatalogInv', [Next]_vars
               PROVE  [Published!Next]_<<Confirmed, accepted>>
    OBVIOUS
  <2>1. CASE AcceptVersion
    BY <2>1, AcceptStep DEF Published!Next
  <2>2. CASE AtomicSwitch \/ RollbackSwitch
    BY <2>2, SwitchStep
  <2>3. CASE ~(AcceptVersion \/ AtomicSwitch \/ RollbackSwitch)
    BY <2>3, KeepStep
  <2> QED BY <2>1, <2>2, <2>3
<1> QED
  BY <1>1, <1>2, <1>3, PTL DEF Spec, ActivationIsAtomic, Published!Spec
=============================================================================
