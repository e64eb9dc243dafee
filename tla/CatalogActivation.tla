------------------------- MODULE CatalogActivation -------------------------
(***************************************************************************)
(* Activation of a reference catalog                                       *)
(* (packages/storage/src/catalog-activation.ts), with the decision of its  *)
(* trust boundary (packages/config/src/catalog-trust.ts).                  *)
(*                                                                         *)
(* A candidate is copied in chunks to a staging area, its checksum, its    *)
(* signature and its remaps are checked, the pointer to the active catalog *)
(* is switched, and after a first launch the version is accepted; a launch *)
(* that fails switches the pointer back.  The staging record says how far  *)
(* this went, and a later activation of the same candidate goes on there.  *)
(*                                                                         *)
(* Grain of atomicity.  activate() is synchronous: one activation is under *)
(* way at a time, `run`.  One step is one call to the repository that      *)
(* changes it.  At a point in EndPoints an activation may end early: by    *)
(* interruptAt, or because the process ended or the next call threw.       *)
(*                                                                         *)
(* Left out: free space, versions of app and schema and malformed          *)
(* candidates (a refusal before any call, which changes nothing), the      *)
(* unsigned development channel.                                           *)
(***************************************************************************)
EXTENDS Integers, Sequences

CONSTANTS
  Catalogs,      \* catalogs; a candidate for activation is one of them
  Shipped,       \* the catalog that is active at first
  Version,       \* catalog -> content version in its signed manifest
  Key,           \* catalog -> key of its signature
  Unsound,       \* catalogs with a wrong checksum, channel or signature
  BadRemaps,     \* catalogs whose remaps or promotion links are refused
  Keys,          \* signing keys
  NoCatalog,     \* where no catalog is
  Chunks,        \* number of chunks of a catalog
  MaxEnds,       \* bound: activations that end early
  MaxMishaps,    \* bound: damaged chunks, failed launches, private edits
  EndPoints      \* where an activation may end early

(* Where the activation is: what it checks or writes next.                 *)
Points == {"rest", "append", "record", "checksum", "trust", "remaps",
           "switch", "switched", "launch", "rollback", "undone", "accept",
           "clear"}

ASSUME CatalogAssumption ==
  /\ Shipped \in Catalogs \ (Unsound \cup BadRemaps)
  /\ NoCatalog \notin Catalogs
  /\ Version \in [Catalogs -> Nat \ {0}]
  /\ Key \in [Catalogs -> Keys]
  /\ Chunks \in Nat \ {0}
  /\ MaxEnds \in Nat /\ MaxMishaps \in Nat
  /\ EndPoints \subseteq Points

VARIABLES
  active,     \* the pointer to the active catalog
  accepted,   \* highest content version accepted
  staging,    \* the staging record
  staged,     \* the staged chunks: is each as it was signed
  private,    \* digest of the protected private data
  revoked,    \* keys that are revoked
  run,        \* the activation under way: its candidate and next call
  ends,       \* activations that ended early so far
  mishaps     \* mishaps so far

durable == <<active, accepted, staging, staged>>
vars    == <<active, accepted, staging, staged, private, revoked, run,
             ends, mishaps>>

(* Phases of the staging record, in order; 'rolled-back' is as far as      *)
(* 'remaps-validated' (reached()).                                         *)
Phases == {"copying", "copied", "checksum-verified", "compatible",
           "remaps-validated", "rolled-back", "switched"}
Rank == [p \in Phases |-> CASE p = "copying" -> 0
                            [] p = "copied" -> 1
                            [] p = "checksum-verified" -> 2
                            [] p = "compatible" -> 3
                            [] p \in {"remaps-validated", "rolled-back"} -> 4
                            [] p = "switched" -> 6]
Reached(phase) == Rank[staging.phase] >= Rank[phase]

Staging == [catalog : Catalogs, previous : Catalogs, copied : 0..Chunks,
            phase : Phases, digest : Nat]
NoStaging == [catalog |-> NoCatalog, previous |-> NoCatalog, copied |-> 0,
              phase |-> "copying", digest |-> 0]

Resting == [catalog |-> NoCatalog, pc |-> "rest"]

TypeOK ==
  /\ active \in Catalogs
  /\ accepted \in Nat
  /\ staging \in Staging \cup {NoStaging}
  /\ staged \in Seq(BOOLEAN) /\ Len(staged) <= Chunks
  /\ private \in 0..MaxMishaps
  /\ revoked \in SUBSET Keys
  /\ run \in [catalog : Catalogs, pc : Points \ {"rest"}] \cup {Resting}
  /\ ends \in 0..MaxEnds
  /\ mishaps \in 0..MaxMishaps

Init ==
  /\ active = Shipped
  /\ accepted = Version[Shipped]
  /\ staging = NoStaging
  /\ staged = <<>>
  /\ private = 0
  /\ revoked = {}
  /\ run = Resting
  /\ ends = 0
  /\ mishaps = 0

Idle == run = Resting
At(point) == run.pc = point
Goto(point) == run' = [run EXCEPT !.pc = point]
Record(phase) == staging' = [staging EXCEPT !.phase = phase]
Mishap == mishaps < MaxMishaps /\ mishaps' = mishaps + 1
NoMishap == UNCHANGED mishaps

(* An activation that throws leaves the repository as it is.               *)
Refused == /\ run' = Resting
           /\ UNCHANGED durable

-----------------------------------------------------------------------------
(* The repository between activations.                                     *)

(* The user's private data changes.                                        *)
EditPrivate ==
  /\ Idle /\ Mishap
  /\ private' = private + 1
  /\ UNCHANGED <<durable, revoked, run, ends>>

RevokeKey(k) ==
  /\ Idle
  /\ revoked' = revoked \cup {k}
  /\ UNCHANGED <<durable, private, run, ends, mishaps>>

(* A chunk in the staging area is damaged.                                 *)
DamageStaged(i) ==
  /\ Idle /\ Mishap
  /\ staged' = [staged EXCEPT ![i] = FALSE]
  /\ UNCHANGED <<active, accepted, staging, private, revoked, run, ends>>

-----------------------------------------------------------------------------
(* activate(candidate): one step per call that changes the repository.     *)

(* Where an activation goes on: the copy, unless the record is past it.    *)
AfterRead(record) == IF Rank[record.phase] < Rank["copied"] THEN "append"
                     ELSE "checksum"

FreshStaging(c) == [catalog |-> c, previous |-> active, copied |-> 0,
                    phase |-> "copying", digest |-> private]

(* A new staging record, or the one of an earlier activation of the same   *)
(* candidate with the same private data; any other is refused.             *)
Activate(c) ==
  /\ Idle
  /\ \/ /\ staging = NoStaging
        /\ staging' = FreshStaging(c)
        /\ staged' = <<>>
     \/ /\ staging.catalog = c /\ staging.digest = private
        /\ UNCHANGED <<staging, staged>>
  /\ run' = [catalog |-> c, pc |-> AfterRead(staging')]
  /\ UNCHANGED <<active, accepted, private, revoked, ends, mishaps>>

(* appendStaging refuses an offset that is not the length so far.  The     *)
(* bytes handed in may not be those of the checksum.                       *)
AppendChunk ==
  /\ At("append") /\ staging.copied < Chunks
  /\ IF Len(staged) = staging.copied
     THEN /\ \/ staged' = Append(staged, TRUE) /\ NoMishap
             \/ staged' = Append(staged, FALSE) /\ Mishap
          /\ Goto("record")
          /\ UNCHANGED <<active, accepted, staging>>
     ELSE Refused /\ NoMishap
  /\ UNCHANGED <<private, revoked, ends>>

RecordChunk ==
  /\ At("record")
  /\ staging' = [staging EXCEPT !.copied = @ + 1]
  /\ Goto("append")
  /\ UNCHANGED <<active, accepted, staged, private, revoked, ends, mishaps>>

RecordCopied ==
  /\ At("append") /\ staging.copied = Chunks
  /\ Record("copied")
  /\ Goto("checksum")
  /\ UNCHANGED <<active, accepted, staged, private, revoked, ends, mishaps>>

(* A check that every activation repeats and that throws when it fails;    *)
(* the record only ever moves forward.                                     *)
Check(point, passes, phase, next) ==
  /\ At(point)
  /\ IF passes
     THEN /\ IF Reached(phase) THEN UNCHANGED staging ELSE Record(phase)
          /\ Goto(next)
          /\ UNCHANGED <<active, accepted, staged>>
     ELSE Refused
  /\ UNCHANGED <<private, revoked, ends, mishaps>>

Whole == Len(staged) = Chunks /\ \A i \in 1..Chunks : staged[i]

(* Mutant: a checksum that was verified once is not verified again.        *)
VerifyChecksumOnce ==
  Check("checksum", Whole \/ Reached("checksum-verified"),
        "checksum-verified", "trust")

VerifyChecksum == Check("checksum", Whole, "checksum-verified", "trust")

(* Mutant: without the anti-replay version.                                *)
TrustedAnyVersion(c) == c \notin Unsound /\ Key[c] \notin revoked

(* verifyCatalogCandidate, and what it returns compared with the candidate *)
(* and with the staged bytes.                                              *)
Trusted(c) == /\ c \notin Unsound
              /\ Key[c] \notin revoked
              /\ Version[c] > accepted

VerifyTrust == Check("trust", Trusted(run.catalog), "compatible", "remaps")

PrivateUnchanged == private = staging.digest

(* Mutant: the switch is repeated when it is done.                         *)
SwitchAgain == "switch"

AfterRemaps == IF Reached("switched") THEN "launch" ELSE "switch"

ValidateRemaps ==
  Check("remaps", run.catalog \notin BadRemaps /\ PrivateUnchanged,
        "remaps-validated", AfterRemaps)

(* The compare-and-swap of the pointer; the storage adapter might touch    *)
(* private data while it does it.                                          *)
AtomicSwitch ==
  /\ At("switch")
  /\ IF active = staging.previous
     THEN /\ active' = run.catalog
          /\ \/ UNCHANGED private /\ NoMishap
             \/ private' = private + 1 /\ Mishap
          /\ Goto("switched")
          /\ UNCHANGED <<accepted, staging, staged>>
     ELSE Refused /\ UNCHANGED private /\ NoMishap
  /\ UNCHANGED <<revoked, ends>>

RecordSwitch ==
  /\ At("switched")
  /\ Record("switched")
  /\ Goto(IF PrivateUnchanged THEN "launch" ELSE "rollback")
  /\ UNCHANGED <<active, accepted, staged, private, revoked, ends, mishaps>>

(* The first launch with the new catalog succeeds, or fails or is cut off. *)
LaunchSucceeds ==
  /\ At("launch")
  /\ Goto("accept")
  /\ UNCHANGED <<durable, private, revoked, ends, mishaps>>

LaunchFails ==
  /\ At("launch") /\ Mishap
  /\ Goto("rollback")
  /\ UNCHANGED <<durable, private, revoked, ends>>

RollbackSwitch ==
  /\ At("rollback")
  /\ IF active = run.catalog
     THEN /\ active' = staging.previous
          /\ Goto("undone")
          /\ UNCHANGED <<accepted, staging, staged>>
     ELSE Refused
  /\ UNCHANGED <<private, revoked, ends, mishaps>>

(* Mutant: the record still says that the pointer is switched.             *)
RollbackUnrecorded ==
  /\ At("undone")
  /\ run' = Resting
  /\ UNCHANGED <<durable, private, revoked, ends, mishaps>>

RecordRollback ==
  /\ At("undone")
  /\ Record("rolled-back")
  /\ run' = Resting
  /\ UNCHANGED <<active, accepted, staged, private, revoked, ends, mishaps>>

AcceptVersion ==
  /\ At("accept")
  /\ accepted' = Version[run.catalog]
  /\ Goto("clear")
  /\ UNCHANGED <<active, staging, staged, private, revoked, ends, mishaps>>

ClearStaging ==
  /\ At("clear")
  /\ staging' = NoStaging
  /\ staged' = <<>>
  /\ run' = Resting
  /\ UNCHANGED <<active, accepted, private, revoked, ends, mishaps>>

(* The activation ends before its next call.                               *)
EndEarly ==
  /\ run.pc \in EndPoints \ {"rest"}
  /\ ends < MaxEnds
  /\ ends' = ends + 1
  /\ run' = Resting
  /\ UNCHANGED <<durable, private, revoked, mishaps>>

-----------------------------------------------------------------------------

Progress ==
  \/ AppendChunk \/ RecordChunk \/ RecordCopied
  \/ VerifyChecksum \/ VerifyTrust \/ ValidateRemaps
  \/ AtomicSwitch \/ RecordSwitch \/ LaunchSucceeds
  \/ RollbackSwitch \/ RecordRollback \/ AcceptVersion \/ ClearStaging

Next ==
  \/ Progress
  \/ \E c \in Catalogs : Activate(c)
  \/ LaunchFails
  \/ EndEarly
  \/ EditPrivate
  \/ \E k \in Keys : RevokeKey(k)
  \/ \E i \in DOMAIN staged : DamageStaged(i)

Spec == Init /\ [][Next]_vars

(* The calls of an activation follow each other, and a candidate that was  *)
(* not activated is offered again.                                         *)
FairSpec == /\ Spec
            /\ WF_vars(Progress)
            /\ \A c \in Catalogs : WF_vars(Activate(c))

-----------------------------------------------------------------------------
(* Properties.                                                             *)

(* Unless a first launch is still to be confirmed, the version that is     *)
(* accepted is that of the active catalog between activations: a launch    *)
(* that failed was undone completely, one that succeeded was kept          *)
(* completely, however often the candidate was interrupted, resumed,       *)
(* rolled back and tried again.                                            *)
AcceptedIsActive ==
  Idle /\ staging.phase # "switched" => accepted = Version[active]

(* Every variable has its type, and between activations the accepted      *)
(* version is that of the active catalog (AcceptedIsActive).               *)
ActivationInv == TypeOK /\ AcceptedIsActive

(* The pointer moves to a candidate only when all of its bytes, also those *)
(* that an earlier activation copied, are as signed, its key has not been  *)
(* revoked since the copy began, no newer catalog was accepted meanwhile,  *)
(* and the private data are those from before the copy.                    *)
SwitchIsVetted ==
  [][active' # active /\ active' = staging.catalog =>
       /\ Whole
       /\ active' \notin Unsound \cup BadRemaps
       /\ Key[active'] \notin revoked
       /\ Version[active'] > accepted
       /\ private = staging.digest]_vars

(* The catalog that may be relied on: the previous one until the first     *)
(* launch of the new one is confirmed.                                     *)
Confirmed == IF staging # NoStaging /\ active = staging.catalog
                  /\ accepted < Version[active]
             THEN staging.previous ELSE active

(* An activation, with its chunks, checks, interruptions and rollbacks,    *)
(* implements the one step of PublishedCatalog.                            *)
Published == INSTANCE PublishedCatalog WITH shown <- Confirmed,
                                            floor <- accepted
ActivationIsAtomic == Published!Spec

(* A version is accepted only while its catalog is the active one, that    *)
(* is, after a first launch with it.                                       *)
AcceptedWasLaunched ==
  [][accepted' # accepted => active = run.catalog]_vars

(* An interrupted copy of a sound candidate is not a dead end: it becomes  *)
(* active when it is offered again, unless its bytes were damaged, its key *)
(* revoked, or private data changed after the copy began.                  *)
Resumable(c) == /\ staging.catalog = c
                /\ c \notin Unsound \cup BadRemaps
                /\ Version[c] > accepted
InterruptedActivates ==
  \A c \in Catalogs :
    Resumable(c) ~> \/ active = c /\ accepted = Version[c]
                    \/ \E i \in DOMAIN staged : ~staged[i]
                    \/ Key[c] \in revoked
                    \/ private # staging.digest
=============================================================================
