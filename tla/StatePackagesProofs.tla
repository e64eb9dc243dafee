------------------------ MODULE StatePackagesProofs ------------------------
(***************************************************************************)
(* The safety properties of StatePackages, for any states, contents,       *)
(* dates, revisions and faults.                                            *)
(*                                                                         *)
(* None is inductive alone.  What they rest on, in the order it is proved: *)
(*   TypeInv    an install under way has a content;                        *)
(*   FloorInv   the registry about to be published is under the floor too; *)
(*   NamesInv   every version named is of its state and has an authority;  *)
(*              an install under way was authorized;                       *)
(*   ShapeInv   which registry an operation works on, by where it is;      *)
(*   SoundInv   what is read or about to be published has its files, or    *)
(*              lost them to a damage; an install clears no whole map;     *)
(*   SavingInv  what publishing changes of the maps in use;                *)
(*   CopyInv    what the copy restores, from the clean-up of one operation *)
(*              to the next.                                               *)
(***************************************************************************)
EXTENDS StatePackages, TLAPS

InstallPoints == {"clear", "place", "extract", "tiles", "accept"}

InstallHasPin == op.pc \in InstallPoints => op.pin \in Candidates

TypeInv == TypeOK /\ InstallHasPin

FloorInv == FloorCovers /\ Covered(op.entries)

-----------------------------------------------------------------------------
(* Types of what the operations are built from.                            *)

LEMMA NoEntryType == NoPin \in Pin /\ NoEntry \in Entry
BY DEF NoPin, NoEntry, Pin, Entry, ContentOrNone

LEMMA EmptyType == EmptyRegistry \in Registry /\ NoFile \in RegistryFile
                   /\ Resting \in Operation
BY NoEntryType
DEF EmptyRegistry, Registry, NoFile, RegistryFile, Resting, Operation,
    OpKinds, OpPoints

LEMMA RestingPoint == Resting.pc \notin InstallPoints
BY DEF Resting, InstallPoints

LEMMA EntriesType == ASSUME TypeOK PROVE Entries \in Registry
BY EmptyType DEF TypeOK, Entries, RegistryFile

LEMMA CheckedType ==
  ASSUME NEW entry \in Entry PROVE Checked(entry) \in Entry
<1>1. VerifiedPrevious(entry) \in Pin
  BY NoEntryType DEF VerifiedPrevious, Entry
<1> QED
  BY <1>1, NoEntryType DEF Checked, Entry

LEMMA ReplacementType ==
  ASSUME NEW pin \in Pin, NEW replaced \in Entry
  PROVE  Replacement(pin, replaced) \in Entry
BY NoEntryType DEF Replacement, Entry

LEMMA ReferencedType == ASSUME NEW registry PROVE Referenced(registry) \subseteq Contents
BY DEF Referenced

LEMMA BeginType ==
  ASSUME NEW kind \in OpKinds, NEW pc \in OpPoints, NEW pin \in Pin,
         NEW registry \in Registry, NEW retired \in SUBSET Contents,
         Begin(kind, pc, pin, registry, retired)
  PROVE  op' \in Operation /\ op'.pc = pc /\ op'.pin = pin
BY DEF Begin, Operation

-----------------------------------------------------------------------------
(* The type invariant.                                                     *)

LEMMA InitTyped == Init => TypeInv
<1> SUFFICES ASSUME Init PROVE TypeInv
  OBVIOUS
<1>1. active \in RegistryFile /\ backup \in RegistryFile /\ op \in Operation
  BY EmptyType DEF Init
<1>2. floor \in [States -> ContentOrNone]
  BY DEF Init, ContentOrNone
<1>3. op.pc \notin InstallPoints
  BY RestingPoint DEF Init
<1> QED
  BY <1>1, <1>2, <1>3 DEF Init, TypeInv, TypeOK, InstallHasPin

LEMMA RequestTyped == TypeInv /\ Request => TypeInv'
<1> SUFFICES ASSUME TypeInv, Request PROVE TypeInv'
  OBVIOUS
<1> USE DEF TypeInv
<1>0. Entries \in Registry
  BY EntriesType
<1>1. CASE Load
  <2>1. PICK pc \in {"backup", "discard"} :
          Begin("load", pc, NoPin, [s \in States |-> Checked(Entries[s])], {})
    BY <1>1 DEF Load
  <2>2. [s \in States |-> Checked(Entries[s])] \in Registry
    BY <1>0, CheckedType DEF Registry
  <2>3. op' \in Operation
    BY <2>1, <2>2, NoEntryType, BeginType DEF OpKinds, OpPoints
  <2>4. op'.pc \notin InstallPoints
    BY <2>1 DEF Begin, InstallPoints
  <2>5. recovered' \in BOOLEAN /\ rotten' \in SUBSET Contents
    BY <1>1 DEF Load, TypeOK, FallsBack
  <2> QED
    BY <1>1, <2>3, <2>4, <2>5
    DEF Load, TypeOK, InstallHasPin, files, keychain
<1>2. CASE ApproveSigner \/ RevokeSigner
  BY <1>2 DEF ApproveSigner, RevokeSigner, TypeOK, InstallHasPin, files
<1>3. ASSUME NEW pin \in Candidates, Install(pin) PROVE TypeInv'
  <2>1. Begin("install", "clear", pin, Entries, {})
    BY <1>3 DEF Install
  <2>2. op' \in Operation
    BY <1>0, <2>1, BeginType
    DEF OpKinds, OpPoints, Candidates, Pin, ContentOrNone
  <2>3. op'.pin \in Candidates
    BY <2>1 DEF Begin
  <2>4. recovered' \in BOOLEAN
    BY <1>3 DEF Install, TypeOK, FallsBack
  <2> QED
    BY <1>3, <2>2, <2>3, <2>4 DEF Install, TypeOK, InstallHasPin, files, keychain
<1>4. ASSUME NEW s \in States, Remove(s) PROVE TypeInv'
  <2>1. [Entries EXCEPT ![s] = NoEntry] \in Registry
    BY <1>0, NoEntryType DEF Registry
  <2>2. {Entries[s].current.content, Entries[s].previous.content}
          \ {NoContent} \subseteq Contents
    BY <1>0 DEF Registry, Entry, Pin, ContentOrNone
  <2>3. op' \in Operation /\ op'.pc \notin InstallPoints
    BY <1>4, <2>1, <2>2, NoEntryType, BeginType
    DEF Remove, Begin, OpKinds, OpPoints, InstallPoints
  <2>4. recovered' \in BOOLEAN
    BY <1>4 DEF Remove, TypeOK, FallsBack
  <2> QED
    BY <1>4, <2>3, <2>4 DEF Remove, TypeOK, InstallHasPin, files, keychain
<1>5. ASSUME NEW s \in States, Rollback(s) PROVE TypeInv'
  <2>1. [Entries EXCEPT ![s].current = Entries[s].previous,
                        ![s].previous = Entries[s].current,
                        ![s].quarantined = FALSE] \in Registry
    <3> DEFINE once == [Entries EXCEPT ![s].current = Entries[s].previous]
               twice == [once EXCEPT ![s].previous = Entries[s].current]
    <3>1. once \in Registry
      BY <1>0 DEF Registry, Entry
    <3>2. twice \in Registry
      <4> HIDE DEF once
      <4> QED
        BY <1>0, <3>1 DEF Registry, Entry
    <3>3. [twice EXCEPT ![s].quarantined = FALSE] \in Registry
      <4> HIDE DEF twice
      <4> QED
        BY <3>2 DEF Registry, Entry
    <3> QED
      BY <3>3
  <2>2. op' \in Operation /\ op'.pc \notin InstallPoints
    <3>1. Begin("rollback", "backup", NoPin,
                [Entries EXCEPT ![s].current = Entries[s].previous,
                                ![s].previous = Entries[s].current,
                                ![s].quarantined = FALSE], {})
      BY <1>5 DEF Rollback
    <3> QED
      BY <2>1, <3>1, NoEntryType, BeginType
      DEF OpKinds, OpPoints, InstallPoints
  <2>3. recovered' \in BOOLEAN
    BY <1>5 DEF Rollback, TypeOK, FallsBack
  <2> QED
    BY <1>5, <2>2, <2>3 DEF Rollback, TypeOK, InstallHasPin, files, keychain
<1>6. ASSUME NEW s \in States, ToggleVisibility(s) PROVE TypeInv'
  <2>1. [Entries EXCEPT ![s].visible = ~@] \in Registry
    BY <1>0 DEF Registry, Entry
  <2>2. op' \in Operation /\ op'.pc \notin InstallPoints
    <3>1. Begin("visibility", "backup", NoPin,
                [Entries EXCEPT ![s].visible = ~@], {})
      BY <1>6 DEF ToggleVisibility
    <3> QED
      BY <2>1, <3>1, NoEntryType, BeginType
      DEF OpKinds, OpPoints, InstallPoints
  <2>3. recovered' \in BOOLEAN
    BY <1>6 DEF ToggleVisibility, TypeOK, FallsBack
  <2> QED
    BY <1>6, <2>2, <2>3
    DEF ToggleVisibility, TypeOK, InstallHasPin, files, keychain
<1> QED
  BY <1>1, <1>2, <1>3, <1>4, <1>5, <1>6 DEF Request

LEMMA StepTyped == TypeInv /\ Step => TypeInv'
<1> SUFFICES ASSUME TypeInv, Step PROVE TypeInv'
  OBVIOUS
<1> USE DEF TypeInv
<1>0. ASSUME NEW pc \in OpPoints, Advance(pc)
      PROVE  op' \in Operation /\ op'.pc = pc /\ op'.pin = op.pin
  BY <1>0 DEF Advance, TypeOK, Operation
<1>1. op.pc \in InstallPoints => op.pin.content \in Contents /\ op.pin \in Pin
  BY DEF InstallHasPin, Candidates, Pin, ContentOrNone
<1>2. CASE ClearCatalog \/ PlaceCatalog \/ ClearTiles \/ PlaceTiles
  <2>1. op' \in Operation /\ op'.pin = op.pin /\ op.pc \in InstallPoints
    BY <1>2, <1>0
    DEF ClearCatalog, PlaceCatalog, ClearTiles, PlaceTiles, OpPoints,
        InstallPoints
  <2> QED
    BY <1>1, <1>2, <2>1
    DEF ClearCatalog, PlaceCatalog, ClearTiles, PlaceTiles, TypeOK,
        InstallHasPin, keychain
<1>3. CASE AcceptUpdate
  <2> DEFINE c == op.pin.content
             s == StateOf[c]
  <2>1. c \in Contents /\ s \in States /\ op.pin \in Pin
    BY <1>1, <1>3, ConstantsAssumption DEF AcceptUpdate, InstallPoints
  <2>2. op.entries \in Registry
    BY DEF TypeOK, Operation
  <2>3. Replacement(op.pin, op.entries[s]) \in Entry
    BY <2>1, <2>2, ReplacementType DEF Registry
  <2>4. op' = [op EXCEPT !.pc = "backup",
                         !.entries[s] = Replacement(op.pin, op.entries[s])]
    BY <1>3 DEF AcceptUpdate
  <2>5. op' \in Operation
    BY <2>2, <2>3, <2>4 DEF TypeOK, Operation, OpPoints, Registry
  <2>6. op'.pc \notin InstallPoints
    BY <2>4 DEF TypeOK, Operation, InstallPoints
  <2>7. floor' \in [States -> ContentOrNone]
    BY <1>3, <2>1 DEF AcceptUpdate, RaisedFloor, TypeOK, ContentOrNone
  <2>8. rotten' \in SUBSET Contents
    BY <1>3 DEF AcceptUpdate, TypeOK
  <2> QED
    BY <1>3, <2>5, <2>6, <2>7, <2>8
    DEF AcceptUpdate, TypeOK, InstallHasPin, files
<1>4. CASE InstallRefused
  <2>1. op' \in Operation /\ op'.pc \notin InstallPoints
    BY <1>4, EmptyType, RestingPoint DEF InstallRefused
  <2> QED
    BY <1>4, <2>1 DEF InstallRefused, DeleteSome, TypeOK, InstallHasPin, keychain
<1>5. CASE KeepCopy
  <2>1. op' \in Operation /\ op'.pc \notin InstallPoints
    BY <1>5, <1>0 DEF KeepCopy, OpPoints, InstallPoints
  <2> QED
    BY <1>5, <2>1 DEF KeepCopy, TypeOK, InstallHasPin, keychain
<1>6. CASE Publish
  <2>1. op' \in Operation /\ op'.pc \notin InstallPoints
    BY <1>6, <1>0 DEF Publish, OpPoints, InstallPoints
  <2>2. active' \in RegistryFile
    BY <1>6 DEF Publish, TypeOK, Operation, RegistryFile
  <2> QED
    BY <1>6, <2>1, <2>2 DEF Publish, TypeOK, InstallHasPin, keychain
<1>7. CASE EnsureCopy
  <2>1. op' \in Operation /\ op'.pc \notin InstallPoints
    BY <1>7, <1>0 DEF EnsureCopy, OpPoints, InstallPoints
  <2> QED
    BY <1>7, <2>1 DEF EnsureCopy, FirstCopy, TypeOK, InstallHasPin, keychain
<1>8. CASE Discard
  <2>1. op' \in Operation /\ op'.pc \notin InstallPoints
    BY <1>8, EmptyType, RestingPoint DEF Discard
  <2>2. loaded' \in BOOLEAN
    BY <1>8 DEF Discard, TypeOK, CanList
  <2> QED
    BY <1>8, <2>1, <2>2 DEF Discard, DeleteSome, TypeOK, InstallHasPin, keychain
<1> QED
  BY <1>2, <1>3, <1>4, <1>5, <1>6, <1>7, <1>8 DEF Step

LEMMA EnvironmentTyped == TypeInv /\ Environment => TypeInv'
<1> SUFFICES ASSUME TypeInv, Environment PROVE TypeInv'
  OBVIOUS
<1> USE DEF TypeInv, TypeOK, Fault
<1>1. CASE WriteFails
  <2>1. op' \in Operation /\ op'.pc \notin InstallPoints
    BY <1>1, EmptyType, RestingPoint DEF WriteFails
  <2> QED
    BY <1>1, <2>1 DEF WriteFails, DeleteSome, FirstCopy, InstallHasPin, keychain
<1>2. CASE Relaunch
  <2>1. op' \in Operation /\ op'.pc \notin InstallPoints
    BY <1>2, EmptyType, RestingPoint DEF Relaunch
  <2>2. loaded' \in BOOLEAN /\ recovered' \in BOOLEAN
    BY <1>2 DEF Relaunch
  <2>3. faults' \in Nat /\ UNCHANGED <<files, keychain, rotten>>
    BY <1>2 DEF Relaunch
  <2> QED
    BY <2>1, <2>2, <2>3 DEF InstallHasPin, files, keychain
<1>3. CASE RegistryDamaged
  <2>1. active' \in RegistryFile
    BY <1>3, EmptyType DEF RegistryDamaged, RegistryFile
  <2> QED
    BY <1>3, <2>1 DEF RegistryDamaged, InstallHasPin, keychain
<1>4. ASSUME NEW c \in Contents, Rot(c) PROVE TypeInv'
  BY <1>4 DEF Rot, InstallHasPin, keychain
<1> QED
  BY <1>1, <1>2, <1>3, <1>4 DEF Environment

(* Every reachable state is well typed, and an install under way has a     *)
(* content of the catalog.                                                 *)
THEOREM TypeInvariant == Spec => []TypeInv
<1>1. TypeInv /\ [Next]_vars => TypeInv'
  <2>1. TypeInv /\ UNCHANGED vars => TypeInv'
    BY DEF TypeInv, TypeOK, InstallHasPin, vars
  <2> QED
    BY <2>1, RequestTyped, StepTyped, EnvironmentTyped DEF Next
<1> QED
  BY <1>1, InitTyped, PTL DEF Spec

(* The type invariant the runs check.                                      *)
THEOREM TypesHold == Spec => []TypeOK
BY TypeInvariant, PTL DEF TypeInv

-----------------------------------------------------------------------------
(* The floor covers every registry.                                        *)

LEMMA EmptyCovered == Covered(EmptyRegistry) /\ Covered(Resting.entries)
BY DEF Covered, EmptyRegistry, NoEntry, NoPin, UnderFloor, Resting

LEMMA EntriesCovered == ASSUME FloorInv PROVE Covered(Entries)
BY EmptyCovered DEF FloorInv, FloorCovers, Entries

(* Dropping a version, or taking one for the other, needs no new floor.    *)
LEMMA CheckedCovered ==
  ASSUME NEW entry \in Entry, UnderFloor(entry.current),
         UnderFloor(entry.previous)
  PROVE  UnderFloor(Checked(entry).current) /\ UnderFloor(Checked(entry).previous)
<1>1. UnderFloor(NoPin)
  BY DEF UnderFloor, NoPin
<1>2. UnderFloor(VerifiedPrevious(entry))
  BY <1>1 DEF VerifiedPrevious
<1> QED
  BY <1>1, <1>2 DEF Checked, Entry

(* A floor that rises covers what it covered before.                       *)
LEMMA FloorRises ==
  ASSUME TypeOK, NEW c \in Contents, AboveFloor(c),
         floor' = RaisedFloor(StateOf[c], c),
         NEW pin, UnderFloor(pin)
  PROVE  UnderFloor(pin)'
<1> SUFFICES ASSUME pin.signed
             PROVE  UnderFloor(pin)'
  BY DEF UnderFloor
<1> DEFINE d == pin.content
<1>1. d \in Contents /\ floor[StateOf[d]] # NoContent
      /\ Revision[d] <= Revision[floor[StateOf[d]]]
  BY DEF UnderFloor
<1>2. StateOf[c] \in States /\ StateOf[d] \in States /\ c # NoContent
      /\ Revision[c] \in Nat /\ Revision[d] \in Nat
  BY <1>1, ConstantsAssumption
<1>3. floor'[StateOf[d]] = IF StateOf[d] = StateOf[c] THEN c
                           ELSE floor[StateOf[d]]
  BY <1>2 DEF RaisedFloor, TypeOK
<1>4. CASE StateOf[d] = StateOf[c]
  <2>1. floor[StateOf[d]] \in Contents
    BY <1>1, <1>2 DEF TypeOK, ContentOrNone
  <2>2. Revision[floor[StateOf[d]]] \in Nat
    BY <2>1, ConstantsAssumption
  <2>3. Revision[d] <= Revision[c]
    BY <1>1, <1>2, <1>4, <2>2 DEF AboveFloor
  <2> QED
    BY <1>1, <1>2, <1>3, <1>4, <2>3 DEF UnderFloor
<1>5. CASE StateOf[d] # StateOf[c]
  BY <1>1, <1>3, <1>5 DEF UnderFloor
<1> QED
  BY <1>4, <1>5

LEMMA RequestCovered == TypeOK /\ FloorInv /\ Request => FloorInv'
<1> SUFFICES ASSUME TypeOK, FloorInv, Request PROVE FloorInv'
  OBVIOUS
<1>0. Entries \in Registry /\ Covered(Entries)
  BY EntriesType, EntriesCovered
<1>a. ASSUME NEW kind, NEW pc, NEW pin, NEW registry, NEW retired,
             Begin(kind, pc, pin, registry, retired), Covered(registry),
             UNCHANGED <<active, backup, floor>>
      PROVE  FloorInv'
  BY <1>a DEF Begin, FloorInv, FloorCovers, Covered, UnderFloor
<1>b. UnderFloor(NoPin)
  BY DEF UnderFloor, NoPin
<1>1. CASE Load
  <2>1. Covered([s \in States |-> Checked(Entries[s])])
    BY <1>0, CheckedCovered DEF Covered, Registry
  <2>2. \E pc : Begin("load", pc, NoPin,
                      [s \in States |-> Checked(Entries[s])], {})
    BY <1>1 DEF Load
  <2> QED
    BY <1>1, <1>a, <2>1, <2>2 DEF Load, files, keychain
<1>2. CASE ApproveSigner \/ RevokeSigner
  BY <1>2
  DEF ApproveSigner, RevokeSigner, files, FloorInv, FloorCovers, Covered,
      UnderFloor
<1>3. ASSUME NEW pin \in Candidates, Install(pin) PROVE FloorInv'
  BY <1>0, <1>3, <1>a DEF Install, files, keychain
<1>4. ASSUME NEW s \in States, Remove(s) PROVE FloorInv'
  <2>1. Covered([Entries EXCEPT ![s] = NoEntry])
    BY <1>0, <1>b DEF Covered, Registry, NoEntry
  <2> QED
    BY <1>4, <1>a, <2>1 DEF Remove, files, keychain
<1>5. ASSUME NEW s \in States, Rollback(s) PROVE FloorInv'
  <2> DEFINE swapped == [Entries EXCEPT ![s].current = Entries[s].previous,
                                        ![s].previous = Entries[s].current,
                                        ![s].quarantined = FALSE]
  <2>1. \A t \in States :
          /\ swapped[t].current \in {Entries[t].current, Entries[t].previous}
          /\ swapped[t].previous \in {Entries[t].current, Entries[t].previous}
    BY <1>0 DEF Registry, Entry
  <2>2. Covered(swapped)
    BY <1>0, <2>1 DEF Covered
  <2>3. Begin("rollback", "backup", NoPin, swapped, {})
    BY <1>5 DEF Rollback
  <2> HIDE DEF swapped
  <2> QED
    BY <1>5, <1>a, <2>2, <2>3 DEF Rollback, files, keychain
<1>6. ASSUME NEW s \in States, ToggleVisibility(s) PROVE FloorInv'
  <2> DEFINE toggled == [Entries EXCEPT ![s].visible = ~@]
  <2>1. \A t \in States : /\ toggled[t].current = Entries[t].current
                          /\ toggled[t].previous = Entries[t].previous
    BY <1>0 DEF Registry, Entry
  <2>2. Covered(toggled)
    BY <1>0, <2>1 DEF Covered
  <2>3. Begin("visibility", "backup", NoPin, toggled, {})
    BY <1>6 DEF ToggleVisibility
  <2> HIDE DEF toggled
  <2> QED
    BY <1>6, <1>a, <2>2, <2>3 DEF ToggleVisibility, files, keychain
<1> QED
  BY <1>1, <1>2, <1>3, <1>4, <1>5, <1>6 DEF Request

LEMMA AcceptCovered == TypeInv /\ FloorInv /\ AcceptUpdate => FloorInv'
<1> SUFFICES ASSUME TypeInv, FloorInv, AcceptUpdate PROVE FloorInv'
  OBVIOUS
<1> DEFINE c == op.pin.content
           s == StateOf[c]
           new == Replacement(op.pin, op.entries[s])
<1>1. TypeOK /\ c \in Contents /\ s \in States /\ op.pin \in Pin
      /\ op.entries \in Registry
  BY ConstantsAssumption
  DEF AcceptUpdate, TypeInv, TypeOK, InstallHasPin, InstallPoints, Candidates,
      Pin, ContentOrNone, Operation
<1>2. \A pin : UnderFloor(pin) => UnderFloor(pin)'
  <2>1. CASE op.pin.signed
    BY <1>1, <2>1, FloorRises DEF AcceptUpdate
  <2>2. CASE ~op.pin.signed
    BY <2>2 DEF AcceptUpdate, UnderFloor
  <2> QED
    BY <2>1, <2>2
<1>3. \A pin : pin = op.pin => UnderFloor(pin)'
  <2>1. CASE op.pin.signed
    <3>1. floor'[s] = c
      BY <1>1, <2>1 DEF AcceptUpdate, RaisedFloor, TypeOK
    <3>2. Revision[c] \in Nat /\ c # NoContent
      BY <1>1, ConstantsAssumption
    <3> QED
      BY <1>1, <3>1, <3>2 DEF UnderFloor
  <2>2. CASE ~op.pin.signed
    BY <2>2 DEF UnderFloor
  <2> QED
    BY <2>1, <2>2
<1>4. \A pin : pin = NoPin => UnderFloor(pin)'
  BY DEF UnderFloor, NoPin
<1>5. \A t \in States :
        /\ op'.entries[t].current \in {op.entries[t].current, op.pin}
        /\ op'.entries[t].previous
             \in {op.entries[t].current, op.entries[t].previous, NoPin}
  <2>1. new.current = op.pin
        /\ new.previous
             \in {op.entries[s].current, op.entries[s].previous, NoPin}
    BY DEF Replacement
  <2>2. op'.entries = [op.entries EXCEPT ![s] = new]
    BY <1>1 DEF AcceptUpdate, TypeOK, Operation
  <2> HIDE DEF c, s, new
  <2> QED
    BY <1>1, <2>1, <2>2 DEF Registry
<1>6. Covered(op.entries)'
  <2> SUFFICES ASSUME NEW t \in States
               PROVE  /\ UnderFloor(op.entries[t].current)'
                      /\ UnderFloor(op.entries[t].previous)'
    BY DEF Covered
  <2>1. UnderFloor(op.entries[t].current) /\ UnderFloor(op.entries[t].previous)
    BY DEF FloorInv, Covered
  <2>2. \A pin : pin \in {op'.entries[t].current, op'.entries[t].previous}
                   => UnderFloor(pin)'
    BY <1>2, <1>3, <1>4, <1>5, <2>1
  <2> QED
    BY <2>2 DEF UnderFloor
<1>7. FloorCovers'
  <2>1. active' = active /\ backup' = backup
    BY DEF AcceptUpdate, files
  <2> QED
    BY <1>2, <2>1 DEF FloorInv, FloorCovers, Covered, UnderFloor
<1> QED
  BY <1>6, <1>7 DEF FloorInv

LEMMA StepCovered == TypeInv /\ FloorInv /\ Step => FloorInv'
<1> SUFFICES ASSUME TypeInv, FloorInv, Step PROVE FloorInv'
  OBVIOUS
<1> USE DEF FloorInv, FloorCovers, Covered, UnderFloor
<1>0. ASSUME NEW pc, Advance(pc) PROVE op'.entries = op.entries
  BY <1>0 DEF Advance, TypeInv, TypeOK, Operation
<1>1. CASE ClearCatalog \/ PlaceCatalog \/ ClearTiles \/ PlaceTiles
  <2>1. UNCHANGED <<active, backup, floor>> /\ op'.entries = op.entries
    BY <1>0, <1>1
    DEF ClearCatalog, PlaceCatalog, ClearTiles, PlaceTiles, keychain
  <2> QED
    BY <2>1
<1>2. CASE AcceptUpdate
  BY <1>2, AcceptCovered
<1>3. CASE InstallRefused \/ Discard
  <2>1. UNCHANGED <<active, backup, floor>> /\ op' = Resting
    BY <1>3 DEF InstallRefused, Discard, keychain
  <2> QED
    BY <2>1, EmptyCovered
<1>4. CASE KeepCopy
  <2>1. UNCHANGED <<active, floor>> /\ op'.entries = op.entries
        /\ backup' \in {active, backup}
    BY <1>0, <1>4 DEF KeepCopy, keychain
  <2> QED
    BY <2>1
<1>5. CASE Publish
  <2>1. UNCHANGED <<backup, floor>> /\ op'.entries = op.entries
        /\ active'.entries = op.entries
    BY <1>0, <1>5 DEF Publish, keychain
  <2> QED
    BY <2>1
<1>6. CASE EnsureCopy
  <2>1. UNCHANGED <<active, floor>> /\ op'.entries = op.entries
        /\ backup' \in {active, backup}
    BY <1>0, <1>6 DEF EnsureCopy, FirstCopy, keychain
  <2> QED
    BY <2>1
<1> QED
  BY <1>1, <1>2, <1>3, <1>4, <1>5, <1>6 DEF Step

LEMMA EnvironmentCovered == TypeInv /\ FloorInv /\ Environment => FloorInv'
<1> SUFFICES ASSUME TypeInv, FloorInv, Environment PROVE FloorInv'
  OBVIOUS
<1> USE DEF FloorInv, FloorCovers, Covered, UnderFloor
<1>1. CASE WriteFails
  <2>1. UNCHANGED <<active, floor>> /\ op' = Resting
        /\ backup' \in {active, backup}
    BY <1>1 DEF WriteFails, FirstCopy, keychain
  <2> QED
    BY <2>1, EmptyCovered
<1>2. CASE Relaunch
  <2>1. UNCHANGED <<active, backup, floor>> /\ op' = Resting
    BY <1>2 DEF Relaunch, files, keychain
  <2> QED
    BY <2>1, EmptyCovered
<1>3. CASE RegistryDamaged
  <2>1. UNCHANGED <<backup, floor, op>> /\ active'.entries = EmptyRegistry
    BY <1>3 DEF RegistryDamaged, keychain
  <2> QED
    BY <2>1, EmptyCovered
<1>4. ASSUME NEW c \in Contents, Rot(c) PROVE FloorInv'
  <2>1. UNCHANGED <<active, backup, floor, op>>
    BY <1>4 DEF Rot, keychain
  <2> QED
    BY <2>1
<1> QED
  BY <1>1, <1>2, <1>3, <1>4 DEF Environment

(* Replay protection for any laptop, state and interruption: no signed     *)
(* update that a registry or its copy names is above the floor of its      *)
(* state.                                                                  *)
THEOREM FloorHolds == Spec => []FloorCovers
<1>1. Init => FloorInv
  BY EmptyCovered DEF Init, NoFile, FloorInv, FloorCovers
<1>2. TypeInv /\ FloorInv /\ [Next]_vars => FloorInv'
  <2>1. FloorInv /\ UNCHANGED vars => FloorInv'
    BY DEF FloorInv, FloorCovers, Covered, UnderFloor, vars
  <2> QED
    BY <2>1, RequestCovered, StepCovered, EnvironmentCovered DEF Next, TypeInv
<1>3. FloorInv => FloorCovers
  BY DEF FloorInv
<1> QED
  BY <1>1, <1>2, <1>3, TypeInvariant, PTL DEF Spec

-----------------------------------------------------------------------------
(* What the registries name.                                               *)

(* A content of a state that a newer update of the state has replaced.     *)
Superseded(x, s) == floor[s] # NoContent /\ Revision[x] < Revision[floor[s]]

(* A pin is of its state; a signed one is by a known key and no newer than *)
(* the floor, an unsigned one is of the build.                             *)
PinOK(pin, s) ==
  \/ pin = NoPin
  \/ /\ pin.content \in Contents /\ StateOf[pin.content] = s
     /\ pin.signed => /\ signer # "unknown" /\ floor[s] # NoContent
                      /\ Superseded(pin.content, s) \/ pin.content = floor[s]
     /\ ~pin.signed => pin.content \in BuildPins

EntryOK(entry, s) == PinOK(entry.current, s) /\ PinOK(entry.previous, s)

RegistryOK(registry) == \A s \in States : EntryOK(registry[s], s)

PinsInv ==
  /\ RegistryOK(active.entries) /\ RegistryOK(backup.entries)
  /\ RegistryOK(op.entries)

(* What an install under way has been authorized for.                      *)
AuthorizedInv ==
  op.pc \in InstallPoints =>
    LET c == op.pin.content  s == StateOf[c] IN
    /\ op.kind = "install"
    /\ ~Superseded(c, s)
    /\ op.pin.signed => signer # "unknown" /\ Revision[c] > 0
    /\ ~op.pin.signed => c \in BuildPins /\ floor[s] = NoContent

NamesInv == TypeInv /\ PinsInv /\ AuthorizedInv

LEMMA NoPinOK == \A s : PinOK(NoPin, s) /\ EntryOK(NoEntry, s)
BY DEF PinOK, EntryOK, NoEntry

LEMMA EmptyOK == RegistryOK(EmptyRegistry) /\ RegistryOK(Resting.entries)
BY NoPinOK DEF RegistryOK, EmptyRegistry, Resting

LEMMA EntriesOK == ASSUME PinsInv PROVE RegistryOK(Entries)
BY EmptyOK DEF PinsInv, Entries

LEMMA NamesPin ==
  ASSUME NamesInv, op.pc \in InstallPoints
  PROVE  /\ op.pin.content \in Contents /\ op.pin \in Pin
         /\ StateOf[op.pin.content] \in States
BY ConstantsAssumption
   DEF NamesInv, TypeInv, InstallHasPin, Candidates, Pin, ContentOrNone

(* A floor that an update raises supersedes what was superseded and every  *)
(* other signed content.                                                   *)
LEMMA AcceptFloor ==
  ASSUME NamesInv, AcceptUpdate, op.pin.signed
  PROVE  LET c == op.pin.content  s == StateOf[c] IN
         /\ floor' = [floor EXCEPT ![s] = c]
         /\ floor[s] # NoContent => /\ floor[s] \in Contents
                                    /\ Revision[c] >= Revision[floor[s]]
                                    /\ Revision[c] = Revision[floor[s]] =>
                                         c = floor[s]
<1> DEFINE c == op.pin.content
           s == StateOf[c]
<1>1. c \in Contents /\ s \in States
  BY NamesPin DEF AcceptUpdate, InstallPoints
<1>2. floor[s] \in ContentOrNone
  BY <1>1 DEF NamesInv, TypeInv, TypeOK
<1> QED
  BY <1>1, <1>2 DEF AcceptUpdate, RaisedFloor, AboveFloor, ContentOrNone

LEMMA SupersededStays ==
  ASSUME NamesInv, AcceptUpdate, NEW x \in Contents, NEW t \in States,
         Superseded(x, t)
  PROVE  Superseded(x, t)'
<1> DEFINE c == op.pin.content
           s == StateOf[c]
<1>1. c \in Contents /\ s \in States
  BY NamesPin DEF AcceptUpdate, InstallPoints
<1>2. CASE ~op.pin.signed
  BY <1>2 DEF AcceptUpdate, Superseded
<1>3. CASE op.pin.signed
  <2>1. floor' = [floor EXCEPT ![s] = c]
        /\ floor \in [States -> ContentOrNone]
    BY <1>3, AcceptFloor DEF NamesInv, TypeInv, TypeOK
  <2>2. CASE t # s
    BY <2>1, <2>2 DEF Superseded
  <2>3. CASE t = s
    <3>1. floor'[t] = c /\ c # NoContent
      BY <1>1, <2>1, <2>3, ConstantsAssumption
    <3>2. /\ floor[s] \in Contents /\ Revision[c] >= Revision[floor[s]]
          /\ Revision[x] < Revision[floor[s]]
      BY <1>3, <2>3, AcceptFloor DEF Superseded
    <3>3. /\ Revision[x] \in Nat /\ Revision[c] \in Nat
          /\ Revision[floor[s]] \in Nat
      BY <1>1, <3>2, ConstantsAssumption
    <3>4. Revision[x] < Revision[c]
      BY <3>2, <3>3
    <3> QED BY <3>1, <3>4 DEF Superseded
  <2> QED BY <2>2, <2>3
<1> QED BY <1>2, <1>3

LEMMA PinStays ==
  ASSUME NamesInv, AcceptUpdate, NEW pin, NEW t \in States, PinOK(pin, t)
  PROVE  PinOK(pin, t)'
<1> DEFINE c == op.pin.content
           s == StateOf[c]
<1>0. signer' = signer
  BY DEF AcceptUpdate
<1>1. SUFFICES ASSUME pin # NoPin, pin.signed
               PROVE  PinOK(pin, t)'
  BY DEF PinOK
<1>2. /\ pin.content \in Contents /\ StateOf[pin.content] = t
      /\ signer # "unknown" /\ floor[t] # NoContent
      /\ Superseded(pin.content, t) \/ pin.content = floor[t]
  BY <1>1 DEF PinOK
<1>3. CASE Superseded(pin.content, t)
  <2>1. Superseded(pin.content, t)'
    BY <1>2, <1>3, SupersededStays
  <2> QED BY <1>0, <1>2, <2>1 DEF PinOK, Superseded
<1>4. CASE pin.content = floor[t] /\ floor'[t] = floor[t]
  BY <1>0, <1>2, <1>4 DEF PinOK
<1>5. CASE pin.content = floor[t] /\ floor'[t] # floor[t]
  <2>1. op.pin.signed /\ floor' = [floor EXCEPT ![s] = c]
        /\ floor \in [States -> ContentOrNone]
    BY <1>5, AcceptFloor DEF AcceptUpdate, NamesInv, TypeInv, TypeOK
  <2>2. c \in Contents /\ s \in States
    BY NamesPin DEF AcceptUpdate, InstallPoints
  <2>3. t = s /\ floor'[t] = c /\ c # floor[t]
    BY <1>5, <2>1, <2>2
  <2>4. Revision[c] >= Revision[floor[t]] /\ Revision[c] # Revision[floor[t]]
    BY <1>2, <2>1, <2>3, AcceptFloor
  <2>5. Revision[c] \in Nat /\ Revision[floor[t]] \in Nat /\ c # NoContent
    BY <1>2, <1>5, <2>2, ConstantsAssumption
  <2>6. floor'[t] # NoContent /\ Revision[pin.content] < Revision[floor'[t]]
    BY <1>5, <2>3, <2>4, <2>5
  <2>7. Superseded(pin.content, t)'
    BY <2>6 DEF Superseded
  <2> QED BY <1>0, <1>1, <1>2, <2>7 DEF PinOK, Superseded
<1> QED BY <1>2, <1>3, <1>4, <1>5

(* No step takes from a registry what was true of it.                      *)
LEMMA RegistryStays ==
  ASSUME NamesInv, [Next]_vars, NEW registry, RegistryOK(registry)
  PROVE  RegistryOK(registry)'
<1>1. CASE AcceptUpdate
  BY <1>1, PinStays DEF RegistryOK, EntryOK
<1>2. CASE UNCHANGED keychain
  BY <1>2 DEF RegistryOK, EntryOK, PinOK, Superseded, keychain
<1>3. CASE floor' = floor /\ signer' \in {"trusted", "revoked"}
  BY <1>3 DEF RegistryOK, EntryOK, PinOK, Superseded
<1> QED
  BY <1>1, <1>2, <1>3 DEF Next, Step, Request, Environment, Load,
     ApproveSigner, RevokeSigner, Install, Remove, Rollback, ToggleVisibility,
     ClearCatalog, PlaceCatalog, ClearTiles, PlaceTiles, InstallRefused,
     KeepCopy, Publish, EnsureCopy, Discard, WriteFails, Relaunch,
     RegistryDamaged, Rot, keychain, vars

LEMMA RegistryFrom ==
  ASSUME NEW old, RegistryOK(old), NEW new,
         \A s \in States :
           /\ new[s].current \in {old[s].current, old[s].previous, NoPin}
           /\ new[s].previous \in {old[s].current, old[s].previous, NoPin}
  PROVE  RegistryOK(new)
BY NoPinOK DEF RegistryOK, EntryOK

(* What the registry that an operation is going to save is made of.        *)
LEMMA RequestEntries ==
  ASSUME TypeOK, Request, ~(ApproveSigner \/ RevokeSigner)
  PROVE  /\ UNCHANGED <<files, keychain, loaded, faults>>
         /\ \A s \in States :
              /\ op'.entries[s].current
                   \in {Entries[s].current, Entries[s].previous, NoPin}
              /\ op'.entries[s].previous
                   \in {Entries[s].current, Entries[s].previous, NoPin}
<1>0. Entries \in Registry
  BY EntriesType
<1>1. CASE Load
  <2>1. op'.entries = [s \in States |-> Checked(Entries[s])]
    BY <1>1 DEF Load, Begin
  <2>2. \A s \in States : Entries[s] \in Entry
    BY <1>0 DEF Registry
  <2>3. \A s \in States :
          /\ Checked(Entries[s]).current
               \in {Entries[s].current, Entries[s].previous}
          /\ Checked(Entries[s]).previous \in {Entries[s].previous, NoPin}
    BY <2>2 DEF Checked, VerifiedPrevious, Entry
  <2> QED BY <1>1, <2>1, <2>3 DEF Load
<1>2. ASSUME NEW pin \in Candidates, Install(pin)
      PROVE  /\ UNCHANGED <<files, keychain, loaded, faults>>
             /\ op'.entries = Entries
  BY <1>2 DEF Install, Begin
<1>3. ASSUME NEW s \in States, Remove(s)
      PROVE  /\ UNCHANGED <<files, keychain, loaded, faults>>
             /\ op'.entries = [Entries EXCEPT ![s] = NoEntry]
  BY <1>3 DEF Remove, Begin
<1>4. ASSUME NEW s \in States, Rollback(s)
      PROVE  /\ UNCHANGED <<files, keychain, loaded, faults>>
             /\ op'.entries = [Entries EXCEPT ![s].current = Entries[s].previous,
                                              ![s].previous = Entries[s].current,
                                              ![s].quarantined = FALSE]
  BY <1>4 DEF Rollback, Begin
<1>5. ASSUME NEW s \in States, ToggleVisibility(s)
      PROVE  /\ UNCHANGED <<files, keychain, loaded, faults>>
             /\ op'.entries = [Entries EXCEPT ![s].visible = ~@]
  BY <1>5 DEF ToggleVisibility, Begin
<1>6. CASE \E s \in States : Remove(s)
  <2>1. PICK s \in States : Remove(s)
    BY <1>6
  <2> DEFINE new ==
        [Entries EXCEPT ![s] = NoEntry]
  <2>2. op'.entries = new /\ UNCHANGED <<files, keychain, loaded, faults>>
    BY <1>3, <2>1
  <2>3. \A t \in States :
          /\ new[t].current
               \in {Entries[t].current, Entries[t].previous, NoPin}
          /\ new[t].previous
               \in {Entries[t].current, Entries[t].previous, NoPin}
    BY <1>0 DEF Registry, NoEntry
  <2> HIDE DEF new
  <2> QED BY <2>2, <2>3
<1>7. CASE \E s \in States : Rollback(s)
  <2>1. PICK s \in States : Rollback(s)
    BY <1>7
  <2> DEFINE new ==
        [Entries EXCEPT ![s].current = Entries[s].previous,
                        ![s].previous = Entries[s].current,
                        ![s].quarantined = FALSE]
  <2>2. op'.entries = new /\ UNCHANGED <<files, keychain, loaded, faults>>
    BY <1>4, <2>1
  <2>3. \A t \in States :
          /\ new[t].current
               \in {Entries[t].current, Entries[t].previous, NoPin}
          /\ new[t].previous
               \in {Entries[t].current, Entries[t].previous, NoPin}
    BY <1>0 DEF Registry, Entry
  <2> HIDE DEF new
  <2> QED BY <2>2, <2>3
<1>8. CASE \E s \in States : ToggleVisibility(s)
  <2>1. PICK s \in States : ToggleVisibility(s)
    BY <1>8
  <2> DEFINE new ==
        [Entries EXCEPT ![s].visible = ~@]
  <2>2. op'.entries = new /\ UNCHANGED <<files, keychain, loaded, faults>>
    BY <1>5, <2>1
  <2>3. \A t \in States :
          /\ new[t].current
               \in {Entries[t].current, Entries[t].previous, NoPin}
          /\ new[t].previous
               \in {Entries[t].current, Entries[t].previous, NoPin}
    BY <1>0 DEF Registry, Entry
  <2> HIDE DEF new
  <2> QED BY <2>2, <2>3
<1> QED BY <1>1, <1>2, <1>6, <1>7, <1>8 DEF Request

(* What an install leaves to be saved.                                     *)
LEMMA AcceptEntries ==
  ASSUME NamesInv, AcceptUpdate
  PROVE  LET c == op.pin.content
             s == StateOf[c]
             new == Replacement(op.pin, op.entries[s])
         IN /\ c \in Contents /\ s \in States /\ op.entries \in Registry
            /\ op'.entries = [op.entries EXCEPT ![s] = new]
            /\ op'.pc = "backup" /\ op'.kind = op.kind
            /\ op'.pin = op.pin /\ op'.retired = op.retired
            /\ new.current = op.pin
            /\ new.previous
                 \in {op.entries[s].current, op.entries[s].previous, NoPin}
<1> DEFINE c == op.pin.content
           s == StateOf[c]
           new == Replacement(op.pin, op.entries[s])
<1>1. c \in Contents /\ s \in States
  BY NamesPin DEF AcceptUpdate, InstallPoints
<1>2. op \in Operation /\ op.entries \in Registry
  BY DEF NamesInv, TypeInv, TypeOK, Operation
<1>3. new.current = op.pin
      /\ new.previous \in {op.entries[s].current, op.entries[s].previous, NoPin}
  BY DEF Replacement
<1>4. op' = [op EXCEPT !.pc = "backup", !.entries[s] = new]
  BY DEF AcceptUpdate
<1> HIDE DEF c, s, new
<1>5. /\ op'.entries = [op.entries EXCEPT ![s] = new]
      /\ op'.pc = "backup" /\ op'.kind = op.kind
      /\ op'.pin = op.pin /\ op'.retired = op.retired
  BY <1>2, <1>4 DEF Operation
<1> QED BY <1>1, <1>2, <1>3, <1>5 DEF c, s, new

LEMMA AcceptPins ==
  ASSUME NamesInv, AcceptUpdate
  PROVE  RegistryOK(op.entries)'
<1> DEFINE c == op.pin.content
           s == StateOf[c]
<1>1. /\ c \in Contents /\ s \in States /\ op.entries \in Registry
      /\ \A t \in States :
           /\ op'.entries[t].current \in {op.entries[t].current, op.pin}
           /\ op'.entries[t].current = op.pin => t = s \/ op.entries[t].current = op.pin
           /\ op'.entries[t].previous
                \in {op.entries[t].current, op.entries[t].previous, NoPin}
  BY AcceptEntries DEF Registry
<1>2. PinOK(op.pin, s)'
  <2>1. op'.pin = op.pin /\ signer' = signer
    BY AcceptEntries DEF AcceptUpdate
  <2>2. CASE op.pin.signed
    <3>1. floor'[s] = c /\ signer = "trusted"
      BY <1>1, <2>2, AcceptFloor
         DEF AcceptUpdate, NamesInv, TypeInv, TypeOK
    <3>2. c # NoContent
      BY <1>1, ConstantsAssumption
    <3> QED BY <1>1, <2>1, <2>2, <3>1, <3>2 DEF PinOK
  <2>3. CASE ~op.pin.signed
    BY <1>1, <2>1, <2>3
       DEF PinOK, NamesInv, AuthorizedInv, AcceptUpdate, InstallPoints
  <2> QED BY <2>2, <2>3
<1>3. RegistryOK(op.entries)
  BY DEF NamesInv, PinsInv
<1>4. \A t \in States : \A pin : PinOK(pin, t) => PinOK(pin, t)'
  BY PinStays
<1>5. \A t \in States : \A pin : pin = NoPin => PinOK(pin, t)'
  BY DEF PinOK
<1>6. op'.pin = op.pin
  BY AcceptEntries
<1>7. ASSUME NEW t \in States
      PROVE  PinOK(op.entries[t].current, t)' /\ PinOK(op.entries[t].previous, t)'
  <2>1. \A pin : pin \in {op.entries[t].current, op.entries[t].previous, NoPin}
                   => PinOK(pin, t)'
    BY <1>3, <1>4, <1>5 DEF RegistryOK, EntryOK
  <2>2. \A pin : pin = op.pin /\ t = s => PinOK(pin, t)'
    BY <1>2, <1>6 DEF PinOK, Superseded
  <2>3. \A pin : pin \in {op'.entries[t].current, op'.entries[t].previous}
                   => PinOK(pin, t)'
    BY <1>1, <2>1, <2>2
  <2> QED BY <2>3 DEF PinOK, Superseded
<1> QED BY <1>7 DEF RegistryOK, EntryOK

LEMMA PinsFrom ==
  ASSUME NamesInv, [Next]_vars,
         RegistryOK(active'.entries), RegistryOK(backup'.entries),
         RegistryOK(op'.entries)
  PROVE  PinsInv'
<1>1. \A registry : RegistryOK(registry) => RegistryOK(registry)'
  BY RegistryStays
<1>2. RegistryOK(active.entries)'
  BY <1>1 DEF RegistryOK, EntryOK, PinOK, Superseded
<1>3. RegistryOK(backup.entries)'
  BY <1>1 DEF RegistryOK, EntryOK, PinOK, Superseded
<1>4. RegistryOK(op.entries)'
  BY <1>1 DEF RegistryOK, EntryOK, PinOK, Superseded
<1> QED BY <1>2, <1>3, <1>4 DEF PinsInv

(* The files of the registry after a step.                                 *)
LEMMA RegistryFiles ==
  ASSUME TypeOK, [Next]_vars
  PROVE  /\ active'.entries \in {active.entries, op.entries, EmptyRegistry}
         /\ backup' \in {backup, active}
<1>1. CASE Request
  BY <1>1 DEF Request, Load, ApproveSigner, RevokeSigner, Install, Remove,
     Rollback, ToggleVisibility, files
<1>2. CASE Step
  BY <1>2 DEF Step, ClearCatalog, PlaceCatalog, ClearTiles, PlaceTiles,
     AcceptUpdate, InstallRefused, KeepCopy, Publish, EnsureCopy, FirstCopy,
     Discard, files
<1>3. CASE Environment
  BY <1>3 DEF Environment, WriteFails, FirstCopy, Relaunch, RegistryDamaged,
     Rot, files
<1>4. CASE UNCHANGED vars
  BY <1>4 DEF vars
<1> QED BY <1>1, <1>2, <1>3, <1>4 DEF Next

LEMMA StepEntries ==
  ASSUME TypeOK, [Next]_vars, ~AcceptUpdate,
         ~Request \/ ApproveSigner \/ RevokeSigner
  PROVE  op' = Resting \/ op'.entries = op.entries
<1>1. op \in Operation
  BY DEF TypeOK
<1>2. CASE ApproveSigner \/ RevokeSigner
  BY <1>2 DEF ApproveSigner, RevokeSigner
<1>3. CASE Step
  BY <1>1, <1>3 DEF Step, ClearCatalog, PlaceCatalog, ClearTiles, PlaceTiles,
     InstallRefused, KeepCopy, Publish, EnsureCopy, Discard, Advance, Operation
<1>4. CASE Environment
  BY <1>4 DEF Environment, WriteFails, Relaunch, RegistryDamaged, Rot
<1>5. CASE UNCHANGED vars
  BY <1>5 DEF vars
<1> QED BY <1>2, <1>3, <1>4, <1>5 DEF Next

LEMMA NextPins == ASSUME NamesInv, [Next]_vars PROVE PinsInv'
<1>0. TypeOK /\ RegistryOK(Entries)
  BY EntriesOK DEF NamesInv, TypeInv
<1>1. RegistryOK(active'.entries) /\ RegistryOK(backup'.entries)
  <2>1. RegistryOK(EmptyRegistry) /\ RegistryOK(active.entries)
        /\ RegistryOK(backup.entries) /\ RegistryOK(op.entries)
    BY EmptyOK DEF NamesInv, PinsInv
  <2> QED BY <1>0, <2>1, RegistryFiles
<1>2. CASE Request /\ ~(ApproveSigner \/ RevokeSigner)
  <2>1. RegistryOK(op'.entries)
    BY <1>0, <1>2, RequestEntries, RegistryFrom
  <2> QED BY <1>1, <2>1, PinsFrom
<1>3. CASE AcceptUpdate
  <2>1. UNCHANGED <<active, backup>>
    BY <1>3 DEF AcceptUpdate, files
  <2>2. RegistryOK(active.entries)' /\ RegistryOK(backup.entries)'
    <3>1. \A registry : RegistryOK(registry) => RegistryOK(registry)'
      BY RegistryStays
    <3>2. RegistryOK(active.entries) /\ RegistryOK(backup.entries)
      BY DEF NamesInv, PinsInv
    <3> QED
      BY <2>1, <3>1, <3>2, SMTT(30) DEF RegistryOK, EntryOK, PinOK, Superseded
  <2> QED BY <1>3, <2>2, AcceptPins DEF PinsInv
<1>4. CASE ~AcceptUpdate /\ (~Request \/ ApproveSigner \/ RevokeSigner)
  <2>1. op' = Resting \/ op'.entries = op.entries
    BY <1>0, <1>4, StepEntries
  <2>2. RegistryOK(op.entries) /\ RegistryOK(Resting.entries)
    BY EmptyOK DEF NamesInv, PinsInv
  <2>3. RegistryOK(op'.entries)
    BY <2>1, <2>2
  <2> QED BY <1>1, <2>3, PinsFrom
<1> QED BY <1>2, <1>3, <1>4

LEMMA NextAuthorized == ASSUME NamesInv, [Next]_vars PROVE AuthorizedInv'
<1>0. TypeOK /\ op \in Operation
  BY DEF NamesInv, TypeInv, TypeOK
<1>1. ASSUME NEW pin \in Candidates, Install(pin)
      PROVE  AuthorizedInv'
  <2> DEFINE c == pin.content
             s == StateOf[c]
  <2>1. c \in Contents /\ s \in States
    BY ConstantsAssumption DEF Candidates
  <2>2. /\ op'.kind = "install" /\ op'.pin = pin
        /\ UNCHANGED <<floor, signer>> /\ Authorized(pin, Entries)
    BY <1>1 DEF Install, Begin, keychain
  <2>3. floor[s] # NoContent => floor[s] \in Contents
    BY <1>0, <2>1 DEF TypeOK, ContentOrNone
  <2>4. CASE pin.signed
    <3>1. AboveFloor(c) /\ signer = "trusted" /\ Revision[c] > 0
      BY <2>2, <2>4 DEF Authorized
    <3>2. ~Superseded(c, s)
      <4>1. floor[s] # NoContent =>
              /\ Revision[c] >= Revision[floor[s]]
              /\ Revision[c] \in Nat /\ Revision[floor[s]] \in Nat
        BY <2>1, <2>3, <3>1, ConstantsAssumption DEF AboveFloor
      <4> QED BY <4>1 DEF Superseded
    <3> QED BY <2>2, <2>4, <3>1, <3>2 DEF AuthorizedInv, Superseded
  <2>5. CASE ~pin.signed
    BY <2>2, <2>5 DEF Authorized, AuthorizedInv, Superseded
  <2> QED BY <2>4, <2>5
<1>2. ASSUME op'.pc \notin InstallPoints
      PROVE  AuthorizedInv'
  BY <1>2 DEF AuthorizedInv
<1>3. ASSUME op.pc \in InstallPoints, op'.pin = op.pin, op'.kind = op.kind,
             UNCHANGED <<floor, signer>>
      PROVE  AuthorizedInv'
  BY <1>3 DEF NamesInv, AuthorizedInv, Superseded
<1>4. CASE ClearCatalog \/ PlaceCatalog \/ ClearTiles \/ PlaceTiles
  <2>1. /\ op.pc \in InstallPoints /\ op'.pin = op.pin /\ op'.kind = op.kind
        /\ UNCHANGED <<floor, signer>>
    BY <1>0, <1>4 DEF ClearCatalog, PlaceCatalog, ClearTiles, PlaceTiles,
       Advance, Operation, InstallPoints, keychain
  <2> QED BY <1>3, <2>1
<1>5. CASE AcceptUpdate
  <2>1. op'.pc = "backup"
    BY <1>5, AcceptEntries
  <2> QED BY <1>2, <2>1 DEF InstallPoints
<1>6. CASE KeepCopy \/ Publish \/ EnsureCopy
  <2>1. op'.pc \in {"publish", "ensure", "discard"}
    BY <1>0, <1>6 DEF KeepCopy, Publish, EnsureCopy, Advance, Operation
  <2> QED BY <1>2, <2>1 DEF InstallPoints
<1>7. CASE InstallRefused \/ Discard \/ WriteFails \/ Relaunch
  <2>1. op' = Resting
    BY <1>7 DEF InstallRefused, Discard, WriteFails, Relaunch
  <2> QED BY <1>2, <2>1, RestingPoint
<1>8. CASE RegistryDamaged \/ (\E c \in Contents : Rot(c)) \/ UNCHANGED vars
  <2>1. op' = op /\ UNCHANGED <<floor, signer>>
    BY <1>8 DEF RegistryDamaged, Rot, vars, keychain
  <2> QED BY <1>2, <1>3, <2>1
<1>9. CASE ApproveSigner \/ RevokeSigner
  <2>1. op.kind = "none" /\ op' = op
    BY <1>9 DEF ApproveSigner, RevokeSigner
  <2>2. op.pc \notin InstallPoints
    BY <2>1 DEF NamesInv, AuthorizedInv
  <2> QED BY <1>2, <2>1, <2>2
<1>10. CASE Load \/ (\E s \in States : Remove(s) \/ Rollback(s)
                                       \/ ToggleVisibility(s))
  <2>1. op'.pc \in {"backup", "discard"}
    <3>1. Load => op'.pc \in {"backup", "discard"}
      BY DEF Load, Begin
    <3>2. \A s \in States : Remove(s) => op'.pc = "backup"
      BY DEF Remove, Begin
    <3>3. \A s \in States : Rollback(s) => op'.pc = "backup"
      BY DEF Rollback, Begin
    <3>4. \A s \in States : ToggleVisibility(s) => op'.pc = "backup"
      BY DEF ToggleVisibility, Begin
    <3> QED BY <1>10, <3>1, <3>2, <3>3, <3>4
  <2> QED BY <1>2, <2>1 DEF InstallPoints
<1> QED
  BY <1>1, <1>4, <1>5, <1>6, <1>7, <1>8, <1>9, <1>10
     DEF Next, Request, Step, Environment

LEMMA NextTyped == TypeInv /\ [Next]_vars => TypeInv'
<1>1. TypeInv /\ UNCHANGED vars => TypeInv'
  BY DEF TypeInv, TypeOK, InstallHasPin, vars
<1> QED BY <1>1, RequestTyped, StepTyped, EnvironmentTyped DEF Next

LEMMA NextNames == NamesInv /\ [Next]_vars => NamesInv'
BY NextTyped, NextPins, NextAuthorized DEF NamesInv

-----------------------------------------------------------------------------
(* How an operation, what it is going to save and the registry go together.*)

(* The registry can be read, and not only from its copy.                   *)
Settled == \/ active.status = "intact"
           \/ active.status = "absent" /\ backup.status = "absent"

(* Whenever the registry is the one to be read, it is intact or there is   *)
(* none; until an install is accepted it is going to save the registry as  *)
(* it is; what remove deletes is not named by what it saves.               *)
ShapeInv ==
  /\ op.kind = "none" => op = Resting
  /\ op.kind = "load" => ~loaded
  /\ op.kind \notin {"none", "load"} => loaded
  /\ op.pc \in InstallPoints \cup {"ensure", "discard"} => op.entries = Entries
  /\ op.pc \in {"ensure", "discard"} => Settled
  /\ op.pc = "ensure" => active.status = "intact"
  /\ loaded => Settled
  /\ op.kind # "remove" => op.retired = {}
  /\ op.retired \cap Referenced(op.entries) = {}

LEMMA EntriesStep ==
  ASSUME ShapeInv, [Next]_vars
  PROVE  \/ Entries' = Entries /\ (Settled => Settled')
         \/ Publish
         \/ RegistryDamaged
<1>1. CASE UNCHANGED <<active, backup>>
  BY <1>1 DEF Entries, Settled
<1>2. CASE KeepCopy
  BY <1>2 DEF KeepCopy, Entries, Settled
<1>3. CASE active' = active /\ backup' = FirstCopy /\ op.pc = "ensure"
  BY <1>3 DEF ShapeInv, FirstCopy, Entries, Settled
<1>4. CASE EnsureCopy \/ WriteFails
  BY <1>1, <1>3, <1>4 DEF EnsureCopy, WriteFails
<1>5. CASE Request
  BY <1>1, <1>5 DEF Request, Load, ApproveSigner, RevokeSigner, Install,
     Remove, Rollback, ToggleVisibility, files
<1>6. CASE \/ ClearCatalog \/ PlaceCatalog \/ ClearTiles \/ PlaceTiles
           \/ AcceptUpdate \/ InstallRefused \/ Discard \/ Relaunch
           \/ (\E c \in Contents : Rot(c)) \/ UNCHANGED vars
  BY <1>1, <1>6 DEF ClearCatalog, PlaceCatalog, ClearTiles, PlaceTiles,
     AcceptUpdate, InstallRefused, Discard, Relaunch, Rot, files, vars
<1> QED BY <1>2, <1>4, <1>5, <1>6 DEF Next, Step, Environment

(* A load that has found nothing wrong saves nothing.                      *)
LEMMA NothingBad ==
  ASSUME TypeOK, Load, op'.pc = "discard"
  PROVE  /\ op'.entries = Entries /\ Settled
         /\ \A s \in States :
              /\ Entries[s].previous = NoPin \/ Valid(Entries[s].previous)
              /\ Entries[s].current = NoPin \/ Valid(Entries[s].current)
<1> DEFINE checked == [s \in States |-> Checked(Entries[s])]
           bad == \E s \in States :
                    \/ checked[s].previous # Entries[s].previous
                    \/ Installed(Entries, s) /\ ~Valid(Entries[s].current)
<1>1. Entries \in Registry
  BY EntriesType
<1>2. ~bad /\ ~FallsBack /\ CanRead /\ op'.entries = checked
  <2>1. /\ CanRead /\ recovered' = (recovered \/ FallsBack)
        /\ IF bad \/ recovered'
           THEN Begin("load", "backup", NoPin, checked, {})
           ELSE Begin("load", "discard", NoPin, checked, {})
    BY DEF Load
  <2> HIDE DEF bad, checked
  <2>2. ~(bad \/ recovered')
    BY <2>1 DEF Begin
  <2>3. op'.entries = checked
    BY <2>1, <2>2 DEF Begin
  <2> QED BY <2>1, <2>2, <2>3
<1>3. Settled
  BY <1>2 DEF CanRead, FallsBack, Settled
<1>4. ASSUME NEW s \in States
      PROVE  /\ checked[s] = Entries[s]
             /\ Entries[s].previous = NoPin \/ Valid(Entries[s].previous)
             /\ Entries[s].current = NoPin \/ Valid(Entries[s].current)
  <2>1. Entries[s] \in Entry /\ checked[s] = Checked(Entries[s])
    BY <1>1 DEF Registry
  <2>2. Checked(Entries[s]).previous = Entries[s].previous
        /\ (Entries[s].current = NoPin \/ Valid(Entries[s].current))
    BY <1>2, <2>1 DEF Installed
  <2>3. Checked(Entries[s])
          = [Entries[s] EXCEPT !.previous = VerifiedPrevious(Entries[s])]
    BY <2>2 DEF Checked
  <2>4. VerifiedPrevious(Entries[s]) = Entries[s].previous
    BY <2>1, <2>2, <2>3 DEF Entry
  <2>5. Checked(Entries[s]) = Entries[s]
    BY <2>1, <2>3, <2>4 DEF Entry
  <2>6. Entries[s].previous = NoPin \/ Valid(Entries[s].previous)
    BY <2>4 DEF VerifiedPrevious
  <2> QED BY <2>1, <2>2, <2>5, <2>6
<1>5. checked = Entries
  BY <1>1, <1>4 DEF Registry
<1> QED BY <1>2, <1>3, <1>4, <1>5

LEMMA RetiredUnnamed ==
  ASSUME NamesInv, NEW s \in States, Remove(s)
  PROVE  op'.retired \cap Referenced(op'.entries) = {}
<1>0. Entries \in Registry /\ RegistryOK(Entries)
  BY EntriesType, EntriesOK DEF NamesInv, TypeInv
<1>1. /\ op'.entries = [Entries EXCEPT ![s] = NoEntry]
      /\ op'.retired = {Entries[s].current.content, Entries[s].previous.content}
                         \ {NoContent}
  BY DEF Remove, Begin
<1>2. SUFFICES ASSUME NEW x, x \in op'.retired, x \in Referenced(op'.entries)
               PROVE  FALSE
  OBVIOUS
<1>3. PICK t \in States : x \in {op'.entries[t].current.content,
                                 op'.entries[t].previous.content}
  BY <1>2 DEF Referenced
<1>4. x # NoContent /\ x \in {Entries[s].current.content,
                              Entries[s].previous.content}
  BY <1>1, <1>2
<1>5. t # s
  BY <1>0, <1>1, <1>3, <1>4 DEF Registry, NoEntry, NoPin
<1>6. x \in {Entries[t].current.content, Entries[t].previous.content}
  BY <1>0, <1>1, <1>3, <1>5 DEF Registry
<1>7. StateOf[x] = s /\ StateOf[x] = t
  BY <1>0, <1>4, <1>6 DEF RegistryOK, EntryOK, PinOK, NoPin
<1> QED BY <1>5, <1>7

LEMMA ShapeResting ==
  ASSUME op' = Resting, loaded' => Settled'
  PROVE  ShapeInv'
BY DEF Resting, ShapeInv, InstallPoints

LEMMA NextShape ==
  ASSUME NamesInv, ShapeInv, [Next]_vars
  PROVE  ShapeInv'
<1>0. op \in Operation /\ TypeOK
  BY DEF NamesInv, TypeInv, TypeOK
<1>1. CASE Load
  <2>1. /\ UNCHANGED <<active, backup, loaded>> /\ ~loaded
        /\ op'.kind = "load" /\ op'.retired = {}
        /\ op'.pc \in {"backup", "discard"}
    BY <1>1 DEF Load, Begin, files
  <2>2. op'.pc = "discard" => op'.entries = Entries' /\ Settled'
    BY <1>0, <1>1, <2>1, NothingBad DEF Entries, Settled
  <2> QED BY <2>1, <2>2 DEF ShapeInv, InstallPoints
<1>2. ASSUME NEW pin \in Candidates, Install(pin)
      PROVE  ShapeInv'
  <2>1. /\ UNCHANGED <<active, backup, loaded>> /\ loaded
        /\ op'.kind = "install" /\ op'.retired = {} /\ op'.pc = "clear"
        /\ op'.entries = Entries
    BY <1>2 DEF Install, Begin, files
  <2> QED BY <2>1 DEF ShapeInv, InstallPoints, Settled, Entries
<1>3. ASSUME NEW s \in States, Remove(s)
      PROVE  ShapeInv'
  <2>1. /\ UNCHANGED <<active, backup, loaded>> /\ loaded
        /\ op'.kind = "remove" /\ op'.pc = "backup"
    BY <1>3 DEF Remove, Begin, files
  <2>2. op'.retired \cap Referenced(op'.entries) = {}
    BY <1>3, RetiredUnnamed
  <2> QED BY <2>1, <2>2 DEF ShapeInv, InstallPoints, Settled, Referenced
<1>4. ASSUME NEW s \in States, Rollback(s) \/ ToggleVisibility(s)
      PROVE  ShapeInv'
  <2>1. /\ UNCHANGED <<active, backup, loaded>> /\ loaded
        /\ op'.kind \in {"rollback", "visibility"} /\ op'.pc = "backup"
        /\ op'.retired = {}
    BY <1>4 DEF Rollback, ToggleVisibility, Begin, files
  <2> QED BY <2>1 DEF ShapeInv, InstallPoints, Settled
<1>5. ASSUME op' = op, UNCHANGED <<active, backup, loaded>>
      PROVE  ShapeInv'
  BY <1>5 DEF ShapeInv, Settled, Entries, Referenced
<1>6. CASE ClearCatalog \/ PlaceCatalog \/ ClearTiles \/ PlaceTiles
  <2>1. /\ UNCHANGED <<active, backup, loaded>>
        /\ op.pc \in InstallPoints /\ op'.pc \in InstallPoints
        /\ op'.kind = op.kind /\ op'.entries = op.entries
        /\ op'.retired = op.retired
    BY <1>0, <1>6 DEF ClearCatalog, PlaceCatalog, ClearTiles, PlaceTiles,
       Advance, Operation, InstallPoints
  <2>2. op.kind = "install"
    BY <2>1 DEF NamesInv, AuthorizedInv
  <2> QED
    BY <2>1, <2>2 DEF ShapeInv, InstallPoints, Settled, Entries, Referenced
<1>7. CASE AcceptUpdate
  <2>1. /\ UNCHANGED <<active, backup, loaded>> /\ op'.pc = "backup"
        /\ op'.kind = op.kind /\ op'.retired = op.retired
    BY <1>7, AcceptEntries DEF AcceptUpdate, files
  <2>2. op.kind = "install"
    BY <1>7 DEF NamesInv, AuthorizedInv, AcceptUpdate, InstallPoints
  <2> QED BY <2>1, <2>2 DEF ShapeInv, InstallPoints, Settled
<1>8. CASE KeepCopy \/ Publish \/ EnsureCopy
  <2>1. /\ op'.kind = op.kind /\ op'.entries = op.entries
        /\ op'.retired = op.retired /\ loaded' = loaded
        /\ op.kind = "none" => op.pc = "rest"
        /\ op.pc \in {"backup", "publish", "ensure"}
    BY <1>0, <1>8 DEF KeepCopy, Publish, EnsureCopy, Advance, Operation,
       ShapeInv, Resting
  <2>2. CASE KeepCopy
    <3>1. op'.pc = "publish" /\ (Settled => Settled')
      BY <1>0, <2>2 DEF KeepCopy, Advance, Operation, Settled
    <3> QED BY <2>1, <3>1 DEF ShapeInv, InstallPoints, Referenced
  <2>3. CASE Publish
    <3>1. op'.pc = "ensure" /\ active'.status = "intact"
          /\ Entries' = op.entries
      BY <1>0, <2>3 DEF Publish, Advance, Operation, Entries
    <3> QED BY <2>1, <3>1 DEF ShapeInv, InstallPoints, Settled, Referenced
  <2>4. CASE EnsureCopy
    <3>1. op'.pc = "discard" /\ op.pc = "ensure" /\ active' = active
      BY <1>0, <2>4 DEF EnsureCopy, Advance, Operation
    <3>2. active.status = "intact" /\ op.entries = active.entries
      BY <3>1 DEF ShapeInv, Entries
    <3>3. Entries' = active.entries /\ Settled'
      BY <3>1, <3>2 DEF Entries, Settled
    <3> QED BY <2>1, <3>1, <3>2, <3>3 DEF ShapeInv, InstallPoints, Referenced
  <2> QED BY <1>8, <2>2, <2>3, <2>4
<1>9. CASE Discard \/ InstallRefused
  <2>1. /\ UNCHANGED <<active, backup>> /\ op' = Resting
        /\ loaded' # loaded => op.pc = "discard"
    BY <1>0, <1>9 DEF Discard, InstallRefused
  <2>2. loaded' => Settled'
    BY <2>1 DEF ShapeInv, Settled
  <2> QED BY <2>1, <2>2, ShapeResting
<1>10. CASE WriteFails
  <2>1. /\ active' = active /\ op' = Resting /\ loaded' = loaded
        /\ backup' = backup \/ op.pc = "ensure"
    BY <1>10 DEF WriteFails
  <2>2. loaded' => Settled'
    BY <2>1 DEF ShapeInv, Settled
  <2> QED BY <2>1, <2>2, ShapeResting
<1>11. CASE Relaunch
  BY <1>11, ShapeResting DEF Relaunch
<1>12. CASE RegistryDamaged
  <2>1. op' = Resting /\ ~loaded'
    BY <1>12 DEF RegistryDamaged, ShapeInv
  <2> QED BY <2>1, ShapeResting
<1>13. CASE (\E c \in Contents : Rot(c)) \/ ApproveSigner \/ RevokeSigner
            \/ UNCHANGED vars
  <2>1. op' = op /\ UNCHANGED <<active, backup, loaded>>
    BY <1>13 DEF Rot, ApproveSigner, RevokeSigner, vars, files
  <2> QED BY <1>5, <2>1
<1> QED
  BY <1>1, <1>2, <1>3, <1>4, <1>6, <1>7, <1>8, <1>9, <1>10, <1>11, <1>12,
     <1>13 DEF Next, Request, Step, Environment

LEMMA InitNames == Init => NamesInv /\ ShapeInv
<1> SUFFICES ASSUME Init PROVE NamesInv /\ ShapeInv
  OBVIOUS
<1>1. PinsInv
  BY EmptyOK DEF Init, NoFile, PinsInv
<1>2. op = Resting /\ ~loaded /\ Resting.kind = "none" /\ Resting.retired = {}
      /\ op.pc \notin InstallPoints \cup {"ensure", "discard"}
  BY DEF Init, Resting, InstallPoints
<1> QED
  BY <1>1, <1>2, InitTyped DEF NamesInv, AuthorizedInv, ShapeInv

-----------------------------------------------------------------------------
(* The files behind what is shown.                                         *)

(* A version has its files, or lost them since it was last verified.       *)
Kept(pin) == IntactFiles(pin) \/ pin.content \in rotten

Sound(registry) == \A s \in States : Shown(registry[s]) => Kept(registry[s].current)

(* Every registry that is read or going to be saved is sound; an install   *)
(* clears the files of a shown version only when they are damaged.         *)
SoundInv ==
  /\ Sound(op.entries)
  /\ loaded => Sound(Entries)
  /\ op.pc \in InstallPoints =>
       LET c == op.pin.content  s == StateOf[c] IN
       Shown(Entries[s]) /\ Entries[s].current.content = c => c \in rotten

(* The steps after which a version may have neither its files nor the mark *)
(* of a damage.                                                            *)
LEMMA KeptStays ==
  ASSUME NamesInv, [Next]_vars, NEW pin, Kept(pin)
  PROVE  \/ Kept(pin)'
         \/ Load /\ pin.content \in Referenced(Entries)
         \/ op.pc \in InstallPoints /\ pin.content = op.pin.content
            /\ pin.content \notin rotten
         \/ (WriteFails \/ InstallRefused) /\ pin.content \in Leftover
         \/ Discard /\ pin.content \in Obsolete
<1> USE DEF Kept, IntactFiles
<1>1. CASE ClearCatalog \/ ClearTiles
  BY <1>1 DEF ClearCatalog, ClearTiles, InstallPoints
<1>2. CASE PlaceCatalog \/ PlaceTiles
  BY <1>2 DEF PlaceCatalog, PlaceTiles
<1>3. CASE AcceptUpdate
  BY <1>3 DEF AcceptUpdate, Valid, files
<1>4. CASE InstallRefused
  BY <1>4 DEF InstallRefused, DeleteSome
<1>5. CASE WriteFails
  BY <1>5 DEF WriteFails, DeleteSome
<1>6. CASE Discard
  BY <1>6 DEF Discard, DeleteSome
<1>7. CASE Load
  BY <1>7 DEF Load, files
<1>8. CASE Rot(pin.content)
  BY <1>8 DEF Rot
<1>9. CASE \E c \in Contents : Rot(c) /\ c # pin.content
  BY <1>9 DEF Rot
<1>10. CASE UNCHANGED <<sqlite, tiles, rotten>>
  BY <1>10
<1> QED
  BY <1>1, <1>2, <1>3, <1>4, <1>5, <1>6, <1>7, <1>8, <1>9, <1>10
     DEF Next, Step, Request, Environment, ApproveSigner, RevokeSigner,
         Install, Remove, Rollback, ToggleVisibility, KeepCopy, Publish,
         EnsureCopy, Relaunch, RegistryDamaged, files, vars

LEMMA NamedReferenced ==
  ASSUME NEW registry, RegistryOK(registry), NEW s \in States
  PROVE  /\ registry[s].current # NoPin =>
              /\ registry[s].current.content \in Referenced(registry)
              /\ registry[s].current.content \in Contents
              /\ StateOf[registry[s].current.content] = s
         /\ registry[s].previous # NoPin =>
              /\ registry[s].previous.content \in Referenced(registry)
              /\ registry[s].previous.content \in Contents
              /\ StateOf[registry[s].previous.content] = s
BY DEF Referenced, RegistryOK, EntryOK, PinOK

LEMMA NoPinInvalid == ASSUME TypeOK PROVE ~Valid(NoPin)
BY ConstantsAssumption DEF TypeOK, Valid, IntactFiles, NoPin

(* What the registry shows keeps its files or the mark of their damage in  *)
(* every step but the check of load, which renews the marks.               *)
LEMMA ShownStays ==
  ASSUME NamesInv, ShapeInv, SoundInv, [Next]_vars, ~Load, NEW s \in States,
         Shown(Entries[s]), Kept(Entries[s].current)
  PROVE  \A pin : pin = Entries[s].current => Kept(pin)'
<1>0. SUFFICES ASSUME NEW pin, pin = Entries[s].current
               PROVE  Kept(pin)'
  OBVIOUS
<1>1. RegistryOK(Entries) /\ TypeOK
  BY EntriesOK DEF NamesInv, TypeInv
<1>2. pin.content \in Referenced(Entries) /\ StateOf[pin.content] = s
  BY <1>0, <1>1, NamedReferenced DEF Shown
<1>3. ~(op.pc \in InstallPoints /\ pin.content = op.pin.content
        /\ pin.content \notin rotten)
  BY <1>0, <1>2 DEF SoundInv
<1>4. pin.content \notin Leftover
  BY <1>2 DEF Leftover
<1>5. ~(Discard /\ pin.content \in Obsolete)
  <2>1. Discard => op.entries = Entries
    BY DEF Discard, ShapeInv
  <2> QED BY <1>2, <2>1 DEF Obsolete, Unreferenced, ShapeInv
<1> QED BY <1>0, <1>3, <1>4, <1>5, KeptStays

(* The same of what an operation is going to save, as long as it goes on.  *)
LEMMA SavedStays ==
  ASSUME NamesInv, ShapeInv, SoundInv, [Next]_vars, ~Load,
         op'.entries = op.entries
  PROVE  Sound(op.entries)' \/ op' = Resting
<1>1. SUFFICES ASSUME op' # Resting, NEW s \in States, Shown(op.entries[s])
               PROVE  \A pin : pin = op.entries[s].current => Kept(pin)'
  BY DEF Sound, Shown, Kept, IntactFiles
<1>2. SUFFICES ASSUME NEW pin, pin = op.entries[s].current
               PROVE  Kept(pin)'
  OBVIOUS
<1>3. Kept(pin)
  BY <1>1, <1>2 DEF SoundInv, Sound
<1>4. ~(WriteFails \/ InstallRefused) /\ ~Discard
  BY <1>1 DEF WriteFails, InstallRefused, Discard
<1>5. CASE op.pc \notin InstallPoints
  BY <1>3, <1>4, <1>5, KeptStays
<1>6. CASE op.pc \in InstallPoints
  <2>1. op.entries = Entries
    BY <1>6 DEF ShapeInv
  <2> QED BY <1>1, <1>2, <1>3, <2>1, ShownStays
<1> QED BY <1>5, <1>6

(* What load leaves to be shown has just been verified.                    *)
LEMMA CheckedValid ==
  ASSUME NEW entry \in Entry, Shown(Checked(entry))
  PROVE  Valid(Checked(entry).current)
<1>1. VerifiedPrevious(entry) = NoPin \/ Valid(VerifiedPrevious(entry))
  BY DEF VerifiedPrevious
<1> QED BY <1>1 DEF Checked, Shown, Entry

(* What a request is going to save is sound.                               *)
LEMMA RequestSound ==
  ASSUME NamesInv, ShapeInv, SoundInv, Request, ~(ApproveSigner \/ RevokeSigner)
  PROVE  Sound(op'.entries) /\ (~Load => rotten' = rotten)
<1>0. TypeOK /\ Entries \in Registry /\ ~Valid(NoPin)
      /\ \A s \in States : Entries[s] \in Entry
  BY EntriesType, NoPinInvalid DEF NamesInv, TypeInv, Registry
<1>1. CASE Load
  <2>1. op'.entries = [s \in States |-> Checked(Entries[s])]
    BY <1>1 DEF Load, Begin
  <2>2. \A s \in States :
          Shown(Checked(Entries[s])) => Valid(Checked(Entries[s]).current)
    BY <1>0, CheckedValid
  <2> QED BY <1>1, <2>1, <2>2 DEF Sound, Kept, Valid
<1>2. CASE \E pin \in Candidates : Install(pin)
  <2>1. loaded /\ op'.entries = Entries /\ rotten' = rotten /\ ~Load
    BY <1>2 DEF Install, Begin, Load
  <2> QED BY <2>1 DEF SoundInv
<1>3. ASSUME NEW s \in States, Remove(s)
      PROVE  Sound(op'.entries) /\ rotten' = rotten
  <2>1. loaded /\ op'.entries = [Entries EXCEPT ![s] = NoEntry]
        /\ rotten' = rotten
    BY <1>3 DEF Remove, Begin
  <2> QED BY <1>0, <2>1 DEF SoundInv, Sound, Shown, NoEntry, Registry
<1>4. ASSUME NEW s \in States, Rollback(s)
      PROVE  Sound(op'.entries) /\ rotten' = rotten
  <2> DEFINE new == [Entries EXCEPT ![s].current = Entries[s].previous,
                                    ![s].previous = Entries[s].current,
                                    ![s].quarantined = FALSE]
  <2>1. loaded /\ op'.entries = new /\ Valid(Entries[s].previous)
        /\ rotten' = rotten
    BY <1>4 DEF Rollback, Begin
  <2>2. new[s].current = Entries[s].previous
        /\ \A t \in States \ {s} : new[t] = Entries[t]
    BY <1>0 DEF Registry, Entry
  <2> HIDE DEF new
  <2> QED BY <2>1, <2>2 DEF SoundInv, Sound, Kept, Valid
<1>5. ASSUME NEW s \in States, ToggleVisibility(s)
      PROVE  Sound(op'.entries) /\ rotten' = rotten
  <2> DEFINE new == [Entries EXCEPT ![s].visible = ~@]
  <2>1. loaded /\ op'.entries = new /\ rotten' = rotten
    BY <1>5 DEF ToggleVisibility, Begin
  <2>2. \A t \in States : /\ new[t].current = Entries[t].current
                          /\ new[t].quarantined = Entries[t].quarantined
    BY <1>0 DEF Registry, Entry
  <2> HIDE DEF new
  <2> QED BY <2>1, <2>2 DEF SoundInv, Sound, Shown
<1> QED BY <1>1, <1>2, <1>3, <1>4, <1>5 DEF Request

(* An install asked for finds the shown content damaged, or another one.   *)
LEMMA InstallNeeded ==
  ASSUME SoundInv, NEW pin \in Candidates, Install(pin), NamesInv
  PROVE  LET c == pin.content  s == StateOf[c] IN
         Shown(Entries[s]) /\ Entries[s].current.content = c => c \in rotten
<1> DEFINE c == pin.content
           s == StateOf[c]
<1>1. SUFFICES ASSUME Shown(Entries[s]), Entries[s].current.content = c
               PROVE  c \in rotten
  OBVIOUS
<1>2. loaded /\ ~Valid(pin) /\ Authorized(pin, Entries)
  BY <1>1 DEF Install
<1>3. ~IntactFiles(pin)
  BY <1>2 DEF Authorized, Valid
<1>4. s \in States
  BY ConstantsAssumption DEF Candidates
<1>5. Kept(Entries[s].current)
  BY <1>1, <1>2, <1>4 DEF SoundInv, Sound
<1> QED BY <1>1, <1>3, <1>5 DEF Kept, IntactFiles

LEMMA RestingSound == Sound(Resting.entries)
BY DEF Sound, Shown, Resting, EmptyRegistry, NoEntry

LEMMA InitSound == Init => SoundInv
BY RestingSound, RestingPoint DEF Init, SoundInv

LEMMA AcceptSound ==
  ASSUME NamesInv, ShapeInv, SoundInv, AcceptUpdate
  PROVE  SoundInv'
<1> DEFINE c == op.pin.content
           s == StateOf[c]
           new == Replacement(op.pin, op.entries[s])
<1>1. /\ c \in Contents /\ s \in States /\ op.entries \in Registry
      /\ op'.entries = [op.entries EXCEPT ![s] = new]
      /\ op'.pc = "backup" /\ new.current = op.pin
  BY AcceptEntries
<1>2. /\ UNCHANGED <<active, backup, sqlite, tiles, loaded>>
      /\ rotten' = rotten \ {c} /\ c \in sqlite \cap tiles
  BY DEF AcceptUpdate, files, Valid, IntactFiles
<1>3. \A pin : Kept(pin) \/ pin = op.pin => Kept(pin)'
  BY <1>2 DEF Kept, IntactFiles
<1> HIDE DEF c, s, new
<1>4. ASSUME NEW t \in States, Shown(op'.entries[t])
      PROVE  Kept(op.entries[t].current)'
  <2>1. Kept(op'.entries[t].current) \/ op'.entries[t].current = op.pin
    BY <1>1, <1>4 DEF SoundInv, Sound, Registry
  <2>2. \A pin : pin = op'.entries[t].current => Kept(pin)'
    BY <1>3, <2>1
  <2> QED BY <2>2 DEF Kept, IntactFiles
<1>5. Sound(op.entries)'
  BY <1>4 DEF Sound, Shown
<1>6. loaded' => Sound(Entries)'
  BY <1>2, <1>3 DEF SoundInv, Sound, Entries, Kept, IntactFiles, Shown
<1> QED BY <1>1, <1>5, <1>6 DEF SoundInv, InstallPoints

LEMMA NextSound ==
  ASSUME NamesInv, ShapeInv, SoundInv, [Next]_vars
  PROVE  SoundInv'
<1>0. TypeOK /\ op \in Operation
  BY DEF NamesInv, TypeInv, TypeOK
<1>1. CASE AcceptUpdate
  BY <1>1, AcceptSound
<1>2. CASE Request /\ ~(ApproveSigner \/ RevokeSigner)
  <2>1. UNCHANGED <<files, loaded>> /\ Sound(op'.entries)
        /\ (~Load => rotten' = rotten)
    BY <1>0, <1>2, RequestEntries, RequestSound
  <2>2. CASE Load
    <3>1. ~loaded' /\ op'.pc \notin InstallPoints
      BY <2>2 DEF Load, Begin, InstallPoints
    <3>2. \A s \in States : Shown(op'.entries[s]) =>
                              Valid(op'.entries[s].current)
      <4>1. op'.entries = [s \in States |-> Checked(Entries[s])]
        BY <2>2 DEF Load, Begin
      <4>2. \A s \in States : Entries[s] \in Entry
        BY <1>0, EntriesType DEF Registry
      <4>3. \A s \in States :
              Shown(Checked(Entries[s])) => Valid(Checked(Entries[s]).current)
        BY <4>2, CheckedValid
      <4> QED BY <4>1, <4>3
    <3>3. Sound(op.entries)'
      BY <2>1, <3>2 DEF Sound, Shown, Kept, Valid, IntactFiles, files
    <3> QED BY <3>1, <3>3 DEF SoundInv
  <2>3. CASE ~Load
    <3>1. Sound(op.entries)'
      BY <2>1, <2>3 DEF Sound, Shown, Kept, IntactFiles, files
    <3>2. loaded' => Sound(Entries)'
      BY <2>1, <2>3 DEF SoundInv, Sound, Entries, Kept, IntactFiles, Shown,
                        files
    <3>3. CASE \E pin \in Candidates : Install(pin)
      <4>1. PICK pin \in Candidates : Install(pin)
        BY <3>3
      <4>2. op'.pin = pin /\ Entries' = Entries /\ rotten' = rotten
        BY <2>1, <2>3, <4>1 DEF Install, Begin, Entries, files
      <4>3. Shown(Entries[StateOf[pin.content]])
            /\ Entries[StateOf[pin.content]].current.content = pin.content
            => pin.content \in rotten
        BY <4>1, InstallNeeded
      <4> QED BY <3>1, <3>2, <4>2, <4>3 DEF SoundInv, Shown
    <3>4. CASE ~ \E pin \in Candidates : Install(pin)
      <4>1. op'.pc = "backup"
        <5>1. \A s \in States : Remove(s) => op'.pc = "backup"
          BY DEF Remove, Begin
        <5>2. \A s \in States : Rollback(s) => op'.pc = "backup"
          BY DEF Rollback, Begin
        <5>3. \A s \in States : ToggleVisibility(s) => op'.pc = "backup"
          BY DEF ToggleVisibility, Begin
        <5> QED BY <1>2, <2>3, <3>4, <5>1, <5>2, <5>3 DEF Request
      <4> QED BY <3>1, <3>2, <4>1 DEF SoundInv, InstallPoints
    <3> QED BY <3>3, <3>4
  <2> QED BY <2>2, <2>3
<1>3. CASE ~AcceptUpdate /\ (~Request \/ ApproveSigner \/ RevokeSigner)
  <2>0. ~Load
    BY <1>3 DEF Request, Load, ApproveSigner, RevokeSigner
  <2>1. op' = Resting \/ op'.entries = op.entries
    BY <1>0, <1>3, StepEntries
  <2>2. Sound(op.entries)'
    <3>1. op' = Resting => Sound(op.entries)'
      BY DEF Sound, Shown, Resting, EmptyRegistry, NoEntry
    <3>2. op' # Resting => op'.entries = op.entries
      BY <2>1
    <3>3. op' # Resting => Sound(op.entries)'
      BY <2>0, <3>2, SavedStays
    <3> QED BY <3>1, <3>3
  <2>3. loaded' => Sound(Entries)'
    <3>1. CASE Publish
      <4>1. Entries' = op'.entries
        BY <1>0, <3>1 DEF Publish, Advance, Operation, Entries
      <4> QED BY <2>2, <4>1 DEF Sound
    <3>2. CASE RegistryDamaged
      BY <3>2 DEF RegistryDamaged
    <3>3. CASE Entries' = Entries
      <4>1. loaded' => Sound(Entries)
        <5>1. loaded' => loaded \/ (Discard /\ op.entries = Entries)
          <6>1. Discard => op.entries = Entries
            BY DEF Discard, ShapeInv
          <6> QED
            BY <1>3, <6>1 DEF Next, Step, Request, Environment, ClearCatalog,
               PlaceCatalog, ClearTiles, PlaceTiles, InstallRefused, KeepCopy,
               Publish, EnsureCopy, ApproveSigner, RevokeSigner, WriteFails,
               Relaunch, RegistryDamaged, Rot, vars
        <5> QED BY <5>1 DEF SoundInv
      <4>2. \A s \in States : loaded' /\ Shown(Entries[s]) =>
              \A pin : pin = Entries[s].current => Kept(pin)'
        BY <2>0, <4>1, ShownStays DEF Sound
      <4> QED BY <3>3, <4>2 DEF Sound, Shown, Kept, IntactFiles
    <3> QED BY <3>1, <3>2, <3>3, EntriesStep
  <2>4. op'.pc \in InstallPoints =>
          LET c == op'.pin.content  s == StateOf[c] IN
          Shown(Entries'[s]) /\ Entries'[s].current.content = c => c \in rotten'
    <3>1. CASE ClearCatalog \/ PlaceCatalog \/ ClearTiles \/ PlaceTiles
      <4>1. /\ UNCHANGED <<active, backup, rotten>> /\ op.pc \in InstallPoints
            /\ op'.pin = op.pin
        BY <1>0, <3>1 DEF ClearCatalog, PlaceCatalog, ClearTiles, PlaceTiles,
           Advance, Operation, InstallPoints
      <4> QED BY <4>1 DEF SoundInv, Entries, Shown
    <3>2. CASE KeepCopy \/ Publish \/ EnsureCopy
      <4>1. op'.pc \in {"publish", "ensure", "discard"}
        BY <1>0, <3>2 DEF KeepCopy, Publish, EnsureCopy, Advance, Operation
      <4> QED BY <4>1 DEF InstallPoints
    <3>3. CASE InstallRefused \/ Discard \/ WriteFails \/ Relaunch
      BY <3>3, RestingPoint DEF InstallRefused, Discard, WriteFails, Relaunch
    <3>4. CASE op' = op /\ Entries' = Entries /\ rotten \subseteq rotten'
      BY <3>4 DEF SoundInv, Shown
    <3>5. CASE RegistryDamaged
      <4>1. op.kind = "none" /\ op' = op
        BY <3>5 DEF RegistryDamaged
      <4> QED BY <4>1, RestingPoint DEF ShapeInv
    <3>6. CASE (\E c \in Contents : Rot(c)) \/ ApproveSigner \/ RevokeSigner
               \/ UNCHANGED vars
      <4>1. op' = op /\ Entries' = Entries /\ rotten \subseteq rotten'
        BY <3>6 DEF Rot, ApproveSigner, RevokeSigner, vars, files, Entries
      <4> QED BY <3>4, <4>1
    <3> QED
      BY <1>3, <3>1, <3>2, <3>3, <3>5, <3>6 DEF Next, Step, Request, Environment
  <2> QED BY <2>2, <2>3, <2>4 DEF SoundInv, Shown
<1> QED BY <1>1, <1>2, <1>3

StoreInv == NamesInv /\ ShapeInv /\ SoundInv

THEOREM StoreInvariant == Spec => []StoreInv
<1>1. Init => StoreInv
  BY InitNames, InitSound DEF StoreInv
<1>2. StoreInv /\ [Next]_vars => StoreInv'
  BY NextNames, NextShape, NextSound DEF StoreInv
<1> QED BY <1>1, <1>2, PTL DEF Spec

(* Whatever installs, removals, rollbacks, failures, crashes and damages   *)
(* went before, once the packages are loaded and nothing is under way each *)
(* shown map has its catalog and its tiles, or they were damaged since.    *)
THEOREM ShownHolds == Spec => []ShownIsWhole
<1>1. StoreInv => ShownIsWhole
  BY DEF StoreInv, SoundInv, ShownIsWhole, Sound, Kept, Entries
<1> QED BY <1>1, StoreInvariant, PTL

-----------------------------------------------------------------------------
(* What a registry about to be published does to the maps in use.          *)

Saving == op.pc \in {"backup", "publish"}

(* Only remove takes away a map in use; a version of the build that an     *)
(* updated state is going to show was one of its two versions.             *)
SavingInv ==
  Saving =>
    \A s \in States :
      LET new == op.entries[s].current IN
      /\ op.kind # "remove" /\ Usable(s) => Shown(op.entries[s])
      /\ new # NoPin /\ ~new.signed /\ floor[s] # NoContent =>
           new \in {Entries[s].current, Entries[s].previous}

(* A map whose files are there passes the check of load.                   *)
LEMMA WholeValid ==
  ASSUME NamesInv, NEW s \in States, Shown(Entries[s]),
         IntactFiles(Entries[s].current)
  PROVE  Valid(Entries[s].current)
<1>1. RegistryOK(Entries)
  BY EntriesOK DEF NamesInv
<1> QED BY <1>1 DEF RegistryOK, EntryOK, PinOK, Shown, Valid

LEMMA RequestSaving ==
  ASSUME NamesInv, ShapeInv, Request, ~(ApproveSigner \/ RevokeSigner)
  PROVE  SavingInv'
<1>0. TypeOK /\ Entries \in Registry /\ ~Valid(NoPin)
      /\ \A s \in States : Entries[s] \in Entry
  BY EntriesType, NoPinInvalid DEF NamesInv, TypeInv, Registry
<1>1. /\ UNCHANGED <<files, keychain>>
      /\ \A s \in States : op'.entries[s].current
                             \in {Entries[s].current, Entries[s].previous, NoPin}
  BY <1>0, RequestEntries
<1>2. ASSUME NEW s \in States, op'.kind # "remove", Shown(Entries[s]),
             IntactFiles(Entries[s].current)
      PROVE  Shown(op'.entries[s]) \/ op'.pc = "clear"
  <2>0. Valid(Entries[s].current) /\ Shown(Entries[s])
    BY <1>2, WholeValid
  <2>1. CASE Load
    <3>1. op'.entries[s] = Checked(Entries[s])
      BY <2>1 DEF Load, Begin
    <3> QED BY <1>0, <2>0, <3>1 DEF Checked, Shown, Entry
  <2>2. CASE \E pin \in Candidates : Install(pin)
    BY <2>2 DEF Install, Begin
  <2>3. CASE \E t \in States : Remove(t)
    BY <1>2, <2>3 DEF Remove, Begin
  <2>4. ASSUME NEW t \in States, Rollback(t)
        PROVE  Shown(op'.entries[s])
    <3> DEFINE new == [Entries EXCEPT ![t].current = Entries[t].previous,
                                      ![t].previous = Entries[t].current,
                                      ![t].quarantined = FALSE]
    <3>1. op'.entries = new /\ Valid(Entries[t].previous)
      BY <2>4 DEF Rollback, Begin
    <3>2. /\ new[t].current = Entries[t].previous /\ ~new[t].quarantined
          /\ \A u \in States \ {t} : new[u] = Entries[u]
      BY <1>0 DEF Registry, Entry
    <3> HIDE DEF new
    <3> QED BY <1>0, <2>0, <3>1, <3>2 DEF Shown
  <2>5. ASSUME NEW t \in States, ToggleVisibility(t)
        PROVE  Shown(op'.entries[s])
    <3> DEFINE new == [Entries EXCEPT ![t].visible = ~@]
    <3>1. op'.entries = new
      BY <2>5 DEF ToggleVisibility, Begin
    <3>2. new[s].current = Entries[s].current
          /\ new[s].quarantined = Entries[s].quarantined
      BY <1>0 DEF Registry, Entry
    <3> HIDE DEF new
    <3> QED BY <2>0, <3>1, <3>2 DEF Shown
  <2> QED BY <2>1, <2>2, <2>3, <2>4, <2>5 DEF Request
<1>3. Entries' = Entries /\ floor' = floor
  BY <1>1 DEF Entries, files, keychain
<1>4. \A s \in States :
        Usable(s)' => Shown(Entries[s]) /\ IntactFiles(Entries[s].current)
  BY <1>1, <1>3 DEF Usable, Shown, IntactFiles, files
<1>5. ASSUME NEW s \in States, Saving', op'.kind # "remove", Usable(s)'
      PROVE  Shown(op'.entries[s])
  BY <1>2, <1>4, <1>5 DEF Saving
<1> QED BY <1>1, <1>3, <1>5 DEF SavingInv, Shown

LEMMA AcceptSaving ==
  ASSUME NamesInv, ShapeInv, AcceptUpdate
  PROVE  SavingInv'
<1> DEFINE c == op.pin.content
           s == StateOf[c]
           new == Replacement(op.pin, op.entries[s])
<1>1. /\ c \in Contents /\ s \in States /\ op.entries \in Registry
      /\ op'.entries = [op.entries EXCEPT ![s] = new]
      /\ op'.pc = "backup" /\ new.current = op.pin /\ ~new.quarantined
  BY AcceptEntries DEF Replacement
<1>2. /\ UNCHANGED <<active, backup, sqlite, tiles>>
      /\ Entries' = Entries /\ op.entries = Entries /\ op.pin # NoPin
      /\ ~op.pin.signed => floor[s] = NoContent /\ floor' = floor
      /\ op.pin.signed => floor' = [floor EXCEPT ![s] = c]
  <2>1. /\ UNCHANGED <<active, backup, sqlite, tiles>> /\ op.pc = "accept"
        /\ IF op.pin.signed THEN floor' = RaisedFloor(s, c)
           ELSE floor' = floor
    BY DEF AcceptUpdate, files
  <2>2. op.entries = Entries /\ Entries' = Entries
    BY <2>1 DEF ShapeInv, InstallPoints, Entries
  <2>3. op.pin # NoPin
    BY <1>1, ConstantsAssumption DEF NoPin
  <2>4. ~op.pin.signed => floor[s] = NoContent
    BY <2>1 DEF NamesInv, AuthorizedInv, InstallPoints
  <2> QED BY <2>1, <2>2, <2>3, <2>4 DEF RaisedFloor
<1> HIDE DEF c, s, new
<1>3. ASSUME NEW t \in States
      PROVE  /\ Usable(t)' => Shown(op'.entries[t])
             /\ LET v == op'.entries[t].current IN
                v # NoPin /\ ~v.signed /\ floor'[t] # NoContent =>
                  v \in {Entries'[t].current, Entries'[t].previous}
  <2>1. CASE t = s
    <3>1. op'.entries[t] = new
      BY <1>1, <2>1 DEF Registry
    <3> QED BY <1>1, <1>2, <2>1, <3>1 DEF Shown
  <2>2. CASE t # s
    <3>1. op'.entries[t] = Entries[t] /\ Entries' = Entries
      BY <1>1, <1>2, <2>2 DEF Registry
    <3> QED BY <1>2, <3>1 DEF Usable, Shown
  <2> QED BY <2>1, <2>2
<1> QED BY <1>3 DEF SavingInv, Shown

LEMMA NextSaving ==
  ASSUME NamesInv, ShapeInv, SavingInv, [Next]_vars
  PROVE  SavingInv'
<1>0. op \in Operation
  BY DEF NamesInv, TypeInv, TypeOK
<1>1. CASE AcceptUpdate
  BY <1>1, AcceptSaving
<1>2. CASE Request /\ ~(ApproveSigner \/ RevokeSigner)
  BY <1>2, RequestSaving
<1>3. ASSUME ~Saving' PROVE SavingInv'
  BY <1>3 DEF SavingInv
<1>4. CASE ClearCatalog \/ PlaceCatalog \/ ClearTiles \/ PlaceTiles \/ Publish
           \/ EnsureCopy
  <2>1. op'.pc \in {"place", "extract", "tiles", "accept", "ensure", "discard"}
    BY <1>0, <1>4 DEF ClearCatalog, PlaceCatalog, ClearTiles, PlaceTiles,
       Publish, EnsureCopy, Advance, Operation
  <2> QED BY <1>3, <2>1 DEF Saving
<1>5. CASE InstallRefused \/ Discard \/ WriteFails \/ Relaunch
  <2>1. op' = Resting
    BY <1>5 DEF InstallRefused, Discard, WriteFails, Relaunch
  <2> QED BY <1>3, <2>1 DEF Saving, Resting
<1>6. CASE KeepCopy
  <2>1. /\ op.pc = "backup" /\ Entries' = Entries /\ op'.entries = op.entries
        /\ op'.kind = op.kind /\ UNCHANGED <<sqlite, tiles, rotten, floor>>
    BY <1>0, <1>6 DEF KeepCopy, Entries, Advance, Operation, keychain
  <2> QED BY <2>1 DEF SavingInv, Saving, Usable, Shown, IntactFiles
<1>7. CASE RegistryDamaged
  <2>1. op.kind = "none" /\ op' = op
    BY <1>7 DEF RegistryDamaged
  <2> QED BY <1>3, <2>1 DEF ShapeInv, Saving, Resting
<1>8. CASE (\E c \in Contents : Rot(c)) \/ ApproveSigner \/ RevokeSigner
           \/ UNCHANGED vars
  <2>1. /\ op' = op /\ Entries' = Entries /\ rotten \subseteq rotten'
        /\ sqlite' \subseteq sqlite /\ tiles' \subseteq tiles /\ floor' = floor
    BY <1>8 DEF Rot, ApproveSigner, RevokeSigner, vars, files, Entries, keychain
  <2> QED BY <2>1 DEF SavingInv, Saving, Usable, Shown, IntactFiles
<1> QED
  BY <1>1, <1>2, <1>4, <1>5, <1>6, <1>7, <1>8
     DEF Next, Step, Request, Environment

THEOREM SavingInvariant == Spec => []SavingInv
<1>1. Init => SavingInv
  <2>1. Init => ~Saving
    BY DEF Init, Saving, Resting
  <2> QED BY <2>1 DEF SavingInv
<1> QED
  BY <1>1, NextSaving, StoreInvariant, PTL DEF Spec, StoreInv

(* No step, of whatever operation, failure or restart, takes a whole map   *)
(* from a state that shows one, except remove, a damage and the loss of    *)
(* the registry.                                                           *)
THEOREM MapsStay == Spec => MapStays
<1>1. ASSUME StoreInv, SavingInv, [Next]_vars, NEW s \in States, Usable(s),
             rotten' \subseteq rotten, active'.status # "damaged",
             ~(op.kind = "remove" /\ op.pc = "publish"
               /\ ~Shown(op.entries[s])),
             ~(op.pc = "publish" /\ op.entries[s].current.content \in rotten)
      PROVE  Usable(s)'
  <2>0. NamesInv /\ ShapeInv /\ SoundInv /\ op \in Operation
    BY <1>1 DEF StoreInv, NamesInv, TypeInv, TypeOK
  <2>1. Shown(Entries[s]) /\ Kept(Entries[s].current)
        /\ IntactFiles(Entries[s].current)
        /\ Entries[s].current.content \notin rotten
    BY <1>1 DEF Usable, Kept
  <2>2. CASE Entries' = Entries /\ Load
    <3>1. UNCHANGED <<sqlite, tiles>>
      BY <2>2 DEF Load, files
    <3> QED BY <1>1, <2>1, <2>2, <3>1 DEF Usable, Shown, IntactFiles
  <2>3. CASE Entries' = Entries /\ ~Load
    <3>1. \A pin : pin = Entries[s].current => Kept(pin)'
      BY <1>1, <2>0, <2>1, <2>3, ShownStays
    <3> QED BY <1>1, <2>1, <2>3, <3>1 DEF Usable, Shown, Kept, IntactFiles
  <2>4. CASE Publish
    <3>1. /\ Entries' = op.entries /\ op.pc = "publish"
          /\ UNCHANGED <<sqlite, tiles, rotten>>
      BY <2>4 DEF Publish, Entries
    <3>2. Shown(op.entries[s])
      BY <1>1, <3>1 DEF SavingInv, Saving
    <3>3. Kept(op.entries[s].current)
      BY <2>0, <3>2 DEF SoundInv, Sound
    <3> QED BY <1>1, <3>1, <3>2, <3>3 DEF Usable, Shown, Kept, IntactFiles
  <2>5. CASE RegistryDamaged
    BY <1>1, <2>5 DEF RegistryDamaged
  <2> QED BY <1>1, <2>0, <2>2, <2>3, <2>4, <2>5, EntriesStep
<1>2. StoreInv /\ SavingInv /\ [Next]_vars =>
        [\A s \in States :
           Usable(s) =>
             \/ Usable(s)'
             \/ op.kind = "remove" /\ op.pc = "publish" /\ ~Shown(op.entries[s])
             \/ op.pc = "publish" /\ op.entries[s].current.content \in rotten
             \/ ~(rotten' \subseteq rotten)
             \/ active'.status = "damaged"]_vars
  BY <1>1
<1> QED BY <1>2, StoreInvariant, SavingInvariant, PTL DEF Spec, MapStays

(* Once an update of a state was accepted, no step, be it of a rollback or *)
(* of load's repair, brings a version of the build that the state had not  *)
(* kept.                                                                   *)
THEOREM BuildPinsStayBehind == Spec => NoBuildPinAfterUpdate
<1>1. ASSUME StoreInv, SavingInv, [Next]_vars, NEW s \in States,
             active'.status = "intact", floor[s] # NoContent,
             active'.entries[s].current # NoPin,
             ~active'.entries[s].current.signed
      PROVE  active'.entries[s].current
               \in {Entries[s].current, Entries[s].previous}
  <2>1. CASE active' = active
    BY <1>1, <2>1 DEF Entries
  <2>2. CASE Publish
    <3>1. active'.entries = op.entries /\ op.pc = "publish"
      BY <2>2 DEF Publish
    <3> QED BY <1>1, <3>1 DEF SavingInv, Saving
  <2>3. CASE RegistryDamaged
    BY <1>1, <2>3 DEF RegistryDamaged
  <2> QED
    BY <1>1, <2>1, <2>2, <2>3 DEF Next, Step, Request, Environment, Load,
       ApproveSigner, RevokeSigner, Install, Remove, Rollback,
       ToggleVisibility, ClearCatalog, PlaceCatalog, ClearTiles, PlaceTiles,
       AcceptUpdate, InstallRefused, KeepCopy, EnsureCopy, Discard,
       WriteFails, Relaunch, Rot, files, vars
<1>2. StoreInv /\ SavingInv /\ [Next]_vars =>
        [\A s \in States :
           LET new == active'.entries[s].current  old == Entries[s] IN
           active'.status = "intact" /\ floor[s] # NoContent
             /\ new # NoPin /\ ~new.signed
           => new \in {old.current, old.previous}]_vars
  BY <1>1
<1> QED
  BY <1>2, StoreInvariant, SavingInvariant, PTL DEF Spec, NoBuildPinAfterUpdate

-----------------------------------------------------------------------------
(* What the copy of the registry restores.                                 *)

(* The loader's inventory has one package of a state, and a laptop's       *)
(* updates of the state are newer than it.                                 *)
BuildsAreOldest ==
  \A b \in BuildPins, c \in Contents :
    StateOf[c] = StateOf[b] /\ c # b =>
      /\ c \notin BuildPins
      /\ Revision[c] > 0 => Revision[b] < Revision[c]

Named(entry) == {entry.current.content, entry.previous.content} \cap Contents

(* A state that shows a map in `entry' and did in `old' gets one from      *)
(* `old': the one it shows, or one that no install will replace, which is  *)
(* kept as the previous version or is marked as damaged.                   *)
Restores(old, entry, s) ==
  Shown(entry) /\ Shown(old) =>
    \/ entry.current.content \in Named(old)
    \/ /\ entry.previous.content \in Named(old)
       /\ Superseded(entry.previous.content, s)
       /\ Kept(entry.previous)
    \/ \E x \in Named(old) \ Named(entry) : x \in rotten /\ Superseded(x, s)

(* A version the registry names was lost, and load has not yet noticed.    *)
Unnoticed(s) ==
  /\ ~loaded /\ ~(op.kind = "load" /\ op.pc \in {"ensure", "discard"})
  /\ \E pin \in {active.entries[s].current, active.entries[s].previous} :
       pin # NoPin /\ ~Valid(pin)

CopyInv ==
  /\ active.status = "intact" /\ backup.status = "intact" =>
       \A s \in States :
         Restores(backup.entries[s], active.entries[s], s) \/ Unnoticed(s)
  /\ Saving => \A s \in States : Restores(Entries[s], op.entries[s], s)
  /\ op.pc = "publish" /\ backup.status = "intact" => backup.entries = Entries

LEMMA NamedOK ==
  ASSUME NEW entry, NEW s, EntryOK(entry, s), NEW x \in Named(entry)
  PROVE  x \in Contents /\ StateOf[x] = s /\ x # NoContent
BY ConstantsAssumption DEF Named, EntryOK, PinOK, NoPin

LEMMA ShownNamed ==
  ASSUME NEW entry, NEW s, EntryOK(entry, s), entry.current # NoPin
  PROVE  entry.current.content \in Named(entry)
BY DEF Named, EntryOK, PinOK

LEMMA SelfRestores ==
  ASSUME NEW entry, NEW s, EntryOK(entry, s)
  PROVE  Restores(entry, entry, s)
BY ShownNamed DEF Restores, Shown

LEMMA NextSuperseded ==
  ASSUME NamesInv, [Next]_vars, NEW x \in Contents, NEW s \in States,
         Superseded(x, s)
  PROVE  Superseded(x, s)'
<1>1. CASE AcceptUpdate
  BY <1>1, SupersededStays
<1>2. CASE floor' = floor
  BY <1>2 DEF Superseded
<1> QED
  BY <1>1, <1>2 DEF Next, Step, Request, Environment, Load,
     ApproveSigner, RevokeSigner, Install, Remove, Rollback, ToggleVisibility,
     ClearCatalog, PlaceCatalog, ClearTiles, PlaceTiles, InstallRefused,
     KeepCopy, Publish, EnsureCopy, Discard, WriteFails, Relaunch,
     RegistryDamaged, Rot, keychain, vars

(* The mark of a damage goes when load or the install of its content has   *)
(* seen the files.                                                         *)
LEMMA RottenStays ==
  ASSUME [Next]_vars, NEW x \in rotten
  PROVE  \/ x \in rotten'
         \/ Load /\ x \in Referenced(Entries)
         \/ AcceptUpdate /\ x = op.pin.content
BY DEF Next, Step, Request, Environment, Load,
     ApproveSigner, RevokeSigner, Install, Remove, Rollback, ToggleVisibility,
     ClearCatalog, PlaceCatalog, ClearTiles, PlaceTiles, AcceptUpdate,
     InstallRefused, KeepCopy, Publish, EnsureCopy, Discard, WriteFails,
     Relaunch, RegistryDamaged, Rot, vars

(* What the copy restores stays so, unless load finds the version damaged. *)
LEMMA RestoresStays ==
  ASSUME NamesInv, ShapeInv, [Next]_vars, active.status = "intact",
         NEW s \in States, NEW entry, NEW old, entry = active.entries[s],
         EntryOK(old, s), Restores(old, entry, s)
  PROVE  \/ Restores(old, entry, s)'
         \/ Load /\ entry.previous # NoPin /\ ~Valid(entry.previous)
<1>0. Entries = active.entries /\ RegistryOK(Entries) /\ EntryOK(entry, s)
  BY EntriesOK DEF Entries, NamesInv, RegistryOK
<1>1. SUFFICES ASSUME Shown(entry), Shown(old),
                      entry.current.content \notin Named(old)
               PROVE  \/ Restores(old, entry, s)'
                      \/ Load /\ entry.previous # NoPin /\ ~Valid(entry.previous)
  BY DEF Restores, Shown, Named
<1>2. ASSUME op.pc \in InstallPoints PROVE ~Superseded(op.pin.content, StateOf[op.pin.content])
  BY <1>2 DEF NamesInv, AuthorizedInv
<1>3. CASE /\ entry.previous.content \in Named(old)
           /\ Superseded(entry.previous.content, s)
           /\ Kept(entry.previous)
  <2> DEFINE pin == entry.previous
  <2>1. /\ pin.content \in Contents /\ StateOf[pin.content] = s
        /\ pin.content # NoContent /\ pin # NoPin
    BY <1>3, NamedOK DEF NoPin
  <2>2. pin.content \in Referenced(Entries)
    BY <1>0, <2>1 DEF Referenced
  <2>3. Superseded(pin.content, s)'
    BY <1>3, <2>1, NextSuperseded
  <2>4. pin.content \notin Leftover
    BY <2>2 DEF Leftover
  <2>5. ~(Discard /\ pin.content \in Obsolete)
    <3>1. Discard => op.entries = Entries
      BY DEF Discard, ShapeInv
    <3> QED BY <2>2, <3>1 DEF Obsolete, Unreferenced, ShapeInv
  <2>6. Kept(pin)' \/ Load
    BY <1>2, <1>3, <2>1, <2>4, <2>5, KeptStays
  <2>7. CASE Kept(pin)'
    BY <1>3, <2>3, <2>7 DEF Restores, Named
  <2>8. CASE Load /\ ~Kept(pin)'
    <3>1. ~Valid(pin)
      BY <2>8 DEF Load, files, Kept, Valid, IntactFiles
    <3> QED BY <2>1, <2>8, <3>1
  <2> QED BY <2>6, <2>7, <2>8
<1>4. CASE \E x \in Named(old) \ Named(entry) : x \in rotten /\ Superseded(x, s)
  <2>1. PICK x \in Named(old) \ Named(entry) : x \in rotten /\ Superseded(x, s)
    BY <1>4
  <2>2. x \in Contents /\ StateOf[x] = s
    BY <2>1, NamedOK
  <2>3. Superseded(x, s)'
    BY <2>1, <2>2, NextSuperseded
  <2>4. x \notin Referenced(Entries)
    <3>1. SUFFICES ASSUME NEW t \in States,
                          x \in {Entries[t].current.content,
                                 Entries[t].previous.content}
                   PROVE  FALSE
      BY DEF Referenced
    <3>2. x \in Named(Entries[t]) /\ EntryOK(Entries[t], t)
      BY <1>0, <2>2, <3>1 DEF Named, RegistryOK
    <3>3. t = s
      BY <2>2, <3>2, NamedOK
    <3> QED BY <1>0, <2>1, <3>2, <3>3
  <2>5. ~(AcceptUpdate /\ x = op.pin.content)
    BY <1>2, <2>1, <2>2 DEF AcceptUpdate, InstallPoints
  <2>6. x \in rotten'
    BY <2>1, <2>4, <2>5, RottenStays
  <2> QED BY <2>1, <2>3, <2>6 DEF Restores, Named
<1> QED BY <1>1, <1>3, <1>4 DEF Restores

LEMMA UnnoticedStays ==
  ASSUME NamesInv, ShapeInv, [Next]_vars, ~Publish, active' = active,
         active.status = "intact", NEW s \in States, Unnoticed(s)
  PROVE  Unnoticed(s)'
<1>0. TypeOK /\ op \in Operation /\ ~loaded /\ op.kind \in {"none", "load"}
      /\ Entries = active.entries
  BY DEF NamesInv, TypeInv, TypeOK, Unnoticed, ShapeInv, Entries
<1>1. PICK pin \in {active.entries[s].current, active.entries[s].previous} :
        pin # NoPin /\ ~Valid(pin)
  BY DEF Unnoticed
<1>2. op.pc \notin InstallPoints
  BY <1>0 DEF NamesInv, AuthorizedInv
<1>3. UNCHANGED signer /\ sqlite' \subseteq sqlite /\ tiles' \subseteq tiles
  BY <1>0, <1>2 DEF Next, Step, Request, Environment, Load,
     ApproveSigner, RevokeSigner, Install, Remove, Rollback, ToggleVisibility,
     ClearCatalog, PlaceCatalog, ClearTiles, PlaceTiles, AcceptUpdate,
     InstallRefused, KeepCopy, EnsureCopy, Discard, WriteFails, DeleteSome,
     Relaunch, RegistryDamaged, Rot, InstallPoints, files, keychain, vars
<1>4. ~Valid(pin)'
  BY <1>1, <1>3 DEF Valid, IntactFiles
<1>5. ~loaded' /\ ~(op'.kind = "load" /\ op'.pc \in {"ensure", "discard"})
  <2>1. CASE Load
    <3>1. op'.pc \in {"backup", "discard"} /\ ~loaded'
      BY <2>1 DEF Load, Begin
    <3>2. op'.pc # "discard"
      BY <1>0, <1>1, <2>1, NothingBad
    <3> QED BY <3>1, <3>2
  <2>2. CASE KeepCopy
    BY <1>0, <2>2 DEF KeepCopy, Advance, Operation
  <2>3. CASE EnsureCopy \/ Discard
    BY <1>0, <2>3 DEF EnsureCopy, Discard, Unnoticed, ShapeInv, Resting
  <2>4. CASE WriteFails \/ Relaunch \/ InstallRefused
    BY <1>0, <2>4 DEF WriteFails, Relaunch, InstallRefused, Resting
  <2>5. CASE op' = op /\ loaded' = loaded
    BY <2>5 DEF Unnoticed
  <2>6. CASE RegistryDamaged \/ (\E c \in Contents : Rot(c)) \/ UNCHANGED vars
    BY <2>5, <2>6 DEF RegistryDamaged, Rot, vars
  <2> QED
    BY <1>0, <1>2, <2>1, <2>2, <2>3, <2>4, <2>6 DEF Next, Step, Request,
       Environment, ApproveSigner, RevokeSigner, Install, Remove, Rollback,
       ToggleVisibility, ClearCatalog, PlaceCatalog, ClearTiles, PlaceTiles,
       AcceptUpdate, InstallPoints
<1>6. \A p : p = pin => ~Valid(p)'
  BY <1>4
<1>7. pin \in {active'.entries[s].current, active'.entries[s].previous}
  BY <1>1
<1> QED BY <1>1, <1>5, <1>6, <1>7 DEF Unnoticed, Valid, IntactFiles

(* Any request but an install makes a version of the entry the current one.*)
LEMMA RequestRestores ==
  ASSUME NamesInv, Request, ~(ApproveSigner \/ RevokeSigner), NEW s \in States
  PROVE  Restores(Entries[s], op.entries[s], s)'
<1>1. /\ UNCHANGED <<active, backup>>
      /\ op'.entries[s].current
           \in {Entries[s].current, Entries[s].previous, NoPin}
  BY RequestEntries DEF NamesInv, TypeInv, files
<1>2. Entries' = Entries /\ EntryOK(Entries[s], s)
  BY <1>1, EntriesOK DEF Entries, NamesInv, RegistryOK
<1>3. op'.entries[s].current # NoPin =>
        op'.entries[s].current.content \in Named(Entries[s])
  BY <1>1, <1>2 DEF EntryOK, PinOK, Named
<1> QED BY <1>2, <1>3 DEF Restores, Shown, Named

(* What an install replaces by another content will not be installed again.*)
LEMMA AcceptSupersedes ==
  ASSUME BuildsAreOldest, NamesInv, AcceptUpdate, NEW s, NEW pin,
         s = StateOf[op.pin.content], PinOK(pin, s), pin # NoPin,
         pin.content # op.pin.content
  PROVE  Superseded(pin.content, s)'
<1> DEFINE c == op.pin.content
           x == pin.content
<1>1. /\ c \in Contents /\ s \in States /\ op.pc = "accept"
      /\ x \in Contents /\ StateOf[x] = s
  BY AcceptEntries DEF AcceptUpdate, PinOK
<1>2. CASE op.pin.signed
  <2>1. floor' = [floor EXCEPT ![s] = c] /\ floor'[s] = c /\ c # NoContent
    BY <1>1, <1>2, AcceptFloor, ConstantsAssumption
       DEF NamesInv, TypeInv, TypeOK
  <2>2. CASE Superseded(x, s)
    BY <1>1, <2>2, SupersededStays
  <2>3. CASE pin.signed /\ x = floor[s]
    <3>1. /\ Revision[c] >= Revision[x] /\ Revision[c] # Revision[x]
          /\ Revision[c] \in Nat /\ Revision[x] \in Nat
      BY <1>1, <1>2, <2>3, AcceptFloor, ConstantsAssumption
    <3> QED BY <2>1, <3>1 DEF Superseded
  <2>4. CASE ~pin.signed
    <3>1. x \in BuildPins /\ Revision[c] > 0
      BY <1>1, <1>2, <2>4
         DEF PinOK, NamesInv, AuthorizedInv, InstallPoints
    <3>2. Revision[x] < Revision[c]
      BY <1>1, <3>1 DEF BuildsAreOldest
    <3> QED BY <2>1, <3>2 DEF Superseded
  <2> QED BY <2>2, <2>3, <2>4 DEF PinOK
<1>3. CASE ~op.pin.signed
  <2>1. c \in BuildPins /\ floor[s] = NoContent
    BY <1>1, <1>3 DEF NamesInv, AuthorizedInv, InstallPoints
  <2>2. x \in BuildPins
    BY <2>1 DEF PinOK
  <2> QED BY <1>1, <2>1, <2>2 DEF BuildsAreOldest
<1> QED BY <1>2, <1>3

(* An install leaves the version it replaces in the entry, or knows it for *)
(* damaged.                                                                *)
LEMMA AcceptRestores ==
  ASSUME BuildsAreOldest, NamesInv, ShapeInv, SoundInv, AcceptUpdate,
         NEW t \in States
  PROVE  Restores(Entries[t], op.entries[t], t)'
<1>0. SUFFICES ASSUME NEW old, old = Entries[t], NEW c, c = op.pin.content,
                      NEW new, new = op'.entries[t]
               PROVE  Restores(old, new, t)'
  <2>1. Entries' = Entries
    BY DEF AcceptUpdate, files, Entries
  <2> QED BY <2>1 DEF Restores, Shown, Named, Superseded, Kept, IntactFiles
<1>1. /\ c \in Contents /\ StateOf[c] \in States
      /\ op.entries = Entries /\ op.pc = "accept" /\ op.kind = "install"
      /\ loaded /\ Entries \in Registry
      /\ op'.entries = [Entries EXCEPT ![StateOf[c]] =
                          Replacement(op.pin, Entries[StateOf[c]])]
  BY <1>0, AcceptEntries DEF AcceptUpdate, ShapeInv, InstallPoints, NamesInv,
     AuthorizedInv
<1>2. UNCHANGED <<sqlite, tiles>> /\ rotten' = rotten \ {c}
  BY <1>0 DEF AcceptUpdate, files
<1>3. EntryOK(old, t)
  BY <1>0, EntriesOK DEF NamesInv, RegistryOK
<1>4. SUFFICES ASSUME Shown(old), new.current.content \notin Named(old)
               PROVE  Restores(old, new, t)'
  BY DEF Restores, Shown, Named
<1>5. old.current # NoPin /\ old.current.content \in Named(old)
      /\ old.current.content \in Contents /\ PinOK(old.current, t)
  BY <1>3, <1>4, ShownNamed, NamedOK DEF Shown, EntryOK
<1>6. t = StateOf[c] /\ new = Replacement(op.pin, old)
  <2>1. t # StateOf[c] => new = old
    BY <1>0, <1>1 DEF Registry
  <2> QED BY <1>0, <1>1, <1>4, <1>5, <2>1 DEF Registry
<1>7. /\ new.current.content = c /\ old.current.content # c
      /\ new.previous = IF Valid(old.current) THEN old.current ELSE NoPin
  <2>1. new.current.content = c
    BY <1>0, <1>6 DEF Replacement
  <2>2. old.current.content # c
    BY <1>4, <1>5, <2>1
  <2>3. new.previous = IF Valid(old.current) THEN old.current ELSE NoPin
    BY <1>0, <1>6, <2>2 DEF Replacement
  <2> QED BY <2>1, <2>2, <2>3
<1>8. Superseded(old.current.content, t)'
  BY <1>0, <1>5, <1>6, <1>7, AcceptSupersedes
<1>9. CASE Valid(old.current)
  <2>1. Kept(old.current)'
    BY <1>2, <1>9 DEF Kept, Valid, IntactFiles
  <2> QED BY <1>5, <1>7, <1>8, <1>9, <2>1 DEF Restores, Named
<1>10. CASE ~Valid(old.current)
  <2>1. old.current.content \notin Named(new)
    BY <1>5, <1>7, <1>10, ConstantsAssumption DEF Named, NoPin
  <2>2. Kept(old.current)
    BY <1>0, <1>1, <1>4 DEF SoundInv, Sound
  <2>3. ~IntactFiles(old.current)
    BY <1>0, <1>4, <1>10, WholeValid
  <2>4. old.current.content \in rotten'
    BY <1>2, <1>7, <2>2, <2>3 DEF Kept
  <2> QED BY <1>5, <1>8, <2>1, <2>4 DEF Restores, Named
<1> QED BY <1>9, <1>10

LEMMA NextCopy ==
  ASSUME BuildsAreOldest, NamesInv, ShapeInv, SoundInv, CopyInv, [Next]_vars
  PROVE  CopyInv'
<1>0. op \in Operation /\ RegistryOK(active.entries)
      /\ RegistryOK(backup.entries)
  BY DEF NamesInv, TypeInv, TypeOK, PinsInv
<1>1. ASSUME active'.status = "intact", backup'.status = "intact",
             NEW s \in States
      PROVE  Restores(backup.entries[s], active.entries[s], s)' \/ Unnoticed(s)'
  <2>1. CASE backup' = active /\ active' = active
    <3>1. \A entry : EntryOK(entry, s)' => Restores(entry, entry, s)'
      BY DEF EntryOK, PinOK, Restores, Shown, Named
    <3>2. PinsInv'
      BY NextPins
    <3>3. EntryOK(active.entries[s], s)'
      BY <3>2 DEF PinsInv, RegistryOK
    <3>4. \A entry : entry = active'.entries[s] => EntryOK(entry, s)'
      BY <3>3 DEF EntryOK, PinOK, Superseded
    <3> QED
      BY <2>1, <3>1, <3>4 DEF Restores, Shown, Named, Superseded, Kept, IntactFiles
  <2>2. CASE Publish
    <3>1. /\ op.pc = "publish" /\ backup' = backup
          /\ active'.entries = op.entries /\ backup.entries = Entries
          /\ UNCHANGED <<sqlite, tiles, rotten, floor>>
      BY <1>1, <2>2 DEF Publish, CopyInv, keychain
    <3>2. Restores(Entries[s], op.entries[s], s)
      BY <3>1 DEF CopyInv, Saving
    <3> QED
      BY <3>1, <3>2 DEF Restores, Shown, Named, Superseded, Kept, IntactFiles
  <2>3. CASE active' = active /\ backup' = backup /\ ~Publish
    <3>1. CASE Unnoticed(s)
      BY <1>1, <2>3, <3>1, UnnoticedStays
    <3>2. CASE Restores(backup.entries[s], active.entries[s], s)
      <4>1. \A old, entry :
              old = backup.entries[s] /\ entry = active.entries[s] =>
                \/ Restores(old, entry, s)'
                \/ Load /\ entry.previous # NoPin /\ ~Valid(entry.previous)
        BY <1>0, <1>1, <2>3, <3>2, RestoresStays DEF RegistryOK
      <4>2. CASE Load /\ active.entries[s].previous # NoPin
                 /\ ~Valid(active.entries[s].previous)
        <5>1. Entries = active.entries
          BY <1>1, <2>3 DEF Entries
        <5>2. op'.pc = "backup" /\ ~loaded'
          <6>1. op'.pc \in {"backup", "discard"} /\ ~loaded'
            BY <4>2 DEF Load, Begin
          <6>2. op'.pc # "discard"
            BY <4>2, <5>1, NothingBad DEF NamesInv, TypeInv
          <6> QED BY <6>1, <6>2
        <5>3. \A pin : pin = active.entries[s].previous => ~Valid(pin)'
          BY <4>2 DEF Load, files, keychain, Valid, IntactFiles
        <5> QED
          BY <2>3, <4>2, <5>2, <5>3 DEF Unnoticed, Valid, IntactFiles
      <4>3. CASE ~(Load /\ active.entries[s].previous # NoPin
                   /\ ~Valid(active.entries[s].previous))
        BY <2>3, <4>1, <4>3
           DEF Restores, Shown, Named, Superseded, Kept, IntactFiles
      <4> QED BY <4>2, <4>3
    <3> QED BY <1>1, <2>3, <3>1, <3>2 DEF CopyInv
  <2>4. active' = active \/ Publish
    <3>1. ~RegistryDamaged
      BY <1>1 DEF RegistryDamaged
    <3>2. CASE Request
      BY <3>2 DEF Request, Load, ApproveSigner, RevokeSigner, Install, Remove,
         Rollback, ToggleVisibility, files
    <3>3. CASE Step
      BY <3>3 DEF Step, ClearCatalog, PlaceCatalog, ClearTiles, PlaceTiles,
         AcceptUpdate, InstallRefused, KeepCopy, EnsureCopy, Discard, files
    <3>4. CASE WriteFails \/ Relaunch \/ (\E c \in Contents : Rot(c))
               \/ UNCHANGED vars
      BY <3>4 DEF WriteFails, Relaunch, Rot, files, vars
    <3> QED BY <3>1, <3>2, <3>3, <3>4 DEF Next, Environment
  <2>5. backup' \in {backup, active}
    BY RegistryFiles DEF NamesInv, TypeInv
  <2> QED BY <2>1, <2>2, <2>3, <2>4, <2>5
<1>2. ASSUME NEW s \in States, Saving'
      PROVE  Restores(Entries[s], op.entries[s], s)'
  <2>1. CASE Request /\ ~(ApproveSigner \/ RevokeSigner)
    BY <2>1, RequestRestores
  <2>2. CASE AcceptUpdate
    BY <2>2, AcceptRestores
  <2>3. CASE KeepCopy
    <3>1. /\ op.pc = "backup" /\ Entries' = Entries /\ op'.entries = op.entries
          /\ UNCHANGED <<sqlite, tiles, rotten, floor>>
      BY <1>0, <2>3 DEF KeepCopy, Entries, Advance, Operation, keychain
    <3>2. Restores(Entries[s], op.entries[s], s)
      BY <3>1 DEF CopyInv, Saving
    <3> QED
      BY <3>1, <3>2 DEF Restores, Shown, Named, Superseded, Kept, IntactFiles
  <2>4. CASE (\E c \in Contents : Rot(c)) \/ UNCHANGED vars
    <3>1. /\ op' = op /\ Entries' = Entries /\ floor' = floor
          /\ rotten \subseteq rotten' /\ Saving
          /\ \A pin : Kept(pin) => Kept(pin)'
      BY <1>2, <2>4 DEF Rot, vars, files, Entries, keychain, Saving, Kept,
         IntactFiles
    <3>2. Restores(Entries[s], op.entries[s], s)
      BY <3>1 DEF CopyInv
    <3>3. \A pin : pin = op.entries[s].previous /\ Kept(pin) => Kept(pin)'
      BY <3>1
    <3> QED
      BY <3>1, <3>2, <3>3 DEF Restores, Shown, Named, Superseded, Kept,
         IntactFiles
  <2>5. CASE ApproveSigner \/ RevokeSigner \/ RegistryDamaged
    <3>1. op.kind = "none" /\ op' = op
      BY <2>5 DEF ApproveSigner, RevokeSigner, RegistryDamaged
    <3> QED BY <1>2, <3>1 DEF ShapeInv, Saving, Resting
  <2>6. CASE ClearCatalog \/ PlaceCatalog \/ ClearTiles \/ PlaceTiles
             \/ Publish \/ EnsureCopy
    <3>1. op'.pc \in {"place", "extract", "tiles", "accept", "ensure", "discard"}
      BY <1>0, <2>6 DEF ClearCatalog, PlaceCatalog, ClearTiles, PlaceTiles,
         Publish, EnsureCopy, Advance, Operation
    <3> QED BY <1>2, <3>1 DEF Saving
  <2>7. CASE InstallRefused \/ Discard \/ WriteFails \/ Relaunch
    <3>1. op' = Resting
      BY <2>7 DEF InstallRefused, Discard, WriteFails, Relaunch
    <3> QED BY <1>2, <3>1 DEF Saving, Resting
  <2> QED
    BY <2>1, <2>2, <2>3, <2>4, <2>5, <2>6, <2>7
       DEF Next, Step, Request, Environment
<1>3. ASSUME op'.pc = "publish", backup'.status = "intact"
      PROVE  backup'.entries = Entries'
  <2>1. CASE KeepCopy
    BY <1>3, <2>1 DEF KeepCopy, Entries
  <2>2. CASE op' = op /\ UNCHANGED <<active, backup>>
    BY <1>3, <2>2 DEF CopyInv, Entries
  <2>3. CASE (\E c \in Contents : Rot(c)) \/ UNCHANGED vars
    BY <2>2, <2>3 DEF Rot, vars
  <2>4. CASE ApproveSigner \/ RevokeSigner \/ RegistryDamaged
    <3>1. op.kind = "none" /\ op' = op
      BY <2>4 DEF ApproveSigner, RevokeSigner, RegistryDamaged
    <3> QED BY <1>3, <3>1 DEF ShapeInv, Resting
  <2>5. CASE ClearCatalog \/ PlaceCatalog \/ ClearTiles \/ PlaceTiles
             \/ Publish \/ EnsureCopy
    <3>1. op'.pc \in {"place", "extract", "tiles", "accept", "ensure", "discard"}
      BY <1>0, <2>5 DEF ClearCatalog, PlaceCatalog, ClearTiles, PlaceTiles,
         Publish, EnsureCopy, Advance, Operation
    <3> QED BY <1>3, <3>1
  <2>6. CASE InstallRefused \/ Discard \/ WriteFails \/ Relaunch
    <3>1. op' = Resting
      BY <2>6 DEF InstallRefused, Discard, WriteFails, Relaunch
    <3> QED BY <1>3, <3>1 DEF Resting
  <2>7. CASE AcceptUpdate
    BY <1>3, <2>7, AcceptEntries
  <2>8. CASE Request /\ ~(ApproveSigner \/ RevokeSigner)
    <3>1. Load => op'.pc \in {"backup", "discard"}
      BY DEF Load, Begin
    <3>2. \A pin \in Candidates : Install(pin) => op'.pc = "clear"
      BY DEF Install, Begin
    <3>3. \A s \in States : Remove(s) => op'.pc = "backup"
      BY DEF Remove, Begin
    <3>4. \A s \in States : Rollback(s) => op'.pc = "backup"
      BY DEF Rollback, Begin
    <3>5. \A s \in States : ToggleVisibility(s) => op'.pc = "backup"
      BY DEF ToggleVisibility, Begin
    <3> QED BY <1>3, <2>8, <3>1, <3>2, <3>3, <3>4, <3>5 DEF Request
  <2> QED
    BY <2>1, <2>3, <2>4, <2>5, <2>6, <2>7, <2>8
       DEF Next, Step, Request, Environment
<1>4. (op.pc = "publish" /\ backup.status = "intact" => backup.entries = Entries)'
  BY <1>3
<1>5. (active.status = "intact" /\ backup.status = "intact" =>
         \A s \in States :
           Restores(backup.entries[s], active.entries[s], s) \/ Unnoticed(s))'
  BY <1>1
<1>6. (Saving => \A s \in States : Restores(Entries[s], op.entries[s], s))'
  BY <1>2
<1> QED BY <1>4, <1>5, <1>6 DEF CopyInv

(* Were the registry lost, its copy would give every state that shows a    *)
(* map, and did before the last change, a whole one, provided the package  *)
(* of the build is the oldest of its state.                                *)
THEOREM CopyRestores ==
  ASSUME BuildsAreOldest
  PROVE  Spec => []CopyRecovers
<1>1. Init => CopyInv
  <2>1. Init => active.status = "absent" /\ ~Saving /\ op.pc # "publish"
    BY DEF Init, NoFile, Saving, Resting
  <2> QED BY <2>1 DEF CopyInv
<1>2. StoreInv /\ CopyInv /\ [Next]_vars => CopyInv'
  BY NextCopy DEF StoreInv
<1>3. ASSUME StoreInv, CopyInv PROVE CopyRecovers
  <2>1. SUFFICES ASSUME loaded, active.status = "intact",
                        backup.status = "intact", NEW s \in States,
                        Usable(s), Shown(backup.entries[s])
                 PROVE  LET old == backup.entries[s] IN
                        \/ Valid(old.current) \/ Valid(old.previous)
                        \/ {old.current.content, old.previous.content}
                             \cap rotten # {}
    BY DEF CopyRecovers
  <2> DEFINE old == backup.entries[s]
             entry == active.entries[s]
  <2>2. Entries[s] = entry /\ EntryOK(old, s)
    BY <2>1, <1>3 DEF Entries, StoreInv, NamesInv, PinsInv, RegistryOK
  <2>3. Restores(old, entry, s) /\ Shown(entry) /\ Shown(old)
    BY <1>3, <2>1, <2>2 DEF CopyInv, Unnoticed, Usable
  <2>4. ASSUME NEW pin, pin.content \in Named(old), Kept(pin)
        PROVE  \/ Valid(old.current) \/ Valid(old.previous)
               \/ pin.content \in rotten
    <3>1. \A q \in {old.current, old.previous} :
            q.content = pin.content /\ IntactFiles(pin) => Valid(q)
      BY <2>2, <2>4, NamedOK DEF EntryOK, PinOK, Valid, IntactFiles, NoPin
    <3> QED BY <2>4, <3>1 DEF Named, Kept
  <2>5. CASE entry.current.content \in Named(old)
    <3>1. Kept(entry.current)
      BY <2>1, <2>2 DEF Usable, Kept
    <3> QED BY <2>4, <2>5, <3>1 DEF Named
  <2>6. CASE entry.previous.content \in Named(old) /\ Kept(entry.previous)
    BY <2>4, <2>6 DEF Named
  <2>7. CASE \E x \in Named(old) : x \in rotten
    BY <2>7 DEF Named
  <2> QED BY <2>3, <2>5, <2>6, <2>7 DEF Restores
<1> QED BY <1>1, <1>2, <1>3, StoreInvariant, PTL DEF Spec
=============================================================================
