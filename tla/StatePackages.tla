--------------------------- MODULE StatePackages ---------------------------
(***************************************************************************)
(* The store of downloadable state maps on the phone                       *)
(* (OpenOutdoorStatePackages.swift) with the trust it keeps in laptops     *)
(* that sign updates (OpenOutdoorStateUpdateTrust.swift).                  *)
(*                                                                         *)
(* A package is two files, the SQLite catalog and the map tiles extracted  *)
(* from it, named by their content.  active.json says which content each   *)
(* state shows and which one it may roll back to; active.previous.json is  *)
(* the copy before the last change.  The Keychain holds the signing keys   *)
(* and, per state, the newest update accepted (its floor).                 *)
(*                                                                         *)
(* Grain of atomicity.  All operations run on one serial queue, so there   *)
(* is at most one, `op`; but each writes several files, and the process    *)
(* may end, or a write fail, between any two of them.  One step of the     *)
(* model is one file or Keychain write.                                    *)
(*                                                                         *)
(* Left out: sizes and free space (a refusal changes nothing), the staging *)
(* files (no other operation reads them), searching.                       *)
(***************************************************************************)
EXTENDS Integers

CONSTANTS
  States,       \* US states
  Contents,     \* package contents, each known by its SHA-256
  StateOf,      \* content -> state
  Date,         \* content -> generatedAt
  BuildPins,    \* contents in the allowlist of this app build
  Revision,     \* content -> revision of its signed manifest, 0 if none
  NoContent,    \* where no content is
  MaxFaults,    \* bound: faults of the environment in one behaviour
  Faults        \* the kinds of fault the environment may produce

FaultKinds == {"io",         \* a write or a file attribute fails
               "crash",      \* the process ends and is started again
               "rot",        \* an installed file becomes unreadable
               "registry"}   \* active.json is found damaged at a start

ASSUME ConstantsAssumption ==
  /\ NoContent \notin Contents
  /\ StateOf \in [Contents -> States]
  /\ Date \in [Contents -> Nat]
  /\ Revision \in [Contents -> Nat]
  /\ BuildPins \subseteq Contents
  /\ MaxFaults \in Nat
  /\ Faults \subseteq FaultKinds

VARIABLES
  active,       \* active.json
  backup,       \* active.previous.json
  sqlite,       \* contents whose catalog file is intact
  tiles,        \* contents whose tiles file is intact
  floor,        \* Keychain: state -> content of its highest accepted update
  signer,       \* Keychain: the laptop's key is unknown, trusted or revoked
  loaded,       \* load() has returned: useStatePackages is ready
  recovered,    \* registryRecovered
  op,           \* the operation under way and where it is
  rotten,       \* contents damaged since they were last verified
  faults        \* faults so far

files    == <<active, backup, sqlite, tiles>>
keychain == <<floor, signer>>
vars     == <<active, backup, sqlite, tiles, floor, signer, loaded,
              recovered, op, rotten, faults>>

ContentOrNone == Contents \cup {NoContent}

(* A content and whether its authority is a signed ticket (Pin.update).    *)
Pin == [content : ContentOrNone, signed : BOOLEAN]
NoPin == [content |-> NoContent, signed |-> FALSE]

Entry == [current : Pin, previous : Pin, visible : BOOLEAN,
          quarantined : BOOLEAN]
NoEntry == [current |-> NoPin, previous |-> NoPin, visible |-> FALSE,
            quarantined |-> FALSE]

Registry == [States -> Entry]
EmptyRegistry == [s \in States |-> NoEntry]

RegistryFile == [status : {"absent", "intact", "damaged"},
                 entries : Registry]

OpKinds == {"none", "load", "install", "remove", "rollback", "visibility"}

(* Where an operation is: what it writes next.                             *)
(*   clear, place      install: remove an old catalog file, put the new    *)
(*   extract, tiles    extractTiles: the same for the tiles                *)
(*   accept            install: the floor in the Keychain                  *)
(*   backup, publish,  save: the copy of the old registry, the new one,    *)
(*   ensure            and a first copy if there was none                  *)
(*   discard           remove and pruneUnreferenced: files no longer used  *)
OpPoints == {"rest", "clear", "place", "extract", "tiles", "accept",
             "backup", "publish", "ensure", "discard"}

Operation == [kind : OpKinds, pc : OpPoints, pin : Pin, entries : Registry,
              retired : SUBSET Contents]

Resting == [kind |-> "none", pc |-> "rest", pin |-> NoPin,
            entries |-> EmptyRegistry, retired |-> {}]

TypeOK ==
  /\ active \in RegistryFile
  /\ backup \in RegistryFile
  /\ sqlite \in SUBSET Contents
  /\ tiles \in SUBSET Contents
  /\ floor \in [States -> ContentOrNone]
  /\ signer \in {"unknown", "trusted", "revoked"}
  /\ loaded \in BOOLEAN
  /\ recovered \in BOOLEAN
  /\ op \in Operation
  /\ rotten \in SUBSET Contents
  /\ faults \in Nat

NoFile == [status |-> "absent", entries |-> EmptyRegistry]

Init ==
  /\ active = NoFile
  /\ backup = NoFile
  /\ sqlite = {}
  /\ tiles = {}
  /\ floor = [s \in States |-> NoContent]
  /\ signer = "unknown"
  /\ loaded = FALSE
  /\ recovered = FALSE
  /\ op = Resting
  /\ rotten = {}
  /\ faults = 0

Fault(kind) ==
  /\ kind \in Faults
  /\ faults < MaxFaults
  /\ faults' = faults + 1

-----------------------------------------------------------------------------
(* Reading the registry and judging what it names.                         *)

(* entries() returns, and whether it had to fall back to the copy.         *)
CanRead == \/ active.status = "intact" \/ backup.status = "intact"
           \/ active.status = "absent" /\ backup.status = "absent"
FallsBack == active.status # "intact" /\ backup.status = "intact"
Entries == IF active.status = "intact" THEN active.entries
           ELSE IF backup.status = "intact" THEN backup.entries
           ELSE EmptyRegistry

IntactFiles(pin) == pin.content \in sqlite \cap tiles

(* valid(): a signed pin stays valid when its key is revoked.              *)
Valid(pin) == IntactFiles(pin) /\ (pin.signed => signer # "unknown")

Installed(registry, s) == registry[s].current # NoPin
Shown(entry) == entry.current # NoPin /\ ~entry.quarantined

(* list() returns: it opens the catalog of every entry it does not report  *)
(* as damaged.                                                             *)
CanList(registry) ==
  \A s \in States :
    Shown(registry[s]) => registry[s].current.content \in sqlite

CurrentOnly(registry) ==
  {c \in Contents : \E s \in States : c = registry[s].current.content}

Referenced(registry) ==
  {c \in Contents : \E s \in States :
     c \in {registry[s].current.content, registry[s].previous.content}}

(* What load() makes of an entry: a damaged previous version is dropped,   *)
(* a damaged current one is replaced by it or quarantined.                 *)
VerifiedPrevious(entry) ==
  IF Valid(entry.previous) THEN entry.previous ELSE NoPin

TrustingCheck(entry) == [entry EXCEPT !.previous = VerifiedPrevious(entry)]

Checked(entry) ==
  LET previous == VerifiedPrevious(entry) IN
  IF entry.current = NoPin \/ Valid(entry.current)
  THEN [entry EXCEPT !.previous = previous]
  ELSE IF previous # NoPin
  THEN [entry EXCEPT !.current = previous, !.previous = NoPin,
                     !.quarantined = FALSE]
  ELSE [entry EXCEPT !.previous = NoPin, !.visible = FALSE,
                     !.quarantined = TRUE]

-----------------------------------------------------------------------------
(* Trust.                                                                  *)

(* The replay check of inspect(): no older revision, no other content      *)
(* under the same one, no older packaging date.                            *)
StrictlyAbove(c) ==
  LET f == floor[StateOf[c]] IN
  f # NoContent => Revision[c] > Revision[f] /\ Date[c] >= Date[f]

AboveFloor(c) ==
  LET f == floor[StateOf[c]] IN
  f # NoContent => /\ Revision[c] >= Revision[f]
                   /\ Revision[c] = Revision[f] => c = f
                   /\ Date[c] >= Date[f]

UncheckedFloor(s, c) == [floor EXCEPT ![s] = IF @ = NoContent THEN c ELSE @]

RevisionAsFloor(s, c) == [floor EXCEPT ![s] = Revision[c]]

RaisedFloor(s, c) == [floor EXCEPT ![s] = c]

(* approve() and revoke(), offered while nothing else is under way.        *)
ApproveSigner ==
  /\ loaded /\ op.kind = "none"
  /\ signer' = "trusted"
  /\ UNCHANGED <<files, floor, loaded, recovered, op, rotten, faults>>

RevokeSigner ==
  /\ loaded /\ op.kind = "none"
  /\ signer = "trusted"
  /\ signer' = "revoked"
  /\ UNCHANGED <<files, floor, loaded, recovered, op, rotten, faults>>

(* preflight() of a pin against the registry: a signed one must be by a    *)
(* trusted key, above the floor and no older than what the state shows; a  *)
(* build-pinned one is refused once an update of its state was accepted.   *)
NotOlder(c, entry) ==
  Shown(entry) => /\ entry.current.content \in sqlite
                  /\ Date[c] >= Date[entry.current.content]

Supported(s) == \E b \in BuildPins : StateOf[b] = s

FloorForgotten(pin, registry) ==
  IF pin.signed
  THEN /\ Revision[pin.content] > 0 /\ signer = "trusted"
       /\ AboveFloor(pin.content)
  ELSE pin.content \in BuildPins

Authorized(pin, registry) ==
  LET c == pin.content  s == StateOf[c] IN
  IF pin.signed
  THEN /\ Revision[c] > 0 /\ Supported(s) /\ signer = "trusted"
       /\ AboveFloor(c)
       /\ NotOlder(c, registry[s])
  ELSE c \in BuildPins /\ floor[s] = NoContent

-----------------------------------------------------------------------------
(* The beginning of each operation.                                        *)

Begin(kind, pc, pin, registry, retired) ==
  op' = [kind |-> kind, pc |-> pc, pin |-> pin, entries |-> registry,
         retired |-> retired]

Unreferenced(registry) == Contents \ Referenced(registry)

(* load(): checks every entry and saves the registry if anything changed.  *)
Load ==
  /\ ~loaded /\ op.kind = "none"
  /\ CanRead
  /\ LET checked == [s \in States |-> Checked(Entries[s])]
         bad == \E s \in States :
                  \/ checked[s].previous # Entries[s].previous
                  \/ Installed(Entries, s) /\ ~Valid(Entries[s].current)
     IN /\ recovered' = (recovered \/ FallsBack)
        /\ IF bad \/ recovered'
           THEN Begin("load", "backup", NoPin, checked, {})
           ELSE Begin("load", "discard", NoPin, checked, {})
  /\ rotten' = rotten \ Referenced(Entries)
  /\ UNCHANGED <<files, keychain, loaded, faults>>


Install(pin) ==
  /\ loaded /\ op.kind = "none"
  /\ CanRead
  /\ LET entry == Entries[StateOf[pin.content]] IN
     ~(/\ Shown(entry) /\ entry.current.content = pin.content
       /\ Valid(pin))
  /\ Authorized(pin, Entries)
  /\ Begin("install", "clear", pin, Entries, {})
  /\ recovered' = (recovered \/ FallsBack)
  /\ UNCHANGED <<files, keychain, loaded, rotten, faults>>

Remove(s) ==
  /\ loaded /\ op.kind = "none"
  /\ CanRead /\ Installed(Entries, s)
  /\ Begin("remove", "backup", NoPin, [Entries EXCEPT ![s] = NoEntry],
           {Entries[s].current.content, Entries[s].previous.content}
             \ {NoContent})
  /\ recovered' = (recovered \/ FallsBack)
  /\ UNCHANGED <<files, keychain, loaded, rotten, faults>>

Rollback(s) ==
  /\ loaded /\ op.kind = "none"
  /\ CanRead /\ Installed(Entries, s) /\ Valid(Entries[s].previous)
  /\ Begin("rollback", "backup", NoPin,
           [Entries EXCEPT ![s].current = Entries[s].previous,
                           ![s].previous = Entries[s].current,
                           ![s].quarantined = FALSE], {})
  /\ recovered' = (recovered \/ FallsBack)
  /\ UNCHANGED <<files, keychain, loaded, rotten, faults>>

ToggleVisibility(s) ==
  /\ loaded /\ op.kind = "none"
  /\ CanRead /\ Shown(Entries[s])
  /\ Begin("visibility", "backup", NoPin,
           [Entries EXCEPT ![s].visible = ~@], {})
  /\ recovered' = (recovered \/ FallsBack)
  /\ UNCHANGED <<files, keychain, loaded, rotten, faults>>

-----------------------------------------------------------------------------
(* The steps of an install up to the registry.                             *)

Advance(pc) == op' = [op EXCEPT !.pc = pc]

ClearCatalog ==
  /\ op.pc = "clear"
  /\ sqlite' = sqlite \ {op.pin.content}
  /\ Advance("place")
  /\ UNCHANGED <<active, backup, tiles, keychain, loaded, recovered, rotten,
                 faults>>

PlaceCatalog ==
  /\ op.pc = "place"
  /\ sqlite' = sqlite \cup {op.pin.content}
  /\ Advance("extract")
  /\ UNCHANGED <<active, backup, tiles, keychain, loaded, recovered, rotten,
                 faults>>

ClearTiles ==
  /\ op.pc = "extract" /\ op.pin.content \in sqlite
  /\ tiles' = tiles \ {op.pin.content}
  /\ Advance("tiles")
  /\ UNCHANGED <<active, backup, sqlite, keychain, loaded, recovered, rotten,
                 faults>>

PlaceTiles ==
  /\ op.pc = "tiles"
  /\ tiles' = tiles \cup {op.pin.content}
  /\ Advance("accept")
  /\ UNCHANGED <<active, backup, sqlite, keychain, loaded, recovered, rotten,
                 faults>>

(* The entry an install publishes over the one it replaces.                *)
Replacement(pin, replaced) ==
  LET prior == IF replaced.current.content = pin.content
               THEN replaced.previous ELSE replaced.current
  IN [current |-> pin,
      previous |-> IF Valid(prior) THEN prior ELSE NoPin,
      visible |-> replaced = NoEntry \/ replaced.quarantined
                    \/ replaced.visible,
      quarantined |-> FALSE]

(* valid(pin), then trust().accept, then the entry to publish.             *)
AcceptUpdate ==
  /\ op.pc = "accept" /\ Valid(op.pin)
  /\ LET c == op.pin.content  s == StateOf[c] IN
     /\ IF op.pin.signed
        THEN /\ signer = "trusted" /\ AboveFloor(c)
             /\ floor' = RaisedFloor(s, c)
        ELSE UNCHANGED floor
     /\ op' = [op EXCEPT !.pc = "backup",
                         !.entries[s] = Replacement(op.pin, @)]
     /\ rotten' = rotten \ {c}
  /\ UNCHANGED <<files, signer, loaded, recovered, faults>>

-----------------------------------------------------------------------------
(* save(): the copy of the last registry, the new one, a first copy.       *)

KeepCopy ==
  /\ op.pc = "backup"
  /\ backup' = IF active.status = "intact" THEN active ELSE backup
  /\ Advance("publish")
  /\ UNCHANGED <<active, sqlite, tiles, keychain, loaded, recovered, rotten,
                 faults>>

Publish ==
  /\ op.pc = "publish"
  /\ active' = [status |-> "intact", entries |-> op.entries]
  /\ Advance("ensure")
  /\ UNCHANGED <<backup, sqlite, tiles, keychain, loaded, recovered, rotten,
                 faults>>

FirstCopy == IF backup.status = "absent" THEN active ELSE backup

EnsureCopy ==
  /\ op.pc = "ensure"
  /\ backup' = FirstCopy
  /\ recovered' = FALSE
  /\ Advance("discard")
  /\ UNCHANGED <<active, sqlite, tiles, keychain, loaded, rotten, faults>>

(* After the registry: remove deletes its files, load and install list the *)
(* packages and prune the files nothing refers to.  Each deletion may fail *)
(* silently.                                                               *)
Obsolete ==
  IF op.kind = "remove" THEN op.retired
  ELSE IF op.kind \in {"load", "install"} /\ CanList(op.entries)
  THEN Unreferenced(op.entries)
  ELSE {}

DeleteSome(contents) ==
  \E a \in SUBSET contents, b \in SUBSET contents :
    /\ sqlite' = sqlite \ a
    /\ tiles' = tiles \ b

Discard ==
  /\ op.pc = "discard"
  /\ DeleteSome(Obsolete)
  /\ loaded' = (loaded \/ (op.kind = "load" /\ CanList(op.entries)))
  /\ op' = Resting
  /\ UNCHANGED <<active, backup, keychain, recovered, rotten, faults>>

-----------------------------------------------------------------------------
(* Failures.                                                               *)

(* The deferred clean-up of an install that was not activated: its files   *)
(* go unless the registry refers to them.                                  *)
EveryLeftover ==
  IF op.kind = "install" /\ op.pc # "discard" THEN {op.pin.content} ELSE {}

Leftover ==
  IF op.kind = "install" /\ op.pc # "discard" /\ CanRead
  THEN {op.pin.content} \ Referenced(Entries)
  ELSE {}

(* A file or its attributes cannot be written: the operation ends.  The    *)
(* first copy may be there although its attributes could not be set; after *)
(* every other write that is the same as the failure of the next one.      *)
WriteFails ==
  /\ op.kind # "none" /\ Fault("io")
  /\ DeleteSome(Leftover)
  /\ \/ UNCHANGED backup
     \/ op.pc = "ensure" /\ backup' = FirstCopy
  /\ op' = Resting
  /\ UNCHANGED <<active, keychain, loaded, recovered, rotten>>

(* extractTiles cannot open the catalog, or valid(pin) finds a damage.     *)
InstallRefused ==
  /\ \/ op.pc = "extract" /\ op.pin.content \notin sqlite
     \/ op.pc = "accept" /\ ~Valid(op.pin)
  /\ DeleteSome(Leftover)
  /\ op' = Resting
  /\ UNCHANGED <<active, backup, keychain, loaded, recovered, rotten, faults>>

(* A file becomes unreadable where it lies.                                *)
Rot(c) ==
  /\ Fault("rot")
  /\ \/ /\ c \in sqlite /\ sqlite' = sqlite \ {c}
        /\ UNCHANGED tiles
     \/ /\ c \in tiles /\ tiles' = tiles \ {c}
        /\ UNCHANGED sqlite
  /\ rotten' = rotten \cup {c}
  /\ UNCHANGED <<active, backup, keychain, loaded, recovered, op>>

(* The process ends wherever it is and starts again; active.json may have  *)
(* been damaged meanwhile.                                                 *)
Relaunch ==
  /\ loaded \/ op.kind # "none"
  /\ Fault("crash")
  /\ loaded' = FALSE /\ recovered' = FALSE /\ op' = Resting
  /\ UNCHANGED <<files, keychain, rotten>>

RegistryDamaged ==
  /\ ~loaded /\ op.kind = "none"
  /\ Fault("registry")
  /\ active.status = "intact"
  /\ active' = [status |-> "damaged", entries |-> EmptyRegistry]
  /\ UNCHANGED <<backup, sqlite, tiles, keychain, loaded, recovered, op,
                 rotten>>

-----------------------------------------------------------------------------
Step ==
  \/ ClearCatalog \/ PlaceCatalog \/ ClearTiles \/ PlaceTiles
  \/ AcceptUpdate \/ InstallRefused
  \/ KeepCopy \/ Publish \/ EnsureCopy \/ Discard

Candidates == {[content |-> c, signed |-> b] : c \in Contents, b \in BOOLEAN}

Request ==
  \/ Load
  \/ ApproveSigner \/ RevokeSigner
  \/ \E pin \in Candidates : Install(pin)
  \/ \E s \in States : Remove(s) \/ Rollback(s) \/ ToggleVisibility(s)

Environment ==
  \/ WriteFails \/ Relaunch \/ RegistryDamaged
  \/ \E c \in Contents : Rot(c)

Next == Step \/ Request \/ Environment

Spec == Init /\ [][Next]_vars
-----------------------------------------------------------------------------
(* Properties.                                                             *)

(* What a state shows is whole: once the packages are loaded and no        *)
(* operation is under way, each shown map has its catalog and its tiles,   *)
(* unless they were damaged after they were last verified.  Failed and     *)
(* interrupted installs, clean-ups and prunes leave no gap, whatever they  *)
(* followed (load, install, change).                                       *)
ShownIsWhole ==
  loaded /\ op.kind = "none" /\ active.status = "intact" =>
    \A s \in States :
      Shown(active.entries[s]) =>
        \/ IntactFiles(active.entries[s].current)
        \/ active.entries[s].current.content \in rotten

(* A map in use stays in use: a state that shows a whole map still shows   *)
(* one after every step, be it of an install that fails, of a clean-up, of *)
(* load's repair or of the end of the process, except where the user       *)
(* removes it or a file is damaged.                                        *)
Usable(s) ==
  LET entry == Entries[s] IN
  /\ Shown(entry)
  /\ IntactFiles(entry.current) /\ entry.current.content \notin rotten

MapStays ==
  [][\A s \in States :
       Usable(s) =>
         \/ Usable(s)'
         \/ op.kind = "remove" /\ op.pc = "publish" /\ ~Shown(op.entries[s])
         \/ op.pc = "publish" /\ op.entries[s].current.content \in rotten
         \/ ~(rotten' \subseteq rotten)
         \/ active'.status = "damaged"]_vars

(* The copy of the registry is of use: were active.json lost now, each     *)
(* state that shows a map and did before the last change would be restored *)
(* to a whole one, the current or the previous of the copy.                *)
CopyRecovers ==
  loaded /\ active.status = "intact" /\ backup.status = "intact" =>
    \A s \in States :
      Usable(s) /\ Shown(backup.entries[s]) =>
        LET old == backup.entries[s] IN
        \/ Valid(old.current) \/ Valid(old.previous)
        \/ {old.current.content, old.previous.content} \cap rotten # {}

(* Replay protection: no signed update named in a registry, the copy       *)
(* included, is newer than the floor kept in the Keychain, and none is     *)
(* there without a floor.  The floor is written first, so this holds       *)
(* between the two writes, after removal, rollback and recovery.           *)
UnderFloor(pin) ==
  pin.signed => /\ pin.content \in Contents
                /\ LET f == floor[StateOf[pin.content]]
                   IN f # NoContent /\ Revision[pin.content] <= Revision[f]

Covered(registry) ==
  \A s \in States : /\ UnderFloor(registry[s].current)
                    /\ UnderFloor(registry[s].previous)

FloorCovers == Covered(active.entries) /\ Covered(backup.entries)

(* A state once updated by a laptop never goes to a file of the build's    *)
(* allowlist that it did not retain: a build-pinned version that becomes   *)
(* current was the state's current or previous version before that step.   *)
NoBuildPinAfterUpdate ==
  [][\A s \in States :
       LET new == active'.entries[s].current  old == Entries[s] IN
       active'.status = "intact" /\ floor[s] # NoContent
         /\ new # NoPin /\ ~new.signed
       => new \in {old.current, old.previous}]_vars

(* "The exact candidate can be retried" (LAPTOP_STATE_UPDATES.md:31): the   *)
(* newest update of a state comes to be shown if its key stays trusted,    *)
(* one of the two registries and the catalog shown stay readable, though   *)
(* writes fail and the app is killed at any point of earlier attempts.     *)
Newest(c) ==
  /\ Revision[c] > 0 /\ Supported(StateOf[c])
  /\ \A d \in Contents \ {c} :
       StateOf[d] = StateOf[c] => Revision[d] < Revision[c]
                                  /\ Date[d] <= Date[c]

Showing(c) == /\ active.status = "intact"
              /\ active.entries[StateOf[c]].current.content = c

RetrySucceeds ==
  \A c \in Contents :
    Newest(c) =>
      (<>[](signer = "trusted" /\ CanRead /\ CanList(Entries)) => <>Showing(c))

(* The queue runs what it was given; a user who sees a failed start opens  *)
(* the app again, and one who wants an update asks for it again.           *)
Fairness ==
  /\ WF_vars(Step) /\ WF_vars(Load)
  /\ \A pin \in Candidates : SF_vars(Install(pin))

FairSpec == Spec /\ Fairness

-----------------------------------------------------------------------------
(* What a guide says and the code does not keep.                           *)

(* LAPTOP_STATE_UPDATES.md:29, "Exact retries/reinstallation of the latest *)
(* accepted snapshot are allowed, including after rollback": the content   *)
(* of the floor passes preflight while its key is trusted and the catalog  *)
(* shown can be read.                                                      *)
LatestReinstallable ==
  loaded /\ op.kind = "none" /\ signer = "trusted" /\ CanList(Entries) =>
    \A s \in States :
      floor[s] # NoContent =>
        Authorized([content |-> floor[s], signed |-> TRUE], Entries)
=============================================================================
