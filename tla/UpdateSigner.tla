---------------------------- MODULE UpdateSigner ----------------------------
(***************************************************************************)
(* The laptop's package server from its start to its end: the lock that    *)
(* lets one process at a time use the signing identity, the identity file  *)
(* with the key and the revision of the package last signed, the helper    *)
(* process that switches the Wi-Fi hotspot on and off again, and the close *)
(* that gives everything back in order.  Processes start at any time, may  *)
(* be told to stop after any step, may die at any step, and leave behind   *)
(* what a dead process leaves: its lock, its staging file and a helper     *)
(* that notices the closed pipe.                                           *)
(*                                                                         *)
(* One state's package stands for all; a key is named by the process that  *)
(* generated it; Revision 0 is a state that was never signed.              *)
(***************************************************************************)
EXTENDS Integers

CONSTANTS
  Pids,               \* the processes that are started; a pid is not reused
  None,               \* no process, no key, no content
  Contents,           \* contents the public package can have
  MaxClock,           \* the clock reads 1..MaxClock milliseconds
  MaxFaults,          \* bound on faults, rebuilds and clock changes
  Faults,             \* the kinds that may happen
  ConcurrentTakeover  \* may two starts judge one stale lock at once?

ASSUME NoneAssumption == None \notin Pids \cup Contents
ASSUME BoundAssumption ==
  /\ MaxClock \in Nat \ {0}
  /\ MaxFaults \in Nat
  /\ Faults \subseteq {"crash", "disk", "hotspot", "stuck", "rebuild", "clock"}
  /\ ConcurrentTakeover \in BOOLEAN

VARIABLES
  lock,      \* identity.lock: the process that created it, and whether its pid is in it
  identity,  \* identity.json
  staging,   \* identity.json.staging
  server,    \* each process
  helper,    \* each process's hotspot helper
  radio,     \* is Mobile hotspot on?
  wanted,    \* was it on before any server started?
  package,   \* the verified content of the package on disk
  clock,
  shared,    \* the snapshot a phone read last: key, revision, content
  warned,    \* was the user told to turn the hotspot off by hand?
  faults

disk == <<lock, identity, staging>>
hotspot == <<helper, radio, wanted, warned>>
world == <<package, clock, faults>>
vars == <<lock, identity, staging, server, hotspot, package, clock, shared, faults>>

----------------------------------------------------------------------------
(* The parts.                                                              *)

NoLock == [owner |-> None, written |-> FALSE]
Snapshot ==
  [key : Pids \cup {None}, revision : Nat, basis : Contents \cup {None}]
NoIdentity == [key |-> None, revision |-> 0, basis |-> None]

\* A start, in order; "stop" and "release" are the close that ends it.
Opening == {"idle", "inspect", "takeover", "reopen"}
Holding == {"write", "load", "stage", "keep", "hotspot", "waiting",
            "verify", "listen", "open", "stop", "release"}
Gone == {"dead", "ended"}
Server ==
  [phase : Opening \cup Holding \cup Gone, aborted : BOOLEAN,
   versions : Snapshot, next : Snapshot]
IdleServer ==
  [phase |-> "idle", aborted |-> FALSE,
   versions |-> NoIdentity, next |-> NoIdentity]
Helper == [state : {"none", "starting", "up", "ready", "stopping", "gone"},
           startedHere : BOOLEAN]
NoHelper == [state |-> "none", startedHere |-> FALSE]

Init ==
  /\ lock = NoLock
  /\ identity = NoIdentity
  /\ staging = NoIdentity
  /\ server = [p \in Pids |-> IdleServer]
  /\ helper = [p \in Pids |-> NoHelper]
  /\ radio \in BOOLEAN
  /\ wanted = radio
  /\ package \in Contents
  /\ clock \in 1 .. MaxClock
  /\ shared = NoIdentity
  /\ warned = FALSE
  /\ faults = 0

----------------------------------------------------------------------------
(* Helpers of the actions.                                                 *)

Phase(p) == server[p].phase
Alive(p) == Phase(p) \notin Gone \cup {"idle"}
Goes(p, phase) == server' = [server EXCEPT ![p].phase = phase]
Running(p) == helper[p].state \in {"starting", "up", "ready"}

\* Closing its pipe or telling it to stop is one thing to the helper.
ToldToStop(p) ==
  IF Running(p) THEN [helper EXCEPT ![p].state = "stopping"] ELSE helper

Fault(kind) ==
  /\ kind \in Faults
  /\ faults < MaxFaults
  /\ faults' = faults + 1

----------------------------------------------------------------------------
(* loadLaptopUpdateSigner: the lock, the key and the first write.          *)

CreateLock(p) == lock' = [owner |-> p, written |-> FALSE]

OpenLock(p) ==
  /\ Phase(p) = "idle"
  /\ \/ lock = NoLock /\ CreateLock(p) /\ Goes(p, "write")
     \/ lock # NoLock /\ Goes(p, "inspect") /\ UNCHANGED lock
  /\ UNCHANGED <<identity, staging, hotspot, world, shared>>

\* Mutant: whoever left a lock is taken to be dead.
StaleUnasked == lock # NoLock /\ lock.written

\* A lock that cannot be parsed, or whose process runs, ends this start; so
\* does one that was released since.
Stale == lock # NoLock /\ lock.written /\ ~Alive(lock.owner)

InspectLock(p) ==
  /\ Phase(p) = "inspect"
  /\ \/ /\ Stale
        /\ ConcurrentTakeover \/ \A q \in Pids : Phase(q) # "takeover"
        /\ Goes(p, "takeover")
     \/ ~Stale /\ Goes(p, "ended")
  /\ UNCHANGED <<disk, hotspot, world, shared>>

UnlinkStale(p) ==
  /\ Phase(p) = "takeover"
  /\ Goes(p, IF lock = NoLock THEN "ended" ELSE "reopen")
  /\ lock' = NoLock
  /\ UNCHANGED <<identity, staging, hotspot, world, shared>>

ReopenLock(p) ==
  /\ Phase(p) = "reopen"
  /\ \/ lock = NoLock /\ CreateLock(p) /\ Goes(p, "write")
     \/ lock # NoLock /\ Goes(p, "ended") /\ UNCHANGED lock
  /\ UNCHANGED <<identity, staging, hotspot, world, shared>>

\* The handle writes to the file it opened, even if the name is another's now.
WritePid(p) ==
  /\ Phase(p) = "write"
  /\ lock' = IF lock.owner = p THEN [lock EXCEPT !.written = TRUE] ELSE lock
  /\ Goes(p, "load")
  /\ UNCHANGED <<identity, staging, hotspot, world, shared>>

LoadIdentity(p) ==
  /\ Phase(p) = "load"
  /\ LET source == IF identity = NoIdentity
                   THEN [NoIdentity EXCEPT !.key = p] ELSE identity
     IN server' = [server EXCEPT ![p].phase = "stage",
                                 ![p].versions = source, ![p].next = source]
  /\ UNCHANGED <<disk, hotspot, world, shared>>

----------------------------------------------------------------------------
(* seal: reserve the revision on disk, then sign.                          *)

StageIdentity(p) ==
  /\ Phase(p) = "stage"
  /\ staging' = server[p].next
  /\ Goes(p, "keep")
  /\ UNCHANGED <<lock, identity, hotspot, world, shared>>

\* The first seal, of nothing, only keeps the key; the second is the catalog's.
Sealing(p) == helper[p].state # "none"
KeepIdentity(p) ==
  /\ Phase(p) = "keep"
  /\ staging # NoIdentity
  /\ identity' = staging
  /\ staging' = NoIdentity
  /\ server' = [server EXCEPT
       ![p].phase = IF Sealing(p) THEN "listen" ELSE "hotspot",
       ![p].versions = server[p].next]
  /\ UNCHANGED <<lock, hotspot, world, shared>>

\* Mutant: a new content is numbered by the clock alone.
ReservedByClock(versions, content) ==
  IF versions.basis = content THEN versions
  ELSE [versions EXCEPT !.basis = content, !.revision = clock]

\* Mutant: a new content is numbered downwards.
ReservedBelow(versions, content) ==
  IF versions.basis = content THEN versions
  ELSE [versions EXCEPT !.basis = content, !.revision = @ - 1]

\* The revision of this content: the one it has, or a new and higher one.
Reserved(versions, content) ==
  IF versions.basis = content THEN versions
  ELSE [versions EXCEPT
          !.basis = content,
          !.revision = IF clock > versions.revision THEN clock
                       ELSE versions.revision + 1]

VerifyPackages(p) ==
  /\ Phase(p) = "verify"
  /\ ~server[p].aborted
  /\ server' = [server EXCEPT ![p].phase = "stage",
       ![p].next = Reserved(server[p].versions, package)]
  /\ UNCHANGED <<disk, hotspot, world, shared>>

\* Only a server that listens has shown its key and its catalog to a phone.
Listen(p) ==
  /\ Phase(p) = "listen"
  /\ ~server[p].aborted
  /\ Goes(p, "open")
  /\ shared' = server[p].versions
  /\ UNCHANGED <<disk, hotspot, world>>

----------------------------------------------------------------------------
(* The hotspot helper, a process of its own.                               *)

StartHotspot(p) ==
  /\ Phase(p) = "hotspot"
  /\ ~server[p].aborted
  /\ Goes(p, "waiting")
  /\ helper' = [helper EXCEPT ![p].state = "starting"]
  /\ UNCHANGED <<disk, radio, wanted, warned, world, shared>>

\* Mutant: what was on before is not noticed.
HelperTakesOver(p) ==
  /\ helper[p].state = "starting"
  /\ helper' = [helper EXCEPT ![p] = [state |-> "up", startedHere |-> TRUE]]
  /\ radio' = TRUE
  /\ UNCHANGED <<disk, server, wanted, warned, world, shared>>

HelperSwitchesOn(p) ==
  /\ helper[p].state = "starting"
  /\ helper' = [helper EXCEPT ![p] = [state |-> "up", startedHere |-> ~radio]]
  /\ radio' = TRUE
  /\ UNCHANGED <<disk, server, wanted, warned, world, shared>>

HelperReady(p) ==
  /\ helper[p].state = "up"
  /\ radio
  /\ Phase(p) = "waiting"
  /\ ~server[p].aborted
  /\ helper' = [helper EXCEPT ![p].state = "ready"]
  /\ Goes(p, "verify")
  /\ UNCHANGED <<disk, radio, wanted, warned, world, shared>>

\* It finds the hotspot off, or changed.
HelperFails(p) ==
  /\ helper[p].state \in {"up", "ready"}
  /\ \/ ~radio /\ UNCHANGED faults
     \/ Fault("hotspot")
  /\ helper' = [helper EXCEPT ![p].state = "stopping"]
  /\ UNCHANGED <<disk, server, radio, wanted, warned, package, clock, shared>>

\* Its finally block: off again, if this helper switched it on.
HelperEnds(p) ==
  /\ helper[p].state = "stopping"
  /\ helper' = [helper EXCEPT ![p].state = "gone"]
  /\ radio' = (radio /\ ~helper[p].startedHere)
  /\ UNCHANGED <<disk, server, wanted, warned, world, shared>>

\* The server hears of the error, or of the end, at some later time.
Disconnect(p) ==
  /\ Phase(p) \in {"waiting", "verify", "stage", "keep", "listen", "open"}
  /\ helper[p].state \in {"stopping", "gone"}
  /\ ~server[p].aborted
  /\ server' = [server EXCEPT ![p].aborted = TRUE]
  /\ UNCHANGED <<disk, hotspot, world, shared>>

----------------------------------------------------------------------------
(* Stopping: by the user at any time, seen between the steps of the start. *)

Abort(p) ==
  /\ Alive(p)
  /\ ~server[p].aborted
  /\ server' = [server EXCEPT ![p].aborted = TRUE]
  /\ UNCHANGED <<disk, hotspot, world, shared>>

Close(p) ==
  /\ Phase(p) \in {"hotspot", "waiting", "verify", "listen", "open"}
  /\ server[p].aborted
  /\ Goes(p, "stop")
  /\ helper' = ToldToStop(p)
  /\ UNCHANGED <<disk, radio, wanted, warned, world, shared>>

\* The lock is kept until the helper is gone.
HotspotClosed(p) ==
  /\ Phase(p) = "stop"
  /\ helper[p].state \in {"none", "gone"}
  /\ Goes(p, "release")
  /\ UNCHANGED <<disk, hotspot, world, shared>>

\* After 75 s the helper is killed, and the user is told.
HotspotStuck(p) ==
  /\ Phase(p) = "stop"
  /\ helper[p].state = "stopping"
  /\ Fault("stuck")
  /\ helper' = [helper EXCEPT ![p].state = "gone"]
  /\ warned' = TRUE
  /\ Goes(p, "release")
  /\ UNCHANGED <<disk, radio, wanted, package, clock, shared>>

ReleaseLock(p) ==
  /\ Phase(p) = "release"
  /\ lock' = NoLock
  /\ Goes(p, "ended")
  /\ UNCHANGED <<identity, staging, hotspot, world, shared>>

\* A write fails: while loading, the lock is released; in the catalog's
\* seal, the start is closed like a stop.
WriteFails(p) ==
  /\ Fault("disk")
  /\ \/ /\ Phase(p) \in {"write", "stage", "keep"}
        /\ ~Sealing(p)
        /\ lock' = NoLock
        /\ Goes(p, "ended")
        /\ UNCHANGED helper
     \/ /\ Phase(p) \in {"stage", "keep"} /\ Sealing(p)
        /\ Goes(p, "stop")
        /\ helper' = ToldToStop(p)
        /\ UNCHANGED lock
  /\ UNCHANGED <<identity, staging, radio, wanted, warned, package, clock, shared>>

Crash(p) ==
  /\ Alive(p)
  /\ Fault("crash")
  /\ Goes(p, "dead")
  /\ helper' = ToldToStop(p)
  /\ UNCHANGED <<disk, radio, wanted, warned, package, clock, shared>>

Rebuild ==
  /\ Fault("rebuild")
  /\ package' \in Contents \ {package}
  /\ UNCHANGED <<disk, server, hotspot, clock, shared>>

SetClock ==
  /\ Fault("clock")
  /\ clock' \in (1 .. MaxClock) \ {clock}
  /\ UNCHANGED <<disk, server, hotspot, package, shared>>

----------------------------------------------------------------------------

Step(p) ==
  \/ InspectLock(p) \/ UnlinkStale(p) \/ ReopenLock(p) \/ WritePid(p)
  \/ LoadIdentity(p) \/ StageIdentity(p) \/ KeepIdentity(p)
  \/ StartHotspot(p) \/ VerifyPackages(p) \/ Listen(p)
  \/ Close(p) \/ HotspotClosed(p) \/ ReleaseLock(p)

HelperStep(p) ==
  \/ HelperSwitchesOn(p) \/ HelperReady(p) \/ HelperEnds(p)
  \/ HelperFails(p)

Next ==
  \/ \E p \in Pids :
       \/ OpenLock(p) \/ Step(p) \/ HelperStep(p)
       \/ Abort(p) \/ Disconnect(p)
       \/ HotspotStuck(p) \/ WriteFails(p) \/ Crash(p)
  \/ Rebuild
  \/ SetClock

Spec == Init /\ [][Next]_vars

----------------------------------------------------------------------------
(* What is checked.                                                        *)

(* Every variable stays in its set.                                        *)
TypeOK ==
  /\ lock \in [owner : Pids \cup {None}, written : BOOLEAN]
  /\ identity \in Snapshot
  /\ staging \in Snapshot
  /\ server \in [Pids -> Server]
  /\ helper \in [Pids -> Helper]
  /\ radio \in BOOLEAN /\ wanted \in BOOLEAN /\ warned \in BOOLEAN
  /\ package \in Contents
  /\ clock \in 1 .. MaxClock
  /\ shared \in Snapshot
  /\ faults \in 0 .. MaxFaults

(* At most one process is between its lock and its release: "One writer    *)
(* across laptop server processes prevents counter/key races."             *)
OneWriter ==
  \A p, q \in Pids : Phase(p) \in Holding /\ Phase(q) \in Holding => p = q

(* A phone that keeps coming back always meets the key it trusts, and a    *)
(* revision that is the one it has, of the same content, or a higher one:  *)
(* whatever died, however the clock was set, whatever was rebuilt.         *)
Continues(old, new) ==
  \/ old = NoIdentity
  \/ /\ new.key = old.key
     /\ \/ new.revision > old.revision
        \/ new.revision = old.revision /\ new.basis = old.basis
RevisionsGrow == [][Continues(shared, shared')]_shared

(* Once no helper is left, the hotspot is as it was before the servers,    *)
(* unless the user was told to turn it off; also after a server that died  *)
(* and one that began while the dead one's helper was still cleaning up.   *)
HotspotRestored ==
  ~warned /\ (\A p \in Pids : helper[p].state \in {"none", "gone"})
    => radio = wanted

(* A server that ended on its own, early or late, left neither its lock    *)
(* nor its helper.                                                         *)
EndedLeavesNothing ==
  \A p \in Pids : Phase(p) = "ended" =>
    lock.owner # p /\ helper[p].state \in {"none", "gone"}

(* A server that ended left no lock and no helper (EndedLeavesNothing), and *)
(* in the end the hotspot is as it was found (HotspotRestored).            *)
LeftAsFound == HotspotRestored /\ EndedLeavesNothing
=============================================================================
