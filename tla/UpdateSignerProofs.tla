------------------------- MODULE UpdateSignerProofs -------------------------
(***************************************************************************)
(* Proofs about UpdateSigner, for any number of processes, contents, clock *)
(* values and faults of every kind: the type invariant; that one process   *)
(* at a time holds the signing identity, provided no two starts judge a    *)
(* stale lock at once; from that, that what a phone is shown continues     *)
(* what it was shown before; and that the servers leave the hotspot as     *)
(* they found it.                                                          *)
(***************************************************************************)
EXTENDS UpdateSigner, TLAPS

-----------------------------------------------------------------------------
(* Types.                                                                  *)

Phases == Opening \cup Holding \cup Gone

LEMMA NothingTypes ==
  /\ NoIdentity \in Snapshot
  /\ IdleServer \in Server
  /\ NoHelper \in Helper
  /\ NoLock \in [owner : Pids \cup {None}, written : BOOLEAN]
BY DEF NoIdentity, Snapshot, IdleServer, Server, Opening, NoHelper, Helper,
       NoLock

LEMMA GoesTypes ==
  ASSUME server \in [Pids -> Server], NEW p \in Pids, NEW phase \in Phases,
         Goes(p, phase)
  PROVE  server' \in [Pids -> Server]
BY DEF Goes, Server, Phases

LEMMA AbortTypes ==
  ASSUME server \in [Pids -> Server], NEW p \in Pids,
         server' = [server EXCEPT ![p].aborted = TRUE]
  PROVE  server' \in [Pids -> Server]
BY DEF Server

LEMMA ToldTypes ==
  ASSUME helper \in [Pids -> Helper], NEW p \in Pids
  PROVE  ToldToStop(p) \in [Pids -> Helper]
BY DEF ToldToStop, Running, Helper

LEMMA FaultTypes ==
  ASSUME faults \in 0 .. MaxFaults, NEW kind, Fault(kind)
  PROVE  faults' \in 0 .. MaxFaults
BY BoundAssumption DEF Fault

LEMMA ReservedTypes ==
  ASSUME clock \in 1 .. MaxClock, NEW versions \in Snapshot,
         NEW content \in Contents
  PROVE  Reserved(versions, content) \in Snapshot
<1> DEFINE revision == IF clock > versions.revision THEN clock
                       ELSE versions.revision + 1
<1>1. revision \in Nat
  BY BoundAssumption DEF Snapshot
<1> HIDE DEF revision
<1>2. [versions EXCEPT !.basis = content, !.revision = revision] \in Snapshot
  BY <1>1 DEF Snapshot
<1> QED
  BY <1>2 DEF Reserved, revision

LEMMA InitTypes == Init => TypeOK
<1>1. 1 .. MaxClock \subseteq Nat /\ 0 \in 0 .. MaxFaults
  BY BoundAssumption
<1> QED
  BY <1>1, NothingTypes DEF Init, TypeOK

-----------------------------------------------------------------------------
(* Every step keeps every variable in its set.                             *)

LEMMA LockTypes ==
  ASSUME TypeOK, NEW p \in Pids,
         OpenLock(p) \/ InspectLock(p) \/ UnlinkStale(p) \/ ReopenLock(p)
           \/ WritePid(p) \/ ReleaseLock(p)
  PROVE  TypeOK'
<1>1. server' \in [Pids -> Server]
  BY GoesTypes DEF TypeOK, OpenLock, InspectLock, UnlinkStale, ReopenLock,
     WritePid, ReleaseLock, Phases, Opening, Holding, Gone
<1>2. lock' \in [owner : Pids \cup {None}, written : BOOLEAN]
  <2>1. CASE WritePid(p)
    BY <2>1 DEF TypeOK, WritePid
  <2>2. CASE CreateLock(p)
    BY <2>2 DEF CreateLock
  <2> QED
    BY <2>1, <2>2, NothingTypes DEF TypeOK, OpenLock, InspectLock,
       UnlinkStale, ReopenLock, ReleaseLock, disk
<1> QED
  BY <1>1, <1>2 DEF TypeOK, OpenLock, InspectLock, UnlinkStale, ReopenLock,
     WritePid, ReleaseLock, disk, hotspot, world

LEMMA IdentityTypes ==
  ASSUME TypeOK, NEW p \in Pids,
         LoadIdentity(p) \/ StageIdentity(p) \/ KeepIdentity(p)
           \/ VerifyPackages(p) \/ Listen(p)
  PROVE  TypeOK'
<1>1. server' \in [Pids -> Server]
  <2>1. CASE LoadIdentity(p)
    <3> DEFINE source == IF identity = NoIdentity
                         THEN [NoIdentity EXCEPT !.key = p] ELSE identity
    <3>1. source \in Snapshot
      BY NothingTypes DEF TypeOK, NoIdentity, Snapshot
    <3> HIDE DEF source
    <3> DEFINE loaded == [server[p] EXCEPT !.phase = "stage",
                                !.versions = source, !.next = source]
    <3>2. server' = [server EXCEPT ![p] = loaded]
      BY <2>1 DEF LoadIdentity, source, TypeOK
    <3>3. loaded \in Server
      BY <3>1 DEF TypeOK, Server, Holding
    <3> QED BY <3>2, <3>3 DEF TypeOK
  <2>2. CASE StageIdentity(p) \/ Listen(p)
    BY <2>2, GoesTypes DEF TypeOK, StageIdentity, Listen, Phases, Holding
  <2>3. CASE KeepIdentity(p)
    <3> DEFINE kept == [server[p] EXCEPT
                          !.phase = IF Sealing(p) THEN "listen" ELSE "hotspot",
                          !.versions = server[p].next]
    <3>1. server' = [server EXCEPT ![p] = kept]
      BY <2>3 DEF KeepIdentity, TypeOK
    <3>2. kept \in Server
      BY DEF TypeOK, Server, Holding
    <3> QED BY <3>1, <3>2 DEF TypeOK
  <2>4. CASE VerifyPackages(p)
    <3>1. Reserved(server[p].versions, package) \in Snapshot
      BY ReservedTypes DEF TypeOK, Server
    <3> QED
      BY <2>4, <3>1, ZenonT(60) DEF TypeOK, VerifyPackages, Server, Holding
  <2> QED BY <2>1, <2>2, <2>3, <2>4
<1>2. {identity', staging', shared'} \subseteq Snapshot
  BY NothingTypes DEF TypeOK, LoadIdentity, StageIdentity, KeepIdentity,
     VerifyPackages, Listen, disk, Server
<1> QED
  BY <1>1, <1>2 DEF TypeOK, LoadIdentity, StageIdentity, KeepIdentity,
     VerifyPackages, Listen, disk, hotspot, world

LEMMA HelperTypes ==
  ASSUME TypeOK, NEW p \in Pids, HelperStep(p) \/ StartHotspot(p)
  PROVE  TypeOK'
<1>1. server' \in [Pids -> Server]
  BY GoesTypes DEF TypeOK, HelperStep, HelperSwitchesOn, HelperReady,
     HelperEnds, HelperFails, StartHotspot, Phases, Holding
<1>2. helper' \in [Pids -> Helper] /\ radio' \in BOOLEAN
  <2>1. CASE HelperSwitchesOn(p)
    <3> DEFINE up == [state |-> "up", startedHere |-> ~radio]
    <3>1. up \in Helper
      BY DEF TypeOK, Helper
    <3> HIDE DEF up
    <3>2. helper' = [helper EXCEPT ![p] = up] /\ radio' = TRUE
      BY <2>1 DEF HelperSwitchesOn, up
    <3> QED BY <3>1, <3>2 DEF TypeOK
  <2>2. CASE HelperEnds(p)
    BY <2>2 DEF TypeOK, HelperEnds, Helper
  <2> QED
    BY <2>1, <2>2 DEF TypeOK, HelperStep, HelperReady, HelperFails,
       StartHotspot, Helper
<1>3. faults' \in 0 .. MaxFaults
  BY FaultTypes DEF TypeOK, HelperStep, HelperSwitchesOn, HelperReady,
     HelperEnds, HelperFails, StartHotspot, world
<1> QED
  BY <1>1, <1>2, <1>3 DEF TypeOK, HelperStep, HelperSwitchesOn, HelperReady,
     HelperEnds, HelperFails, StartHotspot, disk, world

LEMMA StopTypes ==
  ASSUME TypeOK, NEW p \in Pids,
         Abort(p) \/ Disconnect(p) \/ Close(p) \/ HotspotClosed(p)
  PROVE  TypeOK'
<1>1. server' \in [Pids -> Server]
  BY GoesTypes, AbortTypes DEF TypeOK, Abort, Disconnect, Close,
     HotspotClosed, Phases, Holding
<1>2. helper' \in [Pids -> Helper]
  BY ToldTypes DEF TypeOK, Abort, Disconnect, Close, HotspotClosed, hotspot
<1> QED
  BY <1>1, <1>2 DEF TypeOK, Abort, Disconnect, Close, HotspotClosed, disk,
     hotspot, world

LEMMA FaultyTypes ==
  ASSUME TypeOK, NEW p \in Pids, HotspotStuck(p) \/ WriteFails(p) \/ Crash(p)
  PROVE  TypeOK'
<1>1. server' \in [Pids -> Server]
  BY GoesTypes DEF TypeOK, HotspotStuck, WriteFails, Crash, Phases, Holding,
     Gone
<1>2. helper' \in [Pids -> Helper]
  <2>1. CASE HotspotStuck(p)
    BY <2>1 DEF TypeOK, HotspotStuck, Helper
  <2> QED
    BY <2>1, ToldTypes DEF TypeOK, WriteFails, Crash
<1>3. faults' \in 0 .. MaxFaults
  BY FaultTypes DEF TypeOK, HotspotStuck, WriteFails, Crash
<1>4. lock' \in [owner : Pids \cup {None}, written : BOOLEAN]
  BY NothingTypes DEF TypeOK, HotspotStuck, WriteFails, Crash, disk
<1> QED
  BY <1>1, <1>2, <1>3, <1>4 DEF TypeOK, HotspotStuck, WriteFails, Crash, disk

LEMMA NextTypes == TypeOK /\ [Next]_vars => TypeOK'
<1> SUFFICES ASSUME TypeOK, [Next]_vars PROVE TypeOK'
    OBVIOUS
<1>1. CASE Rebuild \/ SetClock
  BY <1>1, FaultTypes DEF TypeOK, Rebuild, SetClock, disk, hotspot
<1>2. CASE UNCHANGED vars
  BY <1>2 DEF TypeOK, vars, hotspot
<1> QED
  BY <1>1, <1>2, LockTypes, IdentityTypes, HelperTypes, StopTypes,
     FaultyTypes DEF Next, Step

(* Every variable stays in its set, in every behaviour (TypeOK): the       *)
(* revisions, which only an addition bounds from below, among them.        *)
THEOREM SignerTypes == Spec => []TypeOK
BY InitTypes, NextTypes, PTL DEF Spec
-----------------------------------------------------------------------------
(* One writer.  OneWriter is not inductive: it needs that a holder's lock  *)
(* is in the file, that a start which will unlink the lock has seen the    *)
(* lock of a dead process, and that no second start has seen it too.  The  *)
(* last is what ConcurrentTakeover = FALSE assumes and the code does not   *)
(* ensure.                                                                 *)

LockInv ==
  /\ \A p \in Pids : Phase(p) \in Holding => lock.owner = p
  /\ \A p \in Pids : Phase(p) = "takeover" =>
       lock.owner \in Pids /\ Phase(lock.owner) = "dead"
  /\ \A p, q \in Pids :
       Phase(p) = "takeover" /\ Phase(q) = "takeover" => p = q
  /\ lock.owner \in Pids => Phase(lock.owner) \in Holding \cup {"dead"}
  /\ lock.owner = None => lock = NoLock

(* Only p moves.                                                           *)
Others(p) == \A q \in Pids \ {p} : Phase(q)' = Phase(q)

LEMMA GoesMoves ==
  ASSUME TypeOK, NEW p \in Pids, NEW phase, Goes(p, phase)
  PROVE  Others(p) /\ Phase(p)' = phase
BY DEF TypeOK, Goes, Others, Phase, Server

LEMMA PhasesApart ==
  /\ Holding \cap ({"idle", "inspect", "takeover", "reopen"} \cup Gone) = {}
  /\ "dead" \in Gone
BY DEF Holding, Gone

LEMMA QuietMove ==
  ASSUME TypeOK, LockInv, NEW p \in Pids, lock' = lock, Others(p),
         \/ Phase(p)' = Phase(p)
         \/ Phase(p) \in Holding /\ Phase(p)' \in Holding
         \/ Phase(p) \notin Gone /\ Phase(p)' = "dead"
         \/ /\ Phase(p) \in {"idle", "inspect", "takeover", "reopen"}
            /\ Phase(p)' \in {"inspect", "reopen", "ended"}
  PROVE  LockInv'
BY PhasesApart DEF LockInv, Others, Gone

LEMMA HolderReleases ==
  ASSUME TypeOK, LockInv, NEW p \in Pids, lock' = NoLock, Others(p),
         Phase(p) \in Holding, Phase(p)' = "ended"
  PROVE  LockInv'
BY NoneAssumption, PhasesApart DEF LockInv, Others, NoLock, Gone

LEMMA StarterAcquires ==
  ASSUME TypeOK, LockInv, NEW p \in Pids, lock = NoLock, CreateLock(p),
         Others(p), Phase(p)' = "write"
  PROVE  LockInv'
BY NoneAssumption, PhasesApart DEF LockInv, Others, NoLock, CreateLock, Holding

LEMMA StaleGoes ==
  ASSUME TypeOK, LockInv, NEW p \in Pids, lock' = NoLock, Others(p),
         Phase(p) = "takeover", Phase(p)' \in {"ended", "reopen"}
  PROVE  LockInv'
BY NoneAssumption, PhasesApart DEF LockInv, Others, NoLock, Gone

LEMMA InitLock == Init => LockInv
BY NoneAssumption DEF Init, LockInv, Phase, IdleServer, NoLock, Holding

(* A start that finds a stale lock is the only one that does.              *)
LEMMA StaleFound ==
  ASSUME TypeOK, LockInv, ~ConcurrentTakeover, NEW p \in Pids, InspectLock(p)
  PROVE  LockInv'
<1>1. CASE Stale /\ Goes(p, "takeover") /\ \A q \in Pids : Phase(q) # "takeover"
  <2>1. lock' = lock /\ Others(p) /\ Phase(p)' = "takeover"
    BY <1>1, GoesMoves DEF InspectLock, disk
  <2>2. lock.owner \in Pids /\ Phase(lock.owner) = "dead"
    BY <1>1, PhasesApart DEF LockInv, Stale, Alive, TypeOK
  <2>3. Phase(p) = "inspect"
    BY DEF InspectLock
  <2> QED
    BY <1>1, <2>1, <2>2, <2>3, PhasesApart DEF LockInv, Others, Gone
<1>2. CASE Goes(p, "ended")
  BY <1>2, GoesMoves, QuietMove DEF InspectLock, disk
<1> QED
  BY <1>1, <1>2 DEF InspectLock

LEMMA NextLock ==
  ASSUME TypeOK, LockInv, ~ConcurrentTakeover, [Next]_vars
  PROVE  LockInv'
<1>1. ASSUME NEW p \in Pids, OpenLock(p) \/ ReopenLock(p) PROVE LockInv'
  <2>1. CASE lock = NoLock /\ CreateLock(p) /\ Goes(p, "write")
    BY <2>1, GoesMoves, StarterAcquires
  <2>2. CASE lock' = lock /\ (Goes(p, "inspect") \/ Goes(p, "ended"))
    BY <1>1, <2>2, GoesMoves, QuietMove DEF OpenLock, ReopenLock
  <2> QED BY <1>1, <2>1, <2>2 DEF OpenLock, ReopenLock
<1>2. ASSUME NEW p \in Pids, UnlinkStale(p) PROVE LockInv'
  BY <1>2, GoesMoves, StaleGoes DEF UnlinkStale
<1>3. ASSUME NEW p \in Pids, WritePid(p) PROVE LockInv'
  <2>1. Others(p) /\ Phase(p)' = "load" /\ Phase(p) = "write"
    BY <1>3, GoesMoves DEF WritePid
  <2>2. lock.owner = p /\ lock'.owner = p
    BY <1>3, <2>1 DEF WritePid, LockInv, Holding, TypeOK
  <2> QED BY <2>1, <2>2, NoneAssumption, PhasesApart DEF LockInv, Others, Holding
<1>4. ASSUME NEW p \in Pids, ReleaseLock(p) PROVE LockInv'
  BY <1>4, GoesMoves, HolderReleases DEF ReleaseLock, Holding
<1>5. ASSUME NEW p \in Pids, WriteFails(p) PROVE LockInv'
  BY <1>5, GoesMoves, HolderReleases, QuietMove DEF WriteFails, Holding
<1>6. ASSUME NEW p \in Pids, Crash(p) PROVE LockInv'
  BY <1>6, GoesMoves, QuietMove DEF Crash, disk, Alive
<1>7. ASSUME NEW p \in Pids,
             LoadIdentity(p) \/ KeepIdentity(p) \/ VerifyPackages(p)
               \/ Abort(p) \/ Disconnect(p)
      PROVE  LockInv'
  <2>1. lock' = lock /\ Others(p)
    BY <1>7 DEF TypeOK, LoadIdentity, KeepIdentity, VerifyPackages, Abort,
       Disconnect, Others, Phase, Server, disk
  <2>2. \/ Phase(p)' = Phase(p)
        \/ Phase(p) \in Holding /\ Phase(p)' \in Holding
    <3>1. CASE Abort(p) \/ Disconnect(p)
      BY <3>1 DEF TypeOK, Abort, Disconnect, Phase, Server
    <3>2. CASE LoadIdentity(p) \/ VerifyPackages(p)
      BY <3>2 DEF TypeOK, LoadIdentity, VerifyPackages, Phase, Server, Holding
    <3>3. CASE KeepIdentity(p)
      <4>1. Phase(p)' = (IF Sealing(p) THEN "listen" ELSE "hotspot")
        BY <3>3 DEF TypeOK, KeepIdentity, Phase, Server
      <4> QED BY <3>3, <4>1 DEF KeepIdentity, Holding
    <3> QED BY <1>7, <3>1, <3>2, <3>3
  <2> QED BY <2>1, <2>2, QuietMove
<1>8. ASSUME NEW p \in Pids,
             StageIdentity(p) \/ StartHotspot(p) \/ Listen(p) \/ Close(p)
               \/ HotspotClosed(p) \/ HotspotStuck(p) \/ HelperReady(p)
      PROVE  LockInv'
  BY <1>8, GoesMoves, QuietMove DEF StageIdentity, StartHotspot, Listen, Close,
     HotspotClosed, HotspotStuck, HelperReady, disk, Holding
<1>9. CASE lock' = lock /\ server' = server
  BY <1>9 DEF LockInv, Phase
<1>10. (\E p \in Pids : HelperSwitchesOn(p) \/ HelperEnds(p) \/ HelperFails(p))
         \/ Rebuild \/ SetClock \/ UNCHANGED vars
       => lock' = lock /\ server' = server
  BY DEF HelperSwitchesOn, HelperEnds, HelperFails, Rebuild, SetClock, vars, disk
<1> QED
  BY <1>1, <1>2, <1>3, <1>4, <1>5, <1>6, <1>7, <1>8, <1>9, <1>10, StaleFound
     DEF Next, Step, HelperStep

(* At most one process is between its lock and its release (OneWriter), if *)
(* no two starts judge a stale lock at the same time.                      *)
THEOREM OneWriterHolds ==
  ASSUME ~ConcurrentTakeover PROVE Spec => []OneWriter
<1>1. LockInv => OneWriter
  BY DEF LockInv, OneWriter
<1>2. TypeOK /\ LockInv /\ [Next]_vars => LockInv'
  BY NextLock
<1> QED
  BY <1>1, <1>2, InitLock, SignerTypes, PTL DEF Spec
-----------------------------------------------------------------------------
(* Revisions.  What a phone was shown is continued by the identity file,   *)
(* the file by what a server is about to write, and a server that is past  *)
(* its write has in memory what the file has: one writer is what keeps the *)
(* file from changing under it.                                            *)

Settled == {"hotspot", "waiting", "verify", "listen", "open"}

SignedInv ==
  /\ Continues(shared, identity)
  /\ \A p \in Pids : Phase(p) \in {"stage", "keep"} =>
       Continues(identity, server[p].next)
  /\ \A p \in Pids : Phase(p) = "keep" => staging = server[p].next
  /\ \A p \in Pids : Phase(p) \in Settled => server[p].versions = identity

LEMMA ContinuesReflexive == ASSUME NEW a PROVE Continues(a, a)
BY DEF Continues

LEMMA ContinuesTransitive ==
  ASSUME NEW a \in Snapshot, NEW b \in Snapshot, NEW c \in Snapshot,
         Continues(a, b), Continues(b, c)
  PROVE  Continues(a, c)
<1>1. CASE a = NoIdentity
  BY <1>1 DEF Continues
<1>2. CASE a # NoIdentity /\ b = NoIdentity
  <2>1. b.key = None /\ b.revision = 0 /\ b.basis = None
    BY <1>2 DEF NoIdentity
  <2>2. a.key = None /\ a.revision = 0 /\ a.basis = None
    BY <1>2, <2>1 DEF Continues, Snapshot
  <2>3. a = NoIdentity
    BY <2>2 DEF Snapshot, NoIdentity
  <2> QED BY <1>2, <2>3
<1>3. CASE a # NoIdentity /\ b # NoIdentity
  BY <1>3 DEF Continues, Snapshot
<1> QED BY <1>1, <1>2, <1>3

LEMMA ReservedContinues ==
  ASSUME clock \in 1 .. MaxClock, NEW versions \in Snapshot,
         NEW content \in Contents
  PROVE  Continues(versions, Reserved(versions, content))
<1> DEFINE revision == IF clock > versions.revision THEN clock
                       ELSE versions.revision + 1
<1>1. revision > versions.revision
  BY BoundAssumption DEF Snapshot
<1> HIDE DEF revision
<1>2. CASE versions.basis = content
  BY <1>2, ContinuesReflexive DEF Reserved
<1>3. CASE versions.basis # content
  <2>1. Reserved(versions, content)
          = [versions EXCEPT !.basis = content, !.revision = revision]
    BY <1>3 DEF Reserved, revision
  <2> QED BY <1>1, <2>1 DEF Continues, Snapshot
<1> QED BY <1>2, <1>3

(* The others are not in the part of a server that the lock protects.      *)
LEMMA Alone ==
  ASSUME LockInv, NEW p \in Pids, NEW q \in Pids, p # q, Phase(p) \in Holding
  PROVE  Phase(q) \notin {"stage", "keep"} \cup Settled
BY DEF LockInv, Holding, Settled

LEMMA InitSigned == Init => SignedInv
BY DEF Init, SignedInv, Continues, Phase, IdleServer, Settled

(* A step that leaves the files and what servers remember alone.           *)
LEMMA SignedMove ==
  ASSUME TypeOK, SignedInv, identity' = identity, staging' = staging,
         shared' = shared,
         \A p \in Pids :
           /\ server'[p].next = server[p].next
           /\ server'[p].versions = server[p].versions
           /\ \/ Phase(p)' = Phase(p)
              \/ Phase(p)' \notin {"stage", "keep"} \cup Settled
              \/ Phase(p) \in Settled /\ Phase(p)' \in Settled
  PROVE  SignedInv'
BY DEF SignedInv, Settled

LEMMA GoesKeeps ==
  ASSUME TypeOK, NEW p \in Pids, NEW phase, Goes(p, phase)
  PROVE  \A q \in Pids : /\ server'[q].next = server[q].next
                         /\ server'[q].versions = server[q].versions
                         /\ Phase(q)' = IF q = p THEN phase ELSE Phase(q)
BY DEF TypeOK, Goes, Phase, Server

LEMMA NextSigned ==
  ASSUME TypeOK, LockInv, SignedInv, [Next]_vars
  PROVE  SignedInv' /\ Continues(shared, shared')
<1>1. ASSUME NEW p \in Pids, LoadIdentity(p)
      PROVE  SignedInv' /\ Continues(shared, shared')
  <2> DEFINE source == IF identity = NoIdentity
                       THEN [NoIdentity EXCEPT !.key = p] ELSE identity
  <2>1. Continues(identity, source)
    BY ContinuesReflexive DEF Continues
  <2> HIDE DEF source
  <2>2. UNCHANGED <<identity, staging, shared>>
    BY <1>1 DEF LoadIdentity, disk
  <2>3. server'[p].next = source /\ Phase(p)' = "stage"
    BY <1>1 DEF LoadIdentity, source, TypeOK, Server, Phase
  <2>4. \A q \in Pids \ {p} : server'[q] = server[q]
    BY <1>1 DEF LoadIdentity, TypeOK
  <2> QED
    BY <2>1, <2>2, <2>3, <2>4, ContinuesReflexive DEF SignedInv, Phase, Settled
<1>2. ASSUME NEW p \in Pids, StageIdentity(p)
      PROVE  SignedInv' /\ Continues(shared, shared')
  <2>1. Phase(p) = "stage" /\ staging' = server[p].next
        /\ UNCHANGED <<identity, shared>>
    BY <1>2 DEF StageIdentity
  <2>2. \A q \in Pids \ {p} : Phase(q) \notin {"stage", "keep"} \cup Settled
    BY <2>1, Alone DEF Holding
  <2> QED
    BY <1>2, <2>1, <2>2, GoesKeeps, ContinuesReflexive
       DEF StageIdentity, SignedInv, Settled
<1>3. ASSUME NEW p \in Pids, KeepIdentity(p)
      PROVE  SignedInv' /\ Continues(shared, shared')
  <2>1. Phase(p) = "keep" /\ identity' = server[p].next /\ shared' = shared
    BY <1>3 DEF KeepIdentity, SignedInv
  <2>2. \A q \in Pids \ {p} : Phase(q) \notin {"stage", "keep"} \cup Settled
    BY <2>1, Alone DEF Holding
  <2>3. \A q \in Pids \ {p} : Phase(q)' = Phase(q)
    BY <1>3 DEF KeepIdentity, TypeOK, Phase
  <2>4. server'[p].versions = server[p].next /\ Phase(p)' \in Settled
    <3>1. Phase(p)' = (IF Sealing(p) THEN "listen" ELSE "hotspot")
      BY <1>3 DEF TypeOK, KeepIdentity, Phase, Server
    <3>2. server'[p].versions = server[p].next
      BY <1>3 DEF TypeOK, KeepIdentity, Server
    <3> QED BY <3>1, <3>2 DEF Settled
  <2>5. server[p].next \in Snapshot /\ identity \in Snapshot /\ shared \in Snapshot
    BY DEF TypeOK, Server
  <2>6. Continues(shared, identity')
    BY <2>1, <2>5, ContinuesTransitive DEF SignedInv
  <2> QED
    BY <2>1, <2>2, <2>3, <2>4, <2>6, ContinuesReflexive DEF SignedInv, Settled
<1>4. ASSUME NEW p \in Pids, VerifyPackages(p)
      PROVE  SignedInv' /\ Continues(shared, shared')
  <2>1. UNCHANGED <<identity, staging, shared>>
    BY <1>4 DEF VerifyPackages, disk
  <2>2. server'[p].next = Reserved(server[p].versions, package)
        /\ Phase(p)' = "stage" /\ Phase(p) = "verify"
    BY <1>4 DEF VerifyPackages, TypeOK, Server, Phase
  <2>3. \A q \in Pids \ {p} : server'[q] = server[q]
    BY <1>4 DEF VerifyPackages, TypeOK
  <2>4. Continues(identity, server'[p].next)
    BY <2>2, ReservedContinues DEF SignedInv, TypeOK, Server, Settled
  <2> QED
    BY <2>1, <2>2, <2>3, <2>4, ContinuesReflexive DEF SignedInv, Phase, Settled
<1>5. ASSUME NEW p \in Pids, Listen(p)
      PROVE  SignedInv' /\ Continues(shared, shared')
  <2>1. shared' = identity /\ UNCHANGED <<identity, staging>>
    BY <1>5 DEF Listen, disk, SignedInv, Settled
  <2> QED
    BY <1>5, <2>1, GoesKeeps, ContinuesReflexive DEF Listen, SignedInv, Settled
<1>6. ASSUME NEW p \in Pids, Abort(p) \/ Disconnect(p)
      PROVE  SignedInv' /\ Continues(shared, shared')
  <2>1. \A q \in Pids : /\ server'[q].next = server[q].next
                        /\ server'[q].versions = server[q].versions
                        /\ Phase(q)' = Phase(q)
    BY <1>6 DEF Abort, Disconnect, TypeOK, Server, Phase
  <2> QED
    BY <1>6, <2>1, SignedMove, ContinuesReflexive DEF Abort, Disconnect, disk
<1>7. ASSUME NEW p \in Pids, NEW phase, Goes(p, phase),
             identity' = identity, staging' = staging, shared' = shared,
             \/ phase \notin {"stage", "keep"} \cup Settled
             \/ Phase(p) \in Settled /\ phase \in Settled
      PROVE  SignedInv' /\ Continues(shared, shared')
  BY <1>7, GoesKeeps, SignedMove, ContinuesReflexive
<1>8. ASSUME NEW p \in Pids,
             OpenLock(p) \/ InspectLock(p) \/ UnlinkStale(p) \/ ReopenLock(p)
               \/ WritePid(p) \/ ReleaseLock(p) \/ WriteFails(p) \/ Crash(p)
      PROVE  SignedInv' /\ Continues(shared, shared')
  BY <1>7, <1>8 DEF OpenLock, InspectLock, UnlinkStale, ReopenLock, WritePid,
     ReleaseLock, WriteFails, Crash, disk, Settled
<1>9. ASSUME NEW p \in Pids,
             StartHotspot(p) \/ Close(p) \/ HotspotClosed(p)
               \/ HotspotStuck(p) \/ HelperReady(p)
      PROVE  SignedInv' /\ Continues(shared, shared')
  BY <1>7, <1>9 DEF StartHotspot, Close, HotspotClosed, HotspotStuck,
     HelperReady, disk, Settled
<1>10. CASE UNCHANGED <<disk, server, shared>>
  BY <1>10, SignedMove, ContinuesReflexive DEF disk, Phase
<1>11. (\E p \in Pids : HelperSwitchesOn(p) \/ HelperEnds(p) \/ HelperFails(p))
         \/ Rebuild \/ SetClock \/ UNCHANGED vars
       => UNCHANGED <<disk, server, shared>>
  BY DEF HelperSwitchesOn, HelperEnds, HelperFails, Rebuild, SetClock, vars, disk
<1> QED
  BY <1>1, <1>2, <1>3, <1>4, <1>5, <1>6, <1>8, <1>9, <1>10, <1>11
     DEF Next, Step, HelperStep

(* A phone meets one key, and of it only what it has or a higher revision  *)
(* (RevisionsGrow), whatever dies, whatever the clock says, whatever is    *)
(* rebuilt, if no two starts judge a stale lock at the same time.          *)
THEOREM RevisionsGrowHolds ==
  ASSUME ~ConcurrentTakeover PROVE Spec => RevisionsGrow
<1>1. TypeOK /\ LockInv /\ [Next]_vars => LockInv'
  BY NextLock
<1>2. TypeOK /\ LockInv /\ SignedInv /\ [Next]_vars =>
        SignedInv' /\ [Continues(shared, shared')]_shared
  BY NextSigned
<1> QED
  BY <1>1, <1>2, InitLock, InitSigned, SignerTypes, PTL DEF Spec, RevisionsGrow
-----------------------------------------------------------------------------
(* The hotspot.  What it is to be in the end follows from who answers for  *)
(* it now: a helper that found it off and has not ended yet, at most one   *)
(* of all processes, dead ones included.                                   *)

Claims(p) == helper[p].startedHere /\ helper[p].state \in {"up", "ready", "stopping"}

HelperInv ==
  \A p \in Pids :
    /\ Phase(p) \in Opening \cup {"write", "load", "hotspot"} =>
         helper[p].state = "none"
    /\ Phase(p) \in {"release", "ended"} => helper[p].state \in {"none", "gone"}
    /\ helper[p].state \in {"none", "starting"} => ~helper[p].startedHere

RadioInv ==
  ~warned =>
    /\ \A p \in Pids : Claims(p) => radio /\ ~wanted
    /\ \A p, q \in Pids : Claims(p) /\ Claims(q) => p = q
    /\ (\A p \in Pids : ~Claims(p)) => radio = wanted

LEMMA InitLeft == Init => HelperInv /\ RadioInv
BY DEF Init, HelperInv, RadioInv, Claims, NoHelper

(* Every helper but p's stays what it is.                                  *)
LEMMA HelperMove ==
  ASSUME TypeOK, HelperInv, NEW p \in Pids, Others(p),
         \A q \in Pids \ {p} : helper'[q] = helper[q],
         Phase(p)' \in Opening \cup {"write", "load", "hotspot"} =>
           helper'[p].state = "none",
         Phase(p)' \in {"release", "ended"} => helper'[p].state \in {"none", "gone"},
         helper'[p].state \in {"none", "starting"} => ~helper'[p].startedHere
  PROVE  HelperInv'
BY DEF HelperInv, Others

LEMMA ToldMoves ==
  ASSUME TypeOK, HelperInv, NEW p \in Pids, helper' = ToldToStop(p)
  PROVE  /\ \A q \in Pids \ {p} : helper'[q] = helper[q]
         /\ helper'[p].startedHere = helper[p].startedHere
         /\ helper'[p].state = IF Running(p) THEN "stopping" ELSE helper[p].state
         /\ \A q \in Pids : Claims(q)' = Claims(q)
<1>1. /\ \A q \in Pids \ {p} : helper'[q] = helper[q]
      /\ helper'[p].startedHere = helper[p].startedHere
      /\ helper'[p].state = IF Running(p) THEN "stopping" ELSE helper[p].state
  BY DEF ToldToStop, TypeOK, Helper
<1> QED
  BY <1>1 DEF Claims, HelperInv, Running

LEMMA StartHelpers ==
  ASSUME TypeOK, HelperInv, NEW p \in Pids,
         \/ OpenLock(p) \/ InspectLock(p) \/ UnlinkStale(p) \/ ReopenLock(p)
         \/ WritePid(p) \/ LoadIdentity(p) \/ StageIdentity(p) \/ KeepIdentity(p)
         \/ VerifyPackages(p) \/ Listen(p) \/ HotspotClosed(p) \/ ReleaseLock(p)
         \/ Abort(p) \/ Disconnect(p)
  PROVE  HelperInv' /\ UNCHANGED <<helper, radio, wanted, warned>>
<1>0. /\ helper[p].state \in {"none", "starting"} => ~helper[p].startedHere
      /\ UNCHANGED <<helper, radio, wanted, warned>>
  BY DEF HelperInv, OpenLock, InspectLock, UnlinkStale, ReopenLock, WritePid,
     LoadIdentity, StageIdentity, KeepIdentity, VerifyPackages, Listen,
     HotspotClosed, ReleaseLock, Abort, Disconnect, hotspot
<1>1. CASE OpenLock(p) \/ InspectLock(p) \/ UnlinkStale(p) \/ ReopenLock(p)
           \/ WritePid(p)
  <2>1. Others(p) /\ helper[p].state = "none"
    BY <1>1, GoesMoves DEF HelperInv, OpenLock, InspectLock, UnlinkStale,
       ReopenLock, WritePid, Opening
  <2> QED BY <1>0, <2>1, HelperMove
<1>2. CASE LoadIdentity(p) \/ KeepIdentity(p) \/ VerifyPackages(p)
  <2>1. /\ Others(p) /\ Phase(p)' \in {"stage", "listen", "hotspot"}
        /\ Phase(p)' = "hotspot" => helper[p].state = "none"
    <3>1. LoadIdentity(p) => Others(p) /\ Phase(p)' = "stage"
      BY DEF TypeOK, LoadIdentity, Others, Phase, Server
    <3>2. VerifyPackages(p) => Others(p) /\ Phase(p)' = "stage"
      BY DEF TypeOK, VerifyPackages, Others, Phase, Server
    <3>3. KeepIdentity(p) => /\ Others(p)
                             /\ Phase(p)' = IF Sealing(p) THEN "listen"
                                            ELSE "hotspot"
      BY DEF TypeOK, KeepIdentity, Others, Phase, Server
    <3> QED BY <1>2, <3>1, <3>2, <3>3 DEF Sealing
  <2> QED BY <1>0, <2>1, HelperMove DEF Opening
<1>3. CASE StageIdentity(p) \/ Listen(p) \/ HotspotClosed(p) \/ ReleaseLock(p)
  <2>1. /\ Others(p) /\ Phase(p)' \in {"keep", "open", "release", "ended"}
        /\ Phase(p)' \in {"release", "ended"} => helper[p].state \in {"none", "gone"}
    BY <1>3, GoesMoves DEF HelperInv, StageIdentity, Listen, HotspotClosed,
       ReleaseLock
  <2> QED BY <1>0, <2>1, HelperMove DEF Opening
<1>4. CASE Abort(p) \/ Disconnect(p)
  <2>1. \A q \in Pids : Phase(q)' = Phase(q)
    BY <1>4 DEF Abort, Disconnect, TypeOK, Server, Phase
  <2> QED BY <1>0, <2>1 DEF HelperInv
<1> QED BY <1>0, <1>1, <1>2, <1>3, <1>4

(* A step of a helper, or a step of a server that starts or stops it.      *)
LEMMA HelpersLeft ==
  ASSUME TypeOK, HelperInv, RadioInv, NEW p \in Pids,
         \/ StartHotspot(p) \/ HelperStep(p) \/ Close(p) \/ HotspotStuck(p)
         \/ WriteFails(p) \/ Crash(p)
  PROVE  HelperInv' /\ RadioInv'
<1>0. helper[p] \in Helper
  BY DEF TypeOK
<1>1. ASSUME \A q \in Pids : Claims(q)' = Claims(q),
             UNCHANGED <<radio, wanted, warned>>
      PROVE  RadioInv'
  BY <1>1 DEF RadioInv
<1>2. CASE StartHotspot(p)
  <2>1. /\ Others(p) /\ Phase(p)' = "waiting" /\ helper[p].state = "none"
        /\ helper' = [helper EXCEPT ![p].state = "starting"]
        /\ UNCHANGED <<radio, wanted, warned>>
    BY <1>2, GoesMoves DEF StartHotspot, HelperInv
  <2>2. /\ \A q \in Pids \ {p} : helper'[q] = helper[q]
        /\ helper'[p].state = "starting" /\ ~helper'[p].startedHere
    BY <2>1 DEF TypeOK, Helper, HelperInv
  <2>3. \A q \in Pids : Claims(q)' = Claims(q)
    BY <2>1, <2>2 DEF Claims
  <2> QED BY <1>1, <2>1, <2>2, <2>3, HelperMove DEF Opening
<1>3. CASE HelperSwitchesOn(p)
  <2>1. /\ helper[p].state = "starting"
        /\ helper' = [helper EXCEPT ![p] = [state |-> "up", startedHere |-> ~radio]]
        /\ radio' = TRUE /\ UNCHANGED <<server, wanted, warned>>
    BY <1>3 DEF HelperSwitchesOn
  <2>2. /\ \A q \in Pids \ {p} : helper'[q] = helper[q]
        /\ helper'[p].state = "up" /\ helper'[p].startedHere = ~radio
    BY <2>1 DEF TypeOK
  <2>3. HelperInv'
    BY <2>1, <2>2 DEF HelperInv, Phase, Opening
  <2>4. /\ ~Claims(p) /\ (Claims(p)' <=> ~radio)
        /\ \A q \in Pids \ {p} : Claims(q)' = Claims(q)
    BY <2>1, <2>2 DEF Claims
  <2>5. RadioInv'
    BY <2>1, <2>4 DEF RadioInv, TypeOK
  <2> QED BY <2>3, <2>5
<1>4. CASE HelperReady(p) \/ HelperFails(p)
  <2>1. /\ helper[p].state \in {"up", "ready"}
        /\ \E state \in {"ready", "stopping"} :
             helper' = [helper EXCEPT ![p].state = state]
        /\ UNCHANGED <<radio, wanted, warned>>
        /\ Others(p) /\ (Phase(p)' = Phase(p) \/ Phase(p)' = "verify")
    BY <1>4, GoesMoves DEF HelperReady, HelperFails, Others, Phase
  <2>2. /\ \A q \in Pids \ {p} : helper'[q] = helper[q]
        /\ helper'[p].state \in {"ready", "stopping"}
        /\ helper'[p].startedHere = helper[p].startedHere
    BY <2>1 DEF TypeOK, Helper
  <2>3. \A q \in Pids : Claims(q)' = Claims(q)
    BY <2>1, <2>2 DEF Claims
  <2>4. HelperInv'
    BY <2>1, <2>2 DEF HelperInv, Others, Opening
  <2> QED BY <1>1, <2>1, <2>3, <2>4
<1>5. CASE HelperEnds(p)
  <2>1. /\ helper[p].state = "stopping"
        /\ helper' = [helper EXCEPT ![p].state = "gone"]
        /\ radio' = (radio /\ ~helper[p].startedHere)
        /\ UNCHANGED <<server, wanted, warned>>
    BY <1>5 DEF HelperEnds
  <2>2. /\ \A q \in Pids \ {p} : helper'[q] = helper[q]
        /\ helper'[p].state = "gone"
    BY <2>1 DEF TypeOK, Helper
  <2>3. HelperInv'
    BY <2>1, <2>2 DEF HelperInv, Phase, Opening
  <2>4. /\ (Claims(p) <=> helper[p].startedHere) /\ ~Claims(p)'
        /\ \A q \in Pids \ {p} : Claims(q)' = Claims(q)
    BY <2>1, <2>2 DEF Claims
  <2>5. CASE helper[p].startedHere
    BY <2>1, <2>3, <2>4, <2>5 DEF RadioInv, TypeOK
  <2>6. CASE ~helper[p].startedHere
    BY <2>1, <2>3, <2>4, <2>6 DEF RadioInv, TypeOK
  <2> QED BY <2>5, <2>6
<1>6. CASE HotspotStuck(p)
  <2>1. /\ helper' = [helper EXCEPT ![p].state = "gone"] /\ warned'
        /\ Others(p)
    BY <1>6, GoesMoves DEF HotspotStuck
  <2>2. /\ \A q \in Pids \ {p} : helper'[q] = helper[q]
        /\ helper'[p].state = "gone" /\ Phase(p)' = "release"
    BY <1>6, <2>1, GoesMoves DEF TypeOK, Helper, HotspotStuck
  <2> QED BY <2>1, <2>2, HelperMove DEF RadioInv, Opening
<1>7. CASE Close(p) \/ Crash(p) \/ (WriteFails(p) /\ Sealing(p))
  <2>1. /\ helper' = ToldToStop(p) /\ UNCHANGED <<radio, wanted, warned>>
        /\ Others(p) /\ Phase(p)' \in {"stop", "dead"}
    BY <1>7, GoesMoves DEF Close, Crash, WriteFails
  <2>2. /\ \A q \in Pids \ {p} : helper'[q] = helper[q]
        /\ helper'[p].startedHere = helper[p].startedHere
        /\ helper'[p].state = IF Running(p) THEN "stopping" ELSE helper[p].state
        /\ \A q \in Pids : Claims(q)' = Claims(q)
    BY <2>1, ToldMoves
  <2>3. helper'[p].state \in {"none", "starting"} => ~helper'[p].startedHere
    BY <2>2 DEF HelperInv, Running
  <2> QED BY <1>1, <2>1, <2>2, <2>3, HelperMove DEF Opening
<1>8. CASE WriteFails(p) /\ ~Sealing(p)
  <2>1. /\ UNCHANGED <<helper, radio, wanted, warned>> /\ Others(p)
        /\ helper[p].state = "none"
    BY <1>8, GoesMoves DEF WriteFails, Sealing
  <2>2. \A q \in Pids : Claims(q)' = Claims(q)
    BY <2>1 DEF Claims
  <2> QED BY <1>1, <2>1, <2>2, HelperMove DEF HelperInv
<1> QED
  BY <1>2, <1>3, <1>4, <1>5, <1>6, <1>7, <1>8 DEF HelperStep

LEMMA NextLeft ==
  TypeOK /\ HelperInv /\ RadioInv /\ [Next]_vars => HelperInv' /\ RadioInv'
<1> SUFFICES ASSUME TypeOK, HelperInv, RadioInv, [Next]_vars
             PROVE  HelperInv' /\ RadioInv'
  OBVIOUS
<1>1. ASSUME UNCHANGED <<helper, radio, wanted, warned>> PROVE RadioInv'
  BY <1>1 DEF RadioInv, Claims
<1>2. CASE Rebuild \/ SetClock \/ UNCHANGED vars
  <2>1. UNCHANGED <<server, helper, radio, wanted, warned>>
    BY <1>2 DEF Rebuild, SetClock, vars, hotspot
  <2> QED BY <1>1, <2>1 DEF HelperInv, Phase
<1> QED BY <1>1, <1>2, StartHelpers, HelpersLeft DEF Next, Step

(* Servers give back what they took (LeftAsFound): one that ended has left *)
(* no lock and no helper, and when no helper is left the hotspot is as it  *)
(* was found, unless the user was told otherwise; if no two starts judge a *)
(* stale lock at the same time.                                            *)
THEOREM LeftAsFoundHolds ==
  ASSUME ~ConcurrentTakeover PROVE Spec => []LeftAsFound
<1>1. TypeOK /\ LockInv /\ [Next]_vars => LockInv'
  BY NextLock
<1>2. TypeOK /\ LockInv /\ HelperInv /\ RadioInv => LeftAsFound
  <2>1. HelperInv /\ RadioInv => HotspotRestored
    BY DEF RadioInv, HotspotRestored, Claims
  <2>2. LockInv /\ HelperInv => EndedLeavesNothing
    BY PhasesApart DEF LockInv, HelperInv, EndedLeavesNothing, Gone
  <2> QED BY <2>1, <2>2 DEF LeftAsFound
<1> QED
  BY <1>1, <1>2, InitLock, InitLeft, NextLeft, SignerTypes, PTL DEF Spec
=============================================================================
