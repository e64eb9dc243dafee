----------------------------- MODULE AppScreens -----------------------------
(***************************************************************************)
(* Three services of the running app that follow its state: the periodic   *)
(* display refresh of a recording (ForegroundTask), the location access    *)
(* shown to the user (useLocationAccess) and the imported map datasets     *)
(* (useImportedMapDatasets and its native store).  They share the AppState *)
(* events and the process: going to the background stops the one, wakes    *)
(* the other up on return, and ending the process leaves only the dataset  *)
(* file and the device's settings.                                         *)
(***************************************************************************)
EXTENDS Integers, Sequences

CONSTANTS
  Datasets,     \* files the user may import
  None,         \* no dataset
  MaxDatasets,  \* how many the store keeps
  Periods,      \* recording periods, each with a task of its own: 1..Periods
  MaxEvents     \* bound on what happens to the app: changes of AppState and
                \* of the settings, ends of the process, failing file calls

ASSUME NoneIsNoDataset == None \notin Datasets
ASSUME BoundsAreNatural ==
  {MaxDatasets, Periods, MaxEvents} \subseteq Nat

VARIABLES
  foreground,  \* AppState is 'active'
  recording,   \* recorderState is 'recording'
  task,        \* the ForegroundTask of each recording period
  device,      \* the device's authorization and Location Services switch
  events,      \* onLocationPermissionChange events on their way to JavaScript
  location,    \* useLocationAccess
  disk,        \* datasets.json: what it says of each dataset
  data,        \* useImportedMapDatasets
  op,          \* the dataset operation in flight
  told,        \* datasets the user was told are imported, and did not give up
  happened     \* how much of the bound is used

access == <<device, events, location>>
datasets == <<disk, data, op, told>>
vars == <<foreground, recording, task, access, datasets, happened>>

Happens == happened < MaxEvents /\ happened' = happened + 1

----------------------------------------------------------------------------
(* ForegroundTask.                                                         *)

Task == [state : {"unborn", "live", "disposed"},
         eligible : BOOLEAN, running : BOOLEAN, timer : BOOLEAN]
UnbornTask ==
  [state |-> "unborn", eligible |-> FALSE, running |-> FALSE, timer |-> FALSE]

Ticked(t) ==
  IF t.eligible /\ t.state = "live" THEN [t EXCEPT !.running = TRUE] ELSE t

\* Mutant: the pending timer survives a change of eligibility.
TimerKept(t, value) ==
  IF t.state # "live" \/ value = t.eligible THEN t
  ELSE LET changed == [t EXCEPT !.eligible = value]
       IN IF value THEN Ticked(changed) ELSE changed

WithEligible(t, value) ==
  IF t.state # "live" \/ value = t.eligible THEN t
  ELSE LET changed == [t EXCEPT !.eligible = value, !.timer = FALSE]
       IN IF value THEN Ticked(changed) ELSE changed

Disposed(t) ==
  IF t.state = "live"
  THEN [t EXCEPT !.state = "disposed", !.eligible = FALSE, !.timer = FALSE]
  ELSE t

StartRecording ==
  /\ ~recording
  /\ recording' = TRUE
  /\ \E k \in 1 .. Periods :
       /\ task[k].state = "unborn"
       /\ \A j \in 1 .. (k - 1) : task[j].state # "unborn"
       /\ task' = [task EXCEPT ![k] =
            WithEligible([UnbornTask EXCEPT !.state = "live"], foreground)]
  /\ UNCHANGED <<foreground, access, datasets, happened>>

StopRecording ==
  /\ recording
  /\ recording' = FALSE
  /\ task' = [k \in DOMAIN task |-> Disposed(task[k])]
  /\ UNCHANGED <<foreground, access, datasets, happened>>

\* The run resolves or throws; either way the finally block schedules the next.
RunEnds(k) ==
  /\ task[k].running
  /\ task' = [task EXCEPT ![k].running = FALSE,
                          ![k].timer = task[k].eligible]
  /\ UNCHANGED <<foreground, recording, access, datasets, happened>>

TimerFires(k) ==
  /\ task[k].timer
  /\ task' = [task EXCEPT ![k] = Ticked([@ EXCEPT !.timer = FALSE])]
  /\ UNCHANGED <<foreground, recording, access, datasets, happened>>

----------------------------------------------------------------------------
(* useLocationAccess.                                                      *)

Authorizations == {"not-determined", "always", "denied"}
Permissions == Authorizations \cup {"services-disabled", "unavailable"}

\* Core Location reports denied while Location Services are off.
Status == IF device.services THEN device.authorization ELSE "denied"

\* A read of the permission: what the main queue saw, then what the other
\* queue makes of it; latest is "request = revision.current"; asked is the
\* read that a press of the button waits for.
Read == [latest : BOOLEAN, asked : BOOLEAN, seen : Authorizations \cup {"none"},
         answer : Permissions \cup {"none"}]
Outdated(reads) == {[r EXCEPT !.latest = FALSE] : r \in reads}
Refreshed(loc, asked) ==
  [loc EXCEPT !.checking = TRUE,
     !.reads = Outdated(@) \cup
       {[latest |-> TRUE, asked |-> asked, seen |-> "none", answer |-> "none"]}]

MountedLocation ==
  Refreshed([permission |-> "unavailable", checking |-> FALSE, reads |-> {},
             requesting |-> FALSE, prompt |-> FALSE], FALSE)

ReadStatus(r) ==
  /\ r.seen = "none"
  /\ location' = [location EXCEPT !.reads =
       (@ \ {r}) \cup {[r EXCEPT !.seen = Status]}]
  /\ UNCHANGED <<foreground, recording, task, device, events, datasets, happened>>

CheckServices(r) ==
  /\ r.seen # "none" /\ r.answer = "none"
  /\ location' = [location EXCEPT !.reads = (@ \ {r}) \cup
       {[r EXCEPT !.answer = IF device.services THEN r.seen
                             ELSE "services-disabled"]}]
  /\ UNCHANGED <<foreground, recording, task, device, events, datasets, happened>>

\* Mutant: a late answer is shown although something newer was.
AnswerShown(r) ==
  /\ r.answer # "none"
  /\ location' = [location EXCEPT !.reads = @ \ {r}, !.permission = r.answer,
       !.checking = FALSE, !.requesting = @ /\ ~r.asked]
  /\ UNCHANGED <<foreground, recording, task, device, events, datasets, happened>>

AnswerArrives(r) ==
  /\ r.answer # "none"
  /\ location' = [location EXCEPT
       !.reads = @ \ {r},
       !.permission = IF r.latest THEN r.answer ELSE @,
       !.checking = @ /\ ~r.latest,
       !.requesting = @ /\ ~r.asked]
  /\ UNCHANGED <<foreground, recording, task, device, events, datasets, happened>>

EventArrives ==
  /\ events # <<>>
  /\ events' = Tail(events)
  /\ location' = [location EXCEPT !.permission = Head(events),
       !.checking = FALSE, !.reads = Outdated(@)]
  /\ UNCHANGED <<foreground, recording, task, device, datasets, happened>>

\* The button: ask, or open the settings; then read again.
RequestAccess ==
  /\ foreground
  /\ ~location.requesting /\ ~location.checking
  /\ location' = [Refreshed(location, TRUE) EXCEPT !.requesting = TRUE,
       !.prompt = (location.permission = "not-determined"
                   /\ device.authorization = "not-determined")]
  /\ UNCHANGED <<foreground, recording, task, device, events, datasets, happened>>

Changes(to) ==
  /\ device' = to
  /\ events' = LET now == IF to.services THEN to.authorization ELSE "denied"
               IN IF now = Status THEN events ELSE Append(events, now)

PromptAnswered ==
  /\ location.prompt
  /\ \E a \in {"always", "denied"} : Changes([device EXCEPT !.authorization = a])
  /\ location' = [location EXCEPT !.prompt = FALSE]
  /\ UNCHANGED <<foreground, recording, task, datasets, happened>>

\* The user changes a setting while the app is in the background.
VisitSettings ==
  /\ ~foreground
  /\ Happens
  /\ \/ \E a \in {"always", "denied"} \ {device.authorization} :
          Changes([device EXCEPT !.authorization = a])
     \/ Changes([device EXCEPT !.services = ~@])
  /\ UNCHANGED <<foreground, recording, task, location, datasets>>

----------------------------------------------------------------------------
(* useImportedMapDatasets over OpenOutdoorMapDatasetStore.                 *)

Kept == {"absent", "visible", "hidden"}
Store == [Datasets -> Kept]
EmptyStore == [d \in Datasets |-> "absent"]
In(store) == {d \in Datasets : store[d] # "absent"}
Fits(store) ==
  \A chosen \in [1 .. MaxDatasets + 1 -> In(store)] :
    \E i, j \in DOMAIN chosen : i # j /\ chosen[i] = chosen[j]

UnmountedData == [shown |-> EmptyStore, state |-> "loading", draft |-> None]
NoOp == [kind |-> "none", next |-> EmptyStore, dataset |-> None]

\* Mutant: an operation begins before the file was read.
MayOperateUnloaded == op.kind = "none"

MayOperate == data.state = "ready" /\ op.kind = "none"

Load ==
  /\ data.state = "loading"
  /\ \/ /\ data' = [data EXCEPT !.shown = disk, !.state = "ready"]
        /\ UNCHANGED happened
     \/ /\ data' = [data EXCEPT !.state = "failed"]
        /\ Happens
  /\ UNCHANGED <<foreground, recording, task, access, disk, op, told>>

Pick ==
  /\ MayOperate
  /\ foreground
  /\ op' = [NoOp EXCEPT !.kind = "pick"]
  /\ UNCHANGED <<foreground, recording, task, access, disk, data, told, happened>>

\* Cancelled, unreadable or a duplicate; or checked and ready to import.
PickEnds ==
  /\ op.kind = "pick"
  /\ op' = NoOp
  /\ \/ UNCHANGED data
     \/ \E d \in Datasets \ In(data.shown) :
          /\ Fits([data.shown EXCEPT ![d] = "visible"])
          /\ data' = [data EXCEPT !.draft = d]
  /\ UNCHANGED <<foreground, recording, task, access, disk, told, happened>>

Saves(next, d) == op' = [kind |-> "save", next |-> next, dataset |-> d]

Commit ==
  /\ MayOperate
  /\ data.draft # None
  /\ data.draft \notin In(data.shown)
  /\ LET next == [data.shown EXCEPT ![data.draft] = "visible"]
     IN Fits(next) /\ Saves(next, data.draft)
  /\ UNCHANGED <<foreground, recording, task, access, disk, data, told, happened>>

Toggle(d) ==
  /\ MayOperate
  /\ d \in In(data.shown)
  /\ Saves([data.shown EXCEPT ![d] = IF @ = "visible" THEN "hidden" ELSE "visible"],
           None)
  /\ UNCHANGED <<foreground, recording, task, access, disk, data, told, happened>>

Remove(d) ==
  /\ MayOperate
  /\ d \in In(data.shown)
  /\ Saves([data.shown EXCEPT ![d] = "absent"], None)
  /\ told' = told \ {d}
  /\ UNCHANGED <<foreground, recording, task, access, disk, data, happened>>

\* Offered only after a load that failed, and confirmed.
Reset ==
  /\ data.state = "failed"
  /\ op.kind = "none"
  /\ Saves(EmptyStore, None)
  /\ told' = {}
  /\ UNCHANGED <<foreground, recording, task, access, disk, data, happened>>

SaveWrites ==
  /\ op.kind = "save"
  /\ disk' = op.next
  /\ op' = [op EXCEPT !.kind = "written"]
  /\ UNCHANGED <<foreground, recording, task, access, data, told, happened>>

SaveReturns ==
  /\ op.kind = "written"
  /\ data' = [data EXCEPT !.shown = op.next, !.state = "ready",
       !.draft = IF op.dataset = None THEN @ ELSE None]
  /\ told' = told \cup ({op.dataset} \ {None})
  /\ op' = NoOp
  /\ UNCHANGED <<foreground, recording, task, access, disk, happened>>

\* Before the write, or after it, when the file's protection cannot be set.
SaveFails ==
  /\ op.kind \in {"save", "written"}
  /\ Happens
  /\ op' = NoOp
  /\ UNCHANGED <<foreground, recording, task, access, disk, data, told>>

----------------------------------------------------------------------------
(* What they share: AppState and the process.                              *)

Init ==
  /\ foreground \in BOOLEAN
  /\ recording = FALSE
  /\ task = [k \in 1 .. Periods |-> UnbornTask]
  /\ device \in [authorization : Authorizations, services : BOOLEAN]
  /\ events = <<>>
  /\ location = MountedLocation
  /\ disk = EmptyStore
  /\ data = UnmountedData
  /\ op = NoOp
  /\ told = {}
  /\ happened = 0

AppStateChange ==
  /\ Happens
  /\ foreground' = ~foreground
  /\ task' = [k \in DOMAIN task |-> WithEligible(task[k], foreground')]
  /\ location' = IF foreground' THEN Refreshed(location, FALSE) ELSE location
  /\ UNCHANGED <<recording, device, events, datasets>>

Restart ==
  /\ Happens
  /\ recording' = FALSE
  /\ task' = [k \in DOMAIN task |-> UnbornTask]
  /\ events' = <<>>
  /\ location' = MountedLocation
  /\ data' = UnmountedData
  /\ op' = NoOp
  /\ foreground' \in BOOLEAN
  /\ UNCHANGED <<device, disk, told>>

Next ==
  \/ StartRecording \/ StopRecording
  \/ \E k \in 1 .. Periods : RunEnds(k) \/ TimerFires(k)
  \/ \E r \in location.reads :
       ReadStatus(r) \/ CheckServices(r) \/ AnswerArrives(r)
  \/ EventArrives \/ RequestAccess \/ PromptAnswered \/ VisitSettings
  \/ Load \/ Pick \/ PickEnds \/ Commit \/ Reset
  \/ \E d \in Datasets : Toggle(d) \/ Remove(d)
  \/ SaveWrites \/ SaveReturns \/ SaveFails
  \/ AppStateChange \/ Restart

Spec == Init /\ [][Next]_vars

----------------------------------------------------------------------------
(* What is checked.                                                        *)

(* Every variable stays in its set.                                        *)
TypeOK ==
  /\ foreground \in BOOLEAN /\ recording \in BOOLEAN
  /\ task \in [1 .. Periods -> Task]
  /\ device \in [authorization : Authorizations, services : BOOLEAN]
  /\ events \in Seq(Authorizations)
  /\ location.permission \in Permissions /\ location.reads \subseteq Read
  /\ disk \in Store /\ data.shown \in Store /\ told \subseteq Datasets
  /\ op.next \in Store /\ op.dataset \in Datasets \cup {None}

(* The refresh never dies and never doubles: while its recording is on     *)
(* screen, a task is either in a run or has its timer set; anywhere else   *)
(* it has no timer; and only the last period's task can have one.          *)
RefreshGoesOn ==
  \A k \in 1 .. Periods :
    LET t == task[k]
        due == t.state = "live" /\ foreground
    IN /\ due => (t.running # t.timer)
       /\ t.timer => due /\ recording

(* Every variable has its type, and the refresh neither dies nor doubles  *)
(* (RefreshGoesOn).                                                        *)
ScreensInv == TypeOK /\ RefreshGoesOn

(* Once nothing is on its way, the permission on the screen is the one the *)
(* device grants: no late answer has overwritten a newer one.  With        *)
(* Location Services off, both of their names are the truth.               *)
Truth ==
  IF device.services THEN {device.authorization}
  ELSE {"denied", "services-disabled"}
ShownIsGranted ==
  foreground /\ events = <<>> /\ location.reads = {}
    => location.permission \in Truth /\ ~location.checking

(* A dataset the user was told is imported stays in the file until the     *)
(* user removes it or clears a file that would not load: no failed save,   *)
(* no restart, and no import into a store that was not read, loses it.     *)
ImportedIsKept == told \subseteq In(disk)
=============================================================================
