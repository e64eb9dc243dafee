-------------------------- MODULE AppScreensProofs --------------------------
(***************************************************************************)
(* The three services of AppScreens, for every number of files, recording  *)
(* periods and events of the environment.  They share nothing but the      *)
(* foreground, so each has an inductive invariant of its own:              *)
(*                                                                         *)
(*   TaskOK     a task that is eligible is in a run or has its timer set   *)
(*   AccessOK   a read that may still be shown has seen the present        *)
(*   DataOK     what is shown, saved or stored has all that was promised   *)
(***************************************************************************)
EXTENDS AppScreens, TLAPS

Device == [authorization : Authorizations, services : BOOLEAN]

Location == [permission : Permissions, checking : BOOLEAN,
             reads : SUBSET Read, requesting : BOOLEAN, prompt : BOOLEAN]

DatasetOrNone == Datasets \cup {None}

Data == [shown : Store, state : {"loading", "ready", "failed"},
         draft : DatasetOrNone]

DatasetOp == [kind : {"none", "pick", "save", "written"}, next : Store,
              dataset : DatasetOrNone]

-----------------------------------------------------------------------------
(* The refresh of the recording.                                           *)

TaskOK ==
  /\ foreground \in BOOLEAN /\ recording \in BOOLEAN
  /\ task \in [1 .. Periods -> Task]
  /\ \A k \in 1 .. Periods :
       LET t == task[k]
       IN /\ t.state = "live" => recording /\ t.eligible = foreground
          /\ t.eligible => t.state = "live" /\ (t.running # t.timer)
          /\ t.timer => t.eligible
          /\ t.state = "unborn" => t = UnbornTask

LEMMA TaskGoesOn == TaskOK => RefreshGoesOn
BY DEF TaskOK, RefreshGoesOn, Task

(* One task at a time: what each of its methods makes of it.               *)
GoodTask(t, rec, fore) ==
  /\ t \in Task
  /\ t.state = "live" => rec /\ t.eligible = fore
  /\ t.eligible => t.state = "live" /\ (t.running # t.timer)
  /\ t.timer => t.eligible
  /\ t.state = "unborn" => t = UnbornTask

LEMMA TaskParts ==
  TaskOK <=> /\ foreground \in BOOLEAN /\ recording \in BOOLEAN
             /\ task = [k \in 1 .. Periods |-> task[k]]
             /\ \A k \in 1 .. Periods : GoodTask(task[k], recording, foreground)
BY DEF TaskOK, GoodTask

LEMMA EligibleTask ==
  ASSUME NEW rec \in BOOLEAN, NEW fore \in BOOLEAN, NEW t,
         GoodTask(t, rec, fore), NEW value \in BOOLEAN
  PROVE  GoodTask(WithEligible(t, value), rec, value)
BY DEF GoodTask, WithEligible, Ticked, Task, UnbornTask

LEMMA NewTask ==
  ASSUME NEW fore \in BOOLEAN
  PROVE  GoodTask(WithEligible([UnbornTask EXCEPT !.state = "live"], fore),
                  TRUE, fore)
BY DEF GoodTask, WithEligible, Ticked, Task, UnbornTask

LEMMA DisposedTask ==
  ASSUME NEW rec \in BOOLEAN, NEW fore \in BOOLEAN, NEW t,
         GoodTask(t, rec, fore)
  PROVE  GoodTask(Disposed(t), FALSE, fore)
BY DEF GoodTask, Disposed, Task, UnbornTask

LEMMA EndedTask ==
  ASSUME NEW rec \in BOOLEAN, NEW fore \in BOOLEAN, NEW t,
         GoodTask(t, rec, fore), t.running
  PROVE  GoodTask([t EXCEPT !.running = FALSE, !.timer = t.eligible], rec, fore)
<1> DEFINE u == [t EXCEPT !.running = FALSE, !.timer = t.eligible]
<1>0. t.state # "unborn" /\ t.eligible \in BOOLEAN /\ t.timer \in BOOLEAN
  BY DEF GoodTask, Task, UnbornTask
<1>1. /\ u \in Task /\ u.state = t.state /\ u.eligible = t.eligible
      /\ u.running = FALSE
  BY <1>0 DEF GoodTask, Task
<1>2. CASE t.eligible = TRUE
  <2>1. u.timer = TRUE
    BY <1>2 DEF GoodTask, Task
  <2> QED BY <1>0, <1>1, <1>2, <2>1 DEF GoodTask
<1>3. CASE t.eligible = FALSE
  <2>1. u.timer = FALSE
    BY <1>3 DEF GoodTask, Task
  <2> QED BY <1>0, <1>1, <1>3, <2>1 DEF GoodTask
<1> QED BY <1>0, <1>2, <1>3

LEMMA FiredTask ==
  ASSUME NEW rec \in BOOLEAN, NEW fore \in BOOLEAN, NEW t,
         GoodTask(t, rec, fore), t.timer
  PROVE  GoodTask(Ticked([t EXCEPT !.timer = FALSE]), rec, fore)
BY DEF GoodTask, Ticked, Task, UnbornTask

LEMMA FreshTask ==
  ASSUME NEW rec \in BOOLEAN, NEW fore \in BOOLEAN
  PROVE  GoodTask(UnbornTask, rec, fore)
BY DEF GoodTask, Task, UnbornTask

LEMMA InitTask == Init => TaskOK
BY FreshTask DEF Init, TaskOK, GoodTask

LEMMA NextTask == TaskOK /\ [Next]_vars => TaskOK'
<1> SUFFICES ASSUME TaskOK, [Next]_vars PROVE TaskOK'
  OBVIOUS
<1>0. /\ foreground \in BOOLEAN /\ recording \in BOOLEAN
      /\ DOMAIN task = 1 .. Periods /\ task = [k \in 1 .. Periods |-> task[k]]
      /\ \A k \in 1 .. Periods : GoodTask(task[k], recording, foreground)
  BY TaskParts DEF TaskOK
<1>1. SUFFICES /\ foreground' \in BOOLEAN /\ recording' \in BOOLEAN
               /\ task' = [k \in 1 .. Periods |-> task'[k]]
               /\ \A k \in 1 .. Periods :
                    GoodTask(task'[k], recording', foreground')
  BY DEF TaskOK, GoodTask
<1>2. CASE StartRecording
  <2>1. PICK k \in 1 .. Periods :
          task' = [task EXCEPT ![k] =
                     WithEligible([UnbornTask EXCEPT !.state = "live"],
                                  foreground)]
    BY <1>2 DEF StartRecording
  <2>2. recording' = TRUE /\ foreground' = foreground /\ recording = FALSE
    BY <1>0, <1>2 DEF StartRecording
  <2>3. \A j \in 1 .. Periods : GoodTask(task[j], TRUE, foreground)
    BY <1>0, <2>2 DEF GoodTask
  <2> QED BY <1>0, <2>1, <2>2, <2>3, NewTask
<1>3. CASE StopRecording
  BY <1>0, <1>3, DisposedTask DEF StopRecording
<1>4. ASSUME NEW k \in 1 .. Periods, RunEnds(k)
      PROVE  /\ UNCHANGED <<foreground, recording>>
             /\ task' = [j \in 1 .. Periods |-> task'[j]]
             /\ \A j \in 1 .. Periods :
                  GoodTask(task'[j], recording, foreground)
  <2>1. task' = [task EXCEPT ![k] =
                   [task[k] EXCEPT !.running = FALSE,
                                   !.timer = task[k].eligible]]
    BY <1>0, <1>4 DEF RunEnds, GoodTask, Task
  <2>2. task[k].running /\ UNCHANGED <<foreground, recording>>
    BY <1>4 DEF RunEnds
  <2> QED BY <1>0, <2>1, <2>2, EndedTask
<1>5. ASSUME NEW k \in 1 .. Periods, TimerFires(k)
      PROVE  /\ UNCHANGED <<foreground, recording>>
             /\ task' = [j \in 1 .. Periods |-> task'[j]]
             /\ \A j \in 1 .. Periods :
                  GoodTask(task'[j], recording, foreground)
  <2>1. task[k].timer /\ UNCHANGED <<foreground, recording>>
        /\ task' = [task EXCEPT ![k] = Ticked([task[k] EXCEPT !.timer = FALSE])]
    BY <1>5 DEF TimerFires
  <2> QED BY <1>0, <2>1, FiredTask
<1>6. CASE AppStateChange
  BY <1>0, <1>6, EligibleTask DEF AppStateChange
<1>7. CASE Restart
  BY <1>0, <1>7, FreshTask DEF Restart
<1>8. CASE UNCHANGED <<foreground, recording, task>>
  BY <1>0, <1>8
<1>9. CASE \/ (\E r \in location.reads : ReadStatus(r) \/ CheckServices(r)
                                           \/ AnswerArrives(r))
           \/ EventArrives \/ RequestAccess \/ PromptAnswered \/ VisitSettings
           \/ Load \/ Pick \/ PickEnds \/ Commit \/ Reset
           \/ (\E d \in Datasets : Toggle(d) \/ Remove(d))
           \/ SaveWrites \/ SaveReturns \/ SaveFails \/ UNCHANGED vars
  <2>1. UNCHANGED <<foreground, recording, task>>
    BY <1>9 DEF ReadStatus, CheckServices, AnswerArrives, EventArrives,
       RequestAccess, PromptAnswered, VisitSettings, Load, Pick, PickEnds,
       Commit, Reset, Toggle, Remove, SaveWrites, SaveReturns, SaveFails, vars
  <2> QED BY <1>8, <2>1
<1> QED
  BY <1>0, <1>2, <1>3, <1>4, <1>5, <1>6, <1>7, <1>9 DEF Next

-----------------------------------------------------------------------------
(* The location access.  While no event is on its way, the status a read   *)
(* that may still be shown has seen is the present one; in the foreground, *)
(* so is the answer it carries, and if no such read is left, what is on    *)
(* the screen.                                                             *)

AccessTypes ==
  /\ device \in Device
  /\ events \in Seq(Authorizations)
  /\ location \in Location

Awaited == \E r \in location.reads : r.latest

AccessOK ==
  /\ AccessTypes
  /\ location.checking => Awaited
  /\ events # <<>> => events[Len(events)] = Status
  /\ events = <<>> =>
       \A r \in location.reads :
         r.latest /\ r.seen # "none" => r.seen = Status
  /\ foreground /\ events = <<>> =>
       /\ Awaited \/ location.permission \in Truth
       /\ \A r \in location.reads :
            r.latest /\ r.answer # "none" => r.answer \in Truth

LEMMA AccessShows == AccessOK => ShownIsGranted
BY DEF AccessOK, AccessTypes, Location, Awaited, ShownIsGranted

LEMMA RefreshedIs ==
  ASSUME NEW loc \in Location, NEW asked \in BOOLEAN
  PROVE  /\ Refreshed(loc, asked) \in Location
         /\ \E r \in Refreshed(loc, asked).reads : r.latest
         /\ \A r \in Refreshed(loc, asked).reads :
              r.latest => r.seen = "none" /\ r.answer = "none"
<1> DEFINE new == [latest |-> TRUE, asked |-> asked, seen |-> "none",
                   answer |-> "none"]
           reads == Outdated(loc.reads) \cup {new}
<1>1. ASSUME NEW r \in loc.reads
      PROVE  /\ [r EXCEPT !.latest = FALSE] \in Read
             /\ [r EXCEPT !.latest = FALSE].latest = FALSE
  <2>1. r \in Read
    BY DEF Location
  <2> QED BY <2>1 DEF Read
<1>2. ASSUME NEW r \in Outdated(loc.reads)
      PROVE  r \in Read /\ r.latest = FALSE
  <2>1. PICK q \in loc.reads : r = [q EXCEPT !.latest = FALSE]
    BY DEF Outdated
  <2> QED BY ONLY <1>1, <2>1
<1>3. /\ new \in Read /\ new.latest = TRUE
      /\ new.seen = "none" /\ new.answer = "none"
  BY DEF Read
<1>4. Refreshed(loc, asked) = [loc EXCEPT !.checking = TRUE, !.reads = reads]
  BY DEF Refreshed
<1> HIDE DEF new
<1>5. reads \in SUBSET Read
  BY <1>2, <1>3
<1> HIDE DEF reads
<1>6. Refreshed(loc, asked).reads = reads /\ Refreshed(loc, asked) \in Location
  BY <1>4, <1>5 DEF Location
<1>7. /\ \E r \in reads : r.latest
      /\ \A r \in reads : r.latest => r.seen = "none" /\ r.answer = "none"
  BY <1>2, <1>3 DEF reads
<1> QED BY <1>6, <1>7

LEMMA MountedIs ==
  /\ MountedLocation \in Location
  /\ \E r \in MountedLocation.reads : r.latest
  /\ \A r \in MountedLocation.reads :
       r.latest => r.seen = "none" /\ r.answer = "none"
<1> DEFINE loc == [permission |-> "unavailable", checking |-> FALSE,
                   reads |-> {}, requesting |-> FALSE, prompt |-> FALSE]
<1>1. loc \in Location
  BY DEF Location, Permissions
<1>2. MountedLocation = Refreshed(loc, FALSE)
  BY DEF MountedLocation
<1> HIDE DEF loc
<1> QED BY <1>1, <1>2, RefreshedIs

LEMMA InitAccess == Init => AccessOK
BY MountedIs DEF Init, AccessOK, AccessTypes, Awaited, Device

(* A change of the settings is announced if and only if it changes what    *)
(* Core Location reports.                                                  *)
LEMMA ChangesAnnounced ==
  ASSUME AccessTypes, NEW to \in Device, Changes(to),
         events # <<>> => events[Len(events)] = Status
  PROVE  /\ device' \in Device /\ events' \in Seq(Authorizations)
         /\ events' # <<>> => events'[Len(events')] = Status'
         /\ events' = <<>> => events = <<>> /\ Status' = Status
<1> DEFINE now == IF to.services THEN to.authorization ELSE "denied"
<1>1. device' = to /\ Status' = now /\ now \in Authorizations
  BY DEF Changes, Status, Device, Authorizations
<1>2. events' = IF now = Status THEN events ELSE Append(events, now)
  BY DEF Changes
<1> HIDE DEF now
<1>3. CASE now = Status
  BY <1>1, <1>2, <1>3 DEF AccessTypes
<1>4. CASE now # Status
  BY <1>1, <1>2, <1>4 DEF AccessTypes
<1> QED BY <1>3, <1>4

(* A read that goes on from one queue to the next.                         *)
LEMMA ReadGoesOn ==
  ASSUME AccessOK, NEW r \in location.reads, NEW q \in Read,
         q.latest = r.latest,
         location' = [location EXCEPT !.reads = (@ \ {r}) \cup {q}],
         UNCHANGED <<foreground, device, events>>,
         events = <<>> /\ q.latest /\ q.seen # "none" => q.seen = Status,
         foreground /\ events = <<>> /\ q.latest /\ q.answer # "none" =>
           q.answer \in Truth
  PROVE  AccessOK'
<1>1. /\ location'.reads = (location.reads \ {r}) \cup {q}
      /\ location' \in Location
      /\ location'.checking = location.checking
      /\ location'.permission = location.permission
  BY DEF AccessOK, AccessTypes, Location
<1>2. Awaited => Awaited'
  BY <1>1 DEF Awaited
<1>3. Status' = Status /\ Truth' = Truth
  BY DEF Status, Truth
<1> QED BY <1>1, <1>2, <1>3 DEF AccessOK, AccessTypes

LEMMA ReadStatusAccess ==
  ASSUME AccessOK, NEW r \in location.reads, ReadStatus(r)
  PROVE  AccessOK'
<1> DEFINE q == [r EXCEPT !.seen = Status]
<1>1. r \in Read /\ Status \in Authorizations
  BY DEF AccessOK, AccessTypes, Location, Device, Status, Authorizations
<1>2. /\ q \in Read /\ q.latest = r.latest /\ q.seen = Status
      /\ q.answer = r.answer
  BY <1>1 DEF Read
<1>3. /\ location' = [location EXCEPT !.reads = (@ \ {r}) \cup {q}]
      /\ UNCHANGED <<foreground, device, events>>
  BY DEF ReadStatus
<1> HIDE DEF q
<1>4. foreground /\ events = <<>> /\ q.latest /\ q.answer # "none" =>
        q.answer \in Truth
  BY <1>2 DEF AccessOK
<1> QED BY <1>2, <1>3, <1>4, ReadGoesOn

LEMMA CheckServicesAccess ==
  ASSUME AccessOK, NEW r \in location.reads, CheckServices(r)
  PROVE  AccessOK'
<1> DEFINE answer == IF device.services THEN r.seen ELSE "services-disabled"
           q == [r EXCEPT !.answer = answer]
<1>1. r \in Read /\ r.seen # "none" /\ device \in Device
  BY DEF AccessOK, AccessTypes, Location, CheckServices
<1>2. answer \in Permissions
  BY <1>1 DEF Read, Permissions
<1>3. events = <<>> /\ r.latest => r.seen = Status
  BY <1>1 DEF AccessOK
<1>4. events = <<>> /\ r.latest => answer \in Truth
  BY <1>3 DEF Status, Truth
<1>5. /\ location' = [location EXCEPT !.reads = (@ \ {r}) \cup {q}]
      /\ UNCHANGED <<foreground, device, events>>
  BY DEF CheckServices
<1> HIDE DEF answer
<1>6. /\ q \in Read /\ q.latest = r.latest /\ q.seen = r.seen
      /\ q.answer = answer
  BY <1>1, <1>2 DEF Read
<1> HIDE DEF q
<1> QED BY <1>3, <1>4, <1>5, <1>6, ReadGoesOn

LEMMA AnswerAccess ==
  ASSUME AccessOK, foreground \in BOOLEAN, NEW r \in location.reads,
         AnswerArrives(r)
  PROVE  AccessOK'
<1>1. /\ r \in Read /\ r.answer # "none" /\ location \in Location
      /\ UNCHANGED <<foreground, device, events>>
  BY DEF AccessOK, AccessTypes, Location, AnswerArrives
<1>2. r.answer \in Permissions /\ r.latest \in BOOLEAN /\ r.asked \in BOOLEAN
  BY <1>1 DEF Read
<1>3. /\ location' \in Location
      /\ location'.reads = location.reads \ {r}
      /\ location'.permission = IF r.latest THEN r.answer
                                ELSE location.permission
      /\ location'.checking => location.checking /\ ~r.latest
  BY <1>1, <1>2 DEF AnswerArrives, Location
<1>4. Awaited /\ ~r.latest => Awaited'
  BY <1>3 DEF Awaited
<1>5. Status' = Status /\ Truth' = Truth
  BY <1>1 DEF Status, Truth
<1>6. foreground /\ events = <<>> =>
        Awaited' \/ location'.permission \in Truth
  BY <1>1, <1>3, <1>4 DEF AccessOK
<1>7. location'.checking => Awaited'
  BY <1>3, <1>4 DEF AccessOK
<1> QED BY <1>1, <1>3, <1>5, <1>6, <1>7 DEF AccessOK, AccessTypes

(* An event outdates every read; the last one on its way tells the truth.  *)
LEMMA EventAccess ==
  ASSUME AccessOK, EventArrives
  PROVE  AccessOK'
<1>1. /\ events \in Seq(Authorizations) /\ events # <<>>
      /\ events' = Tail(events) /\ location \in Location
      /\ UNCHANGED <<foreground, device>>
  BY DEF EventArrives, AccessOK, AccessTypes
<1>2. \A r \in Outdated(location.reads) : r \in Read /\ r.latest = FALSE
  <2>1. ASSUME NEW r \in location.reads
        PROVE  /\ [r EXCEPT !.latest = FALSE] \in Read
               /\ [r EXCEPT !.latest = FALSE].latest = FALSE
    <3>1. r \in Read
      BY <1>1 DEF Location
    <3> QED BY <3>1 DEF Read
  <2>2. TAKE r \in Outdated(location.reads)
  <2>3. PICK q \in location.reads : r = [q EXCEPT !.latest = FALSE]
    BY <2>2 DEF Outdated
  <2> QED BY ONLY <2>1, <2>3
<1>3. Head(events) \in Authorizations
  BY <1>1
<1>4. /\ location' \in Location /\ location'.permission = Head(events)
      /\ location'.checking = FALSE
      /\ location'.reads = Outdated(location.reads)
  <2>1. Outdated(location.reads) \in SUBSET Read
    BY <1>2
  <2>2. location' = [location EXCEPT !.permission = Head(events),
                       !.checking = FALSE, !.reads = Outdated(location.reads)]
    BY DEF EventArrives
  <2> HIDE DEF Outdated
  <2> QED BY <1>1, <1>3, <2>1, <2>2 DEF Location, Permissions
<1>5. Status' = Status /\ Truth' = Truth
  BY <1>1 DEF Status, Truth
<1>6. events' # <<>> => events'[Len(events')] = events[Len(events)]
  BY <1>1
<1>7. events' = <<>> => Head(events) = events[Len(events)]
  <2>1. Len(events') = Len(events) - 1 /\ Len(events) \in Nat
        /\ Len(events) > 0
    BY <1>1
  <2>2. events' = <<>> => Len(events') = 0
    OBVIOUS
  <2> QED BY <1>1, <2>1, <2>2
<1>8. Status \in Truth
  BY DEF Status, Truth
<1>9. events[Len(events)] = Status
  BY <1>1 DEF AccessOK
<1> QED
  BY <1>1, <1>2, <1>4, <1>5, <1>6, <1>7, <1>8, <1>9 DEF AccessOK, AccessTypes

(* What a refresh leaves: a read that has seen nothing yet.                *)
LEMMA RefreshAccess ==
  ASSUME device' \in Device, events' \in Seq(Authorizations),
         location' \in Location,
         \E r \in location'.reads : r.latest,
         \A r \in location'.reads :
           r.latest => r.seen = "none" /\ r.answer = "none",
         events' # <<>> => events'[Len(events')] = Status'
  PROVE  AccessOK'
BY DEF AccessOK, AccessTypes, Awaited

LEMMA AskAccess ==
  ASSUME AccessOK, RequestAccess
  PROVE  AccessOK'
<1> DEFINE fresh == Refreshed(location, TRUE)
<1>1. /\ fresh \in Location
      /\ \E r \in fresh.reads : r.latest
      /\ \A r \in fresh.reads :
           r.latest => r.seen = "none" /\ r.answer = "none"
  BY RefreshedIs DEF AccessOK, AccessTypes
<1>2. PICK asks \in BOOLEAN :
        location' = [fresh EXCEPT !.requesting = TRUE, !.prompt = asks]
  BY DEF RequestAccess
<1> HIDE DEF fresh
<1>3. location' \in Location /\ location'.reads = fresh.reads
  BY <1>1, <1>2 DEF Location
<1>4. UNCHANGED <<device, events, Status>>
  BY DEF RequestAccess, Status
<1> QED BY <1>1, <1>3, <1>4, RefreshAccess DEF AccessOK, AccessTypes

(* The user answers the prompt, or visits the settings: what changes while *)
(* the app is on the screen is announced or does not matter.               *)
LEMMA PromptAccess ==
  ASSUME AccessOK, PromptAnswered
  PROVE  AccessOK'
<1>1. PICK a \in {"always", "denied"} :
        Changes([device EXCEPT !.authorization = a])
  BY DEF PromptAnswered
<1>2. /\ device \in Device /\ location \in Location /\ UNCHANGED foreground
  BY DEF AccessOK, AccessTypes, PromptAnswered
<1>3. /\ [device EXCEPT !.authorization = a] \in Device
      /\ device' = [device EXCEPT !.authorization = a]
  BY <1>1, <1>2 DEF Device, Authorizations, Changes
<1>4. /\ location' = [location EXCEPT !.prompt = FALSE]
      /\ location' \in Location /\ location'.reads = location.reads
      /\ location'.permission = location.permission
      /\ location'.checking = location.checking
  BY <1>2 DEF PromptAnswered, Location
<1>5. /\ events' \in Seq(Authorizations)
      /\ events' # <<>> => events'[Len(events')] = Status'
      /\ events' = <<>> => events = <<>> /\ Status' = Status
  BY <1>1, <1>3, ChangesAnnounced DEF AccessOK
<1>6. Status' = Status => Truth' = Truth
  BY <1>2, <1>3 DEF Status, Truth, Device
<1> QED
  BY <1>2, <1>3, <1>4, <1>5, <1>6 DEF AccessOK, AccessTypes, Awaited

LEMMA SettingsAccess ==
  ASSUME AccessOK, VisitSettings
  PROVE  AccessOK'
<1>1. /\ device \in Device /\ ~foreground
      /\ UNCHANGED <<foreground, location>>
  BY DEF AccessOK, AccessTypes, VisitSettings
<1>2. PICK to \in Device : Changes(to)
  BY <1>1 DEF VisitSettings, Device, Authorizations
<1>3. /\ device' \in Device /\ events' \in Seq(Authorizations)
      /\ events' # <<>> => events'[Len(events')] = Status'
      /\ events' = <<>> => events = <<>> /\ Status' = Status
  BY <1>2, ChangesAnnounced DEF AccessOK
<1> QED BY <1>1, <1>3 DEF AccessOK, AccessTypes, Awaited

LEMMA ReturnAccess ==
  ASSUME AccessOK, AppStateChange
  PROVE  AccessOK'
<1>1. UNCHANGED <<device, events, Status>> /\ location \in Location
      /\ device \in Device /\ events \in Seq(Authorizations)
  BY DEF AppStateChange, Status, AccessOK, AccessTypes
<1>2. CASE foreground'
  <2>1. location' = Refreshed(location, FALSE)
    BY <1>2 DEF AppStateChange
  <2> HIDE DEF Refreshed
  <2> QED BY <1>1, <2>1, RefreshedIs, RefreshAccess DEF AccessOK
<1>3. CASE ~foreground'
  BY <1>1, <1>3 DEF AppStateChange, AccessOK, AccessTypes, Awaited
<1> QED BY <1>2, <1>3

LEMMA RestartAccess ==
  ASSUME AccessOK, Restart
  PROVE  AccessOK'
BY MountedIs, RefreshAccess DEF Restart, AccessOK, AccessTypes

LEMMA NextAccess ==
  ASSUME AccessOK, foreground \in BOOLEAN, [Next]_vars
  PROVE  AccessOK'
<1>1. CASE \E r \in location.reads :
             ReadStatus(r) \/ CheckServices(r) \/ AnswerArrives(r)
  BY <1>1, ReadStatusAccess, CheckServicesAccess, AnswerAccess
<1>2. CASE EventArrives \/ RequestAccess \/ PromptAnswered \/ VisitSettings
             \/ AppStateChange \/ Restart
  BY <1>2, EventAccess, AskAccess, PromptAccess, SettingsAccess,
     ReturnAccess, RestartAccess
<1>3. CASE \/ StartRecording \/ StopRecording
           \/ (\E k \in 1 .. Periods : RunEnds(k) \/ TimerFires(k))
           \/ Load \/ Pick \/ PickEnds \/ Commit \/ Reset
           \/ (\E d \in Datasets : Toggle(d) \/ Remove(d))
           \/ SaveWrites \/ SaveReturns \/ SaveFails \/ UNCHANGED vars
  <2>1. UNCHANGED <<foreground, device, events, location>>
    BY <1>3 DEF StartRecording, StopRecording, RunEnds, TimerFires, Load,
       Pick, PickEnds, Commit, Reset, Toggle, Remove, SaveWrites,
       SaveReturns, SaveFails, Saves, vars, access
  <2> QED BY <2>1 DEF AccessOK, AccessTypes, Awaited, Status, Truth
<1> QED BY <1>1, <1>2, <1>3 DEF Next

-----------------------------------------------------------------------------
(* The imported datasets.                                                  *)

DataTypes ==
  /\ disk \in Store /\ data \in Data /\ op \in DatasetOp
  /\ told \in SUBSET Datasets

DataOK ==
  /\ DataTypes
  /\ told \subseteq In(disk)
  /\ data.state = "ready" => told \subseteq In(data.shown)
  /\ op.kind \in {"save", "written"} =>
       /\ told \subseteq In(op.next)
       /\ op.dataset # None => op.dataset \in In(op.next)
  /\ op.kind = "written" => disk = op.next

LEMMA InitData == Init => DataOK
BY DEF Init, DataOK, DataTypes, Data, DatasetOp, EmptyStore, Store, Kept,
       UnmountedData, NoOp, DatasetOrNone, In

LEMMA SavesType ==
  ASSUME NEW next \in Store, NEW d \in DatasetOrNone, Saves(next, d)
  PROVE  op' \in DatasetOp /\ op'.kind = "save" /\ op'.next = next
         /\ op'.dataset = d
BY DEF Saves, DatasetOp

LEMMA NextData == DataOK /\ [Next]_vars => DataOK'
<1> SUFFICES ASSUME DataOK, [Next]_vars PROVE DataOK'
  OBVIOUS
<1>0. /\ disk \in Store /\ data \in Data /\ op \in DatasetOp
      /\ data.shown \in Store /\ told \in SUBSET Datasets
      /\ data.draft \in DatasetOrNone
  BY DEF DataOK, DataTypes, Data
<1>1. NoOp \in DatasetOp /\ NoOp.kind = "none" /\ UnmountedData \in Data
      /\ UnmountedData.state = "loading" /\ EmptyStore \in Store
  BY DEF NoOp, DatasetOp, UnmountedData, Data, EmptyStore, Store, Kept,
         DatasetOrNone
<1>2. CASE Load
  <2>1. data' \in Data /\ (data'.state = "ready" => data'.shown = disk)
    BY <1>0, <1>2 DEF Load, Data
  <2> QED BY <1>2, <2>1 DEF Load, DataOK, DataTypes
<1>3. CASE Pick
  <2>1. op' \in DatasetOp /\ op'.kind = "pick"
    BY <1>3, <1>1 DEF Pick, DatasetOp
  <2> QED BY <1>3, <2>1 DEF Pick, DataOK, DataTypes
<1>4. CASE PickEnds
  <2>1. data' \in Data /\ data'.shown = data.shown /\ data'.state = data.state
    BY <1>0, <1>4 DEF PickEnds, Data, DatasetOrNone
  <2> QED BY <1>1, <1>4, <2>1 DEF PickEnds, DataOK, DataTypes
<1>5. CASE Commit
  <2> DEFINE next == [data.shown EXCEPT ![data.draft] = "visible"]
  <2>1. data.draft \in Datasets /\ data.state = "ready" /\ Saves(next, data.draft)
        /\ UNCHANGED <<disk, data, told>>
    BY <1>0, <1>5 DEF Commit, MayOperate, DatasetOrNone
  <2>2. next \in Store /\ In(data.shown) \subseteq In(next)
        /\ data.draft \in In(next)
    BY <1>0, <2>1 DEF Store, Kept, In
  <2> HIDE DEF next
  <2>3. op' \in DatasetOp /\ op'.kind = "save" /\ op'.next = next
        /\ op'.dataset = data.draft
    BY <1>0, <2>1, <2>2, SavesType
  <2> QED BY <2>1, <2>2, <2>3 DEF DataOK, DataTypes
<1>6. ASSUME NEW d \in Datasets, Toggle(d)
      PROVE  DataOK'
  <2> DEFINE next == [data.shown EXCEPT ![d] = IF @ = "visible" THEN "hidden"
                                               ELSE "visible"]
  <2>1. data.state = "ready" /\ Saves(next, None) /\ d \in In(data.shown)
        /\ UNCHANGED <<disk, data, told>>
    BY <1>6 DEF Toggle, MayOperate
  <2>2. next \in Store /\ In(data.shown) \subseteq In(next)
    BY <1>0, <2>1 DEF Store, Kept, In
  <2> HIDE DEF next
  <2>3. op' \in DatasetOp /\ op'.kind = "save" /\ op'.next = next
        /\ op'.dataset = None
    BY <2>1, <2>2, SavesType DEF DatasetOrNone
  <2> QED BY <2>1, <2>2, <2>3 DEF DataOK, DataTypes
<1>7. ASSUME NEW d \in Datasets, Remove(d)
      PROVE  DataOK'
  <2> DEFINE next == [data.shown EXCEPT ![d] = "absent"]
  <2>1. data.state = "ready" /\ Saves(next, None) /\ told' = told \ {d}
        /\ UNCHANGED <<disk, data>>
    BY <1>7 DEF Remove, MayOperate
  <2>2. next \in Store /\ In(data.shown) \ {d} \subseteq In(next)
    BY <1>0 DEF Store, Kept, In
  <2> HIDE DEF next
  <2>3. op' \in DatasetOp /\ op'.kind = "save" /\ op'.next = next
        /\ op'.dataset = None
    BY <2>1, <2>2, SavesType DEF DatasetOrNone
  <2> QED BY <1>0, <2>1, <2>2, <2>3 DEF DataOK, DataTypes
<1>8. CASE Reset
  <2>1. op' \in DatasetOp /\ op'.kind = "save" /\ op'.dataset = None
    BY <1>1, <1>8, SavesType DEF Reset, DatasetOrNone
  <2> QED BY <1>8, <2>1 DEF Reset, DataOK, DataTypes
<1>9. CASE SaveWrites
  <2>1. op' \in DatasetOp /\ op'.kind = "written" /\ op'.next = op.next
        /\ op'.dataset = op.dataset /\ op.next \in Store
    BY <1>0, <1>9 DEF SaveWrites, DatasetOp
  <2> QED BY <1>9, <2>1 DEF SaveWrites, DataOK, DataTypes
<1>10. CASE SaveReturns
  <2>1. data' \in Data /\ data'.shown = op.next /\ op.dataset \in DatasetOrNone
    BY <1>0, <1>10 DEF SaveReturns, Data, DatasetOp, DatasetOrNone
  <2> QED
    BY <1>0, <1>1, <1>10, <2>1 DEF SaveReturns, DataOK, DataTypes, DatasetOrNone
<1>11. CASE SaveFails
  BY <1>1, <1>11 DEF SaveFails, DataOK, DataTypes
<1>12. CASE Restart
  BY <1>1, <1>12 DEF Restart, DataOK, DataTypes
<1>13. CASE \/ StartRecording \/ StopRecording
            \/ (\E k \in 1 .. Periods : RunEnds(k) \/ TimerFires(k))
            \/ (\E r \in location.reads : ReadStatus(r) \/ CheckServices(r)
                                            \/ AnswerArrives(r))
            \/ EventArrives \/ RequestAccess \/ PromptAnswered
            \/ VisitSettings \/ AppStateChange \/ UNCHANGED vars
  <2>1. UNCHANGED <<disk, data, op, told>>
    BY <1>13 DEF StartRecording, StopRecording, RunEnds, TimerFires,
       ReadStatus, CheckServices, AnswerArrives, EventArrives, RequestAccess,
       PromptAnswered, VisitSettings, AppStateChange, vars, datasets
  <2> QED BY <2>1 DEF DataOK, DataTypes
<1> QED
  BY <1>2, <1>3, <1>4, <1>5, <1>6, <1>7, <1>8, <1>9, <1>10, <1>11, <1>12,
     <1>13 DEF Next

-----------------------------------------------------------------------------
(* What holds of the three together.                                       *)

AppInv == TaskOK /\ AccessOK /\ DataOK

LEMMA AppInvariant == Spec => []AppInv
<1>1. Init => AppInv
  BY InitTask, InitAccess, InitData DEF AppInv
<1>2. AppInv /\ [Next]_vars => AppInv'
  BY NextTask, NextAccess, NextData DEF AppInv, TaskOK
<1> QED BY <1>1, <1>2, PTL DEF Spec

(* Every variable keeps its type, and the refresh of a recording neither   *)
(* dies nor doubles, however often the app leaves the screen during a run. *)
THEOREM RefreshHolds == Spec => []ScreensInv
<1>1. AppInv => TypeOK
  BY DEF AppInv, TaskOK, AccessOK, AccessTypes, DataOK, DataTypes, TypeOK,
         Device, Location, Data, DatasetOp, DatasetOrNone
<1>2. AppInv => ScreensInv
  BY <1>1, TaskGoesOn DEF AppInv, ScreensInv
<1> QED BY <1>2, AppInvariant, PTL

(* Once no answer and no event is on its way, the screen shows the access  *)
(* the device grants, whatever the order in which late answers came.       *)
THEOREM AccessIsGranted == Spec => []ShownIsGranted
<1>1. AppInv => ShownIsGranted
  BY AccessShows DEF AppInv
<1> QED BY <1>1, AppInvariant, PTL

(* A dataset the user was told is imported stays in the file until it is   *)
(* given up, through failed saves, failed loads and restarts.              *)
THEOREM ImportsAreKept == Spec => []ImportedIsKept
<1>1. AppInv => ImportedIsKept
  BY DEF AppInv, DataOK, ImportedIsKept
<1> QED BY <1>1, AppInvariant, PTL
=============================================================================
