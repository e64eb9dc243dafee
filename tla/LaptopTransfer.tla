--------------------------- MODULE LaptopTransfer ---------------------------
(***************************************************************************)
(* Getting a state map from a laptop on the same Wi-Fi: the client of the  *)
(* phone (OpenOutdoorLaptopPackages.swift), the hooks that drive it        *)
(* (useStatePackages.ts, useLaptopPairing.ts) and the laptop's server      *)
(* (laptop-package-server.mjs).                                            *)
(*                                                                         *)
(* Four kinds of process interleave.                                       *)
(*   The screen: JavaScript.  It calls the client and awaits its promise;  *)
(*     one operation at a time is `inFlight`, but cancelling and leaving   *)
(*     the foreground come at any moment.                                  *)
(*   The client: one serial queue, on which the calls (in order) and the   *)
(*     callbacks of URL sessions run.  Each is one step.                   *)
(*   The URL sessions: one per request.  An abandoned one still delivers   *)
(*     what it had under way.                                              *)
(*   The laptops: each may be restarted, with a new pairing code and maybe *)
(*     a newer package, between any two requests.                          *)
(*                                                                         *)
(* One state is offered.  Installing is one step here, which succeeds or   *)
(* fails: StatePackages has its writes, and what else it checks.           *)
(*                                                                         *)
(* Left out: catalogs without a signing key (schemaVersion 1), discovery,  *)
(* progress, sizes, the end of the process (the client keeps nothing).     *)
(***************************************************************************)
EXTENDS Integers, Sequences, FiniteSets

CONSTANTS
  Laptops,       \* laptops, each known by its signing key
  Sessions,      \* URL sessions that may exist at once
  MaxRevision,   \* bound: revisions of a laptop's package
  MaxCode,       \* bound: pairing codes of a laptop
  MaxOps,        \* bound: operations of the screen
  MaxScans,      \* bound: promises of the QR scanner not yet settled
  MaxFaults,     \* bound: faults in one behaviour
  None           \* no laptop, no session

ASSUME LaptopAssumption ==
  /\ None \notin Laptops \cup Sessions
  /\ IsFiniteSet(Sessions)
  /\ MaxRevision \in Nat \ {0}
  /\ MaxCode \in Nat \ {0}
  /\ MaxOps \in Nat
  /\ MaxScans \in Nat
  /\ MaxFaults \in Nat

VARIABLES
  laptop,        \* laptop -> its pairing code, catalog and package file
  task,          \* session -> its request and how far it is
  phone,         \* the client: the fields of OpenOutdoorLaptopPackages
  store,         \* installed package, replay floor and trusted keys
  screen,        \* useStatePackages: the operation and the list shown
  pairing,       \* useLaptopPairing: its scans
  calls,         \* calls on their way to the client
  answers,       \* settled promises on their way to the screen
  foreground,    \* the app is not in the background
  ops,           \* operations so far
  faults         \* faults so far

vars == <<laptop, task, phone, store, screen, pairing, calls, answers,
          foreground, ops, faults>>

Revisions == 1..MaxRevision
Codes == 1..MaxCode

(* A signed snapshot.  The first of every laptop is the file this build of *)
(* the app has in its allowlist.                                           *)
Ticket == [by : Laptops, revision : Revisions]
NoTicket == [by |-> None, revision |-> 0]
TicketOrNone == Ticket \cup {NoTicket}
BuildPinned(ticket) == ticket.revision = 1

(* A pin: a snapshot, authorized by its signature or by the build.         *)
Pin == [ticket : Ticket, signed : BOOLEAN]
NoPin == [ticket |-> NoTicket, signed |-> FALSE]
PinOrNone == Pin \cup {NoPin}

Tasks == [status : {"free", "sent", "answered", "done", "lost"},
          to : Laptops \cup {None}, code : Codes, state : BOOLEAN,
          reply : TicketOrNone]         \* NoTicket: an error response
FreeTask == [status |-> "free", to |-> None, code |-> 1, state |-> FALSE,
             reply |-> NoTicket]

Phone == [session : Sessions \cup {None}, pending : BOOLEAN,
          baseURL : Laptops \cup {None}, pairingCode : Codes,
          expected : Laptops \cup {None}, signingKey : Laptops \cup {None},
          cache : TicketOrNone, offered : PinOrNone, incoming : PinOrNone,
          data : SUBSET Ticket, failed : BOOLEAN]

IdlePhone == [session |-> None, pending |-> FALSE, baseURL |-> None,
              pairingCode |-> 1, expected |-> None, signingKey |-> None,
              cache |-> NoTicket, offered |-> NoPin, incoming |-> NoPin,
              data |-> {}, failed |-> FALSE]

OpKinds == {"none", "connect", "download", "refresh", "approve", "revoke",
            "forget"}

(* An operation of the screen: its promise and, for those that change the  *)
(* list, a second one, of the saved signers; `latest` says that no later   *)
(* event made its request outdated.                                        *)
Screen == [op : OpKinds, second : BOOLEAN, latest : BOOLEAN,
           scanned : BOOLEAN,           \* a current scan awaits the connect
           result : TicketOrNone,       \* held while the second is awaited
           list : TicketOrNone,         \* laptopCatalog
           asked : TicketOrNone,        \* on the list when download began
           vouched : Laptops \cup {None}] \* fingerprint of the connection
QuietScreen == [op |-> "none", second |-> FALSE, latest |-> TRUE,
                scanned |-> FALSE, result |-> NoTicket, list |-> NoTicket,
                asked |-> NoTicket, vouched |-> None]

(* A promise of the QR scanner; `current` if its generation is the last.   *)
Scan == [current : BOOLEAN, view : {"open", "closed", "read"},
         from : Laptops \cup {None}, code : Codes]

CallKinds == (OpKinds \ {"none"}) \cup {"cancel", "disconnect", "signers"}
Call == [kind : CallKinds, to : Laptops \cup {None}, code : Codes,
         fingerprint : Laptops \cup {None}]
Answer == [ok : BOOLEAN, value : TicketOrNone]

TypeOK ==
  /\ laptop \in [Laptops -> [code : Codes, revision : Revisions,
                             file : BOOLEAN]]
  /\ task \in [Sessions -> Tasks]
  /\ phone \in Phone
  /\ store \in [shown : PinOrNone, floor : TicketOrNone,
                trusted : SUBSET Laptops]
  /\ screen \in Screen
  /\ pairing \in [scanActive : BOOLEAN, scans : Seq(Scan)]
  /\ calls \in Seq(Call)
  /\ answers \in Seq(Answer)
  /\ foreground \in BOOLEAN
  /\ ops \in 0..MaxOps
  /\ faults \in 0..MaxFaults

Init ==
  /\ laptop = [l \in Laptops |-> [code |-> 1, revision |-> 1, file |-> TRUE]]
  /\ task = [s \in Sessions |-> FreeTask]
  /\ phone = IdlePhone
  /\ store = [shown |-> NoPin, floor |-> NoTicket, trusted |-> {}]
  /\ screen = QuietScreen
  /\ pairing = [scanActive |-> FALSE, scans |-> <<>>]
  /\ calls = <<>>
  /\ answers = <<>>
  /\ foreground = TRUE
  /\ ops = 0
  /\ faults = 0

Fault == faults < MaxFaults /\ faults' = faults + 1

-----------------------------------------------------------------------------
(* The package store, as the client uses it.                               *)

AboveFloor(ticket) ==
  \/ ticket = store.floor
  \/ ticket.revision > store.floor.revision

(* preflight().                                                            *)
Authorized(pin) ==
  IF pin.signed
  THEN pin.ticket.by \in store.trusted /\ AboveFloor(pin.ticket)
  ELSE BuildPinned(pin.ticket) /\ store.floor = NoTicket

(* Two files are the same if both are the build's or they are of the same  *)
(* snapshot.                                                               *)
SameFile(t, u) == t = u \/ (BuildPinned(t) /\ BuildPinned(u))

Installed(pin, file) ==
  [store EXCEPT !.shown = [pin EXCEPT !.ticket = file],
                !.floor = IF pin.signed THEN pin.ticket ELSE @]

-----------------------------------------------------------------------------
(* The client's helpers, as functions of its fields.                       *)

(* finish(): the promise is settled, the session given up.  failureReason  *)
(* is cleared by the next start; nothing reads it before.                  *)
Finished(p) == [p EXCEPT !.pending = FALSE, !.incoming = NoPin,
                         !.data = {}, !.session = None, !.failed = FALSE]

Settle(ok, value) ==
  answers' = Append(answers, [ok |-> ok, value |-> value])

Unreached(p) == [p EXCEPT !.baseURL = None, !.pairingCode = 1,
                          !.offered = NoPin]

(* cancel() and disconnect(), and whether they settle a promise.           *)
Cancelled(p) ==
  IF ~p.pending THEN p
  ELSE IF p.incoming = NoPin THEN Unreached(Finished(p))
  ELSE Finished(p)

Disconnected(p) ==
  [Unreached(Cancelled(p)) EXCEPT !.expected = None, !.signingKey = None,
                                  !.cache = NoTicket]

CancelSilently == UNCHANGED answers

SettleCancelled == IF phone.pending THEN Settle(FALSE, NoTicket)
                   ELSE UNCHANGED answers

(* start(): a new session sends the request.                               *)
Start(p, state) ==
  \E s \in Sessions :
    /\ task[s].status = "free"
    /\ task' = [task EXCEPT ![s] = [FreeTask EXCEPT
                  !.status = "sent", !.to = p.baseURL, !.code = p.pairingCode,
                  !.state = state]]
    /\ phone' = [p EXCEPT !.session = s, !.pending = TRUE, !.data = {},
                          !.failed = FALSE]

(* catalogResult(): fails for another key than the one expected, else      *)
(* offers what the store would install.                                    *)
Expected(ticket) == phone.expected \in {None, ticket.by}

Offer(ticket, trusted) ==
  IF ~AboveFloor(ticket) THEN NoPin
  ELSE IF ticket.by \in trusted THEN [ticket |-> ticket, signed |-> TRUE]
  ELSE IF BuildPinned(ticket) /\ store.floor = NoTicket
  THEN [ticket |-> ticket, signed |-> FALSE]
  ELSE NoPin

Listed(p, ticket, trusted) ==
  [p EXCEPT !.signingKey = ticket.by, !.offered = Offer(ticket, trusted)]

-----------------------------------------------------------------------------
(* The calls, on the client's queue.                                       *)

Calling(kind) == calls # <<>> /\ Head(calls).kind = kind
Served == calls' = Tail(calls)
ScreenAside == UNCHANGED <<laptop, screen, pairing, foreground, ops, faults>>

ConnectCall ==
  /\ Calling("connect") /\ Served /\ ScreenAside
  /\ UNCHANGED store
  /\ IF phone.pending
     THEN Settle(FALSE, NoTicket) /\ UNCHANGED <<phone, task>>
     ELSE /\ Start([Disconnected(phone) EXCEPT
                      !.baseURL = Head(calls).to,
                      !.pairingCode = Head(calls).code,
                      !.expected = Head(calls).fingerprint], FALSE)
          /\ UNCHANGED answers

DownloadCall ==
  /\ Calling("download") /\ Served /\ ScreenAside
  /\ UNCHANGED store
  /\ IF phone.pending \/ phone.offered = NoPin \/ phone.baseURL = None
        \/ ~Authorized(phone.offered)
     THEN /\ Settle(FALSE, NoTicket)
          /\ phone' = IF phone.pending THEN phone
                      ELSE [phone EXCEPT !.incoming = NoPin]
          /\ UNCHANGED task
     ELSE /\ Start([phone EXCEPT !.incoming = phone.offered], TRUE)
          /\ UNCHANGED answers

RefreshCall ==
  /\ Calling("refresh") /\ Served /\ ScreenAside
  /\ UNCHANGED store
  /\ IF phone.pending \/ phone.baseURL = None
     THEN Settle(FALSE, NoTicket) /\ UNCHANGED <<phone, task>>
     ELSE Start(phone, FALSE) /\ UNCHANGED answers

(* approveSigner(): only the key whose fingerprint came with the pairing.  *)
ApprovableUnchecked == ~phone.pending /\ phone.cache # NoTicket

Approvable == /\ ~phone.pending /\ phone.cache # NoTicket
              /\ phone.expected # None /\ phone.signingKey # None
              /\ Expected(phone.cache)
              /\ phone.signingKey = phone.expected

ApproveCall ==
  /\ Calling("approve") /\ Served /\ ScreenAside
  /\ UNCHANGED task
  /\ IF Approvable
     THEN LET trusted == store.trusted \cup {phone.signingKey} IN
          /\ store' = [store EXCEPT !.trusted = trusted]
          /\ phone' = Listed(phone, phone.cache, trusted)
          /\ Settle(TRUE, phone.cache)
     ELSE Settle(FALSE, NoTicket) /\ UNCHANGED <<phone, store>>

RevokeCall ==
  /\ Calling("revoke") /\ Served /\ ScreenAside
  /\ UNCHANGED task
  /\ IF ~phone.pending /\ phone.cache # NoTicket /\ phone.signingKey # None
     THEN LET trusted == store.trusted \ {phone.signingKey} IN
          /\ store' = [store EXCEPT !.trusted = trusted]
          /\ IF Expected(phone.cache)
             THEN /\ phone' = Listed(phone, phone.cache, trusted)
                  /\ Settle(TRUE, phone.cache)
             ELSE Settle(FALSE, NoTicket) /\ UNCHANGED phone
     ELSE Settle(FALSE, NoTicket) /\ UNCHANGED <<phone, store>>

ForgetCall ==
  /\ Calling("forget") /\ Served /\ ScreenAside
  /\ store' = [store EXCEPT !.trusted = @ \ {Head(calls).to}]
  /\ Settle(TRUE, NoTicket)
  /\ UNCHANGED <<phone, task>>

SignersCall ==
  /\ Calling("signers") /\ Served /\ ScreenAside
  /\ Settle(TRUE, NoTicket)
  /\ UNCHANGED <<phone, task, store>>

CancelCall ==
  /\ Calling("cancel") /\ Served /\ ScreenAside
  /\ phone' = Cancelled(phone)
  /\ SettleCancelled
  /\ UNCHANGED <<task, store>>

DisconnectCall ==
  /\ Calling("disconnect") /\ Served /\ ScreenAside
  /\ phone' = Disconnected(phone)
  /\ SettleCancelled
  /\ UNCHANGED <<task, store>>

ClientCall ==
  \/ ConnectCall \/ DownloadCall \/ RefreshCall \/ ApproveCall
  \/ RevokeCall \/ ForgetCall \/ SignersCall \/ CancelCall
  \/ DisconnectCall

-----------------------------------------------------------------------------
(* The callbacks of the URL sessions, on the same queue: those of another  *)
(* session than the present one change nothing.                            *)

CallbackAside == UNCHANGED <<laptop, screen, pairing, calls, foreground,
                             ops>>
At(s, status) == task' = [task EXCEPT ![s] = [FreeTask EXCEPT
                                    !.status = status]]

(* didReceive, response and data of a catalog.                             *)
ReceiveCatalog(s) ==
  /\ task[s].status = "answered" /\ ~task[s].state
  /\ At(s, "done") /\ CallbackAside
  /\ phone' = IF phone.session = s
              THEN [phone EXCEPT
                     !.failed = task[s].reply = NoTicket,
                     !.data = @ \cup ({task[s].reply} \ {NoTicket})]
              ELSE phone
  /\ UNCHANGED <<store, answers, faults>>

(* didFinishDownloading: the file is installed if it is the one asked for. *)
Matches(reply) ==
  reply # NoTicket /\ SameFile(reply, phone.incoming.ticket)

FileArrives(s) ==
  /\ task[s].status = "answered" /\ task[s].state
  /\ At(s, "done") /\ CallbackAside
  /\ IF phone.session = s /\ phone.incoming # NoPin
     THEN /\ phone' = Finished(phone)
          /\ IF Matches(task[s].reply) /\ Authorized(phone.incoming)
             THEN \/ /\ store' = Installed(phone.incoming, task[s].reply)
                     /\ Settle(TRUE, NoTicket)
                     /\ UNCHANGED faults
                  \/ /\ Fault
                     /\ store' \in {store,
                          [Installed(phone.incoming, task[s].reply)
                             EXCEPT !.shown = store.shown]}
                     /\ Settle(FALSE, NoTicket)
             ELSE Settle(FALSE, NoTicket) /\ UNCHANGED <<store, faults>>
     ELSE UNCHANGED <<phone, store, answers, faults>>

(* didCompleteWithError.                                                   *)
Forgotten(p) ==
  [Unreached(p) EXCEPT !.signingKey = None, !.cache = NoTicket]

Completed(lost) ==
  CASE phone.failed -> phone' = Finished(phone) /\ Settle(FALSE, NoTicket)
    [] ~phone.failed /\ lost ->
         /\ phone' = Finished(IF phone.incoming = NoPin
                              THEN Unreached(phone) ELSE phone)
         /\ Settle(FALSE, NoTicket)
    [] ~phone.failed /\ ~lost /\ phone.incoming # NoPin ->
         phone' = Finished(phone) /\ Settle(FALSE, NoTicket)
    [] ~phone.failed /\ ~lost /\ phone.incoming = NoPin ->
         IF \E t \in phone.data : phone.data = {t} /\ Expected(t)
         THEN LET t == CHOOSE t \in phone.data : TRUE IN
              /\ phone' = Finished([Listed(phone, t, store.trusted)
                                     EXCEPT !.cache = t])
              /\ Settle(TRUE, t)
         ELSE phone' = Finished(Forgotten(phone)) /\ Settle(FALSE, NoTicket)

Complete(s) ==
  /\ task[s].status \in {"done", "lost"}
  /\ task' = [task EXCEPT ![s] = FreeTask]
  /\ IF phone.session = s
     THEN Completed(task[s].status = "lost")
     ELSE UNCHANGED <<phone, answers>>
  /\ CallbackAside /\ UNCHANGED <<store, faults>>

-----------------------------------------------------------------------------
(* The laptops and the network.                                            *)

LaptopAside == UNCHANGED <<phone, store, screen, pairing, calls, answers,
                           foreground, ops>>

(* The server's handler.  It checks the file again before it sends it.     *)
Reply(t) ==
  LET server == laptop[t.to] IN
  IF t.code # server.code \/ (t.state /\ ~server.file) THEN NoTicket
  ELSE [by |-> t.to, revision |-> server.revision]

Serve(s) ==
  /\ task[s].status = "sent"
  /\ task' = [task EXCEPT ![s] = [FreeTask EXCEPT
       !.status = "answered", !.state = task[s].state,
       !.reply = Reply(task[s])]]
  /\ LaptopAside /\ UNCHANGED <<laptop, faults>>

(* An abandoned session is cancelled, if it was not answered before.       *)
Abort(s) ==
  /\ s # phone.session /\ task[s].status \in {"sent", "answered"}
  /\ At(s, "lost")
  /\ LaptopAside /\ UNCHANGED <<laptop, faults>>

(* The connection breaks or times out.                                     *)
Lose(s) ==
  /\ Fault
  /\ task[s].status \in {"sent", "answered"}
  /\ At(s, "lost")
  /\ LaptopAside /\ UNCHANGED laptop

(* The server is started again, perhaps on a newer package.                *)
Restart(l) ==
  /\ Fault
  /\ laptop[l].code < MaxCode
  /\ \E r \in {laptop[l].revision, laptop[l].revision + 1} \cap Revisions :
       laptop' = [laptop EXCEPT ![l] = [code |-> @.code + 1, revision |-> r,
                                        file |-> TRUE]]
  /\ LaptopAside /\ UNCHANGED task

(* The file it offers is replaced on disk.                                 *)
ReplaceFile(l) ==
  /\ Fault
  /\ laptop[l].file
  /\ laptop' = [laptop EXCEPT ![l].file = FALSE]
  /\ LaptopAside /\ UNCHANGED task

-----------------------------------------------------------------------------
(* The screen.                                                             *)

ClientAside == UNCHANGED <<laptop, task, phone, store, faults>>
ScreenOnly == ClientAside /\ UNCHANGED ops
OneMoreOp == ops < MaxOps /\ ops' = ops + 1

Send(kind, to, code, fingerprint) ==
  calls' = Append(calls, [kind |-> kind, to |-> to, code |-> code,
                          fingerprint |-> fingerprint])
Queued(kind) == \E i \in DOMAIN calls : calls[i].kind = kind

Tappable == foreground

Idle == foreground /\ screen.op = "none"

(* No operation under way, and this list shown.                            *)
EndedWith(list) ==
  [QuietScreen EXCEPT !.list = list,
     !.vouched = IF list = NoTicket THEN None ELSE screen.vouched]
Ended == EndedWith(screen.list)

(* connectLaptop(), from the form or from a scan.                          *)
BeginConnect(l, code, fingerprint, scanned) ==
  /\ screen.op = "none" /\ OneMoreOp
  /\ screen' = [QuietScreen EXCEPT !.op = "connect", !.scanned = scanned,
                                   !.vouched = fingerprint]
  /\ Send("connect", l, code, fingerprint)

ConnectLaptop(l) ==
  /\ Idle
  /\ \E fingerprint \in Laptops \cup {None} :
       BeginConnect(l, laptop[l].code, fingerprint, FALSE)
  /\ ClientAside /\ UNCHANGED <<pairing, answers, foreground>>

(* operation() with a download.                                            *)
InstallFromLaptop ==
  /\ Idle /\ OneMoreOp /\ screen.list # NoTicket
  /\ screen' = [screen EXCEPT !.op = "download", !.asked = screen.list]
  /\ Send("download", None, 1, None)
  /\ ClientAside /\ UNCHANGED <<pairing, answers, foreground>>

(* changeLaptopCatalog() and revokeSavedLaptopSigner().                    *)
ChangeCatalog(kind) ==
  /\ Idle /\ OneMoreOp /\ screen.list # NoTicket
  /\ screen' = [screen EXCEPT !.op = kind, !.latest = TRUE]
  /\ Send(kind, None, 1, None)
  /\ ClientAside /\ UNCHANGED <<pairing, answers, foreground>>

ForgetSigner(l) ==
  /\ Idle /\ OneMoreOp /\ l \in store.trusted
  /\ screen' = [screen EXCEPT !.op = "forget", !.latest = TRUE]
  /\ Send("forget", l, 1, None)
  /\ ClientAside /\ UNCHANGED <<pairing, answers, foreground>>

CancelLaptop ==
  /\ foreground /\ screen.op \in {"connect", "download"}
  /\ ~Queued("cancel")
  /\ Send("cancel", None, 1, None)
  /\ ScreenOnly /\ UNCHANGED <<screen, pairing, answers, foreground>>

DisconnectLaptop ==
  /\ Idle /\ screen.list # NoTicket
  /\ screen' = EndedWith(NoTicket)
  /\ Send("disconnect", None, 1, None)
  /\ ScreenOnly /\ UNCHANGED <<pairing, answers, foreground>>

(* The promise of the operation settles.                                   *)
ShowIfLatest(ticket) ==
  screen' = EndedWith(IF screen.latest THEN ticket ELSE screen.list)

ScanRemains == UNCHANGED pairing

ScanEnds == pairing' = [pairing EXCEPT !.scanActive = @ /\ ~screen.scanned]

Continue(answer) ==
  CASE ~answer.ok \/ screen.op \in {"none", "download"} ->
         screen' = Ended /\ UNCHANGED calls
    [] answer.ok /\ screen.op = "connect" ->
         ShowIfLatest(answer.value) /\ UNCHANGED calls
    [] answer.ok /\ ~screen.second
         /\ screen.op \in {"refresh", "approve", "revoke", "forget"} ->
         /\ screen' = [screen EXCEPT !.second = TRUE,
                                     !.result = answer.value]
         /\ Send("signers", None, 1, None)
    [] answer.ok /\ screen.second
         /\ screen.op \in {"refresh", "approve", "revoke"} ->
         ShowIfLatest(screen.result) /\ UNCHANGED calls
    [] answer.ok /\ screen.second /\ screen.op = "forget" ->
         screen' = Ended /\ UNCHANGED calls

Settled ==
  /\ answers # <<>>
  /\ answers' = Tail(answers)
  /\ Continue(Head(answers))
  /\ ScanEnds
  /\ ScreenOnly /\ UNCHANGED foreground

(* stop(): scans are outdated and the scanner's view is closed.            *)
Outdated(scan) ==
  [scan EXCEPT !.current = FALSE,
               !.view = IF @ = "open" THEN "closed" ELSE @]

Stopped(p) ==
  [p EXCEPT !.scanActive = FALSE,
            !.scans = [i \in DOMAIN @ |-> Outdated(@[i])]]

Background ==
  /\ foreground /\ ~Queued("disconnect")
  /\ foreground' = FALSE
  /\ screen' = IF screen.op = "none" THEN EndedWith(NoTicket)
               ELSE [screen EXCEPT !.list = NoTicket, !.scanned = FALSE,
                                   !.latest = FALSE]
  /\ pairing' = Stopped(pairing)
  /\ Send("disconnect", None, 1, None)
  /\ ScreenOnly /\ UNCHANGED answers

Foreground ==
  /\ ~foreground /\ foreground' = TRUE
  /\ ScreenOnly /\ UNCHANGED <<screen, pairing, calls, answers>>

-----------------------------------------------------------------------------
(* Pairing by QR code.                                                     *)

(* The pairing page is left; it may be opened again at once.              *)
DisablePairing ==
  /\ foreground /\ pairing # Stopped(pairing)
  /\ pairing' = Stopped(pairing)
  /\ screen' = [screen EXCEPT !.scanned = FALSE]
  /\ ScreenOnly /\ UNCHANGED <<calls, answers, foreground>>

StartScan ==
  /\ foreground /\ ~pairing.scanActive
  /\ Len(pairing.scans) < MaxScans
  /\ pairing' = [pairing EXCEPT
        !.scanActive = TRUE,
        !.scans = Append(@, [current |-> TRUE, view |-> "open",
                             from |-> None, code |-> 1])]
  /\ ScreenOnly /\ UNCHANGED <<screen, calls, answers, foreground>>

(* The camera reads a laptop's page, or the user closes the scanner.       *)
ReadCode ==
  /\ foreground
  /\ \E i \in DOMAIN pairing.scans :
       /\ pairing.scans[i].view = "open"
       /\ \E l \in Laptops :
            pairing' = [pairing EXCEPT !.scans[i] =
              [@ EXCEPT !.view = "read", !.from = l,
                        !.code = laptop[l].code]]
  /\ ScreenOnly /\ UNCHANGED <<screen, calls, answers, foreground>>

CloseScanner ==
  /\ foreground
  /\ \E i \in DOMAIN pairing.scans :
       /\ pairing.scans[i].view = "open"
       /\ pairing' = [pairing EXCEPT !.scans[i].view = "closed"]
  /\ ScreenOnly /\ UNCHANGED <<screen, calls, answers, foreground>>

(* The scanner's promise settles: a current scan connects.                 *)
ConnectsAnyway(scan) == scan.view = "read"

Connects(scan) == scan.current /\ scan.view = "read"

ScanSettled ==
  /\ pairing.scans # <<>> /\ Head(pairing.scans).view # "open"
  /\ LET scan == Head(pairing.scans)
         begins == Connects(scan) /\ screen.op = "none" /\ ops < MaxOps
     IN /\ IF begins
           THEN BeginConnect(scan.from, scan.code, scan.from, TRUE)
           ELSE UNCHANGED <<screen, calls, ops>>
        /\ pairing' = [pairing EXCEPT
              !.scans = Tail(@),
              !.scanActive = IF scan.current THEN begins ELSE @]
  /\ ClientAside /\ UNCHANGED <<answers, foreground>>

-----------------------------------------------------------------------------
Callback == \E s \in Sessions : ReceiveCatalog(s) \/ FileArrives(s)
                                   \/ Complete(s)
Network == \E s \in Sessions : Serve(s) \/ Abort(s) \/ Lose(s)
Laptop == \E l \in Laptops : Restart(l) \/ ReplaceFile(l)
User ==
  \/ \E l \in Laptops : ConnectLaptop(l) \/ ForgetSigner(l)
  \/ InstallFromLaptop \/ CancelLaptop \/ DisconnectLaptop
  \/ \E kind \in {"refresh", "approve", "revoke"} : ChangeCatalog(kind)
  \/ Background \/ Foreground
  \/ DisablePairing \/ StartScan \/ ReadCode
  \/ CloseScanner

Next == ClientCall \/ Callback \/ Network \/ Laptop \/ User
          \/ Settled \/ ScanSettled

Spec == Init /\ [][Next]_vars

-----------------------------------------------------------------------------
(* Properties.                                                             *)

(* A promise is settled exactly once: the operation that the screen awaits *)
(* is on its way to the client, held by it, or its answer on the way back, *)
(* and only one of them.  Cancel, disconnect, failures and the callbacks   *)
(* of two sessions all settle it (finish, start, connect, download).       *)
Awaited == {"connect", "download", "refresh", "approve", "revoke", "forget",
            "signers"}

SettledOnce ==
  LET sent == Cardinality({i \in DOMAIN calls : calls[i].kind \in Awaited})
      held == IF phone.pending THEN 1 ELSE 0
  IN sent + held + Len(answers) = IF screen.op = "none" THEN 0 ELSE 1

(* "Foreground-only transfer": once the app is in the background and the   *)
(* calls it made are served, no request is under way, nothing is known of  *)
(* the laptop, and no list is shown, whatever operation, late answer or    *)
(* scan the event met (useStatePackages.ts 66-82, disconnect).             *)
BackgroundDisconnects ==
  ~foreground /\ calls = <<>> =>
    /\ phone.session = None /\ phone.baseURL = None /\ phone.offered = NoPin
    /\ phone.cache = NoTicket /\ phone.expected = None
    /\ screen.list = NoTicket

(* What is offered, cached or trusted for approval comes from the laptop   *)
(* that is connected: answers of an abandoned session or an older          *)
(* connection are never taken for those of the present one.                *)
CatalogOfConnection ==
  phone.baseURL # None =>
    {phone.cache.by, phone.offered.ticket.by, phone.signingKey}
      \subseteq {None, phone.baseURL}

(* Every variable has its type, every promise is settled once             *)
(* (SettledOnce), and nothing of another connection is taken for the       *)
(* present one (CatalogOfConnection).                                      *)
TransferInv == TypeOK /\ SettledOnce /\ CatalogOfConnection

(* A key becomes trusted only if the user gave its fingerprint for the     *)
(* connection that is approved (approveSigner, connect).                   *)
TrustIsVouched ==
  [][store'.trusted \subseteq store.trusted \cup {screen.vouched}]_vars

(* What gets installed is what the list showed when the user chose it,     *)
(* though lists are refreshed, keys approved and downloads cancelled       *)
(* meanwhile (operation, download, didFinishDownloading).                  *)
InstalledWasShown ==
  [][store'.shown # store.shown =>
       screen.op = "download" /\ SameFile(store'.shown.ticket, screen.asked)]_vars

(* The scan button is never stuck: while it is disabled there is a scan    *)
(* whose end enables it, or the connection that a scan began.              *)
ScanNotStuck ==
  pairing.scanActive =>
    \/ \E i \in DOMAIN pairing.scans : pairing.scans[i].current
    \/ screen.op = "connect" /\ screen.scanned
=============================================================================
