------------------------ MODULE LaptopTransferProofs ------------------------
(***************************************************************************)
(* The safety properties of LaptopTransfer, for any laptops, sessions,     *)
(* codes, revisions, faults and number of operations and scans.            *)
(*                                                                         *)
(* What they rest on, in the order it is proved:                           *)
(*   AddressInv     a request is sent to a laptop;                         *)
(*   PromiseInv     what the screen awaits is a call on its way, a request *)
(*                  of the client or an answer, exactly one of them, and   *)
(*                  of the operation under way;                            *)
(*   ConnectionInv  what the client knows is of the laptop it is connected *)
(*                  to;                                                    *)
(*   BackgroundInv  in the background a disconnect is done or on its way,  *)
(*                  with no connect behind it;                             *)
(*   VouchInv       the key expected is the one the user vouched for;      *)
(*   OfferInv       what is offered is what the list shows or will show.   *)
(***************************************************************************)
EXTENDS LaptopTransfer, FiniteSetTheorems, SequenceTheorems, TLAPS

-----------------------------------------------------------------------------
(* The type invariant.                                                     *)

LEMMA TicketType ==
  /\ NoTicket \notin Ticket
  /\ NoPin \notin Pin
  /\ \A t \in TicketOrNone : t # NoTicket => t \in Ticket
  /\ \A p \in PinOrNone : p # NoPin => p \in Pin /\ p.ticket \in Ticket
  /\ \A p \in PinOrNone : p.ticket \in TicketOrNone
BY LaptopAssumption DEF Ticket, NoTicket, Pin, NoPin, TicketOrNone,
   PinOrNone, Revisions

LEMMA FirstCode == 1 \in Codes
BY LaptopAssumption DEF Codes

(* The fields of the client after each of its helpers.                     *)
LEMMA PhoneType ==
  ASSUME NEW p \in Phone
  PROVE  /\ Finished(p) \in Phone
         /\ Unreached(p) \in Phone
         /\ Cancelled(p) \in Phone
         /\ Disconnected(p) \in Phone
         /\ Forgotten(p) \in Phone
<1>1. Finished(p) \in Phone
  BY DEF Finished, Phone, PinOrNone
<1>2. \A q \in Phone : Unreached(q) \in Phone
  BY FirstCode DEF Unreached, Phone, PinOrNone
<1>3. Cancelled(p) \in Phone
  BY <1>1, <1>2 DEF Cancelled
<1>4. Disconnected(p) \in Phone
  BY <1>2, <1>3 DEF Disconnected, Phone, TicketOrNone
<1>5. Forgotten(p) \in Phone
  BY <1>2 DEF Forgotten, Phone, TicketOrNone
<1> QED BY <1>1, <1>2, <1>3, <1>4, <1>5

LEMMA ListedType ==
  ASSUME TypeOK, NEW p \in Phone, NEW t \in Ticket, NEW trusted
  PROVE  Listed(p, t, trusted) \in Phone
<1>1. Offer(t, trusted) \in PinOrNone
  BY DEF Offer, PinOrNone, Pin
<1>2. t.by \in Laptops
  BY DEF Ticket
<1> QED BY <1>1, <1>2 DEF Listed, Phone

LEMMA StartType ==
  ASSUME TypeOK, NEW p \in Phone, NEW state \in BOOLEAN, Start(p, state)
  PROVE  /\ task' \in [Sessions -> Tasks]
         /\ phone' \in Phone
<1>1. PICK s \in Sessions :
        /\ task' = [task EXCEPT ![s] = [FreeTask EXCEPT
                      !.status = "sent", !.to = p.baseURL,
                      !.code = p.pairingCode, !.state = state]]
        /\ phone' = [p EXCEPT !.session = s, !.pending = TRUE, !.data = {},
                              !.failed = FALSE]
  BY DEF Start
<1>2. phone' \in Phone
  BY <1>1 DEF Phone
<1>3. [FreeTask EXCEPT !.status = "sent", !.to = p.baseURL,
         !.code = p.pairingCode, !.state = state] \in Tasks
  BY FirstCode DEF FreeTask, Tasks, Phone, TicketOrNone
<1> QED BY <1>1, <1>2, <1>3 DEF TypeOK

LEMMA AtType ==
  ASSUME TypeOK, NEW s \in Sessions, NEW status \in {"done", "lost"},
         At(s, status)
  PROVE  task' \in [Sessions -> Tasks]
BY FirstCode DEF TypeOK, At, FreeTask, Tasks, TicketOrNone

LEMMA SettleType ==
  ASSUME TypeOK, NEW ok \in BOOLEAN, NEW value \in TicketOrNone,
         Settle(ok, value)
  PROVE  answers' \in Seq(Answer)
BY DEF TypeOK, Settle, Answer

LEMMA SendType ==
  ASSUME TypeOK, NEW kind \in CallKinds, NEW to \in Laptops \cup {None},
         NEW code \in Codes, NEW fingerprint \in Laptops \cup {None},
         Send(kind, to, code, fingerprint)
  PROVE  calls' \in Seq(Call)
BY DEF TypeOK, Send, Call

LEMMA ServedType ==
  ASSUME TypeOK, NEW kind, Calling(kind)
  PROVE  /\ Served => calls' \in Seq(Call)
         /\ Head(calls) \in Call
<1>1. calls \in Seq(Call) /\ calls # <<>>
  BY DEF TypeOK, Calling
<1>2. Head(calls) \in Call /\ Tail(calls) \in Seq(Call)
  BY <1>1, HeadTailProperties
<1> QED BY <1>2 DEF Served

LEMMA ClientCallType ==
  ASSUME TypeOK, ClientCall
  PROVE  TypeOK'
<1> USE TicketType
<1>1. CASE ConnectCall
  <2>1. CASE phone.pending
    BY <1>1, <2>1, SettleType, ServedType
    DEF ConnectCall, ScreenAside, TypeOK, TicketOrNone
  <2>2. CASE ~phone.pending
    <3> DEFINE d == Disconnected(phone)
               p == [d EXCEPT !.baseURL = Head(calls).to,
                              !.pairingCode = Head(calls).code,
                              !.expected = Head(calls).fingerprint]
    <3>1. Head(calls) \in Call
      BY <1>1, ServedType DEF ConnectCall
    <3>2. p \in Phone
      <4>1. d \in Phone
        BY PhoneType DEF TypeOK
      <4> HIDE DEF d
      <4> QED BY <3>1, <4>1 DEF Phone, Call
    <3>3. Start(p, FALSE)
      BY <1>1, <2>2 DEF ConnectCall
    <3> HIDE DEF p
    <3>4. task' \in [Sessions -> Tasks] /\ phone' \in Phone
      BY <3>2, <3>3, StartType
    <3> QED
      BY <1>1, <2>2, <3>4, ServedType DEF ConnectCall, ScreenAside, TypeOK
  <2> QED BY <2>1, <2>2 DEF TypeOK, Phone
<1>2. CASE DownloadCall
  <2>1. CASE phone.pending \/ phone.offered = NoPin \/ phone.baseURL = None
             \/ ~Authorized(phone.offered)
    <3>1. phone' \in Phone
      BY <1>2, <2>1, ZenonT(60) DEF DownloadCall, TypeOK, Phone, PinOrNone
    <3> QED
      BY <1>2, <2>1, <3>1, SettleType, ServedType
      DEF DownloadCall, ScreenAside, TypeOK, TicketOrNone
  <2>2. CASE ~(phone.pending \/ phone.offered = NoPin \/ phone.baseURL = None
               \/ ~Authorized(phone.offered))
    <3>1. [phone EXCEPT !.incoming = phone.offered] \in Phone
      BY DEF TypeOK, Phone
    <3>2. Start([phone EXCEPT !.incoming = phone.offered], TRUE)
      BY <1>2, <2>2 DEF DownloadCall
    <3>3. task' \in [Sessions -> Tasks] /\ phone' \in Phone
      BY <3>1, <3>2, StartType
    <3> QED
      BY <1>2, <2>2, <3>3, ServedType DEF DownloadCall, ScreenAside, TypeOK
  <2> QED BY <2>1, <2>2
<1>3. CASE RefreshCall
  <2>1. CASE phone.pending \/ phone.baseURL = None
    BY <1>3, <2>1, SettleType, ServedType
    DEF RefreshCall, ScreenAside, TypeOK, TicketOrNone
  <2>2. CASE ~(phone.pending \/ phone.baseURL = None)
    <3>1. Start(phone, FALSE)
      BY <1>3, <2>2 DEF RefreshCall
    <3>2. task' \in [Sessions -> Tasks] /\ phone' \in Phone
      BY <3>1, StartType DEF TypeOK
    <3> QED
      BY <1>3, <2>2, <3>2, ServedType DEF RefreshCall, ScreenAside, TypeOK
  <2> QED BY <2>1, <2>2
<1>4. CASE ApproveCall
  <2>1. CASE Approvable
    <3>1. phone.cache \in Ticket /\ phone.signingKey \in Laptops
      BY <2>1 DEF Approvable, TypeOK, Phone
    <3>2. phone' \in Phone
      BY <1>4, <2>1, <3>1, ListedType DEF ApproveCall, TypeOK
    <3>3. store' \in [shown : PinOrNone, floor : TicketOrNone,
                      trusted : SUBSET Laptops]
      BY <1>4, <2>1, <3>1 DEF ApproveCall, TypeOK
    <3>4. answers' \in Seq(Answer)
      BY <1>4, <2>1, <3>1, SettleType DEF ApproveCall, TicketOrNone
    <3> QED
      BY <1>4, <3>2, <3>3, <3>4, ServedType
      DEF ApproveCall, ScreenAside, TypeOK
  <2>2. CASE ~Approvable
    BY <1>4, <2>2, SettleType, ServedType
    DEF ApproveCall, ScreenAside, TypeOK, TicketOrNone
  <2> QED BY <2>1, <2>2
<1>5. CASE RevokeCall
  <2>1. CASE ~phone.pending /\ phone.cache # NoTicket
             /\ phone.signingKey # None
    <3>1. phone.cache \in Ticket /\ phone.signingKey \in Laptops
      BY <2>1 DEF TypeOK, Phone
    <3>0. /\ store' = [store EXCEPT !.trusted =
                          store.trusted \ {phone.signingKey}]
          /\ \/ phone' = phone
             \/ phone' = Listed(phone, phone.cache,
                                store.trusted \ {phone.signingKey})
      BY <1>5, <2>1 DEF RevokeCall
    <3>2. phone' \in Phone
      BY <3>0, <3>1, ListedType DEF TypeOK
    <3>3. store' \in [shown : PinOrNone, floor : TicketOrNone,
                      trusted : SUBSET Laptops]
      BY <3>0 DEF TypeOK
    <3>4. answers' \in Seq(Answer)
      BY <1>5, <2>1, <3>1, SettleType DEF RevokeCall, TicketOrNone
    <3> QED
      BY <1>5, <3>2, <3>3, <3>4, ServedType
      DEF RevokeCall, ScreenAside, TypeOK
  <2>2. CASE ~(~phone.pending /\ phone.cache # NoTicket
               /\ phone.signingKey # None)
    BY <1>5, <2>2, SettleType, ServedType
    DEF RevokeCall, ScreenAside, TypeOK, TicketOrNone
  <2> QED BY <2>1, <2>2
<1>6. CASE ForgetCall
  <2>1. store' \in [shown : PinOrNone, floor : TicketOrNone,
                    trusted : SUBSET Laptops]
    BY <1>6 DEF ForgetCall, TypeOK
  <2> QED
    BY <1>6, <2>1, SettleType, ServedType
    DEF ForgetCall, ScreenAside, TypeOK, TicketOrNone
<1>7. CASE SignersCall
  BY <1>7, SettleType, ServedType
  DEF SignersCall, ScreenAside, TypeOK, TicketOrNone
<1>8. CASE CancelCall
  BY <1>8, SettleType, ServedType, PhoneType
  DEF CancelCall, SettleCancelled, ScreenAside, TypeOK, TicketOrNone
<1>9. CASE DisconnectCall
  BY <1>9, SettleType, ServedType, PhoneType
  DEF DisconnectCall, SettleCancelled, ScreenAside, TypeOK, TicketOrNone
<1> QED
  BY <1>1, <1>2, <1>3, <1>4, <1>5, <1>6, <1>7, <1>8, <1>9 DEF ClientCall

LEMMA CompletedType ==
  ASSUME TypeOK, NEW lost \in BOOLEAN, Completed(lost)
  PROVE  phone' \in Phone /\ answers' \in Seq(Answer)
<1>1. phone \in Phone /\ NoTicket \in TicketOrNone
  BY DEF TypeOK, TicketOrNone
<1>2. Finished(phone) \in Phone /\ Finished(Unreached(phone)) \in Phone
      /\ Finished(Forgotten(phone)) \in Phone
  BY <1>1, PhoneType
<1>3. \A t \in phone.data :
        /\ t \in TicketOrNone
        /\ Finished([Listed(phone, t, store.trusted) EXCEPT !.cache = t])
             \in Phone
  <2> SUFFICES ASSUME NEW t \in phone.data
               PROVE  /\ t \in TicketOrNone
                      /\ Finished([Listed(phone, t, store.trusted)
                                     EXCEPT !.cache = t]) \in Phone
    OBVIOUS
  <2>1. t \in Ticket
    BY <1>1 DEF Phone
  <2>2. [Listed(phone, t, store.trusted) EXCEPT !.cache = t] \in Phone
    BY <1>1, <2>1, ListedType DEF Phone, TicketOrNone
  <2> QED BY <2>1, <2>2, PhoneType DEF TicketOrNone
<1>4. CASE phone.failed
  BY <1>1, <1>2, <1>4, SettleType DEF Completed
<1>5. CASE ~phone.failed /\ lost
  BY <1>1, <1>2, <1>5, SettleType DEF Completed
<1>6. CASE ~phone.failed /\ ~lost /\ phone.incoming # NoPin
  BY <1>1, <1>2, <1>6, SettleType DEF Completed
<1>7. CASE ~phone.failed /\ ~lost /\ phone.incoming = NoPin
  <2>1. CASE \E t \in phone.data : phone.data = {t} /\ Expected(t)
    <3>1. PICK t \in phone.data : t = CHOOSE u \in phone.data : TRUE
      BY <2>1
    <3>2. phone' = Finished([Listed(phone, t, store.trusted)
                               EXCEPT !.cache = t])
          /\ Settle(TRUE, t)
      BY <1>7, <2>1, <3>1 DEF Completed
    <3> QED BY <1>3, <3>2, SettleType
  <2>2. CASE ~\E t \in phone.data : phone.data = {t} /\ Expected(t)
    BY <1>1, <1>2, <1>7, <2>2, SettleType DEF Completed
  <2> QED BY <2>1, <2>2
<1> QED BY <1>4, <1>5, <1>6, <1>7

LEMMA InstalledType ==
  ASSUME TypeOK, NEW pin \in Pin, NEW file \in Ticket
  PROVE  /\ Installed(pin, file)
              \in [shown : PinOrNone, floor : TicketOrNone,
                   trusted : SUBSET Laptops]
         /\ [Installed(pin, file) EXCEPT !.shown = store.shown]
              \in [shown : PinOrNone, floor : TicketOrNone,
                   trusted : SUBSET Laptops]
<1>1. pin.ticket \in Ticket
  BY DEF Pin
<1>2. [pin EXCEPT !.ticket = file] \in PinOrNone
  BY DEF Pin, PinOrNone
<1> QED BY <1>1, <1>2 DEF Installed, TypeOK, TicketOrNone

LEMMA CallbackType ==
  ASSUME TypeOK, Callback
  PROVE  TypeOK'
<1> USE TicketType
<1>1. PICK s \in Sessions : ReceiveCatalog(s) \/ FileArrives(s) \/ Complete(s)
  BY DEF Callback
<1>2. CASE ReceiveCatalog(s)
  <2>1. task[s].reply \in TicketOrNone
    BY DEF TypeOK, Tasks
  <2>2. [phone EXCEPT !.failed = task[s].reply = NoTicket,
                      !.data = @ \cup ({task[s].reply} \ {NoTicket})]
           \in Phone
    BY <2>1, ZenonT(60) DEF TypeOK, Phone
  <2>3. phone' \in Phone
    BY <1>2, <2>2 DEF ReceiveCatalog, TypeOK
  <2> QED
    BY <1>2, <2>3, AtType DEF ReceiveCatalog, CallbackAside, TypeOK
<1>3. CASE FileArrives(s)
  <2>1. task' \in [Sessions -> Tasks]
    BY <1>3, AtType DEF FileArrives
  <2>2. CASE ~(phone.session = s /\ phone.incoming # NoPin)
    BY <1>3, <2>1, <2>2 DEF FileArrives, CallbackAside, TypeOK
  <2>3. CASE phone.session = s /\ phone.incoming # NoPin
    <3>1. phone' \in Phone
      BY <1>3, <2>3, PhoneType DEF FileArrives, TypeOK
    <3>2. CASE Matches(task[s].reply) /\ Authorized(phone.incoming)
      <4>1. phone.incoming \in Pin /\ task[s].reply \in Ticket
        BY <2>3, <3>2 DEF Matches, TypeOK, Phone, Tasks
      <4>2. \/ store' = store
            \/ store' = Installed(phone.incoming, task[s].reply)
            \/ store' = [Installed(phone.incoming, task[s].reply)
                           EXCEPT !.shown = store.shown]
        BY <1>3, <2>3, <3>2 DEF FileArrives
      <4>3. store' \in [shown : PinOrNone, floor : TicketOrNone,
                        trusted : SUBSET Laptops]
        <5>1. store \in [shown : PinOrNone, floor : TicketOrNone,
                          trusted : SUBSET Laptops]
          BY DEF TypeOK
        <5>2. /\ Installed(phone.incoming, task[s].reply)
                   \in [shown : PinOrNone, floor : TicketOrNone,
                        trusted : SUBSET Laptops]
              /\ [Installed(phone.incoming, task[s].reply)
                    EXCEPT !.shown = store.shown]
                   \in [shown : PinOrNone, floor : TicketOrNone,
                        trusted : SUBSET Laptops]
          BY <4>1, InstalledType
        <5> QED BY <4>2, <5>1, <5>2
      <4>4. Settle(TRUE, NoTicket) \/ Settle(FALSE, NoTicket)
        BY <1>3, <2>3, <3>2 DEF FileArrives
      <4>5. answers' \in Seq(Answer)
        BY <4>4, SettleType DEF TicketOrNone
      <4>6. faults' = faults \/ (faults < MaxFaults /\ faults' = faults + 1)
        BY <1>3, <2>3, <3>2 DEF FileArrives, Fault
      <4>7. faults' \in 0 .. MaxFaults
        BY <4>6, LaptopAssumption DEF TypeOK
      <4> QED
        BY <1>3, <2>1, <3>1, <4>3, <4>5, <4>7
        DEF FileArrives, CallbackAside, TypeOK
    <3>3. CASE ~(Matches(task[s].reply) /\ Authorized(phone.incoming))
      BY <1>3, <2>1, <2>3, <3>1, <3>3, SettleType
      DEF FileArrives, CallbackAside, TypeOK, TicketOrNone
    <3> QED BY <3>2, <3>3
  <2> QED BY <2>2, <2>3
<1>4. CASE Complete(s)
  <2>1. FreeTask \in Tasks
    BY FirstCode DEF FreeTask, Tasks, TicketOrNone
  <2>2. task' \in [Sessions -> Tasks]
    BY <1>4, <2>1 DEF Complete, TypeOK
  <2>3. phone' \in Phone /\ answers' \in Seq(Answer)
    BY <1>4, CompletedType DEF Complete, TypeOK
  <2> QED
    BY <1>4, <2>2, <2>3 DEF Complete, CallbackAside, TypeOK
<1> QED BY <1>1, <1>2, <1>3, <1>4

(* Every request is addressed to a laptop: the calls that connect, and the *)
(* codes that were read, name one.                                         *)
AddressInv ==
  /\ \A s \in Sessions : task[s].status = "sent" => task[s].to # None
  /\ \A i \in DOMAIN calls : calls[i].kind = "connect" => calls[i].to # None
  /\ \A i \in DOMAIN pairing.scans :
       pairing.scans[i].view = "read" => pairing.scans[i].from # None

LEMMA NetworkType ==
  ASSUME TypeOK, AddressInv, Network \/ Laptop
  PROVE  TypeOK'
<1>1. ASSUME NEW s \in Sessions, Serve(s)
      PROVE  TypeOK'
  <2>1. task[s] \in Tasks /\ task[s].status = "sent"
    BY <1>1 DEF Serve, TypeOK
  <2>2. task[s].to \in Laptops
    BY <2>1 DEF AddressInv, Tasks
  <2>3. Reply(task[s]) \in TicketOrNone
    BY <2>2 DEF Reply, TypeOK, TicketOrNone, Ticket
  <2>4. [FreeTask EXCEPT !.status = "answered", !.state = task[s].state,
           !.reply = Reply(task[s])] \in Tasks
    BY <2>1, <2>3, FirstCode DEF FreeTask, Tasks
  <2> QED
    BY <1>1, <2>4 DEF Serve, LaptopAside, TypeOK
<1>2. ASSUME NEW s \in Sessions, Abort(s) \/ Lose(s)
      PROVE  TypeOK'
  <2>1. task' \in [Sessions -> Tasks]
    BY <1>2, AtType DEF Abort, Lose
  <2> QED
    BY <1>2, <2>1, LaptopAssumption
    DEF Abort, Lose, Fault, LaptopAside, TypeOK
<1>3. ASSUME NEW l \in Laptops, Restart(l)
      PROVE  TypeOK'
  <2>1. PICK r \in Revisions :
          laptop' = [laptop EXCEPT ![l] = [code |-> laptop[l].code + 1,
                                           revision |-> r, file |-> TRUE]]
    BY <1>3 DEF Restart
  <2>2. laptop[l].code + 1 \in Codes
    BY <1>3, LaptopAssumption DEF Restart, TypeOK, Codes
  <2> QED
    BY <1>3, <2>1, <2>2, LaptopAssumption
    DEF Restart, Fault, LaptopAside, TypeOK
<1>4. ASSUME NEW l \in Laptops, ReplaceFile(l)
      PROVE  TypeOK'
  <2>1. laptop' \in [Laptops -> [code : Codes, revision : Revisions,
                                 file : BOOLEAN]]
    BY <1>4 DEF ReplaceFile, TypeOK
  <2> QED
    BY <1>4, <2>1, LaptopAssumption
    DEF ReplaceFile, Fault, LaptopAside, TypeOK
<1> QED BY <1>1, <1>2, <1>3, <1>4 DEF Network, Laptop

(* The screen after each of its helpers.                                   *)
LEMMA ScreenType ==
  ASSUME TypeOK
  PROVE  /\ QuietScreen \in Screen
         /\ \A list \in TicketOrNone : EndedWith(list) \in Screen
         /\ Ended \in Screen
         /\ NoTicket \in TicketOrNone
<1>1. NoTicket \in TicketOrNone
  BY DEF TicketOrNone
<1>2. QuietScreen \in Screen
  BY <1>1 DEF QuietScreen, Screen, OpKinds
<1>3. \A list \in TicketOrNone : EndedWith(list) \in Screen
  BY <1>2 DEF EndedWith, TypeOK, Screen
<1>4. screen.list \in TicketOrNone
  BY DEF TypeOK, Screen
<1> QED BY <1>1, <1>2, <1>3, <1>4 DEF Ended

LEMMA StoppedType ==
  ASSUME TypeOK
  PROVE  Stopped(pairing) \in [scanActive : BOOLEAN, scans : Seq(Scan)]
<1>1. /\ pairing \in [scanActive : BOOLEAN, scans : Seq(Scan)]
      /\ pairing.scans \in Seq(Scan)
  BY DEF TypeOK
<1>2. \A scan \in Scan : Outdated(scan) \in Scan
  BY DEF Scan, Outdated
<1>3. Len(pairing.scans) \in Nat
      /\ DOMAIN pairing.scans = 1 .. Len(pairing.scans)
      /\ \A i \in 1 .. Len(pairing.scans) : pairing.scans[i] \in Scan
  BY <1>1, ElementOfSeq, LenProperties
<1>4. [i \in DOMAIN pairing.scans |-> Outdated(pairing.scans[i])] \in Seq(Scan)
  BY <1>2, <1>3
<1> QED BY <1>1, <1>4 DEF Stopped


LEMMA OpsType ==
  ASSUME TypeOK, OneMoreOp
  PROVE  ops' \in 0 .. MaxOps
BY LaptopAssumption DEF TypeOK, OneMoreOp

LEMMA BeginConnectType ==
  ASSUME TypeOK, NEW l \in Laptops \cup {None}, NEW code \in Codes,
         NEW fingerprint \in Laptops \cup {None}, NEW scanned \in BOOLEAN,
         BeginConnect(l, code, fingerprint, scanned)
  PROVE  screen' \in Screen /\ calls' \in Seq(Call) /\ ops' \in 0 .. MaxOps
<1>1. screen' \in Screen
  BY ScreenType DEF BeginConnect, Screen, OpKinds
<1>2. calls' \in Seq(Call)
  BY SendType DEF BeginConnect, CallKinds, OpKinds
<1>3. ops' \in 0 .. MaxOps
  BY OpsType DEF BeginConnect
<1> QED BY <1>1, <1>2, <1>3

LEMMA ScreenCallType ==
  ASSUME TypeOK, NEW kind \in CallKinds, Send(kind, None, 1, None)
  PROVE  calls' \in Seq(Call)
BY FirstCode, SendType

LEMMA ScansType ==
  ASSUME TypeOK
  PROVE  /\ \A scan \in Scan : Append(pairing.scans, scan) \in Seq(Scan)
         /\ \A i \in DOMAIN pairing.scans :
              /\ pairing.scans[i] \in Scan
              /\ \A scan \in Scan :
                   [pairing.scans EXCEPT ![i] = scan] \in Seq(Scan)
<1>1. pairing.scans \in Seq(Scan)
  BY DEF TypeOK
<1>2. \A i \in DOMAIN pairing.scans :
        /\ i \in 1 .. Len(pairing.scans)
        /\ pairing.scans[i] \in Scan
  BY <1>1, LenProperties, ElementOfSeq
<1>3. \A scan \in Scan : Append(pairing.scans, scan) \in Seq(Scan)
  BY <1>1, AppendProperties
<1> QED BY <1>1, <1>2, <1>3, ExceptSeq

LEMMA UserType ==
  ASSUME TypeOK, User
  PROVE  TypeOK'
<1> USE ScreenType
<1>1. CASE \E l \in Laptops : ConnectLaptop(l)
  <2>1. PICK l \in Laptops : ConnectLaptop(l)
    BY <1>1
  <2>2. PICK fingerprint \in Laptops \cup {None} :
          BeginConnect(l, laptop[l].code, fingerprint, FALSE)
    BY <2>1 DEF ConnectLaptop
  <2>3. laptop[l].code \in Codes
    BY DEF TypeOK
  <2>4. screen' \in Screen /\ calls' \in Seq(Call) /\ ops' \in 0 .. MaxOps
    BY <2>2, <2>3, BeginConnectType
  <2> QED BY <2>1, <2>4 DEF ConnectLaptop, ClientAside, TypeOK
<1>2. CASE \E l \in Laptops : ForgetSigner(l)
  <2>1. PICK l \in Laptops : ForgetSigner(l)
    BY <1>2
  <2>2. screen' \in Screen
    BY <2>1 DEF ForgetSigner, TypeOK, Screen, OpKinds
  <2>3. calls' \in Seq(Call)
    BY <2>1, SendType, FirstCode DEF ForgetSigner, CallKinds, OpKinds
  <2>4. ops' \in 0 .. MaxOps
    BY <2>1, OpsType DEF ForgetSigner
  <2> QED BY <2>1, <2>2, <2>3, <2>4 DEF ForgetSigner, ClientAside, TypeOK
<1>3. CASE InstallFromLaptop
  <2>1. screen' \in Screen
    BY <1>3 DEF InstallFromLaptop, TypeOK, Screen, OpKinds
  <2>2. calls' \in Seq(Call)
    BY <1>3, ScreenCallType DEF InstallFromLaptop, CallKinds, OpKinds
  <2>3. ops' \in 0 .. MaxOps
    BY <1>3, OpsType DEF InstallFromLaptop
  <2> QED BY <1>3, <2>1, <2>2, <2>3 DEF InstallFromLaptop, ClientAside, TypeOK
<1>4. CASE CancelLaptop
  <2>1. calls' \in Seq(Call)
    BY <1>4, ScreenCallType DEF CancelLaptop, CallKinds
  <2> QED BY <1>4, <2>1 DEF CancelLaptop, ScreenOnly, ClientAside, TypeOK
<1>5. CASE DisconnectLaptop
  <2>1. calls' \in Seq(Call)
    BY <1>5, ScreenCallType DEF DisconnectLaptop, CallKinds
  <2>2. screen' \in Screen
    BY <1>5 DEF DisconnectLaptop
  <2> QED
    BY <1>5, <2>1, <2>2 DEF DisconnectLaptop, ScreenOnly, ClientAside, TypeOK
<1>6. CASE \E kind \in {"refresh", "approve", "revoke"} : ChangeCatalog(kind)
  <2>1. PICK kind \in {"refresh", "approve", "revoke"} : ChangeCatalog(kind)
    BY <1>6
  <2>2. screen' \in Screen
    BY <2>1 DEF ChangeCatalog, TypeOK, Screen, OpKinds
  <2>3. calls' \in Seq(Call)
    BY <2>1, ScreenCallType DEF ChangeCatalog, CallKinds, OpKinds
  <2>4. ops' \in 0 .. MaxOps
    BY <2>1, OpsType DEF ChangeCatalog
  <2> QED BY <2>1, <2>2, <2>3, <2>4 DEF ChangeCatalog, ClientAside, TypeOK
<1>7. CASE Background
  <2>1. calls' \in Seq(Call)
    BY <1>7, ScreenCallType DEF Background, CallKinds
  <2>2. screen' \in Screen
    BY <1>7 DEF Background, TypeOK, Screen
  <2>3. pairing' \in [scanActive : BOOLEAN, scans : Seq(Scan)]
    BY <1>7, StoppedType DEF Background
  <2> QED
    BY <1>7, <2>1, <2>2, <2>3 DEF Background, ScreenOnly, ClientAside, TypeOK
<1>8. CASE Foreground
  BY <1>8 DEF Foreground, ScreenOnly, ClientAside, TypeOK
<1>9. CASE DisablePairing
  <2>1. screen' \in Screen
    BY <1>9 DEF DisablePairing, TypeOK, Screen
  <2>2. pairing' \in [scanActive : BOOLEAN, scans : Seq(Scan)]
    BY <1>9, StoppedType DEF DisablePairing
  <2> QED
    BY <1>9, <2>1, <2>2 DEF DisablePairing, ScreenOnly, ClientAside, TypeOK
<1>10. CASE StartScan
  <2>1. [current |-> TRUE, view |-> "open", from |-> None, code |-> 1] \in Scan
    BY FirstCode DEF Scan
  <2>2. pairing' \in [scanActive : BOOLEAN, scans : Seq(Scan)]
    BY <1>10, <2>1, ScansType DEF StartScan, TypeOK
  <2> QED
    BY <1>10, <2>2 DEF StartScan, ScreenOnly, ClientAside, TypeOK
<1>11. CASE ReadCode
  <2>1. PICK i \in DOMAIN pairing.scans, l \in Laptops :
          pairing' = [pairing EXCEPT !.scans[i] =
            [@ EXCEPT !.view = "read", !.from = l, !.code = laptop[l].code]]
    BY <1>11 DEF ReadCode
  <2>2. pairing.scans[i] \in Scan /\ laptop[l].code \in Codes
    BY ScansType DEF TypeOK
  <2>3. [pairing.scans[i] EXCEPT !.view = "read", !.from = l,
                                 !.code = laptop[l].code] \in Scan
    BY <2>2 DEF Scan
  <2>4. pairing' \in [scanActive : BOOLEAN, scans : Seq(Scan)]
    BY <2>1, <2>3, ScansType DEF TypeOK
  <2> QED
    BY <1>11, <2>4 DEF ReadCode, ScreenOnly, ClientAside, TypeOK
<1>12. CASE CloseScanner
  <2>1. PICK i \in DOMAIN pairing.scans :
          pairing' = [pairing EXCEPT !.scans[i].view = "closed"]
    BY <1>12 DEF CloseScanner
  <2>2. pairing.scans[i] \in Scan
    BY ScansType
  <2>3. [pairing.scans[i] EXCEPT !.view = "closed"] \in Scan
    BY <2>2 DEF Scan
  <2>4. pairing' \in [scanActive : BOOLEAN, scans : Seq(Scan)]
    BY <2>1, <2>3, ScansType DEF TypeOK
  <2> QED
    BY <1>12, <2>4 DEF CloseScanner, ScreenOnly, ClientAside, TypeOK
<1> QED
  BY <1>1, <1>2, <1>3, <1>4, <1>5, <1>6, <1>7, <1>8, <1>9, <1>10, <1>11,
     <1>12 DEF User

LEMMA SettledType ==
  ASSUME TypeOK, Settled \/ ScanSettled
  PROVE  TypeOK'
<1>1. CASE Settled
  <2>1. Head(answers) \in Answer /\ answers' \in Seq(Answer)
    BY <1>1, HeadTailProperties DEF Settled, TypeOK
  <2>2. pairing' \in [scanActive : BOOLEAN, scans : Seq(Scan)]
    BY <1>1 DEF Settled, ScanEnds, TypeOK
  <2>3. \A t \in TicketOrNone : ShowIfLatest(t) => screen' \in Screen
    BY ScreenType DEF ShowIfLatest, TypeOK, Screen
  <2>4. screen' \in Screen /\ (UNCHANGED calls \/ Send("signers", None, 1, None))
    <3> DEFINE answer == Head(answers)
    <3>1. CASE ~answer.ok \/ screen.op \in {"none", "download"}
      BY <1>1, <3>1, ScreenType DEF Settled, Continue
    <3>2. CASE answer.ok /\ screen.op = "connect"
      BY <1>1, <2>1, <2>3, <3>2 DEF Settled, Continue, Answer
    <3>3. CASE answer.ok /\ ~screen.second
               /\ screen.op \in {"refresh", "approve", "revoke", "forget"}
      BY <1>1, <2>1, <3>3, ZenonT(60) DEF Settled, Continue, Answer, TypeOK, Screen
    <3>4. CASE answer.ok /\ screen.second
               /\ screen.op \in {"refresh", "approve", "revoke"}
      BY <1>1, <2>1, <2>3, <3>4 DEF Settled, Continue, TypeOK, Screen
    <3>5. CASE answer.ok /\ screen.second /\ screen.op = "forget"
      BY <1>1, <3>5, ScreenType DEF Settled, Continue
    <3> QED
      BY <2>1, <3>1, <3>2, <3>3, <3>4, <3>5
      DEF TypeOK, Screen, OpKinds, Answer
  <2>5. calls' \in Seq(Call)
    BY <2>4, ScreenCallType DEF CallKinds, TypeOK
  <2> QED
    BY <1>1, <2>1, <2>2, <2>4, <2>5
    DEF Settled, ScreenOnly, ClientAside, TypeOK
<1>2. CASE ScanSettled
  <2> DEFINE scan == Head(pairing.scans)
             begins == Connects(scan) /\ screen.op = "none" /\ ops < MaxOps
  <2>1. scan \in Scan /\ Tail(pairing.scans) \in Seq(Scan)
    BY <1>2, HeadTailProperties DEF ScanSettled, TypeOK
  <2>2. pairing' \in [scanActive : BOOLEAN, scans : Seq(Scan)]
    BY <1>2, <2>1 DEF ScanSettled, TypeOK, Scan, Connects
  <2>3. screen' \in Screen /\ calls' \in Seq(Call) /\ ops' \in 0 .. MaxOps
    <3>1. CASE begins
      BY <1>2, <2>1, <3>1, BeginConnectType DEF ScanSettled, Scan
    <3>2. CASE ~begins
      BY <1>2, <3>2 DEF ScanSettled, TypeOK
    <3> QED BY <3>1, <3>2
  <2> QED
    BY <1>2, <2>2, <2>3 DEF ScanSettled, ClientAside, TypeOK
<1> QED BY <1>1, <1>2

(* The queue of calls after a call is made, and after one is served.       *)
Message(kind, to, code, fingerprint) ==
  [kind |-> kind, to |-> to, code |-> code, fingerprint |-> fingerprint]

LEMMA SendQueue ==
  ASSUME TypeOK, NEW kind, NEW to, NEW code, NEW fingerprint,
         Send(kind, to, code, fingerprint)
  PROVE  /\ Len(calls) \in Nat
         /\ DOMAIN calls = 1 .. Len(calls)
         /\ Len(calls') = Len(calls) + 1
         /\ DOMAIN calls' = 1 .. Len(calls) + 1
         /\ \A i \in 1 .. Len(calls) : calls'[i] = calls[i]
         /\ calls'[Len(calls) + 1] = Message(kind, to, code, fingerprint)
         /\ \A i \in DOMAIN calls' :
              \/ i \in DOMAIN calls /\ calls'[i] = calls[i]
              \/ calls'[i] = [kind |-> kind, to |-> to, code |-> code,
                              fingerprint |-> fingerprint]
<1> DEFINE m == Message(kind, to, code, fingerprint)
<1>1. calls \in Seq(Call \cup {m})
  BY DEF TypeOK
<1>2. calls' = Append(calls, m)
  BY DEF Send, Message
<1>3. m \in Call \cup {m}
  OBVIOUS
<1> HIDE DEF m
<1>4. /\ Append(calls, m) \in Seq(Call \cup {m})
      /\ Len(Append(calls, m)) = Len(calls) + 1
      /\ \A i \in 1 .. Len(calls) : Append(calls, m)[i] = calls[i]
      /\ Append(calls, m)[Len(calls) + 1] = m
  BY <1>1, <1>3, AppendProperties
<1>5. /\ Len(calls) \in Nat
      /\ DOMAIN calls = 1 .. Len(calls)
      /\ DOMAIN Append(calls, m) = 1 .. Len(Append(calls, m))
  BY <1>1, <1>4, LenProperties
<1>6. \A i \in DOMAIN calls' : \/ i \in DOMAIN calls /\ calls'[i] = calls[i]
                               \/ calls'[i] = m
  BY <1>2, <1>4, <1>5
<1> QED BY <1>2, <1>4, <1>5, <1>6 DEF m, Message

LEMMA ServedQueue ==
  ASSUME TypeOK, calls # <<>>, Served
  PROVE  /\ Len(calls) \in Nat \ {0}
         /\ DOMAIN calls = 1 .. Len(calls)
         /\ Len(calls') = Len(calls) - 1
         /\ DOMAIN calls' = 1 .. Len(calls) - 1
         /\ \A i \in 1 .. Len(calls) - 1 : calls'[i] = calls[i + 1]
         /\ Head(calls) = calls[1]
<1>1. calls \in Seq(Call)
  BY DEF TypeOK
<1>2. calls' = Tail(calls)
  BY DEF Served
<1>3. Tail(calls) \in Seq(Call) /\ Len(Tail(calls)) = Len(calls) - 1
      /\ \A i \in 1 .. Len(Tail(calls)) : Tail(calls)[i] = calls[i + 1]
  BY <1>1, HeadTailProperties
<1>4. Len(calls) \in Nat \ {0} /\ DOMAIN calls = 1 .. Len(calls)
  BY <1>1, LenProperties, EmptySeq
<1> QED BY <1>1, <1>2, <1>3, <1>4, LenProperties

LEMMA CallServed ==
  ASSUME ClientCall
  PROVE  calls # <<>> /\ Served /\ ScreenAside
BY DEF ClientCall, ConnectCall, DownloadCall, RefreshCall, ApproveCall,
   RevokeCall, ForgetCall, SignersCall, CancelCall, DisconnectCall, Calling

-----------------------------------------------------------------------------
(* Every request is addressed to a laptop.                                 *)

LEMMA StartAddressed ==
  ASSUME TypeOK, AddressInv, NEW p, NEW state, Start(p, state),
         p.baseURL # None
  PROVE  \A s \in Sessions : task'[s].status = "sent" => task'[s].to # None
<1>1. PICK s \in Sessions :
        task' = [task EXCEPT ![s] = [FreeTask EXCEPT
                   !.status = "sent", !.to = p.baseURL,
                   !.code = p.pairingCode, !.state = state]]
  BY DEF Start
<1>2. task'[s].to = p.baseURL
  BY <1>1 DEF TypeOK, FreeTask
<1>3. \A r \in Sessions \ {s} : task'[r] = task[r]
  BY <1>1 DEF TypeOK
<1> QED BY <1>2, <1>3 DEF AddressInv

(* The screen makes at most one call at a time.                            *)
LEMMA ScreenCalls ==
  ASSUME TypeOK, User \/ Settled \/ ScanSettled
  PROVE  \/ UNCHANGED calls
         \/ \E kind \in CallKinds \ {"connect"}, to \in Laptops \cup {None} :
              Send(kind, to, 1, None)
         \/ \E l \in Laptops : \E code, fingerprint :
              Send("connect", l, code, fingerprint)
         \/ /\ pairing.scans # <<>>
            /\ Head(pairing.scans).view = "read"
            /\ LET scan == Head(pairing.scans) IN
               Send("connect", scan.from, scan.code, scan.from)
<1>1. CASE User
  <2>1. CASE \E l \in Laptops : ConnectLaptop(l)
    BY <2>1 DEF ConnectLaptop, BeginConnect
  <2>2. CASE \E l \in Laptops : ForgetSigner(l)
    BY <2>2 DEF ForgetSigner, CallKinds, OpKinds
  <2>3. CASE InstallFromLaptop \/ CancelLaptop \/ DisconnectLaptop
    BY <2>3 DEF InstallFromLaptop, CancelLaptop, DisconnectLaptop, CallKinds,
       OpKinds
  <2>4. CASE \E kind \in {"refresh", "approve", "revoke"} : ChangeCatalog(kind)
    BY <2>4 DEF ChangeCatalog, CallKinds, OpKinds
  <2>5. CASE Background
    BY <2>5 DEF Background, CallKinds, OpKinds
  <2>6. CASE Foreground \/ DisablePairing \/ StartScan \/ ReadCode
             \/ CloseScanner
    BY <2>6 DEF Foreground, DisablePairing, StartScan, ReadCode, CloseScanner,
       ScreenOnly
  <2> QED BY <1>1, <2>1, <2>2, <2>3, <2>4, <2>5, <2>6 DEF User
<1>2. CASE Settled
  <2>1. Continue(Head(answers))
    BY <1>2 DEF Settled
  <2>2. Head(answers).ok \in BOOLEAN /\ screen.op \in OpKinds
        /\ screen.second \in BOOLEAN
    <3>1. Head(answers) \in Answer
      BY <1>2, HeadTailProperties DEF Settled, TypeOK
    <3> QED BY <3>1 DEF TypeOK, Answer, Screen
  <2>3. UNCHANGED calls \/ Send("signers", None, 1, None)
    BY <2>1, <2>2 DEF Continue, OpKinds
  <2> QED BY <2>3 DEF CallKinds
<1>3. CASE ScanSettled
  BY <1>3 DEF ScanSettled, Connects, BeginConnect
<1> QED BY <1>1, <1>2, <1>3

(* What becomes of the scans.                                              *)
LEMMA ScansStep ==
  ASSUME TypeOK, User \/ Settled \/ ScanSettled
  PROVE  \/ pairing'.scans = pairing.scans
         \/ pairing' = Stopped(pairing)
         \/ pairing'.scans = Append(pairing.scans,
              [current |-> TRUE, view |-> "open", from |-> None, code |-> 1])
         \/ \E i \in DOMAIN pairing.scans :
              \/ \E l \in Laptops :
                   pairing'.scans = [pairing.scans EXCEPT ![i] =
                     [@ EXCEPT !.view = "read", !.from = l,
                               !.code = laptop[l].code]]
              \/ pairing'.scans = [pairing.scans EXCEPT ![i].view = "closed"]
         \/ /\ pairing.scans # <<>>
            /\ pairing'.scans = Tail(pairing.scans)
<1>0. pairing \in [scanActive : BOOLEAN, scans : Seq(Scan)]
  BY DEF TypeOK
<1>1. CASE User
  <2>1. CASE \/ \E l \in Laptops : ConnectLaptop(l) \/ ForgetSigner(l)
             \/ InstallFromLaptop \/ CancelLaptop \/ DisconnectLaptop
             \/ \E kind \in {"refresh", "approve", "revoke"} :
                  ChangeCatalog(kind)
             \/ Foreground
    BY <2>1 DEF ConnectLaptop, ForgetSigner, InstallFromLaptop, CancelLaptop,
       DisconnectLaptop, ChangeCatalog, Foreground
  <2>2. CASE Background \/ DisablePairing
    BY <2>2 DEF Background, DisablePairing
  <2>3. CASE StartScan
    BY <1>0, <2>3 DEF StartScan
  <2>4. CASE ReadCode
    BY <1>0, <2>4 DEF ReadCode
  <2>5. CASE CloseScanner
    BY <1>0, <2>5 DEF CloseScanner
  <2> QED BY <1>1, <2>1, <2>2, <2>3, <2>4, <2>5 DEF User
<1>2. CASE Settled
  BY <1>0, <1>2 DEF Settled, ScanEnds
<1>3. CASE ScanSettled
  BY <1>0, <1>3 DEF ScanSettled
<1> QED BY <1>1, <1>2, <1>3

LEMMA AddressStep ==
  ASSUME TypeOK, AddressInv, [Next]_vars
  PROVE  AddressInv'
<1>1. CASE ClientCall
  <2>1. calls # <<>> /\ Served /\ UNCHANGED pairing
    BY <1>1, CallServed DEF ScreenAside
  <2>2. \A i \in DOMAIN calls' : calls'[i].kind = "connect" => calls'[i].to # None
    BY <2>1, ServedQueue DEF AddressInv
  <2>3. \A s \in Sessions : task'[s].status = "sent" => task'[s].to # None
    <3>1. CASE UNCHANGED task
      BY <3>1 DEF AddressInv
    <3>2. CASE ConnectCall
      <4>1. SUFFICES ASSUME ~phone.pending
                     PROVE  \A s \in Sessions :
                              task'[s].status = "sent" => task'[s].to # None
        BY <3>1, <3>2 DEF ConnectCall
      <4> DEFINE p == [Disconnected(phone) EXCEPT
                         !.baseURL = Head(calls).to,
                         !.pairingCode = Head(calls).code,
                         !.expected = Head(calls).fingerprint]
      <4>2. Head(calls).to # None
        BY <2>1, <3>2, ServedQueue DEF ConnectCall, Calling, AddressInv
      <4>3. p.baseURL # None
        BY <4>2, PhoneType DEF Phone, TypeOK
      <4>4. Start(p, FALSE)
        BY <3>2, <4>1 DEF ConnectCall
      <4> HIDE DEF p
      <4> QED BY <4>3, <4>4, StartAddressed
    <3>3. CASE DownloadCall
      <4> DEFINE p == [phone EXCEPT !.incoming = phone.offered]
      <4>1. SUFFICES ASSUME Start(p, TRUE), phone.baseURL # None
                     PROVE  \A s \in Sessions :
                              task'[s].status = "sent" => task'[s].to # None
        BY <3>1, <3>3 DEF DownloadCall
      <4>2. p.baseURL # None
        BY <4>1 DEF TypeOK, Phone
      <4> HIDE DEF p
      <4> QED BY <4>1, <4>2, StartAddressed
    <3>4. CASE RefreshCall
      BY <3>1, <3>4, StartAddressed DEF RefreshCall
    <3> QED
      BY <1>1, <3>1, <3>2, <3>3, <3>4
      DEF ClientCall, ApproveCall, RevokeCall, ForgetCall, SignersCall,
          CancelCall, DisconnectCall
  <2> QED BY <2>1, <2>2, <2>3 DEF AddressInv
<1>2. CASE Callback \/ Network
  <2>1. UNCHANGED <<calls, pairing>>
    BY <1>2 DEF Callback, ReceiveCatalog, FileArrives, Complete, CallbackAside,
       Network, Serve, Abort, Lose, LaptopAside
  <2>2. PICK s \in Sessions :
          \/ ReceiveCatalog(s) \/ FileArrives(s) \/ Complete(s)
          \/ Serve(s) \/ Abort(s) \/ Lose(s)
    BY <1>2 DEF Callback, Network
  <2>3. \/ task' = [task EXCEPT ![s] = FreeTask]
        \/ task' = [task EXCEPT ![s] = [FreeTask EXCEPT !.status = "done"]]
        \/ task' = [task EXCEPT ![s] = [FreeTask EXCEPT !.status = "lost"]]
        \/ task' = [task EXCEPT ![s] = [FreeTask EXCEPT
              !.status = "answered", !.state = task[s].state,
              !.reply = Reply(task[s])]]
    BY <2>2 DEF ReceiveCatalog, FileArrives, Complete, At, Serve, Abort, Lose
  <2>4. \A r \in Sessions \ {s} : task'[r] = task[r]
    BY <2>3 DEF TypeOK
  <2>5. task'[s].status # "sent"
    <3> DEFINE state == task[s].state
               reply == Reply(task[s])
    <3>1. FreeTask.status # "sent"
          /\ [FreeTask EXCEPT !.status = "done"].status # "sent"
          /\ [FreeTask EXCEPT !.status = "lost"].status # "sent"
          /\ [FreeTask EXCEPT !.status = "answered", !.state = state,
                             !.reply = reply].status # "sent"
      <4> HIDE DEF state, reply
      <4> QED BY DEF FreeTask
    <3> QED BY <2>3, <3>1 DEF TypeOK
  <2> QED BY <2>1, <2>4, <2>5 DEF AddressInv
<1>3. CASE Laptop \/ UNCHANGED vars
  BY <1>3 DEF Laptop, Restart, ReplaceFile, LaptopAside, AddressInv, vars
<1>4. CASE User \/ Settled \/ ScanSettled
  <2>1. UNCHANGED task
    BY <1>4 DEF User, Settled, ScanSettled, ConnectLaptop, ForgetSigner,
       InstallFromLaptop, CancelLaptop, DisconnectLaptop, ChangeCatalog,
       Background, Foreground, DisablePairing, StartScan, ReadCode,
       CloseScanner, ScreenOnly, ClientAside
  <2>2. \A i \in DOMAIN pairing'.scans :
          pairing'.scans[i].view = "read" => pairing'.scans[i].from # None
    <3>0. pairing.scans \in Seq(Scan)
          /\ DOMAIN pairing.scans = 1 .. Len(pairing.scans)
          /\ Len(pairing.scans) \in Nat
          /\ \A i \in DOMAIN pairing.scans : pairing.scans[i] \in Scan
      BY LenProperties, ElementOfSeq DEF TypeOK
    <3>1. CASE pairing'.scans = pairing.scans
      BY <3>1 DEF AddressInv
    <3>2. CASE pairing' = Stopped(pairing)
      <4>1. pairing'.scans =
              [i \in DOMAIN pairing.scans |-> Outdated(pairing.scans[i])]
        BY <3>2 DEF Stopped, TypeOK
      <4>2. \A scan \in Scan : /\ Outdated(scan).view = "read" => scan.view = "read"
                               /\ Outdated(scan).from = scan.from
        BY DEF Outdated, Scan
      <4> QED BY <3>0, <4>1, <4>2 DEF AddressInv
    <3>3. CASE pairing'.scans = Append(pairing.scans,
             [current |-> TRUE, view |-> "open", from |-> None, code |-> 1])
      BY <3>0, <3>3 DEF AddressInv
    <3>4. ASSUME NEW i \in DOMAIN pairing.scans,
                 \/ \E l \in Laptops :
                      pairing'.scans = [pairing.scans EXCEPT ![i] =
                        [@ EXCEPT !.view = "read", !.from = l,
                                  !.code = laptop[l].code]]
                 \/ pairing'.scans = [pairing.scans EXCEPT ![i].view = "closed"]
          PROVE  \A j \in DOMAIN pairing'.scans :
                   pairing'.scans[j].view = "read" => pairing'.scans[j].from # None
      <4>1. DOMAIN pairing'.scans = DOMAIN pairing.scans
            /\ \A j \in DOMAIN pairing.scans \ {i} :
                 pairing'.scans[j] = pairing.scans[j]
        BY <3>0, <3>4
      <4>2. pairing.scans[i] \in Scan
        BY <3>0
      <4>3. CASE pairing'.scans = [pairing.scans EXCEPT ![i].view = "closed"]
        BY <3>0, <4>1, <4>2, <4>3 DEF AddressInv, Scan
      <4>4. ASSUME NEW l \in Laptops,
                   pairing'.scans = [pairing.scans EXCEPT ![i] =
                     [@ EXCEPT !.view = "read", !.from = l,
                               !.code = laptop[l].code]]
            PROVE  pairing'.scans[i].from # None
        BY <3>0, <4>2, <4>4, LaptopAssumption DEF Scan
      <4> QED BY <3>4, <4>1, <4>3, <4>4 DEF AddressInv
    <3>5. CASE pairing.scans # <<>> /\ pairing'.scans = Tail(pairing.scans)
      BY <3>0, <3>5, HeadTailProperties, LenProperties DEF AddressInv
    <3> QED BY <1>4, <3>1, <3>2, <3>3, <3>4, <3>5, ScansStep
  <2>3. \A i \in DOMAIN calls' : calls'[i].kind = "connect" => calls'[i].to # None
    <3>1. CASE UNCHANGED calls
      BY <3>1 DEF AddressInv
    <3>2. ASSUME NEW kind \in CallKinds \ {"connect"},
                 NEW to \in Laptops \cup {None}, Send(kind, to, 1, None)
          PROVE  \A i \in DOMAIN calls' :
                   calls'[i].kind = "connect" => calls'[i].to # None
      BY <3>2, SendQueue DEF AddressInv
    <3>3. ASSUME NEW l \in Laptops, NEW code, NEW fingerprint,
                 Send("connect", l, code, fingerprint)
          PROVE  \A i \in DOMAIN calls' :
                   calls'[i].kind = "connect" => calls'[i].to # None
      BY <3>3, SendQueue, LaptopAssumption DEF AddressInv
    <3>4. ASSUME pairing.scans # <<>>, Head(pairing.scans).view = "read",
                 NEW scan, scan = Head(pairing.scans),
                 Send("connect", scan.from, scan.code, scan.from)
          PROVE  \A i \in DOMAIN calls' :
                   calls'[i].kind = "connect" => calls'[i].to # None
      <4>1. pairing.scans \in Seq(Scan)
        BY DEF TypeOK
      <4>2. 1 \in DOMAIN pairing.scans /\ Head(pairing.scans) = pairing.scans[1]
        BY <3>4, <4>1, LenProperties, EmptySeq
      <4>3. scan.from # None
        BY <3>4, <4>2 DEF AddressInv
      <4> QED BY <3>4, <4>3, SendQueue DEF AddressInv
    <3> QED BY <1>4, <3>1, <3>2, <3>3, <3>4, ScreenCalls
  <2> QED BY <2>1, <2>2, <2>3 DEF AddressInv
<1> QED
  BY <1>1, <1>2, <1>3, <1>4 DEF Next

LEMMA TypeStep ==
  ASSUME TypeOK, AddressInv, [Next]_vars
  PROVE  TypeOK'
BY ClientCallType, CallbackType, NetworkType, UserType, SettledType
DEF Next, vars, TypeOK

LEMMA InitTyped ==
  ASSUME Init
  PROVE  TypeOK /\ AddressInv
<1>1. NoTicket \in TicketOrNone /\ NoPin \in PinOrNone
  BY DEF TicketOrNone, PinOrNone
<1>2. IdlePhone \in Phone /\ FreeTask \in Tasks
  BY <1>1, FirstCode DEF IdlePhone, Phone, FreeTask, Tasks
<1>3. QuietScreen \in Screen
  BY <1>1 DEF QuietScreen, Screen, OpKinds
<1>4. <<>> \in Seq(Call) /\ <<>> \in Seq(Answer) /\ <<>> \in Seq(Scan)
  OBVIOUS
<1>5. TypeOK
  BY <1>1, <1>2, <1>3, <1>4, FirstCode, LaptopAssumption
  DEF Init, TypeOK, Revisions
<1>6. AddressInv
  BY DEF Init, AddressInv, FreeTask
<1> QED BY <1>5, <1>6

(* Every variable has its type; a request is sent to a laptop.             *)
THEOREM TypeCorrect == Spec => [](TypeOK /\ AddressInv)
<1>1. Init => TypeOK /\ AddressInv
  BY InitTyped
<1>2. TypeOK /\ AddressInv /\ [Next]_vars => (TypeOK /\ AddressInv)'
  BY TypeStep, AddressStep
<1> QED BY <1>1, <1>2, PTL DEF Spec

-----------------------------------------------------------------------------
(* A promise is settled once.  What the screen awaits is in one place: a   *)
(* call on its way, the request the client holds, or the answer.           *)

Sent == {i \in DOMAIN calls : calls[i].kind \in Awaited}

OnceInv ==
  \/ screen.op = "none" /\ Sent = {} /\ ~phone.pending /\ answers = <<>>
  \/ /\ screen.op # "none"
     /\ \/ (\E i \in DOMAIN calls : Sent = {i}) /\ ~phone.pending
                                                /\ answers = <<>>
        \/ Sent = {} /\ phone.pending /\ answers = <<>>
        \/ Sent = {} /\ ~phone.pending /\ Len(answers) = 1

(* The call on its way is that of the operation, or asks for the saved     *)
(* signers if the operation is that far; the request under way is that of  *)
(* the operation too.                                                      *)
Listing == {"refresh", "approve", "revoke"}

KindInv ==
  /\ \A i \in Sent :
       calls[i].kind = IF screen.second THEN "signers" ELSE screen.op
  /\ screen.second => screen.op \in Listing \cup {"forget"}
  /\ phone.pending => ~screen.second
  /\ phone.pending /\ phone.incoming = NoPin =>
       screen.op \in {"connect", "refresh"}
  /\ phone.pending /\ phone.incoming # NoPin => screen.op = "download"
  /\ screen.second => \A i \in DOMAIN answers : answers[i].ok

(* The client has a session exactly while a promise waits for it.          *)
PhoneOK(p) ==
  /\ p.pending <=> p.session # None
  /\ p.incoming # NoPin => p.pending
  /\ p.pending => p.baseURL # None

PromiseInv == OnceInv /\ KindInv /\ PhoneOK(phone)

LEMMA SentAfterServed ==
  ASSUME TypeOK, calls # <<>>, Served
  PROVE  /\ Sent = {} => Sent' = {} /\ Head(calls).kind \notin Awaited
         /\ Head(calls).kind \notin Awaited /\ (\E i \in DOMAIN calls : Sent = {i})
              => \E i \in DOMAIN calls' : Sent' = {i}
         /\ Head(calls).kind \in Awaited /\ (\E i \in DOMAIN calls : Sent = {i})
              => Sent' = {} /\ 1 \in Sent
         /\ \A i \in Sent' : i + 1 \in Sent /\ calls'[i] = calls[i + 1]
<1>1. Sent' = {i \in DOMAIN calls' : calls'[i].kind \in Awaited}
  BY DEF Sent, Awaited
<1>2. \A i \in Sent' : i \in Nat \ {0} /\ i + 1 \in Sent /\ calls'[i] = calls[i + 1]
  BY <1>1, ServedQueue DEF Sent
<1>3. \A i \in Sent : i # 1 => i - 1 \in Sent'
  BY <1>1, ServedQueue DEF Sent
<1>4. 1 \in Sent <=> Head(calls).kind \in Awaited
  BY ServedQueue DEF Sent
<1>5. \A i \in Sent : i \in Nat \ {0}
  BY ServedQueue DEF Sent
<1>6. ASSUME Head(calls).kind \notin Awaited, NEW i \in DOMAIN calls, Sent = {i}
      PROVE  \E j \in DOMAIN calls' : Sent' = {j}
  <2>1. i # 1 /\ i \in Nat /\ i - 1 \in Sent'
    BY <1>3, <1>4, <1>5, <1>6
  <2>2. \A j \in Sent' : j = i - 1
    BY <1>2, <1>6, <2>1
  <2> QED BY <1>1, <2>1, <2>2
<1>7. ASSUME Head(calls).kind \in Awaited, NEW i \in DOMAIN calls, Sent = {i}
      PROVE  Sent' = {} /\ 1 \in Sent
  <2>1. Sent = {1}
    BY <1>4, <1>7
  <2> QED BY <1>2, <2>1
<1> QED BY <1>2, <1>4, <1>6, <1>7

LEMMA SentAfterSend ==
  ASSUME TypeOK, NEW kind, NEW to, NEW code, NEW fingerprint,
         Send(kind, to, code, fingerprint)
  PROVE  /\ \A i \in Sent : i \in DOMAIN calls' /\ calls'[i] = calls[i]
         /\ kind \notin Awaited => Sent' = Sent
         /\ kind \in Awaited /\ Sent = {} =>
              \E i \in DOMAIN calls' : Sent' = {i} /\ calls'[i].kind = kind
<1>1. Sent' = {i \in DOMAIN calls' : calls'[i].kind \in Awaited}
  BY DEF Sent, Awaited
<1>2. \A i \in Sent : i \in DOMAIN calls' /\ calls'[i] = calls[i]
  BY SendQueue DEF Sent
<1>3. Len(calls) + 1 \in DOMAIN calls' /\ calls'[Len(calls) + 1].kind = kind
  <2>1. Len(calls) + 1 \in DOMAIN calls'
        /\ calls'[Len(calls) + 1] = Message(kind, to, code, fingerprint)
    BY SendQueue
  <2>2. Message(kind, to, code, fingerprint).kind = kind
    BY DEF Message
  <2> QED BY <2>1, <2>2
<1>4. \A i \in DOMAIN calls' : i # Len(calls) + 1 =>
        i \in DOMAIN calls /\ calls'[i] = calls[i]
  BY SendQueue
<1>5. ASSUME kind \notin Awaited PROVE Sent' = Sent
  BY <1>1, <1>2, <1>3, <1>4, <1>5 DEF Sent
<1>6. ASSUME kind \in Awaited, Sent = {} PROVE Sent' = {Len(calls) + 1}
  BY <1>1, <1>3, <1>4, <1>6 DEF Sent
<1> QED BY <1>2, <1>3, <1>5, <1>6

LEMMA SentSame ==
  ASSUME UNCHANGED calls
  PROVE  Sent' = Sent
BY DEF Sent, Awaited

LEMMA PhoneHelpers ==
  ASSUME NEW p \in Phone
  PROVE  /\ PhoneOK(Finished(p)) /\ ~Finished(p).pending
         /\ PhoneOK(Finished(Unreached(p))) /\ ~Finished(Unreached(p)).pending
         /\ PhoneOK(Finished(Forgotten(p))) /\ ~Finished(Forgotten(p)).pending
         /\ PhoneOK(p) => /\ PhoneOK(Cancelled(p)) /\ ~Cancelled(p).pending
                          /\ PhoneOK(Disconnected(p))
                          /\ ~Disconnected(p).pending
<1>1. \A q \in Phone : PhoneOK(Finished(q)) /\ ~Finished(q).pending
  BY LaptopAssumption DEF PhoneOK, Finished, Phone
<1>2. \A q \in Phone : PhoneOK(q) /\ ~q.pending =>
        PhoneOK(Unreached(q)) /\ ~Unreached(q).pending
  BY DEF PhoneOK, Unreached, Phone
<1>3. PhoneOK(p) => PhoneOK(Cancelled(p)) /\ ~Cancelled(p).pending
  BY <1>1, <1>2, PhoneType DEF Cancelled
<1>4. PhoneOK(p) => PhoneOK(Disconnected(p)) /\ ~Disconnected(p).pending
  <2> SUFFICES ASSUME PhoneOK(p)
               PROVE  PhoneOK(Disconnected(p)) /\ ~Disconnected(p).pending
    OBVIOUS
  <2>1. Cancelled(p) \in Phone /\ Unreached(Cancelled(p)) \in Phone
    BY PhoneType
  <2>2. PhoneOK(Unreached(Cancelled(p))) /\ ~Unreached(Cancelled(p)).pending
    BY <1>2, <1>3, <2>1
  <2> QED BY <2>1, <2>2 DEF Disconnected, PhoneOK, Phone
<1> QED BY <1>1, <1>3, <1>4, PhoneType

(* What a call the screen awaits does to the promise: it is answered, or a *)
(* request of its kind is under way.                                       *)
Answered(ok) ==
  \E a \in Answer : answers' = Append(answers, a) /\ (ok => a.ok)

LEMMA SettleAnswers ==
  ASSUME NEW ok \in BOOLEAN, NEW value \in TicketOrNone, Settle(ok, value)
  PROVE  Answered(ok)
BY DEF Settle, Answered, Answer

LEMMA StartPends ==
  ASSUME NEW p \in Phone, NEW state, Start(p, state), p.baseURL # None
  PROVE  PhoneOK(phone') /\ phone'.pending /\ phone'.incoming = p.incoming
         /\ phone'.baseURL = p.baseURL
<1>1. PICK s \in Sessions :
        phone' = [p EXCEPT !.session = s, !.pending = TRUE, !.data = {},
                           !.failed = FALSE]
  BY DEF Start
<1>2. s # None
  BY LaptopAssumption
<1> QED BY <1>1, <1>2 DEF PhoneOK, Phone

LEMMA AwaitedCall ==
  ASSUME TypeOK, AddressInv, PhoneOK(phone), ~phone.pending, ClientCall,
         Head(calls).kind \in Awaited
  PROVE  /\ PhoneOK(phone')
         /\ \/ ~phone'.pending /\ Answered(Head(calls).kind = "signers")
            \/ /\ phone'.pending /\ UNCHANGED answers
               /\ \/ /\ phone'.incoming = NoPin
                     /\ Head(calls).kind \in {"connect", "refresh"}
                  \/ phone'.incoming # NoPin /\ Head(calls).kind = "download"
<1>0. NoTicket \in TicketOrNone /\ phone \in Phone /\ NoPin \in PinOrNone
      /\ phone.incoming = NoPin
  BY DEF TypeOK, TicketOrNone, PinOrNone, PhoneOK
<1>1. CASE ConnectCall
  <2> DEFINE p == [Disconnected(phone) EXCEPT
                     !.baseURL = Head(calls).to,
                     !.pairingCode = Head(calls).code,
                     !.expected = Head(calls).fingerprint]
  <2>1. Head(calls) \in Call /\ Head(calls).kind = "connect"
    BY <1>1, ServedType DEF ConnectCall, Calling
  <2>2. Head(calls).to # None
    BY <2>1, CallServed, ServedQueue DEF AddressInv
  <2>3. Disconnected(phone) \in Phone /\ Disconnected(phone).incoming = NoPin
    BY <1>0, PhoneType, PhoneHelpers DEF PhoneOK
  <2>4. p \in Phone /\ p.baseURL # None /\ p.incoming = NoPin
    BY <2>1, <2>2, <2>3 DEF Phone, Call
  <2>5. Start(p, FALSE) /\ UNCHANGED answers
    BY <1>1 DEF ConnectCall
  <2> HIDE DEF p
  <2> QED BY <2>1, <2>4, <2>5, StartPends
<1>2. CASE DownloadCall
  <2>1. CASE phone.offered = NoPin \/ phone.baseURL = None
             \/ ~Authorized(phone.offered)
    <3>1. phone' = [phone EXCEPT !.incoming = NoPin]
          /\ Settle(FALSE, NoTicket) /\ Head(calls).kind = "download"
      BY <1>2, <2>1 DEF DownloadCall, Calling
    <3>2. phone' = phone
      BY <1>0, <3>1 DEF Phone
    <3> QED BY <1>0, <3>1, <3>2, SettleAnswers DEF Answered
  <2>2. CASE ~(phone.offered = NoPin \/ phone.baseURL = None
               \/ ~Authorized(phone.offered))
    <3> DEFINE p == [phone EXCEPT !.incoming = phone.offered]
    <3>1. p \in Phone /\ p.incoming # NoPin /\ p.baseURL # None
      BY <1>0, <2>2 DEF Phone
    <3>2. Start(p, TRUE) /\ UNCHANGED answers /\ Head(calls).kind = "download"
      BY <1>2, <2>2 DEF DownloadCall, Calling
    <3> HIDE DEF p
    <3> QED BY <3>1, <3>2, StartPends
  <2> QED BY <2>1, <2>2
<1>3. CASE RefreshCall
  <2>1. CASE phone.baseURL = None
    BY <1>0, <1>3, <2>1, SettleAnswers DEF RefreshCall, Calling, Answered
  <2>2. CASE phone.baseURL # None
    BY <1>0, <1>3, <2>2, StartPends DEF RefreshCall, Calling
  <2> QED BY <2>1, <2>2
<1>4. ASSUME phone' = phone \/ \E t \in Ticket : \E trusted :
                phone' = Listed(phone, t, trusted)
      PROVE  PhoneOK(phone') /\ ~phone'.pending
  BY <1>0, <1>4 DEF Listed, Phone, PhoneOK
<1>5. CASE ApproveCall
  <2>1. phone.cache \in Ticket \/ phone.cache = NoTicket
    BY <1>0, TicketType DEF Phone
  <2>2. PhoneOK(phone') /\ ~phone'.pending
    BY <1>4, <1>5, <2>1 DEF ApproveCall, Approvable
  <2>3. Settle(TRUE, phone.cache) \/ Settle(FALSE, NoTicket)
    BY <1>5 DEF ApproveCall
  <2> QED
    BY <1>0, <1>5, <2>2, <2>3, SettleAnswers
    DEF ApproveCall, Calling, Answered, Phone
<1>6. CASE RevokeCall
  <2>1. phone.cache \in Ticket \/ phone.cache = NoTicket
    BY <1>0, TicketType DEF Phone
  <2>2. PhoneOK(phone') /\ ~phone'.pending
    BY <1>4, <1>6, <2>1 DEF RevokeCall
  <2>3. Settle(TRUE, phone.cache) \/ Settle(FALSE, NoTicket)
    BY <1>6 DEF RevokeCall
  <2> QED
    BY <1>0, <1>6, <2>2, <2>3, SettleAnswers
    DEF RevokeCall, Calling, Answered, Phone
<1>7. CASE ForgetCall \/ SignersCall
  BY <1>0, <1>7, SettleAnswers DEF ForgetCall, SignersCall, Answered
<1> QED
  BY <1>1, <1>2, <1>3, <1>5, <1>6, <1>7
  DEF ClientCall, CancelCall, DisconnectCall, Calling, Awaited

LEMMA StoppingCall ==
  ASSUME TypeOK, PhoneOK(phone), ClientCall, Head(calls).kind \notin Awaited
  PROVE  /\ PhoneOK(phone') /\ ~phone'.pending
         /\ IF phone.pending THEN Answered(FALSE) ELSE UNCHANGED answers
         /\ UNCHANGED <<task, store>>
         /\ \/ Head(calls).kind = "cancel" /\ phone' = Cancelled(phone)
            \/ Head(calls).kind = "disconnect" /\ phone' = Disconnected(phone)
<1>0. NoTicket \in TicketOrNone /\ phone \in Phone
  BY DEF TypeOK, TicketOrNone
<1>1. CancelCall \/ DisconnectCall
  BY DEF ClientCall, ConnectCall, DownloadCall, RefreshCall, ApproveCall,
     RevokeCall, ForgetCall, SignersCall, Calling, Awaited
<1>2. SettleCancelled
  BY <1>1 DEF CancelCall, DisconnectCall
<1>3. IF phone.pending THEN Answered(FALSE) ELSE UNCHANGED answers
  BY <1>0, <1>2, SettleAnswers DEF SettleCancelled
<1> QED
  BY <1>0, <1>1, <1>3, PhoneHelpers DEF CancelCall, DisconnectCall, Calling

(* A callback leaves the request as it is, or ends it with an answer.      *)
LEMMA CallbackEnds ==
  ASSUME TypeOK, PhoneOK(phone), Callback
  PROVE  /\ PhoneOK(phone')
         /\ \/ /\ phone'.pending = phone.pending
               /\ phone'.incoming = phone.incoming
               /\ UNCHANGED answers
            \/ phone.pending /\ ~phone'.pending /\ Answered(FALSE)
<1>0. NoTicket \in TicketOrNone /\ phone \in Phone
  BY DEF TypeOK, TicketOrNone
<1>1. PICK s \in Sessions : ReceiveCatalog(s) \/ FileArrives(s) \/ Complete(s)
  BY DEF Callback
<1>2. phone.session = s => phone.pending
  BY LaptopAssumption DEF PhoneOK
<1>3. CASE ReceiveCatalog(s)
  BY <1>0, <1>3 DEF ReceiveCatalog, PhoneOK, Phone
<1>4. CASE FileArrives(s)
  <2>1. CASE phone.session = s /\ phone.incoming # NoPin
    <3>1. phone' = Finished(phone)
      BY <1>4, <2>1 DEF FileArrives
    <3>2. \E ok \in BOOLEAN : Settle(ok, NoTicket)
      BY <1>4, <2>1 DEF FileArrives
    <3> QED
      BY <1>0, <1>2, <2>1, <3>1, <3>2, PhoneHelpers, SettleAnswers DEF Answered
  <2>2. CASE ~(phone.session = s /\ phone.incoming # NoPin)
    BY <1>4, <2>2 DEF FileArrives
  <2> QED BY <2>1, <2>2
<1>5. CASE Complete(s)
  <2>1. CASE phone.session # s
    BY <1>5, <2>1 DEF Complete
  <2>2. CASE phone.session = s
    <3> DEFINE lost == task[s].status = "lost"
    <3>1. Completed(lost)
      BY <1>5, <2>2 DEF Complete
    <3>2. /\ PhoneOK(phone') /\ ~phone'.pending
          /\ \E ok \in BOOLEAN, value \in TicketOrNone : Settle(ok, value)
      <4>1. CASE \/ phone.failed \/ lost \/ phone.incoming # NoPin
                 \/ ~\E t \in phone.data : phone.data = {t} /\ Expected(t)
        <5>1. /\ \/ phone' = Finished(phone)
                 \/ phone' = Finished(Unreached(phone))
                 \/ phone' = Finished(Forgotten(phone))
              /\ Settle(FALSE, NoTicket)
          <6>1. CASE phone.failed
            BY <3>1, <6>1 DEF Completed
          <6>2. CASE ~phone.failed /\ lost
            BY <3>1, <6>2 DEF Completed
          <6>3. CASE ~phone.failed /\ ~lost /\ phone.incoming # NoPin
            BY <3>1, <6>3 DEF Completed
          <6>4. CASE ~phone.failed /\ ~lost /\ phone.incoming = NoPin
            BY <3>1, <4>1, <6>4 DEF Completed
          <6> QED BY <6>1, <6>2, <6>3, <6>4
        <5> QED BY <1>0, <5>1, PhoneHelpers
      <4>2. CASE /\ ~phone.failed /\ ~lost /\ phone.incoming = NoPin
                 /\ \E t \in phone.data : phone.data = {t} /\ Expected(t)
        <5>1. PICK t \in phone.data : t = CHOOSE u \in phone.data : TRUE
          BY <4>2
        <5>2. t \in Ticket
          BY <1>0 DEF Phone
        <5> DEFINE p == [Listed(phone, t, store.trusted) EXCEPT !.cache = t]
        <5>3. p \in Phone
          BY <1>0, <5>2, ListedType DEF Phone, TicketOrNone
        <5>4. phone' = Finished(p) /\ Settle(TRUE, t)
          BY <3>1, <4>2, <5>1 DEF Completed
        <5> HIDE DEF p
        <5> QED BY <5>2, <5>3, <5>4, PhoneHelpers DEF TicketOrNone
      <4> QED BY <4>1, <4>2
    <3> QED BY <1>2, <2>2, <3>2, SettleAnswers DEF Answered
  <2> QED BY <2>1, <2>2
<1> QED BY <1>1, <1>3, <1>4, <1>5

LEMMA OneAnswer ==
  ASSUME TypeOK, answers = <<>>, NEW ok, Answered(ok)
  PROVE  Len(answers') = 1 /\ (ok => \A i \in DOMAIN answers' : answers'[i].ok)
<1>1. PICK a \in Answer : answers' = Append(answers, a) /\ (ok => a.ok)
  BY DEF Answered
<1>2. answers' = <<a>>
  BY <1>1
<1> QED BY <1>1, <1>2

LEMMA ClientCallPromise ==
  ASSUME TypeOK, AddressInv, PromiseInv, ClientCall
  PROVE  PromiseInv'
<1>1. calls # <<>> /\ Served /\ UNCHANGED screen
  BY CallServed DEF ScreenAside
<1>2. CASE Head(calls).kind \in Awaited
  <2>1. (\E i \in DOMAIN calls : Sent = {i}) /\ ~phone.pending /\ answers = <<>>
        /\ screen.op # "none"
    BY <1>1, <1>2, SentAfterServed DEF PromiseInv, OnceInv
  <2>2. Sent' = {} /\ 1 \in Sent /\ Head(calls) = calls[1]
    BY <1>1, <1>2, <2>1, SentAfterServed, ServedQueue
  <2>3. Head(calls).kind = IF screen.second THEN "signers" ELSE screen.op
    BY <2>2 DEF PromiseInv, KindInv
  <2>4. /\ PhoneOK(phone')
        /\ \/ ~phone'.pending /\ Answered(Head(calls).kind = "signers")
           \/ /\ phone'.pending /\ UNCHANGED answers
              /\ \/ /\ phone'.incoming = NoPin
                    /\ Head(calls).kind \in {"connect", "refresh"}
                 \/ phone'.incoming # NoPin /\ Head(calls).kind = "download"
    BY <1>2, <2>1, AwaitedCall DEF PromiseInv
  <2>5. OnceInv'
    BY <1>1, <2>1, <2>2, <2>4, OneAnswer DEF OnceInv
  <2>6. screen.second /\ ~phone'.pending => \A i \in DOMAIN answers' : answers'[i].ok
    BY <2>1, <2>3, <2>4, OneAnswer
  <2>7. phone'.pending => ~screen.second /\ Head(calls).kind = screen.op
    BY <2>3, <2>4
  <2>8. KindInv'
    BY <1>1, <2>2, <2>4, <2>6, <2>7 DEF PromiseInv, KindInv
  <2> QED BY <2>4, <2>5, <2>8 DEF PromiseInv
<1>3. CASE Head(calls).kind \notin Awaited
  <2>1. /\ PhoneOK(phone') /\ ~phone'.pending
        /\ IF phone.pending THEN Answered(FALSE) ELSE UNCHANGED answers
    BY <1>3, StoppingCall DEF PromiseInv
  <2>2. /\ Sent = {} => Sent' = {}
        /\ (\E i \in DOMAIN calls : Sent = {i}) => \E i \in DOMAIN calls' : Sent' = {i}
        /\ \A i \in Sent' : i + 1 \in Sent /\ calls'[i] = calls[i + 1]
    BY <1>1, <1>3, SentAfterServed
  <2>3. OnceInv'
    <3>1. CASE phone.pending
      BY <1>1, <2>1, <2>2, <3>1, OneAnswer DEF PromiseInv, OnceInv
    <3>2. CASE ~phone.pending
      BY <1>1, <2>1, <2>2, <3>2 DEF PromiseInv, OnceInv
    <3> QED BY <3>1, <3>2
  <2>4. KindInv'
    <3>1. CASE phone.pending
      BY <1>1, <2>1, <2>2, <3>1 DEF PromiseInv, KindInv
    <3>2. CASE ~phone.pending
      BY <1>1, <2>1, <2>2, <3>2 DEF PromiseInv, KindInv
    <3> QED BY <3>1, <3>2
  <2> QED BY <2>1, <2>3, <2>4 DEF PromiseInv
<1> QED BY <1>2, <1>3

LEMMA CallbackPromise ==
  ASSUME TypeOK, PromiseInv, Callback
  PROVE  PromiseInv'
<1>1. UNCHANGED <<calls, screen>>
  BY DEF Callback, ReceiveCatalog, FileArrives, Complete, CallbackAside
<1>2. Sent' = Sent
  BY <1>1, SentSame
<1>3. PhoneOK(phone')
  BY CallbackEnds DEF PromiseInv
<1>4. CASE /\ phone'.pending = phone.pending
           /\ phone'.incoming = phone.incoming
           /\ UNCHANGED answers
  BY <1>1, <1>2, <1>3, <1>4 DEF PromiseInv, OnceInv, KindInv
<1>5. CASE phone.pending /\ ~phone'.pending /\ Answered(FALSE)
  <2>1. answers = <<>> /\ Sent = {} /\ screen.op # "none" /\ ~screen.second
    BY <1>5 DEF PromiseInv, OnceInv, KindInv
  <2>2. OnceInv'
    BY <1>1, <1>2, <1>5, <2>1, OneAnswer DEF OnceInv
  <2>3. KindInv'
    BY <1>1, <1>2, <1>5, <2>1 DEF PromiseInv, KindInv
  <2> QED BY <1>3, <2>2, <2>3 DEF PromiseInv
<1> QED BY <1>4, <1>5, CallbackEnds DEF PromiseInv

LEMMA OpBegins ==
  ASSUME TypeOK, PromiseInv, screen.op = "none",
         NEW kind \in OpKinds \ {"none"}, NEW to, NEW code, NEW fingerprint,
         Send(kind, to, code, fingerprint),
         screen'.op = kind, screen'.second = FALSE,
         UNCHANGED <<phone, answers>>
  PROVE  PromiseInv'
<1>1. Sent = {} /\ ~phone.pending /\ answers = <<>>
  BY DEF PromiseInv, OnceInv
<1>2. kind \in Awaited
  BY DEF OpKinds, Awaited
<1>3. PICK i \in DOMAIN calls' : Sent' = {i} /\ calls'[i].kind = kind
  BY <1>1, <1>2, SentAfterSend
<1>4. OnceInv'
  BY <1>1, <1>3 DEF OnceInv
<1>5. KindInv'
  BY <1>1, <1>3 DEF KindInv
<1> QED BY <1>4, <1>5 DEF PromiseInv

LEMMA OpStays ==
  ASSUME TypeOK, PromiseInv, screen'.op = screen.op,
         screen'.second = screen.second, UNCHANGED <<phone, answers>>,
         \/ UNCHANGED calls
         \/ \E kind \in {"cancel", "disconnect"} : Send(kind, None, 1, None)
  PROVE  PromiseInv'
<1>1. Sent' = Sent /\ \A i \in Sent : i \in DOMAIN calls' /\ calls'[i] = calls[i]
  BY SentSame, SentAfterSend DEF Sent, Awaited
<1>2. OnceInv'
  BY <1>1 DEF PromiseInv, OnceInv
<1>3. KindInv'
  BY <1>1 DEF PromiseInv, KindInv
<1> QED BY <1>2, <1>3 DEF PromiseInv

LEMMA IdleNotSecond ==
  ASSUME TypeOK, PromiseInv, screen.op = "none"
  PROVE  screen.second = FALSE
BY DEF TypeOK, Screen, PromiseInv, KindInv, Listing

LEMMA UserPromise ==
  ASSUME TypeOK, PromiseInv, User
  PROVE  PromiseInv'
<1>0. screen \in Screen
  BY DEF TypeOK
<1>1. ASSUME NEW l \in Laptops, ConnectLaptop(l)
      PROVE  PromiseInv'
  BY <1>1, OpBegins
  DEF ConnectLaptop, BeginConnect, QuietScreen, ClientAside, OpKinds
<1>2. ASSUME NEW l \in Laptops, ForgetSigner(l)
      PROVE  PromiseInv'
  BY <1>0, <1>2, OpBegins, IdleNotSecond
  DEF ForgetSigner, Idle, ClientAside, OpKinds, Screen
<1>3. CASE InstallFromLaptop
  BY <1>0, <1>3, OpBegins, IdleNotSecond
  DEF InstallFromLaptop, Idle, ClientAside, OpKinds, Screen
<1>4. ASSUME NEW kind \in {"refresh", "approve", "revoke"}, ChangeCatalog(kind)
      PROVE  PromiseInv'
  BY <1>0, <1>4, OpBegins, IdleNotSecond
  DEF ChangeCatalog, Idle, ClientAside, OpKinds, Screen
<1>5. CASE CancelLaptop
  BY <1>5, OpStays DEF CancelLaptop, ScreenOnly, ClientAside
<1>6. CASE DisconnectLaptop
  BY <1>6, OpStays, IdleNotSecond
  DEF DisconnectLaptop, Idle, EndedWith, QuietScreen, ScreenOnly, ClientAside
<1>7. CASE Background
  BY <1>0, <1>7, OpStays, IdleNotSecond
  DEF Background, EndedWith, QuietScreen, ScreenOnly, ClientAside, Screen
<1>8. CASE DisablePairing
  BY <1>0, <1>8, OpStays DEF DisablePairing, ScreenOnly, ClientAside, Screen
<1>9. CASE Foreground \/ StartScan \/ ReadCode \/ CloseScanner
  BY <1>9, OpStays DEF Foreground, StartScan, ReadCode, CloseScanner, ScreenOnly,
     ClientAside
<1> QED
  BY <1>1, <1>2, <1>3, <1>4, <1>5, <1>6, <1>7, <1>8, <1>9 DEF User

(* How an answer continues the operation: it ends, or asks for the saved   *)
(* signers.                                                                *)
LEMMA AnswerContinues ==
  ASSUME TypeOK, Settled
  PROVE  /\ Head(answers) \in Answer
         /\ \/ \E list \in {screen.list, screen.result, Head(answers).value} :
                 screen' = EndedWith(list) /\ UNCHANGED calls
            \/ /\ screen' = [screen EXCEPT !.second = TRUE,
                                           !.result = Head(answers).value]
               /\ Send("signers", None, 1, None)
               /\ Head(answers).ok /\ ~screen.second
               /\ screen.op \in Listing \cup {"forget"}
<1>1. Head(answers) \in Answer
  BY HeadTailProperties DEF Settled, TypeOK
<1>2. Continue(Head(answers))
  BY DEF Settled
<1>3. Head(answers).ok \in BOOLEAN /\ screen.second \in BOOLEAN
      /\ screen.op \in OpKinds
  BY <1>1 DEF Answer, TypeOK, Screen
<1>4. \A t : ShowIfLatest(t) => screen' = EndedWith(t)
                              \/ screen' = EndedWith(screen.list)
  BY DEF ShowIfLatest
<1> QED BY <1>1, <1>2, <1>3, <1>4 DEF Continue, Ended, OpKinds, Listing

LEMMA SettledPromise ==
  ASSUME TypeOK, PromiseInv, Settled \/ ScanSettled
  PROVE  PromiseInv'
<1>0. screen \in Screen
  BY DEF TypeOK
<1>1. CASE Settled
  <2>1. UNCHANGED phone /\ answers # <<>> /\ answers' = Tail(answers)
    BY <1>1 DEF Settled, ScreenOnly, ClientAside
  <2>2. Sent = {} /\ ~phone.pending /\ Len(answers) = 1
    BY <2>1 DEF PromiseInv, OnceInv
  <2>3. answers' = <<>>
    BY <2>1, <2>2, HeadTailProperties, EmptySeq DEF TypeOK
  <2>4. ASSUME NEW list, screen' = EndedWith(list), UNCHANGED calls
        PROVE  PromiseInv'
    <3>1. Sent' = {}
      BY <2>2, <2>4, SentSame
    <3> QED
      BY <2>1, <2>2, <2>3, <2>4, <3>1
      DEF PromiseInv, OnceInv, KindInv, EndedWith, QuietScreen
  <2>5. CASE /\ screen' = [screen EXCEPT !.second = TRUE,
                                         !.result = Head(answers).value]
             /\ Send("signers", None, 1, None)
             /\ screen.op \in Listing \cup {"forget"}
    <3>1. PICK i \in DOMAIN calls' : Sent' = {i} /\ calls'[i].kind = "signers"
      BY <2>2, <2>5, SentAfterSend DEF Awaited
    <3>2. screen'.op = screen.op /\ screen'.second = TRUE
      BY <1>0, <2>5 DEF Screen
    <3>3. OnceInv'
      BY <2>1, <2>2, <2>3, <2>5, <3>1, <3>2 DEF OnceInv, Listing
    <3>4. KindInv'
      BY <2>1, <2>2, <2>3, <2>5, <3>1, <3>2 DEF KindInv
    <3> QED BY <2>1, <3>3, <3>4 DEF PromiseInv
  <2> QED BY <1>1, <2>4, <2>5, AnswerContinues
<1>2. CASE ScanSettled
  <2>1. UNCHANGED <<phone, answers>>
    BY <1>2 DEF ScanSettled, ClientAside
  <2>2. CASE UNCHANGED <<screen, calls>>
    BY <2>1, <2>2, OpStays
  <2>3. ASSUME NEW l, NEW code, NEW fingerprint,
               BeginConnect(l, code, fingerprint, TRUE)
        PROVE  PromiseInv'
    BY <2>1, <2>3, OpBegins DEF BeginConnect, QuietScreen, OpKinds
  <2> QED BY <1>2, <2>2, <2>3 DEF ScanSettled
<1> QED BY <1>1, <1>2

LEMMA PromiseStep ==
  ASSUME TypeOK, AddressInv, PromiseInv, [Next]_vars
  PROVE  PromiseInv'
<1>1. CASE Network \/ Laptop \/ UNCHANGED vars
  <2>1. UNCHANGED <<calls, answers, phone, screen>>
    BY <1>1 DEF Network, Serve, Abort, Lose, Laptop, Restart, ReplaceFile,
       LaptopAside, vars
  <2> QED BY <2>1, OpStays
<1> QED
  BY <1>1, ClientCallPromise, CallbackPromise, UserPromise, SettledPromise
  DEF Next

LEMMA PromiseSettlesOnce ==
  ASSUME TypeOK, PromiseInv
  PROVE  SettledOnce
<1>1. {i \in DOMAIN calls : calls[i].kind \in Awaited} = Sent
  BY DEF Sent
<1>2. Cardinality({}) = 0 /\ \A i : Cardinality({i}) = 1
  BY FS_EmptySet, FS_Singleton
<1>3. answers = <<>> => Len(answers) = 0
  OBVIOUS
<1> DEFINE held == IF phone.pending THEN 1 ELSE 0
           one == IF screen.op = "none" THEN 0 ELSE 1
<1>4. SettledOnce <=> Cardinality(Sent) + held + Len(answers) = one
  BY <1>1 DEF SettledOnce
<1>5. /\ phone.pending => held = 1
      /\ ~phone.pending => held = 0
      /\ screen.op = "none" => one = 0
      /\ screen.op # "none" => one = 1
  OBVIOUS
<1> HIDE DEF held, one
<1>6. ASSUME NEW i \in DOMAIN calls, Sent = {i}
      PROVE  Cardinality(Sent) = 1
  BY <1>2, <1>6
<1>7. Sent = {} => Cardinality(Sent) = 0
  BY <1>2
<1> DEFINE sent == Cardinality(Sent)
           length == Len(answers)
<1>8. \/ sent = 0 /\ held = 0 /\ length = 0 /\ one = 0
      \/ sent = 1 /\ held = 0 /\ length = 0 /\ one = 1
      \/ sent = 0 /\ held = 1 /\ length = 0 /\ one = 1
      \/ sent = 0 /\ held = 0 /\ length = 1 /\ one = 1
  BY <1>3, <1>5, <1>6, <1>7 DEF PromiseInv, OnceInv
<1>9. sent + held + length = one
  <2> HIDE DEF sent, length
  <2> QED BY <1>8
<1> QED BY <1>4, <1>9, Zenon

-----------------------------------------------------------------------------
(* What the client knows of a laptop comes from the one it is connected    *)
(* to: its catalog, what it has received, and what it asked for.           *)

CatalogOK(p) ==
  p.baseURL # None =>
    {p.cache.by, p.offered.ticket.by, p.signingKey} \subseteq {None, p.baseURL}

DataOK(p) ==
  /\ ~p.pending => p.data = {}
  /\ \A t \in p.data : t.by = p.baseURL

RequestOK(t, l) ==
  /\ t.status = "sent" => t.to = l
  /\ t.reply # NoTicket => t.reply.by = l

ConnectionInv ==
  /\ CatalogOK(phone)
  /\ DataOK(phone)
  /\ phone.session # None => RequestOK(task[phone.session], phone.baseURL)

LEMMA ConnectionHelpers ==
  ASSUME NEW p \in Phone, CatalogOK(p)
  PROVE  /\ CatalogOK(Finished(p)) /\ DataOK(Finished(p))
         /\ CatalogOK(Finished(Unreached(p))) /\ DataOK(Finished(Unreached(p)))
         /\ CatalogOK(Finished(Forgotten(p))) /\ DataOK(Finished(Forgotten(p)))
         /\ DataOK(p) => /\ CatalogOK(Cancelled(p)) /\ DataOK(Cancelled(p))
                         /\ CatalogOK(Disconnected(p)) /\ DataOK(Disconnected(p))
<1>1. \A q \in Phone : CatalogOK(q) => CatalogOK(Finished(q)) /\ DataOK(Finished(q))
  BY DEF CatalogOK, DataOK, Finished, Phone
<1>2. \A q \in Phone : /\ CatalogOK(Unreached(q)) /\ Unreached(q) \in Phone
                       /\ CatalogOK(Forgotten(q)) /\ Forgotten(q) \in Phone
  <2>1. \A q \in Phone : CatalogOK(Unreached(q)) /\ Unreached(q).baseURL = None
    BY DEF CatalogOK, Unreached, Phone
  <2>2. \A q \in Phone : Forgotten(q).baseURL = None
    BY PhoneType, <2>1 DEF Forgotten, Phone
  <2> QED BY <2>1, <2>2, PhoneType DEF CatalogOK
<1>3. ASSUME DataOK(p)
      PROVE  CatalogOK(Cancelled(p)) /\ DataOK(Cancelled(p))
  <2>1. Finished(p) \in Phone /\ Finished(p).data = {}
    BY PhoneType DEF Finished, Phone
  <2>2. DataOK(Unreached(Finished(p)))
    BY <2>1 DEF DataOK, Unreached, Phone
  <2> QED BY <1>1, <1>2, <1>3, <2>1, <2>2 DEF Cancelled
<1>4. ASSUME DataOK(p)
      PROVE  CatalogOK(Disconnected(p)) /\ DataOK(Disconnected(p))
  <2> DEFINE c == Cancelled(p)
  <2>1. c \in Phone /\ c.data = {} /\ ~c.pending
    BY <1>4, PhoneType DEF Cancelled, Finished, Unreached, DataOK, Phone
  <2> HIDE DEF c
  <2>2. /\ Unreached(c) \in Phone /\ Unreached(c).baseURL = None
        /\ Unreached(c).data = {} /\ ~Unreached(c).pending
    BY <2>1, PhoneType DEF Unreached, Phone
  <2>3. Disconnected(p) = [Unreached(c) EXCEPT !.expected = None,
                             !.signingKey = None, !.cache = NoTicket]
    BY DEF Disconnected, c
  <2> QED BY <2>2, <2>3 DEF CatalogOK, DataOK, Phone
<1> QED BY <1>1, <1>2, <1>3, <1>4

LEMMA ListedConnection ==
  ASSUME TypeOK, NEW p \in Phone, NEW t \in Ticket, NEW trusted, CatalogOK(p),
         p.baseURL # None => t.by = p.baseURL
  PROVE  /\ CatalogOK(Listed(p, t, trusted))
         /\ CatalogOK([Listed(p, t, trusted) EXCEPT !.cache = t])
         /\ Listed(p, t, trusted).data = p.data
         /\ Listed(p, t, trusted).pending = p.pending
         /\ Listed(p, t, trusted).baseURL = p.baseURL
<1>1. Offer(t, trusted).ticket.by \in {None, t.by}
  BY DEF Offer, NoPin, NoTicket
<1> DEFINE o == Offer(t, trusted)
<1>2. Listed(p, t, trusted) = [p EXCEPT !.signingKey = t.by, !.offered = o]
  BY DEF Listed
<1> HIDE DEF o
<1>3. o.ticket.by \in {None, t.by}
  BY <1>1 DEF o
<1> QED BY <1>2, <1>3 DEF CatalogOK, Phone

LEMMA StartConnection ==
  ASSUME TypeOK, NEW p \in Phone, NEW state, Start(p, state), CatalogOK(p)
  PROVE  ConnectionInv'
<1>1. PICK s \in Sessions :
        /\ task' = [task EXCEPT ![s] = [FreeTask EXCEPT
                      !.status = "sent", !.to = p.baseURL,
                      !.code = p.pairingCode, !.state = state]]
        /\ phone' = [p EXCEPT !.session = s, !.pending = TRUE, !.data = {},
                              !.failed = FALSE]
  BY DEF Start
<1>2. CatalogOK(phone') /\ DataOK(phone') /\ phone'.session = s
      /\ phone'.baseURL = p.baseURL
  BY <1>1 DEF CatalogOK, DataOK, Phone
<1>3. task'[s].to = p.baseURL /\ task'[s].reply = NoTicket
  BY <1>1 DEF TypeOK, FreeTask
<1> QED BY <1>2, <1>3 DEF ConnectionInv, RequestOK

LEMMA ClientCallConnection ==
  ASSUME TypeOK, PhoneOK(phone), ConnectionInv, ClientCall
  PROVE  ConnectionInv'
<1>0. phone \in Phone /\ CatalogOK(phone) /\ DataOK(phone)
  BY DEF TypeOK, ConnectionInv
<1>1. CASE UNCHANGED <<phone, task>>
  BY <1>1 DEF ConnectionInv
<1>2. CASE ConnectCall
  <2>1. CASE phone.pending
    BY <1>1, <1>2, <2>1 DEF ConnectCall
  <2>2. CASE ~phone.pending
    <3> DEFINE d == Disconnected(phone)
               p == [d EXCEPT !.baseURL = Head(calls).to,
                              !.pairingCode = Head(calls).code,
                              !.expected = Head(calls).fingerprint]
    <3>1. Head(calls) \in Call
      BY <1>2, ServedType DEF ConnectCall
    <3>2. d \in Phone
      BY <1>0, PhoneType
    <3>3. d.cache = NoTicket /\ d.signingKey = None /\ d.offered = NoPin
      <4>1. Unreached(Cancelled(phone)) \in Phone
            /\ Unreached(Cancelled(phone)).offered = NoPin
        BY <1>0, PhoneType DEF Unreached, Phone
      <4> QED BY <4>1 DEF Disconnected, Phone
    <3>4. Start(p, FALSE)
      BY <1>2, <2>2 DEF ConnectCall
    <3> HIDE DEF d
    <3>5. p \in Phone
      BY <3>1, <3>2 DEF Phone, Call
    <3>6. CatalogOK(p)
      BY <3>2, <3>3 DEF CatalogOK, Phone, NoTicket, NoPin
    <3> HIDE DEF p
    <3> QED BY <3>4, <3>5, <3>6, StartConnection
  <2> QED BY <2>1, <2>2
<1>3. CASE DownloadCall
  <2> DEFINE p == [phone EXCEPT !.incoming = phone.offered]
  <2>1. CASE Start(p, TRUE)
    <3>1. p \in Phone /\ CatalogOK(p)
      BY <1>0 DEF Phone, CatalogOK
    <3> HIDE DEF p
    <3> QED BY <2>1, <3>1, StartConnection
  <2>2. CASE phone' = [phone EXCEPT !.incoming = NoPin] /\ UNCHANGED task
    BY <1>0, <2>2 DEF ConnectionInv, CatalogOK, DataOK, Phone
  <2> QED BY <1>1, <1>3, <2>1, <2>2 DEF DownloadCall
<1>4. CASE RefreshCall
  BY <1>0, <1>1, <1>4, StartConnection DEF RefreshCall
<1>5. CASE ApproveCall \/ RevokeCall
  <2>1. CASE UNCHANGED phone
    BY <1>1, <1>5, <2>1 DEF ApproveCall, RevokeCall
  <2>2. CASE phone' # phone
    <3>1. PICK trusted : phone' = Listed(phone, phone.cache, trusted)
      BY <1>5, <2>2 DEF ApproveCall, RevokeCall
    <3>2. UNCHANGED task /\ phone.cache # NoTicket
      BY <1>5, <2>2 DEF ApproveCall, Approvable, RevokeCall
    <3>3. phone.cache \in Ticket /\ phone.cache.by # None
      BY <1>0, <3>2, LaptopAssumption, TicketType DEF Phone, Ticket
    <3>4. phone.baseURL # None => phone.cache.by = phone.baseURL
      BY <1>0, <3>3 DEF CatalogOK
    <3>5. /\ CatalogOK(phone') /\ phone'.data = phone.data
          /\ phone'.pending = phone.pending /\ phone'.baseURL = phone.baseURL
      BY <1>0, <3>1, <3>3, <3>4, ListedConnection
    <3>6. phone'.session = phone.session
      BY <1>0, <3>1 DEF Listed, Phone
    <3> QED BY <3>2, <3>5, <3>6 DEF ConnectionInv, DataOK
  <2> QED BY <2>1, <2>2
<1>6. CASE ForgetCall \/ SignersCall
  BY <1>1, <1>6 DEF ForgetCall, SignersCall
<1>7. CASE CancelCall \/ DisconnectCall
  <2>1. CatalogOK(phone') /\ DataOK(phone') /\ UNCHANGED task
    BY <1>0, <1>7, ConnectionHelpers DEF CancelCall, DisconnectCall
  <2>2. Head(calls).kind \notin Awaited
    BY <1>7 DEF CancelCall, DisconnectCall, Calling, Awaited
  <2>3. phone'.session = None
    BY <2>2, StoppingCall DEF PhoneOK
  <2> QED BY <2>1, <2>3 DEF ConnectionInv
<1> QED
  BY <1>2, <1>3, <1>4, <1>5, <1>6, <1>7 DEF ClientCall

LEMMA FinishedConnection ==
  ASSUME CatalogOK(phone'), DataOK(phone'), PhoneOK(phone'), ~phone'.pending
  PROVE  ConnectionInv'
BY DEF ConnectionInv, PhoneOK

LEMMA CallbackConnection ==
  ASSUME TypeOK, PhoneOK(phone), ConnectionInv, Callback
  PROVE  ConnectionInv'
<1>0. phone \in Phone /\ CatalogOK(phone) /\ DataOK(phone)
  BY DEF TypeOK, ConnectionInv
<1>1. PICK s \in Sessions : ReceiveCatalog(s) \/ FileArrives(s) \/ Complete(s)
  BY DEF Callback
<1>2. PhoneOK(phone')
  BY CallbackEnds
<1>3. CASE UNCHANGED phone /\ phone.session # s
  <2>1. phone.session # None => task'[phone.session] = task[phone.session]
    BY <1>0, <1>1, <1>3
    DEF ReceiveCatalog, FileArrives, Complete, At, TypeOK, Phone
  <2> QED BY <1>3, <2>1 DEF ConnectionInv
<1>4. CASE ReceiveCatalog(s) /\ phone.session = s
  <2>1. /\ phone' = [phone EXCEPT
             !.failed = task[s].reply = NoTicket,
             !.data = @ \cup ({task[s].reply} \ {NoTicket})]
        /\ task[s].reply # NoTicket => task[s].reply.by = phone.baseURL
        /\ phone.pending
    BY <1>4, LaptopAssumption DEF ReceiveCatalog, ConnectionInv, RequestOK,
       PhoneOK
  <2>2. CatalogOK(phone') /\ DataOK(phone')
    BY <1>0, <2>1 DEF CatalogOK, DataOK, Phone
  <2>3. task'[s].status = "done" /\ task'[s].reply = NoTicket
    BY <1>4 DEF ReceiveCatalog, At, TypeOK, FreeTask
  <2>4. phone'.session = s
    BY <1>0, <1>4, <2>1 DEF Phone
  <2> QED BY <2>2, <2>3, <2>4 DEF ConnectionInv, RequestOK
<1>5. CASE FileArrives(s) /\ phone.session = s
  <2>1. CASE phone.incoming # NoPin
    <3>1. phone' = Finished(phone)
      BY <1>5, <2>1 DEF FileArrives
    <3> QED
      BY <1>0, <1>2, <3>1, ConnectionHelpers, PhoneHelpers, FinishedConnection
  <2>2. CASE phone.incoming = NoPin
    <3>1. UNCHANGED phone
      BY <1>5, <2>2 DEF FileArrives
    <3>2. task'[s].status = "done" /\ task'[s].reply = NoTicket
      BY <1>5 DEF FileArrives, At, TypeOK, FreeTask
    <3> QED BY <1>5, <3>1, <3>2 DEF ConnectionInv, RequestOK
  <2> QED BY <2>1, <2>2
<1>6. CASE Complete(s) /\ phone.session = s
  <2> DEFINE lost == task[s].status = "lost"
  <2>1. Completed(lost)
    BY <1>6 DEF Complete
  <2>2. /\ CatalogOK(phone') /\ DataOK(phone') /\ ~phone'.pending
    <3>1. CASE \/ phone' = Finished(phone)
               \/ phone' = Finished(Unreached(phone))
               \/ phone' = Finished(Forgotten(phone))
      BY <1>0, <3>1, ConnectionHelpers, PhoneHelpers
    <3>2. ASSUME NEW t \in phone.data,
                 phone' = Finished([Listed(phone, t, store.trusted)
                                      EXCEPT !.cache = t])
          PROVE  CatalogOK(phone') /\ DataOK(phone') /\ ~phone'.pending
      <4> DEFINE p == [Listed(phone, t, store.trusted) EXCEPT !.cache = t]
      <4>1. t \in Ticket /\ t.by = phone.baseURL
        BY <1>0 DEF Phone, DataOK
      <4>2. p \in Phone
        BY <1>0, <4>1, ListedType DEF Phone, TicketOrNone
      <4>3. CatalogOK(p)
        BY <1>0, <4>1, ListedConnection
      <4> HIDE DEF p
      <4>4. phone' = Finished(p)
        BY <3>2 DEF p
      <4> QED BY <4>2, <4>3, <4>4, ConnectionHelpers, PhoneHelpers
    <3>3. \/ phone' = Finished(phone)
          \/ phone' = Finished(Unreached(phone))
          \/ phone' = Finished(Forgotten(phone))
          \/ \E t \in phone.data :
               phone' = Finished([Listed(phone, t, store.trusted)
                                    EXCEPT !.cache = t])
      <4>1. CASE phone.failed
        BY <2>1, <4>1 DEF Completed
      <4>2. CASE ~phone.failed /\ lost
        BY <2>1, <4>2 DEF Completed
      <4>3. CASE ~phone.failed /\ ~lost /\ phone.incoming # NoPin
        BY <2>1, <4>3 DEF Completed
      <4>4. CASE ~phone.failed /\ ~lost /\ phone.incoming = NoPin
        <5>1. CASE \E t \in phone.data : phone.data = {t} /\ Expected(t)
          <6>1. PICK t \in phone.data : t = CHOOSE u \in phone.data : TRUE
            BY <5>1
          <6> QED BY <2>1, <4>4, <5>1, <6>1 DEF Completed
        <5>2. CASE ~\E t \in phone.data : phone.data = {t} /\ Expected(t)
          BY <2>1, <4>4, <5>2 DEF Completed
        <5> QED BY <5>1, <5>2
      <4> QED BY <4>1, <4>2, <4>3, <4>4
    <3> QED BY <3>1, <3>2, <3>3
  <2> QED BY <1>2, <2>2, FinishedConnection
<1> QED
  BY <1>1, <1>3, <1>4, <1>5, <1>6 DEF ReceiveCatalog, FileArrives, Complete

LEMMA NetworkConnection ==
  ASSUME TypeOK, AddressInv, ConnectionInv, Network
  PROVE  ConnectionInv'
<1>1. PICK s \in Sessions : Serve(s) \/ Abort(s) \/ Lose(s)
  BY DEF Network
<1>2. UNCHANGED phone
  BY <1>1 DEF Serve, Abort, Lose, LaptopAside
<1>3. \A r \in Sessions \ {s} : task'[r] = task[r]
  BY <1>1 DEF Serve, Abort, Lose, At, TypeOK
<1>4. RequestOK(task[s], phone.baseURL) => RequestOK(task'[s], phone.baseURL)
  <2>1. CASE Serve(s)
    <3> DEFINE reply == Reply(task[s])
               state == task[s].state
    <3>1. task[s].status = "sent"
          /\ task' = [task EXCEPT ![s] = [FreeTask EXCEPT
               !.status = "answered", !.state = state, !.reply = reply]]
      BY <2>1 DEF Serve
    <3>2. reply # NoTicket => reply.by = task[s].to
      BY DEF Reply
    <3> HIDE DEF reply, state
    <3>3. task'[s].status = "answered" /\ task'[s].reply = reply
      BY <3>1 DEF TypeOK, FreeTask
    <3> QED BY <3>1, <3>2, <3>3 DEF RequestOK
  <2>2. CASE Abort(s) \/ Lose(s)
    <3>1. task'[s].status = "lost" /\ task'[s].reply = NoTicket
      BY <2>2 DEF Abort, Lose, At, TypeOK, FreeTask
    <3> QED BY <3>1 DEF RequestOK
  <2> QED BY <1>1, <2>1, <2>2
<1>5. phone.session # None => phone.session \in Sessions
  BY DEF TypeOK, Phone
<1> QED BY <1>2, <1>3, <1>4, <1>5 DEF ConnectionInv

LEMMA ConnectionStep ==
  ASSUME TypeOK, AddressInv, PromiseInv, ConnectionInv, [Next]_vars
  PROVE  ConnectionInv'
<1>1. CASE Laptop \/ User \/ Settled \/ ScanSettled \/ UNCHANGED vars
  <2>1. UNCHANGED <<phone, task>>
    BY <1>1 DEF User, Settled, ScanSettled, ConnectLaptop, ForgetSigner,
       InstallFromLaptop, CancelLaptop, DisconnectLaptop, ChangeCatalog,
       Background, Foreground, DisablePairing, StartScan, ReadCode,
       CloseScanner, ScreenOnly, ClientAside, Laptop, Restart, ReplaceFile,
       LaptopAside, vars
  <2> QED BY <2>1 DEF ConnectionInv
<1> QED
  BY <1>1, ClientCallConnection, CallbackConnection, NetworkConnection
  DEF Next, PromiseInv

LEMMA InitPromise ==
  ASSUME Init
  PROVE  PromiseInv /\ ConnectionInv
<1>1. PromiseInv
  BY LaptopAssumption DEF Init, PromiseInv, OnceInv, KindInv, PhoneOK, Sent,
     IdlePhone, QuietScreen
<1>2. ConnectionInv
  BY DEF Init, ConnectionInv, CatalogOK, DataOK, IdlePhone, NoTicket, NoPin
<1> QED BY <1>1, <1>2

(* The inductive invariant.                                                *)
LaptopInv == TypeOK /\ AddressInv /\ PromiseInv /\ ConnectionInv

LEMMA LaptopStep ==
  LaptopInv /\ [Next]_vars => LaptopInv'
BY TypeStep, AddressStep, PromiseStep, ConnectionStep DEF LaptopInv

THEOREM LaptopInvariant == Spec => []LaptopInv
<1>1. Init => LaptopInv
  BY InitTyped, InitPromise DEF LaptopInv
<1> QED BY <1>1, LaptopStep, PTL DEF Spec

(* A promise of the screen is settled exactly once, whatever cancels,      *)
(* disconnects, fails or is late (finish, cancel, disconnect), and nothing *)
(* of an abandoned session or of another laptop is taken for the present   *)
(* connection's.                                                           *)
THEOREM TransferHolds == Spec => []TransferInv
<1>1. LaptopInv => TransferInv
  BY PromiseSettlesOnce
  DEF LaptopInv, TransferInv, ConnectionInv, CatalogOK, CatalogOfConnection
<1> QED BY <1>1, LaptopInvariant, PTL

-----------------------------------------------------------------------------
(* What each side leaves alone.                                            *)

LEMMA ClientFrame ==
  /\ ClientCall \/ Callback \/ Network \/ Laptop =>
       UNCHANGED <<screen, pairing, foreground>>
  /\ Callback \/ Network \/ Laptop => UNCHANGED calls
  /\ Network \/ Laptop => UNCHANGED <<phone, store, answers>>
<1>1. ClientCall => UNCHANGED <<screen, pairing, foreground>>
  BY CallServed DEF ScreenAside
<1>2. Callback => UNCHANGED <<screen, pairing, foreground, calls>>
  BY DEF Callback, ReceiveCatalog, FileArrives, Complete, CallbackAside
<1>3. Network \/ Laptop =>
        UNCHANGED <<screen, pairing, foreground, calls, phone, store, answers>>
  BY DEF Network, Serve, Abort, Lose, Laptop, Restart, ReplaceFile, LaptopAside
<1> QED BY <1>1, <1>2, <1>3

LEMMA ScreenFrame ==
  /\ User \/ Settled \/ ScanSettled => UNCHANGED <<laptop, task, phone, store>>
  /\ User \/ ScanSettled => UNCHANGED answers
BY DEF User, Settled, ScanSettled, ConnectLaptop, ForgetSigner,
   InstallFromLaptop, CancelLaptop, DisconnectLaptop, ChangeCatalog, Background,
   Foreground, DisablePairing, StartScan, ReadCode, CloseScanner, ScreenOnly,
   ClientAside

-----------------------------------------------------------------------------
(* The scan button is never stuck.                                         *)

CurrentScan == \E i \in DOMAIN pairing.scans : pairing.scans[i].current

LEMMA ScansFacts ==
  ASSUME TypeOK
  PROVE  /\ pairing.scans \in Seq(Scan)
         /\ DOMAIN pairing.scans = 1 .. Len(pairing.scans)
         /\ Len(pairing.scans) \in Nat
         /\ \A i \in DOMAIN pairing.scans : pairing.scans[i] \in Scan
         /\ pairing.scans # <<>> =>
              /\ Len(pairing.scans) > 0
              /\ Head(pairing.scans) = pairing.scans[1]
              /\ DOMAIN Tail(pairing.scans) = 1 .. Len(pairing.scans) - 1
              /\ \A i \in 1 .. Len(pairing.scans) - 1 :
                   Tail(pairing.scans)[i] = pairing.scans[i + 1]
<1>1. pairing.scans \in Seq(Scan)
  BY DEF TypeOK
<1>2. DOMAIN pairing.scans = 1 .. Len(pairing.scans) /\ Len(pairing.scans) \in Nat
      /\ \A i \in DOMAIN pairing.scans : pairing.scans[i] \in Scan
  BY <1>1, LenProperties, ElementOfSeq
<1>3. ASSUME pairing.scans # <<>>
      PROVE  /\ Len(pairing.scans) > 0
             /\ Head(pairing.scans) = pairing.scans[1]
             /\ DOMAIN Tail(pairing.scans) = 1 .. Len(pairing.scans) - 1
             /\ \A i \in 1 .. Len(pairing.scans) - 1 :
                  Tail(pairing.scans)[i] = pairing.scans[i + 1]
  <2>1. Tail(pairing.scans) \in Seq(Scan)
        /\ Len(Tail(pairing.scans)) = Len(pairing.scans) - 1
        /\ \A i \in 1 .. Len(Tail(pairing.scans)) :
             Tail(pairing.scans)[i] = pairing.scans[i + 1]
    BY <1>1, <1>3, HeadTailProperties
  <2>2. Len(pairing.scans) > 0
    BY <1>1, <1>2, <1>3, EmptySeq
  <2> QED BY <1>1, <2>1, <2>2, LenProperties
<1> QED BY <1>1, <1>2, <1>3

LEMMA UserScan ==
  ASSUME TypeOK, ScanNotStuck, User
  PROVE  ScanNotStuck'
<1>0. /\ screen \in Screen
      /\ pairing \in [scanActive : BOOLEAN, scans : Seq(Scan)]
  BY DEF TypeOK
<1>1. CASE UNCHANGED pairing /\ screen.op = "none"
  BY <1>1 DEF ScanNotStuck
<1>2. CASE UNCHANGED <<pairing, screen>>
  BY <1>2 DEF ScanNotStuck
<1>3. CASE pairing' = Stopped(pairing)
  BY <1>0, <1>3 DEF ScanNotStuck, Stopped
<1>4. CASE StartScan
  <2> DEFINE scan == [current |-> TRUE, view |-> "open", from |-> None,
                      code |-> 1]
  <2>1. pairing'.scans = Append(pairing.scans, scan)
    BY <1>0, <1>4 DEF StartScan
  <2>2. scan \in Scan /\ scan.current
    BY FirstCode DEF Scan
  <2> HIDE DEF scan
  <2>3. Append(pairing.scans, scan) \in Seq(Scan)
        /\ Len(Append(pairing.scans, scan)) = Len(pairing.scans) + 1
        /\ Append(pairing.scans, scan)[Len(pairing.scans) + 1] = scan
    BY <2>2, ScansFacts, AppendProperties
  <2>4. Len(pairing.scans) + 1 \in DOMAIN pairing'.scans
    BY <2>1, <2>3, ScansFacts, LenProperties
  <2> QED BY <2>1, <2>2, <2>3, <2>4 DEF ScanNotStuck
<1>5. CASE ReadCode \/ CloseScanner
  <2>1. /\ UNCHANGED screen
        /\ pairing'.scanActive = pairing.scanActive
        /\ DOMAIN pairing'.scans = DOMAIN pairing.scans
        /\ \A i \in DOMAIN pairing.scans :
             pairing'.scans[i].current = pairing.scans[i].current
    <3>1. CASE CloseScanner
      BY <1>0, <3>1, ScansFacts DEF CloseScanner, Scan
    <3>2. CASE ReadCode
      <4>1. PICK i \in DOMAIN pairing.scans, l \in Laptops :
              pairing' = [pairing EXCEPT !.scans[i] =
                [@ EXCEPT !.view = "read", !.from = l,
                          !.code = laptop[l].code]]
        BY <3>2 DEF ReadCode
      <4> DEFINE code == laptop[l].code
      <4>2. pairing' = [pairing EXCEPT !.scans[i] =
              [@ EXCEPT !.view = "read", !.from = l, !.code = code]]
        BY <4>1
      <4> HIDE DEF code
      <4> QED BY <1>0, <3>2, <4>2, ScansFacts DEF ReadCode, Scan
    <3> QED BY <1>5, <3>1, <3>2
  <2> QED BY <2>1 DEF ScanNotStuck
<1>6. CASE Background \/ DisablePairing
  BY <1>3, <1>6 DEF Background, DisablePairing
<1>7. CASE \/ \E l \in Laptops : ConnectLaptop(l) \/ ForgetSigner(l)
           \/ InstallFromLaptop \/ DisconnectLaptop
           \/ \E kind \in {"refresh", "approve", "revoke"} : ChangeCatalog(kind)
  BY <1>1, <1>7 DEF ConnectLaptop, ForgetSigner, InstallFromLaptop,
     DisconnectLaptop, ChangeCatalog, Idle
<1>8. CASE CancelLaptop \/ Foreground
  BY <1>2, <1>8 DEF CancelLaptop, Foreground
<1> QED BY <1>4, <1>5, <1>6, <1>7, <1>8 DEF User

LEMMA SettledScan ==
  ASSUME TypeOK, ScanNotStuck, Settled \/ ScanSettled
  PROVE  ScanNotStuck'
<1>0. /\ screen \in Screen
      /\ pairing \in [scanActive : BOOLEAN, scans : Seq(Scan)]
  BY DEF TypeOK
<1>1. CASE Settled
  <2>1. pairing'.scans = pairing.scans
        /\ (pairing'.scanActive => pairing.scanActive /\ ~screen.scanned)
    BY <1>0, <1>1 DEF Settled, ScanEnds
  <2> QED BY <2>1 DEF ScanNotStuck
<1>2. CASE ScanSettled
  <2> DEFINE scan == Head(pairing.scans)
             begins == Connects(scan) /\ screen.op = "none" /\ ops < MaxOps
  <2>1. /\ pairing.scans # <<>>
        /\ pairing'.scans = Tail(pairing.scans)
        /\ pairing'.scanActive = IF scan.current THEN begins
                                 ELSE pairing.scanActive
    BY <1>0, <1>2 DEF ScanSettled
  <2>2. CASE scan.current
    <3>1. SUFFICES ASSUME begins
                   PROVE  ScanNotStuck'
      BY <2>1, <2>2 DEF ScanNotStuck
    <3>2. BeginConnect(scan.from, scan.code, scan.from, TRUE)
      BY <1>2, <3>1 DEF ScanSettled
    <3>3. screen'.op = "connect" /\ screen'.scanned
      BY <3>2 DEF BeginConnect, QuietScreen
    <3> QED BY <3>3 DEF ScanNotStuck
  <2>3. CASE ~scan.current
    <3>1. UNCHANGED screen
      BY <1>2, <2>3 DEF ScanSettled, Connects
    <3>2. CurrentScan => CurrentScan'
      <4>1. SUFFICES ASSUME NEW i \in DOMAIN pairing.scans,
                            pairing.scans[i].current
                     PROVE  CurrentScan'
        BY DEF CurrentScan
      <4>2. i # 1
        BY <2>1, <2>3, <4>1, ScansFacts
      <4>3. i - 1 \in DOMAIN pairing'.scans
            /\ pairing'.scans[i - 1] = pairing.scans[i]
        BY <2>1, <4>2, ScansFacts
      <4> QED BY <4>1, <4>3 DEF CurrentScan
    <3> QED BY <2>1, <2>3, <3>1, <3>2 DEF ScanNotStuck, CurrentScan
  <2> QED BY <2>2, <2>3
<1> QED BY <1>1, <1>2

(* The scan button is enabled again whatever becomes of the scan           *)
(* (useLaptopPairing): no cancel, background or late connection leaves it  *)
(* disabled with nothing to enable it.                                     *)
THEOREM ScanButtonReturns == Spec => []ScanNotStuck
<1>1. Init => ScanNotStuck
  BY DEF Init, ScanNotStuck
<1>2. TypeOK /\ ScanNotStuck /\ [Next]_vars => ScanNotStuck'
  <2> SUFFICES ASSUME TypeOK, ScanNotStuck, [Next]_vars
               PROVE  ScanNotStuck'
    OBVIOUS
  <2>1. CASE UNCHANGED <<screen, pairing>>
    BY <2>1 DEF ScanNotStuck
  <2> QED
    BY <2>1, ClientFrame, UserScan, SettledScan DEF Next, vars
<1>3. LaptopInv => TypeOK
  BY DEF LaptopInv
<1> QED BY <1>1, <1>2, <1>3, LaptopInvariant, PTL DEF Spec

-----------------------------------------------------------------------------
(* In the background the client is disconnected, or will be: a disconnect  *)
(* is on its way and no connect follows it.                                *)

Off(p) ==
  /\ p.session = None /\ p.baseURL = None /\ p.offered = NoPin
  /\ p.cache = NoTicket /\ p.expected = None

OffAfter(n) ==
  /\ IF n = 0 THEN Off(phone) ELSE calls[n].kind = "disconnect"
  /\ \A j \in n + 1 .. Len(calls) : calls[j].kind # "connect"

BackgroundInv ==
  ~foreground =>
    /\ ~CurrentScan
    /\ screen.list = NoTicket
    /\ screen.op # "none" => ~screen.latest
    /\ \E n \in 0 .. Len(calls) : OffAfter(n)

LEMMA OffStays ==
  ASSUME TypeOK, PhoneOK(phone), Off(phone),
         (ClientCall /\ Head(calls).kind # "connect") \/ Callback
  PROVE  Off(phone')
<1>0. phone \in Phone /\ ~phone.pending
  BY DEF TypeOK, PhoneOK, Off
<1>1. CASE ClientCall /\ Head(calls).kind # "connect"
  <2>1. ~ConnectCall
    BY <1>1 DEF ConnectCall, Calling
  <2>2. CASE DownloadCall
    BY <1>0, <2>2 DEF DownloadCall, Off, Phone
  <2>3. CASE RefreshCall \/ ApproveCall \/ RevokeCall \/ ForgetCall \/ SignersCall
    BY <1>0, <2>3 DEF RefreshCall, ApproveCall, Approvable, RevokeCall,
       ForgetCall, SignersCall, Off
  <2>4. CASE CancelCall
    BY <1>0, <2>4 DEF CancelCall, Cancelled
  <2>5. CASE DisconnectCall
    BY <1>0, <2>5 DEF DisconnectCall, Disconnected, Cancelled, Unreached, Off,
       Phone
  <2> QED BY <1>1, <2>1, <2>2, <2>3, <2>4, <2>5 DEF ClientCall
<1>2. CASE Callback
  <2>1. PICK s \in Sessions :
          ReceiveCatalog(s) \/ FileArrives(s) \/ Complete(s)
    BY <1>2 DEF Callback
  <2>2. phone.session # s
    BY LaptopAssumption DEF Off
  <2> QED BY <2>1, <2>2 DEF ReceiveCatalog, FileArrives, Complete
<1> QED BY <1>1, <1>2

LEMMA DisconnectedOff ==
  ASSUME TypeOK, PhoneOK(phone)
  PROVE  Off(Disconnected(phone))
<1> DEFINE c == Cancelled(phone)
<1>1. c \in Phone /\ PhoneOK(c) /\ ~c.pending
  BY PhoneType, PhoneHelpers DEF TypeOK
<1>2. c.session = None
  BY <1>1 DEF PhoneOK
<1> HIDE DEF c
<1>3. Unreached(c) \in Phone /\ Unreached(c).baseURL = None
      /\ Unreached(c).offered = NoPin /\ Unreached(c).session = None
  <2>1. Unreached(c) \in Phone
    BY <1>1, PhoneType
  <2> QED BY <1>1, <1>2, <2>1 DEF Unreached, Phone
<1>4. Disconnected(phone) = [Unreached(c) EXCEPT !.expected = None,
                               !.signingKey = None, !.cache = NoTicket]
  BY DEF Disconnected, c
<1> QED BY <1>3, <1>4 DEF Off, Phone

LEMMA ClientCallBackground ==
  ASSUME TypeOK, PhoneOK(phone), BackgroundInv, ClientCall
  PROVE  BackgroundInv'
<1>1. UNCHANGED <<screen, pairing, foreground>> /\ calls # <<>> /\ Served
  BY ClientFrame, CallServed
<1>2. CASE foreground
  BY <1>1, <1>2 DEF BackgroundInv
<1>3. ASSUME NEW n \in 0 .. Len(calls), OffAfter(n)
      PROVE  \E m \in 0 .. Len(calls') : OffAfter(m)'
  <2>1. /\ Len(calls) \in Nat \ {0} /\ Len(calls') = Len(calls) - 1
        /\ \A i \in 1 .. Len(calls) - 1 : calls'[i] = calls[i + 1]
        /\ Head(calls) = calls[1]
    BY <1>1, ServedQueue
  <2>2. CASE n = 0
    <3>1. Head(calls).kind # "connect" /\ Off(phone)
      BY <1>3, <2>1, <2>2 DEF OffAfter
    <3>2. Off(phone')
      BY <3>1, OffStays
    <3>3. \A j \in 1 .. Len(calls') : calls'[j].kind # "connect"
      BY <1>3, <2>1, <2>2 DEF OffAfter
    <3>4. OffAfter(0)'
      BY <3>2, <3>3 DEF OffAfter
    <3> QED BY <2>1, <3>4
  <2>3. CASE n = 1
    <3>0. Head(calls).kind = "disconnect"
      BY <1>3, <2>1, <2>3 DEF OffAfter
    <3>1. DisconnectCall
      BY <3>0 DEF ClientCall, ConnectCall, DownloadCall,
         RefreshCall, ApproveCall, RevokeCall, ForgetCall, SignersCall,
         CancelCall, Calling
    <3>2. Off(phone')
      BY <3>1, DisconnectedOff DEF DisconnectCall
    <3>3. \A j \in 1 .. Len(calls') : calls'[j].kind # "connect"
      BY <1>3, <2>1, <2>3 DEF OffAfter
    <3>4. OffAfter(0)'
      BY <3>2, <3>3 DEF OffAfter
    <3> QED BY <2>1, <3>4
  <2>4. CASE n > 1
    <3> DEFINE m == n - 1
    <3>1. m \in 1 .. Len(calls') /\ calls'[m].kind = "disconnect"
      BY <1>3, <2>1, <2>4 DEF OffAfter
    <3>2. \A j \in m + 1 .. Len(calls') : calls'[j].kind # "connect"
      BY <1>3, <2>1, <2>4 DEF OffAfter
    <3> HIDE DEF m
    <3>3. ASSUME NEW k, k = m PROVE OffAfter(k)'
      BY <3>1, <3>2, <3>3 DEF OffAfter
    <3> QED BY <2>1, <3>1, <3>3
  <2> QED BY <2>2, <2>3, <2>4
<1>4. CurrentScan' = CurrentScan
  BY <1>1 DEF CurrentScan
<1> QED BY <1>1, <1>2, <1>3, <1>4 DEF BackgroundInv

LEMMA LaterCallsBackground ==
  ASSUME TypeOK, NEW n \in 0 .. Len(calls), OffAfter(n), UNCHANGED phone,
         \/ UNCHANGED calls
         \/ \E kind \in CallKinds \ {"connect"} : Send(kind, None, 1, None)
  PROVE  \E m \in 0 .. Len(calls') : OffAfter(m)'
<1>1. CASE UNCHANGED calls
  BY <1>1 DEF OffAfter
<1>2. ASSUME NEW kind \in CallKinds \ {"connect"}, Send(kind, None, 1, None)
      PROVE  \E m \in 0 .. Len(calls') : OffAfter(m)'
  <2>1. /\ Len(calls) \in Nat /\ Len(calls') = Len(calls) + 1
        /\ \A i \in 1 .. Len(calls) : calls'[i] = calls[i]
        /\ calls'[Len(calls) + 1] = Message(kind, None, 1, None)
    BY <1>2, SendQueue
  <2>2. calls'[Len(calls) + 1].kind # "connect"
    BY <2>1 DEF Message
  <2>3. \A j \in n + 1 .. Len(calls') : calls'[j].kind # "connect"
    BY <2>1, <2>2 DEF OffAfter
  <2>4. IF n = 0 THEN Off(phone') ELSE calls'[n].kind = "disconnect"
    BY <2>1 DEF OffAfter
  <2>5. OffAfter(n)'
    BY <2>3, <2>4 DEF OffAfter
  <2> QED BY <2>1, <2>5
<1> QED BY <1>1, <1>2

LEMMA ScreenBackground ==
  ASSUME TypeOK, BackgroundInv, User \/ Settled \/ ScanSettled
  PROVE  BackgroundInv'
<1>0. screen \in Screen /\ UNCHANGED phone
  BY ScreenFrame DEF TypeOK
<1>1. CASE foreground'
  BY <1>1 DEF BackgroundInv
<1>2. CASE ~foreground' /\ Background
  <2>1. pairing' = Stopped(pairing)
    BY <1>2 DEF Background
  <2>2. ~CurrentScan'
    BY <2>1, ScansFacts DEF CurrentScan, Stopped, Outdated, TypeOK, Scan
  <2>3. screen'.list = NoTicket /\ (screen'.op # "none" => ~screen'.latest)
    BY <1>0, <1>2 DEF Background, EndedWith, QuietScreen, Screen
  <2>4. /\ Len(calls) \in Nat /\ Len(calls') = Len(calls) + 1
        /\ calls'[Len(calls) + 1] = Message("disconnect", None, 1, None)
    BY <1>2, SendQueue DEF Background
  <2>5. ASSUME NEW k, k = Len(calls) + 1 PROVE OffAfter(k)'
    BY <2>4, <2>5 DEF OffAfter, Message
  <2> QED BY <2>2, <2>3, <2>4, <2>5 DEF BackgroundInv
<1>3. CASE ~foreground' /\ ~Background
  <2>1. ~foreground /\ (Settled \/ ScanSettled)
    <3>1. User /\ ~Background => foreground'
      <4> DEFINE stays == foreground = TRUE /\ foreground' = foreground
      <4>0. foreground \in BOOLEAN
        BY DEF TypeOK
      <4>1. ASSUME NEW l \in Laptops, ConnectLaptop(l) \/ ForgetSigner(l)
            PROVE  stays
        BY <4>0, <4>1 DEF ConnectLaptop, ForgetSigner, Idle
      <4>2. ASSUME NEW kind \in {"refresh", "approve", "revoke"},
                   ChangeCatalog(kind)
            PROVE  stays
        BY <4>0, <4>2 DEF ChangeCatalog, Idle
      <4>3. InstallFromLaptop \/ CancelLaptop \/ DisconnectLaptop => stays
        BY <4>0 DEF InstallFromLaptop, CancelLaptop, DisconnectLaptop, Idle,
           ScreenOnly
      <4>4. DisablePairing \/ StartScan \/ ReadCode \/ CloseScanner => stays
        BY <4>0 DEF DisablePairing, StartScan, ReadCode, CloseScanner
      <4>5. Foreground => foreground' = TRUE
        BY DEF Foreground
      <4>6. User /\ ~Background => stays \/ foreground' = TRUE
        <5> HIDE DEF stays
        <5> QED BY <4>1, <4>2, <4>3, <4>4, <4>5 DEF User
      <4> QED BY <4>6
    <3>2. Settled \/ ScanSettled => foreground' = foreground
      BY DEF Settled, ScanSettled
    <3> QED BY <1>3, <3>1, <3>2
  <2>2. /\ ~CurrentScan /\ screen.list = NoTicket
        /\ screen.op # "none" => ~screen.latest
        /\ \E n \in 0 .. Len(calls) : OffAfter(n)
    BY <2>1 DEF BackgroundInv
  <2>3. CASE Settled
    <3>1. pairing'.scans = pairing.scans
      BY <2>3 DEF Settled, ScanEnds, TypeOK
    <3>2. ~CurrentScan'
      BY <2>2, <3>1 DEF CurrentScan
    <3>3. /\ screen'.list = NoTicket
          /\ screen'.op # "none" => ~screen'.latest
          /\ \/ UNCHANGED calls
             \/ Send("signers", None, 1, None)
      <4> DEFINE answer == Head(answers)
      <4>1. Continue(answer) /\ answer \in Answer
        BY <2>3, AnswerContinues DEF Settled
      <4>2. answer.ok \in BOOLEAN /\ screen.second \in BOOLEAN
            /\ screen.op \in OpKinds
        BY <1>0, <4>1 DEF Answer, Screen
      <4> HIDE DEF answer
      <4>3. CASE screen' = EndedWith(NoTicket) /\ UNCHANGED calls
        BY <4>3 DEF EndedWith, QuietScreen
      <4>4. CASE ~answer.ok \/ screen.op \in {"none", "download"}
        BY <2>2, <4>1, <4>3, <4>4 DEF Continue, Ended
      <4>5. CASE answer.ok /\ screen.op = "connect"
        BY <2>2, <4>1, <4>3, <4>5 DEF Continue, ShowIfLatest
      <4>6. CASE answer.ok /\ ~screen.second
                 /\ screen.op \in {"refresh", "approve", "revoke", "forget"}
        BY <1>0, <2>2, <4>1, <4>6 DEF Continue, Screen
      <4>7. CASE answer.ok /\ screen.second
                 /\ screen.op \in {"refresh", "approve", "revoke"}
        BY <2>2, <4>1, <4>3, <4>7 DEF Continue, ShowIfLatest
      <4>8. CASE answer.ok /\ screen.second /\ screen.op = "forget"
        BY <2>2, <4>1, <4>3, <4>8 DEF Continue, Ended
      <4> QED BY <4>2, <4>4, <4>5, <4>6, <4>7, <4>8 DEF OpKinds
    <3>4. \E n \in 0 .. Len(calls') : OffAfter(n)'
      BY <1>0, <2>2, <3>3, LaterCallsBackground DEF CallKinds
    <3> QED BY <3>2, <3>3, <3>4 DEF BackgroundInv
  <2>4. CASE ScanSettled
    <3>1. pairing.scans # <<>> /\ pairing'.scans = Tail(pairing.scans)
      BY <2>4 DEF ScanSettled, TypeOK
    <3>2. ~Head(pairing.scans).current
      BY <2>2, <3>1, ScansFacts DEF CurrentScan
    <3>3. UNCHANGED <<screen, calls>>
      BY <2>4, <3>2 DEF ScanSettled, Connects
    <3>4. ~CurrentScan'
      BY <2>2, <3>1, ScansFacts DEF CurrentScan
    <3> QED
      BY <1>0, <2>2, <3>3, <3>4, LaterCallsBackground DEF BackgroundInv
  <2> QED BY <2>1, <2>3, <2>4
<1> QED BY <1>1, <1>2, <1>3

LEMMA BackgroundStep ==
  ASSUME TypeOK, PhoneOK(phone), BackgroundInv, [Next]_vars
  PROVE  BackgroundInv'
<1>1. CASE Callback
  <2>1. UNCHANGED <<screen, pairing, foreground, calls>>
    BY <1>1, ClientFrame
  <2>2. Off(phone) => Off(phone')
    BY <1>1, OffStays
  <2>3. \A n \in 0 .. Len(calls) : OffAfter(n) => OffAfter(n)'
    BY <2>1, <2>2 DEF OffAfter
  <2>4. CurrentScan' = CurrentScan
    BY <2>1 DEF CurrentScan
  <2> QED BY <2>1, <2>3, <2>4 DEF BackgroundInv
<1>2. CASE Network \/ Laptop \/ UNCHANGED vars
  <2>1. UNCHANGED <<screen, pairing, foreground, calls, phone>>
    BY <1>2, ClientFrame DEF vars
  <2> QED BY <2>1 DEF BackgroundInv, CurrentScan, OffAfter
<1> QED
  BY <1>1, <1>2, ClientCallBackground, ScreenBackground DEF Next

(* "Foreground-only transfer" (useStatePackages 66-82, disconnect): in the *)
(* background, once the calls made are served, no request is under way,    *)
(* nothing is known of a laptop and no list is shown.                      *)
THEOREM BackgroundHolds == Spec => []BackgroundDisconnects
<1>1. Init => BackgroundInv
  BY DEF Init, BackgroundInv
<1>2. LaptopInv /\ BackgroundInv /\ [Next]_vars => BackgroundInv'
  BY BackgroundStep DEF LaptopInv, PromiseInv
<1>3. BackgroundInv => BackgroundDisconnects
  <2> SUFFICES ASSUME BackgroundInv, ~foreground, calls = <<>>
               PROVE  Off(phone) /\ screen.list = NoTicket
    BY DEF BackgroundDisconnects, Off
  <2>1. PICK n \in 0 .. Len(calls) : OffAfter(n)
    BY DEF BackgroundInv
  <2>2. n = 0
    OBVIOUS
  <2> QED BY <2>1, <2>2 DEF OffAfter, BackgroundInv
<1> QED BY <1>1, <1>2, <1>3, LaptopInvariant, PTL DEF Spec

-----------------------------------------------------------------------------
(* While a list is shown or made, the key the client expects is the one    *)
(* whose fingerprint the user gave, or none.                               *)

ConnectQueued == \E i \in DOMAIN calls : calls[i].kind = "connect"

ConnectsWith(fingerprint) ==
  \A i \in DOMAIN calls :
    calls[i].kind = "connect" => calls[i].fingerprint = fingerprint

Vouching == screen.list # NoTicket \/ screen.op \notin {"none", "forget"}

VouchInv ==
  Vouching =>
    /\ ConnectsWith(screen.vouched)
    /\ ConnectQueued \/ phone.expected \in {None, screen.vouched}

(* A connect is on its way only for that operation.                        *)
LEMMA ConnectIsOp ==
  ASSUME TypeOK, PromiseInv, ConnectQueued
  PROVE  screen.op = "connect" /\ ~phone.pending /\ answers = <<>>
<1>1. PICK i \in DOMAIN calls : calls[i].kind = "connect"
  BY DEF ConnectQueued
<1>2. i \in Sent
  BY <1>1 DEF Sent, Awaited
<1> QED BY <1>1, <1>2 DEF PromiseInv, KindInv, OnceInv

LEMMA ConnectExpects ==
  ASSUME TypeOK, ConnectCall, ~phone.pending
  PROVE  phone'.expected = Head(calls).fingerprint
<1> DEFINE d == Disconnected(phone)
           p == [d EXCEPT !.baseURL = Head(calls).to,
                          !.pairingCode = Head(calls).code,
                          !.expected = Head(calls).fingerprint]
<1>1. d \in Phone
  BY PhoneType DEF TypeOK
<1>2. Start(p, FALSE)
  BY DEF ConnectCall
<1> HIDE DEF d
<1>3. p.expected = Head(calls).fingerprint
  BY <1>1 DEF Phone
<1>4. phone'.expected = p.expected
  BY <1>1, <1>2 DEF Start, Phone
<1> QED BY <1>3, <1>4

LEMMA ExpectedStays ==
  ASSUME TypeOK, Callback \/ (ClientCall /\ ~ConnectCall)
  PROVE  phone'.expected \in {phone.expected, None}
<1>0. phone \in Phone
  BY DEF TypeOK
<1>1. /\ Finished(phone).expected = phone.expected
      /\ Finished(Unreached(phone)).expected = phone.expected
      /\ Finished(Forgotten(phone)).expected = phone.expected
      /\ Cancelled(phone).expected = phone.expected
      /\ Disconnected(phone).expected = None
      /\ \A t, trusted : Listed(phone, t, trusted).expected = phone.expected
  <2>1. \A p \in Phone : Finished(p).expected = p.expected
                         /\ Unreached(p).expected = p.expected
    BY DEF Finished, Unreached, Phone
  <2>2. Finished(phone) \in Phone /\ Unreached(phone) \in Phone
        /\ Cancelled(phone) \in Phone /\ Forgotten(phone) \in Phone
    BY <1>0, PhoneType
  <2>3. Forgotten(phone).expected = phone.expected
    BY <1>0, <2>1, <2>2 DEF Forgotten, Phone
  <2>4. Cancelled(phone).expected = phone.expected
    BY <1>0, <2>1, <2>2 DEF Cancelled
  <2>5. Disconnected(phone).expected = None
    <3>1. Unreached(Cancelled(phone)) \in Phone
      BY <2>2, PhoneType
    <3> QED BY <3>1 DEF Disconnected, Phone
  <2>6. \A t, trusted : Listed(phone, t, trusted).expected = phone.expected
    BY <1>0 DEF Listed, Phone
  <2> QED BY <1>0, <2>1, <2>2, <2>3, <2>4, <2>5, <2>6
<1>2. CASE ClientCall /\ ~ConnectCall
  <2>2. CASE DownloadCall \/ RefreshCall
    <3> DEFINE p == [phone EXCEPT !.incoming = phone.offered]
    <3>1. p \in Phone /\ p.expected = phone.expected
      BY <1>0 DEF Phone
    <3>2. ASSUME NEW q \in Phone, NEW state \in BOOLEAN, Start(q, state)
          PROVE  phone'.expected = q.expected
      BY <3>2 DEF Start, Phone
    <3>3. \/ Start(p, TRUE) \/ Start(phone, FALSE) \/ phone' = phone
          \/ phone' = [phone EXCEPT !.incoming = NoPin]
      BY <2>2 DEF DownloadCall, RefreshCall
    <3>4. [phone EXCEPT !.incoming = NoPin].expected = phone.expected
      BY <1>0 DEF Phone
    <3> HIDE DEF p
    <3> QED BY <1>0, <3>1, <3>2, <3>3, <3>4
  <2>3. CASE ApproveCall \/ RevokeCall
    <3>1. phone' = phone \/ \E trusted : phone' = Listed(phone, phone.cache, trusted)
      BY <2>3 DEF ApproveCall, RevokeCall
    <3> QED BY <1>1, <3>1
  <2>4. CASE ForgetCall \/ SignersCall \/ CancelCall \/ DisconnectCall
    BY <1>1, <2>4 DEF ForgetCall, SignersCall, CancelCall, DisconnectCall
  <2> QED BY <1>2, <2>2, <2>3, <2>4 DEF ClientCall
<1>3. CASE Callback
  <2>1. PICK s \in Sessions :
          ReceiveCatalog(s) \/ FileArrives(s) \/ Complete(s)
    BY <1>3 DEF Callback
  <2>2. CASE ReceiveCatalog(s)
    BY <1>0, <2>2 DEF ReceiveCatalog, Phone
  <2>3. CASE FileArrives(s)
    BY <1>1, <2>3 DEF FileArrives
  <2>4. CASE Complete(s) /\ phone.session = s
    <3> DEFINE lost == task[s].status = "lost"
    <3>1. Completed(lost)
      BY <2>4 DEF Complete
    <3>2. \A t \in phone.data :
            Finished([Listed(phone, t, store.trusted) EXCEPT !.cache = t]).expected
              = phone.expected
      <4> SUFFICES ASSUME NEW t \in phone.data
                   PROVE  Finished([Listed(phone, t, store.trusted)
                                      EXCEPT !.cache = t]).expected
                            = phone.expected
        OBVIOUS
      <4> DEFINE l == Listed(phone, t, store.trusted)
                 p == [l EXCEPT !.cache = t]
      <4>1. l \in Phone /\ t \in Ticket
        BY <1>0, ListedType DEF Phone
      <4>2. l.expected = phone.expected
        BY <1>1
      <4> HIDE DEF l
      <4>3. p \in Phone /\ p.expected = l.expected
        BY <4>1 DEF Phone, TicketOrNone
      <4> HIDE DEF p
      <4>4. Finished(p).expected = p.expected
        BY <4>3 DEF Finished, Phone
      <4> QED BY <4>2, <4>3, <4>4 DEF p, l
    <3>3. CASE phone.failed
      BY <1>1, <3>1, <3>3 DEF Completed
    <3>4. CASE ~phone.failed /\ lost
      BY <1>1, <3>1, <3>4 DEF Completed
    <3>5. CASE ~phone.failed /\ ~lost /\ phone.incoming # NoPin
      BY <1>1, <3>1, <3>5 DEF Completed
    <3>6. CASE ~phone.failed /\ ~lost /\ phone.incoming = NoPin
      <4>1. CASE \E t \in phone.data : phone.data = {t} /\ Expected(t)
        <5>1. PICK t \in phone.data : t = CHOOSE u \in phone.data : TRUE
          BY <4>1
        <5> QED BY <3>1, <3>2, <3>6, <4>1, <5>1 DEF Completed
      <4>2. CASE ~\E t \in phone.data : phone.data = {t} /\ Expected(t)
        BY <1>1, <3>1, <3>6, <4>2 DEF Completed
      <4> QED BY <4>1, <4>2
    <3> QED BY <3>3, <3>4, <3>5, <3>6
  <2> QED BY <2>1, <2>2, <2>3, <2>4 DEF Complete
<1> QED BY <1>2, <1>3

LEMMA ClientVouch ==
  ASSUME TypeOK, PromiseInv, VouchInv, ClientCall \/ Callback
  PROVE  VouchInv'
<1>0. UNCHANGED screen
  BY ClientFrame
<1>1. SUFFICES ASSUME Vouching
               PROVE  /\ ConnectsWith(screen.vouched)'
                      /\ ConnectQueued' \/ phone'.expected \in {None, screen.vouched}
  BY <1>0 DEF VouchInv, Vouching
<1>2. CASE Callback
  <2>1. UNCHANGED calls
    BY <1>2, ClientFrame
  <2>2. ConnectQueued' = ConnectQueued
        /\ ConnectsWith(screen.vouched)' = ConnectsWith(screen.vouched)
    BY <1>0, <2>1 DEF ConnectQueued, ConnectsWith
  <2>3. CASE ConnectQueued
    BY <1>1, <2>2, <2>3 DEF VouchInv
  <2>4. CASE ~ConnectQueued
    <3>1. phone'.expected = phone.expected \/ phone'.expected = None
      BY <1>2, ExpectedStays
    <3> QED BY <1>1, <2>2, <2>4, <3>1 DEF VouchInv
  <2> QED BY <2>3, <2>4
<1>3. CASE ClientCall
  <2>1. calls # <<>> /\ Served
    BY <1>3, CallServed
  <2>2. /\ Len(calls) \in Nat \ {0}
        /\ DOMAIN calls = 1 .. Len(calls)
        /\ DOMAIN calls' = 1 .. Len(calls) - 1
        /\ \A i \in 1 .. Len(calls) - 1 : calls'[i] = calls[i + 1]
        /\ Head(calls) = calls[1]
    BY <2>1, ServedQueue
  <2>3. ConnectsWith(screen.vouched)'
    BY <1>0, <1>1, <2>2 DEF VouchInv, ConnectsWith
  <2>4. CASE Head(calls).kind = "connect"
    <3>1. Head(calls).fingerprint = screen.vouched
      BY <1>1, <2>2, <2>4 DEF VouchInv, ConnectsWith
    <3>2. ConnectCall
      BY <1>3, <2>4 DEF ClientCall, DownloadCall, RefreshCall, ApproveCall,
         RevokeCall, ForgetCall, SignersCall, CancelCall, DisconnectCall, Calling
    <3>3. ~phone.pending
      BY <2>2, <2>4, ConnectIsOp DEF ConnectQueued
    <3>4. phone'.expected = Head(calls).fingerprint
      BY <3>2, <3>3, ConnectExpects
    <3> QED BY <2>3, <3>1, <3>4
  <2>5. CASE Head(calls).kind # "connect"
    <3>1. ConnectQueued => ConnectQueued'
      <4> SUFFICES ASSUME NEW i \in DOMAIN calls, calls[i].kind = "connect"
                   PROVE  ConnectQueued'
        BY DEF ConnectQueued
      <4>1. i # 1 /\ i - 1 \in DOMAIN calls' /\ calls'[i - 1] = calls[i]
        BY <2>2, <2>5
      <4> QED BY <4>1 DEF ConnectQueued
    <3>2. phone'.expected \in {phone.expected, None}
      BY <1>3, <2>5, ExpectedStays DEF ConnectCall, Calling
    <3> QED BY <1>1, <2>3, <3>1, <3>2 DEF VouchInv
  <2> QED BY <2>4, <2>5
<1> QED BY <1>2, <1>3

LEMMA VouchSame ==
  ASSUME TypeOK, VouchInv, UNCHANGED phone,
         \/ UNCHANGED calls
         \/ \E kind \in CallKinds \ {"connect"}, to \in Laptops \cup {None} :
              Send(kind, to, 1, None),
         Vouching' => Vouching /\ screen'.vouched = screen.vouched
  PROVE  VouchInv'
<1>1. SUFFICES ASSUME Vouching, screen'.vouched = screen.vouched
               PROVE  /\ ConnectsWith(screen.vouched)'
                      /\ ConnectQueued' \/ phone'.expected \in {None, screen'.vouched}
  BY DEF VouchInv
<1>2. CASE UNCHANGED calls
  BY <1>1, <1>2 DEF VouchInv, ConnectsWith, ConnectQueued
<1>3. ASSUME NEW kind \in CallKinds \ {"connect"},
             NEW to \in Laptops \cup {None}, Send(kind, to, 1, None)
      PROVE  ConnectsWith(screen.vouched)' /\ (ConnectQueued => ConnectQueued')
  <2>1. /\ DOMAIN calls \subseteq DOMAIN calls'
        /\ \A i \in DOMAIN calls : calls'[i] = calls[i]
        /\ \A i \in DOMAIN calls' :
             \/ i \in DOMAIN calls /\ calls'[i] = calls[i]
             \/ calls'[i] = [kind |-> kind, to |-> to, code |-> 1,
                             fingerprint |-> None]
    BY <1>3, SendQueue
  <2>2. \A i \in DOMAIN calls' : calls'[i].kind = "connect" =>
          i \in DOMAIN calls /\ calls'[i] = calls[i]
    BY <2>1
  <2> QED BY <1>1, <2>1, <2>2 DEF VouchInv, ConnectsWith, ConnectQueued
<1> QED BY <1>1, <1>2, <1>3 DEF VouchInv

LEMMA BeginVouches ==
  ASSUME TypeOK, PromiseInv, NEW l, NEW code, NEW fingerprint, NEW scanned,
         BeginConnect(l, code, fingerprint, scanned)
  PROVE  VouchInv'
<1>1. /\ screen.op = "none" /\ screen'.vouched = fingerprint
      /\ Send("connect", l, code, fingerprint)
  BY DEF BeginConnect, QuietScreen
<1>2. ~ConnectQueued
  BY <1>1, ConnectIsOp
<1>3. /\ \A i \in DOMAIN calls' :
           \/ i \in DOMAIN calls /\ calls'[i] = calls[i]
           \/ calls'[i] = [kind |-> "connect", to |-> l, code |-> code,
                           fingerprint |-> fingerprint]
      /\ Len(calls) + 1 \in DOMAIN calls'
      /\ calls'[Len(calls) + 1] = Message("connect", l, code, fingerprint)
  BY <1>1, SendQueue
<1>4. ConnectQueued'
  BY <1>3 DEF ConnectQueued, Message
<1>5. ConnectsWith(screen.vouched)'
  BY <1>1, <1>2, <1>3 DEF ConnectsWith, ConnectQueued
<1> QED BY <1>4, <1>5 DEF VouchInv

LEMMA UserVouch ==
  ASSUME TypeOK, PromiseInv, VouchInv, User
  PROVE  VouchInv'
<1>0. screen \in Screen /\ UNCHANGED phone
  BY ScreenFrame DEF TypeOK
<1>1. ASSUME NEW l \in Laptops, ConnectLaptop(l)
      PROVE  VouchInv'
  BY <1>1, BeginVouches DEF ConnectLaptop
<1>2. ASSUME Vouching' => Vouching /\ screen'.vouched = screen.vouched,
             \A l \in Laptops : ~ConnectLaptop(l)
      PROVE  VouchInv'
  <2>1. CASE UNCHANGED calls
    BY <1>0, <1>2, <2>1, VouchSame
  <2>2. CASE \E kind \in CallKinds \ {"connect"}, to \in Laptops \cup {None} :
               Send(kind, to, 1, None)
    BY <1>0, <1>2, <2>2, VouchSame
  <2>3. UNCHANGED calls
        \/ \E kind \in CallKinds \ {"connect"}, to \in Laptops \cup {None} :
             Send(kind, to, 1, None)
    <3>1. ASSUME NEW l \in Laptops, ForgetSigner(l)
          PROVE  \E kind \in CallKinds \ {"connect"}, to \in Laptops \cup {None} :
                   Send(kind, to, 1, None)
      BY <3>1 DEF ForgetSigner, CallKinds, OpKinds
    <3>2. ASSUME NEW kind \in {"refresh", "approve", "revoke"},
                 ChangeCatalog(kind)
          PROVE  kind \in CallKinds \ {"connect"} /\ Send(kind, None, 1, None)
      BY <3>2 DEF ChangeCatalog, CallKinds, OpKinds
    <3>3. InstallFromLaptop => Send("download", None, 1, None)
      BY DEF InstallFromLaptop
    <3>4. CancelLaptop => Send("cancel", None, 1, None)
      BY DEF CancelLaptop
    <3>5. DisconnectLaptop \/ Background => Send("disconnect", None, 1, None)
      BY DEF DisconnectLaptop, Background
    <3>6. Foreground \/ DisablePairing \/ StartScan \/ ReadCode \/ CloseScanner
            => UNCHANGED calls
      BY DEF Foreground, DisablePairing, StartScan, ReadCode, CloseScanner,
         ScreenOnly
    <3>7. {"download", "cancel", "disconnect"} \subseteq CallKinds \ {"connect"}
      BY DEF CallKinds, OpKinds
    <3> QED
      BY <1>2, <3>1, <3>2, <3>3, <3>4, <3>5, <3>6, <3>7 DEF User
  <2> QED BY <2>1, <2>2, <2>3
<1>3. \/ \E l \in Laptops : ConnectLaptop(l)
      \/ Vouching' => Vouching /\ screen'.vouched = screen.vouched
  <2>1. ASSUME NEW l \in Laptops, ForgetSigner(l)
        PROVE  Vouching' => Vouching /\ screen'.vouched = screen.vouched
    BY <1>0, <2>1 DEF ForgetSigner, Vouching, Screen
  <2>2. ASSUME NEW kind \in {"refresh", "approve", "revoke"},
               ChangeCatalog(kind)
        PROVE  Vouching' => Vouching /\ screen'.vouched = screen.vouched
    BY <1>0, <2>2 DEF ChangeCatalog, Vouching, Screen
  <2>3. CASE InstallFromLaptop
    BY <1>0, <2>3 DEF InstallFromLaptop, Vouching, Screen
  <2>4. CASE DisconnectLaptop
    BY <2>4 DEF DisconnectLaptop, EndedWith, QuietScreen, Vouching
  <2>5. CASE Background
    <3>1. CASE screen.op = "none"
      BY <2>5, <3>1 DEF Background, EndedWith, QuietScreen, Vouching
    <3>2. CASE screen.op # "none"
      BY <1>0, <2>5, <3>2 DEF Background, Vouching, Screen
    <3> QED BY <3>1, <3>2
  <2>6. CASE DisablePairing
    BY <1>0, <2>6 DEF DisablePairing, Vouching, Screen
  <2>7. CASE CancelLaptop \/ Foreground \/ StartScan \/ ReadCode \/ CloseScanner
    BY <2>7 DEF CancelLaptop, Foreground, StartScan, ReadCode, CloseScanner,
       Vouching
  <2> QED
    BY <2>1, <2>2, <2>3, <2>4, <2>5, <2>6, <2>7 DEF User
<1> QED BY <1>1, <1>2, <1>3

LEMMA SettledVouch ==
  ASSUME TypeOK, PromiseInv, VouchInv, Settled \/ ScanSettled
  PROVE  VouchInv'
<1>0. screen \in Screen /\ UNCHANGED phone
  BY ScreenFrame DEF TypeOK
<1>1. CASE Settled
  <2> DEFINE answer == Head(answers)
  <2>1. Continue(answer) /\ answer \in Answer
    BY <1>1, AnswerContinues DEF Settled
  <2>2. answer.ok \in BOOLEAN /\ screen.second \in BOOLEAN
        /\ screen.op \in OpKinds
    BY <1>0, <2>1 DEF Answer, Screen
  <2> HIDE DEF answer
  <2>3. /\ UNCHANGED calls
           \/ \E kind \in CallKinds \ {"connect"}, to \in Laptops \cup {None} :
                Send(kind, to, 1, None)
        /\ Vouching' => Vouching /\ screen'.vouched = screen.vouched
    <3>1. Send("signers", None, 1, None) =>
            \E kind \in CallKinds \ {"connect"}, to \in Laptops \cup {None} :
              Send(kind, to, 1, None)
      BY DEF CallKinds
    <3>2. ASSUME NEW list, screen' = EndedWith(list), UNCHANGED calls,
                 list = NoTicket \/ Vouching
          PROVE  /\ UNCHANGED calls
                 /\ Vouching' => Vouching /\ screen'.vouched = screen.vouched
      BY <3>2 DEF EndedWith, QuietScreen, Vouching
    <3>3. screen.list = NoTicket \/ Vouching
      BY DEF Vouching
    <3>4. CASE ~answer.ok \/ screen.op \in {"none", "download"}
      BY <2>1, <3>2, <3>3, <3>4 DEF Continue, Ended
    <3>5. CASE answer.ok /\ screen.op = "connect"
      BY <2>1, <3>2, <3>5 DEF Continue, ShowIfLatest, Vouching
    <3>6. CASE answer.ok /\ ~screen.second
               /\ screen.op \in {"refresh", "approve", "revoke", "forget"}
      BY <1>0, <2>1, <3>1, <3>6 DEF Continue, Vouching, Screen
    <3>7. CASE answer.ok /\ screen.second
               /\ screen.op \in {"refresh", "approve", "revoke"}
      BY <2>1, <3>2, <3>7 DEF Continue, ShowIfLatest, Vouching
    <3>8. CASE answer.ok /\ screen.second /\ screen.op = "forget"
      BY <2>1, <3>2, <3>3, <3>8 DEF Continue, Ended
    <3> QED BY <2>2, <3>4, <3>5, <3>6, <3>7, <3>8 DEF OpKinds
  <2> QED BY <1>0, <2>3, VouchSame
<1>2. CASE ScanSettled
  <2>1. CASE UNCHANGED <<screen, calls>>
    BY <1>0, <2>1, VouchSame DEF Vouching
  <2>2. ASSUME NEW l, NEW code, BeginConnect(l, code, l, TRUE)
        PROVE  VouchInv'
    BY <2>2, BeginVouches
  <2> QED BY <1>2, <2>1, <2>2 DEF ScanSettled
<1> QED BY <1>1, <1>2

LEMMA VouchStep ==
  ASSUME TypeOK, PromiseInv, VouchInv, [Next]_vars
  PROVE  VouchInv'
<1>1. CASE Network \/ Laptop \/ UNCHANGED vars
  <2>1. UNCHANGED <<screen, calls, phone>>
    BY <1>1, ClientFrame DEF vars
  <2> QED BY <2>1, VouchSame DEF Vouching
<1> QED
  BY <1>1, ClientVouch, UserVouch, SettledVouch DEF Next

LEMMA TrustedByApproval ==
  ASSUME TypeOK, PromiseInv, VouchInv, [Next]_vars
  PROVE  store'.trusted \subseteq store.trusted \cup {screen.vouched}
<1>1. CASE ApproveCall /\ Approvable
  <2>1. /\ store'.trusted = store.trusted \cup {phone.signingKey}
        /\ phone.signingKey = phone.expected /\ phone.expected # None
    BY <1>1 DEF ApproveCall, Approvable, TypeOK
  <2>2. calls # <<>> /\ Served /\ Head(calls).kind = "approve"
    BY <1>1 DEF ApproveCall, Calling
  <2>3. Head(calls) = calls[1] /\ 1 \in DOMAIN calls
    BY <2>2, ServedQueue
  <2>4. 1 \in Sent
    BY <2>2, <2>3 DEF Sent, Awaited
  <2>5. screen.op = "approve"
    BY <2>2, <2>3, <2>4 DEF PromiseInv, KindInv
  <2>6. ~ConnectQueued
    BY <2>5, ConnectIsOp
  <2>7. phone.expected \in {None, screen.vouched}
    BY <2>5, <2>6 DEF VouchInv, Vouching
  <2> QED BY <2>1, <2>7
<1>2. CASE ClientCall /\ ~(ApproveCall /\ Approvable)
  <2>1. CASE ConnectCall \/ DownloadCall \/ RefreshCall \/ SignersCall
             \/ CancelCall \/ DisconnectCall
    BY <2>1 DEF ConnectCall, DownloadCall, RefreshCall, SignersCall,
       CancelCall, DisconnectCall
  <2>2. CASE ApproveCall
    BY <1>2, <2>2 DEF ApproveCall
  <2>3. CASE RevokeCall
    <3>1. UNCHANGED store
          \/ store' = [store EXCEPT !.trusted = @ \ {phone.signingKey}]
      BY <2>3 DEF RevokeCall
    <3> QED BY <3>1 DEF TypeOK
  <2>4. CASE ForgetCall
    BY <2>4 DEF ForgetCall, TypeOK
  <2> QED BY <1>2, <2>1, <2>2, <2>3, <2>4 DEF ClientCall
<1>3. CASE Callback
  <2>1. PICK s \in Sessions :
          ReceiveCatalog(s) \/ FileArrives(s) \/ Complete(s)
    BY <1>3 DEF Callback
  <2>2. \A pin, file :
          /\ Installed(pin, file).trusted = store.trusted
          /\ [Installed(pin, file) EXCEPT !.shown = store.shown].trusted
               = store.trusted
    BY DEF Installed, TypeOK
  <2>3. CASE FileArrives(s)
    <3>1. UNCHANGED store
          \/ store' = Installed(phone.incoming, task[s].reply)
          \/ store' = [Installed(phone.incoming, task[s].reply)
                         EXCEPT !.shown = store.shown]
      BY <2>3 DEF FileArrives
    <3> QED BY <2>2, <3>1, ZenonT(60)
  <2> QED BY <2>1, <2>3 DEF ReceiveCatalog, Complete
<1>4. CASE ~ClientCall /\ ~Callback
  BY <1>4, ClientFrame, ScreenFrame DEF Next, vars
<1> QED BY <1>1, <1>2, <1>3, <1>4

(* A key becomes trusted only if the user gave its fingerprint for the     *)
(* connection that is approved (approveSigner, connect), whatever was      *)
(* cancelled, disconnected or refreshed in between.                        *)
THEOREM TrustHolds == Spec => TrustIsVouched
<1>1. Init => VouchInv
  BY DEF Init, VouchInv, ConnectsWith, Vouching, QuietScreen, IdlePhone
<1>2. LaptopInv /\ VouchInv /\ [Next]_vars => VouchInv'
  BY VouchStep DEF LaptopInv
<1>3. LaptopInv /\ VouchInv /\ [Next]_vars =>
        [store'.trusted \subseteq store.trusted \cup {screen.vouched}]_vars
  BY TrustedByApproval DEF LaptopInv
<1> QED BY <1>1, <1>2, <1>3, LaptopInvariant, PTL DEF Spec, TrustIsVouched

-----------------------------------------------------------------------------
(* What the client offers is what the list shows, or is about to show.     *)

OfferedIs(ticket) == phone.offered = NoPin \/ phone.offered.ticket = ticket

Showing == screen.op \in Listing \cup {"connect"}

ListOffered ==
  IF Showing /\ screen.second THEN OfferedIs(screen.result)
  ELSE IF Showing /\ answers # <<>> /\ Head(answers).ok
  THEN OfferedIs(Head(answers).value)
  ELSE screen.list = NoTicket \/ OfferedIs(screen.list)

OfferInv ==
  /\ ~screen.latest => screen.list = NoTicket
  /\ screen.op = "connect" => screen.list = NoTicket
  /\ screen.op = "none" => screen.latest
  /\ screen.op = "download" =>
       OfferedIs(screen.asked) /\ screen.list \in {screen.asked, NoTicket}
  /\ phone.incoming # NoPin => phone.incoming.ticket = screen.asked
  /\ ListOffered

(* A step of the client that offers nothing new.                           *)
LEMMA OfferKept ==
  ASSUME OfferInv, UNCHANGED screen,
         phone'.offered \in {phone.offered, NoPin},
         phone'.incoming # NoPin => phone'.incoming.ticket = screen.asked,
         \/ UNCHANGED answers
         \/ /\ answers = <<>>
            /\ Head(answers').ok => ~Showing \/ screen.second
  PROVE  OfferInv'
<1>1. \A t : OfferedIs(t) => OfferedIs(t)'
  BY DEF OfferedIs
<1>2. Showing' = Showing
  BY DEF Showing
<1>3. ListOffered'
  <2>1. CASE Showing /\ screen.second
    BY <1>1, <1>2, <2>1 DEF OfferInv, ListOffered
  <2>2. CASE ~(Showing /\ screen.second) /\ UNCHANGED answers
    BY <1>1, <1>2, <2>2 DEF OfferInv, ListOffered
  <2>3. CASE ~(Showing /\ screen.second) /\ answers = <<>>
             /\ ~(Showing /\ Head(answers').ok)
    <3>1. screen.list = NoTicket \/ OfferedIs(screen.list)
      BY <2>3 DEF OfferInv, ListOffered
    <3>2. screen'.list = NoTicket \/ OfferedIs(screen.list)'
      BY <1>1, <3>1
    <3> QED BY <1>2, <2>3, <3>2 DEF ListOffered
  <2> QED BY <2>1, <2>2, <2>3
<1> QED BY <1>1, <1>3 DEF OfferInv

(* A step of the client that lists a catalog.                              *)
LEMMA OfferListed ==
  ASSUME OfferInv, UNCHANGED screen, Showing, ~screen.second,
         NEW t, phone'.offered = NoPin \/ phone'.offered.ticket = t,
         phone'.incoming = NoPin, answers' # <<>>, Head(answers').value = t,
         Head(answers').ok
  PROVE  OfferInv'
<1>1. Showing' /\ ~screen'.second
  BY DEF Showing
<1>2. OfferedIs(t)'
  BY DEF OfferedIs
<1>3. ListOffered'
  BY <1>1, <1>2 DEF ListOffered
<1>4. screen.op # "download"
  BY DEF Showing, Listing
<1> QED BY <1>3, <1>4 DEF OfferInv

LEMMA OneSettled ==
  ASSUME TypeOK, answers = <<>>, NEW ok, NEW value, Settle(ok, value)
  PROVE  answers' # <<>> /\ Head(answers').ok = ok /\ Head(answers').value = value
<1>1. answers' = <<[ok |-> ok, value |-> value]>>
  BY DEF Settle
<1> QED BY <1>1

LEMMA OfferTicket ==
  ASSUME NEW p \in Phone, NEW t, NEW trusted
  PROVE  /\ \/ Listed(p, t, trusted).offered = NoPin
            \/ Listed(p, t, trusted).offered.ticket = t
         /\ Listed(p, t, trusted).incoming = p.incoming
<1> DEFINE o == Offer(t, trusted)
<1>1. o = NoPin \/ o.ticket = t
  BY DEF Offer
<1> HIDE DEF o
<1>2. Listed(p, t, trusted) = [p EXCEPT !.signingKey = t.by, !.offered = o]
  BY DEF Listed, o
<1> QED BY <1>1, <1>2 DEF Phone

LEMMA ClientCallOffer ==
  ASSUME TypeOK, PromiseInv, OfferInv, ClientCall
  PROVE  OfferInv'
<1>0. /\ UNCHANGED screen /\ phone \in Phone /\ calls # <<>> /\ Served
  BY ClientFrame, CallServed DEF TypeOK
<1>1. ASSUME Head(calls).kind \in Awaited
      PROVE  /\ ~phone.pending /\ answers = <<>> /\ phone.incoming = NoPin
             /\ Head(calls).kind = IF screen.second THEN "signers"
                                   ELSE screen.op
  <2>1. ~phone.pending /\ answers = <<>> /\ 1 \in Sent /\ Head(calls) = calls[1]
    BY <1>0, <1>1, SentAfterServed, ServedQueue DEF PromiseInv, OnceInv
  <2> QED BY <2>1 DEF PromiseInv, KindInv, PhoneOK
<1>2. CASE ConnectCall
  <2>1. Head(calls).kind = "connect"
    BY <1>2 DEF ConnectCall, Calling
  <2>2. ~phone.pending /\ UNCHANGED answers
    BY <1>1, <1>2, <2>1 DEF ConnectCall, Awaited
  <2> DEFINE d == Disconnected(phone)
             p == [d EXCEPT !.baseURL = Head(calls).to,
                            !.pairingCode = Head(calls).code,
                            !.expected = Head(calls).fingerprint]
  <2>3. d \in Phone /\ d.offered = NoPin /\ d.incoming = NoPin
    <3>1. d \in Phone /\ Off(d) /\ PhoneOK(d) /\ ~d.pending
      BY <1>0, PhoneType, DisconnectedOff, PhoneHelpers DEF PromiseInv
    <3> QED BY <3>1 DEF Off, PhoneOK
  <2>4. Start(p, FALSE)
    BY <1>2, <2>2 DEF ConnectCall
  <2> HIDE DEF d
  <2>5. phone'.offered = NoPin /\ phone'.incoming = NoPin
    BY <2>3, <2>4 DEF Start, Phone
  <2> QED BY <1>0, <2>2, <2>5, OfferKept
<1>3. CASE DownloadCall
  <2>1. /\ Head(calls).kind = "download" /\ ~phone.pending /\ answers = <<>>
        /\ phone.incoming = NoPin /\ screen.op = "download"
    BY <1>1, <1>3 DEF DownloadCall, Calling, Awaited
  <2>2. ~Showing
    BY <2>1 DEF Showing, Listing
  <2> DEFINE p == [phone EXCEPT !.incoming = phone.offered]
  <2>3. CASE phone' = [phone EXCEPT !.incoming = NoPin]
    BY <1>0, <1>3, <2>1, <2>2, <2>3, OfferKept DEF Phone
  <2>4. CASE Start(p, TRUE) /\ phone.offered # NoPin
    <3>1. p \in Phone /\ p.offered = phone.offered /\ p.incoming = phone.offered
      BY <1>0 DEF Phone
    <3> HIDE DEF p
    <3>2. phone'.offered = phone.offered /\ phone'.incoming = phone.offered
      BY <2>4, <3>1 DEF Start, Phone
    <3>3. phone.offered.ticket = screen.asked
      BY <2>1, <2>4 DEF OfferInv, OfferedIs
    <3> QED BY <1>0, <2>1, <2>2, <3>2, <3>3, OfferKept
  <2> QED BY <1>3, <2>1, <2>3, <2>4 DEF DownloadCall
<1>4. CASE RefreshCall
  <2>1. ~phone.pending /\ answers = <<>> /\ phone.incoming = NoPin
    BY <1>1, <1>4 DEF RefreshCall, Calling, Awaited
  <2>2. CASE Start(phone, FALSE) /\ UNCHANGED answers
    <3>1. phone'.offered = phone.offered /\ phone'.incoming = NoPin
      BY <1>0, <2>1, <2>2 DEF Start, Phone
    <3> QED BY <1>0, <2>2, <3>1, OfferKept
  <2>3. CASE Settle(FALSE, NoTicket) /\ UNCHANGED phone
    BY <1>0, <2>1, <2>3, OneSettled, OfferKept
  <2> QED BY <1>4, <2>2, <2>3 DEF RefreshCall
<1>5. CASE ApproveCall \/ RevokeCall
  <2>1. /\ answers = <<>> /\ phone.incoming = NoPin
        /\ screen.op \in Listing /\ ~screen.second
    <3>1. Head(calls).kind \in {"approve", "revoke"}
      BY <1>5 DEF ApproveCall, RevokeCall, Calling
    <3> QED BY <1>1, <3>1 DEF Awaited, Listing
  <2>2. Showing
    BY <2>1 DEF Showing
  <2>3. CASE Settle(FALSE, NoTicket) /\ UNCHANGED phone
    BY <1>0, <2>1, <2>3, OneSettled, OfferKept
  <2>4. ASSUME NEW trusted, phone' = Listed(phone, phone.cache, trusted),
               Settle(TRUE, phone.cache)
        PROVE  OfferInv'
    <3> DEFINE t == phone.cache
    <3>1. /\ phone'.offered = NoPin \/ phone'.offered.ticket = t
          /\ phone'.incoming = NoPin
      BY <1>0, <2>1, <2>4, OfferTicket
    <3>2. answers' # <<>> /\ Head(answers').ok = TRUE /\ Head(answers').value = t
      BY <2>1, <2>4, OneSettled
    <3> HIDE DEF t
    <3> QED BY <1>0, <2>1, <2>2, <3>1, <3>2, OfferListed
  <2>5. \/ Settle(FALSE, NoTicket) /\ UNCHANGED phone
        \/ \E trusted : /\ phone' = Listed(phone, phone.cache, trusted)
                        /\ Settle(TRUE, phone.cache)
    BY <1>5 DEF ApproveCall, RevokeCall
  <2> QED BY <2>3, <2>4, <2>5
<1>6. CASE ForgetCall \/ SignersCall
  <2>1. /\ answers = <<>> /\ UNCHANGED phone /\ phone.incoming = NoPin
        /\ screen.op = "forget" \/ screen.second
    <3>1. Head(calls).kind \in {"forget", "signers"} /\ UNCHANGED phone
      BY <1>6 DEF ForgetCall, SignersCall, Calling
    <3>2. screen.op # "signers"
      BY DEF TypeOK, Screen, OpKinds
    <3> QED BY <1>1, <3>1, <3>2 DEF Awaited
  <2>2. ~Showing \/ screen.second
    BY <2>1 DEF Showing, Listing
  <2> QED BY <1>0, <2>1, <2>2, OfferKept
<1>7. CASE CancelCall \/ DisconnectCall
  <2>1. /\ phone'.offered \in {phone.offered, NoPin}
        /\ phone'.incoming = NoPin
    <3>1. CASE DisconnectCall
      <4>1. /\ Off(Disconnected(phone)) /\ PhoneOK(Disconnected(phone))
            /\ ~Disconnected(phone).pending
        BY <1>0, DisconnectedOff, PhoneHelpers DEF PromiseInv
      <4> QED BY <3>1, <4>1 DEF DisconnectCall, Off, PhoneOK
    <3>2. CASE CancelCall
      <4>1. PhoneOK(Cancelled(phone)) /\ ~Cancelled(phone).pending
        BY <1>0, PhoneHelpers DEF PromiseInv
      <4>2. Cancelled(phone).offered \in {phone.offered, NoPin}
        BY <1>0, PhoneType DEF Cancelled, Finished, Unreached, Phone
      <4> QED BY <3>2, <4>1, <4>2 DEF CancelCall, PhoneOK
    <3> QED BY <1>7, <3>1, <3>2
  <2>2. UNCHANGED answers \/ (answers = <<>> /\ ~Head(answers').ok)
    <3>1. SettleCancelled
      BY <1>7 DEF CancelCall, DisconnectCall
    <3>2. phone.pending => answers = <<>>
      BY DEF PromiseInv, OnceInv
    <3> QED BY <3>1, <3>2, OneSettled DEF SettleCancelled
  <2> QED BY <1>0, <2>1, <2>2, OfferKept
<1> QED
  BY <1>2, <1>3, <1>4, <1>5, <1>6, <1>7 DEF ClientCall

LEMMA CallbackOffer ==
  ASSUME TypeOK, PromiseInv, OfferInv, Callback
  PROVE  OfferInv'
<1>0. UNCHANGED screen /\ phone \in Phone
  BY ClientFrame DEF TypeOK
<1>1. PICK s \in Sessions : ReceiveCatalog(s) \/ FileArrives(s) \/ Complete(s)
  BY DEF Callback
<1>2. phone.session = s => phone.pending /\ answers = <<>> /\ ~screen.second
  BY LaptopAssumption DEF PromiseInv, PhoneOK, OnceInv, KindInv
<1>3. CASE UNCHANGED <<phone, answers>>
  BY <1>0, <1>3, OfferKept DEF OfferInv
<1>4. CASE ReceiveCatalog(s)
  <2>1. /\ phone'.offered = phone.offered /\ phone'.incoming = phone.incoming
        /\ UNCHANGED answers
    BY <1>0, <1>4 DEF ReceiveCatalog, Phone
  <2> QED BY <1>0, <2>1, OfferKept DEF OfferInv
<1>5. /\ Finished(phone).offered = phone.offered
      /\ Finished(phone).incoming = NoPin
      /\ Finished(Unreached(phone)).offered = NoPin
      /\ Finished(Unreached(phone)).incoming = NoPin
      /\ Finished(Forgotten(phone)).offered = NoPin
      /\ Finished(Forgotten(phone)).incoming = NoPin
  <2>1. \A p \in Phone : /\ Finished(p).offered = p.offered
                         /\ Finished(p).incoming = NoPin
                         /\ Unreached(p).offered = NoPin
    BY DEF Finished, Unreached, Phone
  <2>2. Unreached(phone) \in Phone /\ Forgotten(phone) \in Phone
    BY <1>0, PhoneType
  <2>3. Forgotten(phone).offered = NoPin
    BY <1>0, <2>1, <2>2 DEF Forgotten, Phone
  <2> QED BY <1>0, <2>1, <2>2, <2>3
<1>6. CASE FileArrives(s) /\ phone.session = s /\ phone.incoming # NoPin
  <2>1. phone' = Finished(phone)
    BY <1>6 DEF FileArrives
  <2>2. screen.op = "download"
    BY <1>2, <1>6 DEF PromiseInv, KindInv
  <2> QED
    BY <1>0, <1>2, <1>5, <1>6, <2>1, <2>2, OfferKept DEF Showing, Listing
<1>7. CASE Complete(s) /\ phone.session = s
  <2> DEFINE lost == task[s].status = "lost"
  <2>1. Completed(lost)
    BY <1>7 DEF Complete
  <2>2. CASE /\ \/ phone' = Finished(phone)
                \/ phone' = Finished(Unreached(phone))
                \/ phone' = Finished(Forgotten(phone))
             /\ Settle(FALSE, NoTicket)
    BY <1>0, <1>2, <1>5, <1>7, <2>2, OneSettled, OfferKept
  <2>3. ASSUME NEW t \in phone.data, phone.incoming = NoPin,
               phone' = Finished([Listed(phone, t, store.trusted)
                                    EXCEPT !.cache = t]),
               Settle(TRUE, t)
        PROVE  OfferInv'
    <3> DEFINE l == Listed(phone, t, store.trusted)
               p == [l EXCEPT !.cache = t]
    <3>1. l \in Phone /\ t \in Ticket
      BY <1>0, ListedType DEF Phone
    <3>2. l.offered = NoPin \/ l.offered.ticket = t
      BY <1>0, OfferTicket
    <3>3. phone' = Finished(p)
      BY <2>3
    <3> HIDE DEF l
    <3>4. p \in Phone /\ p.offered = l.offered
      BY <3>1 DEF Phone, TicketOrNone
    <3> HIDE DEF p
    <3>5. /\ phone'.offered = NoPin \/ phone'.offered.ticket = t
          /\ phone'.incoming = NoPin
      BY <3>2, <3>3, <3>4 DEF Finished, Phone
    <3>6. answers' # <<>> /\ Head(answers').ok = TRUE /\ Head(answers').value = t
      BY <1>2, <1>7, <2>3, OneSettled
    <3>7. screen.op \in {"connect", "refresh"}
      BY <1>2, <1>7, <2>3 DEF PromiseInv, KindInv
    <3>8. Showing
      BY <3>7 DEF Showing, Listing
    <3> QED BY <1>0, <1>2, <1>7, <3>5, <3>6, <3>8, OfferListed
  <2>4. CASE phone.failed
    BY <2>1, <2>2, <2>4 DEF Completed
  <2>5. CASE ~phone.failed /\ lost
    BY <2>1, <2>2, <2>5 DEF Completed
  <2>6. CASE ~phone.failed /\ ~lost /\ phone.incoming # NoPin
    BY <2>1, <2>2, <2>6 DEF Completed
  <2>7. CASE ~phone.failed /\ ~lost /\ phone.incoming = NoPin
    <3>1. CASE \E t \in phone.data : phone.data = {t} /\ Expected(t)
      <4>1. PICK t \in phone.data : t = CHOOSE u \in phone.data : TRUE
        BY <3>1
      <4> QED BY <2>1, <2>3, <2>7, <3>1, <4>1 DEF Completed
    <3>2. CASE ~\E t \in phone.data : phone.data = {t} /\ Expected(t)
      BY <2>1, <2>2, <2>7, <3>2 DEF Completed
    <3> QED BY <3>1, <3>2
  <2> QED BY <2>4, <2>5, <2>6, <2>7
<1> QED
  BY <1>1, <1>3, <1>4, <1>6, <1>7 DEF FileArrives, Complete

(* A step of the screen that keeps what is shown, or shows what is offered.*)
LEMMA OfferShown ==
  ASSUME OfferInv, UNCHANGED phone, phone.incoming = NoPin, answers' = <<>>,
         screen'.second = FALSE, screen'.latest,
         screen'.op # "connect" \/ screen'.list = NoTicket,
         screen'.op = "download" =>
           screen'.asked = screen'.list /\ screen'.list # NoTicket,
         screen'.list = NoTicket \/ OfferedIs(screen'.list)
  PROVE  OfferInv'
<1>1. screen'.list = NoTicket \/ OfferedIs(screen.list)'
  BY DEF OfferedIs
<1>2. ListOffered'
  BY <1>1 DEF ListOffered
<1>3. screen'.op = "download" => OfferedIs(screen.asked)'
  BY DEF OfferedIs
<1> QED BY <1>1, <1>2, <1>3 DEF OfferInv

LEMMA UserOffer ==
  ASSUME TypeOK, PromiseInv, OfferInv, User
  PROVE  OfferInv'
<1>0. screen \in Screen /\ UNCHANGED <<phone, answers>>
  BY ScreenFrame DEF TypeOK
<1>1. screen.op = "none" =>
        /\ answers = <<>> /\ phone.incoming = NoPin /\ screen.second = FALSE
        /\ screen.latest
        /\ screen.list = NoTicket \/ OfferedIs(screen.list)
  BY <1>0, IdleNotSecond
  DEF PromiseInv, OnceInv, PhoneOK, OfferInv, ListOffered, Showing, Listing
<1>2. CASE UNCHANGED screen
  BY <1>0, <1>2, OfferKept DEF OfferInv
<1>3. ASSUME NEW l \in Laptops, ConnectLaptop(l)
      PROVE  OfferInv'
  <2>1. screen.op = "none" /\ screen'.op = "connect" /\ screen'.list = NoTicket
        /\ screen'.second = FALSE /\ screen'.latest
    BY <1>3 DEF ConnectLaptop, BeginConnect, QuietScreen
  <2> QED BY <1>0, <1>1, <2>1, OfferShown
<1>4. ASSUME NEW l \in Laptops, ForgetSigner(l)
      PROVE  OfferInv'
  <2>1. screen.op = "none" /\ screen'.op = "forget" /\ screen'.list = screen.list
        /\ screen'.second = screen.second /\ screen'.latest
    BY <1>0, <1>4 DEF ForgetSigner, Idle, Screen
  <2> QED BY <1>0, <1>1, <2>1, OfferShown
<1>5. ASSUME NEW kind \in {"refresh", "approve", "revoke"}, ChangeCatalog(kind)
      PROVE  OfferInv'
  <2>1. screen.op = "none" /\ screen'.op = kind /\ screen'.list = screen.list
        /\ screen'.second = screen.second /\ screen'.latest
    BY <1>0, <1>5 DEF ChangeCatalog, Idle, Screen
  <2> QED BY <1>0, <1>1, <2>1, OfferShown
<1>6. CASE InstallFromLaptop
  <2>1. /\ screen.op = "none" /\ screen'.op = "download"
        /\ screen'.list = screen.list /\ screen'.asked = screen.list
        /\ screen.list # NoTicket
        /\ screen'.second = screen.second /\ screen'.latest = screen.latest
    BY <1>0, <1>6 DEF InstallFromLaptop, Idle, Screen
  <2> QED BY <1>0, <1>1, <2>1, OfferShown
<1>7. ASSUME screen.op = "none", screen' = EndedWith(NoTicket)
      PROVE  OfferInv'
  <2>1. screen'.op = "none" /\ screen'.list = NoTicket
        /\ screen'.second = FALSE /\ screen'.latest
    BY <1>7 DEF EndedWith, QuietScreen
  <2> QED BY <1>0, <1>1, <1>7, <2>1, OfferShown
<1>8. ASSUME screen.op # "none",
             screen' = [screen EXCEPT !.list = NoTicket, !.scanned = FALSE,
                                      !.latest = FALSE]
      PROVE  OfferInv'
  <2>1. /\ screen'.op = screen.op /\ screen'.list = NoTicket
        /\ screen'.second = screen.second /\ screen'.asked = screen.asked
        /\ screen'.result = screen.result
    BY <1>0, <1>8 DEF Screen
  <2>2. ListOffered'
    BY <1>0, <2>1 DEF OfferInv, ListOffered, Showing, OfferedIs
  <2>3. screen.op = "download" => OfferedIs(screen.asked)'
    BY <1>0, <2>1 DEF OfferInv, OfferedIs
  <2> QED BY <1>0, <1>8, <2>1, <2>2, <2>3 DEF OfferInv
<1>9. CASE DisablePairing
  <2>1. /\ screen'.op = screen.op /\ screen'.list = screen.list
        /\ screen'.second = screen.second /\ screen'.asked = screen.asked
        /\ screen'.result = screen.result /\ screen'.latest = screen.latest
    BY <1>0, <1>9 DEF DisablePairing, Screen
  <2>2. ListOffered'
    BY <1>0, <2>1 DEF OfferInv, ListOffered, Showing, OfferedIs
  <2>3. screen.op = "download" => OfferedIs(screen.asked)'
    BY <1>0, <2>1 DEF OfferInv, OfferedIs
  <2> QED BY <1>0, <2>1, <2>2, <2>3 DEF OfferInv
<1>10. CASE DisconnectLaptop
  BY <1>7, <1>10 DEF DisconnectLaptop, Idle
<1>11. CASE Background
  BY <1>7, <1>8, <1>11 DEF Background
<1>12. CASE CancelLaptop \/ Foreground \/ StartScan \/ ReadCode \/ CloseScanner
  BY <1>2, <1>12 DEF CancelLaptop, Foreground, StartScan, ReadCode, CloseScanner
<1> QED
  BY <1>3, <1>4, <1>5, <1>6, <1>9, <1>10, <1>11, <1>12 DEF User

LEMMA SettledOffer ==
  ASSUME TypeOK, PromiseInv, OfferInv, Settled \/ ScanSettled
  PROVE  OfferInv'
<1>0. screen \in Screen /\ UNCHANGED phone
  BY ScreenFrame DEF TypeOK
<1>1. CASE Settled
  <2> DEFINE answer == Head(answers)
  <2>1. /\ Continue(answer) /\ answer \in Answer
        /\ answers # <<>> /\ answers' = Tail(answers)
    BY <1>1, AnswerContinues DEF Settled
  <2>2. /\ phone.incoming = NoPin /\ Len(answers) = 1 /\ screen.op # "none"
        /\ screen.second => answer.ok
    BY <2>1 DEF PromiseInv, OnceInv, KindInv, PhoneOK, TypeOK
  <2>3. answers' = <<>>
    BY <2>1, <2>2, HeadTailProperties, EmptySeq DEF TypeOK
  <2>4. answer.ok \in BOOLEAN /\ screen.second \in BOOLEAN
        /\ screen.op \in OpKinds
    BY <1>0, <2>1 DEF Answer, Screen
  <2>5. ASSUME NEW list, screen' = EndedWith(list),
               list = NoTicket \/ OfferedIs(list)
        PROVE  OfferInv'
    <3>1. screen'.op = "none" /\ screen'.list = list
          /\ screen'.second = FALSE /\ screen'.latest
      BY <2>5 DEF EndedWith, QuietScreen
    <3> QED BY <1>0, <2>2, <2>3, <2>5, <3>1, OfferShown
  <2>6. CASE ~answer.ok \/ screen.op = "download"
    <3>1. screen.list = NoTicket \/ OfferedIs(screen.list)
      BY <2>2, <2>6 DEF OfferInv, ListOffered, Showing, Listing
    <3> QED BY <2>1, <2>5, <2>6, <3>1 DEF Continue, Ended
  <2>7. CASE answer.ok /\ screen.op = "connect"
    <3>1. OfferedIs(answer.value) /\ screen.list = NoTicket
      <4>1. ~screen.second
        BY <2>4, <2>7 DEF PromiseInv, KindInv, Listing
      <4> QED BY <2>1, <2>7, <4>1 DEF OfferInv, ListOffered, Showing
    <3> QED BY <2>1, <2>5, <2>7, <3>1 DEF Continue, ShowIfLatest
  <2>8. CASE answer.ok /\ ~screen.second
             /\ screen.op \in {"refresh", "approve", "revoke", "forget"}
    <3>1. screen' = [screen EXCEPT !.second = TRUE, !.result = answer.value]
      BY <2>1, <2>8 DEF Continue
    <3>2. /\ screen'.op = screen.op /\ screen'.list = screen.list
          /\ screen'.second = TRUE /\ screen'.asked = screen.asked
          /\ screen'.result = answer.value /\ screen'.latest = screen.latest
      BY <1>0, <3>1 DEF Screen
    <3>3. Showing => OfferedIs(answer.value)
      BY <2>1, <2>8 DEF OfferInv, ListOffered
    <3>4. ~Showing => screen.list = NoTicket \/ OfferedIs(screen.list)
      BY DEF OfferInv, ListOffered
    <3>5. ListOffered'
      BY <1>0, <3>2, <3>3, <3>4 DEF ListOffered, Showing, OfferedIs
    <3> QED BY <1>0, <2>2, <2>8, <3>2, <3>5 DEF OfferInv
  <2>9. CASE answer.ok /\ screen.second
             /\ screen.op \in {"refresh", "approve", "revoke"}
    <3>1. OfferedIs(screen.result)
      BY <2>9 DEF OfferInv, ListOffered, Showing, Listing
    <3>2. ~screen.latest => screen.list = NoTicket
      BY DEF OfferInv
    <3> QED BY <2>1, <2>5, <2>9, <3>1, <3>2 DEF Continue, ShowIfLatest
  <2>10. CASE answer.ok /\ screen.second /\ screen.op = "forget"
    <3>1. screen.list = NoTicket \/ OfferedIs(screen.list)
      BY <2>10 DEF OfferInv, ListOffered, Showing, Listing
    <3> QED BY <2>1, <2>5, <2>10, <3>1 DEF Continue, Ended
  <2> QED BY <2>2, <2>4, <2>6, <2>7, <2>8, <2>9, <2>10 DEF OpKinds
<1>2. CASE ScanSettled
  <2>1. UNCHANGED answers
    BY <1>2, ScreenFrame
  <2>2. CASE UNCHANGED screen
    BY <1>0, <2>1, <2>2, OfferKept DEF OfferInv
  <2>3. ASSUME NEW l, NEW code, BeginConnect(l, code, l, TRUE)
        PROVE  OfferInv'
    <3>1. screen.op = "none" /\ screen'.op = "connect"
          /\ screen'.list = NoTicket /\ screen'.second = FALSE /\ screen'.latest
      BY <2>3 DEF BeginConnect, QuietScreen
    <3>2. answers = <<>> /\ phone.incoming = NoPin
      BY <3>1 DEF PromiseInv, OnceInv, PhoneOK
    <3> QED BY <1>0, <2>1, <3>1, <3>2, OfferShown
  <2> QED BY <1>2, <2>2, <2>3 DEF ScanSettled
<1> QED BY <1>1, <1>2

LEMMA OfferStep ==
  ASSUME TypeOK, PromiseInv, OfferInv, [Next]_vars
  PROVE  OfferInv'
<1>1. CASE Network \/ Laptop \/ UNCHANGED vars
  <2>1. UNCHANGED <<screen, phone, answers>>
    BY <1>1, ClientFrame DEF vars
  <2> QED BY <2>1, OfferKept DEF OfferInv
<1> QED
  BY <1>1, ClientCallOffer, CallbackOffer, UserOffer, SettledOffer DEF Next

LEMMA InstallsShown ==
  ASSUME TypeOK, PromiseInv, OfferInv, [Next]_vars,
         store'.shown # store.shown
  PROVE  screen.op = "download" /\ SameFile(store'.shown.ticket, screen.asked)
<1>1. CASE Callback
  <2>1. PICK s \in Sessions :
          ReceiveCatalog(s) \/ FileArrives(s) \/ Complete(s)
    BY <1>1 DEF Callback
  <2>2. FileArrives(s)
    BY <2>1 DEF ReceiveCatalog, Complete
  <2>3. phone.session = s /\ phone.incoming # NoPin
    BY <2>2 DEF FileArrives
  <2>4. [Installed(phone.incoming, task[s].reply) EXCEPT !.shown = store.shown].shown
          = store.shown
    BY DEF Installed, TypeOK
  <2>5. /\ Matches(task[s].reply)
        /\ store' = Installed(phone.incoming, task[s].reply)
    BY <2>2, <2>3, <2>4 DEF FileArrives
  <2>6. store'.shown.ticket = task[s].reply
    <3>1. phone.incoming \in Pin
      BY <2>3, TicketType DEF TypeOK, Phone
    <3>2. [phone.incoming EXCEPT !.ticket = task[s].reply].ticket = task[s].reply
      BY <3>1 DEF Pin
    <3>3. store'.shown = [phone.incoming EXCEPT !.ticket = task[s].reply]
      BY <2>5 DEF Installed, TypeOK
    <3> QED BY <3>2, <3>3
  <2>7. phone.incoming.ticket = screen.asked
    BY <2>3 DEF OfferInv
  <2>8. screen.op = "download"
    BY <2>3 DEF PromiseInv, KindInv, PhoneOK
  <2> QED BY <2>5, <2>6, <2>7, <2>8 DEF Matches
<1>2. CASE ClientCall
  <2>1. CASE ConnectCall \/ DownloadCall \/ RefreshCall \/ SignersCall
             \/ CancelCall \/ DisconnectCall
    BY <2>1 DEF ConnectCall, DownloadCall, RefreshCall, SignersCall,
       CancelCall, DisconnectCall
  <2>2. ASSUME NEW trusted, store' = [store EXCEPT !.trusted = trusted]
        PROVE  FALSE
    BY <2>2 DEF TypeOK
  <2>3. CASE ApproveCall \/ RevokeCall \/ ForgetCall
    <3>1. CASE ApproveCall
      BY <2>2, <3>1 DEF ApproveCall
    <3>2. CASE RevokeCall
      BY <2>2, <3>2 DEF RevokeCall
    <3>3. CASE ForgetCall
      BY <2>2, <3>3 DEF ForgetCall
    <3> QED BY <2>3, <3>1, <3>2, <3>3
  <2> QED BY <1>2, <2>1, <2>3 DEF ClientCall
<1>3. CASE ~ClientCall /\ ~Callback
  BY <1>3, ClientFrame, ScreenFrame DEF Next, vars
<1> QED BY <1>1, <1>2, <1>3

(* What gets installed is what the list showed when the user chose it,     *)
(* though lists are refreshed, keys approved and downloads cancelled       *)
(* meanwhile (operation, download, didFinishDownloading).                  *)
THEOREM InstallsHold == Spec => InstalledWasShown
<1>1. Init => OfferInv
  BY DEF Init, OfferInv, ListOffered, Showing, Listing, QuietScreen, IdlePhone
<1>2. LaptopInv /\ OfferInv /\ [Next]_vars => OfferInv'
  BY OfferStep DEF LaptopInv
<1>3. LaptopInv /\ OfferInv /\ [Next]_vars =>
        [store'.shown # store.shown =>
           screen.op = "download"
           /\ SameFile(store'.shown.ticket, screen.asked)]_vars
  BY InstallsShown DEF LaptopInv
<1> QED BY <1>1, <1>2, <1>3, LaptopInvariant, PTL DEF Spec, InstalledWasShown

=============================================================================
