------------------------------ MODULE AirtimeVend ------------------------------
(***************************************************************************)
(* One airtime transaction, from the partner's request to the row being    *)
(* COMPLETE: the request and the confirm-payment handlers, the four topics  *)
(* of the Airtime consumer, its handlers split at their awaits, its requery *)
(* timers, the vendors.                                                    *)
(*                                                                         *)
(*   VendorController.confirmPayment,        controllers/Public/           *)
(*   AirtimeVendController.requestAirtime,   VendorApi.controller          *)
(*     .confirmPayment                                                     *)
(*   TokenHandler, TokenHandlerUtil          kafka/modules/consumers/      *)
(*                                           Airtime                       *)
(*                                                                         *)
(* It differs from TokenVend where the code does: an error ends a purchase, *)
(* a repurchase keeps the reference, BAXI gets a random one every time,     *)
(* timers are not awaited, the last handler only requeries and completes.   *)
(***************************************************************************)
EXTENDS VendorSelection, EventLog, VendorClients

CONSTANTS
  MaxRequery,   \* MAX_REQUERY_PER_VENDOR
  Requests,     \* requestAirtime calls
  Confirmations, \* confirmPayment calls
  BankRef,      \* the bankRefId of each call
  MaxFaults,    \* bound: purchases without success, errors, late replies, lost messages,
                \* requests that overlap
  MaxCrashes    \* bound: deaths of the process

ASSUME VendorsAssumption == None \notin Vendors /\ Irecharge # Buypower
ASSUME OpeningAssumption == Opening \subseteq Vendors
ASSUME RateAssumption == Rate \in [Vendors -> Nat]
ASSUME LimitsAssumption ==
  MaxRequery \in Nat \ {0} /\ MaxFaults \in Nat /\ MaxCrashes \in Nat

VARIABLES
  status,     \* Transaction.status
  bankRef,    \* Transaction.bankRefId
  row,        \* the other columns the consumer works on
  log,        \* the Event rows of the transaction
  queue,      \* messages no handler has taken
  handler,    \* the AirtimeConsumer: its message and where its handler is
  timers,     \* requeries waiting for their setTimeout, by retry count
  request,    \* where each request is in requestAirtime
  confirm,    \* where each confirmation is in confirmPayment
  pending, delivered,   \* the vends a vendor works on, or has delivered
  dropped,    \* history: a handler threw, a message or a timer was lost
  prompt,     \* history: every purchase was answered with its final outcome
  unread,     \* history: a reply of BAXI was taken for the success it is not
  overlapped, \* history: two requests were past the checks before either was written
  repeated,   \* history: what a handler had bought or sent was handed out again
  nextKey,    \* the next random agentReference for BAXI
  faults, crashes


store   == <<status, bankRef, row, log>>
vendors == <<pending, delivered>>
bounds  == <<faults, crashes>>
calls   == <<request, confirm>>
repeats == <<overlapped, repeated>>
history == <<dropped, prompt, unread, repeats>>
vars    == <<store, queue, handler, timers, calls, vendors, history, nextKey, bounds>>

-----------------------------------------------------------------------------
(* Types *)

Statuses == {"PENDING", "COMPLETE", "FLAGGED"}

RetryCounts == 1..MaxRequery

(* The topics of the consumer, with the fields its handlers read.           *)
Messages ==
  [topic : {"purchase", "received"}] \cup
  [topic : {"requery"}, count : RetryCounts] \cup
  [topic : {"switch"}, vendor : Vendors]

PurchaseMessage == [topic |-> "purchase"]
ReceivedMessage == [topic |-> "received"]
RequeryMessage(n) == [topic |-> "requery", count |-> n]
SwitchMessage(v) == [topic |-> "switch", vendor |-> v]

Row == [superagent : Vendors,
        token      : BOOLEAN,   \* irechargeAccessToken is set
        previous   : PreviousVendors]

(* A vend is a vendor and the reference it was asked with; 0 is              *)
(* transaction.reference, which never changes.                               *)
Vends == Vendors \X Nat

HandlerPCs == {"idle", "vend", "save", "announce", "ask", "check", "timer",
               "complete", "choose", "handover", "move", "republish", "commit"}

Handler == [pc   : HandlerPCs,
            msg  : Messages \cup {None},
            snap : Row \cup {None},       \* the row as the handler read it
            next : Vendors \cup {None}]   \* the vendor it will hand over to

IdleHandler == [pc |-> "idle", msg |-> None, snap |-> None, next |-> None]

RequestPCs == {"new", "reference", "update", "publish", "done", "refused"}

ConfirmPCs == {"new", "update", "done"}

TypeOK ==
  /\ status \in Statuses
  /\ row \in Row
  /\ queue \in [Messages -> Nat]
  /\ handler \in Handler
  /\ timers \in [RetryCounts -> Nat]
  /\ request \in [Requests -> RequestPCs]
  /\ confirm \in [Confirmations -> ConfirmPCs]
  /\ pending \subseteq Vends /\ delivered \subseteq Vends
  /\ dropped \in BOOLEAN /\ prompt \in BOOLEAN /\ unread \in BOOLEAN
  /\ overlapped \in BOOLEAN /\ repeated \in BOOLEAN
  /\ nextKey \in Nat /\ faults \in Nat /\ crashes \in Nat

-----------------------------------------------------------------------------
(* Vends *)

(* The vend a purchase starts: BAXI gets a random agentReference. *)
PurchaseVend(t) ==
  <<t.superagent, AirtimeReference(t.superagent, 0, nextKey)>>

(* The vend a requery asks about: IRECHARGE is asked by access token, and    *)
(* without one knows nothing.                                                *)
RequeryVend(t) ==
  <<t.superagent, IF t.superagent = Irecharge /\ ~t.token THEN None ELSE 0>>

Live  == pending \cup delivered

Outcome(p) == OutcomeIn(p, delivered, pending)

-----------------------------------------------------------------------------

Fault   == faults < MaxFaults /\ faults' = faults + 1
NoFault == UNCHANGED faults

(* Slip: the event is not awaited, and an error of its insert is lost. *)
AddEventsLost(events) == log' \in {log, log \cup events}

(* EventService.addEvent *)
AddEvents(events) == log' = log \cup events

Goto(pc) == handler' = [handler EXCEPT !.pc = pc]

(* The error of a handler is logged and the message counts as handled. *)
Drop == dropped' = TRUE /\ Goto("commit")

Keep == UNCHANGED dropped

(* ProducerFactory.sendMessage swallows the error of a failed send. *)
Publish(m) ==
  \/ queue' = [queue EXCEPT ![m] = @ + 1] /\ NoFault /\ Keep
  \/ Fault /\ dropped' = TRUE /\ UNCHANGED queue

-----------------------------------------------------------------------------
(* AirtimeVendController.requestAirtime *)

ReceiveRequest(q) ==
  /\ request[q] = "new"
  /\ request' = [request EXCEPT ![q] = IF status = "COMPLETE" THEN "refused"
                                                             ELSE "reference"]
  /\ UNCHANGED <<store, confirm, queue, handler, timers, vendors, history, nextKey, bounds>>

(* Slip: the reference is not looked up. *)
CheckNothing(q) ==
  /\ request[q] = "reference"
  /\ request' = [request EXCEPT ![q] = "update"]
  /\ AddEvents({AirtimePurchaseInitiated})
  /\ UNCHANGED <<status, bankRef, row, confirm, queue, handler, timers, vendors, history, nextKey, bounds>>

(* "Check if reference has been used before": by this transaction; the request *)
(* ends the same way, without a trace, when another one has it.              *)
CheckReference(q) ==
  /\ request[q] = "reference"
  /\ request' = [request EXCEPT ![q] = IF bankRef = BankRef[q] THEN "refused"
                                                               ELSE "update"]
  /\ AddEvents(IF bankRef = BankRef[q] THEN {} ELSE {AirtimePurchaseInitiated})
  /\ UNCHANGED <<status, bankRef, row, confirm, queue, handler, timers, vendors, history, nextKey, bounds>>

(* Another request has looked up its reference, and not written it yet. *)
Overlaps(q) == \E p \in Requests \ {q} : request[p] = "update"

SaveRequest(q) ==
  /\ request[q] = "update"
  /\ status' = "PENDING"
  /\ bankRef' = BankRef[q]
  /\ request' = [request EXCEPT ![q] = "publish"]
  /\ overlapped' = (overlapped \/ Overlaps(q))
  /\ IF Overlaps(q) THEN Fault ELSE NoFault
  /\ UNCHANGED <<row, log, confirm, queue, handler, timers, vendors, dropped, prompt, unread,
                 repeated, nextKey, crashes>>

PublishRequest(q) ==
  /\ request[q] = "publish"
  /\ Publish(PurchaseMessage)
  /\ request' = [request EXCEPT ![q] = "done"]
  /\ UNCHANGED <<store, confirm, handler, timers, vendors, prompt, unread, repeats, nextKey, crashes>>

-----------------------------------------------------------------------------
(* VendorController.confirmPayment looks up the reference, and                 *)
(* AirtimeVendController.confirmPayment the transactionId: the transaction it  *)
(* confirms need not be the one that was found.  A call that finds nothing    *)
(* leaves no trace.                                                          *)

LogConfirmation(c) ==
  /\ confirm[c] = "new"
  /\ AddEvents({AirtimePurchaseConfirmed})
  /\ confirm' = [confirm EXCEPT ![c] = "update"]
  /\ UNCHANGED <<status, bankRef, row, request, queue, handler, timers, vendors, history, nextKey, bounds>>

(* What the vendors made of the purchase is not asked.  Nobody consumes the    *)
(* topic that is published in the end.                                       *)
SaveConfirmation(c) ==
  /\ confirm[c] = "update"
  /\ status' = "COMPLETE"
  /\ bankRef' = BankRef[c]
  /\ confirm' = [confirm EXCEPT ![c] = "done"]
  /\ UNCHANGED <<row, log, request, queue, handler, timers, vendors, history, nextKey, bounds>>

-----------------------------------------------------------------------------
(* The consumer.  A batch is one message here: several would only be         *)
(* handed out again together.                                                *)

(* Every handler starts by reading the row.  handleAirtimeRecievd throws     *)
(* when it is COMPLETE.                                                      *)
Begin ==
  /\ handler.pc = "idle"
  /\ \E m \in Messages :
       /\ queue[m] > 0
       /\ queue' = [queue EXCEPT ![m] = @ - 1]
       /\ handler' = [IdleHandler EXCEPT !.msg = m, !.snap = row, !.pc =
            CASE m.topic = "purchase" -> "vend"
              [] m.topic = "requery"  -> "ask"
              [] m.topic = "switch"   -> "move"
              [] m.topic = "received" -> IF status = "COMPLETE" THEN "commit"
                                                                ELSE "check"]
  /\ UNCHANGED <<store, timers, calls, vendors, history, nextKey, bounds>>

Commit ==
  /\ handler.pc = "commit"
  /\ handler' = IdleHandler
  /\ UNCHANGED <<store, queue, timers, calls, vendors, history, nextKey, bounds>>

(* Any await may fail, and nothing catches it. *)
Throw ==
  /\ handler.pc \notin {"idle", "commit"}
  /\ Fault /\ Drop
  /\ UNCHANGED <<store, queue, timers, calls, vendors, prompt, unread, repeats, nextKey, crashes>>

(* The handler has asked for a purchase, or may have sent a message or started *)
(* a timer.                                                                  *)
Acted ==
  \/ handler.pc \in {"complete", "commit"}
  \/ handler.pc # "idle" /\ handler.msg.topic = "purchase" /\ handler.pc # "vend"

(* The process dies: the uncommitted message comes back, timers do not. *)
Crash ==
  /\ crashes < MaxCrashes
  /\ crashes' = crashes + 1
  /\ handler' = IdleHandler
  /\ queue' = IF handler.pc = "idle" THEN queue
                                     ELSE [queue EXCEPT ![handler.msg] = @ + 1]
  /\ timers' = [n \in RetryCounts |-> 0]
  /\ dropped' = (dropped \/ \E n \in RetryCounts : timers[n] > 0)
  /\ repeated' = (repeated \/ Acted)
  /\ UNCHANGED <<store, calls, vendors, prompt, unread, overlapped, nextKey, faults>>

-----------------------------------------------------------------------------
(* handleAirtimeRequest *)

(* What the vendor does with vend p: a reference that failed may do better    *)
(* another time.                                                             *)
Carry(p) ==
  \/ p \notin Live /\ delivered' = delivered \cup {p} /\ UNCHANGED pending
  \/ p \notin Live /\ pending' = pending \cup {p} /\ UNCHANGED delivered
  \/ UNCHANGED vendors            \* it fails, is refused or does not reach the vendor

(* Where handleAirtimeRequest goes on the vendor's reply. *)
AfterPurchase(v, res) ==
  CASE PhonePurchaseReading(v, res) = "success" -> "save"
    [] PhonePurchaseReading(v, res) = "open"    -> "timer"
    [] OTHER                                    -> "choose"

(* No error of the purchase is caught, and a vendor may refuse a reference it  *)
(* has a purchase for.                                                       *)
Purchase ==
  LET v == handler.snap.superagent
      p == PurchaseVend(handler.snap) IN
  /\ handler.pc = "vend"
  /\ Carry(p)
  /\ \E r \in PurchaseReplies(v, OutcomeIn(p, delivered', pending'))
             \cup (IF p \in Live THEN Refusals ELSE {}) :
       LET res == PurchaseAirtime(v, r) IN
       IF Thrown(res) THEN Drop ELSE Goto(AfterPurchase(v, res)) /\ Keep
  /\ IF handler'.pc = "save" /\ p \in delivered' THEN NoFault ELSE Fault
  /\ prompt' = (prompt /\ (handler'.pc = "save" \/ p \notin Live'))
  /\ unread' = (unread \/ (handler'.pc = "save" /\ p \notin delivered'))
  /\ nextKey' = IF IsBaxi(v) THEN nextKey + 1 ELSE nextKey
  /\ AddEvents(IF handler'.pc = "commit" THEN {} ELSE {VendAirtimeRequested})
  /\ UNCHANGED <<status, bankRef, row, queue, timers, calls, repeats, crashes>>

(* The reply's ref becomes the access token of later requeries. *)
SaveToken ==
  /\ handler.pc = "save"
  /\ row' = [row EXCEPT !.token = @ \/ handler.snap.superagent = Irecharge]
  /\ Goto("announce")
  /\ UNCHANGED <<status, bankRef, log, queue, timers, calls, vendors, history, nextKey, bounds>>

(* publishEventForAirtimeReceivedFromVendor, from both handlers *)
Announce ==
  /\ handler.pc = "announce"
  /\ AddEvents({IF handler.msg.topic = "purchase"
                THEN AirtimeReceived(handler.snap.superagent)
                ELSE AirtimeTransactionRequery(handler.snap.superagent)})
  /\ Publish(ReceivedMessage)
  /\ Goto("commit")
  /\ UNCHANGED <<status, bankRef, row, timers, calls, vendors, prompt, unread, repeats, nextKey, crashes>>

-----------------------------------------------------------------------------
(* requeryTransaction and handleAirtimeRecievd *)

(* Slip: a vend still pending is announced. *)
AfterRequeryFallsThrough(v, res) ==
  IF PhoneRequeryReading(v, res) = "failed" THEN "choose" ELSE "announce"

(* Slip: the success a requery finds is not announced. *)
AfterRequeryKeepsSilent(v, res) ==
  IF PhoneRequeryReading(v, res) = "open" THEN "timer" ELSE "commit"

(* Where requeryTransaction goes on a reply that is no error. *)
AfterRequery(v, res) ==
  CASE PhoneRequeryReading(v, res) = "announced" -> "announce"
    [] PhoneRequeryReading(v, res) = "open"      -> "timer"
    [] OTHER                                     -> "choose"

(* The vendor's reply to a requery: the outcome, or late news of it. *)
Hears(r) ==
  LET v == handler.snap.superagent IN
  \/ r \in RequeryReplies(v, Outcome(RequeryVend(handler.snap))) /\ NoFault
  \/ r \in RequeryReplies(v, "pending") /\ Fault

(* No error of the requery is caught: BUYPOWERNG's pending and failed vends    *)
(* are errors.                                                               *)
Requery ==
  LET v == handler.snap.superagent IN
  /\ handler.pc = "ask"
  /\ \E r \in AnyRequeryReply(v) :
       LET res == Requeried(v, r) IN
       /\ Hears(r)
       /\ IF Thrown(res) THEN Drop ELSE Goto(AfterRequery(v, res)) /\ Keep
       /\ unread' = (unread \/ (IsBaxi(v) /\ r.status # "success"))
  /\ AddEvents({AirtimeRequeryInitiated(v)})
  /\ UNCHANGED <<status, bankRef, row, queue, timers, calls, vendors, prompt, repeats, nextKey, crashes>>

(* handleAirtimeRecievd requeries too; without success it starts a requery   *)
(* of its own, and completes the transaction all the same.                   *)
CheckReceived ==
  LET v == handler.snap.superagent IN
  /\ handler.pc = "check"
  /\ \E r \in AnyRequeryReply(v) :
       LET res == Requeried(v, r) IN
       /\ Hears(r)
       /\ IF Thrown(res) THEN Drop
          ELSE Goto(IF VendSucceeded(v, res.reply) THEN "complete" ELSE "timer") /\ Keep
  /\ AddEvents(IF handler'.pc = "timer" THEN {AirtimeTransactionRequery(v)} ELSE {})
  /\ UNCHANGED <<status, bankRef, row, queue, timers, calls, vendors, prompt, unread, repeats, nextKey, crashes>>

Complete ==
  /\ handler.pc = "complete"
  /\ status' = "COMPLETE"
  /\ Goto("commit")
  /\ UNCHANGED <<bankRef, row, log, queue, timers, calls, vendors, history, nextKey, bounds>>

-----------------------------------------------------------------------------
(* triggerEventToRequeryTransactionTokenFromVendor *)

NextCount == IF handler.msg.topic = "requery" THEN handler.msg.count + 1 ELSE 1

AfterTimer == IF handler.msg.topic = "received" THEN "complete" ELSE "commit"

WithinLimit(n) == n < MaxRequery

FlagTransaction ==
  /\ handler.pc = "timer"
  /\ ~WithinLimit(NextCount)
  /\ status' = "FLAGGED"
  /\ Goto(AfterTimer)
  /\ UNCHANGED <<bankRef, row, log, queue, timers, calls, vendors, history, nextKey, bounds>>

(* Whatever IRECHARGE said is logged as a timeout of the purchase. *)
TimerEvents ==
  {AirtimeRetry(handler.snap.superagent)} \cup
  (IF handler.msg.topic = "purchase" THEN {AirtimeRequestTimedOut} ELSE {})

StartTimer ==
  /\ handler.pc = "timer"
  /\ WithinLimit(NextCount)
  /\ timers' = [timers EXCEPT ![NextCount] = @ + 1]
  /\ AddEvents(TimerEvents)
  /\ Goto(AfterTimer)
  /\ UNCHANGED <<status, bankRef, row, queue, calls, vendors, history, nextKey, bounds>>

TimerFires(n) ==
  /\ timers[n] > 0
  /\ timers' = [timers EXCEPT ![n] = @ - 1]
  /\ Publish(RequeryMessage(n))
  /\ UNCHANGED <<store, handler, calls, vendors, prompt, unread, repeats, nextKey, crashes>>

-----------------------------------------------------------------------------
(* triggerEventToRetryTransactionWithNewVendor, retryPowerPurchaseWithNewVendor *)

(* With a single vendor sortedOtherVendors[0] is undefined: a TypeError.     *)
ChooseVendor ==
  LET t == handler.snap
      next == NextVendors(t.superagent, t.previous) IN
  /\ handler.pc = "choose"
  /\ IF next = {} THEN Drop /\ UNCHANGED <<row, log>>
     ELSE \E v \in next :
            /\ AddEvents({AirtimeNewVendor(t.superagent, v)})
            /\ row' = [row EXCEPT !.previous = [seen |-> t.previous.seen \cup {v},
                                                len  |-> t.previous.len + 1]]
            /\ handler' = [handler EXCEPT !.pc = "handover", !.next = v]
            /\ Keep
  /\ UNCHANGED <<status, bankRef, queue, timers, calls, vendors, prompt, unread, repeats, nextKey, bounds>>

HandOver ==
  /\ handler.pc = "handover"
  /\ Publish(SwitchMessage(handler.next))
  /\ Goto("commit")
  /\ UNCHANGED <<store, timers, calls, vendors, prompt, unread, repeats, nextKey, crashes>>

MoveToVendor ==
  /\ handler.pc = "move"
  /\ row' = [row EXCEPT !.superagent = handler.msg.vendor]
  /\ Goto("republish")
  /\ UNCHANGED <<status, bankRef, log, queue, timers, calls, vendors, history, nextKey, bounds>>

Republish ==
  /\ handler.pc = "republish"
  /\ AddEvents({AirtimePurchaseInitiated})
  /\ Publish(PurchaseMessage)
  /\ Goto("commit")
  /\ UNCHANGED <<status, bankRef, row, timers, calls, vendors, prompt, unread, repeats, nextKey, crashes>>

-----------------------------------------------------------------------------
Decide(p) ==
  /\ pending' = pending \ {p}
  /\ delivered' \in {delivered, delivered \cup {p}}
  /\ UNCHANGED <<store, queue, handler, timers, calls, history, nextKey, bounds>>

(* The row validateAirtimeRequest creates. *)
Init ==
  /\ status = "PENDING" /\ bankRef = None
  /\ \E v \in Opening : row = NewAirtimeRow(v)
  /\ log = {}
  /\ queue = [m \in Messages |-> 0]
  /\ handler = IdleHandler
  /\ timers = [n \in RetryCounts |-> 0]
  /\ request = [q \in Requests |-> "new"]
  /\ confirm = [c \in Confirmations |-> "new"]
  /\ pending = {} /\ delivered = {}
  /\ dropped = FALSE /\ prompt = TRUE /\ unread = FALSE
  /\ overlapped = FALSE /\ repeated = FALSE
  /\ nextKey = 1
  /\ faults = 0 /\ crashes = 0

RequestStep(q) ==
  ReceiveRequest(q) \/ CheckReference(q) \/ SaveRequest(q) \/ PublishRequest(q)

ConfirmStep(c) == LogConfirmation(c) \/ SaveConfirmation(c)

(* What the running process does by itself. *)
ProcessStep ==
  \/ Begin \/ Commit \/ Purchase \/ SaveToken \/ Announce
  \/ Requery \/ CheckReceived \/ Complete \/ FlagTransaction \/ StartTimer
  \/ ChooseVendor \/ HandOver \/ MoveToVendor \/ Republish

Next ==
  \/ \E q \in Requests : RequestStep(q)
  \/ \E c \in Confirmations : ConfirmStep(c)
  \/ ProcessStep \/ Throw \/ Crash
  \/ \E n \in RetryCounts : TimerFires(n)
  \/ \E p \in pending : Decide(p)

Spec == Init /\ [][Next]_vars

(* Kafka hands over a waiting message, awaits and timers end, vendors decide. *)
Fairness ==
  /\ WF_vars(ProcessStep)
  /\ \A n \in RetryCounts : WF_vars(TimerFires(n))
  /\ WF_vars(\E p \in pending : Decide(p))

FairSpec == Spec /\ Fairness

-----------------------------------------------------------------------------
(* Safety *)

(* A transaction is COMPLETE only when some vendor delivered, through every   *)
(* request, crash and lost message, unless confirmPayment was called for it,  *)
(* which does not ask, or a reply of BAXI, which is looked at for its code    *)
(* only or not at all, was announced without a success: the unheeded requery  *)
(* of handleAirtimeRecievd does no harm.                                     *)
CompleteUnlessConfirmed ==
  status = "COMPLETE" =>
    delivered # {} \/ unread \/ \E c \in Confirmations : confirm[c] = "done"

(* Requeries stay within MAX_REQUERY_PER_VENDOR, wherever the count has been: *)
(* in a timer, in a message, in a handler.                                   *)
RequeriesWithinLimit ==
  \A n \in RetryCounts : timers[n] + queue[RequeryMessage(n)] > 0 => n < MaxRequery

(* The log is written ahead of the row: a transaction is with a vendor or      *)
(* COMPLETE only after an event that says so.  An operator who reads the log  *)
(* of a transaction that crashes left behind sees where it was going, or that *)
(* somebody confirmed it.                                                    *)
LoggedFirst ==
  [][/\ row'.superagent # row.superagent =>
          \E v \in Vendors : AirtimeNewVendor(v, row'.superagent) \in log
     /\ status' = "COMPLETE" /\ status # "COMPLETE" =>
          \/ AirtimePurchaseConfirmed \in log
          \/ \E v \in Vendors :
               {AirtimeReceived(v), AirtimeTransactionRequery(v)} \cap log # {}]_vars

Accepted == {q \in Requests : request[q] \in {"publish", "done"}}
Confirmed == {c \in Confirmations : confirm[c] # "new"}

(* Every call that was let through names the same payment. *)
OnePayment == \A p, q \in Accepted \cup Confirmed : BankRef[p] = BankRef[q]

(* One payment buys once, however often the partner asks and confirms,        *)
(* through every switch and requery, and through the crashes before a handler *)
(* has done what cannot be done again, although BAXI's reference is never the *)
(* same.  It takes two requests at the same time (the reference is looked up  *)
(* and written with awaits between), a repeated handler or a vend given up    *)
(* alive to buy twice.                                                       *)
AtMostOneDelivery ==
  prompt /\ ~overlapped /\ ~repeated /\ OnePayment => \A p, q \in delivered : p = q

-----------------------------------------------------------------------------
(* Liveness: an accepted purchase becomes COMPLETE or FLAGGED, unless a       *)
(* handler threw or a message was lost, or a second request was cut off       *)
(* between its write, which is PENDING again, and its message; a crash        *)
(* prevents it only when a requery was waiting for its timer.                *)
Resolution ==
  (\E q \in Requests : request[q] = "done") /\ (\A q \in Requests : request[q] # "publish")
    ~> status \in {"COMPLETE", "FLAGGED"} \/ dropped
=============================================================================
