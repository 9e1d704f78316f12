------------------------------- MODULE DataVend -------------------------------
(***************************************************************************)
(* One data bundle, from the partner's request to the row being COMPLETE:  *)
(* the request handler, the four topics of the Data consumer, its handlers *)
(* split at their awaits, and the vendors.                                 *)
(*                                                                         *)
(*   DataVendController.requestData          controllers/Public/           *)
(*                                           VendorApi.controller/Data     *)
(*   TokenHandler, TokenHandlerUtil          kafka/modules/consumers/Data  *)
(*                                                                         *)
(* The consumer is neither the Token nor the Airtime one: a purchase is    *)
(* followed by a requery at once and errors of both are caught, a vendor   *)
(* is retried under new references before it is left, the switch is both   *)
(* written and sent as a message, timers are awaited, and a requery that   *)
(* ends in an error counts as a delivery.                                  *)
(***************************************************************************)
EXTENDS VendorSelection, EventLog, VendorClients

CONSTANTS
  RetryLimit,   \* retry.retryCountBeforeSwitchingVendor
  MaxRequery,   \* MAX_REQUERY_PER_VENDOR
  Requests,     \* requestData calls
  BankRef,      \* the bankRefId of each
  MaxFaults,    \* bound: purchases without success, errors, late replies, lost messages,
                \* requests that overlap
  MaxCrashes    \* bound: deaths of the process and lost sessions

ASSUME VendorsAssumption == None \notin Vendors /\ Irecharge # Buypower
ASSUME NoReferenceAssumption == None \notin Nat
ASSUME OpeningAssumption == Opening \subseteq Vendors
ASSUME RateAssumption == Rate \in [Vendors -> Nat]
ASSUME LimitsAssumption ==
  /\ RetryLimit \in Nat \ {0} /\ MaxRequery \in Nat \ {0}
  /\ MaxFaults \in Nat /\ MaxCrashes \in Nat

VARIABLES
  status,     \* Transaction.status
  bankRef,    \* Transaction.bankRefId
  bundle,     \* Transaction.bundleId is set
  row,        \* the other columns the consumer works on
  log,        \* the Event rows of the transaction
  queue,      \* messages no handler has taken
  handler,    \* the DataConsumer: its message and where its handler is
  request,    \* where each request is in requestData
  pending, delivered, failed,   \* vends by what the vendors made of them
  dropped,    \* history: a handler threw, or a message it sent was lost
  prompt,     \* history: no handler gave up a vend that was alive
  unread,     \* history: a reply was announced that is an error or no success of BAXI's
  overlapped, \* history: two requests were past the checks before either was written
  repeated,   \* history: what a handler had bought or sent was handed out again
  nextRef,    \* the next random reference
  faults, crashes

store   == <<status, bankRef, bundle, row, log>>
vendors == <<pending, delivered, failed>>
repeats == <<overlapped, repeated>>
history == <<dropped, prompt, unread, repeats>>
bounds  == <<faults, crashes>>
vars    == <<store, queue, handler, request, vendors, history, nextRef, bounds>>

-----------------------------------------------------------------------------
(* Types *)

Statuses == {"PENDING", "COMPLETE", "FLAGGED"}

RetryCounts == 1..MaxRequery

(* The topics of the consumer, with the fields its handlers read.  record    *)
(* says that vendorRetryRecord is in the message: the last entry of          *)
(* retryRecord, which is undefined until something was retried.              *)
Messages ==
  [topic : {"purchase", "received"}] \cup
  [topic : {"requery"}, count : RetryCounts, record : BOOLEAN] \cup
  [topic : {"switch"}, vendor : Vendors]

PurchaseMessage == [topic |-> "purchase"]
ReceivedMessage == [topic |-> "received"]
RequeryMessage(n, rec) == [topic |-> "requery", count |-> n, record |-> rec]
SwitchMessage(v) == [topic |-> "switch", vendor |-> v]

(* The last entry of retryRecord, the only one the code reads. *)
RetryRecord == [vendor : Vendors, count : Nat, ref : Nat]

Row == [superagent : Vendors,
        reference  : Nat,
        access     : Nat \cup {None},   \* reference irechargeAccessToken was issued for
        record     : RetryRecord \cup {None},
        previous   : PreviousVendors]

Vends == Vendors \X Nat

(* What the purchase call of a vendor's client returns or throws. *)
Results ==
  UNION {{PurchaseData(v, r) : r \in UNION {PurchaseReplies(v, o) : o \in Outcomes}}
         : v \in Vendors}

HandlerPCs == {"idle", "vend", "probe", "save", "announce", "ask", "timer", "timedout",
               "complete", "choose", "write", "handover", "move", "republish",
               "commit"}

Handler == [pc    : HandlerPCs,
            msg   : Messages \cup {None},
            snap  : Row \cup {None},      \* the row as the handler read it
            next  : Row \cup {None},      \* the row it is about to write
            vend  : Vends \cup {None},    \* the vend it asked for
            reply : Results \cup {None}]  \* and what came of it

IdleHandler == [pc |-> "idle", msg |-> None, snap |-> None, next |-> None,
                vend |-> None, reply |-> None]

RequestPCs == {"new", "reference", "update", "publish", "done", "refused"}

TypeOK ==
  /\ status \in Statuses /\ bundle \in BOOLEAN
  /\ row \in Row
  /\ queue \in [Messages -> Nat]
  /\ handler \in Handler
  /\ request \in [Requests -> RequestPCs]
  /\ pending \subseteq Vends /\ delivered \subseteq Vends /\ failed \subseteq Vends
  /\ dropped \in BOOLEAN /\ prompt \in BOOLEAN /\ unread \in BOOLEAN
  /\ overlapped \in BOOLEAN /\ repeated \in BOOLEAN
  /\ nextRef \in Nat /\ faults \in Nat /\ crashes \in Nat

-----------------------------------------------------------------------------
(* Vends *)

(* The vend a purchase starts: BAXI gets a random agentReference. *)
PurchaseVend(t) ==
  <<t.superagent, DataReference(t.superagent, t.reference, nextRef)>>

(* The vend a requery asks about: IRECHARGE is asked by access token.        *)
RequeryVend(t) ==
  <<t.superagent, IF t.superagent = Irecharge THEN t.access ELSE t.reference>>

Live  == pending \cup delivered
Known == Live \cup failed

Outcome(p) == OutcomeIn(p, delivered, pending)

-----------------------------------------------------------------------------

Fault   == faults < MaxFaults /\ faults' = faults + 1
NoFault == UNCHANGED faults

(* Slip: the event is not awaited, and an error of its insert is lost. *)
AddEventsLost(events) == log' \in {log, log \cup events}

(* EventService.addEvent *)
AddEvents(events) == log' = log \cup events

Goto(pc) == handler' = [handler EXCEPT !.pc = pc]

(* The error of a handler is logged and the message counts as handled. *)
Drop == dropped' = TRUE /\ Goto("commit")

Keep == UNCHANGED dropped

(* ProducerFactory.sendMessage swallows the error of a failed send. *)
Publish(m) ==
  \/ queue' = [queue EXCEPT ![m] = @ + 1] /\ NoFault /\ Keep
  \/ Fault /\ dropped' = TRUE /\ UNCHANGED queue

-----------------------------------------------------------------------------
(* DataVendController.requestData *)

ReceiveRequest(q) ==
  /\ request[q] = "new"
  /\ request' = [request EXCEPT ![q] = IF status = "COMPLETE" THEN "refused"
                                                             ELSE "reference"]
  /\ UNCHANGED <<store, queue, handler, vendors, history, nextRef, bounds>>

(* "Check if reference has been used before": by this transaction; the request *)
(* ends the same way, without a trace, when another one has it.  The status   *)
(* looked at again is the one read before.                                   *)
CheckReference(q) ==
  /\ request[q] = "reference"
  /\ request' = [request EXCEPT ![q] = IF bankRef = BankRef[q] THEN "refused"
                                                               ELSE "update"]
  /\ AddEvents(IF bankRef = BankRef[q] THEN {} ELSE {DataPurchaseInitiated})
  /\ UNCHANGED <<status, bankRef, bundle, row, queue, handler, vendors, history, nextRef, bounds>>

(* Another request has looked up its reference, and not written it yet. *)
Overlaps(q) == \E p \in Requests \ {q} : request[p] = "update"

(* The row is written before it is known to be one of a bundle. *)
SaveRequest(q) ==
  /\ request[q] = "update"
  /\ status' = "PENDING"
  /\ bankRef' = BankRef[q]
  /\ request' = [request EXCEPT ![q] = IF bundle THEN "publish" ELSE "refused"]
  /\ overlapped' = (overlapped \/ Overlaps(q))
  /\ IF Overlaps(q) THEN Fault ELSE NoFault
  /\ UNCHANGED <<bundle, row, log, queue, handler, vendors, dropped, prompt, unread, repeated,
                 nextRef, crashes>>

PublishRequest(q) ==
  /\ request[q] = "publish"
  /\ Publish(PurchaseMessage)
  /\ request' = [request EXCEPT ![q] = "done"]
  /\ UNCHANGED <<store, handler, vendors, prompt, unread, repeats, nextRef, crashes>>

-----------------------------------------------------------------------------
(* The consumer.  A batch is one message here: several would only be         *)
(* handed out again together.                                                *)

(* Every handler starts by reading the row.  handleDataRecievd throws when   *)
(* it is COMPLETE.                                                           *)
Begin ==
  /\ handler.pc = "idle"
  /\ \E m \in Messages :
       /\ queue[m] > 0
       /\ queue' = [queue EXCEPT ![m] = @ - 1]
       /\ handler' = [IdleHandler EXCEPT !.msg = m, !.snap = row, !.pc =
            CASE m.topic = "purchase" -> "vend"
              [] m.topic = "requery"  -> "ask"
              [] m.topic = "switch"   -> "move"
              [] m.topic = "received" -> IF status = "COMPLETE" THEN "commit"
                                                                ELSE "complete"]
  /\ UNCHANGED <<store, request, vendors, history, nextRef, bounds>>

(* Slip: the offset of the message is not resolved. *)
CommitNothing ==
  /\ handler.pc = "commit"
  /\ handler' = IdleHandler
  /\ queue' = [queue EXCEPT ![handler.msg] = @ + 1]
  /\ UNCHANGED <<store, request, vendors, history, nextRef, bounds>>

Commit ==
  /\ handler.pc = "commit"
  /\ handler' = IdleHandler
  /\ UNCHANGED <<store, queue, request, vendors, history, nextRef, bounds>>

(* Any other await may fail, and nothing catches it. *)
Throw ==
  /\ handler.pc \notin {"idle", "commit"}
  /\ Fault /\ Drop
  /\ UNCHANGED <<store, queue, request, vendors, prompt, unread, repeats, nextRef, crashes>>

(* The handler has asked for a purchase, or may have sent a message. *)
Acted ==
  \/ handler.pc = "commit"
  \/ handler.msg.topic = "purchase" /\ handler.pc # "vend"

(* The uncommitted message is handed out again: the process dies, or its     *)
(* handler waits longer than the session lasts and goes on.                  *)
Redeliver ==
  /\ crashes < MaxCrashes
  /\ crashes' = crashes + 1
  /\ handler.pc # "idle"
  /\ queue' = [queue EXCEPT ![handler.msg] = @ + 1]
  /\ handler' \in {handler, IdleHandler}
  /\ repeated' = (repeated \/ handler' = handler \/ Acted)
  /\ UNCHANGED <<store, request, vendors, dropped, prompt, unread, overlapped, nextRef, faults>>

-----------------------------------------------------------------------------
(* handleDataRequest *)

(* What the vendor does with vend p. *)
Carry(p) ==
  \/ p \notin Known /\ delivered' = delivered \cup {p} /\ UNCHANGED <<pending, failed>>
  \/ p \notin Known /\ pending' = pending \cup {p} /\ UNCHANGED <<delivered, failed>>
  \/ p \notin Known /\ failed' = failed \cup {p} /\ UNCHANGED <<pending, delivered>>
  \/ UNCHANGED vendors            \* it knows the reference, or is not reached

(* processVendRequest; its error is caught.  A vendor may refuse a reference   *)
(* it knows.                                                                 *)
Purchase ==
  LET v == handler.snap.superagent
      p == PurchaseVend(handler.snap) IN
  /\ handler.pc = "vend"
  /\ Carry(p)
  /\ \E r \in PurchaseReplies(v, OutcomeIn(p, delivered', pending'))
             \cup (IF p \in Known THEN Refusals ELSE {}) :
       LET res == PurchaseData(v, r) IN
       /\ IF \/ p \in delivered' /\ PhonePurchaseReading(v, res) = "success"
             \/ p \in Known /\ r \in Refusals
          THEN NoFault ELSE Fault
       /\ handler' = [handler EXCEPT !.pc = "probe", !.vend = p, !.reply = res]
  /\ nextRef' = IF IsBaxi(v) THEN nextRef + 1 ELSE nextRef
  /\ UNCHANGED <<store, queue, request, history, crashes>>

(* The vendor's reply to a requery: the outcome, late news of it or none.      *)
Hears(r) ==
  LET v == handler.snap.superagent IN
  \/ r \in RequeryReplies(v, Outcome(RequeryVend(handler.snap))) /\ NoFault
  \/ r \in RequeryReplies(v, "pending") \cup NoAnswer /\ Fault

(* Where handleDataRequest goes on the replies to the purchase and to the      *)
(* requery that follows it.                                                  *)
AfterPurchase(v, res, probe) ==
  CASE DataReading(v, res, probe) = "timed out" -> "timer"
    [] DataReading(v, res, probe) = "success"   -> "save"
    [] DataReading(v, res, probe) = "open"      -> "timedout"
    [] OTHER                                    -> "choose"

Probe ==
  LET v == handler.snap.superagent IN
  /\ handler.pc = "probe"
  /\ \E r \in AnyRequeryReply(v) \cup NoAnswer :
       /\ Hears(r)
       /\ Goto(AfterPurchase(v, handler.reply, Requeried(v, r)))
  /\ prompt' = (prompt /\ (handler'.pc = "save" \/ handler.vend \notin Live))
  /\ unread' = (unread \/ (handler'.pc = "save" /\ handler.vend \notin delivered))
  /\ AddEvents({VendDataRequested})
  /\ UNCHANGED <<status, bankRef, bundle, row, queue, request, vendors, dropped, repeats, nextRef, crashes>>

(* The reply's ref becomes the access token of later requeries. *)
SaveToken ==
  /\ handler.pc = "save"
  /\ row' = IF handler.snap.superagent = Irecharge
            THEN [row EXCEPT !.access = handler.snap.reference] ELSE row
  /\ Goto("announce")
  /\ UNCHANGED <<status, bankRef, bundle, log, queue, request, vendors, history, nextRef, bounds>>

(* publishEventForDataReceivedFromVendor, from both handlers *)
Announce ==
  /\ handler.pc = "announce"
  /\ AddEvents({IF handler.msg.topic = "purchase"
                THEN DataReceived(handler.snap.superagent)
                ELSE DataTransactionRequery(handler.snap.superagent)})
  /\ Publish(ReceivedMessage)
  /\ Goto("commit")
  /\ UNCHANGED <<status, bankRef, bundle, row, request, vendors, prompt, unread, repeats, nextRef, crashes>>

-----------------------------------------------------------------------------
(* requeryTransaction and handleDataRecievd *)

(* Slips: a vend that failed is announced; a vend still pending is not asked  *)
(* about again.                                                              *)
AfterRequeryFallsThrough(v, res) ==
  IF PhoneRequeryReading(v, res) = "open" THEN "timer" ELSE "announce"
AfterRequeryKeepsSilent(v, res) ==
  CASE PhoneRequeryReading(v, res) = "open"   -> "commit"
    [] PhoneRequeryReading(v, res) = "failed" -> "choose"
    [] OTHER                                  -> "announce"

(* Where requeryTransaction goes: an error, which BUYPOWERNG's pending and     *)
(* failed vends are, has no source and falls through to the announcement.     *)
AfterRequery(v, res) ==
  CASE PhoneRequeryReading(v, res) = "open"   -> "timer"
    [] PhoneRequeryReading(v, res) = "failed" -> "choose"
    [] OTHER                                  -> "announce"

Requery ==
  LET v == handler.snap.superagent IN
  /\ handler.pc = "ask"
  /\ \E r \in AnyRequeryReply(v) \cup NoAnswer :
       LET res == Requeried(v, r) IN
       /\ Hears(r)
       /\ Goto(AfterRequery(v, res))
       /\ unread' = (unread \/ Thrown(res) \/ (IsBaxi(v) /\ r.status # "success"))
  /\ AddEvents({DataRequeryInitiated(v)})
  /\ UNCHANGED <<status, bankRef, bundle, row, queue, request, vendors, dropped, prompt, repeats, nextRef, crashes>>

Complete ==
  /\ handler.pc = "complete"
  /\ status' = "COMPLETE"
  /\ Goto("commit")
  /\ UNCHANGED <<bankRef, bundle, row, log, queue, request, vendors, history, nextRef, bounds>>

-----------------------------------------------------------------------------
(* triggerEventToRequeryTransactionTokenFromVendor *)

NextCount == IF handler.msg.topic = "requery" THEN handler.msg.count + 1 ELSE 1

NextRecord == IF handler.msg.topic = "requery" THEN handler.msg.record
                                               ELSE handler.snap.record # None

WithinLimit(n) == n < MaxRequery

FlagTransaction ==
  /\ handler.pc \in {"timer", "timedout"}
  /\ ~WithinLimit(NextCount)
  /\ status' = "FLAGGED"
  /\ Goto("commit")
  /\ UNCHANGED <<bankRef, bundle, row, log, queue, request, vendors, history, nextRef, bounds>>

(* The timeout is logged for a purchase that was answered with a pending      *)
(* reply, whichever vendor it is named after.                                *)
TimerEvents ==
  {DataRetry(handler.snap.superagent)} \cup
  (IF handler.pc = "timedout" THEN {DataRequestTimedOut} ELSE {})

(* After its timer, which the handler waits for. *)
TriggerRequery ==
  /\ handler.pc \in {"timer", "timedout"}
  /\ WithinLimit(NextCount)
  /\ AddEvents(TimerEvents)
  /\ Publish(RequeryMessage(NextCount, NextRecord))
  /\ Goto("commit")
  /\ UNCHANGED <<status, bankRef, bundle, row, request, vendors, prompt, unread, repeats, nextRef, crashes>>

-----------------------------------------------------------------------------
(* triggerEventToRetryTransactionWithNewVendor: what it computes from the     *)
(* row it read and a new random reference r.                                  *)

(* A transaction that was never retried starts with a record of its vendor.   *)
CurrentVendor(t) ==
  IF t.record = None THEN [vendor |-> t.superagent, count |-> 1, ref |-> t.reference]
                     ELSE t.record

OnRecord(t) == CurrentVendor(t).vendor = t.superagent

(* useCurrentVendor *)
UsesCurrentVendor(t) == OnRecord(t) /\ CurrentVendor(t).count < RetryLimit

RetryVendors(t) == IF UsesCurrentVendor(t) THEN {t.superagent}
                                           ELSE NextVendors(t.superagent, t.previous)

RetryReference(t, r) == IF OnRecord(t) THEN r ELSE CurrentVendor(t).ref

RetryCount(t) == IF UsesCurrentVendor(t) THEN CurrentVendor(t).count + 1
                                         ELSE CurrentVendor(t).count

NewRecord(t, v, ref) ==
  IF v # CurrentVendor(t).vendor \/ RetryCount(t) > RetryLimit
  THEN [vendor |-> v, count |-> 1, ref |-> ref]
  ELSE [vendor |-> v, count |-> RetryCount(t), ref |-> ref]

(* The row of the repurchase. *)
RetryRow(t, v, ref) ==
  [superagent |-> v,
   reference  |-> ref,
   access     |-> t.access,
   record     |-> NewRecord(t, v, ref),
   previous   |-> [seen |-> t.previous.seen \cup {v}, len |-> t.previous.len + 1]]

(* The wait time is read from the record in the message: without one it is a *)
(* TypeError.                                                                *)
HasRecord == handler.msg.topic = "requery" => handler.msg.record

ChooseVendor ==
  LET t == handler.snap
      r == RetryReference(t, nextRef) IN
  /\ handler.pc = "choose"
  /\ HasRecord
  /\ \E v \in RetryVendors(t) :
       /\ AddEvents({DataNewVendor(t.superagent, v)})
       /\ handler' = [handler EXCEPT !.pc = "write", !.next = RetryRow(t, v, r)]
  /\ row' = IF UsesCurrentVendor(t)
            THEN [row EXCEPT !.record = [CurrentVendor(t) EXCEPT !.count = @ + 1]]
            ELSE row
  /\ nextRef' = nextRef + 1
  /\ UNCHANGED <<status, bankRef, bundle, queue, request, vendors, history, bounds>>

(* No record, or no vendor left (sortedOtherVendors[0] is undefined). *)
CannotRetry ==
  /\ handler.pc = "choose"
  /\ ~HasRecord \/ RetryVendors(handler.snap) = {}
  /\ Drop
  /\ UNCHANGED <<store, queue, request, vendors, prompt, unread, repeats, nextRef, bounds>>

(* After its timer.  The access token is not among the columns written. *)
WriteRetry ==
  /\ handler.pc = "write"
  /\ row' = [handler.next EXCEPT !.access = row.access]
  /\ Goto("handover")
  /\ UNCHANGED <<status, bankRef, bundle, log, queue, request, vendors, history, nextRef, bounds>>

HandOver ==
  /\ handler.pc = "handover"
  /\ Publish(SwitchMessage(handler.next.superagent))
  /\ Goto("commit")
  /\ UNCHANGED <<store, request, vendors, prompt, unread, repeats, nextRef, crashes>>

-----------------------------------------------------------------------------
(* retryDataPurchaseWithNewVendor *)

MoveToVendor ==
  /\ handler.pc = "move"
  /\ row' = [row EXCEPT !.superagent = handler.msg.vendor]
  /\ Goto("republish")
  /\ UNCHANGED <<status, bankRef, bundle, log, queue, request, vendors, history, nextRef, bounds>>

Republish ==
  /\ handler.pc = "republish"
  /\ AddEvents({DataPurchaseInitiated})
  /\ Publish(PurchaseMessage)
  /\ Goto("commit")
  /\ UNCHANGED <<status, bankRef, bundle, row, request, vendors, prompt, unread, repeats, nextRef, crashes>>

-----------------------------------------------------------------------------
Decide(p) ==
  /\ pending' = pending \ {p}
  /\ \/ delivered' = delivered \cup {p} /\ UNCHANGED failed
     \/ failed' = failed \cup {p} /\ UNCHANGED delivered
  /\ UNCHANGED <<store, queue, handler, request, history, nextRef, bounds>>

(* The row validateDataRequest creates with the best vendor of the bundle;    *)
(* without a bundle, the row of an airtime or electricity transaction.        *)
Init ==
  /\ status = "PENDING" /\ bankRef = None /\ bundle \in BOOLEAN
  /\ \E v \in Opening : row = NewDataRow(v, None)
  /\ log = {}
  /\ queue = [m \in Messages |-> 0]
  /\ handler = IdleHandler
  /\ request = [q \in Requests |-> "new"]
  /\ pending = {} /\ delivered = {} /\ failed = {}
  /\ dropped = FALSE /\ prompt = TRUE /\ unread = FALSE
  /\ overlapped = FALSE /\ repeated = FALSE
  /\ nextRef = 1
  /\ faults = 0 /\ crashes = 0

RequestStep(q) ==
  ReceiveRequest(q) \/ CheckReference(q) \/ SaveRequest(q) \/ PublishRequest(q)

(* What the running process does by itself. *)
ProcessStep ==
  \/ Begin \/ Commit \/ Purchase \/ Probe \/ SaveToken \/ Announce
  \/ Requery \/ Complete \/ FlagTransaction \/ TriggerRequery
  \/ ChooseVendor \/ CannotRetry \/ WriteRetry \/ HandOver
  \/ MoveToVendor \/ Republish

Next ==
  \/ \E q \in Requests : RequestStep(q)
  \/ ProcessStep \/ Throw \/ Redeliver
  \/ \E p \in pending : Decide(p)

Spec == Init /\ [][Next]_vars

(* Kafka hands over a waiting message, awaits and timers end, vendors decide. *)
Fairness ==
  /\ WF_vars(ProcessStep)
  /\ WF_vars(\E p \in pending : Decide(p))

FairSpec == Spec /\ Fairness

-----------------------------------------------------------------------------
(* Safety *)

(* A transaction is COMPLETE only when some vendor delivered, whatever was    *)
(* redelivered or retried, unless a requery was announced unread: no other    *)
(* way through the handlers ends in an announcement by mistake.               *)
CompleteUnlessUnread == status = "COMPLETE" => delivered # {} \/ unread

(* The log is written ahead of the row: a bundle is with a vendor or COMPLETE  *)
(* only after an event that says so, although two handlers write the vendor.  *)
LoggedFirst ==
  [][/\ row'.superagent # row.superagent =>
          \E v \in Vendors : DataNewVendor(v, row'.superagent) \in log
     /\ status' = "COMPLETE" /\ status # "COMPLETE" =>
          \E v \in Vendors : {DataReceived(v), DataTransactionRequery(v)} \cap log # {}]_vars

Accepted == {q \in Requests : request[q] \in {"publish", "done"}}

(* Every request that was let through names the same payment. *)
OnePayment == \A p, q \in Accepted : BankRef[p] = BankRef[q]

(* One payment buys once, however often the partner asks: the switch is        *)
(* written by one handler and repeated by the message of another, BAXI's      *)
(* reference is never the same, a handler that dies before it has done what   *)
(* cannot be done again starts over, and still there is one purchase at a     *)
(* time.  It takes two requests at the same time, a message handled twice or   *)
(* a vend given up alive to buy twice.                                       *)
AtMostOneDelivery ==
  prompt /\ ~overlapped /\ ~repeated /\ OnePayment => \A p, q \in delivered : p = q

-----------------------------------------------------------------------------
(* Liveness: an accepted purchase becomes COMPLETE or FLAGGED, through         *)
(* crashes too, unless a handler threw or a message was lost, or a second     *)
(* request was cut off between its write, which is PENDING again, and its     *)
(* message.                                                                  *)
Resolution ==
  (\E q \in Requests : request[q] = "done") /\ (\A q \in Requests : request[q] # "publish")
    ~> status \in {"COMPLETE", "FLAGGED"} \/ dropped
=============================================================================
