------------------------------- MODULE TokenVend -------------------------------
(***************************************************************************)
(* One electricity transaction, from the partner's first request for a     *)
(* token to the token being announced: the request handler of the vendor   *)
(* API, the two Kafka topics it shares with the Token consumer, the        *)
(* consumer's two handlers split at their awaits, and the vendors.         *)
(*                                                                         *)
(*   VendorController.requestToken           controllers/Public/           *)
(*                                           VendorApi.controller          *)
(*   TokenHandler, TokenHandlerUtil          kafka/modules/consumers/Token *)
(*   MessageProcessorFactory.processEachBatch                              *)
(*                                           kafka/modules/util            *)
(*                                                                         *)
(* Transactions share no state with one another, so one is enough.         *)
(***************************************************************************)
EXTENDS VendorSelection, EventLog, VendorClients

CONSTANTS
  RetryLimit,   \* retry.retryCountBeforeSwitchingVendor
  Prepaid,      \* TRUE for a PREPAID meter, FALSE for a POSTPAID one
  Workers,      \* processes that run a TokenConsumer
  Requests,     \* requestToken calls, each with a bankRefId of its own
  MaxFaults     \* bound: crashes, lost messages, errors and failed vends

ASSUME VendorsAssumption == None \notin Vendors /\ Irecharge # Buypower
ASSUME OpeningAssumption == Opening \subseteq Vendors
ASSUME RateAssumption == Rate \in [Vendors -> Nat]
ASSUME LimitsAssumption == RetryLimit \in Nat \ {0} /\ MaxFaults \in Nat
ASSUME PrepaidAssumption == Prepaid \in BOOLEAN

VARIABLES
  status,     \* Transaction.status
  txn,        \* the columns of the Transaction row the consumer works on
  unit,       \* the vend whose token the PowerUnit row holds, or None
  rows,       \* number of PowerUnit rows of the transaction
  log,        \* its rows of Event
  queue,      \* messages per topic that no worker has fetched
  worker,     \* per worker: its batch and where it is in a handler
  request,    \* per request: where it is in requestToken
  pending,    \* vends a vendor accepted and has not decided
  delivered,  \* vends a vendor carried out (a token exists)
  failed,     \* vends a vendor turned down
  expired,    \* the transaction is more than two hours old
  announced,  \* vends whose token was published as TOKEN_RECIEVED_FROM_VENDOR
  flagged,    \* history: some handler set the status to FLAGGED
  dropped,    \* history: a handler threw, or a message it sent was lost
  nextRef,    \* the next reference of the random generator
  faults      \* number of faults so far

store     == <<status, txn, unit, rows, log>>
vendors   == <<pending, delivered, failed>>
history   == <<announced, flagged, dropped>>
vars      == <<store, queue, worker, request, vendors, expired, history,
               nextRef, faults>>

-----------------------------------------------------------------------------
(* Types *)

Statuses == {"PENDING", "INPROGRESS", "COMPLETE", "FLAGGED"}
Topics   == {"purchase", "requery"}
    \* POWER_PURCHASE_INITIATED_BY_CUSTOMER and
    \* GET_TRANSACTION_TOKEN_FROM_VENDOR_RETRY

Vends == Vendors \X Nat

(* The last entry of retryRecord, the only one the code reads. *)
RetryRecord == [vendor : Vendors, count : Nat, ref : Nat]

Transaction ==
  [superagent : Vendors,
   reference  : Nat,               \* what BAXI and BUYPOWERNG are asked with
   vendorRef  : Nat,               \* vendorReferenceId, what IRECHARGE is
   accessRef  : Nat \cup {None},   \* reference the access token was issued for
   record     : RetryRecord,
   previous   : PreviousVendors]

WorkerPCs  == {"idle", "next", "vend", "ask", "retry", "failed", "switch",
               "republish", "lookup", "save", "complete", "announce", "flag"}
RequestPCs == {"new", "validate", "update", "publish", "inprogress", "done",
               "refused"}

Worker ==
  [pc    : WorkerPCs,
   topic : Topics,
   left  : Nat,                        \* messages of the batch not handled yet
   size  : Nat,                        \* messages the group would get again
   snap  : Transaction \cup {None},    \* the row as the handler read it
   next  : Transaction \cup {None},    \* the row it is about to write
   row   : BOOLEAN]                    \* it found a PowerUnit row

TypeOK ==
  /\ status \in Statuses
  /\ txn \in Transaction
  /\ unit \in Vends \cup {None}
  /\ rows \in Nat
  /\ queue \in [Topics -> Nat]
  /\ worker \in [Workers -> Worker]
  /\ request \in [Requests -> [pc : RequestPCs, read : Statuses]]
  /\ pending \subseteq Vends /\ delivered \subseteq Vends /\ failed \subseteq Vends
  /\ announced \subseteq Vends
  /\ expired \in BOOLEAN /\ flagged \in BOOLEAN /\ dropped \in BOOLEAN
  /\ nextRef \in Nat /\ faults \in Nat

-----------------------------------------------------------------------------
(* Vends *)

(* The vend a purchase made from row t starts (processVendRequest). *)
PurchaseVend(t) ==
  <<t.superagent, IF t.superagent = Irecharge THEN t.vendorRef ELSE t.reference>>

(* Slip: IRECHARGE is asked by the reference, like the other vendors.      *)
RequeryVendByReference(t) == <<t.superagent, t.reference>>

(* The vend a requery made from row t asks about                           *)
(* (requeryTransactionFromVendor): IRECHARGE is asked by access token.     *)
RequeryVend(t) ==
  <<t.superagent, IF t.superagent = Irecharge THEN t.accessRef ELSE t.reference>>

(* processVendRequest validates the meter first when it has no token.      *)
NeedsAccessToken(t) == t.superagent = Irecharge /\ t.accessRef = None

(* IRECHARGE vends a reference only with an access token issued for it.    *)
Acceptable(t) == t.superagent = Irecharge => t.accessRef = t.vendorRef

Live  == pending \cup delivered
Known == Live \cup failed

Outcome(p) == OutcomeIn(p, delivered, pending)

(* The vend the running handler of worker w succeeded with. *)
HandledVend(w) ==
  IF worker[w].topic = "purchase" THEN PurchaseVend(worker[w].snap)
                                  ELSE RequeryVend(worker[w].snap)

-----------------------------------------------------------------------------
(* triggerEventToRetryTransactionWithNewVendor: what it computes from the  *)
(* row it read and a new random reference r.                               *)

OnRecord(t) == t.record.vendor = t.superagent

(* Slips: one retry too many; one too few.                                 *)
UsesCurrentVendorOnceMore(t) == OnRecord(t) /\ t.record.count <= RetryLimit
UsesCurrentVendorOnceLess(t) == OnRecord(t) /\ t.record.count < RetryLimit - 1

(* useCurrentVendor *)
UsesCurrentVendor(t) == OnRecord(t) /\ t.record.count < RetryLimit

RetryVendors(t) ==
  IF UsesCurrentVendor(t) THEN {t.superagent}
                          ELSE NextVendors(t.superagent, t.previous)

RetryReference(t, r) == IF OnRecord(t) THEN r ELSE t.record.ref

RetryCount(t) ==
  IF UsesCurrentVendor(t) THEN t.record.count + 1 ELSE t.record.count

NewRecord(t, v, ref) ==
  IF v # t.record.vendor \/ RetryCount(t) > RetryLimit
  THEN [vendor |-> v, count |-> 1, ref |-> ref]
  ELSE [vendor |-> v, count |-> RetryCount(t), ref |-> ref]

(* The row of the repurchase.                                              *)
RetryRow(t, v, ref, access) ==
  [superagent |-> v,
   reference  |-> ref,
   vendorRef  |-> ref,
   accessRef  |-> access,
   record     |-> NewRecord(t, v, ref),
   previous   |-> [seen |-> t.previous.seen \cup {v},
                   len  |-> t.previous.len + 1]]

-----------------------------------------------------------------------------
(* Steps of the environment that go wrong are faults, and faults are bounded. *)

Fault   == faults < MaxFaults /\ faults' = faults + 1
NoFault == UNCHANGED faults

(* EventService.addEvent *)
AddEvents(events) == log' = log \cup events

Goto(w, pc) == worker' = [worker EXCEPT ![w].pc = pc]

(* The handler returned: processEachBatch goes on with the batch. *)
NextMessage(w) ==
  worker' = [worker EXCEPT ![w].pc = "next", ![w].snap = None,
                           ![w].next = None, ![w].row = FALSE]

IdleWorker == [pc |-> "idle", topic |-> "purchase", left |-> 0, size |-> 0,
               snap |-> None, next |-> None, row |-> FALSE]

(* ProducerFactory.sendMessage swallows the error of a failed send. *)
Publish(topic) ==
  \/ queue' = [queue EXCEPT ![topic] = @ + 1] /\ NoFault /\ UNCHANGED dropped
  \/ Fault /\ dropped' = TRUE /\ UNCHANGED queue

-----------------------------------------------------------------------------
(* VendorController.requestToken *)

(* First read of the row; a COMPLETE transaction is refused.               *)
ReceiveRequest(q) ==
  /\ request[q].pc = "new"
  /\ request' = [request EXCEPT
       ![q] = [pc |-> IF status = "COMPLETE" THEN "refused" ELSE "validate",
               read |-> status]]
  /\ IF status = "COMPLETE" THEN UNCHANGED log ELSE AddEvents({PowerPurchaseInitiated})
  /\ UNCHANGED <<status, txn, unit, rows, queue, worker, vendors, expired, history, nextRef, faults>>

(* VendorControllerValdator.requestToken reads the row again; it has other *)
(* reasons to refuse too (the disco is down, a relation is missing).       *)
ValidateRequest(q) ==
  /\ request[q].pc = "validate"
  /\ \E pc \in {"refused", "update"} :
       /\ status = "COMPLETE" => pc = "refused"
       /\ request' = [request EXCEPT ![q].pc = pc]
  /\ UNCHANGED <<store, queue, worker, vendors, expired, history, nextRef, faults>>

(* transaction.update writes the columns that differ from the first read.  *)
SaveRequest(q) ==
  /\ request[q].pc = "update"
  /\ status' = IF request[q].read # "PENDING" THEN "PENDING" ELSE status
  /\ request' = [request EXCEPT ![q].pc = "publish"]
  /\ UNCHANGED <<txn, unit, rows, log, queue, worker, vendors, expired, history,
                 nextRef, faults>>

PublishRequest(q) ==
  /\ request[q].pc = "publish"
  /\ Publish("purchase")
  /\ request' = [request EXCEPT ![q].pc = "inprogress"]
  /\ UNCHANGED <<store, worker, vendors, expired, announced, flagged, nextRef>>

MarkInProgress(q) ==
  /\ request[q].pc = "inprogress"
  /\ status' = "INPROGRESS"
  /\ request' = [request EXCEPT ![q].pc = "done"]
  /\ UNCHANGED <<txn, unit, rows, log, queue, worker, vendors, expired, history,
                 nextRef, faults>>

-----------------------------------------------------------------------------
(* MessageProcessorFactory.processEachBatch *)

(* Slip: the offsets of a batch are committed when it is fetched.          *)
FetchBatchCommitted(w) ==
  /\ worker[w].pc = "idle"
  /\ \E t \in Topics : \E n \in 1..queue[t] :
       /\ queue' = [queue EXCEPT ![t] = @ - n]
       /\ worker' = [worker EXCEPT
            ![w] = [IdleWorker EXCEPT !.pc = "next", !.topic = t, !.left = n]]
  /\ UNCHANGED <<store, request, vendors, expired, history, nextRef, faults>>

FetchBatch(w) ==
  /\ worker[w].pc = "idle"
  /\ \E t \in Topics : \E n \in 1..queue[t] :
       /\ queue' = [queue EXCEPT ![t] = @ - n]
       /\ worker' = [worker EXCEPT
            ![w] = [IdleWorker EXCEPT !.pc = "next", !.topic = t,
                                      !.left = n, !.size = n]]
  /\ UNCHANGED <<store, request, vendors, expired, history, nextRef, faults>>

(* The offsets are committed after the last message of the batch.          *)
CommitBatch(w) ==
  /\ worker[w].pc = "next"
  /\ worker[w].left = 0
  /\ worker' = [worker EXCEPT ![w] = IdleWorker]
  /\ UNCHANGED <<store, queue, request, vendors, expired, history, nextRef, faults>>

(* Both handlers start by reading the row; neither looks at its status.    *)
Begin(w) ==
  /\ worker[w].pc = "next"
  /\ worker[w].left > 0
  /\ worker' = [worker EXCEPT
       ![w].pc = IF worker[w].topic = "purchase" THEN "vend" ELSE "ask",
       ![w].left = @ - 1,
       ![w].snap = txn]
  /\ AddEvents({IF worker[w].topic = "purchase" THEN VendElectricityRequested
                                               ELSE TokenFromVendorInitiated(txn.superagent)})
  /\ UNCHANGED <<status, txn, unit, rows, queue, request, vendors, expired, history, nextRef, faults>>

(* A handler that throws is logged and its message counts as handled.      *)
Throw(w) ==
  /\ worker[w].pc \notin {"idle", "next"}
  /\ Fault
  /\ dropped' = TRUE
  /\ NextMessage(w)
  /\ UNCHANGED <<store, queue, request, vendors, expired, announced, flagged, nextRef>>

(* The process dies: the group gets its uncommitted batch again.           *)
Crash(w) ==
  /\ worker[w].pc # "idle"
  /\ Fault
  /\ queue' = [queue EXCEPT ![worker[w].topic] = @ + worker[w].size]
  /\ worker' = [worker EXCEPT ![w] = IdleWorker]
  /\ UNCHANGED <<store, request, vendors, expired, history, nextRef>>

(* A handler waits longer than the session timeout without a heartbeat: the *)
(* group gets the batch again while this worker goes on with it.            *)
LoseSession(w) ==
  /\ worker[w].size > 0
  /\ Fault
  /\ queue' = [queue EXCEPT ![worker[w].topic] = @ + worker[w].size]
  /\ worker' = [worker EXCEPT ![w].size = 0]
  /\ UNCHANGED <<store, request, vendors, expired, history, nextRef>>

-----------------------------------------------------------------------------
(* TokenHandler.handleTokenRequest *)

(* What triggerEventToRequeryTransactionTokenFromVendor logs before its timer. *)
RetryEvents(t) == {TokenRequestFailed(t.superagent), TokenRequestedRetry(t.superagent)}

(* Only BUYPOWERNG's reply to a purchase is looked at for a timeout.         *)
TimeoutEvents(v, res) ==
  IF BuypowerTimesOut(v, res) THEN {TokenRequestTimedOut(v)} ELSE {}

(* No access token for IRECHARGE yet: validate the meter and save it.       *)
(* When the validation fails the handler requeries.                         *)
ValidateMeter(w) ==
  /\ worker[w].pc = "vend"
  /\ NeedsAccessToken(worker[w].snap)
  /\ \/ /\ txn' = [txn EXCEPT !.accessRef = worker[w].snap.vendorRef]
        /\ worker' = [worker EXCEPT ![w].snap.accessRef = worker[w].snap.vendorRef]
        /\ NoFault
        /\ UNCHANGED log
     \/ /\ Goto(w, "retry") /\ AddEvents(RetryEvents(worker[w].snap))
        /\ Fault /\ UNCHANGED txn
  /\ UNCHANGED <<status, unit, rows, queue, request, vendors, expired, history, nextRef>>

(* The vendor accepts vend p, or refuses it at once. *)
Accept(p) ==
  \/ pending' = pending \cup {p} /\ NoFault /\ UNCHANGED <<delivered, failed>>
  \/ delivered' = delivered \cup {p} /\ NoFault /\ UNCHANGED <<pending, failed>>
  \/ failed' = failed \cup {p} /\ Fault /\ UNCHANGED <<pending, delivered>>

(* The vendor does nothing for a reference it knows or an access token that *)
(* is not the reference's, or is not reached.                               *)
Ignore(t) ==
  /\ \/ (PurchaseVend(t) \in Known \/ ~Acceptable(t)) /\ NoFault
     \/ PurchaseVend(t) \notin Known /\ Acceptable(t) /\ Fault
  /\ UNCHANGED vendors

(* The purchase.  What its reply does not settle, an error included, is     *)
(* requeried.                                                               *)
Purchase(w) ==
  LET t == worker[w].snap
      v == t.superagent
      p == PurchaseVend(t) IN
  /\ worker[w].pc = "vend"
  /\ ~NeedsAccessToken(t)
  /\ (p \notin Known /\ Acceptable(t) /\ Accept(p)) \/ Ignore(t)
  /\ \E r \in PurchaseReplies(v, OutcomeIn(p, delivered', pending')) :
       LET res == PurchaseElectricity(v, r) IN
       \/ PurchaseSettles(v, res, Prepaid) /\ Goto(w, "announce") /\ UNCHANGED log
       \/ /\ ~PurchaseSettles(v, res, Prepaid)
          /\ Goto(w, "retry")
          /\ AddEvents(RetryEvents(t) \cup TimeoutEvents(v, res))
  /\ UNCHANGED <<status, txn, unit, rows, queue, request, expired, history, nextRef>>

-----------------------------------------------------------------------------
(* TokenHandler.requeryTransactionForToken *)

(* Slips: a pending vend is taken for a failed one; for a delivered one.   *)
AfterRequeryPendingFails(v, r) ==
  IF RequeryReading(v, Requeried(v, r)) = "success" THEN "lookup" ELSE "failed"
AfterRequeryFallsThrough(v, r) ==
  IF RequeryReading(v, Requeried(v, r)) = "failed" THEN "failed" ELSE "lookup"

(* What the handler does with reply r.  An error is requeried whatever the   *)
(* age of the transaction, and so is a success without the token of a        *)
(* PREPAID meter.                                                            *)
AfterRequery(v, r) ==
  CASE RequeryReading(v, Requeried(v, r)) = "failed"  -> "failed"
    [] RequeryReading(v, Requeried(v, r)) = "error"   -> "retry"
    [] RequeryReading(v, Requeried(v, r)) = "success" ->
         IF Prepaid /\ ~r.token THEN "retry" ELSE "lookup"
    [] OTHER -> IF expired THEN "flag" ELSE "retry"

Requery(w) ==
  LET t == worker[w].snap
      v == t.superagent IN
  /\ worker[w].pc = "ask"
  /\ \/ /\ \E r \in RequeryReplies(v, Outcome(RequeryVend(t))) : Goto(w, AfterRequery(v, r))
        /\ NoFault
     \/ (\E r \in NoAnswer : Goto(w, AfterRequery(v, r))) /\ Fault
  /\ AddEvents(IF worker'[w].pc = "retry" THEN RetryEvents(t) ELSE {})
  /\ UNCHANGED <<status, txn, unit, rows, queue, request, vendors, expired, history, nextRef>>

FlagTransaction(w) ==
  /\ worker[w].pc = "flag"
  /\ status' = "FLAGGED"
  /\ flagged' = TRUE
  /\ NextMessage(w)
  /\ UNCHANGED <<txn, unit, rows, log, queue, request, vendors, expired, announced,
                 dropped, nextRef, faults>>

(* triggerEventToRequeryTransactionTokenFromVendor, after its timer         *)
TriggerRequery(w) ==
  /\ worker[w].pc = "retry"
  /\ Publish("requery")
  /\ NextMessage(w)
  /\ UNCHANGED <<store, request, vendors, expired, announced, flagged, nextRef>>

(* triggerEventToRetryTransactionWithNewVendor up to its timer: the retry   *)
(* count of the current vendor is saved at once, the rest is kept.  For     *)
(* IRECHARGE the meter is validated under the new reference, which renews   *)
(* the access token; a reply without one leaves the column as it was.       *)
ChooseVendor(w) ==
  LET t == worker[w].snap
      r == RetryReference(t, nextRef) IN
  /\ worker[w].pc = "failed"
  /\ \E v \in RetryVendors(t), access \in {t.accessRef, r} :
       /\ worker' = [worker EXCEPT ![w].pc = "switch",
                                   ![w].next = RetryRow(t, v, r, access)]
       /\ \/ access = (IF v = Irecharge THEN r ELSE t.accessRef) /\ NoFault
          \/ v = Irecharge /\ access = t.accessRef /\ Fault
       /\ AddEvents({PowerPurchaseNewVendor(v)})
  /\ txn' = IF UsesCurrentVendor(t)
            THEN [txn EXCEPT !.record = [t.record EXCEPT !.count = @ + 1]]
            ELSE txn
  /\ nextRef' = nextRef + 1
  /\ UNCHANGED <<status, unit, rows, queue, request, vendors, expired, history>>

(* A product with a single vendor leaves no vendor to switch to: the        *)
(* handler throws a TypeError.                                              *)
NoVendorLeft(w) ==
  /\ worker[w].pc = "failed"
  /\ RetryVendors(worker[w].snap) = {}
  /\ dropped' = TRUE
  /\ NextMessage(w)
  /\ UNCHANGED <<store, queue, request, vendors, expired, announced, flagged,
                 nextRef, faults>>

(* ... and after its timer *)
SwitchVendor(w) ==
  /\ worker[w].pc = "switch"
  /\ txn' = worker[w].next
  /\ Goto(w, "republish")
  /\ UNCHANGED <<status, unit, rows, log, queue, request, vendors, expired, history,
                 nextRef, faults>>

Republish(w) ==
  /\ worker[w].pc = "republish"
  /\ AddEvents({PowerPurchaseInitiated})
  /\ Publish("purchase")
  /\ NextMessage(w)
  /\ UNCHANGED <<status, txn, unit, rows, request, vendors, expired, announced, flagged, nextRef>>

-----------------------------------------------------------------------------
(* The token is there.  A purchase announces it, then saves it; a requery   *)
(* saves it, then announces it.                                             *)

(* Slip: the PowerUnit row is added without looking for it.                *)
LookUpUnitNever(w) ==
  /\ worker[w].pc = "lookup"
  /\ Goto(w, IF Prepaid THEN "save" ELSE "complete")
  /\ UNCHANGED <<store, queue, request, vendors, expired, history, nextRef, faults>>

LookUpUnit(w) ==
  /\ worker[w].pc = "lookup"
  /\ worker' = [worker EXCEPT ![w].row = rows > 0,
                              ![w].pc = IF Prepaid THEN "save" ELSE "complete"]
  /\ UNCHANGED <<store, queue, request, vendors, expired, history, nextRef, faults>>

SaveUnit(w) ==
  /\ worker[w].pc = "save"
  /\ unit' = HandledVend(w)
  /\ rows' = IF worker[w].row THEN rows ELSE rows + 1
  /\ Goto(w, "complete")
  /\ UNCHANGED <<status, txn, log, queue, request, vendors, expired, history, nextRef, faults>>

Complete(w) ==
  /\ worker[w].pc = "complete"
  /\ status' = "COMPLETE"
  /\ IF worker[w].topic = "purchase" THEN NextMessage(w) ELSE Goto(w, "announce")
  /\ UNCHANGED <<txn, unit, rows, log, queue, request, vendors, expired, history,
                 nextRef, faults>>

Announce(w) ==
  /\ worker[w].pc = "announce"
  /\ \/ announced' = announced \cup {HandledVend(w)} /\ NoFault /\ UNCHANGED dropped
     \/ Fault /\ dropped' = TRUE /\ UNCHANGED announced
  /\ AddEvents({TokenReceived(worker[w].snap.superagent)})
  /\ IF worker[w].topic = "purchase" THEN Goto(w, "lookup") ELSE NextMessage(w)
  /\ UNCHANGED <<status, txn, unit, rows, queue, request, vendors, expired, flagged, nextRef>>

-----------------------------------------------------------------------------
(* Vendors and time *)

Decide(p) ==
  /\ p \in pending
  /\ pending' = pending \ {p}
  /\ \/ delivered' = delivered \cup {p} /\ NoFault /\ UNCHANGED failed
     \/ failed' = failed \cup {p} /\ Fault /\ UNCHANGED delivered
  /\ UNCHANGED <<store, queue, worker, request, expired, history, nextRef>>

TwoHoursPass ==
  /\ ~expired
  /\ expired' = TRUE
  /\ UNCHANGED <<store, queue, worker, request, vendors, history, nextRef, faults>>

-----------------------------------------------------------------------------

Init ==
  /\ status = "PENDING"
  /\ \E first \in Opening, validated \in Vendors, access \in {None, 1} :
       txn = NewTransaction(first, validated, access)
  /\ unit = None
  /\ rows = 0
  /\ log = {}
  /\ queue = [t \in Topics |-> 0]
  /\ worker = [w \in Workers |-> IdleWorker]
  /\ request = [q \in Requests |-> [pc |-> "new", read |-> "PENDING"]]
  /\ pending = {} /\ delivered = {} /\ failed = {}
  /\ expired = FALSE
  /\ announced = {} /\ flagged = FALSE /\ dropped = FALSE
  /\ nextRef = 2
  /\ faults = 0

RequestStep(q) ==
  \/ ReceiveRequest(q) \/ ValidateRequest(q) \/ SaveRequest(q)
  \/ PublishRequest(q) \/ MarkInProgress(q)

(* What a running worker does by itself. *)
WorkerStep(w) ==
  \/ FetchBatch(w) \/ CommitBatch(w) \/ Begin(w)
  \/ ValidateMeter(w) \/ Purchase(w)
  \/ Requery(w) \/ FlagTransaction(w) \/ TriggerRequery(w)
  \/ ChooseVendor(w) \/ NoVendorLeft(w) \/ SwitchVendor(w) \/ Republish(w)
  \/ LookUpUnit(w) \/ SaveUnit(w) \/ Complete(w) \/ Announce(w)

Next ==
  \/ \E q \in Requests : RequestStep(q)
  \/ \E w \in Workers : WorkerStep(w) \/ Throw(w) \/ Crash(w) \/ LoseSession(w)
  \/ \E p \in pending : Decide(p)
  \/ TwoHoursPass

Spec == Init /\ [][Next]_vars

(* A worker keeps going (Kafka hands it a waiting message, its awaits and    *)
(* timers end), a vendor decides what it accepted, time passes.              *)
Fairness ==
  /\ \A w \in Workers : WF_vars(WorkerStep(w))
  /\ WF_vars(\E p \in pending : Decide(p))
  /\ WF_vars(TwoHoursPass)

FairSpec == Spec /\ Fairness

-----------------------------------------------------------------------------
(* Safety *)

(* However often a purchase is redelivered, retried or moved to another     *)
(* vendor, vendors deliver at most one vend for the transaction: a customer *)
(* who paid once is vended once.  (With one worker; the repurchases of      *)
(* Token.ts are the danger.)                                                *)
AtMostOneDelivery == \A p, q \in delivered : p = q

(* A COMPLETE transaction was delivered by a vendor and, for a prepaid      *)
(* meter, its PowerUnit row holds the token of a delivered vend.            *)
CompleteIsDelivered ==
  status = "COMPLETE" =>
    /\ delivered # {}
    /\ Prepaid => rows > 0 /\ unit \in delivered

(* TOKEN_RECIEVED_FROM_VENDOR is only published for vends that a vendor      *)
(* delivered, from whichever of the two handlers it comes.                  *)
AnnouncedIsDelivered == announced \subseteq delivered

(* retryRecord, previousVendors and superagent are written by different     *)
(* updates, with crashes between them; still the last retry record is about *)
(* the vendor in use once a repurchase happened, and never counts past the  *)
(* limit.                                                                   *)
RetryRecordFollows ==
  /\ txn.record.count \in 1..RetryLimit
  /\ txn.previous.len > 1 => OnRecord(txn)

(* A requery never misses what vendors hold: references and access token are *)
(* written by different updates, and some repurchases keep an old token; yet *)
(* the vend a requery would ask about is the one pending or delivered.       *)
RequerySeesVend == Live \subseteq {RequeryVend(txn)}

(* Why one worker is enough for AtMostOneDelivery: what vendors hold of this *)
(* transaction is the vend the row names, so the row a handler works on must *)
(* stay the row it read, and a repurchase be decided only when vendors hold  *)
(* nothing.                                                                  *)
OneVendInHand ==
  /\ pending \cap delivered = {}
  /\ Live \subseteq {PurchaseVend(txn)}
  /\ NeedsAccessToken(txn) => Live = {}
  /\ \A w \in Workers :
       /\ worker[w].pc \in {"vend", "ask", "failed"} => worker[w].snap = txn
       /\ worker[w].pc \in {"failed", "switch"} => Live = {}

(* Looking for the PowerUnit row and adding it are two steps; redelivered    *)
(* messages still leave one row.                                             *)
OnePowerUnit == rows <= 1

(* Something is still going to happen to the transaction. *)
InHand ==
  \/ \E t \in Topics : queue[t] > 0
  \/ \E w \in Workers : worker[w].pc \notin {"idle", "next"} \/ worker[w].left > 0

Published == \E q \in Requests : request[q].pc \in {"inprogress", "done"}

Resolved == announced # {} \/ flagged

(* A transaction whose purchase was published is never forgotten by a crash *)
(* or a lost session: a message or a handler is at work on it until its     *)
(* token is announced or it is flagged, unless a handler threw or a message *)
(* was lost.                                                                *)
NoOrphan == Published => InHand \/ Resolved \/ dropped

(* The log an operator reads can be trusted: it names the vendor in use as    *)
(* soon as the row does, although the row is written minutes after the event, *)
(* by any of the workers; and it says that a token came from a vendor only     *)
(* when that vendor, and not one asked later, has delivered.                   *)
LogAgrees ==
  /\ txn.previous.len > 1 => PowerPurchaseNewVendor(txn.superagent) \in log
  /\ \A v \in Vendors : TokenReceived(v) \in log => \E p \in delivered : p[1] = v

(* The transaction moves to another vendor or reference only when no vend    *)
(* under the present ones is pending or delivered.                           *)
SwitchAfterFailure ==
  [][PurchaseVend(txn)' # PurchaseVend(txn) => PurchaseVend(txn) \notin Live]_vars

(* A repurchase returns to a vendor already used only when every vendor of   *)
(* the product was.                                                          *)
AllTriedBeforeRepeat ==
  [][txn'.superagent # txn.superagent /\ txn'.superagent \in txn.previous.seen
       => Vendors \subseteq txn.previous.seen \cup {txn.superagent}]_vars

(* A vendor is left only after all the retries it is entitled to, in spite   *)
(* of the count being saved before the wait and the rest after it.           *)
SwitchWhenExhausted ==
  [][txn'.superagent # txn.superagent /\ OnRecord(txn)
       => txn.record.count = RetryLimit]_vars

-----------------------------------------------------------------------------
(* What the code says of itself and does not keep *)

(* requestToken answers "Transaction already completed" to a COMPLETE        *)
(* transaction: once COMPLETE, a transaction stays so.                       *)
CompleteIsFinal == [][status = "COMPLETE" => status' = "COMPLETE"]_vars

-----------------------------------------------------------------------------
(* Liveness and refinement *)

(* A published purchase ends: its token is announced, it is flagged, or some *)
(* handler threw or lost a message.                                          *)
Resolution == Published ~> Resolved \/ dropped

(* The transaction keeps the promise of VendPromise. *)
Promise == INSTANCE VendPromise
  WITH Vends <- Vends, live <- Live, done <- delivered, told <- announced # {}

KeepsPromise == Promise!Spec
=============================================================================
