---------------------------- MODULE TokenVendProofs ----------------------------
(***************************************************************************)
(* What holds of TokenVend for every set of vendors, every rate, every     *)
(* retry limit and every number of requests, crashes and lost messages.    *)
(*                                                                         *)
(* Three inductive invariants hold with any number of workers: TypeInv,    *)
(* DeliveryInv (a handler that saves or announces a token does so for a    *)
(* vend that was delivered) and HandInv (a transaction is always in safe   *)
(* hands).  Three more need a single worker: VendInv (a handler works on   *)
(* the row it read), RetryInv (the retry record) and UnitInv (the power    *)
(* unit).  Each has one lemma for the initial states and one for the       *)
(* steps, with a step per action.                                          *)
(***************************************************************************)
EXTENDS TokenVend, TLAPS

(* A handler is running. *)
Running(w) == worker[w].pc \notin {"idle", "next"}

(* TypeOK, and what a running handler has read and will write are rows. *)
TypeInv ==
  /\ TypeOK
  /\ \A w \in Workers :
       /\ Running(w) => worker[w].snap \in Transaction
       /\ worker[w].pc = "switch" => worker[w].next \in Transaction

(* The handler has a token to save or to announce. *)
Delivering(w) == worker[w].pc \in {"lookup", "save", "complete", "announce"}

(* Each handler runs on the messages of its own topic. *)
OnTopic(x) == /\ x.pc = "vend" => x.topic = "purchase"
              /\ x.pc = "ask"  => x.topic = "requery"

(* Tokens that are saved, announced or about to be were delivered. *)
DeliveryInv ==
  /\ announced \subseteq delivered
  /\ unit \in delivered \cup {None}
  /\ CompleteIsDelivered
  /\ \A w \in Workers :
       /\ OnTopic(worker[w])
       /\ Delivering(w) => HandledVend(w) \in delivered
       /\ worker[w].row => rows > 0
       /\ worker[w].pc = "complete" /\ Prepaid => rows > 0 /\ unit \in delivered

USE DEF store, vendors, history

(* getNextBestVendorForVendRePurchase returns a vendor of the product. *)
LEMMA NextVendorsIn ==
  ASSUME NEW c, NEW p PROVE NextVendors(c, p) \subseteq Vendors
BY DEF NextVendors, NextUnseen, Best

(* The row of a repurchase is a row. *)
LEMMA RetryRowType ==
  ASSUME NEW t \in Transaction, NEW v \in RetryVendors(t), NEW n \in Nat,
         NEW a \in {t.accessRef, RetryReference(t, n)}
  PROVE  RetryRow(t, v, RetryReference(t, n), a) \in Transaction
<1> v \in Vendors
  BY NextVendorsIn DEF RetryVendors, Transaction
<1>r RetryReference(t, n) \in Nat
  BY DEF RetryReference, Transaction, RetryRecord
<1>a a \in Nat \cup {None}
  BY <1>r DEF Transaction
<1> RetryCount(t) \in Nat
  BY DEF RetryCount, Transaction, RetryRecord
<1> NewRecord(t, v, RetryReference(t, n)) \in RetryRecord
  BY <1>r DEF NewRecord, RetryRecord
<1>p [seen |-> t.previous.seen \cup {v}, len |-> t.previous.len + 1] \in PreviousVendors
  BY DEF PreviousVendors, Transaction
<1> QED
  BY <1>p, <1>r, <1>a DEF RetryRow, Transaction

(* The row validateMeter leaves behind satisfies both invariants. *)
LEMMA InitInv == Init => TypeInv /\ DeliveryInv
<1> SUFFICES ASSUME Init PROVE TypeInv /\ DeliveryInv
  OBVIOUS
<1>1. txn \in Transaction
  BY OpeningAssumption DEF Init, NewTransaction, Transaction, RetryRecord, PreviousVendors
<1>2. worker \in [Workers -> Worker] /\ \A w \in Workers : worker[w] = IdleWorker
  BY DEF Init, IdleWorker, Worker, WorkerPCs, Topics
<1>3. TypeOK
  BY <1>1, <1>2 DEF Init, TypeOK, Statuses, RequestPCs
<1> QED
  BY <1>2, <1>3 DEF Init, TypeInv, DeliveryInv, OnTopic, IdleWorker, Running, Delivering,
     CompleteIsDelivered


-----------------------------------------------------------------------------
(* What the replies of the vendors tell.                                    *)

(* Only the reply to a vend that was delivered settles a purchase. *)
LEMMA PurchaseReplyTells ==
  ASSUME NEW v, NEW o \in Outcomes, NEW r \in PurchaseReplies(v, o),
         PurchaseSettles(v, PurchaseElectricity(v, r), Prepaid)
  PROVE  o = "delivered"
<1>1. ~Thrown(PurchaseElectricity(v, r)) /\ PurchaseElectricity(v, r).reply = r /\ r.ok
  BY DEF PurchaseSettles, Thrown, PurchaseElectricity, BuypowerVendToken, IrechargeVendToken,
     IrechargeVend, BaxiVendToken, ReturnedOrThrown, Returned, AxiosError, PlainError
<1>2. SUFFICES ASSUME o # "delivered" PROVE FALSE
  OBVIOUS
<1>3. r \in NoAnswer \cup InProgress(v) \cup Refusals
  BY <1>2 DEF PurchaseReplies, Outcomes
<1>4. r \notin NoAnswer
  BY <1>1 DEF NoAnswer, Reply
<1>5. r \notin Refusals
  BY <1>1 DEF Refusals, Reply, PurchaseSettles, PurchaseSucceeds
<1>6. CASE r \in InProgress(v)
  BY <1>1, <1>6, VendorsAssumption, PrepaidAssumption
  DEF InProgress, Reply, PurchaseSettles, PurchaseSucceeds, PurchaseTimesOut
<1> QED
  BY <1>3, <1>4, <1>5, <1>6

(* A requery is answered by the state of the vend: a vend that is delivered   *)
(* is found, one that failed is retried, one that is pending is requeried or, *)
(* once the transaction is too old, flagged.                                *)
LEMMA RequeryReplyTells ==
  ASSUME NEW v, NEW o \in Outcomes, NEW r \in RequeryReplies(v, o)
  PROVE  /\ o = "delivered" => AfterRequery(v, r) = "lookup"
         /\ o = "pending" =>
              AfterRequery(v, r) = IF v = Buypower \/ ~expired THEN "retry" ELSE "flag"
         /\ o = "failed" => AfterRequery(v, r) = "failed"
<1> USE NoneAssumption, VendorsAssumption
    DEF AfterRequery, RequeryReading, Requeried, RequeryFails, RequerySucceeds, Thrown,
        BuypowerRequery, IrechargeRequery, IrechargeVendStatus, BaxiRequery, BaxiResponseCode,
        ReturnedOrThrown, Returned, AxiosError, PlainError, Reply
<1>1. CASE v = Buypower
  <2>1. CASE o = "delivered"
    BY <1>1, <2>1 DEF RequeryReplies, Success
  <2>2. CASE o = "pending"
    BY <1>1, <2>2 DEF RequeryReplies
  <2>3. CASE o = "failed"
    <3>1. PICK c \in {"202", "203", "20"} :
            r = [ok |-> FALSE, code |-> c, status |-> None, token |-> FALSE]
      BY <1>1, <2>3 DEF RequeryReplies
    <3>2. Requeried(v, r) = AxiosError(r)
      BY <1>1, <3>1
    <3>3. RequeryFails(v, AxiosError(r))
      BY <1>1, <3>1
    <3> QED
      BY <2>3, <3>2, <3>3
  <2> QED
    BY <2>1, <2>2, <2>3 DEF Outcomes
<1>2. CASE v = Irecharge
  <2>1. CASE o = "delivered"
    BY <1>2, <2>1 DEF RequeryReplies, Success
  <2>2. CASE o = "pending"
    BY <1>2, <2>2 DEF RequeryReplies, InProgress
  <2>3. CASE o = "failed"
    BY <1>2, <2>3 DEF RequeryReplies
  <2> QED
    BY <2>1, <2>2, <2>3 DEF Outcomes
<1>3. CASE v \notin {Buypower, Irecharge}
  <2>1. CASE o = "delivered"
    BY <1>3, <2>1 DEF RequeryReplies, Success
  <2>2. CASE o = "pending"
    BY <1>3, <2>2 DEF RequeryReplies
  <2>3. CASE o = "failed"
    BY <1>3, <2>3 DEF RequeryReplies
  <2> QED
    BY <2>1, <2>2, <2>3 DEF Outcomes
<1> QED
  BY <1>1, <1>2, <1>3

(* A requery nobody answers is tried again. *)
LEMMA NoAnswerTells ==
  ASSUME NEW v, NEW r \in NoAnswer PROVE AfterRequery(v, r) = "retry"
BY NoneAssumption, VendorsAssumption
   DEF NoAnswer, AfterRequery, RequeryReading, Requeried, RequeryFails, Thrown,
       BuypowerRequery, IrechargeRequery, IrechargeVendStatus, BaxiRequery, BaxiResponseCode,
       ReturnedOrThrown, Returned, AxiosError, PlainError, Reply

(* What a purchase comes to. *)
PurchaseTold(w) ==
  LET t == worker[w].snap
      p == PurchaseVend(t) IN
  /\ worker[w].pc = "vend"
  /\ ~NeedsAccessToken(t)
  /\ (p \notin Known /\ Acceptable(t) /\ Accept(p)) \/ Ignore(t)
  /\ \/ p \in delivered' /\ Goto(w, "announce") /\ UNCHANGED log
     \/ /\ Goto(w, "retry")
        /\ \E timeout \in SUBSET {TokenRequestTimedOut(t.superagent)} :
             AddEvents(RetryEvents(t) \cup timeout)
  /\ UNCHANGED <<status, txn, unit, rows, queue, request, expired, history, nextRef>>

LEMMA PurchaseTells ==
  ASSUME NEW w, Purchase(w) PROVE PurchaseTold(w)
<1> DEFINE t == worker[w].snap
           p == PurchaseVend(t)
           o == OutcomeIn(p, delivered', pending')
<1>1. PICK r \in PurchaseReplies(t.superagent, o) :
        LET res == PurchaseElectricity(t.superagent, r) IN
        \/ PurchaseSettles(t.superagent, res, Prepaid) /\ Goto(w, "announce") /\ UNCHANGED log
        \/ /\ ~PurchaseSettles(t.superagent, res, Prepaid)
           /\ Goto(w, "retry")
           /\ AddEvents(RetryEvents(t) \cup TimeoutEvents(t.superagent, res))
  BY DEF Purchase
<1>2. o \in Outcomes /\ (o = "delivered" <=> p \in delivered')
  BY DEF OutcomeIn, Outcomes
<1>3. \/ p \in delivered' /\ Goto(w, "announce") /\ UNCHANGED log
      \/ /\ Goto(w, "retry")
         /\ \E timeout \in SUBSET {TokenRequestTimedOut(t.superagent)} :
              AddEvents(RetryEvents(t) \cup timeout)
  <2>1. CASE PurchaseSettles(t.superagent, PurchaseElectricity(t.superagent, r), Prepaid)
    <3>1. o = "delivered"
      BY ONLY <1>2, <2>1, PurchaseReplyTells, r \in PurchaseReplies(t.superagent, o)
    <3> QED
      BY <1>1, <1>2, <2>1, <3>1
  <2>2. CASE ~PurchaseSettles(t.superagent, PurchaseElectricity(t.superagent, r), Prepaid)
    <3>1. TimeoutEvents(t.superagent, PurchaseElectricity(t.superagent, r))
            \in SUBSET {TokenRequestTimedOut(t.superagent)}
      BY DEF TimeoutEvents
    <3> QED
      BY <1>1, <2>2, <3>1
  <2> QED
    BY <2>1, <2>2
<1> QED
  BY <1>3 DEF Purchase, PurchaseTold

(* What a requery comes to. *)
RequeryOutcome(p) ==
  CASE p \in delivered -> "lookup"
    [] p \in pending \ delivered ->
         IF p[1] = Buypower \/ ~expired THEN "retry" ELSE "flag"
    [] OTHER -> "failed"

RequeryTold(w) ==
  /\ worker[w].pc = "ask"
  /\ \/ Goto(w, RequeryOutcome(RequeryVend(worker[w].snap))) /\ NoFault
     \/ Goto(w, "retry") /\ Fault
  /\ AddEvents(IF worker'[w].pc = "retry" THEN RetryEvents(worker[w].snap) ELSE {})
  /\ UNCHANGED <<status, txn, unit, rows, queue, request, vendors, expired, history, nextRef>>

LEMMA RequeryTells ==
  ASSUME NEW w, Requery(w) PROVE RequeryTold(w)
<1> DEFINE t == worker[w].snap
           p == RequeryVend(t)
           o == Outcome(p)
<1>1. o \in Outcomes /\ (o = "delivered" <=> p \in delivered)
      /\ (o = "pending" <=> p \in pending \ delivered) /\ p[1] = t.superagent
  BY DEF Outcome, OutcomeIn, Outcomes, RequeryVend
<1>2. \/ (\E r \in RequeryReplies(t.superagent, o) : Goto(w, AfterRequery(t.superagent, r))) /\ NoFault
      \/ (\E r \in NoAnswer : Goto(w, AfterRequery(t.superagent, r))) /\ Fault
  BY DEF Requery
<1>3. \/ Goto(w, RequeryOutcome(p)) /\ NoFault
      \/ Goto(w, "retry") /\ Fault
  <2>1. CASE (\E r \in RequeryReplies(t.superagent, o) : Goto(w, AfterRequery(t.superagent, r))) /\ NoFault
    <3>1. PICK r \in RequeryReplies(t.superagent, o) : Goto(w, AfterRequery(t.superagent, r))
      BY <2>1
    <3> HIDE DEF p, o
    <3>2. /\ o = "delivered" => AfterRequery(t.superagent, r) = "lookup"
          /\ o = "pending" =>
               AfterRequery(t.superagent, r)
                 = IF t.superagent = Buypower \/ ~expired THEN "retry" ELSE "flag"
          /\ o = "failed" => AfterRequery(t.superagent, r) = "failed"
      BY <1>1, RequeryReplyTells
    <3>3. AfterRequery(t.superagent, r) = RequeryOutcome(p)
      <4>1. CASE o = "delivered"
        BY <3>2, <1>1, <4>1 DEF RequeryOutcome
      <4>2. CASE o = "pending"
        BY <3>2, <1>1, <4>2 DEF RequeryOutcome
      <4>3. CASE o = "failed"
        BY <3>2, <1>1, <4>3 DEF RequeryOutcome
      <4> QED
        BY <1>1, <4>1, <4>2, <4>3 DEF Outcomes
    <3> QED
      BY <2>1, <3>1, <3>3
  <2>2. CASE (\E r \in NoAnswer : Goto(w, AfterRequery(t.superagent, r))) /\ Fault
    BY <2>2, NoAnswerTells
  <2> QED
    BY <1>2, <2>1, <2>2
<1> QED
  BY <1>3 DEF Requery, RequeryTold

-----------------------------------------------------------------------------
(* Worker w gets these values and no other worker changes; inside a handler *)
(* it stays with its batch.                                                 *)
Moves(w, pc, snap, next, row) ==
  /\ worker' \in [Workers -> Worker]
  /\ \A u \in Workers : u # w => worker'[u] = worker[u]
  /\ worker'[w].pc = pc
  /\ pc \notin {"idle", "next"} => worker'[w].topic = worker[w].topic
  /\ worker'[w].snap = snap /\ worker'[w].next = next /\ worker'[w].row = row

(* Replacing a worker's record by another one is a move. *)
LEMMA WorkerReplaced ==
  ASSUME worker \in [Workers -> Worker], NEW w \in Workers, NEW x \in Worker,
         x.pc \in {"idle", "next"} \/ x.topic = worker[w].topic,
         worker' = [worker EXCEPT ![w] = x]
  PROVE  Moves(w, x.pc, x.snap, x.next, x.row)
BY DEF Moves

(* Going on inside a handler keeps what the handler read. *)
LEMMA GotoMoves ==
  ASSUME worker \in [Workers -> Worker], NEW w \in Workers, NEW pc \in WorkerPCs,
         Goto(w, pc)
  PROVE  Moves(w, pc, worker[w].snap, worker[w].next, worker[w].row)
<1> DEFINE x == [worker[w] EXCEPT !.pc = pc]
<1>1. x \in Worker /\ x.pc = pc /\ x.topic = worker[w].topic
      /\ x.snap = worker[w].snap /\ x.next = worker[w].next /\ x.row = worker[w].row
  BY DEF Worker
<1>2. worker' = [worker EXCEPT ![w] = x]
  BY DEF Goto
<1> QED
  BY ONLY <1>1, <1>2, WorkerReplaced, worker \in [Workers -> Worker], w \in Workers

(* A handler that returns leaves nothing behind. *)
LEMMA NextMessageMoves ==
  ASSUME worker \in [Workers -> Worker], NEW w \in Workers, NextMessage(w)
  PROVE  Moves(w, "next", None, None, FALSE)
<1> DEFINE x == [worker[w] EXCEPT !.pc = "next", !.snap = None, !.next = None, !.row = FALSE]
<1>1. x \in Worker /\ x.pc = "next"
      /\ x.snap = None /\ x.next = None /\ x.row = FALSE
  BY DEF Worker, WorkerPCs
<1>2. worker' = [worker EXCEPT ![w] = x]
  BY DEF NextMessage
<1> QED
  BY ONLY <1>1, <1>2, WorkerReplaced, worker \in [Workers -> Worker], w \in Workers
(* Fetching a batch starts with a clean worker. *)
LEMMA FetchBatchMoves ==
  ASSUME TypeInv, NEW w \in Workers, FetchBatch(w)
  PROVE  Moves(w, "next", None, None, FALSE)
<1> PICK t \in Topics : \E n \in 1..queue[t] :
       worker' = [worker EXCEPT ![w] = [IdleWorker EXCEPT !.pc = "next", !.topic = t,
                                                          !.left = n, !.size = n]]
  BY DEF FetchBatch
<1> PICK n \in 1..queue[t] :
       worker' = [worker EXCEPT ![w] = [IdleWorker EXCEPT !.pc = "next", !.topic = t,
                                                          !.left = n, !.size = n]]
  OBVIOUS
<1> DEFINE x == [IdleWorker EXCEPT !.pc = "next", !.topic = t, !.left = n, !.size = n]
<1>0. n \in Nat /\ IdleWorker \in Worker /\ IdleWorker.snap = None
      /\ IdleWorker.next = None /\ IdleWorker.row = FALSE
  BY DEF TypeInv, TypeOK, IdleWorker, Worker, WorkerPCs, Topics
<1>1. x \in Worker /\ x.pc = "next" /\ x.snap = None /\ x.next = None /\ x.row = FALSE
  BY <1>0 DEF Worker, WorkerPCs
<1>2. worker' = [worker EXCEPT ![w] = x] /\ worker \in [Workers -> Worker]
  BY DEF TypeInv, TypeOK
<1> QED
  BY ONLY <1>1, <1>2, WorkerReplaced, w \in Workers

(* A worker made idle holds nothing. *)
LEMMA IdleMoves ==
  ASSUME worker \in [Workers -> Worker], NEW w \in Workers,
         worker' = [worker EXCEPT ![w] = IdleWorker]
  PROVE  Moves(w, "idle", None, None, FALSE)
<1>1. IdleWorker \in Worker /\ IdleWorker.pc = "idle" /\ IdleWorker.snap = None
      /\ IdleWorker.next = None /\ IdleWorker.row = FALSE
  BY DEF IdleWorker, Worker, WorkerPCs, Topics
<1> QED
  BY ONLY <1>1, WorkerReplaced, worker \in [Workers -> Worker], w \in Workers,
          worker' = [worker EXCEPT ![w] = IdleWorker]

(* Losing the session does not disturb the handler. *)
LEMMA LoseSessionMoves ==
  ASSUME TypeInv, NEW w \in Workers, LoseSession(w)
  PROVE  Moves(w, worker[w].pc, worker[w].snap, worker[w].next, worker[w].row)
<1> DEFINE x == [worker[w] EXCEPT !.size = 0]
<1>1. worker \in [Workers -> Worker] /\ worker' = [worker EXCEPT ![w] = x]
  BY DEF TypeInv, TypeOK, LoseSession
<1>2. x \in Worker /\ x.pc = worker[w].pc /\ x.topic = worker[w].topic
      /\ x.snap = worker[w].snap /\ x.next = worker[w].next /\ x.row = worker[w].row
  BY <1>1 DEF Worker
<1> QED
  BY ONLY <1>1, <1>2, WorkerReplaced, w \in Workers

(* A handler starts by reading the row. *)
LEMMA BeginMoves ==
  ASSUME TypeInv, NEW w \in Workers, Begin(w)
  PROVE  Moves(w, IF worker[w].topic = "purchase" THEN "vend" ELSE "ask",
               txn, worker[w].next, worker[w].row)
<1> DEFINE pc == IF worker[w].topic = "purchase" THEN "vend" ELSE "ask"
           x == [worker[w] EXCEPT !.pc = pc, !.left = @ - 1, !.snap = txn]
<1>1. worker \in [Workers -> Worker] /\ worker' = [worker EXCEPT ![w] = x]
  BY DEF TypeInv, TypeOK, Begin
<1>2. worker[w].left - 1 \in Nat
  BY DEF TypeInv, TypeOK, Begin, Worker
<1>3. x \in Worker /\ x.pc = pc /\ x.topic = worker[w].topic
      /\ x.snap = txn /\ x.next = worker[w].next /\ x.row = worker[w].row
  BY <1>1, <1>2 DEF TypeInv, TypeOK, Worker, WorkerPCs
<1>4. Moves(w, pc, txn, worker[w].next, worker[w].row)
  BY ONLY <1>1, <1>3, WorkerReplaced, w \in Workers
<1> QED
  BY <1>4

(* The meter validation renews the access token in the row and in the copy. *)
LEMMA ValidateMeterMoves ==
  ASSUME TypeInv, NEW w \in Workers, ValidateMeter(w)
  PROVE  \/ /\ txn' = [txn EXCEPT !.accessRef = worker[w].snap.vendorRef]
            /\ Moves(w, "vend", [worker[w].snap EXCEPT !.accessRef = worker[w].snap.vendorRef],
                     worker[w].next, worker[w].row)
         \/ /\ UNCHANGED txn
            /\ Moves(w, "retry", worker[w].snap, worker[w].next, worker[w].row)
<1>1. worker \in [Workers -> Worker] /\ worker[w].pc = "vend"
      /\ worker[w].snap \in Transaction
  BY DEF TypeInv, TypeOK, ValidateMeter, Running
<1>2. CASE /\ txn' = [txn EXCEPT !.accessRef = worker[w].snap.vendorRef]
           /\ worker' = [worker EXCEPT ![w].snap.accessRef = worker[w].snap.vendorRef]
  <2> DEFINE s == [worker[w].snap EXCEPT !.accessRef = worker[w].snap.vendorRef]
             x == [worker[w] EXCEPT !.snap = s]
  <2>1. s \in Transaction
    BY <1>1 DEF Transaction
  <2>2. x \in Worker /\ x.pc = "vend" /\ x.topic = worker[w].topic
        /\ x.snap = s /\ x.next = worker[w].next /\ x.row = worker[w].row
    BY <1>1, <2>1 DEF Worker
  <2>3. worker' = [worker EXCEPT ![w] = x]
    BY <1>2
  <2>4. Moves(w, "vend", s, worker[w].next, worker[w].row)
    BY ONLY <1>1, <2>2, <2>3, WorkerReplaced, w \in Workers
  <2> QED
    BY <1>2, <2>4
<1>3. CASE Goto(w, "retry") /\ UNCHANGED txn
  BY <1>1, <1>3, GotoMoves DEF WorkerPCs
<1> QED
  BY <1>2, <1>3 DEF ValidateMeter

(* The choice of a vendor prepares a typed row and keeps the one read. *)
LEMMA ChooseVendorMoves ==
  ASSUME TypeInv, NEW w \in Workers, ChooseVendor(w)
  PROVE  LET t == worker[w].snap
             r == RetryReference(t, nextRef)
         IN \E v \in RetryVendors(t), a \in {t.accessRef, r} :
              /\ Moves(w, "switch", t, RetryRow(t, v, r, a), worker[w].row)
              /\ RetryRow(t, v, r, a) \in Transaction
<1> DEFINE t == worker[w].snap
           r == RetryReference(t, nextRef)
<1>1. worker \in [Workers -> Worker] /\ t \in Transaction /\ nextRef \in Nat
  BY DEF TypeInv, TypeOK, ChooseVendor, Running
<1>2. PICK v \in RetryVendors(t), a \in {t.accessRef, r} :
        worker' = [worker EXCEPT ![w].pc = "switch", ![w].next = RetryRow(t, v, r, a)]
  BY DEF ChooseVendor
<1> DEFINE n == RetryRow(t, v, r, a)
           x == [worker[w] EXCEPT !.pc = "switch", !.next = n]
<1>3. n \in Transaction
  BY ONLY <1>1, <1>2, RetryRowType
<1> HIDE DEF n
<1>4. x \in Worker /\ x.pc = "switch" /\ x.topic = worker[w].topic
      /\ x.snap = t /\ x.next = n /\ x.row = worker[w].row
  BY <1>1, <1>3 DEF Worker, WorkerPCs
<1>5. worker' = [worker EXCEPT ![w] = x]
  BY <1>2 DEF n
<1>6. Moves(w, "switch", t, n, worker[w].row)
  BY ONLY <1>1, <1>4, <1>5, WorkerReplaced, w \in Workers
<1> QED
  BY <1>2, <1>3, <1>6 DEF n

(* Looking for the PowerUnit row remembers whether there was one. *)
LEMMA LookUpUnitMoves ==
  ASSUME TypeInv, NEW w \in Workers, LookUpUnit(w)
  PROVE  Moves(w, IF Prepaid THEN "save" ELSE "complete", worker[w].snap, worker[w].next, rows > 0)
<1> DEFINE pc == IF Prepaid THEN "save" ELSE "complete"
           found == rows > 0
           x == [worker[w] EXCEPT !.row = found, !.pc = pc]
<1>1. worker \in [Workers -> Worker] /\ worker' = [worker EXCEPT ![w] = x]
  BY DEF TypeInv, TypeOK, LookUpUnit
<1>2. pc \in WorkerPCs /\ found \in BOOLEAN
  BY DEF WorkerPCs
<1> HIDE DEF pc, found
<1>3. x \in Worker /\ x.pc = pc /\ x.topic = worker[w].topic
      /\ x.snap = worker[w].snap /\ x.next = worker[w].next /\ x.row = found
  BY <1>1, <1>2 DEF Worker
<1>4. Moves(w, pc, worker[w].snap, worker[w].next, found)
  BY ONLY <1>1, <1>3, WorkerReplaced, w \in Workers
<1> QED
  BY <1>4 DEF pc, found
-----------------------------------------------------------------------------
(* A move whose rows are typed keeps the handlers' part of TypeInv. *)
LEMMA TypesKept ==
  ASSUME TypeInv, NEW w \in Workers, NEW pc, NEW snap, NEW next, NEW row,
         Moves(w, pc, snap, next, row),
         pc \notin {"idle", "next"} => snap \in Transaction,
         pc = "switch" => next \in Transaction
  PROVE  /\ worker' \in [Workers -> Worker]
         /\ \A u \in Workers :
              /\ Running(u)' => worker'[u].snap \in Transaction
              /\ worker'[u].pc = "switch" => worker'[u].next \in Transaction
BY DEF TypeInv, Moves, Running

(* Every step keeps the types; DeliveryInv types what is announced and saved. *)
LEMMA TypeStep == TypeInv /\ DeliveryInv /\ [Next]_vars => TypeInv'
<1> SUFFICES ASSUME TypeInv, DeliveryInv, [Next]_vars PROVE TypeInv'
  OBVIOUS
<1> DEFINE Rest ==
      /\ status \in Statuses
      /\ txn \in Transaction
      /\ unit \in Vends \cup {None}
      /\ rows \in Nat
      /\ queue \in [Topics -> Nat]
      /\ request \in [Requests -> [pc : RequestPCs, read : Statuses]]
      /\ pending \subseteq Vends /\ delivered \subseteq Vends /\ failed \subseteq Vends
      /\ announced \subseteq Vends
      /\ expired \in BOOLEAN /\ flagged \in BOOLEAN /\ dropped \in BOOLEAN
      /\ nextRef \in Nat /\ faults \in Nat
    WorkerPart ==
      /\ worker \in [Workers -> Worker]
      /\ \A u \in Workers :
           /\ Running(u) => worker[u].snap \in Transaction
           /\ worker[u].pc = "switch" => worker[u].next \in Transaction
<1>a. TypeInv' <=> Rest' /\ WorkerPart'
  BY DEF TypeInv, TypeOK
<1>b. Rest /\ WorkerPart
  BY DEF TypeInv, TypeOK
<1>c. ASSUME UNCHANGED worker PROVE WorkerPart'
  BY <1>b, <1>c DEF Running
<1>d. ASSUME NEW w \in Workers, NEW pc \in WorkerPCs, Goto(w, pc), Running(w), pc # "switch"
      PROVE  WorkerPart'
  BY <1>b, <1>d, GotoMoves, TypesKept
<1>e. ASSUME NEW w \in Workers, NextMessage(w)
      PROVE  WorkerPart'
  BY <1>b, <1>e, NextMessageMoves, TypesKept
<1>f. ASSUME NEW t \in Topics, Publish(t)
      PROVE  queue' \in [Topics -> Nat] /\ dropped' \in BOOLEAN /\ faults' \in Nat
  <2>1. CASE queue' = [queue EXCEPT ![t] = @ + 1] /\ NoFault /\ UNCHANGED dropped
    BY <1>b, <2>1 DEF NoFault
  <2>2. CASE Fault /\ dropped' = TRUE /\ UNCHANGED queue
    BY <1>b, <2>2 DEF Fault
  <2> QED
    BY <1>f, <2>1, <2>2 DEF Publish
<1>1. ASSUME NEW q \in Requests, ReceiveRequest(q) PROVE TypeInv'
  BY <1>1, <1>a, <1>b, <1>c DEF ReceiveRequest, RequestPCs
<1>2. ASSUME NEW q \in Requests, ValidateRequest(q) PROVE TypeInv'
  BY <1>2, <1>a, <1>b, <1>c DEF ValidateRequest, RequestPCs
<1>3. ASSUME NEW q \in Requests, SaveRequest(q) PROVE TypeInv'
  BY <1>3, <1>a, <1>b, <1>c DEF SaveRequest, RequestPCs, Statuses
<1>4. ASSUME NEW q \in Requests, MarkInProgress(q) PROVE TypeInv'
  BY <1>4, <1>a, <1>b, <1>c DEF MarkInProgress, RequestPCs, Statuses
<1>5. ASSUME NEW q \in Requests, PublishRequest(q) PROVE TypeInv'
  BY <1>5, <1>a, <1>b, <1>c, <1>f DEF PublishRequest, RequestPCs, Topics
<1>6. ASSUME NEW w \in Workers, FetchBatch(w) PROVE TypeInv'
  <2>1. Rest'
    BY <1>6, <1>b DEF FetchBatch
  <2>2. WorkerPart'
    BY <1>6, FetchBatchMoves, TypesKept
  <2> QED
    BY <2>1, <2>2, <1>a
<1>7. ASSUME NEW w \in Workers, CommitBatch(w) PROVE TypeInv'
  BY <1>7, <1>a, <1>b, IdleMoves, TypesKept DEF CommitBatch
<1>8. ASSUME NEW w \in Workers, Begin(w) PROVE TypeInv'
  <2>1. Rest'
    BY <1>8, <1>b DEF Begin
  <2>2. WorkerPart'
    BY <1>8, <1>b, BeginMoves, TypesKept
  <2> QED
    BY <2>1, <2>2, <1>a
<1>9. ASSUME NEW w \in Workers, ValidateMeter(w) PROVE TypeInv'
  <2>0. worker[w].snap \in Transaction /\ worker[w].snap.vendorRef \in Nat
    BY <1>9, <1>b DEF ValidateMeter, Running, Transaction
  <2>1. Rest'
    BY <1>9, <1>b, <2>0 DEF ValidateMeter, Transaction, Fault, NoFault
  <2>2. [worker[w].snap EXCEPT !.accessRef = worker[w].snap.vendorRef] \in Transaction
    BY <2>0 DEF Transaction
  <2>3. WorkerPart'
    BY <1>9, <2>0, <2>2, ValidateMeterMoves, TypesKept
  <2> QED
    BY <2>1, <2>3, <1>a
<1>10. ASSUME NEW w \in Workers, Purchase(w) PROVE TypeInv'
  <2>0. worker[w].snap \in Transaction /\ Running(w)
    BY <1>10, <1>b, PurchaseTells DEF PurchaseTold, Running
  <2>1. PurchaseVend(worker[w].snap) \in Vends
    BY <2>0 DEF PurchaseVend, Vends, Transaction
  <2>2. Rest'
    BY <1>10, <1>b, <2>1, PurchaseTells DEF PurchaseTold, Accept, Ignore, Fault, NoFault
  <2>3. WorkerPart'
    BY <1>10, <1>d, <2>0, PurchaseTells DEF PurchaseTold, WorkerPCs
  <2> QED
    BY <2>2, <2>3, <1>a
<1>11. ASSUME NEW w \in Workers, Requery(w) PROVE TypeInv'
  <2>0. Running(w) /\ RequeryOutcome(RequeryVend(worker[w].snap)) \in {"lookup", "retry", "flag", "failed"}
    BY <1>11, RequeryTells DEF RequeryTold, Running, RequeryOutcome
  <2>1. Rest'
    BY <1>11, <1>b, RequeryTells DEF RequeryTold, Fault, NoFault
  <2>2. WorkerPart'
    BY <1>11, <1>d, <2>0, RequeryTells DEF RequeryTold, WorkerPCs
  <2> QED
    BY <2>1, <2>2, <1>a
<1>12. ASSUME NEW w \in Workers, FlagTransaction(w) PROVE TypeInv'
  <2>1. Rest'
    BY <1>12, <1>b DEF FlagTransaction, Statuses
  <2> QED
    BY <1>12, <2>1, <1>a, <1>e DEF FlagTransaction
<1>13. ASSUME NEW w \in Workers, TriggerRequery(w) PROVE TypeInv'
  <2>1. Rest'
    BY <1>13, <1>b, <1>f DEF TriggerRequery, Topics
  <2> QED
    BY <1>13, <2>1, <1>a, <1>e DEF TriggerRequery
<1>14. ASSUME NEW w \in Workers, Republish(w) PROVE TypeInv'
  <2>1. Rest'
    BY <1>14, <1>b, <1>f DEF Republish, Topics
  <2> QED
    BY <1>14, <2>1, <1>a, <1>e DEF Republish
<1>15. ASSUME NEW w \in Workers, ChooseVendor(w) PROVE TypeInv'
  <2>0. worker[w].snap \in Transaction
    BY <1>15, <1>b DEF ChooseVendor, Running
  <2>1. txn' \in Transaction
    <3> DEFINE r == [worker[w].snap.record EXCEPT !.count = @ + 1]
    <3>1. r \in RetryRecord
      BY <2>0 DEF Transaction, RetryRecord
    <3>2. txn' = [txn EXCEPT !.record = r] \/ txn' = txn
      BY <1>15 DEF ChooseVendor
    <3> HIDE DEF r
    <3> QED
      BY <1>b, <3>1, <3>2 DEF Transaction
  <2>2. Rest'
    BY <1>15, <1>b, <2>1 DEF ChooseVendor, Fault, NoFault
  <2>3. WorkerPart'
    BY <1>15, <2>0, ChooseVendorMoves, TypesKept
  <2> QED
    BY <2>2, <2>3, <1>a
<1>16. ASSUME NEW w \in Workers, NoVendorLeft(w) PROVE TypeInv'
  <2>1. Rest'
    BY <1>16, <1>b DEF NoVendorLeft
  <2> QED
    BY <1>16, <2>1, <1>a, <1>e DEF NoVendorLeft
<1>17. ASSUME NEW w \in Workers, SwitchVendor(w) PROVE TypeInv'
  <2>1. Rest'
    BY <1>17, <1>b DEF SwitchVendor
  <2>2. WorkerPart'
    <3>1. /\ worker \in [Workers -> Worker] /\ "republish" \in WorkerPCs
          /\ worker[w].snap \in Transaction /\ Goto(w, "republish")
      BY <1>17, <1>b DEF SwitchVendor, Running, WorkerPCs
    <3> QED
      BY <3>1, GotoMoves, TypesKept
  <2> QED
    BY <2>1, <2>2, <1>a
<1>18. ASSUME NEW w \in Workers, LookUpUnit(w) PROVE TypeInv'
  <2>1. Rest'
    BY <1>18, <1>b DEF LookUpUnit
  <2>2. WorkerPart'
    BY <1>18, <1>b, LookUpUnitMoves, TypesKept DEF LookUpUnit, Running
  <2> QED
    BY <2>1, <2>2, <1>a
<1>19. ASSUME NEW w \in Workers, SaveUnit(w) PROVE TypeInv'
  <2>0. HandledVend(w) \in Vends
    BY <1>19, <1>b DEF SaveUnit, DeliveryInv, Delivering
  <2>1. Rest'
    BY <1>19, <1>b, <2>0 DEF SaveUnit
  <2>2. WorkerPart'
    BY <1>19, <1>d DEF SaveUnit, Running, WorkerPCs
  <2> QED
    BY <2>1, <2>2, <1>a
<1>20. ASSUME NEW w \in Workers, Complete(w) PROVE TypeInv'
  <2>1. Rest'
    BY <1>20, <1>b DEF Complete, Statuses
  <2>2. WorkerPart'
    BY <1>20, <1>d, <1>e DEF Complete, Running, WorkerPCs
  <2> QED
    BY <2>1, <2>2, <1>a
<1>21. ASSUME NEW w \in Workers, Announce(w) PROVE TypeInv'
  <2>0. HandledVend(w) \in Vends
    BY <1>21, <1>b DEF Announce, DeliveryInv, Delivering
  <2>1. Rest'
    <3>1. CASE announced' = announced \cup {HandledVend(w)} /\ NoFault /\ UNCHANGED dropped
      BY <1>21, <1>b, <2>0, <3>1 DEF Announce, NoFault
    <3>2. CASE Fault /\ dropped' = TRUE /\ UNCHANGED announced
      BY <1>21, <1>b, <3>2 DEF Announce, Fault
    <3> QED
      BY <1>21, <3>1, <3>2 DEF Announce
  <2>2. WorkerPart'
    BY <1>21, <1>d, <1>e DEF Announce, Running, WorkerPCs
  <2> QED
    BY <2>1, <2>2, <1>a
<1>22. ASSUME NEW w \in Workers, Throw(w) PROVE TypeInv'
  <2>1. Rest'
    BY <1>22, <1>b DEF Throw, Fault
  <2> QED
    BY <1>22, <2>1, <1>a, <1>e DEF Throw
<1>23. ASSUME NEW w \in Workers, Crash(w) PROVE TypeInv'
  <2>0. worker[w].topic \in Topics /\ worker[w].size \in Nat
    BY <1>b DEF Worker
  <2>1. Rest'
    BY <1>23, <1>b, <2>0 DEF Crash, Fault
  <2>2. WorkerPart'
    BY <1>23, <1>b, IdleMoves, TypesKept DEF Crash
  <2> QED
    BY <2>1, <2>2, <1>a
<1>24. ASSUME NEW w \in Workers, LoseSession(w) PROVE TypeInv'
  <2>0. worker[w].topic \in Topics /\ worker[w].size \in Nat
    BY <1>b DEF Worker
  <2>1. Rest'
    BY <1>24, <1>b, <2>0 DEF LoseSession, Fault
  <2>2. WorkerPart'
    BY <1>24, <1>b, LoseSessionMoves, TypesKept DEF Running
  <2> QED
    BY <2>1, <2>2, <1>a
<1>25. ASSUME NEW p \in pending, Decide(p) PROVE TypeInv'
  BY <1>25, <1>a, <1>b, <1>c DEF Decide, Fault, NoFault
<1>26. ASSUME TwoHoursPass PROVE TypeInv'
  BY <1>26, <1>a, <1>b, <1>c DEF TwoHoursPass
<1>27. ASSUME UNCHANGED vars PROVE TypeInv'
  BY <1>27, <1>a, <1>b, <1>c DEF vars
<1> QED
  BY <1>1, <1>2, <1>3, <1>4, <1>5, <1>6, <1>7, <1>8, <1>9, <1>10, <1>11, <1>12, <1>13, <1>14,
     <1>15, <1>16, <1>17, <1>18, <1>19, <1>20, <1>21, <1>22, <1>23, <1>24, <1>25, <1>26, <1>27
     DEF Next, RequestStep, WorkerStep
-----------------------------------------------------------------------------
(* Inside a handler the vend it is about stays the same. *)
LEMMA HandledVendKept ==
  ASSUME NEW w \in Workers, NEW pc, NEW next, NEW row,
         Moves(w, pc, worker[w].snap, next, row), pc \notin {"idle", "next"}
  PROVE  HandledVend(w)' = HandledVend(w)
BY DEF Moves, HandledVend

(* What a move must respect to keep the handlers' part of DeliveryInv. *)
LEMMA DeliveryKept ==
  ASSUME TypeInv, DeliveryInv, NEW w \in Workers,
         NEW pc, NEW snap, NEW next, NEW row, Moves(w, pc, snap, next, row),
         delivered \subseteq delivered',
         rows > 0 => rows' > 0,
         unit \in delivered => unit' \in delivered',
         pc = "vend" => worker[w].topic = "purchase",
         pc = "ask" => worker[w].topic = "requery",
         pc \in {"lookup", "save", "complete", "announce"} => HandledVend(w)' \in delivered',
         row => rows' > 0,
         pc = "complete" /\ Prepaid => rows' > 0 /\ unit' \in delivered'
  PROVE  \A u \in Workers :
           /\ OnTopic(worker'[u])
           /\ Delivering(u)' => HandledVend(u)' \in delivered'
           /\ worker'[u].row => rows' > 0
           /\ worker'[u].pc = "complete" /\ Prepaid => rows' > 0 /\ unit' \in delivered'
<1> TAKE u \in Workers
<1>1. CASE u = w
  BY <1>1 DEF Moves, Delivering, OnTopic
<1>2. CASE u # w
  <2>1. worker'[u] = worker[u] /\ HandledVend(u)' = HandledVend(u)
    BY <1>2 DEF Moves, HandledVend
  <2>2. /\ OnTopic(worker[u])
        /\ Delivering(u) => HandledVend(u) \in delivered
        /\ worker[u].row => rows > 0
        /\ worker[u].pc = "complete" /\ Prepaid => rows > 0 /\ unit \in delivered
    BY DEF DeliveryInv
  <2> QED
    BY <2>1, <2>2 DEF Delivering
<1> QED
  BY <1>1, <1>2

(* Every step keeps DeliveryInv. *)
LEMMA DeliveryStep == TypeInv /\ DeliveryInv /\ [Next]_vars => DeliveryInv'
<1> SUFFICES ASSUME TypeInv, DeliveryInv, [Next]_vars PROVE DeliveryInv'
  OBVIOUS
<1> DEFINE
    Sold == announced \subseteq delivered /\ unit \in delivered \cup {None}
    Handlers ==
      \A u \in Workers :
        /\ OnTopic(worker[u])
        /\ Delivering(u) => HandledVend(u) \in delivered
        /\ worker[u].row => rows > 0
        /\ worker[u].pc = "complete" /\ Prepaid => rows > 0 /\ unit \in delivered
<1>a. DeliveryInv' <=> Sold' /\ CompleteIsDelivered' /\ Handlers'
  BY DEF DeliveryInv
<1>b. Sold /\ CompleteIsDelivered /\ Handlers
  BY DEF DeliveryInv
<1>t. /\ worker \in [Workers -> Worker] /\ rows \in Nat
  BY DEF TypeInv, TypeOK
<1>c. ASSUME delivered \subseteq delivered', UNCHANGED <<unit, rows>>,
             status' = "COMPLETE" => status = "COMPLETE", UNCHANGED announced
      PROVE  Sold' /\ CompleteIsDelivered'
  BY <1>b, <1>c DEF CompleteIsDelivered
<1>d. ASSUME delivered \subseteq delivered', UNCHANGED <<unit, rows, worker>>
      PROVE  Handlers'
  BY <1>b, <1>d DEF Delivering, HandledVend
<1>e. ASSUME NEW w \in Workers, NextMessage(w), delivered \subseteq delivered',
             UNCHANGED <<unit, rows>>
      PROVE  Handlers'
  BY <1>e, <1>t, NextMessageMoves, DeliveryKept
<1>f. ASSUME NEW w \in Workers, NEW pc \in WorkerPCs, Goto(w, pc), delivered \subseteq delivered',
             UNCHANGED <<unit, rows>>,
             pc \in {"lookup", "save", "complete", "announce"} => HandledVend(w)' \in delivered',
             pc \notin {"vend", "ask", "complete"}
      PROVE  Handlers'
  <2>1. Moves(w, pc, worker[w].snap, worker[w].next, worker[w].row)
    BY <1>f, <1>t, GotoMoves
  <2>2. worker[w].row => rows' > 0
    BY <1>b, <1>f
  <2> QED
    BY <1>f, <2>1, <2>2, DeliveryKept
<1>g. ASSUME NEW w \in Workers, NEW pc \in WorkerPCs, Goto(w, pc), pc \notin {"idle", "next"}
      PROVE  HandledVend(w)' = HandledVend(w)
  BY <1>g, <1>t, GotoMoves, HandledVendKept
<1>1. ASSUME NEW q \in Requests, ReceiveRequest(q) PROVE DeliveryInv'
  BY <1>1, <1>a, <1>c, <1>d DEF ReceiveRequest
<1>2. ASSUME NEW q \in Requests, ValidateRequest(q) PROVE DeliveryInv'
  BY <1>2, <1>a, <1>c, <1>d DEF ValidateRequest
<1>3. ASSUME NEW q \in Requests, SaveRequest(q) PROVE DeliveryInv'
  BY <1>3, <1>a, <1>c, <1>d DEF SaveRequest
<1>4. ASSUME NEW q \in Requests, PublishRequest(q) PROVE DeliveryInv'
  BY <1>4, <1>a, <1>c, <1>d DEF PublishRequest
<1>5. ASSUME NEW q \in Requests, MarkInProgress(q) PROVE DeliveryInv'
  BY <1>5, <1>a, <1>c, <1>d DEF MarkInProgress
<1>6. ASSUME NEW w \in Workers, FetchBatch(w) PROVE DeliveryInv'
  BY <1>6, <1>a, <1>c, FetchBatchMoves, DeliveryKept DEF FetchBatch
<1>7. ASSUME NEW w \in Workers, CommitBatch(w) PROVE DeliveryInv'
  BY <1>7, <1>a, <1>c, <1>t, IdleMoves, DeliveryKept DEF CommitBatch
<1>8. ASSUME NEW w \in Workers, Begin(w) PROVE DeliveryInv'
  <2>1. worker[w].row => rows > 0
    BY <1>b
  <2>2. worker[w].topic \in {"purchase", "requery"}
    BY <1>t DEF Worker, Topics
  <2> DEFINE pc == IF worker[w].topic = "purchase" THEN "vend" ELSE "ask"
  <2>3. Moves(w, pc, txn, worker[w].next, worker[w].row) /\ UNCHANGED <<delivered, rows, unit>>
    BY <1>8, BeginMoves DEF Begin
  <2>4. /\ pc \in {"vend", "ask"}
        /\ pc = "vend" => worker[w].topic = "purchase"
        /\ pc = "ask" => worker[w].topic = "requery"
    BY <2>2
  <2>5. Handlers'
    <3> HIDE DEF pc
    <3> QED
      BY <2>1, <2>3, <2>4, DeliveryKept
  <2> QED
    BY <1>8, <2>5, <1>a, <1>c DEF Begin
<1>9. ASSUME NEW w \in Workers, ValidateMeter(w) PROVE DeliveryInv'
  <2>1. (worker[w].row => rows > 0) /\ worker[w].topic = "purchase"
        /\ UNCHANGED <<delivered, rows, unit>>
    BY <1>9, <1>b DEF ValidateMeter, OnTopic
  <2> DEFINE s == [worker[w].snap EXCEPT !.accessRef = worker[w].snap.vendorRef]
  <2>2. ASSUME Moves(w, "vend", s, worker[w].next, worker[w].row) PROVE Handlers'
    <3> HIDE DEF s
    <3> QED
      BY <2>1, <2>2, DeliveryKept
  <2>3. ASSUME Moves(w, "retry", worker[w].snap, worker[w].next, worker[w].row) PROVE Handlers'
    BY <2>1, <2>3, DeliveryKept
  <2>4. Handlers'
    BY <1>9, <2>2, <2>3, ValidateMeterMoves
  <2> QED
    BY <1>9, <2>4, <1>a, <1>c DEF ValidateMeter
<1>10. ASSUME NEW w \in Workers, Purchase(w) PROVE DeliveryInv'
  <2>0. delivered \subseteq delivered'
    BY <1>10, PurchaseTells DEF PurchaseTold, Accept, Ignore
  <2>1. CASE PurchaseVend(worker[w].snap) \in delivered' /\ Goto(w, "announce")
    <3>1. HandledVend(w)' = HandledVend(w)
      BY <2>1, <1>g DEF WorkerPCs
    <3>2. HandledVend(w)' \in delivered'
      BY <1>10, <1>b, <2>1, <3>1, PurchaseTells DEF PurchaseTold, HandledVend, OnTopic
    <3> QED
      BY <1>10, <2>0, <2>1, <3>2, <1>a, <1>c, <1>f, PurchaseTells DEF PurchaseTold, WorkerPCs
  <2>2. CASE Goto(w, "retry")
    BY <1>10, <2>0, <2>2, <1>a, <1>c, <1>f, PurchaseTells DEF PurchaseTold, WorkerPCs
  <2> QED
    BY <1>10, <2>1, <2>2, PurchaseTells DEF PurchaseTold
<1>11. ASSUME NEW w \in Workers, Requery(w) PROVE DeliveryInv'
  <2> DEFINE p == RequeryVend(worker[w].snap)
  <2>1. CASE p \in delivered /\ Goto(w, "lookup")
    <3>1. HandledVend(w)' = HandledVend(w)
      BY <2>1, <1>g DEF WorkerPCs
    <3>2. HandledVend(w)' \in delivered'
      BY <1>11, <1>b, <2>1, <3>1, RequeryTells DEF RequeryTold, HandledVend, OnTopic
    <3> QED
      BY <1>11, <2>1, <3>2, <1>a, <1>c, <1>f, RequeryTells DEF RequeryTold, WorkerPCs
  <2>2. CASE \E pc \in {"retry", "flag", "failed"} : Goto(w, pc)
    BY <1>11, <2>2, <1>a, <1>c, <1>f, RequeryTells DEF RequeryTold, WorkerPCs
  <2> QED
    BY <1>11, <2>1, <2>2, RequeryTells DEF RequeryTold, RequeryOutcome
<1>12. ASSUME NEW w \in Workers, FlagTransaction(w) PROVE DeliveryInv'
  BY <1>12, <1>a, <1>c, <1>e DEF FlagTransaction
<1>13. ASSUME NEW w \in Workers, TriggerRequery(w) PROVE DeliveryInv'
  BY <1>13, <1>a, <1>c, <1>e DEF TriggerRequery
<1>14. ASSUME NEW w \in Workers, NoVendorLeft(w) PROVE DeliveryInv'
  BY <1>14, <1>a, <1>c, <1>e DEF NoVendorLeft
<1>15. ASSUME NEW w \in Workers, Republish(w) PROVE DeliveryInv'
  BY <1>15, <1>a, <1>c, <1>e DEF Republish
<1>16. ASSUME NEW w \in Workers, Throw(w) PROVE DeliveryInv'
  BY <1>16, <1>a, <1>c, <1>e DEF Throw
<1>17. ASSUME NEW w \in Workers, ChooseVendor(w) PROVE DeliveryInv'
  <2>1. (worker[w].row => rows > 0) /\ UNCHANGED <<delivered, rows, unit>>
    BY <1>17, <1>b DEF ChooseVendor
  <2>2. PICK next : Moves(w, "switch", worker[w].snap, next, worker[w].row)
    BY <1>17, ChooseVendorMoves
  <2>3. Handlers'
    BY <2>1, <2>2, DeliveryKept
  <2> QED
    BY <1>17, <2>1, <2>3, <1>a, <1>c DEF ChooseVendor
<1>18. ASSUME NEW w \in Workers, SwitchVendor(w) PROVE DeliveryInv'
  BY <1>18, <1>a, <1>c, <1>f DEF SwitchVendor, WorkerPCs
<1>19. ASSUME NEW w \in Workers, LookUpUnit(w) PROVE DeliveryInv'
  <2>1. HandledVend(w) \in delivered
    BY <1>19, <1>b DEF LookUpUnit, Delivering
  <2> DEFINE pc == IF Prepaid THEN "save" ELSE "complete"
             found == rows > 0
  <2>2. Moves(w, pc, worker[w].snap, worker[w].next, found) /\ UNCHANGED <<delivered, rows, unit>>
    BY <1>19, LookUpUnitMoves DEF LookUpUnit
  <2>3. Handlers'
    <3>1. /\ pc \notin {"vend", "ask", "idle", "next"}
          /\ pc = "complete" => ~Prepaid
          /\ found => rows' > 0
      BY <2>2
    <3> HIDE DEF pc, found
    <3>2. HandledVend(w)' \in delivered'
      BY <2>1, <2>2, <3>1, HandledVendKept
    <3> QED
      BY <2>2, <3>1, <3>2, DeliveryKept
  <2> QED
    BY <1>19, <2>3, <1>a, <1>c DEF LookUpUnit
<1>20. ASSUME NEW w \in Workers, SaveUnit(w) PROVE DeliveryInv'
  <2>1. HandledVend(w) \in delivered /\ (worker[w].row => rows > 0)
    BY <1>20, <1>b DEF SaveUnit, Delivering
  <2>2. rows' > 0 /\ unit' \in delivered' /\ UNCHANGED <<status, delivered, announced>>
    BY <1>20, <2>1, <1>t DEF SaveUnit
  <2>3. Moves(w, "complete", worker[w].snap, worker[w].next, worker[w].row)
        /\ HandledVend(w)' = HandledVend(w)
    BY <1>20, <1>t, <1>g, GotoMoves DEF SaveUnit, WorkerPCs
  <2>4. Handlers'
    BY <2>1, <2>2, <2>3, DeliveryKept
  <2>5. Sold' /\ CompleteIsDelivered'
    BY <2>2, <1>b DEF CompleteIsDelivered
  <2> QED
    BY <2>4, <2>5, <1>a
<1>21. ASSUME NEW w \in Workers, Complete(w) PROVE DeliveryInv'
  <2>1. HandledVend(w) \in delivered /\ (Prepaid => rows > 0 /\ unit \in delivered)
    BY <1>21, <1>b DEF Complete, Delivering
  <2>2. Sold' /\ CompleteIsDelivered'
    BY <1>21, <2>1, <1>b DEF Complete, CompleteIsDelivered
  <2>3. CASE Goto(w, "announce")
    BY <1>21, <2>1, <2>2, <2>3, <1>a, <1>f, <1>g DEF Complete, WorkerPCs
  <2>4. CASE NextMessage(w)
    BY <1>21, <2>2, <2>4, <1>a, <1>e DEF Complete
  <2> QED
    BY <1>21, <2>3, <2>4 DEF Complete
<1>22. ASSUME NEW w \in Workers, Announce(w) PROVE DeliveryInv'
  <2>1. HandledVend(w) \in delivered
    BY <1>22, <1>b DEF Announce, Delivering
  <2>2. Sold' /\ CompleteIsDelivered'
    BY <1>22, <2>1, <1>b DEF Announce, CompleteIsDelivered
  <2>3. CASE Goto(w, "lookup")
    BY <1>22, <2>1, <2>2, <2>3, <1>a, <1>f, <1>g DEF Announce, WorkerPCs
  <2>4. CASE NextMessage(w)
    BY <1>22, <2>2, <2>4, <1>a, <1>e DEF Announce
  <2> QED
    BY <1>22, <2>3, <2>4 DEF Announce
<1>23. ASSUME NEW w \in Workers, Crash(w) PROVE DeliveryInv'
  BY <1>23, <1>a, <1>c, <1>t, IdleMoves, DeliveryKept DEF Crash
<1>24. ASSUME NEW w \in Workers, LoseSession(w) PROVE DeliveryInv'
  <2>1. Moves(w, worker[w].pc, worker[w].snap, worker[w].next, worker[w].row)
    BY <1>24, LoseSessionMoves
  <2>2. HandledVend(w)' = HandledVend(w) \/ worker[w].pc \in {"idle", "next"}
    BY <2>1, HandledVendKept
  <2>3. /\ Delivering(w) => HandledVend(w) \in delivered
        /\ worker[w].row => rows > 0
        /\ worker[w].pc = "complete" /\ Prepaid => rows > 0 /\ unit \in delivered
        /\ worker[w].pc = "vend" => worker[w].topic = "purchase"
        /\ worker[w].pc = "ask"  => worker[w].topic = "requery"
    BY <1>b DEF OnTopic
  <2> QED
    BY <1>24, <2>1, <2>2, <2>3, <1>a, <1>c, DeliveryKept DEF LoseSession, Delivering
<1>25. ASSUME NEW p \in pending, Decide(p) PROVE DeliveryInv'
  BY <1>25, <1>a, <1>c, <1>d DEF Decide
<1>26. ASSUME TwoHoursPass PROVE DeliveryInv'
  BY <1>26, <1>a, <1>c, <1>d DEF TwoHoursPass
<1>27. ASSUME UNCHANGED vars PROVE DeliveryInv'
  BY <1>27, <1>a, <1>c, <1>d DEF vars
<1> QED
  BY <1>1, <1>2, <1>3, <1>4, <1>5, <1>6, <1>7, <1>8, <1>9, <1>10, <1>11, <1>12, <1>13, <1>14,
     <1>15, <1>16, <1>17, <1>18, <1>19, <1>20, <1>21, <1>22, <1>23, <1>24, <1>25, <1>26, <1>27
     DEF Next, RequestStep, WorkerStep

(* Both invariants hold in every reachable state, with any number of workers. *)
LEMMA SafetyInv == Spec => [](TypeInv /\ DeliveryInv)
BY InitInv, TypeStep, DeliveryStep, PTL DEF Spec

(* Type correctness: rows, messages, workers and requests keep their types. *)
THEOREM TypeCorrect == Spec => []TypeOK
<1>1. TypeInv => TypeOK
  BY DEF TypeInv
<1> QED
  BY SafetyInv, <1>1, PTL

(* However messages are redelivered and workers interleave, a transaction   *)
(* whose status is COMPLETE was delivered, and a prepaid one has a PowerUnit *)
(* row with the token of a delivered vend (Token.ts, both handlers).        *)
THEOREM CompleteDelivered == Spec => []CompleteIsDelivered
<1>1. DeliveryInv => CompleteIsDelivered
  BY DEF DeliveryInv
<1> QED
  BY SafetyInv, <1>1, PTL

(* TOKEN_RECIEVED_FROM_VENDOR is published for delivered vends only, with    *)
(* any number of workers (Token.ts, both handlers).                         *)
THEOREM AnnouncedDelivered == Spec => []AnnouncedIsDelivered
<1>1. DeliveryInv => AnnouncedIsDelivered
  BY DEF DeliveryInv, AnnouncedIsDelivered
<1> QED
  BY SafetyInv, <1>1, PTL
-----------------------------------------------------------------------------
(* One process consumes the two topics, one message at a time. *)
SingleWorker == \A v, w \in Workers : v = w

(* OneVendInHand is inductive together with what a requery asks about. *)
VendInv == OneVendInHand /\ RequerySeesVend

(* A new transaction has no vend at all. *)
LEMMA VendInit == Init => VendInv
BY DEF Init, VendInv, OneVendInHand, RequerySeesVend, IdleWorker, Live

(* What a move must respect to keep VendInv. *)
LEMMA VendKept ==
  ASSUME SingleWorker, VendInv, NEW w \in Workers,
         NEW pc, NEW snap, NEW next, NEW row, Moves(w, pc, snap, next, row),
         UNCHANGED <<txn, pending, delivered>>,
         pc \in {"vend", "ask", "failed"} => snap = txn,
         pc \in {"failed", "switch"} => Live = {}
  PROVE  VendInv'
<1>1. \A u \in Workers : u = w
  BY DEF SingleWorker
<1>2. OneVendInHand'
  BY <1>1 DEF VendInv, OneVendInHand, Moves, Live
<1>3. RequerySeesVend'
  BY DEF VendInv, RequerySeesVend, RequeryVend, Live
<1> QED
  BY <1>2, <1>3 DEF VendInv

(* Every step of a single worker keeps VendInv.  The two steps that matter:  *)
(* Requery goes to a repurchase only when vendors hold nothing, for the vend *)
(* it asks about is the only one they may hold; SwitchVendor then renames    *)
(* the vend while they still hold nothing.                                   *)
LEMMA VendStep ==
  ASSUME SingleWorker
  PROVE  TypeInv /\ VendInv /\ [Next]_vars => VendInv'
<1> SUFFICES ASSUME TypeInv, VendInv, [Next]_vars PROVE VendInv'
  OBVIOUS
<1>t. worker \in [Workers -> Worker] /\ txn \in Transaction
  BY DEF TypeInv, TypeOK
<1>b. /\ pending \cap delivered = {}
      /\ Live \subseteq {PurchaseVend(txn)}
      /\ NeedsAccessToken(txn) => Live = {}
      /\ Live \subseteq {RequeryVend(txn)}
      /\ \A w \in Workers :
           /\ worker[w].pc \in {"vend", "ask", "failed"} => worker[w].snap = txn
           /\ worker[w].pc \in {"failed", "switch"} => Live = {}
  BY DEF VendInv, OneVendInHand, RequerySeesVend
<1>c. ASSUME UNCHANGED <<txn, pending, delivered, worker>> PROVE VendInv'
  BY <1>c DEF VendInv, OneVendInHand, RequerySeesVend, RequeryVend, Live
<1>e. ASSUME NEW w \in Workers, NextMessage(w), UNCHANGED <<txn, pending, delivered>> PROVE VendInv'
  BY <1>e, <1>t, NextMessageMoves, VendKept
<1>f. ASSUME NEW w \in Workers, NEW pc \in WorkerPCs, Goto(w, pc),
             pc \notin {"vend", "ask", "failed", "switch"},
             UNCHANGED <<txn, pending, delivered>>
      PROVE  VendInv'
  BY <1>f, <1>t, GotoMoves, VendKept
<1>1. ASSUME NEW q \in Requests, ReceiveRequest(q) PROVE VendInv'
  BY <1>1, <1>c DEF ReceiveRequest
<1>2. ASSUME NEW q \in Requests, ValidateRequest(q) PROVE VendInv'
  BY <1>2, <1>c DEF ValidateRequest
<1>3. ASSUME NEW q \in Requests, SaveRequest(q) PROVE VendInv'
  BY <1>3, <1>c DEF SaveRequest
<1>4. ASSUME NEW q \in Requests, PublishRequest(q) PROVE VendInv'
  BY <1>4, <1>c DEF PublishRequest
<1>5. ASSUME NEW q \in Requests, MarkInProgress(q) PROVE VendInv'
  BY <1>5, <1>c DEF MarkInProgress
<1>6. ASSUME NEW w \in Workers, FetchBatch(w) PROVE VendInv'
  BY <1>6, FetchBatchMoves, VendKept DEF FetchBatch
<1>7. ASSUME NEW w \in Workers, CommitBatch(w) PROVE VendInv'
  BY <1>7, <1>t, IdleMoves, VendKept DEF CommitBatch
<1>8. ASSUME NEW w \in Workers, Begin(w) PROVE VendInv'
  <2> DEFINE pc == IF worker[w].topic = "purchase" THEN "vend" ELSE "ask"
  <2>1. Moves(w, pc, txn, worker[w].next, worker[w].row) /\ UNCHANGED <<txn, pending, delivered>>
    BY <1>8, BeginMoves DEF Begin
  <2>2. pc \notin {"failed", "switch"}
    OBVIOUS
  <2> HIDE DEF pc
  <2> QED
    BY <2>1, <2>2, VendKept
<1>9. ASSUME NEW w \in Workers, ValidateMeter(w) PROVE VendInv'
  <2>1. /\ worker[w].snap = txn /\ Live = {}
        /\ UNCHANGED <<pending, delivered>>
    BY <1>9, <1>b DEF ValidateMeter
  <2>2. ASSUME UNCHANGED txn, Moves(w, "retry", worker[w].snap, worker[w].next, worker[w].row)
        PROVE  VendInv'
    BY <2>1, <2>2, VendKept
  <2>3. ASSUME txn' = [txn EXCEPT !.accessRef = txn.vendorRef],
               Moves(w, "vend", txn', worker[w].next, worker[w].row)
        PROVE  VendInv'
    <3>1. Live' = {}
      BY <2>1 DEF Live
    <3>2. \A u \in Workers : u = w /\ worker'[u].pc = "vend" /\ worker'[u].snap = txn'
      BY <2>3 DEF SingleWorker, Moves
    <3> QED
      BY <1>b, <2>1, <3>1, <3>2 DEF VendInv, OneVendInHand, RequerySeesVend
  <2> QED
    BY <1>9, <2>1, <2>2, <2>3, ValidateMeterMoves
<1>10. ASSUME NEW w \in Workers, Purchase(w) PROVE VendInv'
  <2> DEFINE p == PurchaseVend(txn)
  <2>1. /\ worker[w].snap = txn /\ ~NeedsAccessToken(txn) /\ UNCHANGED txn
        /\ \/ p \notin Known /\ Acceptable(txn) /\ Accept(p)
           \/ UNCHANGED <<pending, delivered>>
    BY <1>10, <1>b, PurchaseTells DEF PurchaseTold, Ignore
  <2>2. pending' \cap delivered' = {} /\ Live' \subseteq {p}
    BY <1>b, <2>1 DEF Accept, Live, Known
  <2>r. Live' \subseteq {RequeryVend(txn)}
    <3>1. CASE UNCHANGED <<pending, delivered>>
      BY <1>b, <3>1 DEF Live
    <3>2. CASE Acceptable(txn)
      <4>1. RequeryVend(txn) = p
        BY <3>2 DEF Acceptable, RequeryVend, PurchaseVend
      <4> QED
        BY <2>2, <4>1
    <3> QED
      BY <2>1, <3>1, <3>2
  <2>3. PICK pc \in {"announce", "retry"} : Moves(w, pc, worker[w].snap, worker[w].next, worker[w].row)
    BY <1>10, <1>t, GotoMoves, PurchaseTells DEF PurchaseTold, WorkerPCs
  <2>4. \A u \in Workers : u = w /\ worker'[u].pc \in {"announce", "retry"}
    BY <2>3 DEF SingleWorker, Moves
  <2>5. /\ p' = p
        /\ NeedsAccessToken(txn)' = NeedsAccessToken(txn)
        /\ RequerySeesVend'
    BY <2>1, <2>r DEF PurchaseVend, NeedsAccessToken, RequerySeesVend, RequeryVend
  <2> QED
    BY <2>1, <2>2, <2>4, <2>5 DEF VendInv, OneVendInHand
<1>11. ASSUME NEW w \in Workers, Requery(w) PROVE VendInv'
  <2>1. worker[w].snap = txn /\ UNCHANGED <<txn, pending, delivered>>
    BY <1>11, <1>b, RequeryTells DEF RequeryTold
  <2>2. CASE \E pc \in {"lookup", "retry", "flag"} : Goto(w, pc)
    BY <2>1, <2>2, <1>f DEF WorkerPCs
  <2>3. CASE RequeryVend(txn) \notin Live /\ Goto(w, "failed")
    <3>1. Live = {}
      BY <1>b, <2>3
    <3> QED
      BY <1>t, <2>1, <2>3, <3>1, GotoMoves, VendKept DEF WorkerPCs
  <2> QED
    BY <1>11, <2>1, <2>2, <2>3, RequeryTells DEF RequeryTold, RequeryOutcome, Live
<1>12. ASSUME NEW w \in Workers, FlagTransaction(w) PROVE VendInv'
  BY <1>12, <1>e DEF FlagTransaction
<1>13. ASSUME NEW w \in Workers, TriggerRequery(w) PROVE VendInv'
  BY <1>13, <1>e DEF TriggerRequery
<1>14. ASSUME NEW w \in Workers, NoVendorLeft(w) PROVE VendInv'
  BY <1>14, <1>e DEF NoVendorLeft
<1>15. ASSUME NEW w \in Workers, Republish(w) PROVE VendInv'
  BY <1>15, <1>e DEF Republish
<1>16. ASSUME NEW w \in Workers, Throw(w) PROVE VendInv'
  BY <1>16, <1>e DEF Throw
<1>17. ASSUME NEW w \in Workers, ChooseVendor(w) PROVE VendInv'
  <2>1. Live = {} /\ worker[w].snap = txn /\ UNCHANGED <<pending, delivered>>
    BY <1>17, <1>b DEF ChooseVendor
  <2>2. PICK next : Moves(w, "switch", txn, next, worker[w].row)
    BY <1>17, <2>1, ChooseVendorMoves
  <2>3. \A u \in Workers : u = w /\ worker'[u].pc = "switch"
    BY <2>2 DEF SingleWorker, Moves
  <2>4. Live' = {}
    BY <2>1 DEF Live
  <2> QED
    BY <1>b, <2>1, <2>3, <2>4 DEF VendInv, OneVendInHand, RequerySeesVend
<1>18. ASSUME NEW w \in Workers, SwitchVendor(w) PROVE VendInv'
  <2>1. Live = {} /\ UNCHANGED <<pending, delivered>>
    BY <1>18, <1>b DEF SwitchVendor
  <2>2. Moves(w, "republish", worker[w].snap, worker[w].next, worker[w].row)
    BY <1>18, <1>t, GotoMoves DEF SwitchVendor, WorkerPCs
  <2>3. \A u \in Workers : u = w /\ worker'[u].pc = "republish"
    BY <2>2 DEF SingleWorker, Moves
  <2>4. Live' = {}
    BY <2>1 DEF Live
  <2> QED
    BY <1>b, <2>1, <2>3, <2>4 DEF VendInv, OneVendInHand, RequerySeesVend
<1>19. ASSUME NEW w \in Workers, LookUpUnit(w) PROVE VendInv'
  <2> DEFINE pc == IF Prepaid THEN "save" ELSE "complete"
             found == rows > 0
  <2>1. Moves(w, pc, worker[w].snap, worker[w].next, found)
        /\ UNCHANGED <<txn, pending, delivered>> /\ pc \in {"save", "complete"}
    BY <1>19, LookUpUnitMoves DEF LookUpUnit
  <2> HIDE DEF pc, found
  <2> QED
    BY <2>1, VendKept
<1>20. ASSUME NEW w \in Workers, SaveUnit(w) PROVE VendInv'
  BY <1>20, <1>f DEF SaveUnit, WorkerPCs
<1>21. ASSUME NEW w \in Workers, Complete(w) PROVE VendInv'
  BY <1>21, <1>e, <1>f DEF Complete, WorkerPCs
<1>22. ASSUME NEW w \in Workers, Announce(w) PROVE VendInv'
  BY <1>22, <1>e, <1>f DEF Announce, WorkerPCs
<1>23. ASSUME NEW w \in Workers, Crash(w) PROVE VendInv'
  BY <1>23, <1>t, IdleMoves, VendKept DEF Crash
<1>24. ASSUME NEW w \in Workers, LoseSession(w) PROVE VendInv'
  <2>1. /\ worker[w].pc \in {"vend", "ask", "failed"} => worker[w].snap = txn
        /\ worker[w].pc \in {"failed", "switch"} => Live = {}
    BY <1>b
  <2> QED
    BY <1>24, <2>1, LoseSessionMoves, VendKept DEF LoseSession
<1>25. ASSUME NEW p \in pending, Decide(p) PROVE VendInv'
  <2>1. pending' \cap delivered' = {} /\ Live' \subseteq Live /\ UNCHANGED <<txn, worker>>
    BY <1>25, <1>b DEF Decide, Live
  <2>2. /\ NeedsAccessToken(txn)' = NeedsAccessToken(txn)
        /\ PurchaseVend(txn)' = PurchaseVend(txn)
        /\ RequeryVend(txn)' = RequeryVend(txn)
    BY <2>1 DEF RequeryVend, NeedsAccessToken, PurchaseVend
  <2> QED
    BY <1>b, <2>1, <2>2 DEF VendInv, OneVendInHand, RequerySeesVend
<1>26. ASSUME TwoHoursPass PROVE VendInv'
  BY <1>26, <1>c DEF TwoHoursPass
<1>27. ASSUME UNCHANGED vars PROVE VendInv'
  BY <1>27, <1>c DEF vars
<1> QED
  BY <1>1, <1>2, <1>3, <1>4, <1>5, <1>6, <1>7, <1>8, <1>9, <1>10, <1>11, <1>12, <1>13, <1>14,
     <1>15, <1>16, <1>17, <1>18, <1>19, <1>20, <1>21, <1>22, <1>23, <1>24, <1>25, <1>26, <1>27
     DEF Next, RequestStep, WorkerStep

(* The three invariants hold in every reachable state of a single worker. *)
LEMMA SingleWorkerInv ==
  ASSUME SingleWorker
  PROVE  Spec => [](TypeInv /\ DeliveryInv /\ VendInv)
<1>1. Init => TypeInv /\ DeliveryInv /\ VendInv
  BY InitInv, VendInit
<1>2. TypeInv /\ DeliveryInv /\ VendInv /\ [Next]_vars => (TypeInv /\ DeliveryInv /\ VendInv)'
  BY TypeStep, DeliveryStep, VendStep
<1> QED
  BY <1>1, <1>2, PTL DEF Spec

(* What vendors hold of the transaction is the vend its row names, and a     *)
(* repurchase is decided only when they hold nothing (Token.ts, the requery  *)
(* handler and triggerEventToRetryTransactionWithNewVendor).                 *)
THEOREM OneVend ==
  ASSUME SingleWorker
  PROVE  Spec => []OneVendInHand
<1>1. VendInv => OneVendInHand
  BY DEF VendInv
<1> QED
  BY SingleWorkerInv, <1>1, PTL

(* A customer who paid once is vended at most once, whatever the retries,    *)
(* vendor switches, crashes and redeliveries of a single worker.             *)
THEOREM OneDelivery ==
  ASSUME SingleWorker
  PROVE  Spec => []AtMostOneDelivery
<1>1. VendInv => AtMostOneDelivery
  BY DEF VendInv, OneVendInHand, AtMostOneDelivery, Live
<1> QED
  BY SingleWorkerInv, <1>1, PTL

(* A requery never misses what vendors hold: whatever tokens IRECHARGE's      *)
(* validations gave, the vend it asks about is the only one they may hold    *)
(* (requeryTransactionFromVendor, processVendRequest).                       *)
THEOREM RequeryFindsVend ==
  ASSUME SingleWorker
  PROVE  Spec => []RequerySeesVend
<1>1. VendInv => RequerySeesVend
  BY DEF VendInv
<1> QED
  BY SingleWorkerInv, <1>1, PTL

(* Every step is a step of VendPromise or leaves its variables unchanged. *)
LEMMA PromiseStep ==
  TypeInv /\ DeliveryInv /\ VendInv /\ [Next]_vars => [Promise!Next]_Promise!vars
<1> SUFFICES ASSUME TypeInv, DeliveryInv, VendInv, [Next]_vars
             PROVE  [Promise!Next]_Promise!vars
  OBVIOUS
<1>a. /\ pending \cap delivered = {}
      /\ Live \subseteq {PurchaseVend(txn)}
      /\ pending \subseteq Vends
      /\ announced \subseteq delivered
  BY DEF VendInv, OneVendInHand, DeliveryInv, TypeInv, TypeOK
<1>1. ASSUME UNCHANGED <<pending, delivered, announced>> PROVE UNCHANGED Promise!vars
  BY <1>1 DEF Promise!vars, Live
<1>2. ASSUME NEW w \in Workers, Purchase(w) PROVE [Promise!Next]_Promise!vars
  <2> DEFINE p == PurchaseVend(txn)
  <2>1. worker[w].snap = txn /\ worker[w].snap \in Transaction /\ UNCHANGED announced
    BY <1>2, PurchaseTells DEF PurchaseTold, VendInv, OneVendInHand, TypeInv, Running
  <2>2. p \in Vends
    BY <2>1 DEF PurchaseVend, Vends, Transaction
  <2>3. CASE UNCHANGED vendors
    BY <2>1, <2>3, <1>1
  <2>4. CASE p \notin Known /\ Accept(p)
    <3>1. Live = {} /\ pending = {} /\ delivered = {}
      BY <1>a, <2>4 DEF Known, Live
    <3>2. CASE UNCHANGED <<pending, delivered>>
      BY <2>1, <3>2, <1>1
    <3>3. CASE Live' = {p} /\ delivered' \in {{}, {p}}
      <4>1. Promise!Start(p)
        BY <2>1, <2>2, <3>1, <3>3 DEF Promise!Start
      <4> QED
        BY <3>3, <4>1 DEF Promise!Next
    <3> QED
      BY <2>4, <3>1, <3>2, <3>3 DEF Accept, Live
  <2> QED
    BY <1>2, <2>1, <2>3, <2>4, PurchaseTells DEF PurchaseTold, Ignore
<1>3. ASSUME NEW w \in Workers, Announce(w) PROVE [Promise!Next]_Promise!vars
  <2>1. HandledVend(w) \in delivered /\ UNCHANGED <<pending, delivered>>
    BY <1>3 DEF Announce, DeliveryInv, Delivering
  <2>2. CASE UNCHANGED announced
    BY <2>1, <2>2, <1>1
  <2>3. CASE announced' = announced \cup {HandledVend(w)}
    <3>1. Promise!Tell
      BY <2>1, <2>3 DEF Promise!Tell, Live
    <3> QED
      BY <3>1 DEF Promise!Next
  <2> QED
    BY <1>3, <2>2, <2>3 DEF Announce
<1>4. ASSUME NEW p \in pending, Decide(p) PROVE [Promise!Next]_Promise!vars
  <2>1. Live = {p} /\ pending = {p} /\ delivered = {} /\ UNCHANGED announced
    BY <1>4, <1>a DEF Decide, Live
  <2>2. CASE delivered' = {p}
    <3>1. Promise!Deliver(p)
      BY <1>4, <2>1, <2>2 DEF Promise!Deliver, Decide, Live
    <3> QED
      BY <2>1, <3>1 DEF Promise!Next
  <2>3. CASE UNCHANGED delivered
    <3>1. Promise!Refuse(p)
      BY <1>4, <2>1, <2>3 DEF Promise!Refuse, Decide, Live
    <3> QED
      BY <2>1, <3>1 DEF Promise!Next
  <2> QED
    BY <1>4, <2>1, <2>2, <2>3 DEF Decide
<1>5. ASSUME NEW q \in Requests, RequestStep(q) PROVE UNCHANGED <<pending, delivered, announced>>
  BY <1>5 DEF RequestStep, ReceiveRequest, ValidateRequest, SaveRequest, PublishRequest,
     MarkInProgress
<1>6. ASSUME NEW w \in Workers,
             WorkerStep(w) \/ Throw(w) \/ Crash(w) \/ LoseSession(w), ~Purchase(w), ~Announce(w)
      PROVE  UNCHANGED <<pending, delivered, announced>>
  BY <1>6 DEF WorkerStep, Throw, Crash, LoseSession, FetchBatch, CommitBatch, Begin,
     ValidateMeter,
     Requery, FlagTransaction, TriggerRequery, ChooseVendor, NoVendorLeft, SwitchVendor, Republish,
     LookUpUnit, SaveUnit, Complete
<1>7. CASE TwoHoursPass \/ UNCHANGED vars
  BY <1>7, <1>1 DEF TwoHoursPass, vars
<1> QED
  BY <1>1, <1>2, <1>3, <1>4, <1>5, <1>6, <1>7 DEF Next

(* TokenVend implements VendPromise: one vend at a time, one delivery in all, *)
(* and a token is told only after a delivery.                                *)
THEOREM PromiseKept ==
  ASSUME SingleWorker
  PROVE  Spec => KeepsPromise
<1>1. Init => Promise!Init
  BY DEF Init, Promise!Init, Live
<1> QED
  BY <1>1, PromiseStep, SingleWorkerInv, PTL DEF Spec, KeepsPromise, Promise!Spec
-----------------------------------------------------------------------------
(* Worker w is at work on messages the group would get again if it died. *)
Busy(w) == worker[w].size > 0 /\ (Running(w) \/ worker[w].left > 0)

(* Something will happen to the transaction even if a worker dies now. *)
InSafeHands == (\E t \in Topics : queue[t] > 0) \/ \E w \in Workers : Busy(w)

(* NoOrphan made inductive: a worker whose session is lost does not count,    *)
(* and a purchase handler that saves its token has announced it before.      *)
HandInv ==
  /\ Published => InSafeHands \/ Resolved \/ dropped
  /\ \A w \in Workers :
       worker[w].pc \in {"lookup", "save", "complete"} /\ worker[w].topic = "purchase"
         => Resolved \/ dropped

(* No purchase is published yet. *)
LEMMA HandInit == Init => HandInv
BY DEF Init, HandInv, Published, IdleWorker

(* Going on inside a handler keeps the batch. *)
LEMMA GotoKeeps ==
  ASSUME worker \in [Workers -> Worker], NEW w \in Workers, NEW pc, Goto(w, pc)
  PROVE  /\ \A u \in Workers : u # w => worker'[u] = worker[u]
         /\ worker'[w].pc = pc /\ worker'[w].topic = worker[w].topic
         /\ worker'[w].size = worker[w].size /\ worker'[w].left = worker[w].left
<1> worker[w] \in Worker
  OBVIOUS
<1> QED
  BY DEF Goto, Worker

(* Every step keeps HandInv, with any number of workers. *)
LEMMA HandStep == TypeInv /\ DeliveryInv /\ HandInv /\ [Next]_vars => HandInv'
<1> SUFFICES ASSUME TypeInv, DeliveryInv, HandInv, [Next]_vars PROVE HandInv'
  OBVIOUS
<1> DEFINE
    Over == Resolved \/ dropped
    Told == \A w \in Workers :
              worker[w].pc \in {"lookup", "save", "complete"} /\ worker[w].topic = "purchase"
                => Over
<1>a. HandInv' <=> (Published' => InSafeHands' \/ Over') /\ Told'
  BY DEF HandInv
<1>b. (Published => InSafeHands \/ Over) /\ Told
  BY DEF HandInv
<1>t. /\ worker \in [Workers -> Worker] /\ queue \in [Topics -> Nat]
      /\ \A w \in Workers : worker[w].topic \in Topics /\ worker[w].size \in Nat /\ worker[w].left \in Nat
  BY DEF TypeInv, TypeOK, Worker
<1>p. ASSUME NEW t \in Topics, Publish(t)
      PROVE  (\E s \in Topics : queue'[s] > 0) \/ dropped'
  BY <1>p, <1>t DEF Publish
<1>q. ASSUME NEW t \in Topics, Publish(t)
      PROVE  dropped => dropped'
  BY <1>q DEF Publish
<1>c. ASSUME UNCHANGED <<worker, queue>>, Over => Over', Published' => Published
      PROVE  HandInv'
  <2>1. InSafeHands' <=> InSafeHands
    BY <1>c DEF InSafeHands, Busy, Running
  <2> QED
    BY <1>a, <1>b, <1>c, <2>1
<1>r. ASSUME NEW w \in Workers, \A u \in Workers : u # w => worker'[u] = worker[u],
             Running(w), Running(w)', worker'[w].size = worker[w].size,
             worker'[w].pc \in {"lookup", "save", "complete"} /\ worker'[w].topic = "purchase" => Over',
             Over => Over', UNCHANGED <<queue, request>>
      PROVE  HandInv'
  <2>1. InSafeHands => InSafeHands'
    <3>1. \A u \in Workers : Busy(u) => Busy(u)'
      BY <1>r DEF Busy, Running
    <3> QED
      BY <1>r, <3>1 DEF InSafeHands
  <2>2. Published' => Published
    BY <1>r DEF Published
  <2>3. Told'
    BY <1>b, <1>r
  <2> QED
    BY <1>a, <1>b, <1>r, <2>1, <2>2, <2>3
<1>s. ASSUME NEW w \in Workers, NextMessage(w), Over => Over',
             Over' \/ \E t \in Topics : queue'[t] > 0
      PROVE  HandInv'
  <2>1. Told'
    BY <1>b, <1>s, <1>t, NextMessageMoves DEF Moves
  <2> QED
    BY <1>a, <1>s, <2>1 DEF InSafeHands
<1>g. ASSUME NEW w \in Workers, NEW pc \in WorkerPCs \ {"idle", "next"}, Goto(w, pc), Running(w),
             pc \in {"lookup", "save", "complete"} /\ worker[w].topic = "purchase" => Over',
             Over => Over', UNCHANGED <<queue, request>>
      PROVE  HandInv'
  BY <1>g, <1>r, <1>t, GotoKeeps DEF Running
<1>i. ASSUME NEW w \in Workers, Moves(w, "idle", None, None, FALSE), UNCHANGED <<announced, flagged, dropped, request>>,
             (\E t \in Topics : queue[t] > 0) \/ Busy(w) => \E t \in Topics : queue'[t] > 0
      PROVE  HandInv'
  <2>1. InSafeHands => InSafeHands'
    <3>1. \A u \in Workers : u # w /\ Busy(u) => Busy(u)'
      BY <1>i DEF Moves, Busy, Running
    <3> QED
      BY <1>i, <3>1 DEF InSafeHands
  <2>2. Told' /\ (Published' => Published)
    BY <1>b, <1>i DEF Moves, Resolved, Published
  <2> QED
    BY <1>a, <1>b, <1>i, <2>1, <2>2 DEF Resolved
<1>1. ASSUME NEW q \in Requests, ReceiveRequest(q) PROVE HandInv'
  <2>1. Published' => Published
    BY <1>1 DEF ReceiveRequest, Published
  <2> QED
    BY <1>1, <2>1, <1>c DEF ReceiveRequest, Resolved
<1>2. ASSUME NEW q \in Requests, ValidateRequest(q) PROVE HandInv'
  <2>1. Published' => Published
    BY <1>2 DEF ValidateRequest, Published
  <2> QED
    BY <1>2, <2>1, <1>c DEF ValidateRequest, Resolved
<1>3. ASSUME NEW q \in Requests, SaveRequest(q) PROVE HandInv'
  <2>1. Published' => Published
    BY <1>3 DEF SaveRequest, Published
  <2> QED
    BY <1>3, <2>1, <1>c DEF SaveRequest, Resolved
<1>4. ASSUME NEW q \in Requests, MarkInProgress(q) PROVE HandInv'
  <2>1. Published' => Published
    BY <1>4 DEF MarkInProgress, Published
  <2> QED
    BY <1>4, <2>1, <1>c DEF MarkInProgress, Resolved
<1>5. ASSUME NEW q \in Requests, PublishRequest(q) PROVE HandInv'
  <2>1. Told'
    BY <1>5, <1>b, <1>q DEF PublishRequest, Topics, Resolved
  <2>2. (\E s \in Topics : queue'[s] > 0) \/ dropped'
    BY <1>5, <1>p DEF PublishRequest, Topics
  <2> QED
    BY <1>a, <2>1, <2>2 DEF InSafeHands
<1>6. ASSUME NEW w \in Workers, FetchBatch(w) PROVE HandInv'
  <2>1. PICK t \in Topics : \E n \in 1..queue[t] :
          worker' = [worker EXCEPT ![w] = [IdleWorker EXCEPT !.pc = "next", !.topic = t,
                                                             !.left = n, !.size = n]]
    BY <1>6 DEF FetchBatch
  <2>2. Busy(w)'
    BY <2>1, <1>t DEF Busy, IdleWorker
  <2>3. Told'
    BY <1>6, <1>b, FetchBatchMoves DEF Moves, FetchBatch, Resolved
  <2> QED
    BY <1>a, <2>2, <2>3 DEF InSafeHands
<1>7. ASSUME NEW w \in Workers, CommitBatch(w) PROVE HandInv'
  <2>1. ~Busy(w)
    BY <1>7 DEF CommitBatch, Busy, Running
  <2> QED
    BY <1>7, <2>1, <1>i, <1>t, IdleMoves DEF CommitBatch
<1>8. ASSUME NEW w \in Workers, Begin(w) PROVE HandInv'
  <2>1. /\ worker'[w].size = worker[w].size /\ worker'[w].pc \in {"vend", "ask"}
        /\ \A u \in Workers : u # w => worker'[u] = worker[u]
    BY <1>8, <1>t DEF Begin, Worker
  <2>2. \A u \in Workers : Busy(u) => Busy(u)'
    BY <2>1 DEF Busy, Running
  <2>3. (InSafeHands => InSafeHands') /\ (Published' => Published)
    BY <1>8, <2>2 DEF Begin, InSafeHands, Published
  <2>4. Told'
    BY <1>8, <1>b, <2>1 DEF Begin, Resolved
  <2> QED
    BY <1>8, <1>a, <1>b, <2>3, <2>4 DEF Begin, Resolved
<1>9. ASSUME NEW w \in Workers, ValidateMeter(w) PROVE HandInv'
  <2>1. CASE worker' = [worker EXCEPT ![w].snap.accessRef = worker[w].snap.vendorRef]
    <3>1. /\ worker'[w].size = worker[w].size /\ worker'[w].pc = "vend"
          /\ \A u \in Workers : u # w => worker'[u] = worker[u]
      BY <1>9, <1>t, <2>1 DEF ValidateMeter, Worker
    <3> QED
      BY <1>9, <3>1, <1>r DEF ValidateMeter, Running, Resolved
  <2>2. CASE Goto(w, "retry")
    BY <1>9, <2>2, <1>g DEF ValidateMeter, WorkerPCs, Running, Resolved
  <2> QED
    BY <1>9, <2>1, <2>2 DEF ValidateMeter
<1>10. ASSUME NEW w \in Workers, Purchase(w) PROVE HandInv'
  BY <1>10, <1>g, PurchaseTells DEF PurchaseTold, WorkerPCs, Running, Resolved
<1>11. ASSUME NEW w \in Workers, Requery(w) PROVE HandInv'
  <2>1. PICK pc \in {"lookup", "retry", "flag", "failed"} : Goto(w, pc)
    BY <1>11, RequeryTells DEF RequeryTold, RequeryOutcome
  <2>2. worker[w].topic # "purchase"
    BY <1>11, RequeryTells DEF RequeryTold, DeliveryInv, OnTopic
  <2> QED
    BY <1>11, <2>1, <2>2, <1>g, RequeryTells DEF RequeryTold, WorkerPCs, Running, Resolved
<1>12. ASSUME NEW w \in Workers, FlagTransaction(w) PROVE HandInv'
  BY <1>12, <1>s DEF FlagTransaction, Resolved
<1>13. ASSUME NEW w \in Workers, TriggerRequery(w) PROVE HandInv'
  BY <1>13, <1>s, <1>p, <1>q DEF TriggerRequery, Topics, Resolved
<1>14. ASSUME NEW w \in Workers, Republish(w) PROVE HandInv'
  BY <1>14, <1>s, <1>p, <1>q DEF Republish, Topics, Resolved
<1>15. ASSUME NEW w \in Workers, ChooseVendor(w) PROVE HandInv'
  <2>1. PICK x : worker' = [worker EXCEPT ![w].pc = "switch", ![w].next = x]
    BY <1>15 DEF ChooseVendor
  <2>2. /\ worker'[w].size = worker[w].size /\ worker'[w].pc = "switch"
        /\ \A u \in Workers : u # w => worker'[u] = worker[u]
    BY <2>1, <1>t DEF Worker
  <2> QED
    BY <1>15, <2>2, <1>r DEF ChooseVendor, Running, Resolved
<1>16. ASSUME NEW w \in Workers, NoVendorLeft(w) PROVE HandInv'
  BY <1>16, <1>s DEF NoVendorLeft
<1>17. ASSUME NEW w \in Workers, SwitchVendor(w) PROVE HandInv'
  BY <1>17, <1>g DEF SwitchVendor, WorkerPCs, Running, Resolved
<1>18. ASSUME NEW w \in Workers, LookUpUnit(w) PROVE HandInv'
  <2>1. /\ worker'[w].size = worker[w].size /\ worker'[w].pc \in {"save", "complete"}
        /\ worker'[w].topic = worker[w].topic
        /\ \A u \in Workers : u # w => worker'[u] = worker[u]
    BY <1>18, <1>t DEF LookUpUnit, Worker
  <2> QED
    BY <1>18, <1>b, <2>1, <1>r DEF LookUpUnit, Running, Resolved
<1>19. ASSUME NEW w \in Workers, SaveUnit(w) PROVE HandInv'
  BY <1>19, <1>b, <1>g DEF SaveUnit, WorkerPCs, Running, Resolved
<1>20. ASSUME NEW w \in Workers, Complete(w) PROVE HandInv'
  <2>1. CASE worker[w].topic = "purchase" /\ NextMessage(w)
    BY <1>20, <1>b, <1>s, <2>1 DEF Complete, Resolved
  <2>2. CASE Goto(w, "announce")
    BY <1>20, <1>g, <2>2 DEF Complete, WorkerPCs, Running, Resolved
  <2> QED
    BY <1>20, <2>1, <2>2 DEF Complete
<1>21. ASSUME NEW w \in Workers, Announce(w) PROVE HandInv'
  <2>1. Over' /\ (Over => Over')
    BY <1>21 DEF Announce, Resolved
  <2>2. CASE NextMessage(w)
    BY <1>s, <2>1, <2>2
  <2>3. CASE Goto(w, "lookup")
    BY <1>21, <1>g, <2>1, <2>3 DEF Announce, WorkerPCs, Running
  <2> QED
    BY <1>21, <2>2, <2>3 DEF Announce
<1>22. ASSUME NEW w \in Workers, Throw(w) PROVE HandInv'
  BY <1>22, <1>s DEF Throw
<1>23. ASSUME NEW w \in Workers, Crash(w) PROVE HandInv'
  <2>1. (\E t \in Topics : queue[t] > 0) \/ Busy(w) => \E t \in Topics : queue'[t] > 0
    BY <1>23, <1>t DEF Crash, Busy
  <2> QED
    BY <1>23, <2>1, <1>i, <1>t, IdleMoves DEF Crash
<1>24. ASSUME NEW w \in Workers, LoseSession(w) PROVE HandInv'
  <2>1. \E t \in Topics : queue'[t] > 0
    BY <1>24, <1>t DEF LoseSession
  <2>2. Told'
    BY <1>24, <1>b, LoseSessionMoves, <1>t DEF LoseSession, Moves, Resolved
  <2> QED
    BY <1>a, <2>1, <2>2 DEF InSafeHands
<1>25. ASSUME NEW p \in pending, Decide(p) PROVE HandInv'
  BY <1>25, <1>c DEF Decide, Resolved, Published
<1>26. ASSUME TwoHoursPass PROVE HandInv'
  BY <1>26, <1>c DEF TwoHoursPass, Resolved, Published
<1>27. ASSUME UNCHANGED vars PROVE HandInv'
  BY <1>27, <1>c DEF vars, Resolved, Published
<1> QED
  BY <1>1, <1>2, <1>3, <1>4, <1>5, <1>6, <1>7, <1>8, <1>9, <1>10, <1>11, <1>12, <1>13, <1>14,
     <1>15, <1>16, <1>17, <1>18, <1>19, <1>20, <1>21, <1>22, <1>23, <1>24, <1>25, <1>26, <1>27
     DEF Next, RequestStep, WorkerStep

(* A published purchase is never forgotten by crashes and lost sessions: a    *)
(* message or a handler is at work on it until it is announced or flagged,   *)
(* unless a handler threw or a message was lost (processEachBatch commits    *)
(* offsets after its handlers; Token.ts republishes before it returns).      *)
THEOREM NeverForgotten == Spec => []NoOrphan
<1>1. TypeInv /\ HandInv => NoOrphan
  BY DEF HandInv, NoOrphan, InSafeHands, InHand, Busy, Running
<1>2. Init => HandInv
  BY HandInit
<1> QED
  BY <1>1, <1>2, HandStep, SafetyInv, PTL DEF Spec
-----------------------------------------------------------------------------
(* The last retry record is within the limit and about the vendor in use. *)
GoodRecord(t) ==
  /\ t.record.count \in 1..RetryLimit
  /\ t.previous.len > 1 => OnRecord(t)

(* Row n leaves the vendor of row t only for the reasons the code gives. *)
GoodSwitch(t, n) ==
  n.superagent # t.superagent =>
    /\ OnRecord(t) => t.record.count = RetryLimit
    /\ n.superagent \in t.previous.seen => Vendors \subseteq t.previous.seen \cup {t.superagent}

(* The row, the row about to be written, and the decision to flag. *)
RetryInv ==
  /\ GoodRecord(txn)
  /\ \A w \in Workers :
       /\ worker[w].pc = "switch" => GoodRecord(worker[w].next) /\ GoodSwitch(txn, worker[w].next)
       /\ worker[w].pc = "flag" => status # "COMPLETE"

(* The first retry record counts one try. *)
LEMMA RetryInit == Init => RetryInv
<1> SUFFICES ASSUME Init PROVE RetryInv
  OBVIOUS
<1>1. 1 \in 1..RetryLimit
  BY LimitsAssumption
<1>2. GoodRecord(txn)
  BY <1>1 DEF Init, NewTransaction, GoodRecord
<1> QED
  BY <1>2 DEF Init, RetryInv, IdleWorker

(* triggerEventToRetryTransactionWithNewVendor computes a row with a good     *)
(* retry record, and a good switch.                                          *)
LEMMA RetryRowGood ==
  ASSUME NEW t \in Transaction, GoodRecord(t), NEW v \in RetryVendors(t), NEW n \in Nat,
         NEW a
  PROVE  LET x == RetryRow(t, v, RetryReference(t, n), a) IN GoodRecord(x) /\ GoodSwitch(t, x)
<1> DEFINE r == RetryReference(t, n)
           x == RetryRow(t, v, r, a)
<1>1. x.superagent = v /\ x.record = NewRecord(t, v, r)
  BY DEF RetryRow
<1>2. RetryLimit \in Nat \ {0} /\ t.record.count \in 1..RetryLimit /\ t.record.count \in Nat
  BY LimitsAssumption DEF GoodRecord, Transaction, RetryRecord
<1>3. NewRecord(t, v, r).count \in 1..RetryLimit /\ NewRecord(t, v, r).vendor = v
  BY <1>2 DEF NewRecord, RetryCount, UsesCurrentVendor
<1>4. GoodRecord(x)
  BY <1>1, <1>3 DEF GoodRecord, OnRecord
<1>5. ASSUME v # t.superagent
      PROVE  /\ OnRecord(t) => t.record.count = RetryLimit
             /\ v \in t.previous.seen => Vendors \subseteq t.previous.seen \cup {t.superagent}
  <2>1. ~UsesCurrentVendor(t) /\ v \in NextVendors(t.superagent, t.previous)
    BY <1>5 DEF RetryVendors
  <2>2. OnRecord(t) => t.record.count = RetryLimit
    BY <1>2, <2>1 DEF UsesCurrentVendor
  <2>3. v \in t.previous.seen => NextUnseen(t.superagent, t.previous) = {}
    BY <2>1 DEF NextVendors, NextUnseen, Best
  <2> QED
    BY <2>2, <2>3 DEF NextUnseen
<1> QED
  BY <1>1, <1>4, <1>5 DEF GoodSwitch

(* What a move must respect to keep RetryInv. *)
LEMMA RetryKept ==
  ASSUME RetryInv, NEW w \in Workers, NEW pc, NEW snap, NEW next, NEW row,
         Moves(w, pc, snap, next, row), UNCHANGED txn,
         status' = "COMPLETE" => status = "COMPLETE",
         pc = "flag" => status # "COMPLETE",
         pc = "switch" => GoodRecord(next) /\ GoodSwitch(txn, next)
  PROVE  RetryInv'
<1>1. GoodRecord(txn)'
  BY DEF RetryInv, GoodRecord, OnRecord
<1>2. ASSUME NEW u \in Workers
      PROVE  /\ worker'[u].pc = "switch" => GoodRecord(worker'[u].next) /\ GoodSwitch(txn', worker'[u].next)
             /\ worker'[u].pc = "flag" => status' # "COMPLETE"
  <2>1. CASE u = w
    BY <2>1 DEF Moves, GoodRecord, GoodSwitch
  <2>2. CASE u # w
    BY <2>2 DEF Moves, RetryInv, GoodRecord, GoodSwitch
  <2> QED
    BY <2>1, <2>2
<1> QED
  BY <1>1, <1>2 DEF RetryInv
(* Every step of a single worker keeps RetryInv; saving the count before the *)
(* wait does not disturb the row that is written after it.                   *)
LEMMA RetryStep ==
  ASSUME SingleWorker
  PROVE  TypeInv /\ DeliveryInv /\ VendInv /\ RetryInv /\ [Next]_vars => RetryInv'
<1> SUFFICES ASSUME TypeInv, DeliveryInv, VendInv, RetryInv, [Next]_vars PROVE RetryInv'
  OBVIOUS
<1>t. worker \in [Workers -> Worker] /\ txn \in Transaction /\ nextRef \in Nat
  BY DEF TypeInv, TypeOK
<1>b. /\ GoodRecord(txn)
      /\ \A w \in Workers :
           /\ worker[w].pc = "switch" => GoodRecord(worker[w].next) /\ GoodSwitch(txn, worker[w].next)
           /\ worker[w].pc = "flag" => status # "COMPLETE"
           /\ worker[w].pc \in {"vend", "ask", "failed"} => worker[w].snap = txn
  BY DEF RetryInv, VendInv, OneVendInHand
<1>c. ASSUME UNCHANGED <<txn, worker>>, status' = "COMPLETE" => status = "COMPLETE" PROVE RetryInv'
  BY <1>b, <1>c DEF RetryInv, GoodRecord, GoodSwitch, OnRecord
<1>e. ASSUME NEW w \in Workers, NextMessage(w), UNCHANGED txn, status' = "COMPLETE" => status = "COMPLETE"
      PROVE  RetryInv'
  BY <1>e, <1>t, NextMessageMoves, RetryKept
<1>f. ASSUME NEW w \in Workers, NEW pc \in WorkerPCs \ {"flag", "switch"}, Goto(w, pc),
             UNCHANGED <<txn, status>>
      PROVE  RetryInv'
  BY <1>f, <1>t, GotoMoves, RetryKept
<1>1. ASSUME NEW q \in Requests, ReceiveRequest(q) PROVE RetryInv'
  BY <1>1, <1>c DEF ReceiveRequest
<1>2. ASSUME NEW q \in Requests, ValidateRequest(q) PROVE RetryInv'
  BY <1>2, <1>c DEF ValidateRequest
<1>3. ASSUME NEW q \in Requests, SaveRequest(q) PROVE RetryInv'
  BY <1>3, <1>c DEF SaveRequest
<1>4. ASSUME NEW q \in Requests, PublishRequest(q) PROVE RetryInv'
  BY <1>4, <1>c DEF PublishRequest
<1>5. ASSUME NEW q \in Requests, MarkInProgress(q) PROVE RetryInv'
  BY <1>5, <1>c DEF MarkInProgress
<1>6. ASSUME NEW w \in Workers, FetchBatch(w) PROVE RetryInv'
  BY <1>6, FetchBatchMoves, RetryKept DEF FetchBatch
<1>7. ASSUME NEW w \in Workers, CommitBatch(w) PROVE RetryInv'
  BY <1>7, <1>t, IdleMoves, RetryKept DEF CommitBatch
<1>8. ASSUME NEW w \in Workers, Begin(w) PROVE RetryInv'
  <2> DEFINE pc == IF worker[w].topic = "purchase" THEN "vend" ELSE "ask"
  <2>1. Moves(w, pc, txn, worker[w].next, worker[w].row) /\ UNCHANGED <<txn, status>>
    BY <1>8, BeginMoves DEF Begin
  <2>2. pc \notin {"flag", "switch"}
    OBVIOUS
  <2> HIDE DEF pc
  <2> QED
    BY <2>1, <2>2, RetryKept
<1>9. ASSUME NEW w \in Workers, ValidateMeter(w) PROVE RetryInv'
  <2>1. UNCHANGED status
    BY <1>9 DEF ValidateMeter
  <2>2. ASSUME UNCHANGED txn, Moves(w, "retry", worker[w].snap, worker[w].next, worker[w].row)
        PROVE  RetryInv'
    BY <2>1, <2>2, RetryKept
  <2>3. ASSUME NEW x, txn' = [txn EXCEPT !.accessRef = x], NEW snap,
               Moves(w, "vend", snap, worker[w].next, worker[w].row)
        PROVE  RetryInv'
    <3>1. GoodRecord(txn)'
      BY <1>b, <1>t, <2>3 DEF GoodRecord, OnRecord, Transaction
    <3>2. \A u \in Workers : worker'[u].pc = "vend"
      BY <2>3 DEF SingleWorker, Moves
    <3> QED
      BY <3>1, <3>2 DEF RetryInv
  <2> QED
    BY <1>9, <2>2, <2>3, ValidateMeterMoves
<1>10. ASSUME NEW w \in Workers, Purchase(w) PROVE RetryInv'
  BY <1>10, <1>f, PurchaseTells DEF PurchaseTold, WorkerPCs
<1>11. ASSUME NEW w \in Workers, Requery(w) PROVE RetryInv'
  <2> DEFINE p == RequeryVend(txn)
  <2>1. worker[w].snap = txn /\ UNCHANGED <<txn, status>>
    BY <1>11, <1>b, RequeryTells DEF RequeryTold
  <2>2. CASE \E pc \in {"lookup", "retry", "failed"} : Goto(w, pc)
    BY <2>1, <2>2, <1>f DEF WorkerPCs
  <2>3. CASE p \in pending /\ Goto(w, "flag")
    <3>1. delivered = {}
      BY <2>3 DEF VendInv, OneVendInHand, Live
    <3>2. status # "COMPLETE"
      BY <3>1 DEF DeliveryInv, CompleteIsDelivered
    <3> QED
      BY <1>t, <2>1, <2>3, <3>2, GotoMoves, RetryKept DEF WorkerPCs
  <2> QED
    BY <1>11, <2>1, <2>2, <2>3, RequeryTells DEF RequeryTold, RequeryOutcome
<1>12. ASSUME NEW w \in Workers, FlagTransaction(w) PROVE RetryInv'
  BY <1>12, <1>e DEF FlagTransaction
<1>13. ASSUME NEW w \in Workers, TriggerRequery(w) PROVE RetryInv'
  BY <1>13, <1>e DEF TriggerRequery
<1>14. ASSUME NEW w \in Workers, NoVendorLeft(w) PROVE RetryInv'
  BY <1>14, <1>e DEF NoVendorLeft
<1>15. ASSUME NEW w \in Workers, Republish(w) PROVE RetryInv'
  BY <1>15, <1>e DEF Republish
<1>16. ASSUME NEW w \in Workers, Throw(w) PROVE RetryInv'
  BY <1>16, <1>e DEF Throw
<1>17. ASSUME NEW w \in Workers, ChooseVendor(w) PROVE RetryInv'
  <2>1. worker[w].snap = txn /\ UNCHANGED status
    BY <1>17, <1>b DEF ChooseVendor
  <2>2. PICK v \in RetryVendors(txn), a \in {txn.accessRef, RetryReference(txn, nextRef)} :
          Moves(w, "switch", txn, RetryRow(txn, v, RetryReference(txn, nextRef), a),
                worker[w].row)
    BY <1>17, <2>1, ChooseVendorMoves
  <2> DEFINE x == RetryRow(txn, v, RetryReference(txn, nextRef), a)
  <2>3. GoodRecord(x) /\ GoodSwitch(txn, x) /\ x.superagent = v
    BY <1>b, <1>t, RetryRowGood DEF RetryRow
  <2>4. \A u \in Workers : worker'[u].pc = "switch" /\ worker'[u].next = x
    BY <2>2 DEF SingleWorker, Moves
  <2> HIDE DEF x
  <2>5. CASE UsesCurrentVendor(txn)
    <3> DEFINE c == txn.record.count + 1
               r == [txn.record EXCEPT !.count = c]
    <3>1. txn' = [txn EXCEPT !.record = r]
      BY <1>17, <2>1, <2>5 DEF ChooseVendor
    <3>2. r.vendor = txn.record.vendor /\ r.count = c /\ c \in 1..RetryLimit
      BY <1>b, <1>t, <2>5, LimitsAssumption DEF UsesCurrentVendor, GoodRecord, Transaction,
         RetryRecord
    <3> HIDE DEF r, c
    <3>3. /\ txn'.superagent = txn.superagent /\ txn'.previous = txn.previous
          /\ txn'.record = r
      BY <1>t, <3>1 DEF Transaction
    <3>4. GoodRecord(txn)'
      BY <1>b, <3>2, <3>3 DEF GoodRecord, OnRecord
    <3>5. x.superagent = txn'.superagent
      BY <2>2, <2>3, <2>5, <3>3 DEF RetryVendors
    <3> QED
      BY <2>3, <2>4, <3>4, <3>5 DEF RetryInv, GoodSwitch, GoodRecord
  <2>6. CASE ~UsesCurrentVendor(txn)
    <3>1. UNCHANGED txn
      BY <1>17, <2>1, <2>6 DEF ChooseVendor
    <3> QED
      BY <1>b, <2>3, <2>4, <3>1 DEF RetryInv, GoodRecord, GoodSwitch, OnRecord
  <2> QED
    BY <2>5, <2>6
<1>18. ASSUME NEW w \in Workers, SwitchVendor(w) PROVE RetryInv'
  <2>1. GoodRecord(worker[w].next) /\ txn' = worker[w].next
    BY <1>18, <1>b DEF SwitchVendor
  <2>2. \A u \in Workers : worker'[u].pc = "republish"
    BY <1>18, <1>t, GotoMoves DEF SwitchVendor, WorkerPCs, SingleWorker, Moves
  <2> QED
    BY <2>1, <2>2 DEF RetryInv, GoodRecord, OnRecord
<1>19. ASSUME NEW w \in Workers, LookUpUnit(w) PROVE RetryInv'
  <2> DEFINE pc == IF Prepaid THEN "save" ELSE "complete"
             found == rows > 0
  <2>1. Moves(w, pc, worker[w].snap, worker[w].next, found)
        /\ UNCHANGED <<txn, status>> /\ pc \in {"save", "complete"}
    BY <1>19, LookUpUnitMoves DEF LookUpUnit
  <2> HIDE DEF pc, found
  <2> QED
    BY <2>1, RetryKept
<1>20. ASSUME NEW w \in Workers, SaveUnit(w) PROVE RetryInv'
  BY <1>20, <1>f DEF SaveUnit, WorkerPCs
<1>21. ASSUME NEW w \in Workers, Complete(w) PROVE RetryInv'
  <2>1. \A u \in Workers : worker'[u].pc \in {"next", "announce"}
    BY <1>21, <1>t, GotoMoves, NextMessageMoves DEF Complete, WorkerPCs, SingleWorker, Moves
  <2> QED
    BY <1>21, <1>b, <2>1 DEF Complete, RetryInv, GoodRecord, OnRecord
<1>22. ASSUME NEW w \in Workers, Announce(w) PROVE RetryInv'
  BY <1>22, <1>e, <1>f DEF Announce, WorkerPCs
<1>23. ASSUME NEW w \in Workers, Crash(w) PROVE RetryInv'
  BY <1>23, <1>t, IdleMoves, RetryKept DEF Crash
<1>24. ASSUME NEW w \in Workers, LoseSession(w) PROVE RetryInv'
  BY <1>24, <1>b, LoseSessionMoves, RetryKept DEF LoseSession
<1>25. ASSUME NEW p \in pending, Decide(p) PROVE RetryInv'
  BY <1>25, <1>c DEF Decide
<1>26. ASSUME TwoHoursPass PROVE RetryInv'
  BY <1>26, <1>c DEF TwoHoursPass
<1>27. ASSUME UNCHANGED vars PROVE RetryInv'
  BY <1>27, <1>c DEF vars
<1> QED
  BY <1>1, <1>2, <1>3, <1>4, <1>5, <1>6, <1>7, <1>8, <1>9, <1>10, <1>11, <1>12, <1>13, <1>14,
     <1>15, <1>16, <1>17, <1>18, <1>19, <1>20, <1>21, <1>22, <1>23, <1>24, <1>25, <1>26, <1>27
     DEF Next, RequestStep, WorkerStep

(* RetryInv holds in every reachable state of a single worker. *)
LEMMA RetryInvariant ==
  ASSUME SingleWorker
  PROVE  Spec => []RetryInv
BY RetryInit, RetryStep, SingleWorkerInv, PTL DEF Spec

(* After a repurchase the last retry record is about the vendor in use, and   *)
(* it never counts past the limit (Token.ts, retryRecord and previousVendors). *)
THEOREM RetryRecords ==
  ASSUME SingleWorker
  PROVE  Spec => []RetryRecordFollows
<1>1. RetryInv => RetryRecordFollows
  BY DEF RetryInv, GoodRecord, RetryRecordFollows
<1> QED
  BY RetryInvariant, <1>1, PTL

(* Only SwitchVendor changes the vendor or the vend a row names. *)
LEMMA TxnStep ==
  TypeInv /\ [Next]_vars =>
    \/ txn'.superagent = txn.superagent /\ PurchaseVend(txn)' = PurchaseVend(txn)
    \/ \E w \in Workers : SwitchVendor(w)
<1> SUFFICES ASSUME TypeInv, [Next]_vars
             PROVE  \/ txn'.superagent = txn.superagent /\ PurchaseVend(txn)' = PurchaseVend(txn)
                    \/ \E w \in Workers : SwitchVendor(w)
  OBVIOUS
<1>t. txn \in Transaction
  BY DEF TypeInv, TypeOK
<1>1. ASSUME UNCHANGED txn
      PROVE  txn'.superagent = txn.superagent /\ PurchaseVend(txn)' = PurchaseVend(txn)
  BY <1>1 DEF PurchaseVend
<1>2. ASSUME NEW r, txn' = [txn EXCEPT !.record = r] \/ txn' = [txn EXCEPT !.accessRef = r]
      PROVE  txn'.superagent = txn.superagent /\ PurchaseVend(txn)' = PurchaseVend(txn)
  BY <1>t, <1>2 DEF PurchaseVend, Transaction
<1>3. ASSUME NEW w \in Workers, WorkerStep(w) \/ Throw(w) \/ Crash(w) \/ LoseSession(w),
             ~SwitchVendor(w), ~ValidateMeter(w), ~ChooseVendor(w)
      PROVE  UNCHANGED txn
  BY <1>3 DEF WorkerStep, Throw, Crash, LoseSession, FetchBatch, CommitBatch, Begin, Purchase,
     Requery, FlagTransaction, TriggerRequery, NoVendorLeft, Republish, LookUpUnit, SaveUnit,
     Complete, Announce
<1>4. ASSUME NEW w \in Workers, ValidateMeter(w) \/ ChooseVendor(w)
      PROVE  txn' = txn \/ \E r : txn' = [txn EXCEPT !.record = r] \/ txn' = [txn EXCEPT !.accessRef = r]
  BY <1>4 DEF ValidateMeter, ChooseVendor
<1>5. ASSUME NEW q \in Requests, RequestStep(q) PROVE UNCHANGED txn
  BY <1>5 DEF RequestStep, ReceiveRequest, ValidateRequest, SaveRequest, PublishRequest,
     MarkInProgress
<1>6. ASSUME (\E p \in pending : Decide(p)) \/ TwoHoursPass \/ UNCHANGED vars PROVE UNCHANGED txn
  BY <1>6 DEF Decide, TwoHoursPass, vars
<1> QED
  BY <1>1, <1>2, <1>3, <1>4, <1>5, <1>6 DEF Next

(* The transaction leaves a vend only when vendors neither hold nor delivered *)
(* it (requeryTransactionForToken, transactionFailed).                       *)
THEOREM SwitchesAfterFailure ==
  ASSUME SingleWorker
  PROVE  Spec => SwitchAfterFailure
<1>1. TypeInv /\ VendInv /\ [Next]_vars
        => (PurchaseVend(txn)' # PurchaseVend(txn) => PurchaseVend(txn) \notin Live)
  <2>1. ASSUME VendInv, NEW w \in Workers, SwitchVendor(w) PROVE Live = {}
    BY <2>1 DEF VendInv, OneVendInHand, SwitchVendor
  <2> QED
    BY <2>1, TxnStep
<1> QED
  BY <1>1, SingleWorkerInv, PTL DEF Spec, SwitchAfterFailure

(* A vendor is left only after all its retries, and a used vendor is taken    *)
(* again only when every vendor was used (getNextBestVendorForVendRePurchase). *)
THEOREM SwitchesInOrder ==
  ASSUME SingleWorker
  PROVE  Spec => AllTriedBeforeRepeat /\ SwitchWhenExhausted
<1>1. ASSUME RetryInv, NEW w \in Workers, SwitchVendor(w) PROVE GoodSwitch(txn, txn')
  BY <1>1 DEF RetryInv, SwitchVendor
<1>2. TypeInv /\ RetryInv /\ [Next]_vars => GoodSwitch(txn, txn')
  BY <1>1, TxnStep DEF GoodSwitch
<1>3. TypeInv /\ RetryInv /\ [Next]_vars =>
        (txn'.superagent # txn.superagent /\ txn'.superagent \in txn.previous.seen
           => Vendors \subseteq txn.previous.seen \cup {txn.superagent})
  BY <1>2 DEF GoodSwitch
<1>4. TypeInv /\ RetryInv /\ [Next]_vars =>
        (txn'.superagent # txn.superagent /\ OnRecord(txn) => txn.record.count = RetryLimit)
  BY <1>2 DEF GoodSwitch
<1> QED
  BY <1>3, <1>4, SingleWorkerInv, RetryInvariant, PTL DEF Spec, AllTriedBeforeRepeat,
     SwitchWhenExhausted

-----------------------------------------------------------------------------
(* LogAgrees, for any number of workers: the handler that will write the row  *)
(* has logged the vendor it is about to write.                               *)
LogInv ==
  /\ LogAgrees
  /\ \A w \in Workers :
       worker[w].pc = "switch" => PowerPurchaseNewVendor(worker[w].next.superagent) \in log

(* Events that do not speak of a token. *)
Silent(events) == \A v \in Vendors : TokenReceived(v) \notin events

LEMMA LogInit == Init => LogInv
<1> SUFFICES ASSUME Init PROVE LogInv
  OBVIOUS
<1>1. txn.previous.len = 1 /\ log = {}
  BY DEF Init, NewTransaction
<1> QED
  BY <1>1 DEF Init, LogInv, LogAgrees, IdleWorker

(* The other events of the handlers and of requestToken. *)
LEMMA OtherEvents ==
  /\ Silent({}) /\ Silent({PowerPurchaseInitiated}) /\ Silent({VendElectricityRequested})
  /\ \A v : Silent({TokenFromVendorInitiated(v)}) /\ Silent({PowerPurchaseNewVendor(v)})
<1>1. \A u, v : /\ TokenReceived(u) # PowerPurchaseInitiated
                /\ TokenReceived(u) # VendElectricityRequested
                /\ TokenReceived(u) # TokenFromVendorInitiated(v)
  BY DEF TokenReceived, PowerPurchaseInitiated, VendElectricityRequested,
     TokenFromVendorInitiated, Event
<1>2. \A u, v : TokenReceived(u) # PowerPurchaseNewVendor(v)
  BY DEF TokenReceived, PowerPurchaseNewVendor, Event, SwitchEvent
<1> QED
  BY <1>1, <1>2 DEF Silent

(* A requery to come is not a token. *)
LEMMA RetryEventsSilent ==
  ASSUME NEW t
  PROVE  Silent(RetryEvents(t)) /\ \A timeout \in SUBSET {TokenRequestTimedOut(t.superagent)} : Silent(RetryEvents(t) \cup timeout)
<1>1. \A u, v : /\ TokenReceived(u) # TokenRequestFailed(v)
                /\ TokenReceived(u) # TokenRequestedRetry(v)
                /\ TokenReceived(u) # TokenRequestTimedOut(v)
  BY DEF TokenReceived, TokenRequestFailed, TokenRequestedRetry, TokenRequestTimedOut, Event
<1> QED
  BY <1>1 DEF Silent, RetryEvents

(* Events are added, and none of a token. *)
Quiet ==
  /\ log \subseteq log'
  /\ \A v \in Vendors : TokenReceived(v) \in log' => TokenReceived(v) \in log

LEMMA SilentQuiet ==
  ASSUME NEW events, Silent(events), AddEvents(events)
  PROVE  Quiet
BY DEF Silent, AddEvents, Quiet

(* Only Announce logs a token. *)
LEMMA LogStep ==
  ASSUME NEW w \in Workers, WorkerStep(w) \/ Throw(w) \/ Crash(w) \/ LoseSession(w), ~Announce(w)
  PROVE  Quiet
<1> DEFINE t == worker[w].snap
<1>0. ASSUME UNCHANGED log PROVE Quiet
  BY <1>0 DEF Quiet
<1>r. ASSUME NEW timeout \in SUBSET {TokenRequestTimedOut(t.superagent)}, AddEvents(RetryEvents(t) \cup timeout) PROVE Quiet
  BY <1>r, RetryEventsSilent, SilentQuiet
<1>s. ASSUME AddEvents(RetryEvents(t)) PROVE Quiet
  BY <1>s, RetryEventsSilent, SilentQuiet
<1>1. CASE Begin(w)
  <2>1. AddEvents({VendElectricityRequested}) \/ AddEvents({TokenFromVendorInitiated(txn.superagent)})
    BY <1>1 DEF Begin
  <2> QED
    BY <2>1, OtherEvents, SilentQuiet
<1>2. CASE ValidateMeter(w)
  BY <1>2, <1>0, <1>s DEF ValidateMeter
<1>3. CASE Purchase(w)
  BY <1>3, <1>0, <1>r, PurchaseTells DEF PurchaseTold
<1>4. CASE Requery(w)
  <2>1. AddEvents(RetryEvents(t)) \/ AddEvents({})
    BY <1>4, RequeryTells DEF RequeryTold
  <2> QED
    BY <2>1, <1>s, OtherEvents, SilentQuiet
<1>5. CASE ChooseVendor(w)
  <2>1. PICK v \in RetryVendors(t) : AddEvents({PowerPurchaseNewVendor(v)})
    BY <1>5 DEF ChooseVendor
  <2> QED
    BY <2>1, OtherEvents, SilentQuiet
<1>6. CASE Republish(w)
  <2>1. AddEvents({PowerPurchaseInitiated})
    BY <1>6 DEF Republish
  <2> QED
    BY <2>1, OtherEvents, SilentQuiet
<1>7. CASE FetchBatch(w) \/ CommitBatch(w) \/ Throw(w) \/ Crash(w) \/ LoseSession(w)
  <2>1. UNCHANGED store
    BY <1>7 DEF FetchBatch, CommitBatch, Throw, Crash, LoseSession
  <2> QED
    BY <2>1, <1>0
<1>8. CASE \/ FlagTransaction(w) \/ TriggerRequery(w) \/ NoVendorLeft(w) \/ SwitchVendor(w)
          \/ LookUpUnit(w) \/ SaveUnit(w) \/ Complete(w)
  BY <1>8, <1>0 DEF FlagTransaction, TriggerRequery, NoVendorLeft, SwitchVendor, LookUpUnit,
     SaveUnit, Complete
<1> QED
  BY <1>1, <1>2, <1>3, <1>4, <1>5, <1>6, <1>7, <1>8 DEF WorkerStep

(* Vendors never take a delivery back. *)
LEMMA DeliveredStays == TypeInv /\ [Next]_vars => delivered \subseteq delivered'
<1> SUFFICES ASSUME TypeInv, [Next]_vars PROVE delivered \subseteq delivered'
  OBVIOUS
<1>1. ASSUME NEW q \in Requests, RequestStep(q) PROVE UNCHANGED delivered
  BY <1>1 DEF RequestStep, ReceiveRequest, ValidateRequest, SaveRequest, PublishRequest,
     MarkInProgress
<1>2. ASSUME NEW w \in Workers, WorkerStep(w) \/ Throw(w) \/ Crash(w) \/ LoseSession(w), ~Purchase(w)
      PROVE  UNCHANGED delivered
  <2>1. UNCHANGED vendors
    BY <1>2 DEF WorkerStep, Throw, Crash, LoseSession, FetchBatch, CommitBatch, Begin,
       ValidateMeter, Requery, FlagTransaction, TriggerRequery, ChooseVendor, NoVendorLeft,
       SwitchVendor, Republish, LookUpUnit, SaveUnit, Complete, Announce
  <2> QED
    BY <2>1
<1>3. ASSUME NEW w \in Workers, Purchase(w) PROVE delivered \subseteq delivered'
  BY <1>3, PurchaseTells DEF PurchaseTold, Accept, Ignore
<1>4. ASSUME (\E p \in pending : Decide(p)) \/ TwoHoursPass \/ UNCHANGED vars
      PROVE  delivered \subseteq delivered'
  BY <1>4 DEF Decide, TwoHoursPass, vars
<1> QED
  BY <1>1, <1>2, <1>3, <1>4 DEF Next

(* What a move must respect to keep LogInv. *)
LEMMA LogKept ==
  ASSUME LogInv, NEW w \in Workers, Quiet, delivered \subseteq delivered',
         txn'.superagent = txn.superagent, txn'.previous = txn.previous,
         NEW pc, NEW snap, NEW next, NEW row, Moves(w, pc, snap, next, row),
         pc = "switch" => PowerPurchaseNewVendor(next.superagent) \in log'
  PROVE  LogInv'
<1>1. LogAgrees'
  <2>1. txn'.previous.len > 1 => PowerPurchaseNewVendor(txn'.superagent) \in log'
    BY DEF LogInv, LogAgrees, Quiet
  <2>2. ASSUME NEW v \in Vendors, TokenReceived(v) \in log'
        PROVE  \E p \in delivered' : p[1] = v
    BY <2>2 DEF LogInv, LogAgrees, Quiet
  <2>3. \A v : TokenReceived(v)' = TokenReceived(v) /\ PowerPurchaseNewVendor(v)' = PowerPurchaseNewVendor(v)
    BY DEF TokenReceived, PowerPurchaseNewVendor, Event, SwitchEvent
  <2> QED
    BY <2>1, <2>2, <2>3 DEF LogAgrees
<1>2. ASSUME NEW u \in Workers, worker'[u].pc = "switch"
      PROVE  PowerPurchaseNewVendor(worker'[u].next.superagent) \in log'
  BY <1>2 DEF Moves, LogInv, Quiet
<1> QED
  BY <1>1, <1>2 DEF LogInv


(* Nothing changes that LogInv looks at. *)
LEMMA LogUnread ==
  ASSUME LogInv, Quiet, delivered \subseteq delivered', UNCHANGED <<worker, txn>>
  PROVE  LogInv'
<1>1. LogAgrees'
  <2>1. ASSUME NEW v \in Vendors, TokenReceived(v) \in log'
        PROVE  \E p \in delivered' : p[1] = v
    BY <2>1 DEF LogInv, LogAgrees, Quiet
  <2> QED
    BY <2>1 DEF LogAgrees, LogInv, Quiet
<1> QED
  BY <1>1 DEF LogInv, Quiet

(* Every step keeps LogInv: the event of a switch precedes the row, and who   *)
(* announces a token has it.                                                 *)
LEMMA LogInvStep == TypeInv /\ DeliveryInv /\ LogInv /\ [Next]_vars => LogInv'
<1> SUFFICES ASSUME TypeInv, DeliveryInv, LogInv, [Next]_vars PROVE LogInv'
  OBVIOUS
<1>t. worker \in [Workers -> Worker] /\ txn \in Transaction
  BY DEF TypeInv, TypeOK
<1>d. delivered \subseteq delivered'
  BY DeliveredStays
<1>u. ASSUME UNCHANGED log PROVE Quiet
  BY <1>u DEF Quiet
<1>e. ASSUME NEW w \in Workers, NextMessage(w), UNCHANGED txn, Quiet PROVE LogInv'
  BY <1>e, <1>t, <1>d, NextMessageMoves, LogKept
<1>f. ASSUME NEW w \in Workers, NEW pc \in WorkerPCs, Goto(w, pc), pc # "switch", UNCHANGED txn, Quiet
      PROVE  LogInv'
  BY <1>f, <1>t, <1>d, GotoMoves, LogKept
<1>q. ASSUME NEW w \in Workers, WorkerStep(w) \/ Throw(w) \/ Crash(w) \/ LoseSession(w), ~Announce(w)
      PROVE  Quiet
  BY <1>q, LogStep
<1>1. ASSUME NEW q \in Requests, RequestStep(q) PROVE LogInv'
  <2>1. UNCHANGED <<worker, txn>>
    BY <1>1 DEF RequestStep, ReceiveRequest, ValidateRequest, SaveRequest, PublishRequest,
       MarkInProgress
  <2>2. UNCHANGED log \/ AddEvents({PowerPurchaseInitiated})
    BY <1>1 DEF RequestStep, ReceiveRequest, ValidateRequest, SaveRequest, PublishRequest,
       MarkInProgress
  <2>3. Quiet
    BY <2>2, <1>u, OtherEvents, SilentQuiet
  <2> QED
    BY <2>1, <2>3, <1>d, LogUnread
<1>2. ASSUME NEW w \in Workers, FetchBatch(w) PROVE LogInv'
  <2>1. UNCHANGED store
    BY <1>2 DEF FetchBatch
  <2>2. UNCHANGED txn /\ Quiet
    BY <2>1, <1>u
  <2> QED
    BY <1>2, <2>2, <1>d, FetchBatchMoves, LogKept
<1>3. ASSUME NEW w \in Workers, CommitBatch(w) \/ Crash(w) PROVE LogInv'
  <2>1. UNCHANGED txn /\ Quiet /\ worker' = [worker EXCEPT ![w] = IdleWorker]
    BY <1>3, <1>u DEF CommitBatch, Crash
  <2> QED
    BY <2>1, <1>t, <1>d, IdleMoves, LogKept
<1>4. ASSUME NEW w \in Workers, Begin(w) PROVE LogInv'
  <2> DEFINE pc == IF worker[w].topic = "purchase" THEN "vend" ELSE "ask"
  <2>1. Moves(w, pc, txn, worker[w].next, worker[w].row) /\ UNCHANGED txn
    BY <1>4, BeginMoves DEF Begin
  <2>2. pc # "switch" /\ Quiet
    BY <1>4, <1>q DEF WorkerStep, Begin, Announce
  <2> HIDE DEF pc
  <2> QED
    BY <2>1, <2>2, <1>d, LogKept
<1>5. ASSUME NEW w \in Workers, ValidateMeter(w) PROVE LogInv'
  <2>1. Quiet
    BY <1>5, <1>q DEF WorkerStep, ValidateMeter, Announce
  <2>2. txn'.superagent = txn.superagent /\ txn'.previous = txn.previous
    BY <1>5, <1>t DEF ValidateMeter, Transaction
  <2>3. ASSUME NEW snap, Moves(w, "vend", snap, worker[w].next, worker[w].row) PROVE LogInv'
    BY <2>1, <2>2, <2>3, <1>d, LogKept
  <2>4. ASSUME NEW snap, Moves(w, "retry", snap, worker[w].next, worker[w].row) PROVE LogInv'
    BY <2>1, <2>2, <2>4, <1>d, LogKept
  <2> QED
    BY <1>5, <2>3, <2>4, ValidateMeterMoves
<1>6. ASSUME NEW w \in Workers, Purchase(w) \/ Requery(w) PROVE LogInv'
  <2>1. Quiet /\ UNCHANGED txn
    BY <1>6, <1>q, PurchaseTells, RequeryTells DEF WorkerStep, PurchaseTold, RequeryTold, Announce
  <2> QED
    BY <1>6, <2>1, <1>f, PurchaseTells, RequeryTells DEF PurchaseTold, RequeryTold, RequeryOutcome, WorkerPCs
<1>7. ASSUME NEW w \in Workers,
             FlagTransaction(w) \/ TriggerRequery(w) \/ NoVendorLeft(w) \/ Throw(w)
      PROVE  LogInv'
  BY <1>7, <1>e, <1>u DEF FlagTransaction, TriggerRequery, NoVendorLeft, Throw
<1>8. ASSUME NEW w \in Workers, Republish(w) PROVE LogInv'
  <2>1. Quiet
    BY <1>8, <1>q DEF WorkerStep, Republish, Announce
  <2> QED
    BY <1>8, <2>1, <1>e DEF Republish
<1>9. ASSUME NEW w \in Workers, ChooseVendor(w) PROVE LogInv'
  <2> DEFINE t == worker[w].snap
             r == RetryReference(t, nextRef)
  <2>1. PICK v \in RetryVendors(t), a \in {t.accessRef, r} :
          /\ worker' = [worker EXCEPT ![w].pc = "switch", ![w].next = RetryRow(t, v, r, a)]
          /\ AddEvents({PowerPurchaseNewVendor(v)})
    BY <1>9 DEF ChooseVendor
  <2> DEFINE n == RetryRow(t, v, r, a)
  <2>2. Quiet /\ PowerPurchaseNewVendor(n.superagent) \in log'
    BY <2>1, <1>9, <1>q DEF AddEvents, RetryRow, WorkerStep, ChooseVendor, Announce
  <2>3. txn'.superagent = txn.superagent /\ txn'.previous = txn.previous
    BY <1>9, <1>t DEF ChooseVendor, Transaction
  <2>4. t \in Transaction /\ n \in Transaction
    BY <1>9, RetryRowType DEF TypeInv, TypeOK, ChooseVendor, Running
  <2> HIDE DEF n
  <2>5. Moves(w, "switch", t, n, worker[w].row)
    <3> DEFINE x == [worker[w] EXCEPT !.pc = "switch", !.next = n]
    <3>1. x \in Worker /\ x.pc = "switch" /\ x.topic = worker[w].topic
          /\ x.snap = t /\ x.next = n /\ x.row = worker[w].row
      BY <1>t, <2>4 DEF Worker, WorkerPCs
    <3>2. worker' = [worker EXCEPT ![w] = x]
      BY <2>1 DEF n
    <3> QED
      BY ONLY <1>t, <3>1, <3>2, WorkerReplaced, w \in Workers
  <2> QED
    BY <2>2, <2>3, <2>5, <1>d, LogKept
<1>10. ASSUME NEW w \in Workers, SwitchVendor(w) PROVE LogInv'
  <2>1. Moves(w, "republish", worker[w].snap, worker[w].next, worker[w].row)
    BY <1>10, <1>t, GotoMoves DEF SwitchVendor, WorkerPCs
  <2>2. txn' = worker[w].next /\ log' = log /\ PowerPurchaseNewVendor(txn'.superagent) \in log
    BY <1>10 DEF SwitchVendor, LogInv
  <2>3. \A v \in Vendors : TokenReceived(v) \in log => \E p \in delivered' : p[1] = v
    BY <1>d DEF LogInv, LogAgrees
  <2>4. ASSUME NEW u \in Workers, worker'[u].pc = "switch"
        PROVE  PowerPurchaseNewVendor(worker'[u].next.superagent) \in log
    BY <2>1, <2>4 DEF Moves, LogInv
  <2> QED
    BY <2>2, <2>3, <2>4 DEF LogInv, LogAgrees
<1>11. ASSUME NEW w \in Workers, LookUpUnit(w) PROVE LogInv'
  <2> DEFINE pc == IF Prepaid THEN "save" ELSE "complete"
             found == rows > 0
  <2>1. Moves(w, pc, worker[w].snap, worker[w].next, found) /\ UNCHANGED txn /\ Quiet
    BY <1>11, <1>u, LookUpUnitMoves DEF LookUpUnit
  <2>2. pc # "switch"
    OBVIOUS
  <2> HIDE DEF pc, found
  <2> QED
    BY <2>1, <2>2, <1>d, LogKept
<1>12. ASSUME NEW w \in Workers, SaveUnit(w) \/ Complete(w) PROVE LogInv'
  BY <1>12, <1>e, <1>f, <1>u DEF SaveUnit, Complete, WorkerPCs
<1>13. ASSUME NEW w \in Workers, Announce(w) PROVE LogInv'
  <2> DEFINE vendor == worker[w].snap.superagent
  <2>1. HandledVend(w) \in delivered
    BY <1>13 DEF DeliveryInv, Delivering, Announce
  <2>2. HandledVend(w)[1] = vendor
    BY DEF HandledVend, PurchaseVend, RequeryVend
  <2>3. txn' = txn /\ log' = log \cup {TokenReceived(vendor)}
    BY <1>13 DEF Announce, AddEvents
  <2>4. \A v \in Vendors : TokenReceived(v) = TokenReceived(vendor) => v = vendor
    BY DEF TokenReceived, Event
  <2>5. ASSUME NEW v \in Vendors, TokenReceived(v) \in log'
        PROVE  \E p \in delivered' : p[1] = v
    BY <2>1, <2>2, <2>3, <2>4, <2>5, <1>d DEF LogInv, LogAgrees
  <2>6. LogAgrees'
    BY <2>3, <2>5 DEF LogInv, LogAgrees
  <2>7. ASSUME NEW pc, NEW snap, NEW next, NEW row, Moves(w, pc, snap, next, row), pc # "switch"
        PROVE  LogInv'
    BY <2>3, <2>6, <2>7 DEF LogInv, Moves
  <2>8. CASE Goto(w, "lookup")
    BY <2>7, <2>8, <1>t, GotoMoves DEF WorkerPCs
  <2>9. CASE NextMessage(w)
    BY <2>7, <2>9, <1>t, NextMessageMoves
  <2> QED
    BY <1>13, <2>8, <2>9 DEF Announce
<1>14. ASSUME NEW w \in Workers, LoseSession(w) PROVE LogInv'
  <2>1. UNCHANGED <<txn, log>>
    BY <1>14 DEF LoseSession
  <2> QED
    BY <1>14, <2>1, <1>d, <1>u, LoseSessionMoves, LogKept DEF LogInv
<1>15. ASSUME (\E p \in pending : Decide(p)) \/ TwoHoursPass \/ UNCHANGED vars PROVE LogInv'
  <2>1. UNCHANGED <<worker, txn, log>>
    BY <1>15 DEF Decide, TwoHoursPass, vars
  <2> QED
    BY <2>1, <1>d, <1>u, LogUnread
<1> QED
  BY <1>1, <1>2, <1>3, <1>4, <1>5, <1>6, <1>7, <1>8, <1>9, <1>10, <1>11, <1>12, <1>13, <1>14, <1>15
     DEF Next, WorkerStep

(* The events of a transaction never say more than happened, nor less than    *)
(* its row, with any number of workers.                                      *)
THEOREM LogIsTrue == Spec => []LogAgrees
<1>1. LogInv => LogAgrees
  BY DEF LogInv
<1> QED
  BY <1>1, LogInit, LogInvStep, SafetyInv, PTL DEF Spec

-----------------------------------------------------------------------------
(* OnePowerUnit: what the handler found when it looked is still so when it    *)
(* saves.                                                                    *)
UnitInv ==
  /\ OnePowerUnit
  /\ \A w \in Workers : worker[w].pc = "save" => (worker[w].row \/ rows = 0)

LEMMA UnitInit == Init => UnitInv
BY DEF Init, UnitInv, OnePowerUnit, IdleWorker

(* What a move must respect to keep UnitInv. *)
LEMMA UnitKept ==
  ASSUME SingleWorker, UnitInv, NEW w \in Workers, UNCHANGED rows,
         NEW pc, NEW snap, NEW next, NEW row, Moves(w, pc, snap, next, row),
         pc = "save" => (row \/ rows = 0)
  PROVE  UnitInv'
<1>1. \A u \in Workers : u = w
  BY DEF SingleWorker
<1> QED
  BY <1>1 DEF UnitInv, OnePowerUnit, Moves

(* Only LookUpUnit leads to the save, and it has just looked. *)
LEMMA UnitStep ==
  ASSUME SingleWorker
  PROVE  TypeInv /\ UnitInv /\ [Next]_vars => UnitInv'
<1> SUFFICES ASSUME TypeInv, UnitInv, [Next]_vars PROVE UnitInv'
  OBVIOUS
<1>t. worker \in [Workers -> Worker] /\ rows \in Nat
  BY DEF TypeInv, TypeOK
<1>c. ASSUME UNCHANGED <<rows, worker>> PROVE UnitInv'
  BY <1>c DEF UnitInv, OnePowerUnit
<1>e. ASSUME NEW w \in Workers, NextMessage(w), UNCHANGED rows PROVE UnitInv'
  BY <1>e, <1>t, NextMessageMoves, UnitKept
<1>f. ASSUME NEW w \in Workers, NEW pc \in WorkerPCs, Goto(w, pc), pc # "save", UNCHANGED rows
      PROVE  UnitInv'
  BY <1>f, <1>t, GotoMoves, UnitKept
<1>1. ASSUME NEW q \in Requests, RequestStep(q) PROVE UnitInv'
  BY <1>1, <1>c DEF RequestStep, ReceiveRequest, ValidateRequest, SaveRequest, PublishRequest,
     MarkInProgress
<1>2. ASSUME NEW w \in Workers, FetchBatch(w) PROVE UnitInv'
  BY <1>2, FetchBatchMoves, UnitKept DEF FetchBatch
<1>3. ASSUME NEW w \in Workers, CommitBatch(w) \/ Crash(w) PROVE UnitInv'
  BY <1>3, <1>t, IdleMoves, UnitKept DEF CommitBatch, Crash
<1>4. ASSUME NEW w \in Workers, Begin(w) PROVE UnitInv'
  <2> DEFINE pc == IF worker[w].topic = "purchase" THEN "vend" ELSE "ask"
  <2>1. Moves(w, pc, txn, worker[w].next, worker[w].row) /\ UNCHANGED rows
    BY <1>4, BeginMoves DEF Begin
  <2>2. pc # "save"
    OBVIOUS
  <2> HIDE DEF pc
  <2> QED
    BY <2>1, <2>2, UnitKept
<1>5. ASSUME NEW w \in Workers, ValidateMeter(w) PROVE UnitInv'
  <2>1. UNCHANGED rows
    BY <1>5 DEF ValidateMeter
  <2>2. ASSUME NEW snap, Moves(w, "vend", snap, worker[w].next, worker[w].row) PROVE UnitInv'
    BY <2>1, <2>2, UnitKept
  <2>3. ASSUME NEW snap, Moves(w, "retry", snap, worker[w].next, worker[w].row) PROVE UnitInv'
    BY <2>1, <2>3, UnitKept
  <2> QED
    BY <1>5, <2>2, <2>3, ValidateMeterMoves
<1>6. ASSUME NEW w \in Workers, Purchase(w) \/ Requery(w) \/ SwitchVendor(w) PROVE UnitInv'
  BY <1>6, <1>f, PurchaseTells, RequeryTells DEF PurchaseTold, RequeryTold, RequeryOutcome, SwitchVendor, WorkerPCs
<1>7. ASSUME NEW w \in Workers,
             FlagTransaction(w) \/ TriggerRequery(w) \/ NoVendorLeft(w) \/ Republish(w) \/ Throw(w)
      PROVE  UnitInv'
  BY <1>7, <1>e DEF FlagTransaction, TriggerRequery, NoVendorLeft, Republish, Throw
<1>8. ASSUME NEW w \in Workers, ChooseVendor(w) PROVE UnitInv'
  <2>1. PICK next : Moves(w, "switch", worker[w].snap, next, worker[w].row)
    BY <1>8, ChooseVendorMoves
  <2> QED
    BY <1>8, <2>1, UnitKept DEF ChooseVendor
<1>9. ASSUME NEW w \in Workers, LookUpUnit(w) PROVE UnitInv'
  <2> DEFINE pc == IF Prepaid THEN "save" ELSE "complete"
             found == rows > 0
  <2>1. Moves(w, pc, worker[w].snap, worker[w].next, found) /\ UNCHANGED rows
    BY <1>9, LookUpUnitMoves DEF LookUpUnit
  <2>2. found \/ rows = 0
    BY <1>t
  <2> HIDE DEF pc, found
  <2> QED
    BY <2>1, <2>2, UnitKept
<1>10. ASSUME NEW w \in Workers, SaveUnit(w) PROVE UnitInv'
  <2>1. Moves(w, "complete", worker[w].snap, worker[w].next, worker[w].row)
    BY <1>10, <1>t, GotoMoves DEF SaveUnit, WorkerPCs
  <2>2. \A u \in Workers : u = w /\ worker'[u].pc = "complete"
    BY <2>1 DEF SingleWorker, Moves
  <2>3. rows' <= 1
    BY <1>10, <1>t DEF SaveUnit, UnitInv, OnePowerUnit
  <2> QED
    BY <2>2, <2>3 DEF UnitInv, OnePowerUnit
<1>11. ASSUME NEW w \in Workers, Complete(w) \/ Announce(w) PROVE UnitInv'
  BY <1>11, <1>e, <1>f DEF Complete, Announce, WorkerPCs
<1>12. ASSUME NEW w \in Workers, LoseSession(w) PROVE UnitInv'
  BY <1>12, LoseSessionMoves, UnitKept DEF LoseSession, UnitInv
<1>13. ASSUME (\E p \in pending : Decide(p)) \/ TwoHoursPass \/ UNCHANGED vars PROVE UnitInv'
  BY <1>13, <1>c DEF Decide, TwoHoursPass, vars, store
<1> QED
  BY <1>1, <1>2, <1>3, <1>4, <1>5, <1>6, <1>7, <1>8, <1>9, <1>10, <1>11, <1>12, <1>13
     DEF Next, WorkerStep

(* Looking for the PowerUnit row and adding it are two steps of a handler;    *)
(* redelivered messages and repeated requeries still leave one row.          *)
THEOREM SinglePowerUnit ==
  ASSUME SingleWorker
  PROVE  Spec => []OnePowerUnit
<1>1. TypeInv /\ UnitInv /\ [Next]_vars => UnitInv'
  BY UnitStep
<1>2. UnitInv => OnePowerUnit
  BY DEF UnitInv
<1> QED
  BY <1>1, <1>2, UnitInit, SafetyInv, PTL DEF Spec
=============================================================================
