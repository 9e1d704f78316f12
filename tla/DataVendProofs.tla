---------------------------- MODULE DataVendProofs ----------------------------
(***************************************************************************)
(* What holds of DataVend for every set of vendors, every rate, every limit *)
(* and every number of requests, redeliveries and lost messages.            *)
(*                                                                          *)
(* TypeInv says what a handler holds at each of its awaits; DeliveryInv     *)
(* says that whoever is about to announce or complete does so for a         *)
(* purchase that was delivered, or after an error or a reply of BAXI went   *)
(* unread; LogInv says what the log holds before a message is sent or the   *)
(* row moves; RefInv that one payment gets one request through the checks;   *)
(* OnceInv that a transaction with one such request waits for one thing at a *)
(* time and, once a vend of it has gone through, for nothing that buys again. *)
(***************************************************************************)
EXTENDS DataVend, TLAPS

Running == handler.pc # "idle"

(* A running handler has a message and the row it read, and each kind of     *)
(* handler runs on its own topic.                                            *)
HandlerInv ==
  /\ Running => handler.msg \in Messages /\ handler.snap \in Row
  /\ handler.pc \in {"vend", "probe", "save"} => handler.msg.topic = "purchase"
  /\ handler.pc = "move" => handler.msg.topic = "switch"
  /\ handler.pc = "complete" => handler.msg.topic = "received"
  /\ handler.pc \in {"write", "handover"} => handler.next \in Row

TypeInv == TypeOK /\ HandlerInv

USE DEF store, vendors, bounds, repeats, history

(* getNextBestVendorForVendRePurchase returns a vendor of the product. *)
LEMMA NextVendorsIn ==
  ASSUME NEW c, NEW p PROVE NextVendors(c, p) \subseteq Vendors
BY DEF NextVendors, NextUnseen, Best

-----------------------------------------------------------------------------
(* The messages *)

LEMMA MessagesSent ==
  /\ PurchaseMessage \in Messages /\ PurchaseMessage.topic = "purchase"
  /\ ReceivedMessage \in Messages /\ ReceivedMessage.topic = "received"
  /\ \A n \in RetryCounts, rec \in BOOLEAN :
       RequeryMessage(n, rec) \in Messages /\ RequeryMessage(n, rec).topic = "requery"
  /\ \A v \in Vendors : /\ SwitchMessage(v) \in Messages
                        /\ SwitchMessage(v).topic = "switch"
                        /\ SwitchMessage(v).vendor = v
BY DEF Messages, PurchaseMessage, ReceivedMessage, RequeryMessage, SwitchMessage

(* A message read back is one of those that are sent. *)
LEMMA MessagesRead ==
  ASSUME NEW m \in Messages
  PROVE  /\ m.topic \in {"purchase", "received", "requery", "switch"}
         /\ m.topic = "requery" => m.count \in RetryCounts /\ m.record \in BOOLEAN
         /\ m.topic = "switch" => m.vendor \in Vendors
         /\ m.topic = "received" => m = ReceivedMessage
BY DEF Messages, ReceivedMessage

(* Sending puts nothing into the queue but the message. *)
LEMMA PublishSends ==
  ASSUME TypeOK, NEW m \in Messages, Publish(m)
  PROVE  /\ queue' \in [Messages -> Nat]
         /\ \A x \in Messages : queue'[x] > 0 => queue[x] > 0 \/ x = m
         /\ faults' \in Nat /\ dropped' \in BOOLEAN
<1>1. queue \in [Messages -> Nat] /\ faults \in Nat /\ dropped \in BOOLEAN
  BY DEF TypeOK
<1>2. dropped' \in BOOLEAN
  BY <1>1, Zenon DEF Publish, Keep
<1>3. queue' = [queue EXCEPT ![m] = @ + 1] \/ queue' = queue
  BY Zenon DEF Publish
<1>4. faults' = faults \/ faults' = faults + 1
  BY Zenon DEF Publish, NoFault, Fault
<1> QED
  BY <1>1, <1>2, <1>3, <1>4

-----------------------------------------------------------------------------
(* The handler *)

(* The handler goes on with the message and the row it has. *)
Moves(pc) ==
  /\ handler' \in Handler
  /\ handler'.pc = pc
  /\ handler'.msg = handler.msg
  /\ handler'.snap = handler.snap
  /\ handler'.next = handler.next

LEMMA GotoMoves ==
  ASSUME TypeOK, NEW pc \in HandlerPCs, Goto(pc) PROVE Moves(pc)
BY DEF TypeOK, Handler, Goto, Moves

LEMMA DropMoves ==
  ASSUME TypeOK, Drop PROVE Moves("commit") /\ dropped' = TRUE
BY GotoMoves DEF Drop, HandlerPCs

(* Where a handler of any topic may go. *)
FreePCs ==
  HandlerPCs \ {"idle", "vend", "probe", "save", "move", "complete", "write", "handover"}

(* It cannot end up anywhere its message does not allow. *)
LEMMA MovesKeep ==
  ASSUME TypeInv, Running, NEW pc \in HandlerPCs,
         pc \in FreePCs \/ (pc = "save" /\ handler.pc = "probe"),
         Moves(pc)
  PROVE  HandlerInv' /\ Running'
BY DEF TypeInv, HandlerInv, Running, Moves, FreePCs

LEMMA IdleHandlerIdle ==
  IdleHandler \in Handler /\ IdleHandler.pc = "idle"
BY DEF IdleHandler, Handler, HandlerPCs

LEMMA StaysIdle ==
  ASSUME handler' = IdleHandler PROVE handler' \in Handler /\ HandlerInv'
BY IdleHandlerIdle DEF HandlerInv, Running

LEMMA RestsInv == ASSUME TypeInv, UNCHANGED handler PROVE HandlerInv'
BY DEF TypeInv, HandlerInv, Running

-----------------------------------------------------------------------------
(* The row of a repurchase *)

LEMMA CurrentVendorType ==
  ASSUME NEW t \in Row PROVE CurrentVendor(t) \in RetryRecord
BY DEF CurrentVendor, Row, RetryRecord

LEMMA RetryVendorsIn ==
  ASSUME NEW t \in Row PROVE RetryVendors(t) \subseteq Vendors
BY NextVendorsIn DEF RetryVendors, Row

LEMMA RetryRowType ==
  ASSUME NEW t \in Row, NEW v \in Vendors, NEW ref \in Nat
  PROVE  RetryRow(t, v, ref) \in Row /\ RetryRow(t, v, ref).superagent = v
<1>1. CurrentVendor(t) \in RetryRecord
  BY CurrentVendorType
<1>2. RetryCount(t) \in Nat
  BY <1>1 DEF RetryCount, RetryRecord
<1>3. NewRecord(t, v, ref) \in RetryRecord
  BY <1>2 DEF NewRecord, RetryRecord
<1>4. [seen |-> t.previous.seen \cup {v}, len |-> t.previous.len + 1] \in PreviousVendors
  BY DEF Row, PreviousVendors
<1> QED
  BY <1>3, <1>4 DEF RetryRow, Row

LEMMA RetryReferenceType ==
  ASSUME NEW t \in Row, NEW r \in Nat PROVE RetryReference(t, r) \in Nat
BY CurrentVendorType DEF RetryReference, RetryRecord

-----------------------------------------------------------------------------
(* What the replies of the vendors tell *)

LEMMA ProbeGoes ==
  ASSUME Probe
  PROVE  \E pc \in {"save", "timer", "timedout", "choose"} : Goto(pc)
BY DEF Probe, AfterPurchase

LEMMA RequeryGoes ==
  ASSUME Requery PROVE \E pc \in {"announce", "timer", "choose"} : Goto(pc)
BY DEF Requery, AfterRequery

(* What a purchase returns is a result, also when the vendor refuses a        *)
(* reference it knows.                                                       *)
LEMMA PurchaseResults ==
  ASSUME NEW v \in Vendors, NEW o \in Outcomes,
         NEW r \in PurchaseReplies(v, o) \cup Refusals
  PROVE  PurchaseData(v, r) \in Results
<1>1. Refusals \subseteq PurchaseReplies(v, "failed") /\ "failed" \in Outcomes
  BY DEF PurchaseReplies, Outcomes
<1>2. r \in UNION {PurchaseReplies(v, oc) : oc \in Outcomes}
  BY <1>1
<1> HIDE DEF PurchaseReplies, Outcomes
<1> QED
  BY <1>2 DEF Results

LEMMA NoAnswerThrows ==
  ASSUME NEW v, NEW r \in NoAnswer PROVE Thrown(Requeried(v, r))
<1>1. r.ok = FALSE
  BY DEF NoAnswer, Reply
<1> QED
  BY <1>1
  DEF Requeried, Thrown, BuypowerRequery, IrechargeRequery, IrechargeVendStatus, BaxiRequery,
      ReturnedOrThrown, AxiosError

(* A requery that finds no vend delivered is announced only on an error, or   *)
(* for BAXI, which then did not say that it succeeded.                       *)
LEMMA RequeryReplyTells ==
  ASSUME NEW v, NEW o \in Outcomes \ {"delivered"}, NEW r \in RequeryReplies(v, o),
         ~Thrown(Requeried(v, r)), AfterRequery(v, Requeried(v, r)) = "announce"
  PROVE  IsBaxi(v) /\ r.status # "success"
<1> USE NoneAssumption, VendorsAssumption
    DEF AfterRequery, PhoneRequeryReading, Requeried, Thrown, BuypowerRequery, IrechargeRequery,
        IrechargeVendStatus, BaxiRequery, ReturnedOrThrown, Returned, AxiosError, PlainError
<1>1. CASE v = Buypower
  <2>1. CASE o = "pending"
    <3>1. r = [ok |-> TRUE, code |-> "201", status |-> None, token |-> FALSE]
      BY <1>1, <2>1 DEF RequeryReplies, Reply
    <3> QED
      BY <1>1, <3>1 DEF Reply
  <2>2. CASE o = "failed"
    <3>1. r.ok = FALSE
      BY <1>1, <2>2 DEF RequeryReplies, Reply
    <3> QED
      BY <1>1, <3>1
  <2> QED
    BY <2>1, <2>2 DEF Outcomes
<1>2. CASE v = Irecharge
  <2>1. CASE o = "pending"
    <3>1. PICK c \in {"15", "43"} :
            r = [ok |-> TRUE, code |-> c, status |-> None, token |-> FALSE]
      BY <1>2, <2>1 DEF RequeryReplies, InProgress, Reply
    <3> QED
      BY <1>2, <3>1
  <2>2. CASE o = "failed"
    <3>1. PICK c \in {"02", "03"} :
            r = [ok |-> TRUE, code |-> c, status |-> None, token |-> FALSE]
      BY <1>2, <2>2 DEF RequeryReplies, Reply
    <3> QED
      BY <1>2, <3>1
  <2> QED
    BY <2>1, <2>2 DEF Outcomes
<1>3. CASE v \notin {Buypower, Irecharge}
  <2>1. r.status \in {"pending", "failed"}
    <3>1. CASE o = "pending"
      BY <1>3, <3>1 DEF RequeryReplies, Reply
    <3>2. CASE o = "failed"
      BY <1>3, <3>2 DEF RequeryReplies, Reply
    <3> QED
      BY <3>1, <3>2 DEF Outcomes
  <2> QED
    BY <1>3, <2>1 DEF IsBaxi
<1> QED
  BY <1>1, <1>2, <1>3

-----------------------------------------------------------------------------
(* Types *)

LEMMA InitType == Init => TypeInv
<1> SUFFICES ASSUME Init PROVE TypeInv
  OBVIOUS
<1>1. row \in Row
  BY OpeningAssumption DEF Init, NewDataRow, Row, PreviousVendors
<1>2. handler \in Handler /\ handler.pc = "idle"
  BY IdleHandlerIdle DEF Init
<1>3. TypeOK
  BY <1>1, <1>2 DEF Init, TypeOK, Statuses, RequestPCs
<1> QED
  BY <1>2, <1>3 DEF TypeInv, HandlerInv, Running

(* Every step keeps the types. *)
LEMMA TypeStep == TypeInv /\ [Next]_vars => TypeInv'
<1> SUFFICES ASSUME TypeInv, [Next]_vars PROVE TypeInv'
  OBVIOUS
<1> DEFINE Rest ==
      /\ status \in Statuses /\ bundle \in BOOLEAN
      /\ row \in Row
      /\ queue \in [Messages -> Nat]
      /\ request \in [Requests -> RequestPCs]
      /\ pending \subseteq Vends /\ delivered \subseteq Vends /\ failed \subseteq Vends
      /\ dropped \in BOOLEAN /\ prompt \in BOOLEAN /\ unread \in BOOLEAN
      /\ overlapped \in BOOLEAN /\ repeated \in BOOLEAN
      /\ nextRef \in Nat /\ faults \in Nat /\ crashes \in Nat
    HandlerPart == handler \in Handler /\ HandlerInv
<1>a. TypeInv' <=> Rest' /\ HandlerPart'
  BY DEF TypeInv, TypeOK
<1>b. Rest /\ HandlerPart
  BY DEF TypeInv, TypeOK
<1>c. ASSUME UNCHANGED handler PROVE HandlerPart'
  BY <1>b, <1>c, RestsInv
<1>d. ASSUME NEW pc \in HandlerPCs, Goto(pc), Running,
             pc \in FreePCs \/ (pc = "save" /\ handler.pc = "probe")
      PROVE  HandlerPart'
  BY <1>d, GotoMoves, MovesKeep DEF TypeInv, Moves
<1>e. ASSUME Drop, Running PROVE HandlerPart' /\ dropped' \in BOOLEAN
  BY <1>e, DropMoves, MovesKeep DEF TypeInv, Moves, HandlerPCs, FreePCs
<1>f. ASSUME handler' = IdleHandler PROVE HandlerPart'
  BY <1>f, StaysIdle
<1>g. TypeOK
  BY DEF TypeInv
<1>1. ASSUME NEW q \in Requests, ReceiveRequest(q) PROVE TypeInv'
  BY <1>1, <1>a, <1>b, <1>c DEF ReceiveRequest, RequestPCs
<1>2. ASSUME NEW q \in Requests, CheckReference(q) PROVE TypeInv'
  BY <1>2, <1>a, <1>b, <1>c DEF CheckReference, RequestPCs
<1>3. ASSUME NEW q \in Requests, SaveRequest(q) PROVE TypeInv'
  <2>1. request' \in [Requests -> RequestPCs]
    BY <1>3, <1>b DEF SaveRequest, RequestPCs
  <2>2. overlapped' \in BOOLEAN
    BY <1>3, <1>b, Zenon DEF SaveRequest
  <2>3. faults' \in Nat
    BY <1>3, <1>b DEF SaveRequest, Fault, NoFault
  <2> QED
    BY <1>3, <2>1, <2>2, <2>3, <1>a, <1>b, <1>c DEF SaveRequest, Statuses
<1>4. ASSUME NEW q \in Requests, PublishRequest(q) PROVE TypeInv'
  BY <1>4, <1>a, <1>b, <1>c, <1>g, MessagesSent, PublishSends DEF PublishRequest, RequestPCs
<1>5. ASSUME Begin PROVE TypeInv'
  <2> PICK m \in Messages :
        /\ queue[m] > 0
        /\ queue' = [queue EXCEPT ![m] = @ - 1]
        /\ handler' = [IdleHandler EXCEPT !.msg = m, !.snap = row, !.pc =
             CASE m.topic = "purchase" -> "vend"
               [] m.topic = "requery"  -> "ask"
               [] m.topic = "switch"   -> "move"
               [] m.topic = "received" -> IF status = "COMPLETE" THEN "commit"
                                                                 ELSE "complete"]
    BY <1>5 DEF Begin
  <2>1. Rest'
    BY <1>5, <1>b DEF Begin
  <2>2. HandlerPart'
    BY <1>b, MessagesRead DEF HandlerInv, Running, IdleHandler, Handler, HandlerPCs
  <2> QED
    BY <2>1, <2>2, <1>a
<1>6. ASSUME Commit PROVE TypeInv'
  BY <1>6, <1>a, <1>b, <1>f DEF Commit
<1>7. ASSUME Throw PROVE TypeInv'
  <2>1. Running
    BY <1>7 DEF Throw, Running
  <2> QED
    BY <1>7, <2>1, <1>a, <1>b, <1>e DEF Throw, Fault
<1>8. ASSUME Redeliver PROVE TypeInv'
  <2>0. repeated' \in BOOLEAN
    BY <1>8, <1>b, Zenon DEF Redeliver
  <2>1. Rest'
    BY <1>8, <1>b, <2>0 DEF Redeliver, HandlerInv, Running
  <2>2. HandlerPart'
    BY <1>8, <1>c, <1>f DEF Redeliver
  <2> QED
    BY <2>1, <2>2, <1>a
<1>9. ASSUME Purchase PROVE TypeInv'
  <2> DEFINE v == handler.snap.superagent
             p == PurchaseVend(handler.snap)
  <2>1. Running /\ v \in Vendors /\ p \in Vends
    BY <1>9, <1>b DEF Purchase, HandlerInv, Running, PurchaseVend, DataReference, Vends, Row
  <2>2. pending' \subseteq Vends /\ delivered' \subseteq Vends /\ failed' \subseteq Vends
    <3> HIDE DEF p
    <3> QED
      BY <1>9, <1>b, <2>1 DEF Purchase, Carry, p
  <2>3. PICK r \in PurchaseReplies(v, OutcomeIn(p, delivered', pending')) \cup Refusals :
          handler' = [handler EXCEPT !.pc = "probe", !.vend = p,
                                     !.reply = PurchaseData(v, r)]
    BY <1>9 DEF Purchase
  <2>4. OutcomeIn(p, delivered', pending') \in Outcomes
    BY DEF OutcomeIn, Outcomes
  <2>5. PurchaseData(v, r) \in Results
    BY <2>1, <2>4, PurchaseResults
  <2>6. /\ handler' \in Handler /\ handler'.pc = "probe"
        /\ handler'.msg = handler.msg /\ handler'.snap = handler.snap
    <3> HIDE DEF v, p
    <3> QED
      BY <2>1, <2>3, <2>5, <1>b DEF Handler, HandlerPCs
  <2>7. HandlerPart'
    <3>1. handler.pc = "vend"
      BY <1>9 DEF Purchase
    <3> QED
      BY <2>1, <2>6, <3>1, <1>b DEF HandlerInv, Running
  <2>8. faults' \in Nat /\ nextRef' \in Nat
    BY <1>9, <1>b DEF Purchase, Fault, NoFault
  <2> QED
    BY <1>9, <2>2, <2>7, <2>8, <1>a, <1>b DEF Purchase
<1>10. ASSUME Probe PROVE TypeInv'
  <2>1. Running
    BY <1>10 DEF Probe, Running
  <2>2. HandlerPart'
    BY <1>10, <2>1, <1>d, ProbeGoes DEF Probe, HandlerPCs, FreePCs
  <2>3. faults' \in Nat
    BY <1>10, <1>b DEF Probe, Hears, Fault, NoFault
  <2>4. prompt' \in BOOLEAN
    <3> DEFINE final == handler'.pc = "save" \/ handler.vend \notin Live
    <3>1. prompt' = (prompt /\ final)
      BY <1>10 DEF Probe
    <3> HIDE DEF final
    <3> QED
      BY <3>1, <1>b, Zenon
  <2>5. unread' \in BOOLEAN
    <3> DEFINE early == handler'.pc = "save" /\ handler.vend \notin delivered
    <3>1. unread' = (unread \/ early)
      BY <1>10 DEF Probe
    <3> HIDE DEF early
    <3> QED
      BY <3>1, <1>b, Zenon
  <2> QED
    BY <1>10, <2>2, <2>3, <2>4, <2>5, <1>a, <1>b DEF Probe
<1>11. ASSUME SaveToken PROVE TypeInv'
  <2>1. Running /\ HandlerPart'
    BY <1>11, <1>d DEF SaveToken, Running, HandlerPCs, FreePCs
  <2>2. handler.snap \in Row
    BY <1>11, <1>b DEF SaveToken, HandlerInv, Running
  <2>3. row' \in Row
    BY <1>11, <1>b, <2>2 DEF SaveToken, Row
  <2> QED
    BY <1>11, <2>1, <2>3, <1>a, <1>b DEF SaveToken
<1>12. ASSUME Announce PROVE TypeInv'
  <2>1. Running
    BY <1>12 DEF Announce, Running
  <2> QED
    BY <1>12, <2>1, <1>a, <1>b, <1>d, <1>g, MessagesSent, PublishSends
    DEF Announce, HandlerPCs, FreePCs
<1>13. ASSUME Requery PROVE TypeInv'
  <2>1. Running
    BY <1>13 DEF Requery, Running
  <2>2. HandlerPart'
    BY <1>13, <2>1, <1>d, RequeryGoes DEF HandlerPCs, FreePCs
  <2>3. faults' \in Nat
    BY <1>13, <1>b DEF Requery, Hears, Fault, NoFault
  <2>4. unread' \in BOOLEAN
    BY <1>13, <1>b, Zenon DEF Requery
  <2> QED
    BY <1>13, <2>2, <2>3, <2>4, <1>a, <1>b DEF Requery
<1>14. ASSUME Complete PROVE TypeInv'
  BY <1>14, <1>a, <1>b, <1>d DEF Complete, Running, HandlerPCs, FreePCs, Statuses
<1>15. ASSUME FlagTransaction PROVE TypeInv'
  BY <1>15, <1>a, <1>b, <1>d DEF FlagTransaction, Running, HandlerPCs, FreePCs, Statuses
<1>16. ASSUME TriggerRequery PROVE TypeInv'
  <2>1. Running
    BY <1>16 DEF TriggerRequery, Running
  <2>2. NextCount \in RetryCounts
    BY <1>16, <1>b, <2>1, MessagesRead, LimitsAssumption
    DEF TriggerRequery, WithinLimit, NextCount, RetryCounts, HandlerInv
  <2>3. NextRecord \in BOOLEAN
    BY <1>b, <2>1, MessagesRead DEF NextRecord, HandlerInv
  <2>4. RequeryMessage(NextCount, NextRecord) \in Messages
    BY <2>2, <2>3, MessagesSent
  <2> QED
    BY <1>16, <2>1, <2>4, <1>a, <1>b, <1>d, <1>g, PublishSends DEF TriggerRequery, HandlerPCs, FreePCs
<1>17. ASSUME ChooseVendor PROVE TypeInv'
  <2> DEFINE t == handler.snap
             r == RetryReference(t, nextRef)
  <2>1. t \in Row /\ Running
    BY <1>17, <1>b DEF ChooseVendor, HandlerInv, Running
  <2>2. r \in Nat /\ CurrentVendor(t) \in RetryRecord
    BY <2>1, <1>b, RetryReferenceType, CurrentVendorType
  <2>3. PICK v \in Vendors : handler' = [handler EXCEPT !.pc = "write", !.next = RetryRow(t, v, r)]
    BY <1>17, <2>1, RetryVendorsIn DEF ChooseVendor
  <2>4. RetryRow(t, v, r) \in Row
    BY <2>1, <2>2, RetryRowType
  <2> HIDE DEF t, r
  <2>5. /\ handler' \in Handler /\ handler'.pc = "write" /\ handler'.next \in Row
        /\ handler'.msg = handler.msg /\ handler'.snap = handler.snap
    BY <2>3, <2>4, <1>b DEF Handler, HandlerPCs, FreePCs
  <2>6. HandlerPart'
    BY <2>1, <2>5, <1>b DEF HandlerInv, Running
  <2>7. [CurrentVendor(t) EXCEPT !.count = @ + 1] \in RetryRecord
    BY <2>2 DEF RetryRecord
  <2>8. row' \in {row, [row EXCEPT !.record = [CurrentVendor(t) EXCEPT !.count = @ + 1]]}
    BY <1>17 DEF ChooseVendor, t
  <2>9. row' \in Row
    BY <2>7, <2>8, <1>b DEF Row
  <2> QED
    BY <1>17, <2>6, <2>9, <1>a, <1>b DEF ChooseVendor
<1>18. ASSUME CannotRetry PROVE TypeInv'
  <2>1. Running
    BY <1>18 DEF CannotRetry, Running
  <2> QED
    BY <1>18, <2>1, <1>a, <1>b, <1>e DEF CannotRetry
<1>19. ASSUME WriteRetry PROVE TypeInv'
  <2>1. Running /\ handler.next \in Row
    BY <1>19, <1>b DEF WriteRetry, Running, HandlerInv
  <2>2. row' \in Row
    BY <1>19, <1>b, <2>1 DEF WriteRetry, Row
  <2>3. Moves("handover")
    BY <1>19, <1>g, GotoMoves DEF WriteRetry, HandlerPCs, FreePCs
  <2>4. HandlerPart'
    BY <2>1, <2>3, <1>b DEF Moves, HandlerInv, Running
  <2> QED
    BY <1>19, <2>2, <2>4, <1>a, <1>b DEF WriteRetry
<1>20. ASSUME HandOver PROVE TypeInv'
  <2>1. Running /\ handler.next.superagent \in Vendors
    BY <1>20, <1>b DEF HandOver, Running, HandlerInv, Row
  <2> QED
    BY <1>20, <2>1, <1>a, <1>b, <1>d, <1>g, MessagesSent, PublishSends
    DEF HandOver, HandlerPCs, FreePCs
<1>21. ASSUME MoveToVendor PROVE TypeInv'
  <2>1. Running /\ handler.msg.vendor \in Vendors
    BY <1>21, <1>b, MessagesRead DEF MoveToVendor, Running, HandlerInv
  <2>2. row' \in Row
    BY <1>21, <1>b, <2>1 DEF MoveToVendor, Row
  <2> QED
    BY <1>21, <2>1, <2>2, <1>a, <1>b, <1>d DEF MoveToVendor, HandlerPCs, FreePCs
<1>22. ASSUME Republish PROVE TypeInv'
  <2>1. Running
    BY <1>22 DEF Republish, Running
  <2> QED
    BY <1>22, <2>1, <1>a, <1>b, <1>d, <1>g, MessagesSent, PublishSends
    DEF Republish, HandlerPCs, FreePCs
<1>23. ASSUME NEW p \in pending, Decide(p) PROVE TypeInv'
  BY <1>23, <1>a, <1>b, <1>c DEF Decide
<1>24. ASSUME UNCHANGED vars PROVE TypeInv'
  BY <1>24, <1>a, <1>b, <1>c DEF vars
<1> HIDE DEF Rest, HandlerPart
<1> QED
  BY <1>1, <1>2, <1>3, <1>4, <1>5, <1>6, <1>7, <1>8, <1>9, <1>10, <1>11, <1>12, <1>13, <1>14,
     <1>15, <1>16, <1>17, <1>18, <1>19, <1>20, <1>21, <1>22, <1>23, <1>24
  DEF Next, RequestStep, ProcessStep

LEMMA TypeInvariant == Spec => []TypeInv
BY InitType, TypeStep, PTL DEF Spec

(* TypeOK: every variable has its type, whatever the vendors answer and       *)
(* however often a message is handed out.                                    *)
THEOREM DataTypes == Spec => []TypeOK
<1>1. TypeInv => TypeOK
  BY DEF TypeInv
<1> QED
  BY <1>1, TypeInvariant, PTL

-----------------------------------------------------------------------------
(* The delivery behind an announcement *)

(* Before anything is delivered nobody says that it is, unless a reply went   *)
(* unread.                                                                   *)
DeliveryInv ==
  delivered = {} /\ ~unread =>
    /\ status # "COMPLETE"
    /\ queue[ReceivedMessage] = 0
    /\ Running => handler.msg.topic # "received"
    /\ handler.pc \notin {"save", "announce", "complete"}

(* A step that announces nothing, by a handler with nothing to announce. *)
LEMMA DeliveryKept ==
  ASSUME TypeInv, DeliveryInv, queue' \in [Messages -> Nat],
         delivered \subseteq delivered', unread => unread',
         delivered' = {} /\ ~unread' =>
           /\ status' \in {status, "PENDING", "FLAGGED"}
           /\ queue'[ReceivedMessage] > 0 => queue[ReceivedMessage] > 0
           /\ \/ handler'.pc = "idle"
              \/ UNCHANGED handler
              \/ /\ Running /\ handler'.msg = handler.msg
                 /\ handler'.pc \notin {"save", "announce", "complete"}
  PROVE  DeliveryInv'
BY MessagesSent DEF TypeInv, TypeOK, DeliveryInv, Running, Statuses

LEMMA DeliveryInit == Init => DeliveryInv
BY IdleHandlerIdle, MessagesSent DEF Init, DeliveryInv, Running

LEMMA DeliveryStep == TypeInv /\ DeliveryInv /\ [Next]_vars => DeliveryInv'
<1> SUFFICES ASSUME TypeInv, DeliveryInv, [Next]_vars PROVE DeliveryInv'
  OBVIOUS
<1>g. TypeOK /\ HandlerInv /\ TypeInv'
  BY TypeStep DEF TypeInv
<1>q. queue' \in [Messages -> Nat]
  BY <1>g DEF TypeInv, TypeOK
<1>a. ASSUME NEW pc \in HandlerPCs, Goto(pc)
      PROVE  handler'.msg = handler.msg /\ handler'.pc = pc
  BY <1>a, <1>g, GotoMoves DEF Moves
<1>b. ASSUME Drop PROVE handler'.msg = handler.msg /\ handler'.pc = "commit"
  BY <1>b, <1>g, DropMoves DEF Moves
<1>c. ASSUME NEW m \in Messages, m.topic # "received", Publish(m)
      PROVE  queue'[ReceivedMessage] > 0 => queue[ReceivedMessage] > 0
  BY <1>c, <1>g, MessagesSent, PublishSends
<1>1. ASSUME NEW q \in Requests, ReceiveRequest(q) \/ CheckReference(q) \/ SaveRequest(q)
      PROVE  DeliveryInv'
  BY <1>1, <1>q, DeliveryKept DEF ReceiveRequest, CheckReference, SaveRequest
<1>2. ASSUME NEW q \in Requests, PublishRequest(q) PROVE DeliveryInv'
  BY <1>2, <1>c, <1>q, MessagesSent, DeliveryKept DEF PublishRequest
<1>3. ASSUME Begin PROVE DeliveryInv'
  <2>1. PICK m \in Messages :
          /\ queue[m] > 0
          /\ queue' = [queue EXCEPT ![m] = @ - 1]
          /\ handler'.msg = m
          /\ m.topic # "received" => handler'.pc \in {"vend", "ask", "move"}
    <3>1. IdleHandler \in Handler
      BY IdleHandlerIdle
    <3> QED
      BY <1>3, <3>1, MessagesRead DEF Begin, Handler
  <2>2. queue'[ReceivedMessage] > 0 => queue[ReceivedMessage] > 0
    BY <2>1, <1>g, MessagesSent DEF TypeOK
  <2>3. delivered = {} /\ ~unread => m.topic # "received"
    BY <2>1, MessagesRead DEF DeliveryInv
  <2>4. UNCHANGED <<status, delivered, unread>>
    BY <1>3 DEF Begin
  <2> QED
    BY <1>q, <2>1, <2>2, <2>3, <2>4, MessagesSent DEF DeliveryInv, Running
<1>4. ASSUME Commit PROVE DeliveryInv'
  BY <1>4, <1>q, DeliveryKept, IdleHandlerIdle DEF Commit
<1>5. ASSUME Throw \/ CannotRetry PROVE DeliveryInv'
  BY <1>5, <1>b, <1>q, DeliveryKept DEF Throw, CannotRetry, Running
<1>6. ASSUME Redeliver PROVE DeliveryInv'
  <2>1. handler'.pc = "idle" \/ UNCHANGED handler
    BY <1>6, IdleHandlerIdle DEF Redeliver
  <2>2. delivered = {} /\ ~unread /\ queue'[ReceivedMessage] > 0 => queue[ReceivedMessage] > 0
    BY <1>6, <1>g, MessagesSent DEF Redeliver, TypeOK, HandlerInv, Running, DeliveryInv
  <2> QED
    BY <1>6, <1>q, <2>1, <2>2, DeliveryKept DEF Redeliver
<1>7. ASSUME Purchase PROVE DeliveryInv'
  <2> DEFINE p == PurchaseVend(handler.snap)
  <2> HIDE DEF p
  <2>1. delivered \subseteq delivered'
    BY <1>7 DEF Purchase, Carry, p
  <2>2. handler'.msg = handler.msg /\ handler'.pc = "probe"
    BY <1>7, <1>g DEF Purchase, TypeOK, Handler
  <2>3. Running /\ UNCHANGED <<status, queue, unread>>
    BY <1>7 DEF Purchase, Running
  <2> QED
    BY <1>q, <2>1, <2>2, <2>3, DeliveryKept
<1>8. ASSUME Probe PROVE DeliveryInv'
  <2>1. /\ handler'.msg = handler.msg
        /\ handler'.pc \in {"save", "timer", "timedout", "choose"}
    BY <1>8, <1>a, ProbeGoes DEF HandlerPCs
  <2>2. HandlerInv /\ Running /\ UNCHANGED <<status, queue, delivered>>
    BY <1>8, <1>g DEF Probe, Running
  <2>3. /\ unread => unread'
        /\ handler'.pc = "save" /\ handler.vend \notin delivered => unread'
    BY <1>8, Zenon DEF Probe
  <2>4. delivered' = {} /\ ~unread' => handler'.pc # "save"
    BY <2>2, <2>3
  <2> QED
    BY <1>q, <2>1, <2>2, <2>3, <2>4, DeliveryKept
<1>9. ASSUME SaveToken \/ Announce \/ Complete PROVE DeliveryInv'
  <2>1. delivered' # {} \/ unread'
    BY <1>9 DEF SaveToken, Announce, Complete, DeliveryInv
  <2> QED
    BY <2>1 DEF DeliveryInv
<1>10. ASSUME Requery PROVE DeliveryInv'
  <2> DEFINE v == handler.snap.superagent
  <2>1. PICK r \in AnyRequeryReply(v) \cup NoAnswer :
          /\ Hears(r)
          /\ Goto(AfterRequery(v, Requeried(v, r)))
          /\ unread' = (unread \/ Thrown(Requeried(v, r)) \/ (IsBaxi(v) /\ r.status # "success"))
    BY <1>10 DEF Requery
  <2>2. Running /\ UNCHANGED <<status, queue, delivered>>
    BY <1>10 DEF Requery, Running
  <2>3. /\ unread => unread'
        /\ Thrown(Requeried(v, r)) => unread'
        /\ IsBaxi(v) /\ r.status # "success" => unread'
    BY <2>1, Zenon
  <2>4. delivered = {} /\ ~unread' => AfterRequery(v, Requeried(v, r)) \in {"timer", "choose"}
    <3>1. SUFFICES ASSUME delivered = {}, ~unread'
                   PROVE  AfterRequery(v, Requeried(v, r)) # "announce"
      BY DEF AfterRequery
    <3>2. ~Thrown(Requeried(v, r)) /\ r \notin NoAnswer
      BY <2>3, <3>1, NoAnswerThrows
    <3>3. Outcome(RequeryVend(handler.snap)) \in Outcomes \ {"delivered"}
      BY <3>1 DEF Outcome, OutcomeIn, Outcomes
    <3>4. PICK o \in Outcomes \ {"delivered"} : r \in RequeryReplies(v, o)
      BY <2>1, <3>2, <3>3 DEF Hears, Outcomes
    <3> QED
      BY <2>3, <3>1, <3>2, <3>4, RequeryReplyTells
  <2>5. delivered = {} /\ ~unread' =>
          handler'.msg = handler.msg /\ handler'.pc \in {"timer", "choose"}
    BY <2>1, <2>4, <1>a DEF HandlerPCs
  <2> QED
    BY <1>q, <2>2, <2>3, <2>5, DeliveryKept
<1>11. ASSUME FlagTransaction \/ WriteRetry \/ MoveToVendor PROVE DeliveryInv'
  BY <1>11, <1>a, <1>q, DeliveryKept
  DEF FlagTransaction, WriteRetry, MoveToVendor, Running, HandlerPCs
<1>12. ASSUME TriggerRequery PROVE DeliveryInv'
  <2>0. Running
    BY <1>12 DEF TriggerRequery, Running
  <2>1. NextCount \in RetryCounts
    BY <1>12, <1>g, <2>0, MessagesRead, LimitsAssumption
    DEF TriggerRequery, WithinLimit, NextCount, RetryCounts, HandlerInv
  <2>2. RequeryMessage(NextCount, NextRecord) \in Messages
    BY <1>g, <2>0, <2>1, MessagesRead, MessagesSent DEF NextRecord, HandlerInv
  <2>3. RequeryMessage(NextCount, NextRecord).topic # "received"
    BY DEF RequeryMessage
  <2>4. queue'[ReceivedMessage] > 0 => queue[ReceivedMessage] > 0
    BY <1>12, <1>c, <2>2, <2>3 DEF TriggerRequery
  <2> QED
    BY <1>12, <1>a, <1>q, <2>4, DeliveryKept DEF TriggerRequery, Running, HandlerPCs
<1>13. ASSUME ChooseVendor PROVE DeliveryInv'
  <2>1. handler'.msg = handler.msg /\ handler'.pc = "write"
    BY <1>13, <1>g DEF ChooseVendor, TypeOK, Handler
  <2> QED
    BY <1>13, <1>q, <2>1, DeliveryKept DEF ChooseVendor, Running
<1>14. ASSUME HandOver \/ Republish PROVE DeliveryInv'
  <2>1. queue'[ReceivedMessage] > 0 => queue[ReceivedMessage] > 0
    BY <1>14, <1>c, <1>g, MessagesSent DEF HandOver, Republish, HandlerInv, Running, Row
  <2> QED
    BY <1>14, <1>a, <1>q, <2>1, DeliveryKept DEF HandOver, Republish, Running, HandlerPCs
<1>15. ASSUME (\E p \in pending : Decide(p)) \/ UNCHANGED vars PROVE DeliveryInv'
  BY <1>15, <1>q, DeliveryKept DEF Decide, vars
<1> QED
  BY <1>1, <1>2, <1>3, <1>4, <1>5, <1>6, <1>7, <1>8, <1>9, <1>10, <1>11, <1>12, <1>13, <1>14,
     <1>15
  DEF Next, RequestStep, ProcessStep

(* CompleteUnlessUnread: any number of requests, redeliveries and lost        *)
(* messages leaves no transaction COMPLETE that no vendor delivered, unless   *)
(* an error or a reply of BAXI was announced without being a success.        *)
THEOREM DataCompleteDelivered == Spec => []CompleteUnlessUnread
<1>1. DeliveryInv => CompleteUnlessUnread
  BY DEF DeliveryInv, CompleteUnlessUnread
<1> QED
  BY <1>1, InitType, TypeStep, DeliveryInit, DeliveryStep, PTL DEF Spec
-----------------------------------------------------------------------------
(* The log is ahead of the row *)

(* What log l says before message m is sent: received, that some vendor      *)
(* delivered; switch, that the transaction goes to the vendor of m.           *)
Moved(v, l) == \E u \in Vendors : DataNewVendor(u, v) \in l
Told(l)     == \E v \in Vendors : {DataReceived(v), DataTransactionRequery(v)} \cap l # {}

Backed(m, l) ==
  /\ m.topic = "received" => Told(l)
  /\ m.topic = "switch" => Moved(m.vendor, l)

LogInv ==
  /\ \A m \in Messages : queue[m] > 0 => Backed(m, log)
  /\ Running => Backed(handler.msg, log)
  /\ handler.pc \in {"write", "handover"} => Moved(handler.next.superagent, log)

LEMMA BackedStays ==
  ASSUME NEW m, NEW l, NEW k, l \subseteq k, Backed(m, l) PROVE Backed(m, k)
BY DEF Backed, Told, Moved

(* A step of a handler that goes on with its message, or of nobody's.         *)
LEMMA LogKept ==
  ASSUME TypeInv, LogInv, log \subseteq log',
         \A m \in Messages : queue'[m] > 0 => queue[m] > 0 \/ Backed(m, log'),
         \/ handler'.pc = "idle"
         \/ UNCHANGED handler
         \/ /\ Running /\ handler'.msg = handler.msg
            /\ handler'.pc \notin {"write", "handover"}
  PROVE  LogInv'
<1>1. \A m \in Messages : queue'[m] > 0 => Backed(m, log')
  BY BackedStays DEF LogInv
<1>2. CASE handler'.pc = "idle"
  BY <1>1, <1>2 DEF LogInv, Running
<1>3. CASE UNCHANGED handler
  <2>1. Running => Backed(handler.msg, log')
    BY BackedStays DEF LogInv
  <2>2. handler.pc \in {"write", "handover"} => Moved(handler.next.superagent, log')
    BY DEF LogInv, Moved
  <2> QED
    BY <1>1, <1>3, <2>1, <2>2 DEF LogInv, Running
<1>4. CASE /\ Running /\ handler'.msg = handler.msg
           /\ handler'.pc \notin {"write", "handover"}
  <2>1. Backed(handler'.msg, log')
    BY <1>4, BackedStays DEF LogInv
  <2> QED
    BY <1>1, <1>4, <2>1 DEF LogInv, Running
<1> QED
  BY <1>2, <1>3, <1>4

LEMMA LogInit == Init => LogInv
BY IdleHandlerIdle DEF Init, LogInv, Running

LEMMA LogStep == TypeInv /\ LogInv /\ [Next]_vars => LogInv'
<1> SUFFICES ASSUME TypeInv, LogInv, [Next]_vars PROVE LogInv'
  OBVIOUS
<1>g. TypeOK /\ HandlerInv
  BY DEF TypeInv
<1>a. ASSUME NEW pc \in HandlerPCs, Goto(pc)
      PROVE  handler'.msg = handler.msg /\ handler'.pc = pc /\ handler'.next = handler.next
  BY <1>a, <1>g, GotoMoves DEF Moves
<1>b. ASSUME Drop PROVE handler'.msg = handler.msg /\ handler'.pc = "commit"
  BY <1>b, <1>g, DropMoves DEF Moves
<1>c. ASSUME NEW m \in Messages, Backed(m, log'), Publish(m)
      PROVE  \A x \in Messages : queue'[x] > 0 => queue[x] > 0 \/ Backed(x, log')
  BY <1>c, <1>g, PublishSends
<1>d. Backed(PurchaseMessage, log')
  BY MessagesSent DEF Backed
<1>1. ASSUME NEW q \in Requests, ReceiveRequest(q) \/ CheckReference(q) \/ SaveRequest(q)
      PROVE  LogInv'
  BY <1>1, LogKept DEF ReceiveRequest, CheckReference, SaveRequest, AddEvents
<1>2. ASSUME NEW q \in Requests, PublishRequest(q) PROVE LogInv'
  BY <1>2, <1>c, <1>d, MessagesSent, LogKept DEF PublishRequest
<1>3. ASSUME Begin PROVE LogInv'
  <2>1. PICK m \in Messages :
          /\ queue[m] > 0
          /\ queue' = [queue EXCEPT ![m] = @ - 1]
          /\ handler'.msg = m
          /\ handler'.pc \in {"vend", "ask", "move", "commit", "complete"}
    <3>1. IdleHandler \in Handler
      BY IdleHandlerIdle
    <3> QED
      BY <1>3, <3>1, MessagesRead DEF Begin, Handler
  <2>2. \A x \in Messages : queue'[x] > 0 => queue[x] > 0
    BY <2>1, <1>g DEF TypeOK
  <2>3. UNCHANGED log
    BY <1>3 DEF Begin
  <2> QED
    BY <2>1, <2>2, <2>3 DEF LogInv, Running
<1>4. ASSUME Commit PROVE LogInv'
  BY <1>4, LogKept, IdleHandlerIdle DEF Commit
<1>5. ASSUME Throw \/ CannotRetry PROVE LogInv'
  BY <1>5, <1>b, LogKept DEF Throw, CannotRetry, Running
<1>6. ASSUME Redeliver PROVE LogInv'
  <2>1. (handler'.pc = "idle" \/ UNCHANGED handler) /\ UNCHANGED log
    BY <1>6, IdleHandlerIdle DEF Redeliver
  <2>2. \A x \in Messages : queue'[x] > 0 => queue[x] > 0 \/ Backed(x, log')
    BY <1>6, <1>g, <2>1 DEF Redeliver, TypeOK, HandlerInv, Running, LogInv
  <2> QED
    BY <2>1, <2>2, LogKept
<1>7. ASSUME Purchase PROVE LogInv'
  <2>1. handler'.msg = handler.msg /\ handler'.pc = "probe"
    BY <1>7, <1>g DEF Purchase, TypeOK, Handler
  <2> QED
    BY <1>7, <2>1, LogKept DEF Purchase, Running
<1>8. ASSUME Probe PROVE LogInv'
  <2>1. handler'.msg = handler.msg /\ handler'.pc \in {"save", "timer", "timedout", "choose"}
    BY <1>8, <1>a, ProbeGoes DEF HandlerPCs
  <2> QED
    BY <1>8, <2>1, LogKept DEF Probe, AddEvents, Running
<1>9. ASSUME SaveToken \/ Complete \/ FlagTransaction \/ MoveToVendor PROVE LogInv'
  BY <1>9, <1>a, LogKept
  DEF SaveToken, Complete, FlagTransaction, MoveToVendor, Running, HandlerPCs
<1>10. ASSUME Announce PROVE LogInv'
  <2>1. handler.snap.superagent \in Vendors
    BY <1>10, <1>g DEF Announce, HandlerInv, Running, Row
  <2>2. Told(log')
    BY <1>10, <2>1 DEF Announce, AddEvents, Told
  <2>3. Backed(ReceivedMessage, log')
    BY <2>2, MessagesSent DEF Backed
  <2> QED
    BY <1>10, <1>a, <1>c, <2>3, MessagesSent, LogKept
    DEF Announce, AddEvents, Running, HandlerPCs
<1>11. ASSUME Requery PROVE LogInv'
  <2>1. handler'.msg = handler.msg /\ handler'.pc \in {"announce", "timer", "choose"}
    BY <1>11, <1>a, RequeryGoes DEF HandlerPCs
  <2> QED
    BY <1>11, <2>1, LogKept DEF Requery, AddEvents, Running
<1>12. ASSUME TriggerRequery PROVE LogInv'
  <2>0. Running
    BY <1>12 DEF TriggerRequery, Running
  <2>1. NextCount \in RetryCounts
    BY <1>12, <1>g, <2>0, MessagesRead, LimitsAssumption
    DEF TriggerRequery, WithinLimit, NextCount, RetryCounts, HandlerInv
  <2>2. RequeryMessage(NextCount, NextRecord) \in Messages
    BY <1>g, <2>0, <2>1, MessagesRead, MessagesSent DEF NextRecord, HandlerInv
  <2>3. Backed(RequeryMessage(NextCount, NextRecord), log')
    BY DEF RequeryMessage, Backed
  <2> QED
    BY <1>12, <1>a, <1>c, <2>0, <2>2, <2>3, LogKept DEF TriggerRequery, AddEvents, HandlerPCs
<1>13. ASSUME ChooseVendor PROVE LogInv'
  <2> DEFINE t == handler.snap
             r == RetryReference(t, nextRef)
  <2>1. t.superagent \in Vendors
    BY <1>13, <1>g DEF ChooseVendor, HandlerInv, Running, Row
  <2>2. PICK v : /\ log' = log \cup {DataNewVendor(t.superagent, v)}
                 /\ handler' = [handler EXCEPT !.pc = "write", !.next = RetryRow(t, v, r)]
    BY <1>13 DEF ChooseVendor, AddEvents
  <2> HIDE DEF r
  <2>3. /\ handler'.pc = "write" /\ handler'.next.superagent = v /\ handler'.msg = handler.msg
        /\ Running /\ UNCHANGED queue
    BY <1>13, <2>2, <1>g DEF ChooseVendor, TypeOK, Handler, Running, RetryRow
  <2>4. Moved(v, log')
    BY <2>1, <2>2 DEF Moved
  <2>5. log \subseteq log'
    BY <2>2
  <2>6. \A m : Backed(m, log) => Backed(m, log')
    BY <2>5, BackedStays
  <2> QED
    BY <2>3, <2>4, <2>6 DEF LogInv, Running
<1>14. ASSUME WriteRetry PROVE LogInv'
  <2>1. /\ handler'.pc = "handover" /\ handler'.next = handler.next
        /\ handler'.msg = handler.msg
    BY <1>14, <1>a DEF WriteRetry, HandlerPCs
  <2>2. handler.pc = "write" /\ UNCHANGED <<log, queue>>
    BY <1>14 DEF WriteRetry
  <2> QED
    BY <2>1, <2>2 DEF LogInv, Running
<1>15. ASSUME HandOver PROVE LogInv'
  <2>1. UNCHANGED log /\ Running /\ handler.next.superagent \in Vendors
    BY <1>15, <1>g DEF HandOver, Running, HandlerInv, Row
  <2>2. Backed(SwitchMessage(handler.next.superagent), log')
    BY <1>15, <2>1, MessagesSent DEF HandOver, Backed, LogInv
  <2> QED
    BY <1>15, <1>a, <1>c, <2>1, <2>2, MessagesSent, LogKept DEF HandOver, HandlerPCs
<1>16. ASSUME Republish PROVE LogInv'
  BY <1>16, <1>a, <1>c, <1>d, MessagesSent, LogKept DEF Republish, AddEvents, Running, HandlerPCs
<1>17. ASSUME (\E p \in pending : Decide(p)) \/ UNCHANGED vars PROVE LogInv'
  BY <1>17, LogKept DEF Decide, vars
<1> QED
  BY <1>1, <1>2, <1>3, <1>4, <1>5, <1>6, <1>7, <1>8, <1>9, <1>10, <1>11, <1>12, <1>13, <1>14,
     <1>15, <1>16, <1>17
  DEF Next, RequestStep, ProcessStep

(* LoggedFirst: through any redelivery, lost message and interleaving of      *)
(* requests, the vendor of the row changes and the row becomes COMPLETE only  *)
(* after an event that says so, in both handlers that write the vendor.      *)
THEOREM DataLoggedFirst == Spec => LoggedFirst
<1> DEFINE Ahead ==
      /\ row'.superagent # row.superagent => Moved(row'.superagent, log)
      /\ status' = "COMPLETE" /\ status # "COMPLETE" => Told(log)
<1>1. TypeInv /\ LogInv /\ [Next]_vars => [Ahead]_vars
  <2> SUFFICES ASSUME TypeInv, LogInv, [Next]_vars PROVE Ahead
    OBVIOUS
  <2>g. TypeOK /\ HandlerInv
    BY DEF TypeInv
  <2>1. CASE MoveToVendor
    <3>1. row'.superagent = handler.msg.vendor /\ UNCHANGED status
      BY <2>1, <2>g DEF MoveToVendor, TypeOK, Row
    <3>2. Moved(handler.msg.vendor, log)
      BY <2>1, <2>g DEF MoveToVendor, HandlerInv, LogInv, Backed, Running
    <3> QED
      BY <3>1, <3>2
  <2>2. CASE WriteRetry
    <3>1. handler.next \in Row
      BY <2>2, <2>g DEF WriteRetry, HandlerInv
    <3>2. row'.superagent = handler.next.superagent /\ UNCHANGED status
      BY <2>2, <3>1 DEF WriteRetry, Row
    <3> QED
      BY <2>2, <3>2 DEF WriteRetry, LogInv
  <2>3. CASE Complete
    BY <2>3, <2>g DEF Complete, LogInv, Backed, Running, HandlerInv
  <2>4. CASE SaveToken \/ ChooseVendor
    BY <2>4, <2>g DEF SaveToken, ChooseVendor, TypeOK, Row
  <2>5. CASE \E q \in Requests : RequestStep(q)
    BY <2>5 DEF RequestStep, ReceiveRequest, CheckReference, SaveRequest, PublishRequest
  <2>6. CASE Begin \/ Commit \/ Purchase \/ Probe \/ Announce \/ Throw \/ CannotRetry \/ Redeliver
    BY <2>6 DEF Begin, Commit, Purchase, Probe, Announce, Throw, CannotRetry, Redeliver
  <2>7. CASE Requery \/ HandOver \/ Republish \/ FlagTransaction \/ TriggerRequery
    BY <2>7 DEF Requery, HandOver, Republish, FlagTransaction, TriggerRequery
  <2>8. CASE (\E p \in pending : Decide(p)) \/ UNCHANGED vars
    BY <2>8 DEF Decide, vars
  <2> QED
    BY <2>1, <2>2, <2>3, <2>4, <2>5, <2>6, <2>7, <2>8 DEF Next, ProcessStep
<1>2. [Ahead]_vars => [/\ row'.superagent # row.superagent =>
                            \E v \in Vendors : DataNewVendor(v, row'.superagent) \in log
                       /\ status' = "COMPLETE" /\ status # "COMPLETE" =>
                            \E v \in Vendors :
                              {DataReceived(v), DataTransactionRequery(v)} \cap log # {}]_vars
  BY DEF Moved, Told
<1> HIDE DEF Ahead
<1> QED
  BY <1>1, <1>2, InitType, TypeStep, LogInit, LogStep, PTL DEF Spec, LoggedFirst

-----------------------------------------------------------------------------
(* One payment, one request *)

(* At most one request has passed the checks. *)
Sole == \A p, q \in Accepted : p = q

(* The row of a bundle has the reference of the payment from the first request *)
(* on, and every request that still is to be written has another one.        *)
RefInv ==
  /\ Accepted # {} => bundle
  /\ ~overlapped /\ OnePayment =>
       /\ \A q \in Accepted : bankRef = BankRef[q]
       /\ \A r \in Requests, q \in Accepted : request[r] = "update" => BankRef[r] # BankRef[q]
       /\ Sole

LEMMA RefInit == Init => RefInv
BY DEF Init, RefInv, Accepted, Sole

LEMMA RefStep == TypeInv /\ RefInv /\ [Next]_vars => RefInv'
<1> SUFFICES ASSUME TypeInv, RefInv, [Next]_vars PROVE RefInv'
  OBVIOUS
<1>g. request \in [Requests -> RequestPCs]
  BY DEF TypeInv, TypeOK
(* A step of nobody who writes the reference, and none that lets a request past. *)
<1>a. ASSUME UNCHANGED <<bankRef, bundle, overlapped>>, Accepted' = Accepted,
             \A q \in Requests : request'[q] = "update" => request[q] = "update"
      PROVE  RefInv'
  BY <1>a DEF RefInv, Sole, OnePayment
<1>1. ASSUME NEW q \in Requests, ReceiveRequest(q) PROVE RefInv'
  <2>1. Accepted' = Accepted
    BY <1>1, <1>g DEF ReceiveRequest, Accepted
  <2>2. \A r \in Requests : request'[r] = "update" => request[r] = "update"
    BY <1>1, <1>g DEF ReceiveRequest
  <2> QED
    BY <1>1, <1>a, <2>1, <2>2 DEF ReceiveRequest
<1>2. ASSUME NEW q \in Requests, CheckReference(q) PROVE RefInv'
  <2>1. Accepted' = Accepted /\ UNCHANGED <<bankRef, bundle, overlapped>>
    BY <1>2, <1>g DEF CheckReference, Accepted
  <2>2. \A r \in Requests :
          request'[r] = "update" => request[r] = "update" \/ bankRef # BankRef[r]
    BY <1>2, <1>g DEF CheckReference
  <2> QED
    BY <2>1, <2>2 DEF RefInv, Sole, OnePayment
<1>3. ASSUME NEW q \in Requests, SaveRequest(q) PROVE RefInv'
  <2>1. /\ request[q] = "update" /\ bankRef' = BankRef[q] /\ UNCHANGED bundle
        /\ request' = [request EXCEPT ![q] = IF bundle THEN "publish" ELSE "refused"]
    BY <1>3 DEF SaveRequest
  <2>2. Accepted' = IF bundle THEN Accepted \cup {q} ELSE {}
    BY <2>1, <1>g DEF Accepted, RefInv
  <2>3. CASE ~bundle
    BY <2>1, <2>2, <2>3 DEF RefInv, Sole
  <2>4. CASE bundle
    <3> SUFFICES ASSUME ~overlapped', OnePayment'
                 PROVE  /\ \A p \in Accepted' : bankRef' = BankRef[p]
                        /\ \A r \in Requests : request'[r] # "update"
                        /\ Sole'
      BY <2>1, <2>4 DEF RefInv
    <3>1. ~overlapped /\ ~Overlaps(q)
      BY <1>3, Zenon DEF SaveRequest
    <3>2. \A r \in Requests : request'[r] # "update"
      BY <2>1, <2>4, <3>1, <1>g DEF Overlaps
    <3>3. OnePayment /\ \A p \in Accepted' : BankRef[p] = BankRef[q]
      BY <2>2, <2>4 DEF OnePayment
    <3>4. Accepted = {}
      BY <2>1, <2>2, <2>4, <3>1, <3>3 DEF RefInv
    <3> QED
      BY <2>1, <2>2, <2>4, <3>2, <3>3, <3>4 DEF Sole
  <2> QED
    BY <2>3, <2>4
<1>4. ASSUME NEW q \in Requests, PublishRequest(q) PROVE RefInv'
  <2>1. Accepted' = Accepted
    BY <1>4, <1>g DEF PublishRequest, Accepted
  <2>2. \A r \in Requests : request'[r] = "update" => request[r] = "update"
    BY <1>4, <1>g DEF PublishRequest
  <2> QED
    BY <1>4, <1>a, <2>1, <2>2 DEF PublishRequest
<1>5. ASSUME UNCHANGED <<bankRef, bundle, request, overlapped>> PROVE RefInv'
  BY <1>5, <1>a DEF Accepted
<1>6. CASE ProcessStep \/ Throw \/ Redeliver
  BY <1>6, <1>5
  DEF ProcessStep, Begin, Commit, Throw, Redeliver, Purchase, Probe, SaveToken, Announce, Requery,
      Complete, FlagTransaction, TriggerRequery, ChooseVendor, CannotRetry, WriteRetry, HandOver,
      MoveToVendor, Republish
<1>7. CASE (\E p \in pending : Decide(p)) \/ UNCHANGED vars
  BY <1>7, <1>5 DEF Decide, vars
<1> QED
  BY <1>1, <1>2, <1>3, <1>4, <1>6, <1>7 DEF Next, RequestStep

-----------------------------------------------------------------------------
(* One purchase at a time *)

(* What the transaction is waiting for: a request's message, a message or the *)
(* handler until it has sent what it had to send.                            *)
Asking  == \A q \in Requests : request[q] # "done"
Waiting == \E m \in Messages : queue[m] > 0
Working == handler.pc \notin {"idle", "commit"}

(* Nothing is handed out twice: there is one thing to wait for. *)
OneThread ==
  /\ \A x, y \in Messages : queue[x] > 0 /\ queue[y] > 0 => x = y /\ queue[x] = 1
  /\ Asking => ~Waiting /\ ~Working
  /\ Waiting => ~Working

(* What a handler that asks a vendor knows of the row, and of the vend. *)
SnapInv ==
  /\ handler.pc \in {"vend", "probe", "save", "ask"} => handler.snap = row
  /\ handler.pc = "probe" /\ row.superagent = Irecharge =>
       handler.vend = <<Irecharge, row.reference>>

(* Nothing is left to wait for that ends in a purchase; the handler is with    *)
(* the vend there is, and IRECHARGE is asked about that one.                  *)
Settled ==
  /\ ~Asking
  /\ \A m \in Messages : queue[m] > 0 => m.topic \in {"requery", "received"}
  /\ handler.pc \notin {"vend", "choose", "write", "handover", "move", "republish"}
  /\ Working => handler.msg.topic # "switch"
  /\ handler.pc = "probe" => handler.vend \in Live
  /\ row.superagent = Irecharge =>
       \/ handler.pc # "save" /\ <<Irecharge, row.access>> \in Live
       \/ handler.pc = "save" /\ <<Irecharge, row.reference>> \in Live
       \/ handler.pc = "probe"
       \/ ~Waiting /\ ~Working

OnceLive == (\A p, q \in Live : p = q) /\ (Live # {} => Settled)

OnceInv ==
  /\ ~repeated /\ Sole => OneThread /\ SnapInv
  /\ ~repeated /\ Sole /\ prompt => OnceLive

(* A requery of a vend that is alive does not find it failed. *)
LEMMA RequeryOfLive ==
  ASSUME NEW v, NEW o \in Outcomes, NEW r \in RequeryReplies(v, o) \cup NoAnswer,
         v = Irecharge => o # "failed"
  PROVE  AfterRequery(v, Requeried(v, r)) # "choose"
<1>1. CASE Thrown(Requeried(v, r))
  BY <1>1 DEF AfterRequery, PhoneRequeryReading
<1>2. ASSUME ~Thrown(Requeried(v, r)) PROVE AfterRequery(v, Requeried(v, r)) # "choose"
  <2>1. r \in RequeryReplies(v, o)
    BY <1>2, NoAnswerThrows
  <2> USE NoneAssumption, VendorsAssumption
      DEF AfterRequery, PhoneRequeryReading, Requeried, Thrown, BuypowerRequery, IrechargeRequery,
          IrechargeVendStatus, BaxiRequery, ReturnedOrThrown, Returned, AxiosError, PlainError
  <2>2. CASE v = Buypower
    <3>1. CASE o = "delivered"
      <4>1. r = [ok |-> TRUE, code |-> "200", status |-> "success", token |-> TRUE]
        BY <2>1, <2>2, <3>1 DEF RequeryReplies, Success, Reply
      <4> QED
        BY <2>2, <4>1 DEF Reply
    <3>2. CASE o = "pending"
      <4>1. r = [ok |-> TRUE, code |-> "201", status |-> None, token |-> FALSE]
        BY <2>1, <2>2, <3>2 DEF RequeryReplies, Reply
      <4> QED
        BY <2>2, <4>1 DEF Reply
    <3>3. CASE o = "failed"
      <4>1. r.ok = FALSE
        BY <2>1, <2>2, <3>3 DEF RequeryReplies, Reply
      <4> QED
        BY <1>2, <2>2, <4>1
    <3> QED
      BY <3>1, <3>2, <3>3 DEF Outcomes
  <2>3. CASE v = Irecharge
    <3>1. CASE o = "delivered"
      <4>1. r = [ok |-> TRUE, code |-> "00", status |-> "successful", token |-> TRUE]
        BY <2>1, <2>3, <3>1 DEF RequeryReplies, Success, Reply
      <4> QED
        BY <2>3, <4>1
    <3>2. CASE o = "pending"
      <4>1. PICK c \in {"15", "43"} :
              r = [ok |-> TRUE, code |-> c, status |-> None, token |-> FALSE]
        BY <2>1, <2>3, <3>2 DEF RequeryReplies, InProgress, Reply
      <4> QED
        BY <2>3, <4>1
    <3> QED
      BY <2>3, <3>1, <3>2 DEF Outcomes
  <2>4. CASE v \notin {Buypower, Irecharge}
    BY <2>4
  <2> QED
    BY <2>2, <2>3, <2>4
<1> QED
  BY <1>1, <1>2

(* Nothing moves but the one thing there is to wait for. *)
LEMMA ThreadStays ==
  ASSUME OneThread, UNCHANGED queue, Asking' => Asking, Working' => Working
  PROVE  OneThread'
BY DEF OneThread, Waiting

(* It becomes a message, or is lost. *)
LEMMA ThreadSends ==
  ASSUME TypeInv, OneThread, Asking \/ Working, NEW m \in Messages, Publish(m),
         ~Asking', ~Working'
  PROVE  OneThread' /\ \A x \in Messages : queue'[x] > 0 => x = m
<1>1. queue \in [Messages -> Nat] /\ \A x \in Messages : queue[x] = 0
  BY DEF TypeInv, TypeOK, OneThread, Waiting
<1>2. queue' = [queue EXCEPT ![m] = @ + 1] \/ queue' = queue
  BY Zenon DEF Publish
<1>3. queue' \in [Messages -> Nat] /\ \A x \in Messages : queue'[x] > 0 => x = m /\ queue'[x] = 1
  BY <1>1, <1>2
<1> QED
  BY <1>3 DEF OneThread

LEMMA OnceKept ==
  ASSUME OnceLive, UNCHANGED vendors, Live # {} /\ Settled => Settled'
  PROVE  OnceLive'
<1>1. Live' = Live
  BY DEF Live
<1> QED
  BY <1>1 DEF OnceLive

LEMMA OnceInit == Init => OnceInv
<1> SUFFICES ASSUME Init PROVE OnceInv
  OBVIOUS
<1>1. Live = {}
  BY DEF Init, Live
<1>2. handler.pc = "idle"
  BY IdleHandlerIdle DEF Init
<1>3. ~Waiting /\ ~Working /\ \A x \in Messages : queue[x] = 0
  BY <1>2 DEF Init, Waiting, Working
<1> QED
  BY <1>1, <1>2, <1>3 DEF OnceInv, OnceLive, OneThread, SnapInv

(* The parts are kept by every step that hands nothing out again. *)
LEMMA OnceMoves ==
  ASSUME Sole, TypeInv, OneThread, SnapInv, prompt => OnceLive, [Next]_vars, ~repeated'
  PROVE  OneThread' /\ SnapInv' /\ (prompt' => OnceLive')
<1> DEFINE Goal == OneThread' /\ SnapInv' /\ (prompt' => OnceLive')
<1>g. TypeOK /\ HandlerInv
  BY DEF TypeInv
<1>a. ASSUME NEW pc \in HandlerPCs, Goto(pc) PROVE Moves(pc)
  BY <1>a, <1>g, GotoMoves
<1>b. ASSUME Drop PROVE Moves("commit")
  BY <1>b, <1>g, DropMoves
(* What is settled and past the purchase has its access token. *)
<1>s. ASSUME Settled, Working, handler.pc \notin {"save", "probe"}, row.superagent = Irecharge
      PROVE  <<Irecharge, row.access>> \in Live
  BY <1>s DEF Settled
(* A step of the handler that sends nothing. *)
<1>h. ASSUME Working, UNCHANGED <<queue, request>>, handler'.pc # "idle"
      PROVE  OneThread' /\ ~Asking' /\ ~Waiting'
  <2>1. OneThread'
    BY <1>h, ThreadStays DEF Asking
  <2> QED
    BY <1>h, <2>1 DEF OneThread, Asking, Waiting
(* The last step of a handler, which sends m. *)
<1>m. ASSUME Working, NEW m \in Messages, Publish(m), Moves("commit"), UNCHANGED request
      PROVE  /\ OneThread' /\ SnapInv' /\ ~Asking' /\ ~Working'
             /\ \A x \in Messages : queue'[x] > 0 => x = m
  <2>1. ~Asking' /\ ~Working'
    BY <1>m DEF OneThread, Asking, Working, Moves
  <2>2. OneThread' /\ \A x \in Messages : queue'[x] > 0 => x = m
    BY <1>m, <2>1, ThreadSends
  <2> QED
    BY <1>m, <2>1, <2>2 DEF SnapInv, Moves
<1>1. ASSUME NEW q \in Requests, ReceiveRequest(q) \/ CheckReference(q) \/ SaveRequest(q)
      PROVE  Goal
  <2>1. UNCHANGED <<queue, handler, row, vendors, prompt>>
    BY <1>1 DEF ReceiveRequest, CheckReference, SaveRequest
  <2>2. Asking' <=> Asking
    BY <1>1, <1>g DEF Asking, TypeOK, ReceiveRequest, CheckReference, SaveRequest
  <2>3. OneThread' /\ SnapInv'
    BY <2>1, <2>2, ThreadStays DEF Working, SnapInv
  <2>4. Settled => Settled'
    BY <2>1, <2>2 DEF Settled, Live, Waiting, Working
  <2> QED
    BY <2>1, <2>3, <2>4, OnceKept
<1>2. ASSUME NEW q \in Requests, PublishRequest(q) PROVE Goal
  <2>0. Asking
    BY <1>2, <1>g DEF Asking, PublishRequest, Sole, Accepted
  <2>1. Asking /\ UNCHANGED <<handler, row, vendors, prompt>> /\ Publish(PurchaseMessage)
    BY <1>2, <2>0 DEF PublishRequest
  <2>2. ~Asking'
    BY <1>2, <1>g DEF PublishRequest, Asking, TypeOK
  <2>3. ~Working'
    BY <2>1 DEF OneThread, Working
  <2>4. OneThread' /\ SnapInv'
    BY <2>1, <2>2, <2>3, ThreadSends, MessagesSent DEF SnapInv
  <2>5. prompt' => OnceLive'
    BY <2>1, OnceKept DEF Settled
  <2> QED
    BY <2>4, <2>5
<1>3. ASSUME Begin PROVE Goal
  <2> PICK m \in Messages :
        /\ queue[m] > 0
        /\ queue' = [queue EXCEPT ![m] = @ - 1]
        /\ handler' = [IdleHandler EXCEPT !.msg = m, !.snap = row, !.pc =
             CASE m.topic = "purchase" -> "vend"
               [] m.topic = "requery"  -> "ask"
               [] m.topic = "switch"   -> "move"
               [] m.topic = "received" -> IF status = "COMPLETE" THEN "commit"
                                                                 ELSE "complete"]
    BY <1>3 DEF Begin
  <2>1. UNCHANGED <<row, request, vendors, prompt>> /\ handler.pc = "idle"
    BY <1>3 DEF Begin
  <2>2. /\ handler'.snap = row /\ handler'.pc # "probe"
        /\ m.topic \in {"requery", "received"} => handler'.pc \in {"ask", "commit", "complete"}
    BY MessagesRead DEF IdleHandler
  <2>3. Waiting /\ ~Asking /\ queue[m] = 1 /\ \A x \in Messages : queue[x] > 0 => x = m
    BY <1>g DEF Waiting, OneThread, TypeOK
  <2>4. queue' \in [Messages -> Nat] /\ \A x \in Messages : queue'[x] = 0
    BY <2>3, <1>g DEF TypeOK
  <2>5. ~Asking' /\ ~Waiting'
    BY <2>1, <2>3, <2>4 DEF Asking, Waiting
  <2>6. OneThread' /\ SnapInv'
    <3>1. OneThread'
      BY <2>4, <2>5 DEF OneThread
    <3>2. SnapInv'
      BY <2>1, <2>2 DEF SnapInv
    <3> QED
      BY <3>1, <3>2
  <2>7. ASSUME Live # {}, Settled PROVE Settled'
    <3>1. m.topic \in {"requery", "received"}
      BY <2>7 DEF Settled
    <3>2. row.superagent = Irecharge => <<Irecharge, row.access>> \in Live
      BY <2>1, <2>3, <2>7 DEF Settled
    <3> QED
      BY <2>1, <2>2, <2>4, <2>5, <3>1, <3>2 DEF Settled, Live
  <2> QED
    BY <2>1, <2>6, <2>7, OnceKept
<1>4. ASSUME Commit \/ Throw PROVE Goal
  <2>1. /\ UNCHANGED <<row, queue, request, vendors, prompt>>
        /\ handler'.pc \in {"idle", "commit"} /\ ~Working'
        /\ handler.pc = "commit" \/ Working
    BY <1>4, <1>b, IdleHandlerIdle DEF Commit, Throw, Working, Moves
  <2>2. OneThread' /\ SnapInv'
    BY <2>1, ThreadStays DEF SnapInv, Asking
  <2>3. ASSUME Live # {}, Settled PROVE Settled'
    <3>1. row.superagent = Irecharge => <<Irecharge, row.access>> \in Live \/ ~Waiting
      BY <2>1, <2>3 DEF Settled, OneThread
    <3> QED
      BY <2>1, <2>3, <3>1 DEF Settled, Live, Asking, Waiting
  <2> QED
    BY <2>1, <2>2, <2>3, OnceKept
<1>5. ASSUME Purchase PROVE Goal
  <2> DEFINE p == PurchaseVend(handler.snap)
  <2>1. /\ handler.pc = "vend" /\ Working /\ Carry(p)
        /\ UNCHANGED <<row, queue, request, prompt>>
    BY <1>5 DEF Purchase, Working
  <2>2. PICK res : handler' = [handler EXCEPT !.pc = "probe", !.vend = p, !.reply = res]
    BY <1>5 DEF Purchase
  <2>3. handler'.pc = "probe" /\ handler'.vend = p /\ handler'.snap = handler.snap
    BY <2>2, <1>g DEF TypeOK, Handler
  <2>4. handler.snap = row
    BY <2>1 DEF SnapInv
  <2>5. row.superagent = Irecharge => p = <<Irecharge, row.reference>>
    BY <2>4 DEF PurchaseVend, DataReference, IsBaxi
  <2>6. OneThread' /\ ~Asking' /\ ~Waiting'
    BY <2>1, <2>3, <1>h
  <2>7. SnapInv'
    BY <2>1, <2>3, <2>4, <2>5 DEF SnapInv
  <2>8. ASSUME prompt PROVE OnceLive'
    <3>1. Live = {}
      BY <2>1, <2>8 DEF OnceLive, Settled
    <3>2. Live' \subseteq {p}
      BY <2>1, <3>1 DEF Carry, Live
    <3>3. ASSUME Live' # {} PROVE Settled'
      <4>1. handler'.msg = handler.msg /\ handler.msg.topic = "purchase"
        BY <2>1, <2>2, <1>g DEF TypeOK, Handler, HandlerInv
      <4> QED
        BY <2>3, <2>6, <3>2, <3>3, <4>1 DEF Settled, Waiting
    <3> QED
      BY <3>2, <3>3 DEF OnceLive
  <2> QED
    BY <2>1, <2>6, <2>7, <2>8
<1>6. ASSUME Probe PROVE Goal
  <2>1. /\ handler.pc = "probe" /\ Working
        /\ UNCHANGED <<row, queue, request, vendors>>
        /\ prompt' = (prompt /\ (handler'.pc = "save" \/ handler.vend \notin Live))
    BY <1>6 DEF Probe, Working
  <2>2. PICK pc \in {"save", "timer", "timedout", "choose"} : Moves(pc)
    BY <1>6, <1>a, ProbeGoes DEF HandlerPCs
  <2>3. OneThread' /\ ~Asking' /\ ~Waiting'
    BY <2>1, <2>2, <1>h DEF Moves
  <2>4. handler.snap = row /\ SnapInv'
    BY <2>1, <2>2 DEF SnapInv, Moves
  <2>5. ASSUME prompt', Live # {}, Settled PROVE Settled'
    <3>1. handler'.pc = "save" /\ handler.vend \in Live
      BY <2>1, <2>5 DEF Settled
    <3>2. row.superagent = Irecharge => <<Irecharge, row.reference>> \in Live
      BY <2>1, <3>1 DEF SnapInv
    <3>3. handler'.msg.topic # "switch"
      BY <2>1, <2>2, <2>5 DEF Settled, Moves
    <3> QED
      BY <2>1, <2>3, <3>1, <3>2, <3>3 DEF Settled, Live, Waiting
  <2> QED
    BY <2>1, <2>3, <2>4, <2>5, OnceKept
<1>7. ASSUME SaveToken PROVE Goal
  <2>1. /\ handler.pc = "save" /\ Working /\ Moves("announce")
        /\ UNCHANGED <<queue, request, vendors, prompt>>
        /\ row' = IF handler.snap.superagent = Irecharge
                  THEN [row EXCEPT !.access = handler.snap.reference] ELSE row
    BY <1>7, <1>a DEF SaveToken, Working, HandlerPCs
  <2>2. OneThread' /\ SnapInv' /\ ~Asking' /\ ~Waiting'
    BY <2>1, <1>h DEF Moves, SnapInv
  <2>3. ASSUME Live # {}, Settled PROVE Settled'
    <3>1. handler.snap = row /\ handler'.pc = "announce"
      BY <2>1 DEF SnapInv, Moves
    <3>2. /\ row'.superagent = row.superagent
          /\ row.superagent = Irecharge => row'.access = row.reference
      BY <2>1, <3>1, <1>g DEF TypeOK, Row
    <3>3. row.superagent = Irecharge => <<Irecharge, row.reference>> \in Live
      BY <2>1, <2>3 DEF Settled
    <3>4. handler'.msg.topic # "switch"
      BY <2>1, <2>3 DEF Settled, Moves
    <3> QED
      BY <2>1, <2>2, <2>3, <3>1, <3>2, <3>3, <3>4 DEF Settled, Live, Waiting
  <2> QED
    BY <2>1, <2>2, <2>3, OnceKept
<1>8. ASSUME Announce PROVE Goal
  <2>1. /\ handler.pc = "announce" /\ Working /\ Moves("commit") /\ Publish(ReceivedMessage)
        /\ UNCHANGED <<row, request, vendors, prompt>>
    BY <1>8, <1>a DEF Announce, Working, HandlerPCs
  <2>2. /\ OneThread' /\ SnapInv' /\ ~Asking' /\ ~Working'
        /\ \A x \in Messages : queue'[x] > 0 => x = ReceivedMessage
    BY <2>1, <1>m, MessagesSent
  <2>3. ASSUME Live # {}, Settled PROVE Settled'
    BY <2>1, <2>2, <2>3, <1>s, MessagesSent DEF Settled, Live, Moves
  <2> QED
    BY <2>1, <2>2, <2>3, OnceKept
<1>9. ASSUME Requery PROVE Goal
  <2> DEFINE v == handler.snap.superagent
  <2>1. /\ handler.pc = "ask" /\ Working
        /\ UNCHANGED <<row, queue, request, vendors, prompt>>
    BY <1>9 DEF Requery, Working
  <2>2. PICK r : Hears(r) /\ Goto(AfterRequery(v, Requeried(v, r)))
    BY <1>9 DEF Requery
  <2>3. AfterRequery(v, Requeried(v, r)) \in {"announce", "timer", "choose"}
    BY DEF AfterRequery
  <2>4. Moves(AfterRequery(v, Requeried(v, r)))
    BY <2>2, <2>3, <1>a DEF HandlerPCs
  <2>5. OneThread' /\ SnapInv' /\ ~Asking' /\ ~Waiting'
    BY <2>1, <2>3, <2>4, <1>h DEF Moves, SnapInv
  <2>6. ASSUME Live # {}, Settled PROVE Settled'
    <3>1. row.superagent = Irecharge => <<Irecharge, row.access>> \in Live
      BY <2>1, <2>6, <1>s
    <3>2. handler.snap = row
      BY <2>1 DEF SnapInv
    <3>3. v = Irecharge => Outcome(RequeryVend(handler.snap)) # "failed"
      BY <3>1, <3>2 DEF RequeryVend, Outcome, OutcomeIn, Live
    <3>4. PICK o \in Outcomes :
            r \in RequeryReplies(v, o) \cup NoAnswer /\ (v = Irecharge => o # "failed")
      BY <2>2, <3>3 DEF Hears, Outcomes, Outcome, OutcomeIn
    <3>5. AfterRequery(v, Requeried(v, r)) # "choose"
      BY <3>4, RequeryOfLive
    <3>6. handler'.pc \in {"announce", "timer"}
      BY <2>3, <2>4, <3>5 DEF Moves
    <3>7. handler'.msg.topic # "switch"
      BY <2>1, <2>4, <2>6 DEF Settled, Moves
    <3> QED
      BY <2>1, <2>5, <3>1, <3>6, <3>7 DEF Settled, Live, Waiting
  <2> QED
    BY <2>1, <2>5, <2>6, OnceKept
<1>10. ASSUME Complete \/ FlagTransaction PROVE Goal
  <2>1. /\ handler.pc \in {"complete", "timer", "timedout"} /\ Working /\ Moves("commit")
        /\ UNCHANGED <<row, queue, request, vendors, prompt>>
    BY <1>10, <1>a DEF Complete, FlagTransaction, Working, HandlerPCs
  <2>2. OneThread' /\ SnapInv' /\ ~Asking' /\ ~Waiting'
    BY <2>1, <1>h DEF Moves, SnapInv
  <2>3. ASSUME Live # {}, Settled PROVE Settled'
    BY <2>1, <2>2, <2>3, <1>s DEF Settled, Live, Moves, Waiting
  <2> QED
    BY <2>1, <2>2, <2>3, OnceKept
<1>11. ASSUME TriggerRequery PROVE Goal
  <2> DEFINE m == RequeryMessage(NextCount, NextRecord)
  <2>1. /\ handler.pc \in {"timer", "timedout"} /\ Working /\ Moves("commit") /\ Publish(m)
        /\ WithinLimit(NextCount) /\ UNCHANGED <<row, request, vendors, prompt>>
    BY <1>11, <1>a DEF TriggerRequery, Working, HandlerPCs
  <2>2. handler.msg \in Messages
    BY <2>1, <1>g DEF HandlerInv, Running
  <2>3. NextCount \in RetryCounts /\ NextRecord \in BOOLEAN
    <3>1. NextCount \in RetryCounts
      BY <2>1, <2>2, MessagesRead, LimitsAssumption DEF WithinLimit, NextCount, RetryCounts
    <3>2. NextRecord \in BOOLEAN
      BY <2>2, MessagesRead DEF NextRecord
    <3> QED
      BY <3>1, <3>2
  <2>4. m \in Messages /\ m.topic = "requery"
    BY <2>3, MessagesSent
  <2> HIDE DEF m
  <2>5. /\ OneThread' /\ SnapInv' /\ ~Asking' /\ ~Working'
        /\ \A x \in Messages : queue'[x] > 0 => x = m
    BY <2>1, <2>4, <1>m
  <2>6. ASSUME Live # {}, Settled PROVE Settled'
    BY <2>1, <2>4, <2>5, <2>6, <1>s DEF Settled, Live, Moves
  <2> QED
    BY <2>1, <2>5, <2>6, OnceKept
<1>12. ASSUME ChooseVendor \/ CannotRetry \/ WriteRetry \/ MoveToVendor PROVE Goal
  <2>1. /\ handler.pc \in {"choose", "write", "move"} /\ Working
        /\ UNCHANGED <<queue, request, vendors, prompt>>
    BY <1>12 DEF ChooseVendor, CannotRetry, WriteRetry, MoveToVendor, Working
  <2>2. handler'.pc \in {"write", "commit", "handover", "republish"}
    <3>1. ASSUME ChooseVendor PROVE handler'.pc = "write"
      <4>1. \E x : handler' = [handler EXCEPT !.pc = "write", !.next = x]
        BY <3>1 DEF ChooseVendor
      <4> QED
        BY <4>1, <1>g DEF TypeOK, Handler
    <3>2. ASSUME CannotRetry \/ WriteRetry \/ MoveToVendor
          PROVE  handler'.pc \in {"commit", "handover", "republish"}
      BY <3>2, <1>a, <1>b DEF CannotRetry, WriteRetry, MoveToVendor, Moves, HandlerPCs
    <3> QED
      BY <1>12, <3>1, <3>2
  <2>3. OneThread' /\ SnapInv'
    BY <2>1, <2>2, <1>h DEF SnapInv
  <2> QED
    BY <2>1, <2>3, OnceKept DEF Settled
<1>13. ASSUME HandOver \/ Republish PROVE Goal
  <2>1. /\ handler.pc \in {"handover", "republish"} /\ Working /\ Moves("commit")
        /\ UNCHANGED <<row, request, vendors, prompt>>
    BY <1>13, <1>a DEF HandOver, Republish, Working, HandlerPCs
  <2>2. \E m \in Messages : Publish(m)
    BY <1>13, <1>g, MessagesSent DEF HandOver, Republish, HandlerInv, Row
  <2>3. OneThread' /\ SnapInv'
    BY <2>1, <2>2, <1>m
  <2> QED
    BY <2>1, <2>3, OnceKept DEF Settled
<1>14. ASSUME NEW p \in pending, Decide(p) PROVE Goal
  <2>1. UNCHANGED <<row, queue, handler, request, prompt>>
    BY <1>14 DEF Decide
  <2>2. OneThread' /\ SnapInv'
    BY <2>1, ThreadStays DEF SnapInv, Asking, Working
  <2>3. ASSUME prompt PROVE OnceLive'
    <3>1. Live' \subseteq Live /\ p \in Live
      BY <1>14 DEF Decide, Live
    <3>2. Live = {p} /\ Settled
      BY <2>3, <3>1 DEF OnceLive
    <3>3. ASSUME Live' # {} PROVE Live' = Live
      BY <3>1, <3>2, <3>3
    <3>4. ASSUME Live' # {} PROVE Settled'
      BY <2>1, <3>2, <3>3, <3>4 DEF Settled, Asking, Waiting, Working
    <3> QED
      BY <3>1, <3>2, <3>4 DEF OnceLive
  <2> QED
    BY <2>1, <2>2, <2>3
<1>15. ASSUME Redeliver PROVE Goal
  <2>1. ~Acted /\ handler' # handler
    BY <1>15, Zenon DEF Redeliver
  <2>2. /\ UNCHANGED <<row, request, vendors, prompt>> /\ handler.pc # "idle"
        /\ queue' = [queue EXCEPT ![handler.msg] = @ + 1] /\ handler'.pc = "idle"
    BY <1>15, <2>1, IdleHandlerIdle DEF Redeliver
  <2>3. /\ Working
        /\ handler.msg.topic = "purchase" => handler.pc = "vend"
    BY <2>1, <2>2 DEF Acted, Working
  <2>4. handler.msg \in Messages /\ queue \in [Messages -> Nat]
    BY <2>2, <1>g DEF HandlerInv, Running, TypeOK
  <2>5. ~Asking /\ \A m \in Messages : queue[m] = 0
    BY <2>3, <2>4 DEF OneThread, Waiting
  <2>6. queue' \in [Messages -> Nat]
        /\ \A m \in Messages : queue'[m] > 0 => m = handler.msg /\ queue'[m] = 1
    BY <2>2, <2>4, <2>5
  <2>7. ~Asking' /\ ~Working'
    BY <2>2, <2>5 DEF Asking, Working
  <2>8. OneThread' /\ SnapInv'
    BY <2>2, <2>6, <2>7 DEF OneThread, SnapInv
  <2>9. ASSUME Live # {}, Settled PROVE Settled'
    <3>1. handler.msg.topic \in {"requery", "received"} /\ handler.pc \notin {"probe", "save"}
      BY <2>3, <2>4, <2>9, <1>g, MessagesRead DEF Settled, HandlerInv
    <3>2. row.superagent = Irecharge => <<Irecharge, row.access>> \in Live
      BY <2>3, <2>9, <3>1, <1>s
    <3> QED
      BY <2>2, <2>6, <2>7, <3>1, <3>2 DEF Settled, Live
  <2> QED
    BY <2>2, <2>8, <2>9, OnceKept
<1>16. ASSUME UNCHANGED vars PROVE Goal
  BY <1>16 DEF vars, OneThread, SnapInv, OnceLive, Settled, Live, Asking, Waiting, Working
<1> HIDE DEF Goal
<1>17. Goal
  BY <1>1, <1>2, <1>3, <1>4, <1>5, <1>6, <1>7, <1>8, <1>9, <1>10, <1>11, <1>12, <1>13, <1>14,
     <1>15, <1>16
  DEF Next, RequestStep, ProcessStep
<1> QED
  BY <1>17 DEF Goal

(* A request that was let through stays that, and so does a repeated handler. *)
LEMMA OnceGrows ==
  ASSUME TypeInv, [Next]_vars PROVE Accepted \subseteq Accepted' /\ (repeated => repeated')
<1>1. request \in [Requests -> RequestPCs]
  BY DEF TypeInv, TypeOK
<1>2. CASE \E q \in Requests : RequestStep(q)
  BY <1>1, <1>2
  DEF RequestStep, ReceiveRequest, CheckReference, SaveRequest, PublishRequest, Accepted
<1>3. CASE Redeliver
  BY <1>3, Zenon DEF Redeliver, Accepted
<1>4. CASE ProcessStep
  <2>1. UNCHANGED <<request, repeated>>
    BY <1>4
    DEF ProcessStep, Begin, Commit, Purchase, Probe, SaveToken, Announce, Requery, Complete,
        FlagTransaction, TriggerRequery, ChooseVendor, CannotRetry, WriteRetry, HandOver,
        MoveToVendor, Republish
  <2> QED
    BY <2>1 DEF Accepted
<1>5. CASE Throw \/ (\E p \in pending : Decide(p)) \/ UNCHANGED vars
  BY <1>5 DEF Throw, vars, Decide, Accepted
<1> QED
  BY <1>2, <1>3, <1>4, <1>5 DEF Next

LEMMA OnceStep == TypeInv /\ OnceInv /\ [Next]_vars => OnceInv'
<1> SUFFICES ASSUME TypeInv, OnceInv, [Next]_vars, ~repeated', Sole'
             PROVE  OneThread' /\ SnapInv' /\ (prompt' => OnceLive')
  BY DEF OnceInv
<1>1. ~repeated /\ Sole
  BY OnceGrows DEF Sole
<1> QED
  BY <1>1, OnceMoves DEF OnceInv

(* AtMostOneDelivery, for any number of requests: however often the partner    *)
(* asks for the bundle, through errors, lost messages, retries, switches of   *)
(* vendor and the crashes that repeat nothing, one payment is bought once     *)
(* while the requests come one by one and no vend is given up alive.         *)
THEOREM DataBoughtOnce == Spec => []AtMostOneDelivery
<1>1. TypeInv /\ OnceInv /\ [Next]_vars => OnceInv'
  BY OnceStep
<1>2. RefInv /\ OnceInv => AtMostOneDelivery
  BY DEF RefInv, OnceInv, OnceLive, AtMostOneDelivery, Live
<1> QED
  BY <1>1, <1>2, OnceInit, RefInit, RefStep, TypeInvariant, PTL DEF Spec
=============================================================================
