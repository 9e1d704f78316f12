--------------------------- MODULE AirtimeVendProofs ---------------------------
(***************************************************************************)
(* What holds of AirtimeVend for every set of vendors, every rate, every   *)
(* requery limit and every number of requests, confirmations, crashes and  *)
(* lost messages.                                                          *)
(*                                                                         *)
(* TypeInv says what a handler holds at each of its awaits; LimitInv       *)
(* follows a requery count through timer, message and handler; DeliveryInv *)
(* says that whoever is about to announce or complete does so for a        *)
(* purchase that was delivered, or after a reply of BAXI went unread;      *)
(* RefInv that one payment gets one request through the checks; OnceInv     *)
(* that a transaction with one such request waits for one thing at a time   *)
(* and, once a vend of it has gone through, for nothing that buys again.    *)
(***************************************************************************)
EXTENDS AirtimeVend, TLAPS

Running == handler.pc # "idle"

(* A running handler has a message and the row it read, and each kind of    *)
(* handler runs on its own topic.                                           *)
HandlerInv ==
  /\ Running => handler.msg \in Messages /\ handler.snap \in Row
  /\ handler.pc \in {"vend", "save"} => handler.msg.topic = "purchase"
  /\ handler.pc = "move" => handler.msg.topic = "switch"
  /\ handler.pc = "check" => handler.msg.topic = "received"
  /\ handler.pc = "handover" => handler.next \in Vendors

TypeInv == TypeOK /\ HandlerInv

USE DEF store, vendors, bounds, calls, repeats, history

(* getNextBestVendorForVendRePurchase returns a vendor of the product. *)
LEMMA NextVendorsIn ==
  ASSUME NEW c, NEW p PROVE NextVendors(c, p) \subseteq Vendors
BY DEF NextVendors, NextUnseen, Best

-----------------------------------------------------------------------------
(* The messages *)

LEMMA MessagesSent ==
  /\ PurchaseMessage \in Messages /\ PurchaseMessage.topic = "purchase"
  /\ ReceivedMessage \in Messages /\ ReceivedMessage.topic = "received"
  /\ \A n \in RetryCounts : /\ RequeryMessage(n) \in Messages
                            /\ RequeryMessage(n).topic = "requery"
                            /\ RequeryMessage(n).count = n
  /\ \A v \in Vendors : /\ SwitchMessage(v) \in Messages
                        /\ SwitchMessage(v).topic = "switch"
                        /\ SwitchMessage(v).vendor = v
BY DEF Messages, PurchaseMessage, ReceivedMessage, RequeryMessage, SwitchMessage

(* A message read back is one of those that are sent. *)
LEMMA MessagesRead ==
  ASSUME NEW m \in Messages
  PROVE  /\ m.topic \in {"purchase", "received", "requery", "switch"}
         /\ m.topic = "requery" => m.count \in RetryCounts /\ m = RequeryMessage(m.count)
         /\ m.topic = "switch" => m.vendor \in Vendors
         /\ m.topic = "received" => m = ReceivedMessage
BY DEF Messages, ReceivedMessage, RequeryMessage

(* Sending puts nothing into the queue but the message. *)
LEMMA PublishSends ==
  ASSUME TypeOK, NEW m \in Messages, Publish(m)
  PROVE  /\ queue' \in [Messages -> Nat]
         /\ \A x \in Messages : queue'[x] > 0 => queue[x] > 0 \/ x = m
         /\ faults' \in Nat /\ dropped' \in BOOLEAN
<1>1. queue \in [Messages -> Nat] /\ faults \in Nat /\ dropped \in BOOLEAN
  BY DEF TypeOK
<1>2. dropped' \in BOOLEAN
  BY <1>1, Zenon DEF Publish, Keep
<1>3. queue' = [queue EXCEPT ![m] = @ + 1] \/ queue' = queue
  BY Zenon DEF Publish
<1>4. faults' = faults \/ faults' = faults + 1
  BY Zenon DEF Publish, NoFault, Fault
<1> QED
  BY <1>1, <1>2, <1>3, <1>4

-----------------------------------------------------------------------------
(* The handler *)

(* The handler goes on with the message and the row it has. *)
Moves(pc) ==
  /\ handler' \in Handler
  /\ handler'.pc = pc
  /\ handler'.msg = handler.msg
  /\ handler'.snap = handler.snap
  /\ handler'.next = handler.next

LEMMA GotoMoves ==
  ASSUME TypeOK, NEW pc \in HandlerPCs, Goto(pc) PROVE Moves(pc)
BY DEF TypeOK, Handler, Goto, Moves

LEMMA DropMoves ==
  ASSUME TypeOK, Drop PROVE Moves("commit") /\ dropped' = TRUE
BY GotoMoves DEF Drop, HandlerPCs

(* Where a handler of any topic may go. *)
FreePCs == HandlerPCs \ {"idle", "vend", "save", "move", "check", "handover"}

(* It cannot end up anywhere its message does not allow. *)
LEMMA MovesKeep ==
  ASSUME TypeInv, Running, NEW pc \in HandlerPCs,
         pc \in FreePCs \/ (pc = "save" /\ handler.pc = "vend"),
         Moves(pc)
  PROVE  HandlerInv' /\ Running'
BY DEF TypeInv, HandlerInv, Running, Moves, FreePCs

LEMMA IdleHandlerIdle ==
  IdleHandler \in Handler /\ IdleHandler.pc = "idle"
BY DEF IdleHandler, Handler, HandlerPCs

LEMMA StaysIdle ==
  ASSUME handler' = IdleHandler PROVE handler' \in Handler /\ HandlerInv'
BY IdleHandlerIdle DEF HandlerInv, Running

LEMMA RestsInv == ASSUME TypeInv, UNCHANGED handler PROVE HandlerInv'
BY DEF TypeInv, HandlerInv, Running

-----------------------------------------------------------------------------
(* What the replies of the vendors tell *)

LEMMA PurchaseGoes ==
  ASSUME Purchase
  PROVE  Drop \/ \E pc \in {"save", "timer", "choose"} : Goto(pc) /\ Keep
BY DEF Purchase, AfterPurchase

LEMMA RequeryGoes ==
  ASSUME Requery
  PROVE  Drop \/ \E pc \in {"announce", "timer", "choose"} : Goto(pc) /\ Keep
BY DEF Requery, AfterRequery

LEMMA CheckGoes ==
  ASSUME CheckReceived
  PROVE  Drop \/ \E pc \in {"complete", "timer"} : Goto(pc) /\ Keep
BY DEF CheckReceived

(* A requery that finds no vend delivered is announced for BAXI only, and     *)
(* then BAXI did not say that it succeeded.                                  *)
LEMMA RequeryReplyTells ==
  ASSUME NEW v, NEW o \in Outcomes \ {"delivered"}, NEW r \in RequeryReplies(v, o),
         ~Thrown(Requeried(v, r)), AfterRequery(v, Requeried(v, r)) = "announce"
  PROVE  IsBaxi(v) /\ r.status # "success"
<1> USE NoneAssumption, VendorsAssumption
    DEF AfterRequery, PhoneRequeryReading, Requeried, Thrown, BuypowerRequery, IrechargeRequery,
        IrechargeVendStatus, BaxiRequery, ReturnedOrThrown, Returned, AxiosError, PlainError
<1>1. CASE v = Buypower
  <2>1. CASE o = "pending"
    <3>1. r = [ok |-> TRUE, code |-> "201", status |-> None, token |-> FALSE]
      BY <1>1, <2>1 DEF RequeryReplies, Reply
    <3> QED
      BY <1>1, <3>1 DEF Reply
  <2>2. CASE o = "failed"
    <3>1. r.ok = FALSE
      BY <1>1, <2>2 DEF RequeryReplies, Reply
    <3> QED
      BY <1>1, <3>1
  <2> QED
    BY <2>1, <2>2 DEF Outcomes
<1>2. CASE v = Irecharge
  <2>1. CASE o = "pending"
    <3>1. PICK c \in {"15", "43"} :
            r = [ok |-> TRUE, code |-> c, status |-> None, token |-> FALSE]
      BY <1>2, <2>1 DEF RequeryReplies, InProgress, Reply
    <3> QED
      BY <1>2, <3>1
  <2>2. CASE o = "failed"
    <3>1. PICK c \in {"02", "03"} :
            r = [ok |-> TRUE, code |-> c, status |-> None, token |-> FALSE]
      BY <1>2, <2>2 DEF RequeryReplies, Reply
    <3> QED
      BY <1>2, <3>1
  <2> QED
    BY <2>1, <2>2 DEF Outcomes
<1>3. CASE v \notin {Buypower, Irecharge}
  <2>1. r.status \in {"pending", "failed"}
    <3>1. CASE o = "pending"
      BY <1>3, <3>1 DEF RequeryReplies, Reply
    <3>2. CASE o = "failed"
      BY <1>3, <3>2 DEF RequeryReplies, Reply
    <3> QED
      BY <3>1, <3>2 DEF Outcomes
  <2> QED
    BY <1>3, <2>1 DEF IsBaxi
<1> QED
  BY <1>1, <1>2, <1>3

-----------------------------------------------------------------------------
LEMMA InitType == Init => TypeInv
<1> SUFFICES ASSUME Init PROVE TypeInv
  OBVIOUS
<1>1. row \in Row
  BY OpeningAssumption DEF Init, NewAirtimeRow, Row, PreviousVendors
<1>2. handler \in Handler /\ handler.pc = "idle"
  BY IdleHandlerIdle DEF Init
<1>3. TypeOK
  BY <1>1, <1>2 DEF Init, TypeOK, Statuses, RequestPCs, ConfirmPCs
<1> QED
  BY <1>2, <1>3 DEF TypeInv, HandlerInv, Running
(* Every step keeps the types. *)
LEMMA TypeStep == TypeInv /\ [Next]_vars => TypeInv'
<1> SUFFICES ASSUME TypeInv, [Next]_vars PROVE TypeInv'
  OBVIOUS
<1> DEFINE Rest ==
      /\ status \in Statuses
      /\ row \in Row
      /\ queue \in [Messages -> Nat]
      /\ timers \in [RetryCounts -> Nat]
      /\ request \in [Requests -> RequestPCs]
      /\ confirm \in [Confirmations -> ConfirmPCs]
      /\ pending \subseteq Vends /\ delivered \subseteq Vends
      /\ dropped \in BOOLEAN /\ prompt \in BOOLEAN /\ unread \in BOOLEAN
      /\ overlapped \in BOOLEAN /\ repeated \in BOOLEAN
      /\ nextKey \in Nat /\ faults \in Nat /\ crashes \in Nat
    HandlerPart == handler \in Handler /\ HandlerInv
<1>a. TypeInv' <=> Rest' /\ HandlerPart'
  BY DEF TypeInv, TypeOK
<1>b. Rest /\ HandlerPart
  BY DEF TypeInv, TypeOK
<1>c. ASSUME UNCHANGED handler PROVE HandlerPart'
  BY <1>b, <1>c, RestsInv
<1>d. ASSUME NEW pc \in HandlerPCs, Goto(pc), Running,
             pc \in FreePCs \/ (pc = "save" /\ handler.pc = "vend")
      PROVE  HandlerPart'
  BY <1>d, GotoMoves, MovesKeep DEF TypeInv, Moves
<1>e. ASSUME Drop, Running PROVE HandlerPart' /\ dropped' \in BOOLEAN
  BY <1>e, DropMoves, MovesKeep DEF TypeInv, Moves, HandlerPCs, FreePCs
<1>f. ASSUME handler' = IdleHandler PROVE HandlerPart'
  BY <1>f, StaysIdle
<1>g. TypeOK
  BY DEF TypeInv
<1>1. ASSUME NEW q \in Requests, ReceiveRequest(q) PROVE TypeInv'
  BY <1>1, <1>a, <1>b, <1>c DEF ReceiveRequest, RequestPCs
<1>2. ASSUME NEW q \in Requests, CheckReference(q) PROVE TypeInv'
  BY <1>2, <1>a, <1>b, <1>c DEF CheckReference, RequestPCs
<1>3. ASSUME NEW q \in Requests, SaveRequest(q) PROVE TypeInv'
  <2>1. overlapped' \in BOOLEAN
    BY <1>3, <1>b, Zenon DEF SaveRequest
  <2>2. faults' \in Nat
    BY <1>3, <1>b DEF SaveRequest, Fault, NoFault
  <2> QED
    BY <1>3, <2>1, <2>2, <1>a, <1>b, <1>c DEF SaveRequest, RequestPCs, Statuses
<1>4. ASSUME NEW q \in Requests, PublishRequest(q) PROVE TypeInv'
  BY <1>4, <1>a, <1>b, <1>c, <1>g, MessagesSent, PublishSends DEF PublishRequest, RequestPCs
<1>5. ASSUME Begin PROVE TypeInv'
  <2> PICK m \in Messages :
        /\ queue[m] > 0
        /\ queue' = [queue EXCEPT ![m] = @ - 1]
        /\ handler' = [IdleHandler EXCEPT !.msg = m, !.snap = row, !.pc =
             CASE m.topic = "purchase" -> "vend"
               [] m.topic = "requery"  -> "ask"
               [] m.topic = "switch"   -> "move"
               [] m.topic = "received" -> IF status = "COMPLETE" THEN "commit"
                                                                 ELSE "check"]
    BY <1>5 DEF Begin
  <2>1. Rest'
    BY <1>5, <1>b DEF Begin
  <2>2. HandlerPart'
    BY <1>b, MessagesRead DEF HandlerInv, Running, IdleHandler, Handler, HandlerPCs
  <2> QED
    BY <2>1, <2>2, <1>a
<1>6. ASSUME Commit PROVE TypeInv'
  BY <1>6, <1>a, <1>b, <1>f DEF Commit
<1>7. ASSUME Throw PROVE TypeInv'
  <2>1. Running
    BY <1>7 DEF Throw, Running
  <2> QED
    BY <1>7, <2>1, <1>a, <1>b, <1>e DEF Throw, Fault
<1>8. ASSUME Crash PROVE TypeInv'
  <2>1. dropped' \in BOOLEAN
    BY <1>8, <1>b, Zenon DEF Crash
  <2>2. repeated' \in BOOLEAN
    BY <1>8, <1>b, Zenon DEF Crash
  <2>3. Rest'
    BY <1>8, <1>b, <2>1, <2>2 DEF Crash, HandlerInv, Running
  <2> QED
    BY <1>8, <2>3, <1>a, <1>f DEF Crash
<1>9. ASSUME Purchase PROVE TypeInv'
  <2> DEFINE p == PurchaseVend(handler.snap)
  <2>1. Running /\ p \in Vends
    BY <1>9, <1>b DEF Purchase, HandlerInv, Running, PurchaseVend, AirtimeReference,
       Vends, Row
  <2>2. pending' \subseteq Vends /\ delivered' \subseteq Vends
    <3> HIDE DEF p
    <3> QED
      BY <1>9, <1>b, <2>1 DEF Purchase, Carry, p
  <2>4. HandlerPart' /\ dropped' \in BOOLEAN
    <3>1. handler.pc = "vend"
      BY <1>9 DEF Purchase
    <3> QED
      BY <3>1, <1>9, <1>b, <1>d, <1>e, <2>1, PurchaseGoes DEF HandlerPCs, FreePCs, Keep
  <2>5. faults' \in Nat /\ nextKey' \in Nat
    BY <1>9, <1>b DEF Purchase, Fault, NoFault
  <2>6. prompt' \in BOOLEAN
    <3> DEFINE final == handler'.pc = "save" \/ p \notin Live'
    <3>1. prompt' = (prompt /\ final)
      BY <1>9 DEF Purchase
    <3> HIDE DEF final
    <3> QED
      BY <3>1, <1>b, Zenon
  <2>7. unread' \in BOOLEAN
    <3> DEFINE early == handler'.pc = "save" /\ p \notin delivered'
    <3>1. unread' = (unread \/ early)
      BY <1>9 DEF Purchase
    <3> HIDE DEF early
    <3> QED
      BY <3>1, <1>b, Zenon
  <2> QED
    BY <1>9, <2>2, <2>4, <2>5, <2>6, <2>7, <1>a, <1>b DEF Purchase
<1>10. ASSUME SaveToken PROVE TypeInv'
  <2>1. Running /\ HandlerPart'
    BY <1>10, <1>b, <1>d DEF SaveToken, Running, HandlerPCs, FreePCs
  <2>2. row' \in Row
    BY <1>10, <1>b DEF SaveToken, Row
  <2> QED
    BY <1>10, <2>1, <2>2, <1>a, <1>b DEF SaveToken
<1>11. ASSUME Announce PROVE TypeInv'
  <2>1. Running
    BY <1>11 DEF Announce, Running
  <2> QED
    BY <1>11, <2>1, <1>a, <1>b, <1>d, <1>g, MessagesSent, PublishSends
    DEF Announce, HandlerPCs, FreePCs
<1>12. ASSUME Requery PROVE TypeInv'
  <2>3. Running
    BY <1>12 DEF Requery, Running
  <2>4. HandlerPart' /\ dropped' \in BOOLEAN
    BY <1>12, <2>3, <1>b, <1>d, <1>e, RequeryGoes DEF Keep, HandlerPCs, FreePCs
  <2>5. faults' \in Nat
    BY <1>12, <1>b DEF Requery, Hears, Fault, NoFault
  <2>6. unread' \in BOOLEAN
    BY <1>12, <1>b, Zenon DEF Requery
  <2> QED
    BY <1>12, <2>4, <2>5, <2>6, <1>a, <1>b DEF Requery
<1>13. ASSUME CheckReceived PROVE TypeInv'
  <2>3. Running
    BY <1>13 DEF CheckReceived, Running
  <2>4. HandlerPart' /\ dropped' \in BOOLEAN
    BY <1>13, <2>3, <1>b, <1>d, <1>e, CheckGoes DEF Keep, HandlerPCs, FreePCs
  <2>5. faults' \in Nat
    BY <1>13, <1>b DEF CheckReceived, Hears, Fault, NoFault
  <2> QED
    BY <1>13, <2>4, <2>5, <1>a, <1>b DEF CheckReceived
<1>14. ASSUME Complete PROVE TypeInv'
  BY <1>14, <1>a, <1>b, <1>d DEF Complete, Running, HandlerPCs, FreePCs, Statuses
<1>15. ASSUME FlagTransaction PROVE TypeInv'
  BY <1>15, <1>a, <1>b, <1>d DEF FlagTransaction, AfterTimer, Running, HandlerPCs, FreePCs, Statuses
<1>16. ASSUME StartTimer PROVE TypeInv'
  <2>1. timers' \in [RetryCounts -> Nat]
    <3> DEFINE n == NextCount
    <3>1. timers' = [timers EXCEPT ![n] = @ + 1]
      BY <1>16 DEF StartTimer
    <3> HIDE DEF n
    <3>2. CASE n \in RetryCounts
      BY <3>1, <3>2, <1>b
    <3>3. CASE n \notin RetryCounts
      BY <3>1, <3>3, <1>b, timers' = timers
    <3> QED
      BY <3>2, <3>3
  <2>2. HandlerPart'
    BY <1>16, <1>b, <1>d DEF StartTimer, AfterTimer, Running, HandlerPCs, FreePCs
  <2> QED
    BY <1>16, <2>1, <2>2, <1>a, <1>b DEF StartTimer
<1>17. ASSUME NEW n \in RetryCounts, TimerFires(n) PROVE TypeInv'
  <2>1. timers' \in [RetryCounts -> Nat]
    BY <1>17, <1>b DEF TimerFires
  <2> QED
    BY <1>17, <2>1, <1>a, <1>b, <1>c, <1>g, MessagesSent, PublishSends DEF TimerFires
<1>18. ASSUME ChooseVendor PROVE TypeInv'
  <2> DEFINE t == handler.snap
             next == NextVendors(t.superagent, t.previous)
  <2>1. t \in Row /\ Running
    BY <1>18, <1>b DEF ChooseVendor, HandlerInv, Running
  <2>2. CASE next = {}
    BY <1>18, <2>1, <2>2, <1>a, <1>b, <1>e DEF ChooseVendor
  <2>3. CASE next # {}
    <3>1. PICK v \in next :
            /\ row' = [row EXCEPT !.previous = [seen |-> t.previous.seen \cup {v},
                                                len  |-> t.previous.len + 1]]
            /\ handler' = [handler EXCEPT !.pc = "handover", !.next = v]
            /\ UNCHANGED dropped
      BY <1>18, <2>3 DEF ChooseVendor, Keep
    <3>2. v \in Vendors
      BY NextVendorsIn
    <3>3. [seen |-> t.previous.seen \cup {v}, len |-> t.previous.len + 1] \in PreviousVendors
      BY <2>1, <3>2 DEF Row, PreviousVendors
    <3>4. row' \in Row
      BY <3>1, <3>3, <1>b DEF Row
    <3>5. HandlerPart'
      <4>1. /\ handler' \in Handler /\ handler'.pc = "handover" /\ handler'.next = v
            /\ handler'.msg = handler.msg /\ handler'.snap = t
        BY <3>1, <3>2, <1>b DEF Handler, HandlerPCs, FreePCs
      <4> QED
        BY <4>1, <2>1, <3>2, <1>b DEF HandlerInv, Running
    <3> QED
      BY <1>18, <3>1, <3>4, <3>5, <1>a, <1>b DEF ChooseVendor
  <2> QED
    BY <2>2, <2>3
<1>20. ASSUME HandOver PROVE TypeInv'
  <2>1. Running /\ handler.next \in Vendors
    BY <1>20, <1>b DEF HandOver, Running, HandlerInv
  <2> QED
    BY <1>20, <2>1, <1>a, <1>b, <1>d, <1>g, MessagesSent, PublishSends
    DEF HandOver, HandlerPCs, FreePCs
<1>21. ASSUME MoveToVendor PROVE TypeInv'
  <2>1. Running /\ handler.msg.vendor \in Vendors
    BY <1>21, <1>b, MessagesRead DEF MoveToVendor, Running, HandlerInv
  <2>2. row' \in Row
    BY <1>21, <1>b, <2>1 DEF MoveToVendor, Row
  <2> QED
    BY <1>21, <2>1, <2>2, <1>a, <1>b, <1>d DEF MoveToVendor, HandlerPCs, FreePCs
<1>22. ASSUME Republish PROVE TypeInv'
  <2>1. Running
    BY <1>22 DEF Republish, Running
  <2> QED
    BY <1>22, <2>1, <1>a, <1>b, <1>d, <1>g, MessagesSent, PublishSends
    DEF Republish, HandlerPCs, FreePCs
<1>23. ASSUME NEW p \in pending, Decide(p) PROVE TypeInv'
  BY <1>23, <1>a, <1>b, <1>c DEF Decide
<1>24. ASSUME NEW c \in Confirmations, ConfirmStep(c) PROVE TypeInv'
  BY <1>24, <1>a, <1>b, <1>c
  DEF ConfirmStep, LogConfirmation, SaveConfirmation, ConfirmPCs, Statuses
<1>25. ASSUME UNCHANGED vars PROVE TypeInv'
  BY <1>25, <1>a, <1>b, <1>c DEF vars
<1> HIDE DEF Rest, HandlerPart
<1> QED
  BY <1>1, <1>2, <1>3, <1>4, <1>5, <1>6, <1>7, <1>8, <1>9, <1>10, <1>11, <1>12, <1>13, <1>14,
     <1>15, <1>16, <1>17, <1>18, <1>20, <1>21, <1>22, <1>23, <1>24, <1>25
  DEF Next, RequestStep, ProcessStep

LEMMA TypeInvariant == Spec => []TypeInv
BY InitType, TypeStep, PTL DEF Spec

(* TypeOK: every variable has its type, whatever the vendors answer. *)
THEOREM AirtimeTypes == Spec => []TypeOK
<1>1. TypeInv => TypeOK
  BY DEF TypeInv
<1> QED
  BY <1>1, TypeInvariant, PTL

-----------------------------------------------------------------------------
(* The requery count *)

(* Every count on its way is below the limit. *)
LimitInv ==
  /\ \A m \in Messages : queue[m] > 0 /\ m.topic = "requery" => m.count < MaxRequery
  /\ Running /\ handler.msg.topic = "requery" => handler.msg.count < MaxRequery
  /\ \A n \in RetryCounts : timers[n] > 0 => n < MaxRequery

(* A step that starts no requery brings none above the limit. *)
LEMMA LimitKept ==
  ASSUME LimitInv, UNCHANGED timers,
         \A m \in Messages : queue'[m] > 0 => queue[m] > 0 \/ m.topic # "requery",
         handler'.pc = "idle" \/ (Running /\ handler'.msg = handler.msg) \/ UNCHANGED handler
  PROVE  LimitInv'
BY DEF LimitInv, Running

LEMMA LimitInit == TypeInv /\ Init => LimitInv
BY IdleHandlerIdle DEF LimitInv, Init, Running

LEMMA LimitStep == TypeInv /\ LimitInv /\ [Next]_vars => LimitInv'
<1> SUFFICES ASSUME TypeInv, LimitInv, [Next]_vars PROVE LimitInv'
  OBVIOUS
<1>g. TypeOK /\ HandlerInv
  BY DEF TypeInv
<1>a. ASSUME NEW pc \in HandlerPCs, Goto(pc) PROVE handler'.msg = handler.msg
  BY <1>a, <1>g, GotoMoves DEF Moves
<1>b. ASSUME Drop PROVE handler'.msg = handler.msg
  BY <1>b, <1>g, DropMoves DEF Moves
<1>c. ASSUME NEW m \in {PurchaseMessage, ReceivedMessage}, Publish(m)
      PROVE  \A x \in Messages : queue'[x] > 0 => queue[x] > 0 \/ x.topic # "requery"
  BY <1>c, <1>g, MessagesSent, PublishSends
<1>1. ASSUME NEW q \in Requests, ReceiveRequest(q) \/ CheckReference(q) \/ SaveRequest(q)
      PROVE  LimitInv'
  BY <1>1, LimitKept DEF ReceiveRequest, CheckReference, SaveRequest
<1>2. ASSUME NEW q \in Requests, PublishRequest(q) PROVE LimitInv'
  BY <1>2, <1>c, LimitKept DEF PublishRequest
<1>3. ASSUME Begin PROVE LimitInv'
  <2>1. PICK m \in Messages :
          queue[m] > 0 /\ queue' = [queue EXCEPT ![m] = @ - 1] /\ handler'.msg = m
    <3>1. IdleHandler \in Handler
      BY IdleHandlerIdle
    <3> QED
      BY <1>3, <3>1 DEF Begin, Handler
  <2>2. \A x \in Messages : queue'[x] > 0 => queue[x] > 0
    BY <2>1, <1>g DEF TypeOK
  <2> QED
    BY <1>3, <2>1, <2>2 DEF Begin, LimitInv, Running
<1>4. ASSUME Commit PROVE LimitInv'
  BY <1>4, LimitKept, IdleHandlerIdle DEF Commit
<1>5. ASSUME Throw PROVE LimitInv'
  BY <1>5, <1>b, LimitKept DEF Throw, Running
<1>6. ASSUME Crash PROVE LimitInv'
  <2>1. handler'.pc = "idle" /\ \A n \in RetryCounts : timers'[n] = 0
    BY <1>6, IdleHandlerIdle DEF Crash
  <2>2. \A x \in Messages : queue'[x] > 0 => queue[x] > 0 \/ (Running /\ x = handler.msg)
    BY <1>6, <1>g DEF Crash, TypeOK, HandlerInv, Running
  <2> QED
    BY <2>1, <2>2 DEF LimitInv, Running
<1>7. ASSUME Purchase PROVE LimitInv'
  <2>1. handler'.msg = handler.msg
    BY <1>7, <1>a, <1>b, PurchaseGoes DEF HandlerPCs
  <2> QED
    BY <1>7, <2>1, LimitKept DEF Purchase, Running
<1>8. ASSUME SaveToken \/ Complete \/ MoveToVendor PROVE LimitInv'
  BY <1>8, <1>a, LimitKept DEF SaveToken, Complete, MoveToVendor, Running, HandlerPCs
<1>9. ASSUME Announce \/ Republish PROVE LimitInv'
  BY <1>9, <1>a, <1>c, LimitKept DEF Announce, Republish, Running, HandlerPCs
<1>10. ASSUME HandOver PROVE LimitInv'
  <2>1. \A x \in Messages : queue'[x] > 0 => queue[x] > 0 \/ x.topic # "requery"
    BY <1>10, <1>g, MessagesSent, PublishSends DEF HandOver, HandlerInv
  <2> QED
    BY <1>10, <2>1, <1>a, LimitKept DEF HandOver, Running, HandlerPCs
<1>11. ASSUME Requery PROVE LimitInv'
  <2>1. handler'.msg = handler.msg
    BY <1>11, <1>a, <1>b, RequeryGoes DEF HandlerPCs
  <2> QED
    BY <1>11, <2>1, LimitKept DEF Requery, Running
<1>12. ASSUME CheckReceived PROVE LimitInv'
  <2>1. handler'.msg = handler.msg
    BY <1>12, <1>a, <1>b, CheckGoes DEF HandlerPCs
  <2> QED
    BY <1>12, <2>1, LimitKept DEF CheckReceived, Running
<1>13. ASSUME FlagTransaction PROVE LimitInv'
  BY <1>13, <1>a, LimitKept DEF FlagTransaction, AfterTimer, Running, HandlerPCs
<1>14. ASSUME StartTimer PROVE LimitInv'
  <2>1. Running /\ handler'.msg = handler.msg
    BY <1>14, <1>a DEF StartTimer, AfterTimer, Running, HandlerPCs
  <2>2. \A n \in RetryCounts : timers'[n] > 0 => timers[n] > 0 \/ n < MaxRequery
    BY <1>14, <1>g DEF StartTimer, TypeOK, WithinLimit
  <2> QED
    BY <1>14, <2>1, <2>2 DEF StartTimer, LimitInv, Running
<1>15. ASSUME NEW n \in RetryCounts, TimerFires(n) PROVE LimitInv'
  <2>1. n < MaxRequery
    BY <1>15 DEF TimerFires, LimitInv
  <2>2. \A x \in Messages : queue'[x] > 0 => queue[x] > 0 \/ x = RequeryMessage(n)
    BY <1>15, <1>g, MessagesSent, PublishSends DEF TimerFires
  <2>3. \A k \in RetryCounts : timers'[k] > 0 => timers[k] > 0
    BY <1>15, <1>g DEF TimerFires, TypeOK
  <2> QED
    BY <1>15, <2>1, <2>2, <2>3, MessagesSent DEF TimerFires, LimitInv, Running
<1>16. ASSUME ChooseVendor PROVE LimitInv'
  <2>1. handler'.msg = handler.msg
    BY <1>16, <1>b, <1>g DEF ChooseVendor, TypeOK, Handler
  <2> QED
    BY <1>16, <2>1, LimitKept DEF ChooseVendor, Running
<1>17. ASSUME (\E p \in pending : Decide(p)) \/ UNCHANGED vars PROVE LimitInv'
  BY <1>17, LimitKept DEF Decide, vars
<1>18. ASSUME NEW c \in Confirmations, ConfirmStep(c) PROVE LimitInv'
  BY <1>18, LimitKept DEF ConfirmStep, LogConfirmation, SaveConfirmation
<1> QED
  BY <1>1, <1>2, <1>3, <1>4, <1>5, <1>6, <1>7, <1>8, <1>9, <1>10, <1>11, <1>12, <1>13, <1>14,
     <1>15, <1>16, <1>17, <1>18
  DEF Next, RequestStep, ProcessStep

(* RequeriesWithinLimit: no purchase is requeried MAX_REQUERY_PER_VENDOR times *)
(* or more, however often its messages come back after a crash.             *)
THEOREM AirtimeRequeries == Spec => []RequeriesWithinLimit
<1>1. TypeInv /\ LimitInv => RequeriesWithinLimit
  BY MessagesSent DEF TypeInv, TypeOK, LimitInv, RequeriesWithinLimit
<1>2. TypeInv /\ [Next]_vars => TypeInv'
  BY TypeStep
<1> QED
  BY <1>1, <1>2, InitType, LimitInit, LimitStep, PTL DEF Spec

-----------------------------------------------------------------------------
(* The purchase behind an announcement *)

(* Somebody called confirmPayment, and the row has been written. *)
HasConfirmed == \E c \in Confirmations : confirm[c] = "done"

(* Before anything is delivered no handler says that it is, unless a reply of *)
(* BAXI went unread.                                                         *)
DeliveryInv ==
  delivered = {} /\ ~unread =>
    /\ status = "COMPLETE" => HasConfirmed
    /\ queue[ReceivedMessage] = 0
    /\ Running => handler.msg.topic # "received"
    /\ handler.pc \notin {"save", "announce", "complete"}

(* A step that announces nothing, by a handler with nothing to announce. *)
LEMMA DeliveryKept ==
  ASSUME TypeInv, DeliveryInv, queue' \in [Messages -> Nat],
         delivered \subseteq delivered', unread => unread', UNCHANGED confirm,
         delivered' = {} /\ ~unread' =>
           /\ status' \in {status, "PENDING", "FLAGGED"}
           /\ queue'[ReceivedMessage] > 0 => queue[ReceivedMessage] > 0
           /\ \/ handler'.pc = "idle"
              \/ UNCHANGED handler
              \/ /\ Running /\ handler'.msg = handler.msg
                 /\ handler'.pc \notin {"save", "announce", "complete"}
  PROVE  DeliveryInv'
BY MessagesSent DEF TypeInv, TypeOK, DeliveryInv, HasConfirmed, Running, Statuses

LEMMA DeliveryInit == Init => DeliveryInv
BY IdleHandlerIdle, MessagesSent DEF Init, DeliveryInv, Running

LEMMA DeliveryStep == TypeInv /\ DeliveryInv /\ [Next]_vars => DeliveryInv'
<1> SUFFICES ASSUME TypeInv, DeliveryInv, [Next]_vars PROVE DeliveryInv'
  OBVIOUS
<1>g. TypeOK /\ HandlerInv /\ TypeInv'
  BY TypeStep DEF TypeInv
<1>q. queue' \in [Messages -> Nat]
  BY <1>g DEF TypeInv, TypeOK
<1>a. ASSUME NEW pc \in HandlerPCs, Goto(pc)
      PROVE  handler'.msg = handler.msg /\ handler'.pc = pc
  BY <1>a, <1>g, GotoMoves DEF Moves
<1>b. ASSUME Drop PROVE handler'.msg = handler.msg /\ handler'.pc = "commit"
  BY <1>b, <1>g, DropMoves DEF Moves
<1>c. ASSUME NEW m \in Messages, m.topic # "received", Publish(m)
      PROVE  queue'[ReceivedMessage] > 0 => queue[ReceivedMessage] > 0
  BY <1>c, <1>g, MessagesSent, PublishSends
<1>d. ASSUME NEW r, Hears(r), delivered = {}
      PROVE  \E o \in Outcomes \ {"delivered"} : r \in RequeryReplies(handler.snap.superagent, o)
  <2>1. Outcome(RequeryVend(handler.snap)) \in Outcomes \ {"delivered"}
    BY <1>d DEF Outcome, OutcomeIn, Outcomes
  <2> QED
    BY <1>d, <2>1 DEF Hears, Outcomes
<1>1. ASSUME NEW q \in Requests, ReceiveRequest(q) \/ CheckReference(q) \/ SaveRequest(q)
      PROVE  DeliveryInv'
  BY <1>1, <1>q, DeliveryKept DEF ReceiveRequest, CheckReference, SaveRequest
<1>2. ASSUME NEW q \in Requests, PublishRequest(q) PROVE DeliveryInv'
  BY <1>2, <1>c, <1>q, MessagesSent, DeliveryKept DEF PublishRequest
<1>3. ASSUME Begin PROVE DeliveryInv'
  <2>1. PICK m \in Messages :
          /\ queue[m] > 0
          /\ queue' = [queue EXCEPT ![m] = @ - 1]
          /\ handler'.msg = m
          /\ handler'.pc \in {"vend", "ask", "move", "commit", "check"}
    <3>1. IdleHandler \in Handler
      BY IdleHandlerIdle
    <3> QED
      BY <1>3, <3>1, MessagesRead DEF Begin, Handler
  <2>2. queue'[ReceivedMessage] > 0 => queue[ReceivedMessage] > 0
    BY <2>1, <1>g, MessagesSent DEF TypeOK
  <2>3. delivered = {} /\ ~unread => m.topic # "received"
    BY <2>1, MessagesRead DEF DeliveryInv
  <2>4. UNCHANGED <<status, confirm, delivered, unread>>
    BY <1>3 DEF Begin
  <2> QED
    BY <1>q, <2>1, <2>2, <2>3, <2>4, MessagesSent DEF DeliveryInv, HasConfirmed, Running
<1>4. ASSUME Commit PROVE DeliveryInv'
  BY <1>4, <1>q, DeliveryKept, IdleHandlerIdle DEF Commit
<1>5. ASSUME Throw PROVE DeliveryInv'
  BY <1>5, <1>b, <1>q, DeliveryKept DEF Throw, Running
<1>6. ASSUME Crash PROVE DeliveryInv'
  <2>1. handler'.pc = "idle"
    BY <1>6, IdleHandlerIdle DEF Crash
  <2>2. delivered = {} /\ ~unread /\ queue'[ReceivedMessage] > 0 => queue[ReceivedMessage] > 0
    BY <1>6, <1>g, MessagesSent DEF Crash, TypeOK, HandlerInv, Running, DeliveryInv
  <2> QED
    BY <1>6, <1>q, <2>1, <2>2, DeliveryKept DEF Crash
<1>7. ASSUME Purchase PROVE DeliveryInv'
  <2> DEFINE p == PurchaseVend(handler.snap)
  <2>1. delivered \subseteq delivered'
    BY <1>7 DEF Purchase, Carry
  <2>2. handler'.msg = handler.msg /\ handler'.pc \in {"save", "timer", "choose", "commit"}
    BY <1>7, <1>a, <1>b, PurchaseGoes DEF HandlerPCs
  <2> HIDE DEF p
  <2>3. (unread => unread') /\ (handler'.pc = "save" => p \in delivered' \/ unread')
    BY <1>7, Zenon DEF Purchase, p
  <2>4. Running /\ UNCHANGED <<status, queue, confirm>>
    BY <1>7 DEF Purchase, Running
  <2>5. delivered' = {} /\ ~unread' => handler'.pc # "save"
    BY <2>3
  <2> QED
    BY <1>q, <2>1, <2>2, <2>3, <2>4, <2>5, DeliveryKept
<1>8. ASSUME SaveToken \/ Announce \/ Complete PROVE DeliveryInv'
  <2>1. delivered' # {} \/ unread'
    BY <1>8 DEF SaveToken, Announce, Complete, DeliveryInv
  <2> QED
    BY <2>1 DEF DeliveryInv
<1>9. ASSUME MoveToVendor PROVE DeliveryInv'
  BY <1>9, <1>a, <1>q, DeliveryKept DEF MoveToVendor, Running, HandlerPCs
<1>10. ASSUME HandOver \/ Republish PROVE DeliveryInv'
  <2>1. queue'[ReceivedMessage] > 0 => queue[ReceivedMessage] > 0
    BY <1>10, <1>c, <1>g, MessagesSent DEF HandOver, Republish, HandlerInv
  <2> QED
    BY <1>10, <1>a, <1>q, <2>1, DeliveryKept DEF HandOver, Republish, Running, HandlerPCs
<1>11. ASSUME Requery PROVE DeliveryInv'
  <2> DEFINE v == handler.snap.superagent
  <2>1. PICK r \in AnyRequeryReply(v) :
          /\ Hears(r)
          /\ IF Thrown(Requeried(v, r)) THEN Drop
             ELSE Goto(AfterRequery(v, Requeried(v, r))) /\ Keep
          /\ unread' = (unread \/ (IsBaxi(v) /\ r.status # "success"))
    BY <1>11 DEF Requery
  <2>2. Running /\ UNCHANGED <<status, queue, confirm, delivered>>
    BY <1>11 DEF Requery, Running
  <2>3. (unread => unread') /\ (IsBaxi(v) /\ r.status # "success" => unread')
    BY <2>1, Zenon
  <2>4. delivered = {} /\ ~unread' /\ ~Thrown(Requeried(v, r)) =>
          AfterRequery(v, Requeried(v, r)) \in {"timer", "choose"}
    <3>1. SUFFICES ASSUME delivered = {}, ~unread', ~Thrown(Requeried(v, r))
                   PROVE  AfterRequery(v, Requeried(v, r)) # "announce"
      BY DEF AfterRequery
    <3>2. PICK o \in Outcomes \ {"delivered"} : r \in RequeryReplies(v, o)
      BY <2>1, <3>1, <1>d
    <3> QED
      BY <2>3, <3>1, <3>2, RequeryReplyTells
  <2>5. delivered = {} /\ ~unread' =>
          handler'.msg = handler.msg /\ handler'.pc \in {"timer", "choose", "commit"}
    BY <2>1, <2>4, <1>a, <1>b DEF HandlerPCs
  <2> QED
    BY <1>q, <2>2, <2>3, <2>5, DeliveryKept
<1>12. ASSUME CheckReceived PROVE DeliveryInv'
  <2>1. delivered' # {} \/ unread'
    BY <1>12, <1>g DEF CheckReceived, HandlerInv, DeliveryInv, Running
  <2> QED
    BY <2>1 DEF DeliveryInv
<1>13. ASSUME FlagTransaction \/ StartTimer PROVE DeliveryInv'
  <2>1. delivered = {} /\ ~unread => AfterTimer = "commit"
    BY <1>13 DEF FlagTransaction, StartTimer, AfterTimer, DeliveryInv, Running
  <2> QED
    BY <1>13, <1>a, <1>q, <2>1, DeliveryKept DEF FlagTransaction, StartTimer, Running, HandlerPCs
<1>14. ASSUME NEW n \in RetryCounts, TimerFires(n) PROVE DeliveryInv'
  BY <1>14, <1>c, <1>q, MessagesSent, DeliveryKept DEF TimerFires
<1>15. ASSUME ChooseVendor PROVE DeliveryInv'
  <2>1. handler'.msg = handler.msg /\ handler'.pc \in {"handover", "commit"}
    BY <1>15, <1>b, <1>g DEF ChooseVendor, TypeOK, Handler
  <2> QED
    BY <1>15, <1>q, <2>1, DeliveryKept DEF ChooseVendor, Running
<1>16. ASSUME (\E p \in pending : Decide(p)) \/ UNCHANGED vars PROVE DeliveryInv'
  BY <1>16, <1>q, DeliveryKept DEF Decide, vars
<1>17. ASSUME NEW c \in Confirmations, LogConfirmation(c) PROVE DeliveryInv'
  <2>1. HasConfirmed => HasConfirmed'
    BY <1>17, <1>g DEF LogConfirmation, HasConfirmed, TypeOK
  <2> QED
    BY <1>17, <2>1 DEF LogConfirmation, DeliveryInv, Running
<1>18. ASSUME NEW c \in Confirmations, SaveConfirmation(c) PROVE DeliveryInv'
  <2>1. HasConfirmed'
    BY <1>18, <1>g DEF SaveConfirmation, HasConfirmed, TypeOK
  <2> QED
    BY <1>18, <2>1 DEF SaveConfirmation, DeliveryInv, Running
<1> QED
  BY <1>1, <1>2, <1>3, <1>4, <1>5, <1>6, <1>7, <1>8, <1>9, <1>10, <1>11, <1>12, <1>13, <1>14,
     <1>15, <1>16, <1>17, <1>18
  DEF Next, RequestStep, ConfirmStep, ProcessStep

(* CompleteUnlessConfirmed: any number of requests, crashes and lost messages *)
(* leaves no transaction COMPLETE that no vendor delivered, unless somebody   *)
(* called confirmPayment for it or a reply of BAXI was announced without being *)
(* a success.                                                                *)
THEOREM AirtimeCompleteDelivered == Spec => []CompleteUnlessConfirmed
<1>1. DeliveryInv => CompleteUnlessConfirmed
  BY DEF DeliveryInv, HasConfirmed, CompleteUnlessConfirmed
<1>2. TypeInv /\ [Next]_vars => TypeInv'
  BY TypeStep
<1>3. TypeInv /\ DeliveryInv /\ [Next]_vars => DeliveryInv'
  BY DeliveryStep
<1> QED
  BY <1>1, <1>2, <1>3, InitType, DeliveryInit, PTL DEF Spec

-----------------------------------------------------------------------------
(* The log is ahead of the row *)

(* What log l says before message m is sent: received, that some vendor      *)
(* delivered; switch, that the transaction goes to the vendor of m.           *)
Moved(v, l) == \E u \in Vendors : AirtimeNewVendor(u, v) \in l
Told(l)     == \E v \in Vendors : {AirtimeReceived(v), AirtimeTransactionRequery(v)} \cap l # {}

Backed(m, l) ==
  /\ m.topic = "received" => Told(l)
  /\ m.topic = "switch" => Moved(m.vendor, l)

LogInv ==
  /\ \A m \in Messages : queue[m] > 0 => Backed(m, log)
  /\ Running => Backed(handler.msg, log)
  /\ handler.pc = "handover" => Moved(handler.next, log)
  /\ handler.pc = "complete" => handler.msg.topic = "received"
  /\ Confirmed # {} => AirtimePurchaseConfirmed \in log

LEMMA BackedStays ==
  ASSUME NEW m, NEW l, NEW k, l \subseteq k, Backed(m, l) PROVE Backed(m, k)
BY DEF Backed, Told, Moved

(* A step of a handler that goes on with its message, or of nobody's.         *)
LEMMA LogKept ==
  ASSUME TypeInv, LogInv, log \subseteq log', UNCHANGED confirm,
         \A m \in Messages : queue'[m] > 0 => queue[m] > 0 \/ Backed(m, log'),
         \/ handler'.pc = "idle"
         \/ UNCHANGED handler
         \/ /\ Running /\ handler'.msg = handler.msg
            /\ handler'.pc # "handover"
            /\ handler'.pc = "complete" => handler.msg.topic = "received"
  PROVE  LogInv'
<1>1. \A m \in Messages : queue'[m] > 0 => Backed(m, log')
  BY BackedStays DEF LogInv
<1>5. (Confirmed # {} => AirtimePurchaseConfirmed \in log)'
  BY DEF LogInv, Confirmed
<1>2. CASE handler'.pc = "idle"
  BY <1>1, <1>2, <1>5 DEF LogInv, Running
<1>3. CASE UNCHANGED handler
  <2>1. Running => Backed(handler.msg, log')
    BY BackedStays DEF LogInv
  <2>2. handler.pc = "handover" => Moved(handler.next, log')
    BY DEF LogInv, Moved
  <2> QED
    BY <1>1, <1>3, <1>5, <2>1, <2>2 DEF LogInv, Running
<1>4. CASE /\ Running /\ handler'.msg = handler.msg
           /\ handler'.pc # "handover"
           /\ handler'.pc = "complete" => handler.msg.topic = "received"
  <2>1. Backed(handler'.msg, log')
    BY <1>4, BackedStays DEF LogInv
  <2> QED
    BY <1>1, <1>4, <1>5, <2>1 DEF LogInv, Running
<1> QED
  BY <1>2, <1>3, <1>4

LEMMA LogInit == Init => LogInv
BY IdleHandlerIdle DEF Init, LogInv, Confirmed, Running

LEMMA LogStep == TypeInv /\ LogInv /\ [Next]_vars => LogInv'
<1> SUFFICES ASSUME TypeInv, LogInv, [Next]_vars PROVE LogInv'
  OBVIOUS
<1>g. TypeOK /\ HandlerInv
  BY DEF TypeInv
<1>a. ASSUME NEW pc \in HandlerPCs, Goto(pc)
      PROVE  handler'.msg = handler.msg /\ handler'.pc = pc
  BY <1>a, <1>g, GotoMoves DEF Moves
<1>b. ASSUME Drop PROVE handler'.msg = handler.msg /\ handler'.pc = "commit"
  BY <1>b, <1>g, DropMoves DEF Moves
<1>c. ASSUME NEW m \in Messages, Backed(m, log'), Publish(m)
      PROVE  \A x \in Messages : queue'[x] > 0 => queue[x] > 0 \/ Backed(x, log')
  BY <1>c, <1>g, PublishSends
<1>d. Backed(PurchaseMessage, log') /\ \A n \in RetryCounts : Backed(RequeryMessage(n), log')
  BY MessagesSent DEF Backed
<1>1. ASSUME NEW q \in Requests, ReceiveRequest(q) \/ CheckReference(q) \/ SaveRequest(q)
      PROVE  LogInv'
  BY <1>1, LogKept DEF ReceiveRequest, CheckReference, SaveRequest, AddEvents
<1>2. ASSUME NEW q \in Requests, PublishRequest(q) PROVE LogInv'
  BY <1>2, <1>c, <1>d, MessagesSent, LogKept DEF PublishRequest
<1>3. ASSUME Begin PROVE LogInv'
  <2>1. PICK m \in Messages :
          /\ queue[m] > 0
          /\ queue' = [queue EXCEPT ![m] = @ - 1]
          /\ handler'.msg = m
          /\ handler'.pc \in {"vend", "ask", "move", "commit", "check"}
    <3>1. IdleHandler \in Handler
      BY IdleHandlerIdle
    <3> QED
      BY <1>3, <3>1, MessagesRead DEF Begin, Handler
  <2>2. \A x \in Messages : queue'[x] > 0 => queue[x] > 0
    BY <2>1, <1>g DEF TypeOK
  <2>3. UNCHANGED <<log, confirm>>
    BY <1>3 DEF Begin
  <2> QED
    BY <2>1, <2>2, <2>3 DEF LogInv, Confirmed, Running
<1>4. ASSUME Commit PROVE LogInv'
  BY <1>4, LogKept, IdleHandlerIdle DEF Commit
<1>5. ASSUME Throw PROVE LogInv'
  BY <1>5, <1>b, LogKept DEF Throw, Running
<1>6. ASSUME Crash PROVE LogInv'
  <2>1. handler'.pc = "idle" /\ UNCHANGED <<log, confirm>>
    BY <1>6, IdleHandlerIdle DEF Crash
  <2>2. \A x \in Messages : queue'[x] > 0 => queue[x] > 0 \/ Backed(x, log')
    BY <1>6, <1>g, <2>1 DEF Crash, TypeOK, Running, LogInv
  <2> QED
    BY <2>1, <2>2, LogKept
<1>7. ASSUME Purchase PROVE LogInv'
  <2>1. handler'.msg = handler.msg /\ handler'.pc \in {"save", "timer", "choose", "commit"}
    BY <1>7, <1>a, <1>b, PurchaseGoes DEF HandlerPCs
  <2> QED
    BY <1>7, <2>1, LogKept DEF Purchase, AddEvents, Running
<1>8. ASSUME SaveToken \/ MoveToVendor PROVE LogInv'
  BY <1>8, <1>a, LogKept DEF SaveToken, MoveToVendor, Running, HandlerPCs
<1>9. ASSUME Announce PROVE LogInv'
  <2>1. handler.snap.superagent \in Vendors
    BY <1>9, <1>g DEF Announce, HandlerInv, Running, Row
  <2>2. Told(log')
    BY <1>9, <2>1 DEF Announce, AddEvents, Told
  <2>3. Backed(ReceivedMessage, log')
    BY <2>2, MessagesSent DEF Backed
  <2> QED
    BY <1>9, <1>a, <1>c, <2>3, MessagesSent, LogKept
    DEF Announce, AddEvents, Running, HandlerPCs
<1>10. ASSUME Requery PROVE LogInv'
  <2>1. handler'.msg = handler.msg /\ handler'.pc \in {"announce", "timer", "choose", "commit"}
    BY <1>10, <1>a, <1>b, RequeryGoes DEF HandlerPCs
  <2> QED
    BY <1>10, <2>1, LogKept DEF Requery, AddEvents, Running
<1>11. ASSUME CheckReceived PROVE LogInv'
  <2>1. handler'.msg = handler.msg /\ handler'.pc \in {"complete", "timer", "commit"}
    BY <1>11, <1>a, <1>b, CheckGoes DEF HandlerPCs
  <2> QED
    BY <1>11, <1>g, <2>1, LogKept DEF CheckReceived, AddEvents, Running, HandlerInv
<1>12. ASSUME Complete PROVE LogInv'
  BY <1>12, <1>a, LogKept DEF Complete, Running, HandlerPCs
<1>13. ASSUME FlagTransaction \/ StartTimer PROVE LogInv'
  <2>1. AfterTimer \in {"commit", "complete"}
        /\ (AfterTimer = "complete" => handler.msg.topic = "received")
    BY DEF AfterTimer
  <2>2. handler'.msg = handler.msg /\ handler'.pc = AfterTimer
    BY <1>13, <1>a, <2>1 DEF FlagTransaction, StartTimer, HandlerPCs
  <2>3. Running /\ UNCHANGED <<queue, confirm>> /\ log \subseteq log'
    BY <1>13 DEF FlagTransaction, StartTimer, AddEvents, Running
  <2> QED
    BY <2>1, <2>2, <2>3, LogKept
<1>14. ASSUME NEW n \in RetryCounts, TimerFires(n) PROVE LogInv'
  BY <1>14, <1>c, <1>d, MessagesSent, LogKept DEF TimerFires
<1>15. ASSUME ChooseVendor PROVE LogInv'
  <2> DEFINE t == handler.snap
  <2>1. t.superagent \in Vendors
    BY <1>15, <1>g DEF ChooseVendor, HandlerInv, Running, Row
  <2>2. CASE NextVendors(t.superagent, t.previous) = {}
    BY <1>15, <2>2, <1>b, LogKept DEF ChooseVendor, Running
  <2>3. CASE NextVendors(t.superagent, t.previous) # {}
    <3>1. PICK v : /\ log' = log \cup {AirtimeNewVendor(t.superagent, v)}
                   /\ handler' = [handler EXCEPT !.pc = "handover", !.next = v]
      BY <1>15, <2>3 DEF ChooseVendor, AddEvents
    <3>2. /\ handler'.pc = "handover" /\ handler'.next = v /\ handler'.msg = handler.msg
          /\ Running /\ UNCHANGED <<queue, confirm>>
      BY <1>15, <3>1, <1>g DEF ChooseVendor, TypeOK, Handler, Running
    <3>3. Moved(v, log')
      BY <2>1, <3>1 DEF Moved
    <3>4. log \subseteq log'
      BY <3>1
    <3>5. \A m : Backed(m, log) => Backed(m, log')
      BY <3>4, BackedStays
    <3> QED
      BY <3>2, <3>3, <3>4, <3>5 DEF LogInv, Confirmed, Running
  <2> QED
    BY <2>2, <2>3
<1>16. ASSUME HandOver PROVE LogInv'
  <2>1. UNCHANGED <<log, confirm>> /\ Running /\ handler.next \in Vendors
    BY <1>16, <1>g DEF HandOver, Running, HandlerInv
  <2>2. Backed(SwitchMessage(handler.next), log')
    BY <1>16, <2>1, MessagesSent DEF HandOver, Backed, LogInv
  <2> QED
    BY <1>16, <1>a, <1>c, <2>1, <2>2, MessagesSent, LogKept DEF HandOver, HandlerPCs
<1>17. ASSUME Republish PROVE LogInv'
  BY <1>17, <1>a, <1>c, <1>d, MessagesSent, LogKept DEF Republish, AddEvents, Running, HandlerPCs
<1>18. ASSUME (\E p \in pending : Decide(p)) \/ UNCHANGED vars PROVE LogInv'
  BY <1>18, LogKept DEF Decide, vars
<1>19. ASSUME NEW c \in Confirmations, LogConfirmation(c) PROVE LogInv'
  <2>1. log \subseteq log' /\ AirtimePurchaseConfirmed \in log' /\ UNCHANGED <<queue, handler>>
    BY <1>19 DEF LogConfirmation, AddEvents
  <2>2. \A m : Backed(m, log) => Backed(m, log')
    BY <2>1, BackedStays
  <2>3. \A v : Moved(v, log) => Moved(v, log')
    BY <2>1 DEF Moved
  <2> QED
    BY <2>1, <2>2, <2>3 DEF LogInv, Running
<1>20. ASSUME NEW c \in Confirmations, SaveConfirmation(c) PROVE LogInv'
  <2>1. UNCHANGED <<log, queue, handler>> /\ Confirmed # {}
    BY <1>20 DEF SaveConfirmation, Confirmed
  <2> QED
    BY <2>1 DEF LogInv, Running
<1> QED
  BY <1>1, <1>2, <1>3, <1>4, <1>5, <1>6, <1>7, <1>8, <1>9, <1>10, <1>11, <1>12, <1>13, <1>14,
     <1>15, <1>16, <1>17, <1>18, <1>19, <1>20
  DEF Next, RequestStep, ConfirmStep, ProcessStep

(* LoggedFirst: through any crash, lost message and interleaving of requests, *)
(* the vendor of the row changes and the row becomes COMPLETE only after an   *)
(* event that says so.                                                       *)
THEOREM AirtimeLoggedFirst == Spec => LoggedFirst
<1> DEFINE Ahead ==
      /\ row'.superagent # row.superagent => Moved(row'.superagent, log)
      /\ status' = "COMPLETE" /\ status # "COMPLETE" =>
           AirtimePurchaseConfirmed \in log \/ Told(log)
<1>1. TypeInv /\ LogInv /\ [Next]_vars => [Ahead]_vars
  <2> SUFFICES ASSUME TypeInv, LogInv, [Next]_vars PROVE Ahead
    OBVIOUS
  <2>g. TypeOK /\ HandlerInv
    BY DEF TypeInv
  <2>1. CASE MoveToVendor
    <3>1. row'.superagent = handler.msg.vendor /\ UNCHANGED status
      BY <2>1, <2>g DEF MoveToVendor, TypeOK, Row
    <3>2. Moved(handler.msg.vendor, log)
      BY <2>1, <2>g DEF MoveToVendor, HandlerInv, LogInv, Backed, Running
    <3> QED
      BY <3>1, <3>2
  <2>2. CASE Complete
    BY <2>2 DEF Complete, LogInv, Backed, Running
  <2>3. CASE SaveToken \/ ChooseVendor
    BY <2>3, <2>g DEF SaveToken, ChooseVendor, TypeOK, Row
  <2>4. CASE \E q \in Requests : RequestStep(q)
    BY <2>4 DEF RequestStep, ReceiveRequest, CheckReference, SaveRequest, PublishRequest
  <2>5. CASE Begin \/ Commit \/ Purchase \/ Announce \/ Throw \/ Crash
    BY <2>5 DEF Begin, Commit, Purchase, Announce, Throw, Crash
  <2>6. CASE Requery \/ CheckReceived \/ HandOver \/ Republish
    BY <2>6 DEF Requery, CheckReceived, HandOver, Republish
  <2>7. CASE FlagTransaction \/ StartTimer \/ \E n \in RetryCounts : TimerFires(n)
    BY <2>7 DEF FlagTransaction, StartTimer, TimerFires
  <2>8. CASE (\E p \in pending : Decide(p)) \/ UNCHANGED vars
    BY <2>8 DEF Decide, vars
  <2>9. CASE \E c \in Confirmations : ConfirmStep(c)
    BY <2>9 DEF ConfirmStep, LogConfirmation, SaveConfirmation, LogInv, Confirmed
  <2> QED
    BY <2>1, <2>2, <2>3, <2>4, <2>5, <2>6, <2>7, <2>8, <2>9 DEF Next, ProcessStep
<1>2. [Ahead]_vars => [/\ row'.superagent # row.superagent =>
                            \E v \in Vendors : AirtimeNewVendor(v, row'.superagent) \in log
                       /\ status' = "COMPLETE" /\ status # "COMPLETE" =>
                            \/ AirtimePurchaseConfirmed \in log
                            \/ \E v \in Vendors :
                                 {AirtimeReceived(v), AirtimeTransactionRequery(v)} \cap log # {}]_vars
  BY DEF Moved, Told
<1> HIDE DEF Ahead
<1> QED
  BY <1>1, <1>2, InitType, TypeStep, LogInit, LogStep, PTL DEF Spec, LoggedFirst

-----------------------------------------------------------------------------
(* One payment, one request *)

(* At most one request has passed the checks. *)
Sole == \A p, q \in Accepted : p = q

(* The row has the reference of the payment from the first request on, and    *)
(* every request that still is to be written has another one.                *)
RefInv ==
  ~overlapped /\ OnePayment =>
    /\ \A q \in Accepted : bankRef = BankRef[q]
    /\ \A r \in Requests, q \in Accepted : request[r] = "update" => BankRef[r] # BankRef[q]
    /\ Sole

LEMMA RefInit == Init => RefInv
BY DEF Init, RefInv, Accepted, Sole

LEMMA RefStep == TypeInv /\ RefInv /\ [Next]_vars => RefInv'
<1> SUFFICES ASSUME TypeInv, RefInv, [Next]_vars PROVE RefInv'
  OBVIOUS
<1>g. request \in [Requests -> RequestPCs] /\ confirm \in [Confirmations -> ConfirmPCs]
  BY DEF TypeInv, TypeOK
(* A step of nobody who writes the reference, and none that lets a request past. *)
<1>a. ASSUME UNCHANGED <<bankRef, overlapped>>, Accepted' = Accepted,
             Confirmed \subseteq Confirmed',
             \A q \in Requests : request'[q] = "update" => request[q] = "update"
      PROVE  RefInv'
  BY <1>a DEF RefInv, Sole, OnePayment
<1>1. ASSUME NEW q \in Requests, ReceiveRequest(q) PROVE RefInv'
  <2>1. Accepted' = Accepted
    BY <1>1, <1>g DEF ReceiveRequest, Accepted
  <2>2. \A r \in Requests : request'[r] = "update" => request[r] = "update"
    BY <1>1, <1>g DEF ReceiveRequest
  <2> QED
    BY <1>1, <1>a, <2>1, <2>2 DEF ReceiveRequest, Confirmed
<1>2. ASSUME NEW q \in Requests, CheckReference(q) PROVE RefInv'
  <2>1. Accepted' = Accepted /\ Confirmed' = Confirmed /\ UNCHANGED <<bankRef, overlapped>>
    BY <1>2, <1>g DEF CheckReference, Accepted, Confirmed
  <2>2. \A r \in Requests :
          request'[r] = "update" => request[r] = "update" \/ bankRef # BankRef[r]
    BY <1>2, <1>g DEF CheckReference
  <2> QED
    BY <2>1, <2>2 DEF RefInv, Sole, OnePayment
<1>3. ASSUME NEW q \in Requests, SaveRequest(q) PROVE RefInv'
  <2> SUFFICES ASSUME ~overlapped', OnePayment'
               PROVE  /\ \A p \in Accepted' : bankRef' = BankRef[p]
                      /\ \A r \in Requests : request'[r] # "update"
                      /\ Sole'
    BY DEF RefInv
  <2>1. ~overlapped /\ ~Overlaps(q)
    BY <1>3, Zenon DEF SaveRequest
  <2>2. /\ Accepted' = Accepted \cup {q} /\ Confirmed' = Confirmed
        /\ request' = [request EXCEPT ![q] = "publish"]
        /\ request[q] = "update" /\ bankRef' = BankRef[q]
    BY <1>3, <1>g DEF SaveRequest, Accepted, Confirmed
  <2>3. \A r \in Requests : request'[r] # "update"
    BY <2>1, <2>2, <1>g DEF Overlaps
  <2>4. \A p \in Accepted' : BankRef[p] = BankRef[q]
    BY <2>2 DEF OnePayment
  <2>5. OnePayment
    BY <2>2 DEF OnePayment
  <2>6. Accepted = {}
    BY <2>1, <2>2, <2>4, <2>5 DEF RefInv
  <2> QED
    BY <2>2, <2>3, <2>4, <2>6 DEF Sole
<1>4. ASSUME NEW q \in Requests, PublishRequest(q) PROVE RefInv'
  <2>1. Accepted' = Accepted
    BY <1>4, <1>g DEF PublishRequest, Accepted
  <2>2. \A r \in Requests : request'[r] = "update" => request[r] = "update"
    BY <1>4, <1>g DEF PublishRequest
  <2> QED
    BY <1>4, <1>a, <2>1, <2>2 DEF PublishRequest, Confirmed
<1>5. ASSUME NEW c \in Confirmations, LogConfirmation(c) PROVE RefInv'
  <2>1. Confirmed \subseteq Confirmed'
    BY <1>5, <1>g DEF LogConfirmation, Confirmed
  <2> QED
    BY <1>5, <1>a, <2>1 DEF LogConfirmation, Accepted
<1>6. ASSUME NEW c \in Confirmations, SaveConfirmation(c) PROVE RefInv'
  <2>1. /\ Accepted' = Accepted /\ Confirmed' = Confirmed /\ c \in Confirmed
        /\ bankRef' = BankRef[c] /\ UNCHANGED <<request, overlapped>>
    BY <1>6, <1>g DEF SaveConfirmation, Accepted, Confirmed
  <2> QED
    BY <2>1 DEF RefInv, Sole, OnePayment
<1>7. ASSUME UNCHANGED <<bankRef, request, confirm, overlapped>> PROVE RefInv'
  BY <1>7, <1>a DEF Accepted, Confirmed
<1>8. CASE ProcessStep \/ Throw \/ Crash
  BY <1>8, <1>7
  DEF ProcessStep, Begin, Commit, Throw, Crash, Purchase, SaveToken, Announce, Requery,
      CheckReceived, Complete, FlagTransaction, StartTimer, ChooseVendor, HandOver, MoveToVendor,
      Republish
<1>9. CASE \/ \E n \in RetryCounts : TimerFires(n)
           \/ \E p \in pending : Decide(p)
           \/ UNCHANGED vars
  BY <1>9, <1>7 DEF TimerFires, Decide, vars
<1> QED
  BY <1>1, <1>2, <1>3, <1>4, <1>5, <1>6, <1>8, <1>9 DEF Next, RequestStep, ConfirmStep

-----------------------------------------------------------------------------
(* One purchase at a time *)

(* What the transaction is waiting for: a request's message, a message, a     *)
(* timer or the handler, until it has sent what it had to send.              *)
Asking  == \A q \in Requests : request[q] # "done"
Waiting == \E m \in Messages : queue[m] > 0
Ticking == \E n \in RetryCounts : timers[n] > 0
Working == handler.pc \notin {"idle", "complete", "commit"}

(* At most one of the values of f is above 0, and that is 1. *)
Single(f) == \A x, y \in DOMAIN f : f[x] > 0 /\ f[y] > 0 => x = y /\ f[x] = 1

(* Nothing is handed out twice: there is one thing to wait for. *)
OneThread ==
  /\ Single(queue) /\ Single(timers)
  /\ Asking => ~Waiting /\ ~Ticking /\ ~Working
  /\ Waiting => ~Ticking /\ ~Working
  /\ Ticking => ~Working

(* What a handler that may still ask a vendor knows of the row. *)
SnapInv == handler.pc \in {"vend", "ask"} => handler.snap = row

(* Nothing is left to wait for that ends in a purchase, and IRECHARGE is       *)
(* asked about the vend there is.                                            *)
Settled ==
  /\ ~Asking
  /\ \A m \in Messages : queue[m] > 0 => m.topic \in {"requery", "received"}
  /\ handler.pc \notin {"vend", "choose", "handover", "move", "republish"}
  /\ Working => handler.msg.topic # "switch"
  /\ row.superagent = Irecharge =>
       /\ <<Irecharge, 0>> \in Live
       /\ \/ row.token
          \/ handler.pc = "save" /\ handler.snap.superagent = Irecharge
          \/ ~Waiting /\ ~Ticking /\ ~Working

OnceLive == (\A p, q \in Live : p = q) /\ (Live # {} => Settled)

OnceInv ==
  /\ ~repeated /\ Sole => OneThread /\ SnapInv
  /\ ~repeated /\ Sole /\ prompt => OnceLive

(* A requery of a vend that is alive does not find it failed. *)
LEMMA RequeryOfLive ==
  ASSUME NEW v, NEW o \in Outcomes, NEW r \in RequeryReplies(v, o),
         v = Irecharge => o # "failed", ~Thrown(Requeried(v, r))
  PROVE  AfterRequery(v, Requeried(v, r)) # "choose"
<1> USE NoneAssumption, VendorsAssumption
    DEF AfterRequery, PhoneRequeryReading, Requeried, Thrown, BuypowerRequery, IrechargeRequery,
        IrechargeVendStatus, BaxiRequery, ReturnedOrThrown, Returned, AxiosError, PlainError
<1>1. CASE v = Buypower
  <2>1. CASE o = "delivered"
    <3>1. r = [ok |-> TRUE, code |-> "200", status |-> "success", token |-> TRUE]
      BY <1>1, <2>1 DEF RequeryReplies, Success, Reply
    <3> QED
      BY <1>1, <3>1 DEF Reply
  <2>2. CASE o = "pending"
    <3>1. r = [ok |-> TRUE, code |-> "201", status |-> None, token |-> FALSE]
      BY <1>1, <2>2 DEF RequeryReplies, Reply
    <3> QED
      BY <1>1, <3>1 DEF Reply
  <2>3. CASE o = "failed"
    <3>1. r.ok = FALSE
      BY <1>1, <2>3 DEF RequeryReplies, Reply
    <3> QED
      BY <1>1, <3>1
  <2> QED
    BY <2>1, <2>2, <2>3 DEF Outcomes
<1>2. CASE v = Irecharge
  <2>1. CASE o = "delivered"
    <3>1. r = [ok |-> TRUE, code |-> "00", status |-> "successful", token |-> TRUE]
      BY <1>2, <2>1 DEF RequeryReplies, Success, Reply
    <3> QED
      BY <1>2, <3>1
  <2>2. CASE o = "pending"
    <3>1. PICK c \in {"15", "43"} :
            r = [ok |-> TRUE, code |-> c, status |-> None, token |-> FALSE]
      BY <1>2, <2>2 DEF RequeryReplies, InProgress, Reply
    <3> QED
      BY <1>2, <3>1
  <2> QED
    BY <1>2, <2>1, <2>2 DEF Outcomes
<1>3. CASE v \notin {Buypower, Irecharge}
  BY <1>3
<1> QED
  BY <1>1, <1>2, <1>3

(* Nothing moves but the one thing there is to wait for. *)
LEMMA ThreadStays ==
  ASSUME OneThread, UNCHANGED <<queue, timers>>, Asking' => Asking, Working' => Working
  PROVE  OneThread'
BY DEF OneThread, Single, Waiting, Ticking

(* It becomes a message, or is lost. *)
LEMMA ThreadSends ==
  ASSUME TypeInv, OneThread, Asking \/ Ticking \/ Working, NEW m \in Messages, Publish(m),
         ~Asking', ~Ticking', ~Working', timers' \in [RetryCounts -> Nat]
  PROVE  OneThread' /\ \A x \in Messages : queue'[x] > 0 => x = m
<1>1. queue \in [Messages -> Nat] /\ \A x \in Messages : queue[x] = 0
  BY DEF TypeInv, TypeOK, OneThread, Waiting
<1>2. queue' = [queue EXCEPT ![m] = @ + 1] \/ queue' = queue
  BY Zenon DEF Publish
<1>3. queue' \in [Messages -> Nat] /\ \A x \in Messages : queue'[x] > 0 => x = m /\ queue'[x] = 1
  BY <1>1, <1>2
<1>4. Single(queue)'
  BY <1>3 DEF Single
<1>5. Single(timers)'
  BY DEF Single, Ticking
<1> QED
  BY <1>3, <1>4, <1>5 DEF OneThread

LEMMA OnceKept ==
  ASSUME OnceLive, UNCHANGED vendors, Live # {} /\ Settled => Settled'
  PROVE  OnceLive'
<1>1. Live' = Live
  BY DEF Live
<1> QED
  BY <1>1 DEF OnceLive

LEMMA OnceInit == Init => OnceInv
<1> SUFFICES ASSUME Init PROVE OnceInv
  OBVIOUS
<1>1. Live = {}
  BY DEF Init, Live
<1>2. handler.pc = "idle"
  BY IdleHandlerIdle DEF Init
<1>3. ~Waiting /\ ~Ticking /\ ~Working /\ Single(queue) /\ Single(timers)
  BY <1>2 DEF Init, Waiting, Ticking, Working, Single
<1> QED
  BY <1>1, <1>2, <1>3 DEF OnceInv, OnceLive, OneThread, SnapInv

(* The parts are kept by every step that hands nothing out again. *)
LEMMA OnceMoves ==
  ASSUME Sole, TypeInv, OneThread, SnapInv, prompt => OnceLive, [Next]_vars, ~repeated'
  PROVE  OneThread' /\ SnapInv' /\ (prompt' => OnceLive')
<1> DEFINE Goal == OneThread' /\ SnapInv' /\ (prompt' => OnceLive')
<1>g. TypeOK /\ HandlerInv
  BY DEF TypeInv
<1>a. ASSUME NEW pc \in HandlerPCs, Goto(pc) PROVE Moves(pc)
  BY <1>a, <1>g, GotoMoves
<1>b. ASSUME Drop PROVE Moves("commit")
  BY <1>b, <1>g, DropMoves
(* Something that is settled is not running to a purchase, and has its token. *)
<1>s. ASSUME Settled, Working, handler.pc # "save", row.superagent = Irecharge
      PROVE  row.token
  BY <1>s DEF Settled
(* A step of the handler that sends nothing. *)
<1>h. ASSUME Working, NEW pc \in HandlerPCs \ {"vend", "ask"}, Moves(pc),
             UNCHANGED <<queue, timers, request>>
      PROVE  OneThread' /\ SnapInv' /\ ~Asking' /\ ~Waiting' /\ ~Ticking'
  <2>1. OneThread'
    BY <1>h, ThreadStays DEF Asking
  <2> QED
    BY <1>h, <2>1 DEF OneThread, SnapInv, Moves, Asking, Waiting, Ticking
(* The last step of a handler, which sends m. *)
<1>m. ASSUME Working, NEW m \in Messages, Publish(m), Moves("commit"), UNCHANGED <<timers, request>>
      PROVE  /\ OneThread' /\ SnapInv' /\ ~Asking' /\ ~Working'
             /\ \A x \in Messages : queue'[x] > 0 => x = m
  <2>1. ~Asking' /\ ~Ticking' /\ ~Working' /\ timers' \in [RetryCounts -> Nat]
    BY <1>m, <1>g DEF OneThread, Asking, Ticking, Working, Moves, TypeOK
  <2>2. OneThread' /\ \A x \in Messages : queue'[x] > 0 => x = m
    BY <1>m, <2>1, ThreadSends
  <2> QED
    BY <1>m, <2>1, <2>2 DEF SnapInv, Moves
<1>1. ASSUME NEW q \in Requests, ReceiveRequest(q) \/ CheckReference(q) \/ SaveRequest(q)
      PROVE  Goal
  <2>1. UNCHANGED <<queue, timers, handler, row, vendors, prompt>>
    BY <1>1 DEF ReceiveRequest, CheckReference, SaveRequest
  <2>2. Asking' <=> Asking
    BY <1>1, <1>g DEF Asking, TypeOK, ReceiveRequest, CheckReference, SaveRequest
  <2>3. OneThread' /\ SnapInv'
    BY <2>1, <2>2, ThreadStays DEF Working, SnapInv
  <2>4. Settled => Settled'
    BY <2>1, <2>2 DEF Settled, Live, Waiting, Ticking, Working
  <2> QED
    BY <2>1, <2>3, <2>4, OnceKept
<1>2. ASSUME NEW q \in Requests, PublishRequest(q) PROVE Goal
  <2>0. Asking
    BY <1>2, <1>g DEF Asking, PublishRequest, Sole, Accepted
  <2>1. Asking /\ UNCHANGED <<timers, handler, row, vendors, prompt>> /\ Publish(PurchaseMessage)
    BY <1>2, <2>0 DEF PublishRequest
  <2>2. ~Asking'
    BY <1>2, <1>g DEF PublishRequest, Asking, TypeOK
  <2>3. ~Ticking' /\ ~Working' /\ timers' \in [RetryCounts -> Nat]
    BY <2>1, <1>g DEF OneThread, Ticking, Working, TypeOK
  <2>4. OneThread' /\ SnapInv'
    BY <2>1, <2>2, <2>3, ThreadSends, MessagesSent DEF SnapInv
  <2>5. prompt' => OnceLive'
    BY <2>1, OnceKept DEF Settled
  <2> QED
    BY <2>4, <2>5
<1>3. ASSUME Begin PROVE Goal
  <2> PICK m \in Messages :
        /\ queue[m] > 0
        /\ queue' = [queue EXCEPT ![m] = @ - 1]
        /\ handler' = [IdleHandler EXCEPT !.msg = m, !.snap = row, !.pc =
             CASE m.topic = "purchase" -> "vend"
               [] m.topic = "requery"  -> "ask"
               [] m.topic = "switch"   -> "move"
               [] m.topic = "received" -> IF status = "COMPLETE" THEN "commit"
                                                                 ELSE "check"]
    BY <1>3 DEF Begin
  <2>1. UNCHANGED <<row, timers, request, vendors, prompt>> /\ handler.pc = "idle"
    BY <1>3 DEF Begin
  <2>2. /\ handler'.snap = row
        /\ m.topic \in {"requery", "received"} => handler'.pc \in {"ask", "commit", "check"}
    BY DEF IdleHandler
  <2>3. Waiting /\ ~Asking /\ ~Ticking /\ queue[m] = 1 /\ \A x \in Messages : queue[x] > 0 => x = m
    BY <1>g DEF Waiting, OneThread, Single, TypeOK
  <2>4. \A x \in Messages : queue'[x] = 0
    BY <2>3, <1>g DEF TypeOK
  <2>5. ~Asking' /\ ~Ticking' /\ ~Waiting'
    BY <2>1, <2>3, <2>4 DEF Asking, Ticking, Waiting
  <2>6. Single(queue)' /\ Single(timers)'
    <3>1. queue' \in [Messages -> Nat] /\ timers' \in [RetryCounts -> Nat]
      BY <2>1, <1>g DEF TypeOK
    <3> QED
      BY <3>1, <2>4, <2>5 DEF Single, Ticking
  <2>7. OneThread' /\ SnapInv'
    BY <2>1, <2>2, <2>5, <2>6 DEF OneThread, SnapInv
  <2>8. ASSUME Live # {}, Settled PROVE Settled'
    <3>1. m.topic \in {"requery", "received"}
      BY <2>8 DEF Settled
    <3>2. row.superagent = Irecharge => <<Irecharge, 0>> \in Live /\ row.token
      BY <2>1, <2>3, <2>8 DEF Settled
    <3> QED
      BY <2>1, <2>2, <2>4, <2>5, <3>1, <3>2 DEF Settled, Live
  <2> QED
    BY <2>1, <2>7, <2>8, OnceKept
<1>4. ASSUME Commit \/ Complete PROVE Goal
  <2>1. /\ UNCHANGED <<row, queue, timers, request, vendors, prompt>>
        /\ handler'.pc \in {"idle", "commit"} /\ ~Working /\ ~Working'
    BY <1>4, <1>a, IdleHandlerIdle DEF Commit, Complete, Working, Moves, HandlerPCs
  <2>2. OneThread' /\ SnapInv'
    BY <2>1, ThreadStays DEF SnapInv, Asking
  <2>3. ASSUME Live # {}, Settled PROVE Settled'
    <3>1. handler.pc # "save"
      BY <2>1 DEF Working
    <3> QED
      BY <2>1, <2>3, <3>1 DEF Settled, Live, Asking, Waiting, Ticking
  <2> QED
    BY <2>1, <2>2, <2>3, OnceKept
<1>5. ASSUME Throw PROVE Goal
  <2>1. UNCHANGED <<row, queue, timers, request, vendors, prompt>> /\ Moves("commit")
    BY <1>5, <1>b DEF Throw
  <2>2. ~Working'
    BY <2>1 DEF Working, Moves
  <2>3. OneThread' /\ SnapInv'
    BY <2>1, <2>2, ThreadStays DEF SnapInv, Asking, Moves
  <2>4. ASSUME Live # {}, Settled PROVE Settled'
    <3>1. handler'.pc = "commit"
      BY <2>1 DEF Moves
    <3>2. row.superagent = Irecharge => row.token \/ (~Waiting /\ ~Ticking)
      BY <2>4 DEF Settled, OneThread, Working
    <3> QED
      BY <2>1, <2>2, <2>4, <3>1, <3>2 DEF Settled, Live, Asking, Waiting, Ticking
  <2> QED
    BY <2>1, <2>3, <2>4, OnceKept
<1>6. ASSUME Purchase PROVE Goal
  <2> DEFINE v == handler.snap.superagent
             p == PurchaseVend(handler.snap)
  <2>1. /\ handler.pc = "vend" /\ Working /\ Carry(p)
        /\ UNCHANGED <<row, queue, timers, request>>
        /\ prompt' = (prompt /\ (handler'.pc = "save" \/ p \notin Live'))
    BY <1>6 DEF Purchase, Working
  <2>2. PICK pc \in {"commit", "save", "timer", "choose"} : Moves(pc)
    BY <1>6, <1>a, <1>b, PurchaseGoes DEF HandlerPCs
  <2>3. OneThread' /\ SnapInv' /\ ~Asking' /\ ~Waiting' /\ ~Ticking'
    BY <2>1, <2>2, <1>h DEF HandlerPCs
  <2>4. ASSUME prompt' PROVE OnceLive'
    <3>1. prompt /\ (handler'.pc = "save" \/ p \notin Live')
      BY <2>1, <2>4
    <3>2. Live = {}
      BY <2>1, <3>1 DEF OnceLive, Settled
    <3>3. Live' \subseteq {p}
      BY <2>1, <3>2 DEF Carry, Live
    <3>4. ASSUME Live' # {} PROVE Settled'
      <4>1. p \in Live' /\ handler'.pc = "save" /\ handler'.snap = row
        BY <3>1, <3>3, <3>4, <2>1, <2>2 DEF SnapInv, Moves
      <4>2. handler.snap = row
        BY <2>1 DEF SnapInv
      <4>3. row.superagent = Irecharge => p = <<Irecharge, 0>>
        BY <4>2 DEF PurchaseVend, AirtimeReference, IsBaxi
      <4> QED
        <5>1. handler'.msg.topic = "purchase"
          BY <2>1, <2>2, <1>g DEF HandlerInv, Moves
        <5> QED
          BY <4>1, <4>3, <5>1, <2>1, <2>3 DEF Settled, Waiting
    <3> QED
      BY <3>3, <3>4 DEF OnceLive
  <2> QED
    BY <2>3, <2>4
<1>7. ASSUME SaveToken PROVE Goal
  <2>1. /\ handler.pc = "save" /\ Working /\ Moves("announce")
        /\ UNCHANGED <<queue, timers, request, vendors, prompt>>
        /\ row' = [row EXCEPT !.token = @ \/ handler.snap.superagent = Irecharge]
    BY <1>7, <1>a DEF SaveToken, Working, HandlerPCs
  <2>2. OneThread' /\ SnapInv' /\ ~Asking' /\ ~Waiting' /\ ~Ticking'
    BY <2>1, <1>h DEF HandlerPCs
  <2>3. ASSUME Live # {}, Settled PROVE Settled'
    <3>1. /\ row'.superagent = row.superagent
          /\ row'.token = (row.token \/ handler.snap.superagent = Irecharge)
      BY <2>1, <1>g DEF TypeOK, Row
    <3>2. handler'.pc = "announce" /\ handler'.msg.topic # "switch"
      BY <2>1, <2>3 DEF Moves, Settled
    <3> QED
      BY <2>1, <2>2, <2>3, <3>1, <3>2 DEF Settled, Live, Waiting
  <2> QED
    BY <2>1, <2>2, <2>3, OnceKept
<1>8. ASSUME Announce PROVE Goal
  <2>1. /\ handler.pc = "announce" /\ Working /\ Moves("commit") /\ Publish(ReceivedMessage)
        /\ UNCHANGED <<row, timers, request, vendors, prompt>>
    BY <1>8, <1>a DEF Announce, Working, HandlerPCs
  <2>2. /\ OneThread' /\ SnapInv' /\ ~Asking' /\ ~Working'
        /\ \A x \in Messages : queue'[x] > 0 => x = ReceivedMessage
    BY <2>1, <1>m, MessagesSent
  <2>3. ASSUME Live # {}, Settled PROVE Settled'
    <3>1. row.superagent = Irecharge => <<Irecharge, 0>> \in Live /\ row.token
      BY <2>1, <2>3, <1>s DEF Settled
    <3> QED
      BY <2>1, <2>2, <3>1, MessagesSent DEF Settled, Live, Moves
  <2> QED
    BY <2>1, <2>2, <2>3, OnceKept
<1>9. ASSUME Requery PROVE Goal
  <2> DEFINE v == handler.snap.superagent
  <2>1. /\ handler.pc = "ask" /\ Working
        /\ UNCHANGED <<row, queue, timers, request, vendors, prompt>>
    BY <1>9 DEF Requery, Working
  <2>2. PICK r : /\ Hears(r)
                 /\ IF Thrown(Requeried(v, r)) THEN Drop
                    ELSE Goto(AfterRequery(v, Requeried(v, r))) /\ Keep
    BY <1>9 DEF Requery
  <2>3. PICK pc \in {"commit", "announce", "timer", "choose"} : Moves(pc)
    BY <1>9, <1>a, <1>b, RequeryGoes DEF HandlerPCs
  <2>4. OneThread' /\ SnapInv' /\ ~Asking' /\ ~Waiting' /\ ~Ticking'
    BY <2>1, <2>3, <1>h DEF HandlerPCs
  <2>5. ASSUME Live # {}, Settled PROVE Settled'
    <3>1. row.superagent = Irecharge => <<Irecharge, 0>> \in Live /\ row.token
      BY <2>1, <2>5, <1>s DEF Settled
    <3>2. handler.snap = row
      BY <2>1 DEF SnapInv
    <3>3. v = Irecharge => Outcome(RequeryVend(handler.snap)) # "failed"
      BY <3>1, <3>2 DEF RequeryVend, Outcome, OutcomeIn, Live
    <3>4. PICK o \in Outcomes : r \in RequeryReplies(v, o) /\ (v = Irecharge => o # "failed")
      BY <2>2, <3>3 DEF Hears, Outcomes, Outcome, OutcomeIn
    <3>5. pc # "choose"
      <4>1. CASE Thrown(Requeried(v, r))
        BY <4>1, <2>2, <2>3, <1>b DEF Moves
      <4>2. CASE ~Thrown(Requeried(v, r))
        <5>1. AfterRequery(v, Requeried(v, r)) # "choose"
          BY <3>4, <4>2, RequeryOfLive
        <5>2. Goto(AfterRequery(v, Requeried(v, r)))
          BY <2>2, <4>2
        <5>3. AfterRequery(v, Requeried(v, r)) \in HandlerPCs
          BY DEF AfterRequery, HandlerPCs
        <5> QED
          BY <5>1, <5>2, <5>3, <2>3, <1>a DEF Moves
      <4> QED
        BY <4>1, <4>2
    <3>6. handler'.pc = pc /\ handler'.msg.topic # "switch"
      BY <2>1, <2>3, <2>5 DEF Moves, Settled
    <3> QED
      BY <2>1, <2>4, <2>5, <3>1, <3>5, <3>6 DEF Settled, Live, Waiting
  <2> QED
    BY <2>1, <2>4, <2>5, OnceKept
<1>10. ASSUME CheckReceived PROVE Goal
  <2>1. /\ handler.pc = "check" /\ Working
        /\ UNCHANGED <<row, queue, timers, request, vendors, prompt>>
    BY <1>10 DEF CheckReceived, Working
  <2>2. PICK pc \in {"commit", "complete", "timer"} : Moves(pc)
    BY <1>10, <1>a, <1>b, CheckGoes DEF HandlerPCs
  <2>3. OneThread' /\ SnapInv' /\ ~Asking' /\ ~Waiting' /\ ~Ticking'
    BY <2>1, <2>2, <1>h DEF HandlerPCs
  <2>4. ASSUME Live # {}, Settled PROVE Settled'
    BY <2>1, <2>2, <2>3, <2>4, <1>s DEF Settled, Live, Moves, Waiting
  <2> QED
    BY <2>1, <2>3, <2>4, OnceKept
<1>11. ASSUME FlagTransaction PROVE Goal
  <2>1. /\ handler.pc = "timer" /\ Working
        /\ UNCHANGED <<row, queue, timers, request, vendors, prompt>>
    BY <1>11 DEF FlagTransaction, Working
  <2>2. PICK pc \in {"commit", "complete"} : Moves(pc)
    BY <1>11, <1>a DEF FlagTransaction, AfterTimer, HandlerPCs
  <2>3. OneThread' /\ SnapInv' /\ ~Asking' /\ ~Waiting' /\ ~Ticking'
    BY <2>1, <2>2, <1>h DEF HandlerPCs
  <2>4. ASSUME Live # {}, Settled PROVE Settled'
    BY <2>1, <2>2, <2>3, <2>4, <1>s DEF Settled, Live, Moves, Waiting
  <2> QED
    BY <2>1, <2>3, <2>4, OnceKept
<1>12. ASSUME StartTimer PROVE Goal
  <2> DEFINE n == NextCount
  <2>1. /\ handler.pc = "timer" /\ Working
        /\ UNCHANGED <<row, queue, request, vendors, prompt>>
        /\ timers' = [timers EXCEPT ![n] = @ + 1]
    BY <1>12 DEF StartTimer, Working
  <2>2. PICK pc \in {"commit", "complete"} : Moves(pc)
    BY <1>12, <1>a DEF StartTimer, AfterTimer, HandlerPCs
  <2>3. ~Asking' /\ ~Waiting' /\ ~Working'
    BY <2>1, <2>2 DEF OneThread, Asking, Waiting, Working, Moves
  <2>4. timers \in [RetryCounts -> Nat] /\ \A x \in RetryCounts : timers[x] = 0
    BY <2>1, <1>g DEF OneThread, Ticking, TypeOK
  <2>5. Single(timers)' /\ Single(queue)'
    <3> HIDE DEF n
    <3>1. Single(timers)'
      BY <2>1, <2>4 DEF Single
    <3> QED
      BY <3>1, <2>1 DEF OneThread, Single
  <2>6. OneThread' /\ SnapInv'
    BY <2>2, <2>3, <2>5 DEF OneThread, SnapInv, Moves
  <2>7. ASSUME Live # {}, Settled PROVE Settled'
    BY <2>1, <2>2, <2>3, <2>7, <1>s DEF Settled, Live, Moves, Waiting
  <2> QED
    BY <2>1, <2>6, <2>7, OnceKept
<1>13. ASSUME NEW n \in RetryCounts, TimerFires(n) PROVE Goal
  <2>1. /\ timers[n] > 0 /\ timers' = [timers EXCEPT ![n] = @ - 1]
        /\ Publish(RequeryMessage(n))
        /\ UNCHANGED <<row, handler, request, vendors, prompt>>
    BY <1>13 DEF TimerFires
  <2>2. Ticking /\ timers[n] = 1 /\ \A x \in RetryCounts : timers[x] > 0 => x = n
    BY <2>1, <1>g DEF Ticking, OneThread, Single, TypeOK
  <2>3. timers' \in [RetryCounts -> Nat] /\ ~Ticking'
    BY <2>1, <2>2, <1>g DEF Ticking, TypeOK
  <2>4. ~Asking' /\ ~Working' /\ ~Working
    BY <2>1, <2>2 DEF OneThread, Asking, Working
  <2>5. OneThread' /\ \A x \in Messages : queue'[x] > 0 => x = RequeryMessage(n)
    BY <2>1, <2>2, <2>3, <2>4, ThreadSends, MessagesSent
  <2>6. SnapInv'
    BY <2>1 DEF SnapInv
  <2>7. ASSUME Live # {}, Settled PROVE Settled'
    <3>1. row.superagent = Irecharge => <<Irecharge, 0>> \in Live /\ row.token
      BY <2>2, <2>4, <2>7 DEF Settled, Working
    <3> QED
      BY <2>1, <2>4, <2>5, <2>7, <3>1, MessagesSent DEF Settled, Live
  <2> QED
    BY <2>1, <2>5, <2>6, <2>7, OnceKept
<1>14. ASSUME ChooseVendor \/ MoveToVendor PROVE Goal
  <2>1. /\ handler.pc \in {"choose", "move"} /\ Working
        /\ UNCHANGED <<queue, timers, request, vendors, prompt>>
    BY <1>14 DEF ChooseVendor, MoveToVendor, Working
  <2>2. handler'.pc \notin {"vend", "ask"}
    <3>1. CASE MoveToVendor
      BY <3>1, <1>a DEF MoveToVendor, Moves, HandlerPCs
    <3>2. CASE ChooseVendor
      <4>1. Drop \/ \E v : handler' = [handler EXCEPT !.pc = "handover", !.next = v]
        BY <3>2 DEF ChooseVendor
      <4> QED
        BY <4>1, <1>b, <1>g DEF Moves, TypeOK, Handler
    <3> QED
      BY <1>14, <3>1, <3>2
  <2>3. OneThread' /\ SnapInv'
    BY <2>1, <2>2, ThreadStays DEF SnapInv, Asking
  <2> QED
    BY <2>1, <2>3, OnceKept DEF Settled
<1>15. ASSUME HandOver \/ Republish PROVE Goal
  <2>1. /\ handler.pc \in {"handover", "republish"} /\ Working /\ Moves("commit")
        /\ UNCHANGED <<row, timers, request, vendors, prompt>>
        /\ \E m \in Messages : Publish(m)
    BY <1>15, <1>a, <1>g, MessagesSent DEF HandOver, Republish, Working, HandlerPCs, HandlerInv
  <2>2. OneThread' /\ SnapInv'
    BY <2>1, <1>m
  <2> QED
    BY <2>1, <2>2, OnceKept DEF Settled
<1>16. ASSUME NEW p \in pending, Decide(p) PROVE Goal
  <2>1. UNCHANGED <<row, queue, handler, timers, request, prompt>>
    BY <1>16 DEF Decide
  <2>2. OneThread' /\ SnapInv'
    BY <2>1, ThreadStays DEF SnapInv, Asking, Working
  <2>3. ASSUME prompt PROVE OnceLive'
    <3>1. Live' \subseteq Live /\ p \in Live
      BY <1>16 DEF Decide, Live
    <3>2. Live = {p} /\ Settled
      BY <2>3, <3>1 DEF OnceLive
    <3>3. ASSUME Live' # {} PROVE Live' = Live
      BY <3>1, <3>2, <3>3
    <3>4. ASSUME Live' # {} PROVE Settled'
      BY <2>1, <3>2, <3>3, <3>4 DEF Settled, Asking, Waiting, Ticking, Working
    <3> QED
      BY <3>1, <3>2, <3>4 DEF OnceLive
  <2> QED
    BY <2>1, <2>2, <2>3
<1>17. ASSUME Crash PROVE Goal
  <2>1. /\ UNCHANGED <<row, request, vendors, prompt>> /\ handler'.pc = "idle"
        /\ queue' = IF handler.pc = "idle" THEN queue ELSE [queue EXCEPT ![handler.msg] = @ + 1]
        /\ timers' = [n \in RetryCounts |-> 0]
    BY <1>17, IdleHandlerIdle DEF Crash
  <2>2. ~Acted
    BY <1>17, Zenon DEF Crash
  <2>3. ~Ticking' /\ ~Working' /\ Single(timers)' /\ (Asking' <=> Asking)
    BY <2>1 DEF Ticking, Working, Single, Asking
  <2>4. CASE handler.pc = "idle"
    <3>1. UNCHANGED queue /\ (Waiting' <=> Waiting)
      BY <2>1, <2>4 DEF Waiting
    <3>2. OneThread' /\ SnapInv'
      BY <2>1, <2>3, <3>1 DEF OneThread, SnapInv, Single
    <3>3. ASSUME Live # {}, Settled PROVE Settled'
      <4>1. row.superagent = Irecharge => row.token \/ ~Waiting
        BY <2>4, <3>3 DEF Settled
      <4> QED
        BY <2>1, <2>3, <3>1, <3>3, <4>1 DEF Settled, Live
    <3> QED
      BY <2>1, <3>2, <3>3, OnceKept
  <2>5. CASE handler.pc # "idle"
    <3>1. /\ Working
          /\ handler.msg.topic = "purchase" => handler.pc = "vend"
      BY <2>2, <2>5 DEF Acted, Working
    <3>2. handler.msg \in Messages /\ queue \in [Messages -> Nat]
      BY <2>5, <1>g DEF HandlerInv, Running, TypeOK
    <3>3. ~Asking /\ \A m \in Messages : queue[m] = 0
      BY <3>1, <3>2 DEF OneThread, Waiting
    <3>4. queue' = [queue EXCEPT ![handler.msg] = @ + 1]
      BY <2>1, <2>5
    <3>5. \A m \in Messages : queue'[m] > 0 => m = handler.msg /\ queue'[m] = 1
      BY <3>2, <3>3, <3>4
    <3>6. queue' \in [Messages -> Nat]
      BY <3>2, <3>4
    <3>7. OneThread' /\ SnapInv'
      BY <2>1, <2>3, <3>3, <3>5, <3>6 DEF OneThread, SnapInv, Single
    <3>8. ASSUME Live # {}, Settled PROVE Settled'
      <4>1. handler.msg.topic \in {"requery", "received"} /\ handler.pc # "save"
        BY <3>1, <3>2, <3>8, <1>g, MessagesRead DEF Settled, HandlerInv
      <4>2. row.superagent = Irecharge => <<Irecharge, 0>> \in Live /\ row.token
        BY <3>1, <3>8, <4>1 DEF Settled
      <4> QED
        BY <2>1, <2>3, <3>3, <3>5, <4>1, <4>2 DEF Settled, Live
    <3> QED
      BY <2>1, <3>7, <3>8, OnceKept
  <2> QED
    BY <2>4, <2>5
<1>18. ASSUME NEW c \in Confirmations, ConfirmStep(c) PROVE Goal
  <2>1. UNCHANGED <<row, queue, handler, timers, request, vendors, prompt>>
    BY <1>18 DEF ConfirmStep, LogConfirmation, SaveConfirmation
  <2> QED
    BY <2>1 DEF OneThread, Single, SnapInv, OnceLive, Settled, Live, Asking, Waiting, Ticking,
                Working
<1>19. ASSUME UNCHANGED vars PROVE Goal
  BY <1>19 DEF vars, OneThread, Single, SnapInv, OnceLive, Settled, Live, Asking, Waiting, Ticking,
               Working
<1> HIDE DEF Goal
<1>20. Goal
  BY <1>1, <1>2, <1>3, <1>4, <1>5, <1>6, <1>7, <1>8, <1>9, <1>10, <1>11, <1>12, <1>13, <1>14,
     <1>15, <1>16, <1>17, <1>18, <1>19
  DEF Next, RequestStep, ProcessStep
<1> QED
  BY <1>20 DEF Goal

(* A request that was let through stays that, and so does a repeated handler. *)
LEMMA OnceGrows ==
  ASSUME TypeInv, [Next]_vars PROVE Accepted \subseteq Accepted' /\ (repeated => repeated')
<1>1. request \in [Requests -> RequestPCs]
  BY DEF TypeInv, TypeOK
<1>2. CASE \E q \in Requests : RequestStep(q)
  BY <1>1, <1>2
  DEF RequestStep, ReceiveRequest, CheckReference, SaveRequest, PublishRequest, Accepted
<1>3. CASE Crash
  BY <1>3, Zenon DEF Crash, Accepted
<1>4. CASE ProcessStep
  <2>1. UNCHANGED <<request, repeated>>
    BY <1>4
    DEF ProcessStep, Begin, Commit, Purchase, SaveToken, Announce, Requery, CheckReceived,
        Complete, FlagTransaction, StartTimer, ChooseVendor, HandOver, MoveToVendor, Republish
  <2> QED
    BY <2>1 DEF Accepted
<1>5. CASE \/ Throw \/ UNCHANGED vars
           \/ \E c \in Confirmations : ConfirmStep(c)
           \/ \E n \in RetryCounts : TimerFires(n)
           \/ \E p \in pending : Decide(p)
  BY <1>5 DEF Throw, vars, ConfirmStep, LogConfirmation, SaveConfirmation, TimerFires, Decide,
              Accepted
<1> QED
  BY <1>2, <1>3, <1>4, <1>5 DEF Next

LEMMA OnceStep == TypeInv /\ OnceInv /\ [Next]_vars => OnceInv'
<1> SUFFICES ASSUME TypeInv, OnceInv, [Next]_vars, ~repeated', Sole'
             PROVE  OneThread' /\ SnapInv' /\ (prompt' => OnceLive')
  BY DEF OnceInv
<1>1. ~repeated /\ Sole
  BY OnceGrows DEF Sole
<1> QED
  BY <1>1, OnceMoves DEF OnceInv

(* AtMostOneDelivery, for any number of requests and confirmations: however    *)
(* often the partner asks and confirms, through errors, lost messages,        *)
(* requeries, switches of vendor and the crashes that repeat nothing, one     *)
(* payment is bought once unless requests overlapped or a vend was given up   *)
(* alive.                                                                    *)
THEOREM AirtimeBoughtOnce == Spec => []AtMostOneDelivery
<1>1. TypeInv /\ OnceInv /\ [Next]_vars => OnceInv'
  BY OnceStep
<1>2. RefInv /\ OnceInv => AtMostOneDelivery
  BY DEF RefInv, OnceInv, OnceLive, AtMostOneDelivery, Live
<1> QED
  BY <1>1, <1>2, OnceInit, RefInit, RefStep, TypeInvariant, PTL DEF Spec
=============================================================================
