----------------------------- MODULE TokenAnswer -----------------------------
(***************************************************************************)
(* How VendorController.requestToken answers the partner: it waits for the  *)
(* token with a Kafka consumer of its own, VendorTokenReceivedSubscriber,    *)
(* whose handler writes the response, and a timer that writes it otherwise. *)
(* The purchase itself is TokenVend's; here it is one announcement or more. *)
(*                                                                          *)
(*   VendorTokenHandler, VendorTokenReceivedSubscriber, requestToken         *)
(*                        controllers/Public/VendorApi.controller            *)
(*   ConsumerFactory.start, shutdown         kafka/modules/util/Consumer     *)
(*                                                                          *)
(* One request per transaction: the consumer group of a subscriber is the    *)
(* transaction's id, so a second request would share it with the first.      *)
(***************************************************************************)
EXTENDS Announcements

VARIABLES
  request,   \* per electricity transaction: the request and its subscriber
  answer     \* None, "processing", or the transaction whose token was sent

Electricity == Transactions \ Airtime

RequestPCs == {"new", "publish", "inprogress", "timer", "reply", "log", "catch",
               "ended", "lost"}

(* none: start failed; joining: it joined the group and its offset, "latest", *)
(* is not resolved yet.                                                       *)
SubscriberStates == {"none", "joining", "up", "down"}

Request ==
  [pc     : RequestPCs,
   asked  : BOOLEAN,                    \* the purchase message was sent
   sub    : SubscriberStates,
   pos    : Nat,                        \* announcements the subscriber is past
   token  : Transactions \cup {None},   \* what its handler is at work on
   sent   : BOOLEAN]                    \* VendorTokenHandler.tokenSent

TokenAnswerTypeOK ==
  /\ request \in [Electricity -> Request]
  /\ answer \in [Electricity -> Transactions \cup {None, "processing"}]

TokenAnswerInit ==
  /\ request = [t \in Electricity |->
       [pc |-> "new", asked |-> FALSE, sub |-> "none", pos |-> 0, token |-> None,
        sent |-> FALSE]]
  /\ answer = [t \in Electricity |-> None]

Answered(t) == answer[t] # None

GotoInRequest(t, pc) == request' = [request EXCEPT ![t].pc = pc]

-----------------------------------------------------------------------------
(* requestToken, from the accepted request on *)

(* start() swallows its errors. *)
StartSubscriber(t) ==
  /\ request[t].pc = "new"
  /\ \/ request' = [request EXCEPT ![t].pc = "publish", ![t].sub = "joining"] /\ NoFault
     \/ GotoInRequest(t, "publish") /\ Fault
  /\ UNCHANGED <<log, events, interruptions, answer>>

PublishPurchase(t) ==
  /\ request[t].pc = "publish"
  /\ \/ request' = [request EXCEPT ![t].pc = "inprogress", ![t].asked = TRUE] /\ NoFault
     \/ GotoInRequest(t, "inprogress") /\ Fault       \* a failed send is swallowed
  /\ UNCHANGED <<log, events, interruptions, answer>>

(* The status is written and the row read again.  If the token was sent by     *)
(* now its response is written once more, which throws (or the power unit is  *)
(* not there yet, which throws too); if not, the timer starts.                *)
MarkInProgress(t) ==
  /\ request[t].pc = "inprogress"
  /\ GotoInRequest(t, IF request[t].sent THEN "catch" ELSE "timer")
  /\ UNCHANGED <<log, events, faults, interruptions, answer>>

(* An error after the subscriber was started. *)
RequestError(t) ==
  /\ request[t].pc \in {"publish", "inprogress"}
  /\ Fault
  /\ GotoInRequest(t, "catch")
  /\ UNCHANGED <<log, events, interruptions, answer>>

Catch(t) ==
  /\ request[t].pc = "catch"
  /\ request' = [request EXCEPT ![t].pc = "ended", ![t].sub = "down"]
  /\ UNCHANGED <<log, events, faults, interruptions, answer>>

(* Slips: the timer does not look whether a token was sent; it leaves the    *)
(* subscriber running.                                                       *)
TimerLogsAlways(t) ==
  /\ request[t].pc = "timer"
  /\ GotoInRequest(t, "log")
  /\ UNCHANGED <<log, events, faults, interruptions, answer>>
TimerKeepsSubscriber(t) ==
  /\ request[t].pc = "timer"
  /\ GotoInRequest(t, IF request[t].sent THEN "log" ELSE "reply")
  /\ UNCHANGED <<log, events, faults, interruptions, answer>>

(* After 60 s.  The shutdown is awaited. *)
TimerFires(t) ==
  /\ request[t].pc = "timer"
  /\ request' = IF request[t].sent
                THEN [request EXCEPT ![t].pc = "log"]
                ELSE [request EXCEPT ![t].pc = "reply", ![t].sub = "down"]
  /\ UNCHANGED <<log, events, faults, interruptions, answer>>

(* "Transaction is being processed".  (See TokenDelivery for a second answer.) *)
Reply(t) ==
  /\ request[t].pc = "reply"
  /\ ~Answered(t)
  /\ answer' = [answer EXCEPT ![t] = "processing"]
  /\ GotoInRequest(t, "ended")
  /\ UNCHANGED <<log, events, faults, interruptions>>

LogTokenSent(t) ==
  /\ request[t].pc = "log"
  /\ AddEvent(t, "TOKEN_SENT_TO_PARTNER")
  /\ GotoInRequest(t, "ended")
  /\ UNCHANGED <<log, faults, interruptions, answer>>

-----------------------------------------------------------------------------
(* VendorTokenReceivedSubscriber and its handler *)

(* The group is new: it starts with what comes next. *)
ResolveOffset(t) ==
  /\ request[t].sub = "joining"
  /\ request' = [request EXCEPT ![t].sub = "up", ![t].pos = Len(log["token"])]
  /\ UNCHANGED <<log, events, faults, interruptions, answer>>

(* The consumer is shut down (not awaited: no message follows), and the       *)
(* handler waits for the product.  Whose token it is, is not looked at.       *)
ReceiveToken(t) ==
  /\ request[t].sub = "up"
  /\ request[t].pos < Len(log["token"])
  /\ request' = [request EXCEPT ![t].sub = "down", ![t].pos = @ + 1,
                                ![t].token = log["token"][request[t].pos + 1]]
  /\ UNCHANGED <<log, events, faults, interruptions, answer>>

(* A response already written makes it throw, which is caught, as is an       *)
(* error of the product lookup.                                              *)
AnswerWithToken(t) ==
  /\ request[t].token # None
  /\ \/ /\ NoFault
        /\ answer' = IF Answered(t) THEN answer ELSE [answer EXCEPT ![t] = request[t].token]
        /\ request' = [request EXCEPT ![t].token = None, ![t].sent = @ \/ ~Answered(t)]
     \/ Fault /\ request' = [request EXCEPT ![t].token = None] /\ UNCHANGED answer
  /\ UNCHANGED <<log, events, interruptions>>

-----------------------------------------------------------------------------
(* The process dies: its connections and timers are gone. *)
LoseRequests ==
  /\ request' = [t \in Electricity |->
       IF request[t].pc \in {"new", "ended"} /\ request[t].token = None THEN request[t]
       ELSE [request[t] EXCEPT !.pc = IF @ = "ended" THEN @ ELSE "lost",
                               !.sub = "down", !.token = None]]
  /\ UNCHANGED answer

RequestStep(t) ==
  \/ StartSubscriber(t) \/ PublishPurchase(t) \/ MarkInProgress(t) \/ Catch(t)
  \/ TimerFires(t) \/ Reply(t) \/ LogTokenSent(t)

SubscriberStep(t) == ResolveOffset(t) \/ ReceiveToken(t) \/ AnswerWithToken(t)
=============================================================================
