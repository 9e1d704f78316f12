-------------------------- MODULE TokenDeliveryProofs --------------------------
(***************************************************************************)
(* What holds of TokenDelivery for any transactions, any number of           *)
(* announcements, crashes, lost sessions and errors.                         *)
(*                                                                          *)
(* TypeInv says that the consumer's cursors stay within the logs it reads;   *)
(* RequestInv what a request's point says of its subscriber and its answer;  *)
(* MailInv and CountInv what the consumer has mailed by where it is, at      *)
(* least and at most; PushInv whom TOKEN_SENT_TO_PARTNER may stand for.      *)
(***************************************************************************)
EXTENDS TokenDelivery, TLAPS

Handling == notifier.pc \notin {"idle", "next"}

(* The group is past what it committed, its batch begins there, and neither   *)
(* reaches beyond what was announced.                                        *)
CursorInv ==
  /\ \A topic \in Topics : offset[topic] <= Len(log[topic])
  /\ notifier.pc # "idle" => /\ offset[notifier.topic] <= notifier.at
                             /\ notifier.at <= notifier.upto
                             /\ notifier.upto <= Len(log[notifier.topic])
  /\ Handling => notifier.at \in 1..Len(log[notifier.topic])

TypeInv == TypeOK /\ CursorInv

-----------------------------------------------------------------------------
(* A request that is over, or has its response, has no consumer running; a    *)
(* subscriber is shut down before its handler writes the response.           *)
RequestOK(r, a) ==
  /\ r.pc = "new" => r.sub = "none"
  /\ r.pc \in {"reply", "ended", "lost"} => r.sub \in {"none", "down"}
  /\ r.token # None \/ r.sent => r.sub = "down"
  /\ r.pc = "log" => r.sent
  /\ r.sent => a \in Transactions

RequestInv == \A t \in Electricity : RequestOK(request[t], answer[t])

-----------------------------------------------------------------------------
Mailed(t) == sent[t].mails > 0
Done(t)   == Mailed(t) \/ t \in troubled

MailLogged(t) == "TOKEN_SENT_TO_EMAIL" \in events[t]

(* The consumer is done with a message of its batch. *)
Passed(i) == notifier.pc # "idle" /\ (i < notifier.at \/ (i = notifier.at /\ ~Handling))

(* The events a handler found are the ones there are, as far as mail goes:    *)
(* nobody else writes them.                                                  *)
SeenInv ==
  notifier.pc \in {"push", "logPush", "mail"} => (UserNotified <=> MailLogged(Handled))

MailInv ==
  /\ SeenInv
  /\ \A topic \in Topics : \A i \in 1..Len(log[topic]) :
       i <= offset[topic] => Done(log[topic][i])
  /\ \A i \in 1..Len(log[notifier.topic]) : Passed(i) => Done(log[notifier.topic][i])
  /\ notifier.pc \in {"sms", "logMail"} => Mailed(Handled)
  /\ \A t \in Transactions : MailLogged(t) => Mailed(t)

(* A mail is paid for by its event, by the handler that is about to write it, *)
(* or by an interruption.                                                    *)
Booked(t) == MailLogged(t) \/ (notifier.pc \in {"sms", "logMail"} /\ Handled = t)

CountInv ==
  \A t \in Electricity : sent[t].mails <= IF Booked(t) THEN interruptions + 1
                                                       ELSE interruptions

PushInv ==
  /\ notifier.pc = "logPush" => sent[Handled].pushes > 0
  /\ PartnerEventBacked

-----------------------------------------------------------------------------
USE DEF base, asking, noting

LEMMA ElectricityIn == Electricity \subseteq Transactions
BY DEF Electricity

LEMMA TopicsOf == \A t \in Transactions : TopicOf(t) \in Topics
BY DEF TopicOf, Topics

(* A topic only grows. *)
LEMMA LogGrows ==
  ASSUME AnnouncementsTypeOK, NEW t \in Transactions, PublishAnnouncement(t)
  PROVE  /\ log' \in [Topics -> Seq(Transactions)]
         /\ \A topic \in Topics :
              /\ Len(log[topic]) \in Nat
              /\ Len(log'[topic]) \in Nat
              /\ Len(log[topic]) <= Len(log'[topic])
              /\ \A i \in 1..Len(log[topic]) : log'[topic][i] = log[topic][i]
<1>1. TopicOf(t) \in Topics
  BY TopicsOf
<1>2. log \in [Topics -> Seq(Transactions)]
  BY DEF AnnouncementsTypeOK
<1>3. /\ Append(log[TopicOf(t)], t) \in Seq(Transactions)
      /\ Len(Append(log[TopicOf(t)], t)) = Len(log[TopicOf(t)]) + 1
      /\ \A i \in 1..Len(log[TopicOf(t)]) : Append(log[TopicOf(t)], t)[i] = log[TopicOf(t)][i]
  BY <1>1, <1>2
<1>4. log' = [log EXCEPT ![TopicOf(t)] = Append(log[TopicOf(t)], t)]
  BY DEF PublishAnnouncement
<1>5. \A topic \in Topics : Len(log[topic]) \in Nat
  BY <1>2
<1> QED
  BY <1>1, <1>2, <1>3, <1>4, <1>5

(* The announcement a handler is at work on is there, and stays. *)
LEMMA HandledThere ==
  ASSUME TypeInv, Handling
  PROVE  Handled \in Transactions
<1>1. notifier.topic \in Topics /\ notifier.at \in 1..Len(log[notifier.topic])
  BY DEF TypeInv, TypeOK, CursorInv, NotificationTypeOK, Notifier
<1>2. log[notifier.topic] \in Seq(Transactions)
  BY <1>1 DEF TypeInv, TypeOK, AnnouncementsTypeOK
<1> QED
  BY <1>1, <1>2 DEF Handled

LEMMA FaultsType ==
  ASSUME faults \in Nat, Fault \/ NoFault PROVE faults' \in Nat
BY DEF Fault, NoFault

-----------------------------------------------------------------------------
(* Types *)

LEMMA InitType == Init => TypeInv
BY BoundsAssumption, AirtimeAssumption
DEF Init, AnnouncementsInit, TokenAnswerInit, NotificationInit, TypeInv, TypeOK, CursorInv,
    AnnouncementsTypeOK, TokenAnswerTypeOK, NotificationTypeOK, IdleNotifier, Notifier,
    NotifierPCs, Sent, Request, RequestPCs, SubscriberStates, Electricity, Topics, Handling

(* What a request or its subscriber does to itself, to its answer, and to    *)
(* what it shares with the consumer.                                         *)
LEMMA RequestStepType ==
  ASSUME TypeInv, NEW t \in Electricity,
         RequestStep(t) \/ SubscriberStep(t) \/ RequestError(t)
  PROVE  /\ TokenAnswerTypeOK'
         /\ faults' \in Nat /\ events' \in [Transactions -> SUBSET EventTypes]
         /\ UNCHANGED <<log, interruptions>>
<1> t \in Transactions
  BY ElectricityIn
<1> USE DEF Request, RequestPCs, SubscriberStates
<1>g. /\ request \in [Electricity -> Request]
      /\ answer \in [Electricity -> Transactions \cup {None, "processing"}]
      /\ faults \in Nat /\ events \in [Transactions -> SUBSET EventTypes]
      /\ log["token"] \in Seq(Transactions)
  BY DEF TypeInv, TypeOK, TokenAnswerTypeOK, AnnouncementsTypeOK, Topics
<1>r. /\ request[t] \in Request
      /\ \A r \in Request : [request EXCEPT ![t] = r] \in [Electricity -> Request]
  BY <1>g
<1>p. \A pc \in RequestPCs, sub \in SubscriberStates, b \in BOOLEAN :
        /\ [request[t] EXCEPT !.pc = pc] \in Request
        /\ [request[t] EXCEPT !.pc = pc, !.sub = sub] \in Request
        /\ [request[t] EXCEPT !.pc = pc, !.asked = b] \in Request
  BY <1>r
<1> HIDE DEF Request
<1>1. CASE StartSubscriber(t) \/ PublishPurchase(t) \/ RequestError(t)
  <2>1. request' \in [Electricity -> Request]
    BY <1>1, <1>r, <1>p DEF StartSubscriber, PublishPurchase, RequestError, GotoInRequest
  <2> QED
    BY <1>1, <2>1, <1>g, FaultsType
    DEF StartSubscriber, PublishPurchase, RequestError, TokenAnswerTypeOK
<1>2. CASE MarkInProgress(t) \/ Catch(t) \/ TimerFires(t) \/ Reply(t)
  <2>1. request' \in [Electricity -> Request]
    BY <1>2, <1>r, <1>p DEF MarkInProgress, Catch, TimerFires, Reply, GotoInRequest
  <2> QED
    BY <1>2, <2>1, <1>g DEF MarkInProgress, Catch, TimerFires, Reply, TokenAnswerTypeOK
<1>3. CASE LogTokenSent(t)
  <2>1. request' \in [Electricity -> Request]
    BY <1>3, <1>r, <1>p DEF LogTokenSent, GotoInRequest
  <2> QED
    BY <1>3, <2>1, <1>g DEF LogTokenSent, AddEvent, EventTypes, TokenAnswerTypeOK
<1> USE DEF Request
<1>4. CASE ResolveOffset(t)
  <2>1. Len(log["token"]) \in Nat
    BY <1>g
  <2> DEFINE n == Len(log["token"])
  <2> HIDE DEF n
  <2>2. [request[t] EXCEPT !.sub = "up", !.pos = n] \in Request
    BY <2>1, <1>r DEF n
  <2> QED
    BY <1>4, <2>2, <1>g, <1>r DEF ResolveOffset, TokenAnswerTypeOK, n
<1>5. CASE ReceiveToken(t)
  <2>1. log["token"][request[t].pos + 1] \in Transactions /\ request[t].pos + 1 \in Nat
    BY <1>5, <1>g DEF ReceiveToken
  <2> QED
    BY <1>5, <2>1, <1>g DEF ReceiveToken, TokenAnswerTypeOK
<1>6. CASE AnswerWithToken(t)
  <2>1. request[t].token \in Transactions
    BY <1>6, <1>g DEF AnswerWithToken
  <2>2. answer' \in [Electricity -> Transactions \cup {None, "processing"}]
    BY <1>6, <2>1, <1>g DEF AnswerWithToken
  <2>3. request' \in [Electricity -> Request]
    <3> DEFINE s == request[t].sent \/ ~Answered(t)
    <3>1. s \in BOOLEAN
      BY DEF Answered
    <3>2. \/ request' = [request EXCEPT ![t].token = None, ![t].sent = s]
          \/ request' = [request EXCEPT ![t].token = None]
      BY <1>6 DEF AnswerWithToken
    <3> HIDE DEF s
    <3>3. /\ [request[t] EXCEPT !.token = None, !.sent = s] \in Request
          /\ [request[t] EXCEPT !.token = None] \in Request
      BY <3>1, <1>r
    <3> QED
      BY <3>2, <3>3, <1>r
  <2> QED
    BY <1>6, <2>2, <2>3, <1>g, FaultsType DEF AnswerWithToken, TokenAnswerTypeOK
<1> QED
  BY <1>1, <1>2, <1>3, <1>4, <1>5, <1>6 DEF RequestStep, SubscriberStep

(* What a death does. *)
LEMMA DieType ==
  ASSUME TypeInv, Die
  PROVE  /\ TokenAnswerTypeOK' /\ NotificationTypeOK' /\ CursorInv'
         /\ interruptions' \in Nat
<1>1. TokenAnswerTypeOK'
  BY DEF Die, LoseRequests, TypeInv, TypeOK, TokenAnswerTypeOK, Request, RequestPCs,
         SubscriberStates
<1>2. NotificationTypeOK' /\ CursorInv' /\ interruptions' \in Nat
  BY DEF Die, LoseNotifier, TypeInv, TypeOK, AnnouncementsTypeOK, NotificationTypeOK,
         CursorInv, Handling, IdleNotifier, Notifier, NotifierPCs, Topics
<1> QED
  BY <1>1, <1>2

(* The consumer stays on its batch. *)
StaysOnBatch ==
  /\ notifier'.topic = notifier.topic
  /\ notifier'.at = notifier.at
  /\ notifier'.upto = notifier.upto

LEMMA GotoType ==
  ASSUME TypeInv, NEW pc \in NotifierPCs, GotoInNotifier(pc)
  PROVE  /\ notifier' \in Notifier
         /\ notifier'.pc = pc
         /\ notifier'.seen = notifier.seen
         /\ StaysOnBatch
BY DEF TypeInv, TypeOK, NotificationTypeOK, Notifier, GotoInNotifier, StaysOnBatch

(* A step on the batch at hand keeps the cursors. *)
LEMMA CursorKept ==
  ASSUME TypeInv, notifier.pc # "idle", StaysOnBatch,
         Handling' => Handling, UNCHANGED <<offset, log>>
  PROVE  CursorInv'
BY DEF TypeInv, CursorInv, StaysOnBatch, Handling

(* Counting something sent. *)
LEMMA SentType ==
  ASSUME TypeInv, NEW t \in Transactions,
         \/ sent' = [sent EXCEPT ![t].rows = @ + 1]
         \/ sent' = [sent EXCEPT ![t].pushes = @ + 1]
         \/ sent' = [sent EXCEPT ![t].mails = @ + 1]
         \/ sent' = [sent EXCEPT ![t].texts = @ + 1]
  PROVE  sent' \in [Transactions -> Sent]
<1>1. sent \in [Transactions -> Sent]
  BY DEF TypeInv, TypeOK, NotificationTypeOK
<1>2. /\ [sent[t] EXCEPT !.rows = @ + 1] \in Sent
      /\ [sent[t] EXCEPT !.pushes = @ + 1] \in Sent
      /\ [sent[t] EXCEPT !.mails = @ + 1] \in Sent
      /\ [sent[t] EXCEPT !.texts = @ + 1] \in Sent
  BY <1>1 DEF Sent
<1>3. \A x \in Sent : [sent EXCEPT ![t] = x] \in [Transactions -> Sent]
  BY <1>1
<1> QED
  BY <1>2, <1>3

LEMMA EventsType ==
  ASSUME TypeInv, NEW t \in Transactions, NEW e \in EventTypes, AddEvent(t, e)
  PROVE  events' \in [Transactions -> SUBSET EventTypes]
BY DEF TypeInv, TypeOK, AnnouncementsTypeOK, AddEvent

(* The offset and the batch. *)
LEMMA BatchStepType ==
  ASSUME TypeInv, FetchBatch \/ CommitBatch \/ BeginMessage
  PROVE  NotificationTypeOK' /\ CursorInv' /\ UNCHANGED <<log, events, faults, interruptions>>
<1>g. /\ offset \in [Topics -> Nat] /\ notifier \in Notifier
      /\ \A topic \in Topics : Len(log[topic]) \in Nat
      /\ IdleNotifier \in Notifier /\ IdleNotifier.pc = "idle"
  BY DEF TypeInv, TypeOK, NotificationTypeOK, AnnouncementsTypeOK, IdleNotifier, Notifier,
         NotifierPCs, Topics
<1>1. CASE FetchBatch
  <2>0. PICK topic \in Topics : \E n \in offset[topic] + 1 .. Len(log[topic]) :
          notifier' = [IdleNotifier EXCEPT !.pc = "next", !.topic = topic,
                                           !.at = offset[topic], !.upto = n]
    BY <1>1 DEF FetchBatch
  <2>1. PICK n \in offset[topic] + 1 .. Len(log[topic]) :
          notifier' = [IdleNotifier EXCEPT !.pc = "next", !.topic = topic,
                                           !.at = offset[topic], !.upto = n]
    BY <2>0
  <2>2. n \in Nat /\ offset[topic] < n /\ n <= Len(log[topic])
    BY <1>g
  <2>3. /\ notifier'.pc = "next" /\ notifier'.topic = topic
        /\ notifier'.at = offset[topic] /\ notifier'.upto = n
        /\ notifier' \in Notifier
    BY <2>1, <2>2, <1>g DEF IdleNotifier, Notifier, NotifierPCs
  <2>4. UNCHANGED <<log, events, faults, interruptions, offset, sent, troubled>>
    BY <1>1 DEF FetchBatch
  <2>5. NotificationTypeOK'
    BY <2>3, <2>4 DEF TypeInv, TypeOK, NotificationTypeOK
  <2>6. CursorInv'
    BY <2>2, <2>3, <2>4, <1>g DEF TypeInv, CursorInv, Handling
  <2> QED
    BY <2>4, <2>5, <2>6
<1>2. CASE CommitBatch
  <2>1. offset' \in [Topics -> Nat] /\ \A topic \in Topics : offset'[topic] <= Len(log[topic])
    BY <1>2, <1>g DEF CommitBatch, TypeInv, CursorInv, Notifier
  <2> QED
    BY <1>2, <2>1, <1>g
    DEF CommitBatch, TypeInv, TypeOK, NotificationTypeOK, CursorInv, Handling
<1>3. CASE BeginMessage
  <2>0. /\ notifier.at + 1 \in Nat /\ {} \in SUBSET EventTypes /\ "check" \in NotifierPCs
    BY <1>g DEF Notifier, NotifierPCs
  <2>1. /\ notifier'.pc = "check" /\ notifier'.topic = notifier.topic
        /\ notifier'.at = notifier.at + 1 /\ notifier'.upto = notifier.upto
        /\ notifier' \in Notifier
    BY <1>3, <1>g, <2>0 DEF BeginMessage, Notifier
  <2>2. notifier.at \in Nat /\ notifier.upto \in Nat /\ offset[notifier.topic] \in Nat
    BY <1>g DEF Notifier
  <2> QED
    BY <1>3, <2>1, <2>2, <1>g
    DEF BeginMessage, TypeInv, TypeOK, NotificationTypeOK, CursorInv, Handling, Notifier
<1> QED
  BY <1>1, <1>2, <1>3 DEF FetchBatch, CommitBatch, BeginMessage

(* What a handler does, and whose message it does it for. *)
LEMMA HandlerStepType ==
  ASSUME TypeInv, CheckEvents \/ Push \/ LogPush \/ Mail \/ SendText \/ LogMail
  PROVE  /\ Handled \in Transactions /\ Handling
         /\ StaysOnBatch /\ notifier'.pc # "idle"
         /\ NotificationTypeOK' /\ CursorInv'
         /\ faults' \in Nat /\ events' \in [Transactions -> SUBSET EventTypes]
         /\ UNCHANGED <<log, interruptions, offset, troubled>>
<1>h. Handled \in Transactions /\ Handling
  BY HandledThere DEF Handling, CheckEvents, Push, LogPush, Mail, SendText, LogMail
<1>g. /\ notifier \in Notifier /\ sent \in [Transactions -> Sent]
      /\ offset \in [Topics -> Nat] /\ troubled \subseteq Transactions
      /\ faults \in Nat /\ events \in [Transactions -> SUBSET EventTypes]
  BY DEF TypeInv, TypeOK, NotificationTypeOK, AnnouncementsTypeOK
<1>p. {"next", "push", "logPush", "mail", "sms", "logMail"} \subseteq NotifierPCs
  BY DEF NotifierPCs
<1>e. {PartnerEvent(Handled), MailEvent(Handled), "SMS_TOKEN_SENT_TO_USER"} \subseteq EventTypes
  BY DEF PartnerEvent, MailEvent, EventTypes
<1>f. faults' \in Nat
  BY <1>g, FaultsType DEF CheckEvents, Push, LogPush, Mail, SendText, LogMail
<1>n. /\ notifier' \in Notifier /\ StaysOnBatch
      /\ notifier'.pc \in NotifierPCs \ {"idle"}
  <2>1. CASE CheckEvents
    BY <2>1, <1>g, <1>h, <1>p DEF CheckEvents, Notifier, StaysOnBatch
  <2>2. CASE Push \/ LogPush \/ Mail \/ SendText \/ LogMail
    BY <2>2, <1>p, GotoType DEF Push, LogPush, Mail, SendText, LogMail
  <2> QED
    BY <2>1, <2>2
<1>s. sent' \in [Transactions -> Sent]
  BY <1>g, <1>h, SentType DEF CheckEvents, AddNotification, Push, LogPush, Mail, SendText, LogMail
<1>v. events' \in [Transactions -> SUBSET EventTypes]
  BY <1>g, <1>h, <1>e, EventsType DEF CheckEvents, Push, LogPush, Mail, SendText, LogMail
<1>u. UNCHANGED <<log, interruptions, offset, troubled>>
  BY DEF CheckEvents, Push, LogPush, Mail, SendText, LogMail
<1>c. CursorInv'
  BY <1>h, <1>n, <1>u, CursorKept DEF Handling
<1> QED
  BY <1>g, <1>h, <1>f, <1>n, <1>s, <1>v, <1>u, <1>c DEF NotificationTypeOK

(* What happens to the consumer while it lives. *)
LEMMA TroubleType ==
  ASSUME TypeInv, HandlerThrows \/ LoseSession
  PROVE  /\ NotificationTypeOK' /\ CursorInv'
         /\ faults' \in Nat
         /\ interruptions' = interruptions + 1
         /\ StaysOnBatch /\ notifier.pc # "idle"
         /\ troubled \subseteq troubled'
         /\ UNCHANGED <<log, events, offset, sent>>
<1>g. faults \in Nat /\ NotificationTypeOK
  BY DEF TypeInv, TypeOK, AnnouncementsTypeOK
<1>f. faults' \in Nat
  BY <1>g, FaultsType DEF HandlerThrows, LoseSession
<1>1. CASE HandlerThrows
  <2>1. Handling /\ Handled \in Transactions
    BY <1>1, HandledThere DEF HandlerThrows, Handling
  <2>2. notifier' \in Notifier /\ notifier'.pc = "next" /\ StaysOnBatch
    BY <1>1, GotoType DEF HandlerThrows, NotifierPCs
  <2>3. CursorInv'
    BY <1>1, <2>1, <2>2, CursorKept DEF HandlerThrows, Handling
  <2> QED
    BY <1>1, <1>f, <1>g, <2>1, <2>2, <2>3 DEF HandlerThrows, NotificationTypeOK, Handling
<1>2. CASE LoseSession
  <2>1. notifier' \in Notifier /\ notifier'.pc = notifier.pc /\ StaysOnBatch
    BY <1>2, <1>g DEF LoseSession, NotificationTypeOK, Notifier, StaysOnBatch
  <2>2. CursorInv'
    BY <1>2, <2>1, CursorKept DEF LoseSession, Handling
  <2> QED
    BY <1>2, <1>f, <1>g, <2>1, <2>2 DEF LoseSession, NotificationTypeOK
<1> QED
  BY <1>1, <1>2

(* An announcement leaves what is there where it is. *)
LEMMA AnnounceType ==
  ASSUME TypeInv, NEW t \in Transactions, Announce(t)
  PROVE  /\ log' \in [Topics -> Seq(Transactions)] /\ CursorInv'
         /\ Handling => Handled' = Handled
<1>g. AnnouncementsTypeOK /\ NotificationTypeOK /\ CursorInv
  BY DEF TypeInv, TypeOK
<1>1. /\ log' \in [Topics -> Seq(Transactions)]
      /\ \A topic \in Topics :
           /\ Len(log[topic]) \in Nat
           /\ Len(log'[topic]) \in Nat
           /\ Len(log[topic]) <= Len(log'[topic])
           /\ \A i \in 1..Len(log[topic]) : log'[topic][i] = log[topic][i]
  BY <1>g, LogGrows DEF Announce
<1>2. UNCHANGED <<offset, notifier>>
  BY DEF Announce
<1>3. /\ notifier.topic \in Topics /\ notifier.at \in Nat /\ notifier.upto \in Nat
      /\ offset \in [Topics -> Nat]
  BY <1>g DEF NotificationTypeOK, Notifier
<1>4. CursorInv'
  BY <1>g, <1>1, <1>2, <1>3 DEF CursorInv, Handling
<1>5. Handling => Handled' = Handled
  BY <1>g, <1>1, <1>2, <1>3 DEF CursorInv, Handled
<1> QED
  BY <1>1, <1>4, <1>5

(* Every step keeps the types and the cursors. *)
LEMMA TypeStep == TypeInv /\ [Next]_vars => TypeInv'
<1> SUFFICES ASSUME TypeInv, [Next]_vars PROVE TypeInv'
  OBVIOUS
<1>g. /\ AnnouncementsTypeOK /\ TokenAnswerTypeOK /\ NotificationTypeOK /\ CursorInv
      /\ log \in [Topics -> Seq(Transactions)]
      /\ events \in [Transactions -> SUBSET EventTypes]
      /\ faults \in Nat /\ interruptions \in Nat
  BY DEF TypeInv, TypeOK, AnnouncementsTypeOK
<1>n. UNCHANGED noting => NotificationTypeOK'
  BY <1>g DEF NotificationTypeOK
<1>c. UNCHANGED <<log, noting>> => CursorInv'
  BY <1>g DEF CursorInv, Handling
<1>a. UNCHANGED asking => TokenAnswerTypeOK'
  BY <1>g DEF TokenAnswerTypeOK
<1>1. ASSUME NEW t \in Transactions, Announce(t) PROVE TypeInv'
  BY <1>1, <1>g, <1>n, <1>a, AnnounceType DEF Announce, TypeInv, TypeOK, AnnouncementsTypeOK
<1>2. ASSUME NEW t \in Electricity, RequestStep(t) \/ SubscriberStep(t) \/ RequestError(t),
             UNCHANGED noting
      PROVE  TypeInv'
  BY <1>2, <1>g, <1>n, <1>c, RequestStepType DEF TypeInv, TypeOK, AnnouncementsTypeOK
<1>3. ASSUME Die, faults' \in Nat PROVE TypeInv'
  BY <1>3, <1>g, DieType DEF Die, TypeInv, TypeOK, AnnouncementsTypeOK
<1>4. ASSUME NEW t \in Electricity, ReplyTwice(t) PROVE TypeInv'
  BY <1>4, <1>3, <1>g DEF ReplyTwice
<1>5. CASE Crash
  BY <1>5, <1>3, <1>g, FaultsType DEF Crash
<1>6. ASSUME FetchBatch \/ CommitBatch \/ BeginMessage, UNCHANGED asking PROVE TypeInv'
  BY <1>6, <1>g, <1>a, BatchStepType DEF TypeInv, TypeOK, AnnouncementsTypeOK
<1>7. ASSUME CheckEvents \/ Push \/ LogPush \/ Mail \/ SendText \/ LogMail, UNCHANGED asking
      PROVE  TypeInv'
  BY <1>7, <1>g, <1>a, HandlerStepType DEF TypeInv, TypeOK, AnnouncementsTypeOK
<1>8. ASSUME HandlerThrows \/ LoseSession, UNCHANGED asking PROVE TypeInv'
  BY <1>8, <1>g, <1>a, TroubleType DEF TypeInv, TypeOK, AnnouncementsTypeOK
<1>9. CASE UNCHANGED vars
  BY <1>9, <1>g, <1>n, <1>c, <1>a DEF vars, TypeInv, TypeOK, AnnouncementsTypeOK
<1> QED
  BY <1>1, <1>2, <1>4, <1>5, <1>6, <1>7, <1>8, <1>9 DEF Next, AnswerStep, NotifierStep

(* TypeOK: every variable has its type, whatever is lost or comes twice, and *)
(* no cursor leaves its log.                                                 *)
THEOREM DeliveryTypes == Spec => []TypeOK
<1>1. TypeInv => TypeOK
  BY DEF TypeInv
<1> QED
  BY <1>1, InitType, TypeStep, PTL DEF Spec

LEMMA TypeInvariant == Spec => []TypeInv
BY InitType, TypeStep, PTL DEF Spec

-----------------------------------------------------------------------------
(* Requests and their subscribers *)

LEMMA RequestInit == Init => RequestInv
BY DEF Init, TokenAnswerInit, RequestInv, RequestOK

(* A step of a request or its subscriber is about itself. *)
LEMMA RequestStepOK ==
  ASSUME TypeInv, RequestInv, NEW t \in Electricity,
         RequestStep(t) \/ SubscriberStep(t) \/ RequestError(t)
  PROVE  /\ RequestOK(request'[t], answer'[t])
         /\ \A s \in Electricity \ {t} : /\ request'[s] = request[s]
                                         /\ answer'[s] = answer[s]
         /\ answer[t] \in Transactions => answer'[t] \in Transactions
<1>g. /\ request \in [Electricity -> Request]
      /\ answer \in [Electricity -> Transactions \cup {None, "processing"}]
      /\ RequestOK(request[t], answer[t])
  BY DEF TypeInv, TypeOK, TokenAnswerTypeOK, RequestInv
<1>1. CASE StartSubscriber(t) \/ PublishPurchase(t) \/ MarkInProgress(t) \/ RequestError(t)
  BY <1>1, <1>g
  DEF StartSubscriber, PublishPurchase, MarkInProgress, RequestError, GotoInRequest, RequestOK,
      Request
<1>2. CASE Catch(t) \/ TimerFires(t) \/ LogTokenSent(t)
  BY <1>2, <1>g DEF Catch, TimerFires, LogTokenSent, GotoInRequest, RequestOK, Request
<1>3. CASE ResolveOffset(t) \/ ReceiveToken(t)
  BY <1>3, <1>g DEF ResolveOffset, ReceiveToken, RequestOK, Request
<1>4. CASE Reply(t)
  BY <1>4, <1>g, AirtimeAssumption DEF Reply, Answered, GotoInRequest, RequestOK, Request
<1>5. CASE AnswerWithToken(t)
  <2>1. request[t].token \in Transactions
    BY <1>5, <1>g DEF AnswerWithToken, Request
  <2>2. CASE request' = [request EXCEPT ![t].token = None] /\ UNCHANGED answer
    BY <2>1, <2>2, <1>g DEF RequestOK, Request
  <2>3. CASE /\ answer' = IF Answered(t) THEN answer ELSE [answer EXCEPT ![t] = request[t].token]
             /\ request' = [request EXCEPT ![t].token = None, ![t].sent = @ \/ ~Answered(t)]
    <3>1. CASE Answered(t)
      <4>1. request' = [request EXCEPT ![t].token = None, ![t].sent = request[t].sent]
        <5>1. (request[t].sent \/ ~Answered(t)) = request[t].sent
          BY <3>1, <1>g DEF Request
        <5> QED
          BY <2>3, <5>1
      <4> QED
        BY <4>1, <2>1, <2>3, <3>1, <1>g DEF RequestOK, Request
    <3>2. CASE ~Answered(t)
      <4>1. request' = [request EXCEPT ![t].token = None, ![t].sent = TRUE]
        BY <2>3, <3>2
      <4> QED
        BY <4>1, <2>1, <2>3, <3>2, <1>g DEF RequestOK, Request
    <3> QED
      BY <3>1, <3>2
  <2> QED
    BY <1>5, <2>2, <2>3 DEF AnswerWithToken
<1> QED
  BY <1>1, <1>2, <1>3, <1>4, <1>5 DEF RequestStep, SubscriberStep

LEMMA DieOK ==
  ASSUME TypeInv, RequestInv, Die PROVE RequestInv' /\ UNCHANGED answer
BY DEF TypeInv, TypeOK, TokenAnswerTypeOK, RequestInv, RequestOK, Request, Die, LoseRequests

LEMMA RequestInvStep == TypeInv /\ RequestInv /\ [Next]_vars => RequestInv'
<1> SUFFICES ASSUME TypeInv, RequestInv, [Next]_vars PROVE RequestInv'
  OBVIOUS
<1>1. ASSUME NEW t \in Electricity, RequestStep(t) \/ SubscriberStep(t) \/ RequestError(t)
      PROVE  RequestInv'
  <2> SUFFICES ASSUME NEW s \in Electricity PROVE RequestOK(request'[s], answer'[s])
    BY DEF RequestInv
  <2>1. CASE s = t
    BY <1>1, <2>1, RequestStepOK
  <2>2. CASE s # t
    BY <1>1, <2>2, RequestStepOK DEF RequestInv
  <2> QED
    BY <2>1, <2>2
<1>2. CASE Die
  BY <1>2, DieOK
<1>3. CASE UNCHANGED asking
  BY <1>3 DEF RequestInv
<1> QED
  BY <1>1, <1>2, <1>3 DEF Next, vars, AnswerStep, ReplyTwice, Crash, Announce

LEMMA RequestInvariant == Spec => []RequestInv
<1>1. Init => TypeInv /\ RequestInv
  BY InitType, RequestInit
<1>2. TypeInv /\ RequestInv /\ [Next]_vars => (TypeInv /\ RequestInv)'
  BY TypeStep, RequestInvStep
<1> QED
  BY <1>1, <1>2, PTL DEF Spec

(* NoSubscriberLeft: every way out of a request, through errors, timeouts,    *)
(* late tokens and deaths of the process, shuts its consumer down.           *)
THEOREM SubscriberShutDown == Spec => []NoSubscriberLeft
<1>1. RequestInv => NoSubscriberLeft
  BY DEF RequestInv, RequestOK, NoSubscriberLeft
<1> QED
  BY <1>1, RequestInvariant, PTL

-----------------------------------------------------------------------------
(* What the consumer has mailed *)

(* Mails, and what handlers threw for, stay.                                 *)
Grows ==
  /\ \A t \in Transactions : sent[t].mails <= sent'[t].mails
  /\ troubled \subseteq troubled'

LEMMA DoneStays ==
  ASSUME TypeInv, TypeInv', Grows, NEW t \in Transactions
  PROVE  (Mailed(t) => Mailed(t)') /\ (Done(t) => Done(t)')
<1>1. sent[t].mails \in Nat /\ sent'[t].mails \in Nat
  BY DEF TypeInv, TypeOK, NotificationTypeOK, Sent
<1> QED
  BY <1>1 DEF Mailed, Done, Grows

(* Every message of a topic is a transaction. *)
LEMMA LoggedThere ==
  ASSUME TypeInv, NEW topic \in Topics, NEW i \in 1..Len(log[topic])
  PROVE  log[topic][i] \in Transactions
<1>1. log[topic] \in Seq(Transactions)
  BY DEF TypeInv, TypeOK, AnnouncementsTypeOK
<1> QED
  BY <1>1

LEMMA MailInit == Init => MailInv
BY DEF Init, AnnouncementsInit, NotificationInit, IdleNotifier, MailInv, SeenInv, MailLogged,
       Passed

(* A step that leaves the consumer and its logs alone: a request may log      *)
(* that the partner was answered.                                            *)
LEMMA MailElsewhere ==
  ASSUME TypeInv, MailInv, UNCHANGED <<log, noting>>,
         \A t \in Transactions : MailLogged(t)' <=> MailLogged(t)
  PROVE  MailInv'
<1>1. Handled' = Handled
  BY DEF Handled
<1>2. SeenInv'
  BY <1>1, HandledThere DEF MailInv, SeenInv, UserNotified, Handling
<1> QED
  BY <1>1, <1>2 DEF MailInv, Mailed, Done, Passed, Handling

(* A handler's step from message to message. *)
LEMMA MailHandler ==
  ASSUME TypeInv, TypeInv', MailInv, Handling, StaysOnBatch, notifier'.pc # "idle", Grows,
         UNCHANGED <<log, offset>>, SeenInv',
         ~Handling' => Done(Handled)',
         notifier'.pc \in {"sms", "logMail"} => Mailed(Handled)',
         \A t \in Transactions : MailLogged(t)' => Mailed(t)'
  PROVE  MailInv'
<1>g. notifier.topic \in Topics
  BY DEF TypeInv, TypeOK, NotificationTypeOK, Notifier
<1>1. ASSUME NEW topic \in Topics, NEW i \in 1..Len(log[topic]), i <= offset[topic]
      PROVE  Done(log[topic][i])'
  <2>1. Done(log[topic][i]) /\ log[topic][i] \in Transactions
    BY <1>1, LoggedThere DEF MailInv
  <2> QED
    BY <2>1, DoneStays
<1>2. ASSUME NEW i \in 1..Len(log[notifier.topic]), Passed(i)'
      PROVE  Done(log[notifier.topic][i])'
  <2>1. CASE i = notifier.at
    BY <1>2, <2>1 DEF Passed, StaysOnBatch, Handled
  <2>2. CASE i # notifier.at
    <3>1. Passed(i)
      BY <1>2, <2>2 DEF Passed, StaysOnBatch, Handling
    <3>2. Done(log[notifier.topic][i]) /\ log[notifier.topic][i] \in Transactions
      BY <1>g, <3>1, LoggedThere DEF MailInv
    <3>3. UNCHANGED <<log, notifier.topic>>
      BY DEF StaysOnBatch
    <3> QED
      BY <3>2, <3>3, DoneStays
  <2> QED
    BY <2>1, <2>2
<1>3. (\A topic \in Topics : \A i \in 1..Len(log[topic]) :
        i <= offset[topic] => Done(log[topic][i]))'
  BY <1>1
<1>4. (\A i \in 1..Len(log[notifier.topic]) : Passed(i) => Done(log[notifier.topic][i]))'
  BY <1>2 DEF StaysOnBatch
<1> QED
  BY <1>3, <1>4 DEF MailInv

(* What a request does to the events. *)
LEMMA RequestEvents ==
  ASSUME TypeInv, NEW t \in Electricity,
         RequestStep(t) \/ SubscriberStep(t) \/ RequestError(t)
  PROVE  \A s \in Transactions : events'[s] \subseteq events[s] \cup {"TOKEN_SENT_TO_PARTNER"}
         /\ events[s] \subseteq events'[s]
         /\ (s # t \/ request[t].pc # "log" => events'[s] = events[s])
<1>1. events \in [Transactions -> SUBSET EventTypes]
  BY DEF TypeInv, TypeOK, AnnouncementsTypeOK
<1>2. CASE LogTokenSent(t)
  BY <1>1, <1>2, ElectricityIn DEF LogTokenSent, AddEvent
<1>3. CASE UNCHANGED events
  BY <1>3
<1> QED
  BY <1>2, <1>3
  DEF RequestStep, SubscriberStep, RequestError, StartSubscriber, PublishPurchase,
      MarkInProgress, Catch, TimerFires, Reply, ResolveOffset, ReceiveToken, AnswerWithToken

(* A batch is fetched from the commit on, and committed when it is passed. *)
LEMMA MailBatch ==
  ASSUME TypeInv, MailInv, FetchBatch \/ CommitBatch \/ BeginMessage
  PROVE  MailInv'
<1>u. UNCHANGED <<log, events, sent, troubled>>
  BY DEF FetchBatch, CommitBatch, BeginMessage
<1>g. /\ offset \in [Topics -> Nat] /\ notifier \in Notifier
      /\ UNCHANGED <<log, events, sent, troubled>>
      /\ notifier.pc # "idle" => notifier.upto <= Len(log[notifier.topic])
      /\ \A topic \in Topics : Len(log[topic]) \in Nat
  BY <1>u DEF TypeInv, TypeOK, NotificationTypeOK, AnnouncementsTypeOK, CursorInv
<1>m. (\A t \in Transactions : MailLogged(t) => Mailed(t))'
  BY <1>g DEF MailInv, MailLogged, Mailed
<1>1. CASE FetchBatch
  <2>1. PICK topic \in Topics : \E n \in offset[topic] + 1 .. Len(log[topic]) :
          notifier' = [IdleNotifier EXCEPT !.pc = "next", !.topic = topic,
                                           !.at = offset[topic], !.upto = n]
    BY <1>1 DEF FetchBatch
  <2>2. /\ notifier'.pc = "next" /\ notifier'.topic = topic
        /\ notifier'.at = offset[topic] /\ UNCHANGED offset
    BY <1>1, <2>1 DEF FetchBatch, IdleNotifier
  <2>3. ASSUME NEW i \in 1..Len(log[topic]), Passed(i)' PROVE Done(log[topic][i])
    BY <2>2, <2>3, <1>g DEF Passed, MailInv, Handling
  <2> QED
    BY <2>2, <2>3, <1>g, <1>m DEF MailInv, SeenInv, Done, Mailed
<1>2. CASE CommitBatch
  <2>1. notifier'.pc = "idle" /\ notifier.pc = "next" /\ notifier.at = notifier.upto
    BY <1>2 DEF CommitBatch, IdleNotifier
  <2>2. offset' = [offset EXCEPT ![notifier.topic] = notifier.at] \/ UNCHANGED offset
    BY <1>2 DEF CommitBatch
  <2>3. ASSUME NEW topic \in Topics, NEW i \in 1..Len(log[topic]), i <= offset'[topic]
        PROVE  Done(log[topic][i])
    <3>1. CASE i <= offset[topic]
      BY <3>1 DEF MailInv
    <3>2. CASE i > offset[topic]
      <4>1. topic = notifier.topic /\ i <= notifier.at
        BY <2>2, <2>3, <3>2, <1>g DEF Notifier
      <4>2. Passed(i)
        BY <2>1, <4>1, <1>g DEF Passed, Handling, Notifier
      <4> QED
        BY <4>1, <4>2 DEF MailInv
    <3> QED
      BY <3>1, <3>2, <1>g
  <2> QED
    BY <2>1, <2>3, <1>g, <1>m DEF MailInv, SeenInv, Done, Mailed, Passed
<1>3. CASE BeginMessage
  <2>1. /\ notifier'.pc = "check" /\ notifier.pc = "next"
        /\ notifier'.topic = notifier.topic /\ notifier'.at = notifier.at + 1
        /\ UNCHANGED offset
    BY <1>3, <1>g DEF BeginMessage, Notifier
  <2>2. ASSUME NEW i \in 1..Len(log[notifier.topic]), Passed(i)'
        PROVE  Passed(i)
    BY <2>1, <2>2, <1>g DEF Passed, Handling, Notifier
  <2> QED
    BY <2>1, <2>2, <1>g, <1>m DEF MailInv, SeenInv, Done, Mailed
<1> QED
  BY <1>1, <1>2, <1>3

LEMMA MailInvStep == TypeInv /\ MailInv /\ [Next]_vars => MailInv'
<1> SUFFICES ASSUME TypeInv, MailInv, [Next]_vars PROVE MailInv'
  OBVIOUS
<1>t. TypeInv'
  BY TypeStep
<1>g. /\ notifier \in Notifier /\ sent \in [Transactions -> Sent]
      /\ events \in [Transactions -> SUBSET EventTypes] /\ troubled \subseteq Transactions
      /\ \A t \in Transactions : sent[t].mails \in Nat
  BY DEF TypeInv, TypeOK, NotificationTypeOK, AnnouncementsTypeOK, Sent
<1>1. ASSUME NEW t \in Transactions, Announce(t) PROVE MailInv'
  <2>1. /\ \A topic \in Topics :
             /\ Len(log[topic]) \in Nat /\ Len(log'[topic]) \in Nat
             /\ \A i \in 1..Len(log[topic]) : log'[topic][i] = log[topic][i]
        /\ Handling => Handled' = Handled
        /\ UNCHANGED <<events, noting>>
    BY <1>1, LogGrows, AnnounceType DEF Announce, TypeInv, TypeOK
  <2>2. /\ CursorInv /\ notifier.topic \in Topics /\ notifier.at \in Nat
        /\ offset \in [Topics -> Nat]
    BY <1>g DEF TypeInv, TypeOK, NotificationTypeOK, Notifier
  <2>3. ASSUME NEW topic \in Topics, NEW i \in 1..Len(log'[topic]), i <= offset[topic]
        PROVE  Done(log[topic][i]) /\ log'[topic][i] = log[topic][i]
    BY <2>1, <2>2, <2>3 DEF CursorInv, MailInv
  <2>4. ASSUME NEW i \in 1..Len(log'[notifier.topic]), Passed(i)
        PROVE  Done(log[notifier.topic][i]) /\ log'[notifier.topic][i] = log[notifier.topic][i]
    BY <2>1, <2>2, <2>4, <1>g DEF CursorInv, MailInv, Passed, Notifier
  <2>5. SeenInv'
    BY <2>1, HandledThere DEF MailInv, SeenInv, UserNotified, Handling, MailLogged
  <2>6. /\ \A s : Done(s)' <=> Done(s)
        /\ \A s : Mailed(s)' <=> Mailed(s)
        /\ \A i : Passed(i)' <=> Passed(i)
    BY <2>1 DEF Done, Mailed, Passed, Handling
  <2>7. notifier'.pc \in {"sms", "logMail"} => Mailed(Handled)'
    BY <2>1 DEF MailInv, Handling, Mailed
  <2>8. (\A topic \in Topics : \A i \in 1..Len(log[topic]) :
           i <= offset[topic] => Done(log[topic][i]))'
    BY <2>1, <2>3 DEF Done, Mailed
  <2>9. (\A i \in 1..Len(log[notifier.topic]) : Passed(i) => Done(log[notifier.topic][i]))'
    BY <2>1, <2>4, <2>6 DEF Done, Mailed
  <2>10. (\A s \in Transactions : MailLogged(s) => Mailed(s))'
    BY <2>1 DEF MailInv, MailLogged, Mailed
  <2> QED
    BY <2>5, <2>7, <2>8, <2>9, <2>10 DEF MailInv
<1>2. ASSUME NEW t \in Electricity, RequestStep(t) \/ SubscriberStep(t) \/ RequestError(t),
             UNCHANGED noting
      PROVE  MailInv'
  <2>1. \A s \in Transactions : MailLogged(s)' <=> MailLogged(s)
    BY <1>2, RequestEvents DEF MailLogged
  <2> QED
    BY <1>2, <2>1, MailElsewhere, RequestStepType
<1>3. CASE Die
  <2>1. notifier'.pc = "idle" /\ UNCHANGED <<log, events, offset, sent, troubled>>
    BY <1>3 DEF Die, LoseNotifier, IdleNotifier
  <2> QED
    BY <2>1 DEF MailInv, SeenInv, Done, Mailed, MailLogged, Passed
<1>4. CASE FetchBatch \/ CommitBatch \/ BeginMessage
  BY <1>4, MailBatch
<1>5. ASSUME CheckEvents \/ Push \/ LogPush \/ Mail \/ SendText \/ LogMail
      PROVE  MailInv'
  <2>h. /\ Handled \in Transactions /\ Handling /\ StaysOnBatch /\ notifier'.pc # "idle"
        /\ UNCHANGED <<log, interruptions, offset, troubled>> /\ Handled' = Handled
    BY <1>5, HandlerStepType DEF StaysOnBatch, Handled
  <2>g. Grows
    BY <1>5, <1>g, <2>h
    DEF CheckEvents, AddNotification, Push, LogPush, Mail, SendText, LogMail, Grows, Sent
  <2>n. \A pc \in NotifierPCs : GotoInNotifier(pc) =>
          notifier'.pc = pc /\ notifier'.seen = notifier.seen
    BY GotoType
  <2>p. {"next", "push", "logPush", "mail", "sms", "logMail"} \subseteq NotifierPCs
    BY DEF NotifierPCs
  <2>d. \A t \in Transactions : Mailed(t) => Mailed(t)'
    BY <2>g, <1>t, DoneStays
  <2>k. ASSUME SeenInv', notifier'.pc \in {"sms", "logMail"} => Mailed(Handled)',
               ~Handling' => Done(Handled)',
               \A t \in Transactions : MailLogged(t)' => Mailed(t)'
        PROVE  MailInv'
    BY <2>h, <2>g, <2>k, <1>t, MailHandler
  <2>1. CASE CheckEvents
    <3>1. notifier'.pc = "push" /\ notifier'.seen = events[Handled] /\ UNCHANGED events
      BY <2>1, <1>g DEF CheckEvents, Notifier
    <3>2. SeenInv'
      BY <3>1, <2>h DEF SeenInv, UserNotified, MailLogged
    <3> QED
      BY <3>1, <3>2, <2>k, <2>d DEF Handling, MailInv, MailLogged
  <2>2. CASE Push
    <3>1. /\ notifier'.pc \in {"logPush", "mail"} /\ notifier'.seen = notifier.seen
          /\ UNCHANGED events /\ notifier.pc = "push"
      BY <2>2, <2>n, <2>p DEF Push
    <3>2. SeenInv'
      BY <3>1, <2>h DEF MailInv, SeenInv, UserNotified, MailLogged
    <3> QED
      BY <3>1, <3>2, <2>k, <2>d DEF Handling, MailInv, MailLogged
  <2>3. CASE LogPush
    <3>1. /\ notifier'.pc = "mail" /\ notifier'.seen = notifier.seen
          /\ notifier.pc = "logPush"
          /\ \A t \in Transactions : MailLogged(t)' <=> MailLogged(t)
      BY <2>3, <2>n, <2>p, <2>h, <1>g DEF LogPush, AddEvent, PartnerEvent, MailLogged
    <3>2. SeenInv'
      BY <3>1, <2>h DEF MailInv, SeenInv, UserNotified
    <3> QED
      BY <3>1, <3>2, <2>k, <2>d DEF Handling, MailInv
  <2>4. CASE Mail
    <3>1. notifier.pc = "mail" /\ UNCHANGED events
      BY <2>4 DEF Mail
    <3>2. CASE UserNotified
      <4>1. notifier'.pc = "next"
        BY <2>4, <3>2, <2>n, <2>p DEF Mail
      <4>2. Mailed(Handled)
        BY <3>1, <3>2, <2>h DEF MailInv, SeenInv
      <4> QED
        BY <3>1, <4>1, <4>2, <2>h, <2>k, <2>d DEF SeenInv, Done, MailInv, MailLogged
    <3>3. CASE ~UserNotified
      <4>1. notifier'.pc = "sms" /\ sent' = [sent EXCEPT ![Handled].mails = @ + 1]
        BY <2>4, <3>3, <2>n, <2>p DEF Mail
      <4>2. Mailed(Handled)'
        BY <4>1, <2>h, <1>g DEF Mailed, Sent
      <4> QED
        BY <3>1, <4>1, <4>2, <2>h, <2>k, <2>d DEF SeenInv, Handling, MailInv, MailLogged
    <3> QED
      BY <3>2, <3>3
  <2>5. CASE SendText
    <3>1. /\ notifier'.pc = "logMail" /\ notifier.pc = "sms"
          /\ \A t \in Transactions : MailLogged(t)' <=> MailLogged(t)
      BY <2>5, <2>n, <2>p, <2>h, <1>g DEF SendText, AddEvent, MailLogged
    <3> QED
      BY <3>1, <2>h, <2>k, <2>d DEF SeenInv, Handling, MailInv
  <2>6. CASE LogMail
    <3>1. /\ notifier'.pc = "next" /\ notifier.pc = "logMail"
          /\ \A t \in Transactions \ {Handled} : MailLogged(t)' <=> MailLogged(t)
      BY <2>6, <2>n, <2>p, <2>h, <1>g DEF LogMail, AddEvent, MailLogged
    <3>2. Mailed(Handled)'
      BY <3>1, <2>h, <2>d DEF MailInv
    <3> QED
      BY <3>1, <3>2, <2>h, <2>k, <2>d DEF SeenInv, Handling, MailInv, Done
  <2> QED
    BY <1>5, <2>1, <2>2, <2>3, <2>4, <2>5, <2>6
<1>6. ASSUME HandlerThrows \/ LoseSession PROVE MailInv'
  <2>1. /\ StaysOnBatch /\ notifier.pc # "idle" /\ troubled \subseteq troubled'
        /\ UNCHANGED <<log, events, offset, sent>> /\ Handled' = Handled
    BY <1>6, TroubleType DEF StaysOnBatch, Handled
  <2>2. CASE HandlerThrows
    <3>1. /\ notifier'.pc = "next" /\ Handling /\ Handled \in troubled'
      BY <2>2, GotoType DEF HandlerThrows, NotifierPCs, Handling
    <3>2. Done(Handled)' /\ Grows
      BY <2>1, <3>1, <1>g DEF Done, Grows
    <3>3. SeenInv' /\ \A t \in Transactions : MailLogged(t)' => Mailed(t)'
      BY <2>1, <3>1 DEF SeenInv, MailInv, MailLogged, Mailed
    <3> QED
      BY <2>1, <3>1, <3>2, <3>3, <1>t, MailHandler DEF Handling
  <2>3. CASE LoseSession
    <3>1. /\ notifier'.pc = notifier.pc /\ notifier'.seen = notifier.seen
          /\ UNCHANGED troubled
      BY <2>3, <1>g DEF LoseSession, Notifier
    <3> QED
      BY <2>1, <3>1
      DEF MailInv, SeenInv, UserNotified, MailLogged, Mailed, Done, Passed, Handling, StaysOnBatch
  <2> QED
    BY <1>6, <2>2, <2>3
<1>7. CASE UNCHANGED vars
  BY <1>7, MailElsewhere DEF vars, MailLogged
<1> QED
  BY <1>1, <1>2, <1>3, <1>4, <1>5, <1>6, <1>7
  DEF Next, AnswerStep, ReplyTwice, Crash, NotifierStep

LEMMA MailInvariant == Spec => []MailInv
<1>1. TypeInv /\ MailInv /\ [Next]_vars => MailInv'
  BY MailInvStep
<1> QED
  BY <1>1, MailInit, TypeInvariant, PTL DEF Spec

(* CommittedIsMailed: whatever the group is past, through any deaths, lost    *)
(* sessions and batches that come again, was mailed, or its handler threw.   *)
THEOREM CommittedMailed == Spec => []CommittedIsMailed
<1>1. TypeInv /\ MailInv => CommittedIsMailed
  <2> SUFFICES ASSUME TypeInv, MailInv, NEW topic \in Topics, NEW i \in 1..offset[topic]
               PROVE  Done(log[topic][i])
    BY DEF CommittedIsMailed, Done, Mailed
  <2>1. /\ offset[topic] \in Nat /\ Len(log[topic]) \in Nat
        /\ offset[topic] <= Len(log[topic])
    BY DEF TypeInv, TypeOK, CursorInv, NotificationTypeOK, AnnouncementsTypeOK
  <2> QED
    BY <2>1 DEF MailInv
<1> QED
  BY <1>1, TypeInvariant, MailInvariant, PTL

-----------------------------------------------------------------------------
(* How often *)

LEMMA CountInit == Init => CountInv
<1> SUFFICES ASSUME Init, NEW t \in Electricity
             PROVE  sent[t].mails <= IF Booked(t) THEN interruptions + 1 ELSE interruptions
  BY DEF CountInv
<1>1. sent[t].mails = 0 /\ interruptions = 0
  BY ElectricityIn DEF Init, AnnouncementsInit, NotificationInit
<1> QED
  BY <1>1

(* No mail is sent, and whoever paid for one is still there. *)
LEMMA CountKept ==
  ASSUME TypeInv, CountInv, interruptions' \in Nat, interruptions <= interruptions',
         \A t \in Electricity : sent'[t].mails = sent[t].mails,
         \A t \in Electricity : Booked(t) => Booked(t)' \/ interruptions < interruptions'
  PROVE  CountInv'
<1>1. \A t \in Electricity : sent[t].mails \in Nat
  BY ElectricityIn DEF TypeInv, TypeOK, NotificationTypeOK, Sent
<1>2. interruptions \in Nat
  BY DEF TypeInv, TypeOK, AnnouncementsTypeOK
<1> QED
  BY <1>1, <1>2 DEF CountInv

LEMMA CountStep == TypeInv /\ MailInv /\ CountInv /\ [Next]_vars => CountInv'
<1> SUFFICES ASSUME TypeInv, MailInv, CountInv, [Next]_vars PROVE CountInv'
  OBVIOUS
<1>t. TypeInv'
  BY TypeStep
<1>g. /\ notifier \in Notifier /\ sent \in [Transactions -> Sent]
      /\ events \in [Transactions -> SUBSET EventTypes] /\ interruptions \in Nat
      /\ interruptions' \in Nat
      /\ \A t \in Transactions : sent[t].mails \in Nat
  BY <1>t DEF TypeInv, TypeOK, NotificationTypeOK, AnnouncementsTypeOK, Sent
<1>1. ASSUME NEW t \in Transactions, Announce(t) PROVE CountInv'
  <2>1. /\ Handling => Handled' = Handled
        /\ UNCHANGED <<events, interruptions, notifier, sent>>
    BY <1>1, AnnounceType DEF Announce
  <2> QED
    BY <2>1, <1>g, CountKept DEF Booked, MailLogged, Handling
<1>2. ASSUME NEW t \in Electricity, RequestStep(t) \/ SubscriberStep(t) \/ RequestError(t),
             UNCHANGED noting
      PROVE  CountInv'
  <2>1. /\ \A s \in Transactions : MailLogged(s) => MailLogged(s)'
        /\ UNCHANGED <<log, interruptions>> /\ Handled' = Handled
    BY <1>2, RequestEvents, RequestStepType DEF MailLogged, Handled
  <2> QED
    BY <1>2, <2>1, <1>g, CountKept, ElectricityIn DEF Booked
<1>3. CASE Die
  BY <1>3, <1>g, CountKept DEF Die, LoseNotifier
<1>4. CASE FetchBatch \/ CommitBatch \/ BeginMessage
  <2>1. /\ notifier.pc \in {"idle", "next"}
        /\ UNCHANGED <<events, interruptions, sent>>
    BY <1>4 DEF FetchBatch, CommitBatch, BeginMessage
  <2> QED
    BY <2>1, <1>g, CountKept DEF Booked, MailLogged
<1>5. ASSUME CheckEvents \/ Push \/ LogPush \/ Mail \/ SendText \/ LogMail
      PROVE  CountInv'
  <2>h. /\ Handled \in Transactions /\ Handling /\ StaysOnBatch
        /\ UNCHANGED <<log, interruptions>> /\ Handled' = Handled
    BY <1>5, HandlerStepType DEF StaysOnBatch, Handled
  <2>n. \A pc \in NotifierPCs : GotoInNotifier(pc) => notifier'.pc = pc
    BY GotoType
  <2>p. {"next", "push", "logPush", "mail", "sms", "logMail"} \subseteq NotifierPCs
    BY DEF NotifierPCs
  <2>1. CASE CheckEvents \/ Push \/ LogPush
    <3>1. /\ notifier.pc \in {"check", "push", "logPush"}
          /\ \A t \in Transactions : events[t] \subseteq events'[t]
          /\ \A t \in Transactions : sent'[t].mails = sent[t].mails
      BY <2>1, <2>h, <1>g DEF CheckEvents, AddNotification, Push, LogPush, AddEvent, Sent
    <3> QED
      BY <3>1, <2>h, <1>g, CountKept, ElectricityIn DEF Booked, MailLogged
  <2>2. CASE Mail
    <3>1. notifier.pc = "mail" /\ UNCHANGED events
      BY <2>2 DEF Mail
    <3>2. CASE UserNotified
      <4>1. UNCHANGED sent
        BY <2>2, <3>2 DEF Mail
      <4> QED
        BY <3>1, <4>1, <2>h, <1>g, CountKept DEF Booked, MailLogged
    <3>3. CASE ~UserNotified
      <4>1. notifier'.pc = "sms" /\ sent' = [sent EXCEPT ![Handled].mails = @ + 1]
        BY <2>2, <3>3, <2>n, <2>p DEF Mail
      <4>2. ~MailLogged(Handled)
        BY <3>1, <3>3, <2>h DEF MailInv, SeenInv
      <4>3. ~Booked(Handled) /\ Booked(Handled)'
        BY <3>1, <4>1, <4>2, <2>h DEF Booked
      <4>4. \A t \in Electricity \ {Handled} : Booked(t)' <=> Booked(t)
        BY <3>1, <4>1, <2>h DEF Booked, MailLogged
      <4>5. /\ sent'[Handled].mails = sent[Handled].mails + 1
            /\ \A t \in Electricity \ {Handled} : sent'[t].mails = sent[t].mails
        BY <4>1, <2>h, <1>g, ElectricityIn DEF Sent
      <4> SUFFICES ASSUME NEW t \in Electricity
                   PROVE  sent'[t].mails <= IF Booked(t)' THEN interruptions' + 1
                                                          ELSE interruptions'
        BY DEF CountInv
      <4>6. CASE t = Handled
        BY <4>3, <4>5, <4>6, <2>h, <1>g DEF CountInv
      <4>7. CASE t # Handled
        BY <4>4, <4>5, <4>7, <2>h, <1>g DEF CountInv
      <4> QED
        BY <4>6, <4>7
    <3> QED
      BY <3>2, <3>3
  <2>3. CASE SendText
    <3>1. /\ notifier'.pc = "logMail" /\ notifier.pc = "sms"
          /\ \A t \in Transactions : MailLogged(t) => MailLogged(t)'
          /\ \A t \in Transactions : sent'[t].mails = sent[t].mails
      BY <2>3, <2>n, <2>p, <2>h, <1>g DEF SendText, AddEvent, MailLogged, Sent
    <3> QED
      BY <3>1, <2>h, <1>g, CountKept, ElectricityIn DEF Booked
  <2>4. CASE LogMail
    <3>1. /\ UNCHANGED sent
          /\ \A t \in Transactions : MailLogged(t) => MailLogged(t)'
          /\ Handled \in Electricity => MailLogged(Handled)'
      BY <2>4, <2>h, <1>g DEF LogMail, AddEvent, MailLogged, MailEvent, Electricity
    <3>2. \A t \in Electricity : Booked(t) => Booked(t)'
      BY <3>1, <2>h, ElectricityIn DEF Booked
    <3> QED
      BY <3>1, <3>2, <2>h, <1>g, CountKept
  <2> QED
    BY <1>5, <2>1, <2>2, <2>3, <2>4
<1>6. CASE HandlerThrows \/ LoseSession
  BY <1>6, <1>g, TroubleType, CountKept
<1>7. CASE UNCHANGED vars
  BY <1>7, <1>g, CountKept DEF vars, Booked, MailLogged, Handled
<1> QED
  BY <1>1, <1>2, <1>3, <1>4, <1>5, <1>6, <1>7
  DEF Next, AnswerStep, ReplyTwice, Crash, NotifierStep

(* MailedOnce: however often a token is announced or its message comes again, *)
(* its customer gets one mail, and at most one more for every time the        *)
(* consumer was interrupted.                                                 *)
THEOREM MailedAtMostOnce == Spec => []MailedOnce
<1>1. TypeInv /\ CountInv => MailedOnce
  <2> SUFFICES ASSUME TypeInv, CountInv, NEW t \in Electricity
               PROVE  sent[t].mails <= 1 + interruptions
    BY DEF MailedOnce
  <2>1. sent[t].mails \in Nat /\ interruptions \in Nat
    BY ElectricityIn DEF TypeInv, TypeOK, NotificationTypeOK, AnnouncementsTypeOK, Sent
  <2> QED
    BY <2>1 DEF CountInv
<1>2. TypeInv /\ MailInv /\ CountInv /\ [Next]_vars => CountInv'
  BY CountStep
<1> QED
  BY <1>1, <1>2, CountInit, TypeInvariant, MailInvariant, PTL DEF Spec

-----------------------------------------------------------------------------
(* Whom TOKEN_SENT_TO_PARTNER stands for *)

LEMMA PushInit == Init => PushInv
BY ElectricityIn
DEF Init, AnnouncementsInit, NotificationInit, IdleNotifier, PushInv, PartnerEventBacked

(* Pushes and answers stay; an event that is new has its push or answer. *)
LEMMA PushKept ==
  ASSUME TypeInv, PushInv,
         \A t \in Transactions : sent[t].pushes > 0 => sent'[t].pushes > 0,
         \A t \in Electricity : answer[t] \in Transactions => answer'[t] \in Transactions,
         \A t \in Electricity :
           "TOKEN_SENT_TO_PARTNER" \in events'[t] =>
             \/ "TOKEN_SENT_TO_PARTNER" \in events[t]
             \/ sent'[t].pushes > 0 \/ answer'[t] \in Transactions,
         notifier'.pc = "logPush" => (sent[Handled].pushes > 0)'
  PROVE  PushInv'
BY ElectricityIn DEF PushInv, PartnerEventBacked

LEMMA BatchGoes ==
  ASSUME TypeInv, FetchBatch \/ CommitBatch \/ BeginMessage
  PROVE  notifier'.pc \in {"idle", "next", "check"} /\ UNCHANGED <<events, sent>>
<1>g. notifier \in Notifier
  BY DEF TypeInv, TypeOK, NotificationTypeOK
<1>1. CASE FetchBatch
  <2>1. PICK topic \in Topics : \E n \in offset[topic] + 1 .. Len(log[topic]) :
          notifier' = [IdleNotifier EXCEPT !.pc = "next", !.topic = topic,
                                           !.at = offset[topic], !.upto = n]
    BY <1>1 DEF FetchBatch
  <2> QED
    BY <1>1, <2>1 DEF FetchBatch, IdleNotifier
<1>2. CASE CommitBatch
  BY <1>2 DEF CommitBatch, IdleNotifier
<1>3. CASE BeginMessage
  BY <1>3, <1>g DEF BeginMessage, Notifier
<1> QED
  BY <1>1, <1>2, <1>3

LEMMA PushStep == TypeInv /\ RequestInv /\ PushInv /\ [Next]_vars => PushInv'
<1> SUFFICES ASSUME TypeInv, RequestInv, PushInv, [Next]_vars PROVE PushInv'
  OBVIOUS
<1>g. /\ notifier \in Notifier /\ sent \in [Transactions -> Sent]
      /\ events \in [Transactions -> SUBSET EventTypes]
      /\ \A t \in Transactions : sent[t].pushes \in Nat
  BY DEF TypeInv, TypeOK, NotificationTypeOK, AnnouncementsTypeOK, Sent
<1>1. ASSUME NEW t \in Transactions, Announce(t) PROVE PushInv'
  BY <1>1, AnnounceType, PushKept DEF Announce, Handling, PushInv
<1>2. ASSUME NEW t \in Electricity, RequestStep(t) \/ SubscriberStep(t) \/ RequestError(t),
             UNCHANGED noting
      PROVE  PushInv'
  <2>1. UNCHANGED Handled
    BY <1>2, RequestStepType DEF Handled
  <2>2. \A s \in Electricity : answer[s] \in Transactions => answer'[s] \in Transactions
    BY <1>2, RequestStepOK
  <2>3. request[t].pc = "log" => answer[t] \in Transactions
    BY DEF RequestInv, RequestOK
  <2>4. \A s \in Electricity :
           "TOKEN_SENT_TO_PARTNER" \in events'[s] =>
             "TOKEN_SENT_TO_PARTNER" \in events[s] \/ answer'[s] \in Transactions
    BY <1>2, <2>2, <2>3, RequestEvents, ElectricityIn
  <2> QED
    BY <1>2, <2>1, <2>2, <2>4, PushKept DEF PushInv
<1>3. CASE Die
  BY <1>3, DieOK, PushKept DEF Die, LoseNotifier, IdleNotifier
<1>4. CASE (FetchBatch \/ CommitBatch \/ BeginMessage) /\ UNCHANGED asking
  <2>1. notifier'.pc # "logPush" /\ UNCHANGED <<events, sent>>
    BY <1>4, BatchGoes
  <2> QED
    BY <1>4, <2>1, PushKept
<1>5. ASSUME CheckEvents \/ Push \/ LogPush \/ Mail \/ SendText \/ LogMail, UNCHANGED asking
      PROVE  PushInv'
  <2>h. /\ Handled \in Transactions /\ Handled' = Handled
    BY <1>5, HandlerStepType DEF StaysOnBatch, Handled
  <2>n. \A pc \in NotifierPCs : GotoInNotifier(pc) => notifier'.pc = pc
    BY GotoType
  <2>p. {"next", "push", "logPush", "mail", "sms", "logMail"} \subseteq NotifierPCs
    BY DEF NotifierPCs
  <2>1. CASE Push
    <3>1. /\ notifier'.pc = "logPush" => sent' = [sent EXCEPT ![Handled].pushes = @ + 1]
          /\ sent' \in {sent, [sent EXCEPT ![Handled].pushes = @ + 1]}
          /\ UNCHANGED events
      BY <2>1, <2>n, <2>p DEF Push
    <3>2. \A t \in Transactions : sent[t].pushes > 0 => sent'[t].pushes > 0
      BY <3>1, <2>h, <1>g DEF Sent
    <3>3. notifier'.pc = "logPush" => sent'[Handled].pushes > 0
      BY <3>1, <2>h, <1>g DEF Sent
    <3> QED
      BY <3>1, <3>2, <3>3, <2>h, <1>5, PushKept
  <2>2. CASE LogPush
    <3>1. /\ notifier'.pc # "logPush" /\ notifier.pc = "logPush" /\ UNCHANGED sent
          /\ \A t \in Transactions \ {Handled} : events'[t] = events[t]
      BY <2>2, <2>n, <2>p, <2>h, <1>g DEF LogPush, AddEvent
    <3>2. sent'[Handled].pushes > 0
      BY <3>1, <2>h DEF PushInv
    <3> QED
      BY <3>1, <3>2, <1>5, PushKept, ElectricityIn
  <2>3. CASE CheckEvents \/ Mail
    <3>1. /\ notifier'.pc # "logPush" /\ UNCHANGED events
          /\ \A t \in Transactions : sent'[t].pushes = sent[t].pushes
      <4>1. notifier'.pc # "logPush"
        BY <2>3, <2>n, <2>p, <1>g DEF CheckEvents, Mail, Notifier
      <4>2. \A t \in Transactions : sent'[t].pushes = sent[t].pushes
        BY <2>3, <2>h, <1>g DEF CheckEvents, AddNotification, Mail, Sent
      <4> QED
        BY <2>3, <4>1, <4>2 DEF CheckEvents, Mail
    <3> QED
      BY <3>1, <1>5, PushKept
  <2>4. CASE SendText \/ LogMail
    <3>1. /\ notifier'.pc # "logPush"
          /\ \A t \in Transactions : sent'[t].pushes = sent[t].pushes
          /\ \A t \in Transactions : "TOKEN_SENT_TO_PARTNER" \in events'[t] =>
               "TOKEN_SENT_TO_PARTNER" \in events[t]
      BY <2>4, <2>n, <2>p, <2>h, <1>g DEF SendText, LogMail, AddEvent, MailEvent, Sent
    <3> QED
      BY <3>1, <1>5, PushKept, ElectricityIn
  <2> QED
    BY <1>5, <2>1, <2>2, <2>3, <2>4
<1>6. CASE (HandlerThrows \/ LoseSession) /\ UNCHANGED asking
  <2>1. /\ UNCHANGED <<log, events, sent>> /\ StaysOnBatch
        /\ notifier'.pc \in {"next", notifier.pc}
    BY <1>6, <1>g, TroubleType, GotoType DEF HandlerThrows, LoseSession, NotifierPCs, Notifier
  <2> QED
    BY <1>6, <2>1, PushKept DEF PushInv, StaysOnBatch, Handled
<1>7. CASE UNCHANGED vars
  BY <1>7, PushKept DEF vars, PushInv, Handled
<1> QED
  BY <1>1, <1>2, <1>3, <1>4, <1>5, <1>6, <1>7
  DEF Next, AnswerStep, ReplyTwice, Crash, NotifierStep

(* PartnerEventBacked: whoever writes TOKEN_SENT_TO_PARTNER, the request or   *)
(* the Notification consumer, the partner was pushed the token or got a       *)
(* response that carried one.                                                *)
THEOREM PartnerEventsBacked == Spec => []PartnerEventBacked
<1>1. PushInv => PartnerEventBacked
  BY DEF PushInv
<1>2. TypeInv /\ RequestInv /\ PushInv /\ [Next]_vars => PushInv'
  BY PushStep
<1> QED
  BY <1>1, <1>2, PushInit, TypeInvariant, RequestInvariant, PTL DEF Spec
=============================================================================
