----------------------------- MODULE Notification -----------------------------
(***************************************************************************)
(* The Notification consumer: it puts a row in the partner's inbox, pushes   *)
(* it, and mails and texts the customer, unless the Event table says that    *)
(* this was done.                                                           *)
(*                                                                          *)
(*   NotificationHandler                kafka/modules/consumers/Notification *)
(*   TransactionEventService, AirtimeTransactionEventService   services      *)
(*   MessageProcessorFactory.processEachBatch                               *)
(*                                      kafka/modules/util                   *)
(*                                                                          *)
(* One process runs it, one batch at a time.                                 *)
(***************************************************************************)
EXTENDS Announcements

VARIABLES
  offset,     \* per topic: announcements the group has committed
  notifier,   \* the consumer: its batch and where its handler is
  sent,       \* per transaction: what was sent, in number
  troubled    \* history: transactions a handler threw for

NotifierPCs == {"idle", "next", "check", "push", "logPush", "mail", "sms", "logMail"}

Notifier ==
  [pc    : NotifierPCs,
   topic : Topics,
   at    : Nat,                 \* the message it handles, by its place in the log
   upto  : Nat,                 \* the last one of the batch
   holds : BOOLEAN,             \* its session lasts: it may commit
   seen  : SUBSET EventTypes]   \* the events it found

Sent == [rows : Nat, pushes : Nat, mails : Nat, texts : Nat]

NotificationTypeOK ==
  /\ offset \in [Topics -> Nat]
  /\ notifier \in Notifier
  /\ sent \in [Transactions -> Sent]
  /\ troubled \subseteq Transactions

IdleNotifier == [pc |-> "idle", topic |-> "token", at |-> 0, upto |-> 0,
                 holds |-> TRUE, seen |-> {}]

NotificationInit ==
  /\ offset = [topic \in Topics |-> 0]
  /\ notifier = IdleNotifier
  /\ sent = [t \in Transactions |-> [rows |-> 0, pushes |-> 0, mails |-> 0, texts |-> 0]]
  /\ troubled = {}

Handled == log[notifier.topic][notifier.at]

GotoInNotifier(pc) == notifier' = [notifier EXCEPT !.pc = pc]

-----------------------------------------------------------------------------
(* processEachBatch *)

(* Slip: a batch is committed when it is fetched. *)
FetchBatchCommitted ==
  /\ notifier.pc = "idle"
  /\ \E topic \in Topics : \E n \in offset[topic] + 1 .. Len(log[topic]) :
       /\ notifier' = [IdleNotifier EXCEPT !.pc = "next", !.topic = topic,
                                           !.at = offset[topic], !.upto = n]
       /\ offset' = [offset EXCEPT ![topic] = n]
  /\ UNCHANGED <<log, events, faults, interruptions, sent, troubled>>

FetchBatch ==
  /\ notifier.pc = "idle"
  /\ \E topic \in Topics : \E n \in offset[topic] + 1 .. Len(log[topic]) :
       notifier' = [IdleNotifier EXCEPT !.pc = "next", !.topic = topic,
                                        !.at = offset[topic], !.upto = n]
  /\ UNCHANGED <<log, events, faults, interruptions, offset, sent, troubled>>

CommitBatch ==
  /\ notifier.pc = "next" /\ notifier.at = notifier.upto
  /\ offset' = IF notifier.holds THEN [offset EXCEPT ![notifier.topic] = notifier.upto]
                                 ELSE offset
  /\ notifier' = IdleNotifier
  /\ UNCHANGED <<log, events, faults, interruptions, sent, troubled>>

BeginMessage ==
  /\ notifier.pc = "next" /\ notifier.at < notifier.upto
  /\ notifier' = [notifier EXCEPT !.pc = "check", !.at = @ + 1, !.seen = {}]
  /\ UNCHANGED <<log, events, faults, interruptions, offset, sent, troubled>>

(* A handler that throws is logged and its message counts as handled. *)
HandlerThrows ==
  /\ notifier.pc \notin {"idle", "next"}
  /\ Fault
  /\ interruptions' = interruptions + 1
  /\ troubled' = troubled \cup {Handled}
  /\ GotoInNotifier("next")
  /\ UNCHANGED <<log, events, offset, sent>>

(* The handler waits longer than the session lasts (a mail server that does   *)
(* not answer): it goes on, its commit is refused, and the batch comes again. *)
LoseSession ==
  /\ notifier.pc # "idle" /\ notifier.holds
  /\ Fault
  /\ interruptions' = interruptions + 1
  /\ notifier' = [notifier EXCEPT !.holds = FALSE]
  /\ UNCHANGED <<log, events, offset, sent, troubled>>

-----------------------------------------------------------------------------
(* handleReceivedToken and handleReceivedAirtime *)

(* A row for every message (NotificationService.addNotification). *)
AddNotification == sent' = [sent EXCEPT ![Handled].rows = @ + 1]

(* Slip: the events are not looked up. *)
CheckNothing ==
  /\ notifier.pc = "check"
  /\ AddNotification
  /\ notifier' = [notifier EXCEPT !.pc = "push", !.seen = {}]
  /\ UNCHANGED <<log, events, faults, interruptions, offset, troubled>>

CheckEvents ==
  /\ notifier.pc = "check"
  /\ AddNotification
  /\ notifier' = [notifier EXCEPT !.pc = "push", !.seen = events[Handled]]
  /\ UNCHANGED <<log, events, faults, interruptions, offset, troubled>>

(* Both handlers look for the events of a token. *)
PartnerNotified == "TOKEN_SENT_TO_PARTNER" \in notifier.seen
UserNotified    == "TOKEN_SENT_TO_EMAIL" \in notifier.seen

(* What each handler writes. *)
PartnerEvent(t) == IF t \in Airtime THEN "AIRTIME_SENT_TO_PARTNER"
                                    ELSE "TOKEN_SENT_TO_PARTNER"
MailEvent(t)    == IF t \in Airtime THEN "AIRTIME_SENT_TO_USER_EMAIL"
                                    ELSE "TOKEN_SENT_TO_EMAIL"

(* Errors of a push are swallowed. *)
Push ==
  /\ notifier.pc = "push"
  /\ IF PartnerNotified
     THEN GotoInNotifier("mail") /\ UNCHANGED sent
     ELSE GotoInNotifier("logPush") /\ sent' = [sent EXCEPT ![Handled].pushes = @ + 1]
  /\ UNCHANGED <<log, events, faults, interruptions, offset, troubled>>

LogPush ==
  /\ notifier.pc = "logPush"
  /\ AddEvent(Handled, PartnerEvent(Handled))
  /\ GotoInNotifier("mail")
  /\ UNCHANGED <<log, faults, interruptions, offset, sent, troubled>>

(* Slip: an announcement whose partner event is there needs no mail.          *)
MailUnlessPartnerNotified ==
  /\ notifier.pc = "mail"
  /\ IF UserNotified \/ PartnerNotified
     THEN GotoInNotifier("next") /\ UNCHANGED sent
     ELSE GotoInNotifier("sms") /\ sent' = [sent EXCEPT ![Handled].mails = @ + 1]
  /\ UNCHANGED <<log, events, faults, interruptions, offset, troubled>>

(* After the product was found.  Errors of the mail server are swallowed. *)
Mail ==
  /\ notifier.pc = "mail"
  /\ IF UserNotified
     THEN GotoInNotifier("next") /\ UNCHANGED sent
     ELSE GotoInNotifier("sms") /\ sent' = [sent EXCEPT ![Handled].mails = @ + 1]
  /\ UNCHANGED <<log, events, faults, interruptions, offset, troubled>>

(* The error of a text is caught. *)
SendText ==
  /\ notifier.pc = "sms"
  /\ \/ /\ sent' = [sent EXCEPT ![Handled].texts = @ + 1]
        /\ IF Handled \in Airtime THEN UNCHANGED events
                                  ELSE AddEvent(Handled, "SMS_TOKEN_SENT_TO_USER")
        /\ NoFault
     \/ Fault /\ UNCHANGED <<sent, events>>
  /\ GotoInNotifier("logMail")
  /\ UNCHANGED <<log, interruptions, offset, troubled>>

LogMail ==
  /\ notifier.pc = "logMail"
  /\ AddEvent(Handled, MailEvent(Handled))
  /\ GotoInNotifier("next")
  /\ UNCHANGED <<log, faults, interruptions, offset, sent, troubled>>

-----------------------------------------------------------------------------
(* The process dies: the group starts again from its last commit. *)
LoseNotifier ==
  /\ notifier' = IdleNotifier
  /\ interruptions' = interruptions + 1
  /\ UNCHANGED <<offset, sent, troubled>>

NotifierStep ==
  \/ FetchBatch \/ CommitBatch \/ BeginMessage \/ CheckEvents
  \/ Push \/ LogPush \/ Mail \/ SendText \/ LogMail
=============================================================================
