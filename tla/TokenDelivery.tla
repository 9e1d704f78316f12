---------------------------- MODULE TokenDelivery ----------------------------
(***************************************************************************)
(* From a vend's announcement to the people who wait for it: the request     *)
(* that asked for the token and the Notification consumer run in one         *)
(* process, read the same announcements with groups of their own, and meet   *)
(* in the Event table: the request's TOKEN_SENT_TO_PARTNER keeps the         *)
(* consumer from telling the partner again.                                  *)
(***************************************************************************)
EXTENDS TokenAnswer, Notification

base   == <<log, events, faults, interruptions>>
asking == <<request, answer>>
noting == <<offset, notifier, sent, troubled>>
vars   == <<base, asking, noting>>

TypeOK == AnnouncementsTypeOK /\ TokenAnswerTypeOK /\ NotificationTypeOK

Init == AnnouncementsInit /\ TokenAnswerInit /\ NotificationInit

-----------------------------------------------------------------------------
(* A token is announced only for a purchase that was asked for; airtime has   *)
(* other ways in.                                                            *)
Announce(t) ==
  /\ t \in Electricity => request[t].asked
  /\ PublishAnnouncement(t)
  /\ UNCHANGED <<events, faults, interruptions, asking, noting>>

(* There is one process. *)
Die ==
  /\ LoseRequests /\ LoseNotifier
  /\ UNCHANGED <<log, events>>

Crash == Fault /\ Die

(* The handler wrote the response while the timer waited for the shutdown:    *)
(* the second res.json throws inside the timer, and an unhandled rejection    *)
(* ends a Node process.                                                      *)
ReplyTwice(t) ==
  /\ request[t].pc = "reply"
  /\ Answered(t)
  /\ Die
  /\ UNCHANGED faults

AnswerStep(t) ==
  \/ (RequestStep(t) \/ SubscriberStep(t)) /\ UNCHANGED noting
  \/ ReplyTwice(t)

Next ==
  \/ \E t \in Transactions : Announce(t)
  \/ \E t \in Electricity : AnswerStep(t)
  \/ \E t \in Electricity : RequestError(t) /\ UNCHANGED noting
  \/ (NotifierStep \/ HandlerThrows \/ LoseSession) /\ UNCHANGED asking
  \/ Crash

Spec == Init /\ [][Next]_vars

(* The event loop gets round to everything: Kafka answers, awaits and timers  *)
(* end, a waiting announcement is handed over.                               *)
Fairness ==
  /\ \A t \in Electricity : WF_vars(AnswerStep(t))
  /\ WF_vars(NotifierStep /\ UNCHANGED asking)

FairSpec == Spec /\ Fairness

-----------------------------------------------------------------------------
(* Safety *)

AnnouncedTo(t) == \E i \in 1..Len(log[TopicOf(t)]) : log[TopicOf(t)][i] = t

(* However often a token is announced or its message handed out again, the    *)
(* customer gets one mail, and one more for every time the consumer was       *)
(* interrupted between the mail and its event.                               *)
MailedOnce == \A t \in Electricity : sent[t].mails <= 1 + interruptions

(* What the consumer's group is past was not lost: each transaction           *)
(* announced up to there was mailed, through crashes and lost sessions,       *)
(* unless its handler threw.  The partner's event never stands for the        *)
(* customer's.                                                               *)
CommittedIsMailed ==
  \A topic \in Topics : \A i \in 1..offset[topic] :
    sent[log[topic][i]].mails > 0 \/ log[topic][i] \in troubled

(* TOKEN_SENT_TO_PARTNER, whichever of the two writes it, stands for a push   *)
(* or for a response that carried a token.                                   *)
PartnerEventBacked ==
  \A t \in Electricity : "TOKEN_SENT_TO_PARTNER" \in events[t] =>
    sent[t].pushes > 0 \/ answer[t] \in Transactions

(* Every way out of a request shuts its consumer down: none keeps reading     *)
(* announcements for a request that is over.                                 *)
NoSubscriberLeft ==
  \A t \in Electricity :
    request[t].pc \in {"ended", "lost"} => request[t].sub \notin {"joining", "up"}

-----------------------------------------------------------------------------
(* What the code says of itself and does not keep *)

(* "Check if notifiecations have been sent to partner and user; if you've not *)
(* notified the partner before, notify them": a transaction the consumer's    *)
(* group is past was pushed to its partner, unless the partner was answered   *)
(* with its token (or the handler threw).                                     *)
PartnerInformed ==
  \A i \in 1..offset["token"] : LET t == log["token"][i] IN
    sent[t].pushes > 0 \/ answer[t] = t \/ t \in troubled

-----------------------------------------------------------------------------
(* Liveness *)

(* Every request is answered in the end, whatever happens to its token and    *)
(* its subscriber, unless an error after the publish or the death of the      *)
(* process ended it.                                                         *)
AnsweredInTheEnd ==
  \A t \in Electricity :
    request[t].pc = "publish" ~> Answered(t) \/ request[t].pc \in {"catch", "lost"}

(* Every announced transaction is mailed in the end, through crashes and lost *)
(* sessions, unless its handler threw.                                       *)
MailedInTheEnd ==
  \A t \in Transactions : AnnouncedTo(t) ~> sent[t].mails > 0 \/ t \in troubled
=============================================================================
