---------------------------- MODULE Announcements ----------------------------
(***************************************************************************)
(* What the vend consumers leave behind for the parts that tell people of   *)
(* a vend: the two Kafka topics                                             *)
(*   TOKEN_RECIEVED_FROM_VENDOR and AIRTIME_RECEIVED_FROM_VENDOR,           *)
(* kept by Kafka as logs that every consumer group reads at its own pace,   *)
(* and the Event table, which those parts write and look things up in.      *)
(***************************************************************************)
EXTENDS Naturals, Sequences

CONSTANTS
  Transactions,
  Airtime,       \* those that buy airtime; the others buy electricity
  None,          \* no value
  MaxAnnounced,  \* bound: announcements per topic
  MaxFaults      \* bound: crashes, lost sessions, errors and lost messages

ASSUME AirtimeAssumption == Airtime \subseteq Transactions /\ None \notin Transactions
ASSUME BoundsAssumption == MaxAnnounced \in Nat /\ MaxFaults \in Nat

VARIABLES
  log,            \* per topic: the transactions announced, in order
  events,         \* Event rows: per transaction, the types there are
  faults,
  interruptions   \* history: deaths, lost sessions and errors of the consumer

Topics == {"token", "airtime"}

TopicOf(t) == IF t \in Airtime THEN "airtime" ELSE "token"

EventTypes == {"TOKEN_SENT_TO_PARTNER", "TOKEN_SENT_TO_EMAIL", "SMS_TOKEN_SENT_TO_USER",
               "AIRTIME_SENT_TO_PARTNER", "AIRTIME_SENT_TO_USER_EMAIL"}

AnnouncementsTypeOK ==
  /\ log \in [Topics -> Seq(Transactions)]
  /\ events \in [Transactions -> SUBSET EventTypes]
  /\ faults \in Nat /\ interruptions \in Nat

AnnouncementsInit ==
  /\ log = [topic \in Topics |-> <<>>]
  /\ events = [t \in Transactions |-> {}]
  /\ faults = 0 /\ interruptions = 0

Fault   == faults < MaxFaults /\ faults' = faults + 1
NoFault == UNCHANGED faults

(* The vend consumers announce t: more than once when a message of theirs    *)
(* is redelivered or a purchase and a requery both find the token.           *)
PublishAnnouncement(t) ==
  /\ Len(log[TopicOf(t)]) < MaxAnnounced
  /\ log' = [log EXCEPT ![TopicOf(t)] = Append(@, t)]

(* EventService.addEvent *)
AddEvent(t, type) == events' = [events EXCEPT ![t] = @ \cup {type}]
=============================================================================
