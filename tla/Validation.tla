------------------------------- MODULE Validation -------------------------------
(***************************************************************************)
(* Concurrent calls of VendorController.validateMeter,                       *)
(* AirtimeVendController.validateAirtimeRequest and                          *)
(* DataVendController.validateDataRequest, split at their awaits: each       *)
(* creates a transaction, validates the meter or the number, finds or adds   *)
(* the user, and hands the row over to requestToken (TokenVend),             *)
(* requestAirtime (AirtimeVend) or requestData (DataVend).  The calls share  *)
(* the User, Entity and Password tables (UserService.addUserIfNotExists).    *)
(*                                                                           *)
(* A row of User has the id of the call that saved it, and a row of Entity   *)
(* or Password the id of the call that added it.                             *)
(***************************************************************************)
EXTENDS VendorSelection, EventLog, VendorClients

CONSTANTS
  Requests,    \* calls of the three handlers
  Callers,     \* records [email, phone]: the customers they come with
  Email        \* the e-mail address of a caller

ASSUME OpeningAssumption == Opening \subseteq Vendors

VARIABLES
  txn,        \* per request: its row of Transaction, or None
  log,        \* per request: the events of its transaction
  request,    \* per request: where it is in the handler
  users,      \* rows of User
  entities,   \* rows of Entity
  passwords   \* rows of Password

tables == <<users, entities, passwords>>
vars   == <<txn, log, request, tables>>

-----------------------------------------------------------------------------
(* Types *)

(* Between the save of a user and the end of addUserIfNotExists. *)
Adding == {"findEntity", "addEntity", "addPassword"}

(* After an event is added: where the handler goes on. *)
Following ==
  [asked     |-> "check",    checked   |-> "initiated",
   requested |-> "validate", received  |-> "initiated",
   initiated |-> "findUser", confirmed |-> "record", sent |-> "answered"]

RequestPCs == Adding \cup DOMAIN Following \cup
  {"new", "create", "check", "validate", "refused", "backup", "findUser", "saveUser",
   "link", "record", "meter", "answer", "answered", "failed"}

Kinds == {"electricity", "airtime", "data"}

Request ==
  [kind    : Kinds \cup {None},
   pc      : RequestPCs,
   caller  : Callers \cup {None},
   first   : Vendors \cup {None},     \* the vendor the row was created with
   refused : SUBSET Vendors,          \* vendors that did not validate the meter
   user    : Requests \cup {None},    \* the row addUserIfNotExists returned
   at      : RequestPCs \cup {None}]  \* history: the await that threw

(* The row, its relations included. *)
Transaction ==
  [superagent : Vendors,
   reference  : {0},
   vendorRef  : {0, 1},
   accessRef  : {None, 1},
   record     : [vendor : Vendors, count : {1}, ref : {0}] \cup {None},
   previous   : PreviousVendors,
   user       : Requests \cup {None},
   meter      : BOOLEAN]

(* No value is no vendor, customer, call, await or row. *)
ASSUME NothingAssumption ==
  /\ None \notin Vendors \cup Callers \cup Requests \cup RequestPCs
  /\ None \notin Transaction

Events ==
  {MeterValidationRequested, MeterValidationFailed, MeterValidationSent,
   PhoneValidationRequested, CRMUserInitiated, CRMUserConfirmed}
  \cup {MeterValidationReceived(v) : v \in Vendors}

(* The type invariant. *)
TypeOK ==
  /\ txn \in [Requests -> Transaction \cup {None}]
  /\ log \in [Requests -> SUBSET Events]
  /\ request \in [Requests -> Request]
  /\ users \subseteq Requests
  /\ entities \subseteq Requests
  /\ passwords \subseteq Requests

Electricity(q) == request[q].kind = "electricity"

EmailOf(q) == Email[request[q].caller]

Goto(q, pc) == request' = [request EXCEPT ![q].pc = pc]

(* Any await may throw: express answers an error and the row stays as it is.  *)
(* A process that dies is a throw of every request.                           *)
Throw(q) ==
  /\ request[q].pc \notin {"new", "answered", "failed"}
  /\ request' = [request EXCEPT ![q].pc = "failed", ![q].at = request[q].pc]
  /\ UNCHANGED <<txn, log, tables>>

-----------------------------------------------------------------------------
(* Up to the validation *)

ReceiveRequest(q) ==
  /\ request[q].pc = "new"
  /\ \E c \in Callers, k \in Kinds :
       request' = [request EXCEPT ![q].pc = "create", ![q].caller = c, ![q].kind = k]
  /\ UNCHANGED <<txn, log, tables>>

(* Only the row of an electricity transaction, and one that starts with       *)
(* IRECHARGE, has a vendorReferenceId of its own.                             *)
CreateTransaction(q) ==
  /\ request[q].pc = "create"
  /\ \E first \in Opening :
       /\ txn' = [txn EXCEPT ![q] =
            [superagent |-> first, reference |-> 0,
             vendorRef |-> IF Electricity(q) \/ first = Irecharge THEN 1 ELSE 0,
             accessRef |-> None, record |-> None,
             previous |-> [seen |-> {first}, len |-> 1],
             user |-> None, meter |-> FALSE]]
       /\ request' = [request EXCEPT ![q].first = first,
                        ![q].pc = IF Electricity(q) THEN "requested" ELSE "asked"]
  /\ UNCHANGED <<log, tables>>

(* The event of each await that adds one; its source is the row's vendor when *)
(* the meter's validation has been received.                                  *)
EventAt(q, pc) ==
  CASE pc \in {"asked", "checked"} -> PhoneValidationRequested
    [] pc = "requested" -> MeterValidationRequested
    [] pc = "received"  -> MeterValidationReceived(txn[q].superagent)
    [] pc = "initiated" -> CRMUserInitiated
    [] pc = "confirmed" -> CRMUserConfirmed
    [] pc = "sent"      -> MeterValidationSent

AddEvent(q) ==
  /\ request[q].pc \in DOMAIN Following
  /\ log' = [log EXCEPT ![q] = @ \cup {EventAt(q, request[q].pc)}]
  /\ Goto(q, Following[request[q].pc])
  /\ UNCHANGED <<txn, tables>>

(* AirtimeValidator and DataValidator: the number, the amount, the product. *)
CheckPhone(q) ==
  /\ request[q].pc = "check"
  /\ Goto(q, "checked") \/ Goto(q, "failed")
  /\ UNCHANGED <<txn, log, tables>>

-----------------------------------------------------------------------------
(* VendorControllerUtil.validateMeter *)

(* Slip: the vendors are tried in the order of their commission. *)
VendorsToTryByRate(q) == Vendors \ request[q].refused

(* The row's own vendor is put first; the others come in the order of their   *)
(* commission on an amount of 0, which is any order here.                     *)
VendorsToTry(q) ==
  IF request[q].refused = {} THEN {request[q].first}
                             ELSE Vendors \ request[q].refused

(* Not every reply of IRECHARGE carries a token: its status is not looked at. *)
AccessToken(v, r) == IF v = Irecharge /\ r.token THEN 1 ELSE None

TokenOr(access, old) == IF access = None THEN old ELSE access

(* update leaves a column alone whose new value is undefined. *)
VendorValidates(q) ==
  /\ request[q].pc = "validate"
  /\ \E v \in VendorsToTry(q), r \in MeterReplies :
       /\ ~Thrown(ValidateMeterWith(v, r))
       /\ txn' = [txn EXCEPT ![q].superagent = v,
                             ![q].accessRef = TokenOr(AccessToken(v, r), @)]
  /\ Goto(q, "backup")
  /\ UNCHANGED <<log, tables>>

VendorRefuses(q) ==
  /\ request[q].pc = "validate"
  /\ \E v \in VendorsToTry(q), r \in MeterReplies :
       /\ Thrown(ValidateMeterWith(v, r))
       /\ request' = [request EXCEPT ![q].refused = @ \cup {v}, ![q].pc = "refused"]
  /\ UNCHANGED <<txn, log, tables>>

(* The event does not say which vendor it was.  The last vendor's error is    *)
(* the handler's.                                                            *)
NextVendor(q) ==
  /\ request[q].pc = "refused"
  /\ log' = [log EXCEPT ![q] = @ \cup {MeterValidationFailed}]
  /\ Goto(q, IF request[q].refused = Vendors THEN "failed" ELSE "validate")
  /\ UNCHANGED <<txn, tables>>

(* "Try validating with IRECHARGE": errors are swallowed. *)
BackUpValidation(q) ==
  /\ request[q].pc = "backup"
  /\ \E r \in MeterReplies :
       txn' = IF txn[q].superagent = Irecharge \/ Thrown(ValidateMeterWith(Irecharge, r))
              THEN txn ELSE [txn EXCEPT ![q].accessRef = TokenOr(AccessToken(Irecharge, r), @)]
  /\ Goto(q, "received")
  /\ UNCHANGED <<log, tables>>

-----------------------------------------------------------------------------
(* UserService.addUserIfNotExists *)

Return(q, user) == request' = [request EXCEPT ![q].pc = "link", ![q].user = user]

UsersOf(caller) == {u \in users : request[u].caller = caller}

(* "Check if a user with the same email exists": e-mail and phone number. *)
FindUser(q) ==
  /\ request[q].pc = "findUser"
  /\ IF UsersOf(request[q].caller) = {}
     THEN Goto(q, "saveUser")
     ELSE \E u \in UsersOf(request[q].caller) : Return(q, u)
  /\ UNCHANGED <<txn, log, tables>>

SaveUser(q) ==
  /\ request[q].pc = "saveUser"
  /\ users' = users \cup {q}
  /\ Goto(q, "findEntity")
  /\ UNCHANGED <<txn, log, entities, passwords>>

HasEntity(q) == \E n \in entities : EmailOf(n) = EmailOf(q)

FindEntity(q) ==
  /\ request[q].pc = "findEntity"
  /\ IF HasEntity(q) THEN Return(q, q) ELSE Goto(q, "addEntity")
  /\ UNCHANGED <<txn, log, tables>>

(* Slip: the entity is the end of it. *)
AddEntityOnly(q) ==
  /\ request[q].pc = "addEntity"
  /\ IF HasEntity(q) THEN Goto(q, "failed") /\ UNCHANGED entities
                     ELSE Return(q, q) /\ entities' = entities \cup {q}
  /\ UNCHANGED <<txn, log, users, passwords>>

(* Entity.email is unique: the insert that comes second throws. *)
AddEntity(q) ==
  /\ request[q].pc = "addEntity"
  /\ IF HasEntity(q) THEN Goto(q, "failed") /\ UNCHANGED entities
                     ELSE Goto(q, "addPassword") /\ entities' = entities \cup {q}
  /\ UNCHANGED <<txn, log, users, passwords>>

AddPassword(q) ==
  /\ request[q].pc = "addPassword"
  /\ passwords' = passwords \cup {q}
  /\ Return(q, q)
  /\ UNCHANGED <<txn, log, users, entities>>

-----------------------------------------------------------------------------
(* After the user *)

(* Slip: the user is added but not linked. *)
LinkNoUser(q) ==
  /\ request[q].pc = "link" /\ Electricity(q)
  /\ Goto(q, "confirmed")
  /\ UNCHANGED <<txn, log, tables>>

(* The access token of the reply is written again. *)
LinkUser(q) ==
  /\ request[q].pc = "link" /\ Electricity(q)
  /\ txn' = [txn EXCEPT ![q].user = request[q].user]
  /\ Goto(q, "confirmed")
  /\ UNCHANGED <<log, tables>>

(* The other two hold a database transaction open around addUserIfNotExists,  *)
(* which does not use it: it covers this update alone, and what was added     *)
(* stays when it is rolled back.                                             *)
CommitUser(q) ==
  /\ request[q].pc = "link" /\ ~Electricity(q)
  /\ txn' = [txn EXCEPT ![q].user = request[q].user]
  /\ Goto(q, "answer")
  /\ UNCHANGED <<log, tables>>

(* Slip: the record names the vendor that validated the meter. *)
WriteRecordOfCurrent(q) ==
  /\ request[q].pc = "record"
  /\ txn' = [txn EXCEPT ![q].record =
       [vendor |-> txn[q].superagent, count |-> 1, ref |-> 0]]
  /\ Goto(q, "meter")
  /\ UNCHANGED <<log, tables>>

(* superagent is the vendor the row was created with. *)
WriteRecord(q) ==
  /\ request[q].pc = "record"
  /\ txn' = [txn EXCEPT ![q].record =
       [vendor |-> request[q].first, count |-> 1, ref |-> 0]]
  /\ Goto(q, "meter")
  /\ UNCHANGED <<log, tables>>

(* A row of Meter is added and linked; requestToken refuses a row without.   *)
LinkMeter(q) ==
  /\ request[q].pc = "meter"
  /\ txn' = [txn EXCEPT ![q].meter = TRUE]
  /\ Goto(q, "answer")
  /\ UNCHANGED <<log, tables>>

Answer(q) ==
  /\ request[q].pc = "answer"
  /\ Goto(q, IF Electricity(q) THEN "sent" ELSE "answered")
  /\ UNCHANGED <<txn, log, tables>>

-----------------------------------------------------------------------------

Init ==
  /\ txn = [q \in Requests |-> None]
  /\ log = [q \in Requests |-> {}]
  /\ request = [q \in Requests |->
       [kind |-> None, pc |-> "new", caller |-> None, first |-> None, refused |-> {},
        user |-> None, at |-> None]]
  /\ users = {} /\ entities = {} /\ passwords = {}

Step(q) ==
  \/ ReceiveRequest(q) \/ CreateTransaction(q)
  \/ AddEvent(q) \/ CheckPhone(q)
  \/ VendorValidates(q) \/ VendorRefuses(q) \/ NextVendor(q) \/ BackUpValidation(q)
  \/ FindUser(q) \/ SaveUser(q) \/ FindEntity(q) \/ AddEntity(q) \/ AddPassword(q)
  \/ LinkUser(q) \/ CommitUser(q) \/ WriteRecord(q) \/ LinkMeter(q) \/ Answer(q)
  \/ Throw(q)

Next == \E q \in Requests : Step(q)

Spec == Init /\ [][Next]_vars

-----------------------------------------------------------------------------
(* Safety *)

(* The columns the rows of TokenVend, AirtimeVend and DataVend have. *)
PowerRow(t) ==
  [superagent |-> t.superagent, reference |-> t.reference, vendorRef |-> t.vendorRef,
   accessRef |-> t.accessRef, record |-> t.record, previous |-> t.previous]

AirtimeRow(t) ==
  [superagent |-> t.superagent, token |-> t.accessRef # None, previous |-> t.previous]

DataRow(t) ==
  [superagent |-> t.superagent, reference |-> t.reference, access |-> t.accessRef,
   record |-> t.record, previous |-> t.previous]

(* What the handler that takes the row over asks of it: requestToken refuses  *)
(* a row without a meter, and the two others need the user's number.          *)
Accepted(q) == IF Electricity(q) THEN txn[q].meter ELSE txn[q].user # None

(* A row that is accepted is one of the rows TokenVend, AirtimeVend or        *)
(* DataVend starts with, and its user is a row with the caller's address and  *)
(* number: whatever the call went through, whichever call added the user, and *)
(* even when the answer never left.                                          *)
HandsOver ==
  \A q \in Requests : txn[q] # None /\ Accepted(q) =>
    /\ txn[q].user \in UsersOf(request[q].caller)
    /\ \E first \in Opening :
         CASE Electricity(q) ->
                \E validated \in Vendors, access \in {None, 1} :
                  PowerRow(txn[q]) = NewTransaction(first, validated, access)
           [] request[q].kind = "airtime" ->
                AirtimeRow(txn[q]) = NewAirtimeRow(first)
           [] request[q].kind = "data" ->
                DataRow(txn[q]) = NewDataRow(first, None)

(* The events of a transaction are true of its row, wherever the call was cut *)
(* off: it only leaves the vendor with the best commission after a failed     *)
(* validation is logged, the vendor a validation is logged for is the row's,  *)
(* and no user, no confirmed user and no sent validation is there without     *)
(* the row or the event it stands for.                                       *)
LogTells ==
  \A q \in Requests : txn[q] # None =>
    /\ txn[q].superagent # request[q].first => MeterValidationFailed \in log[q]
    /\ \A v \in Vendors :
         MeterValidationReceived(v) \in log[q] => txn[q].superagent = v
    /\ txn[q].user # None => CRMUserInitiated \in log[q]
    /\ CRMUserConfirmed \in log[q] => txn[q].user # None
    /\ MeterValidationSent \in log[q] => txn[q].meter

(* Every user's address has an account with a password, or a call with that   *)
(* address is about to add one, or died while it was: calls that race for the *)
(* same address, one of them failing on the unique column, leave no user      *)
(* without an account.                                                       *)
AccountUnlessTroubled ==
  \A u \in users :
    \/ \E n \in passwords : EmailOf(n) = EmailOf(u)
    \/ \E q \in Requests : /\ request[q].caller # None
                           /\ EmailOf(q) = EmailOf(u)
                           /\ request[q].pc \in Adding \/ request[q].at \in Adding
=============================================================================
