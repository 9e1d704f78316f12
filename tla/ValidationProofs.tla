---------------------------- MODULE ValidationProofs ----------------------------
(***************************************************************************)
(* What holds of Validation for any calls, customers, vendors and openings.  *)
(*                                                                          *)
(* RowInv follows the row of a call through the handler, LogInv its events,  *)
(* and AccountInv the users, accounts and passwords that the calls share.    *)
(***************************************************************************)
EXTENDS Validation, TLAPS

Started(q) == request[q].pc # "new"

(* The call has created its row. *)
Created(q) == request[q].pc \notin {"new", "create", "failed"}

TypeInv ==
  /\ TypeOK
  /\ \A q \in Requests :
       /\ Started(q) => request[q].caller \in Callers /\ request[q].kind \in Kinds
       /\ request[q].pc \in {"new", "create"} => txn[q] = None
       /\ Created(q) => txn[q] \in Transaction /\ request[q].first \in Vendors

-----------------------------------------------------------------------------
(* Where only an electricity transaction gets to, and where only the others.  *)
MeterPCs == {"requested", "validate", "refused", "backup", "received", "confirmed",
             "record", "meter", "sent"}
PhonePCs == {"asked", "check", "checked"}

(* The retry record names the vendor the row was created with. *)
FirstRecord(q) == [vendor |-> request[q].first, count |-> 1, ref |-> 0]

(* What is never undone in a row. *)
RowKept(q) ==
  /\ request[q].first \in Opening
  /\ txn[q].previous = [seen |-> {request[q].first}, len |-> 1]
  /\ Electricity(q) => txn[q].vendorRef = 1
  /\ ~Electricity(q) => /\ txn[q].superagent = request[q].first
                        /\ txn[q].accessRef = None /\ txn[q].record = None
                        /\ ~txn[q].meter
  /\ txn[q].user # None => txn[q].user \in UsersOf(request[q].caller)
  /\ txn[q].meter => txn[q].record = FirstRecord(q) /\ txn[q].user # None

(* What a call has done to its row by where it is. *)
RowAt(q) ==
  /\ request[q].pc \in MeterPCs => Electricity(q)
  /\ request[q].pc \in PhonePCs => ~Electricity(q)
  /\ request[q].pc \in Adding => q \in users
  /\ request[q].pc = "link" => request[q].user \in UsersOf(request[q].caller)
  /\ request[q].pc \in {"confirmed", "record", "meter"} => txn[q].user # None
  /\ request[q].pc = "meter" => txn[q].record = FirstRecord(q)
  /\ request[q].pc = "answer" /\ Electricity(q) => txn[q].meter
  /\ request[q].pc = "sent" => txn[q].meter

RowInv ==
  /\ users \subseteq {q \in Requests : Started(q)}
  /\ \A q \in Requests : txn[q] # None => RowKept(q)
  /\ \A q \in Requests : RowAt(q)

-----------------------------------------------------------------------------
(* Before the vendor that validates is known. *)
Unvalidated == {"new", "create", "requested", "validate", "refused", "backup"}

LogAt(q) ==
  /\ txn[q] = None => log[q] = {}
  /\ request[q].pc \in Unvalidated => \A v \in Vendors : MeterValidationReceived(v) \notin log[q]
  /\ request[q].pc \in {"new", "create", "requested"} => request[q].refused = {}
  /\ request[q].pc = "validate" /\ request[q].refused # {} => MeterValidationFailed \in log[q]
  /\ request[q].pc \in {"findUser", "saveUser", "link"} \cup Adding =>
       CRMUserInitiated \in log[q]

(* The conjuncts of LogTells. *)
Told(q) ==
  /\ txn[q].superagent # request[q].first => MeterValidationFailed \in log[q]
  /\ \A v \in Vendors : MeterValidationReceived(v) \in log[q] => txn[q].superagent = v
  /\ txn[q].user # None => CRMUserInitiated \in log[q]
  /\ CRMUserConfirmed \in log[q] => txn[q].user # None
  /\ MeterValidationSent \in log[q] => txn[q].meter

LogInv == LogTells /\ \A q \in Requests : LogAt(q)

-----------------------------------------------------------------------------
SameAddress(q, u) == Started(q) /\ EmailOf(q) = EmailOf(u)

HasPassword(u) == \E n \in passwords : EmailOf(n) = EmailOf(u)

(* The password is there or is the next thing a call does, unless it died    *)
(* there: an entity is never the reason for another one to wait for a call    *)
(* that waits for the entity.                                                *)
Promised(u) ==
  \/ HasPassword(u)
  \/ \E q \in Requests : /\ SameAddress(q, u)
                         /\ "addPassword" \in {request[q].pc, request[q].at}

InHand(u) ==
  \E q \in Requests : /\ SameAddress(q, u)
                      /\ request[q].pc \in Adding \/ request[q].at \in Adding

AccountInv ==
  /\ entities \cup passwords \subseteq {q \in Requests : Started(q)}
  /\ \A q \in Requests : request[q].at # None => request[q].pc = "failed"
  /\ \A n \in entities : Promised(n)
  /\ \A u \in users : HasPassword(u) \/ InHand(u)

-----------------------------------------------------------------------------
(* Types *)

(* What a step of a call leaves alone. *)
Frame(q) ==
  /\ \A p \in Requests \ {q} :
       request'[p] = request[p] /\ txn'[p] = txn[p] /\ log'[p] = log[p]
  /\ users \subseteq users' /\ entities \subseteq entities' /\ passwords \subseteq passwords'
  /\ Started(q)'
  /\ Started(q) => /\ request'[q].caller = request[q].caller
                   /\ request'[q].kind = request[q].kind
  /\ Created(q) => request'[q].first = request[q].first

(* All of a call but where it is. *)
Rest(r) == <<r.kind, r.caller, r.first, r.refused, r.user, r.at>>

LEMMA GotoDoes ==
  ASSUME request \in [Requests -> Request], NEW q \in Requests, NEW pc \in RequestPCs, Goto(q, pc)
  PROVE  /\ request' \in [Requests -> Request]
         /\ \A p \in Requests \ {q} : request'[p] = request[p]
         /\ request'[q].pc = pc /\ Rest(request'[q]) = Rest(request[q])
<1>1. [request[q] EXCEPT !.pc = pc] \in Request
  BY DEF Request
<1>2. request' = [request EXCEPT ![q] = [request[q] EXCEPT !.pc = pc]]
  BY DEF Goto
<1>3. request'[q] = [request[q] EXCEPT !.pc = pc]
  BY <1>2
<1>4. request[q] \in Request
  OBVIOUS
<1>5. Rest([request[q] EXCEPT !.pc = pc]) = Rest(request[q]) /\ [request[q] EXCEPT !.pc = pc].pc = pc
  BY <1>4 DEF Request, Rest
<1> HIDE DEF Request
<1> QED
  BY <1>1, <1>2, <1>3, <1>5

LEMMA ReturnDoes ==
  ASSUME request \in [Requests -> Request], NEW q \in Requests, NEW u \in Requests, Return(q, u)
  PROVE  /\ request' \in [Requests -> Request]
         /\ \A p \in Requests \ {q} : request'[p] = request[p]
         /\ request'[q] = [request[q] EXCEPT !.pc = "link", !.user = u]
<1>1. [request[q] EXCEPT !.pc = "link", !.user = u] \in Request
  BY DEF Request, RequestPCs
<1>2. request' = [request EXCEPT ![q] = [request[q] EXCEPT !.pc = "link", !.user = u]]
  BY DEF Return
<1> HIDE DEF Request
<1> QED
  BY <1>1, <1>2

(* The events a call may add, and where it then goes on. *)
LEMMA FollowingIs ==
  /\ DOMAIN Following = {"asked", "checked", "requested", "received", "initiated",
                         "confirmed", "sent"}
  /\ Following["asked"] = "check" /\ Following["checked"] = "initiated"
  /\ Following["requested"] = "validate" /\ Following["received"] = "initiated"
  /\ Following["initiated"] = "findUser" /\ Following["confirmed"] = "record"
  /\ Following["sent"] = "answered"
  /\ \A pc \in DOMAIN Following : pc \in RequestPCs /\ Following[pc] \in RequestPCs
BY DEF Following, RequestPCs

LEMMA EventAtType ==
  ASSUME TypeInv, NEW q \in Requests, request[q].pc \in DOMAIN Following
  PROVE  EventAt(q, request[q].pc) \in Events
<1>1. CASE request[q].pc = "received"
  <2>1. txn[q].superagent \in Vendors
    BY <1>1 DEF TypeInv, Created, Transaction
  <2>2. EventAt(q, request[q].pc) = MeterValidationReceived(txn[q].superagent)
    BY <1>1 DEF EventAt
  <2> QED
    BY <2>1, <2>2 DEF Events
<1>2. CASE request[q].pc # "received"
  BY <1>2, FollowingIs DEF EventAt, Events
<1> QED
  BY <1>1, <1>2

LEMMA InitType == Init => TypeInv
BY DEF Init, TypeInv, TypeOK, Request, RequestPCs, Started, Created

(* The rest of a call that goes on is as it was. *)
LEMMA GotoFrames ==
  ASSUME TypeInv, NEW q \in Requests, NEW pc \in RequestPCs \ {"new", "create"}, Goto(q, pc),
         request[q].pc \notin {"new", "create"}
  PROVE  /\ request' \in [Requests -> Request]
         /\ \A p \in Requests \ {q} : request'[p] = request[p]
         /\ request'[q].pc = pc /\ Started(q)'
         /\ request'[q].caller = request[q].caller /\ request'[q].kind = request[q].kind
         /\ request'[q].first = request[q].first /\ request'[q].refused = request[q].refused
         /\ request'[q].user = request[q].user /\ request'[q].at = request[q].at
BY GotoDoes DEF TypeInv, TypeOK, Rest, Started

LEMMA Assembled ==
  ASSUME TypeInv, NEW q \in Requests, Frame(q),
         request' \in [Requests -> Request], log' \in [Requests -> SUBSET Events],
         txn' \in [Requests -> Transaction \cup {None}],
         users' \subseteq Requests, entities' \subseteq Requests, passwords' \subseteq Requests,
         request'[q].caller \in Callers, request'[q].kind \in Kinds,
         request'[q].pc # "create",
         Created(q)' => txn'[q] \in Transaction /\ request'[q].first \in Vendors
  PROVE  TypeInv'
<1>1. \A p \in Requests \ {q} :
        /\ Started(p)' => request'[p].caller \in Callers /\ request'[p].kind \in Kinds
        /\ request'[p].pc \in {"new", "create"} => txn'[p] = None
        /\ Created(p)' => txn'[p] \in Transaction /\ request'[p].first \in Vendors
  BY DEF TypeInv, Frame, Started, Created
<1>2. Started(q)'
  BY DEF Frame
<1>3. request'[q].pc \notin {"new", "create"}
  BY <1>2 DEF Started
<1> QED
  BY <1>1, <1>3 DEF TypeInv, TypeOK

(* The steps that only move their call. *)
LEMMA MoveType ==
  ASSUME TypeInv, NEW q \in Requests,
         \/ AddEvent(q) \/ CheckPhone(q) \/ VendorRefuses(q) \/ NextVendor(q)
         \/ FindUser(q) \/ SaveUser(q) \/ FindEntity(q) \/ AddEntity(q) \/ AddPassword(q)
         \/ Answer(q) \/ Throw(q)
  PROVE  /\ Frame(q) /\ request' \in [Requests -> Request] /\ txn' = txn
         /\ log' \in [Requests -> SUBSET Events]
         /\ users' \subseteq Requests /\ entities' \subseteq Requests
         /\ passwords' \subseteq Requests
         /\ request[q].pc \notin {"new", "failed"}
         /\ request[q].pc # "create" \/ request'[q].pc = "failed"
         /\ request'[q].pc # "create"
<1>g. /\ request \in [Requests -> Request] /\ log \in [Requests -> SUBSET Events]
      /\ users \subseteq Requests /\ entities \subseteq Requests /\ passwords \subseteq Requests
  BY DEF TypeInv, TypeOK
<1> USE DEF RequestPCs, Adding, Frame, Started, Created, tables
<1>1. CASE AddEvent(q)
  <2>1. Goto(q, Following[request[q].pc]) /\ request[q].pc \in DOMAIN Following
    BY <1>1 DEF AddEvent
  <2>2. Following[request[q].pc] \in RequestPCs \ {"new", "create"}
        /\ request[q].pc \notin {"new", "create", "failed"}
    BY <2>1, FollowingIs
  <2>3. log' \in [Requests -> SUBSET Events]
    BY <1>1, <2>1, <1>g, EventAtType DEF AddEvent
  <2>4. \A p \in Requests \ {q} : log'[p] = log[p]
    BY <1>1, <1>g DEF AddEvent
  <2>5. UNCHANGED <<txn, users, entities, passwords>>
    BY <1>1 DEF AddEvent
  <2> HIDE DEF RequestPCs
  <2> QED
    BY <2>1, <2>2, <2>3, <2>4, <2>5, <1>g, GotoFrames
<1>2. CASE CheckPhone(q)
  <2>1. CASE Goto(q, "checked")
    BY <1>2, <2>1, <1>g, GotoFrames, FollowingIs DEF CheckPhone
  <2>2. CASE Goto(q, "failed")
    BY <1>2, <2>2, <1>g, GotoFrames DEF CheckPhone
  <2> QED
    BY <1>2, <2>1, <2>2 DEF CheckPhone
<1>3. CASE VendorRefuses(q)
  <2>1. PICK v \in Vendors : request' = [request EXCEPT ![q].refused = @ \cup {v}, ![q].pc = "refused"]
    BY <1>3 DEF VendorRefuses, VendorsToTry, TypeInv, TypeOK, Request, Created
  <2> DEFINE r == [request[q] EXCEPT !.refused = @ \cup {v}, !.pc = "refused"]
  <2>2. r \in Request /\ r.pc = "refused" /\ r.caller = request[q].caller /\ r.kind = request[q].kind
        /\ r.first = request[q].first
    BY <1>g DEF Request
  <2>3. request' = [request EXCEPT ![q] = r]
    BY <2>1
  <2> HIDE DEF r, Request
  <2> QED
    BY <1>3, <1>g, <2>2, <2>3 DEF VendorRefuses
<1>4. CASE NextVendor(q)
  <2>1. MeterValidationFailed \in Events
    BY DEF Events
  <2>2. Goto(q, IF request[q].refused = Vendors THEN "failed" ELSE "validate")
    BY <1>4 DEF NextVendor
  <2>3. log' = [log EXCEPT ![q] = @ \cup {MeterValidationFailed}]
        /\ UNCHANGED <<txn, users, entities, passwords>> /\ request[q].pc = "refused"
    BY <1>4 DEF NextVendor
  <2>4. log' \in [Requests -> SUBSET Events] /\ \A p \in Requests \ {q} : log'[p] = log[p]
    BY <2>1, <2>3, <1>g
  <2> QED
    BY <2>2, <2>3, <2>4, <1>g, GotoFrames
<1>5. CASE FindUser(q)
  <2>1. CASE Goto(q, "saveUser")
    BY <1>5, <2>1, <1>g, GotoFrames DEF FindUser
  <2>2. CASE \E u \in UsersOf(request[q].caller) : Return(q, u)
    <3>1. PICK u \in Requests : Return(q, u)
      BY <2>2, <1>g DEF UsersOf
    <3>2. request' \in [Requests -> Request] /\ (\A p \in Requests \ {q} : request'[p] = request[p])
          /\ request'[q] = [request[q] EXCEPT !.pc = "link", !.user = u]
      BY <3>1, <1>g, ReturnDoes
    <3>3. /\ request'[q].pc = "link" /\ request'[q].caller = request[q].caller
          /\ request'[q].kind = request[q].kind /\ request'[q].first = request[q].first
      BY <3>2, <1>g DEF Request
    <3> QED
      BY <3>2, <3>3, <1>5, <1>g DEF FindUser
  <2> QED
    BY <1>5, <2>1, <2>2 DEF FindUser
<1>6. CASE SaveUser(q)
  BY <1>6, <1>g, GotoFrames DEF SaveUser
<1>r. ASSUME Return(q, q)
      PROVE  /\ request' \in [Requests -> Request]
             /\ \A p \in Requests \ {q} : request'[p] = request[p]
             /\ request'[q].pc = "link" /\ request'[q].caller = request[q].caller
             /\ request'[q].kind = request[q].kind /\ request'[q].first = request[q].first
  <2>1. /\ request' \in [Requests -> Request]
        /\ \A p \in Requests \ {q} : request'[p] = request[p]
        /\ request'[q] = [request[q] EXCEPT !.pc = "link", !.user = q]
    BY <1>r, <1>g, ReturnDoes
  <2>2. request[q] \in Request
    BY <1>g
  <2> QED
    BY <2>1, <2>2 DEF Request
<1>7. CASE FindEntity(q)
  BY <1>7, <1>r, <1>g, GotoFrames DEF FindEntity
<1>8. CASE AddEntity(q)
  BY <1>8, <1>g, GotoFrames DEF AddEntity
<1>9. CASE AddPassword(q)
  BY <1>9, <1>r, <1>g DEF AddPassword
<1>10. CASE Answer(q)
  <2>1. CASE Goto(q, "sent")
    BY <1>10, <2>1, <1>g, GotoFrames, FollowingIs DEF Answer
  <2>2. CASE Goto(q, "answered")
    BY <1>10, <2>2, <1>g, GotoFrames DEF Answer
  <2> QED
    BY <1>10, <2>1, <2>2 DEF Answer
<1>11. CASE Throw(q)
  <2> DEFINE r == [request[q] EXCEPT !.pc = "failed", !.at = request[q].pc]
  <2>1. r \in Request /\ r.pc = "failed" /\ r.caller = request[q].caller /\ r.kind = request[q].kind
        /\ r.first = request[q].first
    BY <1>g DEF Request
  <2>2. request' = [request EXCEPT ![q] = r]
    BY <1>11 DEF Throw
  <2> HIDE DEF r, Request
  <2> QED
    BY <1>11, <1>g, <2>1, <2>2 DEF Throw
<1> QED
  BY <1>1, <1>2, <1>3, <1>4, <1>5, <1>6, <1>7, <1>8, <1>9, <1>10, <1>11

(* The steps that write the row. *)
LEMMA WriteType ==
  ASSUME TypeInv, NEW q \in Requests,
         \/ VendorValidates(q) \/ BackUpValidation(q) \/ LinkUser(q) \/ CommitUser(q)
         \/ WriteRecord(q) \/ LinkMeter(q)
  PROVE  /\ txn'[q] \in Transaction
         /\ txn' \in [Requests -> Transaction \cup {None}]
         /\ \A p \in Requests \ {q} : txn'[p] = txn[p]
         /\ log' = log /\ UNCHANGED tables
         /\ request[q].pc \notin {"new", "create", "failed"}
         /\ \E pc \in RequestPCs \ {"new", "create"} : Goto(q, pc)
<1>g. /\ txn \in [Requests -> Transaction \cup {None}]
      /\ request[q] \in Request
      /\ Created(q) => txn[q] \in Transaction /\ request[q].first \in Vendors
  BY DEF TypeInv, TypeOK
<1> USE DEF RequestPCs, Created, tables
<1>t. ASSUME txn[q] \in Transaction, NEW t \in Transaction, txn' = [txn EXCEPT ![q] = t]
      PROVE  /\ txn'[q] \in Transaction
             /\ txn' \in [Requests -> Transaction \cup {None}]
             /\ \A p \in Requests \ {q} : txn'[p] = txn[p]
  <2> HIDE DEF Transaction
  <2> QED
    BY <1>t, <1>g
<1>1. CASE VendorValidates(q)
  <2>1. PICK v \in VendorsToTry(q) : \E r \in MeterReplies :
          txn' = [txn EXCEPT ![q].superagent = v,
                             ![q].accessRef = TokenOr(AccessToken(v, r), @)]
    BY <1>1 DEF VendorValidates
  <2>2. PICK r \in MeterReplies :
          txn' = [txn EXCEPT ![q].superagent = v,
                             ![q].accessRef = TokenOr(AccessToken(v, r), @)]
    BY <2>1
  <2>3. txn[q] \in Transaction /\ v \in Vendors
    BY <1>1, <1>g DEF VendorValidates, VendorsToTry
  <2> DEFINE t == [txn[q] EXCEPT !.superagent = v, !.accessRef = TokenOr(AccessToken(v, r), @)]
  <2>4. TokenOr(AccessToken(v, r), txn[q].accessRef) \in {None, 1}
    BY <2>3 DEF TokenOr, AccessToken, Transaction
  <2>5. t \in Transaction
    BY <2>3, <2>4 DEF Transaction
  <2>6. txn' = [txn EXCEPT ![q] = t]
    BY <2>2, <2>3, <1>g
  <2> HIDE DEF t
  <2>7. Goto(q, "backup")
    BY <1>1 DEF VendorValidates
  <2> QED
    BY <1>1, <2>3, <2>5, <2>6, <2>7, <1>t DEF VendorValidates
<1>2. CASE BackUpValidation(q)
  <2>0. txn[q] \in Transaction
    BY <1>2, <1>g DEF BackUpValidation
  <2>1. PICK r \in MeterReplies :
          txn' = IF txn[q].superagent = Irecharge \/ Thrown(ValidateMeterWith(Irecharge, r))
                 THEN txn ELSE [txn EXCEPT ![q].accessRef = TokenOr(AccessToken(Irecharge, r), @)]
    BY <1>2 DEF BackUpValidation
  <2> DEFINE t == [txn[q] EXCEPT !.accessRef = TokenOr(AccessToken(Irecharge, r), @)]
  <2>2. TokenOr(AccessToken(Irecharge, r), txn[q].accessRef) \in {None, 1}
    BY <2>0 DEF TokenOr, AccessToken, Transaction
  <2>3. t \in Transaction
    BY <2>0, <2>2 DEF Transaction
  <2>4. txn' = txn \/ txn' = [txn EXCEPT ![q] = t]
    BY <2>1
  <2>5. Goto(q, "received")
    BY <1>2 DEF BackUpValidation
  <2>6. "received" \in RequestPCs
    BY FollowingIs
  <2> HIDE DEF t
  <2> QED
    BY <1>2, <2>0, <2>3, <2>4, <2>5, <2>6, <1>g, <1>t DEF BackUpValidation
<1>3. CASE LinkUser(q) \/ CommitUser(q)
  <2>0. txn[q] \in Transaction
    BY <1>3, <1>g DEF LinkUser, CommitUser
  <2> DEFINE t == [txn[q] EXCEPT !.user = request[q].user]
  <2>1. t \in Transaction
    BY <2>0, <1>g DEF Transaction, Request
  <2>2. txn' = [txn EXCEPT ![q] = t]
    BY <1>3 DEF LinkUser, CommitUser
  <2>3. Goto(q, "confirmed") \/ Goto(q, "answer")
    BY <1>3 DEF LinkUser, CommitUser
  <2>4. "confirmed" \in RequestPCs
    BY FollowingIs
  <2> HIDE DEF t
  <2> QED
    BY <1>3, <2>0, <2>1, <2>2, <2>3, <2>4, <1>t DEF LinkUser, CommitUser
<1>4. CASE WriteRecord(q)
  <2>0. txn[q] \in Transaction /\ request[q].first \in Vendors
    BY <1>4, <1>g DEF WriteRecord
  <2> DEFINE t == [txn[q] EXCEPT !.record = FirstRecord(q)]
  <2>1. FirstRecord(q) \in [vendor : Vendors, count : {1}, ref : {0}]
    BY <2>0 DEF FirstRecord
  <2>2. t \in Transaction
    BY <2>0, <2>1 DEF Transaction
  <2>3. txn' = [txn EXCEPT ![q] = t] /\ Goto(q, "meter")
    BY <1>4 DEF WriteRecord, FirstRecord
  <2> HIDE DEF t
  <2> QED
    BY <1>4, <2>0, <2>2, <2>3, <1>t DEF WriteRecord
<1>5. CASE LinkMeter(q)
  <2>0. txn[q] \in Transaction
    BY <1>5, <1>g DEF LinkMeter
  <2> DEFINE t == [txn[q] EXCEPT !.meter = TRUE]
  <2>1. t \in Transaction
    BY <2>0 DEF Transaction
  <2>2. txn' = [txn EXCEPT ![q] = t] /\ Goto(q, "answer")
    BY <1>5 DEF LinkMeter
  <2> HIDE DEF t
  <2> QED
    BY <1>5, <2>0, <2>1, <2>2, <1>t DEF LinkMeter
<1> QED
  BY <1>1, <1>2, <1>3, <1>4, <1>5

(* The row a call creates. *)
FirstRow(q, first) ==
  [superagent |-> first, reference |-> 0,
   vendorRef |-> IF Electricity(q) \/ first = Irecharge THEN 1 ELSE 0,
   accessRef |-> None, record |-> None,
   previous |-> [seen |-> {first}, len |-> 1],
   user |-> None, meter |-> FALSE]

LEMMA CreateDoes ==
  ASSUME TypeInv, NEW q \in Requests, CreateTransaction(q)
  PROVE  \E first \in Opening :
           /\ first \in Vendors
           /\ txn'[q] = FirstRow(q, first) /\ FirstRow(q, first) \in Transaction
           /\ txn' \in [Requests -> Transaction \cup {None}]
           /\ \A p \in Requests \ {q} : txn'[p] = txn[p]
           /\ request' \in [Requests -> Request]
           /\ \A p \in Requests \ {q} : request'[p] = request[p]
           /\ request'[q] = [request[q] EXCEPT !.first = first,
                               !.pc = IF Electricity(q) THEN "requested" ELSE "asked"]
<1>g. /\ txn \in [Requests -> Transaction \cup {None}]
      /\ request \in [Requests -> Request]
  BY DEF TypeInv, TypeOK
<1>1. PICK first \in Opening :
        /\ txn' = [txn EXCEPT ![q] = FirstRow(q, first)]
        /\ request' = [request EXCEPT ![q].first = first,
                         ![q].pc = IF Electricity(q) THEN "requested" ELSE "asked"]
  BY DEF CreateTransaction, FirstRow
<1>2. first \in Vendors
  BY OpeningAssumption
<1> DEFINE r == [request[q] EXCEPT !.first = first,
                   !.pc = IF Electricity(q) THEN "requested" ELSE "asked"]
<1>3. request' = [request EXCEPT ![q] = r]
  BY <1>1
<1>4. "requested" \in RequestPCs /\ "asked" \in RequestPCs
  BY FollowingIs
<1>5. r \in Request
  BY <1>2, <1>4, <1>g DEF Request
<1>6. [seen |-> {first}, len |-> 1] \in PreviousVendors
  BY <1>2 DEF PreviousVendors
<1>7. FirstRow(q, first) \in Transaction
  BY <1>2, <1>6 DEF FirstRow, Transaction
<1>8. request' \in [Requests -> Request] /\ request'[q] = r
      /\ \A p \in Requests \ {q} : request'[p] = request[p]
  <2> HIDE DEF r, Request
  <2> QED
    BY <1>3, <1>5, <1>g
<1>9. txn' \in [Requests -> Transaction \cup {None}] /\ txn'[q] = FirstRow(q, first)
      /\ \A p \in Requests \ {q} : txn'[p] = txn[p]
  <2> HIDE DEF Transaction
  <2> QED
    BY <1>1, <1>7, <1>g
<1> QED
  BY <1>2, <1>7, <1>8, <1>9

LEMMA StepType == ASSUME TypeInv, NEW q \in Requests, Step(q) PROVE TypeInv' /\ Frame(q)
<1>g. /\ txn \in [Requests -> Transaction \cup {None}]
      /\ request \in [Requests -> Request] /\ log \in [Requests -> SUBSET Events]
      /\ users \subseteq Requests /\ entities \subseteq Requests /\ passwords \subseteq Requests
  BY DEF TypeInv, TypeOK
<1>1. CASE ReceiveRequest(q)
  <2>1. PICK c \in Callers : \E k \in Kinds :
          request' = [request EXCEPT ![q].pc = "create", ![q].caller = c, ![q].kind = k]
    BY <1>1 DEF ReceiveRequest
  <2>2. PICK k \in Kinds :
          request' = [request EXCEPT ![q].pc = "create", ![q].caller = c, ![q].kind = k]
    BY <2>1
  <2> DEFINE r == [request[q] EXCEPT !.pc = "create", !.caller = c, !.kind = k]
  <2>3. r \in Request /\ r.pc = "create" /\ r.caller = c /\ r.kind = k
    BY <1>g DEF Request, RequestPCs
  <2>4. request' = [request EXCEPT ![q] = r]
    BY <2>2
  <2>5. /\ request' \in [Requests -> Request] /\ request'[q] = r
        /\ \A p \in Requests \ {q} : request'[p] = request[p]
    <3> HIDE DEF r, Request
    <3> QED
      BY <2>3, <2>4, <1>g
  <2> HIDE DEF r
  <2>6. UNCHANGED <<txn, log, users, entities, passwords>> /\ request[q].pc = "new"
    BY <1>1 DEF ReceiveRequest, tables
  <2>7. Frame(q)
    BY <2>3, <2>5, <2>6 DEF Frame, Started, Created
  <2>8. \A p \in Requests :
          /\ Started(p)' => request'[p].caller \in Callers /\ request'[p].kind \in Kinds
          /\ request'[p].pc \in {"new", "create"} => txn'[p] = None
          /\ Created(p)' => txn'[p] \in Transaction /\ request'[p].first \in Vendors
    BY <2>3, <2>5, <2>6 DEF TypeInv, Started, Created
  <2> QED
    BY <2>5, <2>6, <2>7, <2>8, <1>g DEF TypeInv, TypeOK
<1>2. CASE CreateTransaction(q)
  <2>1. PICK first \in Opening :
          /\ first \in Vendors
          /\ txn'[q] = FirstRow(q, first) /\ FirstRow(q, first) \in Transaction
          /\ txn' \in [Requests -> Transaction \cup {None}]
          /\ \A p \in Requests \ {q} : txn'[p] = txn[p]
          /\ request' \in [Requests -> Request]
          /\ \A p \in Requests \ {q} : request'[p] = request[p]
          /\ request'[q] = [request[q] EXCEPT !.first = first,
                              !.pc = IF Electricity(q) THEN "requested" ELSE "asked"]
    BY <1>2, CreateDoes
  <2>2. /\ request'[q].first = first /\ request'[q].pc \in {"requested", "asked"}
        /\ request'[q].caller = request[q].caller /\ request'[q].kind = request[q].kind
    BY <2>1, <1>g DEF Request
  <2>3. UNCHANGED <<log, users, entities, passwords>> /\ request[q].pc = "create"
    BY <1>2 DEF CreateTransaction, tables
  <2>4. Frame(q)
    BY <2>1, <2>2, <2>3 DEF Frame, Started, Created
  <2>5. request[q].caller \in Callers /\ request[q].kind \in Kinds
    BY <2>3 DEF TypeInv, Started
  <2> QED
    BY <2>1, <2>2, <2>3, <2>4, <2>5, <1>g, Assembled
<1>3. CASE \/ AddEvent(q) \/ CheckPhone(q) \/ VendorRefuses(q) \/ NextVendor(q)
           \/ FindUser(q) \/ SaveUser(q) \/ FindEntity(q) \/ AddEntity(q) \/ AddPassword(q)
           \/ Answer(q) \/ Throw(q)
  <2>1. /\ Frame(q) /\ request' \in [Requests -> Request] /\ txn' = txn
        /\ log' \in [Requests -> SUBSET Events]
        /\ users' \subseteq Requests /\ entities' \subseteq Requests
        /\ passwords' \subseteq Requests
        /\ request[q].pc \notin {"new", "failed"}
        /\ request[q].pc # "create" \/ request'[q].pc = "failed"
        /\ request'[q].pc # "create"
    BY <1>3, MoveType
  <2>2. /\ request'[q].caller \in Callers /\ request'[q].kind \in Kinds
        /\ Created(q)' => txn'[q] \in Transaction /\ request'[q].first \in Vendors
    BY <2>1 DEF TypeInv, Frame, Started, Created
  <2> QED
    BY <2>1, <2>2, <1>g, Assembled
<1>4. CASE \/ VendorValidates(q) \/ BackUpValidation(q) \/ LinkUser(q) \/ CommitUser(q)
           \/ WriteRecord(q) \/ LinkMeter(q)
  <2>1. /\ txn'[q] \in Transaction
        /\ txn' \in [Requests -> Transaction \cup {None}]
        /\ \A p \in Requests \ {q} : txn'[p] = txn[p]
        /\ log' = log /\ UNCHANGED tables
        /\ request[q].pc \notin {"new", "create", "failed"}
        /\ \E pc \in RequestPCs \ {"new", "create"} : Goto(q, pc)
    BY <1>4, WriteType
  <2>2. /\ request' \in [Requests -> Request] /\ Started(q)'
        /\ \A p \in Requests \ {q} : request'[p] = request[p]
        /\ request'[q].caller = request[q].caller /\ request'[q].kind = request[q].kind
        /\ request'[q].first = request[q].first /\ request'[q].pc # "create"
    BY <2>1, GotoFrames
  <2>3. Frame(q)
    BY <2>1, <2>2 DEF Frame, tables
  <2>4. /\ request'[q].caller \in Callers /\ request'[q].kind \in Kinds
        /\ request'[q].first \in Vendors
    BY <2>1, <2>2 DEF TypeInv, Started, Created
  <2> QED
    BY <2>1, <2>2, <2>3, <2>4, <1>g, Assembled DEF tables
<1> QED
  BY <1>1, <1>2, <1>3, <1>4 DEF Step

LEMMA Types == Spec => []TypeInv
<1>1. ASSUME TypeInv, [Next]_vars PROVE TypeInv'
  <2>1. CASE Next
    BY <2>1, <1>1, StepType DEF Next
  <2>2. CASE UNCHANGED vars
    BY <2>2, <1>1 DEF vars, tables, TypeInv, TypeOK, Started, Created
  <2> QED
    BY <1>1, <2>1, <2>2
<1> QED
  BY InitType, <1>1, PTL DEF Spec

(* The type invariant of the calls, their rows and events and the shared     *)
(* tables.                                                                   *)
THEOREM ValidationTypes == Spec => []TypeOK
<1>1. TypeInv => TypeOK
  BY DEF TypeInv
<1> QED
  BY <1>1, Types, PTL

-----------------------------------------------------------------------------
(* Rows *)

(* A call that has a row goes on with the customer and the vendor it has, and *)
(* the users found for it are still its users.                               *)
LEMMA UsersStay ==
  ASSUME TypeInv, RowInv, NEW q \in Requests, Frame(q)
  PROVE  \A p \in Requests : Started(p) =>
           /\ request'[p].caller = request[p].caller
           /\ \A u \in UsersOf(request[p].caller) : u \in UsersOf(request[p].caller)'
<1>1. \A u \in users : u \in Requests /\ Started(u) /\ u \in users'
  BY DEF RowInv, Frame
<1>2. \A p \in Requests : Started(p) => request'[p].caller = request[p].caller
  BY DEF Frame
<1> QED
  BY <1>1, <1>2 DEF UsersOf

LEMMA RowOthers ==
  ASSUME TypeInv, RowInv, NEW q \in Requests, Frame(q), NEW p \in Requests, p # q
  PROVE  (txn'[p] # None => RowKept(p)') /\ RowAt(p)'
<1>1. request'[p] = request[p] /\ txn'[p] = txn[p]
  BY DEF Frame
<1>2. Started(p) => \A u \in UsersOf(request[p].caller) : u \in UsersOf(request[p].caller)'
  BY UsersStay
<1>3. txn[p] # None => Started(p)
  BY DEF TypeInv, Started
<1>4. ASSUME txn'[p] # None PROVE RowKept(p)'
  <2>1. RowKept(p)
    BY <1>1, <1>4 DEF RowInv
  <2> QED
    BY <1>1, <1>2, <1>3, <1>4, <2>1 DEF RowKept, Electricity, FirstRecord
<1>5. RowAt(p)'
  <2>1. RowAt(p)
    BY DEF RowInv
  <2>2. users \subseteq users'
    BY DEF Frame
  <2>3. request[p].pc = "link" => Started(p)
    BY DEF Started
  <2> QED
    BY <1>1, <1>2, <2>1, <2>2, <2>3 DEF RowAt, Electricity, FirstRecord
<1> QED
  BY <1>4, <1>5

LEMMA RowMoves ==
  ASSUME TypeInv, RowInv, NEW q \in Requests, Frame(q),
         \/ AddEvent(q) \/ CheckPhone(q) \/ VendorRefuses(q) \/ NextVendor(q)
         \/ FindUser(q) \/ SaveUser(q) \/ FindEntity(q) \/ AddEntity(q) \/ AddPassword(q)
         \/ Answer(q) \/ Throw(q)
  PROVE  txn'[q] # None => RowKept(q)'
<1>1. txn' = txn /\ request[q].pc \notin {"new", "failed"}
  BY MoveType
<1>2. SUFFICES ASSUME txn[q] # None PROVE RowKept(q)'
  BY <1>1
<1>3. Created(q) /\ Started(q)
  BY <1>1, <1>2 DEF TypeInv, Created, Started
<1>4. /\ request'[q].first = request[q].first /\ request'[q].kind = request[q].kind
      /\ \A u \in UsersOf(request[q].caller) : u \in UsersOf(request[q].caller)'
  BY <1>3, UsersStay DEF Frame
<1>5. RowKept(q)
  BY <1>2 DEF RowInv
<1> QED
  BY <1>1, <1>4, <1>5 DEF RowKept, Electricity, FirstRecord

(* Where a call may be whatever its row says. *)
Anywhere == {"new", "create", "initiated", "findUser", "saveUser", "answered", "failed"}

LEMMA AtAnywhere == ASSUME NEW q \in Requests, request'[q].pc \in Anywhere PROVE RowAt(q)'
BY DEF RowAt, Anywhere, MeterPCs, PhonePCs, Adding

LEMMA RowAtMoves ==
  ASSUME TypeInv, RowInv, NEW q \in Requests, Frame(q),
         \/ AddEvent(q) \/ CheckPhone(q) \/ VendorRefuses(q) \/ NextVendor(q)
         \/ FindUser(q) \/ SaveUser(q) \/ FindEntity(q) \/ AddEntity(q) \/ AddPassword(q)
         \/ Answer(q) \/ Throw(q)
  PROVE  RowAt(q)'
<1>t. txn' = txn /\ request \in [Requests -> Request] /\ users \subseteq Requests
  BY MoveType DEF TypeInv, TypeOK
<1>k. /\ request[q].pc # "new" => /\ request'[q].kind = request[q].kind
                                  /\ request'[q].caller = request[q].caller
      /\ Created(q) => request'[q].first = request[q].first
  BY DEF Frame, Started
<1>a. RowAt(q)
  BY DEF RowInv
<1>g. ASSUME NEW pc, Goto(q, pc) PROVE request'[q].pc = pc
  <2>1. request[q] \in Request
    BY <1>t
  <2> QED
    BY <1>t, <1>g, <2>1 DEF Goto, Request
<1>r. ASSUME NEW u \in Requests, Return(q, u)
      PROVE  request'[q].pc = "link" /\ request'[q].user = u
  <2>1. request'[q] = [request[q] EXCEPT !.pc = "link", !.user = u]
    BY <1>t, <1>r, ReturnDoes
  <2>2. request[q] \in Request
    BY <1>t
  <2> QED
    BY <2>1, <2>2 DEF Request
<1>1. CASE AddEvent(q)
  <2>1. request[q].pc \in DOMAIN Following /\ request'[q].pc = Following[request[q].pc]
    BY <1>1, <1>g DEF AddEvent
  <2>2. CASE request'[q].pc \in Anywhere
    BY <2>2, AtAnywhere
  <2>3. CASE request[q].pc = "asked" /\ request'[q].pc = "check"
    BY <2>3, <1>k, <1>a DEF RowAt, MeterPCs, PhonePCs, Adding, Electricity
  <2>4. CASE request[q].pc = "requested" /\ request'[q].pc = "validate"
    BY <2>4, <1>k, <1>a DEF RowAt, MeterPCs, PhonePCs, Adding, Electricity
  <2>5. CASE request[q].pc = "confirmed" /\ request'[q].pc = "record"
    BY <2>5, <1>k, <1>a, <1>t DEF RowAt, MeterPCs, PhonePCs, Adding, Electricity
  <2> QED
    BY <2>1, <2>2, <2>3, <2>4, <2>5, FollowingIs DEF Anywhere
<1>2. CASE CheckPhone(q)
  <2>1. request[q].pc = "check" /\ request'[q].pc \in {"checked", "failed"}
    BY <1>2, <1>g DEF CheckPhone
  <2>2. CASE request'[q].pc = "checked"
    BY <2>1, <2>2, <1>k, <1>a DEF RowAt, MeterPCs, PhonePCs, Adding, Electricity
  <2> QED
    BY <2>1, <2>2, AtAnywhere DEF Anywhere
<1>3. CASE VendorRefuses(q)
  <2>1. PICK v \in VendorsToTry(q) :
          request' = [request EXCEPT ![q].refused = @ \cup {v}, ![q].pc = "refused"]
    BY <1>3 DEF VendorRefuses
  <2>2. request'[q].pc = "refused" /\ request[q].pc = "validate"
    <3>1. request[q] \in Request
      BY <1>t
    <3> QED
      BY <2>1, <3>1, <1>3, <1>t DEF VendorRefuses, Request
  <2> QED
    BY <2>2, <1>k, <1>a DEF RowAt, MeterPCs, PhonePCs, Adding, Electricity
<1>4. CASE NextVendor(q)
  <2>1. request[q].pc = "refused" /\ request'[q].pc \in {"failed", "validate"}
    BY <1>4, <1>g DEF NextVendor
  <2>2. CASE request'[q].pc = "validate"
    BY <2>1, <2>2, <1>k, <1>a DEF RowAt, MeterPCs, PhonePCs, Adding, Electricity
  <2> QED
    BY <2>1, <2>2, AtAnywhere DEF Anywhere
<1>l. ASSUME Return(q, q), request[q].pc \in Adding PROVE RowAt(q)'
  <2>1. request'[q].pc = "link" /\ request'[q].user = q
    BY <1>l, <1>r
  <2>2. q \in users /\ users \subseteq users'
    BY <1>l, <1>a DEF RowAt, Frame
  <2>3. q \in UsersOf(request[q].caller)'
    BY <2>2 DEF UsersOf
  <2> QED
    BY <2>1, <2>3 DEF RowAt, MeterPCs, PhonePCs, Adding
<1>5. CASE FindUser(q)
  <2>1. CASE Goto(q, "saveUser")
    BY <2>1, <1>g, AtAnywhere DEF Anywhere
  <2>2. CASE \E u \in UsersOf(request[q].caller) : Return(q, u)
    <3>1. PICK u \in UsersOf(request[q].caller) : Return(q, u)
      BY <2>2
    <3>2. u \in Requests
      BY <1>t DEF UsersOf
    <3>3. request'[q].pc = "link" /\ request'[q].user = u
      BY <3>1, <3>2, <1>r
    <3>4. u \in UsersOf(request[q].caller)'
      BY <3>1, <1>5, UsersStay DEF FindUser, Started
    <3> QED
      BY <3>3, <3>4 DEF RowAt, MeterPCs, PhonePCs, Adding
  <2> QED
    BY <1>5, <2>1, <2>2 DEF FindUser
<1>6. CASE SaveUser(q)
  <2>1. request'[q].pc = "findEntity" /\ q \in users'
    BY <1>6, <1>g DEF SaveUser
  <2> QED
    BY <2>1 DEF RowAt, MeterPCs, PhonePCs, Adding
<1>p. ASSUME request[q].pc \in Adding, request'[q].pc \in Adding PROVE RowAt(q)'
  <2>1. q \in users'
    BY <1>p, <1>a DEF RowAt, Frame
  <2> QED
    BY <1>p, <2>1 DEF RowAt, MeterPCs, PhonePCs, Adding
<1>7. CASE FindEntity(q)
  BY <1>7, <1>g, <1>l, <1>p DEF FindEntity, Adding
<1>8. CASE AddEntity(q)
  BY <1>8, <1>g, <1>p, AtAnywhere DEF AddEntity, Adding, Anywhere
<1>9. CASE AddPassword(q)
  BY <1>9, <1>l DEF AddPassword, Adding
<1>10. CASE Answer(q)
  <2>1. request[q].pc = "answer" /\ request'[q].pc = IF Electricity(q) THEN "sent" ELSE "answered"
    BY <1>10, <1>g DEF Answer
  <2>2. CASE Electricity(q)
    BY <2>1, <2>2, <1>k, <1>a, <1>t DEF RowAt, MeterPCs, PhonePCs, Adding, Electricity
  <2> QED
    BY <2>1, <2>2, AtAnywhere DEF Anywhere
<1>11. CASE Throw(q)
  <2>1. request'[q].pc = "failed"
    BY <1>11, <1>t DEF Throw, Request
  <2> QED
    BY <2>1, AtAnywhere DEF Anywhere
<1> QED
  BY <1>1, <1>2, <1>3, <1>4, <1>5, <1>6, <1>7, <1>8, <1>9, <1>10, <1>11

(* What the steps that write the row write. *)
LEMMA RowWrites ==
  ASSUME TypeInv, RowInv, NEW q \in Requests, Frame(q),
         \/ VendorValidates(q) \/ BackUpValidation(q) \/ LinkUser(q) \/ CommitUser(q)
         \/ WriteRecord(q) \/ LinkMeter(q)
  PROVE  RowKept(q)' /\ RowAt(q)'
<1>t. /\ txn \in [Requests -> Transaction \cup {None}] /\ request \in [Requests -> Request]
      /\ Started(q) /\ Created(q) /\ txn[q] \in Transaction /\ txn[q] # None
      /\ UNCHANGED <<users, entities, passwords>>
  <2>1. request[q].pc \notin {"new", "create", "failed"} /\ UNCHANGED tables
    BY WriteType
  <2> QED
    BY <2>1, NothingAssumption DEF TypeInv, TypeOK, Started, Created, tables
<1>k. /\ request'[q].first = request[q].first /\ request'[q].kind = request[q].kind
      /\ \A u \in UsersOf(request[q].caller) : u \in UsersOf(request[q].caller)'
  BY <1>t, UsersStay DEF Frame
<1>a. RowAt(q) /\ RowKept(q)
  BY <1>t DEF RowInv
<1>g. ASSUME NEW pc, Goto(q, pc) PROVE request'[q].pc = pc
  <2>1. request[q] \in Request
    BY <1>t
  <2> QED
    BY <1>t, <1>g, <2>1 DEF Goto, Request
<1> USE DEF MeterPCs, PhonePCs, Adding, Electricity, FirstRecord
<1>1. CASE VendorValidates(q)
  <2>1. PICK v \in VendorsToTry(q) : \E r \in MeterReplies :
          txn' = [txn EXCEPT ![q].superagent = v,
                             ![q].accessRef = TokenOr(AccessToken(v, r), @)]
    BY <1>1 DEF VendorValidates
  <2>2. PICK access : txn' = [txn EXCEPT ![q].superagent = v, ![q].accessRef = access]
    BY <2>1
  <2>3. txn'[q] = [txn[q] EXCEPT !.superagent = v, !.accessRef = access]
    BY <2>2, <1>t
  <2>4. /\ txn'[q].previous = txn[q].previous /\ txn'[q].vendorRef = txn[q].vendorRef
        /\ txn'[q].user = txn[q].user /\ txn'[q].meter = txn[q].meter
        /\ txn'[q].record = txn[q].record
    BY <2>3, <1>t DEF Transaction
  <2>5. request[q].pc = "validate" /\ request'[q].pc = "backup"
    BY <1>1, <1>g DEF VendorValidates
  <2>6. RowKept(q)'
    BY <2>4, <2>5, <1>k, <1>a DEF RowKept, RowAt
  <2> QED
    BY <2>5, <2>6, <1>k, <1>a DEF RowAt
<1>2. CASE BackUpValidation(q)
  <2>1. PICK r \in MeterReplies :
          txn' = IF txn[q].superagent = Irecharge \/ Thrown(ValidateMeterWith(Irecharge, r))
                 THEN txn ELSE [txn EXCEPT ![q].accessRef = TokenOr(AccessToken(Irecharge, r), @)]
    BY <1>2 DEF BackUpValidation
  <2>2. txn' = txn \/ \E access : txn' = [txn EXCEPT ![q].accessRef = access]
    BY <2>1
  <2>3. txn'[q] = txn[q] \/ \E access : txn'[q] = [txn[q] EXCEPT !.accessRef = access]
    BY <2>2, <1>t
  <2>4. /\ txn'[q].previous = txn[q].previous /\ txn'[q].vendorRef = txn[q].vendorRef
        /\ txn'[q].user = txn[q].user /\ txn'[q].meter = txn[q].meter
        /\ txn'[q].record = txn[q].record
    BY <2>3, <1>t DEF Transaction
  <2>5. request[q].pc = "backup" /\ request'[q].pc = "received"
    BY <1>2, <1>g DEF BackUpValidation
  <2>6. RowKept(q)'
    BY <2>4, <2>5, <1>k, <1>a DEF RowKept, RowAt
  <2> QED
    BY <2>5, <2>6, <1>k, <1>a DEF RowAt
<1>3. CASE LinkUser(q) \/ CommitUser(q)
  <2>1. txn'[q] = [txn[q] EXCEPT !.user = request[q].user]
    BY <1>3, <1>t DEF LinkUser, CommitUser
  <2>2. /\ txn'[q].previous = txn[q].previous /\ txn'[q].vendorRef = txn[q].vendorRef
        /\ txn'[q].meter = txn[q].meter /\ txn'[q].record = txn[q].record
        /\ txn'[q].superagent = txn[q].superagent /\ txn'[q].accessRef = txn[q].accessRef
        /\ txn'[q].user = request[q].user
    BY <2>1, <1>t DEF Transaction
  <2>3. request[q].pc = "link"
    BY <1>3 DEF LinkUser, CommitUser
  <2>4. request[q].user \in UsersOf(request[q].caller)
    BY <2>3, <1>a DEF RowAt
  <2>5. request[q].user # None
    BY <2>4, NothingAssumption DEF UsersOf, TypeInv, TypeOK
  <2>6. RowKept(q)'
    BY <2>2, <2>4, <2>5, <1>k, <1>a DEF RowKept
  <2>7. CASE LinkUser(q)
    <3>1. request'[q].pc = "confirmed" /\ Electricity(q)
      BY <2>7, <1>g DEF LinkUser
    <3> QED
      BY <3>1, <2>2, <2>5, <2>6, <1>k DEF RowAt
  <2>8. CASE CommitUser(q)
    <3>1. request'[q].pc = "answer" /\ ~Electricity(q)
      BY <2>8, <1>g DEF CommitUser
    <3> QED
      BY <3>1, <2>2, <2>5, <2>6, <1>k DEF RowAt
  <2> QED
    BY <1>3, <2>7, <2>8
<1>4. CASE WriteRecord(q)
  <2>1. txn'[q] = [txn[q] EXCEPT !.record = FirstRecord(q)]
    BY <1>4, <1>t DEF WriteRecord
  <2>2. /\ txn'[q].previous = txn[q].previous /\ txn'[q].vendorRef = txn[q].vendorRef
        /\ txn'[q].meter = txn[q].meter /\ txn'[q].record = FirstRecord(q)
        /\ txn'[q].user = txn[q].user
    BY <2>1, <1>t DEF Transaction
  <2>3. request[q].pc = "record" /\ request'[q].pc = "meter"
    BY <1>4, <1>g DEF WriteRecord
  <2>4. RowKept(q)'
    BY <2>2, <2>3, <1>k, <1>a DEF RowKept, RowAt
  <2> QED
    BY <2>2, <2>3, <2>4, <1>k, <1>a DEF RowAt
<1>5. CASE LinkMeter(q)
  <2>1. txn'[q] = [txn[q] EXCEPT !.meter = TRUE]
    BY <1>5, <1>t DEF LinkMeter
  <2>2. /\ txn'[q].previous = txn[q].previous /\ txn'[q].vendorRef = txn[q].vendorRef
        /\ txn'[q].meter /\ txn'[q].record = txn[q].record
        /\ txn'[q].user = txn[q].user
    BY <2>1, <1>t DEF Transaction
  <2>3. request[q].pc = "meter" /\ request'[q].pc = "answer"
    BY <1>5, <1>g DEF LinkMeter
  <2>4. RowKept(q)'
    BY <2>2, <2>3, <1>k, <1>a DEF RowKept, RowAt
  <2> QED
    BY <2>2, <2>3, <2>4, <1>k, <1>a DEF RowAt
<1> QED
  BY <1>1, <1>2, <1>3, <1>4, <1>5

LEMMA RowStep ==
  ASSUME TypeInv, RowInv, NEW q \in Requests, Step(q) PROVE RowInv'
<1>f. TypeInv' /\ Frame(q)
  BY StepType
<1>o. \A p \in Requests \ {q} : (txn'[p] # None => RowKept(p)') /\ RowAt(p)'
  BY <1>f, RowOthers
<1>u. ASSUME users' = users \/ (users' = users \cup {q} /\ Started(q))
      PROVE  users' \subseteq {p \in Requests : Started(p)'}
  <2>1. \A p \in Requests : Started(p) => Started(p)'
    BY <1>f DEF Frame, Started
  <2> QED
    BY <1>u, <2>1 DEF RowInv
<1>1. CASE ReceiveRequest(q)
  <2>1. request[q].pc = "new" /\ txn' = txn /\ users' = users
    BY <1>1 DEF ReceiveRequest, tables
  <2>2. request'[q].pc = "create"
    <3>1. request[q] \in Request /\ request \in [Requests -> Request]
      BY DEF TypeInv, TypeOK
    <3> QED
      BY <3>1, <1>1 DEF ReceiveRequest, Request
  <2>3. txn'[q] = None
    BY <2>1 DEF TypeInv
  <2>4. RowAt(q)'
    BY <2>2, AtAnywhere DEF Anywhere
  <2> QED
    BY <2>1, <2>3, <2>4, <1>o, <1>u DEF RowInv
<1>2. CASE CreateTransaction(q)
  <2>1. PICK first \in Opening :
          /\ first \in Vendors
          /\ txn'[q] = FirstRow(q, first) /\ FirstRow(q, first) \in Transaction
          /\ txn' \in [Requests -> Transaction \cup {None}]
          /\ \A p \in Requests \ {q} : txn'[p] = txn[p]
          /\ request' \in [Requests -> Request]
          /\ \A p \in Requests \ {q} : request'[p] = request[p]
          /\ request'[q] = [request[q] EXCEPT !.first = first,
                              !.pc = IF Electricity(q) THEN "requested" ELSE "asked"]
    BY <1>2, CreateDoes
  <2>2. request[q] \in Request
    BY DEF TypeInv, TypeOK
  <2>3. /\ request'[q].first = first /\ request'[q].kind = request[q].kind
        /\ request'[q].pc = IF Electricity(q) THEN "requested" ELSE "asked"
    BY <2>1, <2>2 DEF Request
  <2>4. RowKept(q)'
    BY <2>1, <2>3 DEF RowKept, FirstRow, Electricity
  <2>5. RowAt(q)'
    BY <2>3 DEF RowAt, MeterPCs, PhonePCs, Adding, Electricity
  <2>6. users' = users
    BY <1>2 DEF CreateTransaction, tables
  <2> QED
    BY <2>4, <2>5, <2>6, <1>o, <1>u DEF RowInv
<1>3. CASE \/ AddEvent(q) \/ CheckPhone(q) \/ VendorRefuses(q) \/ NextVendor(q)
           \/ FindUser(q) \/ SaveUser(q) \/ FindEntity(q) \/ AddEntity(q) \/ AddPassword(q)
           \/ Answer(q) \/ Throw(q)
  <2>1. txn'[q] # None => RowKept(q)'
    BY <1>f, <1>3, RowMoves
  <2>2. RowAt(q)'
    BY <1>f, <1>3, RowAtMoves
  <2>3. users' = users \/ (users' = users \cup {q} /\ Started(q))
    BY <1>3 DEF AddEvent, CheckPhone, VendorRefuses, NextVendor, FindUser, SaveUser, FindEntity,
      AddEntity, AddPassword, Answer, Throw, tables, Started
  <2> QED
    BY <2>1, <2>2, <2>3, <1>o, <1>u DEF RowInv
<1>4. CASE \/ VendorValidates(q) \/ BackUpValidation(q) \/ LinkUser(q) \/ CommitUser(q)
           \/ WriteRecord(q) \/ LinkMeter(q)
  <2>1. RowKept(q)' /\ RowAt(q)'
    BY <1>f, <1>4, RowWrites
  <2>2. users' = users
    BY <1>4, WriteType DEF tables
  <2> QED
    BY <2>1, <2>2, <1>o, <1>u DEF RowInv
<1> QED
  BY <1>1, <1>2, <1>3, <1>4 DEF Step

LEMMA Rows == Spec => [](TypeInv /\ RowInv)
<1>1. Init => TypeInv /\ RowInv
  <2>1. ASSUME Init PROVE RowInv
    BY <2>1 DEF Init, RowInv, RowAt, MeterPCs, PhonePCs, Adding
  <2> QED
    BY <2>1, InitType
<1>2. ASSUME TypeInv, RowInv, [Next]_vars PROVE RowInv'
  <2>1. CASE Next
    BY <2>1, <1>2, RowStep DEF Next
  <2>2. CASE UNCHANGED vars
    BY <2>2, <1>2 DEF vars, tables, RowInv, RowKept, RowAt, Started, Electricity, UsersOf, FirstRecord
  <2> QED
    BY <1>2, <2>1, <2>2
<1> QED
  BY <1>1, <1>2, Types, PTL DEF Spec

(* A row that requestToken, requestAirtime or requestData accepts is one of    *)
(* the rows TokenVend, AirtimeVend and DataVend start with, and its user is    *)
(* one with the caller's address and number, for any calls that race or die.   *)
THEOREM RowsHandedOver == Spec => []HandsOver
<1>1. ASSUME TypeInv, RowInv, NEW q \in Requests, txn[q] # None, Accepted(q)
      PROVE  /\ txn[q].user \in UsersOf(request[q].caller)
             /\ \E first \in Opening :
                  CASE Electricity(q) ->
                         \E validated \in Vendors, access \in {None, 1} :
                           PowerRow(txn[q]) = NewTransaction(first, validated, access)
                    [] request[q].kind = "airtime" ->
                         AirtimeRow(txn[q]) = NewAirtimeRow(first)
                    [] request[q].kind = "data" ->
                         DataRow(txn[q]) = NewDataRow(first, None)
  <2> DEFINE first == request[q].first
  <2>1. RowKept(q) /\ txn[q] \in Transaction
    BY <1>1 DEF RowInv, TypeInv, TypeOK
  <2>2. first \in Opening
    BY <2>1 DEF RowKept
  <2>3. request[q].kind \in Kinds
    BY <1>1 DEF TypeInv, Started
  <2>4. txn[q].user \in UsersOf(request[q].caller)
    BY <1>1, <2>1 DEF RowKept, Accepted
  <2>5. /\ txn[q].superagent \in Vendors /\ txn[q].reference = 0
        /\ txn[q].accessRef \in {None, 1}
    BY <2>1 DEF Transaction
  <2>6. CASE Electricity(q)
    <3>1. /\ txn[q].vendorRef = 1 /\ txn[q].record = FirstRecord(q)
          /\ txn[q].previous = [seen |-> {first}, len |-> 1]
      BY <1>1, <2>1, <2>6 DEF RowKept, Accepted
    <3>2. PowerRow(txn[q]) = NewTransaction(first, txn[q].superagent, txn[q].accessRef)
      BY <3>1, <2>5 DEF PowerRow, NewTransaction, FirstRecord
    <3>3. \E validated \in Vendors, access \in {None, 1} :
            PowerRow(txn[q]) = NewTransaction(first, validated, access)
      BY <2>5, <3>2
    <3>4. request[q].kind = "electricity"
      BY <2>6 DEF Electricity
    <3> HIDE DEF first
    <3> QED
      BY <2>2, <2>4, <2>6, <3>3, <3>4
  <2>7. CASE ~Electricity(q)
    <3>1. /\ txn[q].superagent = first /\ txn[q].accessRef = None /\ txn[q].record = None
          /\ txn[q].previous = [seen |-> {first}, len |-> 1]
      BY <2>1, <2>7 DEF RowKept
    <3>2. AirtimeRow(txn[q]) = NewAirtimeRow(first) /\ DataRow(txn[q]) = NewDataRow(first, None)
      BY <3>1, <2>5 DEF AirtimeRow, NewAirtimeRow, DataRow, NewDataRow
    <3>3. request[q].kind \in {"airtime", "data"}
      BY <2>3, <2>7 DEF Kinds, Electricity
    <3> QED
      BY <2>2, <2>4, <2>7, <3>2, <3>3
  <2> QED
    BY <2>6, <2>7
<1>2. TypeInv /\ RowInv => HandsOver
  BY <1>1 DEF HandsOver
<1> QED
  BY <1>2, Rows, PTL

-----------------------------------------------------------------------------
(* Events *)

LEMMA LogTellsIs == LogTells <=> \A q \in Requests : txn[q] # None => Told(q)
BY DEF LogTells, Told

(* The events that tell something of the row differ. *)
LEMMA EventsDiffer ==
  /\ \A v, w : MeterValidationReceived(v) = MeterValidationReceived(w) => v = w
  /\ \A v : MeterValidationReceived(v) \notin
              {MeterValidationRequested, MeterValidationFailed, MeterValidationSent,
               PhoneValidationRequested, CRMUserInitiated, CRMUserConfirmed}
  /\ CRMUserConfirmed \notin {MeterValidationRequested, MeterValidationFailed,
                              MeterValidationSent, PhoneValidationRequested, CRMUserInitiated}
  /\ MeterValidationSent \notin {MeterValidationRequested, MeterValidationFailed,
                                 PhoneValidationRequested, CRMUserInitiated}
BY DEF MeterValidationReceived, MeterValidationRequested, MeterValidationFailed,
       MeterValidationSent, PhoneValidationRequested, CRMUserInitiated, CRMUserConfirmed, Event

LEMMA LogOthers ==
  ASSUME LogInv, NEW q \in Requests, Frame(q), NEW p \in Requests, p # q
  PROVE  (txn'[p] # None => Told(p)') /\ LogAt(p)'
<1>1. request'[p] = request[p] /\ txn'[p] = txn[p] /\ log'[p] = log[p]
  BY DEF Frame
<1>2. (txn[p] # None => Told(p)) /\ LogAt(p)
  BY LogTellsIs DEF LogInv
<1> QED
  BY <1>1, <1>2 DEF Told, LogAt

(* The steps that only move their call, but for the events they add. *)
LEMMA LogMoves ==
  ASSUME TypeInv, RowInv, LogInv, NEW q \in Requests, Frame(q),
         \/ CheckPhone(q) \/ VendorRefuses(q) \/ FindUser(q) \/ SaveUser(q) \/ FindEntity(q)
         \/ AddEntity(q) \/ AddPassword(q) \/ Answer(q) \/ Throw(q)
  PROVE  (txn'[q] # None => Told(q)') /\ LogAt(q)'
<1>t. txn' = txn /\ request \in [Requests -> Request] /\ request[q] \in Request /\ log' = log
      /\ request[q].pc # "new"
  <2>1. log' = log
    BY DEF CheckPhone, VendorRefuses, FindUser, SaveUser, FindEntity, AddEntity, AddPassword,
      Answer, Throw
  <2> QED
    BY <2>1, MoveType DEF TypeInv, TypeOK
<1>a. (txn[q] # None => Told(q)) /\ LogAt(q)
  BY LogTellsIs DEF LogInv
<1>1. txn'[q] # None => Told(q)'
  <2>1. SUFFICES ASSUME txn[q] # None PROVE Told(q)'
    BY <1>t
  <2>2. Created(q)
    BY <2>1, MoveType DEF TypeInv, Created
  <2>3. request'[q].first = request[q].first
    BY <2>2 DEF Frame
  <2> QED
    BY <1>t, <1>a, <2>1, <2>3 DEF Told
<1>s. SUFFICES LogAt(q)'
  BY <1>1
<1>g. ASSUME NEW pc, Goto(q, pc) PROVE request'[q].pc = pc
  BY <1>t, <1>g DEF Goto, Request
<1>r. ASSUME NEW u \in Requests, Return(q, u) PROVE request'[q].pc = "link"
  BY <1>t, <1>r DEF Return, Request
<1> USE DEF LogAt, Unvalidated, Adding
<1>2. CASE CheckPhone(q)
  BY <1>2, <1>g, <1>t, <1>a DEF CheckPhone
<1>3. CASE VendorRefuses(q)
  <2>1. PICK v \in VendorsToTry(q) :
          request' = [request EXCEPT ![q].refused = @ \cup {v}, ![q].pc = "refused"]
    BY <1>3 DEF VendorRefuses
  <2>2. request'[q].pc = "refused" /\ request[q].pc = "validate"
    BY <2>1, <1>3, <1>t DEF VendorRefuses, Request
  <2> QED
    BY <2>2, <1>t, <1>a
<1>4. CASE FindUser(q)
  <2>1. request[q].pc = "findUser"
    BY <1>4 DEF FindUser
  <2>2. CASE Goto(q, "saveUser")
    BY <2>1, <2>2, <1>g, <1>t, <1>a
  <2>3. CASE \E u \in UsersOf(request[q].caller) : Return(q, u)
    <3>1. \A u \in UsersOf(request[q].caller) : u \in Requests
      BY DEF UsersOf, TypeInv, TypeOK
    <3>2. request'[q].pc = "link"
      BY <2>3, <3>1, <1>r
    <3> QED
      BY <2>1, <3>2, <1>t, <1>a
  <2> QED
    BY <1>4, <2>2, <2>3 DEF FindUser
<1>5. CASE SaveUser(q)
  BY <1>5, <1>g, <1>t, <1>a DEF SaveUser
<1>6. CASE FindEntity(q)
  BY <1>6, <1>g, <1>r, <1>t, <1>a DEF FindEntity
<1>7. CASE AddEntity(q)
  BY <1>7, <1>g, <1>t, <1>a DEF AddEntity
<1>8. CASE AddPassword(q)
  BY <1>8, <1>r, <1>t, <1>a DEF AddPassword
<1>9. CASE Answer(q)
  BY <1>9, <1>g, <1>t, <1>a DEF Answer
<1>10. CASE Throw(q)
  <2>1. request'[q].pc = "failed"
    BY <1>10, <1>t DEF Throw, Request
  <2> QED
    BY <2>1, <1>t, <1>a
<1> QED
  BY <1>2, <1>3, <1>4, <1>5, <1>6, <1>7, <1>8, <1>9, <1>10

(* A call that adds an event does so after what the event tells. *)
LEMMA LogAdds ==
  ASSUME TypeInv, RowInv, LogInv, NEW q \in Requests, Frame(q), AddEvent(q) \/ NextVendor(q)
  PROVE  (txn'[q] # None => Told(q)') /\ LogAt(q)'
<1>t. txn' = txn /\ log \in [Requests -> SUBSET Events] /\ Created(q) /\ txn[q] \in Transaction
  <2>1. request[q].pc \notin {"new", "create", "failed"}
    BY FollowingIs DEF AddEvent, NextVendor
  <2> QED
    BY <2>1, MoveType DEF TypeInv, TypeOK, Created
<1>k. request'[q].first = request[q].first /\ txn[q] # None
  BY <1>t, NothingAssumption DEF Frame
<1>a. Told(q) /\ LogAt(q) /\ RowAt(q)
  BY <1>k, LogTellsIs DEF LogInv, RowInv
<1>g. ASSUME NEW pc, Goto(q, pc)
      PROVE  request'[q].pc = pc /\ request'[q].refused = request[q].refused
  <2>1. request[q] \in Request /\ request \in [Requests -> Request]
    BY DEF TypeInv, TypeOK
  <2> QED
    BY <1>g, <2>1 DEF Goto, Request
<1> USE DEF Unvalidated, Adding
<1>1. CASE AddEvent(q)
  <2> DEFINE e == EventAt(q, request[q].pc)
  <2>1. log'[q] = log[q] \cup {e}
    BY <1>1, <1>t DEF AddEvent
  <2>2. request[q].pc \in DOMAIN Following /\ request'[q].pc = Following[request[q].pc]
    BY <1>1, <1>g DEF AddEvent
  <2>3. CASE /\ request[q].pc \in {"asked", "checked", "requested"}
             /\ e \in {PhoneValidationRequested, MeterValidationRequested}
    <3>1. Told(q)'
      BY <2>1, <2>3, <1>t, <1>k, <1>a, EventsDiffer DEF Told
    <3>2. request'[q].pc \in {"check", "initiated", "validate"}
      BY <2>2, <2>3, FollowingIs
    <3>3. request[q].pc = "requested" <=> request'[q].pc = "validate"
      BY <2>2, <2>3, FollowingIs
    <3>4. request'[q].refused = request[q].refused
      BY <1>1, <1>g DEF AddEvent
    <3>5. CASE request'[q].pc = "validate"
      <4>1. request'[q].refused = {}
        BY <3>3, <3>4, <3>5, <1>a DEF LogAt
      <4>2. \A v \in Vendors : MeterValidationReceived(v) \notin log[q]
        BY <3>3, <3>5, <1>a DEF LogAt
      <4>3. \A v \in Vendors : MeterValidationReceived(v) \notin log'[q]
        BY <2>1, <2>3, <4>2, EventsDiffer
      <4> QED
        BY <3>1, <3>5, <4>1, <4>3, <1>k, <1>t DEF LogAt
    <3> QED
      BY <3>1, <3>2, <3>5, <1>k, <1>t DEF LogAt
  <2>4. CASE request[q].pc = "received" /\ e = MeterValidationReceived(txn[q].superagent)
    <3>1. \A v \in Vendors : MeterValidationReceived(v) \in log'[q] => txn[q].superagent = v
      BY <2>1, <2>4, <1>a, EventsDiffer DEF Told
    <3>2. Told(q)'
      BY <2>1, <2>4, <3>1, <1>t, <1>k, <1>a, EventsDiffer DEF Told
    <3>3. request'[q].pc = "initiated"
      BY <2>2, <2>4, FollowingIs
    <3> QED
      BY <3>2, <3>3, <1>t, <1>k DEF LogAt
  <2>5. CASE request[q].pc = "initiated" /\ e = CRMUserInitiated
    <3>1. Told(q)'
      BY <2>1, <2>5, <1>t, <1>k, <1>a, EventsDiffer DEF Told
    <3>2. request'[q].pc = "findUser"
      BY <2>2, <2>5, FollowingIs
    <3> QED
      BY <2>1, <2>5, <3>1, <3>2, <1>t, <1>k DEF LogAt
  <2>6. CASE request[q].pc = "confirmed" /\ e = CRMUserConfirmed
    <3>1. txn[q].user # None
      BY <2>6, <1>a DEF RowAt
    <3>2. Told(q)'
      BY <2>1, <2>6, <3>1, <1>t, <1>k, <1>a, EventsDiffer DEF Told
    <3>3. request'[q].pc = "record"
      BY <2>2, <2>6, FollowingIs
    <3> QED
      BY <3>2, <3>3, <1>t, <1>k DEF LogAt
  <2>7. CASE request[q].pc = "sent" /\ e = MeterValidationSent
    <3>1. txn[q].meter
      BY <2>7, <1>a DEF RowAt
    <3>2. Told(q)'
      BY <2>1, <2>7, <3>1, <1>t, <1>k, <1>a, EventsDiffer DEF Told
    <3>3. request'[q].pc = "answered"
      BY <2>2, <2>7, FollowingIs
    <3> QED
      BY <3>2, <3>3, <1>t, <1>k DEF LogAt
  <2>8. \/ request[q].pc \in {"asked", "checked"} /\ e = PhoneValidationRequested
        \/ request[q].pc = "requested" /\ e = MeterValidationRequested
        \/ request[q].pc = "received" /\ e = MeterValidationReceived(txn[q].superagent)
        \/ request[q].pc = "initiated" /\ e = CRMUserInitiated
        \/ request[q].pc = "confirmed" /\ e = CRMUserConfirmed
        \/ request[q].pc = "sent" /\ e = MeterValidationSent
    BY <2>2, FollowingIs DEF EventAt
  <2> HIDE DEF e
  <2> QED
    BY <2>3, <2>4, <2>5, <2>6, <2>7, <2>8
<1>2. CASE NextVendor(q)
  <2>1. log'[q] = log[q] \cup {MeterValidationFailed} /\ request[q].pc = "refused"
    BY <1>2, <1>t DEF NextVendor
  <2>2. request'[q].pc \in {"failed", "validate"}
    BY <1>2, <1>g DEF NextVendor
  <2>3. Told(q)'
    BY <2>1, <1>t, <1>k, <1>a, EventsDiffer DEF Told
  <2>4. \A v \in Vendors : MeterValidationReceived(v) \notin log'[q]
    BY <2>1, <1>a, EventsDiffer DEF LogAt
  <2> QED
    BY <2>1, <2>2, <2>3, <2>4, <1>t, <1>k DEF LogAt
<1> QED
  BY <1>1, <1>2

(* A validation moves the row only after a failure is logged. *)
LEMMA LogWrites ==
  ASSUME TypeInv, RowInv, LogInv, NEW q \in Requests, Frame(q),
         \/ VendorValidates(q) \/ BackUpValidation(q) \/ LinkUser(q) \/ CommitUser(q)
         \/ WriteRecord(q) \/ LinkMeter(q)
  PROVE  Told(q)' /\ LogAt(q)'
<1>t. /\ txn \in [Requests -> Transaction \cup {None}]
      /\ txn[q] \in Transaction /\ txn[q] # None /\ txn'[q] # None /\ log' = log
  <2>1. Created(q) /\ txn'[q] \in Transaction /\ log' = log
    BY WriteType DEF Created
  <2> QED
    BY <2>1, NothingAssumption DEF TypeInv, TypeOK
<1>k. request'[q].first = request[q].first
  BY WriteType DEF Frame, Created
<1>a. Told(q) /\ LogAt(q)
  BY <1>t, LogTellsIs DEF LogInv
<1>g. ASSUME NEW pc, Goto(q, pc) PROVE request'[q].pc = pc
  <2>1. request[q] \in Request /\ request \in [Requests -> Request]
    BY DEF TypeInv, TypeOK
  <2> QED
    BY <1>g, <2>1 DEF Goto, Request
<1> USE DEF Unvalidated, Adding
<1>1. CASE VendorValidates(q)
  <2>1. PICK v \in VendorsToTry(q) : \E r \in MeterReplies :
          txn' = [txn EXCEPT ![q].superagent = v,
                             ![q].accessRef = TokenOr(AccessToken(v, r), @)]
    BY <1>1 DEF VendorValidates
  <2>2. PICK access : txn' = [txn EXCEPT ![q].superagent = v, ![q].accessRef = access]
    BY <2>1
  <2>3. txn'[q] = [txn[q] EXCEPT !.superagent = v, !.accessRef = access]
    BY <2>2, <1>t
  <2>4. /\ txn'[q].superagent = v /\ txn'[q].user = txn[q].user
        /\ txn'[q].meter = txn[q].meter
    BY <2>3, <1>t DEF Transaction
  <2>5. request[q].pc = "validate" /\ request'[q].pc = "backup"
    BY <1>1, <1>g DEF VendorValidates
  <2>6. v # request[q].first => MeterValidationFailed \in log[q]
    BY <2>5, <1>a DEF VendorsToTry, LogAt
  <2>7. \A w \in Vendors : MeterValidationReceived(w) \notin log[q]
    BY <2>5, <1>a DEF LogAt
  <2>8. Told(q)'
    BY <2>4, <2>6, <2>7, <1>t, <1>k, <1>a DEF Told
  <2> QED
    BY <2>5, <2>7, <2>8, <1>t DEF LogAt
<1>s. ASSUME txn'[q].superagent = txn[q].superagent, txn'[q].user = txn[q].user,
             txn[q].meter => txn'[q].meter
      PROVE  Told(q)'
  BY <1>s, <1>t, <1>k, <1>a DEF Told
<1>2. CASE BackUpValidation(q)
  <2>1. PICK r \in MeterReplies :
          txn' = IF txn[q].superagent = Irecharge \/ Thrown(ValidateMeterWith(Irecharge, r))
                 THEN txn ELSE [txn EXCEPT ![q].accessRef = TokenOr(AccessToken(Irecharge, r), @)]
    BY <1>2 DEF BackUpValidation
  <2>2. txn' = txn \/ \E access : txn' = [txn EXCEPT ![q].accessRef = access]
    BY <2>1
  <2>3. txn'[q] = txn[q] \/ \E access : txn'[q] = [txn[q] EXCEPT !.accessRef = access]
    BY <2>2, <1>t
  <2>4. Told(q)'
    BY <2>3, <1>s, <1>t DEF Transaction
  <2>5. request'[q].pc = "received"
    BY <1>2, <1>g DEF BackUpValidation
  <2> QED
    BY <2>4, <2>5, <1>t DEF LogAt
<1>3. CASE LinkUser(q) \/ CommitUser(q)
  <2>1. txn'[q] = [txn[q] EXCEPT !.user = request[q].user] /\ request[q].pc = "link"
    BY <1>3, <1>t DEF LinkUser, CommitUser
  <2>2. /\ txn'[q].meter = txn[q].meter /\ txn'[q].superagent = txn[q].superagent
        /\ txn'[q].user = request[q].user
    BY <2>1, <1>t DEF Transaction
  <2>3. CRMUserInitiated \in log[q]
    BY <2>1, <1>a DEF LogAt
  <2>4. txn'[q].user # None
    <3>1. request[q].user \in UsersOf(request[q].caller)
      BY <2>1 DEF RowInv, RowAt
    <3> QED
      BY <2>2, <3>1, NothingAssumption DEF UsersOf, TypeInv, TypeOK
  <2>5. Told(q)'
    BY <2>2, <2>3, <2>4, <1>t, <1>k, <1>a DEF Told
  <2>6. request'[q].pc \in {"confirmed", "answer"}
    BY <1>3, <1>g DEF LinkUser, CommitUser
  <2> QED
    BY <2>5, <2>6, <1>t DEF LogAt
<1>4. CASE WriteRecord(q)
  <2>1. txn'[q] = [txn[q] EXCEPT !.record = FirstRecord(q)] /\ request'[q].pc = "meter"
    BY <1>4, <1>t, <1>g DEF WriteRecord, FirstRecord
  <2>2. Told(q)'
    BY <2>1, <1>s, <1>t DEF Transaction
  <2> QED
    BY <2>1, <2>2, <1>t DEF LogAt
<1>5. CASE LinkMeter(q)
  <2>1. txn'[q] = [txn[q] EXCEPT !.meter = TRUE] /\ request'[q].pc = "answer"
    BY <1>5, <1>t, <1>g DEF LinkMeter
  <2>2. Told(q)'
    BY <2>1, <1>s, <1>t DEF Transaction
  <2> QED
    BY <2>1, <2>2, <1>t DEF LogAt
<1> QED
  BY <1>1, <1>2, <1>3, <1>4, <1>5

LEMMA LogStep ==
  ASSUME TypeInv, RowInv, LogInv, NEW q \in Requests, Step(q) PROVE LogInv'
<1>f. TypeInv' /\ Frame(q)
  BY StepType
<1>o. \A p \in Requests \ {q} : (txn'[p] # None => Told(p)') /\ LogAt(p)'
  BY <1>f, LogOthers
<1>s. SUFFICES (txn'[q] # None => Told(q)') /\ LogAt(q)'
  <2>1. LogTells' <=> \A p \in Requests : txn'[p] # None => Told(p)'
    BY DEF LogTells, Told
  <2> QED
    BY <2>1, <1>o DEF LogInv
<1>a. (txn[q] # None => Told(q)) /\ LogAt(q)
  BY LogTellsIs DEF LogInv
<1>r. request[q] \in Request /\ request \in [Requests -> Request]
  BY DEF TypeInv, TypeOK
<1>1. CASE ReceiveRequest(q)
  <2>1. request[q].pc = "new" /\ txn' = txn /\ log' = log
    BY <1>1 DEF ReceiveRequest
  <2>2. request'[q].pc = "create" /\ request'[q].refused = request[q].refused
    BY <1>1, <1>r DEF ReceiveRequest, Request
  <2>3. txn[q] = None
    BY <2>1 DEF TypeInv
  <2> QED
    BY <2>1, <2>2, <2>3, <1>a DEF LogAt, Unvalidated, Adding
<1>2. CASE CreateTransaction(q)
  <2>1. PICK first \in Opening :
          /\ first \in Vendors
          /\ txn'[q] = FirstRow(q, first) /\ FirstRow(q, first) \in Transaction
          /\ txn' \in [Requests -> Transaction \cup {None}]
          /\ \A p \in Requests \ {q} : txn'[p] = txn[p]
          /\ request' \in [Requests -> Request]
          /\ \A p \in Requests \ {q} : request'[p] = request[p]
          /\ request'[q] = [request[q] EXCEPT !.first = first,
                              !.pc = IF Electricity(q) THEN "requested" ELSE "asked"]
    BY <1>2, CreateDoes
  <2>2. /\ request'[q].first = first /\ request'[q].refused = request[q].refused
        /\ request'[q].pc \in {"requested", "asked"}
    BY <2>1, <1>r DEF Request
  <2>3. log' = log /\ request[q].pc = "create" /\ txn[q] = None
    BY <1>2 DEF CreateTransaction, TypeInv
  <2>4. log'[q] = {} /\ request[q].refused = {}
    BY <2>3, <1>a DEF LogAt
  <2>5. Told(q)'
    BY <2>1, <2>2, <2>4 DEF Told, FirstRow
  <2> QED
    BY <2>2, <2>4, <2>5 DEF LogAt, Unvalidated, Adding
<1>3. CASE \/ CheckPhone(q) \/ VendorRefuses(q) \/ FindUser(q) \/ SaveUser(q) \/ FindEntity(q)
           \/ AddEntity(q) \/ AddPassword(q) \/ Answer(q) \/ Throw(q)
  BY <1>3, <1>f, LogMoves
<1>4. CASE AddEvent(q) \/ NextVendor(q)
  BY <1>4, <1>f, LogAdds
<1>5. CASE \/ VendorValidates(q) \/ BackUpValidation(q) \/ LinkUser(q) \/ CommitUser(q)
           \/ WriteRecord(q) \/ LinkMeter(q)
  BY <1>5, <1>f, LogWrites
<1> QED
  BY <1>1, <1>2, <1>3, <1>4, <1>5 DEF Step

(* The events of a transaction are true of its row wherever its call was cut   *)
(* off: a failed validation, the vendor a validation came from, a user that    *)
(* was added and one that is confirmed, and a validation sent.                 *)
THEOREM EventsTellTheRow == Spec => []LogTells
<1>1. Init => LogInv
  <2>1. ASSUME Init PROVE \A q \in Requests : txn[q] = None /\ LogAt(q)
    BY <2>1 DEF Init, LogAt, Unvalidated, Adding
  <2> QED
    BY <2>1, LogTellsIs DEF LogInv
<1>2. ASSUME TypeInv, RowInv, LogInv, [Next]_vars PROVE LogInv'
  <2>1. CASE Next
    BY <2>1, <1>2, LogStep DEF Next
  <2>2. CASE UNCHANGED vars
    BY <2>2, <1>2 DEF vars, LogInv, LogTells, LogAt
  <2> QED
    BY <1>2, <2>1, <2>2
<1>3. LogInv => LogTells
  BY DEF LogInv
<1> QED
  BY <1>1, <1>2, <1>3, Rows, PTL DEF Spec

-----------------------------------------------------------------------------
(* Accounts *)

(* Who has which address, and what the calls but q do, stays. *)
LEMMA AddressesStay ==
  ASSUME TypeInv, AccountInv, NEW q \in Requests, Frame(q)
  PROVE  /\ \A p \in Requests : Started(p) => Started(p)' /\ EmailOf(p)' = EmailOf(p)
         /\ \A p \in Requests \ {q} : request'[p].pc = request[p].pc /\ request'[p].at = request[p].at
         /\ \A u \in Requests : Started(u) /\ HasPassword(u) => HasPassword(u)'
<1>1. \A p \in Requests : Started(p) => Started(p)' /\ EmailOf(p)' = EmailOf(p)
  BY DEF Frame, Started, EmailOf
<1>2. \A n \in passwords : n \in Requests /\ Started(n) /\ n \in passwords'
  BY DEF AccountInv, Frame
<1>3. ASSUME NEW u \in Requests, Started(u), HasPassword(u) PROVE HasPassword(u)'
  <2>1. PICK n \in passwords : EmailOf(n) = EmailOf(u)
    BY <1>3 DEF HasPassword
  <2>2. EmailOf(n)' = EmailOf(u)' /\ n \in passwords'
    BY <1>1, <1>2, <1>3, <2>1
  <2> QED
    BY <2>2 DEF HasPassword
<1> QED
  BY <1>1, <1>3 DEF Frame

(* A promise is kept by the call that adds the password, and by its death. *)
LEMMA PromisesStay ==
  ASSUME TypeInv, AccountInv, NEW q \in Requests, Frame(q),
         "addPassword" \in {request[q].pc, request[q].at} =>
           \/ q \in passwords'
           \/ "addPassword" \in {request'[q].pc, request'[q].at},
         NEW u \in Requests, Started(u), Promised(u)
  PROVE  Promised(u)'
<1>1. CASE HasPassword(u)
  BY <1>1, AddressesStay DEF Promised
<1>2. CASE \E p \in Requests : SameAddress(p, u) /\ "addPassword" \in {request[p].pc, request[p].at}
  <2>1. PICK p \in Requests : SameAddress(p, u) /\ "addPassword" \in {request[p].pc, request[p].at}
    BY <1>2
  <2>2. SameAddress(p, u)'
    BY <2>1, AddressesStay DEF SameAddress
  <2>3. CASE "addPassword" \in {request'[p].pc, request'[p].at}
    BY <2>2, <2>3 DEF Promised
  <2>4. CASE p = q /\ q \in passwords'
    BY <2>2, <2>4 DEF Promised, HasPassword, SameAddress
  <2> QED
    BY <2>1, <2>3, <2>4, AddressesStay
<1> QED
  BY <1>1, <1>2 DEF Promised

(* A promise for an address is a password for it or a call in hand. *)
LEMMA PromisedIsCovered ==
  ASSUME NEW u, NEW n, Promised(n)', EmailOf(n)' = EmailOf(u)'
  PROVE  HasPassword(u)' \/ InHand(u)'
BY DEF Promised, HasPassword, InHand, SameAddress, Adding

(* A user is covered if the call of a step goes on adding, dies, adds the     *)
(* password, or finds an entity.                                             *)
LEMMA CoverStays ==
  ASSUME TypeInv, AccountInv, NEW q \in Requests, Frame(q),
         \A n \in Requests : Started(n) /\ Promised(n) => Promised(n)',
         request[q].pc \in Adding \/ request[q].at \in Adding =>
           \/ request'[q].pc \in Adding \/ request'[q].at \in Adding
           \/ q \in passwords' \/ HasEntity(q),
         NEW u \in Requests, Started(u), HasPassword(u) \/ InHand(u)
  PROVE  HasPassword(u)' \/ InHand(u)'
<1>1. CASE HasPassword(u)
  BY <1>1, AddressesStay
<1>2. CASE InHand(u)
  <2>1. PICK p \in Requests : SameAddress(p, u) /\ (request[p].pc \in Adding \/ request[p].at \in Adding)
    BY <1>2 DEF InHand
  <2>2. SameAddress(p, u)'
    BY <2>1, AddressesStay DEF SameAddress
  <2>3. CASE request'[p].pc \in Adding \/ request'[p].at \in Adding
    BY <2>2, <2>3 DEF InHand
  <2>4. CASE p = q /\ q \in passwords'
    BY <2>2, <2>4 DEF HasPassword, SameAddress
  <2>5. CASE p = q /\ HasEntity(q)
    <3>1. PICK n \in entities : EmailOf(n) = EmailOf(q)
      BY <2>5 DEF HasEntity
    <3>2. n \in Requests /\ Started(n) /\ Promised(n)
      BY <3>1 DEF AccountInv
    <3>3. EmailOf(n)' = EmailOf(u)'
      BY <2>1, <2>2, <2>5, <3>1, <3>2, AddressesStay DEF SameAddress
    <3> QED
      BY <3>2, <3>3, PromisedIsCovered
  <2> QED
    BY <2>1, <2>3, <2>4, <2>5, AddressesStay
<1> QED
  BY <1>1, <1>2

(* The steps that leave the accounts alone are those of calls that add none. *)
LEMMA AccountsAside ==
  ASSUME TypeInv, NEW q \in Requests,
         \/ ReceiveRequest(q) \/ CreateTransaction(q) \/ AddEvent(q) \/ CheckPhone(q)
         \/ VendorValidates(q) \/ VendorRefuses(q) \/ NextVendor(q) \/ BackUpValidation(q)
         \/ FindUser(q) \/ LinkUser(q) \/ CommitUser(q) \/ WriteRecord(q) \/ LinkMeter(q)
         \/ Answer(q)
  PROVE  /\ UNCHANGED <<users, entities, passwords>> /\ request[q].pc \notin Adding \cup {"failed"}
         /\ request'[q].at = request[q].at
<1>1. UNCHANGED <<users, entities, passwords>>
  BY DEF ReceiveRequest, CreateTransaction, AddEvent, CheckPhone, VendorValidates, VendorRefuses,
    NextVendor, BackUpValidation, FindUser, LinkUser, CommitUser, WriteRecord, LinkMeter, Answer,
    tables
<1>2. request[q].pc \notin Adding \cup {"failed"}
  BY FollowingIs DEF ReceiveRequest, CreateTransaction, AddEvent, CheckPhone, VendorValidates,
    VendorRefuses, NextVendor, BackUpValidation, FindUser, LinkUser, CommitUser, WriteRecord,
    LinkMeter, Answer, Adding
<1>t. request[q] \in Request /\ request \in [Requests -> Request]
  BY DEF TypeInv, TypeOK
<1>g. ASSUME NEW pc, Goto(q, pc) PROVE request'[q].at = request[q].at
  BY <1>g, <1>t DEF Goto, Request
<1>3. CASE ReceiveRequest(q)
  <2>1. PICK c \in Callers : \E k \in Kinds :
          request' = [request EXCEPT ![q].pc = "create", ![q].caller = c, ![q].kind = k]
    BY <1>3 DEF ReceiveRequest
  <2>2. PICK k \in Kinds :
          request' = [request EXCEPT ![q].pc = "create", ![q].caller = c, ![q].kind = k]
    BY <2>1
  <2>3. request'[q] = [request[q] EXCEPT !.pc = "create", !.caller = c, !.kind = k]
    BY <2>2, <1>t
  <2> QED
    BY <2>3, <1>1, <1>2, <1>t DEF Request
<1>4. CASE CreateTransaction(q)
  <2>1. PICK first : request' = [request EXCEPT ![q].first = first,
                       ![q].pc = IF Electricity(q) THEN "requested" ELSE "asked"]
    BY <1>4 DEF CreateTransaction
  <2>2. request'[q] = [request[q] EXCEPT !.first = first,
                         !.pc = IF Electricity(q) THEN "requested" ELSE "asked"]
    BY <2>1, <1>t
  <2> QED
    BY <2>2, <1>1, <1>2, <1>t DEF Request
<1>5. CASE VendorRefuses(q)
  BY <1>5, <1>1, <1>2, <1>t DEF VendorRefuses, Request
<1>6. CASE FindUser(q)
  BY <1>6, <1>1, <1>2, <1>t, <1>g DEF FindUser, Return, Request
<1>7. CASE \/ AddEvent(q) \/ CheckPhone(q) \/ VendorValidates(q) \/ NextVendor(q)
           \/ BackUpValidation(q) \/ LinkUser(q) \/ CommitUser(q) \/ WriteRecord(q)
           \/ LinkMeter(q) \/ Answer(q)
  BY <1>7, <1>1, <1>2, <1>g DEF AddEvent, CheckPhone, VendorValidates, NextVendor,
    BackUpValidation, LinkUser, CommitUser, WriteRecord, LinkMeter, Answer
<1> QED
  BY <1>3, <1>4, <1>5, <1>6, <1>7

LEMMA AccountStep ==
  ASSUME TypeInv, RowInv, AccountInv, NEW q \in Requests, Step(q) PROVE AccountInv'
<1>f. TypeInv' /\ Frame(q)
  BY StepType
<1>t. /\ request[q] \in Request /\ request \in [Requests -> Request]
      /\ users \subseteq Requests /\ entities \subseteq Requests /\ passwords \subseteq Requests
  BY DEF TypeInv, TypeOK
<1>s. /\ Started(q)'
      /\ \A p \in Requests : Started(p) => Started(p)' /\ EmailOf(p)' = EmailOf(p)
  BY <1>f, AddressesStay DEF Frame
<1>u. \A u \in users : u \in Requests /\ Started(u)
  BY DEF RowInv
(* What a step has to see to. *)
<1>a. ASSUME entities' \cup passwords' \subseteq entities \cup passwords \cup {q},
             request'[q].at # None => request'[q].pc = "failed",
             "addPassword" \in {request[q].pc, request[q].at} =>
               \/ q \in passwords'
               \/ "addPassword" \in {request'[q].pc, request'[q].at},
             request[q].pc \in Adding \/ request[q].at \in Adding =>
               \/ request'[q].pc \in Adding \/ request'[q].at \in Adding
               \/ q \in passwords' \/ HasEntity(q),
             \/ entities' = entities
             \/ entities' = entities \cup {q} /\ request'[q].pc = "addPassword",
             \/ users' = users
             \/ users' = users \cup {q} /\ request'[q].pc \in Adding
      PROVE  AccountInv'
  <2>1. \A n \in Requests : Started(n) /\ Promised(n) => Promised(n)'
    BY <1>a, <1>f, PromisesStay
  <2>2. \A u \in Requests : Started(u) /\ (HasPassword(u) \/ InHand(u)) => HasPassword(u)' \/ InHand(u)'
    BY <1>a, <1>f, <2>1, CoverStays
  <2>3. SameAddress(q, q)'
    BY <1>s DEF SameAddress
  <2>4. entities' \cup passwords' \subseteq {p \in Requests : Started(p)'}
    BY <1>a, <1>s DEF AccountInv
  <2>5. \A p \in Requests : request'[p].at # None => request'[p].pc = "failed"
    BY <1>a, <1>f, AddressesStay DEF AccountInv
  <2>6. \A n \in entities : Promised(n)'
    BY <2>1 DEF AccountInv
  <2>7. request'[q].pc = "addPassword" => Promised(q)'
    BY <2>3 DEF Promised
  <2>8. \A u \in users : HasPassword(u)' \/ InHand(u)'
    BY <2>2, <1>u DEF AccountInv
  <2>9. request'[q].pc \in Adding => InHand(q)'
    BY <2>3 DEF InHand
  <2> QED
    BY <1>a, <2>4, <2>5, <2>6, <2>7, <2>8, <2>9 DEF AccountInv
<1>b. request[q].at # None => request[q].pc = "failed"
  BY DEF AccountInv
<1>n. request[q].pc # "failed" => request[q].at \notin Adding
  BY <1>b, NothingAssumption DEF RequestPCs
<1>g. ASSUME NEW pc, Goto(q, pc) PROVE request'[q].pc = pc /\ request'[q].at = request[q].at
  BY <1>t, <1>g DEF Goto, Request
<1>r. ASSUME NEW u, Return(q, u) PROVE request'[q].pc = "link" /\ request'[q].at = request[q].at
  BY <1>t, <1>r DEF Return, Request
<1>1. CASE \/ ReceiveRequest(q) \/ CreateTransaction(q) \/ AddEvent(q) \/ CheckPhone(q)
           \/ VendorValidates(q) \/ VendorRefuses(q) \/ NextVendor(q) \/ BackUpValidation(q)
           \/ FindUser(q) \/ LinkUser(q) \/ CommitUser(q) \/ WriteRecord(q) \/ LinkMeter(q)
           \/ Answer(q)
  <2>1. /\ UNCHANGED <<users, entities, passwords>> /\ request[q].pc \notin Adding \cup {"failed"}
        /\ request'[q].at = request[q].at
    BY <1>1, AccountsAside
  <2> QED
    BY <2>1, <1>a, <1>b, <1>n DEF Adding
<1>2. CASE SaveUser(q)
  <2>1. /\ request[q].pc = "saveUser" /\ users' = users \cup {q}
        /\ UNCHANGED <<entities, passwords>>
        /\ request'[q].pc = "findEntity" /\ request'[q].at = request[q].at
    BY <1>2, <1>g DEF SaveUser
  <2> QED
    BY <2>1, <1>a, <1>b, <1>n DEF Adding
<1>3. CASE FindEntity(q)
  <2>1. /\ request[q].pc = "findEntity" /\ UNCHANGED <<users, entities, passwords>>
        /\ request'[q].pc = "addEntity" \/ HasEntity(q)
        /\ request'[q].at = request[q].at
    BY <1>3, <1>g, <1>r DEF FindEntity, tables
  <2> QED
    BY <2>1, <1>a, <1>b, <1>n DEF Adding
<1>4. CASE AddEntity(q)
  <2>1. /\ request[q].pc = "addEntity" /\ UNCHANGED <<users, passwords>>
        /\ request'[q].at = request[q].at
        /\ \/ HasEntity(q) /\ entities' = entities
           \/ request'[q].pc = "addPassword" /\ entities' = entities \cup {q}
    BY <1>4, <1>g DEF AddEntity
  <2> QED
    BY <2>1, <1>a, <1>b, <1>n DEF Adding
<1>5. CASE AddPassword(q)
  <2>1. /\ request[q].pc = "addPassword" /\ UNCHANGED <<users, entities>>
        /\ passwords' = passwords \cup {q} /\ request'[q].at = request[q].at
    BY <1>5, <1>r DEF AddPassword
  <2> QED
    BY <2>1, <1>a, <1>b, <1>n DEF Adding
<1>6. CASE Throw(q)
  <2>1. /\ request[q].pc # "failed" /\ UNCHANGED <<users, entities, passwords>>
        /\ request'[q].pc = "failed" /\ request'[q].at = request[q].pc
    BY <1>6, <1>t DEF Throw, tables, Request
  <2> QED
    BY <2>1, <1>a, <1>b, <1>n DEF Adding
<1> QED
  BY <1>1, <1>2, <1>3, <1>4, <1>5, <1>6 DEF Step

(* Every user's address has an account with a password, unless a call with     *)
(* that address is adding one or died there: none is lost to a race for the    *)
(* unique address, however many calls race.                                    *)
THEOREM UsersHaveAccounts == Spec => []AccountUnlessTroubled
<1>1. Init => AccountInv
  BY DEF Init, AccountInv
<1>2. ASSUME TypeInv, RowInv, AccountInv, [Next]_vars PROVE AccountInv'
  <2>1. CASE Next
    BY <2>1, <1>2, AccountStep DEF Next
  <2>2. CASE UNCHANGED vars
    BY <2>2, <1>2 DEF vars, tables, AccountInv, Promised, HasPassword, InHand, SameAddress,
      Started, EmailOf
  <2> QED
    BY <1>2, <2>1, <2>2
<1>3. TypeInv /\ AccountInv => AccountUnlessTroubled
  <2>1. TypeInv => \A q \in Requests : Started(q) => request[q].caller # None
    BY NothingAssumption DEF TypeInv
  <2> QED
    BY <2>1 DEF AccountInv, AccountUnlessTroubled, HasPassword, InHand, SameAddress
<1> QED
  BY <1>1, <1>2, <1>3, Rows, PTL DEF Spec
=============================================================================
