----------------------------- MODULE AccountsProofs -----------------------------
(***************************************************************************)
(* What holds of Accounts for every number of calls and every set of        *)
(* addresses.                                                               *)
(*                                                                         *)
(* TypeInv says what a call holds at each of its awaits; KeyInv follows a    *)
(* key from the filing of its secret to the commit or the rotation that      *)
(* makes it active.                                                         *)
(***************************************************************************)
EXTENDS Accounts, TLAPS

(* What a call is at each of its awaits. *)
CallOK(c, r) ==
  /\ r \in Call
  /\ r.pc # "new" => r.op \in Ops /\ r.target \in Calls
  /\ r.pc # "new" /\ r.op \in Creating =>
       r.target = c /\ r.address \in Addresses /\ r.kind \in Kinds
  /\ r.pc \in {"lookup", "insert", "commit"} => r.op \in Creating
  /\ r.pc \in {"compare", "write"} => r.status \in Status
  /\ r.pc \in {"profile", "find", "deactivate", "add"} => r.op = "generateApiKeys"
  /\ r.pc = "current" => r.op \in Partnering \cup {"generateApiKeys"}
  /\ r.pc = "secret" => r.op \in Partnering \cup KeyOps
  /\ r.op = "getActiveAPIKey" => r.key \in Calls

(* The awaits of which CallOK says something. *)
Holding == {"lookup", "insert", "commit", "compare", "write", "current", "secret",
            "profile", "find", "deactivate", "add"}

CallInv == \A c \in Calls : CallOK(c, call[c])

TypeInv == TypeOK /\ CallInv

USE DEF rows, redis, history

LEMMA CallMoves ==
  ASSUME TypeInv, NEW c \in Calls, NEW r, CallOK(c, r), call' = [call EXCEPT ![c] = r]
  PROVE  call' \in [Calls -> Call] /\ CallInv'
BY DEF TypeInv, TypeOK, CallInv, CallOK

(* A call that only goes on to another await. *)
LEMMA GoesOn ==
  ASSUME TypeInv, NEW c \in Calls, NEW pc \in PCs, Goto(c, pc),
         call[c].pc # "new",
         pc \in Holding =>
           CallOK(c, [call[c] EXCEPT !.pc = pc])
  PROVE  call' \in [Calls -> Call] /\ CallInv'
<1> DEFINE r == [call[c] EXCEPT !.pc = pc]
<1>1. CallOK(c, call[c]) BY DEF TypeInv, CallInv
<1>2. r \in Call BY <1>1 DEF CallOK, Call
<1>3. CallOK(c, r)
  <2>1. CASE pc \in Holding BY <2>1
  <2>2. CASE pc \notin Holding
    BY <1>1, <1>2, <2>2 DEF CallOK, Call, Holding
  <2> QED BY <2>1, <2>2
<1>4. call' = [call EXCEPT ![c] = r] BY DEF Goto
<1> QED BY <1>3, <1>4, CallMoves

-----------------------------------------------------------------------------
(* Type correctness *)

LEMMA OpsHeld ==
  ASSUME TypeInv, NEW c \in Calls
  PROVE  CallOK(c, call[c]) /\ call[c] \in Call
BY DEF TypeInv, CallInv, CallOK

LEMMA IdleOK == Idle \in Call /\ \A c : CallOK(c, Idle)
<1>1. Idle \in Call BY DEF Idle, Call, PCs
<1>2. Idle.op \notin Ops BY NoneAssumption DEF Idle
<1>3. Idle.pc = "new" BY DEF Idle
<1>4. "getActiveAPIKey" \in Ops BY DEF Ops, KeyOps
<1> QED BY <1>1, <1>2, <1>3, <1>4 DEF CallOK

LEMMA InitTypeInv == Init => TypeInv
<1> SUFFICES ASSUME Init PROVE TypeInv OBVIOUS
<1>1. Unverified(FALSE) \in Status BY DEF Unverified, Status
<1>2. CallInv BY IdleOK DEF Init, CallInv
<1>3. TypeOK BY <1>1, IdleOK DEF Init, TypeOK
<1> QED BY <1>2, <1>3 DEF TypeInv

(* A call that begins as r. *)
LEMMA Starts ==
  ASSUME TypeInv, NEW c \in Calls, NEW r, CallOK(c, r), call' = [call EXCEPT ![c] = r],
         UNCHANGED <<rows, redis>>,
         crossedKeys' \subseteq Calls, crossedStatus' \subseteq Calls, UNCHANGED ordered
  PROVE  TypeInv'
<1>1. call' \in [Calls -> Call] /\ CallInv' BY CallMoves
<1> QED BY <1>1 DEF TypeInv, TypeOK

LEMMA CreatingTypeInv ==
  ASSUME TypeInv, NEW c \in Calls, Create(c) PROVE TypeInv'
<1>0. CallOK(c, call[c]) BY OpsHeld
<1>1. CASE StartCreating(c)
  <2>1. PICK op \in Creating, pc \in {"lookup", "insert"}, address \in Addresses, kind \in Kinds :
          call' = [call EXCEPT ![c] = Creation(c, op, pc, address, kind)]
    BY <1>1 DEF StartCreating, Creating, Partnering, Kinds
  <2> DEFINE r == Creation(c, op, pc, address, kind)
  <2>2. r \in Call BY DEF Creation, Call, PCs, Ops
  <2>3. CallOK(c, r)
    BY <2>2 DEF CallOK, Creation, Ops, Creating, Partnering
  <2> HIDE DEF r
  <2> QED BY <1>1, <2>1, <2>3, Starts DEF StartCreating, TypeInv, TypeOK, r
<1>2. CASE LookUpPartner(c)
  <2>1. PICK pc \in {"done", "insert"} : Goto(c, pc) BY <1>2 DEF LookUpPartner
  <2>2. pc = "insert" => CallOK(c, [call[c] EXCEPT !.pc = pc])
    BY <1>0, <1>2 DEF LookUpPartner, CallOK, Call, PCs
  <2>3. call' \in [Calls -> Call] /\ CallInv'
    BY <1>2, <2>1, <2>2, GoesOn DEF LookUpPartner, PCs, Holding
  <2> QED BY <1>2, <2>3 DEF LookUpPartner, TypeInv, TypeOK
<1>3. CASE InsertRows(c)
  <2>1. PICK pc \in {"done", "secret", "commit"} :
          Goto(c, pc) /\ (pc = "secret" => call[c].op \in Partnering)
    BY <1>3 DEF InsertRows
  <2>2. pc # "done" => CallOK(c, [call[c] EXCEPT !.pc = pc])
    BY <1>0, <1>3, <2>1 DEF InsertRows, CallOK, Call, PCs
  <2>3. call' \in [Calls -> Call] /\ CallInv'
    BY <1>3, <2>1, <2>2, GoesOn DEF InsertRows, PCs, Holding
  <2> QED BY <1>3, <2>3 DEF InsertRows, TypeInv, TypeOK
<1>4. CASE Commit(c)
  <2>1. NewAccount(c) \in Account /\ NewAccount(c).status \in Status
    BY <1>0, <1>4 DEF Commit, CallOK, NewAccount, Account, Unverified, Status
  <2>2. call' \in [Calls -> Call] /\ CallInv'
    <3>1. CASE call[c].op = "invitePartner"
      <4> DEFINE r == [call[c] EXCEPT !.pc = "write", !.status = NewAccount(c).status]
      <4>1. r \in Call BY <1>0, <2>1 DEF CallOK, Call, PCs
      <4>2. CallOK(c, r) BY <1>0, <2>1, <3>1, <4>1, <1>4 DEF CallOK, Commit
      <4>3. call' = [call EXCEPT ![c] = r] BY <1>4, <3>1 DEF Commit
      <4> QED BY <4>2, <4>3, CallMoves
    <3>2. CASE call[c].op # "invitePartner"
      <4>1. Goto(c, "done") BY <1>4, <3>2 DEF Commit, Goto
      <4> QED BY <1>4, <4>1, GoesOn DEF Commit, PCs, Holding
    <3> QED BY <3>1, <3>2
  <2>3. profileKey' \in [Calls -> Calls \cup {None}] /\ activeRows' \in [Calls -> SUBSET Calls]
    BY <1>4 DEF Commit, TypeInv, TypeOK
  <2> QED BY <1>4, <2>1, <2>2, <2>3 DEF Commit, TypeInv, TypeOK
<1> QED BY <1>1, <1>2, <1>3, <1>4 DEF Create

(* A row that is read, and what the call holds then. *)
LEMMA Reads ==
  ASSUME TypeInv, NEW c \in Calls, NEW op \in Ops \ Creating, NEW target \in Calls,
         NEW pc \in {"compare", "write", "code", "delete", "profile", "show"},
         NEW status \in Status \cup {None}, NEW key \in Calls \cup {None},
         pc \in {"compare", "write"} => status \in Status,
         op = "getActiveAPIKey" => key \in Calls,
         pc = "profile" => op = "generateApiKeys"
  PROVE  CallOK(c, Work(op, pc, target, status, key))
<1>1. Work(op, pc, target, status, key) \in Call BY DEF Work, Call, PCs
<1> QED BY <1>1 DEF CallOK, Work

LEMMA StatusTypeInv ==
  ASSUME TypeInv, NEW c \in Calls, ChangeStatus(c) PROVE TypeInv'
<1>0. CallOK(c, call[c]) BY OpsHeld
<1>1. CASE ReadStatus(c)
  <2>1. PICK op \in StatusOps, a \in accounts :
          /\ call' = [call EXCEPT ![c] =
               Work(op, IF op \in Completing THEN "compare" ELSE "write", a.id, a.status, None)]
          /\ crossedStatus' \subseteq crossedStatus \cup {a.id}
    BY <1>1 DEF ReadStatus
  <2> DEFINE pc == IF op \in Completing THEN "compare" ELSE "write"
             r == Work(op, pc, a.id, a.status, None)
  <2>2. a.id \in Calls /\ a.status \in Status BY DEF TypeInv, TypeOK, Account
  <2>3. op \in Ops \ Creating /\ op # "getActiveAPIKey"
    BY DEF Ops, StatusOps, Completing, Creating, Partnering
  <2>4. CallOK(c, r) BY <2>2, <2>3, Reads DEF PCs
  <2>5. call' = [call EXCEPT ![c] = r] BY <2>1
  <2>6. crossedStatus' \subseteq Calls BY <2>1, <2>2 DEF TypeInv, TypeOK
  <2>7. UNCHANGED <<rows, redis, crossedKeys, ordered>> BY <1>1 DEF ReadStatus
  <2>8. crossedKeys' \subseteq Calls BY <2>7 DEF TypeInv, TypeOK
  <2> HIDE DEF r
  <2> QED BY <2>4, <2>5, <2>6, <2>7, <2>8, Starts
<1>2. CASE CompareCode(c)
  <2>1. PICK pc \in {"write", "done"} : Goto(c, pc) BY <1>2 DEF CompareCode
  <2>2. pc = "write" => CallOK(c, [call[c] EXCEPT !.pc = pc])
    BY <1>0, <1>2 DEF CompareCode, CallOK, Call, PCs
  <2>3. call' \in [Calls -> Call] /\ CallInv'
    BY <1>2, <2>1, <2>2, GoesOn DEF CompareCode, PCs, Holding
  <2> QED BY <1>2, <2>3 DEF CompareCode, TypeInv, TypeOK
<1>3. CASE WriteStatus(c)
  <2>1. call[c].status \in Status /\ call[c].target \in Calls
    BY <1>0, <1>3 DEF WriteStatus, CallOK
  <2>2. \A op, status : status \in Status => Asked(op, status) \in Status
    BY DEF Asked, Status
  <2>3. NewStatus(c) \in Status BY <2>1, <2>2 DEF NewStatus
  <2>4. accounts' \subseteq Account
    BY <1>3, <2>3 DEF WriteStatus, TypeInv, TypeOK, Account
  <2>5. ordered' \in [Calls -> Status]
    BY <1>3, <2>1, <2>2 DEF WriteStatus, TypeInv, TypeOK
  <2>6. PICK pc \in {"drop", "done"} : Goto(c, pc) BY <1>3 DEF WriteStatus
  <2>7. call' \in [Calls -> Call] /\ CallInv'
    BY <1>3, <2>6, GoesOn DEF WriteStatus, PCs, Holding
  <2> QED BY <1>3, <2>4, <2>5, <2>7 DEF WriteStatus, TypeInv, TypeOK
<1>4. CASE DropCode(c)
  <2>1. call' \in [Calls -> Call] /\ CallInv' BY <1>4, GoesOn DEF DropCode, PCs, Holding
  <2> QED BY <1>4, <2>1 DEF DropCode, TypeInv, TypeOK
<1>5. CASE RequestSuperAdmin(c) \/ ReadMember(c)
  <2>1. PICK a \in accounts, op \in {"requestSuperAdmin", "deleteTeamMember"},
             pc \in {"code", "delete"} :
          call' = [call EXCEPT ![c] = Work(op, pc, a.id, None, None)]
    BY <1>5 DEF RequestSuperAdmin, ReadMember
  <2> DEFINE r == Work(op, pc, a.id, None, None)
  <2>2. a.id \in Calls BY DEF TypeInv, TypeOK, Account
  <2>3. op \in Ops \ Creating /\ op # "getActiveAPIKey" BY DEF Ops, Creating, Partnering
  <2>4. CallOK(c, r) BY <2>2, <2>3, Reads DEF PCs
  <2>5. call' = [call EXCEPT ![c] = r] BY <2>1
  <2> HIDE DEF r
  <2> QED BY <1>5, <2>4, <2>5, Starts DEF RequestSuperAdmin, ReadMember, TypeInv, TypeOK
<1>6. CASE GenerateCode(c)
  <2>1. call' \in [Calls -> Call] /\ CallInv' BY <1>6, GoesOn DEF GenerateCode, PCs, Holding
  <2>2. call[c].target \in Calls BY <1>0, <1>6 DEF GenerateCode, CallOK
  <2> QED BY <1>6, <2>1, <2>2 DEF GenerateCode, TypeInv, TypeOK
<1>7. CASE DeleteMember(c)
  <2>1. call' \in [Calls -> Call] /\ CallInv' BY <1>7, GoesOn DEF DeleteMember, PCs, Holding
  <2> QED BY <1>7, <2>1 DEF DeleteMember, TypeInv, TypeOK
<1> QED BY <1>1, <1>2, <1>3, <1>4, <1>5, <1>6, <1>7 DEF ChangeStatus

LEMMA KeysTypeInv ==
  ASSUME TypeInv, NEW c \in Calls, UseKeys(c) PROVE TypeInv'
<1>0. CallOK(c, call[c]) BY OpsHeld
<1>1. CASE SaveSecret(c)
  <2>1. KeyOf(c) \in Calls BY <1>0 DEF KeyOf, CallOK
  <2>2. PICK pc \in {"current", "done"} :
          Goto(c, pc) /\ (pc = "current" => call[c].op # "getActiveAPIKey")
    BY <1>1 DEF SaveSecret, AfterSecret
  <2>3. pc = "current" => CallOK(c, [call[c] EXCEPT !.pc = pc])
    BY <1>0, <1>1, <2>2 DEF SaveSecret, CallOK, Call, PCs, KeyOps
  <2>4. call' \in [Calls -> Call] /\ CallInv'
    BY <1>1, <2>2, <2>3, GoesOn DEF SaveSecret, PCs, Holding
  <2> QED BY <1>1, <2>1, <2>4 DEF SaveSecret, TypeInv, TypeOK
<1>2. CASE SetCurrent(c)
  <2>1. KeyOf(c) \in Calls BY <1>0 DEF KeyOf, CallOK
  <2>2. PICK pc \in {"commit", "show"} :
          Goto(c, pc) /\ (pc = "commit" => call[c].op \in Partnering)
    BY <1>2 DEF SetCurrent, AfterCurrent
  <2>3. pc = "commit" => CallOK(c, [call[c] EXCEPT !.pc = pc])
    BY <1>0, <1>2, <2>2 DEF SetCurrent, CallOK, Call, PCs, Creating
  <2>4. call' \in [Calls -> Call] /\ CallInv'
    BY <1>2, <2>2, <2>3, GoesOn DEF SetCurrent, PCs, Holding
  <2> QED BY <1>2, <2>1, <2>4 DEF SetCurrent, TypeInv, TypeOK
<1>3. CASE ReadPartner(c)
  <2>1. PICK a \in accounts :
          /\ call' = [call EXCEPT ![c] =
               Work("generateApiKeys", "profile", a.id, None, None)]
          /\ crossedKeys' \subseteq crossedKeys \cup {a.id}
    BY <1>3 DEF ReadPartner
  <2> DEFINE r == Work("generateApiKeys", "profile", a.id, None, None)
  <2>2. a.id \in Calls BY DEF TypeInv, TypeOK, Account
  <2>3. CallOK(c, r) BY <2>2, Reads DEF PCs, Ops, KeyOps, Creating, Partnering
  <2>4. call' = [call EXCEPT ![c] = r] BY <2>1
  <2> HIDE DEF r
  <2> QED BY <1>3, <2>1, <2>2, <2>3, <2>4, Starts DEF ReadPartner, TypeInv, TypeOK
<1>4. CASE UpdateProfile(c)
  <2>1. CallOK(c, [call[c] EXCEPT !.pc = "find"])
    BY <1>0, <1>4 DEF UpdateProfile, CallOK, Call, PCs
  <2>2. call' \in [Calls -> Call] /\ CallInv' BY <1>4, <2>1, GoesOn DEF UpdateProfile, PCs
  <2> QED BY <1>4, <2>2 DEF UpdateProfile, TypeInv, TypeOK
<1>5. CASE FindActive(c)
  <2>1. CASE activeRows[call[c].target] = {} /\ Goto(c, "add")
    <3>1. CallOK(c, [call[c] EXCEPT !.pc = "add"])
      BY <1>0, <1>5 DEF FindActive, CallOK, Call, PCs
    <3>2. call' \in [Calls -> Call] /\ CallInv'
      BY <1>5, <2>1, <3>1, GoesOn DEF FindActive, PCs
    <3> QED BY <1>5, <3>2 DEF FindActive, TypeInv, TypeOK
  <2>2. CASE \E k \in activeRows[call[c].target] :
               call' = [call EXCEPT ![c].pc = "deactivate", ![c].key = k]
    <3>1. PICK k \in activeRows[call[c].target] :
            call' = [call EXCEPT ![c].pc = "deactivate", ![c].key = k]
      BY <2>2
    <3>2. k \in Calls BY <1>0, <1>5 DEF FindActive, CallOK, TypeInv, TypeOK
    <3> DEFINE r == [call[c] EXCEPT !.pc = "deactivate", !.key = k]
    <3>3. r \in Call BY <1>0, <3>2 DEF CallOK, Call, PCs
    <3>4. CallOK(c, r) BY <1>0, <1>5, <3>2, <3>3 DEF CallOK, FindActive
    <3>5. call' = [call EXCEPT ![c] = r] BY <3>1
    <3>6. call' \in [Calls -> Call] /\ CallInv' BY <3>4, <3>5, CallMoves
    <3> QED BY <1>5, <3>6 DEF FindActive, TypeInv, TypeOK
  <2> QED BY <1>5, <2>1, <2>2 DEF FindActive
<1>6. CASE DeactivateRow(c)
  <2>1. CallOK(c, [call[c] EXCEPT !.pc = "add"])
    BY <1>0, <1>6 DEF DeactivateRow, CallOK, Call, PCs
  <2>2. call' \in [Calls -> Call] /\ CallInv' BY <1>6, <2>1, GoesOn DEF DeactivateRow, PCs
  <2> QED BY <1>6, <2>2 DEF DeactivateRow, TypeInv, TypeOK
<1>7. CASE AddRow(c)
  <2>1. CallOK(c, [call[c] EXCEPT !.pc = "secret"])
    BY <1>0, <1>7 DEF AddRow, CallOK, Call, PCs, KeyOps
  <2>2. call' \in [Calls -> Call] /\ CallInv' BY <1>7, <2>1, GoesOn DEF AddRow, PCs
  <2> QED BY <1>7, <2>2 DEF AddRow, TypeInv, TypeOK
<1>8. CASE ShowKeys(c)
  <2>1. call' \in [Calls -> Call] /\ CallInv' BY <1>8, GoesOn DEF ShowKeys, PCs, Holding
  <2> QED BY <1>8, <2>1 DEF ShowKeys, TypeInv, TypeOK
<1>9. CASE ReadProfile(c)
  <2>1. PICK p \in Calls :
          /\ profileKey[p] # None
          /\ call' = [call EXCEPT ![c] =
               Work("getActiveAPIKey", "show", p, None, profileKey[p])]
    BY <1>9 DEF ReadProfile
  <2> DEFINE r == Work("getActiveAPIKey", "show", p, None, profileKey[p])
  <2>2. profileKey[p] \in Calls BY <2>1 DEF TypeInv, TypeOK
  <2>3. CallOK(c, r) BY <2>2, Reads DEF PCs, Ops, KeyOps, Creating, Partnering
  <2>4. call' = [call EXCEPT ![c] = r] BY <2>1
  <2> HIDE DEF r
  <2> QED BY <1>9, <2>3, <2>4, Starts DEF ReadProfile, TypeInv, TypeOK
<1>10. CASE FindShown(c)
  <2>1. PICK pc \in {"done", "secret"} : Goto(c, pc) BY <1>10 DEF FindShown
  <2>2. pc = "secret" => CallOK(c, [call[c] EXCEPT !.pc = pc])
    BY <1>0, <1>10 DEF FindShown, CallOK, Call, PCs, KeyOps
  <2>3. call' \in [Calls -> Call] /\ CallInv'
    BY <1>10, <2>1, <2>2, GoesOn DEF FindShown, PCs, Holding
  <2> QED BY <1>10, <2>3 DEF FindShown, TypeInv, TypeOK
<1> QED BY <1>1, <1>2, <1>3, <1>4, <1>5, <1>6, <1>7, <1>8, <1>9, <1>10 DEF UseKeys

LEMMA ThrowTypeInv ==
  ASSUME TypeInv, NEW c \in Calls, Throw(c) PROVE TypeInv'
<1>1. call' \in [Calls -> Call] /\ CallInv' BY GoesOn DEF Throw, PCs, Holding
<1>2. call[c].target \in Calls BY OpsHeld DEF Throw, CallOK
<1> QED BY <1>1, <1>2 DEF Throw, TypeInv, TypeOK

(* Every call keeps to its handler: what it holds at each await is there. *)
THEOREM AccountsTypeCorrect == Spec => []TypeInv
<1>1. Init => TypeInv BY InitTypeInv
<1>2. TypeInv /\ [Next]_vars => TypeInv'
  <2> SUFFICES ASSUME TypeInv, [Next]_vars PROVE TypeInv' OBVIOUS
  <2>1. CASE Next
    <3>1. PICK c \in Calls : Step(c) BY <2>1 DEF Next
    <3>2. CASE CodeExpires(c)
      BY <3>2 DEF CodeExpires, TypeInv, TypeOK, CallInv
    <3> QED BY <3>1, <3>2, CreatingTypeInv, StatusTypeInv, KeysTypeInv, ThrowTypeInv DEF Step
  <2>2. CASE UNCHANGED vars
    BY <2>2 DEF vars, TypeInv, TypeOK, CallInv
  <2> QED BY <2>1, <2>2
<1> QED BY <1>1, <1>2, PTL DEF Spec

-----------------------------------------------------------------------------
(* A partner always has a key *)

(* A call that rotates keys works on a partner that is there. *)
PartnerOK(r) ==
  /\ r.op = "generateApiKeys" => r.target \in Calls /\ profileKey[r.target] # None
  /\ r.op \in Creating => (r.kind = "partner" <=> r.op \in Partnering)

PartnerInv ==
  /\ \A a \in accounts : a.kind = "partner" => profileKey[a.id] # None
  /\ \A c \in Calls : PartnerOK(call[c])

(* The key validateApiKey compares with has its secret filed, from before the *)
(* partner is there. *)
KeyInv ==
  /\ \A p \in Calls : profileKey[p] # None => current[p] \in secrets
  /\ \A c \in Calls : call[c].pc = "current" => c \in secrets
  /\ \A c \in Calls : call[c].pc = "commit" /\ call[c].op \in Partnering =>
       current[c] \in secrets

Inv == TypeInv /\ PartnerInv /\ KeyInv

(* A step that leaves the keys alone. *)
LEMMA KeysKept ==
  ASSUME Inv, TypeInv', NEW c \in Calls,
         \A a \in accounts' : \E b \in accounts : a.id = b.id /\ a.kind = b.kind,
         UNCHANGED <<profileKey, secrets, current>>,
         \A d \in Calls \ {c} : call'[d] = call[d],
         PartnerOK(call'[c]),
         call'[c].pc \notin {"current", "commit"}
  PROVE  Inv'
<1>1. PartnerInv' BY DEF Inv, PartnerInv, PartnerOK
<1>2. KeyInv' BY DEF Inv, KeyInv
<1> QED BY <1>1, <1>2 DEF Inv

(* A call that goes on is the call it was. *)
LEMMA GoesOnAs ==
  ASSUME Inv, NEW c \in Calls, NEW pc, Goto(c, pc)
  PROVE  /\ \A d \in Calls \ {c} : call'[d] = call[d]
         /\ PartnerOK(call'[c])
         /\ call'[c].pc = pc /\ call'[c].op = call[c].op /\ call'[c].target = call[c].target
<1>1. call[c] \in Call /\ PartnerOK(call[c]) BY DEF Inv, PartnerInv, TypeInv, TypeOK
<1>2. call'[c] = [call[c] EXCEPT !.pc = pc] /\ \A d \in Calls \ {c} : call'[d] = call[d]
  BY DEF Goto, Inv, TypeInv, TypeOK
<1>3. /\ call'[c].pc = pc /\ call'[c].op = call[c].op
      /\ call'[c].target = call[c].target /\ call'[c].kind = call[c].kind
  BY <1>1, <1>2 DEF Call
<1> QED BY <1>1, <1>2, <1>3 DEF PartnerOK

LEMMA NextTypeInv ==
  ASSUME TypeInv, NEW c \in Calls, Step(c) PROVE TypeInv'
<1>1. CASE CodeExpires(c)
  BY <1>1 DEF CodeExpires, TypeInv, TypeOK, CallInv
<1> QED BY <1>1, CreatingTypeInv, StatusTypeInv, KeysTypeInv, ThrowTypeInv DEF Step

LEMMA CreatingInv ==
  ASSUME Inv, NEW c \in Calls, Create(c), TypeInv' PROVE Inv'
<1>0. CallOK(c, call[c]) /\ PartnerOK(call[c]) BY OpsHeld DEF Inv, PartnerInv
<1>1. CASE StartCreating(c)
  <2>1. PICK op \in Creating, pc \in {"lookup", "insert"}, address \in Addresses, kind \in Kinds :
          /\ call' = [call EXCEPT ![c] = Creation(c, op, pc, address, kind)]
          /\ kind = "partner" <=> op \in Partnering
    BY <1>1 DEF StartCreating, Creating, Partnering, Kinds
  <2>2. call'[c] = Creation(c, op, pc, address, kind) /\ \A d \in Calls \ {c} : call'[d] = call[d]
    BY <2>1 DEF Inv, TypeInv, TypeOK
  <2>3. PartnerOK(call'[c]) /\ call'[c].pc = pc
    BY <2>1, <2>2 DEF PartnerOK, Creation, Creating, Partnering
  <2> QED BY <1>1, <2>2, <2>3, KeysKept DEF StartCreating
<1>2. CASE LookUpPartner(c)
  <2>1. PICK pc \in {"done", "insert"} : Goto(c, pc) BY <1>2 DEF LookUpPartner
  <2> QED BY <1>2, <2>1, GoesOnAs, KeysKept DEF LookUpPartner
<1>3. CASE InsertRows(c)
  <2>1. PICK pc \in {"done", "secret", "commit"} :
          Goto(c, pc) /\ (pc = "commit" => call[c].op \notin Partnering)
    BY <1>3 DEF InsertRows
  <2>2. /\ \A d \in Calls \ {c} : call'[d] = call[d]
        /\ PartnerOK(call'[c]) /\ call'[c].pc = pc /\ call'[c].op = call[c].op
    BY <2>1, GoesOnAs
  <2>3. PartnerInv' BY <1>3, <2>2 DEF InsertRows, Inv, PartnerInv, PartnerOK
  <2>4. KeyInv' BY <1>3, <2>1, <2>2 DEF InsertRows, Inv, KeyInv
  <2> QED BY <2>3, <2>4 DEF Inv
<1>4. CASE Commit(c)
  <2>1. call[c].op \in Creating /\ call[c].kind = NewAccount(c).kind /\ NewAccount(c).id = c
    BY <1>0, <1>4 DEF Commit, CallOK, NewAccount
  <2>2. /\ \A d \in Calls \ {c} : call'[d] = call[d]
        /\ call'[c].op = call[c].op /\ call'[c].kind = call[c].kind
        /\ call'[c].pc \notin {"current", "commit"}
    BY <1>4 DEF Commit, Inv, TypeInv, TypeOK, Call
  <2>3. /\ \A p \in Calls \ {c} : profileKey'[p] = profileKey[p]
        /\ call[c].op \in Partnering => profileKey'[c] = c
        /\ call[c].op \notin Partnering => profileKey'[c] = profileKey[c]
    BY <1>4 DEF Commit, Inv, TypeInv, TypeOK
  <2>4. c # None BY NoneAssumption
  <2>5. PartnerOK(call[c])' BY <1>0, <2>1, <2>2 DEF PartnerOK, Creating, Partnering
  <2>6. PartnerInv'
    <3>1. \A a \in accounts' : a.kind = "partner" => profileKey'[a.id] # None
      BY <1>0, <1>4, <2>1, <2>3, <2>4 DEF Commit, Inv, PartnerInv, PartnerOK, TypeInv, TypeOK, Account
    <3>2. \A d \in Calls \ {c} : PartnerOK(call[d])'
      <4> SUFFICES ASSUME NEW d \in Calls \ {c} PROVE PartnerOK(call[d])' OBVIOUS
      <4>1. PartnerOK(call[d]) /\ CallOK(d, call[d]) BY OpsHeld DEF Inv, PartnerInv
      <4>2. call[d].op = "generateApiKeys" => profileKey'[call[d].target] # None
        BY <4>1, <2>3, <2>4 DEF PartnerOK
      <4> QED BY <4>1, <4>2, <2>2 DEF PartnerOK
    <3> QED BY <2>5, <3>1, <3>2 DEF PartnerInv
  <2>7. KeyInv'
    <3>1. UNCHANGED <<secrets, current>> BY <1>4 DEF Commit
    <3>2. \A p \in Calls : profileKey'[p] # None => current[p] \in secrets
      BY <1>4, <2>3 DEF Commit, Inv, KeyInv
    <3> QED BY <2>2, <3>1, <3>2 DEF Inv, KeyInv
  <2> QED BY <2>6, <2>7 DEF Inv
<1> QED BY <1>1, <1>2, <1>3, <1>4 DEF Create

LEMMA StatusInv ==
  ASSUME Inv, NEW c \in Calls, ChangeStatus(c), TypeInv' PROVE Inv'
<1>0. CallOK(c, call[c]) /\ PartnerOK(call[c]) BY OpsHeld DEF Inv, PartnerInv
<1> DEFINE Begin(r) == call' = [call EXCEPT ![c] = r]
<1>a. ASSUME NEW op \in Ops \ (Creating \cup {"generateApiKeys"}),
             NEW pc \in {"compare", "write", "code", "delete"}, NEW t, NEW status,
             Begin(Work(op, pc, t, status, None)),
             UNCHANGED <<accounts, profileKey, secrets, current>>
      PROVE  Inv'
  <2>1. call'[c] = Work(op, pc, t, status, None) /\ \A d \in Calls \ {c} : call'[d] = call[d]
    BY <1>a DEF Inv, TypeInv, TypeOK
  <2>2. PartnerOK(call'[c]) /\ call'[c].pc = pc BY <2>1 DEF PartnerOK, Work
  <2> QED BY <1>a, <2>1, <2>2, KeysKept
<1>b. ASSUME NEW pc \in {"write", "done", "drop"}, Goto(c, pc),
             \A a \in accounts' : \E b \in accounts : a.id = b.id /\ a.kind = b.kind,
             UNCHANGED <<profileKey, secrets, current>>
      PROVE  Inv'
  BY <1>b, GoesOnAs, KeysKept
<1> HIDE DEF Begin
<1>1. CASE ReadStatus(c)
  <2>1. PICK op \in StatusOps, a \in accounts, pc \in {"compare", "write"} :
          Begin(Work(op, pc, a.id, a.status, None))
    BY <1>1 DEF ReadStatus, Begin
  <2>2. op \in Ops \ (Creating \cup {"generateApiKeys"})
    BY DEF Ops, StatusOps, Completing, Creating, Partnering
  <2> QED BY <1>1, <1>a, <2>1, <2>2 DEF ReadStatus
<1>2. CASE CompareCode(c)
  <2>1. PICK pc \in {"write", "done"} : Goto(c, pc) BY <1>2 DEF CompareCode
  <2> QED BY <1>2, <1>b, <2>1 DEF CompareCode
<1>3. CASE WriteStatus(c)
  <2>1. PICK pc \in {"drop", "done"} : Goto(c, pc) BY <1>3 DEF WriteStatus
  <2>2. \A a \in accounts' : \E b \in accounts : a.id = b.id /\ a.kind = b.kind
    BY <1>3 DEF WriteStatus, Inv, TypeInv, TypeOK, Account
  <2> QED BY <1>3, <1>b, <2>1, <2>2 DEF WriteStatus
<1>4. CASE DropCode(c) BY <1>4, <1>b DEF DropCode
<1>5. CASE RequestSuperAdmin(c) \/ ReadMember(c)
  <2>1. PICK a \in accounts, op \in {"requestSuperAdmin", "deleteTeamMember"},
             pc \in {"code", "delete"} : Begin(Work(op, pc, a.id, None, None))
    BY <1>5 DEF RequestSuperAdmin, ReadMember, Begin
  <2>2. op \in Ops \ (Creating \cup {"generateApiKeys"}) BY DEF Ops, Creating, Partnering
  <2> QED BY <1>5, <1>a, <2>1, <2>2 DEF RequestSuperAdmin, ReadMember
<1>6. CASE GenerateCode(c) BY <1>6, <1>b DEF GenerateCode
<1>7. CASE DeleteMember(c) BY <1>7, <1>b DEF DeleteMember
<1> QED BY <1>1, <1>2, <1>3, <1>4, <1>5, <1>6, <1>7 DEF ChangeStatus

LEMMA KeysInv ==
  ASSUME Inv, NEW c \in Calls, UseKeys(c), TypeInv' PROVE Inv'
<1>0. CallOK(c, call[c]) /\ PartnerOK(call[c]) BY OpsHeld DEF Inv, PartnerInv
<1>a. ASSUME NEW pc \in {"find", "add", "secret", "done", "deactivate"}, Goto(c, pc),
             UNCHANGED <<accounts, profileKey, secrets, current>>
      PROVE  Inv'
  BY <1>a, GoesOnAs, KeysKept
<1>1. CASE SaveSecret(c)
  <2>1. PICK pc \in {"current", "done"} : Goto(c, pc) /\ (pc = "current" => KeyOf(c) = c)
    BY <1>1 DEF SaveSecret, AfterSecret, KeyOf
  <2>2. /\ \A d \in Calls \ {c} : call'[d] = call[d]
        /\ PartnerOK(call'[c]) /\ call'[c].pc = pc
    BY <2>1, GoesOnAs
  <2>3. PartnerInv' BY <1>1, <2>2 DEF SaveSecret, Inv, PartnerInv, PartnerOK
  <2>4. secrets' = secrets \cup {KeyOf(c)} BY <1>1 DEF SaveSecret
  <2>5. KeyInv' BY <1>1, <2>1, <2>2, <2>4 DEF SaveSecret, Inv, KeyInv
  <2> QED BY <2>3, <2>5 DEF Inv
<1>2. CASE SetCurrent(c)
  <2>1. PICK pc \in {"commit", "show"} :
          Goto(c, pc) /\ (pc = "commit" => call[c].op \in Partnering)
    BY <1>2 DEF SetCurrent, AfterCurrent
  <2>2. /\ \A d \in Calls \ {c} : call'[d] = call[d]
        /\ PartnerOK(call'[c]) /\ call'[c].pc = pc /\ call'[c].op = call[c].op
    BY <2>1, GoesOnAs
  <2>3. PartnerInv' BY <1>2, <2>2 DEF SetCurrent, Inv, PartnerInv, PartnerOK
  <2>4. KeyOf(c) = c /\ c \in secrets
    BY <1>0, <1>2 DEF SetCurrent, KeyOf, CallOK, Partnering, Inv, KeyInv
  <2>5. call[c].target \in Calls /\ (pc = "commit" => call[c].target = c)
    BY <1>0, <1>2, <2>1 DEF SetCurrent, CallOK, Creating
  <2>6. current' = [current EXCEPT ![call[c].target] = c] /\ current \in [Calls -> Calls \cup {None}]
    BY <1>2, <2>4 DEF SetCurrent, Inv, TypeInv, TypeOK
  <2>7. KeyInv' BY <1>2, <2>2, <2>4, <2>5, <2>6 DEF SetCurrent, Inv, KeyInv
  <2> QED BY <2>3, <2>7 DEF Inv
<1>3. CASE ReadPartner(c)
  <2>1. PICK a \in accounts :
          /\ a.kind = "partner"
          /\ call' = [call EXCEPT ![c] = Work("generateApiKeys", "profile", a.id, None, None)]
    BY <1>3 DEF ReadPartner
  <2>2. /\ call'[c] = Work("generateApiKeys", "profile", a.id, None, None)
        /\ \A d \in Calls \ {c} : call'[d] = call[d]
    BY <2>1 DEF Inv, TypeInv, TypeOK
  <2>3. a.id \in Calls /\ profileKey[a.id] # None
    BY <2>1 DEF Inv, PartnerInv, TypeInv, TypeOK, Account
  <2>4. PartnerOK(call'[c]) /\ call'[c].pc = "profile"
    BY <2>2, <2>3 DEF PartnerOK, Work, Creating, Partnering
  <2> QED BY <1>3, <2>2, <2>4, KeysKept DEF ReadPartner
<1>4. CASE UpdateProfile(c)
  <2>1. Goto(c, "find") /\ UNCHANGED <<accounts, secrets, current>> BY <1>4 DEF UpdateProfile
  <2>2. /\ \A d \in Calls \ {c} : call'[d] = call[d]
        /\ PartnerOK(call'[c]) /\ call'[c].pc = "find"
    BY <2>1, GoesOnAs
  <2>3. call[c].target \in Calls /\ profileKey[call[c].target] # None
    BY <1>0, <1>4 DEF UpdateProfile, CallOK, PartnerOK
  <2>4. c # None BY NoneAssumption
  <2>5. \A p \in Calls : profileKey'[p] # None <=> profileKey[p] # None
    BY <1>4, <2>3, <2>4 DEF UpdateProfile, Inv, TypeInv, TypeOK
  <2>6. PartnerInv'
    <3>1. \A a \in accounts : a.id \in Calls BY DEF Inv, TypeInv, TypeOK, Account
    <3>2. \A d \in Calls : PartnerOK(call'[d]) BY <2>2 DEF Inv, PartnerInv
    <3> QED BY <2>1, <2>5, <3>1, <3>2 DEF Inv, PartnerInv, PartnerOK
  <2>7. KeyInv' BY <2>1, <2>2, <2>5 DEF Inv, KeyInv
  <2> QED BY <2>6, <2>7 DEF Inv
<1>5. CASE FindActive(c)
  <2>1. CASE \E k \in activeRows[call[c].target] :
               call' = [call EXCEPT ![c].pc = "deactivate", ![c].key = k]
    <3>1. /\ \A d \in Calls \ {c} : call'[d] = call[d]
          /\ call'[c].pc = "deactivate" /\ call'[c].op = call[c].op
          /\ call'[c].target = call[c].target /\ call'[c].kind = call[c].kind
      BY <2>1 DEF Inv, TypeInv, TypeOK, Call
    <3>2. PartnerOK(call'[c]) BY <1>0, <3>1 DEF PartnerOK
    <3> QED BY <1>5, <3>1, <3>2, KeysKept DEF FindActive
  <2> QED BY <1>5, <1>a, <2>1 DEF FindActive
<1>6. CASE DeactivateRow(c) BY <1>6, <1>a DEF DeactivateRow
<1>7. CASE AddRow(c) BY <1>7, <1>a DEF AddRow
<1>8. CASE ShowKeys(c) BY <1>8, <1>a DEF ShowKeys
<1>9. CASE ReadProfile(c)
  <2>1. PICK p \in Calls :
          call' = [call EXCEPT ![c] = Work("getActiveAPIKey", "show", p, None, profileKey[p])]
    BY <1>9 DEF ReadProfile
  <2>2. /\ call'[c] = Work("getActiveAPIKey", "show", p, None, profileKey[p])
        /\ \A d \in Calls \ {c} : call'[d] = call[d]
    BY <2>1 DEF Inv, TypeInv, TypeOK
  <2>3. PartnerOK(call'[c]) /\ call'[c].pc = "show"
    BY <2>2 DEF PartnerOK, Work, Creating, Partnering
  <2> QED BY <1>9, <2>2, <2>3, KeysKept DEF ReadProfile
<1>10. CASE FindShown(c)
  <2>1. PICK pc \in {"done", "secret"} : Goto(c, pc) BY <1>10 DEF FindShown
  <2> QED BY <1>10, <1>a, <2>1 DEF FindShown
<1> QED BY <1>1, <1>2, <1>3, <1>4, <1>5, <1>6, <1>7, <1>8, <1>9, <1>10 DEF UseKeys

LEMMA ThrowInv ==
  ASSUME Inv, NEW c \in Calls, Throw(c), TypeInv' PROVE Inv'
BY GoesOnAs, KeysKept DEF Throw

LEMMA InitInv == Init => Inv
<1> SUFFICES ASSUME Init PROVE Inv OBVIOUS
<1>1. TypeInv BY InitTypeInv
<1>2. Idle.op \notin Ops /\ Idle.pc = "new" BY NoneAssumption DEF Idle
<1>3. PartnerInv
  BY <1>2 DEF Init, PartnerInv, PartnerOK, Ops, KeyOps
<1>4. KeyInv BY <1>2 DEF Init, KeyInv
<1> QED BY <1>1, <1>3, <1>4 DEF Inv

LEMMA StepInv ==
  ASSUME Inv, [Next]_vars PROVE Inv'
<1>1. CASE Next
  <2>1. PICK c \in Calls : Step(c) BY <1>1 DEF Next
  <2>2. TypeInv' BY <2>1, NextTypeInv DEF Inv
  <2>3. CASE CodeExpires(c)
    BY <2>2, <2>3 DEF CodeExpires, Inv, PartnerInv, PartnerOK, KeyInv
  <2> QED BY <2>1, <2>2, <2>3, CreatingInv, StatusInv, KeysInv, ThrowInv DEF Step
<1>2. CASE UNCHANGED vars
  BY <1>2 DEF vars, Inv, TypeInv, TypeOK, CallInv, PartnerInv, PartnerOK, KeyInv
<1> QED BY <1>1, <1>2

(* A partner always has a key that validateApiKey accepts: the secret is      *)
(* filed in Redis before the key becomes the active one, and a partner is     *)
(* committed after both.                                                     *)
THEOREM AccountsAlwaysAKey == Spec => []AlwaysAKey
<1>1. Init => Inv BY InitInv
<1>2. Inv /\ [Next]_vars => Inv' BY StepInv
<1>3. Inv => AlwaysAKey
  BY DEF Inv, KeyInv, AlwaysAKey, Accepted, TypeInv, TypeOK
<1> QED BY <1>1, <1>2, <1>3, PTL DEF Spec

-----------------------------------------------------------------------------
(* An account has the status its handlers asked for *)

(* The call has committed the account of its number, if it ever will. *)
Committed(t) == call[t].op \in Creating /\ call[t].pc \in {"write", "done"}

(* A handler that shares its account with no other knows the status there is. *)
WritingInv ==
  /\ \A a \in accounts : Committed(a.id)
  /\ \A d \in Calls : Writing(d) => Committed(call[d].target)
  /\ \A d \in Calls : Writing(d) /\ call[d].target \notin crossedStatus =>
       call[d].status = ordered[call[d].target]
  /\ \A d, e \in Calls :
       d # e /\ Writing(d) /\ Writing(e) /\ call[d].target = call[e].target =>
         call[d].target \in crossedStatus
  /\ StatusAsOrdered

(* A step that writes no status and reads none. *)
LEMMA WritingKept ==
  ASSUME Inv, WritingInv, NEW c \in Calls,
         \A d \in Calls \ {c} : call'[d] = call[d],
         accounts' \subseteq accounts, UNCHANGED <<ordered, crossedStatus>>,
         Committed(c) => Committed(c)',
         Writing(c)' => /\ Writing(c) /\ call'[c].target = call[c].target
                        /\ call'[c].status = call[c].status
  PROVE  WritingInv'
<1>1. \A t \in Calls : Committed(t) => Committed(t)' BY DEF Committed
<1>2. \A d \in Calls : Writing(d)' => /\ Writing(d) /\ call'[d].target = call[d].target
                                      /\ call'[d].status = call[d].status
  BY DEF Writing
<1>3. \A a \in accounts : a.id \in Calls BY DEF Inv, TypeInv, TypeOK, Account
<1>4. \A d \in Calls : Writing(d) => call[d].target \in Calls
  BY OpsHeld DEF Inv, Writing, CallOK
<1>5. /\ \A a \in accounts' : Committed(a.id)'
      /\ \A d \in Calls : Writing(d)' => Committed(call[d].target)'
  BY <1>1, <1>2, <1>3, <1>4 DEF WritingInv, Committed
<1>6. StatusAsOrdered' BY DEF WritingInv, StatusAsOrdered
<1>7. \A d \in Calls : Writing(d)' /\ call'[d].target \notin crossedStatus' =>
        call'[d].status = ordered'[call'[d].target]
  BY <1>2 DEF WritingInv
<1>8. \A d, e \in Calls :
        d # e /\ Writing(d)' /\ Writing(e)' /\ call'[d].target = call'[e].target =>
          call'[d].target \in crossedStatus'
  BY <1>2 DEF WritingInv
<1> QED BY <1>5, <1>6, <1>7, <1>8 DEF WritingInv

LEMMA WritingGoesOn ==
  ASSUME Inv, WritingInv, NEW c \in Calls, NEW pc, Goto(c, pc),
         call[c].pc # "done",
         pc \in {"compare", "write"} => call[c].pc = "compare",
         call[c].pc = "write" => pc = "done",
         accounts' \subseteq accounts, UNCHANGED <<ordered, crossedStatus>>
  PROVE  WritingInv'
<1>1. /\ \A d \in Calls \ {c} : call'[d] = call[d]
      /\ call'[c].pc = pc /\ call'[c].op = call[c].op /\ call'[c].target = call[c].target
  BY GoesOnAs
<1>2. call'[c].status = call[c].status BY DEF Goto, Inv, TypeInv, TypeOK, Call
<1>3. Committed(c) => Committed(c)' BY <1>1 DEF Committed
<1>4. Writing(c)' => Writing(c) BY <1>1 DEF Writing
<1> QED BY <1>1, <1>2, <1>3, <1>4, WritingKept

(* A call that begins, not to change a status. *)
LEMMA WritingBegins ==
  ASSUME Inv, WritingInv, NEW c \in Calls, Begins(c), NEW r, call' = [call EXCEPT ![c] = r],
         r.pc \notin {"compare", "write"},
         UNCHANGED <<accounts, ordered, crossedStatus>>
  PROVE  WritingInv'
<1>1. call'[c] = r /\ \A d \in Calls \ {c} : call'[d] = call[d] BY DEF Inv, TypeInv, TypeOK
<1>2. ~Committed(c) BY DEF Begins, Committed
<1>3. ~Writing(c)' BY <1>1 DEF Writing
<1> QED BY <1>1, <1>2, <1>3, WritingKept

LEMMA CreatingWriting ==
  ASSUME Inv, Inv', WritingInv, NEW c \in Calls, Create(c) PROVE WritingInv'
<1>0. CallOK(c, call[c]) BY OpsHeld DEF Inv
<1>1. CASE StartCreating(c)
  <2>1. PICK op \in Creating, pc \in {"lookup", "insert"}, address \in Addresses, kind \in Kinds :
          call' = [call EXCEPT ![c] = Creation(c, op, pc, address, kind)]
    BY <1>1 DEF StartCreating, Creating, Partnering, Kinds
  <2>2. Creation(c, op, pc, address, kind).pc = pc BY DEF Creation
  <2> QED BY <1>1, <2>1, <2>2, WritingBegins DEF StartCreating
<1>2. CASE LookUpPartner(c)
  <2>1. PICK pc \in {"done", "insert"} : Goto(c, pc) BY <1>2 DEF LookUpPartner
  <2> QED BY <1>2, <2>1, WritingGoesOn DEF LookUpPartner
<1>3. CASE InsertRows(c)
  <2>1. PICK pc \in {"done", "secret", "commit"} : Goto(c, pc) BY <1>3 DEF InsertRows
  <2> QED BY <1>3, <2>1, WritingGoesOn DEF InsertRows
<1>4. CASE Commit(c)
  <2> DEFINE n == NewAccount(c)
  <2>1. call[c].op \in Creating /\ call[c].target = c /\ n.id = c
    BY <1>0, <1>4 DEF Commit, CallOK, NewAccount
  <2>2. ~Committed(c) BY <1>4 DEF Commit, Committed
  <2>3. \A d \in Calls \ {c} : call'[d] = call[d] BY <1>4 DEF Commit, Inv, TypeInv, TypeOK
  <2>4. /\ call'[c].op = call[c].op /\ call'[c].target = c
        /\ call'[c].pc \in {"write", "done"}
        /\ call'[c].pc = "write" => call'[c].status = n.status
    BY <1>4, <2>1 DEF Commit, Inv, TypeInv, TypeOK, Call
  <2>5. /\ accounts' = accounts \cup {n} /\ crossedStatus' = crossedStatus
        /\ ordered'[c] = n.status /\ \A t \in Calls \ {c} : ordered'[t] = ordered[t]
    BY <1>4 DEF Commit, Inv, TypeInv, TypeOK
  <2> HIDE DEF n
  <2>6. \A d \in Calls : Writing(d) => d # c /\ call[d].target \in Calls \ {c}
    <3>1. \A d \in Calls : Writing(d) => call[d].target \in Calls
      BY OpsHeld DEF Inv, Writing, CallOK
    <3> QED BY <1>4, <2>2, <3>1 DEF Commit, Writing, WritingInv
  <2>7. \A a \in accounts : a.id \in Calls \ {c}
    BY <2>2 DEF WritingInv, Inv, TypeInv, TypeOK, Account
  <2>8. Committed(c)' /\ \A t \in Calls : Committed(t) => Committed(t)'
    BY <2>1, <2>2, <2>3, <2>4 DEF Committed
  <2>9. \A d \in Calls \ {c} : Writing(d)' => Writing(d) BY <2>3 DEF Writing
  <2>10. /\ \A a \in accounts' : Committed(a.id)'
         /\ \A d \in Calls : Writing(d)' => Committed(call[d].target)'
    BY <2>1, <2>3, <2>4, <2>5, <2>6, <2>7, <2>8, <2>9 DEF WritingInv, Committed
  <2>11. StatusAsOrdered' BY <2>1, <2>5, <2>7 DEF WritingInv, StatusAsOrdered
  <2>12. \A d \in Calls : Writing(d)' /\ call'[d].target \notin crossedStatus' =>
           call'[d].status = ordered'[call'[d].target]
    <3>1. Writing(c)' => call'[c].status = ordered'[call'[c].target]
      BY <2>4, <2>5 DEF Writing
    <3> QED BY <3>1, <2>3, <2>5, <2>6, <2>9 DEF WritingInv
  <2>13. \A d, e \in Calls :
           d # e /\ Writing(d)' /\ Writing(e)' /\ call'[d].target = call'[e].target =>
             call'[d].target \in crossedStatus'
    BY <2>3, <2>4, <2>5, <2>6, <2>9 DEF WritingInv
  <2> QED BY <2>10, <2>11, <2>12, <2>13 DEF WritingInv
<1> QED BY <1>1, <1>2, <1>3, <1>4 DEF Create

LEMMA StatusWriting ==
  ASSUME Inv, Inv', WritingInv, NEW c \in Calls, ChangeStatus(c) PROVE WritingInv'
<1>0. CallOK(c, call[c]) BY OpsHeld DEF Inv
<1>1. CASE ReadStatus(c)
  <2>1. PICK op \in StatusOps, a \in accounts, pc \in {"compare", "write"} :
          /\ call' = [call EXCEPT ![c] = Work(op, pc, a.id, a.status, None)]
          /\ crossedStatus' = IF \E d \in Calls : Writing(d) /\ call[d].target = a.id
                              THEN crossedStatus \cup {a.id} ELSE crossedStatus
    BY <1>1 DEF ReadStatus
  <2>2. /\ \A d \in Calls \ {c} : call'[d] = call[d]
        /\ call'[c] = Work(op, pc, a.id, a.status, None)
    BY <2>1 DEF Inv, TypeInv, TypeOK
  <2>3. call'[c].target = a.id /\ call'[c].status = a.status BY <2>2 DEF Work
  <2>4. ~Committed(c) /\ ~Writing(c) BY <1>1 DEF ReadStatus, Begins, Committed, Writing
  <2>5. UNCHANGED <<accounts, ordered>> /\ crossedStatus \subseteq crossedStatus'
    BY <1>1, <2>1 DEF ReadStatus
  <2>6. \A t \in Calls : Committed(t) => Committed(t)' BY <2>2, <2>4 DEF Committed
  <2>7. \A x \in accounts : x.id \in Calls BY DEF Inv, TypeInv, TypeOK, Account
  <2>8. \A d \in Calls \ {c} : /\ Writing(d)' <=> Writing(d)
                               /\ Writing(d) => call[d].target \in Calls
    BY <2>2, OpsHeld DEF Inv, Writing, CallOK
  <2>9. /\ \A x \in accounts' : Committed(x.id)'
        /\ \A d \in Calls : Writing(d)' => Committed(call[d].target)'
    BY <2>2, <2>3, <2>5, <2>6, <2>7, <2>8 DEF WritingInv, Committed
  <2>10. StatusAsOrdered' BY <2>5 DEF WritingInv, StatusAsOrdered
  <2>11. \A d \in Calls : Writing(d)' /\ call'[d].target \notin crossedStatus' =>
           call'[d].status = ordered'[call'[d].target]
    <3>1. a.id \notin crossedStatus' => a.status = ordered'[a.id]
      BY <2>5 DEF WritingInv, StatusAsOrdered
    <3> QED BY <2>2, <2>3, <2>5, <2>8, <3>1 DEF WritingInv
  <2>12. \A d \in Calls \ {c} : Writing(d) /\ call[d].target = a.id => a.id \in crossedStatus'
    BY <2>1
  <2>13. \A d, e \in Calls :
           d # e /\ Writing(d)' /\ Writing(e)' /\ call'[d].target = call'[e].target =>
             call'[d].target \in crossedStatus'
    BY <2>2, <2>3, <2>5, <2>8, <2>12 DEF WritingInv
  <2> QED BY <2>9, <2>10, <2>11, <2>13 DEF WritingInv
<1>2. CASE CompareCode(c)
  <2>1. PICK pc \in {"write", "done"} : Goto(c, pc) BY <1>2 DEF CompareCode
  <2> QED BY <1>2, <2>1, WritingGoesOn DEF CompareCode
<1>3. CASE WriteStatus(c)
  <2> DEFINE id == call[c].target
             op == call[c].op
  <2>1. id \in Calls /\ Writing(c) BY <1>0, <1>3 DEF WriteStatus, CallOK, Writing
  <2>2. PICK pc \in {"drop", "done"} : Goto(c, pc) /\ (op \in Creating => pc = "done")
    BY <1>3 DEF WriteStatus, Completing, Creating, Partnering
  <2>3. /\ \A d \in Calls \ {c} : call'[d] = call[d]
        /\ call'[c].pc = pc /\ call'[c].op = op
    BY <2>2, GoesOnAs
  <2>4. ~Writing(c)' /\ \A d \in Calls \ {c} : Writing(d)' <=> Writing(d)
    BY <2>3 DEF Writing
  <2>5. \A t \in Calls : Committed(t) => Committed(t)' BY <2>2, <2>3 DEF Committed
  <2>6. /\ ordered'[id] = Asked(op, ordered[id])
        /\ \A t \in Calls \ {id} : ordered'[t] = ordered[t]
        /\ crossedStatus' = crossedStatus
    BY <1>3, <2>1 DEF WriteStatus, Inv, TypeInv, TypeOK
  <2>7. \A x \in accounts : x.id \in Calls BY DEF Inv, TypeInv, TypeOK, Account
  <2>8. \A x \in accounts' :
          \/ x \in accounts /\ (x.id = id => NewStatus(c) = call[c].status)
          \/ x.id = id /\ x.status = NewStatus(c) /\ \E y \in accounts : y.id = id
    BY <1>3 DEF WriteStatus, Inv, TypeInv, TypeOK, Account
  <2>9. \A x \in accounts' : x.id \in Calls /\ Committed(x.id)
    BY <2>7, <2>8 DEF WritingInv
  <2>10. id \notin crossedStatus => NewStatus(c) = ordered'[id] /\ call[c].status = ordered[id]
    BY <2>1, <2>6 DEF WritingInv, NewStatus
  <2> HIDE DEF id, op
  <2>11. StatusAsOrdered'
    <3> SUFFICES ASSUME NEW x \in accounts', x.id \notin crossedStatus
                 PROVE  x.status = ordered'[x.id]
      BY <2>6 DEF StatusAsOrdered
    <3>1. CASE x \in accounts /\ x.id # id BY <2>6, <2>7, <3>1 DEF WritingInv, StatusAsOrdered
    <3>2. CASE x \in accounts /\ x.id = id /\ NewStatus(c) = call[c].status
      BY <2>10, <3>2 DEF WritingInv, StatusAsOrdered
    <3>3. CASE x.id = id /\ x.status = NewStatus(c) BY <2>10, <3>3
    <3> QED BY <2>8, <3>1, <3>2, <3>3
  <2>12. /\ \A x \in accounts' : Committed(x.id)'
         /\ \A d \in Calls : Writing(d)' => Committed(call[d].target)'
    <3>1. \A d \in Calls : Writing(d) => call[d].target \in Calls
      BY OpsHeld DEF Inv, Writing, CallOK
    <3> QED BY <2>3, <2>4, <2>5, <2>9, <3>1 DEF WritingInv, Committed
  <2>13. \A d \in Calls : Writing(d)' /\ call'[d].target \notin crossedStatus' =>
           call'[d].status = ordered'[call'[d].target]
    <3>1. \A d \in Calls \ {c} : Writing(d) /\ call[d].target \notin crossedStatus =>
            call[d].target \in Calls \ {id}
      BY <2>1, OpsHeld DEF Inv, Writing, CallOK, WritingInv, id
    <3> QED BY <2>3, <2>4, <2>6, <3>1 DEF WritingInv
  <2>14. \A d, e \in Calls :
           d # e /\ Writing(d)' /\ Writing(e)' /\ call'[d].target = call'[e].target =>
             call'[d].target \in crossedStatus'
    BY <2>3, <2>4, <2>6 DEF WritingInv
  <2> QED BY <2>11, <2>12, <2>13, <2>14 DEF WritingInv
<1>4. CASE DropCode(c) BY <1>4, WritingGoesOn DEF DropCode
<1>5. CASE RequestSuperAdmin(c) \/ ReadMember(c)
  <2>1. PICK a \in accounts, op \in {"requestSuperAdmin", "deleteTeamMember"},
             pc \in {"code", "delete"} :
          call' = [call EXCEPT ![c] = Work(op, pc, a.id, None, None)]
    BY <1>5 DEF RequestSuperAdmin, ReadMember
  <2>2. Work(op, pc, a.id, None, None).pc = pc BY DEF Work
  <2> QED BY <1>5, <2>1, <2>2, WritingBegins DEF RequestSuperAdmin, ReadMember
<1>6. CASE GenerateCode(c) BY <1>6, WritingGoesOn DEF GenerateCode
<1>7. CASE DeleteMember(c) BY <1>7, WritingGoesOn DEF DeleteMember
<1> QED BY <1>1, <1>2, <1>3, <1>4, <1>5, <1>6, <1>7 DEF ChangeStatus

LEMMA KeysWriting ==
  ASSUME Inv, Inv', WritingInv, NEW c \in Calls, UseKeys(c) PROVE WritingInv'
<1>1. CASE SaveSecret(c)
  <2>1. PICK pc \in {"current", "done"} : Goto(c, pc) BY <1>1 DEF SaveSecret, AfterSecret
  <2> QED BY <1>1, <2>1, WritingGoesOn DEF SaveSecret
<1>2. CASE SetCurrent(c)
  <2>1. PICK pc \in {"commit", "show"} : Goto(c, pc) BY <1>2 DEF SetCurrent, AfterCurrent
  <2> QED BY <1>2, <2>1, WritingGoesOn DEF SetCurrent
<1>3. CASE ReadPartner(c)
  <2>1. PICK a \in accounts :
          call' = [call EXCEPT ![c] = Work("generateApiKeys", "profile", a.id, None, None)]
    BY <1>3 DEF ReadPartner
  <2>2. Work("generateApiKeys", "profile", a.id, None, None).pc = "profile" BY DEF Work
  <2> QED BY <1>3, <2>1, <2>2, WritingBegins DEF ReadPartner
<1>10. CASE ReadProfile(c)
  <2>1. PICK p \in Calls :
          call' = [call EXCEPT ![c] = Work("getActiveAPIKey", "show", p, None, profileKey[p])]
    BY <1>10 DEF ReadProfile
  <2>2. Work("getActiveAPIKey", "show", p, None, profileKey[p]).pc = "show" BY DEF Work
  <2> QED BY <1>10, <2>1, <2>2, WritingBegins DEF ReadProfile
<1>4. CASE UpdateProfile(c) BY <1>4, WritingGoesOn DEF UpdateProfile
<1>5. CASE FindActive(c)
  <2>1. CASE \E k \in activeRows[call[c].target] :
               call' = [call EXCEPT ![c].pc = "deactivate", ![c].key = k]
    <3>1. /\ \A d \in Calls \ {c} : call'[d] = call[d]
          /\ call'[c].pc = "deactivate"
      BY <2>1 DEF Inv, TypeInv, TypeOK, Call
    <3>2. ~Committed(c) BY <1>5 DEF FindActive, Committed
    <3>3. ~Writing(c)' BY <3>1 DEF Writing
    <3> QED BY <1>5, <3>1, <3>2, <3>3, WritingKept DEF FindActive
  <2> QED BY <1>5, <2>1, WritingGoesOn DEF FindActive
<1>6. CASE DeactivateRow(c) BY <1>6, WritingGoesOn DEF DeactivateRow
<1>7. CASE AddRow(c) BY <1>7, WritingGoesOn DEF AddRow
<1>8. CASE ShowKeys(c) BY <1>8, WritingGoesOn DEF ShowKeys
<1>9. CASE FindShown(c)
  <2>1. PICK pc \in {"done", "secret"} : Goto(c, pc) BY <1>9 DEF FindShown
  <2> QED BY <1>9, <2>1, WritingGoesOn DEF FindShown
<1> QED BY <1>1, <1>2, <1>3, <1>4, <1>5, <1>6, <1>7, <1>8, <1>9, <1>10 DEF UseKeys

LEMMA StepWriting ==
  ASSUME Inv, Inv', WritingInv, [Next]_vars PROVE WritingInv'
<1>1. CASE Next
  <2>1. PICK c \in Calls : Step(c) BY <1>1 DEF Next
  <2>2. CASE CodeExpires(c)
    BY <2>2 DEF CodeExpires, WritingInv, Committed, Writing, StatusAsOrdered
  <2>3. CASE Throw(c) BY <2>3, WritingGoesOn DEF Throw
  <2> QED BY <2>1, <2>2, <2>3, CreatingWriting, StatusWriting, KeysWriting DEF Step
<1>2. CASE UNCHANGED vars
  BY <1>2 DEF vars, WritingInv, Committed, Writing, StatusAsOrdered
<1> QED BY <1>1, <1>2

(* An account whose handlers did not overlap has the status they asked for:   *)
(* a handler alone with an account holds, from its read to its write, the     *)
(* status the account has.                                                   *)
THEOREM AccountsStatusAsOrdered == Spec => []StatusAsOrdered
<1>1. Init => Inv /\ WritingInv
  <2>1. Init => \A c \in Calls : call[c].pc = "new" BY DEF Init, Idle
  <2> QED BY <2>1, InitInv DEF Init, WritingInv, Writing, StatusAsOrdered
<1>2. Inv /\ WritingInv /\ [Next]_vars => Inv' /\ WritingInv'
  BY StepInv, StepWriting
<1>3. WritingInv => StatusAsOrdered BY DEF WritingInv
<1> QED BY <1>1, <1>2, <1>3, PTL DEF Spec

-----------------------------------------------------------------------------
(* The database and Redis tell the same key *)

Settled(p) == activeRows[p] = {profileKey[p]} /\ current[p] = profileKey[p]

(* What a rotation has done to a partner it has to itself. *)
Halfway(d, p) ==
  /\ profileKey[p] = d
  /\ call[d].pc = "find" => \E k \in Calls : activeRows[p] = {k}
  /\ call[d].pc = "deactivate" => activeRows[p] = {call[d].key}
  /\ call[d].pc = "add" => activeRows[p] = {}
  /\ call[d].pc \in {"secret", "current"} => activeRows[p] = {d}

RotationInv ==
  /\ \A p \in Calls : profileKey[p] # None => Committed(p)
  /\ \A c \in Calls : call[c].pc = "commit" /\ call[c].op \in Partnering => current[c] = c
  /\ \A p, d, e \in Calls : d # e /\ Rotating(d, p) /\ Rotating(e, p) => p \in crossedKeys
  /\ \A p \in Calls \ crossedKeys :
       profileKey[p] # None /\ (\A d \in Calls : Rotating(d, p) => call[d].pc = "profile") =>
         Settled(p)
  /\ \A p \in Calls \ crossedKeys, d \in Calls :
       Rotating(d, p) /\ call[d].pc # "profile" => Halfway(d, p)

(* A step of a call that rotates nothing, before or after it. *)
LEMMA RotationKept ==
  ASSUME Inv, RotationInv, NEW c \in Calls,
         \A d \in Calls \ {c} : call'[d] = call[d],
         UNCHANGED <<profileKey, activeRows, current, crossedKeys>>,
         Committed(c) => Committed(c)',
         call'[c].pc # "commit" \/ call'[c].op \notin Partnering,
         \A p \in Calls : ~Rotating(c, p) /\ ~Rotating(c, p)'
  PROVE  RotationInv'
<1>1. \A d, p \in Calls : /\ Rotating(d, p)' <=> Rotating(d, p)
                          /\ Rotating(d, p) => call'[d] = call[d]
  BY DEF Rotating
<1>2. \A t \in Calls : Committed(t) => Committed(t)' BY DEF Committed
<1>3. \A p \in Calls : Settled(p)' <=> Settled(p) BY DEF Settled
<1>4. \A p, d \in Calls : Rotating(d, p) => (Halfway(d, p)' <=> Halfway(d, p))
  BY <1>1 DEF Halfway
<1>5. \A d \in Calls : call'[d].pc = "commit" /\ call'[d].op \in Partnering => current'[d] = d
  BY DEF RotationInv
<1>6. \A p \in Calls : profileKey'[p] # None => Committed(p)' BY <1>2 DEF RotationInv
<1>7. \A p, d, e \in Calls : d # e /\ Rotating(d, p)' /\ Rotating(e, p)' => p \in crossedKeys'
  BY <1>1 DEF RotationInv
<1>8. \A p \in Calls \ crossedKeys' :
        profileKey'[p] # None /\ (\A d \in Calls : Rotating(d, p)' => call'[d].pc = "profile") =>
          Settled(p)'
  BY <1>1, <1>3 DEF RotationInv
<1>9. \A p \in Calls \ crossedKeys', d \in Calls :
        Rotating(d, p)' /\ call'[d].pc # "profile" => Halfway(d, p)'
  BY <1>1, <1>4 DEF RotationInv
<1> QED BY <1>5, <1>6, <1>7, <1>8, <1>9 DEF RotationInv

(* A step of a rotation of p: what it leaves matters only if p is its own. *)
LEMMA RotationMoves ==
  ASSUME Inv, RotationInv, NEW c \in Calls, NEW p \in Calls,
         call'[c].op = "generateApiKeys", call'[c].target = p,
         call[c].pc = "new" \/ (call[c].op = "generateApiKeys" /\ call[c].target = p),
         \A d \in Calls \ {c} : call'[d] = call[d],
         crossedKeys \subseteq crossedKeys',
         \A q \in Calls \ {p} : /\ profileKey'[q] = profileKey[q]
                                /\ activeRows'[q] = activeRows[q]
                                /\ current'[q] = current[q],
         profileKey[p] # None,
         p \notin crossedKeys' => \A d \in Calls \ {c} : ~Rotating(d, p),
         p \notin crossedKeys' /\ Rotating(c, p)' /\ call'[c].pc # "profile" => Halfway(c, p)',
         p \notin crossedKeys' /\ ~(Rotating(c, p)' /\ call'[c].pc # "profile") => Settled(p)'
  PROVE  RotationInv'
<1>1. \A d \in Calls \ {c}, q \in Calls : Rotating(d, q)' <=> Rotating(d, q) BY DEF Rotating
<1>2. \A q \in Calls \ {p} : ~Rotating(c, q) /\ ~Rotating(c, q)' BY DEF Rotating
<1>3. call'[c].op \notin Creating BY DEF Creating, Partnering
<1>4. ~Committed(c) BY DEF Committed, Creating, Partnering
<1>5. \A t \in Calls : Committed(t) => Committed(t)' BY <1>4 DEF Committed
<1>6. Committed(p) BY DEF RotationInv
<1>7. \A q \in Calls : profileKey'[q] # None => Committed(q)' BY <1>5, <1>6 DEF RotationInv
<1>8. \A d \in Calls : call'[d].pc = "commit" /\ call'[d].op \in Partnering => current'[d] = d
  <2> SUFFICES ASSUME NEW d \in Calls, call'[d].pc = "commit", call'[d].op \in Partnering
               PROVE  current'[d] = d
    OBVIOUS
  <2>1. d # c BY <1>3 DEF Creating
  <2>2. d # p BY <2>1, <1>6 DEF Committed
  <2> QED BY <2>1, <2>2 DEF RotationInv
<1>9. \A q, d, e \in Calls : d # e /\ Rotating(d, q)' /\ Rotating(e, q)' => q \in crossedKeys'
  BY <1>1, <1>2 DEF RotationInv
<1>10. \A q \in Calls \ crossedKeys' :
         profileKey'[q] # None /\ (\A d \in Calls : Rotating(d, q)' => call'[d].pc = "profile") =>
           Settled(q)'
  <2> SUFFICES ASSUME NEW q \in Calls \ crossedKeys', profileKey'[q] # None,
                      \A d \in Calls : Rotating(d, q)' => call'[d].pc = "profile"
               PROVE  Settled(q)'
    OBVIOUS
  <2>1. CASE q = p BY <2>1
  <2>2. CASE q # p
    <3>1. \A d \in Calls : Rotating(d, q) => call[d].pc = "profile" BY <2>2, <1>1, <1>2
    <3>2. Settled(q) BY <2>2, <3>1 DEF RotationInv
    <3> QED BY <2>2, <3>2 DEF Settled
  <2> QED BY <2>1, <2>2
<1>11. \A q \in Calls \ crossedKeys', d \in Calls :
         Rotating(d, q)' /\ call'[d].pc # "profile" => Halfway(d, q)'
  <2> SUFFICES ASSUME NEW q \in Calls \ crossedKeys', NEW d \in Calls,
                      Rotating(d, q)', call'[d].pc # "profile"
               PROVE  Halfway(d, q)'
    OBVIOUS
  <2>1. CASE q = p
    <3>1. d = c BY <2>1, <1>1
    <3> QED BY <2>1, <3>1
  <2>2. CASE q # p
    <3>1. d # c /\ Rotating(d, q) /\ call'[d] = call[d] BY <2>2, <1>1, <1>2
    <3>2. Halfway(d, q) BY <3>1 DEF RotationInv
    <3> QED BY <2>2, <3>1, <3>2 DEF Halfway
  <2> QED BY <2>1, <2>2
<1> QED BY <1>7, <1>8, <1>9, <1>10, <1>11 DEF RotationInv

LEMMA RotationGoesOn ==
  ASSUME Inv, RotationInv, NEW c \in Calls, NEW pc, Goto(c, pc),
         call[c].pc # "done", call[c].pc = "write" => pc = "done" \/ call[c].op \notin Creating,
         pc # "commit" \/ call[c].op \notin Partnering,
         call[c].op # "generateApiKeys" \/ call[c].pc = "show",
         pc \notin {"profile", "find", "deactivate", "add", "secret", "current"}
           \/ call[c].op # "generateApiKeys",
         UNCHANGED <<profileKey, activeRows, current, crossedKeys>>
  PROVE  RotationInv'
<1>1. /\ \A d \in Calls \ {c} : call'[d] = call[d]
      /\ call'[c].pc = pc /\ call'[c].op = call[c].op
  BY GoesOnAs
<1>2. Committed(c) => Committed(c)' BY <1>1 DEF Committed
<1>3. \A p \in Calls : ~Rotating(c, p) /\ ~Rotating(c, p)' BY <1>1 DEF Rotating
<1> QED BY <1>1, <1>2, <1>3, RotationKept

LEMMA RotationBegins ==
  ASSUME Inv, RotationInv, NEW c \in Calls, Begins(c), NEW r, call' = [call EXCEPT ![c] = r],
         r.op # "generateApiKeys", r.pc # "commit",
         UNCHANGED <<profileKey, activeRows, current, crossedKeys>>
  PROVE  RotationInv'
<1>1. call'[c] = r /\ \A d \in Calls \ {c} : call'[d] = call[d] BY DEF Inv, TypeInv, TypeOK
<1>2. ~Committed(c) BY DEF Begins, Committed
<1>3. \A p \in Calls : ~Rotating(c, p) /\ ~Rotating(c, p)' BY <1>1 DEF Begins, Rotating
<1> QED BY <1>1, <1>2, <1>3, RotationKept

LEMMA CreatingRotation ==
  ASSUME Inv, RotationInv, NEW c \in Calls, Create(c) PROVE RotationInv'
<1>0. CallOK(c, call[c]) BY OpsHeld DEF Inv
<1>1. CASE StartCreating(c)
  <2>1. PICK op \in Creating, pc \in {"lookup", "insert"}, address \in Addresses, kind \in Kinds :
          call' = [call EXCEPT ![c] = Creation(c, op, pc, address, kind)]
    BY <1>1 DEF StartCreating, Creating, Partnering, Kinds
  <2>2. /\ Creation(c, op, pc, address, kind).pc = pc
        /\ Creation(c, op, pc, address, kind).op = op
    BY DEF Creation
  <2>3. op # "generateApiKeys" BY DEF Creating, Partnering
  <2> QED BY <1>1, <2>1, <2>2, <2>3, RotationBegins DEF StartCreating
<1>2. CASE LookUpPartner(c)
  <2>1. PICK pc \in {"done", "insert"} : Goto(c, pc) BY <1>2 DEF LookUpPartner
  <2>2. call[c].op \in Creating BY <1>0, <1>2 DEF LookUpPartner, CallOK
  <2> QED BY <1>2, <2>1, <2>2, RotationGoesOn DEF LookUpPartner, Creating, Partnering
<1>3. CASE InsertRows(c)
  <2>1. PICK pc \in {"done", "secret", "commit"} :
          Goto(c, pc) /\ (pc = "commit" => call[c].op \notin Partnering)
    BY <1>3 DEF InsertRows
  <2>2. call[c].op \in Creating BY <1>0, <1>3 DEF InsertRows, CallOK
  <2> QED BY <1>3, <2>1, <2>2, RotationGoesOn DEF InsertRows, Creating, Partnering
<1>4. CASE Commit(c)
  <2>1. call[c].op \in Creating /\ ~Committed(c) /\ profileKey[c] = None
    BY <1>0, <1>4 DEF Commit, CallOK, Committed, RotationInv
  <2>2. /\ \A d \in Calls \ {c} : call'[d] = call[d]
        /\ call'[c].op = call[c].op /\ call'[c].pc \in {"write", "done"}
    BY <1>4 DEF Commit, Inv, TypeInv, TypeOK, Call
  <2>3. /\ \A p \in Calls \ {c} : profileKey'[p] = profileKey[p] /\ activeRows'[p] = activeRows[p]
        /\ UNCHANGED <<current, crossedKeys>>
        /\ call[c].op \in Partnering => profileKey'[c] = c /\ activeRows'[c] = {c} /\ current[c] = c
        /\ call[c].op \notin Partnering => profileKey'[c] = None
    BY <1>4, <2>1 DEF Commit, Inv, TypeInv, TypeOK, RotationInv
  <2>4. \A d, p \in Calls : /\ Rotating(d, p)' <=> Rotating(d, p)
                            /\ Rotating(d, p) => d # c /\ p # c
    <3>1. \A p \in Calls : ~Rotating(c, p) /\ ~Rotating(c, p)'
      BY <2>1, <2>2 DEF Rotating, Creating, Partnering
    <3>2. \A d \in Calls : ~Rotating(d, c)
      BY <2>1 DEF Rotating, Inv, PartnerInv, PartnerOK
    <3>3. \A d \in Calls \ {c}, p \in Calls : Rotating(d, p)' <=> Rotating(d, p)
      BY <2>2 DEF Rotating
    <3> QED BY <3>1, <3>2, <3>3
  <2>5. \A p \in Calls : profileKey'[p] # None => Committed(p)'
    BY <2>1, <2>2, <2>3 DEF RotationInv, Committed
  <2>6. \A d \in Calls : call'[d].pc = "commit" /\ call'[d].op \in Partnering => current'[d] = d
    BY <2>2, <2>3 DEF RotationInv
  <2>7. \A p, d, e \in Calls : d # e /\ Rotating(d, p)' /\ Rotating(e, p)' => p \in crossedKeys'
    BY <2>3, <2>4 DEF RotationInv
  <2>8. \A p \in Calls \ crossedKeys' :
          profileKey'[p] # None /\ (\A d \in Calls : Rotating(d, p)' => call'[d].pc = "profile") =>
            Settled(p)'
    <3> SUFFICES ASSUME NEW p \in Calls \ crossedKeys', profileKey'[p] # None,
                        \A d \in Calls : Rotating(d, p)' => call'[d].pc = "profile"
                 PROVE  Settled(p)'
      OBVIOUS
    <3>1. CASE p = c BY <2>3, <3>1 DEF Settled
    <3>2. CASE p # c
      <4>1. \A d \in Calls : Rotating(d, p) => call[d].pc = "profile" BY <2>2, <2>4
      <4>2. Settled(p) BY <2>3, <3>2, <4>1 DEF RotationInv
      <4> QED BY <2>3, <3>2, <4>2 DEF Settled
    <3> QED BY <3>1, <3>2
  <2>9. \A p \in Calls \ crossedKeys', d \in Calls :
          Rotating(d, p)' /\ call'[d].pc # "profile" => Halfway(d, p)'
    <3> SUFFICES ASSUME NEW p \in Calls \ crossedKeys', NEW d \in Calls,
                        Rotating(d, p)', call'[d].pc # "profile"
                 PROVE  Halfway(d, p)'
      OBVIOUS
    <3>1. d # c /\ p # c /\ Rotating(d, p) /\ call'[d] = call[d] BY <2>2, <2>4
    <3>2. Halfway(d, p) BY <2>3, <3>1 DEF RotationInv
    <3> QED BY <2>3, <3>1, <3>2 DEF Halfway
  <2> QED BY <2>5, <2>6, <2>7, <2>8, <2>9 DEF RotationInv
<1> QED BY <1>1, <1>2, <1>3, <1>4 DEF Create

LEMMA StatusRotation ==
  ASSUME Inv, RotationInv, NEW c \in Calls, ChangeStatus(c) PROVE RotationInv'
<1>0. CallOK(c, call[c]) BY OpsHeld DEF Inv
<1>a. \A pc \in {"compare", "write", "code", "delete", "drop"} :
        call[c].pc = pc => \A p \in Calls : ~Rotating(c, p)
  BY DEF Rotating
<1>b. ASSUME NEW pc \in {"write", "drop", "done"}, Goto(c, pc),
             call[c].pc \in {"compare", "write", "code", "delete", "drop"},
             call[c].pc = "write" => pc = "done" \/ call[c].op \notin Creating,
             UNCHANGED <<profileKey, activeRows, current, crossedKeys>>
      PROVE  RotationInv'
  <2>1. /\ \A d \in Calls \ {c} : call'[d] = call[d]
        /\ call'[c].pc = pc /\ call'[c].op = call[c].op
    BY <1>b, GoesOnAs
  <2>2. Committed(c) => Committed(c)' BY <1>b, <2>1 DEF Committed
  <2>3. \A p \in Calls : ~Rotating(c, p) /\ ~Rotating(c, p)' BY <1>b, <2>1 DEF Rotating
  <2> QED BY <1>b, <2>1, <2>2, <2>3, RotationKept
<1>1. CASE ReadStatus(c)
  <2>1. PICK op \in StatusOps, a \in accounts, pc \in {"compare", "write"} :
          call' = [call EXCEPT ![c] = Work(op, pc, a.id, a.status, None)]
    BY <1>1 DEF ReadStatus
  <2>2. /\ Work(op, pc, a.id, a.status, None).pc = pc
        /\ Work(op, pc, a.id, a.status, None).op = op
    BY DEF Work
  <2>3. op # "generateApiKeys" BY DEF StatusOps, Completing
  <2> QED BY <1>1, <2>1, <2>2, <2>3, RotationBegins DEF ReadStatus
<1>2. CASE CompareCode(c)
  <2>1. PICK pc \in {"write", "done"} : Goto(c, pc) BY <1>2 DEF CompareCode
  <2> QED BY <1>2, <2>1, <1>b DEF CompareCode
<1>3. CASE WriteStatus(c)
  <2>1. PICK pc \in {"drop", "done"} : Goto(c, pc) /\ (pc = "drop" => call[c].op \in Completing)
    BY <1>3 DEF WriteStatus
  <2> QED BY <1>3, <2>1, <1>b DEF WriteStatus, Completing, Creating, Partnering
<1>4. CASE DropCode(c) BY <1>4, <1>b DEF DropCode
<1>5. CASE RequestSuperAdmin(c) \/ ReadMember(c)
  <2>1. PICK a \in accounts, op \in {"requestSuperAdmin", "deleteTeamMember"},
             pc \in {"code", "delete"} :
          call' = [call EXCEPT ![c] = Work(op, pc, a.id, None, None)]
    BY <1>5 DEF RequestSuperAdmin, ReadMember
  <2>2. Work(op, pc, a.id, None, None).pc = pc /\ Work(op, pc, a.id, None, None).op = op
    BY DEF Work
  <2> QED BY <1>5, <2>1, <2>2, RotationBegins DEF RequestSuperAdmin, ReadMember
<1>6. CASE GenerateCode(c) BY <1>6, <1>b DEF GenerateCode
<1>7. CASE DeleteMember(c) BY <1>7, <1>b DEF DeleteMember
<1> QED BY <1>1, <1>2, <1>3, <1>4, <1>5, <1>6, <1>7 DEF ChangeStatus

(* The call that rotates p, and p its own or not. *)
LEMMA RotatesAlone ==
  ASSUME Inv, RotationInv, NEW c \in Calls, Rotating(c, call[c].target)
  PROVE  /\ call[c].target \in Calls /\ profileKey[call[c].target] # None
         /\ call[c].op = "generateApiKeys"
         /\ call[c].target \notin crossedKeys =>
              /\ \A d \in Calls \ {c} : ~Rotating(d, call[c].target)
              /\ IF call[c].pc = "profile" THEN Settled(call[c].target)
                                           ELSE Halfway(c, call[c].target)
<1> DEFINE p == call[c].target
<1>1. call[c].op = "generateApiKeys" BY DEF Rotating
<1>2. p \in Calls /\ profileKey[p] # None BY <1>1 DEF Inv, PartnerInv, PartnerOK
<1> SUFFICES ASSUME p \notin crossedKeys
             PROVE  /\ \A d \in Calls \ {c} : ~Rotating(d, p)
                    /\ IF call[c].pc = "profile" THEN Settled(p) ELSE Halfway(c, p)
  BY <1>1, <1>2
<1> HIDE DEF p
<1>3. Rotating(c, p) BY DEF p
<1>4. \A d \in Calls \ {c} : ~Rotating(d, p) BY <1>2, <1>3 DEF RotationInv
<1>5. CASE call[c].pc = "profile"
  <2>1. \A d \in Calls : Rotating(d, p) => call[d].pc = "profile" BY <1>4, <1>5
  <2> QED BY <1>2, <1>4, <1>5, <2>1 DEF RotationInv
<1>6. CASE call[c].pc # "profile" BY <1>2, <1>3, <1>4, <1>6 DEF RotationInv
<1> QED BY <1>5, <1>6

(* A rotation that goes on to another await. *)
LEMMA RotationStep ==
  ASSUME Inv, RotationInv, NEW c \in Calls, Rotating(c, call[c].target),
         \A d \in Calls \ {c} : call'[d] = call[d],
         call'[c].op = call[c].op, call'[c].target = call[c].target,
         crossedKeys \subseteq crossedKeys',
         \A q \in Calls \ {call[c].target} : /\ profileKey'[q] = profileKey[q]
                                             /\ activeRows'[q] = activeRows[q]
                                             /\ current'[q] = current[q],
         call[c].target \notin crossedKeys' =>
           IF call'[c].pc \in {"find", "deactivate", "add", "secret", "current"}
           THEN Halfway(c, call[c].target)' ELSE Settled(call[c].target)'
  PROVE  RotationInv'
<1> DEFINE p == call[c].target
<1>1. /\ p \in Calls /\ profileKey[p] # None /\ call[c].op = "generateApiKeys"
      /\ p \notin crossedKeys' => \A d \in Calls \ {c} : ~Rotating(d, p)
  BY RotatesAlone
<1>2. /\ p \notin crossedKeys' /\ Rotating(c, p)' /\ call'[c].pc # "profile" => Halfway(c, p)'
      /\ p \notin crossedKeys' /\ ~(Rotating(c, p)' /\ call'[c].pc # "profile") => Settled(p)'
  BY <1>1 DEF Rotating
<1> HIDE DEF p
<1> QED BY <1>1, <1>2, RotationMoves DEF p

LEMMA KeysRotation ==
  ASSUME Inv, RotationInv, NEW c \in Calls, UseKeys(c) PROVE RotationInv'
<1>0. CallOK(c, call[c]) BY OpsHeld DEF Inv
<1> DEFINE p == call[c].target
<1>a. /\ profileKey \in [Calls -> Calls \cup {None}] /\ activeRows \in [Calls -> SUBSET Calls]
      /\ current \in [Calls -> Calls \cup {None}]
  BY DEF Inv, TypeInv, TypeOK
<1>b. \A pc : Goto(c, pc) => /\ \A d \in Calls \ {c} : call'[d] = call[d]
                             /\ call'[c].pc = pc /\ call'[c].op = call[c].op
                             /\ call'[c].target = call[c].target
  BY GoesOnAs
<1>1. CASE SaveSecret(c)
  <2>1. CASE call[c].op = "generateApiKeys"
    <3>1. Goto(c, "current") BY <1>1, <2>1 DEF SaveSecret, AfterSecret
    <3>2. Rotating(c, p) BY <1>1, <2>1 DEF SaveSecret, Rotating
    <3>3. p \notin crossedKeys => Halfway(c, p)' BY <1>1, <1>b, <3>1, <3>2, RotatesAlone
      DEF SaveSecret, Halfway
    <3> QED BY <1>1, <1>b, <3>1, <3>2, <3>3, RotationStep DEF SaveSecret
  <2>2. CASE call[c].op # "generateApiKeys"
    <3>1. PICK pc \in {"current", "done"} : Goto(c, pc) BY <1>1 DEF SaveSecret, AfterSecret
    <3> QED BY <1>1, <2>2, <3>1, RotationGoesOn DEF SaveSecret
  <2> QED BY <2>1, <2>2
<1>2. CASE SetCurrent(c)
  <2>1. KeyOf(c) = c BY <1>0, <1>2 DEF SetCurrent, KeyOf, CallOK, Partnering
  <2>2. CASE call[c].op = "generateApiKeys"
    <3>1. Goto(c, "show") BY <1>2, <2>2 DEF SetCurrent, AfterCurrent, Partnering
    <3>2. Rotating(c, p) BY <1>2, <2>2 DEF SetCurrent, Rotating
    <3>3. p \in Calls BY <3>2, RotatesAlone
    <3>4. /\ current'[p] = c /\ \A q \in Calls \ {p} : current'[q] = current[q]
          /\ UNCHANGED <<profileKey, activeRows, crossedKeys>>
      BY <1>2, <1>a, <2>1, <3>3 DEF SetCurrent
    <3>5. p \notin crossedKeys => Settled(p)'
      BY <1>2, <3>2, <3>4, <1>b, <3>1, RotatesAlone DEF SetCurrent, Halfway, Settled
    <3> QED BY <1>b, <3>1, <3>2, <3>4, <3>5, RotationStep
  <2>3. CASE call[c].op # "generateApiKeys"
    <3>1. call[c].op \in Partnering /\ p = c /\ Goto(c, "commit")
      BY <1>0, <1>2, <2>3 DEF SetCurrent, AfterCurrent, CallOK, Creating
    <3>2. ~Committed(c) /\ profileKey[c] = None
      BY <1>2 DEF SetCurrent, Committed, RotationInv
    <3>3. /\ current'[c] = c /\ \A q \in Calls \ {c} : current'[q] = current[q]
          /\ UNCHANGED <<profileKey, activeRows, crossedKeys>>
      BY <1>2, <1>a, <2>1, <3>1 DEF SetCurrent
    <3>4. \A d, q \in Calls : /\ Rotating(d, q)' <=> Rotating(d, q)
                              /\ Rotating(d, q) => d # c /\ q # c
      <4>1. \A d \in Calls : ~Rotating(d, c)
        BY <3>2 DEF Rotating, Inv, PartnerInv, PartnerOK
      <4>2. \A q \in Calls : ~Rotating(c, q) /\ ~Rotating(c, q)'
        BY <2>3, <3>1, <1>b DEF Rotating
      <4>3. \A d \in Calls \ {c}, q \in Calls : Rotating(d, q)' <=> Rotating(d, q)
        BY <1>b, <3>1 DEF Rotating
      <4> QED BY <4>1, <4>2, <4>3
    <3>5. \A q \in Calls : profileKey'[q] # None => Committed(q)'
      BY <1>b, <3>1, <3>2, <3>3 DEF RotationInv, Committed
    <3>6. \A d \in Calls : call'[d].pc = "commit" /\ call'[d].op \in Partnering => current'[d] = d
      BY <1>b, <3>1, <3>3 DEF RotationInv
    <3>7. \A q, d, e \in Calls : d # e /\ Rotating(d, q)' /\ Rotating(e, q)' => q \in crossedKeys'
      BY <3>3, <3>4 DEF RotationInv
    <3>8. \A q \in Calls \ crossedKeys' :
            profileKey'[q] # None /\ (\A d \in Calls : Rotating(d, q)' => call'[d].pc = "profile") =>
              Settled(q)'
      <4> SUFFICES ASSUME NEW q \in Calls \ crossedKeys', profileKey'[q] # None,
                          \A d \in Calls : Rotating(d, q)' => call'[d].pc = "profile"
                   PROVE  Settled(q)'
        OBVIOUS
      <4>1. q # c BY <3>2, <3>3
      <4>2. \A d \in Calls : Rotating(d, q) => call[d].pc = "profile" BY <1>b, <3>1, <3>4
      <4>3. Settled(q) BY <3>3, <4>1, <4>2 DEF RotationInv
      <4> QED BY <3>3, <4>1, <4>3 DEF Settled
    <3>9. \A q \in Calls \ crossedKeys', d \in Calls :
            Rotating(d, q)' /\ call'[d].pc # "profile" => Halfway(d, q)'
      <4> SUFFICES ASSUME NEW q \in Calls \ crossedKeys', NEW d \in Calls,
                          Rotating(d, q)', call'[d].pc # "profile"
                   PROVE  Halfway(d, q)'
        OBVIOUS
      <4>1. d # c /\ q # c /\ Rotating(d, q) /\ call'[d] = call[d] BY <1>b, <3>1, <3>4
      <4>2. Halfway(d, q) BY <3>3, <4>1 DEF RotationInv
      <4> QED BY <3>3, <4>1, <4>2 DEF Halfway
    <3> QED BY <3>5, <3>6, <3>7, <3>8, <3>9 DEF RotationInv
  <2> QED BY <2>2, <2>3
<1>3. CASE ReadPartner(c)
  <2>1. PICK a \in accounts :
          /\ a.kind = "partner"
          /\ call' = [call EXCEPT ![c] = Work("generateApiKeys", "profile", a.id, None, None)]
          /\ crossedKeys' = IF \E d \in Calls : Rotating(d, a.id)
                            THEN crossedKeys \cup {a.id} ELSE crossedKeys
    BY <1>3 DEF ReadPartner
  <2>2. /\ call'[c] = Work("generateApiKeys", "profile", a.id, None, None)
        /\ \A d \in Calls \ {c} : call'[d] = call[d]
    BY <2>1 DEF Inv, TypeInv, TypeOK
  <2>3. /\ call'[c].op = "generateApiKeys" /\ call'[c].pc = "profile" /\ call'[c].target = a.id
    BY <2>2 DEF Work
  <2>4. a.id \in Calls /\ profileKey[a.id] # None
    BY <2>1 DEF Inv, PartnerInv, TypeInv, TypeOK, Account
  <2>5. a.id \notin crossedKeys' => /\ \A d \in Calls : ~Rotating(d, a.id)
                                    /\ a.id \notin crossedKeys
    BY <2>1
  <2>6. UNCHANGED <<profileKey, activeRows, current>> /\ call[c].pc = "new"
    BY <1>3 DEF ReadPartner, Begins
  <2>7. a.id \notin crossedKeys' => Settled(a.id)'
    <3>1. a.id \notin crossedKeys' => Settled(a.id) BY <2>4, <2>5 DEF RotationInv
    <3> QED BY <2>6, <3>1 DEF Settled
  <2>8. crossedKeys \subseteq crossedKeys' BY <2>1
  <2>t. PICK t \in Calls : t = a.id BY <2>4
  <2>9. /\ t \in Calls /\ profileKey[t] # None /\ call'[c].target = t
        /\ t \notin crossedKeys' => \A d \in Calls \ {c} : ~Rotating(d, t)
        /\ call'[c].pc = "profile" /\ (t \notin crossedKeys' => Settled(t)')
    BY <2>t, <2>3, <2>4, <2>5, <2>7
  <2>10. \A d \in Calls \ {c} : call'[d] = call[d] BY <2>2
  <2>11. \A q \in Calls \ {t} : /\ profileKey'[q] = profileKey[q]
                               /\ activeRows'[q] = activeRows[q]
                               /\ current'[q] = current[q]
    BY <2>6
  <2>12. call'[c].op = "generateApiKeys" /\ call[c].pc = "new" BY <2>3, <2>6
  <2> QED BY <2>8, <2>9, <2>10, <2>11, <2>12, RotationMoves
<1>4. CASE UpdateProfile(c)
  <2>1. Goto(c, "find") /\ call[c].pc = "profile" /\ UNCHANGED <<activeRows, current, crossedKeys>>
    BY <1>4 DEF UpdateProfile
  <2>2. Rotating(c, p) BY <1>0, <2>1 DEF CallOK, Rotating
  <2>3. p \in Calls /\ profileKey[p] \in Calls BY <1>a, <2>2, RotatesAlone
  <2>4. profileKey'[p] = c /\ \A q \in Calls \ {p} : profileKey'[q] = profileKey[q]
    BY <1>4, <1>a, <2>3 DEF UpdateProfile
  <2>5. p \notin crossedKeys => activeRows[p] = {profileKey[p]}
    BY <2>1, <2>2, RotatesAlone DEF Settled
  <2>6. p \notin crossedKeys => Halfway(c, p)'
    BY <1>b, <2>1, <2>3, <2>4, <2>5 DEF Halfway
  <2> QED BY <1>b, <2>1, <2>2, <2>4, <2>6, RotationStep
<1>5. CASE FindActive(c)
  <2>1. call[c].pc = "find" /\ UNCHANGED <<profileKey, activeRows, current, crossedKeys>>
    BY <1>5 DEF FindActive
  <2>2. Rotating(c, p) BY <1>0, <2>1 DEF CallOK, Rotating
  <2>3. p \notin crossedKeys => /\ profileKey[p] = c
                                /\ \E k \in Calls : activeRows[p] = {k}
    BY <2>1, <2>2, RotatesAlone DEF Halfway
  <2>4. CASE \E k \in activeRows[p] :
               call' = [call EXCEPT ![c].pc = "deactivate", ![c].key = k]
    <3>1. PICK k \in activeRows[p] : call' = [call EXCEPT ![c].pc = "deactivate", ![c].key = k]
      BY <2>4
    <3>2. /\ \A d \in Calls \ {c} : call'[d] = call[d]
          /\ call'[c].pc = "deactivate" /\ call'[c].key = k
          /\ call'[c].op = call[c].op /\ call'[c].target = call[c].target
      BY <3>1 DEF Inv, TypeInv, TypeOK, Call
    <3>3. p \notin crossedKeys => activeRows[p] = {k} BY <2>3
    <3>4. p \notin crossedKeys => Halfway(c, p)' BY <2>1, <2>3, <3>2, <3>3 DEF Halfway
    <3> QED BY <2>1, <2>2, <3>2, <3>4, RotationStep
  <2>5. CASE activeRows[p] = {} /\ Goto(c, "add")
    <3>1. p \in crossedKeys BY <2>3, <2>5
    <3> QED BY <1>b, <2>1, <2>2, <2>5, <3>1, RotationStep
  <2> QED BY <1>5, <2>4, <2>5 DEF FindActive
<1>6. CASE DeactivateRow(c)
  <2>1. /\ Goto(c, "add") /\ call[c].pc = "deactivate"
        /\ UNCHANGED <<profileKey, current, crossedKeys>>
    BY <1>6 DEF DeactivateRow
  <2>2. Rotating(c, p) BY <1>0, <2>1 DEF CallOK, Rotating
  <2>3. p \in Calls BY <2>2, RotatesAlone
  <2>4. /\ activeRows'[p] = activeRows[p] \ {call[c].key}
        /\ \A q \in Calls \ {p} : activeRows'[q] = activeRows[q]
    BY <1>6, <1>a, <2>3 DEF DeactivateRow
  <2>5. p \notin crossedKeys => profileKey[p] = c /\ activeRows[p] = {call[c].key}
    BY <2>1, <2>2, RotatesAlone DEF Halfway
  <2>6. p \notin crossedKeys => Halfway(c, p)' BY <1>b, <2>1, <2>4, <2>5 DEF Halfway
  <2> QED BY <1>b, <2>1, <2>2, <2>4, <2>6, RotationStep
<1>7. CASE AddRow(c)
  <2>1. /\ Goto(c, "secret") /\ call[c].pc = "add"
        /\ UNCHANGED <<profileKey, current, crossedKeys>>
    BY <1>7 DEF AddRow
  <2>2. Rotating(c, p) BY <1>0, <2>1 DEF CallOK, Rotating
  <2>3. p \in Calls BY <2>2, RotatesAlone
  <2>4. /\ activeRows'[p] = activeRows[p] \cup {c}
        /\ \A q \in Calls \ {p} : activeRows'[q] = activeRows[q]
    BY <1>7, <1>a, <2>3 DEF AddRow
  <2>5. p \notin crossedKeys => profileKey[p] = c /\ activeRows[p] = {}
    BY <2>1, <2>2, RotatesAlone DEF Halfway
  <2>6. p \notin crossedKeys => Halfway(c, p)' BY <1>b, <2>1, <2>4, <2>5 DEF Halfway
  <2> QED BY <1>b, <2>1, <2>2, <2>4, <2>6, RotationStep
<1>8. CASE ShowKeys(c) BY <1>8, RotationGoesOn DEF ShowKeys
<1>9. CASE ReadProfile(c)
  <2>1. PICK q \in Calls :
          call' = [call EXCEPT ![c] = Work("getActiveAPIKey", "show", q, None, profileKey[q])]
    BY <1>9 DEF ReadProfile
  <2>2. /\ Work("getActiveAPIKey", "show", q, None, profileKey[q]).pc = "show"
        /\ Work("getActiveAPIKey", "show", q, None, profileKey[q]).op = "getActiveAPIKey"
    BY DEF Work
  <2> QED BY <1>9, <2>1, <2>2, RotationBegins DEF ReadProfile
<1>10. CASE FindShown(c)
  <2>1. PICK pc \in {"done", "secret"} : Goto(c, pc) BY <1>10 DEF FindShown
  <2> QED BY <1>10, <2>1, RotationGoesOn DEF FindShown
<1> QED BY <1>1, <1>2, <1>3, <1>4, <1>5, <1>6, <1>7, <1>8, <1>9, <1>10 DEF UseKeys

LEMMA ThrowRotation ==
  ASSUME Inv, RotationInv, NEW c \in Calls, Throw(c) PROVE RotationInv'
<1>1. /\ Goto(c, "done") /\ call[c].pc \notin {"new", "done"}
      /\ UNCHANGED <<profileKey, activeRows, current>>
  BY DEF Throw
<1>2. /\ \A d \in Calls \ {c} : call'[d] = call[d]
      /\ call'[c].pc = "done" /\ call'[c].op = call[c].op /\ call'[c].target = call[c].target
  BY <1>1, GoesOnAs
<1>3. CASE Rotating(c, call[c].target)
  <2>1. crossedKeys' = crossedKeys \cup {call[c].target} BY <1>3 DEF Throw
  <2> QED BY <1>1, <1>2, <1>3, <2>1, RotationStep
<1>4. CASE ~Rotating(c, call[c].target)
  <2>1. crossedKeys' = crossedKeys BY <1>4 DEF Throw
  <2>2. Committed(c) => Committed(c)' BY <1>2 DEF Committed
  <2>3. \A p \in Calls : ~Rotating(c, p) /\ ~Rotating(c, p)' BY <1>2, <1>4 DEF Rotating
  <2> QED BY <1>1, <1>2, <2>1, <2>2, <2>3, RotationKept
<1> QED BY <1>3, <1>4

LEMMA StepRotation ==
  ASSUME Inv, RotationInv, [Next]_vars PROVE RotationInv'
<1>1. CASE Next
  <2>1. PICK c \in Calls : Step(c) BY <1>1 DEF Next
  <2>2. CASE CodeExpires(c)
    BY <2>2 DEF CodeExpires, RotationInv, Committed, Rotating, Settled, Halfway
  <2> QED BY <2>1, <2>2, CreatingRotation, StatusRotation, KeysRotation, ThrowRotation DEF Step
<1>2. CASE UNCHANGED vars
  BY <1>2 DEF vars, RotationInv, Committed, Rotating, Settled, Halfway
<1> QED BY <1>1, <1>2

(* A partner whose rotations neither overlapped nor were cut off has one key, *)
(* in its profile, in its active row and in Redis: a rotation that has the    *)
(* partner to itself finds one active row and leaves one.                     *)
THEOREM AccountsKeysAgree == Spec => []KeysAgree
<1>1. Init => Inv /\ RotationInv
  <2>1. Init => \A c \in Calls : call[c].pc = "new" BY DEF Init, Idle
  <2> QED BY <2>1, InitInv DEF Init, RotationInv, Rotating
<1>2. Inv /\ RotationInv /\ [Next]_vars => Inv' /\ RotationInv'
  BY StepInv, StepRotation
<1>3. Inv /\ RotationInv => KeysAgree
  <2> SUFFICES ASSUME Inv, RotationInv, NEW p \in Calls \ crossedKeys, profileKey[p] # None,
                      \A c \in Calls : ~Rotating(c, p)
               PROVE  activeRows[p] = {profileKey[p]} /\ Accepted(p, profileKey[p])
    BY DEF KeysAgree
  <2>1. Settled(p) BY DEF RotationInv
  <2>2. current[p] \in secrets BY DEF Inv, KeyInv
  <2> QED BY <2>1, <2>2 DEF Settled, Accepted
<1> QED BY <1>1, <1>2, <1>3, PTL DEF Spec
=============================================================================
