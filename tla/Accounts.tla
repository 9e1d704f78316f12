-------------------------------- MODULE Accounts --------------------------------
(***************************************************************************)
(* Concurrent calls that create accounts, change their status and rotate     *)
(* partners' API keys, split at the awaits that others can observe.  The     *)
(* rows of Entity, PartnerProfile and ApiKey are in the database, and what    *)
(* validateApiKey accepts is in Redis, where no transaction reaches.          *)
(*                                                                           *)
(* An account, a partner profile and a key are numbered by the call that     *)
(* made them; calls are numbered as they come in.                            *)
(***************************************************************************)
EXTENDS Naturals

CONSTANTS
  MaxCalls,    \* how many calls a behaviour has
  Addresses,   \* e-mail addresses
  None         \* no value

ASSUME CallsAssumption == MaxCalls \in Nat \ {0}

VARIABLES
  accounts,       \* committed rows of Entity
  profileKey,     \* per partner: the key in its row of PartnerProfile, or None
  activeRows,     \* per partner: the keys of its active rows of ApiKey
  secrets,        \* Redis: the keys filed under their secret
  current,        \* Redis: active_api_key of a partner, or None
  codes,          \* Redis: the accounts with a su_activation code
  call,           \* per call: the handler and where it is in it
  crossedKeys,    \* history: partners whose rotations overlapped or were cut off
  crossedStatus,  \* history: accounts whose status was read under another's write
  ordered         \* history: per account, the status its calls asked for

redis   == <<secrets, current, codes>>
rows    == <<accounts, profileKey, activeRows>>
history == <<crossedKeys, crossedStatus, ordered>>
vars    == <<rows, redis, call, history>>

-----------------------------------------------------------------------------
(* Types *)

Calls == 1..MaxCalls

Partnering == {"signup", "invitePartner"}
Creating   == Partnering \cup {"otherSignup", "inviteTeamMember"}
Completing == {"completeActivation", "completeDeActivation"}
StatusOps  == {"verifyEmail", "activatePartner", "deactivatePartner"} \cup Completing
KeyOps     == {"generateApiKeys", "getActiveAPIKey"}
Ops == Creating \cup StatusOps \cup KeyOps \cup {"requestSuperAdmin", "deleteTeamMember"}

ASSUME NoneAssumption == None \notin Calls /\ None \notin Ops

Kinds == {"partner", "member", "superadmin", "other"}

(* Entity.status *)
Status == [activated : BOOLEAN, emailVerified : BOOLEAN]

Account ==
  [id : Calls, address : Addresses, kind : Kinds, status : Status]

PCs == {"new", "lookup", "insert", "commit",                \* creating an account
        "compare", "write", "code", "delete", "drop",       \* working on a row read before
        "profile", "find", "deactivate", "add", "show",     \* rotating keys
        "secret", "current", "done"}

Call ==
  [op : Ops \cup {None}, pc : PCs,
   address : Addresses \cup {None},
   kind    : Kinds \cup {None},
   target  : Calls \cup {None},    \* the account or partner the call works on
   status  : Status \cup {None},   \* its status as the call read it
   key     : Calls \cup {None}]    \* a key it read

(* The type invariant. *)
TypeOK ==
  /\ accounts \subseteq Account
  /\ profileKey \in [Calls -> Calls \cup {None}]
  /\ activeRows \in [Calls -> SUBSET Calls]
  /\ secrets \subseteq Calls
  /\ current \in [Calls -> Calls \cup {None}]
  /\ codes \subseteq Calls
  /\ call \in [Calls -> Call]
  /\ crossedKeys \subseteq Calls /\ crossedStatus \subseteq Calls
  /\ ordered \in [Calls -> Status]

Unverified(activated) == [activated |-> activated, emailVerified |-> FALSE]

At(address) == {a \in accounts : a.address = address}
WithId(id)  == {a \in accounts : a.id = id}

Goto(c, pc) == call' = [call EXCEPT ![c].pc = pc]

Idle == [op |-> None, pc |-> "new", address |-> None, kind |-> None,
         target |-> None, status |-> None, key |-> None]

(* A call that creates an account. *)
Creation(c, op, pc, address, kind) ==
  [op |-> op, pc |-> pc, address |-> address, kind |-> kind, target |-> c,
   status |-> None, key |-> None]

(* A call that works on an account or partner that is there. *)
Work(op, pc, target, status, key) ==
  [op |-> op, pc |-> pc, address |-> None, kind |-> None, target |-> target,
   status |-> status, key |-> key]

Begins(c) == call[c].pc = "new" /\ \A d \in 1..(c - 1) : call[d].pc # "new"

-----------------------------------------------------------------------------
(* AuthController.signup and otherSignup, invitePartner, inviteTeamMember *)

StartCreating(c) ==
  /\ Begins(c)
  /\ \E address \in Addresses :
       \/ \E op \in Partnering :
            call' = [call EXCEPT ![c] = Creation(c, op, "lookup", address, "partner")]
       \/ \E kind \in {"superadmin", "other"} :
            call' = [call EXCEPT ![c] = Creation(c, "otherSignup", "insert", address, kind)]
       \/ /\ \E a \in accounts : a.kind = "partner"
          /\ call' = [call EXCEPT ![c] =
               Creation(c, "inviteTeamMember", "insert", address, "member")]
  /\ UNCHANGED <<rows, redis, history>>

(* "Email has been used before": only by a partner. *)
LookUpPartner(c) ==
  /\ call[c].pc = "lookup"
  /\ Goto(c, IF \E a \in At(call[c].address) : a.kind = "partner" THEN "done" ELSE "insert")
  /\ UNCHANGED <<rows, redis, history>>

(* A row is inserted in a transaction that is open until its commit. *)
Draft(c) == call[c].op \in Creating /\ call[c].pc \in {"secret", "current", "commit"}

(* Entity.email is unique: an insert waits for an open transaction with the   *)
(* same address, and throws when that address is taken.                       *)
InsertRows(c) ==
  /\ call[c].pc = "insert"
  /\ \A d \in Calls : Draft(d) => call[d].address # call[c].address
  /\ Goto(c, IF At(call[c].address) # {} THEN "done"
             ELSE IF call[c].op \in Partnering THEN "secret" ELSE "commit")
  /\ UNCHANGED <<rows, redis, history>>

NewAccount(c) ==
  [id |-> c, address |-> call[c].address, kind |-> call[c].kind,
   status |-> Unverified(call[c].kind = "member")]

(* The entity.update before the commit of a signup is outside its transaction *)
(* and meets no row; the one of an invitation comes after the commit.         *)
Commit(c) ==
  /\ call[c].pc = "commit"
  /\ accounts' = accounts \cup {NewAccount(c)}
  /\ ordered' = [ordered EXCEPT ![c] = NewAccount(c).status]
  /\ IF call[c].op \in Partnering
     THEN /\ profileKey' = [profileKey EXCEPT ![c] = c]
          /\ activeRows' = [activeRows EXCEPT ![c] = {c}]
     ELSE UNCHANGED <<profileKey, activeRows>>
  /\ call' = IF call[c].op = "invitePartner"
             THEN [call EXCEPT ![c].pc = "write", ![c].status = NewAccount(c).status]
             ELSE [call EXCEPT ![c].pc = "done"]
  /\ UNCHANGED <<redis, crossedKeys, crossedStatus>>

-----------------------------------------------------------------------------
(* Redis: TokenUtil.saveTokenToCache and setCurrentActiveApiKeyInCache *)

(* The key a call files or makes active: its own, or the one it read. *)
KeyOf(c) == IF call[c].op = "getActiveAPIKey" THEN call[c].key ELSE c

AfterSecret(c) == IF call[c].op = "getActiveAPIKey" THEN "done" ELSE "current"

AfterCurrent(c) == IF call[c].op \in Partnering THEN "commit" ELSE "show"

(* Slip: the secret of the key to be replaced goes first. *)
ReplaceSecret(c) ==
  /\ call[c].pc = "secret"
  /\ secrets' = (secrets \ {call[c].key}) \cup {KeyOf(c)}
  /\ Goto(c, AfterSecret(c))
  /\ UNCHANGED <<rows, current, codes, history>>

SaveSecret(c) ==
  /\ call[c].pc = "secret"
  /\ secrets' = secrets \cup {KeyOf(c)}
  /\ Goto(c, AfterSecret(c))
  /\ UNCHANGED <<rows, current, codes, history>>

SetCurrent(c) ==
  /\ call[c].pc = "current"
  /\ current' = [current EXCEPT ![call[c].target] = KeyOf(c)]
  /\ Goto(c, AfterCurrent(c))
  /\ UNCHANGED <<rows, secrets, codes, history>>

-----------------------------------------------------------------------------
(* Handlers that read a row of Entity and write its status *)

(* Between the read of a status and its write. *)
Writing(c) == call[c].pc \in {"compare", "write"}

(* Who the handlers are for.  verifyEmail's token is made at a signup. *)
Admits(op, a) ==
  CASE op = "verifyEmail" -> /\ call[a.id].op \in {"signup", "otherSignup"}
                             /\ ~a.status.emailVerified
    [] op \in {"activatePartner", "deactivatePartner"} -> a.kind # "superadmin"
    [] OTHER -> a.kind = "superadmin"

ReadStatus(c) ==
  /\ Begins(c)
  /\ \E op \in StatusOps, a \in accounts :
       /\ Admits(op, a)
       /\ call' = [call EXCEPT ![c] =
            Work(op, IF op \in Completing THEN "compare" ELSE "write", a.id, a.status, None)]
       /\ crossedStatus' = IF \E d \in Calls : Writing(d) /\ call[d].target = a.id
                           THEN crossedStatus \cup {a.id} ELSE crossedStatus
  /\ UNCHANGED <<rows, redis, crossedKeys, ordered>>

(* compareCode: the administrators' code, or another. *)
CompareCode(c) ==
  /\ call[c].pc = "compare"
  /\ \/ call[c].target \in codes /\ Goto(c, "write")
     \/ Goto(c, "done")
  /\ UNCHANGED <<rows, redis, history>>

(* The status a handler asks for, given the one it knows. *)
Asked(op, status) ==
  CASE op \in {"verifyEmail", "invitePartner"} -> [status EXCEPT !.emailVerified = TRUE]
    [] op \in {"activatePartner", "completeActivation"} -> [status EXCEPT !.activated = TRUE]
    [] OTHER -> [status EXCEPT !.activated = FALSE]

(* Slip: the status is not spread. *)
FreshStatus(c) == Asked(call[c].op, Unverified(FALSE))

NewStatus(c) == Asked(call[c].op, call[c].status)

(* entity.update({ status: { ...entity.status, ... } }): the whole column, by  *)
(* id; nothing is written when it equals what was read.                       *)
WriteStatus(c) ==
  LET id == call[c].target
      new == NewStatus(c)
  IN /\ call[c].pc = "write"
     /\ accounts' = IF new = call[c].status THEN accounts
                    ELSE {IF a.id = id THEN [a EXCEPT !.status = new] ELSE a : a \in accounts}
     /\ ordered' = [ordered EXCEPT ![id] = Asked(call[c].op, @)]
     /\ Goto(c, IF call[c].op \in Completing THEN "drop" ELSE "done")
     /\ UNCHANGED <<profileKey, activeRows, redis, crossedKeys, crossedStatus>>

(* requestSuperAdminActivation and requestSuperAdminDeActivation. *)
RequestSuperAdmin(c) ==
  /\ Begins(c)
  /\ \E a \in accounts :
       /\ a.kind = "superadmin"
       /\ call' = [call EXCEPT ![c] =
            Work("requestSuperAdmin", "code", a.id, None, None)]
  /\ UNCHANGED <<rows, redis, history>>

GenerateCode(c) ==
  /\ call[c].pc = "code"
  /\ codes' = codes \cup {call[c].target}
  /\ Goto(c, "done")
  /\ UNCHANGED <<rows, secrets, current, history>>

DropCode(c) ==
  /\ call[c].pc = "drop"
  /\ codes' = codes \ {call[c].target}
  /\ Goto(c, "done")
  /\ UNCHANGED <<rows, secrets, current, history>>

(* setex: a code lives five hours. *)
CodeExpires(id) ==
  /\ id \in codes
  /\ codes' = codes \ {id}
  /\ UNCHANGED <<rows, secrets, current, call, history>>

(* deleteTeamMember, by the member's partner. *)
ReadMember(c) ==
  /\ Begins(c)
  /\ \E a \in accounts :
       /\ a.kind = "member"
       /\ call' = [call EXCEPT ![c] =
            Work("deleteTeamMember", "delete", a.id, None, None)]
  /\ UNCHANGED <<rows, redis, history>>

DeleteMember(c) ==
  /\ call[c].pc = "delete"
  /\ accounts' = accounts \ WithId(call[c].target)
  /\ Goto(c, "done")
  /\ UNCHANGED <<profileKey, activeRows, redis, history>>

-----------------------------------------------------------------------------
(* ApiController.generateApiKeys and PartnerProfileService.generateKeys *)

(* Between the read of a partner and its key's place in Redis. *)
Rotating(c, p) ==
  /\ call[c].op = "generateApiKeys" /\ call[c].target = p
  /\ call[c].pc \in {"profile", "find", "deactivate", "add", "secret", "current"}

ReadPartner(c) ==
  /\ Begins(c)
  /\ \E a \in accounts :
       /\ a.kind = "partner"
       /\ call' = [call EXCEPT ![c] =
            Work("generateApiKeys", "profile", a.id, None, None)]
       /\ crossedKeys' = IF \E d \in Calls : Rotating(d, a.id)
                         THEN crossedKeys \cup {a.id} ELSE crossedKeys
  /\ UNCHANGED <<rows, redis, crossedStatus, ordered>>

UpdateProfile(c) ==
  /\ call[c].pc = "profile"
  /\ profileKey' = [profileKey EXCEPT ![call[c].target] = c]
  /\ Goto(c, "find")
  /\ UNCHANGED <<accounts, activeRows, redis, history>>

(* viewActiveApiKeyByPartnerId: one of the active rows. *)
FindActive(c) ==
  /\ call[c].pc = "find"
  /\ \/ \E k \in activeRows[call[c].target] :
          call' = [call EXCEPT ![c].pc = "deactivate", ![c].key = k]
     \/ activeRows[call[c].target] = {} /\ Goto(c, "add")
  /\ UNCHANGED <<rows, redis, history>>

(* Slip: the old row stays active. *)
LeaveActive(c) ==
  /\ call[c].pc = "deactivate"
  /\ Goto(c, "add")
  /\ UNCHANGED <<rows, redis, history>>

DeactivateRow(c) ==
  /\ call[c].pc = "deactivate"
  /\ activeRows' = [activeRows EXCEPT ![call[c].target] = @ \ {call[c].key}]
  /\ Goto(c, "add")
  /\ UNCHANGED <<accounts, profileKey, redis, history>>

AddRow(c) ==
  /\ call[c].pc = "add"
  /\ activeRows' = [activeRows EXCEPT ![call[c].target] = @ \cup {c}]
  /\ Goto(c, "secret")
  /\ UNCHANGED <<accounts, profileKey, redis, history>>

ShowKeys(c) ==
  /\ call[c].pc = "show" /\ call[c].op = "generateApiKeys"
  /\ Goto(c, "done")
  /\ UNCHANGED <<rows, redis, history>>

(* getActiveAPIKey: the profile is read, then its active row, and the secret  *)
(* of the profile's key is filed again.                                       *)
ReadProfile(c) ==
  /\ Begins(c)
  /\ \E p \in Calls :
       /\ profileKey[p] # None
       /\ call' = [call EXCEPT ![c] =
            Work("getActiveAPIKey", "show", p, None, profileKey[p])]
  /\ UNCHANGED <<rows, redis, history>>

FindShown(c) ==
  /\ call[c].pc = "show" /\ call[c].op = "getActiveAPIKey"
  /\ Goto(c, IF activeRows[call[c].target] = {} THEN "done" ELSE "secret")
  /\ UNCHANGED <<rows, redis, history>>

-----------------------------------------------------------------------------

(* Any await may throw; a transaction that is open is rolled back. *)
Throw(c) ==
  /\ call[c].pc \notin {"new", "done"}
  /\ Goto(c, "done")
  /\ crossedKeys' = IF Rotating(c, call[c].target)
                    THEN crossedKeys \cup {call[c].target} ELSE crossedKeys
  /\ UNCHANGED <<rows, redis, crossedStatus, ordered>>

Init ==
  /\ accounts = {}
  /\ profileKey = [p \in Calls |-> None]
  /\ activeRows = [p \in Calls |-> {}]
  /\ secrets = {} /\ codes = {}
  /\ current = [p \in Calls |-> None]
  /\ call = [c \in Calls |-> Idle]
  /\ crossedKeys = {} /\ crossedStatus = {}
  /\ ordered = [a \in Calls |-> Unverified(FALSE)]

Create(c) == StartCreating(c) \/ LookUpPartner(c) \/ InsertRows(c) \/ Commit(c)

ChangeStatus(c) ==
  \/ ReadStatus(c) \/ CompareCode(c) \/ WriteStatus(c) \/ DropCode(c)
  \/ RequestSuperAdmin(c) \/ GenerateCode(c) \/ ReadMember(c) \/ DeleteMember(c)

UseKeys(c) ==
  \/ SaveSecret(c) \/ SetCurrent(c)
  \/ ReadPartner(c) \/ UpdateProfile(c) \/ FindActive(c) \/ DeactivateRow(c) \/ AddRow(c)
  \/ ShowKeys(c) \/ ReadProfile(c) \/ FindShown(c)

Step(c) == Create(c) \/ ChangeStatus(c) \/ UseKeys(c) \/ Throw(c) \/ CodeExpires(c)

Next == \E c \in Calls : Step(c)

Spec == Init /\ [][Next]_vars

-----------------------------------------------------------------------------
(* Safety *)

(* What validateApiKey accepts: Redis alone decides. *)
Accepted(partner, key) == key \in secrets /\ current[partner] = key

(* A partner always has a key that validateApiKey accepts, whichever          *)
(* rotations cross or are cut off: no rotation leaves the partner shut out.   *)
AlwaysAKey ==
  \A p \in Calls : profileKey[p] # None => \E k \in Calls : Accepted(p, k)

(* Where no rotations overlapped and none was cut off, the database and Redis *)
(* tell the same key whenever no rotation is at work: the partner's profile,  *)
(* its one active row of ApiKey, and the key validateApiKey accepts.          *)
KeysAgree ==
  \A p \in Calls \ crossedKeys :
    profileKey[p] # None /\ (\A c \in Calls : ~Rotating(c, p)) =>
      /\ activeRows[p] = {profileKey[p]}
      /\ Accepted(p, profileKey[p])

(* An account whose handlers did not overlap has the status they asked for,   *)
(* one after the other: each writes the whole column from what it read, and   *)
(* undoes nobody's work.                                                     *)
StatusAsOrdered ==
  \A a \in accounts : a.id \notin crossedStatus => a.status = ordered[a.id]
=============================================================================
