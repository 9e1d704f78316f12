-------------------------------- MODULE Sessions --------------------------------
(***************************************************************************)
(* Logging in and out, one-time codes, passwords and the requirement of a    *)
(* code, for one partner and its team members, under concurrent calls.       *)
(*                                                                           *)
(* Redis keeps one value per account and key: the token of each type that    *)
(* basicAuth accepts, and the codes that are mailed.  A value is known by     *)
(* the call that made it.  A handler reads the account's row and is then a    *)
(* script of single writes and checks; each of them may throw, and other      *)
(* calls come in between.                                                    *)
(***************************************************************************)
EXTENDS Naturals, Sequences

CONSTANTS
  MaxCalls,   \* how many calls a behaviour has
  Partner,    \* the partner's account
  Members,    \* its team members' accounts
  None        \* no value

ASSUME SessionsAssumption == MaxCalls \in Nat \ {0} /\ Partner \notin Members
ASSUME NoneAssumption == None \notin 1..MaxCalls

VARIABLES
  activated,  \* the accounts whose status says so
  required,   \* the accounts that log in with a code: requireOTPOnLogin
  password,   \* per account: the call that set its password, or None
  stored,     \* Redis: per key and account, the call that set it, or None
  call,       \* per call: the handler and what is left of its script
  session,    \* history: per account, the login its calls ended with, or None
  asked,      \* history: the accounts that were last asked to use a code
  crossed     \* history: topics and accounts whose calls overlapped or were cut off

rows    == <<activated, required, password>>
history == <<session, asked, crossed>>
vars    == <<rows, stored, call, history>>

Calls    == 1..MaxCalls
Accounts == {Partner} \cup Members

-----------------------------------------------------------------------------
(* The handlers, as scripts *)

(* AuthUtil's keys: `${type}_token` and `${type}_code`. *)
Keys == {"access_token", "refresh_token", "otp_token", "otp_code",
         "passwordreset_token", "passwordreset_code"}

Set(key)   == [do |-> "set", on |-> key]
Del(key)   == [do |-> "del", on |-> key]
Check(key) == [do |-> "check", on |-> key]
Do(step)   == [do |-> step, on |-> None]
Require(a) == [do |-> "require", on |-> a]

(* AuthUtil.clear; the code of a verification is left out. *)
Clear == <<Del("access_token"), Del("refresh_token"), Del("passwordreset_code")>>

(* Slip: the refresh token outlives the session. *)
DropAccess == <<Del("access_token")>>

login          == <<Set("refresh_token"), Set("access_token")>>
loginByCode    == <<Set("otp_code"), Set("otp_token")>>
completeLogin  == <<Check("otp_code"), Set("access_token"), Set("refresh_token")>>
logout         == <<Del("access_token"), Del("refresh_token")>>
setStatus      == <<Do("status")>> \o Clear
forgotPassword == <<Set("passwordreset_token"), Set("passwordreset_code")>>

(* Slip: the token can be used again. *)
resetAndKeep == <<Check("passwordreset_code"), Do("password")>>

resetPassword  ==
  <<Check("passwordreset_code"), Do("password"), Del("passwordreset_token")>>
changePassword == <<Do("compare"), Do("password")>>

Topics == [login |-> "session", loginByCode |-> "session", completeLogin |-> "session",
           logout |-> "session", activatePartner |-> "session",
           deactivatePartner |-> "session", resetPassword |-> "password",
           changePassword |-> "password", forgotPassword |-> "request",
           updateLoginOTPRequirement |-> "requirement"]

Idle == [op |-> None, state |-> "new", account |-> None, todo |-> <<>>,
         seen |-> None, was |-> FALSE, value |-> FALSE, left |-> {}]

(* A handler on an account: the token or password it has seen, the value it    *)
(* has read in the row and the one it is to write, and the team members it    *)
(* still has to visit.                                                       *)
Handler(op, account, todo, seen, was, value, left) ==
  [op |-> op, state |-> "working", account |-> account, todo |-> todo,
   seen |-> seen, was |-> was, value |-> value, left |-> left]

Plain(op, account, todo) == Handler(op, account, todo, None, FALSE, FALSE, {})

Working(c) == call[c].state = "working"

(* The accounts a handler writes: a partner's requirement is its members' too. *)
Touched(handler) ==
  {handler.account} \cup
    (IF handler.op = "updateLoginOTPRequirement" /\ handler.account = Partner
     THEN Members ELSE {})

InFlight(topic, a) ==
  \E c \in Calls : Working(c) /\ Topics[call[c].op] = topic /\ a \in Touched(call[c])

-----------------------------------------------------------------------------
(* Types *)

Steps == [do : {"set", "del", "check", "compare", "password", "status", "require",
                "members", "role"},
          on : Keys \cup Accounts \cup {None}]

CallRecords ==
  [op : DOMAIN Topics \cup {None},
   state : {"new", "working", "answered", "refused", "thrown"},
   account : Accounts \cup {None}, todo : Seq(Steps), seen : Calls \cup {None},
   was : BOOLEAN, value : BOOLEAN, left : SUBSET Members]

TypeOK ==
  /\ activated \subseteq Accounts /\ required \subseteq Accounts /\ asked \subseteq Accounts
  /\ password \in [Accounts -> Calls \cup {None}] /\ session \in [Accounts -> Calls \cup {None}]
  /\ stored \in [Keys -> [Accounts -> Calls \cup {None}]]
  /\ call \in [Calls -> CallRecords]
  /\ crossed \subseteq {"session", "password", "request", "requirement"} \X Accounts

-----------------------------------------------------------------------------
(* Handlers begin: the token is compared and the account's row is read *)

(* Under another call of its topic; or an account is deactivated while a code  *)
(* that was mailed may still complete a login.                               *)
Crossing(handler) ==
  LET topic == Topics[handler.op]
  IN {<<topic, a>> : a \in {b \in Touched(handler) :
        \/ InFlight(topic, b)
        \/ handler.op = "deactivatePartner" /\ stored["otp_token"][b] # None}}

Begin(c, handler) ==
  /\ call[c].state = "new" /\ \A d \in 1..(c - 1) : call[d].state # "new"
  /\ call' = [call EXCEPT ![c] = handler]
  /\ crossed' = crossed \cup Crossing(handler)
  /\ UNCHANGED <<rows, stored, session, asked>>

(* Slip: the account's status is not looked at. *)
LoginAnyone(c) ==
  \E a \in Accounts :
    Begin(c, IF a \in required THEN Plain("loginByCode", a, loginByCode)
                               ELSE Plain("login", a, login))

(* An account that is not activated, or a wrong password, is refused. *)
Login(c) ==
  \E a \in activated :
    Begin(c, IF a \in required THEN Plain("loginByCode", a, loginByCode)
                               ELSE Plain("login", a, login))

(* basicAuth: the token is the one in Redis; whoever has it was answered. *)
Authenticated(key, a) ==
  stored[key][a] # None /\ call[stored[key][a]].state = "answered"

(* Handlers of somebody logged in, or who has the token of a request. *)
Act(c) ==
  \E a \in Accounts :
    \/ /\ Authenticated("access_token", a)
       /\ \/ Begin(c, Plain("logout", a, logout))
          \/ Begin(c, Plain("changePassword", a, changePassword))
    \/ /\ Authenticated("otp_token", a)
       /\ Begin(c, Plain("completeLogin", a, completeLogin))

ForgotPassword(c) ==
  \E a \in Accounts : Begin(c, Plain("forgotPassword", a, forgotPassword))

(* What a reset has seen is its token. *)
ResetPassword(c) ==
  \E a \in Accounts :
    /\ Authenticated("passwordreset_token", a)
    /\ Begin(c, Handler("resetPassword", a, resetPassword,
                        stored["passwordreset_token"][a], FALSE, FALSE, {}))

(* activatePartner and deactivatePartner, by a super administrator. *)
SetStatus(c) ==
  \E a \in Accounts, value \in BOOLEAN :
    Begin(c, Handler(IF value THEN "activatePartner" ELSE "deactivatePartner",
                     a, setStatus, None, a \in activated, value, {}))

(* updateLoginOTPRequirement for the caller's own account, and a partner's for *)
(* one team member, whose row is read without its role: the role's comparison  *)
(* throws once the row is written.                                           *)
UpdateRequirement(c) ==
  \E value \in BOOLEAN :
    \/ \E a \in Accounts :
         /\ Authenticated("access_token", a)
         /\ Begin(c, Handler("updateLoginOTPRequirement", a, <<Require(a), Do("members")>>,
                             None, a \in required, value, IF a = Partner THEN Members ELSE {}))
    \/ \E m \in Members :
         /\ Authenticated("access_token", Partner)
         /\ Begin(c, Handler("updateLoginOTPRequirement", m, <<Require(m), Do("role")>>,
                             None, m \in required, value, {}))

-----------------------------------------------------------------------------
(* Steps *)

(* The call is at this step; and the call once it is behind it. *)
At(c, step) == Working(c) /\ call[c].todo # <<>> /\ Head(call[c].todo).do = step
Object(c)   == Head(call[c].todo).on
Pass(c)     == call' = [call EXCEPT ![c].todo = Tail(@)]

(* generateToken and generateCode: the newest value takes the key. *)
SaveToken(c) ==
  /\ At(c, "set")
  /\ stored' = [stored EXCEPT ![Object(c)][call[c].account] = c]
  /\ Pass(c)
  /\ UNCHANGED <<rows, history>>

(* deleteToken: whichever is there. *)
DeleteToken(c) ==
  /\ At(c, "del")
  /\ stored' = [stored EXCEPT ![Object(c)][call[c].account] = None]
  /\ Pass(c)
  /\ UNCHANGED <<rows, history>>

(* compareCode: the caller may have the code that is there; with another the   *)
(* handler answers and is done.                                              *)
CompareCode(c) ==
  /\ At(c, "check")
  /\ \/ stored[Object(c)][call[c].account] # None /\ Pass(c)
     \/ call' = [call EXCEPT ![c].state = "refused"]
  /\ UNCHANGED <<rows, stored, history>>

(* comparePassword: the caller knows the password that is there. *)
ComparePassword(c) ==
  /\ At(c, "compare")
  /\ call' = [call EXCEPT ![c].todo = Tail(@), ![c].seen = password[call[c].account]]
  /\ UNCHANGED <<rows, stored, history>>

UpdatePassword(c) ==
  /\ At(c, "password")
  /\ password' = [password EXCEPT ![call[c].account] = c]
  /\ Pass(c)
  /\ UNCHANGED <<activated, required, stored, history>>

With(set, a, value) == IF value THEN set \cup {a} ELSE set \ {a}

(* entity.update: nothing is written when the value is the one that was read.  *)
UpdateStatus(c) ==
  /\ At(c, "status")
  /\ activated' = IF call[c].value = call[c].was THEN activated
                  ELSE With(activated, call[c].account, call[c].value)
  /\ Pass(c)
  /\ UNCHANGED <<required, password, stored, history>>

(* EntityService.updateEntity. *)
UpdateEntity(c) ==
  /\ At(c, "require")
  /\ required' = IF call[c].value = call[c].was THEN required
                 ELSE With(required, Object(c), call[c].value)
  /\ Pass(c)
  /\ UNCHANGED <<activated, password, stored, history>>

(* Slip: the team members are left out. *)
VisitNobody(c) ==
  /\ At(c, "members")
  /\ Pass(c)
  /\ UNCHANGED <<rows, stored, history>>

(* The team members, one after the other: each row is read, then written. *)
VisitMember(c) ==
  /\ At(c, "members")
  /\ \/ \E m \in call[c].left :
          call' = [call EXCEPT ![c].todo = <<Require(m)>> \o @,
                               ![c].was = m \in required, ![c].left = @ \ {m}]
     \/ call[c].left = {} /\ Pass(c)
  /\ UNCHANGED <<rows, stored, history>>

(* What the answered calls on an account have come to. *)
Record(c) ==
  LET account == call[c].account
  IN /\ session' = CASE call[c].op \in {"login", "completeLogin"} -> [session EXCEPT ![account] = c]
                     [] call[c].op \in {"logout", "activatePartner", "deactivatePartner"}
                          -> [session EXCEPT ![account] = None]
                     [] OTHER -> session
     /\ asked' = IF call[c].op # "updateLoginOTPRequirement" THEN asked
                 ELSE IF call[c].value THEN asked \cup Touched(call[c])
                                       ELSE asked \ Touched(call[c])

Answer(c) ==
  /\ Working(c) /\ call[c].todo = <<>>
  /\ call' = [call EXCEPT ![c].state = "answered"]
  /\ Record(c)
  /\ UNCHANGED <<rows, stored, crossed>>

ReadNoRole(c) ==
  /\ At(c, "role")
  /\ call' = [call EXCEPT ![c].state = "thrown"]
  /\ Record(c)
  /\ UNCHANGED <<rows, stored, crossed>>

-----------------------------------------------------------------------------

(* Any await may throw, those of the mails and of the answer among them. *)
Throw(c) ==
  /\ Working(c)
  /\ call' = [call EXCEPT ![c].state = "thrown"]
  /\ crossed' = crossed \cup {<<Topics[call[c].op], a>> : a \in Touched(call[c])}
  /\ UNCHANGED <<rows, stored, session, asked>>

(* setex, for ten minutes at least: no key goes while its call is at work.    *)
(* Of two keys that are set together, which goes first.                       *)
Sooner == [refresh_token |-> "access_token", otp_token |-> "otp_code",
           passwordreset_code |-> "passwordreset_token"]

Expire(key, a) ==
  /\ stored[key][a] # None /\ ~Working(stored[key][a])
  /\ key \in DOMAIN Sooner => stored[Sooner[key]][a] # stored[key][a]
  /\ stored' = [stored EXCEPT ![key][a] = None]
  /\ UNCHANGED <<rows, call, history>>

Init ==
  /\ activated = Accounts
  /\ required \in SUBSET Accounts
  /\ password = [a \in Accounts |-> None]
  /\ stored = [k \in Keys |-> [a \in Accounts |-> None]]
  /\ call = [c \in Calls |-> Idle]
  /\ session = [a \in Accounts |-> None]
  /\ asked = required
  /\ crossed = {}

Start(c) ==
  \/ Login(c) \/ Act(c) \/ ForgotPassword(c) \/ ResetPassword(c)
  \/ SetStatus(c) \/ UpdateRequirement(c)

Step(c) ==
  \/ SaveToken(c) \/ DeleteToken(c) \/ CompareCode(c) \/ ComparePassword(c)
  \/ UpdatePassword(c) \/ UpdateStatus(c) \/ UpdateEntity(c) \/ VisitMember(c)
  \/ Answer(c) \/ ReadNoRole(c) \/ Throw(c)

Next ==
  \/ \E c \in Calls : Start(c) \/ Step(c)
  \/ \E key \in Keys, a \in Accounts : Expire(key, a)

Spec == Init /\ [][Next]_vars

-----------------------------------------------------------------------------
(* Safety *)

(* Where the calls on an account's sessions came one after the other, Redis    *)
(* holds the session they ended with, its two tokens together, or what has     *)
(* not expired of it, whichever way the account logged in, and out.  And where *)
(* updates of the login requirement did, an account logs in as its partner     *)
(* last asked, or as it asked since: the rows of a team are written one at a   *)
(* time, each only if it was read different.                                 *)
AsAsked ==
  \A a \in Accounts :
    /\ <<"session", a>> \notin crossed /\ ~InFlight("session", a) =>
         /\ stored["access_token"][a] \in {None, session[a]}
         /\ stored["refresh_token"][a] \in {None, session[a]}
         /\ stored["access_token"][a] # None =>
              stored["refresh_token"][a] = stored["access_token"][a]
    /\ <<"requirement", a>> \notin crossed /\ ~InFlight("requirement", a) =>
         (a \in required <=> a \in asked)

(* An account that is deactivated has no session, unless a login was under    *)
(* way when it was: basicAuth never looks at the status again.               *)
DeactivatedIsOut ==
  \A a \in Accounts \ activated :
    <<"session", a>> \notin crossed /\ ~InFlight("session", a) =>
      stored["access_token"][a] = None

(* The token of a request, or a password, makes way for one new password, if  *)
(* no two changes overlapped and none was cut off.                           *)
ChangesOnce ==
  \A c, d \in Calls :
    /\ c # d /\ call[c].state = "answered" /\ call[d].state = "answered"
    /\ Topics[call[c].op] = "password" /\ call[c].op = call[d].op
    /\ call[c].account = call[d].account /\ call[c].seen = call[d].seen
    => <<"password", call[c].account>> \in crossed
=============================================================================
