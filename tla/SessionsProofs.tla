----------------------------- MODULE SessionsProofs -----------------------------
(***************************************************************************)
(* What holds of Sessions for every set of team members and every number    *)
(* of concurrent calls.                                                     *)
(*                                                                         *)
(* ScriptInv says what is left of a handler's script and what it has read;  *)
(* AloneInv that two calls of one topic on one account have crossed.  Where *)
(* nothing has crossed, SessionInv follows the two tokens of a session      *)
(* through the scripts that write them, DeactivatedInv who may still be     *)
(* logging in, PasswordInv which tokens and passwords are used up, and      *)
(* RequirementInv which rows of a team have been written.                   *)
(***************************************************************************)
EXTENDS Sessions, SequenceTheorems, TLAPS

USE DEF rows, history

-----------------------------------------------------------------------------
(* The invariants *)

(* What is left of a script: some end of it. *)
SessionScript(h) ==
  /\ h.op = "login" => h.todo \in {login, <<Set("access_token")>>, <<>>}
  /\ h.op = "loginByCode" => h.todo \in {loginByCode, <<Set("otp_token")>>, <<>>}
  /\ h.op = "completeLogin" =>
       h.todo \in {completeLogin, <<Set("access_token"), Set("refresh_token")>>,
                   <<Set("refresh_token")>>, <<>>}
  /\ h.op = "logout" => h.todo \in {logout, <<Del("refresh_token")>>, <<>>}
  /\ h.op \in {"activatePartner", "deactivatePartner"} =>
       /\ h.todo \in {setStatus, Clear, <<Del("refresh_token"), Del("passwordreset_code")>>,
                      <<Del("passwordreset_code")>>, <<>>}
       /\ h.value <=> h.op = "activatePartner"

PasswordScript(h) ==
  /\ h.op = "forgotPassword" =>
       h.todo \in {forgotPassword, <<Set("passwordreset_code")>>, <<>>}
  /\ h.op = "resetPassword" =>
       /\ h.todo \in {resetPassword, <<Do("password"), Del("passwordreset_token")>>,
                      <<Del("passwordreset_token")>>, <<>>}
       /\ h.seen \in Calls
  /\ h.op = "changePassword" => h.todo \in {changePassword, <<Do("password")>>, <<>>}

(* The team members and the own row that a handler has not written yet. *)
Ahead(h) ==
  h.left \cup (IF h.todo # <<>> /\ Head(h.todo).do = "require" THEN {Head(h.todo).on} ELSE {})

RequirementScript(h) ==
  h.op = "updateLoginOTPRequirement" =>
    \/ h.left = {} /\ h.todo = <<>>
    \/ h.left \subseteq Touched(h) /\ h.todo = <<Do("members")>>
    \/ \E a \in Touched(h) \ h.left :
         h.left \subseteq Touched(h) /\ h.todo = <<Require(a), Do("members")>>
    \/ h.left = {} /\ h.account \in Members
         /\ h.todo \in {<<Require(h.account), Do("role")>>, <<Do("role")>>}

Scripted(h) ==
  h.op \in DOMAIN Topics /\ SessionScript(h) /\ PasswordScript(h) /\ RequirementScript(h)

(* A call that has begun has an account, and one that is answered is done. *)
ScriptInv ==
  \A c \in Calls :
    /\ call[c].state # "new" =>
         /\ call[c].account \in Accounts /\ Scripted(call[c])
         /\ call[c].left # {} => call[c].account = Partner
         /\ call[c].op = "resetPassword" => call[call[c].seen].state = "answered"
    /\ call[c].state = "answered" => call[c].todo = <<>>

TypeInv == TypeOK /\ ScriptInv

(* Call c is at work in the handler of a topic, on account a. *)
On(c, topic, a) == Working(c) /\ Topics[call[c].op] = topic /\ a \in Touched(call[c])

AloneInv ==
  \A topic \in {"session", "password", "requirement"}, a \in Accounts :
    <<topic, a>> \notin crossed =>
      \A c, d \in Calls : On(c, topic, a) /\ On(d, topic, a) => c = d

(* The session in Redis, and what has expired of it. *)
Rest(a) ==
  /\ stored["access_token"][a] \in {None, session[a]}
  /\ stored["refresh_token"][a] \in {None, session[a]}
  /\ stored["access_token"][a] # None => stored["refresh_token"][a] = stored["access_token"][a]

(* How far a handler is with the tokens of its account. *)
Begun(h) == /\ h.op = "login" => h.todo = login
            /\ h.op = "completeLogin" => h.todo \in {completeLogin, <<Set("access_token"), Set("refresh_token")>>}
            /\ h.op = "logout" => h.todo = logout
            /\ h.op \in {"activatePartner", "deactivatePartner"} => h.todo \in {setStatus, Clear}

In(h)  == h.op \in {"login", "completeLogin"} /\ h.todo = <<>>
Cut(h) == \/ h.op = "logout" /\ h.todo = <<Del("refresh_token")>>
          \/ /\ h.op \in {"activatePartner", "deactivatePartner"}
             /\ h.todo = <<Del("refresh_token"), Del("passwordreset_code")>>
Out(h) == \/ h.op = "logout" /\ h.todo = <<>>
          \/ /\ h.op \in {"activatePartner", "deactivatePartner"}
             /\ h.todo \in {<<Del("passwordreset_code")>>, <<>>}

TokensAt(c, a) ==
  LET h == call[c]
      access  == stored["access_token"][a]
      refresh == stored["refresh_token"][a]
  IN /\ Begun(h) => Rest(a)
     /\ h.todo = <<Set("access_token")>> => access \in {None, session[a]} /\ refresh = c
     /\ h.todo = <<Set("refresh_token")>> => access = c
     /\ In(h)  => access = c /\ refresh = c
     /\ Cut(h) => access = None /\ refresh \in {None, session[a]}
     /\ Out(h) => access = None /\ refresh = None

SessionInv ==
  \A a \in Accounts : <<"session", a>> \notin crossed =>
    /\ ~InFlight("session", a) => Rest(a)
    /\ \A c \in Calls : On(c, "session", a) => TokensAt(c, a)

(* Nobody is logging in to an account that is, or is being, deactivated. *)
Barred(a) ==
  /\ a \notin activated => stored["otp_token"][a] = None
  /\ a \notin activated /\ ~InFlight("session", a) => stored["access_token"][a] = None
  /\ \A c \in Calls : On(c, "session", a) =>
       /\ call[c].op = "deactivatePartner" => stored["otp_token"][a] = None
       /\ call[c].op \in {"login", "loginByCode", "completeLogin"} => a \in activated
       /\ call[c].op = "logout" /\ a \notin activated => stored["access_token"][a] = None

DeactivatedInv == \A a \in Accounts : <<"session", a>> \notin crossed => Barred(a)

(* A call that has written its password, and one that is past its comparison. *)
Written(h) ==
  /\ h.op \in {"resetPassword", "changePassword"} /\ h.state # "new"
  /\ h.todo \in {<<Del("passwordreset_token")>>, <<>>}
Compared(h) == h.op = "changePassword" /\ h.todo # changePassword

Live(c, a) == call[c].state \in {"working", "answered"} /\ call[c].account = a

ResetAt(c, a) ==
  call[c].op = "resetPassword" /\ call[c].todo = <<>> =>
    stored["passwordreset_token"][a] # call[c].seen

ChangeAt(c, a) ==
  Compared(call[c]) =>
    /\ call[c].seen # None => Written(call[call[c].seen])
    /\ call[c].todo = <<>> => password[a] # call[c].seen
    /\ call[c].todo # <<>> => password[a] = call[c].seen

(* The token or the password that a handler uses is no other handler's. *)
Uses(h) == h.op = "resetPassword" \/ Compared(h)

PasswordKept(a) ==
  /\ password[a] # None => Written(call[password[a]])
  /\ \A c \in Calls : Live(c, a) => ResetAt(c, a) /\ ChangeAt(c, a)
  /\ \A c, d \in Calls :
       /\ c # d /\ Live(c, a) /\ Live(d, a)
       /\ Uses(call[c]) /\ Uses(call[d]) /\ call[c].op = call[d].op
       => call[c].seen # call[d].seen

PasswordInv ==
  \A a \in Accounts : <<"password", a>> \notin crossed => PasswordKept(a)

(* How far a handler is with the rows of its accounts. *)
RowAt(c, a) ==
  /\ a \in Ahead(call[c]) => (a \in required <=> a \in asked)
  /\ a \notin Ahead(call[c]) => (a \in required <=> call[c].value)
  /\ call[c].todo # <<>> /\ Head(call[c].todo) = Require(a) =>
       (call[c].was <=> a \in required)

RequirementInv ==
  \A a \in Accounts : <<"requirement", a>> \notin crossed =>
    /\ ~InFlight("requirement", a) => (a \in required <=> a \in asked)
    /\ \A c \in Calls : On(c, "requirement", a) => RowAt(c, a)

-----------------------------------------------------------------------------
(* The scripts *)

LEMMA Consed ==
  ASSUME NEW S, NEW s \in Seq(S), NEW x \in S
  PROVE  /\ <<x>> \o s \in Seq(S) /\ <<x>> \o s # <<>>
         /\ Head(<<x>> \o s) = x /\ Tail(<<x>> \o s) = s
<1>1. <<x>> \in Seq(S)
  OBVIOUS
<1>2. /\ <<x>> \o s \in Seq(S) /\ Len(<<x>> \o s) = 1 + Len(s)
      /\ \A i \in 1..(1 + Len(s)) : (<<x>> \o s)[i] = IF i <= 1 THEN x ELSE s[i - 1]
  BY <1>1, ConcatProperties
<1>3. <<x>> \o s # <<>> /\ Head(<<x>> \o s) = x
  BY <1>1, <1>2
<1>4. /\ Tail(<<x>> \o s) \in Seq(S) /\ Len(Tail(<<x>> \o s)) = Len(s)
      /\ \A i \in 1..Len(s) : Tail(<<x>> \o s)[i] = s[i]
  BY <1>1, <1>2, <1>3, HeadTailProperties
<1> QED
  BY <1>2, <1>3, <1>4, SeqEqual

LEMMA Paired ==
  ASSUME NEW S, NEW x \in S, NEW y \in S PROVE <<x>> \o <<y>> = <<x, y>>
<1>1. <<x>> \in Seq(S) /\ <<y>> \in Seq(S) /\ <<x, y>> \in Seq(S)
  OBVIOUS
<1>2. /\ <<x>> \o <<y>> \in Seq(S) /\ Len(<<x>> \o <<y>>) = 2
      /\ \A i \in 1..2 : (<<x>> \o <<y>>)[i] = IF i <= 1 THEN x ELSE <<y>>[i - 1]
  BY <1>1, ConcatProperties
<1>3. Len(<<x, y>>) = 2 /\ \A i \in 1..2 : (<<x>> \o <<y>>)[i] = <<x, y>>[i]
  BY <1>2
<1> QED
  BY <1>1, <1>2, <1>3, SeqEqual

LEMMA StepsIn ==
  /\ \A key \in Keys : {Set(key), Del(key), Check(key)} \subseteq Steps
  /\ \A a \in Accounts : Require(a) \in Steps
  /\ {Do("status"), Do("compare"), Do("password"), Do("members"), Do("role")} \subseteq Steps
BY DEF Steps, Set, Del, Check, Require, Do

LEMMA ScriptsIn ==
  {login, loginByCode, completeLogin, logout, setStatus, forgotPassword, resetPassword,
   changePassword} \subseteq Seq(Steps)
<1>1. Clear \in Seq(Steps)
  BY StepsIn DEF Clear, Keys
<1>2. setStatus \in Seq(Steps)
  BY <1>1, StepsIn, Consed DEF setStatus
<1> QED
  BY <1>2, StepsIn
  DEF login, loginByCode, completeLogin, logout, forgotPassword, resetPassword, changePassword, Keys

LEMMA StepFields ==
  /\ \A key : /\ Set(key).do = "set" /\ Set(key).on = key
               /\ Del(key).do = "del" /\ Del(key).on = key
               /\ Check(key).do = "check" /\ Check(key).on = key
  /\ \A step : Do(step).do = step /\ Do(step).on = None
  /\ \A a : Require(a).do = "require" /\ Require(a).on = a
BY DEF Set, Del, Check, Do, Require

LEMMA Tuples ==
  /\ \A x : <<x>> # <<>> /\ Head(<<x>>) = x /\ Tail(<<x>>) = <<>>
  /\ \A x, y : <<x, y>> # <<>> /\ Head(<<x, y>>) = x /\ Tail(<<x, y>>) = <<y>>
  /\ \A x, y, z : <<x, y, z>> # <<>> /\ Head(<<x, y, z>>) = x /\ Tail(<<x, y, z>>) = <<y, z>>
OBVIOUS

(* Each script, step by step. *)
LEMMA Ends ==
  /\ login # <<>> /\ Head(login) = Set("refresh_token")
  /\ Tail(login) = <<Set("access_token")>>
  /\ loginByCode # <<>> /\ Head(loginByCode) = Set("otp_code")
  /\ Tail(loginByCode) = <<Set("otp_token")>>
  /\ completeLogin # <<>> /\ Head(completeLogin) = Check("otp_code")
  /\ Tail(completeLogin) = <<Set("access_token"), Set("refresh_token")>>
  /\ logout # <<>> /\ Head(logout) = Del("access_token")
  /\ Tail(logout) = <<Del("refresh_token")>>
  /\ setStatus # <<>> /\ Head(setStatus) = Do("status") /\ Tail(setStatus) = Clear
  /\ Clear # <<>> /\ Head(Clear) = Del("access_token")
  /\ Tail(Clear) = <<Del("refresh_token"), Del("passwordreset_code")>>
  /\ forgotPassword # <<>> /\ Head(forgotPassword) = Set("passwordreset_token")
  /\ Tail(forgotPassword) = <<Set("passwordreset_code")>>
  /\ resetPassword # <<>> /\ Head(resetPassword) = Check("passwordreset_code")
  /\ Tail(resetPassword) = <<Do("password"), Del("passwordreset_token")>>
  /\ changePassword # <<>> /\ Head(changePassword) = Do("compare")
  /\ Tail(changePassword) = <<Do("password")>>
<1>1. Clear \in Seq(Steps) /\ Do("status") \in Steps
  BY StepsIn DEF Clear, Keys
<1>2. setStatus # <<>> /\ Head(setStatus) = Do("status") /\ Tail(setStatus) = Clear
  BY <1>1, Consed DEF setStatus
<1> QED
  BY <1>2, Tuples DEF login, loginByCode, completeLogin, logout, Clear, forgotPassword,
     resetPassword, changePassword

LEMMA TailIn == ASSUME NEW s \in Seq(Steps), s # <<>> PROVE Tail(s) \in Seq(Steps)
BY HeadTailProperties

(* The step a handler is at, and what it leaves to do. *)
AtStep(h, todo, step, rest) == h.todo = todo /\ Head(todo) = step /\ Tail(todo) = rest

LEMMA SessionAt ==
  ASSUME NEW h, SessionScript(h), h.todo # <<>>
  PROVE  /\ h.op = "login" =>
              \/ AtStep(h, login, Set("refresh_token"), <<Set("access_token")>>)
              \/ AtStep(h, <<Set("access_token")>>, Set("access_token"), <<>>)
         /\ h.op = "loginByCode" =>
              \/ AtStep(h, loginByCode, Set("otp_code"), <<Set("otp_token")>>)
              \/ AtStep(h, <<Set("otp_token")>>, Set("otp_token"), <<>>)
         /\ h.op = "completeLogin" =>
              \/ AtStep(h, completeLogin, Check("otp_code"),
                     <<Set("access_token"), Set("refresh_token")>>)
              \/ AtStep(h, <<Set("access_token"), Set("refresh_token")>>, Set("access_token"),
                     <<Set("refresh_token")>>)
              \/ AtStep(h, <<Set("refresh_token")>>, Set("refresh_token"), <<>>)
         /\ h.op = "logout" =>
              \/ AtStep(h, logout, Del("access_token"), <<Del("refresh_token")>>)
              \/ AtStep(h, <<Del("refresh_token")>>, Del("refresh_token"), <<>>)
         /\ h.op \in {"activatePartner", "deactivatePartner"} =>
              \/ AtStep(h, setStatus, Do("status"), Clear)
              \/ AtStep(h, Clear, Del("access_token"),
                     <<Del("refresh_token"), Del("passwordreset_code")>>)
              \/ AtStep(h, <<Del("refresh_token"), Del("passwordreset_code")>>,
                     Del("refresh_token"), <<Del("passwordreset_code")>>)
              \/ AtStep(h, <<Del("passwordreset_code")>>, Del("passwordreset_code"), <<>>)
<1> USE DEF AtStep
<1>1. ASSUME h.op = "login"
      PROVE  \/ AtStep(h, login, Set("refresh_token"), <<Set("access_token")>>)
             \/ AtStep(h, <<Set("access_token")>>, Set("access_token"), <<>>)
  BY <1>1, Ends, Tuples DEF SessionScript
<1>2. ASSUME h.op = "loginByCode"
      PROVE  \/ AtStep(h, loginByCode, Set("otp_code"), <<Set("otp_token")>>)
             \/ AtStep(h, <<Set("otp_token")>>, Set("otp_token"), <<>>)
  BY <1>2, Ends, Tuples DEF SessionScript
<1>3. ASSUME h.op = "completeLogin"
      PROVE  \/ AtStep(h, completeLogin, Check("otp_code"),
                    <<Set("access_token"), Set("refresh_token")>>)
             \/ AtStep(h, <<Set("access_token"), Set("refresh_token")>>, Set("access_token"),
                    <<Set("refresh_token")>>)
             \/ AtStep(h, <<Set("refresh_token")>>, Set("refresh_token"), <<>>)
  BY <1>3, Ends, Tuples DEF SessionScript
<1>4. ASSUME h.op = "logout"
      PROVE  \/ AtStep(h, logout, Del("access_token"), <<Del("refresh_token")>>)
             \/ AtStep(h, <<Del("refresh_token")>>, Del("refresh_token"), <<>>)
  BY <1>4, Ends, Tuples DEF SessionScript
<1>5. ASSUME h.op \in {"activatePartner", "deactivatePartner"}
      PROVE  \/ AtStep(h, setStatus, Do("status"), Clear)
             \/ AtStep(h, Clear, Del("access_token"),
                    <<Del("refresh_token"), Del("passwordreset_code")>>)
             \/ AtStep(h, <<Del("refresh_token"), Del("passwordreset_code")>>,
                    Del("refresh_token"), <<Del("passwordreset_code")>>)
             \/ AtStep(h, <<Del("passwordreset_code")>>, Del("passwordreset_code"), <<>>)
  BY <1>5, Ends, Tuples DEF SessionScript
<1> HIDE DEF AtStep
<1> QED
  BY <1>1, <1>2, <1>3, <1>4, <1>5

LEMMA PasswordAt ==
  ASSUME NEW h, PasswordScript(h), h.todo # <<>>
  PROVE  /\ h.op = "forgotPassword" =>
              \/ AtStep(h, forgotPassword, Set("passwordreset_token"), <<Set("passwordreset_code")>>)
              \/ AtStep(h, <<Set("passwordreset_code")>>, Set("passwordreset_code"), <<>>)
         /\ h.op = "resetPassword" =>
              \/ AtStep(h, resetPassword, Check("passwordreset_code"),
                     <<Do("password"), Del("passwordreset_token")>>)
              \/ AtStep(h, <<Do("password"), Del("passwordreset_token")>>, Do("password"),
                     <<Del("passwordreset_token")>>)
              \/ AtStep(h, <<Del("passwordreset_token")>>, Del("passwordreset_token"), <<>>)
         /\ h.op = "changePassword" =>
              \/ AtStep(h, changePassword, Do("compare"), <<Do("password")>>)
              \/ AtStep(h, <<Do("password")>>, Do("password"), <<>>)
<1> USE DEF AtStep
<1>1. ASSUME h.op = "forgotPassword"
      PROVE  \/ AtStep(h, forgotPassword, Set("passwordreset_token"), <<Set("passwordreset_code")>>)
             \/ AtStep(h, <<Set("passwordreset_code")>>, Set("passwordreset_code"), <<>>)
  BY <1>1, Ends, Tuples DEF PasswordScript
<1>2. ASSUME h.op = "resetPassword"
      PROVE  \/ AtStep(h, resetPassword, Check("passwordreset_code"),
                    <<Do("password"), Del("passwordreset_token")>>)
             \/ AtStep(h, <<Do("password"), Del("passwordreset_token")>>, Do("password"),
                    <<Del("passwordreset_token")>>)
             \/ AtStep(h, <<Del("passwordreset_token")>>, Del("passwordreset_token"), <<>>)
  BY <1>2, Ends, Tuples DEF PasswordScript
<1>3. ASSUME h.op = "changePassword"
      PROVE  \/ AtStep(h, changePassword, Do("compare"), <<Do("password")>>)
             \/ AtStep(h, <<Do("password")>>, Do("password"), <<>>)
  BY <1>3, Ends, Tuples DEF PasswordScript
<1> HIDE DEF AtStep
<1> QED
  BY <1>1, <1>2, <1>3

LEMMA RequirementAt ==
  ASSUME NEW h, RequirementScript(h), h.op = "updateLoginOTPRequirement", h.todo # <<>>
  PROVE  \/ /\ h.left \subseteq Touched(h)
            /\ \/ AtStep(h, <<Do("members")>>, Do("members"), <<>>)
               \/ \E a \in Touched(h) \ h.left :
                    AtStep(h, <<Require(a), Do("members")>>, Require(a), <<Do("members")>>)
         \/ /\ h.left = {} /\ h.account \in Members
            /\ \/ AtStep(h, <<Require(h.account), Do("role")>>, Require(h.account), <<Do("role")>>)
               \/ AtStep(h, <<Do("role")>>, Do("role"), <<>>)
BY Tuples DEF RequirementScript, AtStep

LEMMA Operations ==
  DOMAIN Topics = {"login", "loginByCode", "completeLogin", "logout", "activatePartner",
                   "deactivatePartner", "resetPassword", "changePassword", "forgotPassword",
                   "updateLoginOTPRequirement"}
BY DEF Topics

LEMMA SetAt ==
  ASSUME NEW h, Scripted(h), h.todo # <<>>, Head(h.todo).do = "set"
  PROVE  \/ h.op = "login" /\ AtStep(h, login, Set("refresh_token"), <<Set("access_token")>>)
         \/ h.op = "login" /\ AtStep(h, <<Set("access_token")>>, Set("access_token"), <<>>)
         \/ h.op = "completeLogin" /\ AtStep(h, <<Set("access_token"), Set("refresh_token")>>,
                                          Set("access_token"), <<Set("refresh_token")>>)
         \/ h.op = "completeLogin" /\ AtStep(h, <<Set("refresh_token")>>, Set("refresh_token"), <<>>)
         \/ h.op = "loginByCode" /\ AtStep(h, loginByCode, Set("otp_code"), <<Set("otp_token")>>)
         \/ h.op = "loginByCode" /\ AtStep(h, <<Set("otp_token")>>, Set("otp_token"), <<>>)
         \/ h.op = "forgotPassword" /\ AtStep(h, forgotPassword, Set("passwordreset_token"),
                                           <<Set("passwordreset_code")>>)
         \/ h.op = "forgotPassword" /\ AtStep(h, <<Set("passwordreset_code")>>,
                                           Set("passwordreset_code"), <<>>)
BY Operations, SessionAt, PasswordAt, RequirementAt, StepFields DEF Scripted, AtStep

LEMMA DelAt ==
  ASSUME NEW h, Scripted(h), h.todo # <<>>, Head(h.todo).do = "del"
  PROVE  \/ h.op = "logout" /\ AtStep(h, logout, Del("access_token"), <<Del("refresh_token")>>)
         \/ h.op = "logout" /\ AtStep(h, <<Del("refresh_token")>>, Del("refresh_token"), <<>>)
         \/ /\ h.op \in {"activatePartner", "deactivatePartner"}
            /\ \/ AtStep(h, Clear, Del("access_token"),
                      <<Del("refresh_token"), Del("passwordreset_code")>>)
               \/ AtStep(h, <<Del("refresh_token"), Del("passwordreset_code")>>,
                      Del("refresh_token"), <<Del("passwordreset_code")>>)
               \/ AtStep(h, <<Del("passwordreset_code")>>, Del("passwordreset_code"), <<>>)
         \/ h.op = "resetPassword" /\ AtStep(h, <<Del("passwordreset_token")>>,
                                          Del("passwordreset_token"), <<>>)
BY Operations, SessionAt, PasswordAt, RequirementAt, StepFields DEF Scripted, AtStep

LEMMA CheckAt ==
  ASSUME NEW h, Scripted(h), h.todo # <<>>, Head(h.todo).do = "check"
  PROVE  \/ h.op = "completeLogin" /\ AtStep(h, completeLogin, Check("otp_code"),
                                          <<Set("access_token"), Set("refresh_token")>>)
         \/ h.op = "resetPassword" /\ AtStep(h, resetPassword, Check("passwordreset_code"),
                                          <<Do("password"), Del("passwordreset_token")>>)
BY Operations, SessionAt, PasswordAt, RequirementAt, StepFields DEF Scripted, AtStep

LEMMA DoAt ==
  ASSUME NEW h, Scripted(h), h.todo # <<>>
  PROVE  /\ Head(h.todo).do = "compare" =>
              h.op = "changePassword" /\ AtStep(h, changePassword, Do("compare"), <<Do("password")>>)
         /\ Head(h.todo).do = "password" =>
              \/ h.op = "changePassword" /\ AtStep(h, <<Do("password")>>, Do("password"), <<>>)
              \/ h.op = "resetPassword" /\ AtStep(h, <<Do("password"), Del("passwordreset_token")>>,
                                               Do("password"), <<Del("passwordreset_token")>>)
         /\ Head(h.todo).do = "status" =>
              /\ h.op \in {"activatePartner", "deactivatePartner"}
              /\ AtStep(h, setStatus, Do("status"), Clear)
BY Operations, SessionAt, PasswordAt, RequirementAt, StepFields DEF Scripted, AtStep

LEMMA RequireAt ==
  ASSUME NEW h, Scripted(h), h.todo # <<>>, Head(h.todo).do \in {"require", "members", "role"}
  PROVE  /\ h.op = "updateLoginOTPRequirement"
         /\ Head(h.todo).do = "members" =>
              h.left \subseteq Touched(h) /\ AtStep(h, <<Do("members")>>, Do("members"), <<>>)
         /\ Head(h.todo).do = "role" =>
              h.left = {} /\ h.account \in Members /\ AtStep(h, <<Do("role")>>, Do("role"), <<>>)
         /\ Head(h.todo).do = "require" =>
              \/ h.left \subseteq Touched(h) /\ \E a \in Touched(h) \ h.left :
                   AtStep(h, <<Require(a), Do("members")>>, Require(a), <<Do("members")>>)
              \/ /\ h.left = {} /\ h.account \in Members
                 /\ AtStep(h, <<Require(h.account), Do("role")>>, Require(h.account), <<Do("role")>>)
<1>1. h.op = "updateLoginOTPRequirement"
  BY Operations, SessionAt, PasswordAt, StepFields DEF Scripted, AtStep
<1> QED
  BY <1>1, RequirementAt, StepFields DEF Scripted, AtStep

-----------------------------------------------------------------------------
(* Calls *)

LEMMA TopicsOf ==
  /\ \A op \in DOMAIN Topics : Topics[op] \in {"session", "password", "request", "requirement"}
  /\ \A op \in DOMAIN Topics :
       /\ Topics[op] = "session" <=>
            op \in {"login", "loginByCode", "completeLogin", "logout", "activatePartner",
                    "deactivatePartner"}
       /\ Topics[op] = "password" <=> op \in {"resetPassword", "changePassword"}
       /\ Topics[op] = "requirement" <=> op = "updateLoginOTPRequirement"
BY DEF Topics

LEMMA TouchedAccounts ==
  ASSUME NEW h, h.account \in Accounts
  PROVE  /\ Touched(h) \subseteq Accounts /\ h.account \in Touched(h)
         /\ h.op # "updateLoginOTPRequirement" => Touched(h) = {h.account}
BY DEF Touched, Accounts

(* What a handler is when it begins. *)
Started(h) ==
  /\ h \in CallRecords /\ h.state = "working" /\ h.account \in Accounts /\ Scripted(h)
  /\ h.left # {} => h.account = Partner
  /\ h.op \in {"login", "loginByCode"} => h.account \in activated
  /\ h.op = "login" => h.todo = login
  /\ h.op = "completeLogin" =>
       h.todo = completeLogin /\ stored["otp_token"][h.account] # None
  /\ h.op = "logout" => h.todo = logout /\ stored["access_token"][h.account] # None
  /\ h.op \in {"activatePartner", "deactivatePartner"} => h.todo = setStatus
  /\ h.op = "resetPassword" =>
       /\ h.todo = resetPassword /\ h.seen = stored["passwordreset_token"][h.account]
       /\ call[h.seen].state = "answered"
  /\ h.op = "changePassword" => h.todo = changePassword
  /\ h.op = "updateLoginOTPRequirement" =>
       /\ h.todo # <<>> /\ Head(h.todo) = Require(h.account)
       /\ h.was <=> h.account \in required
       /\ h.left = Touched(h) \ {h.account}

LEMMA PlainRecord ==
  ASSUME NEW op \in DOMAIN Topics, NEW a \in Accounts, NEW todo \in Seq(Steps),
         NEW seen \in Calls \cup {None}, NEW was \in BOOLEAN, NEW value \in BOOLEAN,
         NEW left \in SUBSET Members
  PROVE  Handler(op, a, todo, seen, was, value, left) \in CallRecords
BY DEF Handler, CallRecords

LEMMA StartStarts ==
  ASSUME TypeInv, NEW c \in Calls, Start(c)
  PROVE  \E h : Started(h) /\ Begin(c, h)
<1>t. stored \in [Keys -> [Accounts -> Calls \cup {None}]]
  BY DEF TypeInv, TypeOK
<1>k. {"access_token", "refresh_token", "otp_token", "passwordreset_token"} \subseteq Keys
  BY DEF Keys
(* A handler of the first operations needs only what is said of it. *)
<1>p. ASSUME NEW op \in DOMAIN Topics \ {"activatePartner", "deactivatePartner", "resetPassword",
                                         "updateLoginOTPRequirement"},
             NEW a \in Accounts, NEW todo \in Seq(Steps),
             op = "login" => todo = login /\ a \in activated,
             op = "loginByCode" => todo = loginByCode /\ a \in activated,
             op = "completeLogin" => todo = completeLogin /\ stored["otp_token"][a] # None,
             op = "logout" => todo = logout /\ stored["access_token"][a] # None,
             op = "changePassword" => todo = changePassword,
             op = "forgotPassword" => todo = forgotPassword
      PROVE  Started(Plain(op, a, todo))
  <2> DEFINE h == Plain(op, a, todo)
  <2>1. /\ h \in CallRecords /\ h.state = "working" /\ h.op = op /\ h.account = a
        /\ h.todo = todo /\ h.left = {}
    <3>1. h \in CallRecords
      BY PlainRecord DEF Plain
    <3> QED
      BY <3>1 DEF Plain, Handler
  <2> HIDE DEF h
  <2>2. Scripted(h)
    BY <1>p, <2>1 DEF Scripted, SessionScript, PasswordScript, RequirementScript
  <2>3. Started(h)
    BY <1>p, <2>1, <2>2 DEF Started
  <2> QED
    BY <2>3 DEF h
<1>1. CASE Login(c)
  <2>1. activated \subseteq Accounts
    BY DEF TypeInv, TypeOK
  <2> QED
    BY <1>1, <1>p, <2>1, ScriptsIn, Operations DEF Login
<1>2. CASE Act(c)
  BY <1>2, <1>p, ScriptsIn, Operations DEF Act, Authenticated
<1>3. CASE ForgotPassword(c)
  BY <1>3, <1>p, ScriptsIn, Operations DEF ForgotPassword
<1>4. CASE ResetPassword(c)
  <2>1. PICK a \in Accounts :
          /\ Authenticated("passwordreset_token", a)
          /\ Begin(c, Handler("resetPassword", a, resetPassword,
                              stored["passwordreset_token"][a], FALSE, FALSE, {}))
    BY <1>4 DEF ResetPassword
  <2> DEFINE h == Handler("resetPassword", a, resetPassword,
                          stored["passwordreset_token"][a], FALSE, FALSE, {})
  <2>2. stored["passwordreset_token"][a] \in Calls
    BY <2>1, <1>t, <1>k DEF Authenticated
  <2>3. /\ h \in CallRecords /\ h.state = "working" /\ h.op = "resetPassword" /\ h.account = a
        /\ h.todo = resetPassword /\ h.seen = stored["passwordreset_token"][a] /\ h.left = {}
    <3>1. h \in CallRecords
      BY <2>2, PlainRecord, ScriptsIn, Operations
    <3> QED
      BY <3>1 DEF Handler
  <2> HIDE DEF h
  <2>4. Scripted(h)
    BY <2>1, <2>2, <2>3, Operations
    DEF Scripted, SessionScript, PasswordScript, RequirementScript
  <2>5. Started(h)
    BY <2>1, <2>3, <2>4 DEF Started, Authenticated
  <2> QED
    BY <2>1, <2>5 DEF h
<1>5. CASE SetStatus(c)
  <2>1. PICK a \in Accounts, value \in BOOLEAN :
          Begin(c, Handler(IF value THEN "activatePartner" ELSE "deactivatePartner",
                           a, setStatus, None, a \in activated, value, {}))
    BY <1>5 DEF SetStatus
  <2> DEFINE op == IF value THEN "activatePartner" ELSE "deactivatePartner"
             was == a \in activated
             h == Handler(op, a, setStatus, None, was, value, {})
  <2>2. op \in {"activatePartner", "deactivatePartner"} /\ (value <=> op = "activatePartner")
        /\ was \in BOOLEAN
    OBVIOUS
  <2> HIDE DEF op, was
  <2>3. /\ h \in CallRecords /\ h.state = "working" /\ h.op = op /\ h.account = a
        /\ h.todo = setStatus /\ h.value = value /\ h.left = {}
    <3>1. h \in CallRecords
      BY <2>2, PlainRecord, ScriptsIn, Operations
    <3> QED
      BY <3>1 DEF Handler
  <2> HIDE DEF h
  <2>4. Scripted(h)
    BY <2>2, <2>3, Operations DEF Scripted, SessionScript, PasswordScript, RequirementScript
  <2>5. Started(h)
    BY <2>2, <2>3, <2>4 DEF Started
  <2> QED
    BY <2>1, <2>5 DEF h, op, was
<1>6. CASE UpdateRequirement(c)
  <2>1. ASSUME NEW a \in Accounts, NEW value \in BOOLEAN, NEW todo, NEW left,
               NEW was \in BOOLEAN,
               \/ todo = <<Require(a), Do("members")>>
                  /\ left = IF a = Partner THEN Members ELSE {}
               \/ a \in Members /\ todo = <<Require(a), Do("role")>> /\ left = {},
               was <=> a \in required
        PROVE  Started(Handler("updateLoginOTPRequirement", a, todo, None, was, value, left))
    <3> DEFINE h == Handler("updateLoginOTPRequirement", a, todo, None, was, value, left)
    <3>1. todo \in Seq(Steps) /\ left \in SUBSET Members
      <4>1. {<<Require(a), Do("members")>>, <<Require(a), Do("role")>>} \subseteq Seq(Steps)
        BY StepsIn
      <4> QED
        BY <2>1, <4>1
    <3>2. /\ h \in CallRecords /\ h.state = "working" /\ h.op = "updateLoginOTPRequirement"
          /\ h.account = a /\ h.todo = todo /\ h.was = was /\ h.left = left
      <4>1. h \in CallRecords
        BY <3>1, PlainRecord, Operations
      <4> QED
        BY <4>1 DEF Handler
    <3> HIDE DEF h
    <3>3. left = Touched(h) \ {a} /\ a \in Touched(h)
      BY <2>1, <3>2, SessionsAssumption DEF Touched
    <3>4. RequirementScript(h)
      BY <2>1, <3>2, <3>3 DEF RequirementScript
    <3>5. Scripted(h)
      BY <3>2, <3>4, Operations DEF Scripted, SessionScript, PasswordScript
    <3>6. todo # <<>> /\ Head(todo) = Require(a)
      BY <2>1, Tuples
    <3>7. left # {} => a = Partner
      BY <2>1
    <3>8. h.was <=> a \in required
      BY <2>1, <3>2
    <3>9. Started(h)
      BY <3>2, <3>3, <3>5, <3>6, <3>7, <3>8 DEF Started
    <3> QED
      BY <3>9 DEF h
  <2>2. Members \subseteq Accounts
    BY DEF Accounts
  <2>3. PICK a \in Accounts, value \in BOOLEAN :
          \E todo, left :
            /\ \/ /\ todo = <<Require(a), Do("members")>>
                  /\ left = IF a = Partner THEN Members ELSE {}
               \/ a \in Members /\ todo = <<Require(a), Do("role")>> /\ left = {}
            /\ Begin(c, Handler("updateLoginOTPRequirement", a, todo, None, a \in required, value,
                                left))
    BY <1>6, <2>2 DEF UpdateRequirement
  <2> DEFINE was == a \in required
  <2>4. was \in BOOLEAN /\ (was <=> a \in required)
    OBVIOUS
  <2>5. PICK todo, left :
          /\ \/ /\ todo = <<Require(a), Do("members")>>
                /\ left = IF a = Partner THEN Members ELSE {}
             \/ a \in Members /\ todo = <<Require(a), Do("role")>> /\ left = {}
          /\ Begin(c, Handler("updateLoginOTPRequirement", a, todo, None, was, value, left))
    BY <2>3
  <2> HIDE DEF was
  <2> QED
    BY <2>1, <2>4, <2>5
<1> QED
  BY <1>1, <1>2, <1>3, <1>4, <1>5, <1>6 DEF Start

(* What a handler leaves to do is a script as well. *)
LEMMA ScriptPassed ==
  ASSUME NEW h, NEW g, Scripted(h), h.todo # <<>>, Head(h.todo).do # "role",
         Head(h.todo).do = "members" => h.left = {},
         g.op = h.op, g.account = h.account, g.todo = Tail(h.todo), g.value = h.value,
         g.left = h.left, h.op = "resetPassword" => g.seen = h.seen
  PROVE  Scripted(g)
<1>1. SessionScript(g)
  <2>1. ASSUME g.op = "login"
        PROVE  g.todo \in {login, <<Set("access_token")>>, <<>>}
    BY <2>1, SessionAt DEF Scripted, AtStep
  <2>2. ASSUME g.op = "loginByCode"
        PROVE  g.todo \in {loginByCode, <<Set("otp_token")>>, <<>>}
    BY <2>2, SessionAt DEF Scripted, AtStep
  <2>3. ASSUME g.op = "completeLogin"
        PROVE  g.todo \in {completeLogin, <<Set("access_token"), Set("refresh_token")>>,
                           <<Set("refresh_token")>>, <<>>}
    BY <2>3, SessionAt DEF Scripted, AtStep
  <2>4. ASSUME g.op = "logout"
        PROVE  g.todo \in {logout, <<Del("refresh_token")>>, <<>>}
    BY <2>4, SessionAt DEF Scripted, AtStep
  <2>5. ASSUME g.op \in {"activatePartner", "deactivatePartner"}
        PROVE  /\ g.todo \in {setStatus, Clear, <<Del("refresh_token"), Del("passwordreset_code")>>,
                              <<Del("passwordreset_code")>>, <<>>}
               /\ g.value <=> g.op = "activatePartner"
    <3>1. h.value <=> h.op = "activatePartner"
      BY <2>5 DEF Scripted, SessionScript
    <3> QED
      BY <2>5, <3>1, SessionAt DEF Scripted, AtStep
  <2> QED
    BY <2>1, <2>2, <2>3, <2>4, <2>5 DEF SessionScript
<1>2. PasswordScript(g)
  BY PasswordAt DEF Scripted, PasswordScript, AtStep
<1>3. RequirementScript(g)
  <2> SUFFICES ASSUME g.op = "updateLoginOTPRequirement" PROVE RequirementScript(g)
    BY DEF RequirementScript
  <2>1. Touched(g) = Touched(h)
    BY DEF Touched
  <2>2. h.left \subseteq Touched(h) \/ h.left = {}
    BY RequirementAt DEF Scripted
  <2>3. \/ h.left = {} /\ g.todo = <<>>
        \/ h.left \subseteq Touched(h) /\ g.todo = <<Do("members")>>
        \/ h.left = {} /\ h.account \in Members /\ g.todo = <<Do("role")>>
    <3>1. Do("role").do = "role" /\ Do("members").do = "members"
      BY StepFields
    <3>2. \/ /\ h.left \subseteq Touched(h)
             /\ \/ AtStep(h, <<Do("members")>>, Do("members"), <<>>)
                \/ \E a \in Touched(h) \ h.left :
                     AtStep(h, <<Require(a), Do("members")>>, Require(a), <<Do("members")>>)
          \/ /\ h.left = {} /\ h.account \in Members
             /\ AtStep(h, <<Require(h.account), Do("role")>>, Require(h.account), <<Do("role")>>)
      BY <3>1, RequirementAt DEF Scripted, AtStep
    <3> QED
      BY <3>1, <3>2 DEF AtStep
  <2> QED
    BY <2>1, <2>3 DEF RequirementScript
<1> QED
  BY <1>1, <1>2, <1>3 DEF Scripted

(* A step changes its own call only, and not what that call is about. *)
Frame(c) == \A d \in Calls \ {c} : call'[d] = call[d]

Moves(c, state) ==
  /\ Working(c) /\ Frame(c) /\ call' \in [Calls -> CallRecords]
  /\ call'[c].state = state /\ call'[c].op = call[c].op /\ call'[c].account = call[c].account
  /\ call'[c].value = call[c].value

Passes(c) ==
  /\ Moves(c, "working") /\ call'[c].todo = Tail(call[c].todo)
  /\ call'[c].seen = call[c].seen /\ call'[c].was = call[c].was /\ call'[c].left = call[c].left

Stops(c, state) ==
  /\ Moves(c, state) /\ call'[c].todo = call[c].todo
  /\ call'[c].seen = call[c].seen /\ call'[c].was = call[c].was /\ call'[c].left = call[c].left

LEMMA PassPasses ==
  ASSUME TypeOK, NEW c \in Calls, Working(c), call[c].todo # <<>>, Pass(c) PROVE Passes(c)
<1>1. call[c] \in CallRecords
  BY DEF TypeOK
<1>2. Tail(call[c].todo) \in Seq(Steps)
  BY <1>1, TailIn DEF CallRecords
<1>3. [call[c] EXCEPT !.todo = Tail(@)] \in CallRecords
  BY <1>1, <1>2 DEF CallRecords
<1> DEFINE g == [call[c] EXCEPT !.todo = Tail(@)]
<1>4. /\ g.state = call[c].state /\ g.op = call[c].op /\ g.account = call[c].account
      /\ g.value = call[c].value /\ g.todo = Tail(call[c].todo) /\ g.seen = call[c].seen
      /\ g.was = call[c].was /\ g.left = call[c].left
  BY <1>1 DEF CallRecords
<1>5. call' = [call EXCEPT ![c] = g]
  BY DEF Pass
<1> HIDE DEF g
<1>6. call' \in [Calls -> CallRecords] /\ call'[c] = g /\ Frame(c)
  BY <1>3, <1>5 DEF TypeOK, Frame, g
<1> QED
  BY <1>4, <1>6 DEF Passes, Moves, Working

LEMMA CallStops ==
  ASSUME TypeOK, NEW c \in Calls, Working(c), NEW state \in {"answered", "refused", "thrown"},
         call' = [call EXCEPT ![c].state = state]
  PROVE  Stops(c, state)
<1>1. call[c] \in CallRecords
  BY DEF TypeOK
<1> DEFINE g == [call[c] EXCEPT !.state = state]
<1>2. g \in CallRecords
  BY <1>1 DEF CallRecords
<1>3. /\ g.state = state /\ g.op = call[c].op /\ g.account = call[c].account
      /\ g.value = call[c].value /\ g.todo = call[c].todo /\ g.seen = call[c].seen
      /\ g.was = call[c].was /\ g.left = call[c].left
  BY <1>1 DEF CallRecords
<1>4. call' = [call EXCEPT ![c] = g]
  OBVIOUS
<1> HIDE DEF g
<1>5. call' \in [Calls -> CallRecords] /\ call'[c] = g /\ Frame(c)
  BY <1>2, <1>4 DEF TypeOK, Frame
<1> QED
  BY <1>3, <1>5 DEF Stops, Moves, Working

LEMMA CompareMoves ==
  ASSUME TypeOK, NEW c \in Calls, ComparePassword(c), call[c].account \in Accounts
  PROVE  /\ Moves(c, "working") /\ call'[c].todo = Tail(call[c].todo)
         /\ call'[c].seen = password[call[c].account]
         /\ call'[c].was = call[c].was /\ call'[c].left = call[c].left
<1>1. call[c] \in CallRecords /\ Working(c) /\ call[c].todo # <<>>
  BY DEF TypeOK, ComparePassword, At
<1> DEFINE g == [call[c] EXCEPT !.todo = Tail(@), !.seen = password[call[c].account]]
<1>2. Tail(call[c].todo) \in Seq(Steps)
  BY <1>1, TailIn DEF CallRecords
<1>3. password[call[c].account] \in Calls \cup {None}
  BY DEF TypeOK
<1>4. g \in CallRecords
  BY <1>1, <1>2, <1>3 DEF CallRecords
<1>5. /\ g.state = call[c].state /\ g.op = call[c].op /\ g.account = call[c].account
      /\ g.value = call[c].value /\ g.todo = Tail(call[c].todo)
      /\ g.seen = password[call[c].account] /\ g.was = call[c].was /\ g.left = call[c].left
  BY <1>1 DEF CallRecords
<1>6. call' = [call EXCEPT ![c] = g]
  BY DEF ComparePassword
<1> HIDE DEF g
<1>7. call' \in [Calls -> CallRecords] /\ call'[c] = g /\ Frame(c)
  BY <1>4, <1>6 DEF TypeOK, Frame
<1> QED
  BY <1>1, <1>5, <1>7 DEF Moves, Working

(* The visit of a team member puts the writing of its row before the next visit. *)
LEMMA VisitMoves ==
  ASSUME TypeOK, NEW c \in Calls, Working(c), call[c].todo = <<Do("members")>>,
         NEW m \in call[c].left,
         call' = [call EXCEPT ![c].todo = <<Require(m)>> \o @, ![c].was = m \in required,
                              ![c].left = @ \ {m}]
  PROVE  /\ Moves(c, "working") /\ call'[c].todo = <<Require(m), Do("members")>>
         /\ call'[c].seen = call[c].seen /\ (call'[c].was <=> m \in required)
         /\ call'[c].left = call[c].left \ {m}
<1> DEFINE was == m \in required
           todo == <<Require(m)>> \o call[c].todo
<1>1. call[c] \in CallRecords /\ was \in BOOLEAN /\ m \in Accounts
  BY DEF TypeOK, CallRecords, Accounts
<1>2. call' = [call EXCEPT ![c] = [call[c] EXCEPT !.todo = todo, !.was = was, !.left = @ \ {m}]]
  OBVIOUS
<1>3. todo = <<Require(m), Do("members")>>
  BY <1>1, StepsIn, Paired
<1>4. todo \in Seq(Steps)
  BY <1>1, <1>3, StepsIn
<1>5. was <=> m \in required
  OBVIOUS
<1> HIDE DEF was, todo
<1> DEFINE g == [call[c] EXCEPT !.todo = todo, !.was = was, !.left = @ \ {m}]
<1>6. g \in CallRecords
  BY <1>1, <1>4 DEF CallRecords
<1>7. /\ g.state = call[c].state /\ g.op = call[c].op /\ g.account = call[c].account
      /\ g.value = call[c].value /\ g.todo = todo /\ g.seen = call[c].seen
      /\ g.was = was /\ g.left = call[c].left \ {m}
  BY <1>1 DEF CallRecords
<1>8. call' = [call EXCEPT ![c] = g]
  BY <1>2
<1> HIDE DEF g
<1>9. call' \in [Calls -> CallRecords] /\ call'[c] = g /\ Frame(c)
  BY <1>6, <1>8 DEF TypeOK, Frame
<1> QED
  BY <1>3, <1>5, <1>7, <1>9 DEF Moves, Working

LEMMA BeginStarts ==
  ASSUME TypeOK, NEW c \in Calls, NEW h \in CallRecords, Begin(c, h)
  PROVE  /\ call[c].state = "new" /\ call'[c] = h /\ Frame(c) /\ call' \in [Calls -> CallRecords]
         /\ crossed' = crossed \cup Crossing(h)
         /\ UNCHANGED <<rows, stored, session, asked>>
BY DEF Begin, TypeOK, Frame

(* Whatever the step, the call goes on with its script or is over. *)
LEMMA StepMoves ==
  ASSUME TypeInv, NEW c \in Calls, Step(c)
  PROVE  /\ Moves(c, call'[c].state) /\ Scripted(call'[c])
         /\ call'[c].state \in {"working", "answered", "refused", "thrown"}
         /\ call'[c].op = "resetPassword" => call'[c].seen = call[c].seen
         /\ call'[c].left \subseteq call[c].left
         /\ call'[c].state = "answered" => call'[c].todo = <<>>
<1> DEFINE h == call[c]
           Goal == /\ Moves(c, call'[c].state) /\ Scripted(call'[c])
                   /\ call'[c].state \in {"working", "answered", "refused", "thrown"}
                   /\ call'[c].op = "resetPassword" => call'[c].seen = call[c].seen
                   /\ call'[c].left \subseteq call[c].left
                   /\ call'[c].state = "answered" => call'[c].todo = <<>>
<1>1. Working(c) /\ TypeOK
  BY DEF TypeInv, Step, SaveToken, DeleteToken, CompareCode, ComparePassword, UpdatePassword,
         UpdateStatus, UpdateEntity, VisitMember, Answer, ReadNoRole, Throw, At
<1>2. Scripted(h) /\ h.account \in Accounts
  BY <1>1 DEF TypeInv, ScriptInv, Working
<1>3. ASSUME Pass(c), h.todo # <<>>, Head(h.todo).do # "role",
             Head(h.todo).do = "members" => h.left = {}
      PROVE  Goal
  <2>1. Passes(c)
    BY <1>1, <1>3, PassPasses
  <2>2. Scripted(call'[c])
    BY <1>2, <1>3, <2>1, ScriptPassed DEF Passes, Moves
  <2> QED
    BY <2>1, <2>2 DEF Passes, Moves
<1>4. ASSUME NEW state \in {"answered", "refused", "thrown"},
             call' = [call EXCEPT ![c].state = state], state = "answered" => h.todo = <<>>
      PROVE  Goal
  <2>1. Stops(c, state)
    BY <1>1, <1>4, CallStops
  <2>2. Scripted(call'[c])
    <3>1. Touched(call'[c]) = Touched(h)
      BY <2>1 DEF Stops, Moves, Touched
    <3>2. SessionScript(call'[c]) /\ PasswordScript(call'[c])
      BY <1>2, <2>1 DEF Stops, Moves, Scripted, SessionScript, PasswordScript
    <3>3. RequirementScript(call'[c])
      BY <1>2, <2>1, <3>1 DEF Stops, Moves, Scripted, RequirementScript
    <3> QED
      BY <1>2, <2>1, <3>2, <3>3 DEF Stops, Moves, Scripted
  <2> QED
    BY <1>4, <2>1, <2>2 DEF Stops, Moves
<1>5. CASE SaveToken(c) \/ DeleteToken(c) \/ UpdatePassword(c) \/ UpdateStatus(c) \/ UpdateEntity(c)
  BY <1>3, <1>5 DEF SaveToken, DeleteToken, UpdatePassword, UpdateStatus, UpdateEntity, At
<1>6. CASE CompareCode(c)
  BY <1>3, <1>4, <1>6 DEF CompareCode, At
<1>7. CASE ComparePassword(c)
  <2>1. /\ Moves(c, "working") /\ call'[c].todo = Tail(call[c].todo)
        /\ call'[c].was = call[c].was /\ call'[c].left = call[c].left
    BY <1>1, <1>2, <1>7, CompareMoves
  <2>2. h.todo # <<>> /\ Head(h.todo).do = "compare"
    BY <1>7 DEF ComparePassword, At
  <2>3. h.op = "changePassword"
    BY <1>2, <2>2, DoAt
  <2>4. Scripted(call'[c])
    BY <1>2, <2>1, <2>2, <2>3, ScriptPassed DEF Moves
  <2> QED
    BY <2>1, <2>3, <2>4 DEF Moves
<1>8. CASE VisitMember(c)
  <2>1. h.todo # <<>> /\ Head(h.todo).do = "members"
    BY <1>8 DEF VisitMember, At
  <2>2. CASE h.left = {} /\ Pass(c)
    BY <1>3, <2>1, <2>2
  <2>3. ASSUME NEW m \in h.left,
               call' = [call EXCEPT ![c].todo = <<Require(m)>> \o @,
                                    ![c].was = m \in required, ![c].left = @ \ {m}]
        PROVE  Goal
    <3>1. /\ h.op = "updateLoginOTPRequirement" /\ h.todo = <<Do("members")>>
          /\ h.left \subseteq Touched(h)
      BY <1>2, <2>1, RequireAt DEF AtStep
    <3>2. /\ Moves(c, "working") /\ call'[c].todo = <<Require(m), Do("members")>>
          /\ call'[c].left = h.left \ {m}
      BY <1>1, <2>3, <3>1, VisitMoves
    <3>3. Touched(call'[c]) = Touched(h)
      BY <3>2 DEF Moves, Touched
    <3>4. Scripted(call'[c])
      <4>1. RequirementScript(call'[c])
        BY <2>3, <3>1, <3>2, <3>3 DEF RequirementScript
      <4> QED
        BY <3>1, <3>2, <4>1, Operations DEF Moves, Scripted, SessionScript, PasswordScript
    <3> QED
      BY <3>1, <3>2, <3>4 DEF Moves
  <2> QED
    BY <1>8, <2>2, <2>3 DEF VisitMember
<1>9. CASE Answer(c) \/ ReadNoRole(c) \/ Throw(c)
  BY <1>4, <1>9 DEF Answer, ReadNoRole, Throw
<1> QED
  BY <1>5, <1>6, <1>7, <1>8, <1>9 DEF Step

-----------------------------------------------------------------------------
(* The type invariant *)

LEMMA InitTypes == Init => TypeInv
<1> SUFFICES ASSUME Init PROVE TypeInv
  OBVIOUS
<1>1. Idle \in CallRecords /\ Idle.state = "new"
  BY DEF Idle, CallRecords
<1>2. call \in [Calls -> CallRecords] /\ \A c \in Calls : call[c].state = "new"
  BY <1>1 DEF Init
<1>3. TypeOK
  BY <1>2 DEF Init, TypeOK
<1> QED
  BY <1>2, <1>3 DEF TypeInv, ScriptInv

(* A call's own history only, and that it is not answered twice. *)
LEMMA ScriptStep ==
  ASSUME TypeInv, NEW c \in Calls, Frame(c), call' \in [Calls -> CallRecords],
         call[c].state # "answered",
         call'[c].account \in Accounts, Scripted(call'[c]),
         call'[c].left # {} => call'[c].account = Partner,
         call'[c].op = "resetPassword" =>
           call'[c].seen \in Calls /\ call[call'[c].seen].state = "answered",
         call'[c].state = "answered" => call'[c].todo = <<>>
  PROVE  ScriptInv'
<1>1. ASSUME NEW d \in Calls, call'[d].state # "new"
      PROVE  /\ call'[d].account \in Accounts /\ Scripted(call'[d])
             /\ call'[d].left # {} => call'[d].account = Partner
             /\ call'[d].op = "resetPassword" => call'[call'[d].seen].state = "answered"
  <2>1. CASE d = c
    BY <2>1 DEF Frame
  <2>2. CASE d # c
    <3>1. call'[d] = call[d]
      BY <2>2 DEF Frame
    <3>2. call[d].op = "resetPassword" => call[d].seen \in Calls
      BY <1>1, <3>1 DEF TypeInv, ScriptInv, Scripted, PasswordScript
    <3> QED
      BY <1>1, <3>1, <3>2 DEF TypeInv, ScriptInv, Frame
  <2> QED
    BY <2>1, <2>2
<1>2. ASSUME NEW d \in Calls, call'[d].state = "answered" PROVE call'[d].todo = <<>>
  BY <1>2 DEF TypeInv, ScriptInv, Frame
<1> QED
  BY <1>1, <1>2 DEF ScriptInv

LEMMA TopicTypes ==
  ASSUME NEW h, h.op \in DOMAIN Topics, h.account \in Accounts, NEW S \in SUBSET Touched(h)
  PROVE  {<<Topics[h.op], a>> : a \in S}
           \subseteq {"session", "password", "request", "requirement"} \X Accounts
BY TopicsOf, TouchedAccounts

LEMMA SavedType ==
  ASSUME stored \in [Keys -> [Accounts -> Calls \cup {None}]], NEW key \in Keys,
         NEW a \in Accounts, NEW value \in Calls \cup {None},
         stored' = [stored EXCEPT ![key][a] = value]
  PROVE  stored' \in [Keys -> [Accounts -> Calls \cup {None}]]
<1> DEFINE f == [stored[key] EXCEPT ![a] = value]
<1>1. f \in [Accounts -> Calls \cup {None}]
  OBVIOUS
<1>2. stored' = [stored EXCEPT ![key] = f]
  OBVIOUS
<1> HIDE DEF f
<1> QED
  BY <1>1, <1>2

LEMMA BeginTypes ==
  ASSUME TypeInv, NEW c \in Calls, NEW h, Started(h), Begin(c, h) PROVE TypeInv'
<1>1. /\ h \in CallRecords /\ h.state = "working" /\ h.account \in Accounts /\ Scripted(h)
      /\ h.op \in DOMAIN Topics
  BY DEF Started, Scripted
<1>2. /\ call[c].state = "new" /\ call'[c] = h /\ Frame(c) /\ call' \in [Calls -> CallRecords]
      /\ crossed' = crossed \cup Crossing(h)
      /\ UNCHANGED <<rows, stored, session, asked>>
  BY <1>1, BeginStarts DEF TypeInv
<1>3. Crossing(h) \subseteq {"session", "password", "request", "requirement"} \X Accounts
  BY <1>1, TopicTypes DEF Crossing
<1>4. TypeOK'
  BY <1>2, <1>3 DEF TypeInv, TypeOK
<1>5. h.op = "resetPassword" => h.seen \in Calls
  BY <1>1 DEF Scripted, PasswordScript
<1>6. ScriptInv'
  BY <1>1, <1>2, <1>5, ScriptStep DEF Started
<1> QED
  BY <1>4, <1>6 DEF TypeInv

LEMMA StepTypes ==
  ASSUME TypeInv, NEW c \in Calls, Step(c) PROVE TypeInv'
<1> DEFINE h == call[c]
<1>1. /\ TypeOK /\ Working(c) /\ Scripted(h) /\ h.account \in Accounts
      /\ h.op \in DOMAIN Topics /\ h \in CallRecords
  <2>1. TypeOK /\ Working(c)
    BY StepMoves DEF TypeInv, Moves
  <2> QED
    BY <2>1 DEF TypeInv, ScriptInv, Working, Scripted, TypeOK
<1>2. /\ Moves(c, call'[c].state) /\ Scripted(call'[c])
      /\ call'[c].state \in {"working", "answered", "refused", "thrown"}
      /\ call'[c].op = "resetPassword" => call'[c].seen = call[c].seen
      /\ call'[c].left \subseteq call[c].left
      /\ call'[c].state = "answered" => call'[c].todo = <<>>
  BY StepMoves
<1>3. ScriptInv'
  <2>1. /\ h.left # {} => h.account = Partner
        /\ h.op = "resetPassword" => h.seen \in Calls /\ call[h.seen].state = "answered"
    BY <1>1 DEF TypeInv, ScriptInv, Working, Scripted, PasswordScript
  <2> QED
    BY <1>1, <1>2, <2>1, ScriptStep DEF Moves, Working
<1>4. call' \in [Calls -> CallRecords]
  BY <1>2 DEF Moves
<1>5. Keys = {"access_token", "refresh_token", "otp_token", "otp_code",
              "passwordreset_token", "passwordreset_code"}
  BY DEF Keys
<1>6. CASE SaveToken(c)
  <2>1. Object(c) \in Keys
    BY <1>1, <1>5, <1>6, SetAt, StepFields DEF SaveToken, At, Object, AtStep
  <2>2. stored' \in [Keys -> [Accounts -> Calls \cup {None}]]
    BY <1>1, <1>6, <2>1, SavedType DEF SaveToken, TypeOK
  <2> QED
    BY <1>1, <1>3, <1>4, <1>6, <2>2 DEF SaveToken, TypeInv, TypeOK
<1>7. CASE DeleteToken(c)
  <2>1. Object(c) \in Keys
    BY <1>1, <1>5, <1>7, DelAt, StepFields DEF DeleteToken, At, Object, AtStep
  <2>2. stored' \in [Keys -> [Accounts -> Calls \cup {None}]]
    BY <1>1, <1>7, <2>1, SavedType DEF DeleteToken, TypeOK
  <2> QED
    BY <1>1, <1>3, <1>4, <1>7, <2>2 DEF DeleteToken, TypeInv, TypeOK
<1>8. CASE CompareCode(c) \/ ComparePassword(c) \/ VisitMember(c)
  BY <1>1, <1>3, <1>4, <1>8 DEF CompareCode, ComparePassword, VisitMember, TypeInv, TypeOK
<1>9. CASE UpdatePassword(c)
  BY <1>1, <1>3, <1>4, <1>9 DEF UpdatePassword, TypeInv, TypeOK
<1>10. CASE UpdateStatus(c)
  BY <1>1, <1>3, <1>4, <1>10 DEF UpdateStatus, With, TypeInv, TypeOK
<1>11. CASE UpdateEntity(c)
  <2>1. h.todo # <<>> /\ Head(h.todo).do = "require"
    BY <1>11 DEF UpdateEntity, At
  <2>2. Touched(h) \subseteq Accounts /\ h.account \in Accounts
    BY <1>1, TouchedAccounts
  <2>3. Object(c) \in Accounts
    BY <1>1, <2>1, <2>2, RequireAt, StepFields DEF Object, AtStep
  <2> QED
    BY <1>1, <1>3, <1>4, <1>11, <2>3 DEF UpdateEntity, With, TypeInv, TypeOK
<1>12. CASE Answer(c) \/ ReadNoRole(c)
  <2>1. Record(c) /\ UNCHANGED <<rows, stored, crossed>>
    BY <1>12 DEF Answer, ReadNoRole
  <2>2. session' \in [Accounts -> Calls \cup {None}]
    BY <1>1, <2>1 DEF Record, TypeOK
  <2>3. Touched(h) \subseteq Accounts
    BY <1>1, TouchedAccounts
  <2>4. asked' \subseteq Accounts
    BY <1>1, <2>1, <2>3 DEF Record, TypeOK
  <2> QED
    BY <1>1, <1>3, <1>4, <2>1, <2>2, <2>4 DEF TypeInv, TypeOK
<1>13. CASE Throw(c)
  <2>1. {<<Topics[h.op], a>> : a \in Touched(h)}
          \subseteq {"session", "password", "request", "requirement"} \X Accounts
    BY <1>1, TopicTypes
  <2> QED
    BY <1>1, <1>3, <1>4, <1>13, <2>1 DEF Throw, TypeInv, TypeOK
<1> QED
  BY <1>6, <1>7, <1>8, <1>9, <1>10, <1>11, <1>12, <1>13 DEF Step

LEMMA TypeStep == TypeInv /\ [Next]_vars => TypeInv'
<1> SUFFICES ASSUME TypeInv, [Next]_vars PROVE TypeInv'
  OBVIOUS
<1>1. ASSUME NEW c \in Calls, Start(c) PROVE TypeInv'
  BY <1>1, StartStarts, BeginTypes
<1>2. ASSUME NEW c \in Calls, Step(c) PROVE TypeInv'
  BY <1>2, StepTypes
<1>3. ASSUME NEW key \in Keys, NEW a \in Accounts, Expire(key, a) PROVE TypeInv'
  <2>1. stored' \in [Keys -> [Accounts -> Calls \cup {None}]]
    BY <1>3, SavedType DEF Expire, TypeInv, TypeOK
  <2>2. UNCHANGED <<rows, call, history>>
    BY <1>3 DEF Expire
  <2> QED
    BY <2>1, <2>2 DEF TypeInv, TypeOK, ScriptInv
<1>4. CASE UNCHANGED vars
  BY <1>4 DEF vars, TypeInv, TypeOK, ScriptInv
<1> QED
  BY <1>1, <1>2, <1>3, <1>4 DEF Next

(* Every reachable state of the sessions is well typed. *)
THEOREM SessionTypes == Spec => []TypeOK
<1>1. TypeInv => TypeOK
  BY DEF TypeInv
<1> QED
  BY <1>1, InitTypes, TypeStep, PTL DEF Spec

-----------------------------------------------------------------------------
(* Who is at work on an account *)

LEMMA InFlightOn ==
  ASSUME NEW topic, NEW a
  PROVE  InFlight(topic, a) <=> \E c \in Calls : On(c, topic, a)
BY DEF InFlight, On

(* A step leaves the others as they are, and its own call on what it was on. *)
LEMMA OnStep ==
  ASSUME TypeInv, NEW c \in Calls, Step(c), NEW topic, NEW a
  PROVE  /\ Frame(c)
         /\ \A d \in Calls \ {c} : On(d, topic, a)' <=> On(d, topic, a)
         /\ On(c, topic, a)' => On(c, topic, a)
         /\ On(c, topic, a) => On(c, topic, a)' \/ call'[c].state \in {"answered", "refused", "thrown"}
         /\ crossed \subseteq crossed'
         /\ Throw(c) /\ On(c, topic, a) => <<topic, a>> \in crossed'
<1>1. /\ Working(c) /\ Frame(c) /\ call'[c].op = call[c].op /\ call'[c].account = call[c].account
      /\ call'[c].state \in {"working", "answered", "refused", "thrown"}
  BY StepMoves DEF Moves
<1>2. Touched(call'[c]) = Touched(call[c])
  BY <1>1 DEF Touched
<1>3. On(c, topic, a) <=> Topics[call[c].op] = topic /\ a \in Touched(call[c])
  BY <1>1 DEF On
<1>4. On(c, topic, a)' <=>
        call'[c].state = "working" /\ Topics[call[c].op] = topic /\ a \in Touched(call[c])
  <2>1. On(c, topic, a)' <=>
          call'[c].state = "working" /\ Topics[call'[c].op] = topic /\ a \in Touched(call'[c])
    BY DEF On, Working, Touched
  <2> QED
    BY <1>1, <1>2, <2>1
<1>5. \A d \in Calls \ {c} : On(d, topic, a)' <=> On(d, topic, a)
  BY <1>1 DEF On, Working, Frame, Touched
<1>6. crossed \subseteq crossed'
  BY DEF Step, SaveToken, DeleteToken, CompareCode, ComparePassword, UpdatePassword,
         UpdateStatus, UpdateEntity, VisitMember, Answer, ReadNoRole, Throw
<1>7. Throw(c) /\ On(c, topic, a) => <<topic, a>> \in crossed'
  BY <1>3 DEF Throw
<1> QED
  BY <1>1, <1>3, <1>4, <1>5, <1>6, <1>7

(* A call that begins is alone, or has crossed the others. *)
LEMMA OnBegin ==
  ASSUME TypeInv, NEW c \in Calls, NEW h, Started(h), Begin(c, h), NEW topic, NEW a
  PROVE  /\ call'[c] = h /\ \A d \in Calls \ {c} : call'[d] = call[d]
         /\ \A d \in Calls \ {c} : On(d, topic, a)' <=> On(d, topic, a)
         /\ ~On(c, topic, a) /\ (On(c, topic, a)' <=> Topics[h.op] = topic /\ a \in Touched(h))
         /\ crossed \subseteq crossed' /\ UNCHANGED <<rows, stored, session, asked>>
         /\ On(c, topic, a)' /\ <<topic, a>> \notin crossed' =>
              /\ ~InFlight(topic, a)
              /\ h.op = "deactivatePartner" => stored["otp_token"][a] = None
<1>1. /\ call[c].state = "new" /\ call'[c] = h /\ Frame(c) /\ h.state = "working"
      /\ crossed' = crossed \cup Crossing(h)
      /\ UNCHANGED <<rows, stored, session, asked>>
  BY BeginStarts DEF Started, TypeInv
<1>2. On(c, topic, a)' <=> Topics[h.op] = topic /\ a \in Touched(h)
  <2>1. On(c, topic, a)' <=>
          call'[c].state = "working" /\ Topics[call'[c].op] = topic /\ a \in Touched(call'[c])
    BY DEF On, Working, Touched
  <2> QED
    BY <1>1, <2>1
<1>3. \A d \in Calls \ {c} : On(d, topic, a)' <=> On(d, topic, a)
  BY <1>1 DEF On, Working, Frame, Touched
<1>4. ASSUME On(c, topic, a)', <<topic, a>> \notin crossed'
      PROVE  /\ ~InFlight(topic, a)
             /\ h.op = "deactivatePartner" => stored["otp_token"][a] = None
  BY <1>1, <1>2, <1>4 DEF Crossing
<1>5. ~On(c, topic, a)
  BY <1>1 DEF On, Working
<1> QED
  BY <1>1, <1>2, <1>3, <1>4, <1>5 DEF Frame

LEMMA AloneStep == TypeInv /\ AloneInv /\ [Next]_vars => AloneInv'
<1> SUFFICES ASSUME TypeInv, AloneInv, [Next]_vars,
                    NEW topic \in {"session", "password", "requirement"}, NEW a \in Accounts,
                    <<topic, a>> \notin crossed',
                    NEW d \in Calls, NEW e \in Calls, On(d, topic, a)', On(e, topic, a)'
             PROVE  d = e
  BY DEF AloneInv
<1>1. ASSUME NEW c \in Calls, Start(c) PROVE d = e
  <2>1. PICK h : Started(h) /\ Begin(c, h)
    BY <1>1, StartStarts
  <2>2. /\ <<topic, a>> \notin crossed /\ (On(c, topic, a)' => ~InFlight(topic, a))
        /\ \A x \in Calls \ {c} : On(x, topic, a)' <=> On(x, topic, a)
    BY <2>1, OnBegin
  <2> QED
    BY <2>2, InFlightOn DEF AloneInv
<1>2. ASSUME NEW c \in Calls, Step(c) PROVE d = e
  BY <1>2, OnStep DEF AloneInv
<1>3. ASSUME UNCHANGED <<call, crossed>> PROVE d = e
  BY <1>3 DEF AloneInv, On, Working, Touched
<1> QED
  BY <1>1, <1>2, <1>3 DEF Next, Expire, vars

-----------------------------------------------------------------------------
(* The two tokens of a session *)

(* The scripts of one topic, told apart at every step. *)
LEMMA LoginApart ==
  /\ login # <<Set("access_token")>> /\ login # <<Set("refresh_token")>> /\ login # <<>>
  /\ <<Set("access_token")>> # <<Set("refresh_token")>>
  /\ <<Set("access_token")>> # <<>> /\ <<Set("refresh_token")>> # <<>>
  /\ \A s \in {loginByCode, <<Set("otp_token")>>, <<>>} :
       s # <<Set("access_token")>> /\ s # <<Set("refresh_token")>>
  /\ \A s \in {completeLogin, <<Set("access_token"), Set("refresh_token")>>} :
       s # <<Set("access_token")>> /\ s # <<Set("refresh_token")>> /\ s # <<>>
<1>1. /\ Set("access_token") # Set("refresh_token") /\ Set("otp_token") # Set("access_token")
      /\ Set("otp_token") # Set("refresh_token") /\ Set("otp_code") # Set("access_token")
      /\ Set("otp_code") # Set("refresh_token") /\ Check("otp_code") # Set("access_token")
      /\ Check("otp_code") # Set("refresh_token")
  BY StepFields
<1>2. /\ login # <<Set("access_token")>> /\ login # <<Set("refresh_token")>> /\ login # <<>>
      /\ <<Set("access_token")>> # <<Set("refresh_token")>>
      /\ <<Set("access_token")>> # <<>> /\ <<Set("refresh_token")>> # <<>>
  BY <1>1, Ends, Tuples
<1>3. \A s \in {loginByCode, <<Set("otp_token")>>, <<>>} :
        s # <<Set("access_token")>> /\ s # <<Set("refresh_token")>>
  <2>1. loginByCode # <<Set("access_token")>> /\ loginByCode # <<Set("refresh_token")>>
    BY <1>1, Ends, Tuples
  <2>2. /\ <<Set("otp_token")>> # <<Set("access_token")>>
        /\ <<Set("otp_token")>> # <<Set("refresh_token")>>
    BY <1>1, Tuples
  <2> QED
    BY <1>2, <2>1, <2>2
<1>4. completeLogin # <<Set("access_token")>> /\ completeLogin # <<Set("refresh_token")>>
  BY <1>1, Ends, Tuples
<1>5. /\ <<Set("access_token"), Set("refresh_token")>> # <<Set("access_token")>>
      /\ <<Set("access_token"), Set("refresh_token")>> # <<Set("refresh_token")>>
      /\ <<Set("access_token"), Set("refresh_token")>> # <<>> /\ completeLogin # <<>>
  BY <1>1, Ends, Tuples
<1> QED
  BY <1>2, <1>3, <1>4, <1>5

LEMMA LogoutApart ==
  /\ \A s \in {logout, <<Del("refresh_token")>>, setStatus, Clear,
               <<Del("refresh_token"), Del("passwordreset_code")>>,
               <<Del("passwordreset_code")>>, <<>>} :
       s # <<Set("access_token")>> /\ s # <<Set("refresh_token")>>
  /\ logout # <<Del("refresh_token")>> /\ logout # <<>> /\ <<Del("refresh_token")>> # <<>>
  /\ \A s \in {setStatus, Clear} :
       /\ s # <<Del("refresh_token"), Del("passwordreset_code")>>
       /\ s # <<Del("passwordreset_code")>> /\ s # <<>>
  /\ <<Del("refresh_token"), Del("passwordreset_code")>> # <<Del("passwordreset_code")>>
  /\ <<Del("refresh_token"), Del("passwordreset_code")>> # <<>>
  /\ <<Del("passwordreset_code")>> # <<>>
<1>1. /\ \A key : Del(key) # Set("access_token") /\ Del(key) # Set("refresh_token")
      /\ Do("status") # Set("access_token") /\ Do("status") # Set("refresh_token")
      /\ \A key : Do("status") # Del(key)
      /\ Del("access_token") # Del("refresh_token")
      /\ Del("access_token") # Del("passwordreset_code")
      /\ Del("refresh_token") # Del("passwordreset_code")
  BY StepFields
<1>2. \A s \in {logout, <<Del("refresh_token")>>, setStatus, Clear,
               <<Del("refresh_token"), Del("passwordreset_code")>>,
               <<Del("passwordreset_code")>>} :
       s # <<Set("access_token")>> /\ s # <<Set("refresh_token")>>
  BY <1>1, Ends, Tuples
<1>3. logout # <<Del("refresh_token")>> /\ logout # <<>> /\ <<Del("refresh_token")>> # <<>>
  BY <1>1, Ends, Tuples
<1>4. \A s \in {setStatus, Clear} :
        /\ s # <<Del("refresh_token"), Del("passwordreset_code")>>
        /\ s # <<Del("passwordreset_code")>> /\ s # <<>>
  BY <1>1, Ends, Tuples
<1>5. /\ <<Del("refresh_token"), Del("passwordreset_code")>> # <<Del("passwordreset_code")>>
      /\ <<Del("refresh_token"), Del("passwordreset_code")>> # <<>>
      /\ <<Del("passwordreset_code")>> # <<>>
  BY <1>1, Ends, Tuples
<1>6. <<>> # <<Set("access_token")>> /\ <<>> # <<Set("refresh_token")>>
  BY Tuples
<1> QED
  BY <1>2, <1>3, <1>4, <1>5, <1>6

(* A session's topic has its own operations, each on its own account. *)
LEMMA OnSession ==
  ASSUME TypeInv, NEW c \in Calls, Working(c), NEW a \in Accounts
  PROVE  On(c, "session", a) <=>
           /\ call[c].op \in {"login", "loginByCode", "completeLogin", "logout", "activatePartner",
                              "deactivatePartner"}
           /\ call[c].account = a
<1>1. call[c].op \in DOMAIN Topics /\ call[c].account \in Accounts
  BY DEF TypeInv, ScriptInv, Scripted, Working
<1> QED
  BY <1>1, TopicsOf, TouchedAccounts DEF On

(* The others leave an account's tokens and status alone. *)
LEMMA SessionKept ==
  ASSUME TypeInv, NEW c \in Calls, Step(c), NEW a \in Accounts, ~On(c, "session", a)
  PROVE  /\ stored'["access_token"][a] = stored["access_token"][a]
         /\ stored'["refresh_token"][a] = stored["refresh_token"][a]
         /\ stored'["otp_token"][a] = stored["otp_token"][a]
         /\ session'[a] = session[a] /\ (a \in activated' <=> a \in activated)
<1> DEFINE h == call[c]
<1>1. /\ Working(c) /\ Scripted(h) /\ h.account \in Accounts
      /\ stored \in [Keys -> [Accounts -> Calls \cup {None}]]
      /\ session \in [Accounts -> Calls \cup {None}]
  <2>1. Working(c)
    BY StepMoves DEF Moves
  <2> QED
    BY <2>1 DEF TypeInv, TypeOK, ScriptInv, Working
<1>2. h.op \in {"login", "loginByCode", "completeLogin", "logout", "activatePartner",
                "deactivatePartner"} => h.account # a
  BY <1>1, OnSession
<1>3. {"access_token", "refresh_token", "otp_token"} \subseteq Keys
  BY DEF Keys
<1> HIDE DEF h
<1>4. CASE SaveToken(c)
  <2>1. h.todo # <<>> /\ Head(h.todo).do = "set"
    BY <1>4 DEF SaveToken, At, h
  <2>2. h.account = a => Object(c) \notin {"access_token", "refresh_token", "otp_token"}
    BY <1>1, <1>2, <2>1, SetAt, StepFields DEF Object, AtStep, h
  <2> QED
    BY <1>1, <1>3, <1>4, <2>2 DEF SaveToken, h
<1>5. CASE DeleteToken(c)
  <2>1. h.todo # <<>> /\ Head(h.todo).do = "del"
    BY <1>5 DEF DeleteToken, At, h
  <2>2. h.account = a => Object(c) \notin {"access_token", "refresh_token", "otp_token"}
    BY <1>1, <1>2, <2>1, DelAt, StepFields DEF Object, AtStep, h
  <2> QED
    BY <1>1, <1>3, <1>5, <2>2 DEF DeleteToken, h
<1>6. CASE UpdateStatus(c)
  <2>1. h.todo # <<>> /\ Head(h.todo).do = "status"
    BY <1>6 DEF UpdateStatus, At, h
  <2>2. h.account # a
    BY <1>1, <1>2, <2>1, DoAt
  <2> QED
    BY <1>6, <2>2 DEF UpdateStatus, With, h
<1>7. CASE Answer(c) \/ ReadNoRole(c)
  <2>1. Record(c) /\ UNCHANGED <<rows, stored>>
    BY <1>7 DEF Answer, ReadNoRole
  <2>2. session'[a] = session[a]
    BY <1>1, <1>2, <2>1 DEF Record, h
  <2> QED
    BY <2>1, <2>2
<1>8. CASE CompareCode(c) \/ ComparePassword(c) \/ UpdatePassword(c) \/ UpdateEntity(c)
           \/ VisitMember(c) \/ Throw(c)
  BY <1>8 DEF CompareCode, ComparePassword, UpdatePassword, UpdateEntity, VisitMember, Throw
<1> QED
  BY <1>4, <1>5, <1>6, <1>7, <1>8 DEF Step

(* A handler that is alone on a session takes its two tokens along. *)
LEMMA SessionMoves ==
  ASSUME TypeInv, NEW c \in Calls, NEW a \in Accounts, On(c, "session", a), TokensAt(c, a),
         Step(c), ~Throw(c)
  PROVE  (Working(c)' => TokensAt(c, a)') /\ (~Working(c)' => Rest(a)')
<1> DEFINE h == call[c]
           g == call'[c]
           access   == stored["access_token"][a]
           refresh  == stored["refresh_token"][a]
<1>1. /\ Working(c) /\ TypeOK /\ Scripted(h) /\ h.account = a
      /\ h.op \in {"login", "loginByCode", "completeLogin", "logout", "activatePartner",
                   "deactivatePartner"}
      /\ stored \in [Keys -> [Accounts -> Calls \cup {None}]]
      /\ session \in [Accounts -> Calls \cup {None}]
  <2>1. Working(c)
    BY DEF On
  <2> QED
    BY <2>1, OnSession DEF TypeInv, TypeOK, ScriptInv, Working
<1>2. g.op = h.op
  BY StepMoves DEF Moves
<1>3. "access_token" \in Keys /\ "refresh_token" \in Keys
  BY DEF Keys
<1>4. /\ Begun(h) => Rest(a)
      /\ h.todo = <<Set("access_token")>> => access \in {None, session[a]} /\ refresh = c
      /\ h.todo = <<Set("refresh_token")>> => access = c
      /\ In(h)  => access = c /\ refresh = c
      /\ Cut(h) => access = None /\ refresh \in {None, session[a]}
      /\ Out(h) => access = None /\ refresh = None
  BY DEF TokensAt
<1>5. /\ Rest(a) <=> /\ access \in {None, session[a]} /\ refresh \in {None, session[a]}
                     /\ access # None => refresh = access
      /\ Rest(a)' <=> /\ access' \in {None, session'[a]} /\ refresh' \in {None, session'[a]}
                      /\ access' # None => refresh' = access'
  BY DEF Rest
<1>6. TokensAt(c, a)' <=>
        /\ Begun(g) => Rest(a)'
        /\ g.todo = <<Set("access_token")>> => access' \in {None, session'[a]} /\ refresh' = c
        /\ g.todo = <<Set("refresh_token")>> => access' = c
        /\ In(g)  => access' = c /\ refresh' = c
        /\ Cut(g) => access' = None /\ refresh' \in {None, session'[a]}
        /\ Out(g) => access' = None /\ refresh' = None
  BY DEF TokensAt, Rest, Begun, In, Cut, Out
<1>7. ASSUME Passes(c), h.todo # <<>> PROVE g.todo = Tail(h.todo) /\ Working(c)'
  BY <1>7 DEF Passes, Moves, Working
<1>8. CASE SaveToken(c)
  <2>1. /\ h.todo # <<>> /\ Head(h.todo).do = "set" /\ Pass(c)
        /\ stored' = [stored EXCEPT ![Head(h.todo).on][a] = c] /\ session' = session
    BY <1>1, <1>8 DEF SaveToken, At, Object
  <2>2. g.todo = Tail(h.todo) /\ Working(c)'
    BY <1>1, <1>7, <2>1, PassPasses
  <2> HIDE DEF h, g
  <2>3. CASE h.op = "login" /\ AtStep(h, login, Set("refresh_token"), <<Set("access_token")>>)
    <3>1. refresh' = c /\ access' = access
      BY <1>1, <1>3, <2>1, <2>3, StepFields DEF AtStep
    <3>2. Rest(a)
      BY <1>4, <2>3, LoginApart DEF Begun, AtStep
    <3> QED
      BY <1>2, <1>5, <1>6, <2>1, <2>2, <2>3, <3>1, <3>2, LoginApart
      DEF Begun, In, Cut, Out, AtStep
  <2>4. CASE h.op = "login" /\ AtStep(h, <<Set("access_token")>>, Set("access_token"), <<>>)
    <3>1. refresh' = c /\ access' = c
      BY <1>1, <1>3, <1>4, <2>1, <2>4, StepFields DEF AtStep
    <3> QED
      BY <1>2, <1>6, <2>1, <2>2, <2>4, <3>1, LoginApart DEF Begun, In, Cut, Out, AtStep
  <2>5. CASE h.op = "completeLogin" /\ AtStep(h, <<Set("access_token"), Set("refresh_token")>>,
                                           Set("access_token"), <<Set("refresh_token")>>)
    <3>1. access' = c
      BY <1>1, <1>3, <2>1, <2>5, StepFields DEF AtStep
    <3> QED
      BY <1>2, <1>6, <2>1, <2>2, <2>5, <3>1, LoginApart DEF Begun, In, Cut, Out, AtStep
  <2>6. CASE h.op = "completeLogin" /\ AtStep(h, <<Set("refresh_token")>>, Set("refresh_token"), <<>>)
    <3>1. access' = c /\ refresh' = c
      BY <1>1, <1>3, <1>4, <2>1, <2>6, StepFields DEF AtStep
    <3> QED
      BY <1>2, <1>6, <2>1, <2>2, <2>6, <3>1, LoginApart DEF Begun, In, Cut, Out, AtStep
  <2>7. CASE /\ h.op = "loginByCode"
             /\ \/ AtStep(h, loginByCode, Set("otp_code"), <<Set("otp_token")>>)
                \/ AtStep(h, <<Set("otp_token")>>, Set("otp_token"), <<>>)
    <3>1. access' = access /\ refresh' = refresh
      BY <1>1, <1>3, <2>1, <2>7, StepFields DEF AtStep
    <3>2. Rest(a)'
      BY <1>4, <1>5, <2>1, <2>7, <3>1 DEF Begun
    <3>3. g.todo # <<Set("access_token")>> /\ g.todo # <<Set("refresh_token")>>
      BY <2>2, <2>7, LoginApart DEF AtStep
    <3> QED
      BY <1>2, <1>6, <2>2, <2>7, <3>2, <3>3 DEF In, Cut, Out
  <2> QED
    BY <1>1, <2>1, <2>3, <2>4, <2>5, <2>6, <2>7, SetAt
<1>9. CASE DeleteToken(c)
  <2>1. /\ h.todo # <<>> /\ Head(h.todo).do = "del" /\ Pass(c)
        /\ stored' = [stored EXCEPT ![Head(h.todo).on][a] = None] /\ session' = session
    BY <1>1, <1>9 DEF DeleteToken, At, Object
  <2>2. g.todo = Tail(h.todo) /\ Working(c)'
    BY <1>1, <1>7, <2>1, PassPasses
  <2> HIDE DEF h, g
  <2>3. CASE \/ h.op = "logout" /\ AtStep(h, logout, Del("access_token"), <<Del("refresh_token")>>)
             \/ /\ h.op \in {"activatePartner", "deactivatePartner"}
                /\ AtStep(h, Clear, Del("access_token"),
                          <<Del("refresh_token"), Del("passwordreset_code")>>)
    <3>1. access' = None /\ refresh' = refresh
      BY <1>1, <1>3, <2>1, <2>3, StepFields DEF AtStep
    <3>2. Rest(a)
      BY <1>4, <2>3, LogoutApart DEF Begun, AtStep
    <3>3. g.todo # <<Set("access_token")>> /\ g.todo # <<Set("refresh_token")>>
      BY <2>2, <2>3, LogoutApart, Ends, Tuples DEF AtStep
    <3>4. ~Begun(g) /\ ~Out(g)
      BY <1>2, <2>2, <2>3, LogoutApart DEF Begun, Out, AtStep
    <3> QED
      BY <1>2, <1>5, <1>6, <2>1, <2>3, <3>1, <3>2, <3>3, <3>4 DEF In
  <2>4. CASE \/ h.op = "logout" /\ AtStep(h, <<Del("refresh_token")>>, Del("refresh_token"), <<>>)
             \/ /\ h.op \in {"activatePartner", "deactivatePartner"}
                /\ AtStep(h, <<Del("refresh_token"), Del("passwordreset_code")>>,
                          Del("refresh_token"), <<Del("passwordreset_code")>>)
    <3>1. Cut(h)
      BY <2>4 DEF Cut, AtStep
    <3>2. access' = None /\ refresh' = None
      BY <1>1, <1>3, <1>4, <2>1, <2>4, <3>1, StepFields DEF AtStep
    <3>3. g.todo # <<Set("access_token")>> /\ g.todo # <<Set("refresh_token")>>
      BY <2>2, <2>4, LogoutApart DEF AtStep
    <3> QED
      BY <1>2, <1>5, <1>6, <2>2, <2>4, <3>2, <3>3 DEF In
  <2>5. CASE /\ h.op \in {"activatePartner", "deactivatePartner"}
             /\ AtStep(h, <<Del("passwordreset_code")>>, Del("passwordreset_code"), <<>>)
    <3>1. Out(h)
      BY <2>5 DEF Out, AtStep
    <3>2. access' = None /\ refresh' = None
      BY <1>1, <1>3, <1>4, <2>1, <2>5, <3>1, StepFields DEF AtStep
    <3>3. g.todo # <<Set("access_token")>> /\ g.todo # <<Set("refresh_token")>>
      BY <2>2, <2>5, LogoutApart DEF AtStep
    <3> QED
      BY <1>2, <1>5, <1>6, <2>2, <2>5, <3>2, <3>3 DEF In
  <2>6. h.op # "resetPassword"
    BY <1>1
  <2> QED
    BY <1>1, <2>1, <2>3, <2>4, <2>5, <2>6, DelAt
<1>10. CASE CompareCode(c)
  <2>1. /\ h.todo # <<>> /\ Head(h.todo).do = "check" /\ UNCHANGED <<stored, session>>
        /\ Pass(c) \/ call' = [call EXCEPT ![c].state = "refused"]
    BY <1>10 DEF CompareCode, At
  <2>2. h.op = "completeLogin" /\ h.todo = completeLogin
        /\ Tail(h.todo) = <<Set("access_token"), Set("refresh_token")>>
    BY <1>1, <2>1, CheckAt DEF AtStep
  <2>3. Rest(a)'
    BY <1>4, <1>5, <2>1, <2>2 DEF Begun
  <2>4. CASE Pass(c)
    <3>1. g.todo = Tail(h.todo)
      BY <1>1, <1>7, <2>1, <2>4, PassPasses
    <3> QED
      BY <1>2, <1>6, <2>2, <2>3, <3>1, LoginApart DEF In, Cut, Out
  <2>5. CASE call' = [call EXCEPT ![c].state = "refused"]
    BY <1>1, <2>3, <2>5, CallStops DEF Stops, Moves, Working
  <2> QED
    BY <2>1, <2>4, <2>5
<1>11. CASE UpdateStatus(c)
  <2>1. h.todo # <<>> /\ Head(h.todo).do = "status" /\ Pass(c) /\ UNCHANGED <<stored, session>>
    BY <1>11 DEF UpdateStatus, At
  <2>2. g.todo = Tail(h.todo)
    BY <1>1, <1>7, <2>1, PassPasses
  <2>3. /\ h.op \in {"activatePartner", "deactivatePartner"}
        /\ h.todo = setStatus /\ g.todo = Clear
    BY <1>1, <2>1, <2>2, DoAt DEF AtStep
  <2>4. Rest(a)'
    BY <1>4, <1>5, <2>1, <2>3 DEF Begun
  <2>5. TokensAt(c, a)'
    BY <1>2, <1>6, <2>3, <2>4, LogoutApart DEF In, Cut, Out
  <2>6. Working(c)'
    BY <1>1, <1>7, <2>1, PassPasses
  <2> QED
    BY <2>5, <2>6
<1>12. CASE Answer(c)
  <2>1. /\ h.todo = <<>> /\ stored' = stored /\ ~Working(c)'
        /\ session' = CASE h.op \in {"login", "completeLogin"} -> [session EXCEPT ![a] = c]
                        [] h.op \in {"logout", "activatePartner", "deactivatePartner"}
                             -> [session EXCEPT ![a] = None]
                        [] OTHER -> session
    <3>1. Record(c) /\ stored' = stored /\ h.todo = <<>> /\ call' = [call EXCEPT ![c].state = "answered"]
      BY <1>12 DEF Answer
    <3>2. ~Working(c)'
      BY <1>1, <3>1, CallStops DEF Stops, Moves, Working
    <3> QED
      BY <1>1, <3>1, <3>2 DEF Record
  <2>2. CASE h.op \in {"login", "completeLogin"}
    <3>1. access = c /\ refresh = c
      BY <1>4, <2>1, <2>2 DEF In
    <3> QED
      BY <1>1, <1>5, <2>1, <2>2, <3>1
  <2>3. CASE h.op \in {"logout", "activatePartner", "deactivatePartner"}
    <3>1. access = None /\ refresh = None
      BY <1>4, <2>1, <2>3 DEF Out
    <3> QED
      BY <1>5, <2>1, <3>1
  <2>4. CASE h.op = "loginByCode"
    <3>1. Rest(a)
      BY <1>4, <2>4 DEF Begun
    <3> QED
      BY <1>5, <2>1, <2>4, <3>1
  <2> QED
    BY <1>1, <2>2, <2>3, <2>4
<1>13. CASE ComparePassword(c) \/ UpdatePassword(c)
  <2>1. h.todo # <<>> /\ Head(h.todo).do \in {"compare", "password"}
    BY <1>13 DEF ComparePassword, UpdatePassword, At
  <2> QED
    BY <1>1, <2>1, DoAt
<1>14. CASE UpdateEntity(c) \/ VisitMember(c) \/ ReadNoRole(c)
  <2>1. h.todo # <<>> /\ Head(h.todo).do \in {"require", "members", "role"}
    BY <1>14 DEF UpdateEntity, VisitMember, ReadNoRole, At
  <2> QED
    BY <1>1, <2>1, RequireAt
<1> QED
  BY <1>8, <1>9, <1>10, <1>11, <1>12, <1>13, <1>14 DEF Step

(* What a handler finds when it begins alone. *)
LEMMA SessionBegins ==
  ASSUME TypeInv, NEW c \in Calls, NEW h, Started(h), call'[c] = h,
         UNCHANGED <<stored, session>>, NEW a \in Accounts, Rest(a),
         Topics[h.op] = "session"
  PROVE  TokensAt(c, a)'
<1>1. h.op \in {"login", "loginByCode", "completeLogin", "logout", "activatePartner",
                "deactivatePartner"} /\ Scripted(h)
  BY TopicsOf DEF Started, Scripted
<1>2. Begun(h) => Rest(a)'
  BY DEF Rest
<1>3. h.todo # <<Set("access_token")>> /\ h.todo # <<Set("refresh_token")>>
  <2>1. CASE h.op = "login" \/ h.op = "completeLogin"
    BY <2>1, LoginApart DEF Started
  <2>2. CASE h.op = "loginByCode"
    BY <1>1, <2>2, LoginApart DEF Scripted, SessionScript
  <2>3. CASE h.op \in {"logout", "activatePartner", "deactivatePartner"}
    BY <2>3, LogoutApart DEF Started
  <2> QED
    BY <1>1, <2>1, <2>2, <2>3
<1>4. ~In(h) /\ ~Cut(h) /\ ~Out(h)
  BY LoginApart, LogoutApart DEF Started, In, Cut, Out
<1> QED
  BY <1>2, <1>3, <1>4 DEF TokensAt, Rest, Begun, In, Cut, Out

LEMMA SessionStep == TypeInv /\ AloneInv /\ SessionInv /\ [Next]_vars => SessionInv'
<1> SUFFICES ASSUME TypeInv, AloneInv, SessionInv, [Next]_vars,
                    NEW a \in Accounts, <<"session", a>> \notin crossed'
             PROVE  /\ ~InFlight("session", a)' => Rest(a)'
                    /\ \A d \in Calls : On(d, "session", a)' => TokensAt(d, a)'
  BY DEF SessionInv
<1> DEFINE Goal == /\ ~InFlight("session", a)' => Rest(a)'
                   /\ \A d \in Calls : On(d, "session", a)' => TokensAt(d, a)'
<1>f. InFlight("session", a)' <=> \E d \in Calls : On(d, "session", a)'
  BY DEF InFlight, On, Working, Touched
<1>1. ASSUME NEW c \in Calls, Start(c) PROVE Goal
  <2>1. PICK h : Started(h) /\ Begin(c, h)
    BY <1>1, StartStarts
  <2>2. /\ call'[c] = h /\ \A d \in Calls \ {c} : call'[d] = call[d]
        /\ \A d \in Calls \ {c} : On(d, "session", a)' <=> On(d, "session", a)
        /\ ~On(c, "session", a) /\ (On(c, "session", a)' <=> Topics[h.op] = "session" /\ a \in Touched(h))
        /\ crossed \subseteq crossed' /\ UNCHANGED <<rows, stored, session, asked>>
        /\ On(c, "session", a)' => ~InFlight("session", a)
    BY <2>1, OnBegin
  <2>3. On(c, "session", a)' => TokensAt(c, a)'
    BY <2>1, <2>2, SessionBegins DEF SessionInv
  <2>4. ASSUME NEW d \in Calls \ {c}, On(d, "session", a)' PROVE TokensAt(d, a)'
    BY <2>2, <2>4 DEF SessionInv, TokensAt, Rest, Begun, In, Cut, Out
  <2>5. ~InFlight("session", a)' => Rest(a)'
    BY <1>f, <2>2, InFlightOn DEF SessionInv, Rest
  <2> QED
    BY <2>3, <2>4, <2>5
<1>2. ASSUME NEW c \in Calls, Step(c) PROVE Goal
  <2>1. /\ \A d \in Calls \ {c} : call'[d] = call[d]
        /\ \A d \in Calls \ {c} : On(d, "session", a)' <=> On(d, "session", a)
        /\ On(c, "session", a)' => On(c, "session", a)
        /\ <<"session", a>> \notin crossed /\ (On(c, "session", a) => ~Throw(c))
    BY <1>2, OnStep DEF Frame
  <2>2. CASE On(c, "session", a)
    <3>1. \A d \in Calls \ {c} : ~On(d, "session", a)'
      BY <2>1, <2>2 DEF AloneInv
    <3>2. TokensAt(c, a)
      BY <2>1, <2>2 DEF SessionInv
    <3>3. (Working(c)' => TokensAt(c, a)') /\ (~Working(c)' => Rest(a)')
      BY <1>2, <2>1, <2>2, <3>2, SessionMoves
    <3>4. On(c, "session", a)' <=> Working(c)'
      <4>1. call'[c].op = call[c].op /\ call'[c].account = call[c].account
        BY <1>2, StepMoves DEF Moves
      <4> QED
        BY <2>2, <4>1 DEF On, Touched
    <3> QED
      BY <1>f, <3>1, <3>3, <3>4
  <2>3. CASE ~On(c, "session", a)
    <3>1. /\ stored'["access_token"][a] = stored["access_token"][a]
          /\ stored'["refresh_token"][a] = stored["refresh_token"][a] /\ session'[a] = session[a]
      BY <1>2, <2>3, SessionKept
    <3>2. ASSUME NEW d \in Calls, On(d, "session", a)' PROVE TokensAt(d, a)'
      <4>1. d # c /\ On(d, "session", a) /\ call'[d] = call[d]
        BY <2>1, <2>3, <3>2
      <4>2. TokensAt(d, a)
        BY <2>1, <4>1 DEF SessionInv
      <4> QED
        BY <3>1, <4>1, <4>2 DEF TokensAt, Rest, Begun, In, Cut, Out
    <3>3. ~InFlight("session", a)' => Rest(a)'
      BY <1>f, <2>1, <2>3, <3>1, InFlightOn DEF SessionInv, Rest
    <3> QED
      BY <3>2, <3>3
  <2> QED
    BY <2>2, <2>3
<1>3. ASSUME NEW key \in Keys, NEW b \in Accounts, Expire(key, b) PROVE Goal
  <2>1. UNCHANGED <<call, session, crossed>> /\ stored' = [stored EXCEPT ![key][b] = None]
    BY <1>3 DEF Expire
  <2>2. /\ stored \in [Keys -> [Accounts -> Calls \cup {None}]]
        /\ "access_token" \in Keys /\ "refresh_token" \in Keys
    BY DEF TypeInv, TypeOK, Keys
  <2>3. CASE b = a /\ key = "access_token"
    <3>1. /\ stored'["access_token"][a] = None
          /\ stored'["refresh_token"][a] = stored["refresh_token"][a]
          /\ ~Working(stored["access_token"][a])
      BY <1>3, <2>1, <2>2, <2>3 DEF Expire
    <3>2. Rest(a) => Rest(a)'
      BY <2>1, <3>1 DEF Rest
    <3>3. ASSUME NEW d \in Calls, On(d, "session", a)' PROVE TokensAt(d, a)'
      <4>1. Working(d) /\ TokensAt(d, a)
        BY <2>1, <3>3 DEF SessionInv, On, Working, Touched
      <4> QED
        BY <2>1, <3>1, <3>2, <4>1 DEF TokensAt, Begun, In, Cut, Out
    <3> QED
      BY <1>f, <2>1, <3>2, <3>3, InFlightOn DEF SessionInv, On, Working, Touched
  <2>4. CASE b = a /\ key = "refresh_token"
    <3>1. /\ stored'["access_token"][a] = stored["access_token"][a]
          /\ stored'["refresh_token"][a] = None /\ stored["refresh_token"][a] # None
          /\ ~Working(stored["refresh_token"][a])
          /\ stored["access_token"][a] # stored["refresh_token"][a]
      BY <1>3, <2>1, <2>2, <2>4 DEF Expire, Sooner
    <3>2. Rest(a) => Rest(a)'
      BY <2>1, <3>1 DEF Rest
    <3>3. ASSUME NEW d \in Calls, On(d, "session", a)' PROVE TokensAt(d, a)'
      <4>1. Working(d) /\ TokensAt(d, a)
        BY <2>1, <3>3 DEF SessionInv, On, Working, Touched
      <4> QED
        BY <2>1, <3>1, <3>2, <4>1 DEF TokensAt, Begun, In, Cut, Out
    <3> QED
      BY <1>f, <2>1, <3>2, <3>3, InFlightOn DEF SessionInv, On, Working, Touched
  <2>5. CASE ~(b = a /\ key \in {"access_token", "refresh_token"})
    <3>1. /\ stored'["access_token"][a] = stored["access_token"][a]
          /\ stored'["refresh_token"][a] = stored["refresh_token"][a]
      BY <2>1, <2>2, <2>5
    <3>2. ASSUME NEW d \in Calls, On(d, "session", a)' PROVE TokensAt(d, a)'
      <4>1. Working(d) /\ TokensAt(d, a)
        BY <2>1, <3>2 DEF SessionInv, On, Working, Touched
      <4> QED
        BY <2>1, <3>1, <4>1 DEF TokensAt, Rest, Begun, In, Cut, Out
    <3> QED
      BY <1>f, <2>1, <3>1, <3>2, InFlightOn DEF SessionInv, Rest, On, Working, Touched
  <2> QED
    BY <2>3, <2>4, <2>5
<1>4. CASE UNCHANGED vars
  BY <1>4 DEF vars, SessionInv, On, Working, Touched, TokensAt, Rest, Begun, In, Cut, Out, InFlight
<1> QED
  BY <1>1, <1>2, <1>3, <1>4 DEF Next

-----------------------------------------------------------------------------
(* Accounts that are deactivated *)

LEMMA BarredMoves ==
  ASSUME TypeInv, NEW c \in Calls, NEW a \in Accounts, On(c, "session", a), TokensAt(c, a),
         Barred(a), Step(c), ~Throw(c), \A d \in Calls \ {c} : ~On(d, "session", a)'
  PROVE  Barred(a)'
<1> DEFINE h == call[c]
           otp == stored["otp_token"][a]
           access == stored["access_token"][a]
<1>1. /\ Working(c) /\ TypeOK /\ Scripted(h) /\ h.account = a
      /\ h.op \in {"login", "loginByCode", "completeLogin", "logout", "activatePartner",
                   "deactivatePartner"}
      /\ stored \in [Keys -> [Accounts -> Calls \cup {None}]]
  <2>1. Working(c)
    BY DEF On
  <2> QED
    BY <2>1, OnSession DEF TypeInv, TypeOK, ScriptInv, Working
<1>2. call'[c].op = h.op /\ call'[c].account = a
  BY <1>1, StepMoves DEF Moves
<1>3. "access_token" \in Keys /\ "otp_token" \in Keys
  BY DEF Keys
<1>4. /\ a \notin activated => otp = None
      /\ h.op = "deactivatePartner" => otp = None
      /\ h.op \in {"login", "loginByCode", "completeLogin"} => a \in activated
      /\ h.op = "logout" /\ a \notin activated => access = None
  BY DEF Barred
<1>5. On(c, "session", a)' <=> Working(c)'
  BY <1>2 DEF On, Touched
<1>6. InFlight("session", a)' <=> Working(c)'
  BY <1>5 DEF InFlight, On, Working, Touched
<1>7. ASSUME a \notin activated' => otp' = None, h.op = "deactivatePartner" => otp' = None,
             h.op \in {"login", "loginByCode", "completeLogin"} => a \in activated',
             h.op = "logout" /\ a \notin activated' => access' = None,
             ~Working(c)' /\ a \notin activated' => access' = None
      PROVE  Barred(a)'
  <2>1. a \notin activated' /\ ~InFlight("session", a)' => access' = None
    BY <1>6, <1>7
  <2>2. ASSUME NEW d \in Calls, On(d, "session", a)'
        PROVE  /\ call'[d].op = "deactivatePartner" => otp' = None
               /\ call'[d].op \in {"login", "loginByCode", "completeLogin"} => a \in activated'
               /\ call'[d].op = "logout" /\ a \notin activated' => access' = None
    <3>1. d = c
      BY <2>2
    <3> QED
      BY <1>2, <1>7, <3>1
  <2> QED
    BY <1>7, <2>1, <2>2 DEF Barred
<1> HIDE DEF h, otp, access
<1>8. CASE SaveToken(c)
  <2>1. /\ h.todo # <<>> /\ Head(h.todo).do = "set" /\ Pass(c) /\ UNCHANGED activated
        /\ stored' = [stored EXCEPT ![Head(h.todo).on][a] = c]
    BY <1>1, <1>8 DEF SaveToken, At, Object, h
  <2>2. Working(c)' /\ h.op \in {"login", "loginByCode", "completeLogin"}
    BY <1>1, <2>1, PassPasses, SetAt DEF Passes, Moves, Working, h
  <2> QED
    BY <1>4, <1>7, <2>1, <2>2
<1>9. CASE DeleteToken(c)
  <2>1. /\ h.todo # <<>> /\ Head(h.todo).do = "del" /\ Pass(c) /\ UNCHANGED activated
        /\ stored' = [stored EXCEPT ![Head(h.todo).on][a] = None]
    BY <1>1, <1>9 DEF DeleteToken, At, Object, h
  <2>2. Working(c)'
    BY <1>1, <2>1, PassPasses DEF Passes, Moves, Working, h
  <2>3. Head(h.todo).on \in Keys
    BY <1>1, <2>1, DelAt, StepFields DEF AtStep, Keys
  <2>4. otp' \in {otp, None} /\ access' \in {access, None}
    BY <1>1, <1>3, <2>1, <2>3 DEF otp, access
  <2> QED
    BY <1>4, <1>7, <2>1, <2>2, <2>4
<1>10. CASE CompareCode(c)
  <2>1. h.todo # <<>> /\ Head(h.todo).do = "check" /\ UNCHANGED <<stored, activated>>
    BY <1>10 DEF CompareCode, At, h
  <2>2. h.op = "completeLogin"
    BY <1>1, <2>1, CheckAt
  <2> QED
    BY <1>4, <1>7, <2>1, <2>2 DEF otp, access
<1>11. CASE UpdateStatus(c)
  <2>1. /\ h.todo # <<>> /\ Head(h.todo).do = "status" /\ Pass(c) /\ UNCHANGED stored
        /\ activated' = IF h.value = h.was THEN activated ELSE With(activated, a, h.value)
    BY <1>1, <1>11 DEF UpdateStatus, At, h
  <2>2. Working(c)'
    BY <1>1, <2>1, PassPasses DEF Passes, Moves, Working, h
  <2>3. h.op \in {"activatePartner", "deactivatePartner"} /\ (h.value <=> h.op = "activatePartner")
    BY <1>1, <2>1, DoAt DEF Scripted, SessionScript
  <2>4. h.op = "activatePartner" => a \in activated' \/ activated' = activated
    BY <2>1, <2>3 DEF With
  <2> QED
    BY <1>4, <1>7, <2>1, <2>2, <2>3, <2>4 DEF otp, access
<1>12. CASE Answer(c)
  <2>1. h.todo = <<>> /\ UNCHANGED <<stored, activated>>
    BY <1>12 DEF Answer, h
  <2>2. h.op \in {"logout", "activatePartner", "deactivatePartner"} => access = None
    BY <2>1 DEF TokensAt, Out, h, access
  <2> QED
    BY <1>1, <1>4, <1>7, <2>1, <2>2 DEF otp, access
<1>13. CASE ComparePassword(c) \/ UpdatePassword(c)
  <2>1. h.todo # <<>> /\ Head(h.todo).do \in {"compare", "password"}
    BY <1>13 DEF ComparePassword, UpdatePassword, At, h
  <2> QED
    BY <1>1, <2>1, DoAt
<1>14. CASE UpdateEntity(c) \/ VisitMember(c) \/ ReadNoRole(c)
  <2>1. h.todo # <<>> /\ Head(h.todo).do \in {"require", "members", "role"}
    BY <1>14 DEF UpdateEntity, VisitMember, ReadNoRole, At, h
  <2> QED
    BY <1>1, <2>1, RequireAt
<1> QED
  BY <1>8, <1>9, <1>10, <1>11, <1>12, <1>13, <1>14 DEF Step

LEMMA DeactivatedStep ==
  TypeInv /\ AloneInv /\ SessionInv /\ DeactivatedInv /\ [Next]_vars => DeactivatedInv'
<1> SUFFICES ASSUME TypeInv, AloneInv, SessionInv, DeactivatedInv, [Next]_vars,
                    NEW a \in Accounts, <<"session", a>> \notin crossed'
             PROVE  Barred(a)'
  BY DEF DeactivatedInv
<1>o. <<"session", a>> \notin crossed => Barred(a)
  BY DEF DeactivatedInv
<1>f. InFlight("session", a)' <=> \E d \in Calls : On(d, "session", a)'
  BY DEF InFlight, On, Working, Touched
<1>1. ASSUME NEW c \in Calls, Start(c) PROVE Barred(a)'
  <2>1. PICK h : Started(h) /\ Begin(c, h)
    BY <1>1, StartStarts
  <2>2. /\ call'[c] = h /\ \A d \in Calls \ {c} : call'[d] = call[d]
        /\ \A d \in Calls \ {c} : On(d, "session", a)' <=> On(d, "session", a)
        /\ ~On(c, "session", a)
        /\ On(c, "session", a)' <=> Topics[h.op] = "session" /\ a \in Touched(h)
        /\ crossed \subseteq crossed' /\ UNCHANGED <<rows, stored, session, asked>>
        /\ On(c, "session", a)' =>
             /\ ~InFlight("session", a)
             /\ h.op = "deactivatePartner" => stored["otp_token"][a] = None
    BY <2>1, OnBegin
  <2>3. Barred(a)
    BY <1>o, <2>2
  <2>4. a \notin activated' => stored'["otp_token"][a] = None
    BY <2>2, <2>3 DEF Barred
  <2>5. a \notin activated' /\ ~InFlight("session", a)' => stored'["access_token"][a] = None
    BY <1>f, <2>2, <2>3, InFlightOn DEF Barred
  <2>6. ASSUME NEW d \in Calls, On(d, "session", a)'
        PROVE  /\ call'[d].op = "deactivatePartner" => stored'["otp_token"][a] = None
               /\ call'[d].op \in {"login", "loginByCode", "completeLogin"} => a \in activated'
               /\ call'[d].op = "logout" /\ a \notin activated' => stored'["access_token"][a] = None
    <3>1. CASE d # c
      BY <2>2, <2>3, <2>6, <3>1 DEF Barred
    <3>2. CASE d = c
      <4>1. /\ h.account \in Accounts /\ h.op \in DOMAIN Topics
            /\ h.op \in {"login", "loginByCode"} => h.account \in activated
            /\ h.op = "completeLogin" => stored["otp_token"][h.account] # None
            /\ h.op = "logout" => stored["access_token"][h.account] # None
        BY <2>1 DEF Started, Scripted
      <4>2. h.account = a
        BY <2>2, <2>6, <3>2, <4>1, TopicsOf, TouchedAccounts
      <4> QED
        BY <2>2, <2>3, <2>6, <3>2, <4>1, <4>2 DEF Barred
    <3> QED
      BY <3>1, <3>2
  <2> QED
    BY <2>4, <2>5, <2>6 DEF Barred
<1>2. ASSUME NEW c \in Calls, Step(c) PROVE Barred(a)'
  <2>1. /\ \A d \in Calls \ {c} : call'[d] = call[d]
        /\ \A d \in Calls \ {c} : On(d, "session", a)' <=> On(d, "session", a)
        /\ On(c, "session", a)' => On(c, "session", a)
        /\ <<"session", a>> \notin crossed /\ (On(c, "session", a) => ~Throw(c))
    BY <1>2, OnStep DEF Frame
  <2>2. CASE On(c, "session", a)
    <3>1. \A d \in Calls \ {c} : ~On(d, "session", a)'
      BY <2>1, <2>2 DEF AloneInv
    <3>2. TokensAt(c, a)
      BY <2>1, <2>2 DEF SessionInv
    <3> QED
      BY <1>2, <1>o, <2>1, <2>2, <3>1, <3>2, BarredMoves
  <2>3. CASE ~On(c, "session", a)
    <3>1. /\ stored'["access_token"][a] = stored["access_token"][a]
          /\ stored'["otp_token"][a] = stored["otp_token"][a]
          /\ (a \in activated' <=> a \in activated)
      BY <1>2, <2>3, SessionKept
    <3>2. \A d \in Calls : On(d, "session", a)' => On(d, "session", a) /\ call'[d] = call[d]
      BY <2>1, <2>3
    <3>3. InFlight("session", a)' <=> InFlight("session", a)
      BY <1>f, <2>1, <2>3, InFlightOn
    <3> QED
      BY <1>o, <2>1, <3>1, <3>2, <3>3 DEF Barred
  <2> QED
    BY <2>2, <2>3
<1>3. ASSUME NEW key \in Keys, NEW b \in Accounts, Expire(key, b) PROVE Barred(a)'
  <2>1. UNCHANGED <<call, crossed, activated>> /\ stored' = [stored EXCEPT ![key][b] = None]
    BY <1>3 DEF Expire
  <2>2. /\ stored \in [Keys -> [Accounts -> Calls \cup {None}]]
        /\ "access_token" \in Keys /\ "otp_token" \in Keys
    BY DEF TypeInv, TypeOK, Keys
  <2>3. /\ stored'["otp_token"][a] \in {stored["otp_token"][a], None}
        /\ stored'["access_token"][a] \in {stored["access_token"][a], None}
    BY <2>1, <2>2
  <2> QED
    BY <1>o, <2>1, <2>3 DEF Barred, On, InFlight, Working, Touched
<1>4. CASE UNCHANGED vars
  BY <1>o, <1>4 DEF vars, Barred, On, InFlight, Working, Touched
<1> QED
  BY <1>1, <1>2, <1>3, <1>4 DEF Next

-----------------------------------------------------------------------------
(* The rows of a team *)

LEMMA OnRequirement ==
  ASSUME TypeInv, NEW c \in Calls, Working(c), NEW a
  PROVE  On(c, "requirement", a) <=>
           call[c].op = "updateLoginOTPRequirement" /\ a \in Touched(call[c])
BY TopicsOf DEF TypeInv, ScriptInv, Scripted, Working, On

LEMMA RowKept ==
  ASSUME TypeInv, NEW c \in Calls, Step(c), NEW a \in Accounts, ~On(c, "requirement", a)
  PROVE  (a \in required' <=> a \in required) /\ (a \in asked' <=> a \in asked)
<1> DEFINE h == call[c]
<1>1. Working(c) /\ Scripted(h) /\ h.account \in Accounts
  <2>1. Working(c)
    BY StepMoves DEF Moves
  <2> QED
    BY <2>1 DEF TypeInv, ScriptInv, Working
<1>2. h.op = "updateLoginOTPRequirement" => a \notin Touched(h)
  BY <1>1, OnRequirement
<1>3. CASE UpdateEntity(c)
  <2>1. h.todo # <<>> /\ Head(h.todo).do = "require"
    BY <1>3 DEF UpdateEntity, At
  <2>2. h.account \in Touched(h)
    BY <1>1, TouchedAccounts
  <2>3. h.op = "updateLoginOTPRequirement" /\ Object(c) \in Touched(h)
    BY <1>1, <2>1, <2>2, RequireAt, StepFields DEF Object, AtStep
  <2>4. Object(c) # a
    BY <1>2, <2>3
  <2> HIDE DEF h
  <2> QED
    BY <1>3, <2>4 DEF UpdateEntity, With
<1>4. CASE Answer(c) \/ ReadNoRole(c)
  <2>1. Record(c) /\ UNCHANGED rows
    BY <1>4 DEF Answer, ReadNoRole
  <2>2. a \in asked' <=> a \in asked
    BY <1>2, <2>1 DEF Record
  <2> QED
    BY <2>1, <2>2
<1>5. CASE SaveToken(c) \/ DeleteToken(c) \/ CompareCode(c) \/ ComparePassword(c)
           \/ UpdatePassword(c) \/ UpdateStatus(c) \/ VisitMember(c) \/ Throw(c)
  BY <1>5 DEF SaveToken, DeleteToken, CompareCode, ComparePassword, UpdatePassword, UpdateStatus,
              VisitMember, Throw
<1> QED
  BY <1>3, <1>4, <1>5 DEF Step

LEMMA RequireApart ==
  /\ \A a : Do("members") # Require(a) /\ Do("role") # Require(a)
  /\ \A a, b : Require(a) = Require(b) => a = b
BY StepFields

(* A handler that is alone on an account writes its row, or leaves it. *)
LEMMA RowMoves ==
  ASSUME TypeInv, NEW c \in Calls, NEW a \in Accounts, On(c, "requirement", a), RowAt(c, a),
         Step(c), ~Throw(c)
  PROVE  /\ Working(c)' => RowAt(c, a)'
         /\ ~Working(c)' => (a \in required' <=> a \in asked')
<1> DEFINE h == call[c]
           g == call'[c]
<1>1. /\ Working(c) /\ TypeOK /\ Scripted(h) /\ h.op = "updateLoginOTPRequirement"
      /\ a \in Touched(h) /\ h \in CallRecords /\ RequirementScript(h)
  <2>1. Working(c)
    BY DEF On
  <2> QED
    BY <2>1, OnRequirement DEF TypeInv, TypeOK, ScriptInv, Working, Scripted
<1>2. g.op = h.op /\ g.value = h.value
  BY StepMoves DEF Moves
<1>3. /\ a \in Ahead(h) => (a \in required <=> a \in asked)
      /\ a \notin Ahead(h) => (a \in required <=> h.value)
      /\ h.todo # <<>> /\ Head(h.todo) = Require(a) => (h.was <=> a \in required)
  BY DEF RowAt
<1>4. RowAt(c, a)' <=>
        /\ a \in Ahead(g) => (a \in required' <=> a \in asked')
        /\ a \notin Ahead(g) => (a \in required' <=> g.value)
        /\ g.todo # <<>> /\ Head(g.todo) = Require(a) => (g.was <=> a \in required')
  BY DEF RowAt, Ahead
<1>5. CASE UpdateEntity(c)
  <2>1. /\ h.todo # <<>> /\ Head(h.todo).do = "require" /\ Pass(c)
        /\ required' = IF h.value = h.was THEN required ELSE With(required, Object(c), h.value)
        /\ UNCHANGED asked
    BY <1>5 DEF UpdateEntity, At
  <2>2. Passes(c)
    BY <1>1, <2>1, PassPasses
  <2>3. PICK m : /\ Head(h.todo) = Require(m) /\ m \notin h.left
                 /\ Tail(h.todo) \in {<<Do("members")>>, <<Do("role")>>}
    <3>1. CASE \E b \in Touched(h) \ h.left :
                 AtStep(h, <<Require(b), Do("members")>>, Require(b), <<Do("members")>>)
      BY <3>1 DEF AtStep
    <3>2. CASE /\ h.left = {}
               /\ AtStep(h, <<Require(h.account), Do("role")>>, Require(h.account), <<Do("role")>>)
      BY <3>2 DEF AtStep
    <3> QED
      BY <1>1, <2>1, <3>1, <3>2, RequireAt
  <2>4. Object(c) = m /\ g.todo = Tail(h.todo) /\ g.left = h.left /\ g.value = h.value /\ Working(c)'
    BY <2>2, <2>3, StepFields DEF Object, Passes, Moves, Working
  <2>5. Ahead(h) = h.left \cup {m} /\ Ahead(g) = h.left
    <3>1. Head(h.todo).do = "require" /\ Head(h.todo).on = m
      BY <2>3, StepFields
    <3>2. Head(g.todo).do # "require"
      <4>1. Head(g.todo) \in {Do("members"), Do("role")}
        BY <2>3, <2>4, Tuples
      <4> QED
        BY <4>1, StepFields
    <3> QED
      BY <2>1, <2>4, <3>1, <3>2 DEF Ahead
  <2>6. ~(g.todo # <<>> /\ Head(g.todo) = Require(a))
    <3>1. Head(g.todo) \in {Do("members"), Do("role")}
      BY <2>3, <2>4, Tuples
    <3> QED
      BY <3>1, RequireApart
  <2>7. h.value \in BOOLEAN /\ h.was \in BOOLEAN
    BY <1>1 DEF CallRecords
  <2> HIDE DEF h, g
  <2>8. CASE a = m
    <3>1. h.was <=> a \in required
      BY <1>3, <2>1, <2>3, <2>8
    <3>2. a \in required' <=> h.value
      BY <2>1, <2>4, <2>7, <2>8, <3>1 DEF With
    <3> QED
      BY <1>4, <2>3, <2>4, <2>5, <2>6, <2>8, <3>2
  <2>9. CASE a # m
    <3>1. a \in required' <=> a \in required
      BY <2>1, <2>4, <2>9 DEF With
    <3> QED
      BY <1>3, <1>4, <2>1, <2>4, <2>5, <2>6, <2>9, <3>1
  <2> QED
    BY <2>8, <2>9
<1>6. CASE VisitMember(c)
  <2>1. h.todo # <<>> /\ Head(h.todo).do = "members" /\ UNCHANGED <<required, asked>>
    BY <1>6 DEF VisitMember, At
  <2>2. h.todo = <<Do("members")>> /\ Tail(h.todo) = <<>>
    BY <1>1, <2>1, RequireAt DEF AtStep
  <2>3. Ahead(h) = h.left
    BY <2>1 DEF Ahead
  <2>4. CASE h.left = {} /\ Pass(c)
    <3>1. Passes(c)
      BY <1>1, <2>1, <2>4, PassPasses
    <3>2. g.todo = <<>> /\ g.left = {} /\ Working(c)'
      BY <2>2, <2>4, <3>1 DEF Passes, Moves, Working
    <3> QED
      BY <1>2, <1>3, <1>4, <2>1, <2>3, <2>4, <3>2 DEF Ahead
  <2>5. ASSUME NEW m \in h.left,
               call' = [call EXCEPT ![c].todo = <<Require(m)>> \o @,
                                    ![c].was = m \in required, ![c].left = @ \ {m}]
        PROVE  RowAt(c, a)' /\ Working(c)'
    <3>1. /\ Moves(c, "working") /\ g.todo = <<Require(m), Do("members")>>
          /\ (g.was <=> m \in required) /\ g.left = h.left \ {m}
      BY <1>1, <2>2, <2>5, VisitMoves
    <3>2. g.todo # <<>> /\ Head(g.todo) = Require(m) /\ Working(c)'
      BY <3>1, Tuples DEF Moves, Working
    <3>3. Ahead(g) = h.left
      <4>1. Head(g.todo).do = "require" /\ Head(g.todo).on = m
        BY <3>2, StepFields
      <4>2. Ahead(g) = (h.left \ {m}) \cup {m}
        BY <3>1, <3>2, <4>1 DEF Ahead
      <4> QED
        BY <2>5, <4>2
    <3> HIDE DEF h, g
    <3>4. g.todo # <<>> /\ Head(g.todo) = Require(a) => (g.was <=> a \in required')
      BY <2>1, <3>1, <3>2, RequireApart
    <3> QED
      BY <1>2, <1>3, <1>4, <2>1, <2>3, <3>2, <3>3, <3>4
  <2> QED
    BY <1>6, <2>4, <2>5 DEF VisitMember
<1>7. CASE Answer(c) \/ ReadNoRole(c)
  <2>1. /\ UNCHANGED required
        /\ asked' = IF h.value THEN asked \cup Touched(h) ELSE asked \ Touched(h)
    BY <1>1, <1>7 DEF Answer, ReadNoRole, Record
  <2>2. Ahead(h) = {}
    <3>1. CASE h.todo = <<>>
      <4>1. h.left = {}
        BY <1>1, <3>1, Tuples DEF RequirementScript
      <4> QED
        BY <3>1, <4>1 DEF Ahead
    <3>2. CASE h.todo # <<>> /\ Head(h.todo).do = "role"
      BY <1>1, <3>2, RequireAt DEF Ahead
    <3> QED
      BY <1>7, <3>1, <3>2 DEF Answer, ReadNoRole, At
  <2>3. a \in required' <=> a \in asked'
    BY <1>1, <1>3, <2>1, <2>2
  <2>4. ~Working(c)'
    BY <1>1, <1>7, CallStops DEF Answer, ReadNoRole, Stops, Moves, Working
  <2> QED
    BY <2>3, <2>4
<1>8. CASE SaveToken(c) \/ DeleteToken(c) \/ CompareCode(c)
  <2>1. h.todo # <<>> /\ Head(h.todo).do \in {"set", "del", "check"}
    BY <1>8 DEF SaveToken, DeleteToken, CompareCode, At
  <2> QED
    BY <1>1, <2>1, SetAt, DelAt, CheckAt
<1>9. CASE ComparePassword(c) \/ UpdatePassword(c) \/ UpdateStatus(c)
  <2>1. h.todo # <<>> /\ Head(h.todo).do \in {"compare", "password", "status"}
    BY <1>9 DEF ComparePassword, UpdatePassword, UpdateStatus, At
  <2> QED
    BY <1>1, <2>1, DoAt
<1> QED
  BY <1>5, <1>6, <1>7, <1>8, <1>9 DEF Step

LEMMA RequirementStep ==
  TypeInv /\ AloneInv /\ RequirementInv /\ [Next]_vars => RequirementInv'
<1> SUFFICES ASSUME TypeInv, AloneInv, RequirementInv, [Next]_vars,
                    NEW a \in Accounts, <<"requirement", a>> \notin crossed'
             PROVE  /\ ~InFlight("requirement", a)' => (a \in required' <=> a \in asked')
                    /\ \A d \in Calls : On(d, "requirement", a)' => RowAt(d, a)'
  BY DEF RequirementInv
<1> DEFINE Goal == /\ ~InFlight("requirement", a)' => (a \in required' <=> a \in asked')
                   /\ \A d \in Calls : On(d, "requirement", a)' => RowAt(d, a)'
<1>f. InFlight("requirement", a)' <=> \E d \in Calls : On(d, "requirement", a)'
  BY DEF InFlight, On, Working, Touched
<1>1. ASSUME NEW c \in Calls, Start(c) PROVE Goal
  <2>1. PICK h : Started(h) /\ Begin(c, h)
    BY <1>1, StartStarts
  <2>2. /\ call'[c] = h /\ \A d \in Calls \ {c} : call'[d] = call[d]
        /\ \A d \in Calls \ {c} : On(d, "requirement", a)' <=> On(d, "requirement", a)
        /\ ~On(c, "requirement", a)
        /\ On(c, "requirement", a)' <=> Topics[h.op] = "requirement" /\ a \in Touched(h)
        /\ crossed \subseteq crossed' /\ UNCHANGED <<rows, stored, session, asked>>
        /\ On(c, "requirement", a)' => ~InFlight("requirement", a)
    BY <2>1, OnBegin
  <2>3. On(c, "requirement", a)' => RowAt(c, a)'
    <3> SUFFICES ASSUME On(c, "requirement", a)' PROVE RowAt(c, a)'
      OBVIOUS
    <3>1. /\ h.op = "updateLoginOTPRequirement" /\ h.todo # <<>>
          /\ Head(h.todo) = Require(h.account)
          /\ (h.was <=> h.account \in required) /\ h.left = Touched(h) \ {h.account}
          /\ h.account \in Accounts /\ a \in Touched(h)
      BY <2>1, <2>2, TopicsOf DEF Started, Scripted
    <3>2. h.account \in Touched(h)
      BY <3>1, TouchedAccounts
    <3>3. Ahead(h) = Touched(h)
      <4>1. Head(h.todo).do = "require" /\ Head(h.todo).on = h.account
        BY <3>1, StepFields
      <4> QED
        BY <3>1, <3>2, <4>1 DEF Ahead
    <3>4. Head(h.todo) = Require(a) => h.account = a
      BY <3>1, RequireApart
    <3>5. a \in required <=> a \in asked
      BY <2>2 DEF RequirementInv
    <3> HIDE DEF Goal
    <3> QED
      BY <2>2, <3>1, <3>3, <3>4, <3>5 DEF RowAt, Ahead
  <2>4. ASSUME NEW d \in Calls \ {c}, On(d, "requirement", a)' PROVE RowAt(d, a)'
    BY <2>2, <2>4 DEF RequirementInv, RowAt, Ahead
  <2>5. ~InFlight("requirement", a)' => (a \in required' <=> a \in asked')
    BY <1>f, <2>2, InFlightOn DEF RequirementInv
  <2> QED
    BY <2>3, <2>4, <2>5
<1>2. ASSUME NEW c \in Calls, Step(c) PROVE Goal
  <2>1. /\ \A d \in Calls \ {c} : call'[d] = call[d]
        /\ \A d \in Calls \ {c} : On(d, "requirement", a)' <=> On(d, "requirement", a)
        /\ On(c, "requirement", a)' => On(c, "requirement", a)
        /\ <<"requirement", a>> \notin crossed /\ (On(c, "requirement", a) => ~Throw(c))
    BY <1>2, OnStep DEF Frame
  <2>2. CASE On(c, "requirement", a)
    <3>1. \A d \in Calls \ {c} : ~On(d, "requirement", a)'
      BY <2>1, <2>2 DEF AloneInv
    <3>2. RowAt(c, a)
      BY <2>1, <2>2 DEF RequirementInv
    <3>3. /\ Working(c)' => RowAt(c, a)'
          /\ ~Working(c)' => (a \in required' <=> a \in asked')
      BY <1>2, <2>1, <2>2, <3>2, RowMoves
    <3>4. On(c, "requirement", a)' <=> Working(c)'
      <4>1. call'[c].op = call[c].op /\ call'[c].account = call[c].account
        BY <1>2, StepMoves DEF Moves
      <4> QED
        BY <2>2, <4>1 DEF On, Touched
    <3> QED
      BY <1>f, <3>1, <3>3, <3>4
  <2>3. CASE ~On(c, "requirement", a)
    <3>1. (a \in required' <=> a \in required) /\ (a \in asked' <=> a \in asked)
      BY <1>2, <2>3, RowKept
    <3>2. ASSUME NEW d \in Calls, On(d, "requirement", a)' PROVE RowAt(d, a)'
      <4>1. d # c /\ On(d, "requirement", a) /\ call'[d] = call[d]
        BY <2>1, <2>3, <3>2
      <4>2. RowAt(d, a)
        BY <2>1, <4>1 DEF RequirementInv
      <4> QED
        BY <3>1, <4>1, <4>2 DEF RowAt, Ahead
    <3>3. ~InFlight("requirement", a)' => (a \in required' <=> a \in asked')
      BY <1>f, <2>1, <2>3, <3>1, InFlightOn DEF RequirementInv
    <3> QED
      BY <3>2, <3>3
  <2> QED
    BY <2>2, <2>3
<1>3. ASSUME UNCHANGED <<required, asked, call, crossed>> PROVE Goal
  BY <1>3 DEF RequirementInv, InFlight, On, Working, Touched, RowAt, Ahead
<1> QED
  BY <1>1, <1>2, <1>3 DEF Next, Expire, vars

-----------------------------------------------------------------------------
(* The tokens and passwords that are used up *)

LEMMA PasswordApart ==
  /\ resetPassword # <<>> /\ <<Do("password"), Del("passwordreset_token")>> # <<>>
  /\ <<Del("passwordreset_token")>> # <<>>
  /\ changePassword # <<Do("password")>> /\ changePassword # <<>> /\ <<Do("password")>> # <<>>
  /\ changePassword # <<Del("passwordreset_token")>>
  /\ <<Do("password")>> # <<Del("passwordreset_token")>>
  /\ <<Do("password"), Del("passwordreset_token")>> # <<Del("passwordreset_token")>>
<1>1. /\ Do("compare") # Do("password") /\ Do("compare") # Del("passwordreset_token")
      /\ Do("password") # Del("passwordreset_token")
  BY StepFields
<1>2. /\ resetPassword # <<>> /\ <<Do("password"), Del("passwordreset_token")>> # <<>>
      /\ <<Del("passwordreset_token")>> # <<>>
  BY Ends, Tuples
<1>3. /\ changePassword # <<Do("password")>> /\ changePassword # <<>> /\ <<Do("password")>> # <<>>
      /\ changePassword # <<Del("passwordreset_token")>>
  BY <1>1, Ends, Tuples
<1>4. /\ <<Do("password")>> # <<Del("passwordreset_token")>>
      /\ <<Do("password"), Del("passwordreset_token")>> # <<Del("passwordreset_token")>>
  BY <1>1, Tuples
<1> QED
  BY <1>2, <1>3, <1>4

(* What a step of a call keeps of its own. *)
LEMMA StepKeeps ==
  ASSUME TypeInv, NEW c \in Calls, Step(c), ~ComparePassword(c)
  PROVE  call'[c].seen = call[c].seen
<1>1. /\ TypeOK /\ Working(c) /\ Scripted(call[c])
  <2>1. Working(c)
    BY StepMoves DEF Moves
  <2> QED
    BY <2>1 DEF TypeInv, ScriptInv, Working
<1>2. ASSUME Pass(c), call[c].todo # <<>> PROVE call'[c].seen = call[c].seen
  BY <1>1, <1>2, PassPasses DEF Passes
<1>3. ASSUME NEW state \in {"answered", "refused", "thrown"},
             call' = [call EXCEPT ![c].state = state]
      PROVE  call'[c].seen = call[c].seen
  BY <1>1, <1>3, CallStops DEF Stops
<1>4. CASE VisitMember(c)
  <2>1. call[c].todo # <<>> /\ Head(call[c].todo).do = "members"
    BY <1>4 DEF VisitMember, At
  <2>2. call[c].todo = <<Do("members")>>
    BY <1>1, <2>1, RequireAt DEF AtStep
  <2> QED
    BY <1>1, <1>2, <1>4, <2>1, <2>2, VisitMoves DEF VisitMember
<1>5. CASE SaveToken(c) \/ DeleteToken(c) \/ UpdatePassword(c) \/ UpdateStatus(c) \/ UpdateEntity(c)
  BY <1>2, <1>5 DEF SaveToken, DeleteToken, UpdatePassword, UpdateStatus, UpdateEntity, At
<1>6. CASE CompareCode(c) \/ Answer(c) \/ ReadNoRole(c) \/ Throw(c)
  BY <1>2, <1>3, <1>6 DEF CompareCode, Answer, ReadNoRole, Throw, At
<1> QED
  BY <1>4, <1>5, <1>6 DEF Step

LEMMA LiveStep ==
  ASSUME TypeInv, NEW c \in Calls, Step(c), NEW a
  PROVE  /\ \A d \in Calls \ {c} : call'[d] = call[d] /\ (Live(d, a)' <=> Live(d, a))
         /\ Live(c, a)' => Live(c, a)
         /\ \A x \in Calls : Written(call[x]) => Written(call'[x])
         /\ call'[c].op = call[c].op
<1> DEFINE h == call[c]
           g == call'[c]
<1>1. /\ Working(c) /\ Frame(c) /\ g.op = h.op /\ g.account = h.account
      /\ g.state \in {"working", "answered", "refused", "thrown"} /\ Scripted(g)
  BY StepMoves DEF Moves
<1>2. Written(h) => Written(g)
  <2> SUFFICES ASSUME Written(h) PROVE Written(g)
    OBVIOUS
  <2>1. TypeOK
    BY DEF TypeInv
  <2>2. h.op \in {"resetPassword", "changePassword"} /\ h.todo \in {<<Del("passwordreset_token")>>, <<>>}
    BY DEF Written
  <2>3. Scripted(h)
    BY <1>1 DEF TypeInv, ScriptInv, Working
  <2>4. CASE h.todo # <<>> /\ Pass(c)
    <3>1. g.todo = Tail(h.todo)
      BY <1>1, <2>1, <2>4, PassPasses DEF Passes
    <3> QED
      BY <1>1, <2>2, <2>4, <3>1, Tuples DEF Written
  <2>5. ASSUME NEW state \in {"answered", "refused", "thrown"},
               call' = [call EXCEPT ![c].state = state]
        PROVE  Written(g)
    <3>1. g.todo = h.todo
      BY <1>1, <2>1, <2>5, CallStops DEF Stops
    <3> QED
      BY <1>1, <2>2, <3>1 DEF Written
  <2>6. CASE SaveToken(c) \/ DeleteToken(c) \/ UpdatePassword(c) \/ UpdateStatus(c) \/ UpdateEntity(c)
    BY <2>4, <2>6 DEF SaveToken, DeleteToken, UpdatePassword, UpdateStatus, UpdateEntity, At
  <2>7. CASE CompareCode(c) \/ Answer(c) \/ ReadNoRole(c) \/ Throw(c)
    BY <2>4, <2>5, <2>7 DEF CompareCode, Answer, ReadNoRole, Throw, At
  <2>8. CASE ComparePassword(c)
    <3>1. h.todo # <<>> /\ Head(h.todo).do = "compare"
      BY <2>8 DEF ComparePassword, At
    <3>2. h.todo = changePassword
      BY <2>3, <3>1, DoAt DEF AtStep
    <3> QED
      BY <2>2, <3>2, PasswordApart
  <2>9. CASE VisitMember(c)
    <3>1. h.todo # <<>> /\ Head(h.todo).do = "members"
      BY <2>9 DEF VisitMember, At
    <3> QED
      BY <2>2, <2>3, <3>1, RequireAt
  <2> QED
    BY <2>6, <2>7, <2>8, <2>9 DEF Step
<1>3. \A d \in Calls \ {c} : call'[d] = call[d] /\ (Live(d, a)' <=> Live(d, a))
  BY <1>1 DEF Frame, Live
<1>4. Live(c, a)' => Live(c, a)
  BY <1>1 DEF Live, Working
<1> QED
  BY <1>1, <1>2, <1>3, <1>4

(* Most steps neither use a token or a password up nor set a password. *)
LEMMA QuietPasswords ==
  ASSUME TypeInv, NEW c \in Calls, Step(c), NEW a \in Accounts, PasswordKept(a),
         password'[a] = password[a],
         stored'["passwordreset_token"][a] \in {stored["passwordreset_token"][a], None, c},
         Live(c, a)' => 
           /\ call'[c].seen = call[c].seen
           /\ call'[c].op = "resetPassword" /\ call'[c].todo = <<>> =>
                stored'["passwordreset_token"][a] # call'[c].seen
           /\ Compared(call'[c]) =>
                Compared(call[c]) /\ (call'[c].todo = <<>> <=> call[c].todo = <<>>)
  PROVE  PasswordKept(a)'
<1>1. /\ \A d \in Calls \ {c} : call'[d] = call[d] /\ (Live(d, a)' <=> Live(d, a))
      /\ Live(c, a)' => Live(c, a)
      /\ \A x \in Calls : Written(call[x]) => Written(call'[x])
      /\ call'[c].op = call[c].op
  BY LiveStep
<1>2. /\ password[a] \in Calls \cup {None} /\ \A d \in Calls : call[d].seen \in Calls \cup {None}
      /\ Working(c)
  BY StepMoves DEF TypeInv, TypeOK, CallRecords, Moves
<1>3. password'[a] # None => Written(call'[password'[a]])
  BY <1>1, <1>2 DEF PasswordKept
<1>4. ASSUME NEW d \in Calls, Live(d, a)'
      PROVE  ResetAt(d, a)' /\ ChangeAt(d, a)'
  <2>1. Live(d, a) /\ ResetAt(d, a) /\ ChangeAt(d, a) /\ call'[d].seen = call[d].seen
    BY <1>1, <1>4 DEF PasswordKept
  <2>2. ResetAt(d, a)'
    <3>1. CASE d = c
      BY <1>4, <3>1 DEF ResetAt
    <3>2. CASE d # c
      <4> SUFFICES ASSUME call[d].op = "resetPassword", call[d].todo = <<>>
                   PROVE  stored'["passwordreset_token"][a] # call[d].seen
        BY <1>1, <3>2 DEF ResetAt
      <4>1. call[d].seen \in Calls /\ call[call[d].seen].state = "answered"
        BY <2>1 DEF TypeInv, ScriptInv, Scripted, PasswordScript, Live
      <4>2. call[d].seen # c /\ call[d].seen # None
        BY <1>2, <4>1, NoneAssumption DEF Working, Calls
      <4> QED
        BY <2>1, <4>2 DEF ResetAt
    <3> QED
      BY <3>1, <3>2
  <2>3. ChangeAt(d, a)'
    <3> SUFFICES ASSUME Compared(call'[d])
                 PROVE  /\ call'[d].seen # None => Written(call'[call'[d].seen])
                        /\ call'[d].todo = <<>> => password'[a] # call'[d].seen
                        /\ call'[d].todo # <<>> => password'[a] = call'[d].seen
      BY DEF ChangeAt, Written
    <3>1. Compared(call[d]) /\ (call'[d].todo = <<>> <=> call[d].todo = <<>>)
      BY <1>1, <1>4
    <3> QED
      BY <1>1, <1>2, <2>1, <3>1 DEF ChangeAt
  <2> QED
    BY <2>2, <2>3
<1>5. ASSUME NEW d \in Calls, NEW e \in Calls, d # e, Live(d, a)', Live(e, a)',
             Uses(call'[d]), Uses(call'[e]), call'[d].op = call'[e].op
      PROVE  call'[d].seen # call'[e].seen
  <2>1. Live(d, a) /\ Live(e, a) /\ call'[d].seen = call[d].seen /\ call'[e].seen = call[e].seen
    BY <1>1, <1>5
  <2>2. Uses(call[d]) /\ Uses(call[e]) /\ call[d].op = call[e].op
    BY <1>1, <1>5 DEF Uses
  <2> QED
    BY <1>5, <2>1, <2>2 DEF PasswordKept
<1> HIDE DEF Live, Uses
<1> QED
  BY <1>3, <1>4, <1>5 DEF PasswordKept, Live, Uses, Written, Compared

LEMMA OnPassword ==
  ASSUME TypeInv, NEW c \in Calls, Working(c), NEW a \in Accounts
  PROVE  On(c, "password", a) <=>
           call[c].op \in {"resetPassword", "changePassword"} /\ call[c].account = a
<1>1. call[c].op \in DOMAIN Topics /\ call[c].account \in Accounts
  BY DEF TypeInv, ScriptInv, Scripted, Working
<1> QED
  BY <1>1, TopicsOf, TouchedAccounts DEF On

(* A handler that is alone compares the password, or sets it. *)
LEMMA ChangeMoves ==
  ASSUME TypeInv, NEW c \in Calls, NEW a \in Accounts, PasswordKept(a), call[c].account = a,
         ComparePassword(c) \/ UpdatePassword(c),
         \A d \in Calls \ {c} : ~On(d, "password", a)
  PROVE  PasswordKept(a)'
<1> DEFINE h == call[c]
           g == call'[c]
<1>0. Step(c)
  BY DEF Step
<1>1. /\ \A d \in Calls \ {c} : call'[d] = call[d] /\ (Live(d, a)' <=> Live(d, a))
      /\ Live(c, a)' => Live(c, a)
      /\ \A x \in Calls : Written(call[x]) => Written(call'[x])
      /\ g.op = h.op
  BY <1>0, LiveStep
<1>2. /\ TypeOK /\ Working(c) /\ Scripted(h) /\ h.account \in Accounts
      /\ password \in [Accounts -> Calls \cup {None}]
      /\ \A d \in Calls : call[d].seen \in Calls \cup {None}
  <2>1. Working(c) /\ TypeOK
    BY <1>0, StepMoves DEF Moves, TypeInv
  <2> QED
    BY <2>1 DEF TypeInv, TypeOK, CallRecords, ScriptInv, Working
(* The others that live have been answered and are done. *)
<1>3. \A d \in Calls \ {c} : Live(d, a) /\ Uses(call[d]) => call[d].todo = <<>>
  <2> SUFFICES ASSUME NEW d \in Calls \ {c}, Live(d, a), Uses(call[d]) PROVE call[d].todo = <<>>
    OBVIOUS
  <2>1. ~Working(d)
    BY OnPassword DEF Live, Uses, Compared
  <2> QED
    BY <2>1 DEF Live, Working, TypeInv, ScriptInv
<1>4. \A d \in Calls \ {c} : ResetAt(d, a)' <=> ResetAt(d, a)
  BY <1>0, <1>1 DEF ResetAt, ComparePassword, UpdatePassword
<1>5. CASE ComparePassword(c)
  <2>1. /\ h.todo # <<>> /\ Head(h.todo).do = "compare" /\ UNCHANGED <<rows, stored>>
        /\ g.todo = Tail(h.todo) /\ g.seen = password[a]
    BY <1>2, <1>5, CompareMoves DEF ComparePassword, At
  <2>2. h.op = "changePassword" /\ g.op = "changePassword" /\ g.todo = <<Do("password")>>
    BY <1>1, <1>2, <2>1, DoAt DEF AtStep
  <2> HIDE DEF h, g
  <2>3. password'[a] # None => Written(call'[password'[a]])
    BY <1>1, <1>2, <2>1 DEF PasswordKept
  <2>4. ASSUME NEW d \in Calls, Live(d, a)' PROVE ResetAt(d, a)' /\ ChangeAt(d, a)'
    <3>1. CASE d = c
      BY <2>1, <2>2, <2>3, <3>1, PasswordApart DEF ResetAt, ChangeAt, Written, g
    <3>2. CASE d # c
      <4>1. ResetAt(d, a) /\ ChangeAt(d, a) /\ call'[d] = call[d]
        BY <1>1, <2>4, <3>2 DEF PasswordKept
      <4>2. ChangeAt(d, a)'
        BY <1>1, <1>2, <2>1, <3>2, <4>1 DEF ChangeAt, Written
      <4> QED
        BY <1>4, <3>2, <4>1, <4>2
    <3> QED
      BY <3>1, <3>2
  <2>5. ASSUME NEW d \in Calls \ {c}, Live(d, a)', Uses(call'[d]), call'[d].op = "changePassword"
        PROVE  call'[d].seen # password[a]
    <3>1. Live(d, a) /\ Uses(call[d]) /\ call'[d] = call[d]
      BY <1>1, <2>5
    <3> QED
      BY <1>3, <2>5, <3>1 DEF PasswordKept, ChangeAt, Uses
  <2>6. ASSUME NEW d \in Calls, NEW e \in Calls, d # e, Live(d, a)', Live(e, a)',
               Uses(call'[d]), Uses(call'[e]), call'[d].op = call'[e].op
        PROVE  call'[d].seen # call'[e].seen
    <3>1. CASE d # c /\ e # c
      BY <1>1, <2>6, <3>1 DEF PasswordKept
    <3>2. CASE d = c \/ e = c
      BY <2>1, <2>2, <2>5, <2>6, <3>2 DEF g
    <3> QED
      BY <3>1, <3>2
  <2> QED
    BY <2>3, <2>4, <2>6 DEF PasswordKept, Live, Uses, Written, Compared
<1>6. CASE UpdatePassword(c)
  <2>1. /\ h.todo # <<>> /\ Head(h.todo).do = "password" /\ UNCHANGED stored
        /\ password' = [password EXCEPT ![a] = c] /\ Pass(c)
    BY <1>6 DEF UpdatePassword, At
  <2>2. g.todo = Tail(h.todo) /\ g.seen = h.seen /\ g.state = "working"
    BY <1>2, <2>1, PassPasses DEF Passes, Moves
  <2>3. \/ h.op = "changePassword" /\ h.todo = <<Do("password")>> /\ g.todo = <<>>
        \/ /\ h.op = "resetPassword" /\ h.todo = <<Do("password"), Del("passwordreset_token")>>
           /\ g.todo = <<Del("passwordreset_token")>>
    BY <1>2, <2>1, <2>2, DoAt DEF AtStep
  <2>4. password'[a] = c /\ Written(g) /\ ~Written(h)
    BY <1>1, <1>2, <2>1, <2>2, <2>3, PasswordApart DEF Written
  <2>5. Live(c, a) /\ (Uses(g) <=> Uses(h))
    BY <1>1, <1>2, <2>3, PasswordApart DEF Uses, Compared, Live, Working
  <2>n. c # None
    BY NoneAssumption DEF Calls
  <2> HIDE DEF h, g
  <2>6. password'[a] # None => Written(call'[password'[a]])
    BY <2>4 DEF g
  <2>7. ASSUME NEW d \in Calls, Live(d, a), Compared(call[d])
        PROVE  call[d].seen # c
    <3>1. call[d].seen # None => Written(call[call[d].seen])
      BY <2>7 DEF PasswordKept, ChangeAt
    <3> QED
      BY <1>2, <2>4, <2>n, <3>1 DEF h
  <2>8. ASSUME NEW d \in Calls, Live(d, a)' PROVE ResetAt(d, a)' /\ ChangeAt(d, a)'
    <3>1. CASE d = c
      <4>1. ResetAt(c, a)'
        BY <1>1, <2>3, PasswordApart DEF ResetAt, g
      <4>2. ASSUME Compared(g)
            PROVE  /\ g.seen # None => Written(call'[g.seen])
                   /\ g.todo = <<>> => password'[a] # g.seen
                   /\ g.todo # <<>> => password'[a] = g.seen
        <5>1. h.op = "changePassword" /\ g.todo = <<>>
          BY <1>1, <2>3, <4>2 DEF Compared
        <5>2. Compared(h)
          BY <2>3, <5>1, PasswordApart DEF Compared
        <5>3. h.seen # None => Written(call[h.seen])
          BY <2>5, <5>2 DEF PasswordKept, ChangeAt, h
        <5>4. h.seen # c
          BY <2>5, <2>7, <5>2 DEF h
        <5> QED
          BY <1>1, <1>2, <2>2, <2>4, <5>1, <5>3, <5>4 DEF h
      <4>3. ChangeAt(c, a)'
        BY <4>2 DEF ChangeAt, Compared, Written, g
      <4> QED
        BY <3>1, <4>1, <4>3
    <3>2. CASE d # c
      <4>1. Live(d, a) /\ ResetAt(d, a) /\ ChangeAt(d, a) /\ call'[d] = call[d]
        BY <1>1, <2>8, <3>2 DEF PasswordKept
      <4>2. ChangeAt(d, a)'
        <5> SUFFICES ASSUME Compared(call[d])
                     PROVE  /\ call[d].seen # None => Written(call'[call[d].seen])
                            /\ call[d].todo = <<>> => password'[a] # call[d].seen
                            /\ call[d].todo # <<>> => password'[a] = call[d].seen
          BY <4>1 DEF ChangeAt, Compared, Written
        <5>1. call[d].todo = <<>>
          BY <1>3, <3>2, <4>1 DEF Uses
        <5>2. call[d].seen # c
          BY <2>7, <4>1
        <5> QED
          BY <1>1, <1>2, <2>4, <4>1, <5>1, <5>2 DEF ChangeAt
      <4> QED
        BY <1>4, <3>2, <4>1, <4>2
    <3> QED
      BY <3>1, <3>2
  <2>9. ASSUME NEW d \in Calls, NEW e \in Calls, d # e, Live(d, a)', Live(e, a)',
               Uses(call'[d]), Uses(call'[e]), call'[d].op = call'[e].op
        PROVE  call'[d].seen # call'[e].seen
    <3>1. \A x \in {d, e} : /\ Live(x, a) /\ Uses(call[x])
                            /\ call'[x].op = call[x].op /\ call'[x].seen = call[x].seen
      BY <1>1, <2>2, <2>5, <2>9 DEF h, g
    <3> QED
      BY <2>9, <3>1 DEF PasswordKept
  <2> QED
    BY <2>6, <2>8, <2>9 DEF PasswordKept, Live, Uses, Written, Compared
<1> QED
  BY <1>5, <1>6

LEMMA PasswordStep ==
  TypeInv /\ AloneInv /\ PasswordInv /\ [Next]_vars => PasswordInv'
<1> SUFFICES ASSUME TypeInv, AloneInv, PasswordInv, [Next]_vars,
                    NEW a \in Accounts, <<"password", a>> \notin crossed'
             PROVE  PasswordKept(a)'
  BY DEF PasswordInv
<1>o. <<"password", a>> \notin crossed => PasswordKept(a)
  BY DEF PasswordInv
<1>t. /\ stored \in [Keys -> [Accounts -> Calls \cup {None}]]
      /\ password \in [Accounts -> Calls \cup {None}]
      /\ \A d \in Calls : call[d].seen \in Calls \cup {None}
      /\ "passwordreset_token" \in Keys /\ TypeOK
  BY DEF TypeInv, TypeOK, CallRecords, Keys
<1>1. ASSUME NEW c \in Calls, Start(c) PROVE PasswordKept(a)'
  <2>1. PICK h : Started(h) /\ Begin(c, h)
    BY <1>1, StartStarts
  <2>2. /\ call'[c] = h /\ \A d \in Calls \ {c} : call'[d] = call[d]
        /\ On(c, "password", a)' <=> Topics[h.op] = "password" /\ a \in Touched(h)
        /\ crossed \subseteq crossed' /\ UNCHANGED <<rows, stored, session, asked>>
        /\ On(c, "password", a)' => ~InFlight("password", a)
    BY <2>1, OnBegin
  <2>3. call[c].state = "new" /\ h \in CallRecords /\ h.state = "working"
    BY <2>1 DEF Begin, Started
  <2>4. PasswordKept(a)
    BY <1>o, <2>2
  <2>5. \A x \in Calls : Written(call[x]) => Written(call'[x])
    BY <2>2, <2>3 DEF Written
  <2>6. ~Compared(h) /\ (h.op = "resetPassword" => h.todo # <<>>)
    BY <2>1, PasswordApart DEF Started, Compared
  <2>7. \A d \in Calls \ {c} : Live(d, a)' <=> Live(d, a)
    BY <2>2 DEF Live
  <2>8. password'[a] # None => Written(call'[password'[a]])
    BY <1>t, <2>2, <2>4, <2>5 DEF PasswordKept
  <2>9. ASSUME NEW d \in Calls, Live(d, a)' PROVE ResetAt(d, a)' /\ ChangeAt(d, a)'
    <3>1. CASE d = c
      BY <2>2, <2>6, <3>1 DEF ResetAt, ChangeAt, Compared, Written
    <3>2. CASE d # c
      <4>1. ResetAt(d, a) /\ ChangeAt(d, a) /\ call'[d] = call[d]
        BY <2>2, <2>4, <2>7, <2>9, <3>2 DEF PasswordKept
      <4>2. ResetAt(d, a)'
        BY <2>2, <4>1 DEF ResetAt
      <4>3. ChangeAt(d, a)'
        BY <1>t, <2>2, <2>5, <4>1 DEF ChangeAt, Compared, Written
      <4> QED
        BY <4>2, <4>3
    <3> QED
      BY <3>1, <3>2
  (* A reset that begins has a token that no reset so far has used up. *)
  <2>10. ASSUME NEW d \in Calls \ {c}, Live(d, a)', Live(c, a)', Uses(call'[d]), Uses(h),
                call'[d].op = h.op
         PROVE  call'[d].seen # h.seen
    <3>1. /\ h.op = "resetPassword" /\ h.account = a
          /\ h.seen = stored["passwordreset_token"][a]
      BY <2>1, <2>2, <2>6, <2>10 DEF Uses, Live, Started
    <3>2. ~InFlight("password", a)
      BY <2>1, <2>2, <3>1, TopicsOf, TouchedAccounts DEF Started, Scripted
    <3>3. Live(d, a) /\ call'[d] = call[d] /\ call[d].op = "resetPassword"
      BY <2>2, <2>7, <2>10, <3>1
    <3>4. call[d].state = "answered"
      BY <3>2, <3>3, InFlightOn, OnPassword DEF Live, Working
    <3>5. call[d].todo = <<>>
      BY <3>4 DEF TypeInv, ScriptInv
    <3> QED
      BY <2>4, <3>1, <3>3, <3>5 DEF PasswordKept, ResetAt
  <2>11. ASSUME NEW d \in Calls, NEW e \in Calls, d # e, Live(d, a)', Live(e, a)',
                Uses(call'[d]), Uses(call'[e]), call'[d].op = call'[e].op
         PROVE  call'[d].seen # call'[e].seen
    <3>1. CASE d # c /\ e # c
      BY <2>2, <2>4, <2>7, <2>11, <3>1 DEF PasswordKept
    <3>2. CASE d = c
      BY <2>2, <2>10, <2>11, <3>2
    <3>3. CASE e = c
      BY <2>2, <2>10, <2>11, <3>3
    <3> QED
      BY <3>1, <3>2, <3>3
  <2> QED
    BY <2>8, <2>9, <2>11 DEF PasswordKept, Live, Uses, Written, Compared
<1>2. ASSUME NEW c \in Calls, Step(c) PROVE PasswordKept(a)'
  <2> DEFINE h == call[c]
             g == call'[c]
  <2>1. /\ PasswordKept(a) /\ Working(c) /\ Scripted(h) /\ h.account \in Accounts
    <3>1. Working(c) /\ crossed \subseteq crossed'
      BY <1>2, OnStep, StepMoves DEF Moves
    <3> QED
      BY <1>o, <3>1 DEF TypeInv, ScriptInv, Working
  <2>2. g.op = h.op /\ g.account = h.account /\ (Live(c, a)' => h.account = a)
    BY <1>2, StepMoves DEF Moves, Live
  <2>3. ~Uses(g) \/ h.op \in {"resetPassword", "changePassword"}
    BY <2>2 DEF Uses, Compared
  <2>4. CASE h.account = a /\ (ComparePassword(c) \/ UpdatePassword(c))
    <3>1. h.todo # <<>> /\ Head(h.todo).do \in {"compare", "password"}
      BY <2>4 DEF ComparePassword, UpdatePassword, At
    <3>2. On(c, "password", a)
      BY <2>1, <2>4, <3>1, DoAt, OnPassword
    <3>3. <<"password", a>> \notin crossed
      BY <1>2, OnStep
    <3>4. \A d \in Calls \ {c} : ~On(d, "password", a)
      BY <3>2, <3>3 DEF AloneInv
    <3> QED
      BY <2>1, <2>4, <3>4, ChangeMoves
  <2>5. CASE h.account # a /\ (ComparePassword(c) \/ UpdatePassword(c))
    <3>1. password'[a] = password[a] /\ stored' = stored
      BY <1>t, <2>1, <2>5 DEF ComparePassword, UpdatePassword
    <3> QED
      BY <1>2, <2>1, <2>2, <2>5, <3>1, QuietPasswords
  <2>6. ASSUME ~ComparePassword(c), ~UpdatePassword(c)
        PROVE  password' = password /\ g.seen = h.seen
    <3>1. password' = password
      BY <1>2, <2>6 DEF Step, SaveToken, DeleteToken, CompareCode, UpdateStatus, UpdateEntity,
                        VisitMember, Answer, ReadNoRole, Throw
    <3> QED
      BY <1>2, <2>6, <3>1, StepKeeps
  <2>7. CASE SaveToken(c)
    <3>1. /\ h.todo # <<>> /\ Head(h.todo).do = "set"
          /\ stored' = [stored EXCEPT ![Object(c)][h.account] = c] /\ UNCHANGED rows
      BY <2>7 DEF SaveToken, At
    <3>2. h.op \notin {"resetPassword", "changePassword"}
      BY <2>1, <3>1, SetAt
    <3>3. stored'["passwordreset_token"][a] \in {stored["passwordreset_token"][a], c}
      BY <1>t, <3>1
    <3>4. ~ComparePassword(c) /\ ~UpdatePassword(c)
      BY <3>1 DEF ComparePassword, UpdatePassword, At
    <3> QED
      BY <1>2, <2>1, <2>2, <2>6, <3>2, <3>3, <3>4, QuietPasswords DEF Compared
  <2>8. CASE DeleteToken(c)
    <3>1. /\ h.todo # <<>> /\ Head(h.todo).do = "del"
          /\ stored' = [stored EXCEPT ![Head(h.todo).on][h.account] = None] /\ UNCHANGED rows
      BY <2>8 DEF DeleteToken, At, Object
    <3>2. h.op # "changePassword"
      BY <2>1, <3>1, DelAt
    <3>3. stored'["passwordreset_token"][a] \in {stored["passwordreset_token"][a], None}
      BY <1>t, <3>1
    <3>4. ~ComparePassword(c) /\ ~UpdatePassword(c)
      BY <3>1 DEF ComparePassword, UpdatePassword, At
    <3>5. h.op = "resetPassword" /\ h.account = a => stored'["passwordreset_token"][a] # h.seen
      <4>1. h.op = "resetPassword" => Head(h.todo).on = "passwordreset_token" /\ h.seen \in Calls
        BY <2>1, <3>1, DelAt, StepFields DEF AtStep, Scripted, PasswordScript
      <4> QED
        BY <1>t, <3>1, <4>1, NoneAssumption DEF Calls
    <3> QED
      BY <1>2, <2>1, <2>2, <2>6, <3>2, <3>3, <3>4, <3>5, QuietPasswords DEF Compared
  <2>9. CASE CompareCode(c)
    <3>1. /\ h.todo # <<>> /\ Head(h.todo).do = "check" /\ UNCHANGED <<rows, stored>>
          /\ Pass(c) \/ call' = [call EXCEPT ![c].state = "refused"]
      BY <2>9 DEF CompareCode, At
    <3>2. ~ComparePassword(c) /\ ~UpdatePassword(c)
      BY <3>1 DEF ComparePassword, UpdatePassword, At
    <3>3. h.op # "changePassword"
      BY <2>1, <3>1, CheckAt
    <3>4. Live(c, a)' /\ h.op = "resetPassword" => g.todo # <<>>
      <4>1. CASE Pass(c)
        <5>1. g.todo = Tail(h.todo)
          BY <1>t, <2>1, <3>1, <4>1, PassPasses DEF Passes
        <5> QED
          BY <2>1, <3>1, <5>1, CheckAt, PasswordApart DEF AtStep
      <4>2. CASE call' = [call EXCEPT ![c].state = "refused"]
        BY <1>t, <2>1, <4>2, CallStops DEF Stops, Moves, Live
      <4> QED
        BY <3>1, <4>1, <4>2
    <3> QED
      BY <1>2, <2>1, <2>2, <2>6, <3>1, <3>2, <3>3, <3>4, QuietPasswords DEF Compared
  <2>10. CASE UpdateStatus(c) \/ UpdateEntity(c) \/ VisitMember(c)
    <3>1. /\ h.todo # <<>> /\ Head(h.todo).do \in {"status", "require", "members"}
          /\ UNCHANGED stored
      BY <2>10 DEF UpdateStatus, UpdateEntity, VisitMember, At
    <3>2. ~ComparePassword(c) /\ ~UpdatePassword(c)
      BY <3>1 DEF ComparePassword, UpdatePassword, At
    <3>3. h.op \notin {"resetPassword", "changePassword"}
      BY <2>1, <3>1, DoAt, RequireAt
    <3> QED
      BY <1>2, <2>1, <2>2, <2>6, <3>1, <3>2, <3>3, QuietPasswords DEF Compared
  <2>11. CASE Answer(c)
    <3>1. /\ h.todo = <<>> /\ UNCHANGED <<rows, stored>>
          /\ call' = [call EXCEPT ![c].state = "answered"]
      BY <2>11 DEF Answer
    <3>2. ~ComparePassword(c) /\ ~UpdatePassword(c)
      BY <3>1 DEF ComparePassword, UpdatePassword, At
    <3>3. g.todo = h.todo
      BY <1>t, <2>1, <3>1, CallStops DEF Stops
    <3>4. Live(c, a)' => ResetAt(c, a)
      BY <2>1, <2>2 DEF PasswordKept, Live, Working
    <3> QED
      BY <1>2, <2>1, <2>2, <2>6, <3>1, <3>2, <3>3, <3>4, QuietPasswords DEF Compared, ResetAt
  <2>12. CASE ReadNoRole(c) \/ Throw(c)
    <3>1. UNCHANGED <<rows, stored>> /\ call' = [call EXCEPT ![c].state = "thrown"]
      BY <2>12 DEF ReadNoRole, Throw
    <3>2. ~Live(c, a)'
      BY <1>t, <2>1, <3>1, CallStops DEF Stops, Moves, Live
    <3> QED
      BY <1>2, <2>1, <3>1, <3>2, QuietPasswords
  <2> QED
    BY <1>2, <2>4, <2>5, <2>7, <2>8, <2>9, <2>10, <2>11, <2>12 DEF Step
<1>3. ASSUME NEW key \in Keys, NEW b \in Accounts, Expire(key, b) PROVE PasswordKept(a)'
  <2>1. UNCHANGED <<rows, call, crossed>> /\ stored' = [stored EXCEPT ![key][b] = None]
    BY <1>3 DEF Expire
  <2>2. stored'["passwordreset_token"][a] \in {stored["passwordreset_token"][a], None}
    BY <1>t, <2>1
  <2>3. ASSUME NEW d \in Calls, Live(d, a)' PROVE ResetAt(d, a)'
    <3>1. Live(d, a) /\ ResetAt(d, a)
      BY <1>o, <2>1, <2>3 DEF Live, PasswordKept
    <3>2. call[d].op = "resetPassword" => call[d].seen # None
      BY <3>1, NoneAssumption DEF Live, TypeInv, ScriptInv, Scripted, PasswordScript, Calls
    <3> QED
      BY <2>1, <2>2, <3>1, <3>2 DEF ResetAt
  <2> QED
    BY <1>o, <2>1, <2>3 DEF PasswordKept, Live, ChangeAt, Uses, Written, Compared
<1>4. CASE UNCHANGED vars
  BY <1>o, <1>4 DEF vars, PasswordKept, Live, ResetAt, ChangeAt, Uses, Written, Compared
<1> QED
  BY <1>1, <1>2, <1>3, <1>4 DEF Next

-----------------------------------------------------------------------------
(* The theorems *)

AllInv ==
  TypeInv /\ AloneInv /\ SessionInv /\ DeactivatedInv /\ RequirementInv /\ PasswordInv

LEMMA InitAll == Init => AllInv
<1> SUFFICES ASSUME Init PROVE AllInv
  OBVIOUS
<1>1. TypeInv
  BY InitTypes
<1>2. \A c \in Calls : call[c].state = "new"
  BY DEF Init, Idle
<1>3. \A c \in Calls : \A topic, a : ~On(c, topic, a)
  BY <1>2 DEF On, Working
<1>4. /\ \A a \in Accounts : password[a] = None /\ session[a] = None /\ ~InFlight("session", a)
      /\ \A a \in Accounts, key \in Keys : stored[key][a] = None
      /\ \A a : a \in required <=> a \in asked
  BY <1>2 DEF Init, InFlight, Working
<1>5. {"access_token", "refresh_token", "otp_token"} \subseteq Keys
  BY DEF Keys
<1>6. AloneInv
  BY <1>3 DEF AloneInv
<1>7. SessionInv
  BY <1>3, <1>4, <1>5 DEF SessionInv, Rest
<1>8. DeactivatedInv
  BY <1>3, <1>4, <1>5 DEF DeactivatedInv, Barred
<1>9. RequirementInv
  BY <1>3, <1>4 DEF RequirementInv
<1>10. PasswordInv
  BY <1>2, <1>4 DEF PasswordInv, PasswordKept, Live
<1> QED
  BY <1>1, <1>6, <1>7, <1>8, <1>9, <1>10 DEF AllInv

LEMMA AllStep == AllInv /\ [Next]_vars => AllInv'
BY TypeStep, AloneStep, SessionStep, DeactivatedStep, RequirementStep, PasswordStep DEF AllInv

(* Redis holds the session that an account's calls ended with, and an account *)
(* logs in as it was last asked to, where those calls did not overlap.        *)
THEOREM SessionsAsAsked == Spec => []AsAsked
<1>1. AllInv => AsAsked
  BY DEF AllInv, SessionInv, Rest, RequirementInv, AsAsked
<1> QED
  BY <1>1, InitAll, AllStep, PTL DEF Spec

(* An account that is deactivated has no session, unless a login was under    *)
(* way when it was.                                                           *)
THEOREM DeactivatedAreOut == Spec => []DeactivatedIsOut
<1>1. AllInv => DeactivatedIsOut
  BY DEF AllInv, DeactivatedInv, Barred, DeactivatedIsOut
<1> QED
  BY <1>1, InitAll, AllStep, PTL DEF Spec

(* No token of a reset and no old password serves two changes, unless they    *)
(* overlapped or one of them was cut off.                                     *)
THEOREM ChangedOnce == Spec => []ChangesOnce
<1>1. AllInv => ChangesOnce
  <2> SUFFICES ASSUME AllInv, NEW c \in Calls, NEW d \in Calls,
                      c # d, call[c].state = "answered", call[d].state = "answered",
                      Topics[call[c].op] = "password", call[c].op = call[d].op,
                      call[c].account = call[d].account, call[c].seen = call[d].seen,
                      <<"password", call[c].account>> \notin crossed
               PROVE  FALSE
    BY DEF ChangesOnce
  <2> DEFINE a == call[c].account
  <2>1. /\ a \in Accounts /\ call[c].op \in {"resetPassword", "changePassword"}
        /\ call[c].todo = <<>> /\ call[d].todo = <<>>
    BY TopicsOf DEF AllInv, TypeInv, ScriptInv, Scripted
  <2>2. Live(c, a) /\ Live(d, a) /\ Uses(call[c]) /\ Uses(call[d])
    BY <2>1, PasswordApart DEF Live, Uses, Compared
  <2> QED
    BY <2>1, <2>2 DEF AllInv, PasswordInv, PasswordKept
<1> QED
  BY <1>1, InitAll, AllStep, PTL DEF Spec
=============================================================================
