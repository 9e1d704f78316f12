------------------------------ MODULE VendPromise ------------------------------
(***************************************************************************)
(* What the vending of one electricity transaction promises, whatever the  *)
(* vendors, the retries and the crashes: the customer's money buys at most *)
(* one vend at a time and one delivery in all, and a token is announced    *)
(* only when a vendor delivered it.                                        *)
(***************************************************************************)
CONSTANT Vends

VARIABLES
  live,   \* vends a vendor accepted and has not turned down
  done,   \* vends a vendor delivered
  told    \* the token was announced

vars == <<live, done, told>>

Init == live = {} /\ done = {} /\ told = FALSE

(* A vendor accepts a vend, at once delivered or not, when none is alive.  *)
Start(p) ==
  /\ p \in Vends
  /\ live = {}
  /\ live' = {p}
  /\ done' \in {{}, {p}}
  /\ UNCHANGED told

Deliver(p) ==
  /\ p \in live /\ done = {}
  /\ done' = {p}
  /\ UNCHANGED <<live, told>>

Refuse(p) ==
  /\ p \in live /\ done = {}
  /\ live' = {}
  /\ UNCHANGED <<done, told>>

Tell ==
  /\ done # {}
  /\ told' = TRUE
  /\ UNCHANGED <<live, done>>

Next == Tell \/ \E p \in live \cup live' : Start(p) \/ Deliver(p) \/ Refuse(p)

Spec == Init /\ [][Next]_vars
=============================================================================
