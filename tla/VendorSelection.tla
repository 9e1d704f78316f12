--------------------------- MODULE VendorSelection ---------------------------
(***************************************************************************)
(* How the Token, Airtime and Data consumers choose the vendor of a        *)
(* repurchase (TokenHandlerUtil in src/src/kafka/modules/consumers,        *)
(* Token.ts and, the same code again, Airtime.ts and Data.ts), and the row *)
(* an electricity transaction starts with.                                 *)
(*                                                                         *)
(* Rate[v] stands for commission * amount + bonus of the vendor's          *)
(* VendorProduct row; it is fixed while one transaction is vended.  The    *)
(* code sorts the rows by that value and takes the first one; rows of      *)
(* equal value come in whatever order the database returned them, so a tie *)
(* is a choice here: an operator returns the SET of vendors the code may   *)
(* pick.                                                                   *)
(***************************************************************************)
EXTENDS Integers, FiniteSets

CONSTANTS
  Vendors,   \* vendors that have a VendorProduct row for the product
  Rate,      \* [Vendors -> Nat], commission * amount + bonus
  Opening    \* vendors a transaction may start with: the best ones by
             \* commission * 1000 + bonus, whatever the amount

(* transaction.previousVendors is only asked two questions: which names it *)
(* includes and how long it is.  It is kept as these two answers.          *)
PreviousVendors == [seen : SUBSET Vendors, len : Nat]

(* The first rows of the sorted list. *)
Best(S) == {v \in S : \A u \in S : Rate[u] <= Rate[v]}

(* Slip: only the vendor in use is left out. *)
NextUnseenOfAll(current, previous) == Vendors \ {current}

(* The vendors the loop over sortedOtherVendors may stop at. *)
NextUnseen(current, previous) == Vendors \ ({current} \cup previous.seen)

(* getNextBestVendorForVendRePurchase.  The empty set is the TypeError of  *)
(* sortedOtherVendors[0] when the product has a single vendor.             *)
NextVendors(current, previous) ==
  IF NextUnseen(current, previous) # {}
  THEN Best(NextUnseen(current, previous))
  ELSE IF previous.len = Cardinality(Vendors)
       THEN Best(Vendors)
       ELSE Best(Vendors \ {current})

(* The row VendorController.validateMeter hands to requestToken: first is the *)
(* best vendor at 1000 naira, and the transaction moved to the first vendor   *)
(* that could validate the meter, its retry record still naming the former.   *)
(* 0 stands for its reference, 1 for its vendorReferenceId.                   *)
NewTransaction(first, validated, access) ==
  [superagent |-> validated,
   reference  |-> 0,
   vendorRef  |-> 1,
   accessRef  |-> access,
   record     |-> [vendor |-> first, count |-> 1, ref |-> 0],
   previous   |-> [seen |-> {first}, len |-> 1]]

(* The rows validateAirtimeRequest and validateDataRequest hand over. *)
NewAirtimeRow(first) ==
  [superagent |-> first, token |-> FALSE, previous |-> [seen |-> {first}, len |-> 1]]

NewDataRow(first, none) ==
  [superagent |-> first, reference |-> 0, access |-> none, record |-> none,
   previous |-> [seen |-> {first}, len |-> 1]]
=============================================================================
