------------------------------ MODULE MCValidation ------------------------------
EXTENDS Validation, TLC
CONSTANTS ada, adaWork, obi
MCCallers == {ada, adaWork, obi}
(* ada and adaWork are one address with two numbers. *)
MCEmail == [c \in MCCallers |-> IF c = obi THEN "obi" ELSE "ada"]
MCRate == [v \in Vendors |-> 1]
Symmetry == Permutations(Requests)
=============================================================================
