------------------------------ MODULE MCDataVend ------------------------------
EXTENDS DataVend, TLC
CONSTANT Payment
MCRate == [v \in Vendors |-> IF v = Irecharge THEN 3 ELSE IF v = Buypower THEN 2 ELSE 1]
MCOnePayment == [q \in Requests |-> Payment]
=============================================================================
