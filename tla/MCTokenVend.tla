------------------------------ MODULE MCTokenVend ------------------------------
EXTENDS TokenVend, TLC
MCRate == [v \in Vendors |-> IF v = Irecharge THEN 2 ELSE IF v = Buypower THEN 3 ELSE 1]
=============================================================================
