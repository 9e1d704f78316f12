----------------------------- MODULE MCAirtimeVend -----------------------------
EXTENDS AirtimeVend, TLC
CONSTANT Payment
MCRate == [v \in Vendors |-> IF v = Irecharge THEN 3 ELSE IF v = Buypower THEN 1 ELSE 2]
MCOnePayment == [c \in Requests \cup Confirmations |-> Payment]
=============================================================================
