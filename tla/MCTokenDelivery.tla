---------------------------- MODULE MCTokenDelivery ----------------------------
EXTENDS TokenDelivery, TLC
=============================================================================
