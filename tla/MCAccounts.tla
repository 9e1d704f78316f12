------------------------------- MODULE MCAccounts -------------------------------
EXTENDS Accounts, TLC
MCSymmetry == Permutations(Addresses)
=============================================================================
