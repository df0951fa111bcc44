------------------------------ MODULE MCAccounts ------------------------------
EXTENDS Accounts, TLC

CONSTANT g1

MCLegacy == <<g1>>
MCSymmetry == Permutations(Browsers)
=============================================================================
