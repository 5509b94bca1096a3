---------------------------- MODULE MCDLRlcLink ----------------------------
EXTENDS DLRlcLink, TLC
Perms == Permutations(Block)
=============================================================================
