--------------------------- MODULE MCRegistration ---------------------------
EXTENDS Registration, TLC

MobilePerms == Permutations(Mobile)
=============================================================================
