--------------------------- MODULE MCIntroduction ---------------------------
EXTENDS Introduction, IdentityChecks

CONSTANTS a, b, c1, c2, m1, m2, bad
=============================================================================
