--------------------------- MODULE MCCnameCheck -----------------------------
EXTENDS CnameCheck, TLC

CONSTANTS apex, sub, ext1, ext2
MCNames == {apex, sub, ext1, ext2}
\* The two names outside the zone are interchangeable.
OutsideSymmetry == Permutations({ext1, ext2})
=============================================================================
