--------------------------- MODULE MCPublication ---------------------------
\* Instances of Publication for TLC.
EXTENDS Publication, TLC

CONSTANTS i1, i2, v1, v2

VersionSymmetry == Permutations({v1, v2})
ImporterSymmetry == Permutations({i1, i2})
=============================================================================
