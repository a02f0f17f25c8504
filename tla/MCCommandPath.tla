--------------------------- MODULE MCCommandPath ---------------------------
\* Two concurrent senders commanding one point.
EXTENDS CommandPath, TLC

CONSTANTS s1, s2, p1

MCSenders == {s1, s2}
MCPoints == {p1}
Symmetry == Permutations(MCSenders)
=============================================================================
