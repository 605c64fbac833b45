-------------------------- MODULE MC_DLiteCollection --------------------------
EXTENDS DLiteCollection, TLC

CONSTANTS a, b, u1, u2, m1, d1, d2

MCLabels == {a, b}

MCUuids == {u1, u2}

MCDimNames == {d1, d2}

MCSymmetry == Permutations(MCLabels) \cup Permutations(MCUuids)
                \cup Permutations(MCDimNames)
=============================================================================
