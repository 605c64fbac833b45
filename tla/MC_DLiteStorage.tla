----------------------------- MODULE MC_DLiteStorage -----------------------------
EXTENDS DLiteStorageProofs, TLC

CONSTANTS s1, s2, u1, u2, nm, v1, v2

(* The name nm hashes to u1, so u1 can be loaded by its uuid and its name. *)
MCV5 == [x \in {nm} |-> u1]

MCAllCaps == {"setMetadata", "setDimensionSize", "setProperty", "setDataName"}

MCSymmetry == Permutations({s1, s2})
=============================================================================
