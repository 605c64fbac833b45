--------------------------- MODULE MC_DLiteEntity ---------------------------
(* Small instances of DLiteEntity for TLC. *)
EXTENDS DLiteEntity, TLC

CONSTANTS e1, e2, i1, i2, i3

\* Two entity slots and three instance slots: enough for two instances of
\* one entity while another entity is created and dropped.
MCEnt == {e1, e2}
MCInst == {i1, i2, i3}

\* A numeric array, and a string-pointer array before and after another.
MCShapes == {<<"Num">>, <<"Str", "Num">>, <<"Num", "Str">>}

\* Instance slots are interchangeable, and so are entity slots.
MCSymmetry == Permutations(MCEnt) \cup Permutations(MCInst)
=============================================================================
