------------------------------ MODULE DLiteCopy ------------------------------
(***************************************************************************)
(* dlite_copy_to_flat and dlite_copy_to_nested (dlite-datamodel.c), which  *)
(* storage plugins use to move an array property between the instance's   *)
(* nested pointer-to-pointer form and a flat C-ordered buffer.  One step   *)
(* is one iteration of the copy loop.                                      *)
(*                                                                         *)
(* Memory is abstract: the nested array maps an index tuple to its element *)
(* and the flat buffer maps a position to its element; an element is the  *)
(* index tuple it belongs at, so a misplaced copy is visible.  The cursor  *)
(* p is the row its walk reached (ind[0..ndims-2]) and a column, together  *)
(* with the buffer the walk started from.                                  *)
(***************************************************************************)
EXTENDS Integers, Sequences, FiniteSets

CONSTANTS
    MaxNDims,    \* bound on ndims
    DimSizes     \* the values a dims[i] may take

ASSUME CopyAssumption ==
    /\ MaxNDims \in Nat \ {0}
    /\ DimSizes \subseteq Nat

VARIABLES
    dir,         \* "flat": dlite_copy_to_flat, "nested": dlite_copy_to_nested
    dims,        \* the dims argument, a sequence of ndims sizes
    n,           \* elements copied
    ind,         \* the index counters, ind[1..ndims]
    p,           \* the cursor: [base, row, col]
    q,           \* position in the flat buffer
    dst,         \* the destination: what has been written where
    status       \* "copying", "done", or "wild" after a write through garbage

vars == <<dir, dims, n, ind, p, q, dst, status>>

NDims == Len(dims)

RECURSIVE Prod(_)
Prod(s) == IF s = <<>> THEN 1 ELSE Head(s) * Prod(Tail(s))

Ntot == Prod(dims)

(* The index tuples of the array, and the C-order position of each. *)
Tuples(d) ==
    {t \in [1..Len(d) -> UNION {0..d[k] - 1 : k \in 1..Len(d)}] :
        \A k \in 1..Len(d) : t[k] < d[k]}

RECURSIVE Pos(_, _)
Pos(t, d) == IF t = <<>> THEN 0
             ELSE Head(t) * Prod(Tail(d)) + Pos(Tail(t), Tail(d))

(* The walk for (i=0; i<ndims-1; i++) p = p[ind[i]], from buffer b.        *)
Walk(b, counters) == [base |-> b, row |-> SubSeq(counters, 1, Len(counters) - 1),
                      col |-> 0]

Init ==
    /\ dir \in {"flat", "nested"}
    /\ dims \in UNION {[1..k -> DimSizes] : k \in 1..MaxNDims}
    /\ n = 0
    /\ ind = [k \in 1..Len(dims) |-> 0]          \* calloc(ndims, sizeof(int))
    /\ p = Walk(IF dir = "flat" THEN "src" ELSE "dst", ind)
    /\ q = 0
    /\ dst = [x \in {} |-> 0]
    /\ status = "copying"

(* Where *p points: a row of the nested array must exist, or the walk read *)
(* a pointer that is not there.                                            *)
InArray(r, c) == r \o <<c>> \in Tuples(dims)

(* Carry over the counters once the last one wraps: for (i=ndims-2; i>=0;  *)
(* i--) if (++ind[i] < dims[i]) break; else ind[i] = 0.                    *)
RECURSIVE Carry(_, _)
Carry(c, i) == IF i = 0 THEN c
               ELSE IF c[i] + 1 < dims[i] THEN [c EXCEPT ![i] = @ + 1]
               ELSE Carry([c EXCEPT ![i] = 0], i - 1)

Advance_noRewalk(rewalkBase) ==
    LET bumped == [ind EXCEPT ![NDims] = @ + 1]
    IN  IF bumped[NDims] >= dims[NDims]
        THEN LET c == Carry([bumped EXCEPT ![NDims] = 0], NDims - 1)
             IN  /\ ind' = c
                 /\ p' = [p EXCEPT !.col = @ + 1]
        ELSE /\ ind' = bumped
             /\ p' = [p EXCEPT !.col = @ + 1]

(* The end of an iteration: p++ and q += size, then the row-end check.     *)
(* rewalkBase is the buffer the code walks again from at a row end.        *)
Advance(rewalkBase) ==
    LET bumped == [ind EXCEPT ![NDims] = @ + 1]
    IN  IF bumped[NDims] >= dims[NDims]
        THEN LET c == Carry([bumped EXCEPT ![NDims] = 0], NDims - 1)
             IN  /\ ind' = c
                 /\ p' = Walk(rewalkBase, c)
        ELSE /\ ind' = bumped
             /\ p' = [p EXCEPT !.col = @ + 1]

(* One iteration of dlite_copy_to_flat: memcpy(q, *p, size).               *)
FlatStep ==
    /\ dir = "flat" /\ status = "copying" /\ n < Ntot
    /\ n' = n + 1
    /\ q' = q + 1
    /\ Advance("src")
    /\ IF InArray(p.row, p.col)
       THEN /\ dst' = [x \in DOMAIN dst \cup {q} |->
                          IF x = q THEN p.row \o <<p.col>> ELSE dst[x]]
            /\ status' = "copying"
       ELSE /\ status' = "wild" /\ dst' = dst
    /\ UNCHANGED <<dir, dims>>

(* One iteration of dlite_copy_to_nested: memcpy of q to *p.  At a row   *)
(* end the code walks again from src, the flat buffer, and takes its data  *)
(* for row pointers; a write through p is then a write through garbage.    *)
NestedStep ==
    /\ dir = "nested" /\ status = "copying" /\ n < Ntot
    /\ n' = n + 1
    /\ q' = q + 1
    /\ Advance("src")
    /\ IF p.base = "dst" /\ InArray(p.row, p.col)
       THEN /\ dst' = [x \in DOMAIN dst \cup {p.row \o <<p.col>>} |->
                         IF x = p.row \o <<p.col>>
                         THEN CHOOSE t \in Tuples(dims) : Pos(t, dims) = q
                         ELSE dst[x]]
            /\ status' = "copying"
       ELSE /\ status' = "wild" /\ dst' = dst
    /\ UNCHANGED <<dir, dims>>

(* while (n++ < ntot) ends: the copy returns 0.                            *)
Finish ==
    /\ status = "copying" /\ n >= Ntot
    /\ status' = "done"
    /\ UNCHANGED <<dir, dims, n, ind, p, q, dst>>

Next == FlatStep \/ NestedStep \/ Finish

Spec == Init /\ [][Next]_vars

-----------------------------------------------------------------------------
(***************************************************************************)
(* dlite_copy_to_flat, once it returns, has written element t of the       *)
(* nested array at the C-order position of t, for every t, and only there. *)
(***************************************************************************)
FlatCopyCorrect ==
    (dir = "flat" /\ status # "copying") =>
        /\ status = "done"
        /\ dst = [x \in 0..Ntot - 1 |-> CHOOSE t \in Tuples(dims) : Pos(t, dims) = x]

(***************************************************************************)
(* dlite_copy_to_nested, once it returns, has written flat element x into  *)
(* the nested slot whose C-order position is x, for every slot.            *)
(***************************************************************************)
NestedCopyCorrect ==
    (dir = "nested" /\ status # "copying") =>
        /\ status = "done"
        /\ dst = [t \in Tuples(dims) |-> t]
=============================================================================
