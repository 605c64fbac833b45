---------------------------- MODULE MC_JsonUtils ----------------------------
(***************************************************************************)
(* Small instance of JsonUtils: integers 1 and -1, reals 1.5 and -1.5 (in  *)
(* halves), strings "a" and "b"; data of every dtype as a scalar, as an   *)
(* empty array, and as arrays of shape (2), (1,2) and (2,1); documents up *)
(* to two levels deep with at most two items per array: MCLeaves, the     *)
(* scalars, are the edits of json_read_write and MCDocs those of          *)
(* json_external_doc.                                                      *)
(***************************************************************************)
EXTENDS JsonUtils

CONSTANTS Nul

MCNDimMax == 2

MCVals == [i |-> {1, -1}, r |-> {3, -3}, b |-> {0, 1}, s |-> {"a", "b"}]

MCShapes == {Nul, <<0>>, <<2>>, <<1, 2>>, <<2, 1>>}

Count(shape) == IF shape = Nul THEN 1 ELSE FoldSeq(LAMBDA x, y : x * y, 1, shape)

MCDatas ==
    UNION {{[dtype |-> dt, dims |-> sh, vals |-> s] :
               s \in [1..Count(sh) -> MCVals[dt]]} :
             dt \in {"i", "r", "b", "s"}, sh \in MCShapes}

MCLeaves == {JInt(1), JReal(3), JStr("a"), JTrue, JNull}

Upto2(S) == {<<>>} \cup {<<x>> : x \in S} \cup {<<x, y>> : x, y \in S}

MCArrays1 == {JArr(s) : s \in Upto2(MCLeaves)}

MCDocs == MCLeaves \cup MCArrays1 \cup {JArr(s) : s \in Upto2(MCLeaves \cup MCArrays1)}

MCEntities ==
    [dims : Upto2({"n", "m", " "}),
     props : {<<>>} \cup {<<p>> : p \in [name : {"p", " "}, type : {"int", "foo"},
                                          dims : Upto2({"n", "m"})]}]
=============================================================================
