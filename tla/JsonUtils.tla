------------------------------ MODULE JsonUtils ------------------------------
(***************************************************************************)
(* The helpers of the json storage plugin (plugins/json/json-utils.c):     *)
(* reading a property value out of a json document into a json_data_t      *)
(* (json_get_data), writing one back (json_set_data), and the validation   *)
(* of a json entity (dlite_json_entity_dim_count / _prop_count).           *)
(*                                                                         *)
(* A json value is a record [t, v]: t its jansson type and v its payload   *)
(* (an integer, a real as a count of halves, a string, or the sequence of  *)
(* the items of an array).  A json_data_t is [dtype, dims, vals]: dims and *)
(* vals are sequences or Null (a NULL ivec_t / array); vals stands for the *)
(* one of array_i, array_r, array_s that dtype selects.  The plugin's      *)
(* driver, which calls these helpers, is not in the sources: the state    *)
(* machine below is a client that stores the data of a property, loads it  *)
(* back, writes back what it loaded, and validates entity documents.       *)
(***************************************************************************)
EXTENDS Integers, Sequences, SequencesExt, FiniteSets

CONSTANTS
    NDimMax,     \* NDIM_MAX of json-utils.h
    Datas,       \* json_data_t values the client stores
    Names,       \* property names passed to json_set_data
    Blank,       \* the names str_is_whitespace accepts
    Docs,        \* json documents edited outside the plugin
    Entities,    \* entity documents [dims, props]
    ValidTypes,  \* the type names dlite_is_type accepts
    Null

ASSUME JsonAssumption ==
    /\ NDimMax \in Nat \ {0}
    /\ Blank \subseteq Names
    /\ Null \notin Int

VARIABLES
    doc,         \* the value of the member in the json object, or Null
    data,        \* the json_data_t last returned by json_get_data, or Null
    written,     \* the data json_set_data last wrote into doc, or Null
    op,          \* the last call: "none", "set", "get", "edit", "validate"
    ub,          \* json_set_data used its uninitialised `value'
    verdict      \* [dimCount, propCount, undeclared] of the last validation

vars == <<doc, data, written, op, ub, verdict>>

JInt(n)  == [t |-> "int", v |-> n]
JReal(h) == [t |-> "real", v |-> h]
JStr(s)  == [t |-> "str", v |-> s]
JTrue    == [t |-> "true", v |-> 1]
JFalse   == [t |-> "false", v |-> 0]
JNull    == [t |-> "null", v |-> 0]
JArr(s)  == [t |-> "arr", v |-> s]
IsArr(o) == o # Null /\ o.t = "arr"

(* json_char_type *)
CharType(o) ==
    IF o = Null THEN "x"
    ELSE CASE o.t = "obj"  -> "o"
           [] o.t = "arr"  -> "a"
           [] o.t = "str"  -> "s"
           [] o.t = "int"  -> "i"
           [] o.t = "real" -> "r"
           [] o.t \in {"true", "false"} -> "b"
           [] o.t = "null" -> "n"

(* json_merge_type *)
MergeType(t1, t2) ==
    CASE t1 = "x" \/ t1 = t2  -> t2
      [] {t1, t2} = {"i", "r"} -> "r"
      [] OTHER                 -> "m"

(* json_array_type: the type of a nested array REPLACES the type merged   *)
(* so far, and the scan stops at the first "m".                            *)
RECURSIVE ArrayType(_), ArrayTypeFrom(_, _, _)
ArrayType(o) == IF IsArr(o) THEN ArrayTypeFrom(o.v, 1, "x") ELSE "x"
ArrayTypeFrom(items, k, acc) ==
    IF k > Len(items) THEN acc
    ELSE LET cur == CharType(items[k])
             nxt == IF cur = "a" THEN ArrayType(items[k]) ELSE MergeType(acc, cur)
         IN  IF nxt = "m" THEN "m" ELSE ArrayTypeFrom(items, k + 1, nxt)

(* _merge_size: -2 is "not seen yet", -1 "ragged". *)
MergeSize(s1, s2) == IF s1 = -2 \/ s1 = s2 THEN s2 ELSE -1

(* _array_size: dims[ndim] merges the length of every array at depth ndim. *)
RECURSIVE ArraySize(_, _, _), ArraySizeItems(_, _, _, _)
ArraySize(o, nd, dims) ==
    IF nd >= NDimMax \/ ~IsArr(o) THEN dims
    ELSE ArraySizeItems(o.v, 1, nd,
                        [dims EXCEPT ![nd + 1] = MergeSize(@, Len(o.v))])
ArraySizeItems(items, k, nd, dims) ==
    IF k > Len(items) THEN dims
    ELSE ArraySizeItems(items, k + 1, nd, ArraySize(items[k], nd + 1, dims))

(* json_array_dimensions: the leading non-negative sizes, or NULL when     *)
(* there is none or a -1 comes first.                                      *)
ArrayDimensions(obj) ==
    LET sizes == ArraySize(obj, 0, [i \in 1..NDimMax |-> -2])
        neg   == {i \in 1..NDimMax : sizes[i] < 0}
        i0    == CHOOSE i \in neg : \A j \in neg : i <= j
        d     == IF neg = {} THEN NDimMax
                 ELSE IF sizes[i0] = -1 THEN -1 ELSE i0 - 1
    IN  IF d > 0 THEN [n \in 1..d |-> sizes[n]] ELSE Null

(* (int) of a real given in halves: truncation toward zero. *)
Trunc(h) == IF h >= 0 THEN h \div 2 ELSE -((-h) \div 2)

(* json_to_int *)
JsonToInt(o) ==
    CASE o.t = "int"   -> o.v
      [] o.t = "true"  -> 1
      [] o.t = "false" -> 0
      [] o.t = "real"  -> Trunc(o.v)
      [] OTHER         -> 0

JsonToReal_truncates(o) ==
    CASE o.t = "real"  -> 2 * Trunc(o.v)
      [] o.t = "int"   -> 2 * o.v
      [] o.t = "true"  -> 2
      [] OTHER         -> 0

(* json_to_real, in halves *)
JsonToReal(o) ==
    CASE o.t = "real"  -> o.v
      [] o.t = "int"   -> 2 * o.v
      [] o.t = "true"  -> 2
      [] OTHER         -> 0

(* json_string_value: NULL for a value that is not a string *)
StringValue(o) == IF o.t = "str" THEN o.v ELSE Null

Leaf(dtype, o) ==
    CASE dtype = "i" -> JsonToInt(o)
      [] dtype = "r" -> JsonToReal(o)
      [] dtype = "s" -> StringValue(o)

(* flatten_i / json_array_flatten_i: the leaves in document order. *)
RECURSIVE Flatten(_, _), FlattenItems(_, _, _)
Flatten(dtype, o) ==
    IF IsArr(o) THEN FlattenItems(dtype, o.v, 1) ELSE <<Leaf(dtype, o)>>
FlattenItems(dtype, items, k) ==
    IF k > Len(items) THEN <<>>
    ELSE Flatten(dtype, items[k]) \o FlattenItems(dtype, items, k + 1)

(* flatten_r / json_array_flatten_r, flatten_s / json_array_flatten_s *)
FlattenR(o) == Flatten("r", o)
FlattenS(o) == Flatten("s", o)

(* json_data: a fresh json_data_t *)
NoData(dtype) == [dtype |-> dtype, dims |-> Null, vals |-> Null]

(* json_get_data *)
JsonGetData(o) ==
    LET ct == CharType(o) IN
    CASE ct = "a" ->
           LET dt == ArrayType(o)
               dims == ArrayDimensions(o)
           IN (CASE dims = Null              -> NoData(dt)
                 [] dt = "i"                 -> [NoData(dt) EXCEPT !.dims = dims, !.vals = Flatten("i", o)]
                 [] dt = "r"                 -> [NoData(dt) EXCEPT !.dims = dims, !.vals = FlattenR(o)]
                 [] dt = "s"                 -> [NoData(dt) EXCEPT !.dims = dims, !.vals = FlattenS(o)]
                 [] OTHER                    -> Null)
      [] ct \in {"i", "r", "s"} -> [NoData(ct) EXCEPT !.vals = <<o.v>>]
      [] ct = "b" -> [NoData(ct) EXCEPT !.vals = <<IF o.t = "true" THEN 1 ELSE 0>>]
      [] ct = "x" -> Null
      [] OTHER    -> NoData(ct)

(* json_array_int / _real / _bool / _string.  json_string(NULL) is NULL,  *)
(* which json_array_append refuses: the item is left out.                  *)
Items(vals) == IF vals = Null THEN <<>> ELSE vals
JsonArrayInt(vals)  == JArr([k \in 1..Len(Items(vals)) |-> JInt(vals[k])])
JsonArrayReal(vals) == JArr([k \in 1..Len(Items(vals)) |-> JReal(vals[k])])
JsonArrayBool(vals) == JArr([k \in 1..Len(Items(vals)) |-> IF vals[k] # 0 THEN JTrue ELSE JFalse])
JsonArrayString(vals) ==
    JArr([k \in 1..Len(SelectSeq(Items(vals), LAMBDA s : s # Null)) |->
            JStr(SelectSeq(Items(vals), LAMBDA s : s # Null)[k])])

(* Stands for the uninitialised `value' of json_set_data. *)
Undef == [t |-> "undef", v |-> 0]

(* The scalar json_set_data makes of the first value. *)
Scalar(dtype, x) ==
    CASE dtype = "i" -> JInt(x)
      [] dtype = "r" -> JReal(x)
      [] dtype = "b" -> IF x # 0 THEN JTrue ELSE JFalse
      [] dtype = "s" -> IF x = Null THEN Null ELSE JStr(x)

(* The `value' of json_set_data: an array when dims is non-empty           *)
(* (ivec_size(NULL) is 0), else the first value, else "Undef": the branch  *)
(* that leaves value uninitialised.                                        *)
SetValue(d) ==
    CASE d.dtype \notin {"i", "r", "b", "s"}   -> JNull
      [] d.dims # Null /\ Len(d.dims) > 0      ->
          (CASE d.dtype = "i" -> JsonArrayInt(d.vals)
             [] d.dtype = "r" -> JsonArrayReal(d.vals)
             [] d.dtype = "b" -> JsonArrayBool(d.vals)
             [] d.dtype = "s" -> JsonArrayString(d.vals))
      [] Len(Items(d.vals)) > 0                 -> Scalar(d.dtype, d.vals[1])
      [] OTHER                                 -> Undef

(* check_dimensions: k counts every (property dim, entity dim) pair with   *)
(* equal names, and the check is k = number of property dims.              *)
CheckDimensions(pdims, edims) ==
    Cardinality({ij \in (1..Len(pdims)) \X (1..Len(edims)) :
                    pdims[ij[1]] = edims[ij[2]]}) = Len(pdims)

(* dlite_json_entity_dim_count *)
DimCount(e) ==
    IF \E k \in 1..Len(e.dims) : e.dims[k] \in Blank THEN -1 ELSE Len(e.dims)

(* dlite_json_entity_prop_count *)
PropCount(e) ==
    LET bad(p) == \/ p.name \in Blank
                  \/ p.type \notin ValidTypes
                  \/ ~CheckDimensions(p.dims, e.dims)
    IN  IF \E k \in 1..Len(e.props) : bad(e.props[k]) THEN -1 ELSE Len(e.props)

Init ==
    /\ doc = Null
    /\ data = Null
    /\ written = Null
    /\ op = "none"
    /\ ub = FALSE
    /\ verdict = [dimCount |-> 0, propCount |-> 0, undeclared |-> FALSE]

(***************************************************************************)
(* json_set_data(obj, name, d) on the instance object: refused (1) for a   *)
(* NULL d or a blank name; otherwise json_object_set, which leaves the     *)
(* member as it was when value is NULL.                                    *)
(***************************************************************************)
SetData(name, d) ==
    /\ ~ub
    /\ op' = "set"
    /\ IF d = Null \/ name \in Blank
       THEN UNCHANGED <<doc, written, ub>>
       ELSE LET val == SetValue(d) IN
            CASE val = Undef -> ub' = TRUE /\ UNCHANGED <<doc, written>>
              [] val = Null    -> UNCHANGED <<doc, written, ub>>
              [] OTHER         -> doc' = val /\ written' = d /\ UNCHANGED ub
    /\ UNCHANGED <<data, verdict>>

(* json_get_data(json_object_get(obj, name)); a missing member is NULL.    *)
GetData ==
    /\ ~ub
    /\ data' = JsonGetData(doc)
    /\ op' = "get"
    /\ UNCHANGED <<doc, written, ub, verdict>>

(* The document is edited outside the plugin. *)
Edit(o) ==
    /\ ~ub
    /\ doc' = o
    /\ written' = Null
    /\ op' = "edit"
    /\ UNCHANGED <<data, ub, verdict>>

(* Both counts of an entity document, and whether it has a property        *)
(* dimension that names no entity dimension.                               *)
Validate(e) ==
    /\ ~ub
    /\ verdict' = [dimCount |-> DimCount(e), propCount |-> PropCount(e),
                   undeclared |-> \E k \in 1..Len(e.props) :
                                     \E i \in 1..Len(e.props[k].dims) :
                                        e.props[k].dims[i] \notin ToSet(e.dims)]
    /\ op' = "validate"
    /\ UNCHANGED <<doc, data, written, ub>>

(* The client stores the data of an instance, or writes back what it read. *)
Next ==
    \/ \E name \in Names, d \in Datas \cup {data} : SetData(name, d)
    \/ GetData
    \/ \E e \in Entities : Validate(e)

NextWithEdits == Next \/ \E o \in Docs : Edit(o)

Spec == Init /\ [][Next]_vars
SpecWithEdits == Init /\ [][NextWithEdits]_vars

-----------------------------------------------------------------------------
(* The regular shape of a json value, Null when it is ragged, and its      *)
(* leaves: the reference reading of spec's json storage format.            *)
RECURSIVE Shape(_)
Shape(o) ==
    IF ~IsArr(o) THEN <<>>
    ELSE IF o.v = <<>> THEN <<0>>
    ELSE LET ss == {Shape(o.v[k]) : k \in 1..Len(o.v)}
             s  == CHOOSE x \in ss : TRUE
         IN  IF Cardinality(ss) = 1 /\ s # Null THEN <<Len(o.v)>> \o s ELSE Null

RECURSIVE Leaves(_)
Leaves(o) ==
    IF ~IsArr(o) THEN <<o>>
    ELSE FoldLeft(LAMBDA acc, x : acc \o Leaves(x), <<>>, o.v)

Fits(dtype, o) ==
    \/ dtype = "i" /\ o.t = "int"
    \/ dtype = "r" /\ o.t \in {"int", "real"}
    \/ dtype = "s" /\ o.t = "str"

(***************************************************************************)
(* Reading back what json_set_data wrote: whenever json_get_data returns   *)
(* data for the member, its type and its values, in order, are those of   *)
(* the data last stored (multi-dimensional data comes back flattened).     *)
(***************************************************************************)
ReadBackValues ==
    op = "get" /\ written # Null /\ data # Null =>
        /\ data.dtype = written.dtype
        /\ data.vals = written.vals

(***************************************************************************)
(* json_get_data of an array: when it returns data, the array is regular,  *)
(* dims is its shape, and every leaf is a value of dtype, so that each of  *)
(* the prod(dims) values converts exactly.                                 *)
(***************************************************************************)
LoadSound ==
    op = "get" /\ data # Null /\ IsArr(doc) =>
        /\ Shape(doc) # Null
        /\ data.dims = Shape(doc)
        /\ \A k \in 1..Len(Leaves(doc)) : Fits(data.dtype, Leaves(doc)[k])

(***************************************************************************)
(* An entity document both counts accept has no property dimension that   *)
(* names no entity dimension (check_dimensions).                           *)
(***************************************************************************)
DimsDeclared ==
    verdict.dimCount >= 0 /\ verdict.propCount >= 0 => ~verdict.undeclared
=============================================================================
