--------------------------- MODULE DLiteMetaLayout ---------------------------
(***************************************************************************)
(* The instance layout computed by dlite_meta_postinit (dlite-entity.c)    *)
(* for an ordinary entity (ismeta = 0, the only way dlite_entity_create    *)
(* calls it).  The sweep over the members of an instance is modelled one  *)
(* loop iteration per step: the header's meta pointer, the dimension-size  *)
(* slots, the properties, then the final padding.  Entities built by       *)
(* dlite_entity_create have no relations (nrelations stays 0 after the     *)
(* calloc), so the relation loop runs zero times and only its trailing     *)
(* assignment of reloffset is kept.                                        *)
(*                                                                         *)
(* The type system (dlite-type.c) is not part of the sources; its          *)
(* alignment and member-offset rules are taken from the specification.     *)
(***************************************************************************)
EXTENDS Integers, Sequences

CONSTANTS
    PropKinds,    \* property descriptors [type, size, ndims] of the inputs
    MaxDims,      \* bound on the entity's number of dimensions
    MaxProps,     \* bound on the entity's number of properties
    PtrSize,      \* sizeof(void *) = sizeof(char *)
    SizeTSize,    \* sizeof(size_t)
    IntSize,      \* sizeof(int)
    MetaOffset    \* offsetof(DLiteInstance, meta)

Types == {"blob", "bool", "int", "uint", "float", "string", "stringptr"}

ASSUME LayoutAssumption ==
    /\ PropKinds \subseteq [type : Types, size : Nat \ {0}, ndims : Nat]
    /\ MaxDims \in Nat /\ MaxProps \in Nat
    /\ {PtrSize, SizeTSize, IntSize} \subseteq {1, 2, 4, 8}
    /\ MetaOffset \in Nat

VARIABLES
    ndims,        \* meta->ndimensions
    props,        \* meta->properties, a sequence of PropKinds
    phase,        \* which loop of the sweep runs: "dims", "props", "done"
    i,            \* loop index of the running loop
    offset,       \* offset of the member last placed
    size,         \* size the sweep assumes for the member last placed
    maxalign,     \* max alignment of any member seen so far
    dimoffset,    \* meta->dimoffset
    propoffsets,  \* meta->propoffsets
    reloffset,    \* meta->reloffset
    esize         \* meta->size

vars == <<ndims, props, phase, i, offset, size, maxalign, dimoffset,
          propoffsets, reloffset, esize>>

(***************************************************************************)
(* dlite_type_get_alignment and dlite_type_get_member_offset (spec 4.2):   *)
(* a string-pointer is aligned as a pointer, a blob or fixed string as its *)
(* bytes, a numeric or bool as its width.                                  *)
(***************************************************************************)
Alignment(type, sz) ==
    CASE type = "stringptr"           -> PtrSize
      [] type \in {"blob", "string"}  -> 1
      [] OTHER                        -> sz

AlignUp(n, a) == IF n % a = 0 THEN n ELSE n + a - (n % a)

MemberOffset(prevoff, prevsize, type, sz) ==
    AlignUp(prevoff + prevsize, Alignment(type, sz))

(* The storage form of a property: an array is a pointer slot typed as a   *)
(* blob, a scalar is stored inline as its declared type.                   *)
StorageType(p) == IF p.ndims > 0 THEN "blob" ELSE p.type

StorageSize(p) == IF p.ndims > 0 THEN PtrSize ELSE p.size

(* The inputs dlite_entity_create passes: up to MaxDims dimensions and a   *)
(* sequence of up to MaxProps properties; the fields it callocs are zero.  *)
Init ==
    /\ ndims \in 0..MaxDims
    /\ props \in UNION {[1..n -> PropKinds] : n \in 0..MaxProps}
    /\ phase = "dims"
    /\ i = 0
    /\ offset = MetaOffset
    /\ size = PtrSize
    /\ maxalign = Alignment("stringptr", PtrSize)
    /\ dimoffset = 0
    /\ propoffsets = [k \in 1..Len(props) |-> 0]
    /\ reloffset = 0
    /\ esize = 0

DimStep_pastEnd ==
    /\ phase = "dims" /\ i <= ndims
    /\ offset' = MemberOffset(offset, size, "int", SizeTSize)
    /\ size' = IntSize
    /\ dimoffset' = IF i = 0 THEN offset' ELSE dimoffset
    /\ i' = i + 1
    /\ UNCHANGED <<ndims, props, phase, maxalign, propoffsets, reloffset, esize>>

DimStep_intAlign ==
    /\ phase = "dims" /\ i < ndims
    /\ offset' = MemberOffset(offset, size, "int", IntSize)
    /\ size' = IntSize
    /\ dimoffset' = IF i = 0 THEN offset' ELSE dimoffset
    /\ i' = i + 1
    /\ UNCHANGED <<ndims, props, phase, maxalign, propoffsets, reloffset, esize>>

(* One iteration of the dimension loop: each dimension slot is placed as a *)
(* size_t, but the size carried to the next member is sizeof(int).         *)
DimStep ==
    /\ phase = "dims" /\ i < ndims
    /\ offset' = MemberOffset(offset, size, "int", SizeTSize)
    /\ size' = IntSize
    /\ dimoffset' = IF i = 0 THEN offset' ELSE dimoffset
    /\ i' = i + 1
    /\ UNCHANGED <<ndims, props, phase, maxalign, propoffsets, reloffset, esize>>

(* After the dimension loop: size_t alignment joins maxalign when there is *)
(* a dimension, and the property loop starts.                              *)
DimsDone ==
    /\ phase = "dims" /\ i = ndims
    /\ maxalign' = IF ndims > 0 /\ Alignment("uint", SizeTSize) > maxalign
                   THEN Alignment("uint", SizeTSize) ELSE maxalign
    /\ phase' = "props"
    /\ i' = 0
    /\ UNCHANGED <<ndims, props, offset, size, dimoffset, propoffsets,
                   reloffset, esize>>

(* One iteration of the property loop.                                     *)
PropStep_keepSize ==
    /\ phase = "props" /\ i < Len(props)
    /\ LET p == props[i + 1] IN
       /\ offset' = MemberOffset(offset, size, StorageType(p), StorageSize(p))
       /\ propoffsets' = [propoffsets EXCEPT ![i + 1] = offset']
       /\ maxalign' = IF Alignment(StorageType(p), StorageSize(p)) > maxalign
                      THEN Alignment(StorageType(p), StorageSize(p))
                      ELSE maxalign
    /\ i' = i + 1
    /\ UNCHANGED <<ndims, props, phase, size, dimoffset, reloffset, esize>>

PropStep ==
    /\ phase = "props" /\ i < Len(props)
    /\ LET p == props[i + 1] IN
       /\ offset' = MemberOffset(offset, size, StorageType(p), StorageSize(p))
       /\ size' = StorageSize(p)
       /\ propoffsets' = [propoffsets EXCEPT ![i + 1] = offset']
       /\ maxalign' = IF Alignment(StorageType(p), StorageSize(p)) > maxalign
                      THEN Alignment(StorageType(p), StorageSize(p))
                      ELSE maxalign
    /\ i' = i + 1
    /\ UNCHANGED <<ndims, props, phase, dimoffset, reloffset, esize>>

(* After the property loop: reloffset, then the end of the last member     *)
(* padded to maxalign (a power of two, so the code's mask is a modulus).   *)
Finish_noPadding ==
    /\ phase = "props" /\ i = Len(props)
    /\ reloffset' = offset
    /\ esize' = offset
    /\ phase' = "done"
    /\ UNCHANGED <<ndims, props, i, offset, size, maxalign, dimoffset,
                   propoffsets>>

Finish ==
    /\ phase = "props" /\ i = Len(props)
    /\ reloffset' = offset
    /\ esize' = (offset + size)
                + ((maxalign - ((offset + size) % maxalign)) % maxalign)
    /\ phase' = "done"
    /\ UNCHANGED <<ndims, props, i, offset, size, maxalign, dimoffset,
                   propoffsets>>

Next == DimStep \/ DimsDone \/ PropStep \/ Finish

Spec == Init /\ [][Next]_vars

-----------------------------------------------------------------------------
(* The byte ranges of the members of an instance, once postinit is done.   *)

PropEnd(k) == propoffsets[k] + StorageSize(props[k])

DimsEnd == dimoffset + ndims * SizeTSize

Done == phase = "done"

TypeOK ==
    /\ ndims \in 0..MaxDims
    /\ props \in Seq(PropKinds)
    /\ phase \in {"dims", "props", "done"}
    /\ i \in 0..(IF phase = "dims" THEN ndims ELSE Len(props))
    /\ {offset, size, maxalign, dimoffset, reloffset, esize} \subseteq Nat
    /\ propoffsets \in [1..Len(props) -> Nat]

(***************************************************************************)
(* Every property slot of an instance, and its dimension-size array (which *)
(* dlite_instance_create fills with ndimensions size_t values), lies       *)
(* inside the meta->size bytes that dlite_instance_create callocs.         *)
(***************************************************************************)
LayoutInBounds ==
    Done => /\ \A k \in 1..Len(props) : PropEnd(k) <= esize
            /\ DimsEnd <= esize

(***************************************************************************)
(* The property slots follow the header and do not overlap each other, so  *)
(* dlite_instance_set_property_by_index never writes one property over     *)
(* another.                                                                *)
(***************************************************************************)
PropertiesDisjoint ==
    Done => \A k \in 1..Len(props) :
                /\ propoffsets[k] >= MetaOffset + PtrSize
                /\ \A l \in k + 1..Len(props) : PropEnd(k) <= propoffsets[l]

(***************************************************************************)
(* No property slot overlaps the dimension-size array that                 *)
(* dlite_instance_create memcpys ndimensions size_t values into.           *)
(***************************************************************************)
DimensionsDisjoint ==
    Done => \A k \in 1..Len(props) :
                ndims > 0 => PropEnd(k) <= dimoffset \/ DimsEnd <= propoffsets[k]

(***************************************************************************)
(* Spec 8, layout soundness: every property slot is aligned for its        *)
(* storage form, a pointer for an array property.                          *)
(***************************************************************************)
StorageAlignment(p) ==
    IF p.ndims > 0 THEN PtrSize ELSE Alignment(p.type, p.size)

PropertiesAligned ==
    Done => \A k \in 1..Len(props) :
                propoffsets[k] % StorageAlignment(props[k]) = 0
=============================================================================
