------------------------ MODULE DLiteMetaLayoutProofs ------------------------
(***************************************************************************)
(* Proofs that the layout dlite_meta_postinit computes is sound for every  *)
(* entity, every choice of property kinds and every build's sizes: the     *)
(* property slots follow the header in declaration order without overlap   *)
(* (PropertiesDisjoint), and every property slot and the dimension array   *)
(* lie inside meta->size (LayoutInBounds).                                 *)
(*                                                                         *)
(* Neither holds of the loop's variables by themselves: they are about     *)
(* members placed many iterations back.  OrderInv says what the sweep has *)
(* built so far: every placed property ends before the next one starts    *)
(* and before the end of the member last placed (offset + size).           *)
(* BoundsInv adds what the final padding needs: the dimension array's     *)
(* last slot, at a multiple of sizeof(size_t), starts before that end, and *)
(* maxalign is a power of two no smaller than sizeof(size_t), so padding   *)
(* to it reaches the end of that slot even when the sweep carried          *)
(* sizeof(int) for it.                                                     *)
(***************************************************************************)
EXTENDS DLiteMetaLayout, TLAPS

(* The alignments a build can have: powers of two.                         *)
Pow2 == {1, 2, 4, 8, 16}

(***************************************************************************)
(* Numeric and bool properties have their natural widths.  The code pads   *)
(* the size with the mask maxalign - 1, which is a modulus only for a      *)
(* power of two, so it relies on this.                                     *)
(***************************************************************************)
NaturalWidths ==
    \A p \in PropKinds : p.type \in {"bool", "int", "uint", "float"} =>
                             p.size \in Pow2

(* The end of the member the sweep placed last.                            *)
End == offset + size

(* The offset of the last dimension slot, when there are dimensions.       *)
LastDim == dimoffset + (ndims - 1) * SizeTSize

(***************************************************************************)
(* What the sweep has built so far, for any property widths.               *)
(***************************************************************************)
OrderInv ==
    /\ TypeOK
    /\ size >= 1 /\ maxalign >= 1
    /\ End >= MetaOffset + PtrSize
    /\ phase = "done" => i = Len(props)
    /\ phase # "dims" =>
          \A k \in 1..i :
              /\ propoffsets[k] >= MetaOffset + PtrSize
              /\ PropEnd(k) <= End
              /\ \A l \in k + 1..i : PropEnd(k) <= propoffsets[l]

(***************************************************************************)
(* What the final padding needs, for natural widths.                       *)
(***************************************************************************)
BoundsInv ==
    /\ OrderInv
    /\ maxalign \in Pow2
    /\ ndims = 0 => dimoffset = 0
    /\ phase = "dims" /\ i > 0 =>
          /\ size = IntSize
          /\ dimoffset % SizeTSize = 0 /\ offset % SizeTSize = 0
          /\ offset >= dimoffset + (i - 1) * SizeTSize
    /\ phase # "dims" /\ ndims > 0 =>
          /\ dimoffset % SizeTSize = 0
          /\ maxalign >= SizeTSize
          /\ End > LastDim
    /\ phase = "done" => esize >= End /\ esize % maxalign = 0
-----------------------------------------------------------------------------
(* Arithmetic of the type system's alignment.                              *)

(* align_up gives a multiple of the alignment no smaller than its input.   *)
LEMMA AlignUpGe ==
    ASSUME NEW n \in Nat, NEW a \in Nat \ {0}
    PROVE  AlignUp(n, a) \in Nat /\ AlignUp(n, a) >= n
BY DEF AlignUp

LEMMA AlignUpMultiple ==
    ASSUME NEW n \in Nat, NEW a \in Pow2
    PROVE  AlignUp(n, a) % a = 0
BY DEF AlignUp, Pow2

(* The final padding of dlite_meta_postinit rounds up to maxalign.         *)
LEMMA PadUp ==
    ASSUME NEW e \in Nat, NEW m \in Pow2
    PROVE  LET E == e + ((m - (e % m)) % m)
           IN  E \in Nat /\ E >= e /\ E % m = 0
BY DEF Pow2

(* The remainder by a positive divisor.                                    *)
LEMMA ModRange ==
    ASSUME NEW x \in Int, NEW m \in Nat \ {0}
    PROVE  x % m \in 0..m - 1
OBVIOUS

(* Two multiples of s, one above the other, are at least s apart.          *)
LEMMA NextMultiple ==
    ASSUME NEW a \in Int, NEW b \in Int, NEW s \in {1, 2, 4, 8},
           a % s = 0, b % s = 0, a > b
    PROVE  a >= b + s
BY SMT

(* A multiple of a power of two is a multiple of every smaller one.        *)
LEMMA Pow2Divides ==
    ASSUME NEW e \in Int, NEW m \in Pow2, NEW s \in {1, 2, 4, 8},
           m >= s, e % m = 0
    PROVE  e % s = 0
BY DEF Pow2

(* A property's storage form has a positive size and alignment.            *)
LEMMA StorageFacts ==
    ASSUME LayoutAssumption, NEW p \in PropKinds
    PROVE  /\ StorageSize(p) \in Nat \ {0}
           /\ Alignment(StorageType(p), StorageSize(p)) \in Nat \ {0}
BY DEF StorageSize, StorageType, Alignment

(* ... and, for natural widths, a power-of-two alignment.                  *)
LEMMA StorageAlignPow2 ==
    ASSUME LayoutAssumption, NaturalWidths, NEW p \in PropKinds
    PROVE  Alignment(StorageType(p), StorageSize(p)) \in Pow2
<1>1. PtrSize \in Pow2
  BY DEF LayoutAssumption, Pow2
<1>2. CASE p.ndims > 0
  BY <1>2 DEF StorageSize, StorageType, Alignment, Pow2
<1>3. CASE ~(p.ndims > 0) /\ p.type \in {"bool", "int", "uint", "float"}
  <2>1. p.size \in Pow2
    BY <1>3 DEF NaturalWidths
  <2>2. QED
    BY <1>3, <2>1 DEF StorageSize, StorageType, Alignment
<1>4. CASE ~(p.ndims > 0) /\ p.type \notin {"bool", "int", "uint", "float"}
  <2>1. p.type \in {"blob", "string", "stringptr"}
    BY <1>4 DEF LayoutAssumption, Types
  <2>2. QED
    BY <1>1, <1>4, <2>1 DEF StorageSize, StorageType, Alignment, Pow2
<1>5. QED
  BY <1>2, <1>3, <1>4
-----------------------------------------------------------------------------
(* The members dlite_entity_create passes are typed.                       *)
LEMMA InitProps ==
    ASSUME LayoutAssumption, Init
    PROVE  /\ props \in Seq(PropKinds)
           /\ propoffsets \in [1..Len(props) -> Nat]
<1>1. PICK n \in 0..MaxProps : props \in [1..n -> PropKinds]
  BY DEF Init
<1>2. props \in Seq(PropKinds) /\ Len(props) = n
  BY <1>1, LayoutAssumption
<1>3. QED
  BY <1>2 DEF Init

LEMMA InitOrder == Init => OrderInv
<1> SUFFICES ASSUME Init PROVE OrderInv
  OBVIOUS
<1>1. TypeOK
  BY InitProps, LayoutAssumption DEF Init, TypeOK, Alignment
<1>2. QED
  BY <1>1, LayoutAssumption DEF Init, OrderInv, End, Alignment

(* One iteration of the dimension loop keeps the order.                    *)
LEMMA DimStepOrder ==
    ASSUME OrderInv, DimStep
    PROVE  OrderInv'
<1>1. /\ Alignment("int", SizeTSize) = SizeTSize
      /\ SizeTSize \in Nat \ {0}
      /\ IntSize \in Nat \ {0}
  BY LayoutAssumption DEF Alignment
<1>2. End \in Nat
  BY DEF OrderInv, TypeOK, End
<1>3. AlignUp(End, SizeTSize) \in Nat /\ AlignUp(End, SizeTSize) >= End
  BY <1>1, <1>2, AlignUpGe, Zenon
<1>4. /\ offset' = AlignUp(End, SizeTSize) /\ size' = IntSize
      /\ phase' = "dims" /\ i' = i + 1 /\ i < ndims
      /\ dimoffset' = IF i = 0 THEN offset' ELSE dimoffset
      /\ UNCHANGED <<ndims, props, maxalign, propoffsets, reloffset, esize>>
  BY <1>1 DEF DimStep, MemberOffset, End
<1>5. offset' \in Nat /\ offset' >= End
  BY <1>3, <1>4
<1>6. TypeOK'
  BY <1>1, <1>4, <1>5 DEF OrderInv, TypeOK
<1>7. End' >= MetaOffset + PtrSize
  <2>1. /\ End >= MetaOffset + PtrSize /\ offset \in Nat /\ size \in Nat
        /\ MetaOffset \in Nat /\ PtrSize \in Nat
    BY LayoutAssumption DEF OrderInv, TypeOK
  <2>2. QED
    BY <1>1, <1>4, <1>5, <2>1 DEF End
<1>8. QED
  BY <1>1, <1>4, <1>6, <1>7 DEF OrderInv

(* The end of the dimension loop starts the property loop with none placed.*)
LEMMA DimsDoneOrder ==
    ASSUME OrderInv, DimsDone
    PROVE  OrderInv'
<1>1. SizeTSize \in Nat \ {0}
  BY LayoutAssumption
<1>2. /\ maxalign' \in Nat /\ maxalign' >= 1
      /\ phase' = "props" /\ i' = 0
      /\ UNCHANGED <<ndims, props, offset, size, dimoffset, propoffsets,
                     reloffset, esize>>
  BY <1>1 DEF DimsDone, OrderInv, TypeOK, Alignment
<1>3. TypeOK'
  BY <1>2 DEF OrderInv, TypeOK
<1>4. QED
  BY <1>2, <1>3 DEF OrderInv, End

(* One iteration of the property loop places property i + 1 at or after   *)
(* the end of the member placed before it.                                 *)
LEMMA PropStepOrder ==
    ASSUME OrderInv, PropStep
    PROVE  OrderInv'
<1> DEFINE pk == props[i + 1]
           al == Alignment(StorageType(pk), StorageSize(pk))
           n == Len(props)
<1>1. /\ offset \in Nat /\ size \in Nat /\ End \in Nat
      /\ MetaOffset \in Nat /\ PtrSize \in Nat
      /\ End >= MetaOffset + PtrSize
      /\ n \in Nat /\ propoffsets \in [1..n -> Nat]
      /\ maxalign \in Nat /\ maxalign >= 1
  BY LayoutAssumption DEF OrderInv, TypeOK, End
<1>2. /\ phase = "props" /\ i \in 0..n - 1
      /\ pk \in PropKinds
  BY DEF PropStep, OrderInv, TypeOK
<1>3. /\ StorageSize(pk) \in Nat \ {0}
      /\ al \in Nat \ {0}
  BY <1>2, StorageFacts, LayoutAssumption
<1>4. /\ offset' = AlignUp(End, al)
      /\ size' = StorageSize(pk)
      /\ propoffsets' = [propoffsets EXCEPT ![i + 1] = offset']
      /\ maxalign' = IF al > maxalign THEN al ELSE maxalign
      /\ i' = i + 1
      /\ UNCHANGED <<ndims, props, phase, dimoffset, reloffset, esize>>
  BY DEF PropStep, MemberOffset, End
<1>5. offset' \in Nat /\ offset' >= End
  <2>1. AlignUp(End, al) \in Nat /\ AlignUp(End, al) >= End
    BY <1>1, <1>3, AlignUpGe, Zenon
  <2>2. QED
    BY <1>4, <2>1
<1>6. /\ propoffsets' \in [1..n -> Nat]
      /\ propoffsets'[i + 1] = offset'
      /\ \A k \in 1..i : propoffsets'[k] = propoffsets[k]
  BY <1>1, <1>2, <1>4, <1>5
<1>7. TypeOK'
  <2>1. maxalign' \in Nat /\ maxalign' >= 1
    BY <1>1, <1>3, <1>4
  <2>2. QED
    BY <1>2, <1>3, <1>4, <1>5, <1>6, <2>1 DEF OrderInv, TypeOK
<1>8. End' >= End /\ End' = offset' + StorageSize(pk) /\ End' \in Nat
  BY <1>1, <1>3, <1>4, <1>5 DEF End
<1>9. ASSUME NEW k \in 1..i + 1
      PROVE  /\ propoffsets'[k] >= MetaOffset + PtrSize
             /\ PropEnd(k)' <= End'
             /\ \A l \in k + 1..i + 1 : PropEnd(k)' <= propoffsets'[l]
  <2>1. CASE k = i + 1
    <3>1. PropEnd(k)' = End'
      BY <1>4, <1>6, <1>8, <2>1 DEF PropEnd
    <3>2. QED
      BY <1>1, <1>2, <1>5, <1>6, <1>8, <2>1, <3>1
  <2>2. CASE k <= i
    <3>1. /\ propoffsets[k] >= MetaOffset + PtrSize
          /\ PropEnd(k) <= End
          /\ \A l \in k + 1..i : PropEnd(k) <= propoffsets[l]
      BY <1>2, <2>2 DEF OrderInv
    <3>2. PropEnd(k)' = PropEnd(k) /\ PropEnd(k) \in Nat
      <4>1. props[k] \in PropKinds
        BY <1>2, <2>2 DEF OrderInv, TypeOK
      <4>2. StorageSize(props[k]) \in Nat
        BY <4>1, StorageFacts, LayoutAssumption
      <4>3. QED
        BY <1>1, <1>2, <1>4, <1>6, <2>2, <4>2 DEF PropEnd
    <3>3. \A l \in k + 1..i + 1 : PropEnd(k)' <= propoffsets'[l]
      <4>1. \A l \in k + 1..i : PropEnd(k)' <= propoffsets'[l]
        BY <1>2, <1>6, <2>2, <3>1, <3>2
      <4>2. PropEnd(k)' <= propoffsets'[i + 1]
        BY <1>1, <1>5, <1>6, <3>1, <3>2
      <4>3. QED
        BY <1>2, <2>2, <4>1, <4>2
    <3>4. QED
      BY <1>1, <1>2, <1>6, <1>8, <2>2, <3>1, <3>2, <3>3
  <2>3. QED
    BY <2>1, <2>2, <1>2
<1>10. QED
  <2>1. End' >= MetaOffset + PtrSize
    BY <1>1, <1>8
  <2>2. phase' # "dims" /\ phase' # "done" /\ size' >= 1
    BY <1>2, <1>3, <1>4
  <2>3. QED
    BY <1>4, <1>7, <1>9, <2>1, <2>2, <1>7 DEF OrderInv, TypeOK

(* The final step pads the end of the last member.                          *)
LEMMA FinishOrder ==
    ASSUME OrderInv, Finish
    PROVE  OrderInv'
<1>1. /\ End \in Nat /\ maxalign \in Nat \ {0}
      /\ esize' = End + ((maxalign - (End % maxalign)) % maxalign)
      /\ phase = "props" /\ phase' = "done" /\ i = Len(props)
      /\ UNCHANGED <<ndims, props, i, offset, size, maxalign, dimoffset,
                     propoffsets>>
  BY DEF Finish, OrderInv, TypeOK, End
<1>2. esize' \in Nat
  <2>1. End % maxalign \in 0..maxalign - 1
    BY <1>1, ModRange
  <2>2. (maxalign - (End % maxalign)) % maxalign \in 0..maxalign - 1
    BY <1>1, <2>1, ModRange
  <2>3. QED
    BY <1>1, <2>2
<1>3. reloffset' \in Nat
  BY DEF Finish, OrderInv, TypeOK
<1>4. TypeOK'
  BY <1>1, <1>2, <1>3 DEF OrderInv, TypeOK
<1>5. \A k \in 1..i : PropEnd(k)' = PropEnd(k)
  BY <1>1 DEF PropEnd
<1>6. QED
  BY <1>1, <1>4, <1>5 DEF OrderInv, End

LEMMA NextOrder == OrderInv /\ [Next]_vars => OrderInv'
<1> SUFFICES ASSUME OrderInv, [Next]_vars PROVE OrderInv'
  OBVIOUS
<1>1. CASE UNCHANGED vars
  BY <1>1 DEF vars, OrderInv, TypeOK, End, PropEnd
<1>2. QED
  BY <1>1, DimStepOrder, DimsDoneOrder, PropStepOrder, FinishOrder DEF Next
(***************************************************************************)
(* OrderInv holds in every state of dlite_meta_postinit's sweep, for any  *)
(* property widths and any build's sizes.                                  *)
(***************************************************************************)
THEOREM OrderInvariant == Spec => []OrderInv
BY InitOrder, NextOrder, PTL DEF Spec

(***************************************************************************)
(* dlite_meta_postinit's sweep keeps its counters in range: the index      *)
(* never passes the dimensions or properties it walks, every offset and    *)
(* size stays a natural number, and each placed property has an offset.   *)
(***************************************************************************)
THEOREM TypeCorrect == Spec => []TypeOK
<1>1. OrderInv => TypeOK
  BY DEF OrderInv
<1>2. QED
  BY <1>1, OrderInvariant, PTL

(***************************************************************************)
(* The property slots that dlite_meta_postinit lays out follow the header  *)
(* and never overlap one another, for every entity and every build: so     *)
(* dlite_instance_set_property_by_index writes no property over another.   *)
(***************************************************************************)
THEOREM PropertiesDisjointProved == Spec => []PropertiesDisjoint
<1>1. OrderInv => PropertiesDisjoint
  BY DEF OrderInv, PropertiesDisjoint, Done
<1>2. QED
  BY <1>1, OrderInvariant, PTL
-----------------------------------------------------------------------------
(* Slots of sizeof(size_t) bytes laid end to end from a multiple of it.    *)
LEMMA SlotArith ==
    ASSUME NEW d \in Int, NEW j \in Int, NEW s \in {1, 2, 4, 8}, d % s = 0
    PROVE  /\ (d + j * s) % s = 0
           /\ d + j * s + s = d + (j + 1) * s
<1>1. CASE s = 1
  BY <1>1
<1>2. CASE s = 2
  BY <1>2
<1>3. CASE s = 4
  BY <1>3
<1>4. CASE s = 8
  BY <1>4
<1>5. QED
  BY <1>1, <1>2, <1>3, <1>4

LEMMA InitBounds == Init => BoundsInv
<1> SUFFICES ASSUME Init PROVE BoundsInv
  OBVIOUS
<1>1. maxalign \in Pow2
  BY LayoutAssumption DEF Init, Alignment, Pow2
<1>2. QED
  BY <1>1, InitOrder DEF Init, BoundsInv
(* A dimension slot is placed at the next multiple of sizeof(size_t) after *)
(* the previous one, so the slots are at least sizeof(size_t) apart.       *)
LEMMA DimStepBounds ==
    ASSUME BoundsInv, DimStep
    PROVE  BoundsInv'
<1>1. /\ SizeTSize \in {1, 2, 4, 8} /\ SizeTSize \in Pow2
      /\ SizeTSize \in Nat \ {0} /\ IntSize \in Nat \ {0}
      /\ Alignment("int", SizeTSize) = SizeTSize
  BY LayoutAssumption DEF Alignment, Pow2
<1>2. /\ offset \in Nat /\ size \in Nat /\ End \in Nat /\ dimoffset \in Nat
      /\ i \in Nat
  BY DEF BoundsInv, OrderInv, TypeOK, End
<1>3. /\ offset' = AlignUp(End, SizeTSize) /\ size' = IntSize
      /\ phase = "dims" /\ phase' = "dims" /\ i' = i + 1 /\ i < ndims
      /\ dimoffset' = IF i = 0 THEN offset' ELSE dimoffset
      /\ UNCHANGED <<ndims, maxalign>>
  BY <1>1 DEF DimStep, MemberOffset, End
<1>4. /\ offset' \in Nat /\ offset' >= End /\ offset' % SizeTSize = 0
  <2>1. AlignUp(End, SizeTSize) \in Nat /\ AlignUp(End, SizeTSize) >= End
    BY <1>1, <1>2, AlignUpGe, Zenon
  <2>2. AlignUp(End, SizeTSize) % SizeTSize = 0
    BY <1>1, <1>2, AlignUpMultiple, Zenon
  <2>3. QED
    BY <1>3, <2>1, <2>2
<1>5. /\ dimoffset' % SizeTSize = 0
      /\ offset' >= dimoffset' + (i' - 1) * SizeTSize
  <2>1. CASE i = 0
    BY <1>1, <1>2, <1>3, <1>4, <2>1
  <2>2. CASE i # 0
    <3>1. /\ dimoffset % SizeTSize = 0 /\ offset % SizeTSize = 0 /\ size = IntSize
          /\ offset >= dimoffset + (i - 1) * SizeTSize
      BY <1>3, <2>2, <1>2 DEF BoundsInv
    <3>2. offset' >= offset + SizeTSize
      <4>1. offset' > offset
        BY <1>1, <1>2, <1>4, <3>1 DEF End
      <4>2. offset' \in Int /\ offset \in Int
        BY <1>2, <1>4
      <4>3. QED
        BY <1>1, <1>4, <3>1, <4>1, <4>2, NextMultiple, Zenon
    <3>3. dimoffset + (i - 1) * SizeTSize + SizeTSize = dimoffset + i * SizeTSize
      <4>1. dimoffset \in Int /\ i - 1 \in Int /\ (i - 1) + 1 = i
        BY <1>2
      <4>2. dimoffset + (i - 1) * SizeTSize + SizeTSize
              = dimoffset + ((i - 1) + 1) * SizeTSize
        BY <1>1, <3>1, <4>1, SlotArith, Zenon
      <4>3. QED
        BY <4>1, <4>2
    <3>4. dimoffset' = dimoffset /\ (i' - 1) * SizeTSize = i * SizeTSize
      BY <1>2, <1>3, <2>2
    <3>5. dimoffset' % SizeTSize = 0
      BY <3>1, <3>4
    <3>6. offset' >= dimoffset' + (i' - 1) * SizeTSize
      <4>1. offset' >= dimoffset + i * SizeTSize
        BY <1>1, <1>2, <1>4, <3>1, <3>2, <3>3
      <4>2. QED
        BY <3>4, <4>1
    <3>7. QED
      BY <3>5, <3>6
  <2>3. QED
    BY <2>1, <2>2
<1>6. OrderInv'
  BY DimStepOrder DEF BoundsInv
<1>7. QED
  BY <1>1, <1>3, <1>4, <1>5, <1>6 DEF BoundsInv
(* Leaving the dimension loop: the last slot starts before the end of the  *)
(* sweep, and size_t's alignment joins maxalign.                           *)
LEMMA DimsDoneBounds ==
    ASSUME BoundsInv, DimsDone
    PROVE  BoundsInv'
<1>1. /\ SizeTSize \in {1, 2, 4, 8} /\ SizeTSize \in Pow2
      /\ IntSize \in Nat \ {0} /\ Alignment("uint", SizeTSize) = SizeTSize
  BY LayoutAssumption DEF Alignment, Pow2
<1>2. /\ phase = "dims" /\ i = ndims /\ phase' = "props"
      /\ maxalign' = IF ndims > 0 /\ SizeTSize > maxalign
                     THEN SizeTSize ELSE maxalign
      /\ UNCHANGED <<ndims, offset, size, dimoffset>>
  BY <1>1 DEF DimsDone
<1>3. /\ maxalign \in Pow2 /\ ndims \in Nat /\ dimoffset \in Nat
      /\ offset \in Nat
  BY DEF BoundsInv, OrderInv, TypeOK
<1>4. maxalign' \in Pow2
  BY <1>1, <1>2, <1>3
<1>5. ndims > 0 => /\ dimoffset % SizeTSize = 0
                   /\ maxalign' >= SizeTSize
                   /\ End > LastDim
  <2> SUFFICES ASSUME ndims > 0 PROVE /\ dimoffset % SizeTSize = 0
                                      /\ maxalign' >= SizeTSize
                                      /\ End > LastDim
    OBVIOUS
  <2>1. /\ dimoffset % SizeTSize = 0 /\ size = IntSize
        /\ offset >= dimoffset + (ndims - 1) * SizeTSize
    BY <1>2 DEF BoundsInv
  <2>2. maxalign' >= SizeTSize
    BY <1>1, <1>2, <1>3 DEF Pow2
  <2>3. End > LastDim
    BY <1>1, <1>3, <2>1 DEF End, LastDim
  <2>4. QED
    BY <2>1, <2>2, <2>3
<1>6. OrderInv'
  BY DimsDoneOrder DEF BoundsInv
<1>7. QED
  BY <1>2, <1>4, <1>5, <1>6 DEF BoundsInv, End, LastDim

(* A property step moves the end of the sweep forward and joins the        *)
(* property's power-of-two alignment into maxalign.                        *)
LEMMA PropStepBounds ==
    ASSUME NaturalWidths, BoundsInv, PropStep
    PROVE  BoundsInv'
<1> DEFINE pk == props[i + 1]
           al == Alignment(StorageType(pk), StorageSize(pk))
<1>1. /\ phase = "props" /\ phase' = "props"
      /\ pk \in PropKinds
      /\ maxalign' = IF al > maxalign THEN al ELSE maxalign
      /\ UNCHANGED <<ndims, dimoffset>>
  BY DEF PropStep, BoundsInv, OrderInv, TypeOK
<1>2. al \in Pow2 /\ maxalign \in Pow2
  BY <1>1, StorageAlignPow2, LayoutAssumption DEF BoundsInv
<1>3. maxalign' \in Pow2 /\ maxalign' >= maxalign
  BY <1>1, <1>2 DEF Pow2
<1>4. End' >= End /\ End' \in Nat
  <2>1. /\ offset' = AlignUp(End, al) /\ size' = StorageSize(pk)
        /\ End \in Nat /\ al \in Nat \ {0} /\ StorageSize(pk) \in Nat
    <3>1. offset' = AlignUp(End, al) /\ size' = StorageSize(pk)
      BY DEF PropStep, MemberOffset, End
    <3>2. End \in Nat
      BY DEF BoundsInv, OrderInv, TypeOK, End
    <3>3. al \in Nat \ {0} /\ StorageSize(pk) \in Nat
      BY <1>1, StorageFacts, LayoutAssumption
    <3>4. QED
      BY <3>1, <3>2, <3>3
  <2>2. AlignUp(End, al) \in Nat /\ AlignUp(End, al) >= End
    BY <2>1, AlignUpGe, Zenon
  <2>3. QED
    BY <2>1, <2>2 DEF End
<1>5. ndims > 0 => /\ dimoffset % SizeTSize = 0
                   /\ maxalign' >= SizeTSize
                   /\ End' > LastDim'
  <2>1. /\ End \in Nat /\ maxalign \in Int /\ SizeTSize \in Int
        /\ ndims \in Nat /\ dimoffset \in Nat
    BY LayoutAssumption DEF BoundsInv, OrderInv, TypeOK, End
  <2>2. LastDim \in Int /\ LastDim' = LastDim
    BY <1>1, <2>1 DEF LastDim
  <2>3. ndims > 0 => /\ dimoffset % SizeTSize = 0
                     /\ maxalign >= SizeTSize
                     /\ End > LastDim
    BY <1>1 DEF BoundsInv
  <2>4. QED
    BY <1>1, <1>3, <1>4, <2>1, <2>2, <2>3 DEF Pow2
<1>6. OrderInv'
  BY PropStepOrder DEF BoundsInv
<1>7. QED
  BY <1>1, <1>3, <1>5, <1>6 DEF BoundsInv
(* The final padding rounds the end of the sweep up to maxalign.           *)
LEMMA FinishBounds ==
    ASSUME BoundsInv, Finish
    PROVE  BoundsInv'
<1>1. /\ End \in Nat /\ maxalign \in Pow2
      /\ esize' = End + ((maxalign - (End % maxalign)) % maxalign)
      /\ phase = "props" /\ phase' = "done"
      /\ UNCHANGED <<ndims, offset, size, maxalign, dimoffset>>
  BY DEF Finish, BoundsInv, OrderInv, TypeOK, End
<1>2. esize' >= End /\ esize' % maxalign = 0
  <2>1. LET E == End + ((maxalign - (End % maxalign)) % maxalign)
        IN  E \in Nat /\ E >= End /\ E % maxalign = 0
    BY <1>1, PadUp, Zenon
  <2>2. QED
    BY <1>1, <2>1
<1>3. End' = End /\ LastDim' = LastDim
  BY <1>1 DEF End, LastDim
<1>4. OrderInv'
  BY FinishOrder DEF BoundsInv
<1>5. QED
  BY <1>1, <1>2, <1>3, <1>4 DEF BoundsInv

LEMMA NextBounds ==
    ASSUME NaturalWidths
    PROVE  BoundsInv /\ [Next]_vars => BoundsInv'
<1> SUFFICES ASSUME BoundsInv, [Next]_vars PROVE BoundsInv'
  OBVIOUS
<1>1. CASE UNCHANGED vars
  <2>1. OrderInv'
    BY <1>1, NextOrder DEF BoundsInv
  <2>2. QED
    BY <1>1, <2>1 DEF vars, BoundsInv, End, LastDim
<1>2. QED
  BY <1>1, DimStepBounds, DimsDoneBounds, PropStepBounds, FinishBounds
  DEF Next

(***************************************************************************)
(* BoundsInv holds in every state of the sweep, for natural widths.       *)
(***************************************************************************)
THEOREM BoundsInvariant ==
    ASSUME NaturalWidths
    PROVE  Spec => []BoundsInv
BY InitBounds, NextBounds, PTL DEF Spec

(***************************************************************************)
(* Every property slot that dlite_meta_postinit lays out, and the array of *)
(* ndimensions size_t values that dlite_instance_create copies in, lie     *)
(* inside the meta->size bytes the instance is allocated with, for every   *)
(* entity and every build, when numeric widths are natural; also when the  *)
(* sweep carries sizeof(int) for a size_t dimension slot.                  *)
(***************************************************************************)
THEOREM LayoutInBoundsProved ==
    ASSUME NaturalWidths
    PROVE  Spec => []LayoutInBounds
<1>1. BoundsInv => LayoutInBounds
  <2> SUFFICES ASSUME BoundsInv, Done
               PROVE  /\ \A k \in 1..Len(props) : PropEnd(k) <= esize
                      /\ DimsEnd <= esize
    BY DEF LayoutInBounds
  <2>1. /\ phase = "done" /\ i = Len(props)
        /\ esize >= End /\ esize % maxalign = 0
        /\ End \in Nat /\ esize \in Nat /\ maxalign \in Pow2
        /\ ndims \in Nat /\ dimoffset \in Nat
    BY DEF Done, BoundsInv, OrderInv, TypeOK, End
  <2>2. SizeTSize \in {1, 2, 4, 8}
    BY LayoutAssumption
  <2>3. ASSUME NEW k \in 1..Len(props) PROVE PropEnd(k) <= esize
    <3>1. props[k] \in PropKinds /\ propoffsets[k] \in Nat
      BY DEF BoundsInv, OrderInv, TypeOK
    <3>2. StorageSize(props[k]) \in Nat
      BY <3>1, StorageFacts, LayoutAssumption
    <3>3. PropEnd(k) <= End
      BY <2>1 DEF BoundsInv, OrderInv
    <3>4. QED
      BY <2>1, <3>1, <3>2, <3>3 DEF PropEnd
  <2>4. DimsEnd <= esize
    <3>1. CASE ndims = 0
      BY <2>1, <2>2, <3>1 DEF BoundsInv, DimsEnd
    <3>2. CASE ndims > 0
      <4>1. dimoffset % SizeTSize = 0 /\ maxalign >= SizeTSize /\ End > LastDim
        BY <2>1, <3>2 DEF BoundsInv
      <4>2. esize % SizeTSize = 0
        <5>1. esize \in Int
          BY <2>1
        <5>2. QED
          BY <2>1, <2>2, <4>1, <5>1, Pow2Divides, Zenon
      <4>3. /\ LastDim % SizeTSize = 0
            /\ LastDim + SizeTSize = dimoffset + ((ndims - 1) + 1) * SizeTSize
        <5>1. ndims - 1 \in Int /\ dimoffset \in Int
          BY <2>1
        <5>2. QED
          BY <2>2, <4>1, <5>1, SlotArith, Zenon DEF LastDim
      <4>4. LastDim + SizeTSize = DimsEnd /\ LastDim \in Int
        BY <2>1, <2>2, <4>3 DEF DimsEnd, LastDim
      <4>5. esize >= LastDim + SizeTSize
        <5>1. esize \in Int /\ esize > LastDim
          BY <2>1, <4>1, <4>4
        <5>2. QED
          BY <2>2, <4>2, <4>3, <4>4, <5>1, NextMultiple, Zenon
      <4>6. QED
        BY <4>4, <4>5
    <3>3. QED
      BY <2>1, <3>1, <3>2
  <2>5. QED
    BY <2>3, <2>4
<1>2. QED
  BY <1>1, BoundsInvariant, PTL
=============================================================================
