-------------------------- MODULE DLiteEntityProofs --------------------------
(***************************************************************************)
(* Proofs about the entity/instance lifecycle of DLiteEntity, for every    *)
(* number of entity and instance slots and every MaxRef.                   *)
(*                                                                         *)
(* LiveIffReferenced is not inductive by itself: a decref that leaves a    *)
(* live entity reachable may still free it unless the refcount equals the  *)
(* number of references.  The inductive invariant IInv therefore states    *)
(* the exact accounting: a live entity's refcount is the caller's          *)
(* references plus its live instances, an entity that is not live has no  *)
(* references, and the schema counts the live entities.                    *)
(***************************************************************************)
EXTENDS DLiteEntity, FiniteSetTheorems, TLAPS

\* A live entity's refcount counts the caller's references and its live
\* instances, and is positive.
RcLive ==
    \A e \in Ent : estate[e] = "live" =>
        /\ rc[e] = held[e] + Cardinality(InstancesOf(e))
        /\ rc[e] >= 1

\* Nobody refers to an entity that is not live.
RcDead ==
    \A e \in Ent : estate[e] # "live" => held[e] = 0 /\ InstancesOf(e) = {}

\* A live instance's meta pointer is an entity, not NULL.
MetaSet ==
    \A i \in Inst : istate[i] = "live" => imeta[i] \in Ent

IInv == TypeOK /\ RcLive /\ RcDead /\ MetaSet /\ SchemaRefcount

-----------------------------------------------------------------------------
(* Finiteness of the derived sets. *)

LEMMA InstSubsetFinite ==
    ASSUME NEW S \in SUBSET Inst
    PROVE  IsFiniteSet(S) /\ Cardinality(S) \in Nat
BY ConstantsAssumption, FS_Subset, FS_CardinalityType

LEMMA EntSubsetFinite ==
    ASSUME NEW S \in SUBSET Ent
    PROVE  IsFiniteSet(S) /\ Cardinality(S) \in Nat
BY ConstantsAssumption, FS_Subset, FS_CardinalityType

\* The live entities and each entity's live instances form finite sets.
LEMMA DerivedFinite ==
    /\ IsFiniteSet(LiveEnts) /\ Cardinality(LiveEnts) \in Nat
    /\ \A x : IsFiniteSet(InstancesOf(x)) /\ Cardinality(InstancesOf(x)) \in Nat
<1>1. LiveEnts \in SUBSET Ent
    BY DEF LiveEnts
<1>2. \A x : InstancesOf(x) \in SUBSET Inst
    BY DEF InstancesOf
<1>3. QED
    BY <1>1, <1>2, EntSubsetFinite, InstSubsetFinite

-----------------------------------------------------------------------------
(* Initiation *)

LEMMA InitIInv == Init => IInv
<1> SUFFICES ASSUME Init PROVE IInv
    OBVIOUS
<1>1. TypeOK
    BY ConstantsAssumption DEF Init, TypeOK, SlotState
<1>2. \A e \in Ent : InstancesOf(e) = {}
    BY DEF Init, InstancesOf
<1>3. LiveEnts = {}
    BY DEF Init, LiveEnts
<1>4. SchemaRefcount
    BY <1>3, FS_EmptySet DEF Init, SchemaRefcount
<1>5. QED
    BY <1>1, <1>2, <1>4 DEF Init, IInv, RcLive, RcDead, MetaSet

-----------------------------------------------------------------------------
(* Consecution, one lemma per operation *)

LEMMA EntityCreateIInv ==
    ASSUME IInv, NEW e \in Ent, NEW u \in BOOLEAN, NEW s \in Shapes,
           EntityCreate(e, u, s)
    PROVE  IInv'
<1> USE DEF EntityCreate
<1>1. TypeOK'
    BY DEF IInv, TypeOK, SlotState
<1>2. \A x \in Ent : InstancesOf(x)' = InstancesOf(x)
    BY DEF InstancesOf
<1>3. InstancesOf(e) = {}
    BY DEF IInv, RcDead
<1>4. RcLive'
    <2>1. SUFFICES ASSUME NEW x \in Ent, estate'[x] = "live"
                   PROVE  /\ rc'[x] = held'[x] + Cardinality(InstancesOf(x)')
                          /\ rc'[x] >= 1
        BY DEF RcLive
    <2>2. CASE x = e
        <3>1. Cardinality(InstancesOf(e)') = 0
            BY <1>2, <1>3, FS_EmptySet
        <3>2. QED
            BY <2>2, <3>1 DEF IInv, TypeOK
    <2>3. CASE x # e
        <3>1. estate[x] = "live" /\ rc'[x] = rc[x] /\ held'[x] = held[x]
            BY <2>1, <2>3 DEF IInv, TypeOK
        <3>2. rc[x] = held[x] + Cardinality(InstancesOf(x)) /\ rc[x] >= 1
            BY <3>1 DEF IInv, RcLive
        <3>3. InstancesOf(x)' = InstancesOf(x)
            BY <1>2
        <3>4. QED
            BY <3>1, <3>2, <3>3
    <2>4. QED
        BY <2>2, <2>3
<1>5. RcDead'
    BY <1>2 DEF IInv, RcDead, TypeOK
<1>6. MetaSet'
    BY DEF IInv, MetaSet
<1>7. SchemaRefcount'
    <2>1. LiveEnts' = LiveEnts \cup {e} /\ e \notin LiveEnts
        BY DEF LiveEnts, IInv, TypeOK
    <2>2. IsFiniteSet(LiveEnts) /\ Cardinality(LiveEnts) \in Nat
        BY DerivedFinite
    <2>3. Cardinality(LiveEnts') = Cardinality(LiveEnts) + 1
        BY <2>1, <2>2, FS_AddElement
    <2>4. QED
        BY <2>2, <2>3 DEF IInv, SchemaRefcount
<1>8. QED
    BY <1>1, <1>4, <1>5, <1>6, <1>7 DEF IInv

LEMMA EntityCreateFailIInv ==
    ASSUME IInv, NEW e \in Ent, NEW w, EntityCreateFail(e, w)
    PROVE  IInv'
<1> USE DEF EntityCreateFail
<1>1. TypeOK'
    BY DEF IInv, TypeOK, SlotState
<1>2. \A x \in Ent : InstancesOf(x)' = InstancesOf(x)
    BY DEF InstancesOf
<1>3. LiveEnts' = LiveEnts
    BY DEF LiveEnts, IInv, TypeOK
<1>4. QED
    BY <1>1, <1>2, <1>3 DEF IInv, RcLive, RcDead, MetaSet, SchemaRefcount

LEMMA EntityIncrefIInv ==
    ASSUME IInv, NEW e \in Ent, EntityIncref(e)
    PROVE  IInv'
<1> USE DEF EntityIncref
<1>1. TypeOK'
    BY DEF IInv, TypeOK
<1>2. \A x \in Ent : InstancesOf(x)' = InstancesOf(x)
    BY DEF InstancesOf
<1>3. LiveEnts' = LiveEnts
    BY DEF LiveEnts
<1>4. RcLive'
    <2>1. SUFFICES ASSUME NEW x \in Ent, estate'[x] = "live"
                   PROVE  /\ rc'[x] = held'[x] + Cardinality(InstancesOf(x)')
                          /\ rc'[x] >= 1
        BY DEF RcLive
    <2>2. Cardinality(InstancesOf(x)) \in Nat
        BY DerivedFinite
    <2>3. estate[x] = "live"
        BY <2>1
    <2>4. rc[x] = held[x] + Cardinality(InstancesOf(x)) /\ rc[x] >= 1
        BY <2>3 DEF IInv, RcLive
    <2>5. InstancesOf(x)' = InstancesOf(x)
        BY <1>2
    <2>6. CASE x = e
        BY <2>2, <2>4, <2>5, <2>6 DEF IInv, TypeOK
    <2>7. CASE x # e
        BY <2>4, <2>5, <2>7 DEF IInv, TypeOK
    <2>8. QED
        BY <2>6, <2>7
<1>5. QED
    BY <1>1, <1>2, <1>3, <1>4 DEF IInv, RcDead, MetaSet, SchemaRefcount

LEMMA EntityDecrefIInv ==
    ASSUME IInv, NEW e \in Ent, EntityDecref(e)
    PROVE  IInv'
<1> USE DEF EntityDecref, DropRef
<1>1. /\ estate[e] = "live" /\ held[e] > 0
      /\ rc[e] = held[e] + Cardinality(InstancesOf(e)) /\ rc[e] >= 1
    BY DEF IInv, RcLive
<1>2. /\ Cardinality(InstancesOf(e)) \in Nat
      /\ IsFiniteSet(LiveEnts) /\ Cardinality(LiveEnts) \in Nat
    BY DerivedFinite
<1>3. \A x \in Ent : InstancesOf(x)' = InstancesOf(x)
    BY DEF InstancesOf
<1>4. CASE rc[e] - 1 > 0
    <2>0. /\ UNCHANGED <<estate, schemarc, leaked, units, shape, istate, imeta, crashed>>
          /\ rc' = [rc EXCEPT ![e] = @ - 1]
          /\ held' = [held EXCEPT ![e] = @ - 1]
        BY <1>4
    <2>1. TypeOK'
        BY <1>1, <1>4, <2>0 DEF IInv, TypeOK
    <2>2. RcLive'
        <3>1. SUFFICES ASSUME NEW x \in Ent, estate'[x] = "live"
                       PROVE  /\ rc'[x] = held'[x] + Cardinality(InstancesOf(x)')
                              /\ rc'[x] >= 1
            BY DEF RcLive
        <3>2. CASE x = e
            BY <1>1, <1>2, <1>3, <1>4, <3>2 DEF IInv, TypeOK
        <3>3. CASE x # e
            BY <1>3, <1>4, <3>1, <3>3 DEF IInv, TypeOK, RcLive
        <3>4. QED
            BY <3>2, <3>3
    <2>3. RcDead'
        BY <1>3, <1>4 DEF IInv, TypeOK, RcDead
    <2>4. SchemaRefcount'
        BY <1>4 DEF IInv, SchemaRefcount, LiveEnts
    <2>5. QED
        BY <2>1, <2>2, <2>3, <2>4 DEF IInv, MetaSet
<1>5. CASE ~(rc[e] - 1 > 0)
    <2>1. held[e] = 1 /\ Cardinality(InstancesOf(e)) = 0
        BY <1>1, <1>2, <1>5 DEF IInv, TypeOK
    <2>2. InstancesOf(e) = {}
        BY <2>1, <1>2, DerivedFinite, FS_EmptySet
    <2>0. /\ estate' = [estate EXCEPT ![e] = "freed"]
          /\ schemarc' = schemarc - 1
          /\ leaked' = leaked
          /\ UNCHANGED <<units, shape, istate, imeta, crashed>>
          /\ rc' = [rc EXCEPT ![e] = @ - 1]
          /\ held' = [held EXCEPT ![e] = @ - 1]
        BY <1>5
    <2>3. /\ estate' = [estate EXCEPT ![e] = "freed"]
          /\ rc'[e] = 0 /\ held'[e] = 0
          /\ schemarc' = schemarc - 1
        BY <1>1, <2>0, <2>1 DEF IInv, TypeOK
    <2>4. LiveEnts' = LiveEnts \ {e} /\ e \in LiveEnts
        BY <1>1, <2>3 DEF LiveEnts, IInv, TypeOK
    <2>5. Cardinality(LiveEnts') = Cardinality(LiveEnts) - 1
        BY <1>2, <2>4, FS_RemoveElement
    <2>6. TypeOK'
        <3>1. schemarc' \in Nat
            BY <1>2, <2>3 DEF IInv, SchemaRefcount
        <3>2. rc' \in [Ent -> Nat] /\ held' \in [Ent -> Nat]
            BY <2>0, <2>3 DEF IInv, TypeOK
        <3>3. estate' \in [Ent -> SlotState]
            BY <2>0 DEF IInv, TypeOK, SlotState
        <3>4. QED
            BY <2>0, <3>1, <3>2, <3>3 DEF IInv, TypeOK
    <2>7. RcLive'
        BY <1>3, <2>3 DEF IInv, TypeOK, RcLive
    <2>8. RcDead'
        BY <1>3, <2>2, <2>3 DEF IInv, TypeOK, RcDead
    <2>9. SchemaRefcount'
        BY <1>2, <2>3, <2>5 DEF IInv, SchemaRefcount
    <2>10. QED
        BY <2>6, <2>7, <2>8, <2>9 DEF IInv, MetaSet
<1>6. QED
    BY <1>4, <1>5

LEMMA InstanceCreateIInv ==
    ASSUME IInv, NEW i \in Inst, NEW e \in Ent, InstanceCreate(i, e)
    PROVE  IInv'
<1> USE DEF InstanceCreate
<1>1. /\ estate[e] = "live"
      /\ rc[e] = held[e] + Cardinality(InstancesOf(e)) /\ rc[e] >= 1
    BY DEF IInv, RcLive
<1>2. /\ IsFiniteSet(InstancesOf(e)) /\ Cardinality(InstancesOf(e)) \in Nat
    BY DerivedFinite
<1>3. InstancesOf(e)' = InstancesOf(e) \cup {i} /\ i \notin InstancesOf(e)
    BY DEF InstancesOf, IInv, TypeOK
<1>4. \A x \in Ent \ {e} : InstancesOf(x)' = InstancesOf(x)
    BY DEF InstancesOf, IInv, TypeOK
<1>5. Cardinality(InstancesOf(e)') = Cardinality(InstancesOf(e)) + 1
    BY <1>2, <1>3, FS_AddElement
<1>6. TypeOK'
    BY <1>1 DEF IInv, TypeOK, SlotState
<1>7. RcLive'
    <2>1. SUFFICES ASSUME NEW x \in Ent, estate'[x] = "live"
                   PROVE  /\ rc'[x] = held'[x] + Cardinality(InstancesOf(x)')
                          /\ rc'[x] >= 1
        BY DEF RcLive
    <2>2. CASE x = e
        BY <1>1, <1>2, <1>5, <2>2 DEF IInv, TypeOK
    <2>3. CASE x # e
        BY <1>4, <2>1, <2>3 DEF IInv, TypeOK, RcLive
    <2>4. QED
        BY <2>2, <2>3
<1>8. RcDead'
    BY <1>1, <1>4 DEF IInv, RcDead
<1>9. MetaSet'
    BY DEF IInv, MetaSet, TypeOK
<1>10. SchemaRefcount'
    BY DEF IInv, SchemaRefcount, LiveEnts
<1>11. QED
    BY <1>6, <1>7, <1>8, <1>9, <1>10 DEF IInv

LEMMA InstanceFreeIInv ==
    ASSUME IInv, NEW i \in Inst, InstanceFree(i)
    PROVE  IInv'
<1> DEFINE e == imeta[i]
<1> USE DEF InstanceFree, DropRef
<1>1. e \in Ent /\ i \in InstancesOf(e)
    BY DEF IInv, MetaSet, InstancesOf
<1>2. /\ estate[e] = "live"
      /\ rc[e] = held[e] + Cardinality(InstancesOf(e)) /\ rc[e] >= 1
    BY <1>1 DEF IInv, RcLive, RcDead
<1>3. /\ IsFiniteSet(InstancesOf(e)) /\ Cardinality(InstancesOf(e)) \in Nat
      /\ IsFiniteSet(LiveEnts) /\ Cardinality(LiveEnts) \in Nat
    BY DerivedFinite
<1>4. InstancesOf(e)' = InstancesOf(e) \ {i}
    BY DEF InstancesOf, IInv, TypeOK
<1>5. \A x \in Ent \ {e} : InstancesOf(x)' = InstancesOf(x)
    BY DEF InstancesOf, IInv, TypeOK
<1>6. Cardinality(InstancesOf(e)') = Cardinality(InstancesOf(e)) - 1
    BY <1>1, <1>3, <1>4, FS_RemoveElement
<1>7. MetaSet'
    BY DEF IInv, MetaSet, TypeOK
<1>8. CASE rc[e] - 1 > 0
    <2>0. /\ UNCHANGED <<estate, schemarc, leaked, held, units, shape, imeta, crashed>>
          /\ rc' = [rc EXCEPT ![e] = @ - 1]
        BY <1>8
    <2>1. TypeOK'
        BY <1>1, <1>2, <2>0 DEF IInv, TypeOK, SlotState
    <2>2. RcLive'
        <3>1. SUFFICES ASSUME NEW x \in Ent, estate'[x] = "live"
                       PROVE  /\ rc'[x] = held'[x] + Cardinality(InstancesOf(x)')
                              /\ rc'[x] >= 1
            BY DEF RcLive
        <3>2. CASE x = e
            BY <1>1, <1>2, <1>3, <1>6, <1>8, <2>0, <3>2 DEF IInv, TypeOK
        <3>3. CASE x # e
            BY <1>5, <2>0, <3>1, <3>3 DEF IInv, TypeOK, RcLive
        <3>4. QED
            BY <3>2, <3>3
    <2>3. RcDead'
        BY <1>2, <1>5, <2>0 DEF IInv, RcDead
    <2>4. SchemaRefcount'
        BY <2>0 DEF IInv, SchemaRefcount, LiveEnts
    <2>5. QED
        BY <1>7, <2>1, <2>2, <2>3, <2>4 DEF IInv
<1>9. CASE ~(rc[e] - 1 > 0)
    <2>0. /\ estate' = [estate EXCEPT ![e] = "freed"]
          /\ schemarc' = schemarc - 1
          /\ leaked' = IF units[e] THEN leaked \cup {"units"} ELSE leaked
          /\ UNCHANGED <<held, units, shape, imeta, crashed>>
          /\ rc' = [rc EXCEPT ![e] = @ - 1]
        BY <1>9
    <2>1. held[e] = 0 /\ Cardinality(InstancesOf(e)) = 1
        <3>1. Cardinality(InstancesOf(e)) # 0
            BY <1>1, <1>3, FS_EmptySet
        <3>2. held[e] \in Nat /\ rc[e] \in Nat
            BY <1>1 DEF IInv, TypeOK
        <3>3. QED
            BY <1>2, <1>3, <1>9, <3>1, <3>2
    <2>2. InstancesOf(e)' = {}
        <3>1. IsFiniteSet(InstancesOf(e)')
            <4>1. InstancesOf(e)' \in SUBSET Inst
                BY DEF InstancesOf
            <4>2. QED
                BY <4>1, InstSubsetFinite
        <3>2. QED
            BY <1>6, <2>1, <3>1, FS_EmptySet
    <2>3. LiveEnts' = LiveEnts \ {e} /\ e \in LiveEnts
        BY <1>1, <1>2, <2>0 DEF LiveEnts, IInv, TypeOK
    <2>4. Cardinality(LiveEnts') = Cardinality(LiveEnts) - 1
        BY <1>3, <2>3, FS_RemoveElement
    <2>5. TypeOK'
        <3>1. schemarc' \in Nat
            BY <1>3, <2>0 DEF IInv, SchemaRefcount
        <3>2. rc' \in [Ent -> Nat]
            BY <1>1, <1>2, <1>9, <2>0 DEF IInv, TypeOK
        <3>3. estate' \in [Ent -> SlotState] /\ leaked' \subseteq {"units", "props"}
            BY <1>1, <2>0 DEF IInv, TypeOK, SlotState
        <3>4. QED
            BY <2>0, <3>1, <3>2, <3>3 DEF IInv, TypeOK, SlotState
    <2>6. RcLive'
        BY <1>1, <1>5, <2>0 DEF IInv, TypeOK, RcLive
    <2>7. RcDead'
        BY <1>1, <1>5, <2>0, <2>1, <2>2 DEF IInv, TypeOK, RcDead
    <2>8. SchemaRefcount'
        BY <1>3, <2>0, <2>4 DEF IInv, SchemaRefcount
    <2>9. QED
        BY <1>7, <2>5, <2>6, <2>7, <2>8 DEF IInv
<1>10. QED
    BY <1>8, <1>9

LEMMA NextIInv == IInv /\ [Next]_vars => IInv'
<1> SUFFICES ASSUME IInv, [Next]_vars PROVE IInv'
    OBVIOUS
<1>1. CASE \E e \in Ent, u \in BOOLEAN, s \in Shapes : EntityCreate(e, u, s)
    BY <1>1, EntityCreateIInv
<1>2. CASE \E e \in Ent, w \in {"early", "props", "postinit"} :
               EntityCreateFail(e, w)
    BY <1>2, EntityCreateFailIInv
<1>3. CASE \E e \in Ent : EntityIncref(e)
    BY <1>3, EntityIncrefIInv
<1>4. CASE \E e \in Ent : EntityDecref(e)
    BY <1>4, EntityDecrefIInv
<1>5. CASE \E i \in Inst, e \in Ent : InstanceCreate(i, e)
    BY <1>5, InstanceCreateIInv
<1>6. CASE \E i \in Inst : InstanceFree(i)
    BY <1>6, InstanceFreeIInv
<1>7. CASE UNCHANGED vars
    <2>1. \A x : InstancesOf(x)' = InstancesOf(x)
        BY <1>7 DEF vars, InstancesOf
    <2>2. LiveEnts' = LiveEnts
        BY <1>7 DEF vars, LiveEnts
    <2>3. QED
        BY <1>7, <2>1, <2>2
        DEF vars, IInv, TypeOK, RcLive, RcDead, MetaSet, SchemaRefcount
<1>8. QED
    BY <1>1, <1>2, <1>3, <1>4, <1>5, <1>6, <1>7 DEF Next

-----------------------------------------------------------------------------
(* Theorems *)

\* IInv holds in every reachable state.
THEOREM Invariance == Spec => []IInv
BY InitIInv, NextIInv, PTL DEF Spec

(***************************************************************************)
(* Type correctness: every refcount, reference count and pointer keeps its *)
(* type under every sequence of create/incref/decref/free calls; in        *)
(* particular no refcount is decremented below zero.                       *)
(***************************************************************************)
THEOREM TypeCorrect == Spec => []TypeOK
BY Invariance, PTL DEF IInv

(***************************************************************************)
(* dlite_entity_decref and dlite_instance_free free an entity exactly when *)
(* its last reference, the caller's or an instance's, is dropped.          *)
(***************************************************************************)
THEOREM RefcountCorrect == Spec => []LiveIffReferenced
<1>1. IInv => LiveIffReferenced
    <2> SUFFICES ASSUME IInv, NEW e \in Ent
                 PROVE  estate[e] = "live" <=> Reachable(e)
        BY DEF LiveIffReferenced
    <2>1. Cardinality(InstancesOf(e)) \in Nat
        BY DerivedFinite
    <2>2. Cardinality({}) = 0
        BY FS_EmptySet
    <2>3. held[e] \in Nat
        BY DEF IInv, TypeOK
    <2>4. QED
        BY <2>1, <2>2, <2>3 DEF IInv, RcLive, RcDead, Reachable
<1>2. QED
    BY <1>1, Invariance, PTL

(***************************************************************************)
(* The static schema_entity is never passed to free(): its refcount is one *)
(* more than the number of live entities, whatever the calls.              *)
(***************************************************************************)
THEOREM SchemaPinned == Spec => []SchemaRefcount
BY Invariance, PTL DEF IInv

=============================================================================
