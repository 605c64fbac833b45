--------------------------- MODULE DLiteCollection ---------------------------
(***************************************************************************)
(* A collection (dlite-collection.c) and the triple store it delegates to. *)
(* The triple store is not part of the sources: it is modelled from the    *)
(* interface of spec 4.7 as an array of triples, iterated by a position    *)
(* (triplestore_init_state / triplestore_find) and compacted on removal by *)
(* moving the last triple into the freed slot.  A triple's id is its       *)
(* content, so the store holds a triple at most once: adding one that is  *)
(* there already leaves the store as it is.                                *)
(*                                                                         *)
(* Labels, uuids and metadata uris are model values.  The user relations   *)
(* are dimension maps: a target triple (d, "_maps-to", "N") and a triple   *)
(* (label, "_has-dimmap", id-of-target).                                   *)
(***************************************************************************)
EXTENDS Integers, Sequences, FiniteSets

CONSTANTS
    Labels,      \* instance labels
    Uuids,       \* instance uuids
    MetaUris,    \* uris of the instances' metadata
    DimNames,    \* subjects of the dimension-map target triples
    MaxTriples   \* bound on the number of triples in the store

ASSUME CollectionAssumption == MaxTriples \in Nat

Triple(s, p, o) == [s |-> s, p |-> p, o |-> o]

Target(d) == Triple(d, "_maps-to", "N")

Wild == "*"    \* a NULL argument of a find or remove pattern

VARIABLES
    store,       \* coll->store->triplets, in array order
    stale        \* targets a dlite_collection_remove left behind

vars == <<store, stale>>

-----------------------------------------------------------------------------
(* The triple store (spec 4.7).                                            *)

Matches(t, s, p, o) ==
    /\ s \in {Wild, t.s} /\ p \in {Wild, t.p} /\ o \in {Wild, t.o}

(* Remove the triple at index k: the last triple takes its place.          *)
SwapRemove(seq, k) == SubSeq([seq EXCEPT ![k] = seq[Len(seq)]], 1, Len(seq) - 1)

(* triplestore_remove(s, p, o): scan from the front, re-examining a slot   *)
(* after the last triple has been moved into it.                           *)
RECURSIVE RemoveFrom(_, _, _, _, _)
RemoveFrom(seq, k, s, p, o) ==
    IF k > Len(seq) THEN seq
    ELSE IF Matches(seq[k], s, p, o) THEN RemoveFrom(SwapRemove(seq, k), k, s, p, o)
    ELSE RemoveFrom(seq, k + 1, s, p, o)

StoreRemove(seq, s, p, o) == RemoveFrom(seq, 1, s, p, o)

(* triplestore_remove_by_id: the first triple with that id. *)
RemoveById(seq, id) ==
    IF \E k \in 1..Len(seq) : seq[k] = id
    THEN SwapRemove(seq, CHOOSE k \in 1..Len(seq) :
                            seq[k] = id /\ \A j \in 1..k - 1 : seq[j] # id)
    ELSE seq

(* triplestore_add: append unless a triple with that id is present.        *)
StoreAdd(seq, t) == IF \E k \in 1..Len(seq) : seq[k] = t THEN seq ELSE Append(seq, t)

CountMatches(seq, s, p, o) ==
    Cardinality({k \in 1..Len(seq) : Matches(seq[k], s, p, o)})

(***************************************************************************)
(* The loop of dlite_collection_remove: triplestore_find returns the next  *)
(* match at or after the state's position and moves the position past it; *)
(* the body removes the triple the match names by id, which can move the   *)
(* last triple to a slot the position has already passed.                  *)
(***************************************************************************)
RECURSIVE DimmapLoop(_, _, _)
DimmapLoop(seq, pos, label) ==
    LET hits == {k \in pos..Len(seq) : Matches(seq[k], label, "_has-dimmap", Wild)}
    IN  IF hits = {} THEN seq
        ELSE LET k == CHOOSE k \in hits : \A j \in hits : k <= j
             IN  DimmapLoop(RemoveById(seq, seq[k].o), k + 1, label)

-----------------------------------------------------------------------------
Init ==
    /\ store = <<>>     \* triplestore_create() in dlite_collection_create
    /\ stale = {}

(* dlite_collection_add_relation: a passthrough to triplestore_add.        *)
AddRelation(s, p, o) ==
    /\ Len(store) < MaxTriples
    /\ store' = StoreAdd(store, Triple(s, p, o))
    /\ UNCHANGED stale

(* dlite_collection_remove_relations: a passthrough to triplestore_remove. *)
RemoveRelations(s, p, o) ==
    /\ store' = StoreRemove(store, s, p, o)
    /\ UNCHANGED stale

(* dlite_collection_add(coll, label, inst) for an instance with metadata:  *)
(* three add_relation calls, with no check that the label is free.         *)
CollectionAdd_dropMeta(label, uuid, meta) ==
    /\ Len(store) + 3 <= MaxTriples
    /\ store' = StoreAdd(StoreAdd(store, Triple(label, "_is-a", "Instance")),
                         Triple(label, "_has-uuid", uuid))
    /\ UNCHANGED stale

CollectionAdd(label, uuid, meta) ==
    /\ Len(store) + 3 <= MaxTriples
    /\ store' = StoreAdd(StoreAdd(StoreAdd(store,
                      Triple(label, "_is-a", "Instance")),
                      Triple(label, "_has-uuid", uuid)),
                      Triple(label, "_has-meta", meta))
    /\ UNCHANGED stale

(* dlite_collection_remove(coll, label): when some _is-a marker was        *)
(* removed, follow the label's dimension maps, then remove its uuid, meta  *)
(* and dimension-map triples.  The targets it should have removed and that *)
(* remain are recorded in stale.                                           *)
CollectionRemove(label) ==
    /\ CountMatches(store, label, "_is-a", "Instance") > 0
    /\ LET s1 == StoreRemove(store, label, "_is-a", "Instance")
           s2 == DimmapLoop(s1, 1, label)
           s3 == StoreRemove(StoreRemove(StoreRemove(s2,
                     label, "_has-uuid", Wild), label, "_has-meta", Wild),
                     label, "_has-dimmap", Wild)
           targets == {store[k].o : k \in {j \in 1..Len(store) :
                          Matches(store[j], label, "_has-dimmap", Wild)}}
       IN  /\ store' = s3
           /\ stale' = stale \cup {t \in targets : \E k \in 1..Len(s3) : s3[k] = t}

Next ==
    \/ \E l \in Labels, u \in Uuids, m \in MetaUris : CollectionAdd(l, u, m)
    \/ \E l \in Labels : CollectionRemove(l)
    \/ \E d \in DimNames : AddRelation(d, "_maps-to", "N")
    \/ \E l \in Labels, d \in DimNames : AddRelation(l, "_has-dimmap", Target(d))
    \/ \E d \in DimNames : RemoveRelations(d, "_maps-to", Wild)

Spec == Init /\ [][Next]_vars

-----------------------------------------------------------------------------
IsA(l) == \E k \in 1..Len(store) : store[k] = Triple(l, "_is-a", "Instance")

HasPred(l, p) == \E k \in 1..Len(store) : store[k].s = l /\ store[k].p = p

(***************************************************************************)
(* No uuid or meta triple of a label outlives its _is-a marker: whatever   *)
(* adds, removes and relation edits were made, dlite_collection_remove     *)
(* leaves nothing of an instance behind, and dlite_collection_add writes   *)
(* all of its triples.                                                     *)
(***************************************************************************)
NoOrphanMembers ==
    \A l \in Labels :
        /\ HasPred(l, "_has-uuid") => IsA(l)
        /\ HasPred(l, "_has-meta") => IsA(l)
        /\ IsA(l) => HasPred(l, "_has-uuid") /\ HasPred(l, "_has-meta")

(***************************************************************************)
(* Spec 3, collection consistency: a label marked _is-a Instance has       *)
(* exactly one _has-uuid and exactly one _has-meta triple.                 *)
(***************************************************************************)
CountPred(l, p) == Cardinality({k \in 1..Len(store) : store[k].s = l /\ store[k].p = p})

LabelsConsistent ==
    \A l \in Labels :
        IsA(l) => CountPred(l, "_has-uuid") = 1 /\ CountPred(l, "_has-meta") = 1

(***************************************************************************)
(* dlite_collection_remove deletes every triple the removed label's        *)
(* dimension maps refer to (spec 4.7), although it deletes them by id      *)
(* while it iterates over the store.                                       *)
(***************************************************************************)
RemoveDropsDimmapTargets == stale = {}
=============================================================================
