----------------------------- MODULE DLiteEntity -----------------------------
(***************************************************************************)
(* The reference-counted metadata graph and the instance lifecycle of      *)
(* dlite-entity.c (src/unnamed/part_002).                                  *)
(*                                                                         *)
(* Heap objects are slots: an entity slot in Ent, an instance slot in      *)
(* Inst.  A slot is "unborn" until its allocation, "live" while it is      *)
(* allocated and "freed" after free(); malloc may hand a freed slot out    *)
(* again.  The static                                                      *)
(* schema_entity is not a slot: only its refcount is kept (schemarc).      *)
(*                                                                         *)
(* The caller of the library is part of the model: held[e] counts the      *)
(* references to entity e that the caller owns (the one returned by        *)
(* dlite_entity_create and one per dlite_entity_incref).  The caller obeys *)
(* the API: it decrefs only what it holds and frees only live instances.   *)
(*                                                                         *)
(* The data of an entity is abstracted to what its teardown depends on:    *)
(* whether some property has a unit string, and the kinds of its array     *)
(* (ndims > 0) properties in declaration order.                            *)
(***************************************************************************)
EXTENDS Naturals, Sequences, FiniteSets

CONSTANTS
    Ent,     \* entity heap slots
    Inst,    \* instance heap slots
    NoEnt,   \* the NULL meta pointer of a calloc'ed instance
    MaxRef,  \* bound on any refcount, so that increfs stay finite
    Shapes   \* the kinds ("Num" or "Str" for string-pointer) of the array
             \* properties of an entity, as sequences in declaration order

ASSUME ConstantsAssumption ==
    /\ NoEnt \notin Ent
    /\ IsFiniteSet(Ent)
    /\ IsFiniteSet(Inst)
    /\ MaxRef \in Nat \ {0}
    /\ Shapes \subseteq Seq({"Num", "Str"})
    /\ Shapes # {}

VARIABLES
    estate,    \* [Ent -> slot state] of each DLiteEntity block
    rc,        \* [Ent -> Nat]  entity->refcount
    held,      \* [Ent -> Nat]  references owned by the caller
    units,     \* [Ent -> BOOLEAN] some property of e owns a unit string
    shape,     \* [Ent -> Shapes] array properties of e
    schemarc,  \* schema_entity.refcount
    istate,    \* [Inst -> slot state] of each DLiteInstance block
    imeta,     \* [Inst -> Ent \cup {NoEnt}]  inst->meta
    leaked,    \* kinds of allocation some free() left behind
    crashed    \* the process dereferenced NULL

vars == <<estate, rc, held, units, shape, schemarc, istate, imeta,
          leaked, crashed>>

SlotState == {"unborn", "live", "freed"}

-----------------------------------------------------------------------------
(* Derived state *)

\* The live instances whose meta pointer is e.
InstancesOf(e) == {i \in Inst : istate[i] = "live" /\ imeta[i] = e}

\* The caller can name e: it holds a reference, or reads inst->meta of a
\* live instance.
Reachable(e) == held[e] > 0 \/ InstancesOf(e) # {}

LiveEnts == {e \in Ent : estate[e] = "live"}

-----------------------------------------------------------------------------
(* Helpers *)

(***************************************************************************)
(* One reference to live entity e is dropped.  This is                     *)
(* dlite_entity_decref (viaEntityDecref = TRUE) or dlite_meta_decref       *)
(* applied to an entity (FALSE): both decrement the refcount and, when it  *)
(* reaches zero, decref the schema and free the block.  Only the first     *)
(* frees the unit strings (dlite_entity_clear); dlite_meta_clear does not. *)
(***************************************************************************)
DropRef(e, viaEntityDecref) ==
    /\ rc' = [rc EXCEPT ![e] = @ - 1]
    /\ IF rc[e] - 1 > 0
         THEN UNCHANGED <<estate, schemarc, leaked>>
         ELSE /\ estate' = [estate EXCEPT ![e] = "freed"]
              /\ schemarc' = schemarc - 1
              /\ leaked' = IF units[e] /\ ~viaEntityDecref
                             THEN leaked \cup {"units"} ELSE leaked

-----------------------------------------------------------------------------
(* Initial state: nothing allocated; schema_entity has its pinned count.   *)

Init ==
    /\ estate = [e \in Ent |-> "unborn"]
    /\ rc = [e \in Ent |-> 0]
    /\ held = [e \in Ent |-> 0]
    /\ units = [e \in Ent |-> FALSE]
    /\ shape = [e \in Ent |-> CHOOSE s \in Shapes : TRUE]
    /\ schemarc = 1
    /\ istate = [i \in Inst |-> "unborn"]
    /\ imeta = [i \in Inst |-> NoEnt]
    /\ leaked = {}
    /\ crashed = FALSE

-----------------------------------------------------------------------------
(* Operations *)

(* Variant for mutation testing: the schema is not incref'ed.             *)
EntityCreate_noSchemaIncref(e, u, s) ==
    /\ estate[e] # "live"
    /\ estate' = [estate EXCEPT ![e] = "live"]
    /\ rc' = [rc EXCEPT ![e] = 1]
    /\ held' = [held EXCEPT ![e] = 1]
    /\ units' = [units EXCEPT ![e] = u]
    /\ shape' = [shape EXCEPT ![e] = s]
    /\ UNCHANGED <<schemarc, istate, imeta, leaked, crashed>>

(***************************************************************************)
(* dlite_entity_create succeeds: the entity starts with refcount 1, the    *)
(* reference returned to the caller, and takes one reference to the        *)
(* schema.                                                                 *)
(***************************************************************************)
EntityCreate(e, u, s) ==
    /\ estate[e] # "live"
    /\ estate' = [estate EXCEPT ![e] = "live"]
    /\ rc' = [rc EXCEPT ![e] = 1]
    /\ held' = [held EXCEPT ![e] = 1]
    /\ units' = [units EXCEPT ![e] = u]
    /\ shape' = [shape EXCEPT ![e] = s]
    /\ schemarc' = schemarc + 1
    /\ UNCHANGED <<istate, imeta, leaked, crashed>>

(***************************************************************************)
(* dlite_entity_create fails on an allocation.  Before the property loop   *)
(* ("early") or in dlite_meta_postinit ("postinit") the block is cleared   *)
(* and freed completely.  Inside the loop ("props") nproperties is still   *)
(* 0, so dlite_meta_clear frees the properties array but not the property  *)
(* records already built: they leak.                                       *)
(***************************************************************************)
EntityCreateFail(e, where) ==
    /\ estate[e] # "live"
    /\ estate' = [estate EXCEPT ![e] = "freed"]
    /\ leaked' = IF where = "props" THEN leaked \cup {"props"} ELSE leaked
    /\ UNCHANGED <<rc, held, units, shape, schemarc, istate, imeta, crashed>>

(* dlite_entity_incref, on an entity the caller can name. *)
EntityIncref(e) ==
    /\ estate[e] = "live"
    /\ Reachable(e)
    /\ rc[e] < MaxRef
    /\ rc' = [rc EXCEPT ![e] = @ + 1]
    /\ held' = [held EXCEPT ![e] = @ + 1]
    /\ UNCHANGED <<estate, units, shape, schemarc, istate, imeta,
                   leaked, crashed>>

(* dlite_entity_decref of a reference the caller holds. *)
EntityDecref(e) ==
    /\ estate[e] = "live"
    /\ held[e] > 0
    /\ held' = [held EXCEPT ![e] = @ - 1]
    /\ DropRef(e, TRUE)
    /\ UNCHANGED <<units, shape, istate, imeta, crashed>>

(* Variant for mutation testing: the entity refcount is not increased.    *)
InstanceCreate_noIncref(i, e) ==
    /\ istate[i] # "live"
    /\ estate[e] = "live"
    /\ Reachable(e)
    /\ rc[e] < MaxRef
    /\ istate' = [istate EXCEPT ![i] = "live"]
    /\ imeta' = [imeta EXCEPT ![i] = e]
    /\ UNCHANGED <<estate, rc, held, units, shape, schemarc, leaked, crashed>>

(***************************************************************************)
(* dlite_instance_create succeeds: header, dimensions and every array are  *)
(* allocated, then the entity refcount is increased.                       *)
(***************************************************************************)
InstanceCreate(i, e) ==
    /\ istate[i] # "live"
    /\ estate[e] = "live"
    /\ Reachable(e)
    /\ rc[e] < MaxRef
    /\ istate' = [istate EXCEPT ![i] = "live"]
    /\ imeta' = [imeta EXCEPT ![i] = e]
    /\ rc' = [rc EXCEPT ![e] = @ + 1]
    /\ UNCHANGED <<estate, held, units, shape, schemarc, leaked, crashed>>

(* Variant for mutation testing: the refcount is decremented twice.       *)
InstanceFree_doubleDecref(i) ==
    LET e == imeta[i] IN
    /\ istate[i] = "live"
    /\ istate' = [istate EXCEPT ![i] = "freed"]
    /\ rc' = [rc EXCEPT ![e] = @ - 2]
    /\ IF rc[e] - 2 > 0
         THEN UNCHANGED <<estate, schemarc, leaked>>
         ELSE /\ estate' = [estate EXCEPT ![e] = "freed"]
              /\ schemarc' = schemarc - 1
              /\ leaked' = IF units[e] THEN leaked \cup {"units"} ELSE leaked
    /\ UNCHANGED <<held, units, shape, imeta, crashed>>

(***************************************************************************)
(* dlite_instance_free: frees the arrays and the block, then drops the     *)
(* instance's reference with dlite_meta_decref.                            *)
(***************************************************************************)
InstanceFree(i) ==
    /\ istate[i] = "live"
    /\ istate' = [istate EXCEPT ![i] = "freed"]
    /\ DropRef(imeta[i], FALSE)
    /\ UNCHANGED <<held, units, shape, imeta, crashed>>

-----------------------------------------------------------------------------
(* Failure paths of dlite_instance_create that the runs explore apart.     *)

(***************************************************************************)
(* dlite_get_uuid fails (only possible for an empty id, when uuid4         *)
(* generation fails): the instance is handed to dlite_instance_free while  *)
(* inst->meta is still NULL, which reads meta->nproperties.                *)
(***************************************************************************)
InstanceCreateUuidFail(i, e) ==
    /\ istate[i] # "live"
    /\ estate[e] = "live"
    /\ Reachable(e)
    /\ istate' = [istate EXCEPT ![i] = "freed"]
    /\ crashed' = TRUE
    /\ UNCHANGED <<estate, rc, held, units, shape, schemarc, imeta, leaked>>

(***************************************************************************)
(* The calloc of the k-th array property fails.  dlite_instance_free then  *)
(* walks every property: a string-pointer array from k on has a NULL       *)
(* buffer whose nmemb (> 0 when nz) elements are read, a crash; otherwise  *)
(* it frees what was allocated and calls dlite_meta_decref on an entity    *)
(* that was never incref'ed.                                               *)
(***************************************************************************)
InstanceCreateArrayFail(i, e, k, nz) ==
    /\ istate[i] # "live"
    /\ estate[e] = "live"
    /\ Reachable(e)
    /\ k \in 1..Len(shape[e])
    /\ istate' = [istate EXCEPT ![i] = "freed"]
    /\ imeta' = [imeta EXCEPT ![i] = e]
    /\ IF nz /\ \E j \in k..Len(shape[e]) : shape[e][j] = "Str"
         THEN /\ crashed' = TRUE
              /\ UNCHANGED <<estate, rc, schemarc, leaked>>
         ELSE /\ DropRef(e, FALSE)
              /\ UNCHANGED crashed
    /\ UNCHANGED <<held, units, shape>>

-----------------------------------------------------------------------------
(* Next-state relations *)

\* Every operation, with allocation failures of dlite_entity_create.
Next ==
    \/ \E e \in Ent, u \in BOOLEAN, s \in Shapes : EntityCreate(e, u, s)
    \/ \E e \in Ent, w \in {"early", "props", "postinit"} :
           EntityCreateFail(e, w)
    \/ \E e \in Ent : EntityIncref(e) \/ EntityDecref(e)
    \/ \E i \in Inst, e \in Ent : InstanceCreate(i, e)
    \/ \E i \in Inst : InstanceFree(i)

\* Next, and the failure paths of dlite_instance_create; a crash ends the
\* process.
NextWithFailures ==
    /\ ~crashed
    /\ \/ Next
       \/ \E i \in Inst, e \in Ent : InstanceCreateUuidFail(i, e)
       \/ \E i \in Inst, e \in Ent, nz \in BOOLEAN :
              \E k \in 1..Len(shape[e]) : InstanceCreateArrayFail(i, e, k, nz)

Spec == Init /\ [][Next]_vars

SpecWithFailures == Init /\ [][NextWithFailures]_vars

-----------------------------------------------------------------------------
(* Properties *)

\* The type invariant.
TypeOK ==
    /\ estate \in [Ent -> SlotState]
    /\ rc \in [Ent -> Nat]
    /\ held \in [Ent -> Nat]
    /\ units \in [Ent -> BOOLEAN]
    /\ shape \in [Ent -> Shapes]
    /\ schemarc \in Nat
    /\ istate \in [Inst -> SlotState]
    /\ imeta \in [Inst -> Ent \cup {NoEnt}]
    /\ leaked \subseteq {"units", "props"}
    /\ crashed \in BOOLEAN

(***************************************************************************)
(* The refcounts do their job: an entity is allocated exactly when the     *)
(* caller or a live instance refers to it.  "Only if" rules out a dangling *)
(* inst->meta or caller handle after dlite_entity_decref or                *)
(* dlite_instance_free; "if" rules out an entity nobody can free any more. *)
(***************************************************************************)
LiveIffReferenced ==
    \A e \in Ent : estate[e] = "live" <=> Reachable(e)

(***************************************************************************)
(* schema_entity, a static object, holds exactly one reference per live    *)
(* entity on top of its pinned one: the decref chain of entity teardown    *)
(* never passes it to free() and never leaks a reference to it.            *)
(***************************************************************************)
SchemaRefcount ==
    schemarc = 1 + Cardinality(LiveEnts)

(***************************************************************************)
(* Dropping the last reference to an entity frees every string it owns,   *)
(* whichever of dlite_entity_decref or dlite_instance_free drops it (spec  *)
(* 4.3: "on reaching zero ... frees owned strings/arrays and deallocates").*)
(***************************************************************************)
TeardownComplete == "units" \notin leaked

(***************************************************************************)
(* A dlite_entity_create that fails releases everything it allocated       *)
(* (spec 7: half-constructed objects are fully torn down).                 *)
(***************************************************************************)
CreateFailureClean == "props" \notin leaked

(***************************************************************************)
(* A failed dlite_instance_create returns NULL after tearing the half-     *)
(* built instance down (spec 7): it never crashes the process.             *)
(***************************************************************************)
NoCrash == ~crashed

=============================================================================
