----------------------------- MODULE DLiteStorage -----------------------------
(***************************************************************************)
(* dlite_instance_save and dlite_instance_load (dlite-entity.c) through    *)
(* the datamodel facade (dlite-datamodel.c) on one storage.  The entity is *)
(* fixed: one dimension "n", a scalar property "x" and an array property   *)
(* "y" of shape [n].  An instance in memory is a slot holding its uuid,    *)
(* its dimension and its property values.                                  *)
(*                                                                         *)
(* The driver is not part of the sources; its behaviour is the interface   *)
(* of spec 4.5 and 4.6: dataModel on a read-only storage fails for a uuid  *)
(* it does not hold, a set_* call writes through at once, get_metadata     *)
(* returns NULL and get_dimension_size -1 for what was never written, and  *)
(* the optional set_* functions may be absent (Caps).                      *)
(***************************************************************************)
EXTENDS Integers, FiniteSets

CONSTANTS
    Slots,       \* instance slots in memory
    Uuids,       \* canonical uuid strings
    Names,       \* ids that are not uuids
    V5,          \* the v5 uuid dlite_get_uuid derives from a name
    Vals,        \* property values
    DimSizes,    \* sizes the caller gives dimension n
    Caps,        \* the driver's optional set functions that are present
    Writable,    \* s->writable
    EntUri, OtherUri, None

SizeMax == "SIZE_MAX"   \* (size_t)-1

ASSUME StorageAssumption ==
    /\ V5 \in [Names -> Uuids]
    /\ DimSizes \subseteq Nat
    /\ Caps \subseteq {"setMetadata", "setDimensionSize", "setProperty", "setDataName"}
    /\ Writable \in BOOLEAN
    /\ None \notin [slot : Slots, uuid : Uuids, ok : BOOLEAN]  \* NULL is no load

(* What a storage holds for one uuid: each field is None until written.    *)
Recs == [meta : {EntUri, OtherUri, None}, n : DimSizes \cup {None},
         x : Vals \cup {None}, y : Vals \cup {None}, name : Names \cup {None}]

NoRec == [meta |-> None, n |-> None, x |-> None, y |-> None, name |-> None]

VARIABLES
    db,          \* the storage: [Uuids -> Recs]
    mem,         \* instances: [Slots -> record or None]
    saved,       \* for each uuid, what its last successful save wrote, or None
    lastLoad,    \* [slot, uuid, ok] of a load just made, or None
    ub           \* call sites that reached undefined behaviour

vars == <<db, mem, saved, lastLoad, ub>>

(* dlite_get_uuid: a uuid is copied (version 0), a name hashed (version 5). *)
UuidOf(id) == IF id \in Uuids THEN id ELSE V5[id]

Snapshot(inst) == [n |-> inst.n, x |-> inst.x, y |-> inst.y]

Init ==
    /\ db \in [Uuids -> {NoRec, [NoRec EXCEPT !.meta = OtherUri]}]
    /\ mem = [s \in Slots |-> None]
    /\ saved = [u \in Uuids |-> None]
    /\ lastLoad = None
    /\ ub = {}

(* The caller creates an instance and sets its properties.                 *)
InstanceCreate(s, u, n, x, y) ==
    /\ mem[s] = None
    /\ mem' = [mem EXCEPT ![s] = [uuid |-> u, n |-> n, x |-> x, y |-> y]]
    /\ lastLoad' = None
    /\ UNCHANGED <<db, saved, ub>>

InstanceFree(s) ==
    /\ mem[s] # None
    /\ mem' = [mem EXCEPT ![s] = None]
    /\ lastLoad' = None
    /\ UNCHANGED <<db, saved, ub>>

(* dlite_datamodel(s, id) succeeds: the driver's dataModel gives a handle. *)
DataModelOk(u) == Writable \/ db[u] # NoRec

(* ... and, for a v5 uuid on a writable storage whose driver has           *)
(* setDataName, records the name.                                          *)
WithDataName(rec, id) ==
    IF id \in Names /\ Writable /\ "setDataName" \in Caps
    THEN [rec EXCEPT !.name = id] ELSE rec

(***************************************************************************)
(* dlite_instance_save(s, inst): dlite_datamodel, set_meta_uri, one        *)
(* set_dimension_size, then set_property for x and y.  Each set call       *)
(* writes through; the first one that fails ends the save with what came   *)
(* before it written.  A failure before the malloc of pdims frees pdims,   *)
(* which was never initialised.                                            *)
(***************************************************************************)
CanSet(cap) == cap \in Caps /\ Writable

InstanceSave(s) ==
    /\ mem[s] # None
    /\ LET inst == mem[s]
           u == inst.uuid
           r1 == [db[u] EXCEPT !.meta = EntUri]
           r2 == [r1 EXCEPT !.n = inst.n]
           r3 == [r2 EXCEPT !.x = inst.x, !.y = inst.y]
           done == IF ~DataModelOk(u) THEN 0
                   ELSE IF ~CanSet("setMetadata") THEN 1
                   ELSE IF ~CanSet("setDimensionSize") THEN 2
                   ELSE IF ~CanSet("setProperty") THEN 3
                   ELSE 4
       IN  /\ db' = [db EXCEPT ![u] = CASE done = 4 -> r3
                                        [] done = 3 -> r2
                                        [] done = 2 -> r1
                                        [] OTHER    -> @]
           /\ saved' = [saved EXCEPT ![u] = IF done = 4 THEN Snapshot(inst)
                                             ELSE IF done <= 1 THEN @ ELSE None]
           /\ ub' = IF done \in {0, 1, 2} THEN ub \cup {"save"} ELSE ub
    /\ lastLoad' = None
    /\ UNCHANGED mem

InstanceLoad_swapProps(s, id) ==
    /\ mem[s] = None
    /\ LET u == UuidOf(id)
           rec == WithDataName(db[u], id)
           dimErr == rec.n = None          \* -1, read as SIZE_MAX, not 0
           dim == IF dimErr THEN SizeMax ELSE rec.n
           early == ~DataModelOk(u) \/ rec.meta # EntUri \/ (~dimErr /\ dim = 0)
           ok == ~early /\ ~dimErr /\ rec.x # None /\ rec.y # None
       IN  /\ db' = IF DataModelOk(u) THEN [db EXCEPT ![u] = rec] ELSE db
           /\ mem' = IF ok THEN [mem EXCEPT ![s] = [uuid |-> u, n |-> dim,
                                                    x |-> rec.y, y |-> rec.x]]
                     ELSE mem
           /\ lastLoad' = [slot |-> s, uuid |-> u, ok |-> ok]
           /\ ub' = IF early THEN ub \cup {"load"} ELSE ub
    /\ UNCHANGED saved

(***************************************************************************)
(* dlite_instance_load(s, id, entity) into slot s: dlite_datamodel, the    *)
(* metadata check, the dimension sizes (a size of 0 is taken for an error, *)
(* -1 becomes SIZE_MAX), dlite_instance_create, then get_property for x   *)
(* and y.  A failure before dlite_instance_create reaches the cleanup with *)
(* inst uninitialised and passes it to dlite_instance_free.                *)
(***************************************************************************)
InstanceLoad(s, id) ==
    /\ mem[s] = None
    /\ LET u == UuidOf(id)
           rec == WithDataName(db[u], id)
           dimErr == rec.n = None          \* -1, read as SIZE_MAX, not 0
           dim == IF dimErr THEN SizeMax ELSE rec.n
           early == ~DataModelOk(u) \/ rec.meta # EntUri \/ (~dimErr /\ dim = 0)
           ok == ~early /\ ~dimErr /\ rec.x # None /\ rec.y # None
       IN  /\ db' = IF DataModelOk(u) THEN [db EXCEPT ![u] = rec] ELSE db
           /\ mem' = IF ok THEN [mem EXCEPT ![s] = [uuid |-> u, n |-> dim,
                                                    x |-> rec.x, y |-> rec.y]]
                     ELSE mem
           /\ lastLoad' = [slot |-> s, uuid |-> u, ok |-> ok]
           /\ ub' = IF early THEN ub \cup {"load"} ELSE ub
    /\ UNCHANGED saved

Next ==
    \/ \E s \in Slots, u \in Uuids, n \in DimSizes, x, y \in Vals :
           InstanceCreate(s, u, n, x, y)
    \/ \E s \in Slots : InstanceFree(s)
    \/ \E s \in Slots : InstanceSave(s)
    \/ \E s \in Slots, id \in Uuids \cup Names : InstanceLoad(s, id)

Spec == Init /\ [][Next]_vars

-----------------------------------------------------------------------------
(***************************************************************************)
(* Spec 8, save/load fidelity: a dlite_instance_load that succeeds on a    *)
(* uuid whose last dlite_instance_save succeeded gives back the dimension  *)
(* and the property values that save wrote, also when loaded by the name  *)
(* the uuid was derived from and after failed saves of other instances.   *)
(***************************************************************************)
LoadedMatchesSaved ==
    (lastLoad # None /\ lastLoad.ok /\ saved[lastLoad.uuid] # None)
        => Snapshot(mem[lastLoad.slot]) = saved[lastLoad.uuid]

(***************************************************************************)
(* Spec 3: an instance binds each dimension to a non-negative integer, so  *)
(* an instance that dlite_instance_save wrote completely loads again.      *)
(***************************************************************************)
SavedIsLoadable ==
    (lastLoad # None /\ saved[lastLoad.uuid] # None) => lastLoad.ok

(***************************************************************************)
(* A dlite_instance_load that fails returns NULL without touching memory   *)
(* it does not own (spec 7: half-constructed instances are torn down).     *)
(***************************************************************************)
LoadFailureSafe == "load" \notin ub

(***************************************************************************)
(* A dlite_instance_save that fails returns an error without touching      *)
(* memory it does not own.                                                 *)
(***************************************************************************)
SaveFailureSafe == "save" \notin ub
=============================================================================
