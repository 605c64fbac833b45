-------------------------- MODULE DLiteStorageProofs --------------------------
(***************************************************************************)
(* Proof that save/load fidelity (LoadedMatchesSaved) holds for every      *)
(* storage, every set of slots, uuids, names and values and every set of   *)
(* driver capabilities.  LoadedMatchesSaved relates a load to the last     *)
(* save of the same uuid, which may lie many steps back: it is not         *)
(* inductive.  It follows from two facts about the storage itself:         *)
(*   SavedInDb:  what the last successful save of u wrote is still what    *)
(*               the storage holds for u (a failed save of u forgets it,   *)
(*               and a load only adds the data name);                      *)
(*   LastLoadOk: the instance a successful load just made holds what the  *)
(*               storage held for its uuid.                                *)
(***************************************************************************)
EXTENDS DLiteStorage, TLAPS

MemRecs == [uuid : Uuids, n : DimSizes, x : Vals, y : Vals]

SavedRecs == [n : DimSizes, x : Vals, y : Vals]

TypeInv ==
    /\ db \in [Uuids -> Recs]
    /\ mem \in [Slots -> MemRecs \cup {None}]
    /\ saved \in [Uuids -> SavedRecs \cup {None}]
    /\ lastLoad \in {None} \cup [slot : Slots, uuid : Uuids, ok : BOOLEAN]

(* A uuid whose last dlite_instance_save succeeded is stored as saved.     *)
SavedInDb ==
    \A u \in Uuids : saved[u] # None =>
        saved[u] = [n |-> db[u].n, x |-> db[u].x, y |-> db[u].y]

(* The instance a successful dlite_instance_load made holds what the       *)
(* storage holds for its uuid.                                             *)
LastLoadOk ==
    lastLoad # None /\ lastLoad.ok =>
        Snapshot(mem[lastLoad.slot]) =
            [n |-> db[lastLoad.uuid].n, x |-> db[lastLoad.uuid].x,
             y |-> db[lastLoad.uuid].y]

(***************************************************************************)
(* The inductive invariant behind save/load fidelity: the types, the       *)
(* storage agreeing with the last successful saves, and the last           *)
(* successful load agreeing with the storage.                              *)
(***************************************************************************)
StorageInv == TypeInv /\ SavedInDb /\ LastLoadOk

(* dlite_get_uuid maps every id the caller passes to a uuid of the store.  *)
LEMMA UuidOfType ==
    ASSUME NEW id \in Uuids \cup Names
    PROVE  UuidOf(id) \in Uuids
BY StorageAssumption DEF UuidOf

(* Recording the data name changes no field the invariant reads.           *)
LEMMA DataNameKeeps ==
    ASSUME NEW rec \in Recs, NEW id \in Uuids \cup Names
    PROVE  /\ WithDataName(rec, id) \in Recs
           /\ WithDataName(rec, id).meta = rec.meta
           /\ WithDataName(rec, id).n = rec.n
           /\ WithDataName(rec, id).x = rec.x
           /\ WithDataName(rec, id).y = rec.y
BY DEF WithDataName, Recs

LEMMA InitStorageInv == Init => StorageInv
BY DEF Init, StorageInv, TypeInv, SavedInDb, LastLoadOk, Recs, NoRec

(* Creating or freeing an instance and forgetting the last load.           *)
LEMMA CreateFreeStep ==
    ASSUME StorageInv,
           \/ \E s \in Slots, u \in Uuids, n \in DimSizes, x, y \in Vals :
                  InstanceCreate(s, u, n, x, y)
           \/ \E s \in Slots : InstanceFree(s)
    PROVE  StorageInv'
<1>1. TypeInv'
  BY DEF StorageInv, TypeInv, InstanceCreate, InstanceFree, MemRecs
<1>2. SavedInDb'
  BY DEF StorageInv, SavedInDb, InstanceCreate, InstanceFree
<1>3. LastLoadOk'
  BY DEF InstanceCreate, InstanceFree, LastLoadOk
<1>4. QED
  BY <1>1, <1>2, <1>3 DEF StorageInv

(***************************************************************************)
(* dlite_instance_save writes a prefix of meta, n, x and y for the uuid of *)
(* the instance, and records a snapshot only when it wrote all of them.   *)
(***************************************************************************)
LEMMA SaveStep ==
    ASSUME StorageInv, NEW s \in Slots, InstanceSave(s)
    PROVE  StorageInv'
<1> DEFINE inst == mem[s]
           u == inst.uuid
           r1 == [db[u] EXCEPT !.meta = EntUri]
           r2 == [r1 EXCEPT !.n = inst.n]
           r3 == [r2 EXCEPT !.x = inst.x, !.y = inst.y]
           done == IF ~DataModelOk(u) THEN 0
                   ELSE IF ~CanSet("setMetadata") THEN 1
                   ELSE IF ~CanSet("setDimensionSize") THEN 2
                   ELSE IF ~CanSet("setProperty") THEN 3
                   ELSE 4
<1>1. inst \in MemRecs /\ u \in Uuids
  BY DEF InstanceSave, StorageInv, TypeInv, MemRecs
<1>2. /\ db' = [db EXCEPT ![u] = CASE done = 4 -> r3
                                  [] done = 3 -> r2
                                  [] done = 2 -> r1
                                  [] OTHER    -> @]
      /\ saved' = [saved EXCEPT ![u] = IF done = 4 THEN Snapshot(inst)
                                        ELSE IF done <= 1 THEN @ ELSE None]
      /\ lastLoad' = None
      /\ mem' = mem
  BY DEF InstanceSave
<1>3. done \in 0..4
  BY DEF done
<1>4. TypeInv'
  <2>1. db[u] \in Recs
    BY <1>1 DEF StorageInv, TypeInv
  <2>2. r1 \in Recs /\ r2 \in Recs /\ r3 \in Recs
    BY <1>1, <2>1 DEF Recs, MemRecs
  <2>3. db' \in [Uuids -> Recs]
    BY <1>1, <1>2, <1>3, <2>1, <2>2 DEF StorageInv, TypeInv
  <2>4. Snapshot(inst) \in SavedRecs
    BY <1>1 DEF Snapshot, MemRecs, SavedRecs
  <2>5. saved' \in [Uuids -> SavedRecs \cup {None}]
    BY <1>1, <1>2, <2>4 DEF StorageInv, TypeInv
  <2>6. QED
    BY <1>2, <2>3, <2>5 DEF StorageInv, TypeInv
<1>5. SavedInDb'
  <2> SUFFICES ASSUME NEW v \in Uuids, saved'[v] # None
               PROVE  saved'[v] = [n |-> db'[v].n, x |-> db'[v].x, y |-> db'[v].y]
    BY DEF SavedInDb
  <2>1. CASE v # u
    BY <1>1, <1>2, <2>1 DEF StorageInv, TypeInv, SavedInDb
  <2>2. CASE v = u /\ done = 4
    BY <1>1, <1>2, <2>2 DEF StorageInv, TypeInv, Recs, MemRecs, Snapshot
  <2>3. CASE v = u /\ done \in {2, 3}
    BY <1>1, <1>2, <2>3 DEF StorageInv, TypeInv
  <2>4. CASE v = u /\ done \in {0, 1}
    BY <1>1, <1>2, <2>4 DEF StorageInv, TypeInv, SavedInDb
  <2>5. QED
    BY <1>3, <2>1, <2>2, <2>3, <2>4
<1>6. LastLoadOk'
  BY <1>2 DEF LastLoadOk
<1>7. QED
  BY <1>4, <1>5, <1>6 DEF StorageInv

(***************************************************************************)
(* dlite_instance_load changes at most the data name of the stored record, *)
(* and makes an instance only when it read n, x and y of that record.     *)
(***************************************************************************)
LEMMA LoadStep ==
    ASSUME StorageInv, NEW s \in Slots, NEW id \in Uuids \cup Names,
           InstanceLoad(s, id)
    PROVE  StorageInv'
<1> DEFINE u == UuidOf(id)
           rec == WithDataName(db[u], id)
           dimErr == rec.n = None
           dim == IF dimErr THEN SizeMax ELSE rec.n
           early == ~DataModelOk(u) \/ rec.meta # EntUri \/ (~dimErr /\ dim = 0)
           ok == ~early /\ ~dimErr /\ rec.x # None /\ rec.y # None
<1>1. u \in Uuids
  BY UuidOfType
<1>2. /\ rec \in Recs
      /\ rec.meta = db[u].meta /\ rec.n = db[u].n
      /\ rec.x = db[u].x /\ rec.y = db[u].y
  BY <1>1, DataNameKeeps DEF StorageInv, TypeInv
<1>3. /\ db' = IF DataModelOk(u) THEN [db EXCEPT ![u] = rec] ELSE db
      /\ mem' = IF ok THEN [mem EXCEPT ![s] = [uuid |-> u, n |-> dim,
                                               x |-> rec.x, y |-> rec.y]]
                ELSE mem
      /\ lastLoad' = [slot |-> s, uuid |-> u, ok |-> ok]
      /\ saved' = saved
  BY DEF InstanceLoad
<1>4. \A v \in Uuids : /\ db'[v] \in Recs
                       /\ db'[v].n = db[v].n /\ db'[v].x = db[v].x
                       /\ db'[v].y = db[v].y
  BY <1>1, <1>2, <1>3 DEF StorageInv, TypeInv
<1>5. ok => [uuid |-> u, n |-> dim, x |-> rec.x, y |-> rec.y] \in MemRecs
  BY <1>1, <1>2 DEF Recs, MemRecs
<1>6. TypeInv'
  BY <1>1, <1>3, <1>4, <1>5 DEF StorageInv, TypeInv
<1>7. SavedInDb'
  BY <1>3, <1>4 DEF StorageInv, SavedInDb
<1>8. LastLoadOk'
  <2> SUFFICES ASSUME ok
               PROVE  Snapshot(mem'[s]) = [n |-> db'[u].n, x |-> db'[u].x,
                                           y |-> db'[u].y]
    BY <1>3 DEF LastLoadOk
  <2>1. mem'[s] = [uuid |-> u, n |-> dim, x |-> rec.x, y |-> rec.y]
    BY <1>3 DEF StorageInv, TypeInv
  <2>2. db'[u] = rec
    BY <1>1, <1>3 DEF StorageInv, TypeInv
  <2>3. QED
    BY <2>1, <2>2 DEF Snapshot
<1>9. QED
  BY <1>6, <1>7, <1>8 DEF StorageInv

(* Every step of the specification preserves the invariant.               *)
LEMMA NextStorageInv == StorageInv /\ [Next]_vars => StorageInv'
<1> SUFFICES ASSUME StorageInv, [Next]_vars PROVE StorageInv'
  OBVIOUS
<1>1. CASE \E s \in Slots : InstanceSave(s)
  BY <1>1, SaveStep
<1>2. CASE \E s \in Slots, id \in Uuids \cup Names : InstanceLoad(s, id)
  BY <1>2, LoadStep
<1>3. CASE UNCHANGED vars
  BY <1>3 DEF vars, StorageInv, TypeInv, SavedInDb, LastLoadOk
<1>4. QED
  BY <1>1, <1>2, <1>3, CreateFreeStep DEF Next

(***************************************************************************)
(* StorageInv holds in every reachable state, for all constants.           *)
(***************************************************************************)
THEOREM StorageInvariant == Spec => []StorageInv
BY InitStorageInv, NextStorageInv, PTL DEF Spec

(***************************************************************************)
(* Save/load fidelity of dlite_instance_save and dlite_instance_load:      *)
(* a load that succeeds on a uuid whose last save succeeded returns the    *)
(* dimension and the values that save wrote, for every storage, capability *)
(* set and number of slots, uuids and names.                               *)
(***************************************************************************)
THEOREM LoadFidelity == Spec => []LoadedMatchesSaved
<1>1. StorageInv => LoadedMatchesSaved
  BY DEF StorageInv, SavedInDb, LastLoadOk, LoadedMatchesSaved, TypeInv
<1>2. QED
  BY <1>1, StorageInvariant, PTL

-----------------------------------------------------------------------------
(***************************************************************************)
(* The storage seen as the key-value store DLiteKeyValue describes: the    *)
(* key of a uuid holds what its last successful save wrote (saved), and    *)
(* the slots are the instances in memory, and the slot a load just filled *)
(* is that of the last load when it succeeded.  The storage's own fields,  *)
(* the data names and the undefined-behaviour record are hidden.           *)
(***************************************************************************)
LoadedSlot == IF lastLoad # None /\ lastLoad.ok THEN lastLoad.slot ELSE None

KV == INSTANCE DLiteKeyValue WITH kv <- saved, loaded <- LoadedSlot

(***************************************************************************)
(* dlite_instance_save and dlite_instance_load implement a key-value store *)
(* of snapshots: every save stores the instance, keeps the old snapshot or *)
(* leaves the key unspecified; every successful load makes an instance of  *)
(* the snapshot last saved under its uuid, by uuid or by name.             *)
(***************************************************************************)
KeyValueRefined == KV!KSpec

(* The initial storage holds no saved snapshot, no instance, no load.     *)
LEMMA KInitRefines == Init => KV!KInit
BY DEF Init, KV!KInit, LoadedSlot

(* A create or a free is the same operation on the key-value store.        *)
LEMMA KCreateFreeStep ==
    ASSUME \/ \E s \in Slots, u \in Uuids, n \in DimSizes, x, y \in Vals :
                  InstanceCreate(s, u, n, x, y)
           \/ \E s \in Slots : InstanceFree(s)
    PROVE  KV!KNext
<1>1. LoadedSlot' = None
  BY DEF InstanceCreate, InstanceFree, LoadedSlot
<1>2. CASE \E s \in Slots, u \in Uuids, n \in DimSizes, x, y \in Vals :
               InstanceCreate(s, u, n, x, y)
  <2>1. PICK s \in Slots, u \in Uuids, n \in DimSizes, x \in Vals, y \in Vals :
               InstanceCreate(s, u, n, x, y)
    BY <1>2
  <2>2. [n |-> n, x |-> x, y |-> y] \in KV!Snapshots
    BY DEF KV!Snapshots
  <2>3. KV!KCreate(s, u, [n |-> n, x |-> x, y |-> y])
    BY <1>1, <2>1 DEF InstanceCreate, KV!KCreate, KV!InstanceOf
  <2>4. QED
    BY <2>2, <2>3 DEF KV!KNext
<1>3. CASE \E s \in Slots : InstanceFree(s)
  BY <1>1, <1>3 DEF InstanceFree, KV!KFree, KV!KNext
<1>4. QED
  BY <1>2, <1>3

(***************************************************************************)
(* A save, whichever set call fails, stores the snapshot, keeps the old   *)
(* one or leaves the key unspecified.                                      *)
(***************************************************************************)
LEMMA KSaveStep ==
    ASSUME NEW s \in Slots, InstanceSave(s)
    PROVE  KV!KSave(s)
<1> DEFINE inst == mem[s]
           u == inst.uuid
           done == IF ~DataModelOk(u) THEN 0
                   ELSE IF ~CanSet("setMetadata") THEN 1
                   ELSE IF ~CanSet("setDimensionSize") THEN 2
                   ELSE IF ~CanSet("setProperty") THEN 3
                   ELSE 4
           r == IF done = 4 THEN Snapshot(inst)
                ELSE IF done <= 1 THEN saved[u] ELSE None
<1>1. /\ inst # None
      /\ saved' = [saved EXCEPT ![u] = r]
      /\ lastLoad' = None
      /\ mem' = mem
  BY DEF InstanceSave
<1>2. r \in {[n |-> inst.n, x |-> inst.x, y |-> inst.y], saved[u], None}
  BY DEF Snapshot
<1>3. LoadedSlot' = None
  BY <1>1 DEF LoadedSlot
<1>4. QED
  BY <1>1, <1>2, <1>3 DEF KV!KSave

(***************************************************************************)
(* A load that succeeds makes the instance of the snapshot saved under its *)
(* uuid (SavedInDb: the storage still holds it), or of what the storage    *)
(* holds when no save of the uuid succeeded last; a load that fails        *)
(* changes neither memory nor the snapshots.                               *)
(***************************************************************************)
LEMMA KLoadStep ==
    ASSUME StorageInv, NEW s \in Slots, NEW id \in Uuids \cup Names,
           InstanceLoad(s, id)
    PROVE  KV!KNext
<1> DEFINE u == UuidOf(id)
           rec == WithDataName(db[u], id)
           dimErr == rec.n = None
           dim == IF dimErr THEN SizeMax ELSE rec.n
           early == ~DataModelOk(u) \/ rec.meta # EntUri \/ (~dimErr /\ dim = 0)
           ok == ~early /\ ~dimErr /\ rec.x # None /\ rec.y # None
           r == [n |-> rec.n, x |-> rec.x, y |-> rec.y]
<1>1. u \in Uuids
  BY UuidOfType
<1>2. /\ rec \in Recs
      /\ rec.n = db[u].n /\ rec.x = db[u].x /\ rec.y = db[u].y
  BY <1>1, DataNameKeeps DEF StorageInv, TypeInv
<1>3. /\ mem[s] = None
      /\ mem' = IF ok THEN [mem EXCEPT ![s] = [uuid |-> u, n |-> dim,
                                               x |-> rec.x, y |-> rec.y]]
                ELSE mem
      /\ lastLoad' = [slot |-> s, uuid |-> u, ok |-> ok]
      /\ saved' = saved
  BY DEF InstanceLoad
<1>4. lastLoad' # None
  <2>1. [slot |-> s, uuid |-> u, ok |-> ok] \in [slot : Slots, uuid : Uuids, ok : BOOLEAN]
    BY <1>1
  <2>2. QED
    BY <1>3, <2>1, StorageAssumption
<1>5. CASE ok
  <2>1. LoadedSlot' = s
    BY <1>3, <1>4, <1>5 DEF LoadedSlot
  <2>2. r \in IF saved[u] = None THEN KV!Snapshots ELSE {saved[u]}
    <3>1. CASE saved[u] = None
      BY <1>2, <1>5, <3>1 DEF Recs, KV!Snapshots
    <3>2. CASE saved[u] # None
      BY <1>1, <1>2, <3>2 DEF StorageInv, SavedInDb
    <3>3. QED
      BY <3>1, <3>2
  <2>3. mem' = [mem EXCEPT ![s] = KV!InstanceOf(u, r)]
    BY <1>3, <1>5 DEF KV!InstanceOf
  <2>4. KV!KLoad(s, u)
    BY <1>3, <2>1, <2>2, <2>3 DEF KV!KLoad
  <2>5. QED
    BY <1>1, <2>4 DEF KV!KNext
<1>6. CASE ~ok
  <2>1. KV!KLoadFails(s)
    BY <1>3, <1>4, <1>6 DEF LoadedSlot, KV!KLoadFails
  <2>2. QED
    BY <2>1 DEF KV!KNext
<1>7. QED
  BY <1>5, <1>6

(* Every step of the storage is a step of the key-value store or leaves    *)
(* what it shows unchanged.                                                *)
LEMMA KNextRefines == StorageInv /\ [Next]_vars => [KV!KNext]_KV!kvars
<1> SUFFICES ASSUME StorageInv, [Next]_vars PROVE [KV!KNext]_KV!kvars
  OBVIOUS
<1>1. CASE \E s \in Slots : InstanceSave(s)
  BY <1>1, KSaveStep DEF KV!KNext
<1>2. CASE \E s \in Slots, id \in Uuids \cup Names : InstanceLoad(s, id)
  BY <1>2, KLoadStep
<1>3. CASE UNCHANGED vars
  BY <1>3 DEF vars, KV!kvars, LoadedSlot
<1>4. QED
  BY <1>1, <1>2, <1>3, KCreateFreeStep DEF Next

(***************************************************************************)
(* dlite_instance_save and dlite_instance_load implement the key-value     *)
(* store of snapshots, for every storage, capability set and number of     *)
(* slots, uuids and names: the detailed specification refines DLiteKeyValue*)
(* under the mapping kv <- saved, loaded <- LoadedSlot.                    *)
(***************************************************************************)
THEOREM KeyValueRefinement == Spec => KeyValueRefined
<1>1. StorageInv /\ [Next]_vars => [KV!KNext]_KV!kvars
  BY KNextRefines
<1>2. QED
  BY <1>1, KInitRefines, StorageInvariant, PTL DEF Spec, KeyValueRefined, KV!KSpec

=============================================================================
