---------------------------- MODULE DLiteKeyValue ----------------------------
(***************************************************************************)
(* What dlite_instance_save and dlite_instance_load promise (spec 4.5, 8): *)
(* a storage behaves as a map from uuids to instance snapshots (the        *)
(* dimension and the property values).  A save of an instance either       *)
(* stores its snapshot under its uuid, or fails, leaving what was there or *)
(* leaving the key unspecified.  A load into a free slot either fails and  *)
(* changes nothing, or makes an instance of that uuid holding the snapshot *)
(* stored under it; a load of an unspecified key may give any snapshot.    *)
(* Whether a load or a save succeeds is left open; which slot a load just  *)
(* filled is observable, so a load is not mistaken for a create.           *)
(***************************************************************************)
CONSTANTS
    Slots,      \* instance slots in memory
    Uuids,      \* the keys
    DimSizes,   \* sizes of the dimension
    Vals,       \* property values
    None        \* an empty slot, an unspecified key

VARIABLES
    kv,         \* [Uuids -> snapshot or None]
    mem,        \* [Slots -> instance or None]
    loaded      \* the slot a successful load just filled, or None

kvars == <<kv, mem, loaded>>

Snapshots == [n : DimSizes, x : Vals, y : Vals]

(* The instance of uuid u holding snapshot r. *)
InstanceOf(u, r) == [uuid |-> u, n |-> r.n, x |-> r.x, y |-> r.y]

KInit ==
    /\ kv = [u \in Uuids |-> None]
    /\ mem = [s \in Slots |-> None]
    /\ loaded = None

(* The caller creates an instance, or frees one. *)
KCreate(s, u, r) ==
    /\ mem[s] = None
    /\ mem' = [mem EXCEPT ![s] = InstanceOf(u, r)]
    /\ loaded' = None
    /\ UNCHANGED kv

KFree(s) ==
    /\ mem[s] # None
    /\ mem' = [mem EXCEPT ![s] = None]
    /\ loaded' = None
    /\ UNCHANGED kv

(* A save of the instance in slot s: its snapshot, what was there, or an   *)
(* unspecified key.                                                        *)
KSave(s) ==
    /\ mem[s] # None
    /\ \E r \in {[n |-> mem[s].n, x |-> mem[s].x, y |-> mem[s].y],
                 kv[mem[s].uuid], None} :
          kv' = [kv EXCEPT ![mem[s].uuid] = r]
    /\ loaded' = None
    /\ UNCHANGED mem

(* A load of uuid u into the free slot s that succeeds. *)
KLoad(s, u) ==
    /\ mem[s] = None
    /\ \E r \in IF kv[u] = None THEN Snapshots ELSE {kv[u]} :
          mem' = [mem EXCEPT ![s] = InstanceOf(u, r)]
    /\ loaded' = s
    /\ UNCHANGED kv

(* A load into the free slot s that fails. *)
KLoadFails(s) ==
    /\ mem[s] = None
    /\ loaded' = None
    /\ UNCHANGED <<kv, mem>>

KNext ==
    \/ \E s \in Slots, u \in Uuids, r \in Snapshots : KCreate(s, u, r)
    \/ \E s \in Slots : KFree(s) \/ KSave(s) \/ KLoadFails(s)
    \/ \E s \in Slots, u \in Uuids : KLoad(s, u)

KSpec == KInit /\ [][KNext]_kvars
=============================================================================
