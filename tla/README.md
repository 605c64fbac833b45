# Formal models of dlite-MOM

This directory holds TLA+ models of the C core of dlite-MOM (`src/`), the TLC
configurations that check them on small instances, and TLAPS proofs of:
- the reference-counting invariants;
- save/load fidelity, and save/load's refinement of a key-value store;
- the soundness of the instance layout;
- the metadata url round trip and split;
- driver resolution, and the plugin registry's refinement of an abstract
  catalogue.

`PROJECT.json` lists the components, runs, mutants, the map from every
definition to the source lines it translates, the findings and the
hazards.

## The system

dlite stores scientific data as *instances* of *entities*.
- An entity is the schema: a uri, dimensions and typed properties.
- An entity is itself an instance of the static `schema_entity`, so the
  metadata forms a two-level graph kept alive by reference counts.

The parts and how they interact:

| Part | Source | What it does |
|------|--------|--------------|
| Entity/instance runtime | `src/unnamed/part_002` (dlite-entity.c) | `dlite_entity_create/incref/decref`, `dlite_instance_create/free`, `dlite_meta_postinit` (layout), accessors, `dlite_instance_load/save` |
| Datamodel facade | `src/unnamed/part_004` (dlite-datamodel.c) | `dlite_datamodel` binds a storage and an id (hashed by `dlite_get_uuid`); `set_*` guard optional driver functions; `dlite_copy_to_flat/nested` reshape arrays for drivers |
| Plugin api | `src/unnamed/part_001` | the driver record: required and optional function pointers |
| Plugin registry | `src/unnamed/part_003` | the process-wide `PluginInfo`, created on first use; resolving a driver by name; the search path |
| Collection | `src/src/dlite-collection.c` | label → instance bookkeeping as triples in a triple store |
| Utilities | `src/src/dlite.c`, `src/src/getuuid.c` | metadata url join/split, uuid derivation |
| JSON driver helpers | `src/plugins/json/json-utils.c` | reading a property value out of a json document (`json_get_data`: type and shape inference, flattening), writing one (`json_set_data`), validating a json entity |
| Not core | `part_000` (SWIG), `utils/gencfile.c` | bindings, build-time embedding of files as C arrays |

Load/save runs through everything below it:

`dlite_instance_save/load` → `dlite_datamodel` (which calls `dlite_get_uuid`) → the driver found through the registry → the storage.

The instance memory block it fills was laid out by `dlite_meta_postinit` when
the entity was created.

The library is single-threaded (spec 5). Every "interleaving" in these models
is a sequence of API calls a caller may make in any order. No fairness is
assumed and no liveness is claimed, because nothing in the code runs on its
own: every step is a call the caller chooses to make. The one-shot algorithms
(layout, copy) end in a final state. Their runs set `CHECK_DEADLOCK FALSE`
because the algorithm really stops there. The plugin registry's run does the
same, because a crash ends the process.

## Modules

Each module has one action per operation. The action covers the whole
function, with its early returns and failure paths. Definitions keep the C
names. `PROJECT.json` "map" gives the lines of every definition.

- **DLiteEntity** (part_002 14-140, 398-503, 699-712): entities and instances
  as heap slots (unborn/live/freed).
  - The variables are `rc` (entity->refcount), `held` (the references the
    caller owns), `schemarc`, `imeta` (inst->meta), `units` and `shape` (what
    teardown depends on), `leaked` and `crashed`.
  - The actions are `EntityCreate`, `EntityCreateFail` (a failure inside the
    copy loop), `EntityIncref`, `EntityDecref` (with `dlite_entity_clear` on
    the last reference), `InstanceCreate`, `InstanceFree`, and the two
    create failures `InstanceCreateUuidFail` and `InstanceCreateArrayFail`.
  - `DropRef` is `dlite_meta_decref`/`dlite_entity_decref`.
  - `Spec` is the behaviour when allocations succeed. `SpecWithFailures`
    adds the failure paths.
- **DLiteEntityProofs**: the TLAPS proofs of DLiteEntity's invariants; see
  "What is proved".
- **DLiteMetaLayout** (part_002 581-659): `dlite_meta_postinit` for an
  ordinary entity, one loop iteration per step.
  - `DimStep` is one iteration of the dimension loop (note `size =
    sizeof(int)`) and `DimsDone` updates maxalign.
  - `PropStep` places a property, taking its storage type and size: an array
    is a blob of pointer size.
  - `Finish` computes reloffset and pads meta->size to maxalign.
  - The alignment rule of the type system (dlite-type.c) is not in `src/`. It
    is taken from spec 4.2: string and blob align to 1, stringptr to a
    pointer, numerics to their size.
- **DLiteMetaLayoutProofs**: the TLAPS proofs of the layout's soundness; see
  "What is proved". MC_DLiteMetaLayout extends it, so TLC checks its
  inductive invariant `BoundsInv` and the width hypothesis `NaturalWidths`.
- **DLiteUrl** (dlite.c 70-125): `JoinMetadata`, and `SplitMetadata`
  evaluating `CodeSplit`.
  - `CodeSplit` is the pointer arithmetic of `dlite_split_metadata` on
    1-based positions, including the scan that starts before the buffer.
    `SpecSplit` is the split spec 6 defines.
  - `GiveUrl` is a caller passing its own url. Strings are sequences over
    {a, b, /}.
- **DLiteUrlProofs**: the TLAPS proofs of RoundTrip and SplitSound; see
  "What is proved". Their inductive invariant `UrlInv` is stated there;
  it restates the three actions and is not a property of its own.
- **DLiteCollection** (dlite-collection.c 23-148):
  - The actions are `CollectionAdd` (three `add_relation` calls),
    `CollectionRemove` (remove the `_is-a` marker, the dimension-map loop,
    then the three pattern removals), `AddRelation` and `RemoveRelations`.
  - The triple store is not in `src/`; it is modelled from spec 4.7. It is an
    array of triples with content ids. Removal moves the last triple into the
    hole. `triplestore_find` is a cursor over array positions. These helpers
    are marked spec_modelled.
- **DLiteCopy** (part_004 186-254): the copy loop, one iteration per step,
  for both directions.
  - The nested array maps index tuples to elements and the flat buffer maps
    positions to elements. An element records where it came from, so a
    misplaced copy is visible.
  - The cursor `p` is the row its walk reached and the base buffer it walked
    from. A write through a row walked from the flat buffer is a write
    through garbage (`status = "wild"`).
- **DLiteStorage** (part_002 149-245, part_004 27-138, getuuid.c 35-60):
  `InstanceSave` and `InstanceLoad` on one entity. The entity has a
  dimension `n`, a scalar `x` and an array `y[n]`.
  - An early failure in either function sets `ub`. It is the place where the
    code uses an uninitialised variable.
  - The storage driver is not in `src/`. It writes through, returns
    NULL/-1 for what was never written, and has the optional set functions
    of `Caps`, following part_001 and spec 4.5/4.6.
  - `UuidOf` is `getuuidn`: it returns a uuid unchanged, and v5 for a name.
- **DLitePluginRegistry** (part_003 22-247):
  - The state is lazily created info, the registered drivers and the search
    path.
  - `WithInfo` is `get_storage_plugin_info`, which every operation starts
    with; `InfoFails` is its allocation failure.
  - The actions are `StoragePluginGet`, `RegisterApi`, `LoadAll`,
    `UnloadAll`, `Unload`, `PathInsert` and `PathRemove` (insert also covers
    append/appendn).
  - Name resolution (`Resolve`, `Registers`) belongs to utils/plugin.c,
    which is not in `src/`. It follows the four steps of spec 4.6, tried
    in order (an IF chain: a CASE with overlapping guards would let a
    registered name resolve as if found on the path).
- **DLiteCatalogue** (spec 4.6): the abstract registry, a catalogue of apis
  and a search path. `Lookup(name)` finds name exactly when it is in the
  catalogue or exported on the path, may register apis found on the path,
  and registers what it returns. `Register`, `RegisterAll`, `Unregister`,
  `Clear`, `EditPath` and `CallFails` are the other calls. How the
  PluginInfo is created and in which order libraries are tried is left
  open.
- **DLitePluginRegistryProofs**: the resolution and refinement proofs (see
  "What is proved"). It defines the mapping: the catalogue is `registered`,
  the search path is `EffectivePath` (the initial path until the PluginInfo
  exists), and the answer of a lookup is whether the get returned the api
  named name. `CatalogueRefined` is `Cat!CSpec` under that mapping.

- **DLiteKeyValue**: the abstract specification save/load promises. A
  storage is a map from uuids to snapshots (n, x, y).
  - A save stores the instance's snapshot, keeps the old one, or leaves
    the key unspecified (None).
  - A successful load into a free slot makes an instance of the snapshot
    under its uuid. For an unspecified key it may make any snapshot.
  - A failed load changes nothing. `loaded`, the slot a load just filled,
    keeps a load from passing for a create.
- **DLiteStorageProofs**: the TLAPS proofs of save/load fidelity and of the
  refinement of DLiteKeyValue; see "What is proved". The save_load run checks its inductive invariant
  `StorageInv` too (MC_DLiteStorage extends it).
- **JsonUtils** (json-utils.c 18-551): json values as records `[t, v]`
  (reals as counts of halves, so `(int)` truncation is exact), a
  `json_data_t` as `[dtype, dims, vals]` with `Null` for a NULL pointer.
  - Every function is an operator of the same name: `CharType`,
    `MergeType`, `ArrayType` (a nested array's type replaces the merged
    one, as at line 89), `MergeSize`, `ArraySize`, `ArrayDimensions`,
    `JsonToInt`, `JsonToReal`, `Flatten`/`FlattenR`/`FlattenS`,
    `JsonGetData`, the four `JsonArray*` writers, `SetValue` (the value
    `json_set_data` builds, `Undef` for its uninitialised branch),
    `CheckDimensions`, `DimCount`, `PropCount`.
  - The plugin that calls them is not in `src/`. The state machine is a
    client: `SetData` (`json_set_data` on the instance object), `GetData`
    (`json_get_data` of the member), `Edit` (a document written outside
    the plugin) and `Validate` (both entity counts). `SetData` may write
    back what `GetData` returned.
  - `Shape` and `Leaves` are the reference reading of a document: its
    regular shape (Null when ragged) and its leaves in order.

Each module `M` has an `MC_M.tla` that gives the constants model values. It
defines `MCSymmetry` where slots, uuids or labels are interchangeable.

## Runs

| Run | Checks | Bounds | Shows |
|-----|--------|--------|-------|
| entity_lifecycle (pass) | TypeOK, LiveIffReferenced, SchemaRefcount | 2 entities, 3 instance slots, refcounts ≤ 3, 3 shapes | any order of create/incref/decref/free keeps every entity alive exactly while referenced, and schema_entity pinned |
| instance_array_fail_refcount (violation) | LiveIffReferenced | same, with failures | a failed array calloc frees the half-built instance and decrements a refcount never incremented |
| meta_layout (pass) | TypeOK, LayoutInBounds, PropertiesDisjoint, BoundsInv | ≤ 2 dims, ≤ 2 properties of bool/int/float/string/stringptr/int-array, LP64 sizes | every property lies inside meta->size and none overlaps another; the inductive invariant of the layout proof holds |
| meta_layout_dim_overlap (violation) | DimensionsDisjoint | same | the first property overlaps the last size_t dimension slot |
| url_roundtrip (pass) | RoundTrip, SplitSound | every url of ≤ 4 chars over {a,b,/}; join of 4 words | split inverts join, and a successful split is the spec's split |
| collection_members (pass) | NoOrphanMembers | 2 labels, 2 uuids, 2 dimension targets, ≤ 7 triples | no member triple outlives its marker and every member has both |
| collection_remove_dimmaps (violation) | RemoveDropsDimmapTargets | same | removal by id inside the find loop skips a dimension map |
| copy_to_flat (pass) | FlatCopyCorrect | all shapes of 1-3 dims with sizes 0..2 | every element lands at its C-order position |
| save_load (pass) | LoadedMatchesSaved, StorageInv, KeyValueRefined | 2 slots, 2 uuids, a name hashing to one, 2 values, n ∈ {0,1}, every capability | a load returns what the last complete save wrote; the proof's inductive invariant holds; save/load implements the key-value store |
| plugin_resolution (pass) | RegistryInv, CatalogueRefined (refinement) | 2 drivers (one inside a library with another file name), 2 dirs, path ≤ 4 | get finds exactly the available drivers, including by the full scan; the registry implements DLiteCatalogue |
| json_read_write (pass) | ReadBackValues | data of dtype i/r/b/s, scalar or of shape (0), (2), (1,2), (2,1), over 2 values each; scalar edits; 377 entity documents; NDIM_MAX 2 | stored data reads back with its type and values in order (when it reads back at all) |
| json_external_doc (violation) | LoadSound | documents up to 2 levels deep, ≤ 2 items per array, leaves 1, 1.5, "a", true, null | `json_get_data` returns a dtype or dims that do not describe the document |

Why the bounds suffice:
- Every branch of each function is taken by these instances.
- Two entities and three instances give shared entities, freed slots reused
  by malloc, and last references dropped by either path.
- Shapes with 1-3 dimensions and sizes 0..2 include carries across two
  counters at once, and empty arrays.
- For JSON, two levels and two items per array contain every shape the
  type and size inference distinguishes: empty, regular, ragged, mixed
  scalar/array, and arrays of arrays of different leaf types. The data
  stored cover every branch of `json_set_data` and every dtype.
- 7 triples is the smallest store where the compaction moves an unvisited
  dimension map behind the cursor: two marker+uuid+meta triples, the maps
  and their targets.
- Together the passing runs fire every action and every disjunct of each
  `Next`.

Each passing property has a mutant in `PROJECT.json`: a plausible bug of the
mapped code that TLC catches with that property. Examples are a dropped
incref, a missing padding, a copy cursor not rewalked, swapped loads, and a
resolution without the library scan.

## Defects found while modelling

Every one was confirmed by TLC with a counterexample. Those that have a
violation run above are the `findings` of `PROJECT.json`. The cfgs of the
others remain here and reproduce them:

- part_002:139/703: freeing the last instance releases the entity through
  `dlite_meta_decref`, which skips `dlite_entity_clear` and leaks units and
  names (`MC_DLiteEntity_teardown.cfg`, TeardownComplete).
- part_002:447: a failure inside `dlite_entity_create`'s copy loop cleans up
  with nproperties still 0 (`MC_DLiteEntity_createfail.cfg`).
- part_002:102: an array calloc failure decrements the entity's refcount
  without a matching increment (run `instance_array_fail_refcount`).
- part_002:112: a uuid failure frees an instance whose meta is NULL
  (`MC_DLiteEntity_crash.cfg`).
- part_002:617: dimension slots are size_t but advanced by sizeof(int) (run
  `meta_layout_dim_overlap`).
- part_002:629: an array's pointer slot is aligned as a blob
  (`MC_DLiteMetaLayout_align.cfg`).
- dlite.c:97: `"/v/n"` fails to split; dlite.c:95: `"/n"` reads before the
  buffer and copies SIZE_MAX bytes (`MC_DLiteUrl_spec.cfg`,
  `MC_DLiteUrl_crash.cfg`).
- dlite-collection.c:113: no check that a label is free
  (`MC_DLiteCollection_label.cfg`).
- dlite-collection.c:141: dimension-map targets survive a remove (run
  `collection_remove_dimmaps`).
- part_004:247: `dlite_copy_to_nested` rewalks from src
  (`MC_DLiteCopy_nested.cfg`, NestedCopyCorrect).
- part_002:170: a dimension of size 0 is taken for an error on load
  (`MC_DLiteStorage_zerodim.cfg`, SavedIsLoadable).
- json-utils.c:89 and 119: `json_get_data` misreads documents written
  outside the plugin (run `json_external_doc`). `[[1.5],[1]]` is typed int
  and 1.5 is truncated to 1. In `[[1],["a"]]` the int becomes a NULL string
  passed to `str_list_add`. `[1,[1,1]]` gets dims (2,2) and only 3 values.
  A ragged array returns data with no values, which `json_set_data` then
  writes from its uninitialised `value`.
- json-utils.c:462: `check_dimensions` counts matching pairs, so an entity
  with a duplicated dimension accepts a property dimension that names no
  dimension (`MC_JsonUtils_entity.cfg`, DimsDeclared).
- json-utils.c:419 and 339: `json_set_data` writes multi-dimensional data
  flat, and bool or empty arrays in a form `json_get_data` refuses. The
  shape does not survive a round trip; ReadBackValues states what does.
- part_002:195 and 243: early failures of load/save pass the uninitialised
  `inst`/`pdims` to free (`MC_DLiteStorage_loadfail.cfg`,
  `MC_DLiteStorage_savefail.cfg`).
- part_003:87: with an emptied search path, the failure diagnostic of
  `dlite_storage_plugin_get` dereferences the NULL path list (spec 8
  scenario 4; `MC_DLitePluginRegistry_emptypath.cfg`).

## What is proved

`DLiteEntityProofs` proves for every set of entity and instance slots,
every MaxRef and every set of shapes. The only assumption is the named
`ConstantsAssumption`: finite slot sets, MaxRef ≥ 1, and NoEnt not an
entity.

- `TypeCorrect`: Spec ⇒ □TypeOK. No refcount or caller count goes negative.
- `RefcountCorrect`: Spec ⇒ □LiveIffReferenced. An entity is live exactly
  while the caller or a live instance refers to it.
- `SchemaPinned`: Spec ⇒ □SchemaRefcount. schema_entity's refcount is one
  more than the live entities.

The invariants are not inductive on their own. LiveIffReferenced speaks of
reachability and says nothing of how many references there are, so a decref
could in principle drop the last one early. The inductive invariant `IInv`
therefore states the exact accounting:

IInv = TypeOK ∧ RcLive ∧ RcDead ∧ MetaSet ∧ SchemaRefcount

- `RcLive`: rc = held + number of live instances, and rc ≥ 1 for a live
  entity.
- `RcDead`: a dead entity has no holders and no instances.
- `MetaSet`: a live instance points to an entity.

IInv was checked by TLC as an invariant before it was proved. The proof has
one lemma per action (`InitIInv`, `EntityCreateIInv`, …, `NextIInv`), and
the theorems close with PTL. The cardinality facts come from
FiniteSetTheorems.

`DLiteStorageProofs` proves save/load fidelity for every set of slots,
uuids, names, values and dimension sizes, every capability set and either
writability, from `StorageAssumption`:
- V5 maps names to uuids;
- sizes are naturals;
- None, the NULL of a load record, is no load record.

- `StorageInvariant`: Spec ⇒ □StorageInv.
- `LoadFidelity`: Spec ⇒ □LoadedMatchesSaved.

LoadedMatchesSaved relates a load to a save that may lie many steps back, so
it is not inductive. The strengthening says where the saved values live in
the meantime:

StorageInv = TypeInv ∧ SavedInDb ∧ LastLoadOk

- `SavedInDb`: for every uuid whose last save succeeded, the storage holds
  exactly the saved n, x and y. A partial save forgets the snapshot, and a
  load only adds the data name (lemma `DataNameKeeps`).
- `LastLoadOk`: the instance the last successful load made holds the
  storage's n, x and y for its uuid.

There is one lemma per kind of step (`CreateFreeStep`, `SaveStep`, with one
case per number of set calls that succeeded, and `LoadStep`), then
`NextStorageInv`, and the theorems close with PTL. The save_load run checks
StorageInv with TLC as well.

- `KeyValueRefinement`: Spec ⇒ KeyValueRefined. Save/load implements
  DLiteKeyValue under two mappings:
  - `kv <- saved`;
  - `loaded <- LoadedSlot`: the slot of the last load when it succeeded.

  Each kind of step has its lemma:
  - `KCreateFreeStep`: a create or a free is the abstract one.
  - `KSaveStep`: every save is an abstract save. It stores the snapshot
    after all four set calls succeed, keeps the key when dataModel or
    setMetadata fails, and invalidates it when a later call fails.
  - `KLoadStep`: a successful load is an abstract load. This step needs the
    invariant: when a save of the uuid succeeded last, `SavedInDb` says the
    storage still holds that snapshot. A failed load is `KLoadFails`.

  The refinement is the whole-behaviour form of LoadFidelity. It also rules
  out a load passing a wrong snapshot off as the one saved.

`DLitePluginRegistryProofs` proves the refinement for
every set of drivers, files and directories, every installation and every
MaxPaths. It uses `RegistryAssumption`, under which Installed is typed,
InitialPaths is a sequence of directories and "none" is no driver name.
It also uses one hypothesis on the installation:

`LibNaming`: a library file named after a driver exports that driver.

The code does not check this. Step 2 of `plugin_get_api` loads `name.so`
and returns whatever api it exports. The hypothesis is therefore stated on
each theorem rather than assumed of the constants. The plugin_resolution
installation satisfies it (`ASSUME MCNaming` in MC_DLitePluginRegistry).

- `Refinement`: Spec ⇒ CatalogueRefined. It rests on the lemma
  `RegistryInvariant`, Spec ⇒ □RegistryInv with RegistryInv = TypeInv ∧
  GetFindsAvailable: under LibNaming the result of the last get is the
  named driver exactly when it is registered or on the path (`GetOpInv`
  follows the three resolution steps), and every other call clears it.
  The types need the search path to stay a sequence of directories through
  `path_insert` and `path_remove` (`InsertType`, `RemoveType`, `InsertOn`,
  `RemoveOn`, from SequenceTheorems' `SubSeq` and concatenation facts and
  `Clip`'s range). `InitRefines` maps the initial
  state. `NextRefines` maps each step:
  - a get is a `Lookup` (`GetRefines`, which uses `ApisOnLibs`: the apis the
    catalogue sees on a path are those of its libraries);
  - register_api, load_all, unload and unload_all are the catalogue edits;
  - the path edits are `EditPath`;
  - a failed creation of the PluginInfo is `CallFails`.
  The PluginInfo's lazy creation is invisible under the mapping: before it
  exists, the effective path is the one it will be created with.

RegistryInv and CatalogueRefined were checked by TLC on plugin_resolution
before they were proved.

### The instance layout (DLiteMetaLayoutProofs)

These theorems hold for every entity, every set of property kinds and
every build's sizes (`LayoutAssumption`: pointer, size_t and int widths in
{1, 2, 4, 8}).

- `TypeCorrect`: Spec ⇒ □TypeOK, with no further hypothesis. It is a
  corollary of `OrderInv`, which contains TypeOK.
- `PropertiesDisjointProved`: Spec ⇒ □PropertiesDisjoint, with no further
  hypothesis. The property slots follow the header in declaration order
  and never overlap.
- `BoundsInvariant` and `LayoutInBoundsProved`: Spec ⇒ □BoundsInv and
  Spec ⇒ □LayoutInBounds, under `NaturalWidths`. Every property slot and
  the dimension-size array lie inside meta->size.

`NaturalWidths` says that bool and numeric properties are 1, 2, 4, 8 or
16 bytes wide. The code relies on it: it pads with the mask
`maxalign - 1`, which is a remainder only for a power of two.

Neither property is inductive, because both speak of members placed
many iterations back. Two invariants carry the argument.

`OrderInv` says that every placed property starts after the header and
ends before the next one starts. It also ends before `End`, the end of
the member placed last (offset + size). Each step moves `End` forward:
align_up never goes back (`AlignUpGe`).

`BoundsInv` adds what the padding needs, and this is the subtle part.
The sweep carries `size = sizeof(int)` for a size_t dimension slot, so
`End` can stop short of the end of the dimension array. (That is why
DimensionsDisjoint fails in `meta_layout_dim_overlap`.) LayoutInBounds
holds all the same, because of four facts:
- every dimension slot is at a multiple of sizeof(size_t), at least
  sizeof(size_t) after the previous slot (`NextMultiple`, `SlotArith`);
- the last slot starts before `End`;
- maxalign is a power of two no smaller than sizeof(size_t);
- meta->size is a multiple of maxalign (`PadUp`), so it is a multiple of
  sizeof(size_t) (`Pow2Divides`) above the last slot's offset.

The arithmetic lemmas split on the four size_t widths, which makes the
products linear for the SMT solver.

TLC checks BoundsInv on meta_layout, and checked it on four other sets of
sizes (among them int wider than size_t) before it was proved.

### The metadata url (DLiteUrlProofs)

The url theorems hold for every alphabet, every set of words and every
length bound. They assume only `UrlAssumption`: '/' is not a letter, the
bound is a natural number, and the words are strings.

- `RoundTripProved`: Spec ⇒ □RoundTrip.
- `SplitSoundProved`: Spec ⇒ □SplitSound.

RoundTrip and SplitSound are not inductive. They speak of `out`, while
a join or a new url changes `url`. The lemma `UrlInvariant` (Spec ⇒
□UrlInv) records three facts:
- the url is a string;
- a split result on record is `CodeSplit` of the current url;
- a join on record built the current url.

Each action keeps UrlInv, and two lemmas about the split function alone
finish the proofs:
- `SplitOfJoin` is RoundTrip for one join. `JoinAt` gives the characters of
  the "%s/%s/%s" buffer. With plain parts the url has exactly the two '/'
  at |ns|+1 and |ns|+|v|+2. The backward scan stops at the first one,
  which is after position 1 because the namespace is non-empty. The three
  copies then equal the parts position by position (`SliceIs`).
- `SplitOkIsSpec` is SplitSound for one url. A successful split has a last
  '/' p ≠ 1, and its scan stops at a '/' q ≥ 2. So there are at least two
  '/' (cardinality, from FiniteSetTheorems), and q is the largest '/' other
  than p. Any other '/' below p is either in the scanned range, and so
  ≤ q, or is position 1 < q.

`Max` of FiniteSetsExt is a CHOOSE. The lemma `MaxExists` shows that a
non-empty set of positions has a largest element. It applies `WFMin` and
`NatLessThanWellFounded` of WellFoundedInduction to the distances from the
top. Neither takes an operator parameter, so no induction has to be
instantiated.

What stays model-checked: that the code may fail where the spec succeeds,
and may crash (url_spec, url_crash). These are violations, and a proof
cannot state them.

## What is only model-checked, and why

- The collection, copy and JSON properties, and the layout's
  DimensionsDisjoint and alignment checks (which fail), are
  model-checked only. Their modules compute with RECURSIVE operators (Prod,
  Pos, Carry, the store's removal scan, and for JSON the recursion over
  nested documents) or with string sequences, where the
  interesting statements are about what a loop computes for all inputs.
  That is induction over data, beyond the installed provers.
- No liveness properties are stated, because the code has no scheduler or
  retry of its own (see above).
- The proofs are as strong as their hypotheses. The registry theorems assume
  `LibNaming`, which no code checks (see "What is proved"); without it TLC
  finds an installation where the get returns the wrong driver.
  LayoutInBoundsProved assumes `NaturalWidths`.
- Only the instance branch of dlite_meta_postinit is proved about. The
  metadata branch is fixed by offsetof and is not modelled.

## Not modelled

- The SWIG bindings are generated glue.
- gencfile.c main is a build-time tool whose only state is its output file.
  Its two hazards, a partial OUTFILE after a failed fopen and a NUL byte
  cutting the returned string, are listed without a property.
  Lines 78-530 of that file are the tgen.h header: declarations only.
- `json_data_free` and the reference counts of jansson values only manage
  memory; the leak of `value` in `json_set_data` is a hazard.
- The property/dimension accessors (part_002 251-395) change no reference
  state. Their defects (index checked against nproperties, unchecked
  realloc) are listed as hazards.
- `dlite_entity_load` always fails (its condition at 522 is always true).
- calloc failure of the instance block is a no-op call and is omitted.
- Addresses are not modelled, so the stale `coll->triplets` pointer is a
  hazard without a property.

## Plan for later sittings

1. Prove the collection invariant NoOrphanMembers. The store's removal scans
   would first have to be rewritten without recursion. tlapm cannot unfold a
   recursive function without a proof that its fixpoint exists, and that
   proof is an induction. The minimal-counterexample argument of
   `MaxExists` (WFMin on Nat) can stand in for that induction.
2. Model the json plugin's driver once it is in the sources, composing
   JsonUtils with DLiteStorage.
3. Model the accessors with their index checks.
4. Compose the entity lifecycle with load/save: load creates an instance and
   increfs the entity.
