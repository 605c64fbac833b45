---------------------- MODULE DLitePluginRegistryProofs ----------------------
(***************************************************************************)
(* Proof that the storage plugin registry implements the catalogue of     *)
(* spec 4.6 (DLiteCatalogue), for every set of drivers, library files and  *)
(* directories, every installation and every search path reached by the    *)
(* path edits.  The theorem rests on one condition that the code does not  *)
(* enforce: step 2 of plugin_get_api loads the library file name.so and    *)
(* returns the api it exports without comparing its name with name, so    *)
(* a lookup answers for the named driver only if a library file named     *)
(* after a driver exports that driver (LibNaming).                         *)
(***************************************************************************)
EXTENDS DLitePluginRegistry, SequenceTheorems, TLAPS

(* A library file named after a driver exports that driver's api.          *)
LibNaming ==
    \A d \in Dirs : \A l \in Installed[d] : l.file \in Drivers => l.api = l.file

Libs == [file : Files, api : Drivers]

TypeInv ==
    /\ info \in BOOLEAN
    /\ registered \subseteq Drivers
    /\ paths \in Seq(Dirs)
    /\ lastGet \in {NoGet} \cup [name : Drivers, api : Drivers \cup {"none"},
                                 avail : BOOLEAN]
    /\ crashed \in BOOLEAN

(***************************************************************************)
(* The inductive invariant: the types, and the result of the last          *)
(* dlite_storage_plugin_get, which every other operation clears.           *)
(***************************************************************************)
RegistryInv == TypeInv /\ GetFindsAvailable

-----------------------------------------------------------------------------
(***************************************************************************)
(* The refinement mapping onto the catalogue of spec 4.6: the catalogue is *)
(* the set of registered apis; until get_storage_plugin_info has created   *)
(* the PluginInfo, the search path is the one it will be created with;     *)
(* the answer of a lookup is whether dlite_storage_plugin_get returned the *)
(* api named name.                                                         *)
(***************************************************************************)
EffectivePath == IF info THEN paths ELSE InitialPaths

Answer == IF lastGet = NoGet THEN [name |-> "none", found |-> FALSE]
          ELSE [name |-> lastGet.name, found |-> lastGet.api = lastGet.name]

Cat == INSTANCE DLiteCatalogue
           WITH Exports <- [d \in Dirs |-> {l.api : l \in Installed[d]}],
                catalogue <- registered,
                searchPath <- EffectivePath,
                answer <- Answer

(* The registry implements the catalogue.                                  *)
CatalogueRefined == Cat!CSpec

(* The libraries on a search path of directories are typed.                *)
LEMMA LibsOnType ==
    ASSUME NEW ps \in Seq(Dirs)
    PROVE  LibsOn(ps) \subseteq Libs
BY RegistryAssumption DEF LibsOn, Libs

(* dlite_storage_plugin_path_insert keeps the path a sequence of dirs.     *)
LEMMA InsertType ==
    ASSUME NEW ps \in Seq(Dirs), NEW k \in 0..Len(ps), NEW dir \in Dirs
    PROVE  SubSeq(ps, 1, k) \o <<dir>> \o SubSeq(ps, k + 1, Len(ps)) \in Seq(Dirs)
<1>1. SubSeq(ps, 1, k) \in Seq(Dirs) /\ SubSeq(ps, k + 1, Len(ps)) \in Seq(Dirs)
  BY SubSeqProperties
<1>2. <<dir>> \in Seq(Dirs)
  OBVIOUS
<1>3. QED
  BY <1>1, <1>2, ConcatProperties

(* dlite_storage_plugin_path_remove keeps the path a sequence of dirs.     *)
LEMMA RemoveType ==
    ASSUME NEW ps \in Seq(Dirs), NEW k \in 1..Len(ps)
    PROVE  SubSeq(ps, 1, k - 1) \o SubSeq(ps, k + 1, Len(ps)) \in Seq(Dirs)
<1>1. SubSeq(ps, 1, k - 1) \in Seq(Dirs) /\ SubSeq(ps, k + 1, Len(ps)) \in Seq(Dirs)
  BY SubSeqProperties
<1>2. QED
  BY <1>1, ConcatProperties

LEMMA InitRegistryInv == Init => RegistryInv
<1> SUFFICES ASSUME Init PROVE RegistryInv
  OBVIOUS
<1>1. <<>> \in Seq(Dirs)
  OBVIOUS
<1>2. TypeInv
  BY <1>1 DEF Init, TypeInv
<1>3. GetFindsAvailable
  BY DEF Init, GetFindsAvailable
<1>4. QED
  BY <1>2, <1>3 DEF RegistryInv

(* A library on a search path that is named after a driver exports it.    *)
LEMMA LibsOnNaming ==
    ASSUME LibNaming, NEW ps \in Seq(Dirs), NEW l \in LibsOn(ps), l.file \in Drivers
    PROVE  l.api = l.file
BY DEF LibNaming, LibsOn

(* The path every operation works on is a sequence of directories.         *)
LEMMA WorkingPath ==
    ASSUME TypeInv
    PROVE  IF info THEN paths \in Seq(Dirs) ELSE InitialPaths \in Seq(Dirs)
BY RegistryAssumption DEF TypeInv

(***************************************************************************)
(* One dlite_storage_plugin_get on the path ps: the three steps of         *)
(* plugin_get_api, the registry they leave and the result recorded.        *)
(***************************************************************************)
LEMMA GetOpInv ==
    ASSUME LibNaming, TypeInv, NEW name \in Drivers, NEW ps \in Seq(Dirs),
           GetOp(name, ps), info' \in BOOLEAN
    PROVE  RegistryInv'
<1> DEFINE libs == LibsOn(ps)
           byFile == {l \in libs : l.file = name}
           api == Resolve(name, ps)
           avail == name \in registered \/ \E l \in libs : l.api = name
<1>1. /\ registered' = Registers(name, ps)
      /\ lastGet' = [name |-> name, api |-> api, avail |-> avail]
      /\ crashed' \in BOOLEAN
      /\ paths' = ps
  BY DEF GetOp
<1>2. libs \subseteq Libs
  BY LibsOnType
<1>3. "none" # name
  BY RegistryAssumption
<1>4. CASE name \in registered
  <2>1. api = name /\ registered' = registered
    BY <1>1, <1>4 DEF Resolve, Registers
  <2>2. QED
    BY <1>1, <1>3, <1>4, <2>1 DEF RegistryInv, TypeInv, GetFindsAvailable, NoGet
<1>5. CASE name \notin registered /\ byFile # {}
  <2> DEFINE l == CHOOSE l \in byFile : TRUE
  <2>1. l \in libs /\ l.file = name
    BY <1>5
  <2>2. l.api = name
    BY <2>1, LibsOnNaming
  <2>3. api = l.api /\ registered' = registered \cup {k.api : k \in byFile}
    BY <1>1, <1>5 DEF Resolve, Registers
  <2>4. avail /\ api = name /\ name \in registered'
    BY <2>1, <2>2, <2>3
  <2>5. registered' \subseteq Drivers
    BY <1>2, <2>3 DEF TypeInv, Libs
  <2>6. QED
    BY <1>1, <1>3, <2>4, <2>5 DEF RegistryInv, TypeInv, GetFindsAvailable, NoGet
<1>6. CASE name \notin registered /\ byFile = {} /\ \E l \in libs : l.api = name
  <2>1. api = name /\ registered' = registered \cup {k.api : k \in libs}
    BY <1>1, <1>6 DEF Resolve, Registers
  <2>2. avail /\ name \in registered'
    BY <1>6, <2>1
  <2>3. registered' \subseteq Drivers
    BY <1>2, <2>1 DEF TypeInv, Libs
  <2>4. QED
    BY <1>1, <1>3, <2>1, <2>2, <2>3 DEF RegistryInv, TypeInv, GetFindsAvailable, NoGet
<1>7. CASE name \notin registered /\ byFile = {} /\ ~\E l \in libs : l.api = name
  <2>1. api = "none" /\ registered' = registered \cup {k.api : k \in libs}
    BY <1>1, <1>7 DEF Resolve, Registers
  <2>2. ~avail
    BY <1>7
  <2>3. registered' \subseteq Drivers
    BY <1>2, <2>1 DEF TypeInv, Libs
  <2>4. QED
    BY <1>1, <1>3, <2>1, <2>2, <2>3 DEF RegistryInv, TypeInv, GetFindsAvailable, NoGet
<1>8. QED
  BY <1>4, <1>5, <1>6, <1>7

(* dlite_storage_plugin_get, on the path of the info it finds or creates.  *)
LEMMA GetStep ==
    ASSUME LibNaming, RegistryInv, NEW name \in Drivers, StoragePluginGet(name)
    PROVE  RegistryInv'
<1>1. CASE info
  <2>1. GetOp(name, paths) /\ info' = info
    BY <1>1 DEF StoragePluginGet, WithInfo
  <2>2. QED
    BY <1>1, <2>1, GetOpInv DEF RegistryInv, TypeInv
<1>2. CASE ~info
  <2>1. GetOp(name, InitialPaths) /\ info' = TRUE
    BY <1>2 DEF StoragePluginGet, WithInfo
  <2>2. QED
    BY <2>1, GetOpInv, RegistryAssumption DEF RegistryInv
<1>3. QED
  BY <1>1, <1>2

(* An operation that clears the last result and keeps the types.           *)
LEMMA ClearStep ==
    ASSUME lastGet' = NoGet, info' \in BOOLEAN, registered' \subseteq Drivers,
           paths' \in Seq(Dirs), crashed' \in BOOLEAN
    PROVE  RegistryInv'
BY DEF RegistryInv, TypeInv, GetFindsAvailable

(* The registry edits: register_api, load_all, unload_all and unload.      *)
LEMMA RegistryEditStep ==
    ASSUME RegistryInv,
           \/ \E d \in Drivers : RegisterApi(d) \/ Unload(d)
           \/ LoadAll \/ UnloadAll
    PROVE  RegistryInv'
<1> DEFINE wp == IF info THEN paths ELSE InitialPaths
<1>1. wp \in Seq(Dirs) /\ LibsOn(wp) \subseteq Libs
  BY WorkingPath, LibsOnType DEF RegistryInv
<1>2. /\ paths' = wp /\ lastGet' = NoGet /\ info' \in BOOLEAN
      /\ crashed' = crashed
      /\ \/ \E d \in Drivers : registered' = registered \cup {d}
         \/ \E d \in Drivers : registered' = registered \ {d}
         \/ registered' = registered \cup {l.api : l \in LibsOn(wp)}
         \/ registered' = {}
  BY DEF RegisterApi, Unload, LoadAll, UnloadAll, WithInfo, RegistryInv, TypeInv
<1>3. registered' \subseteq Drivers
  BY <1>1, <1>2 DEF RegistryInv, TypeInv, Libs
<1>4. QED
  BY <1>1, <1>2, <1>3, ClearStep DEF RegistryInv, TypeInv

(* The path path_insert leaves is a sequence of directories.              *)
LEMMA InsertOn ==
    ASSUME NEW ps \in Seq(Dirs), NEW n \in Int, NEW dir \in Dirs,
           paths' = SubSeq(ps, 1, Clip(n, Len(ps))) \o <<dir>>
                    \o SubSeq(ps, Clip(n, Len(ps)) + 1, Len(ps))
    PROVE  paths' \in Seq(Dirs)
<1> DEFINE k == Clip(n, Len(ps))
<1>1. k \in 0..Len(ps)
  BY DEF Clip
<1>2. paths' = SubSeq(ps, 1, k) \o <<dir>> \o SubSeq(ps, k + 1, Len(ps))
  OBVIOUS
<1> HIDE DEF k
<1>3. QED
  BY <1>1, <1>2, InsertType

(* The path path_remove leaves is a sequence of directories.              *)
LEMMA RemoveOn ==
    ASSUME NEW ps \in Seq(Dirs), NEW n \in Int, ps # <<>>,
           LET k == Clip(n, Len(ps) - 1) + 1
           IN  paths' = SubSeq(ps, 1, k - 1) \o SubSeq(ps, k + 1, Len(ps))
    PROVE  paths' \in Seq(Dirs)
<1>1. Len(ps) - 1 \in Nat
  BY EmptySeq, LenProperties
<1>2. Clip(n, Len(ps) - 1) + 1 \in 1..Len(ps)
  BY <1>1 DEF Clip
<1>3. PICK k \in 1..Len(ps) :
          paths' = SubSeq(ps, 1, k - 1) \o SubSeq(ps, k + 1, Len(ps))
  BY <1>2, Zenon
<1>4. QED
  BY <1>3, RemoveType

(* The path edits: path_insert (and append) and path_remove.               *)
LEMMA PathEditStep ==
    ASSUME RegistryInv,
           \/ \E n \in {-1, 0, 1, MaxPaths}, dir \in Dirs : PathInsert(n, dir)
           \/ \E n \in -1..1 : PathRemove(n)
    PROVE  RegistryInv'
<1>1. /\ lastGet' = NoGet /\ info' \in BOOLEAN
      /\ registered' = registered /\ crashed' = crashed
  BY DEF PathInsert, PathRemove, WithInfo, RegistryInv, TypeInv
<1>2. paths \in Seq(Dirs) /\ InitialPaths \in Seq(Dirs) /\ MaxPaths \in Int
  BY RegistryAssumption DEF RegistryInv, TypeInv
<1>3. paths' \in Seq(Dirs)
  <2>1. CASE \E n \in {-1, 0, 1, MaxPaths}, dir \in Dirs : PathInsert(n, dir)
    <3>1. PICK n \in {-1, 0, 1, MaxPaths}, dir \in Dirs : PathInsert(n, dir)
      BY <2>1
    <3>0. n \in Int
      BY <1>2
    <3>2. CASE info
      <4>1. paths' = SubSeq(paths, 1, Clip(n, Len(paths))) \o <<dir>>
                        \o SubSeq(paths, Clip(n, Len(paths)) + 1, Len(paths))
        BY <3>1, <3>2 DEF PathInsert, WithInfo
      <4>2. QED
        BY <1>2, <3>0, <4>1, InsertOn, Zenon
    <3>3. CASE ~info
      <4>1. paths' = SubSeq(InitialPaths, 1, Clip(n, Len(InitialPaths))) \o <<dir>>
                        \o SubSeq(InitialPaths, Clip(n, Len(InitialPaths)) + 1, Len(InitialPaths))
        BY <3>1, <3>3 DEF PathInsert, WithInfo
      <4>2. QED
        BY <1>2, <3>0, <4>1, InsertOn, Zenon
    <3>4. QED
      BY <3>2, <3>3
  <2>2. CASE \E n \in -1..1 : PathRemove(n)
    <3>1. PICK n \in -1..1 : PathRemove(n)
      BY <2>2
    <3>0. n \in Int
      OBVIOUS
    <3>2. CASE info
      <4>1. /\ paths # <<>>
            /\ LET k == Clip(n, Len(paths) - 1) + 1
               IN  paths' = SubSeq(paths, 1, k - 1) \o SubSeq(paths, k + 1, Len(paths))
        BY <3>1, <3>2 DEF PathRemove, WithInfo
      <4>2. QED
        BY <1>2, <3>0, <4>1, RemoveOn, Zenon
    <3>3. CASE ~info
      <4>1. /\ InitialPaths # <<>>
            /\ LET k == Clip(n, Len(InitialPaths) - 1) + 1
               IN  paths' = SubSeq(InitialPaths, 1, k - 1) \o SubSeq(InitialPaths, k + 1, Len(InitialPaths))
        BY <3>1, <3>3 DEF PathRemove, WithInfo
      <4>2. QED
        BY <1>2, <3>0, <4>1, RemoveOn, Zenon
    <3>4. QED
      BY <3>2, <3>3
  <2>3. QED
    BY <2>1, <2>2
<1>4. QED
  BY <1>1, <1>3, ClearStep DEF RegistryInv, TypeInv

(* Every step of the registry preserves the invariant.                     *)
LEMMA NextRegistryInv ==
    ASSUME LibNaming
    PROVE  RegistryInv /\ [Next]_vars => RegistryInv'
<1> SUFFICES ASSUME RegistryInv, [Next]_vars PROVE RegistryInv'
  OBVIOUS
<1>1. CASE InfoFails
  BY <1>1, ClearStep DEF InfoFails, RegistryInv, TypeInv
<1>2. CASE \E d \in Drivers : StoragePluginGet(d)
  BY <1>2, GetStep
<1>3. CASE UNCHANGED vars
  BY <1>3 DEF vars, RegistryInv, TypeInv, GetFindsAvailable
<1>4. QED
  BY <1>1, <1>2, <1>3, RegistryEditStep, PathEditStep DEF Next

(* RegistryInv holds in every reachable state, for all constants whose     *)
(* library files named after a driver export that driver.                 *)
LEMMA RegistryInvariant ==
    ASSUME LibNaming
    PROVE  Spec => []RegistryInv
BY InitRegistryInv, NextRegistryInv, PTL DEF Spec

-----------------------------------------------------------------------------
(* The refinement of the catalogue.                                        *)

(* The apis the catalogue sees on a path are those of its libraries.       *)
LEMMA ApisOnLibs ==
    ASSUME NEW ps \in Seq(Dirs)
    PROVE  Cat!ApisOn(ps) = {l.api : l \in LibsOn(ps)}
<1> DEFINE Ex == [d \in Dirs |-> {l.api : l \in Installed[d]}]
<1>1. \A k \in 1..Len(ps) : Ex[ps[k]] = {l.api : l \in Installed[ps[k]]}
  OBVIOUS
<1>2. Cat!ApisOn(ps) = UNION {Ex[ps[k]] : k \in 1..Len(ps)}
  BY DEF Cat!ApisOn
<1>3. ASSUME NEW a
      PROVE  (\E k \in 1..Len(ps) : a \in Ex[ps[k]])
             <=> \E k \in 1..Len(ps) : \E l \in Installed[ps[k]] : a = l.api
  BY <1>1
<1>4. \A a : a \in UNION {Ex[ps[k]] : k \in 1..Len(ps)}
                <=> \E k \in 1..Len(ps) : a \in Ex[ps[k]]
  OBVIOUS
<1>5. \A a : a \in {l.api : l \in LibsOn(ps)}
                <=> \E k \in 1..Len(ps) : \E l \in Installed[ps[k]] : a = l.api
  BY DEF LibsOn
<1>6. QED
  BY <1>2, <1>3, <1>4, <1>5, Zenon

(* Every operation other than a get leaves the answer empty.               *)
LEMMA AnswerCleared ==
    ASSUME lastGet' = NoGet
    PROVE  Answer' = Cat!NoAnswer
BY DEF Answer, Cat!NoAnswer

LEMMA InitRefines == Init => Cat!CInit
BY DEF Init, Cat!CInit, EffectivePath, Answer, Cat!NoAnswer

(* dlite_storage_plugin_get is a lookup.                                   *)
LEMMA GetRefines ==
    ASSUME LibNaming, RegistryInv, NEW name \in Drivers, StoragePluginGet(name)
    PROVE  Cat!Lookup(name)
<1> DEFINE ps == EffectivePath
<1>1. ps \in Seq(Dirs)
  BY WorkingPath DEF RegistryInv, EffectivePath
<1>2. GetOp(name, ps) /\ info'
  BY DEF StoragePluginGet, WithInfo, EffectivePath
<1>3. EffectivePath' = ps
  BY <1>2 DEF GetOp, EffectivePath
<1>4. Cat!ApisOn(ps) = {l.api : l \in LibsOn(ps)}
  BY <1>1, ApisOnLibs
<1> DEFINE avail == name \in registered \/ \E l \in LibsOn(ps) : l.api = name
<1>5. lastGet' = [name |-> name, api |-> Resolve(name, ps), avail |-> avail]
  BY <1>2 DEF GetOp
<1>6. lastGet' # NoGet
  BY <1>5, RegistryAssumption DEF NoGet
<1>7. RegistryInv'
  BY GetStep
<1>8. Answer' = [name |-> name, found |-> avail]
  BY <1>5, <1>6, <1>7 DEF RegistryInv, GetFindsAvailable, Answer
<1>9. /\ registered \subseteq registered'
      /\ registered' \subseteq registered \cup {l.api : l \in LibsOn(ps)}
  BY <1>2 DEF GetOp, Registers
<1>10. avail => name \in registered'
  BY <1>5, <1>6, <1>7, RegistryAssumption DEF RegistryInv, GetFindsAvailable
<1>11. QED
  BY <1>3, <1>4, <1>8, <1>9, <1>10 DEF Cat!Lookup

(* register_api, load_all, unload and unload_all edit the catalogue.       *)
LEMMA RegistryEditRefines ==
    ASSUME RegistryInv,
           \/ \E d \in Drivers : RegisterApi(d) \/ Unload(d)
           \/ LoadAll \/ UnloadAll
    PROVE  Cat!CNext
<1> DEFINE ps == EffectivePath
<1>1. ps \in Seq(Dirs)
  BY WorkingPath DEF RegistryInv, EffectivePath
<1>2. EffectivePath' = ps /\ lastGet' = NoGet
  BY DEF RegisterApi, Unload, LoadAll, UnloadAll, WithInfo, EffectivePath
<1>3. Answer' = Cat!NoAnswer
  BY <1>2, AnswerCleared
<1>4. CASE \E d \in Drivers : RegisterApi(d)
  <2>1. PICK d \in Drivers : RegisterApi(d)
    BY <1>4
  <2>2. registered' = registered \cup {d}
    BY <2>1 DEF RegisterApi, WithInfo
  <2>3. QED
    BY <1>2, <1>3, <2>2 DEF Cat!CNext, Cat!Register
<1>5. CASE \E d \in Drivers : Unload(d)
  <2>1. PICK d \in Drivers : Unload(d)
    BY <1>5
  <2>2. registered' = registered \ {d}
    BY <2>1 DEF Unload, WithInfo
  <2>3. QED
    BY <1>2, <1>3, <2>2 DEF Cat!CNext, Cat!Unregister
<1>6. CASE LoadAll
  <2>1. registered' = registered \cup {l.api : l \in LibsOn(ps)}
    BY <1>6 DEF LoadAll, WithInfo, EffectivePath
  <2>2. QED
    BY <1>1, <1>2, <1>3, <2>1, ApisOnLibs DEF Cat!CNext, Cat!RegisterAll
<1>7. CASE UnloadAll
  <2>1. registered' = {}
    BY <1>7 DEF UnloadAll, WithInfo
  <2>2. QED
    BY <1>2, <1>3, <2>1 DEF Cat!CNext, Cat!Clear
<1>8. QED
  BY <1>4, <1>5, <1>6, <1>7

(* path_insert and path_remove edit the search path.                       *)
LEMMA PathEditRefines ==
    ASSUME RegistryInv,
           \/ \E n \in {-1, 0, 1, MaxPaths}, dir \in Dirs : PathInsert(n, dir)
           \/ \E n \in -1..1 : PathRemove(n)
    PROVE  Cat!EditPath
<1>1. registered' = registered /\ lastGet' = NoGet /\ info'
  <2>1. CASE info
    BY <2>1 DEF PathInsert, PathRemove, WithInfo
  <2>2. CASE ~info
    BY <2>2 DEF PathInsert, PathRemove, WithInfo
  <2>3. QED
    BY <2>1, <2>2
<1>2. RegistryInv'
  BY PathEditStep
<1>3. EffectivePath' \in Seq(Dirs)
  BY <1>1, <1>2 DEF EffectivePath, RegistryInv, TypeInv
<1>4. QED
  BY <1>1, <1>3, AnswerCleared DEF Cat!EditPath

(* Every step of the registry is a step of the catalogue or a stutter.     *)
LEMMA NextRefines ==
    ASSUME LibNaming
    PROVE  RegistryInv /\ [Next]_vars => [Cat!CNext]_Cat!cvars
<1> SUFFICES ASSUME RegistryInv, [Next]_vars PROVE [Cat!CNext]_Cat!cvars
  OBVIOUS
<1>1. CASE InfoFails
  <2>1. Cat!CallFails
    BY <1>1, AnswerCleared DEF InfoFails, Cat!CallFails, EffectivePath
  <2>2. QED
    BY <2>1 DEF Cat!CNext
<1>2. CASE \E d \in Drivers : StoragePluginGet(d)
  BY <1>2, GetRefines DEF Cat!CNext
<1>3. CASE \/ \E d \in Drivers : RegisterApi(d) \/ Unload(d)
           \/ LoadAll \/ UnloadAll
  BY <1>3, RegistryEditRefines
<1>4. CASE \/ \E n \in {-1, 0, 1, MaxPaths}, dir \in Dirs : PathInsert(n, dir)
           \/ \E n \in -1..1 : PathRemove(n)
  BY <1>4, PathEditRefines DEF Cat!CNext
<1>5. CASE UNCHANGED vars
  BY <1>5 DEF vars, Cat!cvars, EffectivePath, Answer
<1>6. QED
  BY <1>1, <1>2, <1>3, <1>4, <1>5 DEF Next

(***************************************************************************)
(* The storage plugin registry implements the catalogue of spec 4.6, for   *)
(* every installation whose library files named after a driver export     *)
(* that driver: the lazy creation of the PluginInfo is invisible (the path *)
(* is the initial one until then), a failed creation is a failed call,     *)
(* and the three resolution steps of dlite_storage_plugin_get together     *)
(* are a lookup of the catalogue and the path.                             *)
(***************************************************************************)
THEOREM Refinement ==
    ASSUME LibNaming
    PROVE  Spec => CatalogueRefined
<1>1. RegistryInv /\ [Next]_vars => [Cat!CNext]_Cat!cvars
  BY NextRefines
<1>2. QED
  BY <1>1, InitRefines, RegistryInvariant, PTL DEF Spec, CatalogueRefined, Cat!CSpec

=============================================================================
