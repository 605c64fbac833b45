------------------------- MODULE DLitePluginRegistry -------------------------
(***************************************************************************)
(* The storage plugin registry (dlite-storage-plugins.c): a process-wide   *)
(* PluginInfo created on first use, the registered driver apis and the     *)
(* search path.  The generic plugin library (utils/plugin.c) is not part   *)
(* of the sources; its resolution of a name and its path indices follow    *)
(* spec 4.6.  A library on disk is a record [file, api]: the name of its   *)
(* file and the name of the driver whose api it exports.  Iterators are    *)
(* not modelled: they only read the registry.                              *)
(***************************************************************************)
EXTENDS Integers, Sequences

CONSTANTS
    Drivers,     \* driver names
    Files,       \* names of library files (name.so)
    Dirs,        \* directories
    Installed,   \* [Dirs -> SUBSET [file : Files, api : Drivers]]
    InitialPaths,\* DLITE_STORAGE_PLUGIN_DIRS followed by the configured dirs
    MaxPaths     \* bound on the length of the search path

ASSUME RegistryAssumption ==
    /\ Drivers \subseteq Files
    /\ Installed \in [Dirs -> SUBSET [file : Files, api : Drivers]]
    /\ InitialPaths \in Seq(Dirs)
    /\ MaxPaths \in Nat
    /\ "none" \notin Drivers     \* the model's "not found" is no driver name

VARIABLES
    info,        \* storage_plugin_info # NULL
    registered,  \* names of the registered apis
    paths,       \* the search path
    lastGet,     \* [name, ok] of a dlite_storage_plugin_get just made, or NoGet
    crashed      \* the error path dereferenced a NULL search path

vars == <<info, registered, paths, lastGet, crashed>>

NoGet == [name |-> "none", api |-> "none", avail |-> FALSE]

(* The libraries found on a search path. *)
LibsOn(ps) == UNION {Installed[ps[k]] : k \in 1..Len(ps)}

(* Python-like index: negative counts from the end, then clipped.          *)
Clip(n, len) == LET m == IF n < 0 THEN n + len ELSE n
                IN  IF m < 0 THEN 0 ELSE IF m > len THEN len ELSE m

Init ==
    /\ info = FALSE
    /\ registered = {}
    /\ paths = <<>>
    /\ lastGet = NoGet
    /\ crashed = FALSE

(***************************************************************************)
(* get_storage_plugin_info: on first use plugin_info_create, which may     *)
(* fail and is then tried again by the next call; on success the path      *)
(* is the environment's extended by the build's directories.  Every        *)
(* operation below starts with it, and returns an error when it gives      *)
(* NULL.                                                                   *)
(***************************************************************************)
InfoFails ==
    /\ ~info
    /\ lastGet' = NoGet
    /\ UNCHANGED <<info, registered, paths, crashed>>

WithInfo(op(_)) ==
    \/ /\ info
       /\ op(paths)
       /\ UNCHANGED info
    \/ /\ ~info
       /\ info' = TRUE
       /\ op(InitialPaths)

(***************************************************************************)
(* dlite_storage_plugin_get(name): plugin_get_api returns the registered   *)
(* api, or loads name.so from the path, or loads every library on the path *)
(* and returns the one named name.  When it fails, the message lists       *)
(* dlite_storage_plugin_paths(), which is NULL for an empty search path,   *)
(* and the loop dereferences it.                                           *)
(***************************************************************************)
Resolve_noScan(name, ps) ==
    LET libs == LibsOn(ps)
        byFile == {l \in libs : l.file = name}
    IN  IF name \in registered THEN name
        ELSE IF byFile # {} THEN (CHOOSE l \in byFile : TRUE).api
        ELSE "none"

(* The api plugin_get_api returns, by the three steps tried in order, or   *)
(* "none".                                                                 *)
Resolve(name, ps) ==
    LET libs == LibsOn(ps)
        byFile == {l \in libs : l.file = name}
    IN  IF name \in registered THEN name
        ELSE IF byFile # {} THEN (CHOOSE l \in byFile : TRUE).api
        ELSE IF \E l \in libs : l.api = name THEN name
        ELSE "none"

(* What the registry holds after those steps.                              *)
Registers_noScan(name, ps) ==
    LET libs == LibsOn(ps)
        byFile == {l \in libs : l.file = name}
    IN  IF name \in registered THEN registered
        ELSE IF byFile # {} THEN registered \cup {l.api : l \in byFile}
        ELSE registered

Registers(name, ps) ==
    LET libs == LibsOn(ps)
        byFile == {l \in libs : l.file = name}
    IN  IF name \in registered THEN registered
        ELSE IF byFile # {} THEN registered \cup {l.api : l \in byFile}
        ELSE registered \cup {l.api : l \in libs}

GetOp(name, ps) ==
    LET api == Resolve(name, ps)
    IN  /\ registered' = Registers(name, ps)
        /\ lastGet' = [name |-> name, api |-> api,
                       avail |-> name \in registered \/ \E l \in LibsOn(ps) : l.api = name]
        /\ crashed' = (api = "none" /\ ps = <<>>)
        /\ paths' = ps

StoragePluginGet(name) ==
    /\ ~crashed
    /\ WithInfo(LAMBDA ps : GetOp(name, ps))

(* dlite_storage_plugin_register_api(api). *)
RegisterApi(name) ==
    /\ ~crashed
    /\ WithInfo(LAMBDA ps : /\ registered' = registered \cup {name}
                            /\ paths' = ps /\ lastGet' = NoGet
                            /\ UNCHANGED crashed)

(* dlite_storage_plugin_load_all(). *)
LoadAll ==
    /\ ~crashed
    /\ WithInfo(LAMBDA ps : /\ registered' = registered \cup {l.api : l \in LibsOn(ps)}
                            /\ paths' = ps /\ lastGet' = NoGet
                            /\ UNCHANGED crashed)

(* dlite_storage_plugin_unload_all() and dlite_storage_plugin_unload(name). *)
UnloadAll ==
    /\ ~crashed
    /\ WithInfo(LAMBDA ps : /\ registered' = {}
                            /\ paths' = ps /\ lastGet' = NoGet
                            /\ UNCHANGED crashed)

Unload(name) ==
    /\ ~crashed
    /\ WithInfo(LAMBDA ps : /\ registered' = registered \ {name}
                            /\ paths' = ps /\ lastGet' = NoGet
                            /\ UNCHANGED crashed)

(* dlite_storage_plugin_path_insert(n, path); _append(path) and           *)
(* _appendn(path, n) insert at the end.                                    *)
PathInsert(n, dir) ==
    /\ ~crashed
    /\ WithInfo(LAMBDA ps :
           /\ Len(ps) < MaxPaths
           /\ LET k == Clip(n, Len(ps))
              IN  paths' = SubSeq(ps, 1, k) \o <<dir>> \o SubSeq(ps, k + 1, Len(ps))
           /\ lastGet' = NoGet
           /\ UNCHANGED <<registered, crashed>>)

(* dlite_storage_plugin_path_remove(n).                                    *)
PathRemove(n) ==
    /\ ~crashed
    /\ WithInfo(LAMBDA ps :
           /\ ps # <<>>
           /\ LET k == Clip(n, Len(ps) - 1) + 1
              IN  paths' = SubSeq(ps, 1, k - 1) \o SubSeq(ps, k + 1, Len(ps))
           /\ lastGet' = NoGet
           /\ UNCHANGED <<registered, crashed>>)

Next ==
    \/ InfoFails
    \/ \E d \in Drivers : StoragePluginGet(d) \/ RegisterApi(d) \/ Unload(d)
    \/ LoadAll \/ UnloadAll
    \/ \E n \in {-1, 0, 1, MaxPaths}, dir \in Dirs : PathInsert(n, dir)
    \/ \E n \in -1..1 : PathRemove(n)

Spec == Init /\ [][Next]_vars

-----------------------------------------------------------------------------
(***************************************************************************)
(* dlite_storage_plugin_get(name) returns the api named name exactly when  *)
(* one is registered or exported by a library anywhere on the search path  *)
(* at the time of the call, also when no library file carries that name    *)
(* (spec 4.6, steps 1 to 4); and what it returns is then registered.       *)
(***************************************************************************)
GetFindsAvailable ==
    lastGet # NoGet =>
        /\ (lastGet.api = lastGet.name) <=> lastGet.avail
        /\ lastGet.api # "none" => lastGet.api \in registered

(***************************************************************************)
(* Spec 8, scenario 4: a dlite_storage_plugin_get of a driver that cannot  *)
(* be found, with an empty search path, fails with a diagnostic, and does  *)
(* not crash while listing the path in it.                                 *)
(***************************************************************************)
GetFailureDiagnosed == ~crashed

=============================================================================
