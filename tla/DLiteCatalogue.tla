---------------------------- MODULE DLiteCatalogue ----------------------------
(***************************************************************************)
(* What the storage plugin registry promises (spec 4.6): a process-wide    *)
(* catalogue of driver apis keyed by name and a search path.  A lookup of  *)
(* a name finds it exactly when it is in the catalogue or exported by a    *)
(* library on the search path; it may register apis found on the path on  *)
(* the way, and registers the one it returns.  How the catalogue is        *)
(* created, when the path is read from the environment and in which order *)
(* the libraries are tried are left open.                                  *)
(***************************************************************************)
EXTENDS Integers, Sequences

CONSTANTS
    Drivers,       \* driver names
    Dirs,          \* directories
    Exports,       \* [Dirs -> SUBSET Drivers]: the apis a directory's libraries export
    InitialPaths   \* the search path before any edit

VARIABLES
    catalogue,     \* the names of the registered apis
    searchPath,    \* the search path
    answer         \* [name, found] of a lookup just made, or NoAnswer

cvars == <<catalogue, searchPath, answer>>

NoAnswer == [name |-> "none", found |-> FALSE]

(* The apis exported by the libraries on a search path. *)
ApisOn(ps) == UNION {Exports[ps[k]] : k \in 1..Len(ps)}

CInit ==
    /\ catalogue = {}
    /\ searchPath = InitialPaths
    /\ answer = NoAnswer

(* A lookup of name; it may register apis it finds on the path.            *)
Lookup(name) ==
    LET avail == name \in catalogue \/ name \in ApisOn(searchPath)
    IN  /\ answer' = [name |-> name, found |-> avail]
        /\ catalogue \subseteq catalogue'
        /\ catalogue' \subseteq catalogue \cup ApisOn(searchPath)
        /\ avail => name \in catalogue'
        /\ UNCHANGED searchPath

(* Registering an api, registering every api on the path, unloading one    *)
(* or all of them.                                                         *)
Register(name) ==
    /\ catalogue' = catalogue \cup {name}
    /\ answer' = NoAnswer /\ UNCHANGED searchPath

RegisterAll ==
    /\ catalogue' = catalogue \cup ApisOn(searchPath)
    /\ answer' = NoAnswer /\ UNCHANGED searchPath

Unregister(name) ==
    /\ catalogue' = catalogue \ {name}
    /\ answer' = NoAnswer /\ UNCHANGED searchPath

Clear ==
    /\ catalogue' = {}
    /\ answer' = NoAnswer /\ UNCHANGED searchPath

(* An edit of the search path. *)
EditPath ==
    /\ searchPath' \in Seq(Dirs)
    /\ answer' = NoAnswer /\ UNCHANGED catalogue

(* A call that fails before it does anything. *)
CallFails ==
    /\ answer' = NoAnswer /\ UNCHANGED <<catalogue, searchPath>>

CNext ==
    \/ \E d \in Drivers : Lookup(d) \/ Register(d) \/ Unregister(d)
    \/ RegisterAll \/ Clear \/ EditPath \/ CallFails

CSpec == CInit /\ [][CNext]_cvars
=============================================================================
