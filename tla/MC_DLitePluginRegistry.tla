----------------------- MODULE MC_DLitePluginRegistry -----------------------
(* Two drivers and two directories: d1 ships as d1.so in dir1, d2 only     *)
(* inside a library file x.so in dir2, so that finding d2 takes the scan   *)
(* of every library (step 3).                                              *)
EXTENDS DLitePluginRegistryProofs

CONSTANTS d1, d2, x, dir1, dir2

MCInstalled == [k \in {dir1, dir2} |->
                   IF k = dir1 THEN {[file |-> d1, api |-> d1]}
                   ELSE {[file |-> x, api |-> d2]}]
MCInitialPaths == <<dir1>>

\* The installation follows the naming the refinement theorem assumes.
ASSUME MCNaming == LibNaming
=============================================================================
