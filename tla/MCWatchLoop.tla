---------------------------- MODULE MCWatchLoop ----------------------------
(* Two watched files of one directory, and a rescan that may miss one.     *)
EXTENDS WatchLoop, TLC

CONSTANTS f1, f2, d1

MCFiles == {f1, f2}
MCMatching == {f1, f2}
MCDirs == {d1}
MCDirOf == [f \in MCFiles |-> d1]
=============================================================================
