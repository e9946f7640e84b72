-------------------------- MODULE MCDirectoryDeleter --------------------------
(***************************************************************************)
(* Instances of DirectoryDeleter for TLC: two listed volumes with an empty *)
(* name between them, markers of this driver that are to be collected and, *)
(* for safety, one that is not (of another driver, or of a PV whose name   *)
(* does not begin with pvc-).                                              *)
(***************************************************************************)
EXTENDS DirectoryDeleter

CONSTANTS ProcessCount, WorkerCount

MCTwoVolumes == <<"v1", "", "v2">>
MCVolumes == Listed
MCCollectable == {"own1", "own2"}
MCProcesses == 1 .. ProcessCount
MCWorkers == 1 .. WorkerCount
===============================================================================
