------------------------- MODULE SharedVolumeSystem -------------------------
(***************************************************************************)
(* The controller process as a whole, for shared volumes: the gRPC         *)
(* handlers of SharedVolumes and the sweep of DirectoryDeleter (one        *)
(* process) over the same shared volumes.  They meet in the volumes, where *)
(* one renames and the other removes, and in the process: a panic of the   *)
(* sweep takes the handlers with it, a restart of the controller takes the *)
(* queue of the sweep.                                                     *)
(*                                                                         *)
(* cutOff is a history variable: createDirectory makes a subdirectory by   *)
(* Mkdir, Chmod and Chown, one after the other, and the next attempt takes *)
(* a subdirectory that is there as it is.  Whether a bound claim's has its *)
(* mode and its owner depends on what became of earlier attempts.  Nothing *)
(* but BoundIsReady reads it.                                              *)
(***************************************************************************)
EXTENDS SharedVolumes, Sequences

CONSTANTS
    SweepList,      \* --shared_volumes_list
    Workers,        \* the deletion workers
    Capacity,       \* --parallel_deletions
    CleanMountPath, \* --quobyte_mount_path is written as filepath.Join would write it
    SweepFaults     \* the faults of the sweep that may happen

ASSUME SharedVolumeSystemAssumption ==
    /\ SweepList \in Seq(Volumes \cup {""}) /\ "" \notin Volumes
    /\ \A v \in Volumes : \E i \in DOMAIN SweepList : SweepList[i] = v
    /\ SweepList # <<>> /\ Capacity \in Nat \ {0} /\ CleanMountPath \in BOOLEAN
    /\ SweepFaults \subseteq {"partial", "remove"}

VARIABLES
    walker, channel, worker,
    cutOff     \* the claims one of whose attempts at the subdirectory was cut off

sweep == <<walker, channel, worker>>
allvars == <<vars, sweep, cutOff>>

Controller == "controller"

Sweep == INSTANCE DirectoryDeleter WITH
    Existing <- Volumes, Markers <- Claims, Collectable <- Claims, Processes <- {Controller}

\* The variables that the sweep does not share.
private == <<claim, handler, volumes, dir, tasks, cutOff>>

Creating == {"create", "stat", "mkdir", "chmod", "chown"}

\* The attempt stops between Mkdir and Chown, by an error or with its process; or its caller
\* gives it up before it is through, so that it goes on beside the next one.
CutsOff(h) ==
    /\ handler[h].op = "create"
    /\ \/ handler[h].pc \in {"chmod", "chown"} /\ handler'[h].pc \in {"failed", "idle"}
       \/ /\ handler[h].pc \in Creating /\ handler[h].awaited
          /\ handler'[h].pc = handler[h].pc /\ ~handler'[h].awaited

\* Once such an attempt is on record it stays there.
Remembers == cutOff' = cutOff \cup {Of(h) : h \in {i \in Handlers : CutsOff(i)}}

Handles(h) ==
    /\ HandlerStep(h) \/ CallTimesOut(h)
    /\ UNCHANGED sweep
    /\ Remembers

Asks(c) == (CallerStep(c) \/ UserStep(c) \/ RunTask(c)) /\ UNCHANGED <<sweep, cutOff>>

Mounts(v) == (Unmount(v) \/ Remount(v)) /\ UNCHANGED <<sweep, cutOff>>

\* main launches the sweep only without use_delete_files_task.
Walks ==
    /\ \/ ~UseDeleteFilesTask /\ Sweep!Wake(Controller)
       \/ Sweep!ReadVolume(Controller)
       \/ Sweep!Enqueue(Controller)
       \/ Sweep!NextVolume(Controller)
    /\ UNCHANGED private

Works(w) == Sweep!WorkerStep(Controller, w) /\ UNCHANGED private

\* The panic of the walker ends the process: callers find their calls failed.
Panics ==
    /\ Sweep!Panic(Controller)
    /\ HandlersDie
    /\ Remembers
    /\ UNCHANGED <<volumes, dir, tasks>>

\* The process is killed and starts over, its queue empty.
Crashes ==
    /\ Fault("crash")
    /\ HandlersDie
    /\ Sweep!Restarted(Controller)
    /\ Remembers
    /\ UNCHANGED storage

-----------------------------------------------------------------------------

SystemTypeOK == TypeOK /\ Sweep!TypeOK /\ cutOff \subseteq Claims

SystemInit ==
    /\ Init
    /\ walker = [p \in {Controller} |-> Sweep!Asleep]
    /\ channel = [p \in {Controller} |-> <<>>]
    /\ worker = [p \in {Controller} |-> [w \in Workers |-> Sweep!Waiting]]
    /\ cutOff = {}

SystemNext ==
    \/ \E h \in Handlers : Handles(h)
    \/ \E c \in Claims : Asks(c)
    \/ \E v \in Volumes : Mounts(v)
    \/ \E w \in Workers : Works(w)
    \/ Walks
    \/ Panics
    \/ Crashes

\* As in the components: goroutines run, callers retry, tasks are run, and a volume that
\* the client mount lost comes back.
SystemFairness ==
    /\ \A h \in Handlers : WF_allvars(HandlerStep(h) /\ UNCHANGED sweep /\ Remembers)
    /\ \A c \in Claims : WF_allvars((CallerStep(c) \/ RunTask(c)) /\ UNCHANGED <<sweep, cutOff>>)
    /\ \A v \in Volumes : WF_allvars(Remount(v) /\ UNCHANGED <<sweep, cutOff>>)
    /\ WF_allvars(Walks \/ Panics)
    /\ \A w \in Workers : WF_allvars(Works(w))

System == SystemInit /\ [][SystemNext]_allvars

FairSystem == System /\ SystemFairness

-----------------------------------------------------------------------------
(* Properties.                                                             *)

\* The accessMode parameter "is applied to the claim's subdirectory"
\* (e2e-tests/sanity/shared_volume/access_mode_test.go:35), and CreateVolume is to "apply
\* configured access permissions to the subdirectory" (controller.go:175).  It may not be: a
\* retry stops at the subdirectory that it finds (shared_volume_mapper.go:25-38).  But a claim
\* is bound without mode and owner only if one of its own attempts was cut off after Mkdir, or
\* given up: neither another claim, the sweep, a lost mount nor any other failure is enough.
BoundIsReady ==
    \A c \in Claims : claim[c].phase = "bound" => dir[c].stage = "ready" \/ c \in cutOff

\* The storage of a deleted claim comes back: its subdirectory leaves its name, and the
\* sweep removes the marker, "its contents" with it (the rename of DeleteVolume and
\* RemoveAll of the worker).
StorageIsReclaimed ==
    \A c \in Claims : claim[c].phase = "deleting" ~> ~Exists(c) /\ ~IsMarked(c)

\* What a worker removes belonged to a deleted claim, however old the entry of the queue
\* and whatever handlers of calls that timed out did to the subdirectory since.
SweptWasDeleted ==
    [][\A v \in Volumes : \A c \in marked[v] \ marked'[v] :
         claim[c].phase \in {"deleting", "deleted"}]_allvars

\* A claim's phase, its subdirectory and its marker, as ClaimStorage sees them.
Promise == INSTANCE ClaimStorage WITH
    Owners <- Claims,
    ByTask <- UseDeleteFilesTask,
    tenure <- [c \in Claims |->
        CASE claim[c].phase = "pending" -> "wanted"
          [] claim[c].phase = "bound" -> "held"
          [] claim[c].phase = "abandoned" -> "never"
          [] OTHER -> "givenUp"],
    own <- [c \in Claims |->
        IF ~Exists(c) THEN "nothing" ELSE IF dir[c].data THEN "files" ELSE "empty"],
    trash <- {c \in Claims : IsMarked(c)}

\* Handlers, however stale, and the sweep keep the promise of ClaimStorage: what a bound claim
\* stored stays under its own name until the claim is given up ("The rename moved the directory,
\* it did not empty it", shared_volume_cleanup_test.go:178), what is given up is bound never again,
\* and the sweep empties no more than that.
StorageKept == Promise!StorageSpec
=============================================================================
