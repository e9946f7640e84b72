---------------------------- MODULE SharedVolumes ----------------------------
(***************************************************************************)
(* Dynamic provisioning inside shared volumes: with the storage class      *)
(* parameter sharedVolumeName, CreateVolume makes a subdirectory named     *)
(* after the PV in the root of the shared volume, through the client mount *)
(* of the controller (DirectoryMaker), and DeleteVolume marks it for       *)
(* deletion by renaming it, or asks the backend for a delete-files task.   *)
(*                                                                         *)
(* Handlers are goroutines that interleave at every call, as in            *)
(* DedicatedVolumes.  Names of subdirectories and of their delete markers  *)
(* are functions of the PV name: a claim stands for both.                  *)
(***************************************************************************)
EXTENDS Integers, FiniteSets

CONSTANTS
    Claims,             \* the persistent volume claims
    Volumes,            \* the shared volumes
    Home,               \* the shared volume of each claim's storage class
    Preexisting,        \* the shared volumes the administrator created
    Handlers,           \* slots for the goroutines that serve gRPC calls
    UseDeleteFilesTask, \* flag use_delete_files_task
    FaultKinds,         \* the faults of the environment that may happen
    MaxFaults           \* bound: how many of them happen in one behaviour

ASSUME SharedVolumesAssumption ==
    /\ Claims # {}
    /\ Home \in [Claims -> Volumes]
    /\ Preexisting \subseteq Volumes
    /\ Handlers \subseteq Nat
    /\ UseDeleteFilesTask \in BOOLEAN
    /\ FaultKinds \subseteq {"api", "fs", "lost", "timeout", "crash", "unmount"}
    /\ MaxFaults \in Nat

VARIABLES
    claim,     \* what Kubernetes knows of each claim
    handler,   \* the gRPC handlers of the controller
    volumes,   \* the shared volumes the backend has
    dir,       \* the subdirectory of each claim
    marked,    \* the delete markers in each volume
    readable,  \* the volumes that the client mount shows
    tasks,     \* the delete-files tasks that the backend has to run
    faults     \* how many faults happened

storage == <<volumes, dir, marked, readable, tasks>>
vars == <<claim, handler, volumes, dir, marked, readable, tasks, faults>>

Phases == {"pending", "bound", "deleting", "deleted", "abandoned"}

Pcs == {"idle", "create", "stat", "mkdir", "chmod", "chown", "rename", "task",
        "ok", "failed"}

\* How far createDirectory got with a subdirectory: made by Mkdir, with the
\* configured mode after Chmod, with the configured owner after Chown.
Stages == {"absent", "made", "moded", "ready"}

ClaimRecord == [phase : Phases, wanted : BOOLEAN, background : BOOLEAN]

HandlerRecord ==
    [pc : Pcs, op : {"create", "delete"}, claim : Claims, awaited : BOOLEAN]

DirRecord == [stage : Stages, data : BOOLEAN]

TypeOK ==
    /\ claim \in [Claims -> ClaimRecord]
    /\ handler \in [Handlers -> HandlerRecord]
    /\ volumes \in SUBSET Volumes
    /\ dir \in [Claims -> DirRecord]
    /\ marked \in [Volumes -> SUBSET Claims]
    /\ readable \in SUBSET Volumes
    /\ tasks \in SUBSET Claims
    /\ faults \in 0 .. MaxFaults

-----------------------------------------------------------------------------

Exists(c) == dir[c].stage # "absent"

NoDirectory == [stage |-> "absent", data |-> FALSE]

IsMarked(c) == c \in marked[Home[c]]

\* The handler's claim, and whether the client mount shows its shared volume.
Of(h) == handler[h].claim
Shown(h) == Home[Of(h)] \in readable

\* The path <mount>/<volume>/<pv> resolves.
Found(h) == Shown(h) /\ Exists(Of(h))

Fault(kind) ==
    /\ kind \in FaultKinds
    /\ faults < MaxFaults
    /\ faults' = faults + 1

Idle == [pc |-> "idle", op |-> "create", claim |-> CHOOSE c \in Claims : TRUE,
         awaited |-> FALSE]

Busy(h) == handler[h].pc # "idle"

Awaiting(c, ops) ==
    \E h \in Handlers : Busy(h) /\ handler[h].awaited /\ Of(h) = c /\ handler[h].op \in ops

At(h, pc) == handler[h].pc = pc

Goto(h, pc) == handler' = [handler EXCEPT ![h].pc = pc]

\* A call that changes nothing.
Looks(h, pc) == Goto(h, pc) /\ UNCHANGED <<claim, storage, faults>>

-----------------------------------------------------------------------------
(* CreateVolume.                                                           *)

\* Mutant: a subdirectory whose mode or owner cannot be set is marked for deletion.
CallFails_rolls_back(h) ==
    /\ handler[h].pc \in {"chmod", "chown"}
    /\ Exists(Of(h))
    /\ Fault("fs")
    /\ dir' = [dir EXCEPT ![Of(h)] = NoDirectory]
    /\ marked' = [marked EXCEPT ![Home[Of(h)]] = @ \cup {Of(h)}]
    /\ Goto(h, "failed")
    /\ UNCHANGED <<claim, volumes, readable, tasks>>

\* Mutant: DeleteVolume ignores every error of Rename.
CallFails_rename_ignored(h) ==
    At(h, "rename") /\ Fault("fs") /\ Goto(h, "ok") /\ UNCHANGED <<claim, storage>>

\* A call of the API, or on the client mount, fails without effect; so do the errors for a file
\* of the subdirectory's name (at the stat) and for a mode that is no octal number (before Mkdir),
\* which a retry meets again until the user acts.
CallFails(h) ==
    /\ \/ handler[h].pc \in {"create", "task"} /\ Fault("api")
       \/ handler[h].pc \in {"stat", "mkdir", "chmod", "chown", "rename"} /\ Fault("fs")
    /\ Goto(h, "failed")
    /\ UNCHANGED <<claim, storage>>

\* Mutant: CreateVolume is done when the volume was there.
CreateSharedVolume_exists_done(h) ==
    /\ At(h, "create")
    /\ volumes' = volumes \cup {Home[Of(h)]}
    /\ readable' = readable \cup ({Home[Of(h)]} \ volumes)
    /\ Goto(h, IF Home[Of(h)] \in volumes THEN "ok" ELSE "stat")
    /\ UNCHANGED <<claim, dir, marked, tasks, faults>>

\* WhoAmI, GetTenantUUID, and CreateVolume of the shared volume's name: the first
\* claim creates the volume, others resolve it after ENTITY_EXISTS_ALREADY.
CreateSharedVolume(h) ==
    /\ At(h, "create")
    /\ volumes' = volumes \cup {Home[Of(h)]}
    /\ readable' = readable \cup ({Home[Of(h)]} \ volumes)
    /\ \/ Goto(h, "stat") /\ UNCHANGED faults
       \/ Goto(h, "failed") /\ Fault("lost")
    /\ UNCHANGED <<claim, dir, marked, tasks>>

\* Mutant: a subdirectory that exists is an error.
StatDirectory_exists_fails(h) ==
    At(h, "stat") /\ Looks(h, IF Found(h) THEN "failed" ELSE "mkdir")

\* An existing subdirectory is taken as it is.
StatDirectory(h) ==
    At(h, "stat") /\ Looks(h, IF Found(h) THEN "ok" ELSE "mkdir")

\* EEXIST is ignored, "might have been created by replicated pods".
MakeDirectory(h) ==
    /\ At(h, "mkdir")
    /\ IF Shown(h)
       THEN /\ dir' = [dir EXCEPT ![Of(h)].stage = IF Exists(Of(h)) THEN @ ELSE "made"]
            /\ Goto(h, "chmod")
       ELSE Goto(h, "failed") /\ UNCHANGED dir
    /\ UNCHANGED <<claim, volumes, marked, readable, tasks, faults>>

\* Chmod, then the look-up of user and group and Chown; both need the path.
Reaches(h, from, to, pc) ==
    /\ dir' = [dir EXCEPT ![Of(h)].stage = IF @ = from THEN to ELSE @]
    /\ Goto(h, pc)
    /\ UNCHANGED <<claim, volumes, marked, readable, tasks, faults>>

ChangeMode(h) ==
    /\ At(h, "chmod")
    /\ IF Found(h) THEN Reaches(h, "made", "moded", "chown") ELSE Looks(h, "failed")

\* Mutant: the subdirectory keeps the owner that made it.
ChangeOwner_skipped(h) == At(h, "chown") /\ Looks(h, "ok")

ChangeOwner(h) ==
    /\ At(h, "chown")
    /\ IF Found(h) THEN Reaches(h, "moded", "ready", "ok") ELSE Looks(h, "failed")

-----------------------------------------------------------------------------
(* DeleteVolume of a handle tenant|volume|subdirectory.                    *)

\* Mutant: the subdirectory is removed at once.
RenameDirectory_removes(h) ==
    /\ At(h, "rename")
    /\ Found(h)
    /\ dir' = [dir EXCEPT ![Of(h)] = NoDirectory]
    /\ Goto(h, "ok")
    /\ UNCHANGED <<claim, volumes, marked, readable, tasks, faults>>

\* The marker of an earlier deletion may be in the way; rename(2) replaces it
\* when it is empty.
RenameDirectory(h) ==
    /\ At(h, "rename")
    /\ Found(h)
    /\ \/ /\ dir' = [dir EXCEPT ![Of(h)] = NoDirectory]
          /\ marked' = [marked EXCEPT ![Home[Of(h)]] = @ \cup {Of(h)}]
          /\ \/ Goto(h, "ok") /\ UNCHANGED faults
             \/ Goto(h, "failed") /\ Fault("lost")
       \/ /\ IsMarked(Of(h))
          /\ Goto(h, "failed")
          /\ UNCHANGED <<dir, marked, faults>>
    /\ UNCHANGED <<claim, volumes, readable, tasks>>

\* Mutant: ENOENT is an error like any other.
RenameMissing_fails(h) == At(h, "rename") /\ ~Found(h) /\ Looks(h, "failed")

\* ENOENT counts as success.
RenameMissing(h) == At(h, "rename") /\ ~Found(h) /\ Looks(h, "ok")

\* Mutant: the task is restricted to another volume.
CreateTask_other_volume(h) == At(h, "task") /\ Looks(h, "ok")

CreateTask(h) ==
    /\ At(h, "task")
    /\ tasks' = tasks \cup {Of(h)}
    /\ \/ Goto(h, "ok") /\ UNCHANGED faults
       \/ Goto(h, "failed") /\ Fault("lost")
    /\ UNCHANGED <<claim, volumes, dir, marked, readable>>

\* The backend runs a task: the subdirectory goes with what is in it.
RunTask(c) ==
    /\ c \in tasks
    /\ tasks' = tasks \ {c}
    /\ dir' = [dir EXCEPT ![c] = NoDirectory]
    /\ UNCHANGED <<claim, handler, volumes, marked, readable, faults>>

-----------------------------------------------------------------------------
(* Answers and callers, as in DedicatedVolumes.                            *)

Answer(h, op, pc, settled) ==
    /\ handler[h].op = op
    /\ handler[h].pc = pc
    /\ handler[h].awaited
    /\ handler' = [handler EXCEPT ![h] = Idle]
    /\ claim' = [claim EXCEPT ![Of(h)] = settled]
    /\ UNCHANGED <<storage, faults>>

CreateSucceeded(h) ==
    LET c == claim[Of(h)]
    IN  Answer(h, "create", "ok",
          [c EXCEPT !.phase = IF c.wanted THEN "bound" ELSE "deleting", !.background = FALSE])

CreateFailed(h) ==
    LET c == claim[Of(h)]
    IN  Answer(h, "create", "failed",
          [c EXCEPT !.phase = IF c.wanted THEN "pending" ELSE "abandoned",
                    !.background = FALSE])

DeleteSucceeded(h) ==
    Answer(h, "delete", "ok", [claim[Of(h)] EXCEPT !.phase = "deleted"])

RetryLater(h) == Answer(h, "delete", "failed", claim[Of(h)])

AnswerUnheard(h) ==
    /\ handler[h].pc \in {"ok", "failed"}
    /\ ~handler[h].awaited
    /\ handler' = [handler EXCEPT ![h] = Idle]
    /\ UNCHANGED <<claim, storage, faults>>

HandlerStep(h) ==
    \/ CallFails(h)
    \/ CreateSharedVolume(h)
    \/ StatDirectory(h)
    \/ MakeDirectory(h)
    \/ ChangeMode(h)
    \/ ChangeOwner(h)
    \/ RenameDirectory(h)
    \/ RenameMissing(h)
    \/ CreateTask(h)
    \/ CreateSucceeded(h)
    \/ CreateFailed(h)
    \/ DeleteSucceeded(h)
    \/ RetryLater(h)
    \/ AnswerUnheard(h)

Call(op, pc, c) ==
    /\ ~Awaiting(c, {"create", "delete"})
    /\ \E h \in Handlers :
         /\ ~Busy(h)
         /\ \A i \in Handlers : ~Busy(i) => h <= i
         /\ handler' = [handler EXCEPT ![h] =
              [pc |-> pc, op |-> op, claim |-> c, awaited |-> TRUE]]
    /\ UNCHANGED <<claim, storage, faults>>

CreateVolume(c) ==
    /\ claim[c].phase = "pending"
    /\ claim[c].wanted \/ claim[c].background
    /\ Call("create", "create", c)

DeleteVolume(c) ==
    /\ claim[c].phase = "deleting"
    /\ Call("delete", IF UseDeleteFilesTask THEN "task" ELSE "rename", c)

CallerStep(c) == CreateVolume(c) \/ DeleteVolume(c)

DeleteClaim(c) ==
    /\ claim[c].wanted
    /\ claim' = [claim EXCEPT ![c].wanted = FALSE, ![c].phase =
          CASE @ = "bound" -> "deleting"
            [] @ = "pending" /\ ~claim[c].background /\ ~Awaiting(c, {"create"}) ->
                 "abandoned"
            [] OTHER -> @]
    /\ UNCHANGED <<handler, storage, faults>>

PodWrites(c) ==
    /\ claim[c].phase = "bound"
    /\ Exists(c)
    /\ dir' = [dir EXCEPT ![c].data = TRUE]
    /\ UNCHANGED <<claim, handler, volumes, marked, readable, tasks, faults>>

UserStep(c) == DeleteClaim(c) \/ PodWrites(c)

CallTimesOut(h) ==
    /\ Busy(h)
    /\ handler[h].awaited
    /\ Fault("timeout")
    /\ handler' = [handler EXCEPT ![h].awaited = FALSE]
    /\ claim' = [claim EXCEPT ![Of(h)].background = @ \/ handler[h].op = "create"]
    /\ UNCHANGED storage

\* What the death of the controller process does to handlers and callers.
HandlersDie ==
    /\ handler' = [h \in Handlers |-> Idle]
    /\ claim' = [c \in Claims |->
          [claim[c] EXCEPT !.background = @ \/ Awaiting(c, {"create"})]]

ControllerCrash ==
    /\ \E h \in Handlers : Busy(h)
    /\ Fault("crash")
    /\ HandlersDie
    /\ UNCHANGED storage

\* The client mount loses a volume, and shows it again.
Unmount(v) ==
    /\ v \in readable
    /\ Fault("unmount")
    /\ readable' = readable \ {v}
    /\ UNCHANGED <<claim, handler, volumes, dir, marked, tasks>>

Remount(v) ==
    /\ v \in volumes \ readable
    /\ readable' = readable \cup {v}
    /\ UNCHANGED <<claim, handler, volumes, dir, marked, tasks, faults>>

-----------------------------------------------------------------------------

Init ==
    /\ claim = [c \in Claims |->
         [phase |-> "pending", wanted |-> TRUE, background |-> FALSE]]
    /\ handler = [h \in Handlers |-> Idle]
    /\ volumes = Preexisting
    /\ dir = [c \in Claims |-> NoDirectory]
    /\ marked = [v \in Volumes |-> {}]
    /\ readable = Preexisting
    /\ tasks = {}
    /\ faults = 0

Next ==
    \/ \E h \in Handlers : HandlerStep(h) \/ CallTimesOut(h)
    \/ \E c \in Claims : CallerStep(c) \/ UserStep(c) \/ RunTask(c)
    \/ \E v \in Volumes : Unmount(v) \/ Remount(v)
    \/ ControllerCrash

\* Goroutines run, callers retry, the backend runs its tasks, and a lost mount
\* comes back.
Fairness ==
    /\ \A h \in Handlers : WF_vars(HandlerStep(h))
    /\ \A c \in Claims : WF_vars(CallerStep(c)) /\ WF_vars(RunTask(c))
    /\ \A v \in Volumes : WF_vars(Remount(v))

Spec == Init /\ [][Next]_vars

FairSpec == Spec /\ Fairness

-----------------------------------------------------------------------------
(* Properties.                                                             *)

\* A bound claim has its subdirectory, whatever handlers of earlier attempts still
\* run and whatever else is deleted in the same shared volume.
BoundHasDirectory ==
    \A c \in Claims : claim[c].phase = "bound" => Exists(c)

\* "After the claim is gone the subdirectory is no longer under its own name"
\* (e2e-tests/sanity/shared_volume_cleanup/shared_volume_cleanup_test.go:36-38).
DeletedIsGone ==
    ~UseDeleteFilesTask => \A c \in Claims : claim[c].phase = "deleted" => ~Exists(c)

\* "The rename moved the directory, it did not empty it" (the same test, 178):
\* a subdirectory goes only while its claim is deleted, and leaves its marker.
DeletionMarks ==
    [][\A c \in Claims :
         Exists(c) /\ ~Exists(c)' =>
            /\ claim[c].phase \in {"deleting", "deleted"}
            /\ ~UseDeleteFilesTask => IsMarked(c)']_vars

\* Retrying provisions and deletes, whatever failed before, once nothing fails any more.
WantedClaimIsBound ==
    \A c \in Claims :
        claim[c].phase = "pending" ~> claim[c].phase # "pending" \/ ~claim[c].wanted

DeletionEnds ==
    \A c \in Claims : claim[c].phase = "deleting" ~> claim[c].phase = "deleted" /\ ~Exists(c)
=============================================================================
