-------------------------- MODULE DirectoryDeleter --------------------------
(***************************************************************************)
(* The sweep of shared volumes: in every controller process one goroutine  *)
(* walks the volumes of --shared_volumes_list and queues the delete        *)
(* markers it finds on a channel of parallelDeletes places, from which     *)
(* parallelDeletes workers remove them (LaunchDirectoryDeleter).           *)
(*                                                                         *)
(* The processes share nothing but the volumes.  Markers come from         *)
(* DeleteVolume, here an action of the environment; SharedVolumeSystem     *)
(* puts SharedVolumes in its place.                                        *)
(***************************************************************************)
EXTENDS Integers, Sequences

CONSTANTS
    Volumes,       \* the shared volumes
    SweepList,     \* --shared_volumes_list, in its order
    Existing,      \* the volumes that the backend has
    Markers,       \* names of delete markers
    Collectable,   \* those that begin with <driverName>_delete_pvc-
    Processes,     \* the controller processes
    Workers,       \* the deletion workers of a process, --parallel_deletions of them
    Capacity,      \* places of the channel, --parallel_deletions too
    CleanMountPath, \* --quobyte_mount_path is written as filepath.Join would write it
    SweepFaults,   \* the faults of the environment that may happen
    MaxFaults      \* bound: how many of them happen in one behaviour

\* A configured name that is empty once it is trimmed.
Blank == ""

Listed == {SweepList[i] : i \in DOMAIN SweepList} \ {Blank}

\* Splitting the flag at the commas gives one name at least.
ASSUME DirectoryDeleterAssumption ==
    /\ SweepList \in Seq(Volumes \cup {Blank}) /\ SweepList # <<>> /\ Blank \notin Volumes
    /\ Existing \subseteq Volumes
    /\ Collectable \subseteq Markers
    /\ Capacity \in Nat \ {0} /\ CleanMountPath \in BOOLEAN
    /\ SweepFaults \subseteq {"partial", "remove", "restart", "unmount"}
    /\ MaxFaults \in Nat

VARIABLES
    marked,    \* the delete markers in each volume
    readable,  \* the volumes that the client mount shows
    walker,    \* walkAndQueueDirectories of each process
    channel,   \* directoryChannel of each process
    worker,    \* what each deletionWorker is removing
    faults     \* how many faults happened

process == <<walker, channel, worker>>
vars == <<marked, readable, process, faults>>

Directory == Volumes \X Markers

\* A worker that waits for the channel.
Waiting == <<>>

Asleep == [pc |-> "asleep", at |-> 1, left |-> {}]

\* The volume that the walker of a process is at.
At(p) == SweepList[walker[p].at]

TypeOK ==
    /\ marked \in [Volumes -> SUBSET Markers]
    /\ readable \in SUBSET Volumes
    /\ walker \in [Processes -> [pc : {"asleep", "open", "queue"},
                                 at : DOMAIN SweepList,
                                 left : SUBSET Collectable]]
    /\ \A p \in Processes : walker[p].pc # "asleep" => At(p) \in Volumes
    /\ channel \in [Processes -> Seq(Directory)]
    /\ \A p \in Processes : Len(channel[p]) <= Capacity
    /\ worker \in [Processes -> [Workers -> Directory \cup {Waiting}]]
    /\ faults \in 0 .. MaxFaults

Fault(kind) ==
    /\ kind \in SweepFaults
    /\ faults < MaxFaults
    /\ faults' = faults + 1

-----------------------------------------------------------------------------
(* The walker.                                                             *)

NamedFrom(i) == {j \in DOMAIN SweepList : j >= i /\ SweepList[j] # Blank}

\* The walk goes on at the first place from i on that has a name, or ends.
WalkFrom(p, i) ==
    \/ NamedFrom(i) = {} /\ walker' = [walker EXCEPT ![p] = Asleep]
    \/ \E j \in NamedFrom(i) :
         /\ \A k \in NamedFrom(i) : j <= k
         /\ walker' = [walker EXCEPT ![p] = [pc |-> "open", at |-> j, left |-> {}]]

Wake(p) ==
    /\ walker[p].pc = "asleep"
    /\ WalkFrom(p, 1)
    /\ UNCHANGED <<marked, readable, channel, worker, faults>>

\* Mutant: the prefix that is looked for ends after the driver's name.
Collected_all_markers(v) == marked[v]

\* Mutant: the sweep is launched with the name of the node, the markers have the driver's.
Collected_node_name(v) == {}

Collected(v) == marked[v] \cap Collectable

\* Open and Readdirnames; after an error in the middle, what was read is used.
ReadVolume(p) ==
    /\ walker[p].pc = "open"
    /\ At(p) \in readable
    /\ \E read \in SUBSET Collected(At(p)) :
         /\ walker' = [walker EXCEPT ![p].pc = "queue", ![p].left = read]
         /\ \/ read = Collected(At(p)) /\ UNCHANGED faults
            \/ read # Collected(At(p)) /\ Fault("partial")
    /\ UNCHANGED <<marked, readable, channel, worker>>

\* Mutant: the channel has no end.
Enqueue_unbounded(p) ==
    /\ walker[p].pc = "queue"
    /\ Len(channel[p]) <= Capacity
    /\ \E m \in walker[p].left :
         /\ channel' = [channel EXCEPT ![p] = Append(@, <<At(p), m>>)]
         /\ walker' = [walker EXCEPT ![p].left = @ \ {m}]
    /\ UNCHANGED <<marked, readable, worker, faults>>

\* The walker blocks while the channel is full.
Enqueue(p) ==
    /\ walker[p].pc = "queue"
    /\ Len(channel[p]) < Capacity
    /\ \E m \in walker[p].left :
         /\ channel' = [channel EXCEPT ![p] = Append(@, <<At(p), m>>)]
         /\ walker' = [walker EXCEPT ![p].left = @ \ {m}]
    /\ UNCHANGED <<marked, readable, worker, faults>>

\* Mutant: the walk ends after one volume.
NextVolume_ends(p) ==
    /\ walker[p].pc = "queue"
    /\ walker[p].left = {}
    /\ walker' = [walker EXCEPT ![p] = Asleep]
    /\ UNCHANGED <<marked, readable, channel, worker, faults>>

NextVolume(p) ==
    /\ walker[p].pc = "queue"
    /\ walker[p].left = {}
    /\ WalkFrom(p, walker[p].at + 1)
    /\ UNCHANGED <<marked, readable, channel, worker, faults>>

\* The process starts over: LaunchDirectoryDeleter makes a new channel.
Restarted(p) ==
    /\ walker' = [walker EXCEPT ![p] = Asleep]
    /\ channel' = [channel EXCEPT ![p] = <<>>]
    /\ worker' = [worker EXCEPT ![p] = [w \in Workers |-> Waiting]]

\* Open failed: the error is logged with the name of the file that is not there,
\* volumePath.Name() of a nil *os.File, and the panic ends the process.
Panic(p) ==
    /\ walker[p].pc = "open"
    /\ At(p) \notin readable
    /\ Restarted(p)
    /\ UNCHANGED <<marked, readable, faults>>

WalkerStep(p) ==
    Wake(p) \/ ReadVolume(p) \/ Enqueue(p) \/ NextVolume(p) \/ Panic(p)

-----------------------------------------------------------------------------
(* The workers.                                                            *)

Take(p, w) ==
    /\ worker[p][w] = Waiting
    /\ channel[p] # <<>>
    /\ worker' = [worker EXCEPT ![p][w] = Head(channel[p])]
    /\ channel' = [channel EXCEPT ![p] = Tail(@)]
    /\ UNCHANGED <<marked, readable, walker, faults>>

\* RemoveAll; its error is ignored, and a path that is not there is no error.  The path has the
\* prefix that the worker wants to see if filepath.Join left the mount path as it was.
Remove(p, w) ==
    /\ worker[p][w] # Waiting
    /\ LET v == worker[p][w][1]
           m == worker[p][w][2]
       IN  \/ /\ marked' = IF CleanMountPath /\ v \in readable
                            THEN [marked EXCEPT ![v] = @ \ {m}] ELSE marked
              /\ UNCHANGED faults
           \/ Fault("remove") /\ UNCHANGED marked
    /\ worker' = [worker EXCEPT ![p][w] = Waiting]
    /\ UNCHANGED <<readable, walker, channel>>

WorkerStep(p, w) == Take(p, w) \/ Remove(p, w)

-----------------------------------------------------------------------------
(* The environment.                                                        *)

Restart(p) ==
    /\ walker[p].pc # "asleep" \/ channel[p] # <<>> \/ \E w \in Workers : worker[p][w] # Waiting
    /\ Fault("restart")
    /\ Restarted(p)
    /\ UNCHANGED <<marked, readable>>

\* DeleteVolume of this driver, or of another one, renames a subdirectory.
Mark(v, m) ==
    /\ v \in readable
    /\ m \notin marked[v]
    /\ marked' = [marked EXCEPT ![v] = @ \cup {m}]
    /\ UNCHANGED <<readable, process, faults>>

Unmount(v) ==
    /\ v \in readable
    /\ Fault("unmount")
    /\ readable' = readable \ {v}
    /\ UNCHANGED <<marked, process>>

Remount(v) ==
    /\ v \in Existing \ readable
    /\ readable' = readable \cup {v}
    /\ UNCHANGED <<marked, process, faults>>

-----------------------------------------------------------------------------

Init ==
    /\ marked = [v \in Volumes |-> {}]
    /\ readable = Existing
    /\ walker = [p \in Processes |-> Asleep]
    /\ channel = [p \in Processes |-> <<>>]
    /\ worker = [p \in Processes |-> [w \in Workers |-> Waiting]]
    /\ faults = 0

Next ==
    \/ \E p \in Processes :
         \/ WalkerStep(p)
         \/ Restart(p)
         \/ \E w \in Workers : WorkerStep(p, w)
    \/ \E v \in Volumes :
         \/ Unmount(v)
         \/ Remount(v)
         \/ \E m \in Markers : Mark(v, m)

\* Goroutines run, and the client mount shows again a volume that it lost.
Fairness ==
    /\ \A p \in Processes : WF_vars(WalkerStep(p))
    /\ \A p \in Processes, w \in Workers : WF_vars(WorkerStep(p, w))
    /\ \A v \in Volumes : WF_vars(Remount(v))

Spec == Init /\ [][Next]_vars

FairSpec == Spec /\ Fairness

-----------------------------------------------------------------------------
(* Properties.                                                             *)

\* The "active controller cleans up its own <driverName>_delete_pvc-...." (main.go:75-76):
\* nothing else is removed, whatever was queued and renamed in the meantime.
OnlyOwnMarkersGo ==
    [][\A v \in Volumes : marked[v] \ marked'[v] \subseteq Collectable]_vars

\* Every marker that the sweep is to collect goes in the end, in each of the listed
\* volumes, with the channel full, directories read in part and workers that fail.
MarkersGo ==
    \A v \in Listed, m \in Collectable : m \in marked[v] ~> m \notin marked[v]

\* A volume that cannot be read is logged, and the walk goes on with the next one
\* (shared_volume_directory_deleter.go:48-49): it does not keep the markers of a volume
\* that can.
ReadableVolumesAreSwept ==
    \A v \in Listed, m \in Collectable :
        m \in marked[v] ~> m \notin marked[v] \/ v \notin readable
=============================================================================
