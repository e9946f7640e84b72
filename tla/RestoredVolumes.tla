--------------------------- MODULE RestoredVolumes ---------------------------
(***************************************************************************)
(* Snapshots at the controller and the pods of one node that use the       *)
(* claims restored from them: what CreateSnapshot wrote into the snapshot  *)
(* id, CreateVolume carried into the PV's volume context and                *)
(* NodePublishVolume took apart again has to lead the pod to the files as   *)
(* they were.  Controller and node driver are different processes.         *)
(***************************************************************************)
EXTENDS Snapshots

CONSTANTS
    Targets, KeyOf, WithUser, WithOptions, AccessKeyMounts, Contexts, CallsOf, NodeFaults,
    ClaimOf,         \* the restored claim that each target publishes
    Subdirectories   \* the directories at the root of every volume

VARIABLES pod, call, stack, contexts

\* A target publishes what its claim is bound to.
PublishedVolume == [t \in Targets |-> restore[ClaimOf[t]].pv]

Roots == {[root |-> v, below |-> <<>>] : v \in Volumes} \cup
         {[root |-> x.vol, below |-> <<snapshotsDir, x.name>>] : x \in shots}

\* The directories that the client mount shows.
ClientTrees ==
    Roots \cup {[p EXCEPT !.below = Append(@, sub)] : p \in Roots, sub \in Subdirectories}

Node == INSTANCE NodeMounts WITH volume <- PublishedVolume, trees <- ClientTrees

ASSUME NodeConstants == Node!NodeAssumption /\ ClaimOf \in [Targets -> Restores]

\* Snapshots have names, and the administrator's ids name the subdirectory that the snapshot was
\* taken of.
ASSUME IdsAssumption ==
    /\ NoPart \notin Snaps
    /\ \A s \in Preprovisioned :
         /\ GivenId[s][3] # NoPart
         /\ SubdirectoryOf(HandleInSnapshot(GivenId[s])) = SubdirectoryOf(SourceHandle[s])

controllerVars == <<snap, restore, handler, shots, content>>

nodeVars == <<pod, call, stack, contexts>>

systemVars == <<controllerVars, faults, nodeVars>>

SystemTypeOK == TypeOK /\ Node!NodeTypeOK

SystemInit == Init /\ Node!NodeInit

\* A claim that a pod uses is not deleted: Kubernetes' pvc-protection.
PvcProtected(r) == \E t \in Targets : ClaimOf[t] = r /\ pod[t].phase # "gone"

ControllerStep ==
    \/ \E h \in Handlers : HandlerStep(h) \/ CallTimesOut(h)
    \/ \E s \in Snaps : CallerStep(s) \/ DeleteVolumeSnapshot(s)
    \/ \E r \in Restores : RestoreClaim(r) \/ (~PvcProtected(r) /\ DeleteRestoredClaim(r))
    \/ \E v \in Volumes : ChangeFiles(v)
    \/ ControllerCrash

SystemNext ==
    \/ ControllerStep /\ UNCHANGED nodeVars
    \/ Node!NodeNext /\ UNCHANGED controllerVars

SystemSpec ==
    /\ SystemInit /\ [][SystemNext]_systemVars
    /\ Fairness /\ Node!NodeFairness

-----------------------------------------------------------------------------
(* Properties.                                                             *)

Source(t) == From[ClaimOf[t]]

\* The state of the files that a mount shows; none when its snapshot is gone.
Reads(mount) ==
    IF Len(mount.path.below) >= 2 /\ mount.path.below[1] = snapshotsDir
    THEN {x.content : x \in {y \in shots : y.vol = mount.path.root /\ y.name = mount.path.below[2]}}
    ELSE {content[mount.path.root]}

\* A pod on a restored claim reads the files as they were when the snapshot became ready,
\* never later changes of the volume, through retries of CreateSnapshot, of publishing, and
\* restarts (controller.go:418, 219; node.go:97-148).  Unless the VolumeSnapshot was deleted
\* while a CreateSnapshot that the caller gave up was still to run, which takes a new one.
\* And it reads the subdirectory that the snapshot was taken of, but for one exception: the id
\* that CreateSnapshot makes drops it, as a TODO says (controller.go:417-418).
RestoredShowsSource ==
    \A t \in Targets : pod[t].phase = "published" =>
        LET s == snap[Source(t)]
            sub == SubdirectoryOf(SourceHandle[Source(t)])
            below == Node!Top(t).path.below
        IN  /\ Node!Mounted(t)
            /\ s.phase = "ready" \/ ~s.stale => \A files \in Reads(Node!Top(t)) : files <= s.upTo
            /\ sub = NoPart \/ Source(t) \notin Preprovisioned \/ below[Len(below)] = sub

MountUsesOwnKey == Node!MountUsesOwnKey
UnpublishedIsUnmounted == Node!UnpublishedIsUnmounted
TargetsSettle == Node!TargetsSettle
=============================================================================
