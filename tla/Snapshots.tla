------------------------------ MODULE Snapshots ------------------------------
(***************************************************************************)
(* Snapshots: CreateSnapshot, DeleteSnapshot and ListSnapshots of          *)
(* src/driver/controller.go, and what CreateVolume and DeleteVolume do     *)
(* with a claim that is restored from one.                                 *)
(*                                                                         *)
(* Restoring creates nothing in the backend: the claim's PV carries the    *)
(* snapshot id, and the node mounts the snapshot inside the volume it was  *)
(* taken of.  Deleting such a PV removes nothing; only deleting the        *)
(* VolumeSnapshot does.                                                    *)
(*                                                                         *)
(* As in DedicatedVolumes, handlers run on when their caller gives up.     *)
(* The look-ups of tenant and volume, which change nothing, are part of    *)
(* the call that follows them.                                             *)
(***************************************************************************)
EXTENDS Handles, FiniteSets

CONSTANTS
    Snaps,           \* the VolumeSnapshots; a dynamic one also names its snapshot
    SourceHandle,    \* the volume handle that each snapshot is taken of
    GivenId,         \* the ids of pre-provisioned snapshots, written by the administrator
    TenantUuid,      \* the UUID of each tenant, and of its name
    UuidOf,          \* the UUID of each volume, and of its name
    Restores,        \* the claims restored from a snapshot
    From,            \* the snapshot of each
    HandlersOf,      \* bound: slots for the goroutines that serve calls for each snapshot
    MaxContent,      \* bound: how often the files of a volume change
    DeleteOfMissing, \* may the API's answer to deleting an unknown snapshot be success
    ShorterIdIsIt,   \* may the caller take a listed id without the subdirectory for its own
    Retained,        \* the snapshots whose deletion policy keeps them
    FaultKinds,      \* the faults of the environment that may happen
    MaxFaults        \* bound: how many of them happen in one behaviour

Preprovisioned == DOMAIN GivenId

Volumes == {UuidOf[part] : part \in DOMAIN UuidOf}

Handlers == UNION {HandlersOf[s] : s \in Snaps}

ASSUME SnapshotsAssumption ==
    /\ SourceHandle \in [Snaps -> Seq(STRING)] /\ GivenId \in [Preprovisioned -> Seq(STRING)]
    /\ Preprovisioned \subseteq Snaps /\ Retained \subseteq Snaps
    /\ \A s \in Snaps :
         /\ IsHandle(SourceHandle[s])
         /\ SourceHandle[s][1] \in DOMAIN TenantUuid /\ SourceHandle[s][2] \in DOMAIN UuidOf
    /\ \A s \in Preprovisioned : IsSnapshotId(GivenId[s]) /\ GivenId[s][2] \in DOMAIN UuidOf
    /\ From \in [Restores -> Snaps]
    /\ Handlers \subseteq Nat /\ MaxContent \in Nat /\ MaxFaults \in Nat
    /\ DeleteOfMissing \subseteq BOOLEAN /\ ShorterIdIsIt \subseteq BOOLEAN
    /\ FaultKinds \subseteq {"api", "lost", "timeout", "crash"}

VARIABLES
    snap,     \* what Kubernetes knows of each VolumeSnapshot
    restore,  \* and of each restored claim
    handler,  \* the gRPC handlers of the controller
    shots,    \* the snapshots the backend has
    content,  \* how often the files of each volume changed
    faults    \* how many faults happened

vars == <<snap, restore, handler, shots, content, faults>>

SnapRecord ==
    [phase : {"wanted", "ready", "deleting", "deleted"}, id : Seq(STRING),
     stale : BOOLEAN,             \* the caller gave up a call for it
     upTo : 0 .. MaxContent]      \* the content when it became ready

RestoreRecord == [phase : {"pending", "bound", "deleted"},
                  pv : [dummy : BOOLEAN, handle : Seq(STRING), id : Seq(STRING)]]

HandlerRecord ==
    [pc : {"idle", "create", "delete", "list"}, snap : Snaps, awaited : BOOLEAN]

TypeOK ==
    /\ snap \in [Snaps -> SnapRecord]
    /\ restore \in [Restores -> RestoreRecord]
    /\ handler \in [Handlers -> HandlerRecord]
    /\ shots \subseteq [vol : Volumes, name : STRING, content : 0 .. MaxContent]
    /\ content \in [Volumes -> 0 .. MaxContent]
    /\ faults \in 0 .. MaxFaults

-----------------------------------------------------------------------------

VolumeOf(s) == UuidOf[SourceHandle[s][2]]

\* The snapshots that an id names.
Named(id) == {x \in shots : IsSnapshotId(id) /\ x.vol = UuidOf[id[2]] /\ x.name = id[3]}

\* The id of s once CreateSnapshot answers it.
IdOf(s) == SnapshotIdOf(TenantUuid[SourceHandle[s][1]], VolumeOf(s), s)

\* Names are strings, a UUID names its own volume, and no two VolumeSnapshots name one snapshot.
ASSUME NamesAssumption ==
    /\ Snaps \subseteq STRING /\ UuidOf \in [DOMAIN UuidOf -> STRING]
    /\ TenantUuid \in [DOMAIN TenantUuid -> STRING]
    /\ \A v \in Volumes : v \in DOMAIN UuidOf /\ UuidOf[v] = v
    /\ \A s \in Preprovisioned :
         /\ UuidOf[GivenId[s][2]] = VolumeOf(s)
         /\ \A r \in Snaps \ {s} : VolumeOf(r) = VolumeOf(s) =>
              GivenId[s][3] # IF r \in Preprovisioned THEN GivenId[r][3] ELSE r

Fault(kind) ==
    /\ kind \in FaultKinds
    /\ faults < MaxFaults
    /\ faults' = faults + 1

Idle == [pc |-> "idle", snap |-> CHOOSE s \in Snaps : TRUE, awaited |-> FALSE]

Busy(h) == handler[h].pc # "idle"

Awaiting(s) == \E h \in Handlers : Busy(h) /\ handler[h].awaited /\ handler[h].snap = s

\* What the caller makes of an answer.
Heard(h, success) ==
    LET s == handler[h].snap
        become == IF handler[h].pc = "delete" THEN "deleted" ELSE "ready"
    IN  IF success /\ snap[s].phase # become
        THEN [snap EXCEPT
                ![s].phase = become,
                ![s].id = IF handler[h].pc = "create" THEN IdOf(s) ELSE @,
                ![s].upTo = IF become = "ready" THEN content[VolumeOf(s)] ELSE @]
        ELSE snap

\* The handler returns; its answer may be lost, or nobody waits for it any more.
Return(h, success) ==
    /\ handler' = [handler EXCEPT ![h] = Idle]
    /\ \/ snap' = (IF handler[h].awaited THEN Heard(h, success) ELSE snap) /\ UNCHANGED faults
       \/ handler[h].awaited /\ Fault("lost") /\ UNCHANGED snap

-----------------------------------------------------------------------------
(* Handler steps.                                                          *)

ApiCallFails(h) ==
    /\ Busy(h)
    /\ Fault("api")
    /\ handler' = [handler EXCEPT ![h] = Idle]
    /\ UNCHANGED <<snap, restore, shots, content>>

\* Mutant: a retry takes the snapshot anew.
TakeSnapshot_again(h) ==
    LET s == handler[h].snap
    IN  /\ handler[h].pc = "create"
        /\ shots' = (shots \ Named(IdOf(s))) \cup
              {[vol |-> VolumeOf(s), name |-> s, content |-> content[VolumeOf(s)]]}
        /\ Return(h, TRUE)
        /\ UNCHANGED <<restore, content>>

\* ENTITY_EXISTS_ALREADY is success: the snapshot of an earlier attempt stays.
TakeSnapshot(h) ==
    LET s == handler[h].snap
    IN  /\ handler[h].pc = "create"
        /\ shots' = IF Named(IdOf(s)) # {} THEN shots
                    ELSE shots \cup
                         {[vol |-> VolumeOf(s), name |-> s, content |-> content[VolumeOf(s)]]}
        /\ Return(h, TRUE)
        /\ UNCHANGED <<restore, content>>

\* Mutant: the snapshot is deleted by its name in every volume, as if it named itself.
RemoveSnapshot_of_volume(h) ==
    LET id == snap[handler[h].snap].id
    IN  /\ handler[h].pc = "delete"
        /\ shots' = {x \in shots : x.vol # UuidOf[id[2]]}
        /\ Return(h, TRUE)
        /\ UNCHANGED <<restore, content>>

\* A snapshot that is gone is the API's to judge; its verdict is passed on.
RemoveSnapshot(h) ==
    LET gone == Named(snap[handler[h].snap].id)
    IN  /\ handler[h].pc = "delete"
        /\ shots' = shots \ gone
        /\ \E success \in IF gone # {} THEN {TRUE} ELSE DeleteOfMissing : Return(h, success)
        /\ UNCHANGED <<restore, content>>

\* Mutant: the listed ids are built from the volume's UUID.
ListedIds_uuids(id) == {<<id[1], x.vol, x.name>> : x \in {y \in shots : y.vol = UuidOf[id[2]]}}

\* "Important we use tenant and volume from req.SnapshotId to match the snapshot id".
ListedIds(id) == {<<id[1], id[2], x.name>> : x \in {y \in shots : y.vol = UuidOf[id[2]]}}

\* ListSnapshots answers ids of three parts, also to a caller that asked for one of four: a
\* subdirectory that the administrator appended is in none of them.
Unlisted(id) == Len(id) = 4

\* The caller looks for the id it asked for among those of the volume.  What it makes of one
\* that lacks only the subdirectory is for the caller to say.
ListVolumeSnapshots(h) ==
    LET id == snap[handler[h].snap].id
        found == IF id \in ListedIds(id) THEN {TRUE}
                 ELSE IF Unlisted(id) /\ SubSeq(id, 1, 3) \in ListedIds(id) THEN ShorterIdIsIt
                 ELSE {FALSE}
    IN  /\ handler[h].pc = "list"
        /\ \E success \in found : Return(h, success)
        /\ UNCHANGED <<restore, shots, content>>

-----------------------------------------------------------------------------
(* The callers: the external-snapshotter, one call per VolumeSnapshot.     *)

Call(op, s) ==
    /\ ~Awaiting(s)
    /\ \E h \in HandlersOf[s] :
         /\ ~Busy(h) /\ \A i \in HandlersOf[s] : ~Busy(i) => h <= i
         /\ handler' = [handler EXCEPT ![h] = [pc |-> op, snap |-> s, awaited |-> TRUE]]
    /\ UNCHANGED <<snap, restore, shots, content, faults>>

CreateSnapshot(s) == s \notin Preprovisioned /\ snap[s].phase = "wanted" /\ Call("create", s)

ListSnapshots(s) == s \in Preprovisioned /\ snap[s].phase = "wanted" /\ Call("list", s)

DeleteSnapshot(s) == snap[s].phase = "deleting" /\ Call("delete", s)

CallerStep(s) == CreateSnapshot(s) \/ ListSnapshots(s) \/ DeleteSnapshot(s)

HandlerStep(h) ==
    \/ ApiCallFails(h) \/ TakeSnapshot(h) \/ RemoveSnapshot(h) \/ ListVolumeSnapshots(h)

\* The caller gives up a call, whose handler runs on.
CallTimesOut(h) ==
    /\ Busy(h) /\ handler[h].awaited
    /\ Fault("timeout")
    /\ handler' = [handler EXCEPT ![h].awaited = FALSE]
    /\ snap' = [snap EXCEPT ![handler[h].snap].stale = TRUE]
    /\ UNCHANGED <<restore, shots, content>>

ControllerCrash ==
    /\ \E h \in Handlers : Busy(h)
    /\ Fault("crash")
    /\ handler' = [h \in Handlers |-> Idle]
    /\ UNCHANGED <<snap, restore, shots, content>>

-----------------------------------------------------------------------------
(* The user.                                                               *)

DeleteVolumeSnapshot(s) ==
    /\ snap[s].phase = "ready" /\ s \notin Retained
    /\ snap' = [snap EXCEPT ![s].phase = "deleting"]
    /\ UNCHANGED <<restore, handler, shots, content, faults>>

\* CreateVolume with a snapshot as content source: it calls nothing and cannot fail.
RestoreClaim(r) ==
    /\ restore[r].phase = "pending"
    /\ snap[From[r]].phase = "ready"
    /\ restore' = [restore EXCEPT ![r] =
          [phase |-> "bound", pv |-> CreateSnapshotResponse(snap[From[r]].id)]]
    /\ UNCHANGED <<snap, handler, shots, content, faults>>

\* DeleteVolume of a handle with SnapshotVolumeHandlePrefix removes nothing.
DeleteRestoredClaim(r) ==
    /\ restore[r].phase = "bound"
    /\ restore' = [restore EXCEPT ![r].phase = "deleted"]
    /\ UNCHANGED <<snap, handler, shots, content, faults>>

\* Pods change the files of a volume.
ChangeFiles(v) ==
    /\ content[v] < MaxContent
    /\ content' = [content EXCEPT ![v] = @ + 1]
    /\ UNCHANGED <<snap, restore, handler, shots, faults>>

UserStep ==
    \/ \E s \in Snaps : DeleteVolumeSnapshot(s)
    \/ \E r \in Restores : RestoreClaim(r) \/ DeleteRestoredClaim(r)
    \/ \E v \in Volumes : ChangeFiles(v)

-----------------------------------------------------------------------------

NoPv == PlainVolume(<<>>)

Init ==
    /\ snap = [s \in Snaps |-> [phase |-> "wanted", stale |-> FALSE, upTo |-> 0,
                                id |-> IF s \in Preprovisioned THEN GivenId[s] ELSE <<>>]]
    /\ restore = [r \in Restores |-> [phase |-> "pending", pv |-> NoPv]]
    /\ handler = [h \in Handlers |-> Idle]
    /\ shots = {[vol |-> VolumeOf(s), name |-> GivenId[s][3], content |-> 0] : s \in Preprovisioned}
    /\ content = [v \in Volumes |-> 0]
    /\ faults = 0

Next ==
    \/ \E h \in Handlers : HandlerStep(h) \/ CallTimesOut(h)
    \/ \E s \in Snaps : CallerStep(s)
    \/ UserStep
    \/ ControllerCrash

\* What is done for a snapshot: its goroutines run and the snapshotter retries.
Progress(s) == CallerStep(s) \/ \E h \in Handlers : handler[h].snap = s /\ HandlerStep(h)

Fairness == \A s \in Snaps : WF_vars(Progress(s))

Spec == Init /\ [][Next]_vars

FairSpec == Spec /\ Fairness

-----------------------------------------------------------------------------
(* Properties.                                                             *)

\* A snapshot leaves the backend only when its VolumeSnapshot is deleted: "deleting the
\* VolumeSnapshot removes the snapshot in Quobyte, while deleting the restored PV alone
\* does not" (e2e-tests/sanity/snapshots/snapshots_test.go:27-28), and a retry never
\* takes it anew (the ENTITY_EXISTS_ALREADY path of controller.go:410-415).
SnapshotsStay ==
    [][\A s \in Snaps : snap[s].phase = "ready" => Named(snap[s].id) \subseteq shots']_vars

\* What the driver answered is so.  A snapshot that CreateSnapshot or ListSnapshots answered
\* exists, and later changes of the volume do not reach it; nothing of a deleted
\* VolumeSnapshot is left, unless a CreateSnapshot that the caller gave up was still to run:
\* nothing keeps it from taking the snapshot again (controller.go:410-415, 445-449).
AnswersAreTrue ==
    \A s \in Snaps :
        /\ snap[s].phase = "ready" =>
              \E x \in Named(snap[s].id) : x.vol = VolumeOf(s) /\ x.content <= snap[s].upTo
        /\ snap[s].phase = "deleted" /\ ~snap[s].stale => Named(snap[s].id) = {}

\* Retrying makes every snapshot ready, and removes every deleted one, whatever failed.  Except
\* an administrator's id with a subdirectory: the ids that ListSnapshots builds "to match the
\* snapshot id" (controller.go:480-482) never do, so that snapshot may never become ready.  And
\* the retries of a deletion need not end: once the snapshot is gone, DeleteSnapshot answers
\* what the API does (controller.go:445-448).
SnapshotsSettle ==
    \A s \in Snaps :
        LET unsettled == \/ snap[s].phase = "wanted" /\ ~Unlisted(snap[s].id)
                         \/ snap[s].phase = "deleting" /\ Named(snap[s].id) # {}
        IN  []<>~unsettled
=============================================================================
