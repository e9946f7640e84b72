------------------------------- MODULE Handles -------------------------------
(***************************************************************************)
(* Volume handles and snapshot ids, and the path they are mounted from.    *)
(*                                                                         *)
(* The code joins and splits them at VOLUME_HANDLE_PART_SEPARATOR: a       *)
(* handle stands here for the sequence of its parts, <<tenant, volume>> or *)
(* <<tenant, volume, subdirectory>>, a snapshot id for <<tenant, volume,   *)
(* name>> with an optional fourth part.  What Kubernetes stores in a       *)
(* PersistentVolume is a record: the handle, whether it carries            *)
(* SnapshotVolumeHandlePrefix, and the snapshot id of the volume context.  *)
(***************************************************************************)
EXTENDS Naturals, Sequences

NoPart == ""

snapshotsDir == ".snapshots"

ASSUME PartsAssumption == {NoPart, snapshotsDir} \subseteq STRING

PlainVolume(handle) == [dummy |-> FALSE, handle |-> handle, id |-> <<>>]

\* The handle that a snapshot id contains.
HandleInSnapshot(id) ==
    IF Len(id) = 4 THEN <<id[1], id[2], id[4]>> ELSE <<id[1], id[2]>>

\* What CreateVolume answers for a snapshot: no volume is created.
CreateSnapshotResponse(id) == [dummy |-> TRUE, handle |-> <<>>, id |-> id]

\* What CreateSnapshot answers; a subdirectory of the source is dropped.
SnapshotIdOf(tenant, volume, name) == <<tenant, volume, name>>

IsSnapshotId(id) == Len(id) >= 3

IsHandle(handle) == Len(handle) >= 2

\* The handle to publish, and the name of the snapshot to publish it at.
HandleOf(pv) == IF pv.dummy THEN HandleInSnapshot(pv.id) ELSE pv.handle

\* Mutant: a volume restored from a snapshot shows the volume itself.
SnapshotNameOf_live(pv) == NoPart

SnapshotNameOf(pv) == IF pv.dummy THEN pv.id[3] ELSE NoPart

SubdirectoryOf(handle) == IF Len(handle) = 2 THEN NoPart ELSE handle[3]

Below(part, names) == IF part = NoPart THEN <<>> ELSE names

\* <client mount>/[context@]uuid[/.snapshots/name][/subdirectory]
FormMountPath(uuid, context, snapshot, subdirectory) ==
    [root |-> uuid, context |-> context,
     below |-> Below(snapshot, <<snapshotsDir, snapshot>>) \o Below(subdirectory, <<subdirectory>>)]
=============================================================================
