----------------------------- MODULE NodeMounts -----------------------------
(***************************************************************************)
(* The node service of src/driver/node.go over src/driver/mounter.go:      *)
(* NodePublishVolume and NodeUnpublishVolume on one node.                  *)
(*                                                                         *)
(* A target path is one volume of one pod.  Publishing binds a directory   *)
(* of the Quobyte client mount onto it; binds stack.  When the client      *)
(* restarts, everything bound from it is dead (ENOTCONN) for good.  With   *)
(* access key mounts the path also names a context, which the client maps  *)
(* to the key that the driver wrote to the client mount before.            *)
(*                                                                         *)
(* What is published, and which paths the client mount shows, comes from   *)
(* the rest of the system: volume and trees are never changed here.        *)
(***************************************************************************)
EXTENDS Handles, FiniteSets

CONSTANTS
    Targets,         \* the target paths
    KeyOf,           \* the access key in the secret of each, or NoPart
    WithUser,        \* the targets whose secret has the API's user and password
    WithOptions,     \* the targets whose PV asks for mount options
    UuidOf,          \* the UUID of each volume, and of its name
    AccessKeyMounts, \* the flag enableAccessKeyMounts
    Contexts,        \* bound: access key contexts in use at a time
    CallsOf,         \* bound: slots for the goroutines that serve calls for each target
    NodeFaults,      \* the faults of the node that may happen
    MaxFaults        \* bound: how many faults happen in one behaviour

Calls == UNION {CallsOf[t] : t \in Targets}

NodeAssumption ==
    /\ KeyOf \in [Targets -> STRING] /\ WithUser \subseteq Targets /\ WithOptions \subseteq Targets
    /\ AccessKeyMounts \in BOOLEAN /\ NoPart \notin Contexts
    /\ Calls \subseteq Nat /\ MaxFaults \in Nat
    /\ NodeFaults \subseteq {"api", "busy", "timeout", "crash", "client"}

VARIABLES
    volume,   \* the PV to publish at each target; its handle is <<>> while there is none
    trees,    \* the directories that the client mount shows, as [root, below]
    pod,      \* what kubelet knows of each target
    call,     \* the gRPC handlers of the node driver
    stack,    \* what is mounted at each target, the last on top
    contexts, \* the access key contexts that the client knows
    faults    \* how many faults happened

nodeVars == <<pod, call, stack, contexts>>

PodRecord == [phase : {"wanted", "published", "deleting", "gone"},
              uncertain : BOOLEAN,   \* kubelet did not learn how a publish ended
              unheard : BOOLEAN]     \* kubelet did not learn how an unpublish ended

CallRecord ==
    [pc : {"idle", "resolve", "context", "bind", "unmount"},
     target : Targets, awaited : BOOLEAN, context : Contexts \cup {NoPart}]

Path == [root : STRING, context : Contexts \cup {NoPart}, below : Seq(STRING)]

NodeTypeOK ==
    /\ pod \in [Targets -> PodRecord]
    /\ call \in [Calls -> CallRecord]
    /\ stack \in [Targets -> Seq([path : Path, live : BOOLEAN])]
    /\ DOMAIN contexts \subseteq Contexts /\ \A x \in DOMAIN contexts : contexts[x] \in STRING

-----------------------------------------------------------------------------

Fault(kind) ==
    /\ kind \in NodeFaults
    /\ faults < MaxFaults
    /\ faults' = faults + 1

Free == [pc |-> "idle", target |-> CHOOSE t \in Targets : TRUE, awaited |-> FALSE, context |-> NoPart]

InCall(t) == \E h \in Calls : call[h].pc # "idle" /\ call[h].awaited /\ call[h].target = t

At(h, pc) == call[h].pc = pc

Goto(h, pc) == call' = [call EXCEPT ![h].pc = pc] /\ UNCHANGED <<pod, faults>>

\* What kubelet knows of a target when it will not learn how its call for it ends.
GivenUp(t) ==
    [pod[t] EXCEPT !.uncertain = @ \/ pod[t].phase = "wanted",
                   !.unheard = @ \/ pod[t].phase = "deleting"]

\* The handler returns; kubelet may have given up waiting for it.
Return(h, success) ==
    LET t == call[h].target
        become == IF At(h, "unmount") THEN "gone" ELSE "published"
    IN  /\ call' = [call EXCEPT ![h] = Free]
        /\ pod' = IF call[h].awaited /\ success THEN [pod EXCEPT ![t].phase = become] ELSE pod
        /\ UNCHANGED faults

Mounted(t) == stack[t] # <<>>

Top(t) == stack[t][Len(stack[t])]

Dead(t) == Mounted(t) /\ ~Top(t).live

HasVolume(t) == volume[t].dummy \/ volume[t].handle # <<>>

\* An access key pair is an API credential, too.
HasApiCredentials(t) == t \in WithUser \/ KeyOf[t] # NoPart

\* Without credentials for the API the handle has to name the volume by its UUID.
VolumeUuid(t) ==
    LET part == HandleOf(volume[t])[2]
    IN  IF HasApiCredentials(t) THEN UuidOf[part] ELSE part

\* The directory that belongs at the target.
MountPath(t, context) ==
    FormMountPath(VolumeUuid(t), context, SnapshotNameOf(volume[t]), SubdirectoryOf(HandleOf(volume[t])))

Shows(path) ==
    /\ [root |-> path.root, below |-> path.below] \in trees
    /\ path.context = NoPart \/ path.context \in DOMAIN contexts

ContextsInUse ==
    {call[h].context : h \in Calls} \cup
    UNION {{stack[t][i].path.context : i \in DOMAIN stack[t]} : t \in Targets}

\* Mutant: one context for everything on the node.
FreshContext_shared(h) == CHOOSE x \in Contexts : TRUE

\* Mutant: no context handle is made.
FreshContext_none(h) == NoPart

\* A UUID.
FreshContext(h) == CHOOSE x \in Contexts : x \notin ContextsInUse

-----------------------------------------------------------------------------
(* NodePublishVolume.                                                      *)

\* GetVolumeUUID or setxattr(2) fails.
CallFails(h) ==
    /\ At(h, "resolve") \/ At(h, "context")
    /\ Fault("api")
    /\ call' = [call EXCEPT ![h] = Free]
    /\ UNCHANGED <<pod, stack, contexts>>

\* Mkdirs, which fails at a dead mount, GetVolumeUUID, the refusal of mount options, and the
\* look-up of the key.
ResolveVolume(h) ==
    LET t == call[h].target
    IN  /\ At(h, "resolve")
        /\ IF Dead(t) \/ t \in WithOptions \/ (AccessKeyMounts /\ KeyOf[t] = NoPart)
           THEN Return(h, FALSE)
           ELSE Goto(h, IF AccessKeyMounts THEN "context" ELSE "bind")
        /\ UNCHANGED <<stack, contexts>>

\* CreateAccessKeyContextHandle and SetXAttr.  Contexts that nothing refers to any more are
\* left out; the client keeps them.
SetXAttr(h) ==
    LET x == FreshContext(h)
    IN  /\ At(h, "context") /\ Contexts \ ContextsInUse # {}
        /\ call' = [call EXCEPT ![h].pc = "bind", ![h].context = x]
        /\ contexts' = [y \in {x} \cup (DOMAIN contexts \cap ContextsInUse) |->
                          IF y = x THEN KeyOf[call[h].target] ELSE contexts[y]]
        /\ UNCHANGED <<pod, stack, faults>>

BindMount(h) ==
    LET t == call[h].target
        path == MountPath(t, call[h].context)
    IN  /\ At(h, "bind")
        /\ Return(h, Shows(path) /\ ~Dead(t))
        /\ stack' = IF Shows(path) /\ ~Dead(t)
                    THEN [stack EXCEPT ![t] = Append(@, [path |-> path, live |-> TRUE])] ELSE stack
        /\ UNCHANGED contexts

-----------------------------------------------------------------------------
(* NodeUnpublishVolume.                                                    *)

\* Open files in the volume: EBUSY.
UnmountBusy(h) ==
    /\ At(h, "unmount") /\ Mounted(call[h].target)
    /\ Fault("busy")
    /\ call' = [call EXCEPT ![h] = Free]
    /\ UNCHANGED <<pod, stack, contexts>>

\* Mutant: a dead mount is an error like any other.
Unmount_dead_fails(h) ==
    LET t == call[h].target
    IN  /\ At(h, "unmount")
        /\ Return(h, Mounted(t) /\ ~Dead(t))
        /\ stack' = IF Mounted(t) /\ ~Dead(t)
                    THEN [stack EXCEPT ![t] = SubSeq(@, 1, Len(@) - 1)] ELSE stack
        /\ UNCHANGED contexts

\* Mutant: success without unmount(2).
Unmount_skipped(h) == At(h, "unmount") /\ Return(h, TRUE) /\ UNCHANGED <<stack, contexts>>

\* Only the top goes.  Nothing mounted is an error (EINVAL), a dead mount is success and stays.
Unmount(h) ==
    LET t == call[h].target
    IN  /\ At(h, "unmount")
        /\ Return(h, Mounted(t))
        /\ stack' = IF Mounted(t) /\ ~Dead(t)
                    THEN [stack EXCEPT ![t] = SubSeq(@, 1, Len(@) - 1)] ELSE stack
        /\ UNCHANGED contexts

-----------------------------------------------------------------------------
(* Kubelet: one call per target, repeated until it succeeds.               *)

Call(t, pc) ==
    /\ ~InCall(t)
    /\ \E h \in CallsOf[t] :
         /\ At(h, "idle") /\ \A i \in CallsOf[t] : At(i, "idle") => h <= i
         /\ call' = [call EXCEPT ![h] = [pc |-> pc, target |-> t, awaited |-> TRUE, context |-> NoPart]]
    /\ UNCHANGED <<pod, stack, contexts, faults>>

NodePublishVolume(t) == pod[t].phase = "wanted" /\ HasVolume(t) /\ Call(t, "resolve")

NodeUnpublishVolume(t) == pod[t].phase = "deleting" /\ Call(t, "unmount")

KubeletStep(t) == NodePublishVolume(t) \/ NodeUnpublishVolume(t)

CallStep(h) ==
    \/ CallFails(h) \/ ResolveVolume(h) \/ SetXAttr(h) \/ BindMount(h)
    \/ Unmount(h) \/ UnmountBusy(h)

KubeletGivesUp(h) ==
    /\ call[h].pc # "idle" /\ call[h].awaited
    /\ Fault("timeout")
    /\ call' = [call EXCEPT ![h].awaited = FALSE]
    /\ pod' = [pod EXCEPT ![call[h].target] = GivenUp(call[h].target)]
    /\ UNCHANGED <<stack, contexts>>

\* The node driver restarts: its handlers are lost, its mounts are not.
NodeCrash ==
    /\ \E h \in Calls : call[h].pc # "idle"
    /\ Fault("crash")
    /\ call' = [h \in Calls |-> Free]
    /\ pod' = [t \in Targets |-> IF InCall(t) THEN GivenUp(t) ELSE pod[t]]
    /\ UNCHANGED <<stack, contexts>>

ClientRestart ==
    /\ \E t \in Targets : Mounted(t)
    /\ Fault("client")
    /\ stack' = [t \in Targets |-> [i \in DOMAIN stack[t] |-> [stack[t][i] EXCEPT !.live = FALSE]]]
    /\ contexts' = <<>>
    /\ UNCHANGED <<pod, call>>

\* Kubelet unpublishes what it published, or may have.
DeletePod(t) ==
    /\ pod[t].phase \in {"wanted", "published"} /\ ~InCall(t)
    /\ pod' = [pod EXCEPT ![t].phase =
                 IF @ = "published" \/ pod[t].uncertain THEN "deleting" ELSE "gone"]
    /\ UNCHANGED <<call, stack, contexts, faults>>

-----------------------------------------------------------------------------

NodeInit ==
    /\ pod = [t \in Targets |-> [phase |-> "wanted", uncertain |-> FALSE, unheard |-> FALSE]]
    /\ call = [h \in Calls |-> Free]
    /\ stack = [t \in Targets |-> <<>>]
    /\ contexts = <<>>

NodeNext ==
    \/ \E h \in Calls : CallStep(h) \/ KubeletGivesUp(h)
    \/ \E t \in Targets : KubeletStep(t) \/ DeletePod(t)
    \/ NodeCrash
    \/ ClientRestart

\* What is done for a target: its goroutines run and kubelet retries.
Progress(t) == KubeletStep(t) \/ \E h \in Calls : call[h].target = t /\ CallStep(h)

\* Nobody has to delete a pod.
NodeFairness == \A t \in Targets : WF_<<nodeVars, faults>>(Progress(t))

-----------------------------------------------------------------------------
(* Properties.                                                             *)

\* Whatever is mounted at a target is accessed with the key of its own secret, however the
\* publishing of two pods interleaves between SetXAttr (node.go:92) and Mount (node.go:98).
MountUsesOwnKey ==
    AccessKeyMounts =>
        \A t \in Targets : \A i \in DOMAIN stack[t] :
            stack[t][i].live => contexts[stack[t][i].path.context] = KeyOf[t]

\* A target that was unpublished shows no volume any more, unless kubelet did not learn how a
\* publish ended: it asks again, node.go:98 mounts a second time, and only one is taken down.
UnpublishedIsUnmounted ==
    \A t \in Targets : pod[t].phase = "gone" /\ ~pod[t].uncertain =>
        \A i \in DOMAIN stack[t] : ~stack[t][i].live

\* Nothing but the environment keeps a target from being published: its PV asks for no mount
\* options, its secret has a key where one is needed, and the directory is there.
Publishable(t) ==
    /\ HasVolume(t) /\ t \notin WithOptions
    /\ AccessKeyMounts => KeyOf[t] # NoPart
    /\ ~Dead(t) /\ Shows(MountPath(t, NoPart))

\* Publishing ends where it can, and so does unpublishing, also of a dead target: "Do not return
\* this error as k8s keep retrying unmount - which never succeeds" (mounter.go:103).  Two cases
\* are excepted, both with nothing mounted, which is an error for ever (mounter.go:108-109):
\* kubelet gave up a publish that mounted nothing, or it did not hear of an unpublish that
\* succeeded.  A target of which kubelet heard every answer has no such excuse.
TargetsSettle ==
    \A t \in Targets :
        LET heardAll == ~pod[t].uncertain /\ ~pod[t].unheard
            unsettled == \/ pod[t].phase = "wanted" /\ Publishable(t)
                         \/ pod[t].phase = "deleting" /\ (Mounted(t) \/ heardAll)
        IN  []<>~unsettled
=============================================================================
