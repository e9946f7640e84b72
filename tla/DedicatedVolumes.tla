-------------------------- MODULE DedicatedVolumes --------------------------
(***************************************************************************)
(* Dynamic provisioning of dedicated Quobyte volumes: the handlers of      *)
(* CreateVolume, DeleteVolume and ControllerExpandVolume of                *)
(* src/driver/controller.go, for storage classes without sharedVolumeName. *)
(*                                                                         *)
(* A gRPC call runs in a goroutine of the controller process, the driver   *)
(* takes no lock, and no call of the Quobyte API client takes the gRPC     *)
(* context: a handler whose caller gave up runs on to its end, beside the  *)
(* handler of the retry.  One action is one call of the Quobyte API, so    *)
(* handlers interleave between any two calls.                              *)
(*                                                                         *)
(* The callers (external-provisioner and external-resizer of Kubernetes)   *)
(* and the Quobyte API are not in this repository; they are modelled from  *)
(* what the driver relies on.                                              *)
(***************************************************************************)
EXTENDS Capacity

CONSTANTS
    Claims,        \* the persistent volume claims; a claim also names its PV
    Uuids,         \* the volume UUIDs of the backend
    Handlers,      \* slots for the goroutines that serve gRPC calls
    NoVolume,      \* no volume UUID
    Sizes,         \* the capacities a claim may ask for
    CreateQuota,   \* storage class parameter createQuota
    TenantLimit,   \* capacity of the tenant, never oversubscribed
    FaultKinds,    \* the faults of the environment that may happen
    MaxFaults,     \* bound: how many of them happen in one behaviour
    EraseOfMissing \* what the API may answer to erasing an unknown volume

ASSUME ClaimsAssumption == Claims # {}
ASSUME UuidsAssumption == Uuids \subseteq Nat /\ NoVolume \notin Uuids
ASSUME HandlersAssumption == Handlers \subseteq Nat
ASSUME SizesAssumption == Sizes \subseteq Nat \ {0} /\ Sizes # {}
ASSUME ParametersAssumption ==
    /\ CreateQuota \in BOOLEAN
    /\ TenantLimit \in Nat
    /\ MaxFaults \in Nat
    /\ FaultKinds \subseteq {"api", "lost", "timeout", "crash"}
    /\ EraseOfMissing \subseteq {"ok", "failed"}

VARIABLES
    claim,    \* what Kubernetes knows of each claim
    handler,  \* the gRPC handlers of the controller
    volume,   \* the volumes of the Quobyte backend
    faults    \* how many faults happened

vars == <<claim, handler, volume, faults>>

Phases == {"pending", "bound", "deleting", "deleted", "abandoned"}

Ops == {"create", "delete", "expand"}

Pcs == {"idle", "identify", "create", "resolve", "quota", "rollback", "erase",
        "ok", "failed"}

ClaimRecord ==
    [phase : Phases, wanted : BOOLEAN, size : Sizes, granted : Sizes \cup {0},
     handle : Uuids \cup {NoVolume}, background : BOOLEAN]

HandlerRecord ==
    [pc : Pcs, op : Ops, claim : Claims, vol : Uuids \cup {NoVolume},
     size : Sizes, awaited : BOOLEAN]

VolumeRecord ==
    [live : BOOLEAN, name : Claims, quota : Sizes \cup {0}, data : BOOLEAN]

TypeOK ==
    /\ claim \in [Claims -> ClaimRecord]
    /\ handler \in [Handlers -> HandlerRecord]
    /\ volume \in [Uuids -> VolumeRecord]
    /\ faults \in 0 .. MaxFaults

-----------------------------------------------------------------------------
(* The backend and the faults of the environment.                          *)

Live == {u \in Uuids : volume[u].live}

NameTaken(c) == \E u \in Live : volume[u].name = c

Reserved(S) == Total([u \in S |-> volume[u].quota], S)

\* The tenant has room for a quota of n on volume u.
Fits(u, n) == u \in Live /\ Reserved(Live \ {u}) + n <= TenantLimit

\* A UUID that is not in use and that no one remembers.  UUIDs are never
\* reused: the least forgotten one stands for a new one.
Forgotten(u) ==
    /\ u \notin Live
    /\ \A h \in Handlers : handler[h].vol # u
    /\ \A c \in Claims : claim[c].handle # u

Fresh(u) == Forgotten(u) /\ \A w \in Uuids : Forgotten(w) => u <= w

AnyClaim == CHOOSE c \in Claims : TRUE

NoRecord == [live |-> FALSE, name |-> AnyClaim, quota |-> 0, data |-> FALSE]

Removed(u) == IF u \in Live THEN [volume EXCEPT ![u] = NoRecord] ELSE volume

Fault(kind) ==
    /\ kind \in FaultKinds
    /\ faults < MaxFaults
    /\ faults' = faults + 1

-----------------------------------------------------------------------------
(* Handler steps.                                                          *)

\* A free slot keeps nothing of the call it served.
Idle == [pc |-> "idle", op |-> "create", claim |-> AnyClaim, vol |-> NoVolume,
         size |-> CHOOSE n \in Sizes : TRUE, awaited |-> FALSE]

Busy(h) == handler[h].pc # "idle"

Serving(c, ops) ==
    {h \in Handlers : Busy(h) /\ handler[h].claim = c /\ handler[h].op \in ops}

Awaiting(c, ops) == \E h \in Serving(c, ops) : handler[h].awaited

Goto(h, pc) == handler' = [handler EXCEPT ![h].pc = pc]

\* Mutant: a refused expansion is rolled back like a refused creation.
AfterError_always_rollback(h) ==
    IF handler[h].pc = "quota" THEN "rollback" ELSE "failed"

\* Mutant: the result of the erasure is ignored.
AfterError_erase_ignored(h) ==
    CASE handler[h].pc = "erase" -> "ok"
      [] handler[h].pc = "quota" /\ handler[h].op = "create" -> "rollback"
      [] OTHER -> "failed"

\* Where an error of the API sends the handler: only CreateVolume, and only
\* when the quota cannot be set, has something to undo.
AfterError(h) ==
    IF handler[h].pc = "quota" /\ handler[h].op = "create" THEN "rollback" ELSE "failed"

\* A call of the API fails without effect.
ApiCallFails(h) ==
    /\ handler[h].pc \in {"identify", "create", "resolve", "quota", "rollback", "erase"}
    /\ Fault("api")
    /\ Goto(h, AfterError(h))
    /\ UNCHANGED <<claim, volume>>

\* A call of the API takes effect; its answer may be lost.
Answered(h, pc) ==
    \/ Goto(h, pc) /\ UNCHANGED faults
    \/ Goto(h, AfterError(h)) /\ Fault("lost")

\* WhoAmI and GetTenantUUID, which change nothing.
Identify(h) ==
    /\ handler[h].pc = "identify"
    /\ Goto(h, "create")
    /\ UNCHANGED <<claim, volume, faults>>

\* Mutant: the quota is set whatever createQuota says.
AfterVolume_always_quota == "quota"

\* Where CreateVolume goes once it knows the volume's UUID.
AfterVolume == IF CreateQuota THEN "quota" ELSE "ok"

HoldVolume(h, u) ==
    handler' = [handler EXCEPT ![h] = [@ EXCEPT !.vol = u, !.pc = AfterVolume]]

CreateNewVolume(h) ==
    /\ handler[h].pc = "create"
    /\ ~NameTaken(handler[h].claim)
    /\ \E u \in Uuids :
         /\ Fresh(u)
         /\ volume' = [volume EXCEPT ![u] =
              [live |-> TRUE, name |-> handler[h].claim, quota |-> 0, data |-> FALSE]]
         /\ \/ HoldVolume(h, u) /\ UNCHANGED faults
            \/ Goto(h, "failed") /\ Fault("lost")
    /\ UNCHANGED claim

\* Mutant: ENTITY_EXISTS_ALREADY is an error like any other.
VolumeExists_fails(h) ==
    /\ handler[h].pc = "create"
    /\ NameTaken(handler[h].claim)
    /\ Goto(h, "failed")
    /\ UNCHANGED <<claim, volume, faults>>

\* ENTITY_EXISTS_ALREADY.
VolumeExists(h) ==
    /\ handler[h].pc = "create"
    /\ NameTaken(handler[h].claim)
    /\ Goto(h, "resolve")
    /\ UNCHANGED <<claim, volume, faults>>

\* Mutant: the quota is set for new volumes only.
ResolveVolumeName_without_quota(h) ==
    /\ handler[h].pc = "resolve"
    /\ \E u \in Live :
         /\ volume[u].name = handler[h].claim
         /\ handler' = [handler EXCEPT ![h] = [@ EXCEPT !.vol = u, !.pc = "ok"]]
    /\ UNCHANGED <<claim, volume, faults>>

\* Mutant: the name is resolved to the volume of any claim.
ResolveVolumeName_any(h) ==
    /\ handler[h].pc = "resolve"
    /\ \E u \in Live : HoldVolume(h, u)
    /\ UNCHANGED <<claim, volume, faults>>

\* ResolveVolumeNameToUUID; the volume may have been deleted meanwhile.
ResolveVolumeName(h) ==
    /\ handler[h].pc = "resolve"
    /\ IF NameTaken(handler[h].claim)
       THEN \E u \in Live : volume[u].name = handler[h].claim /\ HoldVolume(h, u)
       ELSE Goto(h, "failed")
    /\ UNCHANGED <<claim, volume, faults>>

\* Mutant: the capacity is added to the quota.
SetVolumeQuota_adds(h) ==
    /\ handler[h].pc = "quota"
    /\ Fits(handler[h].vol, handler[h].size)
    /\ volume' = [volume EXCEPT ![handler[h].vol].quota = @ + handler[h].size]
    /\ Answered(h, "ok")
    /\ UNCHANGED claim

\* Mutant: an old quota is dropped before the new one is set.
SetVolumeQuota_anew(h) ==
    /\ handler[h].pc = "quota"
    /\ Fits(handler[h].vol, handler[h].size)
    /\ IF volume[handler[h].vol].quota \in {0, handler[h].size}
       THEN /\ volume' = [volume EXCEPT ![handler[h].vol].quota = handler[h].size]
            /\ Answered(h, "ok")
       ELSE /\ volume' = [volume EXCEPT ![handler[h].vol].quota = 0]
            /\ UNCHANGED <<handler, faults>>
    /\ UNCHANGED claim

\* CreateVolume and ControllerExpandVolume set the quota to the capacity asked for.
SetVolumeQuota(h) ==
    /\ handler[h].pc = "quota"
    /\ Fits(handler[h].vol, handler[h].size)
    /\ volume' = [volume EXCEPT ![handler[h].vol].quota = handler[h].size]
    /\ Answered(h, "ok")
    /\ UNCHANGED claim

\* The tenant has no room, or the volume is gone.
QuotaRefused(h) ==
    /\ handler[h].pc = "quota"
    /\ ~Fits(handler[h].vol, handler[h].size)
    /\ Goto(h, AfterError(h))
    /\ UNCHANGED <<claim, volume, faults>>

\* Mutant: the handler answers the result of its rollback.
RollbackVolume_answers_ok(h) ==
    /\ handler[h].pc = "rollback"
    /\ volume' = Removed(handler[h].vol)
    /\ Goto(h, "ok")
    /\ UNCHANGED <<claim, faults>>

\* DeleteVolume of the API.  Its result is ignored: CreateVolume answers the
\* error of SetVolumeQuota, also after ApiCallFails.
RollbackVolume(h) ==
    /\ handler[h].pc = "rollback"
    /\ volume' = Removed(handler[h].vol)
    /\ Goto(h, "failed")
    /\ UNCHANGED <<claim, faults>>

EraseVolume(h) ==
    /\ handler[h].pc = "erase"
    /\ handler[h].vol \in Live
    /\ volume' = Removed(handler[h].vol)
    /\ Answered(h, "ok")
    /\ UNCHANGED claim

\* Mutant: a retry that finds the volume gone is an error.
EraseMissingVolume_fails(h) ==
    /\ handler[h].pc = "erase"
    /\ handler[h].vol \notin Live
    /\ Goto(h, "failed")
    /\ UNCHANGED <<claim, volume, faults>>

\* The driver passes the API's verdict on.
EraseMissingVolume(h) ==
    /\ handler[h].pc = "erase"
    /\ handler[h].vol \notin Live
    /\ \E answer \in EraseOfMissing : Goto(h, answer)
    /\ UNCHANGED <<claim, volume, faults>>

-----------------------------------------------------------------------------
(* Answers, as Kubernetes takes them.  The driver's errors carry no gRPC   *)
(* status that means "maybe running": the external-provisioner takes each  *)
(* for a final one.  The answer to a call given up goes nowhere.           *)

Answer(h, op, pc, settled) ==
    LET c == handler[h].claim
    IN  /\ handler[h].op = op
        /\ handler[h].pc = pc
        /\ handler[h].awaited
        /\ handler' = [handler EXCEPT ![h] = Idle]
        /\ claim' = [claim EXCEPT ![c] = settled]
        /\ UNCHANGED <<volume, faults>>

CreateSucceeded(h) ==
    LET c == claim[handler[h].claim]
    IN  Answer(h, "create", "ok",
          [c EXCEPT !.phase = IF c.wanted THEN "bound" ELSE "deleting",
                    !.handle = handler[h].vol,
                    !.granted = handler[h].size,
                    !.background = FALSE])

CreateFailed(h) ==
    LET c == claim[handler[h].claim]
    IN  Answer(h, "create", "failed",
          [c EXCEPT !.phase = IF c.wanted THEN "pending" ELSE "abandoned",
                    !.background = FALSE])

ExpandSucceeded(h) ==
    LET c == claim[handler[h].claim]
    IN  Answer(h, "expand", "ok", [c EXCEPT !.granted = handler[h].size])

DeleteSucceeded(h) ==
    LET c == claim[handler[h].claim]
    IN  Answer(h, "delete", "ok", [c EXCEPT !.phase = "deleted", !.handle = NoVolume])

\* The caller will retry.
RetryLater(h) ==
    \E op \in {"expand", "delete"} :
        Answer(h, op, "failed", claim[handler[h].claim])

AnswerUnheard(h) ==
    /\ handler[h].pc \in {"ok", "failed"}
    /\ ~handler[h].awaited
    /\ handler' = [handler EXCEPT ![h] = Idle]
    /\ UNCHANGED <<claim, volume, faults>>

HandlerStep(h) ==
    \/ ApiCallFails(h)
    \/ Identify(h)
    \/ CreateNewVolume(h)
    \/ VolumeExists(h)
    \/ ResolveVolumeName(h)
    \/ SetVolumeQuota(h)
    \/ QuotaRefused(h)
    \/ RollbackVolume(h)
    \/ EraseVolume(h)
    \/ EraseMissingVolume(h)
    \/ CreateSucceeded(h)
    \/ CreateFailed(h)
    \/ ExpandSucceeded(h)
    \/ DeleteSucceeded(h)
    \/ RetryLater(h)
    \/ AnswerUnheard(h)

-----------------------------------------------------------------------------
(* The callers: one provisioning call and one resizing call per claim.     *)

\* A gRPC call starts a handler in the first free slot.
Call(op, pc, c, vol) ==
    \E h \in Handlers :
        /\ ~Busy(h)
        /\ \A i \in Handlers : ~Busy(i) => h <= i
        /\ handler' = [handler EXCEPT ![h] =
              [pc |-> pc, op |-> op, claim |-> c, vol |-> vol,
               size |-> claim[c].size, awaited |-> TRUE]]
        /\ UNCHANGED <<volume, faults>>

\* The provisioner retries until the claim is bound, or is given up after a
\* final error.
CreateVolume(c) ==
    /\ claim[c].phase = "pending"
    /\ claim[c].wanted \/ claim[c].background
    /\ ~Awaiting(c, {"create", "delete"})
    /\ Call("create", "identify", c, NoVolume)
    /\ UNCHANGED claim

DeleteVolume(c) ==
    /\ claim[c].phase = "deleting"
    /\ ~Awaiting(c, {"create", "delete"})
    /\ Call("delete", "erase", c, claim[c].handle)
    /\ UNCHANGED claim

ControllerExpandVolume(c) ==
    /\ claim[c].phase = "bound"
    /\ claim[c].size > claim[c].granted
    /\ ~Awaiting(c, {"expand"})
    /\ Call("expand", "quota", c, claim[c].handle)
    /\ UNCHANGED claim

CallerStep(c) == CreateVolume(c) \/ DeleteVolume(c) \/ ControllerExpandVolume(c)

\* The user deletes the claim.
DeleteClaim(c) ==
    /\ claim[c].wanted
    /\ claim' = [claim EXCEPT ![c].wanted = FALSE, ![c].phase =
          CASE @ = "bound" -> "deleting"
            [] @ = "pending" /\ ~claim[c].background /\ ~Awaiting(c, {"create"}) ->
                 "abandoned"
            [] OTHER -> @]
    /\ UNCHANGED <<handler, volume, faults>>

ExpandClaim(c) ==
    /\ claim[c].phase = "bound"
    /\ \E n \in Sizes : n > claim[c].size /\ claim' = [claim EXCEPT ![c].size = n]
    /\ UNCHANGED <<handler, volume, faults>>

\* A pod that uses the claim writes files.
PodWrites(c) ==
    /\ claim[c].phase = "bound"
    /\ claim[c].handle \in Live
    /\ volume' = [volume EXCEPT ![claim[c].handle].data = TRUE]
    /\ UNCHANGED <<claim, handler, faults>>

UserStep(c) == DeleteClaim(c) \/ ExpandClaim(c) \/ PodWrites(c)

\* The caller's timeout: it forgets the call, whose handler runs on.
CallTimesOut(h) ==
    LET c == handler[h].claim
    IN  /\ Busy(h)
        /\ handler[h].awaited
        /\ Fault("timeout")
        /\ handler' = [handler EXCEPT ![h].awaited = FALSE]
        /\ claim' = [claim EXCEPT ![c].background = @ \/ handler[h].op = "create"]
        /\ UNCHANGED volume

\* The controller process dies, and its handlers with it; every caller gets
\* an error that is not final.
ControllerCrash ==
    /\ \E h \in Handlers : Busy(h)
    /\ Fault("crash")
    /\ handler' = [h \in Handlers |-> Idle]
    /\ claim' = [c \in Claims |->
          [claim[c] EXCEPT !.background = @ \/ Awaiting(c, {"create"})]]
    /\ UNCHANGED volume

-----------------------------------------------------------------------------

Init ==
    /\ claim \in [Claims ->
          {[phase |-> "pending", wanted |-> TRUE, size |-> n, granted |-> 0,
            handle |-> NoVolume, background |-> FALSE] : n \in Sizes}]
    /\ handler = [h \in Handlers |-> Idle]
    /\ volume = [u \in Uuids |-> NoRecord]
    /\ faults = 0

Next ==
    \/ \E h \in Handlers : HandlerStep(h) \/ CallTimesOut(h)
    \/ \E c \in Claims : CallerStep(c) \/ UserStep(c)
    \/ ControllerCrash

\* Goroutines run, and the callers retry.
Fairness ==
    /\ \A h \in Handlers : WF_vars(HandlerStep(h))
    /\ \A c \in Claims : WF_vars(CallerStep(c))

Spec == Init /\ [][Next]_vars

FairSpec == Spec /\ Fairness

-----------------------------------------------------------------------------
(* Properties.                                                             *)

\* A claim that Kubernetes shows as bound has its volume: the handle in the PV
\* names a live volume of that claim, until the claim is deleted.  CreateVolume
\* must not answer a handle that an earlier or a concurrent handler removes
\* (rollback, controller.go:162-171), nor delete by a stale UUID.
BoundIsBacked ==
    \A c \in Claims : claim[c].phase = "bound" =>
        /\ claim[c].handle \in Live
        /\ volume[claim[c].handle].name = c

\* Once DeleteVolume answered success, nothing of the claim is left in the
\* backend, and no handler brings it back.
DeletedLeavesNothing ==
    \A c \in Claims : claim[c].phase = "deleted" => ~NameTaken(c)

\* A volume that holds files is removed only when its claim is deleted.  The
\* rollback relies on it: "Volume is just created and volume database is empty.
\* Therefore, use DeleteVolume call" (controller.go:165-167).
OnlyDeletedClaimsLoseData ==
    [][\A u \in Uuids :
         volume[u].data /\ ~volume'[u].live => claim[volume[u].name].phase = "deleting"]_vars

\* Kubernetes only lets a claim grow, but the driver sets the quota to what each call carries,
\* without reading it (controller.go:163, :523).  The quota of a bound claim's volume shrinks
\* only by a call whose caller had given it up: a CreateVolume or an expansion from before a
\* later expansion.  No retry and no call that someone waits for is one of an older size.
OnlyForgottenCallsShrinkQuotas ==
    [][\A c \in Claims :
         LET u == claim[c].handle
         IN  claim[c].phase = "bound" /\ u \in Live /\ volume'[u].live
               /\ volume'[u].quota < volume[u].quota
             => \E h \in Handlers :
                  SetVolumeQuota(h) /\ handler[h].vol = u /\ ~handler[h].awaited]_vars

\* "Calling volume create multiple times should return the volume if it already
\* exists" (controller.go:143): while the claim is bound, every handler of it that
\* succeeds, of whatever attempt, answers the handle in the PV.
CreateIsIdempotent ==
    \A h \in Handlers :
        LET c == claim[handler[h].claim]
        IN  handler[h].op = "create" /\ handler[h].pc = "ok" /\ c.phase = "bound"
              => handler[h].vol = c.handle

\* Provisioning is idempotent: whatever step failed, crashed or lost its answer,
\* retrying binds the claim unless the user gives it up.
WantedClaimIsBound ==
    \A c \in Claims :
        claim[c].phase = "pending" ~> claim[c].phase # "pending" \/ ~claim[c].wanted

\* Every deletion ends, and every expansion is granted while the claim stays.
RequestsEnd ==
    \A c \in Claims :
        /\ claim[c].phase = "deleting" ~> claim[c].phase = "deleted"
        /\ claim[c].phase = "bound" ~> claim[c].granted = claim[c].size \/ ~claim[c].wanted

\* With createQuota, provisioning keeps the ledger of promised capacity: what the bound
\* claims were promised fits in the tenant ("provisioning succeeds only if there is
\* sufficient Quota available for the request", controller.go:155-158), and is reserved, also
\* when the volume of an earlier attempt was found by ENTITY_EXISTS_ALREADY; "status only
\* follows once the resizer has called the driver and the new size is real"
\* (e2e-tests/framework/wait.go:44-45).
Ledger == INSTANCE CapacityLedger WITH
    Owners <- Claims,
    Amounts <- Sizes,
    Limit <- TenantLimit,
    reserved <- [c \in Claims |-> Reserved({u \in Live : volume[u].name = c})],
    promised <- [c \in Claims |->
        IF claim[c].phase = "bound" THEN claim[c].granted ELSE 0]

LedgerKept == Ledger!LedgerSpec

-----------------------------------------------------------------------------
(* The inductive invariant behind BoundIsBacked and                        *)
(* OnlyDeletedClaimsLoseData.  It holds unless a rollback can outlive its  *)
(* caller.                                                                 *)

NoStaleRollback == "timeout" \notin FaultKinds \/ ~CreateQuota

\* Who may be where; with createQuota no handler outlives its caller.
ProgramOrder ==
    \A h \in Handlers : Busy(h) =>
        /\ handler[h].pc \in {"identify", "create", "resolve", "rollback"} =>
              handler[h].op = "create"
        /\ handler[h].pc = "erase" => handler[h].op = "delete"
        /\ handler[h].pc = "quota" => handler[h].op # "delete"
        /\ handler[h].op = "create" /\ handler[h].pc \in {"quota", "rollback"} => CreateQuota
        /\ CreateQuota => handler[h].awaited

\* A UUID is remembered on behalf of the claim whose volume it is.
UuidsMatch ==
    /\ \A c \in Claims : claim[c].handle \in Live => volume[claim[c].handle].name = c
    /\ \A h \in Handlers :
         handler[h].vol \in Live => volume[handler[h].vol].name = handler[h].claim

Provisions(h) == Busy(h) /\ handler[h].awaited /\ handler[h].op \in {"create", "delete"}

\* The provisioner waits for one call per claim, in the phase the call is for.
OneProvisioningCall ==
    \A h \in Handlers : Provisions(h) =>
        /\ claim[handler[h].claim].phase =
              IF handler[h].op = "create" THEN "pending" ELSE "deleting"
        /\ \A i \in Handlers :
             Provisions(i) /\ handler[i].claim = handler[h].claim => i = h

CreateAnswersLive ==
    \A h \in Handlers :
        handler[h].pc = "ok" /\ handler[h].op = "create" /\ handler[h].awaited =>
            handler[h].vol \in Live

\* Handlers of DeleteVolume, also forgotten ones, work on the volume of a claim
\* that is being deleted, or was.
DeletesKnowWhat ==
    \A h \in Handlers : Busy(h) /\ handler[h].op = "delete" =>
        LET c == claim[handler[h].claim]
        IN  /\ c.phase = "deleted" \/ (c.phase = "deleting" /\ handler[h].vol = c.handle)
            /\ handler[h].pc = "ok" => handler[h].vol \notin Live

DataIsBound ==
    \A u \in Uuids : volume[u].data =>
        LET c == claim[volume[u].name]
        IN  u \in Live /\ c.handle = u /\ c.phase \in {"bound", "deleting"}

BackingInv ==
    /\ ProgramOrder
    /\ UuidsMatch
    /\ OneProvisioningCall
    /\ CreateAnswersLive
    /\ DeletesKnowWhat
    /\ DataIsBound
    /\ BoundIsBacked
=============================================================================
