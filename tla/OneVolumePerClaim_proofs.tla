---------------------- MODULE OneVolumePerClaim_proofs ----------------------
(***************************************************************************)
(* Proofs about DedicatedVolumes that rest on a claim having at most one   *)
(* volume: retried creations answer the same one, and its deletion leaves  *)
(* none behind.  They build on the inductive invariant BackingInv.         *)
(***************************************************************************)
EXTENDS DedicatedVolumes_proofs

OneVolumePerClaim ==
    \A u, v \in Live : volume[u].name = volume[v].name => u = v

\* A handler of CreateVolume that succeeded holds a volume that exists, also when its
\* caller is gone: only the handlers of the claim's deletion remove it.
CreatedIsLive ==
    \A h \in Handlers :
        /\ handler[h].op = "create" /\ handler[h].pc = "ok"
        /\ claim[handler[h].claim].phase \in {"pending", "bound"}
        => handler[h].vol \in Live

\* Of a claim being deleted, only the volume of its handle is left; then none.
OnlyHandleIsLeft ==
    \A u \in Live :
        LET c == claim[volume[u].name]
        IN  c.phase # "deleted" /\ (c.phase = "deleting" => u = c.handle)

\* No caller has given up waiting.
CallersWait == \A h \in Handlers : Busy(h) => handler[h].awaited

USE ParametersAssumption, UuidsAssumption

-----------------------------------------------------------------------------
(* What a step does to the volumes: a creation adds one whose name is      *)
(* free, every other step keeps the names of the volumes that stay.        *)

LEMMA VolumeAdded ==
    ASSUME TypeOK, NEW h \in Handlers, CreateNewVolume(h)
    PROVE  /\ UNCHANGED claim
           /\ \E u \in Uuids :
                /\ u \notin Live
                /\ Live' = Live \cup {u}
                /\ volume'[u].name = handler[h].claim
                /\ \A w \in Live : volume'[w].name = volume[w].name
                /\ \A w \in Live : volume[w].name # handler[h].claim
<1>1. PICK u \in Uuids :
        /\ Fresh(u)
        /\ volume' = [volume EXCEPT ![u] =
             [live |-> TRUE, name |-> handler[h].claim, quota |-> 0, data |-> FALSE]]
  BY DEF CreateNewVolume
<1>2. u \notin Live
  BY <1>1 DEF Fresh, Forgotten
<1>3. /\ volume'[u].live /\ volume'[u].name = handler[h].claim
      /\ \A w \in Uuids : w # u => volume'[w] = volume[w]
  BY <1>1 DEF TypeOK
<1>4. Live' = Live \cup {u}
  BY <1>3 DEF Live
<1>5. \A w \in Live : volume[w].name # handler[h].claim
  BY DEF CreateNewVolume, NameTaken
<1>6. \A w \in Live : volume'[w].name = volume[w].name
  BY <1>2, <1>3 DEF Live
<1>7. QED
  BY <1>2, <1>3, <1>4, <1>5, <1>6 DEF CreateNewVolume

\* Which step removes a volume, or writes to one.
LEMMA VolumeSteps ==
    ASSUME TypeOK, [Next]_vars
    PROVE  \/ \E h \in Handlers : CreateNewVolume(h)
           \/ \E h \in Handlers : SetVolumeQuota(h)
           \/ \E h \in Handlers : RollbackVolume(h) \/ EraseVolume(h)
           \/ \E c \in Claims : PodWrites(c)
           \/ UNCHANGED volume
<1>1. ASSUME NEW h \in Handlers, HandlerStep(h)
      PROVE  \/ CreateNewVolume(h) \/ SetVolumeQuota(h) \/ RollbackVolume(h)
             \/ EraseVolume(h) \/ UNCHANGED volume
  <2>1. ApiCallFails(h) \/ Identify(h) \/ VolumeExists(h) \/ ResolveVolumeName(h)
          \/ QuotaRefused(h) \/ EraseMissingVolume(h) \/ AnswerUnheard(h)
        => UNCHANGED volume
    BY DEF ApiCallFails, Identify, VolumeExists, ResolveVolumeName, QuotaRefused,
       EraseMissingVolume, AnswerUnheard
  <2>2. CreateSucceeded(h) \/ CreateFailed(h) \/ ExpandSucceeded(h)
          \/ DeleteSucceeded(h) \/ RetryLater(h) => UNCHANGED volume
    BY DEF CreateSucceeded, CreateFailed, ExpandSucceeded, DeleteSucceeded, RetryLater,
       Answer
  <2>3. QED
    BY <1>1, <2>1, <2>2 DEF HandlerStep
<1>2. ASSUME NEW h \in Handlers, CallTimesOut(h) PROVE UNCHANGED volume
  BY <1>2 DEF CallTimesOut
<1>3. ASSUME NEW c \in Claims, CallerStep(c) PROVE UNCHANGED volume
  BY <1>3 DEF CallerStep, CreateVolume, DeleteVolume, ControllerExpandVolume, Call
<1>4. ASSUME NEW c \in Claims, UserStep(c) PROVE PodWrites(c) \/ UNCHANGED volume
  BY <1>4 DEF UserStep, DeleteClaim, ExpandClaim
<1>5. ControllerCrash \/ UNCHANGED vars => UNCHANGED volume
  BY DEF ControllerCrash, vars
<1>6. QED
  BY <1>1, <1>2, <1>3, <1>4, <1>5 DEF Next

LEMMA NamesKept ==
    ASSUME TypeOK, [Next]_vars, \A h \in Handlers : ~CreateNewVolume(h)
    PROVE  \A u \in Live' : u \in Live /\ volume'[u].name = volume[u].name
<1>1. CASE \E h \in Handlers : SetVolumeQuota(h)
  BY <1>1 DEF SetVolumeQuota, TypeOK, VolumeRecord, Live
<1>2. CASE \E h \in Handlers : RollbackVolume(h) \/ EraseVolume(h)
  <2>1. PICK h \in Handlers : volume' = Removed(handler[h].vol)
    BY <1>2 DEF RollbackVolume, EraseVolume
  <2>2. QED
    BY <2>1 DEF Removed, NoRecord, TypeOK, VolumeRecord, Live
<1>3. CASE \E c \in Claims : PodWrites(c)
  BY <1>3 DEF PodWrites, TypeOK, VolumeRecord, Live
<1>4. CASE UNCHANGED volume
  BY <1>4 DEF Live
<1>5. QED
  BY <1>1, <1>2, <1>3, <1>4, VolumeSteps

LEMMA Removal ==
    ASSUME TypeOK, [Next]_vars, NEW u \in Live, u \notin Live'
    PROVE  \E h \in Handlers :
             /\ handler[h].vol = u
             /\ \/ RollbackVolume(h) /\ handler[h].pc = "rollback"
                \/ EraseVolume(h) /\ handler[h].pc = "erase"
<1>1. \A h \in Handlers : ~CreateNewVolume(h)
  BY VolumeAdded
<1>2. \A h \in Handlers : ~SetVolumeQuota(h)
  BY DEF SetVolumeQuota, TypeOK, VolumeRecord, Live
<1>3. \A c \in Claims : ~PodWrites(c)
  BY DEF PodWrites, TypeOK, VolumeRecord, Live
<1>4. ~UNCHANGED volume
  BY DEF Live
<1>5. PICK h \in Handlers : RollbackVolume(h) \/ EraseVolume(h)
  BY <1>1, <1>2, <1>3, <1>4, VolumeSteps
<1>6. volume' = Removed(handler[h].vol)
  BY <1>5 DEF RollbackVolume, EraseVolume
<1>7. handler[h].vol = u
  BY <1>6 DEF Removed, TypeOK, Live
<1>8. QED
  BY <1>5, <1>7 DEF RollbackVolume, EraseVolume

LEMMA OneVolumeNext == TypeOK /\ OneVolumePerClaim /\ [Next]_vars => OneVolumePerClaim'
<1> SUFFICES ASSUME TypeOK, OneVolumePerClaim, [Next]_vars,
                    NEW u \in Live', NEW v \in Live', volume'[u].name = volume'[v].name
             PROVE  u = v
  BY DEF OneVolumePerClaim
<1>1. CASE \E h \in Handlers : CreateNewVolume(h)
  BY <1>1, VolumeAdded DEF OneVolumePerClaim
<1>2. CASE \A h \in Handlers : ~CreateNewVolume(h)
  BY <1>2, NamesKept DEF OneVolumePerClaim
<1>3. QED
  BY <1>1, <1>2

-----------------------------------------------------------------------------
(* What a step does to the claims and to the handlers that succeeded.      *)

LEMMA PhaseSteps ==
    ASSUME TypeOK, [Next]_vars, NEW c \in Claims
    PROVE  \/ claim'[c].phase = claim[c].phase /\ claim'[c].handle = claim[c].handle
           \/ /\ claim[c].phase = "pending" /\ claim'[c].phase = "abandoned"
              /\ claim'[c].handle = claim[c].handle /\ ~Awaiting(c, {"create"})
           \/ /\ claim[c].phase = "bound" /\ claim'[c].phase = "deleting"
              /\ claim'[c].handle = claim[c].handle
           \/ \E h \in Handlers : /\ handler[h].claim = c
                                  /\ CreateSucceeded(h) \/ CreateFailed(h) \/ DeleteSucceeded(h)
<1> DEFINE Same == claim'[c].phase = claim[c].phase /\ claim'[c].handle = claim[c].handle
<1>0. claim[c] \in ClaimRecord
  BY DEF TypeOK
<1>1. ASSUME NEW h \in Handlers, HandlerStep(h)
      PROVE  \/ Same
             \/ /\ handler[h].claim = c
                /\ CreateSucceeded(h) \/ CreateFailed(h) \/ DeleteSucceeded(h)
  <2>0. handler[h].claim \in Claims /\ claim[handler[h].claim] \in ClaimRecord
    BY DEF TypeOK, HandlerRecord
  <2>1. \/ ApiCallFails(h) \/ Identify(h) \/ CreateNewVolume(h) \/ VolumeExists(h)
        \/ ResolveVolumeName(h) \/ SetVolumeQuota(h) \/ QuotaRefused(h) \/ RollbackVolume(h)
        \/ EraseVolume(h) \/ EraseMissingVolume(h) \/ AnswerUnheard(h)
        => UNCHANGED claim
    BY DEF ApiCallFails, Identify, CreateNewVolume, VolumeExists, ResolveVolumeName,
       SetVolumeQuota, QuotaRefused, RollbackVolume, EraseVolume, EraseMissingVolume,
       AnswerUnheard
  <2>2. CASE handler[h].claim # c /\ (CreateSucceeded(h) \/ CreateFailed(h) \/ DeleteSucceeded(h))
    BY <2>0, <2>2 DEF CreateSucceeded, CreateFailed, DeleteSucceeded, Answer, TypeOK
  <2>3. CASE ExpandSucceeded(h) \/ RetryLater(h)
    BY <1>0, <2>0, <2>3 DEF ExpandSucceeded, RetryLater, Answer, TypeOK, ClaimRecord
  <2>4. QED
    BY <1>1, <2>1, <2>2, <2>3 DEF HandlerStep
<1>2. ASSUME NEW h \in Handlers, CallTimesOut(h) PROVE Same
  BY <1>0, <1>2 DEF CallTimesOut, TypeOK, HandlerRecord, ClaimRecord
<1>3. ASSUME NEW d \in Claims, CallerStep(d) PROVE Same
  BY <1>3 DEF CallerStep, CreateVolume, DeleteVolume, ControllerExpandVolume
<1>4. ASSUME NEW d \in Claims, UserStep(d)
      PROVE  \/ Same
             \/ /\ claim[c].phase = "pending" /\ claim'[c].phase = "abandoned"
                /\ claim'[c].handle = claim[c].handle /\ ~Awaiting(c, {"create"})
             \/ /\ claim[c].phase = "bound" /\ claim'[c].phase = "deleting"
                /\ claim'[c].handle = claim[c].handle
  <2>1. CASE DeleteClaim(d)
    BY <1>0, <2>1 DEF DeleteClaim, TypeOK, ClaimRecord
  <2>2. CASE ExpandClaim(d)
    BY <1>0, <2>2 DEF ExpandClaim, TypeOK, ClaimRecord
  <2>3. CASE PodWrites(d)
    BY <2>3 DEF PodWrites
  <2>4. QED
    BY <1>4, <2>1, <2>2, <2>3 DEF UserStep
<1>5. CASE ControllerCrash
  BY <1>0, <1>5 DEF ControllerCrash, TypeOK, ClaimRecord
<1>6. CASE UNCHANGED vars
  BY <1>6 DEF vars
<1>7. QED
  BY <1>1, <1>2, <1>3, <1>4, <1>5, <1>6 DEF Next

\* A handler of CreateVolume succeeds only when it knows a volume that is there.
LEMMA NewSuccess ==
    ASSUME TypeOK, BackingInv, [Next]_vars, NEW h \in Handlers,
           handler'[h].op = "create", handler'[h].pc = "ok"
    PROVE  \/ handler'[h].vol \in Live'
           \/ /\ handler[h].op = "create" /\ handler[h].pc = "ok"
              /\ handler'[h].claim = handler[h].claim
              /\ handler'[h].vol = handler[h].vol
<1> DEFINE Kept == /\ handler[h].op = "create" /\ handler[h].pc = "ok"
                   /\ handler'[h].claim = handler[h].claim
                   /\ handler'[h].vol = handler[h].vol
<1>0. /\ Idle.pc = "idle"
      /\ handler \in [Handlers -> HandlerRecord]
      /\ handler[h].pc = "erase" => handler[h].op = "delete"
      /\ \A i \in Handlers : AfterError(i) # "ok"
  BY DEF Idle, TypeOK, BackingInv, ProgramOrder, Busy, AfterError
<1>1. ASSUME NEW i \in Handlers, HandlerStep(i) PROVE handler'[h].vol \in Live' \/ Kept
  <2>0. ASSUME NEW pc, Goto(i, pc), pc # "ok" PROVE Kept
    <3>1. OnlyPc(i, pc)
      BY <2>0, GotoOnlyPc
    <3>2. QED
      BY <2>0, <3>1 DEF OnlyPc
  <2>1. CASE ApiCallFails(i) \/ QuotaRefused(i)
    BY <1>0, <2>0, <2>1 DEF ApiCallFails, QuotaRefused
  <2>2. CASE Identify(i) \/ VolumeExists(i) \/ RollbackVolume(i)
    BY <2>0, <2>2 DEF Identify, VolumeExists, RollbackVolume
  <2>3. ASSUME NEW u \in Live', HoldVolume(i, u) PROVE handler'[h].vol \in Live' \/ Kept
    BY <1>0, <2>3 DEF HoldVolume, HandlerRecord
  <2>4. CASE CreateNewVolume(i)
    <3>1. PICK u \in Uuids :
            /\ volume' = [volume EXCEPT ![u] =
                 [live |-> TRUE, name |-> handler[i].claim, quota |-> 0, data |-> FALSE]]
            /\ HoldVolume(i, u) \/ Goto(i, "failed")
      BY <2>4 DEF CreateNewVolume
    <3>2. u \in Live'
      BY <3>1 DEF Live, TypeOK
    <3>3. QED
      BY <2>0, <2>3, <3>1, <3>2
  <2>5. CASE ResolveVolumeName(i)
    <3>1. Live' = Live
      BY <2>5 DEF ResolveVolumeName, Live
    <3>2. QED
      BY <2>0, <2>3, <2>5, <3>1 DEF ResolveVolumeName
  <2>6. CASE SetVolumeQuota(i)
    <3>1. handler[i].vol \in Live /\ Live' = Live
      BY <2>6 DEF SetVolumeQuota, Fits, Live, TypeOK, VolumeRecord
    <3>2. CASE Goto(i, "ok")
      <4>1. OnlyPc(i, "ok")
        BY <3>2, GotoOnlyPc
      <4>2. QED
        BY <3>1, <4>1 DEF OnlyPc
    <3>3. CASE Goto(i, AfterError(i))
      BY <1>0, <2>0, <3>3
    <3>4. QED
      BY <2>6, <3>2, <3>3 DEF SetVolumeQuota, Answered
  <2>7. CASE EraseVolume(i) \/ EraseMissingVolume(i)
    <3>1. PICK pc : Goto(i, pc) /\ handler[i].pc = "erase"
      BY <2>7 DEF EraseVolume, EraseMissingVolume, Answered
    <3>2. OnlyPc(i, pc) /\ handler[i].op = "delete"
      BY <3>1, GotoOnlyPc DEF BackingInv, ProgramOrder, Busy
    <3>3. QED
      BY <3>2 DEF OnlyPc
  <2>8. ASSUME handler' = [handler EXCEPT ![i] = Idle] PROVE Kept
    BY <1>0, <2>8
  <2>9. CASE CreateSucceeded(i) \/ CreateFailed(i) \/ ExpandSucceeded(i)
               \/ DeleteSucceeded(i) \/ RetryLater(i) \/ AnswerUnheard(i)
    BY <2>8, <2>9 DEF CreateSucceeded, CreateFailed, ExpandSucceeded, DeleteSucceeded,
       RetryLater, AnswerUnheard, Answer
  <2>10. QED
    BY <1>1, <2>1, <2>2, <2>4, <2>5, <2>6, <2>7, <2>9 DEF HandlerStep
<1>2. ASSUME NEW i \in Handlers, CallTimesOut(i) PROVE Kept
  BY <1>0, <1>2 DEF CallTimesOut, HandlerRecord
<1>3. ASSUME NEW c \in Claims, CallerStep(c) PROVE Kept
  <2>1. PICK op, pc, vol : Call(op, pc, c, vol) /\ pc # "ok"
    BY <1>3 DEF CallerStep, CreateVolume, DeleteVolume, ControllerExpandVolume
  <2>2. QED
    BY <1>0, <2>1 DEF Call
<1>4. ASSUME NEW c \in Claims, UserStep(c) PROVE Kept
  BY <1>4 DEF UserStep, DeleteClaim, ExpandClaim, PodWrites
<1>5. CASE ControllerCrash
  BY <1>0, <1>5 DEF ControllerCrash
<1>6. CASE UNCHANGED vars
  BY <1>6 DEF vars
<1>7. QED
  BY <1>1, <1>2, <1>3, <1>4, <1>5, <1>6 DEF Next

\* The answers that settle a claim, by what they find and leave.
LEMMA Answers ==
    ASSUME TypeOK, BackingInv, NEW h \in Handlers
    PROVE  LET c == handler[h].claim
               u == handler[h].vol
           IN  /\ CreateSucceeded(h) =>
                     /\ claim[c].phase = "pending" /\ claim'[c].phase \in {"bound", "deleting"}
                     /\ u \in Live /\ volume[u].name = c /\ claim'[c].handle = u
               /\ CreateFailed(h) =>
                     claim[c].phase = "pending" /\ claim'[c].phase \in {"pending", "abandoned"}
               /\ DeleteSucceeded(h) =>
                     /\ claim[c].phase = "deleting" /\ claim'[c].phase = "deleted"
                     /\ u = claim[c].handle /\ u \notin Live
<1> DEFINE c == handler[h].claim
           u == handler[h].vol
<1>0. c \in Claims /\ claim[c] \in ClaimRecord
  BY DEF TypeOK, HandlerRecord
<1>1. ASSUME CreateSucceeded(h)
      PROVE  /\ claim[c].phase = "pending" /\ claim'[c].phase \in {"bound", "deleting"}
             /\ u \in Live /\ volume[u].name = c /\ claim'[c].handle = u
  <2>1. handler[h].op = "create" /\ handler[h].pc = "ok" /\ handler[h].awaited
    BY <1>1 DEF CreateSucceeded, Answer
  <2>2. Provisions(h)
    BY <2>1 DEF Provisions, Busy
  <2>3. claim[c].phase = "pending" /\ u \in Live /\ volume[u].name = c
    BY <2>1, <2>2 DEF BackingInv, OneProvisioningCall, CreateAnswersLive, UuidsMatch
  <2>4. claim'[c].phase \in {"bound", "deleting"} /\ claim'[c].handle = u
    BY <1>0, <1>1 DEF CreateSucceeded, Answer, TypeOK, ClaimRecord
  <2>5. QED
    BY <2>3, <2>4
<1>2. ASSUME CreateFailed(h)
      PROVE  claim[c].phase = "pending" /\ claim'[c].phase \in {"pending", "abandoned"}
  <2>1. Provisions(h) /\ handler[h].op = "create"
    BY <1>2 DEF CreateFailed, Answer, Provisions, Busy
  <2>2. claim[c].phase = "pending"
    BY <2>1 DEF BackingInv, OneProvisioningCall
  <2>3. QED
    BY <1>0, <1>2, <2>2 DEF CreateFailed, Answer, TypeOK, ClaimRecord
<1>3. ASSUME DeleteSucceeded(h)
      PROVE  /\ claim[c].phase = "deleting" /\ claim'[c].phase = "deleted"
             /\ u = claim[c].handle /\ u \notin Live
  <2>1. Provisions(h) /\ handler[h].op = "delete" /\ handler[h].pc = "ok"
    BY <1>3 DEF DeleteSucceeded, Answer, Provisions, Busy
  <2>2. claim[c].phase = "deleting"
    BY <2>1 DEF BackingInv, OneProvisioningCall
  <2>3. u = claim[c].handle /\ u \notin Live
    BY <2>1, <2>2 DEF BackingInv, DeletesKnowWhat, Provisions
  <2>4. QED
    BY <1>0, <1>3, <2>2, <2>3 DEF DeleteSucceeded, Answer, TypeOK, ClaimRecord
<1>4. QED
  BY <1>1, <1>2, <1>3

LEMMA NoWayBack ==
    ASSUME TypeOK, BackingInv, [Next]_vars, NEW c \in Claims,
           claim'[c].phase \in {"pending", "bound"}
    PROVE  claim[c].phase \in {"pending", "bound"}
BY PhaseSteps, Answers

\* A caller is only lost by its timeout.
LEMMA WaitingSteps ==
    ASSUME TypeOK, [Next]_vars, NEW h \in Handlers, Busy(h)'
    PROVE  \/ handler'[h].awaited
           \/ Busy(h) /\ handler'[h].awaited = handler[h].awaited
           \/ \E i \in Handlers : CallTimesOut(i)
<1> DEFINE Kept == Busy(h) /\ handler'[h].awaited = handler[h].awaited
<1>0. /\ Idle.pc = "idle"
      /\ handler \in [Handlers -> HandlerRecord]
  BY DEF Idle, TypeOK
<1>1. ASSUME NEW i \in Handlers, HandlerStep(i) PROVE Kept
  <2>0. ASSUME NEW pc, Goto(i, pc), Busy(i) PROVE Kept
    <3>1. OnlyPc(i, pc)
      BY <2>0, GotoOnlyPc
    <3>2. QED
      BY <2>0, <3>1 DEF OnlyPc, Busy
  <2>1. CASE ApiCallFails(i) \/ QuotaRefused(i) \/ Identify(i) \/ VolumeExists(i)
             \/ RollbackVolume(i) \/ SetVolumeQuota(i) \/ EraseVolume(i) \/ EraseMissingVolume(i)
    BY <2>0, <2>1 DEF ApiCallFails, QuotaRefused, Identify, VolumeExists, RollbackVolume,
       SetVolumeQuota, EraseVolume, EraseMissingVolume, Answered, Busy
  <2>2. ASSUME NEW u, HoldVolume(i, u), Busy(i) PROVE Kept
    BY <1>0, <2>2 DEF HoldVolume, HandlerRecord, Busy
  <2>3. CASE CreateNewVolume(i) \/ ResolveVolumeName(i)
    <3>1. Busy(i) /\ ((\E u : HoldVolume(i, u)) \/ Goto(i, "failed"))
      BY <2>3 DEF CreateNewVolume, ResolveVolumeName, Busy
    <3>2. QED
      BY <2>0, <2>2, <3>1
  <2>4. ASSUME handler' = [handler EXCEPT ![i] = Idle] PROVE Kept
    BY <1>0, <2>4 DEF Busy
  <2>5. CASE CreateSucceeded(i) \/ CreateFailed(i) \/ ExpandSucceeded(i)
               \/ DeleteSucceeded(i) \/ RetryLater(i) \/ AnswerUnheard(i)
    BY <2>4, <2>5 DEF CreateSucceeded, CreateFailed, ExpandSucceeded, DeleteSucceeded,
       RetryLater, AnswerUnheard, Answer
  <2>6. QED
    BY <1>1, <2>1, <2>3, <2>5 DEF HandlerStep
<1>2. ASSUME NEW c \in Claims, CallerStep(c) PROVE handler'[h].awaited \/ Kept
  <2>1. PICK op, pc, vol : Call(op, pc, c, vol)
    BY <1>2 DEF CallerStep, CreateVolume, DeleteVolume, ControllerExpandVolume
  <2>2. PICK i \in Handlers :
          handler' = [handler EXCEPT ![i] =
            [pc |-> pc, op |-> op, claim |-> c, vol |-> vol,
             size |-> claim[c].size, awaited |-> TRUE]]
    BY <2>1 DEF Call
  <2>3. CASE i = h
    BY <1>0, <2>2, <2>3
  <2>4. CASE i # h
    <3>1. handler'[h] = handler[h]
      BY <1>0, <2>2, <2>4
    <3>2. QED
      BY <3>1 DEF Busy
  <2>5. QED
    BY <2>3, <2>4
<1>3. ASSUME NEW c \in Claims, UserStep(c) PROVE Kept
  BY <1>3 DEF UserStep, DeleteClaim, ExpandClaim, PodWrites, Busy
<1>4. CASE ControllerCrash
  BY <1>0, <1>4 DEF ControllerCrash, Busy
<1>5. CASE UNCHANGED vars
  BY <1>5 DEF vars, Busy
<1>6. QED
  BY <1>1, <1>2, <1>3, <1>4, <1>5 DEF Next

-----------------------------------------------------------------------------
(* The invariants.                                                         *)

LEMMA NamesInit == Init => OneVolumePerClaim /\ CreatedIsLive /\ OnlyHandleIsLeft /\ CallersWait
<1> SUFFICES ASSUME Init
             PROVE  OneVolumePerClaim /\ CreatedIsLive /\ OnlyHandleIsLeft /\ CallersWait
  OBVIOUS
<1>1. Live = {}
  BY DEF Init, Live, NoRecord
<1>2. \A h \in Handlers : handler[h].pc = "idle"
  BY DEF Init, Idle
<1>3. QED
  BY <1>1, <1>2 DEF OneVolumePerClaim, CreatedIsLive, OnlyHandleIsLeft, CallersWait, Busy

LEMMA CreatedNext == TypeOK /\ BackingInv /\ CreatedIsLive /\ [Next]_vars => CreatedIsLive'
<1> SUFFICES ASSUME TypeOK, BackingInv, CreatedIsLive, [Next]_vars, TypeOK',
                    NEW h \in Handlers, handler'[h].op = "create", handler'[h].pc = "ok",
                    claim'[handler'[h].claim].phase \in {"pending", "bound"},
                    handler'[h].vol \notin Live'
             PROVE  FALSE
  BY NextType DEF CreatedIsLive
<1> DEFINE c == handler[h].claim
           u == handler[h].vol
<1>1. /\ handler[h].op = "create" /\ handler[h].pc = "ok"
      /\ handler'[h].claim = c /\ handler'[h].vol = u
  BY NewSuccess
<1>2. c \in Claims
  BY DEF TypeOK, HandlerRecord
<1>3. claim[c].phase \in {"pending", "bound"}
  BY <1>1, <1>2, NoWayBack
<1>4. u \in Live /\ u \notin Live' /\ volume[u].name = c
  BY <1>1, <1>3 DEF CreatedIsLive, BackingInv, UuidsMatch
<1>5. PICK i \in Handlers : /\ handler[i].vol = u
                           /\ handler[i].pc \in {"rollback", "erase"}
  BY <1>4, Removal
<1>6. handler[i].claim = c /\ Busy(i)
  BY <1>4, <1>5 DEF BackingInv, UuidsMatch, Busy
<1>7. CASE handler[i].pc = "erase"
  BY <1>3, <1>6, <1>7 DEF BackingInv, ProgramOrder, DeletesKnowWhat
<1>8. CASE handler[i].pc = "rollback"
  <2>1. Provisions(i) /\ Provisions(h)
    BY <1>1, <1>6, <1>8 DEF BackingInv, ProgramOrder, Provisions, Busy
  <2>2. i = h
    BY <1>6, <2>1 DEF BackingInv, OneProvisioningCall
  <2>3. QED
    BY <1>1, <1>8, <2>2
<1>9. QED
  BY <1>5, <1>7, <1>8

LEMMA LeftNext ==
    ASSUME TypeOK, BackingInv, OneVolumePerClaim, OnlyHandleIsLeft, CallersWait, [Next]_vars
    PROVE  OnlyHandleIsLeft'
<1> SUFFICES ASSUME NEW u \in Live'
             PROVE  LET c == claim'[volume'[u].name]
                    IN  c.phase # "deleted" /\ (c.phase = "deleting" => u = c.handle)
  BY DEF OnlyHandleIsLeft
<1> DEFINE c == volume'[u].name
<1>1. CASE \E h \in Handlers : CreateNewVolume(h)
  <2>1. PICK h \in Handlers : CreateNewVolume(h)
    BY <1>1
  <2>2. Provisions(h) /\ handler[h].op = "create"
    BY <2>1 DEF CreateNewVolume, CallersWait, BackingInv, ProgramOrder, Provisions, Busy
  <2>3. claim[handler[h].claim].phase = "pending"
    BY <2>2 DEF BackingInv, OneProvisioningCall
  <2>4. QED
    BY <2>1, <2>3, VolumeAdded DEF OnlyHandleIsLeft
<1>2. CASE \A h \in Handlers : ~CreateNewVolume(h)
  <2>1. u \in Live /\ c = volume[u].name
    BY <1>2, NamesKept
  <2>2. c \in Claims
    BY <2>1 DEF Live, TypeOK, VolumeRecord
  <2>3. CASE claim'[c].phase = claim[c].phase /\ claim'[c].handle = claim[c].handle
    BY <2>1, <2>3 DEF OnlyHandleIsLeft
  <2>4. CASE claim'[c].phase = "abandoned"
    BY <2>4
  <2>5. CASE /\ claim[c].phase = "bound" /\ claim'[c].phase = "deleting"
             /\ claim'[c].handle = claim[c].handle
    BY <2>1, <2>2, <2>5 DEF BackingInv, BoundIsBacked, OneVolumePerClaim
  <2>6. CASE \E h \in Handlers :
               /\ handler[h].claim = c
               /\ CreateSucceeded(h) \/ CreateFailed(h) \/ DeleteSucceeded(h)
    BY <2>1, <2>6, Answers DEF OneVolumePerClaim, OnlyHandleIsLeft
  <2>7. QED
    BY <2>2, <2>3, <2>4, <2>5, <2>6, PhaseSteps
<1>3. QED
  BY <1>1, <1>2

LEMMA WaitNext ==
    ASSUME "timeout" \notin FaultKinds
    PROVE  TypeOK /\ CallersWait /\ [Next]_vars => CallersWait'
<1>1. \A i \in Handlers : ~CallTimesOut(i)
  BY DEF CallTimesOut, Fault
<1>2. QED
  BY <1>1, WaitingSteps DEF CallersWait

-----------------------------------------------------------------------------
(* The theorems.                                                           *)

\* Whatever creations are retried, forgotten or interrupted, a claim never has two
\* volumes: the backend refuses the name, and the driver resolves it.
THEOREM OneVolumePerClaimAlways == Spec => []OneVolumePerClaim
<1>1. Init => TypeOK /\ OneVolumePerClaim
  BY InitType, NamesInit
<1>2. TypeOK /\ OneVolumePerClaim /\ [Next]_vars => (TypeOK /\ OneVolumePerClaim)'
  BY NextType, OneVolumeNext
<1>3. QED
  BY <1>1, <1>2, PTL DEF Spec

\* Unless a rollback can outlive its caller, every attempt of CreateVolume that succeeds
\* for a bound claim answers the handle in its PV.
THEOREM CreateIsIdempotentAlways ==
    ASSUME NoStaleRollback
    PROVE  Spec => []CreateIsIdempotent
<1> DEFINE Inv == TypeOK /\ BackingInv /\ OneVolumePerClaim /\ CreatedIsLive
<1>1. Init => Inv
  BY InitType, BackingInit, NamesInit
<1>2. Inv /\ [Next]_vars => Inv'
  BY NextType, BackingNext, OneVolumeNext, CreatedNext
<1>3. Inv => CreateIsIdempotent
  <2> SUFFICES ASSUME Inv, NEW h \in Handlers,
                      handler[h].op = "create", handler[h].pc = "ok",
                      claim[handler[h].claim].phase = "bound"
               PROVE  handler[h].vol = claim[handler[h].claim].handle
    BY DEF CreateIsIdempotent
  <2>1. handler[h].claim \in Claims
    BY DEF TypeOK, HandlerRecord
  <2>2. handler[h].vol \in Live /\ volume[handler[h].vol].name = handler[h].claim
    BY DEF CreatedIsLive, BackingInv, UuidsMatch
  <2>3. /\ claim[handler[h].claim].handle \in Live
        /\ volume[claim[handler[h].claim].handle].name = handler[h].claim
    BY <2>1 DEF BackingInv, BoundIsBacked
  <2>4. QED
    BY <2>2, <2>3 DEF OneVolumePerClaim
<1>4. QED
  BY <1>1, <1>2, <1>3, PTL DEF Spec

\* If no caller gives up waiting, an answered DeleteVolume leaves no volume of the claim,
\* neither the one it erased nor one of an earlier attempt to create it.
THEOREM DeletedLeavesNothingAlways ==
    ASSUME "timeout" \notin FaultKinds
    PROVE  Spec => []DeletedLeavesNothing
<1> DEFINE Inv == /\ TypeOK /\ BackingInv /\ OneVolumePerClaim
                  /\ OnlyHandleIsLeft /\ CallersWait
<1>1. Init => Inv
  BY InitType, BackingInit, NamesInit
<1>2. Inv /\ [Next]_vars => Inv'
  BY NextType, BackingNext, OneVolumeNext, LeftNext, WaitNext DEF NoStaleRollback
<1>3. Inv => DeletedLeavesNothing
  BY DEF DeletedLeavesNothing, NameTaken, OnlyHandleIsLeft
<1>4. QED
  BY <1>1, <1>2, <1>3, PTL DEF Spec
=============================================================================
