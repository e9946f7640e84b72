----------------------- MODULE DedicatedVolumes_proofs -----------------------
(***************************************************************************)
(* Proofs about DedicatedVolumes, for every value of its constants.        *)
(***************************************************************************)
EXTENDS DedicatedVolumes, TLAPS

LEMMA AnyClaimType == AnyClaim \in Claims
BY ClaimsAssumption, Zenon DEF AnyClaim

LEMMA NoRecordType == NoRecord \in VolumeRecord
BY AnyClaimType DEF NoRecord, VolumeRecord

LEMMA IdleType == Idle \in HandlerRecord
<1>1. (CHOOSE n \in Sizes : TRUE) \in Sizes
  BY SizesAssumption, Zenon
<1>2. QED
  BY <1>1, AnyClaimType DEF Idle, HandlerRecord, Pcs, Ops

-----------------------------------------------------------------------------
(* Type correctness.                                                       *)

USE ParametersAssumption, UuidsAssumption

LEMMA RemovedType ==
    ASSUME TypeOK, NEW u \in Uuids \cup {NoVolume}
    PROVE  Removed(u) \in [Uuids -> VolumeRecord]
BY NoRecordType DEF TypeOK, Removed, Live

\* A step that moves one handler to another program counter.
LEMMA GotoType ==
    ASSUME TypeOK, NEW h \in Handlers, NEW pc \in Pcs, Goto(h, pc)
    PROVE  handler' \in [Handlers -> HandlerRecord]
BY DEF TypeOK, Goto, HandlerRecord

LEMMA FaultType ==
    ASSUME TypeOK, NEW kind, Fault(kind)
    PROVE  faults' \in 0 .. MaxFaults
BY DEF TypeOK, Fault

LEMMA AfterErrorType ==
    ASSUME NEW h \in Handlers
    PROVE  AfterError(h) \in Pcs
BY DEF AfterError, Pcs

LEMMA AnsweredType ==
    ASSUME TypeOK, NEW h \in Handlers, NEW pc \in Pcs, Answered(h, pc)
    PROVE  /\ handler' \in [Handlers -> HandlerRecord]
           /\ faults' \in 0 .. MaxFaults
<1>1. CASE Goto(h, pc) /\ UNCHANGED faults
  BY <1>1, GotoType DEF TypeOK
<1>2. CASE Goto(h, AfterError(h)) /\ Fault("lost")
  BY <1>2, GotoType, AfterErrorType, FaultType
<1>3. QED
  BY <1>1, <1>2 DEF Answered

LEMMA HoldVolumeType ==
    ASSUME TypeOK, NEW h \in Handlers, NEW u \in Uuids, HoldVolume(h, u)
    PROVE  handler' \in [Handlers -> HandlerRecord]
<1>1. AfterVolume \in Pcs
  BY DEF AfterVolume, Pcs
<1>2. handler[h] \in HandlerRecord
  BY DEF TypeOK
<1>3. [handler[h] EXCEPT !.vol = u, !.pc = AfterVolume] \in HandlerRecord
  BY <1>1, <1>2 DEF HandlerRecord
<1>4. QED
  BY <1>3 DEF TypeOK, HoldVolume

LEMMA AnswerType ==
    ASSUME TypeOK, NEW h \in Handlers, NEW op, NEW pc, NEW settled \in ClaimRecord,
           Answer(h, op, pc, settled)
    PROVE  TypeOK'
<1>1. handler' \in [Handlers -> HandlerRecord]
  BY IdleType DEF TypeOK, Answer
<1>2. claim' \in [Claims -> ClaimRecord]
  BY DEF TypeOK, Answer
<1>3. QED
  BY <1>1, <1>2 DEF TypeOK, Answer

LEMMA CallType ==
    ASSUME TypeOK, NEW op \in Ops, NEW pc \in Pcs, NEW c \in Claims,
           NEW vol \in Uuids \cup {NoVolume}, Call(op, pc, c, vol), UNCHANGED claim
    PROVE  TypeOK'
<1>1. claim[c].size \in Sizes
  BY DEF TypeOK, ClaimRecord
<1>2. handler' \in [Handlers -> HandlerRecord]
  BY <1>1 DEF TypeOK, Call, HandlerRecord
<1>3. QED
  BY <1>2 DEF TypeOK, Call

LEMMA InitType == Init => TypeOK
<1> SUFFICES ASSUME Init PROVE TypeOK
  OBVIOUS
<1>1. \A n \in Sizes :
        [phase |-> "pending", wanted |-> TRUE, size |-> n, granted |-> 0,
         handle |-> NoVolume, background |-> FALSE] \in ClaimRecord
  BY DEF ClaimRecord, Phases
<1>2. QED
  BY <1>1, IdleType, NoRecordType DEF Init, TypeOK

LEMMA HandlerStepType ==
    ASSUME TypeOK, NEW h \in Handlers, HandlerStep(h)
    PROVE  TypeOK'
<1> DEFINE r == handler[h]
<1>0. /\ r \in HandlerRecord
      /\ r.claim \in Claims
      /\ r.vol \in Uuids \cup {NoVolume}
      /\ r.size \in Sizes
      /\ claim[r.claim] \in ClaimRecord
  BY DEF TypeOK, HandlerRecord
<1>1. CASE ApiCallFails(h)
  BY <1>1, GotoType, AfterErrorType, FaultType DEF ApiCallFails, TypeOK
<1>2. CASE Identify(h)
  BY <1>2, GotoType DEF Identify, TypeOK, Pcs
<1>3. CASE CreateNewVolume(h)
  <2>1. PICK u \in Uuids :
          /\ volume' = [volume EXCEPT ![u] =
               [live |-> TRUE, name |-> r.claim, quota |-> 0, data |-> FALSE]]
          /\ \/ HoldVolume(h, u) /\ UNCHANGED faults
             \/ Goto(h, "failed") /\ Fault("lost")
    BY <1>3 DEF CreateNewVolume
  <2>2. volume' \in [Uuids -> VolumeRecord]
    BY <1>0, <2>1 DEF TypeOK, VolumeRecord
  <2>3. handler' \in [Handlers -> HandlerRecord]
    BY <2>1, HoldVolumeType, GotoType DEF Pcs
  <2>4. faults' \in 0 .. MaxFaults
    BY <2>1, FaultType DEF TypeOK
  <2>5. QED
    BY <1>3, <2>2, <2>3, <2>4 DEF CreateNewVolume, TypeOK
<1>4. CASE VolumeExists(h)
  BY <1>4, GotoType DEF VolumeExists, TypeOK, Pcs
<1>5. CASE ResolveVolumeName(h)
  <2>1. handler' \in [Handlers -> HandlerRecord]
    BY <1>5, HoldVolumeType, GotoType DEF ResolveVolumeName, Pcs, Live
  <2>2. QED
    BY <1>5, <2>1 DEF ResolveVolumeName, TypeOK
<1>6. CASE SetVolumeQuota(h)
  <2>1. volume' \in [Uuids -> VolumeRecord]
    BY <1>0, <1>6 DEF SetVolumeQuota, TypeOK, VolumeRecord
  <2>2. QED
    BY <1>6, <2>1, AnsweredType DEF SetVolumeQuota, TypeOK, Pcs
<1>7. CASE QuotaRefused(h)
  BY <1>7, GotoType, AfterErrorType DEF QuotaRefused, TypeOK
<1>8. CASE RollbackVolume(h)
  BY <1>0, <1>8, RemovedType, GotoType DEF RollbackVolume, TypeOK, Pcs
<1>9. CASE EraseVolume(h)
  BY <1>0, <1>9, RemovedType, AnsweredType DEF EraseVolume, TypeOK, Pcs
<1>10. CASE EraseMissingVolume(h)
  BY <1>10, GotoType DEF EraseMissingVolume, TypeOK, Pcs
<1>11. CASE CreateSucceeded(h)
  BY <1>0, <1>11, AnswerType DEF CreateSucceeded, ClaimRecord, Phases
<1>12. CASE CreateFailed(h)
  BY <1>0, <1>12, AnswerType DEF CreateFailed, ClaimRecord, Phases
<1>13. CASE ExpandSucceeded(h)
  BY <1>0, <1>13, AnswerType DEF ExpandSucceeded, ClaimRecord
<1>14. CASE DeleteSucceeded(h)
  BY <1>0, <1>14, AnswerType DEF DeleteSucceeded, ClaimRecord, Phases
<1>15. CASE RetryLater(h)
  BY <1>0, <1>15, AnswerType DEF RetryLater
<1>16. CASE AnswerUnheard(h)
  BY <1>16, IdleType DEF AnswerUnheard, TypeOK
<1>17. QED
  BY <1>1, <1>2, <1>3, <1>4, <1>5, <1>6, <1>7, <1>8, <1>9, <1>10, <1>11, <1>12,
     <1>13, <1>14, <1>15, <1>16 DEF HandlerStep

LEMMA CallerStepType ==
    ASSUME TypeOK, NEW c \in Claims, CallerStep(c)
    PROVE  TypeOK'
<1>0. claim[c].handle \in Uuids \cup {NoVolume}
  BY DEF TypeOK, ClaimRecord
<1>1. CASE CreateVolume(c)
  BY <1>1, CallType DEF CreateVolume, Ops, Pcs
<1>2. CASE DeleteVolume(c)
  BY <1>0, <1>2, CallType DEF DeleteVolume, Ops, Pcs
<1>3. CASE ControllerExpandVolume(c)
  BY <1>0, <1>3, CallType DEF ControllerExpandVolume, Ops, Pcs
<1>4. QED
  BY <1>1, <1>2, <1>3 DEF CallerStep

LEMMA UserStepType ==
    ASSUME TypeOK, NEW c \in Claims, UserStep(c)
    PROVE  TypeOK'
<1>0. claim[c] \in ClaimRecord
  BY DEF TypeOK
<1>1. CASE DeleteClaim(c)
  <2>1. claim' \in [Claims -> ClaimRecord]
    BY <1>0, <1>1 DEF DeleteClaim, TypeOK, ClaimRecord, Phases
  <2>2. QED
    BY <1>1, <2>1 DEF DeleteClaim, TypeOK
<1>2. CASE ExpandClaim(c)
  <2>1. claim' \in [Claims -> ClaimRecord]
    BY <1>0, <1>2 DEF ExpandClaim, TypeOK, ClaimRecord
  <2>2. QED
    BY <1>2, <2>1 DEF ExpandClaim, TypeOK
<1>3. CASE PodWrites(c)
  <2>1. \A u \in Uuids : [volume[u] EXCEPT !.data = TRUE] \in VolumeRecord
    BY DEF TypeOK, VolumeRecord
  <2>2. volume' \in [Uuids -> VolumeRecord]
    BY <1>3, <2>1 DEF PodWrites, TypeOK, Live
  <2>3. QED
    BY <1>3, <2>2 DEF PodWrites, TypeOK
<1>4. QED
  BY <1>1, <1>2, <1>3 DEF UserStep

LEMMA NextType == TypeOK /\ [Next]_vars => TypeOK'
<1> SUFFICES ASSUME TypeOK, [Next]_vars PROVE TypeOK'
  OBVIOUS
<1>1. CASE \E h \in Handlers : HandlerStep(h)
  BY <1>1, HandlerStepType
<1>2. CASE \E h \in Handlers : CallTimesOut(h)
  <2>1. PICK h \in Handlers : CallTimesOut(h)
    BY <1>2
  <2>2. handler' \in [Handlers -> HandlerRecord]
    BY <2>1 DEF CallTimesOut, TypeOK, HandlerRecord
  <2>3. claim' \in [Claims -> ClaimRecord]
    <3>1. \A b \in BOOLEAN, c \in Claims :
            [claim[c] EXCEPT !.background = b] \in ClaimRecord
      BY DEF TypeOK, ClaimRecord
    <3>2. QED
      BY <2>1, <3>1 DEF CallTimesOut, TypeOK
  <2>4. faults' \in 0 .. MaxFaults
    BY <2>1, FaultType DEF CallTimesOut
  <2>5. QED
    BY <2>1, <2>2, <2>3, <2>4 DEF CallTimesOut, TypeOK
<1>3. CASE \E c \in Claims : CallerStep(c)
  BY <1>3, CallerStepType
<1>4. CASE \E c \in Claims : UserStep(c)
  BY <1>4, UserStepType
<1>5. CASE ControllerCrash
  <2>1. handler' \in [Handlers -> HandlerRecord]
    BY <1>5, IdleType DEF ControllerCrash
  <2>2. claim' \in [Claims -> ClaimRecord]
    BY <1>5 DEF ControllerCrash, TypeOK, ClaimRecord, Awaiting
  <2>3. QED
    BY <1>5, <2>1, <2>2, FaultType DEF ControllerCrash, TypeOK
<1>6. CASE UNCHANGED vars
  BY <1>6 DEF vars, TypeOK
<1>7. QED
  BY <1>1, <1>2, <1>3, <1>4, <1>5, <1>6 DEF Next

\* Every record keeps its shape, through every interleaving and fault.
THEOREM TypeCorrect == Spec => []TypeOK
BY InitType, NextType, PTL DEF Spec

-----------------------------------------------------------------------------
(* The backing of bound claims.  Three kinds of step: a handler moves on,  *)
(* a handler gets hold of a volume, a handler removes its volume.          *)

SameVolumes ==
    /\ Live' = Live
    /\ \A u \in Uuids : /\ volume'[u].name = volume[u].name
                        /\ volume'[u].data = volume[u].data

\* The places where handler h may be next.
MayGo(h, pc) ==
    /\ pc # "idle"
    /\ pc \in {"identify", "create", "resolve", "rollback"} => handler[h].op = "create"
    /\ pc = "erase" => handler[h].op = "delete"
    /\ pc = "quota" => handler[h].op # "delete"
    /\ handler[h].op = "create" /\ pc \in {"quota", "rollback"} => CreateQuota

\* Only the program counter of h changes.
OnlyPc(h, pc) ==
    \A i \in Handlers :
        /\ handler'[i].pc = IF i = h THEN pc ELSE handler[i].pc
        /\ handler'[i].op = handler[i].op
        /\ handler'[i].claim = handler[i].claim
        /\ handler'[i].vol = handler[i].vol
        /\ handler'[i].awaited = handler[i].awaited

LEMMA GotoOnlyPc ==
    ASSUME TypeOK, NEW h \in Handlers, NEW pc, Goto(h, pc)
    PROVE  OnlyPc(h, pc)
BY DEF TypeOK, HandlerRecord, Goto, OnlyPc

LEMMA LiveUuids == Live \subseteq Uuids /\ NoVolume \notin Live
BY DEF Live

LEMMA SameProvisioning ==
    ASSUME TypeOK, OneProvisioningCall, NEW h \in Handlers, NEW pc \in Pcs \ {"idle"},
           Busy(h), OnlyPc(h, pc), UNCHANGED claim
    PROVE  OneProvisioningCall'
<1>1. \A i \in Handlers : Provisions(i)' <=> Provisions(i)
  BY DEF Provisions, Busy, OnlyPc
<1>2. SUFFICES ASSUME NEW i \in Handlers, Provisions(i)
      PROVE  /\ claim[handler[i].claim].phase =
                  IF handler[i].op = "create" THEN "pending" ELSE "deleting"
             /\ \A j \in Handlers :
                  Provisions(j) /\ handler[j].claim = handler[i].claim => j = i
  BY <1>1 DEF OneProvisioningCall, OnlyPc
<1>3. QED
  BY <1>2 DEF OneProvisioningCall

LEMMA Move ==
    ASSUME TypeOK, BackingInv, NEW h \in Handlers, NEW pc \in Pcs,
           Busy(h), Goto(h, pc), MayGo(h, pc), UNCHANGED claim, SameVolumes,
           pc = "ok" /\ handler[h].op = "create" /\ handler[h].awaited =>
               handler[h].vol \in Live,
           pc = "ok" /\ handler[h].op = "delete" => handler[h].vol \notin Live
    PROVE  BackingInv'
<1>0. OnlyPc(h, pc)
  BY GotoOnlyPc
<1>1. ProgramOrder'
  BY <1>0 DEF BackingInv, ProgramOrder, MayGo, Busy, OnlyPc
<1>2. UuidsMatch'
  <2>1. \A c \in Claims :
          claim'[c].handle \in Live' => volume'[claim'[c].handle].name = c
    BY LiveUuids DEF BackingInv, UuidsMatch, SameVolumes
  <2>2. \A i \in Handlers :
          handler'[i].vol \in Live' => volume'[handler'[i].vol].name = handler'[i].claim
    <3> TAKE i \in Handlers
    <3> HAVE handler'[i].vol \in Live'
    <3>1. handler'[i].vol = handler[i].vol /\ handler'[i].claim = handler[i].claim
      BY <1>0 DEF OnlyPc
    <3>2. handler[i].vol \in Live /\ handler[i].vol \in Uuids
      BY <3>1, LiveUuids DEF SameVolumes
    <3>3. volume[handler[i].vol].name = handler[i].claim
      BY <3>2 DEF BackingInv, UuidsMatch
    <3>4. volume'[handler[i].vol].name = volume[handler[i].vol].name
      BY <3>2 DEF SameVolumes
    <3> QED
      BY <3>1, <3>3, <3>4
  <2>3. QED
    BY <2>1, <2>2 DEF UuidsMatch
<1>4. OneProvisioningCall'
  BY <1>0, SameProvisioning DEF BackingInv, MayGo
<1>5. CreateAnswersLive'
  BY <1>0 DEF BackingInv, CreateAnswersLive, SameVolumes, OnlyPc
<1>6. DeletesKnowWhat'
  <2> SUFFICES ASSUME NEW i \in Handlers, Busy(i)', handler'[i].op = "delete"
               PROVE  LET c == claim[handler[i].claim]
                      IN  /\ \/ c.phase = "deleted"
                             \/ c.phase = "deleting" /\ handler[i].vol = c.handle
                          /\ handler'[i].pc = "ok" => handler[i].vol \notin Live
    BY <1>0 DEF DeletesKnowWhat, SameVolumes, OnlyPc
  <2>1. Busy(i) /\ handler[i].op = "delete"
    BY <1>0 DEF OnlyPc, Busy
  <2>2. QED
    BY <1>0, <2>1 DEF BackingInv, DeletesKnowWhat, OnlyPc
<1>7. DataIsBound'
  BY DEF BackingInv, DataIsBound, SameVolumes
<1>8. BoundIsBacked'
  BY LiveUuids DEF BackingInv, BoundIsBacked, SameVolumes
<1>9. QED
  BY <1>1, <1>2, <1>4, <1>5, <1>6, <1>7, <1>8 DEF BackingInv

LEMMA Remove ==
    ASSUME TypeOK, BackingInv, NEW h \in Handlers, NEW pc \in {"ok", "failed"},
           Busy(h), Goto(h, pc), UNCHANGED claim, volume' = Removed(handler[h].vol),
           \/ handler[h].op = "create" /\ handler[h].awaited /\ pc = "failed"
           \/ handler[h].op = "delete"
    PROVE  BackingInv'
<1> DEFINE u == handler[h].vol
<1>0. OnlyPc(h, pc)
  BY GotoOnlyPc
<1>a. Live' = Live \ {u}
  BY DEF Removed, NoRecord, Live, TypeOK
<1>b. \A w \in Uuids : w # u => volume'[w] = volume[w]
  BY DEF Removed, TypeOK
<1>c. u \in Uuids => ~volume'[u].data
  BY DEF Removed, NoRecord, TypeOK, BackingInv, DataIsBound
<1>d. handler[h].claim \in Claims
  BY DEF TypeOK, HandlerRecord
<1>e. claim[handler[h].claim].phase \in {"pending", "deleting", "deleted"}
  <2>1. CASE handler[h].op = "create" /\ handler[h].awaited
    BY <2>1 DEF BackingInv, OneProvisioningCall, Provisions
  <2>2. CASE handler[h].op = "delete"
    BY <2>2 DEF BackingInv, DeletesKnowWhat
  <2>3. QED
    BY <2>1, <2>2
<1>1. ProgramOrder'
  BY <1>0 DEF BackingInv, ProgramOrder, Busy, OnlyPc
<1>2. UuidsMatch'
  <2>1. \A c \in Claims :
          claim'[c].handle \in Live' => volume'[claim'[c].handle].name = c
    BY <1>a, <1>b, LiveUuids DEF BackingInv, UuidsMatch
  <2>2. \A i \in Handlers :
          handler'[i].vol \in Live' => volume'[handler'[i].vol].name = handler'[i].claim
    <3> SUFFICES ASSUME NEW i \in Handlers, handler[i].vol \in Live \ {u}
                 PROVE  volume'[handler[i].vol].name = handler[i].claim
      BY <1>0, <1>a DEF OnlyPc
    <3>1. volume'[handler[i].vol] = volume[handler[i].vol]
      BY <1>b, LiveUuids
    <3>2. QED
      BY <3>1 DEF BackingInv, UuidsMatch
  <2>3. QED
    BY <2>1, <2>2 DEF UuidsMatch
<1>4. OneProvisioningCall'
  BY <1>0, SameProvisioning DEF BackingInv, Pcs
<1>5. CreateAnswersLive'
  <2> SUFFICES ASSUME NEW i \in Handlers, handler'[i].pc = "ok",
                      handler'[i].op = "create", handler'[i].awaited
               PROVE  handler[i].vol \in Live \ {u}
    BY <1>0, <1>a DEF CreateAnswersLive, OnlyPc
  <2>1. i # h /\ handler[i].pc = "ok" /\ handler[i].op = "create" /\ handler[i].awaited
    BY <1>0 DEF OnlyPc
  <2>2. handler[i].vol \in Live /\ Provisions(i)
    BY <2>1 DEF BackingInv, CreateAnswersLive, Provisions, Busy
  <2>3. ASSUME handler[i].vol = u PROVE FALSE
    <3>1. handler[i].claim = handler[h].claim
      BY <2>2, <2>3 DEF BackingInv, UuidsMatch
    <3>2. claim[handler[h].claim].phase = "pending"
      BY <2>1, <2>2, <3>1 DEF BackingInv, OneProvisioningCall
    <3>3. Provisions(h)
      BY <3>2 DEF BackingInv, DeletesKnowWhat, Provisions
    <3>4. QED
      BY <2>1, <2>2, <3>1, <3>3 DEF BackingInv, OneProvisioningCall
  <2>4. QED
    BY <2>2, <2>3
<1>6. DeletesKnowWhat'
  <2> SUFFICES ASSUME NEW i \in Handlers, Busy(i)', handler'[i].op = "delete"
               PROVE  LET c == claim[handler[i].claim]
                      IN  /\ \/ c.phase = "deleted"
                             \/ c.phase = "deleting" /\ handler[i].vol = c.handle
                          /\ handler'[i].pc = "ok" => handler[i].vol \notin Live \ {u}
    BY <1>0, <1>a DEF DeletesKnowWhat, OnlyPc
  <2>1. Busy(i) /\ handler[i].op = "delete"
    BY <1>0 DEF OnlyPc, Busy
  <2>2. QED
    BY <1>0, <2>1 DEF BackingInv, DeletesKnowWhat, OnlyPc
<1>7. DataIsBound'
  <2> SUFFICES ASSUME NEW w \in Uuids, volume'[w].data
               PROVE  LET c == claim[volume'[w].name]
                      IN  w \in Live' /\ c.handle = w /\ c.phase \in {"bound", "deleting"}
    BY DEF DataIsBound
  <2>1. w # u /\ volume'[w] = volume[w]
    BY <1>b, <1>c
  <2>2. QED
    BY <1>a, <2>1 DEF BackingInv, DataIsBound
<1>8. BoundIsBacked'
  <2> SUFFICES ASSUME NEW c \in Claims, claim[c].phase = "bound"
               PROVE  claim[c].handle \in Live' /\ volume'[claim[c].handle].name = c
    BY DEF BoundIsBacked
  <2>1. claim[c].handle \in Live /\ volume[claim[c].handle].name = c
    BY DEF BackingInv, BoundIsBacked
  <2>2. claim[c].handle # u
    BY <1>e, <2>1 DEF BackingInv, UuidsMatch
  <2>3. QED
    BY <1>a, <1>b, <2>1, <2>2, LiveUuids
<1>9. QED
  BY <1>1, <1>2, <1>4, <1>5, <1>6, <1>7, <1>8 DEF BackingInv

\* CreateVolume, once it knows the volume, of its own claim and live, or has created it
\* and lost the answer.
LEMMA Gain ==
    ASSUME TypeOK, BackingInv, NEW h \in Handlers, NEW u \in Uuids,
           HoldVolume(h, u) \/ Goto(h, "failed"), UNCHANGED claim,
           Busy(h), handler[h].op = "create",
           u \in Live', volume'[u].name = handler[h].claim,
           Live \subseteq Live',
           \A w \in Uuids : w \notin Live /\ w \in Live' =>
               /\ ~volume'[w].data
               /\ \A i \in Handlers : handler[i].vol # w
               /\ \A c \in Claims : claim[c].handle # w,
           \A w \in Uuids : w \in Live \/ w \notin Live' => volume'[w] = volume[w]
    PROVE  BackingInv'
<1>0. /\ \A i \in Handlers : i # h => handler'[i] = handler[i]
      /\ handler'[h].pc = AfterVolume \/ handler'[h].pc = "failed"
      /\ handler'[h].vol = u \/ handler'[h].vol = handler[h].vol
      /\ handler'[h].pc # "failed" => handler'[h].vol = u
      /\ handler'[h].op = "create"
      /\ handler'[h].claim = handler[h].claim
      /\ handler'[h].awaited = handler[h].awaited
  <2>1. CASE HoldVolume(h, u)
    BY <2>1 DEF HoldVolume, TypeOK, HandlerRecord
  <2>2. CASE Goto(h, "failed")
    BY <2>2 DEF Goto, TypeOK, HandlerRecord
  <2>3. QED
    BY <2>1, <2>2
<1>a. /\ handler'[h].pc \in {"quota", "ok", "failed"}
      /\ handler'[h].pc = "quota" => CreateQuota
  BY <1>0 DEF AfterVolume
<1>1. ProgramOrder'
  <2> SUFFICES ASSUME NEW i \in Handlers, Busy(i)'
               PROVE  /\ handler'[i].pc \in {"identify", "create", "resolve", "rollback"} =>
                            handler'[i].op = "create"
                      /\ handler'[i].pc = "erase" => handler'[i].op = "delete"
                      /\ handler'[i].pc = "quota" => handler'[i].op # "delete"
                      /\ handler'[i].op = "create" /\ handler'[i].pc \in {"quota", "rollback"}
                            => CreateQuota
                      /\ CreateQuota => handler'[i].awaited
    BY DEF ProgramOrder
  <2>1. CASE i = h
    BY <1>0, <1>a, <2>1 DEF BackingInv, ProgramOrder
  <2>2. CASE i # h
    BY <1>0, <2>2 DEF BackingInv, ProgramOrder, Busy
  <2>3. QED
    BY <2>1, <2>2
<1>2. UuidsMatch'
  <2>1. ASSUME NEW c \in Claims, claim[c].handle \in Live'
        PROVE  volume'[claim[c].handle].name = c
    <3>1. claim[c].handle \in Uuids
      BY <2>1 DEF Live
    <3>2. claim[c].handle \in Live
      BY <2>1, <3>1
    <3>3. QED
      BY <3>1, <3>2 DEF BackingInv, UuidsMatch
  <2>2. ASSUME NEW i \in Handlers, handler[i].vol \in Live'
        PROVE  volume'[handler[i].vol].name = handler[i].claim
    <3>1. handler[i].vol \in Uuids
      BY <2>2 DEF Live
    <3>2. handler[i].vol \in Live
      BY <2>2, <3>1
    <3>3. QED
      BY <3>1, <3>2 DEF BackingInv, UuidsMatch
  <2>3. QED
    BY <1>0, <2>1, <2>2 DEF UuidsMatch
<1>3. OneProvisioningCall'
  <2>1. \A i \in Handlers :
          /\ Provisions(i)' <=> Provisions(i)
          /\ handler'[i].op = handler[i].op
          /\ handler'[i].claim = handler[i].claim
    BY <1>0, <1>a DEF Provisions, Busy
  <2>2. QED
    BY <2>1 DEF BackingInv, OneProvisioningCall
<1>4. CreateAnswersLive'
  <2> SUFFICES ASSUME NEW i \in Handlers, handler'[i].pc = "ok",
                      handler'[i].op = "create", handler'[i].awaited
               PROVE  handler'[i].vol \in Live'
    BY DEF CreateAnswersLive
  <2>1. CASE i = h
    BY <1>0, <2>1
  <2>2. CASE i # h
    BY <1>0, <2>2 DEF BackingInv, CreateAnswersLive
  <2>3. QED
    BY <2>1, <2>2
<1>5. DeletesKnowWhat'
  <2> SUFFICES ASSUME NEW i \in Handlers, Busy(i)', handler'[i].op = "delete"
               PROVE  LET c == claim[handler'[i].claim]
                      IN  /\ \/ c.phase = "deleted"
                             \/ c.phase = "deleting" /\ handler'[i].vol = c.handle
                          /\ handler'[i].pc = "ok" => handler'[i].vol \notin Live'
    BY DEF DeletesKnowWhat
  <2>1. i # h /\ handler'[i] = handler[i] /\ Busy(i) /\ handler[i].op = "delete"
    BY <1>0 DEF Busy
  <2>2. handler[i].pc = "ok" => handler[i].vol \notin Live
    BY <2>1 DEF BackingInv, DeletesKnowWhat
  <2>3. handler[i].vol \notin Live => handler[i].vol \notin Live'
    BY DEF Live
  <2>4. QED
    BY <2>1, <2>2, <2>3 DEF BackingInv, DeletesKnowWhat
<1>6. DataIsBound'
  <2> SUFFICES ASSUME NEW w \in Uuids, volume'[w].data
               PROVE  LET c == claim[volume'[w].name]
                      IN  w \in Live' /\ c.handle = w /\ c.phase \in {"bound", "deleting"}
    BY DEF DataIsBound
  <2>1. volume'[w] = volume[w]
    OBVIOUS
  <2>2. QED
    BY <2>1 DEF BackingInv, DataIsBound
<1>7. BoundIsBacked'
  <2> SUFFICES ASSUME NEW c \in Claims, claim[c].phase = "bound"
               PROVE  claim[c].handle \in Live' /\ volume'[claim[c].handle].name = c
    BY DEF BoundIsBacked
  <2>1. claim[c].handle \in Live /\ volume[claim[c].handle].name = c
    BY DEF BackingInv, BoundIsBacked
  <2>2. QED
    BY <2>1, LiveUuids
<1>8. QED
  BY <1>1, <1>2, <1>3, <1>4, <1>5, <1>6, <1>7 DEF BackingInv

\* An answer settles its claim: it changes nothing that is known of the volume, or
\* it ends the one provisioning call of a claim that has no data.
LEMMA Settle ==
    ASSUME TypeOK, BackingInv, NEW h \in Handlers, NEW op, NEW pc,
           NEW settled \in ClaimRecord, Busy(h), Answer(h, op, pc, settled),
           settled.handle \in Live => volume[settled.handle].name = handler[h].claim,
           settled.phase = "bound" => settled.handle \in Live,
           \/ /\ settled.handle = claim[handler[h].claim].handle
              /\ settled.phase = claim[handler[h].claim].phase
           \/ /\ Provisions(h)
              /\ \A u \in Uuids : volume[u].data => volume[u].name # handler[h].claim
              /\ \/ claim[handler[h].claim].phase = "pending"
                 \/ settled.phase = "deleted"
    PROVE  BackingInv'
<1> DEFINE c == handler[h].claim
<1>0. /\ c \in Claims
      /\ handler'[h] = Idle
      /\ \A i \in Handlers : i # h => handler'[i] = handler[i]
      /\ claim'[c] = settled
      /\ \A d \in Claims : d # c => claim'[d] = claim[d]
      /\ volume' = volume
      /\ Live' = Live
  BY DEF Answer, TypeOK, HandlerRecord, Live
<1>a. Idle.pc = "idle" /\ Idle.vol = NoVolume
  BY DEF Idle
<1>1. ProgramOrder'
  <2>1. \A i \in Handlers : Busy(i)' => Busy(i) /\ handler'[i] = handler[i]
    BY <1>0, <1>a DEF Busy
  <2>2. QED
    BY <2>1 DEF BackingInv, ProgramOrder
<1>2. UuidsMatch'
  BY <1>0, <1>a, LiveUuids DEF BackingInv, UuidsMatch
<1>3. OneProvisioningCall'
  <2>1. \A i \in Handlers : Provisions(i)' => Provisions(i) /\ handler'[i] = handler[i] /\ i # h
    BY <1>0, <1>a DEF Provisions, Busy
  <2>2. SUFFICES ASSUME NEW i \in Handlers, Provisions(i)'
        PROVE  claim'[handler[i].claim].phase = claim[handler[i].claim].phase
    BY <2>1 DEF BackingInv, OneProvisioningCall
  <2>3. CASE handler[i].claim = c
    BY <1>0, <2>1, <2>2, <2>3 DEF BackingInv, OneProvisioningCall
  <2>4. CASE handler[i].claim # c
    BY <1>0, <2>4 DEF TypeOK, HandlerRecord
  <2>5. QED
    BY <2>3, <2>4
<1>4. CreateAnswersLive'
  <2>1. \A i \in Handlers : handler'[i].pc = "ok" => handler'[i] = handler[i]
    BY <1>0, <1>a
  <2>2. QED
    BY <1>0, <2>1 DEF BackingInv, CreateAnswersLive
<1>5. DeletesKnowWhat'
  <2> SUFFICES ASSUME NEW i \in Handlers, Busy(i)', handler'[i].op = "delete"
               PROVE  LET d == claim'[handler[i].claim]
                      IN  /\ \/ d.phase = "deleted"
                             \/ d.phase = "deleting" /\ handler[i].vol = d.handle
                          /\ handler[i].pc = "ok" => handler[i].vol \notin Live
    BY <1>0, <1>a DEF DeletesKnowWhat, Busy
  <2>1. i # h /\ handler'[i] = handler[i] /\ Busy(i) /\ handler[i].op = "delete"
    BY <1>0, <1>a DEF Busy
  <2>2. CASE handler[i].claim = c
    BY <1>0, <2>1, <2>2 DEF BackingInv, DeletesKnowWhat
  <2>3. CASE handler[i].claim # c
    <3>1. claim'[handler[i].claim] = claim[handler[i].claim]
      BY <1>0, <2>3 DEF TypeOK, HandlerRecord
    <3>2. QED
      BY <2>1, <3>1 DEF BackingInv, DeletesKnowWhat
  <2>4. QED
    BY <2>2, <2>3
<1>6. DataIsBound'
  <2> SUFFICES ASSUME NEW u \in Uuids, volume[u].data
               PROVE  LET d == claim'[volume[u].name]
                      IN  u \in Live /\ d.handle = u /\ d.phase \in {"bound", "deleting"}
    BY <1>0 DEF DataIsBound
  <2>1. volume[u].name \in Claims
    BY DEF TypeOK, VolumeRecord
  <2>2. CASE volume[u].name = c
    BY <1>0, <2>2 DEF BackingInv, DataIsBound
  <2>3. CASE volume[u].name # c
    BY <1>0, <2>1, <2>3 DEF BackingInv, DataIsBound
  <2>4. QED
    BY <2>2, <2>3
<1>7. BoundIsBacked'
  <2> SUFFICES ASSUME NEW d \in Claims, claim'[d].phase = "bound"
               PROVE  claim'[d].handle \in Live /\ volume[claim'[d].handle].name = d
    BY <1>0 DEF BoundIsBacked
  <2>1. CASE d = c
    BY <1>0, <2>1
  <2>2. CASE d # c
    BY <1>0, <2>2 DEF BackingInv, BoundIsBacked
  <2>3. QED
    BY <2>1, <2>2
<1>8. QED
  BY <1>1, <1>2, <1>3, <1>4, <1>5, <1>6, <1>7 DEF BackingInv

\* A handler falls silent, or its caller forgets it; the claims keep phase and handle.
LEMMA Forget ==
    ASSUME TypeOK, BackingInv, NEW S \in SUBSET Handlers,
           \A i \in S : handler'[i] = Idle,
           \A i \in Handlers \ S :
               \/ handler'[i] = handler[i]
               \/ ~CreateQuota /\ handler'[i] = [handler[i] EXCEPT !.awaited = FALSE],
           \A c \in Claims : /\ claim'[c].phase = claim[c].phase
                             /\ claim'[c].handle = claim[c].handle,
           UNCHANGED volume
    PROVE  BackingInv'
<1>0. \A i \in Handlers :
        \/ /\ handler'[i].pc = "idle"
           /\ handler'[i].vol = NoVolume
        \/ /\ handler'[i].pc = handler[i].pc
           /\ handler'[i].op = handler[i].op
           /\ handler'[i].claim = handler[i].claim
           /\ handler'[i].vol = handler[i].vol
           /\ (handler'[i].awaited => handler[i].awaited)
           /\ (CreateQuota /\ handler[i].awaited => handler'[i].awaited)
  <2>1. TAKE i \in Handlers
  <2>2. handler[i] \in HandlerRecord
    BY DEF TypeOK
  <2>3. CASE i \in S
    <3>1. Idle.pc = "idle" /\ Idle.vol = NoVolume
      BY DEF Idle
    <3>2. QED
      BY <2>3, <3>1
  <2>4. CASE handler'[i] = handler[i]
    BY <2>4
  <2>5. CASE ~CreateQuota /\ handler'[i] = [handler[i] EXCEPT !.awaited = FALSE]
    BY <2>2, <2>5 DEF HandlerRecord
  <2>6. QED
    BY <2>3, <2>4, <2>5
<1>a. Live' = Live
  BY DEF Live
<1>1. ProgramOrder'
  BY <1>0 DEF BackingInv, ProgramOrder, Busy
<1>2. UuidsMatch'
  BY <1>0, <1>a, LiveUuids DEF BackingInv, UuidsMatch
<1>b. \A i \in Handlers : Provisions(i)' =>
        /\ Provisions(i)
        /\ handler'[i].op = handler[i].op
        /\ handler'[i].claim = handler[i].claim
  BY <1>0 DEF Provisions, Busy
<1>c. \A i \in Handlers : handler[i].claim \in Claims
  BY DEF TypeOK, HandlerRecord
<1>3. OneProvisioningCall'
  BY <1>b, <1>c DEF BackingInv, OneProvisioningCall
<1>4. CreateAnswersLive'
  BY <1>0, <1>a DEF BackingInv, CreateAnswersLive
<1>5. DeletesKnowWhat'
  <2> SUFFICES ASSUME NEW i \in Handlers, Busy(i)', handler'[i].op = "delete"
               PROVE  LET d == claim'[handler'[i].claim]
                      IN  /\ \/ d.phase = "deleted"
                             \/ d.phase = "deleting" /\ handler'[i].vol = d.handle
                          /\ handler'[i].pc = "ok" => handler'[i].vol \notin Live
    BY <1>a DEF DeletesKnowWhat
  <2>1. /\ Busy(i)
        /\ handler[i].op = "delete"
        /\ handler'[i].pc = handler[i].pc
        /\ handler'[i].claim = handler[i].claim
        /\ handler'[i].vol = handler[i].vol
    BY <1>0 DEF Busy
  <2>2. QED
    BY <1>c, <2>1 DEF BackingInv, DeletesKnowWhat
<1>6. DataIsBound'
  BY <1>a DEF BackingInv, DataIsBound, TypeOK, VolumeRecord
<1>7. BoundIsBacked'
  BY <1>a DEF BackingInv, BoundIsBacked
<1>8. QED
  BY <1>1, <1>2, <1>3, <1>4, <1>5, <1>6, <1>7 DEF BackingInv

LEMMA Keep ==
    ASSUME TypeOK, BackingInv,
           \A i \in Handlers :
               \/ handler'[i] = handler[i]
               \/ ~CreateQuota /\ handler'[i] = [handler[i] EXCEPT !.awaited = FALSE],
           \A c \in Claims : /\ claim'[c].phase = claim[c].phase
                             /\ claim'[c].handle = claim[c].handle,
           UNCHANGED volume
    PROVE  BackingInv'
<1>1. {} \in SUBSET Handlers
  OBVIOUS
<1>2. QED
  BY <1>1, Forget

\* A call starts a handler that holds no volume, or the handle of its claim.
LEMMA Start ==
    ASSUME TypeOK, BackingInv, NEW op \in Ops, NEW pc \in {"identify", "erase", "quota"},
           NEW c \in Claims, NEW vol, Call(op, pc, c, vol), UNCHANGED claim,
           vol = NoVolume \/ vol = claim[c].handle,
           \/ /\ op = "create" /\ pc = "identify" /\ claim[c].phase = "pending"
              /\ ~Awaiting(c, {"create", "delete"})
           \/ /\ op = "delete" /\ pc = "erase" /\ claim[c].phase = "deleting"
              /\ vol = claim[c].handle
              /\ ~Awaiting(c, {"create", "delete"})
           \/ op = "expand" /\ pc = "quota"
    PROVE  BackingInv'
<1>0. PICK h \in Handlers :
        /\ ~Busy(h)
        /\ handler' = [handler EXCEPT ![h] =
             [pc |-> pc, op |-> op, claim |-> c, vol |-> vol,
              size |-> claim[c].size, awaited |-> TRUE]]
  BY DEF Call
<1>a. /\ handler'[h].pc = pc
      /\ handler'[h].op = op
      /\ handler'[h].claim = c
      /\ handler'[h].vol = vol
      /\ handler'[h].awaited
      /\ \A i \in Handlers : i # h => handler'[i] = handler[i]
  BY <1>0 DEF TypeOK
<1>b. volume' = volume /\ Live' = Live
  BY DEF Call, Live
<1>1. ProgramOrder'
  <2>1. \A i \in Handlers : i # h /\ Busy(i)' => Busy(i)
    BY <1>a DEF Busy
  <2>2. QED
    BY <1>a, <2>1 DEF BackingInv, ProgramOrder
<1>2. UuidsMatch'
  BY <1>a, <1>b, LiveUuids DEF BackingInv, UuidsMatch
<1>3. OneProvisioningCall'
  <2>1. \A i \in Handlers : i # h => (Provisions(i)' <=> Provisions(i))
    BY <1>a DEF Provisions, Busy
  <2>2. ASSUME Provisions(h)'
        PROVE  /\ claim[c].phase = IF op = "create" THEN "pending" ELSE "deleting"
               /\ \A i \in Handlers : Provisions(i) => handler[i].claim # c
    <3>1. op \in {"create", "delete"}
      BY <1>a, <2>2 DEF Provisions
    <3>2. ~Awaiting(c, {"create", "delete"})
      BY <3>1
    <3>3. \A i \in Handlers : Provisions(i) => handler[i].claim # c
      BY <3>2 DEF Awaiting, Serving, Provisions
    <3>4. QED
      BY <3>1, <3>3
  <2>3. SUFFICES ASSUME NEW i \in Handlers, Provisions(i)'
        PROVE  /\ claim[handler'[i].claim].phase =
                    IF handler'[i].op = "create" THEN "pending" ELSE "deleting"
               /\ \A j \in Handlers :
                    Provisions(j)' /\ handler'[j].claim = handler'[i].claim => j = i
    BY DEF OneProvisioningCall
  <2>4. CASE i = h
    BY <1>a, <2>1, <2>2, <2>3, <2>4
  <2>5. CASE i # h
    <3>1. Provisions(i) /\ handler'[i] = handler[i]
      BY <1>a, <2>1, <2>3, <2>5
    <3>2. \A j \in Handlers : j # h /\ Provisions(j)' /\ handler'[j].claim = handler'[i].claim
            => j = i
      BY <1>a, <2>1, <3>1 DEF BackingInv, OneProvisioningCall
    <3>3. Provisions(h)' => handler'[h].claim # handler'[i].claim
      BY <1>a, <2>2, <3>1
    <3>4. QED
      BY <3>1, <3>2, <3>3 DEF BackingInv, OneProvisioningCall
  <2>6. QED
    BY <2>4, <2>5
<1>4. CreateAnswersLive'
  BY <1>a, <1>b DEF BackingInv, CreateAnswersLive
<1>5. DeletesKnowWhat'
  <2>1. \A i \in Handlers : i # h /\ Busy(i)' => Busy(i)
    BY <1>a DEF Busy
  <2>2. QED
    BY <1>a, <1>b, <2>1 DEF BackingInv, DeletesKnowWhat
<1>6. DataIsBound'
  BY <1>b DEF BackingInv, DataIsBound
<1>7. BoundIsBacked'
  BY <1>b DEF BackingInv, BoundIsBacked
<1>8. QED
  BY <1>1, <1>2, <1>3, <1>4, <1>5, <1>6, <1>7 DEF BackingInv

LEMMA BackingInit == Init => BackingInv
<1> SUFFICES ASSUME Init PROVE BackingInv
  OBVIOUS
<1>1. \A h \in Handlers : handler[h].pc = "idle" /\ handler[h].vol = NoVolume
  BY DEF Init, Idle
<1>2. \A c \in Claims : claim[c].phase = "pending" /\ claim[c].handle = NoVolume
  BY DEF Init
<1>3. \A u \in Uuids : ~volume[u].data /\ ~volume[u].live
  BY DEF Init, NoRecord
<1>4. QED
  BY <1>1, <1>2, <1>3, LiveUuids
  DEF BackingInv, ProgramOrder, UuidsMatch, OneProvisioningCall, Provisions, Busy,
      CreateAnswersLive, DeletesKnowWhat, DataIsBound, BoundIsBacked

\* The answers.
LEMMA BackingAnswers ==
    ASSUME TypeOK, BackingInv, NEW h \in Handlers,
           \/ CreateSucceeded(h)
           \/ CreateFailed(h)
           \/ ExpandSucceeded(h)
           \/ DeleteSucceeded(h)
           \/ RetryLater(h)
           \/ AnswerUnheard(h)
    PROVE  BackingInv'
<1> DEFINE c == handler[h].claim
           k == claim[handler[h].claim]
<1>0. c \in Claims /\ k \in ClaimRecord /\ handler[h] \in HandlerRecord
  BY DEF TypeOK, HandlerRecord
<1>k. /\ k.wanted \in BOOLEAN
      /\ k.handle \in Uuids \cup {NoVolume}
  BY <1>0 DEF ClaimRecord
<1>m. k.handle \in Live => volume[k.handle].name = c
  BY <1>0 DEF BackingInv, UuidsMatch
<1>b. k.phase = "bound" => k.handle \in Live
  BY <1>0 DEF BackingInv, BoundIsBacked
<1>1. CASE CreateSucceeded(h)
  <2> DEFINE s == [k EXCEPT !.phase = IF k.wanted THEN "bound" ELSE "deleting",
                            !.handle = handler[h].vol,
                            !.granted = handler[h].size,
                            !.background = FALSE]
  <2>1. /\ handler[h].op = "create" /\ handler[h].pc = "ok" /\ handler[h].awaited
        /\ Answer(h, "create", "ok", s)
    BY <1>1 DEF CreateSucceeded, Answer
  <2>2. s \in ClaimRecord /\ s.handle = handler[h].vol
    BY <1>0 DEF ClaimRecord, HandlerRecord, Phases
  <2>3. handler[h].vol \in Live /\ volume[handler[h].vol].name = c
    BY <2>1 DEF BackingInv, CreateAnswersLive, UuidsMatch
  <2>4. Provisions(h) /\ Busy(h)
    BY <2>1 DEF Provisions, Busy
  <2>5. k.phase = "pending"
    BY <2>1, <2>4 DEF BackingInv, OneProvisioningCall
  <2>6. \A u \in Uuids : volume[u].data => volume[u].name # c
    BY <2>5 DEF BackingInv, DataIsBound
  <2>7. QED
    BY <2>1, <2>2, <2>3, <2>4, <2>5, <2>6, Settle
<1>2. CASE CreateFailed(h)
  <2> DEFINE s == [k EXCEPT !.phase = IF k.wanted THEN "pending" ELSE "abandoned",
                            !.background = FALSE]
  <2>1. /\ handler[h].op = "create" /\ handler[h].pc = "failed" /\ handler[h].awaited
        /\ Answer(h, "create", "failed", s)
    BY <1>2 DEF CreateFailed, Answer
  <2>2. s \in ClaimRecord /\ s.handle = k.handle /\ s.phase # "bound"
    BY <1>0 DEF ClaimRecord, Phases
  <2>4. Provisions(h) /\ Busy(h)
    BY <2>1 DEF Provisions, Busy
  <2>5. k.phase = "pending"
    BY <2>1, <2>4 DEF BackingInv, OneProvisioningCall
  <2>6. \A u \in Uuids : volume[u].data => volume[u].name # c
    BY <2>5 DEF BackingInv, DataIsBound
  <2>7. QED
    BY <1>m, <2>1, <2>2, <2>4, <2>5, <2>6, Settle
<1>3. CASE ExpandSucceeded(h)
  <2> DEFINE s == [k EXCEPT !.granted = handler[h].size]
  <2>1. Busy(h) /\ Answer(h, "expand", "ok", s)
    BY <1>3 DEF ExpandSucceeded, Answer, Busy
  <2>2. s \in ClaimRecord /\ s.handle = k.handle /\ s.phase = k.phase
    BY <1>0 DEF ClaimRecord, HandlerRecord
  <2>3. QED
    BY <1>m, <1>b, <2>1, <2>2, Settle
<1>4. CASE DeleteSucceeded(h)
  <2> DEFINE s == [k EXCEPT !.phase = "deleted", !.handle = NoVolume]
  <2>1. /\ handler[h].op = "delete" /\ handler[h].pc = "ok" /\ handler[h].awaited
        /\ Answer(h, "delete", "ok", s)
    BY <1>4 DEF DeleteSucceeded, Answer
  <2>2. s \in ClaimRecord /\ s.handle = NoVolume /\ s.phase = "deleted"
    BY <1>0 DEF ClaimRecord, Phases
  <2>4. Provisions(h) /\ Busy(h)
    BY <2>1 DEF Provisions, Busy
  <2>5. k.phase = "deleting"
    BY <2>1, <2>4 DEF BackingInv, OneProvisioningCall
  <2>6. k.handle \notin Live
    BY <2>1, <2>4, <2>5 DEF BackingInv, DeletesKnowWhat
  <2>7. \A u \in Uuids : volume[u].data => volume[u].name # c
    BY <2>6 DEF BackingInv, DataIsBound
  <2>8. QED
    BY <2>1, <2>2, <2>4, <2>7, LiveUuids, Settle
<1>5. CASE RetryLater(h)
  <2>1. PICK op \in {"expand", "delete"} : Answer(h, op, "failed", k)
    BY <1>5 DEF RetryLater
  <2>2. Busy(h)
    BY <2>1 DEF Answer, Busy
  <2>3. QED
    BY <1>0, <1>m, <1>b, <2>1, <2>2, Settle
<1>6. CASE AnswerUnheard(h)
  <2>1. /\ \A i \in {h} : handler'[i] = Idle
        /\ \A i \in Handlers \ {h} : handler'[i] = handler[i]
        /\ UNCHANGED <<claim, volume>>
    BY <1>6 DEF AnswerUnheard, TypeOK
  <2>2. {h} \in SUBSET Handlers
    OBVIOUS
  <2>3. QED
    BY <2>1, <2>2, Forget
<1>7. QED
  BY <1>1, <1>2, <1>3, <1>4, <1>5, <1>6

\* The calls of the API.
LEMMA BackingApiCalls ==
    ASSUME TypeOK, BackingInv, NEW h \in Handlers,
           \/ ApiCallFails(h)
           \/ Identify(h)
           \/ CreateNewVolume(h)
           \/ VolumeExists(h)
           \/ ResolveVolumeName(h)
           \/ SetVolumeQuota(h)
           \/ QuotaRefused(h)
           \/ RollbackVolume(h)
           \/ EraseVolume(h)
           \/ EraseMissingVolume(h)
    PROVE  BackingInv'
<1>0. /\ handler[h] \in HandlerRecord
      /\ Busy(h) =>
           /\ handler[h].pc \in {"identify", "create", "resolve", "rollback"} =>
                 handler[h].op = "create"
           /\ handler[h].pc = "erase" => handler[h].op = "delete"
           /\ handler[h].pc = "quota" => handler[h].op # "delete"
           /\ handler[h].op = "create" /\ handler[h].pc \in {"quota", "rollback"} => CreateQuota
           /\ CreateQuota => handler[h].awaited
  BY DEF TypeOK, BackingInv, ProgramOrder
<1>same. UNCHANGED volume => SameVolumes
  BY DEF SameVolumes, Live
<1>err. /\ AfterError(h) \in Pcs
        /\ AfterError(h) # "ok"
        /\ Busy(h) => MayGo(h, AfterError(h))
  BY <1>0 DEF AfterError, MayGo, Pcs, Busy
<1>fail. /\ Busy(h) => MayGo(h, "failed") /\ MayGo(h, "ok")
         /\ "failed" \in Pcs /\ "ok" \in Pcs
  BY DEF MayGo, Pcs
<1>1. CASE ApiCallFails(h)
  <2>1. Busy(h) /\ Goto(h, AfterError(h)) /\ UNCHANGED <<claim, volume>>
    BY <1>1 DEF ApiCallFails, Busy
  <2>2. QED
    BY <1>same, <1>err, <2>1, Move
<1>2. CASE Identify(h)
  <2>1. Busy(h) /\ Goto(h, "create") /\ UNCHANGED <<claim, volume>>
    BY <1>2 DEF Identify, Busy
  <2>2. MayGo(h, "create") /\ "create" \in Pcs
    BY <1>0, <1>2, <2>1 DEF MayGo, Identify, Pcs
  <2>3. QED
    BY <1>same, <2>1, <2>2, Move
<1>3. CASE CreateNewVolume(h)
  <2>1. /\ Busy(h) /\ handler[h].op = "create" /\ UNCHANGED claim
        /\ handler[h].claim \in Claims
    BY <1>0, <1>3 DEF CreateNewVolume, Busy, HandlerRecord
  <2>2. PICK u \in Uuids :
          /\ Fresh(u)
          /\ volume' = [volume EXCEPT ![u] =
               [live |-> TRUE, name |-> handler[h].claim, quota |-> 0, data |-> FALSE]]
          /\ HoldVolume(h, u) \/ Goto(h, "failed")
    BY <1>3 DEF CreateNewVolume
  <2>3. /\ u \notin Live
        /\ \A i \in Handlers : handler[i].vol # u
        /\ \A c \in Claims : claim[c].handle # u
    BY <2>2 DEF Fresh, Forgotten
  <2>4. /\ volume'[u] = [live |-> TRUE, name |-> handler[h].claim, quota |-> 0, data |-> FALSE]
        /\ \A w \in Uuids : w # u => volume'[w] = volume[w]
    BY <2>2 DEF TypeOK
  <2>5. Live' = Live \cup {u}
    <3>1. \A w \in Uuids : volume'[w].live <=> volume[w].live \/ w = u
      BY <2>4
    <3>2. QED
      BY <3>1 DEF Live
  <2>6. CASE HoldVolume(h, u)
    BY <2>1, <2>3, <2>4, <2>5, <2>6, Gain
  <2>7. CASE Goto(h, "failed")
    BY <2>1, <2>3, <2>4, <2>5, <2>7, Gain
  <2>8. QED
    BY <2>2, <2>6, <2>7
<1>4. CASE VolumeExists(h)
  <2>1. Busy(h) /\ Goto(h, "resolve") /\ UNCHANGED <<claim, volume>>
    BY <1>4 DEF VolumeExists, Busy
  <2>2. MayGo(h, "resolve") /\ "resolve" \in Pcs
    BY <1>0, <1>4, <2>1 DEF MayGo, VolumeExists, Pcs
  <2>3. QED
    BY <1>same, <2>1, <2>2, Move
<1>5. CASE ResolveVolumeName(h)
  <2>1. Busy(h) /\ handler[h].op = "create" /\ UNCHANGED <<claim, volume>> /\ Live' = Live
    BY <1>0, <1>5 DEF ResolveVolumeName, Busy, Live
  <2>2. CASE \E u \in Live : volume[u].name = handler[h].claim /\ HoldVolume(h, u)
    <3>1. PICK u \in Live : volume[u].name = handler[h].claim /\ HoldVolume(h, u)
      BY <2>2
    <3>2. QED
      BY <2>1, <3>1, LiveUuids, Gain
  <2>3. CASE Goto(h, "failed")
    BY <1>same, <1>fail, <2>1, <2>3, Move
  <2>4. QED
    BY <1>5, <2>2, <2>3 DEF ResolveVolumeName
<1>6. CASE SetVolumeQuota(h)
  <2>1. /\ Busy(h) /\ UNCHANGED claim /\ handler[h].vol \in Live
        /\ handler[h].pc = "quota"
    BY <1>6 DEF SetVolumeQuota, Busy, Fits
  <2>2. SameVolumes
    BY <1>6, <2>1 DEF SetVolumeQuota, SameVolumes, Live, TypeOK, VolumeRecord
  <2>3. CASE Goto(h, AfterError(h))
    BY <1>err, <2>1, <2>2, <2>3, Move
  <2>4. CASE Goto(h, "ok") /\ handler[h].op # "delete"
    BY <1>fail, <2>1, <2>2, <2>4, Move
  <2>5. handler[h].op # "delete"
    BY <1>0, <2>1
  <2>6. QED
    BY <1>6, <2>3, <2>4, <2>5 DEF SetVolumeQuota, Answered
<1>7. CASE QuotaRefused(h)
  <2>1. Busy(h) /\ Goto(h, AfterError(h)) /\ UNCHANGED <<claim, volume>>
    BY <1>7 DEF QuotaRefused, Busy
  <2>2. QED
    BY <1>same, <1>err, <2>1, Move
<1>8. CASE RollbackVolume(h)
  <2>1. /\ Busy(h) /\ handler[h].op = "create" /\ handler[h].awaited
        /\ Goto(h, "failed") /\ UNCHANGED claim /\ volume' = Removed(handler[h].vol)
    BY <1>0, <1>8 DEF RollbackVolume, Busy
  <2>2. QED
    BY <2>1, Remove
<1>9. CASE EraseVolume(h)
  <2>1. /\ Busy(h) /\ handler[h].op = "delete" /\ handler[h].pc = "erase"
        /\ UNCHANGED claim /\ volume' = Removed(handler[h].vol)
    BY <1>0, <1>9 DEF EraseVolume, Busy
  <2>2. AfterError(h) = "failed"
    BY <2>1 DEF AfterError
  <2>3. Goto(h, "ok") \/ Goto(h, "failed")
    BY <1>9, <2>2 DEF EraseVolume, Answered
  <2>4. QED
    BY <2>1, <2>3, Remove
<1>10. CASE EraseMissingVolume(h)
  <2>1. /\ Busy(h) /\ handler[h].op = "delete" /\ handler[h].vol \notin Live
        /\ UNCHANGED <<claim, volume>>
    BY <1>0, <1>10 DEF EraseMissingVolume, Busy
  <2>2. Goto(h, "ok") \/ Goto(h, "failed")
    BY <1>10 DEF EraseMissingVolume
  <2>3. QED
    BY <1>same, <1>fail, <2>1, <2>2, Move
<1>11. QED
  BY <1>1, <1>2, <1>3, <1>4, <1>5, <1>6, <1>7, <1>8, <1>9, <1>10

LEMMA BackingCallers ==
    ASSUME TypeOK, BackingInv, NEW c \in Claims, CallerStep(c)
    PROVE  BackingInv'
<1>1. CASE CreateVolume(c)
  BY <1>1, Start DEF CreateVolume, Ops
<1>2. CASE DeleteVolume(c)
  BY <1>2, Start DEF DeleteVolume, Ops
<1>3. CASE ControllerExpandVolume(c)
  BY <1>3, Start DEF ControllerExpandVolume, Ops
<1>4. QED
  BY <1>1, <1>2, <1>3 DEF CallerStep

LEMMA BackingUsers ==
    ASSUME TypeOK, BackingInv, NEW c \in Claims, UserStep(c)
    PROVE  BackingInv'
<1>1. CASE DeleteClaim(c)
  <2>0. /\ UNCHANGED <<handler, volume>>
        /\ Live' = Live
        /\ \A d \in Claims : d # c => claim'[d] = claim[d]
        /\ claim'[c].handle = claim[c].handle
    BY <1>1 DEF DeleteClaim, TypeOK, ClaimRecord, Live
  <2>1. \/ claim'[c].phase = claim[c].phase
        \/ claim[c].phase = "bound" /\ claim'[c].phase = "deleting"
        \/ /\ claim[c].phase = "pending" /\ claim'[c].phase = "abandoned"
           /\ ~Awaiting(c, {"create"})
    BY <1>1 DEF DeleteClaim, TypeOK, ClaimRecord
  <2>2. \A h \in Handlers : Provisions(h) => claim'[handler[h].claim].phase =
          claim[handler[h].claim].phase
    <3> SUFFICES ASSUME NEW h \in Handlers, Provisions(h), handler[h].claim = c
                 PROVE  claim'[c].phase = claim[c].phase
      BY <2>0 DEF TypeOK, HandlerRecord
    <3>1. claim[c].phase = IF handler[h].op = "create" THEN "pending" ELSE "deleting"
      BY DEF BackingInv, OneProvisioningCall
    <3>2. handler[h].op = "create" => Awaiting(c, {"create"})
      BY DEF Awaiting, Serving, Provisions
    <3>3. QED
      BY <2>1, <3>1, <3>2
  <2>3. OneProvisioningCall'
    BY <2>0, <2>2 DEF BackingInv, OneProvisioningCall, Provisions, Busy
  <2>4. DeletesKnowWhat'
    <3> SUFFICES ASSUME NEW h \in Handlers, Busy(h), handler[h].op = "delete"
                 PROVE  LET d == claim'[handler[h].claim]
                        IN  /\ \/ d.phase = "deleted"
                               \/ d.phase = "deleting" /\ handler[h].vol = d.handle
                            /\ handler[h].pc = "ok" => handler[h].vol \notin Live
      BY <2>0 DEF DeletesKnowWhat, Busy
    <3>1. CASE handler[h].claim = c
      BY <2>0, <2>1, <3>1 DEF BackingInv, DeletesKnowWhat
    <3>2. CASE handler[h].claim # c
      <4>1. claim'[handler[h].claim] = claim[handler[h].claim]
        BY <2>0, <3>2 DEF TypeOK, HandlerRecord
      <4>2. QED
        BY <4>1 DEF BackingInv, DeletesKnowWhat
    <3>3. QED
      BY <3>1, <3>2
  <2>5. UuidsMatch'
    BY <2>0 DEF BackingInv, UuidsMatch
  <2>6. DataIsBound'
    <3> SUFFICES ASSUME NEW u \in Uuids, volume[u].data
                 PROVE  LET d == claim'[volume[u].name]
                        IN  u \in Live /\ d.handle = u /\ d.phase \in {"bound", "deleting"}
      BY <2>0 DEF DataIsBound
    <3>1. volume[u].name \in Claims
      BY DEF TypeOK, VolumeRecord
    <3>2. QED
      BY <2>0, <2>1, <3>1 DEF BackingInv, DataIsBound
  <2>7. BoundIsBacked'
    BY <2>0, <2>1 DEF BackingInv, BoundIsBacked
  <2>8. ProgramOrder' /\ CreateAnswersLive'
    BY <2>0 DEF BackingInv, ProgramOrder, CreateAnswersLive, Busy
  <2>9. QED
    BY <2>3, <2>4, <2>5, <2>6, <2>7, <2>8 DEF BackingInv
<1>2. CASE ExpandClaim(c)
  <2>1. /\ UNCHANGED <<handler, volume>>
        /\ \A d \in Claims : /\ claim'[d].phase = claim[d].phase
                             /\ claim'[d].handle = claim[d].handle
    BY <1>2 DEF ExpandClaim, TypeOK, ClaimRecord
  <2>2. QED
    BY <2>1, Keep
<1>3. CASE PodWrites(c)
  <2> DEFINE u == claim[c].handle
  <2>1. /\ UNCHANGED <<claim, handler>>
        /\ u \in Live /\ u \in Uuids
        /\ claim[c].phase = "bound"
        /\ volume[u].name = c
        /\ volume' = [volume EXCEPT ![u].data = TRUE]
    BY <1>3, LiveUuids DEF PodWrites, BackingInv, BoundIsBacked
  <2>2. \A w \in Uuids : /\ volume'[w].live = volume[w].live
                         /\ volume'[w].name = volume[w].name
                         /\ w # u => volume'[w].data = volume[w].data
    BY <2>1 DEF TypeOK, VolumeRecord
  <2>3. Live' = Live
    BY <2>2 DEF Live
  <2>4. UuidsMatch'
    BY <2>1, <2>2, <2>3, LiveUuids DEF BackingInv, UuidsMatch
  <2>5. DataIsBound'
    <3> SUFFICES ASSUME NEW w \in Uuids, volume'[w].data
                 PROVE  LET d == claim[volume[w].name]
                        IN  w \in Live /\ d.handle = w /\ d.phase \in {"bound", "deleting"}
      BY <2>1, <2>2, <2>3 DEF DataIsBound
    <3>1. CASE w = u
      BY <2>1, <3>1
    <3>2. CASE w # u
      BY <2>2, <3>2 DEF BackingInv, DataIsBound
    <3>3. QED
      BY <3>1, <3>2
  <2>6. BoundIsBacked'
    BY <2>1, <2>2, <2>3, LiveUuids DEF BackingInv, BoundIsBacked
  <2>7. ProgramOrder' /\ CreateAnswersLive' /\ DeletesKnowWhat' /\ OneProvisioningCall'
    BY <2>1, <2>3 DEF BackingInv, ProgramOrder, CreateAnswersLive, DeletesKnowWhat,
       OneProvisioningCall, Provisions, Busy
  <2>8. QED
    BY <2>4, <2>5, <2>6, <2>7 DEF BackingInv
<1>4. QED
  BY <1>1, <1>2, <1>3 DEF UserStep

LEMMA BackingNext ==
    ASSUME NoStaleRollback
    PROVE  TypeOK /\ BackingInv /\ [Next]_vars => BackingInv'
<1> SUFFICES ASSUME TypeOK, BackingInv, [Next]_vars PROVE BackingInv'
  OBVIOUS
<1>1. CASE \E h \in Handlers : HandlerStep(h)
  BY <1>1, BackingAnswers, BackingApiCalls DEF HandlerStep
<1>2. CASE \E h \in Handlers : CallTimesOut(h)
  <2>1. PICK h \in Handlers : CallTimesOut(h)
    BY <1>2
  <2>2. ~CreateQuota
    BY <2>1 DEF NoStaleRollback, CallTimesOut, Fault
  <2>3. \A i \in Handlers :
          handler'[i] = handler[i] \/ handler'[i] = [handler[i] EXCEPT !.awaited = FALSE]
    BY <2>1 DEF CallTimesOut, TypeOK
  <2>4. \A c \in Claims : /\ claim'[c].phase = claim[c].phase
                          /\ claim'[c].handle = claim[c].handle
    BY <2>1 DEF CallTimesOut, TypeOK, ClaimRecord
  <2>5. UNCHANGED volume
    BY <2>1 DEF CallTimesOut
  <2>6. QED
    BY <2>2, <2>3, <2>4, <2>5, Keep
<1>3. CASE \E c \in Claims : CallerStep(c)
  BY <1>3, BackingCallers
<1>4. CASE \E c \in Claims : UserStep(c)
  BY <1>4, BackingUsers
<1>5. CASE ControllerCrash
  <2>1. /\ \A i \in Handlers : handler'[i] = Idle
        /\ \A c \in Claims : /\ claim'[c].phase = claim[c].phase
                             /\ claim'[c].handle = claim[c].handle
        /\ UNCHANGED volume
    BY <1>5 DEF ControllerCrash, TypeOK, ClaimRecord
  <2>2. QED
    BY <2>1, Forget
<1>6. CASE UNCHANGED vars
  BY <1>6, Keep DEF vars
<1>7. QED
  BY <1>1, <1>2, <1>3, <1>4, <1>5, <1>6 DEF Next

\* Unless a rollback can outlive its caller, every bound claim has its volume:
\* CreateVolume never answers a volume that some handler still removes.
THEOREM BoundIsBackedAlways ==
    ASSUME NoStaleRollback
    PROVE  Spec => []BoundIsBacked
<1>1. Init => TypeOK /\ BackingInv
  BY InitType, BackingInit
<1>2. TypeOK /\ BackingInv /\ [Next]_vars => (TypeOK /\ BackingInv)'
  BY NextType, BackingNext
<1>3. BackingInv => BoundIsBacked
  BY DEF BackingInv
<1>4. QED
  BY <1>1, <1>2, <1>3, PTL DEF Spec

-----------------------------------------------------------------------------
(* The removal of volumes that hold data.                                  *)

LEMMA Loss ==
    ASSUME TypeOK, BackingInv, [Next]_vars, NEW u \in Uuids,
           volume[u].data, ~volume'[u].live
    PROVE  claim[volume[u].name].phase = "deleting"
<1>1. /\ volume[u].live
      /\ claim[volume[u].name].phase \in {"bound", "deleting"}
  BY DEF BackingInv, DataIsBound, Live
<1>2. PICK h \in Handlers : RollbackVolume(h) \/ EraseVolume(h)
  <2>1. volume' # volume
    BY <1>1
  <2>2. \A h \in Handlers : ~CreateNewVolume(h) /\ ~SetVolumeQuota(h)
    BY <1>1 DEF CreateNewVolume, SetVolumeQuota, TypeOK, VolumeRecord
  <2>3. \A c \in Claims : ~PodWrites(c)
    BY <1>1 DEF PodWrites, TypeOK, VolumeRecord
  <2>4. \A c \in Claims : ~CallerStep(c) /\ ~DeleteClaim(c) /\ ~ExpandClaim(c)
    BY <2>1 DEF CallerStep, CreateVolume, DeleteVolume, ControllerExpandVolume, Call,
       DeleteClaim, ExpandClaim
  <2>5. \A h \in Handlers :
          /\ ~ApiCallFails(h) /\ ~Identify(h) /\ ~VolumeExists(h) /\ ~ResolveVolumeName(h)
          /\ ~QuotaRefused(h) /\ ~EraseMissingVolume(h) /\ ~CallTimesOut(h)
    BY <2>1 DEF ApiCallFails, Identify, VolumeExists, ResolveVolumeName, QuotaRefused,
       EraseMissingVolume, CallTimesOut
  <2>6. \A h \in Handlers :
          /\ ~CreateSucceeded(h) /\ ~CreateFailed(h) /\ ~ExpandSucceeded(h)
          /\ ~DeleteSucceeded(h) /\ ~RetryLater(h) /\ ~AnswerUnheard(h)
    BY <2>1 DEF CreateSucceeded, CreateFailed, ExpandSucceeded, DeleteSucceeded,
       RetryLater, AnswerUnheard, Answer
  <2>7. ~ControllerCrash /\ ~UNCHANGED vars
    BY <2>1 DEF ControllerCrash, vars
  <2>8. QED
    BY <2>2, <2>3, <2>4, <2>5, <2>6, <2>7 DEF Next, HandlerStep, UserStep
<1>3. Busy(h) /\ handler[h].vol = u
  <2>1. Busy(h) /\ volume' = Removed(handler[h].vol)
    BY <1>2 DEF RollbackVolume, EraseVolume, Busy
  <2>2. QED
    BY <1>1, <2>1 DEF Removed, TypeOK
<1>4. handler[h].claim = volume[u].name
  BY <1>1, <1>3 DEF BackingInv, UuidsMatch, Live
<1>5. CASE RollbackVolume(h)
  <2>1. Provisions(h) /\ handler[h].op = "create"
    BY <1>3, <1>5 DEF RollbackVolume, BackingInv, ProgramOrder, Provisions
  <2>2. QED
    BY <1>1, <1>4, <2>1 DEF BackingInv, OneProvisioningCall
<1>6. CASE EraseVolume(h)
  <2>1. handler[h].op = "delete"
    BY <1>3, <1>6 DEF EraseVolume, BackingInv, ProgramOrder
  <2>2. QED
    BY <1>1, <1>3, <1>4, <2>1 DEF BackingInv, DeletesKnowWhat
<1>7. QED
  BY <1>2, <1>5, <1>6

\* Unless a rollback can outlive its caller, files are lost only with their claim: the
\* volume a rollback deletes is empty, as its comment says.
THEOREM OnlyDeletedClaimsLoseDataAlways ==
    ASSUME NoStaleRollback
    PROVE  Spec => OnlyDeletedClaimsLoseData
<1>1. Init => TypeOK /\ BackingInv
  BY InitType, BackingInit
<1>2. TypeOK /\ BackingInv /\ [Next]_vars => (TypeOK /\ BackingInv)'
  BY NextType, BackingNext
<1>3. TypeOK /\ BackingInv /\ [Next]_vars =>
        [\A u \in Uuids :
           volume[u].data /\ ~volume'[u].live => claim[volume[u].name].phase = "deleting"]_vars
  BY Loss
<1>4. QED
  BY <1>1, <1>2, <1>3, PTL DEF Spec, OnlyDeletedClaimsLoseData
=============================================================================
