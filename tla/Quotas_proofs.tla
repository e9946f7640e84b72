---------------------------- MODULE Quotas_proofs ----------------------------
(***************************************************************************)
(* Proofs about the quotas of DedicatedVolumes.  Under every fault, only a *)
(* call whose caller gave it up takes an expansion back.  While no caller  *)
(* gives up waiting and with createQuota, provisioning implements          *)
(* CapacityLedger, and what claims were promised fits in the tenant.       *)
(* CreateVolume and ControllerExpandVolume set the quota without reading it, *)
(* so what keeps it right is which handlers can be about to set it.  Sums are *)
(* compared unit by unit: a bijection or an injection between the units of *)
(* two functions takes the place of an induction over the holders.         *)
(***************************************************************************)
EXTENDS OneVolumePerClaim_proofs, FunctionTheorems, FiniteSetTheorems

Expands(h) == Busy(h) /\ handler[h].op = "expand"

QuotasAreAsked == \A u \in Live : volume[u].quota <= claim[volume[u].name].size

CallsAreAsked == \A h \in Handlers : Busy(h) => handler[h].size <= claim[handler[h].claim].size

\* The resizer waits for one call per claim, and calls only for claims that were bound.
OneExpansion ==
    \A h \in Handlers : Expands(h) =>
        /\ claim[handler[h].claim].phase \notin {"pending", "abandoned"}
        /\ \A i \in Handlers : Expands(i) /\ handler[i].claim = handler[h].claim => i = h

ExpansionsGrow ==
    \A h \in Handlers :
        Expands(h) /\ handler[h].pc = "quota" /\ handler[h].vol \in Live =>
            volume[handler[h].vol].quota <= handler[h].size

QuotaInv == QuotasAreAsked /\ CallsAreAsked /\ OneExpansion /\ ExpansionsGrow

USE ParametersAssumption, UuidsAssumption

-----------------------------------------------------------------------------
(* What a step does to sizes, quotas and the calls being served.           *)

LEMMA SizesGrow ==
    ASSUME TypeOK, [Next]_vars, NEW c \in Claims
    PROVE  claim'[c].size \in Nat /\ claim[c].size \in Nat /\ claim'[c].size >= claim[c].size
<1> DEFINE Same == claim'[c].size = claim[c].size
           Larger == claim'[c].size \in Sizes /\ claim'[c].size > claim[c].size
<1>0. /\ claim[c] \in ClaimRecord /\ claim[c].size \in Sizes /\ Sizes \subseteq Nat
      /\ \A h \in Handlers : /\ handler[h].claim \in Claims
                            /\ claim[handler[h].claim] \in ClaimRecord
  BY SizesAssumption DEF TypeOK, ClaimRecord, HandlerRecord
<1>1. ASSUME NEW h \in Handlers, HandlerStep(h) PROVE Same
  <2>1. \/ ApiCallFails(h) \/ Identify(h) \/ CreateNewVolume(h) \/ VolumeExists(h)
        \/ ResolveVolumeName(h) \/ SetVolumeQuota(h) \/ QuotaRefused(h) \/ RollbackVolume(h)
        \/ EraseVolume(h) \/ EraseMissingVolume(h) \/ AnswerUnheard(h)
        => UNCHANGED claim
    BY DEF ApiCallFails, Identify, CreateNewVolume, VolumeExists, ResolveVolumeName,
       SetVolumeQuota, QuotaRefused, RollbackVolume, EraseVolume, EraseMissingVolume,
       AnswerUnheard
  <2>2. ASSUME NEW op, NEW pc, NEW settled, Answer(h, op, pc, settled),
               settled.size = claim[handler[h].claim].size
        PROVE  Same
    BY <1>0, <2>2 DEF Answer, TypeOK
  <2>3. CASE CreateSucceeded(h) \/ CreateFailed(h) \/ ExpandSucceeded(h)
               \/ DeleteSucceeded(h) \/ RetryLater(h)
    BY <1>0, <2>2, <2>3 DEF CreateSucceeded, CreateFailed, ExpandSucceeded, DeleteSucceeded,
       RetryLater, ClaimRecord
  <2>4. QED
    BY <1>1, <2>1, <2>3 DEF HandlerStep
<1>2. ASSUME NEW h \in Handlers, CallTimesOut(h) PROVE Same
  BY <1>0, <1>2 DEF CallTimesOut, TypeOK, ClaimRecord
<1>3. ASSUME NEW d \in Claims, CallerStep(d) PROVE Same
  BY <1>3 DEF CallerStep, CreateVolume, DeleteVolume, ControllerExpandVolume
<1>4. ASSUME NEW d \in Claims, UserStep(d)
      PROVE  Same \/ Larger
  <2>1. CASE DeleteClaim(d)
    BY <1>0, <2>1 DEF DeleteClaim, TypeOK, ClaimRecord
  <2>2. CASE ExpandClaim(d)
    BY <1>0, <2>2 DEF ExpandClaim, TypeOK, ClaimRecord
  <2>3. CASE PodWrites(d)
    BY <2>3 DEF PodWrites
  <2>4. QED
    BY <1>4, <2>1, <2>2, <2>3 DEF UserStep
<1>5. ASSUME ControllerCrash PROVE Same
  BY <1>0, <1>5 DEF ControllerCrash, TypeOK, ClaimRecord
<1>6. ASSUME UNCHANGED vars PROVE Same
  BY <1>6 DEF vars
<1>7. Same \/ Larger
  BY <1>1, <1>2, <1>3, <1>4, <1>5, <1>6 DEF Next
<1>8. claim[c].size \in Nat /\ (claim'[c].size \in Sizes => claim'[c].size \in Nat)
  BY <1>0
<1>9. QED
  BY <1>7, <1>8

LEMMA QuotaSteps ==
    ASSUME TypeOK, [Next]_vars, NEW u \in Live'
    PROVE  \/ /\ u \in Live
              /\ volume'[u].name = volume[u].name /\ volume'[u].quota = volume[u].quota
           \/ /\ u \notin Live /\ volume'[u].quota = 0
              /\ \A i \in Handlers : handler[i].vol # u
              /\ UNCHANGED claim /\ \A c \in Claims : claim[c].handle # u
           \/ \E h \in Handlers :
                /\ SetVolumeQuota(h)
                /\ handler[h].pc = "quota" /\ handler[h].vol = u /\ UNCHANGED claim
                /\ u \in Live /\ volume'[u].name = volume[u].name
                /\ volume'[u].quota = handler[h].size
<1>1. CASE \E h \in Handlers : CreateNewVolume(h)
  <2>1. PICK h \in Handlers, w \in Uuids :
          /\ Fresh(w) /\ UNCHANGED claim
          /\ volume' = [volume EXCEPT ![w] =
               [live |-> TRUE, name |-> handler[h].claim, quota |-> 0, data |-> FALSE]]
    BY <1>1 DEF CreateNewVolume
  <2>2. CASE w = u
    BY <2>1, <2>2 DEF Fresh, Forgotten, TypeOK
  <2>3. CASE w # u
    BY <2>1, <2>3 DEF TypeOK, Live
  <2>4. QED
    BY <2>2, <2>3
<1>2. CASE \E h \in Handlers : SetVolumeQuota(h)
  <2>1. PICK h \in Handlers : SetVolumeQuota(h)
    BY <1>2
  <2>2. /\ handler[h].pc = "quota" /\ UNCHANGED claim
        /\ handler[h].vol \in Live
        /\ volume' = [volume EXCEPT ![handler[h].vol].quota = handler[h].size]
    BY <2>1 DEF SetVolumeQuota, Fits
  <2>3. u \in Live /\ volume'[u].name = volume[u].name
    BY <2>2 DEF TypeOK, VolumeRecord, Live
  <2>4. volume'[u].quota = IF handler[h].vol = u THEN handler[h].size ELSE volume[u].quota
    BY <2>2 DEF TypeOK, VolumeRecord, Live
  <2>5. QED
    BY <2>1, <2>2, <2>3, <2>4
<1>3. CASE \E h \in Handlers : RollbackVolume(h) \/ EraseVolume(h)
  <2>1. PICK h \in Handlers : volume' = Removed(handler[h].vol)
    BY <1>3 DEF RollbackVolume, EraseVolume
  <2>2. QED
    BY <2>1 DEF Removed, NoRecord, TypeOK, VolumeRecord, Live
<1>4. CASE \E c \in Claims : PodWrites(c)
  BY <1>4 DEF PodWrites, TypeOK, VolumeRecord, Live
<1>5. CASE UNCHANGED volume
  BY <1>5 DEF Live
<1>6. QED
  BY <1>1, <1>2, <1>3, <1>4, <1>5, VolumeSteps

\* Which calls a handler serves that is at a given call of the API.
Place(pc, op) ==
    /\ pc \in {"identify", "create", "resolve", "rollback"} => op = "create"
    /\ pc = "erase" => op = "delete"
    /\ pc = "quota" => op # "delete"

Places == \A h \in Handlers : Busy(h) => Place(handler[h].pc, handler[h].op)

LEMMA BackingPlaces == BackingInv => Places
BY DEF BackingInv, ProgramOrder, Places, Place

\* Handler h serves the call it served, and may have learnt its volume.
SameCall(h) ==
    /\ Busy(h) /\ Place(handler'[h].pc, handler'[h].op)
    /\ handler'[h].op = handler[h].op /\ handler'[h].claim = handler[h].claim
    /\ handler'[h].size = handler[h].size
    /\ handler'[h].awaited => handler[h].awaited
    /\ \/ handler'[h].vol = handler[h].vol
       \/ /\ handler[h].op = "create"
          /\ handler'[h].vol \in Live' /\ volume'[handler'[h].vol].name = handler[h].claim
    /\ handler[h].op = "expand" /\ handler'[h].pc = "quota" => handler[h].pc = "quota"

\* Handler h starts to serve a call for claim c.
NewCall(h, c) ==
    /\ UNCHANGED <<claim, volume>> /\ Place(handler'[h].pc, handler'[h].op)
    /\ handler'[h].claim = c /\ handler'[h].size = claim[c].size
    /\ \A i \in Handlers : i # h => handler'[i] = handler[i]
    /\ \/ /\ handler'[h].op = "create" /\ handler'[h].vol = NoVolume
          /\ claim[c].phase = "pending" /\ ~Awaiting(c, {"create", "delete"})
       \/ /\ handler'[h].op = "delete" /\ handler'[h].vol = claim[c].handle
          /\ claim[c].phase = "deleting" /\ ~Awaiting(c, {"create", "delete"})
       \/ /\ handler'[h].op = "expand" /\ handler'[h].vol = claim[c].handle
          /\ claim[c].phase = "bound" /\ ~Awaiting(c, {"expand"})

LEMMA CallSteps ==
    ASSUME TypeOK, Places, [Next]_vars, NEW h \in Handlers, Busy(h)'
    PROVE  SameCall(h) \/ \E c \in Claims : NewCall(h, c)
<1>0. /\ Idle.pc = "idle"
      /\ handler \in [Handlers -> HandlerRecord]
      /\ \A i \in Handlers : handler[i].pc = "create" \/ handler[i].pc = "resolve" =>
            handler[i].op = "create"
      /\ \A i \in Handlers : Busy(i) => Place(handler[i].pc, handler[i].op)
  BY DEF Idle, TypeOK, Places, Place, Busy
<1>1. ASSUME NEW i \in Handlers, HandlerStep(i) PROVE SameCall(h)
  <2> DEFINE May(pc) == Place(pc, handler[i].op) /\ (pc = "quota" => handler[i].op = "create")
  <2>0. ASSUME NEW pc, Goto(i, pc), Busy(i), May(pc)
        PROVE SameCall(h)
    <3>1. /\ handler'[i] = [handler[i] EXCEPT !.pc = pc]
          /\ \A j \in Handlers : j # i => handler'[j] = handler[j]
      BY <2>0, <1>0 DEF Goto
    <3>2. CASE h = i
      BY <1>0, <2>0, <3>1, <3>2 DEF SameCall, HandlerRecord
    <3>3. CASE h # i
      BY <1>0, <3>1, <3>3 DEF SameCall, Busy
    <3>4. QED
      BY <3>2, <3>3
  <2>1. May("failed") /\ May("ok") /\ May(AfterError(i))
    BY DEF Place, AfterError
  <2>2. CASE ApiCallFails(i) \/ QuotaRefused(i)
    BY <2>0, <2>1, <2>2 DEF ApiCallFails, QuotaRefused, Busy
  <2>3. CASE Identify(i) \/ VolumeExists(i)
    <3>1. PICK pc \in {"create", "resolve"} : Goto(i, pc)
      BY <2>3 DEF Identify, VolumeExists
    <3>2. handler[i].op = "create" /\ Busy(i)
      BY <1>0, <2>3 DEF Identify, VolumeExists, Busy, Place
    <3>3. May(pc)
      BY <3>1, <3>2 DEF Place
    <3>4. QED
      BY <2>0, <3>1, <3>2, <3>3
  <2>4. CASE RollbackVolume(i) \/ EraseMissingVolume(i)
    <3>1. PICK pc \in {"ok", "failed"} : Goto(i, pc)
      BY <2>4, ParametersAssumption DEF RollbackVolume, EraseMissingVolume
    <3>2. QED
      BY <2>0, <2>1, <2>4, <3>1 DEF RollbackVolume, EraseMissingVolume, Busy
  <2>5. CASE SetVolumeQuota(i) \/ EraseVolume(i)
    BY <2>0, <2>1, <2>5 DEF SetVolumeQuota, EraseVolume, Answered, Busy
  <2>6. ASSUME NEW u \in Live', HoldVolume(i, u), Busy(i), handler[i].op = "create",
               volume'[u].name = handler[i].claim
        PROVE  SameCall(h)
    <3>1. CASE h = i
      <4>1. handler'[i] = [handler[i] EXCEPT !.vol = u, !.pc = AfterVolume]
        BY <1>0, <2>6 DEF HoldVolume
      <4>2. Place(AfterVolume, "create")
        BY DEF Place, AfterVolume
      <4>3. QED
        BY <1>0, <2>6, <3>1, <4>1, <4>2 DEF SameCall, HandlerRecord
    <3>2. CASE h # i
      BY <1>0, <2>6, <3>2 DEF HoldVolume, SameCall, Busy
    <3>3. QED
      BY <3>1, <3>2
  <2>7. CASE CreateNewVolume(i)
    <3>1. /\ Busy(i) /\ handler[i].op = "create"
          /\ \/ Goto(i, "failed")
             \/ \E u \in Live' : HoldVolume(i, u) /\ volume'[u].name = handler[i].claim
      BY <1>0, <2>7 DEF CreateNewVolume, Busy, Live, TypeOK
    <3>2. QED
      BY <2>0, <2>1, <2>6, <3>1
  <2>8. CASE ResolveVolumeName(i)
    <3>1. /\ Busy(i) /\ handler[i].op = "create"
          /\ \/ Goto(i, "failed")
             \/ \E u \in Live' : HoldVolume(i, u) /\ volume'[u].name = handler[i].claim
      BY <1>0, <2>8 DEF ResolveVolumeName, Busy, Live
    <3>2. QED
      BY <2>0, <2>1, <2>6, <3>1
  <2>9. ASSUME handler' = [handler EXCEPT ![i] = Idle] PROVE SameCall(h)
    BY <1>0, <2>9 DEF Busy, SameCall
  <2>10. CASE CreateSucceeded(i) \/ CreateFailed(i) \/ ExpandSucceeded(i)
               \/ DeleteSucceeded(i) \/ RetryLater(i) \/ AnswerUnheard(i)
    BY <2>9, <2>10 DEF CreateSucceeded, CreateFailed, ExpandSucceeded, DeleteSucceeded,
       RetryLater, AnswerUnheard, Answer
  <2>11. QED
    BY <1>1, <2>2, <2>3, <2>4, <2>5, <2>7, <2>8, <2>10 DEF HandlerStep
<1>2. ASSUME NEW i \in Handlers, CallTimesOut(i) PROVE SameCall(h)
  BY <1>0, <1>2 DEF CallTimesOut, SameCall, HandlerRecord, Busy
<1>3. ASSUME NEW c \in Claims, CallerStep(c) PROVE SameCall(h) \/ NewCall(h, c)
  <2>1. PICK op, pc, vol :
          /\ Call(op, pc, c, vol) /\ UNCHANGED <<claim, volume>>
          /\ \/ /\ op = "create" /\ pc = "identify" /\ vol = NoVolume
                /\ claim[c].phase = "pending" /\ ~Awaiting(c, {"create", "delete"})
             \/ /\ op = "delete" /\ pc = "erase" /\ vol = claim[c].handle
                /\ claim[c].phase = "deleting" /\ ~Awaiting(c, {"create", "delete"})
             \/ /\ op = "expand" /\ pc = "quota" /\ vol = claim[c].handle
                /\ claim[c].phase = "bound" /\ ~Awaiting(c, {"expand"})
    BY <1>3 DEF CallerStep, CreateVolume, DeleteVolume, ControllerExpandVolume, Call
  <2>2. PICK i \in Handlers :
          handler' = [handler EXCEPT ![i] =
            [pc |-> pc, op |-> op, claim |-> c, vol |-> vol,
             size |-> claim[c].size, awaited |-> TRUE]]
    BY <2>1 DEF Call
  <2>3. CASE i = h
    BY <1>0, <2>1, <2>2, <2>3 DEF NewCall, Place
  <2>4. CASE i # h
    <3>1. handler'[h] = handler[h]
      BY <1>0, <2>2, <2>4
    <3>2. QED
      BY <1>0, <3>1 DEF Busy, SameCall
  <2>5. QED
    BY <2>3, <2>4
<1>4. ASSUME NEW c \in Claims, UserStep(c) PROVE SameCall(h)
  BY <1>0, <1>4 DEF UserStep, DeleteClaim, ExpandClaim, PodWrites, Busy, SameCall
<1>5. CASE ControllerCrash
  BY <1>0, <1>5 DEF ControllerCrash, Busy
<1>6. CASE UNCHANGED vars
  BY <1>0, <1>6 DEF vars, Busy, SameCall
<1>7. QED
  BY <1>1, <1>2, <1>3, <1>4, <1>5, <1>6 DEF Next

-----------------------------------------------------------------------------
(* The invariant.                                                          *)

LEMMA QuotaInit == Init => QuotaInv
<1> SUFFICES ASSUME Init PROVE QuotaInv
  OBVIOUS
<1>1. Live = {}
  BY DEF Init, Live, NoRecord
<1>2. \A h \in Handlers : handler[h].pc = "idle"
  BY DEF Init, Idle
<1>3. QED
  BY <1>1, <1>2 DEF QuotaInv, QuotasAreAsked, CallsAreAsked, OneExpansion, ExpansionsGrow,
     Expands, Busy

LEMMA Numbers ==
    ASSUME TypeOK
    PROVE  /\ \A u \in Live : volume[u].quota \in Nat /\ volume[u].name \in Claims
           /\ \A h \in Handlers : handler[h].size \in Nat /\ handler[h].claim \in Claims
           /\ \A c \in Claims : claim[c].size \in Nat
<1>1. \A n \in Sizes : n \in Nat
  BY SizesAssumption
<1>2. \A u \in Live : volume[u].quota \in Sizes \cup {0} /\ volume[u].name \in Claims
  BY DEF TypeOK, VolumeRecord, Live
<1>3. \A h \in Handlers : handler[h].size \in Sizes /\ handler[h].claim \in Claims
  BY DEF TypeOK, HandlerRecord
<1>4. \A c \in Claims : claim[c].size \in Sizes
  BY DEF TypeOK, ClaimRecord
<1>5. QED
  BY <1>1, <1>2, <1>3, <1>4

\* A UUID that a call works on is of a volume of its claim.
UuidsKnown ==
    /\ \A c \in Claims : claim[c].handle \in Live => volume[claim[c].handle].name = c
    /\ \A h \in Handlers :
         Busy(h) /\ handler[h].vol \in Live => volume[handler[h].vol].name = handler[h].claim

LEMMA BackingUuids == BackingInv => UuidsKnown
BY DEF BackingInv, UuidsMatch, UuidsKnown

\* Neither quotas nor calls exceed what the claim asks for, under any fault.
LEMMA AskedNext ==
    ASSUME TypeOK, TypeOK', Places, UuidsKnown, QuotasAreAsked, CallsAreAsked, [Next]_vars
    PROVE  QuotasAreAsked' /\ CallsAreAsked'
<1>1. QuotasAreAsked'
  <2> SUFFICES ASSUME NEW u \in Live'
               PROVE  volume'[u].quota <= claim'[volume'[u].name].size
    BY DEF QuotasAreAsked
  <2>0. volume'[u].name \in Claims
    BY DEF TypeOK, VolumeRecord, Live
  <2>1. claim'[volume'[u].name].size \in Nat
    BY <2>0, SizesGrow
  <2>2. CASE /\ u \in Live
             /\ volume'[u].name = volume[u].name /\ volume'[u].quota = volume[u].quota
    BY <2>0, <2>2, SizesGrow, Numbers DEF QuotasAreAsked
  <2>3. CASE volume'[u].quota = 0
    BY <2>1, <2>3
  <2>4. ASSUME NEW h \in Handlers, handler[h].pc = "quota", handler[h].vol = u, u \in Live,
               UNCHANGED claim,
               volume'[u].name = volume[u].name, volume'[u].quota = handler[h].size
        PROVE  volume'[u].quota <= claim'[volume'[u].name].size
    <3>1. volume[u].name = handler[h].claim
      BY <2>4 DEF UuidsKnown, Busy
    <3>2. QED
      BY <2>4, <3>1 DEF CallsAreAsked, Busy
  <2>5. QED
    BY <2>2, <2>3, <2>4, QuotaSteps
<1>2. CallsAreAsked'
  <2> SUFFICES ASSUME NEW h \in Handlers, Busy(h)'
               PROVE  handler'[h].size <= claim'[handler'[h].claim].size
    BY DEF CallsAreAsked
  <2>1. CASE SameCall(h)
    BY <2>1, SizesGrow, Numbers DEF SameCall, CallsAreAsked
  <2>2. ASSUME NEW c \in Claims, NewCall(h, c)
        PROVE  handler'[h].size <= claim'[handler'[h].claim].size
    BY <2>2, Numbers DEF NewCall
  <2>3. QED
    BY <2>1, <2>2, CallSteps
<1>3. QED
  BY <1>1, <1>2

LEMMA QuotaNext ==
    ASSUME TypeOK, TypeOK', BackingInv, CallersWait, QuotaInv, [Next]_vars
    PROVE  QuotaInv'
<1>1. QuotasAreAsked' /\ CallsAreAsked'
  BY AskedNext, BackingPlaces, BackingUuids DEF QuotaInv
<1>3. OneExpansion'
  <2> SUFFICES ASSUME NEW h \in Handlers, Expands(h)'
               PROVE  /\ claim'[handler'[h].claim].phase \notin {"pending", "abandoned"}
                      /\ \A i \in Handlers :
                           Expands(i)' /\ handler'[i].claim = handler'[h].claim => i = h
    BY DEF OneExpansion
  <2>1. ASSUME NEW i \in Handlers, Expands(i)'
        PROVE  \/ SameCall(i) /\ Expands(i)
               \/ NewCall(i, handler'[i].claim) /\ handler'[i].claim \in Claims
    BY <2>1, BackingPlaces, CallSteps DEF Expands, SameCall, NewCall
  <2>2. claim'[handler'[h].claim].phase \notin {"pending", "abandoned"}
    <3>1. CASE SameCall(h) /\ Expands(h)
      BY <3>1, PhaseSteps, Answers, Numbers DEF SameCall, QuotaInv, OneExpansion
    <3>2. CASE NewCall(h, handler'[h].claim)
      BY <3>2 DEF NewCall, Expands
    <3>3. QED
      BY <2>1, <3>1, <3>2
  <2>3. ASSUME NEW i \in Handlers, NEW j \in Handlers, Expands(i)', Expands(j)',
               handler'[i].claim = handler'[j].claim, NewCall(i, handler'[i].claim), i # j
        PROVE  FALSE
    <3>1. handler'[j] = handler[j] /\ ~Awaiting(handler[j].claim, {"expand"})
      BY <2>3 DEF NewCall, Expands
    <3>2. Expands(j) /\ handler[j].awaited
      BY <2>3, <3>1 DEF Expands, Busy, CallersWait
    <3>3. QED
      BY <3>1, <3>2 DEF Awaiting, Serving, Expands
  <2>4. ASSUME NEW i \in Handlers, Expands(i)', handler'[i].claim = handler'[h].claim
        PROVE  i = h
    BY <2>1, <2>3, <2>4 DEF SameCall, QuotaInv, OneExpansion
  <2>5. QED
    BY <2>2, <2>4
<1>4. ExpansionsGrow'
  <2> SUFFICES ASSUME NEW h \in Handlers, Expands(h)', handler'[h].pc = "quota",
                      handler'[h].vol \in Live'
               PROVE  volume'[handler'[h].vol].quota <= handler'[h].size
    BY DEF ExpansionsGrow
  <2>1. CASE SameCall(h)
    <3> DEFINE u == handler[h].vol
    <3>1. /\ Expands(h) /\ handler[h].pc = "quota"
          /\ handler'[h].vol = u /\ handler'[h].size = handler[h].size
      BY <2>1 DEF SameCall, Expands
    <3>2. CASE u \in Live /\ volume'[u].quota = volume[u].quota
      BY <3>1, <3>2 DEF QuotaInv, ExpansionsGrow
    <3>3. CASE \A i \in Handlers : handler[i].vol # u
      BY <3>3
    <3>4. ASSUME NEW i \in Handlers, handler[i].pc = "quota", handler[i].vol = u, u \in Live,
                 volume'[u].quota = handler[i].size
          PROVE  volume'[u].quota <= handler[h].size
      <4>1. handler[i].claim = handler[h].claim /\ Busy(i)
        BY <3>4 DEF BackingInv, UuidsMatch, Busy
      <4>2. handler[i].op # "create"
        <5>1. handler[i].op = "create" => claim[handler[i].claim].phase = "pending"
          BY <4>1 DEF CallersWait, BackingInv, OneProvisioningCall, Provisions
        <5>2. QED
          BY <3>1, <4>1, <5>1 DEF QuotaInv, OneExpansion
      <4>3. handler[i].op = "expand"
        BY <3>4, <4>1, <4>2 DEF BackingInv, ProgramOrder, TypeOK, HandlerRecord, Ops
      <4>4. i = h
        BY <3>1, <4>1, <4>3 DEF QuotaInv, OneExpansion, Expands
      <4>5. QED
        BY <3>4, <4>4, Numbers
    <3>5. QED
      BY <3>1, <3>2, <3>3, <3>4, QuotaSteps
  <2>2. ASSUME NEW c \in Claims, NewCall(h, c)
        PROVE  volume'[handler'[h].vol].quota <= handler'[h].size
    <3> DEFINE u == claim[c].handle
    <3>1. /\ handler'[h].vol = u /\ handler'[h].size = claim[c].size
          /\ claim[c].phase = "bound" /\ volume' = volume
      BY <2>2 DEF NewCall, Expands
    <3>2. u \in Live /\ volume[u].name = c
      BY <3>1 DEF BackingInv, BoundIsBacked
    <3>3. QED
      BY <3>1, <3>2 DEF QuotaInv, QuotasAreAsked
  <2>3. QED
    BY <2>1, <2>2, BackingPlaces, CallSteps DEF Expands
<1>5. QED
  BY <1>1, <1>3, <1>4 DEF QuotaInv

-----------------------------------------------------------------------------
(* The theorem.                                                            *)

LEMMA NoShrink ==
    ASSUME TypeOK, BackingInv, BackingInv', CallersWait, QuotaInv, [Next]_vars, NEW c \in Claims,
           claim[c].phase = "bound", claim'[c].phase = "bound"
    PROVE  volume'[claim[c].handle].quota >= volume[claim[c].handle].quota
<1> DEFINE u == claim[c].handle
<1>1. u \in Live /\ volume[u].name = c
  BY DEF BackingInv, BoundIsBacked
<1>2. claim'[c].handle = u
  BY PhaseSteps, Answers
<1>3. u \in Live'
  BY <1>2 DEF BackingInv, BoundIsBacked
<1>4. CASE volume'[u].quota = volume[u].quota
  BY <1>1, <1>4, Numbers
<1>5. ASSUME NEW h \in Handlers, handler[h].pc = "quota", handler[h].vol = u,
             volume'[u].quota = handler[h].size
      PROVE  volume'[u].quota >= volume[u].quota
  <2>1. handler[h].claim = c /\ Busy(h)
    BY <1>1, <1>5 DEF BackingInv, UuidsMatch, Busy
  <2>2. handler[h].op # "create"
    BY <2>1 DEF CallersWait, BackingInv, OneProvisioningCall, Provisions
  <2>3. handler[h].op = "expand"
    BY <1>5, <2>1, <2>2 DEF BackingInv, ProgramOrder, TypeOK, HandlerRecord, Ops
  <2>4. volume[u].quota <= handler[h].size
    BY <1>1, <1>5, <2>1, <2>3 DEF QuotaInv, ExpansionsGrow, Expands
  <2>5. QED
    BY <1>1, <1>5, <2>4, Numbers
<1>6. QED
  BY <1>1, <1>3, <1>4, <1>5, QuotaSteps

-----------------------------------------------------------------------------
(* The theorem about forgotten calls, under every fault: what it rests on  *)
(* leaves out where volumes and their data are, which a stale rollback     *)
(* may upset.                                                              *)

\* While the resizer waits for an expansion, no call that sets the quota is for more.
LargestIsAwaited ==
    \A h \in Handlers : Expands(h) /\ handler[h].awaited =>
        LET c == handler[h].claim
        IN  /\ claim[c].phase # "pending"
            /\ \A i \in Handlers :
                 Busy(i) /\ handler[i].op # "delete" /\ handler[i].claim = c =>
                     handler[i].size <= handler[h].size
            /\ handler[h].vol \in Live => volume[handler[h].vol].quota <= handler[h].size

ForgottenInv ==
    /\ Places /\ UuidsKnown /\ OneProvisioningCall
    /\ QuotasAreAsked /\ CallsAreAsked /\ LargestIsAwaited

LEMMA ForgottenInit == Init => ForgottenInv
<1> SUFFICES ASSUME Init PROVE ForgottenInv
  OBVIOUS
<1>1. Live = {}
  BY DEF Init, Live, NoRecord
<1>2. \A h \in Handlers : handler[h].pc = "idle"
  BY DEF Init, Idle
<1>3. QED
  BY <1>1, <1>2 DEF ForgottenInv, Places, UuidsKnown, OneProvisioningCall, Provisions,
     QuotasAreAsked, CallsAreAsked, LargestIsAwaited, Expands, Busy

\* What an answer does to its claim.
LEMMA AnswersHeard ==
    ASSUME TypeOK, NEW h \in Handlers, CreateSucceeded(h) \/ CreateFailed(h) \/ DeleteSucceeded(h)
    PROVE  /\ ~Busy(h)' /\ UNCHANGED volume /\ Provisions(h)
           /\ LET c == handler[h].claim
              IN  \/ /\ CreateSucceeded(h) /\ claim'[c].phase \in {"bound", "deleting"}
                     /\ claim'[c].handle = handler[h].vol
                  \/ /\ CreateFailed(h) /\ claim'[c].phase \in {"pending", "abandoned"}
                     /\ handler[h].op = "create" /\ claim'[c].handle = claim[c].handle
                  \/ claim'[c].phase = "deleted" /\ claim'[c].handle = NoVolume
<1>0. /\ Idle.pc = "idle" /\ handler \in [Handlers -> HandlerRecord]
      /\ handler[h].claim \in Claims /\ claim[handler[h].claim] \in ClaimRecord
      /\ claim \in [Claims -> ClaimRecord]
  BY DEF Idle, TypeOK, HandlerRecord
<1>1. CASE CreateSucceeded(h)
  BY <1>0, <1>1 DEF CreateSucceeded, Answer, ClaimRecord, Busy, Provisions
<1>2. CASE CreateFailed(h)
  BY <1>0, <1>2 DEF CreateFailed, Answer, ClaimRecord, Busy, Provisions
<1>3. CASE DeleteSucceeded(h)
  BY <1>0, <1>3 DEF DeleteSucceeded, Answer, ClaimRecord, Busy, Provisions
<1>4. QED
  BY <1>1, <1>2, <1>3

LEMMA UuidsNext ==
    ASSUME TypeOK, Places, UuidsKnown, [Next]_vars
    PROVE  UuidsKnown'
<1>1. ASSUME NEW c \in Claims, claim'[c].handle \in Live'
      PROVE  volume'[claim'[c].handle].name = c
  <2> DEFINE u == claim'[c].handle
  <2>1. CASE claim'[c].handle = claim[c].handle
    BY <1>1, <2>1, QuotaSteps DEF UuidsKnown
  <2>2. ASSUME NEW h \in Handlers, handler[h].claim = c,
               CreateSucceeded(h) \/ CreateFailed(h) \/ DeleteSucceeded(h)
        PROVE  volume'[u].name = c
    <3>1. /\ UNCHANGED volume /\ u # NoVolume /\ Busy(h)
          /\ u = handler[h].vol \/ u = claim[c].handle
      BY <1>1, <2>2, AnswersHeard DEF Live, Provisions
    <3>2. QED
      BY <1>1, <2>2, <3>1 DEF UuidsKnown, Live
  <2>3. QED
    BY <2>1, <2>2, PhaseSteps
<1>2. ASSUME NEW h \in Handlers, Busy(h)', handler'[h].vol \in Live'
      PROVE  volume'[handler'[h].vol].name = handler'[h].claim
  <2>1. CASE SameCall(h)
    BY <1>2, <2>1, QuotaSteps DEF SameCall, UuidsKnown
  <2>2. ASSUME NEW c \in Claims, NewCall(h, c)
        PROVE  volume'[handler'[h].vol].name = handler'[h].claim
    <3>1. handler'[h].vol = claim[c].handle /\ handler'[h].claim = c /\ UNCHANGED volume
      <4>1. NoVolume \notin Live'
        BY DEF Live
      <4>2. handler'[h].op \in {"create", "delete", "expand"}
        BY NextType DEF TypeOK, HandlerRecord, Ops
      <4>3. QED
        BY <1>2, <2>2, <4>1, <4>2 DEF NewCall
    <3>2. QED
      BY <1>2, <3>1 DEF UuidsKnown, Live
  <2>3. QED
    BY <1>2, <2>1, <2>2, CallSteps
<1>3. QED
  BY <1>1, <1>2 DEF UuidsKnown

LEMMA OneProvisioningNext ==
    ASSUME TypeOK, TypeOK', Places, OneProvisioningCall, [Next]_vars
    PROVE  OneProvisioningCall'
<1>1. ASSUME NEW h \in Handlers, Provisions(h)'
      PROVE  \/ SameCall(h) /\ Provisions(h)
             \/ /\ NewCall(h, handler'[h].claim)
                /\ ~Awaiting(handler'[h].claim, {"create", "delete"})
                /\ claim[handler'[h].claim].phase =
                     IF handler'[h].op = "create" THEN "pending" ELSE "deleting"
  <2>1. CASE SameCall(h)
    BY <1>1, <2>1 DEF SameCall, Provisions
  <2>2. ASSUME NEW c \in Claims, NewCall(h, c)
        PROVE  /\ NewCall(h, handler'[h].claim)
               /\ ~Awaiting(handler'[h].claim, {"create", "delete"})
               /\ claim[handler'[h].claim].phase =
                    IF handler'[h].op = "create" THEN "pending" ELSE "deleting"
    <3>1. c = handler'[h].claim
      BY <2>2 DEF NewCall
    <3>2. QED
      BY <1>1, <2>2, <3>1 DEF NewCall, Provisions
  <2>3. QED
    BY <1>1, <2>1, <2>2, CallSteps DEF Provisions
<1>2. ASSUME NEW h \in Handlers, Provisions(h)'
      PROVE  claim'[handler'[h].claim].phase =
               IF handler'[h].op = "create" THEN "pending" ELSE "deleting"
  <2>1. CASE SameCall(h) /\ Provisions(h)
    <3> DEFINE c == handler[h].claim
    <3>1. /\ c \in Claims /\ handler'[h].claim = c /\ handler'[h].op = handler[h].op
          /\ claim[c].phase = IF handler[h].op = "create" THEN "pending" ELSE "deleting"
      BY <2>1 DEF SameCall, OneProvisioningCall, TypeOK, HandlerRecord
    <3>2. ASSUME NEW i \in Handlers, handler[i].claim = c,
                 CreateSucceeded(i) \/ CreateFailed(i) \/ DeleteSucceeded(i)
          PROVE  FALSE
      <4>1. Provisions(i) /\ ~Busy(i)'
        BY <3>2, AnswersHeard
      <4>2. i = h
        BY <2>1, <3>2, <4>1 DEF OneProvisioningCall
      <4>3. QED
        BY <1>2, <4>1, <4>2 DEF Provisions
    <3>3. claim[c].phase = "pending" => Awaiting(c, {"create"})
      BY <2>1, <3>1 DEF Provisions, Awaiting, Serving
    <3>4. QED
      BY <3>1, <3>2, <3>3, PhaseSteps
  <2>2. QED
    BY <1>1, <1>2, <2>1 DEF NewCall
<1>3. ASSUME NEW h \in Handlers, NEW i \in Handlers, Provisions(h)', Provisions(i)', h # i,
             handler'[h].claim = handler'[i].claim, NewCall(h, handler'[h].claim),
             ~Awaiting(handler'[h].claim, {"create", "delete"})
      PROVE  FALSE
  <2>1. handler'[i] = handler[i]
    BY <1>3 DEF NewCall
  <2>2. QED
    BY <1>3, <2>1 DEF Provisions, Awaiting, Serving, Busy
<1>4. ASSUME NEW h \in Handlers, NEW i \in Handlers, Provisions(h)', Provisions(i)',
             handler'[h].claim = handler'[i].claim
      PROVE  i = h
  <2>1. CASE SameCall(h) /\ Provisions(h) /\ SameCall(i) /\ Provisions(i)
    BY <1>4, <2>1 DEF SameCall, OneProvisioningCall
  <2>2. QED
    BY <1>1, <1>3, <1>4, <2>1
<1>5. QED
  BY <1>2, <1>4 DEF OneProvisioningCall

LEMMA LargestNext ==
    ASSUME TypeOK, TypeOK', ForgottenInv, [Next]_vars
    PROVE  LargestIsAwaited'
<1> SUFFICES ASSUME NEW h \in Handlers, Expands(h)', handler'[h].awaited
             PROVE  LET c == handler'[h].claim
                    IN  /\ claim'[c].phase # "pending"
                        /\ \A i \in Handlers :
                             Busy(i)' /\ handler'[i].op # "delete" /\ handler'[i].claim = c =>
                                 handler'[i].size <= handler'[h].size
                        /\ handler'[h].vol \in Live' =>
                             volume'[handler'[h].vol].quota <= handler'[h].size
  BY DEF LargestIsAwaited
<1> DEFINE c == handler'[h].claim
<1>0. /\ Places /\ c \in Claims /\ Busy(h)' /\ handler'[h].op = "expand"
      /\ \A i \in Handlers : handler'[i].size \in Nat /\ handler[i].size \in Nat
  <2>1. \A n \in Sizes : n \in Nat
    BY SizesAssumption
  <2>2. QED
    BY <2>1 DEF ForgottenInv, TypeOK, HandlerRecord, Expands
<1>1. CASE SameCall(h)
  <2>1. /\ Expands(h) /\ handler[h].awaited /\ handler[h].claim = c
        /\ handler'[h].vol = handler[h].vol /\ handler'[h].size = handler[h].size
    BY <1>0, <1>1 DEF SameCall, Expands
  <2>2. /\ claim[c].phase # "pending"
        /\ \A i \in Handlers :
             Busy(i) /\ handler[i].op # "delete" /\ handler[i].claim = c =>
                 handler[i].size <= handler[h].size
        /\ handler[h].vol \in Live => volume[handler[h].vol].quota <= handler[h].size
    BY <2>1 DEF ForgottenInv, LargestIsAwaited
  <2>3. claim'[c].phase # "pending"
    <3>1. ASSUME NEW i \in Handlers, handler[i].claim = c,
                 CreateSucceeded(i) \/ CreateFailed(i) \/ DeleteSucceeded(i)
          PROVE  claim'[c].phase # "pending"
      <4>1. CreateFailed(i) /\ handler[i].op = "create" /\ Provisions(i) =>
              claim[c].phase = "pending"
        BY <3>1 DEF ForgottenInv, OneProvisioningCall
      <4>2. QED
        BY <2>2, <3>1, <4>1, AnswersHeard
    <3>2. QED
      BY <1>0, <2>2, <3>1, PhaseSteps
  <2>4. ASSUME NEW i \in Handlers, Busy(i)', handler'[i].op # "delete", handler'[i].claim = c
        PROVE  handler'[i].size <= handler'[h].size
    <3>1. CASE SameCall(i)
      BY <2>1, <2>2, <2>4, <3>1 DEF SameCall
    <3>2. ASSUME NEW d \in Claims, NewCall(i, d)
          PROVE  handler'[i].size <= handler'[h].size
      <4>1. CASE i = h
        BY <1>0, <4>1
      <4>2. CASE i # h
        <5>1. d = c /\ handler'[i].op \in {"create", "expand"}
          BY <2>4, <3>2 DEF NewCall, TypeOK, HandlerRecord, Ops
        <5>2. handler'[i].op = "expand" /\ ~Awaiting(c, {"expand"})
          BY <2>2, <3>2, <5>1 DEF NewCall
        <5>3. QED
          BY <2>1, <5>2 DEF Awaiting, Serving, Expands
      <4>3. QED
        BY <4>1, <4>2
    <3>3. QED
      BY <1>0, <2>4, <3>1, <3>2, CallSteps
  <2>5. ASSUME handler[h].vol \in Live'
        PROVE  volume'[handler[h].vol].quota <= handler[h].size
    <3> DEFINE u == handler[h].vol
    <3>1. ASSUME NEW i \in Handlers, handler[i].pc = "quota", handler[i].vol = u, u \in Live,
                 volume'[u].quota = handler[i].size
          PROVE  volume'[u].quota <= handler[h].size
      <4>1. Busy(i) /\ handler[i].op # "delete"
        BY <3>1 DEF ForgottenInv, Places, Place, Busy
      <4>2. handler[i].claim = c
        BY <2>1, <3>1, <4>1 DEF ForgottenInv, UuidsKnown, Expands
      <4>3. QED
        BY <2>2, <3>1, <4>1, <4>2
    <3>2. CASE u \in Live /\ volume'[u].quota = volume[u].quota
      BY <2>2, <3>2
    <3>3. QED
      BY <2>5, <3>1, <3>2, QuotaSteps
  <2>6. QED
    BY <2>1, <2>3, <2>4, <2>5
<1>2. ASSUME NEW d \in Claims, NewCall(h, d)
      PROVE  /\ claim'[c].phase # "pending"
             /\ \A i \in Handlers :
                  Busy(i)' /\ handler'[i].op # "delete" /\ handler'[i].claim = c =>
                      handler'[i].size <= handler'[h].size
             /\ handler'[h].vol \in Live' =>
                  volume'[handler'[h].vol].quota <= handler'[h].size
  <2>1. /\ UNCHANGED <<claim, volume>> /\ d = c /\ claim[c].phase = "bound"
        /\ handler'[h].vol = claim[c].handle /\ handler'[h].size = claim[c].size
    BY <1>0, <1>2 DEF NewCall
  <2>2. CallsAreAsked' /\ QuotasAreAsked'
    BY AskedNext DEF ForgottenInv
  <2>3. \A i \in Handlers : Busy(i)' /\ handler'[i].claim = c => handler'[i].size <= claim[c].size
    BY <2>1, <2>2 DEF CallsAreAsked
  <2>4. handler'[h].vol \in Live' => volume'[handler'[h].vol].quota <= claim[c].size
    <3>1. handler'[h].vol \in Live' => volume'[handler'[h].vol].name = c
      BY <2>1 DEF ForgottenInv, UuidsKnown, Live
    <3>2. QED
      BY <2>1, <2>2, <3>1 DEF QuotasAreAsked
  <2>5. QED
    BY <2>1, <2>3, <2>4
<1>3. QED
  BY <1>0, <1>1, <1>2, CallSteps

LEMMA ForgottenNext ==
    ASSUME TypeOK, TypeOK', ForgottenInv, [Next]_vars
    PROVE  ForgottenInv'
<1>1. Places'
  BY CallSteps DEF ForgottenInv, Places, SameCall, NewCall
<1>2. UuidsKnown' /\ OneProvisioningCall'
  BY UuidsNext, OneProvisioningNext DEF ForgottenInv
<1>3. QuotasAreAsked' /\ CallsAreAsked' /\ LargestIsAwaited'
  BY AskedNext, LargestNext DEF ForgottenInv
<1>4. QED
  BY <1>1, <1>2, <1>3 DEF ForgottenInv

LEMMA ForgottenShrink ==
    ASSUME TypeOK, ForgottenInv, [Next]_vars, NEW c \in Claims, claim[c].phase = "bound",
           NEW u \in Live, u = claim[c].handle, volume'[u].live,
           volume'[u].quota < volume[u].quota
    PROVE  \E h \in Handlers : SetVolumeQuota(h) /\ handler[h].vol = u /\ ~handler[h].awaited
<1>0. volume[u].quota \in Nat /\ \A h \in Handlers : handler[h].size \in Nat
  BY Numbers
<1>1. u \in Live'
  BY DEF Live
<1>2. PICK h \in Handlers :
        /\ SetVolumeQuota(h) /\ handler[h].pc = "quota" /\ handler[h].vol = u
        /\ volume'[u].quota = handler[h].size
  BY <1>0, <1>1, QuotaSteps
<1>3. ASSUME handler[h].awaited PROVE FALSE
  <2>1. Busy(h) /\ handler[h].claim = c /\ handler[h].op \in {"create", "expand"}
    BY <1>2 DEF ForgottenInv, UuidsKnown, Places, Place, Busy, TypeOK, HandlerRecord, Ops
  <2>2. handler[h].op # "create"
    BY <1>3, <2>1 DEF ForgottenInv, OneProvisioningCall, Provisions
  <2>3. volume[u].quota <= handler[h].size
    BY <1>2, <1>3, <2>1, <2>2 DEF ForgottenInv, LargestIsAwaited, Expands
  <2>4. QED
    BY <1>0, <1>2, <2>3
<1>4. QED
  BY <1>2, <1>3

\* Under every fault, crashes and given-up calls among them: an expansion is taken back only
\* by the handler of a call whose caller had given it up (controller.go:163, :523).  With one
\* caller per claim that waits for its latest call, a larger size is always asked for last.
THEOREM OnlyForgottenCallsShrinkQuotasAlways == Spec => OnlyForgottenCallsShrinkQuotas
<1>1. Init => TypeOK /\ ForgottenInv
  BY InitType, ForgottenInit
<1>2. TypeOK /\ ForgottenInv /\ [Next]_vars => (TypeOK /\ ForgottenInv)'
  BY NextType, ForgottenNext
<1>3. TypeOK /\ ForgottenInv /\ [Next]_vars =>
        [\A c \in Claims :
           LET u == claim[c].handle
           IN  claim[c].phase = "bound" /\ u \in Live /\ volume'[u].live
                 /\ volume'[u].quota < volume[u].quota
               => \E h \in Handlers :
                    SetVolumeQuota(h) /\ handler[h].vol = u /\ ~handler[h].awaited]_vars
  BY ForgottenShrink
<1>4. QED
  BY <1>1, <1>2, <1>3, PTL DEF Spec, OnlyForgottenCallsShrinkQuotas

-----------------------------------------------------------------------------
(* Sums, by counting units.                                                *)

LEMMA UnitsAre ==
    ASSUME NEW f, NEW S
    PROVE  \A x : x \in Units(f, S) <=> \E h \in S : \E i \in 1 .. f[h] : x = <<h, i>>
<1>1. ASSUME NEW x PROVE x \in Units(f, S) <=> \E h \in S : x \in {h} \X (1 .. f[h])
  BY DEF Units
<1>2. ASSUME NEW x, NEW h PROVE x \in {h} \X (1 .. f[h]) <=> \E i \in 1 .. f[h] : x = <<h, i>>
  OBVIOUS
<1>3. QED
  BY <1>1, <1>2

LEMMA UnitsFinite ==
    ASSUME NEW S, IsFiniteSet(S), NEW f, \A h \in S : f[h] \in Nat
    PROVE  IsFiniteSet(Units(f, S))
<1> DEFINE own == [h \in S |-> {h} \X (1 .. f[h])]
           U == {{h} \X (1 .. f[h]) : h \in S}
<1>1. own \in Surjection(S, U)
  BY Fun_IsSurj
<1>2. IsFiniteSet(U)
  BY <1>1, FS_Surjection
<1>3. \A h \in S : IsFiniteSet({h} \X (1 .. f[h]))
  <2> SUFFICES ASSUME NEW h \in S PROVE IsFiniteSet({h} \X (1 .. f[h]))
    OBVIOUS
  <2>1. IsFiniteSet({h})
    BY FS_Singleton
  <2>2. IsFiniteSet(1 .. f[h])
    BY FS_Interval
  <2>3. QED
    BY <2>1, <2>2, FS_Product
<1>4. \A T \in U : IsFiniteSet(T)
  BY <1>3
<1>5. QED
  BY <1>2, <1>4, FS_UNION DEF Units

LEMMA TotalOfOne ==
    ASSUME NEW f, NEW h, f[h] \in Nat
    PROVE  Total(f, {h}) = f[h]
<1>1. Units(f, {h}) = {h} \X (1 .. f[h])
  BY DEF Units
<1>2. IsFiniteSet({h}) /\ Cardinality({h}) = 1
  BY FS_Singleton
<1>3. IsFiniteSet(1 .. f[h]) /\ Cardinality(1 .. f[h]) = f[h]
  BY FS_Interval
<1>4. Cardinality({h} \X (1 .. f[h])) = Cardinality({h}) * Cardinality(1 .. f[h])
  BY <1>2, <1>3, FS_Product
<1>5. Cardinality({h}) * Cardinality(1 .. f[h]) = f[h]
  BY <1>2, <1>3
<1>6. QED
  BY <1>1, <1>4, <1>5 DEF Total

LEMMA TotalIsNat ==
    ASSUME NEW S, IsFiniteSet(S), NEW f, \A h \in S : f[h] \in Nat
    PROVE  Total(f, S) \in Nat
BY UnitsFinite, FS_CardinalityType DEF Total

LEMMA TotalOfNone == ASSUME NEW f PROVE Total(f, {}) = 0
BY FS_EmptySet DEF Total, Units

LEMMA TotalSplit ==
    ASSUME NEW S, IsFiniteSet(S), NEW f, \A h \in S : f[h] \in Nat, NEW h \in S
    PROVE  Total(f, S) = Total(f, S \ {h}) + f[h]
<1> DEFINE A == Units(f, S \ {h})
           B == Units(f, {h})
<1>1. Units(f, S) = A \cup B
  BY DEF Units
<1>2. A \cap B = {}
  <2> SUFFICES ASSUME NEW x \in A, x \in B PROVE FALSE
    OBVIOUS
  <2>1. PICK k \in S \ {h} : \E i \in 1 .. f[k] : x = <<k, i>>
    BY UnitsAre
  <2>2. \E i \in 1 .. f[h] : x = <<h, i>>
    BY UnitsAre
  <2>3. QED
    BY <2>1, <2>2
<1>3. IsFiniteSet(A) /\ IsFiniteSet(B)
  <2>1. IsFiniteSet(S \ {h}) /\ IsFiniteSet({h})
    BY FS_Subset
  <2>2. QED
    BY <2>1, UnitsFinite
<1>4. Cardinality(A \cup B) = Cardinality(A) + Cardinality(B) - Cardinality(A \cap B)
  BY <1>3, FS_Union
<1>5. Cardinality(A \cap B) = 0 /\ Cardinality(B) = f[h]
  BY <1>2, FS_EmptySet, TotalOfOne DEF Total
<1>6. Cardinality(A) \in Nat
  BY <1>3, FS_CardinalityType
<1>7. QED
  BY <1>1, <1>4, <1>5, <1>6 DEF Total

\* Every unit that g has is one that f has.
LEMMA TotalWithin ==
    ASSUME NEW S, IsFiniteSet(S), NEW f, \A h \in S : f[h] \in Nat,
           NEW T, NEW g, NEW m,
           \A t \in T : g[t] \in Nat,
           \A t \in T : g[t] # 0 => m[t] \in S /\ g[t] <= f[m[t]],
           \A t, v \in T : g[t] # 0 /\ g[v] # 0 /\ m[t] = m[v] => t = v
    PROVE  Total(g, T) \in Nat /\ Total(g, T) <= Total(f, S)
<1> DEFINE B == [x \in Units(g, T) |-> <<m[x[1]], x[2]>>]
<1>0. ASSUME NEW x \in Units(g, T)
      PROVE  \E t \in T : \E i \in 1 .. g[t] : x = <<t, i>> /\ g[t] # 0
  <2>1. PICK t \in T : \E i \in 1 .. g[t] : x = <<t, i>>
    BY UnitsAre
  <2>2. g[t] \in Nat
    OBVIOUS
  <2>3. QED
    BY <2>1, <2>2
<1>1. B \in [Units(g, T) -> Units(f, S)]
  <2> SUFFICES ASSUME NEW x \in Units(g, T) PROVE <<m[x[1]], x[2]>> \in Units(f, S)
    OBVIOUS
  <2>1. PICK t \in T : \E i \in 1 .. g[t] : x = <<t, i>> /\ g[t] # 0
    BY <1>0
  <2>2. PICK i \in 1 .. g[t] : x = <<t, i>> /\ g[t] # 0
    BY <2>1
  <2>3. m[t] \in S /\ g[t] <= f[m[t]] /\ g[t] \in Nat /\ f[m[t]] \in Nat
    BY <2>2
  <2>4. i \in 1 .. f[m[t]]
    BY <2>3
  <2>5. QED
    BY <2>2, <2>3, <2>4, UnitsAre
<1>2. ASSUME NEW x \in Units(g, T), NEW y \in Units(g, T), B[x] = B[y] PROVE x = y
  <2>1. PICK t, i : t \in T /\ x = <<t, i>> /\ g[t] # 0
    BY <1>0
  <2>2. PICK v, j : v \in T /\ y = <<v, j>> /\ g[v] # 0
    BY <1>0
  <2>3. m[t] = m[v] /\ i = j
    BY <1>2, <2>1, <2>2
  <2>4. QED
    BY <2>1, <2>2, <2>3
<1>3. B \in Injection(Units(g, T), Units(f, S))
  <2> HIDE DEF B
  <2> QED
    BY <1>1, <1>2, Fun_IsInj
<1>4. QED
  BY <1>3, UnitsFinite, FS_Injection, FS_CardinalityType DEF Total

LEMMA SameTotal ==
    ASSUME NEW S, IsFiniteSet(S), NEW f, \A h \in S : f[h] \in Nat,
           NEW T, NEW g, NEW m \in [S -> T],
           \A h \in S : g[m[h]] = f[h],
           \A h, k \in S : m[h] = m[k] => h = k,
           \A t \in T : g[t] = 0 \/ \E h \in S : m[h] = t
    PROVE  Total(g, T) = Total(f, S)
<1> DEFINE B == [x \in Units(f, S) |-> <<m[x[1]], x[2]>>]
<1>1. B \in [Units(f, S) -> Units(g, T)]
  <2> SUFFICES ASSUME NEW x \in Units(f, S) PROVE <<m[x[1]], x[2]>> \in Units(g, T)
    OBVIOUS
  <2>1. PICK h \in S : \E i \in 1 .. f[h] : x = <<h, i>>
    BY UnitsAre
  <2>2. PICK i \in 1 .. f[h] : x = <<h, i>>
    BY <2>1
  <2>3. m[h] \in T /\ i \in 1 .. g[m[h]]
    OBVIOUS
  <2>4. QED
    BY <2>2, <2>3, UnitsAre
<1>2. ASSUME NEW x \in Units(f, S), NEW y \in Units(f, S), B[x] = B[y] PROVE x = y
  <2>1. PICK h \in S : \E i \in 1 .. f[h] : x = <<h, i>>
    BY UnitsAre
  <2>2. PICK k \in S : \E j \in 1 .. f[k] : y = <<k, j>>
    BY UnitsAre
  <2>3. PICK i, j : x = <<h, i>> /\ y = <<k, j>>
    BY <2>1, <2>2
  <2>4. m[h] = m[k] /\ i = j
    BY <1>2, <2>3
  <2>5. QED
    BY <2>3, <2>4
<1>3. ASSUME NEW y \in Units(g, T) PROVE \E x \in Units(f, S) : B[x] = y
  <2>1. PICK t \in T : \E i \in 1 .. g[t] : y = <<t, i>>
    BY UnitsAre
  <2>2. PICK i \in 1 .. g[t] : y = <<t, i>>
    BY <2>1
  <2>3. PICK h \in S : m[h] = t
    BY <2>2
  <2>4. <<h, i>> \in Units(f, S)
    BY <2>3, UnitsAre
  <2>5. QED
    BY <2>2, <2>3, <2>4
<1>4. B \in Bijection(Units(f, S), Units(g, T))
  <2> HIDE DEF B
  <2> QED
    BY <1>1, <1>2, <1>3, Fun_IsBij
<1>5. ExistsBijection(Units(f, S), Units(g, T))
  BY <1>4 DEF ExistsBijection
<1>6. QED
  BY <1>5, UnitsFinite, FS_Bijection DEF Total

-----------------------------------------------------------------------------
(* The ledger.  What has been promised or is about to be is reserved.      *)

PromisesReserved ==
    \A c \in Claims : claim[c].phase = "bound" =>
        claim[c].granted <= volume[claim[c].handle].quota

AnswersReserved ==
    \A h \in Handlers :
        /\ handler[h].pc = "ok" /\ handler[h].op # "delete" /\ handler[h].vol \in Live
        => volume[handler[h].vol].quota = handler[h].size

\* An expansion works on the volume of its claim.
ExpansionsKnowWhat ==
    \A h \in Handlers : Expands(h) /\ claim[handler[h].claim].phase = "bound" =>
        handler[h].vol = claim[handler[h].claim].handle

LedgerInv == IsFiniteSet(Live) /\ PromisesReserved /\ AnswersReserved /\ ExpansionsKnowWhat

LEMMA AmountsAreNumbers == \A n \in Sizes \cup {0} : n \in Nat
BY SizesAssumption

LEMMA LedgerInvInit == Init => LedgerInv
<1> SUFFICES ASSUME Init PROVE LedgerInv
  OBVIOUS
<1>1. Live = {}
  BY DEF Init, Live, NoRecord
<1>2. \A h \in Handlers : handler[h].pc = "idle"
  BY DEF Init, Idle
<1>3. \A c \in Claims : claim[c].phase = "pending"
  BY DEF Init
<1>4. QED
  BY <1>1, <1>2, <1>3, FS_EmptySet DEF LedgerInv, PromisesReserved, AnswersReserved,
     ExpansionsKnowWhat, Expands, Busy

LEMMA FewLive ==
    ASSUME TypeOK, [Next]_vars, IsFiniteSet(Live)
    PROVE  IsFiniteSet(Live')
<1>1. ASSUME NEW h \in Handlers, CreateNewVolume(h) PROVE IsFiniteSet(Live')
  BY <1>1, VolumeAdded, FS_AddElement
<1>2. CASE \A h \in Handlers : ~CreateNewVolume(h)
  <2>1. Live' \subseteq Live
    BY <1>2, NamesKept
  <2>2. QED
    BY <2>1, FS_Subset
<1>3. QED
  BY <1>1, <1>2

\* Capacity is granted by answers only.
LEMMA GrantSteps ==
    ASSUME TypeOK, [Next]_vars, NEW c \in Claims
    PROVE  \/ claim'[c].granted = claim[c].granted
           \/ \E h \in Handlers : /\ handler[h].claim = c
                                  /\ CreateSucceeded(h) \/ ExpandSucceeded(h)
<1> DEFINE Same == claim'[c].granted = claim[c].granted
<1>0. claim[c] \in ClaimRecord
  BY DEF TypeOK
<1>1. ASSUME NEW h \in Handlers, HandlerStep(h)
      PROVE  \/ Same
             \/ handler[h].claim = c /\ (CreateSucceeded(h) \/ ExpandSucceeded(h))
  <2>0. handler[h].claim \in Claims /\ claim[handler[h].claim] \in ClaimRecord
    BY DEF TypeOK, HandlerRecord
  <2>1. \/ ApiCallFails(h) \/ Identify(h) \/ CreateNewVolume(h) \/ VolumeExists(h)
        \/ ResolveVolumeName(h) \/ SetVolumeQuota(h) \/ QuotaRefused(h) \/ RollbackVolume(h)
        \/ EraseVolume(h) \/ EraseMissingVolume(h) \/ AnswerUnheard(h)
        => UNCHANGED claim
    BY DEF ApiCallFails, Identify, CreateNewVolume, VolumeExists, ResolveVolumeName,
       SetVolumeQuota, QuotaRefused, RollbackVolume, EraseVolume, EraseMissingVolume,
       AnswerUnheard
  <2>2. CASE handler[h].claim # c /\ (CreateSucceeded(h) \/ ExpandSucceeded(h))
    BY <2>0, <2>2 DEF CreateSucceeded, ExpandSucceeded, Answer, TypeOK
  <2>3. ASSUME NEW op, NEW pc, NEW settled, Answer(h, op, pc, settled),
               settled.granted = claim[handler[h].claim].granted
        PROVE  Same
    BY <2>0, <2>3 DEF Answer, TypeOK
  <2>4. CASE CreateFailed(h) \/ DeleteSucceeded(h) \/ RetryLater(h)
    BY <2>0, <2>3, <2>4 DEF CreateFailed, DeleteSucceeded, RetryLater, ClaimRecord
  <2>5. QED
    BY <1>1, <2>1, <2>2, <2>4 DEF HandlerStep
<1>2. ASSUME NEW h \in Handlers, CallTimesOut(h) PROVE Same
  BY <1>0, <1>2 DEF CallTimesOut, TypeOK, HandlerRecord, ClaimRecord
<1>3. ASSUME NEW d \in Claims, CallerStep(d) PROVE Same
  BY <1>3 DEF CallerStep, CreateVolume, DeleteVolume, ControllerExpandVolume
<1>4. ASSUME NEW d \in Claims, UserStep(d) PROVE Same
  BY <1>0, <1>4 DEF UserStep, DeleteClaim, ExpandClaim, PodWrites, TypeOK, ClaimRecord
<1>5. CASE ControllerCrash
  BY <1>0, <1>5 DEF ControllerCrash, TypeOK, ClaimRecord
<1>6. CASE UNCHANGED vars
  BY <1>6 DEF vars
<1>7. QED
  BY <1>1, <1>2, <1>3, <1>4, <1>5, <1>6 DEF Next

\* What a successful answer grants is what the volume has.
LEMMA Grants ==
    ASSUME TypeOK, BackingInv, AnswersReserved, ExpansionsKnowWhat, NEW h \in Handlers
    PROVE  LET c == handler[h].claim
               u == handler[h].vol
           IN  /\ CreateSucceeded(h) =>
                     /\ claim[c].phase = "pending" /\ u \in Live /\ volume[u].quota = handler[h].size
                     /\ claim'[c].handle = u /\ claim'[c].granted = handler[h].size
                     /\ UNCHANGED volume
               /\ ExpandSucceeded(h) =>
                     /\ claim'[c].granted = handler[h].size
                     /\ claim'[c].phase = claim[c].phase /\ claim'[c].handle = claim[c].handle
                     /\ claim[c].phase = "bound" =>
                          u = claim[c].handle /\ volume[u].quota = handler[h].size
                     /\ UNCHANGED volume
<1> DEFINE c == handler[h].claim
           u == handler[h].vol
<1>0. c \in Claims /\ claim[c] \in ClaimRecord
  BY DEF TypeOK, HandlerRecord
<1>1. ASSUME CreateSucceeded(h)
      PROVE  /\ claim[c].phase = "pending" /\ u \in Live /\ volume[u].quota = handler[h].size
             /\ claim'[c].handle = u /\ claim'[c].granted = handler[h].size
             /\ UNCHANGED volume
  <2>1. claim[c].phase = "pending" /\ u \in Live /\ claim'[c].handle = u
    BY <1>1, Answers
  <2>2. volume[u].quota = handler[h].size
    BY <1>1, <2>1 DEF CreateSucceeded, Answer, AnswersReserved
  <2>3. claim'[c].granted = handler[h].size /\ UNCHANGED volume
    BY <1>0, <1>1 DEF CreateSucceeded, Answer, TypeOK, ClaimRecord
  <2>4. QED
    BY <2>1, <2>2, <2>3
<1>2. ASSUME ExpandSucceeded(h)
      PROVE  /\ claim'[c].granted = handler[h].size
             /\ claim'[c].phase = claim[c].phase /\ claim'[c].handle = claim[c].handle
             /\ claim[c].phase = "bound" =>
                  u = claim[c].handle /\ volume[u].quota = handler[h].size
             /\ UNCHANGED volume
  <2>1. /\ claim'[c].granted = handler[h].size /\ UNCHANGED volume
        /\ claim'[c].phase = claim[c].phase /\ claim'[c].handle = claim[c].handle
    BY <1>0, <1>2 DEF ExpandSucceeded, Answer, TypeOK, ClaimRecord
  <2>2. ASSUME claim[c].phase = "bound"
        PROVE  u = claim[c].handle /\ volume[u].quota = handler[h].size
    <3>1. handler[h].pc = "ok" /\ handler[h].op = "expand" /\ Expands(h)
      BY <1>2 DEF ExpandSucceeded, Answer, Expands, Busy
    <3>2. u = claim[c].handle /\ u \in Live
      BY <1>0, <2>2, <3>1 DEF ExpansionsKnowWhat, BackingInv, BoundIsBacked
    <3>3. QED
      BY <3>1, <3>2 DEF AnswersReserved
  <2>3. QED
    BY <2>1, <2>2
<1>3. QED
  BY <1>1, <1>2

\* With createQuota a handler that holds a volume succeeds only by setting its quota.
LEMMA OkSteps ==
    ASSUME TypeOK, BackingInv, CreateQuota, [Next]_vars, NEW h \in Handlers,
           handler'[h].pc = "ok", handler'[h].op # "delete"
    PROVE  /\ handler'[h].vol = handler[h].vol /\ handler'[h].size = handler[h].size
           /\ handler'[h].op = handler[h].op
           /\ handler[h].pc = "ok" \/ SetVolumeQuota(h)
<1> DEFINE Kept == /\ handler'[h].vol = handler[h].vol /\ handler'[h].size = handler[h].size
                   /\ handler'[h].op = handler[h].op
                   /\ handler[h].pc = "ok" \/ SetVolumeQuota(h)
<1>0. /\ Idle.pc = "idle" /\ AfterVolume = "quota"
      /\ handler \in [Handlers -> HandlerRecord]
      /\ \A i \in Handlers : handler[i].pc = "erase" => handler[i].op = "delete"
      /\ \A i \in Handlers : AfterError(i) # "ok"
  BY DEF Idle, AfterVolume, TypeOK, BackingInv, ProgramOrder, Busy, AfterError
<1>1. ASSUME NEW i \in Handlers, HandlerStep(i) PROVE Kept
  <2>0. ASSUME NEW pc, Goto(i, pc), pc # "ok" \/ handler[i].op = "delete" \/ SetVolumeQuota(i)
        PROVE  Kept
    <3>1. /\ handler'[i] = [handler[i] EXCEPT !.pc = pc]
          /\ \A j \in Handlers : j # i => handler'[j] = handler[j]
      BY <2>0, <1>0 DEF Goto
    <3>2. CASE h = i
      BY <1>0, <2>0, <3>1, <3>2 DEF HandlerRecord
    <3>3. CASE h # i
      BY <3>1, <3>3
    <3>4. QED
      BY <3>2, <3>3
  <2>1. CASE ApiCallFails(i) \/ QuotaRefused(i)
    BY <1>0, <2>0, <2>1 DEF ApiCallFails, QuotaRefused
  <2>2. CASE Identify(i) \/ VolumeExists(i) \/ RollbackVolume(i) \/ EraseMissingVolume(i)
    BY <1>0, <2>0, <2>2 DEF Identify, VolumeExists, RollbackVolume, EraseMissingVolume
  <2>3. CASE SetVolumeQuota(i) \/ EraseVolume(i)
    BY <1>0, <2>0, <2>3 DEF SetVolumeQuota, EraseVolume, Answered
  <2>4. ASSUME NEW u, HoldVolume(i, u) PROVE Kept
    BY <1>0, <2>4 DEF HoldVolume, HandlerRecord
  <2>5. CASE CreateNewVolume(i) \/ ResolveVolumeName(i)
    BY <2>0, <2>4, <2>5 DEF CreateNewVolume, ResolveVolumeName
  <2>6. CASE CreateSucceeded(i) \/ CreateFailed(i) \/ ExpandSucceeded(i)
               \/ DeleteSucceeded(i) \/ RetryLater(i) \/ AnswerUnheard(i)
    <3>1. handler' = [handler EXCEPT ![i] = Idle]
      BY <2>6 DEF CreateSucceeded, CreateFailed, ExpandSucceeded, DeleteSucceeded,
         RetryLater, AnswerUnheard, Answer
    <3>2. QED
      BY <1>0, <3>1
  <2>7. QED
    BY <1>1, <2>1, <2>2, <2>3, <2>5, <2>6 DEF HandlerStep
<1>2. ASSUME NEW i \in Handlers, CallTimesOut(i) PROVE Kept
  BY <1>0, <1>2 DEF CallTimesOut, HandlerRecord
<1>3. ASSUME NEW c \in Claims, CallerStep(c) PROVE Kept
  <2>1. PICK op, pc, vol : Call(op, pc, c, vol) /\ pc # "ok"
    BY <1>3 DEF CallerStep, CreateVolume, DeleteVolume, ControllerExpandVolume
  <2>2. PICK i \in Handlers :
          handler' = [handler EXCEPT ![i] =
            [pc |-> pc, op |-> op, claim |-> c, vol |-> vol,
             size |-> claim[c].size, awaited |-> TRUE]]
    BY <2>1 DEF Call
  <2>3. QED
    BY <1>0, <2>1, <2>2
<1>4. ASSUME NEW c \in Claims, UserStep(c) PROVE Kept
  BY <1>4 DEF UserStep, DeleteClaim, ExpandClaim, PodWrites
<1>5. CASE ControllerCrash
  BY <1>0, <1>5 DEF ControllerCrash
<1>6. CASE UNCHANGED vars
  BY <1>6 DEF vars
<1>7. QED
  BY <1>1, <1>2, <1>3, <1>4, <1>5, <1>6 DEF Next

LEMMA LedgerInvNext ==
    ASSUME TypeOK, TypeOK', BackingInv, BackingInv', CallersWait, QuotaInv, LedgerInv,
           CreateQuota, [Next]_vars
    PROVE  LedgerInv'
<1>1. IsFiniteSet(Live')
  BY FewLive DEF LedgerInv
<1>2. PromisesReserved'
  <2> SUFFICES ASSUME NEW c \in Claims, claim'[c].phase = "bound"
               PROVE  claim'[c].granted <= volume'[claim'[c].handle].quota
    BY DEF PromisesReserved
  <2>0. \A h \in Handlers : handler[h].size \in Nat
    BY Numbers
  <2>1. ASSUME NEW h \in Handlers, handler[h].claim = c, CreateSucceeded(h) \/ ExpandSucceeded(h)
        PROVE  claim'[c].granted <= volume'[claim'[c].handle].quota
    BY <2>0, <2>1, Grants DEF LedgerInv
  <2>2. CASE /\ claim'[c].granted = claim[c].granted
             /\ ~ \E h \in Handlers : handler[h].claim = c /\ CreateSucceeded(h)
    <3>1. claim[c].phase = "bound" /\ claim'[c].handle = claim[c].handle
      BY <2>2, PhaseSteps, Answers
    <3>2. volume'[claim[c].handle].quota >= volume[claim[c].handle].quota
      BY <3>1, NoShrink
    <3>3. claim[c].granted <= volume[claim[c].handle].quota
      BY <3>1 DEF LedgerInv, PromisesReserved
    <3>4. /\ claim[c].granted \in Nat
          /\ volume[claim[c].handle].quota \in Nat /\ volume'[claim[c].handle].quota \in Nat
      <4>1. claim[c].handle \in Uuids
        BY <3>1 DEF BackingInv, BoundIsBacked, Live
      <4>2. claim[c] \in ClaimRecord
        BY DEF TypeOK
      <4>3. volume[claim[c].handle] \in VolumeRecord /\ volume'[claim[c].handle] \in VolumeRecord
        BY <4>1 DEF TypeOK
      <4>4. QED
        BY <4>2, <4>3, AmountsAreNumbers DEF ClaimRecord, VolumeRecord
    <3>5. QED
      BY <2>2, <3>1, <3>2, <3>3, <3>4
  <2>3. QED
    BY <2>1, <2>2, GrantSteps
<1>3. AnswersReserved'
  <2> SUFFICES ASSUME NEW h \in Handlers, handler'[h].pc = "ok", handler'[h].op # "delete",
                      handler'[h].vol \in Live'
               PROVE  volume'[handler'[h].vol].quota = handler'[h].size
    BY DEF AnswersReserved
  <2> DEFINE u == handler[h].vol
  <2>1. /\ handler'[h].vol = u /\ handler'[h].size = handler[h].size
        /\ handler'[h].op = handler[h].op
        /\ handler[h].pc = "ok" \/ SetVolumeQuota(h)
    BY OkSteps
  <2>2. CASE SetVolumeQuota(h)
    BY <2>1, <2>2 DEF SetVolumeQuota, Fits, Live, TypeOK, VolumeRecord
  <2>3. CASE handler[h].pc = "ok" /\ u \in Live /\ volume'[u].quota = volume[u].quota
    BY <2>1, <2>3 DEF LedgerInv, AnswersReserved
  <2>4. ASSUME handler[h].pc = "ok", NEW i \in Handlers, handler[i].pc = "quota",
               handler[i].vol = u, u \in Live
        PROVE  FALSE
    <3>1. handler[i].claim = handler[h].claim /\ Busy(i) /\ Busy(h) /\ i # h
      BY <2>4 DEF BackingInv, UuidsMatch, Busy
    <3>2. handler[i].op \in {"create", "expand"} /\ handler[h].op \in {"create", "expand"}
      BY <2>1, <2>4, <3>1 DEF BackingInv, ProgramOrder, TypeOK, HandlerRecord, Ops
    <3>3. \A j \in {i, h} : handler[j].op = "create" => Provisions(j)
      BY <3>1 DEF CallersWait, Provisions
    <3>4. CASE handler[i].op = "create" /\ handler[h].op = "create"
      BY <3>1, <3>3, <3>4 DEF BackingInv, OneProvisioningCall
    <3>5. CASE handler[i].op = "expand" /\ handler[h].op = "expand"
      BY <3>1, <3>5 DEF QuotaInv, OneExpansion, Expands
    <3>6. CASE handler[i].op # handler[h].op
      <4>1. claim[handler[h].claim].phase = "pending"
        BY <3>1, <3>2, <3>3, <3>6 DEF BackingInv, OneProvisioningCall
      <4>2. claim[handler[h].claim].phase # "pending"
        BY <3>1, <3>2, <3>6 DEF QuotaInv, OneExpansion, Expands
      <4>3. QED
        BY <4>1, <4>2
    <3>7. QED
      BY <3>2, <3>4, <3>5, <3>6
  <2>5. QED
    BY <2>1, <2>2, <2>3, <2>4, QuotaSteps
<1>4. ExpansionsKnowWhat'
  <2> SUFFICES ASSUME NEW h \in Handlers, Expands(h)', claim'[handler'[h].claim].phase = "bound"
               PROVE  handler'[h].vol = claim'[handler'[h].claim].handle
    BY DEF ExpansionsKnowWhat
  <2>0. handler[h].claim \in Claims
    BY Numbers
  <2>1. CASE SameCall(h)
    <3>1. /\ Expands(h) /\ handler'[h].vol = handler[h].vol
          /\ handler'[h].claim = handler[h].claim
      BY <2>1 DEF SameCall, Expands
    <3>2. claim[handler[h].claim].phase # "pending"
      BY <3>1 DEF QuotaInv, OneExpansion
    <3>3. /\ claim[handler[h].claim].phase = "bound"
          /\ claim'[handler[h].claim].handle = claim[handler[h].claim].handle
      BY <2>0, <3>1, <3>2, PhaseSteps, Answers
    <3>4. QED
      BY <3>1, <3>3 DEF LedgerInv, ExpansionsKnowWhat
  <2>2. CASE \E c \in Claims : NewCall(h, c)
    BY <2>2 DEF NewCall, Expands
  <2>3. QED
    BY <2>1, <2>2, BackingPlaces, CallSteps DEF Expands
<1>5. QED
  BY <1>1, <1>2, <1>3, <1>4 DEF LedgerInv

-----------------------------------------------------------------------------
(* The refinement.                                                         *)

ReservedFor == [c \in Claims |-> Reserved({u \in Live : volume[u].name = c})]

PromisedTo == [c \in Claims |-> IF claim[c].phase = "bound" THEN claim[c].granted ELSE 0]

\* As a claim has one volume, what is reserved for it is that volume's quota.
QuotasAreReserved ==
    /\ \A u \in Live : ReservedFor[volume[u].name] = volume[u].quota
    /\ \A c \in Claims : ~NameTaken(c) => ReservedFor[c] = 0

LEMMA ReservedIsQuota == TypeOK /\ OneVolumePerClaim => QuotasAreReserved
<1> SUFFICES ASSUME TypeOK, OneVolumePerClaim PROVE QuotasAreReserved
  OBVIOUS
<1>1. ASSUME NEW u \in Live PROVE ReservedFor[volume[u].name] = volume[u].quota
  <2> DEFINE f == [v \in {u} |-> volume[v].quota]
  <2>1. {v \in Live : volume[v].name = volume[u].name} = {u}
    BY <1>1 DEF OneVolumePerClaim
  <2>2. volume[u].name \in Claims /\ f[u] = volume[u].quota /\ f[u] \in Nat
    BY Numbers
  <2>3. Total(f, {u}) = f[u]
    <3> HIDE DEF f
    <3> QED
      BY <2>2, TotalOfOne
  <2>4. QED
    BY <2>1, <2>2, <2>3 DEF ReservedFor, Reserved
<1>2. ASSUME NEW c \in Claims, ~NameTaken(c) PROVE ReservedFor[c] = 0
  <2>1. {u \in Live : volume[u].name = c} = {}
    BY <1>2 DEF NameTaken
  <2>2. QED
    BY <2>1, TotalOfNone DEF ReservedFor, Reserved
<1>3. QED
  BY <1>1, <1>2 DEF QuotasAreReserved

\* All other claims have reserved what all other volumes have.
LEMMA OthersReserved ==
    ASSUME TypeOK, OneVolumePerClaim, IsFiniteSet(Live), NEW u \in Live
    PROVE  Total(ReservedFor, Claims \ {volume[u].name}) = Reserved(Live \ {u})
<1> DEFINE S == Live \ {u}
           T == Claims \ {volume[u].name}
           f == [v \in S |-> volume[v].quota]
           m == [v \in S |-> volume[v].name]
<1>1. IsFiniteSet(S)
  BY FS_Subset
<1>2. \A v \in S : f[v] \in Nat /\ m[v] = volume[v].name /\ f[v] = volume[v].quota
  BY Numbers
<1>3. m \in [S -> T] /\ \A v, w \in S : m[v] = m[w] => v = w
  BY Numbers DEF OneVolumePerClaim
<1>4. \A v \in S : ReservedFor[m[v]] = f[v]
  BY <1>2, ReservedIsQuota DEF QuotasAreReserved
<1>5. \A c \in T : ReservedFor[c] = 0 \/ \E v \in S : m[v] = c
  BY <1>2, ReservedIsQuota DEF QuotasAreReserved, NameTaken
<1>6. Total(ReservedFor, T) = Total(f, S)
  <2> HIDE DEF S, T, f, m
  <2> QED
    BY <1>1, <1>2, <1>3, <1>4, <1>5, SameTotal
<1>7. QED
  BY <1>6 DEF Reserved

LEMMA SameSums == \A f, S : Ledger!Total(f, S) = Total(f, S)
BY DEF Ledger!Total, Ledger!Units, Ledger!Cardinality, Total, Units, Cardinality

LEMMA LedgerStarts == Init => Ledger!LedgerInit
<1> SUFFICES ASSUME Init PROVE Ledger!LedgerInit
  OBVIOUS
<1>1. Live = {}
  BY DEF Init, Live, NoRecord
<1>2. TypeOK /\ OneVolumePerClaim
  BY InitType, NamesInit
<1>3. \A c \in Claims : ReservedFor[c] = 0
  BY <1>1, <1>2, ReservedIsQuota DEF QuotasAreReserved, NameTaken
<1>4. \A c \in Claims : PromisedTo[c] = 0
  BY DEF Init, PromisedTo
<1>5. ReservedFor = [c \in Claims |-> 0] /\ PromisedTo = [c \in Claims |-> 0]
  BY <1>3, <1>4 DEF ReservedFor, PromisedTo
<1>6. QED
  BY <1>5 DEF Ledger!LedgerInit, ReservedFor, PromisedTo

\* What the ledger's actions say, in the terms of this module.
LEMMA LedgerActions ==
    ASSUME NEW c \in Claims, NEW n
    PROVE  /\ /\ n \in Sizes /\ n >= PromisedTo[c]
              /\ n + Total(ReservedFor, Claims \ {c}) <= TenantLimit
              /\ ReservedFor' = [ReservedFor EXCEPT ![c] = n] /\ PromisedTo' = PromisedTo
              => Ledger!Reserve(c)
           /\ /\ n \in Sizes /\ n <= ReservedFor[c] /\ n >= PromisedTo[c]
              /\ PromisedTo' = [PromisedTo EXCEPT ![c] = n] /\ ReservedFor' = ReservedFor
              => Ledger!Promise(c)
           /\ PromisedTo' = [PromisedTo EXCEPT ![c] = 0] /\ ReservedFor' = ReservedFor
              => Ledger!Withdraw(c)
           /\ /\ PromisedTo[c] = 0
              /\ ReservedFor' = [ReservedFor EXCEPT ![c] = 0] /\ PromisedTo' = PromisedTo
              => Ledger!GiveBack(c)
BY SameSums DEF Ledger!Reserve, Ledger!Promise, Ledger!Withdraw, Ledger!GiveBack,
   ReservedFor, PromisedTo

\* What is reserved for a claim changes with the quota of its volume only, and ends with it.
LEMMA ReservedSteps ==
    ASSUME TypeOK, TypeOK', OneVolumePerClaim, OneVolumePerClaim', [Next]_vars
    PROVE  \/ UNCHANGED ReservedFor
           \/ \E h \in Handlers :
                /\ handler[h].vol \in Live
                /\ \/ /\ SetVolumeQuota(h)
                      /\ ReservedFor' =
                           [ReservedFor EXCEPT ![volume[handler[h].vol].name] = handler[h].size]
                   \/ /\ RollbackVolume(h) \/ EraseVolume(h)
                      /\ ReservedFor' =
                           [ReservedFor EXCEPT ![volume[handler[h].vol].name] = 0]
<1>0. QuotasAreReserved /\ QuotasAreReserved'
  <2>1. QuotasAreReserved
    BY ReservedIsQuota
  <2>2. (TypeOK /\ OneVolumePerClaim => QuotasAreReserved)'
    BY ReservedIsQuota, PTL
  <2>3. QED
    BY <2>1, <2>2
<1>1. ASSUME NEW c \in Claims,
             \A u \in Live : volume[u].name = c =>
               u \in Live' /\ volume'[u].name = c /\ volume'[u].quota = volume[u].quota,
             \A u \in Live' : \/ u \in Live /\ volume'[u].name = volume[u].name
                              \/ u \notin Live /\ volume'[u].quota = 0
      PROVE  ReservedFor'[c] = ReservedFor[c]
  <2>1. CASE NameTaken(c)
    <3>1. PICK u \in Live : volume[u].name = c
      BY <2>1 DEF NameTaken
    <3>2. u \in Live' /\ volume'[u].name = c /\ volume'[u].quota = volume[u].quota
      BY <1>1, <3>1
    <3>3. QED
      BY <1>0, <3>1, <3>2 DEF QuotasAreReserved
  <2>2. CASE ~NameTaken(c)
    <3>1. ReservedFor[c] = 0
      BY <1>0, <2>2 DEF QuotasAreReserved
    <3>2. CASE NameTaken(c)'
      <4>1. PICK u \in Live' : volume'[u].name = c
        BY <3>2 DEF NameTaken
      <4>2. volume'[u].quota = 0
        BY <1>1, <2>2, <4>1 DEF NameTaken
      <4>3. QED
        BY <1>0, <3>1, <4>1, <4>2 DEF QuotasAreReserved
    <3>3. CASE ~NameTaken(c)'
      BY <1>0, <3>1, <3>3 DEF QuotasAreReserved
    <3>4. QED
      BY <3>2, <3>3
  <2>3. QED
    BY <2>1, <2>2
<1>2. ASSUME \A c \in Claims : ReservedFor'[c] = ReservedFor[c] PROVE UNCHANGED ReservedFor
  BY <1>2 DEF ReservedFor
<1>3. ASSUME NEW d \in Claims, NEW n, ReservedFor'[d] = n,
             \A c \in Claims \ {d} : ReservedFor'[c] = ReservedFor[c]
      PROVE  ReservedFor' = [ReservedFor EXCEPT ![d] = n]
  BY <1>3 DEF ReservedFor
<1>4. CASE \E h \in Handlers : CreateNewVolume(h)
  <2>1. PICK h \in Handlers, w \in Uuids :
          /\ Fresh(w)
          /\ volume' = [volume EXCEPT ![w] =
               [live |-> TRUE, name |-> handler[h].claim, quota |-> 0, data |-> FALSE]]
    BY <1>4 DEF CreateNewVolume
  <2>2. w \notin Live /\ volume'[w].quota = 0
    BY <2>1 DEF Fresh, Forgotten, TypeOK
  <2>3. \A u \in Uuids \ {w} : volume'[u] = volume[u]
    BY <2>1 DEF TypeOK
  <2>4. QED
    BY <1>1, <1>2, <2>2, <2>3 DEF Live
<1>5. ASSUME NEW h \in Handlers, SetVolumeQuota(h)
      PROVE  /\ handler[h].vol \in Live
             /\ ReservedFor' = [ReservedFor EXCEPT ![volume[handler[h].vol].name] = handler[h].size]
  <2> DEFINE w == handler[h].vol
  <2>1. w \in Live /\ volume' = [volume EXCEPT ![w].quota = handler[h].size]
    BY <1>5 DEF SetVolumeQuota, Fits
  <2>2. /\ w \in Live' /\ volume'[w].name = volume[w].name /\ volume'[w].quota = handler[h].size
        /\ \A u \in Uuids \ {w} : volume'[u] = volume[u]
        /\ volume[w].name \in Claims
    BY <2>1 DEF TypeOK, VolumeRecord, Live
  <2>3. ReservedFor'[volume[w].name] = handler[h].size
    BY <1>0, <2>2 DEF QuotasAreReserved
  <2>4. \A c \in Claims \ {volume[w].name} : ReservedFor'[c] = ReservedFor[c]
    BY <1>1, <2>1, <2>2 DEF Live
  <2>5. QED
    BY <1>3, <2>1, <2>2, <2>3, <2>4
<1>6. ASSUME NEW h \in Handlers, RollbackVolume(h) \/ EraseVolume(h)
      PROVE  \/ UNCHANGED ReservedFor
             \/ /\ handler[h].vol \in Live
                /\ ReservedFor' = [ReservedFor EXCEPT ![volume[handler[h].vol].name] = 0]
  <2> DEFINE w == handler[h].vol
  <2>1. volume' = Removed(w)
    BY <1>6 DEF RollbackVolume, EraseVolume
  <2>2. CASE w \notin Live
    <3>1. volume' = volume /\ Live' = Live
      BY <2>1, <2>2 DEF Removed, Live
    <3>2. QED
      BY <3>1 DEF ReservedFor, Reserved
  <2>3. CASE w \in Live
    <3>1. /\ w \notin Live' /\ volume[w].name \in Claims
          /\ \A u \in Uuids \ {w} : volume'[u] = volume[u]
      BY <2>1, <2>3 DEF Removed, NoRecord, TypeOK, VolumeRecord, Live
    <3>2. \A u \in Live' : volume'[u].name # volume[w].name
      <4>1. \A u \in Live' : u \in Live /\ u # w /\ volume'[u] = volume[u]
        BY <3>1 DEF Live
      <4>2. QED
        BY <2>3, <4>1 DEF OneVolumePerClaim
    <3>3. ReservedFor'[volume[w].name] = 0
      BY <1>0, <3>1, <3>2 DEF QuotasAreReserved, NameTaken
    <3>4. \A c \in Claims \ {volume[w].name} : ReservedFor'[c] = ReservedFor[c]
      BY <1>1, <2>3, <3>1 DEF Live
    <3>5. QED
      BY <1>3, <2>3, <3>1, <3>3, <3>4
  <2>4. QED
    BY <2>2, <2>3
<1>7. CASE \E c \in Claims : PodWrites(c)
  <2>1. \A u \in Uuids : /\ volume'[u].live = volume[u].live /\ volume'[u].name = volume[u].name
                         /\ volume'[u].quota = volume[u].quota
    BY <1>7 DEF PodWrites, TypeOK, VolumeRecord, Live
  <2>2. QED
    BY <1>1, <1>2, <2>1 DEF Live
<1>8. CASE UNCHANGED volume
  BY <1>8 DEF ReservedFor, Reserved, Live
<1>9. QED
  BY <1>4, <1>5, <1>6, <1>7, <1>8, VolumeSteps

\* What is promised to a claim changes when it is answered or when its user deletes it.
LEMMA PromisedSteps ==
    ASSUME TypeOK, BackingInv, [Next]_vars
    PROVE  \/ UNCHANGED PromisedTo
           \/ \E c \in Claims : /\ UserStep(c) /\ UNCHANGED volume
                                /\ PromisedTo' = [PromisedTo EXCEPT ![c] = 0]
           \/ \E h \in Handlers :
                LET c == handler[h].claim
                IN  /\ CreateSucceeded(h) \/ ExpandSucceeded(h)
                    /\ claim'[c].phase = "bound"
                    /\ PromisedTo' = [PromisedTo EXCEPT ![c] = handler[h].size]
<1>0. \A c \in Claims : claim[c] \in ClaimRecord
  BY DEF TypeOK
<1>1. ASSUME \A c \in Claims : \/ /\ claim'[c].phase = claim[c].phase
                                  /\ claim'[c].granted = claim[c].granted
                               \/ claim[c].phase # "bound" /\ claim'[c].phase # "bound"
      PROVE  UNCHANGED PromisedTo
  BY <1>1 DEF PromisedTo
<1>2. ASSUME NEW c \in Claims, NEW new, claim' = [claim EXCEPT ![c] = new], new.phase = "bound"
      PROVE  PromisedTo' = [PromisedTo EXCEPT ![c] = new.granted] /\ claim'[c].phase = "bound"
  BY <1>2 DEF PromisedTo, TypeOK
<1>3. ASSUME NEW c \in Claims, NEW new, claim' = [claim EXCEPT ![c] = new], new.phase # "bound"
      PROVE  PromisedTo' = [PromisedTo EXCEPT ![c] = 0]
  BY <1>3 DEF PromisedTo, TypeOK
<1>4. ASSUME NEW c \in Claims, NEW new, claim' = [claim EXCEPT ![c] = new],
             new.phase # "bound", claim[c].phase # "bound"
      PROVE  UNCHANGED PromisedTo
  BY <1>4 DEF PromisedTo, TypeOK
<1>5. ASSUME NEW h \in Handlers, HandlerStep(h)
      PROVE  \/ UNCHANGED PromisedTo
             \/ LET c == handler[h].claim
                IN  /\ CreateSucceeded(h) \/ ExpandSucceeded(h)
                    /\ claim'[c].phase = "bound"
                    /\ PromisedTo' = [PromisedTo EXCEPT ![c] = handler[h].size]
  <2> DEFINE c == handler[h].claim
  <2>0. c \in Claims /\ claim[c] \in ClaimRecord
    BY DEF TypeOK, HandlerRecord
  <2>1. CASE UNCHANGED claim
    BY <2>1 DEF PromisedTo
  <2>2. CASE CreateSucceeded(h)
    <3> DEFINE new == [claim[c] EXCEPT !.phase = IF claim[c].wanted THEN "bound" ELSE "deleting",
                                       !.handle = handler[h].vol,
                                       !.granted = handler[h].size,
                                       !.background = FALSE]
    <3>1. claim' = [claim EXCEPT ![c] = new] /\ claim[c].phase = "pending"
      BY <2>2, Answers DEF CreateSucceeded, Answer
    <3>2. new.granted = handler[h].size
      BY <2>0 DEF ClaimRecord
    <3> HIDE DEF new
    <3>3. CASE new.phase = "bound"
      <4>1. PromisedTo' = [PromisedTo EXCEPT ![c] = new.granted] /\ claim'[c].phase = "bound"
        BY <1>2, <2>0, <3>1, <3>3
      <4>2. QED
        BY <2>2, <3>2, <4>1
    <3>4. CASE new.phase # "bound"
      BY <1>4, <2>0, <3>1, <3>4
    <3>5. QED
      BY <3>3, <3>4
  <2>3. CASE ExpandSucceeded(h)
    <3> DEFINE new == [claim[c] EXCEPT !.granted = handler[h].size]
    <3>1. claim' = [claim EXCEPT ![c] = new]
      BY <2>3 DEF ExpandSucceeded, Answer
    <3>2. new.granted = handler[h].size /\ new.phase = claim[c].phase
      BY <2>0 DEF ClaimRecord
    <3> HIDE DEF new
    <3>3. CASE new.phase = "bound"
      <4>1. PromisedTo' = [PromisedTo EXCEPT ![c] = new.granted] /\ claim'[c].phase = "bound"
        BY <1>2, <2>0, <3>1, <3>3
      <4>2. QED
        BY <2>3, <3>2, <4>1
    <3>4. CASE new.phase # "bound"
      BY <1>4, <2>0, <3>1, <3>2, <3>4
    <3>5. QED
      BY <3>3, <3>4
  <2>4. CASE CreateFailed(h) \/ DeleteSucceeded(h)
    <3>1. /\ claim[c].phase # "bound" /\ claim'[c].phase # "bound"
          /\ \A d \in Claims \ {c} : claim'[d] = claim[d]
      <4>1. claim[c].phase # "bound" /\ claim'[c].phase # "bound"
        BY <2>4, Answers
      <4>2. PICK new : claim' = [claim EXCEPT ![c] = new]
        BY <2>4 DEF CreateFailed, DeleteSucceeded, Answer
      <4>3. QED
        BY <4>1, <4>2 DEF TypeOK
    <3>2. QED
      BY <1>1, <3>1
  <2>5. CASE RetryLater(h)
    BY <2>0, <2>1, <2>5 DEF RetryLater, Answer, TypeOK
  <2>6. QED
    BY <1>5, <2>1, <2>2, <2>3, <2>4, <2>5 DEF HandlerStep, ApiCallFails, Identify,
       CreateNewVolume, VolumeExists, ResolveVolumeName, SetVolumeQuota, QuotaRefused,
       RollbackVolume, EraseVolume, EraseMissingVolume, AnswerUnheard
<1>6. ASSUME NEW h \in Handlers, CallTimesOut(h) PROVE UNCHANGED PromisedTo
  BY <1>0, <1>1, <1>6 DEF CallTimesOut, TypeOK, ClaimRecord
<1>7. ASSUME NEW c \in Claims, CallerStep(c) PROVE UNCHANGED PromisedTo
  BY <1>7 DEF CallerStep, CreateVolume, DeleteVolume, ControllerExpandVolume, PromisedTo
<1>8. ASSUME NEW c \in Claims, UserStep(c)
      PROVE  \/ UNCHANGED PromisedTo
             \/ UNCHANGED volume /\ PromisedTo' = [PromisedTo EXCEPT ![c] = 0]
  <2>1. CASE DeleteClaim(c)
    <3> DEFINE phase == CASE claim[c].phase = "bound" -> "deleting"
                          [] /\ claim[c].phase = "pending"
                             /\ ~claim[c].background /\ ~Awaiting(c, {"create"}) -> "abandoned"
                          [] OTHER -> claim[c].phase
               new == [claim[c] EXCEPT !.wanted = FALSE, !.phase = phase]
    <3>1. claim' = [claim EXCEPT ![c] = new] /\ UNCHANGED volume
      BY <2>1 DEF DeleteClaim, TypeOK
    <3>2. new.phase # "bound"
      BY <1>0 DEF ClaimRecord
    <3>3. QED
      BY <1>3, <3>1, <3>2
  <2>2. CASE ExpandClaim(c)
    BY <1>0, <1>1, <2>2 DEF ExpandClaim, TypeOK, ClaimRecord
  <2>3. CASE PodWrites(c)
    BY <2>3 DEF PodWrites, PromisedTo
  <2>4. QED
    BY <1>8, <2>1, <2>2, <2>3 DEF UserStep
<1>9. CASE ControllerCrash
  BY <1>0, <1>1, <1>9 DEF ControllerCrash, TypeOK, ClaimRecord
<1>10. CASE UNCHANGED vars
  BY <1>10 DEF vars, PromisedTo
<1>11. QED
  BY <1>5, <1>6, <1>7, <1>8, <1>9, <1>10 DEF Next

LEMMA LedgerSteps ==
    ASSUME TypeOK, TypeOK', BackingInv, CallersWait, OneVolumePerClaim, OneVolumePerClaim',
           QuotaInv, LedgerInv, [Next]_vars
    PROVE  [Ledger!LedgerNext]_(Ledger!ledger)
<1>0. /\ QuotasAreReserved
      /\ \A h \in Handlers : /\ handler[h].claim \in Claims /\ handler[h].size \in Nat
                             /\ handler[h].size \in Sizes
  BY ReservedIsQuota, Numbers DEF TypeOK, HandlerRecord
<1>1. ASSUME NEW c \in Claims,
             \/ Ledger!Reserve(c) \/ Ledger!Promise(c) \/ Ledger!Withdraw(c) \/ Ledger!GiveBack(c)
      PROVE  [Ledger!LedgerNext]_(Ledger!ledger)
  BY <1>1 DEF Ledger!LedgerNext
<1>2. CASE UNCHANGED ReservedFor /\ UNCHANGED PromisedTo
  BY <1>2 DEF Ledger!ledger, ReservedFor, PromisedTo
\* A claim that was promised something has a volume with as much.
<1>3. ASSUME NEW u \in Live, claim[volume[u].name].phase = "bound"
      PROVE  PromisedTo[volume[u].name] <= volume[u].quota
  <2> DEFINE c == volume[u].name
  <2>1. c \in Claims
    BY Numbers
  <2>2. claim[c].handle \in Live /\ volume[claim[c].handle].name = c
    BY <1>3, <2>1 DEF BackingInv, BoundIsBacked
  <2>3. claim[c].handle = u
    BY <2>2 DEF OneVolumePerClaim
  <2>4. QED
    BY <1>3, <2>1, <2>3 DEF LedgerInv, PromisesReserved, PromisedTo
<1>4. ASSUME NEW h \in Handlers, handler[h].vol \in Live, SetVolumeQuota(h),
             ReservedFor' = [ReservedFor EXCEPT ![volume[handler[h].vol].name] = handler[h].size]
      PROVE  [Ledger!LedgerNext]_(Ledger!ledger)
  <2> DEFINE u == handler[h].vol
             c == handler[h].claim
  <2>1. /\ volume[u].name = c /\ c \in Claims /\ UNCHANGED claim
        /\ handler[h].pc = "quota" /\ Busy(h) /\ Fits(u, handler[h].size)
    BY <1>0, <1>4 DEF SetVolumeQuota, BackingInv, UuidsMatch, Busy
  <2>2. handler[h].size >= PromisedTo[c]
    <3>1. CASE claim[c].phase # "bound"
      BY <1>0, <2>1, <3>1 DEF PromisedTo
    <3>2. CASE claim[c].phase = "bound"
      <4>1. handler[h].op # "create"
        BY <2>1, <3>2 DEF CallersWait, BackingInv, OneProvisioningCall, Provisions
      <4>2. Expands(h)
        BY <2>1, <4>1 DEF BackingInv, ProgramOrder, TypeOK, HandlerRecord, Ops, Expands
      <4>3. volume[u].quota <= handler[h].size
        BY <1>4, <2>1, <4>2 DEF QuotaInv, ExpansionsGrow
      <4>4. PromisedTo[c] <= volume[u].quota /\ PromisedTo[c] \in Nat /\ volume[u].quota \in Nat
        <5>1. PromisedTo[c] \in Sizes \cup {0}
          BY <2>1 DEF PromisedTo, TypeOK, ClaimRecord
        <5>2. QED
          BY <1>3, <1>4, <2>1, <3>2, <5>1, Numbers, AmountsAreNumbers
      <4>5. QED
        BY <1>0, <4>3, <4>4
    <3>3. QED
      BY <3>1, <3>2
  <2>3. handler[h].size + Total(ReservedFor, Claims \ {c}) <= TenantLimit
    <3>1. Total(ReservedFor, Claims \ {c}) = Reserved(Live \ {u})
      BY <1>4, <2>1, OthersReserved DEF LedgerInv
    <3>2. Reserved(Live \ {u}) + handler[h].size <= TenantLimit
      BY <2>1 DEF Fits
    <3>3. Reserved(Live \ {u}) \in Nat
      <4>1. IsFiniteSet(Live \ {u})
        BY FS_Subset DEF LedgerInv
      <4>2. QED
        BY <4>1, Numbers, TotalIsNat DEF Reserved
    <3>4. QED
      BY <1>0, <3>1, <3>2, <3>3
  <2>4. PromisedTo' = PromisedTo
    BY <2>1 DEF PromisedTo
  <2>5. ReservedFor' = [ReservedFor EXCEPT ![c] = handler[h].size]
    BY <1>4, <2>1
  <2>6. Ledger!Reserve(c)
    BY <1>0, <2>1, <2>2, <2>3, <2>4, <2>5, LedgerActions
  <2>7. QED
    BY <1>1, <2>1, <2>6
<1>5. ASSUME NEW h \in Handlers, handler[h].vol \in Live, RollbackVolume(h) \/ EraseVolume(h),
             ReservedFor' = [ReservedFor EXCEPT ![volume[handler[h].vol].name] = 0]
      PROVE  [Ledger!LedgerNext]_(Ledger!ledger)
  <2> DEFINE c == handler[h].claim
  <2>1. /\ volume[handler[h].vol].name = c /\ c \in Claims /\ UNCHANGED claim
        /\ Busy(h) /\ handler[h].pc \in {"rollback", "erase"}
    BY <1>0, <1>5 DEF RollbackVolume, EraseVolume, BackingInv, UuidsMatch, Busy
  <2>2. claim[c].phase # "bound"
    <3>1. CASE handler[h].op = "create"
      BY <2>1, <3>1 DEF CallersWait, BackingInv, OneProvisioningCall, Provisions
    <3>2. CASE handler[h].op = "delete"
      BY <2>1, <3>2 DEF BackingInv, DeletesKnowWhat
    <3>3. QED
      BY <2>1, <3>1, <3>2 DEF BackingInv, ProgramOrder
  <2>3. PromisedTo[c] = 0 /\ PromisedTo' = PromisedTo
    BY <2>1, <2>2 DEF PromisedTo
  <2>4. ReservedFor' = [ReservedFor EXCEPT ![c] = 0]
    BY <1>5, <2>1
  <2>5. Ledger!GiveBack(c)
    BY <2>1, <2>3, <2>4, LedgerActions
  <2>6. QED
    BY <1>1, <2>1, <2>5
<1>6. ASSUME NEW c \in Claims, UNCHANGED volume, PromisedTo' = [PromisedTo EXCEPT ![c] = 0]
      PROVE  [Ledger!LedgerNext]_(Ledger!ledger)
  <2>1. ReservedFor' = ReservedFor
    BY <1>6 DEF ReservedFor, Reserved, Live
  <2>2. Ledger!Withdraw(c)
    BY <1>6, <2>1, LedgerActions
  <2>3. QED
    BY <1>1, <2>2
<1>7. ASSUME NEW h \in Handlers, CreateSucceeded(h) \/ ExpandSucceeded(h),
             claim'[handler[h].claim].phase = "bound",
             PromisedTo' = [PromisedTo EXCEPT ![handler[h].claim] = handler[h].size]
      PROVE  [Ledger!LedgerNext]_(Ledger!ledger)
  <2> SUFFICES ASSUME NEW c \in Claims, handler[h].claim = c
               PROVE  [Ledger!LedgerNext]_(Ledger!ledger)
    BY <1>0
  <2> DEFINE u == handler[h].vol
  <2>0. handler[h].size \in Sizes /\ handler[h].size \in Nat
    BY <1>0
  <2>1. UNCHANGED volume
    BY <1>7, Grants DEF LedgerInv
  <2>2. u \in Live /\ volume[u].name = c /\ volume[u].quota = handler[h].size
    <3>1. CASE CreateSucceeded(h)
      BY <3>1, Answers, Grants DEF LedgerInv
    <3>2. CASE ExpandSucceeded(h)
      <4>1. u = claim[c].handle /\ volume[u].quota = handler[h].size /\ claim[c].phase = "bound"
        BY <1>7, <3>2, Grants DEF LedgerInv
      <4>2. QED
        BY <1>0, <4>1 DEF BackingInv, BoundIsBacked
    <3>3. QED
      BY <1>7, <3>1, <3>2
  <2>3. handler[h].size <= ReservedFor[c]
    BY <1>0, <2>2 DEF QuotasAreReserved
  <2>4. handler[h].size >= PromisedTo[c]
    <3>1. CASE claim[c].phase # "bound"
      BY <1>0, <3>1 DEF PromisedTo
    <3>2. CASE claim[c].phase = "bound"
      <4>1. PromisedTo[c] \in Sizes \cup {0}
        BY <1>0, <3>2 DEF PromisedTo, TypeOK, ClaimRecord
      <4>2. PromisedTo[c] \in Nat
        BY <4>1, AmountsAreNumbers
      <4>3. QED
        BY <1>0, <1>3, <2>2, <3>2, <4>2
    <3>3. QED
      BY <3>1, <3>2
  <2>5. ReservedFor' = ReservedFor
    BY <2>1 DEF ReservedFor, Reserved, Live
  <2>6. Ledger!Promise(c)
    BY <1>7, <2>0, <2>3, <2>4, <2>5, LedgerActions
  <2>7. QED
    BY <1>1, <2>6
<1>8. CASE ~UNCHANGED ReservedFor
  BY <1>4, <1>5, <1>8, ReservedSteps
<1>9. CASE UNCHANGED ReservedFor /\ ~UNCHANGED PromisedTo
  BY <1>6, <1>7, <1>9, PromisedSteps
<1>10. QED
  BY <1>2, <1>8, <1>9

\* If no caller gives up waiting, provisioning with createQuota implements the ledger of
\* CapacityLedger: what is promised to claims is reserved for them first, fits in the tenant
\* together with what all others have, and is neither taken back nor given away before the claim
\* is deleted (SetVolumeQuota before every success, controller.go:155-171 and :545).
THEOREM LedgerKeptAlways ==
    ASSUME "timeout" \notin FaultKinds, CreateQuota
    PROVE  Spec => LedgerKept
<1> DEFINE Inv == /\ TypeOK /\ BackingInv /\ CallersWait /\ OneVolumePerClaim /\ QuotaInv
                  /\ LedgerInv
<1>1. Init => Inv
  BY InitType, BackingInit, NamesInit, QuotaInit, LedgerInvInit
<1>2. Inv /\ [Next]_vars => Inv'
  <2> SUFFICES ASSUME Inv, [Next]_vars PROVE Inv'
    OBVIOUS
  <2>1. TypeOK' /\ BackingInv' /\ CallersWait' /\ OneVolumePerClaim'
    BY NextType, BackingNext, WaitNext, OneVolumeNext DEF NoStaleRollback
  <2>2. QuotaInv' /\ LedgerInv'
    BY <2>1, QuotaNext, LedgerInvNext
  <2>3. QED
    BY <2>1, <2>2
<1>3. Inv /\ Inv' /\ [Next]_vars => [Ledger!LedgerNext]_(Ledger!ledger)
  BY LedgerSteps
<1>4. Init => Ledger!LedgerInit
  BY LedgerStarts
<1>5. QED
  BY <1>1, <1>2, <1>3, <1>4, PTL DEF Spec, LedgerKept, Ledger!LedgerSpec

-----------------------------------------------------------------------------
(* What the ledger is for: capacity is not promised twice.                 *)

TenantFits == Reserved(Live) <= TenantLimit

PromisesFit == Total(PromisedTo, Claims) <= TenantLimit

ReservedSplits ==
    \A u \in Live : /\ Reserved(Live) = Reserved(Live \ {u}) + volume[u].quota
                    /\ Reserved(Live \ {u}) \in Nat /\ volume[u].quota \in Nat

LEMMA ReservedSplit == TypeOK /\ IsFiniteSet(Live) => ReservedSplits
<1> SUFFICES ASSUME TypeOK, IsFiniteSet(Live), NEW u \in Live
             PROVE  /\ Reserved(Live) = Reserved(Live \ {u}) + volume[u].quota
                    /\ Reserved(Live \ {u}) \in Nat /\ volume[u].quota \in Nat
  BY DEF ReservedSplits
<1> DEFINE f == [v \in Live |-> volume[v].quota]
           g == [v \in Live \ {u} |-> volume[v].quota]
<1>1. /\ \A v \in Live : f[v] \in Nat /\ f[v] = volume[v].quota
      /\ \A v \in Live \ {u} : g[v] = f[v]
  BY Numbers
<1>2. Reserved(Live) = Total(f, Live) /\ Reserved(Live \ {u}) = Total(g, Live \ {u})
  BY DEF Reserved
<1> HIDE DEF f, g
<1>3. Total(g, Live \ {u}) = Total(f, Live \ {u})
  <2>1. Units(g, Live \ {u}) = Units(f, Live \ {u})
    BY <1>1 DEF Units
  <2>2. QED
    BY <2>1 DEF Total
<1>4. Total(f, Live) = Total(f, Live \ {u}) + f[u]
  BY <1>1, TotalSplit
<1>5. IsFiniteSet(Live \ {u})
  BY FS_Subset
<1>6. Total(f, Live \ {u}) \in Nat
  BY <1>1, <1>5, TotalIsNat
<1>7. QED
  BY <1>1, <1>2, <1>3, <1>4, <1>6

LEMMA QuotasKept ==
    ASSUME TypeOK, [Next]_vars, \A h \in Handlers : ~SetVolumeQuota(h), NEW u \in Live'
    PROVE  volume'[u].quota = 0 \/ (u \in Live /\ volume'[u].quota = volume[u].quota)
<1>1. CASE \E h \in Handlers : CreateNewVolume(h)
  <2>1. PICK h \in Handlers, w \in Uuids :
          volume' = [volume EXCEPT ![w] =
            [live |-> TRUE, name |-> handler[h].claim, quota |-> 0, data |-> FALSE]]
    BY <1>1 DEF CreateNewVolume
  <2>2. QED
    BY <2>1 DEF TypeOK, Live
<1>2. CASE \E h \in Handlers : RollbackVolume(h) \/ EraseVolume(h)
  <2>1. PICK h \in Handlers : volume' = Removed(handler[h].vol)
    BY <1>2 DEF RollbackVolume, EraseVolume
  <2>2. QED
    BY <2>1 DEF Removed, NoRecord, TypeOK, VolumeRecord, Live
<1>3. CASE \E c \in Claims : PodWrites(c)
  BY <1>3 DEF PodWrites, TypeOK, VolumeRecord, Live
<1>4. CASE UNCHANGED volume
  BY <1>4 DEF Live
<1>5. QED
  BY <1>1, <1>2, <1>3, <1>4, VolumeSteps

\* The backend checks the limit when a quota is set, and nothing else uses capacity up.
LEMMA TenantFitsNext ==
    ASSUME TypeOK, TypeOK', IsFiniteSet(Live), IsFiniteSet(Live'), TenantFits, [Next]_vars
    PROVE  TenantFits'
<1>1. /\ ReservedSplits /\ ReservedSplits'
      /\ \A h \in Handlers : handler[h].size \in Nat
  <2>1. (TypeOK /\ IsFiniteSet(Live) => ReservedSplits)'
    BY ReservedSplit, PTL
  <2>2. QED
    BY <2>1, ReservedSplit, Numbers
<1>2. ASSUME NEW h \in Handlers, SetVolumeQuota(h) PROVE TenantFits'
  <2>0. PICK w : w = handler[h].vol
    OBVIOUS
  <2>1. /\ w \in Live /\ Reserved(Live \ {w}) + handler[h].size <= TenantLimit
        /\ volume' = [volume EXCEPT ![w].quota = handler[h].size]
    BY <1>2, <2>0 DEF SetVolumeQuota, Fits
  <2>2. /\ Live' = Live /\ volume'[w].quota = handler[h].size
        /\ \A v \in Live \ {w} : volume'[v].quota = volume[v].quota
    BY <2>1 DEF TypeOK, VolumeRecord, Live
  <2>3. Reserved(Live \ {w})' = Reserved(Live \ {w})
    BY <2>2 DEF Reserved
  <2>4. Reserved(Live)' = Reserved(Live \ {w})' + volume'[w].quota
    BY <1>1, <2>1, <2>2 DEF ReservedSplits
  <2>5. QED
    BY <2>1, <2>2, <2>3, <2>4 DEF TenantFits
<1>3. CASE \A h \in Handlers : ~SetVolumeQuota(h)
  <2> DEFINE f == [v \in Live |-> volume[v].quota]
             g == [v \in Live' |-> volume'[v].quota]
             m == [v \in Live' |-> v]
  <2>1. /\ \A v \in Live : f[v] \in Nat
        /\ \A v \in Live' : g[v] \in Nat
    BY <1>1 DEF ReservedSplits
  <2>2. \A v \in Live' : g[v] # 0 => m[v] \in Live /\ g[v] <= f[m[v]]
    <3>1. \A v \in Live' : g[v] # 0 => v \in Live /\ g[v] = f[v]
      BY <1>3, QuotasKept
    <3>2. QED
      BY <2>1, <3>1
  <2>3. \A v, x \in Live' : m[v] = m[x] => v = x
    OBVIOUS
  <2>4. Reserved(Live)' = Total(g, Live') /\ Reserved(Live) = Total(f, Live)
    BY DEF Reserved
  <2> HIDE DEF f, g, m
  <2>5. Total(g, Live') <= Total(f, Live)
    BY <2>1, <2>2, <2>3, TotalWithin
  <2>6. Total(g, Live') \in Nat /\ Total(f, Live) \in Nat
    BY <2>1, TotalIsNat
  <2>7. QED
    BY <2>4, <2>5, <2>6 DEF TenantFits
<1>4. QED
  BY <1>2, <1>3

\* Every promise is backed by the quota of another volume.
LEMMA PromisesWithin ==
    ASSUME TypeOK, BackingInv, LedgerInv, TenantFits
    PROVE  PromisesFit
<1> DEFINE f == [v \in Live |-> volume[v].quota]
           m == [c \in Claims |-> claim[c].handle]
<1>1. \A v \in Live : f[v] \in Nat /\ f[v] = volume[v].quota
  BY Numbers
<1>2. \A c \in Claims : PromisedTo[c] \in Nat
  <2>1. \A c \in Claims : PromisedTo[c] \in Sizes \cup {0}
    BY DEF PromisedTo, TypeOK, ClaimRecord
  <2>2. QED
    BY <2>1, AmountsAreNumbers
<1>3. \A c \in Claims : PromisedTo[c] # 0 =>
        /\ claim[c].phase = "bound" /\ m[c] \in Live /\ volume[m[c]].name = c
        /\ PromisedTo[c] <= f[m[c]]
  BY DEF PromisedTo, BackingInv, BoundIsBacked, LedgerInv, PromisesReserved
<1>4. \A c, d \in Claims : PromisedTo[c] # 0 /\ PromisedTo[d] # 0 /\ m[c] = m[d] => c = d
  <2> SUFFICES ASSUME NEW c \in Claims, NEW d \in Claims,
                      PromisedTo[c] # 0, PromisedTo[d] # 0, m[c] = m[d]
               PROVE  c = d
    OBVIOUS
  <2>1. volume[m[c]].name = c /\ volume[m[d]].name = d
    BY <1>3
  <2>2. QED
    BY <2>1
<1>5. Reserved(Live) = Total(f, Live)
  BY DEF Reserved
<1> HIDE DEF f, m
<1>6. IsFiniteSet(Live)
  BY DEF LedgerInv
<1>7. Total(PromisedTo, Claims) \in Nat /\ Total(PromisedTo, Claims) <= Total(f, Live)
  BY <1>1, <1>2, <1>3, <1>4, <1>6, TotalWithin
<1>8. Total(f, Live) \in Nat
  BY <1>1, <1>6, TotalIsNat
<1>9. QED
  BY <1>5, <1>7, <1>8 DEF TenantFits, PromisesFit

\* With createQuota and callers that wait, what the bound claims were promised fits in the
\* tenant together ("provisioning succeeds only if there is sufficient Quota available for the
\* request", controller.go:155-158), however creations, expansions and deletions interleave.
THEOREM PromisesFitAlways ==
    ASSUME "timeout" \notin FaultKinds, CreateQuota
    PROVE  Spec => []PromisesFit
<1> DEFINE Inv == /\ TypeOK /\ BackingInv /\ CallersWait /\ OneVolumePerClaim /\ QuotaInv
                  /\ LedgerInv /\ TenantFits
<1>1. Init => Inv
  <2> SUFFICES ASSUME Init PROVE TenantFits
    BY InitType, BackingInit, NamesInit, QuotaInit, LedgerInvInit
  <2>1. Live = {}
    BY DEF Init, Live, NoRecord
  <2>2. QED
    BY <2>1, TotalOfNone DEF TenantFits, Reserved
<1>2. Inv /\ [Next]_vars => Inv'
  <2> SUFFICES ASSUME Inv, [Next]_vars PROVE Inv'
    OBVIOUS
  <2>1. TypeOK' /\ BackingInv' /\ CallersWait' /\ OneVolumePerClaim'
    BY NextType, BackingNext, WaitNext, OneVolumeNext DEF NoStaleRollback
  <2>2. QuotaInv' /\ LedgerInv'
    BY <2>1, QuotaNext, LedgerInvNext
  <2>3. TenantFits'
    BY <2>1, <2>2, TenantFitsNext DEF LedgerInv
  <2>4. QED
    BY <2>1, <2>2, <2>3
<1>3. Inv => PromisesFit
  BY PromisesWithin
<1>4. QED
  BY <1>1, <1>2, <1>3, PTL DEF Spec
=============================================================================
