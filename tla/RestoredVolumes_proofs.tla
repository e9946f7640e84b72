----------------------- MODULE RestoredVolumes_proofs -----------------------
(***************************************************************************)
(* Proofs about Snapshots and RestoredVolumes, for every value of their    *)
(* constants: types, the answers about snapshots, the access keys that     *)
(* pods mount with, what kubelet knows of the mounts, and what a pod on a  *)
(* restored claim reads.                                                   *)
(***************************************************************************)
EXTENDS RestoredVolumes, TLAPS

(* Handlers of the controller.                                             *)

\* TypeOK, but for the faults, which the node's steps count, too.
SnapshotsTyped ==
    /\ snap \in [Snaps -> SnapRecord]
    /\ restore \in [Restores -> RestoreRecord]
    /\ handler \in [Handlers -> HandlerRecord]
    /\ shots \subseteq [vol : Volumes, name : STRING, content : 0 .. MaxContent]
    /\ content \in [Volumes -> 0 .. MaxContent]

\* The id that a VolumeSnapshot has or gets.
IdFor(s) == IF s \in Preprovisioned THEN GivenId[s] ELSE IdOf(s)

LEMMA Triple ==
    ASSUME NEW S, NEW a \in S, NEW b \in S, NEW c \in S
    PROVE  <<a, b, c>> \in Seq(S) /\ Len(<<a, b, c>>) = 3 /\ <<a, b, c>>[2] = b
OBVIOUS

LEMMA FewParts ==
    ASSUME NEW S, NEW a \in S, NEW b \in S
    PROVE  <<a, b>> \in Seq(S) /\ <<a>> \in Seq(S)
OBVIOUS

LEMMA NoParts ==
    ASSUME NEW S
    PROVE  <<>> \in Seq(S)
OBVIOUS

LEMMA SourceVolume ==
    ASSUME NEW s \in Snaps
    PROVE  VolumeOf(s) \in Volumes /\ VolumeOf(s) \in STRING /\ UuidOf[VolumeOf(s)] = VolumeOf(s)
BY SnapshotsAssumption, NamesAssumption DEF VolumeOf, Volumes

\* An id is a snapshot id that names its source volume.
LEMMA IdForType ==
    ASSUME NEW s \in Snaps
    PROVE  /\ IdFor(s) \in Seq(STRING) /\ IsSnapshotId(IdFor(s))
           /\ IdFor(s)[2] \in DOMAIN UuidOf /\ UuidOf[IdFor(s)[2]] = VolumeOf(s)
<1>1. CASE s \in Preprovisioned
  BY <1>1, SnapshotsAssumption, NamesAssumption DEF IdFor
<1>2. CASE s \notin Preprovisioned
  <2> DEFINE tenant == TenantUuid[SourceHandle[s][1]]
  <2>1. SourceHandle[s][1] \in DOMAIN TenantUuid
    BY SnapshotsAssumption
  <2>2. tenant \in STRING
    BY <2>1, NamesAssumption
  <2>3. IdFor(s) = <<tenant, VolumeOf(s), s>> /\ s \in STRING
    BY <1>2, NamesAssumption DEF IdFor, IdOf, SnapshotIdOf
  <2> HIDE DEF tenant
  <2>4. VolumeOf(s) \in DOMAIN UuidOf
    BY SourceVolume, NamesAssumption
  <2>5. IdFor(s) \in Seq(STRING) /\ Len(IdFor(s)) = 3 /\ IdFor(s)[2] = VolumeOf(s)
    <3>1. VolumeOf(s) \in STRING
      BY SourceVolume
    <3>2. <<tenant, VolumeOf(s), s>> \in Seq(STRING)
      BY <2>2, <2>3, <3>1, Triple, Zenon
    <3>3. Len(<<tenant, VolumeOf(s), s>>) = 3
          /\ <<tenant, VolumeOf(s), s>>[2] = VolumeOf(s)
      OBVIOUS
    <3>4. QED
      BY <2>3, <3>2, <3>3, Zenon
  <2>6. QED
    BY <2>4, <2>5, SourceVolume DEF IsSnapshotId
<1>3. QED
  BY <1>1, <1>2

\* Two VolumeSnapshots never name the same snapshot.
LEMMA IdsApart ==
    ASSUME NEW s \in Snaps, NEW r \in Snaps, s # r, VolumeOf(s) = VolumeOf(r)
    PROVE  IdFor(s)[3] # IdFor(r)[3]
<1>1. \A q \in Snaps : q \notin Preprovisioned => IdFor(q)[3] = q
  BY DEF IdFor, IdOf, SnapshotIdOf
<1>2. QED
  BY <1>1, NamesAssumption, SnapshotsAssumption DEF IdFor

-----------------------------------------------------------------------------
(* Types.                                                                  *)

LEMMA IdleType ==
    ASSUME Handlers # {}
    PROVE  Idle \in HandlerRecord
<1>1. Snaps # {}
  BY DEF Handlers
<1>2. (CHOOSE s \in Snaps : TRUE) \in Snaps
  BY <1>1, Zenon
<1>3. QED
  BY <1>2 DEF Idle, HandlerRecord

LEMMA ReturnType ==
    ASSUME SnapshotsTyped, NEW h \in Handlers, NEW success, Return(h, success)
    PROVE  /\ snap' \in [Snaps -> SnapRecord]
           /\ handler' \in [Handlers -> HandlerRecord]
<1>1. handler' \in [Handlers -> HandlerRecord]
  BY IdleType DEF Return, SnapshotsTyped
<1> DEFINE s == handler[h].snap
<1>2. s \in Snaps /\ snap[s] \in SnapRecord
  BY DEF SnapshotsTyped, HandlerRecord
<1>3. IdOf(s) \in Seq(STRING)
  <2>1. SourceHandle[s] \in Seq(STRING) /\ Len(SourceHandle[s]) >= 2
    BY <1>2, SnapshotsAssumption DEF IsHandle
  <2>2. TenantUuid[SourceHandle[s][1]] \in STRING /\ VolumeOf(s) \in STRING /\ s \in STRING
    BY <1>2, <2>1, SourceVolume, SnapshotsAssumption, NamesAssumption
  <2>3. QED
    BY <2>2 DEF IdOf, SnapshotIdOf
<1>4. content[VolumeOf(s)] \in 0 .. MaxContent
  BY <1>2, SourceVolume DEF SnapshotsTyped
<1>5. Heard(h, success) \in [Snaps -> SnapRecord]
  <2> DEFINE become == IF handler[h].pc = "delete" THEN "deleted" ELSE "ready"
             heard == [snap[s] EXCEPT
                         !.phase = become, !.id = IF handler[h].pc = "create" THEN IdOf(s) ELSE @,
                         !.upTo = IF become = "ready" THEN content[VolumeOf(s)] ELSE @]
  <2>1. heard \in SnapRecord
    BY <1>2, <1>3, <1>4 DEF SnapRecord
  <2>2. Heard(h, success) = snap \/ Heard(h, success) = [snap EXCEPT ![s] = heard]
    BY <1>2 DEF Heard, SnapshotsTyped, SnapRecord
  <2> HIDE DEF heard
  <2>3. QED
    BY <1>2, <2>1, <2>2 DEF SnapshotsTyped
<1>6. QED
  BY <1>1, <1>5 DEF Return, SnapshotsTyped

LEMMA CallType ==
    ASSUME SnapshotsTyped, NEW op \in {"create", "delete", "list"}, NEW s \in Snaps, Call(op, s)
    PROVE  SnapshotsTyped'
<1>1. PICK h \in Handlers :
         handler' = [handler EXCEPT ![h] = [pc |-> op, snap |-> s, awaited |-> TRUE]]
  BY DEF Call, Handlers
<1>2. handler' \in [Handlers -> HandlerRecord]
  BY <1>1 DEF SnapshotsTyped, HandlerRecord
<1>3. QED
  BY <1>2 DEF Call, SnapshotsTyped

\* A snapshot that TakeSnapshot adds.
LEMMA TakenType ==
    ASSUME SnapshotsTyped, NEW s \in Snaps
    PROVE  [vol |-> VolumeOf(s), name |-> s, content |-> content[VolumeOf(s)]]
             \in [vol : Volumes, name : STRING, content : 0 .. MaxContent]
BY SourceVolume, NamesAssumption DEF SnapshotsTyped

LEMMA HandlerStepType ==
    ASSUME SnapshotsTyped, NEW h \in Handlers, HandlerStep(h)
    PROVE  SnapshotsTyped'
<1>1. CASE ApiCallFails(h)
  BY <1>1, IdleType DEF ApiCallFails, SnapshotsTyped
<1>2. CASE TakeSnapshot(h)
  <2>1. handler[h].snap \in Snaps
    BY DEF SnapshotsTyped, HandlerRecord
  <2>2. shots' \subseteq [vol : Volumes, name : STRING, content : 0 .. MaxContent]
    BY <1>2, <2>1, TakenType DEF TakeSnapshot, SnapshotsTyped
  <2>3. QED
    BY <1>2, <2>2, ReturnType DEF TakeSnapshot, SnapshotsTyped
<1>3. CASE RemoveSnapshot(h)
  <2>1. PICK success : Return(h, success)
    BY <1>3 DEF RemoveSnapshot
  <2>2. QED
    BY <1>3, <2>1, ReturnType DEF RemoveSnapshot, SnapshotsTyped
<1>4. CASE ListVolumeSnapshots(h)
  BY <1>4, ReturnType DEF ListVolumeSnapshots, SnapshotsTyped
<1>5. QED
  BY <1>1, <1>2, <1>3, <1>4 DEF HandlerStep

LEMMA NextType == SnapshotsTyped /\ [Next]_controllerVars => SnapshotsTyped'
<1> SUFFICES ASSUME SnapshotsTyped, [Next]_controllerVars
             PROVE  SnapshotsTyped'
  OBVIOUS
<1>1. CASE UNCHANGED controllerVars
  BY <1>1 DEF controllerVars, SnapshotsTyped
<1>2. ASSUME NEW h \in Handlers, HandlerStep(h)
      PROVE  SnapshotsTyped'
  BY <1>2, HandlerStepType
<1>3. ASSUME NEW h \in Handlers, CallTimesOut(h)
      PROVE  SnapshotsTyped'
  BY <1>3 DEF CallTimesOut, SnapshotsTyped, HandlerRecord, SnapRecord
<1>4. ASSUME NEW s \in Snaps, CallerStep(s)
      PROVE  SnapshotsTyped'
  BY <1>4, CallType DEF CallerStep, CreateSnapshot, ListSnapshots, DeleteSnapshot
<1>5. ASSUME NEW s \in Snaps, DeleteVolumeSnapshot(s)
      PROVE  SnapshotsTyped'
  BY <1>5 DEF DeleteVolumeSnapshot, SnapshotsTyped, SnapRecord
<1>6. ASSUME NEW r \in Restores, RestoreClaim(r)
      PROVE  SnapshotsTyped'
  <2>1. snap[From[r]].id \in Seq(STRING)
    BY SnapshotsAssumption DEF SnapshotsTyped, SnapRecord
  <2>2. [phase |-> "bound", pv |-> CreateSnapshotResponse(snap[From[r]].id)] \in RestoreRecord
    BY <2>1 DEF RestoreRecord, CreateSnapshotResponse
  <2>3. QED
    BY <1>6, <2>2 DEF RestoreClaim, SnapshotsTyped
<1>7. ASSUME NEW r \in Restores, DeleteRestoredClaim(r)
      PROVE  SnapshotsTyped'
  BY <1>7 DEF DeleteRestoredClaim, SnapshotsTyped, RestoreRecord
<1>8. ASSUME NEW v \in Volumes, ChangeFiles(v)
      PROVE  SnapshotsTyped'
  BY <1>8, SnapshotsAssumption DEF ChangeFiles, SnapshotsTyped
<1>9. CASE ControllerCrash
  BY <1>9, IdleType DEF ControllerCrash, SnapshotsTyped
<1>10. QED
  BY <1>1, <1>2, <1>3, <1>4, <1>5, <1>6, <1>7, <1>8, <1>9 DEF Next, UserStep

-----------------------------------------------------------------------------
(* What the driver answers about snapshots.                                *)

\* The call that a handler serves fits the VolumeSnapshot; it was given up only if that is known.
CallsMatch ==
    \A h \in Handlers : Busy(h) =>
        LET s == handler[h].snap
        IN  /\ handler[h].pc = "create" => s \notin Preprovisioned
            /\ handler[h].pc = "list" => s \in Preprovisioned
            /\ handler[h].pc = "delete" => snap[s].phase \in {"deleting", "deleted"}
            /\ handler[h].awaited =>
                 snap[s].phase = IF handler[h].pc = "delete" THEN "deleting" ELSE "wanted"
            /\ ~handler[h].awaited => snap[s].stale

OneCall ==
    \A g, h \in Handlers :
        /\ Busy(g) /\ handler[g].awaited /\ Busy(h) /\ handler[h].awaited
        /\ handler[g].snap = handler[h].snap
        => g = h

IdsSettled ==
    \A s \in Snaps : s \in Preprovisioned \/ snap[s].phase # "wanted" => snap[s].id = IdFor(s)

\* A snapshot never holds files newer than its volume's.
ShotsArePast == \A x \in shots : x.content <= content[x.vol]

CallsInv == SnapshotsTyped /\ CallsMatch /\ OneCall /\ IdsSettled

AnswersInv == CallsInv /\ ShotsArePast /\ AnswersAreTrue

LEMMA NamedByIdFor ==
    ASSUME NEW s \in Snaps
    PROVE  Named(IdFor(s)) = {x \in shots : x.vol = VolumeOf(s) /\ x.name = IdFor(s)[3]}
BY IdForType DEF Named

LEMMA NamedApart ==
    ASSUME NEW s \in Snaps, NEW r \in Snaps, s # r
    PROVE  Named(IdFor(s)) \cap Named(IdFor(r)) = {}
BY NamedByIdFor, IdsApart

\* What an answer changes: the snapshot that was asked for, if its caller waits.
LEMMA ReturnEffect ==
    ASSUME CallsInv, NEW h \in Handlers, Busy(h), NEW success \in BOOLEAN, Return(h, success)
    PROVE  LET s == handler[h].snap
           IN  /\ s \in Snaps /\ handler' = [handler EXCEPT ![h] = Idle]
               /\ \A r \in Snaps \ {s} : snap'[r] = snap[r]
               /\ \/ snap'[s] = snap[s]
                  \/ /\ success /\ handler[h].awaited
                     /\ snap'[s].stale = snap[s].stale /\ snap'[s].id = IdFor(s)
                     /\ IF handler[h].pc = "delete" THEN snap'[s].phase = "deleted"
                        ELSE snap'[s].phase = "ready" /\ snap'[s].upTo = content[VolumeOf(s)]
<1> DEFINE s == handler[h].snap
<1>1. s \in Snaps /\ snap[s] \in SnapRecord /\ handler' = [handler EXCEPT ![h] = Idle]
      /\ handler[h].pc \in {"create", "delete", "list"}
  BY DEF CallsInv, SnapshotsTyped, HandlerRecord, Return, Busy
<1>2. CASE ~handler[h].awaited \/ ~success \/ UNCHANGED snap
  BY <1>1, <1>2 DEF Return, Heard
<1>3. CASE handler[h].awaited /\ success /\ snap' = Heard(h, success)
  <2>1. snap[s].phase = IF handler[h].pc = "delete" THEN "deleting" ELSE "wanted"
    BY <1>3 DEF CallsInv, CallsMatch
  <2>2. IF handler[h].pc = "create" THEN IdOf(s) = IdFor(s) ELSE snap[s].id = IdFor(s)
    BY <1>1, <2>1 DEF CallsInv, CallsMatch, IdsSettled, IdFor
  <2> DEFINE become == IF handler[h].pc = "delete" THEN "deleted" ELSE "ready"
             heard == [snap[s] EXCEPT
                         !.phase = become, !.id = IF handler[h].pc = "create" THEN IdOf(s) ELSE @,
                         !.upTo = IF become = "ready" THEN content[VolumeOf(s)] ELSE @]
  <2>3. snap' = [snap EXCEPT ![s] = heard]
    BY <1>1, <1>3, <2>1 DEF Heard, CallsInv, SnapshotsTyped, SnapRecord
  <2>4. /\ heard.phase = become /\ heard.id = IdFor(s) /\ heard.stale = snap[s].stale
        /\ become = "ready" => heard.upTo = content[VolumeOf(s)]
    BY <1>1, <2>2 DEF SnapRecord
  <2> HIDE DEF heard
  <2>5. snap'[s] = heard /\ \A r \in Snaps \ {s} : snap'[r] = snap[r]
    BY <1>1, <2>3 DEF CallsInv, SnapshotsTyped
  <2>6. QED
    BY <1>1, <1>3, <2>4, <2>5
<1>4. QED
  BY <1>2, <1>3 DEF Return

LEMMA ReturnKeepsCalls ==
    ASSUME CallsInv, NEW h \in Handlers, Busy(h), NEW success \in BOOLEAN, Return(h, success)
    PROVE  CallsMatch' /\ OneCall' /\ IdsSettled'
<1> DEFINE s == handler[h].snap
<1>1. ~Busy(h)' /\ \A g \in Handlers \ {h} : handler'[g] = handler[g]
  BY ReturnEffect DEF CallsInv, SnapshotsTyped, Busy, Idle
<1>2. CallsMatch'
  <2> SUFFICES ASSUME NEW g \in Handlers \ {h}, Busy(g)
               PROVE  LET r == handler[g].snap
                      IN  /\ handler[g].pc = "create" => r \notin Preprovisioned
                          /\ handler[g].pc = "list" => r \in Preprovisioned
                          /\ handler[g].pc = "delete" => snap'[r].phase \in {"deleting", "deleted"}
                          /\ handler[g].awaited => snap'[r].phase =
                               IF handler[g].pc = "delete" THEN "deleting" ELSE "wanted"
                          /\ ~handler[g].awaited => snap'[r].stale
    BY <1>1 DEF CallsMatch, Busy
  <2>1. handler[g].snap \in Snaps
    BY DEF CallsInv, SnapshotsTyped, HandlerRecord
  <2>2. CASE snap'[handler[g].snap] = snap[handler[g].snap]
    BY <2>2 DEF CallsInv, CallsMatch
  <2>3. CASE snap'[handler[g].snap] # snap[handler[g].snap]
    <3>1. handler[g].snap = s /\ handler[h].awaited /\ ~handler[g].awaited
      BY <2>1, <2>3, ReturnEffect DEF CallsInv, OneCall
    <3>2. handler[g].pc = "delete" => handler[h].pc = "delete"
      BY <3>1 DEF CallsInv, CallsMatch
    <3>3. QED
      BY <2>3, <3>1, <3>2, ReturnEffect DEF CallsInv, CallsMatch
  <2>4. QED
    BY <2>2, <2>3
<1>3. OneCall'
  BY <1>1 DEF CallsInv, OneCall, Busy
<1>4. IdsSettled'
  BY ReturnEffect DEF CallsInv, IdsSettled
<1>5. QED
  BY <1>2, <1>3, <1>4

\* A snapshot's VolumeSnapshot is not called ready any more when its removal runs.
LEMMA RemovedIsKnown ==
    ASSUME CallsInv, NEW h \in Handlers, handler[h].pc = "delete"
    PROVE  LET s == handler[h].snap
           IN  s \in Snaps /\ snap[s].phase \in {"deleting", "deleted"} /\ snap[s].id = IdFor(s)
<1>1. Busy(h) /\ handler[h].snap \in Snaps
  BY DEF Busy, CallsInv, SnapshotsTyped, HandlerRecord
<1>2. QED
  BY <1>1 DEF CallsInv, CallsMatch, IdsSettled

LEMMA TakeKeepsAnswers ==
    ASSUME AnswersInv, NEW h \in Handlers, TakeSnapshot(h)
    PROVE  CallsInv' /\ ShotsArePast' /\ AnswersAreTrue'
<1> DEFINE s == handler[h].snap
           taken == [vol |-> VolumeOf(s), name |-> s, content |-> content[VolumeOf(s)]]
<1>1. /\ CallsInv /\ Busy(h) /\ Return(h, TRUE) /\ s \in Snaps /\ UNCHANGED content
      /\ handler[h].pc = "create"
  BY DEF AnswersInv, TakeSnapshot, Busy, CallsInv, SnapshotsTyped, HandlerRecord
<1>2. IdOf(s) = IdFor(s) /\ IdFor(s)[3] = s
  BY <1>1 DEF CallsInv, CallsMatch, IdFor, IdOf, SnapshotIdOf
<1>3. shots \subseteq shots' /\ shots' \subseteq shots \cup {taken}
  BY <1>1 DEF TakeSnapshot
<1>4. \E x \in shots' : x.vol = VolumeOf(s) /\ x.name = IdFor(s)[3]
  <2>1. CASE Named(IdOf(s)) # {}
    BY <1>1, <1>2, <1>3, <2>1, NamedByIdFor
  <2>2. CASE Named(IdOf(s)) = {}
    <3>1. taken \in shots'
      BY <2>2 DEF TakeSnapshot
    <3>2. taken.vol = VolumeOf(s) /\ taken.name = IdFor(s)[3]
      BY <1>2
    <3>3. QED
      BY <3>1, <3>2
  <2>3. QED
    BY <2>1, <2>2
<1>5. CallsInv'
  <2>1. SnapshotsTyped'
    BY <1>1, HandlerStepType DEF HandlerStep, AnswersInv, CallsInv
  <2>2. QED
    BY <1>1, <2>1, ReturnKeepsCalls DEF CallsInv
<1>6. ShotsArePast'
  <2>1. taken.content <= content[taken.vol]
    BY <1>1, SourceVolume DEF CallsInv, SnapshotsTyped
  <2>2. QED
    BY <1>1, <1>3, <2>1 DEF ShotsArePast, AnswersInv
<1>7. ASSUME NEW r \in Snaps, snap'[r].phase = "ready"
      PROVE  \E x \in Named(snap[r].id)' : x.vol = VolumeOf(r) /\ x.content <= snap'[r].upTo
  <2>1. CASE snap'[r] = snap[r]
    <3>1. PICK x \in Named(snap[r].id) : x.vol = VolumeOf(r) /\ x.content <= snap[r].upTo
      BY <1>7, <2>1 DEF AnswersInv, AnswersAreTrue
    <3>2. x \in Named(snap[r].id)'
      BY <1>3, <2>1, <3>1 DEF Named
    <3>3. QED
      BY <2>1, <3>1, <3>2
  <2>2. CASE snap'[r] # snap[r]
    <3>1. r = s /\ snap'[s].id = IdFor(s) /\ snap'[s].upTo = content[VolumeOf(s)]
      BY <1>1, <2>2, ReturnEffect
    <3>2. PICK x \in shots' : x.vol = VolumeOf(s) /\ x.name = IdFor(s)[3]
      BY <1>4
    <3>3. x \in Named(snap[r].id)'
      BY <1>1, <3>1, <3>2, IdForType DEF Named
    <3>4. x.content <= content[VolumeOf(s)]
      BY <1>1, <1>6, <3>2 DEF ShotsArePast
    <3>5. QED
      BY <3>1, <3>2, <3>3, <3>4
  <2>3. QED
    BY <2>1, <2>2
<1>8. ASSUME NEW r \in Snaps, snap'[r].phase = "deleted", ~snap'[r].stale
      PROVE  Named(snap[r].id)' = {}
  <2>1. snap'[r] = snap[r]
    BY <1>1, <1>8, ReturnEffect
  <2>2. r # s
    BY <1>1, <1>8, <2>1 DEF CallsInv, CallsMatch
  <2>3. snap[r].id = IdFor(r) /\ Named(snap[r].id) = {}
    BY <1>8, <2>1 DEF AnswersInv, AnswersAreTrue, CallsInv, IdsSettled
  <2>4. taken.vol # VolumeOf(r) \/ taken.name # IdFor(r)[3]
    BY <1>1, <1>2, <2>2, IdsApart
  <2>5. QED
    BY <1>1, <1>3, <2>1, <2>3, <2>4, IdForType DEF Named
<1>9. QED
  BY <1>5, <1>6, <1>7, <1>8 DEF AnswersAreTrue

LEMMA RemoveKeepsAnswers ==
    ASSUME AnswersInv, NEW h \in Handlers, RemoveSnapshot(h)
    PROVE  CallsInv' /\ ShotsArePast' /\ AnswersAreTrue'
<1> DEFINE s == handler[h].snap
<1>1. PICK success \in BOOLEAN : Return(h, success)
  BY SnapshotsAssumption DEF RemoveSnapshot
<1>2. /\ CallsInv /\ Busy(h) /\ s \in Snaps /\ UNCHANGED content
      /\ handler[h].pc = "delete" /\ snap[s].phase \in {"deleting", "deleted"}
      /\ snap[s].id = IdFor(s) /\ shots' = shots \ Named(IdFor(s))
  BY RemovedIsKnown DEF AnswersInv, RemoveSnapshot, Busy
<1>3. CallsInv'
  <2>1. SnapshotsTyped'
    BY <1>2, HandlerStepType DEF HandlerStep, CallsInv
  <2>2. QED
    BY <1>1, <1>2, <2>1, ReturnKeepsCalls DEF CallsInv
<1>4. ShotsArePast'
  BY <1>2 DEF ShotsArePast, AnswersInv
<1>5. ASSUME NEW r \in Snaps, snap'[r].phase = "ready"
      PROVE  \E x \in Named(snap[r].id)' : x.vol = VolumeOf(r) /\ x.content <= snap'[r].upTo
  <2>1. snap'[r] = snap[r] /\ r # s
    BY <1>1, <1>2, <1>5, ReturnEffect
  <2>2. PICK x \in Named(snap[r].id) : x.vol = VolumeOf(r) /\ x.content <= snap[r].upTo
    BY <1>5, <2>1 DEF AnswersInv, AnswersAreTrue
  <2>3. snap[r].id = IdFor(r)
    BY <1>2, <1>5, <2>1 DEF CallsInv, IdsSettled
  <2>4. x \in shots'
    BY <1>2, <2>1, <2>2, <2>3, NamedApart DEF Named
  <2>5. QED
    BY <2>1, <2>2, <2>4 DEF Named
<1>6. ASSUME NEW r \in Snaps, snap'[r].phase = "deleted", ~snap'[r].stale
      PROVE  Named(snap[r].id)' = {}
  <2>1. CASE snap'[r] = snap[r]
    BY <1>2, <1>6, <2>1 DEF AnswersInv, AnswersAreTrue, Named
  <2>2. CASE snap'[r] # snap[r]
    <3>1. r = s /\ snap'[r].id = IdFor(s)
      BY <1>1, <1>2, <2>2, ReturnEffect
    <3>2. QED
      BY <1>2, <3>1 DEF Named
  <2>3. QED
    BY <2>1, <2>2
<1>7. QED
  BY <1>3, <1>4, <1>5, <1>6 DEF AnswersAreTrue

LEMMA ListKeepsAnswers ==
    ASSUME AnswersInv, NEW h \in Handlers, ListVolumeSnapshots(h)
    PROVE  CallsInv' /\ ShotsArePast' /\ AnswersAreTrue'
<1> DEFINE s == handler[h].snap
           Listed(id) == id \in ListedIds(id) \/ SubSeq(id, 1, 3) \in ListedIds(id)
<1>1. PICK found \in BOOLEAN :
         /\ CallsInv /\ Busy(h) /\ Return(h, found) /\ s \in Snaps
         /\ UNCHANGED <<shots, content>> /\ s \in Preprovisioned /\ snap[s].id = IdFor(s)
         /\ handler[h].pc = "list" /\ (found => Listed(IdFor(s)))
  <2>1. CallsInv /\ Busy(h) /\ s \in Snaps /\ handler[h].pc = "list"
    BY DEF AnswersInv, ListVolumeSnapshots, Busy, CallsInv, SnapshotsTyped, HandlerRecord
  <2>2. s \in Preprovisioned /\ snap[s].id = IdFor(s)
    BY <2>1 DEF CallsInv, CallsMatch, IdsSettled
  <2>3. QED
    BY <2>1, <2>2, SnapshotsAssumption DEF ListVolumeSnapshots
<1>2. CallsInv'
  <2>1. SnapshotsTyped'
    BY <1>1, HandlerStepType DEF HandlerStep, CallsInv
  <2>2. QED
    BY <1>1, <2>1, ReturnKeepsCalls DEF CallsInv
<1>3. ShotsArePast'
  BY <1>1 DEF ShotsArePast, AnswersInv
<1>4. ASSUME NEW r \in Snaps, snap'[r].phase = "ready"
      PROVE  \E x \in Named(snap[r].id)' : x.vol = VolumeOf(r) /\ x.content <= snap'[r].upTo
  <2>1. CASE snap'[r] = snap[r]
    BY <1>1, <1>4, <2>1 DEF AnswersInv, AnswersAreTrue, Named
  <2>2. CASE snap'[r] # snap[r]
    <3>1. r = s /\ found /\ snap'[s].id = IdFor(s) /\ snap'[s].upTo = content[VolumeOf(s)]
      BY <1>1, <2>2, ReturnEffect
    <3>2. PICK x \in shots :
            /\ x.vol = VolumeOf(s)
            /\ \/ IdFor(s) = <<IdFor(s)[1], IdFor(s)[2], x.name>>
               \/ SubSeq(IdFor(s), 1, 3) = <<IdFor(s)[1], IdFor(s)[2], x.name>>
      BY <1>1, <3>1, IdForType DEF ListedIds
    <3>3. x.name = IdFor(s)[3]
      <4>1. SubSeq(IdFor(s), 1, 3)[3] = IdFor(s)[3]
        BY <1>1, IdForType DEF IsSnapshotId
      <4>2. <<IdFor(s)[1], IdFor(s)[2], x.name>>[3] = x.name
        OBVIOUS
      <4>3. QED
        BY <3>2, <4>1, <4>2
    <3>4. x \in Named(snap[r].id)'
      BY <1>1, <3>1, <3>2, <3>3, IdForType DEF Named
    <3>5. QED
      BY <1>1, <3>1, <3>2, <3>4 DEF ShotsArePast, AnswersInv
  <2>3. QED
    BY <2>1, <2>2
<1>5. ASSUME NEW r \in Snaps, snap'[r].phase = "deleted", ~snap'[r].stale
      PROVE  Named(snap[r].id)' = {}
  <2>1. snap'[r] = snap[r]
    BY <1>1, <1>5, ReturnEffect
  <2>2. QED
    BY <1>1, <1>5, <2>1 DEF AnswersInv, AnswersAreTrue, Named
<1>6. QED
  BY <1>2, <1>3, <1>4, <1>5 DEF AnswersAreTrue

\* Steps that leave the snapshots of the backend alone, and make none ready or deleted.
LEMMA QuietStepKeepsAnswers ==
    ASSUME AnswersInv, UNCHANGED shots, \A v \in Volumes : content[v] <= content'[v],
           \A s \in Snaps : snap'[s] = snap[s] \/
              (/\ snap'[s].id = snap[s].id /\ snap'[s].upTo = snap[s].upTo
               /\ snap'[s].phase \in {"deleted", "ready"} => snap'[s].phase = snap[s].phase
               /\ snap[s].stale => snap'[s].stale),
           SnapshotsTyped'
    PROVE  ShotsArePast' /\ AnswersAreTrue'
<1>1. ShotsArePast'
  <2> SUFFICES ASSUME NEW x \in shots
               PROVE  x.content <= content'[x.vol]
    BY DEF ShotsArePast
  <2>1. x.vol \in Volumes /\ x.content \in Nat
    BY SnapshotsAssumption DEF AnswersInv, CallsInv, SnapshotsTyped
  <2>2. content[x.vol] \in Nat /\ content'[x.vol] \in Nat
    BY <2>1, SnapshotsAssumption DEF AnswersInv, CallsInv, SnapshotsTyped
  <2>3. x.content <= content[x.vol] /\ content[x.vol] <= content'[x.vol]
    BY <2>1 DEF AnswersInv, ShotsArePast
  <2>4. QED
    BY <2>1, <2>2, <2>3
<1>2. ASSUME NEW s \in Snaps
      PROVE  /\ snap'[s].phase = "ready" =>
                  \E x \in Named(snap[s].id)' : x.vol = VolumeOf(s) /\ x.content <= snap'[s].upTo
             /\ snap'[s].phase = "deleted" /\ ~snap'[s].stale => Named(snap[s].id)' = {}
  <2>1. Named(snap[s].id)' = Named(snap[s].id)
    BY DEF Named
  <2>2. snap[s].stale \in BOOLEAN /\ snap'[s].stale \in BOOLEAN
    BY DEF AnswersInv, CallsInv, SnapshotsTyped, SnapRecord
  <2>3. QED
    BY <2>1, <2>2 DEF AnswersInv, AnswersAreTrue
<1>3. QED
  BY <1>1, <1>2 DEF AnswersAreTrue

LEMMA ApiFailureKeepsAnswers ==
    ASSUME AnswersInv, NEW h \in Handlers, ApiCallFails(h)
    PROVE  AnswersInv'
<1>1. SnapshotsTyped'
  BY HandlerStepType DEF HandlerStep, AnswersInv, CallsInv
<1>2. ~Busy(h)' /\ \A g \in Handlers \ {h} : handler'[g] = handler[g]
  BY DEF ApiCallFails, AnswersInv, CallsInv, SnapshotsTyped, Busy, Idle
<1>3. UNCHANGED <<snap, shots, content>>
  BY DEF ApiCallFails
<1>4. CallsMatch' /\ OneCall' /\ IdsSettled'
  BY <1>2, <1>3 DEF AnswersInv, CallsInv, CallsMatch, OneCall, IdsSettled, Busy
<1>5. ShotsArePast' /\ AnswersAreTrue'
  BY <1>3 DEF AnswersInv, ShotsArePast, AnswersAreTrue, Named
<1>6. QED
  BY <1>1, <1>4, <1>5 DEF AnswersInv, CallsInv

LEMMA HandlerStepKeepsAnswers ==
    ASSUME AnswersInv, NEW h \in Handlers, HandlerStep(h)
    PROVE  AnswersInv'
BY TakeKeepsAnswers, RemoveKeepsAnswers, ListKeepsAnswers, ApiFailureKeepsAnswers
   DEF HandlerStep, AnswersInv

LEMMA TimeoutKeepsAnswers ==
    ASSUME AnswersInv, NEW h \in Handlers, CallTimesOut(h)
    PROVE  AnswersInv'
<1> DEFINE s == handler[h].snap
<1>1. SnapshotsTyped /\ s \in Snaps /\ Busy(h)
  BY DEF AnswersInv, CallsInv, SnapshotsTyped, HandlerRecord, CallTimesOut
<1>2. SnapshotsTyped'
  BY <1>1, NextType DEF Next
<1>3. /\ UNCHANGED <<shots, content>> /\ handler'[h] = [handler[h] EXCEPT !.awaited = FALSE]
      /\ \A g \in Handlers \ {h} : handler'[g] = handler[g]
      /\ snap'[s] = [snap[s] EXCEPT !.stale = TRUE] /\ \A r \in Snaps \ {s} : snap'[r] = snap[r]
  BY <1>1 DEF CallTimesOut, SnapshotsTyped
<1>4. /\ \A r \in Snaps :
           /\ snap'[r].phase = snap[r].phase /\ snap'[r].id = snap[r].id
           /\ snap'[r].upTo = snap[r].upTo
           /\ snap[r].stale => snap'[r].stale
      /\ snap'[s].stale
  <2>1. /\ snap'[s].phase = snap[s].phase /\ snap'[s].id = snap[s].id
        /\ snap'[s].upTo = snap[s].upTo /\ snap'[s].stale
    BY <1>1, <1>3 DEF SnapshotsTyped, SnapRecord
  <2>2. QED
    BY <1>3, <2>1
<1>5. /\ \A g \in Handlers : /\ handler'[g].pc = handler[g].pc
                             /\ handler'[g].snap = handler[g].snap
                             /\ g # h => handler'[g].awaited = handler[g].awaited
      /\ ~handler'[h].awaited
  BY <1>1, <1>3 DEF SnapshotsTyped, HandlerRecord
<1>6. CallsMatch'
  <2> SUFFICES ASSUME NEW g \in Handlers, Busy(g)
               PROVE  LET r == handler'[g].snap
                      IN  /\ handler[g].pc = "create" => r \notin Preprovisioned
                          /\ handler[g].pc = "list" => r \in Preprovisioned
                          /\ handler[g].pc = "delete" => snap'[r].phase \in {"deleting", "deleted"}
                          /\ handler'[g].awaited => snap'[r].phase =
                               IF handler[g].pc = "delete" THEN "deleting" ELSE "wanted"
                          /\ ~handler'[g].awaited => snap'[r].stale
    BY <1>5 DEF CallsMatch, Busy
  <2>1. handler[g].snap \in Snaps
    BY <1>1 DEF SnapshotsTyped, HandlerRecord
  <2>2. QED
    BY <1>4, <1>5, <2>1 DEF AnswersInv, CallsInv, CallsMatch
<1>7. OneCall'
  BY <1>5 DEF AnswersInv, CallsInv, OneCall, Busy
<1>8. IdsSettled'
  BY <1>4 DEF AnswersInv, CallsInv, IdsSettled
<1>9. ShotsArePast' /\ AnswersAreTrue'
  <2>1. \A v \in Volumes : content[v] <= content'[v]
    BY <1>1, <1>3, SnapshotsAssumption DEF SnapshotsTyped
  <2>2. QED
    BY <1>2, <1>3, <1>4, <2>1, QuietStepKeepsAnswers
<1>10. QED
  BY <1>2, <1>6, <1>7, <1>8, <1>9 DEF AnswersInv, CallsInv

LEMMA CallKeepsAnswers ==
    ASSUME AnswersInv, NEW s \in Snaps, NEW op \in {"create", "delete", "list"}, Call(op, s),
           snap[s].phase = IF op = "delete" THEN "deleting" ELSE "wanted",
           op = "create" => s \notin Preprovisioned, op = "list" => s \in Preprovisioned
    PROVE  AnswersInv'
<1>1. SnapshotsTyped /\ SnapshotsTyped' /\ UNCHANGED <<snap, shots, content>>
  BY CallType DEF AnswersInv, CallsInv, Call
<1>2. PICK h \in Handlers :
         /\ ~Busy(h)
         /\ handler' = [handler EXCEPT ![h] = [pc |-> op, snap |-> s, awaited |-> TRUE]]
  BY DEF Call, Handlers
<1>3. /\ handler'[h] = [pc |-> op, snap |-> s, awaited |-> TRUE]
      /\ \A g \in Handlers \ {h} : handler'[g] = handler[g]
  BY <1>1, <1>2 DEF SnapshotsTyped
<1>4. CallsMatch'
  BY <1>1, <1>3 DEF AnswersInv, CallsInv, CallsMatch, Busy
<1>5. OneCall'
  <2>1. \A g \in Handlers : Busy(g) /\ handler[g].awaited => handler[g].snap # s
    BY DEF Call, Awaiting
  <2>2. QED
    BY <1>3, <2>1 DEF AnswersInv, CallsInv, OneCall, Busy
<1>6. IdsSettled' /\ ShotsArePast' /\ AnswersAreTrue'
  BY <1>1 DEF AnswersInv, CallsInv, IdsSettled, ShotsArePast, AnswersAreTrue, Named
<1>7. QED
  BY <1>1, <1>4, <1>5, <1>6 DEF AnswersInv, CallsInv

LEMMA DeletionKeepsAnswers ==
    ASSUME AnswersInv, NEW s \in Snaps, DeleteVolumeSnapshot(s)
    PROVE  AnswersInv'
<1>1. SnapshotsTyped /\ UNCHANGED <<handler, shots, content>> /\ snap[s].phase = "ready"
  BY DEF AnswersInv, CallsInv, DeleteVolumeSnapshot
<1>2. SnapshotsTyped'
  BY <1>1, NextType DEF Next, UserStep
<1>3. /\ snap'[s] = [snap[s] EXCEPT !.phase = "deleting"]
      /\ \A r \in Snaps \ {s} : snap'[r] = snap[r]
  BY <1>1 DEF DeleteVolumeSnapshot, SnapshotsTyped
<1>4. /\ snap'[s].phase = "deleting" /\ snap'[s].id = snap[s].id
      /\ snap'[s].upTo = snap[s].upTo /\ snap'[s].stale = snap[s].stale
  BY <1>1, <1>3 DEF SnapshotsTyped, SnapRecord
\* Nobody waits for a call about a snapshot that is ready.
<1>5. CallsMatch'
  <2> SUFFICES ASSUME NEW g \in Handlers, Busy(g)
               PROVE  LET r == handler[g].snap
                      IN  /\ handler[g].pc = "create" => r \notin Preprovisioned
                          /\ handler[g].pc = "list" => r \in Preprovisioned
                          /\ handler[g].pc = "delete" => snap'[r].phase \in {"deleting", "deleted"}
                          /\ handler[g].awaited => snap'[r].phase =
                               IF handler[g].pc = "delete" THEN "deleting" ELSE "wanted"
                          /\ ~handler[g].awaited => snap'[r].stale
    BY <1>1 DEF CallsMatch, Busy
  <2>1. handler[g].snap \in Snaps
    BY <1>1 DEF SnapshotsTyped, HandlerRecord
  <2>2. QED
    BY <1>1, <1>3, <1>4, <2>1 DEF AnswersInv, CallsInv, CallsMatch
<1>6. OneCall' /\ IdsSettled'
  BY <1>1, <1>3, <1>4 DEF AnswersInv, CallsInv, OneCall, IdsSettled, Busy
<1>7. ShotsArePast' /\ AnswersAreTrue'
  <2>1. \A v \in Volumes : content[v] <= content'[v]
    BY <1>1, SnapshotsAssumption DEF SnapshotsTyped
  <2>2. QED
    BY <1>1, <1>2, <1>3, <1>4, <2>1, QuietStepKeepsAnswers
<1>8. QED
  BY <1>2, <1>5, <1>6, <1>7 DEF AnswersInv, CallsInv

LEMMA NextKeepsAnswers == AnswersInv /\ [Next]_controllerVars => AnswersInv'
<1> SUFFICES ASSUME AnswersInv, [Next]_controllerVars
             PROVE  AnswersInv'
  OBVIOUS
<1>1. SnapshotsTyped /\ SnapshotsTyped'
  BY NextType DEF AnswersInv, CallsInv
<1>2. CASE UNCHANGED <<snap, handler, shots, content>>
  BY <1>1, <1>2 DEF AnswersInv, CallsInv, CallsMatch, OneCall, IdsSettled, ShotsArePast,
                    AnswersAreTrue, Named, Busy
<1>3. ASSUME NEW h \in Handlers, HandlerStep(h) \/ CallTimesOut(h)
      PROVE  AnswersInv'
  BY <1>3, HandlerStepKeepsAnswers, TimeoutKeepsAnswers
<1>4. ASSUME NEW s \in Snaps, CallerStep(s)
      PROVE  AnswersInv'
  BY <1>4, CallKeepsAnswers DEF CallerStep, CreateSnapshot, ListSnapshots, DeleteSnapshot
<1>5. ASSUME NEW s \in Snaps, DeleteVolumeSnapshot(s)
      PROVE  AnswersInv'
  BY <1>5, DeletionKeepsAnswers
<1>6. ASSUME NEW v \in Volumes, ChangeFiles(v)
      PROVE  AnswersInv'
  <2>1. UNCHANGED <<snap, handler, shots>>
    BY <1>6 DEF ChangeFiles
  <2>2. \A w \in Volumes : content[w] <= content'[w]
    BY <1>1, <1>6, SnapshotsAssumption DEF ChangeFiles, SnapshotsTyped
  <2>3. CallsMatch' /\ OneCall' /\ IdsSettled'
    BY <2>1 DEF AnswersInv, CallsInv, CallsMatch, OneCall, IdsSettled, Busy
  <2>4. QED
    BY <1>1, <2>1, <2>2, <2>3, QuietStepKeepsAnswers DEF AnswersInv, CallsInv
<1>7. CASE ControllerCrash
  <2>1. UNCHANGED <<snap, shots, content>> /\ \A h \in Handlers : ~Busy(h)'
    BY <1>7 DEF ControllerCrash, Busy, Idle
  <2>2. QED
    BY <1>1, <2>1 DEF AnswersInv, CallsInv, CallsMatch, OneCall, IdsSettled, ShotsArePast,
                      AnswersAreTrue, Named
<1>8. QED
  BY <1>2, <1>3, <1>4, <1>5, <1>6, <1>7
     DEF Next, UserStep, RestoreClaim, DeleteRestoredClaim, controllerVars

LEMMA InitAnswers == Init => AnswersInv
<1> SUFFICES ASSUME Init
             PROVE  AnswersInv
  OBVIOUS
<1>1. SnapshotsTyped
  <2>1. snap \in [Snaps -> SnapRecord]
    <3>1. ASSUME NEW s \in Snaps
          PROVE  (IF s \in Preprovisioned THEN GivenId[s] ELSE <<>>) \in Seq(STRING)
      <4>1. <<>> \in Seq(STRING)
        BY NoParts, Zenon
      <4>2. s \in Preprovisioned => GivenId[s] \in Seq(STRING)
        BY SnapshotsAssumption
      <4>3. QED
        BY <4>1, <4>2, Zenon
    <3>2. 0 \in 0 .. MaxContent
      BY SnapshotsAssumption
    <3>3. QED
      BY <3>1, <3>2 DEF Init, SnapRecord
  <2>2. restore \in [Restores -> RestoreRecord]
    BY DEF Init, RestoreRecord, NoPv, PlainVolume
  <2>3. handler \in [Handlers -> HandlerRecord]
    BY IdleType DEF Init
  <2>4. shots \subseteq [vol : Volumes, name : STRING, content : 0 .. MaxContent]
    <3>1. ASSUME NEW s \in Preprovisioned
          PROVE  VolumeOf(s) \in Volumes /\ GivenId[s][3] \in STRING
      BY SourceVolume, IdForType, SnapshotsAssumption DEF IdFor, IsSnapshotId
    <3>2. QED
      BY <3>1, SnapshotsAssumption DEF Init
  <2>5. content \in [Volumes -> 0 .. MaxContent]
    BY SnapshotsAssumption DEF Init
  <2>6. QED
    BY <2>1, <2>2, <2>3, <2>4, <2>5 DEF SnapshotsTyped
<1>2. CallsMatch /\ OneCall
  BY DEF Init, CallsMatch, OneCall, Busy, Idle
<1>3. IdsSettled
  BY DEF Init, IdsSettled, IdFor
<1>4. ShotsArePast
  BY <1>1 DEF Init, ShotsArePast, SnapshotsTyped
<1>5. AnswersAreTrue
  BY DEF Init, AnswersAreTrue
<1>6. QED
  BY <1>1, <1>2, <1>3, <1>4, <1>5 DEF AnswersInv, CallsInv

\* What SnapshotsStay says of a step.
LEMMA NextKeepsShots ==
    ASSUME AnswersInv, [Next]_controllerVars, NEW s \in Snaps, snap[s].phase = "ready"
    PROVE  Named(snap[s].id) \subseteq shots'
<1>1. CASE shots \subseteq shots'
  BY <1>1 DEF Named
<1>2. ASSUME NEW h \in Handlers, RemoveSnapshot(h)
      PROVE  Named(snap[s].id) \subseteq shots'
  <2>1. LET r == handler[h].snap
        IN  /\ r \in Snaps /\ snap[r].phase \in {"deleting", "deleted"}
            /\ shots' = shots \ Named(IdFor(r))
    BY <1>2, RemovedIsKnown DEF RemoveSnapshot, AnswersInv
  <2>2. snap[s].id = IdFor(s) /\ handler[h].snap # s
    BY <2>1 DEF AnswersInv, CallsInv, IdsSettled
  <2>3. Named(snap[s].id) \subseteq shots
    BY DEF Named
  <2>4. QED
    BY <2>1, <2>2, <2>3, NamedApart
<1>3. ASSUME NEW h \in Handlers, TakeSnapshot(h)
      PROVE  shots \subseteq shots'
  BY <1>3 DEF TakeSnapshot
<1>4. QED
  BY <1>1, <1>2, <1>3
     DEF Next, UserStep, HandlerStep, ApiCallFails, ListVolumeSnapshots, CallTimesOut, CallerStep,
         CreateSnapshot, ListSnapshots, DeleteSnapshot, Call, DeleteVolumeSnapshot, RestoreClaim,
         DeleteRestoredClaim, ChangeFiles, ControllerCrash, controllerVars

-----------------------------------------------------------------------------
(* The node.                                                               *)

\* A claim, once bound, publishes the id of its snapshot, and nothing before.
RestoresMatch ==
    \A r \in Restores :
        restore[r].pv = IF restore[r].phase = "pending" THEN NoPv
                        ELSE CreateSnapshotResponse(IdFor(From[r]))

LEMMA NextKeepsRestores ==
    ASSUME AnswersInv, RestoresMatch, [Next]_controllerVars
    PROVE  /\ RestoresMatch'
           /\ \A r \in Restores : restore[r].phase # "pending" => restore'[r].phase # "pending"
<1>1. restore \in [Restores -> RestoreRecord]
  BY DEF AnswersInv, CallsInv, SnapshotsTyped
<1>2. CASE UNCHANGED restore
  BY <1>2 DEF RestoresMatch
<1>3. ASSUME NEW r \in Restores, RestoreClaim(r)
      PROVE  /\ RestoresMatch'
             /\ \A q \in Restores : restore[q].phase # "pending" => restore'[q].phase # "pending"
  <2>1. From[r] \in Snaps /\ snap[From[r]].id = IdFor(From[r])
    BY <1>3, SnapshotsAssumption DEF RestoreClaim, AnswersInv, CallsInv, IdsSettled
  <2>2. QED
    BY <1>1, <1>3, <2>1 DEF RestoreClaim, RestoresMatch
<1>4. ASSUME NEW r \in Restores, DeleteRestoredClaim(r)
      PROVE  /\ RestoresMatch'
             /\ \A q \in Restores : restore[q].phase # "pending" => restore'[q].phase # "pending"
  <2>1. restore'[r].pv = restore[r].pv /\ restore'[r].phase = "deleted"
    BY <1>1, <1>4 DEF DeleteRestoredClaim, RestoreRecord
  <2>2. \A q \in Restores \ {r} : restore'[q] = restore[q]
    BY <1>1, <1>4 DEF DeleteRestoredClaim
  <2>3. restore[r].phase = "bound"
    BY <1>4 DEF DeleteRestoredClaim
  <2>4. QED
    BY <2>1, <2>2, <2>3 DEF RestoresMatch
<1>5. QED
  BY <1>2, <1>3, <1>4
     DEF Next, UserStep, HandlerStep, ApiCallFails, TakeSnapshot, RemoveSnapshot,
         ListVolumeSnapshots, CallTimesOut, CallerStep, CreateSnapshot, ListSnapshots,
         DeleteSnapshot, Call, DeleteVolumeSnapshot, ChangeFiles, ControllerCrash, controllerVars

\* A handler that publishes does so for a bound claim.
PublishesMatch ==
    \A h \in Node!Calls :
        call[h].pc \in {"resolve", "context", "bind"} => restore[ClaimOf[call[h].target]].phase # "pending"

\* A context that leads to a mount maps to the key of the mount's own target.
KeysMatch ==
    AccessKeyMounts =>
        /\ \A t \in Targets : \A i \in DOMAIN stack[t] : stack[t][i].live =>
             /\ stack[t][i].path.context \in DOMAIN contexts
             /\ contexts[stack[t][i].path.context] = KeyOf[t]
        /\ \A h \in Node!Calls : call[h].pc = "bind" =>
             /\ call[h].context \in Contexts
             /\ call[h].context \in DOMAIN contexts =>
                   contexts[call[h].context] = KeyOf[call[h].target]

NodeInv == Node!NodeTypeOK /\ PublishesMatch /\ KeysMatch

LEMMA MountPathType ==
    ASSUME RestoresMatch, NEW t \in Targets, restore[ClaimOf[t]].phase # "pending",
           NEW x \in Contexts \cup {NoPart}
    PROVE  Node!MountPath(t, x) \in Node!Path
<1> DEFINE id == IdFor(From[ClaimOf[t]])
           pv == PublishedVolume[t]
           handle == Node!HandleOf(pv)
<1>1. ClaimOf[t] \in Restores /\ From[ClaimOf[t]] \in Snaps
  BY NodeConstants, SnapshotsAssumption
<1>2. id \in Seq(STRING) /\ Len(id) >= 3 /\ id[2] \in DOMAIN UuidOf
  BY <1>1, IdForType DEF IsSnapshotId
<1>3. id[1] \in STRING /\ id[2] \in STRING /\ id[3] \in STRING /\ (Len(id) = 4 => id[4] \in STRING)
  BY <1>2
<1>4. pv.dummy = TRUE /\ pv.id = id
  <2>1. pv = restore[ClaimOf[t]].pv
    BY DEF PublishedVolume
  <2>2. pv = CreateSnapshotResponse(id)
    BY <1>1, <2>1 DEF RestoresMatch
  <2>3. QED
    BY <2>2 DEF CreateSnapshotResponse
<1> HIDE DEF id, pv
<1>5. handle = IF Len(id) = 4 THEN <<id[1], id[2], id[4]>> ELSE <<id[1], id[2]>>
  BY <1>4 DEF Node!HandleOf, Node!HandleInSnapshot
<1> HIDE DEF handle
<1>6. handle[2] = id[2] /\ Node!SubdirectoryOf(handle) \in STRING
  <2>1. CASE Len(id) = 4
    <3>1. handle = <<id[1], id[2], id[4]>>
      BY <1>5, <2>1
    <3>2. Len(handle) = 3 /\ handle[2] = id[2] /\ handle[3] = id[4]
      BY <3>1
    <3>3. QED
      BY <1>3, <2>1, <3>2 DEF Node!SubdirectoryOf
  <2>2. CASE Len(id) # 4
    <3>1. handle = <<id[1], id[2]>>
      BY <1>5, <2>2
    <3>2. Len(handle) = 2 /\ handle[2] = id[2]
      BY <3>1
    <3>3. QED
      BY <3>2, PartsAssumption DEF Node!SubdirectoryOf, Node!NoPart, NoPart
  <2>3. QED
    BY <2>1, <2>2
<1>7. Node!VolumeUuid(t) \in STRING
  <2>1. UuidOf[id[2]] \in STRING
    BY <1>2, NamesAssumption
  <2>2. Node!VolumeUuid(t) = IF Node!HasApiCredentials(t) THEN UuidOf[id[2]] ELSE id[2]
    BY <1>6 DEF Node!VolumeUuid, handle, pv
  <2>3. QED
    BY <1>3, <2>1, <2>2
<1>8. Node!SnapshotNameOf(pv) = id[3]
  BY <1>4 DEF Node!SnapshotNameOf
<1>9. ASSUME NEW p \in STRING, NEW q \in STRING
      PROVE  Node!Below(p, <<Node!snapshotsDir, p>>) \o Node!Below(q, <<q>>) \in Seq(STRING)
  <2>1. Node!Below(p, <<Node!snapshotsDir, p>>) \in Seq(STRING)
    <3>1. <<>> \in Seq(STRING)
      BY NoParts, Zenon
    <3>2. Node!snapshotsDir \in STRING
      BY PartsAssumption DEF snapshotsDir, Node!snapshotsDir
    <3>3. <<Node!snapshotsDir, p>> \in Seq(STRING)
      BY <3>2, FewParts, Zenon
    <3>4. QED
      BY <3>1, <3>3, Zenon DEF Node!Below
  <2>2. Node!Below(q, <<q>>) \in Seq(STRING)
    <3>1. <<>> \in Seq(STRING) /\ <<q>> \in Seq(STRING)
      BY NoParts, FewParts, Zenon
    <3>2. QED
      BY <3>1, Zenon DEF Node!Below
  <2>3. QED
    BY <2>1, <2>2
<1>10. QED
  BY <1>3, <1>6, <1>7, <1>8, <1>9 DEF handle, pv, Node!MountPath, Node!FormMountPath, Node!Path, NoPart, Node!NoPart

LEMMA FreeType ==
    ASSUME Node!Calls # {}
    PROVE  Node!Free \in Node!CallRecord /\ Node!Free.pc = "idle"
<1>1. Targets # {}
  BY DEF Node!Calls
<1>2. (CHOOSE t \in Targets : TRUE) \in Targets
  BY <1>1, Zenon
<1>3. QED
  BY <1>2 DEF Node!Free, Node!CallRecord, NoPart, Node!NoPart

LEMMA NodeReturnEffect ==
    ASSUME Node!NodeTypeOK, NEW h \in Node!Calls, NEW success, Node!Return(h, success)
    PROVE  /\ call' \in [Node!Calls -> Node!CallRecord] /\ pod' \in [Targets -> Node!PodRecord]
           /\ call'[h] = Node!Free /\ \A g \in Node!Calls \ {h} : call'[g] = call[g]
<1>1. call[h].target \in Targets
  BY DEF Node!NodeTypeOK, Node!CallRecord
<1>2. pod' \in [Targets -> Node!PodRecord]
  BY <1>1 DEF Node!NodeTypeOK, Node!PodRecord, Node!Return
<1>3. QED
  BY <1>2, FreeType DEF Node!NodeTypeOK, Node!Return

\* A handler that moves on or returns, while mounts and contexts stay.
LEMMA CallStepKeepsNode ==
    ASSUME NodeInv, NEW h \in Node!Calls, UNCHANGED <<restore, stack, contexts>>,
           pod' \in [Targets -> Node!PodRecord], call' \in [Node!Calls -> Node!CallRecord],
           \A g \in Node!Calls \ {h} : call'[g] = call[g],
           call'[h].pc \in {"resolve", "context", "bind"} =>
              restore[ClaimOf[call'[h].target]].phase # "pending",
           AccessKeyMounts => call'[h].pc # "bind"
    PROVE  NodeInv'
<1>1. Node!NodeTypeOK'
  BY DEF NodeInv, Node!NodeTypeOK
<1>2. PublishesMatch'
  BY DEF NodeInv, PublishesMatch
<1>3. KeysMatch'
  BY DEF NodeInv, KeysMatch
<1>4. QED
  BY <1>1, <1>2, <1>3 DEF NodeInv

LEMMA ResolveKeepsNode ==
    ASSUME NodeInv, NEW h \in Node!Calls, UNCHANGED restore,
           Node!CallFails(h) \/ Node!ResolveVolume(h)
    PROVE  NodeInv'
<1>1. /\ Node!NodeTypeOK /\ call \in [Node!Calls -> Node!CallRecord]
      /\ pod \in [Targets -> Node!PodRecord] /\ UNCHANGED <<restore, stack, contexts>>
      /\ call[h].pc \in {"resolve", "context"} /\ (Node!ResolveVolume(h) => call[h].pc = "resolve")
  BY DEF NodeInv, Node!NodeTypeOK, Node!CallFails, Node!ResolveVolume, Node!At
<1>2. CASE Node!CallFails(h)
  <2>1. call' = [call EXCEPT ![h] = Node!Free] /\ UNCHANGED pod
    BY <1>2 DEF Node!CallFails
  <2>2. /\ call' \in [Node!Calls -> Node!CallRecord] /\ call'[h].pc = "idle"
        /\ \A g \in Node!Calls \ {h} : call'[g] = call[g]
    BY <1>1, <2>1, FreeType
  <2>3. QED
    BY <1>1, <2>1, <2>2, CallStepKeepsNode
<1>3. CASE Node!Return(h, FALSE)
  <2>1. /\ call' \in [Node!Calls -> Node!CallRecord] /\ pod' \in [Targets -> Node!PodRecord]
        /\ call'[h].pc = "idle" /\ \A g \in Node!Calls \ {h} : call'[g] = call[g]
    BY <1>1, <1>3, NodeReturnEffect, FreeType
  <2>2. QED
    BY <1>1, <2>1, CallStepKeepsNode
<1>4. CASE Node!Goto(h, IF AccessKeyMounts THEN "context" ELSE "bind")
  <2> DEFINE pc == IF AccessKeyMounts THEN "context" ELSE "bind"
  <2>1. call' = [call EXCEPT ![h].pc = pc] /\ UNCHANGED pod
    BY <1>4 DEF Node!Goto
  <2>2. pc \in {"context", "bind"} /\ (AccessKeyMounts => pc # "bind")
    OBVIOUS
  <2> HIDE DEF pc
  <2>3. /\ call' \in [Node!Calls -> Node!CallRecord] /\ call'[h].pc = pc
        /\ call'[h].target = call[h].target /\ \A g \in Node!Calls \ {h} : call'[g] = call[g]
    BY <1>1, <2>1, <2>2 DEF Node!CallRecord
  <2>4. restore[ClaimOf[call[h].target]].phase # "pending"
    BY <1>1 DEF NodeInv, PublishesMatch
  <2>5. QED
    BY <1>1, <2>1, <2>2, <2>3, <2>4, CallStepKeepsNode
<1>5. QED
  BY <1>2, <1>3, <1>4 DEF Node!ResolveVolume

\* The new context is in use nowhere, so no mount and no other handler loses its key.
LEMMA SetXAttrKeepsNode ==
    ASSUME NodeInv, NEW h \in Node!Calls, UNCHANGED restore, Node!SetXAttr(h)
    PROVE  NodeInv'
<1> DEFINE x == Node!FreshContext(h)
           key == KeyOf[call[h].target]
<1>1. x \in Contexts /\ x \notin Node!ContextsInUse
  <2>1. \E y \in Contexts : y \notin Node!ContextsInUse
    BY DEF Node!SetXAttr
  <2>2. QED
    BY <2>1, Zenon DEF Node!FreshContext
<1>2. /\ call \in [Node!Calls -> Node!CallRecord] /\ call[h].target \in Targets
      /\ call[h].pc = "context" /\ UNCHANGED <<restore, pod, stack>> /\ key \in STRING
  BY NodeConstants
     DEF NodeInv, Node!NodeTypeOK, Node!SetXAttr, Node!CallRecord, Node!At, Node!NodeAssumption
<1> HIDE DEF x, key
<1>3. /\ DOMAIN contexts' = {x} \cup (DOMAIN contexts \cap Node!ContextsInUse)
      /\ contexts'[x] = key
      /\ \A y \in DOMAIN contexts \cap Node!ContextsInUse : contexts'[y] = contexts[y]
      /\ call' = [call EXCEPT ![h].pc = "bind", ![h].context = x]
  BY <1>1 DEF Node!SetXAttr, x, key
<1>4. /\ call' \in [Node!Calls -> Node!CallRecord]
      /\ call'[h].pc = "bind" /\ call'[h].context = x /\ call'[h].target = call[h].target
      /\ \A g \in Node!Calls \ {h} : call'[g] = call[g]
  BY <1>1, <1>2, <1>3 DEF Node!CallRecord
<1>5. Node!NodeTypeOK'
  <2>1. DOMAIN contexts' \subseteq Contexts
    BY <1>1, <1>3 DEF NodeInv, Node!NodeTypeOK
  <2>2. \A y \in DOMAIN contexts' : contexts'[y] \in STRING
    BY <1>2, <1>3 DEF NodeInv, Node!NodeTypeOK
  <2>3. QED
    BY <1>2, <1>4, <2>1, <2>2 DEF NodeInv, Node!NodeTypeOK
<1>6. PublishesMatch'
  BY <1>2, <1>4 DEF NodeInv, PublishesMatch
<1>7. KeysMatch'
  <2> SUFFICES ASSUME AccessKeyMounts
               PROVE  KeysMatch'
    BY DEF KeysMatch
  <2>1. ASSUME NEW t \in Targets, NEW i \in DOMAIN stack[t], stack[t][i].live
        PROVE  /\ stack[t][i].path.context \in DOMAIN contexts'
               /\ contexts'[stack[t][i].path.context] = KeyOf[t]
    <3>1. stack[t][i].path.context \in Node!ContextsInUse
      BY DEF Node!ContextsInUse
    <3>2. QED
      BY <1>3, <2>1, <3>1 DEF NodeInv, KeysMatch
  <2>2. ASSUME NEW g \in Node!Calls, call'[g].pc = "bind"
        PROVE  /\ call'[g].context \in Contexts
               /\ call'[g].context \in DOMAIN contexts' =>
                     contexts'[call'[g].context] = KeyOf[call'[g].target]
    <3>1. CASE g = h
      BY <1>1, <1>3, <1>4, <3>1 DEF key
    <3>2. CASE g # h
      <4>1. call[g].context \in Node!ContextsInUse
        BY DEF Node!ContextsInUse
      <4>2. QED
        BY <1>1, <1>3, <1>4, <2>2, <3>2, <4>1 DEF NodeInv, KeysMatch
    <3>3. QED
      BY <3>1, <3>2
  <2>3. QED
    BY <1>2, <2>1, <2>2 DEF KeysMatch
<1>8. QED
  BY <1>5, <1>6, <1>7 DEF NodeInv

LEMMA BindMountKeepsNode ==
    ASSUME NodeInv, RestoresMatch, NEW h \in Node!Calls, UNCHANGED restore, Node!BindMount(h)
    PROVE  NodeInv'
<1> DEFINE t == call[h].target
           path == Node!MountPath(t, call[h].context)
           mount == [path |-> path, live |-> TRUE]
<1>1. /\ Node!NodeTypeOK /\ call[h] \in Node!CallRecord /\ call[h].pc = "bind"
      /\ UNCHANGED <<restore, contexts>> /\ t \in Targets
      /\ \E success \in BOOLEAN : Node!Return(h, success)
  BY DEF NodeInv, Node!NodeTypeOK, Node!BindMount, Node!CallRecord, Node!At
<1>2. /\ call' \in [Node!Calls -> Node!CallRecord] /\ pod' \in [Targets -> Node!PodRecord]
      /\ call'[h].pc = "idle" /\ \A g \in Node!Calls \ {h} : call'[g] = call[g]
  BY <1>1, NodeReturnEffect, FreeType
<1>3. CASE UNCHANGED stack
  BY <1>1, <1>2, <1>3, CallStepKeepsNode
<1>4. CASE Node!Shows(path) /\ stack' = [stack EXCEPT ![t] = Append(@, mount)]
  <2>1. path \in Node!Path /\ path.context = call[h].context
    <3>1. restore[ClaimOf[t]].phase # "pending"
      BY <1>1 DEF NodeInv, PublishesMatch
    <3>2. call[h].context \in Contexts \cup {NoPart}
      BY <1>1 DEF Node!CallRecord, NoPart, Node!NoPart
    <3>3. QED
      BY <1>1, <3>1, <3>2, MountPathType DEF Node!MountPath, Node!FormMountPath
  <2> HIDE DEF path
  <2> DEFINE S == [path : Node!Path, live : BOOLEAN]
  <2>2. /\ stack'[t] = Append(stack[t], mount) /\ Append(stack[t], mount) \in Seq(S)
        /\ \A u \in Targets \ {t} : stack'[u] = stack[u]
        /\ \A u \in Targets : stack[u] \in Seq(S)
        /\ stack' \in [Targets -> Seq(S)]
    <3>1. mount \in S
      BY <2>1
    <3>2. stack \in [Targets -> Seq(S)] /\ t \in Targets
      BY <1>1 DEF Node!NodeTypeOK
    <3> HIDE DEF mount, S, t
    <3>3. stack' = [stack EXCEPT ![t] = Append(stack[t], mount)] /\ stack[t] \in Seq(S)
      BY <1>4, <3>2
    <3>4. Append(stack[t], mount) \in Seq(S)
      BY <3>1, <3>3
    <3>5. QED
      BY <3>2, <3>3, <3>4
  <2>3. Node!NodeTypeOK'
    BY <1>1, <1>2, <2>2 DEF Node!NodeTypeOK
  <2>4. PublishesMatch'
    BY <1>1, <1>2 DEF NodeInv, PublishesMatch
  <2>5. KeysMatch'
    <3> SUFFICES ASSUME AccessKeyMounts
                 PROVE  KeysMatch'
      BY DEF KeysMatch
    <3>1. call[h].context \in DOMAIN contexts /\ contexts[call[h].context] = KeyOf[t]
      BY <1>1, <1>4, <2>1, NodeConstants
         DEF NodeInv, KeysMatch, Node!Shows, Node!NodeAssumption
    <3>2. ASSUME NEW u \in Targets, NEW i \in DOMAIN stack'[u], stack'[u][i].live
          PROVE  /\ stack'[u][i].path.context \in DOMAIN contexts
                 /\ contexts[stack'[u][i].path.context] = KeyOf[u]
      <4>1. CASE u = t /\ i = Len(stack[t]) + 1
        <5>1. stack'[u][i] = mount
          BY <2>2, <4>1
        <5>2. QED
          BY <2>1, <3>1, <4>1, <5>1
      <4>2. CASE ~(u = t /\ i = Len(stack[t]) + 1)
        <5>1. i \in DOMAIN stack[u] /\ stack'[u][i] = stack[u][i]
          <6> HIDE DEF mount, S, t
          <6>1. CASE u # t
            BY <2>2, <3>2, <6>1
          <6>2. CASE u = t
            <7>1. i \in DOMAIN Append(stack[t], mount) /\ i # Len(stack[t]) + 1 /\ stack[t] \in Seq(S)
              BY <1>1, <2>2, <3>2, <4>2, <6>2
            <7>2. i \in DOMAIN stack[t] /\ Append(stack[t], mount)[i] = stack[t][i]
              BY <7>1
            <7>3. QED
              BY <2>2, <6>2, <7>2
          <6>3. QED
            BY <6>1, <6>2
        <5>2. QED
          BY <3>2, <5>1 DEF NodeInv, KeysMatch
      <4>3. QED
        BY <4>1, <4>2
    <3>3. QED
      BY <1>1, <1>2, <3>2 DEF NodeInv, KeysMatch
  <2>6. QED
    BY <2>3, <2>4, <2>5 DEF NodeInv
<1>5. QED
  BY <1>3, <1>4 DEF Node!BindMount

LEMMA UnmountKeepsNode ==
    ASSUME NodeInv, NEW h \in Node!Calls, UNCHANGED restore,
           Node!Unmount(h) \/ Node!UnmountBusy(h)
    PROVE  NodeInv'
<1> DEFINE t == call[h].target
           S == [path : Node!Path, live : BOOLEAN]
<1>1. /\ Node!NodeTypeOK /\ t \in Targets /\ UNCHANGED <<restore, contexts>>
      /\ stack \in [Targets -> Seq(S)] /\ call \in [Node!Calls -> Node!CallRecord]
      /\ pod \in [Targets -> Node!PodRecord]
  BY DEF NodeInv, Node!NodeTypeOK, Node!Unmount, Node!UnmountBusy, Node!CallRecord
<1> HIDE DEF t, S
<1>2. /\ call' \in [Node!Calls -> Node!CallRecord] /\ pod' \in [Targets -> Node!PodRecord]
      /\ call'[h].pc = "idle" /\ \A g \in Node!Calls \ {h} : call'[g] = call[g]
  <2>1. CASE Node!Unmount(h)
    BY <1>1, <2>1, NodeReturnEffect, FreeType DEF Node!Unmount
  <2>2. CASE Node!UnmountBusy(h)
    BY <1>1, <2>2, FreeType DEF Node!UnmountBusy
  <2>3. QED
    BY <2>1, <2>2
<1>3. CASE UNCHANGED stack
  BY <1>1, <1>2, <1>3, CallStepKeepsNode
<1>4. CASE Len(stack[t]) # 0 /\ stack' = [stack EXCEPT ![t] = SubSeq(@, 1, Len(@) - 1)]
  <2>1. /\ stack' \in [Targets -> Seq(S)]
        /\ \A u \in Targets : \A i \in DOMAIN stack'[u] :
             i \in DOMAIN stack[u] /\ stack'[u][i] = stack[u][i]
    <3>1. stack[t] \in Seq(S)
      BY <1>1
    <3>2. /\ SubSeq(stack[t], 1, Len(stack[t]) - 1) \in Seq(S)
          /\ \A i \in DOMAIN SubSeq(stack[t], 1, Len(stack[t]) - 1) :
               i \in DOMAIN stack[t] /\ SubSeq(stack[t], 1, Len(stack[t]) - 1)[i] = stack[t][i]
      BY <1>4, <3>1
    <3>3. QED
      BY <1>1, <1>4, <3>2
  <2>2. Node!NodeTypeOK'
    BY <1>1, <1>2, <2>1 DEF Node!NodeTypeOK, S
  <2>3. PublishesMatch'
    BY <1>1, <1>2 DEF NodeInv, PublishesMatch
  <2>4. KeysMatch'
    <3>1. ASSUME AccessKeyMounts, NEW u \in Targets, NEW i \in DOMAIN stack'[u], stack'[u][i].live
          PROVE  /\ stack'[u][i].path.context \in DOMAIN contexts'
                 /\ contexts'[stack'[u][i].path.context] = KeyOf[u]
      <4>1. i \in DOMAIN stack[u] /\ stack'[u][i] = stack[u][i] /\ stack[u][i].live
        BY <2>1, <3>1
      <4>2. QED
        BY <1>1, <3>1, <4>1 DEF NodeInv, KeysMatch
    <3>2. QED
      BY <1>1, <1>2, <3>1 DEF NodeInv, KeysMatch
  <2>5. QED
    BY <2>2, <2>3, <2>4 DEF NodeInv
<1>5. QED
  <2>1. stack[t] # <<>> => Len(stack[t]) # 0
    BY <1>1
  <2>2. QED
    BY <1>3, <1>4, <2>1 DEF Node!Unmount, Node!UnmountBusy, Node!Mounted, t

LEMMA NodeNextKeepsNode ==
    ASSUME NodeInv, RestoresMatch, UNCHANGED restore, Node!NodeNext
    PROVE  NodeInv'
<1>1. /\ call \in [Node!Calls -> Node!CallRecord] /\ pod \in [Targets -> Node!PodRecord]
      /\ Node!NodeTypeOK
  BY DEF NodeInv, Node!NodeTypeOK
<1>2. ASSUME NEW h \in Node!Calls, Node!CallStep(h)
      PROVE  NodeInv'
  BY <1>2, ResolveKeepsNode, SetXAttrKeepsNode, BindMountKeepsNode, UnmountKeepsNode
     DEF Node!CallStep
<1>3. ASSUME NEW h \in Node!Calls, Node!KubeletGivesUp(h)
      PROVE  NodeInv'
  <2>1. /\ UNCHANGED <<stack, contexts>> /\ call' = [call EXCEPT ![h].awaited = FALSE]
        /\ pod' = [pod EXCEPT ![call[h].target] = Node!GivenUp(call[h].target)]
        /\ call[h].target \in Targets
    BY <1>1, <1>3 DEF Node!KubeletGivesUp, Node!CallRecord
  <2>2. pod' \in [Targets -> Node!PodRecord]
    <3>1. Node!GivenUp(call[h].target) \in Node!PodRecord
      BY <1>1, <2>1 DEF Node!GivenUp, Node!PodRecord
    <3>2. QED
      BY <1>1, <2>1, <3>1
  <2>3. /\ call' \in [Node!Calls -> Node!CallRecord]
        /\ \A g \in Node!Calls : /\ call'[g].pc = call[g].pc /\ call'[g].target = call[g].target
                                  /\ call'[g].context = call[g].context
    BY <1>1, <2>1 DEF Node!CallRecord
  <2>4. QED
    BY <2>1, <2>2, <2>3 DEF NodeInv, Node!NodeTypeOK, PublishesMatch, KeysMatch
<1>4. ASSUME NEW t \in Targets, Node!KubeletStep(t)
      PROVE  NodeInv'
  <2>1. PICK pc \in {"resolve", "unmount"} :
           /\ Node!Call(t, pc)
           /\ pc = "resolve" => restore[ClaimOf[t]].phase # "pending"
    <3>1. CASE Node!NodePublishVolume(t)
      <4>1. ClaimOf[t] \in Restores /\ PublishedVolume[t] = restore[ClaimOf[t]].pv
        BY NodeConstants DEF PublishedVolume
      <4>2. PublishedVolume[t].dummy \/ PublishedVolume[t].handle # <<>>
        BY <3>1 DEF Node!NodePublishVolume, Node!HasVolume
      <4>3. NoPv.dummy = FALSE /\ NoPv.handle = <<>>
        BY DEF NoPv, PlainVolume
      <4>4. restore[ClaimOf[t]].phase # "pending"
        BY <4>1, <4>2, <4>3 DEF RestoresMatch
      <4>5. QED
        BY <3>1, <4>4 DEF Node!NodePublishVolume
    <3>2. CASE Node!NodeUnpublishVolume(t)
      BY <3>2 DEF Node!NodeUnpublishVolume
    <3>3. QED
      BY <1>4, <3>1, <3>2 DEF Node!KubeletStep
  <2> DEFINE new == [pc |-> pc, target |-> t, awaited |-> TRUE, context |-> NoPart]
  <2>2. PICK h \in Node!Calls : call' = [call EXCEPT ![h] = new]
    BY <2>1 DEF Node!Call, Node!Calls, NoPart, Node!NoPart
  <2>3. new \in Node!CallRecord /\ new.pc = pc /\ new.target = t
    BY <2>1 DEF Node!CallRecord, NoPart, Node!NoPart
  <2> HIDE DEF new
  <2>4. /\ call' \in [Node!Calls -> Node!CallRecord] /\ call'[h] = new
        /\ \A g \in Node!Calls \ {h} : call'[g] = call[g]
    BY <1>1, <2>2, <2>3
  <2>5. UNCHANGED <<pod, stack, contexts>>
    BY <2>1 DEF Node!Call
  <2>6. QED
    BY <1>1, <2>1, <2>3, <2>4, <2>5, CallStepKeepsNode
<1>5. ASSUME NEW t \in Targets, Node!DeletePod(t)
      PROVE  NodeInv'
  <2>1. UNCHANGED <<call, stack, contexts>>
    BY <1>5 DEF Node!DeletePod
  <2>2. pod' \in [Targets -> Node!PodRecord]
    BY <1>1, <1>5 DEF Node!DeletePod, Node!PodRecord
  <2>3. QED
    BY <2>1, <2>2 DEF NodeInv, Node!NodeTypeOK, PublishesMatch, KeysMatch
<1>6. CASE Node!NodeCrash
  <2>1. UNCHANGED <<stack, contexts>> /\ call' = [h \in Node!Calls |-> Node!Free]
    BY <1>6 DEF Node!NodeCrash
  <2>2. pod' \in [Targets -> Node!PodRecord]
    <3>1. \A t \in Targets :
             /\ pod[t] \in Node!PodRecord
             /\ Node!GivenUp(t) \in Node!PodRecord
      BY <1>1 DEF Node!PodRecord, Node!GivenUp
    <3>2. QED
      BY <1>6, <3>1 DEF Node!NodeCrash
  <2>3. /\ call' \in [Node!Calls -> Node!CallRecord]
        /\ \A h \in Node!Calls : call'[h].pc = "idle"
    BY <2>1, FreeType
  <2>4. QED
    BY <2>1, <2>2, <2>3 DEF NodeInv, Node!NodeTypeOK, PublishesMatch, KeysMatch
<1>7. CASE Node!ClientRestart
  <2>1. /\ UNCHANGED <<pod, call>> /\ contexts' = <<>>
        /\ stack' = [t \in Targets |->
                       [i \in DOMAIN stack[t] |-> [stack[t][i] EXCEPT !.live = FALSE]]]
    BY <1>7 DEF Node!ClientRestart
  <2> DEFINE S == [path : Node!Path, live : BOOLEAN]
  <2>2. stack \in [Targets -> Seq(S)]
    BY <1>1 DEF Node!NodeTypeOK
  <2>3. ASSUME NEW m \in S
        PROVE  [m EXCEPT !.live = FALSE] \in S /\ ~[m EXCEPT !.live = FALSE].live
    BY <2>3
  <2> HIDE DEF S
  <2>4. ASSUME NEW t \in Targets
        PROVE  stack'[t] \in Seq(S) /\ \A i \in DOMAIN stack'[t] : ~stack'[t][i].live
    <3>1. stack[t] \in Seq(S) /\ Len(stack[t]) \in Nat /\ DOMAIN stack[t] = 1 .. Len(stack[t])
      BY <2>2
    <3>2. \A i \in 1 .. Len(stack[t]) : stack[t][i] \in S
      BY <3>1
    <3>3. \A i \in 1 .. Len(stack[t]) :
             /\ [stack[t][i] EXCEPT !.live = FALSE] \in S
             /\ ~[stack[t][i] EXCEPT !.live = FALSE].live
      BY <2>3, <3>2
    <3>4. stack'[t] = [i \in 1 .. Len(stack[t]) |-> [stack[t][i] EXCEPT !.live = FALSE]]
      BY <2>1, <3>1
    <3>5. QED
      BY <3>1, <3>3, <3>4
  <2>5. Node!NodeTypeOK'
    <3>1. stack' \in [Targets -> Seq(S)]
      BY <2>1, <2>4
    <3>2. DOMAIN contexts' = {}
      BY <2>1
    <3>3. QED
      BY <1>1, <2>1, <3>1, <3>2 DEF Node!NodeTypeOK, S
  <2>6. PublishesMatch' /\ KeysMatch'
    BY <2>1, <2>4 DEF NodeInv, PublishesMatch, KeysMatch
  <2>7. QED
    BY <2>5, <2>6 DEF NodeInv
<1>8. QED
  BY <1>2, <1>3, <1>4, <1>5, <1>6, <1>7 DEF Node!NodeNext

-----------------------------------------------------------------------------
(* Controller and node together.                                           *)

FaultsTyped == faults \in 0 .. MaxFaults

SystemInv == AnswersInv /\ RestoresMatch /\ NodeInv /\ FaultsTyped

LEMMA ControllerStepIsNext == ControllerStep => Next
BY DEF ControllerStep, Next, UserStep

LEMMA InitInv == SystemInit => SystemInv
<1> SUFFICES ASSUME SystemInit
             PROVE  SystemInv
  OBVIOUS
<1>1. AnswersInv
  BY InitAnswers DEF SystemInit
<1>2. RestoresMatch /\ FaultsTyped
  BY SnapshotsAssumption DEF SystemInit, Init, RestoresMatch, FaultsTyped
<1>3. call \in [Node!Calls -> Node!CallRecord] /\ \A h \in Node!Calls : call[h].pc = "idle"
  BY FreeType DEF SystemInit, Node!NodeInit
<1>4. Node!NodeTypeOK
  <2>1. stack \in [Targets -> Seq([path : Node!Path, live : BOOLEAN])]
    <3>1. <<>> \in Seq([path : Node!Path, live : BOOLEAN])
      BY NoParts, Zenon
    <3>2. QED
      BY <3>1 DEF SystemInit, Node!NodeInit
  <2>2. pod \in [Targets -> Node!PodRecord] /\ DOMAIN contexts = {}
    BY DEF SystemInit, Node!NodeInit, Node!PodRecord
  <2>3. QED
    BY <1>3, <2>1, <2>2 DEF Node!NodeTypeOK
<1>5. PublishesMatch /\ KeysMatch
  BY <1>3 DEF SystemInit, Node!NodeInit, PublishesMatch, KeysMatch
<1>6. QED
  BY <1>1, <1>2, <1>4, <1>5 DEF SystemInv, NodeInv

LEMMA NextKeepsFaults ==
    ASSUME FaultsTyped, [SystemNext]_systemVars
    PROVE  FaultsTyped'
<1> USE SnapshotsAssumption DEF FaultsTyped
<1>1. ASSUME NEW kind, Fault(kind) \/ Node!Fault(kind)
      PROVE  FaultsTyped'
  BY <1>1 DEF Fault, Node!Fault
<1>2. CASE ControllerStep
  BY <1>1, <1>2
     DEF ControllerStep, HandlerStep, ApiCallFails, TakeSnapshot, RemoveSnapshot,
         ListVolumeSnapshots, Return, CallTimesOut, CallerStep, CreateSnapshot, ListSnapshots,
         DeleteSnapshot, Call, DeleteVolumeSnapshot, RestoreClaim, DeleteRestoredClaim,
         ChangeFiles, ControllerCrash
<1>3. CASE Node!NodeNext
  BY <1>1, <1>3
     DEF Node!NodeNext, Node!CallStep, Node!CallFails, Node!ResolveVolume, Node!SetXAttr,
         Node!BindMount, Node!Unmount, Node!UnmountBusy, Node!Return, Node!Goto,
         Node!KubeletGivesUp, Node!KubeletStep, Node!NodePublishVolume,
         Node!NodeUnpublishVolume, Node!Call, Node!DeletePod, Node!NodeCrash, Node!ClientRestart
<1>4. QED
  BY <1>2, <1>3 DEF SystemNext, systemVars

LEMMA NextKeepsInv == SystemInv /\ [SystemNext]_systemVars => SystemInv'
<1> SUFFICES ASSUME SystemInv, [SystemNext]_systemVars
             PROVE  SystemInv'
  OBVIOUS
<1>1. FaultsTyped'
  BY NextKeepsFaults DEF SystemInv
<1>2. [Next]_controllerVars
  BY ControllerStepIsNext DEF SystemNext, systemVars
<1>3. /\ AnswersInv' /\ RestoresMatch'
      /\ \A r \in Restores : restore[r].phase # "pending" => restore'[r].phase # "pending"
  BY <1>2, NextKeepsAnswers, NextKeepsRestores DEF SystemInv
<1>4. CASE UNCHANGED nodeVars
  <2>1. \A h \in Node!Calls : ClaimOf[call[h].target] \in Restores
    BY NodeConstants DEF SystemInv, NodeInv, Node!NodeTypeOK, Node!CallRecord
  <2>2. NodeInv'
    BY <1>3, <1>4, <2>1
       DEF SystemInv, nodeVars, NodeInv, Node!NodeTypeOK, PublishesMatch, KeysMatch
  <2>3. QED
    BY <1>1, <1>3, <2>2 DEF SystemInv
<1>5. CASE Node!NodeNext /\ UNCHANGED controllerVars
  <2>1. NodeInv'
    BY <1>5, NodeNextKeepsNode DEF SystemInv, controllerVars
  <2>2. QED
    BY <1>1, <1>3, <2>1 DEF SystemInv
<1>6. QED
  BY <1>4, <1>5 DEF SystemNext, systemVars

\* What holds between any two calls, of the snapshotter and of kubelet together.
LEMMA InvAlways == SystemSpec => []SystemInv
BY InitInv, NextKeepsInv, PTL DEF SystemSpec

\* The state of controller, backend and node stays within its types.
THEOREM TypeCorrect == SystemSpec => []SystemTypeOK
<1>1. SystemInv => SystemTypeOK
  BY DEF SystemInv, AnswersInv, CallsInv, SnapshotsTyped, FaultsTyped, NodeInv, SystemTypeOK, TypeOK
<1>2. QED
  BY <1>1, InvAlways, PTL

\* A snapshot that the driver answered is there with the files of its time, and nothing of a
\* deleted one is left, whatever answers, callers and processes were lost (controller.go:406-449,
\* 481-493).
THEOREM AnswersAreTrueAlways == SystemSpec => []AnswersAreTrue
<1>1. SystemInv => AnswersAreTrue
  BY DEF SystemInv, AnswersInv
<1>2. QED
  BY <1>1, InvAlways, PTL

\* A snapshot in use is never removed or taken anew (controller.go:410-415, 445-449).
THEOREM SnapshotsStayAlways == SystemSpec => SnapshotsStay
<1>1. SystemInv /\ [SystemNext]_systemVars =>
        [\A s \in Snaps : snap[s].phase = "ready" => Named(snap[s].id) \subseteq shots']_vars
  <2> SUFFICES ASSUME SystemInv, [SystemNext]_systemVars, NEW s \in Snaps, snap[s].phase = "ready"
               PROVE  Named(snap[s].id) \subseteq shots'
    OBVIOUS
  <2>1. [Next]_controllerVars
    BY ControllerStepIsNext DEF SystemNext, systemVars
  <2>2. QED
    BY <2>1, NextKeepsShots DEF SystemInv
<1>2. QED
  BY <1>1, InvAlways, PTL DEF SystemSpec, SnapshotsStay

\* A live mount is accessed with the key of its own secret, for any number of pods that publish
\* at a time (node.go:75-98).
THEOREM MountUsesOwnKeyAlways == SystemSpec => []MountUsesOwnKey
<1>1. SystemInv => MountUsesOwnKey
  BY DEF SystemInv, NodeInv, KeysMatch, MountUsesOwnKey, Node!MountUsesOwnKey
<1>2. QED
  BY <1>1, InvAlways, PTL

-----------------------------------------------------------------------------
(* What a restored claim shows.                                            *)

\* A claim is restored from a snapshot that was ready, and its mounts stay when it is deleted.
SourceKnown == \A r \in Restores : restore[r].phase # "pending" => snap[From[r]].phase # "wanted"

\* The snapshot is not newer than its VolumeSnapshot.
FilesOfTime ==
    \A s \in Snaps :
        /\ snap[s].phase \in {"ready", "deleting"}
        /\ snap[s].phase = "ready" \/ ~snap[s].stale
        => \A x \in Named(IdFor(s)) : x.content <= snap[s].upTo

\* The directory of the client mount that an id stands for.
PartOf(id) == SubdirectoryOf(HandleInSnapshot(id))

Leads(path, s) ==
    /\ path.root = VolumeOf(s)
    /\ path.below = <<snapshotsDir, IdFor(s)[3]>> \o Below(PartOf(IdFor(s)), <<PartOf(IdFor(s))>>)

MountsMatch ==
    \A t \in Targets :
        /\ stack[t] # <<>> => restore[ClaimOf[t]].phase # "pending"
        /\ \A i \in DOMAIN stack[t] : Leads(stack[t][i].path, Source(t))

Publishing(h) == call[h].pc \in {"resolve", "context", "bind"}

\* What kubelet knows of the calls that run.
KubeletKnows ==
    \A h \in Node!Calls :
        LET p == pod[call[h].target]
        IN  /\ Publishing(h) => IF call[h].awaited THEN p.phase = "wanted" ELSE p.uncertain
            /\ call[h].pc = "unmount" => p.phase \in {"deleting", "gone"}

OneNodeCall ==
    \A g, h \in Node!Calls :
        /\ call[g].pc # "idle" /\ call[g].awaited /\ call[h].pc # "idle" /\ call[h].awaited
        /\ call[g].target = call[h].target
        => g = h

\* How many mounts there are at a target, and that they are taken down.
StackKnown ==
    \A t \in Targets :
        /\ pod[t].phase = "published" => stack[t] # <<>>
        /\ ~pod[t].uncertain =>
             /\ Len(stack[t]) <= 1
             /\ pod[t].phase = "wanted" => stack[t] = <<>>
             /\ pod[t].phase = "gone" => \A i \in DOMAIN stack[t] : ~stack[t][i].live

KubeletInv == KubeletKnows /\ OneNodeCall /\ StackKnown

-----------------------------------------------------------------------------
(* The controller's side.                                                  *)

\* A handler that called the backend answers.
LEMMA Answers ==
    ASSUME NEW h \in Handlers, TakeSnapshot(h) \/ RemoveSnapshot(h) \/ ListVolumeSnapshots(h)
    PROVE  Busy(h) /\ \E success \in BOOLEAN : Return(h, success)
<1>1. CASE TakeSnapshot(h)
  BY <1>1 DEF TakeSnapshot, Busy
<1>2. CASE RemoveSnapshot(h)
  BY <1>2, SnapshotsAssumption DEF RemoveSnapshot, Busy
<1>3. CASE ListVolumeSnapshots(h)
  BY <1>3, SnapshotsAssumption DEF ListVolumeSnapshots, Busy
<1>4. QED
  BY <1>1, <1>2, <1>3

\* Taking a snapshot for a call that was given up touches no VolumeSnapshot that is still true.
LEMMA TakeKeepsFiles ==
    ASSUME AnswersInv, FilesOfTime, NEW h \in Handlers, TakeSnapshot(h)
    PROVE  FilesOfTime'
<1> DEFINE r == handler[h].snap
           taken == [vol |-> VolumeOf(r), name |-> r, content |-> content[VolumeOf(r)]]
<1>1. /\ CallsInv /\ Busy(h) /\ Return(h, TRUE) /\ r \in Snaps /\ UNCHANGED content
      /\ handler[h].pc = "create"
  BY DEF AnswersInv, TakeSnapshot, Busy, CallsInv, SnapshotsTyped, HandlerRecord
<1>2. IdOf(r) = IdFor(r) /\ IdFor(r)[3] = r
  BY <1>1 DEF CallsInv, CallsMatch, IdFor, IdOf, SnapshotIdOf
<1>3. SnapshotsTyped' /\ ShotsArePast'
  BY TakeKeepsAnswers DEF CallsInv
<1> SUFFICES ASSUME NEW s \in Snaps, snap'[s].phase \in {"ready", "deleting"},
                    snap'[s].phase = "ready" \/ ~snap'[s].stale,
                    NEW x \in Named(IdFor(s))'
             PROVE  x.content <= snap'[s].upTo
  BY DEF FilesOfTime, IdFor, IdOf, VolumeOf
<1>4. x \in shots' /\ x.vol = VolumeOf(s) /\ x.name = IdFor(s)[3]
  BY IdForType DEF Named, IdFor, IdOf, VolumeOf
<1>5. CASE snap'[s] = snap[s]
  <2>1. CASE x \in shots
    <3>1. x \in Named(IdFor(s))
      BY <1>4, <2>1, NamedByIdFor
    <3>2. QED
      BY <1>5, <3>1 DEF FilesOfTime
  <2>2. CASE x \notin shots
    <3>1. x = taken /\ Named(IdOf(r)) = {}
      BY <1>4, <2>2 DEF TakeSnapshot
    <3>2. s = r
      BY <1>1, <1>2, <1>4, <3>1, IdsApart
    <3>3. snap[s].phase # "ready"
      <4>1. snap[s].phase = "ready" => snap[s].id = IdFor(s) /\ Named(snap[s].id) # {}
        BY DEF AnswersInv, AnswersAreTrue, CallsInv, IdsSettled
      <4>2. QED
        BY <1>2, <3>1, <3>2, <4>1
    <3>4. snap[s].phase = "wanted" \/ snap[s].stale
      BY <1>1, <3>2 DEF CallsInv, CallsMatch
    <3>5. QED
      BY <1>5, <3>3, <3>4
  <2>3. QED
    BY <2>1, <2>2
<1>6. CASE snap'[s] # snap[s]
  <2>1. s = r /\ snap'[s].upTo = content[VolumeOf(s)]
    BY <1>1, <1>6, ReturnEffect
  <2>2. x.content <= content[x.vol]
    BY <1>1, <1>3, <1>4 DEF ShotsArePast
  <2>3. QED
    BY <1>4, <2>1, <2>2
<1>7. QED
  BY <1>5, <1>6

\* A step that takes no snapshot.
LEMMA QuietKeepsFiles ==
    ASSUME AnswersInv, FilesOfTime, shots' \subseteq shots,
           \A s \in Snaps :
             \/ snap'[s] = snap[s]
             \/ snap'[s].phase \notin {"ready", "deleting"}
             \/ snap'[s].phase = "ready" /\ snap'[s].upTo = content[VolumeOf(s)]
             \/ /\ snap'[s].upTo = snap[s].upTo /\ snap[s].phase \in {"ready", "deleting"}
                /\ snap[s].phase = "deleting" => snap'[s].phase = "deleting"
                /\ snap[s].stale => snap'[s].stale
             \/ snap'[s].phase = snap[s].phase /\ snap'[s].upTo = snap[s].upTo /\ snap'[s].stale
    PROVE  FilesOfTime'
<1> SUFFICES ASSUME NEW s \in Snaps, snap'[s].phase \in {"ready", "deleting"},
                    snap'[s].phase = "ready" \/ ~snap'[s].stale,
                    NEW x \in Named(IdFor(s))'
             PROVE  x.content <= snap'[s].upTo
  BY DEF FilesOfTime, IdFor, IdOf, VolumeOf
<1>1. x \in shots /\ x \in Named(IdFor(s)) /\ x.vol = VolumeOf(s)
  BY IdForType DEF Named, IdFor, IdOf, VolumeOf
<1>2. x.content <= content[VolumeOf(s)]
  BY <1>1 DEF AnswersInv, ShotsArePast
<1>3. QED
  BY <1>1, <1>2 DEF FilesOfTime

LEMMA NextKeepsFiles ==
    ASSUME AnswersInv, FilesOfTime, [Next]_controllerVars
    PROVE  FilesOfTime'
<1>1. SnapshotsTyped /\ CallsInv
  BY DEF AnswersInv, CallsInv
<1>2. CASE UNCHANGED <<snap, shots>>
  BY <1>2, QuietKeepsFiles
<1>3. ASSUME NEW h \in Handlers, HandlerStep(h)
      PROVE  FilesOfTime'
  <2>1. CASE TakeSnapshot(h)
    BY <2>1, TakeKeepsFiles
  <2>2. CASE RemoveSnapshot(h) \/ ListVolumeSnapshots(h)
    <3>1. PICK success \in BOOLEAN : Return(h, success)
      BY <2>2, Answers
    <3>2. Busy(h) /\ shots' \subseteq shots
      BY <2>2, Answers DEF RemoveSnapshot, ListVolumeSnapshots
    <3>3. PICK r \in Snaps :
            /\ \A s \in Snaps \ {r} : snap'[s] = snap[s]
            /\ \/ snap'[r] = snap[r]
               \/ snap'[r].phase = "deleted"
               \/ snap'[r].phase = "ready" /\ snap'[r].upTo = content[VolumeOf(r)]
      BY <1>1, <3>1, <3>2, ReturnEffect
    <3>4. \A s \in Snaps :
             \/ snap'[s] = snap[s]
             \/ snap'[s].phase \notin {"ready", "deleting"}
             \/ snap'[s].phase = "ready" /\ snap'[s].upTo = content[VolumeOf(s)]
      BY <3>3
    <3>5. QED
      BY <3>2, <3>4, QuietKeepsFiles
  <2>3. CASE ApiCallFails(h)
    BY <1>2, <2>3 DEF ApiCallFails
  <2>4. QED
    BY <1>3, <2>1, <2>2, <2>3 DEF HandlerStep
<1>4. ASSUME NEW h \in Handlers, CallTimesOut(h)
      PROVE  FilesOfTime'
  <2> DEFINE r == handler[h].snap
  <2>1. r \in Snaps
    BY <1>1 DEF SnapshotsTyped, HandlerRecord
  <2>2. UNCHANGED shots /\ snap' = [snap EXCEPT ![r].stale = TRUE]
    BY <1>4 DEF CallTimesOut
  <2> HIDE DEF r
  <2>3. /\ \A s \in Snaps \ {r} : snap'[s] = snap[s]
        /\ snap'[r].phase = snap[r].phase /\ snap'[r].upTo = snap[r].upTo /\ snap'[r].stale
    BY <1>1, <2>1, <2>2 DEF SnapshotsTyped, SnapRecord
  <2>4. QED
    BY <2>2, <2>3, QuietKeepsFiles
<1>5. ASSUME NEW r \in Snaps, DeleteVolumeSnapshot(r)
      PROVE  FilesOfTime'
  <2>1. /\ \A s \in Snaps \ {r} : snap'[s] = snap[s]
        /\ snap'[r].phase = "deleting" /\ snap[r].phase = "ready"
        /\ snap'[r].upTo = snap[r].upTo /\ snap'[r].stale = snap[r].stale
    BY <1>1, <1>5 DEF DeleteVolumeSnapshot, SnapshotsTyped, SnapRecord
  <2>2. UNCHANGED shots
    BY <1>5 DEF DeleteVolumeSnapshot
  <2>3. QED
    BY <2>1, <2>2, QuietKeepsFiles
<1>6. QED
  BY <1>2, <1>3, <1>4, <1>5
     DEF Next, UserStep, CallerStep, CreateSnapshot, ListSnapshots, DeleteSnapshot, Call,
         RestoreClaim, DeleteRestoredClaim, ChangeFiles, ControllerCrash, controllerVars

\* A VolumeSnapshot that left its first phase never comes back to it.
LEMMA NextKeepsSource ==
    ASSUME AnswersInv, SourceKnown, [Next]_controllerVars
    PROVE  SourceKnown'
<1>1. SnapshotsTyped /\ CallsInv
  BY DEF AnswersInv, CallsInv
<1>2. \A s \in Snaps : snap[s].phase # "wanted" => snap'[s].phase # "wanted"
  <2>1. CASE UNCHANGED snap
    BY <2>1
  <2>2. ASSUME NEW h \in Handlers, TakeSnapshot(h) \/ RemoveSnapshot(h) \/ ListVolumeSnapshots(h)
        PROVE  \A s \in Snaps : snap[s].phase # "wanted" => snap'[s].phase # "wanted"
    <3>1. PICK success \in BOOLEAN : Busy(h) /\ Return(h, success)
      BY <2>2, Answers
    <3>2. PICK r \in Snaps :
            /\ \A s \in Snaps \ {r} : snap'[s] = snap[s]
            /\ snap'[r] = snap[r] \/ snap'[r].phase \in {"deleted", "ready"}
      BY <1>1, <3>1, ReturnEffect
    <3>3. QED
      BY <3>2
  <2>3. ASSUME NEW h \in Handlers, CallTimesOut(h)
        PROVE  \A s \in Snaps : snap'[s].phase = snap[s].phase
    BY <1>1, <2>3 DEF CallTimesOut, SnapshotsTyped, SnapRecord
  <2>4. ASSUME NEW r \in Snaps, DeleteVolumeSnapshot(r)
        PROVE  \A s \in Snaps : snap[s].phase # "wanted" => snap'[s].phase # "wanted"
    BY <1>1, <2>4 DEF DeleteVolumeSnapshot, SnapshotsTyped, SnapRecord
  <2>5. QED
    BY <2>1, <2>2, <2>3, <2>4
       DEF Next, HandlerStep, ApiCallFails, UserStep, CallerStep, CreateSnapshot, ListSnapshots,
           DeleteSnapshot, Call, RestoreClaim, DeleteRestoredClaim, ChangeFiles, ControllerCrash,
           controllerVars
<1>3. ASSUME NEW r \in Restores, restore'[r].phase # "pending"
      PROVE  snap[From[r]].phase # "wanted"
  <2>1. CASE restore[r].phase # "pending"
    BY <2>1 DEF SourceKnown
  <2>2. CASE restore[r].phase = "pending"
    <3>1. RestoreClaim(r)
      BY <1>1, <1>3, <2>2
         DEF SnapshotsTyped, Next, HandlerStep, ApiCallFails, TakeSnapshot, RemoveSnapshot,
             ListVolumeSnapshots, CallTimesOut, UserStep, CallerStep, CreateSnapshot,
             ListSnapshots, DeleteSnapshot, Call, DeleteVolumeSnapshot, RestoreClaim,
             DeleteRestoredClaim, ChangeFiles, ControllerCrash, controllerVars
    <3>2. QED
      BY <3>1 DEF RestoreClaim
  <2>3. QED
    BY <2>1, <2>2
<1>4. QED
  BY <1>2, <1>3, SnapshotsAssumption DEF SourceKnown

-----------------------------------------------------------------------------
(* The node's side.                                                        *)

\* What the client mount shows for a restored claim is inside the snapshot of its source.
LEMMA MountPathLeads ==
    ASSUME RestoresMatch, SnapshotsTyped, NEW t \in Targets, restore[ClaimOf[t]].phase # "pending",
           NEW x \in Contexts \cup {NoPart}, Node!Shows(Node!MountPath(t, x))
    PROVE  Leads(Node!MountPath(t, x), Source(t))
<1> DEFINE s == Source(t)
           id == IdFor(s)
           pv == PublishedVolume[t]
           path == Node!MountPath(t, x)
<1>1. ClaimOf[t] \in Restores /\ s \in Snaps
  BY NodeConstants, SnapshotsAssumption DEF Source
<1>2. /\ id \in Seq(STRING) /\ Len(id) >= 3 /\ UuidOf[id[2]] = VolumeOf(s)
      /\ id[3] # NoPart
  <2>1. id[3] # NoPart
    <3>1. CASE s \in Preprovisioned
      BY <3>1, IdsAssumption DEF IdFor
    <3>2. CASE s \notin Preprovisioned
      BY <1>1, <3>2, IdsAssumption DEF IdFor, IdOf, SnapshotIdOf
    <3>3. QED
      BY <3>1, <3>2
  <2>2. QED
    BY <1>1, <2>1, IdForType DEF IsSnapshotId
<1>3. pv.dummy = TRUE /\ pv.id = id
  <2>1. pv = CreateSnapshotResponse(id)
    BY <1>1 DEF RestoresMatch, PublishedVolume, Source
  <2>2. QED
    BY <2>1 DEF CreateSnapshotResponse
<1> HIDE DEF s, id, pv
<1>4. Node!HandleOf(pv) = HandleInSnapshot(id) /\ HandleInSnapshot(id)[2] = id[2]
  BY <1>2, <1>3 DEF Node!HandleOf, Node!HandleInSnapshot, HandleInSnapshot
<1>5. /\ path.root = Node!VolumeUuid(t)
      /\ path.below = <<snapshotsDir, id[3]>> \o Below(PartOf(id), <<PartOf(id)>>)
  <2>1. Node!SnapshotNameOf(pv) = id[3]
    BY <1>3 DEF Node!SnapshotNameOf
  <2>2. Node!Below(id[3], <<Node!snapshotsDir, id[3]>>) = <<snapshotsDir, id[3]>>
    BY <1>2 DEF Node!Below, NoPart, Node!NoPart, snapshotsDir, Node!snapshotsDir
  <2>3. Node!SubdirectoryOf(Node!HandleOf(pv)) = PartOf(id)
    BY <1>4 DEF PartOf, SubdirectoryOf, Node!SubdirectoryOf, NoPart, Node!NoPart
  <2> DEFINE sub == PartOf(id)
  <2>4. Node!Below(sub, <<sub>>) = Below(sub, <<sub>>)
    BY DEF Node!Below, Below, NoPart, Node!NoPart
  <2> HIDE DEF sub
  <2>5. QED
    BY <2>1, <2>2, <2>3, <2>4 DEF Node!MountPath, Node!FormMountPath, pv, sub
<1>6. path.root \in Volumes
  <2>1. [root |-> path.root, below |-> path.below] \in ClientTrees
    BY DEF Node!Shows
  <2>2. ASSUME NEW p \in Roots
        PROVE  \E v, b : v \in Volumes /\ p = [root |-> v, below |-> b]
    BY DEF Roots, SnapshotsTyped
  <2>3. ASSUME NEW q \in ClientTrees
        PROVE  q.root \in Volumes
    <3>1. CASE q \in Roots
      BY <2>2, <3>1
    <3>2. CASE q \notin Roots
      <4> DEFINE Inside(p, sub) == [p EXCEPT !.below = Append(p.below, sub)]
      <4>0. ClientTrees = Roots \cup {Inside(p, sub) : p \in Roots, sub \in Subdirectories}
        BY DEF ClientTrees
      <4> HIDE DEF Inside
      <4>1. PICK p \in Roots, sub \in Subdirectories : q = Inside(p, sub)
        BY <3>2, <4>0
      <4>2. PICK v, b : v \in Volumes /\ p = [root |-> v, below |-> b]
        BY <2>2
      <4> DEFINE longer == Append(p.below, sub)
      <4>3. q = [p EXCEPT !.below = longer]
        BY <4>1 DEF Inside
      <4> HIDE DEF longer
      <4>4. q = [root |-> v, below |-> longer]
        BY <4>2, <4>3
      <4>5. QED
        BY <4>2, <4>4
    <3>3. QED
      BY <3>1, <3>2
  <2>4. QED
    BY <2>1, <2>3
<1>7. path.root = VolumeOf(s)
  <2>1. Node!VolumeUuid(t) = IF Node!HasApiCredentials(t) THEN UuidOf[id[2]] ELSE id[2]
    BY <1>4 DEF Node!VolumeUuid, pv
  <2>2. CASE Node!HasApiCredentials(t)
    BY <1>2, <1>5, <2>1, <2>2
  <2>3. CASE ~Node!HasApiCredentials(t)
    <3>1. path.root = id[2]
      BY <1>5, <2>1, <2>3
    <3>2. UuidOf[path.root] = path.root
      BY <1>6, NamesAssumption
    <3>3. QED
      BY <1>2, <3>1, <3>2
  <2>4. QED
    BY <2>2, <2>3
<1>8. QED
  BY <1>5, <1>7 DEF Leads, id, s

\* A step of the node that mounts nothing.
LEMMA NoMount ==
    ASSUME MountsMatch, UNCHANGED restore,
           \A t \in Targets :
             /\ stack'[t] # <<>> => stack[t] # <<>>
             /\ \A i \in DOMAIN stack'[t] : i \in DOMAIN stack[t] /\ stack'[t][i].path = stack[t][i].path
    PROVE  MountsMatch'
<1>1. ASSUME NEW t \in Targets, NEW i \in DOMAIN stack'[t]
      PROVE  Leads(stack'[t][i].path, Source(t))
  BY <1>1 DEF MountsMatch
<1>2. QED
  BY <1>1 DEF MountsMatch, Leads, VolumeOf, IdFor, IdOf, Source

\* A call returns: kubelet hears what it expects, and only about its own target.
LEMMA ReturnKeepsKubelet ==
    ASSUME Node!NodeTypeOK, KubeletKnows, OneNodeCall, NEW h \in Node!Calls, call[h].pc # "idle",
           NEW success \in BOOLEAN, Node!Return(h, success)
    PROVE  LET t == call[h].target
           IN  /\ KubeletKnows' /\ OneNodeCall' /\ t \in Targets
               /\ \A u \in Targets \ {t} : pod'[u] = pod[u]
               /\ pod'[t].uncertain = pod[t].uncertain
               /\ pod'[t].phase = IF success /\ call[h].awaited
                                  THEN IF call[h].pc = "unmount" THEN "gone" ELSE "published"
                                  ELSE pod[t].phase
<1> DEFINE t == call[h].target
           become == IF call[h].pc = "unmount" THEN "gone" ELSE "published"
<1>1. /\ t \in Targets /\ pod \in [Targets -> Node!PodRecord] /\ call[h] \in Node!CallRecord
      /\ call \in [Node!Calls -> Node!CallRecord]
  BY DEF Node!NodeTypeOK, Node!CallRecord
<1>2. /\ call'[h].pc = "idle" /\ \A g \in Node!Calls \ {h} : call'[g] = call[g]
  BY NodeReturnEffect, FreeType
<1>3. pod' = IF call[h].awaited /\ success THEN [pod EXCEPT ![t].phase = become] ELSE pod
  BY DEF Node!Return, Node!At
<1> HIDE DEF t, become
<1>4. /\ \A u \in Targets \ {t} : pod'[u] = pod[u]
      /\ pod'[t].uncertain = pod[t].uncertain
      /\ pod'[t].phase = IF success /\ call[h].awaited THEN become ELSE pod[t].phase
  BY <1>1, <1>3 DEF Node!PodRecord
<1>5. OneNodeCall'
  BY <1>2 DEF OneNodeCall
<1>6. ASSUME NEW g \in Node!Calls, call'[g].pc # "idle"
      PROVE  LET p == pod'[call'[g].target]
             IN  /\ Publishing(g)' => IF call'[g].awaited THEN p.phase = "wanted" ELSE p.uncertain
                 /\ call'[g].pc = "unmount" => p.phase \in {"deleting", "gone"}
  <2>1. g # h /\ call'[g] = call[g] /\ call[g].target \in Targets
    BY <1>1, <1>2, <1>6 DEF Node!CallRecord
  <2>2. CASE pod'[call[g].target] = pod[call[g].target]
    BY <2>1, <2>2 DEF KubeletKnows, Publishing
  <2>3. CASE pod'[call[g].target] # pod[call[g].target]
    <3>1. call[g].target = t /\ success /\ call[h].awaited /\ pod'[t].phase = become
      BY <1>3, <1>4, <2>1, <2>3
    <3>2. ~call[g].awaited
      BY <1>6, <2>1, <3>1 DEF OneNodeCall, t
    <3>3. Publishing(g) => pod'[t].uncertain
      BY <1>4, <3>1, <3>2 DEF KubeletKnows
    <3>4. call[g].pc = "unmount" => call[h].pc = "unmount"
      <4>1. call[h].pc # "unmount" => Publishing(h) /\ pod[t].phase = "wanted"
        BY <1>1, <3>1 DEF KubeletKnows, Publishing, Node!CallRecord, t
      <4>2. QED
        BY <3>1, <4>1 DEF KubeletKnows
    <3>5. QED
      BY <2>1, <3>1, <3>2, <3>3, <3>4 DEF Publishing, become
  <2>4. QED
    BY <2>2, <2>3
<1>7. KubeletKnows'
  BY <1>6 DEF KubeletKnows, Publishing
<1>8. QED
  BY <1>1, <1>4, <1>5, <1>7 DEF t, become

\* Steps of a handler that neither mount nor unmount.
LEMMA QuietCallKeepsKubelet ==
    ASSUME KubeletInv, NEW h \in Node!Calls, UNCHANGED <<pod, stack>>,
           \A g \in Node!Calls \ {h} : call'[g] = call[g],
           \/ call'[h].pc = "idle"
           \/ /\ Publishing(h) /\ Publishing(h)'
              /\ call'[h].target = call[h].target /\ call'[h].awaited = call[h].awaited
    PROVE  KubeletInv'
<1>1. KubeletKnows'
  BY DEF KubeletInv, KubeletKnows, Publishing
<1>2. OneNodeCall'
  BY DEF KubeletInv, OneNodeCall, Publishing
<1>3. StackKnown'
  BY DEF KubeletInv, StackKnown
<1>4. QED
  BY <1>1, <1>2, <1>3 DEF KubeletInv

LEMMA ResolveKeepsKubelet ==
    ASSUME Node!NodeTypeOK, KubeletInv, NEW h \in Node!Calls,
           Node!CallFails(h) \/ Node!ResolveVolume(h) \/ Node!SetXAttr(h) \/ Node!UnmountBusy(h)
    PROVE  KubeletInv' /\ UNCHANGED stack
<1>1. call \in [Node!Calls -> Node!CallRecord] /\ UNCHANGED stack
  BY DEF Node!NodeTypeOK, Node!CallFails, Node!ResolveVolume, Node!SetXAttr, Node!UnmountBusy
<1>2. CASE call' = [call EXCEPT ![h] = Node!Free] /\ UNCHANGED pod
  <2>1. call'[h].pc = "idle" /\ \A g \in Node!Calls \ {h} : call'[g] = call[g]
    BY <1>1, <1>2, FreeType
  <2>2. QED
    BY <1>1, <1>2, <2>1, QuietCallKeepsKubelet
<1>3. CASE Node!ResolveVolume(h) /\ ~Node!Return(h, FALSE)
  <2>1. \E pc \in {"context", "bind"} : call' = [call EXCEPT ![h].pc = pc]
    BY <1>3 DEF Node!ResolveVolume, Node!Goto
  <2>2. UNCHANGED pod /\ call[h].pc = "resolve"
    BY <1>3 DEF Node!ResolveVolume, Node!Goto, Node!At
  <2>3. /\ call'[h].pc \in {"context", "bind"} /\ call'[h].target = call[h].target
        /\ call'[h].awaited = call[h].awaited
        /\ \A g \in Node!Calls \ {h} : call'[g] = call[g]
    BY <1>1, <2>1 DEF Node!CallRecord
  <2>4. QED
    BY <1>1, <2>2, <2>3, QuietCallKeepsKubelet DEF Publishing
<1>4. CASE Node!SetXAttr(h)
  <2> DEFINE x == Node!FreshContext(h)
  <2>1. call' = [call EXCEPT ![h].pc = "bind", ![h].context = x] /\ UNCHANGED pod /\ call[h].pc = "context"
    BY <1>4 DEF Node!SetXAttr, Node!At
  <2> HIDE DEF x
  <2>2. /\ call'[h].pc = "bind" /\ call'[h].target = call[h].target
        /\ call'[h].awaited = call[h].awaited
        /\ \A g \in Node!Calls \ {h} : call'[g] = call[g]
    BY <1>1, <2>1 DEF Node!CallRecord
  <2>3. QED
    BY <1>1, <2>1, <2>2, QuietCallKeepsKubelet DEF Publishing
<1>5. QED
  BY <1>1, <1>2, <1>3, <1>4 DEF Node!CallFails, Node!ResolveVolume, Node!UnmountBusy, Node!Return

\* A mount that kubelet does not learn of makes the target uncertain; else it is the only one.
LEMMA BindMountKeepsKubelet ==
    ASSUME Node!NodeTypeOK, KubeletInv, NEW h \in Node!Calls, Node!BindMount(h)
    PROVE  KubeletInv'
<1> DEFINE t == call[h].target
           path == Node!MountPath(t, call[h].context)
           mount == [path |-> path, live |-> TRUE]
           success == Node!Shows(path) /\ ~Node!Dead(t)
<1>1. call[h].pc = "bind" /\ Node!Return(h, success) /\ success \in BOOLEAN
  BY DEF Node!BindMount, Node!At
<1>2. stack' = IF success THEN [stack EXCEPT ![t] = Append(@, mount)] ELSE stack
  BY DEF Node!BindMount
<1> HIDE DEF success, path, mount
<1>3. /\ KubeletKnows' /\ OneNodeCall' /\ t \in Targets
      /\ \A u \in Targets \ {t} : pod'[u] = pod[u]
      /\ pod'[t].uncertain = pod[t].uncertain
      /\ pod'[t].phase = IF success /\ call[h].awaited THEN "published" ELSE pod[t].phase
  BY <1>1, ReturnKeepsKubelet DEF KubeletInv
<1>4. \A u \in Targets : stack[u] \in Seq([path : Node!Path, live : BOOLEAN])
  BY DEF Node!NodeTypeOK
<1>5. StackKnown'
  <2> SUFFICES ASSUME NEW u \in Targets
               PROVE  /\ pod'[u].phase = "published" => stack'[u] # <<>>
                      /\ ~pod'[u].uncertain =>
                           /\ Len(stack'[u]) <= 1
                           /\ pod'[u].phase = "wanted" => stack'[u] = <<>>
                           /\ pod'[u].phase = "gone" => \A i \in DOMAIN stack'[u] : ~stack'[u][i].live
    BY DEF StackKnown
  <2>1. CASE u # t \/ ~success
    <3>1. pod'[u].phase = pod[u].phase /\ pod'[u].uncertain = pod[u].uncertain /\ stack'[u] = stack[u]
      BY <1>2, <1>3, <2>1 DEF Node!NodeTypeOK
    <3>2. QED
      BY <3>1 DEF KubeletInv, StackKnown
  <2>2. CASE u = t /\ success
    <3>1. stack'[t] = Append(stack[t], mount)
      BY <1>2, <1>3, <2>2 DEF Node!NodeTypeOK
    <3>2. stack'[t] # <<>> /\ Len(stack'[t]) = Len(stack[t]) + 1 /\ Len(stack[t]) \in Nat
      BY <1>3, <1>4, <3>1
    <3>3. ~pod[t].uncertain => call[h].awaited /\ pod[t].phase = "wanted"
      BY <1>1 DEF KubeletInv, KubeletKnows, Publishing
    <3>4. ~pod[t].uncertain => Len(stack[t]) = 0
      BY <1>3, <3>3 DEF KubeletInv, StackKnown
    <3>5. QED
      BY <1>3, <2>2, <3>2, <3>3, <3>4
  <2>3. QED
    BY <2>1, <2>2
<1>6. QED
  BY <1>3, <1>5 DEF KubeletInv

LEMMA OneMount ==
    ASSUME NEW S, NEW q \in Seq(S), Len(q) <= 1, q # <<>>
    PROVE  Len(q) = 1 /\ DOMAIN q = {1}
<1>1. Len(q) \in Nat /\ DOMAIN q = 1 .. Len(q) /\ Len(q) # 0
  OBVIOUS
<1>2. QED
  BY <1>1

LEMMA NoneLeft ==
    ASSUME NEW S, NEW q \in Seq(S)
    PROVE  Len(SubSeq(q, 1, 0)) = 0 /\ DOMAIN SubSeq(q, 1, 0) = {}
OBVIOUS

\* Unmounting the only mount leaves none, or a dead one.
LEMMA UnmountKeepsKubelet ==
    ASSUME Node!NodeTypeOK, KubeletInv, NEW h \in Node!Calls, Node!Unmount(h)
    PROVE  KubeletInv'
<1> DEFINE t == call[h].target
           success == Node!Mounted(t)
           S == [path : Node!Path, live : BOOLEAN]
<1>1. call[h].pc = "unmount" /\ Node!Return(h, success) /\ success \in BOOLEAN
  BY DEF Node!Unmount, Node!At, Node!Mounted
<1>2. /\ Node!Mounted(t) /\ ~Node!Dead(t) =>
           stack' = [stack EXCEPT ![t] = SubSeq(@, 1, Len(@) - 1)]
      /\ ~(Node!Mounted(t) /\ ~Node!Dead(t)) => stack' = stack
  BY DEF Node!Unmount
<1> HIDE DEF success
<1>3. /\ KubeletKnows' /\ OneNodeCall' /\ t \in Targets
      /\ \A u \in Targets \ {t} : pod'[u] = pod[u]
      /\ pod'[t].uncertain = pod[t].uncertain
      /\ pod'[t].phase = IF success /\ call[h].awaited THEN "gone" ELSE pod[t].phase
  BY <1>1, ReturnKeepsKubelet DEF KubeletInv
<1>4. stack[t] \in Seq(S) /\ stack \in [Targets -> Seq(S)]
  BY <1>3 DEF Node!NodeTypeOK
<1> HIDE DEF t, S
<1>5. pod[t].phase \in {"deleting", "gone"}
  BY <1>1 DEF KubeletInv, KubeletKnows, t
<1>6. ASSUME ~pod[t].uncertain, success
      PROVE  Len(stack'[t]) <= 1 /\ \A i \in DOMAIN stack'[t] : ~stack'[t][i].live
  <2>1. Len(stack[t]) = 1
    <3>1. Len(stack[t]) <= 1 /\ stack[t] # <<>>
      BY <1>3, <1>6 DEF KubeletInv, StackKnown, success, Node!Mounted
    <3>2. QED
      BY <1>4, <3>1, OneMount
  <2>2. CASE ~Node!Dead(t)
    <3>1. stack'[t] = SubSeq(stack[t], 1, 0)
      <4>1. stack' = [stack EXCEPT ![t] = SubSeq(@, 1, Len(@) - 1)]
        BY <1>2, <1>6, <2>2 DEF success
      <4>2. stack'[t] = SubSeq(stack[t], 1, Len(stack[t]) - 1)
        BY <1>3, <1>4, <4>1
      <4>3. QED
        BY <2>1, <4>2
    <3>2. DOMAIN stack'[t] = {} /\ Len(stack'[t]) = 0
      BY <1>4, <3>1, NoneLeft
    <3>3. QED
      BY <3>2
  <2>3. CASE Node!Dead(t)
    <3>1. stack' = stack /\ ~stack[t][1].live
      <4>1. stack' = stack
        BY <1>2, <2>3
      <4>2. ~stack[t][1].live
        BY <2>1, <2>3 DEF Node!Dead, Node!Top
      <4>3. QED
        BY <4>1, <4>2
    <3>2. DOMAIN stack[t] = {1}
      <4>1. DOMAIN stack[t] = 1 .. Len(stack[t])
        BY <1>4
      <4>2. QED
        BY <2>1, <4>1
    <3>3. \A i \in DOMAIN stack[t] : ~stack[t][i].live
      BY <3>1, <3>2, Zenon
    <3>4. Len(stack[t]) <= 1
      BY <2>1
    <3>5. QED
      BY <3>1, <3>3, <3>4, Zenon
  <2>4. QED
    BY <2>2, <2>3
<1>7. StackKnown'
  <2> SUFFICES ASSUME NEW u \in Targets
               PROVE  /\ pod'[u].phase = "published" => stack'[u] # <<>>
                      /\ ~pod'[u].uncertain =>
                           /\ Len(stack'[u]) <= 1
                           /\ pod'[u].phase = "wanted" => stack'[u] = <<>>
                           /\ pod'[u].phase = "gone" => \A i \in DOMAIN stack'[u] : ~stack'[u][i].live
    BY DEF StackKnown
  <2>1. CASE u # t
    <3>1. stack'[u] = stack[u] /\ pod'[u] = pod[u]
      BY <1>2, <1>3, <1>4, <2>1
    <3>2. QED
      BY <3>1 DEF KubeletInv, StackKnown
  <2>2. CASE u = t /\ ~success
    <3>1. stack'[u] = stack[u] /\ pod'[u].phase = pod[u].phase /\ pod'[u].uncertain = pod[u].uncertain
      BY <1>2, <1>3, <2>2 DEF success
    <3>2. QED
      BY <3>1 DEF KubeletInv, StackKnown
  <2>3. CASE u = t /\ success
    BY <1>3, <1>5, <1>6, <2>3
  <2>4. QED
    BY <2>1, <2>2, <2>3
<1>8. QED
  BY <1>3, <1>7 DEF KubeletInv

\* The mount that NodePublishVolume adds leads to the snapshot of its claim.
LEMMA BindMountKeepsMounts ==
    ASSUME SnapshotsTyped, RestoresMatch, NodeInv, MountsMatch, UNCHANGED restore,
           NEW h \in Node!Calls, Node!BindMount(h)
    PROVE  MountsMatch'
<1> DEFINE t == call[h].target
           path == Node!MountPath(t, call[h].context)
           mount == [path |-> path, live |-> TRUE]
           S == [path : Node!Path, live : BOOLEAN]
<1>1. /\ t \in Targets /\ call[h].pc = "bind" /\ call[h].context \in Contexts \cup {NoPart}
      /\ stack \in [Targets -> Seq(S)]
  BY DEF NodeInv, Node!NodeTypeOK, Node!BindMount, Node!CallRecord, Node!At, NoPart, Node!NoPart
<1>2. restore[ClaimOf[t]].phase # "pending"
  BY <1>1 DEF NodeInv, PublishesMatch
<1>3. CASE stack' = stack
  BY <1>3, NoMount
<1>4. CASE Node!Shows(path) /\ stack' = [stack EXCEPT ![t] = Append(@, mount)]
  <2>1. Leads(path, Source(t))
    BY <1>1, <1>2, <1>4, MountPathLeads
  <2>2. mount.path = path
    OBVIOUS
  <2> HIDE DEF path, mount, S
  <2>3. stack'[t] = Append(stack[t], mount) /\ \A u \in Targets \ {t} : stack'[u] = stack[u]
    BY <1>1, <1>4
  <2>4. ASSUME NEW i \in DOMAIN stack'[t]
        PROVE  Leads(stack'[t][i].path, Source(t))
    <3>1. stack[t] \in Seq(S)
      BY <1>1
    <3>2. CASE i = Len(stack[t]) + 1
      <4>1. stack'[t][i] = mount
        BY <2>3, <3>1, <3>2
      <4>2. QED
        BY <2>1, <2>2, <4>1
    <3>3. CASE i # Len(stack[t]) + 1
      <4>1. i \in DOMAIN Append(stack[t], mount)
        BY <2>3
      <4>2. i \in DOMAIN stack[t] /\ Append(stack[t], mount)[i] = stack[t][i]
        BY <3>1, <3>3, <4>1
      <4>3. QED
        BY <1>1, <2>3, <4>2 DEF MountsMatch
    <3>4. QED
      BY <3>2, <3>3
  <2>5. ASSUME NEW u \in Targets
        PROVE  /\ stack'[u] # <<>> => restore'[ClaimOf[u]].phase # "pending"
               /\ \A i \in DOMAIN stack'[u] : Leads(stack'[u][i].path, Source(u))
    BY <1>2, <2>3, <2>4 DEF MountsMatch
  <2>6. QED
    BY <2>5 DEF MountsMatch, Leads, VolumeOf, IdFor, IdOf, Source
<1>5. QED
  BY <1>3, <1>4 DEF Node!BindMount

LEMMA UnmountKeepsMounts ==
    ASSUME NodeInv, MountsMatch, UNCHANGED restore, NEW h \in Node!Calls, Node!Unmount(h)
    PROVE  MountsMatch'
<1> DEFINE t == call[h].target
           S == [path : Node!Path, live : BOOLEAN]
<1>1. t \in Targets /\ stack \in [Targets -> Seq(S)]
  BY DEF NodeInv, Node!NodeTypeOK, Node!CallRecord
<1> HIDE DEF S
<1>2. CASE stack' = stack
  BY <1>2, NoMount
<1>3. CASE stack[t] # <<>> /\ stack' = [stack EXCEPT ![t] = SubSeq(@, 1, Len(@) - 1)]
  <2> HIDE DEF t
  <2>1. stack[t] \in Seq(S) /\ Len(stack[t]) # 0
    BY <1>1, <1>3
  <2>2. \A i \in DOMAIN SubSeq(stack[t], 1, Len(stack[t]) - 1) :
           i \in DOMAIN stack[t] /\ SubSeq(stack[t], 1, Len(stack[t]) - 1)[i] = stack[t][i]
    BY <2>1
  <2>3. QED
    BY <1>1, <1>3, <2>2, NoMount
<1>4. QED
  BY <1>2, <1>3 DEF Node!Unmount, Node!Mounted

\* Kubelet gives up a call: if it was publishing, the target is uncertain from then on.
LEMMA GivingUpKeepsKubelet ==
    ASSUME Node!NodeTypeOK, KubeletInv, NEW h \in Node!Calls, Node!KubeletGivesUp(h)
    PROVE  KubeletInv'
<1> DEFINE t == call[h].target
<1>1. /\ t \in Targets /\ UNCHANGED stack /\ call[h].awaited
      /\ call \in [Node!Calls -> Node!CallRecord] /\ pod \in [Targets -> Node!PodRecord]
  BY DEF Node!NodeTypeOK, Node!KubeletGivesUp, Node!CallRecord
<1>2. /\ \A u \in Targets : /\ pod'[u].phase = pod[u].phase
                            /\ pod[u].uncertain => pod'[u].uncertain
      /\ pod[t].phase = "wanted" => pod'[t].uncertain
  BY <1>1 DEF Node!KubeletGivesUp, Node!GivenUp, Node!PodRecord
<1>3. /\ \A g \in Node!Calls \ {h} : call'[g] = call[g]
      /\ call'[h].pc = call[h].pc /\ call'[h].target = t /\ ~call'[h].awaited
  BY <1>1 DEF Node!KubeletGivesUp, Node!CallRecord
<1>4. KubeletKnows'
  <2>1. \A g \in Node!Calls : call[g].target \in Targets
    BY <1>1 DEF Node!CallRecord
  <2>2. QED
    BY <1>1, <1>2, <1>3, <2>1 DEF KubeletInv, KubeletKnows, Publishing
<1>5. OneNodeCall'
  BY <1>3 DEF KubeletInv, OneNodeCall
<1>6. StackKnown'
  BY <1>1, <1>2 DEF KubeletInv, StackKnown
<1>7. QED
  BY <1>4, <1>5, <1>6 DEF KubeletInv

LEMMA KubeletStepKeepsKubelet ==
    ASSUME Node!NodeTypeOK, KubeletInv, NEW t \in Targets, Node!KubeletStep(t)
    PROVE  KubeletInv'
<1>1. PICK pc \in {"resolve", "unmount"} :
         /\ Node!Call(t, pc)
         /\ pod[t].phase = IF pc = "resolve" THEN "wanted" ELSE "deleting"
  BY DEF Node!KubeletStep, Node!NodePublishVolume, Node!NodeUnpublishVolume
<1> DEFINE new == [pc |-> pc, target |-> t, awaited |-> TRUE, context |-> NoPart]
<1>2. PICK h \in Node!Calls : call' = [call EXCEPT ![h] = new]
  BY <1>1 DEF Node!Call, Node!Calls, NoPart, Node!NoPart
<1>3. new.pc = pc /\ new.target = t /\ new.awaited
  OBVIOUS
<1> HIDE DEF new
<1>4. /\ UNCHANGED <<pod, stack>> /\ call'[h] = new
      /\ \A g \in Node!Calls \ {h} : call'[g] = call[g]
  BY <1>1, <1>2 DEF Node!Call, Node!NodeTypeOK
<1>5. \A g \in Node!Calls : ~(call[g].pc # "idle" /\ call[g].awaited /\ call[g].target = t)
  BY <1>1 DEF Node!Call, Node!InCall
<1>6. KubeletKnows'
  BY <1>1, <1>3, <1>4 DEF KubeletInv, KubeletKnows, Publishing
<1>7. OneNodeCall'
  BY <1>3, <1>4, <1>5 DEF KubeletInv, OneNodeCall
<1>8. StackKnown'
  BY <1>4 DEF KubeletInv, StackKnown
<1>9. QED
  BY <1>6, <1>7, <1>8 DEF KubeletInv

LEMMA DeletePodKeepsKubelet ==
    ASSUME Node!NodeTypeOK, KubeletInv, NEW t \in Targets, Node!DeletePod(t)
    PROVE  KubeletInv'
<1> DEFINE become == IF pod[t].phase = "published" \/ pod[t].uncertain THEN "deleting" ELSE "gone"
<1>1. /\ UNCHANGED <<call, stack>> /\ pod[t].phase \in {"wanted", "published"}
      /\ pod' = [pod EXCEPT ![t].phase = become]
      /\ \A g \in Node!Calls : ~(call[g].pc # "idle" /\ call[g].awaited /\ call[g].target = t)
  BY DEF Node!DeletePod, Node!InCall
<1>2. become \in {"deleting", "gone"}
  OBVIOUS
<1>3. become = "gone" => ~pod[t].uncertain /\ pod[t].phase = "wanted"
  BY <1>1
<1> HIDE DEF become
<1>4. /\ pod'[t].phase = become /\ pod'[t].uncertain = pod[t].uncertain
      /\ \A u \in Targets \ {t} : pod'[u] = pod[u]
  BY <1>1 DEF Node!NodeTypeOK, Node!PodRecord
<1>5. KubeletKnows'
  <2> SUFFICES ASSUME NEW g \in Node!Calls
               PROVE  LET p == pod'[call[g].target]
                      IN  /\ Publishing(g) =>
                               IF call[g].awaited THEN p.phase = "wanted" ELSE p.uncertain
                          /\ call[g].pc = "unmount" => p.phase \in {"deleting", "gone"}
    BY <1>1 DEF KubeletKnows, Publishing
  <2>1. call[g].target \in Targets
    BY DEF Node!NodeTypeOK, Node!CallRecord
  <2>2. CASE call[g].target # t
    BY <1>4, <2>1, <2>2 DEF KubeletInv, KubeletKnows
  <2>3. CASE call[g].target = t
    <3>1. Publishing(g) => ~call[g].awaited /\ pod[t].uncertain
      BY <1>1, <2>3 DEF KubeletInv, KubeletKnows, Publishing
    <3>2. QED
      BY <1>2, <1>4, <2>3, <3>1
  <2>4. QED
    BY <2>2, <2>3
<1>6. OneNodeCall'
  BY <1>1 DEF KubeletInv, OneNodeCall
<1>7. StackKnown'
  <2> SUFFICES ASSUME NEW u \in Targets
               PROVE  /\ pod'[u].phase = "published" => stack[u] # <<>>
                      /\ ~pod'[u].uncertain =>
                           /\ Len(stack[u]) <= 1
                           /\ pod'[u].phase = "wanted" => stack[u] = <<>>
                           /\ pod'[u].phase = "gone" => \A i \in DOMAIN stack[u] : ~stack[u][i].live
    BY <1>1 DEF StackKnown
  <2>1. CASE u # t
    BY <1>4, <2>1 DEF KubeletInv, StackKnown
  <2>2. CASE u = t
    <3>1. ~pod[t].uncertain => Len(stack[t]) <= 1
      BY DEF KubeletInv, StackKnown
    <3>2. become = "gone" => \A i \in DOMAIN stack[t] : ~stack[t][i].live
      <4>1. become = "gone" => stack[t] = <<>>
        BY <1>3 DEF KubeletInv, StackKnown
      <4>2. stack[t] = <<>> => DOMAIN stack[t] = {}
        OBVIOUS
      <4>3. QED
        BY <4>1, <4>2
    <3>3. QED
      BY <1>2, <1>4, <2>2, <3>1, <3>2
  <2>3. QED
    BY <2>1, <2>2
<1>8. QED
  BY <1>5, <1>6, <1>7 DEF KubeletInv

LEMMA CrashKeepsKubelet ==
    ASSUME Node!NodeTypeOK, KubeletInv, Node!NodeCrash
    PROVE  KubeletInv'
<1>1. \A h \in Node!Calls : call'[h].pc = "idle"
  BY FreeType DEF Node!NodeCrash
<1>2. UNCHANGED stack
  BY DEF Node!NodeCrash
<1>3. \A u \in Targets : pod'[u].phase = pod[u].phase /\ (pod[u].uncertain => pod'[u].uncertain)
  <2>1. \A u \in Targets :
           LET p == Node!GivenUp(u)
           IN  p.phase = pod[u].phase /\ (pod[u].uncertain => p.uncertain)
    BY DEF Node!NodeTypeOK, Node!PodRecord, Node!GivenUp
  <2>2. QED
    BY <2>1 DEF Node!NodeCrash
<1>4. QED
  BY <1>1, <1>2, <1>3 DEF KubeletInv, KubeletKnows, OneNodeCall, StackKnown, Publishing

\* The mounts of a client that restarts stay where they are, but dead.
LEMMA ClientRestartKeeps ==
    ASSUME Node!NodeTypeOK, KubeletInv, MountsMatch, UNCHANGED restore, Node!ClientRestart
    PROVE  KubeletInv' /\ MountsMatch'
<1> DEFINE S == [path : Node!Path, live : BOOLEAN]
<1>1. /\ UNCHANGED <<pod, call>> /\ stack \in [Targets -> Seq(S)]
      /\ stack' = [t \in Targets |-> [i \in DOMAIN stack[t] |-> [stack[t][i] EXCEPT !.live = FALSE]]]
  BY DEF Node!NodeTypeOK, Node!ClientRestart
<1>2. ASSUME NEW m \in S
      PROVE  LET dead == [m EXCEPT !.live = FALSE]
             IN  dead \in S /\ dead.path = m.path /\ ~dead.live
  BY <1>2
<1> HIDE DEF S
<1>3. ASSUME NEW t \in Targets
      PROVE  /\ stack[t] \in Seq(S) /\ stack'[t] \in Seq(S)
             /\ Len(stack'[t]) = Len(stack[t]) /\ DOMAIN stack'[t] = DOMAIN stack[t]
             /\ \A i \in DOMAIN stack[t] :
                  stack'[t][i].path = stack[t][i].path /\ ~stack'[t][i].live
  <2>1. stack[t] \in Seq(S) /\ Len(stack[t]) \in Nat /\ DOMAIN stack[t] = 1 .. Len(stack[t])
    BY <1>1
  <2> DEFINE dead(i) == [stack[t][i] EXCEPT !.live = FALSE]
             n == Len(stack[t])
  <2>2. \A i \in 1 .. n : stack[t][i] \in S
    BY <2>1
  <2>3. \A i \in 1 .. n : dead(i) \in S /\ dead(i).path = stack[t][i].path /\ ~dead(i).live
    BY <1>2, <2>2
  <2>4. stack'[t] = [i \in 1 .. n |-> dead(i)]
    BY <1>1, <2>1
  <2> HIDE DEF dead
  <2>5. stack'[t] \in Seq(S) /\ Len(stack'[t]) = n /\ DOMAIN stack'[t] = 1 .. n
    BY <2>1, <2>3, <2>4
  <2>6. \A i \in 1 .. n : stack'[t][i] = dead(i)
    BY <2>4
  <2>7. QED
    BY <2>1, <2>3, <2>5, <2>6
<1>4. ASSUME NEW t \in Targets
      PROVE  stack'[t] = <<>> <=> stack[t] = <<>>
  <2>1. \A q \in Seq(S) : q = <<>> <=> Len(q) = 0
    OBVIOUS
  <2>2. QED
    BY <1>3, <2>1
<1>5. KubeletInv'
  <2>1. StackKnown'
    BY <1>1, <1>3, <1>4 DEF KubeletInv, StackKnown
  <2>2. QED
    BY <1>1, <2>1 DEF KubeletInv, KubeletKnows, OneNodeCall, Publishing
<1>6. MountsMatch'
  BY <1>3, <1>4, NoMount
<1>7. QED
  BY <1>5, <1>6

\* What is known of mounts, on every step of the node.
LEMMA NodeNextKeepsMounts ==
    ASSUME SnapshotsTyped, RestoresMatch, NodeInv, MountsMatch, KubeletInv, UNCHANGED restore,
           Node!NodeNext
    PROVE  MountsMatch' /\ KubeletInv'
<1>1. Node!NodeTypeOK
  BY DEF NodeInv
<1>2. ASSUME UNCHANGED stack
      PROVE  MountsMatch'
  BY <1>2, NoMount
<1>3. ASSUME NEW h \in Node!Calls, Node!CallStep(h)
      PROVE  MountsMatch' /\ KubeletInv'
  <2>1. CASE Node!BindMount(h)
    BY <1>1, <2>1, BindMountKeepsMounts, BindMountKeepsKubelet
  <2>2. CASE Node!Unmount(h)
    BY <1>1, <2>2, UnmountKeepsMounts, UnmountKeepsKubelet
  <2>3. CASE Node!CallFails(h) \/ Node!ResolveVolume(h) \/ Node!SetXAttr(h) \/ Node!UnmountBusy(h)
    BY <1>1, <1>2, <2>3, ResolveKeepsKubelet
  <2>4. QED
    BY <1>3, <2>1, <2>2, <2>3 DEF Node!CallStep
<1>4. ASSUME NEW h \in Node!Calls, Node!KubeletGivesUp(h)
      PROVE  MountsMatch' /\ KubeletInv'
  BY <1>1, <1>2, <1>4, GivingUpKeepsKubelet DEF Node!KubeletGivesUp
<1>5. ASSUME NEW t \in Targets, Node!KubeletStep(t)
      PROVE  MountsMatch' /\ KubeletInv'
  <2>1. UNCHANGED stack
    BY <1>5 DEF Node!KubeletStep, Node!NodePublishVolume, Node!NodeUnpublishVolume, Node!Call
  <2>2. QED
    BY <1>1, <1>2, <1>5, <2>1, KubeletStepKeepsKubelet
<1>6. ASSUME NEW t \in Targets, Node!DeletePod(t)
      PROVE  MountsMatch' /\ KubeletInv'
  BY <1>1, <1>2, <1>6, DeletePodKeepsKubelet DEF Node!DeletePod
<1>7. CASE Node!NodeCrash
  BY <1>1, <1>2, <1>7, CrashKeepsKubelet DEF Node!NodeCrash
<1>8. CASE Node!ClientRestart
  BY <1>1, <1>8, ClientRestartKeeps
<1>9. QED
  BY <1>3, <1>4, <1>5, <1>6, <1>7, <1>8 DEF Node!NodeNext

-----------------------------------------------------------------------------
(* What restored claims show, always.                                      *)

FilesInv == SystemInv /\ SourceKnown /\ FilesOfTime /\ MountsMatch /\ KubeletInv

LEMMA InitFiles == SystemInit => FilesInv
<1> SUFFICES ASSUME SystemInit
             PROVE  FilesInv
  OBVIOUS
<1>1. SystemInv
  BY InitInv
<1>2. SourceKnown /\ FilesOfTime
  BY DEF SystemInit, Init, SourceKnown, FilesOfTime
<1>3. \A t \in Targets : stack[t] = <<>> /\ pod[t].phase = "wanted"
  BY DEF SystemInit, Node!NodeInit
<1>4. \A h \in Node!Calls : call[h].pc = "idle"
  BY FreeType DEF SystemInit, Node!NodeInit
<1>5. DOMAIN <<>> = {} /\ Len(<<>>) = 0
  OBVIOUS
<1>6. MountsMatch
  BY <1>3, <1>5 DEF MountsMatch
<1>7. KubeletInv
  BY <1>3, <1>4, <1>5 DEF KubeletInv, KubeletKnows, OneNodeCall, StackKnown, Publishing
<1>8. QED
  BY <1>1, <1>2, <1>6, <1>7 DEF FilesInv

LEMMA NextKeepsFilesInv == FilesInv /\ [SystemNext]_systemVars => FilesInv'
<1> SUFFICES ASSUME FilesInv, [SystemNext]_systemVars
             PROVE  FilesInv'
  OBVIOUS
<1>1. SystemInv'
  BY NextKeepsInv DEF FilesInv
<1>2. [Next]_controllerVars
  BY ControllerStepIsNext DEF SystemNext, systemVars
<1>3. SourceKnown' /\ FilesOfTime'
  BY <1>2, NextKeepsSource, NextKeepsFiles DEF FilesInv, SystemInv
<1>4. CASE UNCHANGED nodeVars
  <2>1. \A r \in Restores : restore[r].phase # "pending" => restore'[r].phase # "pending"
    BY <1>2, NextKeepsRestores DEF FilesInv, SystemInv
  <2>2. MountsMatch'
    BY <1>4, <2>1, NodeConstants
       DEF FilesInv, MountsMatch, nodeVars, Leads, VolumeOf, IdFor, IdOf, Source
  <2>3. KubeletInv'
    BY <1>4 DEF FilesInv, nodeVars, KubeletInv, KubeletKnows, OneNodeCall, StackKnown, Publishing
  <2>4. QED
    BY <1>1, <1>3, <2>2, <2>3 DEF FilesInv
<1>5. CASE Node!NodeNext /\ UNCHANGED controllerVars
  <2>1. MountsMatch' /\ KubeletInv'
    BY <1>5, NodeNextKeepsMounts
       DEF FilesInv, SystemInv, AnswersInv, CallsInv, controllerVars
  <2>2. QED
    BY <1>1, <1>3, <2>1 DEF FilesInv
<1>6. QED
  BY <1>4, <1>5 DEF SystemNext, systemVars

LEMMA FilesInvAlways == SystemSpec => []FilesInv
BY InitFiles, NextKeepsFilesInv, PTL DEF SystemSpec

\* A target that was unpublished shows no volume any more, unless kubelet did not learn how a
\* publish ended (node.go:98, 177; mounter.go:97-112).
THEOREM UnpublishedIsUnmountedAlways == SystemSpec => []UnpublishedIsUnmounted
<1>1. FilesInv => UnpublishedIsUnmounted
  BY DEF FilesInv, KubeletInv, StackKnown, UnpublishedIsUnmounted, Node!UnpublishedIsUnmounted
<1>2. QED
  BY <1>1, FilesInvAlways, PTL

\* The path of a mount that leads into a snapshot: what is read there, and which subdirectory.
LEMMA WhatMountsShow ==
    ASSUME SnapshotsTyped, NEW s \in Snaps, NEW mount, Leads(mount.path, s)
    PROVE  /\ Reads(mount) = {x.content : x \in Named(IdFor(s))}
           /\ PartOf(IdFor(s)) # NoPart =>
                mount.path.below[Len(mount.path.below)] = PartOf(IdFor(s))
<1> DEFINE below == mount.path.below
           name == IdFor(s)[3]
           part == PartOf(IdFor(s))
<1>1. below = <<snapshotsDir, name>> \o Below(part, <<part>>) /\ mount.path.root = VolumeOf(s)
  BY DEF Leads
<1> HIDE DEF name, part
<1>2. /\ Len(below) >= 2 /\ below[1] = snapshotsDir /\ below[2] = name
      /\ part # NoPart => below[Len(below)] = part
  <2>1. CASE part = NoPart
    <3>1. below = <<snapshotsDir, name>> \o <<>>
      BY <1>1, <2>1 DEF Below
    <3>2. QED
      BY <2>1, <3>1
  <2>2. CASE part # NoPart
    <3>1. below = <<snapshotsDir, name>> \o <<part>>
      BY <1>1, <2>2 DEF Below
    <3>2. QED
      BY <3>1
  <2>3. QED
    BY <2>1, <2>2
<1>3. Named(IdFor(s)) = {x \in shots : x.vol = VolumeOf(s) /\ x.name = name}
  BY NamedByIdFor DEF name
<1>4. Reads(mount) = {x.content : x \in {y \in shots : y.vol = VolumeOf(s) /\ y.name = name}}
  BY <1>1, <1>2 DEF Reads
<1>5. QED
  BY <1>2, <1>3, <1>4 DEF part

\* A pod on a restored claim reads the files as they were when the snapshot became ready, in the
\* subdirectory that an administrator's id names, whatever calls are retried, given up or lost in
\* a restart of either driver or of the client (controller.go:219, 418; node.go:97-148).
THEOREM RestoredShowsSourceAlways == SystemSpec => []RestoredShowsSource
<1>1. FilesInv => RestoredShowsSource
  <2> SUFFICES ASSUME FilesInv, NEW t \in Targets, pod[t].phase = "published"
               PROVE  LET s == snap[Source(t)]
                          sub == SubdirectoryOf(SourceHandle[Source(t)])
                          below == Node!Top(t).path.below
                      IN  /\ Node!Mounted(t)
                          /\ s.phase = "ready" \/ ~s.stale =>
                               \A files \in Reads(Node!Top(t)) : files <= s.upTo
                          /\ sub = NoPart \/ Source(t) \notin Preprovisioned
                             \/ below[Len(below)] = sub
    BY DEF RestoredShowsSource
  <2> DEFINE s == Source(t)
             top == Node!Top(t)
  <2>1. /\ SnapshotsTyped /\ CallsInv /\ AnswersAreTrue /\ MountsMatch
        /\ s \in Snaps /\ ClaimOf[t] \in Restores
    BY NodeConstants, SnapshotsAssumption
       DEF FilesInv, SystemInv, AnswersInv, CallsInv, Source
  <2>2. stack[t] # <<>>
    BY DEF FilesInv, KubeletInv, StackKnown
  <2>3. Leads(top.path, s)
    <3>1. Len(stack[t]) \in DOMAIN stack[t]
      <4>1. stack[t] \in Seq([path : Node!Path, live : BOOLEAN])
        BY DEF FilesInv, SystemInv, NodeInv, Node!NodeTypeOK
      <4>2. QED
        BY <2>2, <4>1
    <3>2. QED
      BY <2>1, <3>1 DEF MountsMatch, Node!Top
  <2>4. /\ Reads(top) = {x.content : x \in Named(IdFor(s))}
        /\ PartOf(IdFor(s)) # NoPart =>
             top.path.below[Len(top.path.below)] = PartOf(IdFor(s))
    BY <2>1, <2>3, WhatMountsShow
  <2>5. snap[s].phase # "wanted"
    BY <2>1, <2>2 DEF FilesInv, SourceKnown, MountsMatch, Source
  <2>6. ASSUME snap[s].phase = "ready" \/ ~snap[s].stale, NEW files \in Reads(top)
        PROVE  files <= snap[s].upTo
    <3>1. PICK x \in Named(IdFor(s)) : files = x.content
      BY <2>4, <2>6
    <3>2. snap[s].phase # "deleted"
      BY <2>1, <2>5, <2>6, <3>1 DEF CallsInv, IdsSettled, AnswersAreTrue
    <3>3. snap[s].phase \in {"ready", "deleting"}
      BY <2>1, <2>5, <3>2 DEF SnapshotsTyped, SnapRecord
    <3>4. QED
      BY <2>1, <2>6, <3>1, <3>3 DEF FilesInv, FilesOfTime
  <2>7. s \in Preprovisioned => PartOf(IdFor(s)) = SubdirectoryOf(SourceHandle[s])
    BY IdsAssumption DEF PartOf, IdFor
  <2>8. QED
    BY <2>2, <2>4, <2>6, <2>7 DEF Node!Mounted
<1>2. QED
  BY <1>1, FilesInvAlways, PTL
=============================================================================
