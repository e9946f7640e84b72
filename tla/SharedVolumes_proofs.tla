------------------------ MODULE SharedVolumes_proofs ------------------------
(***************************************************************************)
(* Proofs about SharedVolumeSystem: the handlers of SharedVolumes and the  *)
(* sweep of DirectoryDeleter over the same shared volumes, for any number  *)
(* of claims, volumes, handlers, workers and faults.                       *)
(*                                                                         *)
(* No handler waits for another one, and a handler may outlive its call by *)
(* any time.  What keeps claims apart from each other's deletion is which  *)
(* handlers can exist for a claim in which phase (CallMatches), with one   *)
(* caller per claim (OneCall).                                             *)
(***************************************************************************)
EXTENDS SharedVolumeSystem, TLAPS

Deleter == INSTANCE DirectoryDeleter_proofs WITH
    Existing <- Volumes, Markers <- Claims, Collectable <- Claims, Processes <- {Controller}

USE SharedVolumesAssumption

\* The claim is being deleted, or was: what it stored is given up.
Given(c) == claim[c].phase \in {"deleting", "deleted"}

OneCall ==
    \A h, i \in Handlers :
        h # i /\ Busy(h) /\ Busy(i) /\ handler[h].awaited /\ handler[i].awaited =>
            Of(h) # Of(i)

\* Which handlers there are for a claim, by its phase and its subdirectory.
CallMatches(h) ==
    /\ handler[h].pc \in {"create", "stat", "mkdir", "chmod", "chown"} =>
         handler[h].op = "create"
    /\ handler[h].pc \in {"rename", "task"} => handler[h].op = "delete"
    /\ handler[h].pc = "task" => UseDeleteFilesTask
    /\ handler[h].pc = "rename" => ~UseDeleteFilesTask
    /\ Busy(h) /\ handler[h].op = "delete" => Given(Of(h))
    /\ Busy(h) /\ handler[h].op = "create" /\ handler[h].awaited =>
         claim[Of(h)].phase = "pending"
    /\ handler[h].op = "create" /\ handler[h].pc \in {"chmod", "chown", "ok"} =>
         Exists(Of(h)) \/ Given(Of(h))

CallsMatch == \A h \in Handlers : CallMatches(h)

\* Tasks and markers are only made of what was given up.
GivenUp ==
    /\ \A c \in tasks : UseDeleteFilesTask /\ Given(c)
    /\ \A v \in Volumes : \A c \in marked[v] : Given(c)

SharedInv == TypeOK /\ OneCall /\ CallsMatch /\ GivenUp /\ BoundHasDirectory

LEMMA IdleType == Idle \in HandlerRecord /\ Idle.pc = "idle" /\ ~Idle.awaited
<1>1. (CHOOSE c \in Claims : TRUE) \in Claims
  BY Zenon
<1>2. QED
  BY <1>1 DEF Idle, HandlerRecord, Pcs

LEMMA FaultType ==
    ASSUME TypeOK, NEW kind, Fault(kind)
    PROVE  faults' \in 0 .. MaxFaults
BY DEF TypeOK, Fault

StorageTypes ==
    /\ volumes \in SUBSET Volumes
    /\ dir \in [Claims -> DirRecord]
    /\ marked \in [Volumes -> SUBSET Claims]
    /\ readable \in SUBSET Volumes
    /\ tasks \in SUBSET Claims

\* A step that takes nothing away but what was given up.
KeepsClaims ==
    /\ UNCHANGED claim
    /\ \A c \in Claims : Exists(c) => Exists(c)' \/ Given(c)
    /\ \A c \in tasks' : c \in tasks \/ (UseDeleteFilesTask /\ Given(c))
    /\ \A v \in Volumes : \A c \in marked'[v] : c \in marked[v] \/ Given(c)

\* A step of the backend, of a pod, of the client mount or of the sweep.
LEMMA StorageMoves ==
    ASSUME SharedInv, UNCHANGED handler, StorageTypes', faults' \in 0 .. MaxFaults, KeepsClaims
    PROVE  SharedInv'
<1>1. TypeOK'
  BY DEF SharedInv, TypeOK, StorageTypes, KeepsClaims
<1>2. OneCall'
  BY DEF SharedInv, OneCall, Busy, Of
<1>3. CallsMatch'
  <2> SUFFICES ASSUME NEW h \in Handlers
               PROVE  CallMatches(h)'
    BY DEF CallsMatch
  <2>1. CallMatches(h) /\ handler[h].claim \in Claims
    BY DEF SharedInv, CallsMatch, TypeOK, HandlerRecord
  <2>2. QED
    BY <2>1 DEF CallMatches, KeepsClaims, Busy, Of, Given
<1>4. GivenUp'
  BY <1>1 DEF SharedInv, GivenUp, KeepsClaims, Given, TypeOK
<1>5. BoundHasDirectory'
  BY DEF SharedInv, BoundHasDirectory, KeepsClaims, Given
<1>6. QED
  BY <1>1, <1>2, <1>3, <1>4, <1>5 DEF SharedInv

\* A handler goes on to its next call, or is about to answer.
LEMMA HandlerMoves ==
    ASSUME SharedInv, NEW h \in Handlers, NEW pc \in Pcs \ {"idle", "create", "rename", "task"},
           Busy(h), Goto(h, pc), StorageTypes', faults' \in 0 .. MaxFaults, KeepsClaims,
           pc \in {"stat", "mkdir", "chmod", "chown"} => handler[h].op = "create",
           handler[h].op = "create" /\ pc \in {"chmod", "chown", "ok"} =>
              Exists(Of(h))' \/ Given(Of(h))
    PROVE  SharedInv'
<1>1. /\ handler \in [Handlers -> HandlerRecord] /\ handler[h] \in HandlerRecord
      /\ handler' = [handler EXCEPT ![h] = [handler[h] EXCEPT !.pc = pc]]
  BY DEF SharedInv, TypeOK, Goto
<1>2. /\ handler'[h].pc = pc /\ handler'[h].op = handler[h].op
      /\ handler'[h].claim = handler[h].claim /\ handler'[h].awaited = handler[h].awaited
      /\ \A i \in Handlers \ {h} : handler'[i] = handler[i]
      /\ handler' \in [Handlers -> HandlerRecord]
  BY <1>1 DEF HandlerRecord
<1>3. TypeOK'
  BY <1>2 DEF SharedInv, TypeOK, StorageTypes, KeepsClaims
<1>4. OneCall'
  <2>1. \A i \in Handlers : Busy(i)' => Busy(i)
    BY <1>2 DEF Busy
  <2>2. \A i \in Handlers : handler'[i].awaited = handler[i].awaited /\ Of(i)' = Of(i)
    BY <1>2 DEF Of
  <2>3. QED
    BY <2>1, <2>2 DEF SharedInv, OneCall
<1>5. CallsMatch'
  <2> SUFFICES ASSUME NEW i \in Handlers
               PROVE  CallMatches(i)'
    BY DEF CallsMatch
  <2>1. CallMatches(i) /\ handler[i].claim \in Claims
    BY DEF SharedInv, CallsMatch, TypeOK, HandlerRecord
  <2>2. CASE i = h
    BY <1>2, <2>1, <2>2 DEF CallMatches, KeepsClaims, Busy, Of, Given
  <2>3. CASE i # h
    BY <1>2, <2>1, <2>3 DEF CallMatches, KeepsClaims, Busy, Of, Given
  <2>4. QED
    BY <2>2, <2>3
<1>6. GivenUp'
  BY <1>3 DEF SharedInv, GivenUp, KeepsClaims, Given, TypeOK
<1>7. BoundHasDirectory'
  BY DEF SharedInv, BoundHasDirectory, KeepsClaims, Given
<1>8. QED
  BY <1>3, <1>4, <1>5, <1>6, <1>7 DEF SharedInv

\* An answer, a timeout, a crash or a user moves claims on, and frees handlers or leaves them
\* to themselves.
LEMMA ClaimsMove ==
    ASSUME SharedInv, UNCHANGED storage, faults' \in 0 .. MaxFaults,
           handler' \in [Handlers -> HandlerRecord], claim' \in [Claims -> ClaimRecord],
           \A h \in Handlers : \/ handler'[h].pc = "idle"
                               \/ /\ handler'[h].pc = handler[h].pc
                                  /\ handler'[h].op = handler[h].op
                                  /\ handler'[h].claim = handler[h].claim
                                  /\ handler'[h].awaited => handler[h].awaited,
           \A c \in Claims : Given(c) => Given(c)',
           \A c \in Claims : claim'[c].phase = "bound" => claim[c].phase = "bound" \/ Exists(c),
           \A h \in Handlers :
              /\ handler'[h].pc # "idle" /\ handler'[h].op = "create" /\ handler'[h].awaited
              /\ claim[Of(h)].phase = "pending"
              => claim'[Of(h)].phase = "pending"
    PROVE  SharedInv'
<1>1. TypeOK'
  BY DEF SharedInv, TypeOK, storage
<1>2. OneCall'
  BY DEF SharedInv, OneCall, Busy, Of
<1>3. CallsMatch'
  <2> SUFFICES ASSUME NEW h \in Handlers
               PROVE  CallMatches(h)'
    BY DEF CallsMatch
  <2>1. CallMatches(h) /\ handler[h].claim \in Claims
    BY DEF SharedInv, CallsMatch, TypeOK, HandlerRecord
  <2>2. CASE handler'[h].pc = "idle"
    BY <2>2 DEF CallMatches, Busy
  <2>3. CASE handler'[h].pc # "idle"
    BY <2>1, <2>3 DEF CallMatches, Busy, Of, Exists, storage
  <2>4. QED
    BY <2>2, <2>3
<1>4. GivenUp'
  BY <1>1 DEF SharedInv, GivenUp, TypeOK, storage
<1>5. BoundHasDirectory'
  BY DEF SharedInv, BoundHasDirectory, Exists, storage
<1>6. QED
  BY <1>1, <1>2, <1>3, <1>4, <1>5 DEF SharedInv

LEMMA InitShared == Init => SharedInv
<1> SUFFICES ASSUME Init
             PROVE  SharedInv
  OBVIOUS
<1>1. TypeOK
  BY IdleType DEF Init, TypeOK, ClaimRecord, Phases, NoDirectory, DirRecord, Stages
<1>2. \A h \in Handlers : handler[h].pc = "idle"
  BY IdleType DEF Init
<1>3. OneCall /\ CallsMatch
  BY <1>2 DEF OneCall, CallsMatch, CallMatches, Busy
<1>4. GivenUp /\ BoundHasDirectory
  BY DEF Init, GivenUp, BoundHasDirectory
<1>5. QED
  BY <1>1, <1>3, <1>4 DEF SharedInv

\* What the invariant says of the handler of a step.
LEMMA HandlerFacts ==
    ASSUME SharedInv, NEW h \in Handlers
    PROVE  /\ CallMatches(h) /\ handler[h] \in HandlerRecord /\ Of(h) \in Claims
           /\ Home[Of(h)] \in Volumes /\ StorageTypes /\ faults \in 0 .. MaxFaults
BY DEF SharedInv, CallsMatch, TypeOK, HandlerRecord, StorageTypes, Of

LEMMA CreateStepShared ==
    ASSUME SharedInv, NEW h \in Handlers,
           \/ CreateSharedVolume(h)
           \/ StatDirectory(h)
           \/ MakeDirectory(h)
           \/ ChangeMode(h)
           \/ ChangeOwner(h)
    PROVE  SharedInv'
<1> USE HandlerFacts DEF At, Pcs
<1>1. handler[h].op = "create" /\ Busy(h)
  BY DEF CallMatches, CreateSharedVolume, StatDirectory, MakeDirectory, ChangeMode, ChangeOwner,
         Busy
\* A look at the client mount.
<1>2. ASSUME NEW pc \in {"mkdir", "ok", "failed"}, Looks(h, pc), pc = "ok" => Exists(Of(h))
      PROVE  SharedInv'
  <2>1. KeepsClaims /\ Goto(h, pc) /\ StorageTypes' /\ faults' \in 0 .. MaxFaults
    BY <1>2 DEF Looks, KeepsClaims, Exists, StorageTypes, storage
  <2>2. Exists(Of(h))' <=> Exists(Of(h))
    BY <1>2 DEF Looks, Exists, storage, Goto, Of, SharedInv, TypeOK
  <2>3. QED
    BY <1>1, <1>2, <2>1, <2>2, HandlerMoves
\* A call that may advance the subdirectory.
<1>3. ASSUME NEW pc \in {"chmod", "chown", "ok"}, NEW stage \in Stages \ {"absent"},
             Goto(h, pc), dir' = [dir EXCEPT ![Of(h)].stage = stage],
             UNCHANGED <<claim, volumes, marked, readable, tasks, faults>>
      PROVE  SharedInv'
  <2>1. /\ StorageTypes' /\ Of(h) \in Claims
        /\ dir'[Of(h)].stage # "absent" /\ \A c \in Claims \ {Of(h)} : dir'[c] = dir[c]
    BY <1>3 DEF StorageTypes, DirRecord
  <2>2. KeepsClaims
    BY <1>3, <2>1 DEF KeepsClaims, Exists
  <2>3. handler'[h].claim = handler[h].claim
    BY <1>3 DEF Goto, SharedInv, TypeOK, HandlerRecord
  <2>4. Exists(Of(h))'
    BY <2>1, <2>3 DEF Exists, Of
  <2>5. QED
    BY <1>1, <1>3, <2>1, <2>2, <2>4, HandlerMoves
<1>4. CASE CreateSharedVolume(h)
  <2>1. StorageTypes' /\ faults' \in 0 .. MaxFaults /\ UNCHANGED dir
    BY <1>4, FaultType DEF CreateSharedVolume, StorageTypes, SharedInv
  <2>2. KeepsClaims
    BY <1>4 DEF CreateSharedVolume, KeepsClaims, Exists
  <2>3. \E pc \in {"stat", "failed"} : Goto(h, pc)
    BY <1>4 DEF CreateSharedVolume
  <2>4. QED
    BY <1>1, <2>1, <2>2, <2>3, HandlerMoves
<1>5. CASE StatDirectory(h)
  BY <1>2, <1>5 DEF StatDirectory, Found
<1>6. CASE MakeDirectory(h)
  <2>1. CASE Shown(h)
    <3> DEFINE stage == IF Exists(Of(h)) THEN dir[Of(h)].stage ELSE "made"
    <3>1. stage \in Stages \ {"absent"}
      BY DEF Exists, Stages, StorageTypes, DirRecord
    <3>2. dir' = [dir EXCEPT ![Of(h)].stage = stage]
      BY <1>6, <2>1 DEF MakeDirectory
    <3> HIDE DEF stage
    <3>3. QED
      BY <1>3, <1>6, <2>1, <3>1, <3>2 DEF MakeDirectory
  <2>2. CASE ~Shown(h)
    BY <1>2, <1>6, <2>2 DEF MakeDirectory, Looks, storage
  <2>3. QED
    BY <2>1, <2>2
\* Chmod and Chown of a subdirectory that is found.
<1>7. ASSUME NEW from, NEW to \in {"moded", "ready"}, NEW pc \in {"chown", "ok"},
             Found(h), Reaches(h, from, to, pc)
      PROVE  SharedInv'
  <2> DEFINE stage == IF dir[Of(h)].stage = from THEN to ELSE dir[Of(h)].stage
  <2>1. stage \in Stages \ {"absent"}
    BY <1>7 DEF Found, Exists, Stages, StorageTypes, DirRecord
  <2>2. dir' = [dir EXCEPT ![Of(h)].stage = stage]
    BY <1>7 DEF Reaches
  <2> HIDE DEF stage
  <2>3. QED
    BY <1>3, <1>7, <2>1, <2>2 DEF Reaches
<1>8. CASE ChangeMode(h)
  BY <1>2, <1>7, <1>8 DEF ChangeMode
<1>9. CASE ChangeOwner(h)
  BY <1>2, <1>7, <1>9 DEF ChangeOwner
<1>10. QED
  BY <1>4, <1>5, <1>6, <1>8, <1>9

\* A subdirectory loses its name, or gets a task, when its claim was given up.
LEMMA DeleteStepShared ==
    ASSUME SharedInv, NEW h \in Handlers,
           CallFails(h) \/ RenameDirectory(h) \/ RenameMissing(h) \/ CreateTask(h)
    PROVE  SharedInv'
<1> USE HandlerFacts DEF At, Pcs
<1>1. /\ Busy(h)
      /\ handler[h].pc \in {"rename", "task"} => handler[h].op = "delete" /\ Given(Of(h))
      /\ handler[h].pc = "task" => UseDeleteFilesTask
  BY DEF CallMatches, CallFails, RenameDirectory, RenameMissing, CreateTask, Busy
<1>2. /\ StorageTypes' /\ faults' \in 0 .. MaxFaults
      /\ KeepsClaims
      /\ \E pc \in {"ok", "failed"} :
           Goto(h, pc) /\ (pc = "ok" => handler[h].op = "delete")
  <2>1. CASE CallFails(h)
    BY <2>1, FaultType
       DEF CallFails, SharedInv, StorageTypes, storage, KeepsClaims, Exists
  <2>2. CASE RenameDirectory(h)
    <3>1. faults' \in 0 .. MaxFaults /\ UNCHANGED <<claim, volumes, readable, tasks>>
      BY <2>2, FaultType DEF RenameDirectory, SharedInv
    <3>2. \/ /\ dir' = [dir EXCEPT ![Of(h)] = NoDirectory]
             /\ marked' = [marked EXCEPT ![Home[Of(h)]] = @ \cup {Of(h)}]
          \/ UNCHANGED <<dir, marked>>
      BY <2>2 DEF RenameDirectory
    <3>3. StorageTypes'
      <4>1. NoDirectory \in DirRecord
        BY DEF NoDirectory, DirRecord, Stages
      <4>2. dir' \in [Claims -> DirRecord]
        BY <3>2, <4>1 DEF StorageTypes
      <4>3. marked' \in [Volumes -> SUBSET Claims]
        BY <3>2 DEF StorageTypes
      <4>4. QED
        BY <3>1, <4>2, <4>3 DEF StorageTypes
    <3>4. /\ \A c \in Claims \ {Of(h)} : dir'[c] = dir[c]
          /\ \A v \in Volumes : marked'[v] \subseteq marked[v] \cup {Of(h)}
      BY <3>2 DEF StorageTypes
    <3>5. KeepsClaims
      BY <1>1, <2>2, <3>1, <3>4 DEF RenameDirectory, KeepsClaims, Exists
    <3>6. QED
      BY <1>1, <2>2, <3>1, <3>3, <3>5 DEF RenameDirectory
  <2>3. CASE RenameMissing(h)
    BY <1>1, <2>3 DEF RenameMissing, Looks, StorageTypes, storage, KeepsClaims, Exists
  <2>4. CASE CreateTask(h)
    <3>1. faults' \in 0 .. MaxFaults /\ StorageTypes'
      BY <2>4, FaultType DEF CreateTask, SharedInv, StorageTypes
    <3>2. KeepsClaims
      BY <1>1, <2>4 DEF CreateTask, KeepsClaims, Exists
    <3>3. QED
      BY <1>1, <2>4, <3>1, <3>2 DEF CreateTask
  <2>5. QED
    BY <2>1, <2>2, <2>3, <2>4
<1>3. PICK pc \in {"ok", "failed"} : Goto(h, pc) /\ (pc = "ok" => handler[h].op = "delete")
  BY <1>2
<1>4. QED
  BY <1>1, <1>2, <1>3, HandlerMoves

-----------------------------------------------------------------------------
(* Answers, callers and users.                                             *)

\* An answer that its caller hears frees the handler and moves its claim on.
LEMMA AnswerShared ==
    ASSUME SharedInv, NEW h \in Handlers, NEW op, NEW pc \in Pcs \ {"idle"},
           NEW settled \in ClaimRecord, Answer(h, op, pc, settled),
           Given(Of(h)) => settled.phase \in {"deleting", "deleted"},
           settled.phase = "bound" => claim[Of(h)].phase = "bound" \/ Exists(Of(h)),
           op = "delete" => settled.phase # "pending"
    PROVE  SharedInv'
<1> USE HandlerFacts
<1>1. /\ handler' = [handler EXCEPT ![h] = Idle] /\ claim' = [claim EXCEPT ![Of(h)] = settled]
      /\ UNCHANGED storage /\ faults' = faults
      /\ Busy(h) /\ handler[h].awaited /\ handler[h].op = op
  BY DEF Answer, Busy
<1>2. /\ handler' \in [Handlers -> HandlerRecord] /\ claim' \in [Claims -> ClaimRecord]
      /\ handler'[h].pc = "idle" /\ \A i \in Handlers \ {h} : handler'[i] = handler[i]
      /\ claim'[Of(h)] = settled /\ \A c \in Claims \ {Of(h)} : claim'[c] = claim[c]
  BY <1>1, IdleType DEF SharedInv, TypeOK
<1>3. ASSUME NEW i \in Handlers, handler'[i].pc # "idle", handler'[i].awaited
      PROVE  Of(i) # Of(h) /\ Of(i) \in Claims
  BY <1>1, <1>2, <1>3 DEF SharedInv, OneCall, Busy, TypeOK, HandlerRecord, Of
<1>4. /\ \A c \in Claims : Given(c) => Given(c)'
      /\ \A c \in Claims : claim'[c].phase = "bound" => claim[c].phase = "bound" \/ Exists(c)
  BY <1>2 DEF Given
<1>5. \A i \in Handlers :
        /\ handler'[i].pc # "idle" /\ handler'[i].op = "create" /\ handler'[i].awaited
        /\ claim[Of(i)].phase = "pending"
        => claim'[Of(i)].phase = "pending"
  BY <1>2, <1>3
<1>6. QED
  BY <1>1, <1>2, <1>4, <1>5, ClaimsMove, Zenon

LEMMA SettlesShared ==
    ASSUME SharedInv, NEW h \in Handlers,
           CreateSucceeded(h) \/ CreateFailed(h) \/ DeleteSucceeded(h) \/ RetryLater(h)
    PROVE  SharedInv'
<1> USE HandlerFacts DEF Pcs
<1> DEFINE c == claim[Of(h)]
<1>1. /\ c \in ClaimRecord /\ handler[h].awaited /\ Busy(h)
      /\ handler[h].op = "create" => c.phase = "pending"
      /\ handler[h].op = "delete" => Given(Of(h))
  BY DEF SharedInv, TypeOK, CallMatches, CreateSucceeded, CreateFailed, DeleteSucceeded,
         RetryLater, Answer, Busy
<1>2. CASE CreateSucceeded(h)
  <2>1. Exists(Of(h)) /\ handler[h].op = "create"
    BY <1>1, <1>2 DEF CreateSucceeded, Answer, CallMatches, Given
  <2> DEFINE settled ==
        [c EXCEPT !.phase = IF c.wanted THEN "bound" ELSE "deleting", !.background = FALSE]
  <2>2. settled \in ClaimRecord
    BY <1>1 DEF ClaimRecord, Phases
  <2>3. Answer(h, "create", "ok", settled)
    BY <1>2 DEF CreateSucceeded
  <2> HIDE DEF settled
  <2>4. QED
    BY <1>1, <2>1, <2>2, <2>3, AnswerShared DEF Given
<1>3. CASE CreateFailed(h)
  <2> DEFINE settled ==
        [c EXCEPT !.phase = IF c.wanted THEN "pending" ELSE "abandoned", !.background = FALSE]
  <2>1. settled \in ClaimRecord /\ settled.phase # "bound"
    BY <1>1 DEF ClaimRecord, Phases
  <2>2. Answer(h, "create", "failed", settled)
    BY <1>3 DEF CreateFailed
  <2> HIDE DEF settled
  <2>3. handler[h].op = "create"
    BY <2>2 DEF Answer
  <2>4. QED
    BY <1>1, <2>1, <2>2, <2>3, AnswerShared DEF Given
<1>4. CASE DeleteSucceeded(h)
  <2> DEFINE settled == [c EXCEPT !.phase = "deleted"]
  <2>1. settled \in ClaimRecord /\ settled.phase = "deleted"
    BY <1>1 DEF ClaimRecord, Phases
  <2>2. Answer(h, "delete", "ok", settled)
    BY <1>4 DEF DeleteSucceeded
  <2> HIDE DEF settled
  <2>3. QED
    BY <2>1, <2>2, AnswerShared
<1>5. CASE RetryLater(h)
  BY <1>1, <1>5, AnswerShared DEF RetryLater, Answer, Given
<1>6. QED
  BY <1>2, <1>3, <1>4, <1>5

\* A handler whose caller is gone is forgotten.
LEMMA UnheardShared ==
    ASSUME SharedInv, NEW h \in Handlers, AnswerUnheard(h)
    PROVE  SharedInv'
<1>1. handler' \in [Handlers -> HandlerRecord] /\ UNCHANGED <<claim, storage, faults>>
      /\ handler'[h].pc = "idle" /\ \A i \in Handlers \ {h} : handler'[i] = handler[i]
  BY IdleType DEF AnswerUnheard, SharedInv, TypeOK
<1>2. QED
  BY <1>1, ClaimsMove DEF SharedInv, TypeOK, Given

LEMMA HandlerStepShared ==
    ASSUME SharedInv, NEW h \in Handlers, HandlerStep(h)
    PROVE  SharedInv'
BY CreateStepShared, DeleteStepShared, SettlesShared, UnheardShared DEF HandlerStep

LEMMA TimeoutShared ==
    ASSUME SharedInv, NEW h \in Handlers, CallTimesOut(h)
    PROVE  SharedInv'
<1>1. /\ handler' = [handler EXCEPT ![h].awaited = FALSE]
      /\ claim' = [claim EXCEPT ![Of(h)].background = @ \/ handler[h].op = "create"]
      /\ UNCHANGED storage /\ faults' \in 0 .. MaxFaults
  BY FaultType DEF CallTimesOut, SharedInv
<1>2. /\ handler' \in [Handlers -> HandlerRecord]
      /\ \A i \in Handlers :
           /\ handler'[i].pc = handler[i].pc /\ handler'[i].op = handler[i].op
           /\ handler'[i].claim = handler[i].claim
           /\ handler'[i].awaited => handler[i].awaited
  BY <1>1 DEF SharedInv, TypeOK, HandlerRecord
<1>3. /\ claim' \in [Claims -> ClaimRecord]
      /\ \A c \in Claims : claim'[c].phase = claim[c].phase
  <2>1. (claim[Of(h)].background \/ handler[h].op = "create") \in BOOLEAN
    OBVIOUS
  <2>2. QED
    BY <1>1, <2>1 DEF SharedInv, TypeOK, ClaimRecord
<1>4. \A i \in Handlers : Of(i) \in Claims
  BY DEF SharedInv, TypeOK, HandlerRecord, Of
<1>5. QED
  BY <1>1, <1>2, <1>3, <1>4, ClaimsMove DEF Given

\* The death of the process frees every handler, and leaves claims in their phases.
LEMMA DeathShared ==
    ASSUME SharedInv, HandlersDie, UNCHANGED storage, faults' \in 0 .. MaxFaults
    PROVE  SharedInv'
<1>1. /\ handler' \in [Handlers -> HandlerRecord]
      /\ \A h \in Handlers : handler'[h].pc = "idle"
  BY IdleType DEF HandlersDie
<1>2. /\ claim' \in [Claims -> ClaimRecord]
      /\ \A c \in Claims : claim'[c].phase = claim[c].phase
  <2>1. \A c \in Claims : (claim[c].background \/ Awaiting(c, {"create"})) \in BOOLEAN
    BY DEF SharedInv, TypeOK, ClaimRecord
  <2>2. QED
    BY <2>1 DEF HandlersDie, SharedInv, TypeOK, ClaimRecord
<1>3. QED
  BY <1>1, <1>2, ClaimsMove DEF Given

\* A caller calls when it has no other call for the claim in flight.
LEMMA CallShared ==
    ASSUME SharedInv, NEW c \in Claims, CallerStep(c)
    PROVE  SharedInv'
<1>1. PICK op \in {"create", "delete"}, pc \in {"create", "task", "rename"} :
        /\ Call(op, pc, c)
        /\ op = "create" => pc = "create" /\ claim[c].phase = "pending"
        /\ op = "delete" =>
             /\ Given(c)
             /\ pc = IF UseDeleteFilesTask THEN "task" ELSE "rename"
  BY DEF CallerStep, CreateVolume, DeleteVolume, Given
<1>2. PICK h \in Handlers :
        /\ ~Busy(h)
        /\ handler' = [handler EXCEPT ![h] =
             [pc |-> pc, op |-> op, claim |-> c, awaited |-> TRUE]]
  BY <1>1 DEF Call
<1>3. /\ handler' \in [Handlers -> HandlerRecord]
      /\ handler'[h] = [pc |-> pc, op |-> op, claim |-> c, awaited |-> TRUE]
      /\ \A i \in Handlers \ {h} : handler'[i] = handler[i]
  BY <1>2 DEF SharedInv, TypeOK, HandlerRecord, Pcs
<1>4. UNCHANGED <<claim, volumes, dir, marked, readable, tasks, faults>>
  BY <1>1 DEF Call, storage
<1>5. TypeOK' /\ GivenUp' /\ BoundHasDirectory'
  BY <1>3, <1>4 DEF SharedInv, TypeOK, GivenUp, BoundHasDirectory, Given, Exists
<1>6. OneCall'
  <2>1. \A i \in Handlers : Busy(i) /\ handler[i].awaited => Of(i) # c
    BY <1>1 DEF Call, Awaiting, SharedInv, TypeOK, HandlerRecord
  <2>2. QED
    BY <1>3, <2>1 DEF SharedInv, OneCall, Busy, Of
<1>7. CallsMatch'
  <2> SUFFICES ASSUME NEW i \in Handlers
               PROVE  CallMatches(i)'
    BY DEF CallsMatch
  <2>1. CASE i = h
    BY <1>1, <1>3, <1>4, <2>1 DEF CallMatches, Busy, Of, Given
  <2>2. CASE i # h
    BY <1>3, <1>4, <2>2 DEF SharedInv, CallsMatch, CallMatches, Busy, Of, Given, Exists
  <2>3. QED
    BY <2>1, <2>2
<1>8. QED
  BY <1>5, <1>6, <1>7 DEF SharedInv

LEMMA UserShared ==
    ASSUME SharedInv, NEW c \in Claims, UserStep(c) \/ RunTask(c)
    PROVE  SharedInv'
<1>1. CASE DeleteClaim(c)
  <2> DEFINE phase == CASE claim[c].phase = "bound" -> "deleting"
                        [] claim[c].phase = "pending" /\ ~claim[c].background
                             /\ ~Awaiting(c, {"create"}) -> "abandoned"
                        [] OTHER -> claim[c].phase
  <2>1. claim' = [claim EXCEPT ![c].wanted = FALSE, ![c].phase = phase]
    BY <1>1 DEF DeleteClaim
  <2>2. phase \in Phases
    BY DEF SharedInv, TypeOK, ClaimRecord, Phases
  <2>3. /\ Given(c) => phase \in {"deleting", "deleted"}
        /\ phase # "bound"
        /\ phase = "abandoned" => claim[c].phase = "abandoned" \/ ~Awaiting(c, {"create"})
        /\ claim[c].phase = "pending" => phase \in {"pending", "abandoned"}
    BY DEF Given
  <2> HIDE DEF phase
  <2>4. /\ claim' \in [Claims -> ClaimRecord] /\ claim'[c].phase = phase
        /\ \A d \in Claims \ {c} : claim'[d] = claim[d]
    BY <2>1, <2>2 DEF SharedInv, TypeOK, ClaimRecord
  <2>5. \A h \in Handlers :
          Busy(h) /\ handler[h].op = "create" /\ handler[h].awaited /\ Of(h) = c =>
             Awaiting(c, {"create"})
    BY DEF Awaiting
  <2>6. UNCHANGED <<handler, storage, faults>> /\ \A h \in Handlers : Of(h) \in Claims
    BY <1>1 DEF DeleteClaim, SharedInv, TypeOK, HandlerRecord, Of
  <2>7. \A h \in Handlers :
          /\ handler'[h].pc # "idle" /\ handler'[h].op = "create" /\ handler'[h].awaited
          /\ claim[Of(h)].phase = "pending"
          => claim'[Of(h)].phase = "pending"
    BY <2>3, <2>4, <2>5, <2>6 DEF Busy
  <2>8. QED
    BY <2>3, <2>4, <2>6, <2>7, ClaimsMove DEF SharedInv, TypeOK, Given
<1>2. CASE PodWrites(c)
  <2>1. StorageTypes'
    BY <1>2 DEF PodWrites, SharedInv, TypeOK, StorageTypes, DirRecord
  <2>2. \A d \in Claims : dir'[d].stage = dir[d].stage
    BY <1>2 DEF PodWrites, SharedInv, TypeOK, DirRecord
  <2>3. KeepsClaims /\ UNCHANGED handler /\ faults' \in 0 .. MaxFaults
    BY <1>2, <2>2 DEF PodWrites, KeepsClaims, Exists, SharedInv, TypeOK
  <2>4. QED
    BY <2>1, <2>3, StorageMoves
<1>3. CASE RunTask(c)
  <2>1. StorageTypes' /\ Given(c) /\ UNCHANGED handler /\ faults' \in 0 .. MaxFaults
    BY <1>3
       DEF RunTask, SharedInv, TypeOK, GivenUp, StorageTypes, DirRecord, NoDirectory, Stages
  <2>2. KeepsClaims
    BY <1>3, <2>1 DEF RunTask, KeepsClaims, Exists, SharedInv, TypeOK
  <2>3. QED
    BY <2>1, <2>2, StorageMoves
<1>4. QED
  BY <1>1, <1>2, <1>3 DEF UserStep

LEMMA MountShared ==
    ASSUME SharedInv, NEW v \in Volumes, Unmount(v) \/ Remount(v)
    PROVE  SharedInv'
<1>1. StorageTypes' /\ faults' \in 0 .. MaxFaults /\ UNCHANGED handler
  BY FaultType DEF Unmount, Remount, SharedInv, TypeOK, StorageTypes
<1>2. KeepsClaims
  BY DEF Unmount, Remount, KeepsClaims, Exists
<1>3. QED
  BY <1>1, <1>2, StorageMoves

-----------------------------------------------------------------------------
(* Handlers and sweep together.                                            *)

LEMMA SweepConstants == Deleter!DirectoryDeleterAssumption
BY SharedVolumeSystemAssumption DEF Deleter!DirectoryDeleterAssumption, Deleter!Blank

USE SweepConstants

SystemInv == SharedInv /\ Deleter!SweepInv

LEMMA InitSystem == SystemInit => SystemInv
<1> SUFFICES ASSUME SystemInit
             PROVE  SystemInv
  OBVIOUS
<1>1. SharedInv
  BY InitShared DEF SystemInit
<1>2. Deleter!SweepInv
  <2>1. /\ walker \in [{Controller} -> Deleter!WalkerRecord]
        /\ worker \in [{Controller} -> [Workers -> Deleter!Own \cup {Deleter!Waiting}]]
        /\ channel = [p \in {Controller} |-> <<>>]
    BY Deleter!AsleepType
       DEF SystemInit, Sweep!Asleep, Deleter!Asleep, Sweep!Waiting, Deleter!Waiting
  <2>2. /\ channel \in [{Controller} -> Seq(Deleter!Directory)]
        /\ \A p \in {Controller} : channel[p] \in Seq(Deleter!Own) /\ Len(channel[p]) <= Capacity
    <3>1. <<>> \in Seq(Deleter!Directory)
      BY Deleter!EmptyOwn, Deleter!OwnSeq
    <3>2. QED
      BY <2>1, <3>1, Deleter!EmptyOwn
  <2>3. worker \in [{Controller} -> [Workers -> Deleter!Directory \cup {Deleter!Waiting}]]
    BY <2>1 DEF Deleter!Own, Deleter!Directory
  <2>4. /\ marked \in [Volumes -> SUBSET Claims] /\ readable \in SUBSET Volumes
        /\ faults \in 0 .. MaxFaults
    BY <1>1 DEF SharedInv, TypeOK
  <2>5. QED
    BY <2>1, <2>2, <2>3, <2>4, Deleter!WalkersTyped
       DEF Deleter!SweepInv, Deleter!TypeOK, Deleter!OwnQueued, Deleter!At
<1>3. QED
  BY <1>1, <1>2 DEF SystemInv

\* A step of a handler, a caller, a user or the client mount leaves the sweep's queues.
LEMMA SweepRests ==
    ASSUME SystemInv, SharedInv', UNCHANGED sweep
    PROVE  SystemInv'
BY DEF SystemInv, sweep, SharedInv, TypeOK, Deleter!SweepInv, Deleter!TypeOK, Deleter!OwnQueued,
       Deleter!At

\* A step of the sweep takes away nothing but markers.
LEMMA SweepMoves ==
    ASSUME SystemInv, UNCHANGED private, Deleter!SweepInv',
           \A v \in Volumes : marked'[v] \subseteq marked[v]
    PROVE  SystemInv'
<1>1. /\ StorageTypes' /\ faults' \in 0 .. MaxFaults
      /\ UNCHANGED <<claim, handler, volumes, dir, tasks>>
  BY DEF SystemInv, SharedInv, TypeOK, StorageTypes, private, Deleter!SweepInv, Deleter!TypeOK
<1>2. KeepsClaims
  BY <1>1 DEF KeepsClaims, Exists
<1>3. QED
  BY <1>1, <1>2, StorageMoves DEF SystemInv

LEMMA WorksSystem ==
    ASSUME SystemInv, NEW w \in Workers, Works(w)
    PROVE  SystemInv'
<1>1. Deleter!WorkerStep(Controller, w) /\ UNCHANGED private
  BY DEF Works, Deleter!WorkerStep, Sweep!WorkerStep, Deleter!Take, Sweep!Take, Deleter!Remove,
         Sweep!Remove, Deleter!Waiting, Sweep!Waiting, Deleter!Fault, Sweep!Fault
<1>2. Deleter!SweepInv'
  BY <1>1, Deleter!WorkerStepSwept DEF SystemInv
<1>3. \A v \in Volumes : marked'[v] \subseteq marked[v]
  <2>1. marked \in [Volumes -> SUBSET Claims]
    BY DEF SystemInv, SharedInv, TypeOK
  <2>2. CASE Sweep!Take(Controller, w)
    BY <2>2 DEF Sweep!Take
  <2>3. CASE Sweep!Remove(Controller, w)
    <3>1. marked' = marked \/ \E u, m : marked' = [marked EXCEPT ![u] = @ \ {m}]
      BY <2>3 DEF Sweep!Remove
    <3>2. QED
      BY <2>1, <3>1
  <2>4. QED
    BY <2>2, <2>3 DEF Works, Sweep!WorkerStep
<1>4. QED
  BY <1>1, <1>2, <1>3, SweepMoves

LEMMA WalksSystem ==
    ASSUME SystemInv, Walks
    PROVE  SystemInv'
<1>1. Deleter!WalkerStep(Controller) /\ UNCHANGED <<private, marked>>
  BY DEF Walks, Deleter!WalkerStep, Sweep!Wake, Deleter!Wake, Sweep!ReadVolume,
         Deleter!ReadVolume, Sweep!Collected, Deleter!Collected, Sweep!At, Deleter!At,
         Sweep!Enqueue, Deleter!Enqueue, Sweep!NextVolume, Deleter!NextVolume, Sweep!Asleep,
         Deleter!Asleep, Sweep!Fault, Deleter!Fault, Sweep!WalkFrom, Deleter!WalkFrom,
         Sweep!NamedFrom, Deleter!NamedFrom, Sweep!Blank, Deleter!Blank
<1>2. Deleter!SweepInv'
  BY <1>1, Deleter!WalkerStepSwept DEF SystemInv
<1>3. QED
  BY <1>1, <1>2, SweepMoves

\* The process starts over: no handlers, an empty queue.
LEMMA RestartSystem ==
    ASSUME SystemInv, Panics \/ Crashes
    PROVE  SystemInv'
<1>1. HandlersDie /\ UNCHANGED storage /\ faults' \in 0 .. MaxFaults
  BY FaultType DEF Panics, Sweep!Panic, Crashes, storage, SystemInv, SharedInv, TypeOK
<1>2. SharedInv'
  BY <1>1, DeathShared DEF SystemInv
<1>3. /\ walker' \in [{Controller} -> Deleter!WalkerRecord]
      /\ worker' \in [{Controller} -> [Workers -> Deleter!Own \cup {Deleter!Waiting}]]
      /\ channel' = [channel EXCEPT ![Controller] = <<>>]
  <2>1. /\ walker' = [walker EXCEPT ![Controller] = Deleter!Asleep]
        /\ worker' = [worker EXCEPT ![Controller] = [w \in Workers |-> Deleter!Waiting]]
        /\ channel' = [channel EXCEPT ![Controller] = <<>>]
    BY DEF Panics, Crashes, Sweep!Panic, Sweep!Restarted, Sweep!Asleep, Deleter!Asleep,
           Sweep!Waiting, Deleter!Waiting
  <2>2. /\ walker \in [{Controller} -> Deleter!WalkerRecord]
        /\ worker \in [{Controller} -> [Workers -> Deleter!Own \cup {Deleter!Waiting}]]
    BY Deleter!Typed DEF SystemInv
  <2>3. Deleter!Asleep \in Deleter!WalkerRecord
    BY Deleter!AsleepType
  <2>4. QED
    BY <2>1, <2>2, <2>3
<1>4. marked' \in [Volumes -> SUBSET Claims] /\ readable' \in SUBSET Volumes
  BY <1>2 DEF SharedInv, TypeOK
<1>5. Controller \in {Controller} /\ Deleter!SweepInv
  BY DEF SystemInv
<1>6. Deleter!SweepInv'
  BY <1>1, <1>3, <1>4, <1>5, Deleter!EmptyOwn, Deleter!QueuesMove, Zenon
<1>7. QED
  BY <1>2, <1>6 DEF SystemInv

LEMMA NextSystem == SystemInv /\ [SystemNext]_allvars => SystemInv'
<1> SUFFICES ASSUME SystemInv, [SystemNext]_allvars
             PROVE  SystemInv'
  OBVIOUS
<1>1. SharedInv
  BY DEF SystemInv
<1>2. CASE \E h \in Handlers : Handles(h)
  BY <1>1, <1>2, HandlerStepShared, TimeoutShared, SweepRests DEF Handles
<1>3. CASE \E c \in Claims : Asks(c)
  BY <1>1, <1>3, CallShared, UserShared, SweepRests DEF Asks
<1>4. CASE \E v \in Volumes : Mounts(v)
  BY <1>1, <1>4, MountShared, SweepRests DEF Mounts
<1>5. CASE UNCHANGED allvars
  <2>1. SharedInv'
    BY <1>1, <1>5
       DEF allvars, vars, SharedInv, TypeOK, OneCall, CallsMatch, CallMatches, GivenUp,
           BoundHasDirectory, Busy, Of, Given, Exists
  <2>2. QED
    BY <1>5, <2>1, SweepRests DEF allvars
<1>6. QED
  BY <1>2, <1>3, <1>4, <1>5, WorksSystem, WalksSystem, RestartSystem DEF SystemNext

\* What holds between any two calls, whatever handlers outlived their callers.
LEMMA InvAlways == System => []SystemInv
BY InitSystem, NextSystem, PTL DEF System

\* Only Remembers changes the history of the attempts.
LEMMA CutOffMoves ==
    ASSUME [SystemNext]_allvars
    PROVE  Remembers \/ cutOff' = cutOff
BY DEF SystemNext, Handles, Asks, Mounts, Walks, Works, private, Panics, Crashes, allvars

CutOffTyped == cutOff \subseteq Claims

LEMMA NextCutOff == SystemInv /\ CutOffTyped /\ [SystemNext]_allvars => CutOffTyped'
<1> SUFFICES ASSUME SystemInv, CutOffTyped, [SystemNext]_allvars
             PROVE  CutOffTyped'
  OBVIOUS
<1>1. \A h \in Handlers : Of(h) \in Claims
  BY DEF SystemInv, SharedInv, TypeOK, HandlerRecord, Of
<1>2. QED
  BY <1>1, CutOffMoves DEF CutOffTyped, Remembers

\* The state of handlers, shared volumes and sweep stays within its types.
THEOREM TypeCorrect == System => []SystemTypeOK
<1>1. SystemInv /\ CutOffTyped => SystemTypeOK
  BY DEF SystemInv, CutOffTyped, SharedInv, SystemTypeOK, Deleter!SweepInv, Deleter!TypeOK,
         Sweep!TypeOK, Deleter!Directory, Sweep!Directory, Deleter!Waiting, Sweep!Waiting,
         Deleter!At, Sweep!At
<1>2. SystemInit => CutOffTyped
  BY DEF SystemInit, CutOffTyped
<1>3. QED
  BY <1>1, <1>2, InitSystem, NextSystem, NextCutOff, PTL DEF System

\* A bound claim has its subdirectory, whatever failed, panicked, restarted or came too late
\* (controller.go:171-184, shared_volume_mapper.go:24-63).
THEOREM BoundHasDirectoryAlways == System => []BoundHasDirectory
<1>1. SystemInv => BoundHasDirectory
  BY DEF SystemInv, SharedInv
<1>2. QED
  BY <1>1, InvAlways, PTL

\* What a worker removes belonged to a deleted claim (controller.go:282-291,
\* shared_volume_directory_deleter.go:57-71).
THEOREM SweptWasDeletedAlways == System => SweptWasDeleted
<1>1. SystemInv =>
        [\A v \in Volumes : \A c \in marked[v] \ marked'[v] :
           claim[c].phase \in {"deleting", "deleted"}]_allvars
  BY DEF SystemInv, SharedInv, GivenUp, Given
<1>2. QED
  BY <1>1, InvAlways, PTL DEF SweptWasDeleted

\* Only RenameDirectory and RunTask take a subdirectory away.
LEMMA StepMarks ==
    ASSUME SystemInv, [SystemNext]_allvars, NEW c \in Claims, Exists(c), ~Exists(c)'
    PROVE  Given(c) /\ (~UseDeleteFilesTask => IsMarked(c)')
<1>1. dir \in [Claims -> DirRecord] /\ marked \in [Volumes -> SUBSET Claims]
  BY DEF SystemInv, SharedInv, TypeOK
<1>2. dir'[c].stage # dir[c].stage
  BY DEF Exists
<1>3. CASE \E h \in Handlers : RenameDirectory(h)
  <2>1. PICK h \in Handlers : RenameDirectory(h)
    BY <1>3
  <2>2. /\ dir' = [dir EXCEPT ![Of(h)] = NoDirectory]
        /\ marked' = [marked EXCEPT ![Home[Of(h)]] = @ \cup {Of(h)}]
    BY <1>2, <2>1 DEF RenameDirectory
  <2>3. c = Of(h)
    BY <1>1, <1>2, <2>2
  <2>4. Given(c)
    BY <2>1, <2>3 DEF RenameDirectory, At, SystemInv, SharedInv, CallsMatch, CallMatches, Busy
  <2>5. QED
    BY <1>1, <2>2, <2>3, <2>4 DEF IsMarked
<1>4. CASE \E d \in Claims : RunTask(d)
  BY <1>1, <1>2, <1>4 DEF RunTask, SystemInv, SharedInv, GivenUp
<1>5. CASE \E h \in Handlers : MakeDirectory(h) \/ ChangeMode(h) \/ ChangeOwner(h)
  <2>1. PICK h \in Handlers : MakeDirectory(h) \/ ChangeMode(h) \/ ChangeOwner(h)
    BY <1>5
  <2>2. CASE UNCHANGED dir
    BY <1>2, <2>2
  <2>3. ASSUME NEW stage \in Stages \ {"absent"},
               dir' = [dir EXCEPT ![Of(h)].stage = stage]
        PROVE  FALSE
    BY <1>1, <1>2, <2>3 DEF DirRecord, Exists
  <2>4. CASE dir' # dir
    <3> DEFINE made == IF Exists(Of(h)) THEN dir[Of(h)].stage ELSE "made"
               reached(from, to) == IF dir[Of(h)].stage = from THEN to ELSE dir[Of(h)].stage
    <3>1. /\ made \in Stages \ {"absent"}
          /\ Found(h) => reached("made", "moded") \in Stages \ {"absent"}
          /\ Found(h) => reached("moded", "ready") \in Stages \ {"absent"}
      <4>1. dir[Of(h)].stage \in Stages
        BY <1>1 DEF DirRecord, SystemInv, SharedInv, TypeOK, HandlerRecord, Of
      <4>2. QED
        BY <4>1 DEF Exists, Found, Stages
    <3>2. \/ dir' = [dir EXCEPT ![Of(h)].stage = made]
          \/ Found(h) /\ dir' = [dir EXCEPT ![Of(h)].stage = reached("made", "moded")]
          \/ Found(h) /\ dir' = [dir EXCEPT ![Of(h)].stage = reached("moded", "ready")]
      BY <2>1, <2>4 DEF MakeDirectory, ChangeMode, ChangeOwner, Reaches, Looks, storage
    <3> HIDE DEF made, reached
    <3>3. QED
      BY <2>3, <3>1, <3>2
  <2>5. QED
    BY <2>2, <2>4
<1>6. CASE \E d \in Claims : PodWrites(d)
  BY <1>1, <1>2, <1>6 DEF PodWrites, DirRecord
<1>7. CASE UNCHANGED dir
  BY <1>2, <1>7
<1>8. QED
  BY <1>3, <1>4, <1>5, <1>6, <1>7
     DEF SystemNext, allvars, vars, Handles, HandlerStep, CallFails, CreateSharedVolume,
         StatDirectory, Looks, storage, RenameMissing, CreateTask, CreateSucceeded, CreateFailed,
         DeleteSucceeded, RetryLater, Answer, AnswerUnheard, CallTimesOut, Asks, CallerStep,
         CreateVolume, DeleteVolume, Call, UserStep, DeleteClaim, Mounts, Unmount, Remount,
         Works, Walks, private, Panics, Crashes

\* A subdirectory goes only while its claim is deleted, and leaves its marker
\* (controller.go:282-303).
THEOREM DeletionMarksAlways == System => DeletionMarks
<1>1. SystemInv /\ [SystemNext]_allvars =>
        [\A c \in Claims :
           Exists(c) /\ ~Exists(c)' =>
              /\ claim[c].phase \in {"deleting", "deleted"}
              /\ ~UseDeleteFilesTask => IsMarked(c)']_vars
  BY StepMarks DEF Given
<1>2. QED
  BY <1>1, InvAlways, PTL DEF System, DeletionMarks

-----------------------------------------------------------------------------
(* Deletion, when no call is given up and the client mount keeps its        *)
(* volumes: with either fault a deleted claim may have a subdirectory.      *)

CallsAreHeard == "timeout" \notin FaultKinds /\ "unmount" \notin FaultKinds

\* Every handler has its caller, and a claim that got a volume finds it in the client mount.
MountInv ==
    /\ \A h \in Handlers : Busy(h) => handler[h].awaited
    /\ readable = volumes
    /\ \A c \in Claims :
         claim[c].phase \in {"bound", "deleting", "deleted"} => Home[c] \in volumes
    /\ \A h \in Handlers :
         handler[h].op = "create" /\ handler[h].pc \in {"stat", "mkdir", "chmod", "chown", "ok"} =>
            Home[Of(h)] \in volumes

GoneInv ==
    ~UseDeleteFilesTask =>
       /\ \A h \in Handlers :
            handler[h].op = "delete" /\ handler[h].pc = "ok" => ~Exists(Of(h))
       /\ \A c \in Claims : claim[c].phase = "deleted" => ~Exists(c)

PromptInv == SharedInv /\ MountInv /\ GoneInv

\* A handler goes on, or the backend works, and nothing given up comes back.
LEMMA StoragePrompt ==
    ASSUME PromptInv, SharedInv', UNCHANGED claim, readable' = volumes', volumes \subseteq volumes',
           \A c \in Claims : Given(c) /\ ~Exists(c) => ~Exists(c)',
           \A h \in Handlers :
              \/ handler'[h] = handler[h]
              \/ /\ handler'[h].claim = handler[h].claim /\ handler'[h].op = handler[h].op
                 /\ handler'[h].awaited
                 /\ handler'[h].op = "create"
                      /\ handler'[h].pc \in {"stat", "mkdir", "chmod", "chown", "ok"}
                      => Home[Of(h)] \in volumes'
                 /\ handler'[h].op = "delete" /\ handler'[h].pc = "ok" /\ ~UseDeleteFilesTask
                      => ~Exists(Of(h))'
    PROVE  PromptInv'
<1>1. MountInv'
  BY DEF PromptInv, MountInv, Busy, Of
<1>2. GoneInv'
  <2> SUFFICES ASSUME ~UseDeleteFilesTask
               PROVE  GoneInv'
    BY DEF GoneInv
  <2>1. ASSUME NEW h \in Handlers, handler'[h].op = "delete", handler'[h].pc = "ok"
        PROVE  ~Exists(Of(h))'
    <3>1. CASE handler'[h] = handler[h]
      <4>1. Given(Of(h)) /\ ~Exists(Of(h)) /\ Of(h) \in Claims
        BY <2>1, <3>1
           DEF PromptInv, GoneInv, SharedInv, CallsMatch, CallMatches, Busy, Of, TypeOK, HandlerRecord
      <4>2. QED
        BY <3>1, <4>1 DEF Of, Exists
    <3>2. CASE handler'[h] # handler[h]
      BY <2>1, <3>2 DEF Of, Exists
    <3>3. QED
      BY <3>1, <3>2
  <2>2. \A c \in Claims : claim'[c].phase = "deleted" => ~Exists(c)'
    BY DEF PromptInv, GoneInv, Given
  <2>3. QED
    BY <2>1, <2>2 DEF GoneInv
<1>3. QED
  BY <1>1, <1>2 DEF PromptInv

\* An answer, a crash or a user moves claims on.
LEMMA ClaimsPrompt ==
    ASSUME PromptInv, SharedInv', UNCHANGED storage,
           \A h \in Handlers : handler'[h].pc = "idle" \/ handler'[h] = handler[h],
           \A c \in Claims :
              claim'[c].phase \in {"bound", "deleting", "deleted"} =>
                 \/ claim[c].phase \in {"bound", "deleting", "deleted"}
                 \/ Home[c] \in volumes,
           \A c \in Claims :
              claim'[c].phase = "deleted" =>
                 claim[c].phase = "deleted" \/ UseDeleteFilesTask \/ ~Exists(c)
    PROVE  PromptInv'
<1>1. MountInv'
  BY DEF PromptInv, MountInv, Busy, Of, storage
<1>2. GoneInv'
  BY DEF PromptInv, GoneInv, Of, Exists, storage
<1>3. QED
  BY <1>1, <1>2 DEF PromptInv

LEMMA InitPrompt == Init => PromptInv
<1> SUFFICES ASSUME Init
             PROVE  PromptInv
  OBVIOUS
<1>1. SharedInv
  BY InitShared
<1>2. \A h \in Handlers : handler[h].pc = "idle"
  BY IdleType DEF Init
<1>3. \A c \in Claims : claim[c].phase = "pending"
  BY DEF Init
<1>4. MountInv /\ GoneInv
  BY <1>2, <1>3 DEF Init, MountInv, GoneInv, Busy
<1>5. QED
  BY <1>1, <1>4 DEF PromptInv

LEMMA PromptFacts ==
    ASSUME PromptInv, NEW h \in Handlers
    PROVE  /\ SharedInv /\ CallMatches(h) /\ handler[h] \in HandlerRecord /\ Of(h) \in Claims
           /\ StorageTypes /\ handler \in [Handlers -> HandlerRecord]
           /\ handler[h].pc # "idle" => handler[h].awaited
           /\ readable = volumes
           /\ handler[h].op = "create"
                /\ handler[h].pc \in {"stat", "mkdir", "chmod", "chown", "ok"}
                => Shown(h) /\ Home[Of(h)] \in volumes
           /\ Given(Of(h)) => Shown(h)
BY HandlerFacts DEF PromptInv, MountInv, Busy, SharedInv, TypeOK, Shown, Given

\* A handler that goes on keeps its call.
LEMMA GotoEffect ==
    ASSUME TypeOK, NEW h \in Handlers, NEW pc, Goto(h, pc)
    PROVE  /\ handler'[h].pc = pc /\ handler'[h].claim = handler[h].claim
           /\ handler'[h].op = handler[h].op /\ handler'[h].awaited = handler[h].awaited
           /\ \A i \in Handlers \ {h} : handler'[i] = handler[i]
BY DEF TypeOK, Goto, HandlerRecord

LEMMA HandlerStepPrompt ==
    ASSUME PromptInv, NEW h \in Handlers, HandlerStep(h)
    PROVE  PromptInv'
<1> USE PromptFacts DEF At
<1>0. SharedInv' /\ TypeOK
  BY HandlerStepShared DEF SharedInv
\* The handler goes on.
<1>1. ASSUME NEW pc, Goto(h, pc), Busy(h), UNCHANGED <<claim, volumes, readable>>,
             \A c \in Claims : Given(c) /\ ~Exists(c) => ~Exists(c)',
             handler[h].op = "create" => Home[Of(h)] \in volumes \/ pc = "failed",
             handler[h].op = "delete" /\ pc = "ok" /\ ~UseDeleteFilesTask => ~Exists(Of(h))'
      PROVE  PromptInv'
  BY <1>0, <1>1, GotoEffect, StoragePrompt DEF Busy
<1>2. CASE CreateSharedVolume(h)
  <2>1. \E pc \in {"stat", "failed"} : Goto(h, pc)
    BY <1>2 DEF CreateSharedVolume
  <2>2. /\ readable' = volumes' /\ volumes \subseteq volumes' /\ Home[Of(h)] \in volumes'
        /\ UNCHANGED <<claim, dir>> /\ handler[h].awaited
    BY <1>2 DEF CreateSharedVolume
  <2>3. QED
    BY <1>0, <2>1, <2>2, GotoEffect, StoragePrompt DEF Exists
<1>3. CASE \/ MakeDirectory(h) \/ ChangeMode(h) \/ ChangeOwner(h) \/ StatDirectory(h)
  <2>1. /\ handler[h].op = "create" /\ Busy(h) /\ Home[Of(h)] \in volumes
        /\ ~Given(Of(h))
    BY <1>3
       DEF MakeDirectory, ChangeMode, ChangeOwner, StatDirectory, CallMatches, Busy, Given
  <2>2. /\ \A c \in Claims \ {Of(h)} : dir'[c] = dir[c]
        /\ \E pc \in Pcs : Goto(h, pc)
        /\ UNCHANGED <<claim, volumes, readable>>
    BY <1>3
       DEF MakeDirectory, ChangeMode, ChangeOwner, StatDirectory, Reaches, Looks, storage, Pcs,
           StorageTypes
  <2>3. QED
    BY <1>1, <2>1, <2>2 DEF Exists
<1>4. CASE RenameDirectory(h) \/ RenameMissing(h) \/ CreateTask(h)
  <2>1. handler[h].op = "delete" /\ Busy(h) /\ Shown(h) /\ (CreateTask(h) => UseDeleteFilesTask)
    BY <1>4 DEF RenameDirectory, RenameMissing, CreateTask, CallMatches, Busy
  <2>2. PICK pc \in {"ok", "failed"} :
          /\ Goto(h, pc) /\ UNCHANGED <<claim, volumes, readable>>
          /\ UNCHANGED dir \/ dir' = [dir EXCEPT ![Of(h)] = NoDirectory]
          /\ pc = "ok" =>
               \/ UseDeleteFilesTask
               \/ ~Exists(Of(h)) /\ UNCHANGED dir
               \/ dir' = [dir EXCEPT ![Of(h)] = NoDirectory]
    BY <1>4, <2>1 DEF RenameDirectory, RenameMissing, CreateTask, Looks, storage, Found
  <2>3. \A c \in Claims : ~Exists(c) => dir'[c].stage = "absent"
    <3>1. CASE UNCHANGED dir
      BY <3>1 DEF Exists
    <3>2. CASE dir' = [dir EXCEPT ![Of(h)] = NoDirectory]
      <4>1. dir \in [Claims -> DirRecord]
        BY DEF StorageTypes
      <4>2. QED
        BY <3>2, <4>1 DEF Exists, NoDirectory
    <3>3. QED
      BY <2>2, <3>1, <3>2
  <2>4. pc = "ok" /\ ~UseDeleteFilesTask => dir'[Of(h)].stage = "absent"
    BY <2>2, <2>3 DEF StorageTypes, NoDirectory
  <2>5. Of(h)' = Of(h)
    BY <1>0, <2>2, GotoEffect DEF Of
  <2>6. QED
    BY <1>1, <2>1, <2>2, <2>3, <2>4, <2>5 DEF Exists
<1>5. CASE CallFails(h)
  BY <1>1, <1>5 DEF CallFails, storage, Exists, Busy
<1>6. CASE CreateSucceeded(h) \/ CreateFailed(h) \/ DeleteSucceeded(h) \/ RetryLater(h)
  <2>1. /\ UNCHANGED storage /\ handler' = [handler EXCEPT ![h] = Idle]
        /\ \A c \in Claims \ {Of(h)} : claim'[c] = claim[c]
    BY <1>0, <1>6
       DEF CreateSucceeded, CreateFailed, DeleteSucceeded, RetryLater, Answer, TypeOK
  <2>2. \A i \in Handlers : handler'[i].pc = "idle" \/ handler'[i] = handler[i]
    BY <2>1, IdleType
  <2>3. CASE CreateSucceeded(h)
    <3>1. Home[Of(h)] \in volumes
      BY <2>3 DEF CreateSucceeded, Answer
    <3>2. claim'[Of(h)].phase # "deleted"
      BY <1>0, <2>3 DEF CreateSucceeded, Answer, TypeOK, ClaimRecord
    <3>3. QED
      BY <1>0, <2>1, <2>2, <3>1, <3>2, ClaimsPrompt
  <2>4. CASE CreateFailed(h)
    <3>1. claim'[Of(h)].phase \in {"pending", "abandoned"}
      BY <1>0, <2>4 DEF CreateFailed, Answer, TypeOK, ClaimRecord
    <3>2. QED
      BY <1>0, <2>1, <2>2, <3>1, ClaimsPrompt
  <2>5. CASE DeleteSucceeded(h)
    <3>1. Given(Of(h)) /\ (UseDeleteFilesTask \/ ~Exists(Of(h)))
      BY <2>5 DEF DeleteSucceeded, Answer, CallMatches, Busy, PromptInv, GoneInv
    <3>2. QED
      BY <1>0, <2>1, <2>2, <3>1, ClaimsPrompt DEF Given
  <2>6. CASE RetryLater(h)
    <3>1. UNCHANGED claim
      BY <1>0, <2>6 DEF RetryLater, Answer, TypeOK
    <3>2. QED
      BY <1>0, <2>1, <2>2, <3>1, ClaimsPrompt
  <2>7. QED
    BY <1>6, <2>3, <2>4, <2>5, <2>6
<1>7. CASE AnswerUnheard(h)
  BY <1>7 DEF AnswerUnheard
<1>8. QED
  BY <1>2, <1>3, <1>4, <1>5, <1>6, <1>7 DEF HandlerStep

LEMMA NextPrompt ==
    ASSUME CallsAreHeard, PromptInv, SystemInv, [SystemNext]_allvars
    PROVE  PromptInv'
<1>0. SharedInv' /\ SharedInv /\ TypeOK
  BY NextSystem DEF SystemInv, SharedInv
<1>1. CASE \E h \in Handlers : HandlerStep(h)
  BY <1>1, HandlerStepPrompt
<1>2. CASE \E h \in Handlers : CallTimesOut(h)
  BY <1>2 DEF CallTimesOut, Fault, CallsAreHeard
<1>3. CASE \E c \in Claims : CallerStep(c)
  <2>1. PICK c \in Claims, op \in {"create", "delete"}, pc \in {"create", "task", "rename"} :
          Call(op, pc, c)
    BY <1>3 DEF CallerStep, CreateVolume, DeleteVolume
  <2>2. PICK h \in Handlers :
          handler' = [handler EXCEPT ![h] =
            [pc |-> pc, op |-> op, claim |-> c, awaited |-> TRUE]]
    BY <2>1 DEF Call
  <2>3. /\ handler'[h] = [pc |-> pc, op |-> op, claim |-> c, awaited |-> TRUE]
        /\ \A i \in Handlers \ {h} : handler'[i] = handler[i]
        /\ UNCHANGED <<claim, volumes, dir, readable>>
    BY <1>0, <2>1, <2>2 DEF TypeOK, Call, storage
  <2>4. MountInv' /\ GoneInv'
    BY <2>3 DEF PromptInv, MountInv, GoneInv, Busy, Of, Exists
  <2>5. QED
    BY <1>0, <2>4 DEF PromptInv
<1>4. CASE \E c \in Claims : UserStep(c) \/ RunTask(c)
  <2>1. PICK c \in Claims : UserStep(c) \/ RunTask(c)
    BY <1>4
  <2>2. CASE DeleteClaim(c)
    <3>1. \A d \in Claims :
            \/ claim'[d].phase = claim[d].phase
            \/ claim'[d].phase = "abandoned"
            \/ claim[d].phase = "bound" /\ claim'[d].phase = "deleting"
      <4> DEFINE phase == CASE claim[c].phase = "bound" -> "deleting"
                            [] claim[c].phase = "pending" /\ ~claim[c].background
                                 /\ ~Awaiting(c, {"create"}) -> "abandoned"
                            [] OTHER -> claim[c].phase
      <4>1. claim' = [claim EXCEPT ![c].wanted = FALSE, ![c].phase = phase]
        BY <2>2 DEF DeleteClaim
      <4>2. \/ phase = claim[c].phase \/ phase = "abandoned"
            \/ claim[c].phase = "bound" /\ phase = "deleting"
        OBVIOUS
      <4> HIDE DEF phase
      <4>3. claim'[c].phase = phase /\ \A d \in Claims \ {c} : claim'[d] = claim[d]
        BY <1>0, <4>1 DEF TypeOK, ClaimRecord
      <4>4. QED
        BY <4>2, <4>3
    <3>2. UNCHANGED <<handler, storage>>
      BY <2>2 DEF DeleteClaim
    <3>3. QED
      BY <1>0, <3>1, <3>2, ClaimsPrompt
  <2>3. CASE PodWrites(c) \/ RunTask(c)
    <3>1. /\ UNCHANGED <<claim, handler, volumes, readable>>
          /\ \A d \in Claims : dir[d].stage = "absent" => dir'[d].stage = "absent"
      <4>1. CASE PodWrites(c)
        BY <1>0, <4>1 DEF PodWrites, TypeOK, DirRecord
      <4>2. CASE RunTask(c)
        BY <1>0, <4>2 DEF RunTask, TypeOK, NoDirectory
      <4>3. QED
        BY <2>3, <4>1, <4>2
    <3>2. QED
      BY <1>0, <3>1, StoragePrompt DEF PromptInv, MountInv, Exists
  <2>4. QED
    BY <2>1, <2>2, <2>3 DEF UserStep
<1>5. CASE \E v \in Volumes : Unmount(v) \/ Remount(v)
  BY <1>5 DEF Unmount, Remount, Fault, CallsAreHeard, PromptInv, MountInv
<1>6. CASE UNCHANGED <<claim, handler, volumes, dir, readable>>
  BY <1>0, <1>6, StoragePrompt DEF PromptInv, MountInv, Exists
<1>7. CASE HandlersDie /\ UNCHANGED storage
  <2>1. /\ \A h \in Handlers : handler'[h].pc = "idle"
        /\ \A c \in Claims : claim'[c].phase = claim[c].phase
    BY <1>0, <1>7, IdleType DEF HandlersDie, TypeOK, ClaimRecord
  <2>2. QED
    BY <1>0, <1>7, <2>1, ClaimsPrompt
<1>8. QED
  <2>1. (\E w \in Workers : Works(w)) \/ Walks => UNCHANGED <<claim, handler, volumes, dir, readable>>
    BY DEF Works, Walks, private, Sweep!WorkerStep, Sweep!Take, Sweep!Remove, Sweep!Wake,
           Sweep!ReadVolume, Sweep!Enqueue, Sweep!NextVolume
  <2>2. Panics \/ Crashes => HandlersDie /\ UNCHANGED storage
    BY DEF Panics, Crashes, Sweep!Panic, storage
  <2>3. QED
    BY <1>1, <1>2, <1>3, <1>4, <1>5, <1>6, <1>7, <2>1, <2>2
       DEF SystemNext, Handles, Asks, Mounts, allvars, vars

\* When callers wait and the client mount keeps its volumes, the subdirectory of a deleted
\* claim is no longer under its own name (controller.go:282-291).
THEOREM DeletedIsGoneAlways ==
    ASSUME CallsAreHeard
    PROVE  System => []DeletedIsGone
<1>1. SystemInit => PromptInv
  BY InitPrompt DEF SystemInit
<1>2. PromptInv /\ SystemInv /\ [SystemNext]_allvars => PromptInv'
  BY NextPrompt
<1>3. PromptInv => DeletedIsGone
  BY DEF PromptInv, GoneInv, DeletedIsGone
<1>4. QED
  BY <1>1, <1>2, <1>3, InvAlways, PTL DEF System

-----------------------------------------------------------------------------
(* Mode and owner: an attempt that was not cut off makes the subdirectory   *)
(* in one go.                                                               *)

\* How far the subdirectory is when an attempt is at a call.  It may be complete already: a
\* volume that the client mount does not show hides what is there.
StageAt(pc, stage) ==
    /\ pc = "mkdir" => stage \in {"absent", "ready"}
    /\ pc = "chmod" => stage \in {"made", "ready"}
    /\ pc = "chown" => stage \in {"moded", "ready"}
    /\ pc = "ok" => stage = "ready"

\* A subdirectory without mode or owner has the handler that is about to set them.
WholeClaim(c) ==
    /\ claim[c].phase = "bound" => dir[c].stage = "ready"
    /\ claim[c].phase = "pending" =>
         /\ \A h \in Handlers :
              handler[h].op = "create" /\ Of(h) = c => StageAt(handler[h].pc, dir[c].stage)
         /\ dir[c].stage \in {"made", "moded"} =>
              \E h \in Handlers : handler[h].pc \in {"chmod", "chown"} /\ Of(h) = c

CreatorsAwaited ==
    \A h \in Handlers :
        handler[h].op = "create" /\ handler[h].pc \in Creating =>
            handler[h].awaited \/ Of(h) \in cutOff

WholeInv == CreatorsAwaited /\ \A c \in Claims \ cutOff : WholeClaim(c)

LEMMA HandlerShape ==
    ASSUME SharedInv, NEW h \in Handlers
    PROVE  /\ handler[h] \in HandlerRecord /\ CallMatches(h) /\ Of(h) \in Claims
           /\ handler \in [Handlers -> HandlerRecord] /\ dir \in [Claims -> DirRecord]
           /\ claim \in [Claims -> ClaimRecord]
BY DEF SharedInv, TypeOK, CallsMatch, HandlerRecord, Of

\* The handler that creates for a claim is the only one that does.
LEMMA OneCreator ==
    ASSUME SharedInv, WholeInv, NEW h \in Handlers, handler[h].op = "create",
           handler[h].pc \in Creating, Of(h) \notin cutOff
    PROVE  /\ handler[h].awaited /\ claim[Of(h)].phase = "pending"
           /\ \A i \in Handlers \ {h} : handler[i].op = "create" /\ Of(i) = Of(h) =>
                handler[i].pc \notin Creating
           /\ handler[h].pc \in {"create", "stat", "mkdir"} =>
                dir[Of(h)].stage \in {"absent", "ready"}
<1> USE HandlerShape
<1>1. handler[h].awaited /\ claim[Of(h)].phase = "pending"
  BY DEF WholeInv, CreatorsAwaited, CallMatches, Busy, Creating
<1>2. ASSUME NEW i \in Handlers \ {h}, handler[i].op = "create", Of(i) = Of(h)
      PROVE  handler[i].pc \notin Creating
  BY <1>1, <1>2 DEF WholeInv, CreatorsAwaited, SharedInv, OneCall, Busy, Creating
<1>3. ASSUME handler[h].pc \in {"create", "stat", "mkdir"}
      PROVE  dir[Of(h)].stage \in {"absent", "ready"}
  <2>1. ASSUME NEW i \in Handlers, handler[i].pc \in {"chmod", "chown"}
        PROVE  Of(i) # Of(h)
    <3>1. i # h /\ handler[i].op = "create" /\ handler[i].pc \in Creating
      BY <1>3, <2>1 DEF CallMatches, Creating
    <3>2. QED
      BY <1>2, <3>1
  <2>2. WholeClaim(Of(h))
    BY DEF WholeInv
  <2>3. dir[Of(h)].stage \notin {"made", "moded"}
    BY <1>1, <2>1, <2>2 DEF WholeClaim
  <2>4. QED
    BY <2>3 DEF DirRecord, Stages
<1>4. QED
  BY <1>1, <1>2, <1>3

\* A step of the handler that creates for a claim, to its next call.
LEMMA CreatorWhole ==
    ASSUME SharedInv, WholeInv, NEW h \in Handlers, handler[h].op = "create",
           handler[h].pc \in Creating, NEW c \in Claims \ cutOff, Of(h) = c,
           NEW pc, Goto(h, pc), UNCHANGED claim,
           dir[c].stage = "ready" => dir'[c].stage = "ready",
           StageAt(pc, dir'[c].stage),
           dir'[c].stage \in {"made", "moded"} => pc \in {"chmod", "chown"}
    PROVE  WholeClaim(c)'
<1> USE HandlerShape
<1>1. /\ handler'[h].pc = pc /\ handler'[h].op = "create" /\ handler'[h].claim = c
      /\ \A i \in Handlers \ {h} : handler'[i] = handler[i]
  BY DEF Goto, HandlerRecord, Of
<1>2. claim'[c].phase = "pending" /\ WholeClaim(c) /\ claim[c].phase = "pending"
  BY OneCreator DEF WholeInv
<1>3. ASSUME NEW i \in Handlers, handler'[i].op = "create", handler'[i].claim = c
      PROVE  StageAt(handler'[i].pc, dir'[c].stage)
  <2>1. CASE i = h
    BY <1>1, <2>1
  <2>2. CASE i # h
    <3>1. handler'[i] = handler[i] /\ Of(i) = c /\ handler[i].pc \notin Creating
      BY <1>1, <1>3, <2>2, OneCreator DEF Of
    <3>2. handler[i].pc = "ok" => dir[c].stage = "ready"
      BY <1>1, <1>2, <1>3, <2>2, <3>1 DEF WholeClaim, StageAt
    <3>3. QED
      BY <3>1, <3>2 DEF StageAt, Creating
  <2>3. QED
    BY <2>1, <2>2
<1>4. dir'[c].stage \in {"made", "moded"} =>
        \E i \in Handlers : handler'[i].pc \in {"chmod", "chown"} /\ handler'[i].claim = c
  BY <1>1
<1>5. QED
  BY <1>2, <1>3, <1>4 DEF WholeClaim, Of

\* The claim moves on, and handlers that are about to answer are freed.
LEMMA ClaimWhole ==
    ASSUME NEW c \in Claims, WholeClaim(c), dir'[c].stage = dir[c].stage,
           \A h \in Handlers : Of(h) = c \/ handler'[h].claim = c =>
              \/ handler'[h] = handler[h]
              \/ handler'[h].pc = "idle" /\ handler[h].pc \notin {"chmod", "chown"},
           claim'[c].phase = "pending" => claim[c].phase = "pending",
           claim'[c].phase = "bound" => claim[c].phase = "bound" \/ dir[c].stage = "ready"
    PROVE  WholeClaim(c)'
<1>1. ASSUME claim'[c].phase = "pending", NEW h \in Handlers,
             handler'[h].op = "create", handler'[h].claim = c
      PROVE  StageAt(handler'[h].pc, dir'[c].stage)
  <2>1. CASE handler'[h] = handler[h]
    BY <1>1, <2>1 DEF WholeClaim, Of
  <2>2. CASE handler'[h].pc = "idle"
    BY <2>2 DEF StageAt
  <2>3. QED
    BY <1>1, <2>1, <2>2
<1>2. ASSUME claim'[c].phase = "pending", dir'[c].stage \in {"made", "moded"}
      PROVE  \E h \in Handlers : handler'[h].pc \in {"chmod", "chown"} /\ handler'[h].claim = c
  <2>1. PICK h \in Handlers : handler[h].pc \in {"chmod", "chown"} /\ Of(h) = c
    BY <1>2 DEF WholeClaim
  <2>2. QED
    BY <2>1 DEF Of
<1>3. QED
  BY <1>1, <1>2 DEF WholeClaim, Of

\* What was given up is neither pending nor bound.
LEMMA GivenWhole ==
    ASSUME NEW c \in Claims, Given(c), UNCHANGED claim
    PROVE  WholeClaim(c)'
BY DEF WholeClaim, Given

\* A handler's step is about its own claim.
LEMMA HandlerStepApart ==
    ASSUME SharedInv, NEW h \in Handlers, HandlerStep(h)
    PROVE  /\ \A i \in Handlers \ {h} : handler'[i] = handler[i]
           /\ \/ handler'[h].pc = "idle" /\ handler[h].pc \in {"ok", "failed"}
              \/ /\ handler'[h].claim = Of(h) /\ handler'[h].op = handler[h].op
                 /\ handler'[h].awaited = handler[h].awaited
                 /\ handler'[h].pc \in Creating => handler[h].pc \in Creating
           /\ \A c \in Claims \ {Of(h)} : dir'[c] = dir[c] /\ claim'[c] = claim[c]
<1> USE HandlerShape, IdleType
<1> USE DEF At, Goto, Looks, Reaches, Answer, storage, Creating, HandlerRecord, Of
<1>1. CASE CallFails(h) \/ CreateSharedVolume(h) \/ StatDirectory(h)
  BY <1>1 DEF CallFails, CreateSharedVolume, StatDirectory
<1>2. CASE MakeDirectory(h) \/ ChangeMode(h) \/ ChangeOwner(h)
  <2>1. PICK pc \in Pcs : Goto(h, pc) /\ UNCHANGED claim
    BY <1>2 DEF MakeDirectory, ChangeMode, ChangeOwner, Reaches, Pcs
  <2>2. \A c \in Claims \ {Of(h)} : dir'[c] = dir[c]
    BY <1>2 DEF MakeDirectory, ChangeMode, ChangeOwner, Reaches
  <2>3. handler[h].pc \in Creating
    BY <1>2 DEF MakeDirectory, ChangeMode, ChangeOwner
  <2>4. QED
    BY <2>1, <2>2, <2>3
<1>3. CASE RenameDirectory(h) \/ RenameMissing(h) \/ CreateTask(h)
  BY <1>3 DEF RenameDirectory, RenameMissing, CreateTask
<1>4. CASE CreateSucceeded(h) \/ CreateFailed(h) \/ DeleteSucceeded(h) \/ RetryLater(h)
  BY <1>4 DEF CreateSucceeded, CreateFailed, DeleteSucceeded, RetryLater
<1>5. CASE AnswerUnheard(h)
  BY <1>5 DEF AnswerUnheard
<1>6. QED
  BY <1>1, <1>2, <1>3, <1>4, <1>5 DEF HandlerStep

\* The steps of an attempt, at its own claim.
LEMMA CreateStepWhole ==
    ASSUME SharedInv, WholeInv, NEW h \in Handlers, NEW c \in Claims \ cutOff, Of(h) = c, ~CutsOff(h),
           \/ CreateSharedVolume(h) \/ StatDirectory(h) \/ MakeDirectory(h)
           \/ ChangeMode(h) \/ ChangeOwner(h) \/ (CallFails(h) /\ handler[h].op = "create")
    PROVE  WholeClaim(c)'
<1> DEFINE stage == dir[c].stage
<1> USE HandlerShape DEF At
<1>0. /\ handler[h].op = "create" /\ handler[h].pc \in Creating
      /\ handler'[h].pc = "failed" => handler[h].pc \notin {"chmod", "chown"}
  BY DEF CallMatches, Creating, CreateSharedVolume, StatDirectory, MakeDirectory, ChangeMode,
         ChangeOwner, CallFails, CutsOff
<1>1. /\ handler[h].pc \in {"create", "stat", "mkdir"} => stage \in {"absent", "ready"}
      /\ StageAt(handler[h].pc, stage)
  BY <1>0, OneCreator DEF WholeInv, WholeClaim
<1>2. ASSUME NEW pc, Goto(h, pc)
      PROVE  handler'[h].pc = pc
  BY <1>2 DEF Goto, HandlerRecord
<1>3. CASE CreateSharedVolume(h) \/ CallFails(h)
  <2>1. PICK pc \in {"stat", "failed"} : Goto(h, pc) /\ UNCHANGED <<claim, dir>>
    BY <1>3 DEF CreateSharedVolume, CallFails, storage
  <2>2. handler[h].pc \in {"create", "stat", "mkdir"}
    BY <1>0, <1>2, <1>3, <2>1 DEF CreateSharedVolume, Creating, CallFails
  <2>3. QED
    BY <1>0, <1>1, <2>1, <2>2, CreatorWhole DEF StageAt
<1>4. CASE StatDirectory(h)
  <2>1. /\ Goto(h, IF Found(h) THEN "ok" ELSE "mkdir") /\ UNCHANGED <<claim, dir>>
        /\ stage \in {"absent", "ready"}
    BY <1>1, <1>4 DEF StatDirectory, Looks, storage
  <2>2. StageAt(IF Found(h) THEN "ok" ELSE "mkdir", stage)
    BY <2>1 DEF StageAt, Found, Exists
  <2>3. QED
    BY <1>0, <2>1, <2>2, CreatorWhole
<1>5. CASE MakeDirectory(h)
  <2>1. UNCHANGED claim /\ stage \in {"absent", "ready"}
    BY <1>1, <1>5 DEF MakeDirectory
  <2>2. CASE Shown(h)
    <3>1. /\ Goto(h, "chmod")
          /\ dir'[c].stage = IF stage = "absent" THEN "made" ELSE stage
      BY <1>5, <2>2 DEF MakeDirectory, Exists, DirRecord
    <3>2. QED
      BY <1>0, <2>1, <3>1, CreatorWhole DEF StageAt
  <2>3. CASE ~Shown(h)
    <3>1. Goto(h, "failed") /\ UNCHANGED dir
      BY <1>5, <2>3 DEF MakeDirectory
    <3>2. QED
      BY <1>0, <2>1, <3>1, CreatorWhole DEF StageAt
  <2>4. QED
    BY <2>2, <2>3
<1>6. CASE ChangeMode(h)
  <2>1. /\ Goto(h, "chown") /\ UNCHANGED claim /\ stage \in {"made", "ready"}
        /\ dir' = [dir EXCEPT ![Of(h)].stage = IF @ = "made" THEN "moded" ELSE @]
    BY <1>0, <1>1, <1>2, <1>6 DEF ChangeMode, Reaches, Looks, StageAt
  <2>2. dir'[c].stage = IF stage = "made" THEN "moded" ELSE stage
    BY <2>1 DEF DirRecord
  <2>3. QED
    BY <1>0, <2>1, <2>2, CreatorWhole DEF StageAt
<1>7. CASE ChangeOwner(h)
  <2>1. /\ Goto(h, "ok") /\ UNCHANGED claim /\ stage \in {"moded", "ready"}
        /\ dir' = [dir EXCEPT ![Of(h)].stage = IF @ = "moded" THEN "ready" ELSE @]
    BY <1>0, <1>1, <1>2, <1>7 DEF ChangeOwner, Reaches, Looks, StageAt
  <2>2. dir'[c].stage = "ready"
    BY <2>1 DEF DirRecord
  <2>3. QED
    BY <1>0, <2>1, <2>2, CreatorWhole DEF StageAt
<1>8. QED
  BY <1>3, <1>4, <1>5, <1>6, <1>7

LEMMA HandlerStepWhole ==
    ASSUME SharedInv, WholeInv, NEW h \in Handlers, HandlerStep(h),
           NEW c \in Claims \ cutOff, ~(c = Of(h) /\ CutsOff(h))
    PROVE  WholeClaim(c)'
<1> USE HandlerShape DEF At
<1>0. WholeClaim(c)
  BY DEF WholeInv
<1>1. CASE c # Of(h)
  <2>1. dir'[c] = dir[c] /\ claim'[c] = claim[c]
    BY <1>1, HandlerStepApart
  <2>2. ASSUME NEW i \in Handlers, Of(i) = c \/ handler'[i].claim = c
        PROVE  \/ handler'[i] = handler[i]
               \/ handler'[i].pc = "idle" /\ handler[i].pc \notin {"chmod", "chown"}
    BY <1>1, <2>2, HandlerStepApart DEF Creating
  <2>3. QED
    BY <1>0, <2>1, <2>2, ClaimWhole
<1>2. ASSUME c = Of(h),
             \/ CreateSharedVolume(h) \/ StatDirectory(h) \/ MakeDirectory(h)
             \/ ChangeMode(h) \/ ChangeOwner(h) \/ (CallFails(h) /\ handler[h].op = "create")
      PROVE  WholeClaim(c)'
  BY <1>2, CreateStepWhole
<1>3. ASSUME c = Of(h),
             \/ RenameDirectory(h) \/ RenameMissing(h) \/ CreateTask(h)
             \/ (CallFails(h) /\ handler[h].op # "create")
      PROVE  WholeClaim(c)'
  <2>1. UNCHANGED claim /\ handler[h].op = "delete" /\ Busy(h)
    BY <1>3
       DEF RenameDirectory, RenameMissing, CreateTask, CallFails, Looks, HandlerRecord, Busy,
           CallMatches
  <2>2. Given(c)
    BY <1>3, <2>1 DEF CallMatches
  <2>3. QED
    BY <2>1, <2>2, GivenWhole
<1>4. ASSUME c = Of(h),
             \/ CreateSucceeded(h) \/ CreateFailed(h) \/ DeleteSucceeded(h) \/ RetryLater(h)
             \/ AnswerUnheard(h)
      PROVE  WholeClaim(c)'
  <2>1. /\ UNCHANGED dir /\ handler' = [handler EXCEPT ![h] = Idle]
        /\ handler[h].pc \in {"ok", "failed"}
    BY <1>4
       DEF CreateSucceeded, CreateFailed, DeleteSucceeded, RetryLater, Answer, AnswerUnheard,
           storage
  <2>2. ASSUME NEW i \in Handlers
        PROVE  \/ handler'[i] = handler[i]
               \/ handler'[i].pc = "idle" /\ handler[i].pc \notin {"chmod", "chown"}
    BY <2>1, IdleType
  <2>3. /\ claim'[c].phase = "pending" => claim[c].phase = "pending"
        /\ claim'[c].phase = "bound" => claim[c].phase = "bound" \/ dir[c].stage = "ready"
    <3>1. CASE CreateSucceeded(h)
      <4>1. claim[c].phase = "pending" /\ claim'[c].phase \in {"bound", "deleting"}
        BY <1>4, <3>1 DEF CreateSucceeded, Answer, ClaimRecord, CallMatches, Busy
      <4>2. dir[c].stage = "ready"
        BY <1>0, <1>4, <3>1, <4>1 DEF CreateSucceeded, Answer, WholeClaim, StageAt
      <4>3. QED
        BY <4>1, <4>2
    <3>2. CASE CreateFailed(h)
      BY <1>4, <3>2 DEF CreateFailed, Answer, ClaimRecord, CallMatches, Busy
    <3>3. CASE DeleteSucceeded(h)
      BY <1>4, <3>3 DEF DeleteSucceeded, Answer, ClaimRecord
    <3>4. CASE RetryLater(h) \/ AnswerUnheard(h)
      BY <1>4, <3>4 DEF RetryLater, Answer, AnswerUnheard
    <3>5. QED
      BY <1>4, <3>1, <3>2, <3>3, <3>4
  <2>4. QED
    BY <1>0, <2>1, <2>2, <2>3, ClaimWhole
<1>5. QED
  BY <1>1, <1>2, <1>3, <1>4 DEF HandlerStep

\* Steps that move no handler.
LEMMA QuietWhole ==
    ASSUME NEW c \in Claims, WholeClaim(c), dir'[c].stage = dir[c].stage,
           claim'[c].phase = claim[c].phase,
           \A h \in Handlers :
              /\ handler'[h].pc = handler[h].pc /\ handler'[h].op = handler[h].op
              /\ handler'[h].claim = handler[h].claim
    PROVE  WholeClaim(c)'
BY DEF WholeClaim, Of

LEMMA CallAwaits ==
    ASSUME SharedInv, NEW d \in Claims, CallerStep(d)
    PROVE  \A h \in Handlers : handler'[h] = handler[h] \/ handler'[h].awaited
BY DEF CallerStep, CreateVolume, DeleteVolume, Call, SharedInv, TypeOK

LEMMA CallWhole ==
    ASSUME SharedInv, WholeInv, NEW d \in Claims, CallerStep(d), NEW c \in Claims \ cutOff
    PROVE  WholeClaim(c)'
<1> USE HandlerShape
<1>1. PICK op \in {"create", "delete"}, pc \in {"create", "task", "rename"} : Call(op, pc, d)
  BY DEF CallerStep, CreateVolume, DeleteVolume
<1>2. PICK h \in Handlers :
        /\ ~Busy(h)
        /\ handler' = [handler EXCEPT ![h] = [pc |-> pc, op |-> op, claim |-> d, awaited |-> TRUE]]
  BY <1>1 DEF Call
<1>3. /\ handler'[h].pc = pc /\ handler'[h].awaited /\ handler[h].pc = "idle"
      /\ \A i \in Handlers \ {h} : handler'[i] = handler[i]
      /\ UNCHANGED <<claim, dir>>
  BY <1>1, <1>2 DEF Call, storage, Busy
<1>4. ASSUME claim'[c].phase = "pending", dir'[c].stage \in {"made", "moded"}
      PROVE  \E i \in Handlers : handler'[i].pc \in {"chmod", "chown"} /\ handler'[i].claim = c
  <2>1. PICK i \in Handlers : handler[i].pc \in {"chmod", "chown"} /\ Of(i) = c
    BY <1>3, <1>4 DEF WholeInv, WholeClaim
  <2>2. QED
    BY <1>3, <2>1 DEF Of
<1>5. ASSUME NEW i \in Handlers, handler'[i].op = "create", handler'[i].claim = c,
             claim'[c].phase = "pending"
      PROVE  StageAt(handler'[i].pc, dir'[c].stage)
  <2>1. CASE i = h
    BY <1>3, <2>1 DEF StageAt
  <2>2. CASE i # h
    BY <1>3, <1>5, <2>2 DEF WholeInv, WholeClaim, Of
  <2>3. QED
    BY <2>1, <2>2
<1>6. WholeClaim(c)'
  BY <1>3, <1>4, <1>5 DEF WholeInv, WholeClaim, Of
<1>7. QED
  BY <1>6

LEMMA UserWhole ==
    ASSUME SharedInv, WholeInv, NEW d \in Claims, UserStep(d) \/ RunTask(d),
           NEW c \in Claims \ cutOff
    PROVE  WholeClaim(c)'
<1>0. /\ WholeClaim(c) /\ claim \in [Claims -> ClaimRecord] /\ dir \in [Claims -> DirRecord]
      /\ handler \in [Handlers -> HandlerRecord]
  BY DEF WholeInv, SharedInv, TypeOK
<1>1. CASE DeleteClaim(d)
  <2> DEFINE phase == CASE claim[d].phase = "bound" -> "deleting"
                        [] claim[d].phase = "pending" /\ ~claim[d].background
                             /\ ~Awaiting(d, {"create"}) -> "abandoned"
                        [] OTHER -> claim[d].phase
  <2>1. claim' = [claim EXCEPT ![d].wanted = FALSE, ![d].phase = phase]
    BY <1>1 DEF DeleteClaim
  <2>2. phase \in {"pending", "bound"} => phase = claim[d].phase
    OBVIOUS
  <2> HIDE DEF phase
  <2>3. claim'[d].phase = phase /\ \A e \in Claims \ {d} : claim'[e] = claim[e]
    BY <1>0, <2>1 DEF ClaimRecord
  <2>4. UNCHANGED <<handler, dir>>
    BY <1>1 DEF DeleteClaim, storage
  <2>5. /\ claim'[c].phase = "pending" => claim[c].phase = "pending"
        /\ claim'[c].phase = "bound" => claim[c].phase = "bound"
    BY <2>2, <2>3
  <2>6. QED
    BY <1>0, <2>4, <2>5, ClaimWhole
<1>2. CASE PodWrites(d)
  <2>1. UNCHANGED <<claim, handler>> /\ dir'[c].stage = dir[c].stage
    BY <1>0, <1>2 DEF PodWrites, DirRecord
  <2>2. QED
    BY <1>0, <2>1, QuietWhole
<1>3. CASE RunTask(d)
  <2>1. UNCHANGED <<claim, handler>> /\ (c = d => Given(c)) /\ (c # d => dir'[c] = dir[c])
    BY <1>0, <1>3 DEF RunTask, SharedInv, GivenUp
  <2>2. CASE c = d
    BY <2>1, <2>2, GivenWhole
  <2>3. CASE c # d
    BY <1>0, <2>1, <2>3, QuietWhole
  <2>4. QED
    BY <2>1, <2>2, <2>3
<1>4. QED
  BY <1>1, <1>2, <1>3 DEF UserStep

\* The death of the process cuts off whoever had made a subdirectory, and no one else's.
LEMMA DeathWhole ==
    ASSUME SharedInv, WholeInv, HandlersDie, UNCHANGED dir, NEW c \in Claims \ cutOff,
           \A h \in Handlers : ~(c = Of(h) /\ CutsOff(h))
    PROVE  WholeClaim(c)'
<1> USE HandlerShape
<1>0. claim \in [Claims -> ClaimRecord] /\ WholeClaim(c)
  BY DEF WholeInv, SharedInv, TypeOK
<1>1. (\A h \in Handlers : handler'[h].pc = "idle") /\ claim'[c].phase = claim[c].phase
  BY <1>0, IdleType DEF HandlersDie, ClaimRecord
<1>2. ASSUME NEW h \in Handlers, handler[h].pc \in {"chmod", "chown"}
      PROVE  Of(h) # c
  BY <1>1, <1>2 DEF CutsOff, CallMatches
<1>3. claim[c].phase = "pending" => dir[c].stage \notin {"made", "moded"}
  BY <1>0, <1>2 DEF WholeClaim
<1>4. QED
  BY <1>0, <1>1, <1>3 DEF WholeClaim, StageAt

LEMMA NextWholeClaim ==
    ASSUME SystemInv, WholeInv, SystemNext, NEW c \in Claims \ cutOff'
    PROVE  WholeClaim(c)'
<1>0. Remembers \/ cutOff' = cutOff
  BY CutOffMoves
<1>1. SharedInv /\ c \in Claims \ cutOff /\ WholeClaim(c)
  BY <1>0 DEF SystemInv, WholeInv, Remembers
<1>r. Remembers => \A h \in Handlers : ~(c = Of(h) /\ CutsOff(h))
  BY DEF Remembers
<1>2. CASE \E h \in Handlers : HandlerStep(h) /\ Remembers
  BY <1>1, <1>r, <1>2, HandlerStepWhole
<1>3. CASE \E h \in Handlers : CallTimesOut(h)
  <2>1. PICK h \in Handlers : CallTimesOut(h)
    BY <1>3
  <2>2. /\ \A i \in Handlers :
             /\ handler'[i].pc = handler[i].pc /\ handler'[i].op = handler[i].op
             /\ handler'[i].claim = handler[i].claim
        /\ UNCHANGED dir /\ claim'[c].phase = claim[c].phase
    BY <1>1, <2>1, HandlerShape DEF CallTimesOut, HandlerRecord, ClaimRecord, storage
  <2>3. QED
    BY <1>1, <2>2, QuietWhole
<1>4. CASE \E d \in Claims : Asks(d)
  BY <1>1, <1>4, CallWhole, UserWhole DEF Asks
<1>5. CASE Panics \/ Crashes
  <2>1. HandlersDie /\ Remembers /\ UNCHANGED dir
    BY <1>5 DEF Panics, Crashes, storage
  <2>2. QED
    BY <1>1, <1>r, <2>1, DeathWhole
<1>6. CASE (\E v \in Volumes : Mounts(v)) \/ (\E w \in Workers : Works(w)) \/ Walks
  <2>1. UNCHANGED <<claim, handler, dir>>
    BY <1>6 DEF Mounts, Unmount, Remount, Works, Walks, private
  <2>2. QED
    BY <1>1, <2>1, QuietWhole
<1>7. QED
  BY <1>1, <1>2, <1>3, <1>4, <1>5, <1>6 DEF SystemNext, Handles

LEMMA NextAwaited ==
    ASSUME SystemInv, WholeInv, SystemNext
    PROVE  CreatorsAwaited'
<1>1. SharedInv /\ CreatorsAwaited /\ cutOff \subseteq cutOff'
  BY CutOffMoves DEF SystemInv, WholeInv, Remembers
<1> SUFFICES ASSUME NEW h \in Handlers, handler'[h].op = "create", handler'[h].pc \in Creating
             PROVE  handler'[h].awaited \/ handler'[h].claim \in cutOff'
  BY DEF CreatorsAwaited, Of
<1>2. CASE handler'[h] = handler[h]
  BY <1>1, <1>2 DEF CreatorsAwaited, Of
<1>3. CASE \E i \in Handlers : HandlerStep(i)
  <2>1. CASE HandlerStep(h)
    <3>1. /\ handler'[h].claim = Of(h) /\ handler'[h].op = handler[h].op
          /\ handler'[h].awaited = handler[h].awaited /\ handler[h].pc \in Creating
      BY <1>1, <2>1, HandlerStepApart DEF Creating
    <3>2. QED
      BY <1>1, <3>1 DEF CreatorsAwaited
  <2>2. CASE ~HandlerStep(h)
    BY <1>1, <1>2, <1>3, <2>2, HandlerStepApart
  <2>3. QED
    BY <2>1, <2>2
<1>4. CASE \E i \in Handlers : CallTimesOut(i) /\ Remembers
  <2>1. PICK i \in Handlers : CallTimesOut(i) /\ Remembers
    BY <1>4
  <2>2. /\ handler'[i].pc = handler[i].pc /\ handler'[i].op = handler[i].op
        /\ handler'[i].claim = handler[i].claim /\ ~handler'[i].awaited /\ handler[i].awaited
        /\ \A j \in Handlers \ {i} : handler'[j] = handler[j]
    BY <1>1, <2>1, HandlerShape DEF CallTimesOut, HandlerRecord
  <2>3. QED
    BY <1>1, <1>2, <2>1, <2>2 DEF Remembers, CutsOff, Of
<1>5. CASE \E d \in Claims : Asks(d)
  <2>1. PICK d \in Claims : CallerStep(d) \/ UserStep(d) \/ RunTask(d)
    BY <1>5 DEF Asks
  <2>2. handler'[h] = handler[h] \/ handler'[h].awaited
    BY <1>1, <2>1, CallAwaits DEF UserStep, DeleteClaim, PodWrites, RunTask
  <2>3. QED
    BY <1>2, <2>2
<1>6. CASE Panics \/ Crashes
  BY <1>6, IdleType DEF Panics, Crashes, HandlersDie, Creating
<1>7. CASE (\E v \in Volumes : Mounts(v)) \/ (\E w \in Workers : Works(w)) \/ Walks
  BY <1>2, <1>7 DEF Mounts, Unmount, Remount, Works, Walks, private
<1>8. QED
  BY <1>1, <1>3, <1>4, <1>5, <1>6, <1>7 DEF SystemNext, Handles

LEMMA NextWhole ==
    ASSUME SystemInv, WholeInv, [SystemNext]_allvars
    PROVE  WholeInv'
<1>1. CASE UNCHANGED allvars
  BY <1>1 DEF allvars, vars, WholeInv, CreatorsAwaited, WholeClaim, Of
<1>2. CASE SystemNext
  BY <1>2, NextWholeClaim, NextAwaited DEF WholeInv
<1>3. QED
  BY <1>1, <1>2

\* A bound claim's subdirectory has the mode and the owner that were asked for, unless an
\* attempt at it was cut off after Mkdir or given up, whatever else fails: lost mounts, panics of
\* the sweep, crashes between other calls (controller.go:175-184, shared_volume_mapper.go:24-63).
THEOREM BoundIsReadyAlways == System => []BoundIsReady
<1>1. SystemInit => WholeInv
  <2> SUFFICES ASSUME SystemInit
               PROVE  WholeInv
    OBVIOUS
  <2>1. /\ \A h \in Handlers : handler[h].pc = "idle"
        /\ \A c \in Claims : claim[c].phase = "pending" /\ dir[c].stage = "absent"
    BY IdleType DEF SystemInit, Init, NoDirectory
  <2>2. QED
    BY <2>1 DEF WholeInv, CreatorsAwaited, WholeClaim, StageAt, Creating
<1>2. SystemInv /\ WholeInv /\ [SystemNext]_allvars => WholeInv'
  BY NextWhole
<1>3. WholeInv => BoundIsReady
  BY DEF WholeInv, WholeClaim, BoundIsReady
<1>4. QED
  BY <1>1, <1>2, <1>3, InitSystem, NextSystem, PTL DEF System

-----------------------------------------------------------------------------
(* The handlers and the sweep implement ClaimStorage.                      *)

TenureIn(phase) ==
    CASE phase = "pending" -> "wanted"
      [] phase = "bound" -> "held"
      [] phase = "abandoned" -> "never"
      [] OTHER -> "givenUp"

Content(d) == IF d.stage = "absent" THEN "nothing" ELSE IF d.data THEN "files" ELSE "empty"

Tenure == [c \in Claims |-> TenureIn(claim[c].phase)]

Own == [c \in Claims |-> Content(dir[c])]

Trash == {c \in Claims : IsMarked(c)}

\* Nothing is left of a subdirectory that is gone.
NothingLeft == \A c \in Claims : ~Exists(c) => ~dir[c].data

\* What the actions of ClaimStorage say, in the terms of this module.
LEMMA PromiseActions ==
    ASSUME NEW c \in Claims
    PROVE  /\ /\ Tenure[c] # "held" /\ Own[c] = "nothing"
              /\ Own' = [Own EXCEPT ![c] = "empty"] /\ Tenure' = Tenure /\ Trash' = Trash
              => Promise!Provide(c)
           /\ /\ Tenure[c] = "wanted" /\ Own[c] # "nothing"
              /\ Tenure' = [Tenure EXCEPT ![c] = "held"] /\ Own' = Own /\ Trash' = Trash
              => Promise!Hold(c)
           /\ /\ Tenure[c] = "held"
              /\ Own' = [Own EXCEPT ![c] = "files"] /\ Tenure' = Tenure /\ Trash' = Trash
              => Promise!Write(c)
           /\ /\ Tenure[c] \in {"wanted", "held"} /\ Own[c] # "nothing"
              /\ Tenure' = [Tenure EXCEPT ![c] = "givenUp"] /\ Own' = Own /\ Trash' = Trash
              => Promise!GiveUp(c)
           /\ /\ Tenure[c] = "wanted"
              /\ Tenure' = [Tenure EXCEPT ![c] = "never"] /\ Own' = Own /\ Trash' = Trash
              => Promise!Abandon(c)
           /\ /\ Tenure[c] = "givenUp" /\ Own[c] # "nothing"
              /\ Own' = [Own EXCEPT ![c] = "nothing"] /\ Tenure' = Tenure
              /\ Trash' = IF UseDeleteFilesTask THEN Trash ELSE Trash \cup {c}
              => Promise!Discard(c)
           /\ /\ Tenure[c] = "givenUp" /\ c \in Trash
              /\ Trash' = Trash \ {c} /\ Tenure' = Tenure /\ Own' = Own
              => Promise!Empty(c)
BY DEF Promise!Provide, Promise!Hold, Promise!Write, Promise!GiveUp, Promise!Abandon,
       Promise!Discard, Promise!Empty, Tenure, Own, Trash, TenureIn, Content, Exists

LEMMA PromiseStep ==
    ASSUME NEW c \in Claims,
           \/ Promise!Provide(c) \/ Promise!Hold(c) \/ Promise!Write(c) \/ Promise!GiveUp(c)
           \/ Promise!Abandon(c) \/ Promise!Discard(c) \/ Promise!Empty(c)
    PROVE  [Promise!StorageNext]_(Promise!claimStorage)
BY DEF Promise!StorageNext

LEMMA PromiseStutter ==
    ASSUME Tenure' = Tenure, Own' = Own, Trash' = Trash
    PROVE  [Promise!StorageNext]_(Promise!claimStorage)
BY DEF Promise!claimStorage, Tenure, Own, Trash, TenureIn, Content, Exists

LEMMA PromiseStarts == Init => Promise!StorageInit
<1> SUFFICES ASSUME Init PROVE Promise!StorageInit
  OBVIOUS
<1>1. \A c \in Claims : claim[c].phase = "pending" /\ dir[c].stage = "absent" /\ ~IsMarked(c)
  BY DEF Init, NoDirectory, IsMarked
<1>2. QED
  BY <1>1 DEF Promise!StorageInit, Exists

\* A subdirectory changes, or a claim.
LEMMA OwnMoves ==
    ASSUME dir \in [Claims -> DirRecord], NEW c \in Claims, NEW d, dir' = [dir EXCEPT ![c] = d]
    PROVE  /\ Own' = [Own EXCEPT ![c] = Content(d)]
           /\ NothingLeft /\ (d.stage # "absent" \/ ~d.data) => NothingLeft'
<1>1. dir'[c] = d /\ \A e \in Claims \ {c} : dir'[e] = dir[e]
  OBVIOUS
<1>2. Own' = [Own EXCEPT ![c] = Content(d)]
  BY <1>1 DEF Own, Content
<1>3. QED
  BY <1>1, <1>2 DEF NothingLeft, Exists

LEMMA GoneOwn ==
    ASSUME dir \in [Claims -> DirRecord], NEW c \in Claims, dir' = [dir EXCEPT ![c] = NoDirectory]
    PROVE  Own' = [Own EXCEPT ![c] = "nothing"] /\ (NothingLeft => NothingLeft')
<1>1. NoDirectory.stage = "absent" /\ ~NoDirectory.data /\ Content(NoDirectory) = "nothing"
  BY DEF NoDirectory, Content
<1>2. QED
  BY <1>1, OwnMoves

LEMMA TenureMoves ==
    ASSUME claim \in [Claims -> ClaimRecord], NEW c \in Claims, NEW r,
           claim' = [claim EXCEPT ![c] = r]
    PROVE  Tenure' = [Tenure EXCEPT ![c] = TenureIn(r.phase)]
BY DEF Tenure, TenureIn

LEMMA SameOwn == UNCHANGED dir => Own' = Own /\ (NothingLeft => NothingLeft')
BY DEF Own, NothingLeft, Content, Exists

LEMMA SameTenure ==
    (\A c \in Claims : claim'[c].phase = claim[c].phase) => Tenure' = Tenure
BY DEF Tenure

LEMMA SameTrash == UNCHANGED marked => Trash' = Trash
BY DEF Trash, IsMarked

StorageInv == SystemInv /\ NothingLeft

\* What the invariant says of one claim.
LEMMA StorageFacts ==
    ASSUME StorageInv
    PROVE  /\ claim \in [Claims -> ClaimRecord] /\ dir \in [Claims -> DirRecord]
           /\ marked \in [Volumes -> SUBSET Claims]
           /\ \A c \in Claims :
                /\ (Own[c] = "nothing") = ~Exists(c)
                /\ (Tenure[c] = "held") = (claim[c].phase = "bound")
                /\ (Tenure[c] = "wanted") = (claim[c].phase = "pending")
                /\ (Tenure[c] = "givenUp") = Given(c)
                /\ claim[c].phase = "bound" => Exists(c)
                /\ dir[c].stage \in Stages /\ dir[c].data \in BOOLEAN
                /\ ~Exists(c) => ~dir[c].data
<1>1. /\ claim \in [Claims -> ClaimRecord] /\ dir \in [Claims -> DirRecord]
      /\ marked \in [Volumes -> SUBSET Claims]
  BY DEF StorageInv, SystemInv, SharedInv, TypeOK
<1>2. ASSUME NEW c \in Claims
      PROVE  /\ (Own[c] = "nothing") = ~Exists(c)
             /\ (Tenure[c] = "held") = (claim[c].phase = "bound")
             /\ (Tenure[c] = "wanted") = (claim[c].phase = "pending")
             /\ (Tenure[c] = "givenUp") = Given(c)
             /\ dir[c].stage \in Stages /\ dir[c].data \in BOOLEAN
  <2>1. claim[c].phase \in Phases /\ dir[c].stage \in Stages /\ dir[c].data \in BOOLEAN
    BY <1>1 DEF ClaimRecord, DirRecord
  <2>2. Own[c] = Content(dir[c]) /\ Tenure[c] = TenureIn(claim[c].phase)
    BY DEF Own, Tenure
  <2>3. (Own[c] = "nothing") = ~Exists(c)
    BY <2>2 DEF Content, Exists
  <2>4. /\ (Tenure[c] = "held") = (claim[c].phase = "bound")
        /\ (Tenure[c] = "wanted") = (claim[c].phase = "pending")
        /\ (Tenure[c] = "givenUp") = Given(c)
    BY <2>1, <2>2 DEF TenureIn, Phases, Given
  <2>5. QED
    BY <2>1, <2>3, <2>4
<1>3. QED
  BY <1>1, <1>2 DEF StorageInv, NothingLeft, SystemInv, SharedInv, BoundHasDirectory

Promised == [Promise!StorageNext]_(Promise!claimStorage) /\ NothingLeft'

\* The calls on a claim's subdirectory.
LEMMA DirectoryPromised ==
    ASSUME StorageInv, NEW h \in Handlers,
           MakeDirectory(h) \/ ChangeMode(h) \/ ChangeOwner(h) \/ RenameDirectory(h)
    PROVE  Promised
<1> SUFFICES ASSUME NEW c \in Claims, c = Of(h)
             PROVE  Promised
  BY DEF StorageInv, SystemInv, SharedInv, TypeOK, HandlerRecord, Of
<1>0. /\ CallMatches(h) /\ Tenure' = Tenure
      /\ dir \in [Claims -> DirRecord] /\ dir[c] \in DirRecord
  <2>1. UNCHANGED claim
    BY DEF MakeDirectory, ChangeMode, ChangeOwner, RenameDirectory, Reaches, Looks
  <2>2. QED
    BY <2>1, SameTenure DEF StorageInv, SystemInv, SharedInv, CallsMatch, TypeOK
<1>1. CASE UNCHANGED <<dir, marked>>
  BY <1>0, <1>1, SameOwn, SameTrash, PromiseStutter DEF Promised, StorageInv
<1>2. ASSUME NEW stage, stage # "absent", Exists(c), UNCHANGED marked,
             dir' = [dir EXCEPT ![c].stage = stage]
      PROVE  Promised
  <2> DEFINE d == [dir[c] EXCEPT !.stage = stage]
  <2>1. dir' = [dir EXCEPT ![c] = d]
    BY <1>0, <1>2
  <2>2. d.stage = stage /\ d.data = dir[c].data
    BY <1>0 DEF DirRecord
  <2>3. Content(d) = Own[c]
    BY <1>2, <2>2 DEF Content, Own, Exists
  <2> HIDE DEF d
  <2>4. Own' = [Own EXCEPT ![c] = Content(d)] /\ NothingLeft'
    BY <1>0, <1>2, <2>1, <2>2, OwnMoves DEF StorageInv
  <2>5. Own' = Own
    BY <2>3, <2>4 DEF Own
  <2>6. QED
    BY <1>0, <1>2, <2>4, <2>5, SameTrash, PromiseStutter DEF Promised
<1>3. CASE MakeDirectory(h) /\ ~UNCHANGED dir
  <2>1. UNCHANGED marked /\ dir' = [dir EXCEPT ![c].stage = IF Exists(c) THEN @ ELSE "made"]
    BY <1>3 DEF MakeDirectory
  <2>2. CASE Exists(c)
    <3>1. dir' = [dir EXCEPT ![c].stage = dir[c].stage] /\ dir[c].stage # "absent"
      BY <2>1, <2>2 DEF Exists
    <3>2. QED
      BY <1>2, <2>1, <2>2, <3>1
  <2>3. CASE ~Exists(c)
    <3> DEFINE d == [dir[c] EXCEPT !.stage = "made"]
    <3>1. dir' = [dir EXCEPT ![c] = d] /\ d.stage = "made" /\ d.data = FALSE
      BY <1>0, <2>1, <2>3, StorageFacts DEF DirRecord
    <3> HIDE DEF d
    <3>2. Own' = [Own EXCEPT ![c] = "empty"] /\ NothingLeft'
      BY <1>0, <3>1, OwnMoves DEF Content, StorageInv
    <3>3. Tenure[c] # "held" /\ Own[c] = "nothing"
      BY <2>3, StorageFacts
    <3>4. Promise!Provide(c)
      BY <1>0, <2>1, <3>2, <3>3, SameTrash, PromiseActions
    <3>5. QED
      BY <3>2, <3>4, PromiseStep DEF Promised
  <2>4. QED
    BY <2>2, <2>3
<1>4. CASE (ChangeMode(h) \/ ChangeOwner(h)) /\ ~UNCHANGED dir
  <2> DEFINE reached(from, to) == IF dir[c].stage = from THEN to ELSE dir[c].stage
  <2>1. Exists(c) /\ UNCHANGED marked
    BY <1>4 DEF ChangeMode, ChangeOwner, Reaches, Found, Looks, storage
  <2>2. \/ dir' = [dir EXCEPT ![c].stage = reached("made", "moded")]
        \/ dir' = [dir EXCEPT ![c].stage = reached("moded", "ready")]
    BY <1>4 DEF ChangeMode, ChangeOwner, Reaches, Looks, storage
  <2>3. reached("made", "moded") # "absent" /\ reached("moded", "ready") # "absent"
    BY <2>1 DEF Exists
  <2> HIDE DEF reached
  <2>4. QED
    BY <1>2, <2>1, <2>2, <2>3
<1>5. CASE RenameDirectory(h) /\ ~UNCHANGED <<dir, marked>>
  <2>1. /\ dir' = [dir EXCEPT ![c] = NoDirectory]
        /\ marked' = [marked EXCEPT ![Home[c]] = @ \cup {c}]
        /\ Exists(c) /\ At(h, "rename")
    BY <1>5 DEF RenameDirectory, Found
  <2>2. Own' = [Own EXCEPT ![c] = "nothing"] /\ NothingLeft'
    BY <1>0, <2>1, GoneOwn DEF StorageInv
  <2>3. Trash' = Trash \cup {c}
    <3>1. \A e \in Claims : e \in marked'[Home[e]] <=> e \in marked[Home[e]] \/ e = c
      BY <2>1, StorageFacts
    <3>2. QED
      BY <3>1 DEF Trash, IsMarked
  <2>4. Tenure[c] = "givenUp" /\ Own[c] # "nothing" /\ ~UseDeleteFilesTask
    BY <1>0, <2>1, StorageFacts DEF CallMatches, Busy, At
  <2>5. Promise!Discard(c)
    BY <1>0, <2>2, <2>3, <2>4, PromiseActions
  <2>6. QED
    BY <2>2, <2>5, PromiseStep DEF Promised
<1>6. QED
  BY <1>1, <1>3, <1>4, <1>5 DEF RenameDirectory, MakeDirectory, ChangeMode, ChangeOwner, Reaches,
     Looks, storage

\* A claim moves on, or not, while its storage stays.
LEMMA ClaimPromised ==
    ASSUME StorageInv, UNCHANGED <<dir, marked>>, NEW c \in Claims, NEW r,
           claim' = [claim EXCEPT ![c] = r],
           \/ r.phase = claim[c].phase
           \/ claim[c].phase = "pending" /\ r.phase = "abandoned"
           \/ claim[c].phase = "pending" /\ Exists(c) /\ r.phase \in {"bound", "deleting"}
           \/ claim[c].phase = "bound" /\ r.phase = "deleting"
           \/ Given(c) /\ r.phase = "deleted"
    PROVE  Promised
<1>1. /\ Tenure' = [Tenure EXCEPT ![c] = TenureIn(r.phase)]
      /\ Own' = Own /\ NothingLeft' /\ Trash' = Trash
  <2>1. claim \in [Claims -> ClaimRecord]
    BY StorageFacts
  <2>2. Tenure' = [Tenure EXCEPT ![c] = TenureIn(r.phase)]
    BY <2>1, TenureMoves
  <2>3. Own' = Own /\ NothingLeft' /\ Trash' = Trash
    BY SameOwn, SameTrash DEF StorageInv
  <2>4. QED
    BY <2>2, <2>3
<1>2. /\ TenureIn(claim[c].phase) = Tenure[c] /\ TenureIn("abandoned") = "never"
      /\ TenureIn("bound") = "held" /\ TenureIn("deleting") = "givenUp"
      /\ TenureIn("deleted") = "givenUp"
  BY DEF TenureIn, Tenure
<1>3. CASE TenureIn(r.phase) = Tenure[c]
  <2>1. Tenure' = Tenure
    BY <1>1, <1>3 DEF Tenure
  <2>2. QED
    BY <1>1, <2>1, PromiseStutter DEF Promised
<1>4. CASE claim[c].phase = "pending" /\ r.phase = "abandoned"
  <2>1. Promise!Abandon(c)
    BY <1>1, <1>2, <1>4, StorageFacts, PromiseActions
  <2>2. QED
    BY <1>1, <2>1, PromiseStep DEF Promised
<1>5. CASE claim[c].phase = "pending" /\ Exists(c) /\ r.phase = "bound"
  <2>1. Promise!Hold(c)
    BY <1>1, <1>2, <1>5, StorageFacts, PromiseActions
  <2>2. QED
    BY <1>1, <2>1, PromiseStep DEF Promised
<1>6. CASE /\ claim[c].phase = "bound" \/ (claim[c].phase = "pending" /\ Exists(c))
           /\ r.phase = "deleting"
  <2>1. Promise!GiveUp(c)
    BY <1>1, <1>2, <1>6, StorageFacts, PromiseActions
  <2>2. QED
    BY <1>1, <2>1, PromiseStep DEF Promised
<1>7. CASE Given(c) /\ r.phase = "deleted"
  BY <1>2, <1>3, <1>7, StorageFacts
<1>8. QED
  BY <1>2, <1>3, <1>4, <1>5, <1>6, <1>7

\* Neither a claim's phase, nor its storage changes.
LEMMA QuietPromised ==
    ASSUME StorageInv, UNCHANGED <<dir, marked>>,
           \A c \in Claims : claim'[c].phase = claim[c].phase
    PROVE  Promised
BY SameTenure, SameOwn, SameTrash, PromiseStutter DEF StorageInv, Promised

LEMMA AnswerPromised ==
    ASSUME StorageInv, NEW h \in Handlers,
           CreateSucceeded(h) \/ CreateFailed(h) \/ DeleteSucceeded(h) \/ RetryLater(h)
    PROVE  Promised
<1> SUFFICES ASSUME NEW c \in Claims, c = Of(h)
             PROVE  Promised
  BY DEF StorageInv, SystemInv, SharedInv, TypeOK, HandlerRecord, Of
<1>0. /\ CallMatches(h) /\ UNCHANGED <<dir, marked>> /\ claim[c] \in ClaimRecord
  BY DEF StorageInv, SystemInv, SharedInv, CallsMatch, TypeOK, CreateSucceeded, CreateFailed,
     DeleteSucceeded, RetryLater, Answer, storage
<1>1. CASE CreateSucceeded(h)
  <2> DEFINE r == [claim[c] EXCEPT !.phase = IF claim[c].wanted THEN "bound" ELSE "deleting",
                                   !.background = FALSE]
  <2>1. claim' = [claim EXCEPT ![c] = r] /\ claim[c].phase = "pending" /\ Exists(c)
    BY <1>0, <1>1 DEF CreateSucceeded, Answer, CallMatches, Busy, Given
  <2>2. r.phase \in {"bound", "deleting"}
    BY <1>0 DEF ClaimRecord
  <2> HIDE DEF r
  <2>3. QED
    BY <1>0, <2>1, <2>2, ClaimPromised
<1>2. CASE CreateFailed(h)
  <2> DEFINE r == [claim[c] EXCEPT !.phase = IF claim[c].wanted THEN "pending" ELSE "abandoned",
                                   !.background = FALSE]
  <2>1. claim' = [claim EXCEPT ![c] = r] /\ claim[c].phase = "pending"
    BY <1>0, <1>2 DEF CreateFailed, Answer, CallMatches, Busy
  <2>2. r.phase \in {"pending", "abandoned"}
    BY <1>0 DEF ClaimRecord
  <2> HIDE DEF r
  <2>3. QED
    BY <1>0, <2>1, <2>2, ClaimPromised
<1>3. CASE DeleteSucceeded(h)
  <2> DEFINE r == [claim[c] EXCEPT !.phase = "deleted"]
  <2>1. claim' = [claim EXCEPT ![c] = r] /\ Given(c)
    BY <1>0, <1>3 DEF DeleteSucceeded, Answer, CallMatches, Busy
  <2>2. r.phase = "deleted"
    BY <1>0 DEF ClaimRecord
  <2> HIDE DEF r
  <2>3. QED
    BY <1>0, <2>1, <2>2, ClaimPromised
<1>4. CASE RetryLater(h)
  <2>1. claim' = [claim EXCEPT ![c] = claim[c]]
    BY <1>4 DEF RetryLater, Answer
  <2>2. QED
    BY <1>0, <2>1, ClaimPromised
<1>5. QED
  BY <1>1, <1>2, <1>3, <1>4

\* Users, pods and tasks of the backend.
LEMMA AskPromised ==
    ASSUME StorageInv, NEW c \in Claims, UserStep(c) \/ RunTask(c)
    PROVE  Promised
<1>0. claim[c] \in ClaimRecord /\ dir[c] \in DirRecord /\ dir \in [Claims -> DirRecord]
  BY StorageFacts
<1>1. CASE DeleteClaim(c)
  <2> DEFINE phase == CASE claim[c].phase = "bound" -> "deleting"
                        [] /\ claim[c].phase = "pending"
                           /\ ~claim[c].background /\ ~Awaiting(c, {"create"}) -> "abandoned"
                        [] OTHER -> claim[c].phase
             r == [claim[c] EXCEPT !.wanted = FALSE, !.phase = phase]
  <2>1. claim' = [claim EXCEPT ![c] = r] /\ UNCHANGED <<dir, marked>>
    BY <1>1, StorageFacts DEF DeleteClaim, storage
  <2>2. r.phase = phase
    BY <1>0 DEF ClaimRecord
  <2>3. \/ r.phase = claim[c].phase
        \/ claim[c].phase = "pending" /\ r.phase = "abandoned"
        \/ claim[c].phase = "bound" /\ r.phase = "deleting"
    BY <2>2
  <2> HIDE DEF r
  <2>4. QED
    BY <2>1, <2>3, ClaimPromised
<1>2. CASE PodWrites(c)
  <2> DEFINE d == [dir[c] EXCEPT !.data = TRUE]
  <2>1. /\ dir' = [dir EXCEPT ![c] = d] /\ UNCHANGED <<claim, marked>>
        /\ claim[c].phase = "bound" /\ Exists(c)
    BY <1>0, <1>2 DEF PodWrites
  <2>2. d.stage # "absent" /\ Content(d) = "files"
    BY <1>0, <2>1 DEF DirRecord, Content, Exists
  <2> HIDE DEF d
  <2>3. Own' = [Own EXCEPT ![c] = "files"] /\ NothingLeft'
    BY <1>0, <2>1, <2>2, OwnMoves DEF StorageInv
  <2>4. Tenure[c] = "held" /\ Tenure' = Tenure /\ Trash' = Trash
    BY <2>1, StorageFacts, SameTenure, SameTrash
  <2>5. Promise!Write(c)
    BY <2>3, <2>4, PromiseActions
  <2>6. QED
    BY <2>3, <2>5, PromiseStep DEF Promised
<1>3. CASE RunTask(c)
  <2>1. /\ dir' = [dir EXCEPT ![c] = NoDirectory] /\ UNCHANGED <<claim, marked>>
        /\ UseDeleteFilesTask /\ Given(c)
    BY <1>3 DEF RunTask, StorageInv, SystemInv, SharedInv, GivenUp
  <2>2. Own' = [Own EXCEPT ![c] = "nothing"] /\ NothingLeft'
    BY <1>0, <2>1, GoneOwn DEF StorageInv
  <2>3. Tenure[c] = "givenUp" /\ Tenure' = Tenure /\ Trash' = Trash
    BY <2>1, StorageFacts, SameTenure, SameTrash
  <2>4. CASE Own[c] = "nothing"
    <3>1. Own' = Own
      BY <2>2, <2>4 DEF Own
    <3>2. QED
      BY <2>2, <2>3, <3>1, PromiseStutter DEF Promised
  <2>5. CASE Own[c] # "nothing"
    <3>1. Promise!Discard(c)
      BY <2>1, <2>2, <2>3, <2>5, PromiseActions
    <3>2. QED
      BY <2>2, <3>1, PromiseStep DEF Promised
  <2>6. QED
    BY <2>4, <2>5
<1>4. QED
  BY <1>1, <1>2, <1>3 DEF UserStep

\* A worker of the sweep.
LEMMA WorkPromised ==
    ASSUME StorageInv, NEW w \in Workers, Works(w)
    PROVE  Promised
<1>1. UNCHANGED <<claim, dir>> /\ marked \in [Volumes -> SUBSET Claims]
  BY StorageFacts DEF Works, private
<1>2. CASE UNCHANGED marked
  BY <1>1, <1>2, QuietPromised
<1>3. CASE ~UNCHANGED marked
  <2>1. PICK v, c : marked' = [marked EXCEPT ![v] = @ \ {c}]
    BY <1>3 DEF Works, Sweep!WorkerStep, Sweep!Take, Sweep!Remove
  <2>2. v \in Volumes /\ c \in marked[v]
    BY <1>1, <1>3, <2>1
  <2>3. c \in Claims /\ Given(c)
    BY <1>1, <2>2 DEF StorageInv, SystemInv, SharedInv, GivenUp
  <2>4. Tenure[c] = "givenUp" /\ Tenure' = Tenure /\ Own' = Own /\ NothingLeft'
    BY <1>1, <2>3, StorageFacts, SameTenure, SameOwn DEF StorageInv
  <2>5. CASE v = Home[c]
    <3>1. Trash' = Trash \ {c} /\ c \in Trash
      <4>1. \A e \in Claims : e \in marked'[Home[e]] <=> e \in marked[Home[e]] /\ e # c
        BY <1>1, <2>1, <2>5
      <4>2. QED
        BY <2>2, <2>3, <2>5, <4>1 DEF Trash, IsMarked
    <3>2. Promise!Empty(c)
      BY <2>3, <2>4, <3>1, PromiseActions
    <3>3. QED
      BY <2>3, <2>4, <3>2, PromiseStep DEF Promised
  <2>6. CASE v # Home[c]
    <3>1. \A e \in Claims : e \in marked'[Home[e]] <=> e \in marked[Home[e]]
      BY <1>1, <2>1, <2>6
    <3>2. Trash' = Trash
      BY <3>1 DEF Trash, IsMarked
    <3>3. QED
      BY <2>4, <3>2, PromiseStutter DEF Promised
  <2>7. QED
    BY <2>5, <2>6
<1>4. QED
  BY <1>2, <1>3

LEMMA NextPromised ==
    ASSUME StorageInv, [SystemNext]_allvars
    PROVE  Promised
<1>0. claim \in [Claims -> ClaimRecord] /\ \A h \in Handlers : Of(h) \in Claims
  BY DEF StorageInv, SystemInv, SharedInv, TypeOK, HandlerRecord, Of
<1>1. ASSUME NEW h \in Handlers, Handles(h) PROVE Promised
  <2>1. CASE MakeDirectory(h) \/ ChangeMode(h) \/ ChangeOwner(h) \/ RenameDirectory(h)
    BY <2>1, DirectoryPromised
  <2>2. CASE CreateSucceeded(h) \/ CreateFailed(h) \/ DeleteSucceeded(h) \/ RetryLater(h)
    BY <2>2, AnswerPromised
  <2>3. CASE \/ CallFails(h) \/ CreateSharedVolume(h) \/ StatDirectory(h) \/ RenameMissing(h)
             \/ CreateTask(h) \/ AnswerUnheard(h)
    <3>1. UNCHANGED <<claim, dir, marked>>
      BY <2>3 DEF CallFails, CreateSharedVolume, StatDirectory, RenameMissing, CreateTask,
         AnswerUnheard, Looks, storage
    <3>2. QED
      BY <3>1, QuietPromised
  <2>4. CASE CallTimesOut(h)
    <3>1. /\ UNCHANGED <<dir, marked>>
          /\ claim' = [claim EXCEPT ![Of(h)].background = @ \/ handler[h].op = "create"]
      BY <2>4 DEF CallTimesOut, storage
    <3>2. \A c \in Claims : claim'[c].phase = claim[c].phase
      BY <1>0, <3>1 DEF ClaimRecord
    <3>3. QED
      BY <3>1, <3>2, QuietPromised
  <2>5. QED
    BY <1>1, <2>1, <2>2, <2>3, <2>4 DEF Handles, HandlerStep
<1>2. ASSUME NEW c \in Claims, Asks(c) PROVE Promised
  <2>1. CASE CallerStep(c)
    <3>1. UNCHANGED <<claim, dir, marked>>
      BY <2>1 DEF CallerStep, CreateVolume, DeleteVolume, Call, storage
    <3>2. QED
      BY <3>1, QuietPromised
  <2>2. QED
    BY <1>2, <2>1, AskPromised DEF Asks
<1>3. CASE Walks \/ (\E v \in Volumes : Mounts(v)) \/ UNCHANGED allvars
  <2>1. UNCHANGED <<claim, dir, marked>>
    BY <1>3 DEF Walks, private, Mounts, Unmount, Remount, allvars, vars, Sweep!Wake,
       Sweep!ReadVolume, Sweep!Enqueue, Sweep!NextVolume
  <2>2. QED
    BY <2>1, QuietPromised
<1>4. CASE Panics \/ Crashes
  <2>1. UNCHANGED <<dir, marked>> /\ HandlersDie
    BY <1>4 DEF Panics, Crashes, Sweep!Panic, storage
  <2>2. \A c \in Claims : claim'[c].phase = claim[c].phase
    BY <1>0, <2>1 DEF HandlersDie, ClaimRecord
  <2>3. QED
    BY <2>1, <2>2, QuietPromised
<1>5. QED
  BY <1>1, <1>2, <1>3, <1>4, WorkPromised DEF SystemNext

\* Under every fault, also with handlers that outlive their calls, workers that come late and
\* panics of the sweep, the system implements ClaimStorage (controller.go:171-184 and :282-303,
\* shared_volume_mapper.go:24-63, shared_volume_directory_deleter.go:57-71).
THEOREM StorageKeptAlways == System => StorageKept
<1>1. SystemInit => StorageInv
  BY InitSystem DEF SystemInit, Init, StorageInv, NothingLeft, NoDirectory
<1>2. StorageInv /\ [SystemNext]_allvars => StorageInv'
  BY NextSystem, NextPromised DEF StorageInv, Promised
<1>3. StorageInv /\ [SystemNext]_allvars => [Promise!StorageNext]_(Promise!claimStorage)
  BY NextPromised DEF Promised
<1>4. SystemInit => Promise!StorageInit
  BY PromiseStarts DEF SystemInit
<1>5. QED
  BY <1>1, <1>2, <1>3, <1>4, PTL DEF System, StorageKept, Promise!StorageSpec
=============================================================================
