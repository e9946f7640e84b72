----------------------- MODULE DirectoryDeleter_proofs -----------------------
(***************************************************************************)
(* Proofs about DirectoryDeleter, for any number of processes, workers,    *)
(* volumes and places of the channel.                                      *)
(*                                                                         *)
(* A worker removes what it took from the channel, long after the walker   *)
(* read the directory.  That it is the driver's own is therefore a fact    *)
(* about everything on the way: what the walker has left to queue, what is *)
(* in the channel, and what the workers hold (OwnQueued).                  *)
(***************************************************************************)
EXTENDS DirectoryDeleter, TLAPS

USE DirectoryDeleterAssumption

\* The paths of the markers that the sweep is to collect.
Own == Volumes \X Collectable

OwnQueued ==
    /\ \A p \in Processes : channel[p] \in Seq(Own)
    /\ \A p \in Processes, w \in Workers : worker[p][w] \in Own \cup {Waiting}

SweepInv == TypeOK /\ OwnQueued

LEMMA OwnSeq ==
    ASSUME NEW s \in Seq(Own)
    PROVE  s \in Seq(Directory)
<1>1. Own \subseteq Directory
  BY DEF Own, Directory
<1> HIDE DEF Own, Directory
<1>2. QED
  BY <1>1

LEMMA AppendOwn ==
    ASSUME NEW s \in Seq(Own), NEW e \in Own
    PROVE  Append(s, e) \in Seq(Own) /\ Len(Append(s, e)) = Len(s) + 1
OBVIOUS

LEMMA HeadTailOwn ==
    ASSUME NEW s \in Seq(Own), s # <<>>
    PROVE  /\ Head(s) \in Own /\ Tail(s) \in Seq(Own)
           /\ Len(s) \in Nat /\ Len(Tail(s)) = Len(s) - 1
OBVIOUS

LEMMA EmptyOwn == <<>> \in Seq(Own) /\ Len(<<>>) <= Capacity
OBVIOUS

\* What TypeOK says of a walker: it is awake only at a volume.
WalkerRecord ==
    {r \in [pc : {"asleep", "open", "queue"}, at : DOMAIN SweepList, left : SUBSET Collectable] :
        r.pc # "asleep" => SweepList[r.at] \in Volumes}

LEMMA WalkersTyped ==
    ASSUME NEW walkers
    PROVE  walkers \in [Processes -> WalkerRecord] <=>
             /\ walkers \in [Processes -> [pc : {"asleep", "open", "queue"}, at : DOMAIN SweepList,
                                           left : SUBSET Collectable]]
             /\ \A p \in Processes : walkers[p].pc # "asleep" => SweepList[walkers[p].at] \in Volumes
BY DEF WalkerRecord

LEMMA AsleepType == Asleep \in WalkerRecord
<1>1. 1 \in DOMAIN SweepList
  OBVIOUS
<1>2. QED
  BY <1>1 DEF Asleep, WalkerRecord

LEMMA WalkType ==
    ASSUME NEW p \in Processes, NEW i, WalkFrom(p, i), walker \in [Processes -> WalkerRecord]
    PROVE  walker' \in [Processes -> WalkerRecord]
<1>1. CASE walker' = [walker EXCEPT ![p] = Asleep]
  BY <1>1, AsleepType
<1>2. CASE walker' # [walker EXCEPT ![p] = Asleep]
  <2>1. PICK j \in NamedFrom(i) :
           walker' = [walker EXCEPT ![p] = [pc |-> "open", at |-> j, left |-> {}]]
    BY <1>2 DEF WalkFrom
  <2>2. j \in DOMAIN SweepList /\ SweepList[j] \in Volumes
    BY DEF NamedFrom
  <2>3. [pc |-> "open", at |-> j, left |-> {}] \in WalkerRecord
    BY <2>2 DEF WalkerRecord
  <2>4. QED
    BY <2>1, <2>3
<1>3. QED
  BY <1>1, <1>2

\* The queues of one process move, those of the others stay.
LEMMA QueuesMove ==
    ASSUME SweepInv, NEW p \in Processes, NEW s \in Seq(Own), Len(s) <= Capacity,
           channel' = [channel EXCEPT ![p] = s],
           walker' \in [Processes -> WalkerRecord],
           worker' \in [Processes -> [Workers -> Own \cup {Waiting}]],
           marked' \in [Volumes -> SUBSET Markers], readable' \in SUBSET Volumes,
           faults' \in 0 .. MaxFaults
    PROVE  SweepInv'
<1>1. \A q \in Processes : channel'[q] \in Seq(Own) /\ Len(channel'[q]) <= Capacity
  BY DEF SweepInv, TypeOK, OwnQueued
<1>2. s \in Seq(Directory)
  BY OwnSeq
<1>3. channel' \in [Processes -> Seq(Directory)]
  BY <1>2 DEF SweepInv, TypeOK
<1>4. worker' \in [Processes -> [Workers -> Directory \cup {Waiting}]]
  <2>1. Own \subseteq Directory
    BY DEF Own, Directory
  <2>2. QED
    BY <2>1
<1>5. \A q \in Processes, w \in Workers : worker'[q][w] \in Own \cup {Waiting}
  OBVIOUS
<1>6. QED
  BY <1>1, <1>2, <1>3, <1>4, <1>5, WalkersTyped DEF SweepInv, TypeOK, OwnQueued, At

\* What the invariant says of the variables in one step of process p.
LEMMA Typed ==
    ASSUME SweepInv
    PROVE  /\ walker \in [Processes -> WalkerRecord]
           /\ worker \in [Processes -> [Workers -> Own \cup {Waiting}]]
           /\ marked \in [Volumes -> SUBSET Markers] /\ readable \in SUBSET Volumes
           /\ faults \in 0 .. MaxFaults
           /\ \A p \in Processes :
                /\ channel[p] \in Seq(Own) /\ Len(channel[p]) <= Capacity
                /\ channel = [channel EXCEPT ![p] = channel[p]]
<1>1. /\ walker \in [Processes -> WalkerRecord]
      /\ worker \in [Processes -> [Workers -> Own \cup {Waiting}]]
  <2>1. walker \in [Processes -> WalkerRecord]
    BY WalkersTyped DEF SweepInv, TypeOK, OwnQueued, At
  <2>2. worker \in [Processes -> [Workers -> Own \cup {Waiting}]]
    BY DEF SweepInv, TypeOK, OwnQueued
  <2>3. QED
    BY <2>1, <2>2
<1>2. /\ marked \in [Volumes -> SUBSET Markers] /\ readable \in SUBSET Volumes
      /\ faults \in 0 .. MaxFaults
      /\ channel \in [Processes -> Seq(Directory)]
      /\ \A p \in Processes : Len(channel[p]) <= Capacity
  BY DEF SweepInv, TypeOK
<1>3. \A p \in Processes : channel[p] \in Seq(Own)
  BY DEF SweepInv, OwnQueued
<1>4. \A p \in Processes : channel = [channel EXCEPT ![p] = channel[p]]
  BY <1>2
<1>5. QED
  BY <1>1, <1>2, <1>3, <1>4

LEMMA FaultType ==
    ASSUME faults \in 0 .. MaxFaults, NEW kind, Fault(kind)
    PROVE  faults' \in 0 .. MaxFaults
BY DEF Fault

LEMMA InitSwept == Init => SweepInv
<1> SUFFICES ASSUME Init
             PROVE  SweepInv
  OBVIOUS
<1>1. /\ channel \in [Processes -> Seq(Directory)]
      /\ \A p \in Processes : channel[p] \in Seq(Own) /\ Len(channel[p]) <= Capacity
  <2>1. <<>> \in Seq(Directory)
    BY EmptyOwn, OwnSeq
  <2>2. QED
    BY <2>1, EmptyOwn DEF Init
<1>2. walker \in [Processes -> WalkerRecord]
  BY AsleepType DEF Init
<1>3. QED
  BY <1>1, <1>2, WalkersTyped DEF Init, SweepInv, TypeOK, OwnQueued, At

LEMMA WalkerStepSwept ==
    ASSUME SweepInv, NEW p \in Processes, WalkerStep(p)
    PROVE  SweepInv'
<1> USE Typed
<1>0. walker[p] \in WalkerRecord
  OBVIOUS
<1>1. CASE Wake(p)
  <2>1. walker' \in [Processes -> WalkerRecord]
    BY <1>1, WalkType DEF Wake
  <2>2. QED
    BY <1>1, <2>1, QueuesMove DEF Wake
<1>2. CASE ReadVolume(p)
  <2>1. PICK read \in SUBSET Collected(At(p)) :
          /\ walker' = [walker EXCEPT ![p].pc = "queue", ![p].left = read]
          /\ UNCHANGED faults \/ Fault("partial")
    BY <1>2 DEF ReadVolume
  <2>2. walker' \in [Processes -> WalkerRecord]
    BY <1>0, <1>2, <2>1 DEF ReadVolume, At, Collected, WalkerRecord
  <2>3. faults' \in 0 .. MaxFaults
    BY <2>1, FaultType
  <2>4. QED
    BY <1>2, <2>2, <2>3, QueuesMove DEF ReadVolume
<1>3. CASE Enqueue(p)
  <2>1. PICK m \in walker[p].left :
          /\ channel' = [channel EXCEPT ![p] = Append(@, <<At(p), m>>)]
          /\ walker' = [walker EXCEPT ![p].left = @ \ {m}]
    BY <1>3 DEF Enqueue
  <2>2. <<At(p), m>> \in Own
    BY <1>0, <1>3 DEF Enqueue, At, Own, WalkerRecord
  <2>3. /\ Append(channel[p], <<At(p), m>>) \in Seq(Own)
        /\ Len(Append(channel[p], <<At(p), m>>)) <= Capacity
    BY <1>3, <2>2, AppendOwn DEF Enqueue
  <2>4. walker' \in [Processes -> WalkerRecord]
    BY <1>0, <2>1 DEF WalkerRecord
  <2>5. channel' = [channel EXCEPT ![p] = Append(channel[p], <<At(p), m>>)]
    BY <2>1 DEF SweepInv, TypeOK
  <2>6. QED
    BY <1>3, <2>3, <2>4, <2>5, QueuesMove DEF Enqueue
<1>4. CASE NextVolume(p)
  <2>1. walker' \in [Processes -> WalkerRecord]
    BY <1>4, WalkType DEF NextVolume
  <2>2. QED
    BY <1>4, <2>1, QueuesMove DEF NextVolume
<1>5. CASE Panic(p)
  <2>1. /\ walker' \in [Processes -> WalkerRecord]
        /\ worker' \in [Processes -> [Workers -> Own \cup {Waiting}]]
    BY <1>5, AsleepType DEF Panic, Restarted
  <2>2. channel' = [channel EXCEPT ![p] = <<>>] /\ UNCHANGED <<marked, readable, faults>>
    BY <1>5 DEF Panic, Restarted
  <2>3. QED
    BY <2>1, <2>2, EmptyOwn, QueuesMove, Zenon
<1>6. QED
  BY <1>1, <1>2, <1>3, <1>4, <1>5 DEF WalkerStep

\* What a worker removes is what was queued: a marker of the driver.
LEMMA RemovesOwn ==
    ASSUME SweepInv, NEW p \in Processes, NEW w \in Workers, Remove(p, w)
    PROVE  /\ marked' \in [Volumes -> SUBSET Markers]
           /\ \A v \in Volumes : marked[v] \ marked'[v] \subseteq Collectable
<1>1. worker[p][w] \in Own
  BY DEF SweepInv, OwnQueued, Remove
<1>2. worker[p][w][1] \in Volumes /\ worker[p][w][2] \in Collectable
  BY <1>1 DEF Own
<1>3. \/ marked' = marked
      \/ marked' = [marked EXCEPT ![worker[p][w][1]] = @ \ {worker[p][w][2]}]
  BY DEF Remove
<1>4. QED
  BY <1>2, <1>3, Typed

LEMMA WorkerStepSwept ==
    ASSUME SweepInv, NEW p \in Processes, NEW w \in Workers, WorkerStep(p, w)
    PROVE  SweepInv'
<1> USE Typed
<1>1. CASE Take(p, w)
  <2>1. channel' = [channel EXCEPT ![p] = Tail(channel[p])]
    BY <1>1 DEF Take, SweepInv, TypeOK
  <2>2. /\ Head(channel[p]) \in Own /\ Tail(channel[p]) \in Seq(Own)
        /\ Len(Tail(channel[p])) <= Capacity
    BY <1>1, HeadTailOwn DEF Take
  <2>3. worker' \in [Processes -> [Workers -> Own \cup {Waiting}]]
    BY <1>1, <2>2 DEF Take
  <2>4. QED
    BY <1>1, <2>1, <2>2, <2>3, QueuesMove DEF Take
<1>2. CASE Remove(p, w)
  <2>1. worker' \in [Processes -> [Workers -> Own \cup {Waiting}]]
    BY <1>2 DEF Remove
  <2>2. faults' \in 0 .. MaxFaults
    BY <1>2, FaultType DEF Remove
  <2>3. QED
    BY <1>2, <2>1, <2>2, RemovesOwn, QueuesMove DEF Remove
<1>3. QED
  BY <1>1, <1>2 DEF WorkerStep

LEMMA NextSwept == SweepInv /\ [Next]_vars => SweepInv'
<1> SUFFICES ASSUME SweepInv, [Next]_vars
             PROVE  SweepInv'
  OBVIOUS
<1>1. CASE \E p \in Processes : WalkerStep(p) \/ \E w \in Workers : WorkerStep(p, w)
  BY <1>1, WalkerStepSwept, WorkerStepSwept
<1>2. CASE \E p \in Processes : Restart(p)
  <2>1. PICK p \in Processes : Restart(p)
    BY <1>2
  <2>2. /\ walker' \in [Processes -> WalkerRecord]
        /\ worker' \in [Processes -> [Workers -> Own \cup {Waiting}]]
        /\ faults' \in 0 .. MaxFaults
    BY <2>1, Typed, AsleepType, FaultType DEF Restart, Restarted
  <2>3. channel' = [channel EXCEPT ![p] = <<>>] /\ UNCHANGED <<marked, readable>>
    BY <2>1 DEF Restart, Restarted
  <2>4. QED
    BY <2>2, <2>3, Typed, EmptyOwn, QueuesMove, Zenon
<1>3. CASE \E v \in Volumes : Unmount(v) \/ Remount(v) \/ \E m \in Markers : Mark(v, m)
  <2>1. /\ UNCHANGED process /\ faults' \in 0 .. MaxFaults
        /\ marked' \in [Volumes -> SUBSET Markers] /\ readable' \in SUBSET Volumes
    BY <1>3, Typed, FaultType DEF Unmount, Remount, Mark, process
  <2>2. QED
    BY <2>1 DEF SweepInv, TypeOK, OwnQueued, At, process
<1>4. CASE UNCHANGED vars
  BY <1>4 DEF vars, process, SweepInv, TypeOK, OwnQueued, At
<1>5. QED
  BY <1>1, <1>2, <1>3, <1>4 DEF Next

\* The queues of every process stay within their types and bounds.
THEOREM TypeCorrect == Spec => []TypeOK
<1>1. SweepInv => TypeOK
  BY DEF SweepInv
<1>2. QED
  BY <1>1, InitSwept, NextSwept, PTL DEF Spec

\* Nothing but the driver's own markers is removed, by however many replicas
\* (shared_volume_directory_deleter.go:38-45, 57-71).
THEOREM OnlyOwnMarkersGoAlways == Spec => OnlyOwnMarkersGo
<1>1. SweepInv /\ [Next]_vars =>
        [\A v \in Volumes : marked[v] \ marked'[v] \subseteq Collectable]_vars
  <2> SUFFICES ASSUME SweepInv, [Next]_vars, NEW v \in Volumes
               PROVE  marked[v] \ marked'[v] \subseteq Collectable
    OBVIOUS
  <2>1. CASE \E p \in Processes, w \in Workers : Remove(p, w)
    BY <2>1, RemovesOwn
  <2>2. CASE \E m \in Markers, u \in Volumes : Mark(u, m)
    BY <2>2, Typed DEF Mark
  <2>3. CASE UNCHANGED marked
    BY <2>3
  <2>4. QED
    BY <2>1, <2>2, <2>3
       DEF Next, vars, WalkerStep, Wake, ReadVolume, Enqueue, NextVolume, Panic, WorkerStep,
           Take, Restart, Unmount, Remount
<1>2. QED
  BY <1>1, InitSwept, NextSwept, PTL DEF Spec, OnlyOwnMarkersGo
=============================================================================
