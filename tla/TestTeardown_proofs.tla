------------------------ MODULE TestTeardown_proofs ------------------------
(***************************************************************************)
(* Proofs about TestTeardown, for any number of tests, each of one claim   *)
(* with what it needs, that set up in any order that SuitesAssumption      *)
(* allows, and for any number of faults.                                   *)
(***************************************************************************)
EXTENDS TestTeardown, TLAPS

(* The invariant.  All parts but the last are about one test.              *)

SettingUp(t) == test[t].pc \in {"setup", "list", "update"}

\* The setup steps that were taken.
Done(t) == {setup[t][i] : i \in 1 .. test[t].at}

\* What is still to be taken down.
Pending(t) == {test[t].cleanups[i] : i \in DOMAIN test[t].cleanups}

\* A test that takes down what it made, with every call and wait successful so far.
Spotless(t) == ~test[t].failed /\ ~test[t].excused

\* The control flow of a test and its stack of cleanups.
ProgressInv(t) ==
    /\ SettingUp(t) =>
         /\ Spotless(t) /\ (Done(t) \cap Things) \ {"tenant"} \subseteq Pending(t)
         /\ "tenant" \in Pending(t) <=> Done(t) \cap TenantCleanups # {}
    /\ test[t].pc \in {"list", "update"} => test[t].at < Len(setup[t]) /\ Step(t) = "grant"
    /\ ~SettingUp(t) /\ ~test[t].failed => test[t].at = Len(setup[t])
    /\ test[t].pc \in {"delete", "wait", "policy", "reclaim", "tenant"} =>
         ~test[t].failed /\ test[t].cleanups # <<>>
    /\ test[t].pc = "wait" => Top(t) \in {"pvc", "pod", "pv", "secret", "class"}
    /\ test[t].pc \in {"policy", "reclaim"} => Top(t) = "pvc"
    /\ test[t].pc = "tenant" => Top(t) = "tenant"
    /\ test[t].pc = "ended" => test[t].cleanups = <<>>
    /\ Has(t, "emptied") /\ ~SettingUp(t) /\ ~test[t].failed /\ test[t].cleanups # <<>> =>
         "tenant" \in Pending(t)

\* Cleanups are in the order of setup.
CleanupsOrdered(t) ==
    /\ Pending(t) \subseteq Done(t)
    /\ \A i, j \in DOMAIN test[t].cleanups : i < j =>
         \A a, b \in DOMAIN setup[t] :
            setup[t][a] = test[t].cleanups[i] /\ setup[t][b] = test[t].cleanups[j] => a < b

\* What exists, and why, whatever the teardown did.
ClusterInv(t) ==
    /\ marked[t] \subseteq exists[t] \cap {"pvc", "pod", "pv", "volume"}
    /\ \A k \in exists[t] :
         k \in Done(t) \/ k \in {"mount", "tenant"} \/ (Dynamic(t) /\ k \in {"pv", "volume"})
    /\ There(t, "mount") => {"pod", "pvc", "pv"} \subseteq exists[t]
    /\ t \in calling => Dynamic(t) /\ ~There(t, "pv") /\ {"pvc", "secret"} \subseteq Done(t)
    /\ Dynamic(t) /\ There(t, "pv") =>
         "pvc" \in Done(t) /\ ~Has(t, "refused") /\ "pv" \notin marked[t]
    /\ "volume" \in marked[t] => Dynamic(t) /\ ~Has(t, "refused")
    /\ Dynamic(t) /\ There(t, "volume") => "pvc" \in Done(t)
    /\ Dynamic(t) /\ "bound" \in Done(t) =>
         /\ "pvc" \in Done(t) /\ t \notin calling /\ (There(t, "pvc") => There(t, "pv"))
         /\ There(t, "volume") /\ ~There(t, "pv") => "volume" \in marked[t]

\* Before the teardown, or without one, all that was made is there.
Intact(t) ==
    SettingUp(t) \/ test[t].failed =>
        marked[t] = {} /\ Done(t) \cap Things \subseteq exists[t]

\* What the teardown did not come to is there.
Standing(t) ==
    ~SettingUp(t) /\ ~test[t].failed =>
        \A i \in DOMAIN test[t].cleanups :
            i < Len(test[t].cleanups) \/ test[t].pc \in {"cleanup", "delete"} =>
                There(t, test[t].cleanups[i]) /\ test[t].cleanups[i] \notin marked[t]

\* What the teardown has gone past is gone.
TeardownInv(t) ==
    Spotless(t) =>
        /\ \A k \in exists[t] :
             k \in Pending(t) \/ k \in {"mount", "tenant"} \/ (Dynamic(t) /\ k \in {"pv", "volume"})
        /\ Dynamic(t) /\ There(t, "pv") => "pvc" \in Pending(t)
        /\ Cleaning(t, "wait", "pvc") /\ Dynamic(t) /\ There(t, "pv") => test[t].boundPv
        /\ test[t].pc \in {"policy", "reclaim"} => ~There(t, "pvc")
        /\ Has(t, "emptied") /\ (There(t, "tenant") \/ (Dynamic(t) /\ There(t, "volume"))) =>
             SettingUp(t) \/ "tenant" \in Pending(t)
        /\ Has(t, "emptied") /\ Dynamic(t) /\ There(t, "volume") => test[t].pc # "tenant"

\* What a PV and a mount need.
NeedsInv(t) ==
    ~test[t].excused =>
        /\ Dynamic(t) /\ There(t, "pv") => LoginWorks(t) /\ There(t, "secret")
        /\ There(t, "pv") => Unmarked(t, "volume")
        /\ There(t, "mount") => There(t, "secret")

\* The grants of the shared API user, between their read and the update.
GrantsInv ==
    \A t, u \in Tests :
        /\ t \in grants \/ t \in test[u].seen => test[t].at >= 1
        /\ At(u, "update") /\ t \in test[u].seen /\ There(t, "tenant") => t \in test[u].existing

FlowInv(t) == ProgressInv(t) /\ CleanupsOrdered(t)

ThingsInv(t) == ClusterInv(t) /\ Intact(t) /\ Standing(t) /\ TeardownInv(t) /\ NeedsInv(t)

TestInv(t) == FlowInv(t) /\ ThingsInv(t)

TeardownsInv == TypeOK /\ GrantsInv /\ \A t \in Tests : TestInv(t)

-----------------------------------------------------------------------------
(* The setup of a test, and its stack of cleanups.                         *)

LEMMA SetupFacts ==
    ASSUME TypeOK, NEW t \in Tests
    PROVE  /\ setup[t] \in Seq(Steps) /\ Len(setup[t]) \in Nat \ {0}
           /\ DOMAIN setup[t] = 1 .. Len(setup[t])
           /\ setup[t][1] = "tenant"
           /\ \A i, j \in DOMAIN setup[t] :
                /\ setup[t][i] = setup[t][j] /\ setup[t][i] \in Things => i = j
                /\ setup[t][i] \in TenantCleanups /\ setup[t][j] \in TenantCleanups => i = j
                /\ <<setup[t][i], setup[t][j]>> \in Precedes => i < j
           /\ Dynamic(t) <=> ~Has(t, "volume")
           /\ Dynamic(t) /\ Has(t, "pvc") => Has(t, "bound") \/ Has(t, "refused")
           /\ Has(t, "refused") => Has(t, "emptied")
           /\ ~(Has(t, "emptied") /\ Has(t, "deleted"))
           /\ test[t].at \in 0 .. Len(setup[t])
<1>1. setup \in Suites /\ setup[t] \in Seq(Steps) /\ setup[t] # <<>>
  BY TeardownAssumption, SuitesAssumption DEF TypeOK
<1>2. Len(setup[t]) \in Nat \ {0} /\ DOMAIN setup[t] = 1 .. Len(setup[t])
  BY <1>1
<1>3. setup[t][1] = "tenant"
  BY <1>1, TeardownAssumption
<1> DEFINE steps == {setup[t][i] : i \in DOMAIN setup[t]}
<1>4. \A k : Has(t, k) <=> k \in steps
  BY DEF Has
<1>5. /\ \A i, j \in DOMAIN setup[t] :
           /\ setup[t][i] = setup[t][j] /\ setup[t][i] \in Things => i = j
           /\ setup[t][i] \in TenantCleanups /\ setup[t][j] \in TenantCleanups => i = j
           /\ <<setup[t][i], setup[t][j]>> \in Precedes => i < j
      /\ "volume" \in steps <=> "pv" \in steps
      /\ "pvc" \in steps /\ "pv" \notin steps => {"bound", "refused"} \cap steps # {}
      /\ "refused" \in steps => "emptied" \in steps
  BY <1>1, SuitesAssumption
<1>6. ~(Has(t, "emptied") /\ Has(t, "deleted"))
  <2> SUFFICES ASSUME NEW i \in DOMAIN setup[t], NEW j \in DOMAIN setup[t],
                      setup[t][i] = "emptied", setup[t][j] = "deleted"
               PROVE  FALSE
    BY DEF Has
  <2>1. i = j
    BY <1>5 DEF TenantCleanups
  <2>2. QED
    BY <2>1
<1> HIDE DEF steps
<1>7. Dynamic(t) <=> "pv" \notin steps
  BY <1>4 DEF Dynamic
<1>8. test[t].at \in 0 .. Len(setup[t])
  BY <1>2 DEF TypeOK, TestRecord
<1>9. QED
  BY <1>1, <1>2, <1>3, <1>4, <1>5, <1>6, <1>7, <1>8

\* What was done is a step of the setup, and after the setup every step was done.
LEMMA DoneFacts ==
    ASSUME TypeOK, NEW t \in Tests
    PROVE  /\ \A k \in Done(t) : Has(t, k)
           /\ test[t].at = Len(setup[t]) => \A k : Has(t, k) => k \in Done(t)
           /\ test[t].at >= 1 => "tenant" \in Done(t)
           /\ test[t].at = 0 => Done(t) = {}
           /\ Dynamic(t) => "volume" \notin Done(t) /\ "pv" \notin Done(t)
<1>1. DOMAIN setup[t] = 1 .. Len(setup[t]) /\ test[t].at \in 0 .. Len(setup[t])
      /\ setup[t][1] = "tenant"
  BY SetupFacts
<1>2. \A k \in Done(t) : Has(t, k)
  BY <1>1 DEF Done, Has
<1>3. QED
  BY <1>1, <1>2, SetupFacts DEF Done, Has, Dynamic

\* The step that follows makes nothing that was made before.
LEMMA NextStepIsNew ==
    ASSUME TypeOK, NEW t \in Tests, test[t].at < Len(setup[t]), Step(t) \in Things
    PROVE  Step(t) \notin Done(t)
<1> DEFINE n == test[t].at + 1
<1>1. /\ DOMAIN setup[t] = 1 .. Len(setup[t]) /\ n \in 1 .. Len(setup[t]) /\ n \in DOMAIN setup[t]
      /\ test[t].at \in Nat /\ setup[t][n] = Step(t) /\ n = test[t].at + 1
  BY SetupFacts DEF Step
<1> HIDE DEF n
<1>2. ASSUME NEW i \in 1 .. test[t].at, setup[t][i] = Step(t)
      PROVE  FALSE
  <2>1. i \in DOMAIN setup[t] /\ i # n
    BY <1>1
  <2>2. \A a, b \in DOMAIN setup[t] : setup[t][a] = setup[t][b] /\ setup[t][a] \in Things => a = b
    BY SetupFacts
  <2>3. QED
    BY <1>1, <1>2, <2>1, <2>2
<1>3. QED
  BY <1>2 DEF Done

\* A thing is made after what precedes it.
LEMMA DoneAfter ==
    ASSUME TypeOK, NEW t \in Tests, NEW k, NEW l, <<k, l>> \in Precedes, l \in Done(t), Has(t, k)
    PROVE  k \in Done(t)
<1>1. PICK i \in 1 .. test[t].at : setup[t][i] = l
  BY DEF Done
<1>2. PICK j \in DOMAIN setup[t] : setup[t][j] = k
  BY DEF Has
<1>3. i \in DOMAIN setup[t] /\ j \in 1 .. Len(setup[t]) /\ test[t].at \in 0 .. Len(setup[t])
  BY <1>1, <1>2, SetupFacts
<1>4. j < i
  BY <1>1, <1>2, <1>3, SetupFacts
<1>5. QED
  BY <1>1, <1>2, <1>3, <1>4 DEF Done

LEMMA NeededIsDone ==
    ASSUME TypeOK, NEW t \in Tests, test[t].at < Len(setup[t]), NEW k,
           <<k, Step(t)>> \in Precedes, Has(t, k)
    PROVE  k \in Done(t)
<1>1. PICK j \in DOMAIN setup[t] : setup[t][j] = k
  BY DEF Has
<1>2. test[t].at + 1 \in DOMAIN setup[t] /\ j \in Nat \ {0} /\ test[t].at \in Nat
  BY <1>1, SetupFacts
<1>3. j < test[t].at + 1
  BY <1>1, <1>2, SetupFacts DEF Step
<1>4. QED
  BY <1>1, <1>2, <1>3 DEF Done

LEMMA CleanupsType ==
    ASSUME TypeOK, NEW t \in Tests
    PROVE  /\ test[t].cleanups \in Seq(Things)
           /\ DOMAIN test[t].cleanups = 1 .. Len(test[t].cleanups)
           /\ Len(test[t].cleanups) \in Nat
           /\ test[t].cleanups # <<>> =>
                Len(test[t].cleanups) >= 1 /\ Top(t) \in Pending(t) /\ Top(t) \in Things
           /\ test[t].cleanups = <<>> => Pending(t) = {}
<1>1. test[t].cleanups \in Seq(Things)
  BY DEF TypeOK, TestRecord
<1>2. QED
  BY <1>1 DEF Top, Pending

\* What follows the top in the setup was taken down already.
LEMMA TopIsLast ==
    ASSUME TypeOK, NEW t \in Tests, CleanupsOrdered(t), test[t].cleanups # <<>>,
           NEW l, <<Top(t), l>> \in Precedes
    PROVE  l \notin Pending(t)
<1> DEFINE c == test[t].cleanups
<1> SUFFICES ASSUME NEW i \in DOMAIN c, c[i] = l
             PROVE  FALSE
  BY DEF Pending
<1>1. DOMAIN c = 1 .. Len(c) /\ Len(c) \in DOMAIN c /\ Top(t) = c[Len(c)] /\ Len(c) \in Nat
  BY CleanupsType DEF Top
<1>2. l \in Done(t) /\ Top(t) \in Done(t)
  BY <1>1 DEF CleanupsOrdered, Pending
<1>3. PICK a \in DOMAIN setup[t], b \in DOMAIN setup[t] : setup[t][a] = l /\ setup[t][b] = Top(t)
  BY <1>2, DoneFacts DEF Has
<1>4. b < a /\ a \in Nat /\ b \in Nat
  BY <1>3, SetupFacts
<1>5. l # Top(t)
  <2>1. \A y \in DOMAIN setup[t] : <<setup[t][b], setup[t][y]>> \in Precedes => b < y
    BY <1>3, SetupFacts
  <2>2. l = Top(t) => b < b
    BY <1>3, <2>1
  <2>3. QED
    BY <1>4, <2>2
<1>6. i # Len(c)
  BY <1>1, <1>5
<1>7. a < b
  BY <1>1, <1>3, <1>6 DEF CleanupsOrdered
<1>8. QED
  BY <1>4, <1>7

\* The tenant is taken down last.
LEMMA TenantIsLast ==
    ASSUME TypeOK, NEW t \in Tests, CleanupsOrdered(t), test[t].cleanups # <<>>, Top(t) = "tenant"
    PROVE  Len(test[t].cleanups) = 1 /\ Pending(t) = {"tenant"}
<1> DEFINE c == test[t].cleanups
<1>1. DOMAIN c = 1 .. Len(c) /\ Len(c) \in DOMAIN c /\ Top(t) = c[Len(c)] /\ Len(c) \in Nat
  BY CleanupsType DEF Top
<1>2. setup[t][1] = "tenant" /\ 1 \in DOMAIN setup[t] /\ DOMAIN setup[t] = 1 .. Len(setup[t])
  BY SetupFacts
<1> DEFINE n == Len(c)
<1>3. c[n] = "tenant" /\ n \in Nat /\ n >= 1
      /\ \A i, j \in 1 .. n : i < j =>
           \A a, b \in DOMAIN setup[t] : setup[t][a] = c[i] /\ setup[t][b] = c[j] => a < b
  <2>1. n >= 1
    BY CleanupsType
  <2>2. QED
    BY <1>1, <2>1 DEF CleanupsOrdered
<1>5. PICK a \in DOMAIN setup[t] : setup[t][a] = c[1]
  <2>1. c[1] \in Done(t)
    BY <1>1, <1>3 DEF CleanupsOrdered, Pending
  <2>2. QED
    BY <2>1, DoneFacts DEF Has
<1> HIDE DEF n, c
<1>4. n = 1
  BY <1>2, <1>3, <1>5
<1>6. QED
  <2>1. DOMAIN c = {1}
    BY <1>1, <1>4 DEF n
  <2>2. QED
    BY <1>3, <1>4, <2>1 DEF Pending, c, n

-----------------------------------------------------------------------------
(* How a test goes on.                                                     *)

Typed == test \in [Tests -> TestRecord]

OthersSame(t) == \A u \in Tests \ {t} : test'[u] = test[u]

\* The fields that only the grant of a tenant and the deletion of a claim set.
ReadsSame(t) ==
    /\ test'[t].seen = test[t].seen /\ test'[t].existing = test[t].existing
    /\ test'[t].boundPv = test[t].boundPv

\* How far it is, and how it went so far.
SameCourse(t) ==
    /\ test'[t].at = test[t].at /\ test'[t].cleanups = test[t].cleanups
    /\ test'[t].failed = test[t].failed /\ test'[t].excused = test[t].excused

Phases == {"setup", "list", "update", "cleanup", "delete", "wait", "policy", "reclaim",
           "tenant", "ended"}

LEMMA ChangedEffect ==
    ASSUME Typed, NEW t \in Tests, NEW r \in TestRecord, test' = [test EXCEPT ![t] = r]
    PROVE  Typed' /\ OthersSame(t) /\ test'[t] = r
BY DEF Typed, OthersSame

LEMMA GotoEffect ==
    ASSUME Typed, NEW t \in Tests, NEW pc \in Phases, Goto(t, pc)
    PROVE  /\ Typed' /\ OthersSame(t) /\ ReadsSame(t)
           /\ test'[t].pc = pc /\ test'[t].at = test[t].at /\ test'[t].cleanups = test[t].cleanups
           /\ test'[t].failed = test[t].failed /\ test'[t].excused = test[t].excused
<1> DEFINE r == [test[t] EXCEPT !.pc = pc]
<1>1. test' = [test EXCEPT ![t] = r]
  BY DEF Goto
<1>2. /\ r \in TestRecord /\ r.pc = pc /\ r.at = test[t].at /\ r.cleanups = test[t].cleanups
      /\ r.failed = test[t].failed /\ r.excused = test[t].excused /\ r.seen = test[t].seen
      /\ r.existing = test[t].existing /\ r.boundPv = test[t].boundPv
  <2>1. test[t] \in TestRecord
    BY DEF Typed
  <2>2. r \in TestRecord
    BY <2>1 DEF TestRecord, Phases
  <2>3. QED
    BY <2>1, <2>2 DEF TestRecord
<1> HIDE DEF r
<1>3. QED
  BY <1>1, <1>2, ChangedEffect DEF ReadsSame

LEMMA FatalEffect ==
    ASSUME Typed, NEW t \in Tests, Fatal(t)
    PROVE  /\ Typed' /\ OthersSame(t) /\ ReadsSame(t)
           /\ test'[t].pc = "cleanup" /\ test'[t].at = test[t].at
           /\ test'[t].cleanups = test[t].cleanups
           /\ test'[t].failed = TRUE /\ test'[t].excused = test[t].excused
<1> DEFINE r == [test[t] EXCEPT !.pc = "cleanup", !.failed = TRUE]
<1>1. test' = [test EXCEPT ![t] = r]
  BY DEF Fatal
<1>2. /\ r \in TestRecord /\ r.pc = "cleanup" /\ r.at = test[t].at
      /\ r.cleanups = test[t].cleanups /\ r.failed = TRUE /\ r.excused = test[t].excused
      /\ r.seen = test[t].seen /\ r.existing = test[t].existing /\ r.boundPv = test[t].boundPv
  <2>1. test[t] \in TestRecord
    BY DEF Typed
  <2>2. r \in TestRecord
    BY <2>1 DEF TestRecord, Phases
  <2>3. QED
    BY <2>1, <2>2 DEF TestRecord
<1> HIDE DEF r
<1>3. QED
  BY <1>1, <1>2, ChangedEffect DEF ReadsSame

LEMMA PassedEffect ==
    ASSUME Typed, NEW t \in Tests, Passed(t)
    PROVE  /\ Typed' /\ OthersSame(t) /\ ReadsSame(t)
           /\ test'[t].pc = "setup" /\ test'[t].at = test[t].at + 1
           /\ test'[t].cleanups = test[t].cleanups
           /\ test'[t].failed = test[t].failed /\ test'[t].excused = test[t].excused
<1> DEFINE next == test[t].at + 1
           r == [test[t] EXCEPT !.pc = "setup", !.at = next]
<1>0. test[t] \in TestRecord /\ next \in Nat
  BY DEF Typed, TestRecord
<1>1. test' = [test EXCEPT ![t] = r]
  BY <1>0 DEF Passed, TestRecord
<1> HIDE DEF next
<1>2. /\ r \in TestRecord /\ r.pc = "setup" /\ r.at = next
      /\ r.cleanups = test[t].cleanups /\ r.failed = test[t].failed /\ r.excused = test[t].excused
      /\ r.seen = test[t].seen /\ r.existing = test[t].existing /\ r.boundPv = test[t].boundPv
  <2>1. r \in TestRecord
    BY <1>0 DEF TestRecord
  <2>2. QED
    BY <1>0, <2>1 DEF TestRecord
<1> HIDE DEF r
<1>3. QED
  BY <1>1, <1>2, ChangedEffect DEF ReadsSame, next

LEMMA RegisteredEffect ==
    ASSUME Typed, NEW t \in Tests, NEW k \in Things, Registered(t, k)
    PROVE  /\ Typed' /\ OthersSame(t) /\ ReadsSame(t)
           /\ test'[t].pc = "setup" /\ test'[t].at = test[t].at + 1
           /\ test'[t].cleanups = Append(test[t].cleanups, k)
           /\ test'[t].failed = test[t].failed /\ test'[t].excused = test[t].excused
<1> DEFINE longer == Append(test[t].cleanups, k)
           next == test[t].at + 1
           r == [test[t] EXCEPT !.pc = "setup", !.at = next, !.cleanups = longer]
<1>1. test[t] \in TestRecord /\ longer \in Seq(Things) /\ next \in Nat
  BY DEF Typed, TestRecord
<1>2. test' = [test EXCEPT ![t] = r]
  BY <1>1 DEF Registered, TestRecord
<1> HIDE DEF longer, next
<1>3. /\ r \in TestRecord /\ r.pc = "setup" /\ r.at = next
      /\ r.cleanups = longer /\ r.failed = test[t].failed /\ r.excused = test[t].excused
      /\ r.seen = test[t].seen /\ r.existing = test[t].existing /\ r.boundPv = test[t].boundPv
  <2>1. r \in TestRecord
    BY <1>1 DEF TestRecord
  <2>2. QED
    BY <1>1, <2>1 DEF TestRecord
<1> HIDE DEF r
<1>4. QED
  BY <1>2, <1>3, ChangedEffect DEF ReadsSame, longer, next

LEMMA PoppedEffect ==
    ASSUME Typed, NEW t \in Tests, NEW excuse \in BOOLEAN, test' = Popped(t, excuse),
           test[t].cleanups # <<>>
    PROVE  /\ Typed' /\ OthersSame(t) /\ ReadsSame(t)
           /\ test'[t].pc = "cleanup" /\ test'[t].at = test[t].at
           /\ test'[t].cleanups = SubSeq(test[t].cleanups, 1, Len(test[t].cleanups) - 1)
           /\ test'[t].failed = test[t].failed
           /\ test'[t].excused <=> test[t].excused \/ excuse
<1> DEFINE shorter == SubSeq(test[t].cleanups, 1, Len(test[t].cleanups) - 1)
           excused == test[t].excused \/ excuse
           r == [test[t] EXCEPT !.pc = "cleanup", !.cleanups = shorter, !.excused = excused]
<1>1. test[t] \in TestRecord /\ test[t].cleanups \in Seq(Things)
  BY DEF Typed, TestRecord
<1>2. shorter \in Seq(Things) /\ excused \in BOOLEAN
  BY <1>1
<1>3. test' = [test EXCEPT ![t] = r]
  BY <1>1 DEF Popped, TestRecord
<1> HIDE DEF shorter, excused
<1>4. /\ r \in TestRecord /\ r.pc = "cleanup" /\ r.at = test[t].at
      /\ r.cleanups = shorter /\ r.failed = test[t].failed /\ r.excused = excused
      /\ r.seen = test[t].seen /\ r.existing = test[t].existing /\ r.boundPv = test[t].boundPv
  BY <1>1, <1>2 DEF TestRecord
<1> HIDE DEF r
<1>5. /\ Typed' /\ OthersSame(t) /\ ReadsSame(t)
      /\ test'[t].pc = "cleanup" /\ test'[t].at = test[t].at
      /\ test'[t].cleanups = shorter
      /\ test'[t].failed = test[t].failed
      /\ test'[t].excused = excused
  BY <1>3, <1>4, ChangedEffect DEF ReadsSame
<1>6. QED
  BY <1>5 DEF shorter, excused

LEMMA ReadGrantsEffect ==
    ASSUME Typed, NEW t \in Tests, grants \subseteq Tests,
           test' = [test EXCEPT ![t].pc = "list", ![t].seen = grants]
    PROVE  /\ Typed' /\ OthersSame(t) /\ SameCourse(t)
           /\ test'[t].pc = "list" /\ test'[t].seen = grants
           /\ test'[t].existing = test[t].existing
<1> DEFINE r == [test[t] EXCEPT !.pc = "list", !.seen = grants]
<1>1. test' = [test EXCEPT ![t] = r]
  OBVIOUS
<1>2. /\ r \in TestRecord /\ r.pc = "list" /\ r.at = test[t].at /\ r.cleanups = test[t].cleanups
      /\ r.failed = test[t].failed /\ r.excused = test[t].excused /\ r.seen = grants
      /\ r.existing = test[t].existing
  <2>1. test[t] \in TestRecord
    BY DEF Typed
  <2>2. r \in TestRecord
    BY <2>1 DEF TestRecord
  <2>3. QED
    BY <2>1, <2>2 DEF TestRecord
<1> HIDE DEF r
<1>3. QED
  BY <1>1, <1>2, ChangedEffect DEF SameCourse

LEMMA ReadTenantsEffect ==
    ASSUME Typed, NEW t \in Tests, NEW tenants \in SUBSET Tests,
           test' = [test EXCEPT ![t].pc = "update", ![t].existing = tenants]
    PROVE  /\ Typed' /\ OthersSame(t) /\ SameCourse(t)
           /\ test'[t].pc = "update" /\ test'[t].seen = test[t].seen
           /\ test'[t].existing = tenants
<1> DEFINE r == [test[t] EXCEPT !.pc = "update", !.existing = tenants]
<1>1. test' = [test EXCEPT ![t] = r]
  OBVIOUS
<1>2. /\ r \in TestRecord /\ r.pc = "update" /\ r.at = test[t].at
      /\ r.cleanups = test[t].cleanups /\ r.failed = test[t].failed
      /\ r.excused = test[t].excused /\ r.seen = test[t].seen /\ r.existing = tenants
  <2>1. test[t] \in TestRecord
    BY DEF Typed
  <2>2. r \in TestRecord
    BY <2>1 DEF TestRecord
  <2>3. QED
    BY <2>1, <2>2 DEF TestRecord
<1> HIDE DEF r
<1>3. QED
  BY <1>1, <1>2, ChangedEffect DEF SameCourse

\* An object is deleted and waited for; of a claim it was read whether it is bound.
LEMMA WaitsEffect ==
    ASSUME Typed, NEW t \in Tests, NEW bound \in BOOLEAN, NEW excuse \in BOOLEAN,
           test' = [test EXCEPT ![t].pc = "wait", ![t].boundPv = bound, ![t].excused = excuse]
    PROVE  /\ Typed' /\ OthersSame(t)
           /\ test'[t].at = test[t].at /\ test'[t].cleanups = test[t].cleanups
           /\ test'[t].failed = test[t].failed /\ test'[t].pc = "wait"
           /\ test'[t].boundPv = bound /\ test'[t].excused = excuse
           /\ test'[t].seen = test[t].seen /\ test'[t].existing = test[t].existing
<1> DEFINE r == [test[t] EXCEPT !.pc = "wait", !.boundPv = bound, !.excused = excuse]
<1>1. test' = [test EXCEPT ![t] = r]
  OBVIOUS
<1>2. /\ r \in TestRecord /\ r.pc = "wait" /\ r.at = test[t].at /\ r.cleanups = test[t].cleanups
      /\ r.failed = test[t].failed /\ r.excused = excuse /\ r.seen = test[t].seen
      /\ r.existing = test[t].existing /\ r.boundPv = bound
  <2>1. test[t] \in TestRecord
    BY DEF Typed
  <2>2. r \in TestRecord
    BY <2>1 DEF TestRecord
  <2>3. QED
    BY <2>1, <2>2 DEF TestRecord
<1> HIDE DEF r
<1>3. QED
  BY <1>1, <1>2, ChangedEffect

LEMMA TenantGivenUpEffect ==
    ASSUME Typed, NEW t \in Tests,
           test' = [test EXCEPT ![t].pc = "tenant", ![t].excused = TRUE]
    PROVE  /\ Typed' /\ OthersSame(t) /\ ReadsSame(t)
           /\ test'[t].at = test[t].at /\ test'[t].cleanups = test[t].cleanups
           /\ test'[t].failed = test[t].failed /\ test'[t].pc = "tenant" /\ test'[t].excused = TRUE
<1> DEFINE r == [test[t] EXCEPT !.pc = "tenant", !.excused = TRUE]
<1>1. test' = [test EXCEPT ![t] = r]
  OBVIOUS
<1>2. /\ r \in TestRecord /\ r.pc = "tenant" /\ r.at = test[t].at
      /\ r.cleanups = test[t].cleanups /\ r.failed = test[t].failed /\ r.excused = TRUE
      /\ r.seen = test[t].seen /\ r.existing = test[t].existing /\ r.boundPv = test[t].boundPv
  <2>1. test[t] \in TestRecord
    BY DEF Typed
  <2>2. r \in TestRecord
    BY <2>1 DEF TestRecord
  <2>3. QED
    BY <2>1, <2>2 DEF TestRecord
<1> HIDE DEF r
<1>3. QED
  BY <1>1, <1>2, ChangedEffect DEF ReadsSame

\* The stack of cleanups with one more, and with one less.
LEMMA PushedFacts ==
    ASSUME NEW S, NEW c \in Seq(S), NEW k \in S, NEW d, d = Append(c, k)
    PROVE  /\ d # <<>> /\ DOMAIN d = 1 .. Len(c) + 1 /\ Len(c) \in Nat /\ DOMAIN c = 1 .. Len(c)
           /\ d[Len(c) + 1] = k /\ \A i \in DOMAIN c : d[i] = c[i]
OBVIOUS

LEMMA PoppedFacts ==
    ASSUME NEW S, NEW c \in Seq(S), c # <<>>
    PROVE  LET d == SubSeq(c, 1, Len(c) - 1)
           IN  /\ DOMAIN d = 1 .. Len(c) - 1 /\ Len(c) \in Nat \ {0} /\ DOMAIN c = 1 .. Len(c)
               /\ Len(d) = Len(c) - 1 /\ (d = <<>> <=> Len(c) = 1)
               /\ \A i \in DOMAIN d : d[i] = c[i]
<1> DEFINE d == SubSeq(c, 1, Len(c) - 1)
<1>1. Len(c) \in Nat \ {0} /\ DOMAIN c = 1 .. Len(c)
  OBVIOUS
<1>2. d \in Seq(S) /\ Len(d) = Len(c) - 1 /\ \A i \in 1 .. Len(c) - 1 : d[i] = c[i]
  BY <1>1
<1>3. DOMAIN d = 1 .. Len(d) /\ (d = <<>> <=> Len(d) = 0)
  <2>1. \A q \in Seq(S) : DOMAIN q = 1 .. Len(q) /\ (q = <<>> <=> Len(q) = 0)
    OBVIOUS
  <2>2. QED
    BY <1>2, <2>1
<1>4. QED
  BY <1>1, <1>2, <1>3

-----------------------------------------------------------------------------
(* The control flow of a test.                                             *)

LEMMA SameFlow ==
    ASSUME NEW t \in Tests, FlowInv(t), UNCHANGED setup, test'[t] = test[t]
    PROVE  FlowInv(t)' /\ Done(t)' = Done(t) /\ Pending(t)' = Pending(t)
<1>1. Done(t)' = Done(t) /\ Pending(t)' = Pending(t)
  BY DEF Done, Pending
<1>2. Top(t)' = Top(t) /\ Step(t)' = Step(t) /\ (Has(t, "emptied")' <=> Has(t, "emptied"))
  BY DEF Top, Step, Has
<1>3. ProgressInv(t)'
  BY <1>1, <1>2 DEF FlowInv, ProgressInv, SettingUp, Spotless
<1>4. CleanupsOrdered(t)'
  BY <1>1 DEF FlowInv, CleanupsOrdered
<1>5. QED
  BY <1>1, <1>3, <1>4 DEF FlowInv

LEMMA RegisteredFlow ==
    ASSUME TypeOK, NEW t \in Tests, FlowInv(t), UNCHANGED setup, SettingUp(t),
           test[t].at < Len(setup[t]), NEW k \in Things \ {"tenant"}, k = Step(t), Registered(t, k)
    PROVE  FlowInv(t)' /\ Done(t)' = Done(t) \cup {k} /\ Pending(t)' = Pending(t) \cup {k}
<1> DEFINE c == test[t].cleanups
           d == test'[t].cleanups
           n == test[t].at + 1
<1>1. /\ OthersSame(t) /\ test'[t].pc = "setup" /\ test'[t].at = n /\ d = Append(c, k)
      /\ test'[t].failed = test[t].failed /\ test'[t].excused = test[t].excused
  BY RegisteredEffect DEF TypeOK, Typed
<1>2. /\ test[t].at \in Nat /\ n \in DOMAIN setup[t] /\ setup[t][n] = k
      /\ DOMAIN setup[t] = 1 .. Len(setup[t]) /\ Len(setup[t]) \in Nat
  BY SetupFacts DEF Step
<1>3. Done(t)' = Done(t) \cup {k}
  <2>1. 1 .. n = (1 .. test[t].at) \cup {n}
    BY <1>2
  <2>2. QED
    BY <1>1, <1>2, <2>1 DEF Done
<1>4. /\ d # <<>> /\ DOMAIN d = 1 .. Len(c) + 1 /\ Len(c) \in Nat /\ DOMAIN c = 1 .. Len(c)
      /\ d[Len(c) + 1] = k /\ \A i \in DOMAIN c : d[i] = c[i]
  <2>1. c \in Seq(Things)
    BY CleanupsType
  <2>2. d = Append(c, k)
    BY <1>1
  <2> HIDE DEF c, d
  <2>3. QED
    BY <2>1, <2>2, PushedFacts
<1> DEFINE m == Len(c)
<1>5. /\ d # <<>> /\ DOMAIN d = 1 .. m + 1 /\ m \in Nat /\ DOMAIN c = 1 .. m
      /\ d[m + 1] = k /\ \A i \in 1 .. m : d[i] = c[i]
  BY <1>4
<1> HIDE DEF m, n, c, d
<1>6. Pending(t)' = Pending(t) \cup {k}
  <2>1. Pending(t)' = {d[i] : i \in 1 .. m + 1} /\ Pending(t) = {c[i] : i \in 1 .. m}
    BY <1>5 DEF Pending, c, d
  <2>2. 1 .. m + 1 = (1 .. m) \cup {m + 1}
    BY <1>5
  <2>3. QED
    BY <1>5, <2>1, <2>2
<1>7. k \notin Done(t)
  BY NextStepIsNew
<1>8. ProgressInv(t)'
  BY <1>1, <1>3, <1>6 DEF FlowInv, ProgressInv, SettingUp, Spotless, TenantCleanups, Things
<1>9. Pending(t)' \subseteq Done(t)'
  BY <1>3, <1>6 DEF FlowInv, CleanupsOrdered
<1>10. ASSUME NEW i \in DOMAIN d, NEW j \in DOMAIN d, i < j,
              NEW a \in DOMAIN setup[t], NEW b \in DOMAIN setup[t],
              setup[t][a] = d[i], setup[t][b] = d[j]
       PROVE  a < b
  <2>1. i \in 1 .. m /\ d[i] = c[i]
    BY <1>5, <1>10
  <2>2. CASE j \in 1 .. m
    BY <1>5, <1>10, <2>1, <2>2 DEF FlowInv, CleanupsOrdered, c
  <2>3. CASE j = m + 1
    <3>1. b = n
      <4>1. \A x, y \in DOMAIN setup[t] :
               setup[t][x] = setup[t][y] /\ setup[t][x] \in Things => x = y
        BY SetupFacts
      <4>2. QED
        BY <1>2, <1>5, <1>10, <2>3, <4>1
    <3>2. c[i] \in Done(t) /\ c[i] \in Things
      BY <1>5, <2>1, CleanupsType DEF FlowInv, CleanupsOrdered, Pending, c
    <3>3. PICK e \in 1 .. test[t].at : setup[t][e] = c[i]
      BY <3>2 DEF Done
    <3>4. a = e
      <4>1. e \in DOMAIN setup[t] /\ setup[t][e] \in Things /\ setup[t][a] = setup[t][e]
        BY <1>2, <1>10, <2>1, <3>2, <3>3, SetupFacts
      <4>2. QED
        BY <4>1, SetupFacts
    <3>5. QED
      BY <1>2, <3>1, <3>3, <3>4 DEF n
  <2>4. QED
    BY <1>5, <2>2, <2>3
<1>11. CleanupsOrdered(t)'
  BY <1>9, <1>10 DEF CleanupsOrdered, d
<1>12. QED
  BY <1>3, <1>6, <1>8, <1>11 DEF FlowInv

\* The cleanup of a tenant is the first that is registered.
LEMMA GivenBackFlow ==
    ASSUME TypeOK, NEW t \in Tests, FlowInv(t), UNCHANGED setup, SettingUp(t),
           test[t].at < Len(setup[t]), Step(t) \in TenantCleanups, Registered(t, "tenant")
    PROVE  FlowInv(t)' /\ Done(t)' = Done(t) \cup {Step(t)}
           /\ Pending(t) = {} /\ Pending(t)' = {"tenant"}
<1> DEFINE n == test[t].at + 1
           d == test'[t].cleanups
<1>0. "tenant" \in Things
  BY DEF Things
<1>1. /\ test'[t].pc = "setup" /\ test'[t].at = n /\ d = Append(test[t].cleanups, "tenant")
      /\ test'[t].failed = test[t].failed /\ test'[t].excused = test[t].excused
  BY <1>0, RegisteredEffect DEF TypeOK, Typed
<1>2. /\ test[t].at \in Nat /\ n \in DOMAIN setup[t] /\ setup[t][n] = Step(t)
      /\ 1 .. n = (1 .. test[t].at) \cup {n} /\ DOMAIN setup[t] = 1 .. Len(setup[t])
      /\ 1 .. test[t].at \subseteq DOMAIN setup[t] /\ n \notin 1 .. test[t].at
      /\ 1 \in DOMAIN setup[t] /\ setup[t][1] = "tenant"
  BY SetupFacts DEF Step
<1>3. Step(t) # "tenant" /\ test[t].at >= 1
  BY <1>2, SetupFacts DEF TenantCleanups
<1> HIDE DEF n
<1>4. Done(t)' = Done(t) \cup {Step(t)} /\ "tenant" \in Done(t)
  BY <1>1, <1>2, <1>3, DoneFacts DEF Done
<1>5. Done(t) \cap TenantCleanups = {} /\ Done(t) \cap Things \subseteq {"tenant"}
  <2> SUFFICES ASSUME NEW i \in 1 .. test[t].at,
                      setup[t][i] \in TenantCleanups \/ setup[t][i] \in Things \ {"tenant"}
               PROVE  FALSE
    BY DEF Done
  <2>1. i \in DOMAIN setup[t] /\ i # n /\ i < n
    BY <1>2 DEF n
  <2>2. setup[t][i] \notin TenantCleanups
    BY <1>2, <2>1, SetupFacts
  <2>3. setup[t][i] \in Things \ {"tenant"} => <<Step(t), setup[t][i]>> \in Precedes
    BY DEF Precedes
  <2>4. <<Step(t), setup[t][i]>> \in Precedes => n < i
    BY <1>2, <2>1, SetupFacts
  <2>5. QED
    BY <1>2, <2>1, <2>2, <2>3, <2>4
<1>6. Pending(t) = {}
  <2>1. Pending(t) \subseteq Things
    BY CleanupsType DEF Pending
  <2>2. Pending(t) \subseteq {"tenant"} /\ "tenant" \notin Pending(t)
    BY <1>5, <2>1 DEF FlowInv, CleanupsOrdered, ProgressInv
  <2>3. QED
    BY <2>2
<1>7. test[t].cleanups = <<>>
  <2>1. Top(t) \notin Pending(t)
    BY <1>6
  <2>2. QED
    BY <2>1, CleanupsType
<1>8. d = <<"tenant">> /\ DOMAIN d = {1}
  BY <1>1, <1>7
<1> HIDE DEF d
<1>9. Pending(t)' = {"tenant"}
  BY <1>8 DEF Pending, d
<1>10. ProgressInv(t)'
  BY <1>1, <1>4, <1>5, <1>9 DEF FlowInv, ProgressInv, SettingUp, Spotless, TenantCleanups, Things
<1>11. CleanupsOrdered(t)'
  BY <1>4, <1>8, <1>9 DEF CleanupsOrdered, d
<1>12. QED
  BY <1>4, <1>6, <1>9, <1>10, <1>11 DEF FlowInv

\* A step that registers nothing was done.
LEMMA PassedFlow ==
    ASSUME TypeOK, NEW t \in Tests, FlowInv(t), UNCHANGED setup, SettingUp(t),
           test[t].at < Len(setup[t]), Step(t) \in Waits \cup {"tenant", "grant"}, Passed(t)
    PROVE  FlowInv(t)' /\ Done(t)' = Done(t) \cup {Step(t)} /\ Pending(t)' = Pending(t)
<1> DEFINE n == test[t].at + 1
<1>1. /\ test'[t].pc = "setup" /\ test'[t].at = n
      /\ test'[t].cleanups = test[t].cleanups
      /\ test'[t].failed = test[t].failed /\ test'[t].excused = test[t].excused
  BY PassedEffect DEF TypeOK, Typed
<1>2. 1 .. n = (1 .. test[t].at) \cup {n} /\ setup[t][n] = Step(t)
  BY SetupFacts DEF Step
<1> HIDE DEF n
<1>3. Done(t)' = Done(t) \cup {Step(t)}
  BY <1>1, <1>2 DEF Done
<1>4. Pending(t)' = Pending(t)
  BY <1>1 DEF Pending
<1>5. Step(t) \notin Things \ {"tenant"} /\ Step(t) \notin TenantCleanups
  BY DEF Waits, Things, TenantCleanups
<1>6. ProgressInv(t)'
  BY <1>1, <1>3, <1>4, <1>5 DEF FlowInv, ProgressInv, SettingUp, Spotless
<1>7. CleanupsOrdered(t)'
  BY <1>1, <1>3, <1>4 DEF FlowInv, CleanupsOrdered
<1>8. QED
  BY <1>3, <1>4, <1>6, <1>7 DEF FlowInv

\* Whatever leaves the cleanups alone, from one place of a test to another.
LEMMA MovedFlow ==
    ASSUME NEW t \in Tests, FlowInv(t), UNCHANGED setup,
           test'[t].at = test[t].at, test'[t].cleanups = test[t].cleanups,
           ProgressInv(t)'
    PROVE  FlowInv(t)' /\ Done(t)' = Done(t) /\ Pending(t)' = Pending(t)
<1>1. Done(t)' = Done(t) /\ Pending(t)' = Pending(t)
  BY DEF Done, Pending
<1>2. CleanupsOrdered(t)'
  BY <1>1 DEF FlowInv, CleanupsOrdered
<1>3. QED
  BY <1>1, <1>2 DEF FlowInv

LEMMA FatalFlow ==
    ASSUME TypeOK, NEW t \in Tests, FlowInv(t), UNCHANGED setup, SettingUp(t), Fatal(t)
    PROVE  FlowInv(t)' /\ Done(t)' = Done(t) /\ Pending(t)' = Pending(t)
<1>1. /\ test'[t].pc = "cleanup" /\ test'[t].at = test[t].at
      /\ test'[t].cleanups = test[t].cleanups
      /\ test'[t].failed = TRUE /\ test'[t].excused = test[t].excused
  BY FatalEffect DEF TypeOK, Typed
<1>2. ProgressInv(t)'
  BY <1>1 DEF ProgressInv, SettingUp
<1>3. QED
  BY <1>1, <1>2, MovedFlow

LEMMA PoppedFlow ==
    ASSUME TypeOK, NEW t \in Tests, FlowInv(t), UNCHANGED setup, ~SettingUp(t),
           test[t].cleanups # <<>>, NEW excuse \in BOOLEAN, test' = Popped(t, excuse)
    PROVE  /\ FlowInv(t)' /\ Done(t)' = Done(t) /\ Pending(t)' \subseteq Pending(t)
           /\ \A k \in Pending(t) : k \in Pending(t)' \/ k = Top(t)
           /\ \A i \in DOMAIN test'[t].cleanups :
                /\ i \in DOMAIN test[t].cleanups /\ i < Len(test[t].cleanups)
                /\ test'[t].cleanups[i] = test[t].cleanups[i]
<1> DEFINE c == test[t].cleanups
           d == test'[t].cleanups
           m == Len(c)
<1>1. /\ test'[t].pc = "cleanup" /\ test'[t].at = test[t].at
      /\ d = SubSeq(c, 1, Len(c) - 1)
      /\ test'[t].failed = test[t].failed
  BY PoppedEffect DEF TypeOK, Typed
<1>2. /\ DOMAIN d = 1 .. m - 1 /\ m \in Nat \ {0} /\ DOMAIN c = 1 .. m
      /\ d = <<>> <=> m = 1
      /\ \A i \in DOMAIN d : d[i] = c[i]
  <2>1. c \in Seq(Things) /\ c # <<>>
    BY CleanupsType
  <2>2. d = SubSeq(c, 1, Len(c) - 1)
    BY <1>1
  <2> HIDE DEF c, d
  <2>3. /\ DOMAIN d = 1 .. Len(c) - 1 /\ Len(c) \in Nat \ {0} /\ DOMAIN c = 1 .. Len(c)
        /\ Len(d) = Len(c) - 1 /\ (d = <<>> <=> Len(c) = 1)
        /\ \A i \in DOMAIN d : d[i] = c[i]
    BY <2>1, <2>2, PoppedFacts
  <2>4. QED
    BY <2>3
<1>3. Top(t) = c[m]
  BY DEF Top
<1> HIDE DEF c, d, m
<1>4. Done(t)' = Done(t)
  BY <1>1 DEF Done
<1>5. Pending(t)' = {d[i] : i \in 1 .. m - 1} /\ Pending(t) = {c[i] : i \in 1 .. m}
  BY <1>2 DEF Pending, c, d
<1>6. \A i \in 1 .. m - 1 : i \in 1 .. m /\ i < m /\ d[i] = c[i]
  BY <1>2
<1>7. Pending(t)' \subseteq Pending(t) /\ \A k \in Pending(t) : k \in Pending(t)' \/ k = Top(t)
  <2>1. \A i \in 1 .. m : i \in 1 .. m - 1 \/ i = m
    BY <1>2
  <2>2. QED
    BY <1>3, <1>5, <1>6, <2>1
<1>8. ProgressInv(t)'
  <2>1. Has(t, "emptied")' <=> Has(t, "emptied")
    BY DEF Has
  <2>2. Top(t) = "tenant" => d = <<>>
    BY <1>2, TenantIsLast DEF FlowInv, c, m
  <2>3. d # <<>> /\ "tenant" \in Pending(t) => "tenant" \in Pending(t)'
    BY <1>7, <2>2
  <2>4. QED
    BY <1>1, <2>1, <2>3 DEF FlowInv, ProgressInv, SettingUp, d
<1>9. CleanupsOrdered(t)'
  <2>1. \A i, j \in DOMAIN d : i < j =>
           \A a, b \in DOMAIN setup[t] : setup[t][a] = d[i] /\ setup[t][b] = d[j] => a < b
    BY <1>2, <1>6 DEF FlowInv, CleanupsOrdered, c
  <2>2. QED
    BY <1>4, <1>7, <2>1 DEF FlowInv, CleanupsOrdered, d
<1>10. QED
  BY <1>2, <1>4, <1>6, <1>7, <1>8, <1>9 DEF FlowInv, c, d, m

-----------------------------------------------------------------------------
(* Kubernetes and the driver.                                              *)

LEMMA SetupKept ==
    ASSUME NEW t \in Tests, UNCHANGED setup
    PROVE  (\A k : Has(t, k)' <=> Has(t, k)) /\ (Dynamic(t)' <=> Dynamic(t))
BY DEF Has, Dynamic

\* A test that does not fail is in its setup, or past all of it.
LEMMA SetupOver ==
    ASSUME TypeOK, NEW t \in Tests, FlowInv(t), ClusterInv(t), t \in calling, ~Has(t, "refused")
    PROVE  SettingUp(t) \/ test[t].failed
<1> SUFFICES ASSUME ~SettingUp(t), ~test[t].failed
             PROVE  FALSE
  OBVIOUS
<1>1. Dynamic(t) /\ "pvc" \in Done(t) /\ "bound" \notin Done(t)
  BY DEF ClusterInv
<1>2. Has(t, "bound")
  BY <1>1, SetupFacts, DoneFacts
<1>3. test[t].at = Len(setup[t])
  BY DEF FlowInv, ProgressInv
<1>4. QED
  BY <1>1, <1>2, <1>3, DoneFacts

\* The cluster leaves the test where it is.
ClusterKeeps(t) ==
    /\ TypeOK /\ TestInv(t) /\ UNCHANGED <<setup, test>>

LEMMA ClusterFrame ==
    ASSUME NEW t \in Tests, ClusterKeeps(t)
    PROVE  /\ Done(t)' = Done(t) /\ Pending(t)' = Pending(t)
           /\ \A k : Has(t, k)' <=> Has(t, k)
           /\ Dynamic(t)' <=> Dynamic(t)
           /\ SettingUp(t)' <=> SettingUp(t)
           /\ Spotless(t)' <=> Spotless(t)
           /\ Cleaning(t, "wait", "pvc")' <=> Cleaning(t, "wait", "pvc")
           /\ test'[t] = test[t]
           /\ FlowInv(t) /\ ClusterInv(t) /\ Intact(t) /\ Standing(t)
           /\ TeardownInv(t) /\ NeedsInv(t)
           /\ exists \in [Tests -> SUBSET (Things \cup {"mount"})]
           /\ marked \in [Tests -> SUBSET Things]
BY SetupKept DEF ClusterKeeps, TestInv, ThingsInv, TypeOK, Done, Pending, SettingUp, Spotless,
                 Cleaning, At, Top

LEMMA CallCreateVolumeKeeps ==
    ASSUME NEW t \in Tests, ClusterKeeps(t), CallCreateVolume(t)
    PROVE  ThingsInv(t)'
<1>1. UNCHANGED <<exists, marked>> /\ calling' = calling \cup {t}
  BY DEF CallCreateVolume
<1>2. Dynamic(t) /\ ~There(t, "pv") /\ There(t, "pvc") /\ There(t, "secret")
  BY DEF CallCreateVolume, Unmarked
<1>3. "pvc" \in Done(t) /\ "secret" \in Done(t) /\ "bound" \notin Done(t)
  BY <1>2, ClusterFrame DEF ClusterInv, There
<1>4. ClusterInv(t)'
  BY <1>1, <1>2, <1>3, ClusterFrame DEF ClusterInv, There
<1>5. Intact(t)' /\ Standing(t)'
  BY <1>1, ClusterFrame DEF Intact, Standing, There
<1>6. TeardownInv(t)'
  BY <1>1, ClusterFrame DEF TeardownInv, There
<1>7. NeedsInv(t)'
  BY <1>1, ClusterFrame DEF NeedsInv, There, Unmarked, LoginWorks
<1>8. QED
  BY <1>4, <1>5, <1>6, <1>7 DEF ThingsInv

LEMMA CreateVolumeKeeps ==
    ASSUME NEW t \in Tests, ClusterKeeps(t), CreateVolume(t)
    PROVE  ThingsInv(t)'
<1>1. /\ UNCHANGED marked /\ t \in calling /\ Dynamic(t) /\ ~There(t, "pv") /\ ~There(t, "mount")
      /\ {"pvc", "secret"} \subseteq Done(t) /\ "volume" \notin Done(t) /\ "pv" \notin Done(t)
  <2>1. Dynamic(t) /\ TypeOK
    BY ClusterFrame DEF CreateVolume, ClusterInv, ClusterKeeps
  <2>2. QED
    BY <2>1, ClusterFrame, DoneFacts DEF CreateVolume, ClusterInv, There
<1>2. CASE UNCHANGED exists /\ calling' = calling \ {t}
  <2>1. ClusterInv(t)'
    BY <1>1, <1>2, ClusterFrame DEF ClusterInv, There
  <2>2. Intact(t)' /\ Standing(t)'
    BY <1>1, <1>2, ClusterFrame DEF Intact, Standing, There
  <2>3. TeardownInv(t)'
    BY <1>1, <1>2, ClusterFrame DEF TeardownInv, There
  <2>4. NeedsInv(t)'
    BY <1>1, <1>2, ClusterFrame DEF NeedsInv, There, Unmarked, LoginWorks
  <2>5. QED
    BY <2>1, <2>2, <2>3, <2>4 DEF ThingsInv
<1>3. CASE /\ LoginWorks(t) /\ UNCHANGED calling
           /\ exists' = [exists EXCEPT ![t] = @ \cup {"volume"}]
  <2>1. exists'[t] = exists[t] \cup {"volume"}
    BY <1>3, ClusterFrame
  <2>2. ClusterInv(t)'
    BY <1>1, <1>3, <2>1, ClusterFrame DEF ClusterInv, There
  <2>3. Intact(t)' /\ Standing(t)'
    BY <1>1, <2>1, ClusterFrame DEF Intact, Standing, There
  <2>4. Spotless(t) /\ Has(t, "emptied") =>
           /\ test[t].pc # "tenant"
           /\ SettingUp(t) \/ "tenant" \in Pending(t)
    <3>1. Spotless(t) => "user" \in Pending(t)
      BY <1>3, ClusterFrame DEF TeardownInv, LoginWorks, There
    <3>2. Spotless(t) => test[t].cleanups # <<>>
      BY <3>1, CleanupsType DEF ClusterKeeps
    <3>3. test[t].pc = "tenant" =>
            test[t].cleanups # <<>> /\ Top(t) = "tenant" /\ CleanupsOrdered(t)
      BY ClusterFrame DEF FlowInv, ProgressInv
    <3>4. test[t].pc = "tenant" => Pending(t) = {"tenant"}
      BY <3>3, TenantIsLast DEF ClusterKeeps
    <3>5. Has(t, "emptied") /\ ~SettingUp(t) /\ ~test[t].failed /\ test[t].cleanups # <<>> =>
            "tenant" \in Pending(t)
      BY ClusterFrame DEF FlowInv, ProgressInv
    <3>6. QED
      BY <3>1, <3>2, <3>4, <3>5 DEF Spotless
  <2>5. TeardownInv(t)'
    BY <1>1, <2>1, <2>4, ClusterFrame DEF TeardownInv, There
  <2>6. NeedsInv(t)'
    BY <1>1, <2>1, ClusterFrame DEF NeedsInv, There
  <2>7. QED
    BY <2>2, <2>3, <2>5, <2>6 DEF ThingsInv
<1>4. CASE /\ Has(t, "refused") /\ calling' = calling \ {t}
           /\ exists' = [exists EXCEPT ![t] = @ \ {"volume"}]
  <2>1. exists'[t] = exists[t] \ {"volume"}
    BY <1>4, ClusterFrame
  <2>2. ClusterInv(t)'
    BY <1>1, <1>4, <2>1, ClusterFrame DEF ClusterInv, There
  <2>3. Intact(t)'
    BY <1>1, <2>1, ClusterFrame DEF Intact
  <2>4. Standing(t)'
    <3>1. \A i \in DOMAIN test[t].cleanups : test[t].cleanups[i] # "volume"
      BY <1>1, ClusterFrame DEF FlowInv, CleanupsOrdered, Pending
    <3>2. QED
      BY <1>1, <2>1, <3>1, ClusterFrame DEF Standing, There
  <2>5. TeardownInv(t)'
    BY <1>1, <2>1, ClusterFrame DEF TeardownInv, There
  <2>6. NeedsInv(t)'
    BY <1>1, <2>1, ClusterFrame DEF NeedsInv, There
  <2>7. QED
    BY <2>2, <2>3, <2>4, <2>5, <2>6 DEF ThingsInv
\* Only a claim that the test still waits for, or left when it failed, is bound.
<1>5. CASE /\ LoginWorks(t) /\ There(t, "volume") /\ ~Has(t, "refused") /\ calling' = calling \ {t}
           /\ exists' = [exists EXCEPT ![t] = @ \cup {"pv"}]
  <2>1. exists'[t] = exists[t] \cup {"pv"}
    BY <1>5, ClusterFrame
  <2>2. SettingUp(t) \/ test[t].failed
    BY <1>1, <1>5, SetupOver, ClusterFrame DEF ClusterKeeps
  <2>3. marked[t] = {} /\ There(t, "secret")
    BY <1>1, <2>2, ClusterFrame DEF Intact, There, Things
  <2>4. Spotless(t) => SettingUp(t) /\ "pvc" \in Pending(t)
    BY <1>1, <2>2, ClusterFrame DEF Spotless, FlowInv, ProgressInv, Things
  <2>5. ClusterInv(t)'
    BY <1>1, <1>5, <2>1, <2>3, ClusterFrame DEF ClusterInv, There
  <2>6. Intact(t)' /\ Standing(t)'
    BY <1>1, <2>1, ClusterFrame DEF Intact, Standing, There
  <2>7. TeardownInv(t)'
    BY <1>1, <2>1, <2>4, ClusterFrame DEF TeardownInv, There, SettingUp, Cleaning, At
  <2>8. NeedsInv(t)'
    <3>1. LoginWorks(t)'
      BY <1>5, <2>1, ClusterFrame DEF LoginWorks, There
    <3>2. QED
      BY <1>1, <1>5, <2>1, <2>3, <3>1, ClusterFrame DEF NeedsInv, There, Unmarked
  <2>9. QED
    BY <2>5, <2>6, <2>7, <2>8 DEF ThingsInv
<1>6. QED
  BY <1>2, <1>3, <1>4, <1>5 DEF CreateVolume

LEMMA ReclaimKeeps ==
    ASSUME NEW t \in Tests, ClusterKeeps(t), Reclaim(t)
    PROVE  ThingsInv(t)'
<1>1. /\ Dynamic(t) /\ There(t, "pv") /\ ~There(t, "pvc") /\ UNCHANGED calling
      /\ exists'[t] = exists[t] \ {"pv"} /\ marked'[t] = marked[t] \cup ({"volume"} \cap exists[t])
  BY ClusterFrame DEF Reclaim, MayReclaim
<1>2. /\ "pvc" \in Done(t) /\ ~Has(t, "refused") /\ "pv" \notin marked[t] /\ t \notin calling
      /\ ~There(t, "mount")
  BY <1>1, ClusterFrame DEF ClusterInv, There
<1>3. ~SettingUp(t) /\ ~test[t].failed
  BY <1>1, <1>2, ClusterFrame DEF Intact, There, Things
<1>4. "volume" \notin Done(t) /\ "pv" \notin Done(t)
  BY <1>1, DoneFacts DEF ClusterKeeps
<1>5. ClusterInv(t)'
  BY <1>1, <1>2, ClusterFrame DEF ClusterInv, There
<1>6. Intact(t)'
  BY <1>3, ClusterFrame DEF Intact
<1>7. Standing(t)'
  <2>1. \A i \in DOMAIN test[t].cleanups : test[t].cleanups[i] \notin {"volume", "pv"}
    BY <1>4, ClusterFrame DEF FlowInv, CleanupsOrdered, Pending
  <2>2. QED
    BY <1>1, <2>1, ClusterFrame DEF Standing, There
<1>8. TeardownInv(t)'
  BY <1>1, ClusterFrame DEF TeardownInv, There
<1>9. NeedsInv(t)'
  BY <1>1, <1>2, ClusterFrame DEF NeedsInv, There
<1>10. QED
  BY <1>5, <1>6, <1>7, <1>8, <1>9 DEF ThingsInv

LEMMA PodRunsKeeps ==
    ASSUME NEW t \in Tests, ClusterKeeps(t), PodRuns(t)
    PROVE  ThingsInv(t)'
<1>1. /\ exists'[t] = exists[t] \cup {"mount"} /\ UNCHANGED <<marked, calling>>
      /\ {"pod", "pvc", "pv", "secret"} \subseteq exists[t]
  BY ClusterFrame DEF PodRuns, Unmarked, Bound, There
<1>2. ClusterInv(t)'
  BY <1>1, ClusterFrame DEF ClusterInv, There
<1>3. Intact(t)' /\ Standing(t)'
  BY <1>1, ClusterFrame DEF Intact, Standing, There
<1>4. TeardownInv(t)'
  BY <1>1, ClusterFrame DEF TeardownInv, There
<1>5. NeedsInv(t)'
  BY <1>1, ClusterFrame DEF NeedsInv, There, Unmarked, LoginWorks
<1>6. QED
  BY <1>2, <1>3, <1>4, <1>5 DEF ThingsInv

LEMMA GoesKeeps ==
    ASSUME NEW t \in Tests, ClusterKeeps(t), NEW k \in Things, Goes(t, k)
    PROVE  ThingsInv(t)'
<1> DEFINE going == IF k = "pod" THEN {"pod", "mount"} ELSE {k}
<1>1. /\ exists'[t] = exists[t] \ going /\ marked'[t] = marked[t] \ {k} /\ UNCHANGED calling
      /\ k \in marked[t]
  BY ClusterFrame DEF Goes
<1>2. k \in {"pvc", "pod", "pv", "volume"} /\ k \in exists[t] /\ (k = "pv" => ~Dynamic(t))
  BY <1>1, ClusterFrame DEF ClusterInv, There
<1>3. k \in {"pvc", "pv"} => ~There(t, "pod") /\ ~There(t, "mount")
  <2>1. k = "pvc" => ~There(t, "pod")
    BY DEF Goes, Holders, There
  <2>2. k = "pv" => ~There(t, "pod")
    BY DEF Goes, Holders, There
  <2>3. QED
    BY <2>1, <2>2, ClusterFrame DEF ClusterInv, There
<1>4. ~SettingUp(t) /\ ~test[t].failed
  BY <1>1, ClusterFrame DEF Intact
<1>5. ClusterInv(t)'
  BY <1>1, <1>2, <1>3, ClusterFrame DEF ClusterInv, There
<1>6. Intact(t)'
  BY <1>4, ClusterFrame DEF Intact
<1>7. Standing(t)'
  <2>1. \A i \in DOMAIN test[t].cleanups : test[t].cleanups[i] # "mount"
    <3>1. \A i \in DOMAIN test[t].cleanups : test[t].cleanups[i] \in Things
      BY CleanupsType DEF ClusterKeeps
    <3>2. QED
      BY <3>1 DEF Things
  <2>2. QED
    BY <1>1, <2>1, ClusterFrame DEF Standing, There
<1>8. TeardownInv(t)'
  BY <1>1, ClusterFrame DEF TeardownInv, There
<1>9. NeedsInv(t)'
  BY <1>1, <1>2, <1>3, ClusterFrame DEF NeedsInv, There, Unmarked, LoginWorks
<1>10. QED
  BY <1>5, <1>6, <1>7, <1>8, <1>9 DEF ThingsInv

LEMMA ClusterStepKeeps ==
    ASSUME NEW t \in Tests, TypeOK, TestInv(t), ClusterStep(t)
    PROVE  TestInv(t)'
<1>1. ClusterKeeps(t)
  BY DEF ClusterStep, ClusterKeeps
<1>2. ThingsInv(t)'
  BY <1>1, CallCreateVolumeKeeps, CreateVolumeKeeps, ReclaimKeeps, PodRunsKeeps, GoesKeeps
     DEF ClusterStep
<1>3. FlowInv(t)'
  BY <1>1, SameFlow, ClusterFrame DEF ClusterStep
<1>4. QED
  BY <1>2, <1>3 DEF TestInv

-----------------------------------------------------------------------------
(* Setup.                                                                  *)

LEMMA RegisteredKeeps ==
    ASSUME TypeOK, NEW t \in Tests, TestInv(t), UNCHANGED <<setup, calling>>,
           SettingUp(t), test[t].at < Len(setup[t]), NEW k \in Things \ {"tenant"}, k = Step(t),
           Registered(t, k), exists'[t] = exists[t] \cup {k}, marked'[t] = marked[t]
    PROVE  TestInv(t)'
<1>1. /\ FlowInv(t) /\ ClusterInv(t) /\ Intact(t) /\ TeardownInv(t) /\ NeedsInv(t)
      /\ marked[t] = {} /\ Spotless(t) /\ Done(t) \cap Things \subseteq exists[t]
  BY DEF TestInv, ThingsInv, FlowInv, ProgressInv, Intact
<1>2. FlowInv(t)' /\ Done(t)' = Done(t) \cup {k} /\ Pending(t)' = Pending(t) \cup {k}
  BY <1>1, RegisteredFlow
<1>3. /\ test'[t].pc = "setup" /\ test'[t].cleanups # <<>>
      /\ test'[t].failed = test[t].failed /\ test'[t].excused = test[t].excused
  <2>1. test'[t].cleanups = Append(test[t].cleanups, k) /\ test[t].cleanups \in Seq(Things)
    BY RegisteredEffect, CleanupsType DEF TypeOK, Typed
  <2>2. test'[t].cleanups # <<>>
    BY <2>1
  <2>3. QED
    BY <2>2, RegisteredEffect DEF TypeOK, Typed
<1>4. (\A l : Has(t, l)' <=> Has(t, l)) /\ (Dynamic(t)' <=> Dynamic(t))
  BY SetupKept
<1>5. Has(t, k) /\ (Dynamic(t) => k # "pv" /\ k # "volume")
  BY SetupFacts DEF Step, Has, Dynamic
<1>6. k \notin Done(t) /\ k # "mount" /\ k # "bound"
  BY NextStepIsNew DEF Things
<1>7. ClusterInv(t)'
  BY <1>1, <1>2, <1>4, <1>5, <1>6 DEF ClusterInv, There
<1>8. Intact(t)' /\ Standing(t)'
  BY <1>1, <1>2, <1>3 DEF Intact, Standing, SettingUp
<1>9. TeardownInv(t)'
  <2>1. SettingUp(t)' /\ test'[t].pc = "setup"
    BY <1>3 DEF SettingUp
  <2>2. QED
    BY <1>1, <1>2, <1>3, <1>4, <1>5, <2>1 DEF TeardownInv, There, Cleaning, At
<1>10. NeedsInv(t)'
  <2>1. k = "pv" => "volume" \in exists[t]
    <3>1. k = "pv" => Has(t, "volume")
      BY <1>5, SetupFacts
    <3>2. k = "pv" => "volume" \in Done(t)
      BY <3>1, NeededIsDone DEF Precedes
    <3>3. QED
      BY <1>1, <3>2 DEF Things
  <2>2. LoginWorks(t) => LoginWorks(t)'
    BY <1>4 DEF LoginWorks, There
  <2>3. k = "pv" => ~Dynamic(t)
    BY <1>5
  <2>4. Unmarked(t, "volume")' <=> k = "volume" \/ Unmarked(t, "volume")
    BY <1>1 DEF Unmarked, There
  <2>5. QED
    BY <1>1, <1>3, <1>4, <1>6, <2>1, <2>2, <2>3, <2>4 DEF NeedsInv, There, Unmarked
<1>11. QED
  BY <1>2, <1>7, <1>8, <1>9, <1>10 DEF TestInv, ThingsInv

\* The cleanup of its tenant is registered.
LEMMA GivenBackKeeps ==
    ASSUME TypeOK, NEW t \in Tests, TestInv(t), UNCHANGED <<setup, exists, marked, calling>>,
           SettingUp(t), test[t].at < Len(setup[t]), Step(t) \in TenantCleanups,
           Registered(t, "tenant")
    PROVE  TestInv(t)'
<1>1. /\ FlowInv(t) /\ ClusterInv(t) /\ Intact(t) /\ TeardownInv(t) /\ NeedsInv(t)
      /\ marked[t] = {} /\ Spotless(t)
  BY DEF TestInv, ThingsInv, FlowInv, ProgressInv, Intact
<1>2. FlowInv(t)' /\ Done(t)' = Done(t) \cup {Step(t)}
      /\ Pending(t) = {} /\ Pending(t)' = {"tenant"}
  BY <1>1, GivenBackFlow
<1>3. /\ test'[t].pc = "setup"
      /\ test'[t].failed = test[t].failed /\ test'[t].excused = test[t].excused
  BY RegisteredEffect DEF TypeOK, Typed, Things
<1>4. (\A l : Has(t, l)' <=> Has(t, l)) /\ (Dynamic(t)' <=> Dynamic(t))
  BY SetupKept
<1>5. Step(t) \notin Things /\ Step(t) # "bound"
  BY DEF TenantCleanups, Things
<1>6. ClusterInv(t)'
  BY <1>1, <1>2, <1>4, <1>5 DEF ClusterInv, There
<1>7. Intact(t)' /\ Standing(t)'
  BY <1>1, <1>2, <1>3, <1>5 DEF Intact, Standing, SettingUp
<1>8. TeardownInv(t)'
  <2>1. SettingUp(t)' /\ test'[t].pc = "setup"
    BY <1>3 DEF SettingUp
  <2>2. QED
    BY <1>1, <1>2, <1>3, <1>4, <2>1 DEF TeardownInv, There, Cleaning, At
<1>9. NeedsInv(t)'
  BY <1>1, <1>3, <1>4 DEF NeedsInv, There, Unmarked, LoginWorks
<1>10. QED
  BY <1>2, <1>6, <1>7, <1>8, <1>9 DEF TestInv, ThingsInv

\* The grants, and then the tenants, are read.
LEMMA ReadKeeps ==
    ASSUME TypeOK, NEW t \in Tests, TestInv(t), UNCHANGED <<setup, exists, marked, calling>>,
           SettingUp(t), test[t].at < Len(setup[t]), Step(t) = "grant", SameCourse(t),
           test'[t].pc \in {"list", "update"}
    PROVE  TestInv(t)'
<1>1. /\ FlowInv(t) /\ ClusterInv(t) /\ Intact(t) /\ TeardownInv(t) /\ NeedsInv(t)
      /\ marked[t] = {} /\ Spotless(t)
  BY DEF TestInv, ThingsInv, FlowInv, ProgressInv, Intact
<1>2. FlowInv(t)' /\ Done(t)' = Done(t) /\ Pending(t)' = Pending(t) /\ Spotless(t)'
  <2>1. Done(t)' = Done(t) /\ Pending(t)' = Pending(t) /\ Spotless(t)' /\ Step(t)' = Step(t)
    BY <1>1 DEF Done, Pending, Spotless, SameCourse, Step
  <2>2. ProgressInv(t)'
    BY <1>1, <2>1 DEF FlowInv, ProgressInv, SettingUp, SameCourse
  <2>3. QED
    BY <1>1, <2>1, <2>2, MovedFlow DEF SameCourse
<1>3. (\A l : Has(t, l)' <=> Has(t, l)) /\ (Dynamic(t)' <=> Dynamic(t))
  BY SetupKept
<1>4. ClusterInv(t)'
  BY <1>1, <1>2, <1>3 DEF ClusterInv, There
<1>5. Intact(t)' /\ Standing(t)'
  BY <1>1, <1>2 DEF Intact, Standing, SettingUp
<1>6. TeardownInv(t)'
  <2>1. SettingUp(t)' /\ ~Cleaning(t, "wait", "pvc")'
        /\ test'[t].pc \notin {"policy", "reclaim", "tenant"}
    BY DEF Cleaning, At, SettingUp
  <2>2. QED
    BY <1>1, <1>2, <1>3, <2>1 DEF TeardownInv, There
<1>7. NeedsInv(t)'
  BY <1>1, <1>2, <1>3 DEF NeedsInv, There, Unmarked, LoginWorks, SameCourse
<1>8. QED
  BY <1>2, <1>4, <1>5, <1>6, <1>7 DEF TestInv, ThingsInv

\* A step that registers nothing: a claim is bound or stayed unbound, a pod runs, the tenant is
\* there, or is granted.
LEMMA PassedKeeps ==
    ASSUME TypeOK, NEW t \in Tests, TestInv(t), UNCHANGED <<setup, marked, calling>>,
           SettingUp(t), test[t].at < Len(setup[t]), Passed(t),
           Step(t) \in Waits \cup {"tenant", "grant"}, Step(t) = "bound" => Bound(t),
           exists'[t] = exists[t] \cup ({Step(t)} \cap {"tenant"})
    PROVE  TestInv(t)'
<1>1. /\ FlowInv(t) /\ ClusterInv(t) /\ Intact(t) /\ TeardownInv(t) /\ NeedsInv(t)
      /\ marked[t] = {}
  BY DEF TestInv, ThingsInv, Intact
<1>2. FlowInv(t)' /\ Done(t)' = Done(t) \cup {Step(t)} /\ Pending(t)' = Pending(t)
  BY <1>1, PassedFlow
<1>3. /\ test'[t].pc = "setup" /\ test'[t].cleanups = test[t].cleanups
      /\ (Spotless(t)' <=> Spotless(t)) /\ test'[t].excused = test[t].excused
  BY PassedEffect DEF TypeOK, Typed, Spotless
<1>4. (\A l : Has(t, l)' <=> Has(t, l)) /\ (Dynamic(t)' <=> Dynamic(t))
  BY SetupKept
<1>5. /\ Step(t) \in Things => Step(t) = "tenant"
      /\ \A k : k # "tenant" => (There(t, k)' <=> There(t, k))
      /\ There(t, "tenant") => There(t, "tenant")'
  BY DEF Waits, Things, There
<1>6. ClusterInv(t)'
  <2>1. Step(t) = "bound" /\ Dynamic(t) => "pvc" \in Done(t) /\ t \notin calling /\ There(t, "pv")
    BY <1>1 DEF ClusterInv, Bound, There
  <2>2. \A k \in exists'[t] : k \in exists[t] \/ k = "tenant"
    OBVIOUS
  <2>3. marked'[t] = {} /\ (t \in calling' <=> t \in calling)
    BY <1>1
  <2>4. /\ Dynamic(t)' /\ There(t, "volume")' => "pvc" \in Done(t)'
        /\ There(t, "mount")' => {"pod", "pvc", "pv"} \subseteq exists'[t]
    BY <1>1, <1>2, <1>4, <1>5 DEF ClusterInv
  <2>5. QED
    BY <1>1, <1>2, <1>4, <1>5, <2>1, <2>2, <2>3, <2>4 DEF ClusterInv
<1>7. Intact(t)' /\ Standing(t)'
  BY <1>1, <1>2, <1>3, <1>5 DEF Intact, Standing, SettingUp
<1>8. TeardownInv(t)'
  <2>1. SettingUp(t)' /\ test'[t].pc = "setup" /\ ~Cleaning(t, "wait", "pvc")'
    BY <1>3 DEF SettingUp, Cleaning, At
  <2>2. \A k \in exists'[t] : k \in exists[t] \/ k = "tenant"
    OBVIOUS
  <2>3. QED
    BY <1>1, <1>2, <1>3, <1>4, <1>5, <2>1, <2>2 DEF TeardownInv
<1>9. NeedsInv(t)'
  BY <1>1, <1>3, <1>4, <1>5 DEF NeedsInv, Unmarked, LoginWorks
<1>10. QED
  BY <1>2, <1>6, <1>7, <1>8, <1>9 DEF TestInv, ThingsInv

\* A test that fails leaves everything.
LEMMA FatalKeeps ==
    ASSUME TypeOK, NEW t \in Tests, TestInv(t), UNCHANGED <<setup, exists, marked, calling>>,
           SettingUp(t), Fatal(t)
    PROVE  TestInv(t)'
<1>1. /\ FlowInv(t) /\ ClusterInv(t) /\ Intact(t) /\ NeedsInv(t)
  BY DEF TestInv, ThingsInv
<1>2. FlowInv(t)' /\ Done(t)' = Done(t) /\ Pending(t)' = Pending(t)
  BY <1>1, FatalFlow
<1>3. test'[t].failed = TRUE /\ test'[t].excused = test[t].excused
  BY FatalEffect DEF TypeOK, Typed
<1>4. (\A l : Has(t, l)' <=> Has(t, l)) /\ (Dynamic(t)' <=> Dynamic(t))
  BY SetupKept
<1>5. ClusterInv(t)'
  BY <1>1, <1>2, <1>4 DEF ClusterInv, There
<1>6. Intact(t)' /\ Standing(t)' /\ TeardownInv(t)'
  BY <1>1, <1>2, <1>3 DEF Intact, Standing, TeardownInv, Spotless
<1>7. NeedsInv(t)'
  BY <1>1, <1>3, <1>4 DEF NeedsInv, There, Unmarked, LoginWorks
<1>8. QED
  BY <1>2, <1>5, <1>6, <1>7 DEF TestInv, ThingsInv

LEMMA BodyEndsKeeps ==
    ASSUME TypeOK, NEW t \in Tests, TestInv(t), UNCHANGED <<setup, exists, marked, calling>>,
           BodyEnds(t)
    PROVE  TestInv(t)'
<1>1. /\ FlowInv(t) /\ ClusterInv(t) /\ Intact(t) /\ TeardownInv(t) /\ NeedsInv(t)
      /\ SettingUp(t) /\ test[t].pc = "setup" /\ test[t].at = Len(setup[t])
  BY DEF TestInv, ThingsInv, BodyEnds, SettingUp, At
<1>2. SameCourse(t) /\ test'[t].pc = "cleanup"
  BY GotoEffect DEF BodyEnds, TypeOK, Typed, Phases, SameCourse
<1>3. FlowInv(t)' /\ Done(t)' = Done(t) /\ Pending(t)' = Pending(t)
  <2>1. Has(t, "emptied") => "tenant" \in Pending(t)
    <3>1. Has(t, "emptied") => "emptied" \in Done(t) \cap TenantCleanups
      BY <1>1, DoneFacts DEF TenantCleanups
    <3>2. QED
      BY <1>1, <3>1 DEF FlowInv, ProgressInv
  <2>2. Pending(t)' = Pending(t) /\ (Has(t, "emptied")' <=> Has(t, "emptied"))
    BY <1>2 DEF Pending, Has, SameCourse
  <2>3. ProgressInv(t)'
    BY <1>1, <1>2, <2>1, <2>2 DEF ProgressInv, SettingUp, SameCourse
  <2>4. QED
    BY <1>1, <1>2, <2>3, MovedFlow DEF SameCourse
<1>4. (\A l : Has(t, l)' <=> Has(t, l)) /\ (Dynamic(t)' <=> Dynamic(t))
  BY SetupKept
<1>5. Spotless(t) /\ Spotless(t)'
  BY <1>1, <1>2 DEF FlowInv, ProgressInv, Spotless, SameCourse
<1>6. ClusterInv(t)'
  BY <1>1, <1>3, <1>4 DEF ClusterInv, There
<1>7. Intact(t)'
  BY <1>1, <1>3 DEF Intact
<1>8. Standing(t)'
  <2>1. \A i \in DOMAIN test[t].cleanups : test[t].cleanups[i] \in Done(t) \cap Things
    BY <1>1, CleanupsType DEF FlowInv, CleanupsOrdered, Pending
  <2>2. QED
    BY <1>1, <1>2, <2>1 DEF Standing, Intact, SameCourse, There
<1>9. TeardownInv(t)'
  <2>1. Has(t, "emptied") => "tenant" \in Pending(t)
    <3>1. Has(t, "emptied") => "emptied" \in Done(t) \cap TenantCleanups
      BY <1>1, DoneFacts DEF TenantCleanups
    <3>2. QED
      BY <1>1, <3>1 DEF FlowInv, ProgressInv
  <2>2. QED
    BY <1>1, <1>2, <1>3, <1>4, <1>5, <2>1 DEF TeardownInv, There, Cleaning, At, SameCourse
<1>10. NeedsInv(t)'
  BY <1>1, <1>2, <1>4 DEF NeedsInv, There, Unmarked, LoginWorks, SameCourse
<1>11. QED
  BY <1>3, <1>6, <1>7, <1>8, <1>9, <1>10 DEF TestInv, ThingsInv

-----------------------------------------------------------------------------
(* Teardown.                                                               *)

\* Every thing is taken down once.
LEMMA TopIsOnce ==
    ASSUME TypeOK, NEW t \in Tests, CleanupsOrdered(t), NEW i \in DOMAIN test[t].cleanups,
           i < Len(test[t].cleanups)
    PROVE  test[t].cleanups[i] # Top(t)
<1> DEFINE c == test[t].cleanups
<1> SUFFICES ASSUME c[i] = Top(t)
             PROVE  FALSE
  OBVIOUS
<1>1. Len(c) \in DOMAIN c /\ Top(t) = c[Len(c)] /\ c[i] \in Pending(t)
  BY CleanupsType DEF Top, Pending
<1>2. PICK a \in DOMAIN setup[t] : setup[t][a] = c[i]
  BY <1>1, DoneFacts DEF CleanupsOrdered, Has
<1>3. a < a /\ a \in Nat
  BY <1>1, <1>2, SetupFacts DEF CleanupsOrdered
<1>4. QED
  BY <1>3

\* A test that takes down what it made.
TakingDown(t) ==
    /\ TypeOK /\ TestInv(t) /\ ~SettingUp(t) /\ ~test[t].failed /\ UNCHANGED <<setup, calling>>

LEMMA TakingDownFacts ==
    ASSUME NEW t \in Tests, TakingDown(t)
    PROVE  /\ TypeOK /\ UNCHANGED setup /\ (t \in calling' <=> t \in calling)
           /\ FlowInv(t) /\ ProgressInv(t) /\ CleanupsOrdered(t)
           /\ ClusterInv(t) /\ Standing(t) /\ TeardownInv(t) /\ NeedsInv(t)
           /\ ~test[t].failed /\ ~SettingUp(t) /\ (Spotless(t) <=> ~test[t].excused)
           /\ \A k : Has(t, k)' <=> Has(t, k)
           /\ Dynamic(t)' <=> Dynamic(t)
           /\ Pending(t) \subseteq Done(t)
           /\ Dynamic(t) => "volume" \notin Done(t) /\ "pv" \notin Done(t)
BY SetupKept, DoneFacts
   DEF TakingDown, TestInv, FlowInv, ThingsInv, Spotless, CleanupsOrdered

\* What the thing on top was for is gone.
LEMMA NothingNeedsTop ==
    ASSUME NEW t \in Tests, TakingDown(t), test[t].cleanups # <<>>, ~test[t].excused
    PROVE  /\ Top(t) \in {"user", "key", "secret", "tenant"} /\ Dynamic(t) => ~There(t, "pv")
           /\ Top(t) \in {"volume", "tenant"} => ~There(t, "pv") \/ Dynamic(t)
           /\ Top(t) \in {"secret", "tenant"} => ~There(t, "mount")
<1>0. Top(t) = "tenant" => Pending(t) = {"tenant"}
  BY TakingDownFacts, TenantIsLast
<1>1. Top(t) \in {"user", "key", "secret", "tenant"} => "pvc" \notin Pending(t)
  <2>1. Top(t) \in {"user", "key", "secret"} => <<Top(t), "pvc">> \in Precedes
    BY DEF Precedes
  <2>2. QED
    BY <1>0, <2>1, TakingDownFacts, TopIsLast
<1>2. Top(t) \in {"volume", "tenant"} => "pv" \notin Pending(t)
  BY TakingDownFacts, TopIsLast, TenantIsLast DEF Precedes
<1>3. Top(t) \in {"secret", "tenant"} => "pod" \notin Pending(t)
  <2>1. Top(t) = "secret" => <<Top(t), "pod">> \in Precedes
    BY DEF Precedes
  <2>2. QED
    BY <1>0, <2>1, TakingDownFacts, TopIsLast
<1>4. Dynamic(t) /\ There(t, "pv") => "pvc" \in Pending(t)
  BY TakingDownFacts DEF TeardownInv
<1>5. ~Dynamic(t) /\ There(t, "pv") => "pv" \in Pending(t)
  BY TakingDownFacts DEF TeardownInv, There, SettingUp
<1>6. There(t, "mount") => "pod" \in Pending(t)
  <2>1. There(t, "mount") => "pod" \in exists[t]
    BY TakingDownFacts DEF ClusterInv
  <2>2. "pod" \in exists[t] => "pod" \in Pending(t)
    BY TakingDownFacts DEF TeardownInv
  <2>3. QED
    BY <2>1, <2>2
<1>7. QED
  BY <1>1, <1>2, <1>3, <1>4, <1>5, <1>6

\* A step of the teardown is done; what it had to take down may be gone with it.
LEMMA PoppedKeeps ==
    ASSUME NEW t \in Tests, TakingDown(t), test[t].cleanups # <<>>,
           NEW excuse \in BOOLEAN, test' = Popped(t, excuse),
           NEW gone, gone \subseteq {Top(t)} \cap {"user", "key", "volume", "tenant"},
           exists'[t] = exists[t] \ gone, marked'[t] = marked[t], gone \cap marked[t] = {},
           ~test[t].excused /\ ~excuse =>
                /\ Top(t) \notin exists'[t] \/ (Top(t) = "tenant" /\ ~Has(t, "emptied"))
                /\ Top(t) = "pvc" /\ Dynamic(t) => ~There(t, "pv")
                /\ Top(t) = "tenant" => test[t].pc = "tenant"
    PROVE  TestInv(t)'
<1>1. /\ FlowInv(t)' /\ Done(t)' = Done(t) /\ Pending(t)' \subseteq Pending(t)
      /\ \A k \in Pending(t) : k \in Pending(t)' \/ k = Top(t)
      /\ \A i \in DOMAIN test'[t].cleanups :
           /\ i \in DOMAIN test[t].cleanups /\ i < Len(test[t].cleanups)
           /\ test'[t].cleanups[i] = test[t].cleanups[i]
  BY TakingDownFacts, PoppedFlow
<1>2. /\ test'[t].pc = "cleanup" /\ ~test'[t].failed /\ ~SettingUp(t)'
      /\ (test'[t].excused <=> test[t].excused \/ excuse)
  BY TakingDownFacts, PoppedEffect DEF TypeOK, Typed, SettingUp
<1>3. ClusterInv(t)'
  BY <1>1, TakingDownFacts DEF ClusterInv, There
<1>4. Intact(t)'
  BY <1>2 DEF Intact
<1>5. Standing(t)'
  <2>1. \A i \in DOMAIN test'[t].cleanups :
           /\ There(t, test[t].cleanups[i]) /\ test[t].cleanups[i] \notin marked[t]
           /\ test[t].cleanups[i] # Top(t)
    BY <1>1, TakingDownFacts, TopIsOnce DEF Standing
  <2>2. QED
    BY <1>1, <2>1 DEF Standing, There
<1>6. TeardownInv(t)'
  <2> SUFFICES ASSUME Spotless(t)'
               PROVE  /\ \A k \in exists'[t] :
                           \/ k \in Pending(t)' \/ k \in {"mount", "tenant"}
                           \/ Dynamic(t) /\ k \in {"pv", "volume"}
                      /\ Dynamic(t) /\ There(t, "pv")' => "pvc" \in Pending(t)'
                      /\ Has(t, "emptied")
                           /\ (There(t, "tenant")' \/ (Dynamic(t) /\ There(t, "volume")')) =>
                                "tenant" \in Pending(t)'
    BY <1>2, TakingDownFacts DEF TeardownInv, Cleaning, At
  <2>1. ~test[t].excused /\ ~excuse
    BY <1>2 DEF Spotless
  <2>2. \A k \in exists[t] :
           \/ k \in Pending(t) \/ k \in {"mount", "tenant"}
           \/ (Dynamic(t) /\ k \in {"pv", "volume"})
    BY <2>1, TakingDownFacts DEF TeardownInv
  <2>3. Dynamic(t) /\ There(t, "pv")' => "pvc" \in Pending(t)'
    BY <1>1, <2>1, TakingDownFacts DEF TeardownInv, There
  <2>4. Has(t, "emptied") /\ (There(t, "tenant")' \/ (Dynamic(t) /\ There(t, "volume")')) =>
           "tenant" \in Pending(t)'
    BY <1>1, <2>1, TakingDownFacts DEF TeardownInv, There
  <2>5. QED
    BY <1>1, <2>1, <2>2, <2>3, <2>4
<1>7. NeedsInv(t)'
  <2> SUFFICES ASSUME ~test'[t].excused
               PROVE  /\ Dynamic(t) /\ There(t, "pv")' => LoginWorks(t)' /\ There(t, "secret")'
                      /\ There(t, "pv")' => Unmarked(t, "volume")'
                      /\ There(t, "mount")' => There(t, "secret")'
    BY TakingDownFacts DEF NeedsInv
  <2>1. ~test[t].excused
    BY <1>2
  <2>2. /\ Dynamic(t) /\ There(t, "pv") => LoginWorks(t) /\ There(t, "secret")
        /\ There(t, "pv") => Unmarked(t, "volume")
        /\ There(t, "mount") => There(t, "secret")
    BY <2>1, TakingDownFacts DEF NeedsInv
  <2>3. /\ Dynamic(t) /\ There(t, "pv") => gone \cap {"user", "key"} = {}
        /\ There(t, "pv") => "volume" \notin gone
    <3>1. There(t, "pv") /\ Dynamic(t) => Top(t) # "user" /\ Top(t) # "key"
      BY <2>1, NothingNeedsTop
    <3>2. There(t, "pv") /\ ~Dynamic(t) => Top(t) # "volume"
      BY <2>1, NothingNeedsTop
    <3>3. Dynamic(t) => Top(t) # "volume"
      BY TakingDownFacts, CleanupsType
    <3>4. QED
      BY <3>1, <3>2, <3>3
  <2>4. \A k : There(t, k)' <=> There(t, k) /\ k \notin gone
    BY DEF There
  <2>5. LoginWorks(t) /\ gone \cap {"user", "key"} = {} => LoginWorks(t)'
    BY <2>4, TakingDownFacts DEF LoginWorks
  <2>6. "secret" \notin gone
    OBVIOUS
  <2>7. Unmarked(t, "volume") /\ "volume" \notin gone => Unmarked(t, "volume")'
    BY <2>4 DEF Unmarked
  <2>8. QED
    BY <2>2, <2>3, <2>4, <2>5, <2>6, <2>7
<1>8. QED
  BY <1>1, <1>3, <1>4, <1>5, <1>6, <1>7 DEF TestInv, ThingsInv

\* A test that failed takes nothing down.
LEMMA SkippedKeeps ==
    ASSUME TypeOK, NEW t \in Tests, TestInv(t), UNCHANGED <<setup, exists, marked, calling>>,
           At(t, "cleanup"), test[t].failed, test[t].cleanups # <<>>, test' = Popped(t, FALSE)
    PROVE  TestInv(t)'
<1>1. FlowInv(t) /\ ClusterInv(t) /\ Intact(t) /\ NeedsInv(t) /\ ~SettingUp(t)
  BY DEF TestInv, ThingsInv, SettingUp, At
<1>2. FlowInv(t)' /\ Done(t)' = Done(t)
  BY <1>1, PoppedFlow
<1>3. test'[t].failed /\ (test'[t].excused <=> test[t].excused)
  BY PoppedEffect DEF TypeOK, Typed
<1>4. (\A l : Has(t, l)' <=> Has(t, l)) /\ (Dynamic(t)' <=> Dynamic(t))
  BY SetupKept
<1>5. ClusterInv(t)'
  BY <1>1, <1>2, <1>4 DEF ClusterInv, There
<1>6. Intact(t)' /\ Standing(t)' /\ TeardownInv(t)'
  BY <1>1, <1>2, <1>3 DEF Intact, Standing, TeardownInv, Spotless
<1>7. NeedsInv(t)'
  BY <1>1, <1>3, <1>4 DEF NeedsInv, There, Unmarked, LoginWorks
<1>8. QED
  BY <1>2, <1>5, <1>6, <1>7 DEF TestInv, ThingsInv

\* From one step of the teardown to the next.
LEMMA MovedKeeps ==
    ASSUME NEW t \in Tests, TakingDown(t), UNCHANGED <<exists, marked>>, SameCourse(t),
           ProgressInv(t)', test'[t].pc \in {"delete", "tenant", "policy", "reclaim", "ended"},
           test'[t].pc = "delete" => test[t].pc = "cleanup",
           test'[t].pc = "tenant" => ~Has(t, "emptied"),
           test'[t].pc \in {"policy", "reclaim"} /\ ~test[t].excused => ~There(t, "pvc")
    PROVE  TestInv(t)'
<1>1. FlowInv(t)' /\ Done(t)' = Done(t) /\ Pending(t)' = Pending(t)
  BY TakingDownFacts, MovedFlow DEF SameCourse
<1>2. (Spotless(t)' <=> Spotless(t)) /\ ~SettingUp(t)' /\ ~test'[t].failed
  BY TakingDownFacts DEF Spotless, SameCourse, SettingUp
<1>3. ClusterInv(t)'
  BY <1>1, TakingDownFacts DEF ClusterInv, There
<1>4. Intact(t)'
  BY <1>2 DEF Intact
<1>5. Standing(t)'
  BY TakingDownFacts DEF Standing, There, SameCourse
<1>6. TeardownInv(t)'
  <2>1. \A k \in exists[t] : Spotless(t) =>
           \/ k \in Pending(t) \/ k \in {"mount", "tenant"}
           \/ (Dynamic(t) /\ k \in {"pv", "volume"})
    BY TakingDownFacts DEF TeardownInv
  <2>2. ~Cleaning(t, "wait", "pvc")'
    BY DEF Cleaning, At
  <2>3. QED
    BY <1>1, <1>2, <2>1, <2>2, TakingDownFacts DEF TeardownInv, There, SameCourse
<1>7. NeedsInv(t)'
  BY TakingDownFacts DEF NeedsInv, There, Unmarked, LoginWorks, SameCourse
<1>8. QED
  BY <1>1, <1>3, <1>4, <1>5, <1>6, <1>7 DEF TestInv, ThingsInv

LEMMA RunCleanupKeeps ==
    ASSUME TypeOK, NEW t \in Tests, TestInv(t), UNCHANGED calling, RunCleanup(t)
    PROVE  TestInv(t)'
<1>1. At(t, "cleanup") /\ UNCHANGED <<setup, exists, marked>> /\ ~SettingUp(t)
  BY DEF RunCleanup, SettingUp, At
<1>2. CASE test[t].failed /\ test[t].cleanups # <<>>
  BY <1>1, <1>2, SkippedKeeps DEF RunCleanup, CleanupUnlessFailed
<1>3. CASE test[t].cleanups # <<>> /\ ~test[t].failed
  <2>1. TakingDown(t)
    BY <1>1, <1>3 DEF TakingDown
  <2>0. PICK pc \in {"delete", "tenant"} :
          Goto(t, pc) /\ (pc = "tenant" => Top(t) = "tenant" /\ Has(t, "deleted"))
    BY <1>3 DEF RunCleanup, CleanupUnlessFailed
  <2>2. SameCourse(t) /\ test'[t].pc = pc
    BY <2>0, GotoEffect DEF TypeOK, Typed, Phases, SameCourse
  <2>5. pc = "tenant" => ~Has(t, "emptied") /\ Top(t)' = "tenant"
    BY <2>0, <2>2, SetupFacts DEF SameCourse, Top
  <2>3. ProgressInv(t)'
    BY <1>3, <2>1, <2>2, <2>5, TakingDownFacts DEF ProgressInv, SettingUp, SameCourse, Pending
  <2>4. QED
    BY <1>1, <2>1, <2>2, <2>3, <2>5, MovedKeeps DEF At
<1>4. CASE test[t].cleanups = <<>>
  <2>1. SameCourse(t) /\ test'[t].pc = "ended"
    BY <1>4, GotoEffect DEF RunCleanup, TypeOK, Typed, Phases, SameCourse
  <2>2. FlowInv(t) /\ ProgressInv(t)
    BY DEF TestInv, FlowInv
  <2>3. ProgressInv(t)'
    BY <1>1, <1>4, <2>1, <2>2 DEF ProgressInv, SettingUp, SameCourse
  <2>4. CASE ~test[t].failed
    <3>1. TakingDown(t)
      BY <1>1, <2>4 DEF TakingDown
    <3>2. QED
      BY <1>1, <2>1, <2>3, <3>1, MovedKeeps
  <2>5. CASE test[t].failed
    <3>1. /\ FlowInv(t) /\ ClusterInv(t) /\ Intact(t) /\ NeedsInv(t)
      BY DEF TestInv, ThingsInv
    <3>2. FlowInv(t)' /\ Done(t)' = Done(t)
      BY <1>1, <2>1, <2>2, <2>3, MovedFlow DEF SameCourse
    <3>3. (\A l : Has(t, l)' <=> Has(t, l)) /\ (Dynamic(t)' <=> Dynamic(t))
      BY <1>1, SetupKept
    <3>4. ClusterInv(t)'
      BY <1>1, <3>1, <3>2, <3>3 DEF ClusterInv, There
    <3>5. Intact(t)' /\ Standing(t)' /\ TeardownInv(t)'
      BY <1>1, <2>1, <2>5, <3>1, <3>2
         DEF Intact, Standing, TeardownInv, Spotless, SameCourse
    <3>6. NeedsInv(t)'
      BY <1>1, <2>1, <3>1, <3>3 DEF NeedsInv, There, Unmarked, LoginWorks, SameCourse
    <3>7. QED
      BY <3>2, <3>4, <3>5, <3>6 DEF TestInv, ThingsInv
  <2>6. QED
    BY <2>4, <2>5
<1>5. QED
  BY <1>2, <1>3, <1>4

\* A deletion was asked for; an object that nothing protects is gone, another one marked.
LEMMA DeletedKeeps ==
    ASSUME NEW t \in Tests, TakingDown(t), At(t, "delete"),
           Top(t) \in {"pvc", "pod", "pv", "secret", "class"},
           test'[t].pc = "wait", test'[t].at = test[t].at,
           test'[t].cleanups = test[t].cleanups, test'[t].failed = test[t].failed,
           ~test'[t].excused =>
                ~test[t].excused /\ (Top(t) = "pvc" => (test'[t].boundPv <=> Bound(t))),
           NEW gone \in SUBSET ({Top(t)} \cap {"secret", "class"}),
           NEW more \in SUBSET ({Top(t)} \cap exists[t] \cap {"pvc", "pod", "pv"}),
           exists'[t] = exists[t] \ gone, marked'[t] = marked[t] \cup more
    PROVE  TestInv(t)'
<1>1. /\ test[t].cleanups # <<>> /\ Top(t) \in Pending(t)
      /\ Len(test[t].cleanups) \in DOMAIN test[t].cleanups
  <2>1. test[t].cleanups # <<>>
    BY TakingDownFacts DEF ProgressInv, At
  <2>2. QED
    BY <2>1, TakingDownFacts, CleanupsType
<1>2. FlowInv(t)' /\ Done(t)' = Done(t) /\ Pending(t)' = Pending(t) /\ Top(t)' = Top(t)
  <2>1. Top(t)' = Top(t)
    BY DEF Top
  <2>2. ProgressInv(t)'
    BY <1>1, <2>1, TakingDownFacts DEF ProgressInv, SettingUp, Pending
  <2>3. QED
    BY <2>1, <2>2, TakingDownFacts, MovedFlow
<1>3. ~SettingUp(t)' /\ ~test'[t].failed /\ (Spotless(t)' => ~test[t].excused /\ ~test'[t].excused)
  BY TakingDownFacts DEF SettingUp, Spotless
<1>4. "pv" \in more => ~Dynamic(t)
  BY <1>1, TakingDownFacts
<1>5. ClusterInv(t)'
  BY <1>2, <1>4, TakingDownFacts DEF ClusterInv, There
<1>6. Intact(t)'
  BY <1>3 DEF Intact
<1>7. Standing(t)'
  <2>1. \A i \in DOMAIN test[t].cleanups : i < Len(test[t].cleanups) =>
           There(t, test[t].cleanups[i]) /\ test[t].cleanups[i] \notin marked[t] \cup {Top(t)}
    BY TakingDownFacts, TopIsOnce DEF Standing
  <2>2. QED
    BY <2>1 DEF Standing, There
<1>8. TeardownInv(t)'
  <2>1. \A k \in exists[t] : Spotless(t)' =>
           \/ k \in Pending(t) \/ k \in {"mount", "tenant"}
           \/ (Dynamic(t) /\ k \in {"pv", "volume"})
    BY <1>3, TakingDownFacts DEF TeardownInv
  <2>2. Spotless(t)' /\ Top(t) = "pvc" /\ There(t, "pv") => test'[t].boundPv
    <3>1. Top(t) = "pvc" => There(t, "pvc")
      BY <1>1, TakingDownFacts DEF Standing, Top, At
    <3>2. QED
      BY <1>3, <3>1 DEF Bound
  <2>3. There(t, "pv")' => There(t, "pv")
    BY DEF There
  <2>4. Spotless(t)' /\ Has(t, "emptied")
           /\ (There(t, "tenant")' \/ (Dynamic(t) /\ There(t, "volume")')) =>
              "tenant" \in Pending(t)
    BY <1>3, TakingDownFacts DEF TeardownInv, There
  <2>5. Cleaning(t, "wait", "pvc")' => Top(t) = "pvc"
    BY <1>2 DEF Cleaning
  <2>6. Spotless(t)' => Spotless(t)
    BY <1>3, TakingDownFacts
  <2>7. Spotless(t)' /\ Dynamic(t) /\ There(t, "pv") => "pvc" \in Pending(t)
    BY <2>6, TakingDownFacts DEF TeardownInv
  <2>8. QED
    BY <1>1, <1>2, <2>1, <2>2, <2>3, <2>4, <2>5, <2>7, TakingDownFacts DEF TeardownInv
<1>9. NeedsInv(t)'
  <2> SUFFICES ASSUME ~test'[t].excused
               PROVE  /\ Dynamic(t) /\ There(t, "pv")' => LoginWorks(t)' /\ There(t, "secret")'
                      /\ There(t, "pv")' => Unmarked(t, "volume")'
                      /\ There(t, "mount")' => There(t, "secret")'
    BY TakingDownFacts DEF NeedsInv
  <2>1. /\ Dynamic(t) /\ There(t, "pv") => LoginWorks(t) /\ There(t, "secret")
        /\ There(t, "pv") => Unmarked(t, "volume")
        /\ There(t, "mount") => There(t, "secret")
    BY TakingDownFacts DEF NeedsInv
  <2>2. \A k : There(t, k)' <=> There(t, k) /\ k \notin gone
    BY DEF There
  <2>3. LoginWorks(t) => LoginWorks(t)'
    BY <2>2, TakingDownFacts DEF LoginWorks
  <2>4. Unmarked(t, "volume") => Unmarked(t, "volume")'
    BY <2>2 DEF Unmarked
  <2>5. "secret" \in gone => ~There(t, "mount") /\ (Dynamic(t) => ~There(t, "pv"))
    BY <1>1, NothingNeedsTop
  <2>6. QED
    BY <2>1, <2>2, <2>3, <2>4, <2>5
<1>10. QED
  BY <1>2, <1>5, <1>6, <1>7, <1>8, <1>9 DEF TestInv, ThingsInv

Deleted == {"pvc", "pod", "pv", "secret", "class"}

\* What a test that asked for a deletion remembers.
Asked(t, excuse) ==
    /\ Typed' /\ OthersSame(t)
    /\ test'[t].pc = "wait" /\ test'[t].at = test[t].at
    /\ test'[t].cleanups = test[t].cleanups /\ test'[t].failed = test[t].failed
    /\ test'[t].seen = test[t].seen /\ test'[t].existing = test[t].existing
    /\ ~test'[t].excused =>
         ~excuse /\ ~test[t].excused /\ (Top(t) = "pvc" => (test'[t].boundPv <=> Bound(t)))

LEMMA AskedEffect ==
    ASSUME Typed, NEW t \in Tests, At(t, "delete")
    PROVE  /\ test' = (IF Top(t) = "pvc" THEN ReadClaim(t, FALSE)
                       ELSE [test EXCEPT ![t].pc = "wait"])
                => Asked(t, FALSE)
           /\ test' = [IF Top(t) = "pvc" THEN ReadClaim(t, FALSE) ELSE test
                          EXCEPT ![t].pc = "wait", ![t].excused = TRUE]
                => Asked(t, TRUE)
           /\ test' = [ReadClaim(t, TRUE) EXCEPT ![t].excused = TRUE] => Asked(t, TRUE)
<1> DEFINE r(bound, excuse) ==
             [test EXCEPT ![t].pc = "wait", ![t].boundPv = bound, ![t].excused = excuse]
<1>1. test[t].boundPv \in BOOLEAN /\ test[t].excused \in BOOLEAN /\ Bound(t) \in BOOLEAN
      /\ test \in [Tests -> TestRecord] /\ test[t] \in TestRecord
  BY DEF Typed, TestRecord, Bound, There
<1>2. /\ ReadClaim(t, FALSE) = r(Bound(t), test[t].excused)
      /\ [test EXCEPT ![t].pc = "wait"] = r(test[t].boundPv, test[t].excused)
  BY <1>1 DEF ReadClaim, TestRecord
<1>3. /\ [ReadClaim(t, FALSE) EXCEPT ![t].pc = "wait", ![t].excused = TRUE] = r(Bound(t), TRUE)
      /\ [test EXCEPT ![t].pc = "wait", ![t].excused = TRUE] = r(test[t].boundPv, TRUE)
      /\ [ReadClaim(t, TRUE) EXCEPT ![t].excused = TRUE] = r(FALSE, TRUE)
  BY <1>1 DEF ReadClaim, TestRecord
<1> HIDE DEF r
<1>4. ASSUME NEW bound \in BOOLEAN, NEW excuse \in BOOLEAN, test' = r(bound, excuse),
             ~excuse => ~test[t].excused /\ (Top(t) = "pvc" => (bound <=> Bound(t)))
      PROVE  Asked(t, FALSE) /\ (excuse => Asked(t, TRUE))
  BY <1>4, WaitsEffect DEF r, Asked
<1>5. QED
  BY <1>1, <1>2, <1>3, <1>4

LEMMA DeleteObjectKeeps ==
    ASSUME NEW t \in Tests, TakingDown(t), DeleteObject(t)
    PROVE  TestInv(t)' /\ Asked(t, FALSE)
<1>1. /\ At(t, "delete") /\ Top(t) \in Deleted
      /\ exists \in [Tests -> SUBSET (Things \cup {"mount"})] /\ marked \in [Tests -> SUBSET Things]
  BY TakingDownFacts DEF DeleteObject, TypeOK, Deleted
<1>2. Asked(t, FALSE)
  BY <1>1, AskedEffect, TakingDownFacts DEF DeleteObject, TypeOK, Typed
<1>3. CASE Top(t) \in {"secret", "class"}
  <2>1. exists'[t] = exists[t] \ {Top(t)} /\ marked'[t] = marked[t] \cup {}
    BY <1>1, <1>3 DEF DeleteObject
  <2> DEFINE gone == {Top(t)}
             more == {}
  <2>2. gone \in SUBSET ({Top(t)} \cap {"secret", "class"})
        /\ more \in SUBSET ({Top(t)} \cap exists[t] \cap {"pvc", "pod", "pv"})
        /\ exists'[t] = exists[t] \ gone /\ marked'[t] = marked[t] \cup more
    BY <1>3, <2>1
  <2> HIDE DEF gone, more
  <2>3. QED
    BY <1>1, <1>2, <2>2, DeletedKeeps DEF Asked, Deleted
<1>4. CASE Top(t) \notin {"secret", "class"}
  <2> DEFINE gone == {}
             more == {Top(t)} \cap exists[t]
  <2>1. gone \in SUBSET ({Top(t)} \cap {"secret", "class"})
        /\ more \in SUBSET ({Top(t)} \cap exists[t] \cap {"pvc", "pod", "pv"})
        /\ exists'[t] = exists[t] \ gone /\ marked'[t] = marked[t] \cup more
    BY <1>1, <1>4 DEF DeleteObject, Deleted
  <2> HIDE DEF gone, more
  <2>2. QED
    BY <1>1, <1>2, <2>1, DeletedKeeps DEF Asked, Deleted
<1>5. QED
  BY <1>2, <1>3, <1>4

LEMMA DeleteObjectFailsKeeps ==
    ASSUME NEW t \in Tests, TakingDown(t), DeleteObjectFails(t)
    PROVE  TestInv(t)' /\ Asked(t, TRUE)
<1>1. /\ At(t, "delete") /\ Top(t) \in Deleted /\ UNCHANGED exists
      /\ exists \in [Tests -> SUBSET (Things \cup {"mount"})] /\ marked \in [Tests -> SUBSET Things]
      /\ test[t].cleanups # <<>>
  <2>1. At(t, "delete") /\ Top(t) \in Deleted /\ UNCHANGED exists
    BY DEF DeleteObjectFails, Deleted
  <2>2. QED
    BY <2>1, TakingDownFacts DEF TypeOK, ProgressInv, At
<1>2. Asked(t, TRUE)
  BY <1>1, AskedEffect, TakingDownFacts DEF DeleteObjectFails, TypeOK, Typed
<1> DEFINE gone == {}
           more == marked'[t] \ marked[t]
<1>3. marked'[t] = marked[t] \/ (marked'[t] = marked[t] \cup {"pvc"} /\ Top(t) = "pvc")
  BY <1>1 DEF DeleteObjectFails
<1>4. Top(t) \in exists[t]
  BY <1>1, TakingDownFacts, CleanupsType DEF Standing, Top, There, At
<1>5. gone \in SUBSET ({Top(t)} \cap {"secret", "class"})
      /\ more \in SUBSET ({Top(t)} \cap exists[t] \cap {"pvc", "pod", "pv"})
      /\ exists'[t] = exists[t] \ gone /\ marked'[t] = marked[t] \cup more
  BY <1>1, <1>4, <1>3
<1> HIDE DEF gone, more
<1>6. QED
  BY <1>1, <1>2, <1>5, DeletedKeeps DEF Asked, Deleted

\* The tests that wait have something to take down.
LEMMA Waiting ==
    ASSUME NEW t \in Tests, TypeOK, TestInv(t),
           test[t].pc \in {"delete", "wait", "policy", "reclaim", "tenant"},
           UNCHANGED <<setup, calling>>
    PROVE  TakingDown(t) /\ test[t].cleanups # <<>>
BY DEF TestInv, FlowInv, ProgressInv, TakingDown, SettingUp

LEMMA WaitForGoneKeeps ==
    ASSUME NEW t \in Tests, TakingDown(t), WaitForGone(t)
    PROVE  TestInv(t)'
<1>1. /\ test[t].pc \in {"wait", "reclaim"} /\ Gone(t) /\ UNCHANGED <<exists, marked>>
      /\ test[t].cleanups # <<>>
  BY TakingDownFacts DEF WaitForGone, ProgressInv
<1>2. CASE Cleaning(t, "wait", "pvc") /\ test[t].boundPv
  <2>1. SameCourse(t) /\ test'[t].pc = "policy"
    BY <1>2, GotoEffect, TakingDownFacts
       DEF WaitForGone, AfterWait, TypeOK, Typed, Phases, SameCourse
  <2>2. Top(t) = "pvc" /\ Top(t)' = "pvc"
    BY <1>2, <2>1 DEF Cleaning, Top, SameCourse
  <2>3. ~There(t, "pvc")
    BY <1>1, <1>2, <2>2 DEF Gone, At, Cleaning
  <2>4. ProgressInv(t)'
    BY <1>1, <2>1, <2>2, TakingDownFacts DEF ProgressInv, SettingUp, SameCourse, Pending
  <2>5. QED
    BY <1>1, <2>1, <2>3, <2>4, MovedKeeps
<1>3. CASE ~(Cleaning(t, "wait", "pvc") /\ test[t].boundPv)
  <2>1. test' = Popped(t, FALSE)
    BY <1>3 DEF WaitForGone, AfterWait
  <2>2. ~test[t].excused =>
            /\ ~There(t, Top(t)) /\ Top(t) # "tenant"
            /\ Top(t) = "pvc" /\ Dynamic(t) => ~There(t, "pv")
    <3>1. CASE test[t].pc = "wait"
      <4>1. ~There(t, Top(t)) /\ Top(t) # "tenant"
        BY <1>1, <3>1, TakingDownFacts DEF Gone, At, ProgressInv
      <4>2. Top(t) = "pvc" => Cleaning(t, "wait", "pvc") /\ ~test[t].boundPv
        BY <1>1, <1>3, <3>1 DEF Cleaning, At
      <4>3. QED
        BY <4>1, <4>2, TakingDownFacts DEF TeardownInv
    <3>2. CASE test[t].pc = "reclaim"
      BY <1>1, <3>2, TakingDownFacts DEF Gone, At, ProgressInv, TeardownInv
    <3>3. QED
      BY <1>1, <3>1, <3>2
  <2> DEFINE gone == {}
  <2>3. /\ gone \subseteq {Top(t)} \cap {"user", "key", "volume", "tenant"}
        /\ exists'[t] = exists[t] \ gone /\ marked'[t] = marked[t] /\ gone \cap marked[t] = {}
        /\ FALSE \in BOOLEAN
    BY <1>1
  <2>4. ~test[t].excused /\ ~FALSE =>
            /\ Top(t) \notin exists'[t]
            /\ Top(t) = "pvc" /\ Dynamic(t) => ~There(t, "pv")
            /\ Top(t) = "tenant" => test[t].pc = "tenant"
    BY <1>1, <2>2 DEF There
  <2> HIDE DEF gone
  <2>5. QED
    BY <1>1, <2>1, <2>3, <2>4, PoppedKeeps
<1>4. QED
  BY <1>2, <1>3

\* The policy of the claim's PV was read.
LEMMA PvIsReclaimedByDeletionKeeps ==
    ASSUME NEW t \in Tests, TakingDown(t), PvIsReclaimedByDeletion(t)
    PROVE  TestInv(t)'
<1>1. /\ test[t].pc = "policy" /\ UNCHANGED <<exists, marked>>
      /\ test[t].cleanups # <<>> /\ Top(t) = "pvc" /\ (~test[t].excused => ~There(t, "pvc"))
  BY TakingDownFacts DEF PvIsReclaimedByDeletion, ProgressInv, At, TeardownInv
<1>2. CASE There(t, "pv") /\ Dynamic(t)
  <2>1. SameCourse(t) /\ test'[t].pc = "reclaim"
    BY <1>2, GotoEffect, TakingDownFacts
       DEF PvIsReclaimedByDeletion, TypeOK, Typed, Phases, SameCourse
  <2>2. Top(t)' = "pvc"
    BY <1>1, <2>1 DEF Top, SameCourse
  <2>3. ProgressInv(t)'
    BY <1>1, <2>1, <2>2, TakingDownFacts DEF ProgressInv, SettingUp, SameCourse, Pending
  <2>4. QED
    BY <1>1, <2>1, <2>3, MovedKeeps
<1>3. CASE ~(There(t, "pv") /\ Dynamic(t))
  <2> DEFINE gone == {}
  <2>1. test' = Popped(t, FALSE)
    BY <1>3 DEF PvIsReclaimedByDeletion
  <2>2. /\ gone \subseteq {Top(t)} \cap {"user", "key", "volume", "tenant"}
        /\ exists'[t] = exists[t] \ gone /\ marked'[t] = marked[t] /\ gone \cap marked[t] = {}
        /\ FALSE \in BOOLEAN
    BY <1>1
  <2>3. ~test[t].excused /\ ~FALSE =>
            /\ Top(t) \notin exists'[t]
            /\ Top(t) = "pvc" /\ Dynamic(t) => ~There(t, "pv")
            /\ Top(t) = "tenant" => test[t].pc = "tenant"
    BY <1>1, <1>3 DEF There
  <2> HIDE DEF gone
  <2>4. QED
    BY <1>1, <2>1, <2>2, <2>3, PoppedKeeps
<1>4. QED
  BY <1>2, <1>3

LEMMA WaitGivesUpKeeps ==
    ASSUME NEW t \in Tests, TakingDown(t), WaitGivesUp(t)
    PROVE  TestInv(t)'
<1>1. /\ test' = Popped(t, TRUE) /\ UNCHANGED <<exists, marked>> /\ test[t].cleanups # <<>>
  BY TakingDownFacts DEF WaitGivesUp, ProgressInv
<1> DEFINE gone == {}
<1>2. /\ gone \subseteq {Top(t)} \cap {"user", "key", "volume", "tenant"}
      /\ exists'[t] = exists[t] \ gone /\ marked'[t] = marked[t] /\ gone \cap marked[t] = {}
      /\ TRUE \in BOOLEAN
  BY <1>1
<1> HIDE DEF gone
<1>3. QED
  BY <1>1, <1>2, PoppedKeeps

LEMMA DeleteInQuobyteKeeps ==
    ASSUME NEW t \in Tests, TakingDown(t), DeleteInQuobyte(t)
    PROVE  TestInv(t)'
<1>1. /\ test[t].pc = "delete" /\ Top(t) \in {"user", "key", "volume"} /\ UNCHANGED marked
      /\ test[t].cleanups # <<>>
      /\ exists \in [Tests -> SUBSET (Things \cup {"mount"})]
  BY TakingDownFacts DEF DeleteInQuobyte, ProgressInv, At, TypeOK
<1>2. Top(t) \notin marked[t]
  BY <1>1, TakingDownFacts, CleanupsType DEF Standing, Top
<1>3. CASE exists' = [exists EXCEPT ![t] = @ \ {Top(t)}] /\ test' = Popped(t, FALSE)
  <2> DEFINE gone == {Top(t)}
  <2>1. /\ gone \subseteq {Top(t)} \cap {"user", "key", "volume", "tenant"}
        /\ exists'[t] = exists[t] \ gone /\ marked'[t] = marked[t] /\ gone \cap marked[t] = {}
        /\ FALSE \in BOOLEAN /\ Top(t) \notin exists'[t]
    BY <1>1, <1>2, <1>3
  <2> HIDE DEF gone
  <2>2. QED
    BY <1>1, <1>3, <2>1, PoppedKeeps
<1>4. CASE UNCHANGED exists /\ test' = Popped(t, TRUE)
  <2> DEFINE gone == {}
  <2>1. /\ gone \subseteq {Top(t)} \cap {"user", "key", "volume", "tenant"}
        /\ exists'[t] = exists[t] \ gone /\ marked'[t] = marked[t] /\ gone \cap marked[t] = {}
        /\ TRUE \in BOOLEAN
    BY <1>1, <1>4
  <2> HIDE DEF gone
  <2>2. QED
    BY <1>1, <1>4, <2>1, PoppedKeeps
<1>5. QED
  BY <1>3, <1>4 DEF DeleteInQuobyte

LEMMA DeleteTenantKeeps ==
    ASSUME NEW t \in Tests, TakingDown(t), DeleteTenant(t)
    PROVE  TestInv(t)'
<1>1. /\ test[t].pc = "tenant" /\ Top(t) = "tenant" /\ UNCHANGED marked
      /\ test[t].cleanups # <<>>
      /\ exists \in [Tests -> SUBSET (Things \cup {"mount"})]
  BY TakingDownFacts DEF DeleteTenant, ProgressInv, At, TypeOK
<1>2. "tenant" \notin marked[t]
  BY TakingDownFacts DEF ClusterInv
<1>3. ~test[t].excused /\ Has(t, "emptied") => ~There(t, "volume")
  <2>1. Pending(t) = {"tenant"}
    BY <1>1, TakingDownFacts, TenantIsLast
  <2>2. QED
    BY <1>1, <2>1, TakingDownFacts DEF TeardownInv, There
<1>4. CASE /\ exists' = [exists EXCEPT ![t] = @ \ IF There(t, "volume") THEN {} ELSE {"tenant"}]
           /\ test' = Popped(t, FALSE)
  <2> DEFINE gone == IF There(t, "volume") THEN {} ELSE {"tenant"}
  <2>1. /\ gone \subseteq {Top(t)} \cap {"user", "key", "volume", "tenant"}
        /\ exists'[t] = exists[t] \ gone /\ marked'[t] = marked[t] /\ gone \cap marked[t] = {}
        /\ FALSE \in BOOLEAN
    BY <1>1, <1>2, <1>4
  <2>2. ~test[t].excused => Top(t) \notin exists'[t] \/ (Top(t) = "tenant" /\ ~Has(t, "emptied"))
    BY <1>1, <1>3, <2>1
  <2> HIDE DEF gone
  <2>3. QED
    BY <1>1, <1>4, <2>1, <2>2, PoppedKeeps
<1>5. CASE UNCHANGED exists /\ test' = Popped(t, TRUE)
  <2> DEFINE gone == {}
  <2>1. /\ gone \subseteq {Top(t)} \cap {"user", "key", "volume", "tenant"}
        /\ exists'[t] = exists[t] \ gone /\ marked'[t] = marked[t] /\ gone \cap marked[t] = {}
        /\ TRUE \in BOOLEAN
    BY <1>1, <1>5
  <2> HIDE DEF gone
  <2>2. QED
    BY <1>1, <1>5, <2>1, PoppedKeeps
<1>6. QED
  BY <1>4, <1>5 DEF DeleteTenant

LEMMA DeleteVolumesKeeps ==
    ASSUME NEW t \in Tests, TakingDown(t), DeleteVolumesInTenant(t)
    PROVE  /\ TestInv(t)' /\ Typed' /\ OthersSame(t) /\ ReadsSame(t) /\ test'[t].pc = "tenant"
           /\ test'[t].at = test[t].at
<1>1. /\ test[t].pc = "delete" /\ Top(t) = "tenant" /\ test[t].cleanups # <<>>
      /\ exists \in [Tests -> SUBSET (Things \cup {"mount"})] /\ marked \in [Tests -> SUBSET Things]
  BY TakingDownFacts DEF DeleteVolumesInTenant, Cleaning, At, TypeOK
<1>2. /\ Typed' /\ OthersSame(t) /\ ReadsSame(t) /\ test'[t].pc = "tenant"
      /\ test'[t].at = test[t].at /\ test'[t].cleanups = test[t].cleanups
      /\ test'[t].failed = test[t].failed /\ (~test'[t].excused => ~test[t].excused)
      /\ \/ /\ exists'[t] = exists[t] \ {"volume"} /\ marked'[t] = marked[t] \ {"volume"}
         \/ UNCHANGED <<exists, marked>> /\ test'[t].excused
  <2>1. CASE Goto(t, "tenant") /\ exists' = [exists EXCEPT ![t] = @ \ {"volume"}]
             /\ marked' = [marked EXCEPT ![t] = @ \ {"volume"}]
    BY <1>1, <2>1, GotoEffect, TakingDownFacts DEF TypeOK, Typed, Phases
  <2>2. CASE /\ test' = [test EXCEPT ![t].pc = "tenant", ![t].excused = TRUE]
             /\ UNCHANGED <<exists, marked>>
    BY <1>1, <2>2, TenantGivenUpEffect, TakingDownFacts DEF TypeOK, Typed
  <2>3. QED
    BY <2>1, <2>2 DEF DeleteVolumesInTenant
<1>3. FlowInv(t)' /\ Done(t)' = Done(t) /\ Pending(t)' = Pending(t) /\ Top(t)' = Top(t)
  <2>1. Top(t)' = Top(t)
    BY <1>2 DEF Top
  <2>2. ProgressInv(t)'
    BY <1>1, <1>2, <2>1, TakingDownFacts DEF ProgressInv, SettingUp, Pending
  <2>3. QED
    BY <1>2, <2>1, <2>2, TakingDownFacts, MovedFlow
<1>4. ~SettingUp(t)' /\ ~test'[t].failed /\ (Spotless(t)' <=> ~test'[t].excused)
  BY <1>2, TakingDownFacts DEF SettingUp, Spotless
<1>5. ClusterInv(t)'
  BY <1>2, <1>3, TakingDownFacts DEF ClusterInv, There
<1>6. Intact(t)'
  BY <1>4 DEF Intact
<1>7. Standing(t)'
  <2>1. Len(test[t].cleanups) = 1 /\ DOMAIN test[t].cleanups = 1 .. 1
    BY <1>1, TakingDownFacts, TenantIsLast, CleanupsType
  <2>2. QED
    BY <1>2, <2>1 DEF Standing
<1>8. ~test[t].excused => ~There(t, "pv") /\ ~There(t, "mount")
  BY <1>1, NothingNeedsTop
<1>9. TeardownInv(t)'
  <2> SUFFICES ASSUME ~test'[t].excused
               PROVE  TeardownInv(t)'
    BY <1>4 DEF TeardownInv
  <2>1. ~test[t].excused /\ exists'[t] = exists[t] \ {"volume"}
    BY <1>2
  <2>2. \A k \in exists[t] :
           \/ k \in Pending(t) \/ k \in {"mount", "tenant"}
           \/ (Dynamic(t) /\ k \in {"pv", "volume"})
    BY <2>1, TakingDownFacts DEF TeardownInv
  <2>3. ~There(t, "pv")' /\ ~There(t, "volume")' /\ ~Cleaning(t, "wait", "pvc")'
    BY <1>2, <1>8, <2>1 DEF There, Cleaning, At
  <2>4. "tenant" \in Pending(t)
    BY <1>1, TakingDownFacts, TenantIsLast
  <2>5. QED
    BY <1>2, <1>3, <2>1, <2>2, <2>3, <2>4, TakingDownFacts DEF TeardownInv
<1>10. NeedsInv(t)'
  BY <1>2, <1>8 DEF NeedsInv, There
<1>11. QED
  BY <1>2, <1>3, <1>5, <1>6, <1>7, <1>9, <1>10 DEF TestInv, ThingsInv

-----------------------------------------------------------------------------
(* A step of one test, and the other tests.                                *)

Local(t) ==
    /\ UNCHANGED setup /\ Typed' /\ OthersSame(t)
    /\ test[t].at <= test'[t].at /\ test'[t].at <= Len(setup[t])
    /\ exists' \in [Tests -> SUBSET (Things \cup {"mount"})] /\ marked' \in [Tests -> SUBSET Things]
    /\ \A u \in Tests \ {t} :
         exists'[u] = exists[u] /\ marked'[u] = marked[u] /\ (u \in calling' <=> u \in calling)
    /\ calling' \subseteq Tests /\ grants' \subseteq Tests
    /\ faults' \in 0 .. MaxFaults

LEMMA OtherTests ==
    ASSUME NEW u \in Tests, TestInv(u), UNCHANGED setup, test'[u] = test[u],
           exists'[u] = exists[u], marked'[u] = marked[u], u \in calling' <=> u \in calling
    PROVE  TestInv(u)'
<1>1. FlowInv(u)' /\ Done(u)' = Done(u) /\ Pending(u)' = Pending(u)
  BY SameFlow DEF TestInv, There
<1>2. /\ \A k : Has(u, k)' <=> Has(u, k)
      /\ Dynamic(u)' <=> Dynamic(u)
      /\ SettingUp(u)' <=> SettingUp(u)
      /\ Spotless(u)' <=> Spotless(u)
      /\ \A k : There(u, k)' <=> There(u, k)
      /\ Unmarked(u, "volume")' <=> Unmarked(u, "volume")
      /\ Cleaning(u, "wait", "pvc")' <=> Cleaning(u, "wait", "pvc")
  BY SetupKept DEF SettingUp, Spotless, There, Unmarked, Cleaning, At, Top
<1>3. ClusterInv(u)'
  BY <1>1, <1>2 DEF TestInv, ThingsInv, ClusterInv
<1>4. Intact(u)' /\ Standing(u)'
  BY <1>1, <1>2 DEF TestInv, ThingsInv, Intact, Standing
<1>5. TeardownInv(u)'
  BY <1>1, <1>2 DEF TestInv, ThingsInv, TeardownInv
<1>6. NeedsInv(u)'
  BY <1>2 DEF TestInv, ThingsInv, NeedsInv, LoginWorks
<1>7. QED
  BY <1>1, <1>3, <1>4, <1>5, <1>6 DEF TestInv, ThingsInv

LEMMA LocalKeeps ==
    ASSUME TypeOK, \A u \in Tests : TestInv(u), NEW t \in Tests, Local(t), TestInv(t)'
    PROVE  TypeOK' /\ \A u \in Tests : TestInv(u)'
<1>1. ASSUME NEW u \in Tests
      PROVE  TestInv(u)'
  <2>1. CASE u = t
    BY <2>1
  <2>2. CASE u # t
    BY <2>2, OtherTests DEF Local, OthersSame
  <2>3. QED
    BY <2>1, <2>2
<1>2. \A u \in Tests : marked'[u] \subseteq exists'[u]
  BY <1>1 DEF TestInv, ThingsInv, ClusterInv
<1>3. \A u \in Tests : test'[u].at <= Len(setup'[u])
  BY DEF Local, OthersSame, TypeOK
<1>4. TypeOK'
  BY <1>2, <1>3 DEF Local, TypeOK, Typed
<1>5. QED
  BY <1>1, <1>4

LEMMA AtGrows ==
    ASSUME TypeOK, NEW t \in Tests, Local(t), NEW u \in Tests
    PROVE  test[u].at \in Nat /\ test'[u].at \in Nat /\ test[u].at <= test'[u].at
<1>1. test[u] \in TestRecord /\ test'[u] \in TestRecord
  BY DEF TypeOK, Local, Typed
<1>2. test[u].at \in Nat /\ test'[u].at \in Nat
  BY <1>1 DEF TestRecord
<1>3. u # t => test'[u].at = test[u].at
  BY DEF Local, OthersSame
<1>4. QED
  BY <1>2, <1>3 DEF Local

\* The grants, after a step of t that does the right thing about its own tenant and user.
LEMMA GrantsKept ==
    ASSUME TypeOK, GrantsInv, NEW t \in Tests, Local(t),
           \A u \in grants' \cup test'[t].seen : u \in Tests /\ test'[u].at >= 1,
           test'[t].pc = "update" =>
                \A u \in test'[t].seen : There(u, "tenant")' => u \in test'[t].existing,
           There(t, "tenant")' => There(t, "tenant") \/ test[t].at = 0
    PROVE  GrantsInv'
<1>1. \A u \in Tests : test[u].at \in Nat /\ test'[u].at \in Nat /\ test[u].at <= test'[u].at
  BY AtGrows
<1>2. ASSUME NEW a \in Tests, NEW u \in Tests
      PROVE  /\ a \in grants' \/ a \in test'[u].seen => test'[a].at >= 1
             /\ At(u, "update")' /\ a \in test'[u].seen /\ There(a, "tenant")' =>
                   a \in test'[u].existing
  <2>1. CASE u = t
    BY <2>1 DEF At
  <2>2. CASE u # t
    <3>1. test'[u] = test[u]
      BY <2>2 DEF Local, OthersSame
    <3>2. a \in test[u].seen => test[a].at >= 1
      BY DEF GrantsInv
    <3>3. a \in test[u].seen /\ There(a, "tenant")' => There(a, "tenant")
      BY <1>1, <3>2 DEF Local, There
    <3>4. QED
      BY <1>1, <3>1, <3>2, <3>3 DEF GrantsInv, At
  <2>3. QED
    BY <2>1, <2>2
<1>3. QED
  BY <1>2 DEF GrantsInv

\* A step that has nothing to do with grants.
LEMMA GrantsFrame ==
    ASSUME TypeOK, GrantsInv, NEW t \in Tests, Local(t), UNCHANGED grants,
           test'[t].seen = test[t].seen, test'[t].existing = test[t].existing,
           test'[t].pc = "update" => test[t].pc = "update",
           There(t, "tenant")' => There(t, "tenant") \/ test[t].at = 0
    PROVE  GrantsInv'
<1>1. \A u \in Tests : test[u].at \in Nat /\ test'[u].at \in Nat /\ test[u].at <= test'[u].at
  BY AtGrows
<1>2. \A u \in grants' \cup test'[t].seen : u \in Tests /\ test[u].at >= 1
  BY DEF GrantsInv, TypeOK, TestRecord
<1>3. \A u \in grants' \cup test'[t].seen : u \in Tests /\ test'[u].at >= 1
  BY <1>1, <1>2
<1>4. ASSUME test'[t].pc = "update", NEW u \in test'[t].seen, There(u, "tenant")'
      PROVE  u \in test'[t].existing
  <2>1. There(u, "tenant")
    BY <1>2, <1>4 DEF Local, There
  <2>2. QED
    BY <1>2, <1>4, <2>1 DEF GrantsInv, At
<1>5. QED
  BY <1>3, <1>4, GrantsKept

\* What exists and what is marked changes for t alone.
LEMMA ThingsEffect ==
    ASSUME TypeOK, NEW t \in Tests
    PROVE  /\ \A S \in SUBSET (Things \cup {"mount"}) : exists' = [exists EXCEPT ![t] = S] =>
                /\ exists' \in [Tests -> SUBSET (Things \cup {"mount"})] /\ exists'[t] = S
                /\ \A u \in Tests \ {t} : exists'[u] = exists[u]
           /\ \A S \in SUBSET Things : marked' = [marked EXCEPT ![t] = S] =>
                /\ marked' \in [Tests -> SUBSET Things] /\ marked'[t] = S
                /\ \A u \in Tests \ {t} : marked'[u] = marked[u]
           /\ exists[t] \in SUBSET (Things \cup {"mount"}) /\ marked[t] \in SUBSET Things
BY DEF TypeOK

\* What the cluster did to t's things, and to t's CreateVolume.
LEMMA ClusterStepThings ==
    ASSUME TypeOK, NEW t \in Tests, ClusterStep(t)
    PROVE  /\ exists' \in [Tests -> SUBSET (Things \cup {"mount"})]
           /\ marked' \in [Tests -> SUBSET Things]
           /\ \A u \in Tests \ {t} : exists'[u] = exists[u] /\ marked'[u] = marked[u]
           /\ calling' \in {calling, calling \cup {t}, calling \ {t}}
           /\ There(t, "tenant")' => There(t, "tenant")
<1> DEFINE Ok == /\ exists' \in [Tests -> SUBSET (Things \cup {"mount"})]
                 /\ marked' \in [Tests -> SUBSET Things]
                 /\ \A u \in Tests \ {t} : exists'[u] = exists[u] /\ marked'[u] = marked[u]
                 /\ calling' \in {calling, calling \cup {t}, calling \ {t}}
                 /\ There(t, "tenant")' => There(t, "tenant")
<1>1. {"volume", "pv", "mount"} \subseteq Things \cup {"mount"} /\ {"volume"} \subseteq Things
  BY DEF Things
<1>2. /\ exists \in [Tests -> SUBSET (Things \cup {"mount"})]
      /\ marked \in [Tests -> SUBSET Things]
  BY DEF TypeOK
<1>3. ASSUME CallCreateVolume(t)
      PROVE  Ok
  BY <1>2, <1>3 DEF CallCreateVolume, There
<1>4. ASSUME CreateVolume(t)
      PROVE  Ok
  <2>1. CASE UNCHANGED exists
    BY <1>2, <1>4, <2>1 DEF CreateVolume, There
  <2>2. CASE exists' = [exists EXCEPT ![t] = @ \cup {"volume"}]
    BY <1>1, <1>2, <1>4, <2>2 DEF CreateVolume, There
  <2>3. CASE exists' = [exists EXCEPT ![t] = @ \ {"volume"}]
    BY <1>1, <1>2, <1>4, <2>3 DEF CreateVolume, There
  <2>4. CASE exists' = [exists EXCEPT ![t] = @ \cup {"pv"}]
    BY <1>1, <1>2, <1>4, <2>4 DEF CreateVolume, There
  <2>5. QED
    BY <1>4, <2>1, <2>2, <2>3, <2>4 DEF CreateVolume
<1>5. ASSUME Reclaim(t)
      PROVE  Ok
  BY <1>1, <1>2, <1>5 DEF Reclaim, There
<1>6. ASSUME PodRuns(t)
      PROVE  Ok
  BY <1>1, <1>2, <1>6 DEF PodRuns, There
<1>7. ASSUME NEW k \in Things, Goes(t, k)
      PROVE  Ok
  BY <1>2, <1>7 DEF Goes, There
<1>8. QED
  BY <1>3, <1>4, <1>5, <1>6, <1>7 DEF ClusterStep

LEMMA ClusterStepIsLocal ==
    ASSUME TypeOK, GrantsInv, NEW t \in Tests, ClusterStep(t)
    PROVE  Local(t) /\ GrantsInv'
<1>1. /\ UNCHANGED <<setup, test, grants, faults>>
      /\ Typed /\ test[t].at \in Nat /\ test[t].at <= Len(setup[t])
  BY DEF ClusterStep, TypeOK, Typed, TestRecord
<1>2. Local(t)
  <2>1. Typed' /\ OthersSame(t) /\ test[t].at <= test'[t].at /\ test'[t].at <= Len(setup[t])
    BY <1>1 DEF Typed, OthersSame
  <2>2. calling' \subseteq Tests /\ \A u \in Tests \ {t} : u \in calling' <=> u \in calling
    BY ClusterStepThings DEF TypeOK
  <2>3. grants' \subseteq Tests /\ faults' \in 0 .. MaxFaults
    BY <1>1 DEF TypeOK
  <2>4. QED
    BY <1>1, <2>1, <2>2, <2>3, ClusterStepThings DEF Local
<1>3. QED
  BY <1>1, <1>2, ClusterStepThings, GrantsFrame

LEMMA CleanupStepKeeps ==
    ASSUME TypeOK, NEW t \in Tests, TestInv(t), CleanupStep(t)
    PROVE  TestInv(t)'
<1>1. UNCHANGED <<setup, calling>>
  BY DEF CleanupStep, RunCleanup, DeleteObject, DeleteObjectFails, WaitForGone,
         PvIsReclaimedByDeletion, WaitGivesUp, DeleteInQuobyte, DeleteVolumesInTenant, DeleteTenant
<1>2. CASE RunCleanup(t)
  BY <1>1, <1>2, RunCleanupKeeps
<1>3. ~RunCleanup(t) => TakingDown(t)
  <2>1. ~RunCleanup(t) => test[t].pc \in {"delete", "wait", "policy", "reclaim", "tenant"}
    BY DEF CleanupStep, DeleteObject, DeleteObjectFails, WaitForGone, PvIsReclaimedByDeletion,
           WaitGivesUp, DeleteInQuobyte, DeleteVolumesInTenant, DeleteTenant, Cleaning, At
  <2>2. QED
    BY <1>1, <2>1, Waiting
<1>4. QED
  BY <1>2, <1>3, DeleteObjectKeeps, DeleteObjectFailsKeeps, WaitForGoneKeeps,
     PvIsReclaimedByDeletionKeeps, WaitGivesUpKeeps, DeleteInQuobyteKeeps, DeleteVolumesKeeps,
     DeleteTenantKeeps DEF CleanupStep

\* What a step of the teardown leaves of a test.
Onward(t) ==
    /\ Typed' /\ OthersSame(t) /\ test'[t].at = test[t].at /\ test'[t].pc # "update"
    /\ test'[t].seen = test[t].seen /\ test'[t].existing = test[t].existing

LEMMA OnwardEffect ==
    ASSUME Typed, NEW t \in Tests, test[t].cleanups # <<>>
    PROVE  /\ \A excuse \in BOOLEAN : test' = Popped(t, excuse) => Onward(t)
           /\ \A pc \in Phases \ {"update"} : Goto(t, pc) => Onward(t)
BY PoppedEffect, GotoEffect DEF Onward, ReadsSame

LEMMA CleanupStepIsOnward ==
    ASSUME TypeOK, NEW t \in Tests, TestInv(t), CleanupStep(t)
    PROVE  Onward(t)
<1>1. Typed
  BY DEF TypeOK, Typed
<1>2. CASE test[t].cleanups = <<>>
  <2>1. test[t].pc \notin {"delete", "wait", "policy", "reclaim", "tenant"}
    BY <1>2 DEF TestInv, FlowInv, ProgressInv
  <2>2. Goto(t, "ended")
    BY <1>2, <2>1 DEF CleanupStep, RunCleanup, DeleteObject, DeleteObjectFails, WaitForGone,
           PvIsReclaimedByDeletion, WaitGivesUp, DeleteInQuobyte, DeleteVolumesInTenant,
           DeleteTenant, Cleaning, At
  <2>3. QED
    BY <1>1, <2>2, GotoEffect DEF Onward, ReadsSame, Phases
<1>3. CASE test[t].cleanups # <<>>
  <2>1. ASSUME RunCleanup(t) PROVE Onward(t)
    BY <1>1, <1>3, <2>1, OnwardEffect DEF RunCleanup, CleanupUnlessFailed, Phases
  <2>2. ASSUME DeleteObject(t) \/ DeleteObjectFails(t) PROVE Onward(t)
    BY <1>1, <2>2, AskedEffect DEF DeleteObject, DeleteObjectFails, Asked, Onward
  <2>3. ASSUME WaitForGone(t) PROVE Onward(t)
    BY <1>1, <1>3, <2>3, OnwardEffect DEF WaitForGone, AfterWait, Phases
  <2>4. ASSUME PvIsReclaimedByDeletion(t) PROVE Onward(t)
    BY <1>1, <1>3, <2>4, OnwardEffect DEF PvIsReclaimedByDeletion, Phases
  <2>5. ASSUME WaitGivesUp(t) \/ DeleteInQuobyte(t) \/ DeleteTenant(t) PROVE Onward(t)
    <3>1. test' = Popped(t, TRUE) \/ test' = Popped(t, FALSE)
      BY <2>5 DEF WaitGivesUp, DeleteInQuobyte, DeleteTenant
    <3>2. QED
      BY <1>1, <1>3, <3>1, OnwardEffect
  <2>6. ASSUME DeleteVolumesInTenant(t) PROVE Onward(t)
    BY <1>1, <1>3, <2>6, OnwardEffect, TenantGivenUpEffect
       DEF DeleteVolumesInTenant, Phases, Onward, ReadsSame
  <2>7. QED
    BY <2>1, <2>2, <2>3, <2>4, <2>5, <2>6 DEF CleanupStep
<1>4. QED
  BY <1>2, <1>3

LEMMA CleanupStepThings ==
    ASSUME TypeOK, NEW t \in Tests, CleanupStep(t)
    PROVE  /\ exists' \in [Tests -> SUBSET (Things \cup {"mount"})]
           /\ marked' \in [Tests -> SUBSET Things]
           /\ \A u \in Tests \ {t} : exists'[u] = exists[u] /\ marked'[u] = marked[u]
           /\ exists'[t] \subseteq exists[t]
           /\ UNCHANGED <<setup, calling, grants>> /\ faults' \in 0 .. MaxFaults
<1> DEFINE Ok == /\ exists' \in [Tests -> SUBSET (Things \cup {"mount"})]
                 /\ marked' \in [Tests -> SUBSET Things]
                 /\ \A u \in Tests \ {t} : exists'[u] = exists[u] /\ marked'[u] = marked[u]
                 /\ exists'[t] \subseteq exists[t]
<1>1. /\ exists \in [Tests -> SUBSET (Things \cup {"mount"})]
      /\ marked \in [Tests -> SUBSET Things]
      /\ \A k : marked[t] \cup ({k} \cap exists[t]) \subseteq Things \cup ({k} \cap exists[t])
  BY DEF TypeOK
<1>2. /\ UNCHANGED <<setup, calling, grants>> /\ faults' \in 0 .. MaxFaults
  <2>1. UNCHANGED <<setup, calling, grants>>
    BY DEF CleanupStep, RunCleanup, DeleteObject, DeleteObjectFails, WaitForGone,
           PvIsReclaimedByDeletion, WaitGivesUp, DeleteInQuobyte, DeleteVolumesInTenant,
           DeleteTenant
  <2>2. faults' = faults \/ (faults < MaxFaults /\ faults' = faults + 1)
    BY DEF CleanupStep, RunCleanup, DeleteObject, DeleteObjectFails, WaitForGone,
           PvIsReclaimedByDeletion, WaitGivesUp, DeleteInQuobyte, DeleteVolumesInTenant,
           DeleteTenant, Fault
  <2>3. QED
    BY <2>1, <2>2, TeardownAssumption DEF TypeOK
<1>3. ASSUME UNCHANGED <<exists, marked>> PROVE Ok
  BY <1>1, <1>3
<1>4. ASSUME NEW S, exists' = [exists EXCEPT ![t] = @ \ S], UNCHANGED marked PROVE Ok
  BY <1>1, <1>4
<1>5. ASSUME NEW S \in SUBSET Things, marked' = [marked EXCEPT ![t] = @ \cup S], UNCHANGED exists
      PROVE  Ok
  BY <1>1, <1>5
<1>6. ASSUME exists' = [exists EXCEPT ![t] = @ \ {"volume"}],
             marked' = [marked EXCEPT ![t] = @ \ {"volume"}]
      PROVE  Ok
  BY <1>1, <1>6
<1> HIDE DEF Ok
<1>7. ASSUME DeleteObject(t) PROVE Ok
  <2>1. {Top(t)} \cap exists[t] \in SUBSET Things
    BY <1>7 DEF DeleteObject, Things
  <2>2. QED
    BY <1>4, <1>5, <1>7, <2>1 DEF DeleteObject
<1>8. ASSUME DeleteObjectFails(t) PROVE Ok
  <2>1. {"pvc"} \in SUBSET Things
    BY DEF Things
  <2>2. QED
    BY <1>3, <1>5, <1>8, <2>1 DEF DeleteObjectFails
<1>9. ASSUME DeleteInQuobyte(t) PROVE Ok
  BY <1>3, <1>4, <1>9 DEF DeleteInQuobyte
<1>10. ASSUME DeleteVolumesInTenant(t) PROVE Ok
  BY <1>3, <1>6, <1>10 DEF DeleteVolumesInTenant
<1>11. ASSUME DeleteTenant(t) PROVE Ok
  BY <1>3, <1>4, <1>11 DEF DeleteTenant
<1>12. ASSUME RunCleanup(t) \/ WaitForGone(t) \/ PvIsReclaimedByDeletion(t) \/ WaitGivesUp(t)
       PROVE  Ok
  BY <1>3, <1>12 DEF RunCleanup, WaitForGone, PvIsReclaimedByDeletion, WaitGivesUp
<1>13. Ok
  BY <1>7, <1>8, <1>9, <1>10, <1>11, <1>12 DEF CleanupStep
<1>14. QED
  BY <1>2, <1>13 DEF Ok

LEMMA CleanupStepIsLocal ==
    ASSUME TypeOK, GrantsInv, NEW t \in Tests, TestInv(t), CleanupStep(t)
    PROVE  Local(t) /\ GrantsInv'
<1>1. Onward(t)
  BY CleanupStepIsOnward
<1>2. Local(t)
  <2>1. test[t].at \in Nat /\ test[t].at <= Len(setup[t])
    BY DEF TypeOK, TestRecord
  <2>2. calling' \subseteq Tests /\ grants' \subseteq Tests
    BY CleanupStepThings DEF TypeOK
  <2>3. QED
    BY <1>1, <2>1, <2>2, CleanupStepThings DEF Local, Onward
<1>3. There(t, "tenant")' => There(t, "tenant")
  BY CleanupStepThings DEF There
<1>4. QED
  BY <1>1, <1>2, <1>3, CleanupStepThings, GrantsFrame DEF Onward

\* A step of t's setup, and what it does to the other tests.
Sound(t) == TestInv(t)' /\ Local(t) /\ GrantsInv'

\* What the setup does not do.
LEMMA LocalSetup ==
    ASSUME TypeOK, NEW t \in Tests, UNCHANGED <<setup, marked, calling, faults>>,
           Typed', OthersSame(t), test'[t].at \in {test[t].at, test[t].at + 1},
           test'[t].at <= Len(setup[t]), grants' \subseteq Tests,
           UNCHANGED exists \/ \E k \in Things : exists' = [exists EXCEPT ![t] = @ \cup {k}]
    PROVE  Local(t)
<1>1. test[t].at <= test'[t].at
  BY DEF TypeOK, TestRecord
<1>2. /\ exists' \in [Tests -> SUBSET (Things \cup {"mount"})]
      /\ \A u \in Tests \ {t} : exists'[u] = exists[u]
  BY DEF TypeOK
<1>3. marked' \in [Tests -> SUBSET Things] /\ calling' \subseteq Tests /\ faults' \in 0 .. MaxFaults
  BY DEF TypeOK
<1>4. QED
  BY <1>1, <1>2, <1>3 DEF Local

\* The tenant is made first.
LEMMA TenantIsFirst ==
    ASSUME TypeOK, NEW t \in Tests, test[t].at < Len(setup[t])
    PROVE  Step(t) = "tenant" <=> test[t].at = 0
<1>1. /\ test[t].at \in Nat /\ test[t].at + 1 \in DOMAIN setup[t] /\ 1 \in DOMAIN setup[t]
      /\ setup[t][1] = "tenant"
  BY SetupFacts
<1>2. Step(t) = "tenant" => test[t].at + 1 = 1
  <2>1. "tenant" \in Things
    BY DEF Things
  <2>2. QED
    BY <1>1, <2>1, SetupFacts DEF Step
<1>3. QED
  BY <1>1, <1>2 DEF Step

\* A step of the setup that registers nothing.
LEMMA PassedIsSound ==
    ASSUME TypeOK, GrantsInv, NEW t \in Tests, TestInv(t), SettingUp(t), Passed(t),
           UNCHANGED <<setup, marked, calling, grants, faults>>,
           test[t].at < Len(setup[t]), Step(t) \in Waits \cup {"tenant", "grant"},
           Step(t) = "bound" => Bound(t),
           exists' = [exists EXCEPT ![t] = @ \cup ({Step(t)} \cap {"tenant"})]
    PROVE  Sound(t)
<1>1. /\ Typed' /\ OthersSame(t) /\ ReadsSame(t) /\ test'[t].at = test[t].at + 1
      /\ test'[t].pc = "setup"
  BY PassedEffect DEF TypeOK, Typed
<1>2. exists'[t] = exists[t] \cup ({Step(t)} \cap {"tenant"})
  BY DEF TypeOK
<1>3. TestInv(t)'
  BY <1>2, PassedKeeps
<1>4. Local(t)
  <2>1. test'[t].at <= Len(setup[t]) /\ grants' \subseteq Tests
    BY <1>1, SetupFacts DEF TypeOK
  <2>2. CASE Step(t) = "tenant"
    <3>1. "tenant" \in Things /\ exists' = [exists EXCEPT ![t] = @ \cup {"tenant"}]
      BY <2>2 DEF Things
    <3>2. QED
      BY <1>1, <2>1, <3>1, LocalSetup
  <2>3. CASE Step(t) # "tenant"
    <3>1. UNCHANGED exists
      BY <2>3 DEF TypeOK
    <3>2. QED
      BY <1>1, <2>1, <3>1, LocalSetup
  <2>4. QED
    BY <2>2, <2>3
<1>5. There(t, "tenant")' => There(t, "tenant") \/ test[t].at = 0
  BY <1>2, TenantIsFirst DEF There
<1>6. GrantsInv'
  BY <1>1, <1>4, <1>5, GrantsFrame DEF ReadsSame
<1>7. QED
  BY <1>3, <1>4, <1>6 DEF Sound

LEMMA EnsureTenantExistsIsSound ==
    ASSUME TypeOK, GrantsInv, NEW t \in Tests, TestInv(t), EnsureTenantExists(t)
    PROVE  Sound(t)
<1>1. Step(t) = "tenant" /\ SettingUp(t) /\ test[t].at < Len(setup[t])
      /\ {Step(t)} \cap {"tenant"} = {"tenant"}
  BY DEF EnsureTenantExists, Doing, At, SettingUp
<1>2. exists' = [exists EXCEPT ![t] = @ \cup ({Step(t)} \cap {"tenant"})]
  BY <1>1 DEF EnsureTenantExists
<1>3. QED
  BY <1>1, <1>2, PassedIsSound DEF EnsureTenantExists

LEMMA GetUsersIsSound ==
    ASSUME TypeOK, GrantsInv, NEW t \in Tests, TestInv(t), GetUsers(t)
    PROVE  Sound(t)
<1>1. /\ UNCHANGED <<setup, exists, marked, calling, grants, faults>> /\ SettingUp(t)
      /\ test[t].at < Len(setup[t]) /\ Step(t) = "grant"
  BY DEF GetUsers, Doing, At, SettingUp
<1>2. CASE Passed(t)
  <2>1. exists' = [exists EXCEPT ![t] = @ \cup ({Step(t)} \cap {"tenant"})]
    BY <1>1 DEF TypeOK
  <2>2. QED
    BY <1>1, <1>2, <2>1, PassedIsSound
<1>3. CASE test' = [test EXCEPT ![t].pc = "list", ![t].seen = grants]
  <2>1. /\ Typed' /\ OthersSame(t) /\ SameCourse(t)
        /\ test'[t].pc = "list" /\ test'[t].seen = grants
        /\ test'[t].existing = test[t].existing
    BY <1>3, ReadGrantsEffect DEF TypeOK, Typed
  <2>2. TestInv(t)'
    BY <1>1, <2>1, ReadKeeps
  <2>3. Local(t)
    <3>1. test'[t].at = test[t].at /\ test'[t].at <= Len(setup[t]) /\ grants' \subseteq Tests
      BY <1>1, <2>1 DEF TypeOK, SameCourse
    <3>2. QED
      BY <1>1, <2>1, <3>1, LocalSetup
  <2>4. \A u \in grants' \cup test'[t].seen : u \in Tests /\ test'[u].at >= 1
    <3>1. \A u \in grants : u \in Tests /\ test[u].at >= 1
      BY DEF GrantsInv, TypeOK
    <3>2. QED
      BY <1>1, <2>1, <2>3, <3>1, AtGrows
  <2>5. GrantsInv'
    BY <1>1, <2>1, <2>3, <2>4, GrantsKept DEF There
  <2>6. QED
    BY <2>2, <2>3, <2>5 DEF Sound
<1>4. QED
  BY <1>2, <1>3 DEF GetUsers

LEMMA GiveTenantBackIsSound ==
    ASSUME TypeOK, GrantsInv, NEW t \in Tests, TestInv(t), GiveTenantBack(t)
    PROVE  Sound(t)
<1>1. /\ UNCHANGED <<setup, exists, marked, calling, grants, faults>> /\ SettingUp(t)
      /\ test[t].at < Len(setup[t]) /\ Step(t) \in TenantCleanups /\ Registered(t, "tenant")
      /\ "tenant" \in Things
  BY DEF GiveTenantBack, Doing, SettingUp, At, Things
<1>2. /\ Typed' /\ OthersSame(t) /\ ReadsSame(t) /\ test'[t].at = test[t].at + 1
      /\ test'[t].pc = "setup"
  BY <1>1, RegisteredEffect DEF TypeOK, Typed
<1>3. TestInv(t)'
  BY <1>1, GivenBackKeeps
<1>4. Local(t)
  <2>1. test'[t].at <= Len(setup[t]) /\ grants' \subseteq Tests
    BY <1>1, <1>2, SetupFacts DEF TypeOK
  <2>2. QED
    BY <1>1, <1>2, <2>1, LocalSetup
<1>5. GrantsInv'
  BY <1>1, <1>2, <1>4, GrantsFrame DEF ReadsSame, There
<1>6. QED
  BY <1>3, <1>4, <1>5 DEF Sound

LEMMA ExistingTenantIdsIsSound ==
    ASSUME TypeOK, GrantsInv, NEW t \in Tests, TestInv(t), ExistingTenantIds(t)
    PROVE  Sound(t)
<1> DEFINE tenants == {u \in Tests : There(u, "tenant")}
<1>1. /\ UNCHANGED <<setup, exists, marked, calling, grants, faults>> /\ test[t].pc = "list"
      /\ test' = [test EXCEPT ![t].pc = "update", ![t].existing = tenants]
  BY DEF ExistingTenantIds, At
<1>2. /\ Typed' /\ OthersSame(t) /\ SameCourse(t)
      /\ test'[t].pc = "update" /\ test'[t].seen = test[t].seen /\ test'[t].existing = tenants
  BY <1>1, ReadTenantsEffect DEF TypeOK, Typed
<1>3. test[t].at < Len(setup[t]) /\ Step(t) = "grant" /\ SettingUp(t)
  BY <1>1 DEF TestInv, FlowInv, ProgressInv, SettingUp
<1>4. TestInv(t)'
  BY <1>1, <1>2, <1>3, ReadKeeps
<1>5. Local(t)
  <2>1. test'[t].at = test[t].at /\ test'[t].at <= Len(setup[t]) /\ grants' \subseteq Tests
    BY <1>1, <1>2 DEF TypeOK, SameCourse
  <2>2. QED
    BY <1>1, <1>2, <2>1, LocalSetup
<1>6. \A u \in grants' \cup test'[t].seen : u \in Tests /\ test'[u].at >= 1
  <2>1. \A u \in grants \cup test[t].seen : u \in Tests /\ test[u].at >= 1
    BY DEF GrantsInv, TypeOK, TestRecord
  <2>2. \A u \in grants \cup test[t].seen : u \in Tests /\ test'[u].at >= 1
    BY <1>5, <2>1, AtGrows
  <2>3. QED
    BY <1>1, <1>2, <2>2
<1>7. GrantsInv'
  BY <1>1, <1>2, <1>3, <1>5, <1>6, GrantsKept DEF There
<1>8. QED
  BY <1>4, <1>5, <1>7 DEF Sound

\* A failing setup, wherever it was.
LEMMA FatalIsSound ==
    ASSUME TypeOK, GrantsInv, NEW t \in Tests, TestInv(t), SettingUp(t), Fatal(t),
           UNCHANGED <<setup, exists, marked, calling, grants>>, faults' \in 0 .. MaxFaults
    PROVE  Sound(t)
<1>1. /\ Typed' /\ OthersSame(t) /\ ReadsSame(t) /\ test'[t].at = test[t].at
      /\ test'[t].pc = "cleanup"
  BY FatalEffect DEF TypeOK, Typed
<1>2. Local(t)
  BY <1>1 DEF TypeOK, TestRecord, Local
<1>3. GrantsInv'
  BY <1>1, <1>2, GrantsFrame DEF ReadsSame, There
<1>4. QED
  BY <1>2, <1>3, FatalKeeps DEF Sound

LEMMA UpdateUserIsSound ==
    ASSUME TypeOK, GrantsInv, NEW t \in Tests, TestInv(t), UpdateUser(t)
    PROVE  Sound(t)
<1>1. /\ UNCHANGED <<setup, exists, marked, calling, faults>> /\ test[t].pc = "update"
      /\ SettingUp(t) /\ test[t].at < Len(setup[t]) /\ Step(t) = "grant"
  <2>1. test[t].pc = "update"
    BY DEF UpdateUser, At
  <2>2. QED
    BY <2>1 DEF UpdateUser, SettingUp, TestInv, FlowInv, ProgressInv
<1>2. CASE Passed(t) /\ grants' = AdminOf(t)
  <2>1. /\ Typed' /\ OthersSame(t) /\ ReadsSame(t) /\ test'[t].at = test[t].at + 1
        /\ test'[t].pc = "setup"
    BY <1>1, <1>2, PassedEffect DEF TypeOK, Typed
  <2>2. TestInv(t)'
    <3>1. exists'[t] = exists[t] \cup ({Step(t)} \cap {"tenant"})
      BY <1>1
    <3>2. QED
      BY <1>1, <1>2, <3>1, PassedKeeps
  <2>3. Local(t)
    <3>1. grants' \subseteq Tests
      BY <1>2 DEF AdminOf, TypeOK, TestRecord
    <3>2. test'[t].at <= Len(setup[t])
      BY <1>1, <2>1, SetupFacts
    <3>3. QED
      BY <1>1, <2>1, <3>1, <3>2, LocalSetup
  <2>4. \A u \in grants' \cup test'[t].seen : u \in Tests /\ test'[u].at >= 1
    <3>1. \A u \in test[t].seen : u \in Tests /\ test[u].at >= 1
      BY DEF GrantsInv, TypeOK, TestRecord
    <3>2. \A u \in test[t].seen : u \in Tests /\ test'[u].at >= 1
      BY <2>3, <3>1, AtGrows
    <3>3. test'[t].at >= 1 /\ test'[t].seen = test[t].seen
      BY <1>1, <2>1, SetupFacts DEF ReadsSame
    <3>4. QED
      BY <1>2, <3>2, <3>3 DEF AdminOf
  <2>5. GrantsInv'
    BY <1>1, <2>1, <2>3, <2>4, GrantsKept DEF There
  <2>6. QED
    BY <2>2, <2>3, <2>5 DEF Sound
<1>3. CASE Fatal(t) /\ UNCHANGED grants
  <2>1. faults' \in 0 .. MaxFaults
    BY <1>1 DEF TypeOK
  <2>2. QED
    BY <1>1, <1>3, <2>1, FatalIsSound
<1>4. QED
  BY <1>2, <1>3 DEF UpdateUser

LEMMA ApplyIsSound ==
    ASSUME TypeOK, GrantsInv, NEW t \in Tests, TestInv(t), NEW k \in Things, Apply(t, k)
    PROVE  Sound(t)
<1>1. /\ UNCHANGED <<setup, marked, calling, grants, faults>> /\ SettingUp(t)
      /\ test[t].at < Len(setup[t]) /\ Step(t) = k /\ k # "tenant" /\ Registered(t, k)
      /\ exists' = [exists EXCEPT ![t] = @ \cup {k}] /\ exists'[t] = exists[t] \cup {k}
  BY DEF Apply, Doing, SettingUp, At, TypeOK
<1>2. /\ Typed' /\ OthersSame(t) /\ ReadsSame(t) /\ test'[t].at = test[t].at + 1
      /\ test'[t].pc = "setup"
  BY <1>1, RegisteredEffect DEF TypeOK, Typed
<1>3. TestInv(t)'
  BY <1>1, RegisteredKeeps
<1>4. Local(t)
  <2>1. test'[t].at <= Len(setup[t]) /\ grants' \subseteq Tests
    BY <1>1, <1>2, SetupFacts DEF TypeOK
  <2>2. QED
    BY <1>1, <1>2, <2>1, LocalSetup
<1>5. GrantsInv'
  BY <1>1, <1>2, <1>4, GrantsFrame DEF ReadsSame, There
<1>6. QED
  BY <1>3, <1>4, <1>5 DEF Sound

LEMMA WaitStepIsSound ==
    ASSUME TypeOK, GrantsInv, NEW t \in Tests, TestInv(t), WaitStep(t)
    PROVE  Sound(t)
<1>1. /\ UNCHANGED <<setup, exists, marked, calling, grants, faults>>
      /\ test[t].pc = "setup" /\ SettingUp(t)
      /\ test[t].at < Len(setup[t]) /\ Step(t) \in Waits /\ (Step(t) = "bound" => Bound(t))
      /\ Passed(t) \/ Fatal(t)
  BY DEF WaitStep, WaitForPVCBound, WaitForPodRunning, EnsurePVCStaysUnbound, Doing, At,
         SettingUp, Waits
<1>2. CASE Passed(t)
  <2>1. exists' = [exists EXCEPT ![t] = @ \cup ({Step(t)} \cap {"tenant"})]
    BY <1>1 DEF TypeOK, Waits
  <2>2. QED
    BY <1>1, <1>2, <2>1, PassedIsSound
<1>3. CASE Fatal(t)
  <2>1. faults' \in 0 .. MaxFaults
    BY <1>1 DEF TypeOK
  <2>2. QED
    BY <1>1, <1>3, <2>1, FatalIsSound
<1>4. QED
  BY <1>1, <1>2, <1>3

LEMMA SetupFailsIsSound ==
    ASSUME TypeOK, GrantsInv, NEW t \in Tests, TestInv(t), SetupFails(t)
    PROVE  Sound(t)
<1>1. /\ UNCHANGED <<setup, exists, marked, calling, grants>> /\ SettingUp(t) /\ Fatal(t)
      /\ faults < MaxFaults /\ faults' = faults + 1
  BY DEF SetupFails, SettingUp, Fault
<1>2. faults' \in 0 .. MaxFaults
  BY <1>1, TeardownAssumption DEF TypeOK
<1>3. QED
  BY <1>1, <1>2, FatalIsSound

LEMMA BodyEndsIsSound ==
    ASSUME TypeOK, GrantsInv, NEW t \in Tests, TestInv(t), BodyEnds(t)
    PROVE  Sound(t)
<1>1. UNCHANGED <<setup, exists, marked, calling, grants, faults>> /\ Goto(t, "cleanup")
  BY DEF BodyEnds
<1>2. /\ Typed' /\ OthersSame(t) /\ ReadsSame(t) /\ test'[t].at = test[t].at
      /\ test'[t].pc = "cleanup"
  BY <1>1, GotoEffect DEF TypeOK, Typed, Phases
<1>3. Local(t)
  <2>1. test'[t].at <= Len(setup[t]) /\ grants' \subseteq Tests
    BY <1>1, <1>2 DEF TypeOK
  <2>2. QED
    BY <1>1, <1>2, <2>1, LocalSetup
<1>4. GrantsInv'
  BY <1>1, <1>2, <1>3, GrantsFrame DEF ReadsSame, There
<1>5. QED
  BY <1>1, <1>3, <1>4, BodyEndsKeeps DEF Sound

-----------------------------------------------------------------------------
(* The theorems.                                                           *)

LEMMA InitHasInv ==
    ASSUME Init
    PROVE  TeardownsInv
<1>1. /\ setup \in Suites /\ setup \in [Tests -> Seq(Steps)]
      /\ \A t \in Tests : Len(setup[t]) \in Nat
  <2>1. setup \in Suites /\ setup \in [Tests -> Seq(Steps)]
    BY TeardownAssumption DEF Init
  <2>2. QED
    BY <2>1
<1>2. TypeOK
  BY <1>1, TeardownAssumption DEF Init, TypeOK, TestRecord
<1>3. GrantsInv
  BY DEF Init, GrantsInv, At
<1>4. ASSUME NEW t \in Tests
      PROVE  TestInv(t)
  <2>1. /\ test[t].pc = "setup" /\ test[t].at = 0 /\ test[t].cleanups = <<>>
        /\ ~test[t].failed /\ ~test[t].excused /\ exists[t] = {} /\ marked[t] = {}
        /\ t \notin calling
    BY DEF Init
  <2>2. Done(t) = {} /\ Pending(t) = {} /\ DOMAIN test[t].cleanups = {}
    BY <1>2, <2>1, DoneFacts, CleanupsType
  <2>3. FlowInv(t)
    BY <2>1, <2>2 DEF FlowInv, ProgressInv, CleanupsOrdered, SettingUp, Spotless
  <2>4. ThingsInv(t)
    BY <2>1, <2>2 DEF ThingsInv, ClusterInv, Intact, Standing, TeardownInv, NeedsInv, There,
                      SettingUp, Cleaning, At
  <2>5. QED
    BY <2>3, <2>4 DEF TestInv
<1>5. QED
  BY <1>2, <1>3, <1>4 DEF TeardownsInv

LEMMA StepIsSound ==
    ASSUME TeardownsInv, NEW t \in Tests, SetupStep(t) \/ ClusterStep(t) \/ CleanupStep(t)
    PROVE  Sound(t)
<1>1. TypeOK /\ GrantsInv /\ \A u \in Tests : TestInv(u)
  BY DEF TeardownsInv
<1>2. CASE SetupStep(t)
  BY <1>1, <1>2, EnsureTenantExistsIsSound, GetUsersIsSound, ExistingTenantIdsIsSound,
     UpdateUserIsSound, GiveTenantBackIsSound, BodyEndsIsSound, WaitStepIsSound, SetupFailsIsSound, ApplyIsSound DEF SetupStep
<1>3. CASE ClusterStep(t)
  BY <1>1, <1>3, ClusterStepIsLocal, ClusterStepKeeps DEF Sound
<1>4. CASE CleanupStep(t)
  BY <1>1, <1>4, CleanupStepIsLocal, CleanupStepKeeps DEF Sound
<1>5. QED
  BY <1>2, <1>3, <1>4

LEMMA NextKeepsInv ==
    ASSUME TeardownsInv, [Next]_vars
    PROVE  TeardownsInv'
<1>1. TypeOK /\ GrantsInv /\ \A u \in Tests : TestInv(u)
  BY DEF TeardownsInv
<1>2. ASSUME NEW t \in Tests, Sound(t)
      PROVE  TeardownsInv'
  BY <1>1, <1>2, LocalKeeps DEF Sound, TeardownsInv
<1>3. CASE Next
  BY <1>2, <1>3, StepIsSound DEF Next
<1>4. CASE UNCHANGED vars
  <2>1. UNCHANGED <<setup, test, exists, marked, calling, grants, faults>>
    BY <1>4 DEF vars
  <2>2. TypeOK'
    BY <1>1, <2>1 DEF TypeOK
  <2>3. GrantsInv'
    BY <1>1, <2>1 DEF GrantsInv, At, There
  <2>4. \A u \in Tests : TestInv(u)'
    BY <1>1, <2>1, OtherTests
  <2>5. QED
    BY <2>2, <2>3, <2>4 DEF TeardownsInv
<1>5. QED
  BY <1>3, <1>4

LEMMA TeardownsInvAlways == Spec => []TeardownsInv
<1>1. Init => TeardownsInv
  BY InitHasInv
<1>2. TeardownsInv /\ [Next]_vars => TeardownsInv'
  BY NextKeepsInv
<1>3. QED
  BY <1>1, <1>2, PTL DEF Spec

\* The variables have their types, and nothing is deleted that does not exist.
THEOREM TypeCorrect == Spec => []TypeOK
<1>1. TeardownsInv => TypeOK
  BY DEF TeardownsInv
<1>2. QED
  BY <1>1, TeardownsInvAlways, PTL

\* "Until then, the credentials it uses for that must stay in place" (wait.go:270-279), for tests
\* that set up what they need in any order: a claim is made after the user, the key and the secret,
\* so it is taken down before them, and its cleanup waits for its PV, too.
THEOREM CredentialsOutliveVolumeAlways == Spec => []CredentialsOutliveVolume
<1>1. TeardownsInv => CredentialsOutliveVolume
  BY DEF TeardownsInv, TestInv, ThingsInv, NeedsInv, CredentialsOutliveVolume
<1>2. QED
  BY <1>1, TeardownsInvAlways, PTL

\* What a pod has mounted is there, and not being erased, as long as the pod is (apply.go:129-130).
THEOREM MountedHasVolumeAlways == Spec => []MountedHasVolume
<1>1. TeardownsInv => MountedHasVolume
  BY DEF TeardownsInv, TestInv, ThingsInv, NeedsInv, ClusterInv, MountedHasVolume, There
<1>2. QED
  BY <1>1, TeardownsInvAlways, PTL

\* A test of one claim that passes, no call of its teardown having failed, leaves at most a tenant
\* that it keeps, or deletes without emptying it (namespace_tenant_mapping_test.go:186-190), and in
\* it a volume that the backend is erasing.  Only a test that empties its tenant first
\* (volume.go:258-285) leaves nothing.
THEOREM NothingLeaksAlways == Spec => []NothingLeaks
<1>1. ASSUME TeardownsInv, NEW t \in Tests, At(t, "ended"), ~test[t].failed, ~test[t].excused
      PROVE  exists[t] \subseteq
                 IF Has(t, "emptied") THEN {} ELSE {"tenant"} \cup ({"volume"} \cap marked[t])
  <2>1. /\ FlowInv(t) /\ ClusterInv(t) /\ TeardownInv(t) /\ Spotless(t) /\ ~SettingUp(t)
        /\ test[t].cleanups = <<>> /\ test[t].at = Len(setup[t]) /\ TypeOK
    BY <1>1 DEF TeardownsInv, TestInv, ThingsInv, FlowInv, ProgressInv, At, Spotless, SettingUp
  <2>2. Pending(t) = {}
    BY <2>1, CleanupsType
  <2>3. Dynamic(t) => ~There(t, "pv")
    BY <2>1, <2>2 DEF TeardownInv
  <2>4. \A k \in exists[t] : k = "tenant" \/ (k = "volume" /\ Dynamic(t))
    BY <2>1, <2>2, <2>3 DEF TeardownInv, ClusterInv, There
  <2>5. CASE Has(t, "emptied")
    BY <2>1, <2>2, <2>4, <2>5 DEF TeardownInv, There
  <2>6. CASE ~Has(t, "emptied")
    <3>1. ASSUME There(t, "volume"), Dynamic(t)
          PROVE  "volume" \in marked[t]
      <4>1. "pvc" \in Done(t)
        BY <2>1, <3>1 DEF ClusterInv
      <4>2. "bound" \in Done(t)
        BY <2>1, <2>6, <3>1, <4>1, SetupFacts, DoneFacts
      <4>3. QED
        BY <2>1, <2>3, <3>1, <4>2 DEF ClusterInv
    <3>2. QED
      BY <2>4, <2>6, <3>1 DEF There
  <2>7. QED
    BY <2>5, <2>6
<1>2. TeardownsInv => NothingLeaks
  BY <1>1 DEF NothingLeaks
<1>3. QED
  BY <1>2, TeardownsInvAlways, PTL

\* Of the admin rights that the tests' shared API user holds, one on a tenant that is there is lost
\* only to another test's update that began before it was given, and an update is refused only for
\* a tenant that went after it was listed (tenant.go:62-78).
THEOREM GrantsAreKeptAlways == Spec => GrantsAreKept
<1> DEFINE Kept(t) ==
             /\ t \in grants \ grants' /\ There(t, "tenant") =>
                   \E u \in Tests : At(u, "update") /\ t \notin test[u].seen
             /\ At(t, "update") /\ test'[t].failed /\ faults' = faults =>
                   \E u \in test[t].existing : ~There(u, "tenant")
<1>1. ASSUME TeardownsInv, [Next]_vars, NEW t \in Tests
      PROVE  Kept(t)
  <2>1. TypeOK /\ GrantsInv /\ \A u \in Tests : TestInv(u)
    BY <1>1 DEF TeardownsInv
  <2>2. ASSUME t \in grants \ grants', There(t, "tenant")
        PROVE  \E u \in Tests : At(u, "update") /\ t \notin test[u].seen
    <3>1. PICK u \in Tests : UpdateUser(u) /\ grants' = AdminOf(u)
      <4>1. ~UNCHANGED grants
        BY <2>2
      <4>2. PICK u \in Tests : SetupStep(u) \/ ClusterStep(u) \/ CleanupStep(u)
        BY <1>1, <4>1 DEF Next, vars
      <4>3. ~ClusterStep(u) /\ ~CleanupStep(u)
        BY <2>1, <4>1, CleanupStepThings DEF ClusterStep
      <4>4. UpdateUser(u)
        BY <4>1, <4>2, <4>3 DEF SetupStep, EnsureTenantExists, GetUsers,
                               ExistingTenantIds, GiveTenantBack, BodyEnds, WaitStep, SetupFails,
                               Apply
      <4>5. QED
        BY <4>1, <4>4 DEF UpdateUser
    <3>2. t \notin test[u].seen \/ t \notin test[u].existing
      BY <2>2, <3>1 DEF AdminOf
    <3>3. At(u, "update") /\ (t \in test[u].seen => t \in test[u].existing)
      BY <2>1, <2>2, <3>1 DEF UpdateUser, GrantsInv
    <3>4. QED
      BY <3>2, <3>3
  <2>3. ASSUME At(t, "update"), test'[t].failed, faults' = faults
        PROVE  \E u \in test[t].existing : ~There(u, "tenant")
    <3>1. /\ ~test[t].failed /\ There(t, "tenant") /\ test[t].pc = "update"
          /\ faults \in Nat
      <4>1. /\ ~test[t].failed /\ test[t].pc = "update" /\ faults \in Nat /\ SettingUp(t)
            /\ test[t].at < Len(setup[t]) /\ Step(t) = "grant"
        BY <2>1, <2>3, TeardownAssumption
           DEF TestInv, FlowInv, ProgressInv, SettingUp, Spotless, At, TypeOK
      <4>2. test[t].at >= 1
        BY <2>1, <4>1, TenantIsFirst, SetupFacts
      <4>3. "tenant" \in Done(t) \cap Things
        BY <2>1, <4>2, DoneFacts DEF Things
      <4>4. QED
        BY <2>1, <4>1, <4>3 DEF TestInv, ThingsInv, Intact, There
    <3>2. PICK u \in Tests : SetupStep(u) \/ ClusterStep(u) \/ CleanupStep(u)
      BY <1>1, <2>3, <3>1 DEF Next, vars
    <3>3. u = t
      <4>1. Local(u)
        BY <1>1, <2>1, <3>2, StepIsSound DEF Sound
      <4>2. QED
        BY <2>3, <3>1, <4>1 DEF Local, OthersSame
    <3>4. ~ClusterStep(t) /\ ~CleanupStep(t)
      <4>1. ~CleanupStep(t)
        BY <3>1 DEF CleanupStep, RunCleanup, DeleteObject, DeleteObjectFails, WaitForGone,
           PvIsReclaimedByDeletion, WaitGivesUp, DeleteInQuobyte, DeleteVolumesInTenant,
           DeleteTenant, Cleaning, At
      <4>2. QED
        BY <2>3, <3>1, <4>1 DEF ClusterStep
    <3>5. UpdateUser(t)
      BY <2>3, <3>1, <3>2, <3>3, <3>4
         DEF SetupStep, EnsureTenantExists, GetUsers, ExistingTenantIds, GiveTenantBack, BodyEnds,
             WaitStep, WaitForPVCBound, WaitForPodRunning, EnsurePVCStaysUnbound, SetupFails, Fault, Apply, Doing, At
    <3>6. ~Passed(t)
      BY <2>1, <2>3, <3>1, PassedEffect DEF TypeOK, Typed
    <3>7. PICK v \in AdminOf(t) : ~There(v, "tenant")
      BY <3>5, <3>6 DEF UpdateUser
    <3>8. QED
      BY <3>1, <3>7 DEF AdminOf
  <2>4. QED
    BY <2>2, <2>3
<1>2. TeardownsInv /\ [Next]_vars => [\A t \in Tests : Kept(t)]_vars
  BY <1>1
<1>3. QED
  BY <1>2, TeardownsInvAlways, PTL DEF Spec, GrantsAreKept
=============================================================================
