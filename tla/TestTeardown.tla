---------------------------- MODULE TestTeardown ----------------------------
(***************************************************************************)
(* The framework of the end-to-end tests (e2e-tests/framework): tests that *)
(* run at the same time, on clusters of their own but one Quobyte          *)
(* installation, set up users, secrets, claims and pods, and take them     *)
(* down again in the opposite order.  Each step of the teardown waits for  *)
(* what the next one takes away the means for.                             *)
(*                                                                         *)
(* A test is the sequence of its setup steps, which create the thing they  *)
(* are named for and register its cleanup, or wait.  Kubernetes and the    *)
(* driver act on what is there; the driver is taken at its promises, and   *)
(* needs the test's credentials for them.                                  *)
(***************************************************************************)
EXTENDS Naturals, Sequences, FiniteSets

CONSTANTS
    Tests,       \* the tests; each names its tenant, too
    Suites,      \* what the tests may be: for each of them, its setup steps
    FaultKinds,  \* the faults that may happen
    MaxFaults    \* bound: how many of them happen in one behaviour

Things == {"tenant", "user", "key", "secret", "class", "volume", "pv", "pvc", "pod"}

Waits == {"bound", "refused", "running"}

\* Cleanups that a test registers for a tenant of its own: it is deleted with the volumes that
\* are still in it, or just deleted.  The tenant of a run is kept.
TenantCleanups == {"emptied", "deleted"}

Steps == Things \cup Waits \cup TenantCleanups \cup {"grant"}

ASSUME TeardownAssumption ==
    /\ \A s \in Suites :
         s \in [Tests -> Seq(Steps)] /\ \A t \in Tests : s[t][1] = "tenant"
    /\ MaxFaults \in Nat /\ FaultKinds \subseteq {"api", "slow", "assert"}

\* What a test does after another step, as that is needed, or cleaned up, later.
Precedes ==
    {"user", "key", "secret"} \X {"pvc"} \cup {<<"secret", "pod">>, <<"volume", "pv">>}
        \cup TenantCleanups \X (Things \ {"tenant"})

\* A test here is one claim with what it needs, so one of the repository may be several.  A PV of
\* its own is for a volume of its own; a claim that the driver is to provision is waited for, until
\* it is bound or sure to be refused; and one that is refused, its quota not being granted, is in a
\* tenant that the test empties (storage_class_parameters_test.go:147-195).
ASSUME SuitesAssumption ==
    \A s \in Suites, t \in Tests :
        LET steps == {s[t][i] : i \in DOMAIN s[t]}
        IN  /\ s[t] # <<>>
            /\ \A i, j \in DOMAIN s[t] :
                 /\ s[t][i] = s[t][j] /\ s[t][i] \in Things => i = j
                 /\ s[t][i] \in TenantCleanups /\ s[t][j] \in TenantCleanups => i = j
                 /\ <<s[t][i], s[t][j]>> \in Precedes => i < j
            /\ "volume" \in steps <=> "pv" \in steps
            /\ "pvc" \in steps /\ "pv" \notin steps => {"bound", "refused"} \cap steps # {}
            /\ "refused" \in steps => "emptied" \in steps

VARIABLES
    setup,    \* the setup of each test
    test,     \* how far each test is
    exists,   \* the things of each test that exist; "mount" is its pod's
    marked,   \* those that are being deleted: terminating, or erased by the backend
    calling,  \* the tests whose CreateVolume is running in the driver
    grants,   \* the tests whose tenants the shared API user is an admin of
    faults    \* how many faults happened

vars == <<setup, test, exists, marked, calling, grants, faults>>

TestRecord ==
    [pc : {"setup", "list", "update", "cleanup", "delete", "wait", "policy", "reclaim",
           "tenant", "ended"},
     at : Nat,                     \* how many setup steps are done
     cleanups : Seq(Things),       \* the cleanups registered, the last at the end
     failed : BOOLEAN,             \* t.Failed()
     seen : SUBSET Tests,          \* the API user's tenants when they were read
     existing : SUBSET Tests,      \* existingTenants
     boundPv : BOOLEAN,            \* boundPVName, and that it is not ""
     excused : BOOLEAN]            \* a call of the teardown failed, or a wait was given up

TypeOK ==
    /\ setup \in Suites
    /\ test \in [Tests -> TestRecord]
    /\ \A t \in Tests : test[t].at <= Len(setup[t])
    /\ exists \in [Tests -> SUBSET (Things \cup {"mount"})] /\ marked \in [Tests -> SUBSET Things]
    /\ \A t \in Tests : marked[t] \subseteq exists[t]
    /\ calling \subseteq Tests /\ grants \subseteq Tests
    /\ faults \in 0 .. MaxFaults

-----------------------------------------------------------------------------

Fault(kind) ==
    /\ kind \in FaultKinds
    /\ faults < MaxFaults
    /\ faults' = faults + 1

Has(t, step) == \E i \in DOMAIN setup[t] : setup[t][i] = step

Dynamic(t) == ~Has(t, "pv")

There(t, k) == k \in exists[t]

Bound(t) == There(t, "pvc") /\ There(t, "pv")

At(t, pc) == test[t].pc = pc

\* What the API wants to see: the user, and the key if the secret holds one.
LoginWorks(t) == There(t, "user") /\ (Has(t, "key") => There(t, "key"))

Step(t) == setup[t][test[t].at + 1]

Doing(t, step) == At(t, "setup") /\ test[t].at < Len(setup[t]) /\ Step(t) = step

Top(t) == test[t].cleanups[Len(test[t].cleanups)]

Cleaning(t, pc, k) == At(t, pc) /\ test[t].cleanups # <<>> /\ Top(t) = k

Goto(t, pc) == test' = [test EXCEPT ![t].pc = pc]

\* The step is done, and its cleanup registered.
Registered(t, k) ==
    test' = [test EXCEPT ![t].pc = "setup", ![t].at = @ + 1, ![t].cleanups = Append(@, k)]

Passed(t) == test' = [test EXCEPT ![t].pc = "setup", ![t].at = @ + 1]

\* t.Fatal, or a require that does not hold.
Fatal(t) == test' = [test EXCEPT ![t].pc = "cleanup", ![t].failed = TRUE]

Popped(t, excuse) ==
    [test EXCEPT ![t].pc = "cleanup", ![t].cleanups = SubSeq(@, 1, Len(@) - 1),
                 ![t].excused = @ \/ excuse]

-----------------------------------------------------------------------------
(* Setup.                                                                  *)

EnsureTenantExists(t) ==
    /\ Doing(t, "tenant")
    /\ exists' = [exists EXCEPT ![t] = @ \cup {"tenant"}]
    /\ Passed(t)
    /\ UNCHANGED <<setup, marked, calling, grants, faults>>

\* What else EnsureTenant does begins with reading the shared user.
GetUsers(t) ==
    /\ Doing(t, "grant")
    /\ IF t \in grants THEN Passed(t)
       ELSE test' = [test EXCEPT ![t].pc = "list", ![t].seen = grants]
    /\ UNCHANGED <<setup, exists, marked, calling, grants, faults>>

ExistingTenantIds(t) ==
    /\ At(t, "list")
    /\ test' = [test EXCEPT ![t].pc = "update",
                            ![t].existing = {u \in Tests : There(u, "tenant")}]
    /\ UNCHANGED <<setup, exists, marked, calling, grants, faults>>

\* Mutant: mappings to tenants that are gone travel back to the API.
AdminOf_unpruned(t) == test[t].seen \cup {t}

AdminOf(t) == (test[t].seen \cap test[t].existing) \cup {t}

\* The update replaces the mappings; with an unknown tenant the API refuses it.
UpdateUser(t) ==
    /\ At(t, "update")
    /\ IF \A u \in AdminOf(t) : There(u, "tenant")
       THEN Passed(t) /\ grants' = AdminOf(t)
       ELSE Fatal(t) /\ UNCHANGED grants
    /\ UNCHANGED <<setup, exists, marked, calling, faults>>

GiveTenantBack(t) ==
    /\ \E step \in TenantCleanups : Doing(t, step)
    /\ Registered(t, "tenant")
    /\ UNCHANGED <<setup, exists, marked, calling, grants, faults>>

\* CreateTestUser, CreateAccessKey, CreateVolumeOwnedBy and the Apply helpers.
Apply(t, k) ==
    /\ k # "tenant" /\ Doing(t, k)
    /\ exists' = [exists EXCEPT ![t] = @ \cup {k}]
    /\ Registered(t, k)
    /\ UNCHANGED <<setup, marked, calling, grants, faults>>

WaitForPVCBound(t) == Doing(t, "bound") /\ Bound(t) /\ Passed(t)

WaitForPodRunning(t) == Doing(t, "running") /\ There(t, "mount") /\ Passed(t)

\* Time runs out, the success case, or the claim binds.
EnsurePVCStaysUnbound(t) ==
    /\ Doing(t, "refused")
    /\ IF Bound(t) THEN Fatal(t) ELSE Passed(t)

WaitStep(t) ==
    /\ WaitForPVCBound(t) \/ WaitForPodRunning(t) \/ EnsurePVCStaysUnbound(t)
    /\ UNCHANGED <<setup, exists, marked, calling, grants, faults>>

\* A call fails, a wait times out, or an assertion of the test does not hold.
SetupFails(t) ==
    /\ test[t].pc \in {"setup", "list", "update"}
    /\ \E kind \in {"api", "slow", "assert"} :
         /\ kind = "slow" => test[t].at < Len(setup[t]) /\ Step(t) \in {"bound", "running"}
         /\ Fault(kind)
    /\ Fatal(t)
    /\ UNCHANGED <<setup, exists, marked, calling, grants>>

BodyEnds(t) ==
    /\ At(t, "setup") /\ test[t].at = Len(setup[t])
    /\ Goto(t, "cleanup")
    /\ UNCHANGED <<setup, exists, marked, calling, grants, faults>>

SetupStep(t) ==
    \/ EnsureTenantExists(t) \/ GetUsers(t) \/ ExistingTenantIds(t) \/ UpdateUser(t)
    \/ GiveTenantBack(t) \/ WaitStep(t) \/ BodyEnds(t) \/ SetupFails(t)
    \/ \E k \in Things : Apply(t, k)

-----------------------------------------------------------------------------
(* Kubernetes and the driver.                                              *)

Unmarked(t, k) == There(t, k) /\ k \notin marked[t]

\* The provisioner calls CreateVolume, which the driver may still run when the claim is gone.
CallCreateVolume(t) ==
    /\ Dynamic(t) /\ t \notin calling /\ Unmarked(t, "pvc") /\ ~There(t, "pv")
    /\ There(t, "secret") /\ There(t, "class")
    /\ calling' = calling \cup {t}
    /\ UNCHANGED <<exists, marked>>

\* The volume is created, and then bound, or its quota is refused and it is rolled back.
CreateVolume(t) ==
    /\ t \in calling
    /\ IF ~LoginWorks(t) THEN calling' = calling \ {t} /\ UNCHANGED exists
       ELSE IF ~There(t, "volume")
       THEN exists' = [exists EXCEPT ![t] = @ \cup {"volume"}] /\ UNCHANGED calling
       ELSE /\ calling' = calling \ {t}
            /\ exists' = [exists EXCEPT ![t] =
                            IF Has(t, "refused") THEN @ \ {"volume"} ELSE @ \cup {"pv"}]
    /\ UNCHANGED marked

\* DeleteVolume of the released PV needs the secret; erasing is only scheduled.
MayReclaim(t) ==
    Dynamic(t) /\ There(t, "pv") /\ ~There(t, "pvc") /\ There(t, "secret") /\ LoginWorks(t)

Reclaim(t) ==
    /\ MayReclaim(t)
    /\ exists' = [exists EXCEPT ![t] = @ \ {"pv"}]
    /\ marked' = [marked EXCEPT ![t] = @ \cup ({"volume"} \cap exists[t])]
    /\ UNCHANGED calling

PodRuns(t) ==
    /\ Unmarked(t, "pod") /\ ~There(t, "mount") /\ Bound(t) /\ There(t, "secret")
    /\ exists' = [exists EXCEPT ![t] = @ \cup {"mount"}]
    /\ UNCHANGED <<marked, calling>>

\* A claim in use and a bound PV stay until what uses them is gone.
Holders(t, k) ==
    exists[t] \cap (CASE k = "pvc" -> {"pod"} [] k = "pv" -> {"pvc", "pod"} [] OTHER -> {})

Goes(t, k) ==
    /\ k \in marked[t] /\ Holders(t, k) = {}
    /\ exists' = [exists EXCEPT ![t] = @ \ IF k = "pod" THEN {"pod", "mount"} ELSE {k}]
    /\ marked' = [marked EXCEPT ![t] = @ \ {k}]
    /\ UNCHANGED calling

ClusterStep(t) ==
    /\ CallCreateVolume(t) \/ CreateVolume(t) \/ Reclaim(t) \/ PodRuns(t)
       \/ \E k \in Things : Goes(t, k)
    /\ UNCHANGED <<setup, test, grants, faults>>

\* What the cleanup waits for will not go by itself.
Stuck(t) ==
    IF test[t].pc = "reclaim" THEN ~MayReclaim(t)
    ELSE ~({Top(t)} \cup Holders(t, Top(t)) \subseteq marked[t])

-----------------------------------------------------------------------------
(* Teardown.                                                               *)

\* A cleanup begins with a deletion; what is in a tenant goes first if the test empties it.
CleanupUnlessFailed(t) ==
    IF test[t].failed THEN test' = Popped(t, FALSE)
    ELSE Goto(t, IF Top(t) = "tenant" /\ Has(t, "deleted") THEN "tenant" ELSE "delete")

RunCleanup(t) ==
    /\ At(t, "cleanup")
    /\ IF test[t].cleanups = <<>> THEN Goto(t, "ended") ELSE CleanupUnlessFailed(t)
    /\ UNCHANGED <<setup, exists, marked, calling, grants, faults>>

\* ApplyPVC's cleanup reads the claim; without an answer it is taken as not bound.
ReadClaim(t, fails) == [test EXCEPT ![t].boundPv = Bound(t) /\ ~fails, ![t].pc = "wait"]

\* Kubernetes only marks what is deleted, except for what nothing protects.
DeleteObject(t) ==
    /\ At(t, "delete") /\ Top(t) \in {"pvc", "pod", "pv", "secret", "class"}
    /\ test' = IF Top(t) = "pvc" THEN ReadClaim(t, FALSE) ELSE [test EXCEPT ![t].pc = "wait"]
    /\ IF Top(t) \in {"secret", "class"}
       THEN exists' = [exists EXCEPT ![t] = @ \ {Top(t)}] /\ UNCHANGED marked
       ELSE marked' = [marked EXCEPT ![t] = @ \cup ({Top(t)} \cap exists[t])] /\ UNCHANGED exists
    /\ UNCHANGED <<setup, calling, grants, faults>>

\* The error of a deletion is dropped; the error of reading a claim, too.
DeleteObjectFails(t) ==
    /\ At(t, "delete") /\ Top(t) \in {"pvc", "pod", "pv", "secret", "class"}
    /\ Fault("api")
    /\ \/ /\ test' = [IF Top(t) = "pvc" THEN ReadClaim(t, FALSE) ELSE test
                        EXCEPT ![t].pc = "wait", ![t].excused = TRUE]
          /\ UNCHANGED marked
       \/ /\ Top(t) = "pvc"
          /\ test' = [ReadClaim(t, TRUE) EXCEPT ![t].excused = TRUE]
          /\ marked' = [marked EXCEPT ![t] = @ \cup {"pvc"}]
    /\ UNCHANGED <<setup, exists, calling, grants>>

\* Mutant: deleting is enough.
Gone_at_once(t) == TRUE

Gone(t) == IF At(t, "reclaim") THEN ~There(t, "pv") ELSE ~There(t, Top(t))

\* Mutant: nobody waits for the PV.
AfterWait_claim_only(t) == test' = Popped(t, FALSE)

\* When the claim is gone its PV is waited for, too.
AfterWait(t) ==
    IF Cleaning(t, "wait", "pvc") /\ test[t].boundPv THEN Goto(t, "policy")
    ELSE test' = Popped(t, FALSE)

WaitForGone(t) ==
    /\ test[t].pc \in {"wait", "reclaim"} /\ Gone(t)
    /\ AfterWait(t)
    /\ UNCHANGED <<setup, exists, marked, calling, grants, faults>>

PvIsReclaimedByDeletion(t) ==
    /\ At(t, "policy")
    /\ IF There(t, "pv") /\ Dynamic(t) THEN Goto(t, "reclaim") ELSE test' = Popped(t, FALSE)
    /\ UNCHANGED <<setup, exists, marked, calling, grants, faults>>

\* Mutant: a wait for what never goes is waited to its end.
WaitGivesUp_when_slow(t) ==
    /\ test[t].pc \in {"wait", "policy", "reclaim"} /\ (Fault("api") \/ Fault("slow"))
    /\ test' = Popped(t, TRUE)
    /\ UNCHANGED <<setup, exists, marked, calling, grants>>

\* Polling ends with the first failed call, or when time is out.
WaitGivesUp(t) ==
    /\ \/ test[t].pc \in {"wait", "policy", "reclaim"} /\ Fault("api")
       \/ /\ test[t].pc \in {"wait", "reclaim"} /\ ~Gone(t)
          /\ Fault("slow") \/ (Stuck(t) /\ UNCHANGED faults)
    /\ test' = Popped(t, TRUE)
    /\ UNCHANGED <<setup, exists, marked, calling, grants>>

\* DeleteUser, DeleteAccessKey and DeleteVolume; a failure is a warning.
DeleteInQuobyte(t) ==
    /\ At(t, "delete") /\ Top(t) \in {"user", "key", "volume"}
    /\ \/ /\ exists' = [exists EXCEPT ![t] = @ \ {Top(t)}] /\ UNCHANGED faults
          /\ test' = Popped(t, FALSE)
       \/ Fault("api") /\ UNCHANGED exists /\ test' = Popped(t, TRUE)
    /\ UNCHANGED <<setup, marked, calling, grants>>

\* Mutant: a test's tenant is deleted with whatever is in it being left to the driver.
DeleteVolumesInTenant_skipped(t) ==
    /\ Cleaning(t, "delete", "tenant")
    /\ Goto(t, "tenant")
    /\ UNCHANGED <<setup, exists, marked, calling, grants, faults>>

\* Mutant: what was deleted is still being erased.
DeleteVolumesInTenant_erases(t) ==
    /\ Cleaning(t, "delete", "tenant")
    /\ exists' = [exists EXCEPT ![t] = @ \ {"volume"}]
    /\ Goto(t, "tenant")
    /\ UNCHANGED <<setup, marked, calling, grants, faults>>

\* What the driver had erased may still be there.
DeleteVolumesInTenant(t) ==
    /\ Cleaning(t, "delete", "tenant")
    /\ \/ /\ exists' = [exists EXCEPT ![t] = @ \ {"volume"}]
          /\ marked' = [marked EXCEPT ![t] = @ \ {"volume"}]
          /\ Goto(t, "tenant") /\ UNCHANGED faults
       \/ /\ Fault("api") /\ UNCHANGED <<exists, marked>>
          /\ test' = [test EXCEPT ![t].pc = "tenant", ![t].excused = TRUE]
    /\ UNCHANGED <<setup, calling, grants>>

\* "A tenant that still holds volumes cannot be deleted"; the mappings to it stay.
DeleteTenant(t) ==
    /\ At(t, "tenant")
    /\ \/ /\ exists' = [exists EXCEPT ![t] = @ \ IF There(t, "volume") THEN {} ELSE {"tenant"}]
          /\ test' = Popped(t, FALSE) /\ UNCHANGED faults
       \/ Fault("api") /\ UNCHANGED exists /\ test' = Popped(t, TRUE)
    /\ UNCHANGED <<setup, marked, calling, grants>>

CleanupStep(t) ==
    \/ RunCleanup(t) \/ DeleteObject(t) \/ DeleteObjectFails(t) \/ WaitForGone(t)
    \/ PvIsReclaimedByDeletion(t) \/ WaitGivesUp(t) \/ DeleteInQuobyte(t)
    \/ DeleteVolumesInTenant(t) \/ DeleteTenant(t)

-----------------------------------------------------------------------------

Init ==
    /\ setup \in Suites
    /\ test = [t \in Tests |->
                 [pc |-> "setup", at |-> 0, cleanups |-> <<>>, failed |-> FALSE, seen |-> {},
                  existing |-> {}, boundPv |-> FALSE, excused |-> FALSE]]
    /\ exists = [t \in Tests |-> {}] /\ marked = [t \in Tests |-> {}]
    /\ calling = {} /\ grants = {} /\ faults = 0

Next == \E t \in Tests : SetupStep(t) \/ ClusterStep(t) \/ CleanupStep(t)

\* A test runs on, and so do its cluster and the driver in it.
Fairness ==
    \A t \in Tests : WF_vars(SetupStep(t) \/ CleanupStep(t)) /\ WF_vars(ClusterStep(t))

Spec == Init /\ [][Next]_vars /\ Fairness

-----------------------------------------------------------------------------
(* Properties.                                                             *)

\* "Until then, the credentials it uses for that must stay in place" (wait.go:270-279): while a
\* PV waits for the driver to delete its volume, user, key and secret are there.  A wait that
\* timed out, and any call that failed, are excuses: polling stops at the first one
\* (wait.go:243-245), and a claim that could not be read counts as not bound (apply.go:101).
CredentialsOutliveVolume ==
    \A t \in Tests :
        There(t, "pv") /\ Dynamic(t) /\ ~test[t].excused => LoginWorks(t) /\ There(t, "secret")

\* "Gone, not merely terminating, before the next step takes away the volume it still has
\* mounted" (apply.go:129-130).
MountedHasVolume ==
    \A t \in Tests :
        There(t, "mount") /\ ~test[t].excused => Unmarked(t, "volume") /\ There(t, "secret")

\* A test that passes leaves no more than a tenant and a volume that is being erased: no claim,
\* PV, credentials or mount, and no volume that nobody will ever erase.  One that empties its
\* tenant, as it "cannot be deleted" before (volume.go:258-285, tenant_isolation_test.go:47-54),
\* leaves nothing at all, though the driver's erasures, or a CreateVolume for its deleted claim,
\* may still be to come.
NothingLeaks ==
    \A t \in Tests :
        At(t, "ended") /\ ~test[t].failed /\ ~test[t].excused =>
            exists[t] \subseteq
                IF Has(t, "emptied") THEN {} ELSE {"tenant"} \cup ({"volume"} \cap marked[t])

\* Two tests that grant the shared API user their tenants at the same time may lose one of the
\* grants, as the update replaces them all (tenant.go:62-78); but only then.  And granting
\* fails for a tenant that is gone only when it went after they were listed: "nothing prunes
\* the mappings they leave behind on a shared user, so they are dropped here"
\* (tenant.go:65-66).
GrantsAreKept ==
    [][\A t \in Tests :
         /\ t \in grants \ grants' /\ There(t, "tenant") =>
               \E u \in Tests : At(u, "update") /\ t \notin test[u].seen
         /\ At(t, "update") /\ test'[t].failed /\ faults' = faults =>
               \E u \in test[t].existing : ~There(u, "tenant")]_vars

\* Every test ends: "a wait that times out is logged and the remaining steps still run"
\* (apply.go:23-24).
TestsEnd == \A t \in Tests : <>At(t, "ended")
=============================================================================
