--------------------------- MODULE DriverProcess ---------------------------
(***************************************************************************)
(* One driver process: main and Run (src/cmd/main.go, src/driver/driver.go) *)
(* bring up a gRPC server on a unix socket, its goroutines serve           *)
(* CreateVolume up to the point where the volume is asked for, sharing the  *)
(* cache of API clients.  When the process ends, its container starts it   *)
(* again, and finds the socket file that the last one left.                *)
(*                                                                         *)
(* Each goroutine looks at the parameters in an order of its own, as Go    *)
(* iterates over maps.  What becomes of the volume is in DedicatedVolumes  *)
(* and SharedVolumes.                                                      *)
(***************************************************************************)
EXTENDS CreateRequest, ClientCache

CONSTANTS
    Options,     \* the command lines that the process may have been given
    Requests,    \* the CreateVolume requests, by name
    WhoAmI,      \* the API's user and primary group for each user's credentials
    Handlers,    \* slots for the goroutines that serve gRPC calls
    FaultKinds,  \* the faults of the environment that may happen
    MaxFaults    \* bound: how many of them happen in one behaviour

ASSUME ProcessAssumption ==
    /\ \A r \in DOMAIN Requests : Credentials(Requests[r].secrets).user \in DOMAIN WhoAmI \cup {<<>>}
    /\ FaultKinds \subseteq {"api", "fs", "crash"} /\ MaxFaults \in Nat

\* Kubernetes names a PV after its claim's unique id, and no StorageClass names a shared volume
\* like one of them.
ASSUME NamesAssumption ==
    \A r, s \in DOMAIN Requests :
        /\ r # s => Requests[r].name # Requests[s].name
        /\ \A key \in DOMAIN Requests[s].parameters :
             Lower[key] = "sharedvolumename" => Requests[s].parameters[key] # Requests[r].name

VARIABLES
    options,   \* the command line
    process,   \* how far main and Run are
    socket,    \* the socket file: none, left by a dead process, or listened on
    cache,     \* the client cache
    handler,   \* the goroutines
    faults     \* how many faults happened

vars == <<options, process, socket, cache, handler, faults>>

AllCredentials == {Credentials(Requests[r].secrets) : r \in DOMAIN Requests}

TypeOK ==
    /\ options \in Options
    /\ process \in {"down", "checked", "bare", "serving"}
    /\ socket \in {"none", "left", "live"}
    /\ (process = "serving") = (socket = "live")
    /\ Len(cache) <= CacheSize /\ \A i \in DOMAIN cache : cache[i].client \in AllCredentials
    /\ \A i, j \in DOMAIN cache : cache[i].key = cache[j].key => i = j
    /\ \A h \in Handlers :
         /\ handler[h].pc \in {"idle", "get", "add", "whoami", "parse", "created"}
         /\ handler[h].client \in AllCredentials \cup {NoCredentials}
         /\ handler[h].pc # "idle" => handler[h].left \subseteq DOMAIN Requests[handler[h].request].parameters
    /\ faults \in 0 .. MaxFaults

-----------------------------------------------------------------------------
(* Start-up.                                                               *)

Fault(kind) ==
    /\ kind \in FaultKinds
    /\ faults < MaxFaults
    /\ faults' = faults + 1

\* The checks of main and Run; with an error the process ends.
Accepted(o) == o.quobyteVersion \in {3, 4} /\ o.apiUrl /\ o.mountPath /\ o.name /\ o.version /\ o.unix

Start ==
    /\ process = "down" /\ Accepted(options)
    /\ process' = "checked"
    /\ UNCHANGED <<options, socket, cache, handler, faults>>

\* Mutant: the socket file is left where it is.
RemoveSocket_skipped ==
    /\ process = "checked"
    /\ process' = "bare"
    /\ UNCHANGED <<options, socket, cache, handler, faults>>

RemoveSocket ==
    /\ process = "checked"
    /\ \/ process' = "bare" /\ socket' = "none" /\ UNCHANGED faults
       \/ process' = "down" /\ UNCHANGED socket /\ Fault("fs")
    /\ UNCHANGED <<options, cache, handler>>

\* net.Listen fails at a file that is there, then the process ends.
Listen ==
    /\ process = "bare"
    /\ IF socket = "none" THEN process' = "serving" /\ socket' = "live"
       ELSE process' = "down" /\ UNCHANGED socket
    /\ UNCHANGED <<options, cache, handler, faults>>

NoHandler == [pc |-> "idle", request |-> "", client |-> NoCredentials, left |-> {},
              fields |-> <<>>]

Crash ==
    /\ process # "down"
    /\ Fault("crash")
    /\ process' = "down"
    /\ socket' = IF socket = "live" THEN "left" ELSE socket
    /\ cache' = <<>>
    /\ handler' = [h \in Handlers |-> NoHandler]
    /\ UNCHANGED options

Startup == Start \/ RemoveSocket \/ Listen

-----------------------------------------------------------------------------
(* CreateVolume.                                                           *)

RequestOf(h) == Requests[handler[h].request]

CredentialsOf(h) == Credentials(RequestOf(h).secrets)

At(h, pc) == handler[h].pc = pc

\* The call ends with an error, or its answer was taken.
End(h) == handler' = [handler EXCEPT ![h] = NoHandler]

\* Of requests that end before the API is called nothing is left to see.
CreateVolume(h, r) ==
    LET request == Requests[r]
    IN  /\ process = "serving" /\ At(h, "idle")
        /\ Validated(request) /\ request.snapshot = <<>>
        /\ Credentials(request.secrets) # NoCredentials
        /\ handler' = [handler EXCEPT ![h] = [NoHandler EXCEPT !.pc = "get", !.request = r]]
        /\ UNCHANGED <<options, process, socket, cache, faults>>

GetClient(h) ==
    LET key == CacheKey(CredentialsOf(h))
    IN  /\ At(h, "get")
        /\ IF Cached(cache, key)
           THEN /\ handler' = [handler EXCEPT ![h].pc = "whoami", ![h].client = ClientFor(cache, key)]
                /\ cache' = Touched(cache, key)
           ELSE handler' = [handler EXCEPT ![h].pc = "add"] /\ UNCHANGED cache
        /\ UNCHANGED <<options, process, socket, faults>>

AddClient(h) ==
    /\ At(h, "add")
    /\ handler' = [handler EXCEPT ![h].pc = "whoami", ![h].client = CredentialsOf(h)]
    /\ cache' = Added(cache, CacheKey(CredentialsOf(h)), CredentialsOf(h))
    /\ UNCHANGED <<options, process, socket, faults>>

ResolveUser(h) ==
    /\ At(h, "whoami")
    /\ handler' = [handler EXCEPT
                     ![h].pc = "parse",
                     ![h].left = DOMAIN RequestOf(h).parameters,
                     ![h].fields = Defaults(RequestOf(h), WhoAmI[handler[h].client.user])]
    /\ UNCHANGED <<options, process, socket, cache, faults>>

ApiCallFails(h) ==
    /\ handler[h].pc \in {"whoami", "parse"} /\ handler[h].left = {}
    /\ Fault("api")
    /\ End(h)
    /\ UNCHANGED <<options, process, socket, cache>>

ApplyParameter(h) ==
    /\ At(h, "parse")
    /\ \E key \in handler[h].left :
         LET value == RequestOf(h).parameters[key]
         IN  IF Refused(key, value) THEN End(h)
             ELSE handler' = [handler EXCEPT
                                ![h].left = @ \ {key}, ![h].fields = Applied(@, key, value)]
    /\ UNCHANGED <<options, process, socket, cache, faults>>

\* The loop is done: the volume is asked for.
Compose(h) ==
    /\ At(h, "parse") /\ handler[h].left = {}
    /\ IF Complete(RequestOf(h), handler[h].fields)
       THEN handler' = [handler EXCEPT ![h].pc = "created"]
       ELSE End(h)
    /\ UNCHANGED <<options, process, socket, cache, faults>>

Answer(h) == At(h, "created") /\ End(h) /\ UNCHANGED <<options, process, socket, cache, faults>>

HandlerStep(h) ==
    \/ GetClient(h) \/ AddClient(h) \/ ResolveUser(h) \/ ApiCallFails(h)
    \/ ApplyParameter(h) \/ Compose(h) \/ Answer(h)

-----------------------------------------------------------------------------

Init ==
    /\ options \in Options
    /\ process = "down" /\ socket = "none" /\ cache = <<>> /\ faults = 0
    /\ handler = [h \in Handlers |-> NoHandler]

Next ==
    \/ Startup \/ Crash
    \/ \E h \in Handlers : HandlerStep(h) \/ \E r \in DOMAIN Requests : CreateVolume(h, r)

\* The container is started again; goroutines run.
Fairness == WF_vars(Startup) /\ \A h \in Handlers : WF_vars(HandlerStep(h))

Spec == Init /\ [][Next]_vars /\ Fairness

-----------------------------------------------------------------------------
(* Properties.                                                             *)

Composed(h) == VolumeRequest(RequestOf(h), handler[h].fields)

\* Every field is what some parameter says, or its default, and a parameter that cannot be
\* understood does not pass (controller.go:81-114), in whatever order they were met.
FieldsAreGiven ==
    \A h \in Handlers : At(h, "created") /\ handler[h].client = CredentialsOf(h) =>
        LET parameters == RequestOf(h).parameters
            own == Defaults(RequestOf(h), WhoAmI[CredentialsOf(h).user])
        IN  /\ \A key \in DOMAIN parameters : ~Refused(key, parameters[key])
            /\ \A field \in DOMAIN own :
                 LET given == Given(RequestOf(h), field)
                 IN  handler[h].fields[field] \in IF given = {} THEN {own[field]} ELSE given

\* A handler acts with the credentials of its own request, also when the cache serves several
\* at a time, evicts, and a password changed ("Add password to key to create a new client if
\* the password for the user is changed", quobyte_api_client_factory.go:44).  But for one
\* exception: the user followed by the password reads the same for other credentials (:45).
ActsAsItself ==
    \A h \in Handlers : handler[h].client # NoCredentials =>
        LET client == handler[h].client
            own == CredentialsOf(h)
        IN  client = own \/ client.user \o client.pass = own.user \o own.pass

\* Two claims in one tenant never ask for one dedicated volume, nor for one that others share:
\* deleting either claim would erase it.  Unless the StorageClass spells sharedVolumeName
\* otherwise: the key is compared exactly in controller.go:69, in lower case in controller.go:89.
DedicatedVolumesAreApart ==
    \A g, h \in Handlers :
        /\ At(g, "created") /\ At(h, "created") /\ handler[g].request # handler[h].request
        /\ ~IsShared(RequestOf(h)) /\ ~Misspelled(RequestOf(g)) /\ ~Misspelled(RequestOf(h))
        => Composed(g).name # Composed(h).name \/ Composed(g).tenant # Composed(h).tenant

\* A driver with proper options serves again after every crash, whatever socket file the
\* last process left (driver.go:109-113).
ServesAgain == Accepted(options) => []<>(process = "serving")
=============================================================================
