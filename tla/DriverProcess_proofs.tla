------------------------ MODULE DriverProcess_proofs ------------------------
(***************************************************************************)
(* Proofs about DriverProcess: its type invariant, that a handler acts with *)
(* the credentials of its own request, what the loop over the parameters   *)
(* makes of a request, and that no two claims are given one dedicated      *)
(* volume.                                                                 *)
(***************************************************************************)
EXTENDS DriverProcess, TLAPS

\* An entry of the cache holds the client made with the credentials that its key reads.
EntriesOf(clients) == {[key |-> CacheKey(c), client |-> c] : c \in clients}

Proper(c, clients) ==
    /\ c \in Seq(EntriesOf(clients))
    /\ Len(c) <= CacheSize
    /\ \A i, j \in DOMAIN c : c[i].key = c[j].key => i = j

CacheInv == Proper(cache, AllCredentials)

Pcs == {"idle", "get", "add", "whoami", "parse", "created"}

\* Handlers are records, whose request is known once they have one.
HandlerType(h) ==
    /\ handler[h] = [pc |-> handler[h].pc, request |-> handler[h].request,
                     client |-> handler[h].client, left |-> handler[h].left,
                     fields |-> handler[h].fields]
    /\ handler[h].pc \in Pcs
    /\ handler[h].client \in AllCredentials \cup {NoCredentials}
    /\ handler[h].pc # "idle" => handler[h].request \in DOMAIN Requests

\* The client is chosen by the key, and only then.
ClientInv(h) ==
    IF handler[h].pc \in {"idle", "get", "add"} THEN handler[h].client = NoCredentials
    ELSE CacheKey(handler[h].client) = CacheKey(CredentialsOf(h))

\* What the loop gave the fields so far.
Done(h) == DOMAIN RequestOf(h).parameters \ handler[h].left

GivenBy(request, keys, field) ==
    {Meaning(key, request.parameters[key]) : key \in
        {k \in keys : Lower[k] = field /\ ~Ignored(k, request.parameters[k])}}

FieldNames ==
    {"quobytetenant", "sharedvolumename", "user", "group", "createquota", "labels", "accessmode"}

Base(h) == Defaults(RequestOf(h), WhoAmI[handler[h].client.user])

\* The fields while keys are dealt with, from the values they had before.
Follow(fields, before, request, keys) ==
    /\ fields = [f \in FieldNames |-> fields[f]]
    /\ \A key \in keys : ~Refused(key, request.parameters[key])
    /\ \A f \in FieldNames :
         fields[f] \in IF GivenBy(request, keys, f) = {} THEN {before[f]}
                       ELSE GivenBy(request, keys, f)

LoopInv(h) ==
    /\ handler[h].pc \in {"idle", "get", "add", "whoami"} => handler[h].left = {}
    /\ handler[h].pc \in {"parse", "created"} =>
         /\ handler[h].left \subseteq DOMAIN RequestOf(h).parameters
         /\ Follow(handler[h].fields, Base(h), RequestOf(h), Done(h))
    /\ handler[h].pc = "created" => handler[h].left = {}

HandlerInv(h) == HandlerType(h) /\ ClientInv(h) /\ LoopInv(h)

ProcessInv ==
    /\ options \in Options
    /\ process \in {"down", "checked", "bare", "serving"}
    /\ socket \in {"none", "left", "live"}
    /\ (process = "serving") = (socket = "live")
    /\ faults \in 0 .. MaxFaults
    /\ handler = [h \in Handlers |-> handler[h]]

Inv == ProcessInv /\ CacheInv /\ \A h \in Handlers : HandlerInv(h)

-----------------------------------------------------------------------------
(* The cache.                                                              *)

LEMMA EntryFacts ==
    ASSUME NEW S, NEW c, Proper(c, S), NEW i \in DOMAIN c
    PROVE  c[i] = [key |-> CacheKey(c[i].client), client |-> c[i].client] /\ c[i].client \in S
  <1>1. c[i] \in EntriesOf(S)
    BY DEF Proper
  <1>2. PICK k \in S : c[i] = [key |-> CacheKey(k), client |-> k]
    BY <1>1 DEF EntriesOf
  <1> QED
    BY <1>2

LEMMA PositionFacts ==
    ASSUME NEW c, NEW key, Cached(c, key)
    PROVE  Position(c, key) \in DOMAIN c /\ c[Position(c, key)].key = key
  BY DEF Position, Cached, Entries

LEMMA ClientForFacts ==
    ASSUME NEW S, NEW c, Proper(c, S), NEW key, Cached(c, key)
    PROVE  ClientFor(c, key) \in S /\ CacheKey(ClientFor(c, key)) = key
  <1>1. Position(c, key) \in DOMAIN c /\ c[Position(c, key)].key = key
    BY PositionFacts
  <1> DEFINE e == c[Position(c, key)]
  <1>2. e = [key |-> CacheKey(e.client), client |-> e.client] /\ e.client \in S
    BY <1>1, EntryFacts
  <1> HIDE DEF e
  <1>3. e.key = CacheKey(e.client)
    BY <1>2
  <1> QED
    BY <1>1, <1>2, <1>3 DEF ClientFor, e

Cut(c, p) == SubSeq(c, 1, p - 1) \o SubSeq(c, p + 1, Len(c))

\* Cutting an entry out leaves the others, each once.
LEMMA CutOut ==
    ASSUME NEW S, NEW c, Proper(c, S), NEW p \in DOMAIN c
    PROVE  /\ Proper(Cut(c, p), S)
           /\ Len(Cut(c, p)) = Len(c) - 1
           /\ \A i \in DOMAIN Cut(c, p) : \E j \in DOMAIN c : j # p /\ Cut(c, p)[i] = c[j]
  <1> DEFINE E == EntriesOf(S)
             d == Cut(c, p)
             from(i) == IF i < p THEN i ELSE i + 1
  <1>1. c \in Seq(E) /\ Len(c) \in Nat /\ DOMAIN c = 1 .. Len(c) /\ p \in 1 .. Len(c)
    BY DEF Proper
  <1> HIDE DEF E
  <1> DEFINE left == SubSeq(c, 1, p - 1)
             right == SubSeq(c, p + 1, Len(c))
  <1>a. /\ left \in Seq(E) /\ Len(left) = p - 1
        /\ \A i \in 1 .. p - 1 : left[i] = c[i]
    BY <1>1
  <1>b. /\ right \in Seq(E) /\ Len(right) = Len(c) - p
        /\ \A i \in 1 .. Len(c) - p : right[i] = c[p + i]
    BY <1>1
  <1>c. d = left \o right
    BY DEF Cut
  <1> HIDE DEF d, left, right
  <1>2. d \in Seq(E) /\ Len(d) = Len(c) - 1 /\ DOMAIN d = 1 .. Len(c) - 1
    <2>1. d \in Seq(E) /\ Len(d) = Len(left) + Len(right)
      <3>1. left \in Seq(E) /\ right \in Seq(E)
        BY <1>a, <1>b
      <3> QED
        BY <1>c, <3>1
    <2>2. Len(d) = Len(c) - 1
      BY <1>1, <1>a, <1>b, <2>1
    <2> QED
      BY <2>1, <2>2
  <1>3. ASSUME NEW i \in DOMAIN d
        PROVE  from(i) \in DOMAIN c /\ from(i) # p /\ d[i] = c[from(i)]
    <2>1. i \in 1 .. Len(c) - 1
      BY <1>2
    <2>2. from(i) \in DOMAIN c /\ from(i) # p
      BY <1>1, <2>1
    <2>3. CASE i < p
      <3>1. d[i] = left[i]
        BY <1>1, <1>a, <1>b, <1>c, <2>1, <2>3
      <3> QED
        BY <1>1, <1>a, <2>1, <2>2, <2>3, <3>1
    <2>4. CASE ~(i < p)
      <3>1. d[i] = right[i - (p - 1)]
        BY <1>1, <1>a, <1>b, <1>c, <2>1, <2>4
      <3>2. i - (p - 1) \in 1 .. Len(c) - p /\ p + (i - (p - 1)) = i + 1
        BY <1>1, <2>1, <2>4
      <3>3. right[i - (p - 1)] = c[i + 1]
        BY <1>b, <3>2
      <3> QED
        BY <2>2, <2>4, <3>1, <3>3
    <2> QED
      BY <2>3, <2>4
  <1>4. ASSUME NEW i \in DOMAIN d, NEW j \in DOMAIN d, from(i) = from(j)
        PROVE  i = j
    <2>1. i \in Nat /\ j \in Nat /\ p \in Nat
      BY <1>1, <1>2
    <2> QED
      BY <1>4, <2>1
  <1> HIDE DEF from
  <1>5. ASSUME NEW i \in DOMAIN d, NEW j \in DOMAIN d, d[i].key = d[j].key
        PROVE  i = j
    <2>1. c[from(i)].key = c[from(j)].key
      BY <1>3, <1>5
    <2>2. from(i) = from(j)
      BY <1>3, <2>1 DEF Proper
    <2> QED
      BY <1>4, <2>2
  <1>6. Len(c) <= CacheSize
    BY DEF Proper
  <1>7. Proper(d, S)
    BY <1>1, <1>2, <1>5, <1>6, CacheAssumption DEF Proper, E
  <1> QED
    BY <1>2, <1>3, <1>7 DEF d, from

LEMMA WithoutFacts ==
    ASSUME NEW S, NEW c, Proper(c, S), NEW key
    PROVE  /\ Proper(Without(c, key), S)
           /\ Cached(c, key) => Len(Without(c, key)) < Len(c)
           /\ \A i \in DOMAIN Without(c, key) : Without(c, key)[i].key # key
  <1>1. CASE Cached(c, key)
    <2> DEFINE p == Position(c, key)
               d == Cut(c, p)
    <2>1. p \in DOMAIN c /\ c[p].key = key
      BY <1>1, PositionFacts
    <2>2. Without(c, key) = d
      BY <1>1 DEF Without, Cut
    <2> HIDE DEF p
    <2>3. /\ Proper(d, S)
          /\ Len(d) = Len(c) - 1
          /\ \A i \in DOMAIN d : \E j \in DOMAIN c : j # p /\ d[i] = c[j]
      BY <2>1, CutOut
    <2> HIDE DEF d
    <2>4. \A i \in DOMAIN d : d[i].key # key
      BY <2>1, <2>3 DEF Proper
    <2>5. Len(d) < Len(c)
      BY <2>3 DEF Proper
    <2> QED
      BY <2>2, <2>3, <2>4, <2>5
  <1>2. CASE ~Cached(c, key)
    BY <1>2 DEF Without, Cached, Entries
  <1> QED
    BY <1>1, <1>2

LEMMA AppendProper ==
    ASSUME NEW S, NEW c, Proper(c, S), Len(c) < CacheSize, NEW client \in S,
           \A i \in DOMAIN c : c[i].key # CacheKey(client)
    PROVE  Proper(c \o <<[key |-> CacheKey(client), client |-> client]>>, S)
  <1> DEFINE E == EntriesOf(S)
             e == [key |-> CacheKey(client), client |-> client]
             d == c \o <<e>>
  <1>1. c \in Seq(E) /\ Len(c) \in Nat /\ DOMAIN c = 1 .. Len(c) /\ e \in E
    BY DEF Proper, EntriesOf
  <1>2. e.key = CacheKey(client)
    OBVIOUS
  <1> HIDE DEF E, e
  <1>3. d \in Seq(E) /\ Len(d) = Len(c) + 1 /\ DOMAIN d = 1 .. Len(c) + 1
    BY <1>1
  <1>4. d[Len(c) + 1] = e /\ \A i \in DOMAIN c : d[i] = c[i]
    BY <1>1
  <1> HIDE DEF d
  <1>5. ASSUME NEW i \in DOMAIN d, NEW j \in DOMAIN d, d[i].key = d[j].key
        PROVE  i = j
    <2>1. CASE i \in DOMAIN c /\ j \in DOMAIN c
      BY <1>4, <1>5, <2>1 DEF Proper
    <2>2. CASE i = Len(c) + 1 /\ j = Len(c) + 1
      BY <2>2
    <2>3. CASE i = Len(c) + 1 /\ j \in DOMAIN c
      BY <1>2, <1>4, <1>5, <2>3
    <2>4. CASE j = Len(c) + 1 /\ i \in DOMAIN c
      BY <1>2, <1>4, <1>5, <2>4
    <2> QED
      BY <1>1, <1>3, <2>1, <2>2, <2>3, <2>4
  <1>6. Proper(d, S)
    BY <1>1, <1>3, <1>5, CacheAssumption DEF Proper, E
  <1> QED
    BY <1>6 DEF d, e

LEMMA TailProper ==
    ASSUME NEW S, NEW c, Proper(c, S), c # <<>>
    PROVE  /\ Proper(Tail(c), S)
           /\ Len(Tail(c)) = Len(c) - 1
           /\ \A i \in DOMAIN Tail(c) : \E j \in DOMAIN c : Tail(c)[i] = c[j]
  <1>1. c \in Seq(EntriesOf(S)) /\ Len(c) \in Nat /\ DOMAIN c = 1 .. Len(c) /\ Len(c) <= CacheSize
    BY DEF Proper
  <1>2. /\ Tail(c) \in Seq(EntriesOf(S)) /\ Len(Tail(c)) = Len(c) - 1
        /\ DOMAIN Tail(c) = 1 .. Len(c) - 1
        /\ \A i \in DOMAIN Tail(c) : i + 1 \in DOMAIN c /\ Tail(c)[i] = c[i + 1]
    BY <1>1
  <1>3. \A i, j \in DOMAIN Tail(c) : Tail(c)[i].key = Tail(c)[j].key => i = j
    BY <1>1, <1>2 DEF Proper
  <1>4. Len(Tail(c)) <= CacheSize
    BY <1>1, <1>2, CacheAssumption
  <1> QED
    BY <1>2, <1>3, <1>4 DEF Proper

LEMMA TouchedProper ==
    ASSUME NEW S, NEW c, Proper(c, S), NEW key, Cached(c, key)
    PROVE  Proper(Touched(c, key), S)
  <1>1. /\ Proper(Without(c, key), S)
        /\ Len(Without(c, key)) < Len(c)
        /\ \A i \in DOMAIN Without(c, key) : Without(c, key)[i].key # key
    BY WithoutFacts
  <1>2. ClientFor(c, key) \in S /\ CacheKey(ClientFor(c, key)) = key
    BY ClientForFacts
  <1>3. Len(Without(c, key)) < CacheSize
    BY <1>1, CacheAssumption DEF Proper
  <1> QED
    BY <1>1, <1>2, <1>3, AppendProper DEF Touched

LEMMA AddedProper ==
    ASSUME NEW S, NEW c, Proper(c, S), NEW client \in S
    PROVE  Proper(Added(c, CacheKey(client), client), S)
  <1> DEFINE key == CacheKey(client)
             rest == Without(c, key)
  <1>1. Proper(rest, S) /\ \A i \in DOMAIN rest : rest[i].key # key
    BY WithoutFacts
  <1> HIDE DEF rest
  <1>2. Len(rest) \in Nat /\ Len(rest) <= CacheSize
    BY <1>1 DEF Proper
  <1>3. CASE Len(rest) = CacheSize
    <2>1. rest # <<>>
      BY <1>3, CacheAssumption
    <2>2. /\ Proper(Tail(rest), S) /\ Len(Tail(rest)) < CacheSize
          /\ \A i \in DOMAIN Tail(rest) : Tail(rest)[i].key # key
      BY <1>1, <1>2, <2>1, TailProper, CacheAssumption
    <2> QED
      BY <1>3, <2>2, AppendProper DEF Added, rest
  <1>4. CASE Len(rest) # CacheSize
    <2>1. Len(rest) < CacheSize
      BY <1>2, <1>4, CacheAssumption
    <2> QED
      BY <1>1, <1>4, <2>1, AppendProper DEF Added, rest
  <1> QED
    BY <1>3, <1>4

-----------------------------------------------------------------------------
(* The loop over the parameters.                                           *)

LEMMA DefaultsFacts ==
    ASSUME NEW request, NEW user
    PROVE  /\ DOMAIN Defaults(request, user) = FieldNames
           /\ Defaults(request, user) = [f \in FieldNames |-> Defaults(request, user)[f]]
           /\ Defaults(request, user)["sharedvolumename"] = request.name
  BY DEF Defaults, FieldNames

\* Before the first key the fields are the defaults.
LEMMA FollowStarts ==
    ASSUME NEW request, NEW user
    PROVE  Follow(Defaults(request, user), Defaults(request, user), request, {})
  <1> DEFINE own == Defaults(request, user)
  <1>1. own = [f \in FieldNames |-> own[f]]
    BY DefaultsFacts
  <1>2. \A f \in FieldNames : GivenBy(request, {}, f) = {}
    BY DEF GivenBy
  <1> HIDE DEF own
  <1> QED
    BY <1>1, <1>2 DEF Follow, own

\* Each further key keeps what the fields are.
LEMMA FollowGoesOn ==
    ASSUME NEW fields, NEW before, NEW request, NEW keys,
           Follow(fields, before, request, keys),
           NEW key, ~Refused(key, request.parameters[key])
    PROVE  Follow(Applied(fields, key, request.parameters[key]), before, request, keys \cup {key})
  <1> DEFINE value == request.parameters[key]
             after == Applied(fields, key, value)
             given(f) == GivenBy(request, keys, f)
             now(f) == GivenBy(request, keys \cup {key}, f)
             sets(f) == Lower[key] = f /\ ~Ignored(key, value)
  <1>1. fields = [f \in FieldNames |-> fields[f]]
    BY DEF Follow
  <1>2. \A f \in FieldNames : now(f) = IF sets(f) THEN given(f) \cup {Meaning(key, value)} ELSE given(f)
    BY DEF GivenBy
  <1>3. after = [f \in FieldNames |-> IF sets(f) THEN Meaning(key, value) ELSE fields[f]]
    <2>1. CASE Lower[key] \notin FieldNames \/ Ignored(key, value)
      <3>1. after = fields
        BY <1>1, <2>1 DEF Applied
      <3>2. \A f \in FieldNames : ~sets(f)
        BY <2>1
      <3> QED
        BY <1>1, <3>1, <3>2
    <2>2. CASE Lower[key] \in FieldNames /\ ~Ignored(key, value)
      BY <1>1, <2>2 DEF Applied
    <2> QED
      BY <2>1, <2>2
  <1>4. \A k \in keys \cup {key} : ~Refused(k, request.parameters[k])
    BY DEF Follow
  <1>5. ASSUME NEW f \in FieldNames
        PROVE  after[f] \in IF now(f) = {} THEN {before[f]} ELSE now(f)
    <2>1. fields[f] \in IF given(f) = {} THEN {before[f]} ELSE given(f)
      BY DEF Follow
    <2>2. after[f] = IF sets(f) THEN Meaning(key, value) ELSE fields[f]
      BY <1>3
    <2>3. now(f) = IF sets(f) THEN given(f) \cup {Meaning(key, value)} ELSE given(f)
      BY <1>2
    <2> HIDE DEF after, given, now, sets
    <2> QED
      BY <2>1, <2>2, <2>3
  <1>6. after = [f \in FieldNames |-> after[f]]
    BY <1>3
  <1> HIDE DEF after, now
  <1> QED
    BY <1>4, <1>5, <1>6 DEF Follow, after, now

-----------------------------------------------------------------------------
(* The invariant.                                                          *)

LEMMA NoHandlerFacts ==
    /\ NoHandler = [pc |-> NoHandler.pc, request |-> NoHandler.request, client |-> NoHandler.client,
                    left |-> NoHandler.left, fields |-> NoHandler.fields]
    /\ NoHandler.pc = "idle" /\ NoHandler.client = NoCredentials /\ NoHandler.left = {}
  <1> HIDE DEF NoCredentials
  <1> QED
    BY DEF NoHandler

LEMMA HandlerInvStarts ==
    ASSUME NEW h \in Handlers, handler[h] = NoHandler
    PROVE  HandlerInv(h)
  BY NoHandlerFacts DEF HandlerInv, HandlerType, ClientInv, LoopInv, Pcs

LEMMA InitInv ==
    Init => Inv
  <1> SUFFICES ASSUME Init PROVE Inv
    OBVIOUS
  <1>1. ProcessInv
    BY ProcessAssumption DEF Init, ProcessInv
  <1>2. CacheInv
    BY CacheAssumption DEF Init, CacheInv, Proper
  <1>3. \A h \in Handlers : handler[h] = NoHandler
    BY DEF Init
  <1>4. \A h \in Handlers : HandlerInv(h)
    BY <1>3, HandlerInvStarts
  <1> QED
    BY <1>1, <1>2, <1>4 DEF Inv

\* What the steps of one handler leave alone.
LEMMA OtherHandlers ==
    ASSUME Inv, NEW h \in Handlers, NEW record,
           handler' = [handler EXCEPT ![h] = record],
           \/ HandlerInv(h)'
           \/ record = NoHandler
    PROVE  handler' = [g \in Handlers |-> handler'[g]] /\ \A g \in Handlers : HandlerInv(g)'
  <1>1. /\ handler' = [g \in Handlers |-> handler'[g]]
        /\ handler'[h] = record /\ \A g \in Handlers \ {h} : handler'[g] = handler[g]
    BY DEF Inv, ProcessInv
  <1>2. ASSUME NEW g \in Handlers \ {h} PROVE HandlerInv(g)'
    <2>1. handler'[g] = handler[g] /\ HandlerInv(g)
      BY <1>1 DEF Inv
    <2> QED
      BY <2>1 DEF HandlerInv, HandlerType, ClientInv, LoopInv, Done, Base, RequestOf, CredentialsOf
  <1>3. HandlerInv(h)'
    BY <1>1, NoHandlerFacts DEF HandlerInv, HandlerType, ClientInv, LoopInv, Pcs
  <1> QED
    BY <1>1, <1>2, <1>3

\* The record of a handler after a step.
LEMMA OneHandler ==
    ASSUME Inv, NEW h \in Handlers, NEW record, handler' = [handler EXCEPT ![h] = record]
    PROVE  handler'[h] = record
  BY DEF Inv, ProcessInv

LEMMA ClientOfRequest ==
    ASSUME NEW h \in Handlers, HandlerType(h), handler[h].pc # "idle"
    PROVE  CredentialsOf(h) \in AllCredentials
  BY DEF HandlerType, CredentialsOf, RequestOf, AllCredentials

LEMMA StepInv ==
    Inv /\ [Next]_vars => Inv'
  <1> SUFFICES ASSUME Inv, [Next]_vars PROVE Inv'
    OBVIOUS
  <1> USE DEF Inv
  <1> DEFINE HandlersInv == \A h \in Handlers : HandlerInv(h)
  <1>1. CASE UNCHANGED vars
    BY <1>1 DEF vars, ProcessInv, CacheInv, HandlerInv, HandlerType, ClientInv, LoopInv, Done,
       Base, RequestOf, CredentialsOf
  <1>2. CASE Startup
    <2>1. UNCHANGED <<options, cache, handler>>
      BY <1>2 DEF Startup, Start, RemoveSocket, Listen
    <2>2. ProcessInv'
      BY <1>2, ProcessAssumption DEF Startup, Start, RemoveSocket, Listen, ProcessInv, Fault
    <2>3. CacheInv'
      BY <2>1 DEF CacheInv
    <2>4. HandlersInv'
      BY <2>1 DEF HandlerInv, HandlerType, ClientInv, LoopInv, Done, Base, RequestOf, CredentialsOf
    <2> QED
      BY <2>2, <2>3, <2>4
  <1>3. CASE Crash
    <2>1. ProcessInv'
      BY <1>3, ProcessAssumption DEF Crash, ProcessInv, Fault
    <2>2. CacheInv'
      BY <1>3, CacheAssumption DEF Crash, CacheInv, Proper
    <2>3. \A h \in Handlers : handler'[h] = NoHandler
      BY <1>3 DEF Crash
    <2>4. HandlersInv'
      BY <2>3, NoHandlerFacts DEF HandlerInv, HandlerType, ClientInv, LoopInv, Pcs
    <2> QED
      BY <2>1, <2>2, <2>4
  <1>4. ASSUME NEW h \in Handlers, HandlerStep(h) \/ \E r \in DOMAIN Requests : CreateVolume(h, r)
        PROVE  Inv'
    <2> DEFINE s == handler[h]
    <2>0. HandlerType(h) /\ ClientInv(h) /\ LoopInv(h)
      BY DEF HandlerInv
    <2>a. s = [pc |-> s.pc, request |-> s.request, client |-> s.client, left |-> s.left,
               fields |-> s.fields]
      BY <2>0 DEF HandlerType
    <2>b. /\ s.pc # "idle" => s.request \in DOMAIN Requests /\ CredentialsOf(h) \in AllCredentials
          /\ s.client \in AllCredentials \cup {NoCredentials}
      BY <2>0, ClientOfRequest DEF HandlerType
    <2>p. /\ UNCHANGED <<options, process, socket>>
          /\ UNCHANGED faults \/ Fault("api")
      BY <1>4 DEF HandlerStep, GetClient, AddClient, ResolveUser, ApiCallFails, ApplyParameter,
         Compose, Answer, CreateVolume
    <2>q. handler' = [g \in Handlers |-> handler'[g]] => ProcessInv'
      BY <2>p, ProcessAssumption DEF ProcessInv, Fault
    <2>c. UNCHANGED cache => CacheInv'
      BY DEF CacheInv
    <2> DEFINE Others == handler' = [g \in Handlers |-> handler'[g]] /\ \A g \in Handlers : HandlerInv(g)'
    <2>e. ASSUME End(h), UNCHANGED cache PROVE Inv'
      <3>1. Others
        BY <2>e, OtherHandlers DEF End
      <3> QED
        BY <2>c, <2>e, <2>q, <3>1
    <2>f. ASSUME NEW record, handler' = [handler EXCEPT ![h] = record], CacheInv',
                 handler'[h] = record => HandlerInv(h)'
          PROVE  Inv'
      <3>1. handler'[h] = record
        BY <2>f, OneHandler
      <3>2. Others
        BY <2>f, <3>1, OtherHandlers
      <3> QED
        BY <2>f, <2>q, <3>2
    <2>1. CASE \E r \in DOMAIN Requests : CreateVolume(h, r)
      <3>1. PICK r \in DOMAIN Requests : CreateVolume(h, r)
        BY <2>1
      <3> DEFINE new == [pc |-> "get", request |-> r, client |-> NoHandler.client,
                         left |-> NoHandler.left, fields |-> NoHandler.fields]
      <3>2. handler' = [handler EXCEPT ![h] = new] /\ UNCHANGED cache
        <4> DEFINE half == [NoHandler EXCEPT !.pc = "get"]
        <4>1. [NoHandler EXCEPT !.pc = "get", !.request = r] = new
          <5>1. half = [pc |-> "get", request |-> NoHandler.request, client |-> NoHandler.client,
                        left |-> NoHandler.left, fields |-> NoHandler.fields]
            BY NoHandlerFacts
          <5>2. [NoHandler EXCEPT !.pc = "get", !.request = r] = [half EXCEPT !.request = r]
            OBVIOUS
          <5> HIDE DEF half
          <5> QED
            BY <5>1, <5>2
        <4> QED
          BY <3>1, <4>1 DEF CreateVolume
      <3>3. handler'[h] = new => HandlerInv(h)'
        BY NoHandlerFacts DEF HandlerInv, HandlerType, ClientInv, LoopInv, Pcs
      <3> HIDE DEF new
      <3> QED
        BY <2>c, <2>f, <3>2, <3>3
    <2>2. CASE GetClient(h)
      <3> DEFINE key == CacheKey(CredentialsOf(h))
      <3>1. CASE Cached(cache, key)
        <4> DEFINE new == [pc |-> "whoami", request |-> s.request,
                           client |-> ClientFor(cache, key), left |-> s.left,
                           fields |-> s.fields]
        <4>1. s.pc = "get" /\ cache' = Touched(cache, key)
          BY <2>2, <3>1 DEF GetClient, At
        <4>2. handler' = [handler EXCEPT ![h] = new]
          BY <2>2, <2>a, <3>1 DEF GetClient, ProcessInv
        <4>3. ClientFor(cache, key) \in AllCredentials /\ CacheKey(ClientFor(cache, key)) = key
          BY <3>1, ClientForFacts DEF CacheInv
        <4>4. CacheInv'
          BY <3>1, <4>1, TouchedProper DEF CacheInv
        <4>5. handler'[h] = new => HandlerInv(h)'
          BY <2>0, <2>b, <4>1, <4>3
          DEF HandlerInv, HandlerType, ClientInv, LoopInv, Pcs, RequestOf, CredentialsOf
        <4> HIDE DEF new
        <4> QED
          BY <2>f, <4>2, <4>4, <4>5
      <3>2. CASE ~Cached(cache, key)
        <4> DEFINE new == [pc |-> "add", request |-> s.request, client |-> s.client,
                           left |-> s.left, fields |-> s.fields]
        <4>1. s.pc = "get" /\ UNCHANGED cache
          BY <2>2, <3>2 DEF GetClient, At
        <4>2. handler' = [handler EXCEPT ![h] = new]
          BY <2>2, <2>a, <3>2 DEF GetClient, ProcessInv
        <4>3. handler'[h] = new => HandlerInv(h)'
          BY <2>0, <2>b, <4>1 DEF HandlerInv, HandlerType, ClientInv, LoopInv, Pcs
        <4> HIDE DEF new
        <4> QED
          BY <2>c, <2>f, <4>1, <4>2, <4>3
      <3> QED
        BY <3>1, <3>2
    <2>3. CASE AddClient(h)
      <3> DEFINE new == [pc |-> "whoami", request |-> s.request, client |-> CredentialsOf(h),
                         left |-> s.left, fields |-> s.fields]
      <3>1. s.pc = "add" /\ cache' = Added(cache, CacheKey(CredentialsOf(h)), CredentialsOf(h))
        BY <2>3 DEF AddClient, At
      <3>2. handler' = [handler EXCEPT ![h] = new]
        <4>1. handler' = [handler EXCEPT ![h] = [s EXCEPT !.pc = "whoami", !.client = CredentialsOf(h)]]
          BY <2>3 DEF AddClient, ProcessInv
        <4> DEFINE half == [s EXCEPT !.pc = "whoami"]
        <4>2. half = [pc |-> "whoami", request |-> s.request, client |-> s.client,
                      left |-> s.left, fields |-> s.fields]
          BY <2>a
        <4>3. [s EXCEPT !.pc = "whoami", !.client = CredentialsOf(h)]
                = [half EXCEPT !.client = CredentialsOf(h)]
          OBVIOUS
        <4> HIDE DEF half
        <4>4. [half EXCEPT !.client = CredentialsOf(h)] = new
          BY <4>2
        <4> QED
          BY <4>1, <4>3, <4>4
      <3>3. CacheInv'
        BY <2>b, <3>1, AddedProper DEF CacheInv
      <3>4. handler'[h] = new => HandlerInv(h)'
        BY <2>0, <2>b, <3>1
        DEF HandlerInv, HandlerType, ClientInv, LoopInv, Pcs, RequestOf, CredentialsOf
      <3> HIDE DEF new
      <3> QED
        BY <2>f, <3>2, <3>3, <3>4
    <2>4. CASE ResolveUser(h)
      <3> DEFINE request == RequestOf(h)
                 own == Defaults(request, WhoAmI[s.client.user])
                 new == [pc |-> "parse", request |-> s.request, client |-> s.client,
                         left |-> DOMAIN request.parameters, fields |-> own]
      <3>1. s.pc = "whoami" /\ UNCHANGED cache
        BY <2>4 DEF ResolveUser, At
      <3>2. handler' = [handler EXCEPT ![h] = new]
        <4>1. handler' = [handler EXCEPT
                            ![h] = [s EXCEPT !.pc = "parse", !.left = DOMAIN request.parameters,
                                             !.fields = own]]
          BY <2>4 DEF ResolveUser, ProcessInv
        <4> HIDE DEF own
        <4> DEFINE all == DOMAIN request.parameters
                   half == [s EXCEPT !.pc = "parse"]
                   most == [half EXCEPT !.left = all]
        <4> HIDE DEF all
        <4>2. half = [pc |-> "parse", request |-> s.request, client |-> s.client,
                      left |-> s.left, fields |-> s.fields]
          BY <2>a
        <4>3. [s EXCEPT !.pc = "parse", !.left = all, !.fields = own] = [most EXCEPT !.fields = own]
          OBVIOUS
        <4> HIDE DEF half
        <4>4. most = [pc |-> "parse", request |-> s.request, client |-> s.client,
                      left |-> all, fields |-> s.fields]
          BY <4>2
        <4> HIDE DEF most
        <4>5. [most EXCEPT !.fields = own] = new
          BY <4>4 DEF all
        <4> QED
          BY <4>1, <4>3, <4>5 DEF all
      <3>3. Follow(own, own, request, {})
        BY FollowStarts
      <3>4. ASSUME handler'[h] = new PROVE HandlerInv(h)'
        <4>1. RequestOf(h)' = request /\ Done(h)' = {} /\ Base(h)' = own
          BY <3>4 DEF RequestOf, Done, Base
        <4>2. LoopInv(h)'
          BY <3>3, <3>4, <4>1 DEF LoopInv
        <4>3. HandlerType(h)' /\ ClientInv(h)'
          BY <2>0, <2>b, <3>1, <3>4
          DEF HandlerType, ClientInv, Pcs, RequestOf, CredentialsOf
        <4> QED
          BY <4>2, <4>3 DEF HandlerInv
      <3> HIDE DEF new
      <3> QED
        BY <2>c, <2>f, <3>1, <3>2, <3>4
    <2>5. CASE ApiCallFails(h)
      BY <2>5, <2>e DEF ApiCallFails
    <2>6. CASE ApplyParameter(h)
      <3> DEFINE request == RequestOf(h)
      <3>1. PICK key \in s.left :
              IF Refused(key, request.parameters[key]) THEN End(h)
              ELSE handler' = [handler EXCEPT
                                 ![h].left = @ \ {key},
                                 ![h].fields = Applied(@, key, request.parameters[key])]
        BY <2>6 DEF ApplyParameter
      <3>2. s.pc = "parse" /\ UNCHANGED cache
        BY <2>6 DEF ApplyParameter, At
      <3>3. CASE Refused(key, request.parameters[key])
        BY <2>e, <3>1, <3>2, <3>3
      <3>4. CASE ~Refused(key, request.parameters[key])
        <4> DEFINE after == Applied(s.fields, key, request.parameters[key])
                   new == [pc |-> "parse", request |-> s.request, client |-> s.client,
                           left |-> s.left \ {key}, fields |-> after]
        <4>1. handler' = [handler EXCEPT ![h] = new]
          BY <2>a, <3>1, <3>2, <3>4 DEF ProcessInv
        <4>2. /\ s.left \subseteq DOMAIN request.parameters
              /\ Follow(s.fields, Base(h), request, Done(h))
          BY <2>0, <3>2 DEF LoopInv
        <4>3. Follow(after, Base(h), request, Done(h) \cup {key})
          BY <3>4, <4>2, FollowGoesOn
        <4>4. ASSUME handler'[h] = new PROVE HandlerInv(h)'
          <5>1. RequestOf(h)' = request /\ Base(h)' = Base(h)
            BY <4>4 DEF RequestOf, Base
          <5>2. Done(h)' = Done(h) \cup {key}
            BY <4>2, <4>4 DEF RequestOf, Done
          <5> HIDE DEF after
          <5>3. LoopInv(h)'
            BY <4>2, <4>3, <4>4, <5>1, <5>2 DEF LoopInv
          <5>4. HandlerType(h)' /\ ClientInv(h)'
            BY <2>0, <2>b, <3>2, <4>4
            DEF HandlerType, ClientInv, Pcs, RequestOf, CredentialsOf
          <5> QED
            BY <5>3, <5>4 DEF HandlerInv
        <4> HIDE DEF new
        <4> QED
          BY <2>c, <2>f, <3>2, <4>1, <4>4
      <3> QED
        BY <3>3, <3>4
    <2>7. CASE Compose(h)
      <3>1. s.pc = "parse" /\ s.left = {} /\ UNCHANGED cache
        BY <2>7 DEF Compose, At
      <3>2. CASE Complete(RequestOf(h), s.fields)
        <4> DEFINE new == [pc |-> "created", request |-> s.request, client |-> s.client,
                           left |-> s.left, fields |-> s.fields]
        <4>1. handler' = [handler EXCEPT ![h] = new]
          BY <2>7, <2>a, <3>2 DEF Compose, ProcessInv
        <4>2. handler'[h] = new => HandlerInv(h)'
          BY <2>0, <2>b, <3>1
          DEF HandlerInv, HandlerType, ClientInv, LoopInv, Pcs, RequestOf, CredentialsOf, Done, Base
        <4> HIDE DEF new
        <4> QED
          BY <2>c, <2>f, <3>1, <4>1, <4>2
      <3>3. CASE ~Complete(RequestOf(h), s.fields)
        BY <2>7, <2>e, <3>3 DEF Compose
      <3> QED
        BY <3>2, <3>3
    <2>8. CASE Answer(h)
      BY <2>8, <2>e DEF Answer
    <2> QED
      BY <1>4, <2>1, <2>2, <2>3, <2>4, <2>5, <2>6, <2>7, <2>8 DEF HandlerStep
  <1> QED
    BY <1>1, <1>2, <1>3, <1>4 DEF Next

LEMMA Invariance ==
    Spec => []Inv
  BY InitInv, StepInv, PTL DEF Spec

-----------------------------------------------------------------------------
(* The theorems.                                                           *)

\* The cache never outgrows its size nor holds a key twice, though its look-up and its filling
\* are two steps (quobyte_api_client_factory.go:47-55); the process serves with a socket of its
\* own (driver.go:109-131).
THEOREM TypeCorrect ==
    Spec => []TypeOK
  <1>1. Inv => TypeOK
    <2> SUFFICES ASSUME Inv PROVE TypeOK
      OBVIOUS
    <2>1. /\ Len(cache) <= CacheSize /\ \A i \in DOMAIN cache : cache[i].client \in AllCredentials
          /\ \A i, j \in DOMAIN cache : cache[i].key = cache[j].key => i = j
      BY EntryFacts DEF Inv, CacheInv, Proper
    <2>2. ASSUME NEW h \in Handlers
          PROVE  /\ handler[h].pc \in Pcs
                 /\ handler[h].client \in AllCredentials \cup {NoCredentials}
                 /\ handler[h].pc # "idle" => handler[h].left \subseteq DOMAIN RequestOf(h).parameters
      BY DEF Inv, HandlerInv, HandlerType, LoopInv, Pcs
    <2> QED
      BY <2>1, <2>2 DEF Inv, ProcessInv, TypeOK, Pcs, RequestOf
  <1> QED
    BY <1>1, Invariance, PTL

\* A handler never acts with the credentials of another request, whatever the cache did between
\* its look-up and its adding (quobyte_api_client_factory.go:42-55), but for credentials that
\* read the same one after the other.
THEOREM ActsAsItselfAlways ==
    Spec => []ActsAsItself
  <1>1. Inv => ActsAsItself
    <2> SUFFICES ASSUME Inv, NEW h \in Handlers, handler[h].client # NoCredentials
                 PROVE  CacheKey(handler[h].client) = CacheKey(CredentialsOf(h))
      BY DEF ActsAsItself, CacheKey
    <2> QED
      BY DEF Inv, HandlerInv, ClientInv
  <1> QED
    BY <1>1, Invariance, PTL

\* Whatever the order in which Go iterates over the parameters (controller.go:81-114), each field
\* of the volume is what one of them says, or its default.
THEOREM FieldsAreGivenAlways ==
    Spec => []FieldsAreGiven
  <1>1. Inv => FieldsAreGiven
    <2> SUFFICES ASSUME Inv, NEW h \in Handlers, At(h, "created"), handler[h].client = CredentialsOf(h)
                 PROVE  LET parameters == RequestOf(h).parameters
                            own == Defaults(RequestOf(h), WhoAmI[CredentialsOf(h).user])
                        IN  /\ \A key \in DOMAIN parameters : ~Refused(key, parameters[key])
                            /\ \A field \in DOMAIN own :
                                 LET given == Given(RequestOf(h), field)
                                 IN  handler[h].fields[field] \in
                                       IF given = {} THEN {own[field]} ELSE given
      BY DEF FieldsAreGiven
    <2> DEFINE own == Defaults(RequestOf(h), WhoAmI[CredentialsOf(h).user])
    <2>1. Done(h) = DOMAIN RequestOf(h).parameters /\ Base(h) = own
      BY DEF Inv, HandlerInv, LoopInv, At, Done, Base
    <2>2. Follow(handler[h].fields, own, RequestOf(h), DOMAIN RequestOf(h).parameters)
      BY <2>1 DEF Inv, HandlerInv, LoopInv, At
    <2>3. DOMAIN own = FieldNames
      BY DefaultsFacts
    <2>4. \A field : GivenBy(RequestOf(h), DOMAIN RequestOf(h).parameters, field) = Given(RequestOf(h), field)
      BY DEF GivenBy, Given
    <2> HIDE DEF own
    <2> QED
      BY <2>2, <2>3, <2>4 DEF Follow, own
  <1> QED
    BY <1>1, Invariance, PTL

\* The name of the volume that a handler asks for.
LEMMA NameAskedFor ==
    ASSUME Inv, NEW h \in Handlers, At(h, "created")
    PROVE  /\ handler[h].request \in DOMAIN Requests
           /\ \/ Composed(h).name = RequestOf(h).name
              \/ \E key \in DOMAIN RequestOf(h).parameters :
                   Lower[key] = "sharedvolumename" /\ Composed(h).name = RequestOf(h).parameters[key]
  <1> DEFINE request == RequestOf(h)
             keys == DOMAIN request.parameters
             field == "sharedvolumename"
             name == handler[h].fields[field]
  <1>1. handler[h].request \in DOMAIN Requests
    BY DEF Inv, HandlerInv, HandlerType, At
  <1>2. Follow(handler[h].fields, Base(h), request, Done(h)) /\ Done(h) \subseteq keys
    BY DEF Inv, HandlerInv, LoopInv, At, Done
  <1>3. field \in FieldNames /\ Base(h)[field] = request.name
    BY DefaultsFacts DEF FieldNames, Base
  <1>4. name \in IF GivenBy(request, Done(h), field) = {} THEN {request.name}
                 ELSE GivenBy(request, Done(h), field)
    BY <1>2, <1>3 DEF Follow
  <1>5. Composed(h).name = name
    BY DEF Composed, VolumeRequest
  <1>6. ASSUME name \in GivenBy(request, Done(h), field)
        PROVE  \E key \in keys : Lower[key] = field /\ name = request.parameters[key]
    <2>1. PICK key \in Done(h) : Lower[key] = field /\ name = Meaning(key, request.parameters[key])
      BY <1>6 DEF GivenBy
    <2>2. name = request.parameters[key]
      BY <2>1 DEF Meaning
    <2> QED
      BY <1>2, <2>1, <2>2
  <1> QED
    BY <1>1, <1>4, <1>5, <1>6

\* Two claims are never given one dedicated volume, nor is a dedicated volume one that others
\* share (controller.go:69-114).
THEOREM DedicatedVolumesStayApart ==
    Spec => []DedicatedVolumesAreApart
  <1>1. Inv => DedicatedVolumesAreApart
    <2> SUFFICES ASSUME Inv, NEW g \in Handlers, NEW h \in Handlers,
                        At(g, "created"), At(h, "created"),
                        handler[g].request # handler[h].request,
                        ~IsShared(RequestOf(h)), ~Misspelled(RequestOf(h))
                 PROVE  Composed(g).name # Composed(h).name
      BY DEF DedicatedVolumesAreApart
    <2>1. Composed(h).name = RequestOf(h).name
      BY NameAskedFor DEF Misspelled
    <2>2. Composed(g).name # RequestOf(h).name
      BY NameAskedFor, NamesAssumption DEF RequestOf
    <2> QED
      BY <2>1, <2>2
  <1> QED
    BY <1>1, Invariance, PTL
=============================================================================
