---------------------------- MODULE GatewayProofs ----------------------------
(***************************************************************************)
(* Proofs about the gateway, for every number of operators, requests,      *)
(* connections and slots: the Admin API's writes are atomic and safe on    *)
(* disk, what is persisted and served can always be run, the session limit *)
(* is exact, a shutdown leaves nobody behind.                              *)
(***************************************************************************)
EXTENDS Gateway, FiniteSetTheorems, TLAPS

Persisting == {"create", "written", "synced", "renamed", "persisted"}
Labels == Persisting \cup {"idle", "waiting"}

(* ---- the store -------------------------------------------------------------- *)

\* The agents' tables have their domains, and the process its states.
Tables ==
    /\ pc \in [Agents -> Labels] /\ DOMAIN req = Agents /\ DOMAIN next = Agents
    /\ proc \in {"down", "starting", "up"}

\* Whoever persists holds the mutex; Open persists alone.
Mutex ==
    /\ \A w \in Writers : pc[w] \in Persisting => mu = w
    /\ \A w \in Writers : pc[w] # "idle" => proc = "up"
    /\ pc[Opener] # "idle" => proc = "starting" /\ pc[Opener] \in Persisting

\* A candidate that was renamed is what the file holds.
Renamed == \A a \in Committing : file = next[a]

\* While the process is up, the file is the live snapshot unless a write is
\* between its rename and its swap; and a synced directory has the file.
OnDisk == AcknowledgedIsSafe

StoreInv == Tables /\ Mutex /\ Renamed /\ OnDisk /\ NoLostUpdate

\* A step of the process outside the store.
StoreRest == UNCHANGED <<proc, live, mu, pc, req, next>> /\ UNCHANGED fsVars

\* Before the first start there is no candidate and nothing is served.
LEMMA StoreInitially == Init => StoreInv
<1> SUFFICES ASSUME Init PROVE StoreInv
    OBVIOUS
<1>1. \A a \in Agents : pc[a] = "idle"
    BY DEF Init, StoreInit
<1>2. Tables /\ Mutex
    BY <1>1 DEF Init, StoreInit, Tables, Mutex, Labels, Persisting, Agents
<1>3. Renamed /\ OnDisk /\ NoLostUpdate
    BY <1>1 DEF Init, StoreInit, Renamed, Committing, OnDisk, AcknowledgedIsSafe, NoLostUpdate, Agents
<1> QED BY <1>2, <1>3 DEF StoreInv

\* A step of the rest of the process is not about the store.
LEMMA StoreKept == StoreInv /\ StoreRest => StoreInv'
BY DEF StoreInv, StoreRest, fsVars, Tables, Mutex, Renamed, Committing, OnDisk, AcknowledgedIsSafe, NoLostUpdate

\* Open makes its candidate from the state file, the bootstrap file or nothing.
LEMMA StoreOpens == StoreInv /\ (OpenStateFile \/ OpenBootstrap \/ OpenEmpty) => StoreInv'
<1> SUFFICES ASSUME StoreInv, OpenStateFile \/ OpenBootstrap \/ OpenEmpty PROVE StoreInv'
    OBVIOUS
<1> USE DEF StoreInv, Tables, Mutex, Persisting, Labels
<1>0. /\ proc = "down" /\ \A a \in Agents : pc[a] = "idle"
      /\ Opener \in Agents /\ Opener \notin Writers
    BY GatewayAssumption DEF OpenStateFile, OpenBootstrap, OpenEmpty, Agents
<1>1. Tables'
    BY <1>0 DEF OpenStateFile, OpenBootstrap, OpenEmpty
<1>2. Mutex'
    BY <1>0 DEF OpenStateFile, OpenBootstrap, OpenEmpty, Agents
<1>3. \A a \in Agents : pc'[a] \in {"idle", "create"}
    BY <1>0 DEF OpenStateFile, OpenBootstrap, OpenEmpty
<1>4. \A w \in Writers : pc'[w] = "idle"
    BY <1>0 DEF OpenStateFile, OpenBootstrap, OpenEmpty, Agents
<1>5. Renamed'
    BY <1>3 DEF Renamed, Committing
<1>6. OnDisk'
    BY DEF OnDisk, AcknowledgedIsSafe, OpenStateFile, OpenBootstrap, OpenEmpty, fsVars
<1>7. NoLostUpdate'
    BY <1>4 DEF NoLostUpdate
<1> QED BY <1>1, <1>2, <1>5, <1>6, <1>7

\* A request that waits for the mutex holds nothing.
LEMMA StoreRequests == ASSUME NEW w \in Writers, NEW r \in Requests, StoreInv, Request(w, r) PROVE StoreInv'
<1> USE DEF StoreInv, Tables, Mutex, Persisting, Labels
<1>0. /\ w \in Agents /\ w # Opener /\ Opener \in Agents /\ proc = "up" /\ pc[w] = "idle"
      /\ \A a \in Agents : a # w => pc'[a] = pc[a] /\ req'[a] = req[a]
      /\ pc'[w] = "waiting" /\ DOMAIN req' = Agents
    BY GatewayAssumption DEF Request, Agents
<1>1. Tables'
    BY <1>0 DEF Request
<1>2. Mutex'
    BY <1>0 DEF Request, Agents
<1>3. Committing' = Committing
    BY <1>0 DEF Committing
<1>4. Renamed' /\ OnDisk'
    BY <1>3 DEF Renamed, OnDisk, AcknowledgedIsSafe, Request, fsVars
<1>5. NoLostUpdate'
    BY <1>0 DEF NoLostUpdate, Request, Agents
<1> QED BY <1>1, <1>2, <1>4, <1>5

\* update takes the mutex and makes the candidate from the live configuration.
LEMMA StoreUpdates == ASSUME NEW w \in Writers, StoreInv, Update(w) PROVE StoreInv'
<1> USE DEF StoreInv, Tables, Mutex, Persisting, Labels
<1>0. /\ w \in Agents /\ w # Opener /\ Opener \in Agents /\ None \notin Agents
      /\ pc[w] = "waiting" /\ mu = None /\ proc = "up"
    BY GatewayAssumption DEF Update, Agents
<1>1. \A v \in Writers : pc[v] \notin Persisting
    BY <1>0 DEF Agents
<1>2. CASE Apply(req[w], live) # None /\ Compiles(Apply(req[w], live))
    <2>0. /\ mu' = w /\ pc' = [pc EXCEPT ![w] = "create"]
          /\ next' = [next EXCEPT ![w] = Apply(req[w], live)]
          /\ UNCHANGED <<req, proc, live, left>> /\ UNCHANGED fsVars
        BY <1>2 DEF Update
    <2>1. Tables'
        BY <1>0, <2>0
    <2>2. Mutex'
        BY <1>0, <1>1, <2>0 DEF Agents
    <2>3. Committing' = Committing
        BY <1>0, <2>0 DEF Committing
    <2>4. Renamed' /\ OnDisk'
        BY <1>0, <2>0, <2>3 DEF Renamed, OnDisk, AcknowledgedIsSafe, fsVars, Committing
    <2>5. NoLostUpdate'
        BY <1>0, <1>1, <1>2, <2>0 DEF NoLostUpdate, Agents
    <2> QED BY <2>1, <2>2, <2>4, <2>5
<1>3. CASE ~(Apply(req[w], live) # None /\ Compiles(Apply(req[w], live)))
    <2>0. /\ pc' = [pc EXCEPT ![w] = "idle"] /\ req' = [req EXCEPT ![w] = None]
          /\ next' = [next EXCEPT ![w] = None]
          /\ UNCHANGED <<mu, proc, live, left>> /\ UNCHANGED fsVars
        BY <1>3 DEF Update, Back
    <2>1. Tables'
        BY <1>0, <2>0
    <2>2. Mutex'
        BY <1>0, <2>0 DEF Agents
    <2>3. Committing' = Committing /\ w \notin Committing
        BY <1>0, <2>0 DEF Committing
    <2>4. Renamed' /\ OnDisk'
        BY <1>0, <2>0, <2>3 DEF Renamed, OnDisk, AcknowledgedIsSafe, fsVars, Committing
    <2>5. NoLostUpdate'
        BY <1>0, <1>1, <2>0 DEF NoLostUpdate, Agents
    <2> QED BY <2>1, <2>2, <2>4, <2>5
<1> QED BY <1>2, <1>3

\* The agent that persists is the only one.
LEMMA Alone == ASSUME NEW a \in Agents, StoreInv, pc[a] \in Persisting
               PROVE  /\ \A b \in Agents : pc[b] \in Persisting => b = a
                      /\ a \in Writers => proc = "up" /\ mu = a
                      /\ a \notin Writers => proc = "starting"
<1> USE DEF StoreInv, Tables, Mutex, Persisting, Labels, Agents
<1> QED BY GatewayAssumption

\* The steps of persist up to its end: only the agent's own label and the files change.
LEMMA StorePersists == ASSUME NEW a \in Agents, StoreInv, WriteTemp(a) \/ SyncTemp(a) \/ Rename(a) \/ SyncDir(a)
                       PROVE StoreInv'
<1> USE DEF StoreInv, Tables, Mutex, Persisting, Labels
<1>0. /\ pc[a] \in Persisting /\ pc'[a] \in Persisting /\ DOMAIN pc' = Agents
      /\ \A b \in Agents : b # a => pc'[b] = pc[b]
      /\ UNCHANGED <<proc, live, mu, req, next>>
    BY DEF WriteTemp, SyncTemp, Rename, SyncDir
<1>1. pc' \in [Agents -> Labels]
    BY DEF WriteTemp, SyncTemp, Rename, SyncDir
<1>2. Tables' /\ Mutex'
    BY <1>0, <1>1 DEF Agents
<1>3. /\ \A b \in Agents : pc[b] \in Persisting => b = a
      /\ a \in Writers => proc = "up" /\ mu = a
      /\ a \notin Writers => proc = "starting"
    BY <1>0, Alone
<1>4. NoLostUpdate'
    BY <1>0, <1>3 DEF NoLostUpdate, Agents
<1>5. Committing' \subseteq {a}
    BY <1>0, <1>3 DEF Committing
<1>6. CASE WriteTemp(a) \/ SyncTemp(a)
    <2>1. Committing = {} /\ Committing' = {}
        BY <1>0, <1>3, <1>5, <1>6 DEF Committing, WriteTemp, SyncTemp
    <2> QED BY <1>0, <1>2, <1>4, <1>6, <2>1 DEF Renamed, OnDisk, AcknowledgedIsSafe, WriteTemp, SyncTemp
<1>7. CASE Rename(a)
    <2>1. file' = next'[a] /\ unsynced' = TRUE /\ a \in Committing'
        BY <1>7 DEF Rename, Committing
    <2> QED BY <1>0, <1>2, <1>4, <1>5, <2>1 DEF Renamed, OnDisk, AcknowledgedIsSafe
<1>8. CASE SyncDir(a)
    <2>1. /\ file' = file /\ a \in Committing /\ a \in Committing'
          /\ ~unsynced' => durable' = file'
        BY <1>8 DEF SyncDir, Committing, OnDisk, AcknowledgedIsSafe
    <2>2. file' = next'[a]
        BY <1>0, <2>1 DEF Renamed
    <2> QED BY <1>0, <1>2, <1>4, <1>5, <2>1, <2>2 DEF Renamed, OnDisk, AcknowledgedIsSafe
<1> QED BY <1>6, <1>7, <1>8

\* An agent that ends its update goes back to idle and releases the mutex.
LEMMA StoreFinishes == ASSUME NEW a \in Agents, StoreInv, PersistFails(a) \/ Swap(a) PROVE StoreInv'
<1> USE DEF StoreInv, Tables, Mutex, Persisting, Labels
<1>0. /\ pc[a] \in Persisting /\ pc' = [pc EXCEPT ![a] = "idle"]
      /\ req' = [req EXCEPT ![a] = None] /\ next' = [next EXCEPT ![a] = None]
      /\ UNCHANGED <<file, durable, unsynced>>
    BY DEF PersistFails, Swap, Back, fsVars
<1>1. /\ \A b \in Agents : pc[b] \in Persisting => b = a
      /\ a \in Writers => proc = "up" /\ mu = a
      /\ a \notin Writers => proc = "starting"
    BY <1>0, Alone
<1>2. /\ \A b \in Agents : pc'[b] \notin Persisting
      /\ pc' \in [Agents -> Labels] /\ DOMAIN req' = Agents /\ DOMAIN next' = Agents
    BY <1>0, <1>1
<1>3. Opener \in Agents /\ Opener \notin Writers /\ (a = Opener \/ a \in Writers)
    BY GatewayAssumption DEF Agents
<1>4. Committing' = {}
    BY <1>2 DEF Committing
<1>5. NoLostUpdate' /\ Renamed'
    BY <1>2, <1>4 DEF NoLostUpdate, Renamed, Agents
<1>6. CASE PersistFails(a)
    <2>1. proc' = IF a = Opener THEN "down" ELSE proc
        BY <1>6 DEF PersistFails
    <2>2. Tables' /\ Mutex'
        BY <1>0, <1>1, <1>2, <1>3, <2>1 DEF Agents
    <2>3. Committing = {}
        BY <1>1, <1>6 DEF Committing, PersistFails
    <2>4. OnDisk'
        BY <1>0, <1>1, <1>3, <1>6, <2>1, <2>3 DEF OnDisk, AcknowledgedIsSafe, PersistFails
    <2> QED BY <1>5, <2>2, <2>4
<1>7. CASE Swap(a)
    <2>1. proc' = "up" /\ live' = next[a] /\ a \in Committing
        BY <1>7 DEF Swap, Committing
    <2>2. Tables' /\ Mutex'
        BY <1>0, <1>2, <1>3, <2>1 DEF Agents
    <2>3. OnDisk'
        BY <1>0, <2>1 DEF OnDisk, AcknowledgedIsSafe, Renamed
    <2> QED BY <1>5, <2>2, <2>3
<1> QED BY <1>6, <1>7

\* The end of the process, in whatever way, leaves the file and forgets the candidates.
LEMMA StoreEnds == ASSUME StoreInv, Ends,
                          \/ UNCHANGED <<file, durable, unsynced>>
                          \/ durable' = file' /\ unsynced' = FALSE
                   PROVE StoreInv'
<1>1. \A a \in Agents : pc'[a] = "idle"
    BY DEF Ends
<1>2. Tables' /\ Mutex'
    BY <1>1 DEF Ends, Tables, Mutex, Labels, Persisting, Agents
<1>3. Renamed' /\ NoLostUpdate'
    BY <1>1 DEF Renamed, Committing, NoLostUpdate, Agents
<1>4. OnDisk'
    BY DEF Ends, OnDisk, AcknowledgedIsSafe, StoreInv
<1> QED BY <1>2, <1>3, <1>4 DEF StoreInv

\* Every step keeps file, candidate and live configuration together.
LEMMA StoreStep == StoreInv /\ [Next]_vars => StoreInv'
<1> SUFFICES ASSUME StoreInv, [Next]_vars PROVE StoreInv'
    OBVIOUS
<1>1. CASE Open
    BY <1>1, StoreOpens DEF Open
<1>2. CASE Dies
    BY <1>2, StoreEnds DEF Dies, Crash, PowerLoss
<1>3. ASSUME NEW w \in Writers, UpdateStep(w) PROVE StoreInv'
    BY <1>3, StoreUpdates DEF UpdateStep
<1>4. ASSUME NEW w \in Writers, NEW r \in Requests, AdminRequest(w, r) PROVE StoreInv'
    BY <1>4, StoreRequests DEF AdminRequest
<1>5. ASSUME NEW a \in Agents, PersistStep(a) PROVE StoreInv'
    BY <1>5, StorePersists, StoreFinishes DEF PersistStep
<1>6. ASSUME NEW c \in Conns,
             \/ Arrive(c) \/ CheckStopping(c) \/ ResolveRuntime(c) \/ Reserve(c) \/ Refuse(c)
             \/ Register(c) \/ Accept(c) \/ ServeEnds(c) \/ Release(c) \/ ConnDone(c)
      PROVE  StoreInv'
    <2>1. StoreRest
        BY <1>6 DEF StoreRest, storeVars, fsVars, Arrive, CheckStopping, ResolveRuntime, Reserve, Refuse,
                    Register, Accept, ServeEnds, Release, ConnDone
    <2> QED BY <2>1, StoreKept
<1>7. CASE Signal \/ Expire \/ AdminShutdown \/ HttpShutdown \/ ServerShutdown \/ UNCHANGED vars
    <2>1. StoreRest
        BY <1>7 DEF StoreRest, storeVars, fsVars, vars, Signal, Expire, AdminShutdown, HttpShutdown,
                    ServerShutdown, MainStep
    <2> QED BY <2>1, StoreKept
<1>8. CASE Exit
    BY <1>8, StoreEnds DEF Exit
<1> QED BY <1>1, <1>2, <1>3, <1>4, <1>5, <1>6, <1>7, <1>8 DEF Next

\* The invariant of the store holds in every reachable state of the gateway.
THEOREM StoreInvariant == Spec => []StoreInv
BY StoreInitially, StoreStep, PTL DEF Spec

(* No Admin write undoes another (admin/store.go, update): whatever the       *)
(* operators send, a candidate on its way to the disk is its request applied  *)
(* to the configuration that is live.                                         *)
THEOREM UpdatesSerialized == Spec => []NoLostUpdate
<1>1. StoreInv => NoLostUpdate
    BY DEF StoreInv
<1> QED BY <1>1, StoreInvariant, PTL

(* What is served is what the next start reads (persist before swap), but for *)
(* the write between its rename and its swap.                                 *)
THEOREM AcknowledgedOnDisk == Spec => []AcknowledgedIsSafe
<1>1. StoreInv => AcknowledgedIsSafe
    BY DEF StoreInv, OnDisk
<1> QED BY <1>1, StoreInvariant, PTL

\* A step that changes the configuration of a running gateway is a writer's swap.
LEMMA ChangesAreSwaps ==
    ASSUME StoreInv, [Next]_vars, proc = "up", proc' = "up", live' # live
    PROVE  \E w \in Writers : live' = Apply(req[w], live)
<1>1. ~Open /\ ~Dies /\ ~Exit
    BY DEF Open, OpenStateFile, OpenBootstrap, OpenEmpty, Dies, Crash, PowerLoss, Exit, Ends
<1>2. ASSUME NEW w \in Writers, UpdateStep(w) \/ \E r \in Requests : AdminRequest(w, r) PROVE FALSE
    BY <1>2 DEF UpdateStep, Update, AdminRequest, Request
<1>3. ASSUME NEW c \in Conns,
             \/ Arrive(c) \/ CheckStopping(c) \/ ResolveRuntime(c) \/ Reserve(c) \/ Refuse(c)
             \/ Register(c) \/ Accept(c) \/ ServeEnds(c) \/ Release(c) \/ ConnDone(c)
      PROVE  FALSE
    BY <1>3 DEF storeVars, Arrive, CheckStopping, ResolveRuntime, Reserve, Refuse, Register, Accept, ServeEnds,
                Release, ConnDone
<1>4. ~(Signal \/ Expire \/ AdminShutdown \/ HttpShutdown \/ ServerShutdown \/ UNCHANGED vars)
    BY DEF storeVars, vars, Signal, Expire, AdminShutdown, HttpShutdown, ServerShutdown, MainStep
<1>5. PICK a \in Agents : PersistStep(a)
    BY <1>1, <1>2, <1>3, <1>4 DEF Next
<1>6. Swap(a)
    BY <1>5 DEF PersistStep, WriteTemp, SyncTemp, Rename, SyncDir, PersistFails
<1>7. pc[a] = "persisted" /\ live' = next[a]
    BY <1>6 DEF Swap
<1>8. a \in Writers
    BY <1>7, Alone DEF Persisting
<1>9. next[a] = Apply(req[a], live)
    BY <1>7, <1>8 DEF StoreInv, NoLostUpdate
<1> QED BY <1>7, <1>8, <1>9

(* Seen from outside, each change of the running configuration is one request *)
(* applied to the configuration before it, whatever else is under way.        *)
THEOREM AdminWritesAtomic == Spec => WritesAreAtomic
<1>1. StoreInv /\ [Next]_vars =>
        [proc = "up" /\ proc' = "up" /\ live' # live => \E w \in Writers : live' = Apply(req[w], live)]_storeVars
    BY ChangesAreSwaps
<1> QED BY <1>1, StoreInvariant, PTL DEF Spec, WritesAreAtomic

(* ---- admission ---------------------------------------------------------------- *)

Admitted == {c \in Conns : cpc[c] \in {"reserved", "registered", "serving"}}
Holders == {c \in Conns : cpc[c] \in Holding}
Counted == {c \in Conns : cpc[c] \in {"registered", "serving", "ended", "released"}}

\* The counters are the sizes of the sets they stand for.
Counters ==
    /\ cpc \in [Conns -> InHandler \cup {"idle"}]
    /\ active \in Nat /\ active = Cardinality(Holders)
    /\ conns \in Nat /\ conns = Cardinality(Counted)
    /\ Cardinality(Admitted) <= MaxSessions

\* Once httpSrv.Shutdown has returned in time, only upgraded connections are left.
Drained ==
    /\ hijacked \subseteq Conns
    /\ \A c \in hijacked : cpc[c] \in {"serving", "ended", "released"}
    /\ main \in {"srv", "exit"} /\ ~expired => \A c \in Conns \ hijacked : cpc[c] = "idle"
    /\ main = "exit" /\ ~expired => \A c \in Conns : cpc[c] = "idle"

ConnInv == Counters /\ Drained

\* Cardinalities of sets of connections.
LEMMA Sizes ==
    ASSUME NEW S \in SUBSET Conns
    PROVE  /\ IsFiniteSet(S) /\ Cardinality(S) \in Nat
           /\ \A c \in Conns \ S : Cardinality(S \cup {c}) = Cardinality(S) + 1
           /\ \A c \in S : Cardinality(S \ {c}) = Cardinality(S) - 1
           /\ Cardinality(S) = 0 => S = {}
<1>1. IsFiniteSet(S)
    BY GatewayAssumption, FS_Subset
<1> QED BY <1>1, FS_CardinalityType, FS_AddElement, FS_RemoveElement, FS_EmptySet

\* Nobody is in the handler when the process starts.
LEMMA ConnInitially == ASSUME cpc = [c \in Conns |-> "idle"], active = 0, conns = 0, hijacked = {}, main = "run"
                       PROVE ConnInv
<1>1. Admitted = {} /\ Holders = {} /\ Counted = {}
    BY DEF Admitted, Holders, Counted, Holding
<1> QED BY <1>1, FS_EmptySet, GatewayAssumption DEF ConnInv, Counters, Drained, InHandler

\* A step that moves no request keeps the counters.
LEMMA ConnKept == ConnInv /\ UNCHANGED <<cpc, active, conns, hijacked>>
                          /\ (main' = main \/ main' \notin {"srv", "exit"}) /\ (expired => expired') => ConnInv'
BY DEF ConnInv, Counters, Drained, Admitted, Holders, Counted

\* What a request's move from one place of the handler to another does to the sets.
LEMMA Moves ==
    ASSUME NEW c \in Conns, NEW l \in InHandler \cup {"idle"}, ConnInv, Goto(c, l)
    PROVE  /\ cpc' \in [Conns -> InHandler \cup {"idle"}] /\ cpc'[c] = l
           /\ \A d \in Conns : d # c => cpc'[d] = cpc[d]
           /\ Holders' = (Holders \ {c}) \cup (IF l \in Holding THEN {c} ELSE {})
           /\ Counted' = (Counted \ {c}) \cup
                   (IF l \in {"registered", "serving", "ended", "released"} THEN {c} ELSE {})
           /\ Admitted' = (Admitted \ {c}) \cup
                   (IF l \in {"reserved", "registered", "serving"} THEN {c} ELSE {})
           /\ Holders \in SUBSET Conns /\ Counted \in SUBSET Conns /\ Admitted \in SUBSET Conns
           /\ Holders' \in SUBSET Conns /\ Counted' \in SUBSET Conns /\ Admitted' \in SUBSET Conns
<1>1. /\ cpc' \in [Conns -> InHandler \cup {"idle"}] /\ cpc'[c] = l
      /\ \A d \in Conns : d # c => cpc'[d] = cpc[d]
    BY DEF ConnInv, Counters, Goto
<1>2. Holders' = (Holders \ {c}) \cup (IF l \in Holding THEN {c} ELSE {})
    BY <1>1 DEF Holders
<1>3. Counted' = (Counted \ {c}) \cup (IF l \in {"registered", "serving", "ended", "released"} THEN {c} ELSE {})
    BY <1>1 DEF Counted
<1>4. Admitted' = (Admitted \ {c}) \cup (IF l \in {"reserved", "registered", "serving"} THEN {c} ELSE {})
    BY <1>1 DEF Admitted
<1> QED BY <1>1, <1>2, <1>3, <1>4 DEF Holders, Counted, Admitted

\* The steps in which a request keeps the slots it has, or that it has none of.
LEMMA ConnPasses ==
    ASSUME NEW c \in Conns, ConnInv,
           Arrive(c) \/ CheckStopping(c) \/ ResolveRuntime(c) \/ Accept(c) \/ ServeEnds(c)
    PROVE  ConnInv'
<1> DEFINE Passes(l) ==
        \/ cpc[c] \in {"idle", "new", "checked"} /\ l \in {"idle", "new", "checked", "resolved"}
        \/ cpc[c] = "registered" /\ l \in {"serving", "ended"}
        \/ cpc[c] = "serving" /\ l = "ended"
<1>1. PICK l \in InHandler \cup {"idle"} : Goto(c, l) /\ Passes(l)
    BY DEF Arrive, CheckStopping, ResolveRuntime, Accept, ServeEnds, InHandler
<1>2. Holders' = Holders /\ Counted' = Counted /\ Admitted' \subseteq Admitted
    BY <1>1, Moves DEF Holders, Counted, Admitted, Holding
<1>3. UNCHANGED <<active, conns, main, expired>>
    BY DEF Arrive, CheckStopping, ResolveRuntime, Accept, ServeEnds
<1>4. Cardinality(Admitted') <= Cardinality(Admitted) /\ Cardinality(Admitted) \in Nat /\ Cardinality(Admitted') \in Nat
    <2>1. Admitted \in SUBSET Conns /\ Admitted' \in SUBSET Conns
        BY DEF Admitted
    <2>2. IsFiniteSet(Admitted) /\ IsFiniteSet(Admitted')
        BY <2>1, Sizes
    <2> QED BY <1>2, <2>2, FS_Subset, FS_CardinalityType
<1>5. Counters'
    BY <1>1, <1>2, <1>3, <1>4, Moves, GatewayAssumption DEF ConnInv, Counters
<1>6. Drained'
    BY <1>1, <1>3, Moves DEF ConnInv, Drained, Arrive, CheckStopping, ResolveRuntime, Accept, ServeEnds
<1> QED BY <1>5, <1>6 DEF ConnInv

\* The limit check and the increment are one step under the mutex.
LEMMA ConnReserves == ASSUME NEW c \in Conns, ConnInv, Reserve(c) PROVE ConnInv'
<1> DEFINE l == IF active + 1 > MaxSessions THEN "over" ELSE "reserved"
<1>1. l \in InHandler \cup {"idle"} /\ Goto(c, l) /\ cpc[c] = "resolved"
    BY DEF Reserve, InHandler
<1> HIDE DEF l
<1>2. Holders' = Holders \cup {c} /\ c \notin Holders /\ Counted' = Counted
    BY <1>1, Moves DEF Holders, Counted, Holding, l
<1>3. UNCHANGED <<conns, hijacked, main, expired>> /\ active' = active + 1
    BY DEF Reserve
<1>4. Cardinality(Holders') = active + 1 /\ active' \in Nat
    BY <1>1, <1>2, <1>3, Moves, Sizes DEF ConnInv, Counters
<1>5. Cardinality(Admitted') <= MaxSessions
    <2>1. CASE l = "over"
        <3>1. Admitted' = Admitted
            BY <1>1, <2>1, Moves DEF Admitted
        <3> QED BY <3>1 DEF ConnInv, Counters
    <2>2. CASE l # "over"
        <3>1. active + 1 <= MaxSessions
            BY <2>2, GatewayAssumption DEF l, ConnInv, Counters
        <3>2. Admitted' \subseteq Holders'
            BY DEF Admitted, Holders, Holding
        <3>3. IsFiniteSet(Holders')
            BY <1>1, Moves, Sizes
        <3>4. Cardinality(Admitted') <= Cardinality(Holders') /\ Cardinality(Admitted') \in Nat
            BY <3>2, <3>3, FS_Subset, FS_CardinalityType
        <3> QED BY <1>3, <1>4, <3>1, <3>4, GatewayAssumption
    <2> QED BY <2>1, <2>2
<1>6. Counters'
    BY <1>1, <1>2, <1>3, <1>4, <1>5, Moves DEF ConnInv, Counters
<1>7. Drained'
    BY <1>1, <1>3, Moves DEF ConnInv, Drained
<1> QED BY <1>6, <1>7 DEF ConnInv

\* A refused or leaving request gives back the slot it holds, once.
LEMMA ConnGivesBack == ASSUME NEW c \in Conns, ConnInv, Refuse(c) \/ Release(c) PROVE ConnInv'
<1>1. PICK l \in InHandler \cup {"idle"} :
        Goto(c, l) /\ ((cpc[c] = "over" /\ l = "idle") \/ (cpc[c] = "ended" /\ l = "released"))
    BY DEF Refuse, Release, InHandler
<1>2. Holders' = Holders \ {c} /\ c \in Holders /\ Counted' = Counted /\ Admitted' = Admitted
    BY <1>1, Moves DEF Holders, Counted, Admitted, Holding
<1>3. UNCHANGED <<conns, hijacked, main, expired>> /\ active' = active - 1
    BY DEF Refuse, Release
<1>4. Cardinality(Holders') = active - 1 /\ active' \in Nat
    BY <1>1, <1>2, <1>3, Moves, Sizes DEF ConnInv, Counters
<1>5. Counters'
    BY <1>1, <1>2, <1>3, <1>4, Moves DEF ConnInv, Counters
<1>6. Drained'
    BY <1>1, <1>3, Moves DEF ConnInv, Drained
<1> QED BY <1>5, <1>6 DEF ConnInv

\* conns.Add.
LEMMA ConnRegisters == ASSUME NEW c \in Conns, ConnInv, Register(c) PROVE ConnInv'
<1>1. "registered" \in InHandler \cup {"idle"} /\ Goto(c, "registered") /\ cpc[c] = "reserved"
    BY DEF Register, InHandler
<1>2. Counted' = Counted \cup {c} /\ c \notin Counted /\ Holders' = Holders /\ Admitted' = Admitted
    BY <1>1, Moves DEF Holders, Counted, Admitted, Holding
<1>3. UNCHANGED <<active, hijacked, main, expired>> /\ conns' = conns + 1
    BY DEF Register
<1>4. Cardinality(Counted') = conns + 1 /\ conns' \in Nat
    BY <1>1, <1>2, <1>3, Moves, Sizes DEF ConnInv, Counters
<1>5. Counters'
    BY <1>1, <1>2, <1>3, <1>4, Moves DEF ConnInv, Counters
<1>6. Drained'
    BY <1>1, <1>3, Moves DEF ConnInv, Drained
<1> QED BY <1>5, <1>6 DEF ConnInv

\* conns.Done.
LEMMA ConnLeaves == ASSUME NEW c \in Conns, ConnInv, ConnDone(c) PROVE ConnInv'
<1>1. "idle" \in InHandler \cup {"idle"} /\ Goto(c, "idle") /\ cpc[c] = "released"
    BY DEF ConnDone
<1>2. Counted' = Counted \ {c} /\ c \in Counted /\ Holders' = Holders /\ Admitted' = Admitted
    BY <1>1, Moves DEF Holders, Counted, Admitted, Holding
<1>3. UNCHANGED <<active, main, expired>> /\ conns' = conns - 1 /\ hijacked' = hijacked \ {c}
    BY DEF ConnDone
<1>4. Cardinality(Counted') = conns - 1 /\ conns' \in Nat
    BY <1>1, <1>2, <1>3, Moves, Sizes DEF ConnInv, Counters
<1>5. Counters'
    BY <1>1, <1>2, <1>3, <1>4, Moves DEF ConnInv, Counters
<1>6. Drained'
    BY <1>1, <1>3, Moves DEF ConnInv, Drained
<1> QED BY <1>5, <1>6 DEF ConnInv

\* main's way down: each Shutdown waits for what the invariant says is left.
LEMMA ConnShutsDown == ASSUME ConnInv, HttpShutdown \/ ServerShutdown PROVE ConnInv'
<1>1. UNCHANGED <<cpc, active, conns, hijacked, expired>>
    BY DEF HttpShutdown, ServerShutdown, MainStep
<1>2. Counters'
    BY <1>1 DEF ConnInv, Counters, Holders, Counted, Admitted
<1>3. CASE HttpShutdown
    BY <1>1, <1>2, <1>3 DEF ConnInv, Drained, HttpShutdown, MainStep
<1>4. CASE ServerShutdown
    <2>1. ~expired => Counted = {}
        <3>1. Counted \in SUBSET Conns
            BY DEF Counted
        <3> QED BY <1>4, <3>1, Sizes DEF ServerShutdown, ConnInv, Counters
    <2>2. ~expired => hijacked = {}
        BY <2>1 DEF ConnInv, Drained, Counted
    <2> QED BY <1>1, <1>2, <1>4, <2>2 DEF ConnInv, Drained, ServerShutdown, MainStep
<1> QED BY <1>3, <1>4

\* Every step keeps the counters exact.
LEMMA ConnStep == ConnInv /\ [Next]_vars => ConnInv'
<1> SUFFICES ASSUME ConnInv, [Next]_vars PROVE ConnInv'
    OBVIOUS
<1>1. CASE \/ Open \/ Signal \/ Expire \/ AdminShutdown \/ UNCHANGED vars
           \/ \E w \in Writers : UpdateStep(w) \/ \E r \in Requests : AdminRequest(w, r)
           \/ \E a \in Agents : PersistStep(a)
    <2>1. UNCHANGED <<cpc, active, conns, hijacked>> /\ (main' = main \/ main' \notin {"srv", "exit"}) /\ (expired => expired')
        BY <1>1 DEF Open, Signal, Expire, AdminShutdown, MainStep, vars, connVars, UpdateStep, AdminRequest, PersistStep
    <2> QED BY <2>1, ConnKept
<1>2. CASE Dies \/ Exit
    <2>1. ConnsReset
        BY <1>2 DEF Dies, Exit
    <2>2. cpc' = [c \in Conns |-> "idle"] /\ active' = 0 /\ conns' = 0 /\ hijacked' = {} /\ main' = "run"
        BY <2>1 DEF ConnsReset
    <2>3. Admitted' = {} /\ Holders' = {} /\ Counted' = {}
        BY <2>2 DEF Admitted, Holders, Counted, Holding
    <2> QED BY <2>2, <2>3, FS_EmptySet, GatewayAssumption DEF ConnInv, Counters, Drained, InHandler
<1>3. ASSUME NEW c \in Conns,
             Arrive(c) \/ CheckStopping(c) \/ ResolveRuntime(c) \/ Accept(c) \/ ServeEnds(c)
      PROVE  ConnInv'
    BY <1>3, ConnPasses
<1>4. ASSUME NEW c \in Conns,
             Reserve(c) \/ Refuse(c) \/ Release(c) \/ Register(c) \/ ConnDone(c)
      PROVE  ConnInv'
    BY <1>4, ConnReserves, ConnGivesBack, ConnRegisters, ConnLeaves
<1>5. CASE HttpShutdown \/ ServerShutdown
    BY <1>5, ConnShutsDown
<1> QED BY <1>1, <1>2, <1>3, <1>4, <1>5 DEF Next

\* The invariant of the admission holds in every reachable state of the gateway.
THEOREM AdmissionInvariant == Spec => []ConnInv
<1>1. Init => ConnInv
    BY ConnInitially DEF Init
<1> QED BY <1>1, ConnStep, PTL DEF Spec

(* The session limit (server.go, handleRealtime): for every number of         *)
(* requests and every limit, no more than max_sessions are admitted at once   *)
(* and the counter is exactly the slots that are held.                        *)
THEOREM SlotsAreExact == Spec => []SlotsExact
<1>1. ConnInv => SlotsExact
    BY DEF ConnInv, Counters, SlotsExact, Admitted, Holders
<1> QED BY <1>1, AdmissionInvariant, PTL

(* main's order of shutdowns (cmd/gateway/main.go): a shutdown that was not   *)
(* cut short by its timeout leaves no request and no session behind.          *)
THEOREM NobodyLeft == Spec => []ShutdownLeavesNobody
<1>1. ConnInv => ShutdownLeavesNobody
    BY DEF ConnInv, Drained, ShutdownLeavesNobody
<1> QED BY <1>1, AdmissionInvariant, PTL

(* ---- what runs can be run --------------------------------------------------------- *)

\* A state file, as a start or a power loss may find it.
Loads(f) == f # Absent => f \in Configs /\ Compiles(f)

\* Every configuration on its way is a whole one that compiled.
WholeConfigs ==
    /\ live \in Configs /\ Compiles(live)
    /\ \A w \in Writers : pc[w] = "waiting" => req[w] \in Requests
    /\ \A a \in Agents : pc[a] \in Persisting => next[a] \in Configs /\ Compiles(next[a])

\* What is on the disk loads, and was synced before it was renamed.
WholeFiles ==
    /\ bootstrap \in Bootstraps /\ Loads(file) /\ Loads(durable) /\ dirty = FALSE
    /\ DOMAIN tmp = Agents /\ \A a \in Agents : pc[a] = "synced" => tmp[a] = "synced"

\* The runtime configuration r has a usable provider in every role.
Runs(r) == \A k \in Kinds : r[k] # None /\ <<k, r[k].type>> \in Known /\ r[k].key \notin Unusable

Serves == DOMAIN rt = Conns /\ \A c \in Conns : rt[c] # None => Runs(rt[c])

UsableInv == WholeConfigs /\ WholeFiles /\ Serves

\* The empty configuration is valid, and there is nothing to build.
LEMMA EmptyCompiles == Empty \in Configs /\ Compiles(Empty)
<1>1. Empty \in Configs
    BY DEF Empty, Configs, NoProviders
<1>2. Present(Empty.providers) = {} /\ Present(Empty.profiles) = {} /\ Empty.default = None
    BY DEF Empty, Present, NoProviders
<1> QED BY <1>1, <1>2 DEF Compiles, Validate, Builds

\* Unmasking gives an instance that has a key.
LEMMA UnmaskTyped ==
    ASSUME NEW cur \in Configs, NEW n \in ProviderNames, NEW inst \in Instances \cup {None},
           Unmaskable(inst, n, cur)
    PROVE  Unmask(inst, n, cur) \in Instances \cup {None}
<1>1. cur.providers[n] \in Instances \cup {None}
    BY DEF Configs
<1>2. CASE inst = None \/ inst.key # Mask
    BY <1>2 DEF Unmask
<1>3. CASE inst # None /\ inst.key = Mask
    <2>1. cur.providers[n] \in Instances /\ inst \in Instances
        BY <1>1, <1>3 DEF Unmaskable
    <2>2. Unmask(inst, n, cur) = [inst EXCEPT !.key = cur.providers[n].key]
        BY <1>3 DEF Unmask
    <2> QED BY <2>1, <2>2 DEF Instances
<1> QED BY <1>2, <1>3

\* A request that is not refused makes a configuration of a configuration.
LEMMA ApplyTyped ==
    ASSUME NEW r \in Writes, NEW cur \in Configs, Apply(r, cur) # None
    PROVE  Apply(r, cur) \in Configs
<1>1. CASE r \in [op : {"put config"}, doc : Configs]
    <2>1. r.op = "put config" /\ r.doc \in Configs /\ Apply(r, cur) = PutConfig(r, cur)
        BY <1>1 DEF Apply
    <2>2. \A n \in ProviderNames : Unmaskable(r.doc.providers[n], n, cur)
        BY <2>1 DEF PutConfig
    <2>3. \A n \in ProviderNames : r.doc.providers[n] \in Instances \cup {None}
        BY <2>1 DEF Configs
    <2> DEFINE ps == [n \in ProviderNames |-> Unmask(r.doc.providers[n], n, cur)]
    <2>4. ps \in [ProviderNames -> Instances \cup {None}]
        BY <2>2, <2>3, UnmaskTyped
    <2>5. Apply(r, cur) = [r.doc EXCEPT !.providers = ps]
        BY <2>1, <2>2 DEF PutConfig
    <2> HIDE DEF ps
    <2> QED BY <2>1, <2>4, <2>5 DEF Configs
<1>2. CASE r \in [op : {"put provider"}, name : ProviderNames, inst : Instances]
    <2>1. r.op = "put provider" /\ r.name \in ProviderNames /\ r.inst \in Instances /\ Apply(r, cur) = PutProvider(r, cur)
        BY <1>2 DEF Apply
    <2>2. Unmask(r.inst, r.name, cur) \in Instances \cup {None}
        BY <2>1, UnmaskTyped DEF PutProvider
    <2> DEFINE i == Unmask(r.inst, r.name, cur)
    <2>3. Apply(r, cur) = [cur EXCEPT !.providers[r.name] = i]
        BY <2>1 DEF PutProvider
    <2> HIDE DEF i
    <2>4. i \in Instances \cup {None}
        BY <2>2 DEF i
    <2> QED BY <2>1, <2>3, <2>4 DEF Configs
<1>3. CASE r \in [op : {"delete provider"}, name : ProviderNames]
    <2>1. r.name \in ProviderNames /\ Apply(r, cur) = DeleteProvider(r, cur)
        BY <1>3 DEF Apply
    <2> QED BY <2>1 DEF DeleteProvider, Configs
<1>4. CASE r \in [op : {"put profile"}, name : ProfileNames, profile : Profiles]
    <2>1. r.name \in ProfileNames /\ r.profile \in Profiles /\ Apply(r, cur) = PutProfile(r, cur)
        BY <1>4 DEF Apply
    <2> QED BY <2>1 DEF PutProfile, Configs
<1>5. CASE r \in [op : {"delete profile"}, name : ProfileNames]
    <2>1. r.name \in ProfileNames /\ Apply(r, cur) = DeleteProfile(r, cur)
        BY <1>5 DEF Apply
    <2> QED BY <2>1 DEF DeleteProfile, Configs
<1>6. CASE r \in [op : {"put settings"}, default : ProfileNames \cup {None}]
    <2>1. r.default \in ProfileNames \cup {None} /\ Apply(r, cur) = PutSettings(r, cur)
        BY <1>6 DEF Apply
    <2> QED BY <2>1 DEF PutSettings, Configs
<1>7. CASE r \in [op : {"malformed"}]
    BY <1>7 DEF Apply
<1> QED BY <1>1, <1>2, <1>3, <1>4, <1>5, <1>6, <1>7 DEF Writes

\* A configuration that compiled resolves to providers that can be run.
LEMMA ResolvesRun == WholeConfigs /\ Resolvable => Runs(Resolve)
<1> SUFFICES ASSUME WholeConfigs, Resolvable, NEW k \in Kinds
             PROVE  Resolve[k] # None /\ <<k, Resolve[k].type>> \in Known /\ Resolve[k].key \notin Unusable
    BY DEF Runs
<1>1. live.default \in Present(live.profiles)
    BY DEF WholeConfigs, Compiles, Validate, Resolvable
<1> DEFINE p == live.profiles[live.default]
<1>2. <<k, p[k]>> \in Refs(p)
    BY DEF Refs
<1>3. /\ p[k] \in Present(live.providers) /\ <<k, live.providers[p[k]].type>> \in Known
      /\ live.providers[p[k]].key \notin Unusable
    BY <1>1, <1>2 DEF WholeConfigs, Compiles, Validate, Builds
<1>4. Resolve[k] = live.providers[p[k]]
    BY DEF Resolve
<1> QED BY <1>3, <1>4 DEF Present

\* Nothing is written or served before the first start.
LEMMA UsableInitially == Init => UsableInv
<1> SUFFICES ASSUME Init PROVE UsableInv
    OBVIOUS
<1>1. WholeConfigs
    BY EmptyCompiles DEF Init, StoreInit, WholeConfigs, Persisting, Agents
<1>2. WholeFiles
    BY DEF Init, StoreInit, WholeFiles, Loads
<1>3. Serves
    BY DEF Init, Serves
<1> QED BY <1>1, <1>2, <1>3 DEF UsableInv

\* A step of the rest of the process changes no configuration and no file.
LEMMA UsableKept == ASSUME UsableInv, StoreRest PROVE WholeConfigs' /\ WholeFiles'
BY DEF UsableInv, StoreRest, fsVars, WholeConfigs, WholeFiles, Loads, Compiles, Validate, Builds

\* Open serves a configuration that was validated and built.
LEMMA UsableOpens ==
    ASSUME StoreInv, UsableInv, OpenStateFile \/ OpenBootstrap \/ OpenEmpty
    PROVE  WholeConfigs' /\ WholeFiles'
<1>0. proc = "down" /\ pc \in [Agents -> Labels] /\ DOMAIN next = Agents /\ Opener \in Agents /\ Opener \notin Writers
    BY GatewayAssumption DEF StoreInv, Tables, OpenStateFile, OpenBootstrap, OpenEmpty, Agents
<1>1. CASE OpenStateFile
    BY <1>1 DEF OpenStateFile, UsableInv, WholeConfigs, WholeFiles, Loads, fsVars
<1>2. CASE OpenBootstrap
    <2>1. bootstrap \in Configs /\ Compiles(bootstrap)
        BY <1>2, StoreAssumption DEF OpenBootstrap, UsableInv, WholeFiles
    <2>2. /\ pc' = [pc EXCEPT ![Opener] = "create"] /\ next' = [next EXCEPT ![Opener] = bootstrap]
          /\ UNCHANGED <<live, req>> /\ UNCHANGED fsVars
        BY <1>2 DEF OpenBootstrap
    <2>3. WholeConfigs'
        BY <1>0, <2>1, <2>2 DEF UsableInv, WholeConfigs, Agents
    <2>4. WholeFiles'
        BY <1>0, <2>2 DEF UsableInv, WholeFiles, Loads, fsVars
    <2> QED BY <2>3, <2>4
<1>3. CASE OpenEmpty
    BY <1>3, EmptyCompiles DEF OpenEmpty, UsableInv, WholeConfigs, WholeFiles, Loads, fsVars
<1> QED BY <1>1, <1>2, <1>3

\* A request has not changed anything yet.
LEMMA UsableRequests ==
    ASSUME NEW w \in Writers, NEW r \in Requests, StoreInv, UsableInv, Request(w, r)
    PROVE  WholeConfigs' /\ WholeFiles'
<1>0. /\ pc' = [pc EXCEPT ![w] = "waiting"] /\ req' = [req EXCEPT ![w] = r]
      /\ UNCHANGED <<live, next>> /\ UNCHANGED fsVars
      /\ pc \in [Agents -> Labels] /\ DOMAIN req = Agents /\ w \in Agents
    BY DEF Request, StoreInv, Tables, Agents
<1>1. WholeConfigs'
    BY <1>0 DEF UsableInv, WholeConfigs, Agents, Persisting
<1>2. WholeFiles'
    BY <1>0 DEF UsableInv, WholeFiles, Loads, fsVars
<1> QED BY <1>1, <1>2

\* update validates and builds the candidate before it is persisted.
LEMMA UsableUpdates ==
    ASSUME NEW w \in Writers, StoreInv, UsableInv, Update(w)
    PROVE  WholeConfigs' /\ WholeFiles'
<1>0. /\ pc \in [Agents -> Labels] /\ DOMAIN req = Agents /\ DOMAIN next = Agents /\ w \in Agents
      /\ UNCHANGED live /\ UNCHANGED fsVars /\ pc[w] = "waiting" /\ req[w] \in Writes
    BY StoreAssumption DEF Update, StoreInv, Tables, Agents, UsableInv, WholeConfigs
<1>1. CASE Apply(req[w], live) # None /\ Compiles(Apply(req[w], live))
    <2>1. Apply(req[w], live) \in Configs
        BY <1>0, <1>1, ApplyTyped DEF UsableInv, WholeConfigs
    <2>2. /\ pc' = [pc EXCEPT ![w] = "create"] /\ UNCHANGED req
          /\ next' = [next EXCEPT ![w] = Apply(req[w], live)]
        BY <1>1 DEF Update
    <2>3. WholeConfigs'
        BY <1>0, <1>1, <2>1, <2>2 DEF UsableInv, WholeConfigs, Agents
    <2>4. WholeFiles'
        BY <1>0, <2>2 DEF UsableInv, WholeFiles, Loads, fsVars
    <2> QED BY <2>3, <2>4
<1>2. CASE ~(Apply(req[w], live) # None /\ Compiles(Apply(req[w], live)))
    <2>1. /\ pc' = [pc EXCEPT ![w] = "idle"] /\ req' = [req EXCEPT ![w] = None]
          /\ next' = [next EXCEPT ![w] = None]
        BY <1>2 DEF Update, Back
    <2>2. WholeConfigs'
        BY <1>0, <2>1 DEF UsableInv, WholeConfigs, Agents, Persisting
    <2>3. WholeFiles'
        BY <1>0, <2>1 DEF UsableInv, WholeFiles, Loads, fsVars
    <2> QED BY <2>2, <2>3
<1> QED BY <1>1, <1>2

\* Each step of persist writes the whole candidate, or leaves what was there.
LEMMA UsablePersists ==
    ASSUME NEW a \in Agents, StoreInv, UsableInv,
           WriteTemp(a) \/ SyncTemp(a) \/ Rename(a) \/ SyncDir(a) \/ PersistFails(a) \/ Swap(a)
    PROVE  WholeConfigs' /\ WholeFiles'
<1>0. /\ pc \in [Agents -> Labels] /\ DOMAIN req = Agents /\ DOMAIN next = Agents /\ DOMAIN tmp = Agents
      /\ pc[a] \in Persisting /\ next[a] \in Configs /\ Compiles(next[a])
    BY DEF StoreInv, Tables, UsableInv, WholeConfigs, WholeFiles, Persisting, WriteTemp, SyncTemp, Rename, SyncDir,
           PersistFails, Swap
<1>1. CASE WriteTemp(a) \/ SyncTemp(a)
    BY <1>0, <1>1 DEF UsableInv, WholeConfigs, WholeFiles, Loads, WriteTemp, SyncTemp, Agents
<1>2. CASE Rename(a)
    <2>1. tmp[a] = "synced"
        BY <1>2 DEF Rename, UsableInv, WholeFiles
    <2> QED BY <1>0, <1>2, <2>1 DEF UsableInv, WholeConfigs, WholeFiles, Loads, Rename, Agents
<1>3. CASE SyncDir(a)
    BY <1>0, <1>3 DEF UsableInv, WholeConfigs, WholeFiles, Loads, SyncDir, Agents
<1>4. CASE PersistFails(a) \/ Swap(a)
    <2>1. /\ pc' = [pc EXCEPT ![a] = "idle"] /\ req' = [req EXCEPT ![a] = None]
          /\ next' = [next EXCEPT ![a] = None] /\ UNCHANGED <<file, durable, dirty, bootstrap>>
          /\ live' \in {live, next[a]} /\ (tmp' = tmp \/ tmp' = [tmp EXCEPT ![a] = None])
        BY <1>4 DEF PersistFails, Swap, Back, fsVars
    <2>2. WholeConfigs'
        BY <1>0, <2>1 DEF UsableInv, WholeConfigs, Agents, Persisting
    <2>3. WholeFiles'
        BY <1>0, <2>1 DEF UsableInv, WholeFiles, Loads
    <2> QED BY <2>2, <2>3
<1> QED BY <1>1, <1>2, <1>3, <1>4

\* A crash, a power loss or an orderly exit leaves the file, or its last durable content.
LEMMA UsableEnds ==
    ASSUME UsableInv, Ends, {file', durable'} \subseteq {file, durable}, dirty' = FALSE
    PROVE  WholeConfigs' /\ WholeFiles'
<1>1. WholeConfigs'
    BY EmptyCompiles DEF Ends, WholeConfigs, Persisting, Agents
<1>2. WholeFiles'
    BY DEF Ends, UsableInv, WholeFiles, Loads
<1> QED BY <1>1, <1>2

\* Every step keeps every file loadable and every configuration usable.
LEMMA UsableStep == StoreInv /\ UsableInv /\ [Next]_vars => UsableInv'
<1> SUFFICES ASSUME StoreInv, UsableInv, [Next]_vars PROVE UsableInv'
    OBVIOUS
<1>1. CASE Open
    BY <1>1, UsableOpens DEF Open, UsableInv, Serves, connVars, Runs
<1>2. CASE Dies \/ Exit
    <2>1. Ends /\ {file', durable'} \subseteq {file, durable} /\ dirty' = FALSE
        BY <1>2 DEF Dies, Crash, PowerLoss, Exit, UsableInv, WholeFiles
    <2>2. Serves'
        BY <1>2 DEF Dies, Exit, ConnsReset, Serves
    <2> QED BY <2>1, <2>2, UsableEnds DEF UsableInv
<1>3. ASSUME NEW w \in Writers, UpdateStep(w) PROVE UsableInv'
    BY <1>3, UsableUpdates DEF UpdateStep, UsableInv, Serves, connVars, Runs
<1>4. ASSUME NEW w \in Writers, NEW r \in Requests, AdminRequest(w, r) PROVE UsableInv'
    BY <1>4, UsableRequests DEF AdminRequest, UsableInv, Serves, connVars, Runs
<1>5. ASSUME NEW a \in Agents, PersistStep(a) PROVE UsableInv'
    BY <1>5, UsablePersists DEF PersistStep, UsableInv, Serves, connVars, Runs
<1>6. ASSUME NEW c \in Conns,
             \/ Arrive(c) \/ CheckStopping(c) \/ ResolveRuntime(c) \/ Reserve(c) \/ Refuse(c)
             \/ Register(c) \/ Accept(c) \/ ServeEnds(c) \/ Release(c) \/ ConnDone(c)
      PROVE  UsableInv'
    <2>1. StoreRest
        BY <1>6 DEF StoreRest, storeVars, fsVars, Arrive, CheckStopping, ResolveRuntime, Reserve, Refuse,
                    Register, Accept, ServeEnds, Release, ConnDone
    <2>2. rt' = rt \/ rt' = [rt EXCEPT ![c] = None] \/ (Resolvable /\ rt' = [rt EXCEPT ![c] = Resolve])
        BY <1>6 DEF Arrive, CheckStopping, ResolveRuntime, Reserve, Refuse, Register, Accept, ServeEnds, Release,
                    ConnDone
    <2>3. Serves'
        BY <2>2, ResolvesRun DEF UsableInv, Serves, Runs
    <2> QED BY <2>1, <2>3, UsableKept DEF UsableInv
<1>7. CASE Signal \/ Expire \/ AdminShutdown \/ HttpShutdown \/ ServerShutdown \/ UNCHANGED vars
    <2>1. StoreRest /\ rt' = rt
        BY <1>7 DEF StoreRest, storeVars, fsVars, vars, connVars, Signal, Expire, AdminShutdown, HttpShutdown,
                    ServerShutdown, MainStep
    <2> QED BY <2>1, UsableKept DEF UsableInv, Serves, Runs
<1> QED BY <1>1, <1>2, <1>3, <1>4, <1>5, <1>6, <1>7 DEF Next

(* "copy, apply, validate, build, persist, swap" (admin/store.go, update) and *)
(* fsync before rename (persist): whatever the operators write, whichever     *)
(* step fails and wherever the process or the machine dies, the state file is *)
(* one the next start accepts, and every session that is admitted has, for    *)
(* every role, a provider that exists, fits the role and could be built.      *)
THEOREM GatewayAlwaysUsable == Spec => []AlwaysUsable
<1>1. Spec => []UsableInv
    BY UsableInitially, UsableStep, StoreInvariant, PTL DEF Spec
<1>2. UsableInv => AlwaysUsable
    BY StoreAssumption DEF UsableInv, WholeFiles, Loads, Serves, Runs, AlwaysUsable, FileLoads
<1> QED BY <1>1, <1>2, PTL

=============================================================================
