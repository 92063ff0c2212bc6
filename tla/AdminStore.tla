----------------------------- MODULE AdminStore -----------------------------
(***************************************************************************)
(* The runtime configuration the gateway keeps (internal/admin): the live  *)
(* snapshot, the state file it is persisted in, and the Admin API's writes *)
(* ("copy, apply, validate, build, persist, swap" under one mutex).        *)
(*                                                                         *)
(* Data.  A provider instance is a type and an API key; a profile is the   *)
(* three instances it names; the other fields of a profile are validated   *)
(* one by one and stored as they are, so a document with a bad one is the  *)
(* request "malformed".  Unusable are the keys whose instance cannot be    *)
(* built: they name an unset {env.X}, or come with options the provider's  *)
(* constructor refuses.                                                    *)
(*                                                                         *)
(* The file system.  file is what a reader of the path sees, durable what  *)
(* is left of it after a power loss: a rename is seen at once and durable  *)
(* once the directory is synced, and a file renamed before its content was *)
(* synced may come back torn.                                              *)
(***************************************************************************)
EXTENDS Naturals, FiniteSets

CONSTANTS
    ProviderNames, ProfileNames,
    Types, Keys,  \* the provider types and the API keys an operator may write
    Known,        \* provider.Known: the pairs <<kind, type>> that are registered
    Mask,         \* SecretMask
    Unusable,     \* the keys an instance cannot be built with
    Requests,     \* the writes the operators send
    Bootstraps,   \* the bootstrap blocks a configuration file may hold; Absent: none
    Writers,      \* concurrent Admin requests
    None,         \* no such entry
    Absent, Torn, \* the state file does not exist, does not decode
    Scenarios     \* bounds: how many writes, crashes and realtime requests happen

Kinds == {"asr", "llm", "tts"}

\* ProviderInstance, Profile and RuntimeConfig.
Instances == [type : Types, key : Keys]
Profiles == [Kinds -> ProviderNames]
Configs ==
    [providers : [ProviderNames -> Instances \cup {None}],
     profiles : [ProfileNames -> Profiles \cup {None}],
     default : ProfileNames \cup {None}]

\* The request bodies the Admin handlers decode.
Writes ==
    [op : {"put config"}, doc : Configs]
      \cup [op : {"put provider"}, name : ProviderNames, inst : Instances]
      \cup [op : {"delete provider"}, name : ProviderNames]
      \cup [op : {"put profile"}, name : ProfileNames, profile : Profiles]
      \cup [op : {"delete profile"}, name : ProfileNames]
      \cup [op : {"put settings"}, default : ProfileNames \cup {None}]
      \cup [op : {"malformed"}]

ASSUME StoreAssumption ==
    /\ Bootstraps \subseteq Configs \cup {Absent}
    /\ Requests \subseteq Writes
    /\ Torn \notin Configs /\ Absent \notin Configs

Opener == "open"          \* the goroutine of main that runs Open
Agents == Writers \cup {Opener}

VARIABLES
    proc,      \* the process: "down", "starting" (in Open) or "up"
    live,      \* Store.cur: the live configuration
    mu,        \* Store.mu: the agent that holds it, or None
    pc,        \* where each agent is in update / persist
    req,       \* the request an agent serves
    next,      \* the candidate configuration of an agent
    tmp,       \* an agent's temporary file: None, "written" or "synced"
    file, durable, dirty, \* the state file; dirty: renamed before its content was synced
    unsynced,  \* the last rename has not been followed by a sync of the directory
    bootstrap, \* the configuration file's bootstrap block
    left       \* what is left of the scenario's bounds

storeVars == <<bootstrap, proc, live, mu, pc, req, next, tmp, file, durable, dirty, unsynced, left>>
fsVars == <<tmp, file, durable, dirty, unsynced, bootstrap>>

NoProviders == [n \in ProviderNames |-> None]

\* emptyRuntimeConfig.
Empty == [providers |-> NoProviders, profiles |-> [n \in ProfileNames |-> None], default |-> None]

Present(f) == {n \in DOMAIN f : f[n] # None}

\* The provider instances profile p names, by role.
Refs(p) == {<<k, p[k]>> : k \in Kinds}

\* RuntimeConfig.Validate: every instance has a registered type, every
\* reference of a profile names an instance registered for that role, and the
\* default profile exists.
Validate(c) ==
    /\ \A n \in Present(c.providers) : \E k \in Kinds : <<k, c.providers[n].type>> \in Known
    /\ \A n \in Present(c.profiles) : \A r \in Refs(c.profiles[n]) :
          /\ r[2] \in Present(c.providers)
          /\ <<r[1], c.providers[r[2]].type>> \in Known
    /\ c.default # None => c.default \in Present(c.profiles)

\* Store.build: only the (role, instance) pairs a profile references are built.
Builds(c) ==
    \A n \in Present(c.profiles) : \A r \in Refs(c.profiles[n]) :
        c.providers[r[2]].key \notin Unusable

\* Store.compile.
Compiles(c) == Validate(c) /\ Builds(c)

(* ---- the writes of the Admin API: a configuration, or None when refused -- *)

\* unmask: "***" keeps the stored secret, and has nothing to keep for a new name.
Unmask(inst, n, cur) ==
    IF inst = None \/ inst.key # Mask THEN inst
    ELSE [inst EXCEPT !.key = cur.providers[n].key]

Unmaskable(inst, n, cur) ==
    (inst # None /\ inst.key = Mask) => cur.providers[n] # None

\* putConfig replaces the whole document.
PutConfig(r, cur) ==
    IF \A n \in ProviderNames : Unmaskable(r.doc.providers[n], n, cur)
      THEN [r.doc EXCEPT !.providers = [n \in ProviderNames |-> Unmask(@[n], n, cur)]]
      ELSE None

PutProvider(r, cur) ==
    IF Unmaskable(r.inst, r.name, cur)
      THEN [cur EXCEPT !.providers[r.name] = Unmask(r.inst, r.name, cur)]
      ELSE None

DeleteProvider(r, cur) ==
    IF /\ cur.providers[r.name] # None
       /\ \A n \in Present(cur.profiles) : \A k \in Kinds : cur.profiles[n][k] # r.name
      THEN [cur EXCEPT !.providers[r.name] = None]
      ELSE None

PutProfile(r, cur) == [cur EXCEPT !.profiles[r.name] = r.profile]

DeleteProfile(r, cur) ==
    IF cur.profiles[r.name] # None /\ cur.default # r.name
      THEN [cur EXCEPT !.profiles[r.name] = None]
      ELSE None

PutSettings(r, cur) == [cur EXCEPT !.default = r.default]

\* What the handlers hand to update: apply runs on a copy of the live snapshot.
Apply(r, cur) ==
    CASE r.op = "put config"      -> PutConfig(r, cur)
      [] r.op = "put provider"    -> PutProvider(r, cur)
      [] r.op = "delete provider" -> DeleteProvider(r, cur)
      [] r.op = "put profile"     -> PutProfile(r, cur)
      [] r.op = "delete profile"  -> DeleteProfile(r, cur)
      [] r.op = "put settings"    -> PutSettings(r, cur)
      [] r.op = "malformed"       -> None

Resolvable == live.default # None

\* Store.Resolve: the instances of the default profile, as the snapshot built them.
Resolve == [k \in Kinds |-> live.providers[live.profiles[live.default][k]]]

(* ---- steps ---------------------------------------------------------------- *)

StoreInit ==
    /\ bootstrap \in Bootstraps
    /\ proc = "down" /\ live = Empty /\ mu = None
    /\ pc = [a \in Agents |-> "idle"]
    /\ req = [a \in Agents |-> None] /\ next = [a \in Agents |-> None]
    /\ tmp = [a \in Agents |-> None] /\ file = Absent /\ durable = Absent /\ dirty = FALSE /\ unsynced = FALSE
    /\ left \in Scenarios

\* Open with a state file: it is decoded, validated and built, or the start fails.
OpenStateFile ==
    /\ proc = "down" /\ file \notin {Absent, Torn} /\ Compiles(file)
    /\ proc' = "up" /\ live' = file
    /\ UNCHANGED <<mu, pc, req, next, left>> /\ UNCHANGED fsVars

\* Open on the very first start: the bootstrap block is persisted before it is used.
OpenBootstrap ==
    /\ proc = "down" /\ file = Absent /\ bootstrap # Absent /\ Compiles(bootstrap)
    /\ proc' = "starting"
    /\ pc' = [pc EXCEPT ![Opener] = "create"]
    /\ next' = [next EXCEPT ![Opener] = bootstrap]
    /\ UNCHANGED <<live, mu, req, left>> /\ UNCHANGED fsVars

\* Open with neither: the gateway runs with an empty configuration.
OpenEmpty ==
    /\ proc = "down" /\ file = Absent /\ bootstrap = Absent
    /\ proc' = "up" /\ live' = Empty
    /\ UNCHANGED <<mu, pc, req, next, left>> /\ UNCHANGED fsVars

\* write: the body is read, update waits for the mutex.
Request(w, r) ==
    /\ proc = "up" /\ pc[w] = "idle" /\ left.writes > 0
    /\ left' = [left EXCEPT !.writes = @ - 1]
    /\ pc' = [pc EXCEPT ![w] = "waiting"]
    /\ req' = [req EXCEPT ![w] = r]
    /\ UNCHANGED <<proc, live, mu, next>> /\ UNCHANGED fsVars

Back(a) ==
    /\ pc' = [pc EXCEPT ![a] = "idle"]
    /\ req' = [req EXCEPT ![a] = None]
    /\ next' = [next EXCEPT ![a] = None]

\* The mutation that does not hold the mutex while it persists.
UpdateUnlocked(w) ==
    /\ pc[w] = "waiting"
    /\ LET c == Apply(req[w], live) IN
       IF c # None /\ Compiles(c)
         THEN /\ pc' = [pc EXCEPT ![w] = "create"]
              /\ next' = [next EXCEPT ![w] = c]
              /\ UNCHANGED req
         ELSE Back(w)
    /\ UNCHANGED <<proc, live, mu, left>> /\ UNCHANGED fsVars

\* update, with the mutex: clone, apply, compile.  A refusal ends the request.
Update(w) ==
    /\ pc[w] = "waiting" /\ mu = None
    /\ LET c == Apply(req[w], live) IN
       IF c # None /\ Compiles(c)
         THEN /\ mu' = w
              /\ pc' = [pc EXCEPT ![w] = "create"]
              /\ next' = [next EXCEPT ![w] = c]
              /\ UNCHANGED req
         ELSE Back(w) /\ UNCHANGED mu
    /\ UNCHANGED <<proc, live, left>> /\ UNCHANGED fsVars

\* persist: CreateTemp, Chmod, Write.
WriteTemp(a) ==
    /\ pc[a] = "create"
    /\ pc' = [pc EXCEPT ![a] = "written"] /\ tmp' = [tmp EXCEPT ![a] = "written"]
    /\ UNCHANGED <<proc, live, mu, req, next, file, durable, dirty, unsynced, left, bootstrap>>

\* The mutation that does not fsync the temporary file.
SkipSyncTemp(a) ==
    /\ pc[a] = "written"
    /\ pc' = [pc EXCEPT ![a] = "synced"]
    /\ UNCHANGED <<proc, live, mu, req, next, tmp, file, durable, dirty, unsynced, left, bootstrap>>

\* persist: Sync, Close.
SyncTemp(a) ==
    /\ pc[a] = "written"
    /\ pc' = [pc EXCEPT ![a] = "synced"] /\ tmp' = [tmp EXCEPT ![a] = "synced"]
    /\ UNCHANGED <<proc, live, mu, req, next, file, durable, dirty, unsynced, left, bootstrap>>

\* persist: Rename over the state file.
Rename(a) ==
    /\ pc[a] = "synced"
    /\ pc' = [pc EXCEPT ![a] = "renamed"]
    /\ file' = next[a] /\ dirty' = (tmp[a] # "synced") /\ tmp' = [tmp EXCEPT ![a] = None] /\ unsynced' = TRUE
    /\ UNCHANGED <<proc, live, mu, req, next, durable, left, bootstrap>>

\* persist: the directory is synced, best effort.
SyncDir(a) ==
    /\ pc[a] = "renamed"
    /\ pc' = [pc EXCEPT ![a] = "persisted"]
    /\ \/ durable' = file /\ unsynced' = FALSE
       \/ UNCHANGED <<durable, unsynced>>
    /\ UNCHANGED <<proc, live, mu, req, next, tmp, file, dirty, left, bootstrap>>

\* persist fails before or in the rename: the temporary file is removed, the
\* request is answered with an error and nothing has changed; a failed
\* bootstrap is a failed start.
PersistFails(a) ==
    /\ pc[a] \in {"create", "written", "synced"}
    /\ Back(a) /\ tmp' = [tmp EXCEPT ![a] = None] /\ mu' = None
    /\ proc' = IF a = Opener THEN "down" ELSE proc
    /\ UNCHANGED <<live, file, durable, dirty, unsynced, left, bootstrap>>

\* The mutation that swaps the snapshot in before it is persisted.
SwapEarly(a) ==
    /\ pc[a] \in {"create", "persisted"}
    /\ live' = next[a] /\ mu' = None /\ Back(a)
    /\ proc' = "up"
    /\ UNCHANGED left /\ UNCHANGED fsVars

\* update: the snapshot is swapped in, the mutex released, the write acknowledged.
Swap(a) ==
    /\ pc[a] = "persisted"
    /\ live' = next[a] /\ mu' = None /\ Back(a)
    /\ proc' = "up"
    /\ UNCHANGED left /\ UNCHANGED fsVars

\* What the end of the process leaves behind: its files.
Ends ==
    /\ proc' = "down" /\ live' = Empty /\ mu' = None
    /\ tmp' = [a \in Agents |-> None]
    /\ pc' = [a \in Agents |-> "idle"]
    /\ req' = [a \in Agents |-> None] /\ next' = [a \in Agents |-> None]
    /\ UNCHANGED bootstrap

\* The process is killed.
Crash ==
    /\ proc # "down" /\ left.crashes > 0
    /\ Ends /\ left' = [left EXCEPT !.crashes = @ - 1]
    /\ UNCHANGED <<file, durable, dirty, unsynced>>

\* The machine loses power: a rename that was not synced may be lost, content
\* that was not synced is.
PowerLoss ==
    /\ proc # "down" /\ left.crashes > 0
    /\ Ends /\ left' = [left EXCEPT !.crashes = @ - 1]
    /\ file' \in {durable, IF dirty THEN Torn ELSE file}
    /\ durable' = file' /\ dirty' = FALSE /\ unsynced' = FALSE

(* ---- properties ------------------------------------------------------------ *)

\* The agents whose candidate is on its way from the rename to the swap.
Committing == {a \in Agents : pc[a] \in {"renamed", "persisted"}}

\* The state file, and what a power loss leaves of it, is one that Open accepts.
FileLoads ==
    /\ file # Absent => file # Torn /\ Compiles(file)
    /\ durable # Absent => durable # Torn /\ Compiles(durable)

(* The configuration that is served is the one the next start reads: the     *)
(* file differs from the live snapshot only while one write is between its    *)
(* rename and its swap, and a power loss leaves that same file unless the     *)
(* best-effort sync of the directory did not happen after the last rename.    *)
AcknowledgedIsSafe ==
    /\ proc = "up" =>
          \/ file = live
          \/ file = Absent /\ live = Empty
          \/ \E a \in Committing : file = next[a]
    /\ ~unsynced => durable = file

(* No Admin write undoes another: the candidate a writer is persisting is     *)
(* what its request makes of the configuration that is live now, not of one   *)
(* that another operator has replaced meanwhile.  A masked secret therefore   *)
(* keeps the newest one, and a dangling reference cannot slip in between two  *)
(* writes that are valid each by itself.                                      *)
NoLostUpdate ==
    \A w \in Writers : pc[w] \in {"create", "written", "synced", "renamed", "persisted"} =>
        next[w] = Apply(req[w], live) /\ Compiles(next[w])

(* Seen from outside: whenever the running gateway's configuration changes,   *)
(* it becomes what one request makes of the one that was live until then.     *)
WritesAreAtomic ==
    [][proc = "up" /\ proc' = "up" /\ live' # live =>
         \E w \in Writers : live' = Apply(req[w], live)]_storeVars

=============================================================================
