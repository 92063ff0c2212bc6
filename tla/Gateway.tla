------------------------------ MODULE Gateway ------------------------------
(***************************************************************************)
(* The process: the Admin store, the admission of realtime connections     *)
(* (server.handleRealtime) and main's way down.  A connection that has     *)
(* been upgraded is one state here, "serving": what happens in it is       *)
(* modules Connection and Session, and that it ends once the server's      *)
(* context is cancelled is Connection!EverythingEnds.                      *)
(*                                                                         *)
(* External: http.Server.Shutdown stops accepting and waits for every      *)
(* handler whose connection has not been hijacked; the upgrade hijacks it. *)
(***************************************************************************)
EXTENDS AdminStore

CONSTANTS
    Conns,         \* concurrent realtime requests
    MaxSessions    \* limits.max_sessions

ASSUME GatewayAssumption ==
    /\ MaxSessions \in Nat \ {0}
    /\ IsFiniteSet(Conns) /\ None \notin Writers \cup {Opener} /\ Opener \notin Writers

VARIABLES
    cpc,       \* where each realtime request is in handleRealtime
    rt,        \* the runtime configuration it resolved, or None
    active,    \* Server.active
    conns,     \* Server.conns, the WaitGroup's counter
    hijacked,  \* the requests whose connection was upgraded
    stopping,  \* Server.ctx is cancelled
    main,      \* main: "run", then the three shutdowns, then "exit"
    expired    \* shutdownCtx has expired

connVars == <<cpc, rt, active, conns, hijacked, stopping, main, expired>>
vars == <<storeVars, connVars>>

Init ==
    /\ StoreInit
    /\ cpc = [c \in Conns |-> "idle"] /\ rt = [c \in Conns |-> None]
    /\ active = 0 /\ conns = 0 /\ hijacked = {}
    /\ stopping = FALSE /\ main = "run" /\ expired = FALSE

\* The end of the process takes its connections with it.
ConnsReset ==
    /\ cpc' = [c \in Conns |-> "idle"] /\ rt' = [c \in Conns |-> None]
    /\ active' = 0 /\ conns' = 0 /\ hijacked' = {}
    /\ stopping' = FALSE /\ main' = "run" /\ expired' = FALSE

Goto(c, l) == cpc' = [cpc EXCEPT ![c] = l]

(* ---- handleRealtime -------------------------------------------------------- *)

\* A request with the right method and key reaches the handler.
Arrive(c) ==
    /\ proc = "up" /\ main \in {"run", "admin"} /\ cpc[c] = "idle" /\ left.arrivals > 0
    /\ left' = [left EXCEPT !.arrivals = @ - 1]
    /\ Goto(c, "new")
    /\ UNCHANGED <<rt, active, conns, hijacked, stopping, main, expired>>
    /\ UNCHANGED <<proc, live, mu, pc, req, next>> /\ UNCHANGED fsVars

\* s.ctx.Err(): a gateway that is shutting down answers 503.
CheckStopping(c) ==
    /\ cpc[c] = "new"
    /\ Goto(c, IF stopping THEN "idle" ELSE "checked")
    /\ UNCHANGED <<rt, active, conns, hijacked, stopping, main, expired>>
    /\ UNCHANGED storeVars

\* The configuration is resolved once, without the store's mutex.
ResolveRuntime(c) ==
    /\ cpc[c] = "checked"
    /\ IF Resolvable
         THEN Goto(c, "resolved") /\ rt' = [rt EXCEPT ![c] = Resolve]
         ELSE Goto(c, "idle") /\ UNCHANGED rt
    /\ UNCHANGED <<active, conns, hijacked, stopping, main, expired>>
    /\ UNCHANGED storeVars

\* The mutation that lets one more in.
ReserveOneMore(c) ==
    /\ cpc[c] = "resolved"
    /\ active' = active + 1
    /\ Goto(c, IF active > MaxSessions THEN "over" ELSE "reserved")
    /\ UNCHANGED <<rt, conns, hijacked, stopping, main, expired>>
    /\ UNCHANGED storeVars

\* active.Add(1): the slot is reserved before the upgrade, or found taken.
Reserve(c) ==
    /\ cpc[c] = "resolved"
    /\ active' = active + 1
    /\ Goto(c, IF active + 1 > MaxSessions THEN "over" ELSE "reserved")
    /\ UNCHANGED <<rt, conns, hijacked, stopping, main, expired>>
    /\ UNCHANGED storeVars

\* The request over the limit gives its slot back and answers 503.
Refuse(c) ==
    /\ cpc[c] = "over"
    /\ active' = active - 1
    /\ Goto(c, "idle") /\ rt' = [rt EXCEPT ![c] = None]
    /\ UNCHANGED <<conns, hijacked, stopping, main, expired>>
    /\ UNCHANGED storeVars

\* conns.Add(1): Shutdown waits for this connection from here on.
Register(c) ==
    /\ cpc[c] = "reserved"
    /\ conns' = conns + 1 /\ Goto(c, "registered")
    /\ UNCHANGED <<rt, active, hijacked, stopping, main, expired>>
    /\ UNCHANGED storeVars

\* websocket.Accept, and serve.
Accept(c) ==
    /\ cpc[c] = "registered"
    /\ hijacked' = hijacked \cup {c} /\ Goto(c, "serving")
    /\ UNCHANGED <<rt, active, conns, stopping, main, expired>>
    /\ UNCHANGED storeVars

\* websocket.Accept fails, or the connection ends.
ServeEnds(c) ==
    /\ cpc[c] \in {"registered", "serving"}
    /\ Goto(c, "ended")
    /\ UNCHANGED <<rt, active, conns, hijacked, stopping, main, expired>>
    /\ UNCHANGED storeVars

\* The deferred active.Add(-1).
Release(c) ==
    /\ cpc[c] = "ended"
    /\ active' = active - 1 /\ Goto(c, "released")
    /\ UNCHANGED <<rt, conns, hijacked, stopping, main, expired>>
    /\ UNCHANGED storeVars

\* The deferred conns.Done.
ConnDone(c) ==
    /\ cpc[c] = "released"
    /\ conns' = conns - 1 /\ Goto(c, "idle")
    /\ rt' = [rt EXCEPT ![c] = None] /\ hijacked' = hijacked \ {c}
    /\ UNCHANGED <<active, stopping, main, expired>> /\ UNCHANGED storeVars

(* ---- main ------------------------------------------------------------------ *)

MainStep(from, to) ==
    /\ proc = "up" /\ main = from /\ main' = to
    /\ UNCHANGED <<cpc, rt, active, conns, hijacked>> /\ UNCHANGED storeVars

\* SIGINT or SIGTERM: the Admin listener is shut down first.
Signal == MainStep("run", "admin") /\ UNCHANGED <<stopping, expired>>

Expire ==
    /\ proc = "up" /\ main \notin {"run", "exit"} /\ ~expired
    /\ expired' = TRUE
    /\ UNCHANGED <<cpc, rt, active, conns, hijacked, stopping, main>>
    /\ UNCHANGED storeVars

\* adminSrv.Shutdown returns; httpSrv.Shutdown stops accepting.
AdminShutdown ==
    /\ (\A w \in Writers : pc[w] = "idle") \/ expired
    /\ MainStep("admin", "http") /\ UNCHANGED <<stopping, expired>>

\* The mutation that ends the sessions without waiting for the HTTP server.
HttpShutdownUnawaited ==
    MainStep("http", "srv") /\ stopping' = TRUE /\ UNCHANGED expired

\* httpSrv.Shutdown returns; Server.Shutdown cancels every session.
HttpShutdown ==
    /\ (\A c \in Conns \ hijacked : cpc[c] = "idle") \/ expired
    /\ MainStep("http", "srv") /\ stopping' = TRUE /\ UNCHANGED expired

\* Server.Shutdown: conns.Wait, or the context expires.
ServerShutdown ==
    /\ conns = 0 \/ expired
    /\ MainStep("srv", "exit") /\ UNCHANGED <<stopping, expired>>

\* run returns, and the process ends.
Exit ==
    /\ proc = "up" /\ main = "exit" /\ Ends /\ ConnsReset
    /\ UNCHANGED <<file, durable, dirty, unsynced, left>>

(* ---- the store's steps in this process ------------------------------------- *)

\* An Admin request arrives while the Admin listener is open.
AdminRequest(w, r) == main = "run" /\ Request(w, r) /\ UNCHANGED connVars
UpdateStep(w) == Update(w) /\ UNCHANGED connVars
Open == (OpenStateFile \/ OpenBootstrap \/ OpenEmpty) /\ UNCHANGED connVars
PersistStep(a) ==
    /\ WriteTemp(a) \/ SyncTemp(a) \/ Rename(a) \/ SyncDir(a) \/ PersistFails(a) \/ Swap(a)
    /\ UNCHANGED connVars
Dies == (Crash \/ PowerLoss) /\ ConnsReset

Next ==
    \/ Open \/ Dies
    \/ \E w \in Writers : UpdateStep(w) \/ \E r \in Requests : AdminRequest(w, r)
    \/ \E a \in Agents : PersistStep(a)
    \/ \E c \in Conns :
          \/ Arrive(c) \/ CheckStopping(c) \/ ResolveRuntime(c) \/ Reserve(c) \/ Refuse(c)
          \/ Register(c) \/ Accept(c) \/ ServeEnds(c) \/ Release(c) \/ ConnDone(c)
    \/ Signal \/ Expire \/ AdminShutdown \/ HttpShutdown \/ ServerShutdown \/ Exit

Spec == Init /\ [][Next]_vars

(* ---- properties ------------------------------------------------------------ *)

InHandler == {"new", "checked", "resolved", "over", "reserved", "registered", "serving", "ended", "released"}
Holding == {"over", "reserved", "registered", "serving", "ended"}

(* "Reserve a slot before upgrading so the limit is never exceeded": no       *)
(* interleaving of arrivals, refusals and departures serves more connections  *)
(* than max_sessions, and the counter is exactly the slots that are held, so  *)
(* none leaks.                                                                *)
SlotsExact ==
    /\ Cardinality({c \in Conns : cpc[c] \in {"reserved", "registered", "serving"}}) <= MaxSessions
    /\ active = Cardinality({c \in Conns : cpc[c] \in Holding})

(* A shutdown that did not run out of time leaves nobody behind: when main    *)
(* goes on to flush and exit, no handler is still on its way to a session     *)
(* and no session is cut off.                                                 *)
ShutdownLeavesNobody ==
    main = "exit" /\ ~expired => \A c \in Conns : cpc[c] = "idle"

(* Every configuration the gateway may come to run on works as a whole.  The  *)
(* state file is never one the next start refuses, whatever write failed and  *)
(* wherever the process or the machine died; and a session, whatever is       *)
(* written while it is being admitted, has for every role a provider that     *)
(* exists, is registered for the role and could be built.                     *)
AlwaysUsable ==
    /\ FileLoads
    /\ \A c \in Conns : rt[c] # None =>
          \A k \in Kinds : rt[c][k] # None /\ <<k, rt[c][k].type>> \in Known /\ rt[c][k].key \notin Unusable

=============================================================================
