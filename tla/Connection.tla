----------------------------- MODULE Connection -----------------------------
(***************************************************************************)
(* One WebSocket connection: serve of internal/server with the adapter and *)
(* the session it drives.                                                  *)
(*                                                                         *)
(* Four goroutines share the connection: the reader (the HTTP handler's    *)
(* own goroutine), the event pump, the single writer and the session       *)
(* actor.  They are joined by the queues cmds, events and out, by the      *)
(* session context and by the channels done, pumpDone and writerDone,      *)
(* each of which is read off the state of the goroutine that closes it.    *)
(*                                                                         *)
(* The actor is the one of module Session, reduced to what the connection  *)
(* can tell: which items and which response exist, and the events of each  *)
(* handler in order.  emit may drop an event once the context is           *)
(* cancelled, exactly as there.                                            *)
(***************************************************************************)
EXTENDS Adapter, FiniteSetsExt

CONSTANTS
  ClientNames,   \* ids a client makes up for its items
  Scenarios,     \* what happens: kinds of client event, the actor's own steps, closes
  OutputQueue,   \* output_event_queue: capacity of cmds, events and out
  MaxEvents,     \* bound: events the client sends
  MaxRefs,       \* bound: items of the conversation
  MaxResps       \* bound: responses

EventKinds == {"invalid", "session.update", "item.create", "item.create.output", "item.delete",
               "item.truncate", "response.create", "response.cancel"}
OwnSteps == {"turn", "message", "call", "complete"}
Closes == {"fatal", "session_timeout", "context_cancelled", "input_overflow", "leave", "stall"}

ASSUME ConnectionAssumption ==
  /\ Scenarios \subseteq [events : SUBSET EventKinds, own : SUBSET OwnSteps, closes : SUBSET Closes]
  /\ OutputQueue \in Nat \ {0}
  /\ MaxEvents \in Nat /\ MaxRefs \in Nat /\ MaxResps \in Nat

VARIABLES
  scene,    \* the scenario of this behaviour
  client,   \* events sent so far, and does it still read and write?
  socket,   \* "open" or "closed"
  ad,       \* the adapter
  cause,    \* why the session context was cancelled; "" while it is alive
  actor,    \* the session actor
  cmds, events, out,  \* the queues
  reader, pump, writer,
  wire,     \* what the client has received: the pump's frames, ids, the close code
  crashed   \* the process died of a panic

vars == <<scene, client, socket, ad, cause, actor, cmds, events, out, reader, pump, writer, wire, crashed>>

NoActive == [ref |-> 0, item |-> 0, toolItem |-> 0]
\* outMsg: a frame (the pump's are counted from 1) with the ids it tells, or the close.
DataMsg(k, ids) == [close |-> "", k |-> k, ids |-> ids]
CloseMsg(code) == [close |-> code, k |-> 0, ids |-> {}]

Init ==
  /\ scene \in Scenarios
  /\ client = [sent |-> 0, up |-> TRUE]
  /\ socket = "open"
  /\ ad = NewAdapter
  /\ cause = ""
  /\ actor = [pc |-> "run", todo |-> <<>>, live |-> {}, born |-> 0, cid |-> <<>>, calls |-> {},
              answered |-> {}, active |-> NoActive, resps |-> 0]
  /\ cmds = <<>> /\ events = <<>> /\ out = <<>>
  /\ reader = [pc |-> "read", cmd |-> Rejected]
  /\ pump = [pc |-> "hello", left |-> <<>>, code |-> "normal", built |-> 0]
  /\ writer = [pc |-> "recv", msg |-> CloseMsg("normal")]
  /\ wire = [got |-> <<>>, ids |-> {}, close |-> ""]
  /\ crashed = FALSE

Running == ~crashed
WriterDone == writer.pc = "done"
OutClosed == pump.pc = "done"
SessionDone == actor.pc = "closed"

\* sess.Close and every other cancel of the session context: the first cause stays.
Cancelled(reason) == IF cause = "" THEN reason ELSE cause
-----------------------------------------------------------------------------
(***************************************************************************)
(* Reader                                                                  *)
(***************************************************************************)
\* A client names ids it was told on the wire, or made up.
IdsFor(kind) ==
  CASE kind = "item.create" -> {ClientId(c) : c \in ClientNames} \cup {None}
    [] kind \in {"item.delete", "item.truncate"} ->
         {id \in wire.ids : id[1] \in {"item", "client"}} \cup {ClientId(c) : c \in ClientNames}
    [] kind = "item.create.output" -> {id \in wire.ids : id[1] = "call"}
    [] kind = "response.cancel" -> {id \in wire.ids : id[1] = "resp"} \cup {None}
    [] OTHER -> {None}

\* conn.Read returns a frame; Inbound decodes it and looks its ids up, and a rejected
\* one (a binary frame too) is answered with an error frame.
Read ==
  /\ Running
  /\ reader.pc = "read" /\ socket = "open" /\ ~WriterDone
  /\ client.up /\ client.sent < MaxEvents
  /\ client' = [client EXCEPT !.sent = @ + 1]
  /\ \E kind \in scene.events : \E id \in IdsFor(kind) :
       LET cmd == Dispatch(ad, [type |-> kind, id |-> id])
       IN  reader' = [pc |-> IF cmd = Rejected THEN "send" ELSE "post", cmd |-> cmd]
  /\ UNCHANGED <<scene, socket, ad, cause, actor, cmds, events, out, pump, writer, wire, crashed>>

\* Post: gives up when the context is cancelled, else waits for room.
Post ==
  /\ Running
  /\ reader.pc = "post"
  /\ \/ cause # "" /\ UNCHANGED cmds
     \/ cause = "" /\ Len(cmds) < OutputQueue /\ cmds' = Append(cmds, reader.cmd)
  /\ reader' = [pc |-> "read", cmd |-> Rejected]
  /\ UNCHANGED <<scene, client, socket, ad, cause, actor, events, out, pump, writer, wire, crashed>>

\* PostAudio finds the audio queue full.
PostAudioOverflow ==
  /\ Running
  /\ "input_overflow" \in scene.closes
  /\ reader.pc = "read" /\ client.up /\ socket = "open" /\ cause = ""
  /\ cause' = "input_overflow"
  /\ UNCHANGED <<scene, client, socket, ad, actor, cmds, events, out, reader, pump, writer, wire, crashed>>

\* send: into the queue, or nowhere once the writer is gone.  (Mutants: it does not
\* watch writerDone; a frame that finds the queue full is dropped.)
SendWithoutDone(m) == Len(out) < OutputQueue /\ out' = Append(out, m)
SendOrDrop(m) == out' = IF Len(out) < OutputQueue THEN Append(out, m) ELSE out
Send(m) ==
  \/ Len(out) < OutputQueue /\ out' = Append(out, m)
  \/ WriterDone /\ UNCHANGED out

ReaderSend ==
  /\ Running
  /\ reader.pc = "send" /\ ~OutClosed
  /\ Send(DataMsg(0, {}))
  /\ reader' = [reader EXCEPT !.pc = "read"]
  /\ UNCHANGED <<scene, client, socket, ad, cause, actor, cmds, events, pump, writer, wire, crashed>>

\* The pump has closed the queue.  A select with a send on a closed channel panics,
\* unless it picks writerDone.  The panic unwinds the handler's goroutine, whose
\* deferred calls cancel the session and close the socket; net/http recovers it.
ReaderSendClosed ==
  /\ Running
  /\ reader.pc = "send" /\ OutClosed
  /\ \/ /\ WriterDone
        /\ reader' = [reader EXCEPT !.pc = "read"]
        /\ UNCHANGED <<cause, socket>>
     \/ /\ reader' = [reader EXCEPT !.pc = "panicked"]
        /\ cause' = Cancelled("context_cancelled")
        /\ socket' = "closed"
  /\ UNCHANGED <<scene, client, ad, actor, cmds, events, out, pump, writer, wire, crashed>>

\* conn.Read fails: the client is gone, the socket closed, or the writer cancelled the
\* read context.
ReadError ==
  /\ Running
  /\ reader.pc = "read"
  /\ ~client.up \/ socket = "closed" \/ WriterDone
  /\ reader' = [reader EXCEPT !.pc = "wait"]
  /\ cause' = Cancelled("client")
  /\ UNCHANGED <<scene, client, socket, ad, actor, cmds, events, out, pump, writer, wire, crashed>>

\* serve returns: CloseNow, and the deferred cancels.
Return ==
  /\ Running
  /\ reader.pc = "wait"
  /\ SessionDone /\ OutClosed /\ WriterDone
  /\ reader' = [reader EXCEPT !.pc = "returned"]
  /\ socket' = "closed"
  /\ UNCHANGED <<scene, client, ad, cause, actor, cmds, events, out, pump, writer, wire, crashed>>
-----------------------------------------------------------------------------
(***************************************************************************)
(* Session actor (module Session has its handlers in full)                 *)
(***************************************************************************)
Last == IF actor.live = {} THEN 0 ELSE Max(actor.live)
Idle == actor.pc = "run" /\ actor.todo = <<>> /\ cause = ""
Fits(n) == actor.born + n <= MaxRefs

\* A new item at the end of the conversation, and the events of the handler.
Adds(cid, evs(_)) ==
  LET ref == actor.born + 1
  IN  [actor EXCEPT !.born = ref, !.live = @ \cup {ref}, !.cid = Put(@, ref, cid), !.todo = evs(ref)]
ItemEv(type, ref, cid, call) == Ev(type, actor.active.ref, ref, Last, cid, call)

FinishEvents ==
  LET a == actor.active
      call == IF a.toolItem \in actor.live THEN a.toolItem ELSE 0
  IN  IF a.ref = 0 THEN <<>>
      ELSE (IF a.item = 0 THEN <<>> ELSE <<Ev("EvOutputItemDone", a.ref, a.item, 0, None, 0)>>)
             \o <<Ev("EvResponseDone", a.ref, a.item, 0, None, call)>>
Finished(a) == [a EXCEPT !.active = NoActive, !.todo = FinishEvents]

Handled(c) ==
  CASE c.kind = "update" -> [actor EXCEPT !.todo = <<Plain("EvSessionUpdated")>>]
    [] c.kind = "create" ->
         LET E(ref) == <<ItemEv("EvItemAdded", ref, c.cid, 0), ItemEv("EvItemDone", ref, c.cid, 0)>>
         IN  Adds(c.cid, E)
    [] c.kind = "output" /\ c.ref \in actor.live /\ c.ref \notin actor.answered ->
         LET E(ref) == <<ItemEv("EvItemAdded", ref, None, c.ref), ItemEv("EvItemDone", ref, None, c.ref)>>
         IN  [Adds(None, E) EXCEPT !.answered = @ \cup {c.ref}]
    [] c.kind = "delete" /\ c.ref \in actor.live /\ c.ref # actor.active.item ->
         [actor EXCEPT !.live = @ \ {c.ref}, !.todo = <<Ev("EvItemDeleted", 0, c.ref, 0, None, 0)>>]
    [] c.kind = "truncate" /\ c.ref \in actor.live ->
         [actor EXCEPT !.todo = <<Ev("EvItemTruncated", 0, c.ref, 0, None, 0)>>]
    [] c.kind = "respond" /\ actor.active.ref = 0 /\ actor.resps < MaxResps ->
         [actor EXCEPT !.resps = @ + 1, !.active = [NoActive EXCEPT !.ref = actor.resps + 1],
                       !.todo = <<Ev("EvResponseCreated", actor.resps + 1, 0, 0, None, 0)>>]
    [] c.kind = "cancel" /\ actor.active.ref # 0 /\ c.ref \in {0, actor.active.ref} -> Finished(actor)
    [] OTHER -> [actor EXCEPT !.todo = <<Plain("EvError")>>]

ActorStep(a) ==
  /\ actor' = a
  /\ UNCHANGED <<scene, client, socket, ad, cause, events, out, reader, pump, writer, wire, crashed>>

HandleCommand ==
  /\ Running
  /\ Idle /\ cmds # <<>>
  /\ Head(cmds).kind \in {"create", "output"} => Fits(1)
  /\ ActorStep(Handled(Head(cmds)))
  /\ cmds' = Tail(cmds)

\* What the actor does of its own: a turn is committed, the response's message item or
\* function_call appears, the response completes.
HandleOther ==
  /\ Running
  /\ Idle
  /\ \/ /\ "turn" \in scene.own /\ Fits(1)
        /\ LET E(ref) == <<ItemEv("EvAudioBufferCommitted", ref, None, 0), ItemEv("EvItemAdded", ref, None, 0)>>
           IN  ActorStep(Adds(None, E))
     \/ /\ "message" \in scene.own /\ Fits(1) /\ actor.active.ref # 0 /\ actor.active.item = 0
        /\ LET E(ref) == <<ItemEv("EvOutputItemAdded", ref, None, 0)>>
           IN  ActorStep([Adds(None, E) EXCEPT !.active.item = actor.born + 1])
     \/ /\ "call" \in scene.own /\ Fits(1) /\ actor.active.ref # 0 /\ actor.active.toolItem = 0
        /\ LET E(ref) == <<ItemEv("EvOutputItemAdded", ref, None, ref),
                           Ev("EvToolCallArguments", actor.active.ref, ref, 0, None, 0),
                           ItemEv("EvOutputItemDone", ref, None, ref)>>
           IN  ActorStep([Adds(None, E) EXCEPT !.active.toolItem = actor.born + 1])
     \/ "complete" \in scene.own /\ actor.active.ref # 0 /\ ActorStep(Finished(actor))
  /\ UNCHANGED cmds

\* fatal: the error event, then the cancel.
Fatal ==
  /\ Running
  /\ Idle /\ "fatal" \in scene.closes
  /\ ActorStep([actor EXCEPT !.todo = <<Plain("EvFatal")>>])
  /\ UNCHANGED cmds

\* emit: into the queue, or nowhere once the context is cancelled; when both are ready
\* select picks either.  (Mutant: an event that finds the queue full is dropped.)
EmitOrDrop(e) == events' = IF Len(events) < OutputQueue THEN Append(events, e) ELSE events
EmitEvent(e) ==
  \/ Len(events) < OutputQueue /\ events' = Append(events, e)
  \/ cause # "" /\ UNCHANGED events

Emit ==
  /\ Running
  /\ actor.todo # <<>>
  /\ EmitEvent(Head(actor.todo))
  /\ actor' = [actor EXCEPT !.todo = Tail(@)]
  /\ cause' = IF Head(actor.todo).type = "EvFatal" THEN Cancelled("provider_error") ELSE cause
  /\ UNCHANGED <<scene, client, socket, ad, cmds, out, reader, pump, writer, wire, crashed>>

\* cleanup: the active response is cancelled, ...
Cleanup ==
  /\ Running
  /\ actor.pc = "run" /\ actor.todo = <<>> /\ cause # ""
  /\ actor' = [Finished(actor) EXCEPT !.pc = "cleanup"]
  /\ UNCHANGED <<scene, client, socket, ad, cause, cmds, events, out, reader, pump, writer, wire, crashed>>

\* ... EvSessionClosed waits for room at most client_write_timeout, and the streams close.
CloseEvents ==
  /\ Running
  /\ actor.pc = "cleanup" /\ actor.todo = <<>>
  /\ events' = IF Len(events) < OutputQueue THEN Append(events, Plain("EvSessionClosed")) ELSE events
  /\ actor' = [actor EXCEPT !.pc = "closed"]
  /\ UNCHANGED <<scene, client, socket, ad, cause, cmds, out, reader, pump, writer, wire, crashed>>

\* session_timeout, or the server's Shutdown.
CancelSession ==
  /\ Running
  /\ cause = ""
  /\ cause' \in {"session_timeout", "context_cancelled"} \cap scene.closes
  /\ UNCHANGED <<scene, client, socket, ad, actor, cmds, events, out, reader, pump, writer, wire, crashed>>
-----------------------------------------------------------------------------
(***************************************************************************)
(* Event pump                                                              *)
(***************************************************************************)
Hello ==
  /\ Running
  /\ pump.pc = "hello"
  /\ pump' = [pump EXCEPT !.pc = "take", !.left = Frames(ad, 2, {}).frames, !.built = 2]
  /\ UNCHANGED <<scene, client, socket, ad, cause, actor, cmds, events, out, reader, writer, wire, crashed>>

\* The close code an event calls for.
CloseCode(e, code) ==
  CASE e.type = "EvFatal" -> "internal_error"
    [] e.type = "EvSessionClosed" /\ cause = "context_cancelled" -> "going_away"
    [] e.type = "EvSessionClosed" /\ cause = "session_timeout" -> "normal"
    [] e.type = "EvSessionClosed" /\ cause \in {"input_overflow", "provider_error"} -> "internal_error"
    [] OTHER -> code

PumpEvent ==
  /\ Running
  /\ pump.pc = "take" /\ pump.left = <<>> /\ events # <<>>
  /\ events' = Tail(events)
  /\ LET e == Head(events)
     IN  IF Panics(ad, e) THEN crashed' = TRUE /\ UNCHANGED <<pump, ad>>
         ELSE LET f == Outbound(ad, e)
              IN  /\ ad' = f.ad
                  /\ pump' = [pump EXCEPT !.left = f.frames, !.built = @ + Len(f.frames),
                                          !.code = CloseCode(e, @)]
                  /\ UNCHANGED crashed
  /\ UNCHANGED <<scene, client, socket, cause, actor, cmds, out, reader, writer, wire>>

PumpSend ==
  /\ Running
  /\ pump.pc = "take" /\ pump.left # <<>>
  /\ Send(DataMsg(pump.built - Len(pump.left) + 1, Head(pump.left)))
  /\ pump' = [pump EXCEPT !.left = Tail(@)]
  /\ UNCHANGED <<scene, client, socket, ad, cause, actor, cmds, events, reader, writer, wire, crashed>>

\* The events are closed: the close message, close(out) and pumpDone.
PumpClose ==
  /\ Running
  /\ pump.pc = "take" /\ pump.left = <<>> /\ events = <<>> /\ SessionDone
  /\ Send(CloseMsg(pump.code))
  /\ pump' = [pump EXCEPT !.pc = "done"]
  /\ UNCHANGED <<scene, client, socket, ad, cause, actor, cmds, events, reader, writer, wire, crashed>>
-----------------------------------------------------------------------------
(***************************************************************************)
(* Writer                                                                  *)
(***************************************************************************)
WriterTake ==
  /\ Running
  /\ writer.pc = "recv" /\ out # <<>>
  /\ out' = Tail(out)
  /\ writer' = [pc |-> IF Head(out).close # "" THEN "close" ELSE "write", msg |-> Head(out)]
  /\ UNCHANGED <<scene, client, socket, ad, cause, actor, cmds, events, reader, pump, wire, crashed>>

Write ==
  /\ Running
  /\ writer.pc = "write" /\ socket = "open" /\ client.up
  /\ wire' = [wire EXCEPT !.got = IF writer.msg.k = 0 THEN @ ELSE Append(@, writer.msg.k),
                         !.ids = @ \cup writer.msg.ids]
  /\ writer' = [writer EXCEPT !.pc = "recv"]
  /\ UNCHANGED <<scene, client, socket, ad, cause, actor, cmds, events, out, reader, pump, crashed>>

\* client_write_timeout, or a broken socket: the session is closed, and writerDone and
\* the read context with it.  A write whose context expires closes the socket.
WriteError ==
  /\ Running
  /\ writer.pc = "write"
  /\ ~client.up \/ socket = "closed" \/ "stall" \in scene.closes
  /\ writer' = [writer EXCEPT !.pc = "done"]
  /\ cause' = Cancelled("client")
  /\ socket' = "closed"
  /\ UNCHANGED <<scene, client, ad, actor, cmds, events, out, reader, pump, wire, crashed>>

\* conn.Close: the close frame and the handshake, which the reader may outrun.
CloseSocket ==
  /\ Running
  /\ writer.pc = "close"
  /\ wire' = IF socket = "open" /\ client.up THEN [wire EXCEPT !.close = writer.msg.close] ELSE wire
  /\ writer' = [writer EXCEPT !.pc = "done"]
  /\ socket' = "closed"
  /\ UNCHANGED <<scene, client, ad, cause, actor, cmds, events, out, reader, pump, crashed>>

ClientLeaves ==
  /\ Running
  /\ client.up /\ "leave" \in scene.closes
  /\ client' = [client EXCEPT !.up = FALSE]
  /\ UNCHANGED <<scene, socket, ad, cause, actor, cmds, events, out, reader, pump, writer, wire, crashed>>
-----------------------------------------------------------------------------
Ended == /\ reader.pc \in {"returned", "panicked"} /\ SessionDone /\ OutClosed /\ WriterDone
         /\ socket = "closed"

Goroutines ==
  \/ Post \/ ReaderSend \/ ReaderSendClosed \/ ReadError \/ Return
  \/ HandleCommand \/ Emit \/ Cleanup \/ CloseEvents
  \/ Hello \/ PumpEvent \/ PumpSend \/ PumpClose
  \/ WriterTake \/ Write \/ WriteError \/ CloseSocket

Environment == Read \/ PostAudioOverflow \/ HandleOther \/ Fatal \/ CancelSession \/ ClientLeaves

Next == Goroutines \/ Environment

Spec == Init /\ [][Next]_vars

(***************************************************************************)
(* Fairness: goroutines run; a write succeeds or times out, and a close    *)
(* handshake ends (the library gives up after 5 s).                        *)
(***************************************************************************)
Fairness ==
  /\ WF_vars(Post) /\ WF_vars(ReaderSend) /\ WF_vars(ReaderSendClosed)
  /\ WF_vars(ReadError) /\ WF_vars(Return)
  /\ WF_vars(HandleCommand) /\ WF_vars(Emit)
  /\ WF_vars(Cleanup) /\ WF_vars(CloseEvents)
  /\ WF_vars(Hello) /\ WF_vars(PumpEvent)
  /\ WF_vars(PumpSend) /\ WF_vars(PumpClose)
  /\ WF_vars(WriterTake) /\ WF_vars(Write \/ WriteError) /\ WF_vars(CloseSocket)

FairSpec == Spec /\ Fairness
-----------------------------------------------------------------------------
(***************************************************************************)
(* Properties                                                              *)
(***************************************************************************)
\* The session's frames reach the client in the order the pump built them, none left
\* out; and when the close frame is sent, every frame queued before it was (server.go:
\* "frames queued before a close ... must still reach the client").
FramesInOrder ==
  /\ wire.got = [i \in 1..Len(wire.got) |-> i]
  /\ Len(wire.got) <= pump.built
  /\ wire.close # "" => Len(wire.got) = pump.built

\* As long as no two items were given the same client id, the two item tables of the
\* adapter are each other's inverse, and hold no item the session has deleted once the
\* deletion was told.
DuplicateIds ==
  \E r1, r2 \in DOMAIN actor.cid : r1 # r2 /\ actor.cid[r1] # None /\ actor.cid[r1] = actor.cid[r2]
IdTablesAgree ==
  ~DuplicateIds =>
    /\ \A r \in DOMAIN ad.items : ad.items[r].id \in DOMAIN ad.itemByID /\ ad.itemByID[ad.items[r].id] = r
    /\ \A id \in DOMAIN ad.itemByID :
         ad.itemByID[id] \in DOMAIN ad.items /\ ad.items[ad.itemByID[id]].id = id

\* The pump dereferences the state of a response it never saw only when the session is
\* being closed: emit loses events then.
PanicsOnlyWhenClosing == crashed => cause # ""

\* Once the client is gone or the session cancelled, all four goroutines end and the
\* socket is closed (unless the process died).
EverythingEnds == (cause # "" \/ ~client.up) ~> (Ended \/ crashed)

\* Outbound never meets an event of a response it has not created
\* (implementation-brief: "immediately allocate a ResponseRef, emit EvResponseCreated").
ResponseAnnounced == ~crashed
=============================================================================
