------------------------------ MODULE AsrStream ------------------------------
(***************************************************************************)
(* provider.ASRStream, what its two implementations share: the channels    *)
(* between the caller, the socket writer and the socket reader, the event  *)
(* channel and the connection to the service.  Audio is a sequence of      *)
(* numbered frames of one millisecond each.  The service takes what it is  *)
(* sent in order and answers when it likes, or never; a lost connection    *)
(* delivers the answers that were already under way.                       *)
(***************************************************************************)
EXTENDS Integers, Sequences, FiniteSets

CONSTANTS
    AudioQueueFrames,  \* the capacity of in
    CtlQueue,          \* asrCtlQueue, and the capacity of Deepgram's ctl
    EventQueue,        \* asrEventQueue, eventQueue
    KeepAliveMs,       \* keepAliveMs: the length of Qwen's frame of silence
    Nobody             \* no Finalize is waiting, no timer is set

ASSUME AsrAssumption ==
    /\ {AudioQueueFrames, CtlQueue, EventQueue, KeepAliveMs} \subseteq Nat \ {0}
    /\ Nobody \notin Nat

VARIABLES
    kind,       \* "qwen" or "deepgram"
    ctx,        \* the stream's context is done
    caller,     \* the session: pc, pushed (frames), owed (a Finalize waits for its answer)
    in, ctl,    \* frames, and lifecycle frames (qwen) or control messages (deepgram), for the writer
    events,     \* the event channel: q and closed
    net,        \* the connection: down (answers under way), lost; and the service behind it: on (a task
                \* runs), task, heard, ending (requests to finish it has yet to answer), stray
    writer,     \* the writer goroutine
    reader,     \* the reader goroutine: pc, todo (what it has yet to hand on), last (then it returns)
    crashed     \* a send on the closed event channel has ended the process

\* Close has been called.
Closing == caller.pc \in {"send", "wait", "join", "closed"}

Event(k) == [kind |-> k]

(* ---- emit --------------------------------------------------------------------- *)

EmitQueued(ev) ==
    /\ ~events.closed /\ Len(events.q) < EventQueue
    /\ events' = [events EXCEPT !.q = Append(@, ev)]

\* The context is done: the event is dropped, and emit reports it.
EmitDropped == ctx /\ UNCHANGED events

\* The channel is closed: select may pick the send all the same.
EmitPanics == events.closed /\ crashed' = TRUE /\ UNCHANGED events

(* ---- the socket ----------------------------------------------------------------- *)

\* The service takes audio frames; outside of a task they go astray.
Hear(n, frames) ==
    IF n.on THEN [n EXCEPT !.heard = @ \o frames]
    ELSE [n EXCEPT !.stray = @ \/ frames # <<>>]

\* A frame of silence is heard as zeros.
Silence == [k \in 1..KeepAliveMs |-> 0]

\* The service takes a message.
Take(n, m) ==
    CASE m = "run" ->
            [n EXCEPT !.on = TRUE, !.task = @ + 1, !.heard = <<>>,
                      !.down = Append(@, [k |-> "started", task |-> n.task + 1])]
      [] m \in {"finish", "finalize"} /\ n.on ->
            [n EXCEPT !.on = m = "finalize", !.heard = <<>>, !.ending = Append(@, [task |-> n.task, heard |-> n.heard])]
      [] OTHER -> n

CanWrite == ~ctx /\ net.lost = "no"

\* The deferred cancel of the writer.
WriterEnds == writer' = [writer EXCEPT !.pc = "done"] /\ ctx' = TRUE

\* The writer writes, which makes n of the service, and goes on as w; a write
\* that fails ends it.
WriteThen(n, w) ==
    \/ CanWrite /\ net' = n /\ writer' = w /\ UNCHANGED ctx
    \/ ~CanWrite /\ WriterEnds /\ UNCHANGED net

(* ---- the reader ------------------------------------------------------------------- *)

EmitTodo(ev) == [do |-> "emit", what |-> ev]
TellTodo(frame) == [do |-> "tell", what |-> frame]

\* A frame is read, and handle leaves the reader with something to do.
ReadFrame ==
    /\ reader.pc = "read" /\ ~ctx /\ net.down # <<>>
    /\ net' = [net EXCEPT !.down = Tail(@)]

Goes(todo, last) ==
    reader' = [pc |-> IF todo # <<>> THEN "todo" ELSE IF last THEN "exit" ELSE "read", todo |-> todo, last |-> last]

ReaderFrame == UNCHANGED <<kind, caller, in, writer, crashed>>

\* The read fails: the context is done, or the connection is lost, which is an
\* error unless it was closed normally or is being closed.
ReadEnds ==
    /\ reader.pc = "read"
    /\ \/ ctx /\ Goes(<<>>, TRUE)
       \/ /\ ~ctx /\ net.lost # "no" /\ net.down = <<>>
          /\ Goes(IF Closing \/ net.lost = "normal" THEN <<>> ELSE <<EmitTodo(Event("error"))>>, TRUE)
    /\ UNCHANGED <<ctx, ctl, events, net>> /\ ReaderFrame

ReaderEmits ==
    /\ reader.pc = "todo" /\ Head(reader.todo).do = "emit"
    /\ \/ EmitQueued(Head(reader.todo).what) /\ Goes(Tail(reader.todo), reader.last)
       \/ EmitDropped /\ Goes(<<>>, TRUE)
    /\ UNCHANGED <<ctx, ctl, net>> /\ ReaderFrame

\* toWriter.
ReaderTells ==
    /\ reader.pc = "todo" /\ Head(reader.todo).do = "tell"
    /\ \/ /\ Len(ctl) < CtlQueue
          /\ ctl' = Append(ctl, Head(reader.todo).what) /\ Goes(Tail(reader.todo), reader.last)
       \/ (ctx \/ writer.pc = "done") /\ Goes(<<>>, TRUE) /\ UNCHANGED ctl
    /\ UNCHANGED <<ctx, events, net>> /\ ReaderFrame

\* The deferred calls: cancel, close the socket, close events, close done.
ReaderExits ==
    /\ reader.pc = "exit" /\ reader' = [reader EXCEPT !.pc = "done"]
    /\ ctx' = TRUE /\ events' = [events EXCEPT !.closed = TRUE]
    /\ UNCHANGED <<ctl, net>> /\ ReaderFrame

ReaderStep == ReadEnds \/ ReaderEmits \/ ReaderTells \/ ReaderExits

=============================================================================
