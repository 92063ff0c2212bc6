----------------------------- MODULE Recognizer -----------------------------
(***************************************************************************)
(* A recognizer stream as the session uses it (provider.go: ASRStream):    *)
(* the session pushes audio, asks for the end of the turn with Finalize,   *)
(* takes the events and closes the stream; the stream is Qwen's or         *)
(* Deepgram's, and the service behind it may be slow, silent, or gone.     *)
(***************************************************************************)
EXTENDS QwenAsr, DeepgramAsr

CONSTANT
    Plans     \* calls: what the session calls, in order; leaves: it may close at any time;
              \* pads: keep-alive frames per task; mishaps: what may happen unasked (results and
              \* failures of the service, a lost connection, a cancelled context)

VARIABLE plan

vars == <<kind, ctx, caller, in, ctl, events, net, writer, reader, crashed, finalize, line, timers, plan>>

Init ==
    /\ kind \in {"qwen", "deepgram"}
    /\ ctx = FALSE /\ crashed = FALSE
    /\ caller = [pc |-> "open", pushed |-> 0, owed |-> FALSE]
    /\ in = <<>> /\ ctl = <<>> /\ events = [q |-> <<>>, closed |-> FALSE]
    /\ net = [down |-> <<>>, lost |-> "no", on |-> kind = "deepgram", task |-> 0, heard |-> <<>>,
              ending |-> <<>>, stray |-> FALSE]
    /\ writer = NewWriter /\ reader = [pc |-> "read", todo |-> <<>>, last |-> FALSE]
    /\ QwenInit /\ DeepgramInit
    /\ plan \in Plans

(* ---- the session --------------------------------------------------------------------- *)

\* The process is alive, and the rest is left alone.
CallerFrame == ~crashed /\ UNCHANGED <<kind, events, net, writer, reader, crashed, line>>

Calls(what) ==
    /\ caller.pc = "open" /\ plan.calls # <<>> /\ Head(plan.calls) = what
    /\ plan' = [plan EXCEPT !.calls = Tail(@)]

\* A call that fails is fatal to the session, which closes the stream.
Fatal == caller' = [caller EXCEPT !.pc = "close"]

PushAudio ==
    /\ Calls("PushAudio")
    /\ IF ctx \/ Len(in) = AudioQueueFrames THEN Fatal /\ UNCHANGED in
       ELSE caller' = [caller EXCEPT !.pushed = @ + 1] /\ in' = Append(in, caller.pushed + 1)
    /\ UNCHANGED <<ctx, ctl, finalize, timers>> /\ CallerFrame

\* Finalize.  Qwen's leaves a request, if there is none; Deepgram's sets the
\* timer and then has a message to queue.
Finalize ==
    /\ Calls("Finalize")
    /\ \/ ctx /\ Fatal /\ UNCHANGED <<finalize, timers>>
       \/ /\ ~ctx /\ kind = "qwen" /\ caller' = [caller EXCEPT !.owed = TRUE]
          /\ finalize' = IF finalize = Nobody THEN caller.pushed ELSE finalize
          /\ UNCHANGED timers
       \/ /\ ~ctx /\ kind = "deepgram" /\ caller' = [caller EXCEPT !.owed = TRUE, !.pc = "ask"]
          /\ SetTimer /\ UNCHANGED finalize
    /\ UNCHANGED <<ctx, in, ctl>> /\ CallerFrame

\* The message is queued; there may be no room for it.
Ask ==
    /\ caller.pc = "ask"
    /\ \/ Len(ctl) < CtlQueue /\ ctl' = Append(ctl, "finalize") /\ caller' = [caller EXCEPT !.pc = "open"]
       \/ ctx /\ Fatal /\ UNCHANGED ctl
    /\ UNCHANGED <<ctx, in, finalize, timers, plan>> /\ CallerFrame

\* The session takes an event: a Final or an EndOfTurn answers a Finalize, an
\* error is fatal.
Consume ==
    /\ ~crashed /\ caller.pc = "open" /\ events.q # <<>>
    /\ events' = [events EXCEPT !.q = Tail(@)]
    /\ caller' = IF Head(events.q).kind = "error" THEN [caller EXCEPT !.pc = "close", !.owed = FALSE]
                 ELSE [caller EXCEPT !.owed = @ /\ Head(events.q).kind = "partial"]
    /\ UNCHANGED <<kind, ctx, in, ctl, net, writer, reader, crashed, finalize, line, timers, plan>>

\* The session may end at any time.
Leave ==
    /\ caller.pc = "open" /\ plan.leaves /\ Fatal
    /\ UNCHANGED <<ctx, in, ctl, finalize, timers, plan>> /\ CallerFrame

\* Close: Deepgram's stops the timer, and has a message to send.
Close ==
    /\ caller.pc = "close" /\ caller' = [caller EXCEPT !.pc = IF kind = "qwen" THEN "wait" ELSE "send"]
    /\ IF kind = "deepgram" THEN StopTimer ELSE UNCHANGED timers
    /\ UNCHANGED <<ctx, in, ctl, finalize, plan>> /\ CallerFrame

\* The mutation that waits for room even when the stream is over.
CloseSendsOnly ==
    /\ caller.pc = "send"
    /\ Len(ctl) < CtlQueue /\ ctl' = Append(ctl, "close") /\ caller' = [caller EXCEPT !.pc = "wait"]
    /\ UNCHANGED <<ctx, in, finalize, timers, plan>> /\ CallerFrame

CloseSends ==
    /\ caller.pc = "send"
    /\ \/ /\ Len(ctl) < CtlQueue /\ ctl' = Append(ctl, "close")
          /\ caller' = [caller EXCEPT !.pc = "wait"] /\ UNCHANGED ctx
       \/ /\ reader.pc = "done" /\ caller' = [caller EXCEPT !.pc = "join"] /\ ctx' = TRUE
          /\ UNCHANGED ctl
    /\ UNCHANGED <<in, finalize, timers, plan>> /\ CallerFrame

\* The message is out, nobody is there to send it, or connect_timeout is over:
\* the context is cancelled, and the goroutines are awaited.
CloseWaits ==
    /\ \/ caller.pc = "wait" /\ caller' = [caller EXCEPT !.pc = "join"] /\ ctx' = TRUE
       \/ /\ caller.pc = "join" /\ reader.pc = "done" /\ (kind = "qwen" => writer.pc = "done")
          /\ caller' = [caller EXCEPT !.pc = "closed"] /\ UNCHANGED ctx
    /\ UNCHANGED <<in, ctl, finalize, timers, plan>> /\ CallerFrame

(* ---- the service, and mishaps ---------------------------------------------------------- *)

Reply(frames) == net' = [net EXCEPT !.down = @ \o frames]
ServiceFrame == ~crashed /\ UNCHANGED <<kind, caller, in, ctl, events, writer, reader, crashed, finalize, line, timers>>

Spoken(heard) == {k \in 1..Len(heard) : heard[k] # 0}

\* A result of Qwen's for the audio b to e of a task, with its offsets in that task.
Result(task, heard, b, e, final) ==
    [k |-> "result", final |-> final, begin |-> b - 1, end |-> e, first |-> heard[b], last |-> heard[e], task |-> task]
Sentences(task, heard, final) ==
    {Result(task, heard, p[1], p[2], final) : p \in {q \in Spoken(heard) \X Spoken(heard) : q[1] <= q[2]}}

Finished(task) == [k |-> "finished", task |-> task]

Results(final, text, from, speech) ==
    [k |-> "results", final |-> final, text |-> text, from |-> from, speech |-> speech]

\* The answer to finish-task is the final transcript and task-finished; the one to
\* Finalize a from_finalize result.
Answer ==
    /\ net.ending # <<>> /\ net.lost = "no" /\ ~ctx
    /\ LET t == Head(net.ending)
           rest == [net EXCEPT !.ending = Tail(@)]
       IN \/ /\ kind = "qwen"
             /\ \/ /\ Spoken(t.heard) = {}
                   /\ net' = [rest EXCEPT !.down = Append(@, Finished(t.task))]
                \/ \E r \in Sentences(t.task, t.heard, TRUE) :
                      net' = [rest EXCEPT !.down = @ \o <<r, Finished(t.task)>>]
          \/ /\ kind = "deepgram"
             /\ \E speech \in BOOLEAN : net' = [rest EXCEPT !.down = Append(@, Results(TRUE, t.heard # <<>>, TRUE, speech))]
    /\ UNCHANGED <<ctx, plan>> /\ ServiceFrame

\* What the service says unasked.
Remarks ==
    IF kind = "qwen"
      THEN Sentences(net.task, net.heard, FALSE) \cup {[k |-> "failed"]}
      ELSE {[k |-> "utteranceEnd"], [k |-> "error"], Results(FALSE, TRUE, FALSE, FALSE), Results(TRUE, TRUE, FALSE, TRUE)}

Mishap ==
    /\ net.lost = "no" /\ ~ctx
    /\ \E m \in plan.mishaps :
       /\ plan' = [plan EXCEPT !.mishaps = {}]
       /\ \/ m = "remark" /\ UNCHANGED ctx /\ \E f \in Remarks : Reply(<<f>>)
          \/ m \in {"normal", "error"} /\ net' = [net EXCEPT !.lost = m] /\ UNCHANGED ctx
          \/ m = "cancel" /\ ctx' = TRUE /\ UNCHANGED net   \* the session's context, the parent of the stream's
    /\ ServiceFrame

(* ---- the specification ----------------------------------------------------------------- *)

OfQwen(A) == ~crashed /\ A /\ UNCHANGED <<timers, plan>>
OfDeepgram(A) == ~crashed /\ A /\ UNCHANGED <<finalize, line, plan>>
OfBoth(A) == ~crashed /\ A /\ UNCHANGED <<finalize, line, timers, plan>>

WriterStep == OfQwen(QwenWriterStep) \/ OfDeepgram(DgWrites)
Reading == OfBoth(ReaderStep) \/ OfQwen(QwenReads) \/ OfDeepgram(DgReads)
Deadline == OfQwen(WriterDeadline)
Padding == Len(line.gaps) < plan.pads /\ OfQwen(WriterPads)
Ack == OfQwen(AckExpires)
Timer == OfDeepgram(TimerExpires) \/ OfDeepgram(FinalizeTimedOut)
CloseStep == Close \/ CloseSends \/ CloseWaits

Next ==
    \/ PushAudio \/ Finalize \/ Ask \/ Consume \/ Leave \/ CloseStep
    \/ WriterStep \/ Deadline \/ Padding \/ Ack \/ Reading \/ Timer
    \/ Answer \/ Mishap

\* The goroutines run, timers expire, and the session comes back to its events;
\* nothing is asked of the service, the network or the user.
Fairness ==
    /\ WF_vars(WriterStep) /\ WF_vars(Reading) /\ WF_vars(Deadline) /\ WF_vars(Ack) /\ WF_vars(Timer)
    /\ WF_vars(Consume) /\ WF_vars(Ask) /\ WF_vars(CloseStep)

Spec == Init /\ [][Next]_vars /\ Fairness

(* ---- properties -------------------------------------------------------------------------- *)

(* "Implementations ... MUST still guarantee a subsequent Final or an explicit *)
(* EndOfTurn": whatever the service does, a Finalize is followed by one of     *)
(* them, or by an error, or by the end of the stream.  The exceptions are      *)
(* Qwen's: a request taken between a task's EndOfTurn and its restart is       *)
(* dropped, and a task-finished that comes after finalize_timeout ends the     *)
(* wrong task, with the Finalize that was made for it.                         *)
FinalizeAnswered ==
    caller.owed ~> \/ ~caller.owed \/ events.closed \/ crashed
                   \/ writer.dropped \/ writer.misled

(* No speech is lost to the turn: by the time Qwen's writer ends a task or     *)
(* answers for it, every frame pushed before the Finalize is in the task, and  *)
(* "audio is written only while a task is running and not being finalized".    *)
(* The exception: a task-finished that comes after finalize_timeout restarts   *)
(* the task after it, whose own task-started then finds the Finalize of the    *)
(* new one still pending, and what is queued is flushed once more.             *)
SpeechReachesItsTurn ==
    kind = "qwen" => /\ writer.total >= writer.mark
                     /\ net.stray => writer.misled

(* Transcripts are on the timeline of the pushed audio, whatever the number of *)
(* tasks and of keep-alive frames before them: a sentence starts and ends with *)
(* its frames.  "No result can straddle" a restart holds but for the results   *)
(* of a task that was given up after finalize_timeout.                         *)
OffsetsTrue ==
    \A k \in 1..Len(events.q) :
        LET e == events.q[k] IN
        "first" \in DOMAIN e /\ ~e.late =>
            /\ e.start = e.first - 1
            /\ e.end = IF e.kind = "final" THEN e.last ELSE e.start

(* A stream that is cancelled or closed ends: both goroutines return, the      *)
(* event channel is closed, and so Close returns, even with a full queue, a    *)
(* lost connection or a session that no longer takes events.                   *)
StreamEnds ==
    /\ ctx ~> crashed \/ (reader.pc = "done" /\ writer.pc = "done" /\ events.closed)
    /\ Closing ~> crashed \/ caller.pc = "closed"

=============================================================================
