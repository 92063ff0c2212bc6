------------------------------- MODULE QwenAsr -------------------------------
(***************************************************************************)
(* provider/qwen/asr.go: recognition in tasks, one at a time.  The writer  *)
(* sends run-task, audio once the task has started, finish-task for a      *)
(* Finalize, and the next run-task once the task has finished.             *)
(***************************************************************************)
EXTENDS AsrStream

VARIABLES
    finalize,   \* the channel of capacity one; a request stands for the frames pushed before it
    line        \* base (baseMs), gaps, and ack (the timer for task-started is set)

qwenVars == <<finalize, line>>

NewWriter ==
    [pc |-> "start", started |-> FALSE, finalizing |-> FALSE, pending |-> Nobody, sent |-> 0, pad |-> 0,
     closeSent |-> FALSE,
     task |-> 0, total |-> 0, mark |-> 0, dropped |-> FALSE, misled |-> FALSE]  \* what the properties look at

QwenInit == finalize = Nobody /\ line = [base |-> 0, gaps |-> <<>>, ack |-> FALSE]

(* ---- the writer ------------------------------------------------------------------ *)

WriterAt(l) == kind = "qwen" /\ writer.pc = l
WriterFrame == UNCHANGED <<kind, caller, reader>>

\* sendRun, with the ack timer.
SendRun(w, base) ==
    /\ line' = [base |-> base, gaps |-> <<>>, ack |-> TRUE]
    /\ WriteThen(Take(net, "run"),
                 [w EXCEPT !.pc = "run", !.started = FALSE, !.finalizing = FALSE, !.pending = Nobody,
                           !.sent = 0, !.pad = 0, !.task = @ + 1])

WriterStarts ==
    /\ WriterAt("start") /\ SendRun(writer, 0)
    /\ UNCHANGED <<in, ctl, events, finalize, crashed>> /\ WriterFrame

\* The mutation that ends the task without flushing the queue.
BeginFinalizeAtOnce(mark, w) ==
    /\ WriteThen(Take(net, "finish"), [w EXCEPT !.finalizing = TRUE, !.mark = mark])
    /\ UNCHANGED in

\* beginFinalize: what is queued belongs to the turn; a task that has received
\* nothing is not finished but answered at once.
BeginFinalize(mark, w) ==
    LET flushed == [w EXCEPT !.sent = @ + Len(in), !.total = @ + Len(in), !.mark = mark]
    IN /\ in' = <<>>
       /\ IF flushed.sent + flushed.pad = 0
            THEN writer' = [flushed EXCEPT !.pending = Nobody, !.pc = "answer"] /\ UNCHANGED <<net, ctx>>
            ELSE WriteThen(Take(Hear(net, in), "finish"), [flushed EXCEPT !.finalizing = TRUE])

\* The mutation that counts the silence as pushed audio.
RestartPadded(w) == SendRun(w, line.base + w.sent + w.pad)

\* restart.
Restart(w) == SendRun(w, line.base + w.sent)

WriterDone ==
    /\ WriterAt("run") /\ ctx /\ WriterEnds
    /\ UNCHANGED <<in, ctl, events, net, finalize, line, crashed>> /\ WriterFrame

\* closeReq: the task is ended politely.
WriterCloses ==
    /\ WriterAt("run") /\ Closing
    /\ net' = IF writer.started /\ CanWrite THEN Take(net, "finish") ELSE net
    /\ writer' = [writer EXCEPT !.pc = "done", !.closeSent = TRUE] /\ ctx' = TRUE
    /\ UNCHANGED <<in, ctl, events, finalize, line, crashed>> /\ WriterFrame

\* A lifecycle frame.  A task-finished starts the next task, whichever task it is
\* of: one that comes late, after finalize_timeout, also wipes out a Finalize.
WriterControl ==
    /\ WriterAt("run") /\ ctl # <<>> /\ ctl' = Tail(ctl)
    /\ LET h == Head(ctl)
           w == [writer EXCEPT !.started = TRUE]
       IN
       \/ /\ h.k = "started" /\ UNCHANGED line
          /\ IF w.pending # Nobody THEN BeginFinalize(w.pending, w)
             ELSE writer' = w /\ UNCHANGED <<in, net, ctx>>
       \/ h.k = "finished" /\ Restart([writer EXCEPT !.misled = @ \/ h.task # writer.task]) /\ UNCHANGED in
       \/ h.k = "failed" /\ WriterEnds /\ UNCHANGED <<in, net, line>>
    /\ UNCHANGED <<events, finalize, crashed>> /\ WriterFrame

WriterFinalizes ==
    /\ WriterAt("run") /\ finalize # Nobody /\ finalize' = Nobody
    /\ \/ /\ writer.finalizing   \* already ending this task
          /\ writer' = [writer EXCEPT !.dropped = TRUE] /\ UNCHANGED <<in, net, ctx>>
       \/ /\ ~writer.finalizing /\ ~writer.started
          /\ writer' = [writer EXCEPT !.pending = finalize] /\ UNCHANGED <<in, net, ctx>>
       \/ ~writer.finalizing /\ writer.started /\ BeginFinalize(finalize, writer)
    /\ UNCHANGED <<ctl, events, line, crashed>> /\ WriterFrame

\* finalize_timeout.
WriterDeadline ==
    /\ WriterAt("run") /\ writer.finalizing
    /\ writer' = [writer EXCEPT !.pc = "timeout"]
    /\ UNCHANGED <<ctx, in, ctl, events, net, finalize, line, crashed>> /\ WriterFrame

\* The synthesized EndOfTurn, after which a task that timed out is given up.
WriterAnswers ==
    /\ kind = "qwen" /\ writer.pc \in {"answer", "timeout"}
    /\ \/ /\ EmitQueued(Event("eot"))
          /\ writer' = [writer EXCEPT !.pc = IF @ = "answer" THEN "run" ELSE "restart"]
          /\ UNCHANGED <<ctx, crashed>>
       \/ EmitDropped /\ WriterEnds /\ UNCHANGED crashed
       \/ EmitPanics /\ UNCHANGED <<writer, ctx>>
    /\ UNCHANGED <<in, ctl, net, finalize, line>> /\ WriterFrame

WriterRestarts ==
    /\ WriterAt("restart") /\ Restart(writer)
    /\ UNCHANGED <<in, ctl, events, finalize, crashed>> /\ WriterFrame

MayWriteAudio == WriterAt("run") /\ writer.started /\ ~writer.finalizing

WriterSendsAudio ==
    /\ MayWriteAudio /\ in # <<>> /\ in' = Tail(in)
    /\ WriteThen(Hear(net, <<Head(in)>>), [writer EXCEPT !.sent = @ + 1, !.total = @ + 1])
    /\ UNCHANGED <<ctl, events, finalize, line, crashed>> /\ WriterFrame

\* keepalive_interval without audio: a frame of silence, and where it was put.
WriterPads ==
    /\ MayWriteAudio
    /\ WriteThen(Hear(net, Silence), [writer EXCEPT !.pad = @ + KeepAliveMs])
    /\ line' = [line EXCEPT !.gaps = Append(@, [at |-> writer.sent + writer.pad, ms |-> KeepAliveMs])]
    /\ UNCHANGED <<in, ctl, events, finalize, crashed>> /\ WriterFrame

\* idle_timeout without task-started.
AckExpires ==
    /\ line.ack /\ reader.pc # "done" /\ line' = [line EXCEPT !.ack = FALSE] /\ ctx' = TRUE
    /\ UNCHANGED <<kind, caller, in, ctl, events, net, writer, reader, finalize, crashed>>

(* ---- the reader ------------------------------------------------------------------ *)

\* unpad: an offset in the task's audio, less the silence before it; one inside a
\* silence is where that silence was put.
Unpad(ms) ==
    LET gaps == line.gaps
        before == {i \in 1..Len(gaps) : ms >= gaps[i].at + gaps[i].ms}
        inside == {i \in 1..Len(gaps) : gaps[i].at < ms /\ ms < gaps[i].at + gaps[i].ms}
        shift == KeepAliveMs * Cardinality(before)
    IN IF inside = {} THEN ms - shift ELSE gaps[CHOOSE i \in inside : TRUE].at - shift

\* emitSentence.
Sentence(f) ==
    [kind |-> IF f.final THEN "final" ELSE "partial",
     start |-> line.base + Unpad(f.begin),
     end |-> line.base + Unpad(IF f.final THEN f.end ELSE f.begin),
     first |-> f.first, last |-> f.last, late |-> f.task # writer.task]

QwenReads ==
    /\ kind = "qwen" /\ ReadFrame
    /\ LET f == Head(net.down) IN
       \/ f.k = "result" /\ Goes(<<EmitTodo(Sentence(f))>>, FALSE) /\ UNCHANGED line
       \/ /\ f.k = "started" /\ line' = [line EXCEPT !.ack = FALSE]
          /\ Goes(<<TellTodo(f)>>, FALSE)
       \/ /\ f.k = "finished" /\ UNCHANGED line
          /\ Goes((IF Closing THEN <<>> ELSE <<EmitTodo(Event("eot"))>>) \o <<TellTodo(f)>>, FALSE)
       \/ /\ f.k = "failed" /\ UNCHANGED line
          /\ Goes(<<EmitTodo(Event("error")), TellTodo(f)>>, TRUE)
    /\ UNCHANGED <<ctx, ctl, events, finalize>> /\ ReaderFrame

QwenWriterStep ==
    \/ WriterStarts \/ WriterDone \/ WriterCloses \/ WriterControl \/ WriterFinalizes
    \/ WriterAnswers \/ WriterRestarts \/ WriterSendsAudio

=============================================================================
