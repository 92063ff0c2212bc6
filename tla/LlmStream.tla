------------------------------ MODULE LlmStream ------------------------------
(***************************************************************************)
(* The goroutine behind provider.LLM.Chat (qwen/llm.go; openai/llm.go has  *)
(* the same code): it posts the request, reads the server-sent events and  *)
(* sends LLM chunks on a bounded channel, under a context of its own that  *)
(* an idle watchdog may cancel.                                            *)
(*                                                                         *)
(* What the service sends is a script: text deltas, fragments of tool      *)
(* calls, finish reasons, and how it ends: "[DONE]", "eof" (a clean end    *)
(* without it), "cut" (a transport error), "bad" (a malformed event),      *)
(* "refused" (no answer to the request at all) or "stall" (silence).       *)
(***************************************************************************)
EXTENDS Naturals, Sequences

CONSTANTS
    ChunkQueue,    \* chunkQueue: the capacity of the channel
    NoFinish       \* no finish_reason has been seen

VARIABLES
    llm,           \* pc, script, pend (chunks to send), calls, finish, body (it is open), idle
    lout           \* the channel: q and closed

llmVars == <<llm, lout>>

Text(t) == [kind |-> "text", text |-> t]
Call(c) == [kind |-> "call", call |-> c]
LlmDone(f) == [kind |-> "done", finish |-> f]
LlmError(why) == [kind |-> "error", why |-> why]

FinishReasons == {"stop", "length", "content_filter"}

\* Line d is the end of a generation that was not truncated: "[DONE]" without a
\* finish reason, or any clean end whose last finish reason is "stop".
Concludes(script, d) ==
    LET reasons == {j \in 1..(d - 1) : script[j].k = "finish"} IN
    \/ script[d].k = "[DONE]" /\ reasons = {}
    \/ /\ script[d].k \in {"[DONE]", "eof"}
       /\ \E j \in reasons : script[j].reason = "stop" /\ \A i \in reasons : i <= j

\* What is asked of the service: by the end of such a generation a call that has
\* been begun is complete.
CallsComplete(script) ==
    \A d \in 1..Len(script), i \in 1..Len(script) :
        Concludes(script, d) /\ i < d /\ script[i].k = "call" /\ ~script[i].last =>
            \E j \in (i + 1)..(d - 1) : script[j].k = "call" /\ script[j].index = script[i].index

LlmInit(script) ==
    /\ llm = [pc |-> "post", script |-> script, pend |-> <<>>, calls |-> <<>>,
              finish |-> NoFinish, body |-> FALSE, idle |-> FALSE]
    /\ lout = [q |-> <<>>, closed |-> FALSE]

\* The stream's context: the caller's, or cancelled by the watchdog.
LlmStopped(cancelled) == cancelled \/ llm.idle

\* toolCalls.push: fragments are gathered by index, in order of appearance.
PushCall(calls, f) ==
    IF \E k \in 1..Len(calls) : calls[k].index = f.index
      THEN [k \in 1..Len(calls) |->
              IF calls[k].index = f.index THEN [calls[k] EXCEPT !.whole = f.last] ELSE calls[k]]
      ELSE Append(calls, [index |-> f.index, whole |-> f.last])

FinishOr(f) == IF f = NoFinish THEN "stop" ELSE f

\* The mutation that delivers a call even when the generation was cut short.
OutcomeAlways(calls, finish) ==
    CASE Len(calls) = 0 -> <<LlmDone(FinishOr(finish))>>
      [] Len(calls) = 1 -> <<Call(calls[1]), LlmDone(FinishOr(finish))>>
      [] OTHER          -> <<Call(calls[1]), LlmError("calls")>>

\* done, with toolCalls.emit: at most one call, and only of a generation that
\* was not truncated, goes out ahead of the Done chunk.
Outcome(calls, finish) ==
    IF Len(calls) = 0 \/ FinishOr(finish) # "stop" THEN <<LlmDone(FinishOr(finish))>>
    ELSE <<Call(calls[1]), IF Len(calls) = 1 THEN LlmDone("stop") ELSE LlmError("calls")>>

SendNext(chunks) == llm' = [llm EXCEPT !.pc = "send", !.pend = chunks, !.script = Tail(@)]

LlmClose == llm' = [llm EXCEPT !.pc = "closed"] /\ lout' = [lout EXCEPT !.closed = TRUE]

\* post: the request fails, or the body is there to be read.
Post(cancelled) ==
    /\ llm.pc = "post"
    /\ \/ /\ cancelled
          /\ llm' = [llm EXCEPT !.pc = "send", !.pend = <<LlmError("canceled")>>]
       \/ /\ Head(llm.script).k = "refused"
          /\ SendNext(<<LlmError("refused")>>)
       \/ /\ Head(llm.script).k # "refused"
          /\ llm' = [llm EXCEPT !.pc = "read", !.body = TRUE]
    /\ UNCHANGED lout

\* One line of the event stream.
ReadLine ==
    /\ llm.pc = "read" /\ llm.script # <<>>
    /\ LET e == Head(llm.script) IN
       \/ e.k = "text" /\ SendNext(<<Text(e.text)>>)
       \/ e.k = "call" /\ llm' = [llm EXCEPT !.calls = PushCall(@, e), !.script = Tail(@)]
       \/ e.k = "finish" /\ llm' = [llm EXCEPT !.finish = e.reason, !.script = Tail(@)]
       \/ e.k \in {"[DONE]", "eof"} /\ SendNext(Outcome(llm.calls, llm.finish))
       \/ e.k \in {"cut", "bad"} /\ SendNext(<<LlmError(e.k)>>)
    /\ UNCHANGED lout

\* The read fails because the context is done.  A watchdog's error is put into
\* the channel if there is room.
ReadCancelled(cancelled) ==
    /\ llm.pc = "read" /\ LlmStopped(cancelled)
    /\ llm' = [llm EXCEPT !.pc = "closed"]
    /\ lout' = [closed |-> TRUE,
                q |-> IF llm.idle /\ Len(lout.q) < ChunkQueue THEN Append(lout.q, LlmError("idle"))
                      ELSE lout.q]

\* The idle watchdog: it is not reset while a chunk waits for room.
LlmWatchdog ==
    /\ llm.pc \in {"read", "send"} /\ llm.body /\ ~llm.idle
    /\ llm' = [llm EXCEPT !.idle = TRUE]
    /\ UNCHANGED lout

\* send: the chunk goes out; a Done or an error is the last.
SendChunk ==
    /\ llm.pc = "send" /\ Len(lout.q) < ChunkQueue
    /\ LET c == Head(llm.pend)
           last == c.kind \in {"done", "error"}
       IN /\ llm' = [llm EXCEPT !.pend = Tail(@),
                                !.pc = IF last THEN "closed" ELSE IF Len(llm.pend) = 1 THEN "read" ELSE "send"]
          /\ lout' = [q |-> Append(lout.q, c), closed |-> last]

\* send gives up once the context is done.
SendAborted(cancelled) == llm.pc = "send" /\ LlmStopped(cancelled) /\ LlmClose

LlmStep(cancelled) ==
    Post(cancelled) \/ ReadLine \/ ReadCancelled(cancelled) \/ SendChunk \/ SendAborted(cancelled)

=============================================================================
