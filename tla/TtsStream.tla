------------------------------ MODULE TtsStream ------------------------------
(***************************************************************************)
(* The three speech streams behind provider.TTSStream, one at a time:      *)
(*   "qwen"      qwen/tts.go: a socket, a writer and a reader goroutine;   *)
(*   "realtime"  openai/realtime_tts.go: a socket and one goroutine;       *)
(*   "speech"    openai/tts.go: one HTTP request per stream.               *)
(* A piece of text, and the audio spoken for it, is named by the number of *)
(* its sentence.  rem is the service: it speaks what it has been sent, in  *)
(* order; a faulty one may fail at any point, a silent one lets the idle   *)
(* timer expire.  The deferred calls that end a reader (close the socket,  *)
(* close chunks, cancel) are one step.                                     *)
(***************************************************************************)
EXTENDS Naturals, Sequences

CONSTANTS
    TextQueue,     \* ttsTextQueue, realtimeTextQueue
    AudioQueue,    \* ttsAudioQueue, audioQueue
    NoText         \* nothing is being spoken, no outcome yet

VARIABLES
    tts,           \* kind, can (its context), errc, pc, wpc, ended, started, quit (it cancelled itself), text
    tin, tout,     \* the text and the audio channel: q and closed
    rem            \* run, heard (texts to speak), finish, faulty, silent

ttsVars == <<tts, tin, tout, rem>>

OpenChan == [q |-> <<>>, closed |-> FALSE]

NewStream(kind) ==
    [kind |-> kind, can |-> FALSE, errc |-> NoText, ended |-> FALSE, started |-> FALSE,
     quit |-> FALSE, text |-> NoText,
     pc |-> CASE kind = "qwen" -> "read" [] kind = "realtime" -> "connect" [] OTHER -> "off",
     wpc |-> IF kind = "qwen" THEN "run" ELSE "off"]

TtsInit(kind, faulty, silent) ==
    /\ tts = [NewStream(kind) EXCEPT !.pc = "off", !.wpc = "off"]
    /\ tin = OpenChan /\ tout = OpenChan
    /\ rem = [run |-> FALSE, heard |-> <<>>, finish |-> FALSE, faulty |-> faulty, silent |-> silent]

TtsStopped(cancelled) == cancelled \/ tts.can

(* ---- TTS.Synthesize and the methods of a stream ---------------------------- *)

\* Synthesize: the goroutines start.
Synthesize ==
    /\ tts' = NewStream(tts.kind)
    /\ tin' = OpenChan /\ tout' = OpenChan
    /\ rem' = [rem EXCEPT !.run = FALSE, !.heard = <<>>, !.finish = FALSE]

\* The mutation that drops a text the queue has no room for.
WriteOrDrop(cancelled, text) ==
    /\ ~tts.ended /\ ~TtsStopped(cancelled)
    /\ tin' = IF Len(tin.q) < TextQueue THEN [tin EXCEPT !.q = Append(@, text)] ELSE tin
    /\ UNCHANGED <<tts, tout, rem>>

\* WriteText queues the text.
WriteText(cancelled, text) ==
    /\ ~tts.ended /\ ~TtsStopped(cancelled) /\ Len(tin.q) < TextQueue
    /\ tin' = [tin EXCEPT !.q = Append(@, text)]
    /\ UNCHANGED <<tts, tout, rem>>

\* WriteText: why it may refuse.
WriteErrors(cancelled) ==
    (IF tts.ended THEN {"closed"} ELSE {})
    \cup (IF TtsStopped(cancelled) THEN {"canceled"} ELSE {})
    \cup (IF tts.kind = "qwen" /\ tts.wpc = "done" THEN {"closed"} ELSE {})

\* EndInput closes the text channel; the speech stream then sends its request.
EndInput ==
    /\ tts' = [tts EXCEPT !.ended = TRUE, !.pc = IF tts.kind = "speech" THEN "post" ELSE @]
    /\ tin' = [tin EXCEPT !.closed = TRUE]
    /\ UNCHANGED <<tout, rem>>

\* ReadAudio: a chunk is there.
ReadChunk ==
    /\ tout.q # <<>>
    /\ tout' = [tout EXCEPT !.q = Tail(@)]
    /\ UNCHANGED <<tts, tin, rem>>

\* ReadAudio: the outcomes it may report.  Qwen's waits for its reader's; the
\* other two also return as soon as their context is done.
ReadOutcomes(cancelled) ==
    (IF tout.closed /\ tout.q = <<>> THEN {tts.errc} ELSE {})
    \cup (IF tts.kind # "qwen" /\ TtsStopped(cancelled) THEN {"canceled"} ELSE {})

\* Close cancels the stream's context.
CloseStream == tts' = [tts EXCEPT !.can = TRUE] /\ UNCHANGED <<tin, tout, rem>>

(* ---- what the goroutines share ---------------------------------------------- *)

\* A goroutine settles the outcome and closes the audio channel.
Settle(outcome, cancels) ==
    /\ tts' = [tts EXCEPT !.errc = outcome, !.pc = "closed", !.can = @ \/ cancels]
    /\ tout' = [tout EXCEPT !.closed = TRUE]
    /\ UNCHANGED <<tin, rem>>

Speak(text) ==
    /\ Len(tout.q) < AudioQueue
    /\ tout' = [tout EXCEPT !.q = Append(@, text)]

(* ---- qwen: the writer -------------------------------------------------------- *)

Broken(cancelled) == TtsStopped(cancelled) \/ tout.closed \/ rem.faulty

\* A frame goes out, or the writer cancels the stream and ends.
WriterFails(cancelled) ==
    /\ Broken(cancelled)
    /\ tts' = [tts EXCEPT !.can = TRUE, !.wpc = "done", !.quit = @ \/ ~TtsStopped(cancelled)]

RunTask(cancelled) ==
    /\ tts.wpc = "run"
    /\ \/ /\ ~TtsStopped(cancelled)
          /\ rem' = [rem EXCEPT !.run = TRUE] /\ tts' = [tts EXCEPT !.wpc = "await"]
       \/ WriterFails(cancelled) /\ UNCHANGED rem
    /\ UNCHANGED <<tin, tout>>

\* Nothing may be sent before task-started.
AwaitStarted(cancelled) ==
    /\ tts.wpc = "await"
    /\ \/ tts.started /\ tts' = [tts EXCEPT !.wpc = "text"]
       \/ TtsStopped(cancelled) /\ tts' = [tts EXCEPT !.wpc = "done"]
    /\ UNCHANGED <<tin, tout, rem>>

\* One queued text, with the nudge that flushes it.
ContinueTask(cancelled) ==
    /\ tts.wpc = "text" /\ tin.q # <<>>
    /\ tin' = [tin EXCEPT !.q = Tail(@)]
    /\ \/ /\ ~TtsStopped(cancelled)
          /\ rem' = [rem EXCEPT !.heard = Append(@, Head(tin.q))] /\ UNCHANGED tts
       \/ WriterFails(cancelled) /\ UNCHANGED rem
    /\ UNCHANGED tout

FinishTask(cancelled) ==
    /\ tts.wpc = "text" /\ tin.q = <<>> /\ tin.closed
    /\ \/ /\ ~TtsStopped(cancelled)
          /\ rem' = [rem EXCEPT !.finish = TRUE] /\ tts' = [tts EXCEPT !.wpc = "done"]
       \/ WriterFails(cancelled) /\ UNCHANGED rem
    /\ UNCHANGED <<tin, tout>>

(* ---- qwen: the reader -------------------------------------------------------- *)

TaskStarted ==
    /\ tts.kind = "qwen" /\ tts.pc = "read" /\ rem.run /\ ~tts.started
    /\ tts' = [tts EXCEPT !.started = TRUE]
    /\ UNCHANGED <<tin, tout, rem>>

AudioFrame ==
    /\ tts.kind = "qwen" /\ tts.pc = "read" /\ rem.heard # <<>>
    /\ Speak(Head(rem.heard))
    /\ rem' = [rem EXCEPT !.heard = Tail(@)]
    /\ UNCHANGED <<tts, tin>>

\* task-finished, task-failed, a lost connection or the end of the context.
ReaderEnds(cancelled) ==
    /\ tts.kind = "qwen" /\ tts.pc = "read"
    /\ \/ rem.finish /\ rem.heard = <<>> /\ Settle("ok", TRUE)
       \/ rem.faulty /\ Settle("error", TRUE)
       \/ TtsStopped(cancelled) /\ Settle("canceled", TRUE)

\* The idle timer of the reader, or of the speech body, cancels the stream.
TtsIdle ==
    /\ rem.silent /\ ~tts.quit
    /\ \/ tts.kind = "qwen" /\ tts.pc = "read"
       \/ tts.kind = "speech" /\ tts.pc \in {"body", "tail"}
    /\ tts' = [tts EXCEPT !.can = TRUE, !.quit = TRUE]
    /\ UNCHANGED <<tin, tout, rem>>

(* ---- openai realtime ---------------------------------------------------------- *)

\* A failure of rtStream.run: a cancelled context is the caller's.
RunFails(cancelled) ==
    \/ TtsStopped(cancelled) /\ Settle("canceled", FALSE)
    \/ rem.faulty /\ ~TtsStopped(cancelled) /\ Settle("error", FALSE)

Connect(cancelled) ==
    /\ tts.kind = "realtime" /\ tts.pc = "connect"
    /\ \/ ~TtsStopped(cancelled) /\ tts' = [tts EXCEPT !.pc = "next"] /\ UNCHANGED <<tin, tout, rem>>
       \/ RunFails(cancelled)

\* run's loop: the next segment, the end of the text, or the end of the context.
NextSegment(cancelled) ==
    /\ tts.kind = "realtime" /\ tts.pc = "next"
    /\ \/ /\ tin.q # <<>>
          /\ tts' = [tts EXCEPT !.pc = "speak", !.text = Head(tin.q)]
          /\ tin' = [tin EXCEPT !.q = Tail(@)]
          /\ UNCHANGED <<tout, rem>>
       \/ tin.q = <<>> /\ tin.closed /\ Settle("ok", FALSE)
       \/ TtsStopped(cancelled) /\ Settle("canceled", FALSE)

\* speak: the audio of one segment, then its response.done.
SpeakSegment(cancelled) ==
    /\ tts.kind = "realtime" /\ tts.pc \in {"speak", "spoken"}
    /\ \/ tts.pc = "speak" /\ Speak(tts.text) /\ tts' = [tts EXCEPT !.pc = "spoken"] /\ UNCHANGED <<tin, rem>>
       \/ tts.pc = "spoken" /\ tts' = [tts EXCEPT !.pc = "next"] /\ UNCHANGED <<tin, tout, rem>>
       \/ RunFails(cancelled)

(* ---- openai speech -------------------------------------------------------------- *)

\* fetch: the request, the audio of the body, its end.
Fetch(cancelled) ==
    /\ tts.kind = "speech" /\ tts.pc \in {"post", "body", "tail"}
    /\ \/ tts.pc = "post" /\ ~TtsStopped(cancelled) /\ tts' = [tts EXCEPT !.pc = "body"] /\ UNCHANGED <<tin, tout, rem>>
       \/ tts.pc = "body" /\ Speak(Head(tin.q)) /\ tts' = [tts EXCEPT !.pc = "tail"] /\ UNCHANGED <<tin, rem>>
       \/ tts.pc = "tail" /\ Settle("ok", FALSE)
       \/ RunFails(cancelled)

TtsStep(cancelled) ==
    \/ RunTask(cancelled) \/ AwaitStarted(cancelled) \/ ContinueTask(cancelled) \/ FinishTask(cancelled)
    \/ TaskStarted \/ AudioFrame \/ ReaderEnds(cancelled)
    \/ Connect(cancelled) \/ NextSegment(cancelled) \/ SpeakSegment(cancelled)
    \/ Fetch(cancelled)

=============================================================================
