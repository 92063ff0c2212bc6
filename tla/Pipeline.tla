------------------------------ MODULE Pipeline ------------------------------
(***************************************************************************)
(* session/pipeline.go: the goroutines that produce one response.          *)
(*                                                                         *)
(*   LLM stream --lout--> llmStage --chunks--> sentencerStage --sentences--*)
(*     --> ttsStage (or its text goroutine) --tin--> TTS stream --tout-->  *)
(*         ttsStage's drain                                                *)
(*                                                                         *)
(* llmStage and ttsStage report to the actor.  The actor is one step: it   *)
(* takes every report at once (it always comes back to its queue, see      *)
(* Session), and ends the response's context when the response is over.    *)
(* A report made once the context is done may or may not get through.      *)
(***************************************************************************)
EXTENDS Sentencer, LlmStream, TtsStream, SequencesExt

CONSTANTS
    ChunkCap, SentenceCap,  \* textChunkQueue, sentenceQueue
    Scenarios               \* what the services do, and whether the client cancels

\* The lines of an LLM stream (see LlmStream), and what may be asked of one response.
Lines ==
    [k : {"text"}, text : Seq(Runes)] \cup [k : {"call"}, index : Nat, last : BOOLEAN]
      \cup [k : {"finish"}, reason : FinishReasons]
      \cup [k : {"[DONE]", "eof", "cut", "bad", "refused", "stall"}]
Requests ==
    [tts : {"none", "qwen", "realtime", "speech"}, script : Seq(Lines),
     faulty : BOOLEAN, silent : BOOLEAN, stalls : BOOLEAN, cancels : BOOLEAN]

ASSUME PipelineAssumption ==
    /\ {ChunkCap, SentenceCap, ChunkQueue, TextQueue, AudioQueue} \subseteq Nat \ {0}
    /\ NoFinish \notin FinishReasons
    /\ Scenarios \subseteq Requests
    /\ \A req \in Scenarios : req.script # <<>> /\ CallsComplete(req.script)

VARIABLES
    sc,           \* the scenario
    cancelled,    \* p.ctx is done
    aborted,      \* ... because the client or a barge-in cancelled the response
    lstage,       \* llmStage: pc, and the text it has yet to pass on
    chunks, sentences,      \* the two channels; a sentence is its number in emitted
    sstage,       \* sentencerStage: pc, its sentencer, the sentences it has yet to pass on
    tstage,       \* ttsStage: pc and the chunk or sentence in hand
    wstage,       \* ttsIncremental's text goroutine: pc, text, err (writeErr)
    emitted,      \* the sentences that were passed on, in order
    told          \* what the actor was told

stageVars == <<lstage, chunks, sentences, sstage, tstage, wstage, emitted>>
vars == <<sc, cancelled, aborted, told, stageVars, llmVars, ttsVars>>

Incremental == sc.tts \in {"qwen", "realtime"}   \* Capabilities().IncrementalText
TextOnly == sc.tts = "none"

Init ==
    /\ sc \in Scenarios
    /\ cancelled = FALSE /\ aborted = FALSE
    /\ LlmInit(sc.script) /\ TtsInit(sc.tts, sc.faulty, sc.silent)
    /\ lstage = [pc |-> "recv", text |-> <<>>]
    /\ chunks = OpenChan /\ sentences = OpenChan /\ emitted = <<>>
    /\ sstage = [pc |-> "run", st |-> NewSentencer, pend |-> <<>>, flushed |-> FALSE]
    /\ tstage = [pc |-> IF TextOnly THEN "discard" ELSE IF Incremental THEN "dial" ELSE "next", hand |-> NoText]
    /\ wstage = [pc |-> "off", text |-> NoText, err |-> NoText]
    /\ told = [text |-> <<>>, calls |-> <<>>, audio |-> <<>>, llmDone |-> FALSE, ttsDone |-> FALSE, err |-> FALSE]

(* ---- reports -------------------------------------------------------------- *)

\* fail: a cancellation is not a failure, and is not reported.
Failed(why) ==
    \/ why # "canceled" /\ told' = [told EXCEPT !.err = TRUE]
    \/ (why = "canceled" \/ cancelled) /\ UNCHANGED told

(* ---- llmStage -------------------------------------------------------------- *)

LlmStageEnds == lstage' = [lstage EXCEPT !.pc = "done"] /\ chunks' = [chunks EXCEPT !.closed = TRUE]
LlmStageFrame == UNCHANGED <<sc, cancelled, aborted, sentences, sstage, tstage, wstage, emitted>>

\* A chunk of the LLM stream is reported to the actor.
LlmChunk ==
    /\ lstage.pc = "recv" /\ lout.q # <<>>
    /\ lout' = [lout EXCEPT !.q = Tail(@)]
    /\ LET c == Head(lout.q) IN
       \/ /\ c.kind = "text" /\ told' = [told EXCEPT !.text = @ \o c.text]
          /\ lstage' = [pc |-> "pass", text |-> c.text] /\ UNCHANGED chunks
       \/ /\ c.kind = "call" /\ told' = [told EXCEPT !.calls = Append(@, c.call)]
          /\ UNCHANGED <<lstage, chunks>>
       \/ c.kind = "done" /\ told' = [told EXCEPT !.llmDone = TRUE] /\ LlmStageEnds
       \/ c.kind = "error" /\ Failed(c.why) /\ LlmStageEnds
       \/ c.kind # "error" /\ cancelled /\ UNCHANGED told /\ LlmStageEnds
    /\ UNCHANGED llm /\ UNCHANGED ttsVars /\ LlmStageFrame

\* The text goes on to the sentencer, once there is room.
PassText ==
    /\ lstage.pc = "pass"
    /\ \/ /\ Len(chunks.q) < ChunkCap
          /\ chunks' = [chunks EXCEPT !.q = Append(@, lstage.text)]
          /\ lstage' = [pc |-> "recv", text |-> <<>>]
       \/ cancelled /\ LlmStageEnds
    /\ UNCHANGED told /\ UNCHANGED llmVars /\ UNCHANGED ttsVars /\ LlmStageFrame

\* The mutation that takes a stream that just ends for a finished one.
LlmClosedQuietly ==
    /\ lstage.pc = "recv" /\ lout.q = <<>> /\ lout.closed
    /\ UNCHANGED told /\ LlmStageEnds
    /\ UNCHANGED llmVars /\ UNCHANGED ttsVars /\ LlmStageFrame

\* The stream was closed without a Done chunk: a failure of the provider.
LlmClosed ==
    /\ lstage.pc = "recv" /\ lout.q = <<>> /\ lout.closed
    /\ Failed("no done") /\ LlmStageEnds
    /\ UNCHANGED llmVars /\ UNCHANGED ttsVars /\ LlmStageFrame

(* ---- sentencerStage --------------------------------------------------------- *)

SentencerFrame ==
    UNCHANGED <<sc, cancelled, aborted, told, lstage, tstage, wstage>> /\ UNCHANGED llmVars /\ UNCHANGED ttsVars

SentencerEnds ==
    sstage' = [sstage EXCEPT !.pc = "done"] /\ sentences' = [sentences EXCEPT !.closed = TRUE]

\* push, with the chunk that has come.
SplitChunk ==
    /\ sstage.pc = "run" /\ sstage.pend = <<>> /\ chunks.q # <<>>
    /\ sstage' = [sstage EXCEPT !.pc = "split", !.st = Push(@, Head(chunks.q))]
    /\ chunks' = [chunks EXCEPT !.q = Tail(@)]
    /\ UNCHANGED <<sentences, emitted>> /\ SentencerFrame

\* One turn of push's loop: a sentence that is too short goes on past its boundary.
CutSentence ==
    /\ sstage.pc = "split"
    /\ \E b \in {FindBoundary(sstage.st)} :
          \/ ~b.found /\ sstage' = [sstage EXCEPT !.pc = "run", !.st.scan = b.scan]
          \/ b.found /\ b.scan < MinSentenceRunes /\ sstage' = [sstage EXCEPT !.st.scan = b.scan]
          \/ /\ b.found /\ b.scan >= MinSentenceRunes
             /\ LET t == Take(sstage.st, b.scan)
                IN sstage' = [sstage EXCEPT !.st = t.rest, !.pend = Append(@, t.sentence)]
    /\ UNCHANGED <<chunks, sentences, emitted>> /\ SentencerFrame

\* The mutation that waits for room whatever happens to the response.
EmitSentenceBlocking ==
    /\ sstage.pc = "run" /\ sstage.pend # <<>> /\ Len(sentences.q) < SentenceCap
    /\ sentences' = [sentences EXCEPT !.q = Append(@, Len(emitted) + 1)]
    /\ emitted' = Append(emitted, Head(sstage.pend))
    /\ sstage' = [sstage EXCEPT !.pend = Tail(@)]
    /\ UNCHANGED chunks /\ SentencerFrame

EmitSentence ==
    /\ sstage.pc = "run" /\ sstage.pend # <<>>
    /\ \/ /\ Len(sentences.q) < SentenceCap
          /\ sentences' = [sentences EXCEPT !.q = Append(@, Len(emitted) + 1)]
          /\ emitted' = Append(emitted, Head(sstage.pend))
          /\ sstage' = [sstage EXCEPT !.pend = Tail(@)]
       \/ cancelled /\ SentencerEnds /\ UNCHANGED emitted
    /\ UNCHANGED chunks /\ SentencerFrame

\* The text is over: what remains is the last sentence.
FlushRest ==
    /\ sstage.pc = "run" /\ sstage.pend = <<>> /\ chunks.q = <<>> /\ chunks.closed
    /\ IF sstage.flushed THEN SentencerEnds
       ELSE /\ sstage' = [sstage EXCEPT !.pend = Flush(sstage.st), !.flushed = TRUE]
            /\ UNCHANGED sentences
    /\ UNCHANGED <<chunks, emitted>> /\ SentencerFrame

(* ---- ttsStage ---------------------------------------------------------------- *)

TtsFrame ==
    UNCHANGED <<sc, cancelled, aborted, lstage, chunks, sstage, emitted>> /\ UNCHANGED llmVars
TGoto(l) == tstage' = [tstage EXCEPT !.pc = l]

TakeSentence == sentences.q # <<>> /\ sentences' = [sentences EXCEPT !.q = Tail(@)]
SentencesOver == sentences.q = <<>> /\ sentences.closed

\* A text-only response: the sentences are thrown away.
Discard ==
    /\ tstage.pc = "discard"
    /\ \/ TakeSentence /\ UNCHANGED tstage
       \/ SentencesOver /\ TGoto("done") /\ UNCHANGED sentences
    /\ UNCHANGED <<told, wstage>> /\ UNCHANGED ttsVars /\ TtsFrame

\* ttsIncremental: pipeTTSStart, Synthesize, and the text goroutine.  Qwen
\* dials in Synthesize, which may fail.
Dial ==
    /\ tstage.pc = "dial"
    /\ \/ /\ Synthesize /\ TGoto("drain") /\ wstage' = [wstage EXCEPT !.pc = "recv"]
          /\ UNCHANGED told
       \/ /\ sc.tts = "qwen" /\ (rem.faulty \/ cancelled)
          /\ Failed(IF cancelled THEN "canceled" ELSE "error") /\ TGoto("done")
          /\ UNCHANGED wstage /\ UNCHANGED ttsVars
       \/ cancelled /\ TGoto("done") /\ UNCHANGED <<told, wstage>> /\ UNCHANGED ttsVars
    /\ UNCHANGED sentences /\ TtsFrame

\* The text goroutine takes a sentence; a blank one is not spoken.
TextTake ==
    /\ wstage.pc = "recv" /\ TakeSentence
    /\ wstage' = IF Blank(emitted[Head(sentences.q)]) THEN wstage
                 ELSE [wstage EXCEPT !.pc = "write", !.text = Head(sentences.q)]
    /\ UNCHANGED <<told, tstage>> /\ UNCHANGED ttsVars /\ TtsFrame

TextWrite ==
    /\ wstage.pc = "write"
    /\ \/ WriteText(cancelled, wstage.text) /\ wstage' = [wstage EXCEPT !.pc = "recv"]
       \/ \E why \in WriteErrors(cancelled) :
             wstage' = [wstage EXCEPT !.pc = "done", !.err = why] /\ UNCHANGED ttsVars
    /\ UNCHANGED <<told, sentences, tstage>> /\ TtsFrame

TextEnd ==
    /\ wstage.pc = "recv" /\ SentencesOver
    /\ EndInput /\ wstage' = [wstage EXCEPT !.pc = "done", !.err = "ok"]
    /\ UNCHANGED <<told, sentences, tstage>> /\ TtsFrame

\* drain: audio goes to the actor; a report that fails ends the stage.
Drain ==
    /\ tstage.pc = "drain" /\ ReadChunk
    /\ \/ told' = [told EXCEPT !.audio = Append(@, Head(tout.q))] /\ UNCHANGED tstage
       \/ cancelled /\ TGoto("close") /\ UNCHANGED told
    /\ UNCHANGED <<sentences, wstage>> /\ TtsFrame

\* drain: the stream is over.
DrainEnds ==
    /\ tstage.pc = "drain"
    /\ \E o \in ReadOutcomes(cancelled) :
          IF o = "ok" THEN TGoto(IF Incremental THEN "join" ELSE "segment") /\ UNCHANGED told
          ELSE Failed(o) /\ TGoto("close")
    /\ UNCHANGED <<sentences, wstage>> /\ UNCHANGED ttsVars /\ TtsFrame

\* ttsIncremental waits for the text goroutine and reports the end.
Join ==
    /\ tstage.pc = "join" /\ wstage.err # NoText
    /\ IF wstage.err = "ok"
         THEN told' = [told EXCEPT !.ttsDone = TRUE] \/ (cancelled /\ UNCHANGED told)
         ELSE Failed(wstage.err)
    /\ TGoto("close")
    /\ UNCHANGED <<sentences, wstage>> /\ UNCHANGED ttsVars /\ TtsFrame

\* The deferred stream.Close.
StageCloses ==
    /\ tstage.pc = "close" /\ CloseStream /\ TGoto("done")
    /\ UNCHANGED <<told, sentences, wstage>> /\ TtsFrame

\* ttsPerSentence: a blank sentence is a segment of no audio; another one gets
\* a stream of its own (synthesizeOne), which only buffers its text.
NextSentence ==
    /\ tstage.pc = "next"
    /\ \/ /\ TakeSentence
          /\ tstage' = [pc |-> IF Blank(emitted[Head(sentences.q)]) THEN "segment" ELSE "synthesize",
                        hand |-> Head(sentences.q)]
          /\ UNCHANGED told
       \/ /\ SentencesOver /\ TGoto("done") /\ UNCHANGED sentences
          /\ \/ told' = [told EXCEPT !.ttsDone = TRUE]
             \/ cancelled /\ UNCHANGED told
    /\ UNCHANGED wstage /\ UNCHANGED ttsVars /\ TtsFrame

\* pipeTTSStart (before the first sentence), then the request for one sentence.
SynthesizeOne ==
    /\ tstage.pc = "synthesize"
    /\ \/ /\ tts' = [NewStream(tts.kind) EXCEPT !.ended = TRUE, !.pc = "post"]
          /\ tin' = [q |-> <<tstage.hand>>, closed |-> TRUE] /\ tout' = OpenChan /\ UNCHANGED rem
          /\ TGoto("drain")
       \/ cancelled /\ TGoto("done") /\ UNCHANGED ttsVars
    /\ UNCHANGED <<told, sentences, wstage>> /\ TtsFrame

\* The stream is closed and the segment reported.
Segment ==
    /\ tstage.pc = "segment" /\ CloseStream
    /\ TGoto("next") \/ (cancelled /\ TGoto("done"))
    /\ UNCHANGED <<told, sentences, wstage>> /\ TtsFrame

(* ---- the actor ---------------------------------------------------------------- *)

Over == told.err \/ (told.llmDone /\ (TextOnly \/ told.ttsDone))

\* The actor finishes the response and cancels its context.
Finish ==
    /\ Over /\ ~cancelled /\ cancelled' = TRUE
    /\ UNCHANGED <<sc, aborted, told, stageVars, llmVars, ttsVars>>

\* response.cancel, a barge-in or the end of the session.
Cancel ==
    /\ sc.cancels /\ ~cancelled
    /\ cancelled' = TRUE /\ aborted' = TRUE
    /\ UNCHANGED <<sc, told, stageVars, llmVars, ttsVars>>

(* ---- the services ------------------------------------------------------------- *)

RestOfLlm == UNCHANGED <<sc, cancelled, aborted, told, stageVars>> /\ UNCHANGED ttsVars
RestOfTts == UNCHANGED <<sc, cancelled, aborted, told, stageVars>> /\ UNCHANGED llmVars

LlmGoes == LlmStep(cancelled) /\ RestOfLlm
LlmStalls == sc.stalls /\ LlmWatchdog /\ RestOfLlm
TtsGoes == TtsStep(cancelled) /\ RestOfTts
TtsStalls == TtsIdle /\ RestOfTts

LlmStageStep == LlmChunk \/ PassText \/ LlmClosed
SentencerStep == SplitChunk \/ CutSentence \/ EmitSentence \/ FlushRest
TextStep == TextTake \/ TextWrite \/ TextEnd
TtsStageStep ==
    \/ Discard \/ Dial \/ Drain \/ DrainEnds \/ Join \/ StageCloses
    \/ NextSentence \/ SynthesizeOne \/ Segment

Next ==
    \/ LlmGoes \/ LlmStalls \/ TtsGoes \/ TtsStalls
    \/ LlmStageStep \/ SentencerStep \/ TextStep \/ TtsStageStep
    \/ Finish \/ Cancel

Stalled == llm.script # <<>> /\ Head(llm.script).k = "stall"

\* Goroutines that can go on do, the services answer, and a timer that is not
\* reset expires.
Fairness ==
    /\ WF_vars(LlmGoes) /\ WF_vars(LlmStalls /\ Stalled)
    /\ WF_vars(TtsGoes)
    /\ WF_vars(LlmStageStep) /\ WF_vars(SentencerStep) /\ WF_vars(TextStep) /\ WF_vars(TtsStageStep)
    /\ WF_vars(Finish)

Spec == Init /\ [][Next]_vars /\ Fairness

(* ---- properties ---------------------------------------------------------------- *)

\* The numbers in q are those of the sentences of sns after lo, up to hi, that
\* have something to say, in order and each once.
Speaks(q, sns, lo, hi) ==
    /\ \A j, k \in 1..Len(q) : j < k => q[j] < q[k]
    /\ \A k \in 1..Len(q) : q[k] \in (lo + 1)..hi /\ ~Blank(sns[q[k]])
    /\ \A n \in (lo + 1)..hi : Blank(sns[n]) \/ \E k \in 1..Len(q) : q[k] = n

(* The audio follows the text: whichever provider speaks and however the      *)
(* stages are interleaved, the actor gets the audio of the sentences in their *)
(* order, each once and none left out before another, and the end of the      *)
(* audio only after all of it.                                                *)
AudioFollowsText ==
    /\ \E n \in 0..Len(emitted) : Speaks(told.audio, emitted, 0, n)
    /\ told.ttsDone => sentences.closed /\ Speaks(told.audio, emitted, 0, Len(emitted))

(* The sentences tile the text the client is shown: nothing is lost, spoken   *)
(* twice or out of place, only the last may be shorter than the minimum, and  *)
(* where the stream of deltas happened to be cut makes no difference (but for *)
(* a CJK terminator, which does not wait for a closing quote).                *)
SentencesTile ==
    /\ \A k \in 1..Len(emitted) :
          /\ emitted[k].start = IF k = 1 THEN 0 ELSE emitted[k - 1].end
          /\ emitted[k].text = SubSeq(told.text, emitted[k].start + 1, emitted[k].end)
          /\ k < Len(emitted) => Len(emitted[k].text) >= MinSentenceRunes
    /\ sstage.pc = "done" /\ ~cancelled =>
          /\ told.text # <<>> => emitted # <<>> /\ Last(emitted).end = Len(told.text)
          /\ ~Contains(told.text, "cjk") => Whole(told.text, emitted)

\* The stream ended cleanly without a finish reason.
Unfinished == llm.finish = NoFinish /\ \E k \in 1..Len(sc.script) : sc.script[k].k = "eof"

(* "So the session never sees a partial call": a call is reported only when   *)
(* all of its fragments have arrived, and at most one.  The exception is a    *)
(* stream that ends without [DONE] and without a finish reason, which counts  *)
(* as complete whatever it was in the middle of.                              *)
CallsWhole ==
    /\ Len(told.calls) <= 1
    /\ \A k \in 1..Len(told.calls) : told.calls[k].whole \/ Unfinished

(* A response that is not cancelled ends: the actor is told of its completion *)
(* or of a failure, whatever the services do, except when a TTS stream        *)
(* cancels itself (the idle timer of a Qwen or speech stream, Qwen's writer): *)
(* fail takes that for a cancellation of the response.                        *)
EndsTold == <>(Over \/ aborted \/ tts.quit)

\* Qwen's writer, left behind when a text was refused: nobody will end its input.
WriterLeft == tts.wpc = "text" /\ tin.q = <<>> /\ ~tin.closed /\ wstage.pc = "done"

(* Cancellation reclaims the goroutines: once the response's context is done, *)
(* the stages, the LLM stream and the TTS stream all end, whatever they were  *)
(* waiting for; only Qwen's text writer may be left, if a text was refused.   *)
Reclaimed ==
    cancelled ~> /\ llm.pc = "closed" /\ lstage.pc = "done" /\ sstage.pc = "done" /\ tstage.pc = "done"
                 /\ wstage.pc \in {"off", "done"} /\ tts.pc \in {"off", "closed"}
                 /\ (tts.wpc \in {"off", "done"} \/ WriterLeft)

=============================================================================
