------------------------------- MODULE Session -------------------------------
(***************************************************************************)
(* The session actor of internal/session: one goroutine that owns the      *)
(* conversation, the input buffer, the turn manager, the active response   *)
(* and three timers, and that reacts to client commands, audio frames,     *)
(* recognizer events, pipeline events and timer expiry.                    *)
(*                                                                         *)
(* Actor state is one record s with the fields of the Session struct.      *)
(* Every Go method that changes it is an operator from such a record to    *)
(* the next one, so that a handler which calls another (commit, then       *)
(* createResponse, then startPipeline) is their composition, and a whole   *)
(* handler is one action.                                                  *)
(*                                                                         *)
(* emit blocks the actor until the event is taken or the session context   *)
(* is cancelled.  A handler therefore leaves the events it emits in        *)
(* s.out, in order; Emit hands them over one at a time, and the next       *)
(* handler starts only when s.out is empty.  A cancel issued by the        *)
(* handler itself (fatal, CmdClose) is a "cancel" marker in s.out, so it   *)
(* takes effect at its place among the events.                             *)
(***************************************************************************)
EXTENDS Integers, Sequences, Maps, TurnManager

CONSTANTS
  TurnDetections,  \* turn_detection values a session starts with or is updated to
  Commands,        \* the kinds of client command issued
  Voices,          \* TTS voices, for the session and for response overrides
  Modalities,      \* is the output text only? values the session and overrides use
  Partials,        \* texts of recognizer partials
  Finals,          \* <<text, endsSentence(text)>> of recognizer finals
  Faults,          \* faults of the outside world that may happen
  BufferMax,       \* input_audio_buffer_max_ms, in audio frames
  KeepFrames,      \* the window trimIdle keeps: prefix padding + one VAD frame
  RespQueue,       \* capacity of respEvents
  MaxFrames,       \* bound: audio frames the client sends
  MaxCommands,     \* bound: commands the client sends
  MaxVadBatch,     \* bound: VAD events reported for one audio frame
  MaxDeltas        \* bound: text chunks of one generation

Texts == {"", " ", "words"}

\* "ctx"      the session context is cancelled from outside (disconnect, session
\*            timeout, shutdown, input queue overflow);
\* "asr"      PushAudio, Finalize or the recognizer stream fails;
\* "llm"      the LLM stream fails;
\* "tts"      the TTS stream fails;
\* "canceled" a TTS stream ends with context.Canceled although the response's own
\*            context is alive (an idle watchdog that cancels the stream's context).
FaultKinds == {"ctx", "asr", "llm", "tts", "canceled"}

CommandKinds == {"update", "commit", "clear", "item", "delete", "create", "cancel", "close"}

ASSUME SessionAssumption ==
  /\ TurnDetections \subseteq TurnDetection
  /\ Commands \subseteq CommandKinds
  /\ Voices # {}
  /\ Modalities \subseteq BOOLEAN
  /\ Partials \subseteq Texts
  /\ Finals \subseteq Texts \X BOOLEAN
  /\ Faults \subseteq FaultKinds
  /\ BufferMax \in Nat /\ KeepFrames \in Nat /\ 0 < KeepFrames /\ KeepFrames <= BufferMax
  /\ RespQueue \in Nat /\ RespQueue > 0
  /\ MaxFrames \in Nat /\ MaxCommands \in Nat /\ MaxVadBatch \in Nat /\ MaxDeltas \in Nat

VARIABLES
  s,           \* the actor's own state
  ctx,         \* session context: "open", or cancelled: "late", "done" (see Handle)
  phase,       \* "run", "cleanup" (waiting for the pipelines), "closed"
  respEvents,  \* the channel from the pipelines to the actor
  view,        \* what the consumer of Events() has been told so far
  sent         \* audio frames and commands the client has sent (bounds the model)

vars == <<s, ctx, phase, respEvents, view, sent>>
-----------------------------------------------------------------------------
(***************************************************************************)
(* Data                                                                    *)
(***************************************************************************)
ItemKinds == {"user_audio", "client", "message", "tool_call", "tool_output"}
ItemStatuses == {"in_progress", "completed", "incomplete"}
FinalStatuses == {"completed", "cancelled", "incomplete", "failed"}

\* Only a user_audio item's text and a tool_output's call are told apart.
Item(kind, status, text, call) == [kind |-> kind, status |-> status, text |-> text, call |-> call]

\* An outbound event, and the marker of a cancel in between events.
Ev(type, resp, item, info) == [type |-> type, resp |-> resp, item |-> item, info |-> info]
Error == Ev("error", 0, 0, "")
CancelMark == Ev("cancel", 0, 0, "")

\* The response FSM record; ref 0 is "no active response".
NoResponse ==
  [ref |-> 0, awaiting |-> FALSE, gen |-> 0, item |-> 0, toolItem |-> 0, dependsOn |-> 0,
   textOnly |-> FALSE, voice |-> CHOOSE v \in Voices : TRUE,
   spoke |-> FALSE, llmDone |-> FALSE, ttsDone |-> FALSE, finish |-> ""]

\* One pipeline's goroutines: the LLM stage (with the sentencer) and the TTS stage.
Pipe(resp, textOnly) ==
  [resp |-> resp, llm |-> "run", tts |-> IF textOnly THEN "end" ELSE "run",
   deltas |-> 0, audio |-> 0, called |-> FALSE, cancelled |-> FALSE]

\* joinTranscript on the classes of text the code tells apart.
JoinTranscript(acc, text) ==
  IF text = "" THEN acc
  ELSE IF acc = "" THEN text
  ELSE IF acc = " " /\ text = " " THEN " " ELSE "words"

Blank(text) == text \in {"", " "}   \* strings.TrimSpace(text) == ""

Emits(st, evs) == [st EXCEPT !.out = @ \o evs]

\* conversation.append: a new ref, and the item under it.
AppendItem(st, it) ==
  [st EXCEPT !.nextRef = @ + 1, !.items = Put(@, st.nextRef + 1, it)]

\* fatal: the error event, then the cancel.
Fatal(st) == Emits(st, <<Error, CancelMark>>)
-----------------------------------------------------------------------------
(***************************************************************************)
(* Responses                                                               *)
(***************************************************************************)

\* startPipeline: a new generation, and the three goroutines of the response.
\* (Mutant: the generation is not advanced, so the last response's events pass.)
StartPipelineSameGen(st) ==
  [st EXCEPT !.active.awaiting = FALSE, !.active.gen = st.activeGen,
             !.pipes = Put(@, st.activeGen, Pipe(st.active.ref, st.active.textOnly))]
StartPipeline(st) ==
  LET g == st.activeGen + 1
  IN  [st EXCEPT !.active.awaiting = FALSE, !.active.gen = g, !.activeGen = g,
                 !.pipes = Put(@, g, Pipe(st.active.ref, st.active.textOnly))]

\* asr_final_timeout of an awaiting response.  (Mutant: it is never started.)
ArmASRWaitNever(st) == st
ArmASRWait(st) == [st EXCEPT !.asrWait = TRUE]

\* (Mutant: the expired or obsolete timer stays armed.)
StopASRWaitNever(st) == st
StopASRWait(st) == [st EXCEPT !.asrWait = FALSE]

\* createResponseAt once the overrides are accepted.  The response waits for the
\* pending transcript, if there is one, under the asr_final_timeout.
CreateAccepted(st, voice, textOnly) ==
  LET waits == st.pendingItem # 0 /\ st.items[st.pendingItem].status # "completed"
      r == [NoResponse EXCEPT !.ref = st.nextResp + 1, !.awaiting = TRUE, !.voice = voice,
                              !.textOnly = textOnly,
                              !.dependsOn = IF waits THEN st.pendingItem ELSE 0]
      created == Emits([st EXCEPT !.nextResp = @ + 1, !.active = r,
                                  !.turn = StepResponseStarted(@)],
                       <<Ev("response.created", r.ref, 0, "")>>)
  IN  IF waits THEN ArmASRWait(created) ELSE StartPipeline(created)

\* createResponseAt: the voice is locked once audio was emitted.
CreateResponse(st, voice, textOnly) ==
  IF voice # st.voice /\ st.audioEmitted THEN Emits(st, <<Error>>)
  ELSE CreateAccepted(st, voice, textOnly)

\* r.cancel().  (Mutant: the goroutines keep running.)
CancelPipelineNever(st) == st
CancelPipeline(st) ==
  [st EXCEPT !.pipes = [g \in DOMAIN @ |-> IF g = st.active.gen
                                           THEN [@[g] EXCEPT !.cancelled = TRUE] ELSE @[g]]]

HasOutputItem(st) == st.active.item \in DOMAIN st.items

\* The message item is completed or incomplete.  (Mutant: it stays in progress.)
CloseOutputItemNever(st, status) == st
CloseOutputItem(st, status) ==
  IF ~HasOutputItem(st) THEN st
  ELSE [st EXCEPT !.items[st.active.item].status =
          IF status = "completed" THEN "completed" ELSE "incomplete"]

\* The events finish emits, in order.  (Mutants: response.done first; the output
\* item never done.)
TerminalEventsDoneFirst(st, status) ==
  <<Ev("response.done", st.active.ref, 0, status)>>
    \o (IF ~HasOutputItem(st) THEN <<>>
         ELSE <<Ev("output_item.done", st.active.ref, st.active.item, "")>>)
TerminalEventsNoItem(st, status) == <<Ev("response.done", st.active.ref, 0, status)>>
TerminalEvents(st, status) ==
  (IF ~HasOutputItem(st) THEN <<>>
   ELSE <<Ev("content.done", st.active.ref, st.active.item, ""),
          Ev("output_item.done", st.active.ref, st.active.item, "")>>)
    \o <<Ev("response.done", st.active.ref, 0, status)>>

\* finish (with interrupt and the response part of cleanup): cancel the pipeline,
\* close the message item, tell the client, forget the response.
Finish(st, status) ==
  IF st.active.ref = 0 THEN st
  ELSE Emits([CloseOutputItem(StopASRWait(CancelPipeline(st)), status) EXCEPT
                !.active = NoResponse, !.turn = StepResponseEnded(@), !.activeGen = @ + 1],
             TerminalEvents(st, status))

FailResponse(st) == Finish(Emits(st, <<Error>>), "failed")

\* response.done() and outcome().  ttsDone stands for ttsDone and audioFlushed,
\* which the code sets together.
Done(r) == r.llmDone /\ (r.textOnly \/ ~r.spoke \/ r.ttsDone)

MaybeComplete(st) ==
  IF ~Done(st.active) THEN st
  ELSE Finish(st, IF st.active.finish = "length" THEN "incomplete" ELSE "completed")
-----------------------------------------------------------------------------
(***************************************************************************)
(* Deferred trigger and end-of-turn timer                                  *)
(***************************************************************************)
\* (Mutant: only the timer is stopped.)
DropDeferredTimer(st) == [st EXCEPT !.deferWait = FALSE]
DropDeferredTrigger(st) == [st EXCEPT !.deferWait = FALSE, !.deferItem = 0]

DeferTrigger(st) ==
  IF st.pendingItem = 0 THEN st
  ELSE [st EXCEPT !.deferWait = TRUE, !.deferItem = st.pendingItem]

\* An auto-created response uses no overrides.
AutoCreate(st) == CreateResponse(st, st.voice, st.textOnly)

\* resolveDeferredTrigger: the transcript of ref is final.
ResolveDeferredTrigger(st, ref, text) ==
  IF st.deferItem = 0 \/ st.deferItem # ref THEN st
  ELSE LET dropped == DropDeferredTrigger(st)
       IN  IF Blank(text) \/ st.active.ref # 0 THEN dropped ELSE AutoCreate(dropped)

DisarmEndOfTurn(st) == [st EXCEPT !.eot = FALSE]
-----------------------------------------------------------------------------
(***************************************************************************)
(* Committing a turn                                                       *)
(***************************************************************************)
\* buffer.clear.  (Mutant: the speech segment stays marked.)
ClearBufferKeepsMark(st) == [st EXCEPT !.buf = 0]
ClearBuffer(st) == [st EXCEPT !.buf = 0, !.seg = FALSE]

\* The item a commit creates: the one announced at speech start, or a new one.
CommitRef(st) == IF st.speechItem # 0 THEN st.speechItem ELSE st.nextRef + 1

\* (Mutant: the announced item stays reserved after the commit.)
ReleaseSpeechItemNever(st) == st
ReleaseSpeechItem(st) == [st EXCEPT !.speechItem = 0]

\* commit up to and including the conversation.item.added event.
CommitItem(st) ==
  LET ref == CommitRef(st)
      it  == Item("user_audio", "in_progress", st.acc, 0)
  IN  Emits([ReleaseSpeechItem(ClearBuffer(st)) EXCEPT
               !.det = FALSE,
               !.nextRef = IF st.speechItem # 0 THEN @ ELSE @ + 1,
               !.items = Put(@, ref, it),
               !.pendingItem = ref],
            <<Ev("committed", 0, ref, ""), Ev("item.added", 0, ref, "")>>)

\* (Mutant: only the timer that follows a Final is armed.)
ArmTimersAfterFinal(st, d) == IF "ArmEndOfTurnTimer" \in d THEN [st EXCEPT !.eot = TRUE] ELSE st
ArmTimers(st, d) ==
  IF d \cap {"ArmEndOfTurnTimer", "ArmFinalWaitTimer"} # {} THEN [st EXCEPT !.eot = TRUE] ELSE st

\* apply: timers, commit (with Finalize, which fails when asrOk is false), then
\* the trigger, which is evaluated whether or not the commit succeeded.
Apply(st, d, asrOk) ==
  LET armed == ArmTimers(st, d)
      committed ==
        IF "Commit" \notin d THEN armed
        ELSE IF armed.buf = 0 THEN Emits(armed, <<Error>>)
        ELSE IF ~asrOk THEN Fatal(CommitItem(armed))
        ELSE IF "DeferTrigger" \in d THEN DeferTrigger(CommitItem(armed))
        ELSE CommitItem(armed)
  IN  IF "Trigger" \in d /\ committed.active.ref = 0 THEN AutoCreate(committed) ELSE committed

\* The turn manager takes res.turn and the actor executes res.d.
Decide(st, res, asrOk) == Apply([st EXCEPT !.turn = res.turn], res.d, asrOk)
-----------------------------------------------------------------------------
(***************************************************************************)
(* Recognizer events                                                       *)
(***************************************************************************)

\* completePendingItem: the first Final (or EndOfTurn) after a commit.
CompletePendingItem(st, text) ==
  LET ref  == st.pendingItem
      done == Emits([st EXCEPT !.pendingItem = 0, !.acc = "",
                               !.items[ref].text = text, !.items[ref].status = "completed"],
                    <<Ev("item.done", 0, ref, "")>>)
      released == IF done.active.ref # 0 /\ done.active.awaiting /\ done.active.dependsOn = ref
                  THEN StartPipeline(StopASRWait(done)) ELSE done
  IN  ResolveDeferredTrigger(released, ref, text)

OnPartial(st, text) == [st EXCEPT !.partial = text]

OnFinal(st, text, terminal, asrOk) ==
  LET heard == [st EXCEPT !.partial = ""]
      taken == IF st.pendingItem # 0
               THEN CompletePendingItem(heard, JoinTranscript(st.acc, text))
               ELSE [heard EXCEPT !.acc = JoinTranscript(st.acc, text)]
  IN  Decide(taken, StepFinal(taken.turn, terminal), asrOk)

OnEndOfTurn(st, asrOk) ==
  LET taken == IF st.pendingItem # 0 THEN CompletePendingItem(st, st.acc) ELSE st
  IN  Decide(taken, StepEndOfTurn(taken.turn), asrOk)

\* handleTranscriptTimeout: asr_final_timeout of an awaiting response.  (Mutant: the
\* response starts although nothing was heard.)
OnTranscriptTimeoutBlind(st) ==
  LET fired == [st EXCEPT !.asrWait = FALSE]
  IN  IF st.active.ref = 0 \/ ~st.active.awaiting THEN fired ELSE StartPipeline(fired)
OnTranscriptTimeout(st) ==
  LET fired == [st EXCEPT !.asrWait = FALSE]
      best  == JoinTranscript(st.acc, st.partial)
      told  == IF st.pendingItem = 0 THEN fired
               ELSE [fired EXCEPT !.items[st.pendingItem].text = best]
  IN  IF st.active.ref = 0 \/ ~st.active.awaiting THEN fired
      ELSE IF best = "" THEN FailResponse(fired)
      ELSE StartPipeline(told)

\* handleDeferredTimeout: asr_final_timeout of a deferred trigger.
OnDeferredTimeout(st) ==
  LET ref  == st.deferItem
      best == JoinTranscript(st.acc, st.partial)
      dropped == DropDeferredTrigger(st)
      created == AutoCreate([dropped EXCEPT !.items[ref].text = best])
  IN  IF ref = 0 \/ st.pendingItem # ref \/ Blank(best) \/ st.active.ref # 0 THEN dropped
      ELSE IF created.active.ref # 0 /\ created.active.awaiting
           THEN StartPipeline(StopASRWait(created))
      ELSE created
-----------------------------------------------------------------------------
(***************************************************************************)
(* Client commands                                                         *)
(***************************************************************************)

\* applyTurnDetection: the manager and the detector are rebuilt, the input
\* buffer is left alone.
ApplyTurnDetection(st, td) ==
  [DisarmEndOfTurn(st) EXCEPT
     !.turn = [NewTurnManager(td) EXCEPT !.responseActive = st.turn.responseActive],
     !.det = FALSE, !.speechItem = 0]

\* updateSession: a patch with voice, output modalities and, when hasTD, turn
\* detection.  A locked voice rejects the whole patch.
UpdateSession(st, hasTD, td, voice, textOnly) ==
  LET updated == [st EXCEPT !.voice = voice, !.textOnly = textOnly]
  IN  IF voice # st.voice /\ st.audioEmitted THEN Emits(st, <<Error>>)
      ELSE Emits(IF hasTD THEN ApplyTurnDetection(updated, td) ELSE updated,
                 <<Ev("session.updated", 0, 0, "")>>)

ClearAudio(st) ==
  Emits([DisarmEndOfTurn(ClearBuffer(st)) EXCEPT !.det = FALSE, !.turn = ResetTurn(@),
                                                 !.speechItem = 0],
        <<Ev("cleared", 0, 0, "")>>)

Answered(st, call) ==
  \E i \in DOMAIN st.items : st.items[i].kind = "tool_output" /\ st.items[i].call = call

\* createItem: a tool output must answer an existing, unanswered call; the ref is
\* allocated before the previous item is looked up.  call 0 is a text item, prev 0
\* appends.
CreateItem(st, call, prev) ==
  LET callOk == \/ call = 0
                \/ /\ call \in DOMAIN st.items
                   /\ st.items[call].kind = "tool_call"
                   /\ ~Answered(st, call)
      ref == st.nextRef + 1
      it  == Item(IF call = 0 THEN "client" ELSE "tool_output", "completed", "words", call)
  IN  IF ~callOk THEN Emits(st, <<Error>>)
      ELSE IF prev # 0 /\ prev \notin DOMAIN st.items
           THEN Emits([st EXCEPT !.nextRef = ref], <<Error>>)
      ELSE Emits(AppendItem(st, it),
                 <<Ev("item.added", 0, ref, ""), Ev("item.done", 0, ref, "")>>)

\* (Mutant: the deleted item keeps waiting for its transcript.)
DeleteItemKeepsPending(st, ref) ==
  IF ref \notin DOMAIN st.items \/ (st.active.ref # 0 /\ st.active.item = ref)
  THEN Emits(st, <<Error>>)
  ELSE Emits([st EXCEPT !.items = Remove(@, ref)], <<Ev("item.deleted", 0, ref, "")>>)
DeleteItem(st, ref) ==
  IF \/ st.active.ref # 0 /\ st.active.item = ref
     \/ ref \notin DOMAIN st.items
  THEN Emits(st, <<Error>>)
  ELSE Emits([st EXCEPT !.items = Remove(@, ref),
                        !.pendingItem = IF @ = ref THEN 0 ELSE @],
             <<Ev("item.deleted", 0, ref, "")>>)

\* (Mutant: a response in progress is overwritten.)
CmdCreateResponseAnyway(st, voice, textOnly) == CreateResponse(st, voice, textOnly)
CmdCreateResponse(st, voice, textOnly) ==
  IF st.active.ref # 0 THEN Emits(st, <<Error>>) ELSE CreateResponse(st, voice, textOnly)

CmdCancelResponse(st, resp) ==
  IF st.active.ref = 0 \/ (resp # 0 /\ resp # st.active.ref) THEN Emits(st, <<Error>>)
  ELSE Finish(st, "cancelled")
-----------------------------------------------------------------------------
(***************************************************************************)
(* Audio                                                                   *)
(***************************************************************************)
TrimIdle(st) == IF st.seg \/ st.buf <= KeepFrames THEN st ELSE [st EXCEPT !.buf = KeepFrames]

\* The n events detector.Process returns for one frame: starts and ends alternate.
VadBatch(det, n) == [i \in 1..n |-> IF (i % 2 = 1) = det THEN "end" ELSE "start"]

\* handleAudio up to the loop over the VAD events.
OnAudio(st, n, asrOk) ==
  LET kept == [st EXCEPT !.buf = @ + 1]
      heard == [kept EXCEPT !.vadq = VadBatch(st.det, n), !.det = IF n % 2 = 1 THEN ~@ ELSE @]
  IN  IF st.buf + 1 > BufferMax THEN Fatal(st)
      ELSE IF ~asrOk THEN Fatal(kept)
      ELSE IF ~VadEnabled(st.turn) THEN kept
      ELSE IF n = 0 THEN TrimIdle(heard) ELSE heard

\* The decision at a speech start has nothing for apply to execute.
OnSpeechStart(st) ==
  LET res == StepSpeechStart(st.turn)
      ref == IF st.speechItem # 0 THEN st.speechItem ELSE st.nextRef + 1
      marked == Emits([DisarmEndOfTurn(st) EXCEPT
                         !.speechItem = ref, !.seg = TRUE, !.turn = res.turn,
                         !.nextRef = IF st.speechItem # 0 THEN @ ELSE ref],
                      <<Ev("speech_started", 0, ref, "")>>)
      cut == IF "Interrupt" \in res.d THEN Finish(marked, "cancelled") ELSE marked
  IN  IF cut.turn.interruptResponse THEN DropDeferredTrigger(cut) ELSE cut

OnSpeechEnd(st, asrOk) ==
  LET res == StepSpeechEnd(st.turn)
      told == IF "EmitSpeechStopped" \in res.d
              THEN Emits(st, <<Ev("speech_stopped", 0, st.speechItem, "")>>) ELSE st
  IN  Decide(told, res, asrOk)

\* One round of the loop over the VAD events, and trimIdle after the last one.
OnVadEvent(st, asrOk) ==
  LET rest == [st EXCEPT !.vadq = Tail(@)]
      done == IF Head(st.vadq) = "start" THEN OnSpeechStart(rest) ELSE OnSpeechEnd(rest, asrOk)
  IN  IF Len(st.vadq) = 1 THEN TrimIdle(done) ELSE done
-----------------------------------------------------------------------------
(***************************************************************************)
(* Pipeline events                                                         *)
(***************************************************************************)
PipeEv(kind, gen, resp, finish) == [kind |-> kind, gen |-> gen, resp |-> resp, finish |-> finish]

\* ensureOutputItem.  (Mutant: the item is not announced.)
EnsureOutputItemSilent(st) ==
  IF st.active.item \in DOMAIN st.items THEN st
  ELSE [AppendItem(st, Item("message", "in_progress", "words", 0)) EXCEPT
          !.active.item = st.nextRef + 1]
EnsureOutputItem(st) ==
  LET ref == st.nextRef + 1
  IN  IF st.active.item \in DOMAIN st.items THEN st
      ELSE Emits([AppendItem(st, Item("message", "in_progress", "words", 0)) EXCEPT
                    !.active.item = ref],
                 <<Ev("output_item.added", st.active.ref, ref, "")>>)

DeliverToolCall(st) ==
  LET ref == st.nextRef + 1
      r == st.active.ref
  IN  IF st.active.toolItem # 0 THEN st
      ELSE Emits([AppendItem(st, Item("tool_call", "completed", "words", 0)) EXCEPT
                    !.active.toolItem = ref],
                 <<Ev("output_item.added", r, ref, ""), Ev("arguments.done", r, ref, ""),
                   Ev("output_item.done", r, ref, "")>>)

\* The filter at the head of handleResponseEvent.  (Mutant: generations are not
\* compared.)
StaleAnyGeneration(st, e) == st.active.ref = 0 \/ st.active.awaiting
Stale(st, e) == st.active.ref = 0 \/ st.active.awaiting \/ e.gen # st.activeGen

OnResponseEvent(st, e) ==
  LET out == EnsureOutputItem(st)
      r == st.active.ref
  IN  CASE Stale(st, e) -> st
        [] ~Stale(st, e) /\ e.kind = "text" ->
             Emits([out EXCEPT !.active.spoke = TRUE], <<Ev("delta", r, out.active.item, "")>>)
        [] ~Stale(st, e) /\ e.kind = "audio" ->
             Emits([out EXCEPT !.audioEmitted = TRUE],
                   <<Ev("audio.delta", r, out.active.item, st.active.voice)>>)
        [] ~Stale(st, e) /\ e.kind = "tool" -> DeliverToolCall(st)
        [] ~Stale(st, e) /\ e.kind = "llmDone" ->
             MaybeComplete([st EXCEPT !.active.llmDone = TRUE, !.active.finish = e.finish])
        [] ~Stale(st, e) /\ e.kind = "ttsDone" ->
             MaybeComplete([st EXCEPT !.active.ttsDone = TRUE])
        [] ~Stale(st, e) /\ e.kind = "error" -> FailResponse(st)
-----------------------------------------------------------------------------
(***************************************************************************)
(* The actor loop.  It checks the context, then selects.  A cancelled      *)
(* context can still lose the select to one other ready case, and a        *)
(* command whose earlier audio frames were drained first (drainAudioBefore *)
(* and its mirror image) is handled even if one of them ended the session. *)
(* So after a cancel one more handler may run: ctx is "late" until it did, *)
(* then "done".  Which handler is left open, which allows more than the    *)
(* code does.  (Inbound counts up to two inputs handled after a cancel;    *)
(* the first of them passed its check of the context before the cancel,    *)
(* and is here a handler that started before it.)                          *)
(***************************************************************************)
Idle == phase = "run" /\ s.out = <<>> /\ s.vadq = <<>>

Handle(t) ==
  /\ Idle
  /\ ctx # "done"
  /\ s' = t
  /\ ctx' = IF ctx = "late" THEN "done" ELSE ctx
  /\ UNCHANGED <<phase, view>>

AsrOutcomes == IF "asr" \in Faults THEN BOOLEAN ELSE {TRUE}

Command(kind, t) ==
  /\ kind \in Commands
  /\ sent.commands < MaxCommands
  /\ sent' = [sent EXCEPT !.commands = @ + 1]
  /\ Handle(t)
  /\ UNCHANGED respEvents

HandleUpdate == \E hasTD \in BOOLEAN, td \in TurnDetections, v \in Voices, m \in Modalities :
                  Command("update", UpdateSession(s, hasTD, td, v, m))
HandleCommit == \E ok \in AsrOutcomes : Command("commit", Decide(s, StepClientCommit(s.turn), ok))
HandleClear  == Command("clear", ClearAudio(s))
HandleItem   == \E call \in {0} \cup DOMAIN s.items, prev \in 0..s.nextRef :
                  Command("item", CreateItem(s, call, prev))
HandleDelete == \E ref \in 1..s.nextRef : Command("delete", DeleteItem(s, ref))
HandleCreate == \E v \in Voices, m \in Modalities : Command("create", CmdCreateResponse(s, v, m))
HandleCancel == \E r \in 0..s.nextResp : Command("cancel", CmdCancelResponse(s, r))
HandleClose  == Command("close", Emits(s, <<CancelMark>>))

HandleAudio ==
  /\ sent.frames < MaxFrames
  /\ sent' = [sent EXCEPT !.frames = @ + 1]
  /\ \E n \in 0..(IF VadEnabled(s.turn) THEN MaxVadBatch ELSE 0), ok \in AsrOutcomes :
       Handle(OnAudio(s, n, ok))
  /\ UNCHANGED respEvents

\* The loop over a frame's VAD events runs to its end even when ctx is cancelled.
VadEvent ==
  /\ phase = "run" /\ s.out = <<>> /\ s.vadq # <<>>
  /\ \E ok \in AsrOutcomes : s' = OnVadEvent(s, ok)
  /\ UNCHANGED <<ctx, phase, respEvents, view, sent>>

HandleASR ==
  /\ \/ \E text \in Partials : Handle(OnPartial(s, text))
     \/ \E f \in Finals, ok \in AsrOutcomes : Handle(OnFinal(s, f[1], f[2], ok))
     \/ \E ok \in AsrOutcomes : Handle(OnEndOfTurn(s, ok))
     \/ "asr" \in Faults /\ Handle(Fatal(s))
  /\ UNCHANGED <<respEvents, sent>>

HandleResponseEvent ==
  /\ respEvents # <<>>
  /\ Handle(OnResponseEvent(s, Head(respEvents)))
  /\ respEvents' = Tail(respEvents)
  /\ UNCHANGED sent

TranscriptTimeout == s.asrWait /\ Handle(OnTranscriptTimeout(s)) /\ UNCHANGED <<respEvents, sent>>

EndOfTurnTimer ==
  /\ s.eot
  /\ \E ok \in AsrOutcomes : Handle(Decide([s EXCEPT !.eot = FALSE], StepEndOfTurn(s.turn), ok))
  /\ UNCHANGED <<respEvents, sent>>

DeferredTimeout == s.deferWait /\ Handle(OnDeferredTimeout(s)) /\ UNCHANGED <<respEvents, sent>>
-----------------------------------------------------------------------------
(***************************************************************************)
(* Emission.  The consumer's view keeps the status of each response, the   *)
(* lifecycle of each item, the response an output item belongs to and the  *)
(* voices heard.                                                           *)
(***************************************************************************)
Told(v, e) ==
  CASE e.type = "response.created" -> [v EXCEPT !.resp = Put(@, e.resp, "in_progress")]
    [] e.type = "response.done"    -> [v EXCEPT !.resp = Put(@, e.resp, e.info)]
    [] e.type = "item.added"       -> [v EXCEPT !.item = Put(@, e.item, "added")]
    [] e.type = "output_item.added" -> [v EXCEPT !.item = Put(@, e.item, "added"),
                                                 !.owner = Put(@, e.item, e.resp)]
    [] e.type \in {"item.done", "output_item.done"} -> [v EXCEPT !.item = Put(@, e.item, "done")]
    [] e.type = "item.deleted"     -> [v EXCEPT !.item = Put(@, e.item, "deleted")]
    [] e.type = "audio.delta"      -> [v EXCEPT !.voices = @ \cup {e.info}]
    [] OTHER -> v

Pop == s' = [s EXCEPT !.out = Tail(@)] /\ UNCHANGED <<phase, respEvents, sent>>

Deliver ==
  /\ s.out # <<>> /\ Head(s.out) # CancelMark
  /\ Pop
  /\ view' = Told(view, Head(s.out))
  /\ UNCHANGED ctx

\* emit returns without delivering once the context is cancelled.
Drop ==
  /\ s.out # <<>> /\ Head(s.out) # CancelMark
  /\ ctx # "open"
  /\ Pop
  /\ UNCHANGED <<view, ctx>>

CancelSelf ==
  /\ s.out # <<>> /\ Head(s.out) = CancelMark
  /\ Pop
  /\ ctx' = IF ctx = "open" THEN "late" ELSE ctx
  /\ UNCHANGED view

CancelOutside ==
  /\ "ctx" \in Faults
  /\ ctx = "open" /\ phase = "run"
  /\ ctx' = "late"
  /\ UNCHANGED <<s, phase, respEvents, view, sent>>

\* cleanup: the active response is cancelled, the timers stop, ...
StopTimers(st) == DropDeferredTrigger(DisarmEndOfTurn(StopASRWait(st)))

Cleanup ==
  /\ Idle /\ ctx # "open"
  /\ s' = StopTimers(Finish(s, "cancelled"))
  /\ phase' = "cleanup"
  /\ ctx' = "done"
  /\ UNCHANGED <<respEvents, view, sent>>

\* ... and the event stream closes once every pipeline goroutine is gone.
CloseEvents ==
  /\ phase = "cleanup" /\ s.out = <<>> /\ DOMAIN s.pipes = {}
  /\ phase' = "closed"
  /\ UNCHANGED <<s, ctx, respEvents, view, sent>>

Closed == phase = "closed" /\ UNCHANGED vars
-----------------------------------------------------------------------------
(***************************************************************************)
(* The pipelines, as the actor sees them: goroutines that send into        *)
(* respEvents.  send selects between the channel and ctx.Done, so a        *)
(* cancelled pipeline may still deliver, or may give up at any send.       *)
(***************************************************************************)
\* (Mutant: send and the stages do not watch the context.)
PipeCancelledUnseen(g) == FALSE
PipeCancelled(g) == s.pipes[g].cancelled \/ ctx # "open"

\* Goroutines that have both returned are gone.
Ended(p) == p.llm = "end" /\ p.tts = "end"

PipeStep(g, p) ==
  /\ s' = [s EXCEPT !.pipes = IF Ended(p) THEN Remove(@, g) ELSE Put(@, g, p)]
  /\ UNCHANGED <<ctx, phase, view, sent>>

Send(g, kind, finish) ==
  /\ Len(respEvents) < RespQueue
  /\ respEvents' = Append(respEvents, PipeEv(kind, g, s.pipes[g].resp, finish))

\* llmStage
LLMStage(g) ==
  LET p == s.pipes[g]
      end == [p EXCEPT !.llm = "end"]
  IN  /\ p.llm = "run"
      /\ \/ /\ p.deltas < MaxDeltas
            /\ Send(g, "text", "")
            /\ PipeStep(g, [p EXCEPT !.deltas = @ + 1])
         \/ ~p.called /\ Send(g, "tool", "") /\ PipeStep(g, [p EXCEPT !.called = TRUE])
         \/ \E finish \in {"stop", "length"} : Send(g, "llmDone", finish) /\ PipeStep(g, end)
         \/ "llm" \in Faults /\ Send(g, "error", "") /\ PipeStep(g, end)
         \/ PipeCancelled(g) /\ PipeStep(g, end) /\ UNCHANGED respEvents

\* sentencerStage and ttsStage: audio follows text, and the end of the sentences
\* follows the end of the LLM stage.  fail() swallows context.Canceled.
TTSStage(g) ==
  LET p == s.pipes[g]
      end == [p EXCEPT !.tts = "end"]
  IN  /\ p.tts = "run"
      /\ \/ /\ p.audio < p.deltas
            /\ Send(g, "audio", "")
            /\ PipeStep(g, [p EXCEPT !.audio = @ + 1])
         \/ p.llm = "end" /\ Send(g, "ttsDone", "") /\ PipeStep(g, end)
         \/ "tts" \in Faults /\ Send(g, "error", "") /\ PipeStep(g, end)
         \/ /\ PipeCancelled(g) \/ "canceled" \in Faults
            /\ PipeStep(g, end)
            /\ UNCHANGED respEvents

\* The actor neither reads respEvents nor looks at a pipeline while it emits, so a
\* goroutine's step during a handler has the same effect as the same step after it:
\* only the latter is modelled.
PipelineStep ==
  /\ s.out = <<>> /\ s.vadq = <<>>
  /\ \E g \in DOMAIN s.pipes : LLMStage(g) \/ TTSStage(g)
-----------------------------------------------------------------------------
InitSession(td, voice, textOnly) ==
  [turn |-> NewTurnManager(td), voice |-> voice, textOnly |-> textOnly,
   items |-> <<>>, nextRef |-> 0, buf |-> 0, seg |-> FALSE, det |-> FALSE, vadq |-> <<>>,
   speechItem |-> 0, pendingItem |-> 0, acc |-> "", partial |-> "",
   active |-> NoResponse, activeGen |-> 0, nextResp |-> 0, audioEmitted |-> FALSE,
   asrWait |-> FALSE, eot |-> FALSE, deferWait |-> FALSE, deferItem |-> 0,
   pipes |-> <<>>, out |-> <<>>]

Init ==
  /\ s \in {InitSession(td, v, m) : td \in TurnDetections, v \in Voices, m \in Modalities}
  /\ ctx = "open"
  /\ phase = "run"
  /\ respEvents = <<>>
  /\ view = [resp |-> <<>>, item |-> <<>>, owner |-> <<>>, voices |-> {}]
  /\ sent = [frames |-> 0, commands |-> 0]

Handlers ==
  \/ HandleUpdate \/ HandleCommit \/ HandleClear \/ HandleItem \/ HandleDelete
  \/ HandleCreate \/ HandleCancel \/ HandleClose
  \/ HandleAudio \/ VadEvent \/ HandleASR \/ HandleResponseEvent
  \/ TranscriptTimeout \/ EndOfTurnTimer \/ DeferredTimeout

Next ==
  \/ Handlers
  \/ Deliver \/ Drop \/ CancelSelf \/ CancelOutside \/ Cleanup \/ CloseEvents \/ Closed
  \/ PipelineStep

Spec == Init /\ [][Next]_vars

(***************************************************************************)
(* Fairness.  The consumer takes every event or the session is cancelled   *)
(* (the server disconnects a client that stalls).  Go's select picks among *)
(* the ready cases at random, so a case that keeps being ready is taken:   *)
(* strong fairness for each of them.  Goroutines run, and providers answer *)
(* or fail.                                                                *)
(***************************************************************************)
Fairness ==
  /\ WF_vars(Deliver) /\ WF_vars(CancelSelf) /\ WF_vars(VadEvent)
  /\ SF_vars(HandleResponseEvent) /\ SF_vars(TranscriptTimeout)
  /\ SF_vars(EndOfTurnTimer) /\ SF_vars(DeferredTimeout)
  /\ WF_vars(Cleanup) /\ WF_vars(CloseEvents)
  /\ WF_vars(PipelineStep)

FairSpec == Spec /\ Fairness
-----------------------------------------------------------------------------
(***************************************************************************)
(* Properties                                                              *)
(***************************************************************************)
Items == [kind : ItemKinds, status : ItemStatuses, text : Texts, call : Nat]
Responses == [ref : Nat, awaiting : BOOLEAN, gen : Nat, item : Nat, toolItem : Nat,
              dependsOn : Nat, textOnly : BOOLEAN, voice : Voices, spoke : BOOLEAN,
              llmDone : BOOLEAN, ttsDone : BOOLEAN, finish : {"", "stop", "length"}]
Pipes == [resp : Nat, llm : {"run", "end"}, tts : {"run", "end"}, deltas : Nat, audio : Nat,
          called : BOOLEAN, cancelled : BOOLEAN]
EventTypes == {"response.created", "response.done", "item.added", "item.done", "item.deleted",
               "output_item.added", "output_item.done", "content.done", "arguments.done",
               "delta", "audio.delta", "committed", "cleared", "speech_started",
               "speech_stopped", "session.updated", "error", "cancel"}
Events == [type : EventTypes, resp : Nat, item : Nat, info : {""} \cup FinalStatuses \cup Voices]
PipeEvents == [kind : {"text", "audio", "tool", "llmDone", "ttsDone", "error"},
               gen : Nat, resp : Nat, finish : {"", "stop", "length"}]

\* The actor record; items and pipes are maps, typed separately.
SessionOK(st) ==
  /\ st \in [turn : Turn, voice : Voices, textOnly : BOOLEAN,
              items : {st.items}, nextRef : Nat, buf : Nat, seg : BOOLEAN, det : BOOLEAN,
              vadq : Seq({"start", "end"}), speechItem : Nat, pendingItem : Nat,
              acc : Texts, partial : Texts, active : Responses, activeGen : Nat,
              nextResp : Nat, audioEmitted : BOOLEAN, asrWait : BOOLEAN, eot : BOOLEAN,
              deferWait : BOOLEAN, deferItem : Nat, pipes : {st.pipes}, out : Seq(Events)]
  /\ st.items \in [DOMAIN st.items -> Items] /\ DOMAIN st.items \subseteq 1..st.nextRef
  /\ st.speechItem <= st.nextRef
  /\ st.pipes \in [DOMAIN st.pipes -> Pipes] /\ DOMAIN st.pipes \subseteq 1..st.activeGen

\* Type correctness of the whole state, with every allocated ref and generation in
\* range.
TypeOK ==
  /\ SessionOK(s)
  /\ ctx \in {"open", "late", "done"}
  /\ phase \in {"run", "cleanup", "closed"}
  /\ respEvents \in Seq(PipeEvents)
  /\ sent \in [frames : Nat, commands : Nat]

\* A response is active for the turn manager exactly while the actor holds one, and
\* it waits for a transcript exactly while asr_final_timeout is armed; so no response
\* waits forever and barge-in never misses one.
Bookkeeping(st) ==
  /\ st.turn.responseActive <=> st.active.ref # 0
  /\ st.active.awaiting <=> st.asrWait
  /\ st.active.awaiting => st.active.ref # 0 /\ st.active.dependsOn # 0
  /\ st.active.ref # 0 /\ ~st.active.awaiting => st.active.gen = st.activeGen
ResponseBookkeeping == Bookkeeping(s)

\* A pipeline whose context is alive belongs to the active response: finish always
\* stops the goroutines of the response it ends.
OwnedPipes(st) ==
  \A g \in DOMAIN st.pipes :
    ~st.pipes[g].cancelled => /\ st.active.ref # 0 /\ ~st.active.awaiting
                              /\ g = st.active.gen /\ st.pipes[g].resp = st.active.ref
NoOrphanPipeline == OwnedPipes(s)

\* An event that passes the generation filter was produced for the active response.
AcceptedIsCurrent ==
  \A i \in DOMAIN respEvents :
    ~Stale(s, respEvents[i]) => respEvents[i].resp = s.active.ref

\* The inductive invariant behind the four properties above.  A generation is used for
\* one response only: the pipeline and the queued events that carry the current
\* generation are those of the response that is running now, and no event carries a
\* generation not yet reached.
Running(st) == st.active.ref # 0 /\ ~st.active.awaiting
CurrentPipe(st) ==
  Running(st) /\ st.activeGen \in DOMAIN st.pipes => st.pipes[st.activeGen].resp = st.active.ref
Good(st) == SessionOK(st) /\ Bookkeeping(st) /\ OwnedPipes(st) /\ CurrentPipe(st)
EventsCurrent ==
  \A i \in DOMAIN respEvents :
    /\ respEvents[i].gen <= s.activeGen
    /\ Running(s) /\ respEvents[i].gen = s.activeGen => respEvents[i].resp = s.active.ref
IInv == TypeOK /\ Good(s) /\ EventsCurrent

\* While the actor runs, a turn that ended acoustically has an armed timer to end it,
\* and a deferred trigger exists exactly while its timer is armed.
WaitsAreTimed ==
  phase = "run" => /\ s.turn.pendingEOT => s.eot
                   /\ s.deferItem # 0 <=> s.deferWait

\* The item awaiting its transcript is a user audio item of the conversation still in
\* progress (it was not deleted and not yet completed).
PendingIsOpen(st) ==
  st.pendingItem # 0 => /\ st.pendingItem \in DOMAIN st.items
                        /\ st.items[st.pendingItem].kind = "user_audio"
                        /\ st.items[st.pendingItem].status = "in_progress"
PendingItemOpen == PendingIsOpen(s)

\* A message item is in progress only as the output item of the active response.
OutputItemOwned ==
  \A i \in DOMAIN s.items :
    s.items[i].kind = "message" /\ s.items[i].status = "in_progress" => s.active.item = i

\* A turn in progress has its item ref reserved, and that ref is not in use.
SpeechItemReserved ==
  /\ s.turn.speaking \/ s.turn.pendingEOT => s.speechItem # 0
  /\ s.speechItem \notin DOMAIN s.items

\* The buffer keeps a speech mark, and is not trimmed, only for a turn whose item was
\* announced and is still to be committed: one being spoken, one waiting for its end, or
\* one whose commit found the buffer empty (when one audio chunk holds several turns, the
\* commit of the first takes all of it).
MarkOfAnnouncedTurn == s.seg => s.speechItem # 0

\* Barge-in wins: with interrupt_response on, no response is in progress while the user
\* speaks, neither one that was running or awaiting nor one still deferred.  (The
\* client may still ask for one: commands are off in the runs that check this.)
BargeInWins ==
  s.turn.speaking /\ s.turn.interruptResponse => s.active.ref = 0 /\ s.deferItem = 0

\* A response that awaits its turn's transcript starts only once that item is complete,
\* or when asr_final_timeout expires with something heard.
StartsWithTranscript ==
  [][s.active.awaiting /\ s'.active.ref = s.active.ref /\ ~s'.active.awaiting
       => \/ /\ s.active.dependsOn \in DOMAIN s'.items
             /\ s'.items[s.active.dependsOn].status = "completed"
          \/ JoinTranscript(s.acc, s.partial) # ""]_vars

\* When the actor is idle and nothing was lost, the client has been told exactly the
\* actor's state: the response in progress, and every item's lifecycle.
ClientInStep ==
  Idle /\ ctx = "open" =>
    /\ \A r \in 1..s.nextResp : r \in DOMAIN view.resp
    /\ {r \in DOMAIN view.resp : view.resp[r] = "in_progress"} = {s.active.ref} \ {0}
    /\ \A i \in DOMAIN s.items :
         i \in DOMAIN view.item /\ (view.item[i] = "done" <=> s.items[i].status # "in_progress")
    /\ \A i \in DOMAIN view.item : i \notin DOMAIN s.items => view.item[i] = "deleted"

\* The lifecycle contract with the client, as refinement.
Contract == INSTANCE ClientContract WITH resp <- view.resp, item <- view.item,
                                         owner <- view.owner, lossy <- ctx # "open"
ContractSpec == Contract!Spec

\* A delta reaches the client only while its response is in progress and its item is
\* open, however late the pipeline sent it.
DeltaDelivered ==
  /\ s.out # <<>> /\ s'.out = Tail(s.out)
  /\ Head(s.out).type \in {"delta", "audio.delta", "arguments.done"}
DeltasInOrder ==
  [][DeltaDelivered /\ ctx = "open" =>
       LET e == Head(s.out)
       IN  /\ e.resp \in DOMAIN view.resp /\ view.resp[e.resp] = "in_progress"
           /\ e.item \in DOMAIN view.item /\ view.item[e.item] = "added"
           /\ view.owner[e.item] = e.resp]_vars

\* response.done always follows response.created, unless the session is closed first.
ResponseEnds == 
  \A r \in 1..MaxFrames * MaxVadBatch + MaxCommands : (s.active.ref = r) ~> (s.active.ref # r)

\* A turn that ended acoustically is eventually committed or given up.
TurnEnds == s.turn.pendingEOT ~> (~s.turn.pendingEOT \/ phase # "run")

\* A cancelled session closes its event stream.
SessionCloses == (ctx # "open") ~> (phase = "closed")

\* One voice per session once audio was produced.
OneVoice == \A v, w \in view.voices : v = w
=============================================================================
