---------------------------- MODULE TurnManager ----------------------------
(***************************************************************************)
(* The pure turn-taking state machine of internal/session/turn.go: no      *)
(* goroutines, no timers, no conversation.  Each operator Step... is one   *)
(* case of TurnManager.Step and returns the manager's next state together  *)
(* with the decision the session actor must execute.                       *)
(*                                                                         *)
(* The eight Boolean fields of TurnDecision are the set of the flags that  *)
(* are true, so "Commit" \in d reads d.Commit.                             *)
(***************************************************************************)

Modes == {"manual", "server_vad", "semantic_vad"}

\* turn_detection settings; mode "manual" is a nil turn_detection, which
\* leaves both switches false.
TurnDetection == [mode : Modes, createResponse : BOOLEAN, interruptResponse : BOOLEAN]

Turn == [mode : Modes, createResponse : BOOLEAN, interruptResponse : BOOLEAN,
         responseActive : BOOLEAN, speaking : BOOLEAN, pendingEOT : BOOLEAN,
         finalPending : BOOLEAN, finalTerminal : BOOLEAN]

Flags == {"EmitSpeechStarted", "EmitSpeechStopped", "Interrupt", "Commit", "Trigger",
          "DeferTrigger", "ArmEndOfTurnTimer", "ArmFinalWaitTimer"}

Result(t, d) == [turn |-> t, d |-> d]

\* newTurnManager: nil turn_detection keeps the zero value, both switches off.
NewTurnManager(td) ==
  [mode |-> td.mode,
   createResponse    |-> td.mode # "manual" /\ td.createResponse,
   interruptResponse |-> td.mode # "manual" /\ td.interruptResponse,
   responseActive |-> FALSE, speaking |-> FALSE, pendingEOT |-> FALSE,
   finalPending |-> FALSE, finalTerminal |-> FALSE]

VadEnabled(t) == t.mode # "manual"

ResetTurn(t) == [t EXCEPT !.speaking = FALSE, !.pendingEOT = FALSE, !.finalPending = FALSE]

EndTurn(t, d) ==
  Result(ResetTurn(t),
         d \cup {"Commit"}
           \cup (IF ~t.createResponse THEN {}
                 ELSE IF t.mode = "semantic_vad" THEN {"DeferTrigger"} ELSE {"Trigger"}))

Judge(t, terminal, d) ==
  IF terminal THEN EndTurn(t, d) ELSE Result(t, d \cup {"ArmEndOfTurnTimer"})

\* (Mutant: the manager is not told of the response.)
StepResponseStartedUnseen(t) == t
StepResponseStarted(t) == [t EXCEPT !.responseActive = TRUE]

StepResponseEnded(t) == [t EXCEPT !.responseActive = FALSE]

StepClientCommit(t) == Result(ResetTurn(t), {"Commit"})

StepSpeechStart(t) ==
  IF t.mode = "manual" THEN Result(t, {})
  ELSE Result([t EXCEPT !.speaking = TRUE, !.pendingEOT = FALSE, !.finalPending = FALSE],
              {"EmitSpeechStarted"}
                \cup (IF t.interruptResponse /\ t.responseActive THEN {"Interrupt"} ELSE {}))

StepSpeechEnd(t) ==
  LET stopped == [t EXCEPT !.speaking = FALSE]
      waiting == [stopped EXCEPT !.pendingEOT = TRUE]
  IN  CASE t.mode = "manual" \/ ~t.speaking -> Result(t, {})
        [] t.mode = "server_vad" /\ t.speaking -> EndTurn(stopped, {"EmitSpeechStopped"})
        [] t.mode = "semantic_vad" /\ t.speaking ->
             IF t.finalPending
             THEN Judge([waiting EXCEPT !.finalPending = FALSE], t.finalTerminal,
                        {"EmitSpeechStopped"})
             ELSE Result(waiting, {"EmitSpeechStopped", "ArmFinalWaitTimer"})

\* terminal is endsSentence(in.Text).
StepFinal(t, terminal) ==
  IF t.mode # "semantic_vad" THEN Result(t, {})
  ELSE IF t.pendingEOT THEN Judge(t, terminal, {})
  ELSE IF t.speaking THEN Result([t EXCEPT !.finalPending = TRUE, !.finalTerminal = terminal], {})
  ELSE Result(t, {})

StepEndOfTurn(t) ==
  IF t.mode = "semantic_vad" /\ t.pendingEOT THEN EndTurn(t, {}) ELSE Result(t, {})
=============================================================================
