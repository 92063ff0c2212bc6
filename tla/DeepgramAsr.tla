----------------------------- MODULE DeepgramAsr -----------------------------
(***************************************************************************)
(* provider/deepgram/deepgram.go: one long recognition.  Finalize is a     *)
(* control message and a timer whose callback runs in a goroutine of its   *)
(* own; only finalizeTimer, under the mutex, tells the two apart.  The     *)
(* KeepAlive message has no effect on what is modelled.                    *)
(***************************************************************************)
EXTENDS AsrStream

VARIABLE
    timers      \* cur (finalizeTimer), live (set and not yet expired), fired and emitting (callbacks), made

dgVars == <<timers>>

DeepgramInit == timers = [cur |-> Nobody, live |-> {}, fired |-> 0, emitting |-> 0, made |-> 0]

\* Finalize: the timer is replaced under the mutex.
SetTimer ==
    timers' = [timers EXCEPT !.made = @ + 1, !.cur = timers.made + 1,
                             !.live = (@ \ {timers.cur}) \cup {timers.made + 1}]

\* finalizeSatisfied, and what Close does to the timer.
StopTimer == timers' = [timers EXCEPT !.cur = Nobody, !.live = @ \ {timers.cur}]

(* ---- the timer's goroutine --------------------------------------------------------- *)

TimerExpires ==
    /\ \E t \in timers.live : timers' = [timers EXCEPT !.live = @ \ {t}, !.fired = @ + 1]
    /\ UNCHANGED <<kind, ctx, caller, in, ctl, events, net, writer, reader, crashed>>

\* finalizeTimedOut: whichever timer is set is forgotten, then the turn is ended.
FinalizeTimedOut ==
    /\ \/ /\ timers.fired > 0
          /\ timers' = [timers EXCEPT !.fired = @ - 1, !.emitting = @ + 1, !.cur = Nobody]
          /\ UNCHANGED <<events, crashed>>
       \/ /\ timers.emitting > 0
          /\ timers' = [timers EXCEPT !.emitting = @ - 1]
          /\ \/ EmitQueued(Event("eot")) /\ UNCHANGED crashed
             \/ EmitDropped /\ UNCHANGED crashed
             \/ EmitPanics
    /\ UNCHANGED <<kind, ctx, caller, in, ctl, net, writer, reader>>

(* ---- writer and reader --------------------------------------------------------------- *)

\* Audio and control messages are taken in whatever order select picks.
DgWrites ==
    /\ kind = "deepgram" /\ writer.pc # "done"
    /\ \/ ctx /\ WriterEnds /\ UNCHANGED <<in, ctl, net>>
       \/ /\ in # <<>> /\ in' = Tail(in)
          /\ WriteThen(Hear(net, <<Head(in)>>), writer) /\ UNCHANGED ctl
       \/ /\ ctl # <<>> /\ ctl' = Tail(ctl) /\ UNCHANGED in
          /\ IF Head(ctl) = "close" /\ CanWrite
               THEN /\ net' = Take(net, "close")
                    /\ writer' = [writer EXCEPT !.pc = "done", !.closeSent = TRUE] /\ ctx' = TRUE
               ELSE WriteThen(Take(net, Head(ctl)), writer)
    /\ UNCHANGED <<kind, caller, events, reader, crashed, timers>>

\* The mutation that has nothing to say when nothing was pending.
DgEventsOfText(m) ==
    IF m.k # "results" THEN <<EmitTodo(Event(IF m.k = "error" THEN "error" ELSE "eot"))>>
    ELSE IF m.text THEN <<EmitTodo(Event(IF m.final THEN "final" ELSE "partial"))>> ELSE <<>>

\* handle: what a message is turned into.
DgEvents(m) ==
    CASE m.k = "error" -> <<EmitTodo(Event("error"))>>
      [] m.k = "utteranceEnd" -> <<EmitTodo(Event("eot"))>>
      [] m.k = "results" /\ ~m.final -> <<EmitTodo(Event("partial"))>>
      [] m.k = "results" /\ m.final /\ m.text ->
            <<EmitTodo(Event("final"))>> \o (IF m.speech THEN <<EmitTodo(Event("eot"))>> ELSE <<>>)
      [] m.k = "results" /\ m.final /\ ~m.text ->
            IF m.from THEN <<EmitTodo(Event("eot"))>> ELSE <<>>

DgReads ==
    /\ kind = "deepgram" /\ ReadFrame
    /\ LET m == Head(net.down) IN
       /\ IF m.k = "results" /\ m.from THEN StopTimer ELSE UNCHANGED timers
       /\ Goes(DgEvents(m), FALSE)
    /\ UNCHANGED <<ctx, ctl, events>> /\ ReaderFrame

=============================================================================
