---------------------------- MODULE SessionProofs ----------------------------
(***************************************************************************)
(* Proofs about Session.  The theorems at the end hold for every value of  *)
(* the constants.  Each method of the actor is shown to keep Good, the     *)
(* part of the inductive invariant about the actor's own record, and to    *)
(* make Progress; methods compose by GoodTrans, so a handler is a chain of *)
(* such steps.                                                             *)
(***************************************************************************)
EXTENDS Session, TLAPS

(* The fields the response bookkeeping is about. *)
Same(st, u) ==
  /\ u.active.ref = st.active.ref
  /\ u.active.awaiting = st.active.awaiting
  /\ u.active.gen = st.active.gen
  /\ u.active.dependsOn = st.active.dependsOn
  /\ u.activeGen = st.activeGen
  /\ u.asrWait = st.asrWait
  /\ u.pipes = st.pipes
  /\ u.turn.responseActive = st.turn.responseActive

\* Same is transitive.
LEMMA SameTrans ==
  ASSUME NEW a, NEW b, NEW c, Same(a, b), Same(b, c) PROVE Same(a, c)
BY DEF Same

\* disarmEndOfTurn keeps the types and the response bookkeeping.
LEMMA DisarmOK ==
  ASSUME NEW st, SessionOK(st)
  PROVE  SessionOK(DisarmEndOfTurn(st)) /\ Same(st, DisarmEndOfTurn(st))
BY DEF SessionOK, DisarmEndOfTurn, Same

\* emit appends to the outbound events and touches nothing else.
LEMMA EmitsOK ==
  ASSUME NEW st, SessionOK(st), NEW evs \in Seq(Events)
  PROVE  SessionOK(Emits(st, evs)) /\ Same(st, Emits(st, evs))
<1> DEFINE o == st.out \o evs
<1>1. st.out \in Seq(Events) BY DEF SessionOK
<1>2. o \in Seq(Events) BY <1>1
<1>3. Emits(st, evs) = [st EXCEPT !.out = o] BY DEF Emits
<1> HIDE DEF o
<1> QED BY <1>2, <1>3 DEF SessionOK, Same

\* A well-formed event is an event.
LEMMA EvOK ==
  ASSUME NEW type \in EventTypes, NEW resp \in Nat, NEW item \in Nat,
         NEW info \in {""} \cup FinalStatuses \cup Voices
  PROVE  Ev(type, resp, item, info) \in Events
BY DEF Ev, Events

\* The same for the events that carry no status and no voice.
LEMMA EvPlain ==
  ASSUME NEW type \in EventTypes, NEW resp \in Nat, NEW item \in Nat
  PROVE  Ev(type, resp, item, "") \in Events
BY DEF Ev, Events

\* Up to three events make a sequence of events.
LEMMA EvSeqs ==
  ASSUME NEW a \in Events, NEW b \in Events, NEW c \in Events
  PROVE  <<a>> \in Seq(Events) /\ <<a, b>> \in Seq(Events) /\ <<a, b, c>> \in Seq(Events)
OBVIOUS

\* Emitting after a step that left the bookkeeping alone still leaves it alone.
LEMMA EmitsSame ==
  ASSUME NEW st, NEW u, SessionOK(u), Same(st, u), NEW evs \in Seq(Events)
  PROVE  SessionOK(Emits(u, evs)) /\ Same(st, Emits(u, evs))
BY EmitsOK, SameTrans

\* Put adds or replaces one entry of a map whose keys are the refs up to n.
LEMMA PutMap ==
  ASSUME NEW S, NEW m, m \in [DOMAIN m -> S], NEW n \in Nat, DOMAIN m \subseteq 1..n,
         NEW k \in 1..n, NEW v \in S
  PROVE Put(m, k, v) \in [DOMAIN Put(m, k, v) -> S] /\ DOMAIN Put(m, k, v) \subseteq 1..n
BY DEF Put

\* conversation.append takes a fresh ref and leaves the responses alone.
LEMMA AppendOK ==
  ASSUME NEW st, SessionOK(st), NEW it \in Items
  PROVE  SessionOK(AppendItem(st, it)) /\ Same(st, AppendItem(st, it))
<1> DEFINE n == st.nextRef + 1
           i == Put(st.items, n, it)
<1>1. n \in Nat /\ n \in 1..n /\ st.speechItem <= n BY DEF SessionOK
<1>2. st.items \in [DOMAIN st.items -> Items] /\ DOMAIN st.items \subseteq 1..n
  BY DEF SessionOK
<1>3. AppendItem(st, it) = [st EXCEPT !.nextRef = n, !.items = i] BY DEF AppendItem
<1> HIDE DEF n
<1>4. i \in [DOMAIN i -> Items] /\ DOMAIN i \subseteq 1..n BY <1>1, <1>2, PutMap
<1> HIDE DEF i
<1> QED BY <1>1, <1>3, <1>4 DEF SessionOK, Same

\* trimIdle only shortens the input buffer.
LEMMA TrimOK ==
  ASSUME NEW st, SessionOK(st)
  PROVE  SessionOK(TrimIdle(st)) /\ Same(st, TrimIdle(st))
BY SessionAssumption DEF SessionOK, TrimIdle, Same

\* buffer.clear only empties the input buffer.
LEMMA ClearBufferOK ==
  ASSUME NEW st, SessionOK(st)
  PROVE  SessionOK(ClearBuffer(st)) /\ Same(st, ClearBuffer(st))
BY  DEF SessionOK, ClearBuffer, Same

\* commit puts its item under an allocated ref and leaves the responses alone.
LEMMA CommitItemOK ==
  ASSUME NEW st, SessionOK(st)
  PROVE  SessionOK(CommitItem(st)) /\ Same(st, CommitItem(st))
<1> DEFINE ref == CommitRef(st)
           it  == Item("user_audio", "in_progress", st.acc, 0)
           n   == IF st.speechItem # 0 THEN st.nextRef ELSE st.nextRef + 1
           i   == Put(st.items, ref, it)
           u   == [st EXCEPT !.buf = 0, !.seg = FALSE, !.speechItem = 0, !.det = FALSE,
                             !.nextRef = n, !.items = i, !.pendingItem = ref]
           evs == <<Ev("committed", 0, ref, ""), Ev("item.added", 0, ref, "")>>
<1>1. n \in Nat /\ ref \in 1..n /\ ref \in Nat /\ 0 <= n
  BY DEF SessionOK, CommitRef
<1>2. it \in Items
  BY DEF SessionOK, Item, Items, ItemKinds, ItemStatuses
<1>3. st.items \in [DOMAIN st.items -> Items] /\ DOMAIN st.items \subseteq 1..n
  BY DEF SessionOK
<1>4. CommitItem(st) = Emits(u, evs)
  BY DEF CommitItem, ReleaseSpeechItem, ClearBuffer, SessionOK
<1>5. evs \in Seq(Events)
  <2> HIDE DEF ref
  <2>1. "committed" \in EventTypes /\ "item.added" \in EventTypes BY DEF EventTypes
  <2>2. Ev("committed", 0, ref, "") \in Events /\ Ev("item.added", 0, ref, "") \in Events
    BY <1>1, <2>1, EvPlain
  <2> QED BY <2>2, EvSeqs
<1> HIDE DEF n, ref, it
<1>6. i \in [DOMAIN i -> Items] /\ DOMAIN i \subseteq 1..n
  BY <1>1, <1>2, <1>3, PutMap
<1> HIDE DEF i
<1>7. SessionOK(u) /\ Same(st, u)
  BY <1>1, <1>6 DEF SessionOK, Same
<1> HIDE DEF u, evs
<1> QED BY <1>4, <1>5, <1>7, EmitsSame

\* Writing a transcript onto an item leaves everything else alone.
LEMMA PutItemText ==
  ASSUME NEW st, SessionOK(st), NEW ref, NEW text \in Texts
  PROVE  /\ SessionOK([st EXCEPT !.items[ref].text = text])
         /\ Same(st, [st EXCEPT !.items[ref].text = text])
<1> DEFINE i == [st.items EXCEPT ![ref].text = text]
<1>1. i \in [DOMAIN st.items -> Items]
  BY DEF SessionOK, Items
<1>2. [st EXCEPT !.items[ref].text = text] = [st EXCEPT !.items = i]
  BY DEF SessionOK
<1> HIDE DEF i
<1> QED BY <1>1, <1>2 DEF SessionOK, Same

\* joinTranscript returns one of the classes of text.
LEMMA JoinOK ==
  ASSUME NEW a \in Texts, NEW b \in Texts PROVE JoinTranscript(a, b) \in Texts
BY DEF JoinTranscript, Texts

(* What a method of the actor may do to the response: the generation only grows, and *)
(* a response that runs under the old generation after it is the one that ran before. *)
Progress(st, u) ==
  /\ st.activeGen \in Nat /\ u.activeGen \in Nat
  /\ st.activeGen <= u.activeGen
  /\ Running(u) /\ u.activeGen = st.activeGen => Running(st) /\ u.active.ref = st.active.ref
GoodStep(st, u) == Good(u) /\ Progress(st, u)

\* Progress is transitive.
LEMMA ProgressTrans ==
  ASSUME NEW a, NEW b, NEW c, Progress(a, b), Progress(b, c) PROVE Progress(a, c)
BY DEF Progress

\* A step that leaves the bookkeeping alone keeps the invariant.
LEMMA SameGood ==
  ASSUME NEW st, NEW u, Good(st), SessionOK(u), Same(st, u) PROVE GoodStep(st, u)
<1>1. Bookkeeping(u) BY DEF Good, Same, Bookkeeping
<1>2. OwnedPipes(u) /\ CurrentPipe(u) BY DEF Good, Same, OwnedPipes, CurrentPipe, Running
<1>3. st.activeGen \in Nat BY DEF Good, SessionOK
<1> QED BY <1>1, <1>2, <1>3 DEF Good, Same, Progress, GoodStep, Running

(* The states startPipeline is called in. *)
Startable(st) ==
  /\ SessionOK(st) /\ st.active.ref # 0 /\ st.turn.responseActive /\ ~st.asrWait
  /\ \A g \in DOMAIN st.pipes : st.pipes[g].cancelled

\* startPipeline opens a generation that no pipeline and no queued event carries.
LEMMA StartPipelineGood ==
  ASSUME NEW st, Startable(st)
  PROVE  Good(StartPipeline(st)) /\ StartPipeline(st).activeGen = st.activeGen + 1
<1> DEFINE g == st.activeGen + 1
           q == Pipe(st.active.ref, st.active.textOnly)
           p == Put(st.pipes, g, q)
           r == [st.active EXCEPT !.awaiting = FALSE, !.gen = g]
           u == [st EXCEPT !.active = r, !.activeGen = g, !.pipes = p]
<1>1. g \in Nat /\ g \in 1..g BY DEF Startable, SessionOK
<1>2. q \in Pipes
  BY DEF Startable, SessionOK, Responses, Pipe, Pipes
<1>3. st.pipes \in [DOMAIN st.pipes -> Pipes] /\ DOMAIN st.pipes \subseteq 1..g
  BY DEF Startable, SessionOK
<1>4. r \in Responses /\ r.awaiting = FALSE /\ r.gen = g /\ r.ref = st.active.ref /\ r.ref # 0
  BY <1>1 DEF Startable, SessionOK, Responses
<1>5. /\ p[g] = Pipe(st.active.ref, st.active.textOnly) /\ g \in DOMAIN p
      /\ \A h \in DOMAIN p : h # g => h \in DOMAIN st.pipes /\ p[h] = st.pipes[h]
  BY DEF Put
<1>6. p[g].resp = st.active.ref
  BY <1>5 DEF Pipe
<1>7. StartPipeline(st) = u
  BY DEF StartPipeline, Startable, SessionOK
<1>8. st.activeGen + 1 = g OBVIOUS
<1> HIDE DEF g, q
<1>9. p \in [DOMAIN p -> Pipes] /\ DOMAIN p \subseteq 1..g
  BY <1>1, <1>2, <1>3, PutMap
<1> HIDE DEF p, r
<1>10. SessionOK(u)
  BY <1>1, <1>4, <1>9 DEF Startable, SessionOK
<1>11. u.active = r /\ u.activeGen = g /\ u.pipes = p /\ u.asrWait = st.asrWait /\ u.turn = st.turn
  BY DEF Startable, SessionOK
<1>12. Bookkeeping(u)
  BY <1>4, <1>11 DEF Startable, Bookkeeping
<1> HIDE DEF u
<1>13. CurrentPipe(u)
  BY <1>4, <1>6, <1>11 DEF CurrentPipe, Running
<1>14. OwnedPipes(u)
  <2> SUFFICES ASSUME NEW h \in DOMAIN p, ~p[h].cancelled PROVE h = g
    BY <1>4, <1>6, <1>11 DEF OwnedPipes
  <2> QED BY <1>5 DEF Startable
<1> QED BY <1>7, <1>8, <1>10, <1>11, <1>12, <1>13, <1>14 DEF Good

\* The absent response is well formed.
LEMMA NoResponseOK ==
  NoResponse \in Responses /\ NoResponse.ref = 0 /\ NoResponse.awaiting = FALSE
<1>1. (CHOOSE v \in Voices : TRUE) \in Voices BY SessionAssumption
<1> QED BY <1>1 DEF NoResponse, Responses

\* The events of finish are well formed.
LEMMA TerminalEventsOK ==
  ASSUME NEW st, SessionOK(st), NEW status \in FinalStatuses
  PROVE  TerminalEvents(st, status) \in Seq(Events)
<1> DEFINE d == Ev("response.done", st.active.ref, 0, status)
           c == Ev("content.done", st.active.ref, st.active.item, "")
           o == Ev("output_item.done", st.active.ref, st.active.item, "")
<1>1. st.active.ref \in Nat /\ st.active.item \in Nat
  <2>1. st.active \in Responses BY DEF SessionOK
  <2> QED BY <2>1 DEF Responses
<1>2. /\ "response.done" \in EventTypes /\ "content.done" \in EventTypes
      /\ "output_item.done" \in EventTypes
  BY DEF EventTypes
<1>3. d \in Events BY <1>1, <1>2, EvOK
<1>4. c \in Events /\ o \in Events BY <1>1, <1>2, EvPlain
<1>5. TerminalEvents(st, status) = (IF ~HasOutputItem(st) THEN <<>> ELSE <<c, o>>) \o <<d>>
  BY DEF TerminalEvents
<1> HIDE DEF d, c, o
<1>6. <<d>> \in Seq(Events) /\ <<c, o>> \in Seq(Events) BY <1>3, <1>4, EvSeqs
<1> QED BY <1>5, <1>6

\* finish ends the active response: its goroutines are cancelled, its wait is stopped,
\* its generation is left behind.
LEMMA FinishGood ==
  ASSUME NEW st, SessionOK(st), OwnedPipes(st), NEW status \in FinalStatuses,
         st.active.ref # 0
  PROVE  GoodStep(st, Finish(st, status)) /\ Finish(st, status).active.ref = 0
<1> DEFINE p == [g \in DOMAIN st.pipes |-> IF g = st.active.gen
                   THEN [st.pipes[g] EXCEPT !.cancelled = TRUE] ELSE st.pipes[g]]
           i == IF ~HasOutputItem(st) THEN st.items
                ELSE [st.items EXCEPT ![st.active.item].status =
                        IF status = "completed" THEN "completed" ELSE "incomplete"]
           t == StepResponseEnded(st.turn)
           g == st.activeGen + 1
           u == [st EXCEPT !.pipes = p, !.asrWait = FALSE, !.items = i,
                           !.active = NoResponse, !.turn = t, !.activeGen = g]
           evs == TerminalEvents(st, status)
<1>1. g \in Nat /\ st.activeGen \in Nat /\ st.activeGen < g BY DEF SessionOK
<1>2. p \in [DOMAIN p -> Pipes] /\ DOMAIN p \subseteq 1..g
  <2>1. DOMAIN p = DOMAIN st.pipes /\ DOMAIN p \subseteq 1..g BY DEF SessionOK
  <2>2. ASSUME NEW h \in DOMAIN p PROVE p[h] \in Pipes
    <3>1. st.pipes[h] \in Pipes BY <2>1 DEF SessionOK
    <3>2. [st.pipes[h] EXCEPT !.cancelled = TRUE] \in Pipes BY <3>1 DEF Pipes
    <3> QED BY <3>1, <3>2
  <2> QED BY <2>1, <2>2
<1>3. \A h \in DOMAIN p : p[h].cancelled
  <2> TAKE h \in DOMAIN p
  <2>1. st.pipes[h] \in Pipes /\ h \in DOMAIN st.pipes BY DEF SessionOK
  <2>2. CASE h = st.active.gen BY <2>1, <2>2 DEF Pipes
  <2>3. CASE h # st.active.gen BY <2>1, <2>3 DEF OwnedPipes
  <2> QED BY <2>2, <2>3
<1>4. i \in [DOMAIN st.items -> Items]
  <2> DEFINE x == IF status = "completed" THEN "completed" ELSE "incomplete"
  <2>1. x \in ItemStatuses BY DEF ItemStatuses
  <2> HIDE DEF x
  <2>2. st.items \in [DOMAIN st.items -> Items] BY DEF SessionOK
  <2>3. [st.items EXCEPT ![st.active.item].status = x] \in [DOMAIN st.items -> Items]
    BY <2>1, <2>2 DEF Items
  <2> QED BY <2>2, <2>3 DEF x
<1>5. t \in Turn /\ t.responseActive = FALSE
  BY DEF SessionOK, StepResponseEnded, Turn
<1>6. evs \in Seq(Events) BY TerminalEventsOK
<1>7. Finish(st, status) = Emits(u, evs)
  <2>1. CASE HasOutputItem(st)
    BY <2>1 DEF SessionOK, Finish, CloseOutputItem, StopASRWait, CancelPipeline, HasOutputItem
  <2>2. CASE ~HasOutputItem(st)
    BY <2>2 DEF SessionOK, Finish, CloseOutputItem, StopASRWait, CancelPipeline, HasOutputItem
  <2> QED BY <2>1, <2>2
<1> HIDE DEF p, i, t, g, evs
<1>8. SessionOK(u)
  BY <1>1, <1>2, <1>4, <1>5, NoResponseOK DEF SessionOK
<1>9. /\ u.active = NoResponse /\ u.activeGen = g /\ u.pipes = p /\ u.asrWait = FALSE
      /\ u.turn = t
  BY DEF SessionOK
<1> HIDE DEF u
<1>10. Bookkeeping(u) /\ CurrentPipe(u)
  BY <1>5, <1>9, NoResponseOK DEF Bookkeeping, CurrentPipe, Running
<1>11. OwnedPipes(u) BY <1>3, <1>9 DEF OwnedPipes
<1>12. Good(u) BY <1>8, <1>10, <1>11 DEF Good
<1>13. Good(Emits(u, evs)) /\ Same(u, Emits(u, evs))
  BY <1>6, <1>8, <1>12, EmitsOK, SameGood DEF GoodStep
<1> QED BY <1>1, <1>7, <1>9, <1>13, NoResponseOK DEF GoodStep, Progress, Same, Running

\* finish keeps the invariant whether or not there is a response, and leaves none.
LEMMA FinishAnyGood ==
  ASSUME NEW st, Good(st), NEW status \in FinalStatuses
  PROVE  GoodStep(st, Finish(st, status)) /\ Finish(st, status).active.ref = 0
<1>1. CASE st.active.ref # 0 BY <1>1, FinishGood DEF Good
<1>2. CASE st.active.ref = 0
  <2>1. Finish(st, status) = st BY <1>2 DEF Finish
  <2> QED BY <2>1, <1>2 DEF GoodStep, Progress, Good, SessionOK
<1> QED BY <1>1, <1>2

\* createResponseAt either starts the pipeline or arms asr_final_timeout, never both.
LEMMA CreateAcceptedGood ==
  ASSUME NEW st, Good(st), st.active.ref = 0, NEW voice \in Voices, NEW textOnly \in BOOLEAN
  PROVE  LET u == CreateAccepted(st, voice, textOnly)
         IN  /\ GoodStep(st, u)
             /\ \A g \in DOMAIN u.pipes : u.active.awaiting => u.pipes[g].cancelled
<1> DEFINE waits == st.pendingItem # 0 /\ st.items[st.pendingItem].status # "completed"
           n == st.nextResp + 1
           dep == IF waits THEN st.pendingItem ELSE 0
           r == [NoResponse EXCEPT !.ref = n, !.awaiting = TRUE, !.voice = voice,
                                   !.textOnly = textOnly, !.dependsOn = dep]
           t == StepResponseStarted(st.turn)
           b == [st EXCEPT !.nextResp = n, !.active = r, !.turn = t]
           e == Ev("response.created", n, 0, "")
           c == Emits(b, <<e>>)
<1>1. n \in Nat /\ n # 0 BY DEF Good, SessionOK
<1>2. dep \in Nat BY DEF Good, SessionOK
<1>3. t \in Turn /\ t.responseActive = TRUE
  BY DEF Good, SessionOK, StepResponseStarted, Turn
<1>4. <<e>> \in Seq(Events)
  <2>1. "response.created" \in EventTypes BY DEF EventTypes
  <2> HIDE DEF n
  <2>2. n \in Nat /\ 0 \in Nat BY <1>1
  <2>3. e \in Events BY <2>1, <2>2, EvPlain, Zenon
  <2> QED BY <2>3, EvSeqs
<1>5. waits => dep # 0 OBVIOUS
<1>6. \A g \in DOMAIN st.pipes : st.pipes[g].cancelled
  BY DEF Good, OwnedPipes
<1> HIDE DEF dep, n
<1>7. r \in Responses /\ r.ref = n /\ r.awaiting = TRUE /\ r.dependsOn = dep
  BY <1>1, <1>2, NoResponseOK DEF Responses
<1>8. r.ref = n BY <1>7
<1>9. CreateAccepted(st, voice, textOnly) =
        IF waits THEN ArmASRWait(c) ELSE StartPipeline(c)
  BY <1>8 DEF CreateAccepted, n, dep
<1> HIDE DEF r, t, e
<1>10. SessionOK(b) /\ b.active = r /\ b.turn = t /\ b.pipes = st.pipes
         /\ b.activeGen = st.activeGen /\ b.asrWait = st.asrWait
  BY <1>1, <1>3, <1>7 DEF Good, SessionOK
<1> HIDE DEF b
<1>11. SessionOK(c) /\ Same(b, c) BY <1>4, <1>10, EmitsOK
<1> HIDE DEF c
<1>12. /\ c.active.ref # 0 /\ c.active.awaiting /\ c.turn.responseActive
       /\ c.activeGen = st.activeGen /\ c.asrWait = st.asrWait /\ ~st.asrWait
       /\ c.pipes = st.pipes /\ c.active.dependsOn = dep
  BY <1>1, <1>3, <1>7, <1>10, <1>11 DEF Same, Good, Bookkeeping
<1>13. st.activeGen \in Nat BY DEF Good, SessionOK
<1>14. CASE ~waits
  <2>1. Startable(c) BY <1>6, <1>11, <1>12 DEF Startable
  <2>2. Good(StartPipeline(c)) /\ StartPipeline(c).activeGen = st.activeGen + 1
    BY <2>1, <1>12, StartPipelineGood
  <2>3. \A g \in DOMAIN StartPipeline(c).pipes :
          StartPipeline(c).active.awaiting => StartPipeline(c).pipes[g].cancelled
    BY <2>2 DEF Good, OwnedPipes
  <2> QED BY <1>9, <1>13, <1>14, <2>2, <2>3 DEF GoodStep, Progress
<1>15. CASE waits
  <2> DEFINE a == ArmASRWait(c)
  <2>1. /\ SessionOK(a) /\ a.active = c.active /\ a.turn = c.turn /\ a.activeGen = c.activeGen
        /\ a.asrWait = TRUE /\ a.pipes = c.pipes
    BY <1>11 DEF SessionOK, ArmASRWait
  <2> HIDE DEF a
  <2>2. Bookkeeping(a) BY <1>5, <1>12, <1>15, <2>1 DEF Bookkeeping
  <2>3. OwnedPipes(a) /\ CurrentPipe(a) BY <1>6, <1>12, <2>1 DEF OwnedPipes, CurrentPipe, Running
  <2>4. Good(a) BY <2>1, <2>2, <2>3 DEF Good
  <2>5. CreateAccepted(st, voice, textOnly) = a BY <1>9, <1>15 DEF a
  <2>6. Progress(st, a) BY <1>12, <1>13, <2>1 DEF Progress, Running
  <2>7. \A g \in DOMAIN a.pipes : a.pipes[g].cancelled BY <1>6, <1>12, <2>1
  <2> QED BY <2>4, <2>5, <2>6, <2>7 DEF GoodStep
<1> QED BY <1>14, <1>15

\* The methods of the actor compose: each keeps the invariant and makes progress.
LEMMA GoodTrans ==
  ASSUME NEW a, NEW b, NEW c, GoodStep(a, b), GoodStep(b, c) PROVE GoodStep(a, c)
BY ProgressTrans DEF GoodStep

\* Doing nothing keeps the invariant.
LEMMA GoodSelf ==
  ASSUME NEW st, Good(st) PROVE GoodStep(st, st)
BY DEF Good, GoodStep, Progress, SessionOK

\* emit keeps the invariant.
LEMMA EmitsGood ==
  ASSUME NEW st, Good(st), NEW evs \in Seq(Events)
  PROVE  GoodStep(st, Emits(st, evs))
BY EmitsOK, SameGood DEF Good

\* The error event, and the error event followed by the cancel of fatal, are events.
LEMMA ErrorSeqs ==
  <<Error>> \in Seq(Events) /\ <<Error, CancelMark>> \in Seq(Events)
<1>1. "error" \in EventTypes /\ "cancel" \in EventTypes /\ 0 \in Nat BY DEF EventTypes
<1>2. Error \in Events /\ CancelMark \in Events BY <1>1, EvPlain, Zenon DEF Error, CancelMark
<1> QED BY <1>2, EvSeqs

\* Refusing a command with an error keeps the invariant.
LEMMA EmitsErrorGood ==
  ASSUME NEW st, Good(st) PROVE GoodStep(st, Emits(st, <<Error>>))
BY ErrorSeqs, EmitsGood

\* fatal keeps the invariant.
LEMMA FatalGood ==
  ASSUME NEW st, Good(st) PROVE GoodStep(st, Fatal(st))
BY ErrorSeqs, EmitsGood DEF Fatal

\* createResponse with overrides, including the refusal of a locked voice.
LEMMA CreateResponseGood ==
  ASSUME NEW st, Good(st), st.active.ref = 0, NEW voice \in Voices, NEW textOnly \in BOOLEAN
  PROVE  LET u == CreateResponse(st, voice, textOnly)
         IN  /\ GoodStep(st, u)
             /\ \A g \in DOMAIN u.pipes : u.active.awaiting => u.pipes[g].cancelled
<1>1. CASE voice # st.voice /\ st.audioEmitted
  <2> DEFINE u == Emits(st, <<Error>>)
  <2>1. CreateResponse(st, voice, textOnly) = u BY <1>1 DEF CreateResponse
  <2>2. GoodStep(st, u) /\ Same(st, u) BY EmitsErrorGood, EmitsOK, ErrorSeqs DEF Good
  <2>3. u.active.awaiting = FALSE BY <2>2 DEF Same, Good, Bookkeeping, SessionOK, Responses
  <2> QED BY <2>1, <2>2, <2>3
<1>2. CASE ~(voice # st.voice /\ st.audioEmitted)
  BY <1>2, CreateAcceptedGood DEF CreateResponse
<1> QED BY <1>1, <1>2

\* createResponse for a turn, with no overrides.
LEMMA AutoCreateGood ==
  ASSUME NEW st, Good(st), st.active.ref = 0
  PROVE  /\ GoodStep(st, AutoCreate(st))
         /\ \A g \in DOMAIN AutoCreate(st).pipes :
              AutoCreate(st).active.awaiting => AutoCreate(st).pipes[g].cancelled
<1>1. st.voice \in Voices /\ st.textOnly \in BOOLEAN BY DEF Good, SessionOK
<1> QED BY <1>1, CreateResponseGood DEF AutoCreate

\* dropDeferredTrigger is not about the active response.
LEMMA DropDeferredTriggerGood ==
  ASSUME NEW st, Good(st)
  PROVE  GoodStep(st, DropDeferredTrigger(st)) /\ DropDeferredTrigger(st).active = st.active
<1>1. /\ SessionOK(DropDeferredTrigger(st)) /\ Same(st, DropDeferredTrigger(st))
      /\ DropDeferredTrigger(st).active = st.active
  BY DEF Good, SessionOK, DropDeferredTrigger, Same
<1> QED BY <1>1, SameGood

\* deferTrigger is not about the active response.
LEMMA DeferTriggerGood ==
  ASSUME NEW st, Good(st) PROVE GoodStep(st, DeferTrigger(st))
<1>1. SessionOK(DeferTrigger(st)) /\ Same(st, DeferTrigger(st))
  BY DEF Good, SessionOK, DeferTrigger, Same
<1> QED BY <1>1, SameGood

\* resolveDeferredTrigger creates a response only when none is active.
LEMMA ResolveGood ==
  ASSUME NEW st, Good(st), NEW ref, NEW text
  PROVE  GoodStep(st, ResolveDeferredTrigger(st, ref, text))
<1> DEFINE d == DropDeferredTrigger(st)
<1>1. GoodStep(st, d) /\ Good(d) /\ d.active = st.active
  BY DropDeferredTriggerGood DEF GoodStep
<1> HIDE DEF d
<1>2. CASE st.active.ref = 0
  <2>1. GoodStep(d, AutoCreate(d)) BY <1>1, <1>2, AutoCreateGood
  <2>2. GoodStep(st, AutoCreate(d)) BY <1>1, <2>1, GoodTrans
  <2> QED BY <1>1, <2>2, GoodSelf DEF ResolveDeferredTrigger, d
<1>3. CASE st.active.ref # 0
  BY <1>1, <1>3, GoodSelf DEF ResolveDeferredTrigger, d
<1> QED BY <1>2, <1>3

\* commit keeps the invariant.
LEMMA CommitItemGood ==
  ASSUME NEW st, Good(st) PROVE GoodStep(st, CommitItem(st))
BY CommitItemOK, SameGood DEF Good

\* Arming the end-of-turn timer is not about the active response.
LEMMA ArmTimersGood ==
  ASSUME NEW st, Good(st), NEW d PROVE GoodStep(st, ArmTimers(st, d))
<1>1. SessionOK(ArmTimers(st, d)) /\ Same(st, ArmTimers(st, d))
  BY DEF Good, SessionOK, ArmTimers, Same
<1> QED BY <1>1, SameGood

\* apply executes a decision: timers, commit, and a response when none is active.
LEMMA ApplyGood ==
  ASSUME NEW st, Good(st), NEW d, NEW asrOk \in BOOLEAN
  PROVE  GoodStep(st, Apply(st, d, asrOk))
<1> DEFINE a == ArmTimers(st, d)
           i == CommitItem(a)
           c == IF "Commit" \notin d THEN a
                ELSE IF a.buf = 0 THEN Emits(a, <<Error>>)
                ELSE IF ~asrOk THEN Fatal(i)
                ELSE IF "DeferTrigger" \in d THEN DeferTrigger(i)
                ELSE i
<1>1. GoodStep(st, a) /\ Good(a) BY ArmTimersGood DEF GoodStep
<1>2. Apply(st, d, asrOk) = IF "Trigger" \in d /\ c.active.ref = 0 THEN AutoCreate(c) ELSE c
  BY DEF Apply
<1> HIDE DEF a
<1>3. GoodStep(st, i) /\ Good(i) BY <1>1, CommitItemGood, GoodTrans DEF GoodStep
<1> HIDE DEF i
<1>4. GoodStep(st, Fatal(i)) BY <1>3, FatalGood, GoodTrans
<1>5. GoodStep(st, DeferTrigger(i)) BY <1>3, DeferTriggerGood, GoodTrans
<1>6. GoodStep(st, Emits(a, <<Error>>)) BY <1>1, EmitsErrorGood, GoodTrans
<1>7. GoodStep(st, c) /\ Good(c) BY <1>1, <1>3, <1>4, <1>5, <1>6 DEF GoodStep
<1> HIDE DEF c
<1>8. CASE c.active.ref = 0
  <2>1. GoodStep(st, AutoCreate(c)) BY <1>7, <1>8, AutoCreateGood, GoodTrans
  <2> QED BY <1>2, <1>7, <2>1
<1>9. CASE c.active.ref # 0 BY <1>2, <1>7, <1>9
<1> QED BY <1>8, <1>9

(* A result of the turn manager leaves responseActive alone. *)
Keeps(t, res) == res.turn \in Turn /\ res.turn.responseActive = t.responseActive

\* endTurn does not touch responseActive.
LEMMA EndTurnKeeps ==
  ASSUME NEW t \in Turn, NEW d PROVE Keeps(t, EndTurn(t, d))
BY DEF Keeps, EndTurn, ResetTurn, Result, Turn

\* judge does not touch responseActive.
LEMMA JudgeKeeps ==
  ASSUME NEW t \in Turn, NEW terminal \in BOOLEAN, NEW d PROVE Keeps(t, Judge(t, terminal, d))
BY EndTurnKeeps DEF Keeps, Judge, Result

\* No step of the turn manager touches responseActive but the two that report a
\* response's start and end.
LEMMA StepKeeps ==
  ASSUME NEW t \in Turn, NEW terminal \in BOOLEAN
  PROVE  /\ Keeps(t, StepClientCommit(t))
         /\ Keeps(t, StepSpeechStart(t))
         /\ Keeps(t, StepSpeechEnd(t))
         /\ Keeps(t, StepFinal(t, terminal))
         /\ Keeps(t, StepEndOfTurn(t))
<1>1. Keeps(t, StepClientCommit(t)) BY DEF Keeps, StepClientCommit, ResetTurn, Result, Turn
<1>2. Keeps(t, StepSpeechStart(t)) BY DEF Keeps, StepSpeechStart, Result, Turn
<1>3. Keeps(t, StepEndOfTurn(t)) BY EndTurnKeeps DEF Keeps, StepEndOfTurn, Result
<1>4. Keeps(t, StepFinal(t, terminal))
  <2> DEFINE p == [t EXCEPT !.finalPending = TRUE, !.finalTerminal = terminal]
  <2>1. p \in Turn /\ p.responseActive = t.responseActive BY DEF Turn
  <2> HIDE DEF p
  <2> QED BY <2>1, JudgeKeeps DEF Keeps, StepFinal, Result, p
<1>5. Keeps(t, StepSpeechEnd(t))
  <2> DEFINE stopped == [t EXCEPT !.speaking = FALSE]
             waiting == [stopped EXCEPT !.pendingEOT = TRUE]
             judged  == [waiting EXCEPT !.finalPending = FALSE]
  <2>1. /\ stopped \in Turn /\ waiting \in Turn /\ judged \in Turn
        /\ stopped.responseActive = t.responseActive
        /\ waiting.responseActive = t.responseActive
        /\ judged.responseActive = t.responseActive
        /\ t.finalTerminal \in BOOLEAN /\ t.speaking \in BOOLEAN /\ t.mode \in Modes
    BY DEF Turn
  <2>2. StepSpeechEnd(t) =
          CASE t.mode = "manual" \/ ~t.speaking -> Result(t, {})
            [] t.mode = "server_vad" /\ t.speaking -> EndTurn(stopped, {"EmitSpeechStopped"})
            [] t.mode = "semantic_vad" /\ t.speaking ->
                 IF t.finalPending
                 THEN Judge(judged, t.finalTerminal, {"EmitSpeechStopped"})
                 ELSE Result(waiting, {"EmitSpeechStopped", "ArmFinalWaitTimer"})
    BY DEF StepSpeechEnd
  <2> HIDE DEF stopped, waiting, judged
  <2>3. CASE t.mode = "manual" \/ ~t.speaking BY <2>2, <2>3 DEF Keeps, Result
  <2>4. CASE t.mode = "server_vad" /\ t.speaking
    BY <2>1, <2>2, <2>4, EndTurnKeeps DEF Keeps
  <2>5. CASE t.mode = "semantic_vad" /\ t.speaking
    BY <2>1, <2>2, <2>5, JudgeKeeps DEF Keeps, Result
  <2> QED BY <2>1, <2>3, <2>4, <2>5 DEF Modes
<1> QED BY <1>1, <1>2, <1>3, <1>4, <1>5

\* A step of the turn manager followed by apply.
LEMMA DecideGood ==
  ASSUME NEW st, Good(st), NEW res, Keeps(st.turn, res), NEW asrOk \in BOOLEAN
  PROVE  GoodStep(st, Decide(st, res, asrOk))
<1> DEFINE u == [st EXCEPT !.turn = res.turn]
<1>1. SessionOK(u) /\ Same(st, u) BY DEF Good, SessionOK, Keeps, Same
<1>2. Decide(st, res, asrOk) = Apply(u, res.d, asrOk) BY DEF Decide
<1> HIDE DEF u
<1>3. GoodStep(st, u) /\ Good(u) BY <1>1, SameGood DEF GoodStep
<1> QED BY <1>2, <1>3, ApplyGood, GoodTrans

\* stopASRWait only stops asr_final_timeout.
LEMMA StopASRWaitOK ==
  ASSUME NEW st, SessionOK(st)
  PROVE  LET u == StopASRWait(st)
         IN  /\ SessionOK(u) /\ u.asrWait = FALSE /\ u.active = st.active /\ u.turn = st.turn
             /\ u.activeGen = st.activeGen /\ u.pipes = st.pipes
BY DEF SessionOK, StopASRWait

(* An awaiting response may start: its pipeline is the first one alive. *)
LEMMA ReleaseGood ==
  ASSUME NEW st, Good(st), st.active.awaiting,
         \A g \in DOMAIN st.pipes : st.pipes[g].cancelled
  PROVE  GoodStep(st, StartPipeline(StopASRWait(st)))
<1> DEFINE u == StopASRWait(st)
<1>1. /\ SessionOK(u) /\ u.asrWait = FALSE /\ u.active = st.active /\ u.turn = st.turn
      /\ u.activeGen = st.activeGen /\ u.pipes = st.pipes
  BY StopASRWaitOK DEF Good
<1> HIDE DEF u
<1>2. Startable(u) BY <1>1 DEF Good, Bookkeeping, Startable
<1>3. st.activeGen \in Nat BY DEF Good, SessionOK
<1> QED BY <1>1, <1>2, <1>3, StartPipelineGood DEF GoodStep, Progress, u

\* While a response waits for its transcript no pipeline is alive.
LEMMA AwaitingCancelled ==
  ASSUME NEW st, Good(st), st.active.awaiting
  PROVE  \A g \in DOMAIN st.pipes : st.pipes[g].cancelled
BY DEF Good, OwnedPipes

\* Completing the pending item is not about the active response.
LEMMA PutItemDone ==
  ASSUME NEW st, SessionOK(st), NEW ref, NEW text \in Texts
  PROVE  LET u == [st EXCEPT !.pendingItem = 0, !.acc = "",
                             !.items[ref].text = text, !.items[ref].status = "completed"]
         IN  SessionOK(u) /\ Same(st, u)
<1> DEFINE i == [[st.items EXCEPT ![ref].text = text] EXCEPT ![ref].status = "completed"]
<1>1. [st.items EXCEPT ![ref].text = text] \in [DOMAIN st.items -> Items]
  BY DEF SessionOK, Items
<1>2. i \in [DOMAIN st.items -> Items]
  BY <1>1 DEF Items, ItemStatuses
<1>3. [st EXCEPT !.pendingItem = 0, !.acc = "",
                 !.items[ref].text = text, !.items[ref].status = "completed"]
      = [st EXCEPT !.pendingItem = 0, !.acc = "", !.items = i]
  BY DEF SessionOK
<1>4. "" \in Texts BY DEF Texts
<1> HIDE DEF i
<1>5. /\ SessionOK([st EXCEPT !.pendingItem = 0, !.acc = "", !.items = i])
      /\ Same(st, [st EXCEPT !.pendingItem = 0, !.acc = "", !.items = i])
  BY <1>2, <1>4 DEF SessionOK, Same
<1> QED BY <1>3, <1>5

\* completePendingItem: the item is done, the response that waited for it starts, or a
\* deferred one is created.
LEMMA CompletePendingItemGood ==
  ASSUME NEW st, Good(st), NEW text \in Texts
  PROVE  GoodStep(st, CompletePendingItem(st, text))
<1> DEFINE ref == st.pendingItem
           b == [st EXCEPT !.pendingItem = 0, !.acc = "",
                           !.items[ref].text = text, !.items[ref].status = "completed"]
           evs == <<Ev("item.done", 0, ref, "")>>
           c == Emits(b, evs)
           released == IF c.active.ref # 0 /\ c.active.awaiting /\ c.active.dependsOn = ref
                       THEN StartPipeline(StopASRWait(c)) ELSE c
<1>1. SessionOK(b) /\ Same(st, b) BY PutItemDone DEF Good
<1>2. ref \in Nat BY DEF Good, SessionOK
<1>3. CompletePendingItem(st, text) = ResolveDeferredTrigger(released, ref, text)
  BY DEF CompletePendingItem
<1> HIDE DEF b, ref
<1>4. evs \in Seq(Events)
  <2>1. "item.done" \in EventTypes /\ 0 \in Nat BY DEF EventTypes
  <2>2. Ev("item.done", 0, ref, "") \in Events BY <1>2, <2>1, EvPlain, Zenon
  <2> QED BY <2>2, EvSeqs
<1> HIDE DEF evs
<1>5. GoodStep(st, c) /\ Good(c) BY <1>1, <1>4, EmitsSame, SameGood DEF GoodStep
<1> HIDE DEF c
<1>6. c.active.awaiting => GoodStep(c, StartPipeline(StopASRWait(c)))
  BY <1>5, ReleaseGood, AwaitingCancelled
<1>7. GoodStep(st, released) /\ Good(released) BY <1>5, <1>6, GoodTrans DEF GoodStep
<1> HIDE DEF released
<1> QED BY <1>3, <1>7, ResolveGood, GoodTrans

\* A partial of the recognizer is only remembered.
LEMMA OnPartialGood ==
  ASSUME NEW st, Good(st), NEW text \in Texts PROVE GoodStep(st, OnPartial(st, text))
<1>1. SessionOK(OnPartial(st, text)) /\ Same(st, OnPartial(st, text))
  BY DEF Good, SessionOK, OnPartial, Same
<1> QED BY <1>1, SameGood

\* handleASR for a Final.
LEMMA OnFinalGood ==
  ASSUME NEW st, Good(st), NEW text \in Texts, NEW terminal \in BOOLEAN, NEW asrOk \in BOOLEAN
  PROVE  GoodStep(st, OnFinal(st, text, terminal, asrOk))
<1> DEFINE h == [st EXCEPT !.partial = ""]
           j == JoinTranscript(st.acc, text)
           k == [h EXCEPT !.acc = j]
           taken == IF st.pendingItem # 0 THEN CompletePendingItem(h, j) ELSE k
<1>1. j \in Texts BY JoinOK DEF Good, SessionOK
<1>2. "" \in Texts BY DEF Texts
<1>3. OnFinal(st, text, terminal, asrOk) =
        Decide(taken, StepFinal(taken.turn, terminal), asrOk)
  BY DEF OnFinal
<1> HIDE DEF j
<1>4. SessionOK(h) /\ Same(st, h) /\ SessionOK(k) /\ Same(st, k)
  BY <1>1, <1>2 DEF Good, SessionOK, Same
<1> HIDE DEF h, k
<1>5. GoodStep(st, h) /\ Good(h) /\ GoodStep(st, k) BY <1>4, SameGood DEF GoodStep
<1>6. GoodStep(st, CompletePendingItem(h, j)) BY <1>1, <1>5, CompletePendingItemGood, GoodTrans
<1>7. GoodStep(st, taken) /\ Good(taken) BY <1>5, <1>6 DEF GoodStep
<1> HIDE DEF taken
<1>8. Keeps(taken.turn, StepFinal(taken.turn, terminal))
  BY <1>7, StepKeeps DEF Good, SessionOK
<1> QED BY <1>3, <1>7, <1>8, DecideGood, GoodTrans

\* handleASR for the recognizer's end of turn.
LEMMA OnEndOfTurnGood ==
  ASSUME NEW st, Good(st), NEW asrOk \in BOOLEAN
  PROVE  GoodStep(st, OnEndOfTurn(st, asrOk))
<1> DEFINE taken == IF st.pendingItem # 0 THEN CompletePendingItem(st, st.acc) ELSE st
<1>1. st.acc \in Texts BY DEF Good, SessionOK
<1>2. GoodStep(st, taken) /\ Good(taken)
  BY <1>1, CompletePendingItemGood, GoodSelf DEF GoodStep
<1>3. OnEndOfTurn(st, asrOk) = Decide(taken, StepEndOfTurn(taken.turn), asrOk)
  BY DEF OnEndOfTurn
<1> HIDE DEF taken
<1>4. Keeps(taken.turn, StepEndOfTurn(taken.turn))
  <2>1. taken.turn \in Turn BY <1>2 DEF Good, SessionOK
  <2> QED BY <2>1, StepKeeps
<1> QED BY <1>2, <1>3, <1>4, DecideGood, GoodTrans

\* The end-of-turn timer.
LEMMA EotGood ==
  ASSUME NEW st, Good(st), NEW asrOk \in BOOLEAN
  PROVE  GoodStep(st, Decide([st EXCEPT !.eot = FALSE], StepEndOfTurn(st.turn), asrOk))
<1> DEFINE u == [st EXCEPT !.eot = FALSE]
<1>1. SessionOK(u) /\ Same(st, u) /\ u.turn = st.turn /\ st.turn \in Turn
  BY DEF Good, SessionOK, Same
<1> HIDE DEF u
<1>2. GoodStep(st, u) /\ Good(u) BY <1>1, SameGood DEF GoodStep
<1>3. Keeps(u.turn, StepEndOfTurn(st.turn)) BY <1>1, StepKeeps
<1>4. GoodStep(u, Decide(u, StepEndOfTurn(st.turn), asrOk)) BY <1>2, <1>3, DecideGood
<1> QED BY <1>2, <1>4, GoodTrans DEF u

\* failResponse ends the active response, even when asr_final_timeout has just fired.
LEMMA FailResponseGood ==
  ASSUME NEW st, SessionOK(st), OwnedPipes(st), st.active.ref # 0
  PROVE  GoodStep(st, FailResponse(st))
<1> DEFINE u == Emits(st, <<Error>>)
<1>1. SessionOK(u) /\ Same(st, u) BY ErrorSeqs, EmitsOK
<1>2. FailResponse(st) = Finish(u, "failed") BY DEF FailResponse
<1> HIDE DEF u
<1>3. OwnedPipes(u) /\ u.active.ref # 0 BY <1>1 DEF OwnedPipes, Same
<1>4. GoodStep(u, Finish(u, "failed")) BY <1>1, <1>3, FinishGood DEF FinalStatuses
<1>5. Progress(st, u) BY <1>1 DEF Same, Progress, Running, SessionOK
<1> QED BY <1>2, <1>4, <1>5, ProgressTrans DEF GoodStep

\* handleTranscriptTimeout fails the awaiting response or starts it.
LEMMA OnTranscriptTimeoutGood ==
  ASSUME NEW st, Good(st)
  PROVE  GoodStep(st, OnTranscriptTimeout(st))
<1> DEFINE f == [st EXCEPT !.asrWait = FALSE]
           best == JoinTranscript(st.acc, st.partial)
           x == [f EXCEPT !.items[st.pendingItem].text = best]
           told == IF st.pendingItem = 0 THEN f ELSE x
<1>1. best \in Texts BY JoinOK DEF Good, SessionOK
<1>2. /\ SessionOK(f) /\ f.asrWait = FALSE /\ f.active = st.active /\ f.turn = st.turn
      /\ f.activeGen = st.activeGen /\ f.pipes = st.pipes
  BY DEF Good, SessionOK
<1>3. OnTranscriptTimeout(st) =
        IF st.active.ref = 0 \/ ~st.active.awaiting THEN f
        ELSE IF best = "" THEN FailResponse(f) ELSE StartPipeline(told)
  BY DEF OnTranscriptTimeout
<1> HIDE DEF f, best
<1>4. SessionOK(x) /\ Same(f, x) BY <1>1, <1>2, PutItemText
<1> HIDE DEF x
<1>5. SessionOK(told) /\ Same(f, told) BY <1>2, <1>4 DEF Same
<1> HIDE DEF told
<1>6. st.activeGen \in Nat BY DEF Good, SessionOK
<1>7. CASE st.active.ref = 0 \/ ~st.active.awaiting
  <2>1. ~st.active.awaiting BY <1>7 DEF Good, Bookkeeping
  <2>2. ~st.asrWait BY <2>1 DEF Good, Bookkeeping
  <2>3. Bookkeeping(f) BY <1>2, <2>1 DEF Good, Bookkeeping
  <2>4. OwnedPipes(f) /\ CurrentPipe(f) BY <1>2 DEF Good, OwnedPipes, CurrentPipe, Running
  <2>5. Progress(st, f) BY <1>2, <1>6 DEF Progress, Running
  <2> QED BY <1>2, <1>3, <1>7, <2>3, <2>4, <2>5 DEF Good, GoodStep
<1>8. CASE st.active.ref # 0 /\ st.active.awaiting
  <2>1. OwnedPipes(f) BY <1>2 DEF Good, OwnedPipes
  <2>2. GoodStep(f, FailResponse(f)) BY <1>2, <1>8, <2>1, FailResponseGood
  <2>3. Progress(st, f) BY <1>2, <1>6 DEF Progress, Running
  <2>4. GoodStep(st, FailResponse(f)) BY <2>2, <2>3, ProgressTrans DEF GoodStep
  <2>5. \A g \in DOMAIN st.pipes : st.pipes[g].cancelled BY <1>8, AwaitingCancelled
  <2>6. Startable(told) BY <1>2, <1>5, <1>8, <2>5 DEF Startable, Same, Good, Bookkeeping
  <2>7. told.activeGen = st.activeGen BY <1>2, <1>5 DEF Same
  <2>8. GoodStep(st, StartPipeline(told))
    BY <1>6, <2>6, <2>7, StartPipelineGood DEF GoodStep, Progress
  <2> QED BY <1>3, <1>8, <2>4, <2>8
<1> QED BY <1>7, <1>8

\* handleDeferredTimeout drops the trigger or creates a response and starts it at once.
LEMMA OnDeferredTimeoutGood ==
  ASSUME NEW st, Good(st)
  PROVE  GoodStep(st, OnDeferredTimeout(st))
<1> DEFINE ref == st.deferItem
           best == JoinTranscript(st.acc, st.partial)
           d == DropDeferredTrigger(st)
           x == [d EXCEPT !.items[ref].text = best]
           c == AutoCreate(x)
<1>1. best \in Texts BY JoinOK DEF Good, SessionOK
<1>2. GoodStep(st, d) /\ Good(d) /\ d.active = st.active BY DropDeferredTriggerGood DEF GoodStep
<1>3. OnDeferredTimeout(st) =
        IF ref = 0 \/ st.pendingItem # ref \/ Blank(best) \/ st.active.ref # 0 THEN d
        ELSE IF c.active.ref # 0 /\ c.active.awaiting THEN StartPipeline(StopASRWait(c)) ELSE c
  BY DEF OnDeferredTimeout
<1> HIDE DEF d, best, ref
<1>4. SessionOK(x) /\ Same(d, x) BY <1>1, <1>2, PutItemText DEF Good
<1> HIDE DEF x
<1>5. GoodStep(st, x) /\ Good(x) /\ x.active.ref = st.active.ref
  BY <1>2, <1>4, SameGood, GoodTrans DEF GoodStep, Same
<1>6. CASE st.active.ref # 0 BY <1>2, <1>3, <1>6
<1>7. CASE st.active.ref = 0
  <2>1. GoodStep(st, c) /\ Good(c)
        /\ \A g \in DOMAIN c.pipes : c.active.awaiting => c.pipes[g].cancelled
    BY <1>5, <1>7, AutoCreateGood, GoodTrans DEF GoodStep
  <2> HIDE DEF c
  <2>2. c.active.awaiting => GoodStep(st, StartPipeline(StopASRWait(c)))
    BY <2>1, ReleaseGood, GoodTrans
  <2> QED BY <1>2, <1>3, <2>1, <2>2
<1> QED BY <1>6, <1>7

(* Client commands. *)

\* applyTurnDetection carries responseActive over to the new turn manager.
LEMMA ApplyTurnDetectionGood ==
  ASSUME NEW st, Good(st), NEW td \in TurnDetection
  PROVE  GoodStep(st, ApplyTurnDetection(st, td))
<1> DEFINE t == [NewTurnManager(td) EXCEPT !.responseActive = st.turn.responseActive]
           u == [st EXCEPT !.eot = FALSE, !.turn = t, !.det = FALSE, !.speechItem = 0]
<1>1. t \in Turn /\ t.responseActive = st.turn.responseActive
  <2>1. st.turn.responseActive \in BOOLEAN BY DEF Good, SessionOK, Turn
  <2>2. NewTurnManager(td) \in Turn BY DEF NewTurnManager, Turn, TurnDetection
  <2> QED BY <2>1, <2>2 DEF Turn
<1>2. ApplyTurnDetection(st, td) = u
  BY DEF ApplyTurnDetection, DisarmEndOfTurn, Good, SessionOK
<1>3. st.nextRef \in Nat /\ 0 <= st.nextRef BY DEF Good, SessionOK
<1> HIDE DEF t
<1>4. SessionOK(u) /\ Same(st, u) BY <1>1, <1>3 DEF Good, SessionOK, Same
<1> QED BY <1>2, <1>4, SameGood

\* updateSession, accepted or refused.
LEMMA UpdateSessionGood ==
  ASSUME NEW st, Good(st), NEW hasTD \in BOOLEAN, NEW td \in TurnDetection,
         NEW voice \in Voices, NEW textOnly \in BOOLEAN
  PROVE  GoodStep(st, UpdateSession(st, hasTD, td, voice, textOnly))
<1> DEFINE u == [st EXCEPT !.voice = voice, !.textOnly = textOnly]
           a == IF hasTD THEN ApplyTurnDetection(u, td) ELSE u
           evs == <<Ev("session.updated", 0, 0, "")>>
<1>1. UpdateSession(st, hasTD, td, voice, textOnly) =
        IF voice # st.voice /\ st.audioEmitted THEN Emits(st, <<Error>>) ELSE Emits(a, evs)
  BY DEF UpdateSession
<1>2. SessionOK(u) /\ Same(st, u) BY DEF Good, SessionOK, Same
<1> HIDE DEF u
<1>3. GoodStep(st, u) /\ Good(u) BY <1>2, SameGood DEF GoodStep
<1>4. GoodStep(st, a) /\ Good(a) BY <1>3, ApplyTurnDetectionGood, GoodTrans DEF GoodStep
<1>5. evs \in Seq(Events)
  <2>1. "session.updated" \in EventTypes /\ 0 \in Nat BY DEF EventTypes
  <2>2. Ev("session.updated", 0, 0, "") \in Events BY <2>1, EvPlain, Zenon
  <2> QED BY <2>2, EvSeqs
<1> HIDE DEF a, evs
<1>6. GoodStep(st, Emits(a, evs)) BY <1>4, <1>5, EmitsGood, GoodTrans
<1> QED BY <1>1, <1>6, EmitsErrorGood

\* CmdClearAudio is not about the active response.
LEMMA ClearAudioGood ==
  ASSUME NEW st, Good(st) PROVE GoodStep(st, ClearAudio(st))
<1> DEFINE t == ResetTurn(st.turn)
           u == [st EXCEPT !.buf = 0, !.seg = FALSE, !.eot = FALSE, !.det = FALSE,
                           !.turn = t, !.speechItem = 0]
           evs == <<Ev("cleared", 0, 0, "")>>
<1>1. t \in Turn /\ t.responseActive = st.turn.responseActive
  BY DEF Good, SessionOK, ResetTurn, Turn
<1>2. ClearAudio(st) = Emits(u, evs)
  BY DEF ClearAudio, DisarmEndOfTurn, ClearBuffer, Good, SessionOK
<1>3. evs \in Seq(Events)
  <2>1. "cleared" \in EventTypes /\ 0 \in Nat BY DEF EventTypes
  <2>2. Ev("cleared", 0, 0, "") \in Events BY <2>1, EvPlain, Zenon
  <2> QED BY <2>2, EvSeqs
<1>4. st.nextRef \in Nat /\ 0 <= st.nextRef BY DEF Good, SessionOK
<1> HIDE DEF t, evs
<1>5. SessionOK(u) /\ Same(st, u) BY <1>1, <1>4 DEF Good, SessionOK, Same
<1> HIDE DEF u
<1> QED BY <1>2, <1>3, <1>5, EmitsSame, SameGood

\* createItem, accepted or refused.
LEMMA CreateItemGood ==
  ASSUME NEW st, Good(st), NEW call \in Nat, NEW prev \in Nat
  PROVE  GoodStep(st, CreateItem(st, call, prev))
<1> DEFINE ref == st.nextRef + 1
           it  == Item(IF call = 0 THEN "client" ELSE "tool_output", "completed", "words", call)
           evs == <<Ev("item.added", 0, ref, ""), Ev("item.done", 0, ref, "")>>
           x   == [st EXCEPT !.nextRef = ref]
<1>1. ref \in Nat /\ st.speechItem <= ref /\ st.nextRef <= ref
  BY DEF Good, SessionOK
<1>2. it \in Items BY DEF Item, Items, ItemKinds, ItemStatuses, Texts
<1>3. \/ CreateItem(st, call, prev) = Emits(st, <<Error>>)
      \/ CreateItem(st, call, prev) = Emits(x, <<Error>>)
      \/ CreateItem(st, call, prev) = Emits(AppendItem(st, it), evs)
  BY DEF CreateItem
<1> HIDE DEF it
<1>4. GoodStep(st, AppendItem(st, it)) BY <1>2, AppendOK, SameGood DEF Good
<1>5. DOMAIN st.items \subseteq 1..ref BY DEF Good, SessionOK
<1> HIDE DEF ref
<1>6. evs \in Seq(Events)
  <2>1. "item.added" \in EventTypes /\ "item.done" \in EventTypes /\ 0 \in Nat
    BY DEF EventTypes
  <2>2. Ev("item.added", 0, ref, "") \in Events /\ Ev("item.done", 0, ref, "") \in Events
    BY <1>1, <2>1, EvPlain, Zenon
  <2> QED BY <2>2, EvSeqs
<1> HIDE DEF evs
<1>7. SessionOK(x) /\ Same(st, x) BY <1>1, <1>5 DEF Good, SessionOK, Same
<1> HIDE DEF x
<1>8. GoodStep(st, x) BY <1>7, SameGood
<1>9. GoodStep(st, Emits(x, <<Error>>)) BY <1>8, EmitsErrorGood, GoodTrans DEF GoodStep
<1>10. GoodStep(st, Emits(AppendItem(st, it), evs))
  BY <1>4, <1>6, EmitsGood, GoodTrans DEF GoodStep
<1> QED BY <1>3, <1>9, <1>10, EmitsErrorGood

\* deleteItem, accepted or refused.
LEMMA DeleteItemGood ==
  ASSUME NEW st, Good(st), NEW ref \in Nat
  PROVE  GoodStep(st, DeleteItem(st, ref))
<1> DEFINE i == Remove(st.items, ref)
           p == IF st.pendingItem = ref THEN 0 ELSE st.pendingItem
           u == [st EXCEPT !.items = i, !.pendingItem = p]
           evs == <<Ev("item.deleted", 0, ref, "")>>
<1>1. i \in [DOMAIN i -> Items] /\ DOMAIN i \subseteq 1..st.nextRef /\ p \in Nat
  BY DEF Good, SessionOK, Remove
<1>2. \/ DeleteItem(st, ref) = Emits(st, <<Error>>)
      \/ DeleteItem(st, ref) = Emits(u, evs)
  BY DEF DeleteItem, Good, SessionOK
<1>3. evs \in Seq(Events)
  <2>1. "item.deleted" \in EventTypes /\ 0 \in Nat BY DEF EventTypes
  <2>2. Ev("item.deleted", 0, ref, "") \in Events BY <2>1, EvPlain, Zenon
  <2> QED BY <2>2, EvSeqs
<1> HIDE DEF i, p, evs
<1>4. SessionOK(u) /\ Same(st, u) BY <1>1 DEF Good, SessionOK, Same
<1> HIDE DEF u
<1>5. GoodStep(st, Emits(u, evs)) BY <1>3, <1>4, EmitsSame, SameGood
<1> QED BY <1>2, <1>5, EmitsErrorGood

\* CmdCreateResponse is refused while a response is active.
LEMMA CmdCreateResponseGood ==
  ASSUME NEW st, Good(st), NEW voice \in Voices, NEW textOnly \in BOOLEAN
  PROVE  GoodStep(st, CmdCreateResponse(st, voice, textOnly))
<1>1. CASE st.active.ref = 0 BY <1>1, CreateResponseGood DEF CmdCreateResponse
<1>2. CASE st.active.ref # 0 BY <1>2, EmitsErrorGood DEF CmdCreateResponse
<1> QED BY <1>1, <1>2

\* CmdCancelResponse ends the active response or is refused.
LEMMA CmdCancelResponseGood ==
  ASSUME NEW st, Good(st), NEW resp PROVE GoodStep(st, CmdCancelResponse(st, resp))
BY FinishAnyGood, EmitsErrorGood DEF CmdCancelResponse, FinalStatuses

\* CmdClose only cancels the context.
LEMMA CmdCloseGood ==
  ASSUME NEW st, Good(st) PROVE GoodStep(st, Emits(st, <<CancelMark>>))
<1>1. "cancel" \in EventTypes /\ 0 \in Nat BY DEF EventTypes
<1>2. CancelMark \in Events BY <1>1, EvPlain, Zenon DEF CancelMark
<1>3. <<CancelMark>> \in Seq(Events) BY <1>2, EvSeqs
<1> QED BY <1>3, EmitsGood

(* Audio. *)

\* The events the detector reports for a frame are starts and ends.
LEMMA VadBatchOK ==
  ASSUME NEW det \in BOOLEAN, NEW n \in Nat PROVE VadBatch(det, n) \in Seq({"start", "end"})
<1>1. VadBatch(det, n) \in [1..n -> {"start", "end"}] BY DEF VadBatch
<1> QED BY <1>1

\* trimIdle keeps the invariant.
LEMMA TrimIdleGood ==
  ASSUME NEW st, Good(st) PROVE GoodStep(st, TrimIdle(st))
BY TrimOK, SameGood DEF Good

\* handleAudio up to the loop over the detector's events.
LEMMA OnAudioGood ==
  ASSUME NEW st, Good(st), NEW n \in Nat, NEW asrOk \in BOOLEAN
  PROVE  GoodStep(st, OnAudio(st, n, asrOk))
<1> DEFINE b == st.buf + 1
           kept == [st EXCEPT !.buf = b]
           q == VadBatch(st.det, n)
           x == IF n % 2 = 1 THEN ~st.det ELSE st.det
           heard == [kept EXCEPT !.vadq = q, !.det = x]
<1>1. st.det \in BOOLEAN /\ x \in BOOLEAN BY DEF Good, SessionOK
<1>0. b \in Nat BY DEF Good, SessionOK
<1>2. q \in Seq({"start", "end"}) BY <1>1, VadBatchOK
<1>3. OnAudio(st, n, asrOk) =
        IF st.buf + 1 > BufferMax THEN Fatal(st)
        ELSE IF ~asrOk THEN Fatal(kept)
        ELSE IF ~VadEnabled(st.turn) THEN kept
        ELSE IF n = 0 THEN TrimIdle(heard) ELSE heard
  BY DEF OnAudio, Good, SessionOK
<1> HIDE DEF q, x, b
<1>4. SessionOK(kept) /\ Same(st, kept) BY <1>0 DEF Good, SessionOK, Same
<1>5. SessionOK(heard) /\ Same(st, heard) BY <1>0, <1>1, <1>2 DEF Good, SessionOK, Same
<1> HIDE DEF kept, heard
<1>6. GoodStep(st, kept) /\ GoodStep(st, heard) BY <1>4, <1>5, SameGood
<1>7. GoodStep(st, Fatal(kept)) BY <1>6, FatalGood, GoodTrans DEF GoodStep
<1>8. GoodStep(st, TrimIdle(heard)) BY <1>6, TrimIdleGood, GoodTrans DEF GoodStep
<1> QED BY <1>3, <1>6, <1>7, <1>8, FatalGood

\* A speech start: the turn begins and, with interrupt_response, the response ends.
LEMMA OnSpeechStartGood ==
  ASSUME NEW st, Good(st) PROVE GoodStep(st, OnSpeechStart(st))
<1> DEFINE res == StepSpeechStart(st.turn)
           ref == IF st.speechItem # 0 THEN st.speechItem ELSE st.nextRef + 1
           n == IF st.speechItem # 0 THEN st.nextRef ELSE ref
           t == res.turn
           u == [st EXCEPT !.eot = FALSE, !.speechItem = ref, !.seg = TRUE, !.turn = t,
                           !.nextRef = n]
           evs == <<Ev("speech_started", 0, ref, "")>>
           m == Emits(u, evs)
           cut == IF "Interrupt" \in res.d THEN Finish(m, "cancelled") ELSE m
<1>1. ref \in Nat /\ n \in Nat /\ ref <= n /\ DOMAIN st.items \subseteq 1..n
  BY DEF Good, SessionOK
<1>2. t \in Turn /\ t.responseActive = st.turn.responseActive
  <2>1. st.turn \in Turn BY DEF Good, SessionOK
  <2> QED BY <2>1, StepKeeps DEF Keeps
<1>3. OnSpeechStart(st) =
        IF cut.turn.interruptResponse THEN DropDeferredTrigger(cut) ELSE cut
  BY DEF OnSpeechStart, DisarmEndOfTurn, Good, SessionOK
<1> HIDE DEF ref, n, t
<1>4. evs \in Seq(Events)
  <2>1. "speech_started" \in EventTypes /\ 0 \in Nat BY DEF EventTypes
  <2>2. Ev("speech_started", 0, ref, "") \in Events BY <1>1, <2>1, EvPlain, Zenon
  <2> QED BY <2>2, EvSeqs
<1>5. SessionOK(u) /\ Same(st, u) BY <1>1, <1>2 DEF Good, SessionOK, Same
<1> HIDE DEF u, evs, res
<1>6. GoodStep(st, m) /\ Good(m) BY <1>4, <1>5, EmitsSame, SameGood DEF GoodStep
<1> HIDE DEF m
<1>7. "cancelled" \in FinalStatuses BY DEF FinalStatuses
<1>8. GoodStep(st, Finish(m, "cancelled")) BY <1>6, <1>7, FinishAnyGood, GoodTrans
<1>9. GoodStep(st, cut) /\ Good(cut) BY <1>6, <1>8 DEF GoodStep
<1> HIDE DEF cut
<1>10. GoodStep(st, DropDeferredTrigger(cut)) BY <1>9, DropDeferredTriggerGood, GoodTrans
<1> QED BY <1>3, <1>9, <1>10

\* A speech end: the turn is judged and perhaps committed.
LEMMA OnSpeechEndGood ==
  ASSUME NEW st, Good(st), NEW asrOk \in BOOLEAN PROVE GoodStep(st, OnSpeechEnd(st, asrOk))
<1> DEFINE res == StepSpeechEnd(st.turn)
           evs == <<Ev("speech_stopped", 0, st.speechItem, "")>>
           told == IF "EmitSpeechStopped" \in res.d THEN Emits(st, evs) ELSE st
<1>1. OnSpeechEnd(st, asrOk) = Decide(told, res, asrOk) BY DEF OnSpeechEnd
<1>2. Keeps(st.turn, res)
  <2>1. st.turn \in Turn BY DEF Good, SessionOK
  <2> QED BY <2>1, StepKeeps
<1>3. st.speechItem \in Nat BY DEF Good, SessionOK
<1>4. evs \in Seq(Events)
  <2>1. "speech_stopped" \in EventTypes /\ 0 \in Nat BY DEF EventTypes
  <2>2. Ev("speech_stopped", 0, st.speechItem, "") \in Events BY <1>3, <2>1, EvPlain, Zenon
  <2> QED BY <2>2, EvSeqs
<1> HIDE DEF evs, res
<1>5. GoodStep(st, told) /\ Good(told) BY <1>4, EmitsGood, GoodSelf DEF GoodStep
<1>6. told.turn = st.turn BY DEF Emits, Good, SessionOK
<1> HIDE DEF told
<1>7. GoodStep(told, Decide(told, res, asrOk)) BY <1>2, <1>5, <1>6, DecideGood
<1> QED BY <1>1, <1>5, <1>7, GoodTrans

\* One round of the loop over the detector's events.
LEMMA OnVadEventGood ==
  ASSUME NEW st, Good(st), st.vadq # <<>>, NEW asrOk \in BOOLEAN
  PROVE  GoodStep(st, OnVadEvent(st, asrOk))
<1> DEFINE q == Tail(st.vadq)
           rest == [st EXCEPT !.vadq = q]
           d == IF Head(st.vadq) = "start" THEN OnSpeechStart(rest) ELSE OnSpeechEnd(rest, asrOk)
<1>1. st.vadq \in Seq({"start", "end"}) BY DEF Good, SessionOK
<1>2. q \in Seq({"start", "end"}) BY <1>1
<1>3. OnVadEvent(st, asrOk) = IF Len(st.vadq) = 1 THEN TrimIdle(d) ELSE d
  BY DEF OnVadEvent
<1> HIDE DEF q
<1>4. SessionOK(rest) /\ Same(st, rest) BY <1>2 DEF Good, SessionOK, Same
<1> HIDE DEF rest
<1>5. GoodStep(st, rest) /\ Good(rest) BY <1>4, SameGood DEF GoodStep
<1>6. GoodStep(st, OnSpeechStart(rest)) BY <1>5, OnSpeechStartGood, GoodTrans
<1>7. GoodStep(st, OnSpeechEnd(rest, asrOk)) BY <1>5, OnSpeechEndGood, GoodTrans
<1>8. GoodStep(st, d) /\ Good(d) BY <1>6, <1>7 DEF GoodStep
<1> HIDE DEF d
<1>9. GoodStep(st, TrimIdle(d)) BY <1>8, TrimIdleGood, GoodTrans
<1> QED BY <1>3, <1>8, <1>9

(* Pipeline events. *)

\* ensureOutputItem adds the message item of the active response at most once.
LEMMA EnsureOutputItemGood ==
  ASSUME NEW st, Good(st)
  PROVE  LET u == EnsureOutputItem(st) IN GoodStep(st, u) /\ Same(st, u)
<1> DEFINE ref == st.nextRef + 1
           it == Item("message", "in_progress", "words", 0)
           a == AppendItem(st, it)
           b == [a EXCEPT !.active.item = ref]
           evs == <<Ev("output_item.added", st.active.ref, ref, "")>>
<1>1. EnsureOutputItem(st) = st \/ EnsureOutputItem(st) = Emits(b, evs)
  BY DEF EnsureOutputItem
<1>2. ref \in Nat /\ st.active.ref \in Nat
  <2>1. ref \in Nat /\ st.active \in Responses BY DEF Good, SessionOK
  <2> QED BY <2>1 DEF Responses
<1>3. it \in Items BY DEF Item, Items, ItemKinds, ItemStatuses, Texts
<1> HIDE DEF it, ref
<1>4. SessionOK(a) /\ Same(st, a) BY <1>3, AppendOK DEF Good
<1> HIDE DEF a
<1>5. SessionOK(b) /\ Same(a, b)
  <2> DEFINE x == [a.active EXCEPT !.item = ref]
  <2>1. /\ x \in Responses /\ x.ref = a.active.ref /\ x.awaiting = a.active.awaiting
        /\ x.gen = a.active.gen /\ x.dependsOn = a.active.dependsOn
    BY <1>2, <1>4 DEF SessionOK, Responses
  <2>2. b = [a EXCEPT !.active = x] BY <1>4 DEF SessionOK
  <2> HIDE DEF x
  <2>3. SessionOK([a EXCEPT !.active = x]) /\ Same(a, [a EXCEPT !.active = x])
    BY <1>4, <2>1 DEF SessionOK, Same
  <2> QED BY <2>2, <2>3
<1>6. evs \in Seq(Events)
  <2>1. "output_item.added" \in EventTypes BY DEF EventTypes
  <2>2. Ev("output_item.added", st.active.ref, ref, "") \in Events BY <1>2, <2>1, EvPlain, Zenon
  <2> QED BY <2>2, EvSeqs
<1> HIDE DEF b, evs
<1>7. SessionOK(Emits(b, evs)) /\ Same(st, Emits(b, evs))
  BY <1>4, <1>5, <1>6, SameTrans, EmitsSame
<1>8. GoodStep(st, Emits(b, evs)) BY <1>7, SameGood
<1>9. GoodStep(st, st) /\ Same(st, st) BY GoodSelf DEF Same
<1> QED BY <1>1, <1>7, <1>8, <1>9

\* deliverToolCall adds the tool call of the active response at most once.
LEMMA DeliverToolCallGood ==
  ASSUME NEW st, Good(st) PROVE GoodStep(st, DeliverToolCall(st))
<1> DEFINE ref == st.nextRef + 1
           r == st.active.ref
           it == Item("tool_call", "completed", "words", 0)
           a == AppendItem(st, it)
           b == [a EXCEPT !.active.toolItem = ref]
           e1 == Ev("output_item.added", r, ref, "")
           e2 == Ev("arguments.done", r, ref, "")
           e3 == Ev("output_item.done", r, ref, "")
<1>1. DeliverToolCall(st) = st \/ DeliverToolCall(st) = Emits(b, <<e1, e2, e3>>)
  BY DEF DeliverToolCall
<1>2. ref \in Nat /\ r \in Nat
  <2>1. ref \in Nat /\ st.active \in Responses BY DEF Good, SessionOK
  <2> QED BY <2>1 DEF Responses
<1>3. it \in Items BY DEF Item, Items, ItemKinds, ItemStatuses, Texts
<1> HIDE DEF it, ref, r
<1>4. SessionOK(a) /\ Same(st, a) BY <1>3, AppendOK DEF Good
<1> HIDE DEF a
<1>5. SessionOK(b) /\ Same(a, b)
  <2> DEFINE x == [a.active EXCEPT !.toolItem = ref]
  <2>1. /\ x \in Responses /\ x.ref = a.active.ref /\ x.awaiting = a.active.awaiting
        /\ x.gen = a.active.gen /\ x.dependsOn = a.active.dependsOn
    BY <1>2, <1>4 DEF SessionOK, Responses
  <2>2. b = [a EXCEPT !.active = x] BY <1>4 DEF SessionOK
  <2> HIDE DEF x
  <2>3. SessionOK([a EXCEPT !.active = x]) /\ Same(a, [a EXCEPT !.active = x])
    BY <1>4, <2>1 DEF SessionOK, Same
  <2> QED BY <2>2, <2>3
<1>6. e1 \in Events /\ e2 \in Events /\ e3 \in Events
  <2>1. /\ "output_item.added" \in EventTypes /\ "arguments.done" \in EventTypes
        /\ "output_item.done" \in EventTypes
    BY DEF EventTypes
  <2> QED BY <1>2, <2>1, EvPlain, Zenon
<1> HIDE DEF b, e1, e2, e3
<1>7. <<e1, e2, e3>> \in Seq(Events) BY <1>6, EvSeqs
<1>8. GoodStep(st, Emits(b, <<e1, e2, e3>>))
  BY <1>4, <1>5, <1>7, SameTrans, EmitsSame, SameGood
<1> QED BY <1>1, <1>8, GoodSelf

(* A change of the active response that is not about its ref, gen or wait. *)
LEMMA PutActiveGood ==
  ASSUME NEW st, Good(st), NEW x \in Responses, x.ref = st.active.ref,
         x.awaiting = st.active.awaiting, x.gen = st.active.gen,
         x.dependsOn = st.active.dependsOn
  PROVE  GoodStep(st, [st EXCEPT !.active = x])
<1>1. SessionOK([st EXCEPT !.active = x]) /\ Same(st, [st EXCEPT !.active = x])
  BY DEF Good, SessionOK, Same
<1> QED BY <1>1, SameGood

\* maybeComplete ends the response or leaves it.
LEMMA MaybeCompleteGood ==
  ASSUME NEW st, Good(st) PROVE GoodStep(st, MaybeComplete(st))
<1> DEFINE x == IF st.active.finish = "length" THEN "incomplete" ELSE "completed"
<1>1. x \in FinalStatuses BY DEF FinalStatuses
<1>2. MaybeComplete(st) = IF ~Done(st.active) THEN st ELSE Finish(st, x)
  BY DEF MaybeComplete
<1> HIDE DEF x
<1> QED BY <1>1, <1>2, GoodSelf, FinishAnyGood

\* handleResponseEvent, stale events included.
LEMMA OnResponseEventGood ==
  ASSUME NEW st, Good(st), NEW e \in PipeEvents
  PROVE  GoodStep(st, OnResponseEvent(st, e))
<1> DEFINE out == EnsureOutputItem(st)
           r == st.active.ref
<1>0. st.active \in Responses /\ r \in Nat /\ st.active.voice \in Voices
  <2>1. st.active \in Responses BY DEF Good, SessionOK
  <2> QED BY <2>1 DEF Responses
<1>1. GoodStep(st, out) /\ Good(out) BY EnsureOutputItemGood DEF GoodStep
<1>2. out.active \in Responses /\ out.active.item \in Nat
  <2>1. out.active \in Responses BY <1>1 DEF Good, SessionOK
  <2> QED BY <2>1 DEF Responses
<1> HIDE DEF out
<1>3. CASE Stale(st, e) BY <1>3, GoodSelf DEF OnResponseEvent
<1>4. CASE ~Stale(st, e) /\ e.kind = "text"
  <2> DEFINE x == [out.active EXCEPT !.spoke = TRUE]
             u == [out EXCEPT !.active = x]
             d == Ev("delta", r, out.active.item, "")
  <2>1. OnResponseEvent(st, e) = Emits(u, <<d>>)
    BY <1>1, <1>4 DEF OnResponseEvent, out, Good, SessionOK
  <2>2. /\ x \in Responses /\ x.ref = out.active.ref /\ x.awaiting = out.active.awaiting
        /\ x.gen = out.active.gen /\ x.dependsOn = out.active.dependsOn
    BY <1>2 DEF Responses
  <2> HIDE DEF x
  <2>3. GoodStep(st, u) /\ Good(u) BY <1>1, <2>2, PutActiveGood, GoodTrans DEF GoodStep
  <2>4. "delta" \in EventTypes BY DEF EventTypes
  <2>5. d \in Events BY <1>0, <1>2, <2>4, EvPlain
  <2> HIDE DEF u, d
  <2>6. <<d>> \in Seq(Events) BY <2>5, EvSeqs
  <2> QED BY <2>1, <2>3, <2>6, EmitsGood, GoodTrans
<1>5. CASE ~Stale(st, e) /\ e.kind = "audio"
  <2> DEFINE u == [out EXCEPT !.audioEmitted = TRUE]
             d == Ev("audio.delta", r, out.active.item, st.active.voice)
  <2>1. OnResponseEvent(st, e) = Emits(u, <<d>>)
    BY <1>5 DEF OnResponseEvent, out
  <2>2. SessionOK(u) /\ Same(out, u) BY <1>1 DEF Good, SessionOK, Same
  <2>3. "audio.delta" \in EventTypes BY DEF EventTypes
  <2>4. d \in Events BY <1>0, <1>2, <2>3, EvOK
  <2> HIDE DEF u, d
  <2>5. GoodStep(st, u) /\ Good(u) BY <1>1, <2>2, SameGood, GoodTrans DEF GoodStep
  <2>6. <<d>> \in Seq(Events) BY <2>4, EvSeqs
  <2> QED BY <2>1, <2>5, <2>6, EmitsGood, GoodTrans
<1>6. CASE ~Stale(st, e) /\ e.kind = "tool"
  BY <1>6, DeliverToolCallGood DEF OnResponseEvent
<1>7. CASE ~Stale(st, e) /\ e.kind = "llmDone"
  <2> DEFINE f == e.finish
             x == [st.active EXCEPT !.llmDone = TRUE, !.finish = f]
             u == [st EXCEPT !.active = x]
  <2>1. OnResponseEvent(st, e) = MaybeComplete(u)
    BY <1>7 DEF OnResponseEvent, Good, SessionOK
  <2>0. f \in {"", "stop", "length"} BY DEF PipeEvents
  <2> HIDE DEF f
  <2>2. /\ x \in Responses /\ x.ref = st.active.ref /\ x.awaiting = st.active.awaiting
        /\ x.gen = st.active.gen /\ x.dependsOn = st.active.dependsOn
    BY <1>0, <2>0 DEF Responses
  <2> HIDE DEF x
  <2>3. GoodStep(st, u) /\ Good(u) BY <2>2, PutActiveGood DEF GoodStep
  <2> HIDE DEF u
  <2> QED BY <2>1, <2>3, MaybeCompleteGood, GoodTrans
<1>8. CASE ~Stale(st, e) /\ e.kind = "ttsDone"
  <2> DEFINE x == [st.active EXCEPT !.ttsDone = TRUE]
             u == [st EXCEPT !.active = x]
  <2>1. OnResponseEvent(st, e) = MaybeComplete(u)
    BY <1>8 DEF OnResponseEvent, Good, SessionOK
  <2>2. /\ x \in Responses /\ x.ref = st.active.ref /\ x.awaiting = st.active.awaiting
        /\ x.gen = st.active.gen /\ x.dependsOn = st.active.dependsOn
    BY <1>0 DEF Responses
  <2> HIDE DEF x
  <2>3. GoodStep(st, u) /\ Good(u) BY <2>2, PutActiveGood DEF GoodStep
  <2> HIDE DEF u
  <2> QED BY <2>1, <2>3, MaybeCompleteGood, GoodTrans
<1>9. CASE ~Stale(st, e) /\ e.kind = "error"
  <2>1. st.active.ref # 0 BY <1>9 DEF Stale
  <2> QED BY <1>9, <2>1, FailResponseGood DEF OnResponseEvent, Good
<1>10. e.kind \in {"text", "audio", "tool", "llmDone", "ttsDone", "error"} BY DEF PipeEvents
<1> QED BY <1>3, <1>4, <1>5, <1>6, <1>7, <1>8, <1>9, <1>10

\* cleanup leaves no response and no timer.
LEMMA CleanupGood ==
  ASSUME NEW st, Good(st) PROVE GoodStep(st, StopTimers(Finish(st, "cancelled")))
<1> DEFINE f == Finish(st, "cancelled")
           u == [f EXCEPT !.asrWait = FALSE, !.eot = FALSE, !.deferWait = FALSE, !.deferItem = 0]
<1>1. GoodStep(st, f) /\ Good(f) /\ f.active.ref = 0
  BY FinishAnyGood DEF FinalStatuses, GoodStep
<1> HIDE DEF f
<1>2. StopTimers(f) = u
  BY <1>1 DEF StopTimers, StopASRWait, DisarmEndOfTurn, DropDeferredTrigger, Good, SessionOK
<1>3. f.asrWait = FALSE BY <1>1 DEF Good, Bookkeeping, SessionOK
<1>4. SessionOK(u) /\ Same(f, u) BY <1>1, <1>3 DEF Good, SessionOK, Same
<1> HIDE DEF u
<1>5. GoodStep(f, u) BY <1>1, <1>4, SameGood
<1>6. GoodStep(st, u) BY <1>1, <1>5, GoodTrans
<1> QED BY <1>2, <1>6 DEF f

\* Handing an event over keeps the invariant.
LEMMA PopGood ==
  ASSUME NEW st, Good(st), st.out # <<>> PROVE GoodStep(st, [st EXCEPT !.out = Tail(st.out)])
<1> DEFINE o == Tail(st.out)
           u == [st EXCEPT !.out = o]
<1>1. st.out \in Seq(Events) BY DEF Good, SessionOK
<1>2. o \in Seq(Events) BY <1>1
<1> HIDE DEF o
<1>3. SessionOK(u) /\ Same(st, u) BY <1>2 DEF Good, SessionOK, Same
<1> HIDE DEF u
<1>4. GoodStep(st, u) BY <1>3, SameGood
<1> QED BY <1>4 DEF u, o

(* The specification. *)

\* The empty map is typed by anything.
LEMMA EmptyMap ==
  ASSUME NEW S, NEW m, m = <<>>, NEW n \in Nat
  PROVE  m \in [DOMAIN m -> S] /\ DOMAIN m \subseteq 1..n
OBVIOUS

\* A new session satisfies the inductive invariant.
LEMMA InitIInv == Init => IInv
<1> SUFFICES ASSUME Init PROVE IInv OBVIOUS
<1>1. PICK td \in TurnDetections, v \in Voices, m \in Modalities : s = InitSession(td, v, m)
  BY DEF Init
<1>2. td \in TurnDetection /\ m \in BOOLEAN BY SessionAssumption
<1>3. NewTurnManager(td) \in Turn /\ NewTurnManager(td).responseActive = FALSE
  BY <1>2 DEF NewTurnManager, Turn, TurnDetection
<1>4. "" \in Texts BY DEF Texts
<1>5. <<>> \in Seq(Events) /\ <<>> \in Seq({"start", "end"}) /\ <<>> \in Seq(PipeEvents)
  OBVIOUS
<1>6. DOMAIN <<>> = {} OBVIOUS
<1> DEFINE t == NewTurnManager(td)
<1>7. /\ s.turn = t /\ s.voice = v /\ s.textOnly = m /\ s.items = <<>> /\ s.nextRef = 0
      /\ s.buf = 0 /\ s.seg = FALSE /\ s.det = FALSE /\ s.vadq = <<>> /\ s.speechItem = 0
      /\ s.pendingItem = 0 /\ s.acc = "" /\ s.partial = "" /\ s.active = NoResponse
      /\ s.activeGen = 0 /\ s.nextResp = 0 /\ s.audioEmitted = FALSE /\ s.asrWait = FALSE
      /\ s.eot = FALSE /\ s.deferWait = FALSE /\ s.deferItem = 0 /\ s.pipes = <<>>
      /\ s.out = <<>>
  BY <1>1 DEF InitSession
<1>8. SessionOK(s)
  <2>1. s \in [turn : Turn, voice : Voices, textOnly : BOOLEAN,
              items : {s.items}, nextRef : Nat, buf : Nat, seg : BOOLEAN, det : BOOLEAN,
              vadq : Seq({"start", "end"}), speechItem : Nat, pendingItem : Nat,
              acc : Texts, partial : Texts, active : Responses, activeGen : Nat,
              nextResp : Nat, audioEmitted : BOOLEAN, asrWait : BOOLEAN, eot : BOOLEAN,
              deferWait : BOOLEAN, deferItem : Nat, pipes : {s.pipes}, out : Seq(Events)]
    BY <1>1, <1>2, <1>3, <1>4, <1>5, NoResponseOK DEF InitSession
  <2>2. s.items \in [DOMAIN s.items -> Items] /\ DOMAIN s.items \subseteq 1..s.nextRef
    BY <1>7, EmptyMap
  <2>3. s.pipes \in [DOMAIN s.pipes -> Pipes] /\ DOMAIN s.pipes \subseteq 1..s.activeGen
    BY <1>7, EmptyMap
  <2>4. s.speechItem <= s.nextRef
    <3>1. s.speechItem = 0 /\ s.nextRef = 0 BY <1>7
    <3> QED BY ONLY <3>1
  <2> QED BY <2>1, <2>2, <2>3, <2>4 DEF SessionOK
<1>9. Bookkeeping(s) /\ OwnedPipes(s) /\ CurrentPipe(s)
  BY <1>3, <1>6, <1>7, NoResponseOK DEF Bookkeeping, OwnedPipes, CurrentPipe, Running
<1>10. TypeOK BY <1>5, <1>8 DEF TypeOK, Init
<1>11. EventsCurrent BY <1>6 DEF EventsCurrent, Init
<1> QED BY <1>8, <1>9, <1>10, <1>11 DEF IInv, Good

\* The queued pipeline events stay current when the actor makes progress: a generation
\* the actor reaches later is none of theirs.
LEMMA EventsStep ==
  ASSUME EventsCurrent, TypeOK, Progress(s, s'),
         respEvents' = respEvents \/ (respEvents # <<>> /\ respEvents' = Tail(respEvents))
  PROVE  EventsCurrent' /\ respEvents' \in Seq(PipeEvents)
<1>0. respEvents \in Seq(PipeEvents) BY DEF TypeOK
<1>1. respEvents' \in Seq(PipeEvents) BY <1>0
<1>2. ASSUME NEW i \in DOMAIN respEvents'
      PROVE  \E j \in DOMAIN respEvents : respEvents'[i] = respEvents[j]
  <2>1. CASE respEvents' = respEvents BY <2>1
  <2>2. CASE respEvents # <<>> /\ respEvents' = Tail(respEvents)
    BY <1>0, <2>2
  <2> QED BY <2>1, <2>2
<1>3. ASSUME NEW i \in DOMAIN respEvents'
      PROVE  /\ respEvents'[i].gen <= s'.activeGen
             /\ Running(s') /\ respEvents'[i].gen = s'.activeGen
                  => respEvents'[i].resp = s'.active.ref
  <2>1. PICK j \in DOMAIN respEvents : respEvents'[i] = respEvents[j] BY <1>2
  <2>2. respEvents[j] \in PipeEvents BY <1>0
  <2>3. respEvents[j].gen \in Nat BY <2>2 DEF PipeEvents
  <2> QED BY <2>1, <2>3 DEF EventsCurrent, Progress
<1> QED BY <1>1, <1>3 DEF EventsCurrent, Running

\* A step of the actor that keeps its own invariant keeps the whole one.
LEMMA ActorStep ==
  ASSUME IInv, GoodStep(s, s'),
         respEvents' = respEvents \/ (respEvents # <<>> /\ respEvents' = Tail(respEvents)),
         ctx' \in {"open", "late", "done"}, phase' \in {"run", "cleanup", "closed"},
         sent' \in [frames : Nat, commands : Nat]
  PROVE  IInv'
<1>1. EventsCurrent' /\ respEvents' \in Seq(PipeEvents)
  BY EventsStep DEF IInv, GoodStep
<1>2. Good(s') BY DEF GoodStep
<1> QED BY <1>1, <1>2 DEF IInv, TypeOK, Good, SessionOK, Bookkeeping, OwnedPipes, CurrentPipe, Running

(* What a step of a pipeline does: the goroutines of one generation move on, and    *)
(* at most one event of that generation is sent.                                    *)
LEMMA PipelineEffect ==
  ASSUME IInv, NEW g \in DOMAIN s.pipes, LLMStage(g) \/ TTSStage(g)
  PROVE  \E p \in Pipes :
           /\ PipeStep(g, p)
           /\ p.resp = s.pipes[g].resp /\ p.cancelled = s.pipes[g].cancelled
           /\ \/ respEvents' = respEvents
              \/ \E e \in PipeEvents : /\ e.gen = g /\ e.resp = s.pipes[g].resp
                                       /\ respEvents' = Append(respEvents, e)
<1> DEFINE q == s.pipes[g]
<1>1. q \in Pipes BY DEF IInv, Good, SessionOK
<1>2. g \in Nat BY DEF IInv, Good, SessionOK
<1>3. ASSUME NEW kind \in {"text", "audio", "tool", "llmDone", "ttsDone", "error"},
             NEW finish \in {"", "stop", "length"}, Send(g, kind, finish)
      PROVE  \E e \in PipeEvents : /\ e.gen = g /\ e.resp = q.resp
                                   /\ respEvents' = Append(respEvents, e)
  <2>1. q.resp \in Nat BY <1>1 DEF Pipes
  <2> HIDE DEF q
  <2>2. PipeEv(kind, g, q.resp, finish) \in PipeEvents
    BY <1>2, <2>1 DEF PipeEv, PipeEvents
  <2>3. /\ PipeEv(kind, g, q.resp, finish).gen = g
        /\ PipeEv(kind, g, q.resp, finish).resp = q.resp
    BY DEF PipeEv
  <2> QED BY <1>3, <2>2, <2>3 DEF Send, q
<1>4. CASE LLMStage(g)
  <2> DEFINE end == [q EXCEPT !.llm = "end"]
             more == [q EXCEPT !.deltas = q.deltas + 1]
             call == [q EXCEPT !.called = TRUE]
  <2>1. /\ end \in Pipes /\ end.resp = q.resp /\ end.cancelled = q.cancelled
        /\ call \in Pipes /\ call.resp = q.resp /\ call.cancelled = q.cancelled
    BY <1>1 DEF Pipes
  <2>2. more \in Pipes /\ more.resp = q.resp /\ more.cancelled = q.cancelled
    BY <1>1 DEF Pipes
  <2>3. \/ Send(g, "text", "") /\ PipeStep(g, more)
        \/ Send(g, "tool", "") /\ PipeStep(g, call)
        \/ \E finish \in {"stop", "length"} : Send(g, "llmDone", finish) /\ PipeStep(g, end)
        \/ Send(g, "error", "") /\ PipeStep(g, end)
        \/ PipeStep(g, end) /\ UNCHANGED respEvents
    BY <1>1, <1>4 DEF LLMStage, Pipes
  <2> HIDE DEF end, more, call, q
  <2>4. CASE Send(g, "text", "") /\ PipeStep(g, more) BY <1>3, <2>2, <2>4 DEF q
  <2>5. CASE Send(g, "tool", "") /\ PipeStep(g, call) BY <1>3, <2>1, <2>5 DEF q
  <2>6. CASE \E finish \in {"stop", "length"} : Send(g, "llmDone", finish) /\ PipeStep(g, end)
    BY <1>3, <2>1, <2>6 DEF q
  <2>7. CASE Send(g, "error", "") /\ PipeStep(g, end) BY <1>3, <2>1, <2>7 DEF q
  <2>8. CASE PipeStep(g, end) /\ UNCHANGED respEvents BY <2>1, <2>8 DEF q
  <2> QED BY <2>3, <2>4, <2>5, <2>6, <2>7, <2>8
<1>5. CASE TTSStage(g)
  <2> DEFINE end == [q EXCEPT !.tts = "end"]
             more == [q EXCEPT !.audio = q.audio + 1]
  <2>1. end \in Pipes /\ end.resp = q.resp /\ end.cancelled = q.cancelled
    BY <1>1 DEF Pipes
  <2>2. more \in Pipes /\ more.resp = q.resp /\ more.cancelled = q.cancelled
    BY <1>1 DEF Pipes
  <2>3. \/ Send(g, "audio", "") /\ PipeStep(g, more)
        \/ Send(g, "ttsDone", "") /\ PipeStep(g, end)
        \/ Send(g, "error", "") /\ PipeStep(g, end)
        \/ PipeStep(g, end) /\ UNCHANGED respEvents
    BY <1>1, <1>5 DEF TTSStage, Pipes
  <2> HIDE DEF end, more, q
  <2>4. CASE Send(g, "audio", "") /\ PipeStep(g, more) BY <1>3, <2>2, <2>4 DEF q
  <2>5. CASE Send(g, "ttsDone", "") /\ PipeStep(g, end) BY <1>3, <2>1, <2>5 DEF q
  <2>6. CASE Send(g, "error", "") /\ PipeStep(g, end) BY <1>3, <2>1, <2>6 DEF q
  <2>7. CASE PipeStep(g, end) /\ UNCHANGED respEvents BY <2>1, <2>7 DEF q
  <2> QED BY <2>3, <2>4, <2>5, <2>6, <2>7
<1> QED BY <1>4, <1>5

\* A step of a pipeline goroutine keeps the inductive invariant: what it sends carries
\* its own generation and response.
LEMMA PipelineIInv ==
  ASSUME IInv, PipelineStep PROVE IInv'
<1>1. PICK g \in DOMAIN s.pipes : LLMStage(g) \/ TTSStage(g) BY DEF PipelineStep
<1>2. PICK p \in Pipes :
        /\ PipeStep(g, p)
        /\ p.resp = s.pipes[g].resp /\ p.cancelled = s.pipes[g].cancelled
        /\ \/ respEvents' = respEvents
           \/ \E e \in PipeEvents : /\ e.gen = g /\ e.resp = s.pipes[g].resp
                                    /\ respEvents' = Append(respEvents, e)
  BY <1>1, PipelineEffect
<1> DEFINE m == IF Ended(p) THEN Remove(s.pipes, g) ELSE Put(s.pipes, g, p)
<1>3. s' = [s EXCEPT !.pipes = m] /\ UNCHANGED <<ctx, phase, view, sent>>
  BY <1>2 DEF PipeStep
<1>4. /\ DOMAIN m \subseteq DOMAIN s.pipes
      /\ \A h \in DOMAIN m : /\ m[h] \in Pipes /\ m[h].resp = s.pipes[h].resp
                             /\ m[h].cancelled = s.pipes[h].cancelled
  <2>1. s.pipes \in [DOMAIN s.pipes -> Pipes] BY DEF IInv, Good, SessionOK
  <2>2. CASE Ended(p) BY <2>1, <2>2 DEF Remove
  <2>3. CASE ~Ended(p) BY <1>2, <2>1, <2>3 DEF Put
  <2> QED BY <2>2, <2>3
<1>5. m \in [DOMAIN m -> Pipes]
  BY <1>4 DEF Put, Remove
<1> HIDE DEF m
<1>6. SessionOK(s') /\ s'.pipes = m /\ s'.active = s.active /\ s'.activeGen = s.activeGen
        /\ s'.asrWait = s.asrWait /\ s'.turn = s.turn
  BY <1>3, <1>4, <1>5 DEF IInv, Good, SessionOK
<1>7. Bookkeeping(s') BY <1>6 DEF IInv, Good, Bookkeeping
<1>8. OwnedPipes(s') BY <1>4, <1>6 DEF IInv, Good, OwnedPipes
<1>9. CurrentPipe(s') BY <1>4, <1>6 DEF IInv, Good, CurrentPipe, Running
<1>10. respEvents \in Seq(PipeEvents) BY DEF IInv, TypeOK
<1>11. g \in Nat /\ s.activeGen \in Nat /\ g <= s.activeGen
  BY DEF IInv, Good, SessionOK
<1>12. Running(s) /\ g = s.activeGen => s.pipes[g].resp = s.active.ref
  BY DEF IInv, Good, CurrentPipe
<1>13. EventsCurrent' /\ respEvents' \in Seq(PipeEvents)
  <2>1. CASE respEvents' = respEvents
    BY <1>6, <1>10, <2>1 DEF IInv, EventsCurrent, Running
  <2>2. CASE respEvents' # respEvents
    <3>1. PICK e \in PipeEvents : /\ e.gen = g /\ e.resp = s.pipes[g].resp
                                  /\ respEvents' = Append(respEvents, e)
      BY <1>2, <2>2
    <3>2. \A i \in DOMAIN respEvents' :
            respEvents'[i] = e \/ (i \in DOMAIN respEvents /\ respEvents'[i] = respEvents[i])
      BY <1>10, <3>1
    <3>3. ASSUME NEW i \in DOMAIN respEvents'
          PROVE  /\ respEvents'[i].gen <= s'.activeGen
                 /\ Running(s') /\ respEvents'[i].gen = s'.activeGen
                      => respEvents'[i].resp = s'.active.ref
      <4>1. CASE respEvents'[i] = e BY <1>6, <1>11, <1>12, <3>1, <4>1 DEF Running
      <4>2. CASE i \in DOMAIN respEvents /\ respEvents'[i] = respEvents[i]
        BY <1>6, <4>2 DEF IInv, EventsCurrent, Running
      <4> QED BY <3>2, <4>1, <4>2
    <3>4. respEvents' \in Seq(PipeEvents) BY <1>10, <3>1
    <3> QED BY <3>3, <3>4 DEF EventsCurrent, Running
  <2> QED BY <2>1, <2>2
<1>14. TypeOK'
  BY <1>3, <1>6, <1>13 DEF IInv, TypeOK, SessionOK
<1> QED BY <1>6, <1>7, <1>8, <1>9, <1>13, <1>14
     DEF IInv, Good, SessionOK, Bookkeeping, OwnedPipes, CurrentPipe, Running

\* A handler of the actor loop.
LEMMA HandleIInv ==
  ASSUME IInv, NEW t, Handle(t), GoodStep(s, t),
         respEvents' = respEvents \/ (respEvents # <<>> /\ respEvents' = Tail(respEvents)),
         sent' \in [frames : Nat, commands : Nat]
  PROVE  IInv'
<1>1. s' = t /\ ctx' \in {"open", "late", "done"} /\ phase' \in {"run", "cleanup", "closed"}
  BY DEF IInv, TypeOK, Handle
<1>2. GoodStep(s, s') BY <1>1
<1> QED BY <1>1, <1>2, ActorStep

\* A client command.
LEMMA CommandIInv ==
  ASSUME IInv, NEW kind, NEW t, Command(kind, t), GoodStep(s, t)
  PROVE  IInv'
<1>1. sent' \in [frames : Nat, commands : Nat] BY DEF IInv, TypeOK, Command
<1> QED BY <1>1, HandleIInv DEF Command

\* Every client command keeps the inductive invariant.
LEMMA CommandsIInv ==
  ASSUME IInv,
         \/ HandleUpdate \/ HandleCommit \/ HandleClear \/ HandleItem
         \/ HandleDelete \/ HandleCreate \/ HandleCancel \/ HandleClose
  PROVE  IInv'
<1>1. Good(s) BY DEF IInv
<1>2. AsrOutcomes \subseteq BOOLEAN BY DEF AsrOutcomes
<1>3. s.turn \in Turn /\ s.nextRef \in Nat /\ DOMAIN s.items \subseteq Nat
  BY <1>1 DEF Good, SessionOK
<1>4. CASE HandleUpdate
  <2>1. PICK hasTD \in BOOLEAN, td \in TurnDetections, v \in Voices, m \in Modalities :
          Command("update", UpdateSession(s, hasTD, td, v, m))
    BY <1>4 DEF HandleUpdate
  <2>2. td \in TurnDetection /\ m \in BOOLEAN BY SessionAssumption
  <2>3. GoodStep(s, UpdateSession(s, hasTD, td, v, m)) BY <1>1, <2>2, UpdateSessionGood
  <2> QED BY <2>1, <2>3, CommandIInv
<1>5. CASE HandleCommit
  <2>1. PICK ok \in AsrOutcomes : Command("commit", Decide(s, StepClientCommit(s.turn), ok))
    BY <1>5 DEF HandleCommit
  <2>2. ok \in BOOLEAN BY <1>2
  <2>3. GoodStep(s, Decide(s, StepClientCommit(s.turn), ok))
    BY <1>1, <1>3, <2>2, StepKeeps, DecideGood
  <2> QED BY <2>1, <2>3, CommandIInv
<1>6. CASE HandleClear BY <1>1, <1>6, ClearAudioGood, CommandIInv DEF HandleClear
<1>7. CASE HandleItem
  <2>1. PICK call \in {0} \cup DOMAIN s.items, prev \in 0..s.nextRef :
          Command("item", CreateItem(s, call, prev))
    BY <1>7 DEF HandleItem
  <2>2. call \in Nat /\ prev \in Nat BY <1>3
  <2>3. GoodStep(s, CreateItem(s, call, prev)) BY <1>1, <2>2, CreateItemGood
  <2> QED BY <2>1, <2>3, CommandIInv
<1>8. CASE HandleDelete
  <2>1. PICK ref \in 1..s.nextRef : Command("delete", DeleteItem(s, ref))
    BY <1>8 DEF HandleDelete
  <2>2. ref \in Nat BY <1>3
  <2>3. GoodStep(s, DeleteItem(s, ref)) BY <1>1, <2>2, DeleteItemGood
  <2> QED BY <2>1, <2>3, CommandIInv
<1>9. CASE HandleCreate
  <2>1. PICK v \in Voices, m \in Modalities : Command("create", CmdCreateResponse(s, v, m))
    BY <1>9 DEF HandleCreate
  <2>2. m \in BOOLEAN BY SessionAssumption
  <2>3. GoodStep(s, CmdCreateResponse(s, v, m)) BY <1>1, <2>2, CmdCreateResponseGood
  <2> QED BY <2>1, <2>3, CommandIInv
<1>10. CASE HandleCancel
  <2>1. PICK r \in 0..s.nextResp : Command("cancel", CmdCancelResponse(s, r))
    BY <1>10 DEF HandleCancel
  <2>2. GoodStep(s, CmdCancelResponse(s, r)) BY <1>1, CmdCancelResponseGood
  <2> QED BY <2>1, <2>2, CommandIInv
<1>11. CASE HandleClose BY <1>1, <1>11, CmdCloseGood, CommandIInv DEF HandleClose
<1> QED BY <1>4, <1>5, <1>6, <1>7, <1>8, <1>9, <1>10, <1>11

\* Audio, detector, recognizer, pipeline events and timers keep the inductive invariant.
LEMMA InputsIInv ==
  ASSUME IInv,
         \/ HandleAudio \/ VadEvent \/ HandleASR \/ HandleResponseEvent
         \/ TranscriptTimeout \/ EndOfTurnTimer \/ DeferredTimeout
  PROVE  IInv'
<1>1. Good(s) BY DEF IInv
<1>2. AsrOutcomes \subseteq BOOLEAN BY DEF AsrOutcomes
<1>3. sent \in [frames : Nat, commands : Nat] BY DEF IInv, TypeOK
<1>4. CASE HandleAudio
  <2>1. PICK n \in 0..(IF VadEnabled(s.turn) THEN MaxVadBatch ELSE 0), ok \in AsrOutcomes :
          Handle(OnAudio(s, n, ok))
    BY <1>4 DEF HandleAudio
  <2>2. n \in Nat BY SessionAssumption
  <2>3. ok \in BOOLEAN BY <1>2
  <2>4. GoodStep(s, OnAudio(s, n, ok)) BY <1>1, <2>2, <2>3, OnAudioGood
  <2>5. sent' \in [frames : Nat, commands : Nat] /\ respEvents' = respEvents
    BY <1>3, <1>4 DEF HandleAudio
  <2> QED BY <2>1, <2>4, <2>5, HandleIInv
<1>5. CASE VadEvent
  <2>1. PICK ok \in AsrOutcomes : s' = OnVadEvent(s, ok) BY <1>5 DEF VadEvent
  <2>2. ok \in BOOLEAN BY <1>2
  <2>3. GoodStep(s, s') BY <1>1, <1>5, <2>1, <2>2, OnVadEventGood DEF VadEvent
  <2>4. /\ ctx' \in {"open", "late", "done"} /\ phase' \in {"run", "cleanup", "closed"}
        /\ sent' \in [frames : Nat, commands : Nat] /\ respEvents' = respEvents
    BY <1>5 DEF VadEvent, IInv, TypeOK
  <2> QED BY <2>3, <2>4, ActorStep
<1>6. CASE HandleASR
  <2>1. sent' \in [frames : Nat, commands : Nat] /\ respEvents' = respEvents
    BY <1>3, <1>6 DEF HandleASR
  <2>2. ASSUME NEW text \in Partials, Handle(OnPartial(s, text)) PROVE IInv'
    <3>1. text \in Texts BY SessionAssumption
    <3>2. GoodStep(s, OnPartial(s, text)) BY <1>1, <3>1, OnPartialGood
    <3> QED BY <2>1, <2>2, <3>2, HandleIInv
  <2>3. ASSUME NEW f \in Finals, NEW ok \in AsrOutcomes, Handle(OnFinal(s, f[1], f[2], ok))
        PROVE IInv'
    <3>1. f[1] \in Texts /\ f[2] \in BOOLEAN BY SessionAssumption
    <3>2. ok \in BOOLEAN BY <1>2
    <3>3. GoodStep(s, OnFinal(s, f[1], f[2], ok)) BY <1>1, <3>1, <3>2, OnFinalGood
    <3> QED BY <2>1, <2>3, <3>3, HandleIInv
  <2>4. ASSUME NEW ok \in AsrOutcomes, Handle(OnEndOfTurn(s, ok)) PROVE IInv'
    <3>1. ok \in BOOLEAN BY <1>2
    <3>2. GoodStep(s, OnEndOfTurn(s, ok)) BY <1>1, <3>1, OnEndOfTurnGood
    <3> QED BY <2>1, <2>4, <3>2, HandleIInv
  <2>5. CASE Handle(Fatal(s)) BY <1>1, <2>1, <2>5, FatalGood, HandleIInv
  <2> QED BY <1>6, <2>2, <2>3, <2>4, <2>5 DEF HandleASR
<1>7. CASE HandleResponseEvent
  <2>1. respEvents \in Seq(PipeEvents) /\ respEvents # <<>>
    BY <1>7 DEF IInv, TypeOK, HandleResponseEvent
  <2>2. Head(respEvents) \in PipeEvents BY <2>1
  <2>3. GoodStep(s, OnResponseEvent(s, Head(respEvents))) BY <1>1, <2>2, OnResponseEventGood
  <2>4. /\ sent' \in [frames : Nat, commands : Nat] /\ respEvents' = Tail(respEvents)
        /\ Handle(OnResponseEvent(s, Head(respEvents)))
    BY <1>3, <1>7 DEF HandleResponseEvent
  <2> QED BY <2>1, <2>3, <2>4, HandleIInv
<1>8. CASE TranscriptTimeout
  BY <1>1, <1>3, <1>8, OnTranscriptTimeoutGood, HandleIInv DEF TranscriptTimeout
<1>9. CASE EndOfTurnTimer
  <2>1. PICK ok \in AsrOutcomes :
          Handle(Decide([s EXCEPT !.eot = FALSE], StepEndOfTurn(s.turn), ok))
    BY <1>9 DEF EndOfTurnTimer
  <2>2. ok \in BOOLEAN BY <1>2
  <2>3. GoodStep(s, Decide([s EXCEPT !.eot = FALSE], StepEndOfTurn(s.turn), ok))
    BY <1>1, <2>2, EotGood
  <2>4. sent' = sent /\ respEvents' = respEvents BY <1>9 DEF EndOfTurnTimer
  <2> QED BY <1>3, <2>1, <2>3, <2>4, HandleIInv
<1>10. CASE DeferredTimeout
  BY <1>1, <1>3, <1>10, OnDeferredTimeoutGood, HandleIInv DEF DeferredTimeout
<1> QED BY <1>4, <1>5, <1>6, <1>7, <1>8, <1>9, <1>10

\* Every step keeps the inductive invariant.
LEMMA NextIInv ==
  ASSUME IInv, [Next]_vars PROVE IInv'
<1>1. Good(s) BY DEF IInv
<1>2. /\ ctx \in {"open", "late", "done"} /\ phase \in {"run", "cleanup", "closed"}
      /\ sent \in [frames : Nat, commands : Nat]
  BY DEF IInv, TypeOK
<1>3. ASSUME UNCHANGED <<s, respEvents, sent>>,
             ctx' \in {"open", "late", "done"}, phase' \in {"run", "cleanup", "closed"}
      PROVE  IInv'
  <2>1. GoodStep(s, s') BY <1>1, <1>3, GoodSelf
  <2> QED BY <1>2, <1>3, <2>1, ActorStep
<1>4. CASE Handlers BY <1>4, CommandsIInv, InputsIInv DEF Handlers
<1>5. ASSUME s.out # <<>>, Pop, ctx' \in {"open", "late", "done"} PROVE IInv'
  <2>1. s' = [s EXCEPT !.out = Tail(s.out)] /\ UNCHANGED <<phase, respEvents, sent>>
    BY <1>5 DEF Pop
  <2>2. GoodStep(s, s') BY <1>1, <1>5, <2>1, PopGood
  <2> QED BY <1>2, <1>5, <2>1, <2>2, ActorStep
<1>6. CASE Deliver BY <1>2, <1>5, <1>6 DEF Deliver
<1>7. CASE Drop BY <1>2, <1>5, <1>7 DEF Drop
<1>8. CASE CancelSelf BY <1>2, <1>5, <1>8 DEF CancelSelf
<1>9. CASE CancelOutside BY <1>2, <1>3, <1>9 DEF CancelOutside
<1>10. CASE Cleanup
  <2>1. GoodStep(s, s') BY <1>1, <1>10, CleanupGood DEF Cleanup
  <2> QED BY <1>2, <1>10, <2>1, ActorStep DEF Cleanup
<1>11. CASE CloseEvents BY <1>2, <1>3, <1>11 DEF CloseEvents
<1>12. CASE Closed BY <1>2, <1>3, <1>12 DEF Closed, vars
<1>13. CASE PipelineStep BY <1>13, PipelineIInv
<1>14. CASE UNCHANGED vars BY <1>2, <1>3, <1>14 DEF vars
<1> QED BY <1>4, <1>6, <1>7, <1>8, <1>9, <1>10, <1>11, <1>12, <1>13, <1>14 DEF Next

\* The actor's bookkeeping holds in every reachable state, whatever the order of
\* commands, audio, recognizer events, pipeline events, timers, faults and cancels: the
\* inductive invariant.
THEOREM SessionInvariant == Spec => []IInv
BY InitIInv, NextIInv, PTL DEF Spec

\* Every reachable state of the session is well typed, and every ref and generation in
\* use was allocated (conversation.newRef, startPipeline).
THEOREM TypeCorrect == Spec => []TypeOK
<1>1. IInv => TypeOK BY DEF IInv
<1> QED BY <1>1, SessionInvariant, PTL

\* No response waits without asr_final_timeout and none is unknown to the turn manager
\* (createResponseAt, stopASRWait, finish): ResponseBookkeeping always holds.
THEOREM Bookkept == Spec => []ResponseBookkeeping
<1>1. IInv => ResponseBookkeeping BY DEF IInv, Good, ResponseBookkeeping
<1> QED BY <1>1, SessionInvariant, PTL

\* A pipeline whose context is alive is the active response's (finish cancels it before
\* it forgets the response): NoOrphanPipeline always holds.
THEOREM NoOrphans == Spec => []NoOrphanPipeline
<1>1. IInv => NoOrphanPipeline BY DEF IInv, Good, NoOrphanPipeline
<1> QED BY <1>1, SessionInvariant, PTL

\* The generation test at the head of handleResponseEvent is enough: no event of an
\* earlier response is ever applied to a later one.
THEOREM OnlyCurrentAccepted == Spec => []AcceptedIsCurrent
<1>1. IInv => AcceptedIsCurrent
  BY DEF IInv, EventsCurrent, Running, AcceptedIsCurrent, Stale
<1> QED BY <1>1, SessionInvariant, PTL
=============================================================================
