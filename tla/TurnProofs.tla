----------------------------- MODULE TurnProofs -----------------------------
(***************************************************************************)
(* What the actor's handlers do to the user's turn: barge-in, the speech   *)
(* mark of the input buffer, and the response that awaits a transcript.    *)
(* Most methods leave the turn as it is and start nothing that was not     *)
(* already begun or deferred (Still); the others are the turn manager's    *)
(* decisions and a speech start.                                           *)
(***************************************************************************)
EXTENDS ContractProofs

(* The step leaves the turn and its mark alone. *)
SameTurn(st, u) ==
  /\ u.turn.speaking = st.turn.speaking /\ u.turn.pendingEOT = st.turn.pendingEOT
  /\ u.turn.interruptResponse = st.turn.interruptResponse
  /\ u.seg = st.seg /\ u.speechItem = st.speechItem

(* A response after it was there before, or deferred; and so was a deferred one. *)
StartsNothing(st, u) ==
  /\ u.active.ref # 0 => st.active.ref # 0 \/ st.deferItem # 0
  /\ u.deferItem # 0 => st.deferItem # 0

(* A response that is there ends, or goes on waiting or running. *)
Awaits(st, u) ==
  st.active.ref # 0 =>
    u.active.ref = 0 \/ (u.active.ref = st.active.ref /\ u.active.awaiting = st.active.awaiting)

Still(st, u) == SameTurn(st, u) /\ StartsNothing(st, u)

\* Two such steps are one.
LEMMA StillTrans ==
  ASSUME NEW a, NEW b, NEW c, Still(a, b), Still(b, c) PROVE Still(a, c)
BY DEF Still, SameTurn, StartsNothing

\* A step that changes neither turn nor response.
LEMMA PlainStill ==
  ASSUME NEW st, NEW u, u.turn = st.turn, u.seg = st.seg, u.speechItem = st.speechItem,
         u.active.ref = st.active.ref, u.active.awaiting = st.active.awaiting, u.deferItem = st.deferItem
  PROVE  Still(st, u) /\ Awaits(st, u)
BY DEF Still, SameTurn, StartsNothing, Awaits

\* emit.
LEMMA EmitsStill ==
  ASSUME NEW st, SessionOK(st), NEW evs
  PROVE  LET u == Emits(st, evs)
         IN  Still(st, u) /\ Awaits(st, u) /\ u.active = st.active /\ u.items = st.items
<1>1. LET u == Emits(st, evs)
      IN  /\ u.turn = st.turn /\ u.seg = st.seg /\ u.speechItem = st.speechItem
          /\ u.active = st.active /\ u.deferItem = st.deferItem /\ u.items = st.items
  BY DEF SessionOK, Emits
<1> QED BY <1>1, PlainStill

\* finish leaves no response.
LEMMA FinishStill ==
  ASSUME NEW st, SessionOK(st), NEW status
  PROVE  LET u == Finish(st, status)
         IN  Still(st, u) /\ Awaits(st, u) /\ u.active.ref = 0 /\ u.deferItem = st.deferItem
<1> DEFINE p == [g \in DOMAIN st.pipes |-> IF g = st.active.gen
                   THEN [st.pipes[g] EXCEPT !.cancelled = TRUE] ELSE st.pipes[g]]
           i == IF ~HasOutputItem(st) THEN st.items
                ELSE [st.items EXCEPT ![st.active.item].status =
                        IF status = "completed" THEN "completed" ELSE "incomplete"]
           t == StepResponseEnded(st.turn)
           g == st.activeGen + 1
           b == [st EXCEPT !.pipes = p, !.asrWait = FALSE, !.items = i,
                           !.active = NoResponse, !.turn = t, !.activeGen = g]
           evs == TerminalEvents(st, status)
           u == Emits(b, evs)
<1>1. CASE st.active.ref = 0
  <2>1. Finish(st, status) = st
    BY <1>1 DEF Finish
  <2> QED BY <1>1, <2>1, PlainStill
<1>2. CASE st.active.ref # 0
  <2>1. Finish(st, status) = u
    <3>1. CASE HasOutputItem(st)
      BY <1>2, <3>1 DEF SessionOK, Finish, CloseOutputItem, StopASRWait, CancelPipeline, HasOutputItem
    <3>2. CASE ~HasOutputItem(st)
      BY <1>2, <3>2 DEF SessionOK, Finish, CloseOutputItem, StopASRWait, CancelPipeline, HasOutputItem
    <3> QED BY <3>1, <3>2
  <2>2. /\ t.speaking = st.turn.speaking /\ t.pendingEOT = st.turn.pendingEOT
        /\ t.interruptResponse = st.turn.interruptResponse
    BY DEF SessionOK, Turn, StepResponseEnded
  <2>3. NoResponse.ref = 0
    BY DEF NoResponse
  <2> HIDE DEF p, i, t, g, evs
  <2>4. /\ u.turn = t /\ u.seg = st.seg /\ u.speechItem = st.speechItem
        /\ u.active = NoResponse /\ u.deferItem = st.deferItem
    BY DEF SessionOK, Emits
  <2> HIDE DEF u
  <2> QED BY <2>1, <2>2, <2>3, <2>4 DEF Still, SameTurn, StartsNothing, Awaits
<1> QED BY <1>1, <1>2

\* startPipeline ends the waiting of the response, and nothing else.
LEMMA StartPipelineStill ==
  ASSUME NEW st, SessionOK(st)
  PROVE  LET u == StartPipeline(st)
         IN  /\ Still(st, u) /\ u.active.ref = st.active.ref /\ u.items = st.items
             /\ u.active.dependsOn = st.active.dependsOn /\ u.deferItem = st.deferItem
<1> DEFINE g == st.activeGen + 1
           p == Put(st.pipes, g, Pipe(st.active.ref, st.active.textOnly))
           a == [st.active EXCEPT !.awaiting = FALSE, !.gen = g]
           u == [st EXCEPT !.active = a, !.activeGen = g, !.pipes = p]
<1>1. StartPipeline(st) = u
  BY DEF StartPipeline, SessionOK
<1>2. a.ref = st.active.ref /\ a.dependsOn = st.active.dependsOn
  BY DEF SessionOK, Responses
<1> HIDE DEF a, p, g
<1>3. /\ u.turn = st.turn /\ u.seg = st.seg /\ u.speechItem = st.speechItem
      /\ u.active = a /\ u.deferItem = st.deferItem /\ u.items = st.items
  BY DEF SessionOK
<1> HIDE DEF u
<1> QED BY <1>1, <1>2, <1>3 DEF Still, SameTurn, StartsNothing

\* createResponse: a new response, and nothing else.
LEMMA CreateTurn ==
  ASSUME NEW st, Good(st), st.active.ref = 0, NEW voice \in Voices, NEW textOnly \in BOOLEAN
  PROVE  LET u == CreateResponse(st, voice, textOnly)
         IN  SameTurn(st, u) /\ u.deferItem = st.deferItem /\ u.items = st.items
<1> DEFINE waits == st.pendingItem # 0 /\ st.items[st.pendingItem].status # "completed"
           r == [NoResponse EXCEPT !.ref = st.nextResp + 1, !.awaiting = TRUE, !.voice = voice,
                              !.textOnly = textOnly,
                              !.dependsOn = IF waits THEN st.pendingItem ELSE 0]
           n == st.nextResp + 1
           t == StepResponseStarted(st.turn)
           b == [st EXCEPT !.nextResp = n, !.active = r, !.turn = t]
           e == Ev("response.created", r.ref, 0, "")
           c == Emits(b, <<e>>)
           u == CreateResponse(st, voice, textOnly)
<1> SUFFICES SameTurn(st, u) /\ u.deferItem = st.deferItem /\ u.items = st.items
  OBVIOUS
<1>1. SessionOK(st) /\ st.turn \in Turn /\ n \in Nat
  BY DEF Good, SessionOK
<1>2. \/ u = Emits(st, <<Error>>)
      \/ u = ArmASRWait(c)
      \/ u = StartPipeline(c)
  BY DEF CreateResponse, CreateAccepted
<1>3. /\ t.speaking = st.turn.speaking /\ t.pendingEOT = st.turn.pendingEOT
      /\ t.interruptResponse = st.turn.interruptResponse /\ t \in Turn
  BY <1>1 DEF Turn, StepResponseStarted
<1>4. r \in Responses
  <2> DEFINE dep == IF waits THEN st.pendingItem ELSE 0
  <2>1. dep \in Nat
    BY <1>1 DEF SessionOK
  <2> HIDE DEF dep, n
  <2>2. [NoResponse EXCEPT !.ref = n, !.awaiting = TRUE, !.voice = voice,
                           !.textOnly = textOnly, !.dependsOn = dep] \in Responses
    BY <1>1, <2>1, NoResponseOK DEF Responses
  <2> QED BY <2>2 DEF n, dep
<1> HIDE DEF n, r, t, e, u
<1>5. /\ b.turn = t /\ b.seg = st.seg /\ b.speechItem = st.speechItem /\ b.deferItem = st.deferItem
      /\ b.items = st.items /\ SessionOK(b)
  BY <1>1, <1>3, <1>4 DEF SessionOK
<1> HIDE DEF b
<1>6. /\ c.turn = b.turn /\ c.seg = b.seg /\ c.speechItem = b.speechItem /\ c.deferItem = b.deferItem
      /\ c.items = b.items
  BY <1>5 DEF SessionOK, Emits
<1>7. CASE u = Emits(st, <<Error>>)
  BY <1>1, <1>7 DEF SessionOK, Emits, SameTurn
<1>8. CASE u = ArmASRWait(c)
  <2>1. /\ u.turn = b.turn /\ u.seg = b.seg /\ u.speechItem = b.speechItem /\ u.deferItem = b.deferItem
        /\ u.items = b.items
    BY <1>5, <1>8 DEF SessionOK, Emits, ArmASRWait
  <2> QED BY <1>3, <1>5, <2>1 DEF SameTurn
<1>9. CASE u = StartPipeline(c)
  <2>1. /\ u.turn = b.turn /\ u.seg = b.seg /\ u.speechItem = b.speechItem /\ u.deferItem = b.deferItem
        /\ u.items = b.items
    BY <1>5, <1>9 DEF SessionOK, Emits, StartPipeline
  <2> QED BY <1>3, <1>5, <2>1 DEF SameTurn
<1> QED BY <1>2, <1>7, <1>8, <1>9

\* So does an auto-created response.
LEMMA AutoCreateTurn ==
  ASSUME NEW st, Good(st), st.active.ref = 0
  PROVE  LET u == AutoCreate(st)
         IN  SameTurn(st, u) /\ u.deferItem = st.deferItem /\ u.items = st.items
<1>1. st.voice \in Voices /\ st.textOnly \in BOOLEAN
  BY DEF Good, SessionOK
<1> QED BY <1>1, CreateTurn DEF AutoCreate


(* The item of the conversation is complete. *)
Complete(st, i) == i \in DOMAIN st.items /\ st.items[i].status = "completed"

\* dropDeferredTrigger.
LEMMA DropStill ==
  ASSUME NEW st, SessionOK(st)
  PROVE  LET u == DropDeferredTrigger(st)
         IN  /\ Still(st, u) /\ u.active = st.active /\ u.items = st.items /\ u.deferItem = 0
             /\ u.turn = st.turn
<1>1. LET u == DropDeferredTrigger(st)
      IN  /\ u.turn = st.turn /\ u.seg = st.seg /\ u.speechItem = st.speechItem
          /\ u.active = st.active /\ u.deferItem = 0 /\ u.items = st.items
  BY DEF SessionOK, DropDeferredTrigger
<1> QED BY <1>1 DEF Still, SameTurn, StartsNothing

\* resolveDeferredTrigger creates a response only from a trigger that was deferred, and
\* none while there is one.
LEMMA ResolveStill ==
  ASSUME NEW st, Good(st), NEW ref, NEW text
  PROVE  LET u == ResolveDeferredTrigger(st, ref, text)
         IN  Still(st, u) /\ u.items = st.items /\ (st.active.ref # 0 => u.active = st.active)
<1> DEFINE d == DropDeferredTrigger(st)
           u == ResolveDeferredTrigger(st, ref, text)
<1> SUFFICES Still(st, u) /\ u.items = st.items /\ (st.active.ref # 0 => u.active = st.active)
  OBVIOUS
<1>1. Still(st, d) /\ d.active = st.active /\ d.items = st.items /\ d.deferItem = 0 /\ Good(d)
  BY DropStill, DropDeferredTriggerGood DEF Good, GoodStep
<1>2. \/ u = st
      \/ u = d
      \/ u = AutoCreate(d) /\ st.active.ref = 0 /\ st.deferItem # 0
  BY DEF ResolveDeferredTrigger
<1> HIDE DEF d, u
<1>3. CASE u = st
  BY <1>3 DEF Still, SameTurn, StartsNothing
<1>4. CASE u = d
  BY <1>1, <1>4
<1>5. CASE u = AutoCreate(d) /\ st.active.ref = 0 /\ st.deferItem # 0
  <2>1. SameTurn(d, u) /\ u.deferItem = d.deferItem /\ u.items = d.items
    BY <1>1, <1>5, AutoCreateTurn
  <2> QED BY <1>1, <1>5, <2>1 DEF Still, SameTurn, StartsNothing
<1> QED BY <1>2, <1>3, <1>4, <1>5

\* completePendingItem: of the responses only the one that waited for this item starts.
LEMMA CompleteStill ==
  ASSUME NEW st, Fit(st), st.pendingItem # 0, NEW text \in Texts
  PROVE  LET u == CompletePendingItem(st, text)
         IN  /\ Still(st, u)
             /\ st.active.awaiting => /\ u.active.ref = st.active.ref
                                      /\ u.active.awaiting \/ Complete(u, st.active.dependsOn)
<1> DEFINE ref == st.pendingItem
           b == [st EXCEPT !.pendingItem = 0, !.acc = "",
                           !.items[ref].text = text, !.items[ref].status = "completed"]
           evs == <<Ev("item.done", 0, ref, "")>>
           c == Emits(b, evs)
           p == StartPipeline(StopASRWait(c))
           released == IF c.active.ref # 0 /\ c.active.awaiting /\ c.active.dependsOn = ref
                       THEN p ELSE c
           u == CompletePendingItem(st, text)
<1> SUFFICES /\ Still(st, u)
             /\ st.active.awaiting => /\ u.active.ref = st.active.ref
                                      /\ u.active.awaiting \/ Complete(u, st.active.dependsOn)
  OBVIOUS
<1>0. SessionOK(st) /\ Good(st) /\ Linked(st) /\ Sized(st)
  BY GoodSized DEF Fit, Good
<1>1. SessionOK(b) /\ Same(st, b)
  BY <1>0, PutItemDone
<1>2. ref \in Nat /\ ref \in DOMAIN st.items
  BY <1>0 DEF Sized, Linked, PendingIsOpen
<1>3. u = ResolveDeferredTrigger(released, ref, text)
  BY DEF CompletePendingItem
<1>4. evs \in Seq(Events)
  <2>1. "item.done" \in EventTypes /\ 0 \in Nat
    BY DEF EventTypes
  <2> HIDE DEF ref
  <2>2. Ev("item.done", 0, ref, "") \in Events
    BY <1>2, <2>1, EvPlain, Zenon
  <2> QED BY <2>2, EvSeqs
<1>5. ref \in DOMAIN b.items /\ b.items[ref].status = "completed"
  <2> DEFINE i1 == [st.items EXCEPT ![ref].text = text]
             i2 == [i1 EXCEPT ![ref].status = "completed"]
  <2>1. st.items \in [DOMAIN st.items -> Items]
    BY <1>0 DEF SessionOK
  <2>2. b.items = i2
    BY <1>0 DEF SessionOK
  <2>3. i1 \in [DOMAIN st.items -> Items]
    BY <1>2, <2>1 DEF Items
  <2> HIDE DEF i1
  <2>4. ref \in DOMAIN i2 /\ i2[ref].status = "completed"
    BY <1>2, <2>3 DEF Items
  <2> HIDE DEF b, i2
  <2> QED BY <2>2, <2>4
<1>6. /\ b.turn = st.turn /\ b.seg = st.seg /\ b.speechItem = st.speechItem
      /\ b.active = st.active /\ b.deferItem = st.deferItem
  BY <1>0 DEF SessionOK
<1> HIDE DEF b, ref, evs
<1>7. Good(c)
  BY <1>0, <1>1, <1>4, EmitsSame, SameGood DEF GoodStep
<1>8. Still(b, c) /\ c.active = b.active /\ c.items = b.items
  BY <1>1, EmitsStill
<1> HIDE DEF c
<1>9. Still(st, c) /\ c.active = st.active /\ Complete(c, ref)
  BY <1>5, <1>6, <1>8, PlainStill, StillTrans DEF Complete
<1>10. ASSUME c.active.awaiting
       PROVE  /\ Good(p) /\ Still(c, p) /\ p.active.ref = c.active.ref /\ p.items = c.items
  <2> DEFINE q == StopASRWait(c)
  <2>1. /\ SessionOK(q) /\ q.turn = c.turn /\ q.seg = c.seg /\ q.speechItem = c.speechItem
        /\ q.active = c.active /\ q.deferItem = c.deferItem /\ q.items = c.items
    BY <1>7 DEF Good, SessionOK, StopASRWait
  <2>2. Good(p)
    BY <1>7, <1>10, ReleaseGood, AwaitingCancelled DEF GoodStep
  <2> HIDE DEF q
  <2>3. LET w == StartPipeline(q)
        IN  Still(q, w) /\ w.active.ref = q.active.ref /\ w.items = q.items
    BY <2>1, StartPipelineStill
  <2>4. p = StartPipeline(q)
    BY DEF q
  <2> HIDE DEF p
  <2>5. Still(c, q)
    BY <2>1, PlainStill
  <2> QED BY <2>1, <2>2, <2>3, <2>4, <2>5, StillTrans
<1> HIDE DEF p
<1>11. /\ Good(released) /\ Still(st, released) /\ released.active.ref = st.active.ref
       /\ st.active.awaiting => released.active.awaiting \/ Complete(released, st.active.dependsOn)
  <2>1. CASE c.active.ref # 0 /\ c.active.awaiting /\ c.active.dependsOn = ref
    <3>1. released = p
      BY <2>1
    <3>2. Good(p) /\ Still(c, p) /\ p.active.ref = c.active.ref /\ p.items = c.items
      BY <1>10, <2>1
    <3> QED BY <1>9, <2>1, <3>1, <3>2, StillTrans DEF Complete
  <2>2. CASE ~(c.active.ref # 0 /\ c.active.awaiting /\ c.active.dependsOn = ref)
    <3>1. released = c
      BY <2>2
    <3> QED BY <1>7, <1>9, <3>1
  <2> QED BY <2>1, <2>2
<1> HIDE DEF released, u
<1>12. /\ Still(released, u) /\ u.items = released.items
       /\ released.active.ref # 0 => u.active = released.active
  BY <1>3, <1>11, ResolveStill
<1>13. st.active.awaiting => st.active.ref # 0
  BY <1>0 DEF Good, Bookkeeping
<1> QED BY <1>11, <1>12, <1>13, StillTrans DEF Complete

-----------------------------------------------------------------------------
(* The turn manager's decisions. *)

\* commit: the mark and the reserved ref go together, no completed item is touched.
LEMMA CommitTurn ==
  ASSUME NEW st, SessionOK(st), Linked(st)
  PROVE  LET u == CommitItem(st)
         IN  /\ u.turn = st.turn /\ u.active = st.active /\ u.deferItem = st.deferItem
             /\ u.seg = FALSE /\ u.speechItem = 0
             /\ \A i : Complete(st, i) => Complete(u, i)
<1> DEFINE ref == CommitRef(st)
           it  == Item("user_audio", "in_progress", st.acc, 0)
           n   == IF st.speechItem # 0 THEN st.nextRef ELSE st.nextRef + 1
           i   == Put(st.items, ref, it)
           b   == [st EXCEPT !.buf = 0, !.seg = FALSE, !.speechItem = 0, !.det = FALSE,
                             !.nextRef = n, !.items = i, !.pendingItem = ref]
           evs == <<Ev("committed", 0, ref, ""), Ev("item.added", 0, ref, "")>>
           u == Emits(b, evs)
<1>1. CommitItem(st) = u
  BY DEF CommitItem, ReleaseSpeechItem, ClearBuffer, SessionOK
<1>2. ref \notin DOMAIN st.items
  <2>1. st.nextRef + 1 \notin DOMAIN st.items
    BY DEF SessionOK
  <2> QED BY <2>1 DEF Linked, CommitRef
<1> HIDE DEF ref, it, n, evs
<1>3. \A k \in DOMAIN st.items : k \in DOMAIN i /\ i[k] = st.items[k]
  BY <1>2 DEF Put
<1> HIDE DEF i
<1>4. /\ u.turn = st.turn /\ u.active = st.active /\ u.deferItem = st.deferItem
      /\ u.seg = FALSE /\ u.speechItem = 0 /\ u.items = i
  BY DEF SessionOK, Emits
<1> HIDE DEF u
<1> QED BY <1>1, <1>3, <1>4 DEF Complete

\* apply: the turn stays as the manager left it, a response there is kept, and without a
\* commit or a trigger in the decision nothing starts.
LEMMA ApplyTurn ==
  ASSUME NEW st, Fit(st), NEW d, NEW asrOk \in BOOLEAN
  PROVE  LET u == Apply(st, d, asrOk)
         IN  /\ u.turn.speaking = st.turn.speaking
             /\ u.turn.interruptResponse = st.turn.interruptResponse
             /\ u.seg => st.seg /\ u.speechItem = st.speechItem
             /\ st.active.ref # 0 => u.active = st.active
             /\ "Commit" \notin d /\ "Trigger" \notin d =>
                  u.active = st.active /\ u.deferItem = st.deferItem
             /\ \A i : Complete(st, i) => Complete(u, i)
<1> DEFINE a == ArmTimers(st, d)
           i == CommitItem(a)
           c == IF "Commit" \notin d THEN a
                ELSE IF a.buf = 0 THEN Emits(a, <<Error>>)
                ELSE IF ~asrOk THEN Fatal(i)
                ELSE IF "DeferTrigger" \in d THEN DeferTrigger(i)
                ELSE i
           u == Apply(st, d, asrOk)
           Left(x) == /\ x.turn = st.turn /\ x.active = st.active
                      /\ x.seg => st.seg /\ x.speechItem = st.speechItem
                      /\ \A k : Complete(st, k) => Complete(x, k)
           Goal(x) == /\ x.turn.speaking = st.turn.speaking
                      /\ x.turn.interruptResponse = st.turn.interruptResponse
                      /\ x.seg => st.seg /\ x.speechItem = st.speechItem
                      /\ st.active.ref # 0 => x.active = st.active
                      /\ "Commit" \notin d /\ "Trigger" \notin d =>
                           x.active = st.active /\ x.deferItem = st.deferItem
                      /\ \A k : Complete(st, k) => Complete(x, k)
<1> SUFFICES Goal(u)
  OBVIOUS
<1>1. u = IF "Trigger" \in d /\ c.active.ref = 0 THEN AutoCreate(c) ELSE c
  BY DEF Apply
<1>2. SessionOK(st) /\ Good(st) /\ Linked(st)
  BY DEF Fit, Good
<1>3. Good(a) /\ SessionOK(a)
  BY <1>2, ArmTimersGood DEF GoodStep, Good
<1>4. /\ Left(a) /\ a.deferItem = st.deferItem /\ a.items = st.items /\ a.pendingItem = st.pendingItem
      /\ a.speechItem = st.speechItem
  <2>1. /\ a.turn = st.turn /\ a.active = st.active /\ a.seg = st.seg /\ a.speechItem = st.speechItem
        /\ a.deferItem = st.deferItem /\ a.items = st.items /\ a.pendingItem = st.pendingItem
        /\ a.nextResp = st.nextResp
    BY <1>2 DEF SessionOK, ArmTimers
  <2> HIDE DEF a
  <2> QED BY <2>1 DEF Complete
<1>5. Linked(a)
  <2>1. a.active = st.active /\ a.nextResp = st.nextResp
    BY <1>2 DEF SessionOK, ArmTimers
  <2> HIDE DEF a
  <2> QED BY <1>2, <1>4, <2>1 DEF Linked, PendingIsOpen
<1> HIDE DEF a
<1>6. Left(i) /\ i.seg = FALSE
  BY <1>3, <1>4, <1>5, CommitTurn
<1>7. Good(i) /\ SessionOK(i)
  BY <1>3, CommitItemGood DEF GoodStep, Good
<1> HIDE DEF i
<1>8. ASSUME NEW x, NEW y, Left(x), y.turn = x.turn, y.active = x.active, y.seg = x.seg,
             y.speechItem = x.speechItem, y.items = x.items
      PROVE  Left(y)
  BY <1>8 DEF Complete
<1>9. Left(Emits(a, <<Error>>)) /\ Good(Emits(a, <<Error>>))
  <2> DEFINE y == Emits(a, <<Error>>)
  <2>1. /\ y.turn = a.turn /\ y.active = a.active /\ y.seg = a.seg
        /\ y.speechItem = a.speechItem /\ y.items = a.items
    BY <1>3 DEF SessionOK, Emits
  <2>2. Good(y)
    BY <1>3, EmitsErrorGood DEF GoodStep
  <2> HIDE DEF y, Left
  <2>3. Left(y)
    BY <1>4, <1>8, <2>1
  <2> QED BY <2>2, <2>3 DEF y
<1>10. Left(Fatal(i)) /\ Good(Fatal(i))
  <2> DEFINE y == Fatal(i)
  <2>1. /\ y.turn = i.turn /\ y.active = i.active /\ y.seg = i.seg
        /\ y.speechItem = i.speechItem /\ y.items = i.items
    BY <1>7 DEF SessionOK, Emits, Fatal
  <2>2. Good(y)
    BY <1>7, FatalGood DEF GoodStep
  <2> HIDE DEF y, Left
  <2>3. Left(y)
    BY <1>6, <1>8, <2>1
  <2> QED BY <2>2, <2>3 DEF y
<1>11. Left(DeferTrigger(i)) /\ Good(DeferTrigger(i))
  <2> DEFINE y == DeferTrigger(i)
  <2>1. /\ y.turn = i.turn /\ y.active = i.active /\ y.seg = i.seg
        /\ y.speechItem = i.speechItem /\ y.items = i.items
    BY <1>7 DEF SessionOK, DeferTrigger
  <2>2. Good(y)
    BY <1>7, DeferTriggerGood DEF GoodStep
  <2> HIDE DEF y, Left
  <2>3. Left(y)
    BY <1>6, <1>8, <2>1
  <2> QED BY <2>2, <2>3 DEF y
<1> HIDE DEF Left
<1>12. Left(c) /\ Good(c) /\ ("Commit" \notin d => c.deferItem = st.deferItem)
  BY <1>3, <1>4, <1>6, <1>7, <1>9, <1>10, <1>11
<1> HIDE DEF c, u
<1>13. CASE "Trigger" \in d /\ c.active.ref = 0
  <2>1. SameTurn(c, u) /\ u.items = c.items
    BY <1>1, <1>12, <1>13, AutoCreateTurn
  <2> QED BY <1>12, <1>13, <2>1 DEF Left, SameTurn, Complete
<1>14. CASE ~("Trigger" \in d /\ c.active.ref = 0)
  BY <1>1, <1>12, <1>14 DEF Left
<1> QED BY <1>13, <1>14

(* Of a decision: the turn goes on only if it was going on and nothing starts. *)
Talks(t, r) ==
  /\ r.turn.interruptResponse = t.interruptResponse
  /\ r.turn.speaking => t.speaking /\ "Commit" \notin r.d /\ "Trigger" \notin r.d

\* endTurn.
LEMMA EndTurnTalks ==
  ASSUME NEW t \in Turn, NEW d PROVE Talks(t, EndTurn(t, d))
BY DEF Talks, EndTurn, ResetTurn, Result, Turn

\* judge.
LEMMA JudgeTalks ==
  ASSUME NEW t \in Turn, NEW terminal \in BOOLEAN, NEW d, "Commit" \notin d, "Trigger" \notin d
  PROVE  Talks(t, Judge(t, terminal, d))
<1>1. CASE terminal
  BY <1>1, EndTurnTalks DEF Judge
<1>2. CASE ~terminal
  <2>1. Judge(t, terminal, d).turn = t /\ Judge(t, terminal, d).d = d \cup {"ArmEndOfTurnTimer"}
    BY <1>2 DEF Judge, Result
  <2>2. "Commit" \notin d \cup {"ArmEndOfTurnTimer"} /\ "Trigger" \notin d \cup {"ArmEndOfTurnTimer"}
    OBVIOUS
  <2> QED BY <2>1, <2>2 DEF Talks
<1> QED BY <1>1, <1>2

\* The turn manager never commits or triggers a response and lets the user speak on.
LEMMA StepTalks ==
  ASSUME NEW t \in Turn, NEW terminal \in BOOLEAN
  PROVE  /\ Talks(t, StepClientCommit(t)) /\ Talks(t, StepSpeechEnd(t))
         /\ Talks(t, StepFinal(t, terminal)) /\ Talks(t, StepEndOfTurn(t))
<1>1. Talks(t, StepClientCommit(t))
  BY DEF Talks, StepClientCommit, ResetTurn, Result, Turn
<1>2. Talks(t, Result(t, {}))
  BY DEF Talks, Result
<1>3. Talks(t, StepEndOfTurn(t))
  BY <1>2, EndTurnTalks DEF StepEndOfTurn
<1>4. Talks(t, StepFinal(t, terminal))
  <2> DEFINE p == [t EXCEPT !.finalPending = TRUE, !.finalTerminal = terminal]
  <2>1. p.speaking = t.speaking /\ p.interruptResponse = t.interruptResponse
    BY DEF Turn
  <2> HIDE DEF p
  <2>2. Talks(t, Result(p, {}))
    BY <2>1 DEF Talks, Result
  <2>3. StepFinal(t, terminal) \in {Result(t, {}), Judge(t, terminal, {}), Result(p, {})}
    BY DEF StepFinal, p
  <2>4. Talks(t, Judge(t, terminal, {}))
    BY JudgeTalks
  <2> QED BY <1>2, <2>2, <2>3, <2>4
<1>5. Talks(t, StepSpeechEnd(t))
  <2> DEFINE stopped == [t EXCEPT !.speaking = FALSE]
             waiting == [stopped EXCEPT !.pendingEOT = TRUE]
             judged  == [waiting EXCEPT !.finalPending = FALSE]
             q == {"EmitSpeechStopped"}
             w == {"EmitSpeechStopped", "ArmFinalWaitTimer"}
  <2>1. /\ stopped \in Turn /\ waiting \in Turn /\ judged \in Turn
        /\ ~stopped.speaking /\ ~waiting.speaking /\ ~judged.speaking
        /\ stopped.interruptResponse = t.interruptResponse
        /\ waiting.interruptResponse = t.interruptResponse
        /\ judged.interruptResponse = t.interruptResponse
        /\ t.finalTerminal \in BOOLEAN
    BY DEF Turn
  <2>2. StepSpeechEnd(t) \in {Result(t, {}), EndTurn(stopped, q),
                              Judge(judged, t.finalTerminal, q), Result(waiting, w)}
    BY DEF StepSpeechEnd, Turn, Modes
  <2>3. "Commit" \notin q /\ "Trigger" \notin q
    OBVIOUS
  <2> HIDE DEF stopped, waiting, judged, q, w
  <2>4. Talks(t, EndTurn(stopped, q))
    BY <2>1, EndTurnTalks DEF Talks
  <2>5. Talks(t, Judge(judged, t.finalTerminal, q))
    BY <2>1, <2>3, JudgeTalks DEF Talks
  <2>6. Talks(t, Result(waiting, w))
    BY <2>1 DEF Talks, Result
  <2> QED BY <1>2, <2>2, <2>4, <2>5, <2>6
<1> QED BY <1>1, <1>3, <1>4, <1>5

-----------------------------------------------------------------------------
(* What the handlers keep. *)

Barge(st) == st.turn.speaking /\ st.turn.interruptResponse => st.active.ref = 0 /\ st.deferItem = 0
Mark(st) == st.seg => st.speechItem # 0

(* A response that stops waiting has its transcript, or something was heard. *)
Heard(st, u) ==
  st.active.awaiting /\ u.active.ref = st.active.ref /\ ~u.active.awaiting =>
    Complete(u, st.active.dependsOn) \/ JoinTranscript(st.acc, st.partial) # ""

Attends(st, u) == (Barge(st) => Barge(u)) /\ (Mark(st) => Mark(u)) /\ Heard(st, u)

\* A step that leaves the turn alone and starts nothing attends to it.
LEMMA StillAttends ==
  ASSUME NEW st, Good(st), NEW u, Still(st, u), Awaits(st, u) PROVE Attends(st, u)
<1>1. st.active.awaiting => st.active.ref # 0
  BY DEF Good, Bookkeeping
<1>2. Heard(st, u)
  BY <1>1 DEF Heard, Awaits
<1> QED BY <1>2 DEF Still, SameTurn, StartsNothing, Attends, Barge, Mark

\* Leaving the turn, the mark, the response and the deferred trigger alone.
LEMMA PlainAttends ==
  ASSUME NEW st, Good(st), NEW u, u.turn = st.turn, u.seg = st.seg, u.speechItem = st.speechItem,
         u.active.ref = st.active.ref, u.active.awaiting = st.active.awaiting, u.deferItem = st.deferItem
  PROVE  Attends(st, u)
BY PlainStill, StillAttends

\* A decision of the turn manager, executed.
LEMMA DecideAttends ==
  ASSUME NEW st, Fit(st), NEW res, Keeps(st.turn, res), Talks(st.turn, res), NEW asrOk \in BOOLEAN
  PROVE  LET u == Decide(st, res, asrOk)
         IN  /\ Barge(st) => Barge(u)
             /\ Mark(st) => Mark(u)
             /\ st.active.ref # 0 => u.active = st.active
             /\ \A i : Complete(st, i) => Complete(u, i)
<1> DEFINE t == res.turn
           b == [st EXCEPT !.turn = t]
           u == Decide(st, res, asrOk)
<1> SUFFICES /\ Barge(st) => Barge(u)
             /\ Mark(st) => Mark(u)
             /\ st.active.ref # 0 => u.active = st.active
             /\ \A i : Complete(st, i) => Complete(u, i)
  OBVIOUS
<1>1. t \in Turn /\ t.responseActive = st.turn.responseActive
  BY DEF Keeps
<1>2. u = Apply(b, res.d, asrOk)
  BY DEF Decide
<1>3. SessionOK(st) /\ st.nextRef \in Nat /\ Good(st)
  BY DEF Fit, Good, SessionOK
<1> HIDE DEF t, u
<1>4. SessionOK(b) /\ Same(st, b)
  BY <1>1, <1>3 DEF SessionOK, Same
<1>5. Silent(st, b)
  BY <1>3 DEF SessionOK, Silent, Kept, SameItems, SameRefs
<1>6. /\ b.turn = t /\ b.seg = st.seg /\ b.speechItem = st.speechItem /\ b.active = st.active
      /\ b.deferItem = st.deferItem /\ b.items = st.items
  BY <1>3 DEF SessionOK
<1> HIDE DEF b
<1>7. Fit(b)
  <2>1. Good(b)
    BY <1>3, <1>4, SameGood DEF GoodStep
  <2> QED BY <1>5, <2>1, SilentMoves, MovesFit
<1>8. /\ u.turn.speaking = t.speaking /\ u.turn.interruptResponse = t.interruptResponse
      /\ u.seg => b.seg /\ u.speechItem = b.speechItem
      /\ b.active.ref # 0 => u.active = b.active
      /\ "Commit" \notin res.d /\ "Trigger" \notin res.d =>
           u.active = b.active /\ u.deferItem = b.deferItem
      /\ \A i : Complete(b, i) => Complete(u, i)
  BY <1>2, <1>6, <1>7, ApplyTurn
<1>9. Barge(st) => Barge(u)
  BY <1>6, <1>8 DEF Barge, Talks, t
<1>10. Mark(st) => Mark(u)
  BY <1>6, <1>8 DEF Mark
<1> QED BY <1>6, <1>8, <1>9, <1>10 DEF Complete

\* handleASR: a Final, which completes the pending item and may end the turn.
LEMMA OnFinalAttends ==
  ASSUME NEW st, Fit(st), NEW text \in Texts, NEW terminal \in BOOLEAN, NEW asrOk \in BOOLEAN
  PROVE  Attends(st, OnFinal(st, text, terminal, asrOk))
<1> DEFINE h == [st EXCEPT !.partial = ""]
           j == JoinTranscript(st.acc, text)
           k == [h EXCEPT !.acc = j]
           done == CompletePendingItem(h, j)
           taken == IF st.pendingItem # 0 THEN done ELSE k
           res == StepFinal(taken.turn, terminal)
           u == OnFinal(st, text, terminal, asrOk)
<1> SUFFICES Attends(st, u)
  OBVIOUS
<1>0. SessionOK(st) /\ st.nextRef \in Nat /\ Good(st)
  BY DEF Fit, Good, SessionOK
<1>1. j \in Texts /\ "" \in Texts
  BY <1>0, JoinOK DEF SessionOK, Texts
<1>2. u = Decide(taken, res, asrOk)
  BY DEF OnFinal
<1> HIDE DEF j, u
<1>3. SessionOK(h) /\ Same(st, h) /\ SessionOK(k) /\ Same(st, k)
  BY <1>0, <1>1 DEF SessionOK, Same
<1>4. Silent(st, h) /\ h.pendingItem = st.pendingItem /\ Silent(st, k)
  BY <1>0 DEF SessionOK, Silent, Kept, SameItems, SameRefs
<1>5. /\ h.turn = st.turn /\ h.seg = st.seg /\ h.speechItem = st.speechItem /\ h.active = st.active
      /\ h.deferItem = st.deferItem
      /\ k.turn = st.turn /\ k.seg = st.seg /\ k.speechItem = st.speechItem /\ k.active = st.active
      /\ k.deferItem = st.deferItem
  BY <1>0 DEF SessionOK
<1> HIDE DEF h, k
<1>6. Fit(h) /\ Fit(k)
  <2>1. Good(h) /\ Good(k)
    BY <1>0, <1>3, SameGood DEF GoodStep
  <2> QED BY <1>4, <2>1, SilentMoves, MovesFit
<1>7. Still(st, h) /\ Still(st, k)
  BY <1>5, PlainStill
<1>8. ASSUME st.pendingItem # 0
      PROVE  /\ Fit(done) /\ Still(st, done)
             /\ st.active.awaiting => /\ done.active.ref = st.active.ref
                                      /\ done.active.awaiting \/ Complete(done, st.active.dependsOn)
  <2>1. h.pendingItem # 0
    BY <1>4, <1>8
  <2>2. Fit(done)
    BY <1>1, <1>6, <2>1, CompletePendingItemMoves, MovesFit
  <2>3. /\ Still(h, done)
        /\ h.active.awaiting => /\ done.active.ref = h.active.ref
                                /\ done.active.awaiting \/ Complete(done, h.active.dependsOn)
    BY <1>1, <1>6, <2>1, CompleteStill
  <2> HIDE DEF done
  <2> QED BY <1>5, <1>7, <2>2, <2>3, StillTrans
<1> HIDE DEF done
<1>9. /\ Fit(taken) /\ Still(st, taken)
      /\ st.active.awaiting => /\ taken.active.ref = st.active.ref
                               /\ taken.active.awaiting \/ Complete(taken, st.active.dependsOn)
  BY <1>5, <1>6, <1>7, <1>8
<1> HIDE DEF taken
<1>10. Keeps(taken.turn, res) /\ Talks(taken.turn, res)
  <2>1. taken.turn \in Turn
    BY <1>9 DEF Fit, Good, SessionOK
  <2> QED BY <2>1, StepKeeps, StepTalks
<1> HIDE DEF res
<1>11. /\ Barge(taken) => Barge(u)
       /\ Mark(taken) => Mark(u)
       /\ taken.active.ref # 0 => u.active = taken.active
       /\ \A i : Complete(taken, i) => Complete(u, i)
  BY <1>2, <1>9, <1>10, DecideAttends
<1>12. st.active.awaiting => st.active.ref # 0
  BY <1>0 DEF Good, Bookkeeping
<1>13. Heard(st, u)
  BY <1>9, <1>11, <1>12 DEF Heard
<1>14. (Barge(st) => Barge(taken)) /\ (Mark(st) => Mark(taken))
  BY <1>9 DEF Still, SameTurn, StartsNothing, Barge, Mark
<1> QED BY <1>11, <1>13, <1>14 DEF Attends

\* handleASR: the recognizer's end of turn.
LEMMA OnEndOfTurnAttends ==
  ASSUME NEW st, Fit(st), NEW asrOk \in BOOLEAN PROVE Attends(st, OnEndOfTurn(st, asrOk))
<1> DEFINE done == CompletePendingItem(st, st.acc)
           taken == IF st.pendingItem # 0 THEN done ELSE st
           res == StepEndOfTurn(taken.turn)
           u == OnEndOfTurn(st, asrOk)
<1> SUFFICES Attends(st, u)
  OBVIOUS
<1>1. st.acc \in Texts /\ Good(st)
  BY DEF Fit, Good, SessionOK
<1>2. u = Decide(taken, res, asrOk)
  BY DEF OnEndOfTurn
<1> HIDE DEF u
<1>3. ASSUME st.pendingItem # 0
      PROVE  /\ Fit(done) /\ Still(st, done)
             /\ st.active.awaiting => /\ done.active.ref = st.active.ref
                                      /\ done.active.awaiting \/ Complete(done, st.active.dependsOn)
  <2>1. Fit(done)
    BY <1>1, <1>3, CompletePendingItemMoves, MovesFit
  <2> QED BY <1>1, <1>3, <2>1, CompleteStill
<1> HIDE DEF done
<1>4. Still(st, st)
  BY PlainStill
<1>5. /\ Fit(taken) /\ Still(st, taken)
      /\ st.active.awaiting => /\ taken.active.ref = st.active.ref
                               /\ taken.active.awaiting \/ Complete(taken, st.active.dependsOn)
  BY <1>3, <1>4
<1> HIDE DEF taken
<1>6. Keeps(taken.turn, res) /\ Talks(taken.turn, res)
  <2>1. taken.turn \in Turn
    BY <1>5 DEF Fit, Good, SessionOK
  <2> QED BY <2>1, StepKeeps, StepTalks
<1> HIDE DEF res
<1>7. /\ Barge(taken) => Barge(u)
      /\ Mark(taken) => Mark(u)
      /\ taken.active.ref # 0 => u.active = taken.active
      /\ \A i : Complete(taken, i) => Complete(u, i)
  BY <1>2, <1>5, <1>6, DecideAttends
<1>8. st.active.awaiting => st.active.ref # 0
  BY <1>1 DEF Good, Bookkeeping
<1>9. Heard(st, u)
  BY <1>5, <1>7, <1>8 DEF Heard
<1>10. (Barge(st) => Barge(taken)) /\ (Mark(st) => Mark(taken))
  BY <1>5 DEF Still, SameTurn, StartsNothing, Barge, Mark
<1> QED BY <1>7, <1>9, <1>10 DEF Attends

\* A decision taken on the actor's own state: the client's commit, the end of speech.
LEMMA DecideOwnAttends ==
  ASSUME NEW st, Fit(st), NEW res, Keeps(st.turn, res), Talks(st.turn, res), NEW asrOk \in BOOLEAN
  PROVE  Attends(st, Decide(st, res, asrOk))
<1> DEFINE u == Decide(st, res, asrOk)
<1>1. /\ Barge(st) => Barge(u)
      /\ Mark(st) => Mark(u)
      /\ st.active.ref # 0 => u.active = st.active
  BY DecideAttends
<1>2. st.active.awaiting => st.active.ref # 0
  BY DEF Fit, Good, Bookkeeping
<1> HIDE DEF u
<1>3. Attends(st, u)
  BY <1>1, <1>2 DEF Attends, Heard
<1> QED BY <1>3 DEF u

\* The same after a step that leaves turn and response alone.
LEMMA AttendsAfter ==
  ASSUME NEW st, NEW b, NEW u, b.turn = st.turn, b.seg = st.seg, b.speechItem = st.speechItem,
         b.active = st.active, b.deferItem = st.deferItem, b.acc = st.acc, b.partial = st.partial,
         Attends(b, u)
  PROVE  Attends(st, u)
BY DEF Attends, Barge, Mark, Heard

\* The end-of-turn timer.
LEMMA EotAttends ==
  ASSUME NEW st, Fit(st), NEW asrOk \in BOOLEAN
  PROVE  Attends(st, Decide([st EXCEPT !.eot = FALSE], StepEndOfTurn(st.turn), asrOk))
<1> DEFINE b == [st EXCEPT !.eot = FALSE]
           res == StepEndOfTurn(st.turn)
           u == Decide(b, res, asrOk)
<1>0. SessionOK(st) /\ st.nextRef \in Nat /\ Good(st) /\ st.turn \in Turn
  BY DEF Fit, Good, SessionOK
<1>1. SessionOK(b) /\ Same(st, b)
  BY <1>0 DEF SessionOK, Same
<1>2. Silent(st, b)
  BY <1>0 DEF SessionOK, Silent, Kept, SameItems, SameRefs
<1>3. /\ b.turn = st.turn /\ b.seg = st.seg /\ b.speechItem = st.speechItem /\ b.active = st.active
      /\ b.deferItem = st.deferItem /\ b.acc = st.acc /\ b.partial = st.partial
  BY <1>0 DEF SessionOK
<1> HIDE DEF b
<1>4. Fit(b)
  <2>1. Good(b)
    BY <1>0, <1>1, SameGood DEF GoodStep
  <2> QED BY <1>2, <2>1, SilentMoves, MovesFit
<1>5. Keeps(b.turn, res) /\ Talks(b.turn, res)
  BY <1>0, <1>3, StepKeeps, StepTalks
<1> HIDE DEF res
<1>6. Attends(b, u)
  BY <1>4, <1>5, DecideOwnAttends
<1> HIDE DEF u
<1>7. Attends(st, u)
  BY <1>3, <1>6, AttendsAfter
<1> QED BY <1>7 DEF u, res, b

\* The same before such a step that keeps the items too.
LEMMA AttendsBefore ==
  ASSUME NEW st, NEW b, NEW u, u.turn = b.turn, u.seg = b.seg, u.speechItem = b.speechItem,
         u.active = b.active, u.deferItem = b.deferItem, u.items = b.items, Attends(st, b)
  PROVE  Attends(st, u)
BY DEF Attends, Barge, Mark, Heard, Complete

\* emit, after any step.
LEMMA EmitsAttends ==
  ASSUME NEW st, NEW b, SessionOK(b), Attends(st, b), NEW evs PROVE Attends(st, Emits(b, evs))
<1> DEFINE u == Emits(b, evs)
<1>1. /\ u.turn = b.turn /\ u.seg = b.seg /\ u.speechItem = b.speechItem
      /\ u.active = b.active /\ u.deferItem = b.deferItem /\ u.items = b.items
  BY DEF SessionOK, Emits
<1> HIDE DEF u
<1>2. Attends(st, u)
  BY <1>1, AttendsBefore
<1> QED BY <1>2 DEF u

\* No step at all.
LEMMA SelfAttends == ASSUME NEW st, Good(st) PROVE Attends(st, st)
BY PlainAttends

\* A Partial, a failing recognizer, trimIdle.
LEMMA SmallAttend ==
  ASSUME NEW st, Good(st), NEW text
  PROVE  Attends(st, OnPartial(st, text)) /\ Attends(st, Fatal(st)) /\ Attends(st, TrimIdle(st))
<1>1. SessionOK(st)
  BY DEF Good
<1>2. Attends(st, OnPartial(st, text))
  <2> DEFINE u == OnPartial(st, text)
  <2>1. /\ u.turn = st.turn /\ u.seg = st.seg /\ u.speechItem = st.speechItem
        /\ u.active = st.active /\ u.deferItem = st.deferItem
    BY <1>1 DEF SessionOK, OnPartial
  <2> HIDE DEF u
  <2>2. Attends(st, u)
    BY <2>1, PlainAttends
  <2> QED BY <2>2 DEF u
<1>3. Attends(st, Fatal(st))
  BY <1>1, SelfAttends, EmitsAttends DEF Fatal
<1>4. Attends(st, TrimIdle(st))
  <2> DEFINE u == TrimIdle(st)
  <2>1. /\ u.turn = st.turn /\ u.seg = st.seg /\ u.speechItem = st.speechItem
        /\ u.active = st.active /\ u.deferItem = st.deferItem
    BY <1>1 DEF SessionOK, TrimIdle
  <2> HIDE DEF u
  <2>2. Attends(st, u)
    BY <2>1, PlainAttends
  <2> QED BY <2>2 DEF u
<1> QED BY <1>2, <1>3, <1>4

\* handleTranscriptTimeout starts the response only with something heard.
LEMMA OnTranscriptTimeoutAttends ==
  ASSUME NEW st, Fit(st) PROVE Attends(st, OnTranscriptTimeout(st))
<1> DEFINE f == [st EXCEPT !.asrWait = FALSE]
           best == JoinTranscript(st.acc, st.partial)
           x == [f EXCEPT !.items[st.pendingItem].text = best]
           told == IF st.pendingItem = 0 THEN f ELSE x
           g == Emits(f, <<Error>>)
           u == OnTranscriptTimeout(st)
<1> SUFFICES Attends(st, u)
  OBVIOUS
<1>0. SessionOK(st) /\ Good(st)
  BY DEF Fit, Good
<1>1. best \in Texts
  BY <1>0, JoinOK DEF SessionOK
<1>2. SessionOK(f)
  BY <1>0 DEF SessionOK
<1>3. u = IF st.active.ref = 0 \/ ~st.active.awaiting THEN f
          ELSE IF best = "" THEN Finish(g, "failed") ELSE StartPipeline(told)
  BY DEF OnTranscriptTimeout, FailResponse
<1>4. /\ f.turn = st.turn /\ f.seg = st.seg /\ f.speechItem = st.speechItem
      /\ f.active = st.active /\ f.deferItem = st.deferItem
  BY <1>0 DEF SessionOK
<1> HIDE DEF f, best, u
<1>5. /\ SessionOK(x) /\ x.turn = f.turn /\ x.seg = f.seg /\ x.speechItem = f.speechItem
      /\ x.active = f.active /\ x.deferItem = f.deferItem
  <2>1. SessionOK(x)
    BY <1>1, <1>2, PutItemText
  <2> QED BY <1>2, <2>1 DEF SessionOK
<1> HIDE DEF x
<1>6. SessionOK(told) /\ Still(st, told)
  BY <1>2, <1>4, <1>5, PlainStill
<1> HIDE DEF told
<1>7. CASE u = f
  BY <1>0, <1>4, <1>7, PlainAttends
<1>8. CASE u = Finish(g, "failed")
  <2>1. Still(st, f) /\ f.active = st.active
    BY <1>4, PlainStill
  <2>2. SessionOK(g) /\ Still(f, g) /\ g.active = f.active
    <3>1. SessionOK(g)
      BY <1>2, EmitsOK, ErrorSeqs
    <3> QED BY <1>2, <3>1, EmitsStill
  <2> HIDE DEF g
  <2>3. Still(g, u) /\ u.active.ref = 0
    BY <1>8, <2>2, FinishStill
  <2>4. Still(st, u)
    BY <2>1, <2>2, <2>3, StillTrans
  <2>5. Awaits(st, u)
    BY <2>3 DEF Awaits
  <2> QED BY <1>0, <2>4, <2>5, StillAttends
<1>9. CASE u = StartPipeline(told) /\ best # ""
  <2>1. Still(told, u)
    BY <1>6, <1>9, StartPipelineStill
  <2>2. Still(st, u)
    BY <1>6, <2>1, StillTrans
  <2>3. Heard(st, u)
    BY <1>9 DEF Heard, best
  <2> QED BY <2>2, <2>3 DEF Still, SameTurn, StartsNothing, Attends, Barge, Mark
<1> QED BY <1>3, <1>7, <1>8, <1>9

\* handleDeferredTimeout creates only the response that was deferred.
LEMMA OnDeferredTimeoutAttends ==
  ASSUME NEW st, Fit(st) PROVE Attends(st, OnDeferredTimeout(st))
<1> DEFINE ref == st.deferItem
           best == JoinTranscript(st.acc, st.partial)
           d == DropDeferredTrigger(st)
           x == [d EXCEPT !.items[ref].text = best]
           c == AutoCreate(x)
           p == StopASRWait(c)
           u == OnDeferredTimeout(st)
<1> SUFFICES Attends(st, u)
  OBVIOUS
<1>0. SessionOK(st) /\ Good(st)
  BY DEF Fit, Good
<1>1. best \in Texts
  BY <1>0, JoinOK DEF SessionOK
<1>2. /\ Still(st, d) /\ d.active = st.active /\ d.deferItem = 0 /\ d.turn = st.turn
      /\ Good(d) /\ SessionOK(d)
  BY <1>0, DropStill, DropDeferredTriggerGood DEF GoodStep, Good
<1>3. u = IF ref = 0 \/ st.pendingItem # ref \/ Blank(best) \/ st.active.ref # 0 THEN d
          ELSE IF c.active.ref # 0 /\ c.active.awaiting THEN StartPipeline(p) ELSE c
  BY DEF OnDeferredTimeout
<1> HIDE DEF d, best, u
<1>4. SessionOK(x) /\ Same(d, x) /\ x.seg = d.seg /\ x.speechItem = d.speechItem
      /\ x.deferItem = d.deferItem /\ x.active = d.active /\ x.turn = d.turn
  <2> HIDE DEF ref
  <2>1. SessionOK(x) /\ Same(d, x)
    BY <1>1, <1>2, PutItemText
  <2>2. x.seg = d.seg /\ x.speechItem = d.speechItem /\ x.deferItem = d.deferItem
        /\ x.active = d.active /\ x.turn = d.turn
    BY <1>2 DEF SessionOK
  <2> QED BY <2>1, <2>2
<1> HIDE DEF x
<1>5. Good(x)
  BY <1>2, <1>4, SameGood DEF GoodStep
<1>6. st.active.ref = 0 => SessionOK(c) /\ SameTurn(x, c) /\ c.deferItem = x.deferItem
  <2> HIDE DEF c
  <2>1. ASSUME st.active.ref = 0 PROVE Good(c) /\ SameTurn(x, c) /\ c.deferItem = x.deferItem
    BY <1>2, <1>4, <1>5, <2>1, AutoCreateGood, AutoCreateTurn DEF GoodStep, c
  <2> QED BY <2>1 DEF Good
<1> HIDE DEF c
<1>7. CASE u = d
  <2>1. Awaits(st, u)
    BY <1>2, <1>7 DEF Awaits
  <2> QED BY <1>0, <1>2, <1>7, <2>1, StillAttends
<1>8. ASSUME st.active.ref = 0, ref # 0, SameTurn(c, u), u.deferItem = c.deferItem
      PROVE  Attends(st, u)
  <2>1. SameTurn(st, u)
    BY <1>2, <1>4, <1>6, <1>8 DEF SameTurn, Still
  <2>2. StartsNothing(st, u)
    BY <1>2, <1>4, <1>6, <1>8 DEF StartsNothing
  <2>3. Awaits(st, u)
    BY <1>8 DEF Awaits
  <2> QED BY <1>0, <2>1, <2>2, <2>3, StillAttends DEF Still
<1>9. CASE u = c /\ st.active.ref = 0 /\ ref # 0
  <2>1. SameTurn(c, u)
    BY <1>9 DEF SameTurn
  <2> QED BY <1>8, <1>9, <2>1
<1>10. CASE u = StartPipeline(p) /\ st.active.ref = 0 /\ ref # 0
  <2>1. /\ SessionOK(p) /\ SameTurn(c, p) /\ p.deferItem = c.deferItem
    <3>1. SessionOK(c)
      BY <1>6, <1>10
    <3>2. SessionOK(p)
      BY <3>1, StopASRWaitOK
    <3> QED BY <3>1, <3>2 DEF SessionOK, StopASRWait, SameTurn
  <2> HIDE DEF p
  <2>2. Still(p, u) /\ u.deferItem = p.deferItem
    BY <1>10, <2>1, StartPipelineStill
  <2>3. SameTurn(c, u) /\ u.deferItem = c.deferItem
    BY <2>1, <2>2 DEF Still, SameTurn
  <2> QED BY <1>8, <1>10, <2>3
<1> QED BY <1>3, <1>7, <1>9, <1>10

\* A speech start interrupts the response and drops the deferred trigger, when it may.
LEMMA OnSpeechStartAttends ==
  ASSUME NEW st, Fit(st) PROVE Attends(st, OnSpeechStart(st))
<1> DEFINE res == StepSpeechStart(st.turn)
           ref == IF st.speechItem # 0 THEN st.speechItem ELSE st.nextRef + 1
           n == IF st.speechItem # 0 THEN st.nextRef ELSE ref
           t == res.turn
           b == [st EXCEPT !.eot = FALSE, !.speechItem = ref, !.seg = TRUE, !.turn = t,
                           !.nextRef = n]
           evs == <<Ev("speech_started", 0, ref, "")>>
           m == Emits(b, evs)
           cut == IF "Interrupt" \in res.d THEN Finish(m, "cancelled") ELSE m
           u == OnSpeechStart(st)
<1> SUFFICES Attends(st, u)
  OBVIOUS
<1>0. Good(st) /\ SessionOK(st) /\ st.turn \in Turn
  BY DEF Fit, Good, SessionOK
<1>1. ref \in Nat /\ n \in Nat /\ ref <= n /\ DOMAIN st.items \subseteq 1..n /\ ref # 0
  BY <1>0 DEF SessionOK
<1>2. t \in Turn /\ t.responseActive = st.turn.responseActive
  BY <1>0, StepKeeps DEF Keeps
<1>3. u = IF cut.turn.interruptResponse THEN DropDeferredTrigger(cut) ELSE cut
  BY <1>0 DEF OnSpeechStart, DisarmEndOfTurn, SessionOK
<1>4. \/ t = st.turn
      \/ /\ t.interruptResponse = st.turn.interruptResponse
         /\ t.interruptResponse /\ st.turn.responseActive => "Interrupt" \in res.d
  BY <1>0 DEF StepSpeechStart, Result, Turn
<1>5. evs \in Seq(Events)
  <2>1. "speech_started" \in EventTypes /\ 0 \in Nat
    BY DEF EventTypes
  <2> HIDE DEF ref
  <2>2. Ev("speech_started", 0, ref, "") \in Events
    BY <1>1, <2>1, EvPlain, Zenon
  <2> QED BY <2>2, EvSeqs
<1> HIDE DEF ref, n, t, u, evs, res
<1>6. SessionOK(b)
  BY <1>0, <1>1, <1>2 DEF SessionOK
<1>7. /\ b.turn = t /\ b.seg = TRUE /\ b.speechItem = ref /\ b.active = st.active
      /\ b.deferItem = st.deferItem
  BY <1>0 DEF SessionOK
<1> HIDE DEF b
<1>8. SessionOK(m)
  BY <1>5, <1>6, EmitsOK
<1>9. /\ m.turn = t /\ m.speechItem = ref /\ m.active = st.active /\ m.deferItem = st.deferItem
  BY <1>6, <1>7 DEF SessionOK, Emits
<1> HIDE DEF m
<1>10. LET f == Finish(m, "cancelled")
       IN  Still(m, f) /\ f.active.ref = 0 /\ SessionOK(f)
  <2>1. "cancelled" \in FinalStatuses
    BY DEF FinalStatuses
  <2>2. Good(b)
    <3>1. Same(st, b)
      BY <1>0, <1>1, <1>2 DEF SessionOK, Same, b
    <3> QED BY <1>0, <1>6, <3>1, SameGood DEF GoodStep
  <2>3. Good(m)
    BY <1>5, <2>2, EmitsGood DEF GoodStep, m
  <2>4. Good(Finish(m, "cancelled"))
    BY <2>1, <2>3, FinishAnyGood DEF GoodStep
  <2> QED BY <1>8, <2>4, FinishStill DEF Good
<1>11. /\ SessionOK(cut) /\ SameTurn(m, cut)
       /\ "Interrupt" \in res.d => cut.active.ref = 0
       /\ cut.active.ref = 0 \/ cut.active = st.active
       /\ cut.deferItem # 0 => st.deferItem # 0
  <2>1. SameTurn(m, m)
    BY DEF SameTurn
  <2>2. CASE "Interrupt" \in res.d
    <3> DEFINE f == Finish(m, "cancelled")
    <3>1. cut = f
      BY <2>2
    <3> HIDE DEF cut
    <3>2. Still(m, f) /\ f.active.ref = 0 /\ SessionOK(f)
      BY <1>10
    <3> HIDE DEF f
    <3> QED BY <1>9, <3>1, <3>2 DEF Still, StartsNothing
  <2>3. CASE "Interrupt" \notin res.d
    <3>1. cut = m
      BY <2>3
    <3> HIDE DEF cut
    <3> QED BY <1>8, <1>9, <2>1, <2>3, <3>1
  <2> QED BY <2>2, <2>3
<1> HIDE DEF cut
<1>12. /\ SameTurn(cut, u) /\ u.active = cut.active
       /\ cut.turn.interruptResponse => u.deferItem = 0
  <2>1. LET w == DropDeferredTrigger(cut)
        IN  Still(cut, w) /\ w.active = cut.active /\ w.deferItem = 0
    BY <1>11, DropStill
  <2> QED BY <1>3, <2>1 DEF Still, SameTurn
<1>13. st.turn.responseActive <=> st.active.ref # 0
  BY <1>0 DEF Good, Bookkeeping
<1>14. Barge(st) => Barge(u)
  <2>1. u.turn.speaking = t.speaking /\ u.turn.interruptResponse = t.interruptResponse
    BY <1>9, <1>11, <1>12 DEF SameTurn
  <2>2. t.interruptResponse => u.deferItem = 0
    BY <1>9, <1>11, <1>12 DEF SameTurn
  <2>3. ASSUME Barge(st), t.speaking, t.interruptResponse PROVE u.active.ref = 0
    <3>1. CASE t = st.turn
      BY <1>11, <1>12, <2>3, <3>1 DEF Barge
    <3>2. CASE t # st.turn
      BY <1>4, <1>11, <1>12, <1>13, <2>3, <3>2
    <3> QED BY <3>1, <3>2
  <2> QED BY <2>1, <2>2, <2>3 DEF Barge
<1>15. Mark(u)
  BY <1>1, <1>9, <1>11, <1>12 DEF Mark, SameTurn
<1>16. st.active.awaiting => st.active.ref # 0
  BY <1>0 DEF Good, Bookkeeping
<1>17. Heard(st, u)
  BY <1>11, <1>12, <1>16 DEF Heard
<1> QED BY <1>14, <1>15, <1>17 DEF Attends

\* A speech end.
LEMMA OnSpeechEndAttends ==
  ASSUME NEW st, Fit(st), NEW asrOk \in BOOLEAN PROVE Attends(st, OnSpeechEnd(st, asrOk))
<1> DEFINE res == StepSpeechEnd(st.turn)
           e == Ev("speech_stopped", 0, st.speechItem, "")
           said == Emits(st, <<e>>)
           told == IF "EmitSpeechStopped" \in res.d THEN said ELSE st
           u == Decide(told, res, asrOk)
<1>0. Good(st) /\ SessionOK(st) /\ st.turn \in Turn /\ Linked(st) /\ st.speechItem \in Nat
  BY DEF Fit, Good, SessionOK
<1>1. OnSpeechEnd(st, asrOk) = u
  BY DEF OnSpeechEnd
<1>2. Quiet(e) /\ <<e>> \in Seq(Events)
  <2>1. "speech_stopped" \in QuietTypes /\ 0 \in Nat
    BY DEF QuietTypes
  <2> QED BY <1>0, <2>1, EvQuiet
<1> HIDE DEF e
<1>3. /\ said.turn = st.turn /\ said.seg = st.seg /\ said.speechItem = st.speechItem
      /\ said.active = st.active /\ said.deferItem = st.deferItem /\ said.acc = st.acc
      /\ said.partial = st.partial
  BY <1>0 DEF Emits, SessionOK
<1>4. Fit(said)
  <2>1. Good(said) /\ Carry(st, said)
    BY <1>0, <1>2, EmitsGood, QuietCarry DEF GoodStep
  <2> QED BY <2>1 DEF Carry, Fit
<1> HIDE DEF said
<1>5. /\ Fit(told) /\ told.turn = st.turn /\ told.seg = st.seg /\ told.speechItem = st.speechItem
      /\ told.active = st.active /\ told.deferItem = st.deferItem /\ told.acc = st.acc
      /\ told.partial = st.partial
  BY <1>3, <1>4
<1> HIDE DEF told
<1>6. Keeps(told.turn, res) /\ Talks(told.turn, res)
  BY <1>0, <1>5, StepKeeps, StepTalks
<1> HIDE DEF res
<1>7. Attends(told, u)
  BY <1>5, <1>6, DecideOwnAttends
<1> HIDE DEF u
<1> QED BY <1>1, <1>5, <1>7, AttendsAfter

\* One round of the loop over the detector's events.
LEMMA OnVadEventAttends ==
  ASSUME NEW st, Fit(st), st.vadq # <<>>, NEW asrOk \in BOOLEAN
  PROVE  Attends(st, OnVadEvent(st, asrOk))
<1> DEFINE q == Tail(st.vadq)
           b == [st EXCEPT !.vadq = q]
           d == IF Head(st.vadq) = "start" THEN OnSpeechStart(b) ELSE OnSpeechEnd(b, asrOk)
           u == OnVadEvent(st, asrOk)
<1> SUFFICES Attends(st, u)
  OBVIOUS
<1>0. Good(st) /\ SessionOK(st) /\ st.nextRef \in Nat /\ st.vadq \in Seq({"start", "end"})
  BY DEF Fit, Good, SessionOK
<1>1. q \in Seq({"start", "end"})
  BY <1>0
<1>2. u = IF Len(st.vadq) = 1 THEN TrimIdle(d) ELSE d
  BY DEF OnVadEvent
<1> HIDE DEF q, u
<1>3. SessionOK(b) /\ Same(st, b)
  BY <1>0, <1>1 DEF SessionOK, Same
<1>4. Silent(st, b)
  BY <1>0 DEF SessionOK, Silent, Kept, SameItems, SameRefs
<1>5. /\ b.turn = st.turn /\ b.seg = st.seg /\ b.speechItem = st.speechItem /\ b.active = st.active
      /\ b.deferItem = st.deferItem /\ b.acc = st.acc /\ b.partial = st.partial
  BY <1>0 DEF SessionOK
<1> HIDE DEF b
<1>6. Fit(b)
  <2>1. Good(b)
    BY <1>0, <1>3, SameGood DEF GoodStep
  <2> QED BY <1>4, <2>1, SilentMoves, MovesFit
<1>7. Attends(b, d) /\ SessionOK(d)
  <2>1. Attends(b, d) /\ Serves(b, d)
    BY <1>6, OnSpeechStartAttends, OnSpeechEndAttends, OnSpeechStartServes, OnSpeechEndServes
  <2> QED BY <2>1 DEF Serves, Moves, Good
<1> HIDE DEF d
<1>8. Attends(st, d)
  BY <1>5, <1>7, AttendsAfter
<1>9. Attends(st, TrimIdle(d))
  <2> DEFINE w == TrimIdle(d)
  <2>1. /\ w.turn = d.turn /\ w.seg = d.seg /\ w.speechItem = d.speechItem
        /\ w.active = d.active /\ w.deferItem = d.deferItem /\ w.items = d.items
    BY <1>7 DEF SessionOK, TrimIdle
  <2> HIDE DEF w
  <2>2. Attends(st, w)
    BY <1>8, <2>1, AttendsBefore
  <2> QED BY <2>2 DEF w
<1> QED BY <1>2, <1>8, <1>9

\* handleAudio up to the loop over the detector's events.
LEMMA OnAudioAttends ==
  ASSUME NEW st, Fit(st), NEW n \in Nat, NEW asrOk \in BOOLEAN
  PROVE  Attends(st, OnAudio(st, n, asrOk))
<1> DEFINE u == OnAudio(st, n, asrOk)
<1>1. Good(st) /\ SessionOK(st)
  BY DEF Fit, Good
<1>2. /\ u.turn = st.turn /\ u.seg = st.seg /\ u.speechItem = st.speechItem
      /\ u.active = st.active /\ u.deferItem = st.deferItem
  BY <1>1 DEF SessionOK, OnAudio, Fatal, Emits, TrimIdle
<1> HIDE DEF u
<1>3. Attends(st, u)
  BY <1>1, <1>2, PlainAttends
<1> QED BY <1>3 DEF u

\* CmdClearAudio ends the turn and unmarks the buffer.
LEMMA ClearAudioAttends ==
  ASSUME NEW st, Good(st) PROVE Attends(st, ClearAudio(st))
<1> DEFINE t == ResetTurn(st.turn)
           u == ClearAudio(st)
<1>1. SessionOK(st)
  BY DEF Good
<1>2. ~t.speaking
  BY <1>1 DEF SessionOK, ResetTurn, Turn
<1>3. u.turn = t /\ u.seg = FALSE /\ u.active = st.active
  BY <1>1 DEF SessionOK, ClearAudio, DisarmEndOfTurn, ClearBuffer, Emits
<1> HIDE DEF u, t
<1>4. Attends(st, u)
  BY <1>2, <1>3 DEF Attends, Barge, Mark, Heard
<1> QED BY <1>4 DEF u

\* updateSession: a new turn manager is not in a turn.  (It forgets the announced item
\* and leaves the mark, so nothing is said of Mark.)
LEMMA UpdateSessionBarge ==
  ASSUME NEW st, Good(st), NEW hasTD \in BOOLEAN, NEW td, NEW voice, NEW textOnly
  PROVE  LET u == UpdateSession(st, hasTD, td, voice, textOnly)
         IN  (Barge(st) => Barge(u)) /\ Heard(st, u)
<1> DEFINE t == [NewTurnManager(td) EXCEPT !.responseActive = st.turn.responseActive]
           b == [st EXCEPT !.voice = voice, !.textOnly = textOnly]
           c == ApplyTurnDetection(b, td)
           a == IF hasTD THEN c ELSE b
           evs == <<Ev("session.updated", 0, 0, "")>>
           u == UpdateSession(st, hasTD, td, voice, textOnly)
<1> SUFFICES (Barge(st) => Barge(u)) /\ Heard(st, u)
  OBVIOUS
<1>0. SessionOK(st)
  BY DEF Good
<1>1. u = IF voice # st.voice /\ st.audioEmitted THEN Emits(st, <<Error>>) ELSE Emits(a, evs)
  BY DEF UpdateSession
<1>2. ~t.speaking
  BY DEF NewTurnManager
<1> HIDE DEF u
<1>3. CASE u = Emits(st, <<Error>>)
  BY <1>0, <1>3, EmitsAttends, SelfAttends DEF Attends
<1>4. CASE u = Emits(b, evs)
  <2>1. u.turn = st.turn /\ u.active = st.active /\ u.deferItem = st.deferItem
    BY <1>0, <1>4 DEF SessionOK, Emits
  <2> QED BY <2>1 DEF Barge, Heard
<1>5. CASE u = Emits(c, evs)
  <2>1. u.turn = t /\ u.active = st.active
    BY <1>0, <1>5 DEF SessionOK, Emits, ApplyTurnDetection, DisarmEndOfTurn
  <2> HIDE DEF t
  <2> QED BY <1>2, <2>1 DEF Barge, Heard
<1> QED BY <1>1, <1>3, <1>4, <1>5

\* createItem and deleteItem.
LEMMA ItemCommandsAttend ==
  ASSUME NEW st, Good(st), NEW call, NEW prev, NEW ref
  PROVE  Attends(st, CreateItem(st, call, prev)) /\ Attends(st, DeleteItem(st, ref))
<1>0. SessionOK(st)
  BY DEF Good
<1>1. Attends(st, CreateItem(st, call, prev))
  <2> DEFINE u == CreateItem(st, call, prev)
  <2>1. /\ u.turn = st.turn /\ u.seg = st.seg /\ u.speechItem = st.speechItem
        /\ u.active = st.active /\ u.deferItem = st.deferItem
    BY <1>0 DEF SessionOK, CreateItem, AppendItem, Emits
  <2> HIDE DEF u
  <2>2. Attends(st, u)
    BY <2>1, PlainAttends
  <2> QED BY <2>2 DEF u
<1>2. Attends(st, DeleteItem(st, ref))
  <2> DEFINE u == DeleteItem(st, ref)
  <2>1. /\ u.turn = st.turn /\ u.seg = st.seg /\ u.speechItem = st.speechItem
        /\ u.active = st.active /\ u.deferItem = st.deferItem
    BY <1>0 DEF SessionOK, DeleteItem, Emits
  <2> HIDE DEF u
  <2>2. Attends(st, u)
    BY <2>1, PlainAttends
  <2> QED BY <2>2 DEF u
<1> QED BY <1>1, <1>2

\* CmdCreateResponse: the client may ask for a response while the user speaks, so nothing
\* is said of Barge.
LEMMA CmdCreateMark ==
  ASSUME NEW st, Good(st), NEW voice \in Voices, NEW textOnly \in BOOLEAN
  PROVE  LET u == CmdCreateResponse(st, voice, textOnly)
         IN  (Mark(st) => Mark(u)) /\ Heard(st, u)
<1> DEFINE u == CmdCreateResponse(st, voice, textOnly)
<1> SUFFICES (Mark(st) => Mark(u)) /\ Heard(st, u)
  OBVIOUS
<1>0. SessionOK(st) /\ (st.active.awaiting => st.active.ref # 0)
  BY DEF Good, Bookkeeping
<1>1. CASE st.active.ref # 0
  <2>1. u = Emits(st, <<Error>>)
    BY <1>1 DEF CmdCreateResponse
  <2> HIDE DEF u
  <2> QED BY <1>0, <2>1, EmitsAttends, SelfAttends DEF Attends
<1>2. CASE st.active.ref = 0
  <2>1. u = CreateResponse(st, voice, textOnly)
    BY <1>2 DEF CmdCreateResponse
  <2> HIDE DEF u
  <2>2. SameTurn(st, u)
    BY <1>2, <2>1, CreateTurn
  <2> QED BY <1>0, <1>2, <2>2 DEF SameTurn, Mark, Heard
<1> QED BY <1>1, <1>2

\* CmdCancelResponse and CmdClose.
LEMMA EndCommandsAttend ==
  ASSUME NEW st, Good(st), NEW resp
  PROVE  Attends(st, CmdCancelResponse(st, resp)) /\ Attends(st, Emits(st, <<CancelMark>>))
<1>0. SessionOK(st)
  BY DEF Good
<1>1. Attends(st, Emits(st, <<Error>>)) /\ Attends(st, Emits(st, <<CancelMark>>))
  BY <1>0, EmitsAttends, SelfAttends
<1>2. Attends(st, Finish(st, "cancelled"))
  <2>1. Still(st, Finish(st, "cancelled")) /\ Awaits(st, Finish(st, "cancelled"))
    BY <1>0, FinishStill
  <2> QED BY <2>1, StillAttends
<1> QED BY <1>1, <1>2 DEF CmdCancelResponse

\* handleResponseEvent.
LEMMA OnResponseEventAttends ==
  ASSUME NEW st, Good(st), NEW e \in PipeEvents PROVE Attends(st, OnResponseEvent(st, e))
<1> DEFINE o == EnsureOutputItem(st)
           u == OnResponseEvent(st, e)
           Left(x) == /\ x.turn = st.turn /\ x.seg = st.seg /\ x.speechItem = st.speechItem
                      /\ x.active.ref = st.active.ref /\ x.active.awaiting = st.active.awaiting
                      /\ x.deferItem = st.deferItem
<1> SUFFICES Attends(st, u)
  OBVIOUS
<1>0. SessionOK(st) /\ st.active \in Responses
  BY DEF Good, SessionOK
<1>1. ASSUME Left(u) PROVE Attends(st, u)
  BY <1>1, PlainAttends
<1>2. ASSUME NEW b, SessionOK(b), Left(b), NEW status, u = Finish(b, status) PROVE Attends(st, u)
  <2>1. Still(st, b)
    BY <1>2, PlainStill
  <2>2. Still(b, Finish(b, status)) /\ Finish(b, status).active.ref = 0
    BY <1>2, FinishStill
  <2> HIDE DEF u
  <2>3. Still(st, u) /\ u.active.ref = 0
    BY <1>2, <2>1, <2>2, StillTrans
  <2>4. Awaits(st, u)
    BY <2>3 DEF Awaits
  <2> QED BY <2>3, <2>4, StillAttends
<1>3. CASE Stale(st, e)
  BY <1>3, SelfAttends DEF OnResponseEvent
<1>4. /\ Left(o)
      /\ o \in [turn : Turn, voice : Voices, textOnly : BOOLEAN,
                items : {o.items}, nextRef : Nat, buf : Nat, seg : BOOLEAN, det : BOOLEAN,
                vadq : Seq({"start", "end"}), speechItem : Nat, pendingItem : Nat,
                acc : Texts, partial : Texts, active : Responses, activeGen : Nat,
                nextResp : Nat, audioEmitted : BOOLEAN, asrWait : BOOLEAN, eot : BOOLEAN,
                deferWait : BOOLEAN, deferItem : Nat, pipes : {o.pipes}, out : {o.out}]
  <2> DEFINE ref == st.nextRef + 1
             x == [st.active EXCEPT !.item = ref]
             i == Put(st.items, ref, Item("message", "in_progress", "words", 0))
             evs == <<Ev("output_item.added", st.active.ref, ref, "")>>
  <2>1. ref \in Nat
    BY <1>0 DEF SessionOK
  <2>2. o = st \/ o = Emits([st EXCEPT !.nextRef = ref, !.items = i, !.active = x], evs)
    BY <1>0 DEF EnsureOutputItem, AppendItem, SessionOK
  <2> HIDE DEF ref, i, evs, o
  <2>3. x \in Responses /\ x.ref = st.active.ref /\ x.awaiting = st.active.awaiting
    BY <1>0, <2>1 DEF Responses
  <2> HIDE DEF x
  <2> QED BY <1>0, <2>1, <2>2, <2>3 DEF SessionOK, Emits
<1>5. CASE ~Stale(st, e) /\ e.kind = "text"
  <2> DEFINE x == [o.active EXCEPT !.spoke = TRUE]
             evs == <<Ev("delta", st.active.ref, o.active.item, "")>>
  <2>1. u = Emits([o EXCEPT !.active = x], evs)
    BY <1>4, <1>5 DEF OnResponseEvent
  <2> HIDE DEF o, evs
  <2>2. x.ref = o.active.ref /\ x.awaiting = o.active.awaiting
    BY <1>4 DEF Responses
  <2> HIDE DEF x, u
  <2>3. Left(u)
    BY <1>4, <2>1, <2>2 DEF Emits
  <2> QED BY <1>1, <2>3
<1>6. CASE ~Stale(st, e) /\ e.kind = "audio"
  <2> DEFINE evs == <<Ev("audio.delta", st.active.ref, o.active.item, st.active.voice)>>
  <2>1. u = Emits([o EXCEPT !.audioEmitted = TRUE], evs)
    BY <1>6 DEF OnResponseEvent
  <2> HIDE DEF o, evs, u
  <2>2. Left(u)
    BY <1>4, <2>1 DEF Emits
  <2> QED BY <1>1, <2>2
<1>7. CASE ~Stale(st, e) /\ e.kind = "tool"
  <2> DEFINE ref == st.nextRef + 1
             r == st.active.ref
             x == [st.active EXCEPT !.toolItem = ref]
             i == Put(st.items, ref, Item("tool_call", "completed", "words", 0))
             evs == <<Ev("output_item.added", r, ref, ""), Ev("arguments.done", r, ref, ""),
                      Ev("output_item.done", r, ref, "")>>
  <2>1. u = DeliverToolCall(st)
    BY <1>7 DEF OnResponseEvent
  <2>2. u = st \/ u = Emits([st EXCEPT !.nextRef = ref, !.items = i, !.active = x], evs)
    BY <1>0, <2>1 DEF DeliverToolCall, AppendItem, SessionOK
  <2>3. x.ref = st.active.ref /\ x.awaiting = st.active.awaiting
    BY <1>0 DEF Responses
  <2> HIDE DEF ref, i, evs, x, u
  <2>4. Left(u)
    BY <1>0, <2>2, <2>3 DEF SessionOK, Emits
  <2> QED BY <1>1, <2>4
<1>8. ASSUME NEW x \in Responses, x.ref = st.active.ref, x.awaiting = st.active.awaiting,
             u = MaybeComplete([st EXCEPT !.active = x])
      PROVE  Attends(st, u)
  <2> DEFINE b == [st EXCEPT !.active = x]
  <2>1. SessionOK(b) /\ Left(b)
    BY <1>0, <1>8 DEF SessionOK
  <2> HIDE DEF b, Left
  <2>2. \/ u = b
        \/ \E status : u = Finish(b, status)
    BY <1>8 DEF MaybeComplete, b
  <2> QED BY <1>1, <1>2, <2>1, <2>2
<1>9. CASE ~Stale(st, e) /\ e.kind = "llmDone"
  <2> DEFINE f == e.finish
             x == [st.active EXCEPT !.llmDone = TRUE, !.finish = f]
  <2>1. u = MaybeComplete([st EXCEPT !.active = x])
    BY <1>0, <1>9 DEF OnResponseEvent, SessionOK
  <2>2. f \in {"", "stop", "length"}
    BY DEF PipeEvents
  <2> HIDE DEF f, u
  <2>3. x \in Responses /\ x.ref = st.active.ref /\ x.awaiting = st.active.awaiting
    BY <1>0, <2>2 DEF Responses
  <2> HIDE DEF x
  <2> QED BY <1>8, <2>1, <2>3
<1>10. CASE ~Stale(st, e) /\ e.kind = "ttsDone"
  <2> DEFINE x == [st.active EXCEPT !.ttsDone = TRUE]
  <2>1. u = MaybeComplete([st EXCEPT !.active = x])
    BY <1>0, <1>10 DEF OnResponseEvent, SessionOK
  <2> HIDE DEF u
  <2>2. x \in Responses /\ x.ref = st.active.ref /\ x.awaiting = st.active.awaiting
    BY <1>0 DEF Responses
  <2> HIDE DEF x
  <2> QED BY <1>8, <2>1, <2>2
<1>11. CASE ~Stale(st, e) /\ e.kind = "error"
  <2> DEFINE b == Emits(st, <<Error>>)
  <2>1. u = Finish(b, "failed")
    BY <1>11 DEF OnResponseEvent, FailResponse
  <2>2. SessionOK(b)
    BY <1>0, EmitsOK, ErrorSeqs
  <2>3. Left(b)
    BY <1>0 DEF SessionOK, Emits
  <2> HIDE DEF b, u, Left
  <2> QED BY <1>2, <2>1, <2>2, <2>3
<1>12. e.kind \in {"text", "audio", "tool", "llmDone", "ttsDone", "error"}
  BY DEF PipeEvents
<1> QED BY <1>3, <1>5, <1>6, <1>7, <1>9, <1>10, <1>11, <1>12

\* cleanup.
LEMMA CleanupAttends ==
  ASSUME NEW st, Good(st) PROVE Attends(st, StopTimers(Finish(st, "cancelled")))
<1> DEFINE f == Finish(st, "cancelled")
           u == StopTimers(f)
<1>1. "cancelled" \in FinalStatuses
  BY DEF FinalStatuses
<1>2. Still(st, f) /\ f.active.ref = 0
  BY FinishStill DEF Good
<1>3. SessionOK(f)
  BY <1>1, FinishAnyGood DEF GoodStep, Good
<1> HIDE DEF f
<1>4. /\ u.turn = f.turn /\ u.seg = f.seg /\ u.speechItem = f.speechItem /\ u.active = f.active
      /\ u.deferItem = 0
  BY <1>3 DEF SessionOK, StopTimers, DropDeferredTrigger, DisarmEndOfTurn, StopASRWait
<1> HIDE DEF u
<1>5. Still(st, u)
  BY <1>2, <1>4 DEF Still, SameTurn, StartsNothing
<1>6. Awaits(st, u)
  BY <1>2, <1>4 DEF Awaits
<1>7. Attends(st, u)
  BY <1>5, <1>6, StillAttends
<1> QED BY <1>7 DEF u, f

-----------------------------------------------------------------------------
(* Every step.  Only a client's response.create can break Barge, and only a session.update *)
(* can break Mark.                                                                         *)
Minds ==
  /\ "create" \notin Commands => (Barge(s) => Barge(s'))
  /\ "update" \notin Commands => (Mark(s) => Mark(s'))
  /\ Heard(s, s')

\* Every client command.
LEMMA CommandsMind ==
  ASSUME CInv,
         \/ HandleUpdate \/ HandleCommit \/ HandleClear \/ HandleItem
         \/ HandleDelete \/ HandleCreate \/ HandleCancel \/ HandleClose
  PROVE  Minds
<1>1. Fit(s) /\ Good(s)
  BY DEF CInv, IInv, Upheld, Fit
<1>2. AsrOutcomes \subseteq BOOLEAN
  BY DEF AsrOutcomes
<1>3. s.turn \in Turn
  BY <1>1 DEF Good, SessionOK
<1>4. ASSUME NEW kind, NEW t, Command(kind, t), Attends(s, t) PROVE Minds
  <2>1. s' = t
    BY <1>4 DEF Command, Handle
  <2> QED BY <1>4, <2>1 DEF Attends, Minds
<1>5. CASE HandleUpdate
  <2>1. PICK hasTD \in BOOLEAN, td \in TurnDetections, v \in Voices, m \in Modalities :
          Command("update", UpdateSession(s, hasTD, td, v, m))
    BY <1>5 DEF HandleUpdate
  <2>2. "update" \in Commands /\ s' = UpdateSession(s, hasTD, td, v, m)
    BY <2>1 DEF Command, Handle
  <2>3. (Barge(s) => Barge(s')) /\ Heard(s, s')
    BY <1>1, <2>2, UpdateSessionBarge
  <2> QED BY <2>2, <2>3 DEF Minds
<1>6. CASE HandleCommit
  <2>1. PICK ok \in AsrOutcomes : Command("commit", Decide(s, StepClientCommit(s.turn), ok))
    BY <1>6 DEF HandleCommit
  <2>2. ok \in BOOLEAN
    BY <1>2
  <2>3. Keeps(s.turn, StepClientCommit(s.turn)) /\ Talks(s.turn, StepClientCommit(s.turn))
    BY <1>3, StepKeeps, StepTalks
  <2>4. Attends(s, Decide(s, StepClientCommit(s.turn), ok))
    BY <1>1, <2>2, <2>3, DecideOwnAttends
  <2> QED BY <1>4, <2>1, <2>4
<1>7. CASE HandleClear
  BY <1>1, <1>4, <1>7, ClearAudioAttends DEF HandleClear
<1>8. CASE HandleItem
  BY <1>1, <1>4, <1>8, ItemCommandsAttend DEF HandleItem
<1>9. CASE HandleDelete
  BY <1>1, <1>4, <1>9, ItemCommandsAttend DEF HandleDelete
<1>10. CASE HandleCreate
  <2>1. PICK v \in Voices, m \in Modalities : Command("create", CmdCreateResponse(s, v, m))
    BY <1>10 DEF HandleCreate
  <2>2. "create" \in Commands /\ s' = CmdCreateResponse(s, v, m)
    BY <2>1 DEF Command, Handle
  <2>3. m \in BOOLEAN
    BY SessionAssumption
  <2>4. (Mark(s) => Mark(s')) /\ Heard(s, s')
    BY <1>1, <2>2, <2>3, CmdCreateMark
  <2> QED BY <2>2, <2>4 DEF Minds
<1>11. CASE HandleCancel
  BY <1>1, <1>4, <1>11, EndCommandsAttend DEF HandleCancel
<1>12. CASE HandleClose
  BY <1>1, <1>4, <1>12, EndCommandsAttend DEF HandleClose
<1> QED BY <1>5, <1>6, <1>7, <1>8, <1>9, <1>10, <1>11, <1>12

\* Audio, detector, recognizer, pipeline events and timers.
LEMMA InputsMind ==
  ASSUME CInv,
         \/ HandleAudio \/ VadEvent \/ HandleASR \/ HandleResponseEvent
         \/ TranscriptTimeout \/ EndOfTurnTimer \/ DeferredTimeout
  PROVE  Minds
<1>1. Fit(s) /\ Good(s)
  BY DEF CInv, IInv, Upheld, Fit
<1>2. AsrOutcomes \subseteq BOOLEAN
  BY DEF AsrOutcomes
<1>3. ASSUME NEW t, Handle(t), Attends(s, t) PROVE Minds
  <2>1. s' = t
    BY <1>3 DEF Handle
  <2> QED BY <1>3, <2>1 DEF Attends, Minds
<1>4. CASE HandleAudio
  <2>1. PICK n \in 0..(IF VadEnabled(s.turn) THEN MaxVadBatch ELSE 0), ok \in AsrOutcomes :
          Handle(OnAudio(s, n, ok))
    BY <1>4 DEF HandleAudio
  <2>2. n \in Nat
    BY SessionAssumption
  <2>3. ok \in BOOLEAN
    BY <1>2
  <2>4. Attends(s, OnAudio(s, n, ok))
    BY <1>1, <2>2, <2>3, OnAudioAttends
  <2> QED BY <1>3, <2>1, <2>4
<1>5. CASE VadEvent
  <2>1. PICK ok \in AsrOutcomes : s' = OnVadEvent(s, ok)
    BY <1>5 DEF VadEvent
  <2>2. ok \in BOOLEAN /\ s.vadq # <<>>
    BY <1>2, <1>5 DEF VadEvent
  <2>3. Attends(s, OnVadEvent(s, ok))
    BY <1>1, <2>2, OnVadEventAttends
  <2>4. Attends(s, s')
    BY <2>1, <2>3
  <2> QED BY <2>4 DEF Attends, Minds
<1>6. CASE HandleASR
  <2>1. ASSUME NEW text \in Partials, Handle(OnPartial(s, text)) PROVE Minds
    BY <1>1, <1>3, <2>1, SmallAttend
  <2>2. ASSUME NEW f \in Finals, NEW ok \in AsrOutcomes, Handle(OnFinal(s, f[1], f[2], ok))
        PROVE  Minds
    <3>1. f[1] \in Texts /\ f[2] \in BOOLEAN /\ ok \in BOOLEAN
      BY <1>2, SessionAssumption
    <3> QED BY <1>1, <1>3, <2>2, <3>1, OnFinalAttends
  <2>3. ASSUME NEW ok \in AsrOutcomes, Handle(OnEndOfTurn(s, ok)) PROVE Minds
    <3>1. ok \in BOOLEAN
      BY <1>2
    <3> QED BY <1>1, <1>3, <2>3, <3>1, OnEndOfTurnAttends
  <2>4. ASSUME Handle(Fatal(s)) PROVE Minds
    BY <1>1, <1>3, <2>4, SmallAttend
  <2> QED BY <1>6, <2>1, <2>2, <2>3, <2>4 DEF HandleASR
<1>7. CASE HandleResponseEvent
  <2>1. respEvents \in Seq(PipeEvents) /\ respEvents # <<>>
    BY <1>7 DEF CInv, IInv, TypeOK, HandleResponseEvent
  <2>2. Head(respEvents) \in PipeEvents
    BY <2>1
  <2>3. Handle(OnResponseEvent(s, Head(respEvents)))
    BY <1>7 DEF HandleResponseEvent
  <2> QED BY <1>1, <1>3, <2>2, <2>3, OnResponseEventAttends
<1>8. CASE TranscriptTimeout
  BY <1>1, <1>3, <1>8, OnTranscriptTimeoutAttends DEF TranscriptTimeout
<1>9. CASE EndOfTurnTimer
  <2>1. PICK ok \in AsrOutcomes :
          Handle(Decide([s EXCEPT !.eot = FALSE], StepEndOfTurn(s.turn), ok))
    BY <1>9 DEF EndOfTurnTimer
  <2>2. ok \in BOOLEAN
    BY <1>2
  <2>3. Attends(s, Decide([s EXCEPT !.eot = FALSE], StepEndOfTurn(s.turn), ok))
    BY <1>1, <2>2, EotAttends
  <2> QED BY <1>3, <2>1, <2>3
<1>10. CASE DeferredTimeout
  BY <1>1, <1>3, <1>10, OnDeferredTimeoutAttends DEF DeferredTimeout
<1> QED BY <1>4, <1>5, <1>6, <1>7, <1>8, <1>9, <1>10

\* Every step of the system.
LEMMA NextMinds ==
  ASSUME CInv, [Next]_vars PROVE Minds
<1>1. Good(s) /\ SessionOK(s)
  BY DEF CInv, IInv, Good
<1>2. ASSUME Attends(s, s') PROVE Minds
  BY <1>2 DEF Attends, Minds
<1>3. ASSUME s'.turn = s.turn, s'.seg = s.seg, s'.speechItem = s.speechItem,
             s'.active = s.active, s'.deferItem = s.deferItem
      PROVE  Minds
  BY <1>1, <1>2, <1>3, PlainAttends
<1>4. CASE Handlers
  BY <1>4, CommandsMind, InputsMind DEF Handlers
<1>5. CASE Deliver \/ Drop \/ CancelSelf
  <2>1. s' = [s EXCEPT !.out = Tail(s.out)]
    BY <1>5 DEF Deliver, Drop, CancelSelf, Pop
  <2> QED BY <1>1, <1>3, <2>1 DEF SessionOK
<1>6. CASE Cleanup
  BY <1>1, <1>2, <1>6, CleanupAttends DEF Cleanup
<1>7. CASE PipelineStep
  <2>1. \E m : s' = [s EXCEPT !.pipes = m]
    <3>1. PICK g \in DOMAIN s.pipes : LLMStage(g) \/ TTSStage(g)
      BY <1>7 DEF PipelineStep
    <3>2. PICK p : PipeStep(g, p)
      BY <3>1 DEF LLMStage, TTSStage
    <3> QED BY <3>2 DEF PipeStep
  <2> QED BY <1>1, <1>3, <2>1 DEF SessionOK
<1>8. CASE CancelOutside \/ CloseEvents \/ Closed \/ UNCHANGED vars
  <2>1. s' = s
    BY <1>8 DEF CancelOutside, CloseEvents, Closed, vars
  <2> QED BY <1>3, <2>1
<1> QED BY <1>4, <1>5, <1>6, <1>7, <1>8 DEF Next

\* Nothing is spoken, marked or running at the start.
LEMMA InitMinds == Init => Barge(s) /\ Mark(s)
<1> SUFFICES ASSUME Init PROVE Barge(s) /\ Mark(s)
  OBVIOUS
<1>1. PICK td \in TurnDetections, v \in Voices, m \in Modalities : s = InitSession(td, v, m)
  BY DEF Init
<1>2. s.turn = NewTurnManager(td) /\ s.seg = FALSE
  BY <1>1 DEF InitSession
<1>3. ~NewTurnManager(td).speaking
  BY DEF NewTurnManager
<1> QED BY <1>2, <1>3 DEF Barge, Mark

\* Barge-in wins, for every value of the constants: while the user speaks and
\* interrupt_response is on there is no response and none deferred, unless the client asks
\* for one itself with response.create (handleSpeechStart, interrupt, dropDeferredTrigger,
\* and every path that creates a response).
THEOREM BargeInAlwaysWins ==
  ASSUME "create" \notin Commands PROVE Spec => []BargeInWins
<1>1. Init => Barge(s)
  BY InitMinds
<1>2. CInv /\ Barge(s) /\ [Next]_vars => Barge(s)'
  <2> SUFFICES ASSUME CInv, Barge(s), [Next]_vars PROVE Barge(s')
    BY DEF Barge
  <2>1. Minds
    BY NextMinds
  <2> QED BY <2>1 DEF Minds
<1>3. Barge(s) => BargeInWins
  BY DEF Barge, BargeInWins
<1> QED BY <1>1, <1>2, <1>3, StreamInvariant, PTL DEF Spec

\* The buffer stays marked only for a turn that was announced and not yet committed, as long
\* as turn detection is not replaced by a session.update (appendAudio, commit, clear).
THEOREM MarkHasItsTurn ==
  ASSUME "update" \notin Commands PROVE Spec => []MarkOfAnnouncedTurn
<1>1. Init => Mark(s)
  BY InitMinds
<1>2. CInv /\ Mark(s) /\ [Next]_vars => Mark(s)'
  <2> SUFFICES ASSUME CInv, Mark(s), [Next]_vars PROVE Mark(s')
    BY DEF Mark
  <2>1. Minds
    BY NextMinds
  <2> QED BY <2>1 DEF Minds
<1>3. Mark(s) => MarkOfAnnouncedTurn
  BY DEF Mark, MarkOfAnnouncedTurn
<1> QED BY <1>1, <1>2, <1>3, StreamInvariant, PTL DEF Spec

\* A response that waits for its turn's transcript starts only once that item is complete,
\* or at asr_final_timeout with something heard (completePendingItem,
\* handleTranscriptTimeout), whatever the client does meanwhile: StartsWithTranscript.
THEOREM WaitsForTranscript == Spec => StartsWithTranscript
<1> DEFINE A == s.active.awaiting /\ s'.active.ref = s.active.ref /\ ~s'.active.awaiting
                => \/ /\ s.active.dependsOn \in DOMAIN s'.items
                      /\ s'.items[s.active.dependsOn].status = "completed"
                   \/ JoinTranscript(s.acc, s.partial) # ""
<1>1. CInv /\ [Next]_vars => [A]_vars
  <2> SUFFICES ASSUME CInv, [Next]_vars PROVE A
    OBVIOUS
  <2>1. Heard(s, s')
    BY NextMinds DEF Minds
  <2> QED BY <2>1 DEF Heard, Complete
<1> QED BY <1>1, StreamInvariant, PTL DEF Spec, StartsWithTranscript

=============================================================================
