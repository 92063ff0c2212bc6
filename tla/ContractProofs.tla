---------------------------- MODULE ContractProofs ----------------------------
(***************************************************************************)
(* The session's event stream keeps the contract of ClientContract.        *)
(*                                                                         *)
(* Events are told long after the handler that emitted them changed the    *)
(* actor's state, so the contract is about the view the client will have   *)
(* once everything in s.out is told.  Every method of the actor is shown   *)
(* to lead from a state in step with a view to one in step with the view   *)
(* its events lead to, each of them allowed where it is told.  Once the    *)
(* context is cancelled events are lost; what the client then knows lags   *)
(* behind what it would have been told.                                    *)
(***************************************************************************)
EXTENDS SessionProofs, SequenceTheorems

InProg(v, r) == r \in DOMAIN v.resp /\ v.resp[r] = "in_progress"
IsOpen(v, i) == i \in DOMAIN v.item /\ v.item[i] = "added"

\* The event may be told to a client with the view v.
Allowed(v, e) ==
  /\ e.type = "response.created" => e.resp \notin DOMAIN v.resp /\ \A r : ~InProg(v, r)
  /\ e.type = "response.done" =>
       /\ InProg(v, e.resp) /\ e.info \in FinalStatuses
       /\ \A i \in DOMAIN v.owner : v.owner[i] = e.resp => ~IsOpen(v, i)
  /\ e.type \in {"item.added", "output_item.added"} => e.item \notin DOMAIN v.item
  /\ e.type = "output_item.added" => InProg(v, e.resp)
  /\ e.type \in {"item.done", "output_item.done"} =>
       IsOpen(v, e.item) /\ (e.item \in DOMAIN v.owner => InProg(v, v.owner[e.item]))
  /\ e.type = "item.deleted" =>
       /\ e.item \in DOMAIN v.item /\ v.item[e.item] # "deleted"
       /\ e.item \in DOMAIN v.owner => ~InProg(v, v.owner[e.item]) \/ v.item[e.item] = "done"
  /\ e.type \in {"delta", "audio.delta", "arguments.done"} =>
       /\ InProg(v, e.resp) /\ IsOpen(v, e.item)
       /\ e.item \in DOMAIN v.owner /\ v.owner[e.item] = e.resp

\* Telling evs one by one leads from the view v to w, each event allowed in its turn.
Path(at, X, v, evs, w) ==
  /\ at \in [0..Len(evs) -> X] /\ at[0] = v /\ at[Len(evs)] = w
  /\ \A i \in 1..Len(evs) : at[i] = Told(at[i - 1], evs[i]) /\ Allowed(at[i - 1], evs[i])
Reaches(v, evs, w) == \E X, at : Path(at, X, v, evs, w)

\* No event leads nowhere.
LEMMA ReachNone == ASSUME NEW v PROVE Reaches(v, <<>>, v)
<1> DEFINE none == <<>>
           at == [i \in 0..0 |-> v]
<1>1. Len(none) = 0 /\ 1..0 = {}
  OBVIOUS
<1> HIDE DEF none
<1>2. at \in [0..Len(none) -> {v}] /\ at[0] = v /\ at[Len(none)] = v
  BY <1>1
<1>3. Path(at, {v}, v, none, v)
  BY <1>1, <1>2 DEF Path
<1>4. Reaches(v, none, v)
  BY <1>3 DEF Reaches
<1> QED BY <1>4 DEF none

\* ... and only there.
LEMMA ReachNoneOnly == ASSUME NEW v, NEW w, Reaches(v, <<>>, w) PROVE w = v
<1> DEFINE none == <<>>
<1>1. Len(none) = 0
  OBVIOUS
<1>2. PICK X, at : Path(at, X, v, none, w)
  BY DEF Reaches
<1> HIDE DEF none
<1> QED BY <1>1, <1>2 DEF Path

\* One allowed event leads to the view that has been told it.
LEMMA ReachOne ==
  ASSUME NEW v, NEW e, Allowed(v, e) PROVE Reaches(v, <<e>>, Told(v, e))
<1> DEFINE q == <<e>>
           w == Told(v, e)
           at == [i \in 0..1 |-> IF i = 0 THEN v ELSE w]
<1>1. Len(q) = 1 /\ q[1] = e
  OBVIOUS
<1> HIDE DEF q
<1>2. at \in [0..1 -> {v, w}] /\ at[0] = v /\ at[1] = w
  OBVIOUS
<1>3. ASSUME NEW i \in 1..1 PROVE at[i] = Told(at[i - 1], q[i]) /\ Allowed(at[i - 1], q[i])
  <2>1. i = 1 /\ i - 1 = 0
    OBVIOUS
  <2>2. at[i] = w /\ at[i - 1] = v /\ q[i] = e
    BY <1>1, <1>2, <2>1
  <2> QED BY <2>2
<1> HIDE DEF at, w
<1>4. Path(at, {v, w}, v, q, w)
  BY <1>1, <1>2, <1>3 DEF Path
<1>5. Reaches(v, q, w)
  BY <1>4 DEF Reaches
<1> QED BY <1>5 DEF q, w

\* Telling more.
LEMMA ReachMore ==
  ASSUME NEW p \in Seq(Events), NEW q \in Seq(Events), NEW a, NEW b, NEW c, Reaches(a, p, b), Reaches(b, q, c)
  PROVE  Reaches(a, p \o q, c)
<1>1. PICK X, f : Path(f, X, a, p, b)
  BY DEF Reaches
<1>2. PICK Y, g : Path(g, Y, b, q, c)
  BY DEF Reaches
<1> DEFINE n == Len(p)
           m == Len(q)
           r == p \o q
           Z == X \cup Y
           at == [i \in 0..(n + m) |-> IF i <= n THEN f[i] ELSE g[i - n]]
<1>3. n \in Nat /\ m \in Nat /\ Len(r) = n + m /\ (\A i \in 1..n : r[i] = p[i]) /\ \A i \in 1..m : r[n + i] = q[i]
  OBVIOUS
<1>4. f \in [0..n -> X] /\ f[0] = a /\ f[n] = b
  BY <1>1 DEF Path
<1>5. g \in [0..m -> Y] /\ g[0] = b /\ g[m] = c
  BY <1>2 DEF Path
<1>a. \A i \in 1..n : f[i] = Told(f[i - 1], p[i]) /\ Allowed(f[i - 1], p[i])
  BY <1>1 DEF Path
<1>b. \A i \in 1..m : g[i] = Told(g[i - 1], q[i]) /\ Allowed(g[i - 1], q[i])
  BY <1>2 DEF Path
<1> HIDE DEF n, m, r
<1>6. at \in [0..(n + m) -> Z]
  <2> SUFFICES ASSUME NEW i \in 0..(n + m) PROVE at[i] \in Z
    OBVIOUS
  <2>1. CASE i <= n
    <3>1. i \in 0..n
      BY <1>3, <2>1
    <3> QED BY <1>4, <2>1, <3>1
  <2>2. CASE ~(i <= n)
    <3>1. i - n \in 0..m
      BY <1>3, <2>2
    <3> QED BY <1>5, <2>2, <3>1
  <2> QED BY <2>1, <2>2
<1>7. \A i \in 0..n : at[i] = f[i]
  BY <1>3
<1>8. \A i \in 0..m : at[n + i] = g[i]
  <2> SUFFICES ASSUME NEW i \in 0..m PROVE at[n + i] = g[i]
    OBVIOUS
  <2>1. CASE i = 0
    BY <1>3, <1>4, <1>5, <2>1
  <2>2. CASE i # 0
    <3>1. n + i \in 0..(n + m) /\ ~(n + i <= n) /\ (n + i) - n = i
      BY <1>3, <2>2
    <3> QED BY <3>1
  <2> QED BY <2>1, <2>2
<1> HIDE DEF at
<1>9. at[0] = a /\ at[n + m] = c
  <2>1. 0 \in 0..n /\ m \in 0..m
    BY <1>3
  <2> QED BY <1>4, <1>5, <1>7, <1>8, <2>1
<1>10. ASSUME NEW i \in 1..(n + m) PROVE at[i] = Told(at[i - 1], r[i]) /\ Allowed(at[i - 1], r[i])
  <2>1. CASE i <= n
    <3>1. i \in 1..n /\ i \in 0..n /\ i - 1 \in 0..n
      BY <1>3, <2>1
    <3>2. at[i] = f[i] /\ at[i - 1] = f[i - 1] /\ r[i] = p[i]
      BY <1>3, <1>7, <3>1
    <3> QED BY <1>a, <3>1, <3>2
  <2>2. CASE ~(i <= n)
    <3> DEFINE j == i - n
    <3>1. j \in 1..m /\ j \in 0..m /\ j - 1 \in 0..m /\ n + j = i /\ n + (j - 1) = i - 1
      BY <1>3, <2>2
    <3>2. at[i] = g[j] /\ at[i - 1] = g[j - 1] /\ r[i] = q[j]
      BY <1>3, <1>8, <3>1
    <3> QED BY <1>b, <3>1, <3>2
  <2> QED BY <2>1, <2>2
<1> HIDE DEF Z
<1>11. Path(at, Z, a, r, c)
  <2>1. Len(r) = n + m
    BY <1>3
  <2> HIDE DEF r
  <2> QED BY <1>6, <1>9, <1>10, <2>1 DEF Path
<1>12. Reaches(a, r, c)
  BY <1>11 DEF Reaches
<1> QED BY <1>12 DEF r

\* Two and three events as concatenations.
LEMMA PairIsConcat ==
  ASSUME NEW S, NEW e \in S, NEW f \in S PROVE <<e>> \o <<f>> = <<e, f>>
<1> DEFINE p == <<e>>
           q == <<f>>
           l == p \o q
           r == <<e, f>>
<1>1. p \in Seq(S) /\ q \in Seq(S) /\ r \in Seq(S)
  OBVIOUS
<1>2. Len(p) = 1 /\ Len(q) = 1 /\ Len(r) = 2 /\ p[1] = e /\ q[1] = f /\ r[1] = e /\ r[2] = f
  OBVIOUS
<1> HIDE DEF p, q, r
<1>3. l \in Seq(S) /\ Len(l) = 2 /\ l[1] = e /\ l[2] = f
  <2>1. l \in Seq(S)
    BY <1>1, ConcatProperties
  <2>2. Len(l) = 2
    <3>1. Len(l) = Len(p) + Len(q)
      BY <1>1, ConcatProperties
    <3> QED BY <1>2, <3>1
  <2>3. l[1] = p[1] /\ l[1 + 1] = q[1]
    BY <1>1, <1>2
  <2> QED BY <1>2, <2>1, <2>2, <2>3
<1> HIDE DEF l
<1>4. \A i \in 1..2 : l[i] = r[i]
  BY <1>2, <1>3
<1>5. l = r
  BY <1>1, <1>2, <1>3, <1>4, SeqEqual
<1> QED BY <1>5 DEF l, p, q, r

\* Three events are two and one more.
LEMMA TripleIsConcat ==
  ASSUME NEW S, NEW e \in S, NEW f \in S, NEW g \in S PROVE <<e, f>> \o <<g>> = <<e, f, g>>
<1> DEFINE p == <<e, f>>
           q == <<g>>
           l == p \o q
           r == <<e, f, g>>
<1>1. p \in Seq(S) /\ q \in Seq(S) /\ r \in Seq(S)
  OBVIOUS
<1>2. /\ Len(p) = 2 /\ Len(q) = 1 /\ Len(r) = 3 /\ p[1] = e /\ p[2] = f /\ q[1] = g
      /\ r[1] = e /\ r[2] = f /\ r[3] = g
  OBVIOUS
<1> HIDE DEF p, q, r
<1>3. l \in Seq(S) /\ Len(l) = 3 /\ l[1] = e /\ l[2] = f /\ l[3] = g
  <2>1. l \in Seq(S)
    BY <1>1, ConcatProperties
  <2>2. Len(l) = 3
    <3>1. Len(l) = Len(p) + Len(q)
      BY <1>1, ConcatProperties
    <3> QED BY <1>2, <3>1
  <2>3. l[1] = p[1] /\ l[2] = p[2] /\ l[3] = q[1]
    <3>1. (\A i \in 1..Len(p) : l[i] = p[i]) /\ \A i \in 1..Len(q) : l[Len(p) + i] = q[i]
      BY <1>1
    <3>2. 1 \in 1..2 /\ 2 \in 1..2 /\ 1 \in 1..1 /\ 2 + 1 = 3
      OBVIOUS
    <3> QED BY <1>2, <3>1, <3>2
  <2> QED BY <1>2, <2>1, <2>2, <2>3
<1> HIDE DEF l
<1>4. \A i \in 1..3 : l[i] = r[i]
  BY <1>2, <1>3
<1>5. l = r
  BY <1>1, <1>2, <1>3, <1>4, SeqEqual
<1> QED BY <1>5 DEF l, p, q, r

\* Two events, each allowed in its turn.
LEMMA ReachTwo ==
  ASSUME NEW e \in Events, NEW f \in Events, NEW v, Allowed(v, e), Allowed(Told(v, e), f)
  PROVE  Reaches(v, <<e, f>>, Told(Told(v, e), f))
<1>1. <<e>> \in Seq(Events) /\ <<f>> \in Seq(Events)
  OBVIOUS
<1>2. Reaches(v, <<e>>, Told(v, e)) /\ Reaches(Told(v, e), <<f>>, Told(Told(v, e), f))
  BY ReachOne
<1> QED BY <1>1, <1>2, PairIsConcat, ReachMore

\* Three of them.
LEMMA ReachThree ==
  ASSUME NEW e \in Events, NEW f \in Events, NEW g \in Events, NEW v, Allowed(v, e), Allowed(Told(v, e), f),
         Allowed(Told(Told(v, e), f), g)
  PROVE  Reaches(v, <<e, f, g>>, Told(Told(Told(v, e), f), g))
<1>1. <<e, f>> \in Seq(Events) /\ <<g>> \in Seq(Events)
  OBVIOUS
<1> DEFINE x == Told(Told(v, e), f)
<1>2. Reaches(v, <<e, f>>, x) /\ Reaches(x, <<g>>, Told(x, g))
  BY ReachOne, ReachTwo
<1> QED BY <1>1, <1>2, TripleIsConcat, ReachMore

\* The first event is allowed now, and telling it leads on.
LEMMA ReachHead ==
  ASSUME NEW q \in Seq(Events), q # <<>>, NEW v, NEW w, Reaches(v, q, w)
  PROVE  Allowed(v, Head(q)) /\ Reaches(Told(v, Head(q)), Tail(q), w)
<1>1. PICK X, f : Path(f, X, v, q, w)
  BY DEF Reaches
<1> DEFINE n == Len(q)
           u == Tail(q)
           x == Told(v, Head(q))
           at == [i \in 0..(n - 1) |-> f[i + 1]]
<1>2. /\ n \in Nat \ {0} /\ Len(u) = n - 1 /\ Head(q) = q[1]
      /\ \A i \in 1..Len(u) : u[i] = q[i + 1]
  OBVIOUS
<1>3. f \in [0..n -> X] /\ f[0] = v /\ f[n] = w
  BY <1>1 DEF Path
<1>4. \A i \in 1..n : f[i] = Told(f[i - 1], q[i]) /\ Allowed(f[i - 1], q[i])
  BY <1>1 DEF Path
<1> HIDE DEF n, u
<1>5. f[1] = x /\ Allowed(v, Head(q))
  <2>1. 1 \in 1..n /\ 1 - 1 = 0
    BY <1>2
  <2>2. f[1] = Told(f[1 - 1], q[1]) /\ Allowed(f[1 - 1], q[1])
    BY <1>4, <2>1
  <2> QED BY <1>2, <1>3, <2>1, <2>2
<1> HIDE DEF x
<1>6. at \in [0..(n - 1) -> X] /\ at[0] = x /\ at[n - 1] = w
  <2>1. \A i \in 0..(n - 1) : i + 1 \in 0..n
    BY <1>2
  <2>2. 0 \in 0..(n - 1) /\ n - 1 \in 0..(n - 1) /\ (n - 1) + 1 = n /\ 0 + 1 = 1
    BY <1>2
  <2> QED BY <1>3, <1>5, <2>1, <2>2
<1>7. ASSUME NEW i \in 1..(n - 1) PROVE at[i] = Told(at[i - 1], u[i]) /\ Allowed(at[i - 1], u[i])
  <2>1. i + 1 \in 1..n /\ i \in 0..(n - 1) /\ i - 1 \in 0..(n - 1) /\ (i - 1) + 1 = (i + 1) - 1
    BY <1>2
  <2>2. at[i] = f[i + 1] /\ at[i - 1] = f[(i + 1) - 1] /\ u[i] = q[i + 1]
    BY <1>2, <2>1
  <2> QED BY <1>4, <2>1, <2>2
<1> HIDE DEF at
<1>8. Path(at, X, x, u, w)
  <2>1. Len(u) = n - 1
    BY <1>2
  <2> QED BY <1>6, <1>7, <2>1 DEF Path
<1>9. Reaches(x, u, w)
  BY <1>8 DEF Reaches
<1> QED BY <1>5, <1>9 DEF x, u

-----------------------------------------------------------------------------
(* Events that leave the view alone and are always allowed. *)
QuietTypes == {"error", "cancel", "committed", "cleared", "speech_started", "speech_stopped",
               "session.updated", "content.done"}
Quiet(e) == e \in Events /\ e.type \in QuietTypes

\* A quiet event changes nothing.
LEMMA ToldQuiet ==
  ASSUME NEW v, NEW e, Quiet(e) PROVE Told(v, e) = v /\ Allowed(v, e)
BY DEF Quiet, QuietTypes, Told, Allowed

(* A view is a record of these fields. *)
Known(w) == w \in [resp : {w.resp}, item : {w.item}, owner : {w.owner}, voices : {w.voices}]

\* A map with one more entry.
LEMMA PutAt ==
  ASSUME NEW m, NEW k, NEW v
  PROVE  /\ DOMAIN Put(m, k, v) = DOMAIN m \cup {k}
         /\ Put(m, k, v)[k] = v
         /\ \A x \in DOMAIN m : x # k => Put(m, k, v)[x] = m[x]
BY DEF Put

\* What each kind of event tells about responses ...
LEMMA ToldResp ==
  ASSUME NEW w, Known(w), NEW e, e.type \in {"response.created", "response.done"}
  PROVE  /\ Known(Told(w, e)) /\ Told(w, e).item = w.item /\ Told(w, e).owner = w.owner
         /\ Told(w, e).resp = Put(w.resp, e.resp, IF e.type = "response.done" THEN e.info ELSE "in_progress")
<1>1. CASE e.type = "response.created"
  BY <1>1 DEF Told, Known
<1>2. CASE e.type = "response.done"
  BY <1>2 DEF Told, Known
<1> QED BY <1>1, <1>2

(* What an event makes of an item. *)
ItemMark(e) == IF e.type = "item.added" THEN "added"
               ELSE IF e.type = "item.deleted" THEN "deleted" ELSE "done"

\* ... about items ...
LEMMA ToldItem ==
  ASSUME NEW w, Known(w), NEW e,
         e.type \in {"item.added", "item.done", "output_item.done", "item.deleted"}
  PROVE  /\ Known(Told(w, e)) /\ Told(w, e).resp = w.resp /\ Told(w, e).owner = w.owner
         /\ Told(w, e).item = Put(w.item, e.item, ItemMark(e))
<1>1. CASE e.type = "item.added"
  BY <1>1 DEF Told, Known, ItemMark
<1>2. CASE e.type \in {"item.done", "output_item.done"}
  BY <1>2 DEF Told, Known, ItemMark
<1>3. CASE e.type = "item.deleted"
  BY <1>3 DEF Told, Known, ItemMark
<1> QED BY <1>1, <1>2, <1>3

\* ... about output items ...
LEMMA ToldOutput ==
  ASSUME NEW w, Known(w), NEW e, e.type = "output_item.added"
  PROVE  /\ Known(Told(w, e)) /\ Told(w, e).resp = w.resp
         /\ Told(w, e).item = Put(w.item, e.item, "added")
         /\ Told(w, e).owner = Put(w.owner, e.item, e.resp)
BY DEF Told, Known

\* ... and by deltas.
LEMMA ToldDelta ==
  ASSUME NEW w, Known(w), NEW e, e.type \in {"delta", "audio.delta", "arguments.done"}
  PROVE  /\ Known(Told(w, e)) /\ Told(w, e).resp = w.resp
         /\ Told(w, e).item = w.item /\ Told(w, e).owner = w.owner
<1>1. CASE e.type = "audio.delta"
  BY <1>1 DEF Told, Known
<1>2. CASE e.type \in {"delta", "arguments.done"}
  BY <1>2 DEF Told, Known
<1> QED BY <1>1, <1>2

\* Quiet events, however many, lead nowhere.
LEMMA ReachQuiet ==
  ASSUME NEW v, NEW evs \in Seq(Events), \A i \in 1..Len(evs) : Quiet(evs[i])
  PROVE  Reaches(v, evs, v)
<1> DEFINE n == Len(evs)
           at == [i \in 0..n |-> v]
<1>1. n \in Nat
  OBVIOUS
<1> HIDE DEF n
<1>2. at \in [0..n -> {v}] /\ at[0] = v /\ at[n] = v
  BY <1>1
<1>3. ASSUME NEW i \in 1..n PROVE at[i] = Told(at[i - 1], evs[i]) /\ Allowed(at[i - 1], evs[i])
  <2>1. i \in 0..n /\ i - 1 \in 0..n
    BY <1>1
  <2>2. at[i] = v /\ at[i - 1] = v
    BY <2>1
  <2>3. Quiet(evs[i])
    BY DEF n
  <2> QED BY <2>2, <2>3, ToldQuiet
<1> HIDE DEF at
<1>4. Path(at, {v}, v, evs, v)
  BY <1>2, <1>3 DEF Path, n
<1> QED BY <1>4 DEF Reaches
-----------------------------------------------------------------------------
(* What ties the parts of the actor's record together.  The item awaiting its          *)
(* transcript is open, the output item is the only message in progress, and the ref of *)
(* the turn being spoken is not in use yet.                                            *)
Linked(st) ==
  /\ PendingIsOpen(st)
  /\ st.active.ref <= st.nextResp
  /\ st.active.ref = 0 => st.active.item = 0
  /\ st.active.item # 0 => /\ st.active.item \in DOMAIN st.items
                           /\ st.items[st.active.item].kind = "message"
                           /\ st.items[st.active.item].status = "in_progress"
  /\ \A i \in DOMAIN st.items :
       st.items[i].kind = "message" /\ st.items[i].status = "in_progress" => i = st.active.item
  /\ st.speechItem \notin DOMAIN st.items

(* The view w is the actor's state as a client sees it. *)
InStep(st, w) ==
  /\ Known(w)
  /\ DOMAIN w.resp = 1..st.nextResp
  /\ \A r \in DOMAIN w.resp : w.resp[r] = "in_progress" <=> r = st.active.ref
  /\ DOMAIN w.item \subseteq 1..st.nextRef /\ st.speechItem \notin DOMAIN w.item
  /\ \A i \in DOMAIN st.items :
       /\ i \in DOMAIN w.item
       /\ w.item[i] = IF st.items[i].status = "in_progress" THEN "added" ELSE "done"
  /\ \A i \in DOMAIN w.item : i \in DOMAIN st.items \/ w.item[i] = "deleted"
  /\ DOMAIN w.owner \subseteq DOMAIN w.item
  /\ \A i \in DOMAIN st.items : st.items[i].kind = "user_audio" => i \notin DOMAIN w.owner
  /\ \A i \in DOMAIN w.owner :
       w.item[i] = "added" => i = st.active.item /\ w.owner[i] = st.active.ref
  /\ st.active.item # 0 => /\ st.active.item \in DOMAIN w.owner
                           /\ w.owner[st.active.item] = st.active.ref

(* The events emitted between st and u lead every view in step with st to one in step *)
(* with u, each of them allowed where it is told.                                     *)
LeadsBy(st, evs, u) ==
  /\ u.out = st.out \o evs
  /\ \A w : InStep(st, w) => \E x : Reaches(w, evs, x) /\ InStep(u, x)
Leads(st, u) == \E evs \in Seq(Events) : LeadsBy(st, evs, u)
Carry(st, u) == Linked(u) /\ Leads(st, u)

\* What leads from a to b and what leads on to c lead from a to c.
LEMMA LeadsTrans ==
  ASSUME NEW a, NEW b, NEW c, a.out \in Seq(Events), Leads(a, b), Leads(b, c) PROVE Leads(a, c)
<1>1. PICK p \in Seq(Events) : LeadsBy(a, p, b)
  BY DEF Leads
<1>2. PICK q \in Seq(Events) : LeadsBy(b, q, c)
  BY DEF Leads
<1>3. c.out = a.out \o (p \o q)
  <2>1. b.out = a.out \o p /\ c.out = b.out \o q
    BY <1>1, <1>2 DEF LeadsBy
  <2>2. (a.out \o p) \o q = a.out \o (p \o q)
    <3> DEFINE o == a.out
    <3>1. o \in Seq(Events)
      OBVIOUS
    <3> HIDE DEF o
    <3>2. (o \o p) \o q = o \o (p \o q)
      BY <3>1, ConcatAssociative
    <3> QED BY <3>2 DEF o
  <2> QED BY <2>1, <2>2
<1>4. ASSUME NEW w, InStep(a, w) PROVE \E x : Reaches(w, p \o q, x) /\ InStep(c, x)
  <2>1. PICK y : Reaches(w, p, y) /\ InStep(b, y)
    BY <1>1, <1>4 DEF LeadsBy
  <2>2. PICK x : Reaches(y, q, x) /\ InStep(c, x)
    BY <1>2, <2>1 DEF LeadsBy
  <2>3. Reaches(w, p \o q, x)
    BY <2>1, <2>2, ReachMore
  <2> QED BY <2>2, <2>3
<1>5. p \o q \in Seq(Events)
  OBVIOUS
<1>6. LeadsBy(a, p \o q, c)
  BY <1>3, <1>4 DEF LeadsBy
<1> QED BY <1>5, <1>6 DEF Leads

\* Two parts of a handler, one after the other.
LEMMA CarryTrans ==
  ASSUME NEW a, NEW b, NEW c, a.out \in Seq(Events), Carry(a, b), Carry(b, c) PROVE Carry(a, c)
BY LeadsTrans DEF Carry

(* The numbers of the actor's record. *)
Sized(st) ==
  /\ st.nextRef \in Nat /\ st.nextResp \in Nat /\ st.active.ref \in Nat /\ st.active.item \in Nat
  /\ st.speechItem \in Nat /\ st.pendingItem \in Nat /\ st.speechItem <= st.nextRef
  /\ DOMAIN st.items \subseteq 1..st.nextRef
  /\ st.out \in Seq(Events)

\* Every well-typed record has its sizes.
LEMMA SizedOK ==
  ASSUME NEW st, SessionOK(st) PROVE Sized(st)
<1>1. st.active \in Responses
  BY DEF SessionOK
<1>2. st.active.ref \in Nat /\ st.active.item \in Nat
  BY <1>1 DEF Responses
<1> QED BY <1>2 DEF SessionOK, Sized

\* So has every record of the inductive invariant.
LEMMA GoodSized ==
  ASSUME NEW st, Good(st) PROVE Sized(st)
BY SizedOK DEF Good

(* The conversation keeps its items; at most their texts differ. *)
SameItems(st, u) ==
  /\ DOMAIN u.items = DOMAIN st.items
  /\ \A i \in DOMAIN st.items : /\ u.items[i].kind = st.items[i].kind
                                /\ u.items[i].status = st.items[i].status
(* The refs in use are kept; a new ref may be reserved for speech, or given up. *)
SameRefs(st, u) ==
  /\ u.nextRef \in Nat /\ st.nextRef <= u.nextRef
  /\ u.speechItem = st.speechItem \/ u.speechItem \notin 1..st.nextRef
Kept(st, u) ==
  /\ SameItems(st, u) /\ SameRefs(st, u)
  /\ u.nextResp = st.nextResp /\ u.active.ref = st.active.ref /\ u.active.item = st.active.item
  /\ u.pendingItem = st.pendingItem

\* A step that keeps items, refs and response keeps the record linked and the client in step.
LEMMA KeptLinked ==
  ASSUME NEW st, NEW u, Sized(st), Linked(st), Kept(st, u)
  PROVE  Linked(u) /\ \A w : InStep(st, w) => InStep(u, w)
<1>1. Linked(u)
  BY DEF Sized, Linked, Kept, SameItems, SameRefs, PendingIsOpen
<1>2. ASSUME NEW w, InStep(st, w) PROVE InStep(u, w)
  <2>1. DOMAIN w.item \subseteq 1..u.nextRef /\ u.speechItem \notin DOMAIN w.item
    BY <1>2 DEF Sized, Kept, SameRefs, InStep
  <2> QED BY <1>2, <2>1, SMTT(30) DEF Kept, SameItems, InStep
<1> QED BY <1>1, <1>2

\* A step that keeps the lifecycle and emits only quiet events.
LEMMA KeptCarry ==
  ASSUME NEW st, NEW u, Sized(st), Linked(st), Kept(st, u),
         NEW evs \in Seq(Events), \A i \in 1..Len(evs) : Quiet(evs[i]), u.out = st.out \o evs
  PROVE  Carry(st, u)
<1>1. Linked(u) /\ \A w : InStep(st, w) => InStep(u, w)
  BY KeptLinked
<1>2. LeadsBy(st, evs, u)
  BY <1>1, ReachQuiet DEF LeadsBy
<1> QED BY <1>1, <1>2 DEF Carry, Leads

\* ... and nothing at all.
LEMMA KeptSilent ==
  ASSUME NEW st, NEW u, Sized(st), Linked(st), Kept(st, u), u.out = st.out
  PROVE  Carry(st, u)
<1> DEFINE none == <<>>
<1>1. none \in Seq(Events) /\ Len(none) = 0 /\ 1..0 = {}
  OBVIOUS
<1>2. st.out = st.out \o none
  BY DEF Sized
<1> HIDE DEF none
<1>3. u.out = st.out \o none /\ \A i \in 1..Len(none) : Quiet(none[i])
  BY <1>1, <1>2
<1> QED BY <1>1, <1>3, KeptCarry

\* Emitting one quiet event, or two.
LEMMA QuietCarry ==
  ASSUME NEW st, SessionOK(st), Linked(st), NEW e, Quiet(e)
  PROVE  Carry(st, Emits(st, <<e>>))
<1> DEFINE q == <<e>>
           u == Emits(st, q)
<1>1. q \in Seq(Events) /\ Len(q) = 1 /\ q[1] = e
  BY DEF Quiet
<1> HIDE DEF q
<1>2. \A i \in 1..Len(q) : Quiet(q[i])
  <2>1. \A i \in 1..1 : i = 1
    OBVIOUS
  <2> QED BY <1>1, <2>1
<1>3. u.out = st.out \o q /\ Kept(st, u)
  BY SizedOK DEF SessionOK, Emits, Kept, SameItems, SameRefs, Sized
<1> HIDE DEF u
<1>4. Carry(st, u)
  BY <1>1, <1>2, <1>3, SizedOK, KeptCarry
<1> QED BY <1>4 DEF q, u


\* createResponseAt announces a fresh response while none is in progress.
LEMMA CreatedCarry ==
  ASSUME NEW st, NEW u, Sized(st), Linked(st), st.active.ref = 0, NEW e \in Events,
         e.type = "response.created", e.resp = st.nextResp + 1,
         SameItems(st, u), SameRefs(st, u), u.pendingItem = st.pendingItem,
         u.nextResp = st.nextResp + 1, u.active.ref = st.nextResp + 1, u.active.item = 0,
         u.out = st.out \o <<e>>
  PROVE  Carry(st, u)
<1>0. st.active.item = 0
  BY DEF Linked
<1>1. Linked(u)
  <2>1. PendingIsOpen(u)
    BY DEF Linked, SameItems, PendingIsOpen
  <2>2. u.speechItem \notin DOMAIN u.items
    BY DEF Sized, Linked, SameItems, SameRefs
  <2>3. u.active.ref <= u.nextResp
    BY DEF Sized
  <2>4. \A i \in DOMAIN u.items : ~(u.items[i].kind = "message" /\ u.items[i].status = "in_progress")
    BY <1>0, SMTT(30) DEF Linked, SameItems, Sized
  <2> QED BY <2>1, <2>2, <2>3, <2>4 DEF Linked
<1>2. ASSUME NEW w, InStep(st, w) PROVE Reaches(w, <<e>>, Told(w, e)) /\ InStep(u, Told(w, e))
  <2> DEFINE x == Told(w, e)
             n == st.nextResp + 1
  <2>1. Known(x) /\ x.item = w.item /\ x.owner = w.owner /\ x.resp = Put(w.resp, n, "in_progress")
    BY <1>2, ToldResp DEF InStep
  <2>2. n \in Nat /\ n # 0 /\ 1..n = 1..st.nextResp \cup {n} /\ n \notin 1..st.nextResp
    BY SMTT(30) DEF Sized
  <2>3. /\ DOMAIN x.resp = 1..n /\ x.resp[n] = "in_progress"
        /\ \A r \in 1..st.nextResp : x.resp[r] = w.resp[r] /\ w.resp[r] # "in_progress"
    <3>1. DOMAIN w.resp = 1..st.nextResp /\ \A r \in 1..st.nextResp : w.resp[r] # "in_progress"
      <4>1. /\ DOMAIN w.resp = 1..st.nextResp
            /\ \A r \in DOMAIN w.resp : w.resp[r] = "in_progress" <=> r = 0
        BY <1>2 DEF InStep
      <4>2. \A r \in 1..st.nextResp : r # 0
        BY DEF Sized
      <4> QED BY <4>1, <4>2
    <3>2. DOMAIN x.resp = 1..st.nextResp \cup {n} /\ x.resp[n] = "in_progress"
      BY <2>1, <3>1 DEF Put
    <3>3. \A r \in 1..st.nextResp : x.resp[r] = w.resp[r]
      <4> TAKE r \in 1..st.nextResp
      <4>1. r \in DOMAIN w.resp /\ r # n
        BY <2>2, <3>1
      <4> HIDE DEF x, n
      <4> QED BY <2>1, <4>1 DEF Put
    <3> QED BY <2>2, <3>1, <3>2, <3>3
  <2>4. Allowed(w, e)
    BY <1>2, <2>2 DEF Allowed, InProg, InStep, Sized
  <2>5. Reaches(w, <<e>>, x)
    BY <2>4, ReachOne
  <2>6. DOMAIN w.item \subseteq 1..u.nextRef /\ u.speechItem \notin DOMAIN w.item
    BY <1>2 DEF Sized, SameRefs, InStep
  <2>7. \A i \in DOMAIN w.owner : w.item[i] # "added"
    BY <1>0, <1>2 DEF InStep, Sized
  <2>8. \A r \in DOMAIN x.resp : x.resp[r] = "in_progress" <=> r = u.active.ref
    BY <2>2, <2>3
  <2> HIDE DEF x, n
  <2>9. InStep(u, x)
    <3>1. \A i \in DOMAIN u.items :
             i \in DOMAIN w.item /\ w.item[i] = IF u.items[i].status = "in_progress" THEN "added" ELSE "done"
      BY <1>2 DEF InStep, SameItems
    <3>2. /\ \A i \in DOMAIN w.item : i \in DOMAIN u.items \/ w.item[i] = "deleted"
          /\ DOMAIN w.owner \subseteq DOMAIN w.item
          /\ \A i \in DOMAIN u.items : u.items[i].kind = "user_audio" => i \notin DOMAIN w.owner
      BY <1>2 DEF InStep, SameItems
    <3>3. DOMAIN x.resp = 1..u.nextResp
      BY <2>3 DEF n
    <3> QED BY <2>1, <2>6, <2>7, <2>8, <3>1, <3>2, <3>3 DEF InStep
  <2> QED BY <2>5, <2>9 DEF x
<1>3. <<e>> \in Seq(Events) /\ LeadsBy(st, <<e>>, u)
  BY <1>2 DEF LeadsBy
<1> QED BY <1>1, <1>3 DEF Carry, Leads

\* finish of a response that has no output item.
LEMMA DoneCarry ==
  ASSUME NEW st, NEW u, Sized(st), Linked(st), st.active.ref # 0, st.active.item = 0, NEW e \in Events,
         e.type = "response.done", e.resp = st.active.ref, e.info \in FinalStatuses,
         SameItems(st, u), SameRefs(st, u), u.pendingItem = st.pendingItem,
         u.nextResp = st.nextResp, u.active.ref = 0, u.active.item = 0,
         u.out = st.out \o <<e>>
  PROVE  Carry(st, u)
<1>1. Linked(u)
  <2>1. PendingIsOpen(u)
    BY DEF Linked, SameItems, PendingIsOpen
  <2>2. u.speechItem \notin DOMAIN u.items
    BY DEF Sized, Linked, SameItems, SameRefs
  <2>3. u.active.ref <= u.nextResp
    BY DEF Sized
  <2>4. \A i \in DOMAIN u.items : ~(u.items[i].kind = "message" /\ u.items[i].status = "in_progress")
    <3>1. 0 \notin DOMAIN st.items
      BY DEF Sized
    <3> QED BY <3>1 DEF Linked, SameItems
  <2> QED BY <2>1, <2>2, <2>3, <2>4 DEF Linked
<1>2. ASSUME NEW w, InStep(st, w) PROVE Reaches(w, <<e>>, Told(w, e)) /\ InStep(u, Told(w, e))
  <2> DEFINE x == Told(w, e)
             n == st.active.ref
  <2>1. Known(x) /\ x.item = w.item /\ x.owner = w.owner /\ x.resp = Put(w.resp, n, e.info)
    BY <1>2, ToldResp DEF InStep
  <2>2. n \in DOMAIN w.resp /\ w.resp[n] = "in_progress" /\ e.info # "in_progress"
    BY <1>2 DEF Sized, Linked, InStep, FinalStatuses
  <2>3. /\ DOMAIN x.resp = DOMAIN w.resp /\ x.resp[n] # "in_progress"
        /\ \A r \in DOMAIN w.resp : r # n => x.resp[r] = w.resp[r]
    <3> HIDE DEF x, n
    <3>1. DOMAIN x.resp = DOMAIN w.resp \cup {n} /\ x.resp[n] = e.info
      BY <2>1 DEF Put
    <3>2. \A r \in DOMAIN w.resp : r # n => x.resp[r] = w.resp[r]
      BY <2>1 DEF Put
    <3> QED BY <2>2, <3>1, <3>2
  <2>4. \A i \in DOMAIN w.owner : w.item[i] # "added"
    BY <1>2 DEF InStep, Sized
  <2>5. Allowed(w, e)
    BY <2>2, <2>4 DEF Allowed, InProg, IsOpen
  <2>6. Reaches(w, <<e>>, x)
    BY <2>5, ReachOne
  <2>7. DOMAIN w.item \subseteq 1..u.nextRef /\ u.speechItem \notin DOMAIN w.item
    BY <1>2 DEF Sized, SameRefs, InStep
  <2>8. \A r \in DOMAIN x.resp : x.resp[r] # "in_progress" /\ r # u.active.ref
    BY <1>2, <2>3 DEF InStep, Sized
  <2> HIDE DEF x, n
  <2>9. InStep(u, x)
    <3>1. \A i \in DOMAIN u.items :
             i \in DOMAIN w.item /\ w.item[i] = IF u.items[i].status = "in_progress" THEN "added" ELSE "done"
      BY <1>2 DEF InStep, SameItems
    <3>2. /\ \A i \in DOMAIN w.item : i \in DOMAIN u.items \/ w.item[i] = "deleted"
          /\ DOMAIN w.owner \subseteq DOMAIN w.item
          /\ \A i \in DOMAIN u.items : u.items[i].kind = "user_audio" => i \notin DOMAIN w.owner
      BY <1>2 DEF InStep, SameItems
    <3>3. DOMAIN x.resp = 1..u.nextResp
      BY <1>2, <2>3 DEF InStep
    <3> QED BY <2>1, <2>4, <2>7, <2>8, <3>1, <3>2, <3>3 DEF InStep
  <2> QED BY <2>6, <2>9 DEF x
<1>3. <<e>> \in Seq(Events) /\ LeadsBy(st, <<e>>, u)
  BY <1>2 DEF LeadsBy
<1> QED BY <1>1, <1>3 DEF Carry, Leads


\* Telling three events in a row, the first of them quiet.
LEMMA ReachQuietThen ==
  ASSUME NEW v, NEW e, Quiet(e), NEW f \in Events, Allowed(v, f)
  PROVE  /\ Reaches(v, <<e, f>>, Told(v, f))
         /\ \A g \in Events : Allowed(Told(v, f), g) => Reaches(v, <<e, f, g>>, Told(Told(v, f), g))
<1>1. e \in Events /\ Told(v, e) = v /\ Allowed(v, e)
  BY ToldQuiet DEF Quiet
<1>2. Reaches(v, <<e, f>>, Told(v, f))
  BY <1>1, ReachTwo
<1>3. ASSUME NEW g \in Events, Allowed(Told(v, f), g)
      PROVE  Reaches(v, <<e, f, g>>, Told(Told(v, f), g))
  BY <1>1, <1>3, ReachThree
<1> QED BY <1>2, <1>3

\* finish of a response with an output item: the item is closed, then the response.
LEMMA FinishedCarry ==
  ASSUME NEW st, NEW u, Sized(st), Linked(st), st.active.ref # 0, st.active.item # 0,
         NEW c, Quiet(c), NEW d \in Events, NEW e \in Events,
         d.type = "output_item.done", d.item = st.active.item,
         e.type = "response.done", e.resp = st.active.ref, e.info \in FinalStatuses,
         DOMAIN u.items = DOMAIN st.items,
         \A i \in DOMAIN st.items : u.items[i].kind = st.items[i].kind,
         \A i \in DOMAIN st.items : i # st.active.item => u.items[i].status = st.items[i].status,
         u.items[st.active.item].status # "in_progress",
         SameRefs(st, u), u.pendingItem = st.pendingItem,
         u.nextResp = st.nextResp, u.active.ref = 0, u.active.item = 0,
         u.out = st.out \o <<c, d, e>>
  PROVE  Carry(st, u)
<1> DEFINE k == st.active.item
           n == st.active.ref
<1>0. k \in DOMAIN st.items /\ st.items[k].kind = "message" /\ st.items[k].status = "in_progress"
  BY DEF Linked
<1>1. Linked(u)
  <2>1. PendingIsOpen(u)
    <3>1. st.pendingItem # 0 => st.pendingItem # k
      BY <1>0 DEF Linked, PendingIsOpen
    <3> QED BY <3>1 DEF Linked, PendingIsOpen
  <2>2. u.speechItem \notin DOMAIN u.items
    BY DEF Sized, Linked, SameRefs
  <2>3. u.active.ref <= u.nextResp
    BY DEF Sized
  <2>4. \A i \in DOMAIN u.items : ~(u.items[i].kind = "message" /\ u.items[i].status = "in_progress")
    BY DEF Linked
  <2> QED BY <2>1, <2>2, <2>3, <2>4 DEF Linked
<1>2. ASSUME NEW w, InStep(st, w) PROVE \E x : Reaches(w, <<c, d, e>>, x) /\ InStep(u, x)
  <2> DEFINE y == Told(w, d)
             x == Told(y, e)
  <2>1. Known(y) /\ y.resp = w.resp /\ y.owner = w.owner /\ y.item = Put(w.item, k, "done")
    BY <1>2, ToldItem DEF InStep, ItemMark
  <2>2. Known(x) /\ x.item = y.item /\ x.owner = y.owner /\ x.resp = Put(y.resp, n, e.info)
    BY <2>1, ToldResp
  <2>3. n \in DOMAIN w.resp /\ w.resp[n] = "in_progress" /\ e.info # "in_progress"
    BY <1>2, SMTT(30) DEF Sized, Linked, InStep, FinalStatuses
  <2>4. k \in DOMAIN w.item /\ w.item[k] = "added" /\ k \in DOMAIN w.owner /\ w.owner[k] = n
    BY <1>0, <1>2 DEF InStep
  <2>5. Allowed(w, d)
    BY <2>3, <2>4 DEF Allowed, InProg, IsOpen
  <2> HIDE DEF x, y
  <2>6. DOMAIN y.item = DOMAIN w.item /\ y.item[k] = "done" /\ \A i \in DOMAIN w.item : i # k => y.item[i] = w.item[i]
    BY <2>1, <2>4 DEF Put
  <2>7. \A i \in DOMAIN w.owner : i \in DOMAIN w.item /\ y.item[i] # "added"
    BY <1>2, <2>6, ZenonT(60) DEF InStep
  <2>8. Allowed(y, e)
    BY <2>1, <2>3, <2>7 DEF Allowed, InProg, IsOpen
  <2>9. Reaches(w, <<c, d, e>>, x)
    BY <2>5, <2>8, ReachQuietThen DEF x, y
  <2>10. DOMAIN x.resp = DOMAIN w.resp /\ x.resp[n] = e.info /\ \A r \in DOMAIN w.resp : r # n => x.resp[r] = w.resp[r]
    BY <2>1, <2>2, <2>3 DEF Put
  <2>11. DOMAIN w.item \subseteq 1..u.nextRef /\ u.speechItem \notin DOMAIN w.item
    BY <1>2 DEF Sized, SameRefs, InStep
  <2>12. \A r \in DOMAIN x.resp : x.resp[r] # "in_progress" /\ r # u.active.ref
    <3>1. /\ DOMAIN w.resp = 1..st.nextResp
          /\ \A r \in DOMAIN w.resp : w.resp[r] = "in_progress" <=> r = n
      BY <1>2 DEF InStep
    <3>2. \A r \in 1..st.nextResp : r # 0
      BY DEF Sized
    <3> QED BY <2>3, <2>10, <3>1, <3>2, SMTT(30)
  <2>13. \A i \in DOMAIN u.items :
             i \in DOMAIN x.item /\ x.item[i] = IF u.items[i].status = "in_progress" THEN "added" ELSE "done"
    <3> TAKE i \in DOMAIN u.items
    <3>1. i \in DOMAIN w.item /\ w.item[i] = IF st.items[i].status = "in_progress" THEN "added" ELSE "done"
      BY <1>2 DEF InStep
    <3>2. CASE i = k
      BY <2>2, <2>6, <3>1, <3>2
    <3>3. CASE i # k
      BY <2>2, <2>6, <3>1, <3>3
    <3> QED BY <3>2, <3>3
  <2>14. \A i \in DOMAIN x.item : i \in DOMAIN u.items \/ x.item[i] = "deleted"
    <3>1. \A i \in DOMAIN w.item : i \in DOMAIN st.items \/ w.item[i] = "deleted"
      BY <1>2 DEF InStep
    <3> QED BY <1>0, <2>2, <2>6, <3>1
  <2>15. /\ DOMAIN x.owner \subseteq DOMAIN x.item
         /\ \A i \in DOMAIN u.items : u.items[i].kind = "user_audio" => i \notin DOMAIN x.owner
    <3>1. /\ DOMAIN w.owner \subseteq DOMAIN w.item
          /\ \A i \in DOMAIN st.items : st.items[i].kind = "user_audio" => i \notin DOMAIN w.owner
      BY <1>2 DEF InStep
    <3> QED BY <2>1, <2>2, <2>6, <3>1
  <2>16. DOMAIN x.resp = 1..u.nextResp
    BY <1>2, <2>10 DEF InStep
  <2>17. InStep(u, x)
    BY <2>1, <2>2, <2>6, <2>7, <2>11, <2>12, <2>13, <2>14, <2>15, <2>16 DEF InStep
  <2> QED BY <2>9, <2>17
<1>3. <<c, d, e>> \in Seq(Events) /\ LeadsBy(st, <<c, d, e>>, u)
  BY <1>2, EvSeqs DEF LeadsBy, Quiet
<1> QED BY <1>1, <1>3 DEF Carry, Leads


\* commit announces its item under a ref no client knows.
LEMMA CommittedCarry ==
  ASSUME NEW st, NEW u, Sized(st), Linked(st), NEW k \in Nat, k # 0,
         k = st.speechItem \/ st.nextRef < k,
         NEW c, Quiet(c), NEW e \in Events, e.type = "item.added", e.item = k,
         DOMAIN u.items = DOMAIN st.items \cup {k},
         u.items[k].kind = "user_audio", u.items[k].status = "in_progress",
         \A i \in DOMAIN st.items : i # k => u.items[i] = st.items[i],
         u.nextRef \in Nat, st.nextRef <= u.nextRef, k <= u.nextRef, u.speechItem = 0, u.pendingItem = k,
         u.nextResp = st.nextResp, u.active.ref = st.active.ref, u.active.item = st.active.item,
         u.out = st.out \o <<c, e>>
  PROVE  Carry(st, u)
<1>0. k \notin DOMAIN st.items /\ 0 \notin DOMAIN u.items
  BY DEF Linked, Sized
<1>1. Linked(u)
  <2>1. PendingIsOpen(u)
    BY DEF PendingIsOpen
  <2>2. st.active.item # 0 => st.active.item # k
    BY <1>0 DEF Linked
  <2>3. \A i \in DOMAIN u.items :
          u.items[i].kind = "message" /\ u.items[i].status = "in_progress" => i = u.active.item
    BY DEF Linked
  <2>4. u.active.ref <= u.nextResp /\ (u.active.ref = 0 => u.active.item = 0)
    BY DEF Linked
  <2>5. u.active.item # 0 => /\ u.active.item \in DOMAIN u.items
                             /\ u.items[u.active.item].kind = "message"
                             /\ u.items[u.active.item].status = "in_progress"
    BY <2>2 DEF Linked
  <2> QED BY <1>0, <2>1, <2>3, <2>4, <2>5 DEF Linked
<1>2. ASSUME NEW w, InStep(st, w) PROVE \E x : Reaches(w, <<c, e>>, x) /\ InStep(u, x)
  <2> DEFINE x == Told(w, e)
  <2>1. Known(x) /\ x.resp = w.resp /\ x.owner = w.owner /\ x.item = Put(w.item, k, "added")
    BY <1>2, ToldItem DEF InStep, ItemMark
  <2>2. DOMAIN w.item \subseteq 1..st.nextRef /\ st.speechItem \notin DOMAIN w.item
    BY <1>2 DEF InStep
  <2>3. k \notin DOMAIN w.item /\ 0 \notin DOMAIN w.item /\ DOMAIN w.item \subseteq 1..u.nextRef /\ k \in 1..u.nextRef
    BY <2>2 DEF Sized
  <2>4. Allowed(w, e)
    BY <2>3 DEF Allowed
  <2>5. Reaches(w, <<c, e>>, x)
    BY <2>4, ReachQuietThen
  <2> HIDE DEF x
  <2>6. DOMAIN x.item = DOMAIN w.item \cup {k} /\ x.item[k] = "added" /\ \A i \in DOMAIN w.item : x.item[i] = w.item[i]
    BY <2>1, <2>3 DEF Put
  <2>7. /\ \A i \in DOMAIN st.items :
             i \in DOMAIN w.item /\ w.item[i] = IF st.items[i].status = "in_progress" THEN "added" ELSE "done"
        /\ \A i \in DOMAIN w.item : i \in DOMAIN st.items \/ w.item[i] = "deleted"
    BY <1>2 DEF InStep
  <2>8. /\ DOMAIN w.owner \subseteq DOMAIN w.item
        /\ \A i \in DOMAIN st.items : st.items[i].kind = "user_audio" => i \notin DOMAIN w.owner
        /\ \A i \in DOMAIN w.owner :
             w.item[i] = "added" => i = st.active.item /\ w.owner[i] = st.active.ref
        /\ st.active.item # 0 => st.active.item \in DOMAIN w.owner /\ w.owner[st.active.item] = st.active.ref
    BY <1>2 DEF InStep
  <2>9. \A i \in DOMAIN u.items :
           i \in DOMAIN x.item /\ x.item[i] = IF u.items[i].status = "in_progress" THEN "added" ELSE "done"
    <3> TAKE i \in DOMAIN u.items
    <3>1. CASE i = k
      BY <2>6, <3>1
    <3>2. CASE i # k
      BY <2>6, <2>7, <3>2
    <3> QED BY <3>1, <3>2
  <2>10. \A i \in DOMAIN x.item : i \in DOMAIN u.items \/ x.item[i] = "deleted"
    BY <2>6, <2>7
  <2>11. /\ DOMAIN x.owner \subseteq DOMAIN x.item
         /\ \A i \in DOMAIN u.items : u.items[i].kind = "user_audio" => i \notin DOMAIN x.owner
         /\ \A i \in DOMAIN x.owner :
              x.item[i] = "added" => i = u.active.item /\ x.owner[i] = u.active.ref
         /\ u.active.item # 0 => u.active.item \in DOMAIN x.owner /\ x.owner[u.active.item] = u.active.ref
    <3>1. DOMAIN x.owner \subseteq DOMAIN x.item /\ k \notin DOMAIN x.owner
      BY <2>1, <2>3, <2>6, <2>8
    <3>2. \A i \in DOMAIN u.items : u.items[i].kind = "user_audio" => i \notin DOMAIN x.owner
      BY <2>1, <2>8, <3>1
    <3>3. \A i \in DOMAIN x.owner : x.item[i] = "added" => i = u.active.item /\ x.owner[i] = u.active.ref
      BY <2>1, <2>6, <2>8
    <3>4. u.active.item # 0 => u.active.item \in DOMAIN x.owner /\ x.owner[u.active.item] = u.active.ref
      BY <2>1, <2>8
    <3> QED BY <3>1, <3>2, <3>3, <3>4
  <2>12. /\ DOMAIN x.resp = 1..u.nextResp
         /\ \A r \in DOMAIN x.resp : x.resp[r] = "in_progress" <=> r = u.active.ref
    <3>1. /\ DOMAIN w.resp = 1..st.nextResp
          /\ \A r \in DOMAIN w.resp : w.resp[r] = "in_progress" <=> r = st.active.ref
      BY <1>2 DEF InStep
    <3> QED BY <2>1, <3>1
  <2>13. DOMAIN x.item \subseteq 1..u.nextRef /\ u.speechItem \notin DOMAIN x.item
    BY <2>3, <2>6
  <2>14. InStep(u, x)
    BY <2>1, <2>9, <2>10, <2>11, <2>12, <2>13 DEF InStep
  <2> QED BY <2>5, <2>14
<1>3. <<c, e>> \in Seq(Events) /\ LeadsBy(st, <<c, e>>, u)
  BY <1>2, EvSeqs DEF LeadsBy, Quiet
<1> QED BY <1>1, <1>3 DEF Carry, Leads


(* The parts of InStep, to be taken one at a time. *)
LEMMA InStepParts ==
  ASSUME NEW st, NEW w, InStep(st, w)
  PROVE  /\ Known(w)
         /\ DOMAIN w.resp = 1..st.nextResp
         /\ \A r \in DOMAIN w.resp : w.resp[r] = "in_progress" <=> r = st.active.ref
         /\ DOMAIN w.item \subseteq 1..st.nextRef /\ st.speechItem \notin DOMAIN w.item
         /\ \A i \in DOMAIN st.items :
              i \in DOMAIN w.item /\ w.item[i] = IF st.items[i].status = "in_progress" THEN "added" ELSE "done"
         /\ \A i \in DOMAIN w.item : i \in DOMAIN st.items \/ w.item[i] = "deleted"
         /\ DOMAIN w.owner \subseteq DOMAIN w.item
         /\ \A i \in DOMAIN st.items : st.items[i].kind = "user_audio" => i \notin DOMAIN w.owner
         /\ \A i \in DOMAIN w.owner :
              w.item[i] = "added" => i = st.active.item /\ w.owner[i] = st.active.ref
         /\ st.active.item # 0 => st.active.item \in DOMAIN w.owner /\ w.owner[st.active.item] = st.active.ref
BY DEF InStep

\* completePendingItem closes the user's item.
LEMMA CompletedCarry ==
  ASSUME NEW st, NEW u, Sized(st), Linked(st), NEW k, k # 0, k = st.pendingItem,
         NEW e \in Events, e.type = "item.done", e.item = k,
         DOMAIN u.items = DOMAIN st.items, u.items[k].kind = "user_audio", u.items[k].status = "completed",
         \A i \in DOMAIN st.items : i # k => u.items[i] = st.items[i],
         u.nextRef = st.nextRef, u.speechItem = st.speechItem, u.pendingItem = 0,
         u.nextResp = st.nextResp, u.active.ref = st.active.ref, u.active.item = st.active.item,
         u.out = st.out \o <<e>>
  PROVE  Carry(st, u)
<1>0. k \in DOMAIN st.items /\ st.items[k].kind = "user_audio" /\ st.items[k].status = "in_progress"
  BY DEF Linked, PendingIsOpen
<1>1. Linked(u)
  <2>1. PendingIsOpen(u)
    BY DEF PendingIsOpen
  <2>2. st.active.item # 0 => st.active.item # k
    BY <1>0 DEF Linked
  <2>3. \A i \in DOMAIN u.items :
          u.items[i].kind = "message" /\ u.items[i].status = "in_progress" => i = u.active.item
    BY DEF Linked
  <2>4. u.active.ref <= u.nextResp /\ (u.active.ref = 0 => u.active.item = 0) /\ u.speechItem \notin DOMAIN u.items
    BY DEF Linked
  <2>5. u.active.item # 0 => /\ u.active.item \in DOMAIN u.items
                             /\ u.items[u.active.item].kind = "message"
                             /\ u.items[u.active.item].status = "in_progress"
    BY <2>2 DEF Linked
  <2> QED BY <2>1, <2>3, <2>4, <2>5 DEF Linked
<1>2. ASSUME NEW w, InStep(st, w) PROVE Reaches(w, <<e>>, Told(w, e)) /\ InStep(u, Told(w, e))
  <2> DEFINE x == Told(w, e)
  <2>1. Known(x) /\ x.resp = w.resp /\ x.owner = w.owner /\ x.item = Put(w.item, k, "done")
    <3>1. Known(w) /\ ItemMark(e) = "done"
      BY <1>2 DEF InStep, ItemMark
    <3> QED BY <3>1, ToldItem
  <2>2. k \in DOMAIN w.item /\ w.item[k] = "added" /\ k \notin DOMAIN w.owner
    BY <1>0, <1>2, InStepParts
  <2>3. Allowed(w, e)
    BY <2>2 DEF Allowed, IsOpen
  <2>4. Reaches(w, <<e>>, x)
    BY <2>3, ReachOne
  <2> HIDE DEF x
  <2>5. DOMAIN x.item = DOMAIN w.item /\ x.item[k] = "done" /\ \A i \in DOMAIN w.item : i # k => x.item[i] = w.item[i]
    BY <2>1, <2>2 DEF Put
  <2>6. DOMAIN x.resp = 1..u.nextResp /\ \A r \in DOMAIN x.resp : x.resp[r] = "in_progress" <=> r = u.active.ref
    BY <1>2, <2>1, InStepParts
  <2>7. DOMAIN x.item \subseteq 1..u.nextRef /\ u.speechItem \notin DOMAIN x.item
    BY <1>2, <2>5, InStepParts
  <2>8. \A i \in DOMAIN u.items :
           i \in DOMAIN x.item /\ x.item[i] = IF u.items[i].status = "in_progress" THEN "added" ELSE "done"
    <3> TAKE i \in DOMAIN u.items
    <3>0. i \in DOMAIN w.item /\ w.item[i] = IF st.items[i].status = "in_progress" THEN "added" ELSE "done"
      BY <1>2, InStepParts
    <3>1. CASE i = k
      BY <2>5, <3>0, <3>1
    <3>2. CASE i # k
      BY <2>5, <3>0, <3>2
    <3> QED BY <3>1, <3>2
  <2>9. \A i \in DOMAIN x.item : i \in DOMAIN u.items \/ x.item[i] = "deleted"
    <3>1. \A i \in DOMAIN w.item : i \in DOMAIN st.items \/ w.item[i] = "deleted"
      BY <1>2, InStepParts
    <3> QED BY <1>0, <2>5, <3>1
  <2>10. DOMAIN x.owner \subseteq DOMAIN x.item
    BY <1>2, <2>1, <2>5, InStepParts
  <2>11. \A i \in DOMAIN u.items : u.items[i].kind = "user_audio" => i \notin DOMAIN x.owner
    <3>1. \A i \in DOMAIN st.items : st.items[i].kind = "user_audio" => i \notin DOMAIN w.owner
      BY <1>2, InStepParts
    <3> QED BY <2>1, <2>2, <3>1
  <2>12. \A i \in DOMAIN x.owner : x.item[i] = "added" => i = u.active.item /\ x.owner[i] = u.active.ref
    <3>1. \A i \in DOMAIN w.owner : i \in DOMAIN w.item /\ (w.item[i] = "added" => i = st.active.item /\ w.owner[i] = st.active.ref)
      BY <1>2, InStepParts
    <3> QED BY <2>1, <2>2, <2>5, <3>1
  <2>13. u.active.item # 0 => u.active.item \in DOMAIN x.owner /\ x.owner[u.active.item] = u.active.ref
    BY <1>2, <2>1, InStepParts
  <2>14. InStep(u, x)
    BY <2>1, <2>6, <2>7, <2>8, <2>9, <2>10, <2>11, <2>12, <2>13 DEF InStep
  <2> QED BY <2>4, <2>14 DEF x
<1>3. <<e>> \in Seq(Events) /\ LeadsBy(st, <<e>>, u)
  BY <1>2 DEF LeadsBy
<1> QED BY <1>1, <1>3 DEF Carry, Leads


\* createItem adds an item that is complete at once.
LEMMA AddedCarry ==
  ASSUME NEW st, NEW u, Sized(st), Linked(st), NEW k, k = st.nextRef + 1,
         NEW d \in Events, d.type = "item.added", d.item = k,
         NEW e \in Events, e.type = "item.done", e.item = k,
         DOMAIN u.items = DOMAIN st.items \cup {k},
         u.items[k].kind # "user_audio", u.items[k].status = "completed",
         \A i \in DOMAIN st.items : i # k => u.items[i] = st.items[i],
         u.nextRef = k, u.speechItem = st.speechItem, u.pendingItem = st.pendingItem,
         u.nextResp = st.nextResp, u.active.ref = st.active.ref, u.active.item = st.active.item,
         u.out = st.out \o <<d, e>>
  PROVE  Carry(st, u)
<1>0. /\ k \in Nat /\ k \notin DOMAIN st.items /\ u.speechItem # k /\ k \notin 1..st.nextRef
      /\ 1..st.nextRef \cup {k} \subseteq 1..k
  BY SMTT(30) DEF Sized
<1>1. Linked(u)
  <2>1. PendingIsOpen(u)
    BY <1>0 DEF PendingIsOpen, Linked
  <2>2. \A i \in DOMAIN u.items :
          u.items[i].kind = "message" /\ u.items[i].status = "in_progress" => i = u.active.item
    BY DEF Linked
  <2>3. u.active.ref <= u.nextResp /\ (u.active.ref = 0 => u.active.item = 0) /\ u.speechItem \notin DOMAIN u.items
    BY <1>0 DEF Linked
  <2>4. u.active.item # 0 => /\ u.active.item \in DOMAIN u.items
                             /\ u.items[u.active.item].kind = "message"
                             /\ u.items[u.active.item].status = "in_progress"
    BY <1>0 DEF Linked
  <2> QED BY <2>1, <2>2, <2>3, <2>4 DEF Linked
<1>2. ASSUME NEW w, InStep(st, w) PROVE \E x : Reaches(w, <<d, e>>, x) /\ InStep(u, x)
  <2> DEFINE y == Told(w, d)
             x == Told(y, e)
  <2>1. Known(w) /\ ItemMark(d) = "added" /\ ItemMark(e) = "done"
    BY <1>2 DEF InStep, ItemMark
  <2>2. Known(y) /\ y.resp = w.resp /\ y.owner = w.owner /\ y.item = Put(w.item, k, "added")
    BY <2>1, ToldItem
  <2> HIDE DEF y
  <2>3. Known(x) /\ x.resp = y.resp /\ x.owner = y.owner /\ x.item = Put(y.item, k, "done")
    BY <2>1, <2>2, ToldItem
  <2> HIDE DEF x
  <2>4. k \notin DOMAIN w.item /\ k \notin DOMAIN w.owner
    <3>1. DOMAIN w.item \subseteq 1..st.nextRef /\ DOMAIN w.owner \subseteq DOMAIN w.item
      BY <1>2, InStepParts
    <3> QED BY <1>0, <3>1
  <2>5. /\ DOMAIN y.item = DOMAIN w.item \cup {k} /\ y.item[k] = "added"
        /\ DOMAIN x.item = DOMAIN w.item \cup {k} /\ x.item[k] = "done"
        /\ \A i \in DOMAIN w.item : x.item[i] = w.item[i]
    BY <2>2, <2>3, <2>4 DEF Put
  <2>6. Allowed(w, d)
    BY <2>4 DEF Allowed
  <2>7. Allowed(y, e)
    BY <2>2, <2>4, <2>5 DEF Allowed, IsOpen
  <2>8. Reaches(w, <<d, e>>, x)
    BY <2>6, <2>7, ReachTwo DEF x, y
  <2>9. DOMAIN x.resp = 1..u.nextResp /\ \A r \in DOMAIN x.resp : x.resp[r] = "in_progress" <=> r = u.active.ref
    BY <1>2, <2>2, <2>3, InStepParts
  <2>10. DOMAIN x.item \subseteq 1..u.nextRef /\ u.speechItem \notin DOMAIN x.item
    <3>1. DOMAIN w.item \subseteq 1..st.nextRef /\ st.speechItem \notin DOMAIN w.item
      BY <1>2, InStepParts
    <3> QED BY <1>0, <2>5, <3>1
  <2>11. \A i \in DOMAIN u.items :
           i \in DOMAIN x.item /\ x.item[i] = IF u.items[i].status = "in_progress" THEN "added" ELSE "done"
    <3> TAKE i \in DOMAIN u.items
    <3>1. CASE i = k
      BY <2>5, <3>1
    <3>2. CASE i # k
      <4>1. i \in DOMAIN w.item /\ w.item[i] = IF st.items[i].status = "in_progress" THEN "added" ELSE "done"
        BY <1>2, <3>2, InStepParts
      <4> QED BY <2>5, <3>2, <4>1
    <3> QED BY <3>1, <3>2
  <2>12. \A i \in DOMAIN x.item : i \in DOMAIN u.items \/ x.item[i] = "deleted"
    <3>1. \A i \in DOMAIN w.item : i \in DOMAIN st.items \/ w.item[i] = "deleted"
      BY <1>2, InStepParts
    <3> QED BY <2>5, <3>1
  <2>13. DOMAIN x.owner \subseteq DOMAIN x.item
    BY <1>2, <2>2, <2>3, <2>5, InStepParts
  <2>14. \A i \in DOMAIN u.items : u.items[i].kind = "user_audio" => i \notin DOMAIN x.owner
    <3>1. \A i \in DOMAIN st.items : st.items[i].kind = "user_audio" => i \notin DOMAIN w.owner
      BY <1>2, InStepParts
    <3> QED BY <2>2, <2>3, <3>1
  <2>15. \A i \in DOMAIN x.owner : x.item[i] = "added" => i = u.active.item /\ x.owner[i] = u.active.ref
    <3>1. \A i \in DOMAIN w.owner : i \in DOMAIN w.item /\ (w.item[i] = "added" => i = st.active.item /\ w.owner[i] = st.active.ref)
      BY <1>2, InStepParts
    <3> QED BY <2>2, <2>3, <2>5, <3>1
  <2>16. u.active.item # 0 => u.active.item \in DOMAIN x.owner /\ x.owner[u.active.item] = u.active.ref
    BY <1>2, <2>2, <2>3, InStepParts
  <2>17. InStep(u, x)
    BY <2>3, <2>9, <2>10, <2>11, <2>12, <2>13, <2>14, <2>15, <2>16 DEF InStep
  <2> QED BY <2>8, <2>17
<1>3. <<d, e>> \in Seq(Events) /\ LeadsBy(st, <<d, e>>, u)
  BY <1>2, EvSeqs DEF LeadsBy
<1> QED BY <1>1, <1>3 DEF Carry, Leads


\* ensureOutputItem adds the response's message.
LEMMA OutputCarry ==
  ASSUME NEW st, NEW u, Sized(st), Linked(st), st.active.ref # 0, st.active.item = 0,
         NEW k, k = st.nextRef + 1,
         NEW e \in Events, e.type = "output_item.added", e.item = k, e.resp = st.active.ref,
         DOMAIN u.items = DOMAIN st.items \cup {k},
         u.items[k].kind = "message", u.items[k].status = "in_progress",
         \A i \in DOMAIN st.items : i # k => u.items[i] = st.items[i],
         u.nextRef = k, u.speechItem = st.speechItem, u.pendingItem = st.pendingItem,
         u.nextResp = st.nextResp, u.active.ref = st.active.ref, u.active.item = k,
         u.out = st.out \o <<e>>
  PROVE  Carry(st, u)
<1> DEFINE n == st.active.ref
<1>0. /\ k \in Nat /\ k \notin DOMAIN st.items /\ u.speechItem # k /\ k \notin 1..st.nextRef
      /\ 1..st.nextRef \cup {k} \subseteq 1..k /\ k # 0 /\ 0 \notin DOMAIN st.items
  BY DEF Sized
<1>1. Linked(u)
  <2>1. PendingIsOpen(u)
    BY <1>0 DEF PendingIsOpen, Linked
  <2>2. \A i \in DOMAIN st.items : ~(st.items[i].kind = "message" /\ st.items[i].status = "in_progress")
    BY <1>0 DEF Linked
  <2>3. \A i \in DOMAIN u.items :
          u.items[i].kind = "message" /\ u.items[i].status = "in_progress" => i = u.active.item
    BY <2>2
  <2>4. u.active.ref <= u.nextResp /\ u.speechItem \notin DOMAIN u.items
    BY <1>0 DEF Linked
  <2> QED BY <2>1, <2>3, <2>4 DEF Linked
<1>2. ASSUME NEW w, InStep(st, w) PROVE Reaches(w, <<e>>, Told(w, e)) /\ InStep(u, Told(w, e))
  <2> DEFINE x == Told(w, e)
  <2>1. Known(w)
    BY <1>2 DEF InStep
  <2>2. /\ Known(x) /\ x.resp = w.resp /\ x.item = Put(w.item, k, "added")
        /\ x.owner = Put(w.owner, k, n)
    BY <2>1, ToldOutput
  <2> HIDE DEF x
  <2>3. DOMAIN w.item \subseteq 1..st.nextRef /\ DOMAIN w.owner \subseteq DOMAIN w.item
    BY <1>2, InStepParts
  <2>4. k \notin DOMAIN w.item /\ k \notin DOMAIN w.owner
    BY <1>0, <2>3
  <2>5. DOMAIN x.item = DOMAIN w.item \cup {k} /\ x.item[k] = "added" /\ \A i \in DOMAIN w.item : x.item[i] = w.item[i]
    BY <2>2, <2>4 DEF Put
  <2>6. DOMAIN x.owner = DOMAIN w.owner \cup {k} /\ x.owner[k] = n /\ \A i \in DOMAIN w.owner : x.owner[i] = w.owner[i]
    BY <2>2, <2>4 DEF Put
  <2>7. DOMAIN w.resp = 1..st.nextResp /\ \A r \in DOMAIN w.resp : w.resp[r] = "in_progress" <=> r = n
    BY <1>2, InStepParts
  <2>8. n \in DOMAIN w.resp
    BY <2>7 DEF Linked, Sized
  <2>9. Allowed(w, e)
    BY <2>4, <2>7, <2>8 DEF Allowed, InProg
  <2>10. Reaches(w, <<e>>, x)
    BY <2>9, ReachOne DEF x
  <2>11. DOMAIN x.item \subseteq 1..u.nextRef /\ u.speechItem \notin DOMAIN x.item
    <3>1. st.speechItem \notin DOMAIN w.item
      BY <1>2, InStepParts
    <3> QED BY <1>0, <2>3, <2>5, <3>1
  <2>12. \A i \in DOMAIN u.items :
           i \in DOMAIN x.item /\ x.item[i] = IF u.items[i].status = "in_progress" THEN "added" ELSE "done"
    <3> TAKE i \in DOMAIN u.items
    <3>1. CASE i = k
      BY <2>5, <3>1
    <3>2. CASE i # k
      <4>1. i \in DOMAIN w.item /\ w.item[i] = IF st.items[i].status = "in_progress" THEN "added" ELSE "done"
        BY <1>2, <3>2, InStepParts
      <4> QED BY <2>5, <3>2, <4>1
    <3> QED BY <3>1, <3>2
  <2>13. \A i \in DOMAIN x.item : i \in DOMAIN u.items \/ x.item[i] = "deleted"
    <3>1. \A i \in DOMAIN w.item : i \in DOMAIN st.items \/ w.item[i] = "deleted"
      BY <1>2, InStepParts
    <3> QED BY <2>5, <3>1
  <2>14. \A i \in DOMAIN u.items : u.items[i].kind = "user_audio" => i \notin DOMAIN x.owner
    <3>1. \A i \in DOMAIN st.items : st.items[i].kind = "user_audio" => i \notin DOMAIN w.owner
      BY <1>2, InStepParts
    <3> QED BY <2>6, <3>1
  <2>15. \A i \in DOMAIN x.owner : x.item[i] = "added" => i = u.active.item /\ x.owner[i] = u.active.ref
    <3>1. \A i \in DOMAIN w.owner : i \in DOMAIN w.item /\ w.item[i] # "added"
      <4>1. \A i \in DOMAIN w.owner : w.item[i] = "added" => i = 0
        BY <1>2, InStepParts
      <4>2. 0 \notin DOMAIN w.item
        BY <2>3 DEF Sized
      <4> QED BY <2>3, <4>1, <4>2
    <3> QED BY <2>5, <2>6, <3>1
  <2>16. DOMAIN x.owner \subseteq DOMAIN x.item /\ u.active.item \in DOMAIN x.owner /\ x.owner[u.active.item] = u.active.ref
    BY <2>3, <2>5, <2>6
  <2>17. DOMAIN x.resp = 1..u.nextResp /\ \A r \in DOMAIN x.resp : x.resp[r] = "in_progress" <=> r = u.active.ref
    BY <2>2, <2>7
  <2>18. InStep(u, x)
    BY <2>2, <2>11, <2>12, <2>13, <2>14, <2>15, <2>16, <2>17 DEF InStep
  <2> QED BY <2>10, <2>18 DEF x
<1>3. <<e>> \in Seq(Events) /\ LeadsBy(st, <<e>>, u)
  BY <1>2 DEF LeadsBy
<1> QED BY <1>1, <1>3 DEF Carry, Leads

(* An event of the given type about the given response and item. *)
Tells(e, type, resp, item) == e \in Events /\ e.type = type /\ e.resp = resp /\ e.item = item
(* Between st and u these three events are emitted. *)
Said(st, u, a, d, e) == u.out = st.out \o <<a, d, e>>

\* deliverToolCall adds a tool call, tells its arguments and closes it.
LEMMA ToolCarry ==
  ASSUME NEW st, NEW u, Sized(st), Linked(st), st.active.ref # 0, NEW k, k = st.nextRef + 1,
         NEW a, Tells(a, "output_item.added", st.active.ref, k),
         NEW d, Tells(d, "arguments.done", st.active.ref, k),
         NEW e, Tells(e, "output_item.done", st.active.ref, k),
         DOMAIN u.items = DOMAIN st.items \cup {k},
         u.items[k].kind = "tool_call", u.items[k].status = "completed",
         \A i \in DOMAIN st.items : i # k => u.items[i] = st.items[i],
         u.nextRef = k, u.speechItem = st.speechItem, u.pendingItem = st.pendingItem,
         u.nextResp = st.nextResp, u.active.ref = st.active.ref, u.active.item = st.active.item,
         Said(st, u, a, d, e)
  PROVE  Carry(st, u)
<1>a. /\ a \in Events /\ a.type = "output_item.added" /\ a.item = k /\ a.resp = st.active.ref
      /\ d \in Events /\ d.type = "arguments.done" /\ d.item = k /\ d.resp = st.active.ref
      /\ e \in Events /\ e.type = "output_item.done" /\ e.item = k
      /\ u.out = st.out \o <<a, d, e>>
  BY DEF Tells, Said
<1> USE <1>a
<1> DEFINE n == st.active.ref
<1>0. /\ k \in Nat /\ k \notin DOMAIN st.items /\ u.speechItem # k /\ k \notin 1..st.nextRef
      /\ 1..st.nextRef \cup {k} \subseteq 1..k
  BY SMTT(30) DEF Sized
<1>1. Linked(u)
  <2>1. PendingIsOpen(u)
    BY <1>0 DEF PendingIsOpen, Linked
  <2>2. \A i \in DOMAIN u.items :
          u.items[i].kind = "message" /\ u.items[i].status = "in_progress" => i = u.active.item
    BY DEF Linked
  <2>3. u.active.ref <= u.nextResp /\ (u.active.ref = 0 => u.active.item = 0) /\ u.speechItem \notin DOMAIN u.items
    BY <1>0 DEF Linked
  <2>4. u.active.item # 0 => /\ u.active.item \in DOMAIN u.items
                             /\ u.items[u.active.item].kind = "message"
                             /\ u.items[u.active.item].status = "in_progress"
    BY <1>0 DEF Linked
  <2> QED BY <2>1, <2>2, <2>3, <2>4 DEF Linked
<1>2. ASSUME NEW w, InStep(st, w) PROVE \E x : Reaches(w, <<a, d, e>>, x) /\ InStep(u, x)
  <2> DEFINE y == Told(w, a)
             z == Told(y, d)
             x == Told(z, e)
  <2>1. Known(w) /\ ItemMark(e) = "done"
    BY <1>2 DEF InStep, ItemMark
  <2>2. /\ Known(y) /\ y.resp = w.resp /\ y.item = Put(w.item, k, "added")
        /\ y.owner = Put(w.owner, k, n)
    BY <2>1, ToldOutput
  <2> HIDE DEF y
  <2>3. Known(z) /\ z.resp = y.resp /\ z.item = y.item /\ z.owner = y.owner
    BY <2>2, ToldDelta
  <2> HIDE DEF z
  <2>4. Known(x) /\ x.resp = z.resp /\ x.owner = z.owner /\ x.item = Put(z.item, k, "done")
    BY <2>1, <2>3, ToldItem
  <2> HIDE DEF x
  <2>5. DOMAIN w.item \subseteq 1..st.nextRef /\ DOMAIN w.owner \subseteq DOMAIN w.item
    BY <1>2, InStepParts
  <2>6. k \notin DOMAIN w.item /\ k \notin DOMAIN w.owner
    BY <1>0, <2>5
  <2>7. /\ DOMAIN y.item = DOMAIN w.item \cup {k} /\ y.item[k] = "added"
        /\ DOMAIN x.item = DOMAIN w.item \cup {k} /\ x.item[k] = "done"
        /\ \A i \in DOMAIN w.item : x.item[i] = w.item[i]
    BY <2>2, <2>3, <2>4, <2>6 DEF Put
  <2>8. DOMAIN y.owner = DOMAIN w.owner \cup {k} /\ y.owner[k] = n /\ \A i \in DOMAIN w.owner : y.owner[i] = w.owner[i]
    BY <2>2, <2>6 DEF Put
  <2>9. DOMAIN w.resp = 1..st.nextResp /\ \A r \in DOMAIN w.resp : w.resp[r] = "in_progress" <=> r = n
    BY <1>2, InStepParts
  <2>10. n \in DOMAIN w.resp
    BY <2>9 DEF Linked, Sized
  <2>11. Allowed(w, a)
    BY <2>6, <2>9, <2>10 DEF Allowed, InProg
  <2>12. Allowed(y, d)
    BY <2>2, <2>7, <2>8, <2>9, <2>10 DEF Allowed, InProg, IsOpen
  <2>13. Allowed(z, e)
    BY <2>2, <2>3, <2>7, <2>8, <2>9, <2>10 DEF Allowed, InProg, IsOpen
  <2>14. Reaches(w, <<a, d, e>>, x)
    BY <2>11, <2>12, <2>13, ReachThree DEF x, y, z
  <2>15. DOMAIN x.item \subseteq 1..u.nextRef /\ u.speechItem \notin DOMAIN x.item
    <3>1. st.speechItem \notin DOMAIN w.item
      BY <1>2, InStepParts
    <3> QED BY <1>0, <2>5, <2>7, <3>1
  <2>16. \A i \in DOMAIN u.items :
           i \in DOMAIN x.item /\ x.item[i] = IF u.items[i].status = "in_progress" THEN "added" ELSE "done"
    <3> TAKE i \in DOMAIN u.items
    <3>1. CASE i = k
      BY <2>7, <3>1
    <3>2. CASE i # k
      <4>1. i \in DOMAIN w.item /\ w.item[i] = IF st.items[i].status = "in_progress" THEN "added" ELSE "done"
        BY <1>2, <3>2, InStepParts
      <4> QED BY <2>7, <3>2, <4>1
    <3> QED BY <3>1, <3>2
  <2>17. \A i \in DOMAIN x.item : i \in DOMAIN u.items \/ x.item[i] = "deleted"
    <3>1. \A i \in DOMAIN w.item : i \in DOMAIN st.items \/ w.item[i] = "deleted"
      BY <1>2, InStepParts
    <3> QED BY <2>7, <3>1
  <2>18. \A i \in DOMAIN u.items : u.items[i].kind = "user_audio" => i \notin DOMAIN x.owner
    <3>1. \A i \in DOMAIN st.items : st.items[i].kind = "user_audio" => i \notin DOMAIN w.owner
      BY <1>2, InStepParts
    <3> QED BY <2>3, <2>4, <2>8, <3>1
  <2>19. \A i \in DOMAIN x.owner : x.item[i] = "added" => i = u.active.item /\ x.owner[i] = u.active.ref
    <3>1. \A i \in DOMAIN w.owner : i \in DOMAIN w.item /\ (w.item[i] = "added" => i = st.active.item /\ w.owner[i] = st.active.ref)
      BY <1>2, InStepParts
    <3> QED BY <2>3, <2>4, <2>7, <2>8, <3>1
  <2>20. u.active.item # 0 => u.active.item \in DOMAIN x.owner /\ x.owner[u.active.item] = u.active.ref
    <3>1. st.active.item # 0 => st.active.item \in DOMAIN w.owner /\ w.owner[st.active.item] = st.active.ref
      BY <1>2, InStepParts
    <3> QED BY <2>3, <2>4, <2>8, <3>1
  <2>21. DOMAIN x.owner \subseteq DOMAIN x.item
    BY <2>3, <2>4, <2>5, <2>7, <2>8
  <2>22. DOMAIN x.resp = 1..u.nextResp /\ \A r \in DOMAIN x.resp : x.resp[r] = "in_progress" <=> r = u.active.ref
    BY <2>2, <2>3, <2>4, <2>9
  <2>23. InStep(u, x)
    BY <2>4, <2>15, <2>16, <2>17, <2>18, <2>19, <2>20, <2>21, <2>22 DEF InStep
  <2> QED BY <2>14, <2>23
<1>3. <<a, d, e>> \in Seq(Events) /\ LeadsBy(st, <<a, d, e>>, u)
  BY <1>2, EvSeqs DEF LeadsBy
<1> QED BY <1>1, <1>3 DEF Carry, Leads


\* deleteItem takes away an item that is not the output item of the active response.
LEMMA DeletedCarry ==
  ASSUME NEW st, NEW u, Sized(st), Linked(st), NEW k, k \in DOMAIN st.items, k # st.active.item,
         NEW e \in Events, e.type = "item.deleted", e.item = k,
         DOMAIN u.items = DOMAIN st.items \ {k},
         \A i \in DOMAIN st.items : i # k => u.items[i] = st.items[i],
         u.nextRef = st.nextRef, u.speechItem = st.speechItem,
         u.pendingItem = IF st.pendingItem = k THEN 0 ELSE st.pendingItem,
         u.nextResp = st.nextResp, u.active.ref = st.active.ref, u.active.item = st.active.item,
         u.out = st.out \o <<e>>
  PROVE  Carry(st, u)
<1>1. Linked(u)
  <2>1. PendingIsOpen(u)
    BY DEF PendingIsOpen, Linked
  <2>2. \A i \in DOMAIN u.items :
          u.items[i].kind = "message" /\ u.items[i].status = "in_progress" => i = u.active.item
    BY DEF Linked
  <2>3. u.active.ref <= u.nextResp /\ (u.active.ref = 0 => u.active.item = 0) /\ u.speechItem \notin DOMAIN u.items
    BY DEF Linked
  <2>4. u.active.item # 0 => /\ u.active.item \in DOMAIN u.items
                             /\ u.items[u.active.item].kind = "message"
                             /\ u.items[u.active.item].status = "in_progress"
    BY DEF Linked
  <2> QED BY <2>1, <2>2, <2>3, <2>4 DEF Linked
<1>2. ASSUME NEW w, InStep(st, w) PROVE Reaches(w, <<e>>, Told(w, e)) /\ InStep(u, Told(w, e))
  <2> DEFINE x == Told(w, e)
  <2>1. Known(w) /\ ItemMark(e) = "deleted"
    BY <1>2 DEF InStep, ItemMark
  <2>2. Known(x) /\ x.resp = w.resp /\ x.owner = w.owner /\ x.item = Put(w.item, k, "deleted")
    BY <2>1, ToldItem
  <2> HIDE DEF x
  <2>3. k \in DOMAIN w.item /\ w.item[k] = IF st.items[k].status = "in_progress" THEN "added" ELSE "done"
    BY <1>2, InStepParts
  <2>4. \A i \in DOMAIN w.owner : i \in DOMAIN w.item /\ (w.item[i] = "added" => i = st.active.item /\ w.owner[i] = st.active.ref)
    BY <1>2, InStepParts
  <2>5. Allowed(w, e)
    BY <2>3, <2>4 DEF Allowed
  <2>6. Reaches(w, <<e>>, x)
    BY <2>5, ReachOne DEF x
  <2>7. DOMAIN x.item = DOMAIN w.item /\ x.item[k] = "deleted" /\ \A i \in DOMAIN w.item : i # k => x.item[i] = w.item[i]
    BY <2>2, <2>3 DEF Put
  <2>8. DOMAIN x.resp = 1..u.nextResp /\ \A r \in DOMAIN x.resp : x.resp[r] = "in_progress" <=> r = u.active.ref
    BY <1>2, <2>2, InStepParts
  <2>9. DOMAIN x.item \subseteq 1..u.nextRef /\ u.speechItem \notin DOMAIN x.item
    BY <1>2, <2>7, InStepParts
  <2>10. \A i \in DOMAIN u.items :
           i \in DOMAIN x.item /\ x.item[i] = IF u.items[i].status = "in_progress" THEN "added" ELSE "done"
    <3> TAKE i \in DOMAIN u.items
    <3>1. i \in DOMAIN w.item /\ w.item[i] = IF st.items[i].status = "in_progress" THEN "added" ELSE "done"
      BY <1>2, InStepParts
    <3> QED BY <2>7, <3>1
  <2>11. \A i \in DOMAIN x.item : i \in DOMAIN u.items \/ x.item[i] = "deleted"
    <3>1. \A i \in DOMAIN w.item : i \in DOMAIN st.items \/ w.item[i] = "deleted"
      BY <1>2, InStepParts
    <3> QED BY <2>7, <3>1
  <2>12. DOMAIN x.owner \subseteq DOMAIN x.item
    BY <1>2, <2>2, <2>7, InStepParts
  <2>13. \A i \in DOMAIN u.items : u.items[i].kind = "user_audio" => i \notin DOMAIN x.owner
    <3>1. \A i \in DOMAIN st.items : st.items[i].kind = "user_audio" => i \notin DOMAIN w.owner
      BY <1>2, InStepParts
    <3> QED BY <2>2, <3>1
  <2>14. \A i \in DOMAIN x.owner : x.item[i] = "added" => i = u.active.item /\ x.owner[i] = u.active.ref
    BY <2>2, <2>4, <2>7
  <2>15. u.active.item # 0 => u.active.item \in DOMAIN x.owner /\ x.owner[u.active.item] = u.active.ref
    BY <1>2, <2>2, InStepParts
  <2>16. InStep(u, x)
    BY <2>2, <2>8, <2>9, <2>10, <2>11, <2>12, <2>13, <2>14, <2>15 DEF InStep
  <2> QED BY <2>6, <2>16 DEF x
<1>3. <<e>> \in Seq(Events) /\ LeadsBy(st, <<e>>, u)
  BY <1>2 DEF LeadsBy
<1> QED BY <1>1, <1>3 DEF Carry, Leads

\* A delta is told while its response is in progress and its item open.
LEMMA DeltaCarry ==
  ASSUME NEW st, NEW u, Sized(st), Linked(st), Kept(st, u), st.active.ref # 0, st.active.item # 0,
         NEW e \in Events, e.type \in {"delta", "audio.delta"}, e.resp = st.active.ref, e.item = st.active.item,
         u.out = st.out \o <<e>>
  PROVE  Carry(st, u)
<1>1. Linked(u) /\ \A w : InStep(st, w) => InStep(u, w)
  BY KeptLinked
<1>2. ASSUME NEW w, InStep(st, w) PROVE Reaches(w, <<e>>, Told(w, e)) /\ InStep(u, Told(w, e))
  <2> DEFINE x == Told(w, e)
             n == st.active.ref
             k == st.active.item
  <2>1. Known(w)
    BY <1>2 DEF InStep
  <2>2. Known(x) /\ x.resp = w.resp /\ x.owner = w.owner /\ x.item = w.item
    BY <2>1, ToldDelta
  <2> HIDE DEF x
  <2>3. DOMAIN w.resp = 1..st.nextResp /\ \A r \in DOMAIN w.resp : w.resp[r] = "in_progress" <=> r = n
    BY <1>2, InStepParts
  <2>4. n \in DOMAIN w.resp
    BY <2>3 DEF Linked, Sized
  <2>5. k \in DOMAIN st.items /\ st.items[k].status = "in_progress"
    BY DEF Linked
  <2>6. k \in DOMAIN w.item /\ w.item[k] = "added"
    BY <1>2, <2>5, InStepParts
  <2>7. k \in DOMAIN w.owner /\ w.owner[k] = n
    BY <1>2, InStepParts
  <2>8. Allowed(w, e)
    BY <2>3, <2>4, <2>6, <2>7 DEF Allowed, InProg, IsOpen
  <2>9. Reaches(w, <<e>>, x)
    BY <2>8, ReachOne DEF x
  <2>10. InStep(u, w)
    BY <1>1, <1>2
  <2>11. InStep(u, x)
    BY <2>2, <2>10 DEF InStep
  <2> QED BY <2>9, <2>11 DEF x
<1>3. <<e>> \in Seq(Events) /\ LeadsBy(st, <<e>>, u)
  BY <1>2 DEF LeadsBy
<1> QED BY <1>1, <1>3 DEF Carry, Leads

-----------------------------------------------------------------------------
(* The methods of the actor.  Fit is what every one of them keeps; Moves says what it *)
(* does to the stream.                                                                *)
Fit(st) == Good(st) /\ Linked(st)
Moves(st, u) == Good(u) /\ Carry(st, u)

\* Two moves are a move.
LEMMA MovesTrans ==
  ASSUME NEW a, NEW b, NEW c, Fit(a), Moves(a, b), Moves(b, c) PROVE Moves(a, c)
<1>1. a.out \in Seq(Events)
  BY DEF Fit, Good, SessionOK
<1> QED BY <1>1, CarryTrans DEF Moves

\* A move leads to a record that the next can start from.
LEMMA MovesFit ==
  ASSUME NEW a, NEW b, Moves(a, b) PROVE Fit(b)
BY DEF Moves, Carry, Fit

(* A turn in progress has its ref; while the actor runs, a turn that has ended         *)
(* acoustically has its timer, in the mode that looks at it, and so has the deferred   *)
(* trigger.                                                                            *)
Spoken(st) == st.turn.speaking \/ st.turn.pendingEOT => st.speechItem # 0
Deferred(st) == st.deferItem # 0 <=> st.deferWait
Timed(st) == (st.turn.pendingEOT => st.eot /\ st.turn.mode = "semantic_vad") /\ Deferred(st)

(* The step is not about the turn. *)
Turned(st, u) ==
  /\ u.turn.speaking = st.turn.speaking /\ u.turn.pendingEOT = st.turn.pendingEOT
  /\ u.turn.mode = st.turn.mode /\ u.eot = st.eot /\ u.speechItem = st.speechItem
  /\ Deferred(st) => Deferred(u)

\* Two steps that leave the turn alone leave it alone.
LEMMA TurnedTrans ==
  ASSUME NEW a, NEW b, NEW c, Turned(a, b), Turned(b, c) PROVE Turned(a, c)
BY DEF Turned

\* Leaving the turn alone keeps its ref and its timers.
LEMMA TurnedWaits ==
  ASSUME NEW st, NEW u, Turned(st, u)
  PROVE  (Spoken(st) => Spoken(u)) /\ (Timed(st) => Timed(u))
BY DEF Turned, Spoken, Timed

(* A silent step is not about what the client sees. *)
Silent(st, u) == Kept(st, u) /\ u.out = st.out

\* A silent step is a move.
LEMMA SilentMoves ==
  ASSUME NEW st, NEW u, Fit(st), Good(u), Silent(st, u) PROVE Moves(st, u)
BY GoodSized, KeptSilent DEF Fit, Moves, Silent

\* Two silent steps are one.
LEMMA SilentTrans ==
  ASSUME NEW a, NEW b, NEW c, Good(a), SessionOK(b), SessionOK(c), Silent(a, b), Silent(b, c) PROVE Silent(a, c)
<1>1. SameItems(a, c)
  BY DEF Silent, Kept, SameItems
<1>2. SameRefs(a, c)
  <2>1. a.nextRef \in Nat /\ b.nextRef \in Nat /\ c.nextRef \in Nat
    BY DEF Good, SessionOK
  <2>2. a.nextRef <= b.nextRef /\ (b.speechItem = a.speechItem \/ b.speechItem \notin 1..a.nextRef)
    BY DEF Silent, Kept, SameRefs
  <2>3. b.nextRef <= c.nextRef /\ (c.speechItem = b.speechItem \/ c.speechItem \notin 1..b.nextRef)
    BY DEF Silent, Kept, SameRefs
  <2> QED BY <2>1, <2>2, <2>3 DEF SameRefs
<1> QED BY <1>1, <1>2 DEF Silent, Kept

\* The methods that only start or stop a pipeline or a timer.
LEMMA StartPipelineSilent ==
  ASSUME NEW st, SessionOK(st)
  PROVE  Silent(st, StartPipeline(st)) /\ Turned(st, StartPipeline(st))
<1> DEFINE u == StartPipeline(st)
<1>1. /\ u.items = st.items /\ u.nextRef = st.nextRef /\ u.speechItem = st.speechItem
      /\ u.pendingItem = st.pendingItem /\ u.nextResp = st.nextResp /\ u.out = st.out /\ u.turn = st.turn
      /\ u.eot = st.eot /\ u.deferWait = st.deferWait /\ u.deferItem = st.deferItem
  BY DEF SessionOK, StartPipeline
<1>2. u.active.ref = st.active.ref /\ u.active.item = st.active.item
  BY DEF SessionOK, StartPipeline, Responses
<1>3. st.nextRef \in Nat
  BY DEF SessionOK
<1> HIDE DEF u
<1> QED BY <1>1, <1>2, <1>3 DEF u, Silent, Kept, SameItems, SameRefs, Turned, Deferred

\* Timers are not about what the client sees.
LEMMA TimersSilent ==
  ASSUME NEW st, SessionOK(st)
  PROVE  /\ Silent(st, ArmASRWait(st)) /\ Turned(st, ArmASRWait(st))
         /\ Silent(st, StopASRWait(st)) /\ Turned(st, StopASRWait(st))
         /\ Silent(st, DropDeferredTrigger(st)) /\ Turned(st, DropDeferredTrigger(st))
         /\ Silent(st, DeferTrigger(st)) /\ Turned(st, DeferTrigger(st))
         /\ Silent(st, DisarmEndOfTurn(st))
<1>0. st.nextRef \in Nat
  BY DEF SessionOK
<1>1. Silent(st, ArmASRWait(st)) /\ Turned(st, ArmASRWait(st))
  BY <1>0 DEF SessionOK, ArmASRWait, Silent, Kept, SameItems, SameRefs, Turned, Deferred
<1>2. Silent(st, StopASRWait(st)) /\ Turned(st, StopASRWait(st))
  BY <1>0 DEF SessionOK, StopASRWait, Silent, Kept, SameItems, SameRefs, Turned, Deferred
<1>3. Silent(st, DropDeferredTrigger(st)) /\ Turned(st, DropDeferredTrigger(st))
  BY <1>0 DEF SessionOK, DropDeferredTrigger, Silent, Kept, SameItems, SameRefs, Turned, Deferred
<1>4. Silent(st, DeferTrigger(st)) /\ Turned(st, DeferTrigger(st))
  BY <1>0 DEF SessionOK, DeferTrigger, Silent, Kept, SameItems, SameRefs, Turned, Deferred
<1>5. Silent(st, DisarmEndOfTurn(st))
  BY <1>0 DEF SessionOK, DisarmEndOfTurn, Silent, Kept, SameItems, SameRefs
<1> QED BY <1>1, <1>2, <1>3, <1>4, <1>5


\* createResponseAt.
LEMMA CreateAcceptedMoves ==
  ASSUME NEW st, Fit(st), st.active.ref = 0, NEW voice \in Voices, NEW textOnly \in BOOLEAN
  PROVE  LET u == CreateAccepted(st, voice, textOnly) IN Moves(st, u) /\ Turned(st, u)
<1> DEFINE waits == st.pendingItem # 0 /\ st.items[st.pendingItem].status # "completed"
           n == st.nextResp + 1
           dep == IF waits THEN st.pendingItem ELSE 0
           r == [NoResponse EXCEPT !.ref = n, !.awaiting = TRUE, !.voice = voice,
                                   !.textOnly = textOnly, !.dependsOn = dep]
           t == StepResponseStarted(st.turn)
           b == [st EXCEPT !.nextResp = n, !.active = r, !.turn = t]
           e == Ev("response.created", n, 0, "")
           c == Emits(b, <<e>>)
           u == CreateAccepted(st, voice, textOnly)
<1>0. Good(st) /\ Linked(st) /\ SessionOK(st) /\ Good(u)
  BY CreateAcceptedGood DEF Fit, Good, GoodStep
<1>1. n \in Nat /\ st.nextRef \in Nat
  BY <1>0 DEF SessionOK
<1>2. dep \in Nat
  BY <1>0 DEF SessionOK
<1>3. t \in Turn /\ t.speaking = st.turn.speaking /\ t.pendingEOT = st.turn.pendingEOT /\ t.mode = st.turn.mode
  BY <1>0 DEF SessionOK, StepResponseStarted, Turn
<1>4. e \in Events /\ e.type = "response.created" /\ e.resp = n
  <2>1. "response.created" \in EventTypes
    BY DEF EventTypes
  <2>2. e.type = "response.created" /\ e.resp = n
    BY DEF Ev
  <2> HIDE DEF n
  <2>3. n \in Nat /\ 0 \in Nat
    BY <1>1
  <2>4. e \in Events
    BY <2>1, <2>3, EvPlain, Zenon
  <2> QED BY <2>2, <2>4
<1>5. <<e>> \in Seq(Events)
  BY <1>4, EvSeqs
<1> HIDE DEF dep, n
<1>6. r \in Responses /\ r.ref = n /\ r.item = 0
  <2>1. NoResponse.item = 0
    BY DEF NoResponse
  <2> QED BY <1>1, <1>2, <2>1, NoResponseOK DEF Responses
<1>7. u = IF waits THEN ArmASRWait(c) ELSE StartPipeline(c)
  <2>1. r.ref = n
    BY <1>6
  <2> QED BY <2>1 DEF CreateAccepted, n, dep
<1> HIDE DEF r, t, e
<1>8. /\ SessionOK(b) /\ b.active = r /\ b.turn = t /\ b.nextResp = n /\ b.items = st.items
      /\ b.nextRef = st.nextRef /\ b.speechItem = st.speechItem /\ b.pendingItem = st.pendingItem
      /\ b.out = st.out /\ b.eot = st.eot /\ b.deferWait = st.deferWait /\ b.deferItem = st.deferItem
  BY <1>0, <1>1, <1>3, <1>6 DEF SessionOK
<1> HIDE DEF b
<1>9. /\ c.active = b.active /\ c.turn = b.turn /\ c.nextResp = b.nextResp /\ c.items = b.items
      /\ c.nextRef = b.nextRef /\ c.speechItem = b.speechItem /\ c.pendingItem = b.pendingItem
      /\ c.eot = b.eot /\ c.deferWait = b.deferWait /\ c.deferItem = b.deferItem
      /\ c.out = b.out \o <<e>>
  BY <1>8 DEF SessionOK, Emits
<1>10. SessionOK(c)
  BY <1>5, <1>8, EmitsOK
<1> HIDE DEF c, u
<1>11. Turned(st, c)
  BY <1>3, <1>8, <1>9 DEF Turned, Deferred
<1>12. SameItems(st, c) /\ SameRefs(st, c)
  BY <1>1, <1>8, <1>9 DEF SameItems, SameRefs
<1>13. Silent(c, u) /\ Turned(c, u)
  BY <1>7, <1>10, TimersSilent, StartPipelineSilent
<1>14. SameItems(st, u)
  BY <1>12, <1>13 DEF Silent, Kept, SameItems
<1>15. SameRefs(st, u)
  BY <1>1, <1>8, <1>9, <1>13 DEF Silent, Kept, SameRefs
<1>16. /\ u.pendingItem = st.pendingItem /\ u.nextResp = st.nextResp + 1 /\ u.active.ref = st.nextResp + 1
       /\ u.active.item = 0 /\ u.out = st.out \o <<e>> /\ e.resp = st.nextResp + 1
  BY <1>4, <1>6, <1>8, <1>9, <1>13 DEF Silent, Kept, n
<1>17. Carry(st, u)
  BY <1>0, <1>4, <1>14, <1>15, <1>16, GoodSized, CreatedCarry
<1>18. Turned(st, u)
  BY <1>11, <1>13, TurnedTrans
<1> QED BY <1>0, <1>17, <1>18 DEF Moves, u


\* The error event is quiet, and so is the cancel.
LEMMA ErrorQuiet == Quiet(Error) /\ Quiet(CancelMark)
<1>1. "error" \in EventTypes /\ "cancel" \in EventTypes /\ 0 \in Nat BY DEF EventTypes
<1>2. Error \in Events /\ CancelMark \in Events BY <1>1, EvPlain, Zenon DEF Error, CancelMark
<1> QED BY <1>2 DEF Quiet, QuietTypes, Error, CancelMark, Ev

\* emit leaves the turn and the timers alone.
LEMMA EmitsTurned ==
  ASSUME NEW st, SessionOK(st), NEW evs PROVE Turned(st, Emits(st, evs))
BY DEF SessionOK, Emits, Turned, Deferred

\* Refusing a command with an error.
LEMMA ErrorMoves ==
  ASSUME NEW st, Fit(st)
  PROVE  Moves(st, Emits(st, <<Error>>)) /\ Turned(st, Emits(st, <<Error>>))
<1>1. Good(Emits(st, <<Error>>))
  BY EmitsErrorGood DEF Fit, GoodStep
<1>2. Turned(st, Emits(st, <<Error>>))
  BY EmitsTurned DEF Fit, Good
<1> QED BY <1>1, <1>2, QuietCarry, ErrorQuiet DEF Fit, Good, Moves

\* fatal.
LEMMA FatalMoves ==
  ASSUME NEW st, Fit(st)
  PROVE  Moves(st, Fatal(st)) /\ Turned(st, Fatal(st))
<1> DEFINE q == <<Error, CancelMark>>
           u == Emits(st, q)
<1>1. q \in Seq(Events) /\ Len(q) = 2 /\ q[1] = Error /\ q[2] = CancelMark
  BY ErrorSeqs
<1>2. Fatal(st) = u
  BY DEF Fatal
<1> HIDE DEF q
<1>3. \A i \in 1..Len(q) : Quiet(q[i])
  <2>1. \A i \in 1..2 : i = 1 \/ i = 2
    OBVIOUS
  <2> QED BY <1>1, <2>1, ErrorQuiet
<1>4. SessionOK(st) /\ st.nextRef \in Nat
  BY DEF Fit, Good, SessionOK
<1>5. u.out = st.out \o q /\ Kept(st, u)
  BY <1>4 DEF SessionOK, Emits, Kept, SameItems, SameRefs
<1>6. Turned(st, u) /\ Good(u)
  BY <1>2, <1>4, EmitsTurned, FatalGood DEF Fit, GoodStep
<1> HIDE DEF u
<1>7. Carry(st, u)
  BY <1>1, <1>3, <1>5, GoodSized, KeptCarry DEF Fit
<1> QED BY <1>2, <1>6, <1>7 DEF Moves

\* createResponse with overrides, and an auto-created response.
LEMMA CreateResponseMoves ==
  ASSUME NEW st, Fit(st), st.active.ref = 0, NEW voice \in Voices, NEW textOnly \in BOOLEAN
  PROVE  LET u == CreateResponse(st, voice, textOnly) IN Moves(st, u) /\ Turned(st, u)
BY CreateAcceptedMoves, ErrorMoves DEF CreateResponse

\* The response a turn triggers.
LEMMA AutoCreateMoves ==
  ASSUME NEW st, Fit(st), st.active.ref = 0
  PROVE  Moves(st, AutoCreate(st)) /\ Turned(st, AutoCreate(st))
<1>1. st.voice \in Voices /\ st.textOnly \in BOOLEAN
  BY DEF Fit, Good, SessionOK
<1> QED BY <1>1, CreateResponseMoves DEF AutoCreate

\* finish.
LEMMA FinishCarry ==
  ASSUME NEW st, SessionOK(st), Linked(st), NEW status \in FinalStatuses
  PROVE  Carry(st, Finish(st, status)) /\ Turned(st, Finish(st, status))
<1> DEFINE x == IF status = "completed" THEN "completed" ELSE "incomplete"
           i == IF ~HasOutputItem(st) THEN st.items
                ELSE [st.items EXCEPT ![st.active.item].status = x]
           evs == TerminalEvents(st, status)
           u == Finish(st, status)
           c == Ev("content.done", st.active.ref, st.active.item, "")
           d == Ev("output_item.done", st.active.ref, st.active.item, "")
           e == Ev("response.done", st.active.ref, 0, status)
<1>0. Linked(st) /\ SessionOK(st) /\ Sized(st)
  BY SizedOK
<1>1. CASE st.active.ref = 0
  <2>1. u = st
    BY <1>1 DEF Finish
  <2>2. Kept(st, st) /\ Turned(st, st)
    BY <1>0 DEF Kept, SameItems, SameRefs, Turned, Sized
  <2> HIDE DEF u
  <2>3. Carry(st, u)
    BY <1>0, <2>1, <2>2, KeptSilent
  <2> QED BY <2>1, <2>2, <2>3 DEF u
<1>2. CASE st.active.ref # 0
  <2> DEFINE p == [g \in DOMAIN st.pipes |-> IF g = st.active.gen
                     THEN [st.pipes[g] EXCEPT !.cancelled = TRUE] ELSE st.pipes[g]]
             t == StepResponseEnded(st.turn)
             g == st.activeGen + 1
             b == [st EXCEPT !.pipes = p, !.asrWait = FALSE, !.items = i,
                             !.active = NoResponse, !.turn = t, !.activeGen = g]
  <2>1. u = Emits(b, evs)
    <3>1. CASE HasOutputItem(st)
      BY <1>0, <1>2, <3>1 DEF SessionOK, Finish, CloseOutputItem, StopASRWait, CancelPipeline, HasOutputItem
    <3>2. CASE ~HasOutputItem(st)
      BY <1>0, <1>2, <3>2 DEF SessionOK, Finish, CloseOutputItem, StopASRWait, CancelPipeline, HasOutputItem
    <3> QED BY <3>1, <3>2
  <2>2. t.speaking = st.turn.speaking /\ t.pendingEOT = st.turn.pendingEOT /\ t.mode = st.turn.mode
    BY <1>0 DEF SessionOK, StepResponseEnded, Turn
  <2>3. NoResponse.ref = 0 /\ NoResponse.item = 0
    BY DEF NoResponse
  <2> HIDE DEF p, i, t, g, evs
  <2>4. /\ Emits(b, evs).items = i /\ Emits(b, evs).turn = t /\ Emits(b, evs).active = NoResponse
        /\ Emits(b, evs).nextRef = st.nextRef /\ Emits(b, evs).speechItem = st.speechItem
        /\ Emits(b, evs).pendingItem = st.pendingItem /\ Emits(b, evs).nextResp = st.nextResp
        /\ Emits(b, evs).out = st.out \o evs /\ Emits(b, evs).eot = st.eot
        /\ Emits(b, evs).deferWait = st.deferWait /\ Emits(b, evs).deferItem = st.deferItem
    BY <1>0 DEF SessionOK, Emits
  <2> HIDE DEF u, b
  <2>5. /\ u.items = i /\ u.turn = t /\ u.active.ref = 0 /\ u.active.item = 0 /\ u.nextRef = st.nextRef
        /\ u.speechItem = st.speechItem /\ u.pendingItem = st.pendingItem /\ u.nextResp = st.nextResp
        /\ u.out = st.out \o evs /\ u.eot = st.eot /\ u.deferWait = st.deferWait /\ u.deferItem = st.deferItem
    BY <2>1, <2>3, <2>4
  <2>6. Turned(st, u)
    BY <2>2, <2>5 DEF Turned, Deferred
  <2>7. SameRefs(st, u)
    BY <1>0, <2>5 DEF SameRefs, Sized
  <2>8. st.active.ref \in Nat /\ st.active.item \in Nat /\ 0 \in Nat
    BY <1>0 DEF Sized
  <2>9. /\ "response.done" \in EventTypes /\ "content.done" \in EventTypes
        /\ "output_item.done" \in EventTypes
    BY DEF EventTypes
  <2>10. c \in Events /\ d \in Events /\ e \in Events
    BY <2>8, <2>9, EvOK, EvPlain
  <2>11. /\ c.type = "content.done" /\ d.type = "output_item.done" /\ d.item = st.active.item
         /\ e.type = "response.done" /\ e.resp = st.active.ref /\ e.info = status
    BY DEF Ev
  <2>12. evs = (IF ~HasOutputItem(st) THEN <<>> ELSE <<c, d>>) \o <<e>>
    BY DEF evs, TerminalEvents
  <2> HIDE DEF c, d, e
  <2>13. Quiet(c)
    BY <2>10, <2>11 DEF Quiet, QuietTypes
  <2>14. CASE st.active.item = 0
    <3>1. ~HasOutputItem(st)
      BY <1>0, <2>14 DEF HasOutputItem, Sized
    <3>2. evs = <<e>>
      BY <2>10, <2>12, <3>1
    <3>3. SameItems(st, u)
      BY <2>5, <3>1 DEF i, SameItems
    <3>4. Carry(st, u)
      BY <1>0, <1>2, <2>5, <2>7, <2>10, <2>11, <2>14, <3>2, <3>3, DoneCarry
    <3> QED BY <2>6, <3>4 DEF u
  <2>15. CASE st.active.item # 0
    <3>1. HasOutputItem(st) /\ st.active.item \in DOMAIN st.items
      BY <1>0, <2>15 DEF HasOutputItem, Linked
    <3>2. evs = <<c, d, e>>
      BY <2>10, <2>12, <3>1, TripleIsConcat
    <3>3. x # "in_progress"
      OBVIOUS
    <3>4. i = [st.items EXCEPT ![st.active.item].status = x]
      BY <3>1 DEF i
    <3> HIDE DEF x
    <3>5. st.items \in [DOMAIN st.items -> Items]
      BY <1>0 DEF SessionOK
    <3>6. /\ DOMAIN i = DOMAIN st.items /\ i[st.active.item].status = x
          /\ \A j \in DOMAIN st.items : i[j].kind = st.items[j].kind
          /\ \A j \in DOMAIN st.items : j # st.active.item => i[j].status = st.items[j].status
      BY <3>1, <3>4, <3>5 DEF Items
    <3>7. Carry(st, u)
      BY <1>0, <1>2, <2>5, <2>7, <2>10, <2>11, <2>13, <2>15, <3>2, <3>3, <3>6, FinishedCarry
    <3> QED BY <2>6, <3>7 DEF u
  <2> QED BY <2>14, <2>15
<1> QED BY <1>1, <1>2


\* finish, as a move.
LEMMA FinishMoves ==
  ASSUME NEW st, Fit(st), NEW status \in FinalStatuses
  PROVE  Moves(st, Finish(st, status)) /\ Turned(st, Finish(st, status))
BY FinishCarry, FinishAnyGood DEF Fit, Good, GoodStep, Moves

\* failResponse: the error event, then finish.
LEMMA FailResponseCarry ==
  ASSUME NEW st, SessionOK(st), Linked(st)
  PROVE  Carry(st, FailResponse(st)) /\ Turned(st, FailResponse(st))
<1> DEFINE b == Emits(st, <<Error>>)
           u == Finish(b, "failed")
<1>1. Carry(st, b) /\ Turned(st, b) /\ SessionOK(b)
  BY QuietCarry, ErrorQuiet, ErrorSeqs, EmitsTurned, EmitsOK
<1>2. Linked(b)
  BY <1>1 DEF Carry
<1> HIDE DEF b
<1>3. Carry(b, u) /\ Turned(b, u)
  BY <1>1, <1>2, FinishCarry DEF FinalStatuses
<1>4. st.out \in Seq(Events)
  BY DEF SessionOK
<1> HIDE DEF u
<1>5. Carry(st, u) /\ Turned(st, u)
  BY <1>1, <1>3, <1>4, CarryTrans, TurnedTrans
<1> QED BY <1>5 DEF FailResponse, u, b

\* maybeComplete: finish once both stages have ended.
LEMMA MaybeCompleteMoves ==
  ASSUME NEW st, Fit(st)
  PROVE  Moves(st, MaybeComplete(st)) /\ Turned(st, MaybeComplete(st))
<1>1. "incomplete" \in FinalStatuses /\ "completed" \in FinalStatuses
  BY DEF FinalStatuses
<1>2. Moves(st, st) /\ Turned(st, st)
  <2>1. Sized(st) /\ Kept(st, st) /\ Linked(st) /\ Good(st)
    BY GoodSized DEF Kept, SameItems, SameRefs, Sized, Fit
  <2> QED BY <2>1, KeptSilent DEF Moves, Turned
<1> QED BY <1>1, <1>2, FinishMoves DEF MaybeComplete

\* dropDeferredTrigger and deferTrigger.
LEMMA DeferMoves ==
  ASSUME NEW st, Fit(st)
  PROVE  /\ Moves(st, DropDeferredTrigger(st)) /\ Turned(st, DropDeferredTrigger(st))
         /\ Moves(st, DeferTrigger(st)) /\ Turned(st, DeferTrigger(st))
<1>1. Good(DropDeferredTrigger(st)) /\ Good(DeferTrigger(st))
  BY DropDeferredTriggerGood, DeferTriggerGood DEF Fit, GoodStep
<1>2. SessionOK(st)
  BY DEF Fit, Good
<1> QED BY <1>1, <1>2, TimersSilent, SilentMoves

\* resolveDeferredTrigger.
LEMMA ResolveMoves ==
  ASSUME NEW st, Fit(st), NEW ref, NEW text
  PROVE  LET u == ResolveDeferredTrigger(st, ref, text) IN Moves(st, u) /\ Turned(st, u)
<1> DEFINE b == DropDeferredTrigger(st)
<1>1. Moves(st, b) /\ Turned(st, b) /\ b.active = st.active
  BY DeferMoves, DropDeferredTriggerGood DEF Fit
<1>2. Moves(st, st) /\ Turned(st, st)
  <2>1. Sized(st) /\ Kept(st, st) /\ Linked(st) /\ Good(st)
    BY GoodSized DEF Kept, SameItems, SameRefs, Sized, Fit
  <2> QED BY <2>1, KeptSilent DEF Moves, Turned
<1> HIDE DEF b
<1>3. ASSUME st.active.ref = 0 PROVE Moves(st, AutoCreate(b)) /\ Turned(st, AutoCreate(b))
  <2>1. Fit(b) /\ b.active.ref = 0
    BY <1>1, <1>3, MovesFit
  <2>2. Moves(b, AutoCreate(b)) /\ Turned(b, AutoCreate(b))
    BY <2>1, AutoCreateMoves
  <2> QED BY <1>1, <2>2, MovesTrans, TurnedTrans
<1> QED BY <1>1, <1>2, <1>3 DEF ResolveDeferredTrigger, b

\* commit.
LEMMA CommitItemMoves ==
  ASSUME NEW st, Fit(st)
  PROVE  LET u == CommitItem(st)
         IN  /\ Moves(st, u) /\ u.turn = st.turn /\ u.eot = st.eot
             /\ u.deferWait = st.deferWait /\ u.deferItem = st.deferItem /\ u.active = st.active
<1> DEFINE ref == CommitRef(st)
           it  == Item("user_audio", "in_progress", st.acc, 0)
           n   == IF st.speechItem # 0 THEN st.nextRef ELSE st.nextRef + 1
           i   == Put(st.items, ref, it)
           b   == [st EXCEPT !.buf = 0, !.seg = FALSE, !.speechItem = 0, !.det = FALSE,
                             !.nextRef = n, !.items = i, !.pendingItem = ref]
           c   == Ev("committed", 0, ref, "")
           e   == Ev("item.added", 0, ref, "")
           evs == <<c, e>>
           u   == CommitItem(st)
<1>0. SessionOK(st) /\ Sized(st) /\ Linked(st) /\ Good(u)
  BY GoodSized, CommitItemGood DEF Fit, Good, GoodStep
<1>1. /\ n \in Nat /\ ref \in Nat /\ ref # 0 /\ st.nextRef <= n /\ ref <= n
      /\ ref = st.speechItem \/ st.nextRef < ref
  BY <1>0 DEF Sized, CommitRef
<1>2. it.kind = "user_audio" /\ it.status = "in_progress"
  BY DEF Item
<1>3. u = Emits(b, evs)
  BY <1>0 DEF CommitItem, ReleaseSpeechItem, ClearBuffer, SessionOK
<1>4. c \in Events /\ e \in Events
  <2>1. "committed" \in EventTypes /\ "item.added" \in EventTypes BY DEF EventTypes
  <2> HIDE DEF ref
  <2> QED BY <1>1, <2>1, EvPlain
<1>5. c.type = "committed" /\ e.type = "item.added" /\ e.item = ref
  BY DEF Ev
<1> HIDE DEF c, e, ref, it, n
<1>6. /\ DOMAIN i = DOMAIN st.items \cup {ref} /\ i[ref] = it
      /\ \A j \in DOMAIN st.items : j # ref => i[j] = st.items[j]
  BY DEF Put
<1> HIDE DEF i
<1>7. /\ Emits(b, evs).items = i /\ Emits(b, evs).nextRef = n /\ Emits(b, evs).speechItem = 0
      /\ Emits(b, evs).pendingItem = ref /\ Emits(b, evs).nextResp = st.nextResp
      /\ Emits(b, evs).active = st.active /\ Emits(b, evs).out = st.out \o evs
      /\ Emits(b, evs).turn = st.turn /\ Emits(b, evs).eot = st.eot
      /\ Emits(b, evs).deferWait = st.deferWait /\ Emits(b, evs).deferItem = st.deferItem
  <2> HIDE DEF evs
  <2> QED BY <1>0 DEF SessionOK, Emits
<1> HIDE DEF b, u
<1>8. /\ u.items = i /\ u.nextRef = n /\ u.speechItem = 0 /\ u.pendingItem = ref
      /\ u.nextResp = st.nextResp /\ u.active = st.active /\ u.out = st.out \o <<c, e>>
  BY <1>3, <1>7
<1>9. Quiet(c)
  BY <1>4, <1>5 DEF Quiet, QuietTypes
<1>10. Carry(st, u)
  <2>1. /\ DOMAIN u.items = DOMAIN st.items \cup {ref}
        /\ u.items[ref].kind = "user_audio" /\ u.items[ref].status = "in_progress"
        /\ \A j \in DOMAIN st.items : j # ref => u.items[j] = st.items[j]
    BY <1>2, <1>6, <1>8
  <2>2. /\ u.nextRef \in Nat /\ st.nextRef <= u.nextRef /\ ref <= u.nextRef /\ ref \in Nat /\ ref # 0
        /\ ref = st.speechItem \/ st.nextRef < ref
    BY <1>1, <1>8
  <2>3. /\ u.active.ref = st.active.ref /\ u.active.item = st.active.item /\ u.speechItem = 0
        /\ u.pendingItem = ref /\ u.nextResp = st.nextResp /\ u.out = st.out \o <<c, e>>
    BY <1>8
  <2>4. Sized(st) /\ Linked(st) /\ c \in Events /\ e \in Events /\ e.type = "item.added" /\ e.item = ref
    BY <1>0, <1>4, <1>5
  <2> QED BY <1>9, <2>1, <2>2, <2>3, <2>4, CommittedCarry
<1> QED BY <1>0, <1>3, <1>7, <1>10 DEF Moves, u


(* The decision d suits the turn: a turn that goes on has its ref and is not committed, *)
(* and one that waits for its end has a timer or is given one.                          *)
Ready(st, d) == st.turn.speaking \/ st.turn.pendingEOT => st.speechItem # 0 /\ "Commit" \notin d
Due(st, d) ==
  /\ st.turn.pendingEOT => /\ st.turn.mode = "semantic_vad"
                           /\ st.eot \/ d \cap {"ArmEndOfTurnTimer", "ArmFinalWaitTimer"} # {}
  /\ Deferred(st)
(* What the turn is worth in x after a decision d taken in st. *)
Worth(st, d, x) == (Ready(st, d) => Spoken(x)) /\ (Due(st, d) => Timed(x))

\* A later part that leaves the turn alone keeps what the decision made of it.
LEMMA WorthTurned ==
  ASSUME NEW st, NEW d, NEW x, NEW y, Worth(st, d, x), Turned(x, y) PROVE Worth(st, d, y)
BY TurnedWaits DEF Worth

\* apply: timers, commit, trigger.
LEMMA ApplyMoves ==
  ASSUME NEW st, Fit(st), NEW d, NEW asrOk \in BOOLEAN
  PROVE  LET u == Apply(st, d, asrOk) IN Moves(st, u) /\ Worth(st, d, u)
<1> DEFINE a == ArmTimers(st, d)
           i == CommitItem(a)
           c == IF "Commit" \notin d THEN a
                ELSE IF a.buf = 0 THEN Emits(a, <<Error>>)
                ELSE IF ~asrOk THEN Fatal(i)
                ELSE IF "DeferTrigger" \in d THEN DeferTrigger(i)
                ELSE i
           u == Apply(st, d, asrOk)
<1>1. u = IF "Trigger" \in d /\ c.active.ref = 0 THEN AutoCreate(c) ELSE c
  BY DEF Apply
<1>2. SessionOK(st) /\ st.nextRef \in Nat
  BY DEF Fit, Good, SessionOK
<1>3. /\ Silent(st, a) /\ a.turn = st.turn /\ a.speechItem = st.speechItem
      /\ a.deferWait = st.deferWait /\ a.deferItem = st.deferItem
      /\ a.eot = (st.eot \/ d \cap {"ArmEndOfTurnTimer", "ArmFinalWaitTimer"} # {})
  <2>1. CASE d \cap {"ArmEndOfTurnTimer", "ArmFinalWaitTimer"} # {}
    <3>1. a = [st EXCEPT !.eot = TRUE]
      BY <2>1 DEF ArmTimers
    <3>2. Silent(st, [st EXCEPT !.eot = TRUE])
      BY <1>2 DEF SessionOK, Silent, Kept, SameItems, SameRefs
    <3>3. /\ a.turn = st.turn /\ a.speechItem = st.speechItem /\ a.deferWait = st.deferWait
          /\ a.deferItem = st.deferItem /\ a.eot = TRUE
      BY <1>2, <3>1 DEF SessionOK
    <3> QED BY <2>1, <3>1, <3>2, <3>3
  <2>2. CASE ~(d \cap {"ArmEndOfTurnTimer", "ArmFinalWaitTimer"} # {})
    <3>1. a = st
      BY <2>2 DEF ArmTimers
    <3>2. st.eot \in BOOLEAN
      BY <1>2 DEF SessionOK
    <3>3. Silent(st, st)
      BY <1>2 DEF Silent, Kept, SameItems, SameRefs
    <3> QED BY <2>2, <3>1, <3>2, <3>3
  <2> QED BY <2>1, <2>2
<1>4. Good(a)
  BY ArmTimersGood DEF Fit, GoodStep
<1> HIDE DEF a
<1>5. Moves(st, a) /\ Fit(a)
  BY <1>3, <1>4, SilentMoves, MovesFit
<1>6. Worth(st, d, a)
  BY <1>3 DEF Worth, Ready, Due, Spoken, Timed, Deferred
<1>7. /\ Moves(a, i) /\ i.turn = a.turn /\ i.eot = a.eot
      /\ i.deferWait = a.deferWait /\ i.deferItem = a.deferItem
  BY <1>5, CommitItemMoves
<1> HIDE DEF i
<1>8. Moves(st, i) /\ Fit(i)
  BY <1>5, <1>7, MovesTrans, MovesFit
<1>9. "Commit" \in d => Worth(st, d, i)
  BY <1>3, <1>6, <1>7 DEF Worth, Ready, Due, Spoken, Timed, Deferred
<1>10. Moves(st, c) /\ Worth(st, d, c)
  <2>1. CASE "Commit" \notin d
    BY <1>5, <1>6, <2>1
  <2>2. CASE "Commit" \in d /\ a.buf = 0
    <3>1. Moves(a, Emits(a, <<Error>>)) /\ Turned(a, Emits(a, <<Error>>))
      BY <1>5, ErrorMoves
    <3> QED BY <1>5, <1>6, <2>2, <3>1, MovesTrans, WorthTurned
  <2>3. CASE "Commit" \in d /\ a.buf # 0 /\ ~asrOk
    <3>1. Moves(i, Fatal(i)) /\ Turned(i, Fatal(i))
      BY <1>8, FatalMoves
    <3> QED BY <1>8, <1>9, <2>3, <3>1, MovesTrans, WorthTurned
  <2>4. CASE "Commit" \in d /\ a.buf # 0 /\ asrOk /\ "DeferTrigger" \in d
    <3>1. Moves(i, DeferTrigger(i)) /\ Turned(i, DeferTrigger(i))
      BY <1>8, DeferMoves
    <3> QED BY <1>8, <1>9, <2>4, <3>1, MovesTrans, WorthTurned
  <2>5. CASE "Commit" \in d /\ a.buf # 0 /\ asrOk /\ "DeferTrigger" \notin d
    BY <1>8, <1>9, <2>5
  <2> QED BY <2>1, <2>2, <2>3, <2>4, <2>5
<1> HIDE DEF c, u
<1>11. CASE "Trigger" \in d /\ c.active.ref = 0
  <2>1. Fit(c)
    BY <1>10, MovesFit
  <2>2. Moves(c, AutoCreate(c)) /\ Turned(c, AutoCreate(c))
    BY <1>11, <2>1, AutoCreateMoves
  <2>3. Moves(st, u) /\ Worth(st, d, u)
    BY <1>1, <1>10, <1>11, <2>2, MovesTrans, WorthTurned
  <2> QED BY <2>3 DEF u
<1>12. CASE ~("Trigger" \in d /\ c.active.ref = 0)
  BY <1>1, <1>10, <1>12 DEF u
<1> QED BY <1>11, <1>12

(* The turn manager's step suits the actor's state. *)
Suits(st, res) ==
  /\ res.turn.pendingEOT => /\ res.turn.mode = "semantic_vad"
                            /\ st.eot \/ res.d \cap {"ArmEndOfTurnTimer", "ArmFinalWaitTimer"} # {}
  /\ res.turn.speaking \/ res.turn.pendingEOT => st.speechItem # 0 /\ "Commit" \notin res.d

\* The turn manager's decision, executed.
LEMMA DecideMoves ==
  ASSUME NEW st, Fit(st), NEW res, Keeps(st.turn, res), NEW asrOk \in BOOLEAN
  PROVE  LET u == Decide(st, res, asrOk)
         IN  Moves(st, u) /\ (Deferred(st) /\ Suits(st, res) => Spoken(u) /\ Timed(u))
<1> DEFINE t == res.turn
           b == [st EXCEPT !.turn = t]
           u == Decide(st, res, asrOk)
<1>1. t \in Turn /\ t.responseActive = st.turn.responseActive
  BY DEF Keeps
<1>2. Decide(st, res, asrOk) = Apply(b, res.d, asrOk)
  BY DEF Decide
<1>3. SessionOK(st) /\ st.nextRef \in Nat /\ Good(st)
  BY DEF Fit, Good, SessionOK
<1> HIDE DEF t
<1>4. /\ SessionOK(b) /\ Same(st, b) /\ Silent(st, b) /\ b.turn = t /\ b.eot = st.eot
      /\ b.speechItem = st.speechItem /\ b.deferWait = st.deferWait /\ b.deferItem = st.deferItem
  <2>1. SessionOK(b)
    BY <1>1, <1>3 DEF SessionOK
  <2>2. Same(st, b)
    BY <1>1, <1>3 DEF SessionOK, Same
  <2>3. Silent(st, b)
    BY <1>3 DEF SessionOK, Silent, Kept, SameItems, SameRefs
  <2>4. /\ b.turn = t /\ b.eot = st.eot /\ b.speechItem = st.speechItem
        /\ b.deferWait = st.deferWait /\ b.deferItem = st.deferItem
    BY <1>3 DEF SessionOK
  <2> QED BY <2>1, <2>2, <2>3, <2>4
<1> HIDE DEF b
<1>5. Good(b)
  BY <1>3, <1>4, SameGood DEF GoodStep
<1>6. Moves(st, b) /\ Fit(b)
  BY <1>4, <1>5, SilentMoves, MovesFit
<1>7. Moves(b, u) /\ Worth(b, res.d, u)
  BY <1>2, <1>6, ApplyMoves
<1> HIDE DEF u
<1>8. Moves(st, u)
  BY <1>6, <1>7, MovesTrans
<1>9. ASSUME Deferred(st), Suits(st, res) PROVE Spoken(u) /\ Timed(u)
  <2>1. Ready(b, res.d) /\ Due(b, res.d)
    BY <1>4, <1>9 DEF Ready, Due, Deferred, Suits, t
  <2> QED BY <1>7, <2>1 DEF Worth
<1> QED BY <1>8, <1>9 DEF u


\* A turn that is over waits for nothing.
LEMMA EndTurnOver ==
  ASSUME NEW t \in Turn, NEW d
  PROVE  LET r == EndTurn(t, d) IN ~r.turn.speaking /\ ~r.turn.pendingEOT
BY DEF EndTurn, ResetTurn, Result, Turn

\* What the steps of the turn manager decide suits the actor's state.
LEMMA EndOfTurnSuits ==
  ASSUME NEW st, st.turn \in Turn, Spoken(st), st.turn.pendingEOT => st.turn.mode = "semantic_vad"
  PROVE  Suits(st, StepEndOfTurn(st.turn))
<1> DEFINE t == st.turn
           r == StepEndOfTurn(t)
<1>1. CASE t.mode = "semantic_vad" /\ t.pendingEOT
  <2>1. r = EndTurn(t, {})
    BY <1>1 DEF StepEndOfTurn
  <2>2. ~r.turn.speaking /\ ~r.turn.pendingEOT
    BY <2>1, EndTurnOver
  <2> QED BY <2>2 DEF Suits
<1>2. CASE ~(t.mode = "semantic_vad" /\ t.pendingEOT)
  <2>1. r.turn = t /\ r.d = {}
    BY <1>2 DEF StepEndOfTurn, Result
  <2>2. ~t.pendingEOT
    BY <1>2
  <2> QED BY <2>1, <2>2 DEF Suits, Spoken
<1> QED BY <1>1, <1>2

\* The decision of a client commit resets the turn.
LEMMA ClientCommitSuits ==
  ASSUME NEW st, st.turn \in Turn PROVE Suits(st, StepClientCommit(st.turn))
BY DEF Suits, StepClientCommit, ResetTurn, Result, Turn

\* The semantic judgement ends the turn or arms its timer.
LEMMA JudgeSuits ==
  ASSUME NEW st, NEW t \in Turn, t.mode = "semantic_vad", st.speechItem # 0,
         NEW terminal \in BOOLEAN, NEW d, "Commit" \notin d
  PROVE  Suits(st, Judge(t, terminal, d))
<1>1. CASE terminal
  <2>1. Judge(t, terminal, d) = EndTurn(t, d)
    BY <1>1 DEF Judge
  <2> QED BY <2>1, EndTurnOver DEF Suits
<1>2. CASE ~terminal
  <2>1. Judge(t, terminal, d).turn = t /\ Judge(t, terminal, d).d = d \cup {"ArmEndOfTurnTimer"}
    BY <1>2 DEF Judge, Result
  <2>2. "ArmEndOfTurnTimer" \in (d \cup {"ArmEndOfTurnTimer"}) \cap {"ArmEndOfTurnTimer", "ArmFinalWaitTimer"}
    OBVIOUS
  <2>3. "Commit" \notin d \cup {"ArmEndOfTurnTimer"}
    OBVIOUS
  <2> QED BY <2>1, <2>2, <2>3 DEF Suits
<1> QED BY <1>1, <1>2

\* A Final ends a turn that waits for it, or is only noted.
LEMMA FinalSuits ==
  ASSUME NEW st, st.turn \in Turn, Spoken(st), Timed(st), NEW terminal \in BOOLEAN
  PROVE  Suits(st, StepFinal(st.turn, terminal))
<1> DEFINE t == st.turn
           r == StepFinal(t, terminal)
<1>1. CASE t.mode = "semantic_vad" /\ t.pendingEOT
  <2>1. r = Judge(t, terminal, {})
    BY <1>1 DEF StepFinal
  <2>2. st.speechItem # 0
    BY <1>1 DEF Spoken
  <2> QED BY <1>1, <2>1, <2>2, JudgeSuits
<1>2. CASE ~(t.mode = "semantic_vad" /\ t.pendingEOT)
  <2>1. ~t.pendingEOT
    BY <1>2 DEF Timed
  <2>2. r.d = {} /\ r.turn.speaking = t.speaking /\ r.turn.pendingEOT = t.pendingEOT
    BY <1>2 DEF StepFinal, Result, Turn
  <2> QED BY <2>1, <2>2 DEF Suits, Spoken
<1> QED BY <1>1, <1>2

\* The end of speech ends the turn, arms its timer or commits it at once.
LEMMA SpeechEndSuits ==
  ASSUME NEW st, st.turn \in Turn, Spoken(st), Timed(st)
  PROVE  Suits(st, StepSpeechEnd(st.turn))
<1> DEFINE t == st.turn
           r == StepSpeechEnd(t)
           stopped == [t EXCEPT !.speaking = FALSE]
           waiting == [stopped EXCEPT !.pendingEOT = TRUE]
           over == [waiting EXCEPT !.finalPending = FALSE]
<1>1. CASE t.mode = "manual" \/ ~t.speaking
  <2>1. r.turn = t /\ r.d = {}
    BY <1>1 DEF StepSpeechEnd, Result
  <2> QED BY <2>1 DEF Suits, Spoken, Timed
<1>2. CASE t.mode = "server_vad" /\ t.speaking
  <2>1. r = EndTurn(stopped, {"EmitSpeechStopped"})
    BY <1>2 DEF StepSpeechEnd
  <2>2. stopped \in Turn
    BY DEF Turn
  <2> QED BY <2>1, <2>2, EndTurnOver DEF Suits
<1>3. CASE t.mode = "semantic_vad" /\ t.speaking
  <2>1. st.speechItem # 0
    BY <1>3 DEF Spoken
  <2>2. waiting \in Turn /\ waiting.mode = "semantic_vad" /\ over \in Turn /\ over.mode = "semantic_vad"
    BY <1>3 DEF Turn
  <2>3. r = IF t.finalPending THEN Judge(over, t.finalTerminal, {"EmitSpeechStopped"})
            ELSE Result(waiting, {"EmitSpeechStopped", "ArmFinalWaitTimer"})
    BY <1>3 DEF StepSpeechEnd
  <2>4. t.finalTerminal \in BOOLEAN
    BY DEF Turn
  <2> HIDE DEF over
  <2>5. CASE t.finalPending
    BY <2>1, <2>2, <2>3, <2>4, <2>5, JudgeSuits
  <2>6. CASE ~t.finalPending
    <3>1. r.turn = waiting /\ r.d = {"EmitSpeechStopped", "ArmFinalWaitTimer"}
      BY <2>3, <2>6 DEF Result
    <3>2. "ArmFinalWaitTimer" \in r.d \cap {"ArmEndOfTurnTimer", "ArmFinalWaitTimer"} /\ "Commit" \notin r.d
      BY <3>1
    <3> QED BY <2>1, <2>2, <3>1, <3>2 DEF Suits
  <2> QED BY <2>5, <2>6
<1> QED BY <1>1, <1>2, <1>3 DEF Turn, Modes


(* What a running actor keeps about its turn. *)
Waits(st) == Spoken(st) /\ Timed(st)

\* Leaving the turn alone keeps what a running actor keeps.
LEMMA TurnedKeepsWaits ==
  ASSUME NEW st, NEW u, Turned(st, u), Waits(st) PROVE Waits(u)
BY TurnedWaits DEF Waits

\* Doing nothing.
LEMMA SelfMoves ==
  ASSUME NEW st, Fit(st) PROVE Moves(st, st) /\ Turned(st, st)
<1>1. Sized(st) /\ Kept(st, st) /\ Linked(st) /\ Good(st)
  BY GoodSized DEF Kept, SameItems, SameRefs, Sized, Fit
<1> QED BY <1>1, KeptSilent DEF Moves, Turned

\* completePendingItem.
LEMMA CompletePendingItemMoves ==
  ASSUME NEW st, Fit(st), st.pendingItem # 0, NEW text \in Texts
  PROVE  LET u == CompletePendingItem(st, text) IN Moves(st, u) /\ Turned(st, u)
<1> DEFINE ref == st.pendingItem
           b == [st EXCEPT !.pendingItem = 0, !.acc = "",
                           !.items[ref].text = text, !.items[ref].status = "completed"]
           e == Ev("item.done", 0, ref, "")
           evs == <<e>>
           c == Emits(b, evs)
           released == IF c.active.ref # 0 /\ c.active.awaiting /\ c.active.dependsOn = ref
                       THEN StartPipeline(StopASRWait(c)) ELSE c
           u == CompletePendingItem(st, text)
<1>0. SessionOK(st) /\ Good(st) /\ Linked(st) /\ Sized(st)
  BY GoodSized DEF Fit, Good
<1>1. SessionOK(b) /\ Same(st, b)
  BY <1>0, PutItemDone
<1>2. ref \in Nat /\ ref \in DOMAIN st.items /\ st.items[ref].kind = "user_audio"
  BY <1>0 DEF Sized, Linked, PendingIsOpen
<1>3. u = ResolveDeferredTrigger(released, ref, text)
  BY DEF CompletePendingItem
<1>4. e \in Events /\ e.type = "item.done" /\ e.item = ref
  <2>1. "item.done" \in EventTypes /\ 0 \in Nat
    BY DEF EventTypes
  <2>2. e.type = "item.done" /\ e.item = ref
    BY DEF Ev
  <2> HIDE DEF ref
  <2>3. e \in Events
    BY <1>2, <2>1, EvPlain, Zenon
  <2> QED BY <2>2, <2>3
<1>5. evs \in Seq(Events)
  <2> HIDE DEF e
  <2> QED BY <1>4, EvSeqs
<1>6. /\ DOMAIN b.items = DOMAIN st.items /\ b.items[ref].kind = "user_audio" /\ b.items[ref].status = "completed"
      /\ \A j \in DOMAIN st.items : j # ref => b.items[j] = st.items[j]
  <2> DEFINE i1 == [st.items EXCEPT ![ref].text = text]
             i2 == [i1 EXCEPT ![ref].status = "completed"]
  <2>1. st.items \in [DOMAIN st.items -> Items]
    BY <1>0 DEF SessionOK
  <2>2. b.items = i2
    BY <1>0 DEF SessionOK
  <2>3. i1 \in [DOMAIN st.items -> Items] /\ i1[ref].kind = "user_audio" /\ \A j \in DOMAIN st.items : j # ref => i1[j] = st.items[j]
    BY <1>2, <2>1 DEF Items
  <2> HIDE DEF i1
  <2>4. DOMAIN i2 = DOMAIN st.items /\ i2[ref].kind = "user_audio" /\ i2[ref].status = "completed"
           /\ \A j \in DOMAIN st.items : j # ref => i2[j] = i1[j]
    BY <1>2, <2>3 DEF Items
  <2> HIDE DEF b, i2
  <2> QED BY <2>2, <2>3, <2>4
<1>7. /\ b.nextRef = st.nextRef /\ b.speechItem = st.speechItem /\ b.pendingItem = 0
      /\ b.nextResp = st.nextResp /\ b.active = st.active /\ b.out = st.out /\ b.turn = st.turn
      /\ b.eot = st.eot /\ b.deferWait = st.deferWait /\ b.deferItem = st.deferItem
  BY <1>0 DEF SessionOK
<1> HIDE DEF b, ref, e
<1>8. /\ c.nextRef = b.nextRef /\ c.speechItem = b.speechItem /\ c.pendingItem = b.pendingItem
      /\ c.nextResp = b.nextResp /\ c.active = b.active /\ c.out = b.out \o evs /\ c.turn = b.turn
      /\ c.eot = b.eot /\ c.deferWait = b.deferWait /\ c.deferItem = b.deferItem /\ c.items = b.items
  <2> HIDE DEF evs
  <2> QED BY <1>1 DEF SessionOK, Emits
<1>9. Good(c)
  <2> HIDE DEF evs
  <2> QED BY <1>0, <1>1, <1>5, EmitsSame, SameGood DEF GoodStep
<1> HIDE DEF c
<1>10. Carry(st, c)
  <2>1. /\ DOMAIN c.items = DOMAIN st.items /\ c.items[ref].kind = "user_audio" /\ c.items[ref].status = "completed"
        /\ \A j \in DOMAIN st.items : j # ref => c.items[j] = st.items[j]
    BY <1>6, <1>8
  <2>2. /\ c.nextRef = st.nextRef /\ c.speechItem = st.speechItem /\ c.pendingItem = 0
        /\ c.nextResp = st.nextResp /\ c.active.ref = st.active.ref /\ c.active.item = st.active.item
        /\ c.out = st.out \o <<e>>
    BY <1>7, <1>8
  <2>3. ref # 0 /\ ref = st.pendingItem
    BY DEF ref
  <2> QED BY <1>0, <1>4, <2>1, <2>2, <2>3, CompletedCarry
<1>11. Turned(st, c)
  BY <1>7, <1>8 DEF Turned, Deferred
<1>12. Moves(st, c) /\ Fit(c)
  BY <1>9, <1>10, MovesFit DEF Moves
<1>13. ASSUME c.active.awaiting
       PROVE  Moves(c, StartPipeline(StopASRWait(c))) /\ Turned(c, StartPipeline(StopASRWait(c)))
  <2> DEFINE p == StopASRWait(c)
             r == StartPipeline(p)
  <2>1. SessionOK(c) /\ SessionOK(p) /\ Silent(c, p) /\ Turned(c, p)
    BY <1>9, TimersSilent, StopASRWaitOK DEF Good
  <2> HIDE DEF p
  <2>2. Silent(p, r) /\ Turned(p, r)
    BY <2>1, StartPipelineSilent
  <2>3. Good(r) /\ SessionOK(r)
    BY <1>9, <1>13, ReleaseGood, AwaitingCancelled DEF GoodStep, p, Good
  <2> HIDE DEF r
  <2>4. Silent(c, r) /\ Turned(c, r)
    BY <1>9, <2>1, <2>2, <2>3, SilentTrans, TurnedTrans
  <2>5. Moves(c, r) /\ Turned(c, r)
    BY <1>12, <2>3, <2>4, SilentMoves
  <2> QED BY <2>5 DEF r, p
<1>14. Moves(st, released) /\ Turned(st, released)
  BY <1>11, <1>12, <1>13, MovesTrans, TurnedTrans
<1> HIDE DEF released, u
<1>15. Fit(released)
  BY <1>14, MovesFit
<1>16. Moves(released, u) /\ Turned(released, u)
  BY <1>3, <1>15, ResolveMoves
<1>17. Moves(st, u) /\ Turned(st, u)
  BY <1>14, <1>16, MovesTrans, TurnedTrans
<1> QED BY <1>17 DEF u

-----------------------------------------------------------------------------
(* The handlers. *)
Serves(st, u) == Moves(st, u) /\ (Waits(st) => Waits(u))

\* Two parts of a handler are a handler.
LEMMA ServesTrans ==
  ASSUME NEW a, NEW b, NEW c, Fit(a), Serves(a, b), Serves(b, c) PROVE Serves(a, c)
BY MovesTrans DEF Serves

\* A handler leads to a record that the next can start from.
LEMMA ServesFit ==
  ASSUME NEW a, NEW b, Serves(a, b) PROVE Fit(b)
BY MovesFit DEF Serves

\* A move that leaves the turn alone.
LEMMA TurnedServes ==
  ASSUME NEW st, NEW u, Moves(st, u), Turned(st, u) PROVE Serves(st, u)
BY TurnedKeepsWaits DEF Serves

\* A handler that changes none of the fields the client or the turn is about.
LEMMA SilentServes ==
  ASSUME NEW st, NEW u, Fit(st), Good(u), Silent(st, u), Turned(st, u) PROVE Serves(st, u)
BY SilentMoves, TurnedServes

\* A decision of the turn manager taken in st itself.
LEMMA DecideServes ==
  ASSUME NEW st, Fit(st), NEW res, Keeps(st.turn, res), NEW asrOk \in BOOLEAN,
         Waits(st) => Suits(st, res)
  PROVE  Serves(st, Decide(st, res, asrOk))
<1>1. Moves(st, Decide(st, res, asrOk))
  BY DecideMoves
<1>2. ASSUME Waits(st) PROVE Waits(Decide(st, res, asrOk))
  <2>1. Deferred(st) /\ Suits(st, res)
    BY <1>2 DEF Waits, Timed
  <2> QED BY <2>1, DecideMoves DEF Waits
<1> QED BY <1>1, <1>2 DEF Serves

\* handleASR: a partial.
LEMMA OnPartialServes ==
  ASSUME NEW st, Fit(st), NEW text \in Texts PROVE Serves(st, OnPartial(st, text))
<1>1. SessionOK(st) /\ st.nextRef \in Nat /\ Good(st)
  BY DEF Fit, Good, SessionOK
<1>2. Silent(st, OnPartial(st, text)) /\ Turned(st, OnPartial(st, text))
  BY <1>1 DEF SessionOK, OnPartial, Silent, Kept, SameItems, SameRefs, Turned, Deferred
<1>3. Good(OnPartial(st, text))
  BY <1>1, OnPartialGood DEF GoodStep
<1> QED BY <1>2, <1>3, SilentServes

\* handleASR: a Final.
LEMMA OnFinalServes ==
  ASSUME NEW st, Fit(st), NEW text \in Texts, NEW terminal \in BOOLEAN, NEW asrOk \in BOOLEAN
  PROVE  Serves(st, OnFinal(st, text, terminal, asrOk))
<1> DEFINE h == [st EXCEPT !.partial = ""]
           j == JoinTranscript(st.acc, text)
           k == [h EXCEPT !.acc = j]
           taken == IF st.pendingItem # 0 THEN CompletePendingItem(h, j) ELSE k
<1>0. SessionOK(st) /\ st.nextRef \in Nat /\ Good(st)
  BY DEF Fit, Good, SessionOK
<1>1. j \in Texts /\ "" \in Texts
  BY <1>0, JoinOK DEF SessionOK, Texts
<1>2. OnFinal(st, text, terminal, asrOk) = Decide(taken, StepFinal(taken.turn, terminal), asrOk)
  BY DEF OnFinal
<1> HIDE DEF j
<1>3. SessionOK(h) /\ Same(st, h) /\ SessionOK(k) /\ Same(st, k)
  BY <1>0, <1>1 DEF SessionOK, Same
<1>4. Silent(st, h) /\ Turned(st, h) /\ h.pendingItem = st.pendingItem
  BY <1>0 DEF SessionOK, Silent, Kept, SameItems, SameRefs, Turned, Deferred
<1>5. Silent(st, k) /\ Turned(st, k)
  BY <1>0 DEF SessionOK, Silent, Kept, SameItems, SameRefs, Turned, Deferred
<1> HIDE DEF h, k
<1>6. Good(h) /\ Good(k)
  BY <1>0, <1>3, SameGood DEF GoodStep
<1>7. Serves(st, h) /\ Serves(st, k) /\ Fit(h)
  BY <1>4, <1>5, <1>6, SilentServes, ServesFit
<1>8. ASSUME st.pendingItem # 0 PROVE Serves(st, CompletePendingItem(h, j))
  <2>1. h.pendingItem # 0
    BY <1>4, <1>8
  <2>2. Moves(h, CompletePendingItem(h, j)) /\ Turned(h, CompletePendingItem(h, j))
    BY <1>1, <1>7, <2>1, CompletePendingItemMoves
  <2>3. Serves(h, CompletePendingItem(h, j))
    BY <2>2, TurnedServes
  <2> QED BY <1>7, <2>3, ServesTrans
<1>9. Serves(st, taken) /\ Fit(taken)
  BY <1>7, <1>8, ServesFit
<1> HIDE DEF taken
<1>10. taken.turn \in Turn
  BY <1>9 DEF Fit, Good, SessionOK
<1>11. Keeps(taken.turn, StepFinal(taken.turn, terminal))
  BY <1>10, StepKeeps
<1>12. Waits(taken) => Suits(taken, StepFinal(taken.turn, terminal))
  BY <1>10, FinalSuits DEF Waits
<1>13. Serves(taken, Decide(taken, StepFinal(taken.turn, terminal), asrOk))
  BY <1>9, <1>11, <1>12, DecideServes
<1> QED BY <1>2, <1>9, <1>13, ServesTrans

\* handleASR: the recognizer's end of turn.
LEMMA OnEndOfTurnServes ==
  ASSUME NEW st, Fit(st), NEW asrOk \in BOOLEAN PROVE Serves(st, OnEndOfTurn(st, asrOk))
<1> DEFINE taken == IF st.pendingItem # 0 THEN CompletePendingItem(st, st.acc) ELSE st
<1>1. st.acc \in Texts
  BY DEF Fit, Good, SessionOK
<1>2. OnEndOfTurn(st, asrOk) = Decide(taken, StepEndOfTurn(taken.turn), asrOk)
  BY DEF OnEndOfTurn
<1>3. Serves(st, taken) /\ Fit(taken)
  BY <1>1, CompletePendingItemMoves, SelfMoves, TurnedServes, ServesFit
<1> HIDE DEF taken
<1>4. taken.turn \in Turn
  BY <1>3 DEF Fit, Good, SessionOK
<1>5. Keeps(taken.turn, StepEndOfTurn(taken.turn))
  BY <1>4, StepKeeps
<1>6. Waits(taken) => Suits(taken, StepEndOfTurn(taken.turn))
  BY <1>4, EndOfTurnSuits DEF Waits, Timed
<1>7. Serves(taken, Decide(taken, StepEndOfTurn(taken.turn), asrOk))
  BY <1>3, <1>5, <1>6, DecideServes
<1> QED BY <1>2, <1>3, <1>7, ServesTrans

\* The end-of-turn timer.
LEMMA EotServes ==
  ASSUME NEW st, Fit(st), NEW asrOk \in BOOLEAN
  PROVE  Serves(st, Decide([st EXCEPT !.eot = FALSE], StepEndOfTurn(st.turn), asrOk))
<1> DEFINE b == [st EXCEPT !.eot = FALSE]
           u == Decide(b, StepEndOfTurn(st.turn), asrOk)
<1>0. SessionOK(st) /\ st.nextRef \in Nat /\ Good(st) /\ st.turn \in Turn
  BY DEF Fit, Good, SessionOK
<1>1. SessionOK(b) /\ Same(st, b)
  BY <1>0 DEF SessionOK, Same
<1>2. Silent(st, b)
  BY <1>0 DEF SessionOK, Silent, Kept, SameItems, SameRefs
<1>3. b.turn = st.turn /\ b.speechItem = st.speechItem /\ b.deferWait = st.deferWait /\ b.deferItem = st.deferItem
  BY <1>0 DEF SessionOK
<1> HIDE DEF b
<1>4. Good(b)
  BY <1>0, <1>1, SameGood DEF GoodStep
<1>5. Moves(st, b) /\ Fit(b)
  BY <1>2, <1>4, SilentMoves, MovesFit
<1>6. Keeps(b.turn, StepEndOfTurn(st.turn))
  BY <1>0, <1>3, StepKeeps
<1>7. Moves(b, u)
  BY <1>5, <1>6, DecideMoves
<1>8. ASSUME Waits(st) PROVE Waits(u)
  <2>1. Spoken(b) /\ (b.turn.pendingEOT => b.turn.mode = "semantic_vad") /\ Deferred(b)
    BY <1>3, <1>8 DEF Waits, Spoken, Timed, Deferred
  <2>2. Suits(b, StepEndOfTurn(b.turn))
    BY <1>0, <1>3, <2>1, EndOfTurnSuits
  <2>3. Suits(b, StepEndOfTurn(st.turn))
    BY <1>3, <2>2
  <2> QED BY <1>5, <1>6, <2>1, <2>3, DecideMoves DEF Waits
<1>9. Moves(st, u)
  BY <1>5, <1>7, MovesTrans
<1> HIDE DEF u
<1>10. Serves(st, u)
  BY <1>8, <1>9 DEF Serves
<1> QED BY <1>10 DEF u, b

\* Replacing the text of an item.
LEMMA TextSilent ==
  ASSUME NEW st, SessionOK(st), NEW ref, NEW text \in Texts
  PROVE  LET u == [st EXCEPT !.items[ref].text = text] IN Silent(st, u) /\ Turned(st, u)
<1> DEFINE i == [st.items EXCEPT ![ref].text = text]
           u == [st EXCEPT !.items[ref].text = text]
<1>1. st.items \in [DOMAIN st.items -> Items]
  BY DEF SessionOK
<1>2. /\ DOMAIN i = DOMAIN st.items
      /\ \A j \in DOMAIN st.items : i[j].kind = st.items[j].kind /\ i[j].status = st.items[j].status
  BY <1>1 DEF Items
<1>3. /\ u.items = i /\ u.nextRef = st.nextRef /\ u.speechItem = st.speechItem
      /\ u.nextResp = st.nextResp /\ u.active = st.active /\ u.pendingItem = st.pendingItem
      /\ u.out = st.out /\ u.turn = st.turn /\ u.eot = st.eot /\ u.deferWait = st.deferWait
      /\ u.deferItem = st.deferItem
  BY DEF SessionOK
<1>4. st.nextRef \in Nat
  BY DEF SessionOK
<1> HIDE DEF u, i
<1>5. Silent(st, u) /\ Turned(st, u)
  BY <1>2, <1>3, <1>4 DEF Silent, Kept, SameItems, SameRefs, Turned, Deferred
<1> QED BY <1>5 DEF u

\* handleTranscriptTimeout.
LEMMA OnTranscriptTimeoutServes ==
  ASSUME NEW st, Fit(st) PROVE Serves(st, OnTranscriptTimeout(st))
<1> DEFINE f == [st EXCEPT !.asrWait = FALSE]
           best == JoinTranscript(st.acc, st.partial)
           x == [f EXCEPT !.items[st.pendingItem].text = best]
           told == IF st.pendingItem = 0 THEN f ELSE x
           u == OnTranscriptTimeout(st)
<1>0. SessionOK(st) /\ Good(st) /\ Linked(st) /\ Sized(st) /\ st.out \in Seq(Events)
  BY GoodSized DEF Fit, Good, SessionOK
<1>1. best \in Texts
  BY <1>0, JoinOK DEF SessionOK
<1>2. Good(u)
  BY <1>0, OnTranscriptTimeoutGood DEF GoodStep
<1>3. SessionOK(f) /\ Silent(st, f) /\ Turned(st, f)
  <2>1. f = StopASRWait(st)
    BY DEF StopASRWait
  <2> QED BY <1>0, <2>1, TimersSilent, StopASRWaitOK
<1>4. u = IF st.active.ref = 0 \/ ~st.active.awaiting THEN f
          ELSE IF best = "" THEN FailResponse(f) ELSE StartPipeline(told)
  BY DEF OnTranscriptTimeout
<1> HIDE DEF f, best
<1>5. SessionOK(x) /\ Silent(f, x) /\ Turned(f, x)
  BY <1>1, <1>3, PutItemText, TextSilent
<1> HIDE DEF x
<1>6. SessionOK(told) /\ Silent(st, told) /\ Turned(st, told)
  BY <1>0, <1>3, <1>5, SilentTrans, TurnedTrans
<1> HIDE DEF told
<1>7. Silent(told, StartPipeline(told)) /\ Turned(told, StartPipeline(told))
  BY <1>6, StartPipelineSilent
<1>8. Carry(st, f)
  BY <1>0, <1>3, KeptSilent DEF Silent
<1>9. Carry(f, FailResponse(f)) /\ Turned(f, FailResponse(f))
  BY <1>3, <1>8, FailResponseCarry DEF Carry
<1>10. CASE u = f
  BY <1>2, <1>3, <1>10, SilentServes
<1>11. CASE u = FailResponse(f)
  <2>1. Carry(st, u) /\ Turned(st, u)
    BY <1>0, <1>3, <1>8, <1>9, <1>11, CarryTrans, TurnedTrans
  <2> QED BY <1>2, <2>1, TurnedServes DEF Moves
<1>12. CASE u = StartPipeline(told)
  <2>1. SessionOK(u)
    BY <1>2 DEF Good
  <2>2. Silent(st, u) /\ Turned(st, u)
    BY <1>0, <1>6, <1>7, <1>12, <2>1, SilentTrans, TurnedTrans
  <2> QED BY <1>2, <2>2, SilentServes
<1> QED BY <1>4, <1>10, <1>11, <1>12

\* handleDeferredTimeout.
LEMMA OnDeferredTimeoutServes ==
  ASSUME NEW st, Fit(st) PROVE Serves(st, OnDeferredTimeout(st))
<1> DEFINE ref == st.deferItem
           best == JoinTranscript(st.acc, st.partial)
           d == DropDeferredTrigger(st)
           x == [d EXCEPT !.items[ref].text = best]
           c == AutoCreate(x)
           p == StopASRWait(c)
           u == OnDeferredTimeout(st)
<1>0. SessionOK(st) /\ Good(st)
  BY DEF Fit, Good
<1>1. best \in Texts
  BY <1>0, JoinOK DEF SessionOK
<1>2. Moves(st, d) /\ Turned(st, d) /\ d.active = st.active
  BY <1>0, DeferMoves, DropDeferredTriggerGood
<1>3. u = IF ref = 0 \/ st.pendingItem # ref \/ Blank(best) \/ st.active.ref # 0 THEN d
          ELSE IF c.active.ref # 0 /\ c.active.awaiting THEN StartPipeline(p) ELSE c
  BY DEF OnDeferredTimeout
<1>4. Good(u)
  BY <1>0, OnDeferredTimeoutGood DEF GoodStep
<1> HIDE DEF d, best, ref
<1>5. Fit(d) /\ Good(d) /\ SessionOK(d)
  BY <1>2, MovesFit DEF Fit, Good
<1>6. SessionOK(x) /\ Same(d, x) /\ Silent(d, x) /\ Turned(d, x)
  BY <1>1, <1>5, PutItemText, TextSilent
<1> HIDE DEF x
<1>7. Good(x) /\ x.active.ref = st.active.ref
  BY <1>2, <1>5, <1>6, SameGood DEF GoodStep, Same
<1>8. Moves(st, x) /\ Turned(st, x) /\ Fit(x)
  BY <1>2, <1>5, <1>6, <1>7, SilentMoves, MovesTrans, TurnedTrans, MovesFit
<1>9. ASSUME st.active.ref = 0 PROVE Moves(st, c) /\ Turned(st, c)
  BY <1>7, <1>8, <1>9, AutoCreateMoves, MovesTrans, TurnedTrans
<1> HIDE DEF c
<1>10. ASSUME st.active.ref = 0, u = StartPipeline(p) PROVE Serves(st, u)
  <2>1. Fit(c) /\ Good(c) /\ SessionOK(c)
    BY <1>9, <1>10, MovesFit DEF Fit, Good
  <2>2. SessionOK(p) /\ Silent(c, p) /\ Turned(c, p)
    BY <2>1, TimersSilent, StopASRWaitOK
  <2> HIDE DEF p
  <2>3. Silent(p, u) /\ Turned(p, u)
    BY <1>10, <2>2, StartPipelineSilent
  <2>4. SessionOK(u)
    BY <1>4 DEF Good
  <2> HIDE DEF u
  <2>5. Silent(c, u) /\ Turned(c, u)
    BY <2>1, <2>2, <2>3, <2>4, SilentTrans, TurnedTrans
  <2>6. Moves(c, u)
    BY <1>4, <2>1, <2>5, SilentMoves
  <2> QED BY <1>9, <1>10, <2>5, <2>6, MovesTrans, TurnedTrans, TurnedServes
<1>11. ASSUME st.active.ref = 0, u = c PROVE Serves(st, u)
  BY <1>9, <1>11, TurnedServes
<1>12. ASSUME u = d PROVE Serves(st, u)
  BY <1>2, <1>12, TurnedServes
<1> QED BY <1>3, <1>10, <1>11, <1>12

(* Client commands. *)

\* A quiet event is emitted after a silent step.
LEMMA QuietMoves ==
  ASSUME NEW st, Fit(st), NEW b, SessionOK(b), Silent(st, b), NEW e, Quiet(e),
         Good(Emits(b, <<e>>))
  PROVE  Moves(st, Emits(b, <<e>>))
<1>1. Sized(st) /\ Linked(st) /\ st.out \in Seq(Events)
  BY GoodSized DEF Fit, Good, SessionOK
<1>2. Carry(st, b)
  BY <1>1, KeptSilent DEF Silent
<1>3. Carry(b, Emits(b, <<e>>))
  BY <1>2, QuietCarry DEF Carry
<1> QED BY <1>1, <1>2, <1>3, CarryTrans DEF Moves

\* An event of a quiet type is quiet.
LEMMA EvQuiet ==
  ASSUME NEW type \in QuietTypes, NEW resp \in Nat, NEW item \in Nat
  PROVE  Quiet(Ev(type, resp, item, "")) /\ <<Ev(type, resp, item, "")>> \in Seq(Events)
<1> DEFINE e == Ev(type, resp, item, "")
<1>1. type \in EventTypes
  BY DEF QuietTypes, EventTypes
<1>2. e \in Events
  BY <1>1, EvPlain
<1>3. e.type = type
  BY DEF Ev
<1> HIDE DEF e
<1>4. Quiet(e) /\ <<e>> \in Seq(Events)
  BY <1>2, <1>3, EvSeqs DEF Quiet
<1> QED BY <1>4 DEF e

\* Outside a turn nothing is waited for but the deferred trigger.
LEMMA CalmWaits ==
  ASSUME NEW st, NEW u, ~u.turn.speaking, ~u.turn.pendingEOT,
         u.deferWait = st.deferWait, u.deferItem = st.deferItem, Waits(st)
  PROVE  Waits(u)
BY DEF Waits, Spoken, Timed, Deferred

\* applyTurnDetection gives the turn in progress up.
LEMMA ApplyTurnDetectionSilent ==
  ASSUME NEW st, Good(st), NEW td \in TurnDetection
  PROVE  LET u == ApplyTurnDetection(st, td)
         IN  /\ Silent(st, u) /\ ~u.turn.speaking /\ ~u.turn.pendingEOT
             /\ u.deferWait = st.deferWait /\ u.deferItem = st.deferItem
<1> DEFINE t == [NewTurnManager(td) EXCEPT !.responseActive = st.turn.responseActive]
           u == ApplyTurnDetection(st, td)
<1>1. ~t.speaking /\ ~t.pendingEOT
  BY DEF NewTurnManager
<1>2. SessionOK(st) /\ st.nextRef \in Nat
  BY DEF Good, SessionOK
<1> HIDE DEF t
<1>3. /\ u.turn = t /\ u.items = st.items /\ u.nextRef = st.nextRef /\ u.speechItem = 0
      /\ u.nextResp = st.nextResp /\ u.active = st.active /\ u.pendingItem = st.pendingItem
      /\ u.out = st.out /\ u.deferWait = st.deferWait /\ u.deferItem = st.deferItem
  BY <1>2 DEF SessionOK, ApplyTurnDetection, DisarmEndOfTurn, t
<1>4. 0 \notin 1..st.nextRef
  OBVIOUS
<1> HIDE DEF u
<1>5. Silent(st, u)
  BY <1>2, <1>3, <1>4 DEF Silent, Kept, SameItems, SameRefs
<1>6. Silent(st, u) /\ ~u.turn.speaking /\ ~u.turn.pendingEOT
      /\ u.deferWait = st.deferWait /\ u.deferItem = st.deferItem
  BY <1>1, <1>3, <1>5
<1> QED BY <1>6 DEF u

\* updateSession, accepted or refused.
LEMMA UpdateSessionServes ==
  ASSUME NEW st, Fit(st), NEW hasTD \in BOOLEAN, NEW td \in TurnDetection,
         NEW voice \in Voices, NEW textOnly \in BOOLEAN
  PROVE  Serves(st, UpdateSession(st, hasTD, td, voice, textOnly))
<1> DEFINE b == [st EXCEPT !.voice = voice, !.textOnly = textOnly]
           c == ApplyTurnDetection(b, td)
           a == IF hasTD THEN c ELSE b
           e == Ev("session.updated", 0, 0, "")
           u == UpdateSession(st, hasTD, td, voice, textOnly)
<1>0. Good(st) /\ SessionOK(st) /\ st.nextRef \in Nat
  BY DEF Fit, Good, SessionOK
<1>1. u = IF voice # st.voice /\ st.audioEmitted THEN Emits(st, <<Error>>) ELSE Emits(a, <<e>>)
  BY DEF UpdateSession
<1>2. Good(u)
  BY <1>0, UpdateSessionGood DEF GoodStep
<1>3. SessionOK(b) /\ Same(st, b)
  BY <1>0 DEF SessionOK, Same
<1>4. Silent(st, b) /\ Turned(st, b) /\ b.deferWait = st.deferWait /\ b.deferItem = st.deferItem
  BY <1>0 DEF SessionOK, Silent, Kept, SameItems, SameRefs, Turned, Deferred
<1> HIDE DEF b
<1>5. Good(b)
  BY <1>0, <1>3, SameGood DEF GoodStep
<1>6. /\ SessionOK(c) /\ Silent(b, c) /\ ~c.turn.speaking /\ ~c.turn.pendingEOT
      /\ c.deferWait = b.deferWait /\ c.deferItem = b.deferItem
  BY <1>5, ApplyTurnDetectionGood, ApplyTurnDetectionSilent DEF GoodStep, Good
<1> HIDE DEF c
<1>7. SessionOK(a) /\ Silent(st, a)
  BY <1>0, <1>3, <1>4, <1>6, SilentTrans
<1>8. Waits(st) => Waits(a)
  BY <1>4, <1>6, CalmWaits, TurnedKeepsWaits
<1> HIDE DEF a
<1>9. Quiet(e)
  BY EvQuiet DEF QuietTypes
<1> HIDE DEF e
<1>10. CASE u = Emits(a, <<e>>)
  <2>1. Moves(st, u)
    BY <1>2, <1>7, <1>9, <1>10, QuietMoves
  <2>2. Turned(a, u)
    BY <1>7, <1>10, EmitsTurned
  <2> QED BY <1>8, <2>1, <2>2, TurnedKeepsWaits DEF Serves
<1>11. CASE u = Emits(st, <<Error>>)
  BY <1>11, ErrorMoves, TurnedServes
<1> QED BY <1>1, <1>10, <1>11

\* CmdClearAudio gives the turn in progress up.
LEMMA ClearAudioServes ==
  ASSUME NEW st, Fit(st) PROVE Serves(st, ClearAudio(st))
<1> DEFINE t == ResetTurn(st.turn)
           b == [st EXCEPT !.buf = 0, !.seg = FALSE, !.eot = FALSE, !.det = FALSE,
                           !.turn = t, !.speechItem = 0]
           e == Ev("cleared", 0, 0, "")
           u == ClearAudio(st)
<1>0. Good(st) /\ SessionOK(st) /\ st.nextRef \in Nat
  BY DEF Fit, Good, SessionOK
<1>1. t \in Turn /\ t.responseActive = st.turn.responseActive /\ ~t.speaking /\ ~t.pendingEOT
  BY <1>0 DEF SessionOK, ResetTurn, Turn
<1>2. u = Emits(b, <<e>>)
  BY <1>0 DEF ClearAudio, DisarmEndOfTurn, ClearBuffer, SessionOK
<1>3. Good(u)
  BY <1>0, ClearAudioGood DEF GoodStep
<1>4. 0 <= st.nextRef /\ 0 \notin 1..st.nextRef
  BY <1>0
<1> HIDE DEF t
<1>5. SessionOK(b)
  BY <1>0, <1>1, <1>4 DEF SessionOK
<1>6. /\ b.turn = t /\ b.items = st.items /\ b.nextRef = st.nextRef /\ b.speechItem = 0
      /\ b.nextResp = st.nextResp /\ b.active = st.active /\ b.pendingItem = st.pendingItem
      /\ b.out = st.out /\ b.deferWait = st.deferWait /\ b.deferItem = st.deferItem
  BY <1>0 DEF SessionOK
<1> HIDE DEF b
<1>7. Silent(st, b)
  BY <1>0, <1>4, <1>6 DEF Silent, Kept, SameItems, SameRefs
<1>8. Quiet(e)
  BY EvQuiet DEF QuietTypes
<1> HIDE DEF e
<1>9. Moves(st, u)
  BY <1>2, <1>3, <1>5, <1>7, <1>8, QuietMoves
<1>10. Turned(b, u)
  BY <1>2, <1>5, EmitsTurned
<1>11. Waits(st) => Waits(b)
  BY <1>1, <1>6, CalmWaits
<1> QED BY <1>9, <1>10, <1>11, TurnedKeepsWaits DEF Serves

\* CmdClose.
LEMMA CmdCloseServes ==
  ASSUME NEW st, Fit(st) PROVE Serves(st, Emits(st, <<CancelMark>>))
<1>1. Good(st) /\ SessionOK(st) /\ Linked(st)
  BY DEF Fit, Good
<1>2. Good(Emits(st, <<CancelMark>>))
  BY <1>1, CmdCloseGood DEF GoodStep
<1>3. Carry(st, Emits(st, <<CancelMark>>)) /\ Turned(st, Emits(st, <<CancelMark>>))
  BY <1>1, ErrorQuiet, QuietCarry, EmitsTurned
<1> QED BY <1>2, <1>3, TurnedServes DEF Moves

\* CmdCreateResponse and CmdCancelResponse.
LEMMA ResponseCommandsServe ==
  ASSUME NEW st, Fit(st), NEW voice \in Voices, NEW textOnly \in BOOLEAN, NEW resp
  PROVE  Serves(st, CmdCreateResponse(st, voice, textOnly)) /\ Serves(st, CmdCancelResponse(st, resp))
<1>1. Serves(st, Emits(st, <<Error>>))
  BY ErrorMoves, TurnedServes
<1>2. Serves(st, CmdCreateResponse(st, voice, textOnly))
  BY <1>1, CreateResponseMoves, TurnedServes DEF CmdCreateResponse
<1>3. "cancelled" \in FinalStatuses
  BY DEF FinalStatuses
<1>4. Serves(st, CmdCancelResponse(st, resp))
  BY <1>1, <1>3, FinishMoves, TurnedServes DEF CmdCancelResponse
<1> QED BY <1>2, <1>4

\* createItem, accepted or refused.
LEMMA CreateItemServes ==
  ASSUME NEW st, Fit(st), NEW call \in Nat, NEW prev \in Nat
  PROVE  Serves(st, CreateItem(st, call, prev))
<1> DEFINE k == st.nextRef + 1
           it  == Item(IF call = 0 THEN "client" ELSE "tool_output", "completed", "words", call)
           d == Ev("item.added", 0, k, "")
           e == Ev("item.done", 0, k, "")
           x == [st EXCEPT !.nextRef = k]
           a == AppendItem(st, it)
           u == CreateItem(st, call, prev)
<1> SUFFICES Serves(st, u)
  OBVIOUS
<1>0. Good(st) /\ SessionOK(st) /\ Sized(st) /\ Linked(st)
  BY GoodSized DEF Fit, Good
<1>01. k \in Nat /\ st.nextRef <= k /\ st.speechItem <= k /\ DOMAIN st.items \subseteq 1..k
  BY <1>0 DEF Sized
<1>1. it.kind # "user_audio" /\ it.status = "completed" /\ it \in Items
  BY DEF Item, Items, ItemKinds, ItemStatuses, Texts
<1>2. u = Emits(st, <<Error>>) \/ u = Emits(x, <<Error>>) \/ u = Emits(a, <<d, e>>)
  BY DEF CreateItem
<1>3. Good(u)
  BY <1>0, CreateItemGood DEF GoodStep
<1> HIDE DEF it, u
<1>4. a = [st EXCEPT !.nextRef = k, !.items = Put(st.items, k, it)] /\ SessionOK(a)
  BY <1>0, <1>1, AppendOK DEF AppendItem, SessionOK
<1>5. /\ d \in Events /\ d.type = "item.added" /\ d.item = k
      /\ e \in Events /\ e.type = "item.done" /\ e.item = k
  <2>1. "item.added" \in EventTypes /\ "item.done" \in EventTypes /\ 0 \in Nat
    BY DEF EventTypes
  <2>2. d.type = "item.added" /\ d.item = k /\ e.type = "item.done" /\ e.item = k
    BY DEF Ev
  <2> HIDE DEF k
  <2> QED BY <1>01, <2>1, <2>2, EvPlain, Zenon
<1> HIDE DEF d, e
<1>6. CASE u = Emits(st, <<Error>>)
  BY <1>6, ErrorMoves, TurnedServes
<1>7. CASE u = Emits(x, <<Error>>)
  <2> HIDE DEF k
  <2>1. SessionOK(x)
    BY <1>0, <1>01 DEF SessionOK
  <2>2. Silent(st, x) /\ Turned(st, x)
    BY <1>0, <1>01 DEF SessionOK, Silent, Kept, SameItems, SameRefs, Turned, Deferred
  <2> HIDE DEF x
  <2>3. Moves(st, u) /\ Turned(x, u)
    BY <1>3, <1>7, <2>1, <2>2, ErrorQuiet, QuietMoves, EmitsTurned
  <2> QED BY <2>2, <2>3, TurnedTrans, TurnedServes
<1>8. CASE u = Emits(a, <<d, e>>)
  <2>1. k = st.nextRef + 1
    OBVIOUS
  <2> HIDE DEF k
  <2>2. /\ a.items = Put(st.items, k, it) /\ a.nextRef = k /\ a.speechItem = st.speechItem
        /\ a.pendingItem = st.pendingItem /\ a.nextResp = st.nextResp /\ a.active = st.active
        /\ a.out = st.out /\ Turned(st, a)
    BY <1>0, <1>4 DEF SessionOK, Turned, Deferred
  <2> HIDE DEF a
  <2> DEFINE evs == <<d, e>>
  <2>3. evs = <<d, e>>
    OBVIOUS
  <2> HIDE DEF evs
  <2>4. u = Emits(a, evs)
    BY <1>8, <2>3
  <2>5. /\ u.items = a.items /\ u.nextRef = a.nextRef /\ u.speechItem = a.speechItem
        /\ u.pendingItem = a.pendingItem /\ u.nextResp = a.nextResp /\ u.active = a.active
        /\ u.out = a.out \o evs
    BY <1>4, <2>4 DEF SessionOK, Emits
  <2>6. /\ DOMAIN u.items = DOMAIN st.items \cup {k} /\ u.items[k] = it
        /\ \A i \in DOMAIN st.items : i # k => u.items[i] = st.items[i]
    BY <2>2, <2>5 DEF Put
  <2>7. /\ u.nextRef = k /\ u.speechItem = st.speechItem /\ u.pendingItem = st.pendingItem
        /\ u.nextResp = st.nextResp /\ u.active.ref = st.active.ref /\ u.active.item = st.active.item
        /\ u.out = st.out \o <<d, e>>
    BY <2>2, <2>3, <2>5
  <2>8. u.items[k].kind # "user_audio" /\ u.items[k].status = "completed"
    BY <1>1, <2>6
  <2>9. Carry(st, u)
    <3>1. /\ DOMAIN u.items = DOMAIN st.items \cup {k}
          /\ \A i \in DOMAIN st.items : i # k => u.items[i] = st.items[i]
      BY <2>6
    <3>2. Sized(st) /\ Linked(st)
      BY <1>0
    <3> QED BY <1>5, <2>1, <2>7, <2>8, <3>1, <3>2, AddedCarry, SMTT(30)
  <2>10. Turned(st, u)
    BY <1>4, <2>2, <2>4, EmitsTurned, TurnedTrans
  <2> QED BY <1>3, <2>9, <2>10, TurnedServes DEF Moves
<1> QED BY <1>2, <1>6, <1>7, <1>8

\* deleteItem, accepted or refused.
LEMMA DeleteItemServes ==
  ASSUME NEW st, Fit(st), NEW ref \in Nat PROVE Serves(st, DeleteItem(st, ref))
<1> DEFINE i == Remove(st.items, ref)
           p == IF st.pendingItem = ref THEN 0 ELSE st.pendingItem
           b == [st EXCEPT !.items = i, !.pendingItem = p]
           e == Ev("item.deleted", 0, ref, "")
           u == DeleteItem(st, ref)
<1> SUFFICES Serves(st, u)
  OBVIOUS
<1>0. Good(st) /\ SessionOK(st) /\ Sized(st) /\ Linked(st)
  BY GoodSized DEF Fit, Good
<1>1. i \in [DOMAIN i -> Items] /\ DOMAIN i \subseteq 1..st.nextRef /\ p \in Nat
  BY <1>0 DEF SessionOK, Remove
<1>2. \/ u = Emits(st, <<Error>>)
      \/ /\ u = Emits(b, <<e>>) /\ ref \in DOMAIN st.items
         /\ ~(st.active.ref # 0 /\ st.active.item = ref)
  BY <1>0 DEF DeleteItem, SessionOK
<1>3. Good(u)
  BY <1>0, DeleteItemGood DEF GoodStep
<1>4. e \in Events /\ e.type = "item.deleted" /\ e.item = ref
  <2>1. "item.deleted" \in EventTypes /\ 0 \in Nat
    BY DEF EventTypes
  <2>2. e.type = "item.deleted" /\ e.item = ref
    BY DEF Ev
  <2> QED BY <2>1, <2>2, EvPlain, Zenon
<1>5. DOMAIN i = DOMAIN st.items \ {ref} /\ \A j \in DOMAIN st.items : j # ref => i[j] = st.items[j]
  BY DEF Remove
<1>6. p = IF st.pendingItem = ref THEN 0 ELSE st.pendingItem
  OBVIOUS
<1> HIDE DEF i, p, e, u
<1>7. CASE u = Emits(st, <<Error>>)
  BY <1>7, ErrorMoves, TurnedServes
<1>8. CASE u = Emits(b, <<e>>) /\ ref \in DOMAIN st.items /\ ~(st.active.ref # 0 /\ st.active.item = ref)
  <2>1. SessionOK(b)
    BY <1>0, <1>1 DEF SessionOK
  <2>2. /\ b.items = i /\ b.nextRef = st.nextRef /\ b.speechItem = st.speechItem
        /\ b.pendingItem = p /\ b.nextResp = st.nextResp /\ b.active = st.active
        /\ b.out = st.out /\ Turned(st, b)
    BY <1>0 DEF SessionOK, Turned, Deferred
  <2> HIDE DEF b
  <2> DEFINE evs == <<e>>
  <2>3. evs = <<e>>
    OBVIOUS
  <2> HIDE DEF evs
  <2>4. u = Emits(b, evs)
    BY <1>8, <2>3
  <2>5. /\ u.items = b.items /\ u.nextRef = b.nextRef /\ u.speechItem = b.speechItem
        /\ u.pendingItem = b.pendingItem /\ u.nextResp = b.nextResp /\ u.active = b.active
        /\ u.out = b.out \o evs
    BY <2>1, <2>4 DEF SessionOK, Emits
  <2>6. /\ DOMAIN u.items = DOMAIN st.items \ {ref}
        /\ \A j \in DOMAIN st.items : j # ref => u.items[j] = st.items[j]
    BY <1>5, <2>2, <2>5
  <2>7. ref # 0
    BY <1>0, <1>8 DEF Sized
  <2>8. ref # st.active.item
    BY <1>0, <1>8, <2>7 DEF Linked
  <2>9. /\ u.nextRef = st.nextRef /\ u.speechItem = st.speechItem
        /\ u.pendingItem = IF st.pendingItem = ref THEN 0 ELSE st.pendingItem
        /\ u.nextResp = st.nextResp /\ u.active.ref = st.active.ref /\ u.active.item = st.active.item
        /\ u.out = st.out \o <<e>>
    BY <1>6, <2>2, <2>3, <2>5
  <2>10. Carry(st, u)
    <3>1. Sized(st) /\ Linked(st) /\ ref \in DOMAIN st.items
      BY <1>0, <1>8
    <3> QED BY <1>4, <2>6, <2>8, <2>9, <3>1, DeletedCarry, SMTT(30)
  <2>11. Turned(st, u)
    BY <2>1, <2>2, <2>4, EmitsTurned, TurnedTrans
  <2> QED BY <1>3, <2>10, <2>11, TurnedServes DEF Moves
<1> QED BY <1>2, <1>7, <1>8

(* Audio. *)

\* trimIdle.
LEMMA TrimIdleServes ==
  ASSUME NEW st, Fit(st) PROVE Serves(st, TrimIdle(st))
<1>1. Good(st) /\ SessionOK(st) /\ st.nextRef \in Nat
  BY DEF Fit, Good, SessionOK
<1>2. Silent(st, TrimIdle(st)) /\ Turned(st, TrimIdle(st))
  BY <1>1 DEF SessionOK, TrimIdle, Silent, Kept, SameItems, SameRefs, Turned, Deferred
<1>3. Good(TrimIdle(st))
  BY <1>1, TrimIdleGood DEF GoodStep
<1> QED BY <1>2, <1>3, SilentServes

\* handleAudio up to the loop over the detector's events.
LEMMA OnAudioServes ==
  ASSUME NEW st, Fit(st), NEW n \in Nat, NEW asrOk \in BOOLEAN
  PROVE  Serves(st, OnAudio(st, n, asrOk))
<1> DEFINE b == st.buf + 1
           kept == [st EXCEPT !.buf = b]
           q == VadBatch(st.det, n)
           x == IF n % 2 = 1 THEN ~st.det ELSE st.det
           heard == [kept EXCEPT !.vadq = q, !.det = x]
<1>0. Good(st) /\ SessionOK(st) /\ st.nextRef \in Nat
  BY DEF Fit, Good, SessionOK
<1>1. st.det \in BOOLEAN /\ x \in BOOLEAN
  BY <1>0 DEF SessionOK
<1>2. b \in Nat
  BY <1>0 DEF SessionOK
<1>3. q \in Seq({"start", "end"})
  BY <1>1, VadBatchOK
<1>4. OnAudio(st, n, asrOk) =
        IF st.buf + 1 > BufferMax THEN Fatal(st)
        ELSE IF ~asrOk THEN Fatal(kept)
        ELSE IF ~VadEnabled(st.turn) THEN kept
        ELSE IF n = 0 THEN TrimIdle(heard) ELSE heard
  BY <1>0 DEF OnAudio, SessionOK
<1> HIDE DEF q, x, b
<1>5. SessionOK(kept) /\ Same(st, kept)
  BY <1>0, <1>2 DEF SessionOK, Same
<1>6. SessionOK(heard) /\ Same(st, heard)
  BY <1>0, <1>1, <1>2, <1>3 DEF SessionOK, Same
<1>7. Silent(st, kept) /\ Turned(st, kept)
  BY <1>0 DEF SessionOK, Silent, Kept, SameItems, SameRefs, Turned, Deferred
<1>8. Silent(st, heard) /\ Turned(st, heard)
  BY <1>0 DEF SessionOK, Silent, Kept, SameItems, SameRefs, Turned, Deferred
<1> HIDE DEF kept, heard
<1>9. Good(kept) /\ Good(heard)
  BY <1>0, <1>5, <1>6, SameGood DEF GoodStep
<1>10. Serves(st, kept) /\ Serves(st, heard)
  BY <1>7, <1>8, <1>9, SilentServes
<1>11. Fit(kept) /\ Fit(heard)
  BY <1>10, ServesFit
<1>12. Serves(st, Fatal(st)) /\ Serves(kept, Fatal(kept))
  BY <1>11, FatalMoves, TurnedServes
<1>13. Serves(st, Fatal(kept)) /\ Serves(st, TrimIdle(heard))
  BY <1>10, <1>11, <1>12, TrimIdleServes, ServesTrans
<1> QED BY <1>4, <1>10, <1>12, <1>13

\* A speech start reserves the turn's ref and ends the wait for the last one.
LEMMA OnSpeechStartServes ==
  ASSUME NEW st, Fit(st) PROVE Serves(st, OnSpeechStart(st))
<1> DEFINE res == StepSpeechStart(st.turn)
           ref == IF st.speechItem # 0 THEN st.speechItem ELSE st.nextRef + 1
           n == IF st.speechItem # 0 THEN st.nextRef ELSE ref
           t == res.turn
           b == [st EXCEPT !.eot = FALSE, !.speechItem = ref, !.seg = TRUE, !.turn = t,
                           !.nextRef = n]
           e == Ev("speech_started", 0, ref, "")
           m == Emits(b, <<e>>)
           cut == IF "Interrupt" \in res.d THEN Finish(m, "cancelled") ELSE m
           u == OnSpeechStart(st)
<1> SUFFICES Serves(st, u)
  OBVIOUS
<1>0. Good(st) /\ SessionOK(st) /\ st.turn \in Turn
  BY DEF Fit, Good, SessionOK
<1>1. /\ ref \in Nat /\ n \in Nat /\ ref <= n /\ DOMAIN st.items \subseteq 1..n /\ ref # 0
      /\ st.nextRef <= n /\ (ref = st.speechItem \/ ref \notin 1..st.nextRef)
  BY <1>0 DEF SessionOK
<1>2. t \in Turn /\ t.responseActive = st.turn.responseActive
  BY <1>0, StepKeeps DEF Keeps
<1>3. (st.turn.mode = "manual" /\ t = st.turn) \/ ~t.pendingEOT
  BY <1>0 DEF StepSpeechStart, Result, Turn
<1>4. u = IF cut.turn.interruptResponse THEN DropDeferredTrigger(cut) ELSE cut
  BY <1>0 DEF OnSpeechStart, DisarmEndOfTurn, SessionOK
<1>5. Quiet(e) /\ <<e>> \in Seq(Events)
  <2>1. "speech_started" \in QuietTypes /\ 0 \in Nat
    BY DEF QuietTypes
  <2> HIDE DEF ref
  <2> QED BY <1>1, <2>1, EvQuiet
<1> HIDE DEF ref, n, t, e, u
<1>6. SessionOK(b) /\ Same(st, b)
  BY <1>0, <1>1, <1>2 DEF SessionOK, Same
<1>7. Silent(st, b)
  BY <1>0, <1>1 DEF SessionOK, Silent, Kept, SameItems, SameRefs
<1>8. /\ b.turn = t /\ b.speechItem = ref /\ b.deferWait = st.deferWait /\ b.deferItem = st.deferItem
  BY <1>0 DEF SessionOK
<1> HIDE DEF b, res
<1>9. Good(m)
  BY <1>0, <1>5, <1>6, EmitsSame, SameGood DEF GoodStep
<1>10. Moves(st, m) /\ Turned(b, m)
  BY <1>5, <1>6, <1>7, <1>9, QuietMoves, EmitsTurned
<1>11. Waits(st) => Waits(b)
  BY <1>1, <1>3, <1>8 DEF Waits, Spoken, Timed, Deferred
<1>12. Serves(st, m) /\ Fit(m)
  BY <1>10, <1>11, TurnedKeepsWaits, MovesFit DEF Serves
<1> HIDE DEF m
<1>13. "cancelled" \in FinalStatuses
  BY DEF FinalStatuses
<1>14. Serves(m, Finish(m, "cancelled"))
  BY <1>12, <1>13, FinishMoves, TurnedServes
<1>15. Serves(st, cut) /\ Fit(cut)
  BY <1>12, <1>14, ServesTrans, ServesFit
<1> HIDE DEF cut
<1>16. Serves(cut, DropDeferredTrigger(cut))
  BY <1>15, DeferMoves, TurnedServes
<1> QED BY <1>4, <1>15, <1>16, ServesTrans

\* A speech end.
LEMMA OnSpeechEndServes ==
  ASSUME NEW st, Fit(st), NEW asrOk \in BOOLEAN PROVE Serves(st, OnSpeechEnd(st, asrOk))
<1> DEFINE res == StepSpeechEnd(st.turn)
           e == Ev("speech_stopped", 0, st.speechItem, "")
           said == Emits(st, <<e>>)
           told == IF "EmitSpeechStopped" \in res.d THEN said ELSE st
<1>0. Good(st) /\ SessionOK(st) /\ st.turn \in Turn /\ Linked(st) /\ st.speechItem \in Nat
  BY DEF Fit, Good, SessionOK
<1>1. OnSpeechEnd(st, asrOk) = Decide(told, res, asrOk)
  BY DEF OnSpeechEnd
<1>2. Quiet(e) /\ <<e>> \in Seq(Events)
  <2>1. "speech_stopped" \in QuietTypes /\ 0 \in Nat
    BY DEF QuietTypes
  <2> QED BY <1>0, <2>1, EvQuiet
<1> HIDE DEF e
<1>3. said.turn = st.turn
  BY <1>0 DEF Emits, SessionOK
<1>4. Good(said) /\ Carry(st, said) /\ Turned(st, said)
  BY <1>0, <1>2, EmitsGood, QuietCarry, EmitsTurned DEF GoodStep
<1>5. Serves(st, said)
  BY <1>4, TurnedServes DEF Moves
<1> HIDE DEF said
<1>6. Serves(st, told) /\ Fit(told) /\ told.turn = st.turn
  BY <1>3, <1>5, SelfMoves, TurnedServes, ServesFit
<1> HIDE DEF told
<1>7. Keeps(told.turn, res)
  BY <1>0, <1>6, StepKeeps
<1>8. Waits(told) => Suits(told, res)
  BY <1>0, <1>6, SpeechEndSuits DEF Waits
<1> HIDE DEF res
<1>9. Serves(told, Decide(told, res, asrOk))
  BY <1>6, <1>7, <1>8, DecideServes
<1> QED BY <1>1, <1>6, <1>9, ServesTrans

\* One round of the loop over the detector's events.
LEMMA OnVadEventServes ==
  ASSUME NEW st, Fit(st), st.vadq # <<>>, NEW asrOk \in BOOLEAN
  PROVE  Serves(st, OnVadEvent(st, asrOk))
<1> DEFINE q == Tail(st.vadq)
           rest == [st EXCEPT !.vadq = q]
           d == IF Head(st.vadq) = "start" THEN OnSpeechStart(rest) ELSE OnSpeechEnd(rest, asrOk)
<1>0. Good(st) /\ SessionOK(st) /\ st.nextRef \in Nat /\ st.vadq \in Seq({"start", "end"})
  BY DEF Fit, Good, SessionOK
<1>1. q \in Seq({"start", "end"})
  BY <1>0
<1>2. OnVadEvent(st, asrOk) = IF Len(st.vadq) = 1 THEN TrimIdle(d) ELSE d
  BY DEF OnVadEvent
<1> HIDE DEF q
<1>3. SessionOK(rest) /\ Same(st, rest)
  BY <1>0, <1>1 DEF SessionOK, Same
<1>4. Silent(st, rest) /\ Turned(st, rest)
  BY <1>0 DEF SessionOK, Silent, Kept, SameItems, SameRefs, Turned, Deferred
<1> HIDE DEF rest
<1>5. Good(rest)
  BY <1>0, <1>3, SameGood DEF GoodStep
<1>6. Serves(st, rest) /\ Fit(rest)
  BY <1>4, <1>5, SilentServes, ServesFit
<1>7. Serves(rest, d)
  BY <1>6, OnSpeechStartServes, OnSpeechEndServes
<1> HIDE DEF d
<1>8. Serves(st, d) /\ Fit(d)
  BY <1>6, <1>7, ServesTrans, ServesFit
<1>9. Serves(st, TrimIdle(d))
  BY <1>8, TrimIdleServes, ServesTrans
<1> QED BY <1>2, <1>8, <1>9

(* Pipeline events. *)

\* ensureOutputItem.
LEMMA EnsureOutputItemMoves ==
  ASSUME NEW st, Fit(st), st.active.ref # 0
  PROVE  LET u == EnsureOutputItem(st)
         IN  Moves(st, u) /\ Turned(st, u) /\ u.active.item # 0 /\ u.active.ref = st.active.ref
<1> DEFINE k == st.nextRef + 1
           it == Item("message", "in_progress", "words", 0)
           a == AppendItem(st, it)
           x == [a.active EXCEPT !.item = k]
           b == [a EXCEPT !.active = x]
           e == Ev("output_item.added", st.active.ref, k, "")
           evs == <<e>>
           u == EnsureOutputItem(st)
<1> SUFFICES Moves(st, u) /\ Turned(st, u) /\ u.active.item # 0 /\ u.active.ref = st.active.ref
  OBVIOUS
<1>0. Good(st) /\ SessionOK(st) /\ Sized(st) /\ Linked(st) /\ st.active \in Responses
  BY GoodSized DEF Fit, Good, SessionOK
<1>1. Good(u)
  BY <1>0, EnsureOutputItemGood DEF GoodStep
<1>2. k \in Nat /\ k # 0 /\ k = st.nextRef + 1
  BY <1>0 DEF Sized
<1>3. it.kind = "message" /\ it.status = "in_progress" /\ it \in Items
  BY DEF Item, Items, ItemKinds, ItemStatuses, Texts
<1> HIDE DEF it
<1>4. a = [st EXCEPT !.nextRef = k, !.items = Put(st.items, k, it)] /\ SessionOK(a)
  BY <1>0, <1>3, AppendOK DEF AppendItem, SessionOK
<1>5. u = IF st.active.item \in DOMAIN st.items THEN st ELSE Emits(b, evs)
  BY DEF EnsureOutputItem, it
<1>6. st.active.item \in DOMAIN st.items <=> st.active.item # 0
  BY <1>0 DEF Linked, Sized
<1> HIDE DEF u
<1>7. CASE st.active.item # 0
  BY <1>5, <1>6, <1>7, SelfMoves
<1>8. CASE st.active.item = 0
  <2> HIDE DEF k
  <2>1. e \in Events /\ e.type = "output_item.added" /\ e.item = k /\ e.resp = st.active.ref
    <3>1. "output_item.added" \in EventTypes /\ st.active.ref \in Nat
      BY <1>0 DEF EventTypes, Sized
    <3>2. e.type = "output_item.added" /\ e.item = k /\ e.resp = st.active.ref
      BY DEF Ev
    <3> QED BY <1>2, <3>1, <3>2, EvPlain, Zenon
  <2>2. /\ a.items = Put(st.items, k, it) /\ a.nextRef = k /\ a.speechItem = st.speechItem
        /\ a.pendingItem = st.pendingItem /\ a.nextResp = st.nextResp /\ a.active = st.active
        /\ a.out = st.out /\ Turned(st, a)
    BY <1>0, <1>4 DEF SessionOK, Turned, Deferred
  <2> HIDE DEF a, e
  <2>3. x \in Responses /\ x.ref = st.active.ref /\ x.item = k
    BY <1>0, <1>2, <2>2 DEF Responses
  <2> HIDE DEF x
  <2>4. SessionOK(b)
    BY <1>4, <2>3, ZenonT(60) DEF SessionOK
  <2>5. /\ b.items = a.items /\ b.nextRef = a.nextRef /\ b.speechItem = a.speechItem
        /\ b.pendingItem = a.pendingItem /\ b.nextResp = a.nextResp /\ b.active = x
        /\ b.out = a.out /\ Turned(a, b)
    BY <1>4 DEF SessionOK, Turned, Deferred
  <2> HIDE DEF b
  <2>6. evs = <<e>>
    OBVIOUS
  <2> HIDE DEF evs
  <2>7. u = Emits(b, evs)
    BY <1>5, <1>6, <1>8
  <2>8. /\ u.items = b.items /\ u.nextRef = b.nextRef /\ u.speechItem = b.speechItem
        /\ u.pendingItem = b.pendingItem /\ u.nextResp = b.nextResp /\ u.active = b.active
        /\ u.out = b.out \o evs
    BY <2>4, <2>7 DEF SessionOK, Emits
  <2>9. /\ DOMAIN u.items = DOMAIN st.items \cup {k} /\ u.items[k] = it
        /\ \A i \in DOMAIN st.items : i # k => u.items[i] = st.items[i]
    BY <2>2, <2>5, <2>8 DEF Put
  <2>10. /\ u.nextRef = k /\ u.speechItem = st.speechItem /\ u.pendingItem = st.pendingItem
         /\ u.nextResp = st.nextResp /\ u.active.ref = st.active.ref /\ u.active.item = k
         /\ u.out = st.out \o <<e>>
    BY <2>2, <2>3, <2>5, <2>6, <2>8
  <2>11. u.items[k].kind = "message" /\ u.items[k].status = "in_progress"
    BY <1>3, <2>9
  <2>12. Carry(st, u)
    <3>1. /\ DOMAIN u.items = DOMAIN st.items \cup {k}
          /\ \A i \in DOMAIN st.items : i # k => u.items[i] = st.items[i]
      BY <2>9
    <3>2. Sized(st) /\ Linked(st) /\ k = st.nextRef + 1
      BY <1>0, <1>2
    <3> QED BY <1>8, <2>1, <2>10, <2>11, <3>1, <3>2, OutputCarry
  <2>13. Turned(st, u)
    BY <2>2, <2>4, <2>5, <2>7, EmitsTurned, TurnedTrans
  <2> QED BY <1>1, <1>2, <2>10, <2>12, <2>13 DEF Moves
<1> QED BY <1>7, <1>8

\* deliverToolCall.
LEMMA DeliverToolCallMoves ==
  ASSUME NEW st, Fit(st), st.active.ref # 0
  PROVE  Moves(st, DeliverToolCall(st)) /\ Turned(st, DeliverToolCall(st))
<1> DEFINE k == st.nextRef + 1
           r == st.active.ref
           it == Item("tool_call", "completed", "words", 0)
           a == AppendItem(st, it)
           x == [a.active EXCEPT !.toolItem = k]
           b == [a EXCEPT !.active = x]
           e1 == Ev("output_item.added", r, k, "")
           e2 == Ev("arguments.done", r, k, "")
           e3 == Ev("output_item.done", r, k, "")
           evs == <<e1, e2, e3>>
           u == DeliverToolCall(st)
<1> SUFFICES Moves(st, u) /\ Turned(st, u)
  OBVIOUS
<1>0. Good(st) /\ SessionOK(st) /\ Sized(st) /\ Linked(st) /\ st.active \in Responses
  BY GoodSized DEF Fit, Good, SessionOK
<1>1. Good(u)
  BY <1>0, DeliverToolCallGood DEF GoodStep
<1>2. k \in Nat /\ k # 0 /\ k = st.nextRef + 1 /\ r \in Nat
  BY <1>0 DEF Sized
<1>3. it.kind = "tool_call" /\ it.status = "completed" /\ it \in Items
  BY DEF Item, Items, ItemKinds, ItemStatuses, Texts
<1> HIDE DEF it
<1>4. a = [st EXCEPT !.nextRef = k, !.items = Put(st.items, k, it)] /\ SessionOK(a)
  BY <1>0, <1>3, AppendOK DEF AppendItem, SessionOK
<1>5. u = IF st.active.toolItem # 0 THEN st ELSE Emits(b, evs)
  BY DEF DeliverToolCall, it
<1> HIDE DEF u
<1>6. CASE st.active.toolItem # 0
  BY <1>5, <1>6, SelfMoves
<1>7. CASE st.active.toolItem = 0
  <2> HIDE DEF k
  <2>1. e1 \in Events /\ e1.type = "output_item.added" /\ e1.item = k /\ e1.resp = r
    <3>1. "output_item.added" \in EventTypes
      BY DEF EventTypes
    <3>2. e1.type = "output_item.added" /\ e1.item = k /\ e1.resp = r
      BY DEF Ev
    <3> QED BY <1>2, <3>1, <3>2, EvPlain, Zenon
  <2>2. e2 \in Events /\ e2.type = "arguments.done" /\ e2.item = k /\ e2.resp = r
    <3>1. "arguments.done" \in EventTypes
      BY DEF EventTypes
    <3>2. e2.type = "arguments.done" /\ e2.item = k /\ e2.resp = r
      BY DEF Ev
    <3> QED BY <1>2, <3>1, <3>2, EvPlain, Zenon
  <2>3. e3 \in Events /\ e3.type = "output_item.done" /\ e3.item = k /\ e3.resp = r
    <3>1. "output_item.done" \in EventTypes
      BY DEF EventTypes
    <3>2. e3.type = "output_item.done" /\ e3.item = k /\ e3.resp = r
      BY DEF Ev
    <3> QED BY <1>2, <3>1, <3>2, EvPlain, Zenon
  <2>4. /\ a.items = Put(st.items, k, it) /\ a.nextRef = k /\ a.speechItem = st.speechItem
        /\ a.pendingItem = st.pendingItem /\ a.nextResp = st.nextResp /\ a.active = st.active
        /\ a.out = st.out /\ Turned(st, a)
    BY <1>0, <1>4 DEF SessionOK, Turned, Deferred
  <2> HIDE DEF a, e1, e2, e3
  <2>5. x \in Responses /\ x.ref = st.active.ref /\ x.item = st.active.item
    BY <1>0, <1>2, <2>4 DEF Responses
  <2> HIDE DEF x
  <2>6. SessionOK(b)
    BY <1>4, <2>5 DEF SessionOK
  <2>7. /\ b.items = a.items /\ b.nextRef = a.nextRef /\ b.speechItem = a.speechItem
        /\ b.pendingItem = a.pendingItem /\ b.nextResp = a.nextResp /\ b.active = x
        /\ b.out = a.out /\ Turned(a, b)
    BY <1>4 DEF SessionOK, Turned, Deferred
  <2> HIDE DEF b
  <2>8. evs = <<e1, e2, e3>>
    OBVIOUS
  <2> HIDE DEF evs
  <2>9. u = Emits(b, evs)
    BY <1>5, <1>7
  <2>10. /\ u.items = b.items /\ u.nextRef = b.nextRef /\ u.speechItem = b.speechItem
         /\ u.pendingItem = b.pendingItem /\ u.nextResp = b.nextResp /\ u.active = b.active
         /\ u.out = b.out \o evs
    BY <2>6, <2>9 DEF SessionOK, Emits
  <2>11. /\ DOMAIN u.items = DOMAIN st.items \cup {k} /\ u.items[k] = it
         /\ \A i \in DOMAIN st.items : i # k => u.items[i] = st.items[i]
    BY <2>4, <2>7, <2>10 DEF Put
  <2>12. /\ u.nextRef = k /\ u.speechItem = st.speechItem /\ u.pendingItem = st.pendingItem
         /\ u.nextResp = st.nextResp /\ u.active.ref = st.active.ref /\ u.active.item = st.active.item
         /\ u.out = st.out \o <<e1, e2, e3>>
    BY <2>4, <2>5, <2>7, <2>8, <2>10
  <2>13. u.items[k].kind = "tool_call" /\ u.items[k].status = "completed"
    BY <1>3, <2>11
  <2>14. Carry(st, u)
    <3>1. /\ DOMAIN u.items = DOMAIN st.items \cup {k}
          /\ \A i \in DOMAIN st.items : i # k => u.items[i] = st.items[i]
      BY <2>11
    <3>2. Sized(st) /\ Linked(st) /\ k = st.nextRef + 1
      BY <1>0, <1>2
    <3>3. /\ Tells(e1, "output_item.added", st.active.ref, k)
          /\ Tells(e2, "arguments.done", st.active.ref, k)
          /\ Tells(e3, "output_item.done", st.active.ref, k)
      BY <2>1, <2>2, <2>3 DEF Tells
    <3>4. Said(st, u, e1, e2, e3)
      BY <2>12 DEF Said
    <3>5. /\ u.nextRef = k /\ u.speechItem = st.speechItem /\ u.pendingItem = st.pendingItem
          /\ u.nextResp = st.nextResp /\ u.active.ref = st.active.ref /\ u.active.item = st.active.item
      BY <2>12
    <3> QED BY <2>13, <3>1, <3>2, <3>3, <3>4, <3>5, ToolCarry
  <2>15. Turned(st, u)
    BY <2>4, <2>6, <2>7, <2>9, EmitsTurned, TurnedTrans
  <2> QED BY <1>1, <2>14, <2>15 DEF Moves
<1> QED BY <1>6, <1>7

\* A delta of the output item, after a change that is not about the lifecycle.
LEMMA DeltaMoves ==
  ASSUME NEW st, Fit(st), st.active.ref # 0, st.active.item # 0,
         NEW b, SessionOK(b), Silent(st, b), Turned(st, b),
         NEW e \in Events, e.type \in {"delta", "audio.delta"},
         e.resp = st.active.ref, e.item = st.active.item, Good(Emits(b, <<e>>))
  PROVE  Moves(st, Emits(b, <<e>>)) /\ Turned(st, Emits(b, <<e>>))
<1> DEFINE evs == <<e>>
           u == Emits(b, evs)
<1>1. Sized(st) /\ Linked(st)
  BY GoodSized DEF Fit
<1>2. evs = <<e>>
  OBVIOUS
<1> HIDE DEF evs
<1>3. /\ u.items = b.items /\ u.nextRef = b.nextRef /\ u.speechItem = b.speechItem
      /\ u.pendingItem = b.pendingItem /\ u.nextResp = b.nextResp /\ u.active = b.active
      /\ u.out = b.out \o evs
  BY DEF SessionOK, Emits
<1>4. Turned(b, u)
  BY EmitsTurned
<1>5. Good(u)
  BY <1>2
<1> HIDE DEF u
<1>6. Kept(st, u)
  BY <1>3 DEF Silent, Kept, SameItems, SameRefs
<1>7. u.out = st.out \o <<e>>
  BY <1>2, <1>3 DEF Silent
<1>8. Carry(st, u)
  BY <1>1, <1>6, <1>7, DeltaCarry
<1>9. Moves(st, u) /\ Turned(st, u)
  BY <1>4, <1>5, <1>8, TurnedTrans DEF Moves
<1> QED BY <1>2, <1>9 DEF u

\* A change of the active response that the client does not see.
LEMMA ActiveSilent ==
  ASSUME NEW st, SessionOK(st), NEW x \in Responses, x.ref = st.active.ref, x.item = st.active.item
  PROVE  LET u == [st EXCEPT !.active = x] IN SessionOK(u) /\ Silent(st, u) /\ Turned(st, u)
<1> DEFINE u == [st EXCEPT !.active = x]
<1>1. SessionOK(u) /\ st.nextRef \in Nat
  BY DEF SessionOK
<1>2. /\ u.items = st.items /\ u.nextRef = st.nextRef /\ u.speechItem = st.speechItem
      /\ u.pendingItem = st.pendingItem /\ u.nextResp = st.nextResp /\ u.active = x
      /\ u.out = st.out /\ u.turn = st.turn /\ u.eot = st.eot /\ u.deferWait = st.deferWait
      /\ u.deferItem = st.deferItem
  BY DEF SessionOK
<1> HIDE DEF u
<1>3. Silent(st, u) /\ Turned(st, u)
  BY <1>1, <1>2 DEF Silent, Kept, SameItems, SameRefs, Turned, Deferred
<1> QED BY <1>1, <1>3 DEF u

\* handleResponseEvent.
LEMMA OnResponseEventServes ==
  ASSUME NEW st, Fit(st), NEW e \in PipeEvents PROVE Serves(st, OnResponseEvent(st, e))
<1> DEFINE o == EnsureOutputItem(st)
           r == st.active.ref
           u == OnResponseEvent(st, e)
<1> SUFFICES Moves(st, u) /\ Turned(st, u)
  BY TurnedServes
<1>0. Good(st) /\ SessionOK(st) /\ Linked(st) /\ st.active \in Responses
  BY DEF Fit, Good, SessionOK
<1>1. r \in Nat /\ st.active.voice \in Voices
  BY <1>0 DEF Responses
<1>2. Good(u)
  BY <1>0, OnResponseEventGood DEF GoodStep
<1>3. CASE Stale(st, e)
  BY <1>3, SelfMoves DEF OnResponseEvent
<1>4. ASSUME ~Stale(st, e)
      PROVE  /\ Moves(st, o) /\ Turned(st, o) /\ Fit(o) /\ SessionOK(o) /\ o.active \in Responses
             /\ o.active.item \in Nat /\ o.active.item # 0 /\ o.active.ref = r /\ r # 0 /\ o.nextRef \in Nat
  <2>1. r # 0
    BY <1>4 DEF Stale
  <2>2. Moves(st, o) /\ Turned(st, o) /\ o.active.item # 0 /\ o.active.ref = r
    BY <2>1, EnsureOutputItemMoves
  <2> HIDE DEF o
  <2>3. Fit(o)
    BY <2>2, MovesFit
  <2>4. SessionOK(o)
    BY <2>3 DEF Fit, Good
  <2>5. o.active \in Responses /\ o.nextRef \in Nat
    BY <2>4 DEF SessionOK
  <2> QED BY <2>1, <2>2, <2>3, <2>4, <2>5 DEF Responses
<1>5. CASE ~Stale(st, e) /\ e.kind = "text"
  <2> DEFINE x == [o.active EXCEPT !.spoke = TRUE]
             b == [o EXCEPT !.active = x]
             d == Ev("delta", r, o.active.item, "")
  <2>1. u = Emits(b, <<d>>)
    BY <1>4, <1>5 DEF OnResponseEvent, SessionOK
  <2> HIDE DEF o, u
  <2>2. x \in Responses /\ x.ref = o.active.ref /\ x.item = o.active.item
    BY <1>4, <1>5 DEF Responses
  <2> HIDE DEF x
  <2>3. SessionOK(b) /\ Silent(o, b) /\ Turned(o, b)
    BY <1>4, <1>5, <2>2, ActiveSilent
  <2>4. d \in Events /\ d.type \in {"delta", "audio.delta"} /\ d.resp = o.active.ref /\ d.item = o.active.item
    <3>1. "delta" \in EventTypes
      BY DEF EventTypes
    <3>2. d.type = "delta" /\ d.item = o.active.item /\ d.resp = r
      BY DEF Ev
    <3>3. d \in Events
      BY <1>1, <1>4, <1>5, <3>1, EvPlain, Zenon
    <3> QED BY <1>4, <1>5, <3>2, <3>3
  <2> HIDE DEF b, d
  <2>5. Moves(o, u) /\ Turned(o, u)
    BY <1>2, <1>4, <1>5, <2>1, <2>3, <2>4, DeltaMoves
  <2> QED BY <1>4, <1>5, <2>5, MovesTrans, TurnedTrans
<1>6. CASE ~Stale(st, e) /\ e.kind = "audio"
  <2> DEFINE b == [o EXCEPT !.audioEmitted = TRUE]
             d == Ev("audio.delta", r, o.active.item, st.active.voice)
  <2>1. u = Emits(b, <<d>>)
    BY <1>6 DEF OnResponseEvent
  <2> HIDE DEF o, u
  <2>2. SessionOK(b)
    BY <1>4, <1>6 DEF SessionOK
  <2>3. Silent(o, b) /\ Turned(o, b)
    BY <1>4, <1>6 DEF SessionOK, Silent, Kept, SameItems, SameRefs, Turned, Deferred
  <2>4. d \in Events /\ d.type \in {"delta", "audio.delta"} /\ d.resp = o.active.ref /\ d.item = o.active.item
    <3>1. "audio.delta" \in EventTypes /\ st.active.voice \in {""} \cup FinalStatuses \cup Voices
      BY <1>1 DEF EventTypes
    <3>2. d.type = "audio.delta" /\ d.item = o.active.item /\ d.resp = r
      BY DEF Ev
    <3>3. d \in Events
      BY <1>1, <1>4, <1>6, <3>1, EvOK, Zenon
    <3> QED BY <1>4, <1>6, <3>2, <3>3
  <2> HIDE DEF b, d
  <2>5. Moves(o, u) /\ Turned(o, u)
    BY <1>2, <1>4, <1>6, <2>1, <2>2, <2>3, <2>4, DeltaMoves
  <2> QED BY <1>4, <1>6, <2>5, MovesTrans, TurnedTrans
<1>7. CASE ~Stale(st, e) /\ e.kind = "tool"
  <2>1. u = DeliverToolCall(st) /\ r # 0
    BY <1>7 DEF OnResponseEvent, Stale
  <2> QED BY <2>1, DeliverToolCallMoves
<1>8. CASE ~Stale(st, e) /\ e.kind = "llmDone"
  <2> DEFINE f == e.finish
             x == [st.active EXCEPT !.llmDone = TRUE, !.finish = f]
             b == [st EXCEPT !.active = x]
  <2>1. u = MaybeComplete(b)
    BY <1>0, <1>8 DEF OnResponseEvent, SessionOK
  <2>2. f \in {"", "stop", "length"}
    BY DEF PipeEvents
  <2> HIDE DEF f, u
  <2>3. /\ x \in Responses /\ x.ref = st.active.ref /\ x.item = st.active.item
        /\ x.awaiting = st.active.awaiting /\ x.gen = st.active.gen /\ x.dependsOn = st.active.dependsOn
    BY <1>0, <2>2 DEF Responses
  <2> HIDE DEF x
  <2>4. Silent(st, b) /\ Turned(st, b) /\ Good(b)
    BY <1>0, <2>3, ActiveSilent, PutActiveGood DEF GoodStep
  <2> HIDE DEF b
  <2>5. Moves(st, b) /\ Fit(b)
    BY <2>4, SilentMoves, MovesFit
  <2> QED BY <2>1, <2>4, <2>5, MaybeCompleteMoves, MovesTrans, TurnedTrans
<1>9. CASE ~Stale(st, e) /\ e.kind = "ttsDone"
  <2> DEFINE x == [st.active EXCEPT !.ttsDone = TRUE]
             b == [st EXCEPT !.active = x]
  <2>1. u = MaybeComplete(b)
    BY <1>0, <1>9 DEF OnResponseEvent, SessionOK
  <2> HIDE DEF u
  <2>3. /\ x \in Responses /\ x.ref = st.active.ref /\ x.item = st.active.item
        /\ x.awaiting = st.active.awaiting /\ x.gen = st.active.gen /\ x.dependsOn = st.active.dependsOn
    BY <1>0 DEF Responses
  <2> HIDE DEF x
  <2>4. Silent(st, b) /\ Turned(st, b) /\ Good(b)
    BY <1>0, <2>3, ActiveSilent, PutActiveGood DEF GoodStep
  <2> HIDE DEF b
  <2>5. Moves(st, b) /\ Fit(b)
    BY <2>4, SilentMoves, MovesFit
  <2> QED BY <2>1, <2>4, <2>5, MaybeCompleteMoves, MovesTrans, TurnedTrans
<1>10. CASE ~Stale(st, e) /\ e.kind = "error"
  <2>1. u = FailResponse(st)
    BY <1>10 DEF OnResponseEvent
  <2> QED BY <1>0, <1>2, <2>1, FailResponseCarry DEF Moves
<1>11. e.kind \in {"text", "audio", "tool", "llmDone", "ttsDone", "error"}
  BY DEF PipeEvents
<1> QED BY <1>3, <1>5, <1>6, <1>7, <1>8, <1>9, <1>10, <1>11

\* cleanup: the response ends and every timer stops, the turn's too.
LEMMA CleanupMoves ==
  ASSUME NEW st, Fit(st)
  PROVE  LET u == StopTimers(Finish(st, "cancelled")) IN Moves(st, u) /\ (Spoken(st) => Spoken(u))
<1> DEFINE f == Finish(st, "cancelled")
           a == StopASRWait(f)
           b == DisarmEndOfTurn(a)
           u == StopTimers(f)
<1>1. "cancelled" \in FinalStatuses
  BY DEF FinalStatuses
<1>2. Moves(st, f) /\ Turned(st, f) /\ Fit(f) /\ Good(f) /\ SessionOK(f)
  BY <1>1, FinishMoves, MovesFit DEF Fit, Good
<1>3. Good(u) /\ u = DropDeferredTrigger(b)
  BY CleanupGood DEF Fit, GoodStep, StopTimers
<1> HIDE DEF f
<1>4. SessionOK(a) /\ Silent(f, a) /\ Turned(f, a)
  BY <1>2, TimersSilent, StopASRWaitOK
<1> HIDE DEF a
<1>5. SessionOK(b) /\ Silent(a, b) /\ b.turn = a.turn /\ b.speechItem = a.speechItem
  BY <1>4, TimersSilent, DisarmOK DEF DisarmEndOfTurn, SessionOK
<1> HIDE DEF b
<1>6. SessionOK(u) /\ Silent(b, u) /\ Turned(b, u)
  BY <1>3, <1>5, TimersSilent DEF Good
<1> HIDE DEF u
<1>7. Silent(f, b)
  BY <1>2, <1>4, <1>5, SilentTrans
<1>8. Silent(f, u)
  BY <1>2, <1>5, <1>6, <1>7, SilentTrans
<1>9. Moves(st, u)
  BY <1>2, <1>3, <1>8, SilentMoves, MovesTrans
<1>10. Spoken(st) => Spoken(b)
  BY <1>2, <1>4, <1>5 DEF Turned, Spoken
<1>11. Spoken(st) => Spoken(u)
  BY <1>6, <1>10, TurnedWaits
<1> QED BY <1>9, <1>11 DEF u, f

-----------------------------------------------------------------------------
(* What the client knows, against the view x it would have if no event had been lost:  *)
(* it knows no more, and of what it knows nothing is behind the last event about it     *)
(* in a way that the next one could contradict.                                         *)
Lag(v, x) ==
  /\ Known(v) /\ Known(x)
  /\ DOMAIN v.resp \subseteq DOMAIN x.resp /\ DOMAIN v.item \subseteq DOMAIN x.item
  /\ \A r \in DOMAIN v.resp : x.resp[r] = "in_progress" => v.resp[r] = "in_progress"
  /\ \A i \in DOMAIN v.item : x.item[i] = "added" => v.item[i] = "added"
  /\ \A i \in DOMAIN v.item : x.item[i] # "deleted" => v.item[i] # "deleted"

(* What is in st.out leads from what the client was told to the actor's state. *)
Synced(v, st, c) ==
  \E x, w : Lag(v, x) /\ (c = "open" => v = x) /\ Reaches(x, st.out, w) /\ InStep(st, w)

(* The invariant of the event stream. *)
Upheld(st, v, c, p) ==
  Linked(st) /\ Spoken(st) /\ (p = "run" => Timed(st)) /\ Synced(v, st, c)
CInv == IInv /\ Upheld(s, view, ctx, phase)

\* A view is no further than itself.
LEMMA LagSelf == ASSUME NEW v, Known(v) PROVE Lag(v, v)
BY DEF Lag

\* Every event leaves a view a view.
LEMMA ToldKnown ==
  ASSUME NEW v, Known(v), NEW e \in Events PROVE Known(Told(v, e))
<1>1. CASE e.type \in {"response.created", "response.done"}
  BY <1>1, ToldResp
<1>2. CASE e.type \in {"item.added", "item.done", "output_item.done", "item.deleted"}
  BY <1>2, ToldItem
<1>3. CASE e.type = "output_item.added"
  BY <1>3, ToldOutput
<1>4. CASE e.type \in {"delta", "audio.delta", "arguments.done"}
  BY <1>4, ToldDelta
<1>5. CASE Quiet(e)
  BY <1>5, ToldQuiet
<1>6. e.type \in EventTypes
  BY DEF Events
<1> QED BY <1>1, <1>2, <1>3, <1>4, <1>5, <1>6 DEF EventTypes, Quiet, QuietTypes

\* An event that is told to both, or lost to the client.
LEMMA LagTold ==
  ASSUME NEW v, NEW x, Lag(v, x), NEW e \in Events, Allowed(x, e)
  PROVE  Lag(Told(v, e), Told(x, e)) /\ Lag(v, Told(x, e))
<1> DEFINE v2 == Told(v, e)
           x2 == Told(x, e)
<1> SUFFICES Lag(v2, x2) /\ Lag(v, x2)
  OBVIOUS
<1>0. Known(v) /\ Known(x) /\ Known(v2) /\ Known(x2)
  BY ToldKnown DEF Lag
<1>1. CASE e.type \in {"response.created", "response.done"}
  <2> DEFINE m == IF e.type = "response.done" THEN e.info ELSE "in_progress"
             k == e.resp
  <2>1. /\ v2.item = v.item /\ v2.resp = Put(v.resp, k, m)
        /\ x2.item = x.item /\ x2.resp = Put(x.resp, k, m)
    BY <1>0, <1>1, ToldResp
  <2>2. k \in DOMAIN v.resp => m # "in_progress"
    BY <1>1 DEF Allowed, Lag, FinalStatuses
  <2> HIDE DEF m, k, v2, x2
  <2>3. /\ DOMAIN v.resp \subseteq DOMAIN x.resp
        /\ \A r \in DOMAIN v.resp : x.resp[r] = "in_progress" => v.resp[r] = "in_progress"
    BY DEF Lag
  <2>4. /\ DOMAIN v2.resp \subseteq DOMAIN x2.resp
        /\ \A r \in DOMAIN v2.resp : x2.resp[r] = "in_progress" => v2.resp[r] = "in_progress"
    BY <2>1, <2>3 DEF Put
  <2>5. /\ DOMAIN v.resp \subseteq DOMAIN x2.resp
        /\ \A r \in DOMAIN v.resp : x2.resp[r] = "in_progress" => v.resp[r] = "in_progress"
    BY <2>1, <2>2, <2>3 DEF Put
  <2> QED BY <1>0, <2>1, <2>4, <2>5 DEF Lag
<1>2. CASE e.type \in {"item.added", "item.done", "output_item.done", "item.deleted", "output_item.added"}
  <2> DEFINE m == IF e.type = "output_item.added" THEN "added" ELSE ItemMark(e)
             k == e.item
  <2>1. /\ v2.resp = v.resp /\ v2.item = Put(v.item, k, m)
        /\ x2.resp = x.resp /\ x2.item = Put(x.item, k, m)
    <3>1. CASE e.type = "output_item.added"
      BY <1>0, <3>1, ToldOutput
    <3>2. CASE e.type # "output_item.added"
      BY <1>0, <1>2, <3>2, ToldItem
    <3> QED BY <3>1, <3>2
  <2>2. k \in DOMAIN v.item => m # "added" /\ (m # "deleted" => v.item[k] # "deleted")
    <3>1. ASSUME k \in DOMAIN v.item, m = "added" PROVE FALSE
      <4>1. k \notin DOMAIN x.item
        BY <1>2, <3>1 DEF Allowed, ItemMark
      <4> QED BY <3>1, <4>1 DEF Lag
    <3>2. ASSUME k \in DOMAIN v.item, m # "deleted" PROVE v.item[k] # "deleted"
      <4>1. e.type \in {"item.done", "output_item.done"}
        BY <1>2, <3>1, <3>2 DEF ItemMark
      <4>2. x.item[k] = "added"
        BY <4>1 DEF Allowed, IsOpen
      <4> QED BY <3>2, <4>2 DEF Lag
    <3> QED BY <3>1, <3>2
  <2> HIDE DEF m, k, v2, x2
  <2>3. /\ DOMAIN v.item \subseteq DOMAIN x.item
        /\ \A i \in DOMAIN v.item : x.item[i] = "added" => v.item[i] = "added"
        /\ \A i \in DOMAIN v.item : x.item[i] # "deleted" => v.item[i] # "deleted"
    BY DEF Lag
  <2>4. /\ DOMAIN v2.item \subseteq DOMAIN x2.item
        /\ \A i \in DOMAIN v2.item : x2.item[i] = "added" => v2.item[i] = "added"
        /\ \A i \in DOMAIN v2.item : x2.item[i] # "deleted" => v2.item[i] # "deleted"
    BY <2>1, <2>3 DEF Put
  <2>5. /\ DOMAIN v.item \subseteq DOMAIN x2.item
        /\ \A i \in DOMAIN v.item : x2.item[i] = "added" => v.item[i] = "added"
        /\ \A i \in DOMAIN v.item : x2.item[i] # "deleted" => v.item[i] # "deleted"
    BY <2>1, <2>2, <2>3 DEF Put
  <2> QED BY <1>0, <2>1, <2>4, <2>5 DEF Lag
<1>3. CASE e.type \in {"delta", "audio.delta", "arguments.done"}
  <2>1. v2.resp = v.resp /\ v2.item = v.item /\ x2.resp = x.resp /\ x2.item = x.item
    BY <1>0, <1>3, ToldDelta
  <2> QED BY <1>0, <2>1 DEF Lag
<1>4. CASE Quiet(e)
  <2>1. v2 = v /\ x2 = x
    BY <1>4, ToldQuiet
  <2> QED BY <2>1
<1>5. e.type \in EventTypes
  BY DEF Events
<1> QED BY <1>1, <1>2, <1>3, <1>4, <1>5 DEF EventTypes, Quiet, QuietTypes

\* A handler starts with everything told, and its events lead on.
LEMMA CarrySynced ==
  ASSUME NEW v, NEW st, NEW u, NEW c, NEW d, st.out = <<>>, Synced(v, st, c), Carry(st, u),
         d = "open" => c = "open"
  PROVE  Synced(v, u, d)
<1>1. PICK x, w : Lag(v, x) /\ (c = "open" => v = x) /\ Reaches(x, st.out, w) /\ InStep(st, w)
  BY DEF Synced
<1>2. w = x
  BY <1>1, ReachNoneOnly
<1>3. PICK evs \in Seq(Events) : LeadsBy(st, evs, u)
  BY DEF Carry, Leads
<1>4. u.out = evs
  <2>1. u.out = <<>> \o evs
    BY <1>3 DEF LeadsBy
  <2> QED BY <2>1
<1>5. PICK y : Reaches(x, evs, y) /\ InStep(u, y)
  BY <1>1, <1>2, <1>3 DEF LeadsBy
<1> QED BY <1>1, <1>4, <1>5 DEF Synced

\* A handler keeps the invariant of the event stream.
LEMMA ServesUpheld ==
  ASSUME NEW v, NEW st, NEW u, NEW c, NEW d, st.out = <<>>, Upheld(st, v, c, "run"), Serves(st, u),
         d = "open" => c = "open"
  PROVE  Upheld(u, v, d, "run")
<1>1. Waits(st)
  BY DEF Upheld, Waits
<1>2. Carry(st, u) /\ Waits(u)
  BY <1>1 DEF Serves, Moves
<1>3. Synced(v, u, d)
  BY <1>2, CarrySynced DEF Upheld
<1> QED BY <1>2, <1>3 DEF Upheld, Waits, Carry

\* cleanup keeps it.
LEMMA CleanupUpheld ==
  ASSUME NEW v, NEW st, NEW c, Good(st), st.out = <<>>, Upheld(st, v, c, "run")
  PROVE  Upheld(StopTimers(Finish(st, "cancelled")), v, "done", "cleanup")
<1> DEFINE u == StopTimers(Finish(st, "cancelled"))
<1>1. Fit(st)
  BY DEF Fit, Upheld
<1>2. Moves(st, u) /\ (Spoken(st) => Spoken(u))
  BY <1>1, CleanupMoves
<1> HIDE DEF u
<1>3. Synced(v, u, "done")
  BY <1>2, CarrySynced DEF Upheld, Moves
<1>4. Upheld(u, v, "done", "cleanup")
  BY <1>2, <1>3 DEF Upheld, Moves, Carry
<1> QED BY <1>4 DEF u

\* Handing the next event over: the record loses it, what is left leads on from the view
\* that has it.
LEMMA PopSynced ==
  ASSUME NEW v, NEW st, Good(st), st.out # <<>>, NEW c, NEW d, Synced(v, st, c), d = "open" => c = "open"
  PROVE  LET u == [st EXCEPT !.out = Tail(st.out)]
             e == Head(st.out)
         IN  /\ Synced(Told(v, e), u, d)
             /\ d # "open" => Synced(v, u, d)
             /\ c = "open" => Allowed(v, e)
<1> DEFINE o == Tail(st.out)
           e == Head(st.out)
           u == [st EXCEPT !.out = o]
<1> SUFFICES /\ Synced(Told(v, e), u, d)
             /\ d # "open" => Synced(v, u, d)
             /\ c = "open" => Allowed(v, e)
  OBVIOUS
<1>1. PICK x, w : Lag(v, x) /\ (c = "open" => v = x) /\ Reaches(x, st.out, w) /\ InStep(st, w)
  BY DEF Synced
<1>2. st.out \in Seq(Events) /\ SessionOK(st)
  BY DEF Good, SessionOK
<1>3. e \in Events
  BY <1>2
<1>4. Allowed(x, e) /\ Reaches(Told(x, e), o, w)
  BY <1>1, <1>2, ReachHead
<1> HIDE DEF o, e
<1>5. u.out = o /\ u.items = st.items /\ u.nextRef = st.nextRef /\ u.speechItem = st.speechItem
      /\ u.nextResp = st.nextResp /\ u.active = st.active
  BY <1>2 DEF SessionOK
<1> HIDE DEF u
<1>6. InStep(u, w)
  BY <1>1, <1>5 DEF InStep
<1>7. Lag(Told(v, e), Told(x, e)) /\ Lag(v, Told(x, e))
  BY <1>1, <1>3, <1>4, LagTold
<1>8. d = "open" => Told(v, e) = Told(x, e)
  BY <1>1
<1>9. Synced(Told(v, e), u, d)
  BY <1>4, <1>5, <1>6, <1>7, <1>8 DEF Synced
<1>10. d # "open" => Synced(v, u, d)
  BY <1>4, <1>5, <1>6, <1>7 DEF Synced
<1> QED BY <1>1, <1>4, <1>9, <1>10

\* Handing an event over is not about the rest of the record.
LEMMA PopLinked ==
  ASSUME NEW st, Good(st), st.out # <<>>, Linked(st)
  PROVE  LET u == [st EXCEPT !.out = Tail(st.out)]
         IN  Linked(u) /\ (Spoken(st) => Spoken(u)) /\ (Timed(st) => Timed(u))
<1> DEFINE o == Tail(st.out)
           u == [st EXCEPT !.out = o]
<1>1. SessionOK(st) /\ st.nextRef \in Nat /\ Sized(st)
  BY GoodSized DEF Good, SessionOK
<1> HIDE DEF o
<1>2. Kept(st, u) /\ Turned(st, u)
  BY <1>1 DEF SessionOK, Kept, SameItems, SameRefs, Turned, Deferred
<1> HIDE DEF u
<1>3. Linked(u) /\ (Spoken(st) => Spoken(u)) /\ (Timed(st) => Timed(u))
  BY <1>1, <1>2, KeptLinked, TurnedWaits
<1> QED BY <1>3 DEF u, o

-----------------------------------------------------------------------------
(* The specification. *)

\* A new session is in step with a client that knows nothing.
LEMMA InitCInv == Init => CInv
<1> SUFFICES ASSUME Init PROVE CInv
  OBVIOUS
<1>1. IInv
  BY InitIInv
<1>2. PICK td \in TurnDetections, v \in Voices, m \in Modalities : s = InitSession(td, v, m)
  BY DEF Init
<1>3. /\ s.turn = NewTurnManager(td) /\ s.items = <<>> /\ s.nextRef = 0 /\ s.speechItem = 0
      /\ s.pendingItem = 0 /\ s.active = NoResponse /\ s.nextResp = 0 /\ s.eot = FALSE
      /\ s.deferWait = FALSE /\ s.deferItem = 0 /\ s.out = <<>>
  BY <1>2 DEF InitSession
<1>4. s.active.ref = 0 /\ s.active.item = 0
  <2>1. NoResponse.ref = 0 /\ NoResponse.item = 0
    BY DEF NoResponse
  <2> QED BY <1>3, <2>1
<1>5. DOMAIN s.items = {}
  BY <1>3
<1>6. ~s.turn.speaking /\ ~s.turn.pendingEOT
  BY <1>3 DEF NewTurnManager
<1>7. Linked(s)
  BY <1>3, <1>4, <1>5 DEF Linked, PendingIsOpen
<1>8. Spoken(s) /\ Timed(s)
  BY <1>3, <1>6 DEF Spoken, Timed, Deferred
<1>9. Known(view) /\ DOMAIN view.resp = {} /\ DOMAIN view.item = {} /\ DOMAIN view.owner = {}
  BY DEF Init, Known
<1>10. 1..s.nextResp = {}
  BY <1>3
<1>11. InStep(s, view)
  BY <1>4, <1>5, <1>9, <1>10 DEF InStep
<1>12. Reaches(view, s.out, view)
  BY <1>3, ReachNone
<1>13. Synced(view, s, ctx)
  BY <1>9, <1>11, <1>12, LagSelf DEF Synced
<1> QED BY <1>1, <1>7, <1>8, <1>13 DEF CInv, Upheld

\* A handler of the actor loop keeps the invariant.
LEMMA HandleCInv ==
  ASSUME CInv, NEW t, Handle(t), Serves(s, t), IInv' PROVE CInv'
<1>1. /\ s' = t /\ phase = "run" /\ s.out = <<>> /\ phase' = "run" /\ view' = view
      /\ (ctx' = "open" => ctx = "open")
  BY DEF Handle, Idle
<1>2. Upheld(s, view, ctx, "run")
  BY <1>1 DEF CInv
<1>3. Upheld(t, view, ctx', "run")
  BY <1>1, <1>2, ServesUpheld
<1>4. Upheld(s', view', ctx', phase')
  BY <1>1, <1>3
<1> QED BY <1>4 DEF CInv, Upheld, Synced

\* Every client command keeps it.
LEMMA CommandsCInv ==
  ASSUME CInv, IInv',
         \/ HandleUpdate \/ HandleCommit \/ HandleClear \/ HandleItem
         \/ HandleDelete \/ HandleCreate \/ HandleCancel \/ HandleClose
  PROVE  CInv'
<1>1. Fit(s)
  BY DEF CInv, IInv, Upheld, Fit
<1>2. AsrOutcomes \subseteq BOOLEAN
  BY DEF AsrOutcomes
<1>3. s.turn \in Turn /\ s.nextRef \in Nat /\ DOMAIN s.items \subseteq Nat
  BY <1>1 DEF Fit, Good, SessionOK
<1>4. ASSUME NEW kind, NEW t, Command(kind, t), Serves(s, t) PROVE CInv'
  BY <1>4, HandleCInv DEF Command
<1>5. CASE HandleUpdate
  <2>1. PICK hasTD \in BOOLEAN, td \in TurnDetections, v \in Voices, m \in Modalities :
          Command("update", UpdateSession(s, hasTD, td, v, m))
    BY <1>5 DEF HandleUpdate
  <2>2. td \in TurnDetection /\ m \in BOOLEAN
    BY SessionAssumption
  <2>3. Serves(s, UpdateSession(s, hasTD, td, v, m))
    BY <1>1, <2>2, UpdateSessionServes
  <2> QED BY <1>4, <2>1, <2>3
<1>6. CASE HandleCommit
  <2>1. PICK ok \in AsrOutcomes : Command("commit", Decide(s, StepClientCommit(s.turn), ok))
    BY <1>6 DEF HandleCommit
  <2>2. ok \in BOOLEAN
    BY <1>2
  <2>3. Keeps(s.turn, StepClientCommit(s.turn)) /\ Suits(s, StepClientCommit(s.turn))
    BY <1>3, StepKeeps, ClientCommitSuits
  <2>4. Serves(s, Decide(s, StepClientCommit(s.turn), ok))
    BY <1>1, <2>2, <2>3, DecideServes
  <2> QED BY <1>4, <2>1, <2>4
<1>7. CASE HandleClear
  BY <1>1, <1>4, <1>7, ClearAudioServes DEF HandleClear
<1>8. CASE HandleItem
  <2>1. PICK call \in {0} \cup DOMAIN s.items, prev \in 0..s.nextRef :
          Command("item", CreateItem(s, call, prev))
    BY <1>8 DEF HandleItem
  <2>2. call \in Nat /\ prev \in Nat
    BY <1>3
  <2>3. Serves(s, CreateItem(s, call, prev))
    BY <1>1, <2>2, CreateItemServes
  <2> QED BY <1>4, <2>1, <2>3
<1>9. CASE HandleDelete
  <2>1. PICK ref \in 1..s.nextRef : Command("delete", DeleteItem(s, ref))
    BY <1>9 DEF HandleDelete
  <2>2. ref \in Nat
    BY <1>3
  <2>3. Serves(s, DeleteItem(s, ref))
    BY <1>1, <2>2, DeleteItemServes
  <2> QED BY <1>4, <2>1, <2>3
<1>10. CASE HandleCreate
  <2>1. PICK v \in Voices, m \in Modalities : Command("create", CmdCreateResponse(s, v, m))
    BY <1>10 DEF HandleCreate
  <2>2. m \in BOOLEAN
    BY SessionAssumption
  <2>3. Serves(s, CmdCreateResponse(s, v, m))
    BY <1>1, <2>2, ResponseCommandsServe
  <2> QED BY <1>4, <2>1, <2>3
<1>11. CASE HandleCancel
  <2>1. PICK r \in 0..s.nextResp : Command("cancel", CmdCancelResponse(s, r))
    BY <1>11 DEF HandleCancel
  <2>2. PICK v \in Voices : TRUE
    BY SessionAssumption
  <2>3. Serves(s, CmdCancelResponse(s, r))
    BY <1>1, <2>2, ResponseCommandsServe
  <2> QED BY <1>4, <2>1, <2>3
<1>12. CASE HandleClose
  BY <1>1, <1>4, <1>12, CmdCloseServes DEF HandleClose
<1> QED BY <1>5, <1>6, <1>7, <1>8, <1>9, <1>10, <1>11, <1>12

\* Audio, detector, recognizer, pipeline events and timers keep it.
LEMMA InputsCInv ==
  ASSUME CInv, IInv',
         \/ HandleAudio \/ VadEvent \/ HandleASR \/ HandleResponseEvent
         \/ TranscriptTimeout \/ EndOfTurnTimer \/ DeferredTimeout
  PROVE  CInv'
<1>1. Fit(s)
  BY DEF CInv, IInv, Upheld, Fit
<1>2. AsrOutcomes \subseteq BOOLEAN
  BY DEF AsrOutcomes
<1>3. ASSUME NEW t, Handle(t), Serves(s, t) PROVE CInv'
  BY <1>3, HandleCInv
<1>4. CASE HandleAudio
  <2>1. PICK n \in 0..(IF VadEnabled(s.turn) THEN MaxVadBatch ELSE 0), ok \in AsrOutcomes :
          Handle(OnAudio(s, n, ok))
    BY <1>4 DEF HandleAudio
  <2>2. n \in Nat
    BY SessionAssumption
  <2>3. ok \in BOOLEAN
    BY <1>2
  <2>4. Serves(s, OnAudio(s, n, ok))
    BY <1>1, <2>2, <2>3, OnAudioServes
  <2> QED BY <1>3, <2>1, <2>4
<1>5. CASE VadEvent
  <2>1. PICK ok \in AsrOutcomes : s' = OnVadEvent(s, ok)
    BY <1>5 DEF VadEvent
  <2>2. ok \in BOOLEAN
    BY <1>2
  <2>3. /\ phase = "run" /\ s.out = <<>> /\ s.vadq # <<>>
        /\ phase' = "run" /\ view' = view /\ ctx' = ctx
    BY <1>5 DEF VadEvent
  <2>4. Serves(s, s')
    BY <1>1, <2>1, <2>2, <2>3, OnVadEventServes
  <2>5. Upheld(s, view, ctx, "run")
    BY <2>3 DEF CInv
  <2>6. Upheld(s', view, ctx, "run")
    BY <2>3, <2>4, <2>5, ServesUpheld
  <2>7. Upheld(s', view', ctx', phase')
    BY <2>3, <2>6
  <2> QED BY <2>7 DEF CInv, Upheld, Synced
<1>6. CASE HandleASR
  <2>1. ASSUME NEW text \in Partials, Handle(OnPartial(s, text)) PROVE CInv'
    <3>1. text \in Texts
      BY SessionAssumption
    <3> QED BY <1>1, <1>3, <2>1, <3>1, OnPartialServes
  <2>2. ASSUME NEW f \in Finals, NEW ok \in AsrOutcomes, Handle(OnFinal(s, f[1], f[2], ok))
        PROVE  CInv'
    <3>1. f[1] \in Texts /\ f[2] \in BOOLEAN /\ ok \in BOOLEAN
      BY <1>2, SessionAssumption
    <3> QED BY <1>1, <1>3, <2>2, <3>1, OnFinalServes
  <2>3. ASSUME NEW ok \in AsrOutcomes, Handle(OnEndOfTurn(s, ok)) PROVE CInv'
    <3>1. ok \in BOOLEAN
      BY <1>2
    <3> QED BY <1>1, <1>3, <2>3, <3>1, OnEndOfTurnServes
  <2>4. ASSUME Handle(Fatal(s)) PROVE CInv'
    BY <1>1, <1>3, <2>4, FatalMoves, TurnedServes
  <2> QED BY <1>6, <2>1, <2>2, <2>3, <2>4 DEF HandleASR
<1>7. CASE HandleResponseEvent
  <2>1. respEvents \in Seq(PipeEvents) /\ respEvents # <<>>
    BY <1>7 DEF CInv, IInv, TypeOK, HandleResponseEvent
  <2>2. Head(respEvents) \in PipeEvents
    BY <2>1
  <2>3. Handle(OnResponseEvent(s, Head(respEvents)))
    BY <1>7 DEF HandleResponseEvent
  <2> QED BY <1>1, <1>3, <2>2, <2>3, OnResponseEventServes
<1>8. CASE TranscriptTimeout
  BY <1>1, <1>3, <1>8, OnTranscriptTimeoutServes DEF TranscriptTimeout
<1>9. CASE EndOfTurnTimer
  <2>1. PICK ok \in AsrOutcomes :
          Handle(Decide([s EXCEPT !.eot = FALSE], StepEndOfTurn(s.turn), ok))
    BY <1>9 DEF EndOfTurnTimer
  <2>2. ok \in BOOLEAN
    BY <1>2
  <2>3. Serves(s, Decide([s EXCEPT !.eot = FALSE], StepEndOfTurn(s.turn), ok))
    BY <1>1, <2>2, EotServes
  <2> QED BY <1>3, <2>1, <2>3
<1>10. CASE DeferredTimeout
  BY <1>1, <1>3, <1>10, OnDeferredTimeoutServes DEF DeferredTimeout
<1> QED BY <1>4, <1>5, <1>6, <1>7, <1>8, <1>9, <1>10

\* Handing events over, losing them and cancelling keep it.
LEMMA EmissionCInv ==
  ASSUME CInv, IInv', Deliver \/ Drop \/ CancelSelf PROVE CInv'
<1> DEFINE e == Head(s.out)
           u == [s EXCEPT !.out = Tail(s.out)]
<1>1. s.out # <<>> /\ Pop
  BY DEF Deliver, Drop, CancelSelf
<1>2. s' = u /\ phase' = phase
  BY <1>1 DEF Pop
<1>3. Good(s) /\ Upheld(s, view, ctx, phase)
  BY DEF CInv, IInv
<1>4. Linked(u) /\ (Spoken(s) => Spoken(u)) /\ (Timed(s) => Timed(u))
  BY <1>1, <1>3, PopLinked DEF Upheld
<1>5. Synced(view, s, ctx)
  BY <1>3 DEF Upheld
<1>6. ASSUME NEW d, d = "open" => ctx = "open"
      PROVE  Synced(Told(view, e), u, d) /\ (d # "open" => Synced(view, u, d))
  BY <1>1, <1>3, <1>5, <1>6, PopSynced
<1> HIDE DEF u
<1>7. Synced(view', u, ctx')
  <2>1. CASE Deliver
    BY <1>6, <2>1 DEF Deliver
  <2>2. CASE Drop
    BY <1>6, <2>2 DEF Drop
  <2>3. CASE CancelSelf
    <3>1. ctx' # "open" /\ view' = view
      BY <2>3 DEF CancelSelf
    <3> QED BY <1>6, <3>1
  <2> QED BY <2>1, <2>2, <2>3
<1>8. Upheld(s', view', ctx', phase')
  BY <1>2, <1>3, <1>4, <1>7 DEF Upheld
<1> QED BY <1>8 DEF CInv, Upheld, Synced

\* A step of a pipeline goroutine is not about what the client sees.
LEMMA PipelineCInv ==
  ASSUME CInv, IInv', PipelineStep PROVE CInv'
<1>1. PICK g \in DOMAIN s.pipes : LLMStage(g) \/ TTSStage(g)
  BY DEF PipelineStep
<1>2. IInv /\ SessionOK(s) /\ Good(s) /\ Sized(s) /\ s.nextRef \in Nat
  BY GoodSized DEF CInv, IInv, Good, SessionOK
<1>3. PICK p \in Pipes : PipeStep(g, p)
  BY <1>1, <1>2, PipelineEffect
<1> DEFINE m == IF Ended(p) THEN Remove(s.pipes, g) ELSE Put(s.pipes, g, p)
<1>4. s' = [s EXCEPT !.pipes = m] /\ UNCHANGED <<ctx, phase, view>>
  BY <1>3 DEF PipeStep
<1> HIDE DEF m
<1>5. Kept(s, s') /\ Turned(s, s') /\ s'.out = s.out
  BY <1>2, <1>4 DEF SessionOK, Kept, SameItems, SameRefs, Turned, Deferred
<1>6. Upheld(s, view, ctx, phase)
  BY DEF CInv
<1>7. Linked(s') /\ \A w : InStep(s, w) => InStep(s', w)
  BY <1>2, <1>5, <1>6, KeptLinked DEF Upheld
<1>8. (Spoken(s) => Spoken(s')) /\ (Timed(s) => Timed(s'))
  BY <1>5, TurnedWaits
<1>9. Synced(view, s', ctx)
  BY <1>5, <1>6, <1>7 DEF Upheld, Synced
<1>10. Upheld(s', view', ctx', phase')
  BY <1>4, <1>6, <1>7, <1>8, <1>9 DEF Upheld
<1> QED BY <1>10 DEF CInv, Upheld, Synced

\* Every step keeps the invariant of the event stream.
LEMMA NextCInv ==
  ASSUME CInv, [Next]_vars PROVE CInv'
<1>1. IInv'
  BY NextIInv DEF CInv
<1>2. Upheld(s, view, ctx, phase)
  BY DEF CInv
<1>3. CASE Handlers
  BY <1>1, <1>3, CommandsCInv, InputsCInv DEF Handlers
<1>4. CASE Deliver \/ Drop \/ CancelSelf
  BY <1>1, <1>4, EmissionCInv
<1>5. ASSUME UNCHANGED <<s, view>>, ctx' = "open" => ctx = "open", phase' = "run" => phase = "run"
      PROVE  CInv'
  <2>1. Upheld(s', view', ctx', phase')
    BY <1>2, <1>5 DEF Upheld, Synced
  <2> QED BY <1>1, <2>1 DEF CInv, Upheld, Synced
<1>6. CASE CancelOutside
  BY <1>5, <1>6 DEF CancelOutside
<1>7. CASE Cleanup
  <2>1. /\ s' = StopTimers(Finish(s, "cancelled")) /\ ctx' = "done" /\ phase' = "cleanup"
        /\ view' = view /\ s.out = <<>> /\ phase = "run"
    BY <1>7 DEF Cleanup, Idle
  <2>2. Upheld(s', view, "done", "cleanup")
    BY <1>2, <2>1, CleanupUpheld DEF CInv, IInv
  <2>3. Upheld(s', view', ctx', phase')
    BY <2>1, <2>2
  <2> QED BY <1>1, <2>3 DEF CInv, Upheld, Synced
<1>8. CASE CloseEvents
  BY <1>5, <1>8 DEF CloseEvents
<1>9. CASE Closed
  BY <1>5, <1>9 DEF Closed, vars
<1>10. CASE PipelineStep
  BY <1>1, <1>10, PipelineCInv
<1>11. CASE UNCHANGED vars
  BY <1>5, <1>11 DEF vars
<1> QED BY <1>3, <1>4, <1>6, <1>7, <1>8, <1>9, <1>10, <1>11 DEF Next

\* The inductive invariant of the event stream, for every value of the constants: the
\* actor's record is linked, and the events not yet told lead from what the client knows
\* to what the actor is.
THEOREM StreamInvariant == Spec => []CInv
BY InitCInv, NextCInv, PTL DEF Spec

\* The item a commit leaves waiting for its transcript stays in the conversation, in
\* progress, until completePendingItem or deleteItem settles it: PendingItemOpen.
THEOREM PendingStaysOpen == Spec => []PendingItemOpen
<1>1. CInv => PendingItemOpen
  BY DEF CInv, Upheld, Linked, PendingItemOpen
<1> QED BY <1>1, StreamInvariant, PTL

\* No message item is left in progress by a response that ended, however it ended
\* (finish, interrupt, failResponse, cleanup): OutputItemOwned.
THEOREM NoItemLeftOpen == Spec => []OutputItemOwned
<1>1. CInv => OutputItemOwned
  BY DEF CInv, Upheld, Linked, OutputItemOwned
<1> QED BY <1>1, StreamInvariant, PTL

\* A turn being spoken or waiting for its end has its announced ref, which no item of the
\* conversation takes (handleSpeechStart, commit): SpeechItemReserved.
THEOREM TurnHasItsRef == Spec => []SpeechItemReserved
<1>1. CInv => SpeechItemReserved
  BY DEF CInv, Upheld, Linked, Spoken, SpeechItemReserved
<1> QED BY <1>1, StreamInvariant, PTL

\* While the actor runs no turn and no deferred trigger waits without a timer
\* (armEndOfTurn, deferTrigger): WaitsAreTimed.
THEOREM NothingWaitsUntimed == Spec => []WaitsAreTimed
<1>1. CInv => WaitsAreTimed
  BY DEF CInv, Upheld, Timed, Deferred, WaitsAreTimed
<1> QED BY <1>1, StreamInvariant, PTL

\* An idle actor with nothing lost has told the client its state exactly: ClientInStep.
THEOREM ClientToldExactly == Spec => []ClientInStep
<1>1. ASSUME CInv, Idle, ctx = "open" PROVE InStep(s, view) /\ Linked(s) /\ Sized(s)
  <2>1. Synced(view, s, ctx) /\ Linked(s) /\ Sized(s)
    BY <1>1, GoodSized DEF CInv, IInv, Upheld
  <2>2. PICK x, w : /\ Lag(view, x) /\ (ctx = "open" => view = x)
                    /\ Reaches(x, s.out, w) /\ InStep(s, w)
    BY <2>1 DEF Synced
  <2>3. s.out = <<>>
    BY <1>1 DEF Idle
  <2>4. w = view
    BY <1>1, <2>2, <2>3, ReachNoneOnly
  <2> QED BY <2>1, <2>2, <2>4
<1>2. CInv => ClientInStep
  <2> SUFFICES ASSUME CInv, Idle, ctx = "open"
               PROVE  /\ \A r \in 1..s.nextResp : r \in DOMAIN view.resp
                      /\ {r \in DOMAIN view.resp : view.resp[r] = "in_progress"} = {s.active.ref} \ {0}
                      /\ \A i \in DOMAIN s.items :
                           i \in DOMAIN view.item /\ (view.item[i] = "done" <=> s.items[i].status # "in_progress")
                      /\ \A i \in DOMAIN view.item : i \notin DOMAIN s.items => view.item[i] = "deleted"
    BY DEF ClientInStep
  <2>1. InStep(s, view) /\ Linked(s) /\ Sized(s)
    BY <1>1
  <2>2. /\ DOMAIN view.resp = 1..s.nextResp
        /\ \A r \in DOMAIN view.resp : view.resp[r] = "in_progress" <=> r = s.active.ref
        /\ \A i \in DOMAIN s.items :
             i \in DOMAIN view.item /\ view.item[i] = IF s.items[i].status = "in_progress" THEN "added" ELSE "done"
        /\ \A i \in DOMAIN view.item : i \in DOMAIN s.items \/ view.item[i] = "deleted"
    BY <2>1, InStepParts
  <2>3. s.active.ref # 0 => s.active.ref \in 1..s.nextResp
    BY <2>1 DEF Linked, Sized
  <2>4. 0 \notin 1..s.nextResp
    OBVIOUS
  <2>5. {r \in DOMAIN view.resp : view.resp[r] = "in_progress"} = {s.active.ref} \ {0}
    BY <2>2, <2>3, <2>4
  <2> QED BY <2>2, <2>5
<1> QED BY <1>2, StreamInvariant, PTL

\* The next event of an open session is allowed where the client is.
LEMMA NextAllowed ==
  ASSUME CInv, s.out # <<>>, ctx = "open" PROVE Allowed(view, Head(s.out))
<1>1. Good(s) /\ Synced(view, s, ctx)
  BY DEF CInv, IInv, Upheld
<1> QED BY <1>1, PopSynced

\* A delta reaches the client only while its response is in progress and its item open,
\* however late the pipeline sent it: DeltasInOrder.
THEOREM DeltasOnlyWhileOpen == Spec => DeltasInOrder
<1> DEFINE e == Head(s.out)
           Open == /\ e.resp \in DOMAIN view.resp /\ view.resp[e.resp] = "in_progress"
                   /\ e.item \in DOMAIN view.item /\ view.item[e.item] = "added"
                   /\ view.owner[e.item] = e.resp
<1>1. ASSUME CInv, DeltaDelivered, ctx = "open" PROVE Open
  <2>1. s.out # <<>> /\ e.type \in {"delta", "audio.delta", "arguments.done"}
    BY <1>1 DEF DeltaDelivered
  <2>2. Allowed(view, e)
    BY <1>1, <2>1, NextAllowed
  <2> HIDE DEF e
  <2> QED BY <2>1, <2>2 DEF Allowed, InProg, IsOpen
<1>2. CInv => [DeltaDelivered /\ ctx = "open" => Open]_vars
  BY <1>1
<1> QED BY <1>2, StreamInvariant, PTL DEF DeltasInOrder

-----------------------------------------------------------------------------
(* The refinement of ClientContract. *)

\* The next event to be handed over, against what the client knows: it is allowed where
\* the client would be with nothing lost, and that is where it is while the session is open.
LEMMA HeadLag ==
  ASSUME CInv, s.out # <<>>
  PROVE  \E x : /\ Lag(view, x) /\ (ctx = "open" => view = x)
                /\ Allowed(x, Head(s.out)) /\ Head(s.out) \in Events
<1>1. Synced(view, s, ctx) /\ s.out \in Seq(Events)
  BY DEF CInv, IInv, Upheld, Good, SessionOK
<1>2. PICK x, w : Lag(view, x) /\ (ctx = "open" => view = x) /\ Reaches(x, s.out, w)
  BY <1>1 DEF Synced
<1>3. Allowed(x, Head(s.out)) /\ Head(s.out) \in Events
  BY <1>1, <1>2, ReachHead
<1> QED BY <1>2, <1>3

\* A lifecycle event about a response is a step of the contract.
LEMMA RespContract ==
  ASSUME NEW x, Lag(view, x), ctx = "open" => view = x, NEW e, Allowed(x, e),
         e.type \in {"response.created", "response.done"},
         view' = Told(view, e), ctx' = ctx
  PROVE  Contract!Next
<1> DEFINE m == IF e.type = "response.done" THEN e.info ELSE "in_progress"
           r == e.resp
<1>1. Known(view) /\ DOMAIN view.resp \subseteq DOMAIN x.resp
      /\ \A k \in DOMAIN view.resp : x.resp[k] = "in_progress" => view.resp[k] = "in_progress"
  BY DEF Lag
<1>2. view'.item = view.item /\ view'.owner = view.owner /\ view'.resp = Put(view.resp, r, m)
  BY <1>1, ToldResp
<1>3. r \in DOMAIN view'.resp
  BY <1>2 DEF Put
<1>4. CASE e.type = "response.created"
  <2>1. r \notin DOMAIN x.resp /\ \A k : ~InProg(x, k)
    BY <1>4 DEF Allowed
  <2>2. r \notin DOMAIN view.resp /\ (ctx # "open" \/ Contract!InProgress = {})
    BY <1>1, <2>1 DEF InProg, Contract!InProgress
  <2>3. view'.resp = Put(view.resp, r, "in_progress")
    BY <1>2, <1>4
  <2>4. Contract!Created(r)
    BY <1>2, <2>2, <2>3 DEF Contract!Created, Contract!Put, Put
  <2> QED BY <1>3, <2>4 DEF Contract!Next
<1>5. CASE e.type = "response.done"
  <2>1. InProg(x, r) /\ m \in FinalStatuses
        /\ \A i \in DOMAIN x.owner : x.owner[i] = r => ~IsOpen(x, i)
    BY <1>5 DEF Allowed
  <2> HIDE DEF m, r
  <2>2. r \in DOMAIN view.resp => r \in Contract!InProgress
    BY <1>1, <2>1 DEF InProg, Contract!InProgress
  <2>3. ctx # "open" \/ (r \in Contract!InProgress /\ Contract!OpenItems(r) = {})
    BY <2>1 DEF InProg, IsOpen, Contract!InProgress, Contract!OpenItems
  <2>4. m \in {"completed", "cancelled", "incomplete", "failed"}
    BY <2>1 DEF FinalStatuses
  <2>5. Contract!Done(r, m)
    BY <1>2, <2>2, <2>3, <2>4 DEF Contract!Done, Contract!Put, Put
  <2> QED BY <1>3, <2>4, <2>5 DEF Contract!Next
<1> QED BY <1>4, <1>5

\* So is one about an item.
LEMMA ItemContract ==
  ASSUME NEW x, Lag(view, x), ctx = "open" => view = x, NEW e, Allowed(x, e),
         e.type \in {"item.added", "item.done", "output_item.done", "item.deleted"},
         view' = Told(view, e), ctx' = ctx
  PROVE  Contract!Next
<1> DEFINE i == e.item
<1>1. /\ Known(view) /\ DOMAIN view.item \subseteq DOMAIN x.item
      /\ \A k \in DOMAIN view.item : x.item[k] = "added" => view.item[k] = "added"
      /\ \A k \in DOMAIN view.item : x.item[k] # "deleted" => view.item[k] # "deleted"
  BY DEF Lag
<1>2. view'.resp = view.resp /\ view'.owner = view.owner /\ view'.item = Put(view.item, i, ItemMark(e))
  BY <1>1, ToldItem
<1>3. i \in DOMAIN view'.item
  BY <1>2 DEF Put
<1>4. CASE e.type = "item.added"
  <2>1. i \notin DOMAIN view.item
    BY <1>1, <1>4 DEF Allowed
  <2>2. view'.item = Put(view.item, i, "added")
    BY <1>2, <1>4 DEF ItemMark
  <2>3. Contract!Added(i)
    BY <1>2, <2>1, <2>2 DEF Contract!Added, Contract!Put, Put
  <2> QED BY <1>3, <2>3 DEF Contract!Next
<1>5. CASE e.type \in {"item.done", "output_item.done"}
  <2>1. IsOpen(x, i) /\ (i \in DOMAIN x.owner => InProg(x, x.owner[i]))
    BY <1>5 DEF Allowed
  <2>2. view'.item = Put(view.item, i, "done")
    BY <1>2, <1>5 DEF ItemMark
  <2> HIDE DEF i
  <2>3. i \in DOMAIN view.item => view.item[i] = "added"
    BY <1>1, <2>1 DEF IsOpen
  <2>4. ctx # "open" \/ (i \in DOMAIN view.item /\ view.item[i] = "added")
    BY <2>1 DEF IsOpen
  <2>5. i \in DOMAIN view.owner => ctx # "open" \/ view.owner[i] \in Contract!InProgress
    BY <2>1 DEF InProg, Contract!InProgress
  <2>6. Contract!ItemDone(i)
    BY <1>2, <2>2, <2>3, <2>4, <2>5 DEF Contract!ItemDone, Contract!Put, Put
  <2> QED BY <1>3, <2>6 DEF Contract!Next
<1>6. CASE e.type = "item.deleted"
  <2>1. /\ i \in DOMAIN x.item /\ x.item[i] # "deleted"
        /\ i \in DOMAIN x.owner => ~InProg(x, x.owner[i]) \/ x.item[i] = "done"
    BY <1>6 DEF Allowed
  <2>2. view'.item = Put(view.item, i, "deleted")
    BY <1>2, <1>6 DEF ItemMark
  <2> HIDE DEF i
  <2>3. i \in DOMAIN view.item => view.item[i] # "deleted"
    BY <1>1, <2>1
  <2>4. ctx # "open" \/ i \in DOMAIN view.item
    BY <2>1
  <2>5. i \in DOMAIN view.owner =>
          ctx # "open" \/ view.owner[i] \notin Contract!InProgress \/ view.item[i] = "done"
    BY <2>1 DEF InProg, Contract!InProgress
  <2>6. Contract!Deleted(i)
    BY <1>2, <2>2, <2>3, <2>4, <2>5 DEF Contract!Deleted, Contract!Put, Put
  <2> QED BY <1>3, <2>6 DEF Contract!Next
<1> QED BY <1>4, <1>5, <1>6

\* And the announcement of an output item.
LEMMA OutputContract ==
  ASSUME NEW x, Lag(view, x), ctx = "open" => view = x, NEW e, Allowed(x, e),
         e.type = "output_item.added",
         view' = Told(view, e), ctx' = ctx
  PROVE  Contract!Next
<1> DEFINE i == e.item
           r == e.resp
<1>1. Known(view) /\ DOMAIN view.item \subseteq DOMAIN x.item
  BY DEF Lag
<1>2. /\ view'.resp = view.resp /\ view'.item = Put(view.item, i, "added")
      /\ view'.owner = Put(view.owner, i, r)
  BY <1>1, ToldOutput
<1>3. i \notin DOMAIN x.item /\ InProg(x, r)
  BY DEF Allowed
<1> HIDE DEF i, r
<1>4. i \in DOMAIN view'.owner /\ view'.owner[i] = r
  BY <1>2 DEF Put
<1>5. i \notin DOMAIN view.item
  BY <1>1, <1>3
<1>6. ctx # "open" \/ r \in Contract!InProgress
  BY <1>3 DEF InProg, Contract!InProgress
<1>7. Contract!OutputAdded(i, r)
  BY <1>2, <1>5, <1>6 DEF Contract!OutputAdded, Contract!Put, Put
<1>8. Contract!OutputAdded(i, view'.owner[i])
  BY <1>4, <1>7
<1> QED BY <1>4, <1>8 DEF Contract!Next


\* Handing an event over is a step of the contract, or not about it.
LEMMA DeliverContract ==
  ASSUME CInv, Deliver PROVE [Contract!Next]_(Contract!vars)
<1> DEFINE e == Head(s.out)
<1>1. s.out # <<>> /\ view' = Told(view, e) /\ ctx' = ctx
  BY DEF Deliver
<1>2. PICK x : Lag(view, x) /\ (ctx = "open" => view = x) /\ Allowed(x, e) /\ e \in Events
  BY <1>1, HeadLag
<1> HIDE DEF e
<1>3. CASE e.type \in {"response.created", "response.done"}
  BY <1>1, <1>2, <1>3, RespContract
<1>4. CASE e.type \in {"item.added", "item.done", "output_item.done", "item.deleted"}
  BY <1>1, <1>2, <1>4, ItemContract
<1>5. CASE e.type = "output_item.added"
  BY <1>1, <1>2, <1>5, OutputContract
<1>6. CASE e.type \in {"delta", "audio.delta", "arguments.done"}
  <2>1. Known(view)
    BY <1>2 DEF Lag
  <2>2. view'.resp = view.resp /\ view'.item = view.item /\ view'.owner = view.owner
    BY <1>1, <1>6, <2>1, ToldDelta
  <2> QED BY <1>1, <2>2 DEF Contract!vars
<1>7. CASE Quiet(e)
  <2>1. view' = view
    BY <1>1, <1>7, ToldQuiet
  <2> QED BY <1>1, <2>1 DEF Contract!vars
<1>8. e.type \in EventTypes
  BY <1>2 DEF Events
<1> QED BY <1>2, <1>3, <1>4, <1>5, <1>6, <1>7, <1>8 DEF EventTypes, Quiet, QuietTypes

\* No other step tells the client anything; the first cancel starts the losing of events.
LEMMA StepContract ==
  ASSUME CInv, [Next]_vars PROVE [Contract!Next]_(Contract!vars)
<1>1. ASSUME view' = view, (ctx' # "open") = (ctx # "open") PROVE UNCHANGED Contract!vars
  BY <1>1 DEF Contract!vars
<1>2. ASSUME view' = view, ctx = "open", ctx' = "late" PROVE Contract!Next
  <2>1. Contract!Close
    BY <1>2 DEF Contract!Close
  <2> QED BY <2>1 DEF Contract!Next
<1>3. ASSUME NEW t, Handle(t) PROVE UNCHANGED Contract!vars
  <2>1. view' = view /\ (ctx' # "open") = (ctx # "open")
    BY <1>3 DEF Handle
  <2> QED BY <1>1, <2>1
<1>4. ASSUME NEW kind, NEW t, Command(kind, t) PROVE UNCHANGED Contract!vars
  BY <1>3, <1>4 DEF Command
<1>5. CASE Handlers
  <2>1. CASE \/ HandleUpdate \/ HandleCommit \/ HandleClear \/ HandleItem
             \/ HandleDelete \/ HandleCreate \/ HandleCancel \/ HandleClose
    BY <1>4, <2>1 DEF HandleUpdate, HandleCommit, HandleClear, HandleItem, HandleDelete,
                      HandleCreate, HandleCancel, HandleClose
  <2>2. CASE \/ HandleAudio \/ HandleASR \/ HandleResponseEvent
             \/ TranscriptTimeout \/ EndOfTurnTimer \/ DeferredTimeout
    BY <1>3, <2>2 DEF HandleAudio, HandleASR, HandleResponseEvent,
                      TranscriptTimeout, EndOfTurnTimer, DeferredTimeout
  <2>3. CASE VadEvent
    BY <1>1, <2>3 DEF VadEvent
  <2> QED BY <1>5, <2>1, <2>2, <2>3 DEF Handlers
<1>6. CASE Deliver
  BY <1>6, DeliverContract
<1>7. CASE Drop
  BY <1>1, <1>7 DEF Drop
<1>8. CASE CancelSelf
  <2>1. view' = view /\ ctx' = IF ctx = "open" THEN "late" ELSE ctx
    BY <1>8 DEF CancelSelf
  <2> QED BY <1>1, <1>2, <2>1
<1>9. CASE CancelOutside
  BY <1>2, <1>9 DEF CancelOutside
<1>10. CASE Cleanup
  <2>1. view' = view /\ ctx # "open" /\ ctx' = "done"
    BY <1>10 DEF Cleanup
  <2> QED BY <1>1, <2>1
<1>11. CASE CloseEvents
  BY <1>1, <1>11 DEF CloseEvents
<1>12. CASE Closed \/ UNCHANGED vars
  BY <1>1, <1>12 DEF Closed, vars
<1>13. CASE PipelineStep
  <2>1. PICK g : LLMStage(g) \/ TTSStage(g)
    BY <1>13 DEF PipelineStep
  <2>2. view' = view /\ ctx' = ctx
    BY <2>1 DEF LLMStage, TTSStage, PipeStep
  <2> QED BY <1>1, <2>2
<1> QED BY <1>5, <1>6, <1>7, <1>8, <1>9, <1>10, <1>11, <1>12, <1>13 DEF Next

\* The session keeps the contract with the consumer of its event stream, for every value of
\* the constants: every event emit hands over is a step ClientContract allows at that point
\* (a response is created alone and done once with its items closed, an item is added once
\* and done at most once), through barge-in, failure, timeouts and close.
THEOREM KeepsContract == Spec => ContractSpec
<1>1. Init => Contract!Init
  BY DEF Init, Contract!Init
<1>2. CInv /\ [Next]_vars => [Contract!Next]_(Contract!vars)
  BY StepContract
<1> QED BY <1>1, <1>2, StreamInvariant, PTL DEF Spec, ContractSpec, Contract!Spec

=============================================================================
