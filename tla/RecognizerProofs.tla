--------------------------- MODULE RecognizerProofs ---------------------------
(***************************************************************************)
(* Theorems about Recognizer: no speech is lost to its turn, and what the  *)
(* recognizer reports lies on the timeline of the pushed audio, for any    *)
(* sequence of calls, any capacity of the queues, any number of tasks and  *)
(* keep-alive frames, and any delay of the service.                        *)
(***************************************************************************)
EXTENDS Recognizer, FiniteSetTheorems, TLAPS

(* ---- types ---------------------------------------------------------------- *)

\* What the reader makes of the service's frames: a plain event, or a transcript.
PlainEvents == [kind : {"partial", "final", "eot", "error"}]
Transcripts == [kind : {"partial", "final"}, start : Int, end : Int, first : Int, last : Int, late : BOOLEAN]

\* A transcript that is not late starts and ends with its frames.
OnTime(e) ==
    ~e.late => /\ e.start = e.first - 1
               /\ e.end = IF e.kind = "final" THEN e.last ELSE e.start
GoodEvents == PlainEvents \cup {e \in Transcripts : OnTime(e)}

LifeFrames == [k : {"started", "finished"}, task : Nat]
FailFrames == [k : {"failed"}]
ResultFrames == [k : {"result"}, final : BOOLEAN, begin : Int, end : Int, first : Int, last : Int, task : Nat]
CtlFrames == LifeFrames \cup FailFrames
QwenFrames == CtlFrames \cup ResultFrames
DgFrames == [k : {"error", "utteranceEnd"}]
            \cup [k : {"results"}, final : BOOLEAN, text : BOOLEAN, from : BOOLEAN, speech : BOOLEAN]

EmitTodos == [do : {"emit"}, what : GoodEvents]
TellTodos == [do : {"tell"}, what : CtlFrames]
Todos == EmitTodos \cup TellTodos

Callers ==
    [pc : {"open", "ask", "close", "send", "wait", "join", "closed"}, pushed : Nat, owed : BOOLEAN]
Readers == [pc : {"read", "todo", "exit", "done"}, todo : Seq(Todos), last : BOOLEAN]

\* A Finalize: the frames pushed before it.
Requests == Nat \cup {Nobody}

Endings == [task : Nat, heard : Seq(Nat)]
Nets(frames) ==
    [down : Seq(frames), lost : {"no", "normal", "error"}, on : BOOLEAN, task : Nat, heard : Seq(Nat),
     ending : Seq(Endings), stray : BOOLEAN]
Writers ==
    [pc : {"start", "run", "answer", "timeout", "restart", "done"}, started : BOOLEAN, finalizing : BOOLEAN,
     pending : Requests, sent : Nat, pad : Nat, closeSent : BOOLEAN,
     task : Nat, total : Nat, mark : Nat, dropped : BOOLEAN, misled : BOOLEAN]
Gaps == [at : Nat, ms : Nat]
Lines == [base : Nat, gaps : Seq(Gaps), ack : BOOLEAN]

(* What holds of both streams: every event on its way to the session is on     *)
(* time.                                                                       *)
StreamOK ==
    /\ kind \in {"qwen", "deepgram"} /\ ctx \in BOOLEAN
    /\ caller \in Callers
    /\ in \in Seq(Nat)
    /\ events \in [q : Seq(GoodEvents), closed : BOOLEAN]
    /\ reader \in Readers /\ (reader.pc = "todo" => reader.todo # <<>>)

DeepgramOK ==
    /\ ctl \in Seq({"finalize", "close"}) /\ net \in Nets(DgFrames)
    /\ \A i \in 1..Len(reader.todo) : reader.todo[i].do = "emit"

QwenTypeOK ==
    /\ ctl \in Seq(CtlFrames) /\ net \in Nets(QwenFrames) /\ writer \in Writers
    /\ finalize \in Requests /\ line \in Lines
    /\ caller.pc \notin {"ask", "send"}

(* ---- the inductive invariant of Qwen's stream -------------------------------- *)

Alive == writer.pc # "done"

\* The frames pushed are those written and those queued, in order; a Finalize
\* stands for frames that have been pushed.
Counted ==
    /\ writer.pc = "done" => ctx
    /\ writer.mark <= writer.total
    /\ finalize # Nobody => finalize <= caller.pushed
    /\ writer.pending # Nobody => writer.pending <= caller.pushed
    /\ Alive => /\ caller.pushed = writer.total + Len(in)
                /\ \A i \in 1..Len(in) : in[i] = writer.total + i
                /\ line.base + writer.sent = writer.total
                /\ net.task = writer.task
                /\ writer.pc = "start" => ~net.on /\ writer.task = 0 /\ writer.total = 0
                                          /\ ~writer.started /\ ~writer.finalizing
                /\ writer.pc # "start" => net.on = ~writer.finalizing
                /\ writer.pc \in {"timeout", "restart"} => writer.finalizing

\* Position k of the task's audio is the pushed frame v.
OnLine(k, v) == line.base + Unpad(k - 1) = v - 1 /\ line.base + Unpad(k) = v

PlacedIn(heard) ==
    \A k \in 1..Len(heard) : heard[k] # 0 => k <= writer.sent + writer.pad /\ OnLine(k, heard[k])

PlacedResult(f) ==
    /\ 0 <= f.begin /\ f.begin <= writer.sent + writer.pad /\ 0 <= f.end /\ f.end <= writer.sent + writer.pad
    /\ line.base + Unpad(f.begin) = f.first - 1 /\ line.base + Unpad(f.end) = f.last

\* What the service has heard in the current task, and what it says of it, is
\* where the gaps say it is.
Timeline ==
    Alive =>
    /\ writer.pad = KeepAliveMs * Len(line.gaps)
    /\ \A i \in 1..Len(line.gaps) :
          line.gaps[i].ms = KeepAliveMs /\ line.gaps[i].at + KeepAliveMs <= writer.sent + writer.pad
    /\ net.on => Len(net.heard) = writer.sent + writer.pad
    /\ PlacedIn(net.heard)
    /\ \A i \in 1..Len(net.ending) :
          net.ending[i].task <= writer.task /\ (net.ending[i].task = writer.task => PlacedIn(net.ending[i].heard))
    /\ \A i \in 1..Len(net.down) :
          net.down[i].k = "result" =>
            net.down[i].task <= writer.task /\ (net.down[i].task = writer.task => PlacedResult(net.down[i]))


Starteds(seq) == {i \in 1..Len(seq) : seq[i].k = "started"}
Telling == {i \in 1..Len(reader.todo) : reader.todo[i].do = "tell" /\ reader.todo[i].what.k = "started"}
AtMostOne(S) == \A i, j \in S : i = j

\* Unless a late task-finished has misled the writer, one task-started is on its
\* way for a task that has not started and none for one that has; and the
\* current task's end is on its way only if the writer asked for it.
Disciplined ==
    /\ net.stray => writer.misled
    /\ Alive /\ ~writer.misled =>
        /\ writer.finalizing => writer.started
        /\ writer.started => Starteds(net.down) = {} /\ Telling = {} /\ Starteds(ctl) = {}
        /\ writer.pc = "start" => Starteds(net.down) = {} /\ Telling = {} /\ Starteds(ctl) = {}
        /\ AtMostOne(Starteds(net.down)) /\ AtMostOne(Telling) /\ AtMostOne(Starteds(ctl))
        /\ Telling # {} => Starteds(net.down) = {}
        /\ Starteds(ctl) # {} => Starteds(net.down) = {} /\ Telling = {}
        /\ \A i \in 1..Len(net.ending) : net.ending[i].task = writer.task => writer.finalizing
        /\ \A i \in 1..Len(net.down) :
              net.down[i].k = "finished" => net.down[i].task <= writer.task
                                            /\ (net.down[i].task = writer.task => writer.finalizing)
        /\ \A i \in 1..Len(reader.todo) :
              reader.todo[i].do = "tell" /\ reader.todo[i].what.k = "finished" =>
                 reader.todo[i].what.task <= writer.task
                 /\ (reader.todo[i].what.task = writer.task => writer.finalizing)
        /\ \A i \in 1..Len(ctl) :
              ctl[i].k = "finished" => ctl[i].task <= writer.task
                                       /\ (ctl[i].task = writer.task => writer.finalizing)

QwenOK == QwenTypeOK /\ Counted /\ Timeline /\ Disciplined

RInv ==
    /\ StreamOK
    /\ kind = "deepgram" => DeepgramOK
    /\ kind = "qwen" => QwenOK

(* ---- lemmas on the operators ------------------------------------------------- *)

(* The parts of a sequence that has grown, and the first of one that has not.   *)
LEMMA Appended ==
    ASSUME NEW S, NEW q \in Seq(S), NEW y \in S, NEW r, r = Append(q, y)
    PROVE  /\ r \in Seq(S) /\ Len(q) \in Nat /\ Len(r) = Len(q) + 1
           /\ r[Len(r)] = y /\ r[Len(q) + 1] = y /\ \A i \in 1..Len(q) : r[i] = q[i]
OBVIOUS

LEMMA Joined ==
    ASSUME NEW S, NEW q \in Seq(S), NEW s \in Seq(S), NEW r, r = q \o s
    PROVE  /\ r \in Seq(S) /\ Len(q) \in Nat /\ Len(s) \in Nat /\ Len(r) = Len(q) + Len(s)
           /\ \A i \in 1..Len(q) : r[i] = q[i]
           /\ \A i \in 1..Len(r) : i > Len(q) => i - Len(q) \in 1..Len(s) /\ r[i] = s[i - Len(q)]
OBVIOUS

LEMMA First ==
    ASSUME NEW S, NEW q \in Seq(S), q # <<>>
    PROVE  Head(q) = q[1] /\ Head(q) \in S /\ 1 \in 1..Len(q)
OBVIOUS

(* Where a position lies depends on the gaps alone.                             *)
LEMMA UnpadSame ==
    ASSUME line'.gaps = line.gaps, NEW ms
    PROVE  Unpad(ms)' = Unpad(ms)
BY DEF Unpad

(* A silence that is put behind a position does not move it.                   *)
LEMMA UnpadKept ==
    ASSUME line \in Lines, NEW a \in Nat, NEW ms \in Nat, ms <= a,
           line'.gaps = Append(line.gaps, [at |-> a, ms |-> KeepAliveMs])
    PROVE  Unpad(ms)' = Unpad(ms)
<1> DEFINE g == line.gaps
           h == line'.gaps
           before(q) == {i \in 1..Len(q) : ms >= q[i].at + q[i].ms}
           inside(q) == {i \in 1..Len(q) : q[i].at < ms /\ ms < q[i].at + q[i].ms}
<1>1. KeepAliveMs \in Nat /\ KeepAliveMs > 0
  BY AsrAssumption
<1>2. g \in Seq(Gaps)
  BY DEF Lines
<1>3. /\ Len(g) \in Nat /\ Len(h) = Len(g) + 1
      /\ \A i \in 1..Len(g) : h[i] = g[i] /\ g[i] \in Gaps
      /\ h[Len(h)] = [at |-> a, ms |-> KeepAliveMs]
  BY <1>2
<1>4. h[Len(h)].at = a /\ h[Len(h)].ms = KeepAliveMs
  BY <1>3
<1> HIDE DEF g, h
<1>5. before(h) = before(g)
  BY <1>1, <1>3, <1>4 DEF Gaps
<1>6. inside(h) = inside(g)
  BY <1>1, <1>3, <1>4 DEF Gaps
<1>7. \A i \in inside(g) : h[i] = g[i]
  BY <1>3
<1>8. inside(g) # {} => h[CHOOSE i \in inside(g) : TRUE] = g[CHOOSE i \in inside(g) : TRUE]
  BY <1>7
<1> DEFINE U(q) == IF inside(q) = {} THEN ms - KeepAliveMs * Cardinality(before(q))
                   ELSE q[CHOOSE i \in inside(q) : TRUE].at - KeepAliveMs * Cardinality(before(q))
<1>9. Unpad(ms) = U(g) /\ Unpad(ms)' = U(h)
  BY DEF Unpad, g, h
<1> HIDE DEF before, inside
<1>10. U(g) = U(h)
  BY <1>5, <1>6, <1>8
<1> HIDE DEF U
<1> QED
  BY <1>9, <1>10

(* Behind every gap, all of the silence is taken off.                          *)
LEMMA UnpadBehind ==
    ASSUME line \in Lines, NEW ms \in Nat,
           \A i \in 1..Len(line.gaps) : line.gaps[i].at + line.gaps[i].ms <= ms
    PROVE  Unpad(ms) = ms - KeepAliveMs * Len(line.gaps)
<1> DEFINE g == line.gaps
           before == {i \in 1..Len(g) : ms >= g[i].at + g[i].ms}
           inside == {i \in 1..Len(g) : g[i].at < ms /\ ms < g[i].at + g[i].ms}
<1>1. g \in Seq(Gaps)
  BY DEF Lines
<1>2. Len(g) \in Nat /\ \A i \in 1..Len(g) : g[i] \in Gaps
  BY <1>1
<1>3. before = 1..Len(g)
  BY <1>2 DEF Gaps
<1>4. inside = {}
  BY <1>2 DEF Gaps
<1>5. Cardinality(1..Len(g)) = Len(g)
  BY <1>2, FS_Interval
<1>6. Unpad(ms) = IF inside = {} THEN ms - KeepAliveMs * Cardinality(before)
                  ELSE g[CHOOSE i \in inside : TRUE].at - KeepAliveMs * Cardinality(before)
  BY DEF Unpad
<1> HIDE DEF before, inside, g
<1>7. Unpad(ms) = ms - KeepAliveMs * Cardinality(before)
  BY <1>4, <1>6
<1> QED
  BY <1>3, <1>5, <1>7 DEF g

(* What has its place on the timeline keeps it while the task goes on.         *)
LEMMA PlacesKept ==
    ASSUME writer \in Writers, writer' \in Writers, line \in Lines,
           line'.base = line.base,
           \A ms \in Nat : ms <= writer.sent + writer.pad => Unpad(ms)' = Unpad(ms),
           writer.sent + writer.pad <= writer'.sent + writer'.pad
    PROVE  /\ \A heard \in Seq(Nat) : PlacedIn(heard) => PlacedIn(heard)'
           /\ \A f \in ResultFrames : PlacedResult(f) => PlacedResult(f)'
<1>1. writer.sent + writer.pad \in Nat /\ writer'.sent + writer'.pad \in Nat
  BY DEF Writers
<1>2. ASSUME NEW heard \in Seq(Nat), PlacedIn(heard)
      PROVE  PlacedIn(heard)'
  <2> SUFFICES ASSUME NEW k \in 1..Len(heard), heard[k] # 0
               PROVE  k <= writer'.sent + writer'.pad /\ OnLine(k, heard[k])'
    BY DEF PlacedIn
  <2>1. k <= writer.sent + writer.pad /\ OnLine(k, heard[k])
    BY <1>2 DEF PlacedIn
  <2>2. k \in Nat /\ k - 1 \in Nat /\ k - 1 <= writer.sent + writer.pad
    BY <1>1, <2>1
  <2>3. Unpad(k)' = Unpad(k) /\ Unpad(k - 1)' = Unpad(k - 1)
    BY <2>1, <2>2
  <2> QED
    BY <1>1, <2>1, <2>2, <2>3 DEF OnLine
<1>3. ASSUME NEW f \in ResultFrames, PlacedResult(f)
      PROVE  PlacedResult(f)'
  <2>1. f.begin \in Nat /\ f.end \in Nat
    BY <1>3 DEF PlacedResult, ResultFrames
  <2>2. Unpad(f.begin)' = Unpad(f.begin) /\ Unpad(f.end)' = Unpad(f.end)
    BY <1>3, <2>1 DEF PlacedResult
  <2> QED
    BY <1>1, <1>3, <2>1, <2>2 DEF PlacedResult
<1> QED
  BY <1>2, <1>3

(* What the service makes of run-task.                                         *)
LEMMA RunTaken ==
    ASSUME NEW n \in Nets(QwenFrames)
    PROVE  LET r == Take(n, "run") IN
           /\ r \in Nets(QwenFrames)
           /\ r.on = TRUE /\ r.task = n.task + 1 /\ r.heard = <<>> /\ r.ending = n.ending /\ r.stray = n.stray
           /\ r.down = Append(n.down, [k |-> "started", task |-> n.task + 1])
<1> DEFINE f == [k |-> "started", task |-> n.task + 1]
           none == <<>>
           d == Append(n.down, f)
           r == [n EXCEPT !.on = TRUE, !.task = @ + 1, !.heard = none, !.down = d]
<1>1. Take(n, "run") = r
  BY DEF Take
<1>2. n.task + 1 \in Nat /\ n.down \in Seq(QwenFrames)
  BY DEF Nets
<1>3. f \in QwenFrames
  BY <1>2 DEF QwenFrames, CtlFrames, LifeFrames
<1>4. d \in Seq(QwenFrames) /\ none \in Seq(Nat)
  BY <1>2, <1>3
<1> HIDE DEF f, d, none
<1>5. r \in Nets(QwenFrames)
  BY <1>2, <1>4 DEF Nets
<1>6. /\ r.on = TRUE /\ r.task = n.task + 1 /\ r.heard = none /\ r.ending = n.ending /\ r.stray = n.stray
      /\ r.down = d
  BY DEF Nets
<1> HIDE DEF r
<1> QED
  BY <1>1, <1>5, <1>6 DEF f, d, none

(* ... of finish-task: the task ends, with what was heard in it; there may be  *)
(* no task to end.                                                             *)
LEMMA FinishTaken ==
    ASSUME NEW n \in Nets(QwenFrames)
    PROVE  LET r == Take(n, "finish") IN
           /\ r \in Nets(QwenFrames)
           /\ r.on = FALSE /\ r.task = n.task /\ r.stray = n.stray /\ r.down = n.down
           /\ n.on => r.heard = <<>> /\ r.ending = Append(n.ending, [task |-> n.task, heard |-> n.heard])
           /\ ~n.on => r = n
<1> DEFINE e == [task |-> n.task, heard |-> n.heard]
           none == <<>>
           d == Append(n.ending, e)
           r == [n EXCEPT !.on = FALSE, !.heard = none, !.ending = d]
<1>1. ("finish" = "finalize") = FALSE
  OBVIOUS
<1>2. CASE n.on
  <2>1. Take(n, "finish") = r
    BY <1>1, <1>2 DEF Take
  <2>2. e \in Endings
    BY DEF Nets, Endings
  <2>3. d \in Seq(Endings) /\ none \in Seq(Nat)
    BY <2>2 DEF Nets
  <2> HIDE DEF e, d, none
  <2>4. r \in Nets(QwenFrames)
    BY <2>3 DEF Nets
  <2>5. /\ r.on = FALSE /\ r.task = n.task /\ r.stray = n.stray /\ r.down = n.down
        /\ r.heard = none /\ r.ending = d
    BY DEF Nets
  <2> HIDE DEF r
  <2> QED
    BY <1>2, <2>1, <2>4, <2>5 DEF e, d, none
<1>3. CASE ~n.on
  <2>1. Take(n, "finish") = n
    BY <1>3 DEF Take
  <2>2. n.on = FALSE
    BY <1>3 DEF Nets
  <2> QED
    BY <1>3, <2>1, <2>2
<1> QED
  BY <1>2, <1>3

(* ... of audio.                                                               *)
LEMMA AudioTaken ==
    ASSUME NEW n \in Nets(QwenFrames), NEW fs \in Seq(Nat)
    PROVE  LET r == Hear(n, fs) IN
           /\ r \in Nets(QwenFrames)
           /\ r.on = n.on /\ r.task = n.task /\ r.down = n.down /\ r.ending = n.ending
           /\ n.on => r.stray = n.stray /\ r.heard = n.heard \o fs
           /\ ~n.on => r.heard = n.heard
<1> DEFINE r1 == [n EXCEPT !.heard = @ \o fs]
           r2 == [n EXCEPT !.stray = @ \/ fs # <<>>]
<1>1. n.heard \o fs \in Seq(Nat)
  BY DEF Nets
<1>2. (n.stray \/ fs # <<>>) \in BOOLEAN
  BY DEF Nets
<1>3. CASE n.on
  <2>1. Hear(n, fs) = r1
    BY <1>3 DEF Hear
  <2>2. r1 \in Nets(QwenFrames)
    BY <1>1 DEF Nets
  <2>3. /\ r1.on = n.on /\ r1.task = n.task /\ r1.down = n.down /\ r1.ending = n.ending
        /\ r1.stray = n.stray /\ r1.heard = n.heard \o fs
    BY DEF Nets
  <2> HIDE DEF r1
  <2> QED
    BY <1>3, <2>1, <2>2, <2>3
<1>4. CASE ~n.on
  <2>1. Hear(n, fs) = r2
    BY <1>4 DEF Hear
  <2>2. r2 \in Nets(QwenFrames)
    BY <1>2 DEF Nets
  <2>3. r2.on = n.on /\ r2.task = n.task /\ r2.down = n.down /\ r2.ending = n.ending /\ r2.heard = n.heard
    BY DEF Nets
  <2> HIDE DEF r2
  <2> QED
    BY <1>4, <2>1, <2>2, <2>3
<1> QED
  BY <1>3, <1>4

(* ---- a new task ------------------------------------------------------------------ *)

\* The writer's queue of lifecycle frames is left alone, or its first is taken.
CtlTaken == ctl' = ctl \/ (ctl # <<>> /\ ctl' = Tail(ctl))

\* No task-started is on its way, once the step has taken what it takes.
NoneStarting == Starteds(net.down) = {} /\ Telling = {} /\ Starteds(ctl') = {}

(* What is left in the queue was in it.                                        *)
LEMMA CtlLeft ==
    ASSUME ctl \in Seq(CtlFrames), CtlTaken
    PROVE  /\ ctl' \in Seq(CtlFrames)
           /\ \A i \in 1..Len(ctl') : \E j \in 1..Len(ctl) : ctl'[i] = ctl[j]
<1>1. CASE ctl' = ctl
  BY <1>1
<1>2. CASE ctl # <<>> /\ ctl' = Tail(ctl)
  <2>1. Len(ctl') = Len(ctl) - 1 /\ Len(ctl) \in Nat /\ ctl' \in Seq(CtlFrames)
    BY <1>2
  <2>2. \A i \in 1..Len(ctl') : i + 1 \in 1..Len(ctl) /\ ctl'[i] = ctl[i + 1]
    BY <1>2, <2>1
  <2> QED
    BY <2>1, <2>2
<1> QED
  BY <1>1, <1>2 DEF CtlTaken

(* A write that fails ends the writer and the stream's context.                *)
LEMMA WriterLeaves ==
    ASSUME StreamOK, QwenOK, WriterEnds, net' = net, caller' = caller,
           ctl' \in Seq(CtlFrames), finalize' \in {finalize, Nobody}, line' \in Lines
    PROVE  QwenOK'
<1> DEFINE w == [writer EXCEPT !.pc = "done"]
<1>1. writer' = w /\ ctx' = TRUE
  BY DEF WriterEnds
<1>2. writer \in Writers /\ net \in Nets(QwenFrames) /\ finalize \in Requests /\ caller.pc \notin {"ask", "send"}
  BY DEF QwenOK, QwenTypeOK
<1>3. w \in Writers
  BY <1>2 DEF Writers
<1>4. /\ w.pc = "done" /\ w.mark = writer.mark /\ w.total = writer.total /\ w.pending = writer.pending
      /\ w.misled = writer.misled
  BY <1>2 DEF Writers
<1> HIDE DEF w
<1>5. QwenTypeOK'
  BY <1>1, <1>2, <1>3 DEF QwenTypeOK, Requests
<1>6. Counted'
  BY <1>1, <1>4 DEF QwenOK, Counted, Alive
<1>7. Timeline'
  BY <1>1, <1>4 DEF Timeline, Alive
<1>8. Disciplined'
  BY <1>1, <1>4 DEF QwenOK, Disciplined, Alive
<1> QED
  BY <1>5, <1>6, <1>7, <1>8 DEF QwenOK

(* sendRun, in a restart or at the start: nothing of the new task has been     *)
(* heard, and of what is on its way nothing belongs to it but its              *)
(* task-started.                                                               *)
LEMMA RunSent ==
    ASSUME StreamOK, QwenOK, Alive, CtlTaken, NEW w \in Writers,
           w.total = writer.total, w.mark = writer.mark, w.task = writer.task,
           writer.misled => w.misled,
           ~w.misled => NoneStarting,
           SendRun(w, writer.total),
           in' = in, caller' = caller, reader' = reader, finalize' = finalize
    PROVE  QwenOK'
<1> DEFINE r == Take(net, "run")
           none == <<>>
           l == [base |-> writer.total, gaps |-> none, ack |-> TRUE]
           v == [w EXCEPT !.pc = "run", !.started = FALSE, !.finalizing = FALSE, !.pending = Nobody,
                          !.sent = 0, !.pad = 0, !.task = @ + 1]
<1>1. /\ ctl \in Seq(CtlFrames) /\ net \in Nets(QwenFrames) /\ writer \in Writers
      /\ finalize \in Requests /\ line \in Lines /\ caller.pc \notin {"ask", "send"}
  BY DEF QwenOK, QwenTypeOK
<1>2. line' = l /\ WriteThen(r, v)
  BY DEF SendRun
<1>3. l \in Lines /\ l.base = writer.total /\ l.gaps = none /\ none \in Seq(Gaps) /\ Len(none) = 0
  BY <1>1 DEF Lines, Writers
<1>4. /\ ctl' \in Seq(CtlFrames)
      /\ \A i \in 1..Len(ctl') : \E j \in 1..Len(ctl) : ctl'[i] = ctl[j]
  BY <1>1, CtlLeft
<1>a. v \in Writers
  <2>1. w.task + 1 \in Nat
    BY DEF Writers
  <2>2. Nobody \in Requests
    BY DEF Requests
  <2> QED
    BY <2>1, <2>2 DEF Writers
<1>b. /\ v.pc = "run" /\ v.started = FALSE /\ v.finalizing = FALSE /\ v.pending = Nobody
      /\ v.sent = 0 /\ v.pad = 0 /\ v.task = w.task + 1 /\ v.total = w.total /\ v.mark = w.mark
      /\ v.misled = w.misled
  BY DEF Writers
<1> HIDE DEF v
<1>5. /\ v \in Writers /\ v.pc = "run" /\ v.started = FALSE /\ v.finalizing = FALSE /\ v.pending = Nobody
      /\ v.sent = 0 /\ v.pad = 0 /\ v.task = writer.task + 1 /\ v.total = writer.total /\ v.mark = writer.mark
      /\ v.misled = w.misled
  BY <1>a, <1>b
<1>6. /\ r \in Nets(QwenFrames)
      /\ r.on = TRUE /\ r.task = net.task + 1 /\ r.heard = none /\ r.ending = net.ending /\ r.stray = net.stray
      /\ r.down = Append(net.down, [k |-> "started", task |-> net.task + 1])
  BY <1>1, RunTaken
<1> HIDE DEF l, r, none
<1>7. CASE ~CanWrite /\ WriterEnds /\ UNCHANGED net
  BY <1>2, <1>3, <1>4, <1>7, WriterLeaves
<1>8. CASE CanWrite /\ net' = r /\ writer' = v /\ UNCHANGED ctx
  <2>1. writer.task \in Nat /\ KeepAliveMs \in Nat /\ writer.total \in Nat
    BY <1>1, AsrAssumption DEF Writers
  <2>2. QwenTypeOK'
    BY <1>1, <1>2, <1>3, <1>4, <1>5, <1>6, <1>8 DEF QwenTypeOK
  <2>3. Counted'
    <3>1. /\ writer'.pc = "run" /\ writer'.mark = writer.mark /\ writer'.total = writer.total
          /\ writer'.pending = Nobody /\ writer'.sent = 0 /\ writer'.task = writer.task + 1
          /\ writer'.finalizing = FALSE /\ net'.on = TRUE /\ net'.task = net.task + 1
          /\ line'.base = writer.total
      BY <1>2, <1>3, <1>5, <1>6, <1>8
    <3>2. /\ writer.mark <= writer.total /\ (finalize # Nobody => finalize <= caller.pushed)
          /\ caller.pushed = writer.total + Len(in) /\ (\A i \in 1..Len(in) : in[i] = writer.total + i)
          /\ net.task = writer.task
      BY DEF QwenOK, Counted
    <3>3. line'.base + writer'.sent = writer'.total
      BY <2>1, <3>1
    <3> QED
      BY <3>1, <3>2, <3>3 DEF Counted
  <2>4. /\ net.down \in Seq(QwenFrames) /\ net.ending \in Seq(Endings) /\ net.task = writer.task
    BY <1>1 DEF Nets, QwenOK, Counted
  <2>5. /\ Len(net'.down) = Len(net.down) + 1 /\ Len(net.down) \in Nat
        /\ \A i \in 1..Len(net.down) : net'.down[i] = net.down[i]
        /\ net'.down[Len(net'.down)] = [k |-> "started", task |-> writer.task + 1]
    <3> DEFINE f == [k |-> "started", task |-> writer.task + 1]
    <3>1. f \in QwenFrames
      BY <2>1 DEF QwenFrames, CtlFrames, LifeFrames
    <3>2. net'.down = Append(net.down, f)
      BY <1>6, <1>8, <2>4
    <3> HIDE DEF f
    <3>3. /\ Len(net'.down) = Len(net.down) + 1 /\ Len(net.down) \in Nat
          /\ \A i \in 1..Len(net.down) : net'.down[i] = net.down[i]
          /\ net'.down[Len(net'.down)] = f
      BY <2>4, <3>1, <3>2, Appended
    <3> QED
      BY <3>3 DEF f
  <2>6. net'.down[Len(net'.down)].k = "started"
    BY <2>5
  <2>7. Timeline'
    <3>a. Len(line'.gaps) = 0 /\ writer'.pad = 0
      BY <1>2, <1>3, <1>5, <1>8
    <3>1. writer'.pad = KeepAliveMs * Len(line'.gaps)
      BY <2>1, <3>a
    <3>c. \A i \in 1..Len(net.ending) : net.ending[i].task <= writer.task
      BY DEF QwenOK, Timeline
    <3>2. \A i \in 1..Len(net.ending) : net.ending[i].task <= writer.task /\ net.ending[i].task \in Nat
      <4>1. \A i \in 1..Len(net.ending) : net.ending[i] \in Endings
        BY <2>4
      <4>2. \A e \in Endings : e.task \in Nat
        BY DEF Endings
      <4> QED
        BY <3>c, <4>1, <4>2
    <3>3. \A i \in 1..Len(net.down) : net.down[i].k = "result" => net.down[i].task <= writer.task
      BY DEF QwenOK, Timeline
    <3>4. \A i \in 1..Len(net.down) : net.down[i].k = "result" => net.down[i].task \in Nat
      BY <2>4 DEF QwenFrames, CtlFrames, LifeFrames, FailFrames, ResultFrames
    <3>b. net'.heard = none
      BY <1>6, <1>8
    <3>5. Len(net'.heard) = 0
      BY <1>3, <3>b
    <3>6. PlacedIn(net.heard)'
      BY <3>5 DEF PlacedIn
    <3>7. \A i \in 1..Len(net'.ending) : net'.ending[i].task <= writer'.task /\ net'.ending[i].task # writer'.task
      BY <1>5, <1>6, <1>8, <2>1, <3>2
    <3>8. \A i \in 1..Len(net'.down) :
            net'.down[i].k = "result" => net'.down[i].task <= writer'.task /\ net'.down[i].task # writer'.task
      <4> SUFFICES ASSUME NEW i \in 1..Len(net'.down), net'.down[i].k = "result"
                   PROVE  net'.down[i].task <= writer'.task /\ net'.down[i].task # writer'.task
        OBVIOUS
      <4>1. i \in 1..Len(net.down) /\ net'.down[i] = net.down[i]
        BY <2>5, <2>6
      <4> QED
        BY <1>5, <1>8, <2>1, <3>3, <3>4, <4>1
    <3>9. \A i \in 1..Len(line'.gaps) : FALSE
      BY <1>2, <1>3
    <3>10. Len(net'.heard) = writer'.sent + writer'.pad
      BY <1>5, <1>8, <3>5
    <3> QED
      BY <3>1, <3>6, <3>7, <3>8, <3>9, <3>10 DEF Timeline
  <2>8. Disciplined'
    <3>1. net'.stray => writer'.misled
      BY <1>5, <1>6, <1>8 DEF QwenOK, Disciplined
    <3> SUFFICES ASSUME ~writer'.misled
                 PROVE  Disciplined'
      BY <3>1 DEF Disciplined
    <3>2. ~w.misled /\ ~writer.misled /\ NoneStarting
      BY <1>5, <1>8
    <3>3. Starteds(net.down) = {} /\ Telling' = {} /\ Starteds(ctl)' = {}
      BY <3>2 DEF NoneStarting, Telling, Starteds
    <3>4. Starteds(net.down)' = {Len(net'.down)}
      BY <2>5, <2>6, <3>3 DEF Starteds
    <3>5. AtMostOne(Starteds(net.down))' /\ AtMostOne(Telling)' /\ AtMostOne(Starteds(ctl))'
      BY <3>3, <3>4 DEF AtMostOne
    <3>6. writer'.started = FALSE /\ writer'.finalizing = FALSE /\ writer'.pc = "run" /\ writer'.task = writer.task + 1
      BY <1>5, <1>8
    <3>7. \A i \in 1..Len(net'.ending) : net'.ending[i].task # writer'.task
      <4> SUFFICES ASSUME NEW i \in 1..Len(net.ending)
                   PROVE  net.ending[i].task # writer.task + 1
        BY <1>6, <1>8, <3>6
      <4>1. net.ending[i] \in Endings
        BY <2>4
      <4>2. net.ending[i].task \in Nat
        BY <4>1 DEF Endings
      <4>3. net.ending[i].task <= writer.task
        BY DEF QwenOK, Timeline
      <4> QED
        BY <2>1, <4>2, <4>3
    <3>8. \A i \in 1..Len(net'.down) :
            net'.down[i].k = "finished" => net'.down[i].task <= writer'.task /\ net'.down[i].task # writer'.task
      <4> SUFFICES ASSUME NEW i \in 1..Len(net'.down), net'.down[i].k = "finished"
                   PROVE  net'.down[i].task <= writer'.task /\ net'.down[i].task # writer'.task
        OBVIOUS
      <4>1. i \in 1..Len(net.down) /\ net'.down[i] = net.down[i]
        BY <2>5, <2>6
      <4>2. net.down[i].task \in Nat /\ net.down[i].task <= writer.task
        BY <2>4, <3>2, <4>1 DEF QwenOK, Disciplined, QwenFrames, CtlFrames, LifeFrames, FailFrames, ResultFrames
      <4> QED
        BY <2>1, <3>6, <4>1, <4>2
    <3>9. \A i \in 1..Len(reader'.todo) :
              reader'.todo[i].do = "tell" /\ reader'.todo[i].what.k = "finished" =>
                 reader'.todo[i].what.task <= writer'.task /\ reader'.todo[i].what.task # writer'.task
      <4>1. \A i \in 1..Len(reader.todo) : reader.todo[i] \in Todos
        BY DEF StreamOK, Readers
      <4>2. \A i \in 1..Len(reader.todo) : reader.todo[i].do = "tell" /\ reader.todo[i].what.k = "finished" =>
                reader.todo[i].what.task \in Nat
        BY <4>1 DEF Todos, EmitTodos, TellTodos, CtlFrames, LifeFrames, FailFrames
      <4> QED
        BY <2>1, <3>2, <3>6, <4>2 DEF QwenOK, Disciplined
    <3>10. \A i \in 1..Len(ctl') :
              ctl'[i].k = "finished" => ctl'[i].task <= writer'.task /\ ctl'[i].task # writer'.task
      <4> SUFFICES ASSUME NEW j \in 1..Len(ctl), ctl[j].k = "finished"
                   PROVE  ctl[j].task <= writer'.task /\ ctl[j].task # writer'.task
        BY <1>4
      <4>1. ctl[j].task \in Nat
        BY <1>1 DEF CtlFrames, LifeFrames, FailFrames
      <4>2. ctl[j].task <= writer.task
        BY <3>2 DEF QwenOK, Disciplined
      <4> QED
        BY <2>1, <3>6, <4>1, <4>2
    <3> QED
      BY <3>1, <3>3, <3>5, <3>6, <3>7, <3>8, <3>9, <3>10 DEF Disciplined
  <2> QED
    BY <2>2, <2>3, <2>7, <2>8 DEF QwenOK
<1> QED
  BY <1>2, <1>7, <1>8 DEF WriteThen

(* ---- audio, and the end of a task ---------------------------------------------------- *)

(* The writer goes on with its task, or ends it: what is on its way stays in   *)
(* order.                                                                      *)
LEMMA DisciplineKept ==
    ASSUME ctl \in Seq(CtlFrames), CtlTaken, Disciplined, Alive,
           net'.stray => writer'.misled,
           net'.down = net.down, reader' = reader,
           writer'.misled = writer.misled, writer'.task = writer.task, writer'.pc # "start",
           writer.finalizing => writer'.finalizing,
           ~writer.misled /\ writer'.finalizing => writer'.started,
           ~writer.misled /\ writer'.started => NoneStarting,
           \A i \in 1..Len(net'.ending) :
              net'.ending[i].task = writer'.task =>
                 writer'.finalizing \/ (i \in 1..Len(net.ending) /\ net'.ending[i] = net.ending[i])
    PROVE  Disciplined'
<1> SUFFICES ASSUME ~writer.misled
             PROVE  Disciplined'
  BY DEF Disciplined
<1>1. /\ ctl' \in Seq(CtlFrames)
      /\ \A i \in 1..Len(ctl') : \E j \in 1..Len(ctl) : ctl'[i] = ctl[j]
  BY CtlLeft
<1>2. /\ AtMostOne(Starteds(net.down)) /\ AtMostOne(Telling) /\ AtMostOne(Starteds(ctl))
      /\ Telling # {} => Starteds(net.down) = {}
      /\ Starteds(ctl) # {} => Starteds(net.down) = {} /\ Telling = {}
  BY DEF Disciplined
<1>3. Starteds(net.down)' = Starteds(net.down) /\ Telling' = Telling
  BY DEF Starteds, Telling
<1>4. Starteds(ctl') # {} => Starteds(ctl) # {}
  BY <1>1 DEF Starteds
<1>5. AtMostOne(Starteds(ctl'))
  <2>1. CASE ctl' = ctl
    BY <1>2, <2>1
  <2>2. CASE ctl # <<>> /\ ctl' = Tail(ctl)
    <3>1. Len(ctl') = Len(ctl) - 1 /\ Len(ctl) \in Nat
      BY <2>2
    <3>2. \A i \in 1..Len(ctl') : i + 1 \in 1..Len(ctl) /\ ctl'[i] = ctl[i + 1]
      BY <2>2, <3>1
    <3>3. \A i \in Starteds(ctl') : i + 1 \in Starteds(ctl) /\ i \in Nat
      BY <3>1, <3>2 DEF Starteds
    <3> QED
      BY <1>2, <3>3 DEF AtMostOne
  <2> QED
    BY <2>1, <2>2 DEF CtlTaken
<1>6. \A i \in 1..Len(net'.ending) : net'.ending[i].task = writer'.task => writer'.finalizing
  BY DEF Disciplined
<1>7. \A i \in 1..Len(net'.down) :
              net'.down[i].k = "finished" => net'.down[i].task <= writer'.task
                                            /\ (net'.down[i].task = writer'.task => writer'.finalizing)
  BY DEF Disciplined
<1>8. \A i \in 1..Len(reader'.todo) :
              reader'.todo[i].do = "tell" /\ reader'.todo[i].what.k = "finished" =>
                 reader'.todo[i].what.task <= writer'.task
                 /\ (reader'.todo[i].what.task = writer'.task => writer'.finalizing)
  BY DEF Disciplined
<1>9. \A i \in 1..Len(ctl') :
              ctl'[i].k = "finished" => ctl'[i].task <= writer'.task
                                       /\ (ctl'[i].task = writer'.task => writer'.finalizing)
  <2>1. \A j \in 1..Len(ctl) :
              ctl[j].k = "finished" => ctl[j].task <= writer'.task
                                       /\ (ctl[j].task = writer'.task => writer'.finalizing)
    BY DEF Disciplined
  <2> QED
    BY <1>1, <2>1
<1>10. writer'.started => Starteds(net.down)' = {} /\ Telling' = {} /\ Starteds(ctl') = {}
  BY <1>3 DEF NoneStarting
<1>11. Starteds(ctl)' = Starteds(ctl') /\ AtMostOne(Starteds(ctl))' = AtMostOne(Starteds(ctl'))
  BY DEF Starteds, AtMostOne
<1>12. AtMostOne(Starteds(net.down))' /\ AtMostOne(Telling)'
  BY <1>2, <1>3 DEF AtMostOne
<1>13. /\ Telling' # {} => Starteds(net.down)' = {}
       /\ Starteds(ctl)' # {} => Starteds(net.down)' = {} /\ Telling' = {}
  BY <1>2, <1>3, <1>4, <1>11
<1> QED
  BY <1>5, <1>6, <1>7, <1>8, <1>9, <1>10, <1>11, <1>12, <1>13 DEF Disciplined

(* Frames that go out in the task lie behind all of its silence.                *)
LEMMA FramesPlaced ==
    ASSUME QwenTypeOK, writer' \in Writers, Timeline, Alive, net.on, line.base + writer.sent = writer.total,
           NEW fs \in Seq(Nat), \A i \in 1..Len(fs) : fs[i] = writer.total + i,
           NEW h \in Seq(Nat), h = net.heard \o fs,
           line' = line, writer'.sent = writer.sent + Len(fs), writer'.pad = writer.pad
    PROVE  PlacedIn(h)'
<1>1. /\ writer \in Writers /\ line \in Lines /\ net.heard \in Seq(Nat) /\ KeepAliveMs \in Nat /\ Len(fs) \in Nat
  BY AsrAssumption DEF QwenTypeOK, Nets
<1>2. writer.sent \in Nat /\ writer.pad \in Nat /\ line.base \in Nat /\ line.gaps \in Seq(Gaps)
  BY <1>1 DEF Writers, Lines
<1> DEFINE n == writer.sent + writer.pad
<1>3. n \in Nat /\ Len(net.heard) = n /\ writer.pad = KeepAliveMs * Len(line.gaps)
  BY <1>2 DEF Timeline
<1>4. \A ms : Unpad(ms)' = Unpad(ms)
  BY UnpadSame
<1> SUFFICES ASSUME NEW k \in 1..Len(h), h[k] # 0
             PROVE  k <= writer'.sent + writer'.pad /\ OnLine(k, h[k])'
  BY DEF PlacedIn
<1>5. k \in Nat /\ k - 1 \in Nat /\ Len(h) = n + Len(fs)
  BY <1>1, <1>3
<1>6. k <= writer'.sent + writer'.pad
  BY <1>1, <1>2, <1>5
<1>7. OnLine(k, h[k])
  <2>1. CASE k <= n
    <3>1. h[k] = net.heard[k] /\ k \in 1..Len(net.heard)
      BY <1>1, <1>3, <1>5, <2>1
    <3>2. PlacedIn(net.heard)
      BY DEF Timeline
    <3> QED
      BY <3>1, <3>2 DEF PlacedIn
  <2>2. CASE ~(k <= n)
    <3>1. k - n \in 1..Len(fs) /\ h[k] = fs[k - n]
      <4>1. k > n
        BY <1>3, <1>5, <2>2
      <4>2. k > Len(net.heard) => k - Len(net.heard) \in 1..Len(fs) /\ h[k] = fs[k - Len(net.heard)]
        BY <1>1, Joined
      <4> QED
        BY <1>3, <4>1, <4>2
    <3>2. h[k] = writer.total + (k - n)
      BY <3>1
    <3>3. \A i \in 1..Len(line.gaps) : line.gaps[i].ms = KeepAliveMs /\ line.gaps[i].at + KeepAliveMs <= n
      BY DEF Timeline
    <3>4. \A i \in 1..Len(line.gaps) : line.gaps[i].at \in Nat
      <4>1. \A g \in Gaps : g.at \in Nat
        BY DEF Gaps
      <4>2. \A i \in 1..Len(line.gaps) : line.gaps[i] \in Gaps
        BY <1>2
      <4> QED
        BY <4>1, <4>2
    <3> HIDE DEF n
    <3>5. \A i \in 1..Len(line.gaps) : line.gaps[i].at + line.gaps[i].ms <= k - 1
      <4> SUFFICES ASSUME NEW i \in 1..Len(line.gaps)
                   PROVE  line.gaps[i].at + line.gaps[i].ms <= k - 1
        OBVIOUS
      <4>1. line.gaps[i].at \in Nat /\ line.gaps[i].ms = KeepAliveMs /\ line.gaps[i].at + KeepAliveMs <= n
        BY <3>3, <3>4
      <4> QED
        BY <1>1, <1>3, <1>5, <2>2, <4>1
    <3>6. \A i \in 1..Len(line.gaps) : line.gaps[i].at + line.gaps[i].ms <= k
      <4> SUFFICES ASSUME NEW i \in 1..Len(line.gaps)
                   PROVE  line.gaps[i].at + line.gaps[i].ms <= k
        OBVIOUS
      <4>1. line.gaps[i].at \in Nat /\ line.gaps[i].ms = KeepAliveMs /\ line.gaps[i].at + KeepAliveMs <= n
        BY <3>3, <3>4
      <4> QED
        BY <1>1, <1>3, <1>5, <2>2, <4>1
    <3>7. Unpad(k - 1) = k - 1 - KeepAliveMs * Len(line.gaps)
      BY <1>1, <1>5, <3>5, UnpadBehind
    <3>8. Unpad(k) = k - KeepAliveMs * Len(line.gaps)
      BY <1>1, <1>5, <3>6, UnpadBehind
    <3>9. Unpad(k - 1) = k - 1 - writer.pad /\ Unpad(k) = k - writer.pad
      BY <1>3, <3>7, <3>8
    <3>10. writer.total = line.base + writer.sent /\ n = writer.sent + writer.pad
      BY DEF n
    <3>11. \A b, t, q, j \in Nat : (b + t) + (j - (t + q)) = b + j - q
      OBVIOUS
    <3>12. (line.base + writer.sent) + (k - (writer.sent + writer.pad)) = line.base + k - writer.pad
      BY <1>2, <1>5, <3>11
    <3>13. h[k] = line.base + k - writer.pad
      BY <3>2, <3>10, <3>12
    <3>14. \A a, b, c \in Nat : a + (b - 1 - c) = (a + b - c) - 1 /\ a + (b - c) = a + b - c
      OBVIOUS
    <3>15. /\ line.base + (k - 1 - writer.pad) = (line.base + k - writer.pad) - 1
           /\ line.base + (k - writer.pad) = line.base + k - writer.pad
      BY <1>2, <1>5, <3>14
    <3>16. line.base + Unpad(k - 1) = h[k] - 1 /\ line.base + Unpad(k) = h[k]
      BY <3>9, <3>13, <3>15
    <3> QED
      BY <3>16 DEF OnLine
  <2> QED
    BY <2>1, <2>2
<1> QED
  BY <1>4, <1>6, <1>7 DEF OnLine

(* The task goes on, with more in it: results and what was heard keep their     *)
(* places.                                                                     *)
LEMMA TimelineKept ==
    ASSUME QwenTypeOK, QwenTypeOK', Timeline, Alive, line'.base = line.base, line'.gaps = line.gaps,
           writer'.sent >= writer.sent, writer'.pad = writer.pad, writer'.task = writer.task,
           net'.down = net.down,
           net'.on => Len(net'.heard) = writer'.sent + writer'.pad,
           PlacedIn(net.heard)',
           \A i \in 1..Len(net'.ending) :
              \/ i \in 1..Len(net.ending) /\ net'.ending[i] = net.ending[i]
              \/ net'.ending[i].task <= writer.task /\ PlacedIn(net.ending[i].heard)'
    PROVE  Timeline'
<1>1. /\ writer \in Writers /\ writer' \in Writers /\ line \in Lines /\ line' \in Lines
      /\ net \in Nets(QwenFrames)
  BY DEF QwenTypeOK
<1>2. /\ writer.sent \in Nat /\ writer.pad \in Nat /\ writer'.sent \in Nat /\ KeepAliveMs \in Nat
      /\ line.gaps \in Seq(Gaps) /\ net.ending \in Seq(Endings) /\ net.down \in Seq(QwenFrames)
  BY <1>1, AsrAssumption DEF Writers, Lines, Nets
<1>3. /\ \A heard \in Seq(Nat) : PlacedIn(heard) => PlacedIn(heard)'
      /\ \A f \in ResultFrames : PlacedResult(f) => PlacedResult(f)'
  <2>1. \A ms \in Nat : ms <= writer.sent + writer.pad => Unpad(ms)' = Unpad(ms)
    BY UnpadSame
  <2>2. writer.sent + writer.pad <= writer'.sent + writer'.pad
    BY <1>2
  <2> QED
    BY <1>1, <2>1, <2>2, PlacesKept
<1>4. writer'.pad = KeepAliveMs * Len(line'.gaps)
  BY DEF Timeline
<1>5. \A i \in 1..Len(line'.gaps) :
          line'.gaps[i].ms = KeepAliveMs /\ line'.gaps[i].at + KeepAliveMs <= writer'.sent + writer'.pad
  <2> SUFFICES ASSUME NEW i \in 1..Len(line.gaps)
               PROVE  line.gaps[i].ms = KeepAliveMs /\ line.gaps[i].at + KeepAliveMs <= writer'.sent + writer'.pad
    OBVIOUS
  <2>1. line.gaps[i].ms = KeepAliveMs /\ line.gaps[i].at + KeepAliveMs <= writer.sent + writer.pad
    BY DEF Timeline
  <2>2. line.gaps[i] \in Gaps
    BY <1>2
  <2>3. line.gaps[i].at \in Nat
    BY <2>2 DEF Gaps
  <2>4. \A a, b, c, d \in Nat : d >= b /\ a <= b + c => a <= d + c
    OBVIOUS
  <2>5. line.gaps[i].at + KeepAliveMs \in Nat
    BY <1>2, <2>3, SMTT(30)
  <2>6. line.gaps[i].at + KeepAliveMs <= writer'.sent + writer.pad
    BY <1>2, <2>1, <2>4, <2>5
  <2> QED
    BY <2>1, <2>6
<1>6. \A i \in 1..Len(net'.ending) :
          net'.ending[i].task <= writer'.task /\ (net'.ending[i].task = writer'.task => PlacedIn(net.ending[i].heard)')
  <2> SUFFICES ASSUME NEW i \in 1..Len(net'.ending), i \in 1..Len(net.ending), net'.ending[i] = net.ending[i]
               PROVE  net'.ending[i].task <= writer'.task
                      /\ (net'.ending[i].task = writer'.task => PlacedIn(net.ending[i].heard)')
    OBVIOUS
  <2>1. net.ending[i].task <= writer.task /\ (net.ending[i].task = writer.task => PlacedIn(net.ending[i].heard))
    BY DEF Timeline
  <2>2. net.ending[i] \in Endings
    BY <1>2
  <2>3. net.ending[i].heard \in Seq(Nat)
    BY <2>2 DEF Endings
  <2> DEFINE hd == net.ending[i].heard
  <2>4. ASSUME NEW h \in Seq(Nat), h = hd, PlacedIn(h)'
        PROVE  PlacedIn(net.ending[i].heard)'
    BY <2>4 DEF PlacedIn
  <2> QED
    BY <1>3, <2>1, <2>3, <2>4 DEF PlacedIn
<1>7. \A i \in 1..Len(net'.down) :
          net'.down[i].k = "result" =>
            net'.down[i].task <= writer'.task /\ (net'.down[i].task = writer'.task => PlacedResult(net.down[i])')
  <2> SUFFICES ASSUME NEW i \in 1..Len(net.down), net.down[i].k = "result"
               PROVE  net.down[i].task <= writer.task /\ (net.down[i].task = writer.task => PlacedResult(net.down[i])')
    OBVIOUS
  <2>1. net.down[i] \in QwenFrames
    BY <1>2
  <2>2. net.down[i] \in ResultFrames
    BY <2>1 DEF QwenFrames, CtlFrames, LifeFrames, FailFrames, ResultFrames
  <2>3. net.down[i].task <= writer.task /\ (net.down[i].task = writer.task => PlacedResult(net.down[i]))
    BY DEF Timeline
  <2>4. ASSUME NEW f \in ResultFrames, f = net.down[i], PlacedResult(f)'
        PROVE  PlacedResult(net.down[i])'
    BY <2>4 DEF PlacedResult
  <2> QED
    BY <1>3, <2>2, <2>3, <2>4
<1> QED
  BY <1>4, <1>5, <1>6, <1>7 DEF Timeline

\* The queue is in the order of the pushes, and holds what was not yet written.
QueueFacts ==
    /\ writer \in Writers /\ net \in Nets(QwenFrames) /\ line \in Lines /\ finalize \in Requests
    /\ ctl \in Seq(CtlFrames) /\ in \in Seq(Nat) /\ caller.pushed \in Nat
    /\ writer.sent \in Nat /\ writer.pad \in Nat /\ writer.total \in Nat /\ writer.mark \in Nat
    /\ writer.task \in Nat /\ line.base \in Nat /\ net.heard \in Seq(Nat) /\ net.ending \in Seq(Endings)
    /\ net.down \in Seq(QwenFrames) /\ Len(in) \in Nat /\ KeepAliveMs \in Nat
    /\ caller.pc \notin {"ask", "send"}

(* The types that the steps below rest on.                                     *)
LEMMA Typed ==
    ASSUME StreamOK, QwenTypeOK
    PROVE  QueueFacts
<1>1. /\ writer \in Writers /\ net \in Nets(QwenFrames) /\ line \in Lines /\ finalize \in Requests
      /\ ctl \in Seq(CtlFrames) /\ caller.pc \notin {"ask", "send"}
  BY DEF QwenTypeOK
<1>2. in \in Seq(Nat) /\ caller.pushed \in Nat
  BY DEF StreamOK, Callers
<1>3. /\ writer.sent \in Nat /\ writer.pad \in Nat /\ writer.total \in Nat /\ writer.mark \in Nat
      /\ writer.task \in Nat
  BY <1>1 DEF Writers
<1>4. line.base \in Nat
  BY <1>1 DEF Lines
<1>5. net.heard \in Seq(Nat) /\ net.ending \in Seq(Endings) /\ net.down \in Seq(QwenFrames)
  BY <1>1 DEF Nets
<1>6. KeepAliveMs \in Nat /\ Len(in) \in Nat
  BY <1>2, AsrAssumption
<1> QED
  BY <1>1, <1>2, <1>3, <1>4, <1>5, <1>6 DEF QueueFacts

(* beginFinalize: what is queued goes out before the task is ended, so that     *)
(* every frame pushed before the Finalize is in it.                            *)
LEMMA FinalizeBegun ==
    ASSUME StreamOK, QwenOK, writer.pc = "run", CtlTaken, NEW w \in Writers, NEW mark \in Nat,
           mark <= caller.pushed, w = [writer EXCEPT !.started = TRUE],
           ~writer.misled => ~writer.finalizing /\ NoneStarting,
           BeginFinalize(mark, w),
           line' = line, caller' = caller, reader' = reader, finalize' \in {finalize, Nobody}
    PROVE  QwenOK'
<1> DEFINE v == [w EXCEPT !.sent = @ + Len(in), !.total = @ + Len(in), !.mark = mark]
           answered == [v EXCEPT !.pending = Nobody, !.pc = "answer"]
           ended == [v EXCEPT !.finalizing = TRUE]
           n1 == Hear(net, in)
           n2 == Take(n1, "finish")
<1>1. QueueFacts
  BY Typed DEF QwenOK
<1>2. /\ w.sent = writer.sent /\ w.total = writer.total /\ w.pad = writer.pad /\ w.task = writer.task
      /\ w.pc = "run" /\ w.started = TRUE /\ w.misled = writer.misled /\ w.finalizing = writer.finalizing
      /\ w.pending = writer.pending
  BY <1>1 DEF QueueFacts, Writers
<1>3. writer.sent + Len(in) \in Nat /\ writer.total + Len(in) \in Nat /\ Nobody \in Requests
  <2>1. \A i, j \in Nat : i + j \in Nat
    OBVIOUS
  <2>2. Nobody \in Requests
    BY DEF Requests
  <2> QED
    BY <1>1, <2>1, <2>2, Zenon DEF QueueFacts
<1>4. /\ v.sent = writer.sent + Len(in) /\ v.total = writer.total + Len(in) /\ v.mark = mark
      /\ v.pad = writer.pad /\ v.task = writer.task /\ v.pc = "run" /\ v.started = TRUE
      /\ v.misled = writer.misled /\ v.finalizing = writer.finalizing /\ v.pending = writer.pending
  BY <1>2 DEF Writers
<1>5. v \in Writers
  <2> DEFINE a == w.sent + Len(in)
             b == w.total + Len(in)
  <2>1. a \in Nat /\ b \in Nat
    BY <1>2, <1>3
  <2>2. v = [w EXCEPT !.sent = a, !.total = b, !.mark = mark]
    OBVIOUS
  <2> HIDE DEF a, b, v
  <2> QED
    BY <2>1, <2>2 DEF Writers
<1> HIDE DEF v
<1>6. /\ answered \in Writers /\ ended \in Writers
  BY <1>3, <1>5 DEF Writers
<1>7. /\ answered.sent = v.sent /\ answered.total = v.total /\ answered.mark = v.mark
      /\ answered.pad = v.pad /\ answered.task = v.task /\ answered.started = v.started
      /\ answered.misled = v.misled /\ answered.finalizing = v.finalizing
      /\ answered.pending = Nobody /\ answered.pc = "answer"
  BY <1>5 DEF Writers
<1>8. /\ ended.sent = v.sent /\ ended.total = v.total /\ ended.mark = v.mark
      /\ ended.pad = v.pad /\ ended.task = v.task /\ ended.started = v.started
      /\ ended.misled = v.misled /\ ended.finalizing = TRUE
      /\ ended.pending = v.pending /\ ended.pc = v.pc
  BY <1>5 DEF Writers
<1>9. /\ n1 \in Nets(QwenFrames)
      /\ n1.on = net.on /\ n1.task = net.task /\ n1.down = net.down /\ n1.ending = net.ending
      /\ net.on => n1.stray = net.stray /\ n1.heard = net.heard \o in
      /\ ~net.on => n1.heard = net.heard
  BY <1>1, AudioTaken DEF QueueFacts
<1> HIDE DEF n1
<1>10. /\ n2 \in Nets(QwenFrames)
       /\ n2.on = FALSE /\ n2.task = n1.task /\ n2.stray = n1.stray /\ n2.down = n1.down
       /\ n1.on => n2.heard = <<>> /\ n2.ending = Append(n1.ending, [task |-> n1.task, heard |-> n1.heard])
       /\ ~n1.on => n2 = n1
  BY <1>9, FinishTaken
<1>11. /\ in' = <<>>
       /\ IF v.sent + v.pad = 0 THEN writer' = answered /\ UNCHANGED <<net, ctx>> ELSE WriteThen(n2, ended)
  BY DEF BeginFinalize, v, n1
<1> HIDE DEF answered, ended, n2
<1>12. ctl' \in Seq(CtlFrames) /\ finalize' \in Requests
  BY <1>1, CtlLeft DEF QueueFacts, Requests
<1>13. in' \in Seq(Nat) /\ Len(in') = 0
  BY <1>11
<1>14. /\ writer.mark <= writer.total /\ (finalize' # Nobody => finalize' <= caller.pushed)
       /\ (writer.pending # Nobody => writer.pending <= caller.pushed)
       /\ caller.pushed = writer.total + Len(in) /\ (\A i \in 1..Len(in) : in[i] = writer.total + i)
       /\ line.base + writer.sent = writer.total /\ net.task = writer.task /\ net.on = ~writer.finalizing
  BY DEF QwenOK, Counted, Alive
<1>15. Alive /\ Timeline /\ Disciplined /\ QwenTypeOK
  BY DEF Alive, QwenOK
<1>16. line.base + (writer.sent + Len(in)) = writer.total + Len(in)
  <2>1. \A b, i, j \in Nat : b + (i + j) = (b + i) + j
    OBVIOUS
  <2>a. line.base \in Nat /\ writer.sent \in Nat /\ Len(in) \in Nat
    BY <1>1 DEF QueueFacts
  <2>2. line.base + (writer.sent + Len(in)) = (line.base + writer.sent) + Len(in)
    BY <2>1, <2>a, Zenon
  <2>3. line.base + writer.sent = writer.total
    BY <1>14
  <2> QED
    BY <2>2, <2>3
<1>17. CASE v.sent + v.pad = 0
  <2>1. writer' = answered /\ net' = net /\ ctx' = ctx
    BY <1>11, <1>17
  <2>2. QwenTypeOK'
    BY <1>1, <1>6, <1>12, <2>1 DEF QwenTypeOK, QueueFacts
  <2>3. Counted'
    <3>1. /\ writer'.pc = "answer" /\ writer'.total = writer.total + Len(in) /\ writer'.mark = mark
          /\ writer'.sent = writer.sent + Len(in) /\ writer'.task = writer.task /\ writer'.pending = Nobody
          /\ writer'.finalizing = writer.finalizing
      BY <1>4, <1>7, <2>1
    <3>2. caller'.pushed = writer'.total + Len(in')
      BY <1>1, <1>13, <1>14, <3>1 DEF QueueFacts
    <3>3. \A i \in 1..Len(in') : FALSE
      BY <1>13
    <3> QED
      BY <1>14, <1>16, <2>1, <3>1, <3>2, <3>3 DEF Counted
  <2>4. writer'.sent = writer.sent /\ writer'.pad = writer.pad /\ writer'.task = writer.task
    BY <1>1, <1>4, <1>7, <1>17, <2>1 DEF QueueFacts
  <2>5. Timeline'
    <3>1. PlacedIn(net.heard)'
      <4>1. \A ms : Unpad(ms)' = Unpad(ms)
        BY UnpadSame
      <4>2. PlacedIn(net.heard)
        BY <1>15 DEF Timeline
      <4> QED
        BY <2>1, <2>4, <4>1, <4>2 DEF PlacedIn, OnLine
    <3>2. net'.on => Len(net'.heard) = writer'.sent + writer'.pad
      BY <1>15, <2>1, <2>4 DEF Timeline
    <3>3. writer'.sent >= writer.sent
      BY <1>1, <2>4 DEF QueueFacts
    <3> QED
      BY <1>15, <2>1, <2>2, <2>4, <3>1, <3>2, <3>3, TimelineKept
  <2>6. Disciplined'
    <3>1. writer'.misled = writer.misled /\ writer'.pc # "start" /\ writer'.finalizing = writer.finalizing
          /\ writer'.started = TRUE
      BY <1>4, <1>7, <2>1
    <3>2. net'.stray => writer'.misled
      BY <1>15, <2>1, <3>1 DEF Disciplined
    <3> QED
      BY <1>1, <1>15, <2>1, <2>4, <3>1, <3>2, DisciplineKept DEF QueueFacts
  <2> QED
    BY <2>2, <2>3, <2>5, <2>6 DEF QwenOK
<1>18. CASE v.sent + v.pad # 0 /\ ~CanWrite /\ WriterEnds /\ UNCHANGED net
  BY <1>1, <1>12, <1>18, WriterLeaves DEF QueueFacts
<1>19. CASE CanWrite /\ net' = n2 /\ writer' = ended /\ UNCHANGED ctx
  <2>1. /\ writer'.pc = "run" /\ writer'.total = writer.total + Len(in) /\ writer'.mark = mark
        /\ writer'.sent = writer.sent + Len(in) /\ writer'.pad = writer.pad /\ writer'.task = writer.task
        /\ writer'.pending = writer.pending /\ writer'.finalizing = TRUE /\ writer'.started = TRUE
        /\ writer'.misled = writer.misled
    BY <1>4, <1>8, <1>19
  <2>2. QwenTypeOK'
    BY <1>1, <1>6, <1>10, <1>12, <1>19 DEF QwenTypeOK, QueueFacts
  <2>3. Counted'
    <3>1. caller'.pushed = writer'.total + Len(in')
      BY <1>1, <1>13, <1>14, <2>1 DEF QueueFacts
    <3>2. \A i \in 1..Len(in') : FALSE
      BY <1>13
    <3>3. net'.on = FALSE /\ net'.task = net.task
      BY <1>9, <1>10, <1>19
    <3> QED
      BY <1>14, <1>16, <2>1, <3>1, <3>2, <3>3 DEF Counted
  <2>4. writer' \in Writers /\ line'.base = line.base /\ line'.gaps = line.gaps /\ net'.down = net.down
        /\ writer'.sent >= writer.sent
    BY <1>1, <1>6, <1>9, <1>10, <1>19, <2>1 DEF QueueFacts
  <2>5. CASE net.on
    <3> DEFINE h == net.heard \o in
               e == [task |-> net.task, heard |-> h]
    <3>1. net'.heard = <<>> /\ net'.ending = Append(net.ending, e) /\ net'.stray = net.stray /\ net'.on = FALSE
      BY <1>9, <1>10, <1>19, <2>5
    <3>2. h \in Seq(Nat)
      BY <1>1 DEF QueueFacts
    <3>3. ASSUME NEW hh \in Seq(Nat), hh = h
          PROVE  PlacedIn(hh)'
      BY <1>1, <1>14, <1>15, <2>1, <2>4, <2>5, <3>3, FramesPlaced DEF QueueFacts
    <3> HIDE DEF h
    <3>4. /\ Len(net'.ending) = Len(net.ending) + 1 /\ Len(net.ending) \in Nat
          /\ \A i \in 1..Len(net.ending) : net'.ending[i] = net.ending[i]
          /\ net'.ending[Len(net'.ending)] = e
      <4>1. net.task \in Nat /\ net.ending \in Seq(Endings)
        BY <1>1 DEF QueueFacts, Nets
      <4>2. e \in Endings
        BY <3>2, <4>1 DEF Endings
      <4> HIDE DEF e
      <4> QED
        BY <3>1, <4>1, <4>2, Appended
    <3>5. net'.ending[Len(net'.ending)].task = writer.task /\ net'.ending[Len(net'.ending)].heard = h
      BY <1>14, <3>4
    <3>6. Len(net'.heard) = 0
      BY <3>1
    <3>7. PlacedIn(net.heard)'
      BY <3>6 DEF PlacedIn
    <3>8. \A i \in 1..Len(net'.ending) :
              \/ i \in 1..Len(net.ending) /\ net'.ending[i] = net.ending[i]
              \/ net'.ending[i].task <= writer.task /\ PlacedIn(net.ending[i].heard)'
      <4> SUFFICES ASSUME NEW i \in 1..Len(net'.ending), i \notin 1..Len(net.ending)
                   PROVE  net'.ending[i].task <= writer.task /\ PlacedIn(net.ending[i].heard)'
        BY <3>4
      <4>1. i = Len(net'.ending)
        BY <3>4
      <4>2. net'.ending[i].heard = h /\ net'.ending[i].task <= writer.task
        BY <1>1, <3>5, <4>1 DEF QueueFacts
      <4>3. ASSUME NEW hh \in Seq(Nat), hh = h, PlacedIn(hh)'
            PROVE  PlacedIn(net.ending[i].heard)'
        BY <4>2, <4>3 DEF PlacedIn
      <4> QED
        BY <3>2, <3>3, <4>2, <4>3
    <3>9. Timeline'
      BY <1>15, <2>1, <2>2, <2>4, <3>1, <3>7, <3>8, TimelineKept
    <3>10. Disciplined'
      <4>1. net'.stray => writer'.misled
        BY <1>15, <2>1, <3>1 DEF Disciplined
      <4> QED
        BY <1>1, <1>15, <2>1, <2>4, <4>1, DisciplineKept DEF QueueFacts
    <3> QED
      BY <2>2, <2>3, <3>9, <3>10 DEF QwenOK
  <2>6. CASE ~net.on
    <3>1. writer.misled
      BY <1>14, <2>6
    <3>2. net'.heard = net.heard /\ net'.ending = net.ending /\ net'.on = FALSE
      BY <1>9, <1>10, <1>19, <2>6
    <3>3. PlacedIn(net.heard)'
      <4>1. \A ms \in Nat : ms <= writer.sent + writer.pad => Unpad(ms)' = Unpad(ms)
        BY UnpadSame
      <4>2. PlacedIn(net.heard)
        BY <1>15 DEF Timeline
      <4>3. writer.sent + writer.pad <= writer'.sent + writer'.pad
        BY <1>1, <2>1 DEF QueueFacts
      <4>4. \A hd \in Seq(Nat) : PlacedIn(hd) => PlacedIn(hd)'
        BY <1>1, <2>4, <4>1, <4>3, PlacesKept DEF QueueFacts
      <4>5. ASSUME NEW hh \in Seq(Nat), hh = net.heard, PlacedIn(hh)'
            PROVE  PlacedIn(net.heard)'
        BY <3>2, <4>5 DEF PlacedIn
      <4> QED
        BY <1>1, <4>2, <4>4, <4>5 DEF QueueFacts
    <3>4. Timeline'
      BY <1>15, <2>1, <2>2, <2>4, <3>2, <3>3, TimelineKept
    <3>5. Disciplined'
      BY <2>1, <3>1 DEF Disciplined
    <3> QED
      BY <2>2, <2>3, <3>4, <3>5 DEF QwenOK
  <2> QED
    BY <2>5, <2>6
<1> QED
  BY <1>11, <1>17, <1>18, <1>19 DEF WriteThen

(* ---- the writer's steps ------------------------------------------------------------------ *)

(* A step of the writer that sends nothing: it stays in its task.                *)
LEMMA WriterMoves ==
    ASSUME StreamOK, QwenOK, Alive, writer.pc # "start", CtlTaken, writer' \in Writers,
           net' = net, line' = line, in' = in, caller' = caller, reader' = reader,
           finalize' \in {finalize, Nobody}, ctx' = ctx,
           writer'.sent = writer.sent, writer'.pad = writer.pad, writer'.task = writer.task,
           writer'.total = writer.total, writer'.mark = writer.mark, writer'.finalizing = writer.finalizing,
           writer'.misled = writer.misled, writer'.pc \notin {"start", "done"},
           writer'.pc \in {"timeout", "restart"} => writer.finalizing,
           writer'.pending \in {writer.pending, finalize, Nobody},
           ~writer.misled => (writer.started => writer'.started),
           ~writer.misled /\ writer'.started => NoneStarting
    PROVE  QwenOK'
<1>1. QueueFacts
  BY Typed DEF QwenOK
<1>2. Timeline /\ Disciplined /\ Counted /\ QwenTypeOK
  BY DEF QwenOK
<1>3. ctl' \in Seq(CtlFrames) /\ finalize' \in Requests
  BY <1>1, CtlLeft DEF QueueFacts, Requests
<1>4. QwenTypeOK'
  BY <1>1, <1>2, <1>3 DEF QwenTypeOK, QueueFacts
<1>5. Counted'
  BY <1>2 DEF Counted, Alive
<1>6. Timeline'
  <2>1. PlacedIn(net.heard)'
    <3>1. \A ms : Unpad(ms)' = Unpad(ms)
      BY UnpadSame
    <3>2. PlacedIn(net.heard)
      BY <1>2 DEF Timeline
    <3> QED
      BY <3>1, <3>2 DEF PlacedIn, OnLine
  <2>2. writer'.sent >= writer.sent
    BY <1>1 DEF QueueFacts
  <2>3. net'.on => Len(net'.heard) = writer'.sent + writer'.pad
    BY <1>2 DEF Timeline
  <2> QED
    BY <1>2, <1>4, <2>1, <2>2, <2>3, TimelineKept
<1>7. Disciplined'
  <2>1. net'.stray => writer'.misled
    BY <1>2 DEF Disciplined
  <2>2. ~writer.misled /\ writer'.finalizing => writer'.started
    BY <1>2 DEF Disciplined
  <2> QED
    BY <1>1, <1>2, <2>1, <2>2, DisciplineKept DEF QueueFacts
<1> QED
  BY <1>4, <1>5, <1>6, <1>7 DEF QwenOK

\* A task that has started has no task-started on its way.
LEMMA StartedOnce ==
    ASSUME QwenOK, Alive, ctl' = ctl, writer.started \/ writer.pc = "start"
    PROVE  ~writer.misled => NoneStarting
BY DEF QwenOK, Disciplined, NoneStarting

(* run-task, the first.                                                         *)
LEMMA StartsOK ==
    ASSUME StreamOK, QwenOK, WriterStarts
    PROVE  QwenOK'
<1>1. writer.pc = "start" /\ SendRun(writer, 0) /\ ctl' = ctl /\ in' = in /\ finalize' = finalize
      /\ caller' = caller /\ reader' = reader
  BY DEF WriterStarts, WriterAt, WriterFrame
<1>2. Alive /\ CtlTaken /\ writer.total = 0
  BY <1>1 DEF Alive, CtlTaken, QwenOK, Counted
<1>3. writer \in Writers
  BY DEF QwenOK, QwenTypeOK
<1>4. ~writer.misled => NoneStarting
  BY <1>1, <1>2, StartedOnce
<1> QED
  BY <1>1, <1>2, <1>3, <1>4, RunSent

(* The context is done.                                                         *)
LEMMA DoneOK ==
    ASSUME StreamOK, QwenOK, WriterDone
    PROVE  QwenOK'
BY WriterLeaves DEF WriterDone, WriterFrame, QwenOK, QwenTypeOK

(* closeReq.                                                                    *)
LEMMA ClosesOK ==
    ASSUME StreamOK, QwenOK, WriterCloses
    PROVE  QwenOK'
<1> DEFINE w == [writer EXCEPT !.pc = "done", !.closeSent = TRUE]
           n == Take(net, "finish")
<1>1. /\ writer' = w /\ ctx' = TRUE /\ net' = (IF writer.started /\ CanWrite THEN n ELSE net)
      /\ ctl' = ctl /\ finalize' = finalize /\ line' = line /\ caller' = caller /\ writer.pc = "run"
  BY DEF WriterCloses, WriterFrame, WriterAt
<1>2. QueueFacts
  BY Typed DEF QwenOK
<1>3. w \in Writers
  BY <1>2 DEF Writers, QueueFacts
<1>4. /\ w.pc = "done" /\ w.mark = writer.mark /\ w.total = writer.total /\ w.pending = writer.pending
      /\ w.misled = writer.misled
  BY <1>2 DEF Writers, QueueFacts
<1>5. n \in Nets(QwenFrames) /\ n.stray = net.stray
  BY <1>2, FinishTaken DEF QueueFacts
<1> HIDE DEF w, n
<1>6. QwenTypeOK'
  BY <1>1, <1>2, <1>3, <1>5 DEF QwenTypeOK, QueueFacts, QwenOK
<1>7. Counted'
  BY <1>1, <1>4 DEF QwenOK, Counted, Alive
<1>8. Timeline'
  BY <1>1, <1>4 DEF Timeline, Alive
<1>9. Disciplined'
  BY <1>1, <1>4, <1>5 DEF QwenOK, Disciplined, Alive
<1> QED
  BY <1>6, <1>7, <1>8, <1>9 DEF QwenOK

(* A lifecycle frame: task-started, which may find a Finalize pending,          *)
(* task-finished, which starts the next task, task-failed.                     *)
LEMMA ControlOK ==
    ASSUME StreamOK, QwenOK, WriterControl
    PROVE  QwenOK'
<1> DEFINE h == Head(ctl)
           w == [writer EXCEPT !.started = TRUE]
<1>1. /\ writer.pc = "run" /\ ctl # <<>> /\ ctl' = Tail(ctl) /\ finalize' = finalize
      /\ caller' = caller /\ reader' = reader
  BY DEF WriterControl, WriterAt, WriterFrame
<1>2. QueueFacts /\ Alive /\ CtlTaken
  BY <1>1, Typed DEF QwenOK, Alive, CtlTaken
<1>3. h = ctl[1] /\ 1 \in 1..Len(ctl) /\ h \in CtlFrames
  BY <1>1, <1>2 DEF QueueFacts
<1>4. w \in Writers
  BY <1>2 DEF Writers, QueueFacts
<1>5. /\ w.pc = writer.pc /\ w.started = TRUE /\ w.sent = writer.sent /\ w.pad = writer.pad /\ w.task = writer.task
      /\ w.total = writer.total /\ w.mark = writer.mark /\ w.finalizing = writer.finalizing
      /\ w.misled = writer.misled /\ w.pending = writer.pending
  BY <1>2 DEF Writers, QueueFacts
<1>6. CASE h.k = "started"
  <2>1. h.k # "finished" /\ h.k # "failed"
    BY <1>6
  <2>2. line' = line /\ (IF w.pending # Nobody THEN BeginFinalize(w.pending, w)
                         ELSE writer' = w /\ UNCHANGED <<in, net, ctx>>)
    BY <1>6, <2>1 DEF WriterControl
  <2> HIDE DEF w
  <2>3. ~writer.misled => ~writer.finalizing /\ NoneStarting
    <3> SUFFICES ASSUME ~writer.misled
                 PROVE  ~writer.finalizing /\ NoneStarting
      OBVIOUS
    <3>1. 1 \in Starteds(ctl)
      BY <1>3, <1>6 DEF Starteds
    <3>2. Starteds(net.down) = {} /\ Telling = {} /\ AtMostOne(Starteds(ctl)) /\ ~writer.started
          /\ ~writer.finalizing
      BY <1>2, <3>1 DEF QwenOK, Disciplined
    <3>3. Starteds(ctl') = {}
      <4>1. Len(ctl') = Len(ctl) - 1 /\ Len(ctl) \in Nat
        BY <1>1, <1>2 DEF QueueFacts
      <4>2. \A i \in 1..Len(ctl') : i + 1 \in 1..Len(ctl) /\ ctl'[i] = ctl[i + 1]
        BY <1>1, <1>2, <4>1 DEF QueueFacts
      <4>3. \A i \in Starteds(ctl') : i + 1 \in Starteds(ctl) /\ i \in Nat /\ i + 1 # 1
        BY <4>1, <4>2 DEF Starteds
      <4> QED
        BY <3>1, <3>2, <4>3 DEF AtMostOne
    <3> QED
      BY <3>2, <3>3 DEF NoneStarting
  <2>4. CASE w.pending # Nobody
    <3>1. w.pending \in Nat /\ w.pending <= caller.pushed
      BY <1>2, <1>4, <1>5, <2>4 DEF QwenOK, Counted, QueueFacts, Writers, Requests
    <3>2. w = [writer EXCEPT !.started = TRUE]
      BY DEF w
    <3>3. BeginFinalize(w.pending, w)
      BY <2>2, <2>4
    <3> QED
      BY <1>1, <1>2, <1>4, <2>2, <2>3, <3>1, <3>2, <3>3, FinalizeBegun
  <2>5. CASE w.pending = Nobody
    BY <1>1, <1>2, <1>4, <1>5, <2>2, <2>3, <2>5, WriterMoves
  <2> QED
    BY <2>4, <2>5
<1>7. CASE h.k = "finished"
  <2> DEFINE v == [writer EXCEPT !.misled = @ \/ h.task # writer.task]
  <2>1. h.k # "started" /\ h.k # "failed"
    BY <1>7
  <2>2. Restart(v) /\ in' = in
    BY <1>7, <2>1 DEF WriterControl
  <2>3. (writer.misled \/ h.task # writer.task) \in BOOLEAN
    BY <1>2 DEF QueueFacts, Writers
  <2>4. v \in Writers
    BY <1>2, <2>3 DEF Writers, QueueFacts
  <2>5. /\ v.total = writer.total /\ v.mark = writer.mark /\ v.task = writer.task /\ v.sent = writer.sent
        /\ v.misled = (writer.misled \/ h.task # writer.task)
    BY <1>2 DEF Writers, QueueFacts
  <2> HIDE DEF v, w
  <2>6. SendRun(v, writer.total)
    BY <1>2, <2>2, <2>5 DEF Restart, QwenOK, Counted
  <2>7. ~v.misled => NoneStarting
    <3> SUFFICES ASSUME ~v.misled
                 PROVE  NoneStarting
      OBVIOUS
    <3>1. ~writer.misled /\ h.task = writer.task
      BY <2>5
    <3>2. writer.finalizing
      BY <1>2, <1>3, <1>7, <3>1 DEF QwenOK, Disciplined
    <3>3. writer.started
      BY <1>2, <3>1, <3>2 DEF QwenOK, Disciplined
    <3>4. Starteds(net.down) = {} /\ Telling = {} /\ Starteds(ctl) = {}
      BY <1>2, <3>1, <3>3 DEF QwenOK, Disciplined
    <3>5. \A i \in 1..Len(ctl') : \E j \in 1..Len(ctl) : ctl'[i] = ctl[j]
      BY <1>2, CtlLeft DEF QueueFacts
    <3> QED
      BY <3>4, <3>5 DEF NoneStarting, Starteds
  <2> QED
    BY <1>1, <1>2, <2>2, <2>4, <2>5, <2>6, <2>7, RunSent
<1>8. CASE h.k = "failed"
  <2>1. h.k # "started" /\ h.k # "finished"
    BY <1>8
  <2>2. WriterEnds /\ net' = net /\ line' = line
    BY <1>8, <2>1 DEF WriterControl
  <2>3. ctl' \in Seq(CtlFrames) /\ finalize' \in {finalize, Nobody} /\ line' \in Lines
    BY <1>1, <1>2, <2>2, CtlLeft DEF QueueFacts
  <2> QED
    BY <1>1, <2>2, <2>3, WriterLeaves
<1> QED
  BY <1>3, <1>6, <1>7, <1>8 DEF CtlFrames, LifeFrames, FailFrames

(* A Finalize: dropped while the task is being ended, kept for a task that has  *)
(* not started, or the end of the task.                                        *)
LEMMA FinalizesOK ==
    ASSUME StreamOK, QwenOK, WriterFinalizes
    PROVE  QwenOK'
<1> DEFINE w1 == [writer EXCEPT !.dropped = TRUE]
           w2 == [writer EXCEPT !.pending = finalize]
<1>1. /\ writer.pc = "run" /\ finalize # Nobody /\ finalize' = Nobody
      /\ ctl' = ctl /\ line' = line /\ caller' = caller /\ reader' = reader
  BY DEF WriterFinalizes, WriterAt, WriterFrame
<1>2. QueueFacts /\ Alive /\ CtlTaken
  BY <1>1, Typed DEF QwenOK, Alive, CtlTaken
<1>3. writer \in Writers /\ finalize \in Requests
  BY <1>2 DEF QueueFacts
<1>4. w1 \in Writers /\ w2 \in Writers
  BY <1>3 DEF Writers
<1>5. /\ w1.pc = writer.pc /\ w1.started = writer.started /\ w1.sent = writer.sent /\ w1.pad = writer.pad
      /\ w1.task = writer.task /\ w1.total = writer.total /\ w1.mark = writer.mark
      /\ w1.finalizing = writer.finalizing /\ w1.misled = writer.misled /\ w1.pending = writer.pending
  BY <1>3 DEF Writers
<1>6. /\ w2.pc = writer.pc /\ w2.started = writer.started /\ w2.sent = writer.sent /\ w2.pad = writer.pad
      /\ w2.task = writer.task /\ w2.total = writer.total /\ w2.mark = writer.mark
      /\ w2.finalizing = writer.finalizing /\ w2.misled = writer.misled /\ w2.pending = finalize
  BY <1>3 DEF Writers
<1>7. ~writer.misled /\ writer.started => NoneStarting
  BY <1>1, <1>2, StartedOnce
<1>8. CASE writer' = w1 /\ UNCHANGED <<in, net, ctx>>
  <2> HIDE DEF w1, w2
  <2> QED
    BY <1>1, <1>2, <1>4, <1>5, <1>7, <1>8, WriterMoves
<1>9. CASE writer' = w2 /\ UNCHANGED <<in, net, ctx>>
  <2> HIDE DEF w1, w2
  <2> QED
    BY <1>1, <1>2, <1>4, <1>6, <1>7, <1>9, WriterMoves
<1>10. CASE ~writer.finalizing /\ writer.started /\ BeginFinalize(finalize, writer)
  <2>1. writer.started = TRUE
    BY <1>3, <1>10 DEF Writers
  <2>2. writer = [writer EXCEPT !.started = TRUE]
    BY <1>3, <2>1 DEF Writers
  <2>3. finalize \in Nat /\ finalize <= caller.pushed
    BY <1>1, <1>3 DEF Requests, QwenOK, Counted
  <2> QED
    BY <1>1, <1>2, <1>3, <1>7, <1>10, <2>2, <2>3, FinalizeBegun
<1> QED
  BY <1>8, <1>9, <1>10 DEF WriterFinalizes

(* finalize_timeout.                                                            *)
LEMMA DeadlineOK ==
    ASSUME StreamOK, QwenOK, WriterDeadline
    PROVE  QwenOK'
<1> DEFINE w == [writer EXCEPT !.pc = "timeout"]
<1>1. /\ writer.pc = "run" /\ writer.finalizing /\ writer' = w /\ ctx' = ctx /\ in' = in /\ net' = net
      /\ finalize' = finalize /\ ctl' = ctl /\ line' = line /\ caller' = caller /\ reader' = reader
  BY DEF WriterDeadline, WriterAt, WriterFrame
<1>2. QueueFacts /\ Alive /\ CtlTaken
  BY <1>1, Typed DEF QwenOK, Alive, CtlTaken
<1>3. writer \in Writers
  BY <1>2 DEF QueueFacts
<1>4. w \in Writers
  BY <1>3 DEF Writers
<1>5. /\ w.pc = "timeout" /\ w.started = writer.started /\ w.sent = writer.sent /\ w.pad = writer.pad
      /\ w.task = writer.task /\ w.total = writer.total /\ w.mark = writer.mark
      /\ w.finalizing = writer.finalizing /\ w.misled = writer.misled /\ w.pending = writer.pending
  BY <1>3 DEF Writers
<1> HIDE DEF w
<1>6. ~writer.misled /\ writer.started => NoneStarting
  BY <1>1, <1>2, StartedOnce
<1> QED
  BY <1>1, <1>2, <1>4, <1>5, <1>6, WriterMoves

(* The answer to a Finalize that the service does not give.                     *)
LEMMA AnswersOK ==
    ASSUME StreamOK, QwenOK, WriterAnswers
    PROVE  QwenOK'
<1> DEFINE next == IF writer.pc = "answer" THEN "run" ELSE "restart"
           w == [writer EXCEPT !.pc = next]
<1>1. /\ writer.pc \in {"answer", "timeout"} /\ in' = in /\ net' = net
      /\ finalize' = finalize /\ ctl' = ctl /\ line' = line /\ caller' = caller /\ reader' = reader
  BY DEF WriterAnswers, WriterFrame
<1>2. QueueFacts /\ Alive /\ CtlTaken
  BY <1>1, Typed DEF QwenOK, Alive, CtlTaken
<1>3. writer \in Writers /\ ctl \in Seq(CtlFrames) /\ line \in Lines
  BY <1>2 DEF QueueFacts
<1>4. next \in {"run", "restart"} /\ (next = "restart" => writer.finalizing)
  BY <1>1, <1>2 DEF QwenOK, Counted
<1>5. CASE writer' = w /\ ctx' = ctx
  <2> HIDE DEF next
  <2>1. w \in Writers
    BY <1>3, <1>4 DEF Writers
  <2>2. /\ w.pc = next /\ w.started = writer.started /\ w.sent = writer.sent /\ w.pad = writer.pad
        /\ w.task = writer.task /\ w.total = writer.total /\ w.mark = writer.mark
        /\ w.finalizing = writer.finalizing /\ w.misled = writer.misled /\ w.pending = writer.pending
    BY <1>3 DEF Writers
  <2>3. ~writer.misled /\ writer.started => NoneStarting
    BY <1>1, <1>2, StartedOnce
  <2> HIDE DEF w
  <2>4. w.pc \notin {"start", "done"} /\ (w.pc \in {"timeout", "restart"} => writer.finalizing)
    BY <1>4, <2>2
  <2>5. writer.pc # "start"
    BY <1>1
  <2> QED
    BY <1>1, <1>2, <1>5, <2>1, <2>2, <2>3, <2>4, <2>5, WriterMoves
<1>6. CASE WriterEnds
  BY <1>1, <1>3, <1>6, WriterLeaves
<1>7. CASE writer' = writer /\ ctx' = ctx
  <2>1. ~writer.misled /\ writer.started => NoneStarting
    BY <1>1, <1>2, StartedOnce
  <2>2. writer.pc \notin {"start", "done"} /\ (writer.pc \in {"timeout", "restart"} => writer.finalizing)
    BY <1>1, <1>2 DEF QwenOK, Counted
  <2> QED
    BY <1>1, <1>2, <1>3, <1>7, <2>1, <2>2, WriterMoves
<1> QED
  BY <1>5, <1>6, <1>7 DEF WriterAnswers

(* The task that timed out is given up for the next.                            *)
LEMMA RestartsOK ==
    ASSUME StreamOK, QwenOK, WriterRestarts
    PROVE  QwenOK'
<1>1. writer.pc = "restart" /\ Restart(writer) /\ ctl' = ctl /\ in' = in /\ finalize' = finalize
      /\ caller' = caller /\ reader' = reader
  BY DEF WriterRestarts, WriterAt, WriterFrame
<1>2. Alive /\ CtlTaken /\ writer.finalizing /\ line.base + writer.sent = writer.total
  BY <1>1 DEF Alive, CtlTaken, QwenOK, Counted
<1>3. writer \in Writers /\ SendRun(writer, writer.total)
  BY <1>1, <1>2 DEF QwenOK, QwenTypeOK, Restart
<1>4. ~writer.misled => writer.started
  BY <1>2 DEF QwenOK, Disciplined
<1>5. ~writer.misled => NoneStarting
  BY <1>1, <1>2, <1>4, StartedOnce
<1> QED
  BY <1>1, <1>2, <1>3, <1>5, RunSent

(* A frame of audio, in the task that runs.                                     *)
LEMMA SendsAudioOK ==
    ASSUME StreamOK, QwenOK, WriterSendsAudio
    PROVE  QwenOK'
<1> DEFINE fs == <<Head(in)>>
           w == [writer EXCEPT !.sent = @ + 1, !.total = @ + 1]
           n == Hear(net, fs)
<1>1. /\ writer.pc = "run" /\ writer.started /\ ~writer.finalizing /\ in # <<>> /\ in' = Tail(in)
      /\ WriteThen(n, w) /\ finalize' = finalize /\ ctl' = ctl /\ line' = line
      /\ caller' = caller /\ reader' = reader
  BY DEF WriterSendsAudio, MayWriteAudio, WriterAt, WriterFrame
<1>2. QueueFacts /\ Alive /\ CtlTaken
  BY <1>1, Typed DEF QwenOK, Alive, CtlTaken
<1>3. writer \in Writers /\ ctl \in Seq(CtlFrames) /\ line \in Lines /\ in \in Seq(Nat) /\ Len(in) \in Nat
      /\ writer.sent \in Nat /\ writer.total \in Nat /\ line.base \in Nat /\ writer.mark \in Nat
      /\ writer.pad \in Nat
  BY <1>2 DEF QueueFacts
<1>4. w \in Writers
  <2>1. writer.sent + 1 \in Nat /\ writer.total + 1 \in Nat
    BY <1>3
  <2> QED
    BY <1>3, <2>1 DEF Writers
<1>5. /\ w.pc = writer.pc /\ w.started = writer.started /\ w.sent = writer.sent + 1 /\ w.pad = writer.pad
      /\ w.task = writer.task /\ w.total = writer.total + 1 /\ w.mark = writer.mark
      /\ w.finalizing = writer.finalizing /\ w.misled = writer.misled /\ w.pending = writer.pending
  BY <1>3 DEF Writers
<1> HIDE DEF w
<1>6. Len(in) > 0 /\ Len(in') = Len(in) - 1 /\ \A i \in 1..Len(in') : i + 1 \in 1..Len(in) /\ in'[i] = in[i + 1]
  BY <1>1, <1>3
<1>7. fs \in Seq(Nat) /\ Len(fs) = 1 /\ fs[1] = in[1]
  BY <1>1, <1>3, <1>6
<1> HIDE DEF fs
<1>8. /\ writer.mark <= writer.total /\ caller.pushed = writer.total + Len(in)
      /\ (\A i \in 1..Len(in) : in[i] = writer.total + i)
      /\ line.base + writer.sent = writer.total /\ net.task = writer.task /\ net.on
  BY <1>1, <1>2 DEF QwenOK, Counted
<1>9. /\ n \in Nets(QwenFrames) /\ n.on = net.on /\ n.task = net.task /\ n.down = net.down
      /\ n.ending = net.ending /\ n.stray = net.stray /\ n.heard = net.heard \o fs
  <2>1. net \in Nets(QwenFrames)
    BY <1>2 DEF QueueFacts
  <2> QED
    BY <1>7, <1>8, <2>1, AudioTaken
<1> HIDE DEF n
<1>10. CASE ~CanWrite /\ WriterEnds /\ UNCHANGED net
  BY <1>1, <1>3, <1>10, WriterLeaves
<1>11. CASE CanWrite /\ net' = n /\ writer' = w /\ UNCHANGED ctx
  <2>1. QwenTypeOK'
    BY <1>1, <1>2, <1>4, <1>9, <1>11 DEF QwenTypeOK, QueueFacts
  <2>2. Counted'
    <3>a. writer'.total = writer.total + 1 /\ writer'.sent = writer.sent + 1 /\ writer'.mark = writer.mark
      BY <1>5, <1>11
    <3>1. caller'.pushed = writer'.total + Len(in')
      <4>1. \A i, j \in Nat : i + j = (i + 1) + (j - 1)
        OBVIOUS
      <4>2. writer.total + Len(in) = (writer.total + 1) + (Len(in) - 1)
        BY <1>3, <4>1
      <4> QED
        BY <1>1, <1>6, <1>8, <3>a, <4>2
    <3>2. \A i \in 1..Len(in') : in'[i] = writer'.total + i
      <4> SUFFICES ASSUME NEW i \in 1..Len(in')
                   PROVE  in'[i] = writer'.total + i
        OBVIOUS
      <4>1. in'[i] = writer.total + (i + 1)
        BY <1>6, <1>8
      <4>2. \A a, b \in Nat : a + (b + 1) = (a + 1) + b
        OBVIOUS
      <4>a. i \in Nat
        OBVIOUS
      <4>b. writer.total \in Nat
        BY <1>3
      <4>3. writer.total + (i + 1) = (writer.total + 1) + i
        BY <4>2, <4>a, <4>b, Zenon
      <4> QED
        BY <3>a, <4>1, <4>3
    <3>3. line'.base + writer'.sent = writer'.total /\ writer'.mark <= writer'.total
      <4>1. \A b, i \in Nat : b + (i + 1) = (b + i) + 1
        OBVIOUS
      <4>2. line.base + (writer.sent + 1) = (line.base + writer.sent) + 1
        BY <1>3, <4>1
      <4> QED
        BY <1>1, <1>3, <1>8, <3>a, <4>2
    <3>4. /\ net'.on = net.on /\ net'.task = net.task
      BY <1>9, <1>11
    <3> QED
      BY <1>1, <1>2, <1>5, <1>8, <1>11, <3>1, <3>2, <3>3, <3>4 DEF QwenOK, Counted, Alive
  <2>3. writer'.sent = writer.sent + Len(fs) /\ writer'.pad = writer.pad /\ writer'.sent >= writer.sent
        /\ writer'.task = writer.task
    BY <1>3, <1>5, <1>7, <1>11
  <2>4. \A i \in 1..Len(fs) : fs[i] = writer.total + i
    <3>1. \A i \in 1..Len(fs) : i = 1
      BY <1>7
    <3>2. 1 \in 1..Len(in)
      BY <1>3, <1>6
    <3>3. in[1] = writer.total + 1
      BY <1>8, <3>2
    <3> QED
      BY <1>7, <3>1, <3>3
  <2>5. net.heard \o fs \in Seq(Nat)
    BY <1>2, <1>7 DEF QueueFacts
  <2>6. ASSUME NEW h \in Seq(Nat), h = net.heard \o fs
        PROVE  PlacedIn(h)'
    BY <1>1, <1>2, <1>4, <1>7, <1>8, <1>11, <2>3, <2>4, <2>6, FramesPlaced DEF QwenOK
  <2>7. PlacedIn(net.heard)'
    <3>1. ASSUME NEW h \in Seq(Nat), h = net.heard \o fs, PlacedIn(h)'
          PROVE  PlacedIn(net.heard)'
      BY <1>9, <1>11, <3>1 DEF PlacedIn
    <3> QED
      BY <2>5, <2>6, <3>1
  <2>8. Len(net'.heard) = writer'.sent + writer'.pad
    <3>1. Len(net.heard) = writer.sent + writer.pad
      BY <1>2, <1>8 DEF QwenOK, Timeline
    <3>2. Len(net'.heard) = Len(net.heard) + 1
      <4>1. net.heard \in Seq(Nat) /\ net'.heard = net.heard \o fs
        BY <1>2, <1>9, <1>11 DEF QueueFacts
      <4>2. \A s, q \in Seq(Nat) : Len(s \o q) = Len(s) + Len(q)
        OBVIOUS
      <4> QED
        BY <1>7, <4>1, <4>2
    <3> QED
      BY <1>3, <1>5, <1>11, <3>1, <3>2, SMTT(30)
  <2>9. Timeline'
    <3>1. net'.down = net.down /\ net'.ending = net.ending
      BY <1>9, <1>11
    <3> QED
      BY <1>1, <1>2, <2>1, <2>3, <2>7, <2>8, <3>1, TimelineKept DEF QwenOK
  <2>10. Disciplined'
    <3>1. ~writer.misled => NoneStarting
      BY <1>1, <1>2, StartedOnce
    <3>2. net'.stray => writer'.misled
      BY <1>5, <1>9, <1>11 DEF QwenOK, Disciplined
    <3>3. /\ net'.down = net.down /\ net'.ending = net.ending /\ writer'.misled = writer.misled
          /\ writer'.task = writer.task /\ writer'.pc # "start" /\ writer'.finalizing = writer.finalizing
          /\ writer'.started = writer.started
      BY <1>1, <1>5, <1>9, <1>11
    <3>4. Disciplined /\ ctl \in Seq(CtlFrames)
      BY <1>3 DEF QwenOK
    <3> QED
      BY <1>1, <1>2, <3>1, <3>2, <3>3, <3>4, DisciplineKept
  <2> QED
    BY <2>1, <2>2, <2>9, <2>10 DEF QwenOK
<1> QED
  BY <1>1, <1>10, <1>11 DEF WriteThen

(* A frame of silence, noted at the end of what the task has heard.             *)
LEMMA PadsOK ==
    ASSUME StreamOK, QwenOK, WriterPads
    PROVE  QwenOK'
<1> DEFINE at == writer.sent + writer.pad
           gap == [at |-> at, ms |-> KeepAliveMs]
           gs == Append(line.gaps, gap)
           l == [line EXCEPT !.gaps = gs]
           w == [writer EXCEPT !.pad = @ + KeepAliveMs]
           n == Hear(net, Silence)
<1>1. /\ writer.pc = "run" /\ writer.started /\ ~writer.finalizing /\ in' = in
      /\ WriteThen(n, w) /\ finalize' = finalize /\ ctl' = ctl /\ line' = l
      /\ caller' = caller /\ reader' = reader
  BY DEF WriterPads, MayWriteAudio, WriterAt, WriterFrame
<1>2. QueueFacts /\ Alive /\ CtlTaken
  BY <1>1, Typed DEF QwenOK, Alive, CtlTaken
<1>3. writer \in Writers /\ ctl \in Seq(CtlFrames) /\ line \in Lines
      /\ writer.sent \in Nat /\ writer.pad \in Nat /\ KeepAliveMs \in Nat
  BY <1>2 DEF QueueFacts
<1>4. at \in Nat /\ writer.pad + KeepAliveMs \in Nat
  BY <1>3
<1>5. w \in Writers
  BY <1>3, <1>4 DEF Writers
<1>6. /\ w.pc = writer.pc /\ w.started = writer.started /\ w.sent = writer.sent /\ w.pad = writer.pad + KeepAliveMs
      /\ w.task = writer.task /\ w.total = writer.total /\ w.mark = writer.mark
      /\ w.finalizing = writer.finalizing /\ w.misled = writer.misled /\ w.pending = writer.pending
  BY <1>3 DEF Writers
<1> HIDE DEF w
<1>7. gap \in Gaps /\ gap.at = at /\ gap.ms = KeepAliveMs
  BY <1>3, <1>4 DEF Gaps
<1>8. line.gaps \in Seq(Gaps) /\ line.base \in Nat
  BY <1>3 DEF Lines
<1> HIDE DEF gap
<1>9. gs \in Seq(Gaps) /\ Len(gs) = Len(line.gaps) + 1 /\ Len(line.gaps) \in Nat /\ gs[Len(gs)] = gap
      /\ \A i \in 1..Len(line.gaps) : gs[i] = line.gaps[i] /\ line.gaps[i] \in Gaps
  BY <1>7, <1>8
<1> HIDE DEF gs
<1>10. l \in Lines /\ l.base = line.base /\ l.gaps = gs
  BY <1>3, <1>9 DEF Lines
<1> HIDE DEF l
<1>11. Silence \in Seq(Nat) /\ Len(Silence) = KeepAliveMs /\ \A i \in 1..KeepAliveMs : Silence[i] = 0
  BY <1>3 DEF Silence
<1>12. net.on /\ line.base + writer.sent = writer.total /\ net.task = writer.task
  BY <1>1, <1>2 DEF QwenOK, Counted
<1>13. /\ n \in Nets(QwenFrames) /\ n.on = net.on /\ n.task = net.task /\ n.down = net.down
       /\ n.ending = net.ending /\ n.stray = net.stray /\ n.heard = net.heard \o Silence
  <2>1. net \in Nets(QwenFrames) /\ Silence \in Seq(Nat)
    BY <1>2, <1>11 DEF QueueFacts
  <2> QED
    BY <1>12, <2>1, AudioTaken
<1> HIDE DEF n
<1>14. CASE ~CanWrite /\ WriterEnds /\ UNCHANGED net
  BY <1>1, <1>3, <1>10, <1>14, WriterLeaves
<1>15. CASE CanWrite /\ net' = n /\ writer' = w /\ UNCHANGED ctx
  <2>1. QwenTypeOK'
    BY <1>1, <1>2, <1>5, <1>10, <1>13, <1>15 DEF QwenTypeOK, QueueFacts
  <2>2. Counted'
    <3>1. /\ net'.on = net.on /\ net'.task = net.task /\ line'.base = line.base
      BY <1>1, <1>10, <1>13, <1>15
    <3> QED
      BY <1>1, <1>2, <1>6, <1>15, <3>1 DEF QwenOK, Counted, Alive
  <2>3. /\ \A heard \in Seq(Nat) : PlacedIn(heard) => PlacedIn(heard)'
        /\ \A f \in ResultFrames : PlacedResult(f) => PlacedResult(f)'
    <3>1. \A ms \in Nat : ms <= at => Unpad(ms)' = Unpad(ms)
      <4>1. line'.gaps = Append(line.gaps, [at |-> at, ms |-> KeepAliveMs])
        BY <1>1, <1>10 DEF gs, gap
      <4> HIDE DEF at
      <4> QED
        BY <1>3, <1>4, <4>1, UnpadKept
    <3>2. at <= writer'.sent + writer'.pad
      BY <1>3, <1>6, <1>15
    <3>3. writer' \in Writers /\ line'.base = line.base
      BY <1>1, <1>5, <1>10, <1>15
    <3> QED
      BY <1>3, <3>1, <3>2, <3>3, PlacesKept
  <2>4. Timeline'
    <3>1. /\ writer.pad = KeepAliveMs * Len(line.gaps) /\ Len(net.heard) = at /\ PlacedIn(net.heard)
          /\ \A i \in 1..Len(line.gaps) : line.gaps[i].ms = KeepAliveMs /\ line.gaps[i].at + KeepAliveMs <= at
      BY <1>2, <1>12 DEF QwenOK, Timeline
    <3>2. /\ writer'.pad = writer.pad + KeepAliveMs /\ writer'.sent = writer.sent /\ writer'.task = writer.task
          /\ line'.gaps = gs /\ net'.heard = net.heard \o Silence /\ net'.down = net.down
          /\ net'.ending = net.ending
      BY <1>1, <1>6, <1>10, <1>13, <1>15
    <3>3. writer'.pad = KeepAliveMs * Len(line'.gaps)
      <4>1. \A a, b \in Nat : a * (b + 1) = a * b + a
        OBVIOUS
      <4>2. KeepAliveMs * (Len(line.gaps) + 1) = KeepAliveMs * Len(line.gaps) + KeepAliveMs
        BY <1>3, <1>9, <4>1
      <4> QED
        BY <1>9, <3>1, <3>2, <4>2
    <3>4. writer'.sent + writer'.pad = at + KeepAliveMs
      BY <1>3, <3>2
    <3>5. \A i \in 1..Len(line'.gaps) :
             line'.gaps[i].ms = KeepAliveMs /\ line'.gaps[i].at + KeepAliveMs <= writer'.sent + writer'.pad
      <4> SUFFICES ASSUME NEW i \in 1..Len(gs)
                   PROVE  gs[i].ms = KeepAliveMs /\ gs[i].at + KeepAliveMs <= at + KeepAliveMs
        BY <3>2, <3>4
      <4>1. CASE i \in 1..Len(line.gaps)
        <5>1. gs[i] \in Gaps /\ gs[i].ms = KeepAliveMs /\ gs[i].at + KeepAliveMs <= at
          BY <1>9, <3>1, <4>1
        <5>2. gs[i].at \in Nat
          BY <5>1 DEF Gaps
        <5> HIDE DEF at
        <5> QED
          BY <1>3, <1>4, <5>1, <5>2
      <4>2. CASE i \notin 1..Len(line.gaps)
        <5>1. i = Len(gs)
          BY <1>9, <4>2
        <5> HIDE DEF at
        <5> QED
          BY <1>3, <1>4, <1>7, <1>9, <5>1
      <4> QED
        BY <4>1, <4>2
    <3>6. net.heard \in Seq(Nat)
      BY <1>2 DEF QueueFacts
    <3>7. Len(net'.heard) = writer'.sent + writer'.pad
      <4> HIDE DEF at
      <4> QED
        BY <1>3, <1>4, <1>11, <3>1, <3>2, <3>4, <3>6, SMTT(30)
    <3>8. PlacedIn(net.heard)'
      <4> SUFFICES ASSUME NEW k \in 1..Len(net'.heard), net'.heard[k] # 0
                   PROVE  k <= writer'.sent + writer'.pad /\ OnLine(k, net.heard[k])'
        BY DEF PlacedIn
      <4>1. k \in 1..Len(net.heard) /\ net'.heard[k] = net.heard[k]
        <5> HIDE DEF at
        <5>1. CASE k > at
          <6>1. k - at \in 1..KeepAliveMs /\ net'.heard[k] = Silence[k - at]
            BY <1>3, <1>4, <1>11, <3>1, <3>2, <3>4, <3>6, <3>7, <5>1, SMTT(30)
          <6> QED
            BY <1>11, <6>1
        <5>2. CASE k <= at
          BY <1>3, <1>4, <1>11, <3>1, <3>2, <3>6, <5>2
        <5> QED
          BY <1>4, <5>1, <5>2
      <4>2. ASSUME NEW h \in Seq(Nat), h = net.heard, PlacedIn(h)'
            PROVE  OnLine(k, net.heard[k])'
        BY <3>2, <3>6, <4>1, <4>2 DEF PlacedIn
      <4>3. k <= writer'.sent + writer'.pad
        BY <3>7
      <4> QED
        BY <2>3, <3>1, <3>6, <4>1, <4>2, <4>3
    <3>9. \A i \in 1..Len(net'.ending) :
             net'.ending[i].task <= writer'.task /\ (net'.ending[i].task = writer'.task => PlacedIn(net.ending[i].heard)')
      <4> SUFFICES ASSUME NEW i \in 1..Len(net.ending)
                   PROVE  net.ending[i].task <= writer.task
                          /\ (net.ending[i].task = writer.task => PlacedIn(net.ending[i].heard)')
        BY <3>2
      <4>1. net.ending[i].task <= writer.task /\ (net.ending[i].task = writer.task => PlacedIn(net.ending[i].heard))
        BY <1>2 DEF QwenOK, Timeline
      <4>2. net.ending[i] \in Endings
        BY <1>2 DEF QueueFacts
      <4>3. net.ending[i].heard \in Seq(Nat)
        BY <4>2 DEF Endings
      <4>4. ASSUME NEW h \in Seq(Nat), h = net.ending[i].heard, PlacedIn(h)'
            PROVE  PlacedIn(net.ending[i].heard)'
        BY <3>2, <4>4 DEF PlacedIn
      <4> QED
        BY <2>3, <4>1, <4>3, <4>4
    <3>10. \A i \in 1..Len(net'.down) :
              net'.down[i].k = "result" =>
                 net'.down[i].task <= writer'.task /\ (net'.down[i].task = writer'.task => PlacedResult(net.down[i])')
      <4> SUFFICES ASSUME NEW i \in 1..Len(net.down), net.down[i].k = "result"
                   PROVE  net.down[i].task <= writer.task /\ (net.down[i].task = writer.task => PlacedResult(net.down[i])')
        BY <3>2
      <4>1. net.down[i] \in QwenFrames
        BY <1>2 DEF QueueFacts
      <4>2. net.down[i] \in ResultFrames
        BY <4>1 DEF QwenFrames, CtlFrames, LifeFrames, FailFrames, ResultFrames
      <4>3. net.down[i].task <= writer.task /\ (net.down[i].task = writer.task => PlacedResult(net.down[i]))
        BY <1>2 DEF QwenOK, Timeline
      <4>4. ASSUME NEW f \in ResultFrames, f = net.down[i], PlacedResult(f)'
            PROVE  PlacedResult(net.down[i])'
        BY <3>2, <4>4 DEF PlacedResult
      <4> QED
        BY <2>3, <4>2, <4>3, <4>4
    <3> QED
      BY <3>3, <3>5, <3>7, <3>8, <3>9, <3>10 DEF Timeline
  <2>5. Disciplined'
    <3>1. ~writer.misled => NoneStarting
      BY <1>1, <1>2, StartedOnce
    <3>2. net'.stray => writer'.misled
      BY <1>6, <1>13, <1>15 DEF QwenOK, Disciplined
    <3>3. /\ net'.down = net.down /\ net'.ending = net.ending /\ writer'.misled = writer.misled
          /\ writer'.task = writer.task /\ writer'.pc # "start" /\ writer'.finalizing = writer.finalizing
          /\ writer'.started = writer.started
      BY <1>1, <1>6, <1>13, <1>15
    <3>4. Disciplined /\ ctl \in Seq(CtlFrames)
      BY <1>3 DEF QwenOK
    <3> QED
      BY <1>1, <1>2, <3>1, <3>2, <3>3, <3>4, DisciplineKept
  <2> QED
    BY <2>1, <2>2, <2>4, <2>5 DEF QwenOK
<1> QED
  BY <1>1, <1>14, <1>15 DEF WriteThen

(* ---- the session's steps ------------------------------------------------------------------ *)

(* What the writer and the service do not touch stays on the timeline.           *)
LEMMA TimelineStays ==
    ASSUME Timeline, writer' = writer, net' = net, line'.base = line.base, line'.gaps = line.gaps
    PROVE  Timeline'
<1>1. \A ms : Unpad(ms)' = Unpad(ms)
  BY UnpadSame
<1>2. PlacedIn(net.heard)' = PlacedIn(net.heard)
  BY <1>1 DEF PlacedIn, OnLine
<1>3. \A i \in 1..Len(net.ending) : PlacedIn(net.ending[i].heard)' = PlacedIn(net.ending[i].heard)
  BY <1>1 DEF PlacedIn, OnLine
<1>4. \A i \in 1..Len(net.down) : PlacedResult(net.down[i])' = PlacedResult(net.down[i])
  BY <1>1 DEF PlacedResult
<1> QED
  BY <1>2, <1>3, <1>4 DEF Timeline, Alive

(* What the writer, the reader and the service do not touch stays as it is.     *)
LEMMA Untouched ==
    ASSUME QwenOK, writer' = writer, net' = net, line'.base = line.base, line'.gaps = line.gaps,
           reader' = reader, ctl' = ctl
    PROVE  Timeline' /\ Disciplined'
<1>1. Timeline'
  BY TimelineStays DEF QwenOK
<1>2. Disciplined'
  BY DEF QwenOK, Disciplined, Alive, AtMostOne, Starteds, Telling
<1> QED
  BY <1>1, <1>2

(* The session moves on; a Finalize stands for what has been pushed.            *)
LEMMA CallerMoves ==
    ASSUME StreamOK, QwenOK, writer' = writer, net' = net, line'.base = line.base, line'.gaps = line.gaps,
           line' \in Lines, reader' = reader, ctl' = ctl, in' = in, ctx => ctx',
           caller'.pushed = caller.pushed, caller'.pc \notin {"ask", "send"},
           finalize' \in {finalize, caller.pushed}
    PROVE  QwenOK'
<1>1. QueueFacts
  BY Typed DEF QwenOK
<1>2. Timeline' /\ Disciplined'
  BY Untouched
<1>3. finalize' \in Requests /\ (finalize' # Nobody => finalize' <= caller'.pushed)
  <2>1. caller.pushed \in Nat /\ finalize \in Requests
    BY <1>1 DEF QueueFacts
  <2>2. caller.pushed <= caller.pushed
    BY <2>1
  <2>3. finalize # Nobody => finalize <= caller.pushed
    BY DEF QwenOK, Counted
  <2> QED
    BY <2>1, <2>2, <2>3 DEF Requests
<1>4. QwenTypeOK'
  BY <1>1, <1>3 DEF QwenTypeOK, QueueFacts, Requests
<1>5. Counted'
  BY <1>3 DEF QwenOK, Counted, Alive
<1> QED
  BY <1>2, <1>4, <1>5 DEF QwenOK

(* A frame is queued behind the others.                                         *)
LEMMA PushesOK ==
    ASSUME StreamOK, QwenOK, PushAudio
    PROVE  QwenOK'
<1> DEFINE c == [caller EXCEPT !.pushed = @ + 1]
           d == [caller EXCEPT !.pc = "close"]
<1>1. /\ finalize' = finalize /\ ctl' = ctl /\ ctx' = ctx /\ line' = line /\ net' = net /\ writer' = writer
      /\ reader' = reader
      /\ \/ caller' = d /\ in' = in
         \/ caller' = c /\ in' = Append(in, caller.pushed + 1)
  BY DEF PushAudio, CallerFrame, Fatal
<1>2. QueueFacts /\ caller \in Callers
  BY Typed DEF QwenOK, StreamOK
<1>3. d.pc = "close" /\ d.pushed = caller.pushed /\ c.pc = caller.pc /\ c.pushed = caller.pushed + 1
  BY <1>2
<1> HIDE DEF c, d
<1>4. CASE caller' = d /\ in' = in
  BY <1>1, <1>2, <1>3, <1>4, CallerMoves DEF QueueFacts
<1>5. CASE caller' = c /\ in' = Append(in, caller.pushed + 1)
  <2>1. Timeline' /\ Disciplined'
    BY <1>1, Untouched
  <2>2. QwenTypeOK'
    BY <1>1, <1>2, <1>3, <1>5 DEF QwenTypeOK, QueueFacts
  <2>3. caller.pushed \in Nat /\ in \in Seq(Nat) /\ Len(in) \in Nat /\ writer.total \in Nat
    BY <1>2 DEF QueueFacts
  <2>4. /\ Len(in') = Len(in) + 1 /\ in'[Len(in) + 1] = caller.pushed + 1
        /\ \A i \in 1..Len(in) : in'[i] = in[i]
    BY <1>5, <2>3
  <2>5. Alive => caller'.pushed = writer'.total + Len(in')
    <3>1. \A i, j \in Nat : (i + j) + 1 = i + (j + 1)
      OBVIOUS
    <3>2. (writer.total + Len(in)) + 1 = writer.total + (Len(in) + 1)
      BY <2>3, <3>1
    <3> QED
      BY <1>1, <1>3, <1>5, <2>4, <3>2 DEF QwenOK, Counted
  <2>6. Alive => \A i \in 1..Len(in') : in'[i] = writer'.total + i
    <3> SUFFICES ASSUME Alive, NEW i \in 1..Len(in')
                 PROVE  in'[i] = writer'.total + i
      OBVIOUS
    <3>1. CASE i \in 1..Len(in)
      BY <1>1, <2>4, <3>1 DEF QwenOK, Counted
    <3>2. CASE i \notin 1..Len(in)
      <4>1. i = Len(in) + 1
        BY <2>3, <2>4, <3>2
      <4>2. in'[i] = caller'.pushed
        BY <1>3, <1>5, <2>4, <4>1
      <4> QED
        BY <2>4, <2>5, <4>1, <4>2
    <3> QED
      BY <3>1, <3>2
  <2>7. \A m \in Nat : m <= caller.pushed => m <= caller'.pushed
    BY <1>3, <1>5, <2>3
  <2>8. /\ finalize' # Nobody => finalize' <= caller'.pushed
        /\ writer'.pending # Nobody => writer'.pending <= caller'.pushed
    <3>1. finalize \in Requests /\ writer.pending \in Requests
      BY <1>2 DEF QueueFacts, Writers
    <3> QED
      BY <1>1, <2>7, <3>1 DEF Requests, QwenOK, Counted
  <2>9. Counted'
    BY <1>1, <2>5, <2>6, <2>8 DEF QwenOK, Counted, Alive
  <2> QED
    BY <2>1, <2>2, <2>9 DEF QwenOK
<1> QED
  BY <1>1, <1>4, <1>5

(* The other calls of the session, and the events it takes.                     *)
LEMMA CallsOK ==
    ASSUME StreamOK, QwenOK, kind = "qwen", Finalize \/ Ask \/ Consume \/ Leave \/ CloseStep
    PROVE  QwenOK'
<1>1. QueueFacts /\ caller \in Callers
  BY Typed DEF QwenOK, StreamOK
<1>2. caller.pc \notin {"ask", "send"} /\ line \in Lines
  BY <1>1 DEF QueueFacts
<1>3. CASE Finalize
  <2> DEFINE c == [caller EXCEPT !.owed = TRUE]
             d == [caller EXCEPT !.pc = "close"]
  <2>1. /\ ctl' = ctl /\ ctx' = ctx /\ line' = line /\ net' = net /\ writer' = writer
        /\ reader' = reader /\ in' = in /\ finalize' \in {finalize, caller.pushed}
        /\ caller' = c \/ caller' = d
    BY <1>3 DEF Finalize, CallerFrame, Fatal
  <2>2. d.pc = "close" /\ d.pushed = caller.pushed /\ c.pc = caller.pc /\ c.pushed = caller.pushed
    BY <1>1
  <2> HIDE DEF c, d
  <2> QED
    BY <1>2, <2>1, <2>2, CallerMoves
<1>4. CASE Consume
  <2> DEFINE c == [caller EXCEPT !.owed = @ /\ Head(events.q).kind = "partial"]
             d == [caller EXCEPT !.pc = "close", !.owed = FALSE]
  <2>1. /\ ctl' = ctl /\ ctx' = ctx /\ line' = line /\ net' = net /\ writer' = writer
        /\ reader' = reader /\ in' = in /\ finalize' = finalize
        /\ caller' = c \/ caller' = d
    BY <1>4 DEF Consume
  <2>2. d.pc = "close" /\ d.pushed = caller.pushed /\ c.pc = caller.pc /\ c.pushed = caller.pushed
    BY <1>1
  <2> HIDE DEF c, d
  <2> QED
    BY <1>2, <2>1, <2>2, CallerMoves
<1>5. CASE Leave \/ Close \/ CloseWaits
  <2>1. /\ ctl' = ctl /\ line' = line /\ net' = net /\ writer' = writer
        /\ reader' = reader /\ in' = in /\ finalize' = finalize
    BY <1>5 DEF Leave, Close, CloseWaits, CallerFrame
  <2>a. ctx => ctx'
    BY <1>5 DEF Leave, Close, CloseWaits
  <2>2. \E pc \in {"close", "wait", "join", "closed"} : caller' = [caller EXCEPT !.pc = pc]
    BY <1>5 DEF Leave, Close, CloseWaits, Fatal
  <2>3. caller'.pushed = caller.pushed /\ caller'.pc \notin {"ask", "send"}
    BY <1>1, <2>2
  <2> QED
    BY <1>2, <2>1, <2>a, <2>3, CallerMoves
<1>6. CASE Ask \/ CloseSends
  BY <1>2, <1>6 DEF Ask, CloseSends
<1> QED
  BY <1>3, <1>4, <1>5, <1>6 DEF CloseStep

(* idle_timeout without task-started.                                           *)
LEMMA AckExpiresOK ==
    ASSUME StreamOK, QwenOK, AckExpires
    PROVE  QwenOK'
<1> DEFINE l == [line EXCEPT !.ack = FALSE]
<1>1. QueueFacts
  BY Typed DEF QwenOK
<1>2. l \in Lines /\ l.base = line.base /\ l.gaps = line.gaps
  BY <1>1 DEF QueueFacts, Lines
<1>3. /\ line' = l /\ ctx' /\ writer' = writer /\ net' = net /\ reader' = reader /\ ctl' = ctl /\ in' = in
      /\ caller' = caller /\ finalize' = finalize
  BY DEF AckExpires
<1> HIDE DEF l
<1> QED
  BY <1>1, <1>2, <1>3, CallerMoves DEF QueueFacts

(* ---- the reader's steps ------------------------------------------------------------------- *)

\* The reader has no more to tell the writer than before.
TodoLeft ==
    \/ reader'.todo = reader.todo
    \/ reader.todo # <<>> /\ reader'.todo = Tail(reader.todo)
    \/ \A i \in 1..Len(reader'.todo) : reader'.todo[i].do = "emit"

(* What it has yet to tell, it had to tell before.                              *)
LEMMA ToldLess ==
    ASSUME reader.todo \in Seq(Todos), TodoLeft, AtMostOne(Telling)
    PROVE  /\ AtMostOne(Telling)' /\ (Telling = {} => Telling' = {})
           /\ \A i \in 1..Len(reader'.todo) : reader'.todo[i].do = "tell" =>
                 \E j \in 1..Len(reader.todo) : reader.todo[j] = reader'.todo[i]
<1>1. CASE reader'.todo = reader.todo
  BY <1>1 DEF Telling, AtMostOne
<1>2. CASE reader.todo # <<>> /\ reader'.todo = Tail(reader.todo)
  <2>1. Len(reader'.todo) = Len(reader.todo) - 1 /\ Len(reader.todo) \in Nat
    BY <1>2
  <2>2. \A i \in 1..Len(reader'.todo) : i + 1 \in 1..Len(reader.todo) /\ reader'.todo[i] = reader.todo[i + 1]
    BY <1>2, <2>1
  <2>3. \A i \in Telling' : i + 1 \in Telling /\ i \in Nat
    BY <2>1, <2>2 DEF Telling
  <2>4. AtMostOne(Telling)' /\ (Telling = {} => Telling' = {})
    BY <2>3 DEF AtMostOne
  <2> QED
    BY <2>2, <2>4
<1>3. CASE \A i \in 1..Len(reader'.todo) : reader'.todo[i].do = "emit"
  <2>1. Telling' = {}
    BY <1>3 DEF Telling
  <2> QED
    BY <1>3, <2>1 DEF AtMostOne
<1> QED
  BY <1>1, <1>2, <1>3 DEF TodoLeft

(* The reader hands on an event, drops what it had to do, or returns.           *)
LEMMA ReaderLess ==
    ASSUME StreamOK, QwenOK, TodoLeft, writer' = writer, net' = net, line' = line, ctl' = ctl, in' = in,
           caller' = caller, finalize' = finalize, ctx => ctx'
    PROVE  QwenOK'
<1>1. QwenTypeOK' /\ Counted'
  BY DEF QwenOK, QwenTypeOK, Counted, Alive
<1>2. Timeline'
  BY TimelineStays DEF QwenOK
<1>3. Disciplined'
  <2>a. net'.stray => writer'.misled
    BY DEF QwenOK, Disciplined
  <2> SUFFICES ASSUME Alive, ~writer.misled
               PROVE  Disciplined'
    BY <2>a DEF Disciplined, Alive
  <2>1. reader.todo \in Seq(Todos) /\ AtMostOne(Telling) /\ Disciplined
    BY DEF StreamOK, QwenOK, Disciplined, Readers
  <2>2. /\ AtMostOne(Telling)' /\ (Telling = {} => Telling' = {})
        /\ \A i \in 1..Len(reader'.todo) : reader'.todo[i].do = "tell" =>
              \E j \in 1..Len(reader.todo) : reader.todo[j] = reader'.todo[i]
    BY <2>1, ToldLess
  <2>3. Starteds(net.down)' = Starteds(net.down) /\ Starteds(ctl)' = Starteds(ctl)
    BY DEF Starteds
  <2>4. AtMostOne(Starteds(net.down))' /\ AtMostOne(Starteds(ctl))'
    BY <2>1, <2>3 DEF Disciplined, AtMostOne
  <2>5. \A i \in 1..Len(reader'.todo) :
              reader'.todo[i].do = "tell" /\ reader'.todo[i].what.k = "finished" =>
                 reader'.todo[i].what.task <= writer'.task
                 /\ (reader'.todo[i].what.task = writer'.task => writer'.finalizing)
    BY <2>1, <2>2 DEF Disciplined
  <2> QED
    BY <2>1, <2>2, <2>3, <2>4, <2>5, <2>a DEF Disciplined, Alive
<1> QED
  BY <1>1, <1>2, <1>3 DEF QwenOK

(* A lifecycle frame is handed to the writer.                                   *)
LEMMA TellsOK ==
    ASSUME StreamOK, QwenOK, reader.todo # <<>>, Head(reader.todo).do = "tell",
           ctl' = Append(ctl, Head(reader.todo).what), reader'.todo = Tail(reader.todo),
           writer' = writer, net' = net, line' = line, in' = in,
           caller' = caller, finalize' = finalize, ctx' = ctx
    PROVE  QwenOK'
<1> DEFINE f == Head(reader.todo).what
<1>1. reader.todo \in Seq(Todos) /\ ctl \in Seq(CtlFrames)
  BY DEF StreamOK, QwenOK, QwenTypeOK, Readers
<1>2. 1 \in 1..Len(reader.todo) /\ Head(reader.todo) = reader.todo[1] /\ reader.todo[1] \in Todos
  BY <1>1
<1>3. f \in CtlFrames /\ f = reader.todo[1].what
  BY <1>2 DEF Todos, EmitTodos, TellTodos
<1> HIDE DEF f
<1>4. /\ ctl' \in Seq(CtlFrames) /\ Len(ctl') = Len(ctl) + 1 /\ Len(ctl) \in Nat /\ ctl'[Len(ctl) + 1] = f
      /\ \A i \in 1..Len(ctl) : ctl'[i] = ctl[i]
  BY <1>1, <1>3 DEF f
<1>5. \A i \in 1..Len(ctl') : i \in 1..Len(ctl) \/ i = Len(ctl) + 1
  BY <1>4
<1>6. QwenTypeOK' /\ Counted'
  BY <1>4 DEF QwenOK, QwenTypeOK, Counted, Alive
<1>7. Timeline'
  BY TimelineStays DEF QwenOK
<1>8. Disciplined'
  <2>a. net'.stray => writer'.misled
    BY DEF QwenOK, Disciplined
  <2> SUFFICES ASSUME Alive, ~writer.misled
               PROVE  Disciplined'
    BY <2>a DEF Disciplined, Alive
  <2>1. AtMostOne(Telling) /\ Disciplined /\ TodoLeft
    BY DEF QwenOK, Disciplined, TodoLeft
  <2>2. /\ AtMostOne(Telling)' /\ (Telling = {} => Telling' = {})
        /\ \A i \in 1..Len(reader'.todo) : reader'.todo[i].do = "tell" =>
              \E j \in 1..Len(reader.todo) : reader.todo[j] = reader'.todo[i]
    BY <1>1, <2>1, ToldLess
  <2>3. Starteds(net.down)' = Starteds(net.down)
    BY DEF Starteds
  <2>4. \A i \in 1..Len(reader'.todo) :
              reader'.todo[i].do = "tell" /\ reader'.todo[i].what.k = "finished" =>
                 reader'.todo[i].what.task <= writer'.task
                 /\ (reader'.todo[i].what.task = writer'.task => writer'.finalizing)
    BY <2>1, <2>2 DEF Disciplined
  <2>5. reader.todo[1].do = "tell"
    BY <1>2
  <2>6. \A i \in 1..Len(ctl') :
              ctl'[i].k = "finished" => ctl'[i].task <= writer'.task
                                       /\ (ctl'[i].task = writer'.task => writer'.finalizing)
    <3> SUFFICES ASSUME NEW i \in 1..Len(ctl'), ctl'[i].k = "finished"
                 PROVE  ctl'[i].task <= writer.task /\ (ctl'[i].task = writer.task => writer.finalizing)
      OBVIOUS
    <3>1. CASE i \in 1..Len(ctl)
      BY <1>4, <2>1, <3>1 DEF Disciplined
    <3>2. CASE i = Len(ctl) + 1
      <4>1. ctl'[i] = reader.todo[1].what
        BY <1>3, <1>4, <3>2
      <4> QED
        BY <1>2, <2>1, <2>5, <4>1 DEF Disciplined
    <3> QED
      BY <1>5, <3>1, <3>2
  <2>7. CASE f.k = "started"
    <3>1. 1 \in Telling
      BY <1>2, <1>3, <2>5, <2>7 DEF Telling
    <3>2. Starteds(net.down) = {} /\ Starteds(ctl) = {} /\ ~writer.started /\ writer.pc # "start"
      BY <2>1, <3>1 DEF Disciplined
    <3>3. Telling' = {}
      <4>1. Len(reader'.todo) = Len(reader.todo) - 1 /\ Len(reader.todo) \in Nat
        BY <1>1
      <4>2. \A i \in 1..Len(reader'.todo) : i + 1 \in 1..Len(reader.todo) /\ reader'.todo[i] = reader.todo[i + 1]
        BY <1>1, <4>1
      <4>3. \A i \in Telling' : i + 1 \in Telling /\ i \in Nat /\ i + 1 # 1
        BY <4>1, <4>2 DEF Telling
      <4> QED
        BY <2>1, <3>1, <4>3 DEF AtMostOne
    <3>4. Starteds(ctl)' = {Len(ctl) + 1}
      BY <1>4, <1>5, <2>7, <3>2 DEF Starteds
    <3>5. AtMostOne(Starteds(net.down))' /\ AtMostOne(Starteds(ctl))' /\ AtMostOne(Telling)'
      BY <2>2, <2>3, <3>2, <3>4 DEF AtMostOne
    <3> QED
      BY <2>1, <2>3, <2>4, <2>6, <2>a, <3>2, <3>3, <3>4, <3>5 DEF Disciplined, Alive
  <2>8. CASE f.k # "started"
    <3>1. Starteds(ctl)' = Starteds(ctl)
      BY <1>4, <1>5, <2>8 DEF Starteds
    <3>2. AtMostOne(Starteds(net.down))' /\ AtMostOne(Starteds(ctl))'
      BY <2>1, <2>3, <3>1 DEF Disciplined, AtMostOne
    <3> QED
      BY <2>1, <2>2, <2>3, <2>4, <2>6, <2>a, <3>1, <3>2 DEF Disciplined, Alive
  <2> QED
    BY <2>7, <2>8
<1> QED
  BY <1>6, <1>7, <1>8 DEF QwenOK

(* A frame is read: what is left on the way was on it, and the writer is told    *)
(* of this one frame.                                                           *)
LEMMA FrameRead ==
    ASSUME StreamOK, QwenOK, net.down # <<>>, net' = [net EXCEPT !.down = Tail(@)],
           NEW f, f = Head(net.down),
           \A i \in 1..Len(reader'.todo) : reader'.todo[i].do = "tell" => reader'.todo[i].what = f,
           AtMostOne(Telling)',
           writer' = writer, line' \in Lines, line'.base = line.base, line'.gaps = line.gaps, in' = in,
           caller' = caller, finalize' = finalize, ctx' = ctx, ctl' = ctl
    PROVE  QwenOK'
<1>1. QueueFacts
  BY Typed DEF QwenOK
<1>2. net \in Nets(QwenFrames) /\ net.down \in Seq(QwenFrames)
  BY <1>1 DEF QueueFacts
<1>3. /\ Tail(net.down) \in Seq(QwenFrames) /\ Len(Tail(net.down)) = Len(net.down) - 1 /\ Len(net.down) \in Nat
      /\ \A i \in 1..Len(Tail(net.down)) : i + 1 \in 1..Len(net.down) /\ Tail(net.down)[i] = net.down[i + 1]
      /\ 1 \in 1..Len(net.down) /\ f = net.down[1]
  BY <1>2
<1> DEFINE d == Tail(net.down)
<1> HIDE DEF d
<1>4. /\ net' \in Nets(QwenFrames) /\ net'.down = d /\ net'.lost = net.lost /\ net'.on = net.on
      /\ net'.task = net.task /\ net'.heard = net.heard /\ net'.ending = net.ending /\ net'.stray = net.stray
  <2>1. d \in Seq(QwenFrames) /\ net' = [net EXCEPT !.down = d]
    BY <1>3 DEF d
  <2>2. net' \in Nets(QwenFrames)
    BY <1>2, <2>1 DEF Nets
  <2>3. /\ net'.down = d /\ net'.lost = net.lost /\ net'.on = net.on
        /\ net'.task = net.task /\ net'.heard = net.heard /\ net'.ending = net.ending /\ net'.stray = net.stray
    BY <1>2, <2>1 DEF Nets
  <2> QED
    BY <2>2, <2>3
<1>5. \A i \in 1..Len(net'.down) : i + 1 \in 1..Len(net.down) /\ net'.down[i] = net.down[i + 1] /\ i \in Nat
  BY <1>3, <1>4 DEF d
<1>6. QwenTypeOK' /\ Counted'
  BY <1>4 DEF QwenOK, QwenTypeOK, Counted, Alive
<1>7. Timeline'
  <2>1. \A ms : Unpad(ms)' = Unpad(ms)
    BY UnpadSame
  <2>2. Timeline
    BY DEF QwenOK
  <2>3. PlacedIn(net.heard)' = PlacedIn(net.heard)
    BY <1>4, <2>1 DEF PlacedIn, OnLine
  <2>4. \A i \in 1..Len(net.ending) : PlacedIn(net.ending[i].heard)' = PlacedIn(net.ending[i].heard)
    BY <1>4, <2>1 DEF PlacedIn, OnLine
  <2>5. \A i \in 1..Len(net'.down) : PlacedResult(net.down[i])' = PlacedResult(net.down[i + 1])
    BY <1>5, <2>1 DEF PlacedResult
  <2>6. Alive => \A i \in 1..Len(net'.down) :
          net'.down[i].k = "result" =>
            net'.down[i].task <= writer'.task /\ (net'.down[i].task = writer'.task => PlacedResult(net.down[i])')
    BY <1>5, <2>2, <2>5 DEF Timeline
  <2>7. Alive' = Alive
    BY DEF Alive
  <2>8. Alive => /\ writer'.pad = KeepAliveMs * Len(line'.gaps)
                 /\ \A i \in 1..Len(line'.gaps) :
                       line'.gaps[i].ms = KeepAliveMs /\ line'.gaps[i].at + KeepAliveMs <= writer'.sent + writer'.pad
                 /\ net'.on => Len(net'.heard) = writer'.sent + writer'.pad
                 /\ PlacedIn(net.heard)'
                 /\ \A i \in 1..Len(net'.ending) :
                       net'.ending[i].task <= writer'.task
                       /\ (net'.ending[i].task = writer'.task => PlacedIn(net.ending[i].heard)')
    BY <1>4, <2>2, <2>3, <2>4 DEF Timeline
  <2> QED
    BY <2>6, <2>7, <2>8 DEF Timeline
<1>8. Disciplined'
  <2>a. net'.stray => writer'.misled
    BY <1>4 DEF QwenOK, Disciplined
  <2> SUFFICES ASSUME Alive, ~writer.misled
               PROVE  Disciplined'
    BY <2>a DEF Disciplined, Alive
  <2>1. Disciplined
    BY DEF QwenOK
  <2>2. \A i \in Starteds(net.down)' : i + 1 \in Starteds(net.down) /\ i \in Nat
    BY <1>5 DEF Starteds
  <2>3. Starteds(ctl)' = Starteds(ctl)
    BY DEF Starteds
  <2>4. AtMostOne(Starteds(net.down)) /\ AtMostOne(Starteds(ctl))
    BY <2>1 DEF Disciplined
  <2>5. AtMostOne(Starteds(net.down))' /\ AtMostOne(Starteds(ctl))'
    BY <2>2, <2>3, <2>4 DEF AtMostOne
  <2>6. Starteds(net.down) = {} => Starteds(net.down)' = {}
    BY <2>2
  <2>7. Telling' # {} => f.k = "started"
    BY DEF Telling
  <2>8. Telling' # {} => 1 \in Starteds(net.down)
    BY <1>3, <2>7 DEF Starteds
  <2>9. Telling' # {} => Starteds(net.down)' = {}
    <3> SUFFICES ASSUME Telling' # {}, NEW i \in Starteds(net.down)'
                 PROVE  FALSE
      OBVIOUS
    <3>1. 1 \in Starteds(net.down) /\ i + 1 \in Starteds(net.down) /\ i \in Nat
      BY <2>2, <2>8
    <3>2. i + 1 = 1
      BY <2>4, <3>1 DEF AtMostOne
    <3>3. i = 0
      BY <3>1, <3>2
    <3> QED
      BY <1>5, <3>3 DEF Starteds
  <2>10. Starteds(net.down) = {} => Telling' = {}
    BY <2>8
  <2>11. \A i \in 1..Len(net'.down) :
              net'.down[i].k = "finished" => net'.down[i].task <= writer'.task
                                            /\ (net'.down[i].task = writer'.task => writer'.finalizing)
    BY <1>5, <2>1 DEF Disciplined
  <2>12. \A i \in 1..Len(reader'.todo) :
              reader'.todo[i].do = "tell" /\ reader'.todo[i].what.k = "finished" =>
                 reader'.todo[i].what.task <= writer'.task
                 /\ (reader'.todo[i].what.task = writer'.task => writer'.finalizing)
    BY <1>3, <2>1 DEF Disciplined
  <2>13. \A i \in 1..Len(net'.ending) : net'.ending[i].task = writer'.task => writer'.finalizing
    BY <1>4, <2>1 DEF Disciplined
  <2> QED
    BY <2>1, <2>3, <2>5, <2>6, <2>9, <2>10, <2>11, <2>12, <2>13, <2>a DEF Disciplined, Alive
<1> QED
  BY <1>6, <1>7, <1>8 DEF QwenOK

(* Where a position lies is a number.                                           *)
LEMMA UnpadType ==
    ASSUME line \in Lines, NEW ms \in Int
    PROVE  Unpad(ms) \in Int
<1> DEFINE g == line.gaps
           before == {i \in 1..Len(g) : ms >= g[i].at + g[i].ms}
           inside == {i \in 1..Len(g) : g[i].at < ms /\ ms < g[i].at + g[i].ms}
<1>1. g \in Seq(Gaps) /\ KeepAliveMs \in Nat
  BY AsrAssumption DEF Lines
<1>2. Len(g) \in Nat /\ \A i \in 1..Len(g) : g[i] \in Gaps
  BY <1>1
<1>3. IsFiniteSet(1..Len(g))
  BY <1>2, FS_Interval
<1>4. IsFiniteSet(before)
  BY <1>3, FS_Subset
<1>5. Cardinality(before) \in Nat
  BY <1>4, FS_CardinalityType
<1>6. \A i \in 1..Len(g) : g[i].at \in Nat
  BY <1>2 DEF Gaps
<1>7. inside # {} => g[CHOOSE i \in inside : TRUE].at \in Nat
  BY <1>6
<1>8. Unpad(ms) = IF inside = {} THEN ms - KeepAliveMs * Cardinality(before)
                  ELSE g[CHOOSE i \in inside : TRUE].at - KeepAliveMs * Cardinality(before)
  BY DEF Unpad
<1> HIDE DEF before, inside, g
<1>9. KeepAliveMs * Cardinality(before) \in Int
  BY <1>1, <1>5
<1> QED
  BY <1>7, <1>8, <1>9

(* emitSentence: a result of the current task is put on the timeline of the      *)
(* pushed audio, where its frames are.                                          *)
LEMMA SentenceOnTime ==
    ASSUME StreamOK, QwenOK, Alive, NEW f \in ResultFrames, NEW i \in 1..Len(net.down), f = net.down[i]
    PROVE  Sentence(f) \in GoodEvents
<1>1. line \in Lines /\ line.base \in Nat /\ writer.task \in Nat
  BY Typed DEF QwenOK, QueueFacts
<1>2. f.begin \in Int /\ f.end \in Int /\ f.first \in Int /\ f.last \in Int /\ f.final \in BOOLEAN /\ f.k = "result"
  BY DEF ResultFrames
<1> DEFINE e == Sentence(f)
           kd == IF f.final THEN "final" ELSE "partial"
           b == line.base + Unpad(f.begin)
           x == IF f.final THEN f.end ELSE f.begin
           z == line.base + Unpad(x)
           lt == f.task # writer.task
<1>3. kd \in {"partial", "final"} /\ (kd = "final" <=> f.final) /\ lt \in BOOLEAN
  <2>1. lt \in BOOLEAN
    OBVIOUS
  <2>2. f.final => kd = "final"
    OBVIOUS
  <2>3. ~f.final => kd = "partial"
    OBVIOUS
  <2> HIDE DEF kd, lt
  <2>4. kd \in {"partial", "final"}
    BY <2>2, <2>3
  <2>5. kd = "final" <=> f.final
    BY <2>2, <2>3
  <2> QED
    BY <2>1, <2>4, <2>5
<1>4. x \in Int
  BY <1>2
<1> HIDE DEF kd, x
<1>5. Unpad(f.begin) \in Int /\ Unpad(x) \in Int
  BY <1>1, <1>2, <1>4, UnpadType
<1>6. b \in Int /\ z \in Int
  BY <1>1, <1>5
<1>7. e = [kind |-> kd, start |-> b, end |-> z, first |-> f.first, last |-> f.last, late |-> lt]
  BY DEF Sentence, kd, x
<1>8. ~lt => b = f.first - 1 /\ z = IF kd = "final" THEN f.last ELSE b
  <2> SUFFICES ASSUME f.task = writer.task
               PROVE  b = f.first - 1 /\ z = IF kd = "final" THEN f.last ELSE b
    OBVIOUS
  <2>1. PlacedResult(f)
    BY <1>2 DEF QwenOK, Timeline
  <2>2. b = f.first - 1 /\ line.base + Unpad(f.end) = f.last
    BY <2>1 DEF PlacedResult
  <2>3. CASE f.final
    BY <1>3, <2>2, <2>3 DEF x
  <2>4. CASE ~f.final
    BY <1>3, <2>2, <2>4 DEF x
  <2> QED
    BY <2>3, <2>4
<1> HIDE DEF b, z, lt, e
<1>9. e \in Transcripts
  BY <1>2, <1>3, <1>6, <1>7 DEF Transcripts
<1>10. e.kind = kd /\ e.start = b /\ e.end = z /\ e.first = f.first /\ e.last = f.last /\ e.late = lt
  BY <1>7
<1>11. OnTime(e)
  BY <1>8, <1>10 DEF OnTime
<1> QED
  BY <1>9, <1>11 DEF GoodEvents, e

(* What handle leaves the reader with.                                          *)
LEMMA GoesOK ==
    ASSUME NEW todo \in Seq(Todos), NEW last \in BOOLEAN, Goes(todo, last)
    PROVE  reader' \in Readers /\ reader'.todo = todo /\ (reader'.pc = "todo" => reader'.todo # <<>>)
<1> DEFINE pc == IF todo # <<>> THEN "todo" ELSE IF last THEN "exit" ELSE "read"
<1>1. reader' = [pc |-> pc, todo |-> todo, last |-> last]
  BY DEF Goes
<1>2. pc \in {"read", "todo", "exit", "done"} /\ (pc = "todo" => todo # <<>>)
  OBVIOUS
<1> HIDE DEF pc
<1> QED
  BY <1>1, <1>2 DEF Readers

(* Plain events and lifecycle frames are things to hand on.                     *)
LEMMA TodoTypes ==
    /\ \A kd \in {"partial", "final", "eot", "error"} : EmitTodo(Event(kd)) \in Todos
    /\ \A e \in GoodEvents : EmitTodo(e) \in Todos /\ EmitTodo(e).do = "emit" /\ EmitTodo(e).what = e
    /\ \A f \in CtlFrames : TellTodo(f) \in Todos /\ TellTodo(f).do = "tell" /\ TellTodo(f).what = f
<1>1. \A kd \in {"partial", "final", "eot", "error"} : Event(kd) \in GoodEvents
  BY DEF Event, GoodEvents, PlainEvents
<1>2. \A e \in GoodEvents : EmitTodo(e) \in Todos /\ EmitTodo(e).do = "emit" /\ EmitTodo(e).what = e
  BY DEF EmitTodo, Todos, EmitTodos
<1>3. \A f \in CtlFrames : TellTodo(f) \in Todos /\ TellTodo(f).do = "tell" /\ TellTodo(f).what = f
  BY DEF TellTodo, Todos, TellTodos
<1> QED
  BY <1>1, <1>2, <1>3

(* handle, of Qwen's frames.                                                    *)
LEMMA QwenReadsOK ==
    ASSUME StreamOK, QwenOK, QwenReads
    PROVE  StreamOK' /\ QwenOK'
<1> DEFINE f == Head(net.down)
           l == [line EXCEPT !.ack = FALSE]
           err == EmitTodo(Event("error"))
           eot == EmitTodo(Event("eot"))
           tell == TellTodo(f)
<1>1. /\ ~ctx /\ net.down # <<>> /\ net' = [net EXCEPT !.down = Tail(@)]
      /\ writer' = writer /\ in' = in /\ caller' = caller /\ finalize' = finalize /\ ctx' = ctx /\ ctl' = ctl
      /\ events' = events /\ kind' = kind
  BY DEF QwenReads, ReadFrame, ReaderFrame
<1>2. QueueFacts /\ Alive
  BY <1>1, Typed DEF QwenOK, Counted, Alive
<1>3. f \in QwenFrames /\ 1 \in 1..Len(net.down) /\ f = net.down[1]
  <2>1. net.down \in Seq(QwenFrames)
    BY <1>2 DEF QueueFacts
  <2> QED
    BY <1>1, <2>1, First
<1>4. l \in Lines /\ l.base = line.base /\ l.gaps = line.gaps /\ line \in Lines
  BY <1>2 DEF QueueFacts, Lines
<1>5. /\ \/ f.k = "result" /\ Goes(<<EmitTodo(Sentence(f))>>, FALSE) /\ line' = line
         \/ f.k = "started" /\ line' = l /\ Goes(<<tell>>, FALSE)
         \/ f.k = "finished" /\ line' = line /\ Goes((IF Closing THEN <<>> ELSE <<eot>>) \o <<tell>>, FALSE)
         \/ f.k = "failed" /\ line' = line /\ Goes(<<err, tell>>, TRUE)
  BY DEF QwenReads
<1> HIDE DEF l, err, eot, tell
<1>6. line' \in Lines /\ line'.base = line.base /\ line'.gaps = line.gaps
  BY <1>4, <1>5
<1>7. err \in Todos /\ eot \in Todos /\ err.do = "emit" /\ eot.do = "emit"
  <2>1. Event("eot") \in GoodEvents /\ Event("error") \in GoodEvents
    BY DEF Event, GoodEvents, PlainEvents
  <2> QED
    BY <2>1, TodoTypes DEF err, eot
<1>8. f.k # "result" => tell \in Todos /\ tell.do = "tell" /\ tell.what = f
  <2>1. f.k # "result" => f \in CtlFrames
    BY <1>3 DEF QwenFrames, ResultFrames
  <2> QED
    BY <2>1, TodoTypes DEF tell
<1>9. ASSUME NEW todo \in Seq(Todos), NEW last \in BOOLEAN, Goes(todo, last),
             \A i \in 1..Len(todo) : todo[i].do = "tell" => todo[i].what = f,
             f.k = "started" => Len(todo) = 1
      PROVE  StreamOK' /\ QwenOK'
  <2>1. reader' \in Readers /\ reader'.todo = todo /\ (reader'.pc = "todo" => reader'.todo # <<>>)
    BY <1>9, GoesOK
  <2>2. \A i \in 1..Len(reader'.todo) : reader'.todo[i].do = "tell" => reader'.todo[i].what = f
    BY <1>9, <2>1
  <2>3. AtMostOne(Telling)'
    <3>1. f.k = "started" => \A i \in Telling' : i = 1
      BY <1>9, <2>1 DEF Telling
    <3>2. f.k # "started" => Telling' = {}
      BY <2>2 DEF Telling
    <3> QED
      BY <3>1, <3>2 DEF AtMostOne
  <2>4. StreamOK'
    BY <1>1, <2>1 DEF StreamOK
  <2> HIDE DEF f
  <2>5. f = Head(net.down)
    BY DEF f
  <2> QED
    BY <1>1, <1>6, <2>2, <2>3, <2>4, <2>5, FrameRead
<1>10. CASE f.k = "result"
  <2> DEFINE e == EmitTodo(Sentence(f))
  <2>1. f \in ResultFrames
    BY <1>3, <1>10 DEF QwenFrames, CtlFrames, LifeFrames, FailFrames
  <2>2. Sentence(f) \in GoodEvents
    BY <1>2, <1>3, <2>1, SentenceOnTime
  <2>3. e \in Todos /\ e.do = "emit"
    BY <2>2, TodoTypes
  <2> DEFINE todo == <<e>>
  <2>4. Goes(todo, FALSE)
    BY <1>5, <1>10
  <2> HIDE DEF e
  <2>5. todo \in Seq(Todos) /\ Len(todo) = 1 /\ todo[1] = e
    BY <2>3
  <2> HIDE DEF todo
  <2>6. \A i \in 1..Len(todo) : todo[i].do = "tell" => todo[i].what = f
    BY <2>3, <2>5
  <2> QED
    BY <1>9, <1>10, <2>4, <2>5, <2>6
<1>11. CASE f.k = "started"
  <2> DEFINE todo == <<tell>>
  <2>1. Goes(todo, FALSE)
    BY <1>5, <1>11
  <2>2. todo \in Seq(Todos) /\ Len(todo) = 1 /\ todo[1] = tell
    BY <1>8, <1>11
  <2> HIDE DEF todo
  <2>3. \A i \in 1..Len(todo) : todo[i].do = "tell" => todo[i].what = f
    BY <1>8, <1>11, <2>2
  <2> QED
    BY <1>9, <1>11, <2>1, <2>2, <2>3
<1>12. CASE f.k = "finished"
  <2>1. Goes((IF Closing THEN <<>> ELSE <<eot>>) \o <<tell>>, FALSE)
    BY <1>5, <1>12
  <2>2. tell \in Todos /\ tell.what = f
    BY <1>8, <1>12
  <2>3. CASE Closing
    <3> DEFINE todo == <<>> \o <<tell>>
    <3>1. Goes(todo, FALSE)
      BY <2>1, <2>3
    <3>2. todo \in Seq(Todos) /\ Len(todo) = 1 /\ todo[1] = tell
      BY <2>2
    <3> HIDE DEF todo
    <3>3. \A i \in 1..Len(todo) : todo[i].do = "tell" => todo[i].what = f
      BY <2>2, <3>2
    <3> QED
      BY <1>9, <1>12, <3>1, <3>2, <3>3
  <2>4. CASE ~Closing
    <3> DEFINE todo == <<eot>> \o <<tell>>
    <3>1. Goes(todo, FALSE)
      BY <2>1, <2>4
    <3>2. todo \in Seq(Todos) /\ Len(todo) = 2 /\ todo[1] = eot /\ todo[2] = tell
      BY <1>7, <2>2
    <3> HIDE DEF todo
    <3>3. \A i \in 1..Len(todo) : todo[i].do = "tell" => todo[i].what = f
      <4>1. \A i \in 1..Len(todo) : i = 1 \/ i = 2
        BY <3>2
      <4> QED
        BY <1>7, <2>2, <3>2, <4>1
    <3> QED
      BY <1>9, <1>12, <3>1, <3>2, <3>3
  <2> QED
    BY <2>3, <2>4
<1>13. CASE f.k = "failed"
  <2> DEFINE todo == <<err, tell>>
  <2>1. Goes(todo, TRUE)
    BY <1>5, <1>13
  <2>2. tell \in Todos /\ tell.what = f
    BY <1>8, <1>13
  <2>3. todo \in Seq(Todos) /\ Len(todo) = 2 /\ todo[1] = err /\ todo[2] = tell
    BY <1>7, <2>2
  <2> HIDE DEF todo
  <2>4. \A i \in 1..Len(todo) : todo[i].do = "tell" => todo[i].what = f
    <3>1. \A i \in 1..Len(todo) : i = 1 \/ i = 2
      BY <2>3
    <3> QED
      BY <1>7, <2>2, <2>3, <3>1
  <2> QED
    BY <1>9, <1>13, <2>1, <2>3, <2>4
<1> QED
  BY <1>5, <1>10, <1>11, <1>12, <1>13

(* The reader of either stream: every event it hands on is on time.             *)
LEMMA ReaderStepOK ==
    ASSUME StreamOK, ReaderStep
    PROVE  /\ StreamOK'
           /\ writer' = writer /\ net' = net /\ in' = in /\ caller' = caller /\ kind' = kind /\ (ctx => ctx')
           /\ \/ TodoLeft /\ ctl' = ctl
              \/ /\ reader.todo # <<>> /\ Head(reader.todo).do = "tell" /\ ctx' = ctx
                 /\ ctl' = Append(ctl, Head(reader.todo).what) /\ reader'.todo = Tail(reader.todo)
<1>1. /\ writer' = writer /\ net' = net /\ in' = in /\ caller' = caller /\ kind' = kind
  BY DEF ReaderStep, ReadEnds, ReaderEmits, ReaderTells, ReaderExits, ReaderFrame
<1>2. reader \in Readers /\ reader.todo \in Seq(Todos) /\ reader.last \in BOOLEAN
      /\ events \in [q : Seq(GoodEvents), closed : BOOLEAN]
  BY DEF StreamOK, Readers
<1> DEFINE none == <<>>
           h == Head(reader.todo)
<1>3. none \in Seq(Todos) /\ Len(none) = 0 /\ FALSE \in BOOLEAN /\ TRUE \in BOOLEAN
  OBVIOUS
<1> HIDE DEF none
<1>a. Goes(none, TRUE) =>
         /\ reader' \in Readers /\ (reader'.pc = "todo" => reader'.todo # <<>>)
         /\ \A i \in 1..Len(reader'.todo) : reader'.todo[i].do = "emit"
  <2> SUFFICES ASSUME Goes(none, TRUE)
               PROVE  /\ reader' \in Readers /\ (reader'.pc = "todo" => reader'.todo # <<>>)
                      /\ \A i \in 1..Len(reader'.todo) : reader'.todo[i].do = "emit"
    OBVIOUS
  <2>1. reader' \in Readers /\ reader'.todo = none /\ (reader'.pc = "todo" => reader'.todo # <<>>)
    BY <1>3, GoesOK
  <2> QED
    BY <1>3, <2>1
<1>b. reader.pc = "todo" =>
         reader.todo # <<>> /\ Tail(reader.todo) \in Seq(Todos) /\ h = reader.todo[1] /\ h \in Todos
  BY <1>2 DEF StreamOK
<1>4. CASE ReadEnds
  <2> DEFINE e == EmitTodo(Event("error"))
             one == <<e>>
  <2>1. e \in Todos /\ e.do = "emit"
    <3>1. Event("error") \in GoodEvents
      BY DEF Event, GoodEvents, PlainEvents
    <3> QED
      BY <3>1, TodoTypes
  <2>2. ctx' = ctx /\ ctl' = ctl /\ events' = events /\ (Goes(none, TRUE) \/ Goes(one, TRUE))
    BY <1>4 DEF ReadEnds, none
  <2> HIDE DEF e
  <2>3. one \in Seq(Todos) /\ Len(one) = 1 /\ one[1] = e
    BY <2>1
  <2> HIDE DEF one
  <2>4. ASSUME Goes(one, TRUE)
        PROVE  /\ reader' \in Readers /\ (reader'.pc = "todo" => reader'.todo # <<>>)
               /\ \A i \in 1..Len(reader'.todo) : reader'.todo[i].do = "emit"
    <3>1. reader' \in Readers /\ reader'.todo = one /\ (reader'.pc = "todo" => reader'.todo # <<>>)
      BY <1>3, <2>3, <2>4, GoesOK
    <3>2. \A i \in 1..Len(one) : i = 1
      BY <2>3
    <3> QED
      BY <2>1, <2>3, <3>1, <3>2
  <2> QED
    BY <1>1, <1>a, <2>2, <2>4 DEF StreamOK, TodoLeft
<1>5. CASE ReaderEmits
  <2>1. ctx' = ctx /\ ctl' = ctl /\ h.do = "emit" /\ reader.pc = "todo"
    BY <1>5 DEF ReaderEmits
  <2>2. CASE EmitDropped /\ Goes(none, TRUE)
    BY <1>1, <1>a, <2>1, <2>2 DEF StreamOK, TodoLeft, EmitDropped
  <2>3. CASE EmitQueued(h.what) /\ Goes(Tail(reader.todo), reader.last)
    <3>1. /\ reader' \in Readers /\ reader'.todo = Tail(reader.todo)
          /\ (reader'.pc = "todo" => reader'.todo # <<>>)
      BY <1>2, <1>b, <2>1, <2>3, GoesOK
    <3>2. h.what \in GoodEvents
      BY <1>b, <2>1 DEF Todos, EmitTodos, TellTodos
    <3>3. events' \in [q : Seq(GoodEvents), closed : BOOLEAN]
      <4> DEFINE q == Append(events.q, h.what)
      <4>1. q \in Seq(GoodEvents)
        BY <1>2, <3>2
      <4>2. events' = [events EXCEPT !.q = q]
        BY <2>3 DEF EmitQueued
      <4> HIDE DEF q
      <4> QED
        BY <1>2, <4>1, <4>2
    <3> QED
      BY <1>1, <1>b, <2>1, <3>1, <3>3 DEF StreamOK, TodoLeft
  <2> QED
    BY <1>5, <2>2, <2>3 DEF ReaderEmits, none
<1>6. CASE ReaderTells
  <2>1. ctx' = ctx /\ events' = events /\ h.do = "tell" /\ reader.pc = "todo"
    BY <1>6 DEF ReaderTells
  <2>2. CASE Goes(none, TRUE) /\ ctl' = ctl
    BY <1>1, <1>a, <2>1, <2>2 DEF StreamOK, TodoLeft
  <2>3. CASE ctl' = Append(ctl, h.what) /\ Goes(Tail(reader.todo), reader.last)
    <3>1. /\ reader' \in Readers /\ reader'.todo = Tail(reader.todo)
          /\ (reader'.pc = "todo" => reader'.todo # <<>>)
      BY <1>2, <1>b, <2>1, <2>3, GoesOK
    <3> QED
      BY <1>1, <1>b, <2>1, <2>3, <3>1 DEF StreamOK
  <2> QED
    BY <1>6, <2>2, <2>3 DEF ReaderTells, none
<1>7. CASE ReaderExits
  <2> DEFINE r == [reader EXCEPT !.pc = "done"]
             ev == [events EXCEPT !.closed = TRUE]
  <2>1. reader' = r /\ events' = ev /\ ctx' = TRUE /\ ctl' = ctl
    BY <1>7 DEF ReaderExits
  <2>2. r \in Readers /\ r.todo = reader.todo /\ r.pc = "done"
    BY <1>2 DEF Readers
  <2>3. ev \in [q : Seq(GoodEvents), closed : BOOLEAN]
    BY <1>2
  <2> HIDE DEF r, ev
  <2> QED
    BY <1>1, <2>1, <2>2, <2>3 DEF StreamOK, TodoLeft
<1> QED
  BY <1>4, <1>5, <1>6, <1>7 DEF ReaderStep

(* The reader's steps that Qwen's stream shares with Deepgram's.                *)
LEMMA QwenReaderOK ==
    ASSUME StreamOK, QwenOK, ReaderStep, UNCHANGED <<finalize, line>>
    PROVE  StreamOK' /\ QwenOK'
<1>1. finalize' = finalize /\ line' = line
  OBVIOUS
<1>2. /\ StreamOK'
      /\ writer' = writer /\ net' = net /\ in' = in /\ caller' = caller /\ (ctx => ctx')
      /\ \/ TodoLeft /\ ctl' = ctl
         \/ /\ reader.todo # <<>> /\ Head(reader.todo).do = "tell" /\ ctx' = ctx
            /\ ctl' = Append(ctl, Head(reader.todo).what) /\ reader'.todo = Tail(reader.todo)
  BY ReaderStepOK
<1>3. CASE TodoLeft /\ ctl' = ctl
  BY <1>1, <1>2, <1>3, ReaderLess
<1>4. CASE /\ reader.todo # <<>> /\ Head(reader.todo).do = "tell" /\ ctx' = ctx
           /\ ctl' = Append(ctl, Head(reader.todo).what) /\ reader'.todo = Tail(reader.todo)
  BY <1>1, <1>2, <1>4, TellsOK
<1> QED
  BY <1>2, <1>3, <1>4

(* ---- the service ---------------------------------------------------------------------------- *)

\* What the service may say: where a result's frames are, or the end of a task
\* that the writer ended.
Sayable(f) ==
    /\ f.k # "started"
    /\ Alive /\ f.k = "result" =>
          f.task <= writer.task /\ (f.task = writer.task => PlacedResult(f))
    /\ Alive /\ ~writer.misled /\ f.k = "finished" =>
          f.task <= writer.task /\ (f.task = writer.task => writer.finalizing)

(* The service says something, of what it heard in a task.                      *)
LEMMA Said ==
    ASSUME StreamOK, QwenOK, net' \in Nets(QwenFrames), NEW fs \in Seq(QwenFrames), net'.down = net.down \o fs,
           \A i \in 1..Len(fs) : Sayable(fs[i]),
           net'.ending = net.ending \/ (net.ending # <<>> /\ net'.ending = Tail(net.ending)),
           net'.on = net.on, net'.task = net.task, net'.heard = net.heard, net'.stray = net.stray,
           writer' = writer, line' = line, in' = in, reader' = reader,
           caller' = caller, finalize' = finalize, ctx => ctx', ctl' = ctl
    PROVE  QwenOK'
<1>1. QueueFacts
  BY Typed DEF QwenOK
<1>2. net.down \in Seq(QwenFrames) /\ net.ending \in Seq(Endings)
  BY <1>1 DEF QueueFacts
<1>3. /\ Len(net'.down) = Len(net.down) + Len(fs) /\ Len(net.down) \in Nat /\ Len(fs) \in Nat
      /\ \A i \in 1..Len(net.down) : net'.down[i] = net.down[i]
  BY <1>2
<1>4. \A i \in 1..Len(net'.down) :
         \/ i \in 1..Len(net.down) /\ net'.down[i] = net.down[i]
         \/ Sayable(net'.down[i])
  <2> SUFFICES ASSUME NEW i \in 1..Len(net'.down), i \notin 1..Len(net.down)
               PROVE  Sayable(net'.down[i])
    BY <1>3
  <2>1. i - Len(net.down) \in 1..Len(fs) /\ net'.down[i] = fs[i - Len(net.down)]
    BY <1>2, <1>3
  <2> QED
    BY <2>1
<1>5. \A i \in 1..Len(net'.ending) : \E j \in 1..Len(net.ending) : net'.ending[i] = net.ending[j]
  <2>1. CASE net'.ending = net.ending
    BY <2>1
  <2>2. CASE net.ending # <<>> /\ net'.ending = Tail(net.ending)
    <3>1. Len(net'.ending) = Len(net.ending) - 1 /\ Len(net.ending) \in Nat
      BY <1>2, <2>2
    <3>2. \A i \in 1..Len(net'.ending) : i + 1 \in 1..Len(net.ending) /\ net'.ending[i] = net.ending[i + 1]
      BY <1>2, <2>2, <3>1
    <3> QED
      BY <3>2
  <2> QED
    BY <2>1, <2>2
<1>6. QwenTypeOK' /\ Counted'
  BY DEF QwenOK, QwenTypeOK, Counted, Alive
<1>7. Timeline'
  <2> SUFFICES ASSUME Alive
               PROVE  Timeline'
    BY DEF Timeline, Alive
  <2>1. \A ms : Unpad(ms)' = Unpad(ms)
    BY UnpadSame
  <2>2. Timeline
    BY DEF QwenOK
  <2>3. PlacedIn(net.heard)' = PlacedIn(net.heard)
    BY <2>1 DEF PlacedIn, OnLine
  <2>4. \A i \in 1..Len(net'.ending) :
           net'.ending[i].task <= writer'.task
           /\ (net'.ending[i].task = writer'.task => PlacedIn(net.ending[i].heard)')
    <3> SUFFICES ASSUME NEW i \in 1..Len(net'.ending)
                 PROVE  net'.ending[i].task <= writer'.task
                        /\ (net'.ending[i].task = writer'.task => PlacedIn(net.ending[i].heard)')
      OBVIOUS
    <3>1. PICK j \in 1..Len(net.ending) : net'.ending[i] = net.ending[j]
      BY <1>5
    <3>2. net.ending[j].task <= writer.task /\ (net.ending[j].task = writer.task => PlacedIn(net.ending[j].heard))
      BY <2>2 DEF Timeline
    <3>3. PlacedIn(net.ending[i].heard)' = PlacedIn(net.ending[j].heard)
      BY <2>1, <3>1 DEF PlacedIn, OnLine
    <3> QED
      BY <3>1, <3>2, <3>3
  <2>5. \A i \in 1..Len(net'.down) :
          net'.down[i].k = "result" =>
            net'.down[i].task <= writer'.task /\ (net'.down[i].task = writer'.task => PlacedResult(net.down[i])')
    <3> SUFFICES ASSUME NEW i \in 1..Len(net'.down), net'.down[i].k = "result"
                 PROVE  net'.down[i].task <= writer.task
                        /\ (net'.down[i].task = writer.task => PlacedResult(net.down[i])')
      OBVIOUS
    <3> DEFINE f == net'.down[i]
    <3>1. f.task <= writer.task /\ (f.task = writer.task => PlacedResult(f))
      BY <1>4, <2>2 DEF Timeline, Sayable
    <3>2. PlacedResult(net.down[i])' = PlacedResult(f)
      BY <2>1 DEF PlacedResult
    <3> QED
      BY <3>1, <3>2
  <2> QED
    BY <2>2, <2>3, <2>4, <2>5 DEF Timeline, Alive
<1>8. Disciplined'
  <2>a. net'.stray => writer'.misled
    BY DEF QwenOK, Disciplined
  <2> SUFFICES ASSUME Alive, ~writer.misled
               PROVE  Disciplined'
    BY <2>a DEF Disciplined, Alive
  <2>1. Disciplined
    BY DEF QwenOK
  <2>2. Starteds(net.down)' = Starteds(net.down)
    BY <1>3, <1>4 DEF Starteds, Sayable
  <2>3. Starteds(ctl)' = Starteds(ctl) /\ Telling' = Telling
    BY DEF Starteds, Telling
  <2>4. AtMostOne(Starteds(net.down))' /\ AtMostOne(Starteds(ctl))' /\ AtMostOne(Telling)'
    BY <2>1, <2>2, <2>3 DEF Disciplined, AtMostOne
  <2>5. \A i \in 1..Len(net'.ending) : net'.ending[i].task = writer'.task => writer'.finalizing
    BY <1>5, <2>1 DEF Disciplined
  <2>6. \A i \in 1..Len(net'.down) :
              net'.down[i].k = "finished" => net'.down[i].task <= writer'.task
                                            /\ (net'.down[i].task = writer'.task => writer'.finalizing)
    BY <1>4, <2>1 DEF Disciplined, Sayable
  <2> QED
    BY <2>1, <2>2, <2>3, <2>4, <2>5, <2>6, <2>a DEF Disciplined, Alive
<1> QED
  BY <1>6, <1>7, <1>8 DEF QwenOK

(* What the service reports of what it heard is where its frames are.           *)
LEMMA SentencePlaced ==
    ASSUME QwenOK, NEW task \in Nat, NEW heard \in Seq(Nat), NEW final \in BOOLEAN,
           NEW r \in Sentences(task, heard, final),
           Alive => task <= writer.task /\ (task = writer.task => PlacedIn(heard))
    PROVE  r \in QwenFrames /\ Sayable(r)
<1>1. PICK p \in Spoken(heard) \X Spoken(heard) : p[1] <= p[2] /\ r = Result(task, heard, p[1], p[2], final)
  BY DEF Sentences
<1> DEFINE b == p[1]
           e == p[2]
<1>2. b \in Spoken(heard) /\ e \in Spoken(heard)
  BY <1>1
<1> HIDE DEF b, e
<1>3. b \in 1..Len(heard) /\ e \in 1..Len(heard) /\ heard[b] # 0 /\ heard[e] # 0 /\ Len(heard) \in Nat
  BY <1>2 DEF Spoken
<1>4. b \in Nat /\ e \in Nat /\ b - 1 \in Nat /\ heard[b] \in Nat /\ heard[e] \in Nat
  BY <1>3
<1>5. r = [k |-> "result", final |-> final, begin |-> b - 1, end |-> e, first |-> heard[b], last |-> heard[e], task |-> task]
  BY <1>1 DEF Result, b, e
<1>6. r \in ResultFrames
  BY <1>4, <1>5 DEF ResultFrames
<1>7. r.k = "result" /\ r.begin = b - 1 /\ r.end = e /\ r.first = heard[b] /\ r.last = heard[e] /\ r.task = task
  BY <1>5
<1>8. Alive /\ task = writer.task => PlacedResult(r)
  <2> SUFFICES ASSUME Alive, task = writer.task
               PROVE  PlacedResult(r)
    OBVIOUS
  <2>1. writer.sent \in Nat /\ writer.pad \in Nat
    BY DEF QwenOK, QwenTypeOK, Writers
  <2>2. b <= writer.sent + writer.pad /\ OnLine(b, heard[b]) /\ e <= writer.sent + writer.pad /\ OnLine(e, heard[e])
    BY <1>3 DEF PlacedIn
  <2>3. b - 1 <= writer.sent + writer.pad /\ 0 <= b - 1 /\ 0 <= e
    BY <1>4, <2>1, <2>2
  <2> QED
    BY <1>7, <2>2, <2>3 DEF PlacedResult, OnLine
<1> QED
  BY <1>6, <1>7, <1>8 DEF QwenFrames, Sayable

(* The answer to finish-task: the final transcript and task-finished.           *)
LEMMA AnswerOK ==
    ASSUME StreamOK, QwenOK, kind = "qwen", Answer
    PROVE  QwenOK'
<1> DEFINE t == Head(net.ending)
           rest == [net EXCEPT !.ending = Tail(@)]
           fin == Finished(t.task)
<1>1. /\ net.ending # <<>> /\ ctx' = ctx /\ caller' = caller /\ in' = in /\ ctl' = ctl /\ writer' = writer
      /\ reader' = reader /\ finalize' = finalize /\ line' = line
  BY DEF Answer, ServiceFrame
<1>2. QueueFacts
  BY Typed DEF QwenOK
<1>3. net \in Nets(QwenFrames) /\ net.ending \in Seq(Endings) /\ net.down \in Seq(QwenFrames)
  BY <1>2 DEF QueueFacts
<1>4. t \in Endings /\ 1 \in 1..Len(net.ending) /\ t = net.ending[1] /\ Tail(net.ending) \in Seq(Endings)
  BY <1>1, <1>3
<1>5. \/ net' = [rest EXCEPT !.down = Append(@, fin)]
      \/ \E r \in Sentences(t.task, t.heard, TRUE) : net' = [rest EXCEPT !.down = @ \o <<r, fin>>]
  BY DEF Answer
<1> HIDE DEF t
<1>6. t.task \in Nat /\ t.heard \in Seq(Nat)
  BY <1>4 DEF Endings
<1>7. fin \in QwenFrames /\ fin.k = "finished" /\ fin.task = t.task
  BY <1>6 DEF Finished, QwenFrames, CtlFrames, LifeFrames
<1> HIDE DEF fin
<1>8. Sayable(fin)
  <2>1. Alive => t.task <= writer.task
    BY <1>4 DEF QwenOK, Timeline
  <2>2. Alive /\ ~writer.misled => (t.task = writer.task => writer.finalizing)
    BY <1>4 DEF QwenOK, Disciplined
  <2> QED
    BY <1>7, <2>1, <2>2 DEF Sayable
<1>9. ASSUME NEW fs \in Seq(QwenFrames), NEW d, d = net.down \o fs, \A i \in 1..Len(fs) : Sayable(fs[i]),
             net' = [rest EXCEPT !.down = d]
      PROVE  QwenOK'
  <2> DEFINE en == Tail(net.ending)
  <2>1. en \in Seq(Endings) /\ d \in Seq(QwenFrames)
    BY <1>3, <1>4, <1>9
  <2>2. net' = [[net EXCEPT !.ending = en] EXCEPT !.down = d]
    BY <1>9
  <2> HIDE DEF en
  <2>3. net' \in Nets(QwenFrames)
    BY <1>3, <2>1, <2>2 DEF Nets
  <2>4. /\ net'.down = d /\ net'.ending = en /\ net'.on = net.on /\ net'.task = net.task /\ net'.heard = net.heard
        /\ net'.stray = net.stray
    BY <1>3, <2>2 DEF Nets
  <2>5. net'.down = net.down \o fs /\ net'.ending = Tail(net.ending)
    BY <1>9, <2>4 DEF en
  <2> QED
    BY <1>1, <1>9, <2>3, <2>4, <2>5, Said
<1>10. CASE net' = [rest EXCEPT !.down = Append(@, fin)]
  <2> DEFINE fs == <<fin>>
             d == Append(net.down, fin)
  <2>1. fs \in Seq(QwenFrames) /\ Len(fs) = 1 /\ fs[1] = fin
    BY <1>7
  <2>2. d = net.down \o fs
    BY <1>3, <1>7
  <2>3. net' = [rest EXCEPT !.down = d]
    BY <1>3, <1>10 DEF Nets
  <2> HIDE DEF fs, d, rest
  <2>4. \A i \in 1..Len(fs) : Sayable(fs[i])
    BY <1>8, <2>1
  <2> QED
    BY <1>9, <2>1, <2>2, <2>3, <2>4
<1>11. ASSUME NEW r \in Sentences(t.task, t.heard, TRUE), net' = [rest EXCEPT !.down = @ \o <<r, fin>>]
       PROVE  QwenOK'
  <2> DEFINE fs == <<r, fin>>
             d == net.down \o fs
  <2>1. r \in QwenFrames /\ Sayable(r)
    <3>1. Alive => t.task <= writer.task /\ (t.task = writer.task => PlacedIn(t.heard))
      BY <1>4 DEF QwenOK, Timeline
    <3>2. TRUE \in BOOLEAN
      OBVIOUS
    <3> QED
      BY <1>6, <1>11, <3>1, <3>2, SentencePlaced
  <2>2. fs \in Seq(QwenFrames) /\ Len(fs) = 2 /\ fs[1] = r /\ fs[2] = fin
    BY <1>7, <2>1
  <2>3. net' = [rest EXCEPT !.down = d]
    BY <1>3, <1>11 DEF Nets
  <2>4. d = net.down \o fs
    OBVIOUS
  <2> HIDE DEF fs, d, rest
  <2>5. \A i \in 1..Len(fs) : Sayable(fs[i])
    <3>1. \A i \in 1..Len(fs) : i = 1 \/ i = 2
      BY <2>2
    <3> QED
      BY <1>8, <2>1, <2>2, <3>1
  <2> QED
    BY <1>9, <2>2, <2>3, <2>4, <2>5
<1> QED
  BY <1>5, <1>10, <1>11

(* A result or a failure unasked, a lost connection, a cancelled context.       *)
LEMMA MishapOK ==
    ASSUME StreamOK, QwenOK, kind = "qwen", Mishap
    PROVE  QwenOK'
<1>1. /\ caller' = caller /\ in' = in /\ ctl' = ctl /\ writer' = writer
      /\ reader' = reader /\ finalize' = finalize /\ line' = line
  BY DEF Mishap, ServiceFrame
<1>2. QueueFacts
  BY Typed DEF QwenOK
<1>3. net \in Nets(QwenFrames) /\ net.down \in Seq(QwenFrames) /\ net.heard \in Seq(Nat) /\ net.task \in Nat
  BY <1>2 DEF QueueFacts, Nets
<1>4. PICK m \in plan.mishaps :
         \/ m = "remark" /\ ctx' = ctx /\ \E f \in Remarks : Reply(<<f>>)
         \/ m \in {"normal", "error"} /\ net' = [net EXCEPT !.lost = m] /\ ctx' = ctx
         \/ m = "cancel" /\ ctx' = TRUE /\ net' = net
  BY DEF Mishap
<1> DEFINE none == <<>>
<1>5. none \in Seq(QwenFrames) /\ Len(none) = 0 /\ net.down \o none = net.down
  BY <1>3
<1> HIDE DEF none
<1>6. \A i \in 1..Len(none) : Sayable(none[i])
  BY <1>5
<1>7. CASE m \in {"normal", "error"} /\ net' = [net EXCEPT !.lost = m] /\ ctx' = ctx
  <2>1. net' \in Nets(QwenFrames)
    BY <1>3, <1>7 DEF Nets
  <2>2. /\ net'.down = net.down /\ net'.ending = net.ending /\ net'.on = net.on /\ net'.task = net.task
        /\ net'.heard = net.heard /\ net'.stray = net.stray
    BY <1>3, <1>7 DEF Nets
  <2>3. net'.down = net.down \o none /\ (ctx => ctx')
    BY <1>5, <1>7, <2>2
  <2> QED
    BY <1>1, <1>5, <1>6, <2>1, <2>2, <2>3, Said
<1>8. CASE ctx' = TRUE /\ net' = net
  <2>1. ctx => ctx'
    BY <1>8
  <2> QED
    BY <1>1, <1>3, <1>5, <1>6, <1>8, <2>1, Said
<1>9. ASSUME ctx' = ctx, NEW f \in Remarks, Reply(<<f>>)
      PROVE  QwenOK'
  <2>1. f \in QwenFrames /\ Sayable(f)
    <3>1. f \in Sentences(net.task, net.heard, FALSE) \/ f = [k |-> "failed"]
      BY <1>9 DEF Remarks
    <3>2. CASE f \in Sentences(net.task, net.heard, FALSE)
      <4>1. Alive => net.task <= writer.task /\ (net.task = writer.task => PlacedIn(net.heard))
        <5>1. Alive => net.task = writer.task /\ PlacedIn(net.heard)
          BY DEF QwenOK, Counted, Timeline
        <5> QED
          BY <1>3, <5>1
      <4>2. FALSE \in BOOLEAN
        OBVIOUS
      <4> QED
        BY <1>3, <3>2, <4>1, <4>2, SentencePlaced
    <3>3. CASE f = [k |-> "failed"]
      <4>1. f.k = "failed" /\ f \in FailFrames
        BY <3>3 DEF FailFrames
      <4> QED
        BY <4>1 DEF QwenFrames, CtlFrames, Sayable
    <3> QED
      BY <3>1, <3>2, <3>3
  <2> DEFINE fs == <<f>>
             d == net.down \o fs
  <2>2. fs \in Seq(QwenFrames) /\ Len(fs) = 1 /\ fs[1] = f
    BY <2>1
  <2>3. net' = [net EXCEPT !.down = d]
    BY <1>3, <1>9 DEF Reply, Nets
  <2> HIDE DEF fs
  <2>4. \A i \in 1..Len(fs) : Sayable(fs[i])
    BY <2>1, <2>2
  <2>5. d \in Seq(QwenFrames)
    BY <1>3, <2>2
  <2>6. d = net.down \o fs
    OBVIOUS
  <2> HIDE DEF d
  <2>7. net' \in Nets(QwenFrames)
    BY <1>3, <2>3, <2>5 DEF Nets
  <2>8. /\ net'.down = d /\ net'.ending = net.ending /\ net'.on = net.on /\ net'.task = net.task
        /\ net'.heard = net.heard /\ net'.stray = net.stray
    BY <1>3, <2>3 DEF Nets
  <2>9. net'.down = net.down \o fs /\ (ctx => ctx')
    BY <1>9, <2>6, <2>8
  <2> QED
    BY <1>1, <2>2, <2>4, <2>7, <2>8, <2>9, Said
<1> QED
  BY <1>4, <1>7, <1>8, <1>9

(* ---- both streams: every event is on time --------------------------------------------------- *)

(* A step of a goroutine that takes frames from the queue, ends the context, or   *)
(* puts an EndOfTurn in the event channel.                                      *)
LEMMA StreamKept ==
    ASSUME StreamOK, kind' = kind, caller' = caller, reader' = reader,
           ctx' = ctx \/ ctx' = TRUE,
           in' = in \/ in' = <<>> \/ (in # <<>> /\ in' = Tail(in)),
           events' = events \/ EmitQueued(Event("eot"))
    PROVE  StreamOK'
<1>1. in' \in Seq(Nat)
  <2>1. in \in Seq(Nat)
    BY DEF StreamOK
  <2>2. <<>> \in Seq(Nat) /\ (in # <<>> => Tail(in) \in Seq(Nat))
    BY <2>1
  <2> QED
    BY <2>1, <2>2
<1>2. events' \in [q : Seq(GoodEvents), closed : BOOLEAN]
  <2>1. events \in [q : Seq(GoodEvents), closed : BOOLEAN]
    BY DEF StreamOK
  <2>2. CASE EmitQueued(Event("eot"))
    <3> DEFINE q == Append(events.q, Event("eot"))
    <3>1. Event("eot") \in GoodEvents
      BY DEF Event, GoodEvents, PlainEvents
    <3>2. q \in Seq(GoodEvents)
      BY <2>1, <3>1
    <3>3. events' = [events EXCEPT !.q = q]
      BY <2>2 DEF EmitQueued
    <3> HIDE DEF q
    <3> QED
      BY <2>1, <3>2, <3>3
  <2> QED
    BY <2>1, <2>2
<1>3. ctx' \in BOOLEAN
  BY DEF StreamOK
<1> QED
  BY <1>1, <1>2, <1>3 DEF StreamOK

(* Writers, timers, the service and mishaps.                                    *)
LEMMA StreamOfWriter ==
    ASSUME StreamOK,
           \/ QwenWriterStep \/ DgWrites \/ WriterDeadline \/ WriterPads \/ AckExpires
           \/ TimerExpires \/ FinalizeTimedOut \/ Answer \/ Mishap
    PROVE  StreamOK'
<1>1. kind' = kind /\ caller' = caller /\ reader' = reader
  BY DEF QwenWriterStep, WriterStarts, WriterDone, WriterCloses, WriterControl, WriterFinalizes, WriterAnswers,
         WriterRestarts, WriterSendsAudio, WriterFrame, DgWrites, WriterDeadline, WriterPads, AckExpires,
         TimerExpires, FinalizeTimedOut, Answer, Mishap, ServiceFrame
<1>2. events' = events \/ EmitQueued(Event("eot"))
  BY DEF QwenWriterStep, WriterStarts, WriterDone, WriterCloses, WriterControl, WriterFinalizes, WriterAnswers,
         WriterRestarts, WriterSendsAudio, DgWrites, WriterDeadline, WriterPads, AckExpires,
         TimerExpires, FinalizeTimedOut, Answer, Mishap, ServiceFrame, EmitDropped, EmitPanics
<1>3. \A n, w : WriteThen(n, w) => ctx' = ctx \/ ctx' = TRUE
  BY DEF WriteThen, WriterEnds
<1>4. \A mark, w : BeginFinalize(mark, w) => in' = <<>> /\ (ctx' = ctx \/ ctx' = TRUE)
  BY <1>3 DEF BeginFinalize
<1>5. \A w, base : SendRun(w, base) => ctx' = ctx \/ ctx' = TRUE
  BY <1>3 DEF SendRun
<1>6. in' = in \/ in' = <<>> \/ (in # <<>> /\ in' = Tail(in))
  BY <1>4 DEF QwenWriterStep, WriterStarts, WriterDone, WriterCloses, WriterControl, WriterFinalizes, WriterAnswers,
         WriterRestarts, WriterSendsAudio, DgWrites, WriterDeadline, WriterPads, AckExpires,
         TimerExpires, FinalizeTimedOut, Answer, Mishap, ServiceFrame
<1>7. ctx' = ctx \/ ctx' = TRUE
  <2>1. CASE QwenWriterStep
    BY <1>3, <1>4, <1>5, <2>1
       DEF QwenWriterStep, WriterStarts, WriterDone, WriterCloses, WriterControl, WriterFinalizes, WriterAnswers,
           WriterRestarts, WriterSendsAudio, WriterEnds, Restart
  <2>2. CASE DgWrites
    BY <1>3, <2>2 DEF DgWrites, WriterEnds
  <2>3. CASE WriterDeadline \/ WriterPads \/ AckExpires \/ TimerExpires \/ FinalizeTimedOut \/ Answer \/ Mishap
    BY <1>3, <2>3 DEF WriterDeadline, WriterPads, AckExpires, TimerExpires, FinalizeTimedOut, Answer, Mishap
  <2> QED
    BY <2>1, <2>2, <2>3
<1> QED
  BY <1>1, <1>2, <1>6, <1>7, StreamKept

(* The session's calls.                                                         *)
LEMMA StreamOfCaller ==
    ASSUME StreamOK, PushAudio \/ Finalize \/ Ask \/ Consume \/ Leave \/ CloseStep
    PROVE  StreamOK'
<1>1. kind' = kind /\ reader' = reader
  BY DEF PushAudio, Finalize, Ask, Consume, Leave, CloseStep, Close, CloseSends, CloseWaits, CallerFrame
<1>2. ctx' \in BOOLEAN
  <2>1. ctx' = ctx \/ ctx' = TRUE
    BY DEF PushAudio, Finalize, Ask, Consume, Leave, CloseStep, Close, CloseSends, CloseWaits
  <2> QED
    BY <2>1 DEF StreamOK
<1>3. in' \in Seq(Nat)
  <2>1. in \in Seq(Nat) /\ caller.pushed + 1 \in Nat
    BY DEF StreamOK, Callers
  <2>2. in' = in \/ in' = Append(in, caller.pushed + 1)
    BY DEF PushAudio, Finalize, Ask, Consume, Leave, CloseStep, Close, CloseSends, CloseWaits
  <2> QED
    BY <2>1, <2>2
<1>4. events' \in [q : Seq(GoodEvents), closed : BOOLEAN]
  <2>1. events \in [q : Seq(GoodEvents), closed : BOOLEAN]
    BY DEF StreamOK
  <2>2. events' = events \/ (events.q # <<>> /\ events' = [events EXCEPT !.q = Tail(@)])
    BY DEF PushAudio, Finalize, Ask, Consume, Leave, CloseStep, Close, CloseSends, CloseWaits, CallerFrame
  <2> QED
    BY <2>1, <2>2
<1>5. caller' \in Callers
  <2>1. caller \in Callers
    BY DEF StreamOK
  <2>2. CASE PushAudio
    BY <2>1, <2>2 DEF PushAudio, Fatal, Callers
  <2>3. CASE Finalize
    BY <2>1, <2>3 DEF Finalize, Fatal, Callers
  <2>4. CASE Consume
    <3> DEFINE o == caller.owed /\ Head(events.q).kind = "partial"
    <3>1. o \in BOOLEAN
      BY <2>1 DEF Callers
    <3>2. caller' = [caller EXCEPT !.pc = "close", !.owed = FALSE] \/ caller' = [caller EXCEPT !.owed = o]
      BY <2>4 DEF Consume
    <3> HIDE DEF o
    <3> QED
      BY <2>1, <3>1, <3>2 DEF Callers
  <2>5. CASE Ask \/ Leave \/ CloseStep
    <3>1. \E pc \in {"open", "close", "send", "wait", "join", "closed"} : caller' = [caller EXCEPT !.pc = pc]
      BY <2>5 DEF Ask, Leave, CloseStep, Close, CloseSends, CloseWaits, Fatal
    <3> QED
      BY <2>1, <3>1 DEF Callers
  <2> QED
    BY <2>2, <2>3, <2>4, <2>5
<1> QED
  BY <1>1, <1>2, <1>3, <1>4, <1>5 DEF StreamOK

(* ---- Deepgram's stream -------------------------------------------------------------------------- *)

(* What the service makes of Deepgram's audio and control messages.             *)
LEMMA DgTaken ==
    ASSUME NEW n \in Nets(DgFrames)
    PROVE  /\ \A fs \in Seq(Nat) : Hear(n, fs) \in Nets(DgFrames)
           /\ \A m \in {"finalize", "close"} : Take(n, m) \in Nets(DgFrames)
<1>1. ASSUME NEW fs \in Seq(Nat)
      PROVE  Hear(n, fs) \in Nets(DgFrames)
  <2>1. n.heard \o fs \in Seq(Nat) /\ (n.stray \/ fs # <<>>) \in BOOLEAN
    BY <1>1 DEF Nets
  <2> QED
    BY <2>1 DEF Hear, Nets
<1>2. ASSUME NEW m \in {"finalize", "close"}
      PROVE  Take(n, m) \in Nets(DgFrames)
  <2> DEFINE e == [task |-> n.task, heard |-> n.heard]
             none == <<>>
             d == Append(n.ending, e)
             x == m = "finalize"
             r == [n EXCEPT !.on = x, !.heard = none, !.ending = d]
  <2>1. e \in Endings
    BY DEF Nets, Endings
  <2>2. d \in Seq(Endings) /\ none \in Seq(Nat) /\ x \in BOOLEAN
    BY <2>1 DEF Nets
  <2>3. m # "run"
    OBVIOUS
  <2>4. Take(n, m) = r \/ Take(n, m) = n
    BY <2>3 DEF Take
  <2> HIDE DEF e, none, d, x
  <2>5. r \in Nets(DgFrames)
    BY <2>2 DEF Nets
  <2> QED
    BY <2>4, <2>5
<1> QED
  BY <1>1, <1>2

(* The writer, the timers and the service of Deepgram's stream.                 *)
LEMMA DgWritesOK ==
    ASSUME StreamOK, DeepgramOK, DgWrites
    PROVE  DeepgramOK'
<1>1. /\ ctl \in Seq({"finalize", "close"}) /\ net \in Nets(DgFrames) /\ in \in Seq(Nat) /\ reader' = reader
  BY DEF StreamOK, DeepgramOK, DgWrites
<1>2. \A n, w : WriteThen(n, w) => net' = n \/ net' = net
  BY DEF WriteThen
<1>3. CASE in' = in /\ ctl' = ctl /\ net' = net
  BY <1>1, <1>3 DEF DeepgramOK
<1>4. CASE in # <<>> /\ WriteThen(Hear(net, <<Head(in)>>), writer) /\ ctl' = ctl
  <2>1. <<Head(in)>> \in Seq(Nat)
    BY <1>1, <1>4
  <2>2. Hear(net, <<Head(in)>>) \in Nets(DgFrames)
    BY <1>1, <2>1, DgTaken
  <2>3. net' \in Nets(DgFrames)
    BY <1>1, <1>2, <1>4, <2>2
  <2> QED
    BY <1>1, <1>4, <2>3 DEF DeepgramOK
<1>5. CASE /\ ctl # <<>> /\ ctl' = Tail(ctl)
           /\ IF Head(ctl) = "close" /\ CanWrite
                THEN /\ net' = Take(net, "close")
                     /\ writer' = [writer EXCEPT !.pc = "done", !.closeSent = TRUE] /\ ctx' = TRUE
                ELSE WriteThen(Take(net, Head(ctl)), writer)
  <2>1. ctl' \in Seq({"finalize", "close"}) /\ Head(ctl) \in {"finalize", "close"}
    BY <1>1, <1>5
  <2>2. Take(net, "close") \in Nets(DgFrames) /\ Take(net, Head(ctl)) \in Nets(DgFrames)
    BY <1>1, <2>1, DgTaken
  <2>3. net' \in Nets(DgFrames)
    BY <1>1, <1>2, <1>5, <2>2
  <2> QED
    BY <1>1, <2>1, <2>3 DEF DeepgramOK
<1> QED
  BY <1>3, <1>4, <1>5 DEF DgWrites

(* handle, of Deepgram's messages.                                              *)
LEMMA DgReadsOK ==
    ASSUME StreamOK, DeepgramOK, DgReads
    PROVE  StreamOK' /\ DeepgramOK'
<1> DEFINE m == Head(net.down)
           todo == DgEvents(m)
           d == Tail(net.down)
<1>1. /\ net.down # <<>> /\ net' = [net EXCEPT !.down = Tail(@)] /\ Goes(todo, FALSE)
      /\ ctx' = ctx /\ ctl' = ctl /\ events' = events /\ kind' = kind /\ caller' = caller /\ in' = in
  BY DEF DgReads, ReadFrame, ReaderFrame
<1>2. net \in Nets(DgFrames) /\ net.down \in Seq(DgFrames)
  BY DEF DeepgramOK, Nets
<1>3. m \in DgFrames /\ d \in Seq(DgFrames)
  BY <1>1, <1>2
<1>4. net' = [net EXCEPT !.down = d]
  BY <1>1
<1> HIDE DEF m, d
<1>5. net' \in Nets(DgFrames)
  BY <1>2, <1>3, <1>4 DEF Nets
<1> DEFINE E(kd) == EmitTodo(Event(kd))
<1>6. \A kd \in {"partial", "final", "eot", "error"} : E(kd) \in Todos /\ E(kd).do = "emit"
  <2>1. \A kd \in {"partial", "final", "eot", "error"} : Event(kd) \in GoodEvents
    BY DEF Event, GoodEvents, PlainEvents
  <2> QED
    BY <2>1, TodoTypes
<1>7. \/ todo = <<>> \/ \E kd \in {"partial", "final", "eot", "error"} : todo = <<E(kd)>>
      \/ todo = <<E("final")>> \o <<E("eot")>> \/ todo = <<E("final")>> \o <<>>
  <2>1. CASE m \in [k : {"error", "utteranceEnd"}]
    <3>1. m.k \in {"error", "utteranceEnd"}
      BY <2>1
    <3>2. CASE m.k = "error"
      BY <3>2 DEF DgEvents
    <3>3. CASE m.k = "utteranceEnd"
      BY <3>3 DEF DgEvents
    <3> QED
      BY <3>1, <3>2, <3>3
  <2>2. CASE m \in [k : {"results"}, final : BOOLEAN, text : BOOLEAN, from : BOOLEAN, speech : BOOLEAN]
    <3>1. m.k = "results" /\ m.final \in BOOLEAN /\ m.text \in BOOLEAN /\ m.from \in BOOLEAN /\ m.speech \in BOOLEAN
      BY <2>2
    <3>2. CASE ~m.final
      BY <3>1, <3>2 DEF DgEvents
    <3>3. CASE m.final /\ m.text
      BY <3>1, <3>3 DEF DgEvents
    <3>4. CASE m.final /\ ~m.text
      BY <3>1, <3>4 DEF DgEvents
    <3> QED
      BY <3>2, <3>3, <3>4
  <2> QED
    BY <1>3, <2>1, <2>2 DEF DgFrames
<1> HIDE DEF todo, E
<1>8. todo \in Seq(Todos) /\ \A i \in 1..Len(todo) : todo[i].do = "emit"
  <2>1. CASE todo = <<>>
    BY <2>1
  <2>2. ASSUME NEW kd \in {"partial", "final", "eot", "error"}, todo = <<E(kd)>>
        PROVE  todo \in Seq(Todos) /\ \A i \in 1..Len(todo) : todo[i].do = "emit"
    BY <1>6, <2>2
  <2>3. CASE todo = <<E("final")>> \o <<E("eot")>>
    <3>1. E("final") \in Todos /\ E("eot") \in Todos /\ E("final").do = "emit" /\ E("eot").do = "emit"
      BY <1>6
    <3>2. todo \in Seq(Todos) /\ Len(todo) = 2 /\ todo[1] = E("final") /\ todo[2] = E("eot")
      BY <2>3, <3>1
    <3>3. \A i \in 1..Len(todo) : i = 1 \/ i = 2
      BY <3>2
    <3> QED
      BY <3>1, <3>2, <3>3
  <2>4. CASE todo = <<E("final")>> \o <<>>
    <3>1. E("final") \in Todos /\ E("final").do = "emit"
      BY <1>6
    <3>2. todo \in Seq(Todos) /\ Len(todo) = 1 /\ todo[1] = E("final")
      BY <2>4, <3>1
    <3>3. \A i \in 1..Len(todo) : i = 1
      BY <3>2
    <3> QED
      BY <3>1, <3>2, <3>3
  <2> QED
    BY <1>7, <2>1, <2>2, <2>3, <2>4
<1>9. FALSE \in BOOLEAN
  OBVIOUS
<1>10. reader' \in Readers /\ reader'.todo = todo /\ (reader'.pc = "todo" => reader'.todo # <<>>)
  BY <1>1, <1>8, <1>9, GoesOK
<1> QED
  BY <1>1, <1>5, <1>8, <1>10 DEF StreamOK, DeepgramOK

(* The reader's other steps: Deepgram's reader has nothing to tell the writer.  *)
LEMMA DgReaderOK ==
    ASSUME StreamOK, DeepgramOK, ReaderStep
    PROVE  StreamOK' /\ DeepgramOK'
<1>1. /\ StreamOK' /\ net' = net
      /\ \/ TodoLeft /\ ctl' = ctl
         \/ reader.todo # <<>> /\ Head(reader.todo).do = "tell"
  BY ReaderStepOK
<1>2. reader.todo \in Seq(Todos) /\ \A i \in 1..Len(reader.todo) : reader.todo[i].do = "emit"
  BY DEF StreamOK, Readers, DeepgramOK
<1>3. reader.todo # <<>> => Head(reader.todo).do = "emit"
  BY <1>2
<1>4. TodoLeft /\ ctl' = ctl
  BY <1>1, <1>3
<1>5. \A i \in 1..Len(reader'.todo) : reader'.todo[i].do = "emit"
  <2>1. CASE reader.todo # <<>> /\ reader'.todo = Tail(reader.todo)
    <3>1. Len(reader'.todo) = Len(reader.todo) - 1 /\ Len(reader.todo) \in Nat
      BY <1>2, <2>1
    <3>2. \A i \in 1..Len(reader'.todo) : i + 1 \in 1..Len(reader.todo) /\ reader'.todo[i] = reader.todo[i + 1]
      BY <1>2, <2>1, <3>1
    <3> QED
      BY <1>2, <3>2
  <2> QED
    BY <1>2, <1>4, <2>1 DEF TodoLeft
<1> QED
  BY <1>1, <1>4, <1>5 DEF DeepgramOK

(* The session, the timers and the service.                                     *)
LEMMA DgOthersOK ==
    ASSUME StreamOK, DeepgramOK, kind = "deepgram",
           \/ PushAudio \/ Finalize \/ Ask \/ Consume \/ Leave \/ CloseStep
           \/ AckExpires \/ TimerExpires \/ FinalizeTimedOut \/ Answer \/ Mishap
    PROVE  DeepgramOK'
<1>1. /\ ctl \in Seq({"finalize", "close"}) /\ net \in Nets(DgFrames)
      /\ \A i \in 1..Len(reader.todo) : reader.todo[i].do = "emit"
  BY DEF DeepgramOK
<1>2. reader' = reader
  BY DEF PushAudio, Finalize, Ask, Consume, Leave, CloseStep, Close, CloseSends, CloseWaits, CallerFrame,
         AckExpires, TimerExpires, FinalizeTimedOut, Answer, Mishap, ServiceFrame
<1>3. ctl' \in Seq({"finalize", "close"})
  <2>1. ctl' = ctl \/ ctl' = Append(ctl, "finalize") \/ ctl' = Append(ctl, "close")
    BY DEF PushAudio, Finalize, Ask, Consume, Leave, CloseStep, Close, CloseSends, CloseWaits,
           AckExpires, TimerExpires, FinalizeTimedOut, Answer, Mishap, ServiceFrame
  <2> QED
    BY <1>1, <2>1
<1>4. net' \in Nets(DgFrames)
  <2>1. net.ending \in Seq(Endings) /\ net.down \in Seq(DgFrames)
    BY <1>1 DEF Nets
  <2>2. \A a, b, c, e \in BOOLEAN : Results(a, b, c, e) \in DgFrames
    BY DEF Results, DgFrames
  <2>3. CASE Answer
    <3> DEFINE t == Head(net.ending)
               en == Tail(net.ending)
               tx == t.heard # <<>>
    <3>1. PICK sp \in BOOLEAN :
             net' = [[net EXCEPT !.ending = Tail(@)] EXCEPT !.down = Append(@, Results(TRUE, tx, TRUE, sp))]
      BY <2>3 DEF Answer
    <3>2. tx \in BOOLEAN /\ TRUE \in BOOLEAN
      OBVIOUS
    <3> HIDE DEF tx
    <3> DEFINE d == Append(net.down, Results(TRUE, tx, TRUE, sp))
    <3>3. d \in Seq(DgFrames)
      <4>1. Results(TRUE, tx, TRUE, sp) \in DgFrames
        BY <2>2, <3>2
      <4>2. \A q \in Seq(DgFrames), y \in DgFrames : Append(q, y) \in Seq(DgFrames)
        OBVIOUS
      <4> QED
        BY <2>1, <4>1, <4>2, Zenon
    <3>4. en \in Seq(Endings)
      <4>1. net.ending # <<>>
        BY <2>3 DEF Answer
      <4> QED
        BY <2>1, <4>1
    <3>5. net' = [[net EXCEPT !.ending = en] EXCEPT !.down = d]
      BY <1>1, <3>1 DEF Nets
    <3> HIDE DEF d, en
    <3> QED
      BY <1>1, <3>3, <3>4, <3>5 DEF Nets
  <2>4. CASE Mishap
    <3>1. \/ net' = net
          \/ \E m \in {"normal", "error"} : net' = [net EXCEPT !.lost = m]
          \/ \E f \in Remarks : Reply(<<f>>)
      BY <2>4 DEF Mishap
    <3>2. CASE \E m \in {"normal", "error"} : net' = [net EXCEPT !.lost = m]
      BY <1>1, <3>2 DEF Nets
    <3>3. ASSUME NEW f \in Remarks, Reply(<<f>>)
          PROVE  net' \in Nets(DgFrames)
      <4>1. f \in DgFrames
        <5>1. f \in {[k |-> "utteranceEnd"], [k |-> "error"], Results(FALSE, TRUE, FALSE, FALSE), Results(TRUE, TRUE, FALSE, TRUE)}
          BY <3>3 DEF Remarks
        <5>2. [k |-> "utteranceEnd"] \in DgFrames /\ [k |-> "error"] \in DgFrames
          BY DEF DgFrames
        <5>3. Results(FALSE, TRUE, FALSE, FALSE) \in DgFrames /\ Results(TRUE, TRUE, FALSE, TRUE) \in DgFrames
          BY <2>2
        <5> QED
          BY <5>1, <5>2, <5>3
      <4> DEFINE d == net.down \o <<f>>
      <4>2. d \in Seq(DgFrames)
        BY <2>1, <4>1
      <4>3. net' = [net EXCEPT !.down = d]
        BY <3>3 DEF Reply
      <4> HIDE DEF d
      <4> QED
        BY <1>1, <4>2, <4>3 DEF Nets
    <3> QED
      BY <1>1, <3>1, <3>2, <3>3
  <2>5. CASE \/ PushAudio \/ Finalize \/ Ask \/ Consume \/ Leave \/ CloseStep
             \/ AckExpires \/ TimerExpires \/ FinalizeTimedOut
    <3>1. net' = net
      BY <2>5 DEF PushAudio, Finalize, Ask, Consume, Leave, CloseStep, Close, CloseSends, CloseWaits, CallerFrame,
                  AckExpires, TimerExpires, FinalizeTimedOut
    <3> QED
      BY <1>1, <3>1
  <2> QED
    BY <2>3, <2>4, <2>5
<1> QED
  BY <1>1, <1>2, <1>3, <1>4 DEF DeepgramOK

(* ---- the theorems ----------------------------------------------------------------------------------- *)

(* The invariant holds when the stream is opened.                               *)
LEMMA RInvInit == Init => RInv
<1> SUFFICES ASSUME Init
             PROVE  RInv
  OBVIOUS
<1> DEFINE none == <<>>
<1>1. /\ kind \in {"qwen", "deepgram"} /\ ctx = FALSE
      /\ caller = [pc |-> "open", pushed |-> 0, owed |-> FALSE]
      /\ in = none /\ ctl = none /\ events = [q |-> none, closed |-> FALSE]
      /\ net = [down |-> none, lost |-> "no", on |-> kind = "deepgram", task |-> 0, heard |-> none,
                ending |-> none, stray |-> FALSE]
      /\ reader = [pc |-> "read", todo |-> none, last |-> FALSE]
      /\ finalize = Nobody /\ line = [base |-> 0, gaps |-> none, ack |-> FALSE]
      /\ writer = NewWriter
  BY DEF Init, QwenInit
<1>2. Len(none) = 0 /\ \A S : none \in Seq(S)
  OBVIOUS
<1>3. KeepAliveMs \in Nat
  BY AsrAssumption
<1> HIDE DEF none
<1>4. StreamOK
  BY <1>1, <1>2 DEF StreamOK, Callers, Readers
<1>5. kind = "deepgram" => DeepgramOK
  BY <1>1, <1>2 DEF DeepgramOK, Nets
<1>6. ASSUME kind = "qwen"
      PROVE  QwenOK
  <2>1. net.on = FALSE /\ net \in Nets(QwenFrames)
    BY <1>1, <1>2, <1>6 DEF Nets
  <2>2. writer \in Writers
    BY <1>1 DEF NewWriter, Writers, Requests
  <2>3. line \in Lines /\ finalize \in Requests
    BY <1>1, <1>2 DEF Lines, Requests
  <2>4. QwenTypeOK
    BY <1>1, <1>2, <2>1, <2>2, <2>3 DEF QwenTypeOK
  <2>5. /\ writer.pc = "start" /\ writer.started = FALSE /\ writer.finalizing = FALSE /\ writer.pending = Nobody
        /\ writer.sent = 0 /\ writer.pad = 0 /\ writer.task = 0 /\ writer.total = 0 /\ writer.mark = 0
        /\ writer.misled = FALSE
    BY <1>1 DEF NewWriter
  <2>6. /\ caller.pushed = 0 /\ Len(in) = 0 /\ net.task = 0 /\ Len(net.heard) = 0 /\ Len(net.ending) = 0
        /\ Len(net.down) = 0 /\ Len(ctl) = 0 /\ Len(reader.todo) = 0 /\ Len(line.gaps) = 0 /\ line.base = 0
        /\ net.stray = FALSE
    BY <1>1, <1>2
  <2>7. Counted
    BY <1>1, <2>1, <2>5, <2>6 DEF Counted
  <2>8. Timeline
    <3>1. writer.pad = KeepAliveMs * Len(line.gaps)
      BY <1>3, <2>5, <2>6
    <3> QED
      BY <2>5, <2>6, <3>1 DEF Timeline, PlacedIn
  <2>9. Disciplined
    BY <2>5, <2>6 DEF Disciplined, Starteds, Telling, AtMostOne
  <2> QED
    BY <2>4, <2>7, <2>8, <2>9 DEF QwenOK
<1> QED
  BY <1>4, <1>5, <1>6 DEF RInv

(* Every step keeps it.                                                         *)
LEMMA RInvStep == RInv /\ [Next]_vars => RInv'
<1> SUFFICES ASSUME RInv, [Next]_vars
             PROVE  RInv'
  OBVIOUS
<1>1. StreamOK /\ (kind = "deepgram" => DeepgramOK) /\ (kind = "qwen" => QwenOK) /\ kind \in {"qwen", "deepgram"}
  BY DEF RInv, StreamOK
<1>2. CASE UNCHANGED vars
  <2>1. /\ kind' = kind /\ ctx' = ctx /\ caller' = caller /\ in' = in /\ ctl' = ctl /\ events' = events
        /\ net' = net /\ writer' = writer /\ reader' = reader /\ finalize' = finalize /\ line' = line
    BY <1>2 DEF vars
  <2>2. StreamOK'
    BY <1>1, <2>1 DEF StreamOK
  <2>3. kind = "deepgram" => DeepgramOK'
    BY <1>1, <2>1 DEF DeepgramOK
  <2>4. ASSUME kind = "qwen" PROVE QwenOK'
    BY <1>1, <2>1, <2>4, Untouched DEF QwenOK, QwenTypeOK, Counted, Alive
  <2> QED
    BY <2>1, <2>2, <2>3, <2>4 DEF RInv
<1>3. CASE PushAudio \/ Finalize \/ Ask \/ Consume \/ Leave \/ CloseStep
  <2>1. StreamOK'
    BY <1>1, <1>3, StreamOfCaller
  <2>2. kind' = kind
    BY <1>3 DEF PushAudio, Finalize, Ask, Consume, Leave, CloseStep, Close, CloseSends, CloseWaits, CallerFrame
  <2>3. kind = "deepgram" => DeepgramOK'
    BY <1>1, <1>3, DgOthersOK
  <2>4. kind = "qwen" => QwenOK'
    BY <1>1, <1>3, PushesOK, CallsOK
  <2> QED
    BY <2>1, <2>2, <2>3, <2>4 DEF RInv
<1>4. CASE OfQwen(QwenWriterStep) \/ Deadline \/ Padding
  <2>1. (QwenWriterStep \/ WriterDeadline \/ WriterPads) /\ kind' = kind
    BY <1>4 DEF OfQwen, Deadline, Padding, QwenWriterStep, WriterStarts, WriterDone, WriterCloses, WriterControl,
                WriterFinalizes, WriterAnswers, WriterRestarts, WriterSendsAudio, WriterFrame, WriterDeadline,
                WriterPads
  <2>2. kind = "qwen"
    BY <2>1 DEF QwenWriterStep, WriterStarts, WriterDone, WriterCloses, WriterControl, WriterFinalizes,
                WriterAnswers, WriterRestarts, WriterSendsAudio, WriterAt, WriterDeadline, WriterPads, MayWriteAudio
  <2>3. StreamOK'
    BY <1>1, <2>1, StreamOfWriter
  <2>4. QwenOK'
    BY <1>1, <2>1, <2>2, StartsOK, DoneOK, ClosesOK, ControlOK, FinalizesOK, AnswersOK, RestartsOK, SendsAudioOK,
       DeadlineOK, PadsOK DEF QwenWriterStep
  <2> QED
    BY <2>1, <2>2, <2>3, <2>4 DEF RInv
<1>5. CASE OfDeepgram(DgWrites)
  <2>1. DgWrites /\ kind = "deepgram" /\ kind' = kind
    BY <1>5 DEF OfDeepgram, DgWrites
  <2>2. StreamOK' /\ DeepgramOK'
    BY <1>1, <2>1, StreamOfWriter, DgWritesOK
  <2> QED
    BY <2>1, <2>2 DEF RInv
<1>6. CASE Ack
  <2>1. AckExpires /\ kind' = kind
    BY <1>6 DEF Ack, OfQwen, AckExpires
  <2>2. StreamOK'
    BY <1>1, <2>1, StreamOfWriter
  <2>3. kind = "deepgram" => DeepgramOK'
    BY <1>1, <2>1, DgOthersOK
  <2>4. kind = "qwen" => QwenOK'
    BY <1>1, <2>1, AckExpiresOK
  <2> QED
    BY <2>1, <2>2, <2>3, <2>4 DEF RInv
<1>7. CASE OfBoth(ReaderStep)
  <2>1. ReaderStep /\ UNCHANGED <<finalize, line>>
    BY <1>7 DEF OfBoth
  <2>2. kind' = kind
    BY <1>1, <2>1, ReaderStepOK
  <2>3. kind = "deepgram" => StreamOK' /\ DeepgramOK'
    BY <1>1, <2>1, DgReaderOK
  <2>4. kind = "qwen" => StreamOK' /\ QwenOK'
    BY <1>1, <2>1, QwenReaderOK
  <2> QED
    BY <1>1, <2>2, <2>3, <2>4 DEF RInv
<1>8. CASE OfQwen(QwenReads)
  <2>1. QwenReads /\ kind = "qwen" /\ kind' = kind
    BY <1>8 DEF OfQwen, QwenReads, ReaderFrame
  <2>2. StreamOK' /\ QwenOK'
    BY <1>1, <2>1, QwenReadsOK
  <2> QED
    BY <2>1, <2>2 DEF RInv
<1>9. CASE OfDeepgram(DgReads)
  <2>1. DgReads /\ kind = "deepgram" /\ kind' = kind
    BY <1>9 DEF OfDeepgram, DgReads, ReaderFrame
  <2>2. StreamOK' /\ DeepgramOK'
    BY <1>1, <2>1, DgReadsOK
  <2> QED
    BY <2>1, <2>2 DEF RInv
<1>10. CASE Timer
  <2>1. (TimerExpires \/ FinalizeTimedOut) /\ kind' = kind /\ UNCHANGED <<finalize, line>>
        /\ UNCHANGED <<ctx, caller, in, ctl, net, writer, reader>>
    BY <1>10 DEF Timer, OfDeepgram, TimerExpires, FinalizeTimedOut
  <2>2. StreamOK'
    BY <1>1, <2>1, StreamOfWriter
  <2>3. kind = "deepgram" => DeepgramOK'
    BY <1>1, <2>1, DgOthersOK
  <2>4. ASSUME kind = "qwen" PROVE QwenOK'
    BY <1>1, <2>1, <2>4, Untouched DEF QwenOK, QwenTypeOK, Counted, Alive
  <2> QED
    BY <2>1, <2>2, <2>3, <2>4 DEF RInv
<1>11. CASE Answer \/ Mishap
  <2>1. StreamOK'
    BY <1>1, <1>11, StreamOfWriter
  <2>2. kind' = kind
    BY <1>11 DEF Answer, Mishap, ServiceFrame
  <2>3. kind = "deepgram" => DeepgramOK'
    BY <1>1, <1>11, DgOthersOK
  <2>4. kind = "qwen" => QwenOK'
    BY <1>1, <1>11, AnswerOK, MishapOK
  <2> QED
    BY <2>1, <2>2, <2>3, <2>4 DEF RInv
<1> QED
  BY <1>2, <1>3, <1>4, <1>5, <1>6, <1>7, <1>8, <1>9, <1>10, <1>11 DEF Next, WriterStep, Reading

(* In every reachable state of either stream, every event on its way is on time; *)
(* and for Qwen's the frames are counted, the task's audio is where its gaps      *)
(* say, and the lifecycle frames come in order until a late task-finished.       *)
THEOREM RecognizerInvariant == Spec => []RInv
<1>1. Init => RInv
  BY RInvInit
<1>2. RInv /\ [Next]_vars => RInv'
  BY RInvStep
<1> QED
  BY <1>1, <1>2, PTL DEF Spec

(* No speech is lost to its turn, whatever the calls, the capacities, the delays *)
(* of the service and the timers: when Qwen's writer ends a task or answers for   *)
(* it, every frame pushed before the Finalize has been written; and no frame is    *)
(* written outside of a task until a task-finished has come too late.            *)
THEOREM SpeechKept == Spec => []SpeechReachesItsTurn
<1>1. RInv => SpeechReachesItsTurn
  <2> SUFFICES ASSUME RInv, kind = "qwen"
               PROVE  writer.total >= writer.mark /\ (net.stray => writer.misled)
    BY DEF SpeechReachesItsTurn
  <2>1. QwenOK /\ StreamOK
    BY DEF RInv
  <2>2. writer.mark <= writer.total /\ (net.stray => writer.misled)
    BY <2>1 DEF QwenOK, Counted, Disciplined
  <2>3. writer.mark \in Nat /\ writer.total \in Nat
    BY <2>1, Typed DEF QwenOK, QueueFacts
  <2> QED
    BY <2>2, <2>3
<1> QED
  BY <1>1, RecognizerInvariant, PTL

(* The transcripts lie on the timeline of the pushed audio, for any number of    *)
(* tasks, restarts and keep-alive frames: what emitSentence and unpad compute is  *)
(* where the sentence's frames were pushed.                                      *)
THEOREM OffsetsKept == Spec => []OffsetsTrue
<1>1. RInv => OffsetsTrue
  <2> SUFFICES ASSUME RInv, NEW k \in 1..Len(events.q),
                      "first" \in DOMAIN events.q[k], ~events.q[k].late
               PROVE  /\ events.q[k].start = events.q[k].first - 1
                      /\ events.q[k].end = IF events.q[k].kind = "final" THEN events.q[k].last ELSE events.q[k].start
    BY DEF OffsetsTrue
  <2>1. events.q \in Seq(GoodEvents)
    BY DEF RInv, StreamOK
  <2>2. events.q[k] \in GoodEvents
    BY <2>1
  <2>3. events.q[k] \notin PlainEvents
    <3>1. \A e \in PlainEvents : "first" \notin DOMAIN e
      BY DEF PlainEvents
    <3> QED
      BY <3>1
  <2>4. OnTime(events.q[k])
    BY <2>2, <2>3 DEF GoodEvents
  <2> QED
    BY <2>4 DEF OnTime
<1> QED
  BY <1>1, RecognizerInvariant, PTL

=============================================================================
