--------------------------- MODULE PipelineProofs ---------------------------
(***************************************************************************)
(* What the goroutines of a response tell the actor: complete tool calls,  *)
(* at most one, sentences that tile the text, and their audio in order.    *)
(***************************************************************************)
EXTENDS Pipeline, WellFoundedInduction, TLAPS

(* ---- lemmas on sequences ------------------------------------------------------ *)

\* A queue that has grown.
LEMMA Appended ==
    ASSUME NEW S, NEW q \in Seq(S), NEW y \in S, NEW r, r = Append(q, y)
    PROVE  /\ r \in Seq(S) /\ Len(q) \in Nat /\ Len(r) = Len(q) + 1
           /\ r[Len(r)] = y /\ r[Len(q) + 1] = y /\ \A i \in 1..Len(q) : r[i] = q[i]
OBVIOUS

\* A queue whose first element was taken.
LEMMA Taken1 ==
    ASSUME NEW S, NEW q \in Seq(S), q # <<>>, NEW r, r = Tail(q)
    PROVE  /\ r \in Seq(S) /\ Len(q) \in Nat /\ Len(q) > 0 /\ Len(r) = Len(q) - 1
           /\ Head(q) = q[1] /\ Head(q) \in S /\ \A i \in 1..Len(r) : r[i] = q[i + 1]
OBVIOUS

(* ---- lemmas on Speaks ---------------------------------------------------------- *)

\* Nothing to say after nothing.
LEMMA SpeaksNone == ASSUME NEW sns, NEW lo \in Nat PROVE Speaks(<<>>, sns, lo, lo)
BY DEF Speaks

\* The head of a queue goes to the one before it.
LEMMA SpeaksMove ==
    ASSUME NEW sns, NEW p \in Seq(Nat), NEW q \in Seq(Nat), q # <<>>,
           NEW lo \in Nat, NEW mid \in Nat, NEW hi \in Nat,
           lo <= mid, Speaks(p, sns, lo, mid), Speaks(q, sns, mid, hi)
    PROVE  /\ Head(q) \in Nat /\ mid < Head(q) /\ Head(q) <= hi
           /\ Speaks(Append(p, Head(q)), sns, lo, Head(q))
           /\ Speaks(Tail(q), sns, Head(q), hi)
<1> DEFINE x == Head(q)
           r == Append(p, x)
           t == Tail(q)
<1>1. /\ t \in Seq(Nat) /\ Len(q) \in Nat /\ Len(q) > 0 /\ Len(t) = Len(q) - 1
      /\ x = q[1] /\ x \in Nat /\ \A i \in 1..Len(t) : t[i] = q[i + 1]
  BY Taken1
<1>2. /\ r \in Seq(Nat) /\ Len(p) \in Nat /\ Len(r) = Len(p) + 1
      /\ r[Len(p) + 1] = x /\ \A i \in 1..Len(p) : r[i] = p[i]
  BY <1>1, Appended
<1> HIDE DEF x, r, t
<1>p. /\ \A j, k \in 1..Len(p) : j < k => p[j] < p[k]
      /\ \A k \in 1..Len(p) : p[k] \in (lo + 1)..mid /\ ~Blank(sns[p[k]])
      /\ \A n \in (lo + 1)..mid : Blank(sns[n]) \/ \E k \in 1..Len(p) : p[k] = n
  BY DEF Speaks
<1>q. /\ \A j, k \in 1..Len(q) : j < k => q[j] < q[k]
      /\ \A k \in 1..Len(q) : q[k] \in (mid + 1)..hi /\ ~Blank(sns[q[k]])
      /\ \A n \in (mid + 1)..hi : Blank(sns[n]) \/ \E k \in 1..Len(q) : q[k] = n
  BY DEF Speaks
<1>3. mid < x /\ x <= hi /\ ~Blank(sns[x])
  BY <1>1, <1>q
<1>4. \A n \in (mid + 1)..(x - 1) : Blank(sns[n])
  <2> SUFFICES ASSUME NEW n \in (mid + 1)..(x - 1), ~Blank(sns[n]) PROVE FALSE
    OBVIOUS
  <2>1. n \in (mid + 1)..hi
    BY <1>1, <1>3
  <2>2. PICK k \in 1..Len(q) : q[k] = n
    BY <2>1, <1>q
  <2>3. 1 < k => q[1] < q[k]
    <3>1. 1 \in 1..Len(q)
      BY <1>1
    <3> QED BY <1>q, <3>1
  <2>4. k = 1 \/ 1 < k
    BY <1>1
  <2> QED BY <1>1, <2>2, <2>3, <2>4
<1>5. Speaks(r, sns, lo, x)
  <2>1. ASSUME NEW j \in 1..Len(r), NEW k \in 1..Len(r), j < k PROVE r[j] < r[k]
    <3>1. j \in 1..Len(p)
      BY <1>2, <2>1
    <3>2. p[j] \in (lo + 1)..mid
      BY <3>1, <1>p
    <3>3. CASE k \in 1..Len(p)
      BY <1>2, <1>p, <2>1, <3>1, <3>3
    <3>4. CASE k = Len(p) + 1
      <4>1. r[j] = p[j] /\ r[k] = x
        BY <1>2, <3>1, <3>4
      <4>2. p[j] \in Int /\ p[j] <= mid
        BY <3>2
      <4> QED BY <1>1, <1>3, <4>1, <4>2
    <3> QED BY <1>2, <3>3, <3>4
  <2>2. ASSUME NEW k \in 1..Len(r) PROVE r[k] \in (lo + 1)..x /\ ~Blank(sns[r[k]])
    <3>1. CASE k \in 1..Len(p)
      <4>1. p[k] \in (lo + 1)..mid /\ ~Blank(sns[p[k]])
        BY <3>1, <1>p
      <4>2. r[k] = p[k]
        BY <1>2, <3>1
      <4>3. p[k] \in (lo + 1)..x
        BY <1>1, <1>3, <4>1
      <4> QED BY <4>1, <4>2, <4>3
    <3>2. CASE k = Len(p) + 1
      BY <1>1, <1>2, <1>3, <3>2
    <3> QED BY <1>2, <3>1, <3>2
  <2>3. ASSUME NEW n \in (lo + 1)..x PROVE Blank(sns[n]) \/ \E k \in 1..Len(r) : r[k] = n
    <3>1. CASE n \in (lo + 1)..mid
      <4>1. Blank(sns[n]) \/ \E k \in 1..Len(p) : p[k] = n
        BY <3>1, <1>p
      <4>2. ASSUME NEW k \in 1..Len(p), p[k] = n PROVE r[k] = n /\ k \in 1..Len(r)
        <5>1. r[k] = p[k]
          BY <1>2
        <5>2. k \in 1..Len(r)
          BY <1>2
        <5> QED BY <4>2, <5>1, <5>2
      <4> QED BY <4>1, <4>2
    <3>2. CASE n = x
      <4>1. Len(p) + 1 \in 1..Len(r)
        BY <1>2
      <4> QED BY <1>2, <3>2, <4>1
    <3>3. CASE n \in (mid + 1)..(x - 1)
      BY <1>4, <3>3
    <3> QED BY <1>1, <1>3, <3>1, <3>2, <3>3
  <2> QED BY <2>1, <2>2, <2>3 DEF Speaks
<1>6. Speaks(t, sns, x, hi)
  <2>1. ASSUME NEW j \in 1..Len(t), NEW k \in 1..Len(t), j < k PROVE t[j] < t[k]
    <3>1. j + 1 \in 1..Len(q) /\ k + 1 \in 1..Len(q) /\ j + 1 < k + 1
      BY <1>1, <2>1
    <3>2. q[j + 1] < q[k + 1]
      BY <1>q, <3>1
    <3> QED BY <1>1, <3>2
  <2>2. ASSUME NEW k \in 1..Len(t) PROVE t[k] \in (x + 1)..hi /\ ~Blank(sns[t[k]])
    <3>1. 1 \in 1..Len(q) /\ k + 1 \in 1..Len(q) /\ 1 < k + 1
      BY <1>1
    <3>2. q[1] < q[k + 1] /\ q[k + 1] \in (mid + 1)..hi /\ ~Blank(sns[q[k + 1]])
      BY <3>1, <1>q
    <3>3. t[k] = q[k + 1]
      BY <1>1
    <3>4. q[k + 1] \in (x + 1)..hi
      <4>1. \A y, z \in Nat : z \in (mid + 1)..hi /\ y < z => z \in (y + 1)..hi
        OBVIOUS
      <4>2. q[k + 1] \in Nat
        BY <3>1
      <4> QED BY <1>1, <3>2, <4>1, <4>2
    <3> QED BY <3>2, <3>3, <3>4
  <2>3. ASSUME NEW n \in (x + 1)..hi PROVE Blank(sns[n]) \/ \E k \in 1..Len(t) : t[k] = n
    <3>1. n \in (mid + 1)..hi
      BY <1>1, <1>3
    <3>2. Blank(sns[n]) \/ \E k \in 1..Len(q) : q[k] = n
      BY <3>1, <1>q
    <3>3. ASSUME NEW k \in 1..Len(q), q[k] = n PROVE k - 1 \in 1..Len(t) /\ t[k - 1] = n
      <4>1. k # 1
        BY <1>1, <3>3
      <4>2. k - 1 \in 1..Len(t) /\ (k - 1) + 1 = k
        BY <1>1, <4>1
      <4>3. t[k - 1] = q[(k - 1) + 1]
        BY <1>1, <4>2
      <4> QED BY <3>3, <4>2, <4>3
    <3> QED BY <3>2, <3>3
  <2> QED BY <2>1, <2>2, <2>3 DEF Speaks
<1> QED BY <1>1, <1>3, <1>5, <1>6 DEF x, r, t

\* Sentences with nothing to say leave a queue as it is.
LEMMA SpeaksExtend ==
    ASSUME NEW sns, NEW p \in Seq(Nat), NEW lo \in Nat, NEW mid \in Nat, NEW hi \in Nat,
           mid <= hi, Speaks(p, sns, lo, mid), Speaks(<<>>, sns, mid, hi)
    PROVE  Speaks(p, sns, lo, hi)
<1> DEFINE none == <<>>
<1>1. 1..Len(none) = {}
  OBVIOUS
<1>2. Speaks(none, sns, mid, hi)
  OBVIOUS
<1> HIDE DEF none
<1>3. \A n \in (mid + 1)..hi : Blank(sns[n])
  BY <1>1, <1>2 DEF Speaks
<1>4. ASSUME NEW k \in 1..Len(p) PROVE p[k] \in (lo + 1)..hi /\ ~Blank(sns[p[k]])
  BY DEF Speaks
<1>5. ASSUME NEW n \in (lo + 1)..hi PROVE Blank(sns[n]) \/ \E k \in 1..Len(p) : p[k] = n
  <2>1. n \in (lo + 1)..mid \/ n \in (mid + 1)..hi
    OBVIOUS
  <2> QED BY <1>3, <2>1 DEF Speaks
<1> QED BY <1>4, <1>5 DEF Speaks

\* A queue is said in full when what comes after it is one sentence in hand.
LEMMA SpeaksJoin ==
    ASSUME NEW sns, NEW p \in Seq(Nat), NEW x \in Nat, NEW lo \in Nat, NEW mid \in Nat, NEW hi \in Nat,
           lo <= mid, Speaks(p, sns, lo, mid), Speaks(<<x>>, sns, mid, hi)
    PROVE  Speaks(Append(p, x), sns, lo, hi)
<1> DEFINE q == <<x>>
<1>1. q \in Seq(Nat) /\ q # <<>> /\ Head(q) = x /\ Tail(q) = <<>> /\ Append(p, x) \in Seq(Nat)
  OBVIOUS
<1>2. Speaks(q, sns, mid, hi)
  OBVIOUS
<1> HIDE DEF q
<1>4. /\ Head(q) <= hi
      /\ Speaks(Append(p, Head(q)), sns, lo, Head(q)) /\ Speaks(Tail(q), sns, Head(q), hi)
  BY <1>1, <1>2, SpeaksMove
<1>3. x <= hi /\ Speaks(Append(p, x), sns, lo, x) /\ Speaks(<<>>, sns, x, hi)
  BY <1>1, <1>4
<1> QED BY <1>1, <1>3, SpeaksExtend

\* The next sentence is in hand, or has nothing to say.
LEMMA SpeaksNext ==
    ASSUME NEW sns, NEW lo \in Nat, NEW hi \in Nat, lo <= hi, Speaks(<<>>, sns, lo, hi)
    PROVE  /\ Blank(sns[hi + 1]) => Speaks(<<>>, sns, lo, hi + 1)
           /\ ~Blank(sns[hi + 1]) => Speaks(<<hi + 1>>, sns, lo, hi + 1)
<1> DEFINE none == <<>>
           one == <<hi + 1>>
<1>1. 1..Len(none) = {} /\ Len(one) = 1 /\ one[1] = hi + 1 /\ 1..1 = {1}
  OBVIOUS
<1>2. Speaks(none, sns, lo, hi)
  OBVIOUS
<1> HIDE DEF none, one
<1>3. \A n \in (lo + 1)..hi : Blank(sns[n])
  BY <1>1, <1>2 DEF Speaks
<1>4. \A n \in (lo + 1)..(hi + 1) : n = hi + 1 \/ n \in (lo + 1)..hi
  OBVIOUS
<1>5. Blank(sns[hi + 1]) => Speaks(none, sns, lo, hi + 1)
  BY <1>1, <1>3, <1>4 DEF Speaks
<1>6. hi + 1 \in (lo + 1)..(hi + 1)
  OBVIOUS
<1>7. ASSUME ~Blank(sns[hi + 1]) PROVE Speaks(one, sns, lo, hi + 1)
  <2>1. \A j, k \in 1..Len(one) : j < k => one[j] < one[k]
    BY <1>1
  <2>2. \A k \in 1..Len(one) : one[k] \in (lo + 1)..(hi + 1) /\ ~Blank(sns[one[k]])
    BY <1>1, <1>6, <1>7
  <2>3. \A n \in (lo + 1)..(hi + 1) : Blank(sns[n]) \/ \E k \in 1..Len(one) : one[k] = n
    BY <1>1, <1>3, <1>4
  <2> QED BY <2>1, <2>2, <2>3 DEF Speaks
<1> QED BY <1>5, <1>7 DEF none, one

\* A sentence that is passed on later changes nothing.
LEMMA SpeaksGrow ==
    ASSUME NEW S, NEW sns \in Seq(S), NEW y, NEW q, NEW lo \in Nat, NEW hi \in Nat, hi <= Len(sns),
           Speaks(q, sns, lo, hi)
    PROVE  Speaks(q, Append(sns, y), lo, hi)
<1> DEFINE r == Append(sns, y)
<1>1. sns \in Seq(S \cup {y}) /\ y \in S \cup {y}
  OBVIOUS
<1>2. Len(sns) \in Nat /\ \A i \in 1..Len(sns) : r[i] = sns[i]
  BY <1>1, Appended
<1> HIDE DEF r
<1>3. \A i \in (lo + 1)..hi : r[i] = sns[i]
  BY <1>2
<1> QED BY <1>3 DEF Speaks, r

-----------------------------------------------------------------------------
(* ---- what the invariants are about -------------------------------------------- *)

ToolCalls == [index : Nat, whole : BOOLEAN]
LlmChunks ==
    [kind : {"text"}, text : Seq(Runes)] \cup [kind : {"call"}, call : ToolCalls]
      \cup [kind : {"done"}, finish : FinishReasons]
      \cup [kind : {"error"}, why : {"canceled", "refused", "cut", "bad", "idle", "calls"}]
LlmStreams ==
    [pc : {"post", "read", "send", "closed"}, script : Seq(Lines), pend : Seq(LlmChunks),
     calls : Seq(ToolCalls), finish : FinishReasons \cup {NoFinish}, body : BOOLEAN, idle : BOOLEAN]
Reports ==
    [text : Seq(Runes), calls : Seq(ToolCalls), audio : Seq(Nat),
     llmDone : BOOLEAN, ttsDone : BOOLEAN, err : BOOLEAN]

LlmTypeOK ==
    /\ sc \in Requests /\ CallsComplete(sc.script) /\ cancelled \in BOOLEAN
    /\ llm \in LlmStreams /\ (llm.pc = "post" => llm.script # <<>>)
    /\ lout \in [q : Seq(LlmChunks), closed : BOOLEAN]
    /\ told \in Reports

\* How many lines of the script have been read.
Read == Len(sc.script) - Len(llm.script)

\* The script is read in order; the calls gathered are those of the lines read, each
\* as its last fragment left it, and the finish reason is the last one read.
Gathered ==
    /\ Len(llm.script) <= Len(sc.script)
    /\ \A k \in 1..Len(llm.script) : llm.script[k] = sc.script[Read + k]
    /\ \A c \in 1..Len(llm.calls) : \E i \in 1..Read :
          /\ sc.script[i].k = "call"
          /\ sc.script[i].index = llm.calls[c].index /\ sc.script[i].last = llm.calls[c].whole
          /\ \A j \in (i + 1)..Read : sc.script[j].k = "call" => sc.script[j].index # llm.calls[c].index
    /\ llm.finish = NoFinish => \A j \in 1..Read : sc.script[j].k # "finish"
    /\ llm.finish # NoFinish => \E j \in 1..Read :
          /\ sc.script[j].k = "finish" /\ sc.script[j].reason = llm.finish
          /\ \A i \in (j + 1)..Read : sc.script[i].k # "finish"

WholeCall(c) == c.whole \/ Unfinished

\* No call has been sent yet.
NoCall == told.calls = <<>> /\ \A i \in 1..Len(lout.q) : lout.q[i].kind # "call"

\* A call is sent once, just before the end of the stream.
Passing ==
    /\ llm.pc \in {"post", "read"} => NoCall
    /\ llm.pc = "send" =>
          \/ Len(llm.pend) = 1 /\ llm.pend[1].kind \in {"done", "error"}
          \/ Len(llm.pend) = 1 /\ llm.pend[1].kind = "text" /\ NoCall
          \/ /\ Len(llm.pend) = 2 /\ llm.pend[1].kind = "call" /\ WholeCall(llm.pend[1].call)
             /\ llm.pend[2].kind \in {"done", "error"} /\ NoCall
    /\ \A i, j \in 1..Len(lout.q) : lout.q[i].kind = "call" /\ lout.q[j].kind = "call" => i = j
    /\ \A i \in 1..Len(lout.q) : lout.q[i].kind = "call" => WholeCall(lout.q[i].call) /\ told.calls = <<>>
    /\ Len(told.calls) <= 1 /\ \A k \in 1..Len(told.calls) : WholeCall(told.calls[k])

CallInv == LlmTypeOK /\ Gathered /\ Passing

(* ---- the audio ------------------------------------------------------------------ *)

Channels == [q : Seq(Nat), closed : BOOLEAN]
SpeechStreams ==
    [kind : {"none", "qwen", "realtime", "speech"}, can : BOOLEAN,
     errc : {NoText, "ok", "error", "canceled"}, ended : BOOLEAN, started : BOOLEAN, quit : BOOLEAN,
     text : Nat \cup {NoText},
     pc : {"off", "read", "connect", "next", "speak", "spoken", "post", "body", "tail", "closed"},
     wpc : {"off", "run", "await", "text", "done"}]
Services == [run : BOOLEAN, heard : Seq(Nat), finish : BOOLEAN, faulty : BOOLEAN, silent : BOOLEAN]
TtsStages ==
    [pc : {"discard", "dial", "drain", "join", "close", "done", "next", "synthesize", "segment"},
     hand : Nat \cup {NoText}]
TextStages ==
    [pc : {"off", "recv", "write", "done"}, text : Nat \cup {NoText}, err : {NoText, "ok", "closed", "canceled"}]

\* The sentences taken from the channel.
Taken == Len(emitted) - Len(sentences.q)

TtsTypeOK ==
    /\ tts \in SpeechStreams /\ tts.kind = sc.tts /\ (tts.kind # "qwen" => tts.wpc = "off")
    /\ tin \in Channels /\ tout \in Channels /\ rem \in Services
    /\ tstage \in TtsStages /\ wstage \in TextStages
    /\ sentences \in Channels /\ Len(sentences.q) <= Len(emitted)
    /\ \A k \in 1..Len(sentences.q) : sentences.q[k] = Taken + k
    /\ \E S : emitted \in Seq(S)
    /\ "pc" \in DOMAIN sstage /\ (sentences.closed => sstage.pc = "done")

\* What the stream holds between its text and its audio channel.
Held ==
    IF tts.kind = "qwen" THEN rem.heard
    ELSE IF tts.pc = "speak" THEN <<tts.text>> ELSE <<>>

\* The stream still takes texts.
Taking == IF tts.kind = "qwen" THEN tts.wpc # "done" ELSE tts.pc # "closed"

\* Nothing is to be said of the sentences taken after x.
Mute(x) == Speaks(<<>>, emitted, x, Taken)

\* Up to a the actor has the audio, from there to b it is in the channel, to c in the
\* stream, to d in the text channel, and the rest in the text goroutine's hand.
Chain(a, b, c, d) ==
    /\ a <= b /\ b <= c /\ c <= d
    /\ Speaks(told.audio, emitted, 0, a)
    /\ tstage.pc = "drain" => Speaks(tout.q, emitted, a, b)
    /\ tts.pc # "closed" => Speaks(Held, emitted, b, c)
    /\ Taking => Speaks(tin.q, emitted, c, d)
    /\ wstage.pc = "recv" => Mute(d)
    /\ wstage.pc = "write" => Speaks(<<wstage.text>>, emitted, d, Taken)
    /\ tin.closed => SentencesOver /\ wstage.pc = "done" /\ Mute(d)
    /\ rem.finish => tin.closed /\ tts.wpc = "done" /\ Mute(c)
    /\ tout.closed /\ tts.errc = "ok" => tin.closed /\ tts.pc = "closed" /\ Mute(b)
    /\ tstage.pc = "join" \/ told.ttsDone => SentencesOver /\ Mute(a)

Silence == told.audio = <<>> /\ ~told.ttsDone /\ tts.pc = "off" /\ tts.wpc = "off"

\* ttsIncremental.
Spoken ==
    /\ tstage.pc \in {"dial", "drain", "join", "close", "done"}
    /\ told.ttsDone => tstage.pc \in {"close", "done"}
    /\ tstage.pc = "dial" => wstage.pc = "off" /\ Taken = 0
    /\ wstage.pc = "off" => tstage.pc \in {"dial", "done"} /\ Silence
    /\ wstage.pc = "write" => wstage.text \in Nat
    /\ tts.pc = "speak" => tts.text \in Nat
    /\ wstage.pc # "off" => \E a, b, c, d \in 0..Taken : Chain(a, b, c, d)

\* ttsPerSentence: the same with one stream for each sentence.
Solo(a, b) ==
    /\ a <= b
    /\ Speaks(told.audio, emitted, 0, a)
    /\ tstage.pc \in {"next", "segment"} \/ told.ttsDone => Mute(a)
    /\ tstage.pc = "synthesize" => tstage.hand \in Nat /\ Speaks(<<tstage.hand>>, emitted, a, Taken)
    /\ tstage.pc = "drain" =>
          /\ Speaks(tout.q, emitted, a, b)
          /\ tts.pc \in {"post", "body"} => Speaks(tin.q, emitted, b, Taken)
          /\ tts.pc = "tail" \/ (tout.closed /\ tts.errc = "ok") => Mute(b)

SpokenSingly ==
    /\ tstage.pc \in {"next", "synthesize", "drain", "segment", "close", "done"}
    /\ told.ttsDone => tstage.pc = "done" /\ SentencesOver
    /\ wstage.pc = "off"
    /\ tts.pc \in {"off", "post", "body", "tail", "closed"}
    /\ tts.pc \in {"post", "body"} => Len(tin.q) = 1
    /\ \E a, b \in 0..Taken : Solo(a, b)

\* A text-only response.
Unspoken == tstage.pc \in {"discard", "done"} /\ wstage.pc = "off" /\ Silence

AudioInv ==
    /\ TtsTypeOK
    /\ Incremental => Spoken
    /\ sc.tts = "speech" => SpokenSingly
    /\ TextOnly => Unspoken

(* ---- the text ------------------------------------------------------------------ *)

Sentencers == [buf : Seq(Runes), base : Nat, scan : Nat]
Spans == [text : Seq(Runes), start : Nat, end : Nat]

TextTypeOK ==
    /\ lstage \in [pc : {"recv", "pass", "done"}, text : Seq(Runes)]
    /\ chunks \in [q : Seq(Seq(Runes)), closed : BOOLEAN] /\ (chunks.closed => lstage.pc = "done")
    /\ sstage \in [pc : {"run", "split", "done"}, st : Sentencers, pend : Seq(Spans), flushed : BOOLEAN]
    /\ sstage.st.scan <= Len(sstage.st.buf)
    /\ emitted \in Seq(Spans)

\* The piece of a text at offset o.
PartAt(piece, text, o) ==
    o + Len(piece) <= Len(text) /\ \A k \in 1..Len(piece) : piece[k] = text[o + k]

\* The chunks of q are the text between two offsets.
Between(q, text, from, to) ==
    \E off \in [1..(Len(q) + 1) -> Nat] :
        /\ off[1] = from /\ off[Len(q) + 1] = to
        /\ \A k \in 1..Len(q) : PartAt(q[k], text, off[k]) /\ off[k + 1] = off[k] + Len(q[k])

\* All of the text is on its way: in the sentencer, then in the channel, then in
\* llmStage; what a cancelled llmStage held is lost.
Chunked ==
    \E to \in 0..Len(told.text) :
        /\ Between(chunks.q, told.text, sstage.st.base + Len(sstage.st.buf), to)
        /\ lstage.pc = "pass" => PartAt(lstage.text, told.text, to) /\ to + Len(lstage.text) = Len(told.text)
        /\ lstage.pc = "recv" \/ (lstage.pc = "done" /\ ~cancelled) => to = Len(told.text)

\* The sentences cut so far, passed on or not.
Cut == emitted \o sstage.pend
EndOf(cut) == IF cut = <<>> THEN 0 ELSE cut[Len(cut)].end

PrevEnd(cut, k) == IF k = 1 THEN 0 ELSE cut[k - 1].end
Tile(cut, text, k) ==
    /\ cut[k].start = PrevEnd(cut, k)
    /\ cut[k].end = cut[k].start + Len(cut[k].text)
    /\ PartAt(cut[k].text, text, cut[k].start)

\* Sentence k was cut at a boundary: it is not what remained at the end.
AtBoundary(cut, st, flushed, k) == k < Len(cut) \/ ~flushed \/ st.buf = <<>>

\* The sentences tile the text up to the sentencer's buffer, or with it.
Tiles(cut, st, flushed, text) ==
    /\ PartAt(st.buf, text, st.base)
    /\ \A k \in 1..Len(cut) :
          Tile(cut, text, k) /\ (AtBoundary(cut, st, flushed, k) => Len(cut[k].text) >= MinSentenceRunes)
    /\ EndOf(cut) = IF flushed THEN st.base + Len(st.buf) ELSE st.base
    /\ flushed /\ st.buf # <<>> => cut # <<>> /\ cut[Len(cut)].start = st.base

\* A scan that starts at lo starts in no run, except to end it at once.
Clear(buf, lo) ==
    \A h \in 0..(lo - 1) :
        /\ buf[h + 1] \in Terminators
        /\ \A k \in h..(lo - 1) : buf[k + 1] \in InRun
        => lo < Len(buf) /\ buf[lo + 1] \notin InRun

\* The sentence ends where the whole text has its first boundary that makes it
\* long enough.
First(text, sn) ==
    /\ Len(sn.text) \in LongEnough(text, sn.start)
    /\ \A e \in LongEnough(text, sn.start) : Len(sn.text) <= e

\* What was scanned stays scanned: no boundary was passed over, and no later
\* chunk adds one.
Firm(cut, st, flushed, scanning, text) ==
    /\ Clear(st.buf, st.scan)
    /\ \A e \in Boundaries(st.buf, 0) : e <= st.scan \/ ~scanning => e < MinSentenceRunes
    /\ \A k \in 1..Len(cut) : AtBoundary(cut, st, flushed, k) => First(text, cut[k])

\* The text is flushed when all of it has come, and then passed on.
Drained ==
    /\ sstage.flushed => chunks.q = <<>> /\ chunks.closed /\ sstage.pc # "split"
    /\ sstage.pc = "done" /\ ~cancelled => sstage.flushed /\ sstage.pend = <<>>

TextInv ==
    /\ TextTypeOK /\ Chunked /\ Drained
    /\ Tiles(Cut, sstage.st, sstage.flushed, told.text)
    /\ ~Contains(told.text, "cjk") => Firm(Cut, sstage.st, sstage.flushed, sstage.pc = "split", told.text)

-----------------------------------------------------------------------------
(* ---- sentences ----------------------------------------------------------------- *)

\* The least number of a set is the one Min chooses.
LEMMA LeastNat ==
    ASSUME NEW T, T \subseteq Nat, T # {}
    PROVE  Min(T) \in T /\ Min(T) \in Nat /\ \A y \in T : Min(T) <= y
<1>1. PICK x \in T : \A y \in T : ~(<<y, x>> \in OpToRel(<, Nat))
  BY WFMin, NatLessThanWellFounded
<1>2. ASSUME NEW y \in T PROVE x <= y
  <2>1. x \in Nat /\ y \in Nat
    OBVIOUS
  <2> DEFINE ss == <<y, x>>
  <2>2. ss \in Nat \X Nat /\ ss[1] = y /\ ss[2] = x
    BY <2>1
  <2>3. ss \notin OpToRel(<, Nat)
    BY <1>1
  <2> HIDE DEF ss
  <2>4. ~(ss[1] < ss[2])
    BY <2>2, <2>3 DEF OpToRel
  <2> QED BY <2>1, <2>2, <2>4
<1>3. \E z \in T : \A y \in T : z <= y
  BY <1>2
<1>4. Min(T) \in T /\ \A y \in T : Min(T) <= y
  BY <1>3 DEF Min
<1> QED BY <1>4

\* A piece of a text is the subsequence at its place.
LEMMA PartSub ==
    ASSUME NEW S, NEW t \in Seq(S), NEW p \in Seq(S), NEW o \in Nat, PartAt(p, t, o)
    PROVE  p = SubSeq(t, o + 1, o + Len(p))
<1>1. Len(p) \in Nat /\ Len(t) \in Nat /\ o + Len(p) <= Len(t) /\ \A k \in 1..Len(p) : p[k] = t[o + k]
  BY DEF PartAt
<1> DEFINE r == SubSeq(t, o + 1, o + Len(p))
<1>2. r \in Seq(S) /\ Len(r) = Len(p) /\ \A k \in 1..Len(p) : r[k] = t[o + k]
  BY <1>1
<1> HIDE DEF r
<1>3. r = p
  BY <1>1, <1>2
<1> QED BY <1>3 DEF r

\* A text that goes on has the same words.
LEMMA WordSame ==
    ASSUME NEW buf \in Seq(Runes), NEW text \in Seq(Runes), Len(buf) <= Len(text),
           \A k \in 1..Len(buf) : buf[k] = text[k], NEW i \in 0..Len(buf)
    PROVE  IsAbbreviation(buf, i) <=> IsAbbreviation(text, i)
<1>1. ASSUME NEW s \in 0..(i - 1)
      PROVE  /\ \A k \in s..(i - 1) : buf[k + 1] = text[k + 1]
             /\ s = 0 \/ buf[s] = text[s]
             /\ SubSeq(buf, s + 1, i) = SubSeq(text, s + 1, i)
  <2>1. \A k \in s..(i - 1) : k + 1 \in 1..Len(buf)
    OBVIOUS
  <2>2. s = 0 \/ s \in 1..Len(buf)
    OBVIOUS
  <2> DEFINE p == SubSeq(buf, s + 1, i)
             r == SubSeq(text, s + 1, i)
  <2>3. /\ p \in Seq(Runes) /\ Len(p) = i - s /\ \A k \in 1..(i - s) : p[k] = buf[s + k]
    OBVIOUS
  <2>4. /\ r \in Seq(Runes) /\ Len(r) = i - s /\ \A k \in 1..(i - s) : r[k] = text[s + k]
    OBVIOUS
  <2>5. \A k \in 1..(i - s) : s + k \in 1..Len(buf)
    OBVIOUS
  <2> HIDE DEF p, r
  <2>6. p = r
    BY <2>3, <2>4, <2>5
  <2> QED BY <2>1, <2>2, <2>6 DEF p, r
<1> QED BY <1>1 DEF IsAbbreviation

\* ... and the same runs, before its last rune.
LEMMA RunSame ==
    ASSUME NEW buf \in Seq(Runes), NEW text \in Seq(Runes), Len(buf) <= Len(text),
           \A k \in 1..Len(buf) : buf[k] = text[k],
           NEW j \in 1..(Len(buf) - 1), NEW i \in 0..(j - 1)
    PROVE  /\ Run(buf, 0, i, j) <=> Run(text, 0, i, j)
           /\ CjkInRun(buf, i, j) <=> CjkInRun(text, i, j)
<1>1. /\ \A k \in 0..j : buf[k + 1] = text[k + 1]
      /\ j # Len(buf) /\ j # Len(text)
  <2>1. \A k \in 0..j : k + 1 \in 1..Len(buf)
    OBVIOUS
  <2> QED BY <2>1
<1>2. i \in 0..j /\ j \in 0..j /\ (\A k \in i..(j - 1) : k \in 0..j)
      /\ (\A h \in 0..(i - 1) : h \in 0..j /\ \A k \in h..(i - 1) : k \in 0..j)
  OBVIOUS
<1>3. CjkInRun(buf, i, j) <=> CjkInRun(text, i, j)
  BY <1>1, <1>2 DEF CjkInRun
<1>4. Run(buf, 0, i, j) <=> Run(text, 0, i, j)
  BY <1>1, <1>2 DEF Run
<1> QED BY <1>3, <1>4

\* Without CJK terminators, a text that goes on keeps its boundaries, and gets
\* no new one before its last rune.
LEMMA EndsSame ==
    ASSUME NEW buf \in Seq(Runes), NEW text \in Seq(Runes), Len(buf) <= Len(text),
           \A k \in 1..Len(buf) : buf[k] = text[k], \A k \in 1..Len(buf) : buf[k] # "cjk",
           NEW j \in 1..Len(buf)
    PROVE  /\ EndsAt(buf, 0, j) => EndsAt(text, 0, j)
           /\ j < Len(buf) /\ EndsAt(text, 0, j) => EndsAt(buf, 0, j)
<1>1. buf[j] = text[j]
  OBVIOUS
<1>2. ASSUME NEW i \in 0..(j - 1) PROVE ~CjkInRun(buf, i, j)
  <2>1. \A k \in i..(j - 1) : k + 1 \in 1..Len(buf)
    OBVIOUS
  <2> QED BY <2>1 DEF CjkInRun, CJKTerminators
<1>3. CASE j < Len(buf)
  <2>1. /\ j \in 1..(Len(buf) - 1) /\ j < Len(text) /\ buf[j + 1] = text[j + 1]
        /\ \A i \in 0..(j - 1) : i \in 0..Len(buf)
    BY <1>3
  <2>2. \A i \in 0..(j - 1) :
           /\ Run(buf, 0, i, j) <=> Run(text, 0, i, j)
           /\ CjkInRun(buf, i, j) <=> CjkInRun(text, i, j)
           /\ IsAbbreviation(buf, i) <=> IsAbbreviation(text, i)
    BY <2>1, RunSame, WordSame
  <2> QED BY <1>1, <1>3, <2>1, <2>2 DEF EndsAt
<1>4. CASE j = Len(buf)
  <2>1. EndsAt(buf, 0, j) => buf[j] = "nl"
    BY <1>2, <1>4 DEF EndsAt
  <2> QED BY <1>1, <1>4, <2>1 DEF EndsAt
<1> QED BY <1>3, <1>4

\* Past a clear start, a scan meets the boundaries a scan of the whole buffer meets.
LEMMA EndsFrom ==
    ASSUME NEW buf \in Seq(Runes), NEW lo \in 0..Len(buf), Clear(buf, lo), NEW j \in (lo + 1)..Len(buf)
    PROVE  EndsAt(buf, lo, j) <=> EndsAt(buf, 0, j)
<1>1. Len(buf) \in Nat /\ lo \in Nat /\ j \in Nat /\ lo < j /\ j <= Len(buf)
  OBVIOUS
<1>2. ASSUME NEW i \in 0..(lo - 1), Run(buf, 0, i, j) PROVE FALSE
  <2>1. buf[i + 1] \in Terminators /\ \A k \in i..(j - 1) : buf[k + 1] \in InRun
    BY <1>2 DEF Run
  <2>2. \A k \in i..(lo - 1) : k \in i..(j - 1)
    BY <1>1
  <2>3. lo \in i..(j - 1)
    BY <1>1
  <2>4. buf[lo + 1] \notin InRun
    BY <2>1, <2>2 DEF Clear
  <2> QED BY <2>1, <2>3, <2>4
<1>3. ASSUME NEW i \in lo..(j - 1) PROVE Run(buf, lo, i, j) <=> Run(buf, 0, i, j)
  <2>1. \A h \in lo..(i - 1) : h \in 0..(i - 1)
    BY <1>1
  <2>2. ASSUME Run(buf, lo, i, j), NEW h \in 0..(i - 1), buf[h + 1] \in Terminators
        PROVE  \E k \in h..(i - 1) : buf[k + 1] \notin InRun
    <3>1. /\ buf[i + 1] \in Terminators
          /\ \A g \in lo..(i - 1) : buf[g + 1] \in Terminators => \E k \in g..(i - 1) : buf[k + 1] \notin InRun
      BY <2>2 DEF Run
    <3>2. CASE h \in lo..(i - 1)
      BY <2>2, <3>1, <3>2
    <3>3. CASE h \in 0..(lo - 1)
      <4>1. SUFFICES ASSUME \A k \in h..(i - 1) : buf[k + 1] \in InRun PROVE FALSE
        OBVIOUS
      <4>2. \A k \in h..(lo - 1) : k \in h..(i - 1)
        BY <1>1
      <4>3. buf[lo + 1] \notin InRun
        BY <2>2, <3>3, <4>1, <4>2 DEF Clear
      <4>4. lo = i \/ lo \in h..(i - 1)
        BY <1>1, <3>3
      <4> QED BY <3>1, <4>1, <4>3, <4>4 DEF InRun
    <3>4. h \in lo..(i - 1) \/ h \in 0..(lo - 1)
      BY <1>1
    <3> QED BY <3>2, <3>3, <3>4
  <2> QED BY <2>1, <2>2 DEF Run
<1>4. \A i \in 0..(j - 1) : i \in 0..(lo - 1) \/ i \in lo..(j - 1)
  BY <1>1
<1>5. \A i \in lo..(j - 1) : i \in 0..(j - 1)
  BY <1>1
<1>6. EndsAt(buf, lo, j) => EndsAt(buf, 0, j)
  BY <1>3, <1>5 DEF EndsAt
<1>7. EndsAt(buf, 0, j) => EndsAt(buf, lo, j)
  BY <1>2, <1>3, <1>4 DEF EndsAt
<1> QED BY <1>6, <1>7

\* A start stays clear when the text goes on.
LEMMA ClearGrows ==
    ASSUME NEW buf \in Seq(Runes), NEW text \in Seq(Runes), Len(buf) <= Len(text),
           \A k \in 1..Len(buf) : buf[k] = text[k], NEW lo \in 0..Len(buf), Clear(buf, lo)
    PROVE  Clear(text, lo)
<1> SUFFICES ASSUME NEW h \in 0..(lo - 1), text[h + 1] \in Terminators,
                    \A k \in h..(lo - 1) : text[k + 1] \in InRun
             PROVE  lo < Len(text) /\ text[lo + 1] \notin InRun
  BY DEF Clear
<1>1. \A k \in h..(lo - 1) : k + 1 \in 1..Len(buf)
  OBVIOUS
<1>2. h \in h..(lo - 1)
  OBVIOUS
<1>3. \A k \in h..(lo - 1) : buf[k + 1] = text[k + 1]
  BY <1>1
<1>4. lo < Len(buf) /\ buf[lo + 1] \notin InRun
  BY <1>2, <1>3 DEF Clear
<1>5. lo + 1 \in 1..Len(buf) /\ lo < Len(text)
  BY <1>4
<1> QED BY <1>4, <1>5

\* Where a scan that finds nothing stops is clear: the end, if the buffer does
\* not end in a run.
LEMMA ClearEnd ==
    ASSUME NEW buf \in Seq(Runes), NEW lo \in 0..Len(buf), Clear(buf, lo),
           Boundaries(buf, lo) = {}, ~OpenRun(buf, lo)
    PROVE  Clear(buf, Len(buf))
<1> DEFINE n == Len(buf)
           T == {h \in 0..(n - 1) : buf[h + 1] \in Terminators /\ \A k \in h..(n - 1) : buf[k + 1] \in InRun}
<1>1. n \in Nat /\ lo \in Nat /\ lo <= n
  OBVIOUS
<1> SUFFICES ASSUME T # {} PROVE FALSE
  BY DEF Clear
<1>2. T \subseteq Nat
  BY <1>1
<1> HIDE DEF n, T
<1>3. PICK h : h \in T /\ h \in Nat /\ \A y \in T : h <= y
  BY <1>2, LeastNat
<1>4. /\ h \in 0..(n - 1) /\ buf[h + 1] \in Terminators
      /\ \A k \in h..(n - 1) : buf[k + 1] \in InRun
  BY <1>3 DEF T
<1>5. lo <= h
  <2> SUFFICES ASSUME h < lo PROVE FALSE
    BY <1>1, <1>3
  <2>1. h \in 0..(lo - 1) /\ \A k \in h..(lo - 1) : k \in h..(n - 1)
    BY <1>1, <1>3
  <2>2. lo < n /\ buf[lo + 1] \notin InRun
    BY <1>4, <2>1 DEF Clear, n
  <2>3. lo \in h..(n - 1)
    BY <1>1, <1>3, <2>2
  <2> QED BY <1>4, <2>2, <2>3
<1>6. ASSUME NEW g \in lo..(h - 1), buf[g + 1] \in Terminators
      PROVE  \E k \in g..(h - 1) : buf[k + 1] \notin InRun
  <2> SUFFICES ASSUME \A k \in g..(h - 1) : buf[k + 1] \in InRun PROVE FALSE
    OBVIOUS
  <2>1. \A k \in g..(n - 1) : k \in g..(h - 1) \/ k \in h..(n - 1)
    BY <1>1, <1>3
  <2>2. g \in 0..(n - 1) /\ g < h
    BY <1>1, <1>3, <1>4
  <2>3. g \in T
    BY <1>4, <1>6, <2>1, <2>2 DEF T
  <2> QED BY <1>3, <2>2, <2>3
<1>7. Run(buf, lo, h, n)
  BY <1>4, <1>6 DEF Run, n
<1>8. h \in lo..(n - 1) /\ n \in (lo + 1)..n
  BY <1>1, <1>4, <1>5
<1>9. CASE CjkInRun(buf, h, n)
  <2>1. n \in Boundaries(buf, lo)
    BY <1>7, <1>8, <1>9 DEF Boundaries, EndsAt, n
  <2> QED BY <2>1
<1>10. CASE ~CjkInRun(buf, h, n)
  BY <1>7, <1>8, <1>10 DEF OpenRun, n
<1> QED BY <1>9, <1>10

\* Without CJK terminators, a boundary is a clear place to go on from.
LEMMA ClearBoundary ==
    ASSUME NEW buf \in Seq(Runes), \A k \in 1..Len(buf) : buf[k] # "cjk",
           NEW lo \in 0..Len(buf), NEW e \in Boundaries(buf, lo)
    PROVE  Clear(buf, e)
<1>1. Len(buf) \in Nat /\ lo \in Nat /\ e \in (lo + 1)..Len(buf) /\ EndsAt(buf, lo, e)
  BY DEF Boundaries
<1> SUFFICES ASSUME NEW h \in 0..(e - 1), \A k \in h..(e - 1) : buf[k + 1] \in InRun
             PROVE  e < Len(buf) /\ buf[e + 1] \notin InRun
  BY DEF Clear
<1>2. e - 1 \in h..(e - 1) /\ (e - 1) + 1 = e
  BY <1>1
<1>3. buf[e] # "nl"
  BY <1>2 DEF InRun, Terminators, CJKTerminators, ClosingQuotes
<1>4. ASSUME NEW i \in lo..(e - 1) PROVE ~CjkInRun(buf, i, e)
  <2>1. \A k \in i..(e - 1) : k + 1 \in 1..Len(buf)
    BY <1>1
  <2> QED BY <2>1 DEF CjkInRun, CJKTerminators
<1> QED BY <1>1, <1>3, <1>4 DEF EndsAt, Run

\* findBoundary finds the first boundary past scan, or tells how far it looked.
LEMMA FindsFirst ==
    ASSUME NEW st \in Sentencers, st.scan <= Len(st.buf), NEW b, b = FindBoundary(st)
    PROVE  /\ b.found \in BOOLEAN /\ b.scan \in Nat /\ b.scan <= Len(st.buf)
           /\ b.found =>
                 /\ b.scan \in Boundaries(st.buf, st.scan) /\ st.scan < b.scan
                 /\ \A e \in Boundaries(st.buf, st.scan) : b.scan <= e
           /\ ~b.found =>
                 /\ Boundaries(st.buf, st.scan) = {}
                 /\ b.scan = st.scan \/ (b.scan = Len(st.buf) /\ ~OpenRun(st.buf, st.scan))
<1> DEFINE ends == Boundaries(st.buf, st.scan)
<1>1. st.buf \in Seq(Runes) /\ st.scan \in Nat /\ Len(st.buf) \in Nat
  BY DEF Sentencers
<1>2. \A e \in ends : e \in Nat /\ st.scan < e /\ e <= Len(st.buf)
  BY <1>1 DEF Boundaries
<1>3. CASE ends # {}
  <2>1. ends \subseteq Nat
    BY <1>2
  <2>2. b.found = TRUE /\ b.scan = Min(ends)
    BY <1>3 DEF FindBoundary
  <2> HIDE DEF ends
  <2>3. Min(ends) \in ends /\ Min(ends) \in Nat /\ \A y \in ends : Min(ends) <= y
    BY <1>3, <2>1, LeastNat
  <2>4. /\ b.found = TRUE /\ b.scan \in Nat /\ b.scan <= Len(st.buf) /\ st.scan < b.scan
        /\ b.scan \in ends /\ \A y \in ends : b.scan <= y
    BY <1>2, <2>2, <2>3
  <2> QED BY <2>4 DEF ends
<1>4. CASE ends = {}
  <2>1. b.found = FALSE /\ b.scan = IF OpenRun(st.buf, st.scan) THEN st.scan ELSE Len(st.buf)
    BY <1>4 DEF FindBoundary
  <2>2. CASE OpenRun(st.buf, st.scan)
    BY <1>1, <1>4, <2>1, <2>2
  <2>3. CASE ~OpenRun(st.buf, st.scan)
    <3>1. b.scan = Len(st.buf)
      BY <2>1, <2>3
    <3>2. b.scan \in Nat /\ b.scan <= Len(st.buf)
      BY <1>1, <3>1
    <3>3. b.found \in BOOLEAN /\ ~b.found
      BY <2>1
    <3> QED BY <1>4, <2>3, <3>1, <3>2, <3>3, Zenon
  <2> QED BY <2>2, <2>3
<1> QED BY <1>3, <1>4

\* What is left of a text from an offset on.
LEMMA RestOf ==
    ASSUME NEW S, NEW text \in Seq(S), NEW o \in 0..Len(text), NEW rest, rest = SubSeq(text, o + 1, Len(text))
    PROVE  /\ rest \in Seq(S) /\ Len(text) \in Nat /\ Len(rest) = Len(text) - o
           /\ \A k \in 1..Len(rest) : o + k \in 1..Len(text) /\ rest[k] = text[o + k]
OBVIOUS

\* The boundaries of what is left.
LEMMA LongHas ==
    ASSUME NEW text, NEW o, NEW rest, rest = SubSeq(text, o + 1, Len(text)), NEW e
    PROVE  e \in LongEnough(text, o) <=> e \in 1..Len(rest) /\ EndsAt(rest, 0, e) /\ e >= MinSentenceRunes
<1>0. 0 + 1 = 1
  OBVIOUS
<1>1. e \in Boundaries(rest, 0) <=> e \in 1..Len(rest) /\ EndsAt(rest, 0, e)
  BY <1>0, Zenon DEF Boundaries
<1>2. e \in LongEnough(text, o) <=> e \in Boundaries(rest, 0) /\ e >= MinSentenceRunes
  BY DEF LongEnough
<1> QED BY <1>1, <1>2

\* A sentence that is cut at the first boundary of the buffer that makes it long
\* enough ends at the first one of the text.
LEMMA FirstCut ==
    ASSUME NEW text \in Seq(Runes), \A k \in 1..Len(text) : text[k] # "cjk",
           NEW buf \in Seq(Runes), NEW base \in Nat, PartAt(buf, text, base),
           NEW lo \in 0..Len(buf), Clear(buf, lo),
           \A e \in Boundaries(buf, 0) : e <= lo => e < MinSentenceRunes,
           NEW sn, sn.start = base, Len(sn.text) \in Boundaries(buf, lo),
           Len(sn.text) >= MinSentenceRunes, \A e \in Boundaries(buf, lo) : Len(sn.text) <= e
    PROVE  First(text, sn)
<1>0. MinSentenceRunes \in Nat
  BY SentencerAssumption
<1>1. /\ Len(buf) \in Nat /\ Len(text) \in Nat /\ base + Len(buf) <= Len(text) /\ base \in 0..Len(text)
      /\ \A k \in 1..Len(buf) : buf[k] = text[base + k]
  BY DEF PartAt
<1>2. PICK rest : rest = SubSeq(text, base + 1, Len(text))
  OBVIOUS
<1>3. /\ rest \in Seq(Runes) /\ Len(rest) = Len(text) - base
      /\ \A k \in 1..Len(rest) : base + k \in 1..Len(text) /\ rest[k] = text[base + k]
  BY <1>1, <1>2, RestOf
<1>4. Len(buf) <= Len(rest) /\ Len(rest) \in Nat /\ \A k \in 1..Len(buf) : k \in 1..Len(rest)
  BY <1>1, <1>3
<1>5. \A k \in 1..Len(buf) : buf[k] = rest[k] /\ buf[k] # "cjk"
  BY <1>1, <1>3, <1>4
<1>6. ASSUME NEW j \in 1..Len(buf)
      PROVE  /\ EndsAt(buf, 0, j) => EndsAt(rest, 0, j)
             /\ j < Len(buf) /\ EndsAt(rest, 0, j) => EndsAt(buf, 0, j)
  BY <1>3, <1>4, <1>5, EndsSame
<1>7. PICK n : n = Len(sn.text)
  OBVIOUS
<1>8. n \in (lo + 1)..Len(buf) /\ EndsAt(buf, lo, n) /\ n \in 1..Len(buf) /\ n \in 1..Len(rest) /\ n \in Nat
  BY <1>1, <1>4, <1>7 DEF Boundaries
<1>9. EndsAt(buf, 0, n)
  BY <1>8, EndsFrom
<1>10. n \in LongEnough(text, base)
  <2>1. n \in Boundaries(rest, 0)
    BY <1>6, <1>8, <1>9 DEF Boundaries
  <2> QED BY <1>2, <1>7, <2>1 DEF LongEnough
<1>11. ASSUME NEW e \in LongEnough(text, base), e < n PROVE FALSE
  <2>1. e \in 1..Len(rest) /\ EndsAt(rest, 0, e) /\ e >= MinSentenceRunes
    BY <1>2 DEF LongEnough, Boundaries
  <2>2. e \in 1..Len(buf) /\ e < Len(buf) /\ e \in Nat
    BY <1>4, <1>8, <1>11, <2>1
  <2>3. EndsAt(buf, 0, e)
    BY <1>6, <2>1, <2>2
  <2>4. e \in Boundaries(buf, 0)
    BY <2>2, <2>3 DEF Boundaries
  <2>5. ~(e <= lo)
    BY <1>0, <2>1, <2>2, <2>4
  <2>6. e \in (lo + 1)..Len(buf)
    BY <1>1, <2>2, <2>5
  <2>7. e \in Boundaries(buf, lo)
    BY <2>3, <2>6, EndsFrom DEF Boundaries
  <2> QED BY <1>7, <1>8, <1>11, <2>2, <2>7
<1>12. \A e \in LongEnough(text, base) : e \in Nat
  BY <1>2, <1>4 DEF LongEnough, Boundaries
<1>13. \A e \in LongEnough(text, base) : n <= e
  BY <1>8, <1>11, <1>12
<1> QED BY <1>7, <1>10, <1>13 DEF First

\* ... whatever the text goes on with.
LEMMA FirstGrows ==
    ASSUME NEW old \in Seq(Runes), NEW text \in Seq(Runes), Len(old) <= Len(text),
           \A k \in 1..Len(old) : old[k] = text[k], \A k \in 1..Len(old) : old[k] # "cjk",
           NEW sn \in Spans, PartAt(sn.text, old, sn.start), First(old, sn)
    PROVE  First(text, sn)
<1>1. PICK o, n : o = sn.start /\ n = Len(sn.text)
  OBVIOUS
<1>2. o \in Nat /\ n \in Nat /\ o + n <= Len(old) /\ Len(old) \in Nat /\ Len(text) \in Nat
  BY <1>1 DEF Spans, PartAt
<1>3. o \in 0..Len(old) /\ o \in 0..Len(text)
  BY <1>2
<1>4. PICK r, rest : r = SubSeq(old, o + 1, Len(old)) /\ rest = SubSeq(text, o + 1, Len(text))
  OBVIOUS
<1>5. /\ r \in Seq(Runes) /\ Len(r) = Len(old) - o
      /\ \A k \in 1..Len(r) : o + k \in 1..Len(old) /\ r[k] = old[o + k]
  BY <1>3, <1>4, RestOf
<1>6. /\ rest \in Seq(Runes) /\ Len(rest) = Len(text) - o
      /\ \A k \in 1..Len(rest) : o + k \in 1..Len(text) /\ rest[k] = text[o + k]
  BY <1>3, <1>4, RestOf
<1>7. Len(r) <= Len(rest) /\ Len(r) \in Nat /\ Len(rest) \in Nat /\ n <= Len(r) /\ \A k \in 1..Len(r) : k \in 1..Len(rest)
  BY <1>2, <1>5, <1>6
<1>8. \A k \in 1..Len(r) : r[k] = rest[k] /\ r[k] # "cjk"
  BY <1>5, <1>6, <1>7
<1>9. ASSUME NEW j \in 1..Len(r)
      PROVE  /\ EndsAt(r, 0, j) => EndsAt(rest, 0, j)
             /\ j < Len(r) /\ EndsAt(rest, 0, j) => EndsAt(r, 0, j)
  BY <1>5, <1>6, <1>7, <1>8, EndsSame
<1>l. /\ \A e : e \in LongEnough(old, o) <=> e \in 1..Len(r) /\ EndsAt(r, 0, e) /\ e >= MinSentenceRunes
      /\ \A e : e \in LongEnough(text, o) <=> e \in 1..Len(rest) /\ EndsAt(rest, 0, e) /\ e >= MinSentenceRunes
  BY <1>4, LongHas
<1>f. n \in LongEnough(old, o) /\ \A e \in LongEnough(old, o) : n <= e
  BY <1>1 DEF First
<1>10. /\ n \in 1..Len(r) /\ EndsAt(r, 0, n) /\ n >= MinSentenceRunes
       /\ \A e \in LongEnough(old, o) : n <= e
  BY <1>l, <1>f
<1>11. n \in LongEnough(text, o)
  <2>1. n \in 1..Len(rest) /\ EndsAt(rest, 0, n)
    BY <1>7, <1>9, <1>10
  <2> QED BY <1>l, <1>10, <2>1
<1>12. ASSUME NEW e \in LongEnough(text, o), e < n PROVE FALSE
  <2>1. e \in 1..Len(rest) /\ EndsAt(rest, 0, e) /\ e >= MinSentenceRunes
    BY <1>l
  <2>2. e \in 1..Len(r) /\ e < Len(r) /\ e \in Nat
    BY <1>2, <1>7, <1>12, <2>1
  <2>3. e \in LongEnough(old, o)
    BY <1>l, <1>9, <2>1, <2>2
  <2> QED BY <1>2, <1>10, <1>12, <2>2, <2>3
<1>13. \A e \in LongEnough(text, o) : e \in Nat
  BY <1>l, <1>7
<1>14. \A e \in LongEnough(text, o) : n <= e
  BY <1>2, <1>12, <1>13
<1> QED BY <1>1, <1>11, <1>14 DEF First


\* A piece of a text stays one when the text goes on.
LEMMA PartGrows ==
    ASSUME NEW old \in Seq(Runes), NEW text \in Seq(Runes), Len(old) <= Len(text),
           \A k \in 1..Len(old) : old[k] = text[k],
           NEW p \in Seq(Runes), NEW o \in Nat, PartAt(p, old, o)
    PROVE  PartAt(p, text, o)
<1>1. /\ Len(p) \in Nat /\ Len(old) \in Nat /\ Len(text) \in Nat /\ o + Len(p) <= Len(old)
      /\ \A k \in 1..Len(p) : p[k] = old[o + k]
  BY DEF PartAt
<1>2. \A k \in 1..Len(p) : o + k \in 1..Len(old)
  BY <1>1
<1>3. o + Len(p) <= Len(text)
  BY <1>1
<1> QED BY <1>1, <1>2, <1>3 DEF PartAt

\* A piece of a text without CJK terminators has none.
LEMMA PartPlain ==
    ASSUME NEW text \in Seq(Runes), ~Contains(text, "cjk"), NEW st \in Sentencers, PartAt(st.buf, text, st.base)
    PROVE  \A k \in 1..Len(st.buf) : st.buf[k] # "cjk"
<1>1. /\ st.base \in Nat /\ Len(st.buf) \in Nat /\ Len(text) \in Nat /\ st.base + Len(st.buf) <= Len(text)
      /\ \A k \in 1..Len(st.buf) : st.buf[k] = text[st.base + k]
  BY DEF PartAt, Sentencers
<1>2. \A k \in 1..Len(st.buf) : st.base + k \in 1..Len(text)
  BY <1>1
<1> QED BY <1>1, <1>2 DEF Contains

\* No chunk: no text between two offsets that are the same.
LEMMA BetweenNone ==
    ASSUME NEW text, NEW from \in Nat, NEW to
    PROVE  Between(<<>>, text, from, to) <=> from = to
<1> DEFINE q == <<>>
<1>1. Len(q) + 1 = 1 /\ 1..Len(q) = {} /\ 1 \in 1..(Len(q) + 1)
  OBVIOUS
<1> HIDE DEF q
<1>2. Between(q, text, from, to) => from = to
  BY <1>1 DEF Between
<1>3. Between(q, text, from, from)
  <2>1. PICK off : off = [k \in 1..(Len(q) + 1) |-> from]
    OBVIOUS
  <2>2. off \in [1..(Len(q) + 1) -> Nat] /\ off[1] = from /\ off[Len(q) + 1] = from
    BY <1>1, <2>1
  <2> QED BY <1>1, <2>2 DEF Between
<1> QED BY <1>2, <1>3 DEF q

\* The first chunk is taken.
LEMMA BetweenTaken ==
    ASSUME NEW q \in Seq(Seq(Runes)), q # <<>>, NEW text, NEW from \in Nat, NEW to,
           Between(q, text, from, to)
    PROVE  PartAt(Head(q), text, from) /\ Between(Tail(q), text, from + Len(Head(q)), to)
<1>1. PICK r : r = Tail(q)
  OBVIOUS
<1>2. /\ r \in Seq(Seq(Runes)) /\ Len(q) \in Nat /\ Len(q) > 0 /\ Len(r) = Len(q) - 1
      /\ Head(q) = q[1] /\ \A k \in 1..Len(r) : r[k] = q[k + 1]
  BY <1>1, Taken1
<1>3. PICK off \in [1..(Len(q) + 1) -> Nat] :
        /\ off[1] = from /\ off[Len(q) + 1] = to
        /\ \A k \in 1..Len(q) : PartAt(q[k], text, off[k]) /\ off[k + 1] = off[k] + Len(q[k])
  BY DEF Between
<1>4. 1 \in 1..Len(q) /\ Len(r) + 1 = Len(q) /\ Len(r) \in Nat
  BY <1>2
<1>5. PartAt(Head(q), text, from) /\ off[2] = from + Len(Head(q))
  BY <1>2, <1>3, <1>4
<1>6. PICK new : new = [k \in 1..(Len(r) + 1) |-> off[k + 1]]
  OBVIOUS
<1>7. \A k \in 1..(Len(r) + 1) : k + 1 \in 1..(Len(q) + 1)
  BY <1>2
<1>8. new \in [1..(Len(r) + 1) -> Nat] /\ \A k \in 1..(Len(r) + 1) : new[k] = off[k + 1]
  BY <1>3, <1>6, <1>7
<1>9. 1 \in 1..(Len(r) + 1) /\ Len(r) + 1 \in 1..(Len(r) + 1) /\ 1 + 1 = 2
      /\ \A k \in 1..Len(r) : k \in 1..(Len(r) + 1) /\ k + 1 \in 1..(Len(r) + 1) /\ k + 1 \in 1..Len(q)
  BY <1>2
<1>10. new[1] = from + Len(Head(q)) /\ new[Len(r) + 1] = to
  <2>1. new[1] = off[1 + 1] /\ new[Len(r) + 1] = off[(Len(r) + 1) + 1]
    BY <1>8, <1>9
  <2>2. (Len(r) + 1) + 1 = Len(q) + 1
    BY <1>4
  <2> QED BY <1>3, <1>5, <1>9, <2>1, <2>2
<1>11. ASSUME NEW k \in 1..Len(r) PROVE PartAt(r[k], text, new[k]) /\ new[k + 1] = new[k] + Len(r[k])
  <2>1. new[k] = off[k + 1] /\ new[k + 1] = off[(k + 1) + 1] /\ r[k] = q[k + 1]
    BY <1>2, <1>8, <1>9
  <2>2. PartAt(q[k + 1], text, off[k + 1]) /\ off[(k + 1) + 1] = off[k + 1] + Len(q[k + 1])
    BY <1>3, <1>9
  <2> QED BY <2>1, <2>2
<1>12. Between(r, text, from + Len(Head(q)), to)
  BY <1>8, <1>10, <1>11 DEF Between
<1> QED BY <1>1, <1>5, <1>12

\* A chunk is added.
LEMMA BetweenAdded ==
    ASSUME NEW q \in Seq(Seq(Runes)), NEW c \in Seq(Runes), NEW text, NEW from, NEW to \in Nat,
           Between(q, text, from, to), PartAt(c, text, to)
    PROVE  Between(Append(q, c), text, from, to + Len(c))
<1>1. PICK r : r = Append(q, c)
  OBVIOUS
<1>2. /\ r \in Seq(Seq(Runes)) /\ Len(q) \in Nat /\ Len(r) = Len(q) + 1
      /\ r[Len(q) + 1] = c /\ \A k \in 1..Len(q) : r[k] = q[k]
  BY <1>1, Appended
<1>3. PICK off \in [1..(Len(q) + 1) -> Nat] :
        /\ off[1] = from /\ off[Len(q) + 1] = to
        /\ \A k \in 1..Len(q) : PartAt(q[k], text, off[k]) /\ off[k + 1] = off[k] + Len(q[k])
  BY DEF Between
<1>4. PICK end : end = to + Len(c)
  OBVIOUS
<1>5. end \in Nat
  BY <1>4
<1>6. PICK new : new = [k \in 1..(Len(r) + 1) |-> IF k = Len(r) + 1 THEN end ELSE off[k]]
  OBVIOUS
<1>7. \A k \in 1..(Len(r) + 1) : k = Len(r) + 1 \/ k \in 1..(Len(q) + 1)
  BY <1>2
<1>8. new \in [1..(Len(r) + 1) -> Nat]
  BY <1>3, <1>5, <1>6, <1>7
<1>9. Len(r) + 1 \in 1..(Len(r) + 1) /\ \A k \in 1..Len(r) : k \in 1..(Len(r) + 1) /\ k # Len(r) + 1
  BY <1>2
<1>10. new[Len(r) + 1] = end /\ \A k \in 1..Len(r) : new[k] = off[k]
  BY <1>6, <1>9
<1>11. 1 \in 1..Len(r) /\ Len(q) + 1 \in 1..Len(r)
  BY <1>2
<1>12. ASSUME NEW k \in 1..Len(r) PROVE PartAt(r[k], text, new[k]) /\ new[k + 1] = new[k] + Len(r[k])
  <2>1. CASE k \in 1..Len(q)
    <3>1. k + 1 \in 1..Len(r) /\ r[k] = q[k]
      BY <1>2, <2>1
    <3> QED BY <1>3, <1>10, <2>1, <3>1
  <2>2. CASE k = Len(q) + 1
    <3>1. new[k] = to /\ new[k + 1] = end /\ r[k] = c
      BY <1>2, <1>3, <1>10, <1>11, <2>2
    <3> QED BY <1>4, <3>1
  <2> QED BY <1>2, <2>1, <2>2
<1>13. new[1] = from
  BY <1>3, <1>10, <1>11
<1>14. Between(r, text, from, end)
  BY <1>8, <1>10, <1>12, <1>13 DEF Between
<1> QED BY <1>1, <1>4, <1>14

\* The text goes on.
LEMMA BetweenGrows ==
    ASSUME NEW old \in Seq(Runes), NEW text \in Seq(Runes), Len(old) <= Len(text),
           \A k \in 1..Len(old) : old[k] = text[k],
           NEW q \in Seq(Seq(Runes)), NEW from, NEW to, Between(q, old, from, to)
    PROVE  Between(q, text, from, to)
<1>1. PICK off \in [1..(Len(q) + 1) -> Nat] :
        /\ off[1] = from /\ off[Len(q) + 1] = to
        /\ \A k \in 1..Len(q) : PartAt(q[k], old, off[k]) /\ off[k + 1] = off[k] + Len(q[k])
  BY DEF Between
<1>2. ASSUME NEW k \in 1..Len(q) PROVE PartAt(q[k], text, off[k])
  <2>1. q[k] \in Seq(Runes) /\ off[k] \in Nat /\ PartAt(q[k], old, off[k])
    BY <1>1
  <2> QED BY <2>1, PartGrows
<1> QED BY <1>1, <1>2 DEF Between

\* A sentence that is passed on stays where it was cut.
LEMMA CutPassed ==
    ASSUME NEW S, NEW e \in Seq(S), NEW p \in Seq(S), p # <<>>
    PROVE  Append(e, Head(p)) \o Tail(p) = e \o p
OBVIOUS

\* A sentence that is cut comes last.
LEMMA CutAdded ==
    ASSUME NEW S, NEW e \in Seq(S), NEW p \in Seq(S), NEW x \in S
    PROVE  e \o Append(p, x) = Append(e \o p, x)
OBVIOUS

\* Nothing is left to pass on.
LEMMA CutAll == ASSUME NEW S, NEW e \in Seq(S) PROVE e \o <<>> = e
OBVIOUS


\* The last sentence is where the sentences end.
LEMMA EndAdded ==
    ASSUME NEW cut \in Seq(Spans), NEW sn \in Spans
    PROVE  EndOf(Append(cut, sn)) = sn.end /\ PrevEnd(Append(cut, sn), Len(cut) + 1) = EndOf(cut)
<1>0. PICK new : new = Append(cut, sn)
  OBVIOUS
<1>1. /\ new \in Seq(Spans) /\ Len(cut) \in Nat /\ Len(new) = Len(cut) + 1
      /\ new[Len(new)] = sn /\ \A k \in 1..Len(cut) : new[k] = cut[k]
  BY <1>0, Appended
<1>2. EndOf(new) = sn.end
  BY <1>1 DEF EndOf
<1>3. PrevEnd(new, Len(cut) + 1) = EndOf(cut)
  <2>1. CASE cut = <<>>
    BY <1>1, <2>1 DEF EndOf, PrevEnd
  <2>2. CASE cut # <<>>
    <3>1. Len(cut) \in 1..Len(cut) /\ Len(cut) + 1 # 1 /\ (Len(cut) + 1) - 1 = Len(cut)
      BY <1>1, <2>2
    <3>2. EndOf(cut) = cut[Len(cut)].end
      BY <2>2 DEF EndOf
    <3> QED BY <1>1, <3>1, <3>2 DEF PrevEnd
  <2> QED BY <2>1, <2>2
<1> QED BY <1>0, <1>2, <1>3

\* A sentence is cut: the buffer goes on behind it.
LEMMA Takes ==
    ASSUME NEW st \in Sentencers, NEW n \in 1..Len(st.buf), NEW t, t = Take(st, n)
    PROVE  /\ t.sentence \in Spans /\ t.sentence.start = st.base /\ t.sentence.end = st.base + n
           /\ Len(t.sentence.text) = n /\ \A k \in 1..n : t.sentence.text[k] = st.buf[k]
           /\ t.rest \in Sentencers /\ t.rest.base = st.base + n /\ t.rest.scan = 0
           /\ Len(t.rest.buf) = Len(st.buf) - n /\ \A k \in 1..Len(t.rest.buf) : t.rest.buf[k] = st.buf[n + k]
<1>1. st.buf \in Seq(Runes) /\ st.base \in Nat /\ Len(st.buf) \in Nat /\ n \in Nat /\ n <= Len(st.buf)
  BY DEF Sentencers
<1>2. PICK buf : buf = st.buf
  OBVIOUS
<1>3. PICK p, r : p = SubSeq(buf, 1, n) /\ r = SubSeq(buf, n + 1, Len(buf))
  OBVIOUS
<1>4. p \in Seq(Runes) /\ Len(p) = n /\ \A k \in 1..n : p[k] = buf[k]
  BY <1>1, <1>2, <1>3
<1>5. r \in Seq(Runes) /\ Len(r) = Len(buf) - n /\ \A k \in 1..Len(r) : r[k] = buf[n + k]
  BY <1>1, <1>2, <1>3
<1>6. /\ t.sentence = [text |-> p, start |-> st.base, end |-> st.base + n]
      /\ t.rest = [buf |-> r, base |-> st.base + n, scan |-> 0]
  BY <1>2, <1>3 DEF Take
<1>7. st.base + n \in Nat /\ 0 \in Nat
  BY <1>1
<1>8. t.sentence \in Spans /\ t.rest \in Sentencers
  BY <1>1, <1>4, <1>5, <1>6, <1>7 DEF Spans, Sentencers
<1>9. /\ t.sentence.text = p /\ t.sentence.start = st.base /\ t.sentence.end = st.base + n
      /\ t.rest.buf = r /\ t.rest.base = st.base + n /\ t.rest.scan = 0
  BY <1>6
<1> QED BY <1>2, <1>4, <1>5, <1>8, <1>9

\* The tiles stay in place when another is added.
LEMMA TileAdded ==
    ASSUME NEW cut \in Seq(Spans), NEW sn \in Spans, NEW new, new = Append(cut, sn), NEW text,
           NEW k \in 1..Len(cut), Tile(cut, text, k)
    PROVE  Tile(new, text, k)
<1>1. Len(cut) \in Nat /\ \A i \in 1..Len(cut) : new[i] = cut[i]
  BY Appended
<1>2. new[k] = cut[k] /\ (k # 1 => new[k - 1] = cut[k - 1])
  BY <1>1
<1> QED BY <1>2 DEF Tile, PrevEnd

\* A sentence that is cut from the buffer is the next tile.
LEMMA TilesCut ==
    ASSUME NEW text \in Seq(Runes), NEW cut \in Seq(Spans), NEW st \in Sentencers,
           Tiles(cut, st, FALSE, text), NEW n \in 1..Len(st.buf), n >= MinSentenceRunes,
           NEW sn, NEW r, sn = Take(st, n).sentence, r = Take(st, n).rest, NEW new, new = Append(cut, sn)
    PROVE  Tiles(new, r, FALSE, text)
<1>2. /\ sn \in Spans /\ sn.start = st.base /\ sn.end = st.base + n
      /\ Len(sn.text) = n /\ \A k \in 1..n : sn.text[k] = st.buf[k]
      /\ r \in Sentencers /\ r.base = st.base + n
      /\ Len(r.buf) = Len(st.buf) - n /\ \A k \in 1..Len(r.buf) : r.buf[k] = st.buf[n + k]
  BY Takes
<1>3. /\ PartAt(st.buf, text, st.base) /\ EndOf(cut) = st.base
      /\ \A k \in 1..Len(cut) : Tile(cut, text, k) /\ Len(cut[k].text) >= MinSentenceRunes
  BY DEF Tiles, AtBoundary
<1>4. /\ st.base \in Nat /\ Len(st.buf) \in Nat /\ Len(text) \in Nat /\ n \in Nat /\ n <= Len(st.buf)
      /\ st.base + Len(st.buf) <= Len(text) /\ \A k \in 1..Len(st.buf) : st.buf[k] = text[st.base + k]
  BY <1>3 DEF PartAt, Sentencers
<1>5. /\ Len(new) = Len(cut) + 1 /\ Len(cut) \in Nat /\ new[Len(new)] = sn /\ EndOf(new) = sn.end
      /\ \A k \in 1..Len(cut) : new[k] = cut[k]
      /\ PrevEnd(new, Len(new)) = EndOf(cut)
  <2>2. sn \in Spans
    BY <1>2
  <2>3. /\ Len(new) = Len(cut) + 1 /\ Len(cut) \in Nat /\ new[Len(new)] = sn
        /\ \A k \in 1..Len(cut) : new[k] = cut[k]
    BY <2>2, Appended
  <2>4. EndOf(new) = sn.end /\ PrevEnd(new, Len(cut) + 1) = EndOf(cut)
    BY <2>2, EndAdded
  <2> QED BY <2>3, <2>4
<1>6. PartAt(sn.text, text, sn.start)
  <2>1. \A k \in 1..n : k \in 1..Len(st.buf)
    BY <1>4
  <2>2. st.base + n <= Len(text)
    BY <1>4
  <2> QED BY <1>2, <1>4, <2>1, <2>2 DEF PartAt
<1>7. PartAt(r.buf, text, r.base)
  <2>1. \A k \in 1..Len(r.buf) : n + k \in 1..Len(st.buf) /\ st.base + (n + k) = (st.base + n) + k
    BY <1>2, <1>4
  <2>2. (st.base + n) + Len(r.buf) <= Len(text)
    BY <1>2, <1>4
  <2> QED BY <1>2, <1>4, <2>1, <2>2 DEF PartAt
<1>8. Tile(new, text, Len(new))
  BY <1>2, <1>3, <1>5, <1>6 DEF Tile
<1>9. ASSUME NEW k \in 1..Len(new) PROVE Tile(new, text, k) /\ Len(new[k].text) >= MinSentenceRunes
  <2>1. CASE k \in 1..Len(cut)
    <3>1. sn \in Spans
      BY <1>2
    <3>2. Tile(cut, text, k) /\ Len(cut[k].text) >= MinSentenceRunes /\ new[k] = cut[k]
      BY <1>3, <1>5, <2>1
    <3>3. Tile(new, text, k)
      BY <2>1, <3>1, <3>2, TileAdded, Zenon
    <3> QED BY <3>2, <3>3
  <2>2. CASE k = Len(new)
    BY <1>2, <1>5, <1>8, <2>2
  <2> QED BY <1>5, <2>1, <2>2
<1>10. EndOf(new) = r.base
  BY <1>2, <1>5
<1> QED BY <1>7, <1>9, <1>10 DEF Tiles

\* What remains is the last tile.
LEMMA TilesFlushed ==
    ASSUME NEW text \in Seq(Runes), NEW cut \in Seq(Spans), NEW st \in Sentencers,
           Tiles(cut, st, FALSE, text), NEW new, new = cut \o Flush(st)
    PROVE  Flush(st) \in Seq(Spans) /\ Tiles(new, st, TRUE, text)
<1>1. /\ PartAt(st.buf, text, st.base) /\ EndOf(cut) = st.base
      /\ \A k \in 1..Len(cut) : Tile(cut, text, k) /\ Len(cut[k].text) >= MinSentenceRunes
  BY DEF Tiles, AtBoundary
<1>2. st.base \in Nat /\ st.buf \in Seq(Runes) /\ Len(st.buf) \in Nat
  BY DEF Sentencers
<1>3. CASE st.buf = <<>>
  <2>1. Flush(st) = <<>> /\ Len(st.buf) = 0
    BY <1>3 DEF Flush
  <2>2. new = cut /\ Flush(st) \in Seq(Spans)
    BY <2>1, CutAll
  <2>3. EndOf(cut) = st.base + Len(st.buf)
    BY <1>1, <1>2, <2>1
  <2>4. Tiles(cut, st, TRUE, text)
    BY <1>1, <1>3, <2>3 DEF Tiles
  <2> QED BY <2>2, <2>4
<1>4. CASE st.buf # <<>>
  <2>0. Len(st.buf) \in 1..Len(st.buf)
    BY <1>2, <1>4
  <2>1. PICK n : n = Len(st.buf)
    OBVIOUS
  <2>2. PICK sn : sn = Take(st, n).sentence
    OBVIOUS
  <2>3. /\ sn \in Spans /\ sn.start = st.base /\ sn.end = st.base + n
        /\ Len(sn.text) = n /\ \A k \in 1..n : sn.text[k] = st.buf[k]
    BY <2>0, <2>1, <2>2, Takes
  <2>4. Flush(st) = <<sn>>
    BY <1>4, <2>1, <2>2 DEF Flush
  <2>5. <<sn>> \in Seq(Spans) /\ cut \o <<sn>> = Append(cut, sn)
    BY <2>3
  <2>6. new = Append(cut, sn)
    BY <2>4, <2>5
  <2>7. /\ Len(new) = Len(cut) + 1 /\ Len(cut) \in Nat /\ new[Len(new)] = sn /\ EndOf(new) = sn.end
        /\ \A k \in 1..Len(cut) : new[k] = cut[k]
        /\ PrevEnd(new, Len(new)) = EndOf(cut) /\ new # <<>>
    <3>1. sn \in Spans
      BY <2>3
    <3>2. /\ Len(new) = Len(cut) + 1 /\ Len(cut) \in Nat /\ new[Len(new)] = sn
          /\ \A k \in 1..Len(cut) : new[k] = cut[k]
      BY <2>6, <3>1, Appended
    <3>3. EndOf(new) = sn.end /\ PrevEnd(new, Len(cut) + 1) = EndOf(cut)
      BY <2>6, <3>1, EndAdded
    <3>4. new # <<>>
      BY <2>6
    <3> QED BY <3>2, <3>3, <3>4
  <2>8. PartAt(sn.text, text, sn.start)
    BY <1>1, <2>1, <2>3 DEF PartAt
  <2>9. Tile(new, text, Len(new))
    BY <1>1, <2>3, <2>7, <2>8 DEF Tile
  <2>10. ASSUME NEW k \in 1..Len(new)
         PROVE  Tile(new, text, k) /\ (AtBoundary(new, st, TRUE, k) => Len(new[k].text) >= MinSentenceRunes)
    <3>1. CASE k \in 1..Len(cut)
      BY <1>1, <2>3, <2>6, <2>7, <3>1, TileAdded
    <3>2. CASE k = Len(new)
      <4>1. ~(k < Len(new))
        BY <2>7, <3>2
      <4> QED BY <1>4, <2>9, <3>2, <4>1 DEF AtBoundary
    <3>3. k \in 1..Len(cut) \/ k = Len(new)
      BY <2>7
    <3> QED BY <3>1, <3>2, <3>3
  <2>11. EndOf(new) = st.base + Len(st.buf) /\ new[Len(new)].start = st.base
    BY <2>1, <2>3, <2>7
  <2>12. Tiles(new, st, TRUE, text)
    BY <1>1, <2>7, <2>10, <2>11 DEF Tiles
  <2> QED BY <2>4, <2>5, <2>12
<1> QED BY <1>3, <1>4


\* A chunk is added to the buffer.
LEMMA Pushes ==
    ASSUME NEW text \in Seq(Runes), NEW st \in Sentencers, NEW c \in Seq(Runes),
           PartAt(st.buf, text, st.base), NEW o, o = st.base + Len(st.buf), PartAt(c, text, o),
           NEW new, new = Push(st, c)
    PROVE  /\ new \in Sentencers /\ new.base = st.base /\ new.scan = st.scan
           /\ Len(st.buf) <= Len(new.buf) /\ \A k \in 1..Len(st.buf) : st.buf[k] = new.buf[k]
           /\ PartAt(new.buf, text, st.base) /\ Len(new.buf) = Len(st.buf) + Len(c)
<1>1. PICK buf, base : buf = st.buf /\ base = st.base
  OBVIOUS
<1>2. buf \in Seq(Runes) /\ base \in Nat /\ Len(buf) \in Nat /\ Len(c) \in Nat /\ st.scan \in Nat
  BY <1>1 DEF Sentencers
<1>3. PICK b : b = buf \o c
  OBVIOUS
<1>4. /\ b \in Seq(Runes) /\ Len(b) = Len(buf) + Len(c)
      /\ \A k \in 1..Len(buf) : b[k] = buf[k]
      /\ \A k \in 1..Len(c) : b[Len(buf) + k] = c[k]
  BY <1>2, <1>3
<1>5. /\ base + Len(buf) <= Len(text) /\ \A k \in 1..Len(buf) : buf[k] = text[base + k]
      /\ (base + Len(buf)) + Len(c) <= Len(text) /\ \A k \in 1..Len(c) : c[k] = text[(base + Len(buf)) + k]
  BY <1>1 DEF PartAt
<1>6. ASSUME NEW k \in 1..Len(b) PROVE b[k] = text[base + k]
  <2>1. CASE k \in 1..Len(buf)
    BY <1>4, <1>5, <2>1
  <2>2. CASE k \notin 1..Len(buf)
    <3>1. k - Len(buf) \in 1..Len(c) /\ Len(buf) + (k - Len(buf)) = k /\ (base + Len(buf)) + (k - Len(buf)) = base + k
      BY <1>2, <1>4, <2>2
    <3> QED BY <1>4, <1>5, <3>1
  <2> QED BY <2>1, <2>2
<1>7. base + Len(b) <= Len(text)
  BY <1>2, <1>4, <1>5
<1>8. PartAt(b, text, base)
  BY <1>6, <1>7 DEF PartAt
<1>9. new = [st EXCEPT !.buf = b]
  BY <1>1, <1>3 DEF Push
<1>10. new \in Sentencers /\ new.buf = b /\ new.base = st.base /\ new.scan = st.scan
  BY <1>4, <1>9 DEF Sentencers
<1>11. Len(buf) <= Len(b)
  BY <1>2, <1>4
<1> QED BY <1>1, <1>4, <1>8, <1>10, <1>11

\* The tiles are the same whatever is done to the buffer behind them.
LEMMA TilesBuffer ==
    ASSUME NEW text, NEW cut, NEW st, NEW new, Tiles(cut, st, FALSE, text),
           new.base = st.base, PartAt(new.buf, text, new.base)
    PROVE  Tiles(cut, new, FALSE, text)
BY DEF Tiles, AtBoundary

\* ... and when the text goes on.
LEMMA TilesGrow ==
    ASSUME NEW old \in Seq(Runes), NEW text \in Seq(Runes), Len(old) <= Len(text),
           \A k \in 1..Len(old) : old[k] = text[k],
           NEW cut \in Seq(Spans), NEW st \in Sentencers, NEW flushed, Tiles(cut, st, flushed, old)
    PROVE  Tiles(cut, st, flushed, text)
<1>1. PartAt(st.buf, text, st.base)
  <2>1. st.buf \in Seq(Runes) /\ st.base \in Nat /\ PartAt(st.buf, old, st.base)
    BY DEF Tiles, Sentencers
  <2> QED BY <2>1, PartGrows
<1>2. ASSUME NEW k \in 1..Len(cut) PROVE Tile(cut, text, k)
  <2>1. Tile(cut, old, k)
    BY DEF Tiles
  <2>0. cut[k] \in Spans
    OBVIOUS
  <2>2. cut[k].text \in Seq(Runes) /\ cut[k].start \in Nat /\ PartAt(cut[k].text, old, cut[k].start)
    BY <2>0, <2>1 DEF Tile, Spans
  <2>3. PartAt(cut[k].text, text, cut[k].start)
    BY <2>2, PartGrows
  <2> QED BY <2>1, <2>3 DEF Tile
<1> QED BY <1>1, <1>2 DEF Tiles

\* A chunk leaves what was scanned scanned.
LEMMA FirmPushed ==
    ASSUME NEW text, NEW cut, NEW st \in Sentencers, NEW new \in Sentencers,
           st.scan <= Len(st.buf), new.scan = st.scan, Len(st.buf) <= Len(new.buf),
           \A k \in 1..Len(st.buf) : st.buf[k] = new.buf[k], \A k \in 1..Len(st.buf) : st.buf[k] # "cjk",
           Firm(cut, st, FALSE, FALSE, text)
    PROVE  Firm(cut, new, FALSE, TRUE, text)
<1>1. PICK buf, b, lo : buf = st.buf /\ b = new.buf /\ lo = st.scan
  OBVIOUS
<1>2. /\ buf \in Seq(Runes) /\ b \in Seq(Runes) /\ lo \in Nat /\ Len(buf) \in Nat /\ Len(b) \in Nat
      /\ lo <= Len(buf) /\ Len(buf) <= Len(b) /\ lo \in 0..Len(buf)
      /\ \A k \in 1..Len(buf) : buf[k] = b[k] /\ buf[k] # "cjk"
  BY <1>1 DEF Sentencers
<1>3. /\ Clear(buf, lo) /\ \A e \in Boundaries(buf, 0) : e < MinSentenceRunes
      /\ \A k \in 1..Len(cut) : First(text, cut[k])
  BY <1>1 DEF Firm, AtBoundary
<1>4. Clear(b, lo)
  BY <1>2, <1>3, ClearGrows
<1>5. ASSUME NEW e \in Boundaries(b, 0), e <= lo PROVE e < MinSentenceRunes
  <2>1. e \in 1..Len(b) /\ e \in Nat /\ EndsAt(b, 0, e)
    BY <1>2 DEF Boundaries
  <2>2. e \in 1..Len(buf)
    BY <1>2, <1>5, <2>1
  <2>3. CASE e < Len(buf)
    <3>1. EndsAt(buf, 0, e)
      BY <1>2, <2>1, <2>2, <2>3, EndsSame
    <3>2. e \in Boundaries(buf, 0)
      BY <2>2, <3>1 DEF Boundaries
    <3> QED BY <1>3, <3>2
  <2>4. CASE e = Len(buf)
    <3>1. lo = e
      BY <1>2, <1>5, <2>1, <2>4
    <3>2. CASE b[e] = "nl"
      <4>1. EndsAt(buf, 0, e)
        BY <1>2, <2>2, <3>2 DEF EndsAt
      <4>2. e \in Boundaries(buf, 0)
        BY <2>2, <4>1 DEF Boundaries
      <4> QED BY <1>3, <4>2
    <3>3. CASE b[e] # "nl"
      <4>1. PICK i \in 0..(e - 1) : Run(b, 0, i, e)
        BY <2>1, <3>3 DEF EndsAt
      <4>2. b[i + 1] \in Terminators /\ \A k \in i..(e - 1) : b[k + 1] \in InRun
        BY <4>1 DEF Run
      <4>3. i \in i..(e - 1) /\ \A k \in i..(e - 1) : k + 1 \in 1..Len(buf)
        BY <2>1, <2>4
      <4>4. buf[i + 1] \in Terminators /\ \A k \in i..(e - 1) : buf[k + 1] \in InRun
        BY <1>2, <4>2, <4>3
      <4>5. lo < Len(buf)
        BY <1>3, <3>1, <4>4 DEF Clear
      <4> QED BY <1>2, <2>4, <3>1, <4>5
    <3> QED BY <3>2, <3>3
  <2> QED BY <1>2, <2>2, <2>3, <2>4
<1> QED BY <1>1, <1>3, <1>4, <1>5 DEF Firm


\* Nothing is found: all of the boundaries are too near, and where the scan stopped
\* is a clear place to go on from.
LEMMA FirmScanned ==
    ASSUME NEW text, NEW cut, NEW st \in Sentencers, st.scan <= Len(st.buf), NEW b, b = FindBoundary(st),
           ~b.found, NEW new, new.buf = st.buf, new.scan = b.scan, Firm(cut, st, FALSE, TRUE, text)
    PROVE  Firm(cut, new, FALSE, FALSE, text)
<1>1. PICK buf, lo : buf = st.buf /\ lo = st.scan
  OBVIOUS
<1>2. buf \in Seq(Runes) /\ lo \in Nat /\ Len(buf) \in Nat /\ lo <= Len(buf) /\ lo \in 0..Len(buf)
  BY <1>1 DEF Sentencers
<1>3. /\ Clear(buf, lo) /\ \A e \in Boundaries(buf, 0) : e <= lo => e < MinSentenceRunes
      /\ \A k \in 1..Len(cut) : First(text, cut[k])
  BY <1>1 DEF Firm, AtBoundary
<1>4. Boundaries(buf, lo) = {} /\ (b.scan = lo \/ (b.scan = Len(buf) /\ ~OpenRun(buf, lo)))
  BY <1>1, FindsFirst
<1>5. Clear(buf, b.scan)
  BY <1>2, <1>3, <1>4, ClearEnd
<1>6. ASSUME NEW e \in Boundaries(buf, 0) PROVE e < MinSentenceRunes
  <2>1. e \in 1..Len(buf) /\ e \in Nat /\ EndsAt(buf, 0, e)
    BY <1>2 DEF Boundaries
  <2>2. CASE e <= lo
    BY <1>3, <2>2
  <2>3. CASE ~(e <= lo)
    <3>1. e \in (lo + 1)..Len(buf)
      BY <1>2, <2>1, <2>3
    <3>2. EndsAt(buf, lo, e)
      BY <1>2, <1>3, <2>1, <3>1, EndsFrom
    <3>3. e \in Boundaries(buf, lo)
      BY <3>1, <3>2 DEF Boundaries
    <3> QED BY <1>4, <3>3
  <2> QED BY <2>2, <2>3
<1> QED BY <1>1, <1>3, <1>5, <1>6 DEF Firm

\* A boundary that is too near is passed.
LEMMA FirmPassed ==
    ASSUME NEW text, NEW cut, NEW st \in Sentencers, st.scan <= Len(st.buf), NEW b, b = FindBoundary(st),
           \A k \in 1..Len(st.buf) : st.buf[k] # "cjk", b.found, b.scan < MinSentenceRunes,
           NEW new, new.buf = st.buf, new.scan = b.scan, Firm(cut, st, FALSE, TRUE, text)
    PROVE  Firm(cut, new, FALSE, TRUE, text)
<1>1. PICK buf, lo, n : buf = st.buf /\ lo = st.scan /\ n = b.scan
  OBVIOUS
<1>2. buf \in Seq(Runes) /\ lo \in Nat /\ Len(buf) \in Nat /\ lo <= Len(buf) /\ lo \in 0..Len(buf)
  BY <1>1 DEF Sentencers
<1>3. \A k \in 1..Len(cut) : First(text, cut[k])
  BY <1>1 DEF Firm, AtBoundary
<1>4. n \in Boundaries(buf, lo) /\ n \in Nat
  BY <1>1, FindsFirst
<1>5. Clear(buf, n)
  BY <1>1, <1>2, <1>4, ClearBoundary
<1>6. ASSUME NEW e \in Boundaries(buf, 0), e <= n PROVE e < MinSentenceRunes
  <2>1. e \in Nat
    BY <1>2 DEF Boundaries
  <2> QED BY <1>1, <1>4, <1>6, <2>1, SentencerAssumption
<1> QED BY <1>1, <1>3, <1>5, <1>6 DEF Firm

\* A sentence is cut where the whole text would be.
LEMMA FirmCut ==
    ASSUME NEW text \in Seq(Runes), \A k \in 1..Len(text) : text[k] # "cjk",
           NEW cut \in Seq(Spans), NEW st \in Sentencers, st.scan <= Len(st.buf), PartAt(st.buf, text, st.base),
           NEW b, b = FindBoundary(st), b.found, b.scan >= MinSentenceRunes,
           NEW sn, NEW r, sn = Take(st, b.scan).sentence, r = Take(st, b.scan).rest,
           NEW new, new = Append(cut, sn), Firm(cut, st, FALSE, TRUE, text)
    PROVE  Firm(new, r, FALSE, TRUE, text)
<1>1. PICK buf, lo, n, base : buf = st.buf /\ lo = st.scan /\ n = b.scan /\ base = st.base
  OBVIOUS
<1>2. buf \in Seq(Runes) /\ lo \in Nat /\ base \in Nat /\ Len(buf) \in Nat /\ lo <= Len(buf) /\ lo \in 0..Len(buf)
  BY <1>1 DEF Sentencers
<1>3. /\ Clear(buf, lo) /\ \A e \in Boundaries(buf, 0) : e <= lo => e < MinSentenceRunes
      /\ \A k \in 1..Len(cut) : First(text, cut[k])
  BY <1>1 DEF Firm, AtBoundary
<1>4. n \in Boundaries(buf, lo) /\ n \in Nat /\ \A e \in Boundaries(buf, lo) : n <= e
  BY <1>1, FindsFirst
<1>5. n \in 1..Len(buf)
  BY <1>2, <1>4 DEF Boundaries
<1>6. /\ sn \in Spans /\ sn.start = base /\ Len(sn.text) = n
      /\ r \in Sentencers /\ r.scan = 0 /\ Len(r.buf) \in Nat
  <2>1. /\ sn \in Spans /\ sn.start = base /\ Len(sn.text) = n /\ r \in Sentencers /\ r.scan = 0
    BY <1>1, <1>5, Takes
  <2> QED BY <2>1 DEF Sentencers
<1>7. First(text, sn)
  <2>1. PartAt(buf, text, base) /\ n >= MinSentenceRunes
    BY <1>1
  <2> QED BY <1>2, <1>3, <1>4, <1>6, <2>1, FirstCut
<1>8. /\ Len(cut) \in Nat /\ Len(new) = Len(cut) + 1 /\ new[Len(new)] = sn
      /\ \A k \in 1..Len(cut) : new[k] = cut[k]
  BY <1>6, Appended
<1>9. \A k \in 1..Len(new) : First(text, new[k])
  <2>1. \A k \in 1..Len(new) : k = Len(new) \/ k \in 1..Len(cut)
    BY <1>8
  <2> QED BY <1>3, <1>7, <1>8, <2>1
<1>10. Clear(r.buf, r.scan)
  BY <1>6 DEF Clear
<1>11. ASSUME NEW e \in Boundaries(r.buf, 0) PROVE ~(e <= r.scan)
  BY <1>6 DEF Boundaries
<1> QED BY <1>9, <1>10, <1>11 DEF Firm

\* The last sentence leaves what was cut as it was.
LEMMA FirmFlushed ==
    ASSUME NEW text, NEW cut \in Seq(Spans), NEW st \in Sentencers, NEW new, new = cut \o Flush(st),
           Flush(st) \in Seq(Spans), Firm(cut, st, FALSE, FALSE, text)
    PROVE  Firm(new, st, TRUE, FALSE, text)
<1>1. /\ Clear(st.buf, st.scan) /\ \A e \in Boundaries(st.buf, 0) : e < MinSentenceRunes
      /\ \A k \in 1..Len(cut) : First(text, cut[k])
  BY DEF Firm, AtBoundary
<1>2. ASSUME NEW k \in 1..Len(new), AtBoundary(new, st, TRUE, k) PROVE k \in 1..Len(cut) /\ new[k] = cut[k]
  <2>1. CASE st.buf = <<>>
    <3>1. Flush(st) = <<>>
      BY <2>1 DEF Flush
    <3>2. new = cut
      BY <3>1, CutAll
    <3> QED BY <3>2
  <2>2. CASE st.buf # <<>>
    <3>1. PICK sn : sn = Take(st, Len(st.buf)).sentence
      OBVIOUS
    <3>2. Flush(st) = <<sn>>
      BY <2>2, <3>1 DEF Flush
    <3>3. <<sn>> \in Seq(Spans) /\ new = cut \o <<sn>>
      BY <3>2
    <3>4. Len(cut) \in Nat /\ Len(new) = Len(cut) + 1 /\ \A i \in 1..Len(cut) : new[i] = cut[i]
      BY <3>3
    <3>5. k < Len(new)
      BY <1>2, <2>2 DEF AtBoundary
    <3> QED BY <3>4, <3>5
  <2> QED BY <2>1, <2>2
<1> QED BY <1>1, <1>2 DEF Firm

\* The text goes on.
LEMMA FirmGrows ==
    ASSUME NEW old \in Seq(Runes), NEW text \in Seq(Runes), Len(old) <= Len(text),
           \A k \in 1..Len(old) : old[k] = text[k], \A k \in 1..Len(old) : old[k] # "cjk",
           NEW cut \in Seq(Spans), NEW st, NEW flushed, NEW scanning,
           Tiles(cut, st, flushed, old), Firm(cut, st, flushed, scanning, old)
    PROVE  Firm(cut, st, flushed, scanning, text)
<1>1. ASSUME NEW k \in 1..Len(cut), AtBoundary(cut, st, flushed, k) PROVE First(text, cut[k])
  <2>1. cut[k] \in Spans
    OBVIOUS
  <2>2. First(old, cut[k]) /\ PartAt(cut[k].text, old, cut[k].start)
    BY <1>1 DEF Firm, Tiles, Tile
  <2> QED BY <2>1, <2>2, FirstGrows
<1> QED BY <1>1 DEF Firm

(* ---- tool calls -------------------------------------------------------------- *)

\* The end of a stream: what is sent, and that a call is sent only if it is whole.
LEMMA OutcomeSends ==
    ASSUME NEW calls \in Seq(ToolCalls), NEW finish \in FinishReasons \cup {NoFinish},
           NEW out, out = Outcome(calls, finish)
    PROVE  /\ out \in Seq(LlmChunks)
           /\ \/ Len(out) = 1 /\ out[1].kind \in {"done", "error"}
              \/ /\ Len(out) = 2 /\ out[1].kind = "call" /\ out[2].kind \in {"done", "error"}
                 /\ Len(calls) > 0 /\ out[1].call = calls[1] /\ finish \in {"stop", NoFinish}
<1>1. FinishOr(finish) \in FinishReasons /\ (FinishOr(finish) = "stop" => finish \in {"stop", NoFinish})
  BY PipelineAssumption DEF FinishOr, FinishReasons
<1> DEFINE f == FinishOr(finish)
<1> HIDE DEF f
<1>2. LlmDone(f) \in LlmChunks /\ LlmDone(f).kind = "done"
  BY <1>1 DEF f, LlmDone, LlmChunks
<1>3. LlmError("calls") \in LlmChunks /\ LlmError("calls").kind = "error"
  BY DEF LlmError, LlmChunks
<1>4. Len(calls) \in Nat
  OBVIOUS
<1>5. CASE Len(calls) = 0 \/ f # "stop"
  <2>1. out = <<LlmDone(f)>>
    BY <1>5 DEF Outcome, f
  <2> QED BY <1>2, <2>1
<1>6. CASE ~(Len(calls) = 0 \/ f # "stop")
  <2>0. calls[1] \in ToolCalls /\ LlmDone("stop") = LlmDone(f) /\ Len(calls) > 0
    BY <1>4, <1>6
  <2>1. Call(calls[1]) \in LlmChunks /\ Call(calls[1]).kind = "call" /\ Call(calls[1]).call = calls[1]
    BY <2>0 DEF Call, LlmChunks
  <2>2. out = <<Call(calls[1]), LlmDone("stop")>> \/ out = <<Call(calls[1]), LlmError("calls")>>
    BY <1>6 DEF Outcome, f
  <2>3. finish \in {"stop", NoFinish}
    BY <1>1, <1>6 DEF f
  <2>4. PICK y \in LlmChunks : y.kind \in {"done", "error"} /\ out = <<Call(calls[1]), y>>
    BY <1>2, <1>3, <2>0, <2>2
  <2> DEFINE x == Call(calls[1])
  <2> HIDE DEF x
  <2>5. out = <<x, y>> /\ x \in LlmChunks /\ x.kind = "call" /\ x.call = calls[1]
    BY <2>1, <2>4 DEF x
  <2>6. Len(out) = 2 /\ out[1] = x /\ out[2] = y /\ out \in Seq(LlmChunks)
    BY <2>5
  <2> QED BY <2>0, <2>3, <2>4, <2>5, <2>6
<1> QED BY <1>5, <1>6

\* A fragment more.
LEMMA PushCallKeeps ==
    ASSUME NEW calls \in Seq(ToolCalls), NEW f \in [k : {"call"}, index : Nat, last : BOOLEAN],
           NEW new, new = PushCall(calls, f)
    PROVE  /\ new \in Seq(ToolCalls)
           /\ \A c \in 1..Len(new) :
                 \/ new[c].index = f.index /\ new[c].whole = f.last
                 \/ c \in 1..Len(calls) /\ new[c] = calls[c] /\ new[c].index # f.index
<1>1. Len(calls) \in Nat /\ \A k \in 1..Len(calls) : calls[k] \in ToolCalls
  OBVIOUS
<1>2. CASE \E k \in 1..Len(calls) : calls[k].index = f.index
  <2> DEFINE g(k) == IF calls[k].index = f.index THEN [calls[k] EXCEPT !.whole = f.last] ELSE calls[k]
  <2>1. new = [k \in 1..Len(calls) |-> g(k)]
    BY <1>2 DEF PushCall
  <2>2. ASSUME NEW k \in 1..Len(calls)
        PROVE  /\ g(k) \in ToolCalls
               /\ \/ g(k).index = f.index /\ g(k).whole = f.last
                  \/ g(k) = calls[k] /\ g(k).index # f.index
    <3>1. \A y \in ToolCalls : LET z == [y EXCEPT !.whole = f.last] IN
             z \in ToolCalls /\ z.index = y.index /\ z.whole = f.last
      BY DEF ToolCalls
    <3>2. CASE calls[k].index = f.index
      BY <1>1, <3>1, <3>2
    <3>3. CASE calls[k].index # f.index
      BY <1>1, <3>3
    <3> QED BY <3>2, <3>3
  <2> HIDE DEF g
  <2>3. new \in Seq(ToolCalls) /\ Len(new) = Len(calls)
    BY <1>1, <2>1, <2>2
  <2> QED BY <2>1, <2>2, <2>3
<1>3. CASE ~\E k \in 1..Len(calls) : calls[k].index = f.index
  <2> DEFINE y == [index |-> f.index, whole |-> f.last]
  <2>1. y \in ToolCalls /\ y.index = f.index /\ y.whole = f.last
    <3>1. f.index \in Nat /\ f.last \in BOOLEAN
      OBVIOUS
    <3> QED BY <3>1 DEF ToolCalls
  <2>2. new = Append(calls, y)
    BY <1>3 DEF PushCall
  <2> HIDE DEF y
  <2>3. /\ new \in Seq(ToolCalls) /\ Len(new) = Len(calls) + 1
        /\ new[Len(calls) + 1] = y /\ \A i \in 1..Len(calls) : new[i] = calls[i]
    BY <2>1, <2>2, Appended
  <2>4. \A c \in 1..Len(new) : c \in 1..Len(calls) \/ c = Len(calls) + 1
    BY <1>1, <2>3
  <2> QED BY <1>3, <2>1, <2>3, <2>4
<1> QED BY <1>2, <1>3

\* A step that leaves the stream and the reported calls alone.
LEMMA CallsAlone ==
    ASSUME CallInv, UNCHANGED <<sc, llm, lout>>, told' \in Reports, told'.calls = told.calls,
           cancelled' \in BOOLEAN
    PROVE  CallInv'
<1>1. LlmTypeOK'
  BY DEF CallInv, LlmTypeOK
<1>2. Gathered'
  BY DEF CallInv, Gathered, Read
<1>3. Passing'
  BY DEF CallInv, Passing, NoCall, WholeCall, Unfinished
<1> QED BY <1>1, <1>2, <1>3 DEF CallInv

\* The next line of the script is read.
LEMMA Advance ==
    ASSUME LlmTypeOK, Gathered, llm.script # <<>>, llm'.script = Tail(llm.script), sc' = sc
    PROVE  /\ Read \in Nat /\ Read' = Read + 1 /\ Read + 1 \in 1..Len(sc.script)
           /\ Head(llm.script) = sc.script[Read + 1] /\ Head(llm.script) \in Lines
           /\ llm'.script \in Seq(Lines) /\ Len(llm'.script) <= Len(sc.script)
           /\ \A k \in 1..Len(llm'.script) : llm'.script[k] = sc.script[Read + 1 + k]
<1> DEFINE p == llm.script
           t == llm'.script
           f == sc.script
<1>1. p \in Seq(Lines) /\ f \in Seq(Lines) /\ Len(f) \in Nat
  BY DEF LlmTypeOK, LlmStreams, Requests
<1>2. /\ t \in Seq(Lines) /\ Len(p) \in Nat /\ Len(p) > 0 /\ Len(t) = Len(p) - 1
      /\ Head(p) = p[1] /\ Head(p) \in Lines /\ \A i \in 1..Len(t) : t[i] = p[i + 1]
  BY <1>1, Taken1
<1>3. Len(p) <= Len(f) /\ \A k \in 1..Len(p) : p[k] = f[Read + k]
  BY DEF Gathered
<1>4. Read = Len(f) - Len(p) /\ Read' = Len(f) - Len(t)
  BY DEF Read
<1> HIDE DEF p, t, f
<1>5. Read \in Nat /\ Read' = Read + 1 /\ Read + 1 \in 1..Len(f)
  BY <1>1, <1>2, <1>3, <1>4
<1>6. Head(p) = f[Read + 1]
  BY <1>2, <1>3
<1>7. Len(t) <= Len(f)
  BY <1>1, <1>2, <1>3
<1>8. ASSUME NEW k \in 1..Len(t) PROVE t[k] = f[Read + 1 + k]
  <2>1. k + 1 \in 1..Len(p) /\ Read + (k + 1) = Read + 1 + k
    BY <1>2, <1>5
  <2> QED BY <1>2, <1>3, <2>1
<1> QED BY <1>2, <1>5, <1>6, <1>7, <1>8 DEF p, t, f

\* A line that is neither a fragment nor a finish reason adds nothing.
LEMMA AdvancePlain ==
    ASSUME LlmTypeOK, Gathered, llm.script # <<>>, llm'.script = Tail(llm.script), sc' = sc,
           llm'.calls = llm.calls, llm'.finish = llm.finish,
           Head(llm.script).k \notin {"call", "finish"}
    PROVE  Gathered'
<1>1. /\ Read \in Nat /\ Read' = Read + 1
      /\ Head(llm.script) = sc.script[Read + 1]
      /\ Len(llm'.script) <= Len(sc.script)
      /\ \A k \in 1..Len(llm'.script) : llm'.script[k] = sc.script[Read + 1 + k]
  BY Advance
<1>2. sc.script[Read + 1].k \notin {"call", "finish"}
  BY <1>1
<1> DEFINE n == Read
           f == sc.script
<1> HIDE DEF n, f
<1>3. \A i \in 1..(n + 1) : i \in 1..n \/ i = n + 1
  BY <1>1 DEF n
<1>4. \A i \in 1..n : i \in 1..(n + 1)
  BY <1>1 DEF n
<1>5. \A j \in 1..n : \A i \in (j + 1)..(n + 1) : i \in (j + 1)..n \/ i = n + 1
  BY <1>1 DEF n
<1>6. ASSUME NEW c \in 1..Len(llm'.calls)
      PROVE  \E i \in 1..(n + 1) :
                /\ f[i].k = "call"
                /\ f[i].index = llm'.calls[c].index /\ f[i].last = llm'.calls[c].whole
                /\ \A j \in (i + 1)..(n + 1) : f[j].k = "call" => f[j].index # llm'.calls[c].index
  <2>1. PICK i \in 1..n :
                /\ f[i].k = "call"
                /\ f[i].index = llm.calls[c].index /\ f[i].last = llm.calls[c].whole
                /\ \A j \in (i + 1)..n : f[j].k = "call" => f[j].index # llm.calls[c].index
    BY DEF Gathered, n, f
  <2>2. \A j \in (i + 1)..(n + 1) : f[j].k = "call" => f[j].index # llm.calls[c].index
    BY <1>2, <1>5, <2>1 DEF n, f
  <2> QED BY <1>4, <2>1, <2>2
<1>7. llm'.finish = NoFinish => \A j \in 1..(n + 1) : f[j].k # "finish"
  BY <1>2, <1>3 DEF Gathered, n, f
<1>8. ASSUME llm'.finish # NoFinish
      PROVE  \E j \in 1..(n + 1) :
                /\ f[j].k = "finish" /\ f[j].reason = llm'.finish
                /\ \A i \in (j + 1)..(n + 1) : f[i].k # "finish"
  <2>1. PICK j \in 1..n :
                /\ f[j].k = "finish" /\ f[j].reason = llm.finish
                /\ \A i \in (j + 1)..n : f[i].k # "finish"
    BY <1>8 DEF Gathered, n, f
  <2>2. \A i \in (j + 1)..(n + 1) : f[i].k # "finish"
    BY <1>2, <1>5, <2>1 DEF n, f
  <2> QED BY <1>4, <2>1, <2>2
<1> QED BY <1>1, <1>6, <1>7, <1>8 DEF Gathered, n, f

\* A fragment of a call.
LEMMA AdvanceCall ==
    ASSUME LlmTypeOK, Gathered, llm.script # <<>>, llm'.script = Tail(llm.script), sc' = sc,
           llm'.calls = PushCall(llm.calls, Head(llm.script)), llm'.finish = llm.finish,
           Head(llm.script).k = "call"
    PROVE  Gathered' /\ llm'.calls \in Seq(ToolCalls)
<1>1. /\ Read \in Nat /\ Read' = Read + 1
      /\ Head(llm.script) = sc.script[Read + 1] /\ Head(llm.script) \in Lines
      /\ Len(llm'.script) <= Len(sc.script)
      /\ \A k \in 1..Len(llm'.script) : llm'.script[k] = sc.script[Read + 1 + k]
  BY Advance
<1> DEFINE n == Read
           f == sc.script
           e == Head(llm.script)
<1>2. e \in [k : {"call"}, index : Nat, last : BOOLEAN] /\ e = f[n + 1]
  BY <1>1 DEF Lines
<1>0. llm.calls \in Seq(ToolCalls) /\ llm'.calls = PushCall(llm.calls, e)
  BY DEF LlmTypeOK, LlmStreams
<1> HIDE DEF n, f, e
<1>3. /\ llm'.calls \in Seq(ToolCalls)
      /\ \A c \in 1..Len(llm'.calls) :
            \/ llm'.calls[c].index = e.index /\ llm'.calls[c].whole = e.last
            \/ c \in 1..Len(llm.calls) /\ llm'.calls[c] = llm.calls[c] /\ llm'.calls[c].index # e.index
  BY <1>0, <1>2, PushCallKeeps
<1>4. \A i \in 1..n : i \in 1..(n + 1)
  BY <1>1 DEF n
<1>5. \A j \in 1..n : \A i \in (j + 1)..(n + 1) : i \in (j + 1)..n \/ i = n + 1
  BY <1>1 DEF n
<1>6. n + 1 \in 1..(n + 1) /\ (n + 2)..(n + 1) = {} /\ (n + 1) + 1 = n + 2
  BY <1>1 DEF n
<1>7. ASSUME NEW c \in 1..Len(llm'.calls)
      PROVE  \E i \in 1..(n + 1) :
                /\ f[i].k = "call"
                /\ f[i].index = llm'.calls[c].index /\ f[i].last = llm'.calls[c].whole
                /\ \A j \in (i + 1)..(n + 1) : f[j].k = "call" => f[j].index # llm'.calls[c].index
  <2>1. CASE llm'.calls[c].index = e.index /\ llm'.calls[c].whole = e.last
    <3>1. f[n + 1].k = "call" /\ f[n + 1].index = llm'.calls[c].index /\ f[n + 1].last = llm'.calls[c].whole
      BY <1>2, <2>1
    <3> QED BY <1>6, <3>1
  <2>2. CASE c \in 1..Len(llm.calls) /\ llm'.calls[c] = llm.calls[c] /\ llm'.calls[c].index # e.index
    <3>1. PICK i \in 1..n :
                /\ f[i].k = "call"
                /\ f[i].index = llm.calls[c].index /\ f[i].last = llm.calls[c].whole
                /\ \A j \in (i + 1)..n : f[j].k = "call" => f[j].index # llm.calls[c].index
      BY <2>2 DEF Gathered, n, f
    <3>2. \A j \in (i + 1)..(n + 1) : f[j].k = "call" => f[j].index # llm.calls[c].index
      BY <1>2, <1>5, <2>2, <3>1
    <3> QED BY <1>4, <2>2, <3>1, <3>2
  <2> QED BY <1>3, <2>1, <2>2
<1>8. llm'.finish = NoFinish => \A j \in 1..(n + 1) : f[j].k # "finish"
  <2>1. \A i \in 1..(n + 1) : i \in 1..n \/ i = n + 1
    BY <1>1 DEF n
  <2> QED BY <1>2, <2>1 DEF Gathered, n, f
<1>9. ASSUME llm'.finish # NoFinish
      PROVE  \E j \in 1..(n + 1) :
                /\ f[j].k = "finish" /\ f[j].reason = llm'.finish
                /\ \A i \in (j + 1)..(n + 1) : f[i].k # "finish"
  <2>1. PICK j \in 1..n :
                /\ f[j].k = "finish" /\ f[j].reason = llm.finish
                /\ \A i \in (j + 1)..n : f[i].k # "finish"
    BY <1>9 DEF Gathered, n, f
  <2>2. \A i \in (j + 1)..(n + 1) : f[i].k # "finish"
    BY <1>2, <1>5, <2>1
  <2> QED BY <1>4, <2>1, <2>2
<1> QED BY <1>1, <1>3, <1>7, <1>8, <1>9 DEF Gathered, n, f

\* A finish reason.
LEMMA AdvanceFinish ==
    ASSUME LlmTypeOK, Gathered, llm.script # <<>>, llm'.script = Tail(llm.script), sc' = sc,
           llm'.calls = llm.calls, llm'.finish = Head(llm.script).reason,
           Head(llm.script).k = "finish"
    PROVE  Gathered' /\ llm'.finish \in FinishReasons
<1>1. /\ Read \in Nat /\ Read' = Read + 1
      /\ Head(llm.script) = sc.script[Read + 1] /\ Head(llm.script) \in Lines
      /\ Len(llm'.script) <= Len(sc.script)
      /\ \A k \in 1..Len(llm'.script) : llm'.script[k] = sc.script[Read + 1 + k]
  BY Advance
<1> DEFINE n == Read
           f == sc.script
<1>2. f[n + 1].k = "finish" /\ f[n + 1].reason = llm'.finish /\ llm'.finish \in FinishReasons
  BY <1>1 DEF Lines
<1>3. llm'.finish # NoFinish
  BY <1>2, PipelineAssumption
<1> HIDE DEF n, f
<1>4. \A i \in 1..n : i \in 1..(n + 1)
  BY <1>1 DEF n
<1>5. \A j \in 1..n : \A i \in (j + 1)..(n + 1) : i \in (j + 1)..n \/ i = n + 1
  BY <1>1 DEF n
<1>6. n + 1 \in 1..(n + 1) /\ (n + 2)..(n + 1) = {} /\ (n + 1) + 1 = n + 2
  BY <1>1 DEF n
<1>7. ASSUME NEW c \in 1..Len(llm'.calls)
      PROVE  \E i \in 1..(n + 1) :
                /\ f[i].k = "call"
                /\ f[i].index = llm'.calls[c].index /\ f[i].last = llm'.calls[c].whole
                /\ \A j \in (i + 1)..(n + 1) : f[j].k = "call" => f[j].index # llm'.calls[c].index
  <2>1. PICK i \in 1..n :
                /\ f[i].k = "call"
                /\ f[i].index = llm.calls[c].index /\ f[i].last = llm.calls[c].whole
                /\ \A j \in (i + 1)..n : f[j].k = "call" => f[j].index # llm.calls[c].index
    BY DEF Gathered, n, f
  <2>2. \A j \in (i + 1)..(n + 1) : f[j].k = "call" => f[j].index # llm.calls[c].index
    BY <1>2, <1>5, <2>1
  <2> QED BY <1>4, <2>1, <2>2
<1>8. \E j \in 1..(n + 1) :
                /\ f[j].k = "finish" /\ f[j].reason = llm'.finish
                /\ \A i \in (j + 1)..(n + 1) : f[i].k # "finish"
  BY <1>2, <1>6
<1>9. llm'.finish = NoFinish => \A j \in 1..(n + 1) : f[j].k # "finish"
  BY <1>3
<1>10. llm'.finish # NoFinish => \E j \in 1..(n + 1) :
                /\ f[j].k = "finish" /\ f[j].reason = llm'.finish
                /\ \A i \in (j + 1)..(n + 1) : f[i].k # "finish"
  BY <1>8
<1>11. Gathered'
  BY <1>1, <1>7, <1>9, <1>10 DEF Gathered, n, f
<1> QED BY <1>2, <1>11

\* The call that is sent when the stream ends is whole, or the stream had no end.
LEMMA EndsWhole ==
    ASSUME LlmTypeOK, Gathered, llm.script # <<>>, Head(llm.script).k \in {"[DONE]", "eof"},
           Len(llm.calls) > 0, llm.finish \in {"stop", NoFinish}
    PROVE  WholeCall(llm.calls[1])
<1> DEFINE n == Read
           f == sc.script
<1>1. llm.script \in Seq(Lines) /\ f \in Seq(Lines) /\ Len(f) \in Nat /\ llm.calls \in Seq(ToolCalls)
  BY DEF LlmTypeOK, LlmStreams, Requests
<1>2. Len(llm.script) \in Nat /\ Len(llm.script) > 0 /\ Head(llm.script) = llm.script[1]
  BY <1>1
<1>3. n \in Nat /\ n + 1 \in 1..Len(f) /\ Head(llm.script) = f[n + 1]
  <2> DEFINE p == llm.script
  <2>1. Len(p) <= Len(f) /\ \A k \in 1..Len(p) : p[k] = f[n + k]
    BY DEF Gathered
  <2>2. n = Len(f) - Len(p)
    BY DEF Read
  <2>3. Len(f) \in Nat /\ Len(p) \in Nat /\ Len(p) > 0 /\ Head(p) = p[1]
    BY <1>1, <1>2
  <2> HIDE DEF p, n, f
  <2>4. n \in Nat /\ n + 1 \in 1..Len(f) /\ 1 \in 1..Len(p)
    BY <2>1, <2>2, <2>3
  <2> QED BY <2>1, <2>3, <2>4 DEF p
<1>4. f[n + 1].k \in {"[DONE]", "eof"}
  BY <1>3
<1>5. 1 \in 1..Len(llm.calls) /\ llm.calls[1].whole \in BOOLEAN
  <2>1. Len(llm.calls) \in Nat /\ 1 \in 1..Len(llm.calls)
    BY <1>1
  <2>2. llm.calls[1] \in ToolCalls
    BY <1>1, <2>1
  <2> QED BY <2>1, <2>2 DEF ToolCalls
<1>6. PICK i \in 1..n :
        /\ f[i].k = "call"
        /\ f[i].index = llm.calls[1].index /\ f[i].last = llm.calls[1].whole
        /\ \A j \in (i + 1)..n : f[j].k = "call" => f[j].index # llm.calls[1].index
  BY <1>5 DEF Gathered
<1>7. CallsComplete(f)
  BY DEF LlmTypeOK
<1>f. /\ llm.finish = NoFinish => \A j \in 1..n : f[j].k # "finish"
      /\ llm.finish # NoFinish => \E j \in 1..n :
            /\ f[j].k = "finish" /\ f[j].reason = llm.finish
            /\ \A l \in (j + 1)..n : f[l].k # "finish"
  BY DEF Gathered
<1>u. llm.finish = NoFinish /\ f[n + 1].k = "eof" => Unfinished
  BY <1>3 DEF Unfinished
<1> HIDE DEF n, f
<1>8. (n + 1) - 1 = n /\ i < n + 1 /\ i \in 1..Len(f)
  BY <1>3
<1>9. Concludes(f, n + 1) => f[i].last
  <2> SUFFICES ASSUME Concludes(f, n + 1), ~f[i].last PROVE FALSE
    OBVIOUS
  <2>1. \E j \in (i + 1)..((n + 1) - 1) : f[j].k = "call" /\ f[j].index = f[i].index
    BY <1>3, <1>6, <1>7, <1>8 DEF CallsComplete
  <2> QED BY <1>6, <1>8, <2>1
<1>10. CASE llm.finish = NoFinish /\ f[n + 1].k = "[DONE]"
  <2>1. Concludes(f, n + 1)
    BY <1>8, <1>f, <1>10 DEF Concludes
  <2> QED BY <1>6, <1>9, <2>1 DEF WholeCall
<1>11. CASE llm.finish = NoFinish /\ f[n + 1].k = "eof"
  BY <1>11, <1>u DEF WholeCall
<1>12. CASE llm.finish # NoFinish
  <2>1. llm.finish = "stop"
    BY <1>12
  <2>2. PICK j \in 1..n : /\ f[j].k = "finish" /\ f[j].reason = "stop"
                          /\ \A l \in (j + 1)..n : f[l].k # "finish"
    BY <1>f, <1>12, <2>1
  <2>3. \A l \in 1..n : f[l].k = "finish" => l <= j
    <3> SUFFICES ASSUME NEW l \in 1..n, f[l].k = "finish", ~(l <= j) PROVE FALSE
      OBVIOUS
    <3>1. l \in (j + 1)..n
      BY <1>3
    <3> QED BY <2>2, <3>1
  <2>4. Concludes(f, n + 1)
    BY <1>4, <1>8, <2>2, <2>3 DEF Concludes
  <2> QED BY <1>6, <1>9, <2>4 DEF WholeCall
<1> QED BY <1>4, <1>10, <1>11, <1>12

\* A step of the stream before its end.
LEMMA SendsOne ==
    ASSUME CallInv, llm.pc \in {"post", "read"}, NEW ch, ch.kind \in {"text", "done", "error"},
           llm'.pc = "send", llm'.pend = <<ch>>, UNCHANGED <<sc, lout, told>>
    PROVE  Passing'
<1>1. NoCall
  BY DEF CallInv, Passing
<1>2. NoCall'
  BY <1>1 DEF NoCall
<1>3. llm'.pend[1] = ch /\ Len(llm'.pend) = 1
  OBVIOUS
<1>4. Len(told'.calls) <= 1 /\ 1..Len(told'.calls) = {}
  BY <1>2 DEF NoCall
<1> QED BY <1>2, <1>3, <1>4 DEF Passing, NoCall

\* A line is read that sends nothing.
LEMMA SendsNothing ==
    ASSUME CallInv, llm.pc \in {"post", "read"}, llm'.pc = "read", UNCHANGED <<sc, lout, told>>
    PROVE  Passing'
<1>1. NoCall
  BY DEF CallInv, Passing
<1>2. NoCall'
  BY <1>1 DEF NoCall
<1>4. Len(told'.calls) <= 1 /\ 1..Len(told'.calls) = {}
  BY <1>2 DEF NoCall
<1> QED BY <1>2, <1>4 DEF Passing, NoCall

\* The chunks that carry no call.
LEMMA PlainChunks ==
    /\ \A why \in {"canceled", "refused", "cut", "bad", "idle", "calls"} :
          LlmError(why) \in LlmChunks /\ LlmError(why).kind = "error"
    /\ \A t \in Seq(Runes) : Text(t) \in LlmChunks /\ Text(t).kind = "text"
BY DEF LlmError, Text, LlmChunks

\* The stream's record when something is to be sent.
LEMMA LlmSends ==
    ASSUME llm \in LlmStreams, NEW pend \in Seq(LlmChunks), NEW script \in Seq(Lines),
           \/ llm' = [llm EXCEPT !.pc = "send", !.pend = pend] /\ script = llm.script
           \/ llm' = [llm EXCEPT !.pc = "send", !.pend = pend, !.script = script]
    PROVE  /\ llm' \in LlmStreams /\ llm'.pc = "send" /\ llm'.pend = pend
           /\ llm'.script = script /\ llm'.calls = llm.calls /\ llm'.finish = llm.finish
BY DEF LlmStreams

\* One chunk is a sequence of chunks.
LEMMA OneChunk == ASSUME NEW S, NEW ch \in S PROVE <<ch>> \in Seq(S)
OBVIOUS

\* What has been gathered depends on the script and what was read of it.
LEMMA GatheredSame ==
    ASSUME Gathered, sc' = sc, llm'.script = llm.script, llm'.calls = llm.calls, llm'.finish = llm.finish
    PROVE  Gathered'
<1> DEFINE G(f, p, calls, finish, n) ==
      /\ Len(p) <= Len(f)
      /\ \A k \in 1..Len(p) : p[k] = f[n + k]
      /\ \A c \in 1..Len(calls) : \E i \in 1..n :
            /\ f[i].k = "call"
            /\ f[i].index = calls[c].index /\ f[i].last = calls[c].whole
            /\ \A j \in (i + 1)..n : f[j].k = "call" => f[j].index # calls[c].index
      /\ finish = NoFinish => \A j \in 1..n : f[j].k # "finish"
      /\ finish # NoFinish => \E j \in 1..n :
            /\ f[j].k = "finish" /\ f[j].reason = finish
            /\ \A i \in (j + 1)..n : f[i].k # "finish"
<1>1. G(sc.script, llm.script, llm.calls, llm.finish, Read)
  BY DEF Gathered
<1>2. Read' = Read
  BY DEF Read
<1>3. Gathered' = G(sc'.script, llm'.script, llm'.calls, llm'.finish, Read')
  BY DEF Gathered
<1> HIDE DEF G
<1> QED BY <1>1, <1>2, <1>3

\* The request, and the lines of the answer.
LEMMA LlmReadsCalls ==
    ASSUME CallInv, Post(cancelled) \/ ReadLine, UNCHANGED <<sc, cancelled, told>>
    PROVE  CallInv'
<1> USE DEF CallInv
<1>0. lout' = lout /\ llm.pc \in {"post", "read"} /\ llm \in LlmStreams
  BY DEF Post, ReadLine, LlmTypeOK
<1>1. CASE llm.pc = "post"
  <2>0. llm.script # <<>> /\ Post(cancelled)
    BY <1>1 DEF LlmTypeOK, ReadLine
  <2>1. CASE llm' = [llm EXCEPT !.pc = "send", !.pend = <<LlmError("canceled")>>]
    <3>1. /\ llm'.pc = "send" /\ llm'.pend = <<LlmError("canceled")>> /\ llm' \in LlmStreams
          /\ llm'.script = llm.script /\ llm'.calls = llm.calls /\ llm'.finish = llm.finish
      <4>1. <<LlmError("canceled")>> \in Seq(LlmChunks)
        BY PlainChunks, OneChunk
      <4>2. llm.script \in Seq(Lines)
        BY <1>0 DEF LlmStreams
      <4> QED BY <1>0, <2>1, <4>1, <4>2, LlmSends
    <3>2. Gathered'
      BY <3>1, GatheredSame
    <3>3. Passing'
      BY <1>0, <3>1, PlainChunks, SendsOne
    <3> QED BY <1>0, <3>1, <3>2, <3>3 DEF LlmTypeOK
  <2>2. CASE Head(llm.script).k = "refused" /\ SendNext(<<LlmError("refused")>>)
    <3>0. Tail(llm.script) \in Seq(Lines)
      BY <1>0, <2>0 DEF LlmStreams
    <3>1. /\ llm'.pc = "send" /\ llm'.pend = <<LlmError("refused")>> /\ llm' \in LlmStreams
          /\ llm'.script = Tail(llm.script) /\ llm'.calls = llm.calls /\ llm'.finish = llm.finish
      <4>1. <<LlmError("refused")>> \in Seq(LlmChunks)
        BY PlainChunks, OneChunk
      <4>2. llm' = [llm EXCEPT !.pc = "send", !.pend = <<LlmError("refused")>>, !.script = Tail(llm.script)]
        BY <2>2 DEF SendNext
      <4> QED BY <1>0, <3>0, <4>1, <4>2, LlmSends
    <3>2. Gathered'
      BY <2>0, <2>2, <3>1, AdvancePlain
    <3>3. Passing'
      BY <1>0, <3>1, PlainChunks, SendsOne
    <3> QED BY <1>0, <3>1, <3>2, <3>3 DEF LlmTypeOK
  <2>3. CASE llm' = [llm EXCEPT !.pc = "read", !.body = TRUE]
    <3>1. /\ llm'.pc = "read" /\ llm' \in LlmStreams
          /\ llm'.script = llm.script /\ llm'.calls = llm.calls /\ llm'.finish = llm.finish
      BY <1>0, <2>3 DEF LlmStreams
    <3>2. Gathered'
      BY <3>1, GatheredSame
    <3>3. Passing'
      BY <1>0, <3>1, SendsNothing
    <3> QED BY <1>0, <3>1, <3>2, <3>3 DEF LlmTypeOK
  <2> QED BY <2>0, <2>1, <2>2, <2>3 DEF Post
<1>2. CASE llm.pc = "read"
  <2> DEFINE e == Head(llm.script)
  <2>0. ReadLine /\ llm.script # <<>> /\ Tail(llm.script) \in Seq(Lines) /\ e \in Lines
    BY <1>0, <1>2 DEF Post, ReadLine, LlmStreams
  <2>1. CASE e.k = "text" /\ SendNext(<<Text(e.text)>>)
    <3>0. e.text \in Seq(Runes)
      BY <2>0, <2>1 DEF Lines
    <3>1. /\ llm'.pc = "send" /\ llm'.pend = <<Text(e.text)>> /\ llm' \in LlmStreams
          /\ llm'.script = Tail(llm.script) /\ llm'.calls = llm.calls /\ llm'.finish = llm.finish
      <4>1. <<Text(e.text)>> \in Seq(LlmChunks)
        BY <3>0, PlainChunks, OneChunk
      <4>2. llm' = [llm EXCEPT !.pc = "send", !.pend = <<Text(e.text)>>, !.script = Tail(llm.script)]
        BY <2>1 DEF SendNext
      <4> QED BY <1>0, <2>0, <4>1, <4>2, LlmSends
    <3>2. Gathered'
      BY <2>0, <2>1, <3>1, AdvancePlain
    <3>3. Passing'
      BY <1>0, <3>0, <3>1, PlainChunks, SendsOne
    <3> QED BY <1>0, <3>1, <3>2, <3>3 DEF LlmTypeOK
  <2>2. CASE e.k = "call" /\ llm' = [llm EXCEPT !.calls = PushCall(@, e), !.script = Tail(@)]
    <3>1. /\ llm'.script = Tail(llm.script) /\ llm'.calls = PushCall(llm.calls, e)
          /\ llm'.finish = llm.finish /\ llm'.pc = "read"
      BY <1>0, <1>2, <2>2 DEF LlmStreams
    <3>2. Gathered' /\ llm'.calls \in Seq(ToolCalls)
      BY <2>0, <2>2, <3>1, AdvanceCall
    <3>3. llm' \in LlmStreams
      BY <1>0, <2>0, <2>2, <3>1, <3>2 DEF LlmStreams
    <3>4. Passing'
      BY <1>0, <3>1, SendsNothing
    <3> QED BY <1>0, <3>1, <3>2, <3>3, <3>4 DEF LlmTypeOK
  <2>3. CASE e.k = "finish" /\ llm' = [llm EXCEPT !.finish = e.reason, !.script = Tail(@)]
    <3>1. /\ llm'.script = Tail(llm.script) /\ llm'.calls = llm.calls
          /\ llm'.finish = e.reason /\ llm'.pc = "read"
      BY <1>0, <1>2, <2>3 DEF LlmStreams
    <3>2. Gathered' /\ llm'.finish \in FinishReasons
      BY <2>0, <2>3, <3>1, AdvanceFinish
    <3>3. llm' \in LlmStreams
      BY <1>0, <2>0, <2>3, <3>1, <3>2 DEF LlmStreams
    <3>4. Passing'
      BY <1>0, <3>1, SendsNothing
    <3> QED BY <1>0, <3>1, <3>2, <3>3, <3>4 DEF LlmTypeOK
  <2>4. CASE e.k \in {"[DONE]", "eof"} /\ SendNext(Outcome(llm.calls, llm.finish))
    <3>0. llm.calls \in Seq(ToolCalls) /\ llm.finish \in FinishReasons \cup {NoFinish}
      BY <1>0 DEF LlmStreams
    <3> PICK out : out = Outcome(llm.calls, llm.finish)
      OBVIOUS
    <3>1. /\ out \in Seq(LlmChunks)
          /\ \/ Len(out) = 1 /\ out[1].kind \in {"done", "error"}
             \/ /\ Len(out) = 2 /\ out[1].kind = "call" /\ out[2].kind \in {"done", "error"}
                /\ Len(llm.calls) > 0 /\ out[1].call = llm.calls[1] /\ llm.finish \in {"stop", NoFinish}
      BY <3>0, OutcomeSends
    <3>2. llm' = [llm EXCEPT !.pc = "send", !.pend = out, !.script = Tail(llm.script)]
      BY <2>4 DEF SendNext
    <3>3. /\ llm'.pc = "send" /\ llm'.pend = out /\ llm' \in LlmStreams
          /\ llm'.script = Tail(llm.script) /\ llm'.calls = llm.calls /\ llm'.finish = llm.finish
      BY <1>0, <2>0, <3>1, <3>2, LlmSends
    <3>4. Gathered'
      BY <2>0, <2>4, <3>3, AdvancePlain
    <3>5. NoCall /\ NoCall'
      BY <1>0, <1>2 DEF Passing, NoCall
    <3>6. Len(out) = 2 => WholeCall(out[1].call)'
      <4>1. Len(out) = 2 => WholeCall(llm.calls[1])
        BY <2>0, <2>4, <3>1, EndsWhole
      <4>2. PICK x : x = llm.calls[1]
        OBVIOUS
      <4>3. WholeCall(x) = WholeCall(x)'
        BY <3>3 DEF WholeCall, Unfinished
      <4> QED BY <3>1, <4>1, <4>2, <4>3
    <3>7. Len(told'.calls) <= 1 /\ 1..Len(told'.calls) = {}
      BY <3>5 DEF NoCall
    <3>8. Passing'
      <4>1. llm'.pend[1].call = out[1].call
        BY <3>3
      <4>2. Len(out) = 2 => (WholeCall(llm.pend[1].call))'
        BY <3>6, <4>1 DEF WholeCall
      <4>3. ~(llm'.pc \in {"post", "read"})
        BY <3>3
      <4>4. (\/ Len(llm.pend) = 1 /\ llm.pend[1].kind \in {"done", "error"}
             \/ /\ Len(llm.pend) = 2 /\ llm.pend[1].kind = "call" /\ WholeCall(llm.pend[1].call)
                /\ llm.pend[2].kind \in {"done", "error"} /\ NoCall)'
        BY <3>1, <3>3, <3>5, <4>2
      <4>5. \A i \in 1..Len(lout'.q) : lout'.q[i].kind # "call"
        BY <3>5 DEF NoCall
      <4> QED BY <3>7, <4>3, <4>4, <4>5 DEF Passing
    <3> QED BY <1>0, <3>3, <3>4, <3>8 DEF LlmTypeOK
  <2>5. CASE e.k \in {"cut", "bad"} /\ SendNext(<<LlmError(e.k)>>)
    <3>1. /\ llm'.pc = "send" /\ llm'.pend = <<LlmError(e.k)>> /\ llm' \in LlmStreams
          /\ llm'.script = Tail(llm.script) /\ llm'.calls = llm.calls /\ llm'.finish = llm.finish
      <4>1. <<LlmError(e.k)>> \in Seq(LlmChunks)
        BY <2>5, PlainChunks, OneChunk
      <4>2. llm' = [llm EXCEPT !.pc = "send", !.pend = <<LlmError(e.k)>>, !.script = Tail(llm.script)]
        BY <2>5 DEF SendNext
      <4> QED BY <1>0, <2>0, <4>1, <4>2, LlmSends
    <3>2. Gathered'
      BY <2>0, <2>5, <3>1, AdvancePlain
    <3>3. Passing'
      BY <1>0, <2>5, <3>1, PlainChunks, SendsOne
    <3> QED BY <1>0, <3>1, <3>2, <3>3 DEF LlmTypeOK
  <2> QED BY <2>0, <2>1, <2>2, <2>3, <2>4, <2>5 DEF ReadLine
<1> QED BY <1>0, <1>1, <1>2

\* A chunk is sent.
LEMMA LlmSendsCalls ==
    ASSUME CallInv, SendChunk, UNCHANGED <<sc, cancelled, told>>
    PROVE  CallInv'
<1> DEFINE pend == llm.pend
           q == lout.q
           r == lout'.q
           ch == Head(llm.pend)
           isLast == ch.kind \in {"done", "error"}
<1>1. /\ llm \in LlmStreams /\ llm.pc = "send" /\ q \in Seq(LlmChunks) /\ pend \in Seq(LlmChunks)
      /\ lout \in [q : Seq(LlmChunks), closed : BOOLEAN]
  BY DEF CallInv, LlmTypeOK, LlmStreams, SendChunk
<1>2. /\ llm' = [llm EXCEPT !.pend = Tail(pend),
                            !.pc = IF isLast THEN "closed" ELSE IF Len(pend) = 1 THEN "read" ELSE "send"]
      /\ r = Append(q, ch) /\ lout' = [q |-> r, closed |-> isLast]
  BY DEF SendChunk
<1>3. \/ Len(pend) = 1 /\ pend[1].kind \in {"done", "error"}
      \/ Len(pend) = 1 /\ pend[1].kind = "text" /\ NoCall
      \/ /\ Len(pend) = 2 /\ pend[1].kind = "call" /\ WholeCall(pend[1].call)
         /\ pend[2].kind \in {"done", "error"} /\ NoCall
  BY <1>1 DEF CallInv, Passing
<1>4. pend # <<>>
  BY <1>3
<1>5. /\ Tail(pend) \in Seq(LlmChunks) /\ Len(Tail(pend)) = Len(pend) - 1 /\ Len(pend) \in Nat
      /\ ch = pend[1] /\ ch \in LlmChunks /\ \A i \in 1..Len(Tail(pend)) : Tail(pend)[i] = pend[i + 1]
  BY <1>1, <1>4, Taken1
<1>6. /\ r \in Seq(LlmChunks) /\ Len(q) \in Nat /\ Len(r) = Len(q) + 1
      /\ r[Len(q) + 1] = ch /\ \A i \in 1..Len(q) : r[i] = q[i]
  BY <1>1, <1>2, <1>5, Appended
<1>7. \A i \in 1..Len(r) : i \in 1..Len(q) \/ i = Len(q) + 1
  BY <1>6
<1>8. /\ llm' \in LlmStreams /\ llm'.script = llm.script /\ llm'.calls = llm.calls
      /\ llm'.finish = llm.finish /\ llm'.pend = Tail(pend)
      /\ llm'.pc = IF isLast THEN "closed" ELSE IF Len(pend) = 1 THEN "read" ELSE "send"
  BY <1>1, <1>2, <1>5 DEF LlmStreams
<1>9. Gathered'
  BY <1>8, GatheredSame DEF CallInv
<1>10. LlmTypeOK'
  <2>1. lout' \in [q : Seq(LlmChunks), closed : BOOLEAN]
    <3>1. isLast \in BOOLEAN
      OBVIOUS
    <3>2. \A x \in Seq(LlmChunks), b \in BOOLEAN : [q |-> x, closed |-> b] \in [q : Seq(LlmChunks), closed : BOOLEAN]
      OBVIOUS
    <3> HIDE DEF isLast, r
    <3> QED BY <1>2, <1>6, <3>1, <3>2
  <2>2. llm'.pc # "post"
    BY <1>8
  <2> QED BY <1>8, <2>1, <2>2 DEF CallInv, LlmTypeOK
<1>u. Unfinished' = Unfinished
  BY <1>8 DEF Unfinished
<1>c. /\ \A i, j \in 1..Len(q) : q[i].kind = "call" /\ q[j].kind = "call" => i = j
      /\ \A i \in 1..Len(q) : q[i].kind = "call" => WholeCall(q[i].call) /\ told.calls = <<>>
      /\ Len(told.calls) <= 1 /\ \A k \in 1..Len(told.calls) : WholeCall(told.calls[k])
  BY DEF CallInv, Passing
<1>k. Len(told'.calls) <= 1 /\ \A k \in 1..Len(told'.calls) : (WholeCall(told.calls[k]))'
  BY <1>c, <1>u DEF WholeCall
<1>11. ASSUME ch.kind # "call" PROVE Passing'
  <2>1. /\ \A i, j \in 1..Len(r) : r[i].kind = "call" /\ r[j].kind = "call" => i = j
        /\ \A i \in 1..Len(r) : r[i].kind = "call" => i \in 1..Len(q) /\ q[i].kind = "call" /\ r[i] = q[i]
    BY <1>6, <1>7, <1>11, <1>c
  <2>2. \A i \in 1..Len(r) : r[i].kind = "call" => (WholeCall(lout.q[i].call))' /\ told'.calls = <<>>
    BY <2>1, <1>c, <1>u DEF WholeCall
  <2>3. NoCall => NoCall'
    BY <2>1 DEF NoCall
  <2>4. llm'.pc = "closed" \/ (llm'.pc = "read" /\ NoCall)
    BY <1>3, <1>5, <1>8, <1>11
  <2> HIDE DEF q, r, ch, pend, isLast
  <2>5. (llm.pc \in {"post", "read"} => NoCall)' /\ llm'.pc # "send"
    BY <2>3, <2>4
  <2> QED BY <1>k, <2>1, <2>2, <2>5 DEF r, Passing
<1>12. ASSUME ch.kind = "call" PROVE Passing'
  <2>1. /\ Len(pend) = 2 /\ WholeCall(ch.call) /\ pend[2].kind \in {"done", "error"} /\ NoCall
    BY <1>3, <1>5, <1>12
  <2>2. Len(Tail(pend)) = 1 /\ Tail(pend)[1] = pend[2]
    BY <1>5, <2>1
  <2>3. \A i \in 1..Len(q) : q[i].kind # "call"
    BY <2>1 DEF NoCall
  <2>4. \A i \in 1..Len(r) : r[i].kind = "call" => i = Len(q) + 1 /\ r[i] = ch
    BY <1>6, <1>7, <2>3
  <2>5. \A i \in 1..Len(r) : r[i].kind = "call" => (WholeCall(lout.q[i].call))' /\ told'.calls = <<>>
    BY <2>1, <2>4, <1>u DEF WholeCall, NoCall
  <2>6. llm'.pc = "send" /\ Len(llm'.pend) = 1 /\ llm'.pend[1].kind \in {"done", "error"}
    BY <1>8, <1>12, <2>1, <2>2
  <2> HIDE DEF q, r, ch, pend, isLast
  <2> QED BY <1>k, <2>4, <2>5, <2>6 DEF r, Passing
<1> QED BY <1>9, <1>10, <1>11, <1>12 DEF CallInv

\* The stream ends, or its timer expires.
LEMMA LlmEndsCalls ==
    ASSUME CallInv, UNCHANGED <<sc, cancelled, told>>,
           \/ ReadCancelled(cancelled) \/ SendAborted(cancelled) \/ LlmWatchdog
    PROVE  CallInv'
<1>1. llm \in LlmStreams /\ lout \in [q : Seq(LlmChunks), closed : BOOLEAN] /\ lout.q \in Seq(LlmChunks)
  BY DEF CallInv, LlmTypeOK
<1>2. \/ llm' = [llm EXCEPT !.pc = "closed"]
      \/ llm' = [llm EXCEPT !.idle = TRUE] /\ lout' = lout
  BY DEF ReadCancelled, SendAborted, LlmWatchdog, LlmClose
<1>3. /\ llm' \in LlmStreams /\ llm'.script = llm.script /\ llm'.calls = llm.calls
      /\ llm'.finish = llm.finish /\ llm'.pend = llm.pend
      /\ llm'.pc = "closed" \/ (llm'.pc = llm.pc /\ lout' = lout)
  BY <1>1, <1>2 DEF LlmStreams
<1>e. LlmError("idle") \in LlmChunks /\ LlmError("idle").kind = "error"
  BY PlainChunks
<1>4. lout'.q = lout.q \/ (lout'.q = Append(lout.q, LlmError("idle")))
  BY <1>1 DEF ReadCancelled, SendAborted, LlmWatchdog, LlmClose
<1>5. lout'.closed \in BOOLEAN /\ lout' = [q |-> lout'.q, closed |-> lout'.closed]
  <2>1. CASE ReadCancelled(cancelled)
    BY <2>1 DEF ReadCancelled
  <2>2. CASE SendAborted(cancelled)
    BY <1>1, <2>2 DEF SendAborted, LlmClose
  <2>3. CASE LlmWatchdog
    BY <1>1, <2>3 DEF LlmWatchdog
  <2> QED BY <2>1, <2>2, <2>3
<1>6. /\ lout'.q \in Seq(LlmChunks)
      /\ \A i \in 1..Len(lout'.q) : lout'.q[i].kind = "call" => i \in 1..Len(lout.q) /\ lout'.q[i] = lout.q[i]
  <2>1. CASE lout'.q = lout.q
    BY <1>1, <2>1
  <2>2. CASE lout'.q = Append(lout.q, LlmError("idle"))
    <3>1. /\ lout'.q \in Seq(LlmChunks) /\ Len(lout.q) \in Nat /\ Len(lout'.q) = Len(lout.q) + 1
          /\ lout'.q[Len(lout.q) + 1] = LlmError("idle") /\ \A i \in 1..Len(lout.q) : lout'.q[i] = lout.q[i]
      BY <1>1, <1>e, <2>2, Appended
    <3>2. \A i \in 1..Len(lout'.q) : i \in 1..Len(lout.q) \/ i = Len(lout.q) + 1
      BY <3>1
    <3> QED BY <1>e, <3>1, <3>2
  <2> QED BY <1>4, <2>1, <2>2
<1>7. Gathered'
  BY <1>3, GatheredSame DEF CallInv
<1>8. LlmTypeOK'
  <2>1. lout' \in [q : Seq(LlmChunks), closed : BOOLEAN]
    BY <1>5, <1>6
  <2>2. llm'.pc = "post" => llm'.script # <<>>
    BY <1>3 DEF CallInv, LlmTypeOK
  <2> QED BY <1>3, <2>1, <2>2 DEF CallInv, LlmTypeOK
<1>u. Unfinished' = Unfinished
  BY <1>3 DEF Unfinished
<1>9. /\ \A i, j \in 1..Len(lout'.q) : lout'.q[i].kind = "call" /\ lout'.q[j].kind = "call" => i = j
      /\ \A i \in 1..Len(lout'.q) : lout'.q[i].kind = "call" => (WholeCall(lout.q[i].call))' /\ told'.calls = <<>>
      /\ Len(told'.calls) <= 1 /\ \A k \in 1..Len(told'.calls) : (WholeCall(told.calls[k]))'
  <2>1. /\ \A i, j \in 1..Len(lout.q) : lout.q[i].kind = "call" /\ lout.q[j].kind = "call" => i = j
        /\ \A i \in 1..Len(lout.q) : lout.q[i].kind = "call" => WholeCall(lout.q[i].call) /\ told.calls = <<>>
        /\ Len(told.calls) <= 1 /\ \A k \in 1..Len(told.calls) : WholeCall(told.calls[k])
    BY DEF CallInv, Passing
  <2> QED BY <1>6, <1>u, <2>1 DEF WholeCall
<1>10. Passing'
  <2>1. CASE llm'.pc = "closed"
    BY <1>9, <2>1 DEF Passing
  <2>2. CASE llm'.pc = llm.pc /\ lout' = lout
    <3>1. NoCall' = NoCall
      BY <2>2 DEF NoCall
    <3>2. WholeCall(llm.pend[1].call)' = WholeCall(llm.pend[1].call)
      BY <1>3, <1>u DEF WholeCall
    <3>3. (llm.pc \in {"post", "read"} => NoCall)'
      BY <2>2, <3>1 DEF CallInv, Passing
    <3>4. (llm.pc = "send" =>
              \/ Len(llm.pend) = 1 /\ llm.pend[1].kind \in {"done", "error"}
              \/ Len(llm.pend) = 1 /\ llm.pend[1].kind = "text" /\ NoCall
              \/ /\ Len(llm.pend) = 2 /\ llm.pend[1].kind = "call" /\ WholeCall(llm.pend[1].call)
                 /\ llm.pend[2].kind \in {"done", "error"} /\ NoCall)'
      BY <1>3, <2>2, <3>1, <3>2 DEF CallInv, Passing
    <3> QED BY <1>9, <3>3, <3>4 DEF Passing
  <2> QED BY <1>3, <2>1, <2>2
<1> QED BY <1>7, <1>8, <1>10 DEF CallInv

\* A failure is reported or not; nothing else changes in what the actor was told.
LEMMA FailedTells ==
    ASSUME told \in Reports, NEW why, Failed(why)
    PROVE  /\ told' \in Reports /\ told'.calls = told.calls /\ told'.audio = told.audio
           /\ told'.ttsDone = told.ttsDone /\ told'.llmDone = told.llmDone /\ told'.text = told.text
BY DEF Reports, Failed

\* A chunk is taken from the stream and reported.
LEMMA LlmChunkCalls ==
    ASSUME CallInv, LlmChunk
    PROVE  CallInv'
<1> DEFINE q == lout.q
           r == lout'.q
           ch == Head(lout.q)
<1>1. /\ told \in Reports /\ q \in Seq(LlmChunks) /\ q # <<>>
      /\ lout \in [q : Seq(LlmChunks), closed : BOOLEAN]
      /\ llm' = llm /\ sc' = sc /\ cancelled' = cancelled
  BY DEF CallInv, LlmTypeOK, LlmChunk, LlmStageFrame
<1>2. lout' = [lout EXCEPT !.q = Tail(q)] /\ r = Tail(q)
  BY <1>1 DEF LlmChunk
<1>3. /\ r \in Seq(LlmChunks) /\ Len(q) \in Nat /\ Len(q) > 0 /\ Len(r) = Len(q) - 1
      /\ ch = q[1] /\ ch \in LlmChunks /\ \A i \in 1..Len(r) : r[i] = q[i + 1]
  BY <1>1, <1>2, Taken1
<1>4. /\ told' \in Reports
      /\ \/ told'.calls = told.calls
         \/ ch.kind = "call" /\ told'.calls = Append(told.calls, ch.call)
  <2>1. CASE ch.kind = "text" /\ told' = [told EXCEPT !.text = @ \o ch.text]
    <3>1. ch.text \in Seq(Runes)
      BY <1>3, <2>1 DEF LlmChunks
    <3> HIDE DEF ch
    <3>2. told.text \o ch.text \in Seq(Runes)
      BY <1>1, <3>1 DEF Reports
    <3> QED BY <1>1, <2>1, <3>2 DEF Reports
  <2>2. CASE ch.kind = "call" /\ told' = [told EXCEPT !.calls = Append(@, ch.call)]
    <3>1. ch.call \in ToolCalls
      BY <1>3, <2>2 DEF LlmChunks
    <3> HIDE DEF ch
    <3>2. Append(told.calls, ch.call) \in Seq(ToolCalls)
      BY <1>1, <3>1 DEF Reports
    <3> QED BY <1>1, <2>2, <3>2 DEF Reports
  <2>3. CASE told' = [told EXCEPT !.llmDone = TRUE]
    BY <1>1, <2>3 DEF Reports
  <2>4. CASE Failed(ch.why)
    BY <1>1, <2>4, FailedTells
  <2>5. CASE told' = told
    BY <1>1, <2>5
  <2> QED BY <2>1, <2>2, <2>3, <2>4, <2>5 DEF LlmChunk
<1>5. Gathered'
  BY <1>1, GatheredSame DEF CallInv
<1>6. LlmTypeOK'
  <2>1. lout' \in [q : Seq(LlmChunks), closed : BOOLEAN]
    BY <1>1, <1>2, <1>3
  <2> QED BY <1>1, <1>4, <2>1 DEF CallInv, LlmTypeOK
<1>u. Unfinished' = Unfinished
  BY <1>1 DEF Unfinished
<1>c. /\ \A i, j \in 1..Len(q) : q[i].kind = "call" /\ q[j].kind = "call" => i = j
      /\ \A i \in 1..Len(q) : q[i].kind = "call" => WholeCall(q[i].call) /\ told.calls = <<>>
      /\ Len(told.calls) <= 1 /\ \A k \in 1..Len(told.calls) : WholeCall(told.calls[k])
  BY DEF CallInv, Passing
<1>s. \A i \in 1..Len(r) : i + 1 \in 1..Len(q) /\ 1 \in 1..Len(q) /\ i + 1 # 1
  BY <1>3
<1>7. ASSUME NEW i \in 1..Len(r), NEW j \in 1..Len(r), r[i].kind = "call", r[j].kind = "call" PROVE i = j
  <2>1. q[i + 1].kind = "call" /\ q[j + 1].kind = "call"
    BY <1>3, <1>7
  <2>2. i + 1 = j + 1
    BY <1>c, <1>s, <2>1
  <2> QED BY <2>2
<1>8. ASSUME NEW i \in 1..Len(r), r[i].kind = "call"
      PROVE  (WholeCall(lout.q[i].call))' /\ told'.calls = <<>>
  <2>1. q[i + 1].kind = "call" /\ r[i] = q[i + 1]
    BY <1>3, <1>8
  <2>2. WholeCall(q[i + 1].call) /\ told.calls = <<>> /\ (q[1].kind = "call" => i + 1 = 1)
    BY <1>c, <1>s, <2>1
  <2>3. ch.kind # "call"
    BY <1>3, <1>s, <2>2
  <2> QED BY <1>4, <1>u, <2>1, <2>2, <2>3 DEF WholeCall
<1>9. Len(told'.calls) <= 1 /\ \A k \in 1..Len(told'.calls) : (WholeCall(told.calls[k]))'
  <2>1. CASE told'.calls = told.calls
    BY <1>c, <1>u, <2>1 DEF WholeCall
  <2>2. CASE ch.kind = "call" /\ told'.calls = Append(told.calls, ch.call)
    <3>1. 1 \in 1..Len(q) /\ q[1].kind = "call"
      BY <1>3, <2>2
    <3>2. WholeCall(ch.call) /\ told.calls = <<>>
      BY <1>3, <1>c, <3>1
    <3>3. told'.calls = <<ch.call>>
      BY <2>2, <3>2
    <3>4. Len(told'.calls) = 1 /\ told'.calls[1] = ch.call /\ 1..1 = {1}
      BY <3>3
    <3> QED BY <1>u, <3>2, <3>4 DEF WholeCall
  <2> QED BY <1>4, <2>1, <2>2
<1>10. NoCall => NoCall'
  <2> SUFFICES ASSUME NoCall PROVE NoCall'
    OBVIOUS
  <2>1. told.calls = <<>> /\ \A i \in 1..Len(q) : q[i].kind # "call"
    BY DEF NoCall
  <2>2. ch.kind # "call"
    BY <1>3, <2>1
  <2>3. told'.calls = <<>>
    BY <1>4, <2>1, <2>2
  <2>4. \A i \in 1..Len(r) : r[i].kind # "call"
    BY <1>3, <1>s, <2>1
  <2> QED BY <2>3, <2>4 DEF NoCall
<1>11. Passing'
  <2>1. llm'.pc \in {"post", "read"} => NoCall'
    BY <1>1, <1>10 DEF CallInv, Passing
  <2>2. WholeCall(llm.pend[1].call)' = WholeCall(llm.pend[1].call)
    BY <1>1, <1>u DEF WholeCall
  <2>3. (llm.pc = "send" =>
            \/ Len(llm.pend) = 1 /\ llm.pend[1].kind \in {"done", "error"}
            \/ Len(llm.pend) = 1 /\ llm.pend[1].kind = "text" /\ NoCall
            \/ /\ Len(llm.pend) = 2 /\ llm.pend[1].kind = "call" /\ WholeCall(llm.pend[1].call)
               /\ llm.pend[2].kind \in {"done", "error"} /\ NoCall)'
    BY <1>1, <1>10, <2>2 DEF CallInv, Passing
  <2> QED BY <1>7, <1>8, <1>9, <2>1, <2>3 DEF Passing
<1> QED BY <1>5, <1>6, <1>11 DEF CallInv

-----------------------------------------------------------------------------
(* ---- audio: steps that move no sentence ----------------------------------------- *)

\* A chain stays one when nothing is added to it: a part may be dropped once the
\* goroutine that held it is over.
LEMMA ChainWeaken ==
    ASSUME NEW a, NEW b, NEW c, NEW d, Chain(a, b, c, d),
           emitted' = emitted, Taken' = Taken, SentencesOver => SentencesOver', told'.audio = told.audio,
           tstage'.pc = "drain" => tstage.pc = "drain" /\ tout'.q = tout.q,
           tts'.pc # "closed" => tts.pc # "closed" /\ Held' = Held,
           Taking' => Taking /\ tin'.q = tin.q,
           wstage'.pc = "recv" => wstage.pc = "recv",
           wstage'.pc = "write" => wstage.pc = "write" /\ wstage'.text = wstage.text,
           tin'.closed => tin.closed /\ (wstage.pc = "done" => wstage'.pc = "done"),
           rem'.finish => rem.finish /\ (tin.closed => tin'.closed) /\ (tts.wpc = "done" => tts'.wpc = "done"),
           tout'.closed /\ tts'.errc = "ok" =>
              tout.closed /\ tts.errc = "ok" /\ (tin.closed => tin'.closed) /\ (tts.pc = "closed" => tts'.pc = "closed"),
           tstage'.pc = "join" \/ told'.ttsDone => tstage.pc = "join" \/ told.ttsDone
    PROVE  Chain(a, b, c, d)'
<1>1. \A x : Mute(x)' = Mute(x)
  BY DEF Mute
<1>2. a <= b /\ b <= c /\ c <= d /\ Speaks(told'.audio, emitted', 0, a)
  BY DEF Chain
<1>3. tstage'.pc = "drain" => Speaks(tout'.q, emitted', a, b)
  BY DEF Chain
<1>4. tts'.pc # "closed" => Speaks(Held', emitted', b, c)
  BY DEF Chain
<1>5. Taking' => Speaks(tin'.q, emitted', c, d)
  BY DEF Chain
<1>6. /\ wstage'.pc = "recv" => Mute(d)'
      /\ wstage'.pc = "write" => Speaks(<<wstage'.text>>, emitted', d, Taken')
  BY <1>1 DEF Chain
<1>7. /\ tin'.closed => SentencesOver' /\ wstage'.pc = "done" /\ Mute(d)'
      /\ rem'.finish => tin'.closed /\ tts'.wpc = "done" /\ Mute(c)'
      /\ tout'.closed /\ tts'.errc = "ok" => tin'.closed /\ tts'.pc = "closed" /\ Mute(b)'
      /\ tstage'.pc = "join" \/ told'.ttsDone => SentencesOver' /\ Mute(a)'
  BY <1>1 DEF Chain
<1> HIDE DEF Chain, Mute, Held, Taking, SentencesOver, Taken
<1> QED BY <1>2, <1>3, <1>4, <1>5, <1>6, <1>7 DEF Chain

\* The same for ttsPerSentence.
LEMMA SoloWeaken ==
    ASSUME NEW a, NEW b, Solo(a, b),
           emitted' = emitted, Taken' = Taken, told'.audio = told.audio,
           tstage'.pc \in {"next", "segment"} \/ told'.ttsDone => tstage.pc \in {"next", "segment"} \/ told.ttsDone,
           tstage'.pc = "synthesize" => tstage.pc = "synthesize" /\ tstage'.hand = tstage.hand,
           tstage'.pc = "drain" =>
              /\ tstage.pc = "drain" /\ tout'.q = tout.q
              /\ tts'.pc \in {"post", "body"} => tts.pc \in {"post", "body"} /\ tin'.q = tin.q
              /\ tts'.pc = "tail" \/ (tout'.closed /\ tts'.errc = "ok") =>
                    tts.pc = "tail" \/ (tout.closed /\ tts.errc = "ok")
    PROVE  Solo(a, b)'
<1>1. \A x : Mute(x)' = Mute(x)
  BY DEF Mute
<1>2. a <= b /\ Speaks(told'.audio, emitted', 0, a)
  BY DEF Solo
<1>3. tstage'.pc \in {"next", "segment"} \/ told'.ttsDone => Mute(a)'
  BY <1>1 DEF Solo
<1>4. tstage'.pc = "synthesize" => tstage'.hand \in Nat /\ Speaks(<<tstage'.hand>>, emitted', a, Taken')
  BY DEF Solo
<1>5. tstage'.pc = "drain" =>
          /\ Speaks(tout'.q, emitted', a, b)
          /\ tts'.pc \in {"post", "body"} => Speaks(tin'.q, emitted', b, Taken')
          /\ tts'.pc = "tail" \/ (tout'.closed /\ tts'.errc = "ok") => Mute(b)'
  BY <1>1 DEF Solo
<1> QED BY <1>2, <1>3, <1>4, <1>5 DEF Solo

\* A step that leaves the speech alone; the sentencer may end.
LEMMA AudioAlone ==
    ASSUME AudioInv, UNCHANGED <<sc, emitted, tstage, wstage>>, UNCHANGED ttsVars,
           told'.audio = told.audio, told'.ttsDone = told.ttsDone,
           sentences' \in Channels, sentences'.q = sentences.q, sentences.closed => sentences'.closed,
           "pc" \in DOMAIN sstage', sentences'.closed => sstage'.pc = "done"
    PROVE  AudioInv'
<1>0. tts' = tts /\ tin' = tin /\ tout' = tout /\ rem' = rem /\ sc' = sc /\ emitted' = emitted
      /\ tstage' = tstage /\ wstage' = wstage
  BY DEF ttsVars
<1>1. Taken' = Taken
  BY DEF Taken
<1>2. SentencesOver => SentencesOver'
  BY DEF SentencesOver
<1>3. Held' = Held /\ Taking' = Taking
  BY <1>0 DEF Held, Taking
<1>4. TtsTypeOK'
  BY <1>0, <1>1 DEF AudioInv, TtsTypeOK
<1>5. \A a, b, c, d : Chain(a, b, c, d) => Chain(a, b, c, d)'
  BY <1>0, <1>1, <1>2, <1>3, ChainWeaken
<1>6. \A a, b : Solo(a, b) => Solo(a, b)'
  BY <1>0, <1>1, SoloWeaken
<1>7. Silence' = Silence
  BY <1>0 DEF Silence
<1>8. Incremental' = Incremental /\ TextOnly' = TextOnly
  BY <1>0 DEF Incremental, TextOnly
<1>9. Spoken => Spoken'
  BY <1>0, <1>1, <1>5, <1>7 DEF Spoken
<1>10. SpokenSingly => SpokenSingly'
  BY <1>0, <1>1, <1>2, <1>6 DEF SpokenSingly
<1>11. Unspoken => Unspoken'
  BY <1>0, <1>7 DEF Unspoken
<1> QED BY <1>0, <1>4, <1>8, <1>9, <1>10, <1>11 DEF AudioInv

\* What the sentencer stage emits comes after everything that was taken.
LEMMA EmitAudio ==
    ASSUME AudioInv, SentencerFrame, sstage.pc = "run",
           sentences' = [sentences EXCEPT !.q = Append(@, Len(emitted) + 1)],
           emitted' = Append(emitted, Head(sstage.pend)),
           sstage' = [sstage EXCEPT !.pend = Tail(@)]
    PROVE  AudioInv'
<1>0. /\ tts' = tts /\ tin' = tin /\ tout' = tout /\ rem' = rem /\ sc' = sc
      /\ tstage' = tstage /\ wstage' = wstage /\ told' = told
      /\ sentences' = [sentences EXCEPT !.q = Append(@, Len(emitted) + 1)]
      /\ emitted' = Append(emitted, Head(sstage.pend))
      /\ sstage' = [sstage EXCEPT !.pend = Tail(@)]
  BY DEF SentencerFrame, ttsVars
<1> DEFINE y == Head(sstage.pend)
           n == Len(emitted)
<1>t. TtsTypeOK
  BY DEF AudioInv
<1>1. PICK S : emitted \in Seq(S)
  BY <1>t DEF TtsTypeOK
<1>2. emitted \in Seq(S \cup {y}) /\ y \in S \cup {y}
  BY <1>1
<1>3. /\ emitted' \in Seq(S \cup {y}) /\ n \in Nat /\ Len(emitted') = n + 1
  BY <1>0, <1>2, Appended
<1>4. /\ sentences.q \in Seq(Nat) /\ sentences \in Channels /\ Len(sentences.q) <= n
      /\ \A k \in 1..Len(sentences.q) : sentences.q[k] = Taken + k
      /\ ~sentences.closed /\ "pc" \in DOMAIN sstage
  BY <1>t DEF TtsTypeOK, Channels
<1>5. sentences'.q = Append(sentences.q, n + 1) /\ sentences'.closed = sentences.closed
  BY <1>0, <1>4 DEF Channels
<1>6. /\ sentences'.q \in Seq(Nat) /\ Len(sentences.q) \in Nat /\ Len(sentences'.q) = Len(sentences.q) + 1
      /\ sentences'.q[Len(sentences.q) + 1] = n + 1
      /\ \A i \in 1..Len(sentences.q) : sentences'.q[i] = sentences.q[i]
  BY <1>3, <1>4, <1>5, Appended
<1>7. Taken \in Nat /\ Taken <= n /\ Taken = n - Len(sentences.q) /\ Taken' = Taken
  <2>1. \A m, l \in Nat : l <= m => m - l \in Nat /\ m - l <= m /\ (m + 1) - (l + 1) = m - l
    OBVIOUS
  <2>2. Taken = n - Len(sentences.q) /\ Taken' = Len(emitted') - Len(sentences'.q)
    BY DEF Taken
  <2> QED BY <1>3, <1>4, <1>6, <2>1, <2>2
<1>8. sentences' \in Channels
  BY <1>0, <1>4, <1>5, <1>6 DEF Channels
<1>9. \A k \in 1..Len(sentences'.q) : sentences'.q[k] = Taken' + k
  <2>1. \A k \in 1..Len(sentences'.q) : k \in 1..Len(sentences.q) \/ k = Len(sentences.q) + 1
    BY <1>6
  <2>2. n + 1 = Taken + (Len(sentences.q) + 1)
    <3>1. \A t, m, l \in Nat : t = m - l => m + 1 = t + (l + 1)
      OBVIOUS
    <3> QED BY <1>3, <1>6, <1>7, <3>1
  <2> QED BY <1>4, <1>6, <1>7, <2>1, <2>2
<1>10. sstage'.pc = "run" /\ "pc" \in DOMAIN sstage'
  BY <1>0, <1>4
<1>11. TtsTypeOK'
  <2>1. \E Q : emitted' \in Seq(Q)
    BY <1>3
  <2>2. Len(sentences'.q) <= Len(emitted')
    BY <1>3, <1>4, <1>6
  <2>3. ~sentences'.closed
    BY <1>4, <1>5
  <2> QED BY <1>0, <1>8, <1>9, <1>10, <1>t, <2>1, <2>2, <2>3 DEF TtsTypeOK
<1>g. \A q : \A lo \in Nat, hi \in Nat : hi <= Taken /\ Speaks(q, emitted, lo, hi) => Speaks(q, emitted', lo, hi)
  <2> SUFFICES ASSUME NEW q, NEW lo \in Nat, NEW hi \in Nat, hi <= Taken, Speaks(q, emitted, lo, hi)
               PROVE  Speaks(q, emitted', lo, hi)
    OBVIOUS
  <2>1. hi <= Len(emitted)
    BY <1>3, <1>7
  <2> QED BY <1>0, <1>1, <2>1, SpeaksGrow
<1>m. \A x \in Nat : Mute(x) => Mute(x)'
  BY <1>7, <1>g DEF Mute
<1>o. ~SentencesOver
  BY <1>4 DEF SentencesOver
<1>12. ASSUME NEW a \in 0..Taken, NEW b \in 0..Taken, NEW c \in 0..Taken, NEW d \in 0..Taken, Chain(a, b, c, d)
       PROVE  Chain(a, b, c, d)'
  <2>1. a \in Nat /\ b \in Nat /\ c \in Nat /\ d \in Nat /\ 0 \in Nat
        /\ a <= Taken /\ b <= Taken /\ c <= Taken /\ d <= Taken /\ Taken <= Taken
    BY <1>7
  <2>2. Held' = Held /\ Taking' = Taking
    BY <1>0 DEF Held, Taking
  <2>3. /\ a <= b /\ b <= c /\ c <= d
        /\ Speaks(told.audio, emitted, 0, a)
        /\ tstage.pc = "drain" => Speaks(tout.q, emitted, a, b)
        /\ tts.pc # "closed" => Speaks(Held, emitted, b, c)
        /\ Taking => Speaks(tin.q, emitted, c, d)
        /\ wstage.pc = "recv" => Mute(d)
        /\ wstage.pc = "write" => Speaks(<<wstage.text>>, emitted, d, Taken)
        /\ tin.closed => SentencesOver
        /\ rem.finish => tin.closed
        /\ tout.closed /\ tts.errc = "ok" => tin.closed
        /\ tstage.pc = "join" \/ told.ttsDone => SentencesOver
    BY <1>12 DEF Chain
  <2>4. /\ Speaks(told.audio, emitted', 0, a)
        /\ tstage.pc = "drain" => Speaks(tout.q, emitted', a, b)
        /\ tts.pc # "closed" => Speaks(Held, emitted', b, c)
        /\ Taking => Speaks(tin.q, emitted', c, d)
        /\ wstage.pc = "recv" => Mute(d)'
        /\ wstage.pc = "write" => Speaks(<<wstage.text>>, emitted', d, Taken)
    BY <1>7, <1>g, <1>m, <2>1, <2>3
  <2> QED BY <1>0, <1>7, <1>o, <2>2, <2>3, <2>4 DEF Chain
<1>13. ASSUME NEW a \in 0..Taken, NEW b \in 0..Taken, Solo(a, b)
       PROVE  Solo(a, b)'
  <2>1. a \in Nat /\ b \in Nat /\ 0 \in Nat /\ a <= Taken /\ b <= Taken /\ Taken <= Taken
    BY <1>7
  <2>2. /\ a <= b /\ Speaks(told.audio, emitted, 0, a)
        /\ tstage.pc \in {"next", "segment"} \/ told.ttsDone => Mute(a)
        /\ tstage.pc = "synthesize" => tstage.hand \in Nat /\ Speaks(<<tstage.hand>>, emitted, a, Taken)
        /\ tstage.pc = "drain" =>
              /\ Speaks(tout.q, emitted, a, b)
              /\ tts.pc \in {"post", "body"} => Speaks(tin.q, emitted, b, Taken)
              /\ tts.pc = "tail" \/ (tout.closed /\ tts.errc = "ok") => Mute(b)
    BY <1>13 DEF Solo
  <2>3. /\ Speaks(told.audio, emitted', 0, a)
        /\ Speaks(<<tstage.hand>>, emitted, a, Taken) => Speaks(<<tstage.hand>>, emitted', a, Taken)
        /\ Speaks(tout.q, emitted, a, b) => Speaks(tout.q, emitted', a, b)
        /\ Speaks(tin.q, emitted, b, Taken) => Speaks(tin.q, emitted', b, Taken)
    BY <1>7, <1>g, <2>1, <2>2
  <2>4. (Mute(a) => Mute(a)') /\ (Mute(b) => Mute(b)')
    BY <1>m, <2>1
  <2> QED BY <1>0, <1>7, <2>2, <2>3, <2>4 DEF Solo
<1>14. Silence' = Silence /\ Incremental' = Incremental /\ TextOnly' = TextOnly
  BY <1>0 DEF Silence, Incremental, TextOnly
<1>15. Spoken => Spoken'
  BY <1>0, <1>7, <1>12, <1>14 DEF Spoken
<1>16. SpokenSingly => SpokenSingly'
  BY <1>0, <1>7, <1>13, <1>o DEF SpokenSingly
<1>17. Unspoken => Unspoken'
  BY <1>0, <1>14 DEF Unspoken
<1> QED BY <1>0, <1>11, <1>14, <1>15, <1>16, <1>17 DEF AudioInv

(* ---- audio: what the steps of a stream have in common ------------------------------ *)

\* The rest of a queue that begins after mid.
LEMMA SpeaksRest ==
    ASSUME NEW sns, NEW q \in Seq(Nat), q # <<>>, NEW mid \in Nat, NEW hi \in Nat, Speaks(q, sns, mid, hi)
    PROVE  /\ Head(q) \in Nat /\ mid < Head(q) /\ Head(q) <= hi
           /\ Speaks(<<Head(q)>>, sns, mid, Head(q)) /\ Speaks(Tail(q), sns, Head(q), hi)
<1> DEFINE p == <<>>
<1>1. p \in Seq(Nat) /\ Speaks(p, sns, mid, mid) /\ Append(p, Head(q)) = <<Head(q)>>
  BY SpeaksNone
<1> HIDE DEF p
<1>2. /\ Head(q) \in Nat /\ mid < Head(q) /\ Head(q) <= hi
      /\ Speaks(Append(p, Head(q)), sns, mid, Head(q)) /\ Speaks(Tail(q), sns, Head(q), hi)
  BY <1>1, SpeaksMove
<1> QED BY <1>1, <1>2

\* Nothing to say, and then nothing.
LEMMA SpeaksNothing ==
    ASSUME NEW sns, NEW lo \in Nat, NEW mid \in Nat, NEW hi \in Nat, mid <= hi,
           Speaks(<<>>, sns, lo, mid), Speaks(<<>>, sns, mid, hi)
    PROVE  Speaks(<<>>, sns, lo, hi)
<1>1. <<>> \in Seq(Nat)
  OBVIOUS
<1> QED BY <1>1, SpeaksExtend

\* Numbers of sentences.
LEMMA TakenIn ==
    ASSUME TtsTypeOK
    PROVE  /\ Taken \in Nat /\ Len(emitted) \in Nat /\ Len(sentences.q) \in Nat /\ Taken <= Len(emitted)
           /\ Taken = Len(emitted) - Len(sentences.q) /\ \A x \in 0..Taken : x \in Nat /\ x <= Taken
<1>1. PICK S : emitted \in Seq(S)
  BY DEF TtsTypeOK
<1>2. Len(emitted) \in Nat
  BY <1>1
<1>3. sentences.q \in Seq(Nat) /\ Len(sentences.q) <= Len(emitted)
  BY DEF TtsTypeOK, Channels
<1>4. Len(sentences.q) \in Nat
  BY <1>3
<1>5. Taken = Len(emitted) - Len(sentences.q)
  BY DEF Taken
<1>6. \A m, l \in Nat : l <= m => m - l \in Nat /\ m - l <= m
  OBVIOUS
<1>7. Taken \in Nat /\ Taken <= Len(emitted)
  BY <1>2, <1>3, <1>4, <1>5, <1>6
<1> QED BY <1>2, <1>4, <1>5, <1>7

\* The next sentence is taken from the channel.
LEMMA SentenceTaken ==
    ASSUME TtsTypeOK, TakeSentence, emitted' = emitted
    PROVE  /\ Taken' = Taken + 1 /\ Head(sentences.q) = Taken + 1 /\ Taken' \in Nat /\ ~SentencesOver
           /\ sentences' \in Channels /\ sentences'.closed = sentences.closed
           /\ Len(sentences'.q) <= Len(emitted) /\ \A k \in 1..Len(sentences'.q) : sentences'.q[k] = Taken' + k
<1> DEFINE q == sentences.q
           r == sentences'.q
<1>1. /\ q \in Seq(Nat) /\ q # <<>> /\ sentences \in Channels /\ sentences' = [sentences EXCEPT !.q = Tail(@)]
  BY DEF TtsTypeOK, Channels, TakeSentence
<1>2. r = Tail(q) /\ sentences'.closed = sentences.closed
  BY <1>1 DEF Channels
<1>3. /\ r \in Seq(Nat) /\ Len(q) \in Nat /\ Len(q) > 0 /\ Len(r) = Len(q) - 1
      /\ Head(q) = q[1] /\ \A i \in 1..Len(r) : r[i] = q[i + 1]
  BY <1>1, <1>2, Taken1
<1>4. Taken \in Nat /\ Len(emitted) \in Nat /\ Taken = Len(emitted) - Len(q) /\ Len(q) <= Len(emitted)
  BY TakenIn DEF TtsTypeOK
<1>5. \A k \in 1..Len(q) : q[k] = Taken + k
  BY DEF TtsTypeOK
<1>6. Taken' = Len(emitted) - Len(r)
  BY DEF Taken
<1>7. sentences' \in Channels
  BY <1>1, <1>2, <1>3 DEF Channels
<1>8. ~SentencesOver
  BY <1>1 DEF SentencesOver
<1> DEFINE t == Taken
           u == Taken'
           m == Len(emitted)
<1> HIDE DEF q, r, t, u, m
<1>9. \A x, l, k \in Nat : x - (l - 1) = (x - l) + 1 /\ (x - l) + (k + 1) = ((x - l) + 1) + k
  OBVIOUS
<1>10. u = t + 1 /\ u \in Nat
  <2>1. t \in Nat /\ t = m - Len(q) /\ u = m - Len(r) /\ m \in Nat
    BY <1>4, <1>6 DEF t, u, m
  <2> QED BY <1>3, <1>9, <2>1
<1>11. Head(q) = t + 1
  <2>1. 1 \in 1..Len(q)
    BY <1>3
  <2> QED BY <1>3, <1>5, <2>1 DEF t
<1>12. Len(r) <= m
  BY <1>3, <1>4 DEF m
<1>13. ASSUME NEW k \in 1..Len(r) PROVE r[k] = u + k
  <2>1. k + 1 \in 1..Len(q) /\ k \in Nat
    BY <1>3
  <2>2. r[k] = t + (k + 1)
    BY <1>3, <1>5, <2>1 DEF t
  <2>3. t \in Nat
    BY <1>4 DEF t
  <2> QED BY <1>10, <2>1, <2>2, <2>3
<1> QED BY <1>2, <1>7, <1>8, <1>10, <1>11, <1>12, <1>13 DEF q, r, t, u, m

\* The types, when the channel of sentences is left alone.
LEMMA TypeKept ==
    ASSUME TtsTypeOK, UNCHANGED <<sc, sentences, emitted, sstage>>,
           tts' \in SpeechStreams, tts'.kind = tts.kind, tts.kind # "qwen" => tts'.wpc = "off",
           tin' \in Channels, tout' \in Channels, rem' \in Services, tstage' \in TtsStages, wstage' \in TextStages
    PROVE  TtsTypeOK' /\ Taken' = Taken /\ SentencesOver' = SentencesOver
<1>1. Taken' = Taken /\ SentencesOver' = SentencesOver
  BY DEF Taken, SentencesOver
<1> QED BY <1>1 DEF TtsTypeOK

\* ... and when a sentence is taken.
LEMMA TypeTaken ==
    ASSUME TtsTypeOK, TakeSentence, UNCHANGED <<sc, emitted, sstage, tts, tin, tout, rem>>,
           tstage' \in TtsStages, wstage' \in TextStages
    PROVE  TtsTypeOK'
<1>1. /\ sentences' \in Channels /\ sentences'.closed = sentences.closed
      /\ Len(sentences'.q) <= Len(emitted) /\ \A k \in 1..Len(sentences'.q) : sentences'.q[k] = Taken' + k
  BY SentenceTaken
<1> QED BY <1>1 DEF TtsTypeOK

\* A chain is what ttsIncremental's invariant needs.
LEMMA SpokenBy ==
    ASSUME sc.tts \in {"qwen", "realtime"}, sc' = sc, TtsTypeOK',
           NEW a, NEW b, NEW c, NEW d,
           a \in 0..Taken', b \in 0..Taken', c \in 0..Taken', d \in 0..Taken', Chain(a, b, c, d)',
           wstage'.pc # "off", tstage'.pc \in {"drain", "join", "close", "done"},
           told'.ttsDone => tstage'.pc \in {"close", "done"},
           wstage'.pc = "write" => wstage'.text \in Nat, tts'.pc = "speak" => tts'.text \in Nat
    PROVE  AudioInv'
<1>1. \E x, y, z, w \in 0..Taken' : Chain(x, y, z, w)'
  OBVIOUS
<1>2. Spoken'
  BY <1>1 DEF Spoken
<1> QED BY <1>2 DEF AudioInv, TextOnly

\* ... and what the invariant gives.
LEMMA SpokenHas ==
    ASSUME AudioInv, sc.tts \in {"qwen", "realtime"}
    PROVE  /\ TtsTypeOK /\ Spoken /\ tts.kind = sc.tts
           /\ wstage.pc # "off" => \E a, b, c, d \in 0..Taken : Chain(a, b, c, d)
BY DEF AudioInv, Incremental, TtsTypeOK, Spoken

\* A channel is read.
LEMMA ChanTail ==
    ASSUME NEW ch \in Channels, ch.q # <<>>, NEW new, new = [ch EXCEPT !.q = Tail(@)]
    PROVE  new \in Channels /\ new.q = Tail(ch.q) /\ new.closed = ch.closed /\ Head(ch.q) \in Nat
<1>1. Tail(ch.q) \in Seq(Nat) /\ Head(ch.q) \in Nat
  BY Taken1 DEF Channels
<1> QED BY <1>1 DEF Channels

\* A channel is written.
LEMMA ChanAppend ==
    ASSUME NEW ch \in Channels, NEW y \in Nat, NEW new, new = [ch EXCEPT !.q = Append(@, y)]
    PROVE  new \in Channels /\ new.q = Append(ch.q, y) /\ new.closed = ch.closed
<1>1. Append(ch.q, y) \in Seq(Nat)
  BY Appended DEF Channels
<1> QED BY <1>1 DEF Channels

\* A goroutine of the stream ends.
LEMMA Settled ==
    ASSUME tts \in SpeechStreams, tout \in Channels, NEW o \in {"ok", "error", "canceled"}, NEW x \in BOOLEAN,
           Settle(o, x)
    PROVE  /\ tts' \in SpeechStreams /\ tts'.kind = tts.kind /\ tts'.text = tts.text /\ tts'.wpc = tts.wpc
           /\ tts'.pc = "closed" /\ tts'.errc = o /\ tout' \in Channels /\ tout'.q = tout.q /\ tout'.closed
           /\ tin' = tin /\ rem' = rem
<1>1. tts' = [tts EXCEPT !.errc = o, !.pc = "closed", !.can = @ \/ x] /\ tout' = [tout EXCEPT !.closed = TRUE]
      /\ tin' = tin /\ rem' = rem
  BY DEF Settle
<1>2. tout' \in Channels /\ tout'.q = tout.q /\ tout'.closed
  BY <1>1 DEF Channels
<1>3. PICK y \in BOOLEAN : y = (tts.can \/ x)
  BY DEF SpeechStreams
<1>4. tts' = [tts EXCEPT !.errc = o, !.pc = "closed", !.can = y]
  BY <1>1, <1>3
<1>5. /\ tts' \in SpeechStreams /\ tts'.kind = tts.kind /\ tts'.text = tts.text /\ tts'.wpc = tts.wpc
      /\ tts'.pc = "closed" /\ tts'.errc = o
  BY <1>4 DEF SpeechStreams
<1> QED BY <1>1, <1>2, <1>5

(* ---- audio: the Qwen stream ------------------------------------------------------- *)

\* A step of the stream that says nothing new.
QwenQuiet ==
    /\ UNCHANGED <<sc, told, emitted, sentences, sstage, tstage, wstage>>
    /\ tts' \in SpeechStreams /\ tts'.kind = tts.kind /\ tts'.text = tts.text
    /\ tin' \in Channels /\ tout' \in Channels /\ rem' \in Services
    /\ tout'.q = tout.q /\ rem'.heard = rem.heard /\ (rem'.finish => rem.finish) /\ tin'.closed = tin.closed
    /\ tts'.pc \in {tts.pc, "closed"}
    /\ tts'.wpc = "done" \/ (tts.wpc # "done" /\ tin'.q = tin.q)
    /\ tout'.closed /\ tts'.errc = "ok" => tout.closed /\ tts.errc = "ok"

\* Such a step keeps the chain.
LEMMA QwenQuietAudio ==
    ASSUME AudioInv, sc.tts = "qwen", wstage.pc # "off", QwenQuiet
    PROVE  AudioInv'
<1>1. TtsTypeOK /\ Spoken /\ tts.kind = "qwen"
  BY SpokenHas
<1>2. PICK a \in 0..Taken, b \in 0..Taken, c \in 0..Taken, d \in 0..Taken : Chain(a, b, c, d)
  BY SpokenHas
<1>q. /\ sc' = sc /\ told' = told /\ emitted' = emitted /\ sentences' = sentences /\ sstage' = sstage
      /\ tstage' = tstage /\ wstage' = wstage /\ tstage \in TtsStages /\ wstage \in TextStages
  BY <1>1 DEF QwenQuiet, TtsTypeOK
<1>3. TtsTypeOK' /\ Taken' = Taken /\ SentencesOver' = SentencesOver
  BY <1>1, <1>q, TypeKept DEF QwenQuiet
<1>4. (tts'.pc # "closed" => tts.pc # "closed") /\ Held' = Held
  BY <1>1 DEF QwenQuiet, Held
<1>5. Taking' => Taking /\ tin'.q = tin.q
  BY <1>1 DEF QwenQuiet, Taking
<1>6. /\ tts.wpc = "done" => tts'.wpc = "done"
      /\ tts.pc = "closed" => tts'.pc = "closed"
      /\ tout'.q = tout.q /\ (rem'.finish => rem.finish) /\ tin'.closed = tin.closed
      /\ tout'.closed /\ tts'.errc = "ok" => tout.closed /\ tts.errc = "ok"
      /\ tts'.pc = "speak" => tts.pc = "speak"
      /\ tts'.text = tts.text
  BY DEF QwenQuiet
<1>7. Chain(a, b, c, d)'
  BY <1>2, <1>3, <1>4, <1>5, <1>6, <1>q, ChainWeaken
<1>8. tstage'.pc \in {"drain", "join", "close", "done"}
  BY <1>1, <1>q DEF Spoken
<1>9. /\ told'.ttsDone => tstage'.pc \in {"close", "done"}
      /\ wstage'.pc = "write" => wstage'.text \in Nat
      /\ tts'.pc = "speak" => tts'.text \in Nat
  BY <1>1, <1>6, <1>q DEF Spoken
<1> QED BY <1>2, <1>3, <1>7, <1>8, <1>9, <1>q, SpokenBy

\* The parts of a chain.
LEMMA ChainHas ==
    ASSUME NEW a, NEW b, NEW c, NEW d, Chain(a, b, c, d)
    PROVE  /\ a <= b /\ b <= c /\ c <= d /\ Speaks(told.audio, emitted, 0, a)
           /\ tstage.pc = "drain" => Speaks(tout.q, emitted, a, b)
           /\ tts.pc # "closed" => Speaks(Held, emitted, b, c)
           /\ Taking => Speaks(tin.q, emitted, c, d)
           /\ wstage.pc = "recv" => Speaks(<<>>, emitted, d, Taken)
           /\ wstage.pc = "write" => Speaks(<<wstage.text>>, emitted, d, Taken)
           /\ tin.closed => SentencesOver /\ wstage.pc = "done" /\ Speaks(<<>>, emitted, d, Taken)
           /\ rem.finish => tin.closed /\ tts.wpc = "done" /\ Speaks(<<>>, emitted, c, Taken)
           /\ tout.closed /\ tts.errc = "ok" => tin.closed /\ tts.pc = "closed" /\ Speaks(<<>>, emitted, b, Taken)
           /\ tstage.pc = "join" \/ told.ttsDone => SentencesOver /\ Speaks(<<>>, emitted, a, Taken)
BY DEF Chain, Mute

\* ... and what makes one, when no sentence is taken or passed on.
LEMMA ChainOf ==
    ASSUME NEW a, NEW b, NEW c, NEW d, emitted' = emitted, Taken' = Taken, SentencesOver' = SentencesOver,
           a <= b, b <= c, c <= d, Speaks(told'.audio, emitted, 0, a),
           tstage'.pc = "drain" => Speaks(tout'.q, emitted, a, b),
           tts'.pc # "closed" => Speaks(Held', emitted, b, c),
           Taking' => Speaks(tin'.q, emitted, c, d),
           wstage'.pc = "recv" => Speaks(<<>>, emitted, d, Taken),
           wstage'.pc = "write" => Speaks(<<wstage'.text>>, emitted, d, Taken),
           tin'.closed => SentencesOver /\ wstage'.pc = "done" /\ Speaks(<<>>, emitted, d, Taken),
           rem'.finish => tin'.closed /\ tts'.wpc = "done" /\ Speaks(<<>>, emitted, c, Taken),
           tout'.closed /\ tts'.errc = "ok" => tin'.closed /\ tts'.pc = "closed" /\ Speaks(<<>>, emitted, b, Taken),
           tstage'.pc = "join" \/ told'.ttsDone => SentencesOver /\ Speaks(<<>>, emitted, a, Taken)
    PROVE  Chain(a, b, c, d)'
<1>1. \A x : Mute(x)' = Speaks(<<>>, emitted, x, Taken)
  BY DEF Mute
<1> QED BY <1>1 DEF Chain

\* The steps of the Qwen stream.
LEMMA QwenAudio ==
    ASSUME AudioInv, sc.tts = "qwen", TtsStep(cancelled) \/ TtsIdle, RestOfTts
    PROVE  AudioInv'
<1>1. TtsTypeOK /\ Spoken /\ tts.kind = "qwen"
  BY SpokenHas
<1>q. /\ sc' = sc /\ told' = told /\ emitted' = emitted /\ sentences' = sentences /\ sstage' = sstage
      /\ tstage' = tstage /\ wstage' = wstage /\ tstage \in TtsStages /\ wstage \in TextStages
  BY <1>1 DEF RestOfTts, stageVars, TtsTypeOK
<1>t. /\ tts \in SpeechStreams /\ tin \in Channels /\ tout \in Channels /\ rem \in Services
      /\ tin.q \in Seq(Nat) /\ tout.q \in Seq(Nat) /\ rem.heard \in Seq(Nat)
      /\ tout.closed \in BOOLEAN /\ tin.closed \in BOOLEAN
  BY <1>1 DEF TtsTypeOK, Channels, Services
<1>2. \/ RunTask(cancelled) \/ AwaitStarted(cancelled) \/ ContinueTask(cancelled) \/ FinishTask(cancelled)
      \/ TaskStarted \/ AudioFrame \/ ReaderEnds(cancelled) \/ TtsIdle
  <2>1. ~Connect(cancelled) /\ ~NextSegment(cancelled) /\ ~SpeakSegment(cancelled) /\ ~Fetch(cancelled)
    BY <1>1 DEF Connect, NextSegment, SpeakSegment, Fetch
  <2> QED BY <2>1 DEF TtsStep
<1>3. tts.pc = "read" \/ tts.wpc \in {"run", "await", "text"}
  BY <1>1, <1>2 DEF RunTask, AwaitStarted, ContinueTask, FinishTask, TaskStarted, AudioFrame, ReaderEnds, TtsIdle
<1>4. wstage.pc # "off"
  BY <1>1, <1>3 DEF Spoken, Silence
<1>5. ASSUME tin' = tin, tout' = tout, rem' = rem \/ rem' = [rem EXCEPT !.run = TRUE],
             tts' \in SpeechStreams, tts'.kind = tts.kind, tts'.text = tts.text, tts'.pc = tts.pc,
             tts'.wpc = "done" \/ tts.wpc # "done", tts'.errc = tts.errc
      PROVE  AudioInv'
  <2>1. rem' \in Services /\ rem'.heard = rem.heard /\ rem'.finish = rem.finish
    BY <1>5, <1>t DEF Services
  <2> QED BY <1>4, <1>5, <1>q, <1>t, <2>1, QwenQuietAudio DEF QwenQuiet
<1>f. WriterFails(cancelled) => /\ tts' \in SpeechStreams /\ tts'.kind = tts.kind /\ tts'.text = tts.text
                                /\ tts'.pc = tts.pc /\ tts'.wpc = "done" /\ tts'.errc = tts.errc
  BY <1>t DEF WriterFails, SpeechStreams, TtsStopped
<1>6. CASE RunTask(cancelled)
  <2>1. tts.wpc = "run" /\ tin' = tin /\ tout' = tout
    BY <1>6 DEF RunTask
  <2>2. CASE rem' = [rem EXCEPT !.run = TRUE] /\ tts' = [tts EXCEPT !.wpc = "await"]
    <3>1. /\ tts' \in SpeechStreams /\ tts'.kind = tts.kind /\ tts'.text = tts.text
          /\ tts'.pc = tts.pc /\ tts'.errc = tts.errc
      BY <1>t, <2>2 DEF SpeechStreams
    <3> QED BY <1>5, <2>1, <2>2, <3>1
  <2>3. CASE WriterFails(cancelled) /\ UNCHANGED rem
    BY <1>5, <1>f, <2>1, <2>3
  <2> QED BY <1>6, <2>2, <2>3 DEF RunTask
<1>7. CASE AwaitStarted(cancelled)
  <2>1. tts.wpc = "await" /\ tin' = tin /\ tout' = tout /\ rem' = rem
        /\ (tts' = [tts EXCEPT !.wpc = "text"] \/ tts' = [tts EXCEPT !.wpc = "done"])
    BY <1>7 DEF AwaitStarted
  <2>2. /\ tts' \in SpeechStreams /\ tts'.kind = tts.kind /\ tts'.text = tts.text
        /\ tts'.pc = tts.pc /\ tts'.errc = tts.errc
    BY <1>t, <2>1 DEF SpeechStreams
  <2> QED BY <1>5, <2>1, <2>2
<1>8. CASE TaskStarted \/ TtsIdle
  <2>1. tin' = tin /\ tout' = tout /\ rem' = rem
        /\ (tts' = [tts EXCEPT !.started = TRUE] \/ tts' = [tts EXCEPT !.can = TRUE, !.quit = TRUE])
    BY <1>8 DEF TaskStarted, TtsIdle
  <2>2. /\ tts' \in SpeechStreams /\ tts'.kind = tts.kind /\ tts'.text = tts.text
        /\ tts'.pc = tts.pc /\ tts'.errc = tts.errc /\ tts'.wpc = tts.wpc
    BY <1>t, <2>1 DEF SpeechStreams
  <2> QED BY <1>5, <2>1, <2>2
<1>9. CASE ContinueTask(cancelled) /\ WriterFails(cancelled)
  <2>1. tin.q # <<>> /\ tin' = [tin EXCEPT !.q = Tail(@)] /\ tout' = tout
    BY <1>9 DEF ContinueTask
  <2>2. tin' \in Channels /\ tin'.closed = tin.closed
    BY <1>t, <2>1, ChanTail
  <2>4. CASE rem' = rem
    BY <1>4, <1>f, <1>9, <1>q, <1>t, <2>1, <2>2, <2>4, QwenQuietAudio DEF QwenQuiet
  <2>5. CASE tts' = tts
    <3>1. tts.wpc = "text" /\ tts'.wpc = "done"
      BY <1>f, <1>9 DEF ContinueTask
    <3> QED BY <2>5, <3>1
  <2> QED BY <1>9, <2>4, <2>5 DEF ContinueTask
<1>10. CASE FinishTask(cancelled) /\ WriterFails(cancelled) /\ UNCHANGED rem
  <2>1. tin' = tin /\ tout' = tout /\ rem' = rem
    BY <1>10 DEF FinishTask
  <2> QED BY <1>5, <1>f, <1>10, <2>1
<1>11. CASE Settle("error", TRUE) \/ Settle("canceled", TRUE)
  <2>1. /\ tts' \in SpeechStreams /\ tts'.kind = tts.kind /\ tts'.text = tts.text /\ tts'.wpc = tts.wpc
        /\ tts'.pc = "closed" /\ tts'.errc \in {"error", "canceled"} /\ tout' \in Channels /\ tout'.q = tout.q
        /\ tin' = tin /\ rem' = rem
    BY <1>11, <1>t, Settled
  <2> QED BY <1>4, <1>q, <1>t, <2>1, QwenQuietAudio DEF QwenQuiet
<1>a. PICK a \in 0..Taken, b \in 0..Taken, c \in 0..Taken, d \in 0..Taken : Chain(a, b, c, d)
  BY <1>4, SpokenHas
<1>n. a \in Nat /\ b \in Nat /\ c \in Nat /\ d \in Nat /\ Taken \in Nat /\ 0 \in Nat
      /\ a <= Taken /\ b <= Taken /\ c <= Taken /\ d <= Taken
  BY <1>1, TakenIn
<1>h. /\ a <= b /\ b <= c /\ c <= d /\ Speaks(told.audio, emitted, 0, a)
      /\ tstage.pc = "drain" => Speaks(tout.q, emitted, a, b)
      /\ tts.pc # "closed" => Speaks(rem.heard, emitted, b, c)
      /\ tts.wpc # "done" => Speaks(tin.q, emitted, c, d)
      /\ wstage.pc = "recv" => Speaks(<<>>, emitted, d, Taken)
      /\ wstage.pc = "write" => Speaks(<<wstage.text>>, emitted, d, Taken)
      /\ tin.closed => SentencesOver /\ wstage.pc = "done" /\ Speaks(<<>>, emitted, d, Taken)
      /\ rem.finish => tin.closed /\ tts.wpc = "done" /\ Speaks(<<>>, emitted, c, Taken)
      /\ tout.closed /\ tts.errc = "ok" => tin.closed /\ tts.pc = "closed" /\ Speaks(<<>>, emitted, b, Taken)
      /\ tstage.pc = "join" \/ told.ttsDone => SentencesOver /\ Speaks(<<>>, emitted, a, Taken)
  BY <1>1, <1>a, ChainHas DEF Held, Taking
<1>b. ASSUME tts' \in SpeechStreams, tts'.kind = tts.kind, tts'.pc = "speak" => tts'.text \in Nat,
             tin' \in Channels, tout' \in Channels, rem' \in Services,
             NEW x \in 0..Taken, NEW y \in 0..Taken, NEW z \in 0..Taken,
             a <= y, y <= z, z <= d, x = a,
             tstage.pc = "drain" => Speaks(tout'.q, emitted, a, y),
             tts'.pc # "closed" => Speaks(rem'.heard, emitted, y, z),
             tts'.wpc # "done" => Speaks(tin'.q, emitted, z, d),
             tin'.closed = tin.closed,
             rem'.finish => tin'.closed /\ tts'.wpc = "done" /\ Speaks(<<>>, emitted, z, Taken),
             tout'.closed /\ tts'.errc = "ok" => tin'.closed /\ tts'.pc = "closed" /\ Speaks(<<>>, emitted, y, Taken)
      PROVE  AudioInv'
  <2>1. TtsTypeOK' /\ Taken' = Taken /\ SentencesOver' = SentencesOver
    BY <1>1, <1>b, <1>q, TypeKept
  <2>2. Held' = rem'.heard /\ Taking' = (tts'.wpc # "done")
    BY <1>1, <1>b DEF Held, Taking
  <2>3. Chain(a, y, z, d)'
    BY <1>b, <1>h, <1>q, <2>1, <2>2, ChainOf
  <2>4. tstage'.pc \in {"drain", "join", "close", "done"}
    BY <1>1, <1>4, <1>q DEF Spoken
  <2>5. /\ told'.ttsDone => tstage'.pc \in {"close", "done"}
        /\ wstage'.pc = "write" => wstage'.text \in Nat
    BY <1>1, <1>q DEF Spoken
  <2> QED BY <1>a, <1>b, <1>4, <1>q, <2>1, <2>3, <2>4, <2>5, SpokenBy
<1>12. CASE ContinueTask(cancelled) /\ ~WriterFails(cancelled)
  <2>1. /\ tts.wpc = "text" /\ tin.q # <<>> /\ tin' = [tin EXCEPT !.q = Tail(@)] /\ tout' = tout
        /\ rem' = [rem EXCEPT !.heard = Append(@, Head(tin.q))] /\ tts' = tts
    BY <1>12 DEF ContinueTask
  <2>2. tin' \in Channels /\ tin'.q = Tail(tin.q) /\ tin'.closed = tin.closed /\ Head(tin.q) \in Nat
    BY <1>t, <2>1, ChanTail
  <2>3. Append(rem.heard, Head(tin.q)) \in Seq(Nat)
    BY <1>t, <2>2, Appended
  <2>4. rem' \in Services /\ rem'.heard = Append(rem.heard, Head(tin.q)) /\ rem'.finish = rem.finish
    BY <1>t, <2>1, <2>3 DEF Services
  <2>5. /\ c < Head(tin.q) /\ Head(tin.q) <= d /\ Speaks(Tail(tin.q), emitted, Head(tin.q), d)
    BY <1>h, <1>n, <1>t, <2>1, SpeaksRest
  <2>6. tts.pc # "closed" => Speaks(Append(rem.heard, Head(tin.q)), emitted, b, Head(tin.q))
    BY <1>h, <1>n, <1>t, <2>1, SpeaksMove
  <2>7. Head(tin.q) \in 0..Taken /\ b <= Head(tin.q)
    BY <1>h, <1>n, <2>2, <2>5
  <2>8. tts'.pc = "speak" => tts'.text \in Nat
    BY <1>1, <2>1 DEF Spoken
  <2> QED BY <1>a, <1>b, <1>h, <1>t, <2>1, <2>2, <2>4, <2>5, <2>6, <2>7, <2>8
<1>13. CASE FinishTask(cancelled) /\ ~(WriterFails(cancelled) /\ UNCHANGED rem)
  <2>1. /\ tts.wpc = "text" /\ tin.q = <<>> /\ tin.closed /\ tin' = tin /\ tout' = tout
        /\ rem' = [rem EXCEPT !.finish = TRUE] /\ tts' = [tts EXCEPT !.wpc = "done"]
    BY <1>13 DEF FinishTask
  <2>2. /\ tts' \in SpeechStreams /\ tts'.kind = tts.kind /\ tts'.pc = tts.pc /\ tts'.wpc = "done"
        /\ tts'.errc = tts.errc /\ tts'.text = tts.text
    BY <1>t, <2>1 DEF SpeechStreams
  <2>6. tts'.pc = "speak" => tts'.text \in Nat
    BY <1>1, <2>2 DEF Spoken
  <2>3. rem' \in Services /\ rem'.heard = rem.heard
    BY <1>t, <2>1 DEF Services
  <2>4. Speaks(<<>>, emitted, c, d) /\ Speaks(<<>>, emitted, d, Taken)
    BY <1>h, <2>1
  <2>5. Speaks(<<>>, emitted, c, Taken)
    BY <1>n, <2>4, SpeaksNothing
  <2> QED BY <1>a, <1>b, <1>h, <1>t, <2>1, <2>2, <2>3, <2>5, <2>6
<1>14. CASE AudioFrame
  <2>1. /\ tts.pc = "read" /\ rem.heard # <<>> /\ tout' = [tout EXCEPT !.q = Append(@, Head(rem.heard))]
        /\ rem' = [rem EXCEPT !.heard = Tail(@)] /\ tts' = tts /\ tin' = tin
    BY <1>14 DEF AudioFrame, Speak
  <2>2. Head(rem.heard) \in Nat /\ Tail(rem.heard) \in Seq(Nat)
    BY <1>t, <2>1, Taken1
  <2>3. tout' \in Channels /\ tout'.q = Append(tout.q, Head(rem.heard)) /\ tout'.closed = tout.closed
    BY <1>t, <2>1, <2>2, ChanAppend
  <2>4. rem' \in Services /\ rem'.heard = Tail(rem.heard) /\ rem'.finish = rem.finish
    BY <1>t, <2>1, <2>2 DEF Services
  <2>5. b < Head(rem.heard) /\ Head(rem.heard) <= c /\ Speaks(Tail(rem.heard), emitted, Head(rem.heard), c)
    BY <1>h, <1>n, <1>t, <2>1, SpeaksRest
  <2>6. tstage.pc = "drain" => Speaks(Append(tout.q, Head(rem.heard)), emitted, a, Head(rem.heard))
    BY <1>h, <1>n, <1>t, <2>1, SpeaksMove
  <2>7. Head(rem.heard) \in 0..Taken /\ a <= Head(rem.heard)
    BY <1>h, <1>n, <2>2, <2>5
  <2> QED BY <1>a, <1>b, <1>h, <1>t, <2>1, <2>3, <2>4, <2>5, <2>6, <2>7
<1>15. CASE Settle("ok", TRUE) /\ rem.finish /\ rem.heard = <<>> /\ tts.pc = "read"
  <2>1. /\ tts' \in SpeechStreams /\ tts'.kind = tts.kind /\ tts'.text = tts.text /\ tts'.wpc = tts.wpc
        /\ tts'.pc = "closed" /\ tout' \in Channels /\ tout'.q = tout.q
        /\ tin' = tin /\ rem' = rem
    BY <1>15, <1>t, Settled
  <2>2. Speaks(<<>>, emitted, b, c) /\ Speaks(<<>>, emitted, c, Taken)
    BY <1>h, <1>15
  <2>3. Speaks(<<>>, emitted, b, Taken)
    BY <1>n, <2>2, SpeaksNothing
  <2> QED BY <1>a, <1>b, <1>h, <1>t, <1>15, <2>1, <2>3
<1>16. ReaderEnds(cancelled) =>
          \/ Settle("ok", TRUE) /\ rem.finish /\ rem.heard = <<>> /\ tts.pc = "read"
          \/ Settle("error", TRUE) \/ Settle("canceled", TRUE)
  BY DEF ReaderEnds
<1> QED BY <1>2, <1>6, <1>7, <1>8, <1>9, <1>10, <1>11, <1>12, <1>13, <1>14, <1>15, <1>16

(* ---- audio: the realtime stream ---------------------------------------------------- *)

\* The steps of the realtime stream.
LEMMA RealtimeAudio ==
    ASSUME AudioInv, sc.tts = "realtime", TtsStep(cancelled) \/ TtsIdle, RestOfTts
    PROVE  AudioInv'
<1>1. TtsTypeOK /\ Spoken /\ tts.kind = "realtime" /\ tts.wpc = "off"
  BY SpokenHas DEF TtsTypeOK
<1>q. /\ sc' = sc /\ told' = told /\ emitted' = emitted /\ sentences' = sentences /\ sstage' = sstage
      /\ tstage' = tstage /\ wstage' = wstage /\ tstage \in TtsStages /\ wstage \in TextStages
  BY <1>1 DEF RestOfTts, stageVars, TtsTypeOK
<1>t. /\ tts \in SpeechStreams /\ tin \in Channels /\ tout \in Channels /\ rem \in Services
      /\ tin.q \in Seq(Nat) /\ tout.q \in Seq(Nat)
      /\ tout.closed \in BOOLEAN /\ tin.closed \in BOOLEAN
  BY <1>1 DEF TtsTypeOK, Channels
<1>2. Connect(cancelled) \/ NextSegment(cancelled) \/ SpeakSegment(cancelled)
  <2>1. ~RunTask(cancelled) /\ ~AwaitStarted(cancelled) /\ ~ContinueTask(cancelled) /\ ~FinishTask(cancelled)
    BY <1>1 DEF RunTask, AwaitStarted, ContinueTask, FinishTask
  <2>2. ~TaskStarted /\ ~AudioFrame /\ ~ReaderEnds(cancelled) /\ ~TtsIdle /\ ~Fetch(cancelled)
    BY <1>1 DEF TaskStarted, AudioFrame, ReaderEnds, TtsIdle, Fetch
  <2> QED BY <2>1, <2>2 DEF TtsStep
<1>3. tts.pc \in {"connect", "next", "speak", "spoken"}
  BY <1>2 DEF Connect, NextSegment, SpeakSegment
<1>4. wstage.pc # "off"
  BY <1>1, <1>3 DEF Spoken, Silence
<1>a. PICK a \in 0..Taken, b \in 0..Taken, c \in 0..Taken, d \in 0..Taken : Chain(a, b, c, d)
  BY <1>4, SpokenHas
<1>n. a \in Nat /\ b \in Nat /\ c \in Nat /\ d \in Nat /\ Taken \in Nat /\ 0 \in Nat
      /\ a <= Taken /\ b <= Taken /\ c <= Taken /\ d <= Taken
  BY <1>1, TakenIn
<1>h. /\ a <= b /\ b <= c /\ c <= d /\ Speaks(told.audio, emitted, 0, a)
      /\ tstage.pc = "drain" => Speaks(tout.q, emitted, a, b)
      /\ tts.pc = "speak" => Speaks(<<tts.text>>, emitted, b, c)
      /\ tts.pc # "speak" => Speaks(<<>>, emitted, b, c)
      /\ Speaks(tin.q, emitted, c, d)
      /\ wstage.pc = "recv" => Speaks(<<>>, emitted, d, Taken)
      /\ wstage.pc = "write" => Speaks(<<wstage.text>>, emitted, d, Taken)
      /\ tin.closed => SentencesOver /\ wstage.pc = "done" /\ Speaks(<<>>, emitted, d, Taken)
      /\ ~rem.finish
      /\ ~(tout.closed /\ tts.errc = "ok")
      /\ tstage.pc = "join" \/ told.ttsDone => SentencesOver /\ Speaks(<<>>, emitted, a, Taken)
  <2>1. tts.pc # "closed"
    BY <1>3
  <2>2. Taking /\ Held = IF tts.pc = "speak" THEN <<tts.text>> ELSE <<>>
    BY <1>1, <2>1 DEF Taking, Held
  <2> QED BY <1>1, <1>a, <2>1, <2>2, ChainHas
<1>b. ASSUME tts' \in SpeechStreams, tts'.kind = tts.kind, tts'.wpc = tts.wpc,
             tts'.pc = "speak" => tts'.text \in Nat,
             tin' \in Channels, tout' \in Channels, rem' = rem, tin'.closed = tin.closed,
             NEW y \in 0..Taken, NEW z \in 0..Taken, a <= y, y <= z, z <= d,
             tstage.pc = "drain" => Speaks(tout'.q, emitted, a, y),
             tts'.pc = "speak" => Speaks(<<tts'.text>>, emitted, y, z),
             tts'.pc \notin {"speak", "closed"} => Speaks(<<>>, emitted, y, z),
             tts'.pc # "closed" => Speaks(tin'.q, emitted, z, d),
             tout'.closed /\ tts'.errc = "ok" => tin'.closed /\ tts'.pc = "closed" /\ Speaks(<<>>, emitted, y, Taken)
      PROVE  AudioInv'
  <2>1. TtsTypeOK' /\ Taken' = Taken /\ SentencesOver' = SentencesOver
    BY <1>1, <1>b, <1>q, <1>t, TypeKept
  <2>2. Taking' = (tts'.pc # "closed") /\ Held' = IF tts'.pc = "speak" THEN <<tts'.text>> ELSE <<>>
    BY <1>1, <1>b DEF Held, Taking
  <2>5. tts'.pc # "closed" => Speaks(Held', emitted, y, z)
    BY <1>b, <2>2
  <2>3. Chain(a, y, z, d)'
    BY <1>b, <1>h, <1>q, <2>1, <2>2, <2>5, ChainOf
  <2>4. /\ tstage'.pc \in {"drain", "join", "close", "done"}
        /\ told'.ttsDone => tstage'.pc \in {"close", "done"}
        /\ wstage'.pc = "write" => wstage'.text \in Nat
    BY <1>1, <1>4, <1>q DEF Spoken
  <2> QED BY <1>a, <1>b, <1>4, <1>q, <2>1, <2>3, <2>4, SpokenBy
<1>5. ASSUME Settle("error", FALSE) \/ Settle("canceled", FALSE) PROVE AudioInv'
  <2>1. /\ tts' \in SpeechStreams /\ tts'.kind = tts.kind /\ tts'.wpc = tts.wpc
        /\ tts'.pc = "closed" /\ tts'.errc \in {"error", "canceled"} /\ tout' \in Channels /\ tout'.q = tout.q
        /\ tin' = tin /\ rem' = rem
    BY <1>5, <1>t, Settled
  <2> QED BY <1>a, <1>b, <1>h, <1>t, <2>1
<1>6. CASE Connect(cancelled)
  <2>1. CASE tts' = [tts EXCEPT !.pc = "next"] /\ UNCHANGED <<tin, tout, rem>>
    <3>1. /\ tts' \in SpeechStreams /\ tts'.kind = tts.kind /\ tts'.wpc = tts.wpc /\ tts'.pc = "next"
          /\ tts'.errc = tts.errc
      BY <1>t, <2>1 DEF SpeechStreams
    <3>2. tts.pc = "connect"
      BY <1>6 DEF Connect
    <3> QED BY <1>a, <1>b, <1>h, <1>t, <2>1, <3>1, <3>2
  <2> QED BY <1>5, <1>6, <2>1 DEF Connect, RunFails
<1>7. CASE NextSegment(cancelled)
  <2>0. tts.pc = "next"
    BY <1>7 DEF NextSegment
  <2>1. CASE /\ tin.q # <<>>
             /\ tts' = [tts EXCEPT !.pc = "speak", !.text = Head(tin.q)]
             /\ tin' = [tin EXCEPT !.q = Tail(@)] /\ UNCHANGED <<tout, rem>>
    <3>1. tin' \in Channels /\ tin'.q = Tail(tin.q) /\ tin'.closed = tin.closed /\ Head(tin.q) \in Nat
      BY <1>t, <2>1, ChanTail
    <3>2. /\ tts' \in SpeechStreams /\ tts'.kind = tts.kind /\ tts'.wpc = tts.wpc /\ tts'.pc = "speak"
          /\ tts'.errc = tts.errc /\ tts'.text = Head(tin.q)
      BY <1>t, <2>1, <3>1 DEF SpeechStreams
    <3>3. /\ c < Head(tin.q) /\ Head(tin.q) <= d /\ Speaks(Tail(tin.q), emitted, Head(tin.q), d)
          /\ Speaks(<<Head(tin.q)>>, emitted, c, Head(tin.q))
      BY <1>h, <1>n, <1>t, <2>1, SpeaksRest
    <3>4. Speaks(<<Head(tin.q)>>, emitted, b, Head(tin.q))
      <4>1. <<>> \in Seq(Nat) /\ Append(<<>>, Head(tin.q)) = <<Head(tin.q)>>
        OBVIOUS
      <4>2. Speaks(<<>>, emitted, b, c)
        BY <1>h, <2>0
      <4>3. Speaks(Append(<<>>, Head(tin.q)), emitted, b, Head(tin.q))
        BY <1>h, <1>n, <3>1, <3>3, <4>1, <4>2, SpeaksJoin
      <4> QED BY <4>1, <4>3
    <3>5. Head(tin.q) \in 0..Taken /\ b <= Head(tin.q)
      BY <1>h, <1>n, <3>1, <3>3
    <3> QED BY <1>a, <1>b, <1>h, <1>t, <2>1, <3>1, <3>2, <3>3, <3>4, <3>5
  <2>2. CASE tin.q = <<>> /\ tin.closed /\ Settle("ok", FALSE)
    <3>1. /\ tts' \in SpeechStreams /\ tts'.kind = tts.kind /\ tts'.wpc = tts.wpc
          /\ tts'.pc = "closed" /\ tout' \in Channels /\ tout'.q = tout.q
          /\ tin' = tin /\ rem' = rem
      BY <1>t, <2>2, Settled
    <3>2. Speaks(<<>>, emitted, b, c) /\ Speaks(<<>>, emitted, c, d) /\ Speaks(<<>>, emitted, d, Taken)
      BY <1>h, <2>0, <2>2
    <3>3. Speaks(<<>>, emitted, c, Taken)
      BY <1>n, <3>2, SpeaksNothing
    <3>4. Speaks(<<>>, emitted, b, Taken)
      BY <1>n, <3>2, <3>3, SpeaksNothing
    <3> QED BY <1>a, <1>b, <1>h, <1>t, <2>2, <3>1, <3>4
  <2> QED BY <1>5, <1>7, <2>1, <2>2 DEF NextSegment
<1>8. CASE SpeakSegment(cancelled)
  <2>1. CASE tts.pc = "speak" /\ Speak(tts.text) /\ tts' = [tts EXCEPT !.pc = "spoken"] /\ UNCHANGED <<tin, rem>>
    <3>0. tts.text \in Nat
      BY <1>1, <2>1 DEF Spoken
    <3>1. tout' \in Channels /\ tout'.q = Append(tout.q, tts.text) /\ tout'.closed = tout.closed
      BY <1>t, <2>1, <3>0, ChanAppend DEF Speak
    <3>2. /\ tts' \in SpeechStreams /\ tts'.kind = tts.kind /\ tts'.wpc = tts.wpc /\ tts'.pc = "spoken"
          /\ tts'.errc = tts.errc
      BY <1>t, <2>1 DEF SpeechStreams
    <3>3. tstage.pc = "drain" => Speaks(Append(tout.q, tts.text), emitted, a, c)
      BY <1>h, <1>n, <1>t, <2>1, <3>0, SpeaksJoin
    <3>4. Speaks(<<>>, emitted, c, c) /\ a <= c /\ c <= c
      BY <1>h, <1>n, SpeaksNone
    <3> QED BY <1>a, <1>b, <1>h, <1>t, <2>1, <3>1, <3>2, <3>3, <3>4
  <2>2. CASE tts.pc = "spoken" /\ tts' = [tts EXCEPT !.pc = "next"] /\ UNCHANGED <<tin, tout, rem>>
    <3>1. /\ tts' \in SpeechStreams /\ tts'.kind = tts.kind /\ tts'.wpc = tts.wpc /\ tts'.pc = "next"
          /\ tts'.errc = tts.errc
      BY <1>t, <2>2 DEF SpeechStreams
    <3> QED BY <1>a, <1>b, <1>h, <1>t, <2>2, <3>1
  <2> QED BY <1>5, <1>8, <2>1, <2>2 DEF SpeakSegment, RunFails
<1> QED BY <1>2, <1>6, <1>7, <1>8

(* ---- audio: ttsIncremental ---------------------------------------------------------- *)

\* A step of the stage that passes nothing on.
StageQuiet ==
    /\ UNCHANGED <<sc, emitted, sentences, sstage, tin, rem>>
    /\ tts' \in SpeechStreams /\ tts'.kind = tts.kind /\ tts'.text = tts.text /\ tts'.pc = tts.pc
    /\ tts'.wpc = tts.wpc /\ tts'.errc = tts.errc
    /\ tout' \in Channels /\ tout'.closed = tout.closed /\ (tstage'.pc = "drain" => tout'.q = tout.q)
    /\ tstage' \in TtsStages /\ wstage' \in TextStages
    /\ tstage'.pc \in {"close", "done"} \/ tstage' = tstage
    /\ wstage' = wstage \/ (wstage'.pc = "done" /\ wstage.pc # "off")
    /\ told'.audio = told.audio
    /\ told'.ttsDone => (told.ttsDone \/ tstage.pc = "join") /\ tstage'.pc \in {"close", "done"}

\* A step of the stage that says nothing new.
LEMMA StageQuietAudio ==
    ASSUME AudioInv, sc.tts \in {"qwen", "realtime"}, wstage.pc # "off", StageQuiet
    PROVE  AudioInv'
<1>1. TtsTypeOK /\ Spoken
  BY SpokenHas
<1>2. PICK a \in 0..Taken, b \in 0..Taken, c \in 0..Taken, d \in 0..Taken : Chain(a, b, c, d)
  BY SpokenHas
<1>q. sc' = sc /\ emitted' = emitted /\ sentences' = sentences /\ sstage' = sstage /\ tin' = tin /\ rem' = rem
  BY DEF StageQuiet
<1>t. tin \in Channels /\ rem \in Services /\ (tts.kind # "qwen" => tts'.wpc = "off")
  BY <1>1 DEF StageQuiet, TtsTypeOK
<1>3. TtsTypeOK' /\ Taken' = Taken /\ SentencesOver' = SentencesOver
  BY <1>1, <1>q, <1>t, TypeKept DEF StageQuiet
<1>4. /\ tts'.kind = tts.kind /\ tts'.text = tts.text /\ tts'.pc = tts.pc
      /\ tts'.wpc = tts.wpc /\ tts'.errc = tts.errc /\ tout'.closed = tout.closed
      /\ tstage'.pc = "drain" => tstage.pc = "drain" /\ tout'.q = tout.q
      /\ tstage'.pc = "join" => tstage.pc = "join"
      /\ wstage'.pc = "recv" => wstage.pc = "recv"
      /\ wstage'.pc = "write" => wstage.pc = "write" /\ wstage'.text = wstage.text
      /\ wstage.pc = "done" => wstage'.pc = "done"
      /\ wstage'.pc # "off" /\ told'.audio = told.audio
      /\ told'.ttsDone => (told.ttsDone \/ tstage.pc = "join") /\ tstage'.pc \in {"close", "done"}
  BY DEF StageQuiet
<1>5. Held' = Held /\ Taking' = Taking
  BY <1>4, <1>q DEF Held, Taking
<1>6. Chain(a, b, c, d)'
  BY <1>2, <1>3, <1>4, <1>5, <1>q, ChainWeaken
<1>7. tstage'.pc \in {"drain", "join", "close", "done"}
  BY <1>1 DEF Spoken, StageQuiet
<1>8. /\ wstage'.pc = "write" => wstage'.text \in Nat
      /\ tts'.pc = "speak" => tts'.text \in Nat
  BY <1>1, <1>4 DEF Spoken
<1> QED BY <1>2, <1>3, <1>4, <1>6, <1>7, <1>8, <1>q, SpokenBy

\* The stream is started, or not.
LEMMA DialAudio ==
    ASSUME AudioInv, told \in Reports, Dial
    PROVE  AudioInv' /\ told' \in Reports
<1>0. /\ tstage.pc = "dial" /\ sentences' = sentences
      /\ sc' = sc /\ emitted' = emitted /\ sstage' = sstage
  BY DEF Dial, TtsFrame
<1>1. sc.tts \in {"qwen", "realtime"}
  <2>1. sc.tts \in {"none", "qwen", "realtime", "speech"}
    BY DEF AudioInv, TtsTypeOK, SpeechStreams
  <2> QED BY <1>0, <2>1 DEF AudioInv, SpokenSingly, Unspoken, TextOnly
<1>2. TtsTypeOK /\ Spoken /\ tts.kind = sc.tts
  BY <1>1, SpokenHas
<1>3. wstage.pc = "off" /\ Taken = 0 /\ Silence
  BY <1>0, <1>2 DEF Spoken
<1>t. /\ tts \in SpeechStreams /\ tin \in Channels /\ tout \in Channels /\ rem \in Services
      /\ tstage \in TtsStages /\ wstage \in TextStages
  BY <1>2 DEF TtsTypeOK
<1>4. CASE Synthesize /\ TGoto("drain") /\ wstage' = [wstage EXCEPT !.pc = "recv"] /\ UNCHANGED told
  <2>1. /\ tts' = NewStream(tts.kind) /\ tin' = OpenChan /\ tout' = OpenChan
        /\ rem' = [rem EXCEPT !.run = FALSE, !.heard = <<>>, !.finish = FALSE]
        /\ tstage' = [tstage EXCEPT !.pc = "drain"] /\ wstage' = [wstage EXCEPT !.pc = "recv"] /\ told' = told
    BY <1>4 DEF Synthesize, TGoto
  <2>2. <<>> \in Seq(Nat)
    OBVIOUS
  <2>3. tin' \in Channels /\ tout' \in Channels /\ tin'.q = <<>> /\ tout'.q = <<>> /\ ~tin'.closed /\ ~tout'.closed
    BY <2>1, <2>2 DEF OpenChan, Channels
  <2>4. rem' \in Services /\ rem'.heard = <<>> /\ ~rem'.finish
    BY <1>t, <2>1, <2>2 DEF Services
  <2>5. tstage' \in TtsStages /\ tstage'.pc = "drain"
    BY <1>t, <2>1 DEF TtsStages
  <2>6. wstage' \in TextStages /\ wstage'.pc = "recv"
    BY <1>t, <2>1 DEF TextStages
  <2>7. /\ tts' \in SpeechStreams /\ tts'.kind = tts.kind /\ tts'.pc \in {"read", "connect"}
        /\ tts.kind # "qwen" => tts'.wpc = "off"
    BY <1>1, <1>2, <2>1 DEF NewStream, SpeechStreams
  <2>8. TtsTypeOK' /\ Taken' = Taken /\ SentencesOver' = SentencesOver
    BY <1>0, <1>2, <2>3, <2>4, <2>5, <2>6, <2>7, TypeKept
  <2>9. Held' = <<>>
    BY <2>4, <2>7 DEF Held
  <2>10. Speaks(<<>>, emitted, 0, 0)
    BY SpeaksNone
  <2>11. told'.audio = <<>> /\ ~told'.ttsDone
    BY <1>3, <2>1 DEF Silence
  <2>12. Chain(0, 0, 0, 0)'
    BY <1>0, <1>3, <2>3, <2>4, <2>5, <2>6, <2>7, <2>8, <2>9, <2>10, <2>11, ChainOf
  <2>13. 0 \in 0..Taken'
    BY <1>3, <2>8
  <2>14. AudioInv'
    BY <1>0, <1>1, <2>5, <2>6, <2>7, <2>8, <2>11, <2>12, <2>13, SpokenBy
  <2> QED BY <2>1, <2>14
<1>5. ASSUME TGoto("done"), UNCHANGED wstage, UNCHANGED ttsVars, told' \in Reports,
             told'.audio = told.audio, told'.ttsDone = told.ttsDone
      PROVE  AudioInv' /\ told' \in Reports
  <2>1. /\ tts' = tts /\ tin' = tin /\ tout' = tout /\ rem' = rem /\ wstage' = wstage
        /\ tstage' = [tstage EXCEPT !.pc = "done"]
    BY <1>5 DEF ttsVars, TGoto
  <2>2. tstage' \in TtsStages /\ tstage'.pc = "done"
    BY <1>t, <2>1 DEF TtsStages
  <2>3. TtsTypeOK'
    BY <1>0, <1>2, <1>t, <2>1, <2>2, TypeKept DEF TtsTypeOK
  <2>4. Silence'
    BY <1>3, <1>5, <2>1 DEF Silence
  <2>5. Spoken'
    BY <1>2, <1>3, <2>1, <2>2, <2>4 DEF Spoken
  <2> QED BY <1>0, <1>1, <1>5, <2>3, <2>5 DEF AudioInv, TextOnly
<1>6. CASE Failed(IF cancelled THEN "canceled" ELSE "error") /\ TGoto("done") /\ UNCHANGED wstage /\ UNCHANGED ttsVars
  BY <1>5, <1>6, FailedTells
<1> QED BY <1>4, <1>5, <1>6 DEF Dial

\* The text goroutine runs only under ttsIncremental.
LEMMA TextRuns ==
    ASSUME AudioInv, wstage.pc \in {"recv", "write"}
    PROVE  /\ sc.tts \in {"qwen", "realtime"} /\ TtsTypeOK /\ Spoken /\ tts.kind = sc.tts
           /\ tstage.pc \in {"drain", "join", "close", "done"}
           /\ \E a, b, c, d \in 0..Taken : Chain(a, b, c, d)
<1>1. sc.tts \in {"none", "qwen", "realtime", "speech"}
  BY DEF AudioInv, TtsTypeOK, SpeechStreams
<1>2. sc.tts \in {"qwen", "realtime"}
  BY <1>1 DEF AudioInv, SpokenSingly, Unspoken, TextOnly
<1>3. TtsTypeOK /\ Spoken /\ tts.kind = sc.tts /\ \E a, b, c, d \in 0..Taken : Chain(a, b, c, d)
  BY <1>2, SpokenHas
<1>4. tstage.pc \in {"drain", "join", "close", "done"}
  BY <1>3 DEF Spoken
<1> QED BY <1>2, <1>3, <1>4

\* The text goroutine takes a sentence.
LEMMA TextTakeAudio ==
    ASSUME AudioInv, TextTake
    PROVE  AudioInv'
<1>0. /\ wstage.pc = "recv" /\ TakeSentence /\ sc' = sc /\ emitted' = emitted /\ sstage' = sstage
      /\ told' = told /\ tstage' = tstage /\ tts' = tts /\ tin' = tin /\ tout' = tout /\ rem' = rem
      /\ wstage' = IF Blank(emitted[Head(sentences.q)]) THEN wstage
                   ELSE [wstage EXCEPT !.pc = "write", !.text = Head(sentences.q)]
  BY DEF TextTake, TtsFrame, ttsVars
<1>1. /\ sc.tts \in {"qwen", "realtime"} /\ TtsTypeOK /\ Spoken
      /\ tstage.pc \in {"drain", "join", "close", "done"}
  BY <1>0, TextRuns
<1>2. PICK a \in 0..Taken, b \in 0..Taken, c \in 0..Taken, d \in 0..Taken : Chain(a, b, c, d)
  BY <1>0, TextRuns
<1>3. Taken' = Taken + 1 /\ Head(sentences.q) = Taken + 1 /\ Taken' \in Nat /\ ~SentencesOver
  BY <1>0, <1>1, SentenceTaken
<1>n. a \in Nat /\ b \in Nat /\ c \in Nat /\ d \in Nat /\ Taken \in Nat /\ d <= Taken
  BY <1>1, TakenIn
<1>w. \/ wstage' = wstage /\ Blank(emitted[Taken + 1])
      \/ wstage' = [wstage EXCEPT !.pc = "write", !.text = Taken + 1] /\ ~Blank(emitted[Taken + 1])
  BY <1>0, <1>3
<1>v. wstage \in TextStages /\ tstage \in TtsStages
  BY <1>1 DEF TtsTypeOK
<1>4. /\ wstage' \in TextStages
      /\ \/ wstage'.pc = "recv" /\ Blank(emitted[Taken + 1])
         \/ wstage'.pc = "write" /\ wstage'.text = Taken + 1 /\ ~Blank(emitted[Taken + 1])
  <2>1. Taken + 1 \in Nat
    BY <1>n
  <2> HIDE DEF Taken
  <2> QED BY <1>0, <1>w, <1>v, <2>1 DEF TextStages
<1>5. TtsTypeOK'
  BY <1>0, <1>1, <1>4, <1>v, TypeTaken
<1>h. /\ a <= b /\ b <= c /\ c <= d /\ Speaks(told.audio, emitted, 0, a)
      /\ tstage.pc = "drain" => Speaks(tout.q, emitted, a, b)
      /\ tts.pc # "closed" => Speaks(Held, emitted, b, c)
      /\ Taking => Speaks(tin.q, emitted, c, d)
      /\ Speaks(<<>>, emitted, d, Taken)
      /\ ~tin.closed /\ ~rem.finish /\ ~(tout.closed /\ tts.errc = "ok")
      /\ tstage.pc # "join" /\ ~told.ttsDone
  BY <1>0, <1>2, <1>3, ChainHas
<1>6. /\ Blank(emitted[Taken + 1]) => Speaks(<<>>, emitted, d, Taken + 1)
      /\ ~Blank(emitted[Taken + 1]) => Speaks(<<Taken + 1>>, emitted, d, Taken + 1)
  BY <1>h, <1>n, SpeaksNext
<1>7. Held' = Held /\ Taking' = Taking
  BY <1>0 DEF Held, Taking
<1>8. Chain(a, b, c, d)'
  <2>1. wstage'.pc = "recv" => Mute(d)'
    BY <1>0, <1>3, <1>4, <1>6 DEF Mute
  <2>2. wstage'.pc = "write" => Speaks(<<wstage'.text>>, emitted', d, Taken')
    BY <1>0, <1>3, <1>4, <1>6
  <2> QED BY <1>0, <1>h, <1>7, <2>1, <2>2 DEF Chain
<1>9. /\ a \in 0..Taken' /\ b \in 0..Taken' /\ c \in 0..Taken' /\ d \in 0..Taken'
  BY <1>3, <1>n, <1>h
<1>10. /\ wstage'.pc # "off" /\ (wstage'.pc = "write" => wstage'.text \in Nat)
       /\ tts'.pc = "speak" => tts'.text \in Nat
  BY <1>0, <1>1, <1>4, <1>n DEF Spoken
<1> QED BY <1>0, <1>1, <1>5, <1>8, <1>9, <1>10, <1>h, SpokenBy

\* ... writes it to the stream, or is refused.
LEMMA TextWriteAudio ==
    ASSUME AudioInv, TextWrite
    PROVE  AudioInv'
<1>0. /\ wstage.pc = "write" /\ sc' = sc /\ emitted' = emitted /\ sstage' = sstage /\ sentences' = sentences
      /\ told' = told /\ tstage' = tstage
  BY DEF TextWrite, TtsFrame
<1>1. /\ sc.tts \in {"qwen", "realtime"} /\ TtsTypeOK /\ Spoken
      /\ tstage.pc \in {"drain", "join", "close", "done"}
  BY <1>0, TextRuns
<1>t. /\ tts \in SpeechStreams /\ tin \in Channels /\ tout \in Channels /\ rem \in Services
      /\ tstage \in TtsStages /\ wstage \in TextStages /\ tin.q \in Seq(Nat)
      /\ tts.kind # "qwen" => tts.wpc = "off"
  BY <1>1 DEF TtsTypeOK, Channels
<1>2. CASE WriteText(cancelled, wstage.text) /\ wstage' = [wstage EXCEPT !.pc = "recv"]
  <2>0. /\ tts' = tts /\ tout' = tout /\ rem' = rem /\ tin' = [tin EXCEPT !.q = Append(@, wstage.text)]
        /\ wstage.text \in Nat
    BY <1>0, <1>1, <1>2 DEF WriteText, Spoken
  <2>1. tin' \in Channels /\ tin'.q = Append(tin.q, wstage.text) /\ tin'.closed = tin.closed
    BY <1>t, <2>0, ChanAppend
  <2>2. wstage' \in TextStages /\ wstage'.pc = "recv"
    BY <1>t, <1>2 DEF TextStages
  <2>3. PICK a \in 0..Taken, b \in 0..Taken, c \in 0..Taken, d \in 0..Taken : Chain(a, b, c, d)
    BY <1>0, TextRuns
  <2>n. a \in Nat /\ b \in Nat /\ c \in Nat /\ d \in Nat /\ Taken \in Nat /\ d <= Taken
    BY <1>1, TakenIn
  <2>4. TtsTypeOK' /\ Taken' = Taken /\ SentencesOver' = SentencesOver
    BY <1>0, <1>1, <1>t, <2>0, <2>1, <2>2, TypeKept
  <2>h. /\ a <= b /\ b <= c /\ c <= d /\ Speaks(told.audio, emitted, 0, a)
        /\ tstage.pc = "drain" => Speaks(tout.q, emitted, a, b)
        /\ tts.pc # "closed" => Speaks(Held, emitted, b, c)
        /\ Taking => Speaks(tin.q, emitted, c, d)
        /\ Speaks(<<wstage.text>>, emitted, d, Taken)
        /\ ~tin.closed /\ ~rem.finish /\ ~(tout.closed /\ tts.errc = "ok")
        /\ tstage.pc = "join" \/ told.ttsDone => SentencesOver /\ Speaks(<<>>, emitted, a, Taken)
    BY <1>0, <2>3, ChainHas
  <2>5. Taking => Speaks(Append(tin.q, wstage.text), emitted, c, Taken)
    BY <1>t, <2>0, <2>n, <2>h, SpeaksJoin
  <2>6. Speaks(<<>>, emitted, Taken, Taken) /\ c <= Taken
    BY <2>n, <2>h, SpeaksNone
  <2>7. Held' = Held /\ Taking' = Taking
    BY <2>0 DEF Held, Taking
  <2>8. PICK t : t = Taken
    OBVIOUS
  <2>9. Chain(a, b, c, t)'
    BY <1>0, <2>0, <2>1, <2>2, <2>4, <2>h, <2>5, <2>6, <2>7, <2>8, ChainOf
  <2>10. t \in 0..Taken' /\ a \in 0..Taken' /\ b \in 0..Taken' /\ c \in 0..Taken'
    BY <2>3, <2>4, <2>n, <2>8
  <2>11. /\ tts'.pc = "speak" => tts'.text \in Nat
         /\ told'.ttsDone => tstage'.pc \in {"close", "done"}
    BY <1>0, <1>1, <2>0 DEF Spoken
  <2> QED BY <1>0, <1>1, <2>2, <2>4, <2>9, <2>10, <2>11, SpokenBy
<1>3. ASSUME NEW why \in WriteErrors(cancelled), wstage' = [wstage EXCEPT !.pc = "done", !.err = why], UNCHANGED ttsVars
      PROVE  AudioInv'
  <2>1. why \in {"closed", "canceled"}
    BY DEF WriteErrors
  <2>2. wstage' \in TextStages /\ wstage'.pc = "done"
    BY <1>3, <1>t, <2>1 DEF TextStages
  <2>3. tts' = tts /\ tin' = tin /\ tout' = tout /\ rem' = rem
    BY <1>3 DEF ttsVars
  <2>4. told'.ttsDone => told.ttsDone /\ tstage'.pc \in {"close", "done"}
    BY <1>0, <1>1 DEF Spoken
  <2>5. StageQuiet
    BY <1>0, <1>t, <2>2, <2>3, <2>4 DEF StageQuiet
  <2> QED BY <1>0, <1>1, <2>5, StageQuietAudio
<1> QED BY <1>2, <1>3 DEF TextWrite

\* ... and ends the input.
LEMMA TextEndAudio ==
    ASSUME AudioInv, TextEnd
    PROVE  AudioInv'
<1>0. /\ wstage.pc = "recv" /\ SentencesOver /\ sc' = sc /\ emitted' = emitted /\ sstage' = sstage
      /\ sentences' = sentences /\ told' = told /\ tstage' = tstage /\ tout' = tout /\ rem' = rem
      /\ tin' = [tin EXCEPT !.closed = TRUE] /\ wstage' = [wstage EXCEPT !.pc = "done", !.err = "ok"]
      /\ tts' = [tts EXCEPT !.ended = TRUE, !.pc = IF tts.kind = "speech" THEN "post" ELSE @]
  BY DEF TextEnd, TtsFrame, EndInput
<1>1. /\ sc.tts \in {"qwen", "realtime"} /\ TtsTypeOK /\ Spoken /\ tts.kind = sc.tts
      /\ tstage.pc \in {"drain", "join", "close", "done"}
  BY <1>0, TextRuns
<1>t. /\ tts \in SpeechStreams /\ tin \in Channels /\ tout \in Channels /\ rem \in Services
      /\ tstage \in TtsStages /\ wstage \in TextStages /\ (tts.kind # "qwen" => tts.wpc = "off")
  BY <1>1 DEF TtsTypeOK
<1>2. /\ tts' \in SpeechStreams /\ tts'.kind = tts.kind /\ tts'.pc = tts.pc /\ tts'.wpc = tts.wpc
      /\ tts'.errc = tts.errc /\ tts'.text = tts.text
  <2>1. tts' = [tts EXCEPT !.ended = TRUE, !.pc = tts.pc]
    BY <1>0, <1>1
  <2> QED BY <1>t, <2>1 DEF SpeechStreams
<1>3. tin' \in Channels /\ tin'.q = tin.q /\ tin'.closed
  BY <1>0, <1>t DEF Channels
<1>4. wstage' \in TextStages /\ wstage'.pc = "done"
  BY <1>0, <1>t DEF TextStages
<1>5. PICK a \in 0..Taken, b \in 0..Taken, c \in 0..Taken, d \in 0..Taken : Chain(a, b, c, d)
  BY <1>0, TextRuns
<1>6. TtsTypeOK' /\ Taken' = Taken /\ SentencesOver' = SentencesOver
  BY <1>0, <1>1, <1>t, <1>2, <1>3, <1>4, TypeKept
<1>h. /\ a <= b /\ b <= c /\ c <= d /\ Speaks(told.audio, emitted, 0, a)
      /\ tstage.pc = "drain" => Speaks(tout.q, emitted, a, b)
      /\ tts.pc # "closed" => Speaks(Held, emitted, b, c)
      /\ Taking => Speaks(tin.q, emitted, c, d)
      /\ Speaks(<<>>, emitted, d, Taken)
      /\ ~tin.closed /\ ~rem.finish /\ ~(tout.closed /\ tts.errc = "ok")
      /\ tstage.pc = "join" \/ told.ttsDone => SentencesOver /\ Speaks(<<>>, emitted, a, Taken)
  BY <1>0, <1>5, ChainHas
<1>7. Held' = Held /\ Taking' = Taking
  BY <1>0, <1>2 DEF Held, Taking
<1>8. Chain(a, b, c, d)'
  BY <1>0, <1>2, <1>3, <1>4, <1>6, <1>7, <1>h, ChainOf
<1>9. /\ tts'.pc = "speak" => tts'.text \in Nat
      /\ told'.ttsDone => tstage'.pc \in {"close", "done"}
  BY <1>0, <1>1, <1>2 DEF Spoken
<1> QED BY <1>0, <1>1, <1>4, <1>5, <1>6, <1>8, <1>9, SpokenBy

\* drain, under ttsIncremental.
LEMMA DrainAudio ==
    ASSUME AudioInv, told \in Reports, sc.tts \in {"qwen", "realtime"},
           Drain \/ DrainEnds \/ Join \/ StageCloses
    PROVE  AudioInv' /\ told' \in Reports
<1>0. /\ sc' = sc /\ emitted' = emitted /\ sstage' = sstage /\ sentences' = sentences /\ wstage' = wstage
      /\ tstage.pc \in {"drain", "join", "close"} /\ tin' = tin /\ rem' = rem
  BY DEF Drain, DrainEnds, Join, StageCloses, TtsFrame, ReadChunk, CloseStream, ttsVars
<1>1. TtsTypeOK /\ Spoken /\ tts.kind = sc.tts
  BY SpokenHas
<1>2. wstage.pc # "off"
  BY <1>0, <1>1 DEF Spoken
<1>t. /\ tts \in SpeechStreams /\ tin \in Channels /\ tout \in Channels /\ rem \in Services
      /\ tstage \in TtsStages /\ wstage \in TextStages /\ (tts.kind # "qwen" => tts.wpc = "off")
      /\ tout.q \in Seq(Nat) /\ told.audio \in Seq(Nat)
  BY <1>1 DEF TtsTypeOK, Channels, Reports
<1>3. PICK a \in 0..Taken, b \in 0..Taken, c \in 0..Taken, d \in 0..Taken : Chain(a, b, c, d)
  BY <1>2, SpokenHas
<1>n. a \in Nat /\ b \in Nat /\ c \in Nat /\ d \in Nat /\ Taken \in Nat /\ 0 \in Nat
      /\ a <= Taken /\ b <= Taken /\ c <= Taken /\ d <= Taken /\ 0 <= a
  BY <1>1, TakenIn
<1>h. /\ a <= b /\ b <= c /\ c <= d /\ Speaks(told.audio, emitted, 0, a)
      /\ tstage.pc = "drain" => Speaks(tout.q, emitted, a, b)
      /\ tts.pc # "closed" => Speaks(Held, emitted, b, c)
      /\ Taking => Speaks(tin.q, emitted, c, d)
      /\ wstage.pc = "recv" => Speaks(<<>>, emitted, d, Taken)
      /\ wstage.pc = "write" => Speaks(<<wstage.text>>, emitted, d, Taken)
      /\ tin.closed => SentencesOver /\ wstage.pc = "done" /\ Speaks(<<>>, emitted, d, Taken)
      /\ rem.finish => tin.closed /\ tts.wpc = "done" /\ Speaks(<<>>, emitted, c, Taken)
      /\ tout.closed /\ tts.errc = "ok" => tin.closed /\ tts.pc = "closed" /\ Speaks(<<>>, emitted, b, Taken)
      /\ tstage.pc = "join" \/ told.ttsDone => SentencesOver /\ Speaks(<<>>, emitted, a, Taken)
  BY <1>3, ChainHas
<1>d. told.ttsDone => tstage.pc = "close"
  BY <1>0, <1>1 DEF Spoken
<1>s. /\ wstage.pc = "write" => wstage.text \in Nat
      /\ tts.pc = "speak" => tts.text \in Nat
  BY <1>1 DEF Spoken
\* A step that passes nothing on.
<1>4. ASSUME told' \in Reports, told'.audio = told.audio,
             told'.ttsDone => told.ttsDone \/ tstage.pc = "join",
             TGoto("close") \/ TGoto("done"),
             tts' = tts \/ tts' = [tts EXCEPT !.can = TRUE],
             tout' \in Channels, tout'.closed = tout.closed
      PROVE  AudioInv' /\ told' \in Reports
  <2>1. tstage' \in TtsStages /\ tstage'.pc \in {"close", "done"}
    BY <1>4, <1>t DEF TGoto, TtsStages
  <2>2. /\ tts' \in SpeechStreams /\ tts'.kind = tts.kind /\ tts'.text = tts.text /\ tts'.pc = tts.pc
        /\ tts'.wpc = tts.wpc /\ tts'.errc = tts.errc
    BY <1>4, <1>t DEF SpeechStreams
  <2>3. StageQuiet
    BY <1>0, <1>4, <1>t, <2>1, <2>2 DEF StageQuiet
  <2> QED BY <1>2, <1>4, <2>3, StageQuietAudio
<1>5. CASE Drain
  <2>0. /\ tstage.pc = "drain" /\ tout.q # <<>> /\ tout' = [tout EXCEPT !.q = Tail(@)] /\ tts' = tts
    BY <1>5 DEF Drain, ReadChunk
  <2>1. tout' \in Channels /\ tout'.q = Tail(tout.q) /\ tout'.closed = tout.closed /\ Head(tout.q) \in Nat
    BY <1>t, <2>0, ChanTail
  <2>2. CASE told' = [told EXCEPT !.audio = Append(@, Head(tout.q))] /\ UNCHANGED tstage
    <3>0. Append(told.audio, Head(tout.q)) \in Seq(Nat)
      BY <1>t, <2>1, Appended
    <3>1. /\ told' \in Reports /\ told'.audio = Append(told.audio, Head(tout.q)) /\ told'.ttsDone = told.ttsDone
      BY <2>2, <3>0 DEF Reports
    <3>2. PICK x : x = Head(tout.q)
      OBVIOUS
    <3>3. /\ a < x /\ x <= b /\ Speaks(told'.audio, emitted, 0, x) /\ Speaks(tout'.q, emitted, x, b) /\ x \in Nat
      BY <1>h, <1>n, <1>t, <2>0, <2>1, <3>1, <3>2, SpeaksMove
    <3>4. TtsTypeOK' /\ Taken' = Taken /\ SentencesOver' = SentencesOver
      BY <1>0, <1>1, <1>t, <2>0, <2>1, <2>2, TypeKept
    <3>5. Held' = Held /\ Taking' = Taking
      BY <1>0, <2>0 DEF Held, Taking
    <3>6. ~told'.ttsDone /\ tstage'.pc = "drain"
      BY <1>d, <2>0, <2>2, <3>1
    <3>7. Chain(x, b, c, d)'
      BY <1>0, <1>h, <2>0, <2>1, <2>2, <3>3, <3>4, <3>5, <3>6, ChainOf
    <3>8. x \in 0..Taken' /\ b \in 0..Taken' /\ c \in 0..Taken' /\ d \in 0..Taken'
      BY <1>n, <3>3, <3>4
    <3>9. AudioInv'
      BY <1>0, <1>2, <1>s, <2>0, <3>4, <3>6, <3>7, <3>8, SpokenBy
    <3> QED BY <3>1, <3>9
  <2>3. CASE TGoto("close") /\ UNCHANGED told
    BY <1>4, <2>0, <2>1, <2>3
  <2> QED BY <1>5, <2>2, <2>3 DEF Drain
<1>6. CASE DrainEnds
  <2>0. tstage.pc = "drain" /\ tts' = tts /\ tout' = tout
    BY <1>6 DEF DrainEnds, ttsVars
  <2>1. CASE "ok" \in ReadOutcomes(cancelled) /\ TGoto("join") /\ UNCHANGED told
    <3>1. tout.closed /\ tout.q = <<>> /\ tts.errc = "ok"
      BY <2>1 DEF ReadOutcomes
    <3>2. Speaks(<<>>, emitted, a, b) /\ Speaks(<<>>, emitted, b, Taken) /\ SentencesOver
      BY <1>h, <2>0, <3>1
    <3>3. Speaks(<<>>, emitted, a, Taken)
      BY <1>n, <3>2, SpeaksNothing
    <3>4. tstage' \in TtsStages /\ tstage'.pc = "join" /\ told' = told
      BY <1>t, <2>1 DEF TGoto, TtsStages
    <3>5. TtsTypeOK' /\ Taken' = Taken /\ SentencesOver' = SentencesOver
      BY <1>0, <1>1, <1>t, <2>0, <3>4, TypeKept
    <3>6. Held' = Held /\ Taking' = Taking
      BY <1>0, <2>0 DEF Held, Taking
    <3>7. Chain(a, b, c, d)'
      BY <1>0, <1>h, <2>0, <3>2, <3>3, <3>4, <3>5, <3>6, ChainOf
    <3>8. ~told'.ttsDone
      BY <1>d, <2>0, <3>4
    <3>9. AudioInv'
      BY <1>0, <1>2, <1>3, <1>s, <2>0, <3>4, <3>5, <3>7, <3>8, SpokenBy
    <3> QED BY <3>4, <3>9
  <2>2. ASSUME NEW o, Failed(o), TGoto("close") PROVE AudioInv' /\ told' \in Reports
    <3>1. told' \in Reports /\ told'.audio = told.audio /\ told'.ttsDone = told.ttsDone
      BY <2>2, FailedTells
    <3> QED BY <1>4, <1>t, <2>0, <2>2, <3>1
  <2>3. Incremental
    BY DEF Incremental
  <2> QED BY <1>6, <2>1, <2>2, <2>3 DEF DrainEnds
<1>7. CASE Join
  <2>0. tstage.pc = "join" /\ TGoto("close") /\ tts' = tts /\ tout' = tout
    BY <1>7 DEF Join, ttsVars
  <2>1. told' \in Reports /\ told'.audio = told.audio
    <3>1. CASE told' = [told EXCEPT !.ttsDone = TRUE]
      BY <3>1 DEF Reports
    <3>2. CASE told' = told
      BY <3>2
    <3>3. CASE Failed(wstage.err)
      BY <3>3, FailedTells
    <3> QED BY <1>7, <3>1, <3>2, <3>3 DEF Join
  <2> QED BY <1>4, <1>t, <2>0, <2>1
<1>8. CASE StageCloses
  <2>0. TGoto("done") /\ tts' = [tts EXCEPT !.can = TRUE] /\ tout' = tout /\ told' = told
    BY <1>8 DEF StageCloses, CloseStream
  <2> QED BY <1>4, <1>t, <2>0
<1> QED BY <1>5, <1>6, <1>7, <1>8

(* ---- audio: ttsPerSentence ----------------------------------------------------------- *)

\* What ttsPerSentence's invariant needs.
LEMMA SinglyBy ==
    ASSUME sc.tts = "speech", sc' = sc, TtsTypeOK', NEW a, NEW b, a \in 0..Taken', b \in 0..Taken', Solo(a, b)',
           tstage'.pc \in {"next", "synthesize", "drain", "segment", "close", "done"},
           told'.ttsDone => tstage'.pc = "done" /\ SentencesOver',
           wstage'.pc = "off", tts'.pc \in {"off", "post", "body", "tail", "closed"},
           tts'.pc \in {"post", "body"} => Len(tin'.q) = 1
    PROVE  AudioInv'
<1>1. \E x, y \in 0..Taken' : Solo(x, y)'
  OBVIOUS
<1>2. SpokenSingly'
  BY <1>1 DEF SpokenSingly
<1> QED BY <1>2 DEF AudioInv, TextOnly, Incremental

\* ... and what it gives.
LEMMA SinglyHas ==
    ASSUME AudioInv, sc.tts = "speech"
    PROVE  /\ TtsTypeOK /\ SpokenSingly /\ tts.kind = "speech" /\ tts.wpc = "off" /\ wstage.pc = "off"
           /\ \E a, b \in 0..Taken : Solo(a, b)
BY DEF AudioInv, TtsTypeOK, SpokenSingly

\* The parts of a chain of one sentence.
LEMMA SoloHas ==
    ASSUME NEW a, NEW b, Solo(a, b)
    PROVE  /\ a <= b /\ Speaks(told.audio, emitted, 0, a)
           /\ tstage.pc \in {"next", "segment"} \/ told.ttsDone => Speaks(<<>>, emitted, a, Taken)
           /\ tstage.pc = "synthesize" => tstage.hand \in Nat /\ Speaks(<<tstage.hand>>, emitted, a, Taken)
           /\ tstage.pc = "drain" =>
                 /\ Speaks(tout.q, emitted, a, b)
                 /\ tts.pc \in {"post", "body"} => Speaks(tin.q, emitted, b, Taken)
                 /\ tts.pc = "tail" \/ (tout.closed /\ tts.errc = "ok") => Speaks(<<>>, emitted, b, Taken)
BY DEF Solo, Mute

\* ... and what makes one.
LEMMA SoloOf ==
    ASSUME NEW a, NEW b, emitted' = emitted, NEW t, Taken' = t,
           a <= b, Speaks(told'.audio, emitted, 0, a),
           tstage'.pc \in {"next", "segment"} \/ told'.ttsDone => Speaks(<<>>, emitted, a, t),
           tstage'.pc = "synthesize" => tstage'.hand \in Nat /\ Speaks(<<tstage'.hand>>, emitted, a, t),
           tstage'.pc = "drain" =>
                 /\ Speaks(tout'.q, emitted, a, b)
                 /\ tts'.pc \in {"post", "body"} => Speaks(tin'.q, emitted, b, t)
                 /\ tts'.pc = "tail" \/ (tout'.closed /\ tts'.errc = "ok") => Speaks(<<>>, emitted, b, t)
    PROVE  Solo(a, b)'
<1>1. \A x : Mute(x)' = Speaks(<<>>, emitted, x, t)
  BY DEF Mute
<1> QED BY <1>1 DEF Solo

\* The steps of the speech stream.
LEMMA SpeechAudio ==
    ASSUME AudioInv, sc.tts = "speech", TtsStep(cancelled) \/ TtsIdle, RestOfTts
    PROVE  AudioInv'
<1>1. TtsTypeOK /\ SpokenSingly /\ tts.kind = "speech" /\ tts.wpc = "off" /\ wstage.pc = "off"
  BY SinglyHas
<1>q. /\ sc' = sc /\ told' = told /\ emitted' = emitted /\ sentences' = sentences /\ sstage' = sstage
      /\ tstage' = tstage /\ wstage' = wstage /\ tstage \in TtsStages /\ wstage \in TextStages
  BY <1>1 DEF RestOfTts, stageVars, TtsTypeOK
<1>t. /\ tts \in SpeechStreams /\ tin \in Channels /\ tout \in Channels /\ rem \in Services
      /\ tin.q \in Seq(Nat) /\ tout.q \in Seq(Nat)
  BY <1>1 DEF TtsTypeOK, Channels
<1>2. Fetch(cancelled) \/ TtsIdle
  <2>1. ~RunTask(cancelled) /\ ~AwaitStarted(cancelled) /\ ~ContinueTask(cancelled) /\ ~FinishTask(cancelled)
    BY <1>1 DEF RunTask, AwaitStarted, ContinueTask, FinishTask
  <2>2. ~TaskStarted /\ ~AudioFrame /\ ~ReaderEnds(cancelled)
    BY <1>1 DEF TaskStarted, AudioFrame, ReaderEnds
  <2>3. ~Connect(cancelled) /\ ~NextSegment(cancelled) /\ ~SpeakSegment(cancelled)
    BY <1>1 DEF Connect, NextSegment, SpeakSegment
  <2> QED BY <2>1, <2>2, <2>3 DEF TtsStep
<1>a. PICK a \in 0..Taken, b \in 0..Taken : Solo(a, b)
  BY SinglyHas
<1>n. a \in Nat /\ b \in Nat /\ Taken \in Nat /\ a <= Taken /\ b <= Taken
  BY <1>1, TakenIn
<1>h. /\ a <= b /\ Speaks(told.audio, emitted, 0, a)
      /\ tstage.pc \in {"next", "segment"} \/ told.ttsDone => Speaks(<<>>, emitted, a, Taken)
      /\ tstage.pc = "synthesize" => tstage.hand \in Nat /\ Speaks(<<tstage.hand>>, emitted, a, Taken)
      /\ tstage.pc = "drain" =>
            /\ Speaks(tout.q, emitted, a, b)
            /\ tts.pc \in {"post", "body"} => Speaks(tin.q, emitted, b, Taken)
            /\ tts.pc = "tail" \/ (tout.closed /\ tts.errc = "ok") => Speaks(<<>>, emitted, b, Taken)
  BY <1>a, SoloHas
<1>b. ASSUME tts' \in SpeechStreams, tts'.kind = tts.kind, tts'.wpc = tts.wpc,
             tts'.pc \in {"post", "body", "tail", "closed"},
             tts'.pc \in {"post", "body"} => tts.pc \in {"post", "body"},
             tout' \in Channels, tin' = tin, rem' = rem, NEW y \in 0..Taken, a <= y,
             tstage.pc = "drain" =>
                /\ Speaks(tout'.q, emitted, a, y)
                /\ tts'.pc \in {"post", "body"} => Speaks(tin.q, emitted, y, Taken)
                /\ tts'.pc = "tail" \/ (tout'.closed /\ tts'.errc = "ok") => Speaks(<<>>, emitted, y, Taken)
      PROVE  AudioInv'
  <2>1. TtsTypeOK' /\ Taken' = Taken /\ SentencesOver' = SentencesOver
    BY <1>1, <1>b, <1>q, <1>t, TypeKept
  <2>2. Solo(a, y)'
    <3>1. PICK t : t = Taken
      OBVIOUS
    <3> QED BY <1>b, <1>h, <1>q, <2>1, <3>1, SoloOf
  <2>3. /\ tstage'.pc \in {"next", "synthesize", "drain", "segment", "close", "done"}
        /\ told'.ttsDone => tstage'.pc = "done" /\ SentencesOver
        /\ tts'.pc \in {"post", "body"} => Len(tin'.q) = 1
    BY <1>1, <1>b, <1>q DEF SpokenSingly
  <2> QED BY <1>1, <1>a, <1>b, <1>q, <2>1, <2>2, <2>3, SinglyBy
<1>3. ASSUME \/ tts' = [tts EXCEPT !.can = TRUE, !.quit = TRUE]
             \/ tts' = [tts EXCEPT !.pc = "body"] /\ tts.pc = "post",
             tts.pc \in {"post", "body", "tail"},
             tin' = tin, tout' = tout, rem' = rem
      PROVE  AudioInv'
  <2>1. /\ tts' \in SpeechStreams /\ tts'.kind = tts.kind /\ tts'.wpc = tts.wpc /\ tts'.errc = tts.errc
        /\ tts'.pc = tts.pc \/ (tts'.pc = "body" /\ tts.pc = "post")
    BY <1>3, <1>t DEF SpeechStreams
  <2>2. /\ tts'.pc \in {"post", "body", "tail"}
        /\ tts'.pc \in {"post", "body"} => tts.pc \in {"post", "body"}
        /\ tts'.pc = "tail" => tts.pc = "tail"
    BY <1>3, <2>1
  <2> QED BY <1>a, <1>b, <1>h, <1>t, <1>3, <2>1, <2>2
<1>4. CASE TtsIdle
  BY <1>1, <1>3, <1>4 DEF TtsIdle
<1>5. CASE Fetch(cancelled)
  <2>1. CASE tts.pc = "post" /\ tts' = [tts EXCEPT !.pc = "body"] /\ UNCHANGED <<tin, tout, rem>>
    BY <1>3, <2>1
  <2>2. CASE tts.pc = "body" /\ Speak(Head(tin.q)) /\ tts' = [tts EXCEPT !.pc = "tail"] /\ UNCHANGED <<tin, rem>>
    <3>1. Len(tin.q) = 1
      BY <1>1, <2>2 DEF SpokenSingly
    <3>2. Head(tin.q) \in Nat /\ tin.q = <<Head(tin.q)>>
      BY <1>t, <3>1
    <3>3. tout' \in Channels /\ tout'.q = Append(tout.q, Head(tin.q)) /\ tout'.closed = tout.closed
      BY <1>t, <2>2, <3>2, ChanAppend DEF Speak
    <3>4. /\ tts' \in SpeechStreams /\ tts'.kind = tts.kind /\ tts'.wpc = tts.wpc /\ tts'.pc = "tail"
      BY <1>t, <2>2 DEF SpeechStreams
    <3>5. tstage.pc = "drain" => Speaks(Append(tout.q, Head(tin.q)), emitted, a, Taken)
      <4>1. tstage.pc = "drain" => Speaks(<<Head(tin.q)>>, emitted, b, Taken) /\ Speaks(tout.q, emitted, a, b)
        BY <1>h, <2>2, <3>2
      <4> QED BY <1>h, <1>n, <1>t, <3>2, <4>1, SpeaksJoin
    <3>6. Speaks(<<>>, emitted, Taken, Taken)
      BY <1>n, SpeaksNone
    <3>7. PICK t \in 0..Taken : t = Taken /\ a <= t
      BY <1>n
    <3> QED BY <1>b, <2>2, <3>3, <3>4, <3>5, <3>6, <3>7
  <2>3. CASE tts.pc = "tail" /\ Settle("ok", FALSE)
    <3>1. /\ tts' \in SpeechStreams /\ tts'.kind = tts.kind /\ tts'.wpc = tts.wpc
          /\ tts'.pc = "closed" /\ tout' \in Channels /\ tout'.q = tout.q /\ tin' = tin /\ rem' = rem
      BY <1>t, <2>3, Settled
    <3> QED BY <1>a, <1>b, <1>h, <2>3, <3>1
  <2>4. CASE Settle("error", FALSE) \/ Settle("canceled", FALSE)
    <3>1. /\ tts' \in SpeechStreams /\ tts'.kind = tts.kind /\ tts'.wpc = tts.wpc /\ tts'.errc \in {"error", "canceled"}
          /\ tts'.pc = "closed" /\ tout' \in Channels /\ tout'.q = tout.q /\ tin' = tin /\ rem' = rem
      BY <1>t, <2>4, Settled
    <3> QED BY <1>a, <1>b, <1>h, <3>1
  <2> QED BY <1>5, <2>1, <2>2, <2>3, <2>4 DEF Fetch, RunFails
<1> QED BY <1>2, <1>4, <1>5

\* The steps of the stage.
LEMMA SinglyAudio ==
    ASSUME AudioInv, told \in Reports, sc.tts = "speech",
           \/ Drain \/ DrainEnds \/ StageCloses \/ NextSentence \/ SynthesizeOne \/ Segment
    PROVE  AudioInv' /\ told' \in Reports
<1>0. /\ sc' = sc /\ emitted' = emitted /\ sstage' = sstage /\ wstage' = wstage
  BY DEF Drain, DrainEnds, StageCloses, NextSentence, SynthesizeOne, Segment, TtsFrame
<1>1. TtsTypeOK /\ SpokenSingly /\ tts.kind = "speech" /\ tts.wpc = "off" /\ wstage.pc = "off"
  BY SinglyHas
<1>t. /\ tts \in SpeechStreams /\ tin \in Channels /\ tout \in Channels /\ rem \in Services
      /\ tstage \in TtsStages /\ wstage \in TextStages
      /\ tin.q \in Seq(Nat) /\ tout.q \in Seq(Nat) /\ told.audio \in Seq(Nat)
  BY <1>1 DEF TtsTypeOK, Channels, Reports
<1>a. PICK a \in 0..Taken, b \in 0..Taken : Solo(a, b)
  BY SinglyHas
<1>n. a \in Nat /\ b \in Nat /\ Taken \in Nat /\ a <= Taken /\ b <= Taken /\ 0 \in Nat /\ 0 <= a
  BY <1>1, TakenIn
<1>h. /\ a <= b /\ Speaks(told.audio, emitted, 0, a)
      /\ tstage.pc \in {"next", "segment"} \/ told.ttsDone => Speaks(<<>>, emitted, a, Taken)
      /\ tstage.pc = "synthesize" => tstage.hand \in Nat /\ Speaks(<<tstage.hand>>, emitted, a, Taken)
      /\ tstage.pc = "drain" =>
            /\ Speaks(tout.q, emitted, a, b)
            /\ tts.pc \in {"post", "body"} => Speaks(tin.q, emitted, b, Taken)
            /\ tts.pc = "tail" \/ (tout.closed /\ tts.errc = "ok") => Speaks(<<>>, emitted, b, Taken)
  BY <1>a, SoloHas
<1>p. /\ told.ttsDone => tstage.pc = "done" /\ SentencesOver
      /\ tts.pc \in {"off", "post", "body", "tail", "closed"}
      /\ tts.pc \in {"post", "body"} => Len(tin.q) = 1
  BY <1>1 DEF SpokenSingly
\* A step that leaves the channel of sentences and the stream's progress alone.
<1>b. ASSUME sentences' = sentences, tin' = tin, rem' = rem, tout' \in Channels, tout'.closed = tout.closed,
             tts' \in SpeechStreams, tts'.kind = tts.kind, tts'.wpc = tts.wpc, tts'.pc = tts.pc, tts'.errc = tts.errc,
             tstage' \in TtsStages, NEW x \in 0..Taken, x <= b, Speaks(told'.audio, emitted, 0, x),
             tstage'.pc \in {"next", "drain", "segment", "close", "done"},
             tstage'.pc \in {"next", "segment"} \/ told'.ttsDone => Speaks(<<>>, emitted, x, Taken),
             tstage'.pc = "drain" => tstage.pc = "drain" /\ Speaks(tout'.q, emitted, x, b),
             told'.ttsDone => tstage'.pc = "done" /\ SentencesOver
      PROVE  AudioInv'
  <2>1. TtsTypeOK' /\ Taken' = Taken /\ SentencesOver' = SentencesOver
    BY <1>0, <1>1, <1>b, <1>t, TypeKept
  <2>2. Solo(x, b)'
    <3>1. PICK t : t = Taken
      OBVIOUS
    <3> QED BY <1>0, <1>b, <1>h, <2>1, <3>1, SoloOf
  <2> QED BY <1>0, <1>1, <1>a, <1>b, <1>p, <2>1, <2>2, SinglyBy
<1>2. CASE Drain
  <2>0. /\ tstage.pc = "drain" /\ tout.q # <<>> /\ tout' = [tout EXCEPT !.q = Tail(@)] /\ tts' = tts
        /\ sentences' = sentences /\ tin' = tin /\ rem' = rem
    BY <1>2 DEF Drain, ReadChunk
  <2>1. tout' \in Channels /\ tout'.q = Tail(tout.q) /\ tout'.closed = tout.closed /\ Head(tout.q) \in Nat
    BY <1>t, <2>0, ChanTail
  <2>2. CASE told' = [told EXCEPT !.audio = Append(@, Head(tout.q))] /\ UNCHANGED tstage
    <3>0. Append(told.audio, Head(tout.q)) \in Seq(Nat)
      BY <1>t, <2>1, Appended
    <3>1. /\ told' \in Reports /\ told'.audio = Append(told.audio, Head(tout.q)) /\ told'.ttsDone = told.ttsDone
      BY <2>2, <3>0 DEF Reports
    <3>2. PICK x : x = Head(tout.q)
      OBVIOUS
    <3>3. /\ a < x /\ x <= b /\ Speaks(told'.audio, emitted, 0, x) /\ Speaks(tout'.q, emitted, x, b) /\ x \in Nat
      <4>1. Speaks(told.audio, emitted, 0, a) /\ Speaks(tout.q, emitted, a, b)
        BY <1>h, <2>0
      <4>2. /\ a < Head(tout.q) /\ Head(tout.q) <= b
            /\ Speaks(Append(told.audio, Head(tout.q)), emitted, 0, Head(tout.q))
            /\ Speaks(Tail(tout.q), emitted, Head(tout.q), b)
        BY <1>n, <1>t, <2>0, <4>1, SpeaksMove
      <4> QED BY <2>1, <3>1, <3>2, <4>2
    <3>4. x \in 0..Taken
      BY <1>n, <3>3
    <3>5. ~told'.ttsDone /\ tstage' = tstage
      BY <1>p, <2>0, <2>2, <3>1
    <3>6. AudioInv'
      BY <1>b, <1>t, <2>0, <2>1, <3>3, <3>4, <3>5
    <3> QED BY <3>1, <3>6
  <2>3. CASE TGoto("close") /\ UNCHANGED told
    <3>1. tstage' \in TtsStages /\ tstage'.pc = "close" /\ told' = told /\ ~told.ttsDone
      BY <1>p, <1>t, <2>0, <2>3 DEF TGoto, TtsStages
    <3> QED BY <1>a, <1>b, <1>h, <1>t, <2>0, <2>1, <3>1
  <2> QED BY <1>2, <2>2, <2>3 DEF Drain
<1>3. CASE DrainEnds
  <2>0. tstage.pc = "drain" /\ tts' = tts /\ tout' = tout /\ sentences' = sentences /\ tin' = tin /\ rem' = rem
        /\ ~told.ttsDone
    BY <1>3, <1>p DEF DrainEnds, ttsVars
  <2>1. CASE "ok" \in ReadOutcomes(cancelled) /\ TGoto("segment") /\ UNCHANGED told
    <3>1. tout.closed /\ tout.q = <<>> /\ tts.errc = "ok"
      BY <2>1 DEF ReadOutcomes
    <3>2. Speaks(<<>>, emitted, a, b) /\ Speaks(<<>>, emitted, b, Taken)
      BY <1>h, <2>0, <3>1
    <3>3. Speaks(<<>>, emitted, a, Taken)
      BY <1>n, <3>2, SpeaksNothing
    <3>4. tstage' \in TtsStages /\ tstage'.pc = "segment" /\ told' = told
      BY <1>t, <2>1 DEF TGoto, TtsStages
    <3> QED BY <1>a, <1>b, <1>h, <1>t, <2>0, <3>3, <3>4
  <2>2. ASSUME NEW o, Failed(o), TGoto("close") PROVE AudioInv' /\ told' \in Reports
    <3>1. told' \in Reports /\ told'.audio = told.audio /\ told'.ttsDone = told.ttsDone
      BY <2>2, FailedTells
    <3>2. tstage' \in TtsStages /\ tstage'.pc = "close"
      BY <1>t, <2>2 DEF TGoto, TtsStages
    <3> QED BY <1>a, <1>b, <1>h, <1>t, <2>0, <3>1, <3>2
  <2>3. ~Incremental
    BY DEF Incremental
  <2> QED BY <1>3, <2>1, <2>2, <2>3 DEF DrainEnds
<1>4. CASE StageCloses \/ Segment
  <2>0. /\ tts' = [tts EXCEPT !.can = TRUE] /\ tout' = tout /\ sentences' = sentences /\ tin' = tin /\ rem' = rem
        /\ told' = told
        /\ \/ tstage.pc = "close" /\ TGoto("done")
           \/ tstage.pc = "segment" /\ (TGoto("next") \/ TGoto("done"))
    BY <1>4 DEF StageCloses, Segment, CloseStream
  <2>1. /\ tts' \in SpeechStreams /\ tts'.kind = tts.kind /\ tts'.wpc = tts.wpc /\ tts'.pc = tts.pc
        /\ tts'.errc = tts.errc
    BY <1>t, <2>0 DEF SpeechStreams
  <2>2. /\ tstage' \in TtsStages /\ tstage'.pc \in {"next", "done"} /\ ~told.ttsDone
        /\ tstage'.pc = "next" => tstage.pc = "segment"
    BY <1>p, <1>t, <2>0 DEF TGoto, TtsStages
  <2> QED BY <1>a, <1>b, <1>h, <1>t, <2>0, <2>1, <2>2
<1>5. CASE NextSentence
  <2>0. tstage.pc = "next" /\ tts' = tts /\ tin' = tin /\ tout' = tout /\ rem' = rem /\ ~told.ttsDone
        /\ Speaks(<<>>, emitted, a, Taken)
    BY <1>5, <1>p, <1>h DEF NextSentence, ttsVars
  <2>1. CASE /\ TakeSentence /\ UNCHANGED told
             /\ tstage' = [pc |-> IF Blank(emitted[Head(sentences.q)]) THEN "segment" ELSE "synthesize",
                           hand |-> Head(sentences.q)]
    <3>1. Taken' = Taken + 1 /\ Head(sentences.q) = Taken + 1 /\ Taken' \in Nat
      BY <1>0, <1>1, <2>1, SentenceTaken
    <3>2. PICK t : t = Taken + 1
      OBVIOUS
    <3>3. t \in Nat /\ Taken' = t /\ tstage' = [pc |-> IF Blank(emitted[t]) THEN "segment" ELSE "synthesize", hand |-> t]
      BY <2>1, <3>1, <3>2
    <3>4. /\ tstage' \in TtsStages /\ tstage'.hand = t
          /\ tstage'.pc = IF Blank(emitted[t]) THEN "segment" ELSE "synthesize"
      BY <3>3 DEF TtsStages
    <3>5. TtsTypeOK'
      BY <1>0, <1>1, <1>t, <2>0, <2>1, <3>4, TypeTaken
    <3>6. /\ Blank(emitted[t]) => Speaks(<<>>, emitted, a, t)
          /\ ~Blank(emitted[t]) => Speaks(<<t>>, emitted, a, t)
      BY <1>n, <2>0, <3>2, SpeaksNext
    <3>7. Solo(a, b)'
      BY <1>0, <1>h, <2>0, <2>1, <3>3, <3>4, <3>6, SoloOf
    <3>8. a \in 0..Taken' /\ b \in 0..Taken'
      BY <1>n, <3>1
    <3>9. AudioInv'
      BY <1>0, <1>1, <1>p, <2>0, <2>1, <3>4, <3>5, <3>7, <3>8, SinglyBy
    <3> QED BY <2>1, <3>9
  <2>2. CASE /\ SentencesOver /\ TGoto("done") /\ UNCHANGED sentences
             /\ (told' = [told EXCEPT !.ttsDone = TRUE] \/ UNCHANGED told)
    <3>1. told' \in Reports /\ told'.audio = told.audio
      BY <2>2 DEF Reports
    <3>2. tstage' \in TtsStages /\ tstage'.pc = "done"
      BY <1>t, <2>2 DEF TGoto, TtsStages
    <3> QED BY <1>a, <1>b, <1>h, <1>t, <2>0, <2>2, <3>1, <3>2
  <2> QED BY <1>5, <2>1, <2>2 DEF NextSentence
<1>6. CASE SynthesizeOne
  <2>0. tstage.pc = "synthesize" /\ told' = told /\ sentences' = sentences /\ ~told.ttsDone
        /\ tstage.hand \in Nat /\ Speaks(<<tstage.hand>>, emitted, a, Taken)
    BY <1>6, <1>p, <1>h DEF SynthesizeOne
  <2>1. CASE /\ tts' = [NewStream(tts.kind) EXCEPT !.ended = TRUE, !.pc = "post"]
             /\ tin' = [q |-> <<tstage.hand>>, closed |-> TRUE] /\ tout' = OpenChan /\ UNCHANGED rem
             /\ TGoto("drain")
    <3>0. <<>> \in Seq(Nat) /\ <<tstage.hand>> \in Seq(Nat) /\ Len(<<tstage.hand>>) = 1
      BY <2>0
    <3>1. tin' \in Channels /\ tin'.q = <<tstage.hand>> /\ tout' \in Channels /\ tout'.q = <<>> /\ ~tout'.closed
      BY <2>1, <3>0 DEF Channels, OpenChan
    <3>2. /\ tts' \in SpeechStreams /\ tts'.kind = tts.kind /\ tts'.wpc = "off" /\ tts'.pc = "post"
      BY <1>1, <2>1 DEF NewStream, SpeechStreams
    <3>3. tstage' \in TtsStages /\ tstage'.pc = "drain"
      BY <1>t, <2>1 DEF TGoto, TtsStages
    <3>4. TtsTypeOK' /\ Taken' = Taken /\ SentencesOver' = SentencesOver
      BY <1>0, <1>1, <1>t, <2>0, <2>1, <3>1, <3>2, <3>3, TypeKept
    <3>5. Speaks(<<>>, emitted, a, a) /\ a <= a
      BY <1>n, SpeaksNone
    <3>6. Solo(a, a)'
      <4>1. PICK t : t = Taken
        OBVIOUS
      <4> QED BY <1>0, <1>h, <2>0, <3>1, <3>2, <3>3, <3>4, <3>5, <4>1, SoloOf
    <3>7. AudioInv'
      BY <1>0, <1>1, <1>a, <2>0, <3>0, <3>1, <3>2, <3>3, <3>4, <3>6, SinglyBy
    <3> QED BY <2>0, <3>7
  <2>2. CASE TGoto("done") /\ UNCHANGED ttsVars
    <3>1. tstage' \in TtsStages /\ tstage'.pc = "done"
      BY <1>t, <2>2 DEF TGoto, TtsStages
    <3>2. tts' = tts /\ tin' = tin /\ tout' = tout /\ rem' = rem
      BY <2>2 DEF ttsVars
    <3> QED BY <1>a, <1>b, <1>h, <1>t, <2>0, <3>1, <3>2
  <2> QED BY <1>6, <2>1, <2>2 DEF SynthesizeOne
<1> QED BY <1>2, <1>3, <1>4, <1>5, <1>6


(* ---- audio: a text-only response ------------------------------------------------------- *)

\* No stream runs, and the sentences are thrown away.
LEMMA UnspokenAudio ==
    ASSUME AudioInv, sc.tts = "none", Discard
    PROVE  AudioInv'
<1>1. TtsTypeOK /\ Unspoken
  BY DEF AudioInv, TextOnly
<1>2. /\ sc' = sc /\ emitted' = emitted /\ sstage' = sstage /\ told' = told /\ wstage' = wstage
      /\ tts' = tts /\ tin' = tin /\ tout' = tout /\ rem' = rem
  BY DEF Discard, TtsFrame, ttsVars
<1>t. /\ tts \in SpeechStreams /\ tin \in Channels /\ tout \in Channels /\ rem \in Services
      /\ tstage \in TtsStages /\ wstage \in TextStages /\ (tts.kind # "qwen" => tts.wpc = "off")
  BY <1>1 DEF TtsTypeOK
<1>3. TtsTypeOK' /\ tstage'.pc \in {"discard", "done"}
  <2>1. CASE TakeSentence /\ UNCHANGED tstage
    <3>1. TtsTypeOK'
      BY <1>1, <1>2, <1>t, <2>1, TypeTaken
    <3> QED BY <1>1, <2>1, <3>1 DEF Unspoken
  <2>2. CASE SentencesOver /\ TGoto("done") /\ UNCHANGED sentences
    <3>1. tstage' \in TtsStages /\ tstage'.pc = "done"
      BY <1>t, <2>2 DEF TGoto, TtsStages
    <3>2. TtsTypeOK'
      BY <1>1, <1>2, <1>t, <2>2, <3>1, TypeKept
    <3> QED BY <3>1, <3>2
  <2> QED BY <2>1, <2>2 DEF Discard
<1>4. Unspoken'
  BY <1>1, <1>2, <1>3 DEF Unspoken, Silence
<1> QED BY <1>2, <1>3, <1>4 DEF AudioInv, Incremental

\* A stream that was not started does nothing.
LEMMA NoStreamNoStep ==
    ASSUME AudioInv, sc.tts = "none"
    PROVE  ~TtsStep(cancelled) /\ ~TtsIdle
<1>1. tts.kind = "none" /\ tts.wpc = "off"
  BY DEF AudioInv, TtsTypeOK
<1>2. ~RunTask(cancelled) /\ ~AwaitStarted(cancelled) /\ ~ContinueTask(cancelled) /\ ~FinishTask(cancelled)
  BY <1>1 DEF RunTask, AwaitStarted, ContinueTask, FinishTask
<1>3. ~TaskStarted /\ ~AudioFrame /\ ~ReaderEnds(cancelled)
  BY <1>1 DEF TaskStarted, AudioFrame, ReaderEnds
<1>4. ~Connect(cancelled) /\ ~NextSegment(cancelled) /\ ~SpeakSegment(cancelled) /\ ~Fetch(cancelled) /\ ~TtsIdle
  BY <1>1 DEF Connect, NextSegment, SpeakSegment, Fetch, TtsIdle
<1> QED BY <1>2, <1>3, <1>4 DEF TtsStep

\* The steps of a stream, whichever it is.
LEMMA StreamAudio ==
    ASSUME AudioInv, TtsStep(cancelled) \/ TtsIdle, RestOfTts
    PROVE  AudioInv'
<1>1. sc.tts \in {"none", "qwen", "realtime", "speech"}
  BY DEF AudioInv, TtsTypeOK, SpeechStreams
<1> QED BY <1>1, QwenAudio, RealtimeAudio, SpeechAudio, NoStreamNoStep

\* The steps of ttsStage, whichever way it goes.
LEMMA StageAudio ==
    ASSUME AudioInv, told \in Reports, TtsStageStep
    PROVE  AudioInv' /\ told' \in Reports
<1>1. sc.tts \in {"none", "qwen", "realtime", "speech"}
  BY DEF AudioInv, TtsTypeOK, SpeechStreams
<1>2. CASE Dial
  BY <1>2, DialAudio
<1>3. CASE sc.tts \in {"qwen", "realtime"} /\ ~Dial
  <2>1. tstage.pc \in {"dial", "drain", "join", "close", "done"}
    BY <1>3 DEF AudioInv, Incremental, Spoken
  <2>2. Drain \/ DrainEnds \/ Join \/ StageCloses
    BY <1>3, <2>1 DEF TtsStageStep, Discard, NextSentence, SynthesizeOne, Segment
  <2> QED BY <1>3, <2>2, DrainAudio
<1>4. CASE sc.tts = "speech" /\ ~Dial
  <2>1. tstage.pc \in {"next", "synthesize", "drain", "segment", "close", "done"}
    BY <1>4 DEF AudioInv, SpokenSingly
  <2>2. Drain \/ DrainEnds \/ StageCloses \/ NextSentence \/ SynthesizeOne \/ Segment
    BY <1>4, <2>1 DEF TtsStageStep, Discard, Join
  <2> QED BY <1>4, <2>2, SinglyAudio
<1>5. CASE sc.tts = "none" /\ ~Dial
  <2>1. tstage.pc \in {"discard", "done"}
    BY <1>5 DEF AudioInv, TextOnly, Unspoken
  <2>2. Discard
    BY <1>5, <2>1 DEF TtsStageStep, Drain, DrainEnds, Join, StageCloses, NextSentence, SynthesizeOne, Segment
  <2>3. told' = told
    BY <2>2 DEF Discard
  <2> QED BY <1>5, <2>2, <2>3, UnspokenAudio
<1> QED BY <1>1, <1>2, <1>3, <1>4, <1>5

\* ttsStage reports no call.
LEMMA StageCalls ==
    ASSUME CallInv, TtsStageStep, told' \in Reports
    PROVE  CallInv'
<1>0. told \in Reports /\ cancelled \in BOOLEAN
  BY DEF CallInv, LlmTypeOK
<1>1. sc' = sc /\ llm' = llm /\ lout' = lout /\ cancelled' = cancelled
  BY DEF TtsStageStep, Discard, Dial, Drain, DrainEnds, Join, StageCloses, NextSentence, SynthesizeOne, Segment,
         TtsFrame, llmVars
<1>2. told'.calls = told.calls
  <2>1. CASE Discard \/ StageCloses \/ SynthesizeOne \/ Segment
    BY <2>1 DEF Discard, StageCloses, SynthesizeOne, Segment
  <2>2. CASE Dial
    <3>1. told' = told \/ \E why : Failed(why)
      BY <2>2 DEF Dial
    <3> QED BY <1>0, <3>1, FailedTells
  <2>3. CASE Drain
    <3>1. told' = told \/ told' = [told EXCEPT !.audio = Append(@, Head(tout.q))]
      BY <2>3 DEF Drain
    <3> QED BY <1>0, <3>1 DEF Reports
  <2>4. CASE DrainEnds
    <3>1. told' = told \/ \E why : Failed(why)
      BY <2>4 DEF DrainEnds
    <3> QED BY <1>0, <3>1, FailedTells
  <2>5. CASE Join \/ NextSentence
    <3>1. told' = told \/ told' = [told EXCEPT !.ttsDone = TRUE] \/ \E why : Failed(why)
      BY <2>5 DEF Join, NextSentence
    <3> QED BY <1>0, <3>1, FailedTells DEF Reports
  <2> QED BY <2>1, <2>2, <2>3, <2>4, <2>5 DEF TtsStageStep
<1> QED BY <1>0, <1>1, <1>2, CallsAlone


-----------------------------------------------------------------------------
(* ---- every step ------------------------------------------------------------------ *)

\* What the goroutines hold and what the actor was told agree.
IInv == CallInv /\ AudioInv

\* At first nothing was read, said or told.
LEMMA InitIInv == Init => IInv
<1> SUFFICES ASSUME Init PROVE IInv
  OBVIOUS
<1>1. sc \in Scenarios /\ sc \in Requests /\ sc.script # <<>> /\ CallsComplete(sc.script)
  BY PipelineAssumption DEF Init
<1>2. /\ sc.tts \in {"none", "qwen", "realtime", "speech"} /\ sc.script \in Seq(Lines)
      /\ sc.faulty \in BOOLEAN /\ sc.silent \in BOOLEAN
  BY <1>1 DEF Requests
<1>3. /\ llm = [pc |-> "post", script |-> sc.script, pend |-> <<>>, calls |-> <<>>,
                finish |-> NoFinish, body |-> FALSE, idle |-> FALSE]
      /\ lout = [q |-> <<>>, closed |-> FALSE]
      /\ told = [text |-> <<>>, calls |-> <<>>, audio |-> <<>>, llmDone |-> FALSE, ttsDone |-> FALSE, err |-> FALSE]
      /\ cancelled = FALSE
  BY DEF Init, LlmInit
<1>e. /\ \A S : <<>> \in Seq(S)
      /\ Len(<<>>) = 0 /\ 1..0 = {} /\ \A x \in Nat : x - x = 0
  OBVIOUS
<1>4. LlmTypeOK
  <2>1. llm \in LlmStreams /\ llm.script # <<>>
    BY <1>1, <1>2, <1>3, <1>e DEF LlmStreams
  <2>2. told \in Reports
    BY <1>3, <1>e DEF Reports
  <2>3. lout \in [q : Seq(LlmChunks), closed : BOOLEAN]
    BY <1>3, <1>e
  <2> QED BY <1>1, <1>3, <2>1, <2>2, <2>3 DEF LlmTypeOK
<1>5. Gathered
  <2>1. llm.script = sc.script /\ llm.calls = <<>> /\ llm.finish = NoFinish /\ Len(sc.script) \in Nat
    BY <1>2, <1>3
  <2>2. Read = 0
    BY <1>e, <2>1 DEF Read
  <2>3. \A k \in 1..Len(sc.script) : 0 + k = k
    BY <2>1
  <2> QED BY <1>e, <2>1, <2>2, <2>3 DEF Gathered
<1>6. Passing
  <2>1. llm.pc = "post" /\ lout.q = <<>> /\ told.calls = <<>>
    BY <1>3
  <2> QED BY <1>e, <2>1 DEF Passing, NoCall
<1>7. /\ tts.kind = sc.tts /\ tts.pc = "off" /\ tts.wpc = "off" /\ tts \in SpeechStreams
      /\ tin \in Channels /\ tout \in Channels /\ rem \in Services
  BY <1>2, <1>e DEF Init, TtsInit, NewStream, SpeechStreams, OpenChan, Channels, Services
<1>8. /\ tstage \in TtsStages /\ wstage \in TextStages /\ wstage.pc = "off"
      /\ tstage.pc = IF TextOnly THEN "discard" ELSE IF Incremental THEN "dial" ELSE "next"
  BY DEF Init, TtsStages, TextStages
<1>9. /\ emitted = <<>> /\ sentences.q = <<>> /\ ~sentences.closed /\ sentences \in Channels /\ "pc" \in DOMAIN sstage
  BY <1>e DEF Init, OpenChan, Channels
<1>10. Taken = 0
  BY <1>9 DEF Taken
<1>11. TtsTypeOK
  <2>1. \E S : emitted \in Seq(S)
    BY <1>9
  <2>2. Len(sentences.q) <= Len(emitted) /\ 1..Len(sentences.q) = {}
    BY <1>9
  <2> QED BY <1>7, <1>8, <1>9, <2>1, <2>2 DEF TtsTypeOK
<1>12. Silence
  BY <1>3, <1>7 DEF Silence
<1>13. Incremental => Spoken
  <2> SUFFICES ASSUME Incremental PROVE Spoken
    OBVIOUS
  <2>1. tstage.pc = "dial"
    BY <1>8 DEF Incremental, TextOnly
  <2> QED BY <1>7, <1>8, <1>10, <1>12, <2>1 DEF Spoken, Silence
<1>14. sc.tts = "speech" => SpokenSingly
  <2> SUFFICES ASSUME sc.tts = "speech" PROVE SpokenSingly
    OBVIOUS
  <2>1. tstage.pc = "next"
    BY <1>8 DEF Incremental, TextOnly
  <2>2. Speaks(<<>>, emitted, 0, 0) /\ 0 \in 0..0 /\ 0 <= 0
    BY SpeaksNone
  <2>3. Solo(0, 0)
    BY <1>3, <1>10, <2>1, <2>2 DEF Solo, Mute
  <2>4. \E a, b \in 0..Taken : Solo(a, b)
    BY <1>10, <2>2, <2>3
  <2> QED BY <1>3, <1>7, <1>8, <2>1, <2>4 DEF SpokenSingly
<1>15. TextOnly => Unspoken
  BY <1>8, <1>12 DEF Unspoken
<1> QED BY <1>4, <1>5, <1>6, <1>11, <1>13, <1>14, <1>15 DEF IInv, CallInv, AudioInv

\* Every step keeps that.
LEMMA NextIInv == IInv /\ [Next]_vars => IInv'
<1> SUFFICES ASSUME IInv, [Next]_vars PROVE IInv'
  OBVIOUS
<1>0. CallInv /\ AudioInv
  BY DEF IInv
<1>t. /\ told \in Reports /\ cancelled \in BOOLEAN /\ sentences \in Channels /\ "pc" \in DOMAIN sstage
      /\ sentences.closed => sstage.pc = "done"
  BY <1>0 DEF CallInv, LlmTypeOK, AudioInv, TtsTypeOK
\* A step that moves no sentence and speaks none.
<1>a. ASSUME UNCHANGED <<sc, emitted, tstage, wstage, sentences, sstage>>, UNCHANGED ttsVars,
             told'.audio = told.audio, told'.ttsDone = told.ttsDone
      PROVE  AudioInv'
  BY <1>0, <1>a, <1>t, AudioAlone
<1>1. CASE LlmGoes \/ LlmStalls
  <2>0. UNCHANGED <<sc, cancelled, told>> /\ UNCHANGED <<emitted, tstage, wstage, sentences, sstage>> /\ UNCHANGED ttsVars
    BY <1>1 DEF LlmGoes, LlmStalls, RestOfLlm, stageVars
  <2>1. AudioInv'
    BY <1>a, <2>0
  <2>2. CallInv'
    BY <1>0, <1>1, <2>0, LlmReadsCalls, LlmSendsCalls, LlmEndsCalls DEF LlmGoes, LlmStalls, LlmStep
  <2> QED BY <2>1, <2>2 DEF IInv
<1>2. CASE TtsGoes \/ TtsStalls
  <2>0. UNCHANGED <<sc, cancelled, told>> /\ UNCHANGED <<llm, lout>>
    BY <1>2 DEF TtsGoes, TtsStalls, RestOfTts, llmVars
  <2>1. AudioInv'
    BY <1>0, <1>2, StreamAudio DEF TtsGoes, TtsStalls
  <2>2. CallInv'
    BY <1>0, <1>t, <2>0, CallsAlone
  <2> QED BY <2>1, <2>2 DEF IInv
<1>3. CASE LlmStageStep
  <2>0. UNCHANGED <<sc, cancelled, emitted, tstage, wstage, sentences, sstage>> /\ UNCHANGED ttsVars
    BY <1>3 DEF LlmStageStep, LlmChunk, PassText, LlmClosed, LlmStageFrame
  <2>1. CASE LlmChunk
    <3>1. told'.audio = told.audio /\ told'.ttsDone = told.ttsDone
      <4>1. \/ told' = told \/ \E why : Failed(why)
            \/ \E x : told' = [told EXCEPT !.text = x]
            \/ \E x : told' = [told EXCEPT !.calls = x]
            \/ told' = [told EXCEPT !.llmDone = TRUE]
        BY <2>1 DEF LlmChunk
      <4> QED BY <1>t, <4>1, FailedTells DEF Reports
    <3> QED BY <1>0, <1>a, <2>0, <2>1, <3>1, LlmChunkCalls DEF IInv
  <2>2. CASE PassText \/ LlmClosed
    <3>1. UNCHANGED <<llm, lout>> /\ (told' = told \/ Failed("no done"))
      BY <2>2 DEF PassText, LlmClosed, llmVars
    <3>2. /\ told' \in Reports /\ told'.calls = told.calls /\ told'.audio = told.audio
          /\ told'.ttsDone = told.ttsDone
      BY <1>t, <3>1, FailedTells
    <3>3. CallInv'
      BY <1>0, <1>t, <2>0, <3>1, <3>2, CallsAlone
    <3> QED BY <1>a, <2>0, <3>2, <3>3 DEF IInv
  <2> QED BY <1>3, <2>1, <2>2 DEF LlmStageStep
<1>4. CASE SentencerStep
  <2>0. SentencerFrame
    BY <1>4 DEF SentencerStep, SplitChunk, CutSentence, EmitSentence, FlushRest
  <2>1. UNCHANGED <<sc, cancelled, told, tstage, wstage, llm, lout>> /\ UNCHANGED ttsVars
    BY <2>0 DEF SentencerFrame, llmVars
  <2>2. CallInv'
    BY <1>0, <1>t, <2>1, CallsAlone
  <2>3. CASE SentencerEnds /\ emitted' = emitted
    <3>1. sentences' = [sentences EXCEPT !.closed = TRUE] /\ sstage' = [sstage EXCEPT !.pc = "done"]
      BY <2>3 DEF SentencerEnds
    <3>2. sentences' \in Channels /\ sentences'.q = sentences.q
      BY <1>t, <3>1 DEF Channels
    <3>3. sentences.closed => sentences'.closed
      BY <1>t, <3>1 DEF Channels
    <3>4. "pc" \in DOMAIN sstage' /\ sstage'.pc = "done"
      BY <1>t, <3>1
    <3>5. AudioInv'
      BY <1>0, <2>1, <2>3, <3>2, <3>3, <3>4, AudioAlone
    <3> QED BY <2>2, <3>5 DEF IInv
  <2>4. CASE /\ emitted' = emitted /\ sentences' = sentences /\ sstage.pc # "done"
             /\ DOMAIN sstage' = DOMAIN sstage
    <3>1. "pc" \in DOMAIN sstage' /\ ~sentences'.closed
      BY <1>t, <2>4
    <3>2. AudioInv'
      BY <1>0, <1>t, <2>1, <2>4, <3>1, AudioAlone
    <3> QED BY <2>2, <3>2 DEF IInv
  <2>5. CASE /\ sstage.pc = "run"
             /\ sentences' = [sentences EXCEPT !.q = Append(@, Len(emitted) + 1)]
             /\ emitted' = Append(emitted, Head(sstage.pend))
             /\ sstage' = [sstage EXCEPT !.pend = Tail(@)]
    <3>1. AudioInv'
      BY <1>0, <2>0, <2>5, EmitAudio
    <3> QED BY <2>2, <3>1 DEF IInv
  <2>6. \/ SentencerEnds /\ emitted' = emitted
        \/ /\ emitted' = emitted /\ sentences' = sentences /\ sstage.pc # "done"
           /\ DOMAIN sstage' = DOMAIN sstage
        \/ /\ sstage.pc = "run"
           /\ sentences' = [sentences EXCEPT !.q = Append(@, Len(emitted) + 1)]
           /\ emitted' = Append(emitted, Head(sstage.pend))
           /\ sstage' = [sstage EXCEPT !.pend = Tail(@)]
    <3>1. CASE SplitChunk
      BY <3>1 DEF SplitChunk
    <3>4. CASE CutSentence
      BY <3>4 DEF CutSentence
    <3>2. CASE EmitSentence
      BY <3>2 DEF EmitSentence
    <3>3. CASE FlushRest
      BY <3>3 DEF FlushRest
    <3> QED BY <1>4, <3>1, <3>2, <3>3, <3>4 DEF SentencerStep
  <2> QED BY <2>3, <2>4, <2>5, <2>6
<1>5. CASE TextStep
  <2>1. AudioInv'
    BY <1>0, <1>5, TextTakeAudio, TextWriteAudio, TextEndAudio DEF TextStep
  <2>2. UNCHANGED <<sc, cancelled, told, llm, lout>>
    BY <1>5 DEF TextStep, TextTake, TextWrite, TextEnd, TtsFrame, llmVars
  <2>3. CallInv'
    BY <1>0, <1>t, <2>2, CallsAlone
  <2> QED BY <2>1, <2>3 DEF IInv
<1>6. CASE TtsStageStep
  <2>1. AudioInv' /\ told' \in Reports
    BY <1>0, <1>6, <1>t, StageAudio
  <2> QED BY <1>0, <1>6, <2>1, StageCalls DEF IInv
<1>7. CASE Finish \/ Cancel \/ UNCHANGED vars
  <2>0. /\ UNCHANGED <<sc, told, emitted, tstage, wstage, sentences, sstage, llm, lout>> /\ UNCHANGED ttsVars
        /\ cancelled' \in BOOLEAN
    BY <1>7, <1>t DEF Finish, Cancel, vars, stageVars, llmVars, ttsVars
  <2>1. CallInv'
    BY <1>0, <1>t, <2>0, CallsAlone
  <2> QED BY <1>a, <2>0, <2>1 DEF IInv
<1> QED BY <1>1, <1>2, <1>3, <1>4, <1>5, <1>6, <1>7 DEF Next

-----------------------------------------------------------------------------
(* ---- the text on its way ------------------------------------------------------- *)

\* A step that leaves the text where it is.
LEMMA TextSame ==
    ASSUME TextInv, told'.text = told.text, UNCHANGED <<lstage, chunks, sstage, emitted>>,
           cancelled => cancelled'
    PROVE  TextInv'
<1>0. lstage' = lstage /\ chunks' = chunks /\ sstage' = sstage /\ emitted' = emitted
  OBVIOUS
<1>1. TextTypeOK'
  BY <1>0 DEF TextInv, TextTypeOK
<1>2. Chunked'
  BY <1>0 DEF TextInv, Chunked
<1>3. Drained'
  BY <1>0 DEF TextInv, Drained
<1>4. Cut' = Cut
  BY <1>0 DEF Cut
<1> QED BY <1>0, <1>1, <1>2, <1>3, <1>4 DEF TextInv

\* llmStage ends: what it held is lost only if the response was cancelled.
LEMMA StageEndsText ==
    ASSUME TextInv, LlmStageEnds, lstage.pc = "recv" \/ cancelled, told'.text = told.text,
           UNCHANGED <<cancelled, sstage, emitted>>
    PROVE  TextInv'
<1>0. /\ lstage' = [lstage EXCEPT !.pc = "done"] /\ chunks' = [chunks EXCEPT !.closed = TRUE]
      /\ sstage' = sstage /\ emitted' = emitted /\ cancelled' = cancelled
  BY DEF LlmStageEnds
<1>t. TextTypeOK
  BY DEF TextInv
<1>1. lstage'.pc = "done" /\ chunks'.closed = TRUE /\ chunks'.q = chunks.q
  BY <1>0, <1>t DEF TextTypeOK
<1>2. TextTypeOK'
  BY <1>0, <1>t DEF TextTypeOK
<1>3. Chunked'
  BY <1>0, <1>1 DEF TextInv, Chunked
<1>4. Drained'
  BY <1>0, <1>1 DEF TextInv, Drained
<1>5. Cut' = Cut
  BY <1>0 DEF Cut
<1> QED BY <1>0, <1>2, <1>3, <1>4, <1>5 DEF TextInv

\* A delta is told to the actor, and on its way.
LEMMA DeltaText ==
    ASSUME TextInv, told.text \in Seq(Runes), lstage.pc = "recv", NEW c \in Seq(Runes),
           told'.text = told.text \o c, lstage' = [pc |-> "pass", text |-> c],
           UNCHANGED <<cancelled, chunks, sstage, emitted>>
    PROVE  TextInv'
<1>0. chunks' = chunks /\ sstage' = sstage /\ emitted' = emitted /\ cancelled' = cancelled
  OBVIOUS
<1>t. TextTypeOK
  BY DEF TextInv
<1>1. PICK old, text, st, q, cut :
        /\ old = told.text /\ text = told'.text /\ st = sstage.st /\ q = chunks.q /\ cut = Cut
  OBVIOUS
<1>2. /\ old \in Seq(Runes) /\ st \in Sentencers /\ q \in Seq(Seq(Runes)) /\ cut \in Seq(Spans)
      /\ Len(old) \in Nat /\ Len(c) \in Nat
  BY <1>1, <1>t DEF TextTypeOK, Cut
<1>3. text = old \o c
  BY <1>1
<1>4. /\ text \in Seq(Runes) /\ Len(text) = Len(old) + Len(c) /\ Len(old) <= Len(text)
      /\ \A k \in 1..Len(old) : old[k] = text[k]
      /\ \A k \in 1..Len(c) : c[k] = text[Len(old) + k]
  BY <1>2, <1>3
<1>5. TextTypeOK'
  <2>1. lstage' \in [pc : {"recv", "pass", "done"}, text : Seq(Runes)]
    OBVIOUS
  <2>2. ~chunks.closed
    BY <1>t DEF TextTypeOK
  <2> QED BY <1>0, <1>t, <2>1, <2>2 DEF TextTypeOK
<1>6. Chunked'
  <2>1. Between(q, old, st.base + Len(st.buf), Len(old))
    BY <1>1 DEF TextInv, Chunked
  <2>2. Between(q, text, st.base + Len(st.buf), Len(old))
    BY <1>2, <1>4, <2>1, BetweenGrows
  <2>3. PartAt(c, text, Len(old)) /\ Len(old) + Len(c) = Len(text) /\ Len(old) \in 0..Len(text)
    BY <1>2, <1>4 DEF PartAt
  <2>4. chunks'.q = q /\ sstage'.st = st /\ told'.text = text /\ lstage'.pc = "pass" /\ lstage'.text = c
    BY <1>0, <1>1
  <2> QED BY <2>2, <2>3, <2>4 DEF Chunked
<1>7. Drained'
  BY <1>0 DEF TextInv, Drained
<1>8. Cut' = cut
  BY <1>0, <1>1 DEF Cut
<1>9. Tiles(cut, st, sstage.flushed, text)
  <2>1. Tiles(cut, st, sstage.flushed, old)
    BY <1>1 DEF TextInv
  <2> QED BY <1>2, <1>4, <2>1, TilesGrow
<1>10. ASSUME ~Contains(text, "cjk") PROVE Firm(cut, st, sstage.flushed, sstage.pc = "split", text)
  <2>1. \A k \in 1..Len(old) : k \in 1..Len(text)
    BY <1>2, <1>4
  <2>2. \A k \in 1..Len(old) : old[k] # "cjk"
    BY <1>4, <1>10, <2>1 DEF Contains
  <2>3. ~Contains(old, "cjk")
    BY <2>2 DEF Contains
  <2>4. Tiles(cut, st, sstage.flushed, old) /\ Firm(cut, st, sstage.flushed, sstage.pc = "split", old)
    BY <1>1, <2>3 DEF TextInv
  <2> QED BY <1>2, <1>4, <2>2, <2>4, FirmGrows
<1>11. Tiles(Cut, sstage.st, sstage.flushed, told.text)'
  BY <1>0, <1>1, <1>8, <1>9
<1>12. (~Contains(told.text, "cjk") => Firm(Cut, sstage.st, sstage.flushed, sstage.pc = "split", told.text))'
  BY <1>0, <1>1, <1>8, <1>10
<1> QED BY <1>5, <1>6, <1>7, <1>11, <1>12 DEF TextInv

\* The text goes on to the channel.
LEMMA PassedText ==
    ASSUME TextInv, told.text \in Seq(Runes), lstage.pc = "pass",
           chunks' = [chunks EXCEPT !.q = Append(@, lstage.text)], lstage' = [pc |-> "recv", text |-> <<>>],
           UNCHANGED <<cancelled, told, sstage, emitted>>
    PROVE  TextInv'
<1>0. told' = told /\ sstage' = sstage /\ emitted' = emitted /\ cancelled' = cancelled
  OBVIOUS
<1>t. TextTypeOK
  BY DEF TextInv
<1>1. PICK text, st, q, c : text = told.text /\ st = sstage.st /\ q = chunks.q /\ c = lstage.text
  OBVIOUS
<1>2. /\ text \in Seq(Runes) /\ q \in Seq(Seq(Runes)) /\ c \in Seq(Runes) /\ Len(text) \in Nat /\ ~chunks.closed
  BY <1>1, <1>t DEF TextTypeOK
<1>3. lstage'.pc = "recv" /\ chunks'.q = Append(q, c) /\ chunks'.closed = chunks.closed
  BY <1>1, <1>t DEF TextTypeOK
<1>4. TextTypeOK'
  <2>1. Append(q, c) \in Seq(Seq(Runes)) /\ <<>> \in Seq(Runes)
    BY <1>2
  <2>2. chunks' \in [q : Seq(Seq(Runes)), closed : BOOLEAN]
    BY <1>1, <1>t, <2>1 DEF TextTypeOK
  <2>3. lstage' \in [pc : {"recv", "pass", "done"}, text : Seq(Runes)]
    BY <2>1
  <2> QED BY <1>0, <1>2, <1>3, <1>t, <2>2, <2>3 DEF TextTypeOK
<1>5. Chunked'
  <2>1. PICK to \in 0..Len(text) :
          /\ Between(q, text, st.base + Len(st.buf), to)
          /\ PartAt(c, text, to) /\ to + Len(c) = Len(text)
    BY <1>1 DEF TextInv, Chunked
  <2>2. Between(Append(q, c), text, st.base + Len(st.buf), Len(text))
    <3>1. to \in Nat
      BY <1>2
    <3>2. Between(Append(q, c), text, st.base + Len(st.buf), to + Len(c))
      BY <1>2, <2>1, <3>1, BetweenAdded
    <3> QED BY <2>1, <3>2
  <2>3. Len(text) \in 0..Len(text)
    BY <1>2
  <2> QED BY <1>0, <1>1, <1>3, <2>2, <2>3 DEF Chunked
<1>6. Drained'
  BY <1>0, <1>2 DEF TextInv, Drained
<1>7. Cut' = Cut
  BY <1>0 DEF Cut
<1> QED BY <1>0, <1>4, <1>5, <1>6, <1>7 DEF TextInv

\* llmStage's steps.
LEMMA LlmStageText ==
    ASSUME CallInv, TextInv, LlmStageStep
    PROVE  TextInv'
<1>0. UNCHANGED <<cancelled, sstage, emitted>>
  BY DEF LlmStageStep, LlmChunk, PassText, LlmClosed, LlmStageFrame
<1>1. told \in Reports /\ told.text \in Seq(Runes) /\ lout.q \in Seq(LlmChunks)
  BY DEF CallInv, LlmTypeOK, Reports
<1>f. ASSUME NEW why, Failed(why) PROVE told'.text = told.text
  BY <1>1, <1>f, FailedTells
<1>2. CASE LlmChunk
  <2>1. PICK c : c = Head(lout.q)
    OBVIOUS
  <2>2. c \in LlmChunks /\ lstage.pc = "recv"
    BY <1>1, <1>2, <2>1 DEF LlmChunk
  <2>3. CASE /\ c.kind = "text" /\ told' = [told EXCEPT !.text = @ \o c.text]
             /\ lstage' = [pc |-> "pass", text |-> c.text] /\ UNCHANGED chunks
    <3>1. c.text \in Seq(Runes)
      BY <2>2, <2>3 DEF LlmChunks
    <3>2. told'.text = told.text \o c.text
      BY <1>1, <2>3 DEF Reports
    <3> QED BY <1>0, <1>1, <2>2, <2>3, <3>1, <3>2, DeltaText
  <2>4. CASE told' = [told EXCEPT !.calls = Append(@, c.call)] /\ UNCHANGED <<lstage, chunks>>
    <3>1. told'.text = told.text
      BY <1>1, <2>4 DEF Reports
    <3> QED BY <1>0, <2>4, <3>1, TextSame
  <2>5. CASE told'.text = told.text /\ LlmStageEnds
    BY <1>0, <2>2, <2>5, StageEndsText
  <2>6. told' = [told EXCEPT !.llmDone = TRUE] => told'.text = told.text
    BY <1>1 DEF Reports
  <2> QED BY <1>2, <1>f, <2>1, <2>3, <2>4, <2>5, <2>6 DEF LlmChunk
<1>3. CASE PassText
  BY <1>0, <1>1, <1>3, PassedText, StageEndsText DEF PassText
<1>4. CASE LlmClosed
  BY <1>0, <1>4, <1>f, StageEndsText DEF LlmClosed
<1> QED BY <1>2, <1>3, <1>4 DEF LlmStageStep

\* A chunk is pushed into the sentencer.
LEMMA SplitText ==
    ASSUME TextInv, told.text \in Seq(Runes), SplitChunk
    PROVE  TextInv'
<1>0. /\ told' = told /\ lstage' = lstage /\ emitted' = emitted /\ cancelled' = cancelled
      /\ sstage.pc = "run" /\ chunks.q # <<>>
      /\ sstage' = [sstage EXCEPT !.pc = "split", !.st = Push(@, Head(chunks.q))]
      /\ chunks' = [chunks EXCEPT !.q = Tail(@)]
  BY DEF SplitChunk, SentencerFrame
<1>t. TextTypeOK
  BY DEF TextInv
<1>1. PICK text, st, q, c, cut :
        /\ text = told.text /\ st = sstage.st /\ q = chunks.q /\ c = Head(chunks.q) /\ cut = Cut
  OBVIOUS
<1>2. PICK new : new = Push(st, c)
  OBVIOUS
<1>3. /\ text \in Seq(Runes) /\ st \in Sentencers /\ q \in Seq(Seq(Runes)) /\ c \in Seq(Runes) /\ cut \in Seq(Spans)
      /\ st.base \in Nat /\ st.scan \in Nat /\ Len(st.buf) \in Nat /\ st.scan <= Len(st.buf)
  BY <1>0, <1>1, <1>t DEF TextTypeOK, Cut, Sentencers
<1>4. /\ sstage'.pc = "split" /\ sstage'.st = new /\ sstage'.pend = sstage.pend /\ sstage'.flushed = sstage.flushed
      /\ chunks'.q = Tail(q) /\ chunks'.closed = chunks.closed
  BY <1>0, <1>1, <1>2, <1>t DEF TextTypeOK
<1>5. ~sstage.flushed /\ sstage.flushed = FALSE
  BY <1>0, <1>t DEF TextInv, Drained, TextTypeOK
<1>6. PICK to \in 0..Len(text) :
        /\ Between(q, text, st.base + Len(st.buf), to)
        /\ lstage.pc = "pass" => PartAt(lstage.text, text, to) /\ to + Len(lstage.text) = Len(text)
        /\ lstage.pc = "recv" \/ (lstage.pc = "done" /\ ~cancelled) => to = Len(text)
  BY <1>1 DEF TextInv, Chunked
<1>7. PartAt(c, text, st.base + Len(st.buf)) /\ Between(Tail(q), text, (st.base + Len(st.buf)) + Len(c), to)
  <2>1. q # <<>> /\ c = Head(q) /\ st.base + Len(st.buf) \in Nat
    BY <1>0, <1>1, <1>3
  <2> QED BY <1>3, <1>6, <2>1, BetweenTaken
<1>8. Tiles(cut, st, FALSE, text)
  BY <1>1, <1>5 DEF TextInv
<1>9. /\ new \in Sentencers /\ new.base = st.base /\ new.scan = st.scan
      /\ Len(st.buf) <= Len(new.buf) /\ \A k \in 1..Len(st.buf) : st.buf[k] = new.buf[k]
      /\ PartAt(new.buf, text, st.base) /\ Len(new.buf) = Len(st.buf) + Len(c)
  <2>1. PartAt(st.buf, text, st.base)
    BY <1>8 DEF Tiles
  <2>2. PICK o : o = st.base + Len(st.buf)
    OBVIOUS
  <2>3. text \in Seq(Runes) /\ st \in Sentencers /\ c \in Seq(Runes) /\ PartAt(c, text, o)
    BY <1>3, <1>7, <2>2
  <2> QED BY ONLY <1>2, <2>1, <2>2, <2>3, Pushes
<1>10. TextTypeOK'
  <2>1. Tail(q) \in Seq(Seq(Runes))
    BY <1>0, <1>1, <1>3
  <2>2. chunks' \in [q : Seq(Seq(Runes)), closed : BOOLEAN]
    BY <1>0, <1>1, <1>t, <2>1 DEF TextTypeOK
  <2>3. sstage' \in [pc : {"run", "split", "done"}, st : Sentencers, pend : Seq(Spans), flushed : BOOLEAN]
    BY <1>0, <1>1, <1>2, <1>9, <1>t DEF TextTypeOK
  <2>4. new.scan <= Len(new.buf)
    <3>1. \A a, b, d \in Nat : a <= b /\ b <= d => a <= d
      OBVIOUS
    <3>2. Len(new.buf) \in Nat
      BY <1>9 DEF Sentencers
    <3> QED BY <1>3, <1>9, <3>1, <3>2
  <2> QED BY <1>0, <1>4, <1>t, <2>2, <2>3, <2>4 DEF TextTypeOK
<1>11. Chunked'
  <2>1. new.base + Len(new.buf) = (st.base + Len(st.buf)) + Len(c)
    <3>1. Len(c) \in Nat
      BY <1>3
    <3> QED BY <1>3, <1>9, <3>1
  <2> QED BY <1>0, <1>1, <1>4, <1>6, <1>7, <2>1 DEF Chunked
<1>12. Drained'
  BY <1>0, <1>4, <1>5 DEF Drained
<1>13. Cut' = cut
  BY <1>0, <1>1, <1>4 DEF Cut
<1>14. Tiles(cut, new, FALSE, text)
  BY <1>8, <1>9, TilesBuffer
<1>15. ASSUME ~Contains(text, "cjk") PROVE Firm(cut, new, FALSE, TRUE, text)
  <2>1. Firm(cut, st, FALSE, FALSE, text)
    <3>1. Firm(cut, st, sstage.flushed, sstage.pc = "split", text) /\ (sstage.pc = "split") = FALSE
      BY <1>0, <1>1, <1>15 DEF TextInv
    <3> QED BY <1>5, <3>1
  <2>2. \A k \in 1..Len(st.buf) : st.buf[k] # "cjk"
    BY <1>3, <1>8, <1>15, PartPlain DEF Tiles
  <2> QED BY <1>3, <1>9, <2>1, <2>2, FirmPushed
<1>16. Tiles(Cut, sstage.st, sstage.flushed, told.text)'
  BY <1>0, <1>1, <1>4, <1>5, <1>13, <1>14
<1>17. (~Contains(told.text, "cjk") => Firm(Cut, sstage.st, sstage.flushed, sstage.pc = "split", told.text))'
  <2>1. (sstage.pc = "split")' = TRUE
    BY <1>4
  <2> QED BY <1>0, <1>1, <1>4, <1>5, <1>13, <1>15, <2>1
<1> QED BY <1>10, <1>11, <1>12, <1>16, <1>17 DEF TextInv

\* The boundaries of the buffer are looked at.
LEMMA ScanText ==
    ASSUME TextInv, told.text \in Seq(Runes), sstage.pc = "split",
           UNCHANGED <<told, lstage, emitted, cancelled, chunks>>,
           NEW b, b = FindBoundary(sstage.st), NEW st, st = [sstage.st EXCEPT !.scan = b.scan],
           \/ ~b.found /\ sstage' = [sstage EXCEPT !.pc = "run", !.st = st]
           \/ b.found /\ b.scan < MinSentenceRunes /\ sstage' = [sstage EXCEPT !.st = st]
    PROVE  TextInv'
<1>0. told' = told /\ lstage' = lstage /\ emitted' = emitted /\ cancelled' = cancelled /\ chunks' = chunks
  OBVIOUS
<1>t. TextTypeOK
  BY DEF TextInv
<1>1. PICK text, old, cut, pc : text = told.text /\ old = sstage.st /\ cut = Cut /\ pc = sstage'.pc
  OBVIOUS
<1>2. text \in Seq(Runes) /\ old \in Sentencers /\ old.scan <= Len(old.buf) /\ sstage.flushed \in BOOLEAN
  BY <1>1, <1>t DEF TextTypeOK
<1>3. b = FindBoundary(old) /\ st = [old EXCEPT !.scan = b.scan]
  BY <1>1
<1>4. b.found \in BOOLEAN /\ b.scan \in Nat /\ b.scan <= Len(old.buf)
  BY <1>2, <1>3, FindsFirst
<1>5. st \in Sentencers /\ st.buf = old.buf /\ st.base = old.base /\ st.scan = b.scan
  BY <1>2, <1>3, <1>4 DEF Sentencers
<1>6. /\ sstage'.st = st /\ sstage'.pend = sstage.pend /\ sstage'.flushed = sstage.flushed
      /\ ~b.found => pc = "run"
      /\ b.found => pc = "split" /\ b.scan < MinSentenceRunes
  BY <1>1, <1>4, <1>t DEF TextTypeOK
<1>7. sstage.flushed = FALSE
  BY <1>2 DEF TextInv, Drained
<1>8. TextTypeOK'
  <2>1. sstage' \in [pc : {"run", "split", "done"}, st : Sentencers, pend : Seq(Spans), flushed : BOOLEAN]
    BY <1>5, <1>t DEF TextTypeOK
  <2> QED BY <1>0, <1>4, <1>5, <1>6, <1>t, <2>1 DEF TextTypeOK
<1>9. Chunked'
  BY <1>0, <1>1, <1>5, <1>6 DEF TextInv, Chunked
<1>10. Drained'
  BY <1>1, <1>4, <1>6, <1>7 DEF Drained
<1>11. Cut' = cut
  BY <1>0, <1>1, <1>6 DEF Cut
<1>12. Tiles(cut, old, FALSE, text)
  BY <1>1, <1>7 DEF TextInv
<1>13. Tiles(cut, st, FALSE, text)
  <2>1. PartAt(st.buf, text, st.base)
    BY <1>5, <1>12 DEF Tiles
  <2> QED BY <1>5, <1>12, <2>1, TilesBuffer
<1>14. ASSUME ~Contains(text, "cjk") PROVE Firm(cut, st, FALSE, pc = "split", text)
  <2>1. Firm(cut, old, FALSE, TRUE, text)
    <3>1. Firm(cut, old, sstage.flushed, sstage.pc = "split", text) /\ (sstage.pc = "split") = TRUE
      BY <1>1, <1>14 DEF TextInv
    <3> QED BY <1>7, <3>1
  <2>2. CASE ~b.found
    <3>1. Firm(cut, st, FALSE, FALSE, text)
      BY <1>2, <1>3, <1>5, <2>1, <2>2, FirmScanned
    <3>2. (pc = "split") = FALSE
      BY <1>6, <2>2
    <3> QED BY <3>1, <3>2
  <2>3. CASE b.found
    <3>1. \A k \in 1..Len(old.buf) : old.buf[k] # "cjk"
      BY <1>2, <1>12, <1>14, PartPlain DEF Tiles
    <3>2. Firm(cut, st, FALSE, TRUE, text)
      BY <1>2, <1>3, <1>5, <1>6, <2>1, <2>3, <3>1, FirmPassed
    <3>3. (pc = "split") = TRUE
      BY <1>6, <2>3
    <3> QED BY <3>2, <3>3
  <2> QED BY <2>2, <2>3
<1>15. Tiles(Cut, sstage.st, sstage.flushed, told.text)'
  BY <1>0, <1>1, <1>6, <1>7, <1>11, <1>13
<1>16. (~Contains(told.text, "cjk") => Firm(Cut, sstage.st, sstage.flushed, sstage.pc = "split", told.text))'
  BY <1>0, <1>1, <1>6, <1>7, <1>11, <1>14
<1> QED BY <1>8, <1>9, <1>10, <1>15, <1>16 DEF TextInv

\* A sentence is cut.
LEMMA CutText ==
    ASSUME TextInv, told.text \in Seq(Runes), sstage.pc = "split",
           UNCHANGED <<told, lstage, emitted, cancelled, chunks>>,
           NEW b, b = FindBoundary(sstage.st), b.found, b.scan >= MinSentenceRunes,
           NEW sn, NEW st, sn = Take(sstage.st, b.scan).sentence, st = Take(sstage.st, b.scan).rest,
           sstage' = [sstage EXCEPT !.st = st, !.pend = Append(@, sn)]
    PROVE  TextInv'
<1>0. told' = told /\ lstage' = lstage /\ emitted' = emitted /\ cancelled' = cancelled /\ chunks' = chunks
  OBVIOUS
<1>t. TextTypeOK
  BY DEF TextInv
<1>1. PICK text, old, cut, n : text = told.text /\ old = sstage.st /\ cut = Cut /\ n = b.scan
  OBVIOUS
<1>2. /\ text \in Seq(Runes) /\ old \in Sentencers /\ old.scan <= Len(old.buf) /\ sstage.flushed \in BOOLEAN
      /\ cut \in Seq(Spans) /\ emitted \in Seq(Spans) /\ sstage.pend \in Seq(Spans)
      /\ old.base \in Nat /\ Len(old.buf) \in Nat
  BY <1>1, <1>t DEF TextTypeOK, Cut, Sentencers
<1>3. n \in 1..Len(old.buf)
  <2>1. n \in Nat /\ n <= Len(old.buf) /\ old.scan < n /\ old.scan \in Nat
    <3>1. old.scan \in Nat
      BY <1>2 DEF Sentencers
    <3> QED BY <1>1, <1>2, <3>1, FindsFirst
  <2> QED BY <1>2, <2>1
<1>4. /\ sn \in Spans /\ st \in Sentencers /\ st.base = old.base + n /\ st.scan = 0
      /\ Len(st.buf) = Len(old.buf) - n
  BY <1>1, <1>2, <1>3, Takes
<1>5. /\ sstage'.st = st /\ sstage'.pend = Append(sstage.pend, sn) /\ sstage'.flushed = sstage.flushed
      /\ sstage'.pc = "split"
  BY <1>t DEF TextTypeOK
<1>6. sstage.flushed = FALSE
  BY <1>2 DEF TextInv, Drained
<1>7. TextTypeOK'
  <2>1. Append(sstage.pend, sn) \in Seq(Spans)
    BY <1>2, <1>4
  <2>2. sstage' \in [pc : {"run", "split", "done"}, st : Sentencers, pend : Seq(Spans), flushed : BOOLEAN]
    BY <1>4, <1>t, <2>1 DEF TextTypeOK
  <2>3. 0 <= Len(st.buf)
    BY <1>2, <1>3, <1>4
  <2> QED BY <1>0, <1>4, <1>5, <1>t, <2>2, <2>3 DEF TextTypeOK
<1>8. Chunked'
  <2>1. st.base + Len(st.buf) = old.base + Len(old.buf)
    BY <1>2, <1>3, <1>4
  <2> QED BY <1>0, <1>1, <1>5, <2>1 DEF TextInv, Chunked
<1>9. Drained'
  BY <1>5, <1>6 DEF Drained
<1>10. PICK new : new = Append(cut, sn)
  OBVIOUS
<1>11. Cut' = new
  <2>1. Cut' = emitted \o Append(sstage.pend, sn) /\ cut = emitted \o sstage.pend
    BY <1>0, <1>1, <1>5 DEF Cut
  <2>2. emitted \in Seq(Spans) /\ sstage.pend \in Seq(Spans) /\ sn \in Spans
    BY <1>2, <1>4
  <2>3. PICK e, p : e = emitted /\ p = sstage.pend
    OBVIOUS
  <2>4. e \o Append(p, sn) = Append(e \o p, sn)
    BY ONLY <2>2, <2>3, CutAdded
  <2> QED BY ONLY <1>10, <2>1, <2>3, <2>4
<1>12. Tiles(cut, old, FALSE, text)
  BY <1>1, <1>6 DEF TextInv
<1>13. n >= MinSentenceRunes /\ sn = Take(old, n).sentence /\ st = Take(old, n).rest
  BY <1>1
<1>14. Tiles(new, st, FALSE, text)
  BY <1>2, <1>3, <1>10, <1>12, <1>13, TilesCut
<1>15. ASSUME ~Contains(text, "cjk") PROVE Firm(new, st, FALSE, TRUE, text)
  <2>1. Firm(cut, old, FALSE, TRUE, text)
    <3>1. Firm(cut, old, sstage.flushed, sstage.pc = "split", text) /\ (sstage.pc = "split") = TRUE
      BY <1>1, <1>15 DEF TextInv
    <3> QED BY <1>6, <3>1
  <2>2. \A k \in 1..Len(text) : text[k] # "cjk"
    BY <1>15 DEF Contains
  <2>3. PartAt(old.buf, text, old.base)
    BY <1>12 DEF Tiles
  <2>4. b = FindBoundary(old) /\ sn = Take(old, b.scan).sentence /\ st = Take(old, b.scan).rest
    BY <1>1
  <2> QED BY <1>2, <1>10, <2>1, <2>2, <2>3, <2>4, FirmCut
<1>16. Tiles(Cut, sstage.st, sstage.flushed, told.text)'
  BY <1>0, <1>1, <1>5, <1>6, <1>11, <1>14
<1>17. (~Contains(told.text, "cjk") => Firm(Cut, sstage.st, sstage.flushed, sstage.pc = "split", told.text))'
  <2>1. (sstage.pc = "split")' = TRUE
    BY <1>5
  <2> QED BY <1>0, <1>1, <1>5, <1>6, <1>11, <1>15, <2>1
<1> QED BY <1>7, <1>8, <1>9, <1>16, <1>17 DEF TextInv

\* A sentence is passed on, or the stage gives up with the response.
LEMMA EmitText ==
    ASSUME TextInv, EmitSentence
    PROVE  TextInv'
<1>0. /\ told' = told /\ lstage' = lstage /\ cancelled' = cancelled /\ chunks' = chunks
      /\ sstage.pc = "run" /\ sstage.pend # <<>>
      /\ \/ emitted' = Append(emitted, Head(sstage.pend)) /\ sstage' = [sstage EXCEPT !.pend = Tail(@)]
         \/ cancelled /\ sstage' = [sstage EXCEPT !.pc = "done"] /\ emitted' = emitted
  BY DEF EmitSentence, SentencerFrame, SentencerEnds
<1>t. TextTypeOK
  BY DEF TextInv
<1>2. sstage.pend \in Seq(Spans) /\ emitted \in Seq(Spans)
  BY <1>t DEF TextTypeOK
<1>3. /\ sstage'.st = sstage.st /\ sstage'.flushed = sstage.flushed
      /\ sstage'.pc # "split" /\ (sstage'.pc = "done" => cancelled)
  BY <1>0, <1>t DEF TextTypeOK
<1>4. TextTypeOK' /\ Cut' = Cut
  <2>1. CASE emitted' = Append(emitted, Head(sstage.pend)) /\ sstage' = [sstage EXCEPT !.pend = Tail(@)]
    <3>1. Append(emitted, Head(sstage.pend)) \in Seq(Spans) /\ Tail(sstage.pend) \in Seq(Spans)
      BY <1>0, <1>2
    <3>2. sstage' \in [pc : {"run", "split", "done"}, st : Sentencers, pend : Seq(Spans), flushed : BOOLEAN]
      BY <1>t, <2>1, <3>1 DEF TextTypeOK
    <3>3. sstage'.pend = Tail(sstage.pend)
      BY <1>t, <2>1 DEF TextTypeOK
    <3>4. Cut' = Append(emitted, Head(sstage.pend)) \o Tail(sstage.pend) /\ Cut = emitted \o sstage.pend
      BY <2>1, <3>3 DEF Cut
    <3>5. Cut' = Cut
      BY <1>0, <1>2, <3>4, CutPassed
    <3> QED BY <1>0, <1>3, <1>t, <2>1, <3>1, <3>2, <3>5 DEF TextTypeOK
  <2>2. CASE sstage' = [sstage EXCEPT !.pc = "done"] /\ emitted' = emitted
    <3>1. sstage' \in [pc : {"run", "split", "done"}, st : Sentencers, pend : Seq(Spans), flushed : BOOLEAN]
      BY <1>t, <2>2 DEF TextTypeOK
    <3>2. sstage'.pend = sstage.pend
      BY <1>t, <2>2 DEF TextTypeOK
    <3> QED BY <1>0, <1>3, <1>t, <2>2, <3>1, <3>2 DEF TextTypeOK, Cut
  <2> QED BY <1>0, <2>1, <2>2
<1>5. Chunked'
  BY <1>0, <1>3 DEF TextInv, Chunked
<1>6. Drained'
  BY <1>0, <1>3 DEF TextInv, Drained
<1>7. (sstage.pc = "split") = FALSE /\ (sstage.pc = "split")' = FALSE
  BY <1>0, <1>3
<1> QED BY <1>0, <1>3, <1>4, <1>5, <1>6, <1>7 DEF TextInv

\* The text is over.
LEMMA FlushText ==
    ASSUME TextInv, told.text \in Seq(Runes), FlushRest
    PROVE  TextInv'
<1>0. /\ told' = told /\ lstage' = lstage /\ emitted' = emitted /\ cancelled' = cancelled /\ chunks' = chunks
      /\ sstage.pc = "run" /\ sstage.pend = <<>> /\ chunks.q = <<>> /\ chunks.closed
  BY DEF FlushRest, SentencerFrame
<1>t. TextTypeOK
  BY DEF TextInv
<1>1. sstage.flushed \in BOOLEAN /\ emitted \in Seq(Spans) /\ sstage.st \in Sentencers
  BY <1>t DEF TextTypeOK
<1>2. (sstage.pc = "split") = FALSE
  BY <1>0
<1>3. CASE sstage.flushed
  <2>1. sstage' = [sstage EXCEPT !.pc = "done"]
    BY <1>3 DEF FlushRest, SentencerEnds
  <2>2. /\ sstage'.st = sstage.st /\ sstage'.pend = sstage.pend /\ sstage'.flushed = sstage.flushed
        /\ sstage'.pc = "done"
    BY <1>t, <2>1 DEF TextTypeOK
  <2>3. TextTypeOK'
    BY <1>0, <1>t, <2>1 DEF TextTypeOK
  <2>4. Chunked'
    BY <1>0, <2>2 DEF TextInv, Chunked
  <2>5. Drained'
    BY <1>0, <1>3, <2>2 DEF Drained
  <2>6. Cut' = Cut
    BY <1>0, <2>2 DEF Cut
  <2>7. (sstage.pc = "split")' = FALSE
    BY <2>2
  <2> QED BY <1>0, <1>2, <2>2, <2>3, <2>4, <2>5, <2>6, <2>7 DEF TextInv
<1>4. CASE ~sstage.flushed
  <2>1. sstage' = [sstage EXCEPT !.pend = Flush(sstage.st), !.flushed = TRUE]
    BY <1>4 DEF FlushRest
  <2>2. /\ sstage'.st = sstage.st /\ sstage'.pend = Flush(sstage.st) /\ sstage'.flushed = TRUE
        /\ sstage'.pc = "run"
    BY <1>0, <1>t, <2>1 DEF TextTypeOK
  <2>3. PICK text, st, cut, new : text = told.text /\ st = sstage.st /\ cut = Cut /\ new = Cut \o Flush(sstage.st)
    OBVIOUS
  <2>4. cut = emitted /\ cut \in Seq(Spans)
    BY <1>0, <1>1, <2>3, CutAll DEF Cut
  <2>5. sstage.flushed = FALSE
    BY <1>1, <1>4
  <2>6. Tiles(cut, st, FALSE, text)
    BY <2>3, <2>5 DEF TextInv
  <2>7. text \in Seq(Runes) /\ st \in Sentencers /\ new = cut \o Flush(st)
    BY <1>1, <2>3
  <2>8. Flush(st) \in Seq(Spans) /\ Tiles(new, st, TRUE, text)
    BY <2>4, <2>6, <2>7, TilesFlushed
  <2>9. ASSUME ~Contains(text, "cjk") PROVE Firm(new, st, TRUE, FALSE, text)
    <3>1. Firm(cut, st, FALSE, FALSE, text)
      BY <1>2, <2>3, <2>5, <2>9 DEF TextInv
    <3> QED BY <2>4, <2>7, <2>8, <3>1, FirmFlushed
  <2>10. TextTypeOK'
    <3>1. sstage' \in [pc : {"run", "split", "done"}, st : Sentencers, pend : Seq(Spans), flushed : BOOLEAN]
      BY <1>t, <2>1, <2>3, <2>8 DEF TextTypeOK
    <3> QED BY <1>0, <1>t, <2>2, <3>1 DEF TextTypeOK
  <2>11. Chunked'
    BY <1>0, <2>2 DEF TextInv, Chunked
  <2>12. Drained'
    BY <1>0, <2>2 DEF Drained
  <2>13. Cut' = new
    <3>1. Cut' = emitted \o Flush(st)
      BY <1>0, <2>2, <2>3 DEF Cut
    <3> QED BY <2>4, <2>7, <3>1
  <2>14. Tiles(Cut, sstage.st, sstage.flushed, told.text)'
    BY <1>0, <2>2, <2>3, <2>8, <2>13
  <2>15. (~Contains(told.text, "cjk") => Firm(Cut, sstage.st, sstage.flushed, sstage.pc = "split", told.text))'
    <3>1. (sstage.pc = "split")' = FALSE
      BY <2>2
    <3> QED BY <1>0, <2>2, <2>3, <2>9, <2>13, <3>1
  <2> QED BY <2>10, <2>11, <2>12, <2>14, <2>15 DEF TextInv
<1> QED BY <1>3, <1>4

\* The sentencer's steps.
LEMMA SentencerText ==
    ASSUME TextInv, told.text \in Seq(Runes), SentencerStep
    PROVE  TextInv'
<1>t. TextTypeOK
  BY DEF TextInv
<1>1. CASE SplitChunk
  BY <1>1, SplitText
<1>2. CASE CutSentence
  <2>0. sstage.pc = "split" /\ UNCHANGED <<told, lstage, emitted, cancelled, chunks>>
    BY <1>2 DEF CutSentence, SentencerFrame
  <2>1. PICK b : b = FindBoundary(sstage.st)
    OBVIOUS
  <2>2. \/ ~b.found /\ sstage' = [sstage EXCEPT !.pc = "run", !.st.scan = b.scan]
        \/ b.found /\ b.scan < MinSentenceRunes /\ sstage' = [sstage EXCEPT !.st.scan = b.scan]
        \/ /\ b.found /\ b.scan >= MinSentenceRunes
           /\ sstage' = [sstage EXCEPT !.st = Take(sstage.st, b.scan).rest,
                                       !.pend = Append(@, Take(sstage.st, b.scan).sentence)]
    BY <1>2, <2>1 DEF CutSentence
  <2>3. CASE b.found /\ b.scan >= MinSentenceRunes /\ sstage' = [sstage EXCEPT !.st = Take(sstage.st, b.scan).rest,
                                       !.pend = Append(@, Take(sstage.st, b.scan).sentence)]
    <3>1. PICK sn, st : sn = Take(sstage.st, b.scan).sentence /\ st = Take(sstage.st, b.scan).rest
      OBVIOUS
    <3>2. sstage' = [sstage EXCEPT !.st = st, !.pend = Append(@, sn)]
      BY <2>3, <3>1
    <3>3. b.found /\ b.scan >= MinSentenceRunes
      BY <2>3
    <3> QED BY <2>0, <2>1, <3>1, <3>2, <3>3, CutText
  <2>4. CASE \/ ~b.found /\ sstage' = [sstage EXCEPT !.pc = "run", !.st.scan = b.scan]
             \/ b.found /\ b.scan < MinSentenceRunes /\ sstage' = [sstage EXCEPT !.st.scan = b.scan]
    <3>1. PICK st : st = [sstage.st EXCEPT !.scan = b.scan]
      OBVIOUS
    <3>2. \/ ~b.found /\ sstage' = [sstage EXCEPT !.pc = "run", !.st = st]
          \/ b.found /\ b.scan < MinSentenceRunes /\ sstage' = [sstage EXCEPT !.st = st]
      BY <1>t, <2>4, <3>1 DEF TextTypeOK
    <3> QED BY <2>0, <2>1, <3>1, <3>2, ScanText
  <2> QED BY <2>2, <2>3, <2>4
<1>3. CASE EmitSentence
  BY <1>3, EmitText
<1>4. CASE FlushRest
  BY <1>4, FlushText
<1> QED BY <1>1, <1>2, <1>3, <1>4 DEF SentencerStep

\* At first there is no text.
LEMMA InitText == Init => TextInv
<1> SUFFICES ASSUME Init PROVE TextInv
  OBVIOUS
<1>1. /\ lstage = [pc |-> "recv", text |-> <<>>] /\ chunks = [q |-> <<>>, closed |-> FALSE] /\ emitted = <<>>
      /\ sstage = [pc |-> "run", st |-> NewSentencer, pend |-> <<>>, flushed |-> FALSE]
      /\ told.text = <<>>
  BY DEF Init, OpenChan
<1>2. NewSentencer \in Sentencers /\ NewSentencer.buf = <<>> /\ NewSentencer.base = 0 /\ NewSentencer.scan = 0
  BY DEF NewSentencer, Sentencers
<1>3. /\ sstage.st = NewSentencer /\ sstage.pend = <<>> /\ sstage.flushed = FALSE /\ sstage.pc = "run"
      /\ lstage.pc = "recv" /\ chunks.q = <<>> /\ Len(<<>>) = 0
  BY <1>1
<1>4. TextTypeOK
  <2>1. <<>> \in Seq(Runes) /\ <<>> \in Seq(Seq(Runes)) /\ <<>> \in Seq(Spans)
    OBVIOUS
  <2>2. sstage \in [pc : {"run", "split", "done"}, st : Sentencers, pend : Seq(Spans), flushed : BOOLEAN]
    BY <1>1, <1>2, <2>1
  <2>3. 0 <= 0
    OBVIOUS
  <2> QED BY <1>1, <1>2, <1>3, <2>1, <2>2, <2>3 DEF TextTypeOK
<1>5. Chunked
  <2>1. Between(<<>>, told.text, 0, 0)
    BY BetweenNone
  <2>2. 0 \in 0..Len(told.text) /\ 0 + 0 = 0 /\ 0 = Len(told.text)
    BY <1>1
  <2>3. sstage.st.base + Len(sstage.st.buf) = 0
    BY <1>2, <1>3
  <2> QED BY <1>3, <2>1, <2>2, <2>3 DEF Chunked
<1>6. Drained
  BY <1>3 DEF Drained
<1>7. Cut = <<>>
  BY <1>1, <1>3, CutAll DEF Cut
<1>8. Tiles(<<>>, NewSentencer, FALSE, <<>>)
  <2>1. PartAt(<<>>, <<>>, 0)
    BY DEF PartAt
  <2>2. EndOf(<<>>) = 0 /\ \A k \in 1..Len(<<>>) : FALSE
    BY DEF EndOf
  <2> QED BY <1>2, <2>1, <2>2 DEF Tiles
<1>9. Firm(<<>>, NewSentencer, FALSE, FALSE, <<>>)
  <2>1. Clear(<<>>, 0)
    BY DEF Clear
  <2>2. Boundaries(<<>>, 0) = {}
    BY DEF Boundaries
  <2>3. \A k \in 1..Len(<<>>) : FALSE
    OBVIOUS
  <2> QED BY <1>2, <2>1, <2>2, <2>3 DEF Firm
<1>10. (sstage.pc = "split") = FALSE
  BY <1>3
<1> QED BY <1>1, <1>3, <1>4, <1>5, <1>6, <1>7, <1>8, <1>9, <1>10 DEF TextInv

\* Every step.
LEMMA NextText == IInv /\ TextInv /\ [Next]_vars => TextInv'
<1> SUFFICES ASSUME IInv, TextInv, [Next]_vars PROVE TextInv'
  OBVIOUS
<1>0. CallInv /\ told \in Reports /\ told.text \in Seq(Runes)
  BY DEF IInv, CallInv, LlmTypeOK, Reports
<1>f. ASSUME NEW why, Failed(why) PROVE told'.text = told.text
  BY <1>0, <1>f DEF Failed, Reports
<1>1. CASE LlmGoes \/ LlmStalls
  BY <1>1, TextSame DEF LlmGoes, LlmStalls, RestOfLlm, stageVars
<1>2. CASE TtsGoes \/ TtsStalls
  BY <1>2, TextSame DEF TtsGoes, TtsStalls, RestOfTts, stageVars
<1>3. CASE LlmStageStep
  BY <1>0, <1>3, LlmStageText
<1>4. CASE SentencerStep
  BY <1>0, <1>4, SentencerText
<1>5. CASE TextStep
  <2>1. UNCHANGED <<told, lstage, chunks, sstage, emitted, cancelled>>
    BY <1>5 DEF TextStep, TextTake, TextWrite, TextEnd, TtsFrame
  <2> QED BY <2>1, TextSame
<1>6. CASE TtsStageStep
  <2>1. UNCHANGED <<lstage, chunks, sstage, emitted, cancelled>>
    BY <1>6 DEF TtsStageStep, Discard, Dial, Drain, DrainEnds, Join, StageCloses, NextSentence,
                SynthesizeOne, Segment, TtsFrame
  <2>2. told'.text = told.text
    <3>1. CASE Discard \/ StageCloses \/ SynthesizeOne \/ Segment
      BY <3>1 DEF Discard, StageCloses, SynthesizeOne, Segment
    <3>2. CASE Dial
      BY <1>f, <3>2 DEF Dial
    <3>3. CASE Drain
      BY <1>0, <3>3 DEF Drain, Reports
    <3>4. CASE DrainEnds
      BY <1>f, <3>4 DEF DrainEnds
    <3>5. CASE Join
      <4>1. CASE wstage.err = "ok"
        BY <1>0, <3>5, <4>1 DEF Join, Reports
      <4>2. CASE wstage.err # "ok"
        BY <1>f, <3>5, <4>2 DEF Join
      <4> QED BY <4>1, <4>2
    <3>6. CASE NextSentence
      BY <1>0, <3>6 DEF NextSentence, Reports
    <3> QED BY <1>6, <3>1, <3>2, <3>3, <3>4, <3>5, <3>6 DEF TtsStageStep
  <2> QED BY <2>1, <2>2, TextSame
<1>7. CASE Finish
  BY <1>7, TextSame DEF Finish, stageVars
<1>8. CASE Cancel
  BY <1>8, TextSame DEF Cancel, stageVars
<1>9. CASE UNCHANGED vars
  BY <1>9, TextSame DEF vars, stageVars
<1> QED BY <1>1, <1>2, <1>3, <1>4, <1>5, <1>6, <1>7, <1>8, <1>9 DEF Next

\* The first boundary is the least.
LEMMA FirstIsLeast ==
    ASSUME NEW text, NEW sn, First(text, sn)
    PROVE  LongEnough(text, sn.start) # {} /\ Min(LongEnough(text, sn.start)) = Len(sn.text)
<1>1. PICK T, n : T = LongEnough(text, sn.start) /\ n = Len(sn.text)
  OBVIOUS
<1>2. n \in T /\ \A e \in T : n <= e
  BY <1>1 DEF First
<1>3. T \subseteq Nat
  BY <1>1 DEF LongEnough, Boundaries
<1>4. Min(T) \in T /\ Min(T) \in Nat /\ \A y \in T : Min(T) <= y
  BY <1>2, <1>3, LeastNat
<1>5. n <= Min(T) /\ Min(T) <= n /\ n \in Nat
  BY <1>2, <1>3, <1>4
<1>6. Min(T) = n
  BY <1>4, <1>5
<1> QED BY <1>1, <1>2, <1>6

\* The rest of the text is the buffer, and no boundary in it is far enough.
LEMMA NoMore ==
    ASSUME NEW text \in Seq(Runes), NEW st \in Sentencers, PartAt(st.buf, text, st.base),
           st.base + Len(st.buf) = Len(text), \A e \in Boundaries(st.buf, 0) : e < MinSentenceRunes
    PROVE  LongEnough(text, st.base) = {}
<1>1. PICK buf, base : buf = st.buf /\ base = st.base
  OBVIOUS
<1>2. buf \in Seq(Runes) /\ base \in Nat /\ PartAt(buf, text, base) /\ base + Len(buf) = Len(text)
  BY <1>1 DEF Sentencers
<1>3. buf = SubSeq(text, base + 1, base + Len(buf))
  BY <1>2, PartSub
<1>4. buf = SubSeq(text, base + 1, Len(text))
  BY <1>2, <1>3
<1>5. ASSUME NEW e \in LongEnough(text, base) PROVE FALSE
  <2>1. e \in Boundaries(buf, 0) /\ e >= MinSentenceRunes
    BY <1>4, <1>5 DEF LongEnough
  <2>2. e \in Nat
    BY <2>1 DEF Boundaries
  <2>3. e < MinSentenceRunes
    BY <1>1, <2>1
  <2> QED BY <2>1, <2>2, <2>3, SentencerAssumption
<1> QED BY <1>1, <1>5

\* A flushed text is cut as a whole one.
LEMMA FlushedWhole ==
    ASSUME NEW text \in Seq(Runes), NEW cut \in Seq(Spans), NEW st \in Sentencers,
           Tiles(cut, st, TRUE, text), st.base + Len(st.buf) = Len(text), Firm(cut, st, TRUE, FALSE, text)
    PROVE  Whole(text, cut)
<1> SUFFICES ASSUME NEW k \in 1..Len(cut)
             PROVE  cut[k].end = IF LongEnough(text, cut[k].start) = {} THEN Len(text)
                                 ELSE cut[k].start + Min(LongEnough(text, cut[k].start))
  BY DEF Whole
<1>1. Tile(cut, text, k)
  BY DEF Tiles
<1>2. CASE AtBoundary(cut, st, TRUE, k)
  <2>1. First(text, cut[k])
    BY <1>2 DEF Firm
  <2> QED BY <1>1, <2>1, FirstIsLeast DEF Tile
<1>3. CASE ~AtBoundary(cut, st, TRUE, k)
  <2>1. k = Len(cut) /\ st.buf # <<>> /\ cut # <<>>
    BY <1>3 DEF AtBoundary
  <2>2. cut[k].start = st.base /\ cut[k].end = Len(text)
    BY <2>1 DEF Tiles, EndOf
  <2>3. PartAt(st.buf, text, st.base) /\ \A e \in Boundaries(st.buf, 0) : e < MinSentenceRunes
    BY DEF Tiles, Firm
  <2>4. LongEnough(text, st.base) = {}
    BY <2>3, NoMore
  <2> QED BY <2>2, <2>4
<1> QED BY <1>2, <1>3

\* What the sentences are, at any time.
LEMMA TextTold == told.text \in Seq(Runes) /\ TextInv => SentencesTile
<1> SUFFICES ASSUME told.text \in Seq(Runes), TextInv PROVE SentencesTile
  OBVIOUS
<1>t. TextTypeOK
  BY DEF TextInv
<1>1. PICK text, e, p, cut, st :
        text = told.text /\ e = emitted /\ p = sstage.pend /\ cut = Cut /\ st = sstage.st
  OBVIOUS
<1>2. /\ text \in Seq(Runes) /\ e \in Seq(Spans) /\ p \in Seq(Spans) /\ cut = e \o p /\ st \in Sentencers
      /\ st.base \in Nat /\ Len(st.buf) \in Nat /\ Len(e) \in Nat /\ Len(p) \in Nat
  BY <1>1, <1>t DEF TextTypeOK, Cut, Sentencers
<1>3. Len(cut) = Len(e) + Len(p) /\ \A k \in 1..Len(e) : k \in 1..Len(cut) /\ cut[k] = e[k]
  BY <1>2
<1>4. Tiles(cut, st, sstage.flushed, text)
  BY <1>1 DEF TextInv
<1>5. ASSUME NEW k \in 1..Len(e)
      PROVE  /\ e[k].start = IF k = 1 THEN 0 ELSE e[k - 1].end
             /\ e[k].text = SubSeq(text, e[k].start + 1, e[k].end)
             /\ k < Len(e) => Len(e[k].text) >= MinSentenceRunes
  <2>1. k \in 1..Len(cut) /\ cut[k] = e[k] /\ (k # 1 => k - 1 \in 1..Len(e) /\ cut[k - 1] = e[k - 1])
    BY <1>2, <1>3
  <2>2. Tile(cut, text, k) /\ (AtBoundary(cut, st, sstage.flushed, k) => Len(cut[k].text) >= MinSentenceRunes)
    BY <1>4, <2>1 DEF Tiles
  <2>3. e[k].start = IF k = 1 THEN 0 ELSE e[k - 1].end
    BY <2>1, <2>2 DEF Tile, PrevEnd
  <2>4. e[k].text = SubSeq(text, e[k].start + 1, e[k].end)
    <3>1. e[k] \in Spans
      BY <1>2
    <3>2. e[k].text \in Seq(Runes) /\ e[k].start \in Nat
      BY <3>1 DEF Spans
    <3>3. PartAt(e[k].text, text, e[k].start) /\ e[k].end = e[k].start + Len(e[k].text)
      BY <2>1, <2>2 DEF Tile
    <3>4. e[k].text = SubSeq(text, e[k].start + 1, e[k].start + Len(e[k].text))
      BY <1>2, <3>2, <3>3, PartSub
    <3> QED BY <3>3, <3>4
  <2>5. k < Len(e) => k < Len(cut)
    BY <1>2, <1>3
  <2> QED BY <2>1, <2>2, <2>3, <2>4, <2>5 DEF AtBoundary
<1>6. ASSUME sstage.pc = "done", ~cancelled
      PROVE  /\ text # <<>> => e # <<>> /\ Last(e).end = Len(text)
             /\ ~Contains(text, "cjk") => Whole(text, e)
  <2>1. sstage.flushed = TRUE /\ p = <<>> /\ chunks.q = <<>> /\ lstage.pc = "done"
    BY <1>1, <1>6, <1>t DEF TextInv, Drained, TextTypeOK
  <2>2. cut = e
    BY <1>2, <2>1, CutAll
  <2>3. PICK at : at = st.base + Len(st.buf)
    OBVIOUS
  <2>4. at = Len(text)
    <3>1. PICK to \in 0..Len(text) : Between(<<>>, text, at, to) /\ to = Len(text)
      BY <1>1, <1>6, <2>1, <2>3 DEF TextInv, Chunked
    <3>2. at \in Nat
      BY <1>2, <2>3
    <3> QED BY <3>1, <3>2, BetweenNone
  <2>5. Tiles(e, st, TRUE, text)
    BY <1>4, <2>1, <2>2
  <2>6. EndOf(e) = Len(text)
    BY <2>3, <2>4, <2>5 DEF Tiles
  <2>7. text # <<>> => e # <<>> /\ Last(e).end = Len(text)
    <3>1. text # <<>> => Len(text) # 0
      BY <1>2
    <3>2. Last(e) = e[Len(e)]
      BY DEF Last
    <3> QED BY <2>6, <3>1, <3>2 DEF EndOf
  <2>8. ASSUME ~Contains(text, "cjk") PROVE Whole(text, e)
    <3>1. (sstage.pc = "split") = FALSE
      BY <1>6
    <3>2. Firm(e, st, TRUE, FALSE, text)
      BY <1>1, <2>1, <2>2, <2>8, <3>1 DEF TextInv
    <3>3. st.base + Len(st.buf) = Len(text)
      BY <2>3, <2>4
    <3> QED BY <1>2, <2>5, <3>2, <3>3, FlushedWhole
  <2> QED BY <2>7, <2>8
<1> QED BY <1>1, <1>5, <1>6 DEF SentencesTile

\* What the actor was told, at any time.
LEMMA AudioTold == IInv => AudioFollowsText
<1> SUFFICES ASSUME IInv PROVE AudioFollowsText
  OBVIOUS
<1>0. AudioInv /\ TtsTypeOK /\ told.audio \in Seq(Nat)
  BY DEF IInv, AudioInv, CallInv, LlmTypeOK, Reports
<1>1. /\ Taken \in Nat /\ Len(emitted) \in Nat /\ Taken <= Len(emitted)
      /\ Taken = Len(emitted) - Len(sentences.q) /\ \A x \in 0..Taken : x \in Nat /\ x <= Taken
  BY <1>0, TakenIn
<1>2. \E a \in 0..Taken :
         /\ Speaks(told.audio, emitted, 0, a)
         /\ told.ttsDone => SentencesOver /\ Speaks(<<>>, emitted, a, Taken)
  <2>1. sc.tts \in {"none", "qwen", "realtime", "speech"}
    BY <1>0 DEF TtsTypeOK, SpeechStreams
  <2>2. CASE told.audio = <<>> /\ ~told.ttsDone
    <3>1. Speaks(<<>>, emitted, 0, 0) /\ 0 \in 0..Taken
      BY <1>1, SpeaksNone
    <3> QED BY <2>2, <3>1
  <2>3. CASE sc.tts = "none"
    BY <1>0, <2>2, <2>3 DEF AudioInv, TextOnly, Unspoken, Silence
  <2>4. CASE sc.tts \in {"qwen", "realtime"}
    <3>1. Spoken
      BY <1>0, <2>4, SpokenHas
    <3>2. CASE wstage.pc = "off"
      BY <2>2, <3>1, <3>2 DEF Spoken, Silence
    <3>3. CASE wstage.pc # "off"
      <4>1. PICK a \in 0..Taken, b \in 0..Taken, c \in 0..Taken, d \in 0..Taken : Chain(a, b, c, d)
        BY <1>0, <2>4, <3>3, SpokenHas
      <4>2. /\ Speaks(told.audio, emitted, 0, a)
            /\ told.ttsDone => SentencesOver /\ Speaks(<<>>, emitted, a, Taken)
        BY <4>1, ChainHas
      <4> QED BY <4>1, <4>2
    <3> QED BY <3>2, <3>3
  <2>5. CASE sc.tts = "speech"
    <3>1. PICK a \in 0..Taken, b \in 0..Taken : Solo(a, b)
      BY <1>0, <2>5, SinglyHas
    <3>2. /\ Speaks(told.audio, emitted, 0, a)
          /\ told.ttsDone => Speaks(<<>>, emitted, a, Taken)
      BY <3>1, SoloHas
    <3>3. told.ttsDone => SentencesOver
      BY <1>0, <2>5 DEF AudioInv, SpokenSingly
    <3> QED BY <3>1, <3>2, <3>3
  <2> QED BY <2>1, <2>3, <2>4, <2>5
<1>3. PICK a \in 0..Taken :
         /\ Speaks(told.audio, emitted, 0, a)
         /\ told.ttsDone => SentencesOver /\ Speaks(<<>>, emitted, a, Taken)
  BY <1>2
<1>4. a \in 0..Len(emitted) /\ a \in Nat /\ a <= Taken
  BY <1>1
<1>5. ASSUME told.ttsDone PROVE sentences.closed /\ Speaks(told.audio, emitted, 0, Len(emitted))
  <2>1. sentences.q = <<>> /\ sentences.closed
    BY <1>3, <1>5 DEF SentencesOver
  <2>2. Taken = Len(emitted)
    BY <1>1, <2>1
  <2>3. Speaks(told.audio, emitted, 0, Taken)
    BY <1>0, <1>1, <1>3, <1>4, <1>5, SpeaksExtend
  <2> QED BY <2>1, <2>2, <2>3
<1> QED BY <1>3, <1>4, <1>5 DEF AudioFollowsText

\* "So the session never sees a partial call" (toolCalls, done and llmStage): whatever the
\* service sends, however often the stages are interleaved and whenever the response is
\* cancelled, the actor is told of at most one tool call, and of a whole one.
THEOREM SessionSeesWholeCalls == Spec => []CallsWhole
<1>1. IInv => CallsWhole
  BY DEF IInv, CallInv, Passing, WholeCall, CallsWhole
<1> QED BY <1>1, InitIInv, NextIInv, PTL DEF Spec

\* The audio follows the text (pipeline.go and the three TTS streams): for every script,
\* every number of sentences and every capacity of the channels, the actor gets the audio
\* of the sentences in order, each once, and the end of it only after all of it.
THEOREM AudioAlwaysFollowsText == Spec => []AudioFollowsText
<1> QED BY AudioTold, InitIInv, NextIInv, PTL DEF Spec

\* The sentences tile the text (sentencer.go, and pipeline.go's llmStage and
\* sentencerStage): for every text, every way of cutting it into deltas, every capacity
\* of the channels and every minimum length, the sentences are the text the client is
\* shown, piece by piece; and those of a text without CJK terminators end where a
\* sentencer that had all of it at once would end them.
THEOREM SentencesAlwaysTile == Spec => []SentencesTile
<1>1. IInv => told.text \in Seq(Runes)
  BY DEF IInv, CallInv, LlmTypeOK, Reports
<1> QED BY <1>1, TextTold, InitText, NextText, InitIInv, NextIInv, PTL DEF Spec

=============================================================================
