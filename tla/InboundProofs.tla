---------------------------- MODULE InboundProofs ----------------------------
(***************************************************************************)
(* Proofs about Inbound, for every queue capacity: IInv is an invariant,   *)
(* and the two channels with their stashes implement the one ordered queue *)
(* of OrderedInput.                                                        *)
(***************************************************************************)
EXTENDS Inbound, TLAPS

\* Receiving from an ordered channel: what is left is ordered, and comes after what was
\* received.
LEMMA ReceiveOrdered ==
  ASSUME NEW q \in Seq(Nat), q # <<>>, Increasing(q)
  PROVE  /\ Head(q) \in Nat /\ Tail(q) \in Seq(Nat)
         /\ Increasing(Tail(q)) /\ Below(Head(q), Tail(q))
         /\ \A h \in Nat : Below(h, q) => h < Head(q) /\ Below(h, Tail(q))
         /\ \A m \in Nat : In(m, q) <=> m = Head(q) \/ In(m, Tail(q))
<1>1. Head(q) = q[1] /\ Head(q) \in Nat /\ Tail(q) \in Seq(Nat) /\ Len(q) \in Nat /\ Len(q) >= 1
  OBVIOUS
<1>2. Len(Tail(q)) = Len(q) - 1 /\ \A i \in 1..Len(Tail(q)) : Tail(q)[i] = q[i + 1]
  OBVIOUS
<1>3. Increasing(Tail(q)) BY <1>1, <1>2 DEF Increasing
<1>4. Below(Head(q), Tail(q)) BY <1>1, <1>2 DEF Increasing, Below
<1>5. \A h \in Nat : Below(h, q) => h < Head(q) /\ Below(h, Tail(q))
  BY <1>1, <1>2 DEF Below
<1>6. ASSUME NEW m \in Nat, In(m, q) PROVE m = Head(q) \/ In(m, Tail(q))
  <2>1. PICK i \in 1..Len(q) : q[i] = m BY <1>6 DEF In
  <2>2. CASE i = 1 BY <1>1, <2>1, <2>2
  <2>3. CASE i # 1
    <3>1. i - 1 \in 1..Len(Tail(q)) /\ Tail(q)[i - 1] = m BY <1>1, <1>2, <2>1, <2>3
    <3> QED BY <3>1 DEF In
  <2> QED BY <2>2, <2>3
<1>7. ASSUME NEW m \in Nat, m = Head(q) \/ In(m, Tail(q)) PROVE In(m, q)
  <2>1. CASE m = Head(q) BY <1>1, <2>1 DEF In
  <2>2. CASE In(m, Tail(q))
    <3>1. PICK i \in 1..Len(Tail(q)) : Tail(q)[i] = m BY <2>2 DEF In
    <3>2. i + 1 \in 1..Len(q) /\ q[i + 1] = m BY <1>1, <1>2, <3>1
    <3> QED BY <3>2 DEF In
  <2> QED BY <1>7, <2>1, <2>2
<1> QED BY <1>1, <1>3, <1>4, <1>5, <1>6, <1>7

\* Sending adds one input.
LEMMA SendKeeps ==
  ASSUME NEW q \in Seq(Nat), NEW n \in Nat, NEW a, a = Append(q, n)
  PROVE  a \in Seq(Nat) /\ \A m \in Nat : In(m, q) \/ m = n <=> In(m, a)
<1>1. a \in Seq(Nat) /\ Len(a) = Len(q) + 1 /\ Len(q) \in Nat /\ a[Len(q) + 1] = n
  OBVIOUS
<1>2. \A i \in 1..Len(q) : a[i] = q[i] /\ q[i] \in Nat OBVIOUS
<1>3. \A i \in 1..Len(a) : i \in 1..Len(q) \/ i = Len(q) + 1 BY <1>1
<1>4. ASSUME NEW m \in Nat, In(m, q) \/ m = n PROVE In(m, a)
  <2>1. CASE m = n BY <1>1, <2>1 DEF In
  <2>2. CASE In(m, q)
    <3>1. PICK i \in 1..Len(q) : q[i] = m BY <2>2 DEF In
    <3>2. i \in 1..Len(a) /\ a[i] = m BY <1>1, <1>2, <3>1
    <3> QED BY <3>2 DEF In
  <2> QED BY <1>4, <2>1, <2>2
<1>5. ASSUME NEW m \in Nat, In(m, a) PROVE In(m, q) \/ m = n
  <2>1. PICK i \in 1..Len(a) : a[i] = m BY <1>5 DEF In
  <2> QED BY <1>1, <1>2, <1>3, <2>1 DEF In
<1> QED BY <1>1, <1>4, <1>5

\* Sending the newest input keeps a channel ordered.
LEMMA SendOrdered ==
  ASSUME NEW q \in Seq(Nat), NEW n \in Nat, Increasing(q), \A i \in 1..Len(q) : q[i] < n,
         NEW a, a = Append(q, n)
  PROVE  /\ a \in Seq(Nat) /\ Increasing(a)
         /\ \A h \in Nat : h < n /\ Below(h, q) => Below(h, a)
<1>1. a \in Seq(Nat) /\ Len(a) = Len(q) + 1 /\ Len(q) \in Nat /\ a[Len(q) + 1] = n
  OBVIOUS
<1>2. \A i \in 1..Len(q) : a[i] = q[i] /\ q[i] \in Nat OBVIOUS
<1>3. \A i \in 1..Len(a) : i \in 1..Len(q) \/ i = Len(q) + 1 BY <1>1
<1>4. ASSUME NEW i \in 1..Len(a), NEW j \in 1..Len(a), i < j PROVE a[i] < a[j]
  <2>1. i \in 1..Len(q) BY <1>1, <1>4
  <2>2. CASE j = Len(q) + 1 BY <1>1, <1>2, <2>1, <2>2
  <2>3. CASE j \in 1..Len(q) BY <1>2, <1>4, <2>1, <2>3 DEF Increasing
  <2> QED BY <1>3, <2>2, <2>3
<1>5. ASSUME NEW h \in Nat, h < n, Below(h, q), NEW i \in 1..Len(a) PROVE h < a[i]
  BY <1>1, <1>2, <1>3, <1>5 DEF Below
<1> QED BY <1>1, <1>4, <1>5 DEF Increasing, Below

\* A bound on the numbers in a channel survives a receive and a send.
LEMMA BoundKept ==
  ASSUME NEW q \in Seq(Nat), NEW b \in Nat, NEW c \in Nat, b <= c, NEW n \in Nat, n <= c,
         \A i \in 1..Len(q) : q[i] <= b
  PROVE  /\ q # <<>> => Head(q) <= c /\ \A i \in 1..Len(Tail(q)) : Tail(q)[i] <= c
         /\ \A i \in 1..Len(Append(q, n)) : Append(q, n)[i] <= c
<1>1. /\ Append(q, n) \in Seq(Nat) /\ Len(Append(q, n)) = Len(q) + 1 /\ Len(q) \in Nat
      /\ Append(q, n)[Len(q) + 1] = n
      /\ \A i \in 1..Len(q) : Append(q, n)[i] = q[i] /\ q[i] \in Nat
  OBVIOUS
<1>2. ASSUME q # <<>>
      PROVE  /\ Head(q) = q[1] /\ 1 \in 1..Len(q) /\ Len(Tail(q)) = Len(q) - 1
             /\ \A i \in 1..Len(Tail(q)) : Tail(q)[i] = q[i + 1] /\ i + 1 \in 1..Len(q)
  BY <1>2
<1> QED BY <1>1, <1>2

\* The same for the stash and its channel together, as the drain loop sees them.
LEMMA FirstRest ==
  ASSUME NEW q \in Seq(Nat), NEW stash \in Nat, Increasing(q),
         Below(0, q), stash # 0 => Below(stash, q)
  PROVE  LET n == First(stash, q)
             r == Rest(stash, q)
         IN  /\ n \in Nat /\ r \in Seq(Nat) /\ Increasing(r)
             /\ n = 0 => r = <<>> /\ stash = 0
             /\ n # 0 => Below(n, r)
             /\ \A h \in Nat : Below(h, q) /\ (stash # 0 => h < stash)
                  => Below(h, r) /\ (n # 0 => h < n)
             /\ \A m \in Nat \ {0} : In(m, q) \/ m = stash <=> In(m, r) \/ m = n
             /\ \A b \in Nat : stash <= b /\ (\A i \in 1..Len(q) : q[i] <= b)
                  => n <= b /\ \A i \in 1..Len(r) : r[i] <= b
<1>1. CASE stash # 0 BY <1>1 DEF First, Rest
<1>2. CASE stash = 0 /\ q # <<>>
  <2> DEFINE h0 == Head(q)
             t == Tail(q)
  <2>1. /\ h0 \in Nat /\ t \in Seq(Nat) /\ Increasing(t) /\ Below(h0, t)
        /\ \A h \in Nat : Below(h, q) => h < h0 /\ Below(h, t)
        /\ \A m \in Nat : In(m, q) <=> m = h0 \/ In(m, t)
    BY <1>2, ReceiveOrdered
  <2> HIDE DEF h0, t
  <2>2. First(stash, q) = h0 /\ Rest(stash, q) = t BY <1>2 DEF First, Rest, h0, t
  <2>3. h0 # 0 BY <2>1
  <2>4. \A b \in Nat : (\A i \in 1..Len(q) : q[i] <= b) => h0 <= b /\ \A i \in 1..Len(t) : t[i] <= b
    BY <1>2, BoundKept DEF h0, t
  <2> QED BY <1>2, <2>1, <2>2, <2>3, <2>4
<1>3. CASE stash = 0 /\ q = <<>>
  <2>1. First(stash, q) = 0 /\ Rest(stash, q) = q BY <1>3 DEF First, Rest
  <2>2. \A m : ~In(m, q) BY <1>3 DEF In
  <2> QED BY <1>3, <2>1, <2>2
<1> QED BY <1>1, <1>2, <1>3

-----------------------------------------------------------------------------
(* The inductive invariant. *)

\* A number stays with commands or with audio when it only moves within one of them.
LEMMA ApartKept ==
  ASSUME Apart, seq' = seq,
         \A n \in 1..seq : /\ CommandWaits(n)' => CommandWaits(n)
                           /\ AudioWaits(n)' => AudioWaits(n)
  PROVE  Apart'
<1> SUFFICES ASSUME NEW n \in 1..seq PROVE ~(CommandWaits(n)' /\ AudioWaits(n)')
  BY DEF Apart
<1> QED BY DEF Apart

\* What waits does not depend on anything else.
LEMMA WaitsSame ==
  ASSUME UNCHANGED <<cmds, audioIn, stashCmd, stashAudio, kind, cur>>, Holding' <=> Holding, NEW n
  PROVE  (CommandWaits(n)' <=> CommandWaits(n)) /\ (AudioWaits(n)' <=> AudioWaits(n))
BY DEF CommandWaits, AudioWaits, In

\* A step that moves neither inputs nor numbers and stays in or out of the drain loop
\* keeps the order.
LEMMA OrderSame ==
  ASSUME UNCHANGED <<cmds, audioIn, stashCmd, stashAudio, kind, cur, seq, handled>>,
         Holding' <=> Holding
  PROVE  (InOrder => InOrder') /\ (Apart => Apart') /\ (AllPosted => AllPosted')
<1>1. InOrder => InOrder' BY DEF InOrder, Increasing, Below
<1>2. Apart => Apart' BY WaitsSame, ApartKept
<1>3. AllPosted => AllPosted' BY DEF AllPosted, Within
<1> QED BY <1>1, <1>2, <1>3

\* A handler leaves the context as it was or cancelled.
LEMMA OnlyCancels ==
  ASSUME open \in BOOLEAN, open' \in {open, FALSE}
  PROVE  open' \in BOOLEAN /\ (open' => open)
<1>1. CASE open' = open BY <1>1, Zenon
<1>2. CASE open' = FALSE BY <1>2, Zenon
<1> QED BY <1>1, <1>2

\* A new session satisfies it.
LEMMA InitInv == Init => IInv
<1> SUFFICES ASSUME Init PROVE IInv OBVIOUS
<1>1. cmds = <<>> /\ audioIn = <<>> /\ Len(cmds) = 0 /\ Len(audioIn) = 0 /\ seq = 0
  BY DEF Init
<1>2. \A i \in 1..0 : FALSE OBVIOUS
<1>3. TypeOK BY DEF Init, TypeOK
<1>4. AllPosted /\ PostingNewest BY <1>1, <1>2 DEF Init, AllPosted, PostingNewest, Within
<1>5. InOrder /\ Apart
  BY <1>1, <1>2 DEF Init, InOrder, Increasing, Below, Holding, Apart
<1>6. NothingLost /\ LateCount BY <1>1, <1>2 DEF Init, NothingLost, LateCount
<1> QED BY <1>3, <1>4, <1>5, <1>6 DEF IInv

\* The producer: the counter grows, so what it sends is newer than everything.
LEMMA ProducerInv ==
  ASSUME IInv, Call \/ Post \/ PostSent \/ PostClosed \/ PostAudio \/ Cancel
  PROVE  IInv'
<1>0. TypeOK /\ UNCHANGED <<pc, kind, cur, handled, late, stashCmd, stashAudio>> /\ (Holding' <=> Holding)
  BY DEF Call, Post, PostSent, PostClosed, PostAudio, Cancel, IInv, channels, actor, Holding
<1>1. CASE Post
  <2>0. /\ posting = 0 /\ posting' = seq + 1 /\ seq' = seq + 1 /\ UNCHANGED <<cmds, audioIn, open>>
        /\ called' = "none"
    BY <1>1 DEF Post, channels, IInv, PostingNewest
  <2>1. TypeOK' BY <1>0, <2>0 DEF TypeOK
  <2>2. /\ handled <= seq /\ stashCmd <= seq /\ stashAudio <= seq /\ (Holding => cur <= seq)
        /\ Within(cmds) /\ Within(audioIn)
    BY <1>0 DEF IInv, AllPosted
  <2>3. AllPosted' /\ PostingNewest'
    BY <1>0, <2>0, <2>2 DEF TypeOK, AllPosted, PostingNewest, Within
  <2>4. CanHandle' <=> CanHandle BY <1>0, <2>0 DEF CanHandle
  <2>5. InOrder => InOrder' BY <1>0, <2>0 DEF TypeOK, InOrder, Below, Increasing
  <2>6. Apart => Apart'
    <3> SUFFICES ASSUME Apart, NEW n \in 1..seq', CommandWaits(n), AudioWaits(n) PROVE FALSE
      BY <1>0, <2>0, WaitsSame DEF Apart
    <3>1. n # seq + 1 BY <1>0, <2>2 DEF CommandWaits, In, Within, TypeOK
    <3> QED BY <1>0, <2>0, <3>1 DEF Apart, TypeOK
  <2>7. NothingLost' /\ LateCount'
    <3>1. ASSUME open, NEW n \in (handled + 1)..seq' PROVE Waiting(n)'
      <4>1. n = seq + 1 \/ Waiting(n) BY <1>0, <2>0, <3>1 DEF IInv, NothingLost, TypeOK
      <4>2. CommandWaits(n) \/ AudioWaits(n) => CommandWaits(n)' \/ AudioWaits(n)'
        BY <1>0, <2>0, WaitsSame
      <4>3. n = posting => FALSE BY <1>0, <2>0, <3>1 DEF TypeOK
      <4> QED BY <2>0, <4>1, <4>2, <4>3 DEF Waiting
    <3>2. LateCount' BY <1>0, <2>0 DEF IInv, LateCount
    <3> QED BY <1>0, <2>0, <3>1, <3>2 DEF NothingLost
  <2> QED BY <2>1, <2>3, <2>4, <2>5, <2>6, <2>7 DEF IInv
<1>2. CASE PostSent
  <2> DEFINE a == Append(cmds, posting)
  <2>0. /\ cmds \in Seq(Nat) /\ posting \in Nat /\ posting = seq /\ posting # 0 /\ posting' = 0
        /\ cmds' = a /\ \A i \in 1..Len(cmds) : cmds[i] < posting
        /\ UNCHANGED <<seq, called, audioIn, open>>
    BY <1>2 DEF PostSent, IInv, TypeOK, PostingNewest
  <2>1. TypeOK' BY <1>0, <2>0 DEF TypeOK
  <2>2. AllPosted' /\ PostingNewest'
    <3>1. \A i \in 1..Len(a) : a[i] <= seq BY <2>0, BoundKept DEF IInv, AllPosted, Within
    <3> HIDE DEF a
    <3> QED BY <1>0, <2>0, <3>1 DEF IInv, TypeOK, AllPosted, PostingNewest, Within
  <2>3. CanHandle => Increasing(cmds) BY DEF IInv, InOrder
  <2>4. ASSUME CanHandle
        PROVE  /\ Increasing(a) /\ \A h \in Nat : h < posting /\ Below(h, cmds) => Below(h, a)
               /\ \A m \in Nat : In(m, cmds) \/ m = posting <=> In(m, a)
    BY <2>0, <2>3, <2>4, SendOrdered, SendKeeps
  <2>5. (CanHandle => InOrder /\ Apart)'
    <3> SUFFICES ASSUME CanHandle' PROVE InOrder' /\ Apart' OBVIOUS
    <3>1. CanHandle BY <1>0, <2>0 DEF CanHandle
    <3>2. InOrder /\ Apart BY <3>1 DEF IInv
    <3> HIDE DEF a
    <3>3. InOrder'
      BY <1>0, <2>0, <2>4, <3>1, <3>2 DEF IInv, TypeOK, PostingNewest, InOrder
    <3>4. Apart'
      <4> SUFFICES ASSUME NEW n \in 1..seq, CommandWaits(n)', AudioWaits(n)' PROVE FALSE
        BY <2>0 DEF Apart
      <4>1. CommandWaits(n) \/ n = posting
        BY <1>0, <2>0, <2>4, <3>1 DEF CommandWaits
      <4>2. AudioWaits(n) BY <1>0, <2>0 DEF AudioWaits, In
      <4>3. n # posting
        BY <1>0, <2>0, <4>2 DEF AudioWaits, In, IInv, PostingNewest, TypeOK
      <4> QED BY <3>2, <4>1, <4>2, <4>3 DEF Apart
    <3> QED BY <3>3, <3>4
  <2>6. NothingLost' /\ LateCount'
    <3>1. LateCount' BY <1>0, <2>0 DEF IInv, LateCount
    <3>2. ASSUME open, NEW n \in (handled + 1)..seq PROVE Waiting(n)'
      <4>1. n \in Nat /\ CanHandle BY <1>0, <3>2 DEF TypeOK, CanHandle
      <4>2. Waiting(n) BY <3>2 DEF IInv, NothingLost
      <4>3. In(n, cmds) \/ n = posting => In(n, a) BY <2>4, <4>1
      <4> HIDE DEF a
      <4> QED BY <1>0, <2>0, <4>2, <4>3 DEF Waiting, CommandWaits, AudioWaits, In
    <3> QED BY <1>0, <2>0, <3>1, <3>2 DEF NothingLost
  <2> QED BY <2>1, <2>2, <2>5, <2>6 DEF IInv
<1>3. CASE PostClosed \/ Cancel
  <2>0. /\ UNCHANGED <<seq, called, cmds, audioIn>> /\ posting' \in {posting, 0} /\ ~open'
        /\ open' \in BOOLEAN /\ (CanHandle' => CanHandle)
    <3>1. CASE PostClosed
      <4>1. UNCHANGED <<seq, called, cmds, audioIn>> /\ posting' = 0 BY <3>1 DEF PostClosed, channels
      <4>2. ~open' /\ open' \in BOOLEAN BY <1>0, <3>1, Zenon DEF PostClosed, TypeOK
      <4>3. CanHandle' => CanHandle BY <1>0, <4>2 DEF CanHandle
      <4> QED BY <4>1, <4>2, <4>3
    <3>2. CASE Cancel
      <4>1. UNCHANGED <<seq, called, cmds, audioIn, posting>> BY <3>2 DEF Cancel, channels, producer
      <4>2. ~open' /\ open' \in BOOLEAN BY <3>2, Zenon DEF Cancel
      <4>3. CanHandle' => CanHandle BY <1>0, <4>2 DEF CanHandle
      <4> QED BY <4>1, <4>2, <4>3
    <3> QED BY <1>3, <3>1, <3>2
  <2>1. TypeOK' BY <1>0, <2>0 DEF TypeOK
  <2>2. AllPosted' /\ (CanHandle => InOrder /\ Apart)' BY <1>0, <2>0, OrderSame DEF IInv
  <2>3. PostingNewest' BY <1>0, <2>0 DEF IInv, PostingNewest
  <2>4. NothingLost' /\ LateCount' BY <1>0, <2>0 DEF NothingLost, LateCount, IInv
  <2> QED BY <2>1, <2>2, <2>3, <2>4 DEF IInv
<1>4. CASE PostAudio
  <2> DEFINE n == seq + 1
             a == Append(audioIn, n)
  <2>0. /\ audioIn \in Seq(Nat) /\ n \in Nat /\ n = seq' /\ posting = 0 /\ posting' = 0
        /\ n = seq + 1 /\ seq \in Nat /\ cmds' = cmds /\ called' = "none"
        /\ \A i \in 1..Len(audioIn) : audioIn[i] < n
    BY <1>4 DEF PostAudio, IInv, TypeOK, AllPosted, PostingNewest, Within
  <2>1. \/ open' = open /\ audioIn' = a
        \/ open' = FALSE /\ audioIn' = audioIn
    BY <1>4 DEF PostAudio
  <2>2. open' \in BOOLEAN /\ (open' => open)
    <3>1. open' \in {open, FALSE} BY <2>1
    <3> QED BY <1>0, <3>1, OnlyCancels DEF TypeOK
  <2>3. /\ \A i \in 1..Len(a) : a[i] <= n
        /\ a \in Seq(Nat)
        /\ \A m \in Nat : In(m, audioIn) \/ m = n <=> In(m, a)
        /\ Increasing(audioIn) =>
             Increasing(a) /\ \A h \in Nat : h < n /\ Below(h, audioIn) => Below(h, a)
    <3>1. \A i \in 1..Len(audioIn) : audioIn[i] <= seq BY DEF IInv, AllPosted, Within
    <3> HIDE DEF n
    <3>2. \A i \in 1..Len(a) : a[i] <= n BY <2>0, <3>1, BoundKept
    <3>3. a = Append(audioIn, n) OBVIOUS
    <3> HIDE DEF a
    <3>4. /\ a \in Seq(Nat) /\ \A m \in Nat : In(m, audioIn) \/ m = n <=> In(m, a)
      BY <2>0, <3>3, SendKeeps
    <3>5. Increasing(audioIn) =>
             Increasing(a) /\ \A h \in Nat : h < n /\ Below(h, audioIn) => Below(h, a)
      BY <2>0, <3>3, SendOrdered
    <3> QED BY <3>2, <3>4, <3>5
  <2>4. handled < n /\ stashCmd < n /\ stashAudio < n /\ (Holding => cur < n)
    BY <1>0, <2>0 DEF IInv, AllPosted, TypeOK
  <2>5. ASSUME NEW m \in 1..n, CommandWaits(m) PROVE m \in 1..seq
    BY <1>0, <2>0, <2>4, <2>5 DEF CommandWaits, In, IInv, AllPosted, Within, TypeOK
  <2>6. ASSUME NEW m \in Nat PROVE AudioWaits(m)' => AudioWaits(m) \/ m = n
    <3>1. In(m, audioIn)' => In(m, audioIn) \/ m = n
      <4>1. CASE audioIn' = a BY <2>3, <4>1
      <4>2. CASE audioIn' = audioIn BY <4>2 DEF In
      <4> QED BY <2>1, <4>1, <4>2
    <3> QED BY <1>0, <3>1 DEF AudioWaits
  <2> HIDE DEF n, a
  <2>7. TypeOK' BY <1>0, <2>0, <2>1, <2>2, <2>3 DEF TypeOK
  <2>8. AllPosted' /\ PostingNewest'
    <3>1. Within(audioIn)' BY <2>0, <2>1, <2>3 DEF Within
    <3>2. Within(cmds)' BY <1>0, <2>0 DEF IInv, AllPosted, Within, TypeOK
    <3> QED BY <1>0, <2>0, <2>4, <3>1, <3>2 DEF AllPosted, PostingNewest, TypeOK
  <2>9. CanHandle' => CanHandle BY <1>0, <2>2 DEF CanHandle
  <2>10. InOrder => InOrder'
    <3> SUFFICES ASSUME InOrder PROVE InOrder' OBVIOUS
    <3>1. /\ Increasing(audioIn)'
          /\ \A h \in Nat : h < n /\ Below(h, audioIn) => Below(h, audioIn')
      <4>1. CASE audioIn' = a BY <2>3, <4>1 DEF InOrder
      <4>2. CASE audioIn' = audioIn BY <4>2 DEF InOrder, Increasing
      <4> QED BY <2>1, <4>1, <4>2
    <3>2. Increasing(cmds)' /\ Below(handled, cmds)' BY <1>0, <2>0 DEF InOrder
    <3>3. Below(handled, audioIn)' BY <1>0, <2>4, <3>1 DEF InOrder, TypeOK
    <3>4. (stashCmd # 0 => handled < stashCmd /\ Below(stashCmd, cmds))'
      BY <1>0, <2>0, <2>4 DEF InOrder, TypeOK
    <3>5. (stashAudio # 0 => handled < stashAudio /\ Below(stashAudio, audioIn))'
      BY <1>0, <2>0, <2>4, <3>1 DEF InOrder, TypeOK
    <3>6. (Holding /\ kind = "command" => stashCmd = 0 /\ Below(cur, cmds))'
      BY <1>0, <2>0 DEF InOrder
    <3>7. (Holding /\ kind = "audio" => stashAudio = 0 /\ Below(cur, audioIn))'
      BY <1>0, <2>4, <3>1 DEF InOrder, TypeOK
    <3>8. (Holding => handled < cur)' BY <1>0, <2>0 DEF InOrder, TypeOK
    <3> QED BY <3>1, <3>2, <3>3, <3>4, <3>5, <3>6, <3>7, <3>8 DEF InOrder
  <2>11. Apart => Apart'
    <3> SUFFICES ASSUME Apart, NEW m \in 1..n, CommandWaits(m)', AudioWaits(m)' PROVE FALSE
      BY <2>0 DEF Apart
    <3>1. CommandWaits(m) BY <1>0, <2>0 DEF CommandWaits, In
    <3>2. m \in 1..seq /\ m \in Nat /\ m # n BY <2>0, <2>5, <3>1
    <3>3. AudioWaits(m) BY <2>6, <3>2
    <3> QED BY <3>1, <3>2, <3>3 DEF Apart
  <2>12. NothingLost'
    <3> SUFFICES ASSUME open', NEW m \in (handled + 1)..n PROVE Waiting(m)'
      BY <1>0, <2>0 DEF NothingLost
    <3>1. (Waiting(m) \/ m = n) /\ m \in Nat /\ m # 0
      BY <1>0, <2>0, <2>2 DEF IInv, TypeOK, NothingLost
    <3>2. audioIn' = a BY <2>1
    <3> QED BY <1>0, <2>0, <2>3, <3>1, <3>2 DEF Waiting, CommandWaits, AudioWaits, In
  <2>13. LateCount' BY <1>0, <2>2 DEF IInv, LateCount
  <2> QED BY <2>7, <2>8, <2>9, <2>10, <2>11, <2>12, <2>13 DEF IInv
<1>5. CASE Call
  <2>0. /\ UNCHANGED <<seq, posting, cmds, audioIn, open>> /\ posting = 0
        /\ called' \in {"command", "audio"}
    BY <1>5 DEF Call, channels
  <2>1. TypeOK' BY <1>0, <2>0 DEF TypeOK
  <2>2. AllPosted' /\ (CanHandle => InOrder /\ Apart)'
    BY <1>0, <2>0, OrderSame DEF IInv, CanHandle
  <2>3. PostingNewest' BY <1>0, <2>0 DEF IInv, PostingNewest
  <2>4. LateCount' BY <1>0, <2>0 DEF IInv, LateCount
  <2>5. NothingLost'
    <3> SUFFICES ASSUME open, NEW n \in (handled + 1)..seq PROVE Waiting(n)'
      BY <1>0, <2>0 DEF NothingLost
    <3>1. Waiting(n) BY DEF IInv, NothingLost
    <3> QED BY <1>0, <2>0, <3>1, WaitsSame DEF Waiting
  <2> QED BY <2>1, <2>2, <2>3, <2>4, <2>5 DEF IInv
<1> QED BY <1>1, <1>2, <1>3, <1>4, <1>5

\* Taking an input in hand, from a stash or from a channel: it only moves, and what is
\* left of its kind comes after it.
LEMMA HoldInv ==
  ASSUME IInv, TakeStashedCommand \/ TakeStashedAudio \/ ReceiveCommand \/ ReceiveAudio
  PROVE  IInv'
<1>0. /\ TypeOK /\ pc = "pick" /\ pc' = "drain" /\ InOrder /\ Apart /\ ~Holding /\ Holding' /\ late = 0
      /\ UNCHANGED <<seq, called, posting, open, handled, late>>
  BY DEF IInv, CanHandle, TakeStashedCommand, TakeStashedAudio, ReceiveCommand, ReceiveAudio,
         AtSelect, Hold, producer, Holding, LateCount
<1>1. LateCount' BY <1>0 DEF LateCount
<1>2. SUFFICES TypeOK' /\ AllPosted' /\ PostingNewest' /\ InOrder' /\ Apart' /\ NothingLost'
  BY <1>1 DEF IInv
<1>3. ASSUME \A n \in 1..seq : CommandWaits(n)' <=> CommandWaits(n),
             \A n \in 1..seq : AudioWaits(n)' <=> AudioWaits(n)
      PROVE  Apart' /\ NothingLost'
  <2>1. Apart' BY <1>0, <1>3, ApartKept
  <2>2. ASSUME open, NEW n \in (handled + 1)..seq PROVE Waiting(n)'
    <3>1. n \in 1..seq BY <1>0, <2>2 DEF TypeOK
    <3>2. Waiting(n) BY <2>2 DEF IInv, NothingLost
    <3> QED BY <1>0, <1>3, <3>1, <3>2 DEF Waiting
  <2>3. NothingLost' BY <1>0, <2>2 DEF NothingLost
  <2> QED BY <2>1, <2>3
<1>4. CASE TakeStashedCommand
  <2>0. /\ stashCmd # 0 /\ cur' = stashCmd /\ stashCmd' = 0 /\ kind' = "command"
        /\ UNCHANGED <<cmds, audioIn, stashAudio>>
    BY <1>4 DEF TakeStashedCommand, CommandStashedFirst, Hold
  <2>1. TypeOK' BY <1>0, <2>0 DEF TypeOK
  <2>2. AllPosted' /\ PostingNewest' BY <1>0, <2>0 DEF IInv, TypeOK, AllPosted, PostingNewest, Within
  <2>3. InOrder' BY <1>0, <2>0 DEF TypeOK, InOrder
  <2>4. \A n \in 1..seq : (CommandWaits(n)' <=> CommandWaits(n)) /\ (AudioWaits(n)' <=> AudioWaits(n))
    BY <1>0, <2>0 DEF TypeOK, CommandWaits, AudioWaits, In
  <2> QED BY <1>3, <2>1, <2>2, <2>3, <2>4
<1>5. CASE TakeStashedAudio
  <2>0. /\ stashAudio # 0 /\ cur' = stashAudio /\ stashAudio' = 0 /\ kind' = "audio"
        /\ UNCHANGED <<cmds, audioIn, stashCmd>>
    BY <1>5 DEF TakeStashedAudio, Hold
  <2>1. TypeOK' BY <1>0, <2>0 DEF TypeOK
  <2>2. AllPosted' /\ PostingNewest' BY <1>0, <2>0 DEF IInv, TypeOK, AllPosted, PostingNewest, Within
  <2>3. InOrder' BY <1>0, <2>0 DEF TypeOK, InOrder
  <2>4. \A n \in 1..seq : (CommandWaits(n)' <=> CommandWaits(n)) /\ (AudioWaits(n)' <=> AudioWaits(n))
    BY <1>0, <2>0 DEF TypeOK, CommandWaits, AudioWaits, In
  <2> QED BY <1>3, <2>1, <2>2, <2>3, <2>4
<1>6. CASE ReceiveCommand
  <2> DEFINE h0 == Head(cmds)
             t == Tail(cmds)
  <2>0. /\ cmds # <<>> /\ cur' = h0 /\ cmds' = t /\ kind' = "command"
        /\ stashCmd = 0 /\ stashAudio = 0
        /\ UNCHANGED <<audioIn, stashCmd, stashAudio>>
    BY <1>6 DEF ReceiveCommand, Hold, AtSelect
  <2>1. /\ h0 \in Nat /\ t \in Seq(Nat) /\ Increasing(t) /\ Below(h0, t)
        /\ \A h \in Nat : Below(h, cmds) => h < h0 /\ Below(h, t)
        /\ \A m \in Nat : In(m, cmds) <=> m = h0 \/ In(m, t)
    BY <1>0, <2>0, ReceiveOrdered DEF TypeOK, InOrder
  <2>2. h0 <= seq /\ \A i \in 1..Len(t) : t[i] <= seq
    BY <1>0, <2>0, BoundKept DEF IInv, TypeOK, AllPosted, Within
  <2>3. posting # 0 => h0 < posting /\ \A i \in 1..Len(t) : t[i] < posting
    <3>1. \A i \in 1..Len(t) : t[i] = cmds[i + 1] /\ i + 1 \in 1..Len(cmds)
      BY <1>0, <2>0 DEF TypeOK
    <3>2. h0 = cmds[1] /\ 1 \in 1..Len(cmds) BY <1>0, <2>0 DEF TypeOK
    <3> HIDE DEF h0, t
    <3> QED BY <3>1, <3>2 DEF IInv, PostingNewest
  <2> HIDE DEF h0, t
  <2>4. TypeOK' BY <1>0, <2>0, <2>1 DEF TypeOK
  <2>5. AllPosted' /\ PostingNewest'
    BY <1>0, <2>0, <2>2, <2>3 DEF IInv, TypeOK, AllPosted, PostingNewest, Within
  <2>6. InOrder' BY <1>0, <2>0, <2>1, <2>2 DEF TypeOK, InOrder
  <2>7. \A n \in 1..seq : (CommandWaits(n)' <=> CommandWaits(n)) /\ (AudioWaits(n)' <=> AudioWaits(n))
    <3> SUFFICES ASSUME NEW n \in 1..seq
                 PROVE  (CommandWaits(n)' <=> CommandWaits(n)) /\ (AudioWaits(n)' <=> AudioWaits(n))
      OBVIOUS
    <3>1. n \in Nat /\ n # 0 BY <1>0 DEF TypeOK
    <3>2. CommandWaits(n)' <=> CommandWaits(n) BY <1>0, <2>0, <2>1, <3>1 DEF CommandWaits
    <3>3. AudioWaits(n)' <=> AudioWaits(n) BY <1>0, <2>0 DEF AudioWaits, In
    <3> QED BY <3>2, <3>3
  <2> QED BY <1>3, <2>4, <2>5, <2>6, <2>7
<1>7. CASE ReceiveAudio
  <2> DEFINE h0 == Head(audioIn)
             t == Tail(audioIn)
  <2>0. /\ audioIn # <<>> /\ cur' = h0 /\ audioIn' = t /\ kind' = "audio"
        /\ stashCmd = 0 /\ stashAudio = 0
        /\ UNCHANGED <<cmds, stashCmd, stashAudio>>
    BY <1>7 DEF ReceiveAudio, Hold, AtSelect
  <2>1. /\ h0 \in Nat /\ t \in Seq(Nat) /\ Increasing(t) /\ Below(h0, t)
        /\ \A h \in Nat : Below(h, audioIn) => h < h0 /\ Below(h, t)
        /\ \A m \in Nat : In(m, audioIn) <=> m = h0 \/ In(m, t)
    BY <1>0, <2>0, ReceiveOrdered DEF TypeOK, InOrder
  <2>2. h0 <= seq /\ \A i \in 1..Len(t) : t[i] <= seq
    BY <1>0, <2>0, BoundKept DEF IInv, TypeOK, AllPosted, Within
  <2>3. posting # 0 => h0 < posting /\ \A i \in 1..Len(t) : t[i] < posting
    <3>1. \A i \in 1..Len(t) : t[i] = audioIn[i + 1] /\ i + 1 \in 1..Len(audioIn)
      BY <1>0, <2>0 DEF TypeOK
    <3>2. h0 = audioIn[1] /\ 1 \in 1..Len(audioIn) BY <1>0, <2>0 DEF TypeOK
    <3> HIDE DEF h0, t
    <3> QED BY <3>1, <3>2 DEF IInv, PostingNewest
  <2> HIDE DEF h0, t
  <2>4. TypeOK' BY <1>0, <2>0, <2>1 DEF TypeOK
  <2>5. AllPosted' /\ PostingNewest'
    BY <1>0, <2>0, <2>2, <2>3 DEF IInv, TypeOK, AllPosted, PostingNewest, Within
  <2>6. InOrder' BY <1>0, <2>0, <2>1, <2>2 DEF TypeOK, InOrder
  <2>7. \A n \in 1..seq : (CommandWaits(n)' <=> CommandWaits(n)) /\ (AudioWaits(n)' <=> AudioWaits(n))
    <3> SUFFICES ASSUME NEW n \in 1..seq
                 PROVE  (CommandWaits(n)' <=> CommandWaits(n)) /\ (AudioWaits(n)' <=> AudioWaits(n))
      OBVIOUS
    <3>1. n \in Nat /\ n # 0 BY <1>0 DEF TypeOK
    <3>2. CommandWaits(n)' <=> CommandWaits(n) BY <1>0, <2>0 DEF CommandWaits, In
    <3>3. AudioWaits(n)' <=> AudioWaits(n) BY <1>0, <2>0, <2>1, <3>1 DEF AudioWaits
    <3> QED BY <3>2, <3>3
  <2> QED BY <1>3, <2>4, <2>5, <2>6, <2>7
<1> QED BY <1>4, <1>5, <1>6, <1>7

\* The steps of the loop that move no input.
LEMMA LoopInv ==
  ASSUME IInv, LoopCheck \/ OtherEvent \/ SelectDone \/ Exited \/ UNCHANGED vars
  PROVE  IInv'
<1>0. /\ TypeOK /\ UNCHANGED <<seq, called, posting, cmds, audioIn, stashCmd, stashAudio, kind, cur, handled, late>>
      /\ ~Holding' \/ pc' = pc
  BY DEF IInv, LoopCheck, OtherEvent, SelectDone, Exited, vars, producer, channels, Holding
<1>1. open' \in BOOLEAN /\ (open' => open)
  <2>1. CASE OtherEvent
    <3>1. open' \in {open, FALSE} /\ open \in BOOLEAN BY <1>0, <2>1 DEF OtherEvent, TypeOK
    <3>2. CASE open' = open BY <3>1, <3>2, Zenon
    <3>3. CASE open' = FALSE BY <3>3, Zenon
    <3> QED BY <3>1, <3>2, <3>3
  <2>2. CASE LoopCheck \/ SelectDone \/ Exited \/ UNCHANGED vars
    <3>1. open' = open BY <2>2 DEF LoopCheck, SelectDone, Exited, vars
    <3> QED BY <1>0, <3>1, Zenon DEF TypeOK
  <2> QED BY <2>1, <2>2
<1>2. Holding' <=> Holding
  BY <1>0 DEF LoopCheck, OtherEvent, SelectDone, Exited, vars, AtSelect, Holding, IInv
<1>3. CanHandle' => CanHandle
  <2>1. CASE LoopCheck BY <1>1, <2>1 DEF LoopCheck, CanHandle
  <2>2. CASE ~LoopCheck
    BY <1>1, <2>2 DEF OtherEvent, SelectDone, Exited, vars, AtSelect, CanHandle
  <2> QED BY <2>1, <2>2
<1>4. AllPosted' /\ (CanHandle => InOrder /\ Apart)' BY <1>0, <1>2, <1>3, OrderSame DEF IInv
<1>5. TypeOK'
  BY <1>0, <1>1 DEF TypeOK, LoopCheck, OtherEvent, SelectDone, Exited, vars
<1>6. PostingNewest' BY <1>0, <1>2 DEF IInv, PostingNewest
<1>7. NothingLost'
  <2> SUFFICES ASSUME open', NEW n \in (handled + 1)..seq PROVE Waiting(n)'
    BY <1>0 DEF NothingLost
  <2>1. Waiting(n) BY <1>1 DEF IInv, NothingLost
  <2> QED BY <1>0, <1>2, <2>1, WaitsSame DEF Waiting
<1>8. LateCount'
  <2>1. open' => late = 0 BY <1>1 DEF IInv, LateCount
  <2>2. CASE LoopCheck BY <1>0, <2>1, <2>2 DEF LoopCheck, LateCount, IInv
  <2>3. CASE ~LoopCheck
    BY <1>0, <2>1, <2>3 DEF OtherEvent, SelectDone, Exited, vars, LateCount, IInv
  <2> QED BY <2>2, <2>3
<1> QED BY <1>4, <1>5, <1>6, <1>7, <1>8 DEF IInv

\* What a step that handles input n does, as the outside sees it.
Handles(n) ==
  /\ handled' = n /\ handled < n /\ n <= seq /\ (open => n = handled + 1)
  /\ open' \in {open, FALSE}
  /\ late' = IF open THEN late ELSE late + 1
  /\ late <= 1
  /\ UNCHANGED <<seq, posting>>

\* The condition of the drain loop: on a cancelled context the input in hand is handled
\* at once.
LEMMA DrainCheckInv ==
  ASSUME IInv, DrainCheck
  PROVE  IInv' /\ (UNCHANGED <<seq, handled, open, late>> \/ \E n \in Nat : Handles(n))
<1>0. /\ TypeOK /\ pc = "drain" /\ InOrder /\ Apart /\ Holding /\ late <= 1
      /\ UNCHANGED <<seq, called, posting, cmds, audioIn, stashCmd, stashAudio, kind, cur>>
  BY DEF IInv, CanHandle, DrainCheck, Holding, LateCount, producer, channels
<1>1. CASE open
  <2>0. pc' = "fetch" /\ UNCHANGED <<open, handled, late>> /\ Holding' BY <1>1 DEF DrainCheck, Holding
  <2>1. TypeOK' BY <1>0, <2>0 DEF TypeOK
  <2>2. AllPosted' /\ (CanHandle => InOrder /\ Apart)' BY <1>0, <2>0, OrderSame DEF IInv
  <2>3. PostingNewest' BY <1>0, <2>0 DEF IInv, PostingNewest
  <2>4. LateCount' BY <1>1, <2>0 DEF IInv, LateCount
  <2>5. NothingLost'
    <3> SUFFICES ASSUME NEW n \in (handled + 1)..seq PROVE Waiting(n)'
      BY <1>0, <2>0 DEF NothingLost
    <3>1. Waiting(n) BY <1>1 DEF IInv, NothingLost
    <3> QED BY <1>0, <2>0, <3>1, WaitsSame DEF Waiting
  <2> QED BY <1>0, <2>0, <2>1, <2>2, <2>3, <2>4, <2>5 DEF IInv
<1>2. CASE ~open
  <2>0. /\ pc' = "loop" /\ handled' = cur /\ late' = late + 1 /\ ~Holding' /\ open' \in {open, FALSE}
    BY <1>2 DEF DrainCheck, Handle, Holding
  <2>1. open' \in BOOLEAN /\ ~open' BY <1>0, <1>2, <2>0, OnlyCancels DEF TypeOK
  <2>2. cur \in Nat /\ handled < cur /\ cur <= seq BY <1>0 DEF IInv, AllPosted, InOrder, TypeOK
  <2>3. TypeOK' BY <1>0, <2>0, <2>1 DEF TypeOK
  <2>4. AllPosted' /\ PostingNewest' BY <1>0, <2>0, <2>2 DEF IInv, AllPosted, PostingNewest, Within
  <2>5. (CanHandle => InOrder /\ Apart)' /\ NothingLost' /\ LateCount'
    BY <2>0, <2>1 DEF CanHandle, NothingLost, LateCount
  <2>6. Handles(cur) BY <1>0, <1>2, <2>0, <2>2 DEF Handles
  <2> QED BY <2>2, <2>3, <2>4, <2>5, <2>6 DEF IInv
<1> QED BY <1>1, <1>2

\* runCommand draining audio: the first frame is handled when it was posted before the
\* command in hand, otherwise the command is.  Either way the number handled is the
\* smallest of all that wait.
LEMMA DrainAudioInv ==
  ASSUME IInv, DrainAudioBefore
  PROVE  IInv' /\ \E m \in Nat : Handles(m)
<1> DEFINE n == First(stashAudio, audioIn)
           r == Rest(stashAudio, audioIn)
<1>0. /\ TypeOK /\ pc = "fetch" /\ kind = "command" /\ InOrder /\ Apart /\ Holding /\ late = 0
      /\ UNCHANGED <<seq, called, posting, cmds, stashCmd, kind, cur>>
      /\ audioIn' = r /\ DrainStep(n)
      /\ stashAudio' = IF Earlier(n) THEN 0 ELSE Kept(n)
  BY DEF IInv, CanHandle, DrainAudioBefore, Holding, LateCount, producer
<1>1. /\ n \in Nat /\ r \in Seq(Nat) /\ Increasing(r)
      /\ n = 0 => r = <<>> /\ stashAudio = 0
      /\ n # 0 => Below(n, r)
      /\ \A h \in Nat : Below(h, audioIn) /\ (stashAudio # 0 => h < stashAudio)
           => Below(h, r) /\ (n # 0 => h < n)
      /\ \A m \in Nat \ {0} : In(m, audioIn) \/ m = stashAudio <=> In(m, r) \/ m = n
      /\ \A b \in Nat : stashAudio <= b /\ (\A i \in 1..Len(audioIn) : audioIn[i] <= b)
           => n <= b /\ \A i \in 1..Len(r) : r[i] <= b
  <2>1. Below(0, audioIn) BY <1>0 DEF InOrder, TypeOK, Below
  <2> QED BY <1>0, <2>1, FirstRest DEF InOrder, TypeOK
<1> HIDE DEF n, r
<1>2. /\ stashCmd = 0 /\ Below(cur, cmds) /\ handled < cur /\ cur <= seq
      /\ Below(handled, r) /\ (n # 0 => handled < n)
  <2>1. cur <= seq BY <1>0 DEF IInv, AllPosted
  <2> QED BY <1>0, <1>1, <2>1 DEF InOrder, TypeOK
<1>3. n <= seq /\ \A i \in 1..Len(r) : r[i] <= seq
  <2>1. stashAudio <= seq BY DEF IInv, AllPosted
  <2>2. seq \in Nat /\ \A i \in 1..Len(audioIn) : audioIn[i] <= seq BY <1>0 DEF IInv, AllPosted, Within, TypeOK
  <2> QED BY <1>1, <2>1, <2>2
<1>4. posting # 0 => posting = seq /\ cur < posting /\ n < posting /\ \A i \in 1..Len(r) : r[i] < posting
  <2> SUFFICES ASSUME posting # 0
               PROVE  posting = seq /\ cur < posting /\ n < posting /\ \A i \in 1..Len(r) : r[i] < posting
    OBVIOUS
  <2>1. /\ posting = seq /\ cur < posting /\ stashAudio < posting
        /\ \A i \in 1..Len(audioIn) : audioIn[i] < posting
    BY <1>0 DEF IInv, PostingNewest
  <2>2. posting - 1 \in Nat /\ stashAudio <= posting - 1 BY <1>0, <2>1 DEF TypeOK
  <2>3. \A i \in 1..Len(audioIn) : audioIn[i] <= posting - 1 BY <1>0, <2>1 DEF TypeOK
  <2>4. n <= posting - 1 /\ \A i \in 1..Len(r) : r[i] <= posting - 1 BY <1>1, <2>2, <2>3
  <2>5. \A i \in 1..Len(r) : r[i] \in Nat BY <1>1
  <2> QED BY <1>0, <1>1, <2>1, <2>4, <2>5 DEF TypeOK
<1>5. ASSUME NEW m \in Nat \ {0}
      PROVE  /\ CommandWaits(m) <=> In(m, cmds) \/ m = cur
             /\ AudioWaits(m) <=> In(m, r) \/ m = n
  BY <1>0, <1>1, <1>2, <1>5 DEF CommandWaits, AudioWaits
<1>6. CASE Earlier(n)
  <2>0. /\ pc' = "drain" /\ handled' = n /\ stashAudio' = 0 /\ Holding' /\ n # 0 /\ n <= cur
        /\ open' \in {open, FALSE} /\ late' = IF open THEN late ELSE late + 1
    BY <1>0, <1>6 DEF DrainStep, Handle, Holding, Earlier
  <2>1. open' \in BOOLEAN /\ (open' => open) BY <1>0, <2>0, OnlyCancels DEF TypeOK
  <2>2. n < cur
    <3>1. n \in 1..seq /\ n \in Nat \ {0} BY <1>0, <1>1, <1>3, <2>0 DEF TypeOK
    <3>2. n # cur BY <1>0, <1>5, <3>1 DEF Apart
    <3> QED BY <1>0, <1>1, <2>0, <3>2 DEF TypeOK
  <2>3. TypeOK' BY <1>0, <1>1, <2>0, <2>1 DEF TypeOK
  <2>4. AllPosted' /\ PostingNewest'
    BY <1>0, <1>1, <1>3, <1>4, <2>0 DEF IInv, TypeOK, AllPosted, PostingNewest, Within
  <2>5. InOrder'
    <3>1. Below(n, cmds) BY <1>0, <1>1, <1>2, <2>2 DEF Below, TypeOK
    <3> QED BY <1>0, <1>1, <1>2, <2>0, <2>2, <3>1 DEF InOrder
  <2>6. ASSUME NEW m \in Nat \ {0}
        PROVE  /\ CommandWaits(m)' <=> In(m, cmds) \/ m = cur
               /\ AudioWaits(m)' <=> In(m, r)
    BY <1>0, <1>2, <2>0, <2>6 DEF CommandWaits, AudioWaits
  <2>7. Apart'
    <3> SUFFICES ASSUME NEW m \in 1..seq
                 PROVE  (CommandWaits(m)' => CommandWaits(m)) /\ (AudioWaits(m)' => AudioWaits(m))
      BY <1>0, ApartKept
    <3>1. m \in Nat \ {0} BY <1>0 DEF TypeOK
    <3> QED BY <1>5, <2>6, <3>1
  <2>8. NothingLost'
    <3> SUFFICES ASSUME open', NEW m \in (n + 1)..seq PROVE Waiting(m)'
      BY <1>0, <2>0 DEF NothingLost
    <3>1. m \in Nat \ {0} /\ m # n /\ m \in (handled + 1)..seq BY <1>0, <1>1, <1>2, <2>0 DEF TypeOK
    <3>2. Waiting(m) BY <2>1, <3>1 DEF IInv, NothingLost
    <3> QED BY <1>0, <1>5, <2>6, <3>1, <3>2 DEF Waiting
  <2>9. LateCount' BY <1>0, <2>0, <2>1 DEF LateCount
  <2>10. open => n = handled + 1
    <3> SUFFICES ASSUME open PROVE n = handled + 1 OBVIOUS
    <3>1. /\ handled + 1 \in Nat \ {0} /\ handled + 1 \in (handled + 1)..seq
          /\ handled + 1 <= n
      BY <1>0, <1>1, <1>2, <1>3, <2>0 DEF TypeOK
    <3>2. Waiting(handled + 1) BY <3>1 DEF IInv, NothingLost
    <3>3. ~In(handled + 1, cmds) BY <1>0, <1>1, <1>2, <2>0, <3>1 DEF In, Below, TypeOK
    <3>4. ~In(handled + 1, r) BY <1>0, <1>1, <2>0, <3>1 DEF In, Below, TypeOK
    <3>5. handled + 1 # cur /\ handled + 1 # posting BY <1>0, <1>1, <1>4, <2>2, <3>1 DEF TypeOK
    <3> QED BY <1>5, <3>1, <3>2, <3>3, <3>4, <3>5 DEF Waiting
  <2>11. Handles(n)
    <3>1. handled' = n /\ handled < n /\ n <= seq /\ late <= 1 /\ UNCHANGED <<seq, posting>>
      BY <1>0, <1>2, <1>3, <2>0
    <3> QED BY <2>0, <2>10, <3>1, Zenon DEF Handles
  <2> QED BY <1>1, <2>3, <2>4, <2>5, <2>7, <2>8, <2>9, <2>11 DEF IInv
<1>7. CASE ~Earlier(n)
  <2>0. /\ pc' = "loop" /\ handled' = cur /\ stashAudio' = n /\ ~Holding' /\ (n # 0 => cur < n)
        /\ open' \in {open, FALSE} /\ late' = IF open THEN late ELSE late + 1
    <3>1. /\ pc' = "loop" /\ handled' = cur /\ stashAudio' = n
          /\ open' \in {open, FALSE} /\ late' = IF open THEN late ELSE late + 1
      BY <1>0, <1>7 DEF DrainStep, Handle, Kept
    <3>2. ~Holding' BY <3>1 DEF Holding
    <3>3. n # 0 => cur < n BY <1>0, <1>1, <1>7 DEF Earlier, TypeOK
    <3> QED BY <3>1, <3>2, <3>3
  <2>1. open' \in BOOLEAN /\ (open' => open) BY <1>0, <2>0, OnlyCancels DEF TypeOK
  <2>2. Below(cur, r) BY <1>0, <1>1, <2>0 DEF Below, TypeOK
  <2>3. TypeOK' BY <1>0, <1>1, <2>0, <2>1 DEF TypeOK
  <2>4. AllPosted' /\ PostingNewest'
    BY <1>0, <1>1, <1>2, <1>3, <1>4, <2>0 DEF IInv, TypeOK, AllPosted, PostingNewest, Within
  <2>5. InOrder' BY <1>0, <1>1, <1>2, <1>3, <2>0, <2>2 DEF InOrder
  <2>6. ASSUME NEW m \in Nat \ {0}
        PROVE  /\ CommandWaits(m)' <=> In(m, cmds)
               /\ AudioWaits(m)' <=> In(m, r) \/ m = n
    BY <1>0, <1>2, <2>0, <2>6 DEF CommandWaits, AudioWaits
  <2>7. Apart'
    <3> SUFFICES ASSUME NEW m \in 1..seq
                 PROVE  (CommandWaits(m)' => CommandWaits(m)) /\ (AudioWaits(m)' => AudioWaits(m))
      BY <1>0, ApartKept
    <3>1. m \in Nat \ {0} BY <1>0 DEF TypeOK
    <3> QED BY <1>5, <2>6, <3>1
  <2>8. NothingLost'
    <3> SUFFICES ASSUME open', NEW m \in (cur + 1)..seq PROVE Waiting(m)'
      BY <1>0, <2>0 DEF NothingLost
    <3>1. m \in Nat \ {0} /\ m # cur /\ m \in (handled + 1)..seq BY <1>0, <1>2 DEF TypeOK
    <3>2. Waiting(m) BY <2>1, <3>1 DEF IInv, NothingLost
    <3> QED BY <1>0, <1>5, <2>6, <3>1, <3>2 DEF Waiting
  <2>9. LateCount' BY <1>0, <2>0, <2>1 DEF LateCount
  <2>10. open => cur = handled + 1
    <3> SUFFICES ASSUME open PROVE cur = handled + 1 OBVIOUS
    <3>1. /\ handled + 1 \in Nat \ {0} /\ handled + 1 \in (handled + 1)..seq
          /\ handled + 1 <= cur
      BY <1>0, <1>2 DEF TypeOK
    <3>2. Waiting(handled + 1) BY <3>1 DEF IInv, NothingLost
    <3>3. ~In(handled + 1, cmds) BY <1>0, <1>2, <3>1 DEF In, Below, TypeOK
    <3>4. ~In(handled + 1, r) BY <1>0, <1>1, <2>2, <3>1 DEF In, Below, TypeOK
    <3>5. handled + 1 # n /\ handled + 1 # posting BY <1>0, <1>1, <1>4, <2>0, <3>1 DEF TypeOK
    <3> QED BY <1>5, <3>1, <3>2, <3>3, <3>4, <3>5 DEF Waiting
  <2>11. Handles(cur)
    <3>1. handled' = cur /\ handled < cur /\ cur <= seq /\ late <= 1 /\ UNCHANGED <<seq, posting>>
      BY <1>0, <1>2, <1>3, <2>0
    <3> QED BY <2>0, <2>10, <3>1, Zenon DEF Handles
  <2> QED BY <1>0, <2>3, <2>4, <2>5, <2>7, <2>8, <2>9, <2>11 DEF IInv, TypeOK
<1> QED BY <1>6, <1>7

\* runAudio draining commands: the same with the channels exchanged.
LEMMA DrainCommandsInv ==
  ASSUME IInv, DrainCommandsBefore
  PROVE  IInv' /\ \E m \in Nat : Handles(m)
<1> DEFINE n == First(stashCmd, cmds)
           r == Rest(stashCmd, cmds)
<1>0. /\ TypeOK /\ pc = "fetch" /\ kind = "audio" /\ InOrder /\ Apart /\ Holding /\ late = 0
      /\ UNCHANGED <<seq, called, posting, audioIn, stashAudio, kind, cur>>
      /\ cmds' = r /\ DrainStep(n)
      /\ stashCmd' = IF Earlier(n) THEN 0 ELSE Kept(n)
  BY DEF IInv, CanHandle, DrainCommandsBefore, Holding, LateCount, producer
<1>1. /\ n \in Nat /\ r \in Seq(Nat) /\ Increasing(r)
      /\ n = 0 => r = <<>> /\ stashCmd = 0
      /\ n # 0 => Below(n, r)
      /\ \A h \in Nat : Below(h, cmds) /\ (stashCmd # 0 => h < stashCmd)
           => Below(h, r) /\ (n # 0 => h < n)
      /\ \A m \in Nat \ {0} : In(m, cmds) \/ m = stashCmd <=> In(m, r) \/ m = n
      /\ \A b \in Nat : stashCmd <= b /\ (\A i \in 1..Len(cmds) : cmds[i] <= b)
           => n <= b /\ \A i \in 1..Len(r) : r[i] <= b
  <2>1. Below(0, cmds) BY <1>0 DEF InOrder, TypeOK, Below
  <2> QED BY <1>0, <2>1, FirstRest DEF InOrder, TypeOK
<1> HIDE DEF n, r
<1>2. /\ stashAudio = 0 /\ Below(cur, audioIn) /\ handled < cur /\ cur <= seq
      /\ Below(handled, r) /\ (n # 0 => handled < n)
  <2>1. cur <= seq BY <1>0 DEF IInv, AllPosted
  <2> QED BY <1>0, <1>1, <2>1 DEF InOrder, TypeOK
<1>3. n <= seq /\ \A i \in 1..Len(r) : r[i] <= seq
  <2>1. stashCmd <= seq BY DEF IInv, AllPosted
  <2>2. seq \in Nat /\ \A i \in 1..Len(cmds) : cmds[i] <= seq BY <1>0 DEF IInv, AllPosted, Within, TypeOK
  <2> QED BY <1>1, <2>1, <2>2
<1>4. posting # 0 => posting = seq /\ cur < posting /\ n < posting /\ \A i \in 1..Len(r) : r[i] < posting
  <2> SUFFICES ASSUME posting # 0
               PROVE  posting = seq /\ cur < posting /\ n < posting /\ \A i \in 1..Len(r) : r[i] < posting
    OBVIOUS
  <2>1. /\ posting = seq /\ cur < posting /\ stashCmd < posting
        /\ \A i \in 1..Len(cmds) : cmds[i] < posting
    BY <1>0 DEF IInv, PostingNewest
  <2>2. posting - 1 \in Nat /\ stashCmd <= posting - 1 BY <1>0, <2>1 DEF TypeOK
  <2>3. \A i \in 1..Len(cmds) : cmds[i] <= posting - 1 BY <1>0, <2>1 DEF TypeOK
  <2>4. n <= posting - 1 /\ \A i \in 1..Len(r) : r[i] <= posting - 1 BY <1>1, <2>2, <2>3
  <2>5. \A i \in 1..Len(r) : r[i] \in Nat BY <1>1
  <2> QED BY <1>0, <1>1, <2>1, <2>4, <2>5 DEF TypeOK
<1>5. ASSUME NEW m \in Nat \ {0}
      PROVE  /\ AudioWaits(m) <=> In(m, audioIn) \/ m = cur
             /\ CommandWaits(m) <=> In(m, r) \/ m = n
  BY <1>0, <1>1, <1>2, <1>5 DEF AudioWaits, CommandWaits
<1>6. CASE Earlier(n)
  <2>0. /\ pc' = "drain" /\ handled' = n /\ stashCmd' = 0 /\ Holding' /\ n # 0 /\ n <= cur
        /\ open' \in {open, FALSE} /\ late' = IF open THEN late ELSE late + 1
    BY <1>0, <1>6 DEF DrainStep, Handle, Holding, Earlier
  <2>1. open' \in BOOLEAN /\ (open' => open) BY <1>0, <2>0, OnlyCancels DEF TypeOK
  <2>2. n < cur
    <3>1. n \in 1..seq /\ n \in Nat \ {0} BY <1>0, <1>1, <1>3, <2>0 DEF TypeOK
    <3>2. n # cur BY <1>0, <1>5, <3>1 DEF Apart
    <3> QED BY <1>0, <1>1, <2>0, <3>2 DEF TypeOK
  <2>3. TypeOK' BY <1>0, <1>1, <2>0, <2>1 DEF TypeOK
  <2>4. AllPosted' /\ PostingNewest'
    BY <1>0, <1>1, <1>3, <1>4, <2>0 DEF IInv, TypeOK, AllPosted, PostingNewest, Within
  <2>5. InOrder'
    <3>1. Below(n, audioIn) BY <1>0, <1>1, <1>2, <2>2 DEF Below, TypeOK
    <3> QED BY <1>0, <1>1, <1>2, <2>0, <2>2, <3>1 DEF InOrder
  <2>6. ASSUME NEW m \in Nat \ {0}
        PROVE  /\ AudioWaits(m)' <=> In(m, audioIn) \/ m = cur
               /\ CommandWaits(m)' <=> In(m, r)
    BY <1>0, <1>2, <2>0, <2>6 DEF AudioWaits, CommandWaits
  <2>7. Apart'
    <3> SUFFICES ASSUME NEW m \in 1..seq
                 PROVE  (AudioWaits(m)' => AudioWaits(m)) /\ (CommandWaits(m)' => CommandWaits(m))
      BY <1>0, ApartKept
    <3>1. m \in Nat \ {0} BY <1>0 DEF TypeOK
    <3> QED BY <1>5, <2>6, <3>1
  <2>8. NothingLost'
    <3> SUFFICES ASSUME open', NEW m \in (n + 1)..seq PROVE Waiting(m)'
      BY <1>0, <2>0 DEF NothingLost
    <3>1. m \in Nat \ {0} /\ m # n /\ m \in (handled + 1)..seq BY <1>0, <1>1, <1>2, <2>0 DEF TypeOK
    <3>2. Waiting(m) BY <2>1, <3>1 DEF IInv, NothingLost
    <3> QED BY <1>0, <1>5, <2>6, <3>1, <3>2 DEF Waiting
  <2>9. LateCount' BY <1>0, <2>0, <2>1 DEF LateCount
  <2>10. open => n = handled + 1
    <3> SUFFICES ASSUME open PROVE n = handled + 1 OBVIOUS
    <3>1. /\ handled + 1 \in Nat \ {0} /\ handled + 1 \in (handled + 1)..seq
          /\ handled + 1 <= n
      BY <1>0, <1>1, <1>2, <1>3, <2>0 DEF TypeOK
    <3>2. Waiting(handled + 1) BY <3>1 DEF IInv, NothingLost
    <3>3. ~In(handled + 1, audioIn) BY <1>0, <1>1, <1>2, <2>0, <3>1 DEF In, Below, TypeOK
    <3>4. ~In(handled + 1, r) BY <1>0, <1>1, <2>0, <3>1 DEF In, Below, TypeOK
    <3>5. handled + 1 # cur /\ handled + 1 # posting BY <1>0, <1>1, <1>4, <2>2, <3>1 DEF TypeOK
    <3> QED BY <1>5, <3>1, <3>2, <3>3, <3>4, <3>5 DEF Waiting
  <2>11. Handles(n)
    <3>1. handled' = n /\ handled < n /\ n <= seq /\ late <= 1 /\ UNCHANGED <<seq, posting>>
      BY <1>0, <1>2, <1>3, <2>0
    <3> QED BY <2>0, <2>10, <3>1, Zenon DEF Handles
  <2> QED BY <1>1, <2>3, <2>4, <2>5, <2>7, <2>8, <2>9, <2>11 DEF IInv
<1>7. CASE ~Earlier(n)
  <2>0. /\ pc' = "loop" /\ handled' = cur /\ stashCmd' = n /\ ~Holding' /\ (n # 0 => cur < n)
        /\ open' \in {open, FALSE} /\ late' = IF open THEN late ELSE late + 1
    <3>1. /\ pc' = "loop" /\ handled' = cur /\ stashCmd' = n
          /\ open' \in {open, FALSE} /\ late' = IF open THEN late ELSE late + 1
      BY <1>0, <1>7 DEF DrainStep, Handle, Kept
    <3>2. ~Holding' BY <3>1 DEF Holding
    <3>3. n # 0 => cur < n BY <1>0, <1>1, <1>7 DEF Earlier, TypeOK
    <3> QED BY <3>1, <3>2, <3>3
  <2>1. open' \in BOOLEAN /\ (open' => open) BY <1>0, <2>0, OnlyCancels DEF TypeOK
  <2>2. Below(cur, r) BY <1>0, <1>1, <2>0 DEF Below, TypeOK
  <2>3. TypeOK' BY <1>0, <1>1, <2>0, <2>1 DEF TypeOK
  <2>4. AllPosted' /\ PostingNewest'
    BY <1>0, <1>1, <1>2, <1>3, <1>4, <2>0 DEF IInv, TypeOK, AllPosted, PostingNewest, Within
  <2>5. InOrder' BY <1>0, <1>1, <1>2, <1>3, <2>0, <2>2 DEF InOrder
  <2>6. ASSUME NEW m \in Nat \ {0}
        PROVE  /\ AudioWaits(m)' <=> In(m, audioIn)
               /\ CommandWaits(m)' <=> In(m, r) \/ m = n
    BY <1>0, <1>2, <2>0, <2>6 DEF AudioWaits, CommandWaits
  <2>7. Apart'
    <3> SUFFICES ASSUME NEW m \in 1..seq
                 PROVE  (AudioWaits(m)' => AudioWaits(m)) /\ (CommandWaits(m)' => CommandWaits(m))
      BY <1>0, ApartKept
    <3>1. m \in Nat \ {0} BY <1>0 DEF TypeOK
    <3> QED BY <1>5, <2>6, <3>1
  <2>8. NothingLost'
    <3> SUFFICES ASSUME open', NEW m \in (cur + 1)..seq PROVE Waiting(m)'
      BY <1>0, <2>0 DEF NothingLost
    <3>1. m \in Nat \ {0} /\ m # cur /\ m \in (handled + 1)..seq BY <1>0, <1>2 DEF TypeOK
    <3>2. Waiting(m) BY <2>1, <3>1 DEF IInv, NothingLost
    <3> QED BY <1>0, <1>5, <2>6, <3>1, <3>2 DEF Waiting
  <2>9. LateCount' BY <1>0, <2>0, <2>1 DEF LateCount
  <2>10. open => cur = handled + 1
    <3> SUFFICES ASSUME open PROVE cur = handled + 1 OBVIOUS
    <3>1. /\ handled + 1 \in Nat \ {0} /\ handled + 1 \in (handled + 1)..seq
          /\ handled + 1 <= cur
      BY <1>0, <1>2 DEF TypeOK
    <3>2. Waiting(handled + 1) BY <3>1 DEF IInv, NothingLost
    <3>3. ~In(handled + 1, audioIn) BY <1>0, <1>2, <3>1 DEF In, Below, TypeOK
    <3>4. ~In(handled + 1, r) BY <1>0, <1>1, <2>2, <3>1 DEF In, Below, TypeOK
    <3>5. handled + 1 # n /\ handled + 1 # posting BY <1>0, <1>1, <1>4, <2>0, <3>1 DEF TypeOK
    <3> QED BY <1>5, <3>1, <3>2, <3>3, <3>4, <3>5 DEF Waiting
  <2>11. Handles(cur)
    <3>1. handled' = cur /\ handled < cur /\ cur <= seq /\ late <= 1 /\ UNCHANGED <<seq, posting>>
      BY <1>0, <1>2, <1>3, <2>0
    <3> QED BY <2>0, <2>10, <3>1, Zenon DEF Handles
  <2> QED BY <1>0, <2>3, <2>4, <2>5, <2>7, <2>8, <2>9, <2>11 DEF IInv, TypeOK
<1> QED BY <1>6, <1>7

\* Every step keeps the invariant.
LEMMA NextInv == IInv /\ [Next]_vars => IInv'
<1> SUFFICES ASSUME IInv, [Next]_vars PROVE IInv' OBVIOUS
<1>1. CASE Call \/ Post \/ PostSent \/ PostClosed \/ PostAudio \/ Cancel BY <1>1, ProducerInv
<1>2. CASE TakeStashedCommand \/ TakeStashedAudio \/ ReceiveCommand \/ ReceiveAudio
  BY <1>2, HoldInv
<1>3. CASE LoopCheck \/ OtherEvent \/ SelectDone \/ Exited \/ UNCHANGED vars BY <1>3, LoopInv
<1>4. CASE Drain BY <1>4, DrainCheckInv, DrainAudioInv, DrainCommandsInv DEF Drain
<1> QED BY <1>1, <1>2, <1>3, <1>4 DEF Next

\* For every queue capacity and every number of inputs: the channels are in order, while
\* the session is open nothing posted is lost, and the inputs handled after the cancel
\* are bounded by where the actor is.
THEOREM InboundInvariant == Spec => []IInv
BY InitInv, NextInv, PTL DEF Spec

-----------------------------------------------------------------------------
(* Refinement. *)

\* Every step is a step of the one ordered queue, or none.
LEMMA StepRefines ==
  ASSUME IInv, [Next]_vars
  PROVE  [Ordered!Next]_(Ordered!vars)
<1>0. TypeOK BY DEF IInv
<1>1. CASE Post \/ PostAudio
  <2>1. seq' = seq + 1 /\ UNCHANGED <<handled, late>>
    BY <1>1 DEF Post, PostAudio, actor
  <2>2. open' = open \/ open' = FALSE BY <1>1 DEF Post, PostAudio
  <2>3. open' \in BOOLEAN /\ (open' => open) BY <1>0, <2>2, OnlyCancels DEF TypeOK
  <2>4. open' \in IF open THEN BOOLEAN ELSE {FALSE}
    <3>1. CASE open BY <2>3, <3>1
    <3>2. CASE ~open
      <4>1. open' = FALSE BY <2>3, <3>2, Zenon
      <4> QED BY <3>2, <4>1
    <3> QED BY <3>1, <3>2
  <2> QED BY <2>1, <2>4 DEF Ordered!Next, Ordered!Post
<1>2. CASE Call \/ PostSent \/ PostClosed \/ LoopCheck \/ SelectDone \/ Exited \/ UNCHANGED vars
           \/ TakeStashedCommand \/ TakeStashedAudio \/ ReceiveCommand \/ ReceiveAudio
  <2>1. UNCHANGED <<seq, handled, open, late>>
    BY <1>2 DEF Call, PostSent, PostClosed, LoopCheck, SelectDone, Exited, vars, actor, producer,
                TakeStashedCommand, TakeStashedAudio, ReceiveCommand, ReceiveAudio, Hold
  <2> QED BY <2>1 DEF Ordered!vars
<1>3. CASE Cancel \/ OtherEvent
  <2>1. UNCHANGED <<seq, handled, late>> /\ open' \in {open, FALSE}
    BY <1>3 DEF Cancel, OtherEvent, actor, producer
  <2>2. CASE open' = open BY <2>1, <2>2 DEF Ordered!vars
  <2>3. CASE open' # open
    <3>1. open' = FALSE BY <2>1, <2>3
    <3>2. open BY <1>0, <2>3, <3>1, Zenon DEF TypeOK
    <3> QED BY <2>1, <3>1, <3>2 DEF Ordered!Next, Ordered!Close
  <2> QED BY <2>2, <2>3
<1>4. ASSUME NEW n \in Nat, Handles(n) PROVE Ordered!Next
  <2>1. open' \in BOOLEAN BY <1>0, <1>4, OnlyCancels DEF Handles, TypeOK
  <2>2. CASE open BY <1>0, <1>4, <2>1, <2>2 DEF Handles, TypeOK, Ordered!Next, Ordered!Handle
  <2>3. CASE ~open
    <3>1. open' = open
      <4>1. open' \in {open, FALSE} BY <1>4 DEF Handles
      <4>2. open = FALSE BY <1>0, <2>3, Zenon DEF TypeOK
      <4> QED BY <4>1, <4>2
    <3>2. /\ late < 2 /\ handled' \in (handled + 1)..seq /\ late' = late + 1
          /\ UNCHANGED <<seq, open>>
      BY <1>0, <1>4, <2>3, <3>1 DEF Handles, TypeOK
    <3> QED BY <2>3, <3>2 DEF Ordered!Next, Ordered!HandleLate
  <2> QED BY <2>2, <2>3
<1>5. CASE DrainCheck BY <1>4, <1>5, DrainCheckInv DEF Ordered!vars
<1>6. CASE DrainAudioBefore BY <1>4, <1>6, DrainAudioInv
<1>7. CASE DrainCommandsBefore BY <1>4, <1>7, DrainCommandsInv
<1> QED BY <1>1, <1>2, <1>3, <1>5, <1>6, <1>7 DEF Next, Drain

\* The two channels, the counter and the stashes implement one queue: inputs are handled
\* in the order in which they were posted, none lost and none twice while the session is
\* open, and at most two, still in order, once it is cancelled.
THEOREM Refinement == Spec => OrderedSpec
<1>1. Init => Ordered!Init BY DEF Init, Ordered!Init
<1>2. IInv /\ [Next]_vars => [Ordered!Next]_(Ordered!vars) BY StepRefines
<1> QED BY <1>1, <1>2, InboundInvariant, PTL DEF Spec, OrderedSpec, Ordered!Spec
=============================================================================
