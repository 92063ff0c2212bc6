------------------------------- MODULE Inbound -------------------------------
(***************************************************************************)
(* How client inputs reach the session actor (session.go: Post, PostAudio, *)
(* run, runCommand, runAudio, drainAudioBefore, drainCommandsBefore).      *)
(*                                                                         *)
(* Commands and audio frames travel in two channels, because a full audio  *)
(* queue must close the session while a full command queue must block the  *)
(* reader.  A shared counter numbers them, and the actor restores the      *)
(* order: before it handles an input it drains the other channel of        *)
(* everything posted earlier.  To find out, it has to receive one input    *)
(* too many, which it keeps in a stash of one.                             *)
(*                                                                         *)
(* An input is represented by its number.  What the handlers do is         *)
(* Session's concern; here a handler only records the number, and may      *)
(* cancel the context.  There is one producer: the read loop of the        *)
(* connection.                                                             *)
(***************************************************************************)
EXTENDS Integers, Sequences

CONSTANTS CmdQueue,    \* capacity of cmds (output_event_queue)
          AudioQueue,  \* capacity of audioIn (input_audio_queue_frames)
          MaxPosts     \* bound: inputs the client sends

ASSUME InboundAssumption ==
  CmdQueue \in Nat \ {0} /\ AudioQueue \in Nat \ {0} /\ MaxPosts \in Nat

VARIABLES
  seq,         \* the shared counter
  called,      \* the call that has found the context open: "command" (Post), "audio"
               \* (PostAudio) or "none"
  posting,     \* the command Post is trying to send, 0 if none
  cmds,        \* the two channels
  audioIn,
  stashCmd,    \* inputs received ahead of their turn, 0 if none
  stashAudio,
  pc,          \* where the actor is: "loop" (about to check the context), "pick" (at
               \* the stashes and the select), "drain" and "fetch" (checking and
               \* receiving in the drain loop), "exited"
  kind,        \* what the actor holds: "command" (runCommand) or "audio" (runAudio)
  cur,         \* its number
  open,        \* the session context is not cancelled
  handled,     \* the number of the last input handled
  late         \* history: inputs handled after the cancel

vars == <<seq, called, posting, cmds, audioIn, stashCmd, stashAudio, pc, kind, cur, open, handled, late>>

channels == <<cmds, audioIn, stashCmd, stashAudio>>
actor == <<pc, kind, cur, handled, late>>
producer == <<seq, called, posting>>

Init ==
  /\ seq = 0 /\ called = "none" /\ posting = 0
  /\ cmds = <<>> /\ audioIn = <<>> /\ stashCmd = 0 /\ stashAudio = 0
  /\ pc = "loop" /\ kind = "command" /\ cur = 0
  /\ open = TRUE /\ handled = 0 /\ late = 0
-----------------------------------------------------------------------------
(***************************************************************************)
(* The read loop                                                           *)
(***************************************************************************)

\* Post and PostAudio look at the context first, and the cancel may come right after.
Call ==
  /\ called = "none" /\ posting = 0 /\ seq < MaxPosts
  /\ open
  /\ called' \in {"command", "audio"}
  /\ UNCHANGED <<seq, posting, channels, actor, open>>

\* Post: the number is taken, then the send waits for room or for the cancel.
Post ==
  /\ called = "command"
  /\ called' = "none"
  /\ seq' = seq + 1
  /\ posting' = seq + 1
  /\ UNCHANGED <<channels, actor, open>>

PostSent ==
  /\ posting # 0
  /\ Len(cmds) < CmdQueue
  /\ cmds' = Append(cmds, posting)
  /\ posting' = 0
  /\ UNCHANGED <<seq, called, audioIn, stashCmd, stashAudio, actor, open>>

\* (Mutant: the send does not watch the context.)
PostClosedNever == FALSE /\ UNCHANGED vars
PostClosed ==
  /\ posting # 0 /\ ~open
  /\ posting' = 0
  /\ UNCHANGED <<seq, called, channels, actor, open>>

\* PostAudio: the number is taken whether or not there is room.
PostAudio ==
  /\ called = "audio"
  /\ called' = "none"
  /\ seq' = seq + 1
  /\ IF Len(audioIn) < AudioQueue
     THEN audioIn' = Append(audioIn, seq + 1) /\ open' = open
     ELSE audioIn' = audioIn /\ open' = FALSE
  /\ UNCHANGED <<posting, cmds, stashCmd, stashAudio, actor>>

\* Close, the session timeout, a disconnect or the server's shutdown.
Cancel ==
  /\ open
  /\ open' = FALSE
  /\ UNCHANGED <<producer, channels, actor>>
-----------------------------------------------------------------------------
(***************************************************************************)
(* The actor                                                               *)
(***************************************************************************)

\* A handler runs, and may cancel the context (fatal, CmdClose).
Handle(n) ==
  /\ handled' = n
  /\ open' \in {open, FALSE}
  /\ late' = IF open THEN late ELSE late + 1

\* The head of the loop.  (Mutant: the context is not looked at.)
LoopCheckBlind ==
  /\ pc = "loop"
  /\ pc' = "pick"
  /\ UNCHANGED <<producer, channels, kind, cur, open, handled, late>>
LoopCheck ==
  /\ pc = "loop"
  /\ pc' = IF open THEN "pick" ELSE "exited"
  /\ UNCHANGED <<producer, channels, kind, cur, open, handled, late>>

\* runCommand or runAudio is entered with input n.
Hold(k, n) ==
  /\ pc' = "drain" /\ kind' = k /\ cur' = n
  /\ UNCHANGED <<producer, open, handled, late>>

CommandStashedFirst == stashCmd # 0 /\ (stashAudio = 0 \/ stashCmd < stashAudio)

TakeStashedCommand ==
  /\ pc = "pick" /\ CommandStashedFirst
  /\ Hold("command", stashCmd)
  /\ stashCmd' = 0
  /\ UNCHANGED <<cmds, audioIn, stashAudio>>

TakeStashedAudio ==
  /\ pc = "pick" /\ ~CommandStashedFirst /\ stashAudio # 0
  /\ Hold("audio", stashAudio)
  /\ stashAudio' = 0
  /\ UNCHANGED <<cmds, audioIn, stashCmd>>

AtSelect == pc = "pick" /\ stashCmd = 0 /\ stashAudio = 0

ReceiveCommand ==
  /\ AtSelect /\ cmds # <<>>
  /\ Hold("command", Head(cmds))
  /\ cmds' = Tail(cmds)
  /\ UNCHANGED <<audioIn, stashCmd, stashAudio>>

ReceiveAudio ==
  /\ AtSelect /\ audioIn # <<>>
  /\ Hold("audio", Head(audioIn))
  /\ audioIn' = Tail(audioIn)
  /\ UNCHANGED <<cmds, stashCmd, stashAudio>>

\* A recognizer event, a pipeline event or a timer wins the select.
OtherEvent ==
  /\ AtSelect
  /\ pc' = "loop"
  /\ open' \in {open, FALSE}
  /\ UNCHANGED <<producer, channels, kind, cur, handled, late>>

SelectDone ==
  /\ AtSelect /\ ~open
  /\ pc' = "exited"
  /\ UNCHANGED <<producer, channels, kind, cur, open, handled, late>>

\* The condition of the drain loop.  A cancelled context ends it, and the input in
\* hand is handled all the same.
DrainCheck ==
  /\ pc = "drain"
  /\ IF open
     THEN pc' = "fetch" /\ UNCHANGED <<open, handled, late>>
     ELSE pc' = "loop" /\ Handle(cur)
  /\ UNCHANGED <<producer, channels, kind, cur>>

\* The input the drain loop looks at, 0 when stash and channel are empty.
First(stash, queue) == IF stash # 0 THEN stash ELSE IF queue # <<>> THEN Head(queue) ELSE 0
Rest(stash, queue) == IF stash = 0 /\ queue # <<>> THEN Tail(queue) ELSE queue

\* Posted before the input in hand.  (Mutant: a received input is never found to be
\* earlier.)
EarlierNever(n) == FALSE
Earlier(n) == n # 0 /\ n <= cur

\* What stays in the stash when the drain loop returns.  (Mutant: the input received
\* ahead of its turn is lost.)
KeptLost(n) == 0
Kept(n) == n

\* The body of the drain loop: the first input of the other channel is handled when it
\* was posted earlier; otherwise it is kept and the input in hand is handled.
DrainStep(n) ==
  IF Earlier(n) THEN pc' = "drain" /\ Handle(n) ELSE pc' = "loop" /\ Handle(cur)

DrainAudioBefore ==
  LET n == First(stashAudio, audioIn)
  IN  /\ pc = "fetch" /\ kind = "command"
      /\ DrainStep(n)
      /\ stashAudio' = IF Earlier(n) THEN 0 ELSE Kept(n)
      /\ audioIn' = Rest(stashAudio, audioIn)
      /\ UNCHANGED <<producer, cmds, stashCmd, kind, cur>>

DrainCommandsBefore ==
  LET n == First(stashCmd, cmds)
  IN  /\ pc = "fetch" /\ kind = "audio"
      /\ DrainStep(n)
      /\ stashCmd' = IF Earlier(n) THEN 0 ELSE Kept(n)
      /\ cmds' = Rest(stashCmd, cmds)
      /\ UNCHANGED <<producer, audioIn, stashAudio, kind, cur>>

Exited == pc = "exited" /\ called = "none" /\ posting = 0 /\ ~open /\ UNCHANGED vars

Drain == DrainCheck \/ DrainAudioBefore \/ DrainCommandsBefore

Next ==
  \/ Call \/ Post \/ PostSent \/ PostClosed \/ PostAudio \/ Cancel
  \/ LoopCheck \/ TakeStashedCommand \/ TakeStashedAudio
  \/ ReceiveCommand \/ ReceiveAudio \/ OtherEvent \/ SelectDone
  \/ Drain
  \/ Exited

Spec == Init /\ [][Next]_vars

(***************************************************************************)
(* Fairness.  The actor keeps running, handlers return (Session), and      *)
(* select picks at random among the ready cases, so a channel that keeps   *)
(* being ready is received from however busy the other cases are.          *)
(***************************************************************************)
FairSpec ==
  /\ Spec
  /\ WF_vars(LoopCheck) /\ WF_vars(Drain)
  /\ WF_vars(TakeStashedCommand) /\ WF_vars(TakeStashedAudio)
  /\ SF_vars(ReceiveCommand) /\ SF_vars(ReceiveAudio)
  /\ WF_vars(PostSent) /\ WF_vars(PostClosed)
-----------------------------------------------------------------------------
(***************************************************************************)
(* Properties                                                              *)
(***************************************************************************)
TypeOK ==
  /\ seq \in Nat /\ posting \in Nat /\ stashCmd \in Nat /\ stashAudio \in Nat /\ cur \in Nat
  /\ cmds \in Seq(Nat) /\ audioIn \in Seq(Nat)
  /\ pc \in {"loop", "pick", "drain", "fetch", "exited"}
  /\ kind \in {"command", "audio"} /\ called \in {"none", "command", "audio"}
  /\ open \in BOOLEAN /\ handled \in Nat /\ late \in Nat

Holding == pc \in {"drain", "fetch"}

Increasing(q) == \A i, j \in 1..Len(q) : i < j => q[i] < q[j]
Below(n, q) == \A i \in 1..Len(q) : n < q[i]
Within(q) == \A i \in 1..Len(q) : q[i] <= seq
In(n, q) == \E i \in 1..Len(q) : q[i] = n

\* The commands not yet handled are, in order: the one in hand, the stashed one, the
\* queued ones, the one being posted; and the frames likewise.  All of them were posted
\* after the last input handled, and the actor never holds an input while the stash has
\* one of the same kind.
InOrder ==
  /\ Increasing(cmds) /\ Increasing(audioIn)
  /\ Below(handled, cmds) /\ Below(handled, audioIn)
  /\ stashCmd # 0 => handled < stashCmd /\ Below(stashCmd, cmds)
  /\ stashAudio # 0 => handled < stashAudio /\ Below(stashAudio, audioIn)
  /\ Holding /\ kind = "command" => stashCmd = 0 /\ Below(cur, cmds)
  /\ Holding /\ kind = "audio" => stashAudio = 0 /\ Below(cur, audioIn)
  /\ Holding => handled < cur

\* The inputs that wait in a channel, in its stash or in hand; a number is used once.
CommandWaits(n) == In(n, cmds) \/ n = stashCmd \/ (Holding /\ kind = "command" /\ n = cur)
AudioWaits(n) == In(n, audioIn) \/ n = stashAudio \/ (Holding /\ kind = "audio" /\ n = cur)
Apart == \A n \in 1..seq : ~(CommandWaits(n) /\ AudioWaits(n))
Waiting(n) == CommandWaits(n) \/ AudioWaits(n) \/ n = posting

\* One call at a time; a command being posted has the newest number of all.
PostingNewest ==
  /\ called # "none" => posting = 0
  /\ posting # 0 => /\ posting = seq /\ handled < posting
                    /\ stashCmd < posting /\ stashAudio < posting
                    /\ \A i \in 1..Len(cmds) : cmds[i] < posting
                    /\ \A i \in 1..Len(audioIn) : audioIn[i] < posting
                    /\ Holding => cur < posting

\* Every number in the system was taken from the counter.
AllPosted ==
  /\ Within(cmds) /\ Within(audioIn)
  /\ handled <= seq /\ stashCmd <= seq /\ stashAudio <= seq /\ (Holding => cur <= seq)

\* The inductive invariant.  While the session is open, every input posted and not yet
\* handled is waiting somewhere: nothing is lost.  The order holds as long as the actor
\* can still handle anything, and the inputs handled after the cancel are counted by
\* how far the actor still has to go.
NothingLost == open => \A n \in (handled + 1)..seq : Waiting(n)
LateCount ==
  /\ open \/ pc \in {"pick", "fetch"} => late = 0
  /\ pc = "drain" => late <= 1
CanHandle == open \/ pc \in {"pick", "drain", "fetch"}
IInv ==
  /\ TypeOK /\ AllPosted /\ PostingNewest
  /\ CanHandle => InOrder /\ Apart
  /\ NothingLost /\ LateCount

\* Two channels, one queue: the inputs are handled in the order in which they were
\* posted, whichever channel they took, none lost and none twice while the session is
\* open, and at most two after it is cancelled.
Ordered == INSTANCE OrderedInput WITH posted <- seq
OrderedSpec == Ordered!Spec

\* Every input posted is eventually handled, unless the session is cancelled first.
EventuallyHandled == \A n \in 1..MaxPosts : (seq >= n) ~> (handled >= n \/ ~open)

\* Post always returns: the read loop is never stuck behind a session that has ended.
PostReturns == (posting # 0) ~> (posting = 0)
=============================================================================
