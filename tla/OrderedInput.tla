---------------------------- MODULE OrderedInput ----------------------------
(***************************************************************************)
(* What the two inbound queues of a session amount to: one queue.  Client  *)
(* inputs, commands and audio frames alike, are numbered as they are       *)
(* posted, and while the session is open they are handled one by one in    *)
(* that order, none skipped and none twice.  Once the context is cancelled *)
(* the actor is on its way out: it may still handle up to two inputs, in   *)
(* order, but what lies between them may be lost.                          *)
(***************************************************************************)
EXTENDS Naturals

VARIABLES posted,   \* inputs posted so far
          handled,  \* the number of the last input handled
          open,     \* the session context is not cancelled
          late      \* inputs handled after the cancel

vars == <<posted, handled, open, late>>

Init == posted = 0 /\ handled = 0 /\ open = TRUE /\ late = 0

\* An input is posted; one that finds its queue full closes the session.  The session
\* may have been closed while the caller was on its way.
Post ==
  /\ posted' = posted + 1
  /\ open' \in IF open THEN BOOLEAN ELSE {FALSE}
  /\ UNCHANGED <<handled, late>>

\* The next input is handled; its handler may close the session.
Handle ==
  /\ open /\ handled < posted
  /\ handled' = handled + 1
  /\ open' \in BOOLEAN
  /\ UNCHANGED <<posted, late>>

HandleLate ==
  /\ ~open /\ late < 2
  /\ handled' \in (handled + 1)..posted
  /\ late' = late + 1
  /\ UNCHANGED <<posted, open>>

Close ==
  /\ open
  /\ open' = FALSE
  /\ UNCHANGED <<posted, handled, late>>

Next == Post \/ Handle \/ HandleLate \/ Close

Spec == Init /\ [][Next]_vars
=============================================================================
