--------------------------- MODULE ClientContract ---------------------------
(***************************************************************************)
(* What the consumer of a session's event stream may rely on: the order    *)
(* of the lifecycle events of responses and items.  One response at a      *)
(* time; a response is created, gets its output items added and done, and  *)
(* is done once; an item is added once and done at most once, after that.  *)
(*                                                                         *)
(* Once the session's context is cancelled (lossy) any event may be lost,  *)
(* so a later event may then refer to something never announced; what was  *)
(* told before is never taken back.                                        *)
(***************************************************************************)
EXTENDS Maps

VARIABLES resp,   \* status of every response the client knows
          item,   \* "added", "done" or "deleted" for every item the client knows
          owner,  \* the response an output item belongs to
          lossy   \* the session is being closed

vars == <<resp, item, owner, lossy>>

InProgress == {r \in DOMAIN resp : resp[r] = "in_progress"}
OpenItems(r) == {i \in DOMAIN owner : owner[i] = r /\ i \in DOMAIN item /\ item[i] = "added"}

Init == resp = <<>> /\ item = <<>> /\ owner = <<>> /\ lossy = FALSE

\* response.created: fresh, and no other response is in progress.
Created(r) ==
  /\ r \notin DOMAIN resp
  /\ lossy \/ InProgress = {}
  /\ resp' = Put(resp, r, "in_progress")
  /\ UNCHANGED <<item, owner, lossy>>

\* response.done: in progress, with every output item closed.
Done(r, status) ==
  /\ lossy \/ (r \in InProgress /\ OpenItems(r) = {})
  /\ r \in DOMAIN resp => r \in InProgress
  /\ status \in {"completed", "cancelled", "incomplete", "failed"}
  /\ resp' = Put(resp, r, status)
  /\ UNCHANGED <<item, owner, lossy>>

\* conversation.item.added
Added(i) ==
  /\ i \notin DOMAIN item
  /\ item' = Put(item, i, "added")
  /\ UNCHANGED <<resp, owner, lossy>>

\* response.output_item.added, during its response.
OutputAdded(i, r) ==
  /\ i \notin DOMAIN item
  /\ lossy \/ r \in InProgress
  /\ item' = Put(item, i, "added")
  /\ owner' = Put(owner, i, r)
  /\ UNCHANGED <<resp, lossy>>

\* conversation.item.done and response.output_item.done
ItemDone(i) ==
  /\ lossy \/ (i \in DOMAIN item /\ item[i] = "added")
  /\ i \in DOMAIN item => item[i] = "added"
  /\ i \in DOMAIN owner => lossy \/ owner[i] \in InProgress
  /\ item' = Put(item, i, "done")
  /\ UNCHANGED <<resp, owner, lossy>>

\* conversation.item.deleted: of an item of no response in progress, or of a
\* delivered tool call.
Deleted(i) ==
  /\ lossy \/ i \in DOMAIN item
  /\ i \in DOMAIN item => item[i] # "deleted"
  /\ i \in DOMAIN owner => lossy \/ owner[i] \notin InProgress \/ item[i] = "done"
  /\ item' = Put(item, i, "deleted")
  /\ UNCHANGED <<resp, owner, lossy>>

Close == ~lossy /\ lossy' = TRUE /\ UNCHANGED <<resp, item, owner>>

\* The response or item an event is about is known after it, so the quantifiers
\* range over what is known in the next state.
Next ==
  \/ \E r \in DOMAIN resp' :
       Created(r) \/ \E status \in {"completed", "cancelled", "incomplete", "failed"} : Done(r, status)
  \/ \E i \in DOMAIN item' : Added(i) \/ ItemDone(i) \/ Deleted(i)
  \/ \E i \in DOMAIN owner' : OutputAdded(i, owner'[i])
  \/ Close

Spec == Init /\ [][Next]_vars
=============================================================================
