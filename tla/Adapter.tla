------------------------------ MODULE Adapter ------------------------------
(***************************************************************************)
(* The protocol adapter of internal/protocol: the id tables between the    *)
(* session's refs and the ids on the wire, what a client event is checked  *)
(* against before it becomes a command, and the frames a session event     *)
(* becomes.  The adapter's state is one record; every method that changes  *)
(* it is an operator from such a record to the next one.  The mutex makes  *)
(* each of them atomic, and nothing more: the caller sends the frames      *)
(* afterwards.                                                             *)
(*                                                                         *)
(* Wire ids are tuples tagged with their origin, so that a minted id       *)
(* differs from every id a client makes up.  Of a frame only the wire ids  *)
(* it tells the client are kept; event ids are left out.                   *)
(***************************************************************************)
EXTENDS Integers, Sequences, Maps

None == <<"none">>
ClientId(c) == <<"client", c>>
Minted(prefix, n) == <<prefix, n>>

\* New
NewAdapter ==
  [ids |-> 0,          \* random ids drawn so far: newID never repeats one
   items |-> <<>>,     \* ref -> wire id and wire call id
   itemByID |-> <<>>,  \* wire id -> ref
   callByID |-> <<>>,  \* wire call id -> ref of the function_call item
   callWire |-> <<>>,  \* the LLM provider's call id -> wire call id
   resps |-> <<>>,     \* response ref -> wire id
   respByID |-> <<>>]  \* wire id -> response ref

\* A session event: the response, the item and the item before it (0: none), the
\* item's client-chosen id, and the function_call item whose call id it carries.
Ev(type, resp, item, prev, cid, call) ==
  [type |-> type, resp |-> resp, item |-> item, prev |-> prev, cid |-> cid, call |-> call]
Plain(type) == Ev(type, 0, 0, 0, None, 0)

\* The state after a call, and the n frames it returned: each tells the client ids.
Frames(ad, n, told) == [ad |-> ad, frames |-> [i \in 1..n |-> told]]
-----------------------------------------------------------------------------
(***************************************************************************)
(* Id tables                                                               *)
(***************************************************************************)
\* item: a server id on first sight.
AllocItem(ad, ref, id) ==
  [ad EXCEPT !.items = Put(@, ref, [id |-> id, call |-> None]), !.itemByID = Put(@, id, ref)]

ItemOf(ad, ref) ==
  IF ref \in DOMAIN ad.items THEN ad
  ELSE AllocItem([ad EXCEPT !.ids = @ + 1], ref, Minted("item", ad.ids))

\* itemFor: item, honoring a client-supplied id.
ItemFor(ad, ref, cid) ==
  IF ref \in DOMAIN ad.items \/ cid = None THEN ItemOf(ad, ref) ELSE AllocItem(ad, ref, cid)

\* itemBody: the wire call id of a tool item, minted for the call and echoed by its
\* output.
ItemBody(ad, ref, call, isCall) ==
  IF call = 0 \/ ad.items[ref].call # None THEN ad
  ELSE LET known == call \in DOMAIN ad.callWire
           wire  == IF known THEN ad.callWire[call] ELSE Minted("call", ad.ids)
           next  == IF known THEN ad
                    ELSE [ad EXCEPT !.ids = @ + 1, !.callWire = Put(@, call, wire)]
       IN  [next EXCEPT !.items[ref].call = wire,
                        !.callByID = IF isCall THEN Put(@, wire, ref) ELSE @]

\* optID: the id of the item before, if there is one.
OptID(ad, prev) == IF prev = 0 THEN ad ELSE ItemOf(ad, prev)

\* A deleted item loses both its entries.  (Mutant: the id stays in itemByID.)
ForgetItemHalf(ad, ref) == [ad EXCEPT !.items = Remove(@, ref)]
ForgetItem(ad, ref) ==
  [ad EXCEPT !.items = Remove(@, ref), !.itemByID = Remove(@, ad.items[ref].id)]
-----------------------------------------------------------------------------
(***************************************************************************)
(* Inbound.  A client event is rejected (by the decoder, or because it     *)
(* names something the tables do not hold) or becomes a command.           *)
(***************************************************************************)
Cmd(kind, ref, cid) == [kind |-> kind, ref |-> ref, cid |-> cid]
Rejected == Cmd("reject", 0, None)

Lookup(table, id, kind) ==
  IF id \in DOMAIN table THEN Cmd(kind, table[id], None) ELSE Rejected

\* dispatch: conversation.item.create with a client id, or with the call id of a
\* function_call_output.  A previous_item_id is looked up like an item_id and left out.
CreateItem(ad, cid) == IF cid \in DOMAIN ad.itemByID THEN Rejected ELSE Cmd("create", 0, cid)

\* The decoders check an event's fields one by one: what one of them refuses, like an
\* unknown or unsupported type, is "invalid".  The input_audio_buffer events name no
\* id: a commit is the actor's own "turn", an append can only overflow (Connection).
Dispatch(ad, ev) ==
  CASE ev.type = "invalid" -> Rejected
    [] ev.type = "session.update" -> Cmd("update", 0, None)
    [] ev.type = "item.create" -> CreateItem(ad, ev.id)
    [] ev.type = "item.create.output" -> Lookup(ad.callByID, ev.id, "output")
    [] ev.type = "item.delete" -> Lookup(ad.itemByID, ev.id, "delete")
    [] ev.type = "item.truncate" -> Lookup(ad.itemByID, ev.id, "truncate")
    [] ev.type = "response.create" -> Cmd("respond", 0, None)
    [] ev.type = "response.cancel" ->
         IF ev.id = None THEN Cmd("cancel", 0, None) ELSE Lookup(ad.respByID, ev.id, "cancel")

-----------------------------------------------------------------------------
(***************************************************************************)
(* Outbound                                                                *)
(***************************************************************************)
ItemFrames(ad, ref, n) == Frames(ad, n, {ad.items[ref].id, ad.items[ref].call} \ {None})

\* The events whose handler dereferences a.resps[e.Resp].
NeedsResponse == {"EvOutputItemAdded", "EvToolCallArguments", "EvOutputItemDone", "EvResponseDone"}

\* A nil respState is dereferenced: the pump's goroutine panics, and with it the process.
Panics(ad, e) == e.type \in NeedsResponse /\ e.resp \notin DOMAIN ad.resps

IsCall(e) == e.call # 0 /\ e.call = e.item

Outbound(ad, e) ==
  LET named == OptID(ItemOf(ad, e.item), e.prev)
      body(a) == ItemBody(a, e.item, e.call, IsCall(e))
      added == body(OptID(ItemFor(ad, e.item, e.cid), e.prev))
      done  == body(ItemFor(ad, e.item, e.cid))
      resp  == Minted("resp", ad.ids)
      \* The output items of response.done: the message, then the function_call.
      done1 == IF e.item = 0 THEN ad ELSE ItemOf(ad, e.item)
      done2 == IF e.call = 0 THEN done1 ELSE ItemBody(ItemOf(done1, e.call), e.call, e.call, TRUE)
  IN  CASE e.type \in {"EvSessionUpdated", "EvError", "EvFatal"} -> Frames(ad, 1, {})
        [] e.type \in {"EvAudioBufferCommitted", "EvItemTruncated"} -> ItemFrames(named, e.item, 1)
        [] e.type = "EvItemAdded" -> ItemFrames(added, e.item, 1)
        [] e.type = "EvItemDone" -> ItemFrames(done, e.item, 1)
        [] e.type = "EvItemDeleted" ->
             LET f == ItemFrames(named, e.item, 1)
             IN  [f EXCEPT !.ad = ForgetItem(@, e.item)]
        [] e.type = "EvResponseCreated" ->
             Frames([ad EXCEPT !.ids = @ + 1, !.resps = Put(@, e.resp, resp),
                               !.respByID = Put(@, resp, e.resp)], 1, {resp})
        [] e.type = "EvOutputItemAdded" -> ItemFrames(added, e.item, IF IsCall(e) THEN 2 ELSE 3)
        [] e.type = "EvOutputItemDone" -> ItemFrames(done, e.item, IF IsCall(e) THEN 2 ELSE 3)
        [] e.type = "EvToolCallArguments" -> ItemFrames(named, e.item, 2)
        [] e.type = "EvResponseDone" -> Frames(done2, 1, {ad.resps[e.resp]})
        [] e.type = "EvSessionClosed" -> Frames(ad, 0, {})
=============================================================================
