-------------------------- MODULE ConnectionProofs --------------------------
(***************************************************************************)
(* Proofs about one connection, for every queue capacity, every scenario   *)
(* and every number of events, items and responses: the frames reach the   *)
(* client in order and none is missing before a close, the adapter's id    *)
(* tables are each other's inverse, and the pump meets a response it was   *)
(* never told of only while the session is being closed.                   *)
(***************************************************************************)
EXTENDS Connection, SequenceTheorems, WellFoundedInduction, TLAPS

(***************************************************************************)
(* Naturals                                                                *)
(***************************************************************************)
\* A nonempty set of naturals has a least element.
LEMMA NatMin ==
  ASSUME NEW T \in SUBSET Nat, T # {}
  PROVE  \E m \in T : \A n \in T : m <= n
<1>1. PICK m \in T : \A n \in Nat : <<n, m>> \in OpToRel(<, Nat) => n \notin T
  BY WFMin, NatLessThanWellFounded
<1>2. \A n \in Nat : n < m => n \notin T
  BY <1>1 DEF OpToRel
<1> QED BY <1>2

\* The last item of a conversation is one of its items.
LEMMA MaxIn ==
  ASSUME NEW n \in Nat, NEW S \in SUBSET (1..n), S # {}
  PROVE  Max(S) \in S
<1> DEFINE T == {m \in Nat : \A y \in S : y <= m}
<1>1. T \in SUBSET Nat /\ n \in T
  OBVIOUS
<1>2. PICK m \in T : \A k \in T : m <= k
  BY <1>1, NatMin
<1>3. m \in S
  <2> SUFFICES ASSUME m \notin S PROVE FALSE
    OBVIOUS
  <2>1. \A y \in S : y <= m - 1
    OBVIOUS
  <2>2. PICK y \in S : TRUE
    OBVIOUS
  <2>3. m - 1 \in Nat
    BY <2>1, <2>2
  <2> QED BY <1>2, <2>1, <2>3
<1> QED BY <1>3 DEF Max

(***************************************************************************)
(* Types                                                                   *)
(***************************************************************************)
ClientIds == {ClientId(c) : c \in ClientNames}
CIds == ClientIds \cup {None}
Ids == CIds \cup {Minted(p, n) : p \in {"item", "call", "resp"}, n \in Nat}

EventTypes == {"EvSessionUpdated", "EvError", "EvFatal", "EvAudioBufferCommitted", "EvItemTruncated", "EvItemAdded",
               "EvItemDone", "EvItemDeleted", "EvResponseCreated", "EvOutputItemAdded", "EvOutputItemDone",
               "EvToolCallArguments", "EvResponseDone", "EvSessionClosed"}
Evs == [type : EventTypes, resp : Nat, item : Nat, prev : Nat, cid : CIds, call : Nat]
Cmds == [kind : {"reject", "update", "create", "output", "delete", "truncate", "respond", "cancel"},
         ref : Nat, cid : CIds]
Codes == {"normal", "internal_error", "going_away"}
Msgs == [close : {""} \cup Codes, k : Nat, ids : SUBSET Ids]

\* m is a map into S.
Mapped(m, S) == m \in [DOMAIN m -> S]

AdapterOK(a) ==
  /\ a \in [ids : Nat, items : {a.items}, itemByID : {a.itemByID}, callByID : {a.callByID},
            callWire : {a.callWire}, resps : {a.resps}, respByID : {a.respByID}]
  /\ Mapped(a.items, [id : Ids, call : Ids]) /\ DOMAIN a.items \subseteq Nat
  /\ Mapped(a.itemByID, Nat) /\ Mapped(a.callByID, Nat) /\ Mapped(a.callWire, Ids)
  /\ Mapped(a.resps, Ids) /\ Mapped(a.respByID, Nat)

ActorOK(b) ==
  /\ b \in [pc : {"run", "cleanup", "closed"}, todo : Seq(Evs), live : {b.live}, born : Nat,
            cid : {b.cid}, calls : {b.calls}, answered : {b.answered},
            active : [ref : Nat, item : Nat, toolItem : Nat], resps : Nat]
  /\ b.live \subseteq 1..b.born /\ b.cid \in [1..b.born -> CIds]

QueuesOK ==
  /\ cmds \in Seq(Cmds) /\ events \in Seq(Evs) /\ out \in Seq(Msgs)
  /\ reader \in [pc : {"read", "post", "send", "wait", "returned", "panicked"}, cmd : Cmds]
  /\ pump \in [pc : {"hello", "take", "done"}, left : Seq(SUBSET Ids), code : Codes, built : Nat]
  /\ writer \in [pc : {"recv", "write", "close", "done"}, msg : Msgs]
  /\ wire \in [got : Seq(Nat), ids : SUBSET Ids, close : {""} \cup Codes]
  /\ scene \in Scenarios /\ Len(pump.left) <= pump.built

ConnOK == QueuesOK /\ ActorOK(actor)

\* What a queue gives, and what is left of it.
LEMMA QueueHead ==
  ASSUME NEW S, NEW q \in Seq(S), q # <<>>
  PROVE  /\ Head(q) \in S /\ Tail(q) \in Seq(S) /\ Len(q) \in Nat \ {0} /\ Len(Tail(q)) = Len(q) - 1
         /\ Head(q) = q[1] /\ \A i \in 1..Len(Tail(q)) : Tail(q)[i] = q[i + 1]
OBVIOUS

\* ... and after its end has grown.
LEMMA QueueAppend ==
  ASSUME NEW S, NEW q \in Seq(S), NEW e \in S
  PROVE  /\ Append(q, e) \in Seq(S) /\ Len(q) \in Nat /\ Len(Append(q, e)) = Len(q) + 1
         /\ Append(q, e)[Len(q) + 1] = e /\ \A i \in 1..Len(q) : Append(q, e)[i] = q[i]
OBVIOUS

\* The ids of one origin differ from those of another, and those minted for one another.
LEMMA IdsDiffer ==
  /\ \A c, d : ClientId(c) # None /\ (ClientId(c) = ClientId(d) => c = d)
  /\ \A p, n : Minted(p, n) # None
  /\ \A n, c : Minted("item", n) # ClientId(c)
  /\ \A n, m, p : Minted(p, n) = Minted("item", m) => n = m /\ p = "item"
BY DEF ClientId, Minted, None

(***************************************************************************)
(* The adapter's tables.  K are the ids the clients chose, by item.        *)
(***************************************************************************)
Inverses(a) ==
  /\ \A r \in DOMAIN a.items : a.items[r].id \in DOMAIN a.itemByID /\ a.itemByID[a.items[r].id] = r
  /\ \A id \in DOMAIN a.itemByID : a.itemByID[id] \in DOMAIN a.items /\ a.items[a.itemByID[id]].id = id

\* newID has not drawn the id yet.
Fresh(a) == \A n \in Nat : Minted("item", n) \in DOMAIN a.itemByID => n < a.ids

\* A client's id stands for an item that the client gave it to.
NamedBy(a, K) ==
  \A id \in ClientIds : id \in DOMAIN a.itemByID => a.itemByID[id] \in DOMAIN K /\ K[a.itemByID[id]] = id

\* No two items were given the same id.
Unique(K) == \A r1, r2 \in DOMAIN K : K[r1] # None /\ K[r1] = K[r2] => r1 = r2

TabOK(a, K) == AdapterOK(a) /\ Fresh(a) /\ NamedBy(a, K)

\* From a to b nothing was forgotten, and the tables stay each other's inverse.
Tells(a, b, K) ==
  /\ TabOK(b, K) /\ (Inverses(a) /\ Unique(K) => Inverses(b))
  /\ b.resps = a.resps /\ DOMAIN a.items \subseteq DOMAIN b.items

\* A call that changes nothing tells nothing.
LEMMA TellsNothing == ASSUME NEW a, NEW K, TabOK(a, K) PROVE Tells(a, a, K)
BY DEF Tells

\* Calls compose.
LEMMA TellsTrans ==
  ASSUME NEW a, NEW b, NEW c, NEW K, Tells(a, b, K), Tells(b, c, K) PROVE Tells(a, c, K)
BY DEF Tells

\* A new item under an id that no item has.
LEMMA AllocOK ==
  ASSUME NEW a, AdapterOK(a), NEW ref \in Nat, ref \notin DOMAIN a.items, NEW id \in Ids
  PROVE  LET b == AllocItem(a, ref, id) IN
         /\ AdapterOK(b) /\ b.ids = a.ids /\ b.resps = a.resps
         /\ DOMAIN b.items = DOMAIN a.items \cup {ref}
         /\ DOMAIN b.itemByID = DOMAIN a.itemByID \cup {id} /\ b.itemByID[id] = ref
         /\ \A x \in DOMAIN a.itemByID : x # id => b.itemByID[x] = a.itemByID[x]
         /\ Inverses(a) /\ id \notin DOMAIN a.itemByID => Inverses(b)
<1> DEFINE V == [id : Ids, call : Ids]
           x == [id |-> id, call |-> None]
           m == Put(a.items, ref, x)
           n == Put(a.itemByID, id, ref)
           b == [a EXCEPT !.items = m, !.itemByID = n]
<1>1. x \in V /\ x.id = id
  BY DEF Ids, CIds
<1>2. Mapped(a.items, V) /\ Mapped(a.itemByID, Nat) /\ DOMAIN a.items \subseteq Nat
  BY DEF AdapterOK
<1> HIDE DEF V, x
<1>3. /\ Mapped(m, V) /\ DOMAIN m = DOMAIN a.items \cup {ref} /\ m[ref] = x
      /\ \A r \in DOMAIN a.items : m[r] = a.items[r]
  BY <1>1, <1>2 DEF Put, Mapped
<1>4. /\ Mapped(n, Nat) /\ DOMAIN n = DOMAIN a.itemByID \cup {id} /\ n[id] = ref
      /\ \A i \in DOMAIN a.itemByID : i # id => n[i] = a.itemByID[i]
  BY <1>2 DEF Put, Mapped
<1> HIDE DEF m, n
<1>5. AllocItem(a, ref, id) = b
  BY DEF AllocItem, m, n, x
<1>6. /\ b.items = m /\ b.itemByID = n /\ b.ids = a.ids /\ b.resps = a.resps
      /\ b.callByID = a.callByID /\ b.callWire = a.callWire /\ b.respByID = a.respByID
      /\ b \in [ids : Nat, items : {m}, itemByID : {n}, callByID : {a.callByID},
                callWire : {a.callWire}, resps : {a.resps}, respByID : {a.respByID}]
  BY DEF AdapterOK
<1> HIDE DEF b
<1>7. AdapterOK(b)
  BY <1>2, <1>3, <1>4, <1>6 DEF AdapterOK, V
<1>8. ASSUME Inverses(a), id \notin DOMAIN a.itemByID PROVE Inverses(b)
  <2>1. \A r \in DOMAIN m : m[r].id \in DOMAIN n /\ n[m[r].id] = r
    BY <1>1, <1>3, <1>4, <1>8 DEF Inverses
  <2>2. \A i \in DOMAIN n : n[i] \in DOMAIN m /\ m[n[i]].id = i
    BY <1>1, <1>3, <1>4, <1>8 DEF Inverses
  <2> QED BY <1>6, <2>1, <2>2 DEF Inverses
<1> QED BY <1>3, <1>4, <1>5, <1>6, <1>7, <1>8

\* item mints an id the tables do not hold.
LEMMA ItemOfOK ==
  ASSUME NEW a, NEW K, TabOK(a, K), NEW ref \in Nat
  PROVE  Tells(a, ItemOf(a, ref), K) /\ ref \in DOMAIN ItemOf(a, ref).items
<1>1. CASE ref \in DOMAIN a.items
  BY <1>1, TellsNothing DEF ItemOf
<1>2. CASE ref \notin DOMAIN a.items
  <2> DEFINE c == [a EXCEPT !.ids = @ + 1]
             id == Minted("item", a.ids)
             b == AllocItem(c, ref, id)
  <2>1. /\ AdapterOK(c) /\ c.items = a.items /\ c.itemByID = a.itemByID /\ c.resps = a.resps
        /\ a.ids \in Nat /\ c.ids = a.ids + 1
    BY DEF TabOK, AdapterOK
  <2>2. id \in Ids /\ id \notin ClientIds
    BY <2>1, IdsDiffer DEF Ids, ClientIds
  <2>3. id \notin DOMAIN a.itemByID
    BY <2>1 DEF TabOK, Fresh
  <2> HIDE DEF c
  <2>4. /\ AdapterOK(b) /\ b.ids = c.ids /\ b.resps = c.resps
        /\ DOMAIN b.items = DOMAIN c.items \cup {ref}
        /\ DOMAIN b.itemByID = DOMAIN c.itemByID \cup {id} /\ b.itemByID[id] = ref
        /\ \A x \in DOMAIN c.itemByID : x # id => b.itemByID[x] = c.itemByID[x]
        /\ Inverses(c) /\ id \notin DOMAIN c.itemByID => Inverses(b)
    BY <1>2, <2>1, <2>2, AllocOK
  <2>5. ItemOf(a, ref) = b
    BY <1>2 DEF ItemOf, c
  <2> HIDE DEF b
  <2>6. Fresh(b)
    <3> SUFFICES ASSUME NEW n \in Nat, Minted("item", n) \in DOMAIN b.itemByID PROVE n < b.ids
      BY DEF Fresh
    <3>1. CASE Minted("item", n) \in DOMAIN a.itemByID
      BY <2>1, <2>4, <3>1 DEF TabOK, Fresh
    <3>2. CASE Minted("item", n) = id
      <4>1. n = a.ids
        BY <3>2, IdsDiffer
      <4> QED BY <2>1, <2>4, <4>1
    <3> QED BY <2>1, <2>4, <3>1, <3>2
  <2> HIDE DEF id
  <2>7. NamedBy(b, K)
    BY <2>1, <2>2, <2>4 DEF TabOK, NamedBy
  <2>8. Inverses(a) => Inverses(b)
    BY <2>1, <2>3, <2>4 DEF Inverses
  <2> QED BY <2>1, <2>4, <2>5, <2>6, <2>7, <2>8 DEF Tells, TabOK
<1> QED BY <1>1, <1>2

\* itemFor takes the id a client chose for its item: nobody else has it, unless two
\* items were given the same.
LEMMA ItemForOK ==
  ASSUME NEW a, NEW K, TabOK(a, K), NEW ref \in Nat, NEW cid \in CIds,
         cid # None => ref \in DOMAIN K /\ K[ref] = cid
  PROVE  Tells(a, ItemFor(a, ref, cid), K) /\ ref \in DOMAIN ItemFor(a, ref, cid).items
<1>1. CASE ref \in DOMAIN a.items \/ cid = None
  BY <1>1, ItemOfOK DEF ItemFor
<1>2. CASE ref \notin DOMAIN a.items /\ cid # None
  <2> DEFINE b == AllocItem(a, ref, cid)
  <2>1. cid \in Ids /\ cid \in ClientIds
    BY <1>2 DEF Ids, CIds
  <2>2. /\ AdapterOK(b) /\ b.ids = a.ids /\ b.resps = a.resps
        /\ DOMAIN b.items = DOMAIN a.items \cup {ref}
        /\ DOMAIN b.itemByID = DOMAIN a.itemByID \cup {cid} /\ b.itemByID[cid] = ref
        /\ \A x \in DOMAIN a.itemByID : x # cid => b.itemByID[x] = a.itemByID[x]
        /\ Inverses(a) /\ cid \notin DOMAIN a.itemByID => Inverses(b)
    BY <1>2, <2>1, AllocOK DEF TabOK
  <2>3. ItemFor(a, ref, cid) = b
    BY <1>2 DEF ItemFor
  <2> HIDE DEF b
  <2>4. Fresh(b)
    <3>1. \A n \in Nat : Minted("item", n) # cid
      BY <2>1, IdsDiffer DEF ClientIds
    <3> QED BY <2>2, <3>1 DEF TabOK, Fresh
  <2>5. NamedBy(b, K)
    BY <1>2, <2>2 DEF TabOK, NamedBy
  <2>6. Inverses(a) /\ Unique(K) => cid \notin DOMAIN a.itemByID
    BY <1>2, <2>1 DEF Inverses, Unique, TabOK, NamedBy
  <2> QED BY <2>2, <2>3, <2>4, <2>5, <2>6 DEF Tells, TabOK
<1> QED BY <1>1, <1>2

\* A call id is drawn and entered.
LEMMA CallDrawn ==
  ASSUME NEW a, AdapterOK(a), NEW cw, NEW n \in Nat
  PROVE  LET b == [a EXCEPT !.ids = n, !.callWire = cw] IN
         /\ b \in [ids : Nat, items : {a.items}, itemByID : {a.itemByID}, callByID : {a.callByID},
                   callWire : {cw}, resps : {a.resps}, respByID : {a.respByID}]
         /\ b.callWire = cw /\ b.ids = n
BY DEF AdapterOK

\* itemBody fills in call ids and leaves the item tables alone.
LEMMA ItemBodyOK ==
  ASSUME NEW a, NEW K, TabOK(a, K), NEW ref \in DOMAIN a.items, NEW call \in Nat, NEW isCall \in BOOLEAN
  PROVE  Tells(a, ItemBody(a, ref, call, isCall), K)
<1>1. CASE call = 0 \/ a.items[ref].call # None
  BY <1>1, TellsNothing DEF ItemBody
<1>2. CASE ~(call = 0 \/ a.items[ref].call # None)
  <2> DEFINE V == [id : Ids, call : Ids]
             known == call \in DOMAIN a.callWire
             w == IF known THEN a.callWire[call] ELSE Minted("call", a.ids)
             nx == IF known THEN a ELSE [a EXCEPT !.ids = @ + 1, !.callWire = Put(@, call, w)]
             it == [a.items EXCEPT ![ref].call = w]
             cb == IF isCall THEN Put(a.callByID, w, ref) ELSE a.callByID
             b == [nx EXCEPT !.items[ref].call = w, !.callByID = IF isCall THEN Put(@, w, ref) ELSE @]
  <2>0. /\ Mapped(a.items, V) /\ DOMAIN a.items \subseteq Nat /\ Mapped(a.callWire, Ids)
        /\ Mapped(a.callByID, Nat) /\ a.ids \in Nat
    BY DEF TabOK, AdapterOK
  <2>1. w \in Ids
    BY <2>0 DEF Ids, Mapped
  <2>2. ItemBody(a, ref, call, isCall) = b
    BY <1>2 DEF ItemBody
  <2> HIDE DEF w
  <2>3. Mapped(Put(a.callWire, call, w), Ids)
    BY <2>0, <2>1 DEF Put, Mapped
  <2>4. /\ nx \in [ids : Nat, items : {a.items}, itemByID : {a.itemByID}, callByID : {a.callByID},
                   callWire : {nx.callWire}, resps : {a.resps}, respByID : {a.respByID}]
        /\ Mapped(nx.callWire, Ids) /\ nx.ids >= a.ids /\ nx.ids \in Nat
    <3>1. CASE known
      BY <2>0, <3>1 DEF TabOK, AdapterOK
    <3>2. CASE ~known
      <4> DEFINE cw == Put(a.callWire, call, w)
                 n == a.ids + 1
      <4>1. nx = [a EXCEPT !.ids = n, !.callWire = cw] /\ Mapped(cw, Ids) /\ n \in Nat /\ n >= a.ids
        BY <2>0, <2>3, <3>2
      <4> HIDE DEF nx, cw, n
      <4>2. /\ nx \in [ids : Nat, items : {a.items}, itemByID : {a.itemByID}, callByID : {a.callByID},
                       callWire : {cw}, resps : {a.resps}, respByID : {a.respByID}]
            /\ nx.ids = n /\ nx.callWire = cw
        BY <4>1, CallDrawn DEF TabOK
      <4> QED BY <4>1, <4>2
    <3> QED BY <3>1, <3>2
  <2> HIDE DEF nx, known
  <2>5. Mapped(it, V) /\ DOMAIN it = DOMAIN a.items /\ \A r \in DOMAIN a.items : it[r].id = a.items[r].id
    BY <2>0, <2>1 DEF Mapped
  <2>6. Mapped(cb, Nat)
    BY <2>0 DEF Put, Mapped
  <2>7. b = [nx EXCEPT !.items = it, !.callByID = cb]
    BY <2>4
  <2> HIDE DEF it, cb, b
  <2>8. /\ b \in [ids : Nat, items : {it}, itemByID : {a.itemByID}, callByID : {cb},
                  callWire : {nx.callWire}, resps : {a.resps}, respByID : {a.respByID}]
        /\ b.ids = nx.ids
    BY <2>4, <2>7
  <2>9. AdapterOK(b)
    BY <2>0, <2>4, <2>5, <2>6, <2>8 DEF AdapterOK, TabOK, V
  <2>10. Fresh(b) /\ NamedBy(b, K)
    BY <2>0, <2>4, <2>8 DEF TabOK, Fresh, NamedBy
  <2>11. Inverses(a) => Inverses(b)
    BY <2>5, <2>8 DEF Inverses
  <2> QED BY <2>2, <2>5, <2>8, <2>9, <2>10, <2>11 DEF Tells, TabOK
<1> QED BY <1>1, <1>2

\* An id that may be absent (previous_item_id) is told like any other.
LEMMA OptOK ==
  ASSUME NEW a, NEW K, TabOK(a, K), NEW prev \in Nat PROVE Tells(a, OptID(a, prev), K)
BY ItemOfOK, TellsNothing DEF OptID

\* A deleted item leaves no entry behind.
LEMMA ForgetOK ==
  ASSUME NEW a, NEW K, TabOK(a, K), NEW ref \in DOMAIN a.items
  PROVE  LET b == ForgetItem(a, ref) IN
         TabOK(b, K) /\ (Inverses(a) => Inverses(b)) /\ b.resps = a.resps
<1> DEFINE V == [id : Ids, call : Ids]
           m == Remove(a.items, ref)
           n == Remove(a.itemByID, a.items[ref].id)
           b == [a EXCEPT !.items = m, !.itemByID = n]
<1>1. Mapped(a.items, V) /\ Mapped(a.itemByID, Nat) /\ DOMAIN a.items \subseteq Nat
  BY DEF TabOK, AdapterOK
<1>2. /\ Mapped(m, V) /\ DOMAIN m = DOMAIN a.items \ {ref}
      /\ \A r \in DOMAIN m : m[r] = a.items[r]
  BY <1>1 DEF Remove, Mapped
<1>3. /\ Mapped(n, Nat) /\ DOMAIN n = DOMAIN a.itemByID \ {a.items[ref].id}
      /\ \A i \in DOMAIN n : n[i] = a.itemByID[i]
  BY <1>1 DEF Remove, Mapped
<1> HIDE DEF m, n
<1>4. ForgetItem(a, ref) = b
  BY DEF ForgetItem, m, n
<1>5. /\ b \in [ids : Nat, items : {m}, itemByID : {n}, callByID : {a.callByID},
                callWire : {a.callWire}, resps : {a.resps}, respByID : {a.respByID}]
      /\ b.ids = a.ids
  BY DEF TabOK, AdapterOK
<1> HIDE DEF b
<1>6. AdapterOK(b)
  BY <1>1, <1>2, <1>3, <1>5 DEF AdapterOK, TabOK, V
<1>7. Fresh(b) /\ NamedBy(b, K)
  BY <1>3, <1>5 DEF TabOK, Fresh, NamedBy
<1>8. Inverses(a) => Inverses(b)
  BY <1>2, <1>3, <1>5 DEF Inverses
<1> QED BY <1>4, <1>5, <1>6, <1>7, <1>8 DEF TabOK

\* n frames that tell the same ids.
LEMMA FramesOK ==
  ASSUME NEW a, NEW n \in Nat, NEW told \in SUBSET Ids
  PROVE  /\ Frames(a, n, told).ad = a /\ Frames(a, n, told).frames \in Seq(SUBSET Ids)
         /\ Len(Frames(a, n, told).frames) = n
BY DEF Frames

\* The frames about an item name only ids of the tables.
LEMMA ItemFramesOK ==
  ASSUME NEW a, NEW K, TabOK(a, K), NEW ref \in DOMAIN a.items, NEW n \in Nat
  PROVE  ItemFrames(a, ref, n).ad = a /\ ItemFrames(a, ref, n).frames \in Seq(SUBSET Ids)
<1>1. {a.items[ref].id, a.items[ref].call} \ {None} \in SUBSET Ids
  BY DEF TabOK, AdapterOK, Mapped
<1> QED BY <1>1, FramesOK DEF ItemFrames

\* An id is drawn for a response.
LEMMA ResponseDrawn ==
  ASSUME NEW a, NEW K, TabOK(a, K), NEW r \in Nat, NEW id \in Ids
  PROVE  LET b == [a EXCEPT !.ids = @ + 1, !.resps = Put(@, r, id), !.respByID = Put(@, id, r)] IN
         /\ TabOK(b, K) /\ (Inverses(a) => Inverses(b)) /\ DOMAIN b.resps = DOMAIN a.resps \cup {r}
<1> DEFINE n == a.ids + 1
           p == Put(a.resps, r, id)
           q == Put(a.respByID, id, r)
           b == [a EXCEPT !.ids = n, !.resps = p, !.respByID = q]
<1>1. n \in Nat /\ n >= a.ids /\ a.ids \in Nat
  BY DEF TabOK, AdapterOK
<1>2. Mapped(p, Ids) /\ DOMAIN p = DOMAIN a.resps \cup {r} /\ Mapped(q, Nat)
  BY DEF TabOK, AdapterOK, Mapped, Put
<1> HIDE DEF n, p, q
<1>3. /\ b \in [ids : Nat, items : {a.items}, itemByID : {a.itemByID}, callByID : {a.callByID},
                callWire : {a.callWire}, resps : {p}, respByID : {q}]
      /\ b.ids = n
  BY <1>1 DEF TabOK, AdapterOK
<1> HIDE DEF b
<1>4. AdapterOK(b)
  BY <1>2, <1>3 DEF TabOK, AdapterOK
<1>5. Fresh(b) /\ NamedBy(b, K)
  BY <1>1, <1>3 DEF TabOK, Fresh, NamedBy
<1>6. Inverses(a) => Inverses(b)
  BY <1>3 DEF Inverses
<1>7. b.resps = p
  BY <1>3
<1> QED BY <1>2, <1>4, <1>5, <1>6, <1>7 DEF TabOK, b, n, p, q

\* The event tells of its item under the id its client chose, if one did.
Chosen(e, K) == e.cid # None => e.item \in DOMAIN K /\ K[e.item] = e.cid

\* Outbound keeps the tables, and makes frames.
LEMMA OutboundOK ==
  ASSUME NEW a, NEW K, TabOK(a, K), NEW e \in Evs, ~Panics(a, e), Chosen(e, K)
  PROVE  LET f == Outbound(a, e) IN
         /\ TabOK(f.ad, K) /\ (Inverses(a) /\ Unique(K) => Inverses(f.ad))
         /\ f.frames \in Seq(SUBSET Ids)
         /\ DOMAIN f.ad.resps = DOMAIN a.resps \cup (IF e.type = "EvResponseCreated" THEN {e.resp} ELSE {})
<1> DEFINE named == OptID(ItemOf(a, e.item), e.prev)
           body(b) == ItemBody(b, e.item, e.call, IsCall(e))
           plain == ItemFor(a, e.item, e.cid)
           next == OptID(plain, e.prev)
           done1 == IF e.item = 0 THEN a ELSE ItemOf(a, e.item)
           done2 == IF e.call = 0 THEN done1 ELSE ItemBody(ItemOf(done1, e.call), e.call, e.call, TRUE)
           f == Outbound(a, e)
           Told(b) == Tells(a, b, K) /\ e.item \in DOMAIN b.items
<1>1. /\ e.item \in Nat /\ e.prev \in Nat /\ e.call \in Nat /\ e.resp \in Nat /\ e.cid \in CIds
      /\ e.type \in EventTypes /\ IsCall(e) \in BOOLEAN
  BY DEF Evs, IsCall
<1>2. Told(named)
  <2>1. Tells(a, ItemOf(a, e.item), K) /\ e.item \in DOMAIN ItemOf(a, e.item).items
    BY <1>1, ItemOfOK
  <2>2. Tells(ItemOf(a, e.item), named, K)
    BY <1>1, <2>1, OptOK DEF Tells
  <2>3. Tells(a, named, K)
    BY <2>1, <2>2, TellsTrans
  <2> QED BY <2>1, <2>2, <2>3 DEF Tells
<1>3. Told(plain)
  BY <1>1, ItemForOK DEF Chosen
<1>4. Told(next)
  <2>1. Tells(plain, next, K)
    BY <1>1, <1>3, OptOK DEF Tells
  <2>2. Tells(a, next, K)
    BY <1>3, <2>1, TellsTrans
  <2> QED BY <1>3, <2>1, <2>2 DEF Tells
<1> HIDE DEF plain, next
<1>5. \A b : Told(b) => Told(body(b))
  <2> SUFFICES ASSUME NEW b, Told(b) PROVE Told(body(b))
    OBVIOUS
  <2>1. Tells(b, body(b), K)
    BY <1>1, ItemBodyOK DEF Tells
  <2>2. Tells(a, body(b), K)
    BY <2>1, TellsTrans
  <2> QED BY <2>1, <2>2 DEF Tells
<1>6. Tells(a, done2, K)
  <2>1. Tells(a, done1, K)
    BY <1>1, ItemOfOK, TellsNothing
  <2> HIDE DEF done1
  <2>2. CASE e.call = 0
    BY <2>1, <2>2
  <2>3. CASE e.call # 0
    <3>1. Tells(done1, ItemOf(done1, e.call), K) /\ e.call \in DOMAIN ItemOf(done1, e.call).items
      BY <1>1, <2>1, ItemOfOK DEF Tells
    <3>2. Tells(ItemOf(done1, e.call), done2, K)
      BY <1>1, <2>3, <3>1, ItemBodyOK DEF Tells
    <3>3. Tells(a, ItemOf(done1, e.call), K)
      BY <2>1, <3>1, TellsTrans
    <3> HIDE DEF done2
    <3> QED BY <3>2, <3>3, TellsTrans, SMTT(30)
  <2> QED BY <2>2, <2>3
<1> HIDE DEF named, body, done1, done2
\* The frames of an item's event.
<1>7. ASSUME NEW b, Told(b), NEW n \in Nat, f = ItemFrames(b, e.item, n), e.type # "EvResponseCreated"
      PROVE  /\ TabOK(f.ad, K) /\ (Inverses(a) /\ Unique(K) => Inverses(f.ad))
             /\ f.frames \in Seq(SUBSET Ids) /\ DOMAIN f.ad.resps = DOMAIN a.resps
  <2>1. f.ad = b /\ f.frames \in Seq(SUBSET Ids)
    BY <1>7, ItemFramesOK DEF Tells
  <2> QED BY <1>7, <2>1 DEF Tells
<1>8. CASE e.type \in {"EvSessionUpdated", "EvError", "EvFatal", "EvSessionClosed"}
  <2>1. f = Frames(a, 1, {}) \/ f = Frames(a, 0, {})
    BY <1>8 DEF Outbound
  <2>2. f.ad = a /\ f.frames \in Seq(SUBSET Ids)
    BY <2>1, FramesOK
  <2> QED BY <1>8, <2>2
<1>9. CASE e.type \in {"EvAudioBufferCommitted", "EvItemTruncated", "EvToolCallArguments"}
  <2>1. f = ItemFrames(named, e.item, 1) \/ f = ItemFrames(named, e.item, 2)
    BY <1>9 DEF Outbound, named
  <2> QED BY <1>2, <1>7, <1>9, <2>1
<1>10. CASE e.type \in {"EvItemAdded", "EvOutputItemAdded"}
  <2>1. PICK n \in {1, 2, 3} : f = ItemFrames(body(next), e.item, n)
    BY <1>10 DEF Outbound, body, next, plain
  <2> QED BY <1>4, <1>5, <1>7, <1>10, <2>1
<1>11. CASE e.type \in {"EvItemDone", "EvOutputItemDone"}
  <2>1. PICK n \in {1, 2, 3} : f = ItemFrames(body(plain), e.item, n)
    BY <1>11 DEF Outbound, body, plain
  <2> QED BY <1>3, <1>5, <1>7, <1>11, <2>1
<1>12. CASE e.type = "EvItemDeleted"
  <2> DEFINE g == ItemFrames(named, e.item, 1)
  <2>1. g.ad = named /\ g.frames \in Seq(SUBSET Ids)
    BY <1>2, ItemFramesOK DEF Tells
  <2>2. f = [g EXCEPT !.ad = ForgetItem(@, e.item)]
    BY <1>12 DEF Outbound, named
  <2>3. f.ad = ForgetItem(named, e.item) /\ f.frames = g.frames
    BY <2>1, <2>2 DEF ItemFrames, Frames
  <2>4. TabOK(f.ad, K) /\ (Inverses(named) => Inverses(f.ad)) /\ f.ad.resps = named.resps
    BY <1>2, <2>3, ForgetOK DEF Tells
  <2> HIDE DEF g
  <2> QED BY <1>2, <1>12, <2>1, <2>3, <2>4 DEF Tells
<1>13. CASE e.type = "EvResponseCreated"
  <2> DEFINE id == Minted("resp", a.ids)
             b == [a EXCEPT !.ids = @ + 1, !.resps = Put(@, e.resp, id), !.respByID = Put(@, id, e.resp)]
  <2>1. id \in Ids /\ {id} \in SUBSET Ids
    BY DEF Ids, TabOK, AdapterOK
  <2>2. f = Frames(b, 1, {id})
    BY <1>13 DEF Outbound
  <2> HIDE DEF id
  <2>3. TabOK(b, K) /\ (Inverses(a) => Inverses(b)) /\ DOMAIN b.resps = DOMAIN a.resps \cup {e.resp}
    BY <1>1, <2>1, ResponseDrawn
  <2> HIDE DEF b
  <2>4. f.ad = b /\ f.frames \in Seq(SUBSET Ids)
    BY <2>1, <2>2, FramesOK
  <2> QED BY <1>13, <2>3, <2>4
<1>14. CASE e.type = "EvResponseDone"
  <2>1. a.resps[e.resp] \in Ids /\ {a.resps[e.resp]} \in SUBSET Ids
    BY <1>14 DEF Panics, NeedsResponse, TabOK, AdapterOK, Mapped
  <2>2. f = Frames(done2, 1, {a.resps[e.resp]})
    BY <1>14 DEF Outbound, done2, done1
  <2>3. f.ad = done2 /\ f.frames \in Seq(SUBSET Ids)
    BY <2>1, <2>2, FramesOK
  <2> QED BY <1>6, <1>14, <2>3 DEF Tells
<1> QED BY <1>1, <1>8, <1>9, <1>10, <1>11, <1>12, <1>13, <1>14 DEF EventTypes

(***************************************************************************)
(* The actor's handlers.                                                   *)
(***************************************************************************)
Needs(e, r) == e.type \in NeedsResponse /\ e.resp = r
Creates(e, r) == e.type = "EvResponseCreated" /\ e.resp = r

\* What one handler makes of the actor: items keep the ids their clients chose, the
\* events tell them, and need no response but the active one, or announce it first.
Acts(b) ==
  /\ ActorOK(b) /\ b.born >= actor.born
  /\ \A r \in 1..actor.born : b.cid[r] = actor.cid[r]
  /\ \A i \in 1..Len(b.todo) : Chosen(b.todo[i], b.cid)
  /\ \A i \in 1..Len(b.todo) : \A r : Needs(b.todo[i], r) => r = actor.active.ref /\ r # 0
  /\ \/ b.active.ref \in {0, actor.active.ref}
     \/ b.todo # <<>> /\ Creates(b.todo[1], b.active.ref)

\* A well-formed event is an event.
LEMMA EvTyped ==
  ASSUME NEW type \in EventTypes, NEW resp \in Nat, NEW item \in Nat, NEW prev \in Nat, NEW cid \in CIds,
         NEW call \in Nat
  PROVE  /\ Ev(type, resp, item, prev, cid, call) \in Evs
         /\ Ev(type, resp, item, prev, cid, call).type = type /\ Ev(type, resp, item, prev, cid, call).resp = resp
         /\ Ev(type, resp, item, prev, cid, call).item = item /\ Ev(type, resp, item, prev, cid, call).cid = cid
BY DEF Ev, Evs

\* The actor numbers its items.
LEMMA LastTyped == ActorOK(actor) => Last \in Nat
<1> SUFFICES ASSUME ActorOK(actor), actor.live # {} PROVE Max(actor.live) \in Nat
  BY DEF Last
<1>1. actor.born \in Nat /\ actor.live \in SUBSET (1..actor.born)
  BY DEF ActorOK
<1>2. Max(actor.live) \in actor.live
  BY <1>1, MaxIn
<1> QED BY <1>1, <1>2

\* No client id is an id.
LEMMA NoneChosen == None \in CIds /\ None \in Ids
BY DEF CIds, Ids

\* Events that need no response and tell no client's id.
LEMMA ActsEvents ==
  ASSUME ActorOK(actor), NEW t \in Seq(Evs),
         \A i \in 1..Len(t) : t[i].cid = None /\ t[i].type \notin NeedsResponse
  PROVE  Acts([actor EXCEPT !.todo = t])
<1> DEFINE b == [actor EXCEPT !.todo = t]
<1>1. /\ ActorOK(b) /\ b.todo = t /\ b.pc = actor.pc /\ b.born = actor.born /\ b.cid = actor.cid
      /\ b.active = actor.active /\ b.born \in Nat
  BY DEF ActorOK
<1> HIDE DEF b
<1>2. \A i \in 1..Len(t) : Chosen(t[i], b.cid) /\ \A r : ~Needs(t[i], r)
  BY DEF Chosen, Needs
<1>3. /\ \A i \in 1..Len(b.todo) : Chosen(b.todo[i], b.cid)
      /\ \A i \in 1..Len(b.todo) : \A r : Needs(b.todo[i], r) => r = actor.active.ref /\ r # 0
  BY <1>1, <1>2
<1>4. b.born >= actor.born
  BY <1>1
<1>5. Acts(b)
  BY <1>1, <1>3, <1>4 DEF Acts
<1> QED BY <1>5 DEF b

\* The new item's ref, under the id its client chose.
Born(cid, t) ==
  [actor EXCEPT !.born = actor.born + 1, !.live = @ \cup {actor.born + 1},
                !.cid = Put(@, actor.born + 1, cid), !.todo = t]

\* A handler that creates an item: the ref is the next number, the client id its own.
LEMMA BornActs ==
  ASSUME ActorOK(actor), NEW cid \in CIds, NEW t \in Seq(Evs),
         \A i \in 1..Len(t) : t[i].cid # None => t[i].item = actor.born + 1 /\ t[i].cid = cid,
         \A i \in 1..Len(t) : t[i].type \in NeedsResponse => actor.active.ref # 0 /\ t[i].resp = actor.active.ref
  PROVE  Acts(Born(cid, t)) /\ Born(cid, t).active = actor.active /\ Born(cid, t).todo = t
<1> DEFINE n == actor.born + 1
           K == Put(actor.cid, n, cid)
           L == actor.live \cup {n}
           b == [actor EXCEPT !.born = n, !.live = L, !.cid = K, !.todo = t]
<1>0. actor.born \in Nat
  BY DEF ActorOK
<1>1. actor.born \in Nat /\ n \in Nat /\ n \in 1..n /\ n >= actor.born /\ 1..actor.born = (1..n) \ {n}
  BY <1>0
<1>2. L \in SUBSET (1..n)
  BY DEF ActorOK
<1>3. K \in [1..n -> CIds] /\ K[n] = cid /\ \A r \in 1..actor.born : K[r] = actor.cid[r]
  <2>1. DOMAIN actor.cid = 1..actor.born /\ \A r \in 1..actor.born : actor.cid[r] \in CIds
    BY DEF ActorOK
  <2> HIDE DEF n
  <2> QED BY <1>1, <2>1 DEF Put
<1> HIDE DEF K, L
<1>4. Born(cid, t) = b
  BY DEF Born, K, L
<1> HIDE DEF n
<1>5. /\ b.pc = actor.pc /\ b.todo = t /\ b.cid = K /\ b.born = n /\ b.active = actor.active
      /\ ActorOK(b)
  BY <1>1, <1>2, <1>3 DEF ActorOK
<1> HIDE DEF b
<1>6. \A i \in 1..Len(t) : Chosen(t[i], K)
  BY <1>1, <1>3 DEF Chosen, n
<1>7. \A i \in 1..Len(t) : \A r : Needs(t[i], r) => r = actor.active.ref /\ r # 0
  BY DEF Needs
<1>8. Acts(b)
  <2>1. b.born >= actor.born /\ \A r \in 1..actor.born : b.cid[r] = actor.cid[r]
    BY <1>1, <1>3, <1>5
  <2>2. /\ \A i \in 1..Len(b.todo) : Chosen(b.todo[i], b.cid)
        /\ \A i \in 1..Len(b.todo) : \A r : Needs(b.todo[i], r) => r = actor.active.ref /\ r # 0
    BY <1>5, <1>6, <1>7
  <2> QED BY <1>5, <2>1, <2>2 DEF Acts
<1> QED BY <1>4, <1>5, <1>8

\* The terminal events of the active response.
LEMMA FinishedActs == ASSUME ActorOK(actor) PROVE Acts(Finished(actor))
<1> DEFINE a == actor.active
           call == IF a.toolItem \in actor.live THEN a.toolItem ELSE 0
           e1 == Ev("EvOutputItemDone", a.ref, a.item, 0, None, 0)
           e2 == Ev("EvResponseDone", a.ref, a.item, 0, None, call)
           t == FinishEvents
<1>1. a \in [ref : Nat, item : Nat, toolItem : Nat] /\ call \in Nat
  BY DEF ActorOK
<1>2. e1 \in Evs /\ e2 \in Evs /\ e1.cid = None /\ e2.cid = None /\ e1.resp = a.ref /\ e2.resp = a.ref
  BY <1>1, NoneChosen DEF EventTypes, Ev, Evs
<1>3. \/ t = <<>>
      \/ a.ref # 0 /\ t = <<>> \o <<e2>>
      \/ a.ref # 0 /\ t = <<e1>> \o <<e2>>
  BY DEF FinishEvents
<1> HIDE DEF e1, e2, t, call
<1>5. /\ t \in Seq(Evs) /\ \A i \in 1..Len(t) : t[i].cid = None
      /\ \A i \in 1..Len(t) : t[i].resp = a.ref /\ a.ref # 0
  <2>1. CASE t = <<>>
    BY <2>1
  <2>2. CASE a.ref # 0 /\ t = <<>> \o <<e2>>
    BY <1>2, <2>2
  <2>3. CASE a.ref # 0 /\ t = <<e1>> \o <<e2>>
    BY <1>2, <2>3
  <2> QED BY <1>3, <2>1, <2>2, <2>3
<1> DEFINE b == [actor EXCEPT !.active = NoActive, !.todo = t]
<1>6. Finished(actor) = b
  BY DEF Finished, t
<1>7. NoActive \in [ref : Nat, item : Nat, toolItem : Nat] /\ NoActive.ref = 0
  BY DEF NoActive
<1>8. /\ ActorOK(b) /\ b.todo = t /\ b.pc = actor.pc /\ b.born = actor.born /\ b.cid = actor.cid
      /\ b.active.ref = 0 /\ b.born \in Nat
  BY <1>5, <1>7 DEF ActorOK
<1> HIDE DEF b
<1>9. /\ \A i \in 1..Len(b.todo) : Chosen(b.todo[i], b.cid)
      /\ \A i \in 1..Len(b.todo) : \A r : Needs(b.todo[i], r) => r = actor.active.ref /\ r # 0
  BY <1>5, <1>8 DEF Chosen, Needs
<1>10. b.born >= actor.born
  BY <1>8
<1> HIDE DEF a
<1> QED BY <1>6, <1>8, <1>9, <1>10 DEF Acts

\* Two events of a new item.
LEMMA TwoEvents ==
  ASSUME ActorOK(actor), NEW t1 \in EventTypes \ NeedsResponse, NEW t2 \in EventTypes \ NeedsResponse,
         NEW cid \in CIds, NEW call \in Nat
  PROVE  LET n == actor.born + 1
             t == <<ItemEv(t1, n, cid, call), ItemEv(t2, n, cid, call)>>
         IN  Acts(Born(cid, t)) /\ Born(cid, t).active = actor.active /\ Born(cid, t).todo = t
<1> DEFINE n == actor.born + 1
           e1 == ItemEv(t1, n, cid, call)
           e2 == ItemEv(t2, n, cid, call)
           t == <<e1, e2>>
<1>1. n \in Nat /\ Last \in Nat /\ actor.active.ref \in Nat
  BY LastTyped DEF ActorOK
<1>2. /\ e1 \in Evs /\ e1.cid = cid /\ e1.item = n /\ e1.type = t1
      /\ e2 \in Evs /\ e2.cid = cid /\ e2.item = n /\ e2.type = t2
  BY <1>1 DEF ItemEv, Ev, Evs
<1> HIDE DEF e1, e2
<1>3. t \in Seq(Evs) /\ Len(t) = 2 /\ t[1] = e1 /\ t[2] = e2
  BY <1>2
<1> HIDE DEF t
<1>4. /\ \A i \in 1..Len(t) : t[i].cid # None => t[i].item = actor.born + 1 /\ t[i].cid = cid
      /\ \A i \in 1..Len(t) : t[i].type \notin NeedsResponse
  BY <1>2, <1>3
<1>5. Acts(Born(cid, t)) /\ Born(cid, t).active = actor.active /\ Born(cid, t).todo = t
  BY <1>3, <1>4, BornActs
<1> QED BY <1>5 DEF t, e1, e2

\* A change of the actor the connection does not see.
LEMMA ActsUnseen ==
  ASSUME NEW b, Acts(b), NEW x
  PROVE  Acts([b EXCEPT !.answered = x])
<1> DEFINE c == [b EXCEPT !.answered = x]
<1>1. /\ ActorOK(c) /\ c.pc = b.pc /\ c.born = b.born /\ c.cid = b.cid /\ c.todo = b.todo /\ c.active = b.active
  BY DEF Acts, ActorOK
<1> HIDE DEF c
<1>2. Acts(c)
  BY <1>1 DEF Acts
<1> QED BY <1>2 DEF c

\* An item of the response, under way or done: what it is known by in the actor.
LEMMA ActsOutput ==
  ASSUME NEW b, Acts(b), b.active = actor.active, NEW x \in Nat
  PROVE  Acts([b EXCEPT !.active.item = x]) /\ Acts([b EXCEPT !.active.toolItem = x])
<1>1. ASSUME NEW c, ActorOK(c), c.pc = b.pc, c.born = b.born, c.cid = b.cid, c.todo = b.todo,
             c.active.ref = actor.active.ref
      PROVE  Acts(c)
  BY <1>1 DEF Acts
<1>2. b \in [pc : {"run", "cleanup", "closed"}, todo : Seq(Evs), live : {b.live}, born : Nat,
             cid : {b.cid}, calls : {b.calls}, answered : {b.answered},
             active : [ref : Nat, item : Nat, toolItem : Nat], resps : Nat]
  BY DEF Acts, ActorOK
<1>3. Acts([b EXCEPT !.active.item = x])
  <2> DEFINE c == [b EXCEPT !.active.item = x]
  <2>1. ActorOK(c) /\ c.pc = b.pc /\ c.born = b.born /\ c.cid = b.cid /\ c.todo = b.todo /\ c.active.ref = b.active.ref
    BY <1>2 DEF Acts, ActorOK
  <2> HIDE DEF c
  <2>2. Acts(c)
    BY <1>1, <2>1
  <2> QED BY <2>2 DEF c
<1>4. Acts([b EXCEPT !.active.toolItem = x])
  <2> DEFINE c == [b EXCEPT !.active.toolItem = x]
  <2>1. ActorOK(c) /\ c.pc = b.pc /\ c.born = b.born /\ c.cid = b.cid /\ c.todo = b.todo /\ c.active.ref = b.active.ref
    BY <1>2 DEF Acts, ActorOK
  <2> HIDE DEF c
  <2>2. Acts(c)
    BY <1>1, <2>1
  <2> QED BY <2>2 DEF c
<1> QED BY <1>3, <1>4

\* An item is deleted from the conversation.
LEMMA ActsDelete ==
  ASSUME ActorOK(actor), NEW ref \in Nat, NEW t \in Seq(Evs),
         \A i \in 1..Len(t) : t[i].cid = None /\ t[i].type \notin NeedsResponse
  PROVE  Acts([actor EXCEPT !.live = @ \ {ref}, !.todo = t])
<1> DEFINE b == [actor EXCEPT !.todo = t]
           L == actor.live \ {ref}
           c == [actor EXCEPT !.live = L, !.todo = t]
<1>1. Acts(b) /\ b.pc = actor.pc /\ b.born = actor.born /\ b.cid = actor.cid /\ b.todo = t /\ b.active = actor.active
  BY ActsEvents DEF ActorOK
<1>2. L \subseteq 1..actor.born
  BY DEF ActorOK
<1> HIDE DEF L, b
<1>3. ActorOK(c) /\ c.pc = actor.pc /\ c.born = actor.born /\ c.cid = actor.cid /\ c.todo = t /\ c.active = actor.active
  BY <1>2 DEF ActorOK
<1> HIDE DEF c
<1>4. Acts(c)
  BY <1>1, <1>3 DEF Acts
<1> QED BY <1>4 DEF c, L

\* A response is created and announced.
LEMMA ActsResponds ==
  ASSUME ActorOK(actor)
  PROVE  Acts([actor EXCEPT !.resps = @ + 1, !.active = [NoActive EXCEPT !.ref = actor.resps + 1],
                            !.todo = <<Ev("EvResponseCreated", actor.resps + 1, 0, 0, None, 0)>>])
<1> DEFINE n == actor.resps + 1
           x == [NoActive EXCEPT !.ref = n]
           e == Ev("EvResponseCreated", n, 0, 0, None, 0)
           t == <<e>>
           b == [actor EXCEPT !.resps = n, !.active = x, !.todo = t]
<1>1. n \in Nat
  BY DEF ActorOK
<1> HIDE DEF n
<1>2. x \in [ref : Nat, item : Nat, toolItem : Nat] /\ x.ref = n
  BY <1>1 DEF NoActive
<1>3. e \in Evs /\ e.cid = None /\ e.type = "EvResponseCreated" /\ e.resp = n
  BY <1>1, NoneChosen DEF Ev, Evs, EventTypes
<1> HIDE DEF e, x
<1>4. t \in Seq(Evs) /\ t[1] = e /\ t # <<>> /\ \A i \in 1..Len(t) : t[i] = e
  BY <1>3
<1> HIDE DEF t
<1>5. /\ ActorOK(b) /\ b.pc = actor.pc /\ b.born = actor.born /\ b.cid = actor.cid /\ b.todo = t /\ b.active = x
      /\ b.born \in Nat
  BY <1>1, <1>2, <1>4 DEF ActorOK
<1> HIDE DEF b
<1>6. /\ \A i \in 1..Len(b.todo) : Chosen(b.todo[i], b.cid)
      /\ \A i \in 1..Len(b.todo) : \A r : Needs(b.todo[i], r) => r = actor.active.ref /\ r # 0
  <2>1. Chosen(e, b.cid) /\ \A r : ~Needs(e, r)
    BY <1>3 DEF Chosen, Needs, NeedsResponse
  <2>2. \A i \in 1..Len(b.todo) : b.todo[i] = e
    BY <1>4, <1>5
  <2> QED BY <2>1, <2>2
<1>7. b.todo # <<>> /\ Creates(b.todo[1], b.active.ref) /\ b.born >= actor.born
  BY <1>2, <1>3, <1>4, <1>5 DEF Creates
<1>8. Acts(b)
  BY <1>5, <1>6, <1>7 DEF Acts
<1> QED BY <1>8 DEF b, t, e, x, n

\* One event without a response.
LEMMA OneEvent ==
  ASSUME NEW type \in EventTypes \ NeedsResponse, NEW item \in Nat
  PROVE  LET t == <<Ev(type, 0, item, 0, None, 0)>> IN
         t \in Seq(Evs) /\ \A i \in 1..Len(t) : t[i].cid = None /\ t[i].type \notin NeedsResponse
<1> DEFINE e == Ev(type, 0, item, 0, None, 0)
<1>1. e \in Evs /\ e.cid = None /\ e.type = type
  BY NoneChosen DEF Ev, Evs
<1> HIDE DEF e
<1>2. <<e>> \in Seq(Evs) /\ \A i \in 1..Len(<<e>>) : <<e>>[i].cid = None /\ <<e>>[i].type \notin NeedsResponse
  BY <1>1
<1> QED BY <1>2 DEF e

\* Every command's handler.
LEMMA HandledActs == ASSUME ActorOK(actor), NEW c \in Cmds PROVE Acts(Handled(c))
<1> DEFINE h == Handled(c)
           n == actor.born + 1
<1>0. /\ c.ref \in Nat /\ c.cid \in CIds
      /\ {"EvSessionUpdated", "EvItemDeleted", "EvItemTruncated", "EvError", "EvItemAdded", "EvItemDone"}
           \subseteq EventTypes \ NeedsResponse
  BY DEF Cmds, EventTypes, NeedsResponse
<1>1. CASE \/ \E type \in {"EvSessionUpdated", "EvItemTruncated", "EvError"} : \E item \in Nat :
                h = [actor EXCEPT !.todo = <<Ev(type, 0, item, 0, None, 0)>>]
  <2>1. PICK type \in {"EvSessionUpdated", "EvItemTruncated", "EvError"}, item \in Nat :
          h = [actor EXCEPT !.todo = <<Ev(type, 0, item, 0, None, 0)>>]
    BY <1>1
  <2> DEFINE t == <<Ev(type, 0, item, 0, None, 0)>>
  <2>2. t \in Seq(Evs) /\ \A i \in 1..Len(t) : t[i].cid = None /\ t[i].type \notin NeedsResponse
    BY <1>0, OneEvent
  <2> HIDE DEF t
  <2>3. h = [actor EXCEPT !.todo = t]
    BY <2>1 DEF t
  <2> QED BY <2>2, <2>3, ActsEvents
<1>2. CASE c.kind = "update"
  <2>1. h = [actor EXCEPT !.todo = <<Ev("EvSessionUpdated", 0, 0, 0, None, 0)>>]
    BY <1>2 DEF Handled, Plain
  <2> QED BY <1>1, <2>1
<1>3. CASE c.kind = "create"
  <2> DEFINE t == <<ItemEv("EvItemAdded", n, c.cid, 0), ItemEv("EvItemDone", n, c.cid, 0)>>
  <2>1. h = Born(c.cid, t)
    BY <1>3 DEF Handled, Adds, Born
  <2>2. Acts(Born(c.cid, t))
    BY <1>0, TwoEvents
  <2> QED BY <2>1, <2>2
<1>4. CASE c.kind = "output" /\ c.ref \in actor.live /\ c.ref \notin actor.answered
  <2> DEFINE t == <<ItemEv("EvItemAdded", n, None, c.ref), ItemEv("EvItemDone", n, None, c.ref)>>
  <2>1. h = [Born(None, t) EXCEPT !.answered = @ \cup {c.ref}]
    BY <1>4 DEF Handled, Adds, Born
  <2>2. Acts(Born(None, t))
    BY <1>0, NoneChosen, TwoEvents
  <2> HIDE DEF t
  <2> QED BY <2>1, <2>2, ActsUnseen
<1>5. CASE c.kind = "delete" /\ c.ref \in actor.live /\ c.ref # actor.active.item
  <2> DEFINE t == <<Ev("EvItemDeleted", 0, c.ref, 0, None, 0)>>
  <2>1. h = [actor EXCEPT !.live = @ \ {c.ref}, !.todo = t]
    BY <1>5 DEF Handled
  <2>2. t \in Seq(Evs) /\ \A i \in 1..Len(t) : t[i].cid = None /\ t[i].type \notin NeedsResponse
    BY <1>0, OneEvent
  <2> HIDE DEF t
  <2> QED BY <1>0, <2>1, <2>2, ActsDelete
<1>6. CASE c.kind = "truncate" /\ c.ref \in actor.live
  <2>1. h = [actor EXCEPT !.todo = <<Ev("EvItemTruncated", 0, c.ref, 0, None, 0)>>]
    BY <1>6 DEF Handled
  <2> QED BY <1>0, <1>1, <2>1
<1>7. CASE c.kind = "respond" /\ actor.active.ref = 0 /\ actor.resps < MaxResps
  BY <1>7, ActsResponds DEF Handled
<1>8. CASE c.kind = "cancel" /\ actor.active.ref # 0 /\ c.ref \in {0, actor.active.ref}
  BY <1>8, FinishedActs DEF Handled
<1>9. CASE /\ c.kind # "update" /\ c.kind # "create"
           /\ ~(c.kind = "output" /\ c.ref \in actor.live /\ c.ref \notin actor.answered)
           /\ ~(c.kind = "delete" /\ c.ref \in actor.live /\ c.ref # actor.active.item)
           /\ ~(c.kind = "truncate" /\ c.ref \in actor.live)
           /\ ~(c.kind = "respond" /\ actor.active.ref = 0 /\ actor.resps < MaxResps)
           /\ ~(c.kind = "cancel" /\ actor.active.ref # 0 /\ c.ref \in {0, actor.active.ref})
  <2>1. h = [actor EXCEPT !.todo = <<Ev("EvError", 0, 0, 0, None, 0)>>]
    BY <1>9 DEF Handled, Plain
  <2> QED BY <1>1, <2>1
<1> QED BY <1>2, <1>3, <1>4, <1>5, <1>6, <1>7, <1>8, <1>9

\* The actor's own steps.
LEMMA OtherActs == ASSUME ActorOK(actor), HandleOther \/ Fatal PROVE Acts(actor')
<1> DEFINE n == actor.born + 1
           r == actor.active.ref
<1>0. /\ {"EvAudioBufferCommitted", "EvItemAdded", "EvFatal"} \subseteq EventTypes \ NeedsResponse
      /\ n \in Nat /\ Last \in Nat /\ r \in Nat /\ 0 \in Nat /\ actor.active.item \in Nat
  BY LastTyped DEF EventTypes, NeedsResponse, ActorOK
<1>1. CASE actor' = Finished(actor)
  BY <1>1, FinishedActs
<1>2. CASE Fatal
  <2> DEFINE t == <<Ev("EvFatal", 0, 0, 0, None, 0)>>
  <2>1. t \in Seq(Evs) /\ \A i \in 1..Len(t) : t[i].cid = None /\ t[i].type \notin NeedsResponse
    BY <1>0, OneEvent
  <2>2. actor' = [actor EXCEPT !.todo = t]
    BY <1>2 DEF Fatal, ActorStep, Plain
  <2> HIDE DEF t
  <2> QED BY <2>1, <2>2, ActsEvents
<1> DEFINE turn == <<ItemEv("EvAudioBufferCommitted", n, None, 0), ItemEv("EvItemAdded", n, None, 0)>>
           message == <<ItemEv("EvOutputItemAdded", n, None, 0)>>
           call == <<ItemEv("EvOutputItemAdded", n, None, n), Ev("EvToolCallArguments", r, n, 0, None, 0),
                     ItemEv("EvOutputItemDone", n, None, n)>>
<1>3. CASE actor' = Born(None, turn)
  <2>1. Acts(Born(None, turn))
    BY <1>0, NoneChosen, TwoEvents
  <2> QED BY <1>3, <2>1
<1>4. ASSUME NEW t \in Seq(Evs), \A i \in 1..Len(t) : t[i].cid = None /\ t[i].resp = r, r # 0,
             \/ actor' = [Born(None, t) EXCEPT !.active.item = n]
             \/ actor' = [Born(None, t) EXCEPT !.active.toolItem = n]
      PROVE  Acts(actor')
  <2>1. Acts(Born(None, t)) /\ Born(None, t).active = actor.active
    BY <1>4, NoneChosen, BornActs
  <2> DEFINE b == Born(None, t)
  <2> HIDE DEF b
  <2>2. Acts(b) /\ b.active = actor.active
    BY <2>1 DEF b
  <2>3. Acts([b EXCEPT !.active.item = n]) /\ Acts([b EXCEPT !.active.toolItem = n])
    BY <1>0, <2>2, ActsOutput
  <2>4. actor' = [b EXCEPT !.active.item = n] \/ actor' = [b EXCEPT !.active.toolItem = n]
    BY <1>4 DEF b
  <2> QED BY <2>3, <2>4
<1>5. CASE r # 0 /\ actor' = [Born(None, message) EXCEPT !.active.item = n]
  <2> DEFINE e == ItemEv("EvOutputItemAdded", n, None, 0)
  <2>1. e \in Evs /\ e.cid = None /\ e.resp = r
    BY <1>0, NoneChosen DEF ItemEv, Ev, Evs, EventTypes
  <2> HIDE DEF e
  <2>2. <<e>> \in Seq(Evs) /\ \A i \in 1..Len(<<e>>) : <<e>>[i].cid = None /\ <<e>>[i].resp = r
    BY <2>1
  <2>3. message \in Seq(Evs) /\ \A i \in 1..Len(message) : message[i].cid = None /\ message[i].resp = r
    BY <2>2 DEF e
  <2> HIDE DEF message
  <2> QED BY <1>4, <1>5, <2>3
<1>6. CASE r # 0 /\ actor' = [Born(None, call) EXCEPT !.active.toolItem = n]
  <2> DEFINE e1 == ItemEv("EvOutputItemAdded", n, None, n)
             e2 == Ev("EvToolCallArguments", r, n, 0, None, 0)
             e3 == ItemEv("EvOutputItemDone", n, None, n)
  <2>1. /\ e1 \in Evs /\ e1.cid = None /\ e1.resp = r /\ e2 \in Evs /\ e2.cid = None /\ e2.resp = r
        /\ e3 \in Evs /\ e3.cid = None /\ e3.resp = r
    BY <1>0, NoneChosen DEF ItemEv, Ev, Evs, EventTypes
  <2> HIDE DEF e1, e2, e3
  <2> DEFINE t == <<e1, e2, e3>>
  <2>2. t \in Seq(Evs) /\ \A i \in 1..Len(t) : t[i].cid = None /\ t[i].resp = r
    BY <2>1
  <2>3. call = t
    BY DEF e1, e2, e3
  <2> HIDE DEF t, call
  <2> QED BY <1>4, <1>6, <2>2, <2>3
<1>7. HandleOther => \/ actor' = Finished(actor) \/ actor' = Born(None, turn)
                     \/ (r # 0 /\ actor' = [Born(None, message) EXCEPT !.active.item = n])
                     \/ (r # 0 /\ actor' = [Born(None, call) EXCEPT !.active.toolItem = n])
  BY DEF HandleOther, ActorStep, Adds, Born
<1> QED BY <1>1, <1>2, <1>3, <1>5, <1>6, <1>7

(***************************************************************************)
(* The invariant of the ids.                                               *)
(***************************************************************************)
\* Every event on its way tells its item's chosen id.
Tellable ==
  /\ \A i \in 1..Len(events) : Chosen(events[i], actor.cid)
  /\ \A i \in 1..Len(actor.todo) : Chosen(actor.todo[i], actor.cid)

IdInv == ConnOK /\ Tellable /\ TabOK(ad, actor.cid) /\ (Unique(actor.cid) => Inverses(ad))

\* A client event becomes a command.
LEMMA DispatchTyped ==
  ASSUME NEW a, AdapterOK(a), NEW kind \in EventKinds, NEW id,
         kind = "item.create" => id \in CIds
  PROVE  Dispatch(a, [type |-> kind, id |-> id]) \in Cmds
<1> DEFINE ev == [type |-> kind, id |-> id]
<1>0. ev.type = kind /\ ev.id = id /\ Rejected \in Cmds
  BY NoneChosen DEF Rejected, Cmd, Cmds
<1>1. \A table, k : Mapped(table, Nat) /\ k \in {"output", "delete", "truncate", "cancel"} => Lookup(table, id, k) \in Cmds
  BY <1>0, NoneChosen DEF Lookup, Mapped, Cmd, Cmds
<1>2. Mapped(a.itemByID, Nat) /\ Mapped(a.callByID, Nat) /\ Mapped(a.respByID, Nat)
  BY DEF AdapterOK
<1> HIDE DEF ev
<1>3. CASE kind = "invalid"
  BY <1>0, <1>3 DEF Dispatch, ev
<1>4. CASE kind = "session.update" \/ kind = "response.create"
  BY <1>0, <1>4, NoneChosen DEF Dispatch, Cmd, Cmds, ev
<1>5. CASE kind = "item.create"
  <2>1. Dispatch(a, ev) = CreateItem(a, id)
    BY <1>0, <1>5 DEF Dispatch
  <2>2. CreateItem(a, id) \in Cmds
    BY <1>0, <1>5 DEF CreateItem, Cmd, Cmds
  <2> QED BY <2>1, <2>2 DEF ev
<1>6. CASE kind = "item.create.output"
  BY <1>0, <1>1, <1>2, <1>6 DEF Dispatch, ev
<1>7. CASE kind = "item.delete"
  BY <1>0, <1>1, <1>2, <1>7 DEF Dispatch, ev
<1>8. CASE kind = "item.truncate"
  BY <1>0, <1>1, <1>2, <1>8 DEF Dispatch, ev
<1>9. CASE kind = "response.cancel"
  <2>1. Cmd("cancel", 0, None) \in Cmds
    BY NoneChosen DEF Cmd, Cmds
  <2> QED BY <1>0, <1>1, <1>2, <1>9, <2>1 DEF Dispatch, ev
<1> QED BY <1>3, <1>4, <1>5, <1>6, <1>7, <1>8, <1>9 DEF EventKinds

\* The handlers, the cleanup and the emit leave the tables alone.
LEMMA HandlersAct ==
  ASSUME IdInv, HandleCommand \/ HandleOther \/ Fatal \/ Cleanup
  PROVE  Acts(actor') /\ actor.todo = <<>> /\ UNCHANGED <<ad, events, cause, out, reader, pump, writer, wire, crashed>>
<1>0. ActorOK(actor)
  BY DEF IdInv, ConnOK
<1>1. CASE HandleCommand
  <2>1. Head(cmds) \in Cmds
    BY <1>1, QueueHead DEF HandleCommand, IdInv, ConnOK, QueuesOK
  <2> QED BY <1>0, <1>1, <2>1, HandledActs DEF HandleCommand, ActorStep, Idle
<1>2. CASE HandleOther \/ Fatal
  <2>1. actor.todo = <<>> /\ UNCHANGED <<ad, events, cause, out, reader, pump, writer, wire, crashed>>
    BY <1>2 DEF HandleOther, Fatal, ActorStep, Idle
  <2>2. Acts(actor')
    BY <1>0, <1>2, OtherActs
  <2> QED BY <2>1, <2>2
<1>3. CASE Cleanup
  <2> DEFINE b == Finished(actor)
             c == [b EXCEPT !.pc = "cleanup"]
  <2>1. Acts(b)
    BY <1>0, FinishedActs
  <2>2. actor' = c
    BY <1>3 DEF Cleanup
  <2> HIDE DEF b
  <2>3. ActorOK(c) /\ c.born = b.born /\ c.cid = b.cid /\ c.todo = b.todo /\ c.active = b.active
    BY <2>1 DEF Acts, ActorOK
  <2> HIDE DEF c
  <2>4. Acts(c)
    BY <2>1, <2>3 DEF Acts
  <2> QED BY <1>3, <2>2, <2>4 DEF Cleanup
<1> QED BY <1>1, <1>2, <1>3

\* Items that are added keep what the tables say.
LEMMA ActsKeepTables ==
  ASSUME IdInv, Acts(actor'), UNCHANGED <<ad, events>>
  PROVE  ActorOK(actor') /\ (Tellable /\ TabOK(ad, actor.cid) /\ (Unique(actor.cid) => Inverses(ad)))'
<1>1. /\ ActorOK(actor') /\ actor.born \in Nat /\ actor'.born \in Nat /\ actor'.born >= actor.born
      /\ DOMAIN actor.cid = 1..actor.born /\ DOMAIN actor'.cid = 1..actor'.born
      /\ \A r \in 1..actor.born : actor'.cid[r] = actor.cid[r]
  BY DEF Acts, IdInv, ConnOK, ActorOK
<1>2. \A r \in DOMAIN actor.cid : r \in DOMAIN actor'.cid /\ actor'.cid[r] = actor.cid[r]
  BY <1>1
<1>3. \A e : Chosen(e, actor.cid) => Chosen(e, actor'.cid)
  BY <1>2 DEF Chosen
<1>4. Tellable'
  BY <1>3 DEF IdInv, Tellable, Acts
<1>5. TabOK(ad, actor'.cid)
  BY <1>2 DEF IdInv, TabOK, NamedBy
<1>6. Unique(actor'.cid) => Unique(actor.cid)
  BY <1>2 DEF Unique
<1> QED BY <1>1, <1>4, <1>5, <1>6 DEF IdInv, TabOK, AdapterOK, Fresh, NamedBy, Inverses

\* A step that leaves tables, actor and event channel alone keeps what is said about them.
LEMMA IdKept ==
  ASSUME IdInv, UNCHANGED <<ad, actor, events>>
  PROVE  ActorOK(actor') /\ (Tellable /\ TabOK(ad, actor.cid) /\ (Unique(actor.cid) => Inverses(ad)))'
BY DEF IdInv, ConnOK, ActorOK, Tellable, TabOK, AdapterOK, Fresh, NamedBy, Inverses, Unique, Chosen

\* Handing an event to the channel, or closing it, keeps it: no event is new.
LEMMA IdEmit ==
  ASSUME IdInv, Emit \/ CloseEvents
  PROVE  ActorOK(actor') /\ (Tellable /\ TabOK(ad, actor.cid) /\ (Unique(actor.cid) => Inverses(ad)))'
<1>0. ActorOK(actor) /\ events \in Seq(Evs) /\ actor.todo \in Seq(Evs)
  BY DEF IdInv, ConnOK, QueuesOK, ActorOK
<1>1. /\ actor'.cid = actor.cid /\ ActorOK(actor') /\ ad' = ad
      /\ actor'.todo = actor.todo \/ (actor.todo # <<>> /\ actor'.todo = Tail(actor.todo))
  <2>1. CASE Emit
    <3>1. Tail(actor.todo) \in Seq(Evs)
      BY <1>0, <2>1, QueueHead DEF Emit
    <3> QED BY <1>0, <2>1, <3>1 DEF Emit, ActorOK
  <2>2. CASE CloseEvents
    BY <1>0, <2>2 DEF CloseEvents, ActorOK
  <2> QED BY <2>1, <2>2
<1>2. \A i \in 1..Len(actor'.todo) : Chosen(actor'.todo[i], actor.cid)
  <2>1. CASE actor'.todo = actor.todo
    BY <2>1 DEF IdInv, Tellable
  <2>2. CASE actor.todo # <<>> /\ actor'.todo = Tail(actor.todo)
    <3>1. \A i \in 1..Len(actor'.todo) : i + 1 \in 1..Len(actor.todo) /\ actor'.todo[i] = actor.todo[i + 1]
      BY <1>0, <2>2, QueueHead
    <3> QED BY <3>1 DEF IdInv, Tellable
  <2> QED BY <1>1, <2>1, <2>2
<1>3. \/ events' = events
      \/ \E e \in Evs : events' = Append(events, e) /\ Chosen(e, actor.cid)
  <2>1. CASE Emit
    <3>1. Head(actor.todo) \in Evs /\ Head(actor.todo) = actor.todo[1] /\ Len(actor.todo) \in Nat \ {0}
      BY <1>0, <2>1, QueueHead DEF Emit
    <3>2. Chosen(Head(actor.todo), actor.cid)
      BY <3>1 DEF IdInv, Tellable
    <3> QED BY <2>1, <3>1, <3>2 DEF Emit, EmitEvent
  <2>2. CASE CloseEvents
    <3>1. Plain("EvSessionClosed") \in Evs /\ Plain("EvSessionClosed").cid = None
      BY NoneChosen DEF Plain, Ev, Evs, EventTypes
    <3> QED BY <2>2, <3>1 DEF CloseEvents, Chosen
  <2> QED BY <2>1, <2>2
<1>4. \A i \in 1..Len(events') : Chosen(events'[i], actor.cid)
  <2>1. CASE events' = events
    BY <2>1 DEF IdInv, Tellable
  <2>2. CASE events' # events
    <3>1. PICK e \in Evs : events' = Append(events, e) /\ Chosen(e, actor.cid)
      BY <1>3, <2>2
    <3> QED BY <1>0, <3>1, QueueAppend DEF IdInv, Tellable
  <2> QED BY <2>1, <2>2
<1> QED BY <1>1, <1>2, <1>4 DEF IdInv, Tellable, TabOK, AdapterOK, Fresh, NamedBy, Inverses, Unique

\* The pump translates the next event: Outbound fills the tables with what the event names.
LEMMA IdPump ==
  ASSUME IdInv, PumpEvent
  PROVE  /\ ActorOK(actor') /\ (Tellable /\ TabOK(ad, actor.cid) /\ (Unique(actor.cid) => Inverses(ad)))'
         /\ pump' \in [pc : {"hello", "take", "done"}, left : Seq(SUBSET Ids), code : Codes, built : Nat]
         /\ Len(pump'.left) <= pump'.built
<1> DEFINE e == Head(events)
           f == Outbound(ad, e)
<1>0. /\ e \in Evs /\ e = events[1] /\ Len(events) \in Nat \ {0} /\ events' = Tail(events)
      /\ Len(events') = Len(events) - 1 /\ \A i \in 1..Len(events') : events'[i] = events[i + 1]
      /\ UNCHANGED actor /\ ActorOK(actor)
  <2>1. events \in Seq(Evs) /\ events # <<>> /\ events' = Tail(events) /\ UNCHANGED actor /\ ActorOK(actor)
    BY DEF PumpEvent, IdInv, ConnOK, QueuesOK
  <2> QED BY <2>1, QueueHead
<1>1. Chosen(e, actor.cid)
  BY <1>0 DEF IdInv, Tellable
<1>2. Tellable'
  BY <1>0 DEF IdInv, Tellable
<1> HIDE DEF e
<1>3. CASE Panics(ad, e)
  <2>1. UNCHANGED <<pump, ad>>
    BY <1>3 DEF PumpEvent, e
  <2> QED BY <1>0, <1>2, <2>1 DEF IdInv, ConnOK, QueuesOK, TabOK, AdapterOK, Fresh, NamedBy, Inverses, Unique
<1>4. CASE ~Panics(ad, e)
  <2>1. /\ TabOK(f.ad, actor.cid) /\ (Inverses(ad) /\ Unique(actor.cid) => Inverses(f.ad))
        /\ f.frames \in Seq(SUBSET Ids)
    BY <1>0, <1>1, <1>4, OutboundOK DEF IdInv
  <2>2. /\ ad' = f.ad
        /\ pump' = [pump EXCEPT !.left = f.frames, !.built = @ + Len(f.frames), !.code = CloseCode(e, @)]
    BY <1>4 DEF PumpEvent, e
  <2> HIDE DEF f
  <2>3. pump.code \in Codes => CloseCode(e, pump.code) \in Codes
    BY DEF CloseCode, Codes
  <2>4. pump' \in [pc : {"hello", "take", "done"}, left : Seq(SUBSET Ids), code : Codes, built : Nat] /\ Len(pump'.left) <= pump'.built
    <3> DEFINE l == f.frames
               n == pump.built + Len(l)
               c == CloseCode(e, pump.code)
    <3>1. pump \in [pc : {"hello", "take", "done"}, left : Seq(SUBSET Ids), code : Codes, built : Nat]
      BY DEF IdInv, ConnOK, QueuesOK
    <3>2. l \in Seq(SUBSET Ids) /\ n \in Nat /\ c \in Codes /\ Len(l) <= n
      BY <2>1, <2>3, <3>1
    <3>3. pump' = [pump EXCEPT !.left = l, !.built = n, !.code = c]
      BY <2>2
    <3> HIDE DEF l, n, c
    <3> QED BY <3>1, <3>2, <3>3
  <2>5. TabOK(ad, actor.cid)'
    BY <1>0, <2>1, <2>2 DEF TabOK, AdapterOK, Fresh, NamedBy
  <2>6. (Unique(actor.cid) => Inverses(ad))'
    BY <1>0, <2>1, <2>2 DEF Unique, Inverses, IdInv
  <2> QED BY <1>0, <1>2, <2>4, <2>5, <2>6 DEF ActorOK
<1> QED BY <1>3, <1>4

\* send puts a message into the queue, or drops it once the writer is gone.
LEMMA SendOK ==
  ASSUME QueuesOK, NEW m \in Msgs, Send(m)
  PROVE  out' \in Seq(Msgs)
<1>1. out \in Seq(Msgs)
  BY DEF QueuesOK
<1>2. out' = out \/ out' = Append(out, m)
  BY DEF Send
<1> QED BY <1>1, <1>2

\* Messages for the writer are messages.
LEMMA MsgsTyped ==
  /\ \A k \in Nat : \A ids \in SUBSET Ids : DataMsg(k, ids) \in Msgs
  /\ \A c \in Codes : CloseMsg(c) \in Msgs
BY DEF DataMsg, CloseMsg, Msgs

\* The goroutines of the reader keep the types of the queues.
LEMMA ReaderQueues ==
  ASSUME IdInv, Read \/ Post \/ PostAudioOverflow \/ ReaderSend \/ ReaderSendClosed \/ ReadError \/ Return
  PROVE  QueuesOK'
<1>0. QueuesOK /\ Rejected \in Cmds
  BY NoneChosen DEF IdInv, ConnOK, Rejected, Cmd, Cmds
<1>1. CASE Read
  <2>1. PICK kind \in scene.events : \E id \in IdsFor(kind) :
          reader' = [pc |-> IF Dispatch(ad, [type |-> kind, id |-> id]) = Rejected THEN "send" ELSE "post",
                     cmd |-> Dispatch(ad, [type |-> kind, id |-> id])]
    BY <1>1 DEF Read
  <2>2. PICK id \in IdsFor(kind) :
          reader' = [pc |-> IF Dispatch(ad, [type |-> kind, id |-> id]) = Rejected THEN "send" ELSE "post",
                     cmd |-> Dispatch(ad, [type |-> kind, id |-> id])]
    BY <2>1
  <2>3. kind = "item.create" => id \in CIds
    BY DEF IdsFor, CIds, ClientIds
  <2> DEFINE c == Dispatch(ad, [type |-> kind, id |-> id])
  <2>4. kind \in EventKinds
    BY <1>0, ConnectionAssumption DEF QueuesOK
  <2>5. c \in Cmds
    BY <2>3, <2>4, DispatchTyped DEF IdInv, TabOK
  <2>6. reader' = [pc |-> IF c = Rejected THEN "send" ELSE "post", cmd |-> c]
    BY <2>2
  <2> HIDE DEF c
  <2> QED BY <1>0, <1>1, <2>5, <2>6 DEF Read, QueuesOK
<1>2. CASE Post
  <2>1. cmds' = cmds \/ cmds' = Append(cmds, reader.cmd)
    BY <1>2 DEF Post
  <2>2. cmds \in Seq(Cmds) /\ reader.cmd \in Cmds
    BY <1>0 DEF QueuesOK
  <2>3. cmds' \in Seq(Cmds)
    BY <2>1, <2>2
  <2> QED BY <1>0, <1>2, <2>3 DEF Post, QueuesOK
<1>3. CASE ReaderSend
  <2>1. out' \in Seq(Msgs)
    BY <1>0, <1>3, SendOK, MsgsTyped DEF ReaderSend
  <2> QED BY <1>0, <1>3, <2>1 DEF ReaderSend, QueuesOK
<1>4. CASE PostAudioOverflow \/ ReaderSendClosed \/ ReadError \/ Return
  BY <1>0, <1>4 DEF PostAudioOverflow, ReaderSendClosed, ReadError, Return, QueuesOK
<1> QED BY <1>1, <1>2, <1>3, <1>4

\* The pump keeps the types of the queues.
LEMMA PumpQueues == ASSUME IdInv, Hello \/ PumpSend \/ PumpClose PROVE QueuesOK'
<1>0. /\ QueuesOK
      /\ pump \in [pc : {"hello", "take", "done"}, left : Seq(SUBSET Ids), code : Codes, built : Nat]
  BY DEF IdInv, ConnOK, QueuesOK
<1>1. CASE Hello
  <2> DEFINE l == Frames(ad, 2, {}).frames
  <2>1. l \in Seq(SUBSET Ids) /\ Len(l) = 2
    <3>1. 2 \in Nat /\ {} \in SUBSET Ids
      OBVIOUS
    <3> QED BY <3>1, FramesOK
  <2>2. pump' = [pump EXCEPT !.pc = "take", !.left = l, !.built = 2]
    BY <1>1 DEF Hello
  <2> HIDE DEF l
  <2>3. pump' \in [pc : {"hello", "take", "done"}, left : Seq(SUBSET Ids), code : Codes, built : Nat] /\ pump'.left = l /\ pump'.built = 2
    BY <1>0, <2>1, <2>2
  <2>4. Len(pump'.left) <= pump'.built
    <3>1. Len(pump'.left) = 2
      BY <2>1, <2>3
    <3> QED BY <2>3, <3>1
  <2> QED BY <1>0, <1>1, <2>3, <2>4 DEF Hello, QueuesOK
<1>2. CASE PumpSend
  <2> DEFINE k == pump.built - Len(pump.left) + 1
             t == Tail(pump.left)
  <2>1. /\ Head(pump.left) \in SUBSET Ids /\ t \in Seq(SUBSET Ids) /\ Len(t) = Len(pump.left) - 1
        /\ Len(pump.left) \in Nat \ {0} /\ Len(pump.left) <= pump.built /\ pump.built \in Nat
    BY <1>0, <1>2, QueueHead DEF PumpSend, QueuesOK
  <2>2. k \in Nat /\ Len(t) <= pump.built
    BY <2>1
  <2>3. Send(DataMsg(k, Head(pump.left))) /\ pump' = [pump EXCEPT !.left = t]
    BY <1>2 DEF PumpSend
  <2> HIDE DEF k, t
  <2>4. out' \in Seq(Msgs)
    BY <1>0, <2>1, <2>2, <2>3, SendOK, MsgsTyped
  <2>5. pump' \in [pc : {"hello", "take", "done"}, left : Seq(SUBSET Ids), code : Codes, built : Nat] /\ Len(pump'.left) <= pump'.built
    BY <1>0, <2>1, <2>2, <2>3
  <2> QED BY <1>0, <1>2, <2>4, <2>5 DEF PumpSend, QueuesOK
<1>3. CASE PumpClose
  <2>1. out' \in Seq(Msgs)
    BY <1>0, <1>3, SendOK, MsgsTyped DEF PumpClose
  <2>2. pump' \in [pc : {"hello", "take", "done"}, left : Seq(SUBSET Ids), code : Codes, built : Nat]
    BY <1>0, <1>3 DEF PumpClose
  <2> QED BY <1>0, <1>3, <2>1, <2>2 DEF PumpClose, QueuesOK
<1> QED BY <1>1, <1>2, <1>3

\* So does the writer.
LEMMA WriterQueues == ASSUME IdInv, WriterTake \/ Write \/ WriteError \/ CloseSocket PROVE QueuesOK'
<1>0. QueuesOK
  BY DEF IdInv, ConnOK
<1>1. CASE WriterTake
  <2>1. Head(out) \in Msgs /\ Tail(out) \in Seq(Msgs)
    BY <1>0, <1>1, QueueHead DEF WriterTake, QueuesOK
  <2> QED BY <1>0, <1>1, <2>1 DEF WriterTake, QueuesOK
<1>2. CASE Write
  <2> DEFINE g == IF writer.msg.k = 0 THEN wire.got ELSE Append(wire.got, writer.msg.k)
             i == wire.ids \cup writer.msg.ids
  <2>1. writer.msg \in Msgs /\ wire \in [got : Seq(Nat), ids : SUBSET Ids, close : {""} \cup Codes]
    BY <1>0 DEF QueuesOK
  <2>2. g \in Seq(Nat) /\ i \in SUBSET Ids
    <3>1. wire.got \in Seq(Nat) /\ writer.msg.k \in Nat /\ wire.ids \in SUBSET Ids /\ writer.msg.ids \in SUBSET Ids
      BY <2>1 DEF Msgs
    <3>2. Append(wire.got, writer.msg.k) \in Seq(Nat)
      BY <3>1
    <3> QED BY <3>1, <3>2
  <2>3. wire' = [wire EXCEPT !.got = g, !.ids = i]
    BY <1>2 DEF Write
  <2> HIDE DEF g, i
  <2>4. wire' \in [got : Seq(Nat), ids : SUBSET Ids, close : {""} \cup Codes]
    BY <2>1, <2>2, <2>3
  <2> QED BY <1>0, <1>2, <2>4 DEF Write, QueuesOK
<1>3. CASE WriteError
  BY <1>0, <1>3 DEF WriteError, QueuesOK
<1>4. CASE CloseSocket
  <2>1. writer.msg.close \in {""} \cup Codes
    BY <1>0 DEF QueuesOK, Msgs
  <2> QED BY <1>0, <1>4, <2>1 DEF CloseSocket, QueuesOK
<1> QED BY <1>1, <1>2, <1>3, <1>4

\* The empty queue.
LEMMA EmptyQueue == ASSUME NEW S PROVE <<>> \in Seq(S) /\ Len(<<>>) = 0 /\ DOMAIN <<>> = {} /\ 1..Len(<<>>) = {}
<1>1. <<>> \in Seq(S) /\ Len(<<>>) = 0 /\ DOMAIN <<>> = {}
  OBVIOUS
<1>2. 1..0 = {}
  OBVIOUS
<1> QED BY <1>1, <1>2

\* A new connection has empty tables.
LEMMA IdInitially == Init => IdInv
<1> SUFFICES ASSUME Init PROVE IdInv
  OBVIOUS
<1> DEFINE none == <<>>
<1>1. Rejected \in Cmds /\ CloseMsg("normal") \in Msgs
  BY NoneChosen, MsgsTyped DEF Rejected, Cmd, Cmds, Codes
<1>a. /\ Len(none) = 0 /\ 1..Len(none) = {} /\ DOMAIN none = {}
      /\ none \in Seq(Cmds) /\ none \in Seq(Evs) /\ none \in Seq(Msgs)
      /\ none \in Seq(SUBSET Ids) /\ none \in Seq(Nat)
  BY EmptyQueue
<1>b. none \in [1..0 -> CIds]
  OBVIOUS
<1>c. /\ cmds = none /\ events = none /\ out = none /\ scene \in Scenarios
      /\ reader = [pc |-> "read", cmd |-> Rejected]
      /\ pump = [pc |-> "hello", left |-> none, code |-> "normal", built |-> 0]
      /\ writer = [pc |-> "recv", msg |-> CloseMsg("normal")]
      /\ wire = [got |-> none, ids |-> {}, close |-> ""]
  BY DEF Init
<1>d. actor = [pc |-> "run", todo |-> none, live |-> {}, born |-> 0, cid |-> none, calls |-> {},
               answered |-> {}, active |-> NoActive, resps |-> 0]
  BY DEF Init
<1>e. ad = [ids |-> 0, items |-> none, itemByID |-> none, callByID |-> none, callWire |-> none,
            resps |-> none, respByID |-> none]
  BY DEF Init, NewAdapter
<1> HIDE DEF none
<1>2. QueuesOK
  <2> DEFINE m == CloseMsg("normal")
  <2>1. m \in Msgs /\ writer = [pc |-> "recv", msg |-> m]
    BY <1>1, <1>c
  <2> DEFINE c == Codes
  <2>a. "normal" \in c /\ 0 \in Nat
    BY DEF Codes
  <2> HIDE DEF m
  <2>2. reader \in [pc : {"read", "post", "send", "wait", "returned", "panicked"}, cmd : Cmds]
    BY <1>1, <1>c
  <2>3. /\ pump \in [pc : {"hello", "take", "done"}, left : Seq(SUBSET Ids), code : Codes, built : Nat]
        /\ Len(pump.left) <= pump.built
    <3>1. none \in Seq(SUBSET Ids) /\ Len(none) = 0 /\ pump = [pc |-> "hello", left |-> none, code |-> "normal", built |-> 0]
      BY <1>a, <1>c
    <3>2. "normal" \in Codes
      BY DEF Codes
    <3> QED BY <3>1, <3>2
  <2>4. writer \in [pc : {"recv", "write", "close", "done"}, msg : Msgs]
    BY <2>1
  <2>5. wire \in [got : Seq(Nat), ids : SUBSET Ids, close : {""} \cup Codes]
    BY <1>a, <1>c
  <2> QED BY <1>a, <1>c, <2>2, <2>3, <2>4, <2>5 DEF QueuesOK
<1>3. ActorOK(actor)
  BY <1>a, <1>b, <1>d DEF ActorOK, NoActive
<1>4. Tellable
  BY <1>a, <1>c, <1>d DEF Tellable
<1>5. DOMAIN ad.items = {} /\ DOMAIN ad.itemByID = {}
  BY <1>a, <1>e
<1>6. AdapterOK(ad)
  BY <1>a, <1>e DEF AdapterOK, Mapped
<1>7. Fresh(ad) /\ NamedBy(ad, actor.cid) /\ Inverses(ad)
  BY <1>5 DEF Fresh, NamedBy, Inverses
<1> QED BY <1>2, <1>3, <1>4, <1>6, <1>7 DEF IdInv, ConnOK, TabOK

\* Every step keeps the tables inverse to each other.
LEMMA IdStep == IdInv /\ [Next]_vars => IdInv'
<1> SUFFICES ASSUME IdInv, [Next]_vars PROVE IdInv'
  OBVIOUS
<1> DEFINE Told == ActorOK(actor') /\ (Tellable /\ TabOK(ad, actor.cid) /\ (Unique(actor.cid) => Inverses(ad)))'
<1>0. QueuesOK' /\ Told => IdInv'
  BY DEF IdInv, ConnOK
<1>1. CASE Read \/ Post \/ PostAudioOverflow \/ ReaderSend \/ ReaderSendClosed \/ ReadError \/ Return
  <2>1. UNCHANGED <<ad, actor, events>>
    BY <1>1 DEF Read, Post, PostAudioOverflow, ReaderSend, ReaderSendClosed, ReadError, Return
  <2> QED BY <1>0, <1>1, <2>1, ReaderQueues, IdKept
<1>2. CASE HandleCommand \/ HandleOther \/ Fatal \/ Cleanup
  <2>1. Acts(actor') /\ UNCHANGED <<ad, events, out, reader, pump, writer, wire, scene>>
    BY <1>2, HandlersAct DEF HandleCommand, HandleOther, Fatal, Cleanup, ActorStep
  <2>2. cmds' = cmds \/ (cmds # <<>> /\ cmds' = Tail(cmds))
    BY <1>2 DEF HandleCommand, HandleOther, Fatal, Cleanup
  <2>3. cmds' \in Seq(Cmds)
    <3>1. cmds \in Seq(Cmds)
      BY DEF IdInv, ConnOK, QueuesOK
    <3> QED BY <2>2, <3>1
  <2>4. QueuesOK'
    BY <2>1, <2>3 DEF IdInv, ConnOK, QueuesOK
  <2> QED BY <1>0, <2>1, <2>4, ActsKeepTables
<1>3. CASE Emit \/ CloseEvents
  <2>1. events' \in Seq(Evs)
    <3>1. events \in Seq(Evs) /\ actor.todo \in Seq(Evs) /\ Plain("EvSessionClosed") \in Evs
      BY NoneChosen DEF IdInv, ConnOK, QueuesOK, ActorOK, Plain, Ev, Evs, EventTypes
    <3>2. Emit => Head(actor.todo) \in Evs
      BY <3>1, QueueHead DEF Emit
    <3>3. \/ events' = events
          \/ \E e \in Evs : events' = Append(events, e)
      BY <1>3, <3>1, <3>2 DEF Emit, EmitEvent, CloseEvents
    <3> QED BY <3>1, <3>3
  <2>2. QueuesOK'
    BY <1>3, <2>1 DEF Emit, CloseEvents, IdInv, ConnOK, QueuesOK
  <2> QED BY <1>0, <1>3, <2>2, IdEmit
<1>4. CASE Hello \/ PumpSend \/ PumpClose
  <2>1. UNCHANGED <<ad, actor, events>>
    BY <1>4 DEF Hello, PumpSend, PumpClose
  <2> QED BY <1>0, <1>4, <2>1, PumpQueues, IdKept
<1>5. CASE PumpEvent
  <2>1. events' \in Seq(Evs)
    <3>1. events \in Seq(Evs) /\ events # <<>> /\ events' = Tail(events)
      BY <1>5 DEF PumpEvent, IdInv, ConnOK, QueuesOK
    <3> QED BY <3>1
  <2>2. QueuesOK'
    BY <1>5, <2>1, IdPump DEF PumpEvent, IdInv, ConnOK, QueuesOK
  <2> QED BY <1>0, <1>5, <2>2, IdPump
<1>6. CASE WriterTake \/ Write \/ WriteError \/ CloseSocket
  <2>1. UNCHANGED <<ad, actor, events>>
    BY <1>6 DEF WriterTake, Write, WriteError, CloseSocket
  <2> QED BY <1>0, <1>6, <2>1, WriterQueues, IdKept
<1>7. CASE CancelSession \/ ClientLeaves \/ UNCHANGED vars
  <2>1. UNCHANGED <<ad, actor, events, cmds, out, reader, pump, writer, wire, scene>>
    BY <1>7 DEF CancelSession, ClientLeaves, vars
  <2>2. QueuesOK'
    BY <2>1 DEF IdInv, ConnOK, QueuesOK
  <2> QED BY <1>0, <2>1, <2>2, IdKept
<1> QED BY <1>1, <1>2, <1>3, <1>4, <1>5, <1>6, <1>7 DEF Next, Goroutines, Environment

\* The types of the connection and of its tables, in every reachable state.
THEOREM ConnectionInvariant == Spec => []IdInv
BY IdInitially, IdStep, PTL DEF Spec

(* The adapter's item tables (protocol/adapter.go, item, itemFor and the       *)
(* deletion in Outbound): whatever ids the clients choose, items are created   *)
(* and deleted, events are lost while the session closes, the two tables are   *)
(* each other's inverse as long as no two items were given the same id.        *)
THEOREM IdTablesInverse == Spec => []IdTablesAgree
<1>1. IdInv => IdTablesAgree
  <2> SUFFICES ASSUME IdInv, ~DuplicateIds PROVE Inverses(ad)
    BY DEF IdTablesAgree, Inverses
  <2>1. Unique(actor.cid)
    BY DEF DuplicateIds, Unique
  <2> QED BY <2>1 DEF IdInv
<1> QED BY <1>1, ConnectionInvariant, PTL

(***************************************************************************)
(* Responses are announced before they are used.                           *)
(***************************************************************************)
\* One of the first n events of w announces the response.
Said(w, n, r) == \E i \in 1..n : Creates(w[i], r)

\* The pump knows the responses K and has w before it: it knows a response, or has been
\* told of it, when it comes to an event that needs it.  x is the active response.
AnnouncedIn(K, w, x) ==
  /\ \A j \in 1..Len(w) : \A r : Needs(w[j], r) => r \in K \/ Said(w, j - 1, r)
  /\ x # 0 => x \in K \/ Said(w, Len(w), x)

\* What is before the pump: the queue, and what the actor has still to emit.
Coming == events \o actor.todo
Announced == AnnouncedIn(DOMAIN ad.resps, Coming, actor.active.ref)

AnnInv == (crashed => cause # "") /\ (cause = "" => Announced)

\* The pump takes an event: what it needs is known, and what it announces is from now on.
LEMMA AnnTake ==
  ASSUME NEW K, NEW x, NEW w \in Seq(Evs), w # <<>>, AnnouncedIn(K, w, x), NEW L,
         K \subseteq L, \A r : Creates(w[1], r) => r \in L
  PROVE  /\ \A r : Needs(w[1], r) => r \in K
         /\ AnnouncedIn(L, Tail(w), x)
<1> DEFINE u == Tail(w)
<1>1. /\ Len(w) \in Nat \ {0} /\ Len(u) = Len(w) - 1 /\ \A i \in 1..Len(u) : u[i] = w[i + 1]
      /\ 1 \in 1..Len(w)
  BY QueueHead
<1>2. ASSUME NEW r, Needs(w[1], r) PROVE r \in K
  <2>1. r \in K \/ Said(w, 1 - 1, r)
    BY <1>1, <1>2 DEF AnnouncedIn
  <2> QED BY <2>1 DEF Said
<1> HIDE DEF u
<1>3. ASSUME NEW n \in 1..Len(w), NEW r, r \in K \/ Said(w, n, r) PROVE r \in L \/ Said(u, n - 1, r)
  <2>1. CASE r \in K
    BY <2>1
  <2>2. CASE Said(w, n, r)
    <3>1. PICK i \in 1..n : Creates(w[i], r)
      BY <2>2 DEF Said
    <3>2. CASE i = 1
      BY <3>1, <3>2
    <3>3. CASE i # 1
      <4>1. i - 1 \in 1..(n - 1) /\ i - 1 \in 1..Len(u) /\ (i - 1) + 1 = i
        BY <1>1, <3>3
      <4>2. u[i - 1] = w[i]
        BY <1>1, <4>1
      <4> QED BY <3>1, <4>1, <4>2 DEF Said
    <3> QED BY <3>2, <3>3
  <2> QED BY <1>3, <2>1, <2>2
<1>4. ASSUME NEW j \in 1..Len(u), NEW r, Needs(u[j], r) PROVE r \in L \/ Said(u, j - 1, r)
  <2>1. j + 1 \in 1..Len(w) /\ u[j] = w[j + 1] /\ (j + 1) - 1 = j /\ j \in 1..Len(w)
    BY <1>1
  <2>2. r \in K \/ Said(w, j, r)
    BY <1>4, <2>1 DEF AnnouncedIn
  <2> QED BY <1>3, <2>1, <2>2
<1>5. ASSUME x # 0 PROVE x \in L \/ Said(u, Len(u), x)
  <2>1. x \in K \/ Said(w, Len(w), x)
    BY <1>5 DEF AnnouncedIn
  <2>2. Len(w) \in 1..Len(w) /\ Len(w) - 1 = Len(u)
    BY <1>1
  <2> QED BY <1>3, <2>1, <2>2
<1>6. AnnouncedIn(L, u, x)
  BY <1>4, <1>5 DEF AnnouncedIn
<1> QED BY <1>2, <1>6 DEF u

\* A handler's events come behind: they need the active response, or none, and a new
\* response is announced first.
LEMMA AnnMore ==
  ASSUME NEW K, NEW x, NEW w \in Seq(Evs), NEW t \in Seq(Evs), NEW y, AnnouncedIn(K, w, x),
         \A i \in 1..Len(t) : \A r : Needs(t[i], r) => r = x /\ r # 0,
         y \in {0, x} \/ (t # <<>> /\ Creates(t[1], y))
  PROVE  AnnouncedIn(K, w \o t, y)
<1> DEFINE u == w \o t
           n == Len(w)
<1>1. /\ n \in Nat /\ Len(t) \in Nat /\ Len(u) = n + Len(t)
      /\ \A i \in 1..n : u[i] = w[i]
      /\ \A i \in 1..Len(t) : u[n + i] = t[i]
  OBVIOUS
<1> HIDE DEF u
<1>2. ASSUME NEW m \in 0..n, NEW k \in Nat, m <= k, NEW r, Said(w, m, r) PROVE Said(u, k, r)
  <2>1. PICK i \in 1..m : Creates(w[i], r)
    BY <1>2 DEF Said
  <2>2. i \in 1..k /\ i \in 1..n
    BY <1>1, <1>2
  <2> QED BY <1>1, <2>1, <2>2 DEF Said
<1>3. ASSUME NEW j \in 1..Len(u), NEW r, Needs(u[j], r) PROVE r \in K \/ Said(u, j - 1, r)
  <2>1. CASE j <= n
    <3>1. j \in 1..n /\ j - 1 \in 0..n /\ j - 1 \in Nat
      BY <1>1, <2>1
    <3>2. r \in K \/ Said(w, j - 1, r)
      BY <1>1, <1>3, <3>1 DEF AnnouncedIn
    <3> QED BY <1>2, <3>1, <3>2
  <2>2. CASE j > n
    <3>1. j - n \in 1..Len(t) /\ n + (j - n) = j /\ n \in 0..n /\ j - 1 \in Nat /\ n <= j - 1
      BY <1>1, <2>2
    <3>a. u[n + (j - n)] = t[j - n]
      BY <1>1, <3>1
    <3>b. Needs(t[j - n], r)
      BY <1>3, <3>1, <3>a
    <3>2. r = x /\ r # 0
      BY <3>1, <3>b
    <3>3. r \in K \/ Said(w, n, r)
      BY <3>2 DEF AnnouncedIn
    <3> QED BY <1>2, <3>1, <3>3
  <2> QED BY <1>1, <2>1, <2>2
<1>4. ASSUME y # 0 PROVE y \in K \/ Said(u, Len(u), y)
  <2>1. CASE y = x
    <3>1. y \in K \/ Said(w, n, y)
      BY <1>4, <2>1 DEF AnnouncedIn
    <3>2. n \in 0..n /\ Len(u) \in Nat /\ n <= Len(u)
      BY <1>1
    <3> QED BY <1>2, <3>1, <3>2
  <2>2. CASE t # <<>> /\ Creates(t[1], y)
    <3>0. Len(t) \in Nat \ {0}
      <4>1. t # <<>>
        BY <2>2
      <4> QED BY <4>1, QueueHead
    <3>1. 1 \in 1..Len(t) /\ n + 1 \in 1..Len(u)
      BY <1>1, <3>0
    <3>2. u[n + 1] = t[1]
      BY <1>1, <3>1
    <3> QED BY <2>2, <3>1, <3>2 DEF Said
  <2> QED BY <1>4, <2>1, <2>2
<1>5. AnnouncedIn(K, u, y)
  BY <1>3, <1>4 DEF AnnouncedIn
<1> QED BY <1>5 DEF u

\* Emitting moves an event from the end of what is coming to the queue, or the pump
\* takes it from the front.
LEMMA ComingMoves ==
  ASSUME NEW S, NEW q \in Seq(S), NEW t \in Seq(S)
  PROVE  /\ q \o t \in Seq(S) /\ q \o <<>> = q
         /\ t # <<>> => Append(q, Head(t)) \o Tail(t) = q \o t
         /\ q # <<>> => q \o t # <<>> /\ Head(q) = (q \o t)[1] /\ Tail(q) \o t = Tail(q \o t)
<1>1. q \o t \in Seq(S) /\ q \o <<>> = q
  OBVIOUS
<1>2. ASSUME t # <<>> PROVE Append(q, Head(t)) \o Tail(t) = q \o t
  <2>1. Head(t) \in S /\ Tail(t) \in Seq(S) /\ <<Head(t)>> \in Seq(S) /\ <<Head(t)>> \o Tail(t) = t
    BY <1>2
  <2>2. Append(q, Head(t)) = q \o <<Head(t)>>
    BY <2>1, AppendIsConcat
  <2> QED BY <2>1, <2>2, ConcatAssociative
<1>3. ASSUME q # <<>> PROVE q \o t # <<>> /\ Head(q) = (q \o t)[1] /\ Tail(q) \o t = Tail(q \o t)
  <2> DEFINE u == Tail(q) \o t
             v == Tail(q \o t)
  <2>1. q \o t # <<>> /\ Head(q) = (q \o t)[1]
    BY <1>3
  <2>2. u \in Seq(S) /\ v \in Seq(S) /\ Len(u) = Len(v)
    BY <1>3, <2>1
  <2>3. \A i \in 1..Len(u) : u[i] = v[i]
    BY <1>3, <2>1
  <2>4. u = v
    BY <2>2, <2>3
  <2> QED BY <2>1, <2>4
<1> QED BY <1>1, <1>2, <1>3

\* Everything the actor and the pump do keeps responses announced before they are used,
\* until the session is cancelled.
LEMMA AnnStep == IdInv /\ AnnInv /\ [Next]_vars => AnnInv'
<1> SUFFICES ASSUME IdInv, AnnInv, [Next]_vars PROVE AnnInv'
  OBVIOUS
<1> DEFINE K == DOMAIN ad.resps
           t == actor.todo
           x == actor.active.ref
<1>t. events \in Seq(Evs) /\ t \in Seq(Evs) /\ ActorOK(actor) /\ Coming \in Seq(Evs)
  <2>1. events \in Seq(Evs) /\ t \in Seq(Evs) /\ ActorOK(actor)
    BY DEF IdInv, ConnOK, QueuesOK, ActorOK
  <2> QED BY <2>1, ComingMoves DEF Coming
<1>0. cause' = "" => cause = "" /\ AnnouncedIn(K, events \o t, x)
  <2>1. cause' = "" => cause = ""
    BY DEF Next, Goroutines, Environment, vars, Read, Post, PostAudioOverflow, ReaderSend, ReaderSendClosed, ReadError,
           Return, HandleCommand, HandleOther, Fatal, ActorStep, Emit, Cleanup, CloseEvents, Hello, PumpEvent,
           PumpSend, PumpClose, WriterTake, Write, WriteError, CloseSocket, CancelSession, ClientLeaves, Cancelled
  <2> QED BY <2>1 DEF AnnInv, Announced, Coming
<1>1. CASE HandleCommand \/ HandleOther \/ Fatal
  <2>1. Acts(actor') /\ t = <<>> /\ UNCHANGED <<ad, events, cause, crashed>>
    BY <1>1, HandlersAct
  <2>2. events \o t = events
    BY <1>t, <2>1, ComingMoves
  <2> DEFINE u == actor'.todo
             y == actor'.active.ref
  <2>3. /\ u \in Seq(Evs) /\ \A i \in 1..Len(u) : \A r : Needs(u[i], r) => r = x /\ r # 0
        /\ y \in {0, x} \/ (u # <<>> /\ Creates(u[1], y))
    BY <2>1 DEF Acts, ActorOK
  <2> HIDE DEF u, y, x, t, K
  <2>4. cause' = "" => AnnouncedIn(K, events \o u, y)
    BY <1>0, <1>t, <2>2, <2>3, AnnMore
  <2>5. cause' = "" => Announced'
    BY <2>1, <2>4 DEF Announced, Coming, K, u, y
  <2> QED BY <2>1, <2>5 DEF AnnInv
<1>2. CASE Emit
  <2>1. t # <<>> /\ UNCHANGED <<ad, crashed>> /\ actor'.active = actor.active /\ actor'.todo = Tail(t)
    BY <1>2, <1>t DEF Emit, ActorOK
  <2>2. cause' = "" => events' = Append(events, Head(t))
    BY <1>0, <1>2 DEF Emit, EmitEvent
  <2>3. cause' = "" => Coming' = events \o t
    <3>0. events \in Seq(Evs) /\ t \in Seq(Evs) /\ t # <<>>
      BY <1>t, <2>1
    <3> HIDE DEF t
    <3>1. Append(events, Head(t)) \o Tail(t) = events \o t
      BY <3>0, ComingMoves
    <3> QED BY <2>1, <2>2, <3>1 DEF Coming
  <2>4. cause' = "" => Announced'
    BY <1>0, <2>1, <2>3 DEF Announced
  <2> QED BY <1>0, <2>1, <2>4 DEF AnnInv
<1>3. CASE PumpEvent
  <2> DEFINE e == Head(events)
  <2>1. events # <<>> /\ events' = Tail(events) /\ actor' = actor /\ cause' = cause
    BY <1>3 DEF PumpEvent
  <2>2. /\ events \o t # <<>> /\ e = (events \o t)[1] /\ Coming' = Tail(events \o t)
        /\ events \o t \in Seq(Evs) /\ e \in Evs
    <3>1. e \in Evs
      BY <1>t, <2>1, QueueHead
    <3> QED BY <1>t, <2>1, <3>1, ComingMoves DEF Coming
  <2>3. CASE cause # ""
    <3>1. cause' # ""
      BY <2>1, <2>3
    <3> QED BY <3>1 DEF AnnInv
  <2>4. CASE cause = ""
    <3>1. AnnouncedIn(K, events \o t, x)
      BY <2>4 DEF AnnInv, Announced, Coming
    <3> DEFINE L == K \cup (IF e.type = "EvResponseCreated" THEN {e.resp} ELSE {})
    <3>2. K \subseteq L /\ \A r : Creates(e, r) => r \in L
      BY DEF Creates
    <3> HIDE DEF L, e
    <3>3. (\A r : Needs(e, r) => r \in K) /\ AnnouncedIn(L, Tail(events \o t), x)
      BY <2>2, <3>1, <3>2, AnnTake
    <3>4. ~Panics(ad, e)
      BY <3>3 DEF Panics, Needs
    <3>5. Chosen(e, actor.cid) /\ TabOK(ad, actor.cid)
      <4>1. Len(events) \in Nat \ {0} /\ e = events[1]
        BY <1>t, <2>1, QueueHead DEF e
      <4>2. 1 \in 1..Len(events)
        BY <4>1
      <4> QED BY <4>1, <4>2 DEF IdInv, Tellable
    <3>6. ad' = Outbound(ad, e).ad /\ crashed' = crashed
      BY <1>3, <3>4 DEF PumpEvent, e
    <3>7. DOMAIN ad'.resps = L
      BY <2>2, <3>4, <3>5, <3>6, OutboundOK DEF L
    <3>8. Announced'
      BY <2>1, <2>2, <3>3, <3>7 DEF Announced
    <3> QED BY <2>1, <3>6, <3>8 DEF AnnInv
  <2> QED BY <2>3, <2>4
<1>4. CASE Cleanup
  BY <1>4 DEF Cleanup, AnnInv
<1>5. CASE CloseEvents
  <2> DEFINE c == Plain("EvSessionClosed")
  <2>1. /\ t = <<>> /\ UNCHANGED <<ad, cause, crashed>> /\ actor'.todo = t /\ actor'.active = actor.active
        /\ events' = events \/ events' = Append(events, c)
    BY <1>5, <1>t DEF CloseEvents, ActorOK
  <2>2. events \o t = events /\ Coming' = events' \o t
    BY <1>t, <2>1, ComingMoves DEF Coming
  <2>3. c \in Evs /\ \A r : ~Needs(c, r)
    BY NoneChosen DEF Plain, Ev, Evs, EventTypes, Needs, NeedsResponse
  <2> HIDE DEF c
  <2>4. CASE events' = events
    BY <1>0, <2>1, <2>2, <2>4 DEF AnnInv, Announced
  <2>5. CASE events' = Append(events, c)
    <3> DEFINE u == <<c>>
    <3>1. u \in Seq(Evs) /\ Len(u) = 1 /\ u[1] = c /\ events' = events \o u
      BY <1>t, <2>3, <2>5, AppendIsConcat
    <3>2. \A i \in 1..Len(u) : \A r : Needs(u[i], r) => r = x /\ r # 0
      BY <2>3, <3>1
    <3>3. events \o u \in Seq(Evs)
      BY <1>t, <3>1, ComingMoves
    <3>4. Coming' = events \o u
      BY <2>1, <2>2, <3>1, <3>3, ComingMoves
    <3> HIDE DEF u, x, K
    <3>5. cause' = "" => AnnouncedIn(K, events \o u, x)
      BY <1>0, <1>t, <2>2, <3>1, <3>2, AnnMore
    <3> QED BY <2>1, <3>4, <3>5 DEF AnnInv, Announced, K, x
  <2> QED BY <2>1, <2>4, <2>5
<1>6. CASE \/ Read \/ Post \/ PostAudioOverflow \/ ReaderSend \/ ReaderSendClosed \/ ReadError \/ Return
           \/ Hello \/ PumpSend \/ PumpClose \/ WriterTake \/ Write \/ WriteError \/ CloseSocket
           \/ CancelSession \/ ClientLeaves \/ UNCHANGED vars
  <2>1. UNCHANGED <<ad, actor, events, crashed>>
    BY <1>6 DEF vars, Read, Post, PostAudioOverflow, ReaderSend, ReaderSendClosed, ReadError, Return, Hello, PumpSend,
                PumpClose, WriterTake, Write, WriteError, CloseSocket, CancelSession, ClientLeaves
  <2>2. crashed => cause' # ""
    BY <1>0 DEF AnnInv
  <2> QED BY <1>0, <2>1, <2>2 DEF AnnInv, Announced, Coming
<1> QED BY <1>1, <1>2, <1>3, <1>4, <1>5, <1>6 DEF Next, Goroutines, Environment

(* Outbound dereferences the state of an event's response (protocol/adapter.go, *)
(* resps): whatever the client sends and however the goroutines interleave, the *)
(* event that announces a response is before the pump when an event that needs  *)
(* it is, so the pump can miss it only once the session is being closed.        *)
THEOREM PanicsOnlyOnClose == Spec => []PanicsOnlyWhenClosing
<1>1. Init => AnnInv
  <2> SUFFICES ASSUME Init PROVE Announced /\ ~crashed
    BY DEF AnnInv
  <2> DEFINE none == <<>>
  <2>1. events = none /\ actor.todo = none /\ actor.active.ref = 0 /\ ~crashed
    BY DEF Init, NoActive
  <2>2. none \in Seq(Evs) /\ Len(none) = 0 /\ 1..Len(none) = {} /\ none \o none = none
    BY EmptyQueue, ComingMoves
  <2> HIDE DEF none
  <2>3. Coming = none
    BY <2>1, <2>2 DEF Coming
  <2> QED BY <2>1, <2>2, <2>3 DEF Announced, AnnouncedIn
<1>2. AnnInv => PanicsOnlyWhenClosing
  BY DEF AnnInv, PanicsOnlyWhenClosing
<1> QED BY <1>1, <1>2, AnnStep, ConnectionInvariant, PTL DEF Spec

(***************************************************************************)
(* Frames reach the client in the order the pump built them.               *)
(***************************************************************************)
\* The queue carries the pump's frames f+1 .. t, each once and in order, among others.
OrderedIn(q, f, t) ==
  /\ f <= t
  /\ \A i \in 1..Len(q) : q[i].k # 0 => q[i].k \in (f + 1)..t
  /\ \A i, j \in 1..Len(q) : i < j /\ q[i].k # 0 /\ q[j].k # 0 => q[i].k < q[j].k
  /\ \A v \in (f + 1)..t : \E i \in 1..Len(q) : q[i].k = v

\* The frames the pump has sent, and those the writer has taken.
Sent == pump.built - Len(pump.left)
Busy == writer.pc = "write" /\ writer.msg.k # 0
Taken == IF Busy THEN Len(wire.got) + 1 ELSE Len(wire.got)

Numbered(got) == got = [i \in 1..Len(got) |-> i]

\* Only the last message is a close, and only of a pump that has gone.
ClosesLast(q, pc) == \A i \in 1..Len(q) : q[i].close # "" => i = Len(q) /\ pc = "done" /\ q[i].k = 0

FrameInv ==
  /\ Numbered(wire.got) /\ Len(wire.got) <= pump.built
  /\ writer.pc # "done" => OrderedIn(out, Taken, Sent)
  /\ Busy => writer.msg.k = Len(wire.got) + 1
  /\ pump.pc = "hello" => pump.built = 0
  /\ pump.pc = "done" => Len(pump.left) = 0
  /\ ClosesLast(out, pump.pc)
  /\ writer.pc = "close" => Len(out) = 0 /\ pump.pc = "done"
  /\ wire.close # "" => writer.pc = "done" /\ pump.pc = "done" /\ Len(wire.got) = pump.built

\* The writer takes the oldest message: the next frame, or one that is none of the pump's.
LEMMA OrderedTake ==
  ASSUME NEW q \in Seq(Msgs), q # <<>>, NEW f \in Nat, NEW t \in Nat, OrderedIn(q, f, t)
  PROVE  \/ Head(q).k = 0 /\ OrderedIn(Tail(q), f, t)
         \/ Head(q).k = f + 1 /\ OrderedIn(Tail(q), f + 1, t)
<1> DEFINE u == Tail(q)
           k == Head(q).k
<1>1. /\ Len(q) \in Nat \ {0} /\ Len(u) = Len(q) - 1 /\ \A i \in 1..Len(u) : u[i] = q[i + 1]
      /\ Head(q) = q[1] /\ Head(q) \in Msgs
  BY QueueHead
<1>2. 1 \in 1..Len(q) /\ k = q[1].k /\ k \in Nat
  <2>1. 1 \in 1..Len(q) /\ Head(q) = q[1]
    BY <1>1
  <2>2. Head(q).k \in Nat
    BY <1>1 DEF Msgs
  <2> QED BY <2>1, <2>2
<1> HIDE DEF u, k
<1>3. \A i \in 1..Len(u) : i + 1 \in 1..Len(q) /\ 1 < i + 1 /\ u[i].k = q[i + 1].k
  BY <1>1
<1>4. \A i, j \in 1..Len(u) : i < j /\ u[i].k # 0 /\ u[j].k # 0 => u[i].k < u[j].k
  <2> SUFFICES ASSUME NEW i \in 1..Len(u), NEW j \in 1..Len(u), i < j, u[i].k # 0, u[j].k # 0 PROVE u[i].k < u[j].k
    OBVIOUS
  <2>1. i + 1 < j + 1
    OBVIOUS
  <2> QED BY <1>3, <2>1 DEF OrderedIn
<1>5. ASSUME NEW v \in (f + 1)..t, v # k PROVE \E i \in 1..Len(u) : u[i].k = v
  <2>1. PICK i \in 1..Len(q) : q[i].k = v
    BY DEF OrderedIn
  <2>2. i # 1
    BY <1>2, <1>5, <2>1
  <2>3. i - 1 \in 1..Len(u) /\ (i - 1) + 1 = i
    BY <1>1, <2>2
  <2>4. u[i - 1].k = v
    BY <1>3, <2>1, <2>3
  <2> QED BY <2>3, <2>4
<1>6. CASE k = 0
  <2>1. \A i \in 1..Len(u) : u[i].k # 0 => u[i].k \in (f + 1)..t
    BY <1>3 DEF OrderedIn
  <2>2. \A v \in (f + 1)..t : v # k
    BY <1>6
  <2>3. OrderedIn(u, f, t)
    BY <1>4, <1>5, <2>1, <2>2 DEF OrderedIn
  <2> QED BY <1>6, <2>3 DEF u, k
<1>7. CASE k # 0
  <2>1. k \in (f + 1)..t
    BY <1>2, <1>7 DEF OrderedIn
  <2>2. k = f + 1
    <3>1. f + 1 \in (f + 1)..t
      BY <2>1
    <3>2. PICK i \in 1..Len(q) : q[i].k = f + 1
      BY <3>1 DEF OrderedIn
    <3>3. CASE i = 1
      BY <1>2, <3>2, <3>3
    <3>4. CASE 1 < i
      <4>1. k < f + 1
        BY <1>2, <1>7, <3>2, <3>4 DEF OrderedIn
      <4> QED BY <2>1, <4>1
    <3> QED BY <1>1, <3>3, <3>4
  <2>3. \A i \in 1..Len(u) : u[i].k # 0 => u[i].k \in (f + 1)..t /\ k < u[i].k
    BY <1>2, <1>3, <1>7 DEF OrderedIn
  <2>4. \A i \in 1..Len(u) : u[i].k # 0 => u[i].k \in ((f + 1) + 1)..t
    BY <2>2, <2>3
  <2>5. \A v \in ((f + 1) + 1)..t : v \in (f + 1)..t /\ v # k
    BY <2>2
  <2>6. OrderedIn(u, f + 1, t)
    BY <1>4, <1>5, <2>1, <2>2, <2>4, <2>5 DEF OrderedIn
  <2> QED BY <2>2, <2>6 DEF u, k
<1> QED BY <1>6, <1>7

\* A message behind: the next frame, or one that is none of the pump's.
LEMMA OrderedAppend ==
  ASSUME NEW q \in Seq(Msgs), NEW m \in Msgs, NEW f \in Nat, NEW t \in Nat, OrderedIn(q, f, t)
  PROVE  /\ m.k = 0 => OrderedIn(Append(q, m), f, t)
         /\ m.k = t + 1 => OrderedIn(Append(q, m), f, t + 1)
<1> DEFINE u == Append(q, m)
           n == Len(q)
<1>1. n \in Nat /\ Len(u) = n + 1 /\ u[n + 1] = m /\ \A i \in 1..n : u[i] = q[i]
  BY QueueAppend
<1> HIDE DEF u, n
<1>2. \A i \in 1..Len(u) : (i \in 1..n /\ u[i] = q[i]) \/ (i = n + 1 /\ u[i] = m)
  BY <1>1
<1>a. n = Len(q)
  BY DEF n
<1>3. ASSUME m.k = 0 PROVE OrderedIn(u, f, t)
  <2>1. \A i \in 1..Len(u) : u[i].k # 0 => i \in 1..n /\ u[i] = q[i] /\ u[i].k \in (f + 1)..t
    BY <1>2, <1>3, <1>a DEF OrderedIn
  <2>2. \A i, j \in 1..Len(u) : i < j /\ u[i].k # 0 /\ u[j].k # 0 => u[i].k < u[j].k
    BY <1>a, <2>1 DEF OrderedIn
  <2>3. ASSUME NEW v \in (f + 1)..t PROVE \E i \in 1..Len(u) : u[i].k = v
    <3>1. PICK i \in 1..n : q[i].k = v
      BY <1>a DEF OrderedIn
    <3> QED BY <1>1, <3>1
  <2> QED BY <2>1, <2>2, <2>3 DEF OrderedIn
<1>4. ASSUME m.k = t + 1 PROVE OrderedIn(u, f, t + 1)
  <2>0. f <= t
    BY DEF OrderedIn
  <2>1. ASSUME NEW i \in 1..Len(u), u[i].k # 0
        PROVE  \/ i \in 1..n /\ u[i] = q[i] /\ u[i].k \in (f + 1)..t
               \/ i = n + 1 /\ u[i].k = t + 1
    BY <1>2, <1>4, <1>a, <2>1 DEF OrderedIn
  <2>2. \A i \in 1..Len(u) : u[i].k # 0 => u[i].k \in (f + 1)..(t + 1)
    BY <2>0, <2>1
  <2>3. ASSUME NEW i \in 1..Len(u), NEW j \in 1..Len(u), i < j, u[i].k # 0, u[j].k # 0 PROVE u[i].k < u[j].k
    <3>1. i \in 1..n /\ u[i] = q[i] /\ u[i].k \in (f + 1)..t
      BY <1>1, <2>1, <2>3
    <3>2. CASE j \in 1..n
      BY <1>1, <1>a, <2>3, <3>1, <3>2 DEF OrderedIn
    <3>3. CASE j = n + 1
      BY <1>1, <1>4, <3>1, <3>3
    <3> QED BY <1>1, <3>2, <3>3
  <2>4. ASSUME NEW v \in (f + 1)..(t + 1) PROVE \E i \in 1..Len(u) : u[i].k = v
    <3>1. CASE v = t + 1
      <4>1. n + 1 \in 1..Len(u)
        BY <1>1
      <4> QED BY <1>1, <1>4, <3>1, <4>1
    <3>2. CASE v # t + 1
      <4>1. v \in (f + 1)..t
        BY <3>2
      <4>2. PICK i \in 1..n : q[i].k = v
        BY <1>a, <4>1 DEF OrderedIn
      <4> QED BY <1>1, <4>2
    <3> QED BY <3>1, <3>2
  <2>5. f <= t + 1
    BY <2>0
  <2> QED BY <2>2, <2>3, <2>4, <2>5 DEF OrderedIn
<1> QED BY <1>3, <1>4 DEF u

\* The queue of a pump that has not gone holds no close; what is behind it may be one.
LEMMA ClosesAppend ==
  ASSUME NEW q \in Seq(Msgs), NEW m \in Msgs, NEW pc, pc # "done", ClosesLast(q, pc)
  PROVE  /\ m.close = "" => ClosesLast(Append(q, m), pc)
         /\ m.k = 0 => ClosesLast(Append(q, m), "done")
         /\ ClosesLast(q, "done")
<1>1. /\ Append(q, m) \in Seq(Msgs) /\ Len(q) \in Nat /\ Len(Append(q, m)) = Len(q) + 1
      /\ Append(q, m)[Len(q) + 1] = m /\ \A i \in 1..Len(q) : Append(q, m)[i] = q[i]
  BY QueueAppend
<1>2. \A i \in 1..Len(q) : q[i].close = ""
  BY DEF ClosesLast
<1> DEFINE u == Append(q, m)
           n == Len(q)
<1>3. n \in Nat /\ Len(u) = n + 1 /\ u[n + 1] = m /\ \A i \in 1..n : u[i] = q[i]
  BY <1>1
<1> HIDE DEF u, n
<1>4. \A i \in 1..Len(u) : (i \in 1..n /\ u[i] = q[i]) \/ (i = Len(u) /\ u[i] = m)
  BY <1>3
<1>5. \A i \in 1..Len(u) : u[i].close # "" => i = Len(u) /\ u[i] = m
  BY <1>2, <1>4 DEF n
<1>6. (m.close = "" => ClosesLast(u, pc)) /\ (m.k = 0 => ClosesLast(u, "done"))
  BY <1>5 DEF ClosesLast
<1> QED BY <1>2, <1>6 DEF u, ClosesLast

\* Taking from such a queue: what is taken is the close message only when it is the last.
LEMMA ClosesTake ==
  ASSUME NEW q \in Seq(Msgs), q # <<>>, NEW pc, ClosesLast(q, pc)
  PROVE  /\ ClosesLast(Tail(q), pc)
         /\ Head(q).close # "" => Tail(q) = <<>> /\ pc = "done" /\ Head(q).k = 0
<1> DEFINE u == Tail(q)
<1>1. /\ Len(q) \in Nat \ {0} /\ Len(u) = Len(q) - 1 /\ \A i \in 1..Len(u) : u[i] = q[i + 1]
      /\ Head(q) = q[1] /\ Head(q) \in Msgs /\ u \in Seq(Msgs)
  BY QueueHead
<1> HIDE DEF u
<1>2. \A i \in 1..Len(u) : i + 1 \in 1..Len(q) /\ u[i] = q[i + 1] /\ (i + 1 = Len(q) => i = Len(u))
  BY <1>1
<1>3. ClosesLast(u, pc)
  BY <1>2 DEF ClosesLast
<1>4. ASSUME Head(q).close # "" PROVE u = <<>> /\ pc = "done" /\ Head(q).k = 0
  <2>1. 1 \in 1..Len(q)
    BY <1>1
  <2>2. 1 = Len(q) /\ pc = "done" /\ Head(q).k = 0
    BY <1>1, <1>4, <2>1 DEF ClosesLast
  <2>3. Len(u) = 0
    BY <1>1, <2>2
  <2> QED BY <1>1, <2>2, <2>3
<1> QED BY <1>3, <1>4 DEF u

\* What the frames' invariant reads has its types.
LEMMA FrameTypes ==
  ASSUME IdInv
  PROVE  /\ pump \in [pc : {"hello", "take", "done"}, left : Seq(SUBSET Ids), code : Codes, built : Nat]
         /\ writer \in [pc : {"recv", "write", "close", "done"}, msg : Msgs] /\ out \in Seq(Msgs)
         /\ wire \in [got : Seq(Nat), ids : SUBSET Ids, close : {""} \cup Codes]
         /\ Len(pump.left) \in Nat /\ Len(wire.got) \in Nat /\ pump.built \in Nat /\ Sent \in Nat /\ Taken \in Nat
<1>1. /\ pump \in [pc : {"hello", "take", "done"}, left : Seq(SUBSET Ids), code : Codes, built : Nat]
      /\ writer \in [pc : {"recv", "write", "close", "done"}, msg : Msgs] /\ out \in Seq(Msgs)
      /\ wire \in [got : Seq(Nat), ids : SUBSET Ids, close : {""} \cup Codes]
      /\ Len(pump.left) <= pump.built
  BY DEF IdInv, ConnOK, QueuesOK
<1>2. pump.left \in Seq(SUBSET Ids) /\ wire.got \in Seq(Nat) /\ pump.built \in Nat
  BY <1>1
<1>3. Len(pump.left) \in Nat /\ Len(wire.got) \in Nat
  BY <1>2
<1>4. Sent \in Nat /\ Taken \in Nat
  <2>1. Len(pump.left) <= pump.built
    BY <1>1
  <2>2. Sent \in Nat
    BY <1>2, <1>3, <2>1 DEF Sent
  <2>3. Taken \in Nat
    BY <1>3 DEF Taken
  <2> QED BY <2>2, <2>3
<1> QED BY <1>1, <1>2, <1>3, <1>4

\* The pump: what it has sent grows by the frame that it sends.
LEMMA FramePump ==
  ASSUME IdInv, IdInv', FrameInv, Hello \/ PumpEvent \/ PumpSend \/ PumpClose PROVE FrameInv'
<1> DEFINE n == pump.built
           l == Len(pump.left)
<1>0. /\ pump \in [pc : {"hello", "take", "done"}, left : Seq(SUBSET Ids), code : Codes, built : Nat]
      /\ out \in Seq(Msgs)
  BY FrameTypes
<1>n. n \in Nat /\ l \in Nat /\ Sent \in Nat /\ Taken \in Nat /\ Len(wire.got) \in Nat /\ Sent = n - l
  BY FrameTypes DEF Sent
<1>1. UNCHANGED <<wire, writer>> /\ Taken' = Taken /\ Busy' = Busy
  BY DEF Hello, PumpEvent, PumpSend, PumpClose, Taken, Busy
<1>2. Len(pump'.left) \in Nat /\ pump'.built \in Nat /\ Sent' = pump'.built - Len(pump'.left)
  <2>1. (Len(pump.left) \in Nat /\ pump.built \in Nat)'
    BY FrameTypes, PTL
  <2> QED BY <2>1 DEF Sent
<1>3. CASE Hello
  <2>1. pump.pc = "hello" /\ pump'.pc = "take" /\ pump'.left = Frames(ad, 2, {}).frames /\ pump'.built = 2 /\ out' = out
    BY <1>0, <1>3 DEF Hello
  <2>2. Len(pump'.left) = 2
    <3>1. 2 \in Nat /\ {} \in SUBSET Ids
      OBVIOUS
    <3>2. Len(Frames(ad, 2, {}).frames) = 2
      BY <3>1, FramesOK
    <3> QED BY <2>1, <3>2
  <2>3. n = 0 /\ Len(wire.got) = 0 /\ Sent' = 0
    <3>1. n = 0 /\ Len(wire.got) <= n
      BY <2>1 DEF FrameInv
    <3>2. pump'.built = 2
      BY <2>1
    <3> QED BY <1>n, <1>2, <2>2, <3>1, <3>2
  <2>4. Sent = 0
    BY <1>n, <2>3
  <2>5. wire.close = "" /\ writer.pc # "close"
    BY <2>1 DEF FrameInv
  <2>6. ClosesLast(out, pump'.pc)
    BY <2>1 DEF FrameInv, ClosesLast
  <2>7. Len(wire.got) <= pump'.built
    BY <2>1, <2>3
  <2> QED BY <1>1, <2>1, <2>3, <2>4, <2>5, <2>6, <2>7 DEF FrameInv
<1>4. CASE PumpEvent
  <2>1. pump.pc = "take" /\ pump.left = <<>> /\ out' = out
    BY <1>4 DEF PumpEvent
  <2>2. Sent = n /\ l = 0
    <3>1. l = 0
      BY <2>1, EmptyQueue
    <3> QED BY <1>n, <3>1
  <2>3. CASE pump' = pump
    BY <1>1, <2>1, <2>3 DEF FrameInv, Sent
  <2>4. CASE pump' # pump
    <3> DEFINE e == Head(events)
               f == Outbound(ad, e)
    <3>1. pump' = [pump EXCEPT !.left = f.frames, !.built = @ + Len(f.frames), !.code = CloseCode(e, @)]
      BY <1>4, <2>4 DEF PumpEvent
    <3> HIDE DEF f, e
    <3>2. pump'.pc = "take" /\ pump'.left = f.frames /\ pump'.built = n + Len(f.frames)
      BY <1>0, <2>1, <3>1
    <3>a. Len(pump'.left) = Len(f.frames) /\ pump'.built = n + Len(f.frames)
      BY <3>2
    <3>3. Len(f.frames) \in Nat /\ Sent' = n /\ n <= pump'.built
      BY <1>n, <1>2, <3>a
    <3>4. Len(wire.got) <= n /\ wire.close = "" /\ writer.pc # "close"
      BY <2>1 DEF FrameInv
    <3>5. Len(wire.got) <= pump'.built
      <4>1. Len(wire.got) <= n
        BY <3>4
      <4> HIDE DEF n
      <4> QED BY <1>n, <1>2, <3>3, <4>1
    <3> QED BY <1>1, <2>1, <2>2, <3>2, <3>3, <3>4, <3>5 DEF FrameInv
  <2> QED BY <2>3, <2>4
<1>5. CASE PumpSend
  <2> DEFINE k == n - l + 1
             m == DataMsg(k, Head(pump.left))
  <2>1. pump.pc = "take" /\ pump.left # <<>> /\ Send(m)
    BY <1>5 DEF PumpSend
  <2>2. pump.left \in Seq(SUBSET Ids) /\ pump'.pc = "take" /\ pump'.left = Tail(pump.left) /\ pump'.built = n
    BY <1>0, <1>5 DEF PumpSend
  <2>3. Head(pump.left) \in SUBSET Ids /\ Len(pump'.left) = l - 1
    BY <2>1, <2>2, QueueHead
  <2>4. k = Sent + 1 /\ k \in Nat /\ Sent' = Sent + 1
    <3>1. pump'.built = n /\ Len(pump'.left) = l - 1
      BY <2>2, <2>3
    <3> QED BY <1>n, <1>2, <3>1
  <2> HIDE DEF k
  <2>5. m \in Msgs /\ m.k = k /\ m.close = ""
    BY <2>3, <2>4, MsgsTyped DEF DataMsg
  <2> HIDE DEF m
  <2>6. out' = Append(out, m) \/ (writer.pc = "done" /\ out' = out)
    BY <2>1 DEF Send, WriterDone
  <2>7. wire.close = "" /\ writer.pc # "close"
    BY <2>1 DEF FrameInv
  <2>8. writer.pc # "done" => OrderedIn(out', Taken, Sent + 1)
    <3> SUFFICES ASSUME writer.pc # "done" PROVE OrderedIn(out', Taken, Sent + 1)
      OBVIOUS
    <3>1. OrderedIn(out, Taken, Sent) /\ m.k = Sent + 1 /\ out' = Append(out, m)
      BY <2>4, <2>5, <2>6 DEF FrameInv
    <3> QED BY <1>0, <1>n, <2>5, <3>1, OrderedAppend
  <2>9. ClosesLast(out', "take")
    <3>1. ClosesLast(out, "take") /\ "take" # "done"
      BY <2>1 DEF FrameInv
    <3> QED BY <1>0, <2>5, <2>6, <3>1, ClosesAppend
  <2> QED BY <1>1, <2>2, <2>4, <2>7, <2>8, <2>9 DEF FrameInv
<1>6. CASE PumpClose
  <2> DEFINE m == CloseMsg(pump.code)
  <2>1. /\ pump.pc = "take" /\ Send(m) /\ pump'.pc = "done" /\ pump'.left = pump.left /\ pump'.built = n
        /\ l = 0
    <3>1. pump.left = <<>>
      BY <1>6 DEF PumpClose
    <3> QED BY <1>0, <1>6, <3>1, EmptyQueue DEF PumpClose
  <2>2. m \in Msgs /\ m.k = 0
    BY <1>0, MsgsTyped DEF CloseMsg
  <2> HIDE DEF m
  <2>3. Sent' = Sent
    BY <2>1 DEF Sent
  <2>4. out' = Append(out, m) \/ (writer.pc = "done" /\ out' = out)
    BY <2>1 DEF Send, WriterDone
  <2>5. wire.close = "" /\ writer.pc # "close"
    BY <2>1 DEF FrameInv
  <2>6. writer.pc # "done" => OrderedIn(out', Taken, Sent)
    <3>1. writer.pc # "done" => OrderedIn(out, Taken, Sent)
      BY DEF FrameInv
    <3> QED BY <1>0, <1>n, <2>2, <2>4, <3>1, OrderedAppend
  <2>7. ClosesLast(out', "done")
    <3>1. ClosesLast(out, "take") /\ "take" # "done"
      BY <2>1 DEF FrameInv
    <3> QED BY <1>0, <2>2, <2>4, <3>1, ClosesAppend
  <2> QED BY <1>1, <2>1, <2>3, <2>5, <2>6, <2>7 DEF FrameInv
<1> QED BY <1>3, <1>4, <1>5, <1>6

\* The writer: it takes the frames in order and writes each before it takes the next.
LEMMA FrameWriter ==
  ASSUME IdInv, IdInv', FrameInv, WriterTake \/ Write \/ WriteError \/ CloseSocket PROVE FrameInv'
<1> DEFINE g == Len(wire.got)
<1>0. /\ writer \in [pc : {"recv", "write", "close", "done"}, msg : Msgs]
      /\ wire \in [got : Seq(Nat), ids : SUBSET Ids, close : {""} \cup Codes]
      /\ out \in Seq(Msgs)
  BY FrameTypes
<1>n. g \in Nat /\ Sent \in Nat /\ pump.built \in Nat /\ Sent = pump.built - Len(pump.left) /\ Sent <= pump.built
  <2>1. Len(pump.left) \in Nat /\ pump.built \in Nat /\ g \in Nat /\ Sent \in Nat
    BY FrameTypes
  <2> QED BY <2>1 DEF Sent
<1>1. pump' = pump /\ Sent' = Sent
  BY DEF WriterTake, Write, WriteError, CloseSocket, Sent
<1>2. CASE WriterTake
  <2> DEFINE m == Head(out)
  <2>1. writer.pc = "recv" /\ out # <<>> /\ out' = Tail(out) /\ wire' = wire
    BY <1>2 DEF WriterTake
  <2>2. writer'.pc = (IF m.close # "" THEN "close" ELSE "write") /\ writer'.msg = m
    BY <1>2 DEF WriterTake
  <2>3. OrderedIn(out, g, Sent) /\ ClosesLast(out, pump.pc) /\ wire.close = ""
    <3>1. Taken = g
      BY <2>1 DEF Taken, Busy
    <3> QED BY <2>1, <3>1 DEF FrameInv
  <2>4. /\ ClosesLast(out', pump.pc)
        /\ m.close # "" => Len(out') = 0 /\ pump.pc = "done" /\ m.k = 0
    BY <1>0, <2>1, <2>3, ClosesTake
  <2>5. \/ m.k = 0 /\ OrderedIn(out', g, Sent)
        \/ m.k = g + 1 /\ OrderedIn(out', g + 1, Sent)
    BY <1>0, <1>n, <2>1, <2>3, OrderedTake
  <2> HIDE DEF m
  <2>6. Taken' = (IF writer'.pc = "write" /\ m.k # 0 THEN g + 1 ELSE g)
    BY <2>1, <2>2 DEF Taken, Busy
  <2>7. OrderedIn(out', Taken', Sent)
    <3>1. CASE m.k = 0
      <4>1. Taken' = g /\ m.k # g + 1
        BY <1>n, <2>6, <3>1
      <4> QED BY <2>5, <4>1
    <3>2. CASE m.k # 0
      <4>1. Taken' = g + 1
        BY <2>2, <2>4, <2>6, <3>2
      <4> QED BY <2>5, <3>2, <4>1
    <3> QED BY <3>1, <3>2
  <2>8. /\ writer'.pc # "done" /\ (writer'.pc = "write" /\ m.k # 0 => m.k = g + 1)
        /\ writer'.pc = "close" => Len(out') = 0 /\ pump.pc = "done"
    BY <2>2, <2>4, <2>5
  <2> QED BY <1>1, <2>1, <2>2, <2>3, <2>4, <2>7, <2>8 DEF FrameInv, Busy
<1>3. CASE Write
  <2> DEFINE k == writer.msg.k
  <2>1. /\ writer.pc = "write" /\ writer'.pc = "recv" /\ out' = out /\ wire'.close = wire.close
        /\ wire'.got = IF k = 0 THEN wire.got ELSE Append(wire.got, k)
    BY <1>0, <1>3 DEF Write
  <2>2. k \in Nat /\ wire.got \in Seq(Nat)
    BY <1>0 DEF Msgs
  <2>3. OrderedIn(out, Taken, Sent) /\ wire.close = "" /\ (k # 0 => k = g + 1)
    BY <2>1 DEF FrameInv, Busy
  <2>4. Taken = (IF k # 0 THEN g + 1 ELSE g) /\ Taken' = Len(wire'.got) /\ ~Busy'
    BY <2>1 DEF Taken, Busy
  <2> HIDE DEF k
  <2>5. CASE k = 0
    <3>1. wire'.got = wire.got /\ Taken' = Taken
      BY <1>0, <2>1, <2>4, <2>5
    <3> QED BY <1>1, <2>1, <2>3, <2>4, <3>1 DEF FrameInv
  <2>6. CASE k # 0
    <3>a. wire'.got = Append(wire.got, g + 1) /\ g + 1 \in Nat
      <4>1. wire'.got = Append(wire.got, k) /\ k = g + 1
        BY <2>1, <2>3, <2>6
      <4>2. g + 1 \in Nat
        BY <1>n
      <4> QED BY <4>1, <4>2
    <3>1. wire'.got = Append(wire.got, g + 1) /\ wire'.got \in Seq(Nat) /\ Len(wire'.got) = g + 1
      BY <2>2, <3>a, QueueAppend
    <3>2. \A i \in 1..g : wire.got[i] = i
      BY DEF FrameInv, Numbered
    <3>3. Numbered(wire'.got)
      <4>1. wire'.got[g + 1] = g + 1 /\ \A i \in 1..g : wire'.got[i] = wire.got[i]
        BY <2>2, <3>a, QueueAppend
      <4>2. \A i \in 1..g : wire'.got[i] = i
        BY <3>2, <4>1
      <4>3. \A i \in 1..(g + 1) : wire'.got[i] = i
        BY <1>n, <4>1, <4>2
      <4>4. DOMAIN wire'.got = 1..(g + 1)
        BY <3>1
      <4>5. wire'.got = [i \in DOMAIN wire'.got |-> wire'.got[i]]
        BY <3>1
      <4>6. wire'.got = [i \in 1..(g + 1) |-> i]
        BY <4>3, <4>4, <4>5
      <4> QED BY <3>1, <4>6 DEF Numbered
    <3>4. Taken' = Taken /\ Taken' = g + 1
      BY <2>4, <2>6, <3>1
    <3>5. g + 1 <= pump.built
      <4>1. Taken <= Sent
        BY <2>3 DEF OrderedIn
      <4> QED BY <1>n, <3>4, <4>1
    <3> QED BY <1>1, <2>1, <2>3, <2>4, <3>1, <3>3, <3>4, <3>5 DEF FrameInv
  <2> QED BY <2>5, <2>6
<1>4. CASE WriteError
  <2>1. writer.pc = "write" /\ writer'.pc = "done" /\ UNCHANGED <<out, wire>>
    BY <1>0, <1>4 DEF WriteError
  <2> QED BY <1>1, <2>1 DEF FrameInv, Busy
<1>5. CASE CloseSocket
  <2>1. writer.pc = "close" /\ writer'.pc = "done" /\ UNCHANGED out /\ wire'.got = wire.got
    BY <1>0, <1>5 DEF CloseSocket
  <2>2. Len(out) = 0 /\ pump.pc = "done" /\ Len(pump.left) = 0 /\ OrderedIn(out, g, Sent)
    <3>1. Taken = g
      BY <2>1 DEF Taken, Busy
    <3> QED BY <2>1, <3>1 DEF FrameInv
  <2>3. Sent = pump.built
    BY <1>n, <2>2
  <2>4. g = Sent
    <3>1. g <= Sent /\ \A v \in (g + 1)..Sent : \E i \in 1..Len(out) : out[i].k = v
      BY <2>2 DEF OrderedIn
    <3>2. 1..Len(out) = {}
      BY <2>2
    <3>3. ~(g + 1 \in (g + 1)..Sent)
      BY <3>1, <3>2
    <3>4. g <= Sent
      BY <3>1
    <3> QED BY <1>n, <3>3, <3>4
  <2> QED BY <1>1, <2>1, <2>2, <2>3, <2>4 DEF FrameInv, Busy
<1> QED BY <1>2, <1>3, <1>4, <1>5

\* Every step keeps the frames in order, on their way from the actor to the socket.
LEMMA FrameStep == IdInv /\ IdInv' /\ FrameInv /\ [Next]_vars => FrameInv'
<1> SUFFICES ASSUME IdInv, IdInv', FrameInv, [Next]_vars PROVE FrameInv'
  OBVIOUS
<1>1. CASE Hello \/ PumpEvent \/ PumpSend \/ PumpClose
  BY <1>1, FramePump
<1>2. CASE WriterTake \/ Write \/ WriteError \/ CloseSocket
  BY <1>2, FrameWriter
<1>3. CASE ReaderSend
  <2> DEFINE m == DataMsg(0, {})
  <2>1. UNCHANGED <<wire, writer, pump>> /\ Sent' = Sent /\ Taken' = Taken /\ Busy' = Busy /\ pump.pc # "done"
    BY <1>3 DEF ReaderSend, OutClosed, Sent, Taken, Busy
  <2>2. m \in Msgs /\ m.k = 0 /\ m.close = ""
    BY MsgsTyped DEF DataMsg
  <2>3. Send(m)
    BY <1>3 DEF ReaderSend
  <2> HIDE DEF m
  <2>4. out' = Append(out, m) \/ (writer.pc = "done" /\ out' = out)
    BY <2>3 DEF Send, WriterDone
  <2>5. out \in Seq(Msgs) /\ Sent \in Nat /\ Taken \in Nat
    BY FrameTypes
  <2>6. writer.pc # "done" => OrderedIn(out', Taken, Sent)
    BY <2>2, <2>4, <2>5, OrderedAppend DEF FrameInv
  <2>7. ClosesLast(out', pump.pc)
    <3>1. ClosesLast(out, pump.pc)
      BY DEF FrameInv
    <3> QED BY <2>1, <2>2, <2>4, <2>5, <3>1, ClosesAppend
  <2>8. writer.pc # "close"
    BY <2>1 DEF FrameInv
  <2> QED BY <2>1, <2>6, <2>7, <2>8 DEF FrameInv
<1>4. CASE \/ Read \/ Post \/ PostAudioOverflow \/ ReaderSendClosed \/ ReadError \/ Return
           \/ HandleCommand \/ HandleOther \/ Fatal \/ Emit \/ Cleanup \/ CloseEvents
           \/ CancelSession \/ ClientLeaves \/ UNCHANGED vars
  <2>1. UNCHANGED <<wire, writer, pump, out>>
    BY <1>4 DEF vars, Read, Post, PostAudioOverflow, ReaderSendClosed, ReadError, Return, HandleCommand, HandleOther,
                Fatal, ActorStep, Emit, Cleanup, CloseEvents, CancelSession, ClientLeaves
  <2>2. Sent' = Sent /\ Taken' = Taken /\ Busy' = Busy
    BY <2>1 DEF Sent, Taken, Busy
  <2> QED BY <2>1, <2>2 DEF FrameInv
<1> QED BY <1>1, <1>2, <1>3, <1>4 DEF Next, Goroutines, Environment

(* server.go, send, the pump and the writer: for every queue length, traffic    *)
(* and interleaving the client receives the frames the pump built in order and  *)
(* without a gap, the reader's error frames among them, and a client that gets  *)
(* the close frame has received every frame ("frames queued before a close ...  *)
(* must still reach the client").                                               *)
THEOREM FramesReachClientInOrder == Spec => []FramesInOrder
<1>1. Init => FrameInv
  <2> SUFFICES ASSUME Init PROVE FrameInv
    OBVIOUS
  <2> DEFINE none == <<>>
  <2>1. /\ out = none /\ wire.got = none /\ wire.close = "" /\ writer.pc = "recv" /\ pump.pc = "hello"
        /\ pump.left = none /\ pump.built = 0
    BY DEF Init
  <2>2. Len(none) = 0 /\ 1..Len(none) = {} /\ DOMAIN none = {}
    BY EmptyQueue
  <2>3. Numbered(none)
    BY <2>2 DEF Numbered
  <2> HIDE DEF none
  <2>a. Len(pump.left) = 0 /\ Len(wire.got) = 0 /\ pump.built = 0 /\ writer.pc = "recv" /\ 1..Len(out) = {}
    BY <2>1, <2>2
  <2>4. Sent = 0 /\ Taken = 0 /\ ~Busy
    BY <2>a DEF Sent, Taken, Busy
  <2>5. OrderedIn(out, 0, 0) /\ ClosesLast(out, "hello")
    <3>1. \A v \in (0 + 1)..0 : FALSE
      OBVIOUS
    <3>2. ~(\E i \in 1..Len(out) : TRUE) /\ 0 <= 0
      BY <2>a
    <3> QED BY <3>1, <3>2 DEF OrderedIn, ClosesLast
  <2>6. Numbered(wire.got) /\ wire.close = "" /\ pump.pc = "hello"
    BY <2>1, <2>3
  <2>7. Len(wire.got) <= pump.built
    BY <2>a
  <2> QED BY <2>a, <2>4, <2>5, <2>6, <2>7 DEF FrameInv
<1>2. FrameInv => FramesInOrder
  BY DEF FrameInv, FramesInOrder, Numbered
<1> QED BY <1>1, <1>2, FrameStep, ConnectionInvariant, PTL DEF Spec

=============================================================================
