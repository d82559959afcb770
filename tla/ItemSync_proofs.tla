---------------------------- MODULE ItemSync_proofs ----------------------------
(***************************************************************************)
(* Pages and event subscribers follow the store, for every set of pages,   *)
(* clients, items and values.                                              *)
(*                                                                         *)
(* The order of operations matters only between calls that overlap.  Of an *)
(* item outside "raced" at most one call is under way, and the store holds *)
(* what that call put there: whoever is told of it last agrees with the    *)
(* store.                                                                  *)
(***************************************************************************)
EXTENDS ItemSync, TLAPS

-----------------------------------------------------------------------------
(* Operations *)

\* An operation says of the items it touches what they become, and of no others.
LEMMA OpEffect ==
  ASSUME NEW o \in Op, NEW items \in Items
  PROVE  /\ Touched(o) \in SUBSET Id
         /\ o.value \in Value \cup {Absent}
         /\ StoreOp(o, items) \in Items
         /\ ApplyOp(o, items) = StoreOp(o, items)
         /\ \A i \in Id : StoreOp(o, items)[i] = IF i \in Touched(o) THEN o.value ELSE items[i]
<1>1. CASE o.op = "clear"
  <2>1. o.value = Absent
    BY <1>1 DEF Op
  <2>2. StoreOp(o, items) = NoItems /\ ApplyOp(o, items) = NoItems /\ Touched(o) = Id
    BY <1>1 DEF StoreOp, ApplyOp, Touched
  <2> QED
    BY <2>1, <2>2 DEF NoItems, Items
<1>2. CASE o.op # "clear"
  <2>1. /\ o.id \in Id /\ o.value \in Value \cup {Absent}
        /\ o.op = "delete" => o.value = Absent
    BY <1>2 DEF Op
  <2>2. /\ Touched(o) = {o.id}
        /\ ApplyOp(o, items) = [items EXCEPT ![o.id] = o.value]
    BY <1>2 DEF ApplyOp, Touched
  <2>3. StoreOp(o, items) = [items EXCEPT ![o.id] = o.value]
    BY <1>2, <2>1 DEF StoreOp
  <2> QED
    BY <2>1, <2>2, <2>3 DEF Items
<1> QED
  BY <1>1, <1>2

-----------------------------------------------------------------------------
(* What a page will show *)

\* Once page p has handled its messages it shows v for item i.
Holds(p, i, v) ==
  /\ \A k \in 1 .. Len(mailbox[p]) : LastOn(p, i, k) => mailbox[p][k].value = v
  /\ (\A k \in 1 .. Len(mailbox[p]) : i \notin Touched(mailbox[p][k])) => shown[p][i] = v

\* Handling a message changes nothing of that.
LEMMA HoldsHandled ==
  ASSUME ItemsTypeOK, NEW p \in Page, HandleInfo(p), NEW q \in Page, NEW i \in Id, NEW v,
         Holds(q, i, v)
  PROVE  Holds(q, i, v)'
<1>1. CASE q # p
  <2>1. mailbox'[q] = mailbox[q] /\ shown'[q] = shown[q]
    BY <1>1 DEF HandleInfo, NextRender, ItemsTypeOK
  <2> QED
    BY <2>1 DEF Holds, LastOn
<1>2. CASE q = p
  <2> DEFINE s == mailbox[p]  t == mailbox'[p]  o == Head(s)
  <2>1. /\ s \in Seq(Op) /\ s # <<>> /\ t = Tail(s) /\ o \in Op
        /\ shown[p] \in Items /\ shown'[p] = ApplyOp(o, shown[p])
    BY DEF HandleInfo, NextRender, ItemsTypeOK
  <2>2. /\ Len(s) \in Nat /\ Len(s) > 0 /\ Len(t) = Len(s) - 1 /\ s[1] = o
        /\ \A k \in 1 .. Len(t) : t[k] = s[k + 1]
    BY <2>1
  <2>3. shown'[p][i] = IF i \in Touched(o) THEN o.value ELSE shown[p][i]
    BY <2>1, OpEffect
  <2> HIDE DEF s, t, o
  <2>4. ASSUME NEW k \in 1 .. Len(t), i \in Touched(t[k]),
               \A l \in (k + 1) .. Len(t) : i \notin Touched(t[l])
        PROVE  t[k].value = v
    <3>1. k + 1 \in 1 .. Len(s) /\ s[k + 1] = t[k]
      BY <2>2
    <3>2. ASSUME NEW l \in (k + 1 + 1) .. Len(s) PROVE i \notin Touched(s[l])
      <4>1. l - 1 \in (k + 1) .. Len(t) /\ l - 1 \in 1 .. Len(t) /\ (l - 1) + 1 = l
        BY <2>2
      <4> QED
        BY <4>1, <2>2, <2>4
    <3>3. LastOn(p, i, k + 1)
      BY <3>1, <3>2, <2>4 DEF LastOn, s
    <3> QED
      BY <3>1, <3>3, <1>2 DEF Holds, s
  <2>5. ASSUME \A k \in 1 .. Len(t) : i \notin Touched(t[k])
        PROVE  shown'[p][i] = v
    <3>1. \A k \in 2 .. Len(s) : i \notin Touched(s[k])
      <4> SUFFICES ASSUME NEW k \in 2 .. Len(s) PROVE i \notin Touched(s[k])
        OBVIOUS
      <4>1. k - 1 \in 1 .. Len(t) /\ (k - 1) + 1 = k
        BY <2>2
      <4> QED
        BY <4>1, <2>2, <2>5
    <3>2. CASE i \in Touched(o)
      <4>1. LastOn(p, i, 1) /\ 1 \in 1 .. Len(s)
        BY <3>1, <3>2, <2>2 DEF LastOn, s
      <4> QED
        BY <4>1, <3>2, <2>2, <2>3, <1>2 DEF Holds, s
    <3>3. CASE i \notin Touched(o)
      <4>1. \A k \in 1 .. Len(s) : i \notin Touched(s[k])
        BY <3>1, <3>3, <2>2
      <4> QED
        BY <4>1, <3>3, <2>3, <1>2 DEF Holds, s
    <3> QED
      BY <3>2, <3>3
  <2> QED
    BY <2>4, <2>5, <1>2 DEF Holds, LastOn, t
<1> QED
  BY <1>1, <1>2

\* A message that arrives decides for the items it touches, and for no others.
LEMMA HoldsSent ==
  ASSUME NEW p \in Page, mailbox[p] \in Seq(Op), NEW o \in Op,
         mailbox'[p] = Append(mailbox[p], o), shown'[p] = shown[p],
         NEW i \in Id, NEW v,
         IF i \in Touched(o) THEN v = o.value ELSE Holds(p, i, v)
  PROVE  Holds(p, i, v)'
<1> DEFINE s == mailbox[p]  t == mailbox'[p]
<1>1. /\ Len(s) \in Nat /\ Len(t) = Len(s) + 1 /\ t[Len(s) + 1] = o
      /\ \A k \in 1 .. Len(s) : t[k] = s[k]
  OBVIOUS
<1> HIDE DEF s, t
<1>2. CASE i \in Touched(o)
  <2>1. \A k \in 1 .. Len(t) :
          LastOn(p, i, k)' => k = Len(t)
    BY <1>1, <1>2 DEF LastOn, t
  <2>2. t[Len(t)].value = v /\ ~(\A k \in 1 .. Len(t) : i \notin Touched(t[k]))
    BY <1>1, <1>2
  <2> QED
    BY <2>1, <2>2 DEF Holds, t
<1>3. CASE i \notin Touched(o)
  <2>1. ASSUME NEW k \in 1 .. Len(t), LastOn(p, i, k)' PROVE t[k].value = v
    <3>1. k \in 1 .. Len(s)
      BY <1>1, <1>3, <2>1 DEF LastOn, t
    <3>2. LastOn(p, i, k)
      BY <1>1, <2>1, <3>1 DEF LastOn, s, t
    <3> QED
      BY <1>1, <1>3, <3>1, <3>2 DEF Holds, s
  <2>2. ASSUME \A k \in 1 .. Len(t) : i \notin Touched(t[k]) PROVE shown'[p][i] = v
    <3>1. \A k \in 1 .. Len(s) : i \notin Touched(s[k])
      BY <1>1, <2>2
    <3> QED
      BY <1>3, <3>1 DEF Holds, s
  <2> QED
    BY <2>1, <2>2 DEF Holds, t
<1> QED
  BY <1>2, <1>3

-----------------------------------------------------------------------------
(* The invariant *)

Here(p) == phase[p] \in {"mounting", "open"}

\* Of an item outside "raced" at most one call is under way, and the store holds
\* what it put there.
CallsApart ==
  \A c \in Caller : call[c] # NoCall =>
    \A i \in Touched(call[c].op) \ raced :
      /\ store[i] = call[c].op.value
      /\ \A d \in Caller \ {c} : call[d] # NoCall => i \notin Touched(call[d].op)

\* A page that is not there gets nothing.
GoneIsEmpty == \A p \in Page : ~Here(p) => topics[p] = {} /\ mailbox[p] = <<>>

\* PagesFollowStore, item by item.
PagesHold ==
  \A p \in Page : Here(p) => \A i \in Id \ (raced \cup behind[p]) : Holds(p, i, store[i])

ItemsInv == ItemsTypeOK /\ CallsApart /\ GoneIsEmpty /\ EventsFollowStore /\ PagesHold

LEMMA ItemsInitInv == ItemsInit => ItemsInv
<1> SUFFICES ASSUME ItemsInit PROVE ItemsInv
  OBVIOUS
<1> USE ItemAssumption DEF ItemsInit
<1>1. ItemsTypeOK
  <2>1. <<>> \in Seq(Op)
    OBVIOUS
  <2>2. mailbox \in [Page -> Seq(Op)]
    BY <2>1
  <2>3. NoItems \in Items
    BY DEF NoItems, Items
  <2> QED
    BY <2>2, <2>3 DEF ItemsTypeOK
<1>2. CallsApart /\ GoneIsEmpty /\ EventsFollowStore /\ PagesHold
  BY DEF CallsApart, GoneIsEmpty, EventsFollowStore, PagesHold, Here, NoItems
<1> QED
  BY <1>1, <1>2 DEF ItemsInv

LEMMA MountInv ==
  ASSUME ItemsInv, NEW p \in Page, Mount(p) PROVE ItemsInv'
<1>1. /\ ItemsTypeOK /\ phase[p] = "new" /\ mailbox[p] = <<>> /\ topics[p] = {}
      /\ phase' = [phase EXCEPT ![p] = "mounting"]
      /\ shown' = [shown EXCEPT ![p] = store]
      /\ behind' = [behind EXCEPT ![p] = {}]
      /\ UNCHANGED <<store, topics, mailbox, call, mirror, raced, calls>>
  BY DEF ItemsInv, GoneIsEmpty, Here, Mount, FirstRender
<1>2. ItemsTypeOK'
  BY <1>1 DEF ItemsTypeOK
<1>3. CallsApart' /\ EventsFollowStore'
  BY <1>1 DEF ItemsInv, CallsApart, EventsFollowStore
<1>4. GoneIsEmpty'
  BY <1>1 DEF ItemsInv, GoneIsEmpty, Here, ItemsTypeOK
<1>5. PagesHold'
  <2> SUFFICES ASSUME NEW q \in Page, Here(q)', NEW i \in Id \ (raced' \cup behind'[q])
               PROVE  Holds(q, i, store[i])'
    BY <1>1 DEF PagesHold
  <2>1. CASE q = p
    <3>1. Len(mailbox'[q]) = 0 /\ shown'[q] = store
      BY <2>1, <1>1 DEF ItemsTypeOK
    <3> QED
      BY <3>1, <1>1 DEF Holds
  <2>2. CASE q # p
    <3>1. Here(q) /\ i \in Id \ (raced \cup behind[q]) /\ shown'[q] = shown[q]
      BY <2>2, <1>1 DEF Here, ItemsTypeOK
    <3>2. Holds(q, i, store[i])
      BY <3>1 DEF ItemsInv, PagesHold
    <3> QED
      BY <3>1, <3>2, <1>1 DEF Holds, LastOn
  <2> QED
    BY <2>1, <2>2
<1> QED
  BY <1>2, <1>3, <1>4, <1>5 DEF ItemsInv

LEMMA ConnectInv ==
  ASSUME ItemsInv, NEW p \in Page, NEW t \in Topic, Connect(p, t) PROVE ItemsInv'
<1>1. /\ ItemsTypeOK /\ phase[p] = "mounting"
      /\ topics' = [topics EXCEPT ![p] = topics[p] \cup {t}]
      /\ \A q \in Page : Here(q)' <=> Here(q)
      /\ phase' \in [Page -> {"new", "mounting", "open", "closed"}]
      /\ UNCHANGED <<store, mailbox, shown, call, mirror, raced, behind, calls>>
  BY DEF ItemsInv, Connect, Here, ItemsTypeOK
<1>2. ItemsTypeOK'
  BY <1>1 DEF ItemsTypeOK
<1>3. CallsApart' /\ EventsFollowStore'
  BY <1>1 DEF ItemsInv, CallsApart, EventsFollowStore
<1>4. GoneIsEmpty'
  BY <1>1 DEF ItemsInv, GoneIsEmpty, Here, ItemsTypeOK
<1>5. PagesHold'
  BY <1>1 DEF ItemsInv, PagesHold, Holds, LastOn
<1> QED
  BY <1>2, <1>3, <1>4, <1>5 DEF ItemsInv

LEMMA HandleInfoInv ==
  ASSUME ItemsInv, NEW p \in Page, HandleInfo(p) PROVE ItemsInv'
<1>1. /\ ItemsTypeOK /\ phase[p] = "open" /\ mailbox[p] # <<>>
      /\ mailbox' = [mailbox EXCEPT ![p] = Tail(mailbox[p])]
      /\ shown' = [shown EXCEPT ![p] = ApplyOp(Head(mailbox[p]), shown[p])]
      /\ UNCHANGED <<store, phase, topics, call, mirror, raced, behind, calls>>
  BY DEF ItemsInv, HandleInfo, NextRender, ItemsTypeOK
<1>2. ItemsTypeOK'
  <2>1. Tail(mailbox[p]) \in Seq(Op) /\ Head(mailbox[p]) \in Op /\ shown[p] \in Items
    BY <1>1 DEF ItemsTypeOK
  <2>2. ApplyOp(Head(mailbox[p]), shown[p]) \in Items
    BY <2>1, OpEffect
  <2> QED
    BY <1>1, <2>1, <2>2 DEF ItemsTypeOK
<1>3. CallsApart' /\ EventsFollowStore'
  BY <1>1 DEF ItemsInv, CallsApart, EventsFollowStore
<1>4. GoneIsEmpty'
  BY <1>1 DEF ItemsInv, GoneIsEmpty, Here, ItemsTypeOK
<1>5. PagesHold'
  <2> SUFFICES ASSUME NEW q \in Page, Here(q), NEW i \in Id \ (raced \cup behind[q])
               PROVE  Holds(q, i, store[i])'
    BY <1>1 DEF PagesHold, Here
  <2>1. Holds(q, i, store[i])
    BY DEF ItemsInv, PagesHold
  <2> DEFINE v == store[i]
  <2>2. Holds(q, i, v) /\ v' = v
    BY <2>1, <1>1
  <2> HIDE DEF v
  <2>3. \A w : Holds(q, i, w) => Holds(q, i, w)'
    BY <1>1, HoldsHandled
  <2> QED
    BY <2>2, <2>3 DEF v
<1> QED
  BY <1>2, <1>3, <1>4, <1>5 DEF ItemsInv

LEMMA LeaveInv ==
  ASSUME ItemsInv, NEW p \in Page, Leave(p) PROVE ItemsInv'
<1>1. /\ ItemsTypeOK
      /\ phase' = [phase EXCEPT ![p] = "closed"]
      /\ topics' = [topics EXCEPT ![p] = {}]
      /\ mailbox' = [mailbox EXCEPT ![p] = <<>>]
      /\ shown' = [shown EXCEPT ![p] = NoItems]
      /\ behind' = [behind EXCEPT ![p] = {}]
      /\ UNCHANGED <<store, call, mirror, raced, calls>>
  BY DEF ItemsInv, Leave
<1>2. ItemsTypeOK'
  BY <1>1 DEF ItemsTypeOK, NoItems, Items
<1>3. CallsApart' /\ EventsFollowStore'
  BY <1>1 DEF ItemsInv, CallsApart, EventsFollowStore
<1>4. GoneIsEmpty'
  BY <1>1 DEF ItemsInv, GoneIsEmpty, Here, ItemsTypeOK
<1>5. PagesHold'
  <2> SUFFICES ASSUME NEW q \in Page, Here(q)', NEW i \in Id \ (raced' \cup behind'[q])
               PROVE  Holds(q, i, store[i])'
    BY <1>1 DEF PagesHold
  <2>1. /\ q # p /\ Here(q) /\ i \in Id \ (raced \cup behind[q])
        /\ shown'[q] = shown[q] /\ mailbox'[q] = mailbox[q]
    BY <1>1 DEF Here, ItemsTypeOK
  <2>2. Holds(q, i, store[i])
    BY <2>1 DEF ItemsInv, PagesHold
  <2> QED
    BY <2>1, <2>2, <1>1 DEF Holds, LastOn
<1> QED
  BY <1>2, <1>3, <1>4, <1>5 DEF ItemsInv

\* An operation is stored: the call owns the items it touches, unless another
\* call is about one of them.
LEMMA StoreItemInv ==
  ASSUME ItemsInv, NEW c \in Caller, NEW o \in Op, StoreItem(c, o) PROVE ItemsInv'
<1> USE ItemAssumption, NoCallAssumption
<1> DEFINE n == [op |-> o, done |-> "stored"]
<1>1. /\ ItemsTypeOK /\ call[c] = NoCall /\ calls < MaxCalls
      /\ call' = [call EXCEPT ![c] = n]
      /\ calls' = calls + 1
      /\ store' = StoreOp(o, store)
      /\ raced' = (raced \ Touched(o)) \cup (Touched(o) \cap UnderWay(c))
      /\ behind' = [p \in Page |-> IF Here(p) THEN behind[p] \cup Touched(o) ELSE behind[p]]
      /\ UNCHANGED <<phase, topics, mailbox, shown, mirror>>
  BY DEF ItemsInv, StoreItem, Here, pageItems
<1>2. /\ store \in Items /\ store' \in Items
      /\ Touched(o) \in SUBSET Id
      /\ \A i \in Id : store'[i] = IF i \in Touched(o) THEN o.value ELSE store[i]
  BY <1>1, OpEffect DEF ItemsTypeOK
<1>3. \A i \in Id : i \in UnderWay(c) <=>
        \E d \in Caller \ {c} : call[d] # NoCall /\ i \in Touched(call[d].op)
  BY DEF UnderWay
<1>4. /\ n \in Call /\ n # NoCall /\ n.op = o
      /\ call'[c] = n /\ \A d \in Caller \ {c} : call'[d] = call[d]
  BY <1>1 DEF Call, ItemsTypeOK
<1>5. \A d \in Caller : call[d] # NoCall => call[d].op \in Op /\ Touched(call[d].op) \in SUBSET Id
  <2> SUFFICES ASSUME NEW d \in Caller, call[d] # NoCall
               PROVE  call[d].op \in Op /\ Touched(call[d].op) \in SUBSET Id
    OBVIOUS
  <2>1. call[d].op \in Op
    BY <1>1 DEF ItemsTypeOK, Call
  <2> QED
    BY <2>1, <1>2, OpEffect
<1> HIDE DEF n
<1>6. ItemsTypeOK'
  <2>1. call' \in [Caller -> Call \cup {NoCall}]
    BY <1>1, <1>4 DEF ItemsTypeOK
  <2>2. raced' \in SUBSET Id
    BY <1>1, <1>2 DEF ItemsTypeOK
  <2>3. behind' \in [Page -> SUBSET Id]
    BY <1>1, <1>2 DEF ItemsTypeOK
  <2>4. calls' \in 0 .. MaxCalls
    BY <1>1 DEF ItemsTypeOK
  <2> QED
    BY <1>1, <1>2, <2>1, <2>2, <2>3, <2>4 DEF ItemsTypeOK
<1>7. CallsApart'
  <2>1. ASSUME NEW d \in Caller, call'[d] # NoCall, NEW i \in Touched(call'[d].op) \ raced'
        PROVE  /\ store'[i] = call'[d].op.value
               /\ \A e \in Caller \ {d} : call'[e] # NoCall => i \notin Touched(call'[e].op)
    <3>1. CASE d = c
      <4>1. i \in Touched(o) /\ i \in Id /\ i \notin UnderWay(c)
        BY <2>1, <3>1, <1>1, <1>2, <1>4
      <4> QED
        BY <3>1, <4>1, <1>2, <1>3, <1>4
    <3>2. CASE d # c
      <4>1. call'[d] = call[d] /\ i \in Touched(call[d].op) /\ i \in Id
        BY <3>2, <2>1, <1>4, <1>5
      <4>2. i \in UnderWay(c)
        BY <3>2, <2>1, <4>1, <1>3
      <4>3. i \notin Touched(o) /\ i \notin raced
        BY <4>2, <2>1, <1>1
      <4>4. store[i] = call[d].op.value
        BY <4>1, <4>3, <2>1 DEF ItemsInv, CallsApart
      <4>5. \A e \in Caller \ {d} : call[e] # NoCall => i \notin Touched(call[e].op)
        BY <4>1, <4>3, <2>1 DEF ItemsInv, CallsApart
      <4> QED
        BY <4>1, <4>3, <4>4, <4>5, <1>2, <1>4
    <3> QED
      BY <3>1, <3>2
  <2> QED
    BY <2>1 DEF CallsApart
<1>8. GoneIsEmpty'
  BY <1>1 DEF ItemsInv, GoneIsEmpty, Here
<1>9. EventsFollowStore'
  <2> SUFFICES ASSUME NEW i \in Id, i \notin raced',
                      \A d \in Caller : call'[d] # NoCall => i \notin Touched(call'[d].op)
               PROVE  mirror'[i] = store'[i]
    BY DEF EventsFollowStore
  <2>1. i \notin Touched(o)
    BY <1>4
  <2>2. i \notin raced
    BY <2>1, <1>1
  <2>3. \A d \in Caller : call[d] # NoCall => i \notin Touched(call[d].op)
    BY <1>1, <1>4
  <2>4. mirror[i] = store[i]
    BY <2>2, <2>3 DEF ItemsInv, EventsFollowStore
  <2> QED
    BY <2>1, <2>4, <1>1, <1>2
<1>10. PagesHold'
  <2> SUFFICES ASSUME NEW p \in Page, Here(p)', NEW i \in Id \ (raced' \cup behind'[p])
               PROVE  Holds(p, i, store[i])'
    BY DEF PagesHold
  <2>1. Here(p) /\ i \notin Touched(o) /\ i \notin behind[p]
    BY <1>1 DEF Here
  <2>2. i \notin raced /\ store'[i] = store[i]
    BY <2>1, <1>1, <1>2
  <2>3. Holds(p, i, store[i])
    BY <2>1, <2>2 DEF ItemsInv, PagesHold
  <2> QED
    BY <2>2, <2>3, <1>1 DEF Holds, LastOn
<1> QED
  BY <1>6, <1>7, <1>8, <1>9, <1>10 DEF ItemsInv

LEMMA SendToTopicInv ==
  ASSUME ItemsInv, NEW c \in Caller, SendToTopic(c) PROVE ItemsInv'
<1> USE NoCallAssumption
<1> DEFINE o == call[c].op
<1>1. /\ ItemsTypeOK /\ call[c] # NoCall
      /\ mailbox' = [p \in Page |-> IF p \in Recipients(o) THEN Append(mailbox[p], o) ELSE mailbox[p]]
      /\ behind' = [p \in Page |-> IF p \in Recipients(o) THEN behind[p] \ Touched(o) ELSE behind[p]]
      /\ call' = [call EXCEPT ![c].done = "sent"]
      /\ UNCHANGED <<store, phase, topics, shown, mirror, raced, calls>>
  BY DEF ItemsInv, SendToTopic
<1>2. call[c] \in Call /\ o \in Op
  BY <1>1 DEF ItemsTypeOK, Call
<1>3. /\ call' \in [Caller -> Call \cup {NoCall}]
      /\ \A d \in Caller : /\ call'[d] = NoCall <=> call[d] = NoCall
                           /\ call[d] # NoCall => call'[d].op = call[d].op
  <2> DEFINE n == [call[c] EXCEPT !.done = "sent"]
  <2>1. n \in Call /\ n.op = o
    BY <1>2 DEF Call
  <2>2. call' = [call EXCEPT ![c] = n]
    BY <1>1
  <2>3. n # NoCall
    BY <2>1
  <2> HIDE DEF n
  <2> QED
    BY <2>1, <2>2, <2>3, <1>1 DEF ItemsTypeOK
<1> HIDE DEF o
<1>4. ItemsTypeOK'
  <2>1. mailbox' \in [Page -> Seq(Op)]
    BY <1>1, <1>2 DEF ItemsTypeOK
  <2>2. behind' \in [Page -> SUBSET Id]
    BY <1>1 DEF ItemsTypeOK
  <2> QED
    BY <1>1, <1>3, <2>1, <2>2 DEF ItemsTypeOK
<1>5. CallsApart'
  BY <1>1, <1>3 DEF ItemsInv, CallsApart
<1>6. GoneIsEmpty'
  <2>1. \A p \in Page : topics[p] = {} => p \notin Recipients(o)
    BY DEF Recipients
  <2> QED
    BY <1>1, <2>1 DEF ItemsInv, GoneIsEmpty, Here
<1>7. EventsFollowStore'
  BY <1>1, <1>3 DEF ItemsInv, EventsFollowStore
<1>8. PagesHold'
  <2> SUFFICES ASSUME NEW p \in Page, Here(p), NEW i \in Id \ (raced \cup behind'[p])
               PROVE  Holds(p, i, store[i])'
    BY <1>1 DEF PagesHold, Here
  <2> DEFINE v == store[i]
  <2>0. v' = v /\ shown'[p] = shown[p]
    BY <1>1
  <2>1. CASE p \in Recipients(o)
    <3>1. i \notin Touched(o) => Holds(p, i, v)
      BY <2>1, <1>1 DEF ItemsInv, PagesHold
    <3>2. i \in Touched(o) => v = o.value
      BY <1>1 DEF ItemsInv, CallsApart, o
    <3>3. mailbox[p] \in Seq(Op) /\ mailbox'[p] = Append(mailbox[p], o)
      BY <2>1, <1>1 DEF ItemsTypeOK
    <3> HIDE DEF v
    <3>4. \A w : (IF i \in Touched(o) THEN w = o.value ELSE Holds(p, i, w)) => Holds(p, i, w)'
      BY <3>3, <1>2, <2>0, HoldsSent
    <3>5. IF i \in Touched(o) THEN v = o.value ELSE Holds(p, i, v)
      BY <3>1, <3>2
    <3> QED
      BY <3>4, <3>5, <2>0 DEF v
  <2>2. CASE p \notin Recipients(o)
    <3>1. Holds(p, i, store[i]) /\ mailbox'[p] = mailbox[p]
      BY <2>2, <1>1 DEF ItemsInv, PagesHold
    <3> QED
      BY <3>1, <2>0 DEF Holds, LastOn
  <2> QED
    BY <2>1, <2>2
<1> QED
  BY <1>4, <1>5, <1>6, <1>7, <1>8 DEF ItemsInv

LEMMA AnnounceInv ==
  ASSUME ItemsInv, NEW c \in Caller, Announce(c) PROVE ItemsInv'
<1> USE NoCallAssumption
<1> DEFINE o == call[c].op
<1>1. /\ ItemsTypeOK /\ call[c] # NoCall
      /\ mirror' = StoreOp(o, mirror)
      /\ call' = [call EXCEPT ![c] = NoCall]
      /\ UNCHANGED <<store, phase, topics, mailbox, shown, raced, behind, calls>>
  BY DEF ItemsInv, Announce, pageItems
<1>2. o \in Op /\ mirror \in Items
  BY <1>1 DEF ItemsTypeOK, Call
<1>3. /\ mirror' \in Items
      /\ \A i \in Id : mirror'[i] = IF i \in Touched(o) THEN o.value ELSE mirror[i]
  BY <1>1, <1>2, OpEffect
<1>4. call'[c] = NoCall /\ \A d \in Caller \ {c} : call'[d] = call[d]
  BY <1>1 DEF ItemsTypeOK
<1>5. ItemsTypeOK'
  BY <1>1, <1>3 DEF ItemsTypeOK
<1>6. CallsApart'
  BY <1>1, <1>4 DEF ItemsInv, CallsApart
<1>7. GoneIsEmpty'
  BY <1>1 DEF ItemsInv, GoneIsEmpty, Here
<1>8. EventsFollowStore'
  <2> SUFFICES ASSUME NEW i \in Id, i \notin raced,
                      \A d \in Caller : call'[d] # NoCall => i \notin Touched(call'[d].op)
               PROVE  mirror'[i] = store[i]
    BY <1>1 DEF EventsFollowStore
  <2>1. CASE i \in Touched(o)
    BY <2>1, <1>1, <1>3 DEF ItemsInv, CallsApart
  <2>2. CASE i \notin Touched(o)
    <3>1. \A d \in Caller : call[d] # NoCall => i \notin Touched(call[d].op)
      BY <2>2, <1>4
    <3> QED
      BY <2>2, <3>1, <1>3 DEF ItemsInv, EventsFollowStore
  <2> QED
    BY <2>1, <2>2
<1>9. PagesHold'
  BY <1>1 DEF ItemsInv, PagesHold, Here, Holds, LastOn
<1> QED
  BY <1>5, <1>6, <1>7, <1>8, <1>9 DEF ItemsInv

-----------------------------------------------------------------------------
(* Theorems *)

\* Every call of the API stores one operation.
LEMMA CallsStore ==
  ASSUME NEW c \in Caller, NEW cid \in Cid,
         \/ \E i \in Id, v \in Value : Add(c, i, v, cid) \/ Update(c, i, v, cid)
         \/ \E i \in Id : Delete(c, i, cid)
         \/ Clear(c, cid)
  PROVE  \E o \in Op : StoreItem(c, o)
<1>1. ASSUME NEW i \in Id, NEW v \in Value, Add(c, i, v, cid) PROVE \E o \in Op : StoreItem(c, o)
  <2>1. [op |-> "add", id |-> i, value |-> v, cid |-> cid] \in Op
    BY DEF Op
  <2> QED
    BY <1>1, <2>1 DEF Add
<1>2. ASSUME NEW i \in Id, NEW v \in Value, Update(c, i, v, cid) PROVE \E o \in Op : StoreItem(c, o)
  <2>1. [op |-> "update", id |-> i, value |-> v, cid |-> cid] \in Op
    BY DEF Op
  <2> QED
    BY <1>2, <2>1 DEF Update
<1>3. ASSUME NEW i \in Id, Delete(c, i, cid) PROVE \E o \in Op : StoreItem(c, o)
  <2>1. [op |-> "delete", id |-> i, value |-> Absent, cid |-> cid] \in Op
    BY DEF Op
  <2> QED
    BY <1>3, <2>1 DEF Delete
<1>4. CASE Clear(c, cid)
  <2>1. [op |-> "clear", value |-> Absent, cid |-> cid] \in Op
    BY DEF Op
  <2> QED
    BY <1>4, <2>1 DEF Clear
<1> QED
  BY <1>1, <1>2, <1>3, <1>4

LEMMA ItemsStepInv == ItemsInv /\ [ItemsNext]_itemVars => ItemsInv'
<1> SUFFICES ASSUME ItemsInv, [ItemsNext]_itemVars PROVE ItemsInv'
  OBVIOUS
<1>1. ASSUME NEW p \in Page, PageStep(p) PROVE ItemsInv'
  BY <1>1, MountInv, ConnectInv, HandleInfoInv, LeaveInv DEF PageStep
<1>2. ASSUME NEW c \in Caller, Proceed(c) PROVE ItemsInv'
  BY <1>2, SendToTopicInv, AnnounceInv DEF Proceed
<1>3. ASSUME NEW c \in Caller, NEW o \in Op, StoreItem(c, o) PROVE ItemsInv'
  BY <1>3, StoreItemInv
<1>4. CASE UNCHANGED itemVars
  <2>1. UNCHANGED <<store, phase, topics, mailbox, shown, call, mirror, raced, behind, calls>>
    BY <1>4 DEF itemVars, pageItems
  <2>2. ItemsTypeOK' /\ CallsApart' /\ GoneIsEmpty' /\ EventsFollowStore'
    BY <2>1 DEF ItemsInv, ItemsTypeOK, CallsApart, GoneIsEmpty, EventsFollowStore, Here
  <2>3. PagesHold'
    BY <2>1 DEF ItemsInv, PagesHold, Here, Holds, LastOn
  <2> QED
    BY <2>2, <2>3 DEF ItemsInv
<1> QED
  BY <1>1, <1>2, <1>3, <1>4, CallsStore DEF ItemsNext

LEMMA ItemsInvariance == ItemsSpec => []ItemsInv
<1> QED
  BY ItemsInitInv, ItemsStepInv, PTL DEF ItemsSpec

\* ItemSync's variables keep their types.
THEOREM ItemsTypes == ItemsSpec => []ItemsTypeOK
<1>1. ItemsInv => ItemsTypeOK
  BY DEF ItemsInv
<1> QED
  BY <1>1, ItemsInvariance, PTL

\* Whatever the interleaving of calls, fan-outs, subscriptions and pages' steps, a
\* page that has handled its messages shows what the store holds, but for items
\* it was not sent and items whose calls overlapped.
THEOREM PagesFollowStoreTheorem == ItemsSpec => []PagesFollowStore
<1>1. ItemsInv => PagesFollowStore
  BY DEF ItemsInv, PagesHold, Here, Holds, PagesFollowStore
<1> QED
  BY <1>1, ItemsInvariance, PTL

\* A subscriber that replays the events holds what the store holds, but for items
\* under way and items whose calls overlapped.
THEOREM EventsFollowStoreTheorem == ItemsSpec => []EventsFollowStore
<1>1. ItemsInv => EventsFollowStore
  BY DEF ItemsInv
<1> QED
  BY <1>1, ItemsInvariance, PTL

=============================================================================
