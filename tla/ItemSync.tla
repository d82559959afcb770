------------------------------ MODULE ItemSync ------------------------------
(***************************************************************************)
(* How the pages of one channel come to show the items of the channel      *)
(* (packages/bff_engine: shared/item_store.py, dynamic_map and             *)
(* dynamic_list with their api/ handlers and drivers).                     *)
(*                                                                         *)
(* Markers, polylines and list items live in three stores and travel on    *)
(* three topics by the same protocol; here they are the items of one store *)
(* (lists alone have "clear").  A handler such as markers.add stores the   *)
(* item, awaits the fan-out of the operation to the pages subscribed to    *)
(* the topic, and then tells the event subscribers.  A page takes a        *)
(* snapshot of the store when its driver is built, subscribes to two       *)
(* topics, one await each, and applies what arrives in order.              *)
(*                                                                         *)
(* The pub/sub hub and LiveView are external: a page's messages queue up   *)
(* in order and are handled one at a time.                                 *)
(***************************************************************************)
EXTENDS Naturals, Sequences

CONSTANTS
  Page,      \* page instances: the cid of a driver
  Caller,    \* clients with a call under way
  Id,        \* item ids
  Value,     \* what an item holds (position, icon, label, ...)
  Absent,    \* no such item
  Cid,       \* the cids clients use
  Everyone,  \* the cid "*"
  NoCall,    \* the client is making no call
  MaxCalls   \* bound on the calls made

ASSUME ItemAssumption ==
  /\ Absent \notin Value
  /\ Everyone \notin Page
  /\ Page \cup {Everyone} \subseteq Cid
  /\ MaxCalls \in Nat

Items == [Id -> Value \cup {Absent}]

\* The operation as it travels; only add and update carry an item.
Op == [op : {"add", "update"}, id : Id, value : Value, cid : Cid]
        \cup [op : {"delete"}, id : Id, value : {Absent}, cid : Cid]
        \cup [op : {"clear"}, value : {Absent}, cid : Cid]

Call == [op : Op, done : {"stored", "sent"}]

ASSUME NoCallAssumption == NoCall \notin Call

VARIABLES
  store,     \* ItemStore._items of the channel
  phase,     \* the page's life
  topics,    \* topics the page has subscribed to
  mailbox,   \* messages the page has not handled
  shown,     \* items in the page's stream
  call,      \* what each client's call has done so far
  mirror,    \* items of a subscriber that replays every event
  raced,     \* ids whose last operations overlapped: the order in which pages
             \* learn of them is open
  behind,    \* ids whose last operation a page has not been sent
  calls      \* calls begun

pageItems == <<phase, topics, mailbox, shown>>
itemVars == <<store, pageItems, call, mirror, raced, behind, calls>>

Topic == {"channel", "own"}

ItemsTypeOK ==
  /\ store \in Items
  /\ phase \in [Page -> {"new", "mounting", "open", "closed"}]
  /\ topics \in [Page -> SUBSET Topic]
  /\ mailbox \in [Page -> Seq(Op)]
  /\ shown \in [Page -> Items]
  /\ call \in [Caller -> Call \cup {NoCall}]
  /\ mirror \in Items
  /\ raced \in SUBSET Id
  /\ behind \in [Page -> SUBSET Id]
  /\ calls \in 0 .. MaxCalls

NoItems == [i \in Id |-> Absent]

ItemsInit ==
  /\ store = NoItems
  /\ phase = [p \in Page |-> "new"]
  /\ topics = [p \in Page |-> {}]
  /\ mailbox = [p \in Page |-> <<>>]
  /\ shown = [p \in Page |-> NoItems]
  /\ call = [c \in Caller |-> NoCall]
  /\ mirror = NoItems
  /\ raced = {}
  /\ behind = [p \in Page |-> {}]
  /\ calls = 0

\* Operators named ...Bug are slips that would be easy to make in the operator
\* they precede; no specification uses them (README, "Mutants").

Touched(o) == IF o.op = "clear" THEN Id ELSE {o.id}

-----------------------------------------------------------------------------
(* A page *)

\* The component's streams begin with the driver's snapshot.
FirstRender(p) == [shown EXCEPT ![p] = store]

\* mount, up to the construction of the driver
Mount(p) ==
  /\ phase[p] = "new"
  /\ phase' = [phase EXCEPT ![p] = "mounting"]
  /\ shown' = FirstRender(p)
  /\ behind' = [behind EXCEPT ![p] = {}]
  /\ UNCHANGED <<store, topics, mailbox, call, mirror, raced, calls>>

\* One socket.subscribe of connect, in the order in which a set is traversed.
Connect(p, t) ==
  /\ phase[p] = "mounting"
  /\ t \notin topics[p]
  /\ topics' = [topics EXCEPT ![p] = @ \cup {t}]
  /\ phase' = [phase EXCEPT ![p] = IF topics'[p] = Topic THEN "open" ELSE @]
  /\ UNCHANGED <<store, mailbox, shown, call, mirror, raced, behind, calls>>

\* An update is dropped when the page does not show the item.
ApplyOpBug(o, items) ==
  CASE o.op = "clear" -> NoItems
    [] o.op = "update" /\ items[o.id] = Absent -> items
    [] OTHER -> [items EXCEPT ![o.id] = o.value]

\* _apply_marker_ops, _apply_polyline_ops, _apply_list_ops: an update travels
\* as an insert (docs/pyview-stream-update-only-bug.md).
ApplyOp(o, items) ==
  IF o.op = "clear" THEN NoItems ELSE [items EXCEPT ![o.id] = o.value]

\* The component's update: every operation comes under a version of its own.
NextRender(p, o) == [shown EXCEPT ![p] = ApplyOp(o, @)]

\* The operation is not handed to the component.
HandleInfoBug(p) ==
  /\ phase[p] = "open"
  /\ mailbox[p] # <<>>
  /\ mailbox' = [mailbox EXCEPT ![p] = Tail(@)]
  /\ UNCHANGED <<store, phase, topics, shown, call, mirror, raced, behind, calls>>

\* handle_info with the render that follows it
HandleInfo(p) ==
  /\ phase[p] = "open"
  /\ mailbox[p] # <<>>
  /\ shown' = NextRender(p, Head(mailbox[p]))
  /\ mailbox' = [mailbox EXCEPT ![p] = Tail(@)]
  /\ UNCHANGED <<store, phase, topics, call, mirror, raced, behind, calls>>

\* The socket is closed: its subscriptions end and the page is gone.
Leave(p) ==
  /\ phase[p] \in {"mounting", "open"}
  /\ phase' = [phase EXCEPT ![p] = "closed"]
  /\ topics' = [topics EXCEPT ![p] = {}]
  /\ mailbox' = [mailbox EXCEPT ![p] = <<>>]
  /\ shown' = [shown EXCEPT ![p] = NoItems]
  /\ behind' = [behind EXCEPT ![p] = {}]
  /\ UNCHANGED <<store, call, mirror, raced, calls>>

-----------------------------------------------------------------------------
(* A call of the API: markers.add, ..., polylines.delete, list.clear *)

\* The operation is stored in place of the item.
StoreOpBug(o, items) ==
  CASE o.op = "clear" -> NoItems
    [] o.op = "delete" -> [items EXCEPT ![o.id] = Absent]
    [] OTHER -> [items EXCEPT ![o.id] = o]

\* ItemStore.store
StoreOp(o, items) ==
  CASE o.op = "clear" -> NoItems
    [] o.op = "delete" -> [items EXCEPT ![o.id] = Absent]
    [] OTHER -> [items EXCEPT ![o.id] = o.value]

UnderWay(c) ==
  UNION {Touched(call[d].op) : d \in {e \in Caller \ {c} : call[e] # NoCall}}

\* The handler up to its await.
StoreItem(c, o) ==
  /\ call[c] = NoCall
  /\ calls < MaxCalls
  /\ call' = [call EXCEPT ![c] = [op |-> o, done |-> "stored"]]
  /\ calls' = calls + 1
  /\ store' = StoreOp(o, store)
  /\ raced' = (raced \ Touched(o)) \cup (Touched(o) \cap UnderWay(c))
  /\ behind' = [p \in Page |->
                  IF phase[p] \in {"mounting", "open"}
                  THEN behind[p] \cup Touched(o) ELSE behind[p]]
  /\ UNCHANGED <<pageItems, mirror>>

\* markers.add, polylines.add, list.add
Add(c, i, v, cid) ==
  StoreItem(c, [op |-> "add", id |-> i, value |-> v, cid |-> cid])

\* markers.update, polylines.update: an update of an item that is not in the
\* store puts it there.
Update(c, i, v, cid) ==
  StoreItem(c, [op |-> "update", id |-> i, value |-> v, cid |-> cid])

\* markers.delete, polylines.delete, list.remove
Delete(c, i, cid) ==
  StoreItem(c, [op |-> "delete", id |-> i, value |-> Absent, cid |-> cid])

\* list.clear
Clear(c, cid) == StoreItem(c, [op |-> "clear", value |-> Absent, cid |-> cid])

\* The targeted operation goes to the channel's topic as well.
RecipientsBug(o) == {p \in Page : "channel" \in topics[p]}

\* The topic named by channel and cid, and its subscribers.
Recipients(o) ==
  IF o.cid = Everyone THEN {p \in Page : "channel" \in topics[p]}
  ELSE {p \in Page \cap {o.cid} : "own" \in topics[p]}

\* pub_sub_hub.send_all_on_topic_async
SendToTopic(c) ==
  LET o == call[c].op IN
  /\ call[c] # NoCall
  /\ call[c].done = "stored"
  /\ mailbox' = [p \in Page |-> IF p \in Recipients(o)
                                THEN Append(mailbox[p], o) ELSE mailbox[p]]
  /\ behind' = [p \in Page |-> IF p \in Recipients(o)
                               THEN behind[p] \ Touched(o) ELSE behind[p]]
  /\ call' = [call EXCEPT ![c].done = "sent"]
  /\ UNCHANGED <<store, phase, topics, shown, mirror, raced, calls>>

\* There is no event for a delete.
AnnounceBug(c) ==
  /\ call[c] # NoCall
  /\ call[c].done = "sent"
  /\ mirror' = IF call[c].op.op = "delete" THEN mirror ELSE StoreOp(call[c].op, mirror)
  /\ call' = [call EXCEPT ![c] = NoCall]
  /\ UNCHANGED <<store, pageItems, raced, behind, calls>>

\* EventBroadcaster.broadcast and the answer
Announce(c) ==
  /\ call[c] # NoCall
  /\ call[c].done = "sent"
  /\ mirror' = StoreOp(call[c].op, mirror)
  /\ call' = [call EXCEPT ![c] = NoCall]
  /\ UNCHANGED <<store, pageItems, raced, behind, calls>>

-----------------------------------------------------------------------------
(* Specification *)

PageStep(p) ==
  \/ Mount(p)
  \/ \E t \in Topic : Connect(p, t)
  \/ HandleInfo(p)
  \/ Leave(p)

Proceed(c) == SendToTopic(c) \/ Announce(c)

ItemsNext ==
  \/ \E p \in Page : PageStep(p)
  \/ \E c \in Caller : Proceed(c)
  \/ \E c \in Caller, cid \in Cid :
       \/ \E i \in Id, v \in Value : Add(c, i, v, cid) \/ Update(c, i, v, cid)
       \/ \E i \in Id : Delete(c, i, cid)
       \/ Clear(c, cid)

ItemsSpec == ItemsInit /\ [][ItemsNext]_itemVars

\* Tasks that are ready run: a call that was begun ends, and a page handles its
\* messages.  Users and clients are free.
ItemsFairSpec ==
  /\ ItemsSpec
  /\ \A c \in Caller : WF_itemVars(Proceed(c))
  /\ \A p \in Page : WF_itemVars(HandleInfo(p))

-----------------------------------------------------------------------------
(* Properties *)

LastOn(p, i, k) ==
  /\ i \in Touched(mailbox[p][k])
  /\ \A l \in (k + 1) .. Len(mailbox[p]) : i \notin Touched(mailbox[p][l])

\* What a page will show of an item once it has handled its messages is what
\* the store holds, and so what a page opened now would show.  There are two
\* exceptions only: an operation the page was not sent (it came between the
\* snapshot and the subscription, or was for another cid), and operations on
\* the item that overlapped (MapDriver.__init__, connect, markers_add).
PagesFollowStore ==
  \A p \in Page : phase[p] \in {"mounting", "open"} =>
    \A i \in Id \ (raced \cup behind[p]) :
      /\ \A k \in 1 .. Len(mailbox[p]) :
           LastOn(p, i, k) => mailbox[p][k].value = store[i]
      /\ (\A k \in 1 .. Len(mailbox[p]) : i \notin Touched(mailbox[p][k]))
           => shown[p][i] = store[i]

\* A subscriber to the events that replays them holds what the store holds, but
\* for items being changed and items changed by calls that overlapped
\* (markers_add, EventBroadcaster.broadcast).
EventsFollowStore ==
  \A i \in Id \ raced :
    (\A c \in Caller : call[c] # NoCall => i \notin Touched(call[c].op))
    => mirror[i] = store[i]

\* An open page catches up with the store, for every item that it was sent and
\* that is not changed for ever.
PagesCatchUp ==
  \A p \in Page, i \in Id :
    phase[p] = "open" ~>
      \/ phase[p] = "closed"
      \/ i \in raced \cup behind[p]
      \/ shown[p][i] = store[i]

=============================================================================
