--------------------------- MODULE PlacesPage_proofs ---------------------------
(***************************************************************************)
(* The parks service fills its pages, for every set of pages and parks and *)
(* every capacity of the queues.                                           *)
(*                                                                         *)
(* What a page is to show is somewhere between its connection's queue, the *)
(* branch the connection is executing, and the page; a full queue loses an *)
(* event only together with the subscription.                              *)
(***************************************************************************)
EXTENDS PlacesPage, SequenceTheorems, TLAPS

-----------------------------------------------------------------------------
(* The inductive invariant *)

\* An event is about an item unless it is a ready event.
EventOK(e) == e.item = NoItem <=> e.kind \in Retainable

\* The retained events are ready events, each of its own kind.
RetainedOK ==
  \A k \in Retainable :
    retained[k] # NoEvent => retained[k].kind = k /\ retained[k].item = NoItem

Queued(c, e) == \E j \in 1 .. Len(queue[c]) : queue[c][j] = e

EventsOK == \A c \in Connection, e \in Event : Queued(c, e) => EventOK(e)

\* A page asks for its connection when both components are ready, and a
\* connection has something to do once it reads.
LinkOK ==
  \A p \in Page :
    /\ view[p] = "new" => ready[p] = {}
    /\ link[p] # "none" => ready[p] = Retainable
    /\ populated[p] => link[p] \in {"reading", "lost"}
    /\ todo[p] # <<>> => link[p] = "reading"

Clicked(p, i) == \E j \in DOMAIN clicks[p] : clicks[p][j] = i

Pending(p, c) == \E j \in 1 .. Len(todo[p]) : todo[p][j] = c
Calls(p, m, i) == Pending(p, [method |-> m, item |-> i])

\* Whatever will move the map of a page is a click on it.
ClicksOK ==
  /\ \A c \in Connection, e \in Event :
       Queued(c, e) /\ e.kind = "click" => Clicked(e.page, e.item)
  /\ \A p \in Page, i \in Item : Calls(p, "map.setView", i) => Clicked(p, i)
  /\ \A p \in Page : viewAt[p] # NoItem => Clicked(p, viewAt[p])

Told(p, i) == \E e \in Event : Queued(p, e) /\ e.kind = "list_add" /\ e.item = i

\* An item is on the list of page p or will be put there; and so for the map.
Listed(p, i) == i \in listShown[p] \/ Calls(p, "list.add", i)
Mapped(p, i) ==
  i \in mapShown[p] \/ Calls(p, "markers.add", i) \/ Told(p, i) \/ Calls(p, "list.add", i)

\* No park is lost on its way to a page whose connection is subscribed.
FillingOK ==
  \A p \in Page :
    populated[p] /\ link[p] = "reading" /\ view[p] = "open" /\ p \in subscribers
    => \A i \in Item : Listed(p, i) /\ Mapped(p, i)

\* The ready event of a page that is alone is the one retained.
LoneOK ==
  \A p \in Page :
    /\ "list_ready" \in ready[p] /\ view[p] = "open"
    /\ \A q \in Page \ {p} : ready[q] = {} /\ view[q] # "closed"
    => retained["list_ready"] = ReadyEvent(p, "list_ready")

PlacesInv ==
  PlacesTypeOK /\ RetainedOK /\ EventsOK /\ LinkOK /\ ClicksOK /\ FillingOK /\ LoneOK

-----------------------------------------------------------------------------
(* What the operations of the broadcaster do to queues *)

LEMMA EventInQueue ==
  ASSUME BroadcasterTypeOK, NEW c \in Connection, NEW e, Queued(c, e)
  PROVE  e \in Event
BY ElementOfSeq DEF BroadcasterTypeOK, Queued

LEMMA BroadcastEffect ==
  ASSUME BroadcasterTypeOK, NEW e \in Event, Broadcast(e)
  PROVE  /\ BroadcasterTypeOK'
         /\ \A c \in Connection, f \in Event : Queued(c, f)' => Queued(c, f) \/ f = e
         /\ \A c \in Connection, f \in Event : Queued(c, f) => Queued(c, f)'
         /\ subscribers' \subseteq subscribers
         /\ \A c \in subscribers' : Queued(c, e)'
<1>1. /\ subscribers \subseteq Connection
      /\ queue \in [Connection -> Seq(Event)]
      /\ \A c \in Connection : Len(queue[c]) <= QueueSize
      /\ retained \in [Retainable -> Event \cup {NoEvent}]
  BY DEF BroadcasterTypeOK
<1>2. /\ retained' = IF e.kind \in Retainable THEN [retained EXCEPT ![e.kind] = e] ELSE retained
      /\ queue' = [c \in Connection |-> IF c \in subscribers /\ HasRoom(c)
                                        THEN Append(queue[c], e) ELSE queue[c]]
      /\ subscribers' = {c \in subscribers : HasRoom(c)}
  BY DEF Broadcast
<1>3. retained' \in [Retainable -> Event \cup {NoEvent}] /\ subscribers' \subseteq Connection
  BY <1>1, <1>2
<1>4. ASSUME NEW c \in Connection
      PROVE  /\ queue'[c] \in Seq(Event) /\ Len(queue'[c]) <= QueueSize
             /\ \A f \in Event : Queued(c, f)' => Queued(c, f) \/ f = e
             /\ \A f \in Event : Queued(c, f) => Queued(c, f)'
             /\ c \in subscribers' => Queued(c, e)'
  <2>1. queue[c] \in Seq(Event) /\ Len(queue[c]) \in Nat /\ QueueSize \in Nat
    BY <1>1, BroadcasterAssumption
  <2>2. CASE c \in subscribers /\ HasRoom(c)
    <3>1. queue'[c] = Append(queue[c], e) /\ Len(queue[c]) < QueueSize
      BY <1>2, <2>2 DEF HasRoom
    <3>2. /\ queue'[c] \in Seq(Event)
          /\ Len(queue'[c]) = Len(queue[c]) + 1
          /\ \A i \in 1 .. Len(queue[c]) : queue'[c][i] = queue[c][i]
          /\ queue'[c][Len(queue[c]) + 1] = e
      BY <2>1, <3>1, AppendProperties
    <3> QED
      BY <2>1, <3>1, <3>2 DEF Queued
  <2>3. CASE ~(c \in subscribers /\ HasRoom(c))
    <3>1. queue'[c] = queue[c] /\ c \notin subscribers'
      BY <1>2, <2>3
    <3> QED
      BY <1>1, <3>1 DEF Queued
  <2> QED
    BY <2>2, <2>3
<1>5. queue' \in [Connection -> Seq(Event)]
  BY <1>2, <1>4
<1> QED
  BY <1>1, <1>2, <1>3, <1>4, <1>5 DEF BroadcasterTypeOK

LEMMA TakeEffect ==
  ASSUME BroadcasterTypeOK, NEW p \in Connection, TakeEvent(p)
  PROVE  /\ BroadcasterTypeOK'
         /\ Head(queue[p]) \in Event /\ Queued(p, Head(queue[p]))
         /\ \A c \in Connection, f \in Event : Queued(c, f)' => Queued(c, f)
         /\ \A c \in Connection, f \in Event :
              Queued(c, f) => Queued(c, f)' \/ (c = p /\ f = Head(queue[p]))
<1>1. /\ queue \in [Connection -> Seq(Event)]
      /\ \A c \in Connection : Len(queue[c]) <= QueueSize
      /\ queue' = [queue EXCEPT ![p] = Tail(@)] /\ queue[p] # <<>>
      /\ UNCHANGED <<subscribers, retained>>
  BY DEF BroadcasterTypeOK, TakeEvent
<1> DEFINE s == queue[p]
<1>2. /\ s \in Seq(Event) /\ s # <<>> /\ Len(s) \in Nat /\ Len(s) > 0 /\ s[1] = Head(s)
      /\ Head(s) \in Event
      /\ Tail(s) \in Seq(Event) /\ Len(Tail(s)) = Len(s) - 1
      /\ \A i \in 1 .. Len(Tail(s)) : Tail(s)[i] = s[i + 1]
  BY <1>1, HeadTailProperties
<1>3. queue'[p] = Tail(s) /\ \A c \in Connection \ {p} : queue'[c] = queue[c]
  BY <1>1
<1>4. BroadcasterTypeOK'
  <2>1. \A c \in Connection : Len(queue'[c]) <= QueueSize
    BY <1>1, <1>2, <1>3, BroadcasterAssumption
  <2> QED
    BY <1>1, <1>2, <1>3, <2>1 DEF BroadcasterTypeOK
<1>5. Queued(p, Head(s))
  BY <1>2 DEF Queued
<1>6. ASSUME NEW f PROVE /\ Queued(p, f)' => Queued(p, f)
                         /\ Queued(p, f) => Queued(p, f)' \/ f = Head(s)
  <2>1. ASSUME NEW j \in 1 .. Len(Tail(s)) PROVE j + 1 \in 1 .. Len(s)
    BY <1>2
  <2>2. ASSUME NEW j \in 1 .. Len(s), j # 1
        PROVE  j - 1 \in 1 .. Len(Tail(s)) /\ Tail(s)[j - 1] = s[j]
    <3>1. j - 1 \in 1 .. Len(Tail(s)) /\ (j - 1) + 1 = j
      BY <1>2, <2>2
    <3> QED
      BY <1>2, <3>1
  <2>3. Queued(p, f) <=> \E j \in 1 .. Len(s) : s[j] = f
    BY DEF Queued
  <2>4. Queued(p, f)' <=> \E j \in 1 .. Len(Tail(s)) : Tail(s)[j] = f
    BY <1>3 DEF Queued
  <2> QED
    BY <1>2, <2>1, <2>2, <2>3, <2>4
<1>7. ASSUME NEW c \in Connection \ {p}, NEW f PROVE Queued(c, f)' <=> Queued(c, f)
  BY <1>3 DEF Queued
<1> QED
  BY <1>2, <1>4, <1>5, <1>6, <1>7

\* A new subscriber has the retained events in its queue and no others.
LEMMA SubscribeEffect ==
  ASSUME BroadcasterTypeOK, NEW p \in Connection, Subscribe(p)
  PROVE  /\ BroadcasterTypeOK'
         /\ \A f : Queued(p, f)' <=> f # NoEvent /\ \E k \in Retainable : retained[k] = f
         /\ \A c \in Connection \ {p} : queue'[c] = queue[c]
<1> DEFINE a == retained["list_ready"]  b == retained["map_ready"]
<1>1. /\ queue \in [Connection -> Seq(Event)]
      /\ \A c \in Connection : Len(queue[c]) <= QueueSize
      /\ a \in Event \cup {NoEvent} /\ b \in Event \cup {NoEvent}
      /\ queue' = [queue EXCEPT ![p] = Replay]
      /\ subscribers' = subscribers \cup {p} /\ retained' = retained
  BY DEF BroadcasterTypeOK, Subscribe, Retainable
<1>2. Replay = (IF a = NoEvent THEN <<>> ELSE <<a>>) \o (IF b = NoEvent THEN <<>> ELSE <<b>>)
  BY DEF Replay, Kept
<1> HIDE DEF a, b
<1>3. /\ Replay \in Seq(Event) /\ Len(Replay) <= 2
      /\ \A f : (\E j \in 1 .. Len(Replay) : Replay[j] = f) <=> f # NoEvent /\ (f = a \/ f = b)
  <2>1. CASE a = NoEvent /\ b = NoEvent
    <3>1. Replay = <<>>
      BY <1>2, <2>1
    <3> QED
      BY <2>1, <3>1
  <2>2. CASE a = NoEvent /\ b # NoEvent
    <3>1. Replay = <<b>>
      BY <1>2, <2>2
    <3> QED
      BY <1>1, <2>2, <3>1
  <2>3. CASE a # NoEvent /\ b = NoEvent
    <3>1. Replay = <<a>>
      BY <1>2, <2>3
    <3> QED
      BY <1>1, <2>3, <3>1
  <2>4. CASE a # NoEvent /\ b # NoEvent
    <3>1. Replay = <<a>> \o <<b>>
      BY <1>2, <2>4
    <3> DEFINE sa == <<a>>  sb == <<b>>
    <3>2. /\ sa \in Seq(Event) /\ sb \in Seq(Event)
          /\ Len(sa) = 1 /\ Len(sb) = 1 /\ sa[1] = a /\ sb[1] = b
      BY <1>1, <2>4
    <3>4. Replay = sa \o sb
      BY <3>1
    <3> HIDE DEF sa, sb
    <3>5. /\ Replay \in Seq(Event) /\ Len(Replay) = 2
          /\ \A i \in 1 .. 2 : Replay[i] = IF i <= 1 THEN sa[i] ELSE sb[i - 1]
      BY <3>2, <3>4, ConcatProperties
    <3>6. Replay[1] = a /\ Replay[2] = b
      BY <3>2, <3>5
    <3>3. \A j \in 1 .. 2 : j = 1 \/ j = 2
      OBVIOUS
    <3> QED
      BY <2>4, <3>3, <3>5, <3>6
  <2> QED
    BY <2>1, <2>2, <2>3, <2>4
<1>4. queue'[p] = Replay /\ \A c \in Connection \ {p} : queue'[c] = queue[c]
  BY <1>1
<1>5. BroadcasterTypeOK'
  <2>1. \A c \in Connection : Len(queue'[c]) <= QueueSize /\ queue'[c] \in Seq(Event)
    BY <1>1, <1>3, <1>4, BroadcasterAssumption
  <2> QED
    BY <1>1, <2>1 DEF BroadcasterTypeOK
<1>6. ASSUME NEW f PROVE Queued(p, f)' <=> f # NoEvent /\ \E k \in Retainable : retained[k] = f
  <2>1. Queued(p, f)' <=> f # NoEvent /\ (f = a \/ f = b)
    BY <1>3, <1>4 DEF Queued
  <2> QED
    BY <2>1 DEF Retainable, a, b
<1> QED
  BY <1>4, <1>5, <1>6

\* An event in order leaves all events in order.
LEMMA BroadcastInOrder ==
  ASSUME BroadcasterTypeOK, RetainedOK, EventsOK, NEW e \in Event, EventOK(e), Broadcast(e)
  PROVE  /\ RetainedOK' /\ EventsOK'
         /\ e.kind # "list_ready" => retained'["list_ready"] = retained["list_ready"]
<1>1. EventsOK'
  BY BroadcastEffect DEF EventsOK, EventOK
<1>2. /\ retained \in [Retainable -> Event \cup {NoEvent}]
      /\ retained' = IF e.kind \in Retainable THEN [retained EXCEPT ![e.kind] = e] ELSE retained
  BY DEF BroadcasterTypeOK, Broadcast
<1>3. RetainedOK'
  BY <1>2 DEF RetainedOK, EventOK
<1> QED
  BY <1>1, <1>2, <1>3 DEF Retainable

\* The first of the calls left is made.
LEMMA CallMade ==
  ASSUME todo \in [Page -> Seq(Call)], NEW p \in Page, todo[p] # <<>>,
         todo' = [todo EXCEPT ![p] = Tail(@)]
  PROVE  /\ todo' \in [Page -> Seq(Call)]
         /\ Head(todo[p]) \in Call /\ Pending(p, Head(todo[p]))
         /\ \A q \in Page : \A c : Pending(q, c)' => Pending(q, c)
         /\ \A q \in Page : \A c :
              Pending(q, c) => Pending(q, c)' \/ (q = p /\ Head(todo[p]) = c)
<1> DEFINE s == todo[p]
<1>1. /\ s \in Seq(Call) /\ s # <<>> /\ Len(s) \in Nat /\ Len(s) > 0 /\ s[1] = Head(s)
      /\ Head(s) \in Call
      /\ Tail(s) \in Seq(Call) /\ Len(Tail(s)) = Len(s) - 1
      /\ \A i \in 1 .. Len(Tail(s)) : Tail(s)[i] = s[i + 1]
  BY HeadTailProperties
<1>2. todo'[p] = Tail(s) /\ \A q \in Page \ {p} : todo'[q] = todo[q]
  OBVIOUS
<1>3. ASSUME NEW j \in 1 .. Len(Tail(s)) PROVE j + 1 \in 1 .. Len(s)
  BY <1>1
<1>4. ASSUME NEW j \in 1 .. Len(s), j # 1
      PROVE  j - 1 \in 1 .. Len(Tail(s)) /\ Tail(s)[j - 1] = s[j]
  <2>1. j - 1 \in 1 .. Len(Tail(s)) /\ (j - 1) + 1 = j
    BY <1>1, <1>4
  <2> QED
    BY <1>1, <2>1
<1>5. ASSUME NEW c
      PROVE  /\ Pending(p, c)' => Pending(p, c)
             /\ Pending(p, c) => Pending(p, c)' \/ Head(s) = c
  <2>1. Pending(p, c) <=> \E j \in 1 .. Len(s) : s[j] = c
    BY DEF Pending
  <2>2. Pending(p, c)' <=> \E j \in 1 .. Len(Tail(s)) : Tail(s)[j] = c
    BY <1>2 DEF Pending
  <2> QED
    BY <1>1, <1>3, <1>4, <2>1, <2>2
<1>6. ASSUME NEW q \in Page \ {p}, NEW c PROVE Pending(q, c)' <=> Pending(q, c)
  BY <1>2 DEF Pending
<1>7. todo' \in [Page -> Seq(Call)]
  BY <1>1, <1>2
<1>8. Pending(p, Head(s))
  BY <1>1 DEF Pending
<1> QED
  BY <1>1, <1>5, <1>6, <1>7, <1>8

-----------------------------------------------------------------------------
(* The steps of a page and its connection *)

LEMMA InitPlaces == PlacesInit => PlacesInv
<1> SUFFICES ASSUME PlacesInit PROVE PlacesInv
  OBVIOUS
<1> USE DEF PlacesInit, BroadcasterInit
<1>1. PlacesTypeOK
  <2>1. BroadcasterTypeOK
    BY BroadcasterAssumption DEF BroadcasterTypeOK
  <2> QED
    BY <2>1, PlacesAssumption DEF PlacesTypeOK
<1>2. RetainedOK /\ LinkOK /\ FillingOK /\ LoneOK
  BY DEF RetainedOK, LinkOK, FillingOK, LoneOK
<1>3. \A c \in Connection : queue[c] = <<>>
  OBVIOUS
<1>4. EventsOK /\ ClicksOK
  BY <1>3, PlacesAssumption DEF EventsOK, ClicksOK, Queued, Calls, Pending
<1> QED
  BY <1>1, <1>2, <1>4 DEF PlacesInv

LEMMA MountStep ==
  ASSUME PlacesInv, NEW p \in Page, Mount(p)
  PROVE  PlacesInv'
<1>1. /\ view[p] = "new" /\ view' = [view EXCEPT ![p] = "open"]
      /\ listShown' = [listShown EXCEPT ![p] = listStore]
      /\ mapShown' = [mapShown EXCEPT ![p] = markerStore]
      /\ UNCHANGED <<subscribers, queue, retained, ready, viewAt, clicks, link, populated, todo,
                     listStore, markerStore>>
  BY DEF Mount, broadcasterVars, linkVars, stores
<1>2. PlacesTypeOK /\ LinkOK
  BY DEF PlacesInv
<1>3. PlacesTypeOK'
  BY <1>1, <1>2 DEF PlacesTypeOK, BroadcasterTypeOK
<1>4. RetainedOK' /\ EventsOK' /\ ClicksOK'
  BY <1>1 DEF PlacesInv, RetainedOK, EventsOK, ClicksOK, Queued, Calls, Pending, Clicked
<1>5. LinkOK'
  BY <1>1, <1>2 DEF LinkOK, PlacesTypeOK
<1>6. link[p] = "none" /\ ready[p] = {} /\ ~populated[p]
  BY <1>1, <1>2 DEF LinkOK, Retainable
<1>7. FillingOK'
  <2> SUFFICES ASSUME NEW q \in Page, populated[q], link[q] = "reading", view'[q] = "open",
                      q \in subscribers, NEW i \in Item
               PROVE  Listed(q, i)' /\ Mapped(q, i)'
    BY <1>1 DEF FillingOK
  <2>1. q # p /\ view[q] = "open" /\ listShown'[q] = listShown[q] /\ mapShown'[q] = mapShown[q]
    BY <1>1, <1>2, <1>6 DEF PlacesTypeOK
  <2>2. Listed(q, i) /\ Mapped(q, i)
    BY <2>1 DEF PlacesInv, FillingOK
  <2> QED
    BY <1>1, <2>1, <2>2 DEF Listed, Mapped, Calls, Pending, Told, Queued
<1>8. LoneOK'
  BY <1>1, <1>2, <1>6 DEF PlacesInv, LoneOK, ReadyEvent, PlacesTypeOK
<1> QED
  BY <1>3, <1>4, <1>5, <1>7, <1>8 DEF PlacesInv

LEMMA ComponentReadyStep ==
  ASSUME PlacesInv, NEW p \in Page, NEW k \in Retainable, ComponentReady(p, k)
  PROVE  PlacesInv'
<1> DEFINE e == ReadyEvent(p, k)
<1>1. /\ view[p] = "open" /\ k \notin ready[p]
      /\ ready' = [ready EXCEPT ![p] = @ \cup {k}]
      /\ link' = [link EXCEPT ![p] = IF ready'[p] = Retainable THEN "asked" ELSE @]
      /\ Broadcast(e)
      /\ UNCHANGED <<view, listShown, mapShown, viewAt, clicks, populated, todo,
                     listStore, markerStore>>
  BY DEF ComponentReady, stores
<1>2. PlacesTypeOK /\ LinkOK /\ BroadcasterTypeOK
  BY DEF PlacesInv, PlacesTypeOK
<1>3. e \in Event /\ EventOK(e) /\ e.kind = k /\ e.page = p
  BY PlacesAssumption DEF ReadyEvent, Event, EventOK, Kinds, Retainable
<1> HIDE DEF e
<1>4. /\ BroadcasterTypeOK'
      /\ \A c \in Page, f \in Event : Queued(c, f)' => Queued(c, f) \/ f = e
      /\ \A c \in Page, f \in Event : Queued(c, f) => Queued(c, f)'
      /\ subscribers' \subseteq subscribers
  BY <1>1, <1>2, <1>3, BroadcastEffect, PlacesAssumption
<1>5. RetainedOK' /\ EventsOK' /\ (k # "list_ready" => retained'["list_ready"] = retained["list_ready"])
  BY <1>1, <1>2, <1>3, BroadcastInOrder DEF PlacesInv
<1>6. PlacesTypeOK'
  BY <1>1, <1>2, <1>4 DEF PlacesTypeOK
<1>7. link[p] = "none"
  BY <1>1, <1>2 DEF LinkOK, PlacesTypeOK
<1>8. LinkOK'
  BY <1>1, <1>2, <1>7 DEF LinkOK, PlacesTypeOK
<1>9. ClicksOK'
  <2>1. k # "click"
    BY DEF Retainable
  <2>2. \A q, i : Clicked(q, i)' = Clicked(q, i)
    BY <1>1 DEF Clicked
  <2>3. \A q, m, i : Calls(q, m, i)' = Calls(q, m, i)
    BY <1>1 DEF Calls, Pending
  <2> QED
    BY <1>1, <1>3, <1>4, <2>1, <2>2, <2>3, PlacesAssumption DEF ClicksOK, PlacesInv
<1>10. FillingOK'
  <2> SUFFICES ASSUME NEW q \in Page, populated[q], link'[q] = "reading", view[q] = "open",
                      q \in subscribers', NEW i \in Item
               PROVE  Listed(q, i)' /\ Mapped(q, i)'
    BY <1>1 DEF FillingOK
  <2>1. link[q] = "reading"
    BY <1>1, <1>2, <1>7 DEF PlacesTypeOK
  <2>2. Listed(q, i) /\ Mapped(q, i)
    BY <1>4, <2>1 DEF PlacesInv, FillingOK
  <2> QED
    BY <1>1, <1>4, <2>2 DEF Listed, Mapped, Calls, Pending, Told
<1>11. LoneOK'
  <2> SUFFICES ASSUME NEW q \in Page, "list_ready" \in ready'[q], view[q] = "open",
                      \A r \in Page \ {q} : ready'[r] = {} /\ view[r] # "closed"
               PROVE  retained'["list_ready"] = ReadyEvent(q, "list_ready")
    BY <1>1 DEF LoneOK, ReadyEvent
  <2>1. q = p
    BY <1>1, <1>2 DEF PlacesTypeOK
  <2>2. CASE k = "list_ready"
    BY <1>1, <1>2, <1>3, <2>1, <2>2 DEF Broadcast, BroadcasterTypeOK, e
  <2>3. CASE k # "list_ready"
    <3>1. "list_ready" \in ready[p]
      BY <1>1, <1>2, <2>1, <2>3 DEF PlacesTypeOK
    <3>2. \A r \in Page \ {p} : ready[r] = {} /\ view[r] # "closed"
      BY <1>1, <1>2, <2>1 DEF PlacesTypeOK
    <3> QED
      BY <1>1, <1>5, <2>1, <2>3, <3>1, <3>2 DEF PlacesInv, LoneOK
  <2> QED
    BY <2>2, <2>3
<1> QED
  BY <1>5, <1>6, <1>8, <1>9, <1>10, <1>11 DEF PlacesInv

LEMMA ItemClickStep ==
  ASSUME PlacesInv, NEW p \in Page, NEW i \in Item, ItemClick(p, i)
  PROVE  PlacesInv'
<1> DEFINE e == [kind |-> "click", page |-> p, item |-> i]
<1>1. /\ clicks' = [clicks EXCEPT ![p] = Append(@, i)]
      /\ Broadcast(e)
      /\ UNCHANGED <<view, ready, listShown, mapShown, viewAt, link, populated, todo,
                     listStore, markerStore>>
  BY DEF ItemClick, stores, linkVars
<1>2. PlacesTypeOK /\ BroadcasterTypeOK
  BY DEF PlacesInv, PlacesTypeOK
<1>3. e \in Event /\ EventOK(e) /\ e.kind = "click" /\ e.page = p /\ e.item = i
  BY PlacesAssumption, BroadcasterAssumption DEF Event, EventOK, Kinds, Retainable
<1> HIDE DEF e
<1>4. /\ BroadcasterTypeOK'
      /\ \A c \in Page, f \in Event : Queued(c, f)' => Queued(c, f) \/ f = e
      /\ \A c \in Page, f \in Event : Queued(c, f) => Queued(c, f)'
      /\ subscribers' \subseteq subscribers
  BY <1>1, <1>2, <1>3, BroadcastEffect, PlacesAssumption
<1>5. RetainedOK' /\ EventsOK' /\ retained'["list_ready"] = retained["list_ready"]
  BY <1>1, <1>2, <1>3, BroadcastInOrder DEF PlacesInv
<1>6. /\ clicks[p] \in Seq(Item) /\ clicks'[p] = Append(clicks[p], i)
      /\ \A q \in Page \ {p} : clicks'[q] = clicks[q]
      /\ clicks' \in [Page -> Seq(Item)]
      /\ DOMAIN clicks[p] = 1 .. Len(clicks[p]) /\ DOMAIN clicks'[p] = 1 .. Len(clicks'[p])
      /\ Len(clicks[p]) \in Nat /\ Len(clicks'[p]) = Len(clicks[p]) + 1
      /\ \A j \in 1 .. Len(clicks[p]) : clicks'[p][j] = clicks[p][j]
      /\ clicks'[p][Len(clicks[p]) + 1] = i
  BY <1>1, <1>2, AppendProperties, LenProperties DEF PlacesTypeOK
<1>7. PlacesTypeOK'
  BY <1>1, <1>2, <1>4, <1>6 DEF PlacesTypeOK
<1>8. LinkOK'
  BY <1>1 DEF PlacesInv, LinkOK
<1>9. ClicksOK'
  <2>1. ASSUME NEW q \in Page, NEW n, Clicked(q, n) PROVE Clicked(q, n)'
    <3>1. CASE q = p
      <4>1. PICK j \in 1 .. Len(clicks[p]) : clicks[p][j] = n
        BY <1>6, <2>1, <3>1 DEF Clicked
      <4>2. j \in 1 .. Len(clicks'[p]) /\ clicks'[p][j] = n
        BY <1>6, <4>1
      <4> QED
        BY <1>6, <3>1, <4>2 DEF Clicked
    <3>2. CASE q # p
      BY <1>6, <2>1, <3>2 DEF Clicked
    <3> QED
      BY <3>1, <3>2
  <2>2. Clicked(p, i)'
    BY <1>6 DEF Clicked
  <2>3. \A q, m, n : Calls(q, m, n)' = Calls(q, m, n)
    BY <1>1 DEF Calls, Pending
  <2>4. \A f \in Event : f.page \in Page
    BY DEF Event
  <2> QED
    BY <1>1, <1>3, <1>4, <2>1, <2>2, <2>3, <2>4, PlacesAssumption DEF ClicksOK, PlacesInv
<1>10. FillingOK'
  <2> SUFFICES ASSUME NEW q \in Page, populated[q], link[q] = "reading", view[q] = "open",
                      q \in subscribers', NEW n \in Item
               PROVE  Listed(q, n)' /\ Mapped(q, n)'
    BY <1>1 DEF FillingOK
  <2>1. Listed(q, n) /\ Mapped(q, n)
    BY <1>4 DEF PlacesInv, FillingOK
  <2> QED
    BY <1>1, <1>4, <2>1 DEF Listed, Mapped, Calls, Pending, Told
<1>11. LoneOK'
  BY <1>1, <1>5 DEF PlacesInv, LoneOK, ReadyEvent
<1> QED
  BY <1>5, <1>7, <1>8, <1>9, <1>10, <1>11 DEF PlacesInv

LEMMA DisconnectStep ==
  ASSUME PlacesInv, NEW p \in Page, Disconnect(p)
  PROVE  PlacesInv'
<1>1. /\ view[p] = "open" /\ view' = [view EXCEPT ![p] = "closed"]
      /\ retained' = [k \in Retainable |-> NoEvent]
      /\ link' = link \/ (link' = [link EXCEPT ![p] = "none"] /\ link[p] = "asked")
      /\ UNCHANGED <<subscribers, queue, ready, listShown, mapShown, viewAt, clicks, populated, todo,
                     listStore, markerStore>>
  BY DEF Disconnect, ClearRetained, stores
<1>2. PlacesTypeOK /\ LinkOK
  BY DEF PlacesInv
<1>3. PlacesTypeOK'
  BY <1>1, <1>2 DEF PlacesTypeOK, BroadcasterTypeOK
<1>4. RetainedOK' /\ EventsOK' /\ ClicksOK'
  BY <1>1 DEF PlacesInv, RetainedOK, EventsOK, ClicksOK, Queued, Calls, Pending, Clicked
<1>5. LinkOK'
  BY <1>1, <1>2 DEF LinkOK, PlacesTypeOK
<1>6. FillingOK'
  <2> SUFFICES ASSUME NEW q \in Page, populated[q], link'[q] = "reading", view'[q] = "open",
                      q \in subscribers, NEW i \in Item
               PROVE  Listed(q, i)' /\ Mapped(q, i)'
    BY <1>1 DEF FillingOK
  <2>1. link[q] = "reading" /\ view[q] = "open"
    BY <1>1, <1>2 DEF PlacesTypeOK
  <2>2. Listed(q, i) /\ Mapped(q, i)
    BY <2>1 DEF PlacesInv, FillingOK
  <2> QED
    BY <1>1, <2>2 DEF Listed, Mapped, Calls, Pending, Told, Queued
<1>7. LoneOK'
  <2> SUFFICES ASSUME NEW q \in Page, view'[q] = "open",
                      \A r \in Page \ {q} : view'[r] # "closed"
               PROVE  FALSE
    BY DEF LoneOK
  <2> QED
    BY <1>1, <1>2 DEF PlacesTypeOK
<1> QED
  BY <1>3, <1>4, <1>5, <1>6, <1>7 DEF PlacesInv

LEMMA ParksSubscribeStep ==
  ASSUME PlacesInv, NEW p \in Page, ParksSubscribe(p) \/ ConnectionLost(p)
  PROVE  PlacesInv'
<1>1. /\ link[p] # "none"
      /\ \/ link' = [link EXCEPT ![p] = "called"] /\ todo' = todo /\ link[p] = "asked"
         \/ link' = [link EXCEPT ![p] = "lost"] /\ todo' = [todo EXCEPT ![p] = <<>>]
      /\ UNCHANGED <<subscribers, queue, retained, view, ready, listShown, mapShown, viewAt, clicks,
                     populated, listStore, markerStore>>
  BY DEF ParksSubscribe, ConnectionLost, broadcasterVars, pageVars, stores
<1>2. PlacesTypeOK /\ LinkOK
  BY DEF PlacesInv
<1>3. PlacesTypeOK'
  <2>1. link' \in [Page -> {"none", "asked", "called", "reading", "lost"}]
    BY <1>1, <1>2 DEF PlacesTypeOK
  <2>2. todo' \in [Page -> Seq(Call)]
    <3> DEFINE S == Seq(Call)
    <3>1. <<>> \in S /\ todo \in [Page -> S]
      BY <1>2 DEF PlacesTypeOK
    <3> HIDE DEF S
    <3>2. todo' \in [Page -> S]
      BY <1>1, <3>1
    <3> QED
      BY <3>2 DEF S
  <2> QED
    BY <1>1, <1>2, <2>1, <2>2 DEF PlacesTypeOK, BroadcasterTypeOK
<1>4. ASSUME NEW q \in Page
      PROVE  /\ todo'[q] = todo[q] \/ (todo'[q] = <<>> /\ link'[q] = "lost")
             /\ link'[q] = "reading" => link[q] = "reading"
  BY <1>1, <1>2 DEF PlacesTypeOK
<1>5. \A q \in Page : \A c : Pending(q, c)' => Pending(q, c)
  BY <1>4 DEF Pending
<1>6. \A c, e : Queued(c, e)' <=> Queued(c, e)
  BY <1>1 DEF Queued
<1>7. RetainedOK' /\ EventsOK' /\ ClicksOK'
  BY <1>1, <1>5, <1>6 DEF PlacesInv, RetainedOK, EventsOK, ClicksOK, Calls, Clicked
<1>8. LinkOK'
  BY <1>1, <1>2 DEF LinkOK, PlacesTypeOK
<1>9. FillingOK'
  <2> SUFFICES ASSUME NEW q \in Page, populated[q], link'[q] = "reading", view[q] = "open",
                      q \in subscribers, NEW i \in Item
               PROVE  Listed(q, i)' /\ Mapped(q, i)'
    BY <1>1 DEF FillingOK
  <2>1. link[q] = "reading" /\ todo'[q] = todo[q]
    BY <1>4
  <2>2. Listed(q, i) /\ Mapped(q, i)
    BY <2>1 DEF PlacesInv, FillingOK
  <2> QED
    BY <1>1, <1>6, <2>1, <2>2 DEF Listed, Mapped, Calls, Pending, Told
<1>10. LoneOK'
  BY <1>1 DEF PlacesInv, LoneOK, ReadyEvent
<1> QED
  BY <1>3, <1>7, <1>8, <1>9, <1>10 DEF PlacesInv

LEMMA BffSubscribeStep ==
  ASSUME PlacesInv, NEW p \in Page, BffSubscribe(p)
  PROVE  PlacesInv'
<1>1. /\ link[p] = "called" /\ link' = [link EXCEPT ![p] = "reading"] /\ Subscribe(p)
      /\ retained' = retained /\ subscribers' = subscribers \cup {p}
      /\ UNCHANGED <<view, ready, listShown, mapShown, viewAt, clicks, populated, todo,
                     listStore, markerStore>>
  BY DEF BffSubscribe, Subscribe, pageVars, stores
<1>2. PlacesTypeOK /\ LinkOK /\ RetainedOK /\ BroadcasterTypeOK
  BY DEF PlacesInv, PlacesTypeOK
<1>3. /\ BroadcasterTypeOK'
      /\ \A f : Queued(p, f)' <=> f # NoEvent /\ \E k \in Retainable : retained[k] = f
      /\ \A c \in Page \ {p} : queue'[c] = queue[c]
  BY <1>1, <1>2, SubscribeEffect, PlacesAssumption
<1>4. PlacesTypeOK'
  BY <1>1, <1>2, <1>3 DEF PlacesTypeOK
<1>5. \A c \in Page \ {p} : \A f : Queued(c, f)' <=> Queued(c, f)
  BY <1>3 DEF Queued
<1>6. ASSUME NEW f, Queued(p, f)' PROVE f.kind \in Retainable /\ f.item = NoItem
  BY <1>2, <1>3, <1>6 DEF RetainedOK
<1>7. \A q, c : Pending(q, c)' <=> Pending(q, c)
  BY <1>1 DEF Pending
<1>8. EventsOK'
  BY <1>5, <1>6, PlacesAssumption DEF PlacesInv, EventsOK, EventOK
<1>9. ClicksOK'
  <2>1. "click" \notin Retainable
    BY DEF Retainable
  <2>2. \A q, i : Clicked(q, i)' <=> Clicked(q, i)
    BY <1>1 DEF Clicked
  <2> QED
    BY <1>1, <1>5, <1>6, <1>7, <2>1, <2>2, PlacesAssumption DEF PlacesInv, ClicksOK, Calls
<1>10. LinkOK'
  BY <1>1, <1>2 DEF LinkOK, PlacesTypeOK
<1>11. FillingOK'
  <2> SUFFICES ASSUME NEW q \in Page, populated[q], link'[q] = "reading", view[q] = "open",
                      q \in subscribers', NEW i \in Item
               PROVE  Listed(q, i)' /\ Mapped(q, i)'
    BY <1>1 DEF FillingOK
  <2>1. q # p
    BY <1>1, <1>2 DEF LinkOK
  <2>2. link[q] = "reading" /\ q \in subscribers
    BY <1>1, <1>2, <2>1 DEF PlacesTypeOK
  <2>3. Listed(q, i) /\ Mapped(q, i)
    BY <2>2 DEF PlacesInv, FillingOK
  <2> QED
    BY <1>1, <1>5, <1>7, <2>1, <2>3 DEF Listed, Mapped, Calls, Told
<1>12. RetainedOK' /\ LoneOK'
  BY <1>1 DEF PlacesInv, RetainedOK, LoneOK, ReadyEvent
<1> QED
  BY <1>4, <1>8, <1>9, <1>10, <1>11, <1>12 DEF PlacesInv

\* The calls that an event gives rise to.
LEMMA ReactionCalls ==
  ASSUME NEW p \in Page, NEW e \in Event, EventOK(e), populated[p] \in BOOLEAN
  PROVE  /\ Reaction(p, e) \in Seq(Call)
         /\ \A i \in Item :
              (\E j \in 1 .. Len(Reaction(p, e)) :
                 Reaction(p, e)[j] = [method |-> "map.setView", item |-> i])
              => e.kind = "click" /\ e.page = p /\ e.item = i
         /\ e.kind = "list_ready" /\ e.page = p /\ ~populated[p] =>
              \A i \in Item : \E j \in 1 .. Len(Reaction(p, e)) :
                Reaction(p, e)[j] = [method |-> "list.add", item |-> i]
         /\ e.kind = "list_add" => \E j \in 1 .. Len(Reaction(p, e)) :
              Reaction(p, e)[j] = [method |-> "markers.add", item |-> e.item]
<1> DEFINE s == Reaction(p, e)
<1>1. CASE e.kind = "list_ready" /\ e.page = p /\ ~populated[p]
  <2>1. s = AddAllParks
    BY <1>1 DEF Reaction
  <2>2. /\ AddAllParks \in Seq(Call) /\ Len(AddAllParks) = NumParks
        /\ \A i \in 1 .. NumParks : AddAllParks[i] = [method |-> "list.add", item |-> i]
    BY PlacesAssumption DEF AddAllParks, Call
  <2>3. \A j \in 1 .. Len(s) : s[j].method = "list.add"
    BY <2>1, <2>2
  <2> HIDE DEF s
  <2> QED
    BY <1>1, <2>1, <2>2, <2>3, PlacesAssumption DEF s
<1>2. CASE e.kind = "list_add"
  <2>1. s = <<[method |-> "markers.add", item |-> e.item]>> /\ e.item \in Item
    BY <1>2 DEF Reaction, One, Event, EventOK, Retainable
  <2> QED
    BY <1>2, <2>1 DEF Call
<1>3. CASE e.kind = "click" /\ e.page = p
  <2>1. s = <<[method |-> "map.setView", item |-> e.item]>> /\ e.item \in Item
    BY <1>3 DEF Reaction, One, Event, EventOK, Retainable
  <2> QED
    BY <1>3, <2>1 DEF Call
<1>4. CASE /\ ~(e.kind = "list_ready" /\ e.page = p /\ ~populated[p])
           /\ e.kind # "list_add" /\ ~(e.kind = "click" /\ e.page = p)
  <2>1. s = <<>>
    BY <1>4 DEF Reaction
  <2> QED
    BY <1>4, <2>1
<1> QED
  BY <1>1, <1>2, <1>3, <1>4

LEMMA ReadEventStep ==
  ASSUME PlacesInv, NEW p \in Page, ReadEvent(p)
  PROVE  PlacesInv'
<1> DEFINE e == Head(queue[p])
<1>1. /\ link[p] = "reading" /\ todo[p] = <<>> /\ TakeEvent(p)
      /\ todo' = [todo EXCEPT ![p] = Reaction(p, e)]
      /\ populated' = [populated EXCEPT ![p] = @ \/ (e.kind = "list_ready" /\ e.page = p)]
      /\ UNCHANGED <<subscribers, retained, view, ready, listShown, mapShown, viewAt, clicks,
                     link, listStore, markerStore>>
  BY DEF ReadEvent, TakeEvent, pageVars, stores
<1>2. PlacesTypeOK /\ LinkOK /\ BroadcasterTypeOK
  BY DEF PlacesInv, PlacesTypeOK
<1>3. /\ BroadcasterTypeOK'
      /\ e \in Event /\ Queued(p, e)
      /\ \A c \in Page, f \in Event : Queued(c, f)' => Queued(c, f)
      /\ \A c \in Page, f \in Event : Queued(c, f) => Queued(c, f)' \/ (c = p /\ f = e)
  BY <1>1, <1>2, TakeEffect, PlacesAssumption
<1>4. EventOK(e) /\ (e.kind = "click" => Clicked(e.page, e.item))
  BY <1>3, PlacesAssumption DEF PlacesInv, EventsOK, ClicksOK
<1> HIDE DEF e
<1> DEFINE s == Reaction(p, e)
<1>5. populated[p] \in BOOLEAN
  BY <1>2 DEF PlacesTypeOK
<1>6. /\ s \in Seq(Call)
      /\ \A i \in Item :
           (\E j \in 1 .. Len(s) : s[j] = [method |-> "map.setView", item |-> i])
           => e.kind = "click" /\ e.page = p /\ e.item = i
      /\ e.kind = "list_ready" /\ e.page = p /\ ~populated[p] =>
           \A i \in Item : \E j \in 1 .. Len(s) : s[j] = [method |-> "list.add", item |-> i]
      /\ e.kind = "list_add" =>
           \E j \in 1 .. Len(s) : s[j] = [method |-> "markers.add", item |-> e.item]
  BY <1>3, <1>4, <1>5, ReactionCalls
<1>7. todo'[p] = s /\ \A q \in Page \ {p} : todo'[q] = todo[q]
  BY <1>1, <1>2 DEF PlacesTypeOK
<1> HIDE DEF s
<1>8. PlacesTypeOK'
  <2>1. todo' \in [Page -> Seq(Call)]
    BY <1>1, <1>2, <1>6 DEF PlacesTypeOK, s
  <2>2. populated' \in [Page -> BOOLEAN]
    BY <1>1, <1>2 DEF PlacesTypeOK
  <2> QED
    BY <1>1, <1>2, <1>3, <2>1, <2>2 DEF PlacesTypeOK
<1>9. RetainedOK' /\ EventsOK'
  BY <1>1, <1>3, PlacesAssumption DEF PlacesInv, RetainedOK, EventsOK
<1>10. LinkOK'
  BY <1>1, <1>2, <1>7 DEF LinkOK, PlacesTypeOK
<1>11. ClicksOK'
  <2>1. \A q, i : Clicked(q, i)' <=> Clicked(q, i)
    BY <1>1 DEF Clicked
  <2>2. ASSUME NEW q \in Page, NEW i \in Item, Calls(q, "map.setView", i)'
        PROVE  Clicked(q, i)
    <3>1. CASE q = p
      BY <1>4, <1>6, <1>7, <2>2, <3>1 DEF Calls, Pending
    <3>2. CASE q # p
      BY <1>7, <2>2, <3>2 DEF Calls, Pending, PlacesInv, ClicksOK
    <3> QED
      BY <3>1, <3>2
  <2> QED
    BY <1>1, <1>3, <2>1, <2>2, PlacesAssumption DEF PlacesInv, ClicksOK
<1>12. FillingOK'
  <2> SUFFICES ASSUME NEW q \in Page, populated'[q], link[q] = "reading", view[q] = "open",
                      q \in subscribers, NEW i \in Item
               PROVE  Listed(q, i)' /\ Mapped(q, i)'
    BY <1>1 DEF FillingOK
  <2>1. CASE q # p
    <3>1. populated[q] /\ todo'[q] = todo[q]
      BY <1>1, <1>2, <1>7, <2>1 DEF PlacesTypeOK
    <3>2. Listed(q, i) /\ Mapped(q, i)
      BY <3>1 DEF PlacesInv, FillingOK
    <3> QED
      BY <1>1, <1>3, <2>1, <3>1, <3>2 DEF Listed, Mapped, Calls, Pending, Told
  <2>2. CASE q = p /\ populated[p]
    <3>1. Listed(p, i) /\ Mapped(p, i)
      BY <2>2 DEF PlacesInv, FillingOK
    <3>2. \A m : ~Calls(p, m, i)
      BY <1>1 DEF Calls, Pending
    <3>3. i \in listShown[p] /\ (i \in mapShown[p] \/ Told(p, i))
      BY <3>1, <3>2 DEF Listed, Mapped
    <3>4. Told(p, i) => Told(p, i)' \/ (e.kind = "list_add" /\ e.item = i)
      BY <1>3 DEF Told
    <3>5. e.kind = "list_add" /\ e.item = i => Calls(p, "markers.add", i)'
      BY <1>6, <1>7 DEF Calls, Pending
    <3> QED
      BY <1>1, <2>2, <3>3, <3>4, <3>5 DEF Listed, Mapped
  <2>3. CASE q = p /\ ~populated[p]
    <3>1. e.kind = "list_ready" /\ e.page = p
      BY <1>1, <1>2, <2>3 DEF PlacesTypeOK
    <3>2. Calls(p, "list.add", i)'
      BY <1>6, <1>7, <2>3, <3>1 DEF Calls, Pending
    <3> QED
      BY <2>3, <3>2 DEF Listed, Mapped
  <2> QED
    BY <2>1, <2>2, <2>3
<1>13. LoneOK'
  BY <1>1 DEF PlacesInv, LoneOK, ReadyEvent
<1> QED
  BY <1>8, <1>9, <1>10, <1>11, <1>12, <1>13 DEF PlacesInv

\* A call of the branch: the page and the store change, and everybody is told.
LEMMA MakeCallStep ==
  ASSUME PlacesInv, NEW p \in Page, MakeCall(p)
  PROVE  PlacesInv'
<1>0. /\ todo[p] # <<>> /\ todo \in [Page -> Seq(Call)] /\ todo' = [todo EXCEPT ![p] = Tail(@)]
  BY DEF MakeCall, PlacesInv, PlacesTypeOK
<1> PICK c \in Call : c = Head(todo[p])
  BY <1>0, CallMade
<1>1. /\ link[p] = "reading" /\ todo[p] # <<>> /\ todo' = [todo EXCEPT ![p] = Tail(@)]
      /\ UNCHANGED <<view, ready, clicks, link, populated>>
      /\ \/ c.method = "list.add" /\ ListAdd(p, c.item)
         \/ c.method = "markers.add" /\ MarkersAdd(p, c.item)
         \/ c.method = "map.setView" /\ SetView(p, c.item)
  BY DEF MakeCall
<1>2. PlacesTypeOK /\ LinkOK /\ BroadcasterTypeOK
  BY DEF PlacesInv, PlacesTypeOK
<1>3. /\ todo' \in [Page -> Seq(Call)]
      /\ c \in Call /\ Pending(p, c)
      /\ \A q \in Page : \A d : Pending(q, d)' => Pending(q, d)
      /\ \A q \in Page : \A d : Pending(q, d) => Pending(q, d)' \/ (q = p /\ c = d)
  BY <1>1, <1>2, CallMade DEF PlacesTypeOK
<1>4. c.item \in Item /\ c = [method |-> c.method, item |-> c.item]
  BY <1>3 DEF Call
<1>5. LinkOK'
  <2>1. \A q \in Page : todo'[q] = todo[q] \/ q = p
    BY <1>1, <1>2 DEF PlacesTypeOK
  <2> QED
    BY <1>1, <1>2, <2>1 DEF LinkOK
<1>6. \A q, i : Clicked(q, i)' <=> Clicked(q, i)
  BY <1>1 DEF Clicked
<1>7. \A q \in Page : \A i : Calls(q, "map.setView", i)' => Calls(q, "map.setView", i)
  BY <1>3 DEF Calls
<1>8. ASSUME NEW q \in Page, NEW m, NEW i, Calls(q, m, i)
      PROVE  Calls(q, m, i)' \/ (q = p /\ c.method = m /\ c.item = i)
  BY <1>3, <1>8 DEF Calls
<1>9. ASSUME populated[p], view[p] = "open", p \in subscribers, NEW i \in Item
      PROVE  Listed(p, i) /\ Mapped(p, i)
  BY <1>1, <1>9 DEF PlacesInv, FillingOK
<1>10. ASSUME NEW e \in Event, EventOK(e), e.kind \notin {"click", "list_ready"}, Broadcast(e),
              viewAt' = viewAt
       PROVE  /\ BroadcasterTypeOK' /\ RetainedOK' /\ EventsOK' /\ ClicksOK' /\ LoneOK'
              /\ subscribers' \subseteq subscribers
              /\ \A q \in subscribers' : Queued(q, e)'
              /\ \A q \in Page, f \in Event : Queued(q, f) => Queued(q, f)'
  <2>1. /\ BroadcasterTypeOK'
        /\ \A q \in Page, f \in Event : Queued(q, f)' => Queued(q, f) \/ f = e
        /\ \A q \in Page, f \in Event : Queued(q, f) => Queued(q, f)'
        /\ subscribers' \subseteq subscribers
        /\ \A q \in subscribers' : Queued(q, e)'
    BY <1>2, <1>10, BroadcastEffect, PlacesAssumption
  <2>2. RetainedOK' /\ EventsOK' /\ retained'["list_ready"] = retained["list_ready"]
    BY <1>2, <1>10, BroadcastInOrder DEF PlacesInv
  <2>3. ClicksOK'
    BY <1>6, <1>7, <1>10, <2>1, PlacesAssumption DEF PlacesInv, ClicksOK
  <2>4. LoneOK'
    BY <1>1, <2>2 DEF PlacesInv, LoneOK, ReadyEvent
  <2> QED
    BY <2>1, <2>2, <2>3, <2>4
<1>11. CASE c.method = "list.add" /\ ListAdd(p, c.item)
  <2> DEFINE e == [kind |-> "list_add", page |-> p, item |-> c.item]
  <2>1. /\ listStore' = listStore \cup {c.item}
        /\ listShown' = IF view[p] = "open"
                        THEN [listShown EXCEPT ![p] = @ \cup {c.item}] ELSE listShown
        /\ Broadcast(e)
        /\ UNCHANGED <<mapShown, viewAt, markerStore>>
    BY <1>11 DEF ListAdd, ShowOn
  <2>2. e \in Event /\ EventOK(e) /\ e.kind = "list_add" /\ e.item = c.item
    BY <1>4, PlacesAssumption, BroadcasterAssumption DEF Event, EventOK, Kinds, Retainable
  <2> HIDE DEF e
  <2>3. /\ BroadcasterTypeOK' /\ RetainedOK' /\ EventsOK' /\ ClicksOK' /\ LoneOK'
        /\ subscribers' \subseteq subscribers
        /\ \A q \in subscribers' : Queued(q, e)'
        /\ \A q \in Page, f \in Event : Queued(q, f) => Queued(q, f)'
    BY <1>10, <2>1, <2>2
  <2>4. listShown' \in [Page -> SUBSET Item]
    BY <1>2, <1>4, <2>1 DEF PlacesTypeOK
  <2>5. PlacesTypeOK'
    BY <1>1, <1>2, <1>3, <1>4, <2>1, <2>3, <2>4 DEF PlacesTypeOK
  <2>6. FillingOK'
    <3> SUFFICES ASSUME NEW q \in Page, populated[q], link[q] = "reading", view[q] = "open",
                        q \in subscribers', NEW i \in Item
                 PROVE  Listed(q, i)' /\ Mapped(q, i)'
      BY <1>1 DEF FillingOK
    <3>1. Listed(q, i) /\ Mapped(q, i)
      BY <2>3 DEF PlacesInv, FillingOK
    <3>2. i \in listShown[q] => i \in listShown'[q]
      BY <1>2, <2>1 DEF PlacesTypeOK
    <3>3. Told(q, i) => Told(q, i)'
      BY <2>3 DEF Told
    <3>4. CASE q = p /\ c.item = i
      <4>1. i \in listShown'[q]
        BY <1>2, <2>1, <3>4 DEF PlacesTypeOK
      <4>2. Told(q, i)'
        BY <2>2, <2>3, <3>4 DEF Told
      <4> QED
        BY <4>1, <4>2 DEF Listed, Mapped
    <3>5. CASE ~(q = p /\ c.item = i)
      <4>1. \A m : Calls(q, m, i) => Calls(q, m, i)'
        BY <1>8, <3>5
      <4> QED
        BY <2>1, <3>1, <3>2, <3>3, <4>1 DEF Listed, Mapped
    <3> QED
      BY <3>4, <3>5
  <2> QED
    BY <1>5, <2>3, <2>5, <2>6 DEF PlacesInv
<1>12. CASE c.method = "markers.add" /\ MarkersAdd(p, c.item)
  <2> DEFINE e == [kind |-> "marker_add", page |-> p, item |-> c.item]
  <2>1. /\ markerStore' = markerStore \cup {c.item}
        /\ mapShown' = IF view[p] = "open"
                       THEN [mapShown EXCEPT ![p] = @ \cup {c.item}] ELSE mapShown
        /\ Broadcast(e)
        /\ UNCHANGED <<listShown, viewAt, listStore>>
    BY <1>12 DEF MarkersAdd, ShowOn
  <2>2. e \in Event /\ EventOK(e) /\ e.kind = "marker_add"
    BY <1>4, PlacesAssumption, BroadcasterAssumption DEF Event, EventOK, Kinds, Retainable
  <2> HIDE DEF e
  <2>3. /\ BroadcasterTypeOK' /\ RetainedOK' /\ EventsOK' /\ ClicksOK' /\ LoneOK'
        /\ subscribers' \subseteq subscribers
        /\ \A q \in Page, f \in Event : Queued(q, f) => Queued(q, f)'
    BY <1>10, <2>1, <2>2
  <2>4. mapShown' \in [Page -> SUBSET Item]
    BY <1>2, <1>4, <2>1 DEF PlacesTypeOK
  <2>5. PlacesTypeOK'
    BY <1>1, <1>2, <1>3, <1>4, <2>1, <2>3, <2>4 DEF PlacesTypeOK
  <2>6. FillingOK'
    <3> SUFFICES ASSUME NEW q \in Page, populated[q], link[q] = "reading", view[q] = "open",
                        q \in subscribers', NEW i \in Item
                 PROVE  Listed(q, i)' /\ Mapped(q, i)'
      BY <1>1 DEF FillingOK
    <3>1. Listed(q, i) /\ Mapped(q, i)
      BY <2>3 DEF PlacesInv, FillingOK
    <3>2. i \in mapShown[q] => i \in mapShown'[q]
      BY <1>2, <2>1 DEF PlacesTypeOK
    <3>3. Told(q, i) => Told(q, i)'
      BY <2>3 DEF Told
    <3>4. Calls(q, "list.add", i) => Calls(q, "list.add", i)'
      BY <1>8, <1>12
    <3>5. Calls(q, "markers.add", i) => Calls(q, "markers.add", i)' \/ i \in mapShown'[q]
      BY <1>2, <1>8, <2>1 DEF PlacesTypeOK
    <3> QED
      BY <2>1, <3>1, <3>2, <3>3, <3>4, <3>5 DEF Listed, Mapped
  <2> QED
    BY <1>5, <2>3, <2>5, <2>6 DEF PlacesInv
<1>13. CASE c.method = "map.setView" /\ SetView(p, c.item)
  <2>1. /\ viewAt' = IF view[p] = "open" THEN [viewAt EXCEPT ![p] = c.item] ELSE viewAt
        /\ UNCHANGED <<subscribers, queue, retained, listShown, mapShown, listStore, markerStore>>
    BY <1>13 DEF SetView, broadcasterVars, stores
  <2>2. Clicked(p, c.item)
    BY <1>3, <1>4, <1>13 DEF PlacesInv, ClicksOK, Calls
  <2>3. \A q \in Page : viewAt'[q] = viewAt[q] \/ (q = p /\ viewAt'[q] = c.item)
    BY <1>2, <2>1 DEF PlacesTypeOK
  <2>4. viewAt' \in [Page -> Item \cup {NoItem}]
    BY <1>2, <1>4, <2>1 DEF PlacesTypeOK
  <2>5. PlacesTypeOK'
    BY <1>1, <1>2, <1>3, <2>1, <2>4 DEF PlacesTypeOK, BroadcasterTypeOK
  <2>6. \A q, e : Queued(q, e)' <=> Queued(q, e)
    BY <2>1 DEF Queued
  <2>7. RetainedOK' /\ EventsOK' /\ LoneOK'
    BY <1>1, <2>1, <2>6 DEF PlacesInv, RetainedOK, EventsOK, LoneOK, ReadyEvent
  <2>8. ClicksOK'
    BY <1>6, <1>7, <2>2, <2>3, <2>6 DEF PlacesInv, ClicksOK
  <2>9. FillingOK'
    <3> SUFFICES ASSUME NEW q \in Page, populated[q], link[q] = "reading", view[q] = "open",
                        q \in subscribers, NEW i \in Item
                 PROVE  Listed(q, i)' /\ Mapped(q, i)'
      BY <1>1, <2>1 DEF FillingOK
    <3>1. Listed(q, i) /\ Mapped(q, i)
      BY DEF PlacesInv, FillingOK
    <3>2. /\ Calls(q, "list.add", i) => Calls(q, "list.add", i)'
          /\ Calls(q, "markers.add", i) => Calls(q, "markers.add", i)'
      BY <1>8, <1>13
    <3> QED
      BY <2>1, <2>6, <3>1, <3>2 DEF Listed, Mapped, Told
  <2> QED
    BY <1>5, <2>5, <2>7, <2>8, <2>9 DEF PlacesInv
<1> QED
  BY <1>1, <1>11, <1>12, <1>13

-----------------------------------------------------------------------------
(* The theorems *)

LEMMA PlacesStep == PlacesInv /\ [PlacesNext]_placesVars => PlacesInv'
<1> SUFFICES ASSUME PlacesInv, [PlacesNext]_placesVars PROVE PlacesInv'
  OBVIOUS
<1>1. ASSUME NEW p \in Page, Mount(p) PROVE PlacesInv'
  BY <1>1, MountStep
<1>2. ASSUME NEW p \in Page, NEW k \in Retainable, ComponentReady(p, k) PROVE PlacesInv'
  BY <1>2, ComponentReadyStep
<1>3. ASSUME NEW p \in Page, NEW i \in Item, ItemClick(p, i) PROVE PlacesInv'
  BY <1>3, ItemClickStep
<1>4. ASSUME NEW p \in Page, Disconnect(p) PROVE PlacesInv'
  BY <1>4, DisconnectStep
<1>5. ASSUME NEW p \in Page, ParksSubscribe(p) \/ ConnectionLost(p) PROVE PlacesInv'
  BY <1>5, ParksSubscribeStep
<1>6. ASSUME NEW p \in Page, BffSubscribe(p) PROVE PlacesInv'
  BY <1>6, BffSubscribeStep
<1>7. ASSUME NEW p \in Page, ReadEvent(p) PROVE PlacesInv'
  BY <1>7, ReadEventStep
<1>8. ASSUME NEW p \in Page, MakeCall(p) PROVE PlacesInv'
  BY <1>8, MakeCallStep
<1>9. ASSUME UNCHANGED placesVars PROVE PlacesInv'
  <2>1. UNCHANGED <<subscribers, queue, retained, view, ready, listShown, mapShown, viewAt, clicks,
                    link, populated, todo, listStore, markerStore>>
    BY <1>9 DEF placesVars, broadcasterVars, pageVars, linkVars, stores
  <2>2. PlacesTypeOK' /\ RetainedOK' /\ LinkOK' /\ LoneOK'
    BY <2>1 DEF PlacesInv, PlacesTypeOK, BroadcasterTypeOK, RetainedOK, LinkOK, LoneOK, ReadyEvent
  <2>3. /\ \A q, e : Queued(q, e)' <=> Queued(q, e)
        /\ \A q, m, i : Calls(q, m, i)' <=> Calls(q, m, i)
        /\ \A q, i : Clicked(q, i)' <=> Clicked(q, i)
    BY <2>1 DEF Queued, Calls, Pending, Clicked
  <2>4. EventsOK' /\ ClicksOK'
    BY <2>1, <2>3 DEF PlacesInv, EventsOK, ClicksOK
  <2>5. \A q, i : /\ Listed(q, i) => Listed(q, i)'
                  /\ Mapped(q, i) => Mapped(q, i)'
    BY <2>1, <2>3 DEF Listed, Mapped, Told
  <2>6. FillingOK'
    BY <2>1, <2>5 DEF PlacesInv, FillingOK
  <2> QED
    BY <2>2, <2>4, <2>6 DEF PlacesInv
<1> QED
  BY <1>1, <1>2, <1>3, <1>4, <1>5, <1>6, <1>7, <1>8, <1>9 DEF PlacesNext, Service

LEMMA PlacesInvariance == PlacesSpec => []PlacesInv
BY InitPlaces, PlacesStep, PTL DEF PlacesSpec

\* Pages, connections, queues and stores are of their types and a queue never
\* exceeds its capacity (EventBroadcaster.broadcast).
THEOREM PlacesTypes == PlacesSpec => []PlacesTypeOK
<1>1. PlacesInv => PlacesTypeOK
  BY DEF PlacesInv
<1> QED
  BY <1>1, PlacesInvariance, PTL

\* A page's map moves only to items clicked on that page, whichever clicks its
\* connection hears of (parks_service.py, ListItemClickEvent).
THEOREM MapsFollowOwnClicks == PlacesSpec => []ViewFollowsOwnClicks
<1>1. PlacesInv => ViewFollowsOwnClicks
  BY DEF PlacesInv, ClicksOK, Clicked, ViewFollowsOwnClicks
<1> QED
  BY <1>1, PlacesInvariance, PTL

\* A populated page whose connection kept up has every park on list and map
\* (_reverse_connection, EventBroadcaster.broadcast).
THEOREM PopulatedPagesAreComplete == PlacesSpec => []PopulatedPageComplete
<1>1. PlacesInv => PopulatedPageComplete
  <2> SUFFICES ASSUME PlacesInv, NEW p \in Page,
                      populated[p], link[p] = "reading", view[p] = "open",
                      queue[p] = <<>>, todo[p] = <<>>, p \in subscribers
               PROVE  listShown[p] = Item /\ mapShown[p] = Item
    BY DEF PopulatedPageComplete
  <2>1. listShown[p] \subseteq Item /\ mapShown[p] \subseteq Item
    BY DEF PlacesInv, PlacesTypeOK
  <2>2. /\ \A m, i : ~Calls(p, m, i)
        /\ \A i : ~Told(p, i)
    BY DEF Calls, Pending, Told, Queued
  <2>3. \A i \in Item : Listed(p, i) /\ Mapped(p, i)
    BY DEF PlacesInv, FillingOK
  <2>4. \A i \in Item : i \in listShown[p] /\ i \in mapShown[p]
    BY <2>2, <2>3 DEF Listed, Mapped
  <2> QED
    BY <2>1, <2>4
<1> QED
  BY <1>1, PlacesInvariance, PTL

\* The connection of a page that is alone finds the page's ready event in its
\* queue (EventBroadcaster.subscribe).
THEOREM LonePagesAreSeen == PlacesSpec => LonePageIsSeen
<1> DEFINE Seen == \A p \in Page :
             Subscribes(p) /\ (\A q \in Page \ {p} : ready[q] = {} /\ view[q] # "closed")
             => SeesOwnReady(p)'
<1>1. PlacesInv /\ PlacesInv' /\ [PlacesNext]_placesVars => Seen
  <2> SUFFICES ASSUME PlacesInv, PlacesInv', [PlacesNext]_placesVars, NEW p \in Page,
                      link[p] = "called", link'[p] = "reading", view[p] = "open",
                      \A q \in Page \ {p} : ready[q] = {} /\ view[q] # "closed"
               PROVE  SeesOwnReady(p)'
    BY DEF Subscribes
  <2>1. PlacesTypeOK /\ LinkOK /\ LoneOK /\ BroadcasterTypeOK /\ BroadcasterTypeOK'
    BY DEF PlacesInv, PlacesTypeOK
  <2>2. BffSubscribe(p)
    <3>1. \A q \in Page, k \in Retainable : ~ComponentReady(q, k)
      BY <2>1 DEF ComponentReady, PlacesTypeOK
    <3>2. \A q \in Page : /\ ~Mount(q) /\ ~Disconnect(q) /\ ~ParksSubscribe(q)
                          /\ ~ReadEvent(q) /\ ~MakeCall(q) /\ ~ConnectionLost(q)
                          /\ \A i \in Item : ~ItemClick(q, i)
      BY <2>1 DEF Mount, Disconnect, ParksSubscribe, ReadEvent, MakeCall, ConnectionLost,
                  ItemClick, PlacesTypeOK, linkVars
    <3>3. ~UNCHANGED placesVars
      BY DEF placesVars, linkVars
    <3>4. PICK q \in Page : BffSubscribe(q)
      BY <3>1, <3>2, <3>3 DEF PlacesNext, Service
    <3> QED
      BY <2>1, <3>4 DEF BffSubscribe, PlacesTypeOK
  <2>3. retained["list_ready"] = ReadyEvent(p, "list_ready")
    BY <2>1 DEF LinkOK, LoneOK, Retainable
  <2>4. ReadyEvent(p, "list_ready") \in Event
    BY PlacesAssumption DEF ReadyEvent, Event, Kinds
  <2>5. Subscribe(p)
    BY <2>2 DEF BffSubscribe
  <2>6. Queued(p, ReadyEvent(p, "list_ready"))'
    <3> DEFINE e == ReadyEvent(p, "list_ready")
    <3>1. e # NoEvent /\ retained["list_ready"] = e /\ "list_ready" \in Retainable
      BY <2>3, <2>4, BroadcasterAssumption DEF Retainable
    <3>2. Queued(p, e)' <=> e' # NoEvent /\ \E k \in Retainable : retained[k] = e
      BY <2>1, <2>5, SubscribeEffect, PlacesAssumption DEF ReadyEvent
    <3> QED
      BY <3>1, <3>2 DEF ReadyEvent
  <2>7. queue'[p] \in Seq(Event) /\ DOMAIN queue'[p] = 1 .. Len(queue'[p])
    BY <2>1, PlacesAssumption DEF BroadcasterTypeOK
  <2> QED
    BY <2>6, <2>7 DEF Queued, SeesOwnReady, ReadyEvent
<1>2. PlacesSpec => [][Seen]_placesVars
  BY <1>1, PlacesInvariance, PTL DEF PlacesSpec
<1> QED
  BY <1>2 DEF LonePageIsSeen

=============================================================================
