-------------------------- MODULE EventBroadcaster --------------------------
(***************************************************************************)
(* The broadcaster of the front ends' process                              *)
(* (packages/bff_engine/src/bff_engine/shared/event_broadcaster.py).       *)
(*                                                                         *)
(* Every subscriber (a backend's bff.subscribe stream) has a bounded       *)
(* queue.  Ready events are retained, one per kind and channel, and        *)
(* replayed to new subscribers.  The pages modelled share one channel, so  *)
(* the retained events are told apart by their kind alone.                 *)
(***************************************************************************)
EXTENDS Naturals, Sequences

CONSTANTS
  Connection,   \* the subscribing connections
  Page,         \* page instances: the cid in an event
  Item,         \* ids of list items and markers
  NoItem,       \* the event is about no item
  NoEvent,      \* nothing retained
  QueueSize     \* capacity of a subscriber's queue

Kinds == {"list_ready", "map_ready", "list_add", "marker_add", "click"}

\* Kinds with a retained_key.
Retainable == {"list_ready", "map_ready"}

Event == [kind : Kinds, page : Page, item : Item \cup {NoItem}]

\* The retained events fit into a fresh queue; none of them is NoEvent.
ASSUME BroadcasterAssumption ==
  /\ QueueSize \in Nat
  /\ QueueSize >= 2
  /\ NoItem \notin Item
  /\ NoEvent \notin Event

VARIABLES
  subscribers,  \* _subscribers
  queue,        \* the queue of each connection; dropping it from _subscribers
                \* does not empty it
  retained      \* _retained

broadcasterVars == <<subscribers, queue, retained>>

BroadcasterTypeOK ==
  /\ subscribers \subseteq Connection
  /\ queue \in [Connection -> Seq(Event)]
  /\ \A c \in Connection : Len(queue[c]) <= QueueSize
  /\ retained \in [Retainable -> Event \cup {NoEvent}]

BroadcasterInit ==
  /\ subscribers = {}
  /\ queue = [c \in Connection |-> <<>>]
  /\ retained = [k \in Retainable |-> NoEvent]

Kept(k) == IF retained[k] = NoEvent THEN <<>> ELSE <<retained[k]>>

\* The retained events; no reader cares for the order of the two kinds.
Replay == Kept("list_ready") \o Kept("map_ready")

\* Operators named ...Bug are slips that would be easy to make in the operator
\* they precede; no specification uses them (README, "Mutants").

\* The retained events are not replayed.
SubscribeBug(c) ==
  /\ subscribers' = subscribers \cup {c}
  /\ queue' = [queue EXCEPT ![c] = <<>>]
  /\ UNCHANGED retained

\* EventBroadcaster.subscribe
Subscribe(c) ==
  /\ subscribers' = subscribers \cup {c}
  /\ queue' = [queue EXCEPT ![c] = Replay]
  /\ UNCHANGED retained

HasRoom(c) == Len(queue[c]) < QueueSize

\* The queues have no bound.
BroadcastUnboundedBug(e) ==
  /\ retained' = IF e.kind \in Retainable
                 THEN [retained EXCEPT ![e.kind] = e] ELSE retained
  /\ queue' = [c \in Connection |->
                 IF c \in subscribers THEN Append(queue[c], e) ELSE queue[c]]
  /\ UNCHANGED subscribers

\* A full queue loses the event and stays subscribed.
BroadcastBug(e) ==
  /\ retained' = IF e.kind \in Retainable
                 THEN [retained EXCEPT ![e.kind] = e] ELSE retained
  /\ queue' = [c \in Connection |->
                 IF c \in subscribers /\ HasRoom(c)
                 THEN Append(queue[c], e) ELSE queue[c]]
  /\ UNCHANGED subscribers

\* EventBroadcaster.broadcast: a subscriber whose queue is full is dropped.
Broadcast(e) ==
  /\ retained' = IF e.kind \in Retainable
                 THEN [retained EXCEPT ![e.kind] = e] ELSE retained
  /\ queue' = [c \in Connection |->
                 IF c \in subscribers /\ HasRoom(c)
                 THEN Append(queue[c], e) ELSE queue[c]]
  /\ subscribers' = {c \in subscribers : HasRoom(c)}

\* The reader of a stream takes the next event.
TakeEvent(c) ==
  /\ queue[c] # <<>>
  /\ queue' = [queue EXCEPT ![c] = Tail(@)]
  /\ UNCHANGED <<subscribers, retained>>

\* EventBroadcaster.clear_retained, for both kinds
ClearRetained ==
  /\ retained' = [k \in Retainable |-> NoEvent]
  /\ UNCHANGED <<subscribers, queue>>

=============================================================================
