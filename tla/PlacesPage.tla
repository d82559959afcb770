----------------------------- MODULE PlacesPage -----------------------------
(***************************************************************************)
(* The places demo: pages with a list and a map in the front end           *)
(* (services/places_bff, packages/bff_engine) and the parks service that   *)
(* fills them (services/places_backend).                                   *)
(*                                                                         *)
(* When both components of a page are ready in the browser, the page calls *)
(* parks.subscribe.  The service answers by connecting back: it subscribes *)
(* to the front end's events, fills the list when it sees the page's own   *)
(* ready event, adds a marker for every list item anybody adds, and moves  *)
(* the page's map to an item clicked on that page.  The connection back is *)
(* a task of its own that nobody cancels.                                  *)
(*                                                                         *)
(* There is one connection back per page, so both go by the same name.  A  *)
(* call of the service to the front end (list.add, ...) is one action.     *)
(***************************************************************************)
EXTENDS EventBroadcaster, FiniteSets

CONSTANTS
  NumParks,     \* the parks are items 1 .. NumParks, in the service's order
  LossyPages,   \* pages whose connection back may fail
  MaxClicks     \* bound on the clicks on each page

ASSUME PlacesAssumption ==
  /\ NumParks \in Nat
  /\ Item = 1 .. NumParks
  /\ Connection = Page
  /\ LossyPages \subseteq Page
  /\ MaxClicks \in Nat

VARIABLES
  view,         \* the page's life
  ready,        \* components that have reported ready
  link,         \* how far the connection back has come
  populated,    \* _reverse_connection's populated
  todo,         \* the calls left in the branch it is executing
  listShown,    \* items the page's list shows
  mapShown,     \* markers the page's map shows
  viewAt,       \* item the page's map was last moved to
  clicks,       \* items clicked on the page so far
  listStore,    \* list_store
  markerStore   \* marker_store

pageVars == <<view, ready, listShown, mapShown, viewAt, clicks>>
linkVars == <<link, populated, todo>>
stores == <<listStore, markerStore>>
placesVars == <<broadcasterVars, pageVars, linkVars, stores>>

Call == [method : {"list.add", "markers.add", "map.setView"}, item : Item]

PlacesTypeOK ==
  /\ BroadcasterTypeOK
  /\ view \in [Page -> {"new", "open", "closed"}]
  /\ ready \in [Page -> SUBSET Retainable]
  /\ link \in [Page -> {"none", "asked", "called", "reading", "lost"}]
  /\ populated \in [Page -> BOOLEAN]
  /\ todo \in [Page -> Seq(Call)]
  /\ listShown \in [Page -> SUBSET Item]
  /\ mapShown \in [Page -> SUBSET Item]
  /\ viewAt \in [Page -> Item \cup {NoItem}]
  /\ clicks \in [Page -> Seq(Item)]
  /\ listStore \in SUBSET Item
  /\ markerStore \in SUBSET Item

PlacesInit ==
  /\ BroadcasterInit
  /\ view = [p \in Page |-> "new"]
  /\ ready = [p \in Page |-> {}]
  /\ link = [p \in Page |-> "none"]
  /\ populated = [p \in Page |-> FALSE]
  /\ todo = [p \in Page |-> <<>>]
  /\ listShown = [p \in Page |-> {}]
  /\ mapShown = [p \in Page |-> {}]
  /\ viewAt = [p \in Page |-> NoItem]
  /\ clicks = [p \in Page |-> <<>>]
  /\ listStore = {}
  /\ markerStore = {}

-----------------------------------------------------------------------------
(* The page *)

\* mount: the drivers take their snapshots of the stores and subscribe.
Mount(p) ==
  /\ view[p] = "new"
  /\ view' = [view EXCEPT ![p] = "open"]
  /\ listShown' = [listShown EXCEPT ![p] = listStore]
  /\ mapShown' = [mapShown EXCEPT ![p] = markerStore]
  /\ UNCHANGED <<broadcasterVars, ready, viewAt, clicks, linkVars, stores>>

ReadyEvent(p, k) == [kind |-> k, page |-> p, item |-> NoItem]

\* "list-ready" or "map-ready" from the browser; with the second one the
\* subscribe task is started.
ComponentReady(p, k) ==
  /\ view[p] = "open"
  /\ k \notin ready[p]
  /\ ready' = [ready EXCEPT ![p] = @ \cup {k}]
  /\ Broadcast(ReadyEvent(p, k))
  /\ link' = [link EXCEPT ![p] = IF ready'[p] = Retainable THEN "asked" ELSE @]
  /\ UNCHANGED <<view, listShown, mapShown, viewAt, clicks, populated, todo, stores>>

\* "item-click"
ItemClick(p, i) ==
  /\ view[p] = "open"
  /\ i \in listShown[p]
  /\ Len(clicks[p]) < MaxClicks
  /\ clicks' = [clicks EXCEPT ![p] = Append(@, i)]
  /\ Broadcast([kind |-> "click", page |-> p, item |-> i])
  /\ UNCHANGED <<view, ready, listShown, mapShown, viewAt, linkVars, stores>>

\* disconnect: the subscribe task is cancelled, with its request sent or not,
\* and the channel's retained events are cleared.
Disconnect(p) ==
  /\ view[p] = "open"
  /\ view' = [view EXCEPT ![p] = "closed"]
  /\ ClearRetained
  /\ \/ UNCHANGED link
     \/ /\ link[p] = "asked"
        /\ link' = [link EXCEPT ![p] = "none"]
  /\ UNCHANGED <<ready, listShown, mapShown, viewAt, clicks, populated, todo, stores>>

-----------------------------------------------------------------------------
(* The parks service *)

\* parks.subscribe spawns the connection back.
ParksSubscribe(p) ==
  /\ link[p] = "asked"
  /\ link' = [link EXCEPT ![p] = "called"]
  /\ UNCHANGED <<broadcasterVars, pageVars, populated, todo, stores>>

\* Its first request, bff.subscribe.
BffSubscribe(p) ==
  /\ link[p] = "called"
  /\ link' = [link EXCEPT ![p] = "reading"]
  /\ Subscribe(p)
  /\ UNCHANGED <<pageVars, populated, todo, stores>>

AddAllParks == [i \in 1 .. NumParks |-> [method |-> "list.add", item |-> i]]
One(m, i) == <<[method |-> m, item |-> i]>>

\* Whose click it was is not looked at.
ReactionBug(p, e) ==
  CASE e.kind = "list_ready" /\ e.page = p /\ ~populated[p] -> AddAllParks
    [] e.kind = "list_add" -> One("markers.add", e.item)
    [] e.kind = "click" -> One("map.setView", e.item)
    [] OTHER -> <<>>

\* The cid of an added item is compared with the map's instead of the list's.
ReactionOtherCidBug(p, e) ==
  CASE e.kind = "list_ready" /\ e.page = p /\ ~populated[p] -> AddAllParks
    [] e.kind = "click" /\ e.page = p -> One("map.setView", e.item)
    [] OTHER -> <<>>

\* The calls the match statement makes for an event; list.add events count
\* whichever page they were for.
Reaction(p, e) ==
  CASE e.kind = "list_ready" /\ e.page = p /\ ~populated[p] -> AddAllParks
    [] e.kind = "list_add" -> One("markers.add", e.item)
    [] e.kind = "click" /\ e.page = p -> One("map.setView", e.item)
    [] OTHER -> <<>>

\* The next event of the stream.
ReadEvent(p) ==
  LET e == Head(queue[p]) IN
  /\ link[p] = "reading"
  /\ todo[p] = <<>>
  /\ TakeEvent(p)
  /\ todo' = [todo EXCEPT ![p] = Reaction(p, e)]
  /\ populated' = [populated EXCEPT ![p] =
                     @ \/ (e.kind = "list_ready" /\ e.page = p)]
  /\ UNCHANGED <<pageVars, link, stores>>

\* What a page shows changes only while it is open.
ShowOn(p, shown, i) ==
  IF view[p] = "open" THEN [shown EXCEPT ![p] = @ \cup {i}] ELSE shown

\* list.add: store, page, event.
ListAdd(p, i) ==
  /\ listStore' = listStore \cup {i}
  /\ listShown' = ShowOn(p, listShown, i)
  /\ Broadcast([kind |-> "list_add", page |-> p, item |-> i])
  /\ UNCHANGED <<mapShown, viewAt, markerStore>>

\* markers.add: store, page, event.
MarkersAdd(p, i) ==
  /\ markerStore' = markerStore \cup {i}
  /\ mapShown' = ShowOn(p, mapShown, i)
  /\ Broadcast([kind |-> "marker_add", page |-> p, item |-> i])
  /\ UNCHANGED <<listShown, viewAt, listStore>>

\* map.setView: the page only.
SetView(p, i) ==
  /\ viewAt' = IF view[p] = "open" THEN [viewAt EXCEPT ![p] = i] ELSE viewAt
  /\ UNCHANGED <<broadcasterVars, listShown, mapShown, stores>>

\* The next call of the branch, each awaited before the next.
MakeCall(p) ==
  LET c == Head(todo[p]) IN
  /\ link[p] = "reading"
  /\ todo[p] # <<>>
  /\ todo' = [todo EXCEPT ![p] = Tail(@)]
  /\ \/ c.method = "list.add" /\ ListAdd(p, c.item)
     \/ c.method = "markers.add" /\ MarkersAdd(p, c.item)
     \/ c.method = "map.setView" /\ SetView(p, c.item)
  /\ UNCHANGED <<view, ready, clicks, link, populated>>

\* A connection fails, or parks.subscribe does; the front end keeps its queue and
\* the page does not ask again.
ConnectionLost(p) ==
  /\ p \in LossyPages
  /\ link[p] \in {"asked", "called", "reading"}
  /\ link' = [link EXCEPT ![p] = "lost"]
  /\ todo' = [todo EXCEPT ![p] = <<>>]
  /\ UNCHANGED <<broadcasterVars, pageVars, populated, stores>>

-----------------------------------------------------------------------------
(* Specification *)

Service(p) ==
  \/ ParksSubscribe(p)
  \/ BffSubscribe(p)
  \/ ReadEvent(p)
  \/ MakeCall(p)

PlacesNext ==
  \E p \in Page :
    \/ Mount(p)
    \/ \E k \in Retainable : ComponentReady(p, k)
    \/ \E i \in Item : ItemClick(p, i)
    \/ Disconnect(p)
    \/ Service(p)
    \/ ConnectionLost(p)

PlacesSpec == PlacesInit /\ [][PlacesNext]_placesVars

\* The event loops run every task that is ready and requests that are not lost
\* are answered.  The users are free.
PlacesFairSpec == PlacesSpec /\ \A p \in Page : WF_placesVars(Service(p))

-----------------------------------------------------------------------------
(* Properties *)

\* A page's map moves only to items that were clicked on that very page,
\* though every connection sees the clicks on all pages (parks_service.py,
\* ListItemClickEvent).
ViewFollowsOwnClicks ==
  \A p \in Page :
    viewAt[p] # NoItem => \E j \in DOMAIN clicks[p] : clicks[p][j] = viewAt[p]

\* A connection that has seen its page's ready event, has caught up with the
\* stream and was not dropped from the subscribers has put every park on the
\* list and on the map of the page, whatever other connections do
\* (_reverse_connection, EventBroadcaster.broadcast).
PopulatedPageComplete ==
  \A p \in Page :
    populated[p] /\ link[p] = "reading" /\ view[p] = "open"
    /\ queue[p] = <<>> /\ todo[p] = <<>> /\ p \in subscribers
    => listShown[p] = Item /\ mapShown[p] = Item

SeesOwnReady(p) == \E j \in DOMAIN queue[p] : queue[p][j] = ReadyEvent(p, "list_ready")

\* A connection that has its page's ready event in its queue fills the list and
\* the map of the page, unless the page is closed, the connection fails or the
\* subscriber is dropped.
ReadyPageGetsPopulated ==
  \A p \in Page :
    link[p] = "reading" /\ SeesOwnReady(p) ~>
      \/ listShown[p] = Item /\ mapShown[p] = Item
      \/ view[p] = "closed" \/ link[p] = "lost" \/ p \notin subscribers

Subscribes(p) == link[p] = "called" /\ link'[p] = "reading" /\ view[p] = "open"

\* A page that is alone gets its ready event across: no other page has reported
\* ready or was closed by the time its connection back subscribes
\* (EventBroadcaster.subscribe).
LonePageIsSeen ==
  [][\A p \in Page :
       Subscribes(p) /\ (\A q \in Page \ {p} : ready[q] = {} /\ view[q] # "closed")
       => SeesOwnReady(p)']_placesVars

=============================================================================
