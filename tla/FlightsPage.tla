----------------------------- MODULE FlightsPage ----------------------------
(***************************************************************************)
(* The flights demo: pages with a map in the front end                     *)
(* (services/flights_bff) and the flights service that fills them          *)
(* (services/flights_backend/flights_service.py), over ItemSync.           *)
(*                                                                         *)
(* When the map of a page is ready the page calls flights.subscribe.  The  *)
(* service connects back, waits for the page's ready event, adds the       *)
(* airports one call at a time, and starts a flight as a task of its own:  *)
(* the task adds the plane and the route and then moves the plane until it *)
(* has arrived.  Every call names the page's cid.  The plane and the route *)
(* have the same ids in every flight, and nobody cancels the connection    *)
(* back or its flight when the page is closed.  The connection and the     *)
(* flight are two tasks with one client, which sends as many requests at   *)
(* once as it is asked to: that their calls take turns is not built in.    *)
(*                                                                         *)
(* There is one connection back per page, so both go by the same name.     *)
(***************************************************************************)
EXTENDS ItemSync

CONSTANTS
  NumAirports,  \* the airports are items 1 .. NumAirports, in order
  Plane, Route, \* "plane1" and "flight1_route"
  Arrival,      \* the position at the destination; 0 is the origin
  Fixed,        \* what an airport holds
  Lane,         \* requests a task could have under way at once
  LossyPages    \* pages whose connection back may fail

\* The tasks that make calls for a page.
Task == {"connection", "flight"}

ASSUME FlightsAssumption ==
  /\ NumAirports \in Nat
  /\ Arrival \in Nat \ {0}
  /\ Plane # Route
  /\ {Plane, Route} \cap (1 .. NumAirports) = {}
  /\ Id = 1 .. NumAirports \cup {Plane, Route}
  /\ Value = [flight : Page, at : 0 .. Arrival] \cup {Fixed}
  /\ Fixed \notin [flight : Page, at : 0 .. Arrival]
  /\ Lane # {}
  /\ Caller = Page \X Task \X Lane
  /\ LossyPages \subseteq Page

VARIABLES
  link,      \* how far the connection back has come
  left,      \* airports still to be added
  flight,    \* where the flight task is
  at         \* the position it last reported

flightVars == <<link, left, flight, at>>
flightsVars == <<itemVars, flightVars>>

FlightsInit ==
  /\ ItemsInit
  /\ link = [p \in Page |-> "none"]
  /\ left = [p \in Page |-> 0]
  /\ flight = [p \in Page |-> "none"]
  /\ at = [p \in Page |-> 0]

-----------------------------------------------------------------------------
(* The page *)

\* "map-ready" from the browser: the subscribe task calls flights.subscribe,
\* which spawns the connection back.
MapReady(p) ==
  /\ phase[p] = "open"
  /\ link[p] = "none"
  /\ link' = [link EXCEPT ![p] = "called"]
  /\ UNCHANGED <<itemVars, left, flight, at>>

\* disconnect: the subscribe task is cancelled, which the connection back does
\* not notice.
Disconnect(p) == Leave(p) /\ UNCHANGED flightVars

-----------------------------------------------------------------------------
(* The connection back *)

\* It reads the page's ready event from its stream of events (EventBroadcaster
\* may fail to deliver that event, in which case nothing follows).
SeeMapReady(p) ==
  /\ link[p] = "called"
  /\ link' = [link EXCEPT ![p] = "populating"]
  /\ left' = [left EXCEPT ![p] = NumAirports]
  /\ UNCHANGED <<itemVars, flight, at>>

Requests(p, t) == {<<p, t, n>> : n \in Lane}

\* The task has a request that is not answered.
Waits(p, t) == \E c \in Requests(p, t) : call[c] # NoCall

\* A task of p calls on any lane that is free; the call names the page's cid.
SendOn(p, t, name, i, v) ==
  LET c == CHOOSE c \in Requests(p, t) : call[c] = NoCall
  IN \/ name = "add" /\ Add(c, i, v, p)
     \/ name = "update" /\ Update(c, i, v, p)

\* The call does not wait.
SendBug(p, t, name, i, v) ==
  /\ \E c \in Requests(p, t) : call[c] = NoCall
  /\ SendOn(p, t, name, i, v)

\* _send: the task goes on to its next call when the last is answered.
Send(p, t, name, i, v) == ~Waits(p, t) /\ SendOn(p, t, name, i, v)

AddAirport(p) ==
  /\ link[p] = "populating"
  /\ left[p] > 0
  /\ Send(p, "connection", "add", NumAirports + 1 - left[p], Fixed)
  /\ left' = [left EXCEPT ![p] = @ - 1]
  /\ UNCHANGED <<link, flight, at>>

\* The last airport is answered: build_flight, and the task that runs Flight.start
StartFlight(p) ==
  /\ link[p] = "populating"
  /\ left[p] = 0
  /\ ~Waits(p, "connection")
  /\ link' = [link EXCEPT ![p] = "reading"]
  /\ flight' = [flight EXCEPT ![p] = "boarding"]
  /\ UNCHANGED <<itemVars, left, at>>

Position(p, n) == [flight |-> p, at |-> n]

AddPlane(p) ==
  /\ flight[p] = "boarding"
  /\ Send(p, "flight", "add", Plane, Position(p, 0))
  /\ flight' = [flight EXCEPT ![p] = "plotting"]
  /\ UNCHANGED <<link, left, at>>

AddRoute(p) ==
  /\ flight[p] = "plotting"
  /\ Send(p, "flight", "add", Route, Position(p, Arrival))
  /\ flight' = [flight EXCEPT ![p] = "flying"]
  /\ UNCHANGED <<link, left, at>>

\* The loop ends before the plane's arrival is reported.
UpdatePlaneBug(p) ==
  /\ flight[p] = "flying"
  /\ \E n \in (at[p] + 1) .. (Arrival - 1) :
       /\ Send(p, "flight", "update", Plane, Position(p, n))
       /\ at' = [at EXCEPT ![p] = n]
  /\ UNCHANGED <<link, left, flight>>

\* One round of the loop, at least a second after the last: the plane is where
\* the clock says, and the loop ends with the report of the arrival.
UpdatePlane(p) ==
  /\ flight[p] = "flying"
  /\ \E n \in (at[p] + 1) .. Arrival :
       /\ Send(p, "flight", "update", Plane, Position(p, n))
       /\ at' = [at EXCEPT ![p] = n]
  /\ UNCHANGED <<link, left, flight>>

\* A request fails: one of the connection, whose client is closed under the
\* flight, or one of the flight, whose connection then reads on to no effect.
\* Either way nothing more is asked of the front end, and a call that has
\* reached it is carried out all the same.
ConnectionLost(p) ==
  /\ p \in LossyPages
  /\ link[p] \in {"called", "populating", "reading"}
  /\ link' = [link EXCEPT ![p] = "lost"]
  /\ flight' = [flight EXCEPT ![p] = IF @ = "none" THEN @ ELSE "failed"]
  /\ left' = [left EXCEPT ![p] = 0]
  /\ at' = [at EXCEPT ![p] = 0]
  /\ UNCHANGED itemVars

-----------------------------------------------------------------------------
(* Specification *)

PageAction(p) ==
  \/ Mount(p)
  \/ \E t \in Topic : Connect(p, t)
  \/ HandleInfo(p)

ServiceCall(p) == AddAirport(p) \/ AddPlane(p) \/ AddRoute(p) \/ UpdatePlane(p)

\* The front end goes on with a call of the page's tasks.
Answer(p) ==
  /\ \E t \in Task : \E c \in Requests(p, t) : Proceed(c)
  /\ UNCHANGED flightVars

\* The next step of the connection back and its flight, or of the front end for them.
Service(p) == StartFlight(p) \/ ServiceCall(p) \/ Answer(p)

FlightsNext ==
  \E p \in Page :
    \/ PageAction(p) /\ UNCHANGED flightVars
    \/ MapReady(p)
    \/ Disconnect(p)
    \/ SeeMapReady(p)
    \/ Service(p)
    \/ ConnectionLost(p)

FlightsSpec == FlightsInit /\ [][FlightsNext]_flightsVars

\* Tasks that are ready run and calls are answered; that a connection sees its
\* page's ready event is not assumed.  Whatever a page's tasks do they do one at
\* a time, so that fairness of Service is fairness of its parts.
FlightsFairSpec == FlightsSpec /\ \A p \in Page : WF_flightsVars(Service(p))

-----------------------------------------------------------------------------
(* Properties *)

Own(p, v) == v # Absent /\ v # Fixed /\ v.flight = p

Arrived(p) == flight[p] = "flying" /\ at[p] = Arrival /\ ~Waits(p, "flight")

\* An open page that shows its own plane goes on showing it and never sees it go
\* back: no report of a position is overtaken by a later one between the flight
\* task, the front end's handlers and the page, nor is the plane of another
\* page's flight, which has the same id in the same store, put in its place
\* (Flight.start, _send, markers_update, MapDriver.handle_info).
OwnPlaneMovesOn ==
  [][\A p \in Page :
       phase[p] = "open" /\ phase'[p] = "open" /\ Own(p, shown[p][Plane])
       => /\ Own(p, shown'[p][Plane])
          /\ shown'[p][Plane].at >= shown[p][Plane].at]_flightsVars

\* A page whose flight has arrived and that has handled its messages shows the
\* airports, the route and the plane at its destination (_reverse_connection,
\* Flight.start).
ArrivedFlightShown ==
  \A p \in Page :
    Arrived(p) /\ phase[p] = "open" /\ mailbox[p] = <<>>
    => /\ \A i \in 1 .. NumAirports : shown[p][i] = Fixed
       /\ Own(p, shown[p][Route])
       /\ shown[p][Plane] = Position(p, Arrival)

\* Every flight that is started arrives, whether or not its page is still open,
\* unless its connection fails: a page has one flight, so it is enough that
\* there is always a later time at which no plane is on its way (Flight.start).
FlightsEnd ==
  []<>(\A p \in Page : flight[p] \in {"none", "failed"} \/ Arrived(p))

=============================================================================
