-------------------------- MODULE FlightsPage_proofs --------------------------
(***************************************************************************)
(* What a page sees of its flight, for every number of pages, airports,    *)
(* positions and requests at once: its own plane, which never goes back,   *)
(* and in the end the whole flight.                                        *)
(*                                                                         *)
(* The calls of a page's two tasks turn out to come one at a time.  With   *)
(* that the argument follows what the service has told a page: each item   *)
(* it has called about is on its way in the one call under way, or the     *)
(* page holds it; and the positions of its plane lie in order from the     *)
(* page through its mailbox to the call and the flight task.               *)
(***************************************************************************)
EXTENDS FlightsPage, ItemSync_proofs

-----------------------------------------------------------------------------
(* The tasks and their requests *)

Mine(p) == {c \in Caller : c[1] = p}

LEMMA Callers ==
  /\ \A c \in Caller : c[1] \in Page /\ c[2] \in Task /\ c \in Requests(c[1], c[2])
  /\ \A p \in Page, t \in Task : Requests(p, t) = {c \in Mine(p) : c[2] = t}
<1>1. ASSUME NEW c \in Caller PROVE c[1] \in Page /\ c[2] \in Task /\ c \in Requests(c[1], c[2])
  <2>1. PICK p \in Page, t \in Task, n \in Lane : c = <<p, t, n>>
    BY FlightsAssumption
  <2> QED
    BY <2>1 DEF Requests
<1>2. ASSUME NEW p \in Page, NEW t \in Task, NEW c
      PROVE  c \in Requests(p, t) <=> c \in Mine(p) /\ c[2] = t
  <2>1. ASSUME c \in Requests(p, t) PROVE c \in Mine(p) /\ c[2] = t
    <3>1. PICK n \in Lane : c = <<p, t, n>>
      BY <2>1 DEF Requests
    <3> QED
      BY <3>1, FlightsAssumption DEF Mine
  <2> QED
    BY <2>1, <1>1 DEF Mine
<1> QED
  BY <1>1, <1>2

\* Where the connection and the flight of each page are.
Progress ==
  /\ left \in [Page -> 0 .. NumAirports]
  /\ at \in [Page -> 0 .. Arrival]
  /\ link \in [Page -> {"none", "called", "populating", "reading", "lost"}]
  /\ flight \in [Page -> {"none", "boarding", "plotting", "flying", "failed"}]
  /\ \A p \in Page :
       /\ flight[p] \in {"boarding", "plotting", "flying"} => link[p] = "reading"
       /\ flight[p] = "failed" => link[p] = "lost"
       /\ link[p] = "reading" => left[p] = 0
       /\ link[p] \in {"none", "called"} => flight[p] = "none"
       /\ flight[p] # "flying" => at[p] = 0

\* A page's calls come one at a time, the connection's before its flight starts,
\* and name the page.
InTurn(p) ==
  /\ \A c, d \in Mine(p) : call[c] # NoCall /\ call[d] # NoCall => c = d
  /\ \A c \in Mine(p) : call[c] # NoCall =>
       /\ c[2] = "connection" <=> flight[p] = "none"
       /\ call[c].op.cid = p
       /\ call[c].op.op \in {"add", "update"}
       /\ link[p] # "none"

\* A page that has been called back is subscribed.
Subscribed(p) ==
  /\ link[p] # "none" => phase[p] \in {"open", "closed"}
  /\ phase[p] = "open" => "own" \in topics[p]

-----------------------------------------------------------------------------
(* What a page has been told *)

\* The service has called about item i of page p, last with value v.
Told(p, i, v) ==
  \/ /\ link[p] \in {"populating", "reading"}
     /\ i \in 1 .. (NumAirports - left[p])
     /\ v = Fixed
  \/ /\ flight[p] \in {"plotting", "flying"}
     /\ i = Plane
     /\ v = Position(p, at[p])
  \/ /\ flight[p] = "flying"
     /\ i = Route
     /\ v = Position(p, Arrival)

\* The call under way is about item i and has not been sent to the page.
Pending(c, i) == call[c] # NoCall /\ call[c].done = "stored" /\ call[c].op.id = i

Reached(p) ==
  phase[p] = "open" =>
    \A i \in Id, v \in Value : Told(p, i, v) =>
      IF \E c \in Mine(p) : Pending(c, i)
      THEN \A c \in Mine(p) : Pending(c, i) => call[c].op.value = v
      ELSE Holds(p, i, v)

-----------------------------------------------------------------------------
(* The order of positions *)

Positions(p) == {Position(p, n) : n \in 0 .. Arrival}

\* The messages about the plane that the page has not handled.
Reports(p) == {k \in 1 .. Len(mailbox[p]) : mailbox[p][k].id = Plane}

\* What page p knows or is about to learn of its plane is not beyond position n.
NotBeyond(p, n) ==
  /\ \A k \in Reports(p) : mailbox[p][k].value.at <= n
  /\ Own(p, shown[p][Plane]) => shown[p][Plane].at <= n

\* The plane of page p is nowhere yet.
Unheard(p) ==
  /\ Reports(p) = {}
  /\ ~Own(p, shown[p][Plane])
  /\ ~Own(p, store[Plane])
  /\ \A c \in Mine(p) : ~Pending(c, Plane)

\* The page has heard, and has in its mailbox, of rising positions.
Ordered(p) ==
  /\ \A k \in 1 .. Len(mailbox[p]) : mailbox[p][k].op \in {"add", "update"}
  /\ \A k \in Reports(p) : mailbox[p][k].value \in Positions(p)
  /\ \A k, l \in Reports(p) : k <= l => mailbox[p][k].value.at <= mailbox[p][l].value.at
  /\ Own(p, shown[p][Plane]) =>
       \A k \in Reports(p) : shown[p][Plane].at <= mailbox[p][k].value.at

\* The call under way and the flight task are ahead of the page.
Ahead(p) ==
  /\ \A c \in Mine(p) : Pending(c, Plane) =>
       /\ call[c].op.value \in Positions(p)
       /\ NotBeyond(p, call[c].op.value.at)
       /\ flight[p] \in {"plotting", "flying"} => call[c].op.value = Position(p, at[p])
  /\ flight[p] \in {"plotting", "flying"} => NotBeyond(p, at[p])
  /\ flight[p] \in {"none", "boarding"} => Unheard(p)

PageInv(p) == InTurn(p) /\ Subscribed(p) /\ Reached(p) /\ Ordered(p) /\ Ahead(p)

FlightsInv == ItemsInv /\ Progress /\ \A p \in Page : PageInv(p)

LEMMA Values ==
  ASSUME NEW p \in Page
  PROVE  /\ Positions(p) \subseteq Value
         /\ Fixed \in Value /\ Plane \in Id /\ Route \in Id
         /\ \A v \in Positions(p) : Own(p, v) /\ v.at \in 0 .. Arrival
         /\ \A n \in 0 .. Arrival : Position(p, n) \in Positions(p) /\ Position(p, n).at = n
         /\ \A v \in Value \cup {Absent} : Own(p, v) => v \in Positions(p)
         /\ \A q \in Page : \A v \in Positions(q) : q # p => ~Own(p, v)
         /\ ~Own(p, Fixed) /\ ~Own(p, Absent)
<1> USE FlightsAssumption, ItemAssumption
<1>1. \A q \in Page, n \in 0 .. Arrival :
        /\ Position(q, n) \in [flight : Page, at : 0 .. Arrival]
        /\ Position(q, n).at = n /\ Position(q, n).flight = q
  BY DEF Position
<1>2. \A v \in [flight : Page, at : 0 .. Arrival] : v \in Value /\ v # Fixed /\ v # Absent
  OBVIOUS
<1>3. \A q \in Page : \A v \in Positions(q) :
        v \in Value /\ v.flight = q /\ v.at \in 0 .. Arrival /\ Own(q, v)
  BY <1>1, <1>2 DEF Positions, Own
<1>4. ASSUME NEW v \in Value \cup {Absent}, Own(p, v) PROVE v \in Positions(p)
  <2>1. v \in [flight : Page, at : 0 .. Arrival] /\ v.flight = p
    BY <1>4 DEF Own
  <2>2. v = Position(p, v.at) /\ v.at \in 0 .. Arrival
    BY <2>1 DEF Position
  <2> QED
    BY <2>2 DEF Positions
<1> QED
  BY <1>1, <1>3, <1>4 DEF Positions, Own

\* When a task of the service calls, no other call of its page is under way, and
\* its own is one of ItemSync about an item there is.
LEMMA Sending ==
  ASSUME NEW p \in Page, NEW t \in Task, NEW name, NEW i \in Id, NEW v \in Value,
         Send(p, t, name, i, v)
  PROVE  \E c \in Mine(p), o \in Op :
           /\ c[2] = t /\ ~Waits(p, t)
           /\ o.op \in {"add", "update"} /\ o.id = i /\ o.value = v /\ o.cid = p
           /\ Add(c, i, v, p) \/ Update(c, i, v, p)
           /\ StoreItem(c, o)
<1> DEFINE c == CHOOSE d \in Requests(p, t) : call[d] = NoCall
<1>1. ~Waits(p, t) /\ (Add(c, i, v, p) \/ Update(c, i, v, p))
  BY DEF Send, SendOn
<1>2. c \in Requests(p, t)
  <2>1. \E n \in Lane : TRUE
    BY FlightsAssumption
  <2>2. \E d \in Requests(p, t) : call[d] = NoCall
    BY <1>1, <2>1 DEF Requests, Waits
  <2> QED
    BY <2>2
<1> HIDE DEF c
<1>3. c \in Mine(p) /\ c[2] = t
  BY <1>2, Callers
<1>4. PICK name2 \in {"add", "update"} :
        StoreItem(c, [op |-> name2, id |-> i, value |-> v, cid |-> p])
  BY <1>1 DEF Add, Update
<1> DEFINE o == [op |-> name2, id |-> i, value |-> v, cid |-> p]
<1>5. o \in Op /\ o.op \in {"add", "update"} /\ o.id = i /\ o.value = v /\ o.cid = p
  BY ItemAssumption DEF Op
<1> QED
  BY <1>1, <1>3, <1>4, <1>5

\* The task that calls, and what it calls about: the connection's calls come
\* before the flight.
LEMMA ServiceCalls ==
  ASSUME Progress, NEW p \in Page, ServiceCall(p)
  PROVE  \E t \in Task, name \in {"add", "update"}, i \in Id, v \in Positions(p) \cup {Fixed} :
           /\ Send(p, t, name, i, v)
           /\ t = "connection" <=> flight[p] = "none"
<1> USE FlightsAssumption DEF Task
<1>1. CASE AddAirport(p)
  <2>1. NumAirports + 1 - left[p] \in Id /\ flight[p] = "none"
    BY <1>1 DEF AddAirport, Progress
  <2> QED
    BY <1>1, <2>1 DEF AddAirport
<1>2. \A n \in 0 .. Arrival : Position(p, n) \in Positions(p)
  BY Values
<1>3. CASE AddPlane(p)
  <2>1. Position(p, 0) \in Positions(p) /\ Plane \in Id
    BY <1>2
  <2> QED
    BY <1>3, <2>1 DEF AddPlane
<1>4. CASE AddRoute(p)
  <2>1. Position(p, Arrival) \in Positions(p) /\ Route \in Id
    BY <1>2
  <2> QED
    BY <1>4, <2>1 DEF AddRoute
<1>5. CASE UpdatePlane(p)
  <2>1. PICK n \in (at[p] + 1) .. Arrival :
          Send(p, "flight", "update", Plane, Position(p, n))
    BY <1>5 DEF UpdatePlane
  <2>2. n \in 0 .. Arrival /\ Plane \in Id
    BY DEF Progress
  <2> QED
    BY <1>2, <1>5, <2>1, <2>2 DEF UpdatePlane
<1> QED
  BY <1>1, <1>3, <1>4, <1>5 DEF ServiceCall

-----------------------------------------------------------------------------
(* Steps: the items *)

LEMMA ProgressInit == FlightsInit => Progress
BY FlightsAssumption DEF FlightsInit, Progress

LEMMA ProgressStep ==
  ASSUME Progress, [FlightsNext]_flightsVars PROVE Progress'
<1> USE FlightsAssumption
<1>1. CASE UNCHANGED flightVars
  BY <1>1 DEF flightVars, Progress
<1>2. ASSUME NEW p \in Page, MapReady(p) \/ SeeMapReady(p) PROVE Progress'
  BY <1>2 DEF MapReady, SeeMapReady, Progress
<1>3. ASSUME NEW p \in Page, AddAirport(p) PROVE Progress'
  BY <1>3 DEF AddAirport, Progress
<1>4. ASSUME NEW p \in Page, StartFlight(p) PROVE Progress'
  BY <1>4 DEF StartFlight, Progress
<1>5. ASSUME NEW p \in Page, AddPlane(p) \/ AddRoute(p) PROVE Progress'
  BY <1>5 DEF AddPlane, AddRoute, Progress
<1>6. ASSUME NEW p \in Page, UpdatePlane(p) PROVE Progress'
  BY <1>6 DEF UpdatePlane, Progress
<1>7. ASSUME NEW p \in Page, ConnectionLost(p) PROVE Progress'
  BY <1>7 DEF ConnectionLost, Progress
<1>8. CASE UNCHANGED flightsVars
  BY <1>1, <1>8 DEF flightsVars
<1> QED
  BY <1>1, <1>2, <1>3, <1>4, <1>5, <1>6, <1>7, <1>8
     DEF FlightsNext, Service, ServiceCall, Answer, Disconnect

\* What the service does to the items it does by calls of ItemSync.
LEMMA ItemsStep ==
  ASSUME Progress, [FlightsNext]_flightsVars PROVE [ItemsNext]_itemVars
<1> USE FlightsAssumption, ItemAssumption
<1>1. ASSUME NEW p \in Page, PageAction(p) \/ Leave(p) PROVE ItemsNext
  BY <1>1 DEF PageAction, ItemsNext, PageStep
<1>2. ASSUME NEW p \in Page, ServiceCall(p) PROVE ItemsNext
  <2>1. PICK t \in Task, name \in {"add", "update"}, i \in Id, v \in Value :
          Send(p, t, name, i, v)
    BY <1>2, ServiceCalls, Values
  <2>2. PICK c \in Mine(p) : Add(c, i, v, p) \/ Update(c, i, v, p)
    BY <2>1, Sending
  <2>3. c \in Caller /\ p \in Cid
    BY DEF Mine
  <2> QED
    BY <2>2, <2>3 DEF ItemsNext
<1>3. ASSUME NEW p \in Page, Answer(p) PROVE ItemsNext
  <2>1. PICK t \in Task : \E c \in Requests(p, t) : Proceed(c)
    BY <1>3 DEF Answer
  <2>2. PICK c \in Requests(p, t) : Proceed(c)
    BY <2>1
  <2>3. c \in Caller
    BY <2>2, Callers DEF Mine
  <2> QED
    BY <2>2, <2>3 DEF ItemsNext
<1>4. ASSUME NEW p \in Page,
             MapReady(p) \/ SeeMapReady(p) \/ StartFlight(p) \/ ConnectionLost(p)
      PROVE  UNCHANGED itemVars
  BY <1>4 DEF MapReady, SeeMapReady, StartFlight, ConnectionLost
<1>5. CASE UNCHANGED flightsVars
  BY <1>5 DEF flightsVars
<1> QED
  BY <1>1, <1>2, <1>3, <1>4, <1>5 DEF FlightsNext, Service, Disconnect


-----------------------------------------------------------------------------
(* Steps: what leaves a page alone *)

\* A page's mailbox and what it shows are not touched.
LEMMA PageKept ==
  ASSUME NEW p \in Page, mailbox'[p] = mailbox[p], shown'[p] = shown[p]
  PROVE  /\ \A i, v : Holds(p, i, v)' <=> Holds(p, i, v)
         /\ Ordered(p)' <=> Ordered(p)
         /\ Reports(p)' = Reports(p)
<1>1. Reports(p)' = Reports(p)
  BY DEF Reports
<1> QED
  BY <1>1 DEF Holds, LastOn, Ordered, Own, Positions, Position

\* A page's calls are not touched, but for one that was sent and has ended.
CallKept(c) == call'[c] = call[c] \/ (call'[c] = NoCall /\ call[c].done # "stored")

LEMMA CallsKept ==
  ASSUME NEW p \in Page, \A c \in Mine(p) : CallKept(c)
  PROVE  /\ \A c \in Mine(p) : \A i : /\ Pending(c, i)' <=> Pending(c, i)
                                      /\ Pending(c, i)' => call'[c] = call[c]
         /\ \A c \in Mine(p) : call'[c] # NoCall => call'[c] = call[c]
BY DEF Pending, CallKept

\* Nothing of a page is touched but that a call that was sent may have ended and
\* that the connection and the flight may have come further or failed.
LEMMA OtherInv ==
  ASSUME NEW p \in Page, Progress, PageInv(p),
         phase'[p] = phase[p], topics'[p] = topics[p],
         mailbox'[p] = mailbox[p], shown'[p] = shown[p],
         Own(p, store'[Plane]) => Own(p, store[Plane]),
         \/ link'[p] = link[p]
         \/ link'[p] # "none" /\ (link[p] # "none" \/ phase[p] = "open"),
         \/ flight'[p] = flight[p] /\ at'[p] = at[p]
         \/ flight'[p] = "failed" /\ flight[p] # "none"
         \/ flight'[p] = "boarding" /\ flight[p] = "none" /\ ~Waits(p, "connection"),
         \A c \in Mine(p) : CallKept(c),
         \A i \in Id, v \in Value : Told(p, i, v)' => Told(p, i, v)
  PROVE  PageInv(p)'
<1>1. InTurn(p) /\ Subscribed(p) /\ Reached(p) /\ Ordered(p) /\ Ahead(p)
  BY DEF PageInv
<1>2. /\ \A c \in Mine(p) : \A i : /\ Pending(c, i)' <=> Pending(c, i)
                                   /\ Pending(c, i)' => call'[c] = call[c]
      /\ \A c \in Mine(p) : call'[c] # NoCall => call'[c] = call[c]
  BY CallsKept
<1>3. /\ \A i, v : Holds(p, i, v)' <=> Holds(p, i, v)
      /\ Ordered(p)' <=> Ordered(p)
      /\ Reports(p)' = Reports(p)
  BY PageKept
<1>4. InTurn(p)'
  <2>1. flight'[p] = "boarding" /\ flight[p] = "none" /\ ~Waits(p, "connection")
        => \A c \in Mine(p) : call[c] = NoCall
    BY <1>1, Callers DEF InTurn, Waits, Task
  <2> QED
    BY <1>1, <1>2, <2>1 DEF InTurn, Mine
<1>5. Subscribed(p)'
  BY <1>1 DEF Subscribed
<1>6. Reached(p)'
  BY <1>1, <1>2, <1>3 DEF Reached, Mine
<1>7. Ahead(p)'
  <2>1. Unheard(p) => Unheard(p)'
    BY <1>2, <1>3 DEF Unheard, Own, Mine
  <2>2. ASSUME NEW c \in Mine(p), Pending(c, Plane)'
        PROVE  /\ call'[c].op.value \in Positions(p)'
               /\ NotBeyond(p, call[c].op.value.at)'
               /\ flight'[p] \in {"plotting", "flying"} => call'[c].op.value = Position(p, at[p])'
    BY <1>1, <1>2, <1>3, <2>2 DEF Ahead, NotBeyond, Own, Positions, Position
  <2>3. flight'[p] \in {"plotting", "flying"} => NotBeyond(p, at[p])'
    BY <1>1, <1>3 DEF Ahead, NotBeyond, Own
  <2>4. flight'[p] \in {"none", "boarding"} => Unheard(p)'
    BY <1>1, <2>1 DEF Ahead
  <2> QED
    BY <2>2, <2>3, <2>4 DEF Ahead, Mine
<1> QED
  BY <1>1, <1>3, <1>4, <1>5, <1>6, <1>7 DEF PageInv

-----------------------------------------------------------------------------
(* Steps: the pages *)

\* A page that handles a message forgets it, and shows the plane where it says.
LEMMA Handled ==
  ASSUME ItemsTypeOK, NEW p \in Page, HandleInfo(p), Ordered(p)
  PROVE  /\ Len(mailbox'[p]) \in Nat
         /\ \A k \in 1 .. Len(mailbox'[p]) :
              k + 1 \in 1 .. Len(mailbox[p]) /\ mailbox'[p][k] = mailbox[p][k + 1]
         /\ \A k \in Reports(p)' :
              k \in Nat /\ k + 1 \in Reports(p) /\ mailbox'[p][k] = mailbox[p][k + 1]
         /\ \/ 1 \in Reports(p) /\ shown'[p][Plane] = mailbox[p][1].value
            \/ shown'[p][Plane] = shown[p][Plane]
<1> USE FlightsAssumption
<1> DEFINE s == mailbox[p]  t == mailbox'[p]  o == Head(s)
<1>1. /\ s \in Seq(Op) /\ s # <<>> /\ t = Tail(s) /\ o \in Op
      /\ shown[p] \in Items /\ shown'[p] = ApplyOp(o, shown[p])
  BY DEF HandleInfo, NextRender, ItemsTypeOK
<1>2. /\ Len(s) \in Nat \ {0} /\ Len(t) = Len(s) - 1 /\ o = s[1]
      /\ \A k \in 1 .. Len(t) : t[k] = s[k + 1]
  BY <1>1
<1> HIDE DEF s, t, o
<1>3. \A k \in 1 .. Len(t) : k \in Nat /\ k + 1 \in 1 .. Len(s) /\ t[k] = s[k + 1]
  BY <1>2
<1>4. \A k \in Reports(p)' :
        k \in Nat /\ k + 1 \in Reports(p) /\ t[k] = s[k + 1]
  BY <1>3 DEF Reports, s, t
<1>5. 1 \in 1 .. Len(s) /\ o.op \in {"add", "update"}
  BY <1>2 DEF Ordered, s
<1>6. Touched(o) = {o.id} /\ ApplyOp(o, shown[p]) = [shown[p] EXCEPT ![o.id] = o.value]
  BY <1>5 DEF Touched, ApplyOp
<1>7. CASE o.id = Plane
  <2>1. shown'[p][Plane] = o.value
    BY <1>1, <1>6, <1>7 DEF Items
  <2>2. 1 \in Reports(p)
    BY <1>2, <1>5, <1>7 DEF Reports, s
  <2> QED
    BY <1>2, <1>3, <1>4, <2>1, <2>2 DEF s, t
<1>8. CASE o.id # Plane
  <2>1. shown'[p][Plane] = shown[p][Plane]
    BY <1>1, <1>6, <1>8 DEF Items
  <2> QED
    BY <1>2, <1>3, <1>4, <2>1 DEF s, t
<1> QED
  BY <1>7, <1>8

LEMMA HandledInv ==
  ASSUME FlightsInv, NEW p \in Page, HandleInfo(p), UNCHANGED flightVars
  PROVE  PageInv(p)'
<1>1. /\ ItemsTypeOK
      /\ InTurn(p) /\ Subscribed(p) /\ Reached(p) /\ Ordered(p) /\ Ahead(p)
  BY DEF FlightsInv, ItemsInv, PageInv
<1>2. UNCHANGED <<link, left, flight, at, call, phase, topics, store>>
  BY DEF flightVars, HandleInfo
<1>3. \A i \in Id, v \in Value : Holds(p, i, v) => Holds(p, i, v)'
  BY <1>1, HoldsHandled
<1>4. InTurn(p)' /\ Subscribed(p)'
  BY <1>1, <1>2 DEF InTurn, Subscribed, Mine
<1>5. Reached(p)'
  BY <1>1, <1>2, <1>3 DEF Reached, Told, Position, Pending, Mine
<1>6. /\ \A k \in 1 .. Len(mailbox'[p]) :
           k + 1 \in 1 .. Len(mailbox[p]) /\ mailbox'[p][k] = mailbox[p][k + 1]
      /\ \A k \in Reports(p)' :
           k \in Nat /\ k + 1 \in Reports(p) /\ mailbox'[p][k] = mailbox[p][k + 1]
      /\ \/ 1 \in Reports(p) /\ shown'[p][Plane] = mailbox[p][1].value
         \/ shown'[p][Plane] = shown[p][Plane]
  BY <1>1, Handled
<1>7. \A k \in Reports(p) :
        mailbox[p][k].value \in Positions(p) /\ mailbox[p][k].value.at \in Nat
  BY <1>1, FlightsAssumption, Values DEF Ordered
<1>8. \A n : NotBeyond(p, n) => NotBeyond(p, n)'
  BY <1>6, <1>7 DEF NotBeyond, Own
<1>9. Ordered(p)'
  <2>1. \A k \in 1 .. Len(mailbox'[p]) : mailbox'[p][k].op \in {"add", "update"}
    BY <1>1, <1>6 DEF Ordered
  <2>2. \A k \in Reports(p)' : mailbox'[p][k].value \in Positions(p)
    BY <1>6, <1>7
  <2>3. \A k, l \in Reports(p)' :
          k <= l => mailbox'[p][k].value.at <= mailbox'[p][l].value.at
    <3>1. ASSUME NEW k \in Reports(p)', NEW l \in Reports(p)', k <= l
          PROVE  mailbox[p][k + 1].value.at <= mailbox[p][l + 1].value.at
      <4>1. k \in Nat /\ l \in Nat /\ k + 1 \in Reports(p) /\ l + 1 \in Reports(p)
        BY <1>6
      <4>2. k + 1 <= l + 1
        BY <3>1, <4>1
      <4> QED
        BY <1>1, <4>1, <4>2 DEF Ordered
    <3> QED
      BY <1>6, <3>1
  <2>4. Own(p, shown'[p][Plane]) =>
          \A k \in Reports(p)' : shown'[p][Plane].at <= mailbox'[p][k].value.at
    BY <1>1, <1>6 DEF Ordered
  <2> QED
    BY <2>1, <2>2, <2>3, <2>4 DEF Ordered, Own, Positions, Position
<1>10. Unheard(p) => Unheard(p)'
  BY <1>2, <1>6 DEF Unheard, Own, Pending, Mine
<1>11. Ahead(p)'
  BY <1>1, <1>2, <1>8, <1>10 DEF Ahead, Pending, Positions, Position, Mine
<1> QED
  BY <1>4, <1>5, <1>9, <1>11 DEF PageInv

\* A page comes or goes.
LEMMA MovedInv ==
  ASSUME FlightsInv, NEW p \in Page, UNCHANGED flightVars,
         Mount(p) \/ (\E t \in Topic : Connect(p, t)) \/ Leave(p)
  PROVE  PageInv(p)'
<1> USE DEF Topic
<1>1. /\ ItemsTypeOK /\ Progress /\ GoneIsEmpty
      /\ InTurn(p) /\ Subscribed(p) /\ Reached(p) /\ Ordered(p) /\ Ahead(p)
  BY DEF FlightsInv, ItemsInv, PageInv
<1>2. UNCHANGED <<link, left, flight, at, call, store>>
  BY DEF flightVars, Mount, Connect, Leave
<1>3. InTurn(p)'
  BY <1>1, <1>2 DEF InTurn, Mine
<1>4. CASE Leave(p)
  <2>1. phase'[p] = "closed" /\ mailbox'[p] = <<>> /\ shown'[p] = NoItems
    BY <1>1, <1>4 DEF Leave, ItemsTypeOK
  <2>2. Reports(p)' = {} /\ ~Own(p, shown'[p][Plane]) /\ Len(mailbox'[p]) = 0
    BY <2>1, FlightsAssumption DEF Reports, Own, NoItems
  <2>3. Subscribed(p)' /\ Reached(p)' /\ Ordered(p)'
    BY <2>1, <2>2 DEF Subscribed, Reached, Ordered, Own
  <2>4. Unheard(p) => Unheard(p)'
    BY <1>2, <2>2 DEF Unheard, Own, Pending, Mine
  <2>5. \A n : NotBeyond(p, n)'
    BY <2>2 DEF NotBeyond, Own
  <2>6. Ahead(p)'
    BY <1>1, <1>2, <2>4, <2>5 DEF Ahead, Pending, Positions, Position, Mine
  <2> QED
    BY <1>3, <2>3, <2>6 DEF PageInv
<1>5. CASE Mount(p) \/ \E t \in Topic : Connect(p, t)
  <2>1. link[p] = "none" /\ flight[p] = "none" /\ phase[p] \in {"new", "mounting"}
    BY <1>1, <1>5 DEF Subscribed, Progress, Mount, Connect
  <2>2. phase'[p] = "open" => topics'[p] = Topic
    BY <1>1, <1>5 DEF Mount, Connect, ItemsTypeOK
  <2>3. Subscribed(p)' /\ Reached(p)'
    BY <1>2, <2>1, <2>2 DEF Subscribed, Reached, Told
  <2>4. shown'[p] = shown[p] \/ shown'[p] = store
    BY <1>1, <1>5 DEF Mount, FirstRender, Connect, ItemsTypeOK
  <2>5. mailbox'[p] = mailbox[p]
    BY <1>5 DEF Mount, Connect
  <2>6. Unheard(p)
    BY <1>1, <2>1 DEF Ahead
  <2>7. Unheard(p)'
    BY <1>2, <2>4, <2>5, <2>6 DEF Unheard, Reports, Own, Pending, Mine
  <2>8. Ordered(p)'
    BY <1>1, <2>5, <2>7 DEF Ordered, Unheard
  <2>9. Ahead(p)'
    BY <1>2, <2>1, <2>7 DEF Ahead, Unheard, Mine
  <2> QED
    BY <1>3, <2>3, <2>8, <2>9 DEF PageInv
<1> QED
  BY <1>4, <1>5

\* The pages come, handle their messages and go.
LEMMA PageActionInv ==
  ASSUME FlightsInv, NEW p \in Page, PageAction(p) \/ Leave(p), UNCHANGED flightVars
  PROVE  \A q \in Page : PageInv(q)'
<1>1. PageInv(p)'
  BY HandledInv, MovedInv DEF PageAction
<1>2. ASSUME NEW q \in Page, q # p PROVE PageInv(q)'
  <2>1. UNCHANGED <<link, left, flight, at, call, store>>
    BY DEF flightVars, PageAction, Leave, Mount, Connect, HandleInfo
  <2>2. ItemsTypeOK /\ Progress /\ PageInv(q)
    BY DEF FlightsInv, ItemsInv
  <2>3. /\ phase'[q] = phase[q] /\ topics'[q] = topics[q]
        /\ mailbox'[q] = mailbox[q] /\ shown'[q] = shown[q]
    BY <1>2, <2>2 DEF PageAction, Leave, Mount, FirstRender, Connect, HandleInfo,
                      NextRender, ItemsTypeOK
  <2>4. \A i \in Id, v \in Value : Told(q, i, v)' => Told(q, i, v)
    BY <2>1 DEF Told, Position
  <2>5. \A c \in Mine(q) : CallKept(c)
    BY <2>1 DEF CallKept
  <2> QED
    BY <2>1, <2>2, <2>3, <2>4, <2>5, OtherInv
<1> QED
  BY <1>1, <1>2

-----------------------------------------------------------------------------
(* Steps: the calls *)

\* When a task of the service calls, no other call of its page is under way.
LEMMA Quiet ==
  ASSUME NEW p \in Page, InTurn(p), NEW t \in Task, ~Waits(p, t),
         t = "connection" <=> flight[p] = "none"
  PROVE  \A c \in Mine(p) : call[c] = NoCall
<1>1. ASSUME NEW c \in Mine(p), call[c] # NoCall PROVE FALSE
  <2>1. c \in Caller /\ c[1] = p /\ c[2] \in Task
    BY Callers DEF Mine
  <2>2. c[2] = "connection" <=> flight[p] = "none"
    BY <1>1 DEF InTurn
  <2>3. c \in Requests(p, t)
    BY <2>1, <2>2, Callers DEF Task
  <2> QED
    BY <1>1, <2>3 DEF Waits
<1> QED
  BY <1>1

\* A call begins: what it says is what the page has then been told of its item,
\* and if it is about the plane it is ahead of all the page has heard.
LEMMA SentInv ==
  ASSUME FlightsInv, Progress', NEW p \in Page,
         NEW t \in Task, NEW name, NEW i \in Id, NEW v \in Value, Send(p, t, name, i, v),
         t = "connection" <=> flight[p] = "none",
         t = "connection" <=> flight'[p] = "none",
         UNCHANGED link, link[p] # "none", flight'[p] # "failed",
         \A j \in Id, w \in Value :
           Told(p, j, w)' => IF j = i THEN w = v ELSE Told(p, j, w),
         i = Plane => /\ flight[p] \in {"boarding", "plotting", "flying"}
                      /\ flight'[p] \in {"plotting", "flying"}
                      /\ v = Position(p, at'[p])
                      /\ at[p] <= at'[p],
         i # Plane => /\ at'[p] = at[p]
                      /\ \/ flight'[p] = flight[p]
                         \/ flight[p] = "plotting" /\ flight'[p] = "flying"
  PROVE  PageInv(p)'
<1> USE NoCallAssumption
<1>0. PICK c \in Mine(p), o \in Op :
        /\ c[2] = t /\ ~Waits(p, t)
        /\ o.op \in {"add", "update"} /\ o.id = i /\ o.value = v /\ o.cid = p
        /\ StoreItem(c, o)
  BY Sending
<1> DEFINE n == [op |-> o, done |-> "stored"]
<1>1. /\ ItemsTypeOK /\ Progress
      /\ InTurn(p) /\ Subscribed(p) /\ Reached(p) /\ Ordered(p) /\ Ahead(p)
  BY DEF FlightsInv, ItemsInv, PageInv
<1>2. c \in Caller /\ n \in Call /\ n # NoCall /\ n.op = o /\ n.done = "stored"
  BY DEF Call, Mine
<1>3. call'[c] = n /\ \A d \in Mine(p) \ {c} : call'[d] = NoCall
  <2>1. \A d \in Mine(p) : call[d] = NoCall
    BY <1>0, <1>1, Quiet
  <2> QED
    BY <1>0, <1>1, <1>2, <2>1 DEF StoreItem, ItemsTypeOK, Mine
<1> HIDE DEF n
<1>4. UNCHANGED <<phase, topics, mailbox, shown>>
  BY <1>0 DEF StoreItem, pageItems
<1>5. /\ \A j, w : Holds(p, j, w)' <=> Holds(p, j, w)
      /\ Ordered(p)' <=> Ordered(p)
      /\ Reports(p)' = Reports(p)
  BY <1>4, PageKept
<1>6. \A d \in Mine(p) : \A j : /\ ~Pending(d, j)
                                /\ Pending(d, j)' <=> d = c /\ j = i
  BY <1>0, <1>1, <1>2, <1>3, Quiet DEF Pending
<1>7. InTurn(p)'
  BY <1>0, <1>2, <1>3 DEF InTurn, Mine
<1>8. Subscribed(p)'
  BY <1>1, <1>4 DEF Subscribed
<1>9. Reached(p)'
  <2> SUFFICES ASSUME phase[p] = "open", NEW j \in Id, NEW w \in Value, Told(p, j, w)'
               PROVE  IF \E d \in Mine(p) : Pending(d, j)'
                      THEN \A d \in Mine(p) : Pending(d, j)' => call'[d].op.value = w
                      ELSE Holds(p, j, w)'
    BY <1>4 DEF Reached, Mine
  <2>1. CASE j = i
    BY <1>0, <1>2, <1>3, <1>6, <2>1
  <2>2. CASE j # i
    BY <1>1, <1>5, <1>6, <2>2 DEF Reached
  <2> QED
    BY <2>1, <2>2
<1>10. Ahead(p)'
  <2>1. at[p] \in 0 .. Arrival /\ at'[p] \in 0 .. Arrival
    BY <1>1 DEF Progress
  <2>2. /\ \A k \in Reports(p) : mailbox[p][k].value.at \in Nat
        /\ Own(p, shown[p][Plane]) => shown[p][Plane].at \in Nat
    <3>1. shown[p][Plane] \in Value \cup {Absent}
      BY <1>1, FlightsAssumption DEF ItemsTypeOK, Items
    <3>2. \A u \in Positions(p) : u.at \in Nat
      BY Values, FlightsAssumption
    <3> QED
      BY <1>1, <3>1, <3>2, Values DEF Ordered
  <2>3. CASE i = Plane
    <3>1. NotBeyond(p, at'[p])
      <4>1. CASE flight[p] = "boarding"
        BY <1>1, <4>1 DEF Ahead, Unheard, NotBeyond
      <4>2. CASE flight[p] \in {"plotting", "flying"}
        <5>1. NotBeyond(p, at[p])
          BY <1>1, <4>2 DEF Ahead
        <5> QED
          BY <2>1, <2>2, <2>3, <5>1 DEF NotBeyond
      <4> QED
        BY <2>3, <4>1, <4>2
    <3>2. NotBeyond(p, at[p])'
      BY <1>4, <1>5, <3>1 DEF NotBeyond, Own
    <3>3. v \in Positions(p) /\ v.at = at'[p]
      BY <2>1, <2>3, Values
    <3>4. \A d \in Mine(p) : Pending(d, Plane)' => call'[d].op.value = v
      BY <1>0, <1>2, <1>3, <1>6
    <3>5. \A d \in Mine(p) : Pending(d, Plane)' =>
            /\ call'[d].op.value \in Positions(p)'
            /\ NotBeyond(p, call[d].op.value.at)'
            /\ call'[d].op.value = Position(p, at[p])'
      BY <2>3, <3>2, <3>3, <3>4 DEF NotBeyond, Positions, Position
    <3> QED
      BY <2>3, <3>2, <3>5 DEF Ahead, Mine
  <2>4. CASE i # Plane
    <3>1. \A d \in Mine(p) : ~Pending(d, Plane)'
      BY <1>6, <2>4
    <3>2. flight'[p] \in {"plotting", "flying"} => NotBeyond(p, at[p])'
      BY <1>1, <1>4, <1>5, <2>4 DEF Ahead, NotBeyond, Own
    <3>3. store'[Plane] = store[Plane]
      <4>1. StoreOp(o, store)[Plane] = store[Plane]
        BY <1>0, <1>1, <2>4, OpEffect, FlightsAssumption DEF ItemsTypeOK, Touched
      <4> QED
        BY <1>0, <4>1 DEF StoreItem
    <3>4. flight'[p] \in {"none", "boarding"} => Unheard(p)'
      BY <1>1, <1>4, <1>5, <2>4, <3>1, <3>3 DEF Ahead, Unheard, Own, Mine
    <3> QED
      BY <3>1, <3>2, <3>4 DEF Ahead, Mine
  <2> QED
    BY <2>3, <2>4
<1> QED
  BY <1>1, <1>5, <1>7, <1>8, <1>9, <1>10 DEF PageInv

LEMMA ServiceCallInv ==
  ASSUME FlightsInv, Progress', NEW p \in Page, ServiceCall(p)
  PROVE  PageInv(p)'
<1> USE FlightsAssumption
<1>1. Progress
  BY DEF FlightsInv
<1>2. /\ \A n \in 0 .. Arrival : Position(p, n) \in Value
      /\ Plane \notin 1 .. NumAirports /\ Route \notin 1 .. NumAirports
      /\ Fixed \in Value /\ Plane \in Id /\ Route \in Id
      /\ "connection" \in Task /\ "flight" \in Task
      /\ left[p] \in 0 .. NumAirports
  BY <1>1, Values DEF Task, Progress
<1>3. CASE AddAirport(p)
  <2> DEFINE i == NumAirports + 1 - left[p]
  <2>1. /\ i \in Id /\ i \in 1 .. NumAirports /\ i # Plane /\ i # Route
        /\ Send(p, "connection", "add", i, Fixed)
        /\ left'[p] = left[p] - 1
        /\ UNCHANGED <<link, flight, at>> /\ link[p] = "populating" /\ flight[p] = "none"
    BY <1>1, <1>3 DEF AddAirport, Progress
  <2>2. \A j \in 1 .. (NumAirports - left'[p]) : j = i \/ j \in 1 .. (NumAirports - left[p])
    BY <1>1, <1>3, <2>1 DEF Progress, AddAirport
  <2> HIDE DEF i
  <2>3. \A j \in Id, w \in Value : Told(p, j, w)' => IF j = i THEN w = Fixed ELSE Told(p, j, w)
    BY <2>1, <2>2 DEF Told
  <2>4. flight'[p] = "none" /\ at'[p] = at[p] /\ link[p] # "none"
    BY <2>1
  <2> QED
    BY <1>2, <2>1, <2>3, <2>4, SentInv
<1>4. CASE AddPlane(p)
  <2>1. /\ Send(p, "flight", "add", Plane, Position(p, 0))
        /\ flight[p] = "boarding" /\ flight'[p] = "plotting"
        /\ UNCHANGED <<link, left, at>> /\ at[p] = 0 /\ link[p] = "reading" /\ at'[p] = 0
    BY <1>1, <1>4 DEF AddPlane, Progress
  <2>2. \A j \in Id, w \in Value :
          Told(p, j, w)' => IF j = Plane THEN w = Position(p, 0) ELSE Told(p, j, w)
    BY <1>2, <2>1 DEF Told, Position
  <2>3. Position(p, 0) \in Value /\ Position(p, 0) = Position(p, at'[p]) /\ at[p] <= at'[p]
    BY <1>2, <2>1
  <2>4. link[p] # "none" /\ flight[p] # "none" /\ flight'[p] \notin {"none", "failed"}
    BY <2>1
  <2> QED
    BY <1>2, <2>1, <2>2, <2>3, <2>4, SentInv
<1>5. CASE AddRoute(p)
  <2>1. /\ Send(p, "flight", "add", Route, Position(p, Arrival))
        /\ flight[p] = "plotting" /\ flight'[p] = "flying"
        /\ UNCHANGED <<link, left, at>> /\ at'[p] = at[p] /\ link[p] = "reading"
    BY <1>1, <1>5 DEF AddRoute, Progress
  <2>2. \A j \in Id, w \in Value :
          Told(p, j, w)' => IF j = Route THEN w = Position(p, Arrival) ELSE Told(p, j, w)
    BY <1>2, <2>1 DEF Told, Position
  <2>3. Position(p, Arrival) \in Value /\ Route # Plane
    BY <1>2
  <2>4. link[p] # "none" /\ flight[p] # "none" /\ flight'[p] \notin {"none", "failed"}
    BY <2>1
  <2> QED
    BY <1>2, <2>1, <2>2, <2>3, <2>4, SentInv
<1>6. CASE UpdatePlane(p)
  <2>1. PICK n \in (at[p] + 1) .. Arrival :
          Send(p, "flight", "update", Plane, Position(p, n)) /\ at' = [at EXCEPT ![p] = n]
    BY <1>6 DEF UpdatePlane
  <2>2. n \in 0 .. Arrival /\ at[p] <= n
    BY <1>1 DEF Progress
  <2>3. /\ Position(p, n) \in Value /\ at'[p] = n
        /\ flight[p] = "flying" /\ UNCHANGED <<link, left, flight>> /\ link[p] = "reading"
    BY <1>1, <1>2, <1>6, <2>1, <2>2 DEF UpdatePlane, Progress
  <2>4. \A j \in Id, w \in Value :
          Told(p, j, w)' => IF j = Plane THEN w = Position(p, n) ELSE Told(p, j, w)
    BY <1>2, <2>3 DEF Told, Position
  <2> QED
    BY <1>2, <2>1, <2>2, <2>3, <2>4, SentInv
<1> QED
  BY <1>3, <1>4, <1>5, <1>6 DEF ServiceCall

\* The calls of a page's tasks name that page, though their items have the ids of
\* every other page's: another page does not take the plane for its own.
LEMMA OtherPagesCalls ==
  ASSUME FlightsInv, NEW p \in Page, ServiceCall(p), NEW q \in Page, q # p
  PROVE  PageInv(q)'
<1> USE FlightsAssumption
<1>1. ItemsTypeOK /\ Progress /\ PageInv(q)
  BY DEF FlightsInv, ItemsInv
<1>2. PICK t \in Task, name \in {"add", "update"}, i \in Id, v \in Positions(p) \cup {Fixed} :
        Send(p, t, name, i, v)
  BY <1>1, ServiceCalls
<1>3. v \in Value /\ ~Own(q, v)
  BY Values
<1>4. PICK c \in Mine(p), o \in Op : o.value = v /\ StoreItem(c, o)
  BY <1>2, <1>3, Sending
<1>5. UNCHANGED <<phase, topics, mailbox, shown>>
  BY <1>4 DEF StoreItem, pageItems
<1>6. \A d \in Mine(q) : CallKept(d)
  BY <1>1, <1>4 DEF StoreItem, ItemsTypeOK, Mine, CallKept
<1>7. Own(q, store'[Plane]) => Own(q, store[Plane])
  <2>1. StoreOp(o, store)[Plane] = store[Plane] \/ StoreOp(o, store)[Plane] = v
    BY <1>1, <1>4, OpEffect DEF ItemsTypeOK
  <2> QED
    BY <1>3, <1>4, <2>1 DEF StoreItem
<1>8. /\ link'[q] = link[q] /\ left'[q] = left[q]
      /\ flight'[q] = flight[q] /\ at'[q] = at[q]
  BY <1>1 DEF ServiceCall, AddAirport, AddPlane, AddRoute, UpdatePlane, Progress
<1>9. \A j \in Id, w \in Value : Told(q, j, w)' => Told(q, j, w)
  BY <1>8 DEF Told, Position
<1> QED
  BY <1>1, <1>5, <1>6, <1>7, <1>8, <1>9, OtherInv

\* A call under way reaches its page, and only that page.
LEMMA DeliveredInv ==
  ASSUME FlightsInv, NEW p \in Page, NEW c \in Mine(p), SendToTopic(c), UNCHANGED flightVars
  PROVE  \A q \in Page : PageInv(q)'
<1> USE FlightsAssumption, ItemAssumption, NoCallAssumption
<1> DEFINE o == call[c].op  n == [call[c] EXCEPT !.done = "sent"]
<1>1. /\ ItemsTypeOK /\ Progress /\ c \in Caller
      /\ InTurn(p) /\ Subscribed(p) /\ Reached(p) /\ Ordered(p) /\ Ahead(p)
      /\ call[c] # NoCall /\ call[c].done = "stored"
      /\ call' = [call EXCEPT ![c] = n]
      /\ mailbox' = [q \in Page |-> IF q \in Recipients(o) THEN Append(mailbox[q], o) ELSE mailbox[q]]
      /\ UNCHANGED <<phase, topics, shown, store, link, left, flight, at>>
  BY DEF FlightsInv, ItemsInv, PageInv, SendToTopic, flightVars, Mine
<1>2. call[c] \in Call /\ o \in Op /\ o.cid = p /\ o.op \in {"add", "update"}
  BY <1>1 DEF ItemsTypeOK, Call, InTurn
<1>3. o.id \in Id /\ Touched(o) = {o.id}
  BY <1>2 DEF Op, Touched
<1>4. n \in Call /\ n # NoCall /\ n.op = o /\ n.done = "sent"
  BY <1>2 DEF Call
<1>5. call'[c] = n /\ \A d \in Caller \ {c} : call'[d] = call[d]
  BY <1>1 DEF ItemsTypeOK
<1>6. Recipients(o) = IF "own" \in topics[p] THEN {p} ELSE {}
  BY <1>2 DEF Recipients
<1>7. \A d \in Mine(p) \ {c} : call[d] = NoCall
  BY <1>1 DEF InTurn
<1>8. \A d \in Mine(p) : \A i : /\ ~Pending(d, i)'
                                /\ Pending(d, i) <=> d = c /\ o.id = i
  BY <1>1, <1>4, <1>5, <1>7 DEF Pending, Mine
<1> HIDE DEF n, o
<1>9. ASSUME NEW q \in Page, q # p PROVE PageInv(q)'
  <2>1. mailbox'[q] = mailbox[q] /\ PageInv(q)
    BY <1>1, <1>6, <1>9 DEF FlightsInv
  <2>2. \A d \in Mine(q) : CallKept(d)
    BY <1>5, <1>9 DEF CallKept, Mine
  <2>3. \A j \in Id, w \in Value : Told(q, j, w)' => Told(q, j, w)
    BY <1>1 DEF Told, Position
  <2> QED
    BY <1>1, <2>1, <2>2, <2>3, OtherInv
<1>10. InTurn(p)' /\ Subscribed(p)'
  BY <1>1, <1>2, <1>4, <1>5, <1>7 DEF InTurn, Subscribed, Mine
<1>11. PageInv(p)'
  <2>1. CASE "own" \notin topics[p]
    <3>1. mailbox'[p] = mailbox[p] /\ phase[p] # "open"
      BY <1>1, <1>6, <2>1 DEF Subscribed
    <3>2. Reports(p)' = Reports(p) /\ Ordered(p)'
      BY <1>1, <3>1, PageKept
    <3>3. Reached(p)'
      BY <1>1, <3>1 DEF Reached
    <3>4. Ahead(p)'
      BY <1>1, <1>8, <3>1, <3>2 DEF Ahead, Unheard, NotBeyond, Own, Mine
    <3> QED
      BY <1>10, <3>2, <3>3, <3>4 DEF PageInv
  <2>2. CASE "own" \in topics[p]
    <3> DEFINE m == mailbox[p]
    <3>1. mailbox'[p] = Append(m, o) /\ m \in Seq(Op)
      BY <1>1, <1>6, <2>2 DEF ItemsTypeOK
    <3>2. /\ Len(m) \in Nat /\ Len(mailbox'[p]) = Len(m) + 1
          /\ mailbox'[p][Len(m) + 1] = o /\ \A k \in 1 .. Len(m) : mailbox'[p][k] = m[k]
      BY <1>2, <3>1
    <3> HIDE DEF m
    <3>3. \A k \in 1 .. Len(mailbox'[p]) :
            \/ k \in 1 .. Len(m) /\ mailbox'[p][k] = m[k]
            \/ k = Len(m) + 1 /\ mailbox'[p][k] = o
      BY <3>2
    <3>4. Reached(p)'
      <4> SUFFICES ASSUME phase[p] = "open", NEW i \in Id, NEW v \in Value, Told(p, i, v)
                   PROVE  Holds(p, i, v)'
        BY <1>1, <1>8 DEF Reached, Told, Position, Mine
      <4>1. IF i \in Touched(o) THEN v = o.value ELSE Holds(p, i, v)
        BY <1>1, <1>3, <1>8 DEF Reached, o
      <4> QED
        BY <1>1, <1>2, <3>1, <4>1, HoldsSent DEF m
    <3>5. \A k \in Reports(p)' :
            \/ k \in Reports(p) /\ mailbox'[p][k] = m[k] /\ k \in 1 .. Len(m)
            \/ k = Len(m) + 1 /\ mailbox'[p][k] = o /\ o.id = Plane
      BY <3>3 DEF Reports, m
    <3>6. o.id = Plane => /\ o.value \in Positions(p) /\ o.value.at \in Nat
                          /\ NotBeyond(p, o.value.at)
                          /\ flight[p] \in {"plotting", "flying"} => o.value = Position(p, at[p])
                          /\ flight[p] \notin {"none", "boarding"}
      <4>1. o.id = Plane => Pending(c, Plane)
        BY <1>8
      <4> QED
        BY <1>1, <4>1, Values DEF Ahead, Unheard, o
    <3>7. Ordered(p)'
      <4>1. \A k \in 1 .. Len(mailbox'[p]) : mailbox'[p][k].op \in {"add", "update"}
        BY <1>1, <1>2, <3>3 DEF Ordered, m
      <4>2. \A k \in Reports(p)' : mailbox'[p][k].value \in Positions(p)
        BY <1>1, <3>5, <3>6 DEF Ordered, m
      <4>3. ASSUME NEW k \in Reports(p)', NEW l \in Reports(p)', k <= l
            PROVE  mailbox'[p][k].value.at <= mailbox'[p][l].value.at
        <5>1. CASE l = Len(m) + 1 /\ mailbox'[p][l] = o /\ o.id = Plane
          <6>1. CASE k = Len(m) + 1 /\ mailbox'[p][k] = o
            BY <3>6, <5>1, <6>1
          <6>2. CASE k \in Reports(p) /\ mailbox'[p][k] = m[k]
            BY <3>6, <5>1, <6>2 DEF NotBeyond, m
          <6> QED
            BY <3>5, <6>1, <6>2
        <5>2. CASE l \in Reports(p) /\ mailbox'[p][l] = m[l] /\ l \in 1 .. Len(m)
          <6>1. k # Len(m) + 1
            BY <3>2, <4>3, <5>2
          <6> QED
            BY <1>1, <3>5, <4>3, <5>2, <6>1 DEF Ordered, m
        <5> QED
          BY <3>5, <5>1, <5>2
      <4>4. Own(p, shown[p][Plane]) =>
              \A k \in Reports(p)' : shown[p][Plane].at <= mailbox'[p][k].value.at
        BY <1>1, <3>5, <3>6 DEF Ordered, NotBeyond, m
      <4> QED
        BY <1>1, <4>1, <4>2, <4>3, <4>4 DEF Ordered, Own, Positions, Position
    <3>8. Ahead(p)'
      <4>1. flight[p] \in {"plotting", "flying"} => NotBeyond(p, at[p])'
        <5> SUFFICES ASSUME flight[p] \in {"plotting", "flying"} PROVE NotBeyond(p, at[p])'
          OBVIOUS
        <5>1. at[p] \in 0 .. Arrival /\ NotBeyond(p, at[p])
          BY <1>1 DEF Progress, Ahead
        <5>2. o.id = Plane => o.value.at = at[p]
          BY <3>6, <5>1, Values
        <5> QED
          BY <1>1, <3>5, <5>1, <5>2 DEF NotBeyond, Own, m
      <4>2. flight[p] \in {"none", "boarding"} => Unheard(p)'
        BY <1>1, <1>8, <3>5, <3>6 DEF Ahead, Unheard, Own, Mine
      <4> QED
        BY <1>1, <1>8, <4>1, <4>2 DEF Ahead, Mine
    <3> QED
      BY <1>10, <3>4, <3>7, <3>8 DEF PageInv
  <2> QED
    BY <2>1, <2>2
<1> QED
  BY <1>9, <1>11

\* The rest of what the service does is not felt by the pages.
LEMMA QuietStepInv ==
  ASSUME FlightsInv, NEW p \in Page,
         \/ MapReady(p) \/ SeeMapReady(p) \/ StartFlight(p) \/ ConnectionLost(p)
         \/ (\E c \in Mine(p) : Announce(c)) /\ UNCHANGED flightVars
         \/ UNCHANGED flightsVars
  PROVE  \A q \in Page : PageInv(q)'
<1> SUFFICES ASSUME NEW q \in Page PROVE PageInv(q)'
  OBVIOUS
<1> USE FlightsAssumption
<1>1. ItemsTypeOK /\ Progress /\ PageInv(q)
  BY DEF FlightsInv, ItemsInv
<1>2. UNCHANGED <<phase, topics, mailbox, shown, store>>
  BY DEF MapReady, SeeMapReady, StartFlight, ConnectionLost, Announce, flightsVars,
         itemVars, pageItems
<1>3. \A c \in Mine(q) : CallKept(c)
  <2>1. CASE \E c \in Mine(p) : Announce(c)
    BY <1>1, <2>1 DEF Announce, ItemsTypeOK, CallKept, Mine
  <2>2. CASE UNCHANGED itemVars
    BY <2>2 DEF itemVars, CallKept
  <2> QED
    BY <2>1, <2>2 DEF MapReady, SeeMapReady, StartFlight, ConnectionLost, flightsVars
<1>4. /\ \/ link'[q] = link[q]
         \/ link'[q] # "none" /\ (link[q] # "none" \/ phase[q] = "open")
      /\ \/ flight'[q] = flight[q] /\ at'[q] = at[q]
         \/ flight'[q] = "failed" /\ flight[q] # "none"
         \/ flight'[q] = "boarding" /\ flight[q] = "none" /\ ~Waits(q, "connection")
      /\ \A i \in Id, v \in Value : Told(q, i, v)' => Told(q, i, v)
  <2>2. CASE MapReady(p)
    BY <1>1, <2>2 DEF MapReady, Progress, Told, Position
  <2>3. CASE SeeMapReady(p)
    <3>1. /\ link[p] = "called" /\ link' = [link EXCEPT ![p] = "populating"]
          /\ left' = [left EXCEPT ![p] = NumAirports] /\ UNCHANGED <<flight, at>>
      BY <2>3 DEF SeeMapReady
    <3>2. flight[p] = "none" /\ left'[p] = NumAirports
      BY <1>1, <3>1 DEF Progress
    <3>3. 1 .. (NumAirports - NumAirports) = {}
      OBVIOUS
    <3>4. \A i \in Id, v \in Value : Told(q, i, v)' => Told(q, i, v)
      BY <1>1, <3>1, <3>2, <3>3 DEF Progress, Told, Position
    <3> QED
      BY <1>1, <3>1, <3>4 DEF Progress
  <2>4. CASE StartFlight(p)
    BY <1>1, <2>4 DEF StartFlight, Progress, Told, Position
  <2>5. CASE ConnectionLost(p)
    BY <1>1, <2>5 DEF ConnectionLost, Progress, Told, Position
  <2>6. CASE UNCHANGED flightVars
    BY <2>6 DEF flightVars, Told, Position
  <2> QED
    BY <2>2, <2>3, <2>4, <2>5, <2>6 DEF flightsVars
<1> QED
  BY <1>1, <1>2, <1>3, <1>4, OtherInv

-----------------------------------------------------------------------------
(* The theorems *)

LEMMA FlightsInitInv == FlightsInit => FlightsInv
<1> SUFFICES ASSUME FlightsInit PROVE FlightsInv
  OBVIOUS
<1> USE FlightsAssumption
<1>1. ItemsInv /\ Progress
  BY ItemsInitInv, ProgressInit DEF FlightsInit
<1>2. ASSUME NEW p \in Page PROVE PageInv(p)
  <2>1. /\ link[p] = "none" /\ flight[p] = "none" /\ phase[p] = "new"
        /\ mailbox[p] = <<>> /\ shown[p][Plane] = Absent /\ store[Plane] = Absent
        /\ \A c \in Mine(p) : call[c] = NoCall
    BY DEF FlightsInit, ItemsInit, NoItems, Mine
  <2>2. Reports(p) = {} /\ Len(mailbox[p]) = 0
    BY <2>1 DEF Reports
  <2> QED
    BY <2>1, <2>2 DEF PageInv, InTurn, Subscribed, Reached, Ordered, Ahead, Unheard, Own, Pending
<1> QED
  BY <1>1, <1>2 DEF FlightsInv

LEMMA FlightsStepInv == FlightsInv /\ [FlightsNext]_flightsVars => FlightsInv'
<1> SUFFICES ASSUME FlightsInv, [FlightsNext]_flightsVars PROVE FlightsInv'
  OBVIOUS
<1>1. Progress'
  BY ProgressStep DEF FlightsInv
<1>2. ASSUME NEW p \in Page, ServiceCall(p) PROVE \A q \in Page : PageInv(q)'
  BY <1>1, <1>2, ServiceCallInv, OtherPagesCalls
<1>3. ASSUME NEW p \in Page, Answer(p) PROVE \A q \in Page : PageInv(q)'
  <2>1. PICK t \in Task : \E c \in Requests(p, t) : Proceed(c)
    BY <1>3 DEF Answer
  <2>2. PICK c \in Requests(p, t) : Proceed(c)
    BY <2>1
  <2>3. c \in Mine(p) /\ UNCHANGED flightVars
    BY <1>3, <2>2, Callers DEF Answer
  <2> QED
    BY <2>2, <2>3, DeliveredInv, QuietStepInv DEF Proceed
<1>4. \A p \in Page : PageInv(p)'
  <2>1. CASE FlightsNext
    <3>1. PICK p \in Page : \/ PageAction(p) /\ UNCHANGED flightVars
                            \/ MapReady(p)
                            \/ Disconnect(p)
                            \/ SeeMapReady(p)
                            \/ Service(p)
                            \/ ConnectionLost(p)
      BY <2>1 DEF FlightsNext
    <3>2. CASE Service(p)
      BY <3>2, <1>2, <1>3, QuietStepInv DEF Service
    <3>3. CASE (PageAction(p) /\ UNCHANGED flightVars) \/ Disconnect(p)
      BY <3>3, PageActionInv DEF Disconnect
    <3>4. CASE MapReady(p) \/ SeeMapReady(p) \/ ConnectionLost(p)
      BY <3>4, QuietStepInv
    <3> QED
      BY <3>1, <3>2, <3>3, <3>4
  <2>2. CASE UNCHANGED flightsVars
    BY <2>2, QuietStepInv
  <2> QED
    BY <2>1, <2>2
<1>5. ItemsInv'
  BY ItemsStep, ItemsStepInv DEF FlightsInv
<1> QED
  BY <1>1, <1>4, <1>5 DEF FlightsInv

LEMMA FlightsInvariance == FlightsSpec => []FlightsInv
<1> QED
  BY FlightsInitInv, FlightsStepInv, PTL DEF FlightsSpec

\* An open page that shows its own plane goes on showing it and never sees it go
\* back: the reports of a flight reach its page in the order in which the flight
\* made them, each once, and no other flight's plane is put in its place.
THEOREM OwnPlaneMovesOnTheorem == FlightsSpec => OwnPlaneMovesOn
<1>1. FlightsInv /\ [FlightsNext]_flightsVars =>
        [\A p \in Page :
           phase[p] = "open" /\ phase'[p] = "open" /\ Own(p, shown[p][Plane])
           => /\ Own(p, shown'[p][Plane])
              /\ shown'[p][Plane].at >= shown[p][Plane].at]_flightsVars
  <2> SUFFICES ASSUME FlightsInv, [FlightsNext]_flightsVars, NEW p \in Page,
                      phase[p] = "open", phase'[p] = "open", Own(p, shown[p][Plane])
               PROVE  /\ Own(p, shown'[p][Plane])
                      /\ shown'[p][Plane].at >= shown[p][Plane].at
    OBVIOUS
  <2>1. ItemsTypeOK /\ Progress /\ Ordered(p)
    BY DEF FlightsInv, ItemsInv, PageInv
  <2>2. shown[p][Plane] \in Positions(p) /\ shown[p][Plane].at \in Nat
    <3>1. shown[p][Plane] \in Value \cup {Absent}
      BY <2>1, FlightsAssumption DEF ItemsTypeOK, Items
    <3> QED
      BY <3>1, Values, FlightsAssumption
  <2>3. CASE HandleInfo(p)
    <3>1. \/ 1 \in Reports(p) /\ shown'[p][Plane] = mailbox[p][1].value
          \/ shown'[p][Plane] = shown[p][Plane]
      BY <2>1, <2>3, Handled
    <3>2. ASSUME 1 \in Reports(p)
          PROVE  /\ Own(p, mailbox[p][1].value)
                 /\ mailbox[p][1].value.at \in Nat
                 /\ shown[p][Plane].at <= mailbox[p][1].value.at
      BY <2>1, <3>2, Values, FlightsAssumption DEF Ordered
    <3>3. CASE 1 \in Reports(p) /\ shown'[p][Plane] = mailbox[p][1].value
      BY <2>2, <3>2, <3>3 DEF Own
    <3>4. CASE shown'[p][Plane] = shown[p][Plane]
      BY <2>2, <3>4 DEF Own
    <3> QED
      BY <3>1, <3>3, <3>4
  <2>4. CASE ~HandleInfo(p)
    <3>1. [ItemsNext]_itemVars
      BY <2>1, ItemsStep
    <3>2. shown'[p] = shown[p]
      <4>1. ASSUME NEW q \in Page, PageStep(q) PROVE shown'[p] = shown[p]
        BY <2>1, <2>4, <4>1 DEF PageStep, Mount, FirstRender, Connect, HandleInfo,
                                NextRender, Leave, ItemsTypeOK
      <4>2. ASSUME NEW c \in Caller, NEW o, Proceed(c) \/ StoreItem(c, o) PROVE shown' = shown
        BY <4>2 DEF Proceed, SendToTopic, Announce, StoreItem, pageItems
      <4>3. CASE ItemsNext
        BY <4>1, <4>2, <4>3, CallsStore DEF ItemsNext
      <4>4. CASE UNCHANGED itemVars
        BY <4>4 DEF itemVars, pageItems
      <4> QED
        BY <3>1, <4>3, <4>4
    <3> QED
      BY <2>2, <3>2 DEF Own
  <2> QED
    BY <2>3, <2>4
<1> QED
  BY <1>1, FlightsInvariance, PTL DEF FlightsSpec, OwnPlaneMovesOn

\* A page whose own flight has arrived and that has handled its messages shows the
\* airports, the route and the plane at its destination, whatever the flights of
\* other pages do with the same ids: none of its own calls is lost or overtaken.
THEOREM ArrivedFlightShownTheorem == FlightsSpec => []ArrivedFlightShown
<1> USE FlightsAssumption
<1>1. FlightsInv => ArrivedFlightShown
  <2> SUFFICES ASSUME FlightsInv, NEW p \in Page, Arrived(p), phase[p] = "open", mailbox[p] = <<>>
               PROVE  /\ \A i \in 1 .. NumAirports : shown[p][i] = Fixed
                      /\ Own(p, shown[p][Route])
                      /\ shown[p][Plane] = Position(p, Arrival)
    BY DEF ArrivedFlightShown
  <2>1. /\ flight[p] = "flying" /\ at[p] = Arrival /\ ~Waits(p, "flight")
        /\ link[p] = "reading" /\ left[p] = 0 /\ PageInv(p)
    BY DEF Arrived, FlightsInv, Progress
  <2>2. \A c \in Mine(p) : call[c] = NoCall
    BY <2>1, Quiet DEF PageInv, Task
  <2>3. \A i \in Id, v \in Value : Told(p, i, v) => shown[p][i] = v
    <3>1. Len(mailbox[p]) = 0
      OBVIOUS
    <3> QED
      BY <2>1, <2>2, <3>1 DEF PageInv, Reached, Pending, Holds
  <2>4. \A i \in 1 .. NumAirports : shown[p][i] = Fixed
    BY <2>1, <2>3 DEF Told
  <2>5. /\ Position(p, Arrival) \in Value /\ Own(p, Position(p, Arrival))
        /\ Plane \in Id /\ Route \in Id
    <3>1. Position(p, Arrival) \in Positions(p)
      BY Values
    <3> QED
      BY <3>1, Values
  <2>6. shown[p][Plane] = Position(p, Arrival) /\ shown[p][Route] = Position(p, Arrival)
    BY <2>1, <2>3, <2>5 DEF Told
  <2> QED
    BY <2>4, <2>5, <2>6
<1> QED
  BY <1>1, FlightsInvariance, PTL

=============================================================================
