--------------------------- MODULE BrowserMap_proofs ---------------------------
(***************************************************************************)
(* The map shows the streams of its page, for every set of elements, values *)
(* and tiles: the four properties of BrowserMap as theorems.               *)
(*                                                                         *)
(* They need one invariant.  Before the map exists every element that is   *)
(* there either has its hook still to run or is queued, once; afterwards   *)
(* no queue is left, an element whose hook has run has an object with its  *)
(* data, and no two markers share an object.                               *)
(***************************************************************************)
EXTENDS BrowserMap, TLAPS

\* The map's own hook ends the wait; only elements that are there wait.
Joining ==
  /\ ready <=> Map \notin joining
  /\ \A e \in joining : e # Map => dom[e] # NoValue
  /\ ~ready => objects = 0 /\ masters = Blank /\ linesDrawn = Blank

\* What waits in a queue of hooks of the elements in S.
Waiting(q, S) ==
  /\ ready => q = <<>>
  /\ \A k \in 1 .. Len(q) : dom[q[k]] # NoValue /\ q[k] \notin joining
  /\ \A k, j \in 1 .. Len(q) : q[k] = q[j] => k = j
  /\ ~ready => \A e \in S : dom[e] # NoValue =>
                 e \in joining \/ \E k \in 1 .. Len(q) : q[k] = e

\* Markers and the masters of the layer belong to each other one to one.
MarkersHeld ==
  /\ \A m \in Marker : markers[m] # NoObject =>
       markers[m] <= objects /\ masters[markers[m]] # NoValue
  /\ \A m, n \in Marker : markers[m] # NoObject /\ markers[m] = markers[n] => m = n
  /\ \A o \in Object : masters[o] # NoValue => \E m \in Marker : markers[m] = o

Joined(e) == ready /\ e \notin joining /\ dom[e] # NoValue

MarkersShown ==
  \A m \in Marker :
    IF Joined(m) THEN markers[m] # NoObject /\ masters[markers[m]] = dom[m]
    ELSE markers[m] = NoObject

LinesHeld ==
  /\ \A l \in Line : lines[l] # NoObject =>
       lines[l] <= objects /\ linesDrawn[lines[l]] # NoValue
  /\ \A o \in Object : linesDrawn[o] # NoValue =>
       LET l == linesDrawn[o].line IN o <= objects /\ (lines[l] = o \/ l \in Remounting)

LinesShown ==
  \A l \in Line :
    IF Joined(l) THEN lines[l] # NoObject /\ linesDrawn[lines[l]] = [line |-> l, path |-> dom[l]]
    ELSE lines[l] = NoObject

-----------------------------------------------------------------------------
(* The layer *)

LayerTypeOK ==
  /\ masters \in [Object -> OrNone(Value)]
  /\ tiles \in SUBSET Tile
  /\ copies \in [Tile -> SUBSET Object]
  /\ drawn \in [Tile -> [Object -> OrNone(Value)]]

\* A new marker is shown on every tile, or on none that is not in view.
LEMMA LayerAdd ==
  ASSUME LayerTypeOK, NoGhosts, NEW o \in Object, NEW v \in Value, AddMarker(o, v)
  PROVE  LayerTypeOK' /\ NoGhosts'
<1> USE BrowserAssumption DEF LayerTypeOK, NoGhosts, AddMarker, OrNone
<1>1. LayerTypeOK'
  OBVIOUS
<1>2. Masters' = Masters \cup {o}
  BY DEF Masters
<1>3. ASSUME NEW t \in Tile
      PROVE  /\ drawn'[t] = IF t \in tiles' THEN masters' ELSE Blank
             /\ copies'[t] = IF t \in tiles' THEN Masters' ELSE {}
  BY <1>2, <1>3
<1> QED
  BY <1>1, <1>3

\* A marker that is moved is moved on every tile.
LEMMA LayerMove ==
  ASSUME LayerTypeOK, NoGhosts, NEW o \in Masters, NEW v \in Value, MoveMarker(o, v)
  PROVE  LayerTypeOK' /\ NoGhosts'
<1> USE BrowserAssumption DEF LayerTypeOK, NoGhosts, MoveMarker, OrNone
<1>0. o \in Object
  BY DEF Masters
<1>1. LayerTypeOK'
  BY <1>0
<1>2. Masters' = Masters
  BY <1>0 DEF Masters
<1>3. ASSUME NEW t \in Tile
      PROVE  /\ drawn'[t] = IF t \in tiles' THEN masters' ELSE Blank
             /\ copies'[t] = IF t \in tiles' THEN Masters' ELSE {}
  BY <1>2, <1>3
<1> QED
  BY <1>1, <1>3

\* A marker that is removed is removed from every tile.
LEMMA LayerRemove ==
  ASSUME LayerTypeOK, NoGhosts, NEW o \in Masters, RemoveMarker(o)
  PROVE  LayerTypeOK' /\ NoGhosts'
<1> USE BrowserAssumption DEF LayerTypeOK, NoGhosts, RemoveMarker, OrNone
<1>0. o \in Object
  BY DEF Masters
<1>1. LayerTypeOK'
  BY <1>0
<1>2. Masters' = Masters \ {o}
  BY <1>0 DEF Masters
<1>3. ASSUME NEW t \in Tile
      PROVE  /\ drawn'[t] = IF t \in tiles' THEN masters' ELSE Blank
             /\ copies'[t] = IF t \in tiles' THEN Masters' ELSE {}
  BY <1>2, <1>3
<1> QED
  BY <1>1, <1>3

-----------------------------------------------------------------------------
(* The hooks of markers *)

MarkersTypeOK ==
  /\ objects \in 0 .. MaxObjects
  /\ markers \in [Marker -> Object \cup {NoObject}]
  /\ LayerTypeOK

MarkersInv == MarkersTypeOK /\ NoGhosts /\ MarkersHeld

\* Whatever objects are made, only the hook's own marker changes.
OthersAsBefore(m) ==
  \A n \in Marker \ {m} :
    /\ markers'[n] = markers[n]
    /\ markers[n] # NoObject => masters'[markers[n]] = masters[markers[n]]

LEMMA MountedMarker ==
  ASSUME MarkersInv, NEW m \in Marker, NEW v \in Value, MarkerMounted(m, v)
  PROVE  /\ MarkersInv'
         /\ markers'[m] # NoObject /\ masters'[markers'[m]] = v
         /\ OthersAsBefore(m)
         /\ objects <= objects'
<1> USE BrowserAssumption
<1>1. CASE markers[m] # NoObject /\ MoveMarker(markers[m], v) /\ UNCHANGED <<objects, markers>>
  <2>1. markers[m] \in Masters
    BY <1>1 DEF MarkersInv, MarkersTypeOK, MarkersHeld, Masters
  <2>2. LayerTypeOK' /\ NoGhosts'
    BY <1>1, <2>1, LayerMove DEF MarkersInv, MarkersTypeOK
  <2>3. masters' = [masters EXCEPT ![markers[m]] = v]
    BY <1>1 DEF MoveMarker
  <2>4. /\ MarkersHeld'
        /\ markers'[m] # NoObject /\ masters'[markers'[m]] = v
        /\ OthersAsBefore(m)
    BY <1>1, <2>3, SMTT(30) DEF MarkersInv, MarkersTypeOK, MarkersHeld, OthersAsBefore, LayerTypeOK
  <2> QED
    BY <1>1, <2>2, <2>4 DEF MarkersInv, MarkersTypeOK
<1>2. CASE /\ markers[m] = NoObject
           /\ objects < MaxObjects
           /\ objects' = objects + 1
           /\ markers' = [markers EXCEPT ![m] = objects + 1]
           /\ AddMarker(objects + 1, v)
  <2>1. objects + 1 \in Object
    BY <1>2 DEF MarkersInv, MarkersTypeOK, Object
  <2>2. LayerTypeOK' /\ NoGhosts'
    BY <1>2, <2>1, LayerAdd DEF MarkersInv, MarkersTypeOK
  <2>3. masters' = [masters EXCEPT ![objects + 1] = v]
    BY <1>2 DEF AddMarker
  <2>4. \A n \in Marker : markers[n] # NoObject => markers[n] # objects + 1
    BY DEF MarkersInv, MarkersHeld, MarkersTypeOK, Object
  <2>5. /\ markers'[m] = objects + 1 /\ masters'[objects + 1] = v
        /\ objects + 1 # NoObject /\ v # NoValue
        /\ OthersAsBefore(m)
    BY <1>2, <2>1, <2>3, <2>4 DEF MarkersInv, MarkersTypeOK, OthersAsBefore, LayerTypeOK
  <2>6. MarkersHeld'
    <3>1. \A n \in Marker : markers'[n] # NoObject =>
            markers'[n] <= objects' /\ masters'[markers'[n]] # NoValue
      BY <1>2, <2>5 DEF MarkersInv, MarkersHeld, MarkersTypeOK, OthersAsBefore, Object
    <3>2. \A n, q \in Marker : markers'[n] # NoObject /\ markers'[n] = markers'[q] => n = q
      BY <1>2, <2>4, <2>5 DEF MarkersInv, MarkersHeld, OthersAsBefore
    <3>3. \A o \in Object : masters'[o] # NoValue => \E n \in Marker : markers'[n] = o
      BY <1>2, <2>1, <2>3, <2>5 DEF MarkersInv, MarkersHeld, MarkersTypeOK, LayerTypeOK, OthersAsBefore
    <3> QED
      BY <3>1, <3>2, <3>3 DEF MarkersHeld
  <2> QED
    BY <1>2, <2>1, <2>2, <2>5, <2>6 DEF MarkersInv, MarkersTypeOK, Object
<1> QED
  BY <1>1, <1>2 DEF MarkerMounted

LEMMA UpdatedMarker ==
  ASSUME MarkersInv, NEW m \in Marker, NEW v \in Value, MarkerUpdated(m, v)
  PROVE  /\ MarkersInv'
         /\ markers'[m] # NoObject /\ masters'[markers'[m]] = v
         /\ OthersAsBefore(m)
<1> USE BrowserAssumption
<1>1. markers[m] # NoObject /\ MoveMarker(markers[m], v) /\ UNCHANGED <<objects, markers>>
  BY DEF MarkerUpdated
<1>2. MarkerMounted(m, v)
  BY <1>1 DEF MarkerMounted
<1> QED
  BY <1>2, MountedMarker

LEMMA DestroyedMarker ==
  ASSUME MarkersInv, NEW m \in Marker, MarkerDestroyed(m), UNCHANGED objects
  PROVE  /\ MarkersInv'
         /\ markers'[m] = NoObject
         /\ OthersAsBefore(m)
<1> USE BrowserAssumption
<1>1. CASE /\ markers[m] # NoObject
           /\ RemoveMarker(markers[m])
           /\ markers' = [markers EXCEPT ![m] = NoObject]
  <2>1. markers[m] \in Masters
    BY <1>1 DEF MarkersInv, MarkersTypeOK, MarkersHeld, Masters
  <2>2. LayerTypeOK' /\ NoGhosts'
    BY <1>1, <2>1, LayerRemove DEF MarkersInv, MarkersTypeOK
  <2>3. masters' = [masters EXCEPT ![markers[m]] = NoValue]
    BY <1>1 DEF RemoveMarker
  <2>4. markers'[m] = NoObject /\ OthersAsBefore(m)
    BY <1>1, <2>3 DEF MarkersInv, MarkersTypeOK, MarkersHeld, LayerTypeOK, OthersAsBefore
  <2>5. MarkersHeld'
    BY <1>1, <2>1, <2>3, <2>4, SMTT(30)
       DEF MarkersInv, MarkersTypeOK, MarkersHeld, LayerTypeOK, OthersAsBefore, Masters
  <2> QED
    BY <1>1, <2>2, <2>4, <2>5 DEF MarkersInv, MarkersTypeOK
<1>2. CASE markers[m] = NoObject /\ UNCHANGED markerVars
  BY <1>2 DEF MarkersInv, MarkersTypeOK, MarkersHeld, LayerTypeOK, NoGhosts, OthersAsBefore,
              markerVars, layer, Masters
<1> QED
  BY <1>1, <1>2 DEF MarkerDestroyed

-----------------------------------------------------------------------------
(* The hooks of lines *)

LinesTypeOK ==
  /\ objects \in 0 .. MaxObjects
  /\ lines \in [Line -> Object \cup {NoObject}]
  /\ linesDrawn \in [Object -> OrNone(DrawnLine)]

\* What is drawn for a line carries its name, so that lines share no object.
LinesApart ==
  \A l \in Line : lines[l] # NoObject => linesDrawn[lines[l]].line = l

LinesInv == LinesTypeOK /\ LinesHeld /\ LinesApart

OtherLinesAsBefore(l) ==
  \A n \in Line \ {l} :
    /\ lines'[n] = lines[n]
    /\ lines[n] # NoObject => linesDrawn'[lines[n]] = linesDrawn[lines[n]]

\* Only an element that may be mounted again leaves an object behind.
LEMMA MountedLine ==
  ASSUME LinesInv, NEW l \in Line, NEW v \in Value, LineMounted(l, v),
         lines[l] = NoObject \/ l \in Remounting
  PROVE  /\ LinesInv'
         /\ lines'[l] # NoObject /\ linesDrawn'[lines'[l]] = [line |-> l, path |-> v]
         /\ OtherLinesAsBefore(l)
         /\ objects <= objects'
<1> USE BrowserAssumption
<1>1. /\ objects + 1 \in Object
      /\ objects' = objects + 1
      /\ lines' = [lines EXCEPT ![l] = objects + 1]
      /\ linesDrawn' = [linesDrawn EXCEPT ![objects + 1] = [line |-> l, path |-> v]]
  BY DEF LineMounted, LinesInv, LinesTypeOK, Object
<1>2. [line |-> l, path |-> v] \in DrawnLine /\ NoValue \notin DrawnLine
  BY DEF DrawnLine
<1>3. LinesTypeOK'
  BY <1>1, <1>2 DEF LinesInv, LinesTypeOK, OrNone, Object
<1>4. \A n \in Line : lines[n] # NoObject => lines[n] \in Object /\ lines[n] # objects + 1
  BY DEF LinesInv, LinesTypeOK, LinesHeld, Object
<1>5. /\ lines'[l] = objects + 1 /\ objects + 1 # NoObject
      /\ linesDrawn'[objects + 1] = [line |-> l, path |-> v]
      /\ OtherLinesAsBefore(l)
  BY <1>1, <1>4 DEF LinesInv, LinesTypeOK, OtherLinesAsBefore
<1>6. LinesHeld'
  <2>1. \A n \in Line : lines'[n] # NoObject =>
          lines'[n] <= objects' /\ linesDrawn'[lines'[n]] # NoValue
    BY <1>1, <1>2, <1>4, <1>5 DEF LinesInv, LinesTypeOK, LinesHeld, OtherLinesAsBefore, Object
  <2>2. ASSUME NEW o \in Object, linesDrawn'[o] # NoValue
        PROVE  LET n == linesDrawn'[o].line
               IN o <= objects' /\ (lines'[n] = o \/ n \in Remounting)
    <3>1. CASE o = objects + 1
      BY <3>1, <1>1, <1>5 DEF LinesInv, LinesTypeOK
    <3>2. CASE o # objects + 1
      <4>1. linesDrawn'[o] = linesDrawn[o]
        BY <3>2, <1>1 DEF LinesInv, LinesTypeOK
      <4>2. linesDrawn[o] \in DrawnLine
        BY <4>1, <2>2 DEF LinesInv, LinesTypeOK, OrNone
      <4> DEFINE n == linesDrawn[o].line
      <4>3. n \in Line
        BY <4>2 DEF DrawnLine
      <4>4. o <= objects /\ (lines[n] = o \/ n \in Remounting)
        BY <4>1, <2>2 DEF LinesInv, LinesHeld
      <4>5. o <= objects'
        BY <4>4, <1>1 DEF LinesInv, LinesTypeOK, Object
      <4>6. n # l => lines'[n] = lines[n]
        BY <4>3, <1>5 DEF OtherLinesAsBefore
      <4>7. n = l => l \in Remounting
        BY <4>4, <2>2, <1>4 
      <4> QED
        BY <4>1, <4>4, <4>5, <4>6, <4>7
    <3> QED
      BY <3>1, <3>2
  <2> QED
    BY <2>1, <2>2 DEF LinesHeld
<1>7. LinesApart'
  BY <1>1, <1>4, <1>5 DEF LinesInv, LinesApart, LinesTypeOK, OtherLinesAsBefore
<1> QED
  BY <1>1, <1>3, <1>5, <1>6, <1>7 DEF LinesInv, LinesTypeOK

LEMMA UpdatedLine ==
  ASSUME LinesInv, NEW l \in Line, NEW v \in Value, LineUpdated(l, v)
  PROVE  /\ LinesInv'
         /\ lines'[l] # NoObject /\ linesDrawn'[lines'[l]] = [line |-> l, path |-> v]
         /\ OtherLinesAsBefore(l)
<1> USE BrowserAssumption
<1> DEFINE o == lines[l]  r == [line |-> l, path |-> v]
<1>1. /\ o # NoObject /\ o \in Object /\ o <= objects
      /\ objects' = objects /\ lines' = lines
      /\ linesDrawn' = [linesDrawn EXCEPT ![o] = r]
  BY DEF LineUpdated, LinesInv, LinesTypeOK, LinesHeld
<1>2. r \in DrawnLine /\ NoValue \notin DrawnLine /\ r.line = l
  BY DEF DrawnLine
<1> HIDE DEF o, r
<1>3. LinesTypeOK'
  BY <1>1, <1>2 DEF LinesInv, LinesTypeOK, OrNone
<1>4. \A n \in Line \ {l} : lines[n] # o
  BY <1>1 DEF LinesInv, LinesApart, o
<1>5. linesDrawn'[o] = r /\ \A q \in Object \ {o} : linesDrawn'[q] = linesDrawn[q]
  BY <1>1 DEF LinesInv, LinesTypeOK
<1>6. lines'[l] = o
  BY <1>1 DEF o
<1>7. LinesHeld'
  <2>1. \A n \in Line : lines'[n] # NoObject =>
          lines'[n] <= objects' /\ linesDrawn'[lines'[n]] # NoValue
    BY <1>1, <1>2, <1>5 DEF LinesInv, LinesTypeOK, LinesHeld
  <2>2. ASSUME NEW q \in Object, linesDrawn'[q] # NoValue
        PROVE  LET n == linesDrawn'[q].line
               IN q <= objects' /\ (lines'[n] = q \/ n \in Remounting)
    <3>1. CASE q = o
      BY <3>1, <1>1, <1>2, <1>5, <1>6
    <3>2. CASE q # o
      BY <3>2, <2>2, <1>1, <1>5 DEF LinesInv, LinesHeld
    <3> QED
      BY <3>1, <3>2
  <2> QED
    BY <2>1, <2>2 DEF LinesHeld
<1>8. LinesApart'
  BY <1>1, <1>2, <1>4, <1>5, <1>6 DEF LinesInv, LinesApart, LinesTypeOK
<1>9. OtherLinesAsBefore(l)
  BY <1>1, <1>4, <1>5 DEF LinesInv, LinesTypeOK, OtherLinesAsBefore
<1> QED
  BY <1>1, <1>3, <1>5, <1>6, <1>7, <1>8, <1>9 DEF LinesInv, r

LEMMA DestroyedLine ==
  ASSUME LinesInv, NEW l \in Line, LineDestroyed(l), UNCHANGED objects
  PROVE  LinesInv' /\ lines'[l] = NoObject /\ OtherLinesAsBefore(l)
<1> USE BrowserAssumption
<1>1. CASE lines[l] # NoObject
  <2> DEFINE o == lines[l]
  <2>1. /\ o \in Object
        /\ lines' = [lines EXCEPT ![l] = NoObject]
        /\ linesDrawn' = [linesDrawn EXCEPT ![o] = NoValue]
    BY <1>1 DEF LineDestroyed, LinesInv, LinesTypeOK
  <2>2. \A n \in Line \ {l} : lines[n] # o
    BY <1>1 DEF LinesInv, LinesApart
  <2> HIDE DEF o
  <2>3. LinesTypeOK'
    BY <2>1 DEF LinesInv, LinesTypeOK, OrNone
  <2>4. linesDrawn'[o] = NoValue /\ \A q \in Object \ {o} : linesDrawn'[q] = linesDrawn[q]
    BY <2>1 DEF LinesInv, LinesTypeOK
  <2>5. lines'[l] = NoObject /\ OtherLinesAsBefore(l)
    BY <2>1, <2>2, <2>4 DEF LinesInv, LinesTypeOK, OtherLinesAsBefore
  <2>6. LinesHeld'
    <3>1. \A n \in Line : lines'[n] # NoObject =>
            lines'[n] <= objects' /\ linesDrawn'[lines'[n]] # NoValue
      BY <2>5 DEF LinesInv, LinesHeld, OtherLinesAsBefore
    <3>2. ASSUME NEW q \in Object, linesDrawn'[q] # NoValue
          PROVE  LET n == linesDrawn'[q].line
                 IN q <= objects' /\ (lines'[n] = q \/ n \in Remounting)
      <4> DEFINE n == linesDrawn[q].line
      <4>1. q # o /\ linesDrawn'[q] = linesDrawn[q]
        BY <2>4, <3>2
      <4>2. q <= objects' /\ (lines[n] = q \/ n \in Remounting)
        BY <4>1, <3>2 DEF LinesInv, LinesHeld
      <4>3. n \in Line
        BY <4>1, <3>2 DEF LinesInv, LinesTypeOK, OrNone, DrawnLine
      <4>4. lines[n] = q => n # l
        BY <4>1 DEF o
      <4> QED
        BY <4>1, <4>2, <4>3, <4>4, <2>5 DEF OtherLinesAsBefore
    <3> QED
      BY <3>1, <3>2 DEF LinesHeld
  <2>7. LinesApart'
    BY <2>5 DEF LinesInv, LinesApart, OtherLinesAsBefore
  <2> QED
    BY <2>3, <2>5, <2>6, <2>7 DEF LinesInv
<1>2. CASE lines[l] = NoObject
  <2>1. UNCHANGED <<lines, linesDrawn>>
    BY <1>2 DEF LineDestroyed, lineVars
  <2> QED
    BY <1>2, <2>1 DEF LinesInv, LinesTypeOK, LinesHeld, LinesApart, OtherLinesAsBefore
<1> QED
  BY <1>1, <1>2

-----------------------------------------------------------------------------
(* The invariant *)

\* The invariant that the proofs carry from step to step.
BrowserInv ==
  /\ MarkersInv /\ MarkersShown /\ Waiting(pendingMarkers, Marker)
  /\ LinesInv /\ LinesShown /\ Waiting(pendingLines, Line)
  /\ Joining
  /\ dom \in [Element -> OrNone(Value)]
  /\ joining \in SUBSET (Element \cup {Map})
  /\ ready \in BOOLEAN
  /\ pendingMarkers \in Seq(Marker)
  /\ pendingLines \in Seq(Line)
  /\ follow \in Marker \cup {NoObject}
  /\ centre \in OrNone(Value)

LEMMA InitInv == BrowserInit => BrowserInv
<1> SUFFICES ASSUME BrowserInit PROVE BrowserInv
  OBVIOUS
<1> USE BrowserAssumption DEF BrowserInit
<1>1. MarkersInv
  BY DEF MarkersInv, MarkersTypeOK, LayerTypeOK, NoGhosts, MarkersHeld, Masters, Blank, OrNone, Object
<1>2. LinesInv
  BY DEF LinesInv, LinesTypeOK, LinesHeld, LinesApart, Blank, OrNone, Object
<1>3. MarkersShown /\ LinesShown
  BY DEF MarkersShown, LinesShown, Joined
<1>4. Waiting(pendingMarkers, Marker) /\ Waiting(pendingLines, Line)
  BY DEF Waiting, Present, Element
<1>5. Joining
  BY DEF Joining, Present
<1>6. /\ dom \in [Element -> OrNone(Value)]
      /\ joining \in SUBSET (Element \cup {Map})
      /\ follow \in Marker \cup {NoObject}
      /\ centre \in OrNone(Value)
  BY DEF Present, OrNone
<1>7. pendingMarkers \in Seq(Marker) /\ pendingLines \in Seq(Line)
  OBVIOUS
<1> QED
  BY <1>1, <1>2, <1>3, <1>4, <1>5, <1>6, <1>7 DEF BrowserInv

\* What a step that leaves lines alone needs to say of the elements.
LEMMA LinesStay ==
  ASSUME BrowserInv, UNCHANGED <<lineVars, pendingLines, ready>>,
         objects' \in 0 .. MaxObjects, objects <= objects',
         \A l \in Line : dom'[l] = dom[l] /\ (l \in joining' <=> l \in joining),
         ~ready => objects' = objects
  PROVE  LinesInv' /\ LinesShown' /\ Waiting(pendingLines, Line)'
<1>1. LinesInv /\ LinesShown /\ Waiting(pendingLines, Line) /\ pendingLines \in Seq(Line)
  BY DEF BrowserInv
<1>2. UNCHANGED <<lines, linesDrawn, pendingLines, ready>>
  BY DEF lineVars
<1>3. LinesInv'
  BY <1>1, <1>2 DEF LinesInv, LinesTypeOK, LinesHeld, LinesApart, Object
<1>4. LinesShown'
  BY <1>1, <1>2 DEF LinesShown, Joined
<1>5. Waiting(pendingLines, Line)'
  BY <1>1, <1>2 DEF Waiting
<1> QED
  BY <1>3, <1>4, <1>5

\* The same for markers.
LEMMA MarkersStay ==
  ASSUME BrowserInv, UNCHANGED <<markerVars, pendingMarkers, ready>>,
         objects' \in 0 .. MaxObjects, objects <= objects',
         \A m \in Marker : dom'[m] = dom[m] /\ (m \in joining' <=> m \in joining),
         ~ready => objects' = objects
  PROVE  MarkersInv' /\ MarkersShown' /\ Waiting(pendingMarkers, Marker)'
<1>1. MarkersInv /\ MarkersShown /\ Waiting(pendingMarkers, Marker) /\ pendingMarkers \in Seq(Marker)
  BY DEF BrowserInv
<1>2. UNCHANGED <<markers, masters, tiles, copies, drawn, pendingMarkers, ready>>
  BY DEF markerVars, layer
<1>3. MarkersInv'
  BY <1>1, <1>2
     DEF MarkersInv, MarkersTypeOK, LayerTypeOK, MarkersHeld, NoGhosts, Masters, Object
<1>4. MarkersShown'
  BY <1>1, <1>2 DEF MarkersShown, Joined
<1>5. Waiting(pendingMarkers, Marker)'
  BY <1>1, <1>2 DEF Waiting
<1> QED
  BY <1>3, <1>4, <1>5

LEMMA JoinMarkerInv ==
  ASSUME BrowserInv, NEW m \in Marker, JoinMarker(m)
  PROVE  BrowserInv'
<1> USE BrowserAssumption DEF JoinMarker
<1>0. /\ MarkersInv /\ MarkersShown /\ Waiting(pendingMarkers, Marker) /\ Joining
      /\ pendingMarkers \in Seq(Marker) /\ joining \in SUBSET (Element \cup {Map})
      /\ m # Map /\ m \notin Line
  BY DEF BrowserInv, Element
<1>1. dom[m] \in Value
  BY <1>0 DEF BrowserInv, Joining, OrNone, Element
<1>2. \A e \in Element \ {m} : e \in joining' <=> e \in joining
  OBVIOUS
<1>3. CASE ready
  <2>1. MarkerMounted(m, dom[m]) /\ UNCHANGED pending
    BY <1>3
  <2>2. /\ MarkersInv' /\ OthersAsBefore(m)
        /\ markers'[m] # NoObject /\ masters'[markers'[m]] = dom[m]
        /\ objects <= objects'
    BY <1>0, <1>1, <2>1, MountedMarker
  <2>3. MarkersShown'
    BY <1>0, <1>1, <1>2, <1>3, <2>2 DEF MarkersShown, Joined, OthersAsBefore, Element
  <2>4. Waiting(pendingMarkers, Marker)'
    BY <1>0, <1>3, <2>1 DEF Waiting, pending
  <2>5. LinesInv' /\ LinesShown' /\ Waiting(pendingLines, Line)'
    BY <1>0, <1>2, <1>3, <2>1, <2>2, LinesStay DEF pending, MarkersInv, MarkersTypeOK, Element
  <2>6. Joining'
    BY <1>0, <1>3 DEF Joining
  <2> QED
    BY <1>0, <2>1, <2>2, <2>3, <2>4, <2>5, <2>6 DEF BrowserInv, pending, camera
<1>4. CASE ~ready
  <2>1. /\ pendingMarkers' = Append(pendingMarkers, m)
        /\ UNCHANGED <<pendingLines, objects, markerVars>>
    BY <1>4
  <2>2. MarkersInv' /\ MarkersShown'
    BY <1>0, <1>4, <2>1 DEF MarkersInv, MarkersTypeOK, LayerTypeOK, MarkersHeld, NoGhosts, Masters,
                            MarkersShown, Joined, markerVars, layer
  <2>3. Waiting(pendingMarkers, Marker)'
    <3> DEFINE q == pendingMarkers  p == Append(q, m)
    <3>1. /\ Len(q) \in Nat /\ Len(p) = Len(q) + 1 /\ p[Len(q) + 1] = m
          /\ \A k \in 1 .. Len(q) : p[k] = q[k]
      BY <1>0
    <3>2. \A k \in 1 .. Len(q) : q[k] # m
      BY <1>0 DEF Waiting
    <3>3. \A k \in 1 .. Len(p) : dom[p[k]] # NoValue /\ p[k] \notin joining'
      BY <1>0, <1>1, <3>1 DEF Waiting
    <3>4. \A k, j \in 1 .. Len(p) : p[k] = p[j] => k = j
      BY <1>0, <3>1, <3>2 DEF Waiting
    <3>5. \A e \in Marker : dom[e] # NoValue => e \in joining' \/ \E k \in 1 .. Len(p) : p[k] = e
      <4> SUFFICES ASSUME NEW e \in Marker, dom[e] # NoValue, e \notin joining'
                   PROVE  \E k \in 1 .. Len(p) : p[k] = e
        OBVIOUS
      <4>1. CASE e = m
        BY <4>1, <3>1
      <4>2. CASE e # m
        BY <4>2, <3>1, <1>0, <1>4 DEF Waiting
      <4> QED
        BY <4>1, <4>2
    <3> QED
      BY <1>4, <2>1, <3>3, <3>4, <3>5 DEF Waiting
  <2>4. LinesInv' /\ LinesShown' /\ Waiting(pendingLines, Line)'
    BY <1>0, <1>2, <1>4, <2>1, LinesStay DEF MarkersInv, MarkersTypeOK, Element
  <2>5. Joining'
    BY <1>0, <1>4, <2>1 DEF Joining, markerVars, layer, lineVars, Blank
  <2> QED
    BY <1>0, <2>1, <2>2, <2>3, <2>4, <2>5 DEF BrowserInv, camera
<1> QED
  BY <1>3, <1>4

LEMMA JoinLineInv ==
  ASSUME BrowserInv, NEW l \in Line, JoinLine(l)
  PROVE  BrowserInv'
<1> USE BrowserAssumption DEF JoinLine
<1>0. /\ LinesInv /\ LinesShown /\ Waiting(pendingLines, Line) /\ Joining
      /\ pendingLines \in Seq(Line) /\ joining \in SUBSET (Element \cup {Map})
      /\ l # Map /\ l \notin Marker
  BY DEF BrowserInv, Element
<1>1. dom[l] \in Value
  BY <1>0 DEF BrowserInv, Joining, OrNone, Element
<1>2. \A e \in Element \ {l} : e \in joining' <=> e \in joining
  OBVIOUS
<1>3. CASE ready
  <2>1. LineMounted(l, dom[l]) /\ UNCHANGED pending
    BY <1>3
  <2>0. lines[l] = NoObject
    BY <1>0 DEF LinesShown, Joined
  <2>2. /\ LinesInv' /\ OtherLinesAsBefore(l)
        /\ lines'[l] # NoObject /\ linesDrawn'[lines'[l]] = [line |-> l, path |-> dom[l]]
        /\ objects <= objects'
    BY <1>0, <1>1, <2>0, <2>1, MountedLine
  <2>3. LinesShown'
    BY <1>0, <1>1, <1>2, <1>3, <2>2 DEF LinesShown, Joined, OtherLinesAsBefore, Element
  <2>4. Waiting(pendingLines, Line)'
    BY <1>0, <1>3, <2>1 DEF Waiting, pending
  <2>5. MarkersInv' /\ MarkersShown' /\ Waiting(pendingMarkers, Marker)'
    BY <1>0, <1>2, <1>3, <2>1, <2>2, MarkersStay DEF pending, LinesInv, LinesTypeOK, Element
  <2>6. Joining'
    BY <1>0, <1>3 DEF Joining
  <2> QED
    BY <1>0, <2>1, <2>2, <2>3, <2>4, <2>5, <2>6 DEF BrowserInv, pending, camera
<1>4. CASE ~ready
  <2>1. /\ pendingLines' = Append(pendingLines, l)
        /\ UNCHANGED <<pendingMarkers, objects, lineVars>>
    BY <1>4
  <2>2. LinesInv' /\ LinesShown'
    BY <1>0, <1>4, <2>1 DEF LinesInv, LinesTypeOK, LinesHeld, LinesApart, LinesShown, Joined, lineVars
  <2>3. Waiting(pendingLines, Line)'
    <3> DEFINE q == pendingLines  p == Append(q, l)
    <3>1. /\ Len(q) \in Nat /\ Len(p) = Len(q) + 1 /\ p[Len(q) + 1] = l
          /\ \A k \in 1 .. Len(q) : p[k] = q[k]
      BY <1>0
    <3>2. \A k \in 1 .. Len(q) : q[k] # l
      BY <1>0 DEF Waiting
    <3>3. \A k \in 1 .. Len(p) : dom[p[k]] # NoValue /\ p[k] \notin joining'
      BY <1>0, <1>1, <3>1 DEF Waiting
    <3>4. \A k, j \in 1 .. Len(p) : p[k] = p[j] => k = j
      BY <1>0, <3>1, <3>2 DEF Waiting
    <3>5. \A e \in Line : dom[e] # NoValue => e \in joining' \/ \E k \in 1 .. Len(p) : p[k] = e
      <4> SUFFICES ASSUME NEW e \in Line, dom[e] # NoValue, e \notin joining'
                   PROVE  \E k \in 1 .. Len(p) : p[k] = e
        OBVIOUS
      <4>1. CASE e = l
        BY <4>1, <3>1
      <4>2. CASE e # l
        BY <4>2, <3>1, <1>0, <1>4 DEF Waiting
      <4> QED
        BY <4>1, <4>2
    <3> QED
      BY <1>4, <2>1, <3>3, <3>4, <3>5 DEF Waiting
  <2>4. MarkersInv' /\ MarkersShown' /\ Waiting(pendingMarkers, Marker)'
    BY <1>0, <1>2, <1>4, <2>1, MarkersStay DEF LinesInv, LinesTypeOK, Element
  <2>5. Joining'
    BY <1>0, <1>4, <2>1 DEF Joining, markerVars, layer, lineVars, Blank
  <2> QED
    BY <1>0, <2>1, <2>2, <2>3, <2>4, <2>5 DEF BrowserInv, camera
<1> QED
  BY <1>3, <1>4

\* The map's hook serves the queues: each waiting element gets an object of its
\* own.
LEMMA JoinMapInv ==
  ASSUME BrowserInv, JoinMap
  PROVE  BrowserInv'
<1> USE BrowserAssumption
<1> DEFINE pm == pendingMarkers  pl == pendingLines
           P == Len(pm)          Q == Len(pl)
<1>0. /\ MarkersInv /\ MarkersShown /\ Waiting(pm, Marker)
      /\ LinesInv /\ LinesShown /\ Waiting(pl, Line) /\ Joining
      /\ pm \in Seq(Marker) /\ pl \in Seq(Line) /\ P \in Nat /\ Q \in Nat
      /\ joining \in SUBSET (Element \cup {Map})
      /\ dom \in [Element -> OrNone(Value)]
  BY DEF BrowserInv
<1>1. /\ ready' = TRUE /\ joining' = joining \ {Map} /\ dom' = dom
      /\ pendingMarkers' = <<>> /\ pendingLines' = <<>>
      /\ UNCHANGED <<follow, centre>>
  BY DEF JoinMap, camera
<1>2. ~ready /\ objects = 0
  BY <1>0 DEF JoinMap, Joining
<1>3. /\ \A m \in Marker : markers[m] = NoObject
      /\ \A l \in Line : lines[l] = NoObject
      /\ linesDrawn = Blank
  BY <1>0, <1>2 DEF MarkersShown, LinesShown, Joined, Joining
<1>4. P + Q <= MaxObjects /\ objects' = P + Q
  BY <1>0, <1>2 DEF JoinMap, Flush, NumPending
<1>5. /\ \A k \in 1 .. P : k \in Object /\ pm[k] \in Marker /\ dom[pm[k]] \in Value
      /\ \A k \in 1 .. Q : P + k \in Object /\ pl[k] \in Line /\ dom[pl[k]] \in Value
  BY <1>0, <1>4 DEF Object, Waiting, Element, OrNone
<1>6. /\ \A k, j \in 1 .. P : pm[k] = pm[j] => k = j
      /\ \A k, j \in 1 .. Q : pl[k] = pl[j] => k = j
  BY <1>0 DEF Waiting
<1>7. \A k \in 1 .. P : markers'[pm[k]] = k
  <2> SUFFICES ASSUME NEW k \in 1 .. P PROVE markers'[pm[k]] = k
    OBVIOUS
  <2> DEFINE c == CHOOSE j \in 1 .. P : pm[j] = pm[k]
  <2>1. c = k
    BY <1>6
  <2>2. markers'[pm[k]] = objects + c
    BY <1>5 DEF JoinMap, Flush, FlushedMarker
  <2> HIDE DEF c
  <2> QED
    BY <1>0, <1>2, <2>1, <2>2
<1>8. \A m \in Marker : (\A k \in 1 .. P : pm[k] # m) => markers'[m] = NoObject
  BY <1>3 DEF JoinMap, Flush
<1>9. masters' = [o \in Object |-> IF o \in 1 .. P THEN dom[pm[o]] ELSE NoValue]
  BY <1>0, <1>2 DEF JoinMap, Flush, Flushed
<1>10. \A k \in 1 .. Q : lines'[pl[k]] = P + k
  <2> SUFFICES ASSUME NEW k \in 1 .. Q PROVE lines'[pl[k]] = P + k
    OBVIOUS
  <2> DEFINE c == CHOOSE j \in 1 .. Q : pl[j] = pl[k]
  <2>1. c = k
    BY <1>6
  <2>2. lines'[pl[k]] = objects + P + c
    BY <1>5 DEF JoinMap, Flush, FlushedLine
  <2> HIDE DEF c
  <2> QED
    BY <1>0, <1>2, <2>1, <2>2
<1>11. \A l \in Line : (\A k \in 1 .. Q : pl[k] # l) => lines'[l] = NoObject
  BY <1>3 DEF JoinMap, Flush
<1>12. /\ \A k \in 1 .. Q : linesDrawn'[P + k] = [line |-> pl[k], path |-> dom[pl[k]]]
       /\ \A o \in Object : linesDrawn'[o] # NoValue => \E k \in 1 .. Q : o = P + k
       /\ linesDrawn' \in [Object -> OrNone(DrawnLine)]
  <2>1. linesDrawn' = [o \in Object |->
          IF \E k \in 1 .. Q : P + k = o
          THEN [line |-> pl[o - P], path |-> dom[pl[o - P]]] ELSE NoValue]
    BY <1>0, <1>2, <1>3 DEF JoinMap, Flush, FlushedLine, Blank
  <2>2. \A k \in 1 .. Q : [line |-> pl[k], path |-> dom[pl[k]]] \in DrawnLine
    BY <1>5 DEF DrawnLine
  <2>3. \A k \in 1 .. Q : (P + k) - P = k
    BY <1>0
  <2>4. \A k \in 1 .. Q : linesDrawn'[P + k] = [line |-> pl[k], path |-> dom[pl[k]]]
    BY <1>5, <2>1, <2>3
  <2>5. \A o \in Object : linesDrawn'[o] # NoValue => \E k \in 1 .. Q : o = P + k
    BY <2>1
  <2>6. \A o \in Object : linesDrawn'[o] \in OrNone(DrawnLine)
    BY <2>2, <2>4, <2>5 DEF OrNone
  <2> QED
    BY <2>1, <2>4, <2>5, <2>6
<1>13. \A m \in Marker : Joined(m)' <=> \E k \in 1 .. P : pm[k] = m
  BY <1>0, <1>1, <1>2 DEF Joined, Waiting, Element
<1>14. \A l \in Line : Joined(l)' <=> \E k \in 1 .. Q : pl[k] = l
  BY <1>0, <1>1, <1>2 DEF Joined, Waiting, Element
<1>15. /\ tiles' \in SUBSET Tile
       /\ copies' = [t \in Tile |-> IF t \in tiles' THEN {o \in Object : masters'[o] # NoValue} ELSE {}]
       /\ drawn' = [t \in Tile |-> IF t \in tiles' THEN masters' ELSE Blank]
       /\ markers' = [m \in Marker |-> markers'[m]]
       /\ lines' = [l \in Line |-> lines'[l]]
  BY DEF JoinMap, Flush
<1> HIDE DEF pm, pl, P, Q
<1>16. MarkersInv'
  <2>1. masters' \in [Object -> OrNone(Value)]
    BY <1>5, <1>9 DEF OrNone
  <2>2. LayerTypeOK'
    BY <2>1, <1>15 DEF LayerTypeOK, Blank, OrNone
  <2>3. \A m \in Marker : markers'[m] \in Object \cup {NoObject}
    BY <1>5, <1>7, <1>8
  <2>4. MarkersTypeOK'
    BY <2>2, <2>3, <1>0, <1>4, <1>15 DEF MarkersTypeOK
  <2>5. NoGhosts'
    BY <1>15 DEF NoGhosts, Masters
  <2>6. MarkersHeld'
    <3>1. \A m \in Marker : markers'[m] # NoObject => \E k \in 1 .. P : pm[k] = m /\ markers'[m] = k
      BY <1>7, <1>8
    <3>2. \A k \in 1 .. P : k <= objects' /\ masters'[k] # NoValue
      BY <1>0, <1>4, <1>5, <1>9
    <3>3. \A m, n \in Marker : markers'[m] # NoObject /\ markers'[m] = markers'[n] => m = n
      BY <3>1
    <3>4. \A o \in Object : masters'[o] # NoValue => \E m \in Marker : markers'[m] = o
      BY <1>5, <1>7, <1>9
    <3> QED
      BY <3>1, <3>2, <3>3, <3>4 DEF MarkersHeld
  <2> QED
    BY <2>4, <2>5, <2>6 DEF MarkersInv
<1>17. MarkersShown'
  BY <1>1, <1>5, <1>7, <1>8, <1>9, <1>13 DEF MarkersShown
<1>18. LinesShown'
  BY <1>1, <1>5, <1>10, <1>11, <1>12, <1>14 DEF LinesShown
<1>19. LinesInv'
  <2>1. \A l \in Line : lines'[l] # NoObject => \E k \in 1 .. Q : pl[k] = l /\ lines'[l] = P + k
    BY <1>10, <1>11
  <2>2. LinesTypeOK'
    BY <2>1, <1>0, <1>4, <1>5, <1>12, <1>15 DEF LinesTypeOK
  <2>3. \A k \in 1 .. Q : linesDrawn'[P + k].line = pl[k] /\ linesDrawn'[P + k] # NoValue
    <3> SUFFICES ASSUME NEW k \in 1 .. Q
                 PROVE  linesDrawn'[P + k].line = pl[k] /\ linesDrawn'[P + k] # NoValue
      OBVIOUS
    <3> DEFINE r == [line |-> pl[k], path |-> dom[pl[k]]]
    <3>1. r \in [line : Line, path : Value] /\ r.line = pl[k]
      BY <1>5
    <3>2. linesDrawn'[P + k] = r
      BY <1>12
    <3> HIDE DEF r
    <3> QED
      BY <3>1, <3>2
  <2>4. LinesHeld'
    BY <2>1, <2>3, <1>0, <1>4, <1>10, <1>12 DEF LinesHeld
  <2>5. LinesApart'
    BY <2>1, <2>3 DEF LinesApart
  <2> QED
    BY <2>2, <2>4, <2>5 DEF LinesInv
<1>20. Waiting(pendingMarkers, Marker)' /\ Waiting(pendingLines, Line)'
  BY <1>1 DEF Waiting
<1>21. Joining'
  BY <1>0, <1>1 DEF Joining
<1>22. joining' \in SUBSET (Element \cup {Map}) /\ ready' \in BOOLEAN /\ dom' \in [Element -> OrNone(Value)]
  BY <1>0, <1>1
<1>23. pendingMarkers' \in Seq(Marker) /\ pendingLines' \in Seq(Line)
  BY <1>1
<1>24. follow' \in Marker \cup {NoObject} /\ centre' \in OrNone(Value)
  BY <1>1 DEF BrowserInv
<1> QED
  BY <1>16, <1>17, <1>18, <1>19, <1>20, <1>21, <1>22, <1>23, <1>24 DEF BrowserInv

LEMMA InsertMarkerInv ==
  ASSUME BrowserInv, NEW m \in Marker, NEW v \in Value, InsertMarker(m, v)
  PROVE  BrowserInv' /\ OthersAsBefore(m)
<1> USE BrowserAssumption
<1>0. /\ MarkersInv /\ MarkersShown /\ Waiting(pendingMarkers, Marker) /\ Joining
      /\ dom \in [Element -> OrNone(Value)]
      /\ joining = {} /\ dom' = [dom EXCEPT ![m] = v]
      /\ UNCHANGED <<joining, ready, pendingMarkers, pendingLines, lineVars>>
  BY DEF BrowserInv, InsertMarker, pending
<1>1. /\ ready /\ m \in Element /\ v # NoValue
      /\ \A e \in Element \ {m} : dom'[e] = dom[e]
      /\ dom' \in [Element -> OrNone(Value)] /\ dom'[m] = v
  BY <1>0 DEF Joining, Element, OrNone
<1>2. /\ MarkersInv' /\ OthersAsBefore(m)
      /\ markers'[m] # NoObject /\ masters'[markers'[m]] = v
      /\ objects <= objects'
      /\ follow' \in Marker \cup {NoObject} /\ centre' \in OrNone(Value)
  <2>1. CASE MarkerMounted(m, v) /\ UNCHANGED camera
    BY <2>1, <1>0, MountedMarker DEF BrowserInv, camera
  <2>2. CASE MarkerUpdated(m, v)
    <3>1. objects' = objects /\ objects \in Nat
      BY <2>2, <1>0 DEF MarkerUpdated, MarkersInv, MarkersTypeOK
    <3>2. follow' = follow /\ centre' \in {v, centre}
      BY <2>2 DEF MarkerUpdated
    <3> QED
      BY <2>2, <3>1, <3>2, <1>0, UpdatedMarker DEF BrowserInv, OrNone
  <2> QED
    BY <2>1, <2>2 DEF InsertMarker
<1>3. MarkersShown'
  BY <1>0, <1>1, <1>2 DEF MarkersShown, Joined, OthersAsBefore, Element
<1>4. Waiting(pendingMarkers, Marker)' /\ Joining'
  BY <1>0, <1>1 DEF Waiting, Joining
<1>5. LinesInv' /\ LinesShown' /\ Waiting(pendingLines, Line)'
  <2>1. \A l \in Line : dom'[l] = dom[l]
    BY <1>1 DEF Element
  <2> QED
    BY <1>0, <1>1, <1>2, <2>1, LinesStay DEF MarkersInv, MarkersTypeOK
<1> QED
  BY <1>0, <1>1, <1>2, <1>3, <1>4, <1>5 DEF BrowserInv

LEMMA DeleteMarkerInv ==
  ASSUME BrowserInv, NEW m \in Marker, DeleteMarker(m)
  PROVE  BrowserInv' /\ OthersAsBefore(m) /\ markers'[m] = NoObject
<1> USE BrowserAssumption
<1>0. /\ MarkersInv /\ MarkersShown /\ Waiting(pendingMarkers, Marker) /\ Joining
      /\ dom \in [Element -> OrNone(Value)]
      /\ joining = {} /\ dom' = [dom EXCEPT ![m] = NoValue]
      /\ UNCHANGED <<joining, ready, pendingMarkers, pendingLines, objects, lineVars, camera>>
  BY DEF BrowserInv, DeleteMarker, pending
<1>1. /\ ready /\ m \in Element
      /\ \A e \in Element \ {m} : dom'[e] = dom[e]
      /\ dom' \in [Element -> OrNone(Value)] /\ dom'[m] = NoValue
  BY <1>0 DEF Joining, Element, OrNone
<1>2. MarkersInv' /\ OthersAsBefore(m) /\ markers'[m] = NoObject
  BY <1>0, DestroyedMarker DEF DeleteMarker
<1>3. MarkersShown'
  BY <1>0, <1>1, <1>2 DEF MarkersShown, Joined, OthersAsBefore, Element
<1>4. Waiting(pendingMarkers, Marker)' /\ Joining'
  BY <1>0, <1>1 DEF Waiting, Joining
<1>5. LinesInv' /\ LinesShown' /\ Waiting(pendingLines, Line)'
  <2>1. \A l \in Line : dom'[l] = dom[l]
    BY <1>1 DEF Element
  <2> QED
    BY <1>0, <1>1, <2>1, LinesStay DEF MarkersInv, MarkersTypeOK
<1> QED
  BY <1>0, <1>1, <1>2, <1>3, <1>4, <1>5 DEF BrowserInv, camera

LEMMA InsertLineInv ==
  ASSUME BrowserInv, NEW l \in Line, NEW v \in Value, InsertLine(l, v)
  PROVE  BrowserInv'
<1> USE BrowserAssumption
<1>0. /\ LinesInv /\ LinesShown /\ Waiting(pendingLines, Line) /\ Joining
      /\ dom \in [Element -> OrNone(Value)]
      /\ joining = {} /\ dom' = [dom EXCEPT ![l] = v]
      /\ UNCHANGED <<joining, ready, pendingMarkers, pendingLines, markerVars, camera>>
  BY DEF BrowserInv, InsertLine, pending
<1>1. /\ ready /\ l \in Element /\ v # NoValue
      /\ \A e \in Element \ {l} : dom'[e] = dom[e]
      /\ dom' \in [Element -> OrNone(Value)] /\ dom'[l] = v
  BY <1>0 DEF Joining, Element, OrNone
<1>2. /\ LinesInv' /\ OtherLinesAsBefore(l)
      /\ lines'[l] # NoObject /\ linesDrawn'[lines'[l]] = [line |-> l, path |-> v]
      /\ objects <= objects'
  <2>1. CASE (dom[l] = NoValue \/ l \in Remounting) /\ LineMounted(l, v)
    <3>1. lines[l] = NoObject \/ l \in Remounting
      BY <2>1, <1>0 DEF LinesShown, Joined
    <3> QED
      BY <2>1, <3>1, <1>0, MountedLine
  <2>2. CASE LineUpdated(l, v)
    <3>1. objects' = objects /\ objects \in Nat
      BY <2>2, <1>0 DEF LineUpdated, LinesInv, LinesTypeOK
    <3> QED
      BY <2>2, <3>1, <1>0, UpdatedLine
  <2> QED
    BY <2>1, <2>2 DEF InsertLine
<1>3. LinesShown'
  BY <1>0, <1>1, <1>2 DEF LinesShown, Joined, OtherLinesAsBefore, Element
<1>4. Waiting(pendingLines, Line)' /\ Joining'
  BY <1>0, <1>1 DEF Waiting, Joining
<1>5. MarkersInv' /\ MarkersShown' /\ Waiting(pendingMarkers, Marker)'
  <2>1. \A m \in Marker : dom'[m] = dom[m]
    BY <1>1 DEF Element
  <2> QED
    BY <1>0, <1>1, <1>2, <2>1, MarkersStay DEF LinesInv, LinesTypeOK
<1> QED
  BY <1>0, <1>1, <1>2, <1>3, <1>4, <1>5 DEF BrowserInv, camera

LEMMA DeleteLineInv ==
  ASSUME BrowserInv, NEW l \in Line, DeleteLine(l)
  PROVE  BrowserInv'
<1> USE BrowserAssumption
<1>0. /\ LinesInv /\ LinesShown /\ Waiting(pendingLines, Line) /\ Joining
      /\ dom \in [Element -> OrNone(Value)]
      /\ joining = {} /\ dom' = [dom EXCEPT ![l] = NoValue]
      /\ UNCHANGED <<joining, ready, pendingMarkers, pendingLines, objects, markerVars, camera>>
  BY DEF BrowserInv, DeleteLine, pending
<1>1. /\ ready /\ l \in Element
      /\ \A e \in Element \ {l} : dom'[e] = dom[e]
      /\ dom' \in [Element -> OrNone(Value)] /\ dom'[l] = NoValue
  BY <1>0 DEF Joining, Element, OrNone
<1>2. LinesInv' /\ OtherLinesAsBefore(l) /\ lines'[l] = NoObject
  BY <1>0, DestroyedLine DEF DeleteLine
<1>3. LinesShown'
  BY <1>0, <1>1, <1>2 DEF LinesShown, Joined, OtherLinesAsBefore, Element
<1>4. Waiting(pendingLines, Line)' /\ Joining'
  BY <1>0, <1>1 DEF Waiting, Joining
<1>5. MarkersInv' /\ MarkersShown' /\ Waiting(pendingMarkers, Marker)'
  <2>1. \A m \in Marker : dom'[m] = dom[m]
    BY <1>1 DEF Element
  <2> QED
    BY <1>0, <1>1, <2>1, MarkersStay DEF LinesInv, LinesTypeOK
<1> QED
  BY <1>0, <1>1, <1>2, <1>3, <1>4, <1>5 DEF BrowserInv, camera

\* Tiles come and go without any element being touched.
LEMMA TileInv ==
  ASSUME BrowserInv, NEW t \in Tile, CreateTile(t) \/ RemoveTile(t)
  PROVE  BrowserInv'
<1> USE BrowserAssumption
<1>0. /\ UNCHANGED <<dom, joining, ready, pendingMarkers, pendingLines, objects, markers, masters,
                     lines, linesDrawn, follow, centre>>
      /\ MarkersInv
  BY DEF CreateTile, RemoveTile, BrowserInv, pending, lineVars, camera
<1>1. LayerTypeOK' /\ NoGhosts'
  <2>1. CASE CreateTile(t)
    BY <2>1, <1>0 DEF CreateTile, MarkersInv, MarkersTypeOK, LayerTypeOK, NoGhosts, Masters
  <2>2. CASE RemoveTile(t)
    <3> USE <2>2 DEF RemoveTile
    <3>1. tiles' = tiles \ {t} /\ copies' = [copies EXCEPT ![t] = {}]
      OBVIOUS
    <3>2. drawn' = [drawn EXCEPT ![t] =
                      [o \in Object |-> IF o \in copies[t] THEN NoValue ELSE drawn[t][o]]]
      BY <1>0 DEF MarkersInv, MarkersTypeOK, LayerTypeOK
    <3>3. drawn[t] = masters /\ copies[t] = Masters
      BY <1>0 DEF MarkersInv, NoGhosts
    <3>4. [o \in Object |-> IF o \in copies[t] THEN NoValue ELSE drawn[t][o]] = Blank
      BY <3>3, <1>0 DEF Masters, Blank
    <3>5. drawn' = [drawn EXCEPT ![t] = Blank]
      BY <3>2, <3>4
    <3>6. NoGhosts'
      <4>1. Masters' = Masters /\ masters' = masters
        BY <1>0 DEF Masters
      <4>2. drawn'[t] = Blank /\ copies'[t] = {} /\ t \notin tiles'
        BY <3>1, <3>5, <1>0 DEF MarkersInv, MarkersTypeOK, LayerTypeOK
      <4>3. \A u \in Tile \ {t} :
              /\ drawn'[u] = drawn[u] /\ copies'[u] = copies[u]
              /\ u \in tiles' <=> u \in tiles
        BY <3>1, <3>5, <1>0 DEF MarkersInv, MarkersTypeOK, LayerTypeOK
      <4>4. ASSUME NEW u \in Tile
            PROVE  /\ drawn'[u] = IF u \in tiles' THEN masters' ELSE Blank
                   /\ copies'[u] = IF u \in tiles' THEN Masters' ELSE {}
        <5>1. CASE u = t
          BY <5>1, <4>2
        <5>2. CASE u # t
          <6>1. /\ drawn[u] = IF u \in tiles THEN masters ELSE Blank
                /\ copies[u] = IF u \in tiles THEN Masters ELSE {}
            BY <1>0 DEF MarkersInv, NoGhosts
          <6> QED
            BY <5>2, <6>1, <4>1, <4>3
        <5> QED
          BY <5>1, <5>2
      <4>5. Blank' = Blank
        BY DEF Blank
      <4> QED
        BY <4>4, <4>5 DEF NoGhosts
    <3>7. LayerTypeOK'
      BY <3>1, <3>5, <1>0 DEF MarkersInv, MarkersTypeOK, LayerTypeOK, Blank, OrNone
    <3> QED
      BY <3>6, <3>7
  <2> QED
    BY <2>1, <2>2
<1>2. MarkersInv'
  BY <1>0, <1>1 DEF MarkersInv, MarkersTypeOK, MarkersHeld
<1>3. LinesInv'
  BY <1>0 DEF BrowserInv, LinesInv, LinesTypeOK, LinesHeld, LinesApart
<1>4. MarkersShown' /\ LinesShown'
  BY <1>0 DEF BrowserInv, MarkersShown, LinesShown, Joined
<1>5. Waiting(pendingMarkers, Marker)' /\ Waiting(pendingLines, Line)' /\ Joining'
  BY <1>0 DEF BrowserInv, Waiting, Joining
<1> QED
  BY <1>0, <1>2, <1>3, <1>4, <1>5 DEF BrowserInv

\* The camera alone moves, or nothing does.
LEMMA CameraInv ==
  ASSUME BrowserInv, follow' \in Marker \cup {NoObject}, centre' \in OrNone(Value),
         UNCHANGED <<dom, joining, ready, pending, objects, markerVars, lineVars>>
  PROVE  BrowserInv'
<1>0. UNCHANGED <<dom, joining, ready, pendingMarkers, pendingLines, objects, markers, masters,
                  tiles, copies, drawn, lines, linesDrawn>>
  BY DEF pending, markerVars, layer, lineVars
<1>1. MarkersInv'
  BY <1>0 DEF BrowserInv, MarkersInv, MarkersTypeOK, LayerTypeOK, MarkersHeld, NoGhosts, Masters
<1>2. LinesInv'
  BY <1>0 DEF BrowserInv, LinesInv, LinesTypeOK, LinesHeld, LinesApart
<1>3. MarkersShown' /\ LinesShown'
  BY <1>0 DEF BrowserInv, MarkersShown, LinesShown, Joined
<1>4. Waiting(pendingMarkers, Marker)' /\ Waiting(pendingLines, Line)' /\ Joining'
  BY <1>0 DEF BrowserInv, Waiting, Joining
<1> QED
  BY <1>0, <1>1, <1>2, <1>3, <1>4 DEF BrowserInv

-----------------------------------------------------------------------------
(* Theorems *)

LEMMA StepInv == BrowserInv /\ [BrowserNext]_browserVars => BrowserInv'
<1> SUFFICES ASSUME BrowserInv, [BrowserNext]_browserVars PROVE BrowserInv'
  OBVIOUS
<1>1. CASE JoinMap
  BY <1>1, JoinMapInv
<1>2. ASSUME NEW m \in Marker, JoinMarker(m) PROVE BrowserInv'
  BY <1>2, JoinMarkerInv
<1>3. ASSUME NEW m \in Marker, DeleteMarker(m) PROVE BrowserInv'
  BY <1>3, DeleteMarkerInv
<1>4. ASSUME NEW m \in Marker, HighlightMarker(m) PROVE BrowserInv'
  <2>1. centre' \in OrNone(Value)
    BY <1>4, BrowserAssumption
       DEF HighlightMarker, BrowserInv, MarkersInv, MarkersTypeOK, LayerTypeOK
  <2> QED
    BY <1>4, <2>1, CameraInv DEF HighlightMarker, BrowserInv
<1>5. ASSUME NEW m \in Marker, NEW v \in Value, InsertMarker(m, v) PROVE BrowserInv'
  BY <1>5, InsertMarkerInv
<1>6. ASSUME NEW l \in Line, JoinLine(l) PROVE BrowserInv'
  BY <1>6, JoinLineInv
<1>7. ASSUME NEW l \in Line, DeleteLine(l) PROVE BrowserInv'
  BY <1>7, DeleteLineInv
<1>8. ASSUME NEW l \in Line, NEW v \in Value, InsertLine(l, v) PROVE BrowserInv'
  BY <1>8, InsertLineInv
<1>9. ASSUME NEW t \in Tile, CreateTile(t) \/ RemoveTile(t) PROVE BrowserInv'
  BY <1>9, TileInv
<1>10. ASSUME NEW f \in Marker \cup {NoObject}, Follow(f) PROVE BrowserInv'
  BY <1>10, CameraInv DEF Follow, BrowserInv
<1>11. CASE UNCHANGED browserVars
  BY <1>11, CameraInv DEF browserVars, camera, BrowserInv
<1> QED
  BY <1>1, <1>2, <1>3, <1>4, <1>5, <1>6, <1>7, <1>8, <1>9, <1>10, <1>11 DEF BrowserNext

LEMMA Invariance == BrowserSpec => []BrowserInv
<1> QED
  BY InitInv, StepInv, PTL DEF BrowserSpec

\* BrowserMap's variables keep their types.
THEOREM BrowserTypes == BrowserSpec => []BrowserTypeOK
<1>1. BrowserInv => BrowserTypeOK
  BY DEF BrowserInv, MarkersInv, MarkersTypeOK, LayerTypeOK, LinesInv, LinesTypeOK, BrowserTypeOK
<1> QED
  BY <1>1, Invariance, PTL

\* Whatever tiles come and go and markers are mounted, moved and removed, in
\* whatever order, no copy is left behind and none is missing.
THEOREM NoGhostsTheorem == BrowserSpec => []NoGhosts
<1>1. BrowserInv => NoGhosts
  BY DEF BrowserInv, MarkersInv
<1> QED
  BY <1>1, Invariance, PTL

\* Once the first render is done the map shows the page's streams, whether hooks
\* ran before or after the map's, and whichever elements are mounted again.
THEOREM MapShowsStreamsTheorem == BrowserSpec => []MapShowsStreams
<1>1. BrowserInv => MapShowsMarkers
  <2> SUFFICES ASSUME BrowserInv, joining = {} PROVE MapShowsMarkers
    BY DEF MapShowsMarkers
  <2>1. ready
    BY DEF BrowserInv, Joining
  <2> QED
    BY <2>1 DEF BrowserInv, MarkersInv, MarkersHeld, MarkersShown, Joined, MapShowsMarkers, Masters
<1>2. BrowserInv => MapShowsLines
  <2> SUFFICES ASSUME BrowserInv, joining = {} PROVE MapShowsLines
    BY DEF MapShowsLines
  <2>1. ready
    BY DEF BrowserInv, Joining
  <2> QED
    BY <2>1 DEF BrowserInv, LinesInv, LinesHeld, LinesShown, Joined, MapShowsLines
<1> QED
  BY <1>1, <1>2, Invariance, PTL DEF MapShowsStreams

\* A marker that is followed and moves takes the map along: a step that moves one
\* is the update of its element, or the element is mounted again.
THEOREM FollowKeepsUpTheorem == BrowserSpec => FollowKeepsUp
<1> DEFINE Kept(m) ==
      follow = m /\ markers[m] # NoObject /\ markers'[m] # NoObject
      /\ masters'[markers'[m]] # masters[markers[m]]
      => centre' = dom'[m]
<1>1. ASSUME BrowserInv, BrowserNext, NEW m \in Marker \ Remounting PROVE Kept(m)
  <2> SUFFICES ASSUME follow = m, markers[m] # NoObject, markers'[m] # NoObject,
                      masters'[markers'[m]] # masters[markers[m]]
               PROVE  centre' = dom'[m]
    OBVIOUS
  <2>1. CASE UNCHANGED <<markers, masters>>
    BY <2>1
  <2>2. CASE JoinMap
    BY <2>2, <1>1 DEF BrowserInv, MarkersShown, Joined, Joining, JoinMap
  <2>3. ASSUME NEW n \in Marker, JoinMarker(n) PROVE FALSE
    <3>1. CASE ~ready
      BY <3>1, <1>1 DEF BrowserInv, MarkersShown, Joined
    <3>2. CASE ready
      <4>1. MarkerMounted(n, dom[n]) /\ n \in joining
        BY <2>3, <3>2 DEF JoinMarker
      <4>2. n # m
        BY <4>1, <1>1 DEF BrowserInv, MarkersShown, Joined
      <4>3. dom[n] \in Value
        BY <4>1, <1>1, BrowserAssumption DEF BrowserInv, Joining, OrNone, Element
      <4>4. OthersAsBefore(n)
        BY <4>1, <4>3, <1>1, MountedMarker DEF BrowserInv
      <4> QED
        BY <4>2, <4>4 DEF OthersAsBefore
    <3> QED
      BY <3>1, <3>2
  <2>4. ASSUME NEW n \in Marker, DeleteMarker(n) PROVE FALSE
    BY <2>4, <1>1, DeleteMarkerInv DEF OthersAsBefore
  <2>5. ASSUME NEW n \in Marker, NEW v \in Value, InsertMarker(n, v) PROVE centre' = dom'[m]
    <3>1. n = m
      BY <2>5, <1>1, InsertMarkerInv DEF OthersAsBefore
    <3>2. dom[m] # NoValue
      BY <1>1 DEF BrowserInv, MarkersShown, Joined
    <3>3. MarkerUpdated(m, v)
      BY <2>5, <3>1, <3>2 DEF InsertMarker
    <3>4. centre' = v
      BY <3>3 DEF MarkerUpdated
    <3>5. dom'[m] = v
      BY <2>5, <3>1, <1>1 DEF InsertMarker, BrowserInv, Element
    <3> QED
      BY <3>4, <3>5
  <2>6. ASSUME NEW n \in Marker, HighlightMarker(n) PROVE UNCHANGED <<markers, masters>>
    BY <2>6 DEF HighlightMarker, markerVars, layer
  <2>7. ASSUME NEW l \in Line, JoinLine(l) \/ DeleteLine(l) PROVE UNCHANGED <<markers, masters>>
    BY <2>7 DEF JoinLine, DeleteLine, markerVars, layer
  <2>8. ASSUME NEW l \in Line, NEW v \in Value, InsertLine(l, v)
        PROVE  UNCHANGED <<markers, masters>>
    BY <2>8 DEF InsertLine, markerVars, layer
  <2>9. ASSUME NEW t \in Tile, CreateTile(t) \/ RemoveTile(t) PROVE UNCHANGED <<markers, masters>>
    BY <2>9 DEF CreateTile, RemoveTile
  <2>10. ASSUME NEW f \in Marker \cup {NoObject}, Follow(f) PROVE UNCHANGED <<markers, masters>>
    BY <2>10 DEF Follow, markerVars, layer
  <2> QED
    BY <1>1, <2>1, <2>2, <2>3, <2>4, <2>5, <2>6, <2>7, <2>8, <2>9, <2>10 DEF BrowserNext
<1>2. BrowserInv /\ [BrowserNext]_browserVars =>
        [\A m \in Marker \ Remounting : Kept(m)]_browserVars
  BY <1>1
<1> QED
  BY <1>2, Invariance, PTL DEF BrowserSpec, FollowKeepsUp

=============================================================================
