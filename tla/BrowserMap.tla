----------------------------- MODULE BrowserMap -----------------------------
(***************************************************************************)
(* The map of one page in the browser                                      *)
(* (packages/bff_engine/src/bff_engine/dynamic_map/static/dynamic_map.js). *)
(*                                                                         *)
(* The server's stream of items is a container of hidden elements, one per *)
(* item; what it holds is ItemSync's "shown" of the page.  A hook on each  *)
(* element keeps the Leaflet map in step: mounted(), updated() and         *)
(* destroyed().  Markers are drawn by a layer that puts a copy of every    *)
(* marker on each tile in view; lines are drawn directly.                  *)
(*                                                                         *)
(* LiveView's client and Leaflet are external.  One patch is applied at a  *)
(* time and its hooks run with it.  For an element that is already there   *)
(* the client runs updated(), or mounted() again (the comment in           *)
(* _addMarkerFromEl); Remounting names the elements it may do that for.    *)
(* An element that is destroyed still finds its map.                       *)
(***************************************************************************)
EXTENDS Naturals, Sequences

CONSTANTS
  Marker, Line,  \* elements with a DMarkItem or a DPolylineItem hook
  Value,         \* the data of an element: position and icon, or path
  NoValue,       \* no element, nothing drawn
  Tile,          \* the world copies that may be in view
  NoObject,      \* no Leaflet object
  Remounting,    \* elements for which mounted() may run again
  MaxObjects     \* bound on the Leaflet objects made

Element == Marker \cup Line
Map == "map"     \* the element with the DynamicMap hook
Object == 1 .. MaxObjects

ASSUME BrowserAssumption ==
  /\ Marker \cap Line = {}
  /\ Map \notin Element
  /\ NoValue \notin Value
  /\ NoValue \notin [line : Line, path : Value]
  /\ NoObject \notin Object
  /\ NoObject \notin Marker
  /\ Remounting \subseteq Element
  /\ MaxObjects \in Nat

VARIABLES
  dom,             \* data of the elements in the containers
  joining,         \* elements of the first render whose hooks have not run
  ready,           \* MapInstance.map exists
  pendingMarkers,  \* MapInstance.pendingMarkers
  pendingLines,    \* MapInstance.pendingPolylines
  objects,         \* Leaflet markers and lines made so far
  markers,         \* MapInstance.markers
  masters,         \* _masterMarkers: the markers of the layer, with their data
  tiles,           \* keys of _markersByTile
  copies,          \* _markersByTile: markers with a copy on the tile
  drawn,           \* copies on the map, per tile
  lines,           \* MapInstance.polylines
  linesDrawn,      \* lines on the map
  follow,          \* MapInstance.followMarkerId
  centre           \* where a command or a followed marker last moved the map

pending == <<pendingMarkers, pendingLines>>
layer == <<masters, tiles, copies, drawn>>
markerVars == <<markers, layer>>
lineVars == <<lines, linesDrawn>>
camera == <<follow, centre>>
browserVars == <<dom, joining, ready, pending, objects, markerVars, lineVars, camera>>

OrNone(S) == S \cup {NoValue}
DrawnLine == [line : Line, path : Value]

BrowserTypeOK ==
  /\ dom \in [Element -> OrNone(Value)]
  /\ joining \in SUBSET (Element \cup {Map})
  /\ ready \in BOOLEAN
  /\ pendingMarkers \in Seq(Marker)
  /\ pendingLines \in Seq(Line)
  /\ objects \in 0 .. MaxObjects
  /\ markers \in [Marker -> Object \cup {NoObject}]
  /\ masters \in [Object -> OrNone(Value)]
  /\ tiles \in SUBSET Tile
  /\ copies \in [Tile -> SUBSET Object]
  /\ drawn \in [Tile -> [Object -> OrNone(Value)]]
  /\ lines \in [Line -> Object \cup {NoObject}]
  /\ linesDrawn \in [Object -> OrNone(DrawnLine)]
  /\ follow \in Marker \cup {NoObject}
  /\ centre \in OrNone(Value)

Present == {e \in Element : dom[e] # NoValue}
Blank == [o \in Object |-> NoValue]

\* The page has been joined with some elements in it and no hook has run.
BrowserInit ==
  /\ dom \in [Element -> OrNone(Value)]
  /\ joining = Present \cup {Map}
  /\ ready = FALSE
  /\ pendingMarkers = <<>>
  /\ pendingLines = <<>>
  /\ objects = 0
  /\ markers = [m \in Marker |-> NoObject]
  /\ masters = Blank
  /\ tiles = {}
  /\ copies = [t \in Tile |-> {}]
  /\ drawn = [t \in Tile |-> Blank]
  /\ lines = [l \in Line |-> NoObject]
  /\ linesDrawn = Blank
  /\ follow = NoObject
  /\ centre = NoValue

\* Operators named ...Bug are slips that would be easy to make in the operator
\* they precede; no specification uses them (README, "Mutants").

-----------------------------------------------------------------------------
(* The layer of repeated markers *)

\* addMarker: to the masters and to every tile.  The plugin's own code.
AddMarker(o, v) ==
  /\ masters' = [masters EXCEPT ![o] = v]
  /\ copies' = [t \in Tile |-> IF t \in tiles THEN copies[t] \cup {o} ELSE copies[t]]
  /\ drawn' = [t \in Tile |-> IF t \in tiles THEN [drawn[t] EXCEPT ![o] = v] ELSE drawn[t]]
  /\ UNCHANGED tiles

\* The update in place of a marker and its copies.
MoveMarker(o, v) ==
  /\ masters' = [masters EXCEPT ![o] = v]
  /\ drawn' = [t \in Tile |-> IF t \in tiles /\ o \in copies[t]
                              THEN [drawn[t] EXCEPT ![o] = v] ELSE drawn[t]]
  /\ UNCHANGED <<tiles, copies>>

\* removeMarker
RemoveMarker(o) ==
  /\ masters' = [masters EXCEPT ![o] = NoValue]
  /\ drawn' = [t \in Tile |-> IF t \in tiles /\ o \in copies[t]
                              THEN [drawn[t] EXCEPT ![o] = NoValue] ELSE drawn[t]]
  /\ copies' = [t \in Tile |-> copies[t] \ {o}]
  /\ UNCHANGED tiles

Masters == {o \in Object : masters[o] # NoValue}

\* createTile, when the user has moved the map
CreateTile(t) ==
  /\ ready
  /\ t \notin tiles
  /\ tiles' = tiles \cup {t}
  /\ copies' = [copies EXCEPT ![t] = Masters]
  /\ drawn' = [drawn EXCEPT ![t] = masters]
  /\ UNCHANGED <<dom, joining, ready, pending, objects, markers, masters, lineVars, camera>>

\* The plugin's own: the copies are not found and stay on the map.
RemoveTileBug(t) ==
  /\ ready
  /\ t \in tiles
  /\ tiles' = tiles \ {t}
  /\ copies' = [copies EXCEPT ![t] = {}]
  /\ UNCHANGED <<dom, joining, ready, pending, objects, markers, masters, drawn, lineVars, camera>>

\* _removeTile
RemoveTile(t) ==
  /\ ready
  /\ t \in tiles
  /\ tiles' = tiles \ {t}
  /\ copies' = [copies EXCEPT ![t] = {}]
  /\ drawn' = [drawn EXCEPT ![t] =
                 [o \in Object |-> IF o \in copies[t] THEN NoValue ELSE @[o]]]
  /\ UNCHANGED <<dom, joining, ready, pending, objects, markers, masters, lineVars, camera>>

-----------------------------------------------------------------------------
(* The hooks of elements, once the map exists *)

\* The guard against a second mounted() is missing.
MarkerMountedBug(m, v) ==
  /\ objects < MaxObjects
  /\ objects' = objects + 1
  /\ markers' = [markers EXCEPT ![m] = objects + 1]
  /\ AddMarker(objects + 1, v)

\* _addMarkerFromEl: a marker that exists is updated in place.
MarkerMounted(m, v) ==
  \/ /\ markers[m] # NoObject
     /\ MoveMarker(markers[m], v)
     /\ UNCHANGED <<objects, markers>>
  \/ /\ markers[m] = NoObject
     /\ objects < MaxObjects
     /\ objects' = objects + 1
     /\ markers' = [markers EXCEPT ![m] = objects + 1]
     /\ AddMarker(objects + 1, v)

\* The map stays where it is.
MarkerUpdatedBug(m, v) ==
  /\ markers[m] # NoObject
  /\ MoveMarker(markers[m], v)
  /\ UNCHANGED <<objects, markers, camera>>

\* DMarkItem.updated: the map goes along with a marker it follows.
MarkerUpdated(m, v) ==
  /\ markers[m] # NoObject
  /\ MoveMarker(markers[m], v)
  /\ centre' = IF follow = m THEN v ELSE centre
  /\ UNCHANGED <<objects, markers, follow>>

\* DMarkItem.destroyed
MarkerDestroyed(m) ==
  \/ /\ markers[m] # NoObject
     /\ RemoveMarker(markers[m])
     /\ markers' = [markers EXCEPT ![m] = NoObject]
  \/ /\ markers[m] = NoObject
     /\ UNCHANGED markerVars

\* _addPolylineFromEl: a line is drawn, whether or not there is one already.
LineMounted(l, v) ==
  /\ objects < MaxObjects
  /\ objects' = objects + 1
  /\ linesDrawn' = [linesDrawn EXCEPT ![objects + 1] = [line |-> l, path |-> v]]
  /\ lines' = [lines EXCEPT ![l] = objects + 1]

\* The new path takes the place of the line.
LineUpdatedBug(l, v) ==
  /\ lines[l] # NoObject
  /\ linesDrawn' = [linesDrawn EXCEPT ![lines[l]] = v]
  /\ UNCHANGED <<objects, lines>>

\* DPolylineItem.updated
LineUpdated(l, v) ==
  /\ lines[l] # NoObject
  /\ linesDrawn' = [linesDrawn EXCEPT ![lines[l]] = [line |-> l, path |-> v]]
  /\ UNCHANGED <<objects, lines>>

\* DPolylineItem.destroyed
LineDestroyed(l) ==
  \/ /\ lines[l] # NoObject
     /\ linesDrawn' = [linesDrawn EXCEPT ![lines[l]] = NoValue]
     /\ lines' = [lines EXCEPT ![l] = NoObject]
  \/ /\ lines[l] = NoObject
     /\ UNCHANGED lineVars

-----------------------------------------------------------------------------
(* The first render: its hooks run in any order *)

\* DMarkItem.mounted
JoinMarker(m) ==
  /\ m \in joining
  /\ joining' = joining \ {m}
  /\ \/ /\ ready
        /\ MarkerMounted(m, dom[m])
        /\ UNCHANGED pending
     \/ /\ ~ready
        /\ pendingMarkers' = Append(pendingMarkers, m)
        /\ UNCHANGED <<pendingLines, objects, markerVars>>
  /\ UNCHANGED <<dom, ready, lineVars, camera>>

\* DPolylineItem.mounted
JoinLine(l) ==
  /\ l \in joining
  /\ joining' = joining \ {l}
  /\ \/ /\ ready
        /\ LineMounted(l, dom[l])
        /\ UNCHANGED pending
     \/ /\ ~ready
        /\ pendingLines' = Append(pendingLines, l)
        /\ UNCHANGED <<pendingMarkers, objects, lineVars>>
  /\ UNCHANGED <<dom, ready, markerVars, camera>>

NumPending == Len(pendingMarkers) + Len(pendingLines)

\* The object made for the k-th pending marker or line.
FlushedMarker(k) == objects + k
FlushedLine(k) == objects + Len(pendingMarkers) + k

Flushed(data, k) ==
  IF k \in objects + 1 .. objects + Len(pendingMarkers)
  THEN data[pendingMarkers[k - objects]] ELSE NoValue

\* The loops over the pending hooks; no other object exists yet.
Flush ==
  /\ NumPending + objects <= MaxObjects
  /\ objects' = objects + NumPending
  /\ markers' = [m \in Marker |->
       IF \E k \in 1 .. Len(pendingMarkers) : pendingMarkers[k] = m
       THEN FlushedMarker(CHOOSE k \in 1 .. Len(pendingMarkers) : pendingMarkers[k] = m)
       ELSE markers[m]]
  /\ masters' = [o \in Object |-> Flushed(dom, o)]
  /\ lines' = [l \in Line |->
       IF \E k \in 1 .. Len(pendingLines) : pendingLines[k] = l
       THEN FlushedLine(CHOOSE k \in 1 .. Len(pendingLines) : pendingLines[k] = l)
       ELSE lines[l]]
  /\ linesDrawn' = [o \in Object |->
       IF \E k \in 1 .. Len(pendingLines) : FlushedLine(k) = o
       THEN LET l == pendingLines[o - FlushedLine(0)] IN [line |-> l, path |-> dom[l]]
       ELSE linesDrawn[o]]

\* DynamicMap.mounted: the map and the layer with the tiles in view are made,
\* and the hooks that came first are served.
JoinMap ==
  /\ Map \in joining
  /\ joining' = joining \ {Map}
  /\ ready' = TRUE
  /\ \E T \in SUBSET Tile \ {{}} : tiles' = T
  /\ Flush
  /\ pendingMarkers' = <<>>
  /\ pendingLines' = <<>>
  /\ copies' = [t \in Tile |-> IF t \in tiles' THEN {o \in Object : masters'[o] # NoValue} ELSE {}]
  /\ drawn' = [t \in Tile |-> IF t \in tiles' THEN masters' ELSE Blank]
  /\ UNCHANGED <<dom, camera>>

-----------------------------------------------------------------------------
(* Patches: an item is inserted into the stream, or deleted *)

InsertMarker(m, v) ==
  /\ joining = {}
  /\ dom' = [dom EXCEPT ![m] = v]
  /\ \/ /\ dom[m] = NoValue \/ m \in Remounting
        /\ MarkerMounted(m, v)
        /\ UNCHANGED camera
     \/ /\ dom[m] # NoValue
        /\ MarkerUpdated(m, v)
  /\ UNCHANGED <<joining, ready, pending, lineVars>>

DeleteMarker(m) ==
  /\ joining = {}
  /\ dom[m] # NoValue
  /\ dom' = [dom EXCEPT ![m] = NoValue]
  /\ MarkerDestroyed(m)
  /\ UNCHANGED <<joining, ready, pending, objects, lineVars, camera>>

InsertLine(l, v) ==
  /\ joining = {}
  /\ dom' = [dom EXCEPT ![l] = v]
  /\ \/ /\ dom[l] = NoValue \/ l \in Remounting
        /\ LineMounted(l, v)
     \/ /\ dom[l] # NoValue
        /\ LineUpdated(l, v)
  /\ UNCHANGED <<joining, ready, pending, markerVars, camera>>

DeleteLine(l) ==
  /\ joining = {}
  /\ dom[l] # NoValue
  /\ dom' = [dom EXCEPT ![l] = NoValue]
  /\ LineDestroyed(l)
  /\ UNCHANGED <<joining, ready, pending, objects, markerVars, camera>>

-----------------------------------------------------------------------------
(* Commands pushed by the server, and the user *)

\* followMarker and unfollowMarker: the id need not be on the map.
Follow(f) ==
  /\ ready
  /\ follow' = f
  /\ UNCHANGED <<dom, joining, ready, pending, objects, markerVars, lineVars, centre>>

\* highlightMarker pans to a marker the map has.
HighlightMarker(m) ==
  /\ ready
  /\ markers[m] # NoObject
  /\ centre' = masters[markers[m]]
  /\ UNCHANGED <<dom, joining, ready, pending, objects, markerVars, lineVars, follow>>

BrowserNext ==
  \/ JoinMap
  \/ \E m \in Marker : JoinMarker(m) \/ DeleteMarker(m) \/ HighlightMarker(m)
  \/ \E m \in Marker, v \in Value : InsertMarker(m, v)
  \/ \E l \in Line : JoinLine(l) \/ DeleteLine(l)
  \/ \E l \in Line, v \in Value : InsertLine(l, v)
  \/ \E t \in Tile : CreateTile(t) \/ RemoveTile(t)
  \/ \E f \in Marker \cup {NoObject} : Follow(f)

BrowserSpec == BrowserInit /\ [][BrowserNext]_browserVars

-----------------------------------------------------------------------------
(* Properties *)

\* There are no ghosts: whatever tiles come and go and markers are added, moved
\* and removed, each tile in view shows every marker of the layer where it is,
\* and nothing is left of a tile that is gone (the patches of RepeatedMarkers).
NoGhosts ==
  \A t \in Tile :
    /\ drawn[t] = IF t \in tiles THEN masters ELSE Blank
    /\ copies[t] = IF t \in tiles THEN Masters ELSE {}

\* When the first render is done the map shows the markers of the page's stream,
\* each once and with its latest data, though mounted() may run again for an
\* element and hooks may run before the map exists (DMarkItem, DynamicMap).
MapShowsMarkers ==
  joining = {} =>
    /\ \A m \in Marker :
         IF dom[m] = NoValue THEN markers[m] = NoObject
         ELSE markers[m] # NoObject /\ masters[markers[m]] = dom[m]
    /\ \A o \in Masters : \E m \in Marker : markers[m] = o

\* Every line of the page's stream is drawn with its latest path, and a line that
\* is drawn without being in the stream was left by an element that was mounted
\* twice (DPolylineItem, _addPolylineFromEl).
MapShowsLines ==
  joining = {} =>
    /\ \A l \in Line :
         dom[l] # NoValue => /\ lines[l] # NoObject
                             /\ linesDrawn[lines[l]] = [line |-> l, path |-> dom[l]]
    /\ \A o \in Object :
         linesDrawn[o] # NoValue =>
           LET l == linesDrawn[o].line IN lines[l] = o \/ l \in Remounting

\* The map shows the streams of its page.
MapShowsStreams == MapShowsMarkers /\ MapShowsLines

\* The map goes along with every move of a marker it follows, but for moves the
\* client shows by mounting the element again (DMarkItem.updated).
FollowKeepsUp ==
  [][\A m \in Marker \ Remounting :
       follow = m /\ markers[m] # NoObject /\ markers'[m] # NoObject
       /\ masters'[markers'[m]] # masters[markers[m]]
       => centre' = dom'[m]]_browserVars

=============================================================================
