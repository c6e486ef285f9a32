------------------------------- MODULE MazeMap -------------------------------
(***************************************************************************)
(* The maze clients 3-1.py, 3-2.py and 3-3.py of np-lab3.  The first walks *)
(* a straight line through an empty room, the second gets the whole maze   *)
(* and searches it breadth first, the third sees a window of it, which it  *)
(* pans over the maze to put the map together before the same search.      *)
(*                                                                         *)
(* Rows and columns count from 0 and the border of a maze is wall.  A row  *)
(* of whole_maze is the sequence of the maze columns its symbols were read *)
(* from.  The server shows a row outside the maze as a label and blanks.   *)
(***************************************************************************)
EXTENDS Integers, Sequences, FiniteSets, SequencesExt

CONSTANTS
    MapH, MapW,     \* rows and columns of the maze
    MapEnds,        \* where 'E' may be, for each of the three clients
    MapViews        \* sizes of the window: pairs <<height, width>>

ASSUME MapSizesAssumption == MapH \in Nat /\ MapW \in Nat
ASSUME MapViewsAssumption ==
    \A v \in MapViews : v[1] \in Nat \ {0} /\ v[2] \in Nat \ {0}

VARIABLES
    mapPc,          \* "off", "up", "left", "pad", "pan", "find", "search", "end", "died"
    mapLab,         \* 1, 2 or 3
    mapOpen, mapStart, mapEnd,  \* the maze: open cells, '*' and 'E'
    mapView,        \* view_height, view_width
    mapTop, mapLeft,\* the corner of the window
    mapBand, mapTile, mapRows,  \* the two loops of mapping() and maze_row
    mapWhole,       \* whole_maze
    mapQueue, mapVisited, mapPath

mapMaze == <<mapLab, mapOpen, mapStart, mapEnd, mapView>>
mapPan == <<mapTop, mapLeft, mapBand, mapTile, mapRows>>
mapVars == <<mapPc, mapMaze, mapPan, mapWhole, mapQueue, mapVisited, mapPath>>

MapInterior == (1 .. MapH - 2) \X (1 .. MapW - 2)
MapColumns == [x \in 1 .. MapW |-> x - 1]

MapMoveOf(m) == CASE m = "W" -> <<-1, 0>> [] m = "S" -> <<1, 0>>
                  [] m = "A" -> <<0, -1>> [] m = "D" -> <<0, 1>>
MapStep(p, m) == <<p[1] + MapMoveOf(m)[1], p[2] + MapMoveOf(m)[2]>>

MapInit ==
    /\ mapPc = "off" /\ mapLab = 1 /\ mapOpen = {} /\ mapStart = <<1, 1>>
    /\ mapEnd = <<1, 1>> /\ mapView = <<1, 1>> /\ mapTop = 0 /\ mapLeft = 0
    /\ mapBand = 0 /\ mapTile = 0 /\ mapRows = <<>> /\ mapWhole = <<>>
    /\ mapQueue = <<>> /\ mapVisited = {} /\ mapPath = <<>>

\* Where find_path starts.
MapFrom(p) ==
    /\ mapQueue' = <<[at |-> p, path |-> <<>>]>>
    /\ mapVisited' = {p}

\* The server's maze; the window of 3-3 starts centred on '*'.
MapConnect ==
    /\ mapPc = "off"
    /\ mapLab' \in 1 .. 3
    /\ mapView' \in IF mapLab' = 3 THEN MapViews ELSE {mapView}
    /\ mapStart' \in MapInterior /\ mapEnd' \in MapEnds[mapLab']
    /\ mapStart' # mapEnd'
    /\ mapOpen' \in SUBSET MapInterior
    /\ {mapStart', mapEnd'} \subseteq mapOpen'
    /\ mapLab' = 1 => mapOpen' = MapInterior
    /\ mapTop' = mapStart'[1] - mapView'[1] \div 2
    /\ mapLeft' = mapStart'[2] - mapView'[2] \div 2
    /\ mapWhole' = IF mapLab' = 3 THEN <<>> ELSE [y \in 1 .. MapH |-> MapColumns]
    /\ mapPc' = IF mapLab' = 3 THEN "up" ELSE "search"
    /\ MapFrom(mapStart')
    /\ UNCHANGED <<mapBand, mapTile, mapRows, mapPath>>

\* Is '*' so high that the window of 3-3 begins above the maze?
MapAbove == mapLab = 3 /\ mapStart[1] < mapView[1] \div 2

\* move_up: pan until the first row of the maze is the first of the window, but
\* leave a window that begins above the maze where it is.
MapMoveUp ==
    /\ mapPc = "up"
    /\ mapTop' = IF MapAbove THEN mapTop
                 ELSE mapTop - (mapStart[1] - mapView[1] \div 2)
    /\ mapPc' = "left"
    /\ UNCHANGED <<mapMaze, mapLeft, mapBand, mapTile, mapRows, mapWhole, mapQueue,
                   mapVisited, mapPath>>

\* The maze row that the first row of whole_maze was read from.
MapShift == IF MapAbove THEN mapStart[1] - mapView[1] \div 2 ELSE 0

\* move_left: pan by whole windows until the first column of the first row is blank,
\* as it is at once in a row above the maze.
MapMoveLeft ==
    /\ mapPc = "left"
    /\ IF mapLeft < 0 \/ mapTop < 0 THEN mapPc' = "pad" /\ UNCHANGED mapLeft
       ELSE mapLeft' = mapLeft - mapView[2] /\ UNCHANGED mapPc
    /\ UNCHANGED <<mapMaze, mapTop, mapBand, mapTile, mapRows, mapWhole, mapQueue,
                   mapVisited, mapPath>>

\* The maze columns that the window shows; blanks are stripped.
MapSeen(left) ==
    LET first == IF left < 0 THEN 0 ELSE left
        behind == IF left + mapView[2] < MapW THEN left + mapView[2] ELSE MapW
    IN  [i \in 1 .. behind - first |-> first + i - 1]

\* mapping: pan right by the blanks before the first symbol of the first row, or
\* by the whole window when there is nothing else.
MapPad ==
    /\ mapPc = "pad"
    /\ mapLeft' = IF mapTop < 0 \/ MapSeen(mapLeft) = <<>> THEN mapLeft + mapView[2] ELSE MapSeen(mapLeft)[1]
    /\ mapRows' = <<>> /\ mapPc' = "pan"
    /\ UNCHANGED <<mapMaze, mapTop, mapBand, mapTile, mapWhole, mapQueue, mapVisited,
                   mapPath>>

MapLastTile == MapW \div mapView[2]
MapBack == mapBand % 2 = 1      \* direction

MapStitch(row, seen) == IF MapBack THEN seen \o row ELSE row \o seen

\* mapping: add what the window shows to the rows of this band and pan on to
\* the next tile; after the last tile, store the rows and pan down.  A row of
\* the window above or below the maze shows nothing.
MapPanWindow ==
    /\ mapPc = "pan"
    /\ LET rows == MapStitch(mapRows, MapSeen(mapLeft))
           dir == IF MapBack THEN -1 ELSE 1
       IN  IF mapTile # MapLastTile
           THEN /\ mapLeft' = mapLeft + dir * mapView[2]
                /\ mapTile' = mapTile + 1 /\ mapRows' = rows
                /\ UNCHANGED <<mapPc, mapTop, mapBand, mapWhole>>
           ELSE /\ mapWhole' = mapWhole \o [i \in 1 .. mapView[1] |->
                                   IF 1 <= mapTop + i /\ mapTop + i <= MapH THEN rows ELSE <<>>]
                /\ mapTop' = mapTop + mapView[1]
                /\ mapBand' = mapBand + 1 /\ mapTile' = 0 /\ mapRows' = <<>>
                /\ mapPc' = IF mapBand = MapH \div mapView[1] THEN "find" ELSE "pan"
                /\ UNCHANGED mapLeft
    /\ UNCHANGED <<mapMaze, mapQueue, mapVisited, mapPath>>

\* An index of a Python list or string of n elements: -1 is the last.
MapIndex(i, n) == IF i < 0 THEN n + i + 1 ELSE i + 1

MapRowAt(p) == mapWhole[MapIndex(p[1], Len(mapWhole))]

\* maze[y][x] does not raise an IndexError.
MapReadable(p) ==
    /\ MapIndex(p[1], Len(mapWhole)) \in 1 .. Len(mapWhole)
    /\ MapIndex(p[2], Len(MapRowAt(p))) \in 1 .. Len(MapRowAt(p))

\* The cell of the maze whose symbol is at p of the map.
MapCellAt(p) ==
    <<MapIndex(p[1], Len(mapWhole)) - 1 + MapShift, MapRowAt(p)[MapIndex(p[2], Len(MapRowAt(p)))]>>

\* Is the symbol at p of the map '.' or 'E'?
MapFree(p) == MapCellAt(p) \in mapOpen \ {mapStart}

\* find_path starts where '*' is in the row start_y of the map; find() answers -1
\* when it is not there.
MapLocate ==
    /\ mapPc = "find"
    /\ LET y == mapStart[1]
           xs == {x \in 0 .. Len(mapWhole[y + 1]) - 1 : MapCellAt(<<y, x>>) = mapStart}
       IN  MapFrom(<<y, IF xs = {} THEN -1 ELSE CHOOSE x \in xs : TRUE>>)
    /\ mapPc' = "search"
    /\ UNCHANGED <<mapMaze, mapPan, mapWhole, mapPath>>

MapOrder == IF mapLab = 2 THEN <<"S", "W", "D", "A">> ELSE <<"W", "S", "A", "D">>

\* Mutant: pop() takes the last cell of the queue.
MapPopLast(q) == <<Last(q), Front(q)>>

\* queue.pop(0): the cell and what is left.
MapPop(q) == <<Head(q), Tail(q)>>

\* The moves from p to cells that are free and new.
MapFresh(p, m) == MapFree(MapStep(p, m)) /\ MapStep(p, m) \notin mapVisited
MapFreshMoves(p) ==
    FlattenSeq([i \in 1 .. 4 |-> IF MapFresh(p, MapOrder[i]) THEN <<MapOrder[i]>> ELSE <<>>])

\* The symbols that a turn of the search at p looks at.
MapLooks(p) == {p} \cup {MapStep(p, MapOrder[i]) : i \in 1 .. 4}

\* One turn of the search of 3-2 and of find_path in 3-3; an empty queue
\* leaves the path empty, and an IndexError ends the program.
MapSearch ==
    /\ mapPc = "search" /\ mapLab # 1
    /\ IF mapQueue = <<>>
       THEN mapPc' = "end" /\ UNCHANGED <<mapQueue, mapVisited, mapPath>>
       ELSE LET cur == MapPop(mapQueue)[1]
                next == MapFreshMoves(cur.at)
                found == MapReadable(cur.at) /\ MapCellAt(cur.at) = mapEnd
            IN  IF ~found /\ \E p \in MapLooks(cur.at) : ~MapReadable(p)
                THEN mapPc' = "died" /\ UNCHANGED <<mapQueue, mapVisited, mapPath>>
                ELSE IF found
                THEN /\ mapPath' = cur.path /\ mapPc' = "end"
                     /\ UNCHANGED <<mapQueue, mapVisited>>
                ELSE /\ mapQueue' = MapPop(mapQueue)[2] \o [i \in 1 .. Len(next) |->
                              [at |-> MapStep(cur.at, next[i]), path |-> Append(cur.path, next[i])]]
                     /\ mapVisited' = mapVisited \cup {MapStep(cur.at, next[i]) : i \in 1 .. Len(next)}
                     /\ UNCHANGED <<mapPc, mapPath>>
    /\ UNCHANGED <<mapMaze, mapPan, mapWhole>>

\* 3-1: the columns first, then the rows.
MapStraight ==
    /\ mapPc = "search" /\ mapLab = 1
    /\ LET times(n, m) == [i \in 1 .. (IF n > 0 THEN n ELSE 0) |-> m]
           x == mapStart[2] - mapEnd[2]
           y == mapStart[1] - mapEnd[1]
       IN  mapPath' = times(x, "A") \o times(-x, "D") \o times(y, "W") \o times(-y, "S")
    /\ mapPc' = "end"
    /\ UNCHANGED <<mapMaze, mapPan, mapWhole, mapQueue, mapVisited>>

MapNext == MapConnect \/ MapMoveUp \/ MapMoveLeft \/ MapPad \/ MapPanWindow \/ MapLocate
           \/ MapSearch \/ MapStraight

MapSpec == MapInit /\ [][MapNext]_mapVars

-----------------------------------------------------------------------------

\* Reference: the open cells at most n steps from '*'.
MapNear[n \in Nat] ==
    IF n = 0 THEN {mapStart}
    ELSE LET near == MapNear[n - 1]
         IN  near \cup {p \in mapOpen : \E m \in {"W", "S", "A", "D"} : MapStep(p, m) \in near}

\* The cells that the moves of path lead through.
MapTrace(path) ==
    LET cell[i \in 0 .. Len(path)] ==
            IF i = 0 THEN mapStart ELSE MapStep(cell[i - 1], path[i])
    IN  cell

(***************************************************************************)
(* Panning over the maze in both directions, with a window that does not   *)
(* divide it, puts together every row of the maze, complete and in order,  *)
(* unless the first window begins above the maze.                          *)
(***************************************************************************)
MapStitched ==
    mapPc = "search" /\ ~MapAbove => \A y \in 1 .. MapH : mapWhole[y] = MapColumns

(***************************************************************************)
(* The moves sent lead from '*' to 'E' through open cells in the least     *)
(* number of steps, and none are sent only when 'E' cannot be reached,     *)
(* unless the first window of 3-3 begins above the maze; then alone may    *)
(* the search read beside the map.                                         *)
(***************************************************************************)
MapPathShortest ==
    mapPc \in {"end", "died"} /\ ~MapAbove =>
        /\ mapPc # "died"
        /\ LET t == MapTrace(mapPath)
               n == Len(mapPath)
           IN  \/ /\ t[n] = mapEnd /\ n > 0
                  /\ \A i \in 0 .. n : t[i] \in mapOpen
                  /\ mapEnd \notin MapNear[n - 1]
               \/ mapPath = <<>> /\ mapEnd \notin MapNear[MapH * MapW]

\* The clients that see the whole maze, or put it together.
MapRight ==
    /\ MapStitched
    /\ MapPathShortest
=============================================================================
