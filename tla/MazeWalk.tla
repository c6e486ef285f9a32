------------------------------ MODULE MazeWalk ------------------------------
(***************************************************************************)
(* The maze client 3-4.py of np-lab3: the server shows only a window       *)
(* around the player, so the client walks the maze depth first, draws the  *)
(* map as it goes, and walks back before it takes up an older branch.      *)
(*                                                                         *)
(* The columns of known_maze count from the leftmost one seen so far: when *)
(* one more appears at the left, everything the client remembers shifts.   *)
(* A symbol of the map is the maze column it was read from, WlkPad where   *)
(* nothing was read.  The server is external: it moves the player into an  *)
(* open cell and shows the window around it.                               *)
(***************************************************************************)
EXTENDS Integers, Sequences, FiniteSets, SequencesExt

CONSTANTS
    WlkH, WlkW,     \* rows and columns, the border included
    WlkMazes,       \* the mazes: sets of open cells <<row, column>>
    WlkReach        \* vpw // 2 and vph // 2: how far the window shows

ASSUME WlkSizesAssumption == WlkH \in Nat /\ WlkW \in Nat
ASSUME WlkMazesAssumption ==
    \A maze \in WlkMazes : maze \subseteq (1 .. WlkH - 2) \X (1 .. WlkW - 2)
ASSUME WlkReachAssumption == WlkReach \in Nat /\ WlkReach >= 2

WlkPad == -1

VARIABLES
    wlkPc,          \* "off", "walk", "flag" (E reached), "end" (q empty), "error"
    wlkOpen, wlkEnd,\* the maze
    wlkAt,          \* the player, as the server has it
    wlkKnown,       \* known_maze: a sequence of symbols for each row
    wlkQ, wlkVisit  \* q (the last entry is taken first) and visit

wlkVars == <<wlkPc, wlkOpen, wlkEnd, wlkAt, wlkKnown, wlkQ, wlkVisit>>

WlkMoves == <<"W", "S", "A", "D">>
WlkStep(p, m) == CASE m = "W" -> <<p[1] - 1, p[2]>> [] m = "S" -> <<p[1] + 1, p[2]>>
                   [] m = "A" -> <<p[1], p[2] - 1>> [] m = "D" -> <<p[1], p[2] + 1>>
WlkLast(s) == s[Len(s)]
WlkFront(s) == SubSeq(s, 1, Len(s) - 1)
WlkLeast(a, b) == IF a < b THEN a ELSE b
WlkMost(a, b) == IF a > b THEN a ELSE b

\* Rows and columns of the maze in the window around p; blanks are stripped.
WlkRows(p) == WlkMost(0, p[1] - WlkReach) .. WlkLeast(WlkH - 1, p[1] + WlkReach)
WlkFirst(p) == WlkMost(0, p[2] - WlkReach)
WlkFinal(p) == WlkLeast(WlkW - 1, p[2] + WlkReach)
WlkSeen(p) == [i \in 1 .. WlkFinal(p) - WlkFirst(p) + 1 |-> WlkFirst(p) + i - 1]

WlkInit ==
    /\ wlkPc = "off" /\ wlkOpen = {} /\ wlkEnd = <<1, 1>> /\ wlkAt = <<1, 1>>
    /\ wlkKnown = [y \in 0 .. WlkH - 1 |-> <<>>] /\ wlkQ = <<>> /\ wlkVisit = {}

\* The first window: the rows it shows, the others padded to the same length.
WlkConnect ==
    /\ wlkPc = "off"
    /\ wlkOpen' \in WlkMazes
    /\ wlkAt' \in wlkOpen' /\ wlkEnd' \in wlkOpen' \ {wlkAt'}
    /\ LET seen == WlkSeen(wlkAt')
           here == <<wlkAt'[1], wlkAt'[2] - WlkFirst(wlkAt')>>      \* cury, curx
       IN  /\ wlkKnown' = [y \in 0 .. WlkH - 1 |->
                              IF y \in WlkRows(wlkAt') THEN seen
                              ELSE [i \in DOMAIN seen |-> WlkPad]]
           /\ wlkQ' = <<[at |-> here, path |-> <<>>]>>
           /\ wlkVisit' = {here}
    /\ wlkPc' = "walk"

\* The player after the moves of a path: a move into a wall is not made.
WlkGo(p, moves) ==
    LET cell[i \in 0 .. Len(moves)] ==
            IF i = 0 THEN p
            ELSE LET from == cell[i - 1]
                     to == WlkStep(from, moves[i])
                 IN  IF to \in wlkOpen THEN to ELSE from
    IN  cell[Len(moves)]

WlkOpposite(m) == CASE m = "W" -> "S" [] m = "S" -> "W" [] m = "A" -> "D" [] m = "D" -> "A"

\* Mutant: the way back stops one step early.
WlkReversePathShort(path, parent) ==
    LET up == SubSeq(path, Len(parent) + 1, Len(path))
    IN  [i \in 1 .. Len(up) |-> WlkOpposite(up[Len(up) - i + 1])]

\* get_reverse_path: undo the part of path below the parent of the next cell.
WlkReversePath(path, parent) ==
    LET up == SubSeq(path, Len(parent), Len(path))
    IN  [i \in 1 .. Len(up) |-> WlkOpposite(up[Len(up) - i + 1])]

\* row[:from] + new + row[to:] for the positions counted from 0.
WlkSplice(row, from, new, to) ==
    SubSeq(row, 1, from) \o new \o SubSeq(row, to + 1, Len(row))

\* After 'W' or 'S': the row that has come into view, y, replaces its part
\* of the map; x is the player's column there.
WlkDrawRow(y, x, p) ==
    LET from == WlkMost(0, x - WlkReach)
        to == WlkLeast(x + WlkReach + 1, Len(wlkKnown[0]))
    IN  [wlkKnown EXCEPT ![y] = WlkSplice(@, from, WlkSeen(p), to)]

\* After 'A': the leftmost column of the window.
WlkDrawLeft(x, p) ==
    [y \in DOMAIN wlkKnown |->
        LET row == wlkKnown[y]
            c == IF y \in WlkRows(p) THEN WlkFirst(p) ELSE WlkPad
        IN  CASE p[2] - WlkReach < 0 /\ c # WlkPad -> WlkSplice(row, 0, <<c>>, 1)
              [] p[2] - WlkReach >= 0 /\ x - WlkReach = -1 -> <<c>> \o row
              [] p[2] - WlkReach >= 0 /\ x - WlkReach # -1 /\ c # WlkPad ->
                     WlkSplice(row, x - WlkReach, <<c>>, x - WlkReach + 1)
              [] OTHER -> row]

\* After 'D': the rightmost column of the window.
WlkDrawRight(x, p) ==
    [y \in DOMAIN wlkKnown |->
        LET row == wlkKnown[y]
            n == Len(row)
            c == IF y \in WlkRows(p) THEN WlkFinal(p) ELSE WlkPad
        IN  CASE p[2] + WlkReach > WlkW - 1 /\ c # WlkPad -> WlkSplice(row, n - 1, <<c>>, n)
              [] p[2] + WlkReach <= WlkW - 1 /\ x + WlkReach = n -> Append(row, c)
              [] p[2] + WlkReach <= WlkW - 1 /\ x + WlkReach # n /\ c # WlkPad ->
                     WlkSplice(row, x + WlkReach, <<c>>, x + WlkReach + 1)
              [] OTHER -> row]

\* Mutant: the columns of visit and q keep their old numbers.
WlkShiftNone(m, x, p) == 0

\* v[1] += 1 and p[1] += 1 when the map grows at its left.
WlkShift(m, x, p) ==
    IF m = "A" /\ p[2] - WlkReach >= 0 /\ x - WlkReach = -1 THEN 1 ELSE 0

\* The symbol at cell c of the map; is it '.' or 'E'; is it 'E'.
WlkCol(c) == IF c[2] + 1 \in DOMAIN wlkKnown[c[1]] THEN wlkKnown[c[1]][c[2] + 1] ELSE WlkPad

WlkFree(c) == <<c[1], WlkCol(c)>> \in wlkOpen
WlkIsE(c) == <<c[1], WlkCol(c)>> = wlkEnd

\* The moves from cell c to cells that are free and new.
WlkFresh(c, m) == WlkFree(WlkStep(c, m)) /\ WlkStep(c, m) \notin wlkVisit
WlkFreshMoves(c) ==
    FlattenSeq([i \in 1 .. 4 |-> IF WlkFresh(c, WlkMoves[i]) THEN <<WlkMoves[i]>> ELSE <<>>])

\* One turn of the loop of find_path.
WlkTurn ==
    /\ wlkPc = "walk" /\ wlkQ # <<>>
    /\ LET cell == WlkLast(wlkQ).at
           path == WlkLast(wlkQ).path
           next == WlkFreshMoves(cell)
           q == WlkFront(wlkQ) \o [i \in 1 .. Len(next) |->
                    [at |-> WlkStep(cell, next[i]), path |-> Append(path, next[i])]]
           visit == wlkVisit \cup {WlkStep(cell, next[i]) : i \in 1 .. Len(next)}
       IN  \/ /\ WlkIsE(cell)
              /\ wlkAt' = WlkGo(wlkAt, <<WlkLast(path)>>)
              /\ wlkPc' = "flag" /\ UNCHANGED <<wlkKnown, wlkQ, wlkVisit>>
           \/ /\ ~WlkIsE(cell) /\ path = <<>>
              /\ wlkQ' = q /\ wlkVisit' = visit /\ UNCHANGED <<wlkPc, wlkAt, wlkKnown>>
           \/ /\ ~WlkIsE(cell) /\ path # <<>> /\ next = <<>>        \* dead_end
              /\ IF q = <<>> THEN wlkPc' = "error" /\ UNCHANGED wlkAt
                 ELSE /\ wlkAt' = WlkGo(wlkAt, WlkReversePath(WlkFront(path), WlkLast(q).path))
                      /\ UNCHANGED wlkPc
              /\ wlkQ' = q /\ wlkVisit' = visit /\ UNCHANGED wlkKnown
           \/ /\ ~WlkIsE(cell) /\ path # <<>> /\ next # <<>>
              /\ LET m == WlkLast(path)
                     p == WlkGo(wlkAt, <<m>>)
                     x == cell[2]
                     by == WlkShift(m, x, p)
                     shift(c) == <<c[1], c[2] + by>>
                 IN  /\ wlkAt' = p
                     /\ wlkKnown' = CASE m = "W" -> WlkDrawRow(WlkMost(0, p[1] - WlkReach), x, p)
                                      [] m = "S" -> WlkDrawRow(WlkLeast(WlkH - 1, p[1] + WlkReach), x, p)
                                      [] m = "A" -> WlkDrawLeft(x, p)
                                      [] m = "D" -> WlkDrawRight(x, p)
                     /\ wlkQ' = [i \in DOMAIN q |-> [q[i] EXCEPT !.at = shift(@)]]
                     /\ wlkVisit' = {shift(c) : c \in visit}
              /\ UNCHANGED wlkPc
    /\ UNCHANGED <<wlkOpen, wlkEnd>>

\* The queue is empty: find_path returns no flag.
WlkGiveUp ==
    /\ wlkPc = "walk" /\ wlkQ = <<>>
    /\ wlkPc' = "end"
    /\ UNCHANGED <<wlkOpen, wlkEnd, wlkAt, wlkKnown, wlkQ, wlkVisit>>

WlkNext == WlkConnect \/ WlkTurn \/ WlkGiveUp

WlkSpec == WlkInit /\ [][WlkNext]_wlkVars

(***************************************************************************)
(* However the map grows at its sides, its rows keep one length and every  *)
(* symbol in it stands where the maze has it, up to one common offset.     *)
(***************************************************************************)
WlkMapRight ==
    \E off \in 0 .. WlkW : \A y \in DOMAIN wlkKnown :
        /\ Len(wlkKnown[y]) = Len(wlkKnown[0])
        /\ \A i \in DOMAIN wlkKnown[y] : wlkKnown[y][i] \in {WlkPad, off + i - 1}

(***************************************************************************)
(* The walk back ends at the right branch: before each turn the player     *)
(* stands where the last move of the next cell's path begins, and that     *)
(* cell is the one the client has in mind.                                 *)
(***************************************************************************)
WlkInPlace ==
    wlkPc = "walk" /\ wlkQ # <<>> /\ WlkLast(wlkQ).path # <<>> =>
        LET c == WlkLast(wlkQ).at
        IN  WlkStep(wlkAt, WlkLast(WlkLast(wlkQ).path)) = <<c[1], WlkCol(c)>>

(***************************************************************************)
(* The walk gives up, or runs out of branches in a dead end, only when E   *)
(* cannot be reached; and when it asks for the flag it stands on E.        *)
(***************************************************************************)
WlkFinds ==
    /\ wlkPc = "flag" => wlkAt = wlkEnd
    /\ wlkPc \in {"end", "error"} =>
           \E S \in SUBSET wlkOpen :
              /\ wlkAt \in S /\ wlkEnd \notin S
              /\ \A p \in S, m \in {"W", "S", "A", "D"} : WlkStep(p, m) \in wlkOpen => WlkStep(p, m) \in S

\* The walk of 3-4.py as a whole: the map it draws is the maze, it comes back to
\* the right branch, and finds E if it can be found.
WlkRight ==
    /\ WlkMapRight
    /\ WlkInPlace
    /\ WlkFinds
=============================================================================
