------------------------------- MODULE Queens -------------------------------
(***************************************************************************)
(* The two queens programs of np-lab7: the client that completes a board   *)
(* by backtracking, and the class NQueens for min-conflicts.  They share   *)
(* nothing.                                                                *)
(***************************************************************************)
EXTENDS Integers, Sequences, FiniteSets, SequencesExt

-----------------------------------------------------------------------------
(* The client (solve.cpp; try.cpp is the same program cut into functions): *)
(* ask the server for its board, complete it by backtracking, mark the     *)
(* queens one by one and ask for the verdict.                              *)
(*                                                                         *)
(* A board is a function from columns to rows, 0 where a column has no     *)
(* queen.  The recursion of solve() is a stack of frames: the board of the *)
(* call and the last row it has tried in its first empty column.           *)

CONSTANT QueN       \* BOARD_SIZE (30 in the code)

ASSUME QueNAssumption == QueN \in 1 .. 255      \* rows are kept in a uint8_t

QueLines == 1 .. QueN
QueCells == QueLines \X QueLines                \* <<row, column>>

VARIABLES
    queGiven,       \* the queens on the server's board at the start
    quePc,          \* "off", "ask", "solve", "mark", "check", "end", "exit"
    queWhole,       \* the one recv() returned the whole board
    queStack,       \* the pending calls of solve(), the last one on top
    queTarget,      \* the cells to mark, in the order of the rows
    queMarked,      \* the cells marked on the server
    queVerdict      \* the answer to "c": "none", "right", "wrong"

queVars == <<queGiven, quePc, queWhole, queStack, queTarget, queMarked, queVerdict>>

QueAttacks(p, q) ==
    /\ p # q
    /\ \/ p[1] = q[1] \/ p[2] = q[2]
       \/ p[1] - p[2] = q[1] - q[2] \/ p[1] + p[2] = q[1] + q[2]
QuePeaceful(Q) == \A p, q \in Q : ~QueAttacks(p, q)

\* Reference: the boards that complete Q.
QueSolutions(Q) ==
    {f \in [QueLines -> QueLines] : LET S == {<<f[c], c>> : c \in QueLines}
                                    IN  Q \subseteq S /\ QuePeaceful(S)}

QueInit ==
    /\ queGiven = {} /\ quePc = "off" /\ queWhole = TRUE /\ queStack = <<>>
    /\ queTarget = <<>> /\ queMarked = {} /\ queVerdict = "none"

\* The server starts with queens that do not attack each other; the client
\* connects and sends "s".
QueStart ==
    /\ quePc = "off"
    /\ \E Q \in {{}} \cup {{p, q} : p, q \in QueCells} :
          QuePeaceful(Q) /\ queGiven' = Q
    /\ quePc' = "ask"
    /\ UNCHANGED <<queWhole, queStack, queTarget, queMarked, queVerdict>>

\* The first queen of each column, read row by row.
QueColumns(Q) ==
    [c \in QueLines |->
        LET rows == {r \in QueLines : <<r, c>> \in Q}
        IN  IF rows = {} THEN 0 ELSE CHOOSE r \in rows : \A s \in rows : r <= s]

QueFrame(b) == [board |-> b, num |-> 0]

\* One recv(): the cells that did not arrive with it keep their initial 0.
QueRead ==
    /\ quePc = "ask"
    /\ \E n \in 0 .. QueN * QueN :
          LET got == {p \in queGiven : (p[1] - 1) * QueN + p[2] <= n}
          IN  /\ queWhole' = (got = queGiven)
              /\ queStack' = <<QueFrame(QueColumns(got))>>
    /\ quePc' = "solve"
    /\ UNCHANGED <<queGiven, queTarget, queMarked, queVerdict>>

QueEmpty(b) == {c \in QueLines : b[c] = 0}

\* Some queen of b attacks row num of column c.
QueConflict(b, c, num) ==
    \E q \in QueLines \ QueEmpty(b) :
        num = b[q] \/ (q - c) * (q - c) = (b[q] - num) * (b[q] - num)

\* Mutant: a call that found no row reports failure to the first call.
QueReturnFalseAll(stack) == <<>>

QueReturnFalse(stack) == SubSeq(stack, 1, Len(stack) - 1)

\* One turn of solve(): call itself for the next row without conflict, or
\* return false; a full board fills target and every call returns true.
QueSolve ==
    /\ quePc = "solve"
    /\ IF queStack = <<>>
       THEN quePc' = "check" /\ UNCHANGED <<queStack, queTarget>>
       ELSE LET b == queStack[Len(queStack)].board
                last == queStack[Len(queStack)].num
                cols == QueEmpty(b)
                c == CHOOSE d \in cols : \A e \in cols : d <= e
                free == {r \in QueLines : r > last /\ ~QueConflict(b, c, r)}
                num == CHOOSE r \in free : \A s \in free : r <= s
            IN  \/ /\ cols = {}
                   /\ queTarget' = [r \in QueLines |-> <<r, CHOOSE d \in QueLines : b[d] = r>>]
                   /\ quePc' = "mark" /\ UNCHANGED queStack
                \/ /\ cols # {} /\ free = {}
                   /\ queStack' = QueReturnFalse(queStack)
                   /\ UNCHANGED <<quePc, queTarget>>
                \/ /\ cols # {} /\ free # {}
                   /\ queStack' = Append([queStack EXCEPT ![Len(queStack)].num = num],
                                         QueFrame([b EXCEPT ![c] = num]))
                   /\ UNCHANGED <<quePc, queTarget>>
    /\ UNCHANGED <<queGiven, queWhole, queMarked, queVerdict>>

\* "M row col" for the next cell of target, and its answer.
QueMark ==
    /\ quePc = "mark"
    /\ queMarked' = queMarked \cup {Head(queTarget)}
    /\ queTarget' = Tail(queTarget)
    /\ quePc' = IF Len(queTarget) = 1 THEN "check" ELSE "mark"
    /\ UNCHANGED <<queGiven, queWhole, queStack, queVerdict>>

\* "c": the server looks whether its board is complete and peaceful.
QueCheck ==
    /\ quePc = "check"
    /\ queVerdict' = LET Q == queGiven \cup queMarked
                     IN  IF Cardinality(Q) = QueN /\ QuePeaceful(Q) THEN "right" ELSE "wrong"
    /\ quePc' = "end"
    /\ UNCHANGED <<queGiven, queWhole, queStack, queTarget, queMarked>>

\* A send() or recv() fails: the client exits.
QueFail ==
    /\ quePc \in {"ask", "mark", "check"}
    /\ quePc' = "exit"
    /\ UNCHANGED <<queGiven, queWhole, queStack, queTarget, queMarked, queVerdict>>

QueNext == QueStart \/ QueRead \/ QueSolve \/ QueMark \/ QueCheck \/ QueFail

QueSpec == QueInit /\ [][QueNext]_queVars

(***************************************************************************)
(* Backtracking misses nothing: when the whole board has arrived, the      *)
(* verdict is right exactly when the server's queens have a completion.    *)
(***************************************************************************)
QueVerdictRight ==
    quePc = "end" /\ queWhole =>
        (queVerdict = "right" <=> QueSolutions(queGiven) # {})

(***************************************************************************)
(* Whatever part of the board arrived, every pending call of solve() holds *)
(* a peaceful board that extends the one below it, so the queens marked    *)
(* never attack each other.                                                *)
(***************************************************************************)
QueCallsSound ==
    /\ \A i \in 1 .. Len(queStack) :
          LET b == queStack[i].board
          IN  /\ QuePeaceful({<<b[c], c>> : c \in QueLines \ QueEmpty(b)})
              /\ i > 1 => \A c \in QueLines :
                              queStack[i-1].board[c] \in {0, b[c]}
    /\ QuePeaceful(queMarked)

-----------------------------------------------------------------------------
(* The class NQueens (minconflict.cpp): a board, and the vector of the     *)
(* positions of its queens, kept side by side.  The class has no main();   *)
(* its user picks queens and moves them, as min-conflicts does.            *)

CONSTANT McfN       \* n

ASSUME McfNAssumption == McfN \in Nat

VARIABLES
    mcfBoard,       \* board: the cells that hold a 1
    mcfQueens,      \* queenPositions
    mcfUp           \* the constructor has run

mcfVars == <<mcfBoard, mcfQueens, mcfUp>>

McfLines == 1 .. McfN

McfInit == mcfBoard = {} /\ mcfQueens = <<>> /\ mcfUp = FALSE

\* getNewBoard: one queen in a random column of each row.
McfGetNewBoard ==
    /\ ~mcfUp /\ mcfUp' = TRUE
    /\ \E f \in [McfLines -> McfLines] :
          /\ mcfBoard' = {<<x, f[x]>> : x \in McfLines}
          /\ mcfQueens' = [x \in McfLines |-> <<x, f[x]>>]

McfAbs(i) == IF i < 0 THEN -i ELSE i
McfDiagonal(p, q) == McfAbs(q[1] - p[1]) = McfAbs(q[2] - p[2]) /\ q # p
McfRow(p, q) == p[1] = q[1] /\ q # p
McfCol(p, q) == p[2] = q[2] /\ q # p

\* attackViaDiagonal, attackViaRow, attackViaCol
McfUnderAttack(p) ==
    \/ \E i \in DOMAIN mcfQueens : McfDiagonal(p, mcfQueens[i])
    \/ \E i \in DOMAIN mcfQueens : McfRow(p, mcfQueens[i])
    \/ \E i \in DOMAIN mcfQueens : McfCol(p, mcfQueens[i])

McfAllQueensSafe == \A i \in DOMAIN mcfQueens : ~McfUnderAttack(mcfQueens[i])

McfSpecificQueenConflicts(p) ==
    LET count(Test(_, _)) ==
            Cardinality({i \in DOMAIN mcfQueens : Test(p, mcfQueens[i])})
    IN  count(McfDiagonal) + count(McfRow) + count(McfCol)

\* erase(remove(...)) and push_back
McfMoved(q, p, e) ==
    Append(FlattenSeq([i \in DOMAIN q |-> IF q[i] = p THEN <<>> ELSE <<q[i]>>]), e)

\* pickRandomQueen, then moveQueen to one of its availablePositions.
McfMoveQueen ==
    /\ mcfUp
    /\ \E i \in DOMAIN mcfQueens, x \in McfLines :
          LET p == mcfQueens[i]
              e == <<p[1], x>>
          IN  /\ p \in mcfBoard                     \* assert
              /\ mcfBoard' = (mcfBoard \ {p}) \cup {e}
              /\ mcfQueens' = McfMoved(mcfQueens, p, e)
    /\ UNCHANGED mcfUp

McfNext == McfGetNewBoard \/ McfMoveQueen

McfSpec == McfInit /\ [][McfNext]_mcfVars

(***************************************************************************)
(* However queens are moved, the board and queenPositions keep describing  *)
(* the same queens, one in each row, so the assertion of moveQueen holds.  *)
(***************************************************************************)
McfAgree ==
    mcfUp => /\ {mcfQueens[i] : i \in DOMAIN mcfQueens} = mcfBoard
             /\ Len(mcfQueens) = McfN
             /\ \A r \in McfLines : \E i \in DOMAIN mcfQueens : mcfQueens[i][1] = r

(***************************************************************************)
(* The two measures of progress agree: all queens are safe exactly when no *)
(* queen has a conflict.                                                   *)
(***************************************************************************)
McfMeasuresAgree ==
    McfAllQueensSafe <=>
        \A i \in DOMAIN mcfQueens : McfSpecificQueenConflicts(mcfQueens[i]) = 0

-----------------------------------------------------------------------------

QueensSpec == QueSpec /\ McfSpec

\* Both queens programs of np-lab7: the backtracking search misses nothing
\* and marks no attacking queens; the class of min-conflicts keeps its two
\* pictures of the board in step.
QueensRight ==
    /\ QueVerdictRight
    /\ QueCallsSound
    /\ McfAgree
    /\ McfMeasuresAgree
=============================================================================
