---------------------------- MODULE MazePrograms ----------------------------
(***************************************************************************)
(* The maze clients of np-lab3 side by side: those that know or put        *)
(* together the whole maze before they move (MazeMap), and the one that    *)
(* draws the map on its way (MazeWalk).                                    *)
(***************************************************************************)
EXTENDS MazeMap, MazeWalk

MazeSpec == MapSpec /\ WlkSpec

\* The maze clients of np-lab3 end at 'E', or it cannot be reached: the maze put
\* together from windows is the maze and the way through it is a shortest one; the
\* map drawn on the walk is the maze, and the walk comes back to the right branch.
MazesRight ==
    /\ MapRight
    /\ WlkRight
=============================================================================
