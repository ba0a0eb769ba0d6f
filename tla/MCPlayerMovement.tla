--------------------------- MODULE MCPlayerMovement ---------------------------
EXTENDS PlayerMovement, TLC

\* The sprites, a tenth of their size: waiting, up, running, down, and in
\* the two diagonals, with the middles in the same order as the real ones.
MCHeight == 0 :> 7 @@ 1 :> 9 @@ 3 :> 3 @@ Air :> 4 @@ [c \in 2..8 |-> 7]
MCWidth == 0 :> 6 @@ 1 :> 2 @@ 3 :> 8 @@ Air :> 4 @@ [c \in 2..8 |-> 5]

P(a, b, line) == [x1 |-> a, x2 |-> b, y |-> line]

\* A platform with an edge, a step above it, and one behind the gap in the
\* first one's line, so that nothing shows below the two.
MCLevels == {{P(0, 6, 11), P(8, 10, 7), P(11, 13, 11)}}
=============================================================================
