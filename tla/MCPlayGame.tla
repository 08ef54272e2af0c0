------------------------------ MODULE MCPlayGame ------------------------------
(* Constants under which TLC checks PlayGame.                              *)
EXTENDS PlayGame, TLC

\* "row" and "column" complete a line with the numbers 1 to 4, so that one
\* draw may complete both.  "late" could complete a diagonal with 1 to 3, but
\* its tile 24 bears the 1 of tile 0, and in "blocked" every line has a tile
\* like that.  Number 200 is never drawn.
MCCardWords == {"empty", "row", "column", "late", "blocked"}
MCCardNumbers ==
    "empty" :> [t \in Tiles |-> 0]
    @@ "row" :> [t \in Tiles |-> CASE t = 10 -> 1 [] t = 11 -> 2
                                   [] t = 13 -> 3 [] t = 14 -> 4
                                   [] OTHER -> 200]
    @@ "column" :> [t \in Tiles |-> CASE t \in {2, 20} -> 1 [] t \in {7, 23} -> 2
                                      [] t = 17 -> 3 [] t = 22 -> 4
                                      [] OTHER -> 200]
    @@ "late" :> [t \in Tiles |-> CASE t \in {0, 24} -> 1 [] t = 6 -> 2
                                    [] t = 18 -> 3 [] t = 8 -> 4
                                    [] OTHER -> 200]
    @@ "blocked" :> [t \in Tiles |-> CASE t = 1 -> 2 [] OTHER -> 1]
MCCards == {"row", "column", "late", "blocked"}
MCNumbers == {1, 2, 3, 4, 255}
===============================================================================
