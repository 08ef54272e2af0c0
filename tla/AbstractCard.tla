----------------------------- MODULE AbstractCard -----------------------------
(***************************************************************************)
(* What a card is to the game: a number on each tile and a set of tiles    *)
(* that are hit.  It is dealt tile by tile, then a number is marked on the *)
(* first tile that bears it.  GameMechanics reads storage in this way.     *)
(***************************************************************************)
EXTENDS Integers

CONSTANTS
    Tiles,          \* from 0 on
    FreeTile,
    Dealt, Drawn    \* the numbers that are dealt, and those that are drawn

VARIABLES
    next,           \* the next tile to deal
    numbers,
    hits

card == <<next, numbers, hits>>

Init ==
    /\ next = 0
    /\ numbers = [t \in Tiles |-> 0]
    /\ hits = {FreeTile}

Deal(number) ==
    /\ next \in Tiles
    /\ numbers' = [numbers EXCEPT ![next] = number]
    /\ next' = next + 1
    /\ UNCHANGED hits

Mark(number) ==
    /\ next \notin Tiles
    /\ \E t \in Tiles :
          /\ numbers[t] = number
          /\ \A u \in Tiles : u < t => numbers[u] # number
          /\ hits' = hits \cup {t}
    /\ UNCHANGED <<next, numbers>>

Next ==
    \/ \E number \in Dealt : Deal(number)
    \/ \E number \in Drawn : Mark(number)

Spec == Init /\ [][Next]_card
===============================================================================
