------------------------------ MODULE AbstractSet ------------------------------
(***************************************************************************)
(* What an enumerable set promises: a finite set, and an answer to each    *)
(* call that says whether it changed the set.                              *)
(***************************************************************************)
CONSTANT Value

VARIABLES members, result

setVars == <<members, result>>

Init == members = {} /\ result = FALSE

Add(v) ==
    /\ members' = members \cup {v}
    /\ result' = (v \notin members)

Remove(v) ==
    /\ members' = members \ {v}
    /\ result' = (v \in members)

Next == \E v \in Value : Add(v) \/ Remove(v)

Spec == Init /\ [][Next]_setVars
===============================================================================
