------------------------------ MODULE AbstractMap ------------------------------
(***************************************************************************)
(* What an enumerable map promises: a partial function, and an answer to   *)
(* each call that says whether it changed the function's domain.           *)
(***************************************************************************)
CONSTANTS Key, Value

VARIABLES entries, result

mapVars == <<entries, result>>

Init == entries = [k \in {} |-> k] /\ result = FALSE

Set(k, v) ==
    /\ entries' = [key \in DOMAIN entries \cup {k} |->
                      IF key = k THEN v ELSE entries[key]]
    /\ result' = (k \notin DOMAIN entries)

Remove(k) ==
    /\ entries' = [key \in DOMAIN entries \ {k} |-> entries[key]]
    /\ result' = (k \in DOMAIN entries)

Next == \E k \in Key : Remove(k) \/ \E v \in Value : Set(k, v)

Spec == Init /\ [][Next]_mapVars
===============================================================================
