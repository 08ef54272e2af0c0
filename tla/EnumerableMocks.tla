---------------------------- MODULE EnumerableMocks ---------------------------
(***************************************************************************)
(* The two generated mock contracts side by side, for TLC: one that wraps  *)
(* a set and one that wraps a map.  They share no state, so a behaviour    *)
(* calls one of them only.                                                 *)
(***************************************************************************)
EXTENDS EnumerableSet

CONSTANTS MaxMapWord, MaxMapAddress     \* the words of the map

ASSUME MapWordAssumption ==
    /\ MaxMapWord \in Nat
    /\ MaxMapAddress \in 0 .. MaxMapWord

VARIABLES
    called,                         \* the contract that is called
    map, keys, words, mapResult     \* of the contract with the map

Map == INSTANCE EnumerableMap WITH
    MaxWord <- MaxMapWord, MaxAddress <- MaxMapAddress, result <- mapResult

mocksVars == <<vars, called, Map!vars>>

MocksInit ==
    /\ called \in {"set", "map"}
    /\ Init
    /\ Map!Init

callSet ==
    /\ called = "set"
    /\ Next
    /\ UNCHANGED <<called, map, keys, words, mapResult>>

callMap ==
    /\ called = "map"
    /\ Map!Next
    /\ UNCHANGED <<called, type, set, result>>

MocksSpec == MocksInit /\ [][callSet \/ callMap]_mocksVars

-------------------------------------------------------------------------------

\* contains, tryGet and get agree with the enumeration by at, for every pair
\* of key and value types.
LookupsAgree == Map!LookupsAgree

\* The set of keys and the mapping of words are together a partial function,
\* and set and remove answer whether its domain changed.
ImplementsMap == Map!ImplementsMap
===============================================================================
