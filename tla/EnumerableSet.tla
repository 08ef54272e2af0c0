----------------------------- MODULE EnumerableSet ----------------------------
(***************************************************************************)
(* The library that scripts/generate/templates/EnumerableSet.js of         *)
(* openzeppelin-contracts generates, driven by the contract that           *)
(* EnumerableSetMock.js generates: one set of one of the three types.      *)
(*                                                                         *)
(* A set keeps its words in an array, and for every word its position in   *)
(* the array plus 1, or 0.                                                 *)
(***************************************************************************)
EXTENDS Naturals, Sequences

CONSTANTS
    MaxWord,        \* the largest bytes32
    MaxAddress      \* type(uint160).max

ASSUME WordAssumption ==
    /\ MaxWord \in Nat
    /\ MaxAddress \in 0 .. MaxWord

Word == 0 .. MaxWord

TYPES == {"bytes32", "address", "uint256"}

ValueOf(type) == IF type = "address" THEN 0 .. MaxAddress ELSE Word

\* Wrong form: the address is aligned to the left of the word.
toBytes32Left(type, value) ==
    IF type = "address"
    THEN value * ((MaxWord + 1) \div (MaxAddress + 1)) ELSE value

\* bytes32(uint256(uint160(value))) widens, address(uint160(uint256(value)))
\* cuts to the low bits; bytes32 and uint256 have the same values.
toBytes32(type, value) ==
    IF type = "address" THEN value % (MaxAddress + 1) ELSE value
fromBytes32(type, word) ==
    IF type = "address" THEN word % (MaxAddress + 1) ELSE word

VARIABLES
    type,       \* which of the wrappers the contract uses
    set,        \* the Set that it wraps
    result      \* of the last OperationResult event

vars == <<type, set, result>>

EmptySet == [values |-> <<>>, indexes |-> [w \in Word |-> 0]]

-------------------------------------------------------------------------------
(* The private functions of the generic Set.                               *)

containsWord(s, word) == s.indexes[word] # 0

addWord(s, word) ==
    IF containsWord(s, word) THEN s
    ELSE [values |-> Append(s.values, word),
          indexes |-> [s.indexes EXCEPT ![word] = Len(s.values) + 1]]

\* Wrong form: the moved word keeps its old index.
removeWordOnly(s, word) ==
    LET valueIndex == s.indexes[word]
        lastIndex == Len(s.values)
    IN  IF valueIndex = 0 THEN s
        ELSE [values |-> SubSeq([s.values EXCEPT
                                   ![valueIndex] = s.values[lastIndex]],
                                1, lastIndex - 1),
              indexes |-> [s.indexes EXCEPT ![word] = 0]]

\* Swap and pop: the last word takes the place of the one to delete.
removeWord(s, word) ==
    LET valueIndex == s.indexes[word]
        lastIndex == Len(s.values)
        lastValue == s.values[lastIndex]
        moved == IF lastIndex = valueIndex THEN s
                 ELSE [values |-> [s.values EXCEPT ![valueIndex] = lastValue],
                       indexes |-> [s.indexes EXCEPT ![lastValue] = valueIndex]]
    IN  IF valueIndex = 0 THEN s
        ELSE [values |-> SubSeq(moved.values, 1, lastIndex - 1),
              indexes |-> [moved.indexes EXCEPT ![word] = 0]]

-------------------------------------------------------------------------------
(* The wrapper's functions, and the transactions of the mock contract.     *)

contains(value) == containsWord(set, toBytes32(type, value))
length == Len(set.values)
at(index) == fromBytes32(type, set.values[index + 1])
values == [index \in 1 .. length |-> at(index - 1)]

Init ==
    /\ type \in TYPES
    /\ set = EmptySet
    /\ result = FALSE

add(value) ==
    LET word == toBytes32(type, value)
    IN  /\ set' = addWord(set, word)
        /\ result' = ~ containsWord(set, word)
        /\ UNCHANGED type

remove(value) ==
    LET word == toBytes32(type, value)
    IN  /\ set' = removeWord(set, word)
        /\ result' = (set.indexes[word] # 0)
        /\ UNCHANGED type

Next == \E value \in ValueOf(type) : add(value) \/ remove(value)

Spec == Init /\ [][Next]_vars

-------------------------------------------------------------------------------

\* Type invariant.
TypeOK ==
    /\ type \in TYPES
    /\ set.values \in Seq(ValueOf(type))
    /\ set = [values |-> set.values, indexes |-> set.indexes]
    /\ set.indexes \in [Word -> Nat]
    /\ result \in BOOLEAN

\* The two storage fields are inverse to each other: the array holds no word
\* twice, and a word has an index exactly while it is in the array, whatever
\* was swapped and popped before.
IndexesInvertValues ==
    /\ \A i \in 1 .. Len(set.values) : set.indexes[set.values[i]] = i
    /\ \A w \in Word : set.indexes[w] # 0 =>
          /\ set.indexes[w] \in 1 .. Len(set.values)
          /\ set.values[set.indexes[w]] = w

\* What contains, length, at and values show is one and the same set, in the
\* wrapper's own type.
ViewsAgree ==
    /\ \A v \in ValueOf(type) :
          contains(v) <=> \E index \in 0 .. length - 1 : at(index) = v
    /\ \A j, k \in 1 .. length : values[j] = values[k] => j = k

Members == {fromBytes32(type, set.values[i]) : i \in 1 .. Len(set.values)}

Abstract == INSTANCE AbstractSet WITH
    Value <- Word, members <- Members, result <- result

\* "Returns true if the value was added to the set, that is if it was not
\* already present", and likewise for remove: the swapping array is a set.
ImplementsSet == Abstract!Spec
===============================================================================
