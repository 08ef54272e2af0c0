----------------------------- MODULE EnumerableMap ----------------------------
(***************************************************************************)
(* The library that scripts/generate/templates/EnumerableMap.js generates, *)
(* driven by the contract that EnumerableMapMock.js generates: a set of    *)
(* keys (EnumerableSet) and a mapping from every word to a word.           *)
(***************************************************************************)
EXTENDS Naturals, Sequences

CONSTANTS MaxWord, MaxAddress

VARIABLES
    map,        \* which wrapper the contract uses: its key and value types
    keys,       \* Bytes32ToBytes32Map._keys
    words,      \* Bytes32ToBytes32Map._values
    result      \* of the last OperationResult event

vars == <<map, keys, words, result>>

\* map._keys, an EnumerableSet.Bytes32Set.
Keys == INSTANCE EnumerableSet WITH
    type <- "bytes32", set <- keys, result <- result

Word == 0 .. MaxWord

TYPES == {<<"uint256", "uint256">>, <<"uint256", "address">>,
          <<"address", "uint256">>, <<"bytes32", "uint256">>,
          <<"bytes32", "bytes32">>}

keyType == map[1]
valueType == map[2]

-------------------------------------------------------------------------------
(* The functions on words.                                                 *)

containsKey(key) == Keys!contains(key)

\* tryGet takes a word other than 0 as proof that the key is in the map.
tryGetWord(key) ==
    IF words[key] = 0 THEN <<containsKey(key), 0>> ELSE <<TRUE, words[key]>>

\* get reverts instead of answering FALSE, with either message.
getReverts(key) == words[key] = 0 /\ ~ containsKey(key)

\* Wrong form: an update is reported as a key added.
setWordAlwaysTrue(key, value) ==
    /\ words' = [words EXCEPT ![key] = value]
    /\ IF containsKey(key) THEN result' = TRUE /\ UNCHANGED keys ELSE Keys!add(key)

setWord(key, value) ==
    /\ words' = [words EXCEPT ![key] = value]
    /\ Keys!add(key)

\* Wrong form: the value of a removed key stays.
removeKeyOnly(key) ==
    /\ Keys!remove(key)
    /\ UNCHANGED words

removeWord(key) ==
    /\ words' = [words EXCEPT ![key] = 0]
    /\ Keys!remove(key)

-------------------------------------------------------------------------------
(* The wrapper's functions, and the transactions of the mock contract.     *)

key32(key) == Keys!toBytes32(keyType, key)

contains(key) == containsKey(key32(key))
length == Keys!length

at(index) ==
    LET key == Keys!at(index)
    IN  <<Keys!fromBytes32(keyType, key),
          Keys!fromBytes32(valueType, words[key])>>

tryGet(key) ==
    LET found == tryGetWord(key32(key))
    IN  <<found[1], Keys!fromBytes32(valueType, found[2])>>

get(key) == Keys!fromBytes32(valueType, words[key32(key)])

Init ==
    /\ map \in TYPES
    /\ keys = Keys!EmptySet
    /\ words = [w \in Word |-> 0]
    /\ result = FALSE

set(key, value) ==
    /\ setWord(key32(key), Keys!toBytes32(valueType, value))
    /\ UNCHANGED map

remove(key) ==
    /\ removeWord(key32(key))
    /\ UNCHANGED map

Next ==
    \E key \in Keys!ValueOf(keyType) :
       \/ remove(key)
       \/ \E value \in Keys!ValueOf(valueType) : set(key, value)

Spec == Init /\ [][Next]_vars

-------------------------------------------------------------------------------

\* The partial function that an enumeration with at shows.
Entries ==
    LET indexOf(key) == CHOOSE index \in 0 .. length - 1 : at(index)[1] = key
    IN  [key \in {at(index)[1] : index \in 0 .. length - 1} |->
            at(indexOf(key))[2]]

\* The three ways to look up a key agree with the enumeration, for values of
\* 0, for keys that were removed, and for every pair of types.
LookupsAgree ==
    \A key \in Keys!ValueOf(keyType) :
       IF key \in DOMAIN Entries
       THEN /\ contains(key)
            /\ tryGet(key) = <<TRUE, Entries[key]>>
            /\ ~ getReverts(key32(key))
            /\ get(key) = Entries[key]
       ELSE /\ ~ contains(key)
            /\ tryGet(key) = <<FALSE, 0>>
            /\ getReverts(key32(key))

Abstract == INSTANCE AbstractMap WITH
    Key <- Word, Value <- Word, entries <- Entries, result <- result

\* "Adds a key-value pair to a map, or updates the value for an existing key.
\* Returns true if the key was added to the map": the two fields together are
\* a partial function.
ImplementsMap == Abstract!Spec
===============================================================================
