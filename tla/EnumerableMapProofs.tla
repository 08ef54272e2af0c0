-------------------------- MODULE EnumerableMapProofs -------------------------
(***************************************************************************)
(* The enumerable map is a map, for words of any width.  It is a set of    *)
(* keys and an array of words, and what is known of the set (proved in     *)
(* EnumerableSetProofs) is used here for its keys: the set of a map holds  *)
(* bytes32 words, whatever the type of the keys.                           *)
(***************************************************************************)
EXTENDS EnumerableMocks, TLAPS

KeySet == INSTANCE EnumerableSetProofs WITH
    MaxWord <- MaxMapWord, MaxAddress <- MaxMapAddress,
    type <- "bytes32", set <- keys, result <- mapResult

ValueOfType(t) == KeySet!ValueOf(t)
KeyType == map[1]
ValueType == map[2]

\* The keys in the map.
Present == KeySet!Members

\* A key that is absent has the word 0, which is how the library tells: the
\* two fields together are one partial function.
MapIInv ==
    /\ map \in Map!TYPES
    /\ KeySet!IInv
    /\ Present \subseteq ValueOfType(KeyType)
    /\ words \in [Map!Word -> ValueOfType(ValueType)]
    /\ \A w \in Map!Word : words[w] # 0 => w \in Present

LEMMA SameWords ==
    /\ KeySet!WordAssumption
    /\ Map!Word = KeySet!Word
    /\ Map!Word = ValueOfType("bytes32")
    /\ \A t : Map!Keys!ValueOf(t) = ValueOfType(t)
    /\ \A t : ValueOfType(t) \subseteq Map!Word /\ 0 \in ValueOfType(t)
    /\ \A t, v : Map!Keys!toBytes32(t, v) = KeySet!toBytes32(t, v)
    /\ \A t, v : Map!Keys!fromBytes32(t, v) = KeySet!fromBytes32(t, v)
    /\ \A w : Map!containsKey(w) <=> KeySet!containsWord(keys, w)
<1>1. MaxMapWord \in Nat /\ MaxMapAddress \in 0 .. MaxMapWord
  BY MapWordAssumption
<1>2. \A t : ValueOfType(t) = IF t = "address" THEN 0 .. MaxMapAddress
                              ELSE 0 .. MaxMapWord
  BY DEF ValueOfType, KeySet!ValueOf, KeySet!Word
<1>3. \A t : ValueOfType(t) \subseteq Map!Word /\ 0 \in ValueOfType(t)
  BY <1>1, <1>2 DEF Map!Word
<1>4. Map!Word = KeySet!Word /\ Map!Word = ValueOfType("bytes32")
  BY <1>2 DEF Map!Word, KeySet!Word
<1>5. \A t : Map!Keys!ValueOf(t) = ValueOfType(t)
  BY <1>2 DEF Map!Keys!ValueOf, Map!Keys!Word
<1>6. /\ \A t, v : Map!Keys!toBytes32(t, v) = KeySet!toBytes32(t, v)
      /\ \A t, v : Map!Keys!fromBytes32(t, v) = KeySet!fromBytes32(t, v)
  BY DEF Map!Keys!toBytes32, KeySet!toBytes32, Map!Keys!fromBytes32,
         KeySet!fromBytes32
<1>7. \A w : Map!containsKey(w) <=> KeySet!containsWord(keys, w)
  BY DEF Map!containsKey, Map!Keys!contains, Map!Keys!containsWord,
         KeySet!containsWord, Map!Keys!toBytes32
<1> QED
  BY <1>1, <1>3, <1>4, <1>5, <1>6, <1>7

\* The words of the map's values and keys stand for themselves.
LEMMA WordsAreValues ==
    ASSUME MapIInv
    PROVE  /\ \A v \in ValueOfType(KeyType) :
                 /\ KeySet!toBytes32(KeyType, v) = v
                 /\ KeySet!fromBytes32(KeyType, v) = v
                 /\ v \in Map!Word
           /\ \A v \in ValueOfType(ValueType) :
                 /\ KeySet!toBytes32(ValueType, v) = v
                 /\ KeySet!fromBytes32(ValueType, v) = v
<1>1. KeyType \in KeySet!TYPES /\ ValueType \in KeySet!TYPES
  BY DEF MapIInv, Map!TYPES, KeySet!TYPES, KeyType, ValueType
<1>2. ASSUME NEW t \in KeySet!TYPES, NEW v \in ValueOfType(t)
      PROVE  /\ KeySet!toBytes32(t, v) = v
             /\ KeySet!fromBytes32(t, v) = v
             /\ v \in Map!Word
  BY SameWords, KeySet!Conversions DEF ValueOfType
<1> QED
  BY <1>1, <1>2

LEMMA PresentIs ==
    ASSUME MapIInv
    PROVE  /\ Present = {keys.values[i] : i \in 1 .. Len(keys.values)}
           /\ \A w \in Map!Word : w \in Present <=> Map!containsKey(w)
           /\ \A i, j \in 1 .. Len(keys.values) :
                 keys.values[i] = keys.values[j] => i = j
           /\ Len(keys.values) \in Nat
<1>1. KeySet!IInv
  BY DEF MapIInv
<1>2. /\ Present = {keys.values[i] : i \in 1 .. Len(keys.values)}
      /\ \A w \in KeySet!Word : w \in Present <=> KeySet!containsWord(keys, w)
  BY <1>1, SameWords, KeySet!MembersAre DEF Present
<1>3. \A i \in 1 .. Len(keys.values) : keys.indexes[keys.values[i]] = i
  BY <1>1, SameWords, KeySet!Stored
<1>4. Len(keys.values) \in Nat
  BY <1>1 DEF KeySet!IInv, KeySet!TypeOK
<1> QED
  BY <1>2, <1>3, <1>4, SameWords

\* What the enumeration shows is the partial function of the two fields.
EntriesAre == Map!Entries = [w \in Present |-> words[w]]

LEMMA Enumeration ==
    ASSUME MapIInv
    PROVE  EntriesAre
<1> DEFINE n == Len(keys.values)
           Indexes == 0 .. Map!length - 1
<1>1. /\ n \in Nat /\ Map!length = n
      /\ Present = {keys.values[i] : i \in 1 .. n}
      /\ \A i, j \in 1 .. n : keys.values[i] = keys.values[j] => i = j
  BY PresentIs DEF Map!length, Map!Keys!length
<1>2. \A index \in Indexes : index + 1 \in 1 .. n
  BY <1>1
<1>3. ASSUME NEW index \in Indexes
      PROVE  /\ Map!at(index)[1] = keys.values[index + 1]
             /\ Map!at(index)[2] = words[keys.values[index + 1]]
  <2> DEFINE k == keys.values[index + 1]
  <2>1. k \in Present
    BY <1>1, <1>2
  <2>2. /\ k \in ValueOfType(KeyType) /\ k \in Map!Word
        /\ words[k] \in ValueOfType(ValueType)
    BY <2>1, SameWords DEF MapIInv
  <2>3. Map!Keys!at(index) = k
    BY DEF Map!Keys!at, Map!Keys!fromBytes32
  <2>4. /\ KeySet!fromBytes32(KeyType, k) = k
        /\ KeySet!fromBytes32(ValueType, words[k]) = words[k]
    BY <2>2, WordsAreValues
  <2> HIDE DEF k
  <2>5. Map!at(index) = <<k, words[k]>>
    BY <2>3, <2>4, SameWords
       DEF Map!at, Map!keyType, Map!valueType, KeyType, ValueType
  <2> QED
    BY <2>5 DEF k
<1>4. {Map!at(index)[1] : index \in Indexes} = Present
  <2>1. ASSUME NEW w \in Present
        PROVE  \E index \in Indexes : Map!at(index)[1] = w
    <3>1. PICK i \in 1 .. n : keys.values[i] = w
      BY <1>1
    <3>2. i - 1 \in Indexes /\ (i - 1) + 1 = i
      BY <1>1
    <3> HIDE DEF Indexes
    <3> QED
      BY <1>3, <3>1, <3>2
  <2>2. ASSUME NEW index \in Indexes
        PROVE  Map!at(index)[1] \in Present
    BY <1>1, <1>2, <1>3
  <2> HIDE DEF Indexes
  <2> QED
    BY <2>1, <2>2
<1>5. ASSUME NEW w \in Present
      PROVE  Map!at(CHOOSE index \in Indexes : Map!at(index)[1] = w)[2]
                = words[w]
  <2> DEFINE chosen == CHOOSE index \in Indexes : Map!at(index)[1] = w
  <2>1. chosen \in Indexes /\ Map!at(chosen)[1] = w
    <3> HIDE DEF Indexes
    <3> QED
      BY <1>4
  <2> HIDE DEF chosen, Indexes
  <2>2. keys.values[chosen + 1] = w
    BY <1>3, <2>1
  <2>3. Map!at(chosen)[2] = words[w]
    BY <1>3, <2>1, <2>2
  <2> QED
    BY <2>3 DEF chosen
<1> HIDE DEF Indexes
<1>6. Map!Entries = [w \in {Map!at(index)[1] : index \in Indexes} |->
                       Map!at(CHOOSE index \in Indexes :
                                 Map!at(index)[1] = w)[2]]
  BY DEF Map!Entries, Indexes
<1> QED
  BY <1>4, <1>5, <1>6 DEF EntriesAre

LEMMA Lookups ==
    ASSUME MapIInv
    PROVE  Map!LookupsAgree
<1>1. DOMAIN Map!Entries = Present
      /\ \A w \in Present : Map!Entries[w] = words[w]
  BY Enumeration DEF EntriesAre
<1> SUFFICES ASSUME NEW key \in ValueOfType(KeyType)
             PROVE  IF key \in Present
                    THEN /\ Map!contains(key)
                         /\ Map!tryGet(key) = <<TRUE, words[key]>>
                         /\ ~ Map!getReverts(Map!key32(key))
                         /\ Map!get(key) = words[key]
                    ELSE /\ ~ Map!contains(key)
                         /\ Map!tryGet(key) = <<FALSE, 0>>
                         /\ Map!getReverts(Map!key32(key))
  BY <1>1, SameWords DEF Map!LookupsAgree, Map!keyType, KeyType
<1>2. Map!key32(key) = key /\ key \in Map!Word
  BY WordsAreValues, SameWords DEF Map!key32, Map!keyType, KeyType
<1>3. /\ words[key] \in ValueOfType(ValueType)
      /\ KeySet!fromBytes32(ValueType, words[key]) = words[key]
      /\ KeySet!fromBytes32(ValueType, 0) = 0
  BY <1>2, WordsAreValues, SameWords DEF MapIInv
<1>4. key \in Present <=> Map!containsKey(key)
  BY <1>2, PresentIs
<1>5. words[key] # 0 => key \in Present
  BY <1>2 DEF MapIInv
<1>6. Map!get(key) = words[key]
  BY <1>2, <1>3, SameWords DEF Map!get, Map!valueType, ValueType
<1>7. Map!tryGet(key) = IF words[key] = 0 THEN <<Map!containsKey(key), 0>>
                        ELSE <<TRUE, words[key]>>
  BY <1>2, <1>3, SameWords
     DEF Map!tryGet, Map!tryGetWord, Map!valueType, ValueType
<1>8. Map!contains(key) <=> Map!containsKey(key)
  BY <1>2 DEF Map!contains
<1>9. Map!getReverts(Map!key32(key))
         <=> (words[key] = 0 /\ ~ Map!containsKey(key))
  BY <1>2 DEF Map!getReverts
<1>10. CASE key \in Present
  <2>1. Map!tryGet(key) = <<TRUE, words[key]>>
    BY <1>4, <1>7, <1>10 DEF Map!containsKey, Map!Keys!contains,
                             Map!Keys!containsWord
  <2> QED
    BY <1>4, <1>6, <1>8, <1>9, <1>10, <2>1
<1>11. CASE key \notin Present
  <2>1. Map!tryGet(key) = <<FALSE, 0>>
    BY <1>4, <1>5, <1>7, <1>11 DEF Map!containsKey, Map!Keys!contains,
                                   Map!Keys!containsWord
  <2> QED
    BY <1>4, <1>5, <1>8, <1>9, <1>11, <2>1
<1> QED
  BY <1>10, <1>11

LEMMA InitMapIInv ==
    Map!Init => MapIInv
<1> SUFFICES ASSUME Map!Init PROVE MapIInv
  OBVIOUS
<1>1. /\ map \in Map!TYPES /\ keys = Map!Keys!EmptySet
      /\ words = [w \in Map!Word |-> 0] /\ mapResult = FALSE
  BY DEF Map!Init
<1>2. KeySet!Init
  BY <1>1 DEF KeySet!Init, KeySet!TYPES, KeySet!EmptySet, Map!Keys!EmptySet,
              KeySet!Word, Map!Keys!Word
<1>3. KeySet!IInv
  BY <1>2, KeySet!InitIInv, SameWords
<1>4. keys.values = <<>>
  BY <1>1 DEF Map!Keys!EmptySet
<1>5. Present = {}
  BY <1>4 DEF Present, KeySet!Members
<1> QED
  BY <1>1, <1>3, <1>5, SameWords DEF MapIInv

\* What a call does to the two fields, without the conversions.
LEMMA setEffect ==
    ASSUME MapIInv, NEW key \in ValueOfType(KeyType),
           NEW value \in ValueOfType(ValueType), Map!set(key, value)
    PROVE  /\ key \in Map!Word /\ map' = map
           /\ words' = [words EXCEPT ![key] = value]
           /\ KeySet!add(key) /\ KeySet!IInv'
           /\ Present' = Present \cup {key}
           /\ mapResult' = (key \notin Present)
<1>1. Map!key32(key) = key /\ key \in Map!Word
  BY WordsAreValues, SameWords DEF Map!key32, Map!keyType, KeyType
<1>2. Map!Keys!toBytes32(Map!valueType, value) = value
  BY WordsAreValues, SameWords DEF Map!valueType, ValueType
<1>3. /\ words' = [words EXCEPT ![key] = value]
      /\ Map!Keys!add(key) /\ map' = map
  BY <1>1, <1>2 DEF Map!set, Map!setWord
<1>4. KeySet!add(key)
  BY <1>3 DEF Map!Keys!add, Map!Keys!addWord, Map!Keys!containsWord,
              Map!Keys!toBytes32, KeySet!add, KeySet!addWord,
              KeySet!containsWord, KeySet!toBytes32
<1>5. KeySet!IInv /\ key \in KeySet!ValueOf("bytes32")
  BY <1>1, SameWords DEF MapIInv, ValueOfType
<1>6. KeySet!IInv'
  BY <1>4, <1>5, KeySet!addIInv, SameWords
<1>7. KeySet!Abstract!Add(key)
  BY <1>4, <1>5, <1>6, KeySet!addAbstract, SameWords
<1> QED
  BY <1>1, <1>3, <1>4, <1>6, <1>7 DEF KeySet!Abstract!Add, Present

LEMMA removeEffect ==
    ASSUME MapIInv, NEW key \in ValueOfType(KeyType), Map!remove(key)
    PROVE  /\ key \in Map!Word /\ map' = map
           /\ words' = [words EXCEPT ![key] = 0]
           /\ KeySet!remove(key) /\ KeySet!IInv'
           /\ Present' = Present \ {key}
           /\ mapResult' = (key \in Present)
<1>1. Map!key32(key) = key /\ key \in Map!Word
  BY WordsAreValues, SameWords DEF Map!key32, Map!keyType, KeyType
<1>2. /\ words' = [words EXCEPT ![key] = 0]
      /\ Map!Keys!remove(key) /\ map' = map
  BY <1>1 DEF Map!remove, Map!removeWord
<1>3. KeySet!remove(key)
  BY <1>2 DEF Map!Keys!remove, Map!Keys!removeWord, Map!Keys!toBytes32,
              KeySet!remove, KeySet!removeWord, KeySet!toBytes32
<1>4. KeySet!IInv /\ key \in KeySet!ValueOf("bytes32")
  BY <1>1, SameWords DEF MapIInv, ValueOfType
<1>5. KeySet!IInv'
  BY <1>3, <1>4, KeySet!removeIInv, SameWords
<1>6. KeySet!Abstract!Remove(key)
  BY <1>3, <1>4, <1>5, KeySet!removeAbstract, SameWords
<1> QED
  BY <1>1, <1>2, <1>3, <1>5, <1>6 DEF KeySet!Abstract!Remove, Present

LEMMA NextMapIInv ==
    ASSUME MapIInv, [Map!Next]_Map!vars
    PROVE  MapIInv'
<1>1. CASE UNCHANGED Map!vars
  <2>1. /\ map' = map /\ keys' = keys /\ words' = words
        /\ mapResult' = mapResult
    BY <1>1 DEF Map!vars
  <2>2. KeySet!IInv'
    BY <2>1 DEF MapIInv, KeySet!IInv, KeySet!TypeOK, KeySet!IndexesInvertValues
  <2>3. Present' = Present
    BY <2>1 DEF Present, KeySet!Members
  <2> QED
    BY <2>1, <2>2, <2>3 DEF MapIInv, KeyType, ValueType
<1>2. ASSUME NEW key \in ValueOfType(KeyType),
             NEW value \in ValueOfType(ValueType), Map!set(key, value)
      PROVE  MapIInv'
  <2>1. /\ key \in Map!Word /\ map' = map
        /\ words' = [words EXCEPT ![key] = value]
        /\ KeySet!IInv' /\ Present' = Present \cup {key}
    BY <1>2, setEffect
  <2>2. /\ words' \in [Map!Word -> ValueOfType(ValueType)]
        /\ \A w \in Map!Word : words'[w] # 0 => w \in Present'
    BY <2>1 DEF MapIInv
  <2> QED
    BY <2>1, <2>2 DEF MapIInv, KeyType, ValueType
<1>3. ASSUME NEW key \in ValueOfType(KeyType), Map!remove(key)
      PROVE  MapIInv'
  <2>1. /\ key \in Map!Word /\ map' = map
        /\ words' = [words EXCEPT ![key] = 0]
        /\ KeySet!IInv' /\ Present' = Present \ {key}
    BY <1>3, removeEffect
  <2>2. /\ words' \in [Map!Word -> ValueOfType(ValueType)]
        /\ \A w \in Map!Word : words'[w] # 0 => w \in Present'
    BY <2>1, SameWords DEF MapIInv
  <2> QED
    BY <2>1, <2>2 DEF MapIInv, KeyType, ValueType
<1>4. Map!Next =>
         \E key \in ValueOfType(KeyType) :
            \/ Map!remove(key)
            \/ \E value \in ValueOfType(ValueType) : Map!set(key, value)
  BY SameWords DEF Map!Next, Map!keyType, Map!valueType, KeyType, ValueType
<1> QED
  BY <1>1, <1>2, <1>3, <1>4

\* Every call of the library is a call of the abstract map.
LEMMA AbstractMapStep ==
    ASSUME MapIInv, EntriesAre, EntriesAre', [Map!Next]_Map!vars
    PROVE  [Map!Abstract!Next]_Map!Abstract!mapVars
<1>1. /\ Map!Entries = [w \in Present |-> words[w]]
      /\ Map!Entries' = [w \in Present' |-> words'[w]]
  BY DEF EntriesAre
<1>2. DOMAIN Map!Entries = Present
  BY <1>1
<1>3. Present \subseteq Map!Word /\ words \in [Map!Word -> ValueOfType(ValueType)]
  BY SameWords DEF MapIInv
<1>4. CASE UNCHANGED Map!vars
  <2>1. /\ map' = map /\ keys' = keys /\ words' = words
        /\ mapResult' = mapResult
    BY <1>4 DEF Map!vars
  <2>2. Present' = Present
    BY <2>1 DEF Present, KeySet!Members
  <2> QED
    BY <1>1, <2>1, <2>2 DEF Map!Abstract!mapVars
<1>5. ASSUME NEW key \in ValueOfType(KeyType),
             NEW value \in ValueOfType(ValueType), Map!set(key, value)
      PROVE  Map!Abstract!Next
  <2>1. /\ key \in Map!Word
        /\ words' = [words EXCEPT ![key] = value]
        /\ Present' = Present \cup {key}
        /\ mapResult' = (key \notin Present)
    BY <1>5, setEffect
  <2>2. Map!Entries' = [w \in DOMAIN Map!Entries \cup {key} |->
                          IF w = key THEN value ELSE Map!Entries[w]]
    BY <1>1, <1>2, <1>3, <2>1
  <2>3. Map!Abstract!Set(key, value)
    BY <1>2, <2>1, <2>2 DEF Map!Abstract!Set
  <2>4. value \in Map!Word
    BY SameWords
  <2> QED
    BY <2>1, <2>3, <2>4 DEF Map!Abstract!Next
<1>6. ASSUME NEW key \in ValueOfType(KeyType), Map!remove(key)
      PROVE  Map!Abstract!Next
  <2>1. /\ key \in Map!Word
        /\ words' = [words EXCEPT ![key] = 0]
        /\ Present' = Present \ {key}
        /\ mapResult' = (key \in Present)
    BY <1>6, removeEffect
  <2>2. Map!Entries' = [w \in DOMAIN Map!Entries \ {key} |-> Map!Entries[w]]
    BY <1>1, <1>2, <1>3, <2>1
  <2>3. Map!Abstract!Remove(key)
    BY <1>2, <2>1, <2>2 DEF Map!Abstract!Remove
  <2> QED
    BY <2>1, <2>3 DEF Map!Abstract!Next
<1>7. Map!Next =>
         \E key \in ValueOfType(KeyType) :
            \/ Map!remove(key)
            \/ \E value \in ValueOfType(ValueType) : Map!set(key, value)
  BY SameWords DEF Map!Next, Map!keyType, Map!valueType, KeyType, ValueType
<1> QED
  BY <1>4, <1>5, <1>6, <1>7

-------------------------------------------------------------------------------

\* A call of the mock with the set leaves the map alone.
LEMMA MocksInvariant ==
    MocksSpec => [](MapIInv /\ EntriesAre) /\ Map!Init /\ [][Map!Next]_Map!vars
<1>1. MocksInit => Map!Init
  BY DEF MocksInit
<1>2. [callSet \/ callMap]_mocksVars => [Map!Next]_Map!vars
  BY DEF callSet, callMap, mocksVars, Map!vars
<1>3. MapIInv => EntriesAre
  BY Enumeration
<1> QED
  BY <1>1, <1>2, <1>3, InitMapIInv, NextMapIInv, PTL DEF MocksSpec

\* contains, tryGet and get agree with the enumeration by at after any sequence
\* of calls, for values of 0 and for keys that were removed.
THEOREM LookupsAgreeWithAt ==
    MocksSpec => []LookupsAgree
<1>1. MapIInv => LookupsAgree
  BY Lookups DEF LookupsAgree
<1> QED
  BY <1>1, MocksInvariant, PTL

\* The library implements a map: set and remove change the entry of the one key
\* they name, and answer whether that changed the keys.
THEOREM MapImplemented ==
    MocksSpec => ImplementsMap
<1>1. Map!Init => Map!Abstract!Init
  <2> SUFFICES ASSUME Map!Init PROVE Map!Abstract!Init
    OBVIOUS
  <2>1. keys.values = <<>> /\ mapResult = FALSE
    BY DEF Map!Init, Map!Keys!EmptySet
  <2>2. Present = {}
    BY <2>1 DEF Present, KeySet!Members
  <2>3. Map!Entries = [w \in Present |-> words[w]]
    BY InitMapIInv, Enumeration DEF EntriesAre
  <2> QED
    BY <2>1, <2>2, <2>3 DEF Map!Abstract!Init
<1>2. MapIInv /\ EntriesAre /\ EntriesAre' /\ [Map!Next]_Map!vars
         => [Map!Abstract!Next]_Map!Abstract!mapVars
  BY AbstractMapStep
<1> QED
  BY <1>1, <1>2, MocksInvariant, PTL
     DEF ImplementsMap, Map!ImplementsMap, Map!Abstract!Spec
===============================================================================
