-------------------------- MODULE EnumerableSetProofs -------------------------
(***************************************************************************)
(* The enumerable set is a set, for words of any width: the array and the  *)
(* index mapping stay inverse to each other under swap and pop.            *)
(***************************************************************************)
EXTENDS EnumerableSet, TLAPS

IInv == TypeOK /\ IndexesInvertValues

\* The conversions lose nothing of a value of the wrapper's type.
LEMMA Conversions ==
    ASSUME NEW t \in TYPES, NEW v \in ValueOf(t)
    PROVE  /\ toBytes32(t, v) = v
           /\ fromBytes32(t, v) = v
           /\ v \in Word
<1>1. MaxAddress \in Nat /\ MaxAddress <= MaxWord /\ MaxWord \in Nat
  BY WordAssumption
<1>2. CASE t = "address"
  <2>1. v \in 0 .. MaxAddress
    BY <1>2 DEF ValueOf
  <2>2. v % (MaxAddress + 1) = v
    BY <1>1, <2>1
  <2> QED
    BY <1>1, <1>2, <2>1, <2>2 DEF toBytes32, fromBytes32, Word
<1>3. CASE t # "address"
  BY <1>3 DEF toBytes32, fromBytes32, ValueOf
<1> QED
  BY <1>2, <1>3

\* The words of the set are values of the wrapper's type.
LEMMA Stored ==
    ASSUME IInv, NEW i \in 1 .. Len(set.values)
    PROVE  /\ set.values[i] \in ValueOf(type)
           /\ set.values[i] \in Word
           /\ fromBytes32(type, set.values[i]) = set.values[i]
           /\ set.indexes[set.values[i]] = i
<1>1. set.values[i] \in ValueOf(type) /\ type \in TYPES
  BY DEF IInv, TypeOK
<1> QED
  BY <1>1, Conversions DEF IInv, IndexesInvertValues

\* A word has an index exactly while it is in the array.
LEMMA Indexed ==
    ASSUME IInv, NEW w \in Word
    PROVE  containsWord(set, w) <=>
              \E i \in 1 .. Len(set.values) : set.values[i] = w
<1>1. ASSUME NEW i \in 1 .. Len(set.values), set.values[i] = w
      PROVE  set.indexes[w] # 0
  BY <1>1, Stored
<1> QED
  BY <1>1 DEF containsWord, IInv, IndexesInvertValues

LEMMA InitIInv ==
    Init => IInv
<1> SUFFICES ASSUME Init PROVE IInv
  OBVIOUS
<1>1. set.values = <<>> /\ set.indexes = [w \in Word |-> 0]
      /\ set = [values |-> set.values, indexes |-> set.indexes]
  BY DEF Init, EmptySet
<1>2. TypeOK
  <2>1. <<>> \in Seq(ValueOf(type)) /\ [w \in Word |-> 0] \in [Word -> Nat]
    OBVIOUS
  <2>2. type \in TYPES /\ result \in BOOLEAN
    BY DEF Init
  <2> QED
    BY <1>1, <2>1, <2>2 DEF TypeOK
<1>3. IndexesInvertValues
  BY <1>1 DEF IndexesInvertValues
<1> QED
  BY <1>2, <1>3 DEF IInv

-------------------------------------------------------------------------------

\* What add writes for a word that is not in the set.
LEMMA addEffect ==
    ASSUME IInv, NEW value \in ValueOf(type), add(value),
           ~ containsWord(set, value)
    PROVE  /\ set'.values = Append(set.values, value)
           /\ set'.indexes =
                 [set.indexes EXCEPT ![value] = Len(set.values) + 1]
           /\ set' = [values |-> set'.values, indexes |-> set'.indexes]
           /\ result' = TRUE /\ type' = type
<1>1. toBytes32(type, value) = value
  BY Conversions DEF IInv, TypeOK
<1> QED
  BY <1>1 DEF add, addWord

LEMMA addIInv ==
    ASSUME IInv, NEW value \in ValueOf(type), add(value)
    PROVE  IInv'
<1>1. /\ toBytes32(type, value) = value
      /\ value \in Word
  BY Conversions DEF IInv, TypeOK
<1>2. CASE containsWord(set, value)
  <2>1. set' = set /\ type' = type /\ result' \in BOOLEAN
    BY <1>1, <1>2 DEF add, addWord
  <2> QED
    BY <2>1 DEF IInv, TypeOK, IndexesInvertValues
<1>3. CASE ~ containsWord(set, value)
  <2> DEFINE n == Len(set.values)
  <2>1. /\ set'.values = Append(set.values, value)
        /\ set'.indexes = [set.indexes EXCEPT ![value] = n + 1]
        /\ set' = [values |-> set'.values, indexes |-> set'.indexes]
        /\ result' \in BOOLEAN /\ type' = type
    BY <1>3, addEffect
  <2>2. /\ set.values \in Seq(ValueOf(type)) /\ n \in Nat
        /\ set.indexes \in [Word -> Nat]
    BY DEF IInv, TypeOK
  <2>3. /\ set'.values \in Seq(ValueOf(type)) /\ Len(set'.values) = n + 1
        /\ \A i \in 1 .. n : set'.values[i] = set.values[i]
        /\ set'.values[n + 1] = value
    BY <2>1, <2>2
  <2>4. TypeOK'
    BY <2>1, <2>2, <2>3, <1>1 DEF IInv, TypeOK
  <2>5. ASSUME NEW i \in 1 .. n + 1
        PROVE  set'.indexes[set'.values[i]] = i
    <3>1. CASE i \in 1 .. n
      <4>1. set.values[i] # value
        BY <1>1, <1>3, <3>1, Indexed
      <4> QED
        BY <2>1, <2>2, <2>3, <3>1, <4>1, Stored
    <3>2. CASE i = n + 1
      BY <1>1, <2>1, <2>2, <2>3, <3>2
    <3> QED
      BY <2>2, <3>1, <3>2
  <2>6. ASSUME NEW w \in Word, set'.indexes[w] # 0
        PROVE  /\ set'.indexes[w] \in 1 .. n + 1
               /\ set'.values[set'.indexes[w]] = w
    BY <1>1, <2>1, <2>2, <2>3, <2>6 DEF IInv, IndexesInvertValues
  <2> QED
    BY <2>3, <2>4, <2>5, <2>6 DEF IInv, IndexesInvertValues
<1> QED
  BY <1>2, <1>3

-------------------------------------------------------------------------------

\* What remove leaves: at index i the word that was there, or the last word
\* where the removed one was.
LEMMA removeEffect ==
    ASSUME IInv, NEW value \in ValueOf(type), remove(value),
           containsWord(set, value)
    PROVE  LET n == Len(set.values)
               k == set.indexes[value]
           IN  /\ n \in Nat \ {0} /\ k \in 1 .. n
               /\ set.values[k] = value
               /\ set'.values \in Seq(ValueOf(type))
               /\ Len(set'.values) = n - 1
               /\ \A i \in 1 .. n - 1 : set'.values[i] =
                     IF i = k THEN set.values[n] ELSE set.values[i]
               /\ set'.indexes \in [Word -> Nat]
               /\ \A w \in Word : set'.indexes[w] =
                     IF w = value THEN 0
                     ELSE IF w = set.values[n] THEN k
                     ELSE set.indexes[w]
               /\ set' = [values |-> set'.values, indexes |-> set'.indexes]
               /\ result' = TRUE /\ type' = type
<1> DEFINE n == Len(set.values)
           k == set.indexes[value]
           last == set.values[n]
           moved == IF n = k THEN set
                    ELSE [values |-> [set.values EXCEPT ![k] = last],
                          indexes |-> [set.indexes EXCEPT ![last] = k]]
<1>1. /\ toBytes32(type, value) = value
      /\ value \in Word
  BY Conversions DEF IInv, TypeOK
<1>2. /\ set.values \in Seq(ValueOf(type)) /\ n \in Nat
      /\ set.indexes \in [Word -> Nat]
  BY DEF IInv, TypeOK
<1>3. k # 0 /\ k \in 1 .. n /\ set.values[k] = value
  BY <1>1 DEF containsWord, IInv, IndexesInvertValues
<1>4. n \in 1 .. n /\ n # 0
  BY <1>2, <1>3
<1>5. last \in Word /\ last \in ValueOf(type) /\ set.indexes[last] = n
  BY <1>4, Stored
<1>6. /\ set' = [values |-> SubSeq(moved.values, 1, n - 1),
                 indexes |-> [moved.indexes EXCEPT ![value] = 0]]
      /\ result' = TRUE /\ type' = type
  BY <1>1, <1>3 DEF remove, removeWord
<1>7. /\ moved.values \in Seq(ValueOf(type)) /\ Len(moved.values) = n
      /\ \A i \in 1 .. n : moved.values[i] =
            IF i = k THEN last ELSE set.values[i]
  BY <1>2, <1>3, <1>5
<1>8. /\ moved.indexes \in [Word -> Nat]
      /\ \A w \in Word : w # value =>
            moved.indexes[w] = IF w = last THEN k ELSE set.indexes[w]
  <2>1. CASE n = k
    BY <1>2, <1>3, <2>1
  <2>2. CASE n # k
    BY <1>2, <1>3, <1>5, <2>2
  <2> QED
    BY <2>1, <2>2
<1> HIDE DEF moved
<1>9. /\ set'.values \in Seq(ValueOf(type)) /\ Len(set'.values) = n - 1
      /\ \A i \in 1 .. n - 1 : set'.values[i] = moved.values[i]
  BY <1>2, <1>4, <1>6, <1>7
<1>10. /\ set'.indexes \in [Word -> Nat]
       /\ \A w \in Word : set'.indexes[w] =
             IF w = value THEN 0 ELSE moved.indexes[w]
  BY <1>1, <1>6, <1>8
<1> QED
  BY <1>2, <1>3, <1>4, <1>6, <1>7, <1>8, <1>9, <1>10

LEMMA removeIInv ==
    ASSUME IInv, NEW value \in ValueOf(type), remove(value)
    PROVE  IInv'
<1>1. /\ toBytes32(type, value) = value
      /\ value \in Word
  BY Conversions DEF IInv, TypeOK
<1>2. CASE ~ containsWord(set, value)
  <2>1. set' = set /\ type' = type /\ result' \in BOOLEAN
    BY <1>1, <1>2 DEF remove, removeWord, containsWord
  <2> QED
    BY <2>1 DEF IInv, TypeOK, IndexesInvertValues
<1>3. CASE containsWord(set, value)
  <2> DEFINE n == Len(set.values)
             k == set.indexes[value]
             last == set.values[n]
  <2>1. /\ n \in Nat \ {0} /\ k \in 1 .. n
        /\ set.values[k] = value
        /\ set'.values \in Seq(ValueOf(type))
        /\ Len(set'.values) = n - 1
        /\ \A i \in 1 .. n - 1 : set'.values[i] =
              IF i = k THEN last ELSE set.values[i]
        /\ set'.indexes \in [Word -> Nat]
        /\ \A w \in Word : set'.indexes[w] =
              IF w = value THEN 0
              ELSE IF w = last THEN k
              ELSE set.indexes[w]
        /\ set' = [values |-> set'.values, indexes |-> set'.indexes]
        /\ result' = TRUE /\ type' = type
    BY <1>3, removeEffect
  <2>2. TypeOK'
    BY <2>1 DEF IInv, TypeOK
  <2>3. n \in 1 .. n /\ last \in Word /\ set.indexes[last] = n
    BY <2>1, Stored
  <2>4. ASSUME NEW i \in 1 .. n - 1
        PROVE  set'.indexes[set'.values[i]] = i
    <3>1. i \in 1 .. n /\ i # n
      BY <2>1
    <3>2. set.values[i] \in Word /\ set.indexes[set.values[i]] = i
      BY <3>1, Stored
    <3>3. CASE i = k
      <4>1. last # value
        BY <2>1, <2>3, <3>1, <3>3
      <4> QED
        BY <2>1, <2>3, <3>3, <4>1
    <3>4. CASE i # k
      <4>1. set.values[i] # value /\ set.values[i] # last
        BY <2>3, <3>1, <3>2, <3>4
      <4> QED
        BY <2>1, <3>2, <3>4, <4>1
    <3> QED
      BY <3>3, <3>4
  <2>5. ASSUME NEW w \in Word, set'.indexes[w] # 0
        PROVE  /\ set'.indexes[w] \in 1 .. n - 1
               /\ set'.values[set'.indexes[w]] = w
    <3>1. w # value /\ set'.indexes[w] = IF w = last THEN k ELSE set.indexes[w]
      BY <2>1, <2>5
    <3>2. CASE w = last
      <4>1. k # n
        BY <2>1, <3>1, <3>2
      <4> QED
        BY <2>1, <3>1, <3>2, <4>1
    <3>3. CASE w # last
      <4>1. set.indexes[w] \in 1 .. n /\ set.values[set.indexes[w]] = w
        BY <2>5, <3>1, <3>3 DEF IInv, IndexesInvertValues
      <4>2. set.indexes[w] # n /\ set.indexes[w] # k
        BY <2>1, <3>1, <3>3, <4>1
      <4> QED
        BY <2>1, <3>1, <3>3, <4>1, <4>2
    <3> QED
      BY <3>2, <3>3
  <2> QED
    BY <2>1, <2>2, <2>4, <2>5 DEF IInv, IndexesInvertValues
<1> QED
  BY <1>2, <1>3

LEMMA Invariant ==
    Spec => []IInv
<1>1. IInv /\ [Next]_vars => IInv'
  <2>1. IInv /\ UNCHANGED vars => IInv'
    BY DEF vars, IInv, TypeOK, IndexesInvertValues
  <2> QED
    BY <2>1, addIInv, removeIInv DEF Next
<1> QED
  BY <1>1, InitIInv, PTL DEF Spec

-------------------------------------------------------------------------------

\* Every word that the set stores, and its position, fits its type.
THEOREM SetTypes ==
    Spec => []TypeOK
<1>1. IInv => TypeOK
  BY DEF IInv
<1> QED
  BY <1>1, Invariant, PTL

\* The index mapping inverts the array after any sequence of calls.
THEOREM IndexesAreInverse ==
    Spec => []IndexesInvertValues
<1>1. IInv => IndexesInvertValues
  BY DEF IInv
<1> QED
  BY <1>1, Invariant, PTL

LEMMA InvariantViews ==
    ASSUME IInv
    PROVE  ViewsAgree
<1> DEFINE n == Len(set.values)
<1>1. n \in Nat /\ type \in TYPES
  BY DEF IInv, TypeOK
<1>2. \A index \in 0 .. n - 1 :
        index + 1 \in 1 .. n /\ at(index) = set.values[index + 1]
  BY <1>1, Stored DEF at
<1>3. \A j \in 1 .. n : values[j] = set.values[j]
  <2>1. \A j \in 1 .. n : j - 1 \in 0 .. n - 1 /\ (j - 1) + 1 = j
    BY <1>1
  <2> QED
    BY <1>1, <1>2, <2>1 DEF values, length
<1>4. ASSUME NEW v \in ValueOf(type)
      PROVE  contains(v) <=> \E index \in 0 .. n - 1 : at(index) = v
  <2>1. contains(v) <=> \E i \in 1 .. n : set.values[i] = v
    BY <1>1, Conversions, Indexed DEF contains
  <2>2. \A i \in 1 .. n : i - 1 \in 0 .. n - 1 /\ (i - 1) + 1 = i
    BY <1>1
  <2>3. ASSUME NEW i \in 1 .. n, set.values[i] = v
        PROVE  \E index \in 0 .. n - 1 : at(index) = v
    <3>1. i - 1 \in 0 .. n - 1 /\ at(i - 1) = v
      BY <1>2, <2>2, <2>3
    <3> QED
      BY <3>1
  <2>4. (\E index \in 0 .. n - 1 : at(index) = v) => contains(v)
    BY <1>2, <2>1
  <2> QED
    BY <2>1, <2>3, <2>4
<1>5. \A j, k \in 1 .. n : values[j] = values[k] => j = k
  BY <1>3, Stored
<1> QED
  BY <1>4, <1>5 DEF ViewsAgree, length

\* contains, length, at and values answer for the same set.
THEOREM ViewsShowOneSet ==
    Spec => []ViewsAgree
BY InvariantViews, Invariant, PTL

LEMMA MembersAre ==
    ASSUME IInv
    PROVE  /\ Members = {set.values[i] : i \in 1 .. Len(set.values)}
           /\ Members \subseteq ValueOf(type)
           /\ \A w \in Word : w \in Members <=> containsWord(set, w)
<1>1. Members = {set.values[i] : i \in 1 .. Len(set.values)}
  BY Stored DEF Members
<1> QED
  BY <1>1, Stored, Indexed

LEMMA MembersNext ==
    ASSUME IInv, IInv', type' = type
    PROVE  Members' = {set'.values[i] : i \in 1 .. Len(set'.values)}
<1>1. \A i \in 1 .. Len(set'.values) : set'.values[i] \in ValueOf(type)
  BY DEF IInv, TypeOK
<1>2. \A i \in 1 .. Len(set'.values) :
         fromBytes32(type, set'.values[i]) = set'.values[i]
  BY <1>1, Conversions DEF IInv, TypeOK
<1> QED
  BY <1>2 DEF Members

\* A call of add is an abstract Add.
LEMMA addAbstract ==
    ASSUME IInv, IInv', NEW value \in ValueOf(type), add(value)
    PROVE  value \in Word /\ Abstract!Add(value)
<1>1. Members = {set.values[i] : i \in 1 .. Len(set.values)}
  BY MembersAre
<1>2. Members' = {set'.values[i] : i \in 1 .. Len(set'.values)}
  BY MembersNext DEF add
<1>3. toBytes32(type, value) = value /\ value \in Word
  BY Conversions DEF IInv, TypeOK
<1>4. value \in Members <=> containsWord(set, value)
  BY <1>1, <1>3, Indexed
<1>5. CASE containsWord(set, value)
  BY <1>1, <1>2, <1>3, <1>4, <1>5
     DEF add, addWord, Abstract!Add
<1>6. CASE ~ containsWord(set, value)
  <2>1. set'.values = Append(set.values, value) /\ result' = TRUE
    BY <1>6, addEffect
  <2>2. set.values \in Seq(ValueOf(type)) /\ Len(set.values) \in Nat
    BY DEF IInv, TypeOK
  <2>3. Members' = Members \cup {value}
    BY <1>1, <1>2, <2>1, <2>2
  <2> QED
    BY <1>3, <1>4, <1>6, <2>1, <2>3 DEF Abstract!Add
<1> QED
  BY <1>5, <1>6

\* A call of remove is an abstract Remove.
LEMMA removeAbstract ==
    ASSUME IInv, IInv', NEW value \in ValueOf(type), remove(value)
    PROVE  value \in Word /\ Abstract!Remove(value)
<1>1. Members = {set.values[i] : i \in 1 .. Len(set.values)}
  BY MembersAre
<1>2. Members' = {set'.values[i] : i \in 1 .. Len(set'.values)}
  BY MembersNext DEF remove
<1>3. toBytes32(type, value) = value /\ value \in Word
  BY Conversions DEF IInv, TypeOK
<1>4. value \in Members <=> containsWord(set, value)
  BY <1>1, <1>3, Indexed
<1>5. CASE ~ containsWord(set, value)
  <2>1. set' = set /\ result' = FALSE
    BY <1>3, <1>5 DEF remove, removeWord, containsWord
  <2>2. Members' = Members /\ value \notin Members
    BY <1>1, <1>2, <1>4, <1>5, <2>1
  <2>3. Members \ {value} = Members /\ (value \in Members) = FALSE
    BY <2>2
  <2> QED
    BY <1>3, <2>1, <2>2, <2>3 DEF Abstract!Remove
<1>6. CASE containsWord(set, value)
  <2> DEFINE n == Len(set.values)
             k == set.indexes[value]
  <2>1. /\ n \in Nat \ {0} /\ k \in 1 .. n
        /\ set.values[k] = value
        /\ Len(set'.values) = n - 1
        /\ \A i \in 1 .. n - 1 : set'.values[i] =
              IF i = k THEN set.values[n] ELSE set.values[i]
        /\ result' = TRUE
    BY <1>6, removeEffect
  <2>2. ASSUME NEW i \in 1 .. n - 1
        PROVE  set'.values[i] \in Members /\ set'.values[i] # value
    <3>1. i \in 1 .. n /\ n \in 1 .. n /\ i # n
      BY <2>1
    <3> QED
      BY <1>1, <2>1, <3>1, Stored
  <2>3. ASSUME NEW i \in 1 .. n, set.values[i] # value
        PROVE  \E j \in 1 .. n - 1 : set'.values[j] = set.values[i]
    <3>1. CASE i = n
      <4>1. k \in 1 .. n - 1
        BY <2>1, <2>3, <3>1
      <4> QED
        BY <2>1, <3>1, <4>1
    <3>2. CASE i # n
      <4>1. i \in 1 .. n - 1 /\ i # k
        BY <2>1, <2>3, <3>2
      <4> QED
        BY <2>1, <4>1
    <3> QED
      BY <3>1, <3>2
  <2>4. Members' = Members \ {value}
    <3>1. ASSUME NEW w \in Members' PROVE w \in Members \ {value}
      <4>1. PICK i \in 1 .. Len(set'.values) : set'.values[i] = w
        BY <1>2
      <4> QED
        BY <2>1, <2>2, <4>1
    <3>2. ASSUME NEW w \in Members \ {value} PROVE w \in Members'
      <4>1. PICK i \in 1 .. n : set.values[i] = w
        BY <1>1
      <4>2. PICK j \in 1 .. n - 1 : set'.values[j] = w
        BY <2>3, <4>1
      <4> QED
        BY <1>2, <2>1, <4>2
    <3> QED
      BY <3>1, <3>2
  <2> QED
    BY <1>3, <1>4, <1>6, <2>1, <2>4 DEF Abstract!Remove
<1> QED
  BY <1>5, <1>6

LEMMA AbstractStep ==
    ASSUME IInv, IInv', [Next]_vars
    PROVE  [Abstract!Next]_Abstract!setVars
<1>1. CASE UNCHANGED vars
  BY <1>1 DEF vars, Members, Abstract!setVars
<1>2. CASE Next
  BY <1>2, addAbstract, removeAbstract DEF Next, Abstract!Next
<1> QED
  BY <1>1, <1>2

\* The library implements a set: every call adds or removes the one value it
\* names, and its answer says whether that changed the set.
THEOREM SetImplemented ==
    Spec => ImplementsSet
<1>1. Init => Abstract!Init
  BY DEF Init, EmptySet, Members, Abstract!Init
<1>2. IInv /\ IInv' /\ [Next]_vars => [Abstract!Next]_Abstract!setVars
  BY AbstractStep
<1> QED
  BY <1>1, <1>2, Invariant, PTL DEF Spec, ImplementsSet, Abstract!Spec
===============================================================================
