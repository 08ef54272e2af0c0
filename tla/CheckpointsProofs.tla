--------------------------- MODULE CheckpointsProofs ---------------------------
(***************************************************************************)
(* The searches of Checkpoints find what their comments promise, for       *)
(* histories of any length and keys and values of any width.               *)
(***************************************************************************)
EXTENDS Checkpoints, TLAPS

UpperFns == {"upperLookup", "upperLookupRecent", "getAtBlock", "getAtRecentBlock"}
LegacyFns == {"getAtBlock", "getAtRecentBlock"}

\* What is left out of the interval of a search is on its side of the key;
\* the doubling search has just probed a key past the one it looks for.
Searching ==
    /\ pc = "upperBinaryLookup" =>
          /\ low <= high /\ high <= length
          /\ \A i \in 1 .. low : checkpoints[i].key <= call.key
          /\ \A i \in high + 1 .. length : checkpoints[i].key > call.key
    /\ pc = "lowerBinaryLookup" =>
          /\ low <= high /\ high <= length
          /\ \A i \in 1 .. low : checkpoints[i].key < call.key
          /\ \A i \in high + 1 .. length : checkpoints[i].key >= call.key
    /\ pc = "doubling" =>
          \/ offset = 1
          \/ \E half \in 1 .. length :
                /\ offset = 2 * half
                /\ checkpoints[length - half + 1].key > call.key
    /\ pc = "ready" => low = 0

\* The loops that run belong to the function called, which belongs to the
\* flavour; a legacy lookup is about a block that has been mined.
CallsFit ==
    /\ pc \in {"doubling", "upperBinaryLookup"} => call.fn \in UpperFns
    /\ pc = "lowerBinaryLookup" => call.fn = "lowerLookup"
    /\ history = "History" => call.fn = "none" \/ call.fn \in LegacyFns
    /\ call.fn \in LegacyFns => history = "History" /\ call.key < block

\* A History holds blocks that have come.
BlocksHaveCome ==
    history = "History" => \A i \in 1 .. length : checkpoints[i].key <= block

IInv ==
    TypeOK /\ KeysIncrease /\ AnswersAreRight /\ Searching /\ CallsFit /\ BlocksHaveCome

\* Inside the array unsafeAccess is the checkpoint at the next index.
LEMMA Slot ==
    ASSUME TypeOK, NEW pos \in Nat, pos < length
    PROVE  /\ unsafeAccess(pos) = checkpoints[pos + 1]
           /\ checkpoints[pos + 1] \in Checkpoint
           /\ length \in Nat
BY DEF TypeOK, length, unsafeAccess

\* The keys before an index are smaller, those after it greater.
LEMMA LengthType ==
    ASSUME TypeOK
    PROVE  /\ length \in Nat
           /\ \A i \in 1 .. length : /\ checkpoints[i].key \in Nat
                                     /\ checkpoints[i].key \in Key
                                     /\ checkpoints[i].value \in Value
<1>1. length \in Nat /\ \A i \in 1 .. length : checkpoints[i] \in Checkpoint
  BY DEF TypeOK, length
<1> QED
  BY <1>1 DEF Checkpoint, Key

\* After an insert the new pair is the last one, and those before it are the
\* old ones with smaller keys.
LEMMA InsertEffect ==
    ASSUME TypeOK, KeysIncrease, NEW key \in Key, NEW value \in Value,
           insert(key, value)
    PROVE  /\ checkpoints' \in Seq(Checkpoint)
           /\ \A i \in 1 .. length : checkpoints[i].key <= key
           /\ \E n \in 1 .. length + 1 :
                 /\ length' = n /\ length <= n
                 /\ n = length => checkpoints[n].key = key
                 /\ checkpoints'[n] = [key |-> key, value |-> value]
                 /\ \A i \in 1 .. n - 1 : /\ checkpoints'[i] = checkpoints[i]
                                          /\ checkpoints[i].key < key
<1> DEFINE pair == [key |-> key, value |-> value]
<1>1. pair \in Checkpoint /\ key \in Nat
  BY DEF Checkpoint, Key
<1>2. /\ length \in Nat /\ length = Len(checkpoints) /\ checkpoints \in Seq(Checkpoint)
      /\ \A i \in 1 .. length : checkpoints[i].key \in Nat
  BY LengthType DEF length, TypeOK
<1>3. length' = Len(checkpoints')
  BY DEF length
<1>4. ASSUME length > 0
      PROVE  /\ unsafeAccess(length - 1) = checkpoints[length]
             /\ checkpoints[length] \in Checkpoint
             /\ checkpoints[length].key <= key
             /\ \A i \in 1 .. length - 1 : checkpoints[i].key < checkpoints[length].key
  <2>1. unsafeAccess(length - 1) = checkpoints[length]
        /\ checkpoints[length] \in Checkpoint
    <3>1. length - 1 \in Nat /\ length - 1 < length /\ (length - 1) + 1 = length
      BY <1>2, <1>4
    <3> QED
      BY <3>1, Slot
  <2>2. \A i \in 1 .. length - 1 : checkpoints[i].key < checkpoints[length].key
    BY <1>2, <1>4 DEF KeysIncrease
  <2> QED
    BY <1>4, <2>1, <2>2 DEF insert
<1>5. \A i \in 1 .. length : checkpoints[i].key <= key
  BY <1>1, <1>2, <1>4
<1>6. CASE length > 0 /\ checkpoints[length].key = key
  <2>1. checkpoints' = [checkpoints EXCEPT ![length].value = value]
    BY <1>4, <1>6 DEF insert
  <2>2. [checkpoints[length] EXCEPT !.value = value] = pair
    BY <1>4, <1>6 DEF Checkpoint
  <2>3. checkpoints' = [checkpoints EXCEPT ![length] = pair]
    BY <2>1, <2>2
  <2>4. /\ checkpoints' \in Seq(Checkpoint) /\ Len(checkpoints') = length
        /\ checkpoints'[length] = pair
        /\ \A i \in 1 .. length - 1 : checkpoints'[i] = checkpoints[i]
    BY <1>1, <1>2, <1>6, <2>3
  <2>5. \A i \in 1 .. length - 1 : checkpoints[i].key < key
    BY <1>4, <1>6
  <2> QED
    BY <1>2, <1>3, <1>5, <1>6, <2>4, <2>5
<1>7. CASE ~ (length > 0 /\ checkpoints[length].key = key)
  <2>1. checkpoints' = Append(checkpoints, pair)
    BY <1>4, <1>7 DEF insert
  <2>2. /\ checkpoints' \in Seq(Checkpoint) /\ Len(checkpoints') = length + 1
        /\ checkpoints'[length + 1] = pair
        /\ \A i \in 1 .. length : checkpoints'[i] = checkpoints[i]
    BY <1>1, <1>2, <2>1
  <2>3. \A i \in 1 .. length : checkpoints[i].key < key
    BY <1>1, <1>2, <1>4, <1>7 DEF Checkpoint
  <2> QED
    <3>1. length + 1 # length /\ (length + 1) - 1 = length
      BY <1>2
    <3> QED
      BY <1>2, <1>3, <1>5, <2>2, <2>3, <3>1
<1> QED
  BY <1>6, <1>7

\* Keys stay increasing when a pair is inserted.
LEMMA InsertKeepsOrder ==
    ASSUME TypeOK, KeysIncrease, NEW key \in Key, NEW value \in Value,
           insert(key, value)
    PROVE  KeysIncrease'
<1>1. PICK n \in 1 .. length + 1 :
         /\ length' = n /\ length <= n
         /\ checkpoints'[n] = [key |-> key, value |-> value]
         /\ \A i \in 1 .. n - 1 : /\ checkpoints'[i] = checkpoints[i]
                                  /\ checkpoints[i].key < key
  BY InsertEffect
<1>2. length \in Nat
  BY LengthType
<1>3. SUFFICES ASSUME NEW i \in 1 .. n, NEW j \in 1 .. n, i < j
               PROVE  checkpoints'[i].key < checkpoints'[j].key
  BY <1>1 DEF KeysIncrease
<1>4. CASE j = n
  BY <1>1, <1>2, <1>3, <1>4
<1>5. CASE j # n
  <2>1. i \in 1 .. n - 1 /\ j \in 1 .. n - 1 /\ i \in 1 .. length /\ j \in 1 .. length
    BY <1>2, <1>3, <1>5
  <2>2. checkpoints[i].key < checkpoints[j].key
    BY <1>3, <2>1 DEF KeysIncrease
  <2> QED
    BY <1>1, <2>1, <2>2
<1> QED
  BY <1>4, <1>5

\* What an insert does to the values looked up.
LEMMA InsertSetsTheFuture ==
    ASSUME TypeOK, KeysIncrease, NEW k \in Key, NEW v \in Value, insert(k, v),
           NEW key \in Key, NEW w \in Value
    PROVE  IsValueUpTo(w, key)' <=> IF key < k THEN IsValueUpTo(w, key) ELSE w = v
<1>1. PICK n \in 1 .. length + 1 :
         /\ length' = n /\ length <= n
         /\ n = length => checkpoints[n].key = k
         /\ checkpoints'[n] = [key |-> k, value |-> v]
         /\ \A i \in 1 .. n - 1 : /\ checkpoints'[i] = checkpoints[i]
                                  /\ checkpoints[i].key < k
  BY InsertEffect
<1>2. length \in Nat /\ key \in Nat /\ k \in Nat
      /\ \A i \in 1 .. length : checkpoints[i].key \in Nat /\ checkpoints[i].key <= k
  <2>1. \A i \in 1 .. length : checkpoints[i].key <= k
    BY InsertEffect
  <2> QED
    BY <2>1, LengthType DEF Key
<1>3. checkpoints'[n].key = k /\ checkpoints'[n].value = v
  BY <1>1
<1>4. \A i \in 1 .. n - 1 : i \in 1 .. length
  BY <1>1, <1>2
<1>5. CASE key < k
  <2>1. \A i \in 1 .. length : checkpoints[i].key <= key => i \in 1 .. n - 1
    <3> SUFFICES ASSUME NEW i \in 1 .. length, checkpoints[i].key <= key
                 PROVE  i # n
      BY <1>1, <1>2
    <3>1. ASSUME i = n PROVE FALSE
      <4>1. n = length
        BY <1>1, <1>2, <3>1
      <4> QED
        BY <4>1, <1>1, <1>2, <1>5, <3>1
    <3> QED
      BY <3>1
  <2>2. ASSUME IsValueUpTo(w, key)' PROVE IsValueUpTo(w, key)
    <3>1. CASE w = 0 /\ \A i \in 1 .. n : checkpoints'[i].key > key
      BY <1>1, <1>2, <1>4, <2>1, <3>1 DEF IsValueUpTo
    <3>2. CASE \E i \in 1 .. n : /\ checkpoints'[i].key <= key
                                 /\ checkpoints'[i].value = w
                                 /\ \A j \in i + 1 .. n : checkpoints'[j].key > key
      <4>1. PICK i \in 1 .. n : /\ checkpoints'[i].key <= key
                                /\ checkpoints'[i].value = w
                                /\ \A j \in i + 1 .. n : checkpoints'[j].key > key
        BY <3>2
      <4>2. i \in 1 .. n - 1 /\ i \in 1 .. length
        BY <1>1, <1>2, <1>3, <1>5, <4>1
      <4>3. ASSUME NEW j \in i + 1 .. length PROVE checkpoints[j].key > key
        <5>1. CASE j \in 1 .. n - 1
          BY <1>1, <4>1, <4>2, <5>1
        <5>2. CASE j \notin 1 .. n - 1
          BY <1>2, <2>1, <4>2, <5>2
        <5> QED
          BY <5>1, <5>2
      <4> QED
        BY <1>1, <4>1, <4>2, <4>3 DEF IsValueUpTo
    <3> QED
      BY <1>1, <2>2, <3>1, <3>2 DEF IsValueUpTo
  <2>3. ASSUME IsValueUpTo(w, key) PROVE IsValueUpTo(w, key)'
    <3>1. CASE w = 0 /\ \A i \in 1 .. length : checkpoints[i].key > key
      <4>1. \A i \in 1 .. n : checkpoints'[i].key > key
        BY <1>1, <1>2, <1>3, <1>4, <1>5, <3>1
      <4> QED
        BY <1>1, <3>1, <4>1 DEF IsValueUpTo
    <3>2. CASE \E i \in 1 .. length : /\ checkpoints[i].key <= key
                                      /\ checkpoints[i].value = w
                                      /\ \A j \in i + 1 .. length : checkpoints[j].key > key
      <4>1. PICK i \in 1 .. length : /\ checkpoints[i].key <= key
                                     /\ checkpoints[i].value = w
                                     /\ \A j \in i + 1 .. length : checkpoints[j].key > key
        BY <3>2
      <4>2. i \in 1 .. n - 1
        BY <2>1, <4>1
      <4>3. ASSUME NEW j \in i + 1 .. n PROVE checkpoints'[j].key > key
        BY <1>1, <1>2, <1>3, <1>4, <1>5, <4>1, <4>2
      <4> QED
        BY <1>1, <4>1, <4>2, <4>3 DEF IsValueUpTo
    <3> QED
      BY <2>3, <3>1, <3>2 DEF IsValueUpTo
  <2> QED
    BY <1>5, <2>2, <2>3
<1>6. CASE ~ (key < k)
  <2>1. ASSUME w = v PROVE IsValueUpTo(w, key)'
    BY <1>1, <1>2, <1>3, <1>6, <2>1 DEF IsValueUpTo
  <2>2. ASSUME IsValueUpTo(w, key)' PROVE w = v
    <3>1. ~ (checkpoints'[n].key > key)
      BY <1>2, <1>3, <1>6
    <3>2. PICK i \in 1 .. n : /\ checkpoints'[i].value = w
                              /\ \A j \in i + 1 .. n : checkpoints'[j].key > key
      BY <1>1, <2>2, <3>1 DEF IsValueUpTo
    <3>3. i = n
      BY <1>1, <1>2, <3>1, <3>2
    <3> QED
      BY <1>3, <3>2, <3>3
  <2> QED
    BY <1>6, <2>1, <2>2
<1> QED
  BY <1>5, <1>6

-------------------------------------------------------------------------------
(* The inductive invariant, one lemma per kind of step.                    *)

LEMMA InitIInv ==
    Init => IInv
<1> SUFFICES ASSUME Init PROVE IInv
  OBVIOUS
<1>1. checkpoints \in Seq(Checkpoint) /\ length = 0
  BY DEF Init, length
<1>2. 0 \in Key /\ 0 \in Value /\ 0 \in Block
  BY KeyAssumption, ValueAssumption, BlockAssumption DEF Key, Value, Block
<1>3. TypeOK
  BY <1>1, <1>2 DEF Init, TypeOK, NoCall
<1> QED
  BY <1>1, <1>3 DEF Init, IInv, KeysIncrease, AnswersAreRight, Searching, CallsFit,
     BlocksHaveCome, NoCall, LegacyFns

LEMMA MineIInv ==
    ASSUME IInv, Mine
    PROVE  IInv'
<1>1. block' = block + 1 /\ block' \in Block
  BY BlockAssumption DEF IInv, TypeOK, Mine, Block
<1>2. UNCHANGED <<history, checkpoints, pc, call, offset, low, high, answer, length>>
  BY DEF Mine, search, length
<1>3. TypeOK'
  BY <1>1, <1>2 DEF IInv, TypeOK
<1>4. KeysIncrease' /\ AnswersAreRight' /\ Searching'
  BY <1>2 DEF IInv, KeysIncrease, AnswersAreRight, Searching, IsValueUpTo, IsValueFrom
<1>5. CallsFit' /\ BlocksHaveCome'
  <2>1. \A i \in 1 .. length : checkpoints[i].key \in Nat
    BY LengthType DEF IInv
  <2>2. call.key \in Nat /\ block \in Nat
    BY DEF IInv, TypeOK, Key, Block
  <2> QED
    BY <1>1, <1>2, <2>1, <2>2 DEF IInv, CallsFit, BlocksHaveCome
<1> QED
  BY <1>3, <1>4, <1>5 DEF IInv

\* What every push has in common.
LEMMA InsertIInv ==
    ASSUME IInv, NEW key \in Key, NEW value \in Value, insert(key, value),
           pc = "ready", history = "History" => key = block,
           UNCHANGED <<history, block, pc, offset, low, high, answer>>,
           \/ history = "History" /\ UNCHANGED call
           \/ call' = NoCall
    PROVE  IInv'
<1>1. 0 \in Key
  BY KeyAssumption DEF Key
<1>2. TypeOK'
  <2>1. checkpoints' \in Seq(Checkpoint)
    BY InsertEffect DEF IInv
  <2> QED
    BY <1>1, <2>1 DEF IInv, TypeOK, NoCall
<1>3. KeysIncrease'
  BY InsertKeepsOrder DEF IInv
<1>4. Searching' /\ CallsFit'
  BY DEF IInv, Searching, CallsFit, NoCall, LegacyFns
<1>5. BlocksHaveCome'
  <2> SUFFICES ASSUME history = "History", NEW i \in 1 .. length'
               PROVE  checkpoints'[i].key <= block
    BY DEF BlocksHaveCome
  <2>1. PICK n \in 1 .. length + 1 :
           /\ length' = n /\ length <= n
           /\ checkpoints'[n] = [key |-> key, value |-> value]
           /\ \A j \in 1 .. n - 1 : /\ checkpoints'[j] = checkpoints[j]
                                    /\ checkpoints[j].key < key
    BY InsertEffect DEF IInv
  <2>2. length \in Nat /\ key \in Nat /\ key = block
    BY LengthType DEF IInv, Key
  <2>3. CASE i = n
    BY <2>1, <2>2, <2>3
  <2>4. CASE i # n
    <3>1. i \in 1 .. n - 1 /\ i \in 1 .. length
      BY <2>1, <2>2, <2>4
    <3>2. checkpoints[i].key \in Nat
      BY <3>1, LengthType DEF IInv
    <3> QED
      BY <2>1, <2>2, <3>1, <3>2
  <2> QED
    BY <2>3, <2>4
<1>6. AnswersAreRight'
  <2>1. CASE call' = NoCall
    BY <2>1 DEF AnswersAreRight, NoCall
  <2>2. CASE history = "History" /\ UNCHANGED call /\ call.fn \in LegacyFns
    <3>1. call.key < key /\ IsValueUpTo(answer, call.key)
      BY <2>2 DEF IInv, CallsFit, AnswersAreRight, LegacyFns
    <3>2. call.key \in Key /\ answer \in Value
      BY DEF IInv, TypeOK
    <3>3. IsValueUpTo(answer, call.key)'
      <4>1. PICK q \in Key : q = call.key
        BY <3>2
      <4>2. PICK w \in Value : w = answer
        BY <3>2
      <4>3. IsValueUpTo(w, q)' <=> IsValueUpTo(w, q)
        BY <3>1, <4>1, InsertSetsTheFuture DEF IInv
      <4>4. IsValueUpTo(w, q)'
        BY <3>1, <4>1, <4>2, <4>3
      <4> QED
        BY <2>2, <4>1, <4>2, <4>4 DEF IsValueUpTo
    <3> QED
      BY <2>2, <3>3 DEF AnswersAreRight, LegacyFns
  <2>3. CASE history = "History" /\ UNCHANGED call /\ call.fn = "none"
    BY <2>3 DEF AnswersAreRight
  <2> QED
    BY <2>1, <2>2, <2>3 DEF IInv, CallsFit
<1> QED
  BY <1>2, <1>3, <1>4, <1>5, <1>6 DEF IInv

LEMMA PushIInv ==
    ASSUME IInv, NEW value, push(value)
    PROVE  IInv'
<1>1. /\ block \in Key /\ value \in Value /\ insert(block, value)
      /\ pc = "ready" /\ history = "History"
      /\ UNCHANGED <<history, block, pc, call, offset, low, high, answer>>
  BY DEF push, search
<1> QED
  BY <1>1, InsertIInv

LEMMA PushTraceIInv ==
    ASSUME IInv, NEW key \in Key, NEW value \in Value, pushTrace(key, value)
    PROVE  IInv'
<1>1. /\ insert(key, value) /\ pc = "ready" /\ history = "Trace" /\ call' = NoCall
      /\ UNCHANGED <<history, block, pc, offset, low, high, answer>>
  BY DEF pushTrace
<1> QED
  BY <1>1, InsertIInv

-------------------------------------------------------------------------------

\* A lookup starts with nothing left out of its interval.
LEMMA BeginIInv ==
    ASSUME IInv, NEW loop, NEW fn, NEW key \in Key, Begin(loop, fn, key),
           \/ /\ loop = "upperBinaryLookup" /\ fn \in {"upperLookup", "getAtBlock"}
              /\ WholeArray
           \/ /\ loop = "lowerBinaryLookup" /\ fn = "lowerLookup"
              /\ WholeArray
           \/ /\ loop = "doubling" /\ fn \in {"upperLookupRecent", "getAtRecentBlock"}
              /\ offset' = 1 /\ UNCHANGED <<low, high>>,
           IF fn \in LegacyFns THEN history = "History" /\ key < block
                               ELSE history = "Trace"
    PROVE  IInv'
<1>1. /\ pc' = loop /\ call' = [fn |-> fn, key |-> key] /\ pc = "ready"
      /\ UNCHANGED <<history, block, checkpoints, answer, length>>
  BY DEF Begin, length
<1>2. length \in Nat /\ low = 0 /\ call'.fn = fn /\ call'.key = key
  BY <1>1, LengthType DEF IInv, Searching
<1>3. TypeOK'
  BY <1>1, <1>2 DEF IInv, TypeOK, WholeArray
<1>4. KeysIncrease' /\ BlocksHaveCome'
  BY <1>1 DEF IInv, KeysIncrease, BlocksHaveCome
<1>5. AnswersAreRight' /\ CallsFit'
  BY <1>1, <1>2 DEF IInv, AnswersAreRight, CallsFit, UpperFns, LegacyFns
<1>6. Searching'
  <2>1. CASE WholeArray /\ loop = "upperBinaryLookup"
    BY <1>1, <1>2, <2>1 DEF Searching, WholeArray
  <2>2. CASE WholeArray /\ loop = "lowerBinaryLookup"
    BY <1>1, <1>2, <2>2 DEF Searching, WholeArray
  <2>3. CASE loop = "doubling" /\ offset' = 1
    BY <1>1, <2>3 DEF Searching
  <2> QED
    BY <2>1, <2>2, <2>3
<1> QED
  BY <1>3, <1>4, <1>5, <1>6 DEF IInv

LEMMA LookupIInv ==
    ASSUME IInv,
           \/ \E key \in Key : \/ lowerLookup(key) \/ upperLookup(key)
                               \/ upperLookupRecent(key)
           \/ \E blockNumber \in Block : \/ getAtBlock(blockNumber)
                                         \/ getAtRecentBlock(blockNumber)
    PROVE  IInv'
<1>1. ASSUME NEW key \in Key, lowerLookup(key) PROVE IInv'
  <2>1. /\ history = "Trace" /\ WholeArray
        /\ Begin("lowerBinaryLookup", "lowerLookup", key)
    BY <1>1 DEF lowerLookup
  <2> QED
    BY <2>1, BeginIInv DEF LegacyFns
<1>2. ASSUME NEW key \in Key, upperLookup(key) PROVE IInv'
  <2>1. /\ history = "Trace" /\ WholeArray
        /\ Begin("upperBinaryLookup", "upperLookup", key)
    BY <1>2 DEF upperLookup
  <2> QED
    BY <2>1, BeginIInv DEF LegacyFns
<1>3. ASSUME NEW key \in Key, upperLookupRecent(key) PROVE IInv'
  <2>1. /\ history = "Trace" /\ offset' = 1 /\ UNCHANGED <<low, high>>
        /\ Begin("doubling", "upperLookupRecent", key)
    BY <1>3 DEF upperLookupRecent
  <2> QED
    BY <2>1, BeginIInv DEF LegacyFns
<1>4. ASSUME NEW key \in Block, getAtBlock(key) PROVE IInv'
  <2>1. /\ history = "History" /\ key < block /\ key \in Key /\ WholeArray
        /\ Begin("upperBinaryLookup", "getAtBlock", key)
    BY <1>4 DEF getAtBlock
  <2> QED
    BY <2>1, BeginIInv DEF LegacyFns
<1>5. ASSUME NEW key \in Block, getAtRecentBlock(key) PROVE IInv'
  <2>1. /\ history = "History" /\ key < block /\ key \in Key
        /\ offset' = 1 /\ UNCHANGED <<low, high>>
        /\ Begin("doubling", "getAtRecentBlock", key)
    BY <1>5 DEF getAtRecentBlock
  <2> QED
    BY <2>1, BeginIInv DEF LegacyFns
<1> QED
  BY <1>1, <1>2, <1>3, <1>4, <1>5

-------------------------------------------------------------------------------

\* An iteration changes only the local variables.
LEMMA IterationKeeps ==
    ASSUME IInv, pc # "ready", UNCHANGED <<history, block, checkpoints, call>>
    PROVE  /\ KeysIncrease' /\ BlocksHaveCome' /\ UNCHANGED length
           /\ pc' = pc => CallsFit' /\ AnswersAreRight'
           /\ TypeOK' <=> /\ pc' \in {"ready", "doubling", "upperBinaryLookup",
                                     "lowerBinaryLookup"}
                          /\ offset' \in Nat /\ low' \in Nat /\ high' \in Nat
                          /\ answer' \in Value
<1>1. UNCHANGED length
  BY DEF length
<1> QED
  BY <1>1 DEF IInv, TypeOK, KeysIncrease, BlocksHaveCome, CallsFit, AnswersAreRight

\* Doubling the offset goes on past a greater key; when it stops, the key
\* looked for lies between the last two probes.
LEMMA DoubleIInv ==
    ASSUME IInv, Double
    PROVE  IInv'
<1>1. /\ pc = "doubling" /\ UNCHANGED <<history, block, checkpoints, call, answer>>
      /\ UNCHANGED length
  BY DEF Double, length
<1>2. /\ length \in Nat /\ offset \in Nat /\ call.key \in Nat /\ answer \in Value
      /\ low \in Nat /\ high \in Nat
      /\ \A i \in 1 .. length : checkpoints[i].key \in Nat
  BY LengthType DEF IInv, TypeOK, Key
<1>3. PICK half \in 0 .. length :
         /\ offset \div 2 = half /\ offset >= 1
         /\ IF half = 0 THEN offset = 1
                        ELSE /\ offset = 2 * half
                             /\ checkpoints[length - half + 1].key > call.key
  <2>1. CASE offset = 1
    <3>1. offset \div 2 = 0 /\ 0 \in 0 .. length
      BY <1>2, <2>1
    <3> QED
      BY <2>1, <3>1
  <2>2. CASE \E half \in 1 .. length :
                /\ offset = 2 * half
                /\ checkpoints[length - half + 1].key > call.key
    <3>1. PICK half \in 1 .. length :
                /\ offset = 2 * half
                /\ checkpoints[length - half + 1].key > call.key
      BY <2>2
    <3>2. offset \div 2 = half /\ half \in 0 .. length /\ half # 0 /\ offset >= 1
      BY <1>2, <3>1
    <3> QED
      BY <3>1, <3>2
  <2> QED
    BY <1>1, <2>1, <2>2 DEF IInv, Searching
<1>4. offset <= length =>
         unsafeAccess(length - offset) = checkpoints[length - offset + 1]
  <2>1. ASSUME offset <= length
        PROVE  length - offset \in Nat /\ length - offset < length
    BY <1>2, <1>3, <2>1
  <2> QED
    BY <2>1, Slot DEF IInv
<1>5. CASE offset <= length /\ unsafeAccess(length - offset).key > call.key
  <2>1. offset' = 2 * offset /\ UNCHANGED <<pc, low, high>>
    BY <1>5 DEF Double
  <2>2. Searching'
    <3>1. offset \in 1 .. length /\ offset' = 2 * offset
          /\ checkpoints[length - offset + 1].key > call.key
      BY <1>2, <1>3, <1>4, <1>5, <2>1
    <3> QED
      BY <1>1, <2>1, <3>1 DEF Searching
  <2> QED
    BY <1>1, <1>2, <2>1, <2>2, IterationKeeps DEF IInv
<1>6. CASE ~ (offset <= length /\ unsafeAccess(length - offset).key > call.key)
  <2>1. /\ low' = IF offset < length THEN length - offset ELSE 0
        /\ high' = length - offset \div 2
        /\ pc' = "upperBinaryLookup" /\ offset' = 0
    BY <1>6 DEF Double
  <2>2. high' = length - half /\ low' \in Nat /\ high' \in Nat
        /\ low' <= high' /\ high' <= length
    BY <1>2, <1>3, <2>1
  <2>3. ASSUME NEW i \in 1 .. low' PROVE checkpoints[i].key <= call.key
    <3>1. offset < length /\ low' = length - offset
      BY <1>2, <2>1
    <3>2. checkpoints[low' + 1].key <= call.key
      BY <1>2, <1>3, <1>4, <1>6, <3>1
    <3>3. i \in 1 .. length /\ low' + 1 \in 1 .. length /\ i < low' + 1
      BY <1>2, <1>3, <3>1
    <3>4. checkpoints[i].key < checkpoints[low' + 1].key
      BY <3>3 DEF IInv, KeysIncrease
    <3> QED
      BY <1>2, <3>2, <3>3, <3>4
  <2>4. ASSUME NEW i \in high' + 1 .. length PROVE checkpoints[i].key > call.key
    <3>1. half # 0 /\ length - half + 1 \in 1 .. length /\ i \in 1 .. length
          /\ length - half + 1 <= i
      BY <1>2, <2>2
    <3>2. i = length - half + 1 \/ checkpoints[length - half + 1].key < checkpoints[i].key
      BY <1>2, <3>1 DEF IInv, KeysIncrease
    <3> QED
      BY <1>2, <1>3, <3>1, <3>2
  <2>5. Searching'
    BY <1>1, <2>1, <2>2, <2>3, <2>4 DEF Searching
  <2>6. CallsFit' /\ AnswersAreRight'
    BY <1>1, <2>1 DEF IInv, CallsFit, AnswersAreRight
  <2>7. TypeOK' /\ KeysIncrease' /\ BlocksHaveCome'
    BY <1>1, <1>2, <2>1, <2>2, IterationKeeps
  <2> QED
    BY <2>5, <2>6, <2>7 DEF IInv
<1> QED
  BY <1>5, <1>6

\* The probe lies in the interval, so that each half is shorter.
LEMMA Average ==
    ASSUME NEW a \in Nat, NEW b \in Nat, a < b
    PROVE  average(a, b) \in Nat /\ a <= average(a, b) /\ average(a, b) < b
BY DEF average

\* Binary search for the newest checkpoint up to the key.
LEMMA UpperIInv ==
    ASSUME IInv, upperBinaryLookup
    PROVE  IInv'
<1>1. pc = "upperBinaryLookup" /\ UNCHANGED <<history, block, checkpoints, call>>
      /\ UNCHANGED length
  BY DEF upperBinaryLookup, Halve, Return, length
<1>2. /\ length \in Nat /\ offset \in Nat /\ call.key \in Nat /\ answer \in Value
      /\ low \in Nat /\ high \in Nat
      /\ \A i \in 1 .. length : checkpoints[i].key \in Nat
  BY LengthType DEF IInv, TypeOK, Key
<1>3. /\ low <= high /\ high <= length
      /\ \A i \in 1 .. low : checkpoints[i].key <= call.key
      /\ \A i \in high + 1 .. length : checkpoints[i].key > call.key
  BY <1>1 DEF IInv, Searching
<1>4. CASE low < high
  <2>1. PICK mid \in Nat : mid = average(low, high) /\ low <= mid /\ mid < high
    BY <1>2, <1>4, Average
  <2>2. /\ IF unsafeAccess(mid).key <= call.key
              THEN low' = mid + 1 /\ UNCHANGED high
              ELSE high' = mid /\ UNCHANGED low
        /\ UNCHANGED <<pc, offset, answer>>
    BY <1>1, <1>4, <2>1 DEF upperBinaryLookup, Halve
  <2>3. unsafeAccess(mid).key = checkpoints[mid + 1].key /\ mid + 1 \in 1 .. length
    BY <1>2, <1>3, <2>1, Slot DEF IInv
  <2>4. CASE checkpoints[mid + 1].key <= call.key
    <3>1. low' = mid + 1 /\ high' = high
      BY <2>2, <2>3, <2>4
    <3>2. ASSUME NEW i \in 1 .. mid + 1 PROVE checkpoints[i].key <= call.key
      <4>1. i \in 1 .. length /\ (i = mid + 1 \/ i < mid + 1)
        BY <1>2, <2>1, <2>3
      <4>2. i = mid + 1 \/ checkpoints[i].key < checkpoints[mid + 1].key
        BY <2>3, <4>1 DEF IInv, KeysIncrease
      <4> QED
        BY <1>2, <2>3, <2>4, <4>1, <4>2
    <3>3. mid + 1 \in Nat /\ mid + 1 <= high
      BY <1>2, <2>1
    <3>4. Searching'
      BY <1>1, <1>3, <2>2, <3>1, <3>2, <3>3 DEF Searching
    <3> QED
      BY <1>1, <1>2, <2>2, <3>1, <3>3, <3>4, IterationKeeps DEF IInv
  <2>5. CASE ~ (checkpoints[mid + 1].key <= call.key)
    <3>1. low' = low /\ high' = mid
      BY <2>2, <2>3, <2>5
    <3>2. ASSUME NEW i \in mid + 1 .. length PROVE checkpoints[i].key > call.key
      <4>1. i \in 1 .. length /\ (i = mid + 1 \/ mid + 1 < i)
        BY <1>2, <2>1, <2>3
      <4>2. i = mid + 1 \/ checkpoints[mid + 1].key < checkpoints[i].key
        BY <2>3, <4>1 DEF IInv, KeysIncrease
      <4> QED
        BY <1>2, <2>3, <2>5, <4>1, <4>2
    <3>3. mid <= length
      BY <1>2, <1>3, <2>1
    <3>4. Searching'
      BY <1>1, <1>3, <2>1, <2>2, <3>1, <3>2, <3>3 DEF Searching
    <3> QED
      BY <1>1, <1>2, <2>1, <2>2, <3>1, <3>4, IterationKeeps DEF IInv
  <2> QED
    BY <2>4, <2>5
<1>5. CASE ~ (low < high)
  <2>1. /\ pc' = "ready" /\ offset' = 0 /\ low' = 0 /\ high' = 0
        /\ answer' = IF high = 0 THEN 0 ELSE unsafeAccess(high - 1).value
    BY <1>1, <1>5 DEF upperBinaryLookup, Return
  <2>2. low = high
    BY <1>2, <1>3, <1>5
  <2>3. answer' \in Value /\ IsValueUpTo(answer', call.key)
    <3>1. CASE high = 0
      <4>1. \A i \in 1 .. length : checkpoints[i].key > call.key
        BY <1>3, <3>1
      <4> QED
        BY <2>1, <3>1, <4>1, ValueAssumption DEF IsValueUpTo, Value
    <3>2. CASE high # 0
      <4>1. high - 1 \in Nat /\ high - 1 < length /\ (high - 1) + 1 = high
            /\ high \in 1 .. length /\ high \in 1 .. low
        BY <1>2, <1>3, <2>2, <3>2
      <4>2. answer' = checkpoints[high].value /\ answer' \in Value
        BY <2>1, <3>2, <4>1, Slot, LengthType DEF IInv
      <4>3. checkpoints[high].key <= call.key
        BY <1>3, <4>1
      <4> QED
        BY <1>3, <4>1, <4>2, <4>3 DEF IsValueUpTo
    <3> QED
      BY <3>1, <3>2
  <2>4. IsValueUpTo(answer, call.key)'
    BY <1>1, <2>3 DEF IsValueUpTo
  <2>5. AnswersAreRight' /\ CallsFit' /\ Searching'
    BY <1>1, <2>1, <2>4
       DEF IInv, AnswersAreRight, CallsFit, Searching, UpperFns
  <2>6. TypeOK' /\ KeysIncrease' /\ BlocksHaveCome'
    BY <1>1, <2>1, <2>3, IterationKeeps
  <2> QED
    BY <2>5, <2>6 DEF IInv
<1> QED
  BY <1>4, <1>5

\* Binary search for the oldest checkpoint from the key on.
LEMMA LowerIInv ==
    ASSUME IInv, lowerBinaryLookup
    PROVE  IInv'
<1>1. pc = "lowerBinaryLookup" /\ UNCHANGED <<history, block, checkpoints, call>>
      /\ UNCHANGED length
  BY DEF lowerBinaryLookup, Halve, Return, length
<1>2. /\ length \in Nat /\ offset \in Nat /\ call.key \in Nat /\ answer \in Value
      /\ low \in Nat /\ high \in Nat
      /\ \A i \in 1 .. length : checkpoints[i].key \in Nat
  BY LengthType DEF IInv, TypeOK, Key
<1>3. /\ low <= high /\ high <= length
      /\ \A i \in 1 .. low : checkpoints[i].key < call.key
      /\ \A i \in high + 1 .. length : checkpoints[i].key >= call.key
  BY <1>1 DEF IInv, Searching
<1>4. CASE low < high
  <2>1. PICK mid \in Nat : mid = average(low, high) /\ low <= mid /\ mid < high
    BY <1>2, <1>4, Average
  <2>2. /\ IF unsafeAccess(mid).key < call.key
              THEN low' = mid + 1 /\ UNCHANGED high
              ELSE high' = mid /\ UNCHANGED low
        /\ UNCHANGED <<pc, offset, answer>>
    BY <1>1, <1>4, <2>1 DEF lowerBinaryLookup, Halve
  <2>3. unsafeAccess(mid).key = checkpoints[mid + 1].key /\ mid + 1 \in 1 .. length
    BY <1>2, <1>3, <2>1, Slot DEF IInv
  <2>4. CASE checkpoints[mid + 1].key < call.key
    <3>1. low' = mid + 1 /\ high' = high
      BY <2>2, <2>3, <2>4
    <3>2. ASSUME NEW i \in 1 .. mid + 1 PROVE checkpoints[i].key < call.key
      <4>1. i \in 1 .. length /\ (i = mid + 1 \/ i < mid + 1)
        BY <1>2, <2>1, <2>3
      <4>2. i = mid + 1 \/ checkpoints[i].key < checkpoints[mid + 1].key
        BY <2>3, <4>1 DEF IInv, KeysIncrease
      <4> QED
        BY <1>2, <2>3, <2>4, <4>1, <4>2
    <3>3. mid + 1 \in Nat /\ mid + 1 <= high
      BY <1>2, <2>1
    <3>4. Searching'
      BY <1>1, <1>3, <2>2, <3>1, <3>2, <3>3 DEF Searching
    <3> QED
      BY <1>1, <1>2, <2>2, <3>1, <3>3, <3>4, IterationKeeps DEF IInv
  <2>5. CASE ~ (checkpoints[mid + 1].key < call.key)
    <3>1. low' = low /\ high' = mid
      BY <2>2, <2>3, <2>5
    <3>2. ASSUME NEW i \in mid + 1 .. length PROVE checkpoints[i].key >= call.key
      <4>1. i \in 1 .. length /\ (i = mid + 1 \/ mid + 1 < i)
        BY <1>2, <2>1, <2>3
      <4>2. i = mid + 1 \/ checkpoints[mid + 1].key < checkpoints[i].key
        BY <2>3, <4>1 DEF IInv, KeysIncrease
      <4> QED
        BY <1>2, <2>3, <2>5, <4>1, <4>2
    <3>3. mid <= length
      BY <1>2, <1>3, <2>1
    <3>4. Searching'
      BY <1>1, <1>3, <2>1, <2>2, <3>1, <3>2, <3>3 DEF Searching
    <3> QED
      BY <1>1, <1>2, <2>1, <2>2, <3>1, <3>4, IterationKeeps DEF IInv
  <2> QED
    BY <2>4, <2>5
<1>5. CASE ~ (low < high)
  <2>1. /\ pc' = "ready" /\ offset' = 0 /\ low' = 0 /\ high' = 0
        /\ answer' = IF high = length THEN 0 ELSE unsafeAccess(high).value
    BY <1>1, <1>5 DEF lowerBinaryLookup, Return
  <2>2. low = high
    BY <1>2, <1>3, <1>5
  <2>3. answer' \in Value /\ IsValueFrom(answer', call.key)
    <3>1. CASE high = length
      BY <1>3, <2>1, <2>2, <3>1, ValueAssumption DEF IsValueFrom, Value
    <3>2. CASE high # length
      <4>1. high < length /\ high + 1 \in 1 .. length /\ high + 1 \in high + 1 .. length
            /\ (high + 1) - 1 = low
        BY <1>2, <1>3, <2>2, <3>2
      <4>2. answer' = checkpoints[high + 1].value /\ answer' \in Value
        BY <1>2, <2>1, <3>2, <4>1, Slot, LengthType DEF IInv
      <4>3. checkpoints[high + 1].key >= call.key
        BY <1>3, <4>1
      <4> QED
        BY <1>3, <4>1, <4>2, <4>3 DEF IsValueFrom
    <3> QED
      BY <3>1, <3>2
  <2>4. IsValueFrom(answer, call.key)'
    BY <1>1, <2>3 DEF IsValueFrom
  <2>5. AnswersAreRight' /\ CallsFit' /\ Searching'
    BY <1>1, <2>1, <2>4 DEF IInv, AnswersAreRight, CallsFit, Searching
  <2>6. TypeOK' /\ KeysIncrease' /\ BlocksHaveCome'
    BY <1>1, <2>1, <2>3, IterationKeeps
  <2> QED
    BY <2>5, <2>6 DEF IInv
<1> QED
  BY <1>4, <1>5

LEMMA StutterIInv ==
    ASSUME IInv, UNCHANGED vars
    PROVE  IInv'
BY DEF IInv, TypeOK, KeysIncrease, AnswersAreRight, IsValueUpTo, IsValueFrom,
   Searching, CallsFit, BlocksHaveCome, vars, search, length

LEMMA NextIInv ==
    ASSUME IInv, [Next]_vars
    PROVE  IInv'
<1>1. CASE Mine
  BY <1>1, MineIInv
<1>2. CASE \E value \in Value : push(value) \/ pushAdd(value) \/ pushSubtract(value)
  BY <1>2, PushIInv DEF pushAdd, pushSubtract
<1>3. CASE \E key \in Key, value \in Value : pushTrace(key, value)
  BY <1>3, PushTraceIInv
<1>4. CASE \/ \E key \in Key : \/ lowerLookup(key) \/ upperLookup(key)
                               \/ upperLookupRecent(key)
           \/ \E blockNumber \in Block : \/ getAtBlock(blockNumber)
                                         \/ getAtRecentBlock(blockNumber)
  BY <1>4, LookupIInv
<1>5. CASE Loop
  BY <1>5, DoubleIInv, UpperIInv, LowerIInv DEF Loop
<1>6. CASE UNCHANGED vars
  BY <1>6, StutterIInv
<1> QED
  BY <1>1, <1>2, <1>3, <1>4, <1>5, <1>6 DEF Next

THEOREM InductiveInvariant == Spec => []IInv
<1>1. Init => IInv
  BY InitIInv
<1>2. IInv /\ [Next]_vars => IInv'
  BY NextIInv
<1> QED
  BY <1>1, <1>2, PTL DEF Spec

\* Keys and values fit their types, also after narrowing a block number.
THEOREM CheckpointTypes == Spec => []TypeOK
<1>1. IInv => TypeOK
  BY DEF IInv
<1> QED
  BY <1>1, InductiveInvariant, PTL

\* "Checkpoints keys must be increasing", for arrays of any length.
THEOREM OrderKept == Spec => []KeysIncrease
<1>1. IInv => KeysIncrease
  BY DEF IInv
<1> QED
  BY <1>1, InductiveInvariant, PTL

\* The plain and the optimised lookups return what their comments promise,
\* and an answer about a past block is never contradicted later.
THEOREM LookupsAreRight == Spec => []AnswersAreRight
<1>1. IInv => AnswersAreRight
  BY DEF IInv
<1> QED
  BY <1>1, InductiveInvariant, PTL

\* The unchecked array access stays inside the array in every iteration.
THEOREM AccessIsSafe == Spec => []SearchesStayInside
<1>1. IInv => SearchesStayInside
  <2> SUFFICES ASSUME IInv PROVE SearchesStayInside
    OBVIOUS
  <2>1. pc = "doubling" => offset \div 2 <= length
    <3> SUFFICES ASSUME pc = "doubling" PROVE offset \div 2 <= length
      OBVIOUS
    <3>1. length \in Nat
      BY LengthType DEF IInv
    <3>2. offset = 1 \/ \E half \in 1 .. length : offset = 2 * half
      BY DEF IInv, Searching
    <3>3. ASSUME NEW half \in 1 .. length, offset = 2 * half
          PROVE  offset \div 2 <= length
      BY <3>1, <3>3
    <3>4. CASE offset = 1
      BY <3>1, <3>4
    <3> QED
      BY <3>2, <3>3, <3>4
  <2> QED
    BY <2>1 DEF IInv, Searching, SearchesStayInside
<1> QED
  BY <1>1, InductiveInvariant, PTL

\* A push rewrites no value that could be looked up before its key.
THEOREM NothingRewritten == Spec => PushesRewriteNothing
<1> DEFINE Pushed(k, v) ==
              /\ history = "History" => k = block
              /\ \A i \in 1 .. length : checkpoints[i].key <= k
              /\ \A key \in Key, w \in Value :
                    IsValueUpTo(w, key)' <=>
                       IF key < k THEN IsValueUpTo(w, key) ELSE w = v
<1>1. ASSUME IInv, NEW k \in Key, NEW v \in Value, insert(k, v),
             history = "History" => k = block
      PROVE  Pushed(k, v)
  <2>1. TypeOK /\ KeysIncrease
    BY <1>1 DEF IInv
  <2>2. \A i \in 1 .. length : checkpoints[i].key <= k
    BY <1>1, <2>1, InsertEffect
  <2>3. ASSUME NEW key \in Key, NEW w \in Value
        PROVE  IsValueUpTo(w, key)' <=>
                  IF key < k THEN IsValueUpTo(w, key) ELSE w = v
    BY <1>1, <2>1, InsertSetsTheFuture
  <2> QED
    BY <1>1, <2>2, <2>3
<1>2. ASSUME IInv, [Next]_vars
      PROVE  UNCHANGED checkpoints \/ \E k \in Key, v \in Value : Pushed(k, v)
  <2>1. ASSUME NEW value, push(value)
        PROVE  \E k \in Key, v \in Value : Pushed(k, v)
    <3>1. block \in Key /\ value \in Value /\ insert(block, value)
      BY <2>1 DEF push
    <3>2. Pushed(block, value)
      BY <1>1, <1>2, <3>1
    <3> QED
      BY <3>1, <3>2
  <2>2. ASSUME NEW key \in Key, NEW value \in Value, pushTrace(key, value)
        PROVE  \E k \in Key, v \in Value : Pushed(k, v)
    <3>1. insert(key, value) /\ history = "Trace"
      BY <2>2 DEF pushTrace
    <3>2. Pushed(key, value)
      BY <1>1, <1>2, <3>1
    <3> QED
      BY <3>2
  <2>3. CASE \/ Mine \/ Loop \/ UNCHANGED vars
             \/ \E key \in Key : lowerLookup(key) \/ upperLookup(key) \/ upperLookupRecent(key)
             \/ \E b \in Block : getAtBlock(b) \/ getAtRecentBlock(b)
    BY <2>3 DEF Mine, Loop, vars, lowerLookup, upperLookup, upperLookupRecent,
       getAtBlock, getAtRecentBlock, Begin, Double, upperBinaryLookup,
       lowerBinaryLookup, Halve, Return
  <2> QED
    BY <1>2, <2>1, <2>2, <2>3 DEF Next, pushAdd, pushSubtract
<1>3. ASSUME IInv, [Next]_vars
      PROVE  [ \/ UNCHANGED checkpoints
               \/ \E k \in Key, v \in Value :
                     /\ history = "History" => k = block
                     /\ \A i \in 1 .. length : checkpoints[i].key <= k
                     /\ \A key \in Key, w \in Value :
                           IsValueUpTo(w, key)' <=>
                              IF key < k THEN IsValueUpTo(w, key) ELSE w = v ]_vars
  BY <1>2, <1>3
<1> QED
  BY <1>3, InductiveInvariant, PTL DEF Spec, PushesRewriteNothing

-------------------------------------------------------------------------------
(* What is left of the searches: the part of LookupsReturn that is safety. *)

\* What a search has left to do: the doubling search leaves the binary search
\* of at most the whole array to do, and only an offset within it is doubled.
Remaining ==
    CASE pc = "ready" -> 0
      [] pc = "doubling" ->
            IF offset <= length THEN 2 * length + 3 - offset ELSE length + 2
      [] OTHER -> high - low + 1

LEMMA RemainingType ==
    ASSUME IInv
    PROVE  Remaining \in Nat
<1>1. length \in Nat /\ offset \in Nat /\ low \in Nat /\ high \in Nat
  BY LengthType DEF IInv, TypeOK
<1>2. CASE pc = "ready" \/ pc = "doubling"
  BY <1>1, <1>2 DEF Remaining
<1>3. CASE pc \in {"upperBinaryLookup", "lowerBinaryLookup"}
  <2>1. low <= high
    BY <1>3 DEF IInv, Searching
  <2> QED
    BY <1>1, <1>3, <2>1 DEF Remaining
<1> QED
  BY <1>2, <1>3 DEF IInv, TypeOK

LEMMA DoubleShrinks ==
    ASSUME IInv, Double
    PROVE  /\ Remaining' < Remaining
           /\ pc' = pc => offset' = 2 * offset
<1>1. /\ pc = "doubling" /\ UNCHANGED length
      /\ length \in Nat /\ offset \in Nat /\ offset >= 1
  <2>1. length \in Nat /\ offset \in Nat /\ pc = "doubling"
    BY LengthType DEF IInv, TypeOK, Double
  <2>2. offset >= 1
    BY <2>1 DEF IInv, Searching
  <2> QED
    BY <2>1, <2>2 DEF Double, length
<1>2. CASE offset <= length /\ unsafeAccess(length - offset).key > call.key
  <2>1. pc' = "doubling" /\ offset' = 2 * offset
    BY <1>1, <1>2 DEF Double
  <2> QED
    BY <1>1, <1>2, <2>1 DEF Remaining
<1>3. CASE ~ (offset <= length /\ unsafeAccess(length - offset).key > call.key)
  <2>1. /\ pc' = "upperBinaryLookup"
        /\ low' = IF offset < length THEN length - offset ELSE 0
        /\ high' = length - offset \div 2
    BY <1>1, <1>3 DEF Double
  <2>2. offset \div 2 \in Nat
    BY <1>1
  <2>3. high' - low' <= length
    BY <1>1, <2>1, <2>2
  <2>4. Remaining' = high' - low' + 1
    BY <2>1 DEF Remaining
  <2>5. Remaining >= length + 2
    BY <1>1 DEF Remaining
  <2>6. Remaining \in Int /\ high' - low' \in Int
    BY <1>1, <2>1, <2>2, RemainingType
  <2> QED
    BY <1>1, <2>1, <2>3, <2>4, <2>5, <2>6
<1> QED
  BY <1>2, <1>3

LEMMA HalveShrinks ==
    ASSUME IInv, NEW goRight, Halve(goRight),
           pc \in {"upperBinaryLookup", "lowerBinaryLookup"}
    PROVE  /\ Remaining' < Remaining
           /\ 2 * (high' - low') <= high - low
<1>1. /\ low \in Nat /\ high \in Nat /\ low < high
      /\ pc' = pc
  BY DEF IInv, TypeOK, Halve
<1>2. PICK mid \in Nat : mid = average(low, high)
  BY <1>1, Average
<1>3. low <= mid /\ mid < high /\ 2 * mid <= low + high /\ low + high <= 2 * mid + 1
  BY <1>1, <1>2 DEF average
<1>4. \/ low' = mid + 1 /\ high' = high
      \/ high' = mid /\ low' = low
  BY <1>2 DEF Halve
<1>5. Remaining = high - low + 1 /\ Remaining' = high' - low' + 1
  BY <1>1 DEF Remaining
<1> QED
  BY <1>1, <1>2, <1>3, <1>4, <1>5

LEMMA ReturnShrinks ==
    ASSUME IInv, NEW value, Return(value),
           pc \in {"upperBinaryLookup", "lowerBinaryLookup"}
    PROVE  Remaining' < Remaining /\ pc' # pc
<1>1. pc' = "ready" /\ Remaining' = 0
  BY DEF Return, Remaining
<1>2. Remaining = high - low + 1 /\ low <= high /\ low \in Nat /\ high \in Nat
  BY DEF Remaining, IInv, TypeOK, Searching
<1> QED
  BY <1>1, <1>2

LEMMA LookupShrinks ==
    ASSUME IInv, upperBinaryLookup \/ lowerBinaryLookup
    PROVE  /\ Remaining' < Remaining
           /\ pc' = pc => 2 * (high' - low') <= high - low
<1>1. CASE upperBinaryLookup /\ low < high
  <2>1. Halve(unsafeAccess(average(low, high)).key <= call.key)
        /\ pc = "upperBinaryLookup"
    BY <1>1 DEF upperBinaryLookup
  <2> QED
    BY <2>1, HalveShrinks
<1>2. CASE upperBinaryLookup /\ ~ (low < high)
  <2>1. Return(IF high = 0 THEN 0 ELSE unsafeAccess(high - 1).value)
        /\ pc = "upperBinaryLookup"
    BY <1>2 DEF upperBinaryLookup
  <2> QED
    BY <2>1, ReturnShrinks
<1>3. CASE lowerBinaryLookup /\ low < high
  <2>1. Halve(unsafeAccess(average(low, high)).key < call.key)
        /\ pc = "lowerBinaryLookup"
    BY <1>3 DEF lowerBinaryLookup
  <2> QED
    BY <2>1, HalveShrinks
<1>4. CASE lowerBinaryLookup /\ ~ (low < high)
  <2>1. Return(IF high = length THEN 0 ELSE unsafeAccess(high).value)
        /\ pc = "lowerBinaryLookup"
    BY <1>4 DEF lowerBinaryLookup
  <2> QED
    BY <2>1, ReturnShrinks
<1> QED
  BY <1>1, <1>2, <1>3, <1>4

\* One iteration: the loop goes on, with half of what it had, or ends.
Iterates ==
    /\ Remaining' < Remaining
    /\ UNCHANGED <<history, block, checkpoints>>
    /\ \/ pc' # pc
       \/ 2 * (high' - low') <= high - low
       \/ pc = "doubling" /\ offset' = 2 * offset

\* Every iteration of a lookup brings it nearer to its end, and nothing else
\* happens before it ends: a binary search leaves at most half of its interval,
\* and the search from the end doubles its offset, so both take a logarithmic
\* number of iterations.  With fairness this is why LookupsReturn holds, in
\* arrays of any length.
THEOREM LookupsShrink ==
    Spec => /\ [](Remaining \in Nat)
            /\ [][pc # "ready" => Iterates]_vars
<1>1. IInv => Remaining \in Nat
  BY RemainingType
<1>2. ASSUME IInv, Next, pc # "ready"
      PROVE  Iterates
  <2>1. Loop
    BY <1>2 DEF Next, Mine, push, pushAdd, pushSubtract, pushTrace, lowerLookup,
       upperLookup, upperLookupRecent, getAtBlock, getAtRecentBlock, Begin
  <2>2. UNCHANGED <<history, block, checkpoints>>
    BY <2>1 DEF Loop, Double, upperBinaryLookup, lowerBinaryLookup, Halve, Return
  <2>3. CASE Double
    BY <1>2, <2>2, <2>3, DoubleShrinks DEF Double, Iterates
  <2>4. CASE upperBinaryLookup \/ lowerBinaryLookup
    <3>1. IInv
      BY <1>2
    <3>2. /\ Remaining' < Remaining
          /\ pc' = pc => 2 * (high' - low') <= high - low
      BY <2>4, <3>1, LookupShrinks
    <3> QED
      BY <2>2, <3>2 DEF Iterates
  <2> QED
    BY <2>1, <2>3, <2>4 DEF Loop
<1>3. IInv /\ [Next]_vars =>
        [pc # "ready" => Iterates]_vars
  BY <1>2
<1> QED
  BY <1>1, <1>3, InductiveInvariant, PTL DEF Spec
===============================================================================
