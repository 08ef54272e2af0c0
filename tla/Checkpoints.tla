------------------------------ MODULE Checkpoints ------------------------------
(***************************************************************************)
(* The library that scripts/generate/templates/Checkpoints.js generates,   *)
(* driven by the contracts that CheckpointsMock.js generates: an array of  *)
(* (key, value) pairs that only grows at its end, and the searches in it.  *)
(* A search is modelled iteration by iteration; no transaction runs        *)
(* between two iterations of one.                                          *)
(***************************************************************************)
EXTENDS Integers, Sequences

CONSTANTS
    MaxKey,     \* of keyTypeName: 2^32 - 1, or 2^96 - 1 for Trace160
    MaxValue,   \* of valueTypeName: 2^224 - 1, or 2^160 - 1 for Trace160
    MaxBlock    \* bound on block.number

ASSUME KeyAssumption == MaxKey \in Nat
ASSUME ValueAssumption == MaxValue \in Nat
ASSUME BlockAssumption == MaxBlock \in Nat

VARIABLES
    history,        \* historyTypeName: the legacy History, or a Trace
    block,          \* block.number
    checkpoints,    \* _checkpoints
    pc,             \* the loop that runs: "ready" if none does
    call,           \* the last lookup, its function and search key
    offset, low, high,  \* its local variables, 0 when they are not in use
    answer          \* what the last lookup returned

search == <<pc, call, offset, low, high, answer>>
vars == <<history, block, checkpoints, search>>

Key == 0 .. MaxKey
Value == 0 .. MaxValue
Checkpoint == [key : Key, value : Value]
Block == 0 .. MaxBlock

NoCall == [fn |-> "none", key |-> 0]

-------------------------------------------------------------------------------
(* The helpers.  Positions are those of the code, from 0; past the end of  *)
(* the array unsafeAccess finds an empty slot.                             *)

length == Len(checkpoints)

unsafeAccess(pos) ==
    IF pos < length THEN checkpoints[pos + 1] ELSE [key |-> 0, value |-> 0]

average(a, b) == (a + b) \div 2

latest == IF length = 0 THEN 0 ELSE unsafeAccess(length - 1).value

\* Wrong form: the order of the keys is not required.
insertAnywhere(key, value) ==
    checkpoints' = IF length > 0 /\ unsafeAccess(length - 1).key = key
                   THEN [checkpoints EXCEPT ![length].value = value]
                   ELSE Append(checkpoints, [key |-> key, value |-> value])

\* Wrong form: the newest checkpoint is overwritten, whatever its key.
insertInPlace(key, value) ==
    /\ length > 0 => unsafeAccess(length - 1).key <= key
    /\ checkpoints' = IF length > 0
                      THEN [checkpoints EXCEPT ![length].value = value]
                      ELSE Append(checkpoints, [key |-> key, value |-> value])

insert(key, value) ==
    /\ length > 0 => unsafeAccess(length - 1).key <= key
    /\ checkpoints' = IF length > 0 /\ unsafeAccess(length - 1).key = key
                      THEN [checkpoints EXCEPT ![length].value = value]
                      ELSE Append(checkpoints, [key |-> key, value |-> value])

-------------------------------------------------------------------------------
(* Transactions.  One that reverts changes nothing and is not a step.      *)

Init ==
    /\ history \in {"History", "Trace"}
    /\ block = 0
    /\ checkpoints = << >>
    /\ pc = "ready" /\ call = NoCall
    /\ offset = 0 /\ low = 0 /\ high = 0
    /\ answer = 0

\* A Trace does not look at the block: its time stands still.
Mine ==
    /\ history = "History" /\ pc = "ready"
    /\ block < MaxBlock
    /\ block' = block + 1
    /\ UNCHANGED <<history, checkpoints, search>>

\* Wrong form: a value that does not fit is stored all the same.
pushUnchecked(value) ==
    /\ history = "History" /\ pc = "ready"
    /\ block \in Key /\ value \in Nat
    /\ insert(block, value)
    /\ UNCHANGED <<history, block, search>>

\* SafeCast.toUint32 and toUint224 revert on what does not fit.
push(value) ==
    /\ history = "History" /\ pc = "ready"
    /\ block \in Key /\ value \in Value
    /\ insert(block, value)
    /\ UNCHANGED <<history, block, search>>

\* op is _add or _subtract in Votes.sol.
pushAdd(delta) == push(latest + delta)
pushSubtract(delta) == push(latest - delta)

pushTrace(key, value) ==
    /\ history = "Trace" /\ pc = "ready"
    /\ insert(key, value)
    /\ call' = NoCall
    /\ UNCHANGED <<history, block, pc, offset, low, high, answer>>

Begin(loop, fn, key) ==
    /\ pc = "ready"
    /\ pc' = loop
    /\ call' = [fn |-> fn, key |-> key]
    /\ UNCHANGED <<history, block, checkpoints, answer>>

\* The search of the whole array.
WholeArray == high' = length /\ UNCHANGED <<low, offset>>

lowerLookup(key) ==
    /\ history = "Trace"
    /\ Begin("lowerBinaryLookup", "lowerLookup", key)
    /\ WholeArray

upperLookup(key) ==
    /\ history = "Trace"
    /\ Begin("upperBinaryLookup", "upperLookup", key)
    /\ WholeArray

upperLookupRecent(key) ==
    /\ history = "Trace"
    /\ Begin("doubling", "upperLookupRecent", key)
    /\ offset' = 1 /\ UNCHANGED <<low, high>>

\* Wrong form: the block that is being mined can be looked up.
getAtBlockNow(blockNumber) ==
    /\ history = "History"
    /\ blockNumber <= block /\ blockNumber \in Key
    /\ Begin("upperBinaryLookup", "getAtBlock", blockNumber)
    /\ WholeArray

getAtBlock(blockNumber) ==
    /\ history = "History"
    /\ blockNumber < block /\ blockNumber \in Key
    /\ Begin("upperBinaryLookup", "getAtBlock", blockNumber)
    /\ WholeArray

getAtRecentBlock(blockNumber) ==
    /\ history = "History"
    /\ blockNumber < block /\ blockNumber \in Key
    /\ Begin("doubling", "getAtRecentBlock", blockNumber)
    /\ offset' = 1 /\ UNCHANGED <<low, high>>

-------------------------------------------------------------------------------
(* The loops, one iteration a step.                                        *)

\* Wrong form: the position below the last one probed is left out.
DoubleTooFar ==
    /\ pc = "doubling"
    /\ IF offset <= length /\ unsafeAccess(length - offset).key > call.key
       THEN offset' = 2 * offset /\ UNCHANGED <<pc, low, high>>
       ELSE /\ low' = IF offset < length THEN length - offset ELSE 0
            /\ high' = length - offset
            /\ pc' = "upperBinaryLookup"
            /\ offset' = 0
    /\ UNCHANGED <<history, block, checkpoints, call, answer>>

\* The loop of upperLookupRecent and getAtRecentBlock.
Double ==
    /\ pc = "doubling"
    /\ IF offset <= length /\ unsafeAccess(length - offset).key > call.key
       THEN offset' = 2 * offset /\ UNCHANGED <<pc, low, high>>
       ELSE /\ low' = IF offset < length THEN length - offset ELSE 0
            /\ high' = length - offset \div 2
            /\ pc' = "upperBinaryLookup"
            /\ offset' = 0
    /\ UNCHANGED <<history, block, checkpoints, call, answer>>

\* Halve the interval: keep the part from mid on if goRight.
Halve(goRight) ==
    LET mid == average(low, high)
    IN  /\ low < high
        /\ IF goRight THEN low' = mid + 1 /\ UNCHANGED high
                      ELSE high' = mid /\ UNCHANGED low
        /\ UNCHANGED <<history, block, checkpoints, pc, call, offset, answer>>

\* The local variables end with the call.
Return(value) ==
    /\ pc' = "ready"
    /\ answer' = value
    /\ offset' = 0 /\ low' = 0 /\ high' = 0
    /\ UNCHANGED <<history, block, checkpoints, call>>

\* Wrong form: mid stays in the interval.
upperBinaryLookupStuck ==
    /\ pc = "upperBinaryLookup"
    /\ IF low < high
       THEN LET mid == average(low, high)
            IN  /\ IF unsafeAccess(mid).key > call.key
                   THEN high' = mid /\ UNCHANGED low
                   ELSE low' = mid /\ UNCHANGED high
                /\ UNCHANGED <<history, block, checkpoints, pc, call, offset, answer>>
       ELSE Return(IF high = 0 THEN 0 ELSE unsafeAccess(high - 1).value)

upperBinaryLookup ==
    /\ pc = "upperBinaryLookup"
    /\ IF low < high
       THEN Halve(unsafeAccess(average(low, high)).key <= call.key)
       ELSE Return(IF high = 0 THEN 0 ELSE unsafeAccess(high - 1).value)

\* Wrong form: a key equal to the search key is passed over.
lowerBinaryLookupAfter ==
    /\ pc = "lowerBinaryLookup"
    /\ IF low < high
       THEN Halve(unsafeAccess(average(low, high)).key <= call.key)
       ELSE Return(IF high = length THEN 0 ELSE unsafeAccess(high).value)

lowerBinaryLookup ==
    /\ pc = "lowerBinaryLookup"
    /\ IF low < high
       THEN Halve(unsafeAccess(average(low, high)).key < call.key)
       ELSE Return(IF high = length THEN 0 ELSE unsafeAccess(high).value)

Loop == Double \/ upperBinaryLookup \/ lowerBinaryLookup

Next ==
    \/ Mine
    \/ \E value \in Value : push(value) \/ pushAdd(value) \/ pushSubtract(value)
    \/ \E key \in Key : \/ \E value \in Value : pushTrace(key, value)
                        \/ lowerLookup(key)
                        \/ upperLookup(key)
                        \/ upperLookupRecent(key)
    \/ \E blockNumber \in Block : getAtBlock(blockNumber) \/ getAtRecentBlock(blockNumber)
    \/ Loop

Spec == Init /\ [][Next]_vars

\* A call that has started runs to its end.
FairSpec == Spec /\ WF_vars(Loop)

-------------------------------------------------------------------------------

\* value is the one of the newest checkpoint with a key up to key, 0 if none.
IsValueUpTo(value, key) ==
    \/ value = 0 /\ \A i \in 1 .. length : checkpoints[i].key > key
    \/ \E i \in 1 .. length :
          /\ checkpoints[i].key <= key /\ checkpoints[i].value = value
          /\ \A j \in i + 1 .. length : checkpoints[j].key > key

\* value is the one of the oldest checkpoint with a key from key on, 0 if none.
IsValueFrom(value, key) ==
    \/ value = 0 /\ \A i \in 1 .. length : checkpoints[i].key < key
    \/ \E i \in 1 .. length :
          /\ checkpoints[i].key >= key /\ checkpoints[i].value = value
          /\ \A j \in 1 .. i - 1 : checkpoints[j].key < key

\* Type invariant: keys and values fit the struct's types, although block
\* numbers and values are narrowed on the way in.
TypeOK ==
    /\ history \in {"History", "Trace"}
    /\ block \in Block
    /\ checkpoints \in Seq(Checkpoint)
    /\ pc \in {"ready", "doubling", "upperBinaryLookup", "lowerBinaryLookup"}
    /\ call \in [fn : {"none", "lowerLookup", "upperLookup", "upperLookupRecent",
                       "getAtBlock", "getAtRecentBlock"}, key : Key]
    /\ offset \in Nat /\ low \in Nat /\ high \in Nat
    /\ answer \in Value

\* "Checkpoints keys must be increasing": in a History because blocks are, in
\* a Trace because push requires it.  The binary searches rest on this.
KeysIncrease ==
    \A i, j \in 1 .. length : i < j => checkpoints[i].key < checkpoints[j].key

\* Every lookup that has returned gave the value its comment promises; the
\* optimised ones gave the same as the plain ones.  An answer about a past
\* block stays right while the History grows.
AnswersAreRight ==
    pc = "ready" =>
        /\ call.fn \in {"upperLookup", "upperLookupRecent",
                        "getAtBlock", "getAtRecentBlock"} => IsValueUpTo(answer, call.key)
        /\ call.fn = "lowerLookup" => IsValueFrom(answer, call.key)

\* No search reads past the end of the array, where unsafeAccess does not check.
SearchesStayInside ==
    /\ pc \in {"upperBinaryLookup", "lowerBinaryLookup"} => low <= high /\ high <= length
    /\ pc = "doubling" => offset \div 2 <= length

\* A push, at the current block in a History, changes no value looked up
\* before its key, and gives its value to every key from its own on.
PushesRewriteNothing ==
    [][ \/ UNCHANGED checkpoints
        \/ \E k \in Key, v \in Value :
              /\ history = "History" => k = block
              /\ \A i \in 1 .. length : checkpoints[i].key <= k
              /\ \A key \in Key, w \in Value :
                    IsValueUpTo(w, key)' <=>
                       IF key < k THEN IsValueUpTo(w, key) ELSE w = v ]_vars

\* Every lookup returns: each iteration shrinks the interval that is left.
LookupsReturn == pc # "ready" ~> pc = "ready"
===============================================================================
