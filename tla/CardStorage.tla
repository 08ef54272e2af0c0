------------------------------ MODULE CardStorage -----------------------------
(***************************************************************************)
(* One card in storage words: the loop of createBingoCardForPlayer, and    *)
(* markNumberOnCard on the arrays that the getters unpack.  It justifies   *)
(* that GameMechanics reads the words as a function and as a set.          *)
(***************************************************************************)
EXTENDS StorageUtils

CONSTANT Buckets        \* tiles of the card, 25 in the code

\* A card fits the word, and a hit of every tile the hit word: 25 buckets of
\* 8 bits in a uint256, 25 bits in a uint32.
ASSUME CardAssumption ==
    /\ Buckets \in Nat \ {0}
    /\ BucketBits * Buckets <= WordBits
    /\ Buckets <= HitBits

VARIABLES
    updatedCard,        \* BingoCard.numberStorage
    i,                  \* the loop variable
    rands,              \* history: the numbers dealt so far
    hitStorage,         \* BingoCard.hitStorage
    marked              \* history: the numbers marked

cardVars == <<updatedCard, i, rands, hitStorage, marked>>

Tile == 0 .. Buckets - 1

\* The tile in the middle: 4096 = 1 << 12 on a card of 25.
FreeBit == Buckets \div 2

\* Wrong form: a rand of all bits of a bucket and one more.
AllRands == 0 .. 2^BucketBits

\* keccak256(...) % 255.
Rands == 0 .. 2^BucketBits - 2

\* lastDrawnNumber is a hash % 256.
Targets == 0 .. 2^BucketBits - 1

Init ==
    /\ updatedCard = 0
    /\ i = 0
    /\ rands = [t \in Tile |-> 0]
    /\ hitStorage = ShiftLeft(1, FreeBit, HitBits)
    /\ marked = {}

dealTile(rand) ==
    /\ i < Buckets
    /\ ~ setBucketReverts(updatedCard, i, rand)
    /\ updatedCard' = setBucketValueByIndex(updatedCard, i, rand)
    /\ rands' = [rands EXCEPT ![i] = rand]
    /\ i' = i + 1
    /\ UNCHANGED <<hitStorage, marked>>

getNumbersArrayForCard ==
    [t \in Tile |-> getBucketValueByIndex(updatedCard, t)]

getHitsArrayForCard ==
    [t \in Tile |-> getBitValueByIndex(hitStorage, t)]

playerHasNumber(playerNumbers, target, location) ==
    /\ playerNumbers[location] = target
    /\ \A t \in Tile : t < location => playerNumbers[t] # target

markNumberOnCard(target) ==
    /\ i = Buckets
    /\ \E location \in Tile :
          /\ playerHasNumber(getNumbersArrayForCard, target, location)
          /\ hitStorage' = setBitValueByIndex(hitStorage, location)
    /\ marked' = marked \cup {target}
    /\ UNCHANGED <<updatedCard, i, rands>>

Next ==
    \/ \E rand \in Rands : dealTile(rand)
    \/ \E target \in Targets : markNumberOnCard(target)

Spec == Init /\ [][Next]_cardVars

-------------------------------------------------------------------------------

\* Adding to a bucket is as good as setting it, as each bucket is added to
\* once and a rand fits its bucket: nothing carries into the next one, the
\* array getter gives back the numbers that were dealt, and the bits of the
\* tiles not yet dealt, and above the card, are 0.
CardHoldsNumbers ==
    /\ getNumbersArrayForCard = [t \in Tile |-> IF t < i THEN rands[t] ELSE 0]
    /\ ShiftRight(updatedCard, BucketBits * Buckets) = 0

\* The checked addition never makes createGame or joinGame revert.
DealNeverReverts ==
    i < Buckets =>
        \A rand \in Rands : ~ setBucketReverts(updatedCard, i, rand)

\* After any sequence of marks, repeated ones too, the hit array has a 1 on
\* the free tile and on the first tile of every number marked, and no other.
HitsAreMarks ==
    getHitsArrayForCard = [t \in Tile |->
        IF t = FreeBit \/ (rands[t] \in marked /\
                           \A u \in Tile : u < t => rands[u] # rands[t])
        THEN 1 ELSE 0]

-------------------------------------------------------------------------------
(* The card that the words stand for, as GameMechanics reads them.         *)

hitTiles == {t \in Tile : getHitsArrayForCard[t] = 1}

Card == INSTANCE AbstractCard WITH
    Tiles <- Tile, FreeTile <- FreeBit, Dealt <- Rands, Drawn <- Targets,
    next <- i, numbers <- getNumbersArrayForCard, hits <- hitTiles

\* Dealing and marking on the words is dealing and marking on a card of tiles:
\* a tile dealt changes no other number and no hit, a mark changes no number
\* and hits the one tile, whatever was dealt and marked before.
ImplementsCard == Card!Spec
===============================================================================
