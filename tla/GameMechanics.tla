---------------------------- MODULE GameMechanics -----------------------------
(***************************************************************************)
(* The pure rules of the game: src/GameMechanics.sol, with the bit words   *)
(* of src/utils/StorageUtils.sol read as the sets and functions they       *)
(* encode.  A hit word (uint32) is the set of tiles whose bit is 1; a card *)
(* word (uint256) is an abstract value of CardWords, whose 25 buckets are  *)
(* given by CardNumbers.                                                   *)
(***************************************************************************)
EXTENDS Integers

CONSTANTS
    CardWords,      \* the card words in play
    EmptyWord,      \* the word 0 that the registry holds before any deal
    CardNumbers     \* CardNumbers[c][i]: bucket i of card word c

\* The bit and bucket positions of the 5 by 5 grid, bottom right first.
Tiles == 0 .. 24

\* The tile that every card starts with: bit 12 of the literal 4096.
FreeTile == 12

\* Numbers on cards are hashes % 255, numbers drawn are hashes % 256.
CardRange == 0 .. 254
DrawRange == 0 .. 255

ASSUME CardAssumption ==
    /\ EmptyWord \in CardWords
    /\ CardNumbers \in [CardWords -> [Tiles -> CardRange]]
    /\ \A c \in CardWords :
          c = EmptyWord <=> CardNumbers[c] = [i \in Tiles |-> 0]

\* The 12 masks x0..x4, y0..y4, d0, d1, each as the set of its 1 bits.
winningBingoMasks ==
    { {0, 5, 10, 15, 20}, {1, 6, 11, 16, 21}, {2, 7, 12, 17, 22},
      {3, 8, 13, 18, 23}, {4, 9, 14, 19, 24},
      {0, 1, 2, 3, 4}, {5, 6, 7, 8, 9}, {10, 11, 12, 13, 14},
      {15, 16, 17, 18, 19}, {20, 21, 22, 23, 24},
      {0, 6, 12, 18, 24}, {4, 8, 12, 16, 20} }

\* The same masks as they stand in the code, for TLC to compare.
winningBingoMaskLiterals ==
    { 1082401, 2164802, 4329604, 8659208, 17318416, 31, 992, 31744, 1015808,
      32505856, 17043521, 1118480 }

\* (hits & mask) == mask for one of the masks.
checkForBingo(hits) == \E mask \in winningBingoMasks : mask \subseteq hits

\* playerHasNumber returns (true, location): the scan stops at the first
\* tile that bears the number, a later tile with the same number is not seen.
playerHasNumber(card, target, location) ==
    /\ CardNumbers[card][location] = target
    /\ \A i \in Tiles : i < location => CardNumbers[card][i] # target
===============================================================================
