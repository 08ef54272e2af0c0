---------------------------- MODULE MCBitmaskBingo ----------------------------
(* Constants under which TLC checks BitmaskBingo.                          *)
EXTENDS EscrowRefinement, TLC

CONSTANTS alice, bob, admin, contract

\* The decimal literals of the masks have their 1 bits where the rows, columns
\* and diagonals of the grid are, and winningBingoMasks are those.
BitsOf(n) == {i \in 0 .. 30 : (n \div 2^i) % 2 = 1}

ASSUME MasksAreLines ==
    /\ winningBingoMasks = {BitsOf(n) : n \in winningBingoMaskLiterals}
    /\ winningBingoMasks =
          {{5 * row + column : column \in 0 .. 4} : row \in 0 .. 4}
          \cup {{5 * row + column : row \in 0 .. 4} : column \in 0 .. 4}
          \cup {{6 * k : k \in 0 .. 4}, {4 * k : k \in 1 .. 5}}

MCPlayer == {alice, bob}
MCAddress == {alice, bob, admin, contract}

\* Two cards that complete a line with the numbers 1 to 4: "row" the middle
\* row, "column" the middle column, where 1 and 2 also stand on later tiles.
\* Number 200 is never drawn.
MCCardWords == {"empty", "row", "column"}
MCCardNumbers ==
    "empty" :> [i \in Tiles |-> 0]
    @@ "row" :> [i \in Tiles |-> CASE i = 10 -> 1 [] i = 11 -> 2
                                   [] i = 13 -> 3 [] i = 14 -> 4
                                   [] OTHER -> 200]
    @@ "column" :> [i \in Tiles |-> CASE i \in {2, 20} -> 1 [] i \in {7, 23} -> 2
                                      [] i = 17 -> 3 [] i = 22 -> 4
                                      [] OTHER -> 200]

Pair(c, n) == [card |-> c, number |-> n]

\* Both players hold fees and have approved the contract.
MCBalances == [a \in MCAddress |-> IF a \in MCPlayer THEN 2 ELSE 0]
MCAllowances == [a \in MCAddress |-> [b \in MCAddress |->
                    IF a \in MCPlayer /\ b = contract THEN 3 ELSE 0]]

MCNone == {}
MCOne == {1}
MCTimeSteps == {3}

\* play: one game from its creation to the prize.  Cards are dealt in the
\* first two blocks, the third falls on the deadline, where nobody can join or
\* draw, and the later ones draw 1 to 4 in any order.
MCPlayGames == {<<1, alice>>}
MCPlayOutcomes == [b \in 1 .. 7 |->
    CASE b <= 2 -> {Pair("row", 1), Pair("column", 1)}
      [] b = 3 -> {Pair("row", 1)}
      [] OTHER -> {Pair("row", n) : n \in 1 .. 4}]

\* concurrent: two games at a time, with a fee that goes up and a token that
\* was sent to the contract by mistake.  Blocks 2 to 5 draw 1 to 4.
MCConcurrentGames == {<<1, alice>>, <<1, bob>>}
MCConcurrentOutcomes == [b \in 1 .. 5 |-> {Pair("row", b - 1)}]
MCConcurrentBalances ==
    [a \in MCAddress |-> CASE a = alice -> 2 [] a = bob -> 1 [] a = contract -> 1
                           [] OTHER -> 0]
MCConcurrentFees == {2}

\* fees: games are created and joined while alice moves tokens and grants and
\* withdraws the unlimited allowance, and the fee changes.  The two players
\* hold the whole supply, type(uint64).max.
MCFeesAddress == {alice, bob, contract}
MCFeesBalances == [a \in MCFeesAddress |-> IF a \in MCPlayer THEN 2 ELSE 0]
MCFeesAllowances == [a \in MCFeesAddress |-> [b \in MCFeesAddress |->
                        IF a \in MCPlayer /\ b = contract THEN 3 ELSE 0]]
MCFeesGames == {<<1, alice>>, <<1, bob>>, <<2, alice>>}
MCFeesOutcomes == [b \in 1 .. 2 |-> {Pair("row", 1)}]
MCFees == {0, 1, 2, 40}
MCAlice == {alice}
MCUnlimited == {63}

\* settings: one game while the owner changes both durations, the longest of
\* which makes the deadlines overflow.  Blocks 2 to 5 draw 1 to 4, so that the
\* sixth can follow the end of the game; cards alternate from block to block.
MCSettingsOutcomes == [b \in 1 .. 6 |->
    {Pair(IF b % 2 = 1 THEN "row" ELSE "column", ((b + 2) % 4) + 1)}]
MCJoinDurations == {2, 20, 63}
MCTurnDurations == {1, 63}
===============================================================================
