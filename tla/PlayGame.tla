------------------------------- MODULE PlayGame -------------------------------
(***************************************************************************)
(* Two players play one game to its end: the loop of                       *)
(* test_playGame_asTwoPlayers in test/BitmaskBingo.t.sol, over the rules   *)
(* of the card.  The deadlines of BitmaskBingo are left out: the loop      *)
(* warps 65 minutes before the first draw, 7 between draws, so that a draw *)
(* is never refused.  So is its limit of 500 rounds: the question here is  *)
(* whether a game ends at all.                                             *)
(*                                                                         *)
(* A draw is a hash % 256.  "Every number comes up again and again" stands *)
(* for the hash being as good as random: SF of every single draw.          *)
(***************************************************************************)
EXTENDS GameMechanics

CONSTANTS
    playerOne, playerTwo,
    CardsInPlay,        \* bound: the cards the players may be dealt
    Numbers             \* bound: the numbers that are drawn

ASSUME PlayAssumption ==
    /\ playerOne # playerTwo
    /\ CardsInPlay \subseteq CardWords
    /\ Numbers \subseteq DrawRange

VARIABLES
    pc,             \* the statement the test is at
    cards,          \* BingoCard.numberStorage of both players
    hits,           \* BingoCard.hitStorage of both players
    latest,         \* Game.lastDrawnNumber
    winner          \* the test's winner

playVars == <<pc, cards, hits, latest, winner>>

Players == {playerOne, playerTwo}
Nobody == "nobody"
NotDrawn == 999

Init ==
    /\ pc = "draw"
    /\ cards \in [Players -> CardsInPlay]
    /\ hits = [p \in Players |-> {FreeTile}]
    /\ latest = NotDrawn
    /\ winner = Nobody

\* playerToDraw calls drawNumber; the players' cards do not depend on who drew.
drawNumber(number) ==
    /\ pc = "draw"
    /\ latest' = number
    /\ pc' = "playerOne"
    /\ UNCHANGED <<cards, hits, winner>>

\* Where the loop goes when p has not won: player two's turn, or the next draw.
AfterMark(p) == IF p = playerOne THEN "playerTwo" ELSE "draw"

\* Wrong form: every tile that bears the number is hit.
HitsEverywhere(p) ==
    hits[p] \cup {t \in Tiles : CardNumbers[cards[p]][t] = latest}

\* Wrong form: the hit replaces the earlier ones, and leaves the free tile.
LatestHitOnly(p) ==
    {FreeTile} \cup {t \in Tiles : playerHasNumber(cards[p], latest, t)}

\* markNumberOnCard, which the player calls only if the card bears the number;
\* there is then exactly one location.
HitsAfterMark(p) ==
    hits[p] \cup {t \in Tiles : playerHasNumber(cards[p], latest, t)}

hasNumber(p) == \E t \in Tiles : CardNumbers[cards[p]][t] = latest

\* shouldClaim and checkForWinner of the player who has just marked.
Wins(p) == hasNumber(p) /\ checkForBingo(HitsAfterMark(p))

\* One player's part of a round: mark the number, look for a line.
mark(p) ==
    /\ pc = IF p = playerOne THEN "playerOne" ELSE "playerTwo"
    /\ hits' = [hits EXCEPT ![p] = HitsAfterMark(p)]
    /\ IF Wins(p)
       THEN pc' = "claimPrize" /\ winner' = p
       ELSE pc' = AfterMark(p) /\ winner' = winner
    /\ UNCHANGED <<cards, latest>>

claimPrize ==
    /\ pc = "claimPrize"
    /\ checkForBingo(hits[winner])
    /\ latest' = 1000
    /\ pc' = "over"
    /\ UNCHANGED <<cards, hits, winner>>

Next ==
    \/ \E number \in Numbers : drawNumber(number)
    \/ \E p \in Players : mark(p)
    \/ claimPrize

\* The test goes on with its next statement, and no number stays away for good.
Fairness ==
    /\ WF_playVars(Next)
    /\ \A number \in Numbers : SF_playVars(drawNumber(number))

Spec == Init /\ [][Next]_playVars /\ Fairness

-------------------------------------------------------------------------------

\* The tiles that can ever be hit: a number that stands on an earlier tile as
\* well, or that is never drawn, leaves its tile blank.
Reachable == [card \in CardWords |->
    {FreeTile} \cup
    {t \in Tiles : \E n \in Numbers : playerHasNumber(card, n, t)}]

Winnable == {card \in CardWords : checkForBingo(Reachable[card])}

\* A card whose every line has a tile hidden behind an earlier tile with the
\* same number cannot win, whatever is drawn: duplicates are not replaced when
\* a card is dealt, and are marked on their first tile only.
HiddenTilesNeverWin ==
    /\ \A p \in Players : hits[p] \subseteq Reachable[cards[p]]
    /\ winner # Nobody => cards[winner] \in Winnable

\* A game with a card that can win is won and paid in the end, whoever draws,
\* although 255 is drawn and stands on no card.
WinnableGamesEnd ==
    (\E p \in Players : cards[p] \in Winnable) ~> (pc = "over")
===============================================================================
