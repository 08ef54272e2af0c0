---------------------------- MODULE PlayGameProofs ----------------------------
(***************************************************************************)
(* Proofs about a game played to its end, for every pair of cards and      *)
(* every set of numbers that is drawn.                                     *)
(***************************************************************************)
EXTENDS PlayGame, TLAPS

\* The number that a player marks is one that was drawn, and whoever claims
\* has a line on his own card.
IInv ==
    /\ cards \in [Players -> CardWords]
    /\ hits \in [Players -> SUBSET Tiles]
    /\ pc \in {"playerOne", "playerTwo"} => latest \in Numbers
    /\ \A p \in Players : hits[p] \subseteq Reachable[cards[p]]
    /\ pc \in {"claimPrize", "over"} =>
          winner \in Players /\ checkForBingo(hits[winner])
    /\ pc \notin {"claimPrize", "over"} => winner = Nobody

\* A line completed by some tiles is completed by more tiles.
LEMMA MoreHitsWinToo ==
    ASSUME NEW H \in SUBSET Tiles, NEW K \in SUBSET Tiles, H \subseteq K,
           checkForBingo(H)
    PROVE  checkForBingo(K)
BY DEF checkForBingo

LEMMA HiddenTiles ==
    ASSUME IInv
    PROVE  HiddenTilesNeverWin
<1> SUFFICES ASSUME winner # Nobody
             PROVE  cards[winner] \in Winnable
  BY DEF IInv, HiddenTilesNeverWin
<1>1. winner \in Players /\ checkForBingo(hits[winner])
  BY DEF IInv
<1>2. /\ cards[winner] \in CardWords
      /\ hits[winner] \in SUBSET Tiles
      /\ hits[winner] \subseteq Reachable[cards[winner]]
  BY <1>1 DEF IInv
<1>3. Reachable[cards[winner]] \in SUBSET Tiles
  <2>1. FreeTile \in Tiles
    BY DEF Tiles, FreeTile
  <2>2. {t \in Tiles : \E n \in Numbers : playerHasNumber(cards[winner], n, t)}
           \subseteq Tiles
    OBVIOUS
  <2> QED
    BY <1>2, <2>1, <2>2 DEF Reachable
<1>4. checkForBingo(Reachable[cards[winner]])
  BY <1>1, <1>2, <1>3, MoreHitsWinToo
<1> QED
  BY <1>2, <1>4 DEF Winnable

LEMMA InitIInv ==
    Init => IInv
<1> SUFFICES ASSUME Init PROVE IInv
  OBVIOUS
<1>1. cards \in [Players -> CardWords]
  BY PlayAssumption DEF Init
<1>2. \A p \in Players : hits[p] = {FreeTile} /\ cards[p] \in CardWords
  BY <1>1 DEF Init
<1>3. \A c \in CardWords : FreeTile \in Reachable[c]
  BY DEF Reachable
<1> QED
  BY <1>1, <1>2, <1>3 DEF Init, IInv, Tiles, FreeTile

\* A mark hits the first tile that bears the number drawn, if there is one.
LEMMA markIInv ==
    ASSUME IInv, NEW p \in Players, mark(p)
    PROVE  IInv'
<1>1. /\ latest \in Numbers /\ pc \in {"playerOne", "playerTwo"}
      /\ winner = Nobody
  BY DEF mark, IInv
<1>2. /\ cards' = cards /\ latest' = latest
      /\ hits' = [hits EXCEPT ![p] = HitsAfterMark(p)]
  BY DEF mark
<1>3. /\ HitsAfterMark(p) \in SUBSET Tiles
      /\ HitsAfterMark(p) \subseteq Reachable[cards[p]]
  <2>1. cards[p] \in CardWords /\ hits[p] \subseteq Reachable[cards[p]]
        /\ hits[p] \in SUBSET Tiles
    BY DEF IInv
  <2>2. {t \in Tiles : playerHasNumber(cards[p], latest, t)}
           \subseteq Reachable[cards[p]]
    BY <1>1, <2>1 DEF Reachable
  <2> QED
    BY <2>1, <2>2 DEF HitsAfterMark
<1>4. /\ hits' \in [Players -> SUBSET Tiles]
      /\ hits'[p] = HitsAfterMark(p)
      /\ \A q \in Players : hits'[q] \subseteq Reachable[cards'[q]]
  BY <1>2, <1>3 DEF IInv
<1>5. CASE Wins(p)
  <2>1. pc' = "claimPrize" /\ winner' = p
    BY <1>5 DEF mark
  <2>2. checkForBingo(hits'[p])
    BY <1>5, <1>4 DEF Wins
  <2>3. checkForBingo(hits[winner])'
    BY <2>1, <2>2 DEF checkForBingo
  <2> QED
    BY <1>2, <1>4, <2>1, <2>3 DEF IInv
<1>6. CASE ~ Wins(p)
  <2>1. pc' \in {"playerTwo", "draw"} /\ winner' = Nobody
    BY <1>1, <1>6 DEF mark, AfterMark
  <2> QED
    BY <1>1, <1>2, <1>4, <2>1 DEF IInv
<1> QED
  BY <1>5, <1>6

LEMMA NextIInv ==
    ASSUME IInv, [Next]_playVars
    PROVE  IInv'
<1>1. CASE UNCHANGED playVars
  BY <1>1 DEF playVars, IInv, checkForBingo
<1>2. ASSUME NEW number \in Numbers, drawNumber(number)
      PROVE  IInv'
  BY <1>2 DEF drawNumber, IInv
<1>3. ASSUME NEW p \in Players, mark(p)
      PROVE  IInv'
  BY <1>3, markIInv
<1>4. CASE claimPrize
  BY <1>4 DEF claimPrize, IInv, checkForBingo
<1> QED
  BY <1>1, <1>2, <1>3, <1>4 DEF Next

LEMMA Invariant ==
    Spec => []IInv
BY InitIInv, NextIInv, PTL DEF Spec

\* Whatever is drawn, only tiles that the numbers can reach are hit, and a card
\* whose every line has a tile hidden behind an equal number does not win.
THEOREM HiddenTilesLose ==
    Spec => []HiddenTilesNeverWin
BY Invariant, HiddenTiles, PTL

-------------------------------------------------------------------------------
(* The part of WinnableGamesEnd that is safety.                            *)

\* A player has a line if and only if he has won.
LinesAreWon ==
    \A p \in Players :
       checkForBingo(hits[p]) <=> pc \in {"claimPrize", "over"} /\ p = winner

LEMMA NoLineAtFirst ==
    ~ checkForBingo({FreeTile})
BY DEF checkForBingo, winningBingoMasks, FreeTile

\* hasNumber is asked before the line is looked for: without the number the
\* mark hits nothing.
LEMMA MarkCompletesALine ==
    ASSUME IInv, NEW p \in Players, checkForBingo(HitsAfterMark(p)),
           ~ checkForBingo(hits[p])
    PROVE  Wins(p)
<1>1. CASE hasNumber(p)
  BY <1>1 DEF Wins
<1>2. CASE ~ hasNumber(p)
  <2>1. \A t \in Tiles : ~ playerHasNumber(cards[p], latest, t)
    BY <1>2 DEF hasNumber, playerHasNumber
  <2>2. HitsAfterMark(p) = hits[p]
    BY <2>1 DEF HitsAfterMark
  <2> QED
    BY <2>2
<1> QED
  BY <1>1, <1>2

LEMMA markLinesAreWon ==
    ASSUME IInv, LinesAreWon, NEW p \in Players, mark(p)
    PROVE  LinesAreWon'
<1>1. /\ pc \in {"playerOne", "playerTwo"}
      /\ hits \in [Players -> SUBSET Tiles]
      /\ hits' = [hits EXCEPT ![p] = HitsAfterMark(p)]
  BY DEF mark, IInv
<1>2. \A q \in Players : ~ checkForBingo(hits[q])
  BY <1>1 DEF LinesAreWon
<1>3. /\ hits'[p] = HitsAfterMark(p)
      /\ \A q \in Players \ {p} : hits'[q] = hits[q]
  BY <1>1
<1>4. \A q \in Players \ {p} : ~ checkForBingo(hits'[q])
  BY <1>2, <1>3
<1>5. CASE Wins(p)
  <2>1. pc' = "claimPrize" /\ winner' = p
    BY <1>5 DEF mark
  <2>2. checkForBingo(hits'[p])
    BY <1>3, <1>5 DEF Wins
  <2> QED
    BY <1>4, <2>1, <2>2 DEF LinesAreWon, checkForBingo
<1>6. CASE ~ Wins(p)
  <2>1. pc' \in {"playerTwo", "draw"}
    BY <1>6 DEF mark, AfterMark
  <2>2. ~ checkForBingo(hits'[p])
    BY <1>2, <1>3, <1>6, MarkCompletesALine
  <2> QED
    BY <1>4, <2>1, <2>2 DEF LinesAreWon, checkForBingo
<1> QED
  BY <1>5, <1>6

\* The loop overlooks no line: it draws again only while nobody has one, and
\* when it claims, the player who claims is the only one with a line.
THEOREM NoLineOverlooked ==
    Spec => []LinesAreWon
<1>1. Init => LinesAreWon
  <2> SUFFICES ASSUME Init, NEW p \in Players
               PROVE  ~ checkForBingo(hits[p]) /\ pc \notin {"claimPrize", "over"}
    BY DEF LinesAreWon
  <2>1. hits[p] = {FreeTile} /\ pc = "draw"
    BY DEF Init
  <2> QED
    BY <2>1, NoLineAtFirst
<1>2. ASSUME IInv, LinesAreWon, [Next]_playVars
      PROVE  LinesAreWon'
  <2>1. CASE UNCHANGED playVars
    BY <1>2, <2>1 DEF playVars, LinesAreWon, checkForBingo
  <2>2. ASSUME NEW number \in Numbers, drawNumber(number)
        PROVE  LinesAreWon'
    BY <1>2, <2>2 DEF drawNumber, LinesAreWon, checkForBingo
  <2>3. CASE claimPrize
    BY <1>2, <2>3 DEF claimPrize, LinesAreWon, checkForBingo
  <2> QED
    BY <1>2, <2>1, <2>2, <2>3, markLinesAreWon DEF Next
<1> QED
  BY <1>1, <1>2, Invariant, PTL DEF Spec
===============================================================================
