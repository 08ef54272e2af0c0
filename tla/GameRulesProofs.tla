---------------------------- MODULE GameRulesProofs ----------------------------
(***************************************************************************)
(* Proofs of the rules of the game, from IInv: what the pool of a game is, *)
(* that it is won once, that hits are earned and a game that is over stays *)
(* over; what holds as long as the owner leaves the settings alone; and    *)
(* that the events tell all of it.                                         *)
(***************************************************************************)
EXTENDS BitmaskBingoProofs, EscrowRefinement, EventLog

-------------------------------------------------------------------------------
(* A single game.  What createGame starts from is IInv's FreshGames.       *)

\* The inductive invariant of a game: the three rules depend on each other
\* only through the state of a game that does not exist yet.
RulesIInv ==
    /\ PoolIsFees
    /\ OneClaimPerGame
    /\ HitsAreEarned

\* playerHasNumber finds the target, which is therefore a number of a card.
LEMMA FoundNumber ==
    ASSUME NEW card \in CardWords, NEW target, NEW location \in Tiles,
           playerHasNumber(card, target, location)
    PROVE  /\ CardNumbers[card][location] = target
           /\ target # NoNumberYet /\ target # GameOver
BY CardAssumption
   DEF playerHasNumber, CardRange, NoNumberYet, GameOver

\* What createGame writes, with the conversions resolved.
LEMMA createGameEffect ==
    ASSUME IInv, NEW sender \in Player, createGame(sender)
    PROVE  \E id \in GameId, fee \in Nat :
              /\ gameRegistry[id] = NoGame
              /\ gameRegistry' = [gameRegistry EXCEPT ![id] =
                    [lastDrawnNumber |-> NoNumberYet,
                     lastDrawnAt |-> block.timestamp,
                     prizePool |-> fee,
                     createdAt |-> block.timestamp]]
              /\ playerRegistry' =
                    [playerRegistry EXCEPT ![sender][id] = DealtCard]
              /\ feesPaid' = [feesPaid EXCEPT ![id] = @ + fee]
              /\ UNCHANGED <<drawn, claims>>
<1> DEFINE id == gameIdOf(sender)
           fee == gameSettings.entryFee
<1>1. /\ id \in GameId /\ fee \in Uint256 /\ PayFee(sender, fee)
      /\ gameRegistry[id] = NoGame
      /\ Uint64(block.timestamp) = block.timestamp
  BY WidthFacts DEF createGame, IInv, GameTypeOK, FreshGames
<1>2. fee \in Nat /\ fee <= balances[sender] /\ Received = fee
  BY <1>1, FeePaid
<1>3. Uint64(fee) = fee
  BY <1>1, <1>2, AffordableFee
<1>4. /\ gameRegistry' = [gameRegistry EXCEPT ![id] =
            [lastDrawnNumber |-> NoNumberYet,
             lastDrawnAt |-> block.timestamp,
             prizePool |-> fee,
             createdAt |-> block.timestamp]]
      /\ playerRegistry' = [playerRegistry EXCEPT ![sender][id] = DealtCard]
      /\ feesPaid' = [feesPaid EXCEPT ![id] = @ + fee]
      /\ UNCHANGED <<drawn, claims>>
  BY <1>1, <1>2, <1>3 DEF createGame
<1> QED
  BY <1>1, <1>2, <1>4

\* What joinGame writes, with the conversions resolved.
LEMMA joinGameEffect ==
    ASSUME IInv, NEW sender \in Player, NEW id \in GameId,
           joinGame(sender, id)
    PROVE  \E fee \in Nat :
              /\ gameRegistry' =
                    [gameRegistry EXCEPT ![id].prizePool = @ + fee]
              /\ playerRegistry' =
                    [playerRegistry EXCEPT ![sender][id] = DealtCard]
              /\ feesPaid' = [feesPaid EXCEPT ![id] = @ + fee]
              /\ UNCHANGED <<drawn, claims>>
<1> DEFINE fee == gameSettings.entryFee
<1>1. fee \in Uint256 /\ PayFee(sender, fee)
  BY DEF joinGame, IInv, GameTypeOK
<1>2. fee \in Nat /\ fee <= balances[sender] /\ Received = fee
  BY <1>1, FeePaid
<1>3. Uint64(fee) = fee
  BY <1>2, AffordableFee
<1> QED
  BY <1>2, <1>3 DEF joinGame

-------------------------------------------------------------------------------

LEMMA InitRules ==
    Init => RulesIInv
BY DEF Init, RulesIInv, PoolIsFees, OneClaimPerGame, HitsAreEarned, NoGame,
       NoCard, GameOver

LEMMA createGameRules ==
    ASSUME IInv, RulesIInv, NEW sender \in Player, createGame(sender)
    PROVE  RulesIInv'
<1>1. PICK id \in GameId, fee \in Nat :
              /\ gameRegistry[id] = NoGame
              /\ gameRegistry' = [gameRegistry EXCEPT ![id] =
                    [lastDrawnNumber |-> NoNumberYet,
                     lastDrawnAt |-> block.timestamp,
                     prizePool |-> fee,
                     createdAt |-> block.timestamp]]
              /\ playerRegistry' =
                    [playerRegistry EXCEPT ![sender][id] = DealtCard]
              /\ feesPaid' = [feesPaid EXCEPT ![id] = @ + fee]
              /\ UNCHANGED <<drawn, claims>>
  BY createGameEffect
<1>2. /\ gameRegistry'[id].lastDrawnNumber = NoNumberYet
      /\ gameRegistry'[id].prizePool = fee
      /\ feesPaid'[id] = feesPaid[id] + fee
      /\ feesPaid[id] \in Nat
      /\ \A i \in GameId : i # id => /\ gameRegistry'[i] = gameRegistry[i]
                                     /\ feesPaid'[i] = feesPaid[i]
  BY <1>1 DEF IInv, GameTypeOK
<1>3. claims[id] = 0 /\ gameRegistry[id].prizePool = 0
  BY <1>1 DEF RulesIInv, OneClaimPerGame, NoGame, GameOver
<1>4. PoolIsFees'
  BY <1>1, <1>2, <1>3 DEF RulesIInv, PoolIsFees
<1>5. OneClaimPerGame'
  BY <1>1, <1>2, <1>3, CodeFacts DEF RulesIInv, OneClaimPerGame
<1>6. HitsAreEarned'
  <2>1. \A p \in Player, i \in GameId :
           \/ playerRegistry'[p][i] = playerRegistry[p][i]
           \/ playerRegistry'[p][i].hitStorage \ {FreeTile} = {}
    BY <1>1 DEF IInv, GameTypeOK, DealtCard
  <2> QED
    BY <1>1, <1>2, <2>1 DEF RulesIInv, HitsAreEarned
<1> QED
  BY <1>4, <1>5, <1>6 DEF RulesIInv

LEMMA joinGameRules ==
    ASSUME IInv, RulesIInv, NEW sender \in Player, NEW id \in GameId,
           joinGame(sender, id)
    PROVE  RulesIInv'
<1>1. PICK fee \in Nat :
              /\ gameRegistry' =
                    [gameRegistry EXCEPT ![id].prizePool = @ + fee]
              /\ playerRegistry' =
                    [playerRegistry EXCEPT ![sender][id] = DealtCard]
              /\ feesPaid' = [feesPaid EXCEPT ![id] = @ + fee]
              /\ UNCHANGED <<drawn, claims>>
  BY joinGameEffect
<1>2. /\ gameRegistry'[id].lastDrawnNumber = gameRegistry[id].lastDrawnNumber
      /\ gameRegistry'[id].createdAt = gameRegistry[id].createdAt
      /\ gameRegistry'[id].prizePool = gameRegistry[id].prizePool + fee
      /\ feesPaid'[id] = feesPaid[id] + fee
      /\ \A i \in GameId : i # id => /\ gameRegistry'[i] = gameRegistry[i]
                                     /\ feesPaid'[i] = feesPaid[i]
  BY <1>1 DEF IInv, GameTypeOK, Games
<1>3. PoolIsFees'
  BY <1>1, <1>2 DEF RulesIInv, PoolIsFees
<1>4. OneClaimPerGame'
  BY <1>1, <1>2 DEF RulesIInv, OneClaimPerGame
<1>5. HitsAreEarned'
  <2>1. \A p \in Player, i \in GameId :
           \/ playerRegistry'[p][i] = playerRegistry[p][i]
           \/ playerRegistry'[p][i].hitStorage \ {FreeTile} = {}
    BY <1>1 DEF IInv, GameTypeOK, DealtCard
  <2> QED
    BY <1>1, <1>2, <2>1 DEF RulesIInv, HitsAreEarned
<1> QED
  BY <1>3, <1>4, <1>5 DEF RulesIInv

LEMMA drawNumberRules ==
    ASSUME IInv, RulesIInv, NEW sender \in Player, NEW id \in GameId,
           drawNumber(sender, id)
    PROVE  RulesIInv'
<1> DEFINE number == block.entropy.number
<1>1. /\ number \in DrawRange /\ number # GameOver
      /\ gameRegistry[id].lastDrawnNumber # GameOver
      /\ drawn' = [drawn EXCEPT ![id] = @ \cup {number}]
      /\ UNCHANGED <<playerRegistry, feesPaid, claims>>
  BY CodeFacts DEF drawNumber, onlyPlayer, IInv, GameTypeOK, Entropy
<1>2. /\ gameRegistry'[id].lastDrawnNumber = number
      /\ gameRegistry'[id].createdAt = gameRegistry[id].createdAt
      /\ gameRegistry'[id].prizePool = gameRegistry[id].prizePool
      /\ \A i \in GameId : i # id => gameRegistry'[i] = gameRegistry[i]
  BY DEF drawNumber, IInv, GameTypeOK, Games
<1>3. \A i \in GameId : drawn[i] \subseteq drawn'[i]
  BY <1>1 DEF IInv, GameTypeOK
<1>4. number \in drawn'[id]
  BY <1>1 DEF IInv, GameTypeOK
<1> HIDE DEF number
<1>5. PoolIsFees'
  BY <1>1, <1>2 DEF RulesIInv, PoolIsFees
<1>6. OneClaimPerGame'
  BY <1>1, <1>2 DEF RulesIInv, OneClaimPerGame
<1>7. HitsAreEarned'
  BY <1>1, <1>2, <1>3, <1>4 DEF RulesIInv, HitsAreEarned
<1> QED
  BY <1>5, <1>6, <1>7 DEF RulesIInv

LEMMA markNumberOnCardRules ==
    ASSUME IInv, RulesIInv, NEW sender \in Player, NEW id \in GameId,
           markNumberOnCard(sender, id)
    PROVE  RulesIInv'
<1> DEFINE playerCard == playerRegistry[sender][id]
           number == gameRegistry[id].lastDrawnNumber
<1>1. PICK location \in Tiles :
         /\ playerHasNumber(playerCard.numberStorage, number, location)
         /\ playerRegistry' = [playerRegistry EXCEPT
               ![sender][id].hitStorage = @ \cup {location}]
  BY DEF markNumberOnCard
<1>2. UNCHANGED <<gameRegistry, feesPaid, drawn, claims>>
  BY DEF markNumberOnCard, historyVars
<1>3. /\ CardNumbers[playerCard.numberStorage][location] = number
      /\ number \in drawn[id]
  <2>1. playerCard.numberStorage \in CardWords
    BY DEF IInv, GameTypeOK, Cards
  <2>2. gameRegistry[id].createdAt > 0
    BY DEF markNumberOnCard, onlyPlayer
  <2> QED
    BY <1>1, <2>1, <2>2, FoundNumber
       DEF RulesIInv, HitsAreEarned, IInv, GameTypeOK
<1>4. /\ playerRegistry'[sender][id].numberStorage = playerCard.numberStorage
      /\ playerRegistry'[sender][id].hitStorage
            = playerCard.hitStorage \cup {location}
      /\ \A p \in Player, i \in GameId :
            p # sender \/ i # id =>
               playerRegistry'[p][i] = playerRegistry[p][i]
  BY <1>1 DEF IInv, GameTypeOK, Cards
<1>5. PoolIsFees' /\ OneClaimPerGame'
  BY <1>2 DEF RulesIInv, PoolIsFees, OneClaimPerGame
<1>6. HitsAreEarned'
  BY <1>2, <1>3, <1>4 DEF RulesIInv, HitsAreEarned
<1> QED
  BY <1>5, <1>6 DEF RulesIInv

LEMMA claimPrizeRules ==
    ASSUME IInv, RulesIInv, NEW sender \in Player, NEW id \in GameId,
           claimPrize(sender, id)
    PROVE  RulesIInv'
<1>1. /\ gameRegistry[id].lastDrawnNumber # GameOver
      /\ claims' = [claims EXCEPT ![id] = @ + 1]
      /\ UNCHANGED <<playerRegistry, feesPaid, drawn>>
  BY DEF claimPrize, onlyPlayer
<1>2. /\ gameRegistry'[id].lastDrawnNumber = GameOver
      /\ \A i \in GameId : i # id => gameRegistry'[i] = gameRegistry[i]
  BY DEF claimPrize, IInv, GameTypeOK, Games
<1>3. claims'[id] = 1 /\ \A i \in GameId : i # id => claims'[i] = claims[i]
  BY <1>1 DEF RulesIInv, OneClaimPerGame, IInv, GameTypeOK
<1>4. PoolIsFees' /\ OneClaimPerGame'
  BY <1>1, <1>2, <1>3 DEF RulesIInv, PoolIsFees, OneClaimPerGame
<1>5. HitsAreEarned'
  BY <1>1, <1>2 DEF RulesIInv, HitsAreEarned
<1> QED
  BY <1>4, <1>5 DEF RulesIInv

LEMMA StepRules ==
    IInv /\ RulesIInv /\ [Next]_vars => RulesIInv'
<1> SUFFICES ASSUME IInv, RulesIInv, [Next]_vars PROVE RulesIInv'
  OBVIOUS
<1>1. ASSUME NEW sender \in Player, PlayerCall(sender)
      PROVE  RulesIInv'
  BY <1>1, createGameRules, joinGameRules, drawNumberRules,
     markNumberOnCardRules, claimPrizeRules DEF PlayerCall
<1>2. ASSUME UNCHANGED <<gameRegistry, playerRegistry, feesPaid, drawn, claims>>
      PROVE  RulesIInv'
  BY <1>2 DEF RulesIInv, PoolIsFees, OneClaimPerGame, HitsAreEarned
<1>3. ASSUME NEW sender \in Address, OwnerCall(sender)
      PROVE  RulesIInv'
  BY <1>2, <1>3 DEF OwnerCall, updateEntryFee, updateJoinDuration,
                    updateUpdateTurnDuration, historyVars
<1>4. CASE tokenCall \/ newBlock \/ UNCHANGED vars
  BY <1>2, <1>4 DEF tokenCall, newBlock, vars, gameVars, historyVars
<1> QED
  BY <1>1, <1>3, <1>4 DEF Next

LEMMA RulesInvariant ==
    Spec => []RulesIInv
BY Invariant, InitRules, StepRules, PTL DEF Spec

-------------------------------------------------------------------------------

\* The winner gets everything: until its one claim, the pool of a game is what
\* was paid for creating and joining it.
THEOREM PoolsAreFees ==
    Spec => []PoolIsFees
<1>1. RulesIInv => PoolIsFees
  BY DEF RulesIInv
<1> QED
  BY <1>1, RulesInvariant, PTL

\* A game is won at most once, however many players complete a line.
THEOREM OnePrize ==
    Spec => []OneClaimPerGame
<1>1. RulesIInv => OneClaimPerGame
  BY DEF RulesIInv
<1> QED
  BY <1>1, RulesInvariant, PTL

\* Nobody holds a hit for a number that was not drawn in the same game,
\* whatever the owner does to the settings.
THEOREM NoUnearnedHits ==
    Spec => []HitsAreEarned
<1>1. RulesIInv => HitsAreEarned
  BY DEF RulesIInv
<1> QED
  BY <1>1, RulesInvariant, PTL

-------------------------------------------------------------------------------
(* What a step may not do to a game.                                       *)

\* A game that is over: no step reopens it, plays in it or takes from its pool.
Final(id) ==
    /\ gameRegistry'[id] =
          [gameRegistry[id] EXCEPT !.prizePool = gameRegistry'[id].prizePool]
    /\ gameRegistry'[id].prizePool >= gameRegistry[id].prizePool
    /\ draws'[id] = draws[id] /\ claims'[id] = claims[id]
    /\ \A p \in Player : playerRegistry'[p][id].hitStorage \subseteq
                              playerRegistry[p][id].hitStorage \cup {FreeTile}

LEMMA FinalStep ==
    ASSUME IInv, [Next]_vars, NEW id \in GameId,
           gameRegistry[id].lastDrawnNumber = GameOver
    PROVE  Final(id)
<1>1. /\ gameRegistry \in [GameId -> Games]
      /\ playerRegistry \in [Player -> [GameId -> Cards]]
      /\ draws \in [GameId -> Nat] /\ claims \in [GameId -> Nat]
      /\ gameRegistry[id].prizePool \in Nat
  BY DEF IInv, GameTypeOK, Games
<1>2. ASSUME gameRegistry'[id] = gameRegistry[id],
             draws'[id] = draws[id], claims'[id] = claims[id],
             \A p \in Player : playerRegistry'[p][id].hitStorage \subseteq
                                  playerRegistry[p][id].hitStorage \cup {FreeTile}
      PROVE  Final(id)
  BY <1>1, <1>2 DEF Final, Games
<1>3. ASSUME UNCHANGED <<gameRegistry, playerRegistry, draws, claims>>
      PROVE  Final(id)
  BY <1>2, <1>3
<1>4. ASSUME NEW sender \in Player, createGame(sender)
      PROVE  Final(id)
  <2>1. PICK new \in GameId :
           /\ gameRegistry[new].createdAt = 0
           /\ gameRegistry' = [gameRegistry EXCEPT ![new] = gameRegistry'[new]]
           /\ playerRegistry' = [playerRegistry EXCEPT ![sender][new] = DealtCard]
           /\ UNCHANGED <<draws, claims>>
    BY <1>1, <1>4 DEF createGame
  <2>2. id # new
    <3>1. gameRegistry[new] = NoGame
      BY <2>1 DEF IInv, FreshGames
    <3> QED
      BY <3>1 DEF NoGame, GameOver
  <2> QED
    BY <1>1, <1>2, <2>1, <2>2
<1>5. ASSUME NEW sender \in Player, NEW i \in GameId, joinGame(sender, i)
      PROVE  Final(id)
  <2>1. PICK fee \in Nat :
           gameRegistry' = [gameRegistry EXCEPT ![i].prizePool = @ + fee]
    <3>1. Uint64(gameSettings.entryFee) \in Nat
      BY WidthAssumption DEF Uint64, Uint256, IInv, GameTypeOK
    <3> QED
      BY <1>5, <3>1 DEF joinGame
  <2>2. /\ playerRegistry' = [playerRegistry EXCEPT ![sender][i] = DealtCard]
        /\ UNCHANGED <<draws, claims>>
    BY <1>5 DEF joinGame
  <2>3. \A p \in Player : playerRegistry'[p][id].hitStorage \subseteq
                             playerRegistry[p][id].hitStorage \cup {FreeTile}
    BY <1>1, <2>2 DEF DealtCard
  <2>4. CASE i = id
    <3>1. gameRegistry'[id] =
             [gameRegistry[id] EXCEPT !.prizePool = gameRegistry[id].prizePool + fee]
      BY <1>1, <2>1, <2>4
    <3>2. gameRegistry'[id].prizePool = gameRegistry[id].prizePool + fee
      BY <1>1, <3>1 DEF Games
    <3> QED
      BY <1>1, <2>2, <2>3, <3>1, <3>2 DEF Final
  <2>5. CASE i # id
    BY <1>1, <1>2, <2>1, <2>2, <2>3, <2>5
  <2> QED
    BY <2>4, <2>5
<1>6. ASSUME NEW sender \in Player, NEW i \in GameId,
             \/ drawNumber(sender, i) \/ markNumberOnCard(sender, i)
             \/ claimPrize(sender, i)
      PROVE  Final(id)
  <2>1. i # id
    BY <1>6 DEF drawNumber, markNumberOnCard, claimPrize, onlyPlayer
  <2>2. CASE drawNumber(sender, i)
    BY <1>1, <1>2, <2>1, <2>2 DEF drawNumber
  <2>3. CASE markNumberOnCard(sender, i)
    <3>1. PICK location : playerRegistry' = [playerRegistry EXCEPT
                             ![sender][i].hitStorage = @ \cup {location}]
      BY <2>3 DEF markNumberOnCard
    <3>2. \A p \in Player : playerRegistry'[p][id] = playerRegistry[p][id]
      BY <1>1, <2>1, <3>1
    <3> QED
      BY <1>2, <2>3, <3>2 DEF markNumberOnCard, historyVars
  <2>4. CASE claimPrize(sender, i)
    BY <1>1, <1>2, <2>1, <2>4 DEF claimPrize
  <2> QED
    BY <1>6, <2>2, <2>3, <2>4
<1>7. ASSUME NEW sender \in Address, OwnerCall(sender)
      PROVE  Final(id)
  BY <1>3, <1>7 DEF OwnerCall, updateEntryFee, updateJoinDuration,
              updateUpdateTurnDuration, historyVars
<1>8. ASSUME tokenCall \/ newBlock \/ UNCHANGED vars
      PROVE  Final(id)
  BY <1>3, <1>8 DEF tokenCall, newBlock, vars, gameVars, historyVars
<1>9. ASSUME NEW sender \in Player, PlayerCall(sender)
      PROVE  Final(id)
  BY <1>4, <1>5, <1>6, <1>9 DEF PlayerCall
<1> QED
  BY <1>7, <1>8, <1>9 DEF Next

\* Once a game is over no call reopens it, draws, marks or claims in it, or takes
\* anything out of its pool.
THEOREM GamesStayFinal ==
    Spec => GamesAreFinal
<1>1. IInv /\ [Next]_vars =>
        [\A id \in GameId :
            gameRegistry[id].lastDrawnNumber = GameOver => Final(id)]_vars
  BY FinalStep
<1>2. GamesAreFinal <=>
        [][\A id \in GameId :
             gameRegistry[id].lastDrawnNumber = GameOver => Final(id)]_vars
  BY DEF GamesAreFinal, Final
<1> QED
  BY <1>1, <1>2, Invariant, PTL DEF Spec

\* A pool shrinks only in claimPrize.
LEMMA PrizeStep ==
    ASSUME IInv, [Next]_vars, NEW id \in GameId,
           gameRegistry'[id].prizePool < gameRegistry[id].prizePool
    PROVE  /\ gameRegistry'[id].prizePool = 0
           /\ gameRegistry'[id].lastDrawnNumber = GameOver
           /\ \E p \in Player :
                 /\ onlyPlayer(p, id)
                 /\ checkForWinner(p, id)
                 /\ balances'[p] = balances[p] + gameRegistry[id].prizePool
<1>1. gameRegistry[id].prizePool \in Nat
  BY PoolFacts DEF IInv
<1>2. gameRegistry'[id].prizePool # gameRegistry[id].prizePool
  BY <1>1
<1>3. ASSUME NEW sender \in Player, createGame(sender)
      PROVE  FALSE
  <2>1. PICK new \in GameId, fee \in Nat :
           /\ gameRegistry[new].prizePool = 0
           /\ gameRegistry'[new].prizePool = fee
           /\ \A i \in GameId : i # new => gameRegistry'[i] = gameRegistry[i]
    BY <1>3, createGameEffect DEF IInv, GameTypeOK, NoGame
  <2> QED
    BY <1>2, <2>1
<1>4. ASSUME NEW sender \in Player, NEW i \in GameId, joinGame(sender, i)
      PROVE  FALSE
  <2>1. PICK fee \in Nat : gameRegistry' =
                             [gameRegistry EXCEPT ![i].prizePool = @ + fee]
    BY <1>4, joinGameEffect
  <2> QED
    BY <1>1, <1>2, <2>1 DEF IInv, GameTypeOK, Games
<1>5. ASSUME NEW sender \in Player, NEW i \in GameId, drawNumber(sender, i)
      PROVE  FALSE
  BY <1>2, <1>5 DEF drawNumber, IInv, GameTypeOK, Games
<1>6. ASSUME UNCHANGED gameRegistry
      PROVE  FALSE
  BY <1>2, <1>6
<1>7. ASSUME NEW sender \in Player, NEW i \in GameId,
             markNumberOnCard(sender, i)
      PROVE  FALSE
  BY <1>6, <1>7 DEF markNumberOnCard
<1>8. ASSUME NEW sender \in Address, OwnerCall(sender)
      PROVE  FALSE
  BY <1>6, <1>8 DEF OwnerCall, updateEntryFee, updateJoinDuration,
                    updateUpdateTurnDuration
<1>9. ~ (tokenCall \/ newBlock \/ UNCHANGED vars)
  BY <1>6 DEF tokenCall, newBlock, vars, gameVars
<1>10. PICK p \in Player, i \in GameId : claimPrize(p, i)
  BY <1>3, <1>4, <1>5, <1>7, <1>8, <1>9 DEF Next, PlayerCall
<1>11. i = id
  BY <1>2, <1>10 DEF claimPrize, IInv, GameTypeOK
<1>12. /\ gameRegistry'[id].prizePool = 0
       /\ gameRegistry'[id].lastDrawnNumber = GameOver
  BY <1>10, <1>11 DEF claimPrize, IInv, GameTypeOK, Games
<1>13. balances'[p] = balances[p] + gameRegistry[id].prizePool
  <2>1. PayPrize(p, gameRegistry[id].prizePool)
    BY <1>10, <1>11 DEF claimPrize
  <2>2. gameRegistry[id].prizePool \in 0 .. MaxUint64
    BY PoolFacts DEF IInv
  <2> QED
    BY <2>1, <2>2, PrizePaid
<1>14. onlyPlayer(p, id) /\ checkForWinner(p, id)
  BY <1>10, <1>11 DEF claimPrize, checkForWinner
<1> QED
  BY <1>12, <1>13, <1>14

\* A pool is only ever paid out whole, to a player of the game whose card has a
\* line, and that ends the game.
THEOREM PrizesGoToWinners ==
    Spec => PrizeGoesToWinner
<1>1. IInv /\ [Next]_vars =>
        [\A id \in GameId :
            gameRegistry'[id].prizePool < gameRegistry[id].prizePool =>
               /\ gameRegistry'[id].prizePool = 0
               /\ gameRegistry'[id].lastDrawnNumber = GameOver
               /\ \E p \in Player :
                     /\ onlyPlayer(p, id)
                     /\ checkForWinner(p, id)
                     /\ balances'[p] =
                           balances[p] + gameRegistry[id].prizePool]_vars
  BY PrizeStep
<1> QED
  BY <1>1, Invariant, PTL DEF Spec, PrizeGoesToWinner

-------------------------------------------------------------------------------
(* Promises that the code keeps as long as the owner leaves the settings   *)
(* they depend on alone.  The hypotheses are what the runs rejoin and      *)
(* late_fee show to be needed: that the join duration is not raised; that  *)
(* no duration is lower than the constructor's; that no fee is.            *)

JoinNotRaised ==
    gameSettings'.minimumJoinDuration <= gameSettings.minimumJoinDuration

DurationsNotLowered ==
    /\ \A duration \in JoinDurations : duration >= InitialJoinDuration
    /\ \A duration \in TurnDurations : duration >= InitialTurnDuration

FeeNotLowered == \A fee \in EntryFees : fee >= InitialEntryFee

\* Nothing was recorded for a game that does not exist.
NoHistoryBeforeCreation ==
    \A id \in GameId : gameRegistry[id].createdAt = 0 =>
        /\ drawn[id] = {}
        /\ draws[id] = 0
        /\ \A p \in Player : playerRegistry[p][id] = NoCard

\* The clock is past the last draw, and a game that is over had one.
DrawsAreRecorded ==
    \A id \in GameId :
        /\ drawn[id] # {} <=> draws[id] > 0
        /\ gameRegistry[id].lastDrawnAt <= block.timestamp
        /\ gameRegistry[id].lastDrawnNumber = GameOver => draws[id] > 0

\* A card is either blank or has the hit that every card is dealt with.
CardsHaveFreeTile ==
    \A p \in Player, id \in GameId :
        \/ playerRegistry[p][id] = NoCard
        \/ FreeTile \in playerRegistry[p][id].hitStorage

\* What holds whatever the owner sets.
HistoryIInv ==
    /\ NoHistoryBeforeCreation
    /\ DrawsAreRecorded

\* Once a number was drawn the time for joining is over, for good.
DrawnAfterJoining ==
    \A id \in GameId : draws[id] > 0 =>
        gameRegistry[id].createdAt + gameSettings.minimumJoinDuration
           < gameRegistry[id].lastDrawnAt

JoinIInv == DrawnAfterJoining /\ FinishedGameIsSettled

SpacedIInv ==
    /\ gameSettings.minimumJoinDuration >= InitialJoinDuration
    /\ gameSettings.minimumTurnDuration >= InitialTurnDuration
    /\ DrawsAreSpaced

PaidIInv ==
    /\ gameSettings.entryFee >= InitialEntryFee
    /\ MembersHavePaid

Members(id) == {p \in Player : checkGameHasPlayer(p, id)}

-------------------------------------------------------------------------------

LEMMA DurationFacts ==
    /\ InitialEntryFee \in Nat
    /\ InitialJoinDuration \in Nat
    /\ InitialTurnDuration \in Nat
BY SettingsAssumption, WidthAssumption DEF Uint256

LEMMA SettingFacts ==
    ASSUME IInv
    PROVE  /\ gameSettings.entryFee \in Nat /\ gameSettings.entryFee \in Uint256
           /\ gameSettings.minimumJoinDuration \in Nat
           /\ gameSettings.minimumTurnDuration \in Nat
BY WidthFacts DEF IInv, GameTypeOK, Uint256

LEMMA GameFacts ==
    ASSUME IInv, NEW id \in GameId
    PROVE  /\ gameRegistry[id].createdAt \in Nat
           /\ gameRegistry[id].lastDrawnAt \in Nat
           /\ draws[id] \in Nat /\ feesPaid[id] \in Nat
           /\ block.timestamp \in Nat /\ block.timestamp > 0
BY WidthFacts DEF IInv, GameTypeOK, Games

LEMMA MembersFinite ==
    ASSUME NEW id \in GameId
    PROVE  IsFiniteSet(Members(id)) /\ Cardinality(Members(id)) \in Nat
<1>1. IsFiniteSet(Player)
  BY PlayerAssumption, AddressAssumption, FS_Subset
<1>2. Members(id) \subseteq Player
  BY DEF Members
<1> QED
  BY <1>1, <1>2, FS_Subset, FS_CardinalityType

\* A line has a tile besides the free tile, so it takes a draw.
LEMMA LineNeedsDraw ==
    ASSUME RulesIInv, NEW p \in Player, NEW id \in GameId,
           checkForBingo(playerRegistry[p][id].hitStorage)
    PROVE  drawn[id] # {}
<1>1. \A mask \in winningBingoMasks : \E i \in mask : i # FreeTile
  BY DEF winningBingoMasks, FreeTile
<1>2. PICK i \in playerRegistry[p][id].hitStorage : i # FreeTile
  BY <1>1 DEF checkForBingo
<1> QED
  BY <1>2 DEF RulesIInv, HitsAreEarned

\* One more member pays for at most one more member.
LEMMA OneMoreMember ==
    ASSUME NEW id \in GameId, NEW sender \in Player, NEW fee \in Nat,
           MembersHavePaid, feesPaid[id] \in Nat, fee >= InitialEntryFee,
           Members(id)' \subseteq Members(id) \cup {sender},
           feesPaid'[id] = feesPaid[id] + fee
    PROVE  feesPaid'[id] >= InitialEntryFee * Cardinality(Members(id)')
<1> DEFINE n == Cardinality(Members(id))
           m == Cardinality(Members(id)')
<1>1. IsFiniteSet(Members(id)) /\ n \in Nat
  BY MembersFinite
<1>2. /\ IsFiniteSet(Members(id) \cup {sender})
      /\ Cardinality(Members(id) \cup {sender}) \in {n, n + 1}
  BY <1>1, FS_AddElement
<1>3. m \in Nat /\ m <= n + 1
  BY <1>2, FS_Subset, FS_CardinalityType
<1>4. feesPaid[id] >= InitialEntryFee * n
  BY DEF MembersHavePaid, Members
<1> HIDE DEF n, m
<1>5. InitialEntryFee * m <= InitialEntryFee * (n + 1)
  BY <1>1, <1>3, DurationFacts
<1>6. InitialEntryFee * (n + 1) = InitialEntryFee * n + InitialEntryFee
  BY <1>1, DurationFacts
<1>7. InitialEntryFee * n \in Nat /\ InitialEntryFee * m \in Nat
  BY <1>1, <1>3, DurationFacts
<1> QED
  BY <1>4, <1>5, <1>6, <1>7, DurationFacts DEF m

\* Draw number n + 1 comes a turn after draw number n.
LEMMA OneMoreTurn ==
    ASSUME NEW n \in Nat \ {0}, NEW turn \in Nat, NEW join \in Nat,
           NEW last \in Nat, NEW now \in Nat, NEW start \in Nat,
           last - start >= join + (n - 1) * turn, now >= last + turn
    PROVE  now - start >= join + ((n + 1) - 1) * turn
<1>1. n * turn = (n - 1) * turn + turn
  OBVIOUS
<1>2. (n - 1) * turn \in Nat /\ n * turn \in Nat
  OBVIOUS
<1>3. (n + 1) - 1 = n
  OBVIOUS
<1> DEFINE before == (n - 1) * turn
           after == n * turn
<1>4. before \in Nat /\ after = before + turn /\ last - start >= join + before
  BY <1>1, <1>2
<1> HIDE DEF before, after
<1>5. now - start >= join + after
  BY <1>4
<1> QED
  BY <1>3, <1>5 DEF after

-------------------------------------------------------------------------------
(* What each function does to what these promises are about.               *)

LEMMA createGameSettled ==
    ASSUME IInv, HistoryIInv, NEW sender \in Player, createGame(sender)
    PROVE  \E id \in GameId :
             /\ gameRegistry[id].createdAt = 0
             /\ drawn[id] = {} /\ draws[id] = 0
             /\ \A p \in Player : playerRegistry[p][id] = NoCard
             /\ gameRegistry'[id].createdAt = block.timestamp
             /\ gameRegistry'[id].lastDrawnAt = block.timestamp
             /\ gameRegistry'[id].lastDrawnNumber # GameOver
             /\ \A i \in GameId : i # id => gameRegistry'[i] = gameRegistry[i]
             /\ playerRegistry' = [playerRegistry EXCEPT ![sender][id] = DealtCard]
             /\ feesPaid' = [feesPaid EXCEPT ![id] = feesPaid[id] + gameSettings.entryFee]
             /\ UNCHANGED <<gameSettings, block, drawn, draws>>
<1>1. PICK id \in GameId : id = gameIdOf(sender)
  BY DEF createGame
<1>2. /\ gameRegistry[id].createdAt = 0
      /\ gameRegistry' = [gameRegistry EXCEPT ![id] =
            [lastDrawnNumber |-> NoNumberYet,
             lastDrawnAt |-> block.timestamp,
             prizePool |-> Uint64(gameSettings.entryFee),
             createdAt |-> block.timestamp]]
      /\ playerRegistry' = [playerRegistry EXCEPT ![sender][id] = DealtCard]
      /\ UNCHANGED <<gameSettings, block, drawn, draws>>
  BY <1>1, WidthFacts DEF createGame, IInv, GameTypeOK
<1>3. /\ gameRegistry'[id].createdAt = block.timestamp
      /\ gameRegistry'[id].lastDrawnAt = block.timestamp
      /\ gameRegistry'[id].lastDrawnNumber # GameOver
      /\ \A i \in GameId : i # id => gameRegistry'[i] = gameRegistry[i]
  BY <1>2, CodeFacts DEF IInv, GameTypeOK
<1>4. feesPaid' = [feesPaid EXCEPT ![id] = feesPaid[id] + gameSettings.entryFee]
  BY <1>1, SettingFacts, FeePaid DEF createGame
<1>5. /\ drawn[id] = {} /\ draws[id] = 0
      /\ \A p \in Player : playerRegistry[p][id] = NoCard
  BY <1>2 DEF HistoryIInv, NoHistoryBeforeCreation
<1> QED
  BY <1>2, <1>3, <1>4, <1>5

LEMMA joinGameSettled ==
    ASSUME IInv, NEW sender \in Player, NEW id \in GameId, joinGame(sender, id)
    PROVE  /\ gameRegistry[id].createdAt > 0
           /\ block.timestamp <
                 gameRegistry[id].createdAt + gameSettings.minimumJoinDuration
           /\ gameRegistry'[id].createdAt = gameRegistry[id].createdAt
           /\ gameRegistry'[id].lastDrawnAt = gameRegistry[id].lastDrawnAt
           /\ gameRegistry'[id].lastDrawnNumber = gameRegistry[id].lastDrawnNumber
           /\ \A i \in GameId : i # id => gameRegistry'[i] = gameRegistry[i]
           /\ playerRegistry' = [playerRegistry EXCEPT ![sender][id] = DealtCard]
           /\ feesPaid' = [feesPaid EXCEPT ![id] = feesPaid[id] + gameSettings.entryFee]
           /\ UNCHANGED <<gameSettings, block, drawn, draws>>
<1>1. /\ gameRegistry[id].createdAt > 0
      /\ block.timestamp <
            gameRegistry[id].createdAt + gameSettings.minimumJoinDuration
      /\ playerRegistry' = [playerRegistry EXCEPT ![sender][id] = DealtCard]
      /\ UNCHANGED <<gameSettings, block, drawn, draws>>
  BY DEF joinGame, Before
<1>2. /\ gameRegistry'[id].createdAt = gameRegistry[id].createdAt
      /\ gameRegistry'[id].lastDrawnAt = gameRegistry[id].lastDrawnAt
      /\ gameRegistry'[id].lastDrawnNumber = gameRegistry[id].lastDrawnNumber
      /\ \A i \in GameId : i # id => gameRegistry'[i] = gameRegistry[i]
  BY DEF joinGame, IInv, GameTypeOK, Games
<1>3. feesPaid' = [feesPaid EXCEPT ![id] = feesPaid[id] + gameSettings.entryFee]
  BY SettingFacts, FeePaid DEF joinGame
<1> QED
  BY <1>1, <1>2, <1>3

LEMMA drawNumberSettled ==
    ASSUME IInv, NEW sender \in Player, NEW id \in GameId,
           drawNumber(sender, id)
    PROVE  /\ gameRegistry[id].createdAt > 0
           /\ block.timestamp >
                 gameRegistry[id].createdAt + gameSettings.minimumJoinDuration
           /\ block.timestamp >
                 gameRegistry[id].lastDrawnAt + gameSettings.minimumTurnDuration
           /\ gameRegistry'[id].createdAt = gameRegistry[id].createdAt
           /\ gameRegistry'[id].lastDrawnAt = block.timestamp
           /\ gameRegistry'[id].lastDrawnNumber # GameOver
           /\ drawn'[id] # {} /\ draws'[id] = draws[id] + 1
           /\ \A i \in GameId : i # id => /\ gameRegistry'[i] = gameRegistry[i]
                                          /\ drawn'[i] = drawn[i]
                                          /\ draws'[i] = draws[i]
           /\ UNCHANGED <<gameSettings, playerRegistry, block, feesPaid>>
<1>1. /\ gameRegistry[id].createdAt > 0
      /\ drawn'[id] # {} /\ draws'[id] = draws[id] + 1
      /\ \A i \in GameId : i # id => /\ gameRegistry'[i] = gameRegistry[i]
                                     /\ drawn'[i] = drawn[i]
                                     /\ draws'[i] = draws[i]
      /\ UNCHANGED <<gameSettings, playerRegistry, block, feesPaid>>
  BY DEF drawNumber, onlyPlayer, IInv, GameTypeOK
<1>2. /\ gameRegistry'[id].createdAt = gameRegistry[id].createdAt
      /\ gameRegistry'[id].lastDrawnNumber # GameOver
  BY CodeFacts DEF drawNumber, IInv, GameTypeOK, Games, Entropy
<1>3. gameRegistry'[id].lastDrawnAt = block.timestamp
  BY WidthFacts DEF drawNumber, IInv, GameTypeOK, Games
<1>4. /\ block.timestamp >
            gameRegistry[id].createdAt + gameSettings.minimumJoinDuration
      /\ block.timestamp >
            gameRegistry[id].lastDrawnAt + gameSettings.minimumTurnDuration
  BY DEF drawNumber, After
<1> QED
  BY <1>1, <1>2, <1>3, <1>4

LEMMA markNumberOnCardSettled ==
    ASSUME IInv, NEW sender \in Player, NEW id \in GameId,
           markNumberOnCard(sender, id)
    PROVE  /\ gameRegistry[id].createdAt > 0
           /\ playerRegistry[sender][id].numberStorage # EmptyWord
           /\ \A p \in Player, i \in GameId :
                 p # sender \/ i # id =>
                    playerRegistry'[p][i] = playerRegistry[p][i]
           /\ playerRegistry[sender][id].hitStorage \subseteq
                 playerRegistry'[sender][id].hitStorage
           /\ UNCHANGED <<gameSettings, gameRegistry, block, feesPaid, drawn, draws>>
BY DEF markNumberOnCard, onlyPlayer, historyVars, IInv, GameTypeOK, Cards

LEMMA claimPrizeSettled ==
    ASSUME IInv, RulesIInv, NEW sender \in Player, NEW id \in GameId,
           claimPrize(sender, id)
    PROVE  /\ gameRegistry[id].createdAt > 0
           /\ drawn[id] # {}
           /\ gameRegistry'[id].createdAt = gameRegistry[id].createdAt
           /\ gameRegistry'[id].lastDrawnAt = gameRegistry[id].lastDrawnAt
           /\ gameRegistry'[id].prizePool = 0
           /\ \A i \in GameId : i # id => gameRegistry'[i] = gameRegistry[i]
           /\ UNCHANGED <<gameSettings, playerRegistry, block, feesPaid, drawn,
                          draws>>
<1>1. /\ gameRegistry[id].createdAt > 0
      /\ \A i \in GameId : i # id => gameRegistry'[i] = gameRegistry[i]
      /\ UNCHANGED <<gameSettings, playerRegistry, block, feesPaid, drawn,
                     draws>>
  BY DEF claimPrize, onlyPlayer, IInv, GameTypeOK
<1>2. /\ gameRegistry'[id].createdAt = gameRegistry[id].createdAt
      /\ gameRegistry'[id].lastDrawnAt = gameRegistry[id].lastDrawnAt
      /\ gameRegistry'[id].prizePool = 0
  BY DEF claimPrize, IInv, GameTypeOK, Games
<1>3. drawn[id] # {}
  BY LineNeedsDraw DEF claimPrize
<1> QED
  BY <1>1, <1>2, <1>3

\* All other steps: only the clock and the settings are of interest.
Quiet ==
    /\ block'.timestamp \in Nat /\ block'.timestamp >= block.timestamp
    /\ UNCHANGED <<gameRegistry, playerRegistry, drawn, draws, feesPaid>>

LEMMA QuietSteps ==
    ASSUME IInv, [Next]_vars, ~ \E sender \in Player : PlayerCall(sender)
    PROVE  Quiet
<1>1. block.timestamp \in Nat
  BY WidthFacts DEF IInv, GameTypeOK
<1>2. ASSUME NEW sender \in Address, OwnerCall(sender)
      PROVE  Quiet
  BY <1>1, <1>2 DEF OwnerCall, updateEntryFee, updateJoinDuration,
     updateUpdateTurnDuration, historyVars, Quiet
<1>3. CASE tokenCall \/ UNCHANGED vars
  BY <1>1, <1>3 DEF tokenCall, vars, gameVars, historyVars, Quiet
<1>4. CASE newBlock
  <2>1. block'.timestamp \in Nat /\ block'.timestamp >= block.timestamp
    BY <1>1, <1>4, ChainAssumption DEF newBlock
  <2> QED
    BY <1>4, <2>1 DEF newBlock, gameVars, historyVars, Quiet
<1> QED
  BY <1>2, <1>3, <1>4 DEF Next

\* A setting is changed to nothing but a value that the owner has to give it.
LEMMA SettingSteps ==
    ASSUME IInv, [Next]_vars
    PROVE  /\ gameSettings'.entryFee \in {gameSettings.entryFee} \cup EntryFees
           /\ gameSettings'.minimumJoinDuration
                 \in {gameSettings.minimumJoinDuration} \cup JoinDurations
           /\ gameSettings'.minimumTurnDuration
                 \in {gameSettings.minimumTurnDuration} \cup TurnDurations
<1>1. ASSUME UNCHANGED gameSettings
      PROVE  /\ gameSettings'.entryFee \in {gameSettings.entryFee} \cup EntryFees
             /\ gameSettings'.minimumJoinDuration
                   \in {gameSettings.minimumJoinDuration} \cup JoinDurations
             /\ gameSettings'.minimumTurnDuration
                   \in {gameSettings.minimumTurnDuration} \cup TurnDurations
  BY <1>1
<1>2. ASSUME NEW sender \in Player, PlayerCall(sender)
      PROVE  UNCHANGED gameSettings
  BY <1>2 DEF PlayerCall, createGame, joinGame, drawNumber, markNumberOnCard,
              claimPrize
<1>3. ASSUME NEW sender \in Address, OwnerCall(sender)
      PROVE  /\ gameSettings'.entryFee \in {gameSettings.entryFee} \cup EntryFees
             /\ gameSettings'.minimumJoinDuration
                   \in {gameSettings.minimumJoinDuration} \cup JoinDurations
             /\ gameSettings'.minimumTurnDuration
                   \in {gameSettings.minimumTurnDuration} \cup TurnDurations
  BY <1>3 DEF OwnerCall, updateEntryFee, updateJoinDuration,
              updateUpdateTurnDuration, IInv, GameTypeOK
<1>4. tokenCall \/ newBlock \/ UNCHANGED vars => UNCHANGED gameSettings
  BY DEF tokenCall, newBlock, vars, gameVars
<1> QED
  BY <1>1, <1>2, <1>3, <1>4 DEF Next

-------------------------------------------------------------------------------
(* The history of a game, whatever the owner sets.                         *)

\* Every step deals whole cards or adds hits.
LEMMA StepCards ==
    IInv /\ CardsHaveFreeTile /\ [Next]_vars => CardsHaveFreeTile'
<1> SUFFICES ASSUME IInv, CardsHaveFreeTile, [Next]_vars
             PROVE  CardsHaveFreeTile'
  OBVIOUS
<1>1. ASSUME NEW sender \in Player, createGame(sender)
      PROVE  CardsHaveFreeTile'
  <2>1. PICK id \in GameId :
           playerRegistry' = [playerRegistry EXCEPT ![sender][id] = DealtCard]
    BY <1>1 DEF createGame
  <2> QED
    BY <2>1 DEF CardsHaveFreeTile, DealtCard, IInv, GameTypeOK
<1>2. ASSUME NEW sender \in Player, NEW id \in GameId, joinGame(sender, id)
      PROVE  CardsHaveFreeTile'
  BY <1>2 DEF joinGame, CardsHaveFreeTile, DealtCard, IInv, GameTypeOK
<1>3. ASSUME NEW sender \in Player, NEW id \in GameId,
             markNumberOnCard(sender, id)
      PROVE  CardsHaveFreeTile'
  <2>1. playerRegistry[sender][id] # NoCard
    BY <1>3 DEF markNumberOnCard, onlyPlayer, NoCard
  <2> QED
    BY <1>3, <2>1 DEF markNumberOnCard, CardsHaveFreeTile, IInv, GameTypeOK,
                      Cards
<1>4. ASSUME UNCHANGED playerRegistry
      PROVE  CardsHaveFreeTile'
  BY <1>4 DEF CardsHaveFreeTile
<1>5. ASSUME NEW sender \in Player, NEW id \in GameId,
             drawNumber(sender, id) \/ claimPrize(sender, id)
      PROVE  CardsHaveFreeTile'
  BY <1>4, <1>5 DEF drawNumber, claimPrize
<1>6. ASSUME NEW sender \in Address, OwnerCall(sender)
      PROVE  CardsHaveFreeTile'
  BY <1>4, <1>6 DEF OwnerCall, updateEntryFee, updateJoinDuration,
                    updateUpdateTurnDuration
<1>7. CASE tokenCall \/ newBlock \/ UNCHANGED vars
  BY <1>4, <1>7 DEF tokenCall, newBlock, vars, gameVars
<1> QED
  BY <1>1, <1>2, <1>3, <1>5, <1>6, <1>7 DEF Next, PlayerCall

LEMMA CardsInvariant ==
    Spec => []CardsHaveFreeTile
<1>1. Init => CardsHaveFreeTile
  BY DEF Init, CardsHaveFreeTile
<1> QED
  BY <1>1, StepCards, Invariant, PTL DEF Spec

LEMMA InitHistory ==
    Init => HistoryIInv
<1> SUFFICES ASSUME Init PROVE HistoryIInv
  OBVIOUS
<1>1. NoHistoryBeforeCreation
  BY DEF Init, NoHistoryBeforeCreation, NoGame
<1>2. DrawsAreRecorded
  BY DEF Init, DrawsAreRecorded, NoGame, GameOver
<1> QED
  BY <1>1, <1>2 DEF HistoryIInv

LEMMA StepHistory ==
    ASSUME IInv, RulesIInv, HistoryIInv, [Next]_vars
    PROVE  HistoryIInv'
<1>1. ASSUME NEW sender \in Player, createGame(sender)
      PROVE  HistoryIInv'
  <2>1. PICK id \in GameId :
             /\ drawn[id] = {} /\ draws[id] = 0
             /\ gameRegistry'[id].createdAt = block.timestamp
             /\ gameRegistry'[id].lastDrawnAt = block.timestamp
             /\ gameRegistry'[id].lastDrawnNumber # GameOver
             /\ \A i \in GameId : i # id => gameRegistry'[i] = gameRegistry[i]
             /\ playerRegistry' = [playerRegistry EXCEPT ![sender][id] = DealtCard]
             /\ UNCHANGED <<block, drawn, draws>>
    BY <1>1, createGameSettled
  <2>2. block.timestamp \in Nat /\ block.timestamp > 0
    BY <2>1, GameFacts
  <2>3. \A p \in Player, i \in GameId : i # id =>
           playerRegistry'[p][i] = playerRegistry[p][i]
    BY <2>1 DEF IInv, GameTypeOK
  <2>4. NoHistoryBeforeCreation'
    BY <2>1, <2>2, <2>3 DEF HistoryIInv, NoHistoryBeforeCreation
  <2>5. DrawsAreRecorded'
    BY <2>1, <2>2 DEF HistoryIInv, DrawsAreRecorded
  <2> QED
    BY <2>4, <2>5 DEF HistoryIInv
<1>2. ASSUME NEW sender \in Player, NEW id \in GameId, joinGame(sender, id)
      PROVE  HistoryIInv'
  <2>1. /\ gameRegistry[id].createdAt > 0
        /\ gameRegistry'[id].createdAt = gameRegistry[id].createdAt
        /\ gameRegistry'[id].lastDrawnAt = gameRegistry[id].lastDrawnAt
        /\ gameRegistry'[id].lastDrawnNumber = gameRegistry[id].lastDrawnNumber
        /\ \A i \in GameId : i # id => gameRegistry'[i] = gameRegistry[i]
        /\ playerRegistry' = [playerRegistry EXCEPT ![sender][id] = DealtCard]
        /\ UNCHANGED <<block, drawn, draws>>
    BY <1>2, joinGameSettled
  <2>2. \A p \in Player, i \in GameId : i # id =>
           playerRegistry'[p][i] = playerRegistry[p][i]
    BY <2>1 DEF IInv, GameTypeOK
  <2>3. NoHistoryBeforeCreation'
    BY <2>1, <2>2 DEF HistoryIInv, NoHistoryBeforeCreation
  <2>4. DrawsAreRecorded'
    BY <2>1 DEF HistoryIInv, DrawsAreRecorded
  <2> QED
    BY <2>3, <2>4 DEF HistoryIInv
<1>3. ASSUME NEW sender \in Player, NEW id \in GameId, drawNumber(sender, id)
      PROVE  HistoryIInv'
  <2>1. /\ gameRegistry[id].createdAt > 0
        /\ gameRegistry'[id].createdAt = gameRegistry[id].createdAt
        /\ gameRegistry'[id].lastDrawnAt = block.timestamp
        /\ gameRegistry'[id].lastDrawnNumber # GameOver
        /\ drawn'[id] # {} /\ draws'[id] = draws[id] + 1
        /\ \A i \in GameId : i # id => /\ gameRegistry'[i] = gameRegistry[i]
                                       /\ drawn'[i] = drawn[i]
                                       /\ draws'[i] = draws[i]
        /\ UNCHANGED <<playerRegistry, block>>
    BY <1>3, drawNumberSettled
  <2>2. draws[id] \in Nat /\ block.timestamp \in Nat
    BY GameFacts
  <2>3. NoHistoryBeforeCreation'
    BY <2>1 DEF HistoryIInv, NoHistoryBeforeCreation
  <2>4. DrawsAreRecorded'
    BY <2>1, <2>2 DEF HistoryIInv, DrawsAreRecorded
  <2> QED
    BY <2>3, <2>4 DEF HistoryIInv
<1>4. ASSUME NEW sender \in Player, NEW id \in GameId,
             markNumberOnCard(sender, id)
      PROVE  HistoryIInv'
  <2>1. /\ gameRegistry[id].createdAt > 0
        /\ \A p \in Player, i \in GameId :
              p # sender \/ i # id => playerRegistry'[p][i] = playerRegistry[p][i]
        /\ UNCHANGED <<gameRegistry, block, drawn, draws>>
    BY <1>4, markNumberOnCardSettled
  <2> QED
    BY <2>1 DEF HistoryIInv, NoHistoryBeforeCreation, DrawsAreRecorded
<1>5. ASSUME NEW sender \in Player, NEW id \in GameId, claimPrize(sender, id)
      PROVE  HistoryIInv'
  <2>1. /\ gameRegistry[id].createdAt > 0
        /\ drawn[id] # {}
        /\ gameRegistry'[id].createdAt = gameRegistry[id].createdAt
        /\ gameRegistry'[id].lastDrawnAt = gameRegistry[id].lastDrawnAt
        /\ \A i \in GameId : i # id => gameRegistry'[i] = gameRegistry[i]
        /\ UNCHANGED <<playerRegistry, block, drawn, draws>>
    BY <1>5, claimPrizeSettled
  <2> QED
    BY <2>1 DEF HistoryIInv, NoHistoryBeforeCreation, DrawsAreRecorded
<1>6. ASSUME ~ \E sender \in Player : PlayerCall(sender)
      PROVE  HistoryIInv'
  <2>1. Quiet
    BY <1>6, QuietSteps
  <2>2. \A id \in GameId : gameRegistry[id].lastDrawnAt \in Nat
                             /\ block.timestamp \in Nat
    BY GameFacts
  <2> QED
    BY <2>1, <2>2 DEF Quiet, HistoryIInv, NoHistoryBeforeCreation,
                      DrawsAreRecorded
<1> QED
  BY <1>1, <1>2, <1>3, <1>4, <1>5, <1>6 DEF PlayerCall

LEMMA HistoryInvariant ==
    Spec => []HistoryIInv
BY Invariant, RulesInvariant, InitHistory, StepHistory, PTL DEF Spec

-------------------------------------------------------------------------------
(* What holds while the join duration is not raised.                       *)

\* Nobody joins a game in which a number was drawn, or one that is over.
LEMMA NobodyJoinsLate ==
    ASSUME IInv, HistoryIInv, DrawnAfterJoining, NEW sender \in Player,
           NEW id \in GameId, joinGame(sender, id)
    PROVE  /\ draws[id] = 0
           /\ drawn[id] = {}
           /\ gameRegistry[id].lastDrawnNumber # GameOver
<1>1. block.timestamp <
         gameRegistry[id].createdAt + gameSettings.minimumJoinDuration
  BY joinGameSettled
<1>2. gameRegistry[id].lastDrawnAt <= block.timestamp
  BY DEF HistoryIInv, DrawsAreRecorded
<1>3. ~ (draws[id] > 0)
  BY <1>1, <1>2, GameFacts, SettingFacts DEF DrawnAfterJoining
<1> QED
  BY <1>3, GameFacts DEF HistoryIInv, DrawsAreRecorded

LEMMA StepJoin ==
    ASSUME IInv, RulesIInv, HistoryIInv, JoinIInv, [Next]_vars,
           [JoinNotRaised]_vars
    PROVE  JoinIInv'
<1>1. ASSUME NEW sender \in Player, createGame(sender)
      PROVE  JoinIInv'
  <2>1. PICK id \in GameId :
             /\ draws[id] = 0
             /\ gameRegistry'[id].lastDrawnNumber # GameOver
             /\ \A i \in GameId : i # id => gameRegistry'[i] = gameRegistry[i]
             /\ UNCHANGED <<gameSettings, draws>>
    BY <1>1, createGameSettled
  <2> QED
    BY <2>1 DEF JoinIInv, DrawnAfterJoining, FinishedGameIsSettled
<1>2. ASSUME NEW sender \in Player, NEW id \in GameId, joinGame(sender, id)
      PROVE  JoinIInv'
  <2>1. /\ draws[id] = 0
        /\ gameRegistry'[id].lastDrawnNumber # GameOver
    BY <1>2, NobodyJoinsLate, joinGameSettled DEF JoinIInv
  <2>2. /\ \A i \in GameId : i # id => gameRegistry'[i] = gameRegistry[i]
        /\ UNCHANGED <<gameSettings, draws>>
    BY <1>2, joinGameSettled
  <2> QED
    BY <2>1, <2>2 DEF JoinIInv, DrawnAfterJoining, FinishedGameIsSettled
<1>3. ASSUME NEW sender \in Player, NEW id \in GameId, drawNumber(sender, id)
      PROVE  JoinIInv'
  <2>1. /\ block.timestamp >
              gameRegistry[id].createdAt + gameSettings.minimumJoinDuration
        /\ gameRegistry'[id].createdAt = gameRegistry[id].createdAt
        /\ gameRegistry'[id].lastDrawnAt = block.timestamp
        /\ gameRegistry'[id].lastDrawnNumber # GameOver
        /\ \A i \in GameId : i # id => /\ gameRegistry'[i] = gameRegistry[i]
                                       /\ draws'[i] = draws[i]
        /\ UNCHANGED gameSettings
    BY <1>3, drawNumberSettled
  <2>2. gameRegistry'[id].createdAt + gameSettings'.minimumJoinDuration
           < gameRegistry'[id].lastDrawnAt
    BY <2>1, GameFacts, SettingFacts
  <2> QED
    BY <2>1, <2>2 DEF JoinIInv, DrawnAfterJoining, FinishedGameIsSettled
<1>4. ASSUME NEW sender \in Player, NEW id \in GameId,
             markNumberOnCard(sender, id)
      PROVE  JoinIInv'
  <2>1. UNCHANGED <<gameSettings, gameRegistry, draws>>
    BY <1>4, markNumberOnCardSettled
  <2> QED
    BY <2>1 DEF JoinIInv, DrawnAfterJoining, FinishedGameIsSettled
<1>5. ASSUME NEW sender \in Player, NEW id \in GameId, claimPrize(sender, id)
      PROVE  JoinIInv'
  <2>1. /\ gameRegistry'[id].createdAt = gameRegistry[id].createdAt
        /\ gameRegistry'[id].lastDrawnAt = gameRegistry[id].lastDrawnAt
        /\ gameRegistry'[id].prizePool = 0
        /\ \A i \in GameId : i # id => gameRegistry'[i] = gameRegistry[i]
        /\ UNCHANGED <<gameSettings, draws>>
    BY <1>5, claimPrizeSettled
  <2> QED
    BY <2>1 DEF JoinIInv, DrawnAfterJoining, FinishedGameIsSettled
<1>6. ASSUME ~ \E sender \in Player : PlayerCall(sender)
      PROVE  JoinIInv'
  <2>1. Quiet
    BY <1>6, QuietSteps
  <2>2. gameSettings'.minimumJoinDuration <= gameSettings.minimumJoinDuration
        /\ gameSettings'.minimumJoinDuration \in Nat
    <3>1. CASE UNCHANGED vars
      BY <3>1, SettingFacts DEF vars, gameVars
    <3>2. CASE JoinNotRaised
      <4>1. gameSettings'.minimumJoinDuration \in Nat
        BY SettingSteps, SettingFacts, SettingsAssumption, WidthFacts DEF Uint256
      <4> QED
        BY <3>2, <4>1 DEF JoinNotRaised
    <3> QED
      BY <3>1, <3>2
  <2>3. ASSUME NEW id \in GameId, draws'[id] > 0
        PROVE  gameRegistry'[id].createdAt + gameSettings'.minimumJoinDuration
                  < gameRegistry'[id].lastDrawnAt
    <3>1. gameRegistry[id].createdAt + gameSettings.minimumJoinDuration
             < gameRegistry[id].lastDrawnAt
      BY <2>1, <2>3 DEF Quiet, JoinIInv, DrawnAfterJoining
    <3>2. gameRegistry' = gameRegistry
      BY <2>1 DEF Quiet
    <3> QED
      BY <2>2, <3>1, <3>2, GameFacts, SettingFacts
  <2> QED
    BY <2>1, <2>3 DEF Quiet, JoinIInv, DrawnAfterJoining, FinishedGameIsSettled
<1> QED
  BY <1>1, <1>2, <1>3, <1>4, <1>5, <1>6 DEF PlayerCall

LEMMA JoinInvariant ==
    Spec /\ [][JoinNotRaised]_vars => []JoinIInv
<1>1. Init => JoinIInv
  BY DEF Init, JoinIInv, DrawnAfterJoining, FinishedGameIsSettled, NoGame, GameOver
<1> QED
  BY <1>1, StepJoin, Invariant, RulesInvariant, HistoryInvariant, PTL DEF Spec

\* The hypothesis holds of every behaviour if the owner has no other value to
\* set, as in the runs play and concurrent.
THEOREM ConstantIsNotRaised ==
    ASSUME JoinDurations \subseteq {InitialJoinDuration}
    PROVE  Spec => [][JoinNotRaised]_vars
<1> DEFINE Same == gameSettings.minimumJoinDuration = InitialJoinDuration
<1>1. Init => Same
  BY DEF Init
<1>2. IInv /\ Same /\ [Next]_vars => Same'
  BY SettingSteps
<1>3. Same /\ Same' => JoinNotRaised
  BY DurationFacts DEF JoinNotRaised
<1> QED
  BY <1>1, <1>2, <1>3, Invariant, PTL DEF Spec

\* The winner's pot stays empty: unless the join duration is raised no fee is
\* ever paid into a game that is over.
THEOREM NoFeeAfterTheEnd ==
    Spec /\ [][JoinNotRaised]_vars => []FinishedGameIsSettled
<1>1. JoinIInv => FinishedGameIsSettled
  BY DEF JoinIInv
<1> QED
  BY <1>1, JoinInvariant, PTL

\* Once a number was drawn nobody can change cards.
LEMMA FixedStep ==
    ASSUME IInv, HistoryIInv, JoinIInv, [Next]_vars, NEW p \in Player,
           NEW id \in GameId, drawn[id] # {}
    PROVE  /\ playerRegistry'[p][id].numberStorage =
                 playerRegistry[p][id].numberStorage
           /\ playerRegistry[p][id].hitStorage \subseteq
                 playerRegistry'[p][id].hitStorage
<1> DEFINE Fixed == /\ playerRegistry'[p][id].numberStorage =
                          playerRegistry[p][id].numberStorage
                    /\ playerRegistry[p][id].hitStorage \subseteq
                          playerRegistry'[p][id].hitStorage
<1>1. ASSUME NEW sender \in Player, createGame(sender)
      PROVE  Fixed
  <2>1. PICK new \in GameId :
           /\ gameRegistry[new].createdAt = 0
           /\ playerRegistry' =
                 [playerRegistry EXCEPT ![sender][new] = DealtCard]
    BY <1>1 DEF createGame
  <2>2. new # id
    BY <2>1 DEF HistoryIInv, NoHistoryBeforeCreation
  <2> QED
    BY <2>1, <2>2 DEF IInv, GameTypeOK
<1>2. ASSUME NEW sender \in Player, NEW i \in GameId, joinGame(sender, i)
      PROVE  Fixed
  <2>1. i # id
    BY <1>2, NobodyJoinsLate DEF JoinIInv
  <2> QED
    BY <1>2, <2>1 DEF joinGame, IInv, GameTypeOK
<1>3. ASSUME NEW sender \in Player, NEW i \in GameId,
             markNumberOnCard(sender, i)
      PROVE  Fixed
  BY <1>3 DEF markNumberOnCard, IInv, GameTypeOK, Cards
<1>4. ASSUME UNCHANGED playerRegistry
      PROVE  Fixed
  BY <1>4
<1>5. ASSUME NEW sender \in Player, NEW i \in GameId,
             drawNumber(sender, i) \/ claimPrize(sender, i)
      PROVE  Fixed
  BY <1>4, <1>5 DEF drawNumber, claimPrize
<1>6. ASSUME NEW sender \in Address, OwnerCall(sender)
      PROVE  Fixed
  BY <1>4, <1>6 DEF OwnerCall, updateEntryFee, updateJoinDuration,
                    updateUpdateTurnDuration
<1>7. ASSUME tokenCall \/ newBlock \/ UNCHANGED vars
      PROVE  Fixed
  BY <1>4, <1>7 DEF tokenCall, newBlock, vars, gameVars
<1> HIDE DEF Fixed
<1>8. Fixed
  BY <1>1, <1>2, <1>3, <1>5, <1>6, <1>7 DEF Next, PlayerCall
<1> QED
  BY <1>8 DEF Fixed

\* "player can't rejoin the game to reset their card once the game has
\* started", unless the join duration is raised.
THEOREM NoNewCardOncePlayBegins ==
    Spec /\ [][JoinNotRaised]_vars => CardsFixedOncePlayBegins
<1>1. IInv /\ HistoryIInv /\ JoinIInv /\ [Next]_vars =>
        [\A p \in Player, id \in GameId : drawn[id] # {} =>
            /\ playerRegistry'[p][id].numberStorage =
                  playerRegistry[p][id].numberStorage
            /\ playerRegistry[p][id].hitStorage \subseteq
                  playerRegistry'[p][id].hitStorage]_vars
  BY FixedStep
<1> QED
  BY <1>1, Invariant, HistoryInvariant, JoinInvariant, PTL
     DEF Spec, CardsFixedOncePlayBegins

-------------------------------------------------------------------------------
(* What holds while the durations, or the fee, do not fall below the       *)
(* constructor's.                                                          *)

LEMMA SpacedDraw ==
    ASSUME IInv, SpacedIInv, NEW sender \in Player, NEW id \in GameId,
           drawNumber(sender, id)
    PROVE  gameRegistry'[id].lastDrawnAt - gameRegistry'[id].createdAt
              >= (InitialJoinDuration + 1)
                   + (draws'[id] - 1) * (InitialTurnDuration + 1)
<1>1. PICK now \in Nat, start \in Nat, last \in Nat, n \in Nat :
         /\ now = block.timestamp /\ start = gameRegistry[id].createdAt
         /\ last = gameRegistry[id].lastDrawnAt /\ n = draws[id]
  BY GameFacts
<1>2. /\ now > start + gameSettings.minimumJoinDuration
      /\ now > last + gameSettings.minimumTurnDuration
      /\ gameRegistry'[id].createdAt = start
      /\ gameRegistry'[id].lastDrawnAt = now
      /\ draws'[id] = n + 1
  BY <1>1, drawNumberSettled
<1>3. /\ now >= start + (InitialJoinDuration + 1)
      /\ now >= last + (InitialTurnDuration + 1)
      /\ InitialTurnDuration + 1 \in Nat /\ InitialJoinDuration + 1 \in Nat
  BY <1>2, SettingFacts, DurationFacts DEF SpacedIInv
<1>4. CASE n = 0
  <2>1. (draws'[id] - 1) * (InitialTurnDuration + 1) = 0
    BY <1>2, <1>4, DurationFacts
  <2> QED
    BY <1>2, <1>3, <2>1, DurationFacts
<1>5. CASE n # 0
  <2>1. last - start >= (InitialJoinDuration + 1)
                           + (n - 1) * (InitialTurnDuration + 1)
    BY <1>1, <1>5 DEF SpacedIInv, DrawsAreSpaced
  <2>2. n \in Nat \ {0}
    BY <1>5
  <2>3. now - start >= (InitialJoinDuration + 1)
                          + ((n + 1) - 1) * (InitialTurnDuration + 1)
    BY <1>3, <2>1, <2>2, OneMoreTurn
  <2> QED
    BY <1>2, <2>3
<1> QED
  BY <1>4, <1>5

LEMMA StepSpaced ==
    ASSUME DurationsNotLowered, IInv, RulesIInv, HistoryIInv, SpacedIInv,
           [Next]_vars
    PROVE  SpacedIInv'
<1>1. /\ gameSettings'.minimumJoinDuration >= InitialJoinDuration
      /\ gameSettings'.minimumTurnDuration >= InitialTurnDuration
  BY SettingSteps DEF SpacedIInv, DurationsNotLowered
<1>2. ASSUME NEW sender \in Player, createGame(sender)
      PROVE  DrawsAreSpaced'
  <2>1. PICK id \in GameId :
             /\ draws[id] = 0
             /\ \A i \in GameId : i # id => gameRegistry'[i] = gameRegistry[i]
             /\ UNCHANGED draws
    BY <1>2, createGameSettled
  <2> QED
    BY <2>1 DEF SpacedIInv, DrawsAreSpaced
<1>3. ASSUME NEW sender \in Player, NEW id \in GameId, joinGame(sender, id)
      PROVE  DrawsAreSpaced'
  <2>1. /\ gameRegistry'[id].createdAt = gameRegistry[id].createdAt
        /\ gameRegistry'[id].lastDrawnAt = gameRegistry[id].lastDrawnAt
        /\ \A i \in GameId : i # id => gameRegistry'[i] = gameRegistry[i]
        /\ UNCHANGED draws
    BY <1>3, joinGameSettled
  <2> QED
    BY <2>1 DEF SpacedIInv, DrawsAreSpaced
<1>4. ASSUME NEW sender \in Player, NEW id \in GameId, drawNumber(sender, id)
      PROVE  DrawsAreSpaced'
  <2>1. \A i \in GameId : i # id => /\ gameRegistry'[i] = gameRegistry[i]
                                    /\ draws'[i] = draws[i]
    BY <1>4, drawNumberSettled
  <2>2. gameRegistry'[id].lastDrawnAt - gameRegistry'[id].createdAt
           >= (InitialJoinDuration + 1)
                + (draws'[id] - 1) * (InitialTurnDuration + 1)
    BY <1>4, SpacedDraw
  <2> QED
    BY <2>1, <2>2 DEF SpacedIInv, DrawsAreSpaced
<1>5. ASSUME NEW sender \in Player, NEW id \in GameId,
             markNumberOnCard(sender, id)
      PROVE  DrawsAreSpaced'
  <2>1. UNCHANGED <<gameRegistry, draws>>
    BY <1>5, markNumberOnCardSettled
  <2> QED
    BY <2>1 DEF SpacedIInv, DrawsAreSpaced
<1>6. ASSUME NEW sender \in Player, NEW id \in GameId, claimPrize(sender, id)
      PROVE  DrawsAreSpaced'
  <2>1. /\ gameRegistry'[id].createdAt = gameRegistry[id].createdAt
        /\ gameRegistry'[id].lastDrawnAt = gameRegistry[id].lastDrawnAt
        /\ \A i \in GameId : i # id => gameRegistry'[i] = gameRegistry[i]
        /\ UNCHANGED draws
    BY <1>6, claimPrizeSettled
  <2> QED
    BY <2>1 DEF SpacedIInv, DrawsAreSpaced
<1>7. ASSUME ~ \E sender \in Player : PlayerCall(sender)
      PROVE  DrawsAreSpaced'
  <2>1. Quiet
    BY <1>7, QuietSteps
  <2> QED
    BY <2>1 DEF Quiet, SpacedIInv, DrawsAreSpaced
<1>8. DrawsAreSpaced'
  BY <1>2, <1>3, <1>4, <1>5, <1>6, <1>7 DEF PlayerCall
<1> QED
  BY <1>1, <1>8 DEF SpacedIInv

\* n draws of one game, whoever makes them, take a join period and n - 1 turns
\* as the constructor set them, unless the owner sets shorter ones.
THEOREM DrawsTakeTheirTime ==
    ASSUME DurationsNotLowered
    PROVE  Spec => []DrawsAreSpaced
<1>1. Init => SpacedIInv
  BY DurationFacts DEF Init, SpacedIInv, DrawsAreSpaced
<1>2. SpacedIInv => DrawsAreSpaced
  BY DEF SpacedIInv
<1> QED
  BY <1>1, <1>2, StepSpaced, Invariant, RulesInvariant, HistoryInvariant, PTL
     DEF Spec

\* A deal adds at most the sender to the members, and takes the fee.
LEMMA DealIsPaid ==
    ASSUME IInv, PaidIInv, NEW sender \in Player, NEW id \in GameId,
           playerRegistry' = [playerRegistry EXCEPT ![sender][id] = DealtCard],
           feesPaid' = [feesPaid EXCEPT ![id] = feesPaid[id] + gameSettings.entryFee]
    PROVE  MembersHavePaid'
<1>1. PICK fee \in Nat : fee = gameSettings.entryFee
  BY SettingFacts
<1>2. /\ feesPaid[id] \in Nat
      /\ feesPaid'[id] = feesPaid[id] + fee
      /\ \A i \in GameId : i # id => feesPaid'[i] = feesPaid[i]
  BY <1>1 DEF IInv, GameTypeOK
<1>3. /\ \A p \in Player, i \in GameId : i # id =>
            playerRegistry'[p][i] = playerRegistry[p][i]
      /\ \A p \in Player : p # sender =>
            playerRegistry'[p][id] = playerRegistry[p][id]
  BY DEF IInv, GameTypeOK
<1>4. \A i \in GameId : i # id => Members(i)' = Members(i)
  BY <1>3 DEF Members, checkGameHasPlayer
<1>5. Members(id)' \subseteq Members(id) \cup {sender}
  BY <1>3 DEF Members, checkGameHasPlayer
<1>6. MembersHavePaid /\ fee >= InitialEntryFee
  BY <1>1 DEF PaidIInv
<1>7. feesPaid'[id] >= InitialEntryFee * Cardinality(Members(id)')
  BY <1>2, <1>5, <1>6, OneMoreMember
<1>8. \A i \in GameId :
         feesPaid'[i] >= InitialEntryFee * Cardinality(Members(i)')
  BY <1>2, <1>4, <1>6, <1>7 DEF MembersHavePaid, Members
<1> QED
  BY <1>8 DEF MembersHavePaid, Members

LEMMA StepPaid ==
    ASSUME FeeNotLowered, IInv, RulesIInv, HistoryIInv, CardsHaveFreeTile,
           PaidIInv, [Next]_vars
    PROVE  PaidIInv'
<1>1. gameSettings'.entryFee >= InitialEntryFee
  BY SettingSteps DEF PaidIInv, FeeNotLowered
<1>2. ASSUME NEW sender \in Player, createGame(sender)
      PROVE  MembersHavePaid'
  <2>1. PICK id \in GameId :
             /\ playerRegistry' = [playerRegistry EXCEPT ![sender][id] = DealtCard]
             /\ feesPaid' = [feesPaid EXCEPT ![id] = feesPaid[id] + gameSettings.entryFee]
    BY <1>2, createGameSettled
  <2> QED
    BY <2>1, DealIsPaid
<1>3. ASSUME NEW sender \in Player, NEW id \in GameId, joinGame(sender, id)
      PROVE  MembersHavePaid'
  <2>1. /\ playerRegistry' = [playerRegistry EXCEPT ![sender][id] = DealtCard]
        /\ feesPaid' = [feesPaid EXCEPT ![id] = feesPaid[id] + gameSettings.entryFee]
    BY <1>3, joinGameSettled
  <2> QED
    BY <2>1, DealIsPaid
<1>4. ASSUME UNCHANGED <<playerRegistry, feesPaid>>
      PROVE  MembersHavePaid'
  BY <1>4 DEF PaidIInv, MembersHavePaid, checkGameHasPlayer
<1>5. ASSUME NEW sender \in Player, NEW id \in GameId, drawNumber(sender, id)
      PROVE  MembersHavePaid'
  BY <1>4, <1>5, drawNumberSettled
<1>6. ASSUME NEW sender \in Player, NEW id \in GameId, claimPrize(sender, id)
      PROVE  MembersHavePaid'
  BY <1>4, <1>6, claimPrizeSettled
<1>7. ASSUME NEW sender \in Player, NEW id \in GameId,
             markNumberOnCard(sender, id)
      PROVE  MembersHavePaid'
  <2>1. /\ playerRegistry[sender][id].numberStorage # EmptyWord
        /\ \A p \in Player, i \in GameId :
              p # sender \/ i # id => playerRegistry'[p][i] = playerRegistry[p][i]
        /\ playerRegistry[sender][id].hitStorage \subseteq
              playerRegistry'[sender][id].hitStorage
        /\ UNCHANGED feesPaid
    BY <1>7, markNumberOnCardSettled
  <2>2. playerRegistry[sender][id].hitStorage # {}
    BY <2>1 DEF CardsHaveFreeTile, NoCard
  <2>3. \A i \in GameId : Members(i)' = Members(i)
    BY <2>1, <2>2 DEF Members, checkGameHasPlayer
  <2>4. \A i \in GameId :
           feesPaid'[i] >= InitialEntryFee * Cardinality(Members(i)')
    BY <2>1, <2>3 DEF PaidIInv, MembersHavePaid, Members
  <2> QED
    BY <2>4 DEF MembersHavePaid, Members
<1>8. ASSUME ~ \E sender \in Player : PlayerCall(sender)
      PROVE  MembersHavePaid'
  BY <1>4, <1>8, QuietSteps DEF Quiet
<1>9. MembersHavePaid'
  BY <1>2, <1>3, <1>5, <1>6, <1>7, <1>8 DEF PlayerCall
<1> QED
  BY <1>1, <1>9 DEF PaidIInv

\* Nobody plays for free, in any number of games and players.
THEOREM EveryMemberPaid ==
    ASSUME FeeNotLowered
    PROVE  Spec => []MembersHavePaid
<1>1. Init => PaidIInv
  <2> SUFFICES ASSUME Init PROVE PaidIInv
    OBVIOUS
  <2>1. ASSUME NEW id \in GameId
        PROVE  feesPaid[id] >= InitialEntryFee * Cardinality(Members(id))
    <3>1. Members(id) = {}
      BY DEF Init, Members, checkGameHasPlayer, NoCard
    <3>2. Cardinality(Members(id)) = 0
      BY <3>1, FS_EmptySet
    <3> QED
      BY <3>2, DurationFacts DEF Init
  <2>2. gameSettings.entryFee >= InitialEntryFee
    BY DurationFacts DEF Init
  <2> QED
    BY <2>1, <2>2 DEF PaidIInv, MembersHavePaid, Members
<1>2. PaidIInv => MembersHavePaid
  BY DEF PaidIInv
<1> QED
  BY <1>1, <1>2, StepPaid, Invariant, RulesInvariant, HistoryInvariant,
     CardsInvariant, PTL DEF Spec

-------------------------------------------------------------------------------
(* The contract as escrow: every step deposits, pays out, or is none of    *)
(* the pots' business.                                                     *)

LEMMA FeeLeavesWallet ==
    ASSUME IInv, NEW sender \in Player, NEW fee \in Uint256,
           PayFee(sender, fee)
    PROVE  PlayerWallets' = [PlayerWallets EXCEPT ![sender] = @ - fee]
<1>1. sender \in Address /\ sender # This /\ This \in Address
      /\ Player \subseteq Address /\ This \notin Player
  BY GameIdFacts
<1>2. fee \in 0 .. balances[sender]
  BY <1>1, TokenFacts DEF IInv, PayFee, transferFrom, Uint256
<1>3. balances' = [balances EXCEPT ![sender] = @ - fee, ![This] = @ + fee]
  BY <1>1, <1>2, TokenFacts, MovedConserves DEF IInv, PayFee, transferFrom
<1>4. balances \in [Address -> Nat]
  BY TokenFacts DEF IInv
<1> QED
  BY <1>1, <1>3, <1>4 DEF PlayerWallets

LEMMA PrizeReachesWallet ==
    ASSUME IInv, NEW sender \in Player, NEW prize \in 0 .. MaxUint64,
           PayPrize(sender, prize)
    PROVE  PlayerWallets' = [PlayerWallets EXCEPT ![sender] = @ + prize]
<1>1. sender \in Address /\ sender # This /\ This \in Address
      /\ Player \subseteq Address /\ This \notin Player
  BY GameIdFacts
<1>2. prize \in 0 .. balances[This]
  BY <1>1, TokenFacts DEF IInv, PayPrize
<1>3. balances' = [balances EXCEPT ![This] = @ - prize, ![sender] = @ + prize]
  BY <1>1, <1>2, TokenFacts, MovedConserves DEF IInv, PayPrize
<1>4. balances \in [Address -> Nat]
  BY TokenFacts DEF IInv
<1> QED
  BY <1>1, <1>3, <1>4 DEF PlayerWallets

LEMMA WalletsAreNat ==
    ASSUME TokenIInv
    PROVE  PlayerWallets \in [Player -> Nat]
BY GameIdFacts, TokenFacts DEF PlayerWallets

\* A fee that is paid, and the card that is dealt for it, is a deposit.
LEMMA FeeIsDeposit ==
    ASSUME IInv, NEW sender \in Player, NEW id \in GameId,
           NEW fee \in Uint256, PayFee(sender, fee),
           gameRegistry[id].lastDrawnNumber # GameOver
              \/ gameRegistry[id].createdAt = 0,
           gameRegistry'[id].prizePool = gameRegistry[id].prizePool + fee,
           gameRegistry'[id].lastDrawnNumber # GameOver,
           gameRegistry'[id].createdAt # 0,
           \A i \in GameId : i # id => gameRegistry'[i] = gameRegistry[i],
           playerRegistry' = [playerRegistry EXCEPT ![sender][id] = DealtCard]
    PROVE  Pots!Deposit(sender, id)
<1>1. fee \in Nat /\ fee <= balances[sender]
  BY FeePaid
<1>2. fee \in 0 .. PlayerWallets[sender]
  BY <1>1, WalletsAreNat DEF IInv, PlayerWallets
<1>3. prizePools' = [prizePools EXCEPT ![id] = @ + fee]
  BY DEF prizePools
<1>4. GameMembers' = [GameMembers EXCEPT ![id] = @ \cup {sender}]
  <2>1. \A p \in Player, i \in GameId :
          checkGameHasPlayer(p, i)' <=>
             checkGameHasPlayer(p, i) \/ (p = sender /\ i = id)
    BY DEF checkGameHasPlayer, DealtCard, IInv, GameTypeOK
  <2> QED
    BY <2>1 DEF GameMembers
<1>5. GamePhases' = [GamePhases EXCEPT ![id] = "open"]
  BY DEF GamePhases, PhaseOf
<1>6. GamePhases[id] # "closed"
  BY DEF GamePhases, PhaseOf
<1> QED
  BY <1>2, <1>3, <1>4, <1>5, <1>6, FeeLeavesWallet DEF Pots!Deposit

LEMMA createGameDeposits ==
    ASSUME IInv, NEW sender \in Player, createGame(sender)
    PROVE  \E id \in GameId : Pots!Deposit(sender, id)
<1> DEFINE fee == gameSettings.entryFee
<1>0. PICK id \in GameId : id = gameIdOf(sender)
  BY DEF createGame
<1>1. /\ gameRegistry[id].createdAt = 0 /\ gameRegistry[id] = NoGame
      /\ fee \in Uint256 /\ PayFee(sender, fee)
      /\ Uint64(block.timestamp) = block.timestamp
      /\ block.timestamp \in 1 .. MaxTimestamp
  BY <1>0, WidthFacts DEF createGame, IInv, GameTypeOK, FreshGames
<1>2. fee \in Nat /\ fee <= balances[sender]
  BY <1>1, FeePaid
<1>3. Uint64(fee) = fee
  BY <1>0, <1>2, AffordableFee
<1>4. /\ gameRegistry' = [gameRegistry EXCEPT ![id] =
            [lastDrawnNumber |-> NoNumberYet,
             lastDrawnAt |-> block.timestamp,
             prizePool |-> fee,
             createdAt |-> block.timestamp]]
      /\ playerRegistry' = [playerRegistry EXCEPT ![sender][id] = DealtCard]
  BY <1>0, <1>1, <1>3 DEF createGame
<1>5. /\ gameRegistry'[id].prizePool = gameRegistry[id].prizePool + fee
      /\ gameRegistry'[id].lastDrawnNumber # GameOver
      /\ gameRegistry'[id].createdAt # 0
      /\ \A i \in GameId : i # id => gameRegistry'[i] = gameRegistry[i]
  BY <1>1, <1>2, <1>4, WidthFacts, CodeFacts DEF NoGame, IInv, GameTypeOK
<1> QED
  BY <1>1, <1>4, <1>5, FeeIsDeposit

LEMMA joinGameDeposits ==
    ASSUME IInv, HistoryIInv, JoinIInv, NEW sender \in Player,
           NEW id \in GameId, joinGame(sender, id)
    PROVE  Pots!Deposit(sender, id)
<1> DEFINE fee == gameSettings.entryFee
<1>1. fee \in Uint256 /\ PayFee(sender, fee)
  BY DEF joinGame, IInv, GameTypeOK
<1>2. fee \in Nat /\ fee <= balances[sender]
  BY <1>1, FeePaid
<1>3. Uint64(fee) = fee
  BY <1>2, AffordableFee
<1>4. gameRegistry' = [gameRegistry EXCEPT ![id].prizePool = @ + fee]
  BY <1>3 DEF joinGame
<1>5. /\ gameRegistry[id].createdAt > 0 /\ gameRegistry[id].createdAt \in Nat
      /\ playerRegistry' = [playerRegistry EXCEPT ![sender][id] = DealtCard]
  BY WidthFacts DEF joinGame, IInv, GameTypeOK, Games
<1>6. gameRegistry[id].lastDrawnNumber # GameOver
  BY NobodyJoinsLate DEF JoinIInv
<1>7. /\ gameRegistry'[id].prizePool = gameRegistry[id].prizePool + fee
      /\ gameRegistry'[id].lastDrawnNumber # GameOver
      /\ gameRegistry'[id].createdAt # 0
      /\ \A i \in GameId : i # id => gameRegistry'[i] = gameRegistry[i]
  BY <1>4, <1>5, <1>6 DEF IInv, GameTypeOK, Games
<1> QED
  BY <1>1, <1>5, <1>6, <1>7, FeeIsDeposit

LEMMA claimPrizePaysOut ==
    ASSUME IInv, NEW sender \in Player, NEW id \in GameId,
           claimPrize(sender, id)
    PROVE  Pots!PayOut(sender, id)
<1> DEFINE prize == gameRegistry[id].prizePool
<1>1. /\ prize \in 0 .. MaxUint64 /\ PayPrize(sender, prize)
      /\ gameRegistry[id].createdAt > 0
      /\ gameRegistry[id].createdAt \in Nat
      /\ gameRegistry[id].lastDrawnNumber # GameOver
      /\ UNCHANGED playerRegistry
  BY WidthFacts, PoolFacts DEF claimPrize, onlyPlayer, IInv, GameTypeOK, Games
<1>2. /\ gameRegistry'[id].prizePool = 0
      /\ gameRegistry'[id].lastDrawnNumber = GameOver
      /\ gameRegistry'[id].createdAt = gameRegistry[id].createdAt
      /\ \A i \in GameId : i # id => gameRegistry'[i] = gameRegistry[i]
  BY DEF claimPrize, IInv, GameTypeOK, Games
<1>3. PlayerWallets' = [PlayerWallets EXCEPT ![sender] = @ + prizePools[id]]
  BY <1>1, PrizeReachesWallet DEF prizePools
<1>4. prizePools' = [prizePools EXCEPT ![id] = 0]
  BY <1>2 DEF prizePools
<1>5. GamePhases[id] = "open"
      /\ GamePhases' = [GamePhases EXCEPT ![id] = "closed"]
  <2>1. gameRegistry[id].createdAt # 0 /\ gameRegistry'[id].createdAt # 0
    BY <1>1, <1>2
  <2>2. PhaseOf(gameRegistry[id]) = "open"
        /\ PhaseOf(gameRegistry'[id]) = "closed"
    BY <1>1, <1>2, <2>1 DEF PhaseOf
  <2>3. GamePhases' = [i \in GameId |->
                         IF i = id THEN "closed" ELSE GamePhases[i]]
    BY <1>2, <2>2 DEF GamePhases
  <2> QED
    BY <2>2, <2>3 DEF GamePhases
<1>6. sender \in GameMembers[id] /\ UNCHANGED GameMembers
  <2>1. \E mask \in winningBingoMasks :
          mask \subseteq playerRegistry[sender][id].hitStorage
    BY DEF claimPrize, checkForBingo
  <2>2. \A mask \in winningBingoMasks : mask # {}
    BY DEF winningBingoMasks
  <2> QED
    BY <1>1, <2>1, <2>2 DEF GameMembers, checkGameHasPlayer
<1> QED
  BY <1>3, <1>4, <1>5, <1>6 DEF Pots!PayOut

\* Draws and marks leave every pot as it is.
LEMMA PlayLeavesPots ==
    ASSUME IInv, CardsHaveFreeTile, NEW sender \in Player, NEW id \in GameId,
           drawNumber(sender, id) \/ markNumberOnCard(sender, id)
    PROVE  UNCHANGED <<PlayerWallets, prizePools, GameMembers, GamePhases>>
<1>1. CASE drawNumber(sender, id)
  <2>1. /\ block.entropy.number \in DrawRange
        /\ gameRegistry[id].lastDrawnNumber # GameOver
        /\ UNCHANGED <<balances, playerRegistry>>
    BY <1>1 DEF drawNumber, onlyPlayer, IInv, GameTypeOK, Entropy, tokenVars
  <2>2. \A i \in GameId :
          /\ gameRegistry'[i].prizePool = gameRegistry[i].prizePool
          /\ gameRegistry'[i].createdAt = gameRegistry[i].createdAt
          /\ gameRegistry'[i].lastDrawnNumber = GameOver
                <=> gameRegistry[i].lastDrawnNumber = GameOver
    BY <1>1, <2>1, CodeFacts DEF drawNumber, IInv, GameTypeOK, Games
  <2> QED
    BY <2>1, <2>2 DEF PlayerWallets, prizePools, GameMembers, GamePhases,
                      PhaseOf, checkGameHasPlayer
<1>2. CASE markNumberOnCard(sender, id)
  <2>1. /\ UNCHANGED <<balances, gameRegistry>>
        /\ playerRegistry[sender][id].hitStorage # {}
    BY <1>2 DEF markNumberOnCard, onlyPlayer, tokenVars, CardsHaveFreeTile,
                NoCard
  <2>2. \A p \in Player, i \in GameId :
          playerRegistry'[p][i].hitStorage = {}
             <=> playerRegistry[p][i].hitStorage = {}
    BY <1>2, <2>1 DEF markNumberOnCard, IInv, GameTypeOK, Cards
  <2> QED
    BY <2>1, <2>2 DEF PlayerWallets, prizePools, GameMembers, GamePhases,
                      PhaseOf, checkGameHasPlayer
<1> QED
  BY <1>1, <1>2

LEMMA EscrowStep ==
    ASSUME IInv, IInv', CardsHaveFreeTile, HistoryIInv, JoinIInv, [Next]_vars
    PROVE  [Pots!Next]_Pots!escrowVars
<1>1. ASSUME NEW sender \in Player, PlayerCall(sender)
      PROVE  [Pots!Next]_Pots!escrowVars
  <2>1. CASE createGame(sender)
    BY <2>1, createGameDeposits DEF Pots!Next
  <2>2. ASSUME NEW id \in GameId, joinGame(sender, id)
        PROVE  [Pots!Next]_Pots!escrowVars
    BY <2>2, joinGameDeposits DEF Pots!Next
  <2>3. ASSUME NEW id \in GameId,
               drawNumber(sender, id) \/ markNumberOnCard(sender, id)
        PROVE  [Pots!Next]_Pots!escrowVars
    BY <2>3, PlayLeavesPots DEF Pots!escrowVars
  <2>4. ASSUME NEW id \in GameId, claimPrize(sender, id)
        PROVE  [Pots!Next]_Pots!escrowVars
    BY <2>4, claimPrizePaysOut DEF Pots!Next
  <2> QED
    BY <1>1, <2>1, <2>2, <2>3, <2>4 DEF PlayerCall
<1>2. PlayerWallets' \in [Player -> Nat]
  <2>1. balances' \in [Address -> Nat]
    BY WidthFacts DEF IInv, TokenIInv, TokenTypeOK, Uint256
  <2> QED
    BY <2>1, GameIdFacts DEF PlayerWallets
<1>3. UNCHANGED <<gameRegistry, playerRegistry>> => Pots!Elsewhere
  BY <1>2 DEF Pots!Elsewhere, prizePools, GameMembers, GamePhases,
              checkGameHasPlayer, PhaseOf
<1>4. ASSUME NEW sender \in Address, OwnerCall(sender)
      PROVE  UNCHANGED <<gameRegistry, playerRegistry>>
  BY <1>4 DEF OwnerCall, updateEntryFee, updateJoinDuration,
              updateUpdateTurnDuration
<1>5. tokenCall \/ newBlock \/ UNCHANGED vars
         => UNCHANGED <<gameRegistry, playerRegistry>>
  BY DEF tokenCall, newBlock, gameVars, vars
<1> QED
  BY <1>1, <1>3, <1>4, <1>5 DEF Next, Pots!Next

\* The game contract implements the escrow, for any number of players and of
\* games, whatever the entropy, the clock, the token's other users and the owner
\* do, unless the join duration is raised.
THEOREM EscrowImplemented ==
    Spec /\ [][JoinNotRaised]_vars => GamesAreEscrows
<1>1. Init /\ IInv => Pots!Init
  <2> SUFFICES ASSUME Init, IInv PROVE Pots!Init
    OBVIOUS
  <2>1. PlayerWallets \in [Player -> Nat]
    BY WalletsAreNat DEF IInv
  <2>2. /\ prizePools = [id \in GameId |-> 0]
        /\ GamePhases = [id \in GameId |-> "absent"]
    BY DEF Init, prizePools, GamePhases, PhaseOf, NoGame
  <2>3. GameMembers = [id \in GameId |-> {}]
    BY DEF Init, GameMembers, checkGameHasPlayer, NoCard
  <2> QED
    BY <2>1, <2>2, <2>3 DEF Pots!Init
<1>2. IInv /\ IInv' /\ CardsHaveFreeTile /\ HistoryIInv /\ JoinIInv
      /\ [Next]_vars => [Pots!Next]_Pots!escrowVars
  BY EscrowStep
<1> QED
  BY <1>1, <1>2, Invariant, CardsInvariant, HistoryInvariant, JoinInvariant, PTL
     DEF Spec, GamesAreEscrows, Pots!Spec

-------------------------------------------------------------------------------
(* The events are enough: what a dApp replays from them is what the        *)
(* registry has of cards, hits, starts and numbers, for every sequence of  *)
(* calls.                                                                  *)

Pictures == [cards : [Player -> [GameId -> Cards]],
             created : [GameId -> Nat],
             number : [GameId -> DrawRange \cup {NoNumberYet, GameOver}],
             prize : [GameId -> Nat]]

\* The replay agrees with the registry and its pools: inductive with IInv,
\* which gives the cards their types and resolves the conversions of the fee.
EventIInv ==
    /\ shown \in Pictures
    /\ ReplayShowsRegistry
    /\ PrizesShownAddUp

\* What the contract's specification says holds with the events as well.
THEOREM EventsAreSideEffects ==
    EventSpec => Spec
<1>1. EventInit => Init
  BY DEF EventInit
<1>2. [EventNext]_eventVars => [Next]_vars
  BY DEF EventNext, eventVars, created, joined, numberDrawn, hitRecorded,
         claimed, silent, Next, PlayerCall
<1> QED
  BY <1>1, <1>2, PTL DEF EventSpec, Spec

LEMMA InitEvents ==
    IInv /\ EventInit => EventIInv
<1> SUFFICES ASSUME IInv, EventInit PROVE EventIInv
  OBVIOUS
<1>1. shown \in Pictures
  BY NoGameType, CodeFacts DEF EventInit, Blank, Pictures
<1> QED
  BY <1>1 DEF EventInit, Blank, Init, EventIInv, ReplayShowsRegistry,
              PrizesShownAddUp, NoGame

\* createGame and its event.
LEMMA createdEvents ==
    ASSUME IInv, IInv', EventIInv, NEW sender \in Player, created(sender)
    PROVE  EventIInv'
<1> DEFINE id == gameIdOf(sender)
           fee == gameSettings.entryFee
           time == block.timestamp
<1>1. /\ id \in GameId /\ fee \in Uint256 /\ PayFee(sender, fee)
      /\ gameRegistry[id] = NoGame
      /\ time \in 1 .. MaxTimestamp /\ Uint64(time) = time
  BY WidthFacts DEF created, createGame, IInv, GameTypeOK, FreshGames
<1>2. fee \in Nat /\ fee <= balances[sender] /\ Received = fee
  BY <1>1, FeePaid
<1>3. Uint64(fee) = fee
  BY <1>1, <1>2, AffordableFee
<1>4. /\ gameRegistry' = [gameRegistry EXCEPT ![id] =
            [lastDrawnNumber |-> NoNumberYet, lastDrawnAt |-> time,
             prizePool |-> fee, createdAt |-> time]]
      /\ playerRegistry' = [playerRegistry EXCEPT ![sender][id] = DealtCard]
      /\ feesPaid' = [feesPaid EXCEPT ![id] = @ + fee]
  BY <1>1, <1>2, <1>3 DEF created, createGame
<1>5. shown' = [shown EXCEPT !.cards[sender][id] = DealtCard,
                             !.created[id] = time,
                             !.number[id] = NoNumberYet]
  BY DEF created, GameCreated, NewCard, DealtCard, EventIInv, Pictures
<1>6. DealtCard \in Cards /\ time \in Nat
  BY <1>1, DealtCardType, WidthFacts DEF IInv
<1>7. shown' \in Pictures
  BY <1>1, <1>5, <1>6 DEF EventIInv, Pictures
<1>8. ReplayShowsRegistry'
  <2>1. shown'.cards = playerRegistry'
    BY <1>4, <1>5 DEF EventIInv, Pictures, ReplayShowsRegistry
  <2>2. \A i \in GameId :
           /\ shown'.created[i] = gameRegistry'[i].createdAt
           /\ shown'.number[i] = gameRegistry'[i].lastDrawnNumber
    BY <1>1, <1>4, <1>5
       DEF EventIInv, Pictures, ReplayShowsRegistry, IInv, GameTypeOK
  <2> QED
    BY <1>7, <2>1, <2>2 DEF ReplayShowsRegistry, Pictures
<1>9. PrizesShownAddUp'
  <2>1. /\ feesPaid \in [GameId -> Nat] /\ gameRegistry \in [GameId -> Games]
        /\ shown.prize \in [GameId -> Nat] /\ shown'.prize = shown.prize
        /\ feesPaid[id] = shown.prize[id] + 0
    BY <1>1, <1>5
       DEF IInv, GameTypeOK, EventIInv, Pictures, PrizesShownAddUp, NoGame
  <2>2. /\ feesPaid'[id] = feesPaid[id] + fee /\ gameRegistry'[id].prizePool = fee
        /\ \A i \in GameId \ {id} :
              feesPaid'[i] = feesPaid[i] /\ gameRegistry'[i] = gameRegistry[i]
    BY <1>1, <1>4, <2>1
  <2>3. feesPaid'[id] = shown'.prize[id] + gameRegistry'[id].prizePool
    BY <1>1, <1>2, <2>1, <2>2
  <2> QED
    BY <2>1, <2>2, <2>3 DEF EventIInv, PrizesShownAddUp
<1> QED
  BY <1>7, <1>8, <1>9 DEF EventIInv

\* joinGame and its event.
LEMMA joinedEvents ==
    ASSUME IInv, IInv', EventIInv, NEW sender \in Player, NEW id \in GameId,
           joined(sender, id)
    PROVE  EventIInv'
<1>1. PICK fee \in Nat :
         /\ gameRegistry' = [gameRegistry EXCEPT ![id].prizePool = @ + fee]
         /\ playerRegistry' = [playerRegistry EXCEPT ![sender][id] = DealtCard]
         /\ feesPaid' = [feesPaid EXCEPT ![id] = @ + fee]
  BY joinGameEffect DEF joined
<1>2. shown' = [shown EXCEPT !.cards[sender][id] = DealtCard]
  BY DEF joined, NewCard, DealtCard
<1>3. DealtCard \in Cards
  BY DealtCardType DEF IInv
<1>4. shown' \in Pictures
  BY <1>2, <1>3 DEF EventIInv, Pictures
<1>5. ReplayShowsRegistry'
  <2>1. shown'.cards = playerRegistry'
    BY <1>1, <1>2 DEF EventIInv, Pictures, ReplayShowsRegistry
  <2>2. \A i \in GameId :
           /\ shown'.created[i] = gameRegistry'[i].createdAt
           /\ shown'.number[i] = gameRegistry'[i].lastDrawnNumber
    BY <1>1, <1>2
       DEF EventIInv, Pictures, ReplayShowsRegistry, IInv, GameTypeOK, Games
  <2> QED
    BY <1>4, <2>1, <2>2 DEF ReplayShowsRegistry, Pictures
<1>6. PrizesShownAddUp'
  <2>1. /\ feesPaid \in [GameId -> Nat] /\ gameRegistry \in [GameId -> Games]
        /\ gameRegistry[id].prizePool \in Nat
        /\ shown.prize \in [GameId -> Nat] /\ shown'.prize = shown.prize
        /\ feesPaid[id] = shown.prize[id] + gameRegistry[id].prizePool
    BY <1>2, PoolFacts
       DEF IInv, GameTypeOK, EventIInv, Pictures, PrizesShownAddUp
  <2>2. /\ feesPaid'[id] = feesPaid[id] + fee
        /\ gameRegistry'[id].prizePool = gameRegistry[id].prizePool + fee
        /\ \A i \in GameId \ {id} :
              feesPaid'[i] = feesPaid[i] /\ gameRegistry'[i] = gameRegistry[i]
    BY <1>1, <2>1 DEF Games
  <2>3. feesPaid'[id] = shown'.prize[id] + gameRegistry'[id].prizePool
    BY <1>1, <2>1, <2>2
  <2> QED
    BY <2>1, <2>2, <2>3 DEF EventIInv, PrizesShownAddUp
<1> QED
  BY <1>4, <1>5, <1>6 DEF EventIInv

\* drawNumber and its event.
LEMMA numberDrawnEvents ==
    ASSUME IInv, IInv', EventIInv, NEW sender \in Player, NEW id \in GameId,
           numberDrawn(sender, id)
    PROVE  EventIInv'
<1> DEFINE number == block.entropy.number
<1>1. /\ number \in DrawRange
      /\ gameRegistry' = [gameRegistry EXCEPT
            ![id].lastDrawnNumber = number,
            ![id].lastDrawnAt = Uint64(block.timestamp)]
      /\ UNCHANGED <<playerRegistry, feesPaid>>
      /\ shown' = [shown EXCEPT !.number[id] = number]
  BY DEF numberDrawn, drawNumber, GameNumberDrawn, IInv, GameTypeOK, Entropy
<1>2. shown' \in Pictures
  BY <1>1 DEF EventIInv, Pictures
<1>3. \A i \in GameId :
         /\ shown'.created[i] = gameRegistry'[i].createdAt
         /\ shown'.number[i] = gameRegistry'[i].lastDrawnNumber
         /\ gameRegistry'[i].prizePool = gameRegistry[i].prizePool
  BY <1>1
     DEF EventIInv, Pictures, ReplayShowsRegistry, IInv, GameTypeOK, Games
<1>4. shown'.cards = playerRegistry' /\ shown'.prize = shown.prize
  BY <1>1 DEF EventIInv, Pictures, ReplayShowsRegistry
<1>5. ReplayShowsRegistry'
  BY <1>2, <1>3, <1>4 DEF ReplayShowsRegistry, Pictures
<1>6. PrizesShownAddUp'
  BY <1>1, <1>3, <1>4 DEF EventIInv, PrizesShownAddUp
<1> QED
  BY <1>2, <1>5, <1>6 DEF EventIInv

\* The search for a number finds one tile at most.
LEMMA FirstTileIsOne ==
    \A card, target : \A first, second \in Tiles :
        playerHasNumber(card, target, first)
        /\ playerHasNumber(card, target, second) => first = second
<1> SUFFICES ASSUME NEW card, NEW target,
                    NEW first \in Tiles, NEW second \in Tiles,
                    playerHasNumber(card, target, first),
                    playerHasNumber(card, target, second)
             PROVE  first = second
  OBVIOUS
<1>1. ~ (first < second)  BY DEF playerHasNumber
<1>2. ~ (second < first)  BY DEF playerHasNumber
<1> QED
  BY <1>1, <1>2 DEF Tiles

\* markNumberOnCard and its event: only the first tile with a number is found.
LEMMA hitRecordedEvents ==
    ASSUME IInv, IInv', EventIInv, NEW sender \in Player, NEW id \in GameId,
           hitRecorded(sender, id)
    PROVE  EventIInv'
<1> DEFINE card == playerRegistry[sender][id].numberStorage
           target == gameRegistry[id].lastDrawnNumber
<1>1. PICK hit \in Tiles :
         /\ playerHasNumber(card, target, hit)
         /\ playerRegistry' = [playerRegistry EXCEPT
               ![sender][id].hitStorage = @ \cup {hit}]
  BY DEF hitRecorded, markNumberOnCard
<1>2. PICK location \in Tiles :
         /\ playerHasNumber(card, target, location)
         /\ shown' = [shown EXCEPT
               !.cards[sender][id].hitStorage = @ \cup {location}]
  BY DEF hitRecorded, PlayerHitRecorded
<1>3. location = hit
  BY <1>1, <1>2, FirstTileIsOne
<1>4. UNCHANGED <<gameRegistry, feesPaid>>
  BY DEF hitRecorded, markNumberOnCard, historyVars
<1>5. /\ shown'.cards = playerRegistry' /\ shown'.prize = shown.prize
      /\ shown'.created = shown.created /\ shown'.number = shown.number
      /\ shown' = [shown EXCEPT !.cards = playerRegistry']
  BY <1>1, <1>2, <1>3 DEF EventIInv, Pictures, ReplayShowsRegistry
<1>6. shown' \in Pictures
  BY <1>5 DEF EventIInv, Pictures, IInv, GameTypeOK
<1> QED
  BY <1>4, <1>5, <1>6
     DEF EventIInv, ReplayShowsRegistry, PrizesShownAddUp

\* claimPrize and its two events.
LEMMA claimedEvents ==
    ASSUME IInv, IInv', EventIInv, NEW sender \in Player, NEW id \in GameId,
           claimed(sender, id)
    PROVE  EventIInv'
<1> DEFINE prize == gameRegistry[id].prizePool
<1>1. /\ prize \in Nat
      /\ gameRegistry' = [gameRegistry EXCEPT
            ![id].lastDrawnNumber = GameOver, ![id].prizePool = 0]
      /\ UNCHANGED <<playerRegistry, feesPaid>>
      /\ shown' = [shown EXCEPT !.number[id] = GameOver,
                                !.prize[id] = @ + prize]
  BY PoolFacts
     DEF claimed, claimPrize, GameEnded, Bingo, IInv, EventIInv, Pictures
<1>2. shown' \in Pictures
  <2>1. shown.prize[id] + prize \in Nat
    BY <1>1 DEF EventIInv, Pictures
  <2> HIDE DEF prize
  <2> QED
    BY <1>1, <2>1 DEF EventIInv, Pictures
<1>3. \A i \in GameId :
         /\ shown'.created[i] = gameRegistry'[i].createdAt
         /\ shown'.number[i] = gameRegistry'[i].lastDrawnNumber
  BY <1>1
     DEF EventIInv, Pictures, ReplayShowsRegistry, IInv, GameTypeOK, Games
<1>4. shown'.cards = playerRegistry'
  BY <1>1 DEF EventIInv, Pictures, ReplayShowsRegistry
<1>5. ReplayShowsRegistry'
  BY <1>2, <1>3, <1>4 DEF ReplayShowsRegistry, Pictures
<1>6. PrizesShownAddUp'
  <2>1. /\ shown'.prize[id] = shown.prize[id] + prize
        /\ shown.prize[id] \in Nat
        /\ gameRegistry'[id].prizePool = 0
        /\ \A i \in GameId \ {id} :
              /\ shown'.prize[i] = shown.prize[i]
              /\ gameRegistry'[i] = gameRegistry[i]
    BY <1>1 DEF EventIInv, Pictures, IInv, GameTypeOK, Games
  <2>2. feesPaid'[id] = shown'.prize[id] + gameRegistry'[id].prizePool
    BY <1>1, <2>1 DEF EventIInv, PrizesShownAddUp
  <2> QED
    BY <1>1, <2>1, <2>2 DEF EventIInv, PrizesShownAddUp
<1> QED
  BY <1>2, <1>5, <1>6 DEF EventIInv

LEMMA StepEvents ==
    IInv /\ IInv' /\ EventIInv /\ [EventNext]_eventVars => EventIInv'
<1> SUFFICES ASSUME IInv, IInv', EventIInv, [EventNext]_eventVars
             PROVE  EventIInv'
  OBVIOUS
<1>1. CASE \/ silent \/ UNCHANGED eventVars
  <2>1. UNCHANGED <<gameRegistry, playerRegistry, feesPaid, shown>>
    BY <1>1 DEF silent, OwnerCall, updateEntryFee, updateJoinDuration,
       updateUpdateTurnDuration, tokenCall, newBlock, eventVars, vars,
       gameVars, historyVars
  <2> QED
    BY <2>1 DEF EventIInv, ReplayShowsRegistry, PrizesShownAddUp
<1> QED
  BY <1>1, createdEvents, joinedEvents, numberDrawnEvents, hitRecordedEvents,
     claimedEvents DEF EventNext

LEMMA EventsInvariant ==
    EventSpec => []EventIInv
<1>1. EventInit => Init
  BY DEF EventInit
<1> QED
  BY <1>1, EventsAreSideEffects, Invariant, InitIInv, InitEvents, StepEvents,
     PTL DEF EventSpec

\* The events are enough to render cards, hits, starts and numbers.
THEOREM EventsAreEnough ==
    EventSpec => []ReplayShowsRegistry
<1>1. EventIInv => ReplayShowsRegistry
  BY DEF EventIInv
<1> QED
  BY <1>1, EventsInvariant, PTL

\* The prizes announced and the pools left are the fees paid.
THEOREM PrizesAnnounced ==
    EventSpec => []PrizesShownAddUp
<1>1. EventIInv => PrizesShownAddUp
  BY DEF EventIInv
<1> QED
  BY <1>1, EventsInvariant, PTL
================================================================================
