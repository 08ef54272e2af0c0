----------------------------- MODULE BitmaskBingo -----------------------------
(***************************************************************************)
(* The game contract of src/BitmaskBingo.sol together with the token it is *)
(* paid in and the chain it runs on.                                       *)
(*                                                                         *)
(* Every external function is one action: a transaction is atomic, a       *)
(* require is a guard, and a revert, in the contract or in the token, is   *)
(* the absence of a step.  Transactions of all players, of the owner and   *)
(* of token holders interleave freely within and between blocks.           *)
(*                                                                         *)
(* blockhash(block.number - 1) is the contract's only entropy and does not *)
(* change within a block.  What the hashes make of it, one card word and   *)
(* one number, is chosen when the block begins, so that all cards dealt    *)
(* and all numbers drawn in one block agree, in every game.                *)
(***************************************************************************)
EXTENDS BingoToken, GameMechanics

CONSTANTS
    Player,                 \* the accounts that play
    This,                   \* the address of the game contract
    Owner,                  \* BitmaskBingo.owner, the account that deployed it
    TokenCallers,           \* bound: the accounts that call the token directly
    InitialBalances,        \* tokens minted to the accounts beforehand
    InitialAllowances,      \* what they approved beforehand
    InitialEntryFee,        \* 1000 in the code
    InitialJoinDuration,    \* 1 hours in the code
    InitialTurnDuration,    \* 5 minutes in the code
    EntryFees,              \* bound: the values the owner may set
    JoinDurations,
    TurnDurations,
    TimeSteps,              \* bound: seconds between two blocks
    MaxBlock,               \* bound: number of blocks
    MaxTimestamp,           \* bound: "100+ years", within a uint64
    Outcomes,               \* bound: Outcomes[b], the [card, number] pairs that
                            \*        the hashes seen in block b may produce
    GameId                  \* bound: the <<block, creator>> of the games created

ASSUME PlayerAssumption ==
    /\ Player \subseteq Address
    /\ Owner \in Address
    /\ This \in Address \ (Player \cup TokenCallers)
    /\ TokenCallers \subseteq Address

ASSUME FundingAssumption ==
    /\ InitialBalances \in [Address -> Uint256]
    /\ Total(InitialBalances) <= MaxUint64
    /\ InitialAllowances \in [Address -> [Address -> Uint256]]
    /\ InitialAllowances[This] = [a \in Address |-> 0]

ASSUME SettingsAssumption ==
    /\ {InitialEntryFee} \cup EntryFees \subseteq Uint256
    /\ {InitialJoinDuration} \cup JoinDurations \subseteq Uint256
    /\ {InitialTurnDuration} \cup TurnDurations \subseteq Uint256

\* What the contract makes of a blockhash: the card it deals and the number it
\* draws in that block.
Entropy == [card : CardWords, number : DrawRange]

ASSUME ChainAssumption ==
    /\ TimeSteps \subseteq Nat \ {0}
    /\ MaxBlock \in Nat \ {0}
    /\ MaxTimestamp \in 1 .. MaxUint64
    /\ Outcomes \in [1 .. MaxBlock -> SUBSET Entropy]
    /\ GameId \subseteq (1 .. MaxBlock) \X Player

VARIABLES
    gameSettings,       \* BitmaskBingo.gameSettings
    gameRegistry,       \* game id -> Game
    playerRegistry,     \* player -> game id -> BingoCard
    block,              \* the block being built
    \* History, read by properties only:
    feesPaid,           \* tokens moved by creating and joining each game
    drawn,              \* the numbers drawn in each game
    draws,              \* how often a number was drawn in each game
    claims,             \* successful claimPrize calls on each game
    donated             \* tokens the contract got outside of its functions

gameVars == <<gameSettings, gameRegistry, playerRegistry>>
historyVars == <<feesPaid, drawn, draws, claims, donated>>
vars == <<tokenVars, gameVars, block, historyVars>>

\* The literal values of lastDrawnNumber outside of DrawRange.
NoNumberYet == 999
GameOver == 1000

Uint64(n) == n % (MaxUint64 + 1)

\* What the mappings hold for a key that was never written.
NoGame == [lastDrawnNumber |-> 0, lastDrawnAt |-> 0,
           prizePool |-> 0, createdAt |-> 0]
NoCard == [numberStorage |-> EmptyWord, hitStorage |-> {}]

\* keccak256(abi.encode(blockhash(block.number - 1), msg.sender)): one id per
\* player and block.
gameIdOf(sender) == <<block.number, sender>>

\* createBingoCardForPlayer(0, blockhash) with hitStorage 4096.
DealtCard == [numberStorage |-> block.entropy.card, hitStorage |-> {FreeTile}]

\* Wrong forms: no deadline; no duration; a deadline that is part of the time
\* after it.
BeforeAnything(now, start, duration) == TRUE
AfterStart(now, start, duration) == now > start
AfterOrAt(now, start, duration) ==
    start + duration <= MaxUint256 /\ now >= start + duration

\* createdAt or lastDrawnAt plus a duration, where the sum does not overflow.
Before(now, start, duration) ==
    start + duration <= MaxUint256 /\ now < start + duration
After(now, start, duration) ==
    start + duration <= MaxUint256 /\ now > start + duration

-------------------------------------------------------------------------------
(* Modifiers and the token calls of the contract.                          *)

\* Wrong form: a game that is over still takes calls.
onlyPlayerOfAnyGame(sender, id) ==
    /\ gameRegistry[id].createdAt > 0
    /\ playerRegistry[sender][id].numberStorage # EmptyWord

onlyPlayer(sender, id) ==
    /\ gameRegistry[id].createdAt > 0
    /\ gameRegistry[id].lastDrawnNumber # GameOver
    /\ playerRegistry[sender][id].numberStorage # EmptyWord

\* Wrong form: the payment fails without a revert.
PayFeeLater(sender, fee) == UNCHANGED tokenVars

\* IERC20(bingoToken).transferFrom(msg.sender, address(this), joinFee).
PayFee(sender, fee) == transferFrom(This, sender, This, fee)

\* The tokens that reach the contract in this step.
Received == balances'[This] - balances[This]

\* Wrong forms: everything the contract holds is paid; the prize is sent by
\* transfer, which leaves the approved amount in place.
PayEverything(winner, prize) ==
    /\ balances' = Moved(balances, This, winner, balances[This])
    /\ UNCHANGED <<allowances, totalSupply, supply, tokenOwner>>

PayByTransfer(winner, prize) ==
    /\ balances[This] >= prize
    /\ allowances' = Approved(allowances, This, This, prize)
    /\ balances' = Moved(balances, This, winner, prize)
    /\ UNCHANGED <<totalSupply, supply, tokenOwner>>

\* approve(address(this), prize) and then transferFrom(address(this), ...).
PayPrize(winner, prize) ==
    LET allowed == Approved(allowances, This, This, prize)
    IN  /\ CanSpend(allowed, This, This, prize)
        /\ balances[This] >= prize
        /\ allowances' = Spent(allowed, This, This, prize)
        /\ balances' = Moved(balances, This, winner, prize)
        /\ UNCHANGED <<totalSupply, supply, tokenOwner>>

-------------------------------------------------------------------------------
(* Player functions.                                                       *)

\* Wrong form: no check for a duplicate id.
createGameAgain(sender) ==
    LET id == gameIdOf(sender)
        joinFee == gameSettings.entryFee
    IN  /\ id \in GameId
        /\ PayFee(sender, joinFee)
        /\ gameRegistry' = [gameRegistry EXCEPT ![id] =
              [lastDrawnNumber |-> NoNumberYet,
               lastDrawnAt |-> Uint64(block.timestamp),
               prizePool |-> Uint64(joinFee),
               createdAt |-> Uint64(block.timestamp)]]
        /\ playerRegistry' = [playerRegistry EXCEPT ![sender][id] = DealtCard]
        /\ feesPaid' = [feesPaid EXCEPT ![id] = @ + Received]
        /\ UNCHANGED <<gameSettings, block, drawn, draws, claims, donated>>

createGame(sender) ==
    LET id == gameIdOf(sender)
        joinFee == gameSettings.entryFee
    IN  /\ id \in GameId
        /\ PayFee(sender, joinFee)
        /\ gameRegistry[id].createdAt = 0
        /\ gameRegistry' = [gameRegistry EXCEPT ![id] =
              [lastDrawnNumber |-> NoNumberYet,
               lastDrawnAt |-> Uint64(block.timestamp),
               prizePool |-> Uint64(joinFee),
               createdAt |-> Uint64(block.timestamp)]]
        /\ playerRegistry' = [playerRegistry EXCEPT ![sender][id] = DealtCard]
        /\ feesPaid' = [feesPaid EXCEPT ![id] = @ + Received]
        /\ UNCHANGED <<gameSettings, block, drawn, draws, claims, donated>>

\* Wrong form: a player who joins again gets new numbers and keeps the hits.
joinGameKeepingHits(sender, id) ==
    LET joinFee == gameSettings.entryFee
    IN  /\ gameRegistry[id].createdAt > 0
        /\ Before(block.timestamp, gameRegistry[id].createdAt,
                  gameSettings.minimumJoinDuration)
        /\ PayFee(sender, joinFee)
        /\ gameRegistry' =
              [gameRegistry EXCEPT ![id].prizePool = @ + Uint64(joinFee)]
        /\ playerRegistry' = [playerRegistry EXCEPT
              ![sender][id].numberStorage = DealtCard.numberStorage,
              ![sender][id].hitStorage = @ \cup {FreeTile}]
        /\ feesPaid' = [feesPaid EXCEPT ![id] = @ + Received]
        /\ UNCHANGED <<gameSettings, block, drawn, draws, claims, donated>>

joinGame(sender, id) ==
    LET gameJoined == gameRegistry[id]
        joinFee == gameSettings.entryFee
    IN  /\ gameJoined.createdAt > 0
        /\ Before(block.timestamp, gameJoined.createdAt,
                  gameSettings.minimumJoinDuration)
        /\ PayFee(sender, joinFee)
        /\ gameJoined.prizePool + Uint64(joinFee) <= MaxUint64
        /\ gameRegistry' =
              [gameRegistry EXCEPT ![id].prizePool = @ + Uint64(joinFee)]
        /\ playerRegistry' = [playerRegistry EXCEPT ![sender][id] = DealtCard]
        /\ feesPaid' = [feesPaid EXCEPT ![id] = @ + Received]
        /\ UNCHANGED <<gameSettings, block, drawn, draws, claims, donated>>

drawNumber(sender, id) ==
    LET game == gameRegistry[id]
        random == block.entropy.number
    IN  /\ onlyPlayer(sender, id)
        /\ After(block.timestamp, game.createdAt,
                 gameSettings.minimumJoinDuration)
        /\ After(block.timestamp, game.lastDrawnAt,
                 gameSettings.minimumTurnDuration)
        /\ gameRegistry' = [gameRegistry EXCEPT
              ![id].lastDrawnNumber = random,
              ![id].lastDrawnAt = Uint64(block.timestamp)]
        /\ drawn' = [drawn EXCEPT ![id] = @ \cup {random}]
        /\ draws' = [draws EXCEPT ![id] = @ + 1]
        /\ UNCHANGED <<tokenVars, gameSettings, playerRegistry, block,
                       feesPaid, claims, donated>>

markNumberOnCard(sender, id) ==
    LET playerCard == playerRegistry[sender][id]
    IN  /\ onlyPlayer(sender, id)
        /\ \E location \in Tiles :
              /\ playerHasNumber(playerCard.numberStorage,
                                 gameRegistry[id].lastDrawnNumber, location)
              /\ playerRegistry' = [playerRegistry EXCEPT
                    ![sender][id].hitStorage = @ \cup {location}]
        /\ UNCHANGED <<tokenVars, gameSettings, gameRegistry, block,
                       historyVars>>

\* Wrong form: the pool is not emptied.
claimPrizeKeepingPool(sender, id) ==
    /\ onlyPlayer(sender, id)
    /\ checkForBingo(playerRegistry[sender][id].hitStorage)
    /\ gameRegistry' =
          [gameRegistry EXCEPT ![id].lastDrawnNumber = GameOver]
    /\ PayPrize(sender, gameRegistry[id].prizePool)
    /\ claims' = [claims EXCEPT ![id] = @ + 1]
    /\ UNCHANGED <<gameSettings, playerRegistry, block,
                   feesPaid, drawn, draws, donated>>

claimPrize(sender, id) ==
    /\ onlyPlayer(sender, id)
    /\ checkForBingo(playerRegistry[sender][id].hitStorage)
    /\ gameRegistry' = [gameRegistry EXCEPT
          ![id].lastDrawnNumber = GameOver,
          ![id].prizePool = 0]
    /\ PayPrize(sender, gameRegistry[id].prizePool)
    /\ claims' = [claims EXCEPT ![id] = @ + 1]
    /\ UNCHANGED <<gameSettings, playerRegistry, block,
                   feesPaid, drawn, draws, donated>>

-------------------------------------------------------------------------------
(* Admin functions, guarded by onlyOwner.  Durations and fee are global:   *)
(* a change applies to the games already running.                          *)

updateEntryFee(sender, fee) ==
    /\ sender = Owner
    /\ gameSettings' = [gameSettings EXCEPT !.entryFee = fee]
    /\ UNCHANGED <<tokenVars, gameRegistry, playerRegistry, block, historyVars>>

updateJoinDuration(sender, joinDuration) ==
    /\ sender = Owner
    /\ gameSettings' =
          [gameSettings EXCEPT !.minimumJoinDuration = joinDuration]
    /\ UNCHANGED <<tokenVars, gameRegistry, playerRegistry, block, historyVars>>

updateUpdateTurnDuration(sender, turnDuration) ==
    /\ sender = Owner
    /\ gameSettings' =
          [gameSettings EXCEPT !.minimumTurnDuration = turnDuration]
    /\ UNCHANGED <<tokenVars, gameRegistry, playerRegistry, block, historyVars>>

-------------------------------------------------------------------------------
(* The environment: the chain, and calls made to the token directly.  The  *)
(* contract is never the sender of such a call.                            *)

newBlock ==
    /\ block.number < MaxBlock
    /\ \E step \in TimeSteps,
       entropy \in Outcomes[block.number + 1] :
          /\ block.timestamp + step <= MaxTimestamp
          /\ block' = [number |-> block.number + 1,
                       timestamp |-> block.timestamp + step,
                       entropy |-> entropy]
    /\ UNCHANGED <<tokenVars, gameVars, historyVars>>

tokenCall ==
    /\ \E sender \in TokenCallers : TokenCall(sender)
    /\ donated' = donated + Received
    /\ UNCHANGED <<gameVars, block, feesPaid, drawn, draws, claims>>

-------------------------------------------------------------------------------
(* The contract's constructor has run; the players hold tokens.            *)

Init ==
    /\ balances = InitialBalances
    /\ allowances = InitialAllowances
    /\ totalSupply = Total(InitialBalances)
    /\ supply = Total(InitialBalances)
    /\ tokenOwner = Deployer
    /\ gameSettings = [entryFee |-> InitialEntryFee,
                       minimumTurnDuration |-> InitialTurnDuration,
                       minimumJoinDuration |-> InitialJoinDuration]
    /\ gameRegistry = [id \in GameId |-> NoGame]
    /\ playerRegistry = [p \in Player |-> [id \in GameId |-> NoCard]]
    /\ block \in [number : {1}, timestamp : {1}, entropy : Outcomes[1]]
    /\ feesPaid = [id \in GameId |-> 0]
    /\ drawn = [id \in GameId |-> {}]
    /\ draws = [id \in GameId |-> 0]
    /\ claims = [id \in GameId |-> 0]
    /\ donated = balances[This]

PlayerCall(sender) ==
    \/ createGame(sender)
    \/ \E id \in GameId : \/ joinGame(sender, id)
                          \/ drawNumber(sender, id)
                          \/ markNumberOnCard(sender, id)
                          \/ claimPrize(sender, id)

OwnerCall(sender) ==
    \/ \E fee \in EntryFees : updateEntryFee(sender, fee)
    \/ \E duration \in JoinDurations : updateJoinDuration(sender, duration)
    \/ \E duration \in TurnDurations :
          updateUpdateTurnDuration(sender, duration)

Next ==
    \/ \E sender \in Player : PlayerCall(sender)
    \/ \E sender \in Address : OwnerCall(sender)
    \/ tokenCall
    \/ newBlock

Spec == Init /\ [][Next]_vars

-------------------------------------------------------------------------------
(* Convenience functions that a dApp reads.                                *)

checkForWinner(player, id) ==
    checkForBingo(playerRegistry[player][id].hitStorage)

checkGameHasPlayer(player, id) == playerRegistry[player][id].hitStorage # {}

-------------------------------------------------------------------------------
(* Types and safety.                                                       *)

Games == [lastDrawnNumber : DrawRange \cup {NoNumberYet, GameOver},
          lastDrawnAt : 0 .. MaxTimestamp,
          prizePool : 0 .. MaxUint64,
          createdAt : 0 .. MaxTimestamp]

Cards == [numberStorage : CardWords, hitStorage : SUBSET Tiles]

\* Type invariant: every field of the contract's storage fits its type.
GameTypeOK ==
    /\ gameSettings \in [entryFee : Uint256, minimumTurnDuration : Uint256,
                         minimumJoinDuration : Uint256]
    /\ gameRegistry \in [GameId -> Games]
    /\ playerRegistry \in [Player -> [GameId -> Cards]]
    /\ block \in [number : 1 .. MaxBlock, timestamp : 1 .. MaxTimestamp,
                  entropy : Entropy]
    /\ feesPaid \in [GameId -> Nat]
    /\ drawn \in [GameId -> SUBSET DrawRange]
    /\ draws \in [GameId -> Nat]
    /\ claims \in [GameId -> Nat]
    /\ donated \in Nat

TypeOK == TokenTypeOK /\ GameTypeOK

prizePools == [id \in GameId |-> gameRegistry[id].prizePool]

\* Solvency: what the contract holds is, to the unit, the prize pools of all
\* games plus the tokens that reached it outside of its functions.  No fee is
\* lost to the uint64 conversion of joinFee, no pool is paid from another
\* game's fees, and no prize leaves the contract without its pool.
Solvent == balances[This] = Total(prizePools) + donated

\* A pool is the fees of its own game until its one prize is paid, so the
\* winner takes everything that was paid before the claim.
PoolIsFees ==
    \A id \in GameId :
        claims[id] = 0 => gameRegistry[id].prizePool = feesPaid[id]

\* At most one prize per game, also when several players complete a line on
\* the same number: a game is over exactly when its prize was claimed.
OneClaimPerGame ==
    \A id \in GameId :
        claims[id] = IF gameRegistry[id].lastDrawnNumber = GameOver
                     THEN 1 ELSE 0

\* Every hit but the free tile bears a number drawn in that very game: no hit
\* survives from an earlier card and none is taken from another game; and the
\* number that can be marked now is one of those drawn.
HitsAreEarned ==
    /\ \A p \in Player, id \in GameId :
          LET playerCard == playerRegistry[p][id]
          IN  \A i \in playerCard.hitStorage \ {FreeTile} :
                  CardNumbers[playerCard.numberStorage][i] \in drawn[id]
    /\ \A id \in GameId : gameRegistry[id].createdAt > 0 =>
          gameRegistry[id].lastDrawnNumber \in
              drawn[id] \cup {NoNumberYet, GameOver}

\* A member of a running game whose card has a line can always claim: the
\* token calls inside claimPrize never make it revert.
ClaimNeverBlocked ==
    \A p \in Player, id \in GameId :
        onlyPlayer(p, id) => balances[This] >= gameRegistry[id].prizePool

\* Whoever can pay the fee can join: the checked uint64 addition to the prize
\* pool, and the conversion of the fee, never stand in the way.
PoolNeverOverflows ==
    \A p \in Player, id \in GameId :
        balances[p] >= gameSettings.entryFee =>
            /\ Uint64(gameSettings.entryFee) = gameSettings.entryFee
            /\ gameRegistry[id].prizePool + gameSettings.entryFee <= MaxUint64

\* Between transactions nobody, the contract included, is allowed to spend
\* the contract's tokens.
NoStandingAllowance ==
    \A a \in Address : allowances[This][a] = 0

\* A prize pool only ever shrinks to nothing, and its tokens then go to one
\* player of that game whose card has a line, and end the game.
PrizeGoesToWinner ==
    [][\A id \in GameId :
          gameRegistry'[id].prizePool < gameRegistry[id].prizePool =>
             /\ gameRegistry'[id].prizePool = 0
             /\ gameRegistry'[id].lastDrawnNumber = GameOver
             /\ \E p \in Player :
                   /\ onlyPlayer(p, id)
                   /\ checkForWinner(p, id)
                   /\ balances'[p] = balances[p] + gameRegistry[id].prizePool
      ]_vars

\* What is left of a game that is over is left for good, whatever its members,
\* a late joiner or the owner do: it is not reopened, nobody draws, marks or
\* claims in it any more, and nothing leaves its pool.
GamesAreFinal ==
    [][\A id \in GameId : gameRegistry[id].lastDrawnNumber = GameOver =>
          LET game == gameRegistry[id]
              later == gameRegistry'[id]
          IN  /\ later = [game EXCEPT !.prizePool = later.prizePool]
              /\ later.prizePool >= game.prizePool
              /\ draws'[id] = draws[id] /\ claims'[id] = claims[id]
              /\ \A p \in Player :
                    playerRegistry'[p][id].hitStorage \subseteq
                       playerRegistry[p][id].hitStorage \cup {FreeTile}]_vars

-------------------------------------------------------------------------------
(* Promises that the code keeps as long as the owner leaves the settings   *)
(* they depend on alone; play.cfg gives the owner no other value to set.   *)

\* "player can't rejoin the game to reset their card once the game has
\* started": once a number was drawn, cards keep their numbers and their hits.
CardsFixedOncePlayBegins ==
    [][\A p \in Player, id \in GameId : drawn[id] # {} =>
          /\ playerRegistry'[p][id].numberStorage =
                playerRegistry[p][id].numberStorage
          /\ playerRegistry[p][id].hitStorage \subseteq
                playerRegistry'[p][id].hitStorage]_vars

\* "Winner wins the pot of entry fees": nothing is left in, or paid into, the
\* prize pool of a game that is over.
FinishedGameIsSettled ==
    \A id \in GameId :
        gameRegistry[id].lastDrawnNumber = GameOver =>
            gameRegistry[id].prizePool = 0

\* "minimum join duration before start", "minimum turn duration between
\* draws": n draws take a join period and n - 1 turns, whoever draws them.
DrawsAreSpaced ==
    \A id \in GameId : draws[id] > 0 =>
        gameRegistry[id].lastDrawnAt - gameRegistry[id].createdAt >=
            (InitialJoinDuration + 1)
                + (draws[id] - 1) * (InitialTurnDuration + 1)

\* "Each player pays an ERC20 entry fee, transferred on join": a game took in
\* at least one fee for each of its members.
MembersHavePaid ==
    \A id \in GameId :
        feesPaid[id] >= InitialEntryFee *
            Cardinality({p \in Player : checkGameHasPlayer(p, id)})

===============================================================================
