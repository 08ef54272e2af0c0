------------------------------- MODULE EventLog -------------------------------
(***************************************************************************)
(* The events of src/interfaces/IBitmaskBingo.sol, as the functions of     *)
(* BitmaskBingo emit them, and a dApp that renders games from the events   *)
(* alone: whoever creates or joins has the card of the event with only the *)
(* free tile hit, a hit is added to the card, a draw replaces the number   *)
(* called, and the game is over once it has ended.                         *)
(***************************************************************************)
EXTENDS BitmaskBingo

VARIABLE shown      \* what the dApp renders

eventVars == <<vars, shown>>

Blank == [cards |-> [p \in Player |-> [id \in GameId |-> NoCard]],
          created |-> [id \in GameId |-> 0],
          number |-> [id \in GameId |-> 0],
          prize |-> [id \in GameId |-> 0]]

EventInit == Init /\ shown = Blank

-------------------------------------------------------------------------------
(* The events, each as its effect on what the dApp renders.                *)

NewCard(picture, player, id, numbers) ==
    [picture EXCEPT !.cards[player][id] =
        [numberStorage |-> numbers, hitStorage |-> {FreeTile}]]

GameCreated(picture, creator, id, numbers, timestamp) ==
    [NewCard(picture, creator, id, numbers) EXCEPT
        !.created[id] = timestamp,
        !.number[id] = NoNumberYet]

GameNumberDrawn(picture, id, number) ==
    [picture EXCEPT !.number[id] = number]

PlayerHitRecorded(picture, player, id, hitPosition) ==
    [picture EXCEPT !.cards[player][id].hitStorage = @ \cup {hitPosition}]

GameEnded(picture, id) == [picture EXCEPT !.number[id] = GameOver]

Bingo(picture, id, prize) == [picture EXCEPT !.prize[id] = @ + prize]

-------------------------------------------------------------------------------
(* What the functions emit.                                                *)

created(sender) ==
    /\ createGame(sender)
    /\ shown' = GameCreated(shown, sender, gameIdOf(sender),
                            block.entropy.card, block.timestamp)

joined(sender, id) ==
    /\ joinGame(sender, id)
    /\ shown' = NewCard(shown, sender, id, block.entropy.card)

numberDrawn(sender, id) ==
    /\ drawNumber(sender, id)
    /\ shown' = GameNumberDrawn(shown, id, block.entropy.number)

\* Wrong form: the prize is read after the pool was emptied.
claimedNothing(sender, id) ==
    /\ claimPrize(sender, id)
    /\ shown' = Bingo(GameEnded(shown, id), id, gameRegistry'[id].prizePool)

\* The location of the first tile that bears the number.
hitRecorded(sender, id) ==
    /\ markNumberOnCard(sender, id)
    /\ \E location \in Tiles :
          /\ playerHasNumber(playerRegistry[sender][id].numberStorage,
                             gameRegistry[id].lastDrawnNumber, location)
          /\ shown' = PlayerHitRecorded(shown, sender, id, location)

claimed(sender, id) ==
    /\ claimPrize(sender, id)
    /\ shown' = Bingo(GameEnded(shown, id), id, gameRegistry[id].prizePool)

\* The other functions emit nothing that concerns a game.
silent ==
    /\ \/ \E sender \in Address : OwnerCall(sender)
       \/ tokenCall
       \/ newBlock
    /\ UNCHANGED shown

EventNext ==
    \/ \E sender \in Player :
          \/ created(sender)
          \/ \E id \in GameId : \/ joined(sender, id)
                                \/ numberDrawn(sender, id)
                                \/ hitRecorded(sender, id)
                                \/ claimed(sender, id)
    \/ silent

EventSpec == EventInit /\ [][EventNext]_eventVars

-------------------------------------------------------------------------------

\* The events are enough to render every game: after any sequence of calls, a
\* member who joins again in the middle of a game included, the replay has the
\* cards, the hits, the start and the last number that the getters return.  The
\* pool and the time of the last draw are in no event.
ReplayShowsRegistry ==
    /\ shown.cards = playerRegistry
    /\ shown.created = [id \in GameId |-> gameRegistry[id].createdAt]
    /\ shown.number = [id \in GameId |-> gameRegistry[id].lastDrawnNumber]

\* The prizes announced by Bingo account for the money: with what is still in
\* the pool they are the fees paid, so that a past game, whose registry entry
\* has an empty pool, can still be shown with what it paid.
PrizesShownAddUp ==
    \A id \in GameId :
        feesPaid[id] = shown.prize[id] + gameRegistry[id].prizePool

===============================================================================
