--------------------------- MODULE EscrowRefinement ---------------------------
(***************************************************************************)
(* The game contract as an escrow: every game id is a pot.                 *)
(***************************************************************************)
EXTENDS BitmaskBingo

PhaseOf(game) ==
    IF game.createdAt = 0 THEN "absent"
    ELSE IF game.lastDrawnNumber = GameOver THEN "closed"
    ELSE "open"

PlayerWallets == [p \in Player |-> balances[p]]
GameMembers == [id \in GameId |-> {p \in Player : checkGameHasPlayer(p, id)}]
GamePhases == [id \in GameId |-> PhaseOf(gameRegistry[id])]

Pots == INSTANCE Escrow WITH
    Depositor <- Player,
    Pot <- GameId,
    wallet <- PlayerWallets,
    pot <- prizePools,
    members <- GameMembers,
    phase <- GamePhases

\* "Winner wins the pot of entry fees" (README.md), for any number of games
\* that share the contract's balance: whatever the players, the owner and the
\* clock do, each game keeps an escrow's promises as long as the owner leaves
\* the join duration alone.
GamesAreEscrows == Pots!Spec
===============================================================================
