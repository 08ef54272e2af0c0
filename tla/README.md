# BitmaskBingo in TLA+

A model of the bingo contracts of this repository and of the stateful parts of
the OpenZeppelin tooling vendored with it, the TLC runs that check it on small
instances, and TLAPS proofs of its main invariants for all instances.

Paths are relative to the repository's top directory; in the first part
`src/BitmaskBingo.sol` is the game contract, and `OZ/` stands for
`lib/openzeppelin-contracts/`. `PROJECT.json` maps every definition to its lines
and lists every run, mutant, finding, hazard and theorem.

## 1. Inventory

### Components, state, operations

| component | state | operations | modelled in |
|---|---|---|---|
| `BitmaskBingo.sol`, game contract | `gameSettings` (global, mutable), `gameRegistry` (id to `Game`: last number or 999/1000, last draw, pool, creation; four uint64), `playerRegistry` (player and id to `BingoCard`: 25 numbers, 25 hits), immutable `owner`, `bingoToken` | `createGame`, `joinGame`, `drawNumber`, `markNumberOnCard`, `claimPrize`; `updateEntryFee`, `updateJoinDuration`, `updateUpdateTurnDuration`; getters | `BitmaskBingo`, against `Escrow` |
| `GameMechanics.sol`, rules | constants only (12 line masks) | deal a card, find a number, test for a line, unpack arrays | `GameMechanics`, `CardStorage`, against `AbstractCard` |
| `utils/StorageUtils.sol`, words | none | set and get buckets and bits | `StorageUtils` |
| `BingoToken.sol` with OpenZeppelin `ERC20`, `Ownable` | balances, allowances, `totalSupply`, `supply`, owner | `mint`, `transfer`, `transferFrom`, `approve`, `increaseAllowance`, `decreaseAllowance`, `transferOwnership`, `renounceOwnership` | `BingoToken` |
| `IBitmaskBingo.sol` | none | events, from which a dApp is to render games | `EventLog` |
| the chain (outside the repository) | block number, timestamp, block hash | new block | `BitmaskBingo!newBlock` |
| `test/BitmaskBingo.t.sol`, play loop | loop position, winner | draw, mark, look for a line, claim | `PlayGame` |
| `OZ/scripts/generate/templates/EnumerableSet.js`, `conversion.js` | array and index mapping | `add`, `remove`, four views | `EnumerableSet`, against `AbstractSet` |
| `.../EnumerableMap.js` | key set and mapping | `set`, `remove`, `get`, `tryGet`, three views | `EnumerableMap`, against `AbstractMap` |
| `.../Checkpoints.js` | array of (key, value) | `push` (three forms, two flavours), six lookups | `Checkpoints` |
| `OZ/scripts/migrate-imports.js` | files, queue, list, report | list, read, write, stop, start | `MigrateImports` |
| the rest | | | section 6 |

### Interactions

* A player's transaction calls the game contract, which calls the token in the
  middle of its own work: `transferFrom(player, contract, fee)` in `createGame`
  and `joinGame`; `approve(contract, prize)` and `transferFrom(contract,
  winner, prize)` in `claimPrize`. The token makes no calls back, so nothing
  reenters.
* Accounts also call the token directly, between any two game transactions.
* All games share one token balance (the contract's) and one settings struct;
  a change of settings applies at once to games that are being played.
* All entropy is `blockhash(block.number - 1)`: everything dealt or drawn in one
  block is the same in every game and for every player, and a game id is a hash
  of the block hash and the creator.
* The contract's functions emit events; a dApp has nothing else to rebuild
  current and past games from.
* An enumerable map is an enumerable set of keys plus a mapping.

### What is hard here

There are no threads; a transaction is atomic, and a failed `require` undoes it.
What is hard is the order of transactions of different parties and what they
share:

* two members complete a line with the same number and race for the claim; any
  member draws, and a draw wipes the number others have not marked yet;
* the durations and the fee are read when they are used, not when a game is
  created, so the owner can reopen, speed up or freeze running games;
* money: one balance for all pools, fees checked as uint256 and credited as
  uint64, unchecked additions in the token, ignored return values, an approval
  of the contract to itself;
* boundaries: the exact second of a deadline, sums of durations that overflow,
  999 and 1000 as codes beside the numbers 0..255, 255 that is drawn and never
  dealt, repeated numbers on a card, additions that serve as assignments;
* events that must tell the whole state, in the order in which it changes;
* in the library: swap-and-pop with an index mapping, values that outlive their
  keys, binary searches over unchecked array accesses, several pushes in one
  block;
* in the migration script: it can be stopped between any two files and in the
  middle of writing one, which empties the file first, and is run again.

### What makes each component correct

* token: tokens are conserved and capped; an allowance is spent one for one;
* game contract, money: solvency to the unit, a pool is the fees of its own
  game, one prize per game and only to a line, no claim that reverts, no fee
  that is lost in a conversion, no allowance left behind; together, an escrow;
* game contract, rules: a game that is over stays as it was won, but for
  late joins; hits are earned in the same game, and, while the owner leaves the durations alone,
  cards are fixed once play begins, draws are spaced, every member paid, and a
  finished game takes no more fees; a game that can be won is won in the end;
* words: masks are rows, columns and diagonals; packing and unpacking are
  inverse; marking sets one bit;
* events: a replay of them gives the players' cards and hits, the start of each
  game and the number to mark (the pool and the time of the last draw are in no
  event), and the prizes add up;
* set and map: they are a set and a partial function, whatever was removed;
* checkpoints: every lookup returns, inside the array, with the value its
  comment promises, and past answers are never contradicted;
* migration: nothing but moved imports changes, except that a stop in the middle
  of a write loses the rest of that file, and it completes after stops.

## 2. Modules

| module | role |
|---|---|
| `Totals` | the sum of a function, as a cardinality, so that it can be proved about |
| `BingoToken` | the token as a state machine of its own, and the effects (`Spent`, `Moved`, `Approved`) that the game contract uses |
| `GameMechanics` | tiles, masks, `checkForBingo`, `playerHasNumber` on abstract card words |
| `BitmaskBingo` | game contract, token and chain together: the system |
| `Escrow`, `EscrowRefinement` | the abstract specification of the money, and the mapping to it |
| `EventLog` | `BitmaskBingo` with its events and a dApp that replays them |
| `PlayGame` | the test's loop over the rules of the card, with fairness |
| `StorageUtils`, `CardStorage` | shifts and masks on words of parameterised width; one card in them |
| `AbstractCard` | what a card is to the game: a number on each tile, a set of tiles hit |
| `AbstractSet`, `EnumerableSet` | what a set promises; the array and its indexes |
| `AbstractMap`, `EnumerableMap` | what a map promises; `EnumerableSet` and a mapping |
| `EnumerableMocks` | the two mock contracts side by side, for TLC |
| `Checkpoints` | histories and traces, searches iteration by iteration |
| `MigrateImports` | the script: an entry listed, a file read, emptied, written in chunks, finished |
| `MCBingoToken`, `MCBitmaskBingo`, `MCEventLog`, `MCPlayGame`, `MCMigrateImports` | constants for TLC |
| `BitmaskBingoProofs` | lemmas on sums; theorems on the token and on the money of the contract |
| `GameRulesProofs` | theorems on a single game, on what depends on the settings, on the escrow and on the events |
| `PlayGameProofs`, `CardStorageProofs`, `EnumerableSetProofs`, `EnumerableMapProofs`, `CheckpointsProofs`, `MigrateImportsProofs` | theorems on the module of that name |

Correspondence with the code:

* One action per external function, with the code's name; its guard is the
  conjunction of the `require`s, of the checks in the modifiers, of the token's
  own `require`s and of Solidity's checked arithmetic; a reverted transaction is
  no step. The first argument is `msg.sender`.
* `CanSpend`/`Spent` are `_spendAllowance` (the maximal allowance is neither
  checked nor reduced), `Moved` is `_transfer` with its unchecked addition as
  `% 2^256` and the receiver's balance read after the sender's was written.
* `Uint64` is the conversion `uint64(...)`; sums of uint64 are guarded, as in
  checked arithmetic; `Before` and `After` are comparisons with a timestamp plus
  a duration, false (a revert) when that sum overflows.
* In `BitmaskBingo` a hit word is the set of its 1 bits and a card word a value
  of `CardWords` whose 25 buckets are `CardNumbers[word]`; `EmptyWord` is the
  word 0. `CardStorage` is why this is sound: there cards and hits are numbers,
  shifted and masked as in the code. `MCBitmaskBingo` compares the literals of
  `winningBingoMasks` with the lines, as an assumption that TLC evaluates.
* `block.entropy` is what the block's hash yields, one card word and one number,
  chosen when the block begins. Cards dealt to all players of a block are equal
  because the code hashes only the block hash and the tile.
* `gameIdOf` is the pair of block number and sender; different blocks are
  assumed to have different hashes, and hashes not to collide.
* `feesPaid`, `drawn`, `draws`, `claims`, `donated` are history, as are `rands`
  and `marked` of `CardStorage` and `original`, `before` and `cut` of
  `MigrateImports`. No action reads
  them. `feesPaid` and `donated` are measured on the contract's balance, so that
  `Solvent` compares what really moved with what the registry says.
* `EventLog` adds to each action the events it emits, as effects on what the
  dApp shows; an event carries only what the code puts into it.
* `PlayGame` leaves out the deadlines (the test warps past them before each draw)
  and the limit of 500 rounds, since the question is whether a game ends at all.
* In `EnumerableSet` and `EnumerableMap` a mapping is total with default 0, as in
  storage; positions in the array count from 1 where the code's count from 0.
* In `Checkpoints` a lookup first sets its local variables, then each iteration
  of its loop is a step. No transaction can run in between. Past its end the
  array reads as 0, as empty storage does. The generated history keys are 32 or
  96 bits: widths are constants.
* In `MigrateImports` a file is a sequence of imports. Text is abstracted to
  them, with the property of `String.replace` that counts: with a string as its
  pattern it replaces the first occurrence. `fs.writeFile` is modelled from its
  documented behaviour: opening the file for writing empties it (`OpenFile`), the
  text then gets there in chunks of any size (`WriteChunk`), and the promise is
  fulfilled when all of it is there (`WriteFile`). The process may be stopped
  after each of these. An import that a stop has cut in two counts as lost.
  `updatedFiles` is a sequence, as the script prints its length.
* The definitions marked "wrong form" are mistakes one could make in that code.
  No specification uses them. Each property of a passing run is tested by putting
  one in the place of the right form: TLC then finds the property violated.

## 3. Runs

| run | question | distinct states |
|---|---|---|
| `token` | is the token right on its own, at its cap and at the unlimited allowance? | 38,880 |
| `play` | is one game right from creation to prize, under constant settings? | 194,025 |
| `concurrent` | do two games that share the contract's balance stay apart, each an escrow? | 152,402 |
| `settings` | what survives, and does the dApp still see it, when the owner changes the durations during play? | 198,978 |
| `fees` | is money right at the uint64 edge, with fee changes and direct token calls? | 104,688 |
| `ends` | who can win, and does a game that can be won end? | 3,018 |
| `cardwords` | do the words hold the cards and the hits? | 1,687 |
| `enumerable` | are set and map a set and a partial function? | 43,992 |
| `checkpoints` | does every lookup return, with the right value? | 345,131 |
| `migrate` | is every import migrated and what else changes, with stops in the middle of a write too? | 277,418 |

What the bounds make happen:

* `token`: cap 3, amounts 0 to 2, so that mints stop at the cap with 1 left;
  5 is the maximal uint256, which `approve(5)` grants.
* `play`: two players, one game, seven blocks 3 seconds apart, a join period of
  6 seconds: two blocks to join, the third at the very deadline (neither joins
  nor draws are possible there), four to draw. Four draws are enough for a line
  through the free tile. The numbers 1 to 4 come in any order and with
  repetitions; the two cards share them, so both players can be one mark, or no
  mark, away from a line when the other claims. One card bears 1 and 2 twice.
* `concurrent`: games by both players in the same block, joined by the other
  while its tokens last, at fees 1 and 2, with one token donated; both prizes
  are claimed in some behaviours.
* `settings`: join durations 2, 20 and one that overflows, turn durations 1 and
  one that overflows, changed at any time; cards alternate between blocks, so a
  player who joins again gets different numbers. Blocks 2 to 5 draw the four
  numbers of a line; the sixth follows the end of the game, so that calls on a
  game that is over are tried.
* `fees`: `type(uint64).max` is 4 and the players hold all 4 tokens; fees 0, 1,
  2 and 40, which exceeds a uint64; one player transfers, approves without limit
  and spends allowances at any time; three games.
* `ends`: any two of four cards: a row and a column that one number can complete
  at once, a card one line of which is spoilt by a repeated number, and one on
  which every line is. 255 is drawn too, which no card bears.
* `cardwords`: five buckets of two bits and six hit bits, one more than tiles:
  all cards, repeated numbers, all sequences of marks. Two bits are enough for a
  number of all ones, which no card bears, and for a carry to show.
* `enumerable`: six words or three addresses, so that a removal can hit the
  first, a middle, the last and the only element of the array in any order of
  insertion; a map of three words, two addresses, for each pair of types, with
  the value 0. The contracts share nothing, so a behaviour calls one of them.
* `checkpoints`: keys 0 to 5, so arrays of up to six, for which the doubling
  search doubles, overshoots and halves; blocks to 7, so that block numbers that
  do not fit a key occur; two values.
* `migrate`: two files in nested directories, listed once or twice because the
  paths given overlap; two old paths of one new path; each package; sixteen
  contents of up to two imports, which may be equal, so that one import of two
  may be written when the process stops, and so that the script leaves one
  behind; two stops at any step, or a start after a run that was completed, in
  three starts in all.

`FinishedGameIsSettled`, `CardsFixedOncePlayBegins` and `GamesAreEscrows` hold
as long as the owner does not raise the join duration, `DrawsAreSpaced` as long as
no duration, and `MembersHavePaid` as long as the fee, does not go below the
constructor's: in `play` and `concurrent` the owner has no other value of these to
set. The violated runs below show that two of them fail without this.

Fairness. Safety is checked without any. The three liveness properties assume:

* `WinnableGamesEnd`: the test goes on with its next statement (weak fairness of
  the loop), and every number is drawn again and again while draws go on (strong
  fairness of each number). The second stands for a block hash being as good as
  random; it says nothing of who draws.
* `LookupsReturn`: a call that has started runs (weak fairness of its loop). The
  mock's transactions need not come.
* `MigratedInTheEnd`: the process runs unless it is stopped, and its user starts
  it again after a stop, within the starts that the bound allows: the last of
  them is not stopped. It is about files that named no moved path twice at first.

Deadlock is checked in all runs but two, which really end: in `ends` when the
prize is claimed, in `migrate` when the bound on starts is reached.

### Statements that the code does not keep

| run | statement | what happens |
|---|---|---|
| `rejoin` | `src/BitmaskBingo.sol:90`, no rejoining once the game has started | the owner raises the join duration; a member of a game with draws joins again and gets a fresh card |
| `late_fee` | `README.md:20`, the winner wins the pot | the owner raises the join duration; a fee is paid into a game that is over, from where no call can move it |

Further differences, seen in reading and left without a run of their own:

* `checkForWinner` is true of every card with a line, also of several and after
  the prize went to another player; `IBitmaskBingo.sol:90` has "True if the
  player is the winner".
* Only the first tile with a number is ever hit, where `IBitmaskBingo.sol:29` has
  the number marked "if the player's card contains it". `HiddenTilesNeverWin`
  shows what follows: some cards can never win, and a game among such cards never
  ends, against the expectation at `test/BitmaskBingo.t.sol:219`.
* `getGameSettings` returns fee, turn duration, join duration;
  `IBitmaskBingo.sol:47` documents fee, join duration, turn duration.
* The comment at `src/GameMechanics.sol:34` gives 99 as the waiting code where
  the code, and the comment at line 25, have 999.
* `migrate-imports.js:146` replaces the first occurrence of a path only: a file
  that imports one moved path twice keeps the second import, until the script is
  run again. If overlapping paths put such a file into the list twice, one run
  does both, and reports the file twice. `ImportsMigrated` and `MigratedInTheEnd`
  except such files, `ReportIsRight` excepts them from "once"; all of them are in
  the run.
* `migrate-imports.js:137` writes the file in place: a script that is stopped
  there loses what it had not yet written, and a second run cannot bring it back.
  `NothingElseChanges` says that this is all that can get lost.
* `OZ/scripts/update-docs-branch.js:42` compares minor versions as strings, so 10
  sorts before 9; `OZ/scripts/checks/inheritance-ordering.js:31` looks for cycles
  of two contracts only, and one of three passes;
  `OZ/scripts/release/update-comment.js:28` reads each file that `git diff` lists,
  also a deleted one.

## 4. Refinements

* `GamesAreEscrows`: `BitmaskBingo` implements `Escrow`, in which a pot takes
  deposits while open, pays all it holds to one of its depositors, once, and is
  then closed for good. Checked in `concurrent`, proved for behaviours in which the
  join duration is not raised.
* `ImplementsSet`: the swap-and-pop array implements `AbstractSet`, answers
  included. Checked in `enumerable`, proved.
* `ImplementsMap`: key set and mapping implement a partial function. Checked in
  `enumerable`, proved.
* `ImplementsCard`: the shifted and masked words of `CardStorage` implement
  `AbstractCard`, a step for a step. Checked in `cardwords`, proved. It is what lets `BitmaskBingo` and
  `GameMechanics` speak of numbers and sets of tiles.
* `EventSpec` implements `BitmaskBingo!Spec`: events are side effects. Proved, so
  that every theorem about the contract holds for it.

## 5. Proofs

All theorems hold for any finite set of addresses, any players, cards, amounts,
fees, durations, time steps and numbers of blocks, under the assumptions named in
the modules: the widths are natural numbers with uint64 below uint256; timestamps
fit a uint64; the contract is neither a player nor a direct caller of the token;
it has approved nobody at first; the tokens minted at first are within the cap.
Those about the library hold for any widths of words, keys and values, and those
about storage words for any widths at which the card fits its word
(`CardAssumption`).

`BitmaskBingoProofs`, in three parts:

* Sums: changing one element of a function changes the sum by the difference;
  one element, and two elements, are at most the sum. The sum is a cardinality
  of disjoint unions, so no induction is needed.
* The token: `TokenIInv`, types together with conservation, is inductive.
  Neither half is inductive without the other: that `_balances[to] += amount`
  does not wrap follows from the sum being capped, and that the sum is conserved
  follows from no addition wrapping. Hence `AdditionsNeverWrap`,
  `TokensConserved` and `AllowancesSpentAsPaid`.
* The contract: `IInv` adds the types of the game contract,
  `NoStandingAllowance`, `Solvent` and `FreshGames` (a game that does not exist
  has an empty pool). Solvency needs all of them: a standing allowance would let
  others take the contract's tokens, and `createGame` overwrites a pool that is
  0 only because of `FreshGames`. `AffordableFee` is the key to the uint64
  arithmetic: the contract and a player together hold at most the supply, so pool
  plus fee fits. Hence `Types`, `Solvency`, `NoAllowanceLeft`, `ClaimsArePaid`,
  `PoolsFit`.

`GameRulesProofs`, on top of `IInv`, also in three parts:

* A single game: `PoolsAreFees`, `OnePrize`, `NoUnearnedHits`, and the action
  properties `GamesStayFinal` and `PrizesGoToWinners`.
* What depends on the settings. The hypotheses are about what the violated runs
  show to be needed. `JoinNotRaised`, for a behaviour: no step raises the join
  duration; the owner may lower it, and may change fee and turn duration at will.
  It holds of every behaviour if there is no other join duration to set
  (`ConstantIsNotRaised`). `DurationsNotLowered` and `FeeNotLowered`, for the
  constants: no value the owner can set is below the constructor's.
  `HistoryIInv` holds without any of them: nothing is recorded for a game that does
  not exist, and the clock is past the last draw. `JoinIInv` adds
  `DrawnAfterJoining`: the last draw was past the deadline for joining, and the
  clock is past the last draw, so once a number was drawn nobody joins any more
  (`NobodyJoinsLate`). This keeps fees out of finished games and cards fixed, and
  raising the join duration is the one change that breaks it. Hence
  `NoFeeAfterTheEnd`, `NoNewCardOncePlayBegins`, `EscrowImplemented` under
  `JoinNotRaised`; `DrawsTakeTheirTime` (`SpacedIInv`) under
  `DurationsNotLowered`; `EveryMemberPaid` (`PaidIInv`) under `FeeNotLowered`.
* Events: `EventIInv`, types of the picture, the replay and the sum of the
  prizes. Hence `EventsAreSideEffects`, `EventsAreEnough`, `PrizesAnnounced`.

The other modules:

* `PlayGameProofs`: `HiddenTilesLose`. Whatever is drawn, the hits of a player
  are tiles that the numbers of the card can reach; more tiles complete no fewer
  lines; so a card that cannot win with all of them never wins. The invariant
  carries this from the mark over the look for a line to the claim.
  `NoLineOverlooked`: between two draws no card has a complete line, so a line is
  claimed in the round that completes it. This is the part of `WinnableGamesEnd`
  that is safety; what is left to fairness is that the missing numbers are drawn.
* `CardStorageProofs`: `CardIsReadBack`, `CardsCanBeDealt`, `HitsAreReadBack`,
  and from them `WordsImplementCard`.
  The heart is `updatedCard < 2^(BucketBits * i)`: while the card is dealt,
  everything from the bucket of the next tile on is 0. So adding to that bucket
  sets it, carries nowhere (`AddAbove`, `AddHere`, `NothingAbove`) and stays
  inside the word, and marking a tile a second time adds nothing (`SetBit`). The
  provers know neither powers nor divisions with a variable exponent: the
  quotient of a division is introduced through the least natural number past it
  (`Quotient`, `Division`), and `2^(a+b) = 2^a * 2^b` by counting the
  subsets of `1..a+b` (`PowerIsCount`, `PowerSum`).
* `EnumerableSetProofs`: `IInv` is `TypeOK` and `IndexesInvertValues`; that a
  removal keeps it is the swap of the last word, in the cases of the last and of
  another position. Hence `SetTypes`, `IndexesAreInverse`, `ViewsShowOneSet`,
  `SetImplemented`.
* `EnumerableMapProofs`: the keys are a set, and the lemmas of
  `EnumerableSetProofs` are used for them through `INSTANCE`. `MapIInv` adds that
  a key that is absent has the word 0: `tryGet` and `set` tell a missing key by
  that word and by the set, and agree only because `remove` clears it. Hence
  `LookupsAgreeWithAt` and, with the set's own refinement for the keys,
  `MapImplemented`.
* `CheckpointsProofs`: `IInv` adds to the properties `Searching` (below `low` all
  keys are on one side of the one searched for, from `high` on they are on the
  other), `CallsFit` (a call is about a block that is past, or about any key) and
  `BlocksHaveCome` (in a History no key is after the current block). Hence
  `CheckpointTypes`, `OrderKept`, `LookupsAreRight`, `AccessIsSafe`,
  `NothingRewritten`, for arrays of any length. `LookupsShrink`: each iteration of
  a lookup makes a natural number smaller, halves the interval or doubles the
  offset, and does nothing else. This is the part of `LookupsReturn` that is
  safety; fairness adds that the iterations are made.
* `MigrateImportsProofs`, for any tree of files, any table of paths, any contents
  and any number of stops and starts. `IInv` says that what was read is still in
  the file, or, while it is written, its first imports after the replacements,
  and that each file holds its own first imports, some of them moved
  (`FirstsKept`, a relation that composes because no new path is an old one), and
  all of them outside `Unfinished`. Hence `OnlyImportsMove`. `RInv` adds that the
  report is of the files that differ from those at the start and that a file
  without a double import is in it once, hence `ReportIsExact`. `MInv` is that a
  file is migrated, or in the list, or below a path in the queue, hence
  `AllImportsMigrated`. The loop over the table is followed pass by pass: were one
  pass to fail, the first that fails would not, which is the least natural
  number. The one hypothesis, `AllFilesGiven`, is a limit of the script and not of
  the proof: a file that is below no path on the command line is not looked at.
  It holds of the constants of the run.

Only model-checked: the three liveness properties, as fairness is out of the
prover's reach, and the two violated statements. Every other property of a run
is also a theorem, under the hypotheses named above where there are any:
`JoinNotRaised`, `DurationsNotLowered`, `FeeNotLowered`, `AllFilesGiven`.

## 6. Not modelled

* Gas, revert messages, the layout of arrays that getters return; tokens other
  than `BingoToken` behind `bingoToken`.
* `checkGameForPlayer` and `checkCardForHit` of `GameMechanics.sol`, which nothing
  calls and which have no state.
* The deployment script, an empty template; forge-std; the OpenZeppelin contracts
  that the game does not use.
* `OZ/scripts/generate/templates/SafeCast.js`: comparisons without state. Its
  effect on checkpoints is in `Checkpoints`.
* `OZ/scripts/update-docs-branch.js`, `OZ/scripts/release/*.js`,
  `OZ/scripts/checks/inheritance-ordering.js`: they drive git, npm and checks of
  the library's own repository, which the vendored copy is cut off from.
* The other scripts and the configuration of OpenZeppelin: one pass over files
  that writes text, or settings.
* Other writers while `migrate-imports.js` runs: it promises nothing about them.

## 7. Plan

Done: the token; the system; solvency and the rules as theorems; what depends on
the settings, for owners who may change them; words of storage and the card they
implement; the escrow; fair play; the event log; set, map, checkpoints and the
import migration; every safety property of the runs as a theorem, and the safety
half of two liveness properties.

Left:

1. The safety half of `MigratedInTheEnd`: a step of the migration that lists a
   directory replaces it in the queue by what is in it, so the measure that
   decreases is over the tree below the queue. For trees of any depth this is
   induction over data, out of the prover's reach; for a given depth it is not.
2. What `AllImportsMigrated` leaves open: that a file which named a moved path
   twice is left with exactly its second and later imports.
3. `DrawsAreSpaced` for the settings as they were at each draw, instead of the
   constructor's.
