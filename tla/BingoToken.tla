------------------------------ MODULE BingoToken ------------------------------
(***************************************************************************)
(* The ERC-20 token in which entry fees and prizes are paid:               *)
(* src/BingoToken.sol on top of OpenZeppelin's ERC20 and Ownable.          *)
(*                                                                         *)
(* A call either completes or reverts with every effect undone, so a call  *)
(* is one action, its requires are guards, and a reverted call is no step. *)
(* The operators Spent and Moved are the effects of ERC20's internal       *)
(* functions on the mappings; BitmaskBingo uses them for the token calls   *)
(* it makes in the middle of its own functions.                            *)
(***************************************************************************)
EXTENDS Totals

CONSTANTS
    Address,            \* the addresses in play, without address(0)
    ZeroAddress,        \* address(0)
    Deployer,           \* the account that deploys the token
    MaxUint64,          \* type(uint64).max, the cap on the supply
    MaxUint256,         \* type(uint256).max, also the unlimited allowance
    MintAmounts,        \* bound: the amounts passed to mint,
    TransferAmounts,    \*        to transfer and transferFrom,
    ApproveAmounts      \*        to approve, increase- and decreaseAllowance

ASSUME AddressAssumption ==
    /\ IsFiniteSet(Address)
    /\ Deployer \in Address
    /\ ZeroAddress \notin Address

ASSUME WidthAssumption ==
    /\ MaxUint64 \in Nat
    /\ MaxUint256 \in Nat
    /\ MaxUint64 < MaxUint256

ASSUME AmountAssumption ==
    /\ MintAmounts \subseteq 0 .. MaxUint256
    /\ TransferAmounts \subseteq 0 .. MaxUint256
    /\ ApproveAmounts \subseteq 0 .. MaxUint256

VARIABLES
    balances,       \* ERC20._balances
    allowances,     \* ERC20._allowances, allowances[owner][spender]
    totalSupply,    \* ERC20._totalSupply
    supply,         \* BingoToken.supply, a second count of the same tokens
    tokenOwner      \* Ownable._owner

tokenVars == <<balances, allowances, totalSupply, supply, tokenOwner>>

Uint256 == 0 .. MaxUint256

-------------------------------------------------------------------------------
(* Effects and conditions of ERC20's internal functions.  The definitions  *)
(* under "Wrong forms" here and below are plausible mistakes; nothing uses *)
(* them but the test that the properties would notice the mistake.         *)

\* Wrong forms: the allowance is not checked; it is used up by any spending;
\* the receiver's balance is read before the sender's is written.
CanSpendUnchecked(allowed, from, spender, amount) == TRUE

SpentWhole(allowed, from, spender, amount) ==
    IF allowed[from][spender] = MaxUint256
    THEN allowed
    ELSE [allowed EXCEPT ![from][spender] = 0]

MovedFromStale(held, from, to, amount) ==
    [held EXCEPT ![from] = @ - amount,
                 ![to] = (held[to] + amount) % (MaxUint256 + 1)]

\* _spendAllowance: the unlimited allowance is neither checked nor reduced.
CanSpend(allowed, from, spender, amount) ==
    \/ allowed[from][spender] = MaxUint256
    \/ allowed[from][spender] >= amount

Spent(allowed, from, spender, amount) ==
    IF allowed[from][spender] = MaxUint256
    THEN allowed
    ELSE [allowed EXCEPT ![from][spender] = @ - amount]

\* _transfer: the receiver's balance is read after the sender's was written
\* (a transfer to oneself changes nothing) and is increased unchecked.
Moved(held, from, to, amount) ==
    LET debited == [held EXCEPT ![from] = @ - amount]
    IN  [debited EXCEPT ![to] = (@ + amount) % (MaxUint256 + 1)]

\* The result of _approve.
Approved(allowed, owner, spender, amount) ==
    [allowed EXCEPT ![owner][spender] = amount]

-------------------------------------------------------------------------------
(* The public functions, each with the caller as first argument.           *)

mint(sender, to, amount) ==
    /\ sender = tokenOwner
    /\ supply + amount <= MaxUint64
    /\ totalSupply + amount <= MaxUint256
    /\ supply' = supply + amount
    /\ totalSupply' = totalSupply + amount
    /\ balances' = [balances EXCEPT ![to] = (@ + amount) % (MaxUint256 + 1)]
    /\ UNCHANGED <<allowances, tokenOwner>>

transfer(sender, to, amount) ==
    /\ balances[sender] >= amount
    /\ balances' = Moved(balances, sender, to, amount)
    /\ UNCHANGED <<allowances, totalSupply, supply, tokenOwner>>

transferFrom(sender, from, to, amount) ==
    /\ CanSpend(allowances, from, sender, amount)
    /\ balances[from] >= amount
    /\ allowances' = Spent(allowances, from, sender, amount)
    /\ balances' = Moved(balances, from, to, amount)
    /\ UNCHANGED <<totalSupply, supply, tokenOwner>>

approve(sender, spender, amount) ==
    /\ allowances' = Approved(allowances, sender, spender, amount)
    /\ UNCHANGED <<balances, totalSupply, supply, tokenOwner>>

increaseAllowance(sender, spender, added) ==
    /\ allowances[sender][spender] + added <= MaxUint256
    /\ approve(sender, spender, allowances[sender][spender] + added)

decreaseAllowance(sender, spender, subtracted) ==
    /\ allowances[sender][spender] >= subtracted
    /\ approve(sender, spender, allowances[sender][spender] - subtracted)

transferOwnership(sender, newOwner) ==
    /\ sender = tokenOwner
    /\ tokenOwner' = newOwner
    /\ UNCHANGED <<balances, allowances, totalSupply, supply>>

renounceOwnership(sender) ==
    /\ sender = tokenOwner
    /\ tokenOwner' = ZeroAddress
    /\ UNCHANGED <<balances, allowances, totalSupply, supply>>

\* One call to the token by `sender`.
TokenCall(sender) ==
    \/ \E to \in Address, amount \in MintAmounts : mint(sender, to, amount)
    \/ \E to \in Address, amount \in TransferAmounts :
          transfer(sender, to, amount)
    \/ \E from, to \in Address, amount \in TransferAmounts :
          transferFrom(sender, from, to, amount)
    \/ \E spender \in Address, amount \in ApproveAmounts :
          \/ approve(sender, spender, amount)
          \/ increaseAllowance(sender, spender, amount)
          \/ decreaseAllowance(sender, spender, amount)
    \/ \E newOwner \in Address : transferOwnership(sender, newOwner)
    \/ renounceOwnership(sender)

-------------------------------------------------------------------------------
(* The token on its own, from its constructor.                             *)

TokenInit ==
    /\ balances = [a \in Address |-> 0]
    /\ allowances = [a \in Address |-> [b \in Address |-> 0]]
    /\ totalSupply = 0
    /\ supply = 0
    /\ tokenOwner = Deployer

TokenNext == \E sender \in Address : TokenCall(sender)

TokenSpec == TokenInit /\ [][TokenNext]_tokenVars

-------------------------------------------------------------------------------
(* Properties.                                                             *)

\* Type invariant: every stored amount fits its Solidity type, and the owner
\* is an address or, once renounced, address(0).
TokenTypeOK ==
    /\ balances \in [Address -> Uint256]
    /\ allowances \in [Address -> [Address -> Uint256]]
    /\ totalSupply \in Uint256
    /\ supply \in 0 .. MaxUint64
    /\ tokenOwner \in Address \cup {ZeroAddress}

\* Conservation: the balances together are exactly the tokens minted, both
\* supply counters agree on that number, and it never exceeds the cap.  This
\* is what makes ERC20's unchecked additions safe, and what lets a prize pool
\* be a uint64 (the comment on struct Game).
SupplyIsBalances ==
    /\ Total(balances) = totalSupply
    /\ totalSupply = supply
    /\ supply <= MaxUint64

\* Whoever spends an allowance moves that many of the owner's tokens: a step
\* that moves tokens and lowers what `a` allows lowers a's balance by exactly
\* as much, so that an allowance of n costs its owner at most n.
SpentAllowanceIsPaid ==
    [][\A a, s \in Address :
          balances' # balances /\ allowances'[a][s] < allowances[a][s] =>
             balances[a] - balances'[a] = allowances[a][s] - allowances'[a][s]
      ]_tokenVars
===============================================================================
