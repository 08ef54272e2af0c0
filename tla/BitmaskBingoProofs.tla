-------------------------- MODULE BitmaskBingoProofs --------------------------
(***************************************************************************)
(* Proofs about the token and the game contract.  The heart is IInv: the   *)
(* contract's tokens are exactly the prize pools and the donations.  It is *)
(* inductive only together with the conservation of tokens (an unchecked   *)
(* addition could otherwise wrap), with the absence of allowances on the   *)
(* contract's tokens (somebody could otherwise take them), and with the    *)
(* emptiness of games that do not exist (createGame would otherwise        *)
(* overwrite a pool).                                                      *)
(***************************************************************************)
EXTENDS BitmaskBingo, FunctionTheorems, FiniteSetTheorems, TLAPS

-------------------------------------------------------------------------------
(* Total, the sum of a function over a finite set.  Each lemma follows     *)
(* from the cardinalities of disjoint unions, without induction.           *)

\* The unit tokens of one element.
UnitsOf(f, x) == {x} \X (1 .. f[x])

LEMMA UnitsOfCardinality ==
    ASSUME NEW S, NEW f \in [S -> Nat], NEW x \in S
    PROVE  /\ IsFiniteSet(UnitsOf(f, x))
           /\ Cardinality(UnitsOf(f, x)) = f[x]
<1> DEFINE I == 1 .. f[x]
<1>1. f[x] \in Nat
  OBVIOUS
<1>2. IsFiniteSet({x}) /\ Cardinality({x}) = 1
  BY FS_Singleton
<1>3. IsFiniteSet(I) /\ Cardinality(I) = f[x]
  BY <1>1, FS_Interval
<1> HIDE DEF I
<1>4. IsFiniteSet({x} \X I) /\ Cardinality({x} \X I) = 1 * f[x]
  BY <1>2, <1>3, FS_Product
<1> QED
  BY <1>1, <1>4 DEF UnitsOf, I

\* All tokens together are finitely many.
LEMMA UnitsFinite ==
    ASSUME NEW S, IsFiniteSet(S), NEW f \in [S -> Nat]
    PROVE  IsFiniteSet(Units(f))
<1> DEFINE Parts == {UnitsOf(f, x) : x \in S}
           part == [x \in S |-> UnitsOf(f, x)]
<1>1. part \in Surjection(S, Parts)
  BY DEF Surjection
<1>2. IsFiniteSet(Parts)
  BY <1>1, FS_Surjection
<1>3. \A T \in Parts : IsFiniteSet(T)
  BY UnitsOfCardinality
<1>4. Units(f) = UNION Parts
  BY DEF Units, UnitsOf
<1> HIDE DEF Parts
<1> QED
  BY <1>2, <1>3, <1>4, FS_UNION

\* The sum of natural numbers is a natural number.
LEMMA TotalType ==
    ASSUME NEW S, IsFiniteSet(S), NEW f \in [S -> Nat]
    PROVE  Total(f) \in Nat
BY UnitsFinite, FS_CardinalityType DEF Total

\* Taking out one element: the rest of the sum does not depend on it.
LEMMA TotalSplit ==
    ASSUME NEW S, IsFiniteSet(S), NEW f \in [S -> Nat], NEW x \in S
    PROVE  /\ Total([f EXCEPT ![x] = 0]) \in Nat
           /\ Total(f) = Total([f EXCEPT ![x] = 0]) + f[x]
<1> DEFINE g == [f EXCEPT ![x] = 0]
<1>1. g \in [S -> Nat]
  OBVIOUS
<1>2. IsFiniteSet(Units(g)) /\ IsFiniteSet(UnitsOf(f, x))
  BY <1>1, UnitsFinite, UnitsOfCardinality
<1>3. Units(f) = Units(g) \cup UnitsOf(f, x)
  <2>1. ASSUME NEW u \in Units(f)
        PROVE  u \in Units(g) \cup UnitsOf(f, x)
    <3>1. PICK y \in S : u \in {y} \X (1 .. f[y])
      BY DEF Units
    <3>2. CASE y = x
      BY <3>1, <3>2 DEF UnitsOf
    <3>3. CASE y # x
      BY <3>1, <3>3 DEF Units
    <3> QED
      BY <3>2, <3>3
  <2>2. ASSUME NEW u \in Units(g)
        PROVE  u \in Units(f)
    <3>1. PICK y \in S : u \in {y} \X (1 .. g[y])
      BY DEF Units
    <3>2. y # x
      BY <3>1
    <3> QED
      BY <3>1, <3>2 DEF Units
  <2>3. UnitsOf(f, x) \subseteq Units(f)
    BY DEF Units, UnitsOf
  <2> QED
    BY <2>1, <2>2, <2>3
<1>4. Units(g) \cap UnitsOf(f, x) = {}
  <2> SUFFICES ASSUME NEW u \in Units(g), u \in UnitsOf(f, x)
               PROVE  FALSE
    OBVIOUS
  <2>1. PICK y \in S : u \in {y} \X (1 .. g[y])
    BY DEF Units
  <2>2. y # x
    BY <2>1
  <2> QED
    BY <2>1, <2>2 DEF UnitsOf
<1> HIDE DEF g
<1>5. Cardinality(Units(g) \cup UnitsOf(f, x))
        = Cardinality(Units(g)) + Cardinality(UnitsOf(f, x)) - Cardinality({})
  BY <1>2, <1>4, FS_Union
<1>6. Cardinality({}) = 0
  BY FS_EmptySet
<1>7. Total(g) \in Nat
  BY <1>1, TotalType
<1> QED
  BY <1>3, <1>5, <1>6, <1>7, UnitsOfCardinality DEF Total, g

\* Changing one element changes the sum by the difference.
LEMMA TotalUpdate ==
    ASSUME NEW S, IsFiniteSet(S), NEW f \in [S -> Nat],
           NEW x \in S, NEW n \in Nat
    PROVE  Total([f EXCEPT ![x] = n]) = Total(f) - f[x] + n
<1> DEFINE g == [f EXCEPT ![x] = n]
<1>1. g \in [S -> Nat] /\ g[x] = n /\ f[x] \in Nat
  OBVIOUS
<1>2. [g EXCEPT ![x] = 0] = [f EXCEPT ![x] = 0]
  OBVIOUS
<1> HIDE DEF g
<1>3. Total(f) = Total([f EXCEPT ![x] = 0]) + f[x]
  BY TotalSplit
<1>4. Total(g) = Total([f EXCEPT ![x] = 0]) + n
  BY <1>1, <1>2, TotalSplit
<1>5. Total([f EXCEPT ![x] = 0]) \in Nat
  BY TotalSplit
<1> QED
  BY <1>1, <1>3, <1>4, <1>5 DEF g

\* No element exceeds the sum.
LEMMA TotalBoundsOne ==
    ASSUME NEW S, IsFiniteSet(S), NEW f \in [S -> Nat], NEW x \in S
    PROVE  f[x] <= Total(f)
<1>1. Total(f) = Total([f EXCEPT ![x] = 0]) + f[x]
  BY TotalSplit
<1>2. Total([f EXCEPT ![x] = 0]) \in Nat
  BY TotalSplit
<1>3. f[x] \in Nat
  OBVIOUS
<1> QED
  BY <1>1, <1>2, <1>3

\* Nor do two elements together.
LEMMA TotalBoundsTwo ==
    ASSUME NEW S, IsFiniteSet(S), NEW f \in [S -> Nat],
           NEW x \in S, NEW y \in S, x # y
    PROVE  f[x] + f[y] <= Total(f)
<1> DEFINE g == [f EXCEPT ![x] = 0]
<1>1. g \in [S -> Nat] /\ g[y] = f[y] /\ f[x] \in Nat /\ f[y] \in Nat
  OBVIOUS
<1>2. Total(f) = Total(g) + f[x] /\ Total(g) \in Nat
  BY TotalSplit
<1> HIDE DEF g
<1>3. g[y] <= Total(g)
  BY <1>1, TotalBoundsOne
<1> QED
  BY <1>1, <1>2, <1>3

\* The sum of nothing.
LEMMA TotalOfZeros ==
    ASSUME NEW S
    PROVE  Total([x \in S |-> 0]) = 0
<1>1. Units([x \in S |-> 0]) = {}
  BY DEF Units
<1> QED
  BY <1>1, FS_EmptySet DEF Total

-------------------------------------------------------------------------------
(* The token.  The inductive invariant is the type invariant together with *)
(* the conservation of tokens: that a balance fits its type after an       *)
(* unchecked addition follows only because all balances together are at    *)
(* most the cap.                                                           *)

\* The remainder leaves alone what fits the width.
LEMMA NoWrap ==
    ASSUME NEW m \in Nat, NEW n \in 0 .. m
    PROVE  n % (m + 1) = n
OBVIOUS

LEMMA BalanceType ==
    /\ Uint256 \subseteq Nat
    /\ MaxUint256 \in Uint256
BY WidthAssumption DEF Uint256

\* A transfer that the sender can afford keeps types and the sum, and moves
\* the amount and nothing else, as long as the sum fits a uint256.
LEMMA MovedConserves ==
    ASSUME NEW held \in [Address -> Uint256], Total(held) <= MaxUint256,
           NEW from \in Address, NEW to \in Address,
           NEW amount \in 0 .. held[from]
    PROVE  /\ Moved(held, from, to, amount) \in [Address -> Uint256]
           /\ Total(Moved(held, from, to, amount)) = Total(held)
           /\ from = to => Moved(held, from, to, amount) = held
           /\ from # to =>
                 Moved(held, from, to, amount) =
                    [held EXCEPT ![from] = @ - amount, ![to] = @ + amount]
<1> DEFINE debited == [held EXCEPT ![from] = @ - amount]
<1>1. /\ held \in [Address -> Nat] /\ held[from] \in Nat /\ held[to] \in Nat
      /\ held[from] <= MaxUint256 /\ held[to] <= MaxUint256
      /\ MaxUint256 \in Nat /\ amount \in Nat /\ amount <= held[from]
      /\ IsFiniteSet(Address)
  BY WidthAssumption, AddressAssumption DEF Uint256
<1>2. debited \in [Address -> Nat] /\ debited[from] = held[from] - amount
  BY <1>1
<1>3. Total(held) \in Nat
  BY <1>1, TotalType
<1>4. Total(debited) = Total(held) - amount
  <2>1. held[from] - amount \in Nat
    BY <1>1
  <2>2. Total(debited) = Total(held) - held[from] + (held[from] - amount)
    BY <1>1, <2>1, TotalUpdate
  <2> QED
    BY <1>1, <1>3, <2>2
<1>5. debited[to] \in Nat /\ debited[to] + amount <= MaxUint256
  <2>1. debited[to] <= Total(debited)
    BY <1>1, <1>2, TotalBoundsOne
  <2> QED
    BY <1>1, <1>2, <1>3, <1>4, <2>1
<1> DEFINE credited == debited[to] + amount
<1>6. credited % (MaxUint256 + 1) = credited
  BY <1>1, <1>5, NoWrap
<1>7. Moved(held, from, to, amount) = [debited EXCEPT ![to] = credited]
  BY <1>6 DEF Moved
<1>8. Moved(held, from, to, amount) \in [Address -> Uint256]
  <2>1. credited \in Uint256
    BY <1>1, <1>5 DEF Uint256
  <2>2. debited \in [Address -> Uint256]
    BY <1>1 DEF Uint256
  <2> QED
    BY <1>7, <2>1, <2>2
<1>9. Total(Moved(held, from, to, amount)) = Total(held)
  <2> HIDE DEF debited
  <2>1. credited \in Nat
    BY <1>1, <1>5
  <2>2. Total([debited EXCEPT ![to] = credited])
          = Total(debited) - debited[to] + credited
    BY <1>1, <1>2, <2>1, TotalUpdate
  <2> QED
    BY <1>1, <1>3, <1>4, <1>5, <1>7, <2>2
<1>10. CASE from = to
  BY <1>1, <1>7, <1>8, <1>9, <1>10
<1>11. CASE from # to
  BY <1>1, <1>7, <1>8, <1>9, <1>11
<1> QED
  BY <1>10, <1>11

\* Spending and approving keep the type of the allowances.
LEMMA AllowanceTypes ==
    ASSUME NEW allowed \in [Address -> [Address -> Uint256]],
           NEW a \in Address, NEW s \in Address, NEW amount \in Uint256
    PROVE  /\ Approved(allowed, a, s, amount)
                 \in [Address -> [Address -> Uint256]]
           /\ CanSpend(allowed, a, s, amount) =>
                 Spent(allowed, a, s, amount)
                    \in [Address -> [Address -> Uint256]]
<1>1. Approved(allowed, a, s, amount) \in [Address -> [Address -> Uint256]]
  BY DEF Approved
<1>2. ASSUME CanSpend(allowed, a, s, amount),
             allowed[a][s] # MaxUint256
      PROVE  Spent(allowed, a, s, amount) \in [Address -> [Address -> Uint256]]
  <2>1. allowed[a][s] - amount \in Uint256
    BY <1>2, WidthAssumption DEF CanSpend, Uint256
  <2> QED
    BY <1>2, <2>1 DEF Spent
<1>3. ASSUME allowed[a][s] = MaxUint256
      PROVE  Spent(allowed, a, s, amount) \in [Address -> [Address -> Uint256]]
  BY <1>3 DEF Spent
<1> QED
  BY <1>1, <1>2, <1>3

-------------------------------------------------------------------------------

\* The inductive invariant of the token.
TokenIInv == TokenTypeOK /\ SupplyIsBalances

\* What the invariant says of the arithmetic of a call.
LEMMA TokenFacts ==
    ASSUME TokenIInv
    PROVE  /\ balances \in [Address -> Uint256]
           /\ balances \in [Address -> Nat]
           /\ Total(balances) \in Nat
           /\ Total(balances) <= MaxUint64
           /\ Total(balances) <= MaxUint256
           /\ MaxUint64 \in Nat /\ MaxUint256 \in Nat
           /\ MaxUint64 < MaxUint256
           /\ IsFiniteSet(Address)
BY WidthAssumption, AddressAssumption
   DEF TokenIInv, TokenTypeOK, SupplyIsBalances, Uint256

LEMMA TokenInitIInv ==
    TokenInit => TokenIInv
<1> SUFFICES ASSUME TokenInit PROVE TokenIInv
  OBVIOUS
<1>1. TokenTypeOK
  BY WidthAssumption, AddressAssumption DEF TokenInit, TokenTypeOK, Uint256
<1>2. Total(balances) = 0
  BY TotalOfZeros DEF TokenInit
<1> QED
  BY <1>1, <1>2, WidthAssumption DEF TokenInit, TokenIInv, SupplyIsBalances

\* Every kind of call preserves the invariant.
LEMMA MintIInv ==
    ASSUME TokenIInv, NEW sender \in Address, NEW to \in Address,
           NEW amount \in MintAmounts, mint(sender, to, amount)
    PROVE  TokenIInv'
<1>1. amount \in Nat /\ amount <= MaxUint256
  BY AmountAssumption, WidthAssumption
<1>2. balances[to] \in Nat /\ balances[to] <= Total(balances)
  BY TokenFacts, TotalBoundsOne
<1>3. balances[to] + amount \in 0 .. MaxUint256
  BY <1>1, <1>2, TokenFacts DEF TokenIInv, SupplyIsBalances, mint
<1>4. balances' = [balances EXCEPT ![to] = balances[to] + amount]
  BY <1>3, TokenFacts, NoWrap DEF mint
<1>5. TokenTypeOK'
  BY <1>1, <1>3, <1>4, TokenFacts
     DEF TokenIInv, TokenTypeOK, Uint256, mint
<1>6. Total(balances') = Total(balances) + amount
  <2> DEFINE credited == balances[to] + amount
  <2>1. Total(balances') = Total(balances) - balances[to] + credited
    <3>1. credited \in Nat
      BY <1>1, <1>2
    <3> HIDE DEF credited
    <3> QED
      BY <3>1, <1>4, TokenFacts, TotalUpdate DEF credited
  <2> QED
    BY <1>1, <1>2, <2>1, TokenFacts
<1> QED
  BY <1>5, <1>6 DEF TokenIInv, SupplyIsBalances, mint

LEMMA TransferIInv ==
    ASSUME TokenIInv, NEW sender \in Address, NEW to \in Address,
           NEW amount \in Uint256, transfer(sender, to, amount)
    PROVE  TokenIInv'
<1>1. amount \in 0 .. balances[sender]
  BY TokenFacts DEF transfer, Uint256
<1>2. balances' \in [Address -> Uint256] /\ Total(balances') = Total(balances)
  BY <1>1, TokenFacts, MovedConserves DEF transfer
<1> QED
  BY <1>2 DEF TokenIInv, TokenTypeOK, SupplyIsBalances, transfer

LEMMA TransferFromIInv ==
    ASSUME TokenIInv, NEW sender \in Address, NEW from \in Address,
           NEW to \in Address, NEW amount \in Uint256,
           transferFrom(sender, from, to, amount)
    PROVE  TokenIInv'
<1>1. amount \in 0 .. balances[from]
  BY TokenFacts DEF transferFrom, Uint256
<1>2. balances' \in [Address -> Uint256] /\ Total(balances') = Total(balances)
  BY <1>1, TokenFacts, MovedConserves DEF transferFrom
<1>3. allowances' \in [Address -> [Address -> Uint256]]
  BY AllowanceTypes DEF TokenIInv, TokenTypeOK, transferFrom
<1> QED
  BY <1>2, <1>3 DEF TokenIInv, TokenTypeOK, SupplyIsBalances, transferFrom

LEMMA ApproveIInv ==
    ASSUME TokenIInv, NEW sender \in Address, NEW spender \in Address,
           NEW amount \in Uint256, approve(sender, spender, amount)
    PROVE  TokenIInv'
<1>1. allowances' \in [Address -> [Address -> Uint256]]
  BY AllowanceTypes DEF TokenIInv, TokenTypeOK, approve
<1> QED
  BY <1>1 DEF TokenIInv, TokenTypeOK, SupplyIsBalances, approve

LEMMA TokenCallIInv ==
    ASSUME TokenIInv, NEW sender \in Address, TokenCall(sender)
    PROVE  TokenIInv'
<1>1. ASSUME NEW to \in Address, NEW amount \in MintAmounts,
             mint(sender, to, amount)
      PROVE  TokenIInv'
  BY <1>1, MintIInv
<1>2. ASSUME NEW to \in Address, NEW amount \in TransferAmounts,
             transfer(sender, to, amount)
      PROVE  TokenIInv'
  BY <1>2, AmountAssumption, TransferIInv DEF Uint256
<1>3. ASSUME NEW from \in Address, NEW to \in Address,
             NEW amount \in TransferAmounts,
             transferFrom(sender, from, to, amount)
      PROVE  TokenIInv'
  BY <1>3, AmountAssumption, TransferFromIInv DEF Uint256
<1>4. ASSUME NEW spender \in Address, NEW amount \in ApproveAmounts
      PROVE  /\ approve(sender, spender, amount) => TokenIInv'
             /\ increaseAllowance(sender, spender, amount) => TokenIInv'
             /\ decreaseAllowance(sender, spender, amount) => TokenIInv'
  <2>1. /\ amount \in Uint256 /\ amount \in Nat
        /\ allowances[sender][spender] \in Uint256
        /\ allowances[sender][spender] \in Nat
    BY AmountAssumption, WidthAssumption
       DEF TokenIInv, TokenTypeOK, Uint256
  <2>2. CASE approve(sender, spender, amount)
    BY <2>1, <2>2, ApproveIInv
  <2>3. CASE increaseAllowance(sender, spender, amount)
    <3>1. allowances[sender][spender] + amount \in Uint256
      BY <2>1, <2>3 DEF increaseAllowance, Uint256
    <3> QED
      BY <2>3, <3>1, ApproveIInv DEF increaseAllowance
  <2>4. CASE decreaseAllowance(sender, spender, amount)
    <3>1. allowances[sender][spender] - amount \in Uint256
      BY <2>1, <2>4, WidthAssumption DEF decreaseAllowance, Uint256
    <3> QED
      BY <2>4, <3>1, ApproveIInv DEF decreaseAllowance
  <2> QED
    BY <2>2, <2>3, <2>4
<1>5. ASSUME NEW newOwner \in Address, transferOwnership(sender, newOwner)
      PROVE  TokenIInv'
  BY <1>5 DEF transferOwnership, TokenIInv, TokenTypeOK, SupplyIsBalances
<1>6. ASSUME renounceOwnership(sender)
      PROVE  TokenIInv'
  BY <1>6 DEF renounceOwnership, TokenIInv, TokenTypeOK, SupplyIsBalances
<1> QED
  BY <1>1, <1>2, <1>3, <1>4, <1>5, <1>6 DEF TokenCall

LEMMA TokenStepIInv ==
    TokenIInv /\ [TokenNext]_tokenVars => TokenIInv'
<1> SUFFICES ASSUME TokenIInv, [TokenNext]_tokenVars PROVE TokenIInv'
  OBVIOUS
<1>1. CASE TokenNext
  BY <1>1, TokenCallIInv DEF TokenNext
<1>2. CASE UNCHANGED tokenVars
  BY <1>2 DEF tokenVars, TokenIInv, TokenTypeOK, SupplyIsBalances
<1> QED
  BY <1>1, <1>2

LEMMA TokenInvariant ==
    TokenSpec => []TokenIInv
BY TokenInitIInv, TokenStepIInv, PTL DEF TokenSpec

\* Tokens are conserved and never exceed the cap: the balances add up to the
\* number minted, whatever calls are made.
THEOREM TokensConserved ==
    TokenSpec => []SupplyIsBalances
<1>1. TokenIInv => SupplyIsBalances
  BY DEF TokenIInv
<1> QED
  BY <1>1, TokenInvariant, PTL

\* "Overflow not possible: the sum of all balances is capped by totalSupply" and
\* "balance + amount is at most totalSupply + amount, which is checked above",
\* the comments on the unchecked additions of ERC20's _transfer and _mint: in
\* no state is there an amount that the call could move, or the cap lets the
\* owner mint, with which the receiver's balance would wrap around.
THEOREM AdditionsNeverWrap ==
    TokenSpec =>
       [](/\ \A from, to \in Address : \A amount \in 0 .. balances[from] :
                from # to => balances[to] + amount <= totalSupply
          /\ \A to \in Address : \A amount \in Nat :
                supply + amount <= MaxUint64 => balances[to] + amount <= MaxUint64
          /\ totalSupply <= MaxUint64)
<1> DEFINE Fit ==
       /\ \A from, to \in Address : \A amount \in 0 .. balances[from] :
             from # to => balances[to] + amount <= totalSupply
       /\ \A to \in Address : \A amount \in Nat :
             supply + amount <= MaxUint64 => balances[to] + amount <= MaxUint64
       /\ totalSupply <= MaxUint64
<1>1. TokenIInv => Fit
  <2> SUFFICES ASSUME TokenIInv PROVE Fit
    OBVIOUS
  <2>1. /\ balances \in [Address -> Nat] /\ supply \in Nat
        /\ totalSupply = Total(balances) /\ totalSupply = supply
        /\ supply <= MaxUint64 /\ MaxUint64 \in Nat
    BY TokenFacts, WidthAssumption DEF TokenIInv, TokenTypeOK, SupplyIsBalances
  <2>2. ASSUME NEW from \in Address, NEW to \in Address, from # to
        PROVE  balances[from] + balances[to] <= totalSupply
    BY <2>1, <2>2, TotalBoundsTwo, AddressAssumption
  <2>3. ASSUME NEW to \in Address
        PROVE  balances[to] <= totalSupply
    BY <2>1, TotalBoundsOne, AddressAssumption
  <2>4. ASSUME NEW from \in Address, NEW to \in Address,
               NEW amount \in 0 .. balances[from], from # to
        PROVE  balances[to] + amount <= totalSupply
    BY <2>1, <2>2, <2>4
  <2>5. ASSUME NEW to \in Address, NEW amount \in Nat, supply + amount <= MaxUint64
        PROVE  balances[to] + amount <= MaxUint64
    BY <2>1, <2>3, <2>5
  <2> QED
    BY <2>1, <2>4, <2>5
<1> HIDE DEF Fit
<1>2. TokenSpec => []Fit
  BY <1>1, TokenInvariant, PTL
<1> QED
  BY <1>2 DEF Fit

-------------------------------------------------------------------------------

\* A step that moves tokens and lowers an allowance is a transferFrom that
\* moves as much (the guards of the other calls leave no such step).
LEMMA SpendingStep ==
    ASSUME TokenIInv, [TokenNext]_tokenVars,
           NEW a \in Address, NEW s \in Address,
           balances' # balances, allowances'[a][s] < allowances[a][s]
    PROVE  balances[a] - balances'[a] = allowances[a][s] - allowances'[a][s]
<1>1. allowances' # allowances
  BY DEF TokenIInv, TokenTypeOK, Uint256
<1>2. PICK sender \in Address, from \in Address, to \in Address,
           amount \in TransferAmounts : transferFrom(sender, from, to, amount)
  BY <1>1 DEF tokenVars, TokenNext, TokenCall, mint, transfer, approve,
     increaseAllowance, decreaseAllowance, transferOwnership,
     renounceOwnership
<1>3. amount \in Nat /\ amount \in 0 .. balances[from]
  BY <1>2, AmountAssumption, TokenFacts DEF transferFrom, Uint256
<1>4. allowances' = [allowances EXCEPT ![from][sender] = @ - amount]
  BY <1>1, <1>2 DEF transferFrom, Spent
<1>5. from = a /\ sender = s
  BY <1>3, <1>4 DEF TokenIInv, TokenTypeOK, Uint256
<1>6. from # to /\
      balances' = [balances EXCEPT ![from] = @ - amount, ![to] = @ + amount]
  BY <1>2, <1>3, TokenFacts, MovedConserves DEF transferFrom
<1>7. balances'[a] = balances[a] - amount
  BY <1>5, <1>6, TokenFacts
<1>8. allowances'[a][s] = allowances[a][s] - amount
  BY <1>4, <1>5 DEF TokenIInv, TokenTypeOK
<1> QED
  BY <1>3, <1>7, <1>8, TokenFacts DEF TokenIInv, TokenTypeOK, Uint256

\* An allowance of n costs its owner at most n: whoever uses it up pays the
\* owner's tokens out one for one.
THEOREM AllowancesSpentAsPaid ==
    TokenSpec => SpentAllowanceIsPaid
<1>1. TokenIInv /\ [TokenNext]_tokenVars =>
        [\A a, s \in Address :
            balances' # balances /\ allowances'[a][s] < allowances[a][s] =>
               balances[a] - balances'[a]
                  = allowances[a][s] - allowances'[a][s]]_tokenVars
  BY SpendingStep
<1> QED
  BY <1>1, TokenInvariant, PTL DEF TokenSpec, SpentAllowanceIsPaid

-------------------------------------------------------------------------------
(* The game contract.                                                      *)

\* A game that was not created has no pool and no state of play.
FreshGames ==
    \A id \in GameId : gameRegistry[id].createdAt = 0 =>
        gameRegistry[id] = NoGame

IInv ==
    /\ TokenIInv
    /\ GameTypeOK
    /\ NoStandingAllowance
    /\ Solvent
    /\ FreshGames

-------------------------------------------------------------------------------
(* Facts about constants and types.                                        *)

LEMMA GameIdFacts ==
    /\ IsFiniteSet(GameId)
    /\ GameId \subseteq (1 .. MaxBlock) \X Player
    /\ Player \subseteq Address
    /\ This \in Address
    /\ This \notin Player
    /\ This \notin TokenCallers
    /\ TokenCallers \subseteq Address
<1>1. IsFiniteSet(Player)
  BY PlayerAssumption, AddressAssumption, FS_Subset
<1>2. IsFiniteSet(1 .. MaxBlock)
  BY ChainAssumption, FS_Interval
<1>3. IsFiniteSet((1 .. MaxBlock) \X Player)
  BY <1>1, <1>2, FS_Product
<1>4. IsFiniteSet(GameId)
  BY <1>3, ChainAssumption, FS_Subset
<1> QED
  BY <1>4, ChainAssumption, PlayerAssumption

LEMMA CodeFacts ==
    /\ NoNumberYet \notin DrawRange
    /\ GameOver \notin DrawRange
    /\ NoNumberYet # GameOver
    /\ FreeTile \in Tiles
    /\ 0 \in DrawRange
BY DEF NoNumberYet, GameOver, DrawRange, FreeTile, Tiles

LEMMA WidthFacts ==
    /\ MaxUint64 \in Nat /\ MaxUint256 \in Nat /\ MaxUint64 < MaxUint256
    /\ MaxTimestamp \in Nat /\ MaxTimestamp <= MaxUint64
    /\ \A t \in 1 .. MaxTimestamp : Uint64(t) = t
    /\ \A n \in 0 .. MaxUint64 : Uint64(n) = n
<1>1. MaxTimestamp \in Nat /\ MaxTimestamp <= MaxUint64 /\ MaxUint64 \in Nat
  BY ChainAssumption, WidthAssumption
<1>2. \A n \in 0 .. MaxUint64 : Uint64(n) = n
  BY <1>1, NoWrap DEF Uint64
<1> QED
  BY <1>1, <1>2, WidthAssumption

LEMMA NoGameType ==
    NoGame \in Games /\ NoCard \in Cards
BY WidthFacts, CardAssumption, CodeFacts
   DEF NoGame, NoCard, Games, Cards

LEMMA DealtCardType ==
    ASSUME GameTypeOK
    PROVE  DealtCard \in Cards
BY CodeFacts DEF GameTypeOK, DealtCard, Cards, Entropy

LEMMA PoolFacts ==
    ASSUME GameTypeOK, NEW id \in GameId
    PROVE  /\ prizePools \in [GameId -> Nat]
           /\ prizePools[id] = gameRegistry[id].prizePool
           /\ gameRegistry[id].prizePool \in 0 .. MaxUint64
           /\ gameRegistry[id].prizePool \in Nat
           /\ gameRegistry[id].prizePool <= Total(prizePools)
           /\ Total(prizePools) \in Nat
<1>1. \A i \in GameId : gameRegistry[i].prizePool \in 0 .. MaxUint64
  BY DEF GameTypeOK, Games
<1>2. prizePools \in [GameId -> Nat]
  BY <1>1, WidthFacts DEF prizePools
<1>3. prizePools[id] = gameRegistry[id].prizePool
  BY DEF prizePools
<1>4. prizePools[id] <= Total(prizePools) /\ Total(prizePools) \in Nat
  BY <1>2, GameIdFacts, TotalBoundsOne, TotalType
<1> QED
  BY <1>1, <1>2, <1>3, <1>4, WidthFacts

\* A step that changes the pool of one game changes the sum of all pools by
\* the difference.
LEMMA OnePoolChanges ==
    ASSUME GameTypeOK, NEW id \in GameId, NEW n \in Nat,
           gameRegistry' \in [GameId -> Games],
           \A i \in GameId : gameRegistry'[i].prizePool =
              IF i = id THEN n ELSE gameRegistry[i].prizePool
    PROVE  Total(prizePools)' =
              Total(prizePools) - gameRegistry[id].prizePool + n
<1>1. prizePools' = [prizePools EXCEPT ![id] = n]
  BY DEF prizePools
<1>2. prizePools \in [GameId -> Nat]
  BY PoolFacts
<1>3. IsFiniteSet(GameId)
  BY GameIdFacts
<1>4. Total([prizePools EXCEPT ![id] = n])
        = Total(prizePools) - prizePools[id] + n
  BY <1>2, <1>3, TotalUpdate
<1> QED
  BY <1>1, <1>4, PoolFacts

\* What the contract holds and what a player holds is together at most the
\* cap, so a fee that a player can pay survives the conversion to uint64 and
\* the addition to any pool.
LEMMA AffordableFee ==
    ASSUME IInv, NEW p \in Player, NEW id \in GameId,
           NEW fee \in Nat, fee <= balances[p]
    PROVE  /\ fee <= MaxUint64
           /\ Uint64(fee) = fee
           /\ gameRegistry[id].prizePool + fee <= MaxUint64
<1>1. /\ balances[p] \in Nat /\ balances[This] \in Nat
      /\ balances[This] + balances[p] <= Total(balances)
  BY TokenFacts, GameIdFacts, TotalBoundsTwo DEF IInv
<1>2. gameRegistry[id].prizePool <= balances[This]
  BY <1>1, PoolFacts DEF IInv, Solvent, GameTypeOK
<1>3. gameRegistry[id].prizePool + fee <= MaxUint64
  BY <1>1, <1>2, PoolFacts, TokenFacts, WidthFacts DEF IInv
<1>4. fee <= MaxUint64
  BY <1>3, PoolFacts, WidthFacts DEF IInv
<1> QED
  BY <1>3, <1>4, WidthFacts

-------------------------------------------------------------------------------
(* The token calls that the contract and others make.                      *)

\* A fee moves from the player to the contract, and no allowance on the
\* contract's tokens changes.
LEMMA FeePaid ==
    ASSUME IInv, NEW sender \in Player, NEW fee \in Uint256,
           PayFee(sender, fee)
    PROVE  /\ TokenIInv'
           /\ NoStandingAllowance'
           /\ fee \in Nat /\ fee <= balances[sender]
           /\ Received = fee
           /\ balances[This] \in Nat
           /\ balances'[This] = balances[This] + fee
<1>1. sender \in Address /\ sender # This /\ This \in Address
  BY GameIdFacts
<1>2. TokenIInv'
  BY <1>1, TransferFromIInv DEF IInv, PayFee
<1>3. /\ fee \in Nat /\ fee <= balances[sender] /\ fee \in 0 .. balances[sender]
      /\ balances[This] \in Nat
  BY <1>1, TokenFacts DEF IInv, PayFee, transferFrom, Uint256
<1>4. balances' = [balances EXCEPT ![sender] = @ - fee, ![This] = @ + fee]
  BY <1>1, <1>3, TokenFacts, MovedConserves DEF IInv, PayFee, transferFrom
<1>5. balances'[This] = balances[This] + fee
  BY <1>1, <1>4, TokenFacts DEF IInv
<1>6. \A a \in Address : allowances'[This][a] = allowances[This][a]
  BY <1>1 DEF IInv, TokenIInv, TokenTypeOK, PayFee, transferFrom, Spent
<1> QED
  BY <1>2, <1>3, <1>5, <1>6 DEF IInv, NoStandingAllowance, Received

\* A prize moves from the contract to the winner, and the allowance that the
\* contract gives itself for it is used up.
LEMMA PrizePaid ==
    ASSUME IInv, NEW sender \in Player, NEW prize \in 0 .. MaxUint64,
           PayPrize(sender, prize)
    PROVE  /\ TokenIInv'
           /\ NoStandingAllowance'
           /\ prize \in Nat /\ prize <= balances[This]
           /\ balances[This] \in Nat
           /\ balances'[This] = balances[This] - prize
           /\ balances'[sender] = balances[sender] + prize
<1> DEFINE allowed == Approved(allowances, This, This, prize)
<1>1. sender \in Address /\ sender # This /\ This \in Address
  BY GameIdFacts
<1>2. /\ prize \in Nat /\ prize \in Uint256 /\ prize # MaxUint256
      /\ prize <= balances[This] /\ prize \in 0 .. balances[This]
      /\ balances[This] \in Nat
  BY <1>1, TokenFacts, WidthFacts DEF IInv, PayPrize, Uint256
<1>3. /\ allowed \in [Address -> [Address -> Uint256]]
      /\ allowed = [allowances EXCEPT ![This][This] = prize]
      /\ allowed[This][This] = prize
  BY <1>1, <1>2, AllowanceTypes
     DEF IInv, TokenIInv, TokenTypeOK, Approved
<1>4. allowances' = Spent(allowed, This, This, prize)
  BY DEF PayPrize
<1>5. allowances' = [allowed EXCEPT ![This][This] = prize - prize]
  BY <1>1, <1>2, <1>3, <1>4 DEF Spent
<1>6. /\ balances' \in [Address -> Uint256]
      /\ Total(balances') = Total(balances)
      /\ balances' = [balances EXCEPT ![This] = @ - prize, ![sender] = @ + prize]
  BY <1>1, <1>2, TokenFacts, MovedConserves DEF IInv, PayPrize
<1>7. /\ balances'[This] = balances[This] - prize
      /\ balances'[sender] = balances[sender] + prize
  BY <1>1, <1>6, TokenFacts DEF IInv
<1> HIDE DEF allowed
<1>8. \A a \in Address : allowances'[This][a] = 0
  BY <1>1, <1>2, <1>3, <1>5 DEF IInv, NoStandingAllowance, TokenIInv, TokenTypeOK
<1>9. allowances' \in [Address -> [Address -> Uint256]]
  <2>1. prize - prize = 0 /\ 0 \in Uint256
    BY <1>2, WidthFacts DEF Uint256
  <2> QED
    BY <1>1, <1>3, <1>5, <2>1
<1>10. TokenIInv'
  BY <1>6, <1>9 DEF IInv, TokenIInv, TokenTypeOK, SupplyIsBalances, PayPrize
<1> QED
  BY <1>2, <1>7, <1>8, <1>10 DEF NoStandingAllowance

\* What others call on the token takes nothing from the contract.
LEMMA OthersCallToken ==
    ASSUME IInv, NEW sender \in TokenCallers, TokenCall(sender)
    PROVE  /\ TokenIInv'
           /\ NoStandingAllowance'
           /\ Received \in Nat
           /\ balances[This] \in Nat /\ balances'[This] \in Nat
<1>1. sender \in Address /\ sender # This /\ This \in Address
  BY GameIdFacts
<1>2. TokenIInv'
  BY <1>1, TokenCallIInv DEF IInv
<1>3. balances[This] \in Nat /\ balances'[This] \in Nat
  BY <1>1, <1>2, WidthFacts DEF IInv, TokenIInv, TokenTypeOK, Uint256
<1>4. /\ \A a \in Address : allowances[This][a] = 0
      /\ 0 # MaxUint256
      /\ allowances \in [Address -> [Address -> Uint256]]
  BY WidthFacts DEF IInv, NoStandingAllowance, TokenIInv, TokenTypeOK
<1> DEFINE Kept == /\ \A a \in Address : allowances'[This][a] = 0
                   /\ balances'[This] >= balances[This]
<1>5. ASSUME NEW to \in Address, NEW amount \in MintAmounts,
             mint(sender, to, amount)
      PROVE  Kept
  <2>1. amount \in Nat
    BY AmountAssumption, WidthFacts
  <2>2. balances[to] \in Nat /\ balances[to] <= Total(balances)
    BY TokenFacts, TotalBoundsOne DEF IInv
  <2>3. balances[to] + amount \in 0 .. MaxUint256
    BY <1>5, <2>1, <2>2, TokenFacts
       DEF IInv, TokenIInv, SupplyIsBalances, mint
  <2>4. balances' = [balances EXCEPT ![to] = balances[to] + amount]
    BY <1>5, <2>3, TokenFacts, NoWrap DEF IInv, mint
  <2> QED
    BY <1>1, <1>3, <1>4, <1>5, <2>1, <2>4, TokenFacts DEF IInv, mint
<1>6. ASSUME NEW to \in Address, NEW amount \in TransferAmounts,
             transfer(sender, to, amount)
      PROVE  Kept
  <2>1. amount \in Nat /\ amount \in 0 .. balances[sender]
    BY <1>1, <1>6, AmountAssumption, TokenFacts DEF IInv, transfer, Uint256
  <2>2. balances' = balances \/
        balances' = [balances EXCEPT ![sender] = @ - amount, ![to] = @ + amount]
    BY <1>1, <1>6, <2>1, TokenFacts, MovedConserves DEF IInv, transfer
  <2>3. balances'[This] >= balances[This]
    BY <1>1, <1>3, <2>1, <2>2, TokenFacts DEF IInv
  <2> QED
    BY <1>4, <1>6, <2>3 DEF transfer
<1>7. ASSUME NEW from \in Address, NEW to \in Address,
             NEW amount \in TransferAmounts,
             transferFrom(sender, from, to, amount)
      PROVE  Kept
  <2>1. amount \in Nat /\ amount \in 0 .. balances[from]
    BY <1>7, AmountAssumption, TokenFacts DEF IInv, transferFrom, Uint256
  <2>2. from = This => amount = 0
    BY <1>1, <1>4, <1>7, <2>1 DEF transferFrom, CanSpend
  <2>3. balances' = balances \/
        balances' = [balances EXCEPT ![from] = @ - amount, ![to] = @ + amount]
    BY <1>7, <2>1, TokenFacts, MovedConserves DEF IInv, transferFrom
  <2>4. balances'[This] >= balances[This]
    BY <1>1, <1>3, <2>1, <2>2, <2>3, TokenFacts DEF IInv
  <2>5. \A a \in Address : allowances'[This][a] = 0
    BY <1>1, <1>4, <1>7, <2>2 DEF transferFrom, Spent
  <2> QED
    BY <2>4, <2>5
<1>8. ASSUME NEW spender \in Address, NEW amount,
             approve(sender, spender, amount)
      PROVE  Kept
  BY <1>1, <1>3, <1>4, <1>8 DEF approve, Approved
<1>9. ASSUME NEW newOwner \in Address, transferOwnership(sender, newOwner)
      PROVE  Kept
  BY <1>3, <1>4, <1>9 DEF transferOwnership
<1>10. ASSUME renounceOwnership(sender)
       PROVE  Kept
  BY <1>3, <1>4, <1>10 DEF renounceOwnership
<1>11. Kept
  BY <1>5, <1>6, <1>7, <1>8, <1>9, <1>10
     DEF TokenCall, increaseAllowance, decreaseAllowance
<1> QED
  BY <1>2, <1>3, <1>11 DEF NoStandingAllowance, Received

-------------------------------------------------------------------------------
(* IInv holds initially and every action preserves it.                     *)

LEMMA InitIInv ==
    Init => IInv
<1> SUFFICES ASSUME Init PROVE IInv
  OBVIOUS
<1>1. IsFiniteSet(Address) /\ This \in Address
  BY GameIdFacts, AddressAssumption
<1>2. InitialBalances \in [Address -> Nat] /\ Total(InitialBalances) \in Nat
  BY <1>1, FundingAssumption, WidthFacts, TotalType DEF Uint256
<1>3. TokenIInv
  BY <1>2, FundingAssumption, AddressAssumption, WidthFacts
     DEF Init, TokenIInv, TokenTypeOK, SupplyIsBalances, Uint256
<1>4. GameTypeOK
  <2>1. gameSettings \in [entryFee : Uint256, minimumTurnDuration : Uint256,
                          minimumJoinDuration : Uint256]
    BY SettingsAssumption DEF Init
  <2>2. /\ gameRegistry \in [GameId -> Games]
        /\ playerRegistry \in [Player -> [GameId -> Cards]]
    BY NoGameType DEF Init
  <2>3. block \in [number : 1 .. MaxBlock, timestamp : 1 .. MaxTimestamp,
                   entropy : Entropy]
    <3>1. 1 \in 1 .. MaxBlock /\ 1 \in 1 .. MaxTimestamp
      BY ChainAssumption, WidthFacts
    <3>2. Outcomes[1] \subseteq Entropy
      BY <3>1, ChainAssumption
    <3> QED
      BY <3>1, <3>2 DEF Init
  <2>4. donated \in Nat
    BY <1>1, <1>2 DEF Init
  <2> QED
    BY <2>1, <2>2, <2>3, <2>4 DEF Init, GameTypeOK
<1>5. NoStandingAllowance
  BY <1>1, FundingAssumption DEF Init, NoStandingAllowance
<1>6. Solvent
  <2>1. prizePools = [id \in GameId |-> 0]
    BY DEF Init, prizePools, NoGame
  <2>2. Total(prizePools) = 0
    BY <2>1, TotalOfZeros
  <2> QED
    BY <1>1, <1>2, <2>2 DEF Init, Solvent
<1>7. FreshGames
  BY DEF Init, FreshGames
<1> QED
  BY <1>3, <1>4, <1>5, <1>6, <1>7 DEF IInv

LEMMA createGameIInv ==
    ASSUME IInv, NEW sender \in Player, createGame(sender)
    PROVE  IInv'
<1> DEFINE id == gameIdOf(sender)
           fee == gameSettings.entryFee
           new == [lastDrawnNumber |-> NoNumberYet,
                   lastDrawnAt |-> block.timestamp,
                   prizePool |-> fee,
                   createdAt |-> block.timestamp]
<1>1. /\ id \in GameId /\ fee \in Uint256 /\ PayFee(sender, fee)
      /\ gameRegistry[id].createdAt = 0
      /\ block.timestamp \in 1 .. MaxTimestamp
      /\ Uint64(block.timestamp) = block.timestamp
  BY WidthFacts DEF createGame, IInv, GameTypeOK
<1>2. /\ TokenIInv' /\ NoStandingAllowance'
      /\ fee \in Nat /\ fee <= balances[sender] /\ Received = fee
      /\ balances[This] \in Nat /\ balances'[This] = balances[This] + fee
  BY <1>1, FeePaid
<1>3. fee \in 0 .. MaxUint64 /\ Uint64(fee) = fee
  BY <1>1, <1>2, AffordableFee, WidthFacts
<1>4. gameRegistry[id].prizePool = 0
  BY <1>1 DEF IInv, FreshGames, NoGame
<1>5. gameRegistry' = [gameRegistry EXCEPT ![id] = new]
  BY <1>1, <1>3 DEF createGame
<1>6. playerRegistry' = [playerRegistry EXCEPT ![sender][id] = DealtCard]
  BY DEF createGame
<1>7. feesPaid' = [feesPaid EXCEPT ![id] = feesPaid[id] + fee]
  BY <1>1, <1>2 DEF createGame, IInv, GameTypeOK
<1>8. UNCHANGED <<gameSettings, block, drawn, draws, claims, donated>>
  BY DEF createGame
<1>9. new \in Games
  BY <1>1, <1>3, WidthFacts DEF Games
<1> HIDE DEF id, fee
<1>10. gameRegistry' \in [GameId -> Games]
  BY <1>1, <1>5, <1>9 DEF IInv, GameTypeOK
<1>11. GameTypeOK'
  <2>1. playerRegistry' \in [Player -> [GameId -> Cards]]
    BY <1>1, <1>6, DealtCardType DEF IInv, GameTypeOK
  <2>2. feesPaid' \in [GameId -> Nat]
    BY <1>1, <1>2, <1>7 DEF IInv, GameTypeOK
  <2> QED
    BY <1>8, <1>10, <2>1, <2>2 DEF IInv, GameTypeOK
<1>12. Total(prizePools)' = Total(prizePools) + fee
  <2>1. \A i \in GameId : gameRegistry'[i].prizePool =
           IF i = id THEN fee ELSE gameRegistry[i].prizePool
    BY <1>1, <1>5 DEF IInv, GameTypeOK
  <2>2. Total(prizePools)' =
           Total(prizePools) - gameRegistry[id].prizePool + fee
    BY <1>1, <1>2, <1>10, <2>1, OnePoolChanges DEF IInv
  <2> QED
    BY <1>1, <1>2, <1>4, <2>2, PoolFacts DEF IInv
<1>13. Solvent'
  BY <1>1, <1>2, <1>8, <1>12, PoolFacts DEF IInv, Solvent, GameTypeOK
<1>14. FreshGames'
  <2>1. \A i \in GameId : i # id => gameRegistry'[i] = gameRegistry[i]
    BY <1>5 DEF IInv, GameTypeOK
  <2>2. gameRegistry'[id].createdAt # 0
    BY <1>1, <1>5 DEF IInv, GameTypeOK
  <2> QED
    BY <2>1, <2>2 DEF IInv, FreshGames
<1> QED
  BY <1>2, <1>11, <1>13, <1>14 DEF IInv

LEMMA joinGameIInv ==
    ASSUME IInv, NEW sender \in Player, NEW id \in GameId,
           joinGame(sender, id)
    PROVE  IInv'
<1> DEFINE fee == gameSettings.entryFee
           pool == gameRegistry[id].prizePool + fee
<1>1. /\ fee \in Uint256 /\ PayFee(sender, fee)
      /\ gameRegistry[id].createdAt > 0
      /\ gameRegistry[id] \in Games
  BY DEF joinGame, IInv, GameTypeOK
<1>2. /\ TokenIInv' /\ NoStandingAllowance'
      /\ fee \in Nat /\ fee <= balances[sender] /\ Received = fee
      /\ balances[This] \in Nat /\ balances'[This] = balances[This] + fee
  BY <1>1, FeePaid
<1>3. /\ Uint64(fee) = fee /\ pool <= MaxUint64
      /\ gameRegistry[id].prizePool \in Nat /\ pool \in Nat
      /\ pool \in 0 .. MaxUint64
  BY <1>1, <1>2, AffordableFee, PoolFacts, WidthFacts DEF IInv
<1>4. gameRegistry' = [gameRegistry EXCEPT ![id].prizePool = pool]
  BY <1>1, <1>3 DEF joinGame, IInv, GameTypeOK
<1>5. playerRegistry' = [playerRegistry EXCEPT ![sender][id] = DealtCard]
  BY DEF joinGame
<1>6. feesPaid' = [feesPaid EXCEPT ![id] = feesPaid[id] + fee]
  BY <1>2 DEF joinGame, IInv, GameTypeOK
<1>7. UNCHANGED <<gameSettings, block, drawn, draws, claims, donated>>
  BY DEF joinGame
<1> HIDE DEF fee
<1>8. gameRegistry' \in [GameId -> Games]
  <2>1. [gameRegistry[id] EXCEPT !.prizePool = pool] \in Games
    BY <1>1, <1>3 DEF Games
  <2> QED
    BY <1>4, <2>1 DEF IInv, GameTypeOK
<1>9. GameTypeOK'
  <2>1. playerRegistry' \in [Player -> [GameId -> Cards]]
    BY <1>5, DealtCardType DEF IInv, GameTypeOK
  <2>2. feesPaid' \in [GameId -> Nat]
    BY <1>2, <1>6 DEF IInv, GameTypeOK
  <2> QED
    BY <1>7, <1>8, <2>1, <2>2 DEF IInv, GameTypeOK
<1>10. Total(prizePools)' = Total(prizePools) + fee
  <2> HIDE DEF pool
  <2>1. \A i \in GameId : gameRegistry'[i].prizePool =
           IF i = id THEN pool ELSE gameRegistry[i].prizePool
    BY <1>1, <1>4 DEF IInv, GameTypeOK, Games
  <2>2. Total(prizePools)' =
           Total(prizePools) - gameRegistry[id].prizePool + pool
    BY <1>3, <1>8, <2>1, OnePoolChanges DEF IInv
  <2> QED
    BY <1>2, <1>3, <2>2, PoolFacts DEF IInv, pool
<1>11. Solvent'
  BY <1>2, <1>7, <1>10, PoolFacts DEF IInv, Solvent, GameTypeOK
<1>12. FreshGames'
  <2>1. \A i \in GameId : i # id => gameRegistry'[i] = gameRegistry[i]
    BY <1>4 DEF IInv, GameTypeOK
  <2>2. gameRegistry'[id].createdAt = gameRegistry[id].createdAt
    BY <1>1, <1>4 DEF IInv, GameTypeOK, Games
  <2> QED
    BY <1>1, <2>1, <2>2 DEF IInv, FreshGames, Games
<1> QED
  BY <1>2, <1>9, <1>11, <1>12 DEF IInv

\* Steps that leave the token and the pools alone.
LEMMA PoolsUnchanged ==
    ASSUME IInv, UNCHANGED <<tokenVars, donated>>, GameTypeOK',
           \A i \in GameId :
              /\ gameRegistry'[i].prizePool = gameRegistry[i].prizePool
              /\ gameRegistry'[i].createdAt = gameRegistry[i].createdAt
              /\ gameRegistry[i].createdAt = 0 =>
                    gameRegistry'[i] = gameRegistry[i]
    PROVE  IInv'
<1>1. TokenIInv' /\ NoStandingAllowance'
  BY DEF IInv, tokenVars, TokenIInv, TokenTypeOK, SupplyIsBalances,
         NoStandingAllowance
<1>2. prizePools' = prizePools
  BY DEF prizePools
<1>3. Solvent'
  BY <1>2 DEF IInv, Solvent, tokenVars
<1>4. FreshGames'
  BY DEF IInv, FreshGames
<1> QED
  BY <1>1, <1>3, <1>4 DEF IInv

LEMMA drawNumberIInv ==
    ASSUME IInv, NEW sender \in Player, NEW id \in GameId,
           drawNumber(sender, id)
    PROVE  IInv'
<1> DEFINE game == [gameRegistry[id] EXCEPT
                       !.lastDrawnNumber = block.entropy.number,
                       !.lastDrawnAt = block.timestamp]
<1>1. /\ block.timestamp \in 1 .. MaxTimestamp
      /\ Uint64(block.timestamp) = block.timestamp
      /\ block.entropy.number \in DrawRange
      /\ gameRegistry[id] \in Games
      /\ gameRegistry[id].createdAt > 0
  BY WidthFacts DEF IInv, GameTypeOK, Entropy, drawNumber, onlyPlayer
<1>2. gameRegistry' = [gameRegistry EXCEPT ![id] = game]
  BY <1>1 DEF drawNumber, IInv, GameTypeOK, Games
<1>3. UNCHANGED <<tokenVars, gameSettings, playerRegistry, block,
                  feesPaid, claims, donated>>
  BY DEF drawNumber
<1>4. game \in Games
  <2> DEFINE numbered == [gameRegistry[id] EXCEPT
                             !.lastDrawnNumber = block.entropy.number]
  <2>1. numbered \in Games
    BY <1>1 DEF Games
  <2>2. block.timestamp \in 0 .. MaxTimestamp
    BY <1>1, WidthFacts
  <2>3. [numbered EXCEPT !.lastDrawnAt = block.timestamp] \in Games
    <3> HIDE DEF numbered
    <3> QED
      BY <2>1, <2>2 DEF Games
  <2> QED
    BY <2>3
<1>5. GameTypeOK'
  <2>1. gameRegistry' \in [GameId -> Games]
    BY <1>2, <1>4 DEF IInv, GameTypeOK
  <2>2. drawn' \in [GameId -> SUBSET DrawRange]
    BY <1>1 DEF drawNumber, IInv, GameTypeOK
  <2>3. draws' \in [GameId -> Nat]
    BY DEF drawNumber, IInv, GameTypeOK
  <2> QED
    BY <1>3, <2>1, <2>2, <2>3 DEF IInv, GameTypeOK
<1>6. \A i \in GameId :
         /\ gameRegistry'[i].prizePool = gameRegistry[i].prizePool
         /\ gameRegistry'[i].createdAt = gameRegistry[i].createdAt
         /\ gameRegistry[i].createdAt = 0 => gameRegistry'[i] = gameRegistry[i]
  BY <1>1, <1>2 DEF IInv, GameTypeOK, Games
<1> QED
  BY <1>3, <1>5, <1>6, PoolsUnchanged

LEMMA markNumberOnCardIInv ==
    ASSUME IInv, NEW sender \in Player, NEW id \in GameId,
           markNumberOnCard(sender, id)
    PROVE  IInv'
<1>1. PICK location \in Tiles :
         playerRegistry' = [playerRegistry EXCEPT
            ![sender][id].hitStorage = @ \cup {location}]
  BY DEF markNumberOnCard
<1>2. UNCHANGED <<tokenVars, gameSettings, gameRegistry, block, historyVars>>
  BY DEF markNumberOnCard
<1>3. playerRegistry' \in [Player -> [GameId -> Cards]]
  <2>1. playerRegistry[sender][id] \in Cards
    BY DEF IInv, GameTypeOK
  <2>2. [playerRegistry[sender][id] EXCEPT !.hitStorage = @ \cup {location}]
           \in Cards
    BY <2>1 DEF Cards
  <2> QED
    BY <1>1, <2>2 DEF IInv, GameTypeOK
<1>4. GameTypeOK'
  BY <1>2, <1>3 DEF IInv, GameTypeOK, historyVars
<1> QED
  BY <1>2, <1>4, PoolsUnchanged DEF historyVars

LEMMA claimPrizeIInv ==
    ASSUME IInv, NEW sender \in Player, NEW id \in GameId,
           claimPrize(sender, id)
    PROVE  IInv'
<1> DEFINE prize == gameRegistry[id].prizePool
           game == [gameRegistry[id] EXCEPT !.lastDrawnNumber = GameOver,
                                            !.prizePool = 0]
<1>1. /\ prize \in 0 .. MaxUint64 /\ prize \in Nat
      /\ PayPrize(sender, prize)
      /\ gameRegistry[id] \in Games
      /\ gameRegistry[id].createdAt > 0
  BY PoolFacts DEF IInv, GameTypeOK, claimPrize, onlyPlayer
<1>2. /\ TokenIInv' /\ NoStandingAllowance'
      /\ balances[This] \in Nat /\ balances'[This] = balances[This] - prize
  BY <1>1, PrizePaid
<1>3. gameRegistry' = [gameRegistry EXCEPT ![id] = game]
  BY <1>1 DEF claimPrize, IInv, GameTypeOK, Games
<1>4. UNCHANGED <<gameSettings, playerRegistry, block,
                  feesPaid, drawn, draws, donated>>
  BY DEF claimPrize
<1>5. game \in Games
  <2> DEFINE ended == [gameRegistry[id] EXCEPT !.lastDrawnNumber = GameOver]
  <2>1. ended \in Games
    BY <1>1 DEF Games
  <2>2. 0 \in 0 .. MaxUint64
    BY WidthFacts
  <2>3. [ended EXCEPT !.prizePool = 0] \in Games
    <3> HIDE DEF ended
    <3> QED
      BY <2>1, <2>2 DEF Games
  <2> QED
    BY <2>3
<1>6. gameRegistry' \in [GameId -> Games]
  BY <1>3, <1>5 DEF IInv, GameTypeOK
<1>7. GameTypeOK'
  <2>1. claims' \in [GameId -> Nat]
    BY DEF claimPrize, IInv, GameTypeOK
  <2> QED
    BY <1>4, <1>6, <2>1 DEF IInv, GameTypeOK
<1>8. Total(prizePools)' = Total(prizePools) - prize
  <2>1. \A i \in GameId : gameRegistry'[i].prizePool =
           IF i = id THEN 0 ELSE gameRegistry[i].prizePool
    BY <1>1, <1>3 DEF IInv, GameTypeOK, Games
  <2>2. Total(prizePools)' = Total(prizePools) - prize + 0
    BY <1>6, <2>1, OnePoolChanges DEF IInv
  <2> QED
    BY <1>1, <2>2, PoolFacts DEF IInv
<1>9. Solvent'
  BY <1>1, <1>2, <1>4, <1>8, PoolFacts DEF IInv, Solvent, GameTypeOK
<1>10. FreshGames'
  <2>1. \A i \in GameId : i # id => gameRegistry'[i] = gameRegistry[i]
    BY <1>3 DEF IInv, GameTypeOK
  <2>2. gameRegistry'[id].createdAt = gameRegistry[id].createdAt
    BY <1>1, <1>3 DEF IInv, GameTypeOK, Games
  <2> QED
    BY <1>1, <2>1, <2>2 DEF IInv, FreshGames, Games
<1> QED
  BY <1>2, <1>7, <1>9, <1>10 DEF IInv

LEMMA OwnerCallIInv ==
    ASSUME IInv, NEW sender \in Address, OwnerCall(sender)
    PROVE  IInv'
<1>1. UNCHANGED <<tokenVars, gameRegistry, playerRegistry, block, historyVars>>
  BY DEF OwnerCall, updateEntryFee, updateJoinDuration,
         updateUpdateTurnDuration
<1>2. gameSettings' \in [entryFee : Uint256, minimumTurnDuration : Uint256,
                         minimumJoinDuration : Uint256]
  BY SettingsAssumption
     DEF OwnerCall, updateEntryFee, updateJoinDuration,
         updateUpdateTurnDuration, IInv, GameTypeOK
<1>3. GameTypeOK'
  BY <1>1, <1>2 DEF IInv, GameTypeOK, historyVars
<1> QED
  BY <1>1, <1>3, PoolsUnchanged DEF historyVars

LEMMA newBlockIInv ==
    ASSUME IInv, newBlock
    PROVE  IInv'
<1>1. UNCHANGED <<tokenVars, gameVars, historyVars>>
  BY DEF newBlock
<1>2. block' \in [number : 1 .. MaxBlock, timestamp : 1 .. MaxTimestamp,
                  entropy : Entropy]
  <2>1. PICK step \in TimeSteps, entropy \in Outcomes[block.number + 1] :
           /\ block.timestamp + step <= MaxTimestamp
           /\ block' = [number |-> block.number + 1,
                        timestamp |-> block.timestamp + step,
                        entropy |-> entropy]
    BY DEF newBlock
  <2>2. /\ block.number + 1 \in 1 .. MaxBlock
        /\ block.timestamp + step \in 1 .. MaxTimestamp
    BY <2>1, ChainAssumption, WidthFacts DEF newBlock, IInv, GameTypeOK
  <2>3. entropy \in Entropy
    BY <2>2, ChainAssumption
  <2> QED
    BY <2>1, <2>2, <2>3
<1>3. GameTypeOK'
  BY <1>1, <1>2 DEF IInv, GameTypeOK, gameVars, historyVars
<1> QED
  BY <1>1, <1>3, PoolsUnchanged DEF gameVars, historyVars

LEMMA tokenCallIInv ==
    ASSUME IInv, tokenCall
    PROVE  IInv'
<1>1. PICK sender \in TokenCallers : TokenCall(sender)
  BY DEF tokenCall
<1>2. /\ TokenIInv' /\ NoStandingAllowance' /\ Received \in Nat
      /\ balances[This] \in Nat /\ balances'[This] \in Nat
  BY <1>1, OthersCallToken
<1>3. UNCHANGED <<gameVars, block, feesPaid, drawn, draws, claims>>
  BY DEF tokenCall
<1>4. donated' = donated + Received
  BY DEF tokenCall
<1>5. GameTypeOK'
  BY <1>2, <1>3, <1>4 DEF IInv, GameTypeOK, gameVars
<1>6. prizePools' = prizePools
  BY <1>3 DEF prizePools, gameVars
<1>7. Total(prizePools) \in Nat
  <2>1. prizePools \in [GameId -> Nat]
    BY WidthFacts DEF prizePools, IInv, GameTypeOK, Games
  <2>2. IsFiniteSet(GameId)
    BY GameIdFacts
  <2> QED
    BY <2>1, <2>2, TotalType
<1>8. Solvent'
  BY <1>2, <1>4, <1>6, <1>7 DEF IInv, Solvent, Received, GameTypeOK
<1>9. FreshGames'
  BY <1>3 DEF IInv, FreshGames, gameVars
<1> QED
  BY <1>2, <1>5, <1>8, <1>9 DEF IInv

LEMMA StepIInv ==
    IInv /\ [Next]_vars => IInv'
<1> SUFFICES ASSUME IInv, [Next]_vars PROVE IInv'
  OBVIOUS
<1>1. ASSUME NEW sender \in Player, PlayerCall(sender)
      PROVE  IInv'
  BY <1>1, createGameIInv, joinGameIInv, drawNumberIInv,
     markNumberOnCardIInv, claimPrizeIInv DEF PlayerCall
<1>2. ASSUME NEW sender \in Address, OwnerCall(sender)
      PROVE  IInv'
  BY <1>2, OwnerCallIInv
<1>3. CASE UNCHANGED vars
  <2>1. GameTypeOK'
    BY <1>3 DEF vars, gameVars, historyVars, IInv, GameTypeOK
  <2> QED
    BY <1>3, <2>1, PoolsUnchanged DEF vars, gameVars, historyVars
<1> QED
  BY <1>1, <1>2, <1>3, newBlockIInv, tokenCallIInv DEF Next

LEMMA Invariant ==
    Spec => []IInv
BY InitIInv, StepIInv, PTL DEF Spec

-------------------------------------------------------------------------------
(* The theorems.                                                           *)

\* Everything the contract and the token store fits its type.
THEOREM Types ==
    Spec => []TypeOK
<1>1. IInv => TypeOK
  BY DEF IInv, TokenIInv, TypeOK
<1> QED
  BY <1>1, Invariant, PTL

\* The contract holds, to the unit, the prize pools of all games and what was
\* sent to it besides, for any number of players and games.
THEOREM Solvency ==
    Spec => []Solvent
<1>1. IInv => Solvent
  BY DEF IInv
<1> QED
  BY <1>1, Invariant, PTL

\* Nobody is ever left with an allowance on the contract's tokens.
THEOREM NoAllowanceLeft ==
    Spec => []NoStandingAllowance
<1>1. IInv => NoStandingAllowance
  BY DEF IInv
<1> QED
  BY <1>1, Invariant, PTL

\* The token calls of claimPrize find the prize: no claim reverts for want of
\* tokens.
THEOREM ClaimsArePaid ==
    Spec => []ClaimNeverBlocked
<1>1. ASSUME IInv, NEW id \in GameId
      PROVE  balances[This] >= gameRegistry[id].prizePool
  BY <1>1, PoolFacts, TokenFacts, GameIdFacts
     DEF IInv, Solvent, GameTypeOK
<1>2. IInv => ClaimNeverBlocked
  BY <1>1 DEF ClaimNeverBlocked
<1> QED
  BY <1>2, Invariant, PTL

\* The uint64 conversion of the fee and the checked addition to the pool never
\* stand between a player who can pay and a game.
THEOREM PoolsFit ==
    Spec => []PoolNeverOverflows
<1>1. IInv => PoolNeverOverflows
  <2> SUFFICES ASSUME IInv, NEW p \in Player, NEW id \in GameId,
                      balances[p] >= gameSettings.entryFee
               PROVE  /\ Uint64(gameSettings.entryFee) = gameSettings.entryFee
                      /\ gameRegistry[id].prizePool + gameSettings.entryFee
                            <= MaxUint64
    BY DEF PoolNeverOverflows
  <2>1. gameSettings.entryFee \in Nat
    BY WidthFacts DEF IInv, GameTypeOK, Uint256
  <2> QED
    BY <2>1, AffordableFee, TokenFacts, GameIdFacts DEF IInv
<1> QED
  BY <1>1, Invariant, PTL
===============================================================================
