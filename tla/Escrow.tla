-------------------------------- MODULE Escrow --------------------------------
(***************************************************************************)
(* What the game contract promises about money, without token, fees,       *)
(* clocks, cards or numbers: each game is a pot.  A pot takes deposits     *)
(* from wallets while it is open, pays everything it holds to one of its   *)
(* depositors, once, and is then closed and empty for good.                *)
(***************************************************************************)
EXTENDS Naturals

CONSTANTS Depositor, Pot

VARIABLES
    wallet,     \* what each depositor owns
    pot,        \* what each pot holds
    members,    \* who deposited into it
    phase       \* "absent", "open" or "closed"

escrowVars == <<wallet, pot, members, phase>>

Init ==
    /\ wallet \in [Depositor -> Nat]
    /\ pot = [g \in Pot |-> 0]
    /\ members = [g \in Pot |-> {}]
    /\ phase = [g \in Pot |-> "absent"]

\* A deposit opens an absent pot, or adds to an open one.
Deposit(d, g) ==
    /\ phase[g] # "closed"
    /\ \E amount \in 0 .. wallet[d] :
          /\ wallet' = [wallet EXCEPT ![d] = @ - amount]
          /\ pot' = [pot EXCEPT ![g] = @ + amount]
    /\ members' = [members EXCEPT ![g] = @ \cup {d}]
    /\ phase' = [phase EXCEPT ![g] = "open"]

PayOut(d, g) ==
    /\ phase[g] = "open"
    /\ d \in members[g]
    /\ wallet' = [wallet EXCEPT ![d] = @ + pot[g]]
    /\ pot' = [pot EXCEPT ![g] = 0]
    /\ phase' = [phase EXCEPT ![g] = "closed"]
    /\ UNCHANGED members

\* The depositors' other business.
Elsewhere ==
    /\ wallet' \in [Depositor -> Nat]
    /\ UNCHANGED <<pot, members, phase>>

Next ==
    \/ \E d \in Depositor, g \in Pot : Deposit(d, g) \/ PayOut(d, g)
    \/ Elsewhere

Spec == Init /\ [][Next]_escrowVars
===============================================================================
