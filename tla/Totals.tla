-------------------------------- MODULE Totals --------------------------------
(***************************************************************************)
(* The sum of a function from a finite set to the naturals, stated without *)
(* recursion: f is read as so many unit tokens per element of its domain,  *)
(* and the sum is the number of those tokens.  The state machines use it   *)
(* to say how much all accounts, or all prize pools, hold together.        *)
(***************************************************************************)
EXTENDS Integers, FiniteSets

\* The unit tokens of f: <<x, k>> is the k-th token that x holds.
Units(f) == UNION {{x} \X (1 .. f[x]) : x \in DOMAIN f}

Total(f) == Cardinality(Units(f))
===============================================================================
