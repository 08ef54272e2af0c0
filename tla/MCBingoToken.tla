----------------------------- MODULE MCBingoToken -----------------------------
(* Constants under which TLC checks BingoToken on its own.                 *)
EXTENDS BingoToken, TLC

CONSTANTS alice, bob

MCAddress == {alice, bob}
MCAmounts == {0, 1, 2}
\* 2 exceeds what is left of the cap after one mint of 2, and 5 is unlimited.
MCApproveAmounts == {1, 5}
===============================================================================
