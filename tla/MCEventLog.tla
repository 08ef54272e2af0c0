------------------------------ MODULE MCEventLog ------------------------------
(* Constants under which TLC checks EventLog: those of MCBitmaskBingo.      *)
EXTENDS MCBitmaskBingo, EventLog
===============================================================================
