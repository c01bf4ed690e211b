------------------------------- MODULE MCFunds -------------------------------
(* Small instances of Funds for TLC. *)
EXTENDS Funds, TLC

CONSTANTS trade, arbitrage

MCFunctions == {"start", "deposit", "harvest", "close"}
=============================================================================
