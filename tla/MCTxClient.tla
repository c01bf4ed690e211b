----------------------------- MODULE MCTxClient -----------------------------
(* Small instances of TxClient for TLC. *)
EXTENDS TxClient, TLC

CONSTANTS trade, arbitrage
=============================================================================
