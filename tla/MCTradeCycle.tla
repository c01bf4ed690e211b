---------------------------- MODULE MCTradeCycle ----------------------------
(* Small instances of TradeCycle for TLC. *)
EXTENDS TradeCycle, TLC

CONSTANTS a, b

\* The tokens are interchangeable.
MCSymmetry == Permutations({a, b})
=============================================================================
