---------------------------- MODULE MCRefStorage ----------------------------
(* Small instances of RefStorage for TLC. *)
EXTENDS RefStorage, TLC

CONSTANTS trade, arbitrage, p1, p2

MCOneProcess == trade :> p1 @@ arbitrage :> p1

\* The tasks of one process are interchangeable.
MCSymmetry == Permutations({trade, arbitrage})

MCTradeOnly == trade :> p1
MCToken == 1..3
MCNeeds == {{2}, {1, 3}, {1, 2, 3}}
=============================================================================
