----------------------------- MODULE MCMatching -----------------------------
(* Small instances of Matching for TLC. *)
EXTENDS Matching, TLC

\* Up to three sells and two buys of value 0 to 3.
MCValues == 0..3
MCOperations(tokens) == UNION {[S -> MCValues] : S \in SUBSET tokens}
MCInputs == MCOperations(1..3) \X MCOperations(4..5)
=============================================================================
