------------------------------ MODULE Matching ------------------------------
(***************************************************************************)
(* match_rebalance_operations of crates/trade/src/execution/matching.rs:   *)
(* the two-pointer loop that pairs the sells of a rebalance with its buys. *)
(* One step is one iteration of the loop.                                  *)
(***************************************************************************)
EXTENDS Integers, Sequences, FiniteSets

CONSTANTS
  Inputs   \* pairs of functions from tokens to NearValue: <<sells, buys>>

\* Tokens are numbered; the NearValue of an operation is not negative.
Operations(ops) ==
  /\ IsFiniteSet(DOMAIN ops)
  /\ DOMAIN ops \subseteq Nat
  /\ \A t \in DOMAIN ops : ops[t] \in Nat
ASSUME MatchingAssumption ==
  \A input \in Inputs : Operations(input[1]) /\ Operations(input[2])

VARIABLES
  sells, buys,           \* the sorted operations: sequences of [token, value]
  i, j,                  \* positions of the two iterators
  sellRemaining, buyRemaining,
  swaps,                 \* direct_swaps: sequence of [sell, buy, value]
  done,                  \* the loop has returned
  sold, bought           \* history: value matched for each operation

vars == <<sells, buys, i, j, sellRemaining, buyRemaining, swaps, done, sold, bought>>

-----------------------------------------------------------------------------
(* Sorting, and what the loop computes. *)

\* sort_unstable_by: any descending order of the operations.
Descending(ops) ==
  {s \in [1..Cardinality(DOMAIN ops) -> [token : DOMAIN ops, value : {ops[t] : t \in DOMAIN ops}]] :
     /\ \A k \in DOMAIN s : s[k].value = ops[s[k].token]
     /\ \A k, l \in DOMAIN s : k < l => s[k].token # s[l].token /\ s[k].value >= s[l].value}

Min2(a, b) == IF a < b THEN a ELSE b
Max2(a, b) == IF a > b THEN a ELSE b

\* Value of the first k operations.
Upto(ops, k) ==
  LET sum[n \in 0..Len(ops)] == IF n = 0 THEN 0 ELSE sum[n - 1] + ops[n].value
  IN  sum[k]

\* Reference: lay the sells and the buys end to end on two scales; sell k
\* and buy l are swapped for the length of their overlap.
Overlap(s, k, b, l) ==
  Max2(0, Min2(Upto(s, k), Upto(b, l)) - Max2(Upto(s, k - 1), Upto(b, l - 1)))

-----------------------------------------------------------------------------
(* The loop. *)

Init ==
  /\ \E input \in Inputs :
       sells \in Descending(input[1]) /\ buys \in Descending(input[2])
  /\ i = 1 /\ j = 1
  /\ done = (sells = <<>> \/ buys = <<>>)
  /\ sellRemaining = IF sells = <<>> THEN 0 ELSE sells[1].value
  /\ buyRemaining = IF buys = <<>> THEN 0 ELSE buys[1].value
  /\ swaps = <<>>
  /\ sold = [k \in DOMAIN sells |-> 0]
  /\ bought = [k \in DOMAIN buys |-> 0]

\* Mutant: the whole sell is swapped, however much the buy needs.
MatchWholeSell == sellRemaining

MatchValue == Min2(sellRemaining, buyRemaining)

Push(v) ==
  swaps' = IF v > 0
           THEN Append(swaps, [sell |-> sells[i].token, buy |-> buys[j].token, value |-> v])
           ELSE swaps

\* Mutant: a used-up sell is asked for again.
NextSellStuck(rest) == i' = i /\ sellRemaining' = rest

\* The sell side moves on when it is used up; so does the buy side, unless
\* the loop returned.
NextSell(rest) ==
  IF rest # 0
  THEN i' = i /\ sellRemaining' = rest
  ELSE IF i < Len(sells)
       THEN i' = i + 1 /\ sellRemaining' = sells[i + 1].value
       ELSE i' = i + 1 /\ sellRemaining' = 0

\* Mutant: the rest of a buy is forgotten with its sell.
NextBuyEager(rest) ==
  IF j < Len(buys)
  THEN j' = j + 1 /\ buyRemaining' = buys[j + 1].value
  ELSE j' = j + 1 /\ buyRemaining' = 0

NextBuy(rest) ==
  IF rest # 0
  THEN j' = j /\ buyRemaining' = rest
  ELSE IF j < Len(buys)
       THEN j' = j + 1 /\ buyRemaining' = buys[j + 1].value
       ELSE j' = j + 1 /\ buyRemaining' = 0

Match ==
  /\ ~done
  /\ LET v == MatchValue
     IN  /\ Push(v)
         /\ NextSell(sellRemaining - v)
         /\ NextBuy(buyRemaining - v)
         /\ sold' = [sold EXCEPT ![i] = @ + v]
         /\ bought' = [bought EXCEPT ![j] = @ + v]
  /\ done' = (i' > Len(sells) \/ j' > Len(buys))
  /\ UNCHANGED <<sells, buys>>

Next == Match

Spec == Init /\ [][Next]_vars
FairSpec == Spec /\ WF_vars(Match)

-----------------------------------------------------------------------------
(* The result. *)

\* remaining_sells and remaining_buys: what is left of the current operation
\* and all operations after it.
Left(ops, k, current, n) ==
  IF k < n THEN 0 ELSE IF k = n THEN current ELSE ops[k].value

RemainingSell(k) == Left(sells, k, sellRemaining, i)
RemainingBuy(l) == Left(buys, l, buyRemaining, j)

-----------------------------------------------------------------------------
(* Properties. *)

Ops == Seq([token : Nat, value : Nat])

\* The iterators and the remainders of the loop keep their types, so no
\* debug_assert of the loop fails.
TypeOK ==
  /\ sells \in Ops /\ buys \in Ops
  /\ i \in 1..(Len(sells) + 1) /\ j \in 1..(Len(buys) + 1)
  /\ sellRemaining \in Nat /\ buyRemaining \in Nat
  /\ swaps \in Seq([sell : Nat, buy : Nat, value : Nat])
  /\ done \in BOOLEAN
  /\ sold \in [1..Len(sells) -> Nat] /\ bought \in [1..Len(buys) -> Nat]

\* The invariants in the doc of match_rebalance_operations, for each
\* operation: what is swapped directly and what remains add up to what was
\* asked for, at every iteration.
OperationsConserved ==
  /\ \A k \in 1..Len(sells) : sold[k] + RemainingSell(k) = sells[k].value
  /\ \A l \in 1..Len(buys) : bought[l] + RemainingBuy(l) = buys[l].value

Swapped(sell, buy) ==
  LET sum[n \in 0..Len(swaps)] ==
        IF n = 0 THEN 0
        ELSE sum[n - 1] + (IF swaps[n].sell = sell /\ swaps[n].buy = buy
                           THEN swaps[n].value ELSE 0)
  IN  sum[Len(swaps)]

\* The loop computes the overlaps of the reference, whatever order the sort
\* gives to equal values: no sell and no buy is left that could be matched.
MatchesReference ==
  done => \A k \in 1..Len(sells), l \in 1..Len(buys) :
            Swapped(sells[k].token, buys[l].token) = Overlap(sells, k, buys, l)

\* The loop returns.
Terminates == <>done
=============================================================================
