--------------------------- MODULE MatchingProofs ---------------------------
(* The matching of a rebalance conserves every operation, for any input. *)
EXTENDS Matching, TLAPS, FiniteSetTheorems, SequenceTheorems

\* Sorting turns operations into a sequence of operations.
LEMMA SortedOps ==
  ASSUME NEW ops, Operations(ops), NEW s \in Descending(ops)
  PROVE  s \in Ops
<1>1. Cardinality(DOMAIN ops) \in Nat
  BY FS_CardinalityType DEF Operations
<1>2. /\ s \in [1..Cardinality(DOMAIN ops) ->
                [token : DOMAIN ops, value : {ops[t] : t \in DOMAIN ops}]]
  BY DEF Descending
<1>3. \A k \in 1..Cardinality(DOMAIN ops) : s[k] \in [token : Nat, value : Nat]
  BY <1>2 DEF Operations
<1>4. s \in [1..Cardinality(DOMAIN ops) -> [token : Nat, value : Nat]]
  BY <1>2, <1>3
<1> QED
  BY <1>1, <1>4, SeqDef DEF Ops

\* Where the iterators stand while the loop runs, and what they have done.
Progress ==
  /\ sells \in Ops /\ buys \in Ops
  /\ i \in Nat \ {0} /\ j \in Nat \ {0}
  /\ sellRemaining \in Nat /\ buyRemaining \in Nat
  /\ sold \in [1..Len(sells) -> Nat] /\ bought \in [1..Len(buys) -> Nat]
  /\ ~done => i <= Len(sells) /\ j <= Len(buys)

IInv == Progress /\ OperationsConserved

\* A value of an operation is a natural number.
LEMMA OpValue ==
  ASSUME NEW ops \in Ops, NEW k \in 1..Len(ops)
  PROVE  ops[k].value \in Nat
<1>1. ops[k] \in [token : Nat, value : Nat]
  BY ElementOfSeq DEF Ops
<1> QED
  BY <1>1

\* Nothing is matched before the first iteration.
LEMMA InitConserved == Init => IInv
<1> SUFFICES ASSUME Init PROVE IInv
  OBVIOUS
<1>1. sells \in Ops /\ buys \in Ops
  BY MatchingAssumption, SortedOps DEF Init
<1>2. Len(sells) \in Nat /\ Len(buys) \in Nat
  BY <1>1 DEF Ops
<1>3. DOMAIN sells = 1..Len(sells) /\ DOMAIN buys = 1..Len(buys)
  BY <1>1 DEF Ops
<1>4. sells # <<>> <=> Len(sells) >= 1
  BY <1>1, EmptySeq DEF Ops
<1>5. buys # <<>> <=> Len(buys) >= 1
  BY <1>1, EmptySeq DEF Ops
<1>6. sellRemaining \in Nat /\ buyRemaining \in Nat
  BY <1>1, <1>2, <1>4, <1>5, OpValue DEF Init
<1>7. Progress
  <2>1. sold \in [1..Len(sells) -> Nat] /\ bought \in [1..Len(buys) -> Nat]
    BY <1>3 DEF Init
  <2>2. ~done => 1 <= Len(sells) /\ 1 <= Len(buys)
    BY <1>4, <1>5 DEF Init
  <2> QED
    BY <1>1, <1>6, <2>1, <2>2 DEF Init, Progress
<1>8. \A k \in 1..Len(sells) : sold[k] + RemainingSell(k) = sells[k].value
  BY <1>1, <1>2, <1>3, <1>4, OpValue DEF Init, RemainingSell, Left
<1>9. \A k \in 1..Len(buys) : bought[k] + RemainingBuy(k) = buys[k].value
  BY <1>1, <1>2, <1>3, <1>5, OpValue DEF Init, RemainingBuy, Left
<1> QED
  BY <1>7, <1>8, <1>9 DEF IInv, OperationsConserved

\* One iteration moves the same value from what remains of both current
\* operations to what is matched, and touches no other operation.
LEMMA NextConserved == IInv /\ [Next]_vars => IInv'
<1> SUFFICES ASSUME IInv, [Next]_vars PROVE IInv'
  OBVIOUS
<1>1. CASE UNCHANGED vars
  BY <1>1 DEF vars, IInv, Progress, OperationsConserved, RemainingSell, RemainingBuy, Left
<1>2. CASE Match
  <2> DEFINE v == MatchValue
  <2>1. /\ ~done /\ sells' = sells /\ buys' = buys
        /\ NextSell(sellRemaining - v) /\ NextBuy(buyRemaining - v)
        /\ sold' = [sold EXCEPT ![i] = @ + v]
        /\ bought' = [bought EXCEPT ![j] = @ + v]
        /\ done' = (i' > Len(sells) \/ j' > Len(buys))
    BY <1>2 DEF Match
  <2>2. /\ v \in Nat /\ sellRemaining - v \in Nat /\ buyRemaining - v \in Nat
        /\ sellRemaining \in Nat /\ buyRemaining \in Nat
    BY DEF IInv, Progress, MatchValue, Min2
  <2>3. /\ sells \in Ops /\ buys \in Ops /\ Len(sells) \in Nat /\ Len(buys) \in Nat
        /\ i \in 1..Len(sells) /\ j \in 1..Len(buys)
    BY <2>1 DEF IInv, Progress, Ops
  <2> HIDE DEF v
  <2>4. /\ i' \in {i, i + 1} /\ sellRemaining' \in Nat
        /\ i' = i => sellRemaining' = sellRemaining - v
        /\ i' = i + 1 => sellRemaining - v = 0
        /\ i' = i + 1 /\ i + 1 <= Len(sells) => sellRemaining' = sells[i + 1].value
    BY <2>1, <2>2, <2>3, OpValue DEF NextSell
  <2>5. /\ j' \in {j, j + 1} /\ buyRemaining' \in Nat
        /\ j' = j => buyRemaining' = buyRemaining - v
        /\ j' = j + 1 => buyRemaining - v = 0
        /\ j' = j + 1 /\ j + 1 <= Len(buys) => buyRemaining' = buys[j + 1].value
    BY <2>1, <2>2, <2>3, OpValue DEF NextBuy
  <2>6. /\ sold \in [1..Len(sells) -> Nat] /\ bought \in [1..Len(buys) -> Nat]
        /\ sold[i] + v \in Nat /\ bought[j] + v \in Nat
    BY <2>2, <2>3 DEF IInv, Progress
  <2>7. sold' \in [1..Len(sells) -> Nat] /\ bought' \in [1..Len(buys) -> Nat]
    BY <2>1, <2>6
  <2>8. Progress'
    <3>1. ~done' => i' <= Len(sells) /\ j' <= Len(buys)
      <4>1. i' \in Nat /\ j' \in Nat
        BY <2>3, <2>4, <2>5
      <4>2. done' <=> (i' > Len(sells) \/ j' > Len(buys))
        BY <2>1, Zenon
      <4> QED
        BY <2>3, <4>1, <4>2
    <3>2. i' \in Nat \ {0} /\ j' \in Nat \ {0}
      BY <2>3, <2>4, <2>5
    <3> QED
      BY <2>1, <2>3, <2>4, <2>5, <2>7, <3>1, <3>2 DEF Progress
  <2>9. ASSUME NEW k \in 1..Len(sells)
        PROVE  sold'[k] + RemainingSell(k)' = sells[k].value
    <3>1. sold[k] + RemainingSell(k) = sells[k].value
      BY DEF IInv, OperationsConserved
    <3>2. sold'[k] = IF k = i THEN sold[i] + v ELSE sold[k]
      BY <2>1, <2>6
    <3>3. sold[k] \in Nat /\ sells[k].value \in Nat
      BY <2>3, <2>6, OpValue
    <3>4. RemainingSell(k)' = Left(sells, k, sellRemaining', i')
      BY <2>1 DEF RemainingSell, Left
    <3>5. CASE k < i
      <4>1. RemainingSell(k) = 0 /\ Left(sells, k, sellRemaining', i') = 0
        BY <2>3, <2>4, <3>5 DEF RemainingSell, Left
      <4> QED
        BY <2>3, <3>1, <3>2, <3>4, <3>5, <4>1
    <3>6. CASE k = i
      <4>1. RemainingSell(k) = sellRemaining /\ Left(sells, k, sellRemaining', i') = sellRemaining - v
        BY <2>3, <2>4, <3>6 DEF RemainingSell, Left
      <4> QED
        BY <2>2, <3>1, <3>2, <3>3, <3>4, <3>6, <4>1
    <3>7. CASE k > i
      <4>1. RemainingSell(k) = sells[k].value /\ Left(sells, k, sellRemaining', i') = sells[k].value
        BY <2>3, <2>4, <3>7 DEF RemainingSell, Left
      <4> QED
        BY <2>3, <3>1, <3>2, <3>4, <3>7, <4>1
    <3> QED
      BY <2>3, <3>5, <3>6, <3>7
  <2>10. ASSUME NEW k \in 1..Len(buys)
         PROVE  bought'[k] + RemainingBuy(k)' = buys[k].value
    <3>1. bought[k] + RemainingBuy(k) = buys[k].value
      BY DEF IInv, OperationsConserved
    <3>2. bought'[k] = IF k = j THEN bought[j] + v ELSE bought[k]
      BY <2>1, <2>6
    <3>3. bought[k] \in Nat /\ buys[k].value \in Nat
      BY <2>3, <2>6, OpValue
    <3>4. RemainingBuy(k)' = Left(buys, k, buyRemaining', j')
      BY <2>1 DEF RemainingBuy, Left
    <3>5. CASE k < j
      <4>1. RemainingBuy(k) = 0 /\ Left(buys, k, buyRemaining', j') = 0
        BY <2>3, <2>5, <3>5 DEF RemainingBuy, Left
      <4> QED
        BY <2>3, <3>1, <3>2, <3>4, <3>5, <4>1
    <3>6. CASE k = j
      <4>1. RemainingBuy(k) = buyRemaining /\ Left(buys, k, buyRemaining', j') = buyRemaining - v
        BY <2>3, <2>5, <3>6 DEF RemainingBuy, Left
      <4> QED
        BY <2>2, <3>1, <3>2, <3>3, <3>4, <3>6, <4>1
    <3>7. CASE k > j
      <4>1. RemainingBuy(k) = buys[k].value /\ Left(buys, k, buyRemaining', j') = buys[k].value
        BY <2>3, <2>5, <3>7 DEF RemainingBuy, Left
      <4> QED
        BY <2>3, <3>1, <3>2, <3>4, <3>7, <4>1
    <3> QED
      BY <2>3, <3>5, <3>6, <3>7
  <2> QED
    BY <2>1, <2>8, <2>9, <2>10 DEF IInv, OperationsConserved
<1> QED
  BY <1>1, <1>2 DEF Next

\* The doc's invariants of match_rebalance_operations hold for any number of
\* sells and buys of any value, in any order of equal values.
THEOREM MatchingConserves == Spec => []OperationsConserved
<1>1. IInv => OperationsConserved
  BY DEF IInv
<1> QED
  BY InitConserved, NextConserved, <1>1, PTL DEF Spec
=============================================================================
