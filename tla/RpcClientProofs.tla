--------------------------- MODULE RpcClientProofs ---------------------------
(* The retry budget of RpcClient holds for any endpoints, tasks and answers. *)
EXTENDS RpcClient, TLAPS

\* While a call runs, every request it has made was counted as a retry and the
\* count has not passed the limit; a call that ended made one more at most.
Budget(c) ==
  /\ pc[c] # "idle" =>
       /\ attempts[c] = total[c]
       /\ total[c] <= RetryLimit
       /\ result[c] = "none"
  /\ pc[c] = "idle" => attempts[c] <= RetryLimit + 1
  /\ result[c] = "limit" => attempts[c] = RetryLimit + 1

\* The part of TypeOK that the argument needs.
Shape ==
  /\ pc \in [Caller -> {"idle", "select", "clear", "calling"}]
  /\ total \in [Caller -> Nat]
  /\ attempts \in [Caller -> Nat]
  /\ result \in [Caller -> {"none", "ok", "limit"}]

RetryBudget == Shape /\ \A c \in Caller : Budget(c)

\* No call has made a request at the start.
LEMMA InitBudget == Init => RetryBudget
  BY RpcAssumption DEF Init, RetryBudget, Shape, Budget

\* total_retry_count does not wrap before it reaches the limit.
LEMMA CountsUp ==
  ASSUME RetryLimit < U16Max, NEW n \in 0..RetryLimit
  PROVE  Increment(n) = n + 1
<1>1. RetryLimit \in Nat /\ U16Max \in Nat
  BY RpcAssumption
<1>2. n + 1 \in 0..U16Max
  BY <1>1
<1> QED
  BY <1>1, <1>2 DEF Increment

\* Every step of a task or of the pool keeps the budget.
LEMMA NextBudget ==
  ASSUME RetryLimit < U16Max, RetryBudget, [Next]_vars
  PROVE  RetryBudget'
<1> USE RpcAssumption DEF RetryBudget
<1>1. CASE UNCHANGED vars
  BY <1>1 DEF vars, Shape, Budget
<1>2. CASE Expire
  BY <1>2 DEF Expire, Shape, Budget
<1>3. ASSUME NEW c \in Caller, Call(c) \/ Step(c)  PROVE RetryBudget'
  <2>1. CASE Call(c)
    BY <2>1 DEF Call, Shape, Budget
  <2>2. CASE Select(c)
    <3>1. PICK l \in {"clear", "calling"} : pc' = [pc EXCEPT ![c] = l]
      BY <2>2 DEF Select, Use
    <3> QED
      BY <2>2, <3>1 DEF Select, Shape, Budget
  <2>3. CASE ClearFailures(c)
    <3>1. PICK l \in {"select", "calling"} : pc' = [pc EXCEPT ![c] = l]
      BY <2>3 DEF ClearFailures, Use
    <3> QED
      BY <2>3, <3>1 DEF ClearFailures, Shape, Budget
  <2>4. CASE Through(c)
    BY <2>4 DEF Through, Attempt, Return, MaxAttempts, Shape, Budget
  <2>5. pc[c] = "calling" =>
          Increment(total[c]) = total[c] + 1 /\ attempts[c] < MaxAttempts
    <3>1. pc[c] = "calling" => total[c] \in 0..RetryLimit /\ attempts[c] = total[c]
      BY DEF Shape, Budget
    <3>2. pc[c] = "calling" => Increment(total[c]) = total[c] + 1
      BY <3>1, CountsUp
    <3> QED
      BY <3>1, <3>2 DEF MaxAttempts
  \* Both kinds of retry count one request and stop at the limit.
  <2> DEFINE Counted ==
        /\ pc[c] = "calling"
        /\ attempts' = [attempts EXCEPT ![c] = attempts[c] + 1]
        /\ total' = [total EXCEPT ![c] = total[c] + 1]
        /\ \/ /\ RetryLimit < total[c] + 1
              /\ pc' = [pc EXCEPT ![c] = "idle"]
              /\ result' = [result EXCEPT ![c] = "limit"]
           \/ /\ ~(RetryLimit < total[c] + 1)
              /\ pc' \in {pc, [pc EXCEPT ![c] = "select"]}
              /\ result' = result
  <2>6. Counted => RetryBudget'
    <3> SUFFICES ASSUME Counted PROVE RetryBudget'
      OBVIOUS
    <3>1. total[c] + 1 \in Nat /\ attempts[c] + 1 \in Nat
      BY DEF Shape
    <3>2. Shape'
      BY <3>1 DEF Shape
    <3>3. ASSUME NEW d \in Caller, d # c PROVE Budget(d)'
      BY <3>3 DEF Shape, Budget
    <3>4. Budget(c)'
      <4>1. attempts[c] = total[c] /\ total[c] \in Nat /\ total[c] <= RetryLimit
            /\ result[c] = "none" /\ RetryLimit \in Nat
        BY DEF Shape, Budget
      <4>2. attempts'[c] = attempts[c] + 1 /\ total'[c] = total[c] + 1
        BY DEF Shape
      <4>3. CASE RetryLimit < total[c] + 1
        <5>1. pc'[c] = "idle" /\ result'[c] = "limit"
          BY <4>3 DEF Shape
        <5> QED
          BY <4>1, <4>2, <4>3, <5>1 DEF Budget
      <4>4. CASE ~(RetryLimit < total[c] + 1)
        <5>1. pc'[c] \in {"calling", "select"} /\ result'[c] = "none"
          BY <4>1, <4>4 DEF Shape
        <5> QED
          BY <4>1, <4>2, <4>4, <5>1 DEF Budget
      <4> QED
        BY <4>3, <4>4
    <3> QED
      BY <3>2, <3>3, <3>4
  <2> HIDE DEF RetryBudget
  <2>7. CASE Retry(c)
    <3>1. Counted
      BY <2>5, <2>7 DEF Retry, Attempt, LimitReached, Return
    <3> QED
      BY <3>1, <2>6
  <2>8. CASE SwitchEndpoint(c)
    <3>1. Counted
      BY <2>5, <2>8 DEF SwitchEndpoint, Attempt, LimitReached, Return
    <3> QED
      BY <3>1, <2>6
  <2> QED
    BY <1>3, <2>1, <2>2, <2>3, <2>4, <2>7, <2>8 DEF Step
<1> QED
  BY <1>1, <1>2, <1>3 DEF Next

\* One call makes at most retry_limit + 1 requests, for any endpoints, any
\* number of tasks and any answers, if retry_limit is below u16::MAX.
THEOREM AttemptsBounded ==
  ASSUME RetryLimit < U16Max
  PROVE  Spec => []AttemptsWithinLimit
<1>1. RetryBudget /\ [Next]_vars => RetryBudget'
  BY NextBudget
<1>2. RetryBudget => AttemptsWithinLimit
  BY RpcAssumption DEF RetryBudget, Shape, Budget, AttemptsWithinLimit
<1> QED
  BY InitBudget, <1>1, <1>2, PTL DEF Spec

\* A call only gives up after exactly retry_limit + 1 requests.
THEOREM ExhaustedAtLimit ==
  ASSUME RetryLimit < U16Max
  PROVE  Spec => []LimitMeansExhausted
<1>1. RetryBudget /\ [Next]_vars => RetryBudget'
  BY NextBudget
<1>2. RetryBudget => LimitMeansExhausted
  BY DEF RetryBudget, Budget, LimitMeansExhausted
<1> QED
  BY InitBudget, <1>1, <1>2, PTL DEF Spec
=============================================================================
