--------------------------- MODULE TxClientProofs ---------------------------
(* Proofs about TxClient for every set of tasks and every bound: only one  *)
(* of the transactions that share the next nonce executes, and the client  *)
(* implements TxPool.                                                      *)
EXTENDS TxClient, TLAPS, SequenceTheorems

\* What makes LiveShareNextNonce inductive: nonces only grow along the
\* chain, no task has read a key beyond it, nothing broadcast skips a nonce,
\* and a task waits exactly while its result is pending.
NonceInv ==
  /\ TypeOK
  /\ \A i, j \in 1..Len(chain) : i < j => chain[i].nonce < chain[j].nonce
  /\ \A t \in Task : key[t] <= Nonce
  /\ \A x \in mempool : x.nonce <= Nonce + 1
  /\ \A t \in Task : /\ result[t] = "pending" <=> pc[t] \in {"waiting", "executing"}
                     /\ pc[t] = "signing" => sent[t] < MaxSends

\* Every entry of the chain has a nonce.
LEMMA ChainEntries ==
  ASSUME TypeOK
  PROVE  /\ Len(chain) \in Nat
         /\ \A i \in 1..Len(chain) : chain[i] \in Entry /\ chain[i].nonce \in Nat
<1>1. chain \in Seq(Entry) /\ Len(chain) \in Nat
  BY DEF TypeOK
<1>2. \A i \in 1..Len(chain) : chain[i] \in Entry
  BY <1>1, ElementOfSeq
<1>. QED  BY <1>1, <1>2 DEF Entry

\* Any block a node answers from has a nonce that the key has reached.
LEMMA NonceAtBound ==
  ASSUME NonceInv, NEW k \in 0..Len(chain)
  PROVE  NonceAt(k) \in Nat /\ NonceAt(k) <= Nonce /\ Nonce \in Nat
<1>1. /\ Len(chain) \in Nat
      /\ \A i \in 1..Len(chain) : chain[i].nonce \in Nat
      /\ \A i, j \in 1..Len(chain) : i < j => chain[i].nonce < chain[j].nonce
  BY ChainEntries DEF NonceInv
<1>2. Nonce \in Nat /\ NonceAt(k) \in Nat
  BY <1>1 DEF Nonce, NonceAt
<1>3. CASE k = 0 \/ k = Len(chain)
  BY <1>2, <1>3 DEF Nonce, NonceAt
<1>4. CASE k \in 1..Len(chain) /\ k < Len(chain)
  <2>1. Len(chain) \in 1..Len(chain)
    BY <1>1, <1>4
  <2>. QED  BY <1>1, <1>2, <1>4, <2>1 DEF Nonce, NonceAt
<1>. QED  BY <1>1, <1>2, <1>3, <1>4

\* Before anything is sent the accounting of nonces holds.
LEMMA InitNonce == Init => NonceInv
<1>. SUFFICES ASSUME Init PROVE NonceInv
  OBVIOUS
<1>1. chain \in Seq(Entry) /\ Len(chain) = 0
  BY DEF Init
<1>2. Nonce = 0
  BY <1>1 DEF Nonce, NonceAt
<1>3. TypeOK
  BY <1>1 DEF Init, TypeOK
<1>. QED  BY <1>1, <1>2, <1>3 DEF Init, NonceInv

\* The accounting of nonces survives every step of send_tx, of the two ways
\* to wait and of the chain.
LEMMA NextNonce == NonceInv /\ [Next]_vars => NonceInv'
<1>. SUFFICES ASSUME NonceInv, [Next]_vars PROVE NonceInv'
  OBVIOUS
<1>. USE DEF NonceInv, TypeOK
<1>views. Views \subseteq 0..Len(chain)
  BY DEF Views
<1>nonce. Nonce \in Nat
  <2>1. 0 \in 0..Len(chain)
    BY ChainEntries
  <2>. QED  BY <2>1, NonceAtBound
<1>same. chain' = chain => Nonce' = Nonce
  BY DEF Nonce, NonceAt
<1>signed. ASSUME NEW t \in Task
           PROVE  /\ Signed(t) \in [tx : TxId, nonce : Nat]
                  /\ Signed(t).nonce <= Nonce + 1
  BY <1>nonce DEF Signed, Tx, TxId
<1>1. ASSUME NEW t \in Task, ReadKey(t) PROVE NonceInv'
  <2>1. PICK k \in Views : key' = [key EXCEPT ![t] = NonceAt(k)]
    BY <1>1 DEF ReadKey
  <2>2. NonceAt(k) \in Nat /\ NonceAt(k) <= Nonce
    BY <1>views, NonceAtBound
  <2>. QED  BY <1>1, <1>same, <2>1, <2>2 DEF ReadKey
<1>2. ASSUME NEW t \in Task, Broadcast(t) PROVE NonceInv'
  BY <1>2, <1>same, <1>signed DEF Broadcast
<1>3. ASSUME NEW t \in Task, SendError(t) PROVE NonceInv'
  BY <1>3, <1>same, <1>signed DEF SendError
<1>4. ASSUME NEW t \in Task, Poll(t) PROVE NonceInv'
  <2>1. \A x, k : Shown(x, k) \in {"ok", "failed", "none"}
    BY DEF Shown
  <2>2. /\ UNCHANGED <<mempool, chain, final, sent, key>>
        /\ pc[t] = "waiting"
        /\ \/ polls' = [polls EXCEPT ![t] = @ + 1] /\ UNCHANGED <<pc, result>>
           \/ \E r \in {"ok", "failed", "unknown"} : Return(t, r)
    BY <1>4, <2>1 DEF Poll
  <2>3. CASE polls' = [polls EXCEPT ![t] = @ + 1] /\ UNCHANGED <<pc, result>>
    <3>1. polls[t] + 1 \in Nat
      OBVIOUS
    <3>. QED  BY <1>same, <2>2, <2>3, <3>1
  <2>4. CASE \E r \in {"ok", "failed", "unknown"} : Return(t, r)
    BY <1>same, <2>2, <2>4 DEF Return
  <2>. QED  BY <2>2, <2>3, <2>4
<1>4a. ASSUME NEW t \in Task, WaitForExecuted(t) PROVE NonceInv'
  <2>1. \E r \in {"executed", "unknown"} : Return(t, r)
    BY <1>4a DEF WaitForExecuted
  <2>. QED  BY <1>4a, <1>same, <2>1 DEF WaitForExecuted, Return
<1>5. ASSUME NEW t \in Task, PollError(t) PROVE NonceInv'
  BY <1>5, <1>same DEF PollError, Return
<1>6. ASSUME Include PROVE NonceInv'
  <2>1. PICK x \in mempool, ok \in BOOLEAN :
          /\ x.nonce > Nonce
          /\ chain' = Append(chain, [tx |-> x.tx, nonce |-> x.nonce, ok |-> ok])
          /\ mempool' = mempool \ {x}
    BY <1>6 DEF Include
  <2>2. /\ chain' \in Seq(Entry)
        /\ Len(chain') = Len(chain) + 1
        /\ \A i \in 1..Len(chain) : chain'[i] = chain[i]
        /\ chain'[Len(chain) + 1].nonce = x.nonce
    <3>1. x \in [tx : TxId, nonce : Nat]
      BY DEF NonceInv, TypeOK
    <3>2. [tx |-> x.tx, nonce |-> x.nonce, ok |-> ok] \in Entry
      BY <3>1 DEF Entry
    <3>. HIDE DEF NonceInv
    <3>3. chain \in Seq(Entry)
      BY DEF NonceInv
    <3>. QED  BY <2>1, <3>2, <3>3, AppendProperties
  <2>3. Nonce' = x.nonce /\ Nonce' = Nonce + 1
    <3>1. Len(chain) \in Nat /\ x.nonce \in Nat
      BY ChainEntries
    <3>2. Nonce' = chain'[Len(chain')].nonce
      BY <2>2, <3>1 DEF Nonce, NonceAt
    <3>. QED  BY <1>nonce, <2>1, <2>2, <3>1, <3>2
  <2>4. \A i \in 1..Len(chain) : chain[i].nonce <= Nonce /\ chain[i].nonce \in Nat
    BY NonceAtBound DEF NonceAt
  <2>5. \A i, j \in 1..Len(chain') : i < j => chain'[i].nonce < chain'[j].nonce
    <3>1. SUFFICES ASSUME NEW i \in 1..Len(chain'), NEW j \in 1..Len(chain'), i < j
                   PROVE  chain'[i].nonce < chain'[j].nonce
      OBVIOUS
    <3>2. CASE j \in 1..Len(chain)
      <4>1. i \in 1..Len(chain)
        BY <3>1, <3>2, ChainEntries
      <4>. QED  BY <3>1, <3>2, <2>2, <4>1
    <3>3. CASE j = Len(chain) + 1
      <4>1. i \in 1..Len(chain)
        BY <3>1, <3>3
      <4>. QED  BY <1>nonce, <2>1, <2>2, <2>4, <3>3, <4>1
    <3>. QED  BY <2>2, <3>2, <3>3
  <2>6. mempool' \subseteq mempool /\ \A y \in mempool' : y.nonce <= Nonce' + 1
    BY <1>nonce, <2>1, <2>3
  <2>7. \A t \in Task : key'[t] <= Nonce'
    BY <1>6, <1>nonce, <2>3 DEF Include
  <2>. QED  BY <1>6, <2>2, <2>5, <2>6, <2>7 DEF Include
<1>7. ASSUME Finalize PROVE NonceInv'
  BY <1>7, <1>same DEF Finalize
<1>8. ASSUME Drop PROVE NonceInv'
  BY <1>8, <1>same DEF Drop
<1>9. ASSUME UNCHANGED vars PROVE NonceInv'
  BY <1>9, <1>same DEF vars
<1>. QED
  BY <1>1, <1>2, <1>3, <1>4, <1>4a, <1>5, <1>6, <1>7, <1>8, <1>9 DEF Next, TaskStep

\* The accounting of nonces holds in every reachable state.
LEMMA NonceAccounting == Spec => []NonceInv
<1>. QED  BY InitNonce, NextNonce, PTL DEF Spec

\* Theorem: for any number of tasks that share the access key, and however
\* far the endpoints lag, all transactions that can still execute carry the
\* next nonce, so the chain executes at most one of them.
THEOREM NextNonceShared == Spec => []LiveShareNextNonce
<1>1. NonceInv => LiveShareNextNonce
  <2>. SUFFICES ASSUME NonceInv, NEW x \in Live PROVE x.nonce = Nonce + 1
    BY DEF LiveShareNextNonce
  <2>1. Nonce \in Nat /\ x.nonce \in Nat
    BY NonceAtBound DEF Live, NonceInv, TypeOK
  <2>. QED  BY <2>1 DEF NonceInv, Live
<1>. QED  BY <1>1, NonceAccounting, PTL

\* The pool and the log that TxPool sees.
PoolLive == {x.tx : x \in Live}
PoolLog == [i \in 1..Len(chain) |-> [tx |-> chain[i].tx, ok |-> chain[i].ok]]

\* A transaction that joins the mempool joins the pool or is dead on arrival.
LEMMA MempoolGrows ==
  ASSUME NEW x, mempool' = mempool \cup {x}, chain' = chain
  PROVE  PoolLive' \in {PoolLive, PoolLive \cup {x.tx}}
<1>1. Nonce' = Nonce
  BY DEF Nonce, NonceAt
<1>2. CASE x.nonce > Nonce
  <2>1. Live' = Live \cup {x}
    BY <1>1, <1>2 DEF Live
  <2>2. PoolLive' = PoolLive \cup {x.tx}
    BY <2>1 DEF PoolLive
  <2>. QED  BY <2>2
<1>3. CASE ~(x.nonce > Nonce)
  <2>1. Live' = Live
    BY <1>1, <1>3 DEF Live
  <2>2. PoolLive' = PoolLive
    BY <2>1 DEF PoolLive
  <2>. QED  BY <2>2
<1>. QED  BY <1>2, <1>3

\* Theorem: send_tx, wait_for_success and wait_for_executed implement TxPool,
\* the specification the other components are written against.
THEOREM ClientImplementsPool == Spec => ImplementsPool
<1>. DEFINE PoolState == <<sent, PoolLive, PoolLog, result>>
<1>state. Pool!poolVars = PoolState /\ (Pool!poolVars)' = PoolState'
  BY DEF Pool!poolVars, PoolLive, PoolLog
<1>1. Init => Pool!Init
  <2>. SUFFICES ASSUME Init PROVE Pool!Init
    OBVIOUS
  <2>1. PoolLive = {} /\ PoolLog = <<>>
    BY DEF Init, PoolLive, PoolLog, Live
  <2>. QED  BY <2>1 DEF Init, Pool!Init, PoolLive, PoolLog
<1>2. NonceInv /\ [Next]_vars => [Pool!Next]_(Pool!poolVars)
  <2>. SUFFICES ASSUME NonceInv, [Next]_vars
                PROVE  Pool!Next \/ PoolState' = PoolState
    BY <1>state
  <2>same. chain' = chain /\ mempool' = mempool => PoolLive' = PoolLive /\ PoolLog' = PoolLog
    BY DEF PoolLive, PoolLog, Live, Nonce, NonceAt
  <2>log. chain' = chain => PoolLog' = PoolLog
    BY DEF PoolLog
  <2>1. ASSUME NEW t \in Task, ReadKey(t) PROVE PoolState' = PoolState
    BY <2>1, <2>same DEF ReadKey
  <2>2. ASSUME NEW t \in Task, Broadcast(t) \/ SendError(t) PROVE Pool!Next
    <3>1. sent' = [sent EXCEPT ![t] = @ + 1] /\ sent'[t] = sent[t] + 1 /\ sent[t] < MaxSends
      BY <2>2 DEF Broadcast, SendError, NonceInv, TypeOK
    <3>2. result[t] # "pending"
      BY <2>2 DEF Broadcast, SendError, NonceInv
    <3>3. PoolLive' \in {PoolLive, PoolLive \cup {Tx(t, sent'[t])}}
      <4>1. mempool' \in {mempool, mempool \cup {Signed(t)}} /\ chain' = chain
        BY <2>2 DEF Broadcast, SendError
      <4>2. Signed(t).tx = Tx(t, sent'[t])
        BY <3>1 DEF Signed
      <4>. QED  BY <4>1, <4>2, <2>same, MempoolGrows
    <3>4. PoolLog' = PoolLog
      BY <2>2, <2>log DEF Broadcast, SendError
    <3>5. \E r \in {"pending", "unknown"} : result' = [result EXCEPT ![t] = r]
      BY <2>2 DEF Broadcast, SendError
    <3>6. Pool!Send(t)
      BY <3>1, <3>2, <3>3, <3>4, <3>5
      DEF Pool!Send, PoolLive, PoolLog, Tx, Pool!Tx
    <3>. QED  BY <3>6 DEF Pool!Next
  <2>3. ASSUME NEW t \in Task, Poll(t) \/ PollError(t)
        PROVE  Pool!Next \/ PoolState' = PoolState
    <3>1. PoolLive' = PoolLive /\ PoolLog' = PoolLog /\ sent' = sent
      BY <2>3, <2>same DEF Poll, PollError
    <3>2. result[t] = "pending"
      BY <2>3 DEF Poll, PollError, NonceInv
    <3>3. ASSUME NEW k \in Views, Shown(Tx(t, sent[t]), k) # "none",
                 Return(t, Shown(Tx(t, sent[t]), k))
          PROVE  Pool!Finish(t)
      <4> DEFINE r == Shown(Tx(t, sent[t]), k)
      <4>1. k \in 0..Len(chain) /\ Len(chain) \in Nat
        BY ChainEntries DEF Views, NonceInv, TypeOK
      <4>2. r = "ok" => \E i \in 1..Len(chain) : chain[i].tx = Tx(t, sent[t]) /\ chain[i].ok
        BY <4>1 DEF Shown
      <4>3. r = "failed" => \E i \in 1..Len(chain) : chain[i].tx = Tx(t, sent[t]) /\ ~chain[i].ok
        BY <4>1 DEF Shown
      <4>4. \A i \in 1..Len(chain) : chain[i].ok \in BOOLEAN
        BY ChainEntries DEF NonceInv, Entry
      <4>5. /\ r = "ok" => Pool!Executed(Tx(t, sent[t]), TRUE)
            /\ r = "failed" => Pool!Executed(Tx(t, sent[t]), FALSE)
        <5>1. Len(PoolLog) = Len(chain)
          BY <4>1 DEF PoolLog
        <5>2. \A i \in 1..Len(chain) : PoolLog[i] = [tx |-> chain[i].tx, ok |-> chain[i].ok]
          BY DEF PoolLog
        <5>. QED  BY <4>2, <4>3, <4>4, <5>1, <5>2 DEF Pool!Executed, PoolLog
      <4>6. r \in {"ok", "failed"} /\ result' = [result EXCEPT ![t] = r]
        BY <3>3 DEF Shown, Return
      <4>. QED  BY <3>1, <3>2, <4>5, <4>6 DEF Pool!Finish, PoolLive, PoolLog, Tx, Pool!Tx
    <3>4. ASSUME Return(t, "unknown") PROVE Pool!Finish(t)
      BY <3>1, <3>2, <3>4 DEF Return, Pool!Finish, PoolLive, PoolLog
    <3>5. \/ \E k \in Views : /\ Shown(Tx(t, sent[t]), k) # "none"
                              /\ Return(t, Shown(Tx(t, sent[t]), k))
          \/ Return(t, "unknown")
          \/ UNCHANGED result
      BY <2>3 DEF Poll, PollError
    <3>. QED  BY <3>1, <3>3, <3>4, <3>5 DEF Pool!Next
  <2>3a. ASSUME NEW t \in Task, WaitForExecuted(t) PROVE Pool!Next
    <3>1. PoolLive' = PoolLive /\ PoolLog' = PoolLog /\ sent' = sent
      BY <2>3a, <2>same DEF WaitForExecuted
    <3>2. result[t] = "pending"
      BY <2>3a DEF WaitForExecuted, NonceInv
    <3>3. PICK k \in Heights :
            Return(t, IF Shown(Tx(t, sent[t]), k) # "none" THEN "executed" ELSE "unknown")
      BY <2>3a DEF WaitForExecuted
    <3>4. CASE Shown(Tx(t, sent[t]), k) # "none"
      <4>1. k \in 0..Len(chain) /\ Len(chain) \in Nat
        BY ChainEntries DEF Heights, NonceInv, TypeOK
      <4>2. PICK i \in 1..Len(chain) : chain[i].tx = Tx(t, sent[t])
        BY <3>4, <4>1 DEF Shown
      <4>3. chain[i].ok \in BOOLEAN
        BY ChainEntries DEF NonceInv, Entry
      <4>4. Len(PoolLog) = Len(chain) /\ PoolLog[i] = [tx |-> chain[i].tx, ok |-> chain[i].ok]
        BY <4>1 DEF PoolLog
      <4>5. \E ok \in BOOLEAN : Pool!Executed(Tx(t, sent[t]), ok)
        BY <4>2, <4>3, <4>4 DEF Pool!Executed, PoolLog
      <4>6. result' = [result EXCEPT ![t] = "executed"]
        BY <3>3, <3>4 DEF Return
      <4>7. Pool!Finish(t)
        BY <3>1, <3>2, <4>5, <4>6 DEF Pool!Finish, PoolLive, PoolLog, Tx, Pool!Tx
      <4>. QED  BY <4>7 DEF Pool!Next
    <3>5. CASE Shown(Tx(t, sent[t]), k) = "none"
      <4>1. Pool!Finish(t)
        BY <3>1, <3>2, <3>3, <3>5 DEF Return, Pool!Finish, PoolLive, PoolLog
      <4>. QED  BY <4>1 DEF Pool!Next
    <3>. QED  BY <3>4, <3>5
  <2>4. ASSUME Include PROVE Pool!Next
    <3>1. PICK x \in mempool, ok \in BOOLEAN :
            /\ x.nonce > Nonce
            /\ chain' = Append(chain, [tx |-> x.tx, nonce |-> x.nonce, ok |-> ok])
            /\ mempool' = mempool \ {x}
      BY <2>4 DEF Include
    <3>2. x.tx \in PoolLive
      BY <3>1 DEF PoolLive, Live
    <3>3. PoolLog' = Append(PoolLog, [tx |-> x.tx, ok |-> ok])
      BY <3>1, ChainEntries DEF PoolLog, NonceInv, TypeOK
    <3>4. PoolLive' = {}
      <4>1. /\ chain \in Seq(Entry) /\ Len(chain) \in Nat /\ x.nonce \in Nat
            /\ [tx |-> x.tx, nonce |-> x.nonce, ok |-> ok] \in Entry
            /\ 0 \in 0..Len(chain)
        BY ChainEntries DEF NonceInv, TypeOK, Entry
      <4>2. Len(chain') = Len(chain) + 1 /\ chain'[Len(chain) + 1].nonce = x.nonce
        BY <3>1, <4>1, AppendProperties
      <4>3. Nonce' = x.nonce
        BY <4>1, <4>2 DEF Nonce, NonceAt
      <4>4. Nonce \in Nat /\ \A y \in mempool : y.nonce \in Nat /\ y.nonce <= Nonce + 1
        BY <4>1, NonceAtBound DEF NonceInv, TypeOK
      <4>5. Live' = {}
        BY <3>1, <4>1, <4>3, <4>4 DEF Live
      <4>. QED  BY <4>5 DEF PoolLive
    <3>5. Pool!Execute
      BY <2>4, <3>2, <3>3, <3>4 DEF Include, Pool!Execute, PoolLive, PoolLog
    <3>. QED  BY <3>5 DEF Pool!Next
  <2>5. ASSUME Finalize PROVE PoolState' = PoolState
    BY <2>5, <2>same DEF Finalize
  <2>6. ASSUME Drop PROVE Pool!Next \/ PoolState' = PoolState
    <3>1. PICK x \in mempool : mempool' = mempool \ {x}
      BY <2>6 DEF Drop
    <3>2. PoolLog' = PoolLog /\ UNCHANGED <<sent, result>>
      BY <2>6, <2>log DEF Drop
    <3>3. Live' = Live \ {x}
      BY <2>6, <3>1 DEF Drop, Live, Nonce, NonceAt
    <3>4. PoolLive' = PoolLive \/ (x.tx \in PoolLive /\ PoolLive' = PoolLive \ {x.tx})
      BY <3>3 DEF PoolLive
    <3>. QED  BY <3>2, <3>4 DEF Pool!Next, Pool!Lose, PoolLive, PoolLog
  <2>7. ASSUME UNCHANGED vars PROVE PoolState' = PoolState
    BY <2>7, <2>same DEF vars
  <2>. QED  BY <2>1, <2>2, <2>3, <2>3a, <2>4, <2>5, <2>6, <2>7 DEF Next, TaskStep
<1>. QED  BY <1>1, <1>2, NonceAccounting, PTL DEF Spec, ImplementsPool, Pool!Spec
=============================================================================
