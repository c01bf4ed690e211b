------------------------------ MODULE TxClient ------------------------------
(***************************************************************************)
(* Sending a transaction and waiting for it: send_tx of                    *)
(* crates/blockchain/src/jsonrpc/near_client.rs and wait_for_success or    *)
(* wait_for_executed of sent_tx.rs, run concurrently by the tasks that     *)
(* share one access key.                                                   *)
(*                                                                         *)
(* The nonce is read from the last final block and the transaction is      *)
(* broadcast in a later step, so two tasks may sign with the same nonce.   *)
(* The chain executes a transaction whose nonce is above the key's, and    *)
(* finalizes it later.                                                     *)
(***************************************************************************)
EXTENDS Integers, Sequences, FiniteSets

CONSTANTS
  Task,         \* tasks that send transactions of the wallet
  MaxSends,     \* bound on the transactions of one task
  MaxAttempts,  \* MAX_ATTEMPTS of wait_for_success
  Faults,       \* RPC calls may fail, nodes may drop transactions
  StaleViews    \* the endpoint that answers may lag behind the others

ASSUME TxAssumption ==
  /\ MaxSends \in Nat /\ MaxAttempts \in Nat \ {0}
  /\ Faults \in BOOLEAN /\ StaleViews \in BOOLEAN

VARIABLES
  mempool,   \* transactions broadcast and not executed: [tx, nonce]
  chain,     \* what the chain executed, in order: [tx, nonce, ok]
  final,     \* length of the final prefix of chain
  sent,      \* number of transactions each task has sent
  pc,        \* where each task is: idle, signing, waiting (wait_for_success)
             \* or executing (wait_for_executed)
  key,       \* the access key's nonce as the task read it
  polls,     \* polls of wait_for_success that gave no outcome
  result     \* outcome of the task's last transaction, as the task knows it

vars == <<mempool, chain, final, sent, pc, key, polls, result>>

Tx(t, n) == [task |-> t, n |-> n]

\* The access key's nonce after the first k transactions.
NonceAt(k) == IF k = 0 THEN 0 ELSE chain[k].nonce
Nonce == NonceAt(Len(chain))

\* Final blocks that an RPC node may answer from, and blocks that need not
\* be final.
Views == IF StaleViews THEN 0..final ELSE {final}
Heights == IF StaleViews THEN 0..Len(chain) ELSE {Len(chain)}

Init ==
  /\ mempool = {} /\ chain = <<>> /\ final = 0
  /\ sent = [t \in Task |-> 0]
  /\ pc = [t \in Task |-> "idle"]
  /\ key = [t \in Task |-> 0]
  /\ polls = [t \in Task |-> 0]
  /\ result = [t \in Task |-> "none"]

-----------------------------------------------------------------------------
(* send_tx *)

ReadKey(t) ==
  /\ pc[t] = "idle" /\ sent[t] < MaxSends
  /\ \E k \in Views : key' = [key EXCEPT ![t] = NonceAt(k)]
  /\ pc' = [pc EXCEPT ![t] = "signing"]
  /\ UNCHANGED <<mempool, chain, final, sent, polls, result>>

\* Mutant: the nonce is off.
SignedBelowKey(t) == [tx |-> Tx(t, sent[t] + 1), nonce |-> key[t] - 1]

\* Mutant: the nonce also counts what is in the mempool.
SignedPastMempool(t) ==
  [tx |-> Tx(t, sent[t] + 1), nonce |-> key[t] + 1 + Cardinality(mempool)]

Signed(t) == [tx |-> Tx(t, sent[t] + 1), nonce |-> key[t] + 1]

\* The caller goes on with one of the two ways to wait.
Broadcast(t) ==
  /\ pc[t] = "signing"
  /\ mempool' = mempool \cup {Signed(t)}
  /\ sent' = [sent EXCEPT ![t] = @ + 1]
  /\ \E wait \in {"waiting", "executing"} : pc' = [pc EXCEPT ![t] = wait]
  /\ polls' = [polls EXCEPT ![t] = 0]
  /\ result' = [result EXCEPT ![t] = "pending"]
  /\ UNCHANGED <<chain, final, key>>

\* A call of send_tx fails; when it was the broadcast, a node may have the
\* transaction all the same.
SendError(t) ==
  /\ pc[t] = "signing" /\ Faults
  /\ mempool' \in {mempool, mempool \cup {Signed(t)}}
  /\ sent' = [sent EXCEPT ![t] = @ + 1]
  /\ pc' = [pc EXCEPT ![t] = "idle"]
  /\ result' = [result EXCEPT ![t] = "unknown"]
  /\ UNCHANGED <<chain, final, key, polls>>

-----------------------------------------------------------------------------
(* wait_for_success and wait_for_executed *)

\* Mutant: a failed execution is reported as a success.
ShownIgnoringFailure(x, k) == IF \E i \in 1..k : chain[i].tx = x THEN "ok" ELSE "none"

\* The outcome that a final block k shows for a transaction.
Shown(x, k) ==
  IF \E i \in 1..k : chain[i].tx = x
  THEN IF \E i \in 1..k : chain[i].tx = x /\ chain[i].ok THEN "ok" ELSE "failed"
  ELSE "none"

Return(t, r) ==
  /\ pc' = [pc EXCEPT ![t] = "idle"]
  /\ polls' = [polls EXCEPT ![t] = 0]
  /\ result' = [result EXCEPT ![t] = r]

\* Mutant: no limit on the polls.
PollForever(t) ==
  /\ pc[t] = "waiting"
  /\ \E k \in Views : /\ Shown(Tx(t, sent[t]), k) # "none"
                      /\ Return(t, Shown(Tx(t, sent[t]), k))
  /\ UNCHANGED <<mempool, chain, final, sent, key>>

\* A poll returns the outcome of a final transaction; an unknown or a not
\* yet final one is asked for again, MAX_ATTEMPTS times.
Poll(t) ==
  /\ pc[t] = "waiting"
  /\ \E k \in Views :
     LET shown == Shown(Tx(t, sent[t]), k)
     IN  IF shown # "none"
         THEN Return(t, shown)
         ELSE IF polls[t] + 1 < MaxAttempts
              THEN polls' = [polls EXCEPT ![t] = @ + 1] /\ UNCHANGED <<pc, result>>
              ELSE Return(t, "unknown")
  /\ UNCHANGED <<mempool, chain, final, sent, key>>

\* One call that the node answers once the transaction is executed, final
\* or not, or with an error when it waited too long.
WaitForExecuted(t) ==
  /\ pc[t] = "executing"
  /\ \E k \in Heights :
       Return(t, IF Shown(Tx(t, sent[t]), k) # "none" THEN "executed" ELSE "unknown")
  /\ UNCHANGED <<mempool, chain, final, sent, key>>

PollError(t) ==
  /\ pc[t] \in {"waiting", "executing"} /\ Faults
  /\ Return(t, "unknown")
  /\ UNCHANGED <<mempool, chain, final, sent, key>>

-----------------------------------------------------------------------------
(* The chain. *)

Include ==
  /\ \E x \in mempool, ok \in BOOLEAN :
       /\ x.nonce > Nonce
       /\ chain' = Append(chain, [tx |-> x.tx, nonce |-> x.nonce, ok |-> ok])
       /\ mempool' = mempool \ {x}
  /\ UNCHANGED <<final, sent, pc, key, polls, result>>

Finalize ==
  /\ final < Len(chain)
  /\ final' = final + 1
  /\ UNCHANGED <<mempool, chain, sent, pc, key, polls, result>>

Drop ==
  /\ Faults
  /\ \E x \in mempool : mempool' = mempool \ {x}
  /\ UNCHANGED <<chain, final, sent, pc, key, polls, result>>

TaskStep(t) ==
  \/ ReadKey(t) \/ Broadcast(t) \/ SendError(t)
  \/ Poll(t) \/ WaitForExecuted(t) \/ PollError(t)

Next == (\E t \in Task : TaskStep(t)) \/ Include \/ Finalize \/ Drop

Spec == Init /\ [][Next]_vars

\* A task that sends goes on until it has an outcome.
FairSpec ==
  Spec /\ \A t \in Task : /\ WF_vars(Broadcast(t))
                          /\ WF_vars(Poll(t)) /\ WF_vars(WaitForExecuted(t))

-----------------------------------------------------------------------------
(* Properties. *)

TxId == [task : Task, n : Nat]
Entry == [tx : TxId, nonce : Nat, ok : BOOLEAN]

\* The state of the senders and of the chain keeps its types.
TypeOK ==
  /\ mempool \subseteq [tx : TxId, nonce : Nat]
  /\ chain \in Seq(Entry)
  /\ final \in 0..Len(chain)
  /\ sent \in [Task -> Nat]
  /\ pc \in [Task -> {"idle", "signing", "waiting", "executing"}]
  /\ key \in [Task -> Nat]
  /\ polls \in [Task -> Nat]
  /\ result \in [Task -> {"none", "pending", "ok", "failed", "executed", "unknown"}]

\* Transactions of the mempool that the chain would still accept.
Live == {x \in mempool : x.nonce > Nonce}

\* send_tx signs with the nonce after the last final one, so everything
\* that can still execute carries the nonce that comes next, and executing
\* one of them kills all the others.
LiveShareNextNonce == \A x \in Live : x.nonce = Nonce + 1

\* What the comment in wait_for_success promises for waiting until the
\* transaction is final: a task that was told the outcome of its last
\* transaction signs the next one with a nonce none of its transactions had.
\* It holds while all endpoints are at the same height, and fails when the
\* key is read from one that lags behind the one that showed the outcome.
FreshNonceAfterFinal ==
  [][\A t \in Task :
       (sent'[t] # sent[t] /\ pc'[t] # "idle" /\ result[t] \in {"ok", "failed"})
       => \A x \in mempool \cup {[tx |-> chain[i].tx, nonce |-> chain[i].nonce] :
                                   i \in 1..Len(chain)} :
            x.tx.task = t => x.nonce < Signed(t).nonce]_vars

\* The transactions of one task execute in the order the task sent them,
\* also those it gave up on, and none executes twice.
TaskOrder ==
  \A i, j \in 1..Len(chain) :
    (i < j /\ chain[i].tx.task = chain[j].tx.task) => chain[i].tx.n < chain[j].tx.n

\* Every transaction a task sends gets an answer: wait_for_success and
\* wait_for_executed end, also for a transaction that was dropped or whose
\* nonce another task used up.
SendsReturn == \A t \in Task : pc[t] # "idle" ~> pc[t] = "idle"

\* The sender's view of the wallet: TxPool with the transactions the chain
\* would still accept as its pool.
Pool == INSTANCE TxPool WITH
  live <- {x.tx : x \in Live},
  log <- [i \in 1..Len(chain) |-> [tx |-> chain[i].tx, ok |-> chain[i].ok]]

\* send_tx, wait_for_success and wait_for_executed implement TxPool.
ImplementsPool == Pool!Spec
=============================================================================
