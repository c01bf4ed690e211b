------------------------------- MODULE TxPool -------------------------------
(***************************************************************************)
(* What the tasks that share the wallet may rely on when they send a       *)
(* transaction and wait for it (the traits SendTx and SentTx of            *)
(* crates/blockchain/src/jsonrpc.rs).  The transactions that can still     *)
(* execute form one pool; executing one of them empties the pool, because  *)
(* all of them carry the nonce that comes next.  RefStorage is written     *)
(* against this specification and TxClient implements it.                  *)
(***************************************************************************)
EXTENDS Integers, Sequences

CONSTANTS
  Task,       \* tasks that send transactions of the wallet
  MaxSends    \* bound on the transactions of one task

VARIABLES
  sent,    \* number of transactions each task has sent
  live,    \* transactions that can still execute
  log,     \* what the chain executed, in order: [tx, ok]
  result   \* outcome of each task's last transaction, as the task knows it

poolVars == <<sent, live, log, result>>

\* The nth transaction of a task.
Tx(t, n) == [task |-> t, n |-> n]
Executed(x, ok) == \E i \in 1..Len(log) : log[i] = [tx |-> x, ok |-> ok]

Init ==
  /\ sent = [t \in Task |-> 0]
  /\ live = {}
  /\ log = <<>>
  /\ result = [t \in Task |-> "none"]

\* send_tx: the transaction may be dead on arrival, and the sender may not
\* learn that it was broadcast.
Send(t) ==
  /\ result[t] # "pending"
  /\ sent[t] < MaxSends
  /\ sent' = [sent EXCEPT ![t] = @ + 1]
  /\ live' \in {live, live \cup {Tx(t, sent'[t])}}
  /\ \E r \in {"pending", "unknown"} : result' = [result EXCEPT ![t] = r]
  /\ UNCHANGED log

Execute ==
  /\ \E x \in live, ok \in BOOLEAN : log' = Append(log, [tx |-> x, ok |-> ok])
  /\ live' = {}
  /\ UNCHANGED <<sent, result>>

Lose ==
  /\ \E x \in live : live' = live \ {x}
  /\ UNCHANGED <<sent, log, result>>

\* wait_for_success: Ok and a failure of the contract are the truth, any
\* other error says nothing about the transaction.  wait_for_executed: Ok
\* says that it was executed, and not how.
Finish(t) ==
  /\ result[t] = "pending"
  /\ \E r \in {"ok", "failed", "executed", "unknown"} :
       /\ r = "ok" => Executed(Tx(t, sent[t]), TRUE)
       /\ r = "failed" => Executed(Tx(t, sent[t]), FALSE)
       /\ r = "executed" => \E ok \in BOOLEAN : Executed(Tx(t, sent[t]), ok)
       /\ result' = [result EXCEPT ![t] = r]
  /\ UNCHANGED <<sent, live, log>>

Next == Execute \/ Lose \/ \E t \in Task : Send(t) \/ Finish(t)

Spec == Init /\ [][Next]_poolVars
=============================================================================
