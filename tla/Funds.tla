-------------------------------- MODULE Funds --------------------------------
(***************************************************************************)
(* The NEAR of the wallet: native, wrapped, and deposited on the REF       *)
(* exchange.  balances.rs of crates/blockchain moves it towards the        *)
(* exchange before a swap (start with refill, deposit_wrap_near_to_ref)    *)
(* and away from it (harvest); harvest.rs and execution.rs of crates/trade *)
(* send a profit, or everything, to the harvest account.                   *)
(*                                                                         *)
(* Every view call and every transaction is a step.  Transactions behave   *)
(* as in TxPool: all that may still execute carry the next nonce, so the   *)
(* chain executes one of them and the others never execute.                *)
(***************************************************************************)
EXTENDS Naturals, FiniteSets

CONSTANTS
  Task,           \* tasks that share the wallet
  None,           \* no task
  Amounts,        \* arguments of start and deposit_wrap_near_to_ref
  Initials,       \* values of a period at its start
  Currents,       \* values of a period at its end
  Reserve,        \* TRADE_ACCOUNT_RESERVE
  HarvestReserve, \* HARVEST_RESERVE_AMOUNT
  OneNear,        \* DEFAULT_HARVEST_RESERVE
  MinHarvest,     \* HARVEST_MIN_AMOUNT
  Multiplier,     \* HARVEST_BALANCE_MULTIPLIER
  Functions,      \* the functions that are called
  Faults,         \* views and sends may fail, waits may be given up
  MaxSwaps,       \* bound on the wallet's other transactions
  Natives,        \* native balances at the start
  Wrappeds,       \* wrapped balances at the start
  Depositeds,     \* deposits at the start
  MaxDeposited,   \* bound on the deposit that swaps produce
  MaxCalls        \* bound on the number of calls

ASSUME FundsAssumption ==
  /\ None \notin Task
  /\ Amounts \subseteq Nat /\ Initials \subseteq Nat /\ Currents \subseteq Nat
  /\ Reserve \in Nat /\ HarvestReserve \in Nat /\ OneNear \in Nat
  /\ MinHarvest \in Nat
  /\ Multiplier \in Nat \ {0}
  /\ Faults \in BOOLEAN /\ MaxSwaps \in Nat
  /\ Functions \subseteq {"start", "deposit", "harvest", "close"}
  /\ Natives \subseteq Nat /\ Wrappeds \subseteq Nat /\ Depositeds \subseteq Nat
  /\ MaxDeposited \in Nat /\ MaxCalls \in Nat

VARIABLES
  native,    \* native NEAR of the wallet
  wrapped,   \* wrapped NEAR of the wallet
  deposited, \* wrapped NEAR deposited on the exchange
  harvested, \* NEAR of the harvest account
  pool,      \* transactions that may still execute
  due,       \* the harvests whose interval has passed since the last one
  pc,        \* where each task is
  op,        \* locals of each task's current function
  calls,     \* calls made so far, to bound them
  swaps      \* other transactions of the wallet so far, to bound them

money == <<native, wrapped, deposited, harvested>>
vars == <<native, wrapped, deposited, harvested, pool, due, pc, op, calls, swaps>>
steps == <<calls, swaps>>

TxKind == {"wrap", "deposit", "withdraw", "unwrap", "transfer"}
SatSub(a, b) == IF a < b THEN 0 ELSE a - b
Least(a, b) == IF a < b THEN a ELSE b

\* fn: "start", "deposit" (deposit_wrap_near_to_ref), "harvest"
\* (check_and_execute_harvest), "close" (unwrap_and_transfer_wnear).
\* seen, short, base, plan: the deposit read, the shortage, the balance read
\* last, the amount of the next transaction.  moved .. refunded are history:
\*   moved     what the transfers of this call brought to the harvest account
\*   fresh     no other transaction executed since the call began
\*   drain     native NEAR that other transactions took since the call began
\*   refunded  the exchange gave a deposit of this call back
NewOp(fn, want) ==
  [fn |-> fn, want |-> want, seen |-> 0, short |-> 0, base |-> 0, plan |-> 0,
   tx |-> "none", value |-> 0, result |-> "none", moved |-> 0, fresh |-> TRUE,
   drain |-> 0, refunded |-> FALSE]

Init ==
  /\ native \in Natives /\ wrapped \in Wrappeds /\ deposited \in Depositeds
  /\ harvested = 0
  /\ pool = {}
  /\ due = {"balances", "trade"}
  /\ pc = [t \in Task |-> "idle"]
  /\ op = [t \in Task |-> NewOp("start", 0)]
  /\ calls = 0 /\ swaps = 0

Goto(t, label, locals) ==
  /\ pc' = [pc EXCEPT ![t] = label]
  /\ op' = [op EXCEPT ![t] = locals]

\* The function returns; its locals and its history no longer matter.
Return(t, result, value) ==
  Goto(t, "idle", [NewOp(op[t].fn, 0) EXCEPT !.result = result, !.value = value])

\* Mutant: divides.
UpperDivided(t) == op[t].want \div Multiplier

\* multiply_by_balance_multiplier
Upper(t) == op[t].want * Multiplier

\* An error ends the function.  start only logs an error of harvest and
\* returns the deposit it read before.
Fail(t) ==
  IF op[t].fn = "start" /\ pc[t] \in {"native", "withdraw", "transfer"}
  THEN Return(t, "ok", op[t].seen)
  ELSE Return(t, "err", 0)

-----------------------------------------------------------------------------
(* Calls. *)

\* check_and_execute_harvest: a tenth of what exceeds twice the initial value.
HarvestExcess(initial, current) == IF initial = 0 THEN 0 ELSE SatSub(current, 2 * initial)
HarvestAmount(initial, current) == HarvestExcess(initial, current) \div 10

CallHarvest(t) ==
  \E initial \in Initials, current \in Currents :
    LET amount == HarvestAmount(initial, current)
        new == NewOp("harvest", amount)
    IN  IF HarvestExcess(initial, current) = 0 \/ amount < MinHarvest \/ "trade" \notin due
        THEN Goto(t, "idle", [new EXCEPT !.result = "ok"])
        ELSE Goto(t, "withdraw", [new EXCEPT !.plan = amount])

\* unwrap_and_transfer_wnear does nothing when there is no harvest account or
\* it is the wallet's own, and fails when it is not a valid account id.
Call(t) ==
  /\ pc[t] = "idle"
  /\ calls < MaxCalls
  /\ calls' = calls + 1
  /\ \E fn \in Functions :
       \/ fn \in {"start", "deposit"} /\ \E want \in Amounts : Goto(t, "deposits", NewOp(fn, want))
       \/ fn = "close" /\ Goto(t, "deposits", NewOp(fn, 0))
       \/ /\ fn = "close"
          /\ \E r \in {"ok", "err"} : Goto(t, "idle", [NewOp(fn, 0) EXCEPT !.result = r])
       \/ fn = "harvest" /\ CallHarvest(t)
  /\ UNCHANGED <<money, pool, due, swaps>>

-----------------------------------------------------------------------------
(* Views and the decisions that follow them. *)

\* Mutant: start does not compare the deposit with its upper bound.
ReadDepositsUnbounded(t) ==
  /\ pc[t] = "deposits" /\ op[t].fn = "start"
  /\ Goto(t, "native", [op[t] EXCEPT !.seen = deposited, !.plan = deposited - Upper(t)])
  /\ UNCHANGED <<money, pool, due, steps>>

\* balance_of_start_token, and the branches of the functions on it.
ReadDeposits(t) ==
  /\ pc[t] = "deposits"
  /\ LET new == [op[t] EXCEPT !.seen = deposited]
         short == Goto(t, "wrapped", [new EXCEPT !.short = op[t].want - deposited])
     IN  CASE op[t].fn = "close" ->
                IF deposited = 0 THEN Return(t, "ok", 0)
                ELSE Goto(t, "withdraw", [new EXCEPT !.plan = deposited])
           [] op[t].fn = "deposit" ->
                IF deposited >= op[t].want THEN Return(t, "ok", 0) ELSE short
           [] op[t].fn = "start" ->
                IF deposited < op[t].want THEN short
                ELSE IF Upper(t) < deposited
                THEN Goto(t, "native", [new EXCEPT !.plan = deposited - Upper(t)])
                ELSE Return(t, "ok", deposited)
  /\ UNCHANGED <<money, pool, due, steps>>

\* What start and deposit_wrap_near_to_ref do once enough NEAR is wrapped:
\* start deposits all of it, the other reads the wrapped balance again.
AfterWrapping(t, locals, total) ==
  IF op[t].fn = "deposit" THEN Goto(t, "final", locals)
  ELSE IF total = 0 THEN Goto(t, "again", locals)
  ELSE Goto(t, "deposit", [locals EXCEPT !.plan = total])

ReadWrapped(t) ==
  /\ pc[t] = "wrapped"
  /\ LET new == [op[t] EXCEPT !.base = wrapped]
     IN  IF wrapped < op[t].short
         THEN Goto(t, "reserve", new)
         ELSE AfterWrapping(t, new, wrapped)
  /\ UNCHANGED <<money, pool, due, steps>>

\* Mutant: the reserve is not subtracted.
ToWrapAll(t) == Least(native, op[t].short - op[t].base)

\* What may be wrapped without touching the reserve.
ToWrap(t) == Least(SatSub(native, Reserve), op[t].short - op[t].base)

ReadNative(t) ==
  /\ pc[t] = "reserve"
  /\ IF ToWrap(t) > 0
     THEN Goto(t, "wrap", [op[t] EXCEPT !.plan = ToWrap(t)])
     ELSE AfterWrapping(t, op[t], op[t].base)
  /\ UNCHANGED <<money, pool, due, steps>>

ReadFinal(t) ==
  /\ pc[t] = "final"
  /\ IF wrapped = 0
     THEN Return(t, "err", 0)
     ELSE Goto(t, "deposit", [op[t] EXCEPT !.plan = Least(op[t].short, wrapped)])
  /\ UNCHANGED <<money, pool, due, steps>>

\* start reads the deposit again after refill.
ReadAgain(t) ==
  /\ pc[t] = "again"
  /\ Return(t, "ok", deposited)
  /\ UNCHANGED <<money, pool, due, steps>>

\* harvest of balances.rs: withdraw if the reserve is short or it is time.
HarvestNative(t) ==
  /\ pc[t] = "native"
  /\ IF native < Reserve \/ "balances" \in due
     THEN Goto(t, "withdraw", [op[t] EXCEPT !.base = native])
     ELSE Goto(t, "share", [op[t] EXCEPT !.base = native, !.plan = 0])
  /\ UNCHANGED <<money, pool, due, steps>>

\* Mutant: the NEAR to keep is not multiplied.
HarvestShareRequired(t) ==
  /\ pc[t] = "share"
  /\ LET balance == op[t].base + op[t].plan
     IN  IF op[t].want < balance /\ "balances" \in due
         THEN Goto(t, "transfer", [op[t] EXCEPT !.plan = balance - op[t].want])
         ELSE Return(t, "ok", op[t].seen)
  /\ UNCHANGED <<money, pool, due, steps>>

\* harvest of balances.rs: the native balance is not read again but computed
\* from what was withdrawn.
HarvestShare(t) ==
  /\ pc[t] = "share"
  /\ LET balance == op[t].base + op[t].plan
     IN  IF Upper(t) < balance /\ "balances" \in due
         THEN Goto(t, "transfer", [op[t] EXCEPT !.plan = balance - Upper(t)])
         ELSE Return(t, "ok", op[t].seen)
  /\ UNCHANGED <<money, pool, due, steps>>

\* What stays in the wallet; unwrap_and_transfer_wnear never takes zero for it.
KeptReserve(t) ==
  IF op[t].fn = "close" /\ HarvestReserve = 0 THEN OneNear ELSE HarvestReserve

\* Mutant: execute_harvest_transfer and unwrap_and_transfer_wnear ignore
\* their reserve.
ReadBalanceNoReserve(t) ==
  /\ pc[t] = "balance"
  /\ Goto(t, "transfer", [op[t] EXCEPT !.plan = native])
  /\ UNCHANGED <<money, pool, due, steps>>

\* execute_harvest_transfer and unwrap_and_transfer_wnear: what may be sent.
\* A harvest that is skipped here counts as done.
ReadBalance(t) ==
  /\ pc[t] = "balance"
  /\ IF native > KeptReserve(t)
     THEN /\ Goto(t, "transfer", [op[t] EXCEPT !.plan =
                  IF op[t].fn = "close" THEN native - KeptReserve(t)
                  ELSE Least(op[t].want, native - KeptReserve(t))])
          /\ UNCHANGED due
     ELSE /\ Return(t, "ok", op[t].want)
          /\ due' = IF op[t].fn = "harvest" THEN due \ {"trade"} ELSE due
  /\ UNCHANGED <<money, pool, steps>>

-----------------------------------------------------------------------------
(* Transactions. *)

Tx(t) == [kind |-> pc[t], amount |-> op[t].plan, by |-> t]

Send(t) ==
  /\ pc[t] \in TxKind /\ op[t].tx = "none"
  /\ pool' = pool \cup {Tx(t)}
  /\ Goto(t, pc[t], [op[t] EXCEPT !.tx = "pending"])
  /\ UNCHANGED <<money, due, steps>>

Settled(t) == [op[t] EXCEPT !.tx = "none"]

Wrapped(t) ==
  /\ pc[t] = "wrap" /\ op[t].tx = "ok"
  /\ AfterWrapping(t, Settled(t), op[t].base + op[t].plan)
  /\ UNCHANGED <<money, pool, due, steps>>

Deposited(t) ==
  /\ pc[t] = "deposit" /\ op[t].tx = "ok"
  /\ IF op[t].fn = "start" THEN Goto(t, "again", Settled(t)) ELSE Return(t, "ok", 0)
  /\ UNCHANGED <<money, pool, due, steps>>

Withdrawn(t) ==
  /\ pc[t] = "withdraw" /\ op[t].tx = "ok"
  /\ Goto(t, IF op[t].fn = "start" THEN "share" ELSE "unwrap", Settled(t))
  /\ UNCHANGED <<money, pool, due, steps>>

Unwrapped(t) ==
  /\ pc[t] = "unwrap" /\ op[t].tx = "ok"
  /\ Goto(t, "balance", Settled(t))
  /\ UNCHANGED <<money, pool, due, steps>>

\* harvest of balances.rs waits for success.  The other two wait for
\* execution (wait_for_executed), which does not look at the outcome.
Transferred(t) ==
  /\ pc[t] = "transfer"
  /\ op[t].tx = "ok" \/ (op[t].tx = "failed" /\ op[t].fn # "start")
  /\ CASE op[t].fn = "start" -> /\ Return(t, "ok", op[t].seen)
                                /\ due' = due \ {"balances"}
       [] op[t].fn = "harvest" -> Goto(t, "record", Settled(t)) /\ UNCHANGED due
       [] op[t].fn = "close" -> Return(t, "ok", 0) /\ UNCHANGED due
  /\ UNCHANGED <<money, pool, steps>>

\* record_trade; the time of the harvest is only noted when it succeeds.
Record(t) ==
  /\ pc[t] = "record"
  /\ \/ Return(t, "ok", op[t].want) /\ due' = due \ {"trade"}
     \/ Faults /\ Return(t, "err", 0) /\ UNCHANGED due
  /\ UNCHANGED <<money, pool, steps>>

TxFailed(t) ==
  /\ pc[t] \in TxKind /\ op[t].tx = "failed"
  /\ pc[t] = "transfer" => op[t].fn = "start"
  /\ Fail(t)
  /\ UNCHANGED <<money, pool, due, steps>>

Mine(t) == {x \in pool : x.by = t}

\* Mutant: a wait never ends without an outcome.
MayGiveUpNever(t) == FALSE

\* A wait ends in an error after a polling error or MAX_ATTEMPTS polls.
MayGiveUp(t) == op[t].tx = "pending" /\ (Faults \/ Mine(t) = {})

TxTimeout(t) ==
  /\ pc[t] \in TxKind /\ MayGiveUp(t)
  /\ pool' = (pool \ Mine(t)) \cup {[x EXCEPT !.by = None] : x \in Mine(t)}
  /\ Fail(t)
  /\ UNCHANGED <<money, due, steps>>

\* A view fails, or a send does; a node may have the transaction all the same.
RpcError(t) ==
  /\ Faults
  /\ \/ pc[t] \in {"deposits", "wrapped", "reserve", "final", "again", "native", "balance"}
        /\ UNCHANGED pool
     \/ /\ pc[t] \in TxKind /\ op[t].tx = "none"
        /\ pool' \in {pool, pool \cup {[Tx(t) EXCEPT !.by = None]}}
  /\ Fail(t)
  /\ UNCHANGED <<money, due, steps>>

-----------------------------------------------------------------------------
(* The chain, the wallet's other transactions and the clock. *)

\* A transfer fails when the receiver does not exist, any transaction when
\* the balance does not cover it.  A deposit is an ft_transfer_call: when the
\* exchange does not take the tokens they are given back, and the transaction
\* is a success all the same.
Source(kind) ==
  CASE kind \in {"wrap", "transfer"} -> native
    [] kind \in {"deposit", "unwrap"} -> wrapped
    [] kind = "withdraw" -> deposited

Outcome(kind, amount) ==
  IF amount > Source(kind) THEN {"failed"}
  ELSE {"done"} \cup IF ~Faults THEN {}
                     ELSE IF kind = "transfer" THEN {"failed"}
                     ELSE IF kind = "deposit" THEN {"refunded"} ELSE {}

\* The exchange unwraps what is withdrawn (skip_unwrap_near: false), so that
\* it arrives as native NEAR.
Move(kind, amount) ==
  /\ native' = CASE kind \in {"unwrap", "withdraw"} -> native + amount
                 [] kind \in {"wrap", "transfer"} -> native - amount
                 [] OTHER -> native
  /\ wrapped' = CASE kind = "wrap" -> wrapped + amount
                  [] kind \in {"deposit", "unwrap"} -> wrapped - amount
                  [] OTHER -> wrapped
  /\ deposited' = CASE kind = "deposit" -> deposited + amount
                    [] kind = "withdraw" -> deposited - amount
                    [] OTHER -> deposited
  /\ harvested' = IF kind = "transfer" THEN harvested + amount ELSE harvested

\* The locals after transaction x, by x.by or by nobody who waits for it.
Informed(x, outcome) ==
  LET out(kinds) == IF outcome = "done" /\ x.kind \in kinds THEN x.amount ELSE 0
  IN  [t \in Task |->
         IF t = x.by
         THEN [op[t] EXCEPT !.tx = IF outcome = "failed" THEN "failed" ELSE "ok",
                            !.moved = @ + out({"transfer"}),
                            !.refunded = @ \/ outcome = "refunded"]
         ELSE IF pc[t] = "idle" THEN op[t]
         ELSE [op[t] EXCEPT !.fresh = FALSE, !.drain = @ + out({"wrap", "transfer"})]]

Execute ==
  \E x \in pool :
    \E outcome \in Outcome(x.kind, x.amount) :
      /\ IF outcome = "done" THEN Move(x.kind, x.amount) ELSE UNCHANGED money
      /\ op' = Informed(x, outcome)
      /\ pool' = {}
      /\ UNCHANGED <<due, pc, steps>>

\* A swap of another task, from or to wrapped NEAR.
WalletSwap ==
  /\ swaps < MaxSwaps
  /\ swaps' = swaps + 1
  /\ deposited' \in (0..MaxDeposited) \cap {deposited - 1, deposited + 1}
  /\ pool' = {}
  /\ op' = [t \in Task |-> [op[t] EXCEPT !.fresh = @ /\ pc[t] = "idle"]]
  /\ UNCHANGED <<native, wrapped, harvested, due, pc, calls>>

\* The interval of a harvest passes.
Tick ==
  /\ \E h \in {"balances", "trade"} \ due : due' = due \cup {h}
  /\ UNCHANGED <<money, pool, pc, op, steps>>

Step(t) ==
  \/ ReadDeposits(t) \/ ReadWrapped(t) \/ ReadNative(t) \/ ReadFinal(t) \/ ReadAgain(t)
  \/ HarvestNative(t) \/ HarvestShare(t) \/ ReadBalance(t)
  \/ Send(t) \/ Wrapped(t) \/ Deposited(t) \/ Withdrawn(t) \/ Unwrapped(t)
  \/ Transferred(t) \/ Record(t) \/ TxFailed(t) \/ TxTimeout(t) \/ RpcError(t)

Next == (\E t \in Task : Call(t) \/ Step(t)) \/ Execute \/ WalletSwap \/ Tick

Spec == Init /\ [][Next]_vars
FairSpec == Spec /\ (\A t \in Task : WF_vars(Step(t))) /\ WF_vars(Execute)

-----------------------------------------------------------------------------
(* Properties. *)

Labels == {"idle", "deposits", "wrapped", "reserve", "final", "again", "native",
           "share", "balance", "record"} \cup TxKind
OpRec ==
  [fn : {"start", "deposit", "harvest", "close"}, want : Nat, seen : Nat, short : Nat,
   base : Nat, plan : Nat, tx : {"none", "pending", "ok", "failed"}, value : Nat,
   result : {"none", "ok", "err"}, moved : Nat, fresh : BOOLEAN, drain : Nat,
   refunded : BOOLEAN]

\* Types: amounts stay natural numbers, in spite of the subtractions of
\* balances.rs and of the chain.
TypeOK ==
  /\ native \in Nat /\ wrapped \in Nat /\ deposited \in Nat /\ harvested \in Nat
  /\ pool \subseteq [kind : TxKind, amount : Nat, by : Task \cup {None}]
  /\ due \subseteq {"balances", "trade"}
  /\ pc \in [Task -> Labels]
  /\ op \in [Task -> OpRec]
  /\ calls \in Nat /\ swaps \in Nat

\* The chain executes the transaction of this kind that task t waits for.
Executes(t, kind) == pc[t] = kind /\ op[t].tx = "pending" /\ op'[t].tx = "ok"

\* The function that task t runs returns.
Returns(t) == pc[t] # "idle" /\ pc'[t] = "idle"

\* refill and deposit_wrap_near_to_ref read the native balance and wrap later.
\* Whatever executes in between, the wrap takes no NEAR of the reserve: what
\* the wallet is short of after it, other transactions took during the call.
WrapKeepsReserve ==
  [][\A t \in Task : Executes(t, "wrap") => native' + op[t].drain >= Reserve]_vars

\* In the same sense a harvest of the trade job and the final withdrawal leave
\* HARVEST_RESERVE_AMOUNT in the wallet.
TransferKeepsReserve ==
  [][\A t \in Task : Executes(t, "transfer") /\ op[t].fn # "start"
       => native' + op[t].drain >= KeptReserve(t)]_vars

\* A harvest of balances.rs computes the native balance from a read before
\* the withdrawal.  In the same sense it leaves the multiple of the required
\* balance in the wallet (which may be less than the reserve).
HarvestLeavesUpper ==
  [][\A t \in Task : Executes(t, "transfer") /\ op[t].fn = "start"
       => native' + op[t].drain >= Upper(t)]_vars

\* When start or deposit_wrap_near_to_ref returns Ok and nothing else happened
\* to the wallet, the deposit covers what was asked for, also after start has
\* harvested from it, or all that may be used is deposited.  The exception is
\* a deposit that the exchange gave back: wait_for_success takes it for a
\* success.  (The value that start returns after a harvest is the deposit
\* read before it, and so more than there is.)
OkMeansFunded ==
  [][\A t \in Task :
       /\ Returns(t) /\ op'[t].result = "ok" /\ op[t].fresh
       /\ op[t].fn \in {"start", "deposit"} /\ ~op[t].refunded
       => deposited' >= op[t].want \/ (wrapped' = 0 /\ native' <= Reserve)]_vars

\* Every call returns: a wait for a transaction that another one has overtaken
\* ends, and so does every sequence of views and transactions.
CallsReturn == \A t \in Task : pc[t] # "idle" ~> pc[t] = "idle"

\* check_and_execute_harvest returns the amount it really harvested.
HarvestReturnsSent ==
  [][\A t \in Task :
       Returns(t) /\ op[t].fn = "harvest" /\ op'[t].result = "ok"
       => op'[t].value = op[t].moved]_vars

\* The doc of unwrap_and_transfer_wnear: the wrapped NEAR of the exchange is
\* withdrawn, unwrapped and sent to the harvest account.  Without faults and
\* other tasks none of the three steps fails once there is something to
\* withdraw.
CloseSucceeds ==
  [][\A t \in Task :
       Returns(t) /\ op[t].fn = "close" /\ op[t].seen > 0 /\ op[t].fresh
       => op'[t].result = "ok"]_vars
=============================================================================
