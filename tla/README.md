# TLA+ models of zaciraci

zaciraci is a Rust program that trades on the REF exchange of the NEAR chain.
One process runs a set of cron jobs and an arbitrage loop as tasks that share
one wallet; a web service reads and changes its configuration. This directory
holds TLA+ models of it, the TLC runs that check them on small instances, and
TLAPS proofs for all instances. `PROJECT.json` lists the parts, the runs, the
source lines of every definition, the hazards and the theorems.

## The system and its parts

| Part | Crates | Models |
|---|---|---|
| REF storage setup: registers tokens and tops up the storage deposit | `blockchain` (`ref_finance/storage*`) | `StoragePlanner`, `RefContract` (external), `RefStorage` |
| Signing, sending and awaiting transactions | `blockchain` (`jsonrpc/near_client.rs`, `sent_tx.rs`) | `TxPool` (abstract), `TxClient` |
| RPC retries over a pool of endpoints | `blockchain` (`jsonrpc/rpc.rs`, `endpoint_pool.rs`) | `RpcClient` |
| Matching of sells and buys of a rebalance | `trade` (`execution/matching.rs`) | `Matching` |
| The wallet's NEAR: refill before a swap, harvest of profits, final withdrawal | `blockchain` (`ref_finance/balances.rs`, `deposit.rs`), `trade` (`harvest.rs`, `execution.rs`) | `Funds` |
| The trade job and its evaluation periods | `trade` (`strategy.rs`, `execution.rs`, `swap.rs`, `recorder.rs`, `lib.rs`), `persistence` (`evaluation_period.rs`) | `TradeCycle` |

How they interact: the cron jobs of `trade` and the loop of `arbitrage` call
`ensure_ref_storage_setup` before they swap. The setup sends transactions
through the client, whose requests go through the retrying RPC layer.
`RefStorage` therefore uses the abstract pool of transactions of `TxPool`, and
`TxClient` is shown to implement that pool. A trade job funds an evaluation
period from the wallet, trades with it, and sells and harvests at its end;
`TradeCycle` takes each function of `Funds` as one step.

## Modules

**StoragePlanner** is the pure function `plan` of `storage/planner.rs`: cost per
token with a safety margin and rounding up, tokens to register, tokens that may
be unregistered, estimated need, and its errors. `u128` arithmetic is bounded by
the constant `U128Max`.

**RefContract** is external: what the exchange does with `storage_deposit`,
`register_tokens` and `unregister_tokens`, as far as the code relies on it. Tokens
do not all cost the same: those an account still holds in the older form
(`legacy`) take less storage than one that is registered today.

**RefStorage** is `ensure_ref_storage_setup`. A caller's `pc` is its position in
the function; each view, each transaction and each wait is one action, and every
early return is a disjunct. `lock` is the mutex per account and process, `pool`
the transactions that may still execute, `acct` the account on the exchange and
`replica` the same account on a node that lags. Views fail, sends fail with or
without the node having the transaction, a wait ends in success, failure or
timeout, and an abandoned transaction may execute later or never. `WalletSwap`
and `WalletDeposit` are the wallet's other transactions: they change token
balances and, by using up a nonce, kill pending ones. Two history fields record
what earlier calls left behind in the pool when a call takes the lock: `clean`
(nothing) and `doomed` (the tokens that a late unregister names).

**TxPool** is the promise of the client: a task has at most one transaction it
waits for, of all transactions that may still execute one does, and a success
is reported only for a transaction that executed.

**TxClient** is the client: it reads the access key's nonce and a block at
finality `Final`, signs nonce + 1, broadcasts, and then polls until the outcome is
final (`wait_for_success`) or asks once for an executed transaction
(`wait_for_executed`). `chain` is the sequence of executed transactions, `final` its finalized
prefix; a lagging endpoint answers with any prefix.

**RpcClient** is the loop `call`: an endpoint is chosen by weight among those
that are not marked failed, a request is answered, retried on the same endpoint
or moved to another one. Marks are shared by all tasks; they expire, and are
cleared together when no endpoint is left. The retry counter is a `u16`.

**Matching** is the two-pointer loop that pairs sells and buys. Its reference
lays the sells and the buys side by side on a line: the value swapped directly
between a sell and a buy is the length of the overlap of their intervals.

**Funds** is the wallet's money: `native`, `wrapped` and `deposited` NEAR and
what the harvest account received. Four functions move it: `start` of
`balances.rs` with `refill` and `harvest`, `deposit_wrap_near_to_ref`,
`check_and_execute_harvest` and `unwrap_and_transfer_wnear`. Every view and
every transaction is a step, and the transactions behave as in `TxPool`. A
withdrawal arrives as native NEAR, because the code asks the exchange to unwrap
(`deposit.rs:220`). A deposit may be given back by the exchange while its
transaction succeeds. The history fields of a call record what the properties
speak about: what its transfers brought to the harvest account (`moved`), the native NEAR that
other transactions took meanwhile (`drain`), whether any executed (`fresh`), and
whether its deposit was given back (`refunded`). Gas and the
attached yoctoNEAR are ignored, and so is the panic of `balances::harvest` when
no harvest account is configured.

**TradeCycle** is the trade job over days. `period` is the latest row of the
evaluation periods with its tokens and transactions, `pc` and `job` are where
`strategy::start` (or `manage_evaluation_period`, or the liquidation) is and its
locals, `exchange` is the value of each token there. Every call to the database
or the exchange is an action. `CallFails` is the `?` of such a call, `Restart`
a restart between any two of them; errors that the code only logs are disjuncts
of their action. `balances::start` is used by `prepare_funds` and by every swap
from wrapped NEAR; `Started` is the set of its possible results: a refill of at
least what is missing, or a harvest of what exceeds a multiple of the amount.
`Market` changes the value of what is held. `faulty` ends at
some time, after which calls succeed and the configuration stays; before that
anything may fail any number of times. The fields `funded`, `swapped`, `unsaved`,
`unrecorded` and `strayed` are history: the code has no such state, the
properties speak about it.

Definitions that start with *Mutant* in their comment are wrong variants of the
definition that follows. They are not used by any specification; they exist to
show that a property notices the mistake (`PROJECT.json`, `mutants`).

## Runs

| Run | Properties | What it shows |
|---|---|---|
| `storage_one_process` | `TypeOK`, `StorageSpendWithinRetryBudget`, `NormalRegisterAccepted`, `TopUpNeverDoubled`, `ProtectedTokensStay`, `OkMeansRegistered` | Two tasks of one process call ensure_ref_storage_setup concurrently while views fail, transactions are lost or executed late and other transactions of the wallet overtake them: caps, registration and the tokens to keep are respected, and a register_tokens that was topped up is refused only where the estimate is too low because some tokens are stored in the cheaper older form. |
| `storage_stale_views` | `CallSpendWithinCap`, `StorageSpendWithinRetryBudget`, `CallsReturn` | Views answered by a lagging RPC node, from before the account existed on, cannot make a call or a sequence of calls spend more than its caps, and every call returns and leaves the mutex unlocked, whatever fails. |
| `storage_fresh_account` | `RejectionRecovered` | **Violated.** On a fresh account the initial deposit covers only the account itself: register_tokens is rejected in this and in every later call, contrary to the Retry Contract. |
| `tx_client` | `TypeOK`, `LiveShareNextNonce`, `TaskOrder`, `ImplementsPool`, `SendsReturn` | Two tasks sign with one access key while calls fail, endpoints lag behind each other and transactions are dropped or included late: at most one of the transactions with the next nonce executes, a task's transactions execute in order, every wait ends, and the client implements TxPool. |
| `tx_nonce_after_final` | `FreshNonceAfterFinal` | **Violated.** A task that waited until its transaction was final may still sign the next one with the same nonce, when the endpoint that answers for the access key lags behind the one that showed the outcome. |
| `rpc_client` | `TypeOK`, `AttemptsWithinLimit`, `LimitMeansExhausted`, `FailoverSucceeds`, `CallsReturn` | Two tasks call through a shared pool of three endpoints, with the largest retry limit that the counter can exceed. Whatever they answer, the retry limit covers all endpoints together and every call returns; and when two never answer while the one without weight does, no call fails. |
| `matching` | `TypeOK`, `OperationsConserved`, `MatchesReference`, `Terminates` | For up to three sells and two buys of all small values, zero included, and every order of equal values, the two-pointer loop computes the overlaps of the reference and conserves each operation. |
| `trade_cycle` | `TypeOK`, `TradesFunded`, `NoReinvestment`, `HarvestLeavesDouble`, `InitialValueRefreshed` | Daily cycles over evaluation periods with an error or a restart at every step, and with the refills and harvests of balances::start inside prepare_funds and the swaps: a period trades only with money set aside for it, is not funded twice unless two different database writes were lost, and harvests at its end leave twice its initial value. |
| `trade_cycle_recovers` | `TradingResumes`, `LeftoversSold`, `StopLiquidates` | Once faults end, trading resumes by itself from every state, tokens that could not be sold are sold later, and switching trading off ends without tokens. |
| `funds` | `TypeOK`, `WrapKeepsReserve`, `TransferKeepsReserve`, `HarvestLeavesUpper`, `OkMeansFunded`, `CallsReturn` | Two tasks move NEAR between wallet and exchange while calls fail, deposits are given back and transactions are late: what a wrap or a transfer leaves is short of the reserve only by what other transactions took meanwhile, an Ok means that the deposit is there, and every call returns. |
| `funds_harvest_returned` | `HarvestReturnsSent` | **Violated.** A harvest that is cut down or skipped to keep the reserve is reported in full. |
| `funds_close` | `CloseSucceeds` | **Violated.** The withdrawal of unwrap_and_transfer_wnear asks the exchange to unwrap, so that the unwrap which follows it finds too little wrapped NEAR and fails, with no fault and no other task. |

### Bounds

* *Storage*: two callers, three tokens (wrapped NEAR, one to keep, one to
  drop), two caps of which one exceeds the ceiling, `ChunkSize` 1 so that two
  unregistrations take two transactions, two calls in total. The callers are
  interchangeable (symmetry) where the run has no liveness property. Two calls are what a
  retry after a timeout or a conflict between two tasks takes. The account
  costs 12, a token 15 and one of the older form 8; there is one of those at the
  start, and slack of 0 or 3, so that estimates are exact, too high and too low.
  The run with stale views uses two tokens.
* *Client*: two tasks, two sends and two polls per wait, with endpoints that lag
  behind each other.
* *RPC*: two tasks, three endpoints of different weights and retry counts, a
  limit of three requests beyond the first. `U16Max` is 4: the limit is the
  largest one that the counter can exceed. The network is either one whose endpoints
  answer as they like, or one in which two never answer and the third does.
* *Matching*: all multisets of up to three sells and two buys of value 0 to 3.
* *Funds*: two tasks, two calls, required amounts 1 and 3 against a wallet of a
  few NEAR and reserves of 1 and 2, so that every comparison (shortage against wrapped,
  native against reserve, deposit against the upper bound) goes both ways, and
  one swap of another task (`MaxSwaps`). The two runs that are violated have one
  task and no faults.
* *Trading cycle*: two interchangeable tokens (the safety run uses symmetry), a
  target of 1 and a market that can take all money to 4, four times the initial
  value, so that a period is harvested and the rest remains. `Multiplier` is 2, or
  1 in the liveness run with its total of 2, so that a swap also harvests. A period lasts one
  day in the safety run. In the liveness run it lasts two: with one day a cycle
  hardly ever meets a running period, and a period renewed with a zero balance ends
  before it could be funded. Ages count half days and stop at `OldAge`.

Runs whose number of calls is bounded end when the calls are used up, and
`Matching` ends with its result; these runs do not check for deadlock.
`rpc_client` and the two runs of `TradeCycle` do: there is always a next call or
a next day.

### Fairness

`RefStorage`: a caller that can take a step eventually does (the tokio runtime
polls every ready task), and the chain executes one of the pending transactions.
The mutex is strongly fair: tokio's `Mutex` queues its waiters in order. No
fairness is assumed for a transaction to succeed; a wait ends because the
number of polls is limited. `TxClient`: each task's own steps, not the chain's
(a node answers `wait_for_executed` in bounded time, if only with an error).
`RpcClient`: each call's steps; which endpoint is chosen and what it answers is
not fair. `Matching`: the loop runs.
`Funds`: each task's steps, and the chain executes one of the pending
transactions. `TradeCycle`: the job takes its next step, its list of trades ends
(`Finish`), and time passes. The claims about recovery are made for behaviours
in which faults end; then a job also finishes before its next time comes.

## Proofs

All theorems hold for any values of the constants that satisfy the named
assumptions of the modules.

* `RefStorageProofs`: `TypeCorrect` (`[]TypeOK`) and `SpendWithinCap`
  (`[]CallSpendWithinCap`). `TypeOK` is inductive; its content is that no amount
  becomes negative, in spite of the subtractions of the planner and of the
  contract. The cap is not inductive: `SpendAccounting` adds what each
  position in the function has spent so far (nothing before the initial deposit,
  at most the initial deposit before the top-up, and a planned top-up that fits
  in the rest of the cap), which no view and no other task can disturb.
* `TxClientProofs`: `NextNonceShared` and the refinement `ClientImplementsPool`.
  `NonceInv` says that the nonces on the chain count up by one, and that a
  signed transaction's nonce is at most the next one. A live transaction then
  has exactly the next nonce, so executing one ends the others.
* `RpcClientProofs`: `AttemptsBounded` and `ExhaustedAtLimit`, for
  `RetryLimit < U16Max`. `RetryBudget` relates the history `attempts` to the
  counter. At `RetryLimit = U16Max` the counter wraps before it exceeds the
  limit, and the bound does not hold.
* `MatchingProofs`: `MatchingConserves`. The invariant adds to the conservation
  itself where the two pointers are, and that the rest of the current operation
  is part of its value.
* `TradeCycleProofs`: `CycleTypeCorrect`, `FundedBeforeTrading`, `InvestedOnce`
  and `HarvestKeepsDouble`. `TypeInv` adds to the types that a harvest is computed
  from a balance that is still on the exchange; without it the subtraction could
  go below zero. `StartedType` says the same of the refills and harvests of
  `balances::start`. `FundInv` relates what the database says of a period to what was
  done in it: saved tokens imply that money was set aside, an executed trade left
  a trace in the tokens and in the transactions or the write was lost, and a cycle
  that is about to fund a period has seen neither.

Only model-checked: liveness (`CallsReturn`, `SendsReturn`, `Terminates`,
`TradingResumes`, `LeftoversSold`, `StopLiquidates`), which the prover does not
reach; the sum over all calls in `StorageSpendWithinRetryBudget`; the reference
of the matching (a recursive sum); the properties of `RefStorage` that depend on
the mutex; and all of `Funds`.

## What the models show about the code

* **Fresh account** (`storage_fresh_account`, violated). For an account that is
  not registered, the code deposits exactly `bounds.min`, which pays for the
  account and no token; for an account without tokens the planner returns
  `InitialRegister`, which does not top up. `register_tokens` is then rejected
  in this and in every later call, while the comment at `storage.rs:224` says
  the next cycle recovers.
* **Nonce after finality** (`tx_nonce_after_final`, violated). The comment at
  `sent_tx.rs:88` says that waiting for `Final` prevents nonce conflicts. It does
  when all endpoints are at the same height. When the key is read from an endpoint
  that lags behind the one that showed the outcome, the task signs a used nonce;
  the transaction then never executes and its wait ends in a timeout. The order
  of a task's transactions is kept all the same (`TaskOrder`).
* **Harvested amount** (`funds_harvest_returned`, violated). A harvest that was
  reduced or skipped is reported as the planned amount.
* **Final withdrawal** (`funds_close`, violated). The exchange is asked to unwrap
  what is withdrawn, and the unwrap of the same amount that follows
  (`execution.rs:1374`) finds too little wrapped NEAR: the function fails with the
  money as native NEAR in the wallet. The harvest of a period has the same
  sequence.

Observations that are visible in the models and have no run of their own:

* `register_tokens` may be refused although the plan topped up: when tokens of
  the older form lower the average, or have just been unregistered, the estimate
  (`storage.rs:525-533`, `planner.rs:11-14`) is less than the tokens cost.
  `NormalRegisterAccepted` says that nothing else leads to a refusal.
* A token that a call needs can disappear when an unregister which an earlier
  call gave up on executes late. `ProtectedTokensStay` says that only tokens of
  such a transaction do, and `OkMeansRegistered` speaks of calls that found none.
* `wait_for_success` takes a deposit that the exchange gave back for a success;
  `OkMeansFunded` excludes these calls. After a harvest `start` returns the
  deposit read before it (`balances.rs:132`), which is more than there is; what
  was asked for is there.
* A wrap, or a transfer to the harvest account, uses a balance read some steps
  before. `WrapKeepsReserve`, `TransferKeepsReserve` and `HarvestLeavesUpper` say
  that what the wallet lacks afterwards was taken by other transactions since the
  call began. They do not say that the reserve is there.
* The harvest of `balances.rs` compares with a multiple of the balance that the
  current call requires (`balances.rs:365`), not with the reserve of the account; the same harvest runs inside
  a swap, so that a small swap can send away what a later one needs.
* A harvest that fails after it moved money counts as zero
  (`execution.rs:986`), so the new period starts with the balance from before.
  `InitialValueRefreshed` excludes this case by the history field `strayed`.
* The first period has the initial value 0 and therefore never harvests.
* When the write of the tokens and the record of a trade are both lost, a period
  is funded a second time; `NoReinvestment` says that nothing less does it.

## Not modelled, and the plan

Left out for good: floating-point optimisation and statistics (outside TLC),
log output, SQL text, the protocol buffers, command line parsing.

Planned, in this order:

1. Rebalance execution with partial failure, and the holdings snapshot.
2. Key cache and user cache of the authentication; configuration store.
3. The other cron jobs, token cache, retention of records.
4. Path search and pool estimates as operators against references.
5. Proofs: the mutex of the storage setup, tokens to keep, `Funds`, the models
   above.
