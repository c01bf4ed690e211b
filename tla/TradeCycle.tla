----------------------------- MODULE TradeCycle -----------------------------
(***************************************************************************)
(* The trade job of crates/trade: strategy::start with                     *)
(* manage_evaluation_period and liquidate_all_positions of execution.rs.   *)
(* A cycle reads the latest evaluation period from the database.  When it  *)
(* is over, all tokens are sold, a profit is harvested and a new period is *)
(* inserted; a period in which nothing was done yet is funded and gets its *)
(* tokens; then the cycle trades.                                          *)
(*                                                                         *)
(* Each call to the database, the exchange or the wallet is a step that    *)
(* may fail, and the process may be restarted between any two.  Amounts    *)
(* are values in NEAR.  How money moves between wallet and exchange is     *)
(* the subject of Funds; here each of its functions is one step with its   *)
(* possible results.                                                       *)
(***************************************************************************)
EXTENDS Naturals, Functions

CONSTANTS
  Token,          \* tokens that are traded
  Wnear,          \* wrapped NEAR
  Days,           \* TRADE_EVALUATION_DAYS
  Target,         \* TRADE_INITIAL_INVESTMENT
  Share,          \* 10: the harvested part of a profit is 1/Share
  Multiplier,     \* HARVEST_BALANCE_MULTIPLIER
  MinHarvest,     \* HARVEST_MIN_AMOUNT
  UnwrapOnStop,   \* TRADE_UNWRAP_ON_STOP
  Wallets,        \* NEAR of the wallet above its reserve at the start
  MaxValue        \* bound on all money together, for the market's changes,
                  \* and on the amount of a swap

ASSUME TradeCycleAssumption ==
  /\ Wnear \notin Token
  /\ Days \in Nat \ {0} /\ Target \in Nat \ {0} /\ Share \in Nat \ {0}
  /\ Multiplier \in Nat \ {0}
  /\ MinHarvest \in Nat \ {0} /\ UnwrapOnStop \in BOOLEAN
  /\ Wallets \subseteq Nat /\ MaxValue \in Nat

VARIABLES
  wallet,    \* NEAR of the wallet above its reserve, native or wrapped
  exchange,  \* value of each token deposited on the exchange
  period,    \* the latest evaluation period in the database
  enabled,   \* TRADE_ENABLED
  due,       \* the interval since the last harvest has passed
  half,      \* second half of the day
  tick,      \* the time of the cron schedule has come
  faulty,    \* faults, restarts and changes of the configuration happen
  pc,        \* where the job is
  job        \* its locals

money == <<wallet, exchange>>
env == <<enabled, due, half, tick, faulty>>
vars == <<wallet, exchange, period, enabled, due, half, tick, faulty, pc, job>>

Asset == Token \cup {Wnear}
Least(a, b) == IF a < b THEN a ELSE b

\* Bound on the age of a period in half days; older ones are treated alike.
OldAge == 2 * Days + 2

\* tokens: selected_tokens is set; traded: it has trade_transactions.
\* funded, swapped, unsaved, unrecorded are history: its money was set aside,
\* a trade executed, and the selected tokens or an executed trade could not
\* be written to the database.
NewPeriod(initial) ==
  [exists |-> TRUE, age |-> 0, initial |-> initial, tokens |-> FALSE, traded |-> FALSE,
   funded |-> FALSE, swapped |-> FALSE, unsaved |-> FALSE, unrecorded |-> FALSE]

\* enabled: trade_enabled as start read it; age: of the period at current_time;
\* stop: the liquidation is the last thing the cycle does; todo: tokens to
\* sell; balance: the balance it goes on with; known: liquidated_balance is
\* Some.  strayed is history: a harvest moved money and then failed.
NewJob(on, age) ==
  [enabled |-> on, age |-> age, stop |-> FALSE, isNew |-> FALSE,
   known |-> FALSE, todo |-> {}, balance |-> 0, strayed |-> FALSE]

Init ==
  /\ wallet \in Wallets
  /\ exchange = [a \in Asset |-> 0]
  /\ period = [NewPeriod(0) EXCEPT !.exists = FALSE]
  /\ enabled \in BOOLEAN
  /\ due = TRUE /\ half = FALSE /\ tick = FALSE /\ faulty = TRUE
  /\ pc = "idle"
  /\ job = NewJob(FALSE, 0)

Goto(label, locals) == pc' = label /\ job' = locals

\* The function returns; the locals no longer matter.
Return == Goto("idle", NewJob(FALSE, 0))

-----------------------------------------------------------------------------
(* The cycle starts and looks at the latest period. *)

\* A failing prediction phase skips the cycle.
Begin ==
  /\ pc = "idle" /\ tick
  /\ tick' = FALSE
  /\ \/ Goto("period", NewJob(enabled, period.age))
     \/ faulty /\ UNCHANGED <<pc, job>>
  /\ UNCHANGED <<money, period, enabled, due, half, faulty>>

\* period_duration.num_days() >= evaluation_period_days
Ended == job.age \div 2 >= Days

ReadPeriod ==
  /\ pc = "period"
  /\ \/ ~period.exists /\ Goto("first", job)
     \/ period.exists /\ Ended /\ Goto("liquidate", job)
     \/ period.exists /\ ~Ended /\ Goto("count", job)
  /\ UNCHANGED <<money, period, env>>

\* Mutant: the first period is inserted with its tokens.
InsertFirstSelected ==
  /\ pc = "first"
  /\ period' = [NewPeriod(0) EXCEPT !.tokens = TRUE]
  /\ Goto("decide", [job EXCEPT !.isNew = TRUE])
  /\ UNCHANGED <<money, env>>

\* Without any period the first one is inserted, with available_funds zero.
InsertFirst ==
  /\ pc = "first"
  /\ period' = NewPeriod(0)
  /\ Goto("decide", [job EXCEPT !.isNew = TRUE])
  /\ UNCHANGED <<money, env>>

\* Mutant: a period is new while it has no tokens.
CountTokensOnly ==
  /\ pc = "count"
  /\ Goto("decide", [job EXCEPT !.isNew = ~period.tokens])
  /\ UNCHANGED <<money, period, env>>

\* Mutant: a period that was inserted before is never new.
CountNeverNew ==
  /\ pc = "count"
  /\ Goto("decide", [job EXCEPT !.isNew = FALSE])
  /\ UNCHANGED <<money, period, env>>

\* A period is treated as new while it has neither tokens nor transactions.
Count ==
  /\ pc = "count"
  /\ Goto("decide", [job EXCEPT !.isNew = ~period.tokens /\ ~period.traded])
  /\ UNCHANGED <<money, period, env>>

-----------------------------------------------------------------------------
(* liquidate_all_positions. *)

\* Mutant: only a period with saved tokens is liquidated.
ToLiquidateSelected == {t \in Token : exchange[t] > 0 /\ period.tokens}

\* filter_tokens_to_liquidate
ToLiquidate == {t \in Token : exchange[t] > 0}

Liquidate ==
  /\ pc = "liquidate"
  /\ Goto("sell", [job EXCEPT !.todo = ToLiquidate])
  /\ UNCHANGED <<money, period, env>>

\* What is held after amount has changed from one token to another.
Swapped(held, from, to, amount) ==
  [held EXCEPT ![from] = @ - amount, ![to] = @ + amount]
Swap(from, to, amount) == exchange' = Swapped(exchange, from, to, amount)

\* What an executed swap leaves in the database: a record that fails, or a
\* restart before it, makes it an unrecorded one.
Recorded(p) == [p EXCEPT !.traded = TRUE]
Unrecorded(p) == [p EXCEPT !.unrecorded = TRUE]

\* One token: sold and recorded, sold, or not sold.  The loop goes on after
\* an error.
Sell ==
  /\ pc = "sell"
  /\ \E t \in job.todo :
       /\ \/ Swap(t, Wnear, exchange[t]) /\ period' = Recorded(period)
          \/ faulty /\ Swap(t, Wnear, exchange[t]) /\ period' = Unrecorded(period)
          \/ faulty /\ UNCHANGED <<exchange, period>>
       /\ Goto("sell", [job EXCEPT !.todo = @ \ {t}])
  /\ UNCHANGED <<wallet, env>>

Liquidated ==
  /\ pc = "sell" /\ job.todo = {}
  /\ IF job.stop THEN Return ELSE Goto("harvest", [job EXCEPT !.balance = exchange[Wnear]])
  /\ UNCHANGED <<money, period, env>>

-----------------------------------------------------------------------------
(* The end of a period. *)

\* Mutant: the profit is counted from the initial value.
HarvestAmountSingle ==
  IF period.initial = 0 \/ job.balance < period.initial THEN 0
  ELSE (job.balance - period.initial) \div Share

\* check_and_execute_harvest: a share of what exceeds twice the initial value.
HarvestAmount ==
  IF period.initial = 0 \/ job.balance < 2 * period.initial THEN 0
  ELSE (job.balance - 2 * period.initial) \div Share

\* The harvest's results: amount left the exchange, and sent the wallet for
\* the harvest account, which is not part of the state.
Harvested(amount, sent) ==
  /\ exchange' = [exchange EXCEPT ![Wnear] = @ - amount]
  /\ wallet' = wallet + (amount - sent)

\* A harvest that is reduced or skipped to keep the reserve counts as done.
Harvest ==
  /\ pc = "harvest"
  /\ LET amount == HarvestAmount
     IN  \/ /\ ~due \/ amount < MinHarvest
            /\ Goto("renew", job) /\ UNCHANGED <<money, due>>
         \/ /\ due /\ amount >= MinHarvest
            /\ \E sent \in 0..amount : Harvested(amount, sent)
            /\ due' = FALSE
            /\ Goto("refresh", job)
  /\ UNCHANGED <<period, enabled, half, tick, faulty>>

\* An error of the harvest counts as nothing harvested; the withdrawal, and
\* the transfer, may be done.
HarvestFails ==
  /\ pc = "harvest" /\ faulty /\ due /\ HarvestAmount >= MinHarvest
  /\ \/ UNCHANGED money /\ Goto("renew", job)
     \/ /\ \E sent \in {0, HarvestAmount} : Harvested(HarvestAmount, sent)
        /\ Goto("renew", [job EXCEPT !.strayed = TRUE])
  /\ UNCHANGED <<period, env>>

\* Mutant: the balance from before the harvest is used.
RefreshNot ==
  /\ pc = "refresh"
  /\ Goto("renew", job)
  /\ UNCHANGED <<money, period, env>>

Refresh ==
  /\ pc = "refresh"
  /\ Goto("renew", [job EXCEPT !.balance = exchange[Wnear]])
  /\ UNCHANGED <<money, period, env>>

\* Trading is switched off: the wrapped NEAR is sent away if the
\* configuration says so.  An error on the way is only logged.
Close ==
  /\ pc = "renew" /\ ~enabled
  /\ \/ \E sent \in {0, exchange[Wnear]} : UnwrapOnStop /\ Harvested(exchange[Wnear], sent)
     \/ (UnwrapOnStop => faulty) /\ UNCHANGED money
  /\ Return
  /\ UNCHANGED <<period, env>>

Renew ==
  /\ pc = "renew" /\ enabled
  /\ period' = NewPeriod(job.balance)
  /\ Goto("decide", [job EXCEPT !.isNew = TRUE, !.known = TRUE])
  /\ UNCHANGED <<money, env>>

-----------------------------------------------------------------------------
(* start: funds, tokens, storage, deposit, trades. *)

Decide ==
  /\ pc = "decide"
  /\ \/ /\ \/ ~job.enabled /\ job.isNew /\ Return
           \/ ~job.enabled /\ ~job.isNew /\ Goto("liquidate", [job EXCEPT !.stop = TRUE])
           \/ job.enabled /\ ~job.isNew /\ Goto("select", job)
           \/ job.enabled /\ job.isNew /\ ~job.known /\ Goto("funds", job)
           \/ job.enabled /\ job.isNew /\ job.known /\ job.balance = 0 /\ Return
        /\ UNCHANGED period
     \/ /\ job.enabled /\ job.isNew /\ job.known /\ job.balance > 0 /\ Goto("select", job)
        /\ period' = [period EXCEPT !.funded = TRUE]
  /\ UNCHANGED <<money, env>>

\* NEAR that the wallet puts on the exchange.
Move(amount) ==
  /\ wallet' = wallet - amount
  /\ exchange' = [exchange EXCEPT ![Wnear] = @ + amount]

\* What is missing on the exchange, as far as the wallet has it.
Missing(want) == IF exchange[Wnear] < want THEN Least(want - exchange[Wnear], wallet) ELSE 0

\* What arrives at least: the exchange may give a deposit back.
Arriving(want) == IF faulty THEN 0 ELSE Missing(want)

\* balances::start is described by the set of its possible results: the
\* wallet and the wrapped NEAR of the exchange after it, and the balance that
\* it returns.
AsIs == [wallet |-> wallet, wnear |-> exchange[Wnear], value |-> exchange[Wnear]]

\* refill deposits what is missing, or more: all NEAR that is wrapped.
Refilled(want) ==
  {[wallet |-> wallet - m, wnear |-> exchange[Wnear] + m, value |-> exchange[Wnear] + m] :
     m \in Arriving(want)..wallet}

Surplus(want) ==
  IF want * Multiplier < exchange[Wnear] THEN exchange[Wnear] - want * Multiplier ELSE 0

\* harvest withdraws the surplus or not, depending on its own interval and on
\* the reserve, and any part of the wallet's NEAR goes away.  Its errors are
\* only logged, and start returns the balance read before it.
Skimmed(want) ==
  UNION {{[wallet |-> kept, wnear |-> exchange[Wnear] - back, value |-> exchange[Wnear]] :
            kept \in 0..(wallet + back)} : back \in {0, Surplus(want)}}

Started(want) ==
  IF exchange[Wnear] < want THEN Refilled(want)
  ELSE IF Surplus(want) = 0 THEN {AsIs}
  ELSE Skimmed(want)

\* The result s of balances::start takes effect.
Take(s) ==
  /\ wallet' = s.wallet
  /\ exchange' = [exchange EXCEPT ![Wnear] = s.wnear]

\* prepare_funds: an error without any balance.
PrepareFunds ==
  /\ pc = "funds"
  /\ \E s \in Started(Target) :
       /\ Take(s)
       /\ \/ s.value = 0 /\ Return /\ UNCHANGED period
          \/ /\ s.value > 0 /\ Goto("select", [job EXCEPT !.balance = Least(s.value, Target)])
             /\ period' = [period EXCEPT !.funded = TRUE]
  /\ UNCHANGED env

\* select_top_volatility_tokens may find none, and an error of
\* update_selected_tokens is only logged.  Within a period its tokens are used.
Select ==
  /\ pc = "select"
  /\ \/ ~job.isNew /\ period.tokens /\ Goto("storage", job) /\ UNCHANGED period
     \/ ~job.isNew /\ ~period.tokens /\ Return /\ UNCHANGED period
     \/ job.isNew /\ Goto("storage", job) /\ period' = [period EXCEPT !.tokens = TRUE]
     \/ job.isNew /\ faulty /\ Goto("storage", job) /\ period' = [period EXCEPT !.unsaved = TRUE]
     \/ job.isNew /\ faulty /\ Return /\ UNCHANGED period
  /\ UNCHANGED <<money, env>>

\* ensure_ref_storage_setup; the deposit is made for a new period only.
Storage ==
  /\ pc = "storage"
  /\ Goto(IF job.isNew THEN "deposit" ELSE "plan", job)
  /\ UNCHANGED <<money, period, env>>

\* deposit_wrap_near_to_ref fails when nothing is wrapped or can be.
Deposit ==
  /\ pc = "deposit"
  /\ \E m \in Arriving(job.balance)..Missing(job.balance) : Move(m)
  /\ IF exchange[Wnear] < job.balance /\ wallet = 0 THEN Return ELSE Goto("plan", job)
  /\ UNCHANGED <<period, env>>

\* execute_portfolio_strategy and precompute_add_position_amounts.
Plan ==
  /\ pc = "plan"
  /\ Goto("trade", job)
  /\ UNCHANGED <<money, period, env>>

\* execute_direct_swap asks balances::start for the wrapped NEAR that it
\* swaps; of other tokens it takes what is there.
Supplied(from, amount) == IF from = Wnear THEN Started(amount) ELSE {AsIs}

\* Mutant: the amount is not limited by the balance.
SwapAmountAsked(asked, balance) == asked

SwapAmount(asked, balance) == Least(asked, balance)

\* execute_trading_actions: swaps, each of them recorded or not.
Trade ==
  /\ pc = "trade"
  /\ \E from, to \in Asset, amount \in 1..MaxValue :
       \E s \in Supplied(from, amount) :
         LET held == [exchange EXCEPT ![Wnear] = s.wnear]
         IN  /\ from # to /\ held[from] > 0
             /\ exchange' = Swapped(held, from, to, SwapAmount(amount, held[from]))
             /\ wallet' = s.wallet
  /\ \/ period' = [Recorded(period) EXCEPT !.swapped = TRUE]
     \/ faulty /\ period' = [Unrecorded(period) EXCEPT !.swapped = TRUE]
  /\ UNCHANGED <<env, pc, job>>

\* A swap fails, after balances::start.  Some swaps fail without any fault:
\* there is no path, or the price has changed.
TradeFails ==
  /\ pc = "trade"
  /\ \E amount \in 1..MaxValue : \E s \in Started(amount) : Take(s)
  /\ UNCHANGED <<period, env, pc, job>>

\* The holdings are recorded; an error of that is only logged.
Finish ==
  /\ pc = "trade"
  /\ Return
  /\ UNCHANGED <<money, period, env>>

\* An error (?) of a call ends the cycle; money may have reached the exchange.
CallFails ==
  /\ faulty /\ pc \notin {"idle", "decide", "harvest", "trade"}
  /\ pc = "renew" => enabled
  /\ \/ UNCHANGED money
     \/ pc = "funds" /\ exchange[Wnear] < Target /\ \E s \in Started(Target) : Take(s)
     \/ pc = "deposit" /\ \E m \in 0..Missing(job.balance) : Move(m)
  /\ Return
  /\ UNCHANGED <<period, env>>

\* A restart forgets the time of the last harvest.
Restart ==
  /\ faulty
  /\ due' = TRUE /\ tick' = FALSE
  /\ Return
  /\ UNCHANGED <<money, period, enabled, half, faulty>>

-----------------------------------------------------------------------------
(* Time, market and configuration. *)

\* Half a day passes.  The schedule's time comes at the beginning of a day; a
\* job that still runs misses it, which also counts as a fault.
HalfDay ==
  /\ ~tick
  /\ faulty \/ ~half \/ pc = "idle"
  /\ half' = ~half
  /\ tick' = (half /\ pc = "idle")
  /\ period' = [period EXCEPT !.age = IF period.exists THEN Least(@ + 1, OldAge) ELSE 0]
  /\ due' \in {due, TRUE}
  /\ UNCHANGED <<money, enabled, faulty, pc, job>>

\* A token gains or loses value.
Market ==
  /\ \E t \in Token :
       /\ exchange[t] > 0
       /\ \/ wallet + SumFunctionOnSet(exchange, Asset) < MaxValue
             /\ exchange' = [exchange EXCEPT ![t] = @ + 1]
          \/ exchange[t] > 1 /\ exchange' = [exchange EXCEPT ![t] = @ - 1]
  /\ UNCHANGED <<wallet, period, env, pc, job>>

Configure ==
  /\ faulty
  /\ enabled' = ~enabled
  /\ UNCHANGED <<money, period, due, half, tick, faulty, pc, job>>

\* From here on calls succeed and the configuration stays.
Settle ==
  /\ faulty
  /\ faulty' = FALSE
  /\ UNCHANGED <<money, period, enabled, due, half, tick, pc, job>>

JobStep ==
  \/ Begin \/ ReadPeriod \/ InsertFirst \/ Count \/ Liquidate \/ Sell \/ Liquidated
  \/ Harvest \/ HarvestFails \/ Refresh \/ Close \/ Renew \/ Decide \/ PrepareFunds
  \/ Select \/ Storage \/ Deposit \/ Plan \/ Trade \/ TradeFails \/ Finish

Next ==
  JobStep \/ CallFails \/ Restart \/ HalfDay \/ Market \/ Configure \/ Settle

Spec == Init /\ [][Next]_vars

\* The job runs on, its list of trades ends, and time passes.
FairSpec == Spec /\ WF_vars(JobStep) /\ WF_vars(Finish) /\ WF_vars(HalfDay)

-----------------------------------------------------------------------------
(* Properties. *)

Labels == {"idle", "period", "first", "count", "liquidate", "sell", "harvest", "refresh",
           "renew", "decide", "funds", "select", "storage", "deposit", "plan", "trade"}
PeriodRec ==
  [exists : BOOLEAN, age : Nat, initial : Nat, tokens : BOOLEAN, traded : BOOLEAN,
   funded : BOOLEAN, swapped : BOOLEAN, unsaved : BOOLEAN, unrecorded : BOOLEAN]
JobRec ==
  [enabled : BOOLEAN, age : Nat, stop : BOOLEAN, isNew : BOOLEAN, known : BOOLEAN,
   todo : SUBSET Token, balance : Nat, strayed : BOOLEAN]

\* Types: no step of a cycle takes money that is not there.
TypeOK ==
  /\ wallet \in Nat /\ exchange \in [Asset -> Nat]
  /\ period \in PeriodRec
  /\ {enabled, due, half, tick, faulty} \subseteq BOOLEAN
  /\ pc \in Labels
  /\ job \in JobRec

\* strategy::start only trades in a period whose money was set aside on the
\* exchange before, also when an earlier cycle of that period failed or was
\* interrupted anywhere: "continuing" never skips prepare_funds too early.
TradesFunded ==
  pc \in {"storage", "deposit", "plan", "trade"} => period.exists /\ period.funded

\* prepare_funds does not run again in a period that has traded.  Tokens and
\* transactions are both looked at, so one of the two writes may be lost.
NoReinvestment ==
  pc = "funds" /\ period.swapped => period.unsaved /\ period.unrecorded

\* A harvest at the end of a period leaves twice its initial value on the
\* exchange, however often the end of the period is repeated after errors.
HarvestLeavesDouble ==
  [][pc = "harvest" /\ exchange'[Wnear] # exchange[Wnear]
       => exchange'[Wnear] >= 2 * period.initial]_vars

\* A new period starts with what is on the exchange after the harvest, if the
\* harvest did not fail half way.
InitialValueRefreshed ==
  [][pc = "renew" /\ period' # period /\ pc' = "decide" /\ ~job.strayed
       => period'.initial = exchange[Wnear]]_vars

Invested == wallet + SumFunctionOnSet(exchange, Asset)
AllSold == \A t \in Token : exchange[t] = 0

\* After any errors and restarts the job trades again by itself.
TradingResumes == (~faulty /\ enabled /\ Invested > 0) ~> pc = "trade"

\* Tokens whose liquidation failed are sold at the end of a later period.
LeftoversSold == ~faulty ~> AllSold

\* TRADE_ENABLED=false ends in a state without any tokens, for good.
StopLiquidates == (~faulty /\ ~enabled) ~> []AllSold
=============================================================================
