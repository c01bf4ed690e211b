-------------------------- MODULE TradeCycleProofs --------------------------
(* Types, funding and re-investment of TradeCycle, for any tokens, amounts    *)
(* and lengths of a period.                                                   *)
EXTENDS TradeCycle, TLAPS

\* The amounts of a harvest are computed from a balance that is still there.
TypeInv ==
  /\ TypeOK
  /\ pc = "harvest" => job.balance = exchange[Wnear]

\* The locals and a new period have their types.
LEMMA RecordTypes ==
  /\ \A on \in BOOLEAN, age \in Nat : NewJob(on, age) \in JobRec
  /\ \A initial \in Nat : NewPeriod(initial) \in PeriodRec
  BY DEF NewJob, NewPeriod, JobRec, PeriodRec

\* A share is not more than the whole.
LEMMA ShareBound ==
  ASSUME NEW x \in Nat, NEW n \in Nat \ {0}
  PROVE  x \div n \in 0..x
  OBVIOUS

\* A harvest takes at most what exceeds twice the initial value.
LEMMA HarvestBound ==
  ASSUME TypeOK
  PROVE  /\ HarvestAmount \in 0..job.balance
         /\ HarvestAmount > 0 => job.balance - HarvestAmount >= 2 * period.initial
<1>1. job.balance \in Nat /\ period.initial \in Nat /\ Share \in Nat \ {0}
  BY TradeCycleAssumption DEF TypeOK, JobRec, PeriodRec
<1>2. CASE period.initial = 0 \/ job.balance < 2 * period.initial
  BY <1>1, <1>2 DEF HarvestAmount
<1>3. CASE ~(period.initial = 0 \/ job.balance < 2 * period.initial)
  <2> DEFINE x == job.balance - 2 * period.initial
  <2>1. x \in Nat
    BY <1>1, <1>3
  <2>2. HarvestAmount = x \div Share
    BY <1>3 DEF HarvestAmount
  <2>3. x \div Share \in 0..x
    BY <1>1, <2>1, ShareBound
  <2> HIDE DEF x
  <2>4. HarvestAmount \in 0..x
    BY <2>2, <2>3
  <2> QED
    BY <1>1, <2>1, <2>4 DEF x
<1> QED
  BY <1>2, <1>3

\* What the wallet adds to the exchange, it has.
LEMMA MissingBound ==
  ASSUME TypeOK, NEW want \in Nat
  PROVE  Missing(want) \in 0..wallet /\ Arriving(want) \in 0..wallet
  BY DEF TypeOK, Missing, Arriving, Least, Asset

\* A result of balances::start consists of amounts.
Result == [wallet : Nat, wnear : Nat, value : Nat]

\* balances::start moves only what is there, to or from the exchange.
LEMMA StartedType ==
  ASSUME TypeOK, NEW want \in Nat, NEW s \in Started(want)
  PROVE  s \in Result
<1>1. wallet \in Nat /\ exchange[Wnear] \in Nat /\ Multiplier \in Nat
  BY TradeCycleAssumption DEF TypeOK, Asset
<1>2. AsIs \in Result
  BY <1>1 DEF AsIs, Result
<1>3. ASSUME s \in Refilled(want) PROVE s \in Result
  <2>1. PICK m \in Arriving(want)..wallet :
          s = [wallet |-> wallet - m, wnear |-> exchange[Wnear] + m,
               value |-> exchange[Wnear] + m]
    BY <1>3 DEF Refilled
  <2>2. m \in 0..wallet
    BY <1>1, MissingBound
  <2> QED
    BY <1>1, <2>1, <2>2 DEF Result
<1>4. Surplus(want) \in 0..exchange[Wnear]
  <2>1. want * Multiplier \in Nat
    BY <1>1
  <2> QED
    BY <1>1, <2>1 DEF Surplus
<1>5. ASSUME s \in Skimmed(want) PROVE s \in Result
  <2>1. PICK back \in {0, Surplus(want)} : \E kept \in 0..(wallet + back) :
          s = [wallet |-> kept, wnear |-> exchange[Wnear] - back, value |-> exchange[Wnear]]
    BY <1>5 DEF Skimmed
  <2>2. back \in 0..exchange[Wnear]
    BY <1>1, <1>4, <2>1
  <2>3. exchange[Wnear] - back \in Nat /\ wallet + back \in Nat
    BY <1>1, <2>2
  <2> QED
    BY <1>1, <2>1, <2>3 DEF Result
<1> QED
  BY <1>2, <1>3, <1>5 DEF Started

\* Nothing runs at the start and the exchange is empty.
LEMMA InitType == Init => TypeInv
<1> SUFFICES ASSUME Init PROVE TypeInv
  OBVIOUS
<1>1. job \in JobRec /\ NewPeriod(0) \in PeriodRec
  BY RecordTypes DEF Init
<1>2. period \in PeriodRec
  BY <1>1 DEF Init, PeriodRec
<1> QED
  BY <1>1, <1>2, TradeCycleAssumption DEF Init, TypeInv, TypeOK, Labels, Asset

\* An error or a return leaves the job idle, with well-typed locals.
LEMMA ReturnType == Return => pc' = "idle" /\ job' \in JobRec
  BY RecordTypes DEF Return, Goto

\* A swap keeps the amounts of the exchange natural numbers.
LEMMA SwapType ==
  ASSUME NEW held \in [Asset -> Nat], NEW from \in Asset, NEW to \in Asset, from # to,
         NEW amount \in 0..held[from]
  PROVE  Swapped(held, from, to, amount) \in [Asset -> Nat]
<1>1. held[from] - amount \in Nat /\ held[to] + amount \in Nat
  OBVIOUS
<1>2. Swapped(held, from, to, amount)
        = [held EXCEPT ![from] = held[from] - amount, ![to] = held[to] + amount]
  BY DEF Swapped
<1> QED
  BY <1>1, <1>2

\* So does a harvest of at most what is there.
LEMMA HarvestedType ==
  ASSUME TypeOK, NEW amount \in 0..exchange[Wnear], NEW sent \in 0..amount,
         Harvested(amount, sent)
  PROVE  /\ wallet' \in Nat /\ exchange' \in [Asset -> Nat]
         /\ exchange'[Wnear] = exchange[Wnear] - amount
<1>1. exchange \in [Asset -> Nat] /\ Wnear \in Asset /\ wallet \in Nat
  BY DEF TypeOK, Asset
<1>2. exchange[Wnear] \in Nat /\ amount \in Nat /\ sent \in Nat
  BY <1>1
<1>3. exchange[Wnear] - amount \in Nat /\ wallet + (amount - sent) \in Nat
  BY <1>1, <1>2
<1> QED
  BY <1>1, <1>3 DEF Harvested

\* So does money that the wallet has and puts on the exchange.
LEMMA MoveType ==
  ASSUME TypeOK, NEW amount \in 0..wallet, Move(amount)
  PROVE  wallet' \in Nat /\ exchange' \in [Asset -> Nat]
<1>1. exchange \in [Asset -> Nat] /\ Wnear \in Asset /\ wallet \in Nat
  BY DEF TypeOK, Asset
<1>2. wallet - amount \in Nat /\ exchange[Wnear] + amount \in Nat
  BY <1>1
<1> QED
  BY <1>1, <1>2 DEF Move

\* So does what balances::start does.
LEMMA TakeType ==
  ASSUME TypeOK, NEW want \in Nat, NEW s \in Started(want), Take(s)
  PROVE  wallet' \in Nat /\ exchange' \in [Asset -> Nat] /\ s.value \in Nat
<1>1. exchange \in [Asset -> Nat] /\ Wnear \in Asset
  BY DEF TypeOK, Asset
<1>2. s.wallet \in Nat /\ s.wnear \in Nat /\ s.value \in Nat
  BY StartedType DEF Result
<1> QED
  BY <1>1, <1>2 DEF Take

\* Every step keeps the types, and harvests only what is on the exchange.
LEMMA NextType ==
  ASSUME TypeInv, [Next]_vars
  PROVE  TypeInv'
<1> USE DEF TypeInv
<1>m. wallet \in Nat /\ exchange \in [Asset -> Nat] /\ Wnear \in Asset
  BY DEF TypeOK, Asset
<1>t. period \in PeriodRec /\ job \in JobRec /\ pc \in Labels
  BY DEF TypeOK
<1>1. CASE UNCHANGED vars
  BY <1>1 DEF vars, TypeOK
<1>2. CASE Begin
  <2>1. NewJob(enabled, period.age) \in JobRec
    BY RecordTypes DEF TypeOK, PeriodRec
  <2> QED
    BY <1>2, <2>1 DEF Begin, Goto, TypeOK, Labels, money
<1>3. CASE ReadPeriod
  BY <1>3 DEF ReadPeriod, Goto, TypeOK, Labels, money, env
<1>4. CASE InsertFirst
  <2>1. NewPeriod(0) \in PeriodRec /\ [job EXCEPT !.isNew = TRUE] \in JobRec
    BY <1>t, RecordTypes DEF JobRec
  <2> QED
    BY <1>4, <2>1 DEF InsertFirst, Goto, TypeOK, Labels, money, env
<1>5. CASE Count
  <2>1. [job EXCEPT !.isNew = ~period.tokens /\ ~period.traded] \in JobRec
    BY <1>t DEF JobRec
  <2> QED
    BY <1>5, <2>1 DEF Count, Goto, TypeOK, Labels, money, env
<1>6. CASE Liquidate
  <2>1. [job EXCEPT !.todo = ToLiquidate] \in JobRec
    BY <1>t DEF JobRec, ToLiquidate
  <2> QED
    BY <1>6, <2>1 DEF Liquidate, Goto, TypeOK, Labels, money, env
<1>7. CASE Sell
  <2>1. PICK t \in job.todo :
          /\ \/ Swap(t, Wnear, exchange[t]) /\ period' \in {Recorded(period), Unrecorded(period)}
             \/ UNCHANGED <<exchange, period>>
          /\ Goto("sell", [job EXCEPT !.todo = @ \ {t}])
    BY <1>7 DEF Sell
  <2>2. t \in Token /\ t \in Asset /\ t # Wnear
    BY <1>t, TradeCycleAssumption DEF JobRec, Asset
  <2>3. exchange[t] \in 0..exchange[t]
    BY <1>m, <2>2
  <2>4. exchange' \in [Asset -> Nat]
    BY <1>m, <2>1, <2>2, <2>3, SwapType DEF Swap
  <2>5. period' \in PeriodRec
    BY <1>t, <2>1 DEF Recorded, Unrecorded, PeriodRec
  <2>6. job' \in JobRec /\ pc' = "sell"
    BY <1>t, <2>1 DEF Goto, JobRec
  <2> QED
    BY <1>7, <2>4, <2>5, <2>6 DEF Sell, TypeOK, Labels, env
<1>8. CASE Liquidated
  <2>1. [job EXCEPT !.balance = exchange[Wnear]] \in JobRec
    BY <1>m, <1>t DEF JobRec
  <2>2. \/ pc' = "idle" /\ job' \in JobRec
        \/ pc' = "harvest" /\ job' = [job EXCEPT !.balance = exchange[Wnear]]
    BY <1>8, ReturnType DEF Liquidated, Goto
  <2>3. job' \in JobRec /\ (pc' = "harvest" => job'.balance = exchange[Wnear]) /\ pc' \in Labels
    BY <1>t, <2>1, <2>2 DEF JobRec, Labels
  <2> QED
    BY <1>8, <2>3 DEF Liquidated, TypeOK, money, env
<1>h. ASSUME pc = "harvest", NEW sent \in 0..HarvestAmount, Harvested(HarvestAmount, sent)
      PROVE  wallet' \in Nat /\ exchange' \in [Asset -> Nat]
  <2>1. HarvestAmount \in 0..exchange[Wnear]
    BY <1>h, HarvestBound
  <2> QED
    BY <1>h, <2>1, HarvestedType
<1>9. CASE Harvest
  <2>1. wallet' \in Nat /\ exchange' \in [Asset -> Nat]
    BY <1>9, <1>h, <1>m DEF Harvest, money
  <2>2. due' \in BOOLEAN /\ job' = job /\ pc' \in {"renew", "refresh"}
    BY <1>9 DEF Harvest, Goto, TypeOK
  <2> QED
    BY <1>9, <2>1, <2>2 DEF Harvest, TypeOK, Labels
<1>10. CASE HarvestFails
  <2>0. {0, HarvestAmount} \subseteq 0..HarvestAmount
    BY <1>t, HarvestBound DEF JobRec
  <2>1. wallet' \in Nat /\ exchange' \in [Asset -> Nat]
    BY <1>10, <1>h, <1>m, <2>0 DEF HarvestFails, money
  <2>2. job' \in JobRec /\ pc' = "renew"
    BY <1>10, <1>t DEF HarvestFails, Goto, JobRec
  <2> QED
    BY <1>10, <2>1, <2>2 DEF HarvestFails, TypeOK, Labels, env
<1>11. CASE Refresh
  <2>1. [job EXCEPT !.balance = exchange[Wnear]] \in JobRec
    BY <1>m, <1>t DEF JobRec
  <2> QED
    BY <1>11, <2>1 DEF Refresh, Goto, TypeOK, Labels, money, env
<1>12. CASE Close
  <2>1. exchange[Wnear] \in 0..exchange[Wnear] /\ {0, exchange[Wnear]} \subseteq 0..exchange[Wnear]
    BY <1>m
  <2>2. wallet' \in Nat /\ exchange' \in [Asset -> Nat]
    BY <1>12, <1>m, <2>1, HarvestedType DEF Close, money
  <2> QED
    BY <1>12, <2>2, ReturnType DEF Close, TypeOK, Labels, env
<1>13. CASE Renew
  <2>1. NewPeriod(job.balance) \in PeriodRec
    BY <1>t, RecordTypes DEF JobRec
  <2>2. [job EXCEPT !.isNew = TRUE, !.known = TRUE] \in JobRec
    BY <1>t DEF JobRec
  <2> QED
    BY <1>13, <2>1, <2>2 DEF Renew, Goto, TypeOK, Labels, money, env
<1>14. CASE Decide
  <2>1. period' \in PeriodRec
    BY <1>14, <1>t DEF Decide, PeriodRec
  <2>2. job' \in JobRec /\ pc' \in {"idle", "liquidate", "select", "funds"}
    <3>1. [job EXCEPT !.stop = TRUE] \in JobRec
      BY <1>t DEF JobRec
    <3> QED
      BY <1>14, <1>t, <3>1, ReturnType DEF Decide, Goto
  <2> QED
    BY <1>14, <2>1, <2>2 DEF Decide, TypeOK, Labels, money, env
<1>15. CASE PrepareFunds
  <2>1. PICK s \in Started(Target) :
          /\ Take(s)
          /\ \/ Return /\ UNCHANGED period
             \/ /\ Goto("select", [job EXCEPT !.balance = Least(s.value, Target)])
                /\ period' = [period EXCEPT !.funded = TRUE]
    BY <1>15 DEF PrepareFunds
  <2>2. wallet' \in Nat /\ exchange' \in [Asset -> Nat] /\ s.value \in Nat
    BY <2>1, TradeCycleAssumption, TakeType
  <2>3. job' \in JobRec /\ pc' \in {"idle", "select"}
    <3>1. Least(s.value, Target) \in Nat
      BY <2>2, TradeCycleAssumption DEF Least
    <3>2. [job EXCEPT !.balance = Least(s.value, Target)] \in JobRec
      BY <1>t, <3>1 DEF JobRec
    <3> QED
      BY <2>1, <3>2, ReturnType DEF Goto
  <2>4. period' \in PeriodRec
    BY <2>1, <1>t DEF PeriodRec
  <2> QED
    BY <1>15, <2>2, <2>3, <2>4 DEF PrepareFunds, TypeOK, Labels, env
<1>16. CASE Select
  <2>1. period' \in PeriodRec
    BY <1>16, <1>t DEF Select, PeriodRec
  <2>2. job' \in JobRec /\ pc' \in {"idle", "storage"}
    BY <1>16, <1>t, ReturnType DEF Select, Goto
  <2> QED
    BY <1>16, <2>1, <2>2 DEF Select, TypeOK, Labels, money, env
<1>17. CASE Storage
  BY <1>17 DEF Storage, Goto, TypeOK, Labels, money, env
<1>18. CASE Deposit
  <2>1. wallet' \in Nat /\ exchange' \in [Asset -> Nat]
    <3>1. job.balance \in Nat
      BY <1>t DEF JobRec
    <3>2. PICK m \in Arriving(job.balance)..Missing(job.balance) : Move(m)
      BY <1>18 DEF Deposit
    <3>3. m \in 0..wallet
      BY <1>m, <3>1, MissingBound
    <3> QED
      BY <3>2, <3>3, MoveType
  <2>2. job' \in JobRec /\ pc' \in {"idle", "plan"}
    BY <1>18, <1>t, ReturnType DEF Deposit, Goto
  <2> QED
    BY <1>18, <2>1, <2>2 DEF Deposit, TypeOK, Labels, env
<1>19. CASE Plan
  BY <1>19 DEF Plan, Goto, TypeOK, Labels, money, env
<1>20. CASE Trade
  <2>1. PICK from \in Asset, to \in Asset, amount \in 1..MaxValue :
          \E s \in Supplied(from, amount) :
            /\ from # to
            /\ exchange' = Swapped([exchange EXCEPT ![Wnear] = s.wnear], from, to,
                                    SwapAmount(amount, [exchange EXCEPT ![Wnear] = s.wnear][from]))
            /\ wallet' = s.wallet
    BY <1>20 DEF Trade
  <2>2. PICK s \in Supplied(from, amount) :
          /\ from # to
          /\ exchange' = Swapped([exchange EXCEPT ![Wnear] = s.wnear], from, to,
                                  SwapAmount(amount, [exchange EXCEPT ![Wnear] = s.wnear][from]))
          /\ wallet' = s.wallet
    BY <2>1
  <2>3. s \in Result
    <3>1. amount \in Nat
      BY TradeCycleAssumption
    <3>2. AsIs \in Result
      BY <1>m DEF AsIs, Result
    <3> QED
      BY <3>1, <3>2, StartedType DEF Supplied
  <2> DEFINE held == [exchange EXCEPT ![Wnear] = s.wnear]
  <2>4. held \in [Asset -> Nat]
    BY <1>m, <2>3 DEF Result
  <2>5. exchange' = Swapped(held, from, to, SwapAmount(amount, held[from]))
    BY <2>2
  <2> HIDE DEF held
  <2>6. SwapAmount(amount, held[from]) \in 0..held[from]
    <3>1. held[from] \in Nat /\ amount \in Nat
      BY <2>4, TradeCycleAssumption
    <3> QED
      BY <3>1 DEF SwapAmount, Least
  <2>7. exchange' \in [Asset -> Nat]
    <3> DEFINE part == SwapAmount(amount, held[from])
    <3>1. from # to /\ part \in 0..held[from]
      BY <2>2, <2>6
    <3> HIDE DEF part
    <3>2. Swapped(held, from, to, part) \in [Asset -> Nat]
      BY <2>4, <3>1, SwapType
    <3> QED
      BY <2>5, <3>2 DEF part
  <2>8. wallet' \in Nat
    BY <2>2, <2>3 DEF Result
  <2>9. period' \in PeriodRec
    BY <1>20, <1>t DEF Trade, Recorded, Unrecorded, PeriodRec
  <2> QED
    BY <1>20, <2>7, <2>8, <2>9 DEF Trade, TypeOK, env
<1>20a. CASE TradeFails
  <2>1. PICK amount \in 1..MaxValue : \E s \in Started(amount) : Take(s)
    BY <1>20a DEF TradeFails
  <2>2. wallet' \in Nat /\ exchange' \in [Asset -> Nat]
    BY <2>1, TradeCycleAssumption, TakeType
  <2> QED
    BY <1>20a, <2>2 DEF TradeFails, TypeOK, env
<1>21. CASE Finish
  BY <1>21, ReturnType DEF Finish, TypeOK, Labels, money, env
<1>22. CASE CallFails
  <2>1. wallet' \in Nat /\ exchange' \in [Asset -> Nat]
    <3>1. CASE UNCHANGED money
      BY <1>m, <3>1 DEF money
    <3>2. CASE \E s \in Started(Target) : Take(s)
      BY <3>2, TradeCycleAssumption, TakeType
    <3>3. CASE \E m \in 0..Missing(job.balance) : Move(m)
      <4>1. job.balance \in Nat
        BY <1>t DEF JobRec
      <4>2. 0..Missing(job.balance) \subseteq 0..wallet
        BY <1>m, <4>1, MissingBound
      <4> QED
        BY <3>3, <4>2, MoveType
    <3> QED
      BY <1>22, <3>1, <3>2, <3>3 DEF CallFails
  <2> QED
    BY <1>22, <2>1, ReturnType DEF CallFails, TypeOK, Labels, env
<1>23. CASE Restart
  BY <1>23, ReturnType DEF Restart, TypeOK, Labels, money
<1>24. CASE HalfDay
  <2>1. Least(period.age + 1, OldAge) \in Nat
    BY <1>t, TradeCycleAssumption DEF PeriodRec, Least, OldAge
  <2>2. period' \in PeriodRec
    BY <1>24, <1>t, <2>1 DEF HalfDay, PeriodRec
  <2>3. {half', tick', due'} \subseteq BOOLEAN
    BY <1>24 DEF HalfDay, TypeOK
  <2> QED
    BY <1>24, <2>2, <2>3 DEF HalfDay, TypeOK, money
<1>25. CASE Market
  <2>1. PICK t \in Token :
          \/ exchange' = [exchange EXCEPT ![t] = exchange[t] + 1]
          \/ exchange[t] > 1 /\ exchange' = [exchange EXCEPT ![t] = exchange[t] - 1]
    BY <1>25, <1>m DEF Market, Asset
  <2>2. t \in Asset /\ t # Wnear /\ exchange[t] \in Nat
    BY <1>m, TradeCycleAssumption DEF Asset
  <2>3. exchange' \in [Asset -> Nat] /\ exchange'[Wnear] = exchange[Wnear]
    <3>1. exchange[t] + 1 \in Nat /\ (exchange[t] > 1 => exchange[t] - 1 \in Nat)
      BY <2>2
    <3> QED
      BY <1>m, <2>1, <2>2, <3>1
  <2> QED
    BY <1>25, <2>3 DEF Market, TypeOK, env
<1>26. CASE Configure
  BY <1>26 DEF Configure, TypeOK, money
<1>27. CASE Settle
  BY <1>27 DEF Settle, TypeOK, money
<1> QED
  BY <1>1, <1>2, <1>3, <1>4, <1>5, <1>6, <1>7, <1>8, <1>9, <1>10, <1>11, <1>12, <1>13,
     <1>14, <1>15, <1>16, <1>17, <1>18, <1>19, <1>20, <1>20a, <1>21, <1>22, <1>23, <1>24, <1>25,
     <1>26, <1>27 DEF Next, JobStep

Trading == {"storage", "deposit", "plan", "trade"}

\* What the database says of a period is backed by what was done in it:
\* tokens are saved after the money was set aside, and a trade that executed
\* left a trace in the tokens and in the transactions, or the write was lost.
FundInv ==
  /\ pc \notin {"idle", "period", "first"} => period.exists
  /\ period.tokens => period.funded
  /\ pc = "select" /\ job.isNew => period.funded
  /\ pc \in Trading => period.funded /\ (period.tokens \/ period.unsaved)
  /\ period.swapped => /\ period.tokens \/ period.unsaved
                       /\ period.traded \/ period.unrecorded
  /\ pc = "funds" => job.isNew /\ ~job.known
  /\ pc \in {"decide", "funds"} /\ job.isNew /\ ~job.known => ~period.tokens /\ ~period.traded

\* No period exists at the start.
LEMMA InitFund == Init => FundInv
  BY DEF Init, FundInv, NewPeriod, Trading

\* Every step keeps it; TypeOK gives the fields of the two records.
LEMMA NextFund ==
  ASSUME TypeOK, FundInv, [Next]_vars
  PROVE  FundInv'
<1> USE DEF Trading
<1>t. period \in PeriodRec /\ job \in JobRec
  BY DEF TypeOK
<1>1. CASE UNCHANGED vars
  BY <1>1 DEF vars, FundInv
<1>2. CASE Begin
  BY <1>2 DEF Begin, Goto, FundInv
<1>3. CASE ReadPeriod
  BY <1>3 DEF ReadPeriod, Goto, FundInv
<1>4. CASE InsertFirst
  BY <1>4 DEF InsertFirst, Goto, NewPeriod, FundInv
<1>5. CASE Count
  BY <1>5, <1>t DEF Count, Goto, FundInv, JobRec, PeriodRec
<1>6. CASE Liquidate
  BY <1>6 DEF Liquidate, Goto, FundInv
<1>7. CASE Sell
  BY <1>7, <1>t DEF Sell, Goto, Recorded, Unrecorded, FundInv, PeriodRec
<1>8. CASE Liquidated
  BY <1>8 DEF Liquidated, Goto, Return, FundInv
<1>9. CASE Harvest
  BY <1>9 DEF Harvest, Goto, FundInv
<1>10. CASE HarvestFails
  BY <1>10 DEF HarvestFails, Goto, FundInv, env
<1>11. CASE Refresh
  BY <1>11 DEF Refresh, Goto, FundInv
<1>12. CASE Close
  BY <1>12 DEF Close, Goto, Return, FundInv
<1>13. CASE Renew
  BY <1>13, <1>t DEF Renew, Goto, NewPeriod, FundInv, JobRec
<1>14. CASE Decide
  BY <1>14, <1>t DEF Decide, Goto, Return, FundInv, JobRec, PeriodRec
<1>15. CASE PrepareFunds
  BY <1>15, <1>t DEF PrepareFunds, Goto, Return, FundInv, JobRec, PeriodRec
<1>16. CASE Select
  BY <1>16, <1>t DEF Select, Goto, Return, FundInv, PeriodRec
<1>17. CASE Storage
  BY <1>17 DEF Storage, Goto, FundInv
<1>18. CASE Deposit
  BY <1>18 DEF Deposit, Goto, Return, FundInv
<1>19. CASE Plan
  BY <1>19 DEF Plan, Goto, FundInv
<1>20. CASE Trade
  BY <1>20, <1>t DEF Trade, Recorded, Unrecorded, FundInv, PeriodRec
<1>20a. CASE TradeFails
  BY <1>20a DEF TradeFails, FundInv
<1>21. CASE Finish
  BY <1>21 DEF Finish, Goto, Return, FundInv
<1>22. CASE CallFails
  BY <1>22 DEF CallFails, Goto, Return, FundInv
<1>23. CASE Restart
  BY <1>23 DEF Restart, Goto, Return, FundInv
<1>24. CASE HalfDay
  BY <1>24, <1>t DEF HalfDay, FundInv, PeriodRec
<1>25. CASE Market
  BY <1>25 DEF Market, FundInv
<1>26. CASE Configure
  BY <1>26 DEF Configure, FundInv
<1>27. CASE Settle
  BY <1>27 DEF Settle, FundInv
<1> QED
  BY <1>1, <1>2, <1>3, <1>4, <1>5, <1>6, <1>7, <1>8, <1>9, <1>10, <1>11, <1>12, <1>13,
     <1>14, <1>15, <1>16, <1>17, <1>18, <1>19, <1>20, <1>20a, <1>21, <1>22, <1>23, <1>24, <1>25,
     <1>26, <1>27 DEF Next, JobStep

-----------------------------------------------------------------------------
\* The state of the trade job keeps its types: no cycle, harvest or failed
\* call takes money from the exchange or the wallet that is not there.
THEOREM CycleTypeCorrect == Spec => []TypeOK
<1>1. TypeInv /\ [Next]_vars => TypeInv'
  BY NextType
<1>2. TypeInv => TypeOK
  BY DEF TypeInv
<1> QED
  BY <1>1, <1>2, InitType, PTL DEF Spec

\* What the database says of a period is always backed by what was done.
LEMMA FundInvariant == Spec => []FundInv
<1>1. TypeOK /\ FundInv /\ [Next]_vars => FundInv'
  BY NextFund
<1> QED
  BY <1>1, InitFund, CycleTypeCorrect, PTL DEF Spec

\* strategy::start trades only in a period whose money was set aside before,
\* wherever earlier cycles of the period failed or were interrupted.
THEOREM FundedBeforeTrading == Spec => []TradesFunded
<1>1. FundInv => TradesFunded
  BY DEF FundInv, TradesFunded, Trading
<1> QED
  BY <1>1, FundInvariant, PTL

\* prepare_funds runs again in a period that has traded only if both the write
\* of its tokens and the record of a trade were lost.
THEOREM InvestedOnce == Spec => []NoReinvestment
<1>1. FundInv => NoReinvestment
  BY DEF FundInv, NoReinvestment
<1> QED
  BY <1>1, FundInvariant, PTL

\* A harvest, also one that fails half way, leaves at least twice the initial
\* value of the period on the exchange.
THEOREM HarvestKeepsDouble == Spec => HarvestLeavesDouble
<1>1. ASSUME TypeInv, [Next]_vars
      PROVE  [pc = "harvest" /\ exchange'[Wnear] # exchange[Wnear]
                => exchange'[Wnear] >= 2 * period.initial]_vars
  <2> SUFFICES ASSUME pc = "harvest", exchange'[Wnear] # exchange[Wnear]
               PROVE  exchange'[Wnear] >= 2 * period.initial
    OBVIOUS
  <2>1. exchange \in [Asset -> Nat] /\ Wnear \in Asset /\ Wnear \notin Token
    BY <1>1, TradeCycleAssumption DEF TypeInv, TypeOK, Asset
  <2>2. ~Market
    BY <2>1 DEF Market, Asset
  <2>3. Harvest \/ HarvestFails
    <3>1. ~UNCHANGED exchange
      OBVIOUS
    <3>2. Next
      BY <1>1, <3>1 DEF vars
    <3>3. JobStep \/ CallFails
      BY <2>2, <3>1, <3>2 DEF Next, Restart, HalfDay, Configure, Settle, money
    <3> QED
      BY <3>1, <3>3 DEF JobStep, Begin, ReadPeriod, InsertFirst, Count, Liquidate, Sell,
         Liquidated, Refresh, Close, Renew, Decide, PrepareFunds, Select, Storage, Deposit,
         Plan, Trade, TradeFails, Finish, CallFails
  <2>4. job.balance = exchange[Wnear] /\ HarvestAmount \in 0..exchange[Wnear]
    BY <1>1, HarvestBound DEF TypeInv
  <2>5. PICK sent \in 0..HarvestAmount : Harvested(HarvestAmount, sent)
    <3>1. {0, HarvestAmount} \subseteq 0..HarvestAmount
      BY <2>1, <2>4
    <3> QED
      BY <2>3, <3>1 DEF Harvest, HarvestFails, money
  <2>6. exchange'[Wnear] = exchange[Wnear] - HarvestAmount
    BY <1>1, <2>4, <2>5, HarvestedType DEF TypeInv
  <2>7. HarvestAmount > 0
    BY <2>1, <2>4, <2>6
  <2> QED
    BY <1>1, <2>4, <2>6, <2>7, HarvestBound DEF TypeInv
<1>2. TypeInv /\ [Next]_vars => TypeInv'
  BY NextType
<1> QED
  BY <1>1, <1>2, InitType, PTL DEF Spec, HarvestLeavesDouble
=============================================================================
