-------------------------- MODULE RefStorageProofs --------------------------
(* Proofs about RefStorage for every set of callers, processes and tokens, *)
(* every cost and every cap.                                               *)
EXTENDS RefStorage, TLAPS, FiniteSetTheorems

\* SaturatingSub is the saturating_sub of u128: it never leaves the naturals.
LEMMA SaturatingSubNat ==
  ASSUME NEW a \in Int, NEW b \in Int
  PROVE  SaturatingSub(a, b) \in Nat
BY DEF SaturatingSub

\* DivCeil is the div_ceil of u128.
LEMMA DivCeilNat ==
  ASSUME NEW a \in Nat, NEW b \in Nat, b # 0
  PROVE  DivCeil(a, b) \in Nat
BY DEF DivCeil

\* Sets of tokens are finite, so their sizes are numbers.
LEMMA TokensFinite ==
  ASSUME NEW S \in SUBSET Token
  PROVE  Cardinality(S) \in Nat /\ (S # {} => Cardinality(S) # 0)
<1>1. IsFiniteSet(S)
  BY FS_Subset, StorageAssumption
<1>. QED  BY <1>1, FS_CardinalityType, FS_EmptySet

\* planner::plan returns lists of tokens and an estimate that is a natural.
LEMMA PlanTyped ==
  ASSUME NEW total \in Nat, NEW available \in Nat, NEW d \in Deposits,
         NEW requested \in SUBSET Token, NEW keep \in SUBSET Token
  PROVE  Plan([total |-> total, available |-> available, deposits |-> d, min |-> MinBound],
              requested, keep) \in PlanRec
<1>. DEFINE snap == [total |-> total, available |-> available, deposits |-> d, min |-> MinBound]
<1>1. DOMAIN d \in SUBSET Token
  BY DEF Deposits
<1>2. ASSUME DOMAIN d # {} PROVE PerToken(snap) \in Nat
  <2>. DEFINE usable == SaturatingSub(total - available, MinBound)
  <2>1. usable \in Nat
    BY SaturatingSubNat, ContractAssumption
  <2>2. Cardinality(DOMAIN d) \in Nat /\ Cardinality(DOMAIN d) # 0
    BY <1>1, <1>2, TokensFinite
  <2>3. DivCeil(usable, Cardinality(DOMAIN d)) \in Nat
    BY <2>1, <2>2, DivCeilNat
  <2>. QED  BY <2>3, ContractAssumption DEF PerToken
<1>3. ToRegister(snap, requested) \in SUBSET Token
  BY DEF ToRegister
<1>4. ASSUME DOMAIN d # {} PROVE Needed(snap, ToRegister(snap, requested)) \in Nat
  <2>1. NeededRaw(snap, ToRegister(snap, requested)) \in Nat
    BY <1>2, <1>3, <1>4, TokensFinite DEF NeededRaw
  <2>. QED  BY <2>1, DivCeilNat DEF Needed, SafetyMarginNumerator, SafetyMarginDenominator
<1>5. \A k : FirstInKeyOrder(Candidates(snap, requested, keep), k) \in SUBSET Token
  BY <1>1 DEF FirstInKeyOrder, Candidates
<1>6. CASE DOMAIN d = {}
  BY <1>6 DEF Plan, PlanInitial, PlanErr, PlanRec
<1>7. CASE DOMAIN d # {}
  BY <1>3, <1>4, <1>5, <1>7 DEF Plan, PlanNormal, PlanErr, PlanRec
<1>. QED  BY <1>6, <1>7

\* The storage that an account uses is a natural.
LEMMA UsageNat ==
  ASSUME NEW a, DOMAIN a.deposits \in SUBSET Token, a.legacy \in SUBSET Token
  PROVE  StorageUsage(a) \in Nat
<1>. DEFINE old == Cardinality(a.legacy)
            new == Cardinality(DOMAIN a.deposits \ a.legacy)
<1>1. old \in Nat /\ new \in Nat
  BY TokensFinite
<1>2. LegacyCost \in Nat /\ TokenCost \in Nat /\ MinBound \in Nat
  BY ContractAssumption
<1>. HIDE DEF old, new
<1>3. LegacyCost * old \in Nat /\ TokenCost * new \in Nat
  BY <1>1, <1>2
<1>4. MinBound + LegacyCost * old + TokenCost * new \in Nat
  BY <1>2, <1>3
<1>. QED  BY <1>4 DEF StorageUsage, old, new

\* Whatever the contract does to an account, it stays an account.
LEMMA ApplyTyped ==
  ASSUME acct \in Acct, NEW op \in Op
  PROVE  Apply(op).acct \in Acct
<1>1. StorageRegister(acct, op.amount).acct \in Acct
  BY ContractAssumption DEF StorageRegister, Done, Failed, Acct
<1>2. StorageDeposit(acct, op.amount).acct \in Acct
  <2>1. acct.near + op.amount \in Nat
    BY DEF Acct, Op
  <2>2. [acct EXCEPT !.registered = TRUE, !.near = @ + op.amount] \in Acct
    BY <2>1 DEF Acct
  <2>. QED  BY <2>2 DEF StorageDeposit, Done, Failed
<1>. DEFINE all == DOMAIN acct.deposits \cup op.tokens
            more == [t \in all |-> IF t \in DOMAIN acct.deposits THEN acct.deposits[t] ELSE 0]
            fewer == [t \in DOMAIN acct.deposits \ op.tokens |-> acct.deposits[t]]
<1>d. /\ DOMAIN acct.deposits \in SUBSET Token
      /\ acct.deposits \in [DOMAIN acct.deposits -> Balance]
  BY DEF Acct, Deposits
<1>3. RegisterTokens(acct, op.tokens).acct \in Acct
  <2>1. more \in Deposits
    <3>1. all \in SUBSET Token /\ more \in [all -> Balance]
      BY <1>d DEF Op, Balance
    <3>. QED  BY <3>1 DEF Deposits
  <2>2. RegisterTokens(acct, op.tokens).acct \in {acct, [acct EXCEPT !.deposits = more]}
    BY DEF RegisterTokens, Done, Failed
  <2>. HIDE DEF more
  <2>. QED  BY <2>1, <2>2 DEF Acct
<1>4. UnregisterTokens(acct, op.tokens).acct \in Acct
  <2>1. fewer \in Deposits /\ acct.legacy \ op.tokens \in SUBSET Token
    <3>1. /\ DOMAIN acct.deposits \ op.tokens \in SUBSET Token
          /\ fewer \in [DOMAIN acct.deposits \ op.tokens -> Balance]
      BY <1>d
    <3>. QED  BY <3>1 DEF Deposits, Acct
  <2>2. UnregisterTokens(acct, op.tokens).acct
          \in {acct, [acct EXCEPT !.deposits = fewer, !.legacy = @ \ op.tokens]}
    BY DEF UnregisterTokens, Done, Failed
  <2>. HIDE DEF fewer
  <2>. QED  BY <2>1, <2>2 DEF Acct
<1>. QED  BY <1>1, <1>2, <1>3, <1>4 DEF Apply, Op

\* The contract never reports a negative storage balance.
LEMMA AvailableNat ==
  ASSUME NEW a \in Acct
  PROVE  StorageAvailable(a) \in Nat
<1>1. StorageUsage(a) \in Nat
  BY UsageNat DEF Acct, Deposits
<1>. QED  BY <1>1 DEF StorageAvailable, Acct

\* The initial accounts and callers have their types.
LEMMA InitTyped == Init => TypeOK
<1>. SUFFICES ASSUME Init PROVE TypeOK
  OBVIOUS
<1>1. NoAccount \in Acct
  <2>1. [t \in {} |-> 0] \in Deposits
    BY DEF Deposits
  <2>. QED  BY <2>1 DEF NoAccount, Acct
<1>2. ASSUME NEW d \in Deposits, NEW old \in SUBSET Legacy, NEW s \in Slack
      PROVE  Opened(d, old, s) \in Acct
  <2>. DEFINE a == [registered |-> TRUE, near |-> 0, deposits |-> d,
                    legacy |-> DOMAIN d \cap old]
  <2>1. a \in Acct /\ DOMAIN a.deposits \in SUBSET Token /\ a.legacy \in SUBSET Token
    BY DEF Acct, Deposits
  <2>2. StorageUsage(a) + s \in Nat
    <3>1. StorageUsage(a) \in Nat
      BY <2>1, UsageNat
    <3>. HIDE DEF a
    <3>. QED  BY <3>1, StorageAssumption
  <2>3. [a EXCEPT !.near = StorageUsage(a) + s] \in Acct
    <3>. HIDE DEF a
    <3>. QED  BY <2>1, <2>2 DEF Acct
  <2>. QED  BY <2>3 DEF Opened
<1>3. acct \in Acct
  <2>1. CASE acct = NoAccount
    BY <1>1, <2>1
  <2>2. CASE acct # NoAccount
    <3>1. PICK d \in Deposits, old \in SUBSET Legacy, s \in Slack : acct = Opened(d, old, s)
      BY <2>2 DEF Init, InitAccounts
    <3>. QED  BY <1>2, <3>1
  <2>. QED  BY <2>1, <2>2
<1>4. replica \in Acct
  BY <1>1, <1>3 DEF Init
<1>5. call \in [Caller -> CallRec]
  BY DEF Init, NewCall, CallRec, NoPlan, PlanErr, PlanRec
<1>. QED  BY <1>3, <1>4, <1>5 DEF Init, TypeOK, Labels, Acct

\* The types of storage.rs are preserved by every step: one step of the
\* proof for every action.
LEMMA NextTyped == TypeOK /\ [Next]_vars => TypeOK'
<1>. SUFFICES ASSUME TypeOK, [Next]_vars PROVE TypeOK'
  OBVIOUS
<1>. USE DEF TypeOK
<1>types. /\ \A v \in Views : v \in Acct /\ StorageAvailable(v) \in Nat
          /\ \A c \in Caller : call[c] \in CallRec
          /\ NewCall({}, {}, 0) \in CallRec
  BY AvailableNat DEF Views, NewCall, CallRec, NoPlan, PlanErr, PlanRec
<1>goto. ASSUME NEW c \in Caller, NEW label \in Labels, NEW locals \in CallRec,
                Goto(c, label, locals)
         PROVE  pc' \in [Caller -> Labels] /\ call' \in [Caller -> CallRec] /\ lock' = lock
  BY <1>goto DEF Goto
<1>return. ASSUME NEW c \in Caller, NEW r \in {"ok", "err"}, Return(c, r)
           PROVE  /\ pc' \in [Caller -> Labels]
                  /\ call' \in [Caller -> CallRec]
                  /\ lock' \in [Process -> Caller \cup {None}]
  BY <1>return, <1>types, StorageAssumption DEF Return, Labels, CallRec
<1>send. ASSUME NEW c \in Caller, NEW label \in Labels, NEW locals \in CallRec,
                NEW kind \in {"init", "topup", "register", "unregister"},
                NEW tokens \in SUBSET Token, NEW amount \in Nat,
                Send(c, label, kind, tokens, amount, locals)
         PROVE  TypeOK'
  <2>1. [locals EXCEPT !.tx = "pending", !.attached = @ + amount] \in CallRec
    <3>1. locals.attached + amount \in Nat
      BY DEF CallRec
    <3>. QED  BY <3>1 DEF CallRec
  <2>2. pool' \subseteq Op
    BY <1>send DEF Send, Op
  <2>. QED  BY <1>send, <1>goto, <2>1, <2>2 DEF Send, chain, count
<1>abandon. ASSUME NEW c \in Caller PROVE Abandon(c) \subseteq Op
  BY DEF Abandon, Mine, Op
<1>1. ASSUME NEW c \in Caller, Call(c) PROVE TypeOK'
  <2>1. PICK needed \in Needs, configured \in Configured :
        \E keep \in {KeepWnearOnly, KeepWithPortfolio(needed)} :
          LET new == NewCall(needed, keep, MaxTopUpFromConfig(configured))
          IN  /\ Counted(new.max)
              /\ IF Cardinality(needed) > MaxRegisterPerCycle
                 THEN Goto(c, "idle", [NewCall({}, {}, 0) EXCEPT !.result = "err"])
                 ELSE Goto(c, "lock", new)
    BY <1>1 DEF Call
  <2>2. PICK keep \in {KeepWnearOnly, KeepWithPortfolio(needed)} :
          /\ Counted(NewCall(needed, keep, MaxTopUpFromConfig(configured)).max)
          /\ IF Cardinality(needed) > MaxRegisterPerCycle
             THEN Goto(c, "idle", [NewCall({}, {}, 0) EXCEPT !.result = "err"])
             ELSE Goto(c, "lock", NewCall(needed, keep, MaxTopUpFromConfig(configured)))
    BY <2>1
  <2>3. MaxTopUpFromConfig(configured) \in Nat
    BY StorageAssumption DEF MaxTopUpFromConfig
  <2>4. keep \in SUBSET Token /\ needed \in SUBSET Token
    BY StorageAssumption DEF KeepWnearOnly, KeepWithPortfolio
  <2>5. NewCall(needed, keep, MaxTopUpFromConfig(configured)) \in CallRec
    BY <2>3, <2>4 DEF NewCall, CallRec, NoPlan, PlanErr, PlanRec
  <2>6. [NewCall({}, {}, 0) EXCEPT !.result = "err"] \in CallRec
    BY <1>types DEF CallRec
  <2>7. calls' \in Nat /\ budget' \in Nat
    BY <2>2, <2>3 DEF Counted, count, NewCall
  <2>. QED  BY <1>1, <1>goto, <2>2, <2>5, <2>6, <2>7 DEF Call, chain, Labels
<1>2. ASSUME NEW c \in Caller, AcquireLock(c) PROVE TypeOK'
  <2> DEFINE doomed == UNION {op.tokens : op \in {o \in pool : o.kind = "unregister"}}
  <2>1. \A b \in BOOLEAN, S \in SUBSET Token :
          [call[c] EXCEPT !.clean = b, !.doomed = S] \in CallRec
    BY <1>types DEF CallRec
  <2>2. (pool = {}) \in BOOLEAN /\ doomed \in SUBSET Token
    BY DEF Op
  <2>3. LeftBehind(call[c]) \in CallRec
    <3>. HIDE DEF doomed
    <3>1. [call[c] EXCEPT !.clean = (pool = {}), !.doomed = doomed] \in CallRec
      BY <2>1, <2>2, Zenon
    <3>. QED  BY <3>1 DEF LeftBehind, doomed
  <2>4. call' \in [Caller -> CallRec]
    BY <1>2, <2>3 DEF AcquireLock
  <2>. QED  BY <1>2, <2>4, StorageAssumption DEF AcquireLock, chain, count, Labels
<1>3. ASSUME NEW c \in Caller, ReadBalance(c) PROVE TypeOK'
  BY <1>3, <1>types, <1>goto DEF ReadBalance, chain, count, Labels
<1>4. ASSUME NEW c \in Caller, InitialDeposit(c) PROVE TypeOK'
  BY <1>4, <1>types, <1>return, <1>send, ContractAssumption
  DEF InitialDeposit, chain, count, Labels
<1>5. ASSUME NEW c \in Caller, InitialDeposited(c) PROVE TypeOK'
  <2>1. [Settled(c) EXCEPT !.initial = MinBound] \in CallRec
    BY <1>types, ContractAssumption DEF Settled, CallRec
  <2>. QED  BY <1>5, <1>goto, <2>1 DEF InitialDeposited, chain, count, Labels
<1>6. ASSUME NEW c \in Caller, SnapshotBalance(c) PROVE TypeOK'
  <2>1. \A v \in Views :
          [call[c] EXCEPT !.total = v.near, !.available = StorageAvailable(v)] \in CallRec
    BY <1>types DEF CallRec, Acct
  <2>. QED  BY <1>6, <1>goto, <1>return, <2>1 DEF SnapshotBalance, chain, count, Labels
<1>7. ASSUME NEW c \in Caller, MakePlan(c) PROVE TypeOK'
  <2>1. PICK seen \in Views :
     LET snap == [total |-> call[c].total, available |-> call[c].available,
                  deposits |-> seen.deposits, min |-> MinBound]
         plan == Plan(snap, call[c].needed, call[c].keep)
         next == IF plan.kind = "InitialRegister" THEN "register"
                 ELSE IF plan.unregister # {} THEN "verify"
                 ELSE "recompute"
     IN  IF plan.kind = "Err"
         THEN Return(c, "err")
         ELSE Goto(c, next, [call[c] EXCEPT !.total = 0, !.available = 0, !.plan = plan])
    BY <1>7 DEF MakePlan
  <2>. DEFINE plan == Plan([total |-> call[c].total, available |-> call[c].available,
                            deposits |-> seen.deposits, min |-> MinBound],
                           call[c].needed, call[c].keep)
  <2>2. plan \in PlanRec
    BY <1>types, PlanTyped DEF CallRec, Acct
  <2>3. [call[c] EXCEPT !.total = 0, !.available = 0, !.plan = plan] \in CallRec
    BY <1>types, <2>2 DEF CallRec
  <2>. HIDE DEF plan
  <2>. QED  BY <1>7, <1>goto, <1>return, <2>1, <2>3 DEF MakePlan, chain, count, Labels, plan
<1>8. ASSUME NEW c \in Caller, VerifyUnregister(c) PROVE TypeOK'
  <2>1. \A S \in SUBSET Token : [call[c] EXCEPT !.verified = S] \in CallRec
    BY <1>types DEF CallRec
  <2>2. call[c].plan.unregister \subseteq Token
    BY <1>types DEF CallRec, PlanRec
  <2>. QED  BY <1>8, <1>goto, <2>1, <2>2 DEF VerifyUnregister, chain, count, Labels
<1>9. ASSUME NEW c \in Caller PROVE Chunk(c) \in SUBSET Token
  BY <1>types DEF Chunk, FirstInKeyOrder, CallRec
<1>10. ASSUME NEW c \in Caller, SendUnregister(c) PROVE TypeOK'
  BY <1>10, <1>types, <1>send, <1>9 DEF SendUnregister, Labels
<1>11. ASSUME NEW c \in Caller, NEW locals \in CallRec, NextChunk(c, locals)
       PROVE  pc' \in [Caller -> Labels] /\ call' \in [Caller -> CallRec] /\ lock' = lock
  <2>1. [locals EXCEPT !.verified = call[c].verified \ Chunk(c)] \in CallRec
    BY <1>types DEF CallRec
  <2>. QED  BY <1>11, <1>goto, <2>1 DEF NextChunk, Labels
<1>12. ASSUME NEW c \in Caller PROVE Settled(c) \in CallRec /\ AfterAbandon(c) \in CallRec
  <2>1. Settled(c) \in CallRec
    BY <1>types DEF Settled, CallRec
  <2>. QED  BY <2>1 DEF AfterAbandon, CallRec
<1>13. ASSUME NEW c \in Caller, UnregisterSettled(c) PROVE TypeOK'
  BY <1>13, <1>abandon, <1>11, <1>12 DEF UnregisterSettled, chain, count
<1>orphan. ASSUME NEW kind \in {"init", "topup", "register", "unregister"},
                  NEW tokens \in SUBSET Token, NEW amount \in Nat,
                  Orphan(kind, tokens, amount)
           PROVE  pool' \subseteq Op
  BY <1>orphan DEF Orphan, Op
<1>14. ASSUME NEW c \in Caller, UnregisterNotSent(c) PROVE TypeOK'
  <2>1. [call[c] EXCEPT !.clean = FALSE] \in CallRec
    BY <1>types DEF CallRec
  <2>2. Chunk(c) \in SUBSET Token
    BY <1>types DEF Chunk, FirstInKeyOrder, CallRec
  <2>. QED  BY <1>14, <1>types, <1>11, <1>orphan, <2>1, <2>2
            DEF UnregisterNotSent, chain, count
<1>15. ASSUME NEW c \in Caller, Recompute(c) \/ SendTopUp(c) PROVE TypeOK'
  <2>1. \A v \in Views : SaturatingSub(call[c].plan.estimate, StorageAvailable(v)) \in Nat
    <3>1. call[c].plan.estimate \in Nat
      BY <1>types DEF CallRec, PlanRec
    <3>. QED  BY <1>types, <3>1 DEF SaturatingSub
  <2>2. \A n \in Nat : [call[c] EXCEPT !.topup = n] \in CallRec
    BY <1>types DEF CallRec
  <2>3. CASE Recompute(c)
    BY <2>3, <1>goto, <1>return, <2>1, <2>2 DEF Recompute, chain, count, Labels
  <2>4. CASE SendTopUp(c)
    <3>1. call[c].topup \in Nat
      BY <1>types DEF CallRec
    <3>. QED  BY <2>4, <3>1, <2>2, <1>send DEF SendTopUp, Labels
  <2>. QED  BY <1>15, <2>3, <2>4
<1>16. ASSUME NEW c \in Caller, ToppedUp(c) PROVE TypeOK'
  BY <1>16, <1>goto, <1>12 DEF ToppedUp, chain, count, Labels
<1>17. ASSUME NEW c \in Caller, SendRegister(c) PROVE TypeOK'
  <2>1. call[c].plan.register \in SUBSET Token
    BY <1>types DEF CallRec, PlanRec
  <2>. QED  BY <1>17, <1>types, <1>return, <1>send, <2>1
            DEF SendRegister, chain, count, Labels
<1>18. ASSUME NEW c \in Caller,
              Registered(c) \/ TxFailed(c) \/ TxTimeout(c) \/ RpcError(c)
       PROVE  TypeOK'
  BY <1>18, <1>return, <1>abandon
  DEF Registered, TxFailed, TxTimeout, RpcError, Fail, chain, count
<1>18a. ASSUME NEW c \in Caller, OrphanedSend(c) PROVE TypeOK'
  <2>1. /\ call[c].topup \in Nat
        /\ call[c].plan.register \in SUBSET Token
    BY <1>types DEF CallRec, PlanRec
  <2>2. pool' \subseteq Op
    BY <1>18a, <1>orphan, <2>1, ContractAssumption DEF OrphanedSend
  <2>. QED  BY <1>18a, <1>return, <2>2 DEF OrphanedSend, chain, count
<1>19. ASSUME Execute PROVE TypeOK'
  <2>1. PICK op \in pool :
          /\ acct' = Apply(op).acct
          /\ pool' = {}
          /\ call' = [c \in Caller |->
               IF c = op.by
               THEN [call[c] EXCEPT !.tx = IF Apply(op).ok THEN "ok" ELSE "failed"]
               ELSE call[c]]
          /\ ReplicaLags
          /\ UNCHANGED <<lock, pc, count>>
    BY <1>19 DEF Execute
  <2>2. acct' \in Acct
    BY <2>1, ApplyTyped
  <2>3. \A c \in Caller :
          [call[c] EXCEPT !.tx = IF Apply(op).ok THEN "ok" ELSE "failed"] \in CallRec
    BY <1>types DEF CallRec
  <2>4. call' \in [Caller -> CallRec]
    BY <1>types, <2>1, <2>3
  <2>. QED  BY <2>1, <2>2, <2>4 DEF ReplicaLags, count
<1>20. ASSUME WalletSwap PROVE TypeOK'
  <2>1. acct' \in Acct
    BY <1>20 DEF WalletSwap, Acct, Deposits, Balance
  <2>. QED  BY <1>20, <2>1 DEF WalletSwap, ReplicaLags, count
<1>21. ASSUME WalletDeposit PROVE TypeOK'
  <2>1. PICK t \in Token \ DOMAIN acct.deposits :
          /\ RegisterTokens(acct, {t}).ok
          /\ acct' = [RegisterTokens(acct, {t}).acct EXCEPT !.deposits[t] = 1]
    BY <1>21 DEF WalletDeposit
  <2>. DEFINE all == DOMAIN acct.deposits \cup {t}
              d == [u \in all |-> IF u \in DOMAIN acct.deposits THEN acct.deposits[u] ELSE 0]
  <2>a. RegisterTokens(acct, {t}).acct = [acct EXCEPT !.deposits = d]
    BY <2>1 DEF RegisterTokens, Done, Failed
  <2>b. d \in [all -> Balance] /\ all \in SUBSET Token
    BY DEF Acct, Deposits, Balance
  <2>c. [d EXCEPT ![t] = 1] \in Deposits
    BY <2>b DEF Deposits, Balance
  <2>d. acct' = [acct EXCEPT !.deposits = [d EXCEPT ![t] = 1]]
    BY <2>1, <2>a DEF Acct
  <2>2. acct' \in Acct
    BY <2>c, <2>d DEF Acct
  <2>3. call' \in [Caller -> CallRec]
    <3>1. \A c \in Caller, b \in BOOLEAN : [call[c] EXCEPT !.quiet = b] \in CallRec
      BY <1>types DEF CallRec
    <3>2. \A c \in Caller : (pc[c] \in {"idle", "lock"}) \in BOOLEAN
      OBVIOUS
    <3>3. \A c \in Caller : [call[c] EXCEPT !.quiet = pc[c] \in {"idle", "lock"}] \in CallRec
      BY <3>1, <3>2, Zenon
    <3>. QED  BY <1>21, <3>3 DEF WalletDeposit
  <2>. QED  BY <1>21, <2>2, <2>3 DEF WalletDeposit, ReplicaLags, count
<1>22. CASE CatchUp
  BY <1>22 DEF CatchUp, count
<1>23. CASE UNCHANGED vars
  BY <1>23 DEF vars
<1>. QED
  BY <1>1, <1>2, <1>3, <1>4, <1>5, <1>6, <1>7, <1>8, <1>10, <1>13, <1>14, <1>15,
     <1>16, <1>17, <1>18, <1>18a, <1>19, <1>20, <1>21, <1>22, <1>23
  DEF Next, Step

\* The types of storage.rs hold in every reachable state.
THEOREM TypeCorrect == Spec => []TypeOK
<1>. QED  BY InitTyped, NextTyped, PTL DEF Spec

\* What a call has attached so far, by where it is in storage.rs: nothing
\* before the initial deposit, then exactly `initial_deposit' until the
\* top-up that the cap check of step 5 let through.
SpendAccounting ==
  \A c \in Caller :
    /\ pc[c] \in {"idle", "lock", "balance", "bounds"}
         => call[c].attached = 0 /\ call[c].initial = 0
    /\ pc[c] = "initWait"
         => call[c].attached = MinBound /\ call[c].initial = 0 /\ MinBound <= call[c].max
    /\ pc[c] \in {"snapBalance", "snapDeposits", "verify", "unregister", "unregWait",
                  "recompute"}
         => call[c].attached = call[c].initial /\ call[c].initial <= call[c].max
    /\ pc[c] = "topup"
         => /\ call[c].attached = call[c].initial
            /\ call[c].initial + call[c].topup <= call[c].max
    /\ pc[c] \in {"topupWait", "register", "regWait"}
         => call[c].attached <= call[c].max /\ call[c].initial <= call[c].max

\* The accounting of the two deposits of a call survives every step, of the
\* call itself, of other callers, of the chain and of the wallet.
LEMMA NextAccounted == TypeOK /\ SpendAccounting /\ [Next]_vars => SpendAccounting'
<1>. SUFFICES ASSUME TypeOK, SpendAccounting, [Next]_vars PROVE SpendAccounting'
  OBVIOUS
<1>. DEFINE Acc(label, r) ==
       /\ label \in {"idle", "lock", "balance", "bounds"} => r.attached = 0 /\ r.initial = 0
       /\ label = "initWait" => r.attached = MinBound /\ r.initial = 0 /\ MinBound <= r.max
       /\ label \in {"snapBalance", "snapDeposits", "verify", "unregister", "unregWait",
                     "recompute"} => r.attached = r.initial /\ r.initial <= r.max
       /\ label = "topup"
            => r.attached = r.initial /\ r.initial + r.topup <= r.max
       /\ label \in {"topupWait", "register", "regWait"}
            => r.attached <= r.max /\ r.initial <= r.max
<1>all. SpendAccounting <=> \A c \in Caller : Acc(pc[c], call[c])
  BY DEF SpendAccounting
<1>prime. (\A c \in Caller : Acc(pc'[c], call'[c])) => SpendAccounting'
  BY DEF SpendAccounting
<1>types. /\ pc \in [Caller -> Labels] /\ call \in [Caller -> CallRec]
          /\ \A c \in Caller : call[c] \in CallRec
  BY DEF TypeOK
<1>goto. ASSUME NEW c \in Caller, NEW label, NEW r, Goto(c, label, r), Acc(label, r)
         PROVE  SpendAccounting'
  <2>1. \A d \in Caller : Acc(pc'[d], call'[d])
    BY <1>goto, <1>all, <1>types, Zenon DEF Goto
  <2>. QED  BY <2>1, <1>prime, Zenon
<1>return. ASSUME NEW c \in Caller, NEW res, Return(c, res)
           PROVE  SpendAccounting'
  <2>1. Acc("idle", [NewCall({}, {}, 0) EXCEPT !.result = res])
    BY DEF NewCall
  <2>2. \A d \in Caller : Acc(pc'[d], call'[d])
    BY <1>return, <1>all, <1>types, <2>1, Zenon DEF Return
  <2>. QED  BY <2>2, <1>prime, Zenon
<1>1. ASSUME NEW c \in Caller, Call(c) PROVE SpendAccounting'
  <2>1. /\ Acc("idle", [NewCall({}, {}, 0) EXCEPT !.result = "err"])
        /\ \A needed, keep, max : Acc("lock", NewCall(needed, keep, max))
    BY DEF NewCall
  <2>2. \/ Goto(c, "idle", [NewCall({}, {}, 0) EXCEPT !.result = "err"])
        \/ \E needed, keep, max : Goto(c, "lock", NewCall(needed, keep, max))
    BY <1>1 DEF Call
  <2>. QED  BY <2>1, <2>2, <1>goto
<1>2. ASSUME NEW c \in Caller, AcquireLock(c) PROVE SpendAccounting'
  <2>1. Acc("balance", LeftBehind(call[c]))
    <3>1. \A b, S : Acc("balance", [call[c] EXCEPT !.clean = b, !.doomed = S])
      BY <1>2, <1>all, <1>types DEF AcquireLock, CallRec
    <3>. QED  BY <3>1, Zenon DEF LeftBehind
  <2>2. /\ pc' = [pc EXCEPT ![c] = "balance"]
        /\ call' = [call EXCEPT ![c] = LeftBehind(call[c])]
    BY <1>2 DEF AcquireLock
  <2>3. \A d \in Caller : Acc(pc'[d], call'[d])
    BY <1>all, <1>types, <2>1, <2>2, Zenon
  <2>. QED  BY <2>3, <1>prime, Zenon
<1>3. ASSUME NEW c \in Caller, ReadBalance(c) PROVE SpendAccounting'
  <2>1. Acc("snapBalance", call[c]) /\ Acc("bounds", call[c])
    BY <1>3, <1>all, <1>types DEF ReadBalance, CallRec
  <2>. QED  BY <1>3, <1>goto, <2>1 DEF ReadBalance
<1>4. ASSUME NEW c \in Caller, InitialDeposit(c) PROVE SpendAccounting'
  <2>1. ASSUME MinBound <= call[c].max
        PROVE  Acc("initWait", [call[c] EXCEPT !.tx = "pending", !.attached = @ + MinBound])
    BY <1>4, <1>all, <1>types, <2>1, ContractAssumption DEF InitialDeposit, CallRec
  <2>2. \/ Return(c, "err")
        \/ /\ MinBound <= call[c].max
           /\ Goto(c, "initWait", [call[c] EXCEPT !.tx = "pending", !.attached = @ + MinBound])
    BY <1>4, <1>types, ContractAssumption DEF InitialDeposit, Send, CallRec
  <2>. QED  BY <2>1, <2>2, <1>goto, <1>return
<1>5. ASSUME NEW c \in Caller, InitialDeposited(c) PROVE SpendAccounting'
  <2>1. Acc("snapBalance", [Settled(c) EXCEPT !.initial = MinBound])
    BY <1>5, <1>all, <1>types DEF InitialDeposited, Settled, CallRec
  <2>. QED  BY <1>5, <1>goto, <2>1 DEF InitialDeposited
<1>6. ASSUME NEW c \in Caller, SnapshotBalance(c) PROVE SpendAccounting'
  <2>1. \A x, y : Acc("snapDeposits", [call[c] EXCEPT !.total = x, !.available = y])
    BY <1>6, <1>all, <1>types DEF SnapshotBalance, CallRec
  <2>. QED  BY <1>6, <1>goto, <1>return, <2>1 DEF SnapshotBalance
<1>7. ASSUME NEW c \in Caller, MakePlan(c) PROVE SpendAccounting'
  <2>1. \A label \in {"register", "verify", "recompute"} : \A x :
          Acc(label, [call[c] EXCEPT !.total = 0, !.available = 0, !.plan = x])
    BY <1>7, <1>all, <1>types DEF MakePlan, CallRec
  <2>2. \/ Return(c, "err")
        \/ \E label \in {"register", "verify", "recompute"} : \E x :
             Goto(c, label, [call[c] EXCEPT !.total = 0, !.available = 0, !.plan = x])
    BY <1>7 DEF MakePlan
  <2>. QED  BY <2>1, <2>2, <1>goto, <1>return
<1>8. ASSUME NEW c \in Caller, VerifyUnregister(c) PROVE SpendAccounting'
  <2>1. \A label \in {"recompute", "unregister"} : \A x :
          Acc(label, [call[c] EXCEPT !.verified = x])
    BY <1>8, <1>all, <1>types DEF VerifyUnregister, CallRec
  <2>2. \E label \in {"recompute", "unregister"} : \E x :
          Goto(c, label, [call[c] EXCEPT !.verified = x])
    BY <1>8 DEF VerifyUnregister
  <2>. QED  BY <2>1, <2>2, <1>goto
<1>9. ASSUME NEW c \in Caller, SendUnregister(c) PROVE SpendAccounting'
  <2>1. Acc("unregWait", [call[c] EXCEPT !.tx = "pending", !.attached = @ + 0])
    BY <1>9, <1>all, <1>types DEF SendUnregister, CallRec
  <2>. QED  BY <1>9, <1>goto, <2>1 DEF SendUnregister, Send
<1>10. ASSUME NEW c \in Caller, NEW r, pc[c] \in {"unregister", "unregWait"},
              r.attached = call[c].attached, r.initial = call[c].initial, r.max = call[c].max,
              \A x : /\ [r EXCEPT !.verified = x].attached = r.attached
                     /\ [r EXCEPT !.verified = x].initial = r.initial
                     /\ [r EXCEPT !.verified = x].max = r.max,
              NextChunk(c, r)
       PROVE  SpendAccounting'
  <2>1. \A label \in {"recompute", "unregister"} : \A x : Acc(label, [r EXCEPT !.verified = x])
    BY <1>10, <1>all, <1>types
  <2>2. \E label \in {"recompute", "unregister"} : \E x :
          Goto(c, label, [r EXCEPT !.verified = x])
    BY <1>10 DEF NextChunk
  <2>. QED  BY <2>1, <2>2, <1>goto
<1>11. ASSUME NEW c \in Caller, UnregisterSettled(c) \/ UnregisterNotSent(c)
       PROVE  SpendAccounting'
  <2> DEFINE Keeps(r) ==
        /\ r.attached = call[c].attached /\ r.initial = call[c].initial
        /\ r.max = call[c].max
        /\ \A x : /\ [r EXCEPT !.verified = x].attached = r.attached
                  /\ [r EXCEPT !.verified = x].initial = r.initial
                  /\ [r EXCEPT !.verified = x].max = r.max
  <2>a. Keeps(Settled(c)) /\ Keeps(call[c])
    BY <1>types DEF Settled, CallRec
  <2>b. \A b : /\ Keeps([Settled(c) EXCEPT !.clean = b])
               /\ Keeps([call[c] EXCEPT !.clean = b])
    BY <1>types DEF Settled, CallRec
  <2>c. Keeps(AfterAbandon(c))
    <3>. HIDE DEF Keeps
    <3>. QED  BY <2>b, Zenon DEF AfterAbandon
  <2> DEFINE orphaned == [call[c] EXCEPT !.clean = FALSE]
  <2>d. Keeps(orphaned)
    BY <2>b
  <2>1. \E r : /\ r \in {Settled(c), AfterAbandon(c), call[c], orphaned}
               /\ NextChunk(c, r) /\ pc[c] \in {"unregister", "unregWait"}
    BY <1>11 DEF UnregisterSettled, UnregisterNotSent
  <2>2. \E r : Keeps(r) /\ NextChunk(c, r) /\ pc[c] \in {"unregister", "unregWait"}
    <3>. HIDE DEF Keeps, orphaned
    <3>. QED  BY <2>a, <2>c, <2>d, <2>1
  <2>. QED  BY <1>10, <2>2
<1>12. ASSUME NEW c \in Caller, Recompute(c) PROVE SpendAccounting'
  <2>1. PICK seen \in Views :
          LET topup == SaturatingSub(call[c].plan.estimate, StorageAvailable(seen))
          IN  IF ~seen.registered \/ topup > call[c].max - call[c].initial
              THEN Return(c, "err")
              ELSE Goto(c, IF topup = 0 THEN "register" ELSE "topup",
                        [call[c] EXCEPT !.topup = topup])
    BY <1>12 DEF Recompute
  <2>2. SaturatingSub(call[c].plan.estimate, StorageAvailable(seen)) \in Nat
    <3>1. StorageAvailable(seen) \in Nat
      BY AvailableNat DEF TypeOK, Views
    <3>2. call[c].plan.estimate \in Nat
      BY <1>types DEF CallRec, PlanRec
    <3>. QED  BY <3>1, <3>2 DEF SaturatingSub
  <2>3. ASSUME NEW n \in Nat, ~(n > call[c].max - call[c].initial)
        PROVE  Acc(IF n = 0 THEN "register" ELSE "topup", [call[c] EXCEPT !.topup = n])
    BY <1>12, <1>all, <1>types, <2>3 DEF Recompute, CallRec
  <2> DEFINE n == SaturatingSub(call[c].plan.estimate, StorageAvailable(seen))
  <2>4. CASE ~seen.registered \/ n > call[c].max - call[c].initial
    BY <2>1, <2>4, <1>return
  <2>5. CASE seen.registered /\ ~(n > call[c].max - call[c].initial)
    <3>1. Goto(c, IF n = 0 THEN "register" ELSE "topup", [call[c] EXCEPT !.topup = n])
      BY <2>1, <2>5
    <3>2. Acc(IF n = 0 THEN "register" ELSE "topup", [call[c] EXCEPT !.topup = n])
      BY <2>2, <2>3, <2>5
    <3>. HIDE DEF n, Acc
    <3>. QED  BY <3>1, <3>2, <1>goto
  <2>. QED  BY <2>4, <2>5
<1>12a. ASSUME NEW c \in Caller, SendTopUp(c) PROVE SpendAccounting'
  <2>1. Acc("topupWait", [[call[c] EXCEPT !.topup = 0] EXCEPT
                            !.tx = "pending", !.attached = @ + call[c].topup])
    BY <1>12a, <1>all, <1>types DEF SendTopUp, CallRec
  <2>. QED  BY <1>12a, <1>goto, <2>1 DEF SendTopUp, Send
<1>13. ASSUME NEW c \in Caller, ToppedUp(c) PROVE SpendAccounting'
  <2>1. Acc("register", Settled(c))
    BY <1>13, <1>all, <1>types DEF ToppedUp, Settled, CallRec
  <2>. QED  BY <1>13, <1>goto, <2>1 DEF ToppedUp
<1>14. ASSUME NEW c \in Caller, SendRegister(c) PROVE SpendAccounting'
  <2>1. Acc("regWait", [call[c] EXCEPT !.tx = "pending", !.attached = @ + 0])
    BY <1>14, <1>all, <1>types DEF SendRegister, CallRec
  <2>. QED  BY <1>14, <1>goto, <1>return, <2>1 DEF SendRegister, Send
<1>15. ASSUME NEW c \in Caller,
              \/ Registered(c) \/ TxFailed(c) \/ TxTimeout(c) \/ RpcError(c)
              \/ OrphanedSend(c)
       PROVE  SpendAccounting'
  BY <1>15, <1>return DEF Registered, TxFailed, TxTimeout, RpcError, Fail, OrphanedSend
<1>16. CASE Execute \/ WalletDeposit \/ WalletSwap \/ CatchUp \/ UNCHANGED vars
  <2>1. pc' = pc
    BY <1>16 DEF Execute, WalletDeposit, WalletSwap, CatchUp, vars
  <2>2. \A c \in Caller : /\ call'[c].attached = call[c].attached
                          /\ call'[c].initial = call[c].initial
                          /\ call'[c].max = call[c].max
                          /\ call'[c].topup = call[c].topup
    BY <1>16, <1>types DEF Execute, WalletDeposit, WalletSwap, CatchUp, vars, CallRec
  <2>. QED  BY <1>all, <1>prime, <2>1, <2>2
<1>. QED
  BY <1>1, <1>2, <1>3, <1>4, <1>5, <1>6, <1>7, <1>8, <1>9, <1>11, <1>12, <1>12a, <1>13,
     <1>14, <1>15, <1>16
  DEF Next, Step

\* Theorem: whatever the views answer, whichever transactions are lost or
\* late, and however many tasks and processes share the wallet, a call of
\* ensure_ref_storage_setup attaches at most its max_top_up.
THEOREM SpendWithinCap == Spec => []CallSpendWithinCap
<1>1. Init => SpendAccounting
  BY DEF Init, SpendAccounting, NewCall
<1>2. TypeOK /\ SpendAccounting => CallSpendWithinCap
  BY DEF TypeOK, SpendAccounting, CallSpendWithinCap, CallRec, Labels
<1>. QED  BY <1>1, <1>2, NextAccounted, TypeCorrect, PTL DEF Spec
=============================================================================
