----------------------------- MODULE RefStorage -----------------------------
(***************************************************************************)
(* ensure_ref_storage_setup of crates/blockchain/src/ref_finance/          *)
(* storage.rs, called over and over by the tasks that share one wallet     *)
(* (the trade job, its swaps and the arbitrage loop), against the REF      *)
(* exchange contract.                                                      *)
(*                                                                         *)
(* Every view call and every transaction is a step of its own.  A          *)
(* transaction is signed with the nonce that follows the last finalized    *)
(* one (near_client.rs, send_tx), so all transactions that are broadcast   *)
(* and not yet executed carry the same nonce: the chain executes one of    *)
(* them and the others can never execute.  `pool' is that set.  A caller   *)
(* waits for its transaction (sent_tx.rs, wait_for_success); it may give   *)
(* up, on a polling error or after MAX_ATTEMPTS polls, and the transaction *)
(* it leaves behind may still execute.  TxPool states this, and TxClient    *)
(* shows that near_client.rs and sent_tx.rs implement it.                  *)
(***************************************************************************)
EXTENDS StoragePlanner, RefContract

CONSTANTS
  Caller,       \* tasks that call ensure_ref_storage_setup
  Process,      \* operating system processes, each with its own lock map
  ProcessOf,    \* Caller -> Process
  None,         \* no caller
  Token,        \* a set of naturals
  Wnear,        \* WNEAR_TOKEN
  Needs,        \* sets of tokens that a caller may ask for
  Configured,   \* values of REF_STORAGE_MAX_TOP_UP_YOCTONEAR
  Ceiling,      \* REF_STORAGE_MAX_TOP_UP_ABSOLUTE_CEILING
  ChunkSize,    \* CHUNK_SIZE of unregister_tokens
  Faults,       \* views and sends may fail, callers may give up waiting
  StaleViews,   \* a lagging RPC node may answer a view
  Wallet,       \* the wallet's other transactions are part of the behaviour
  Legacy,       \* tokens the account may still hold in the older form
  Slack,        \* amounts of unused storage balance in an initial state
  MaxCalls      \* bound on the number of calls; 0: unbounded, not counted

ASSUME StorageAssumption ==
  /\ None \notin Caller
  /\ ProcessOf \in [Caller -> Process]
  /\ Token \subseteq Nat /\ IsFiniteSet(Token) /\ Wnear \in Token
  /\ Needs \subseteq SUBSET Token
  /\ Configured \subseteq Nat /\ Ceiling \in Nat
  /\ ChunkSize \in Nat \ {0}
  /\ Faults \in BOOLEAN /\ StaleViews \in BOOLEAN /\ Wallet \in BOOLEAN
  /\ Legacy \subseteq Token /\ Slack \subseteq Nat /\ MaxCalls \in Nat

VARIABLES
  acct,    \* the account on the exchange
  replica, \* the account as a lagging RPC node still sees it
  pool,    \* transactions broadcast and not executed, all with the next nonce
  lock,    \* REF_STORAGE_LOCKS: holder of the account's mutex in a process
  pc,      \* where each caller is in ensure_ref_storage_setup
  call,    \* locals of each caller's current call
  calls,   \* calls made so far, to bound them
  budget   \* history: the storage balance at the start and the caps of all calls

chain == <<acct, replica>>
count == <<calls, budget>>
vars == <<acct, replica, pool, lock, pc, call, calls, budget>>

-----------------------------------------------------------------------------
(* Arguments. *)

KeepWnearOnly == {Wnear}
KeepWithPortfolio(tokens) == tokens \cup {Wnear}
MaxTopUpFromConfig(configured) ==
  IF configured < Ceiling THEN configured ELSE Ceiling

Op == [kind : {"init", "topup", "register", "unregister"},
       tokens : SUBSET Token, amount : Nat, by : Caller \cup {None}]

\* needed .. max: the arguments.  initial .. verified: locals of the function.
\* tx: what is known of the transaction the caller waits for.
\* attached .. result are history, only properties use them:
\*   attached  NEAR sent with storage_deposit in this call
\*   clean     no transaction abandoned by a caller can still execute
\*   quiet     nobody else registered a token since the call took the lock
\*   doomed    tokens that an unregister left behind by an earlier call names
NoPlan == PlanErr
NewCall(needed, keep, max) ==
  [needed |-> needed, keep |-> keep, max |-> max,
   initial |-> 0, total |-> 0, available |-> 0, plan |-> NoPlan,
   verified |-> {}, topup |-> 0, tx |-> "none",
   attached |-> 0, clean |-> FALSE, quiet |-> TRUE, doomed |-> {}, result |-> "none"]

Labels == {"idle", "lock", "balance", "bounds", "initWait", "snapBalance",
           "snapDeposits", "verify", "unregister", "unregWait", "recompute",
           "topup", "topupWait", "register", "regWait"}

\* The storage code only asks whether a token's balance is zero.
Balance == {0, 1}

Deposits == UNION {[D -> Balance] : D \in SUBSET Token}

\* The initial accounts are those a history of calls can leave behind.
Opened(d, old, s) ==
  LET a == [registered |-> TRUE, near |-> 0, deposits |-> d, legacy |-> DOMAIN d \cap old]
  IN  [a EXCEPT !.near = StorageUsage(a) + s]
InitAccounts ==
  {NoAccount} \cup {Opened(d, old, s) : d \in Deposits, old \in SUBSET Legacy, s \in Slack}

Init ==
  /\ acct \in InitAccounts
  /\ replica \in IF StaleViews THEN {acct, NoAccount} ELSE {acct}
  /\ pool = {}
  /\ lock = [p \in Process |-> None]
  /\ pc = [c \in Caller |-> "idle"]
  /\ call = [c \in Caller |-> NewCall({}, {}, 0)]
  /\ calls = 0
  /\ budget = acct.near

-----------------------------------------------------------------------------
(* Steps shared by the parts of the function. *)

Goto(c, label, locals) ==
  /\ pc' = [pc EXCEPT ![c] = label]
  /\ call' = [call EXCEPT ![c] = locals]
  /\ UNCHANGED lock

\* Every return drops the guard of the account's mutex, and the locals.
Return(c, result) ==
  /\ pc' = [pc EXCEPT ![c] = "idle"]
  /\ call' = [call EXCEPT ![c] = [NewCall({}, {}, 0) EXCEPT !.result = result]]
  /\ lock' = [lock EXCEPT ![ProcessOf[c]] = None]

\* What a view may be answered from.
Views == {acct, replica}

\* A view or a send that fails: the ? operator returns the error.
Fail(c) ==
  /\ Faults
  /\ Return(c, "err")
  /\ UNCHANGED <<chain, pool, count>>

\* A broadcast that fails although a node has the transaction.
Orphan(kind, tokens, amount) ==
  pool' = pool \cup {[kind |-> kind, tokens |-> tokens, amount |-> amount, by |-> None]}

\* exec_contract: sign with the next nonce and broadcast.
Send(c, label, kind, tokens, amount, locals) ==
  /\ pool' = pool \cup {[kind |-> kind, tokens |-> tokens, amount |-> amount, by |-> c]}
  /\ Goto(c, label, [locals EXCEPT !.tx = "pending", !.attached = @ + amount])
  /\ UNCHANGED <<chain, count>>

\* wait_for_success ends with the outcome of the transaction.
Awaited(c, outcome) == call[c].tx = outcome
Settled(c) == [call[c] EXCEPT !.tx = "none"]

\* wait_for_success gives up.  A transaction that the chain executed none
\* of is left in the pool; nobody waits for it any more.
Mine(c) == {op \in pool : op.by = c}
\* Mutant: wait_for_success never gives up.
WaitForever(c) == FALSE

MayGiveUp(c) == call[c].tx = "pending" /\ (Faults \/ Mine(c) = {})
Abandon(c) == (pool \ Mine(c)) \cup {[op EXCEPT !.by = None] : op \in Mine(c)}
AfterAbandon(c) == [Settled(c) EXCEPT !.clean = @ /\ Mine(c) = {}]

-----------------------------------------------------------------------------
(* ensure_ref_storage_setup, in program order. *)

Counted(max) ==
  IF MaxCalls = 0
  THEN UNCHANGED count
  ELSE calls' = calls + 1 /\ budget' = budget + max

\* A caller enters with the keep list of the trade strategy or of a swap.
\* Too many tokens are refused before the lock is taken.
Call(c) ==
  /\ pc[c] = "idle"
  /\ MaxCalls = 0 \/ calls < MaxCalls
  /\ \E needed \in Needs, configured \in Configured :
     \E keep \in {KeepWnearOnly, KeepWithPortfolio(needed)} :
       LET new == NewCall(needed, keep, MaxTopUpFromConfig(configured))
       IN  /\ Counted(new.max)
           /\ IF Cardinality(needed) > MaxRegisterPerCycle
              THEN Goto(c, "idle", [NewCall({}, {}, 0) EXCEPT !.result = "err"])
              ELSE Goto(c, "lock", new)
  /\ UNCHANGED <<chain, pool>>

\* What a call starts from: the transactions that earlier calls left behind.
LeftBehind(locals) ==
  [locals EXCEPT !.clean = (pool = {}),
                 !.doomed = UNION {op.tokens : op \in {o \in pool : o.kind = "unregister"}}]

\* Mutant: the mutex covers the planning only and is free once the top-up is
\* about to be sent.
AcquireLockPlanOnly(c) ==
  /\ pc[c] = "lock"
  /\ \/ lock[ProcessOf[c]] = None
     \/ \E d \in Caller : lock[ProcessOf[c]] = d /\ pc[d] = "topup"
  /\ lock' = [lock EXCEPT ![ProcessOf[c]] = c]
  /\ pc' = [pc EXCEPT ![c] = "balance"]
  /\ call' = [call EXCEPT ![c] = LeftBehind(call[c])]
  /\ UNCHANGED <<chain, pool, count>>

AcquireLock(c) ==
  /\ pc[c] = "lock"
  /\ lock[ProcessOf[c]] = None
  /\ lock' = [lock EXCEPT ![ProcessOf[c]] = c]
  /\ pc' = [pc EXCEPT ![c] = "balance"]
  /\ call' = [call EXCEPT ![c] = LeftBehind(call[c])]
  /\ UNCHANGED <<chain, pool, count>>

\* Step 1: is the account registered at all?
ReadBalance(c) ==
  /\ pc[c] = "balance"
  /\ \E seen \in Views :
       Goto(c, IF seen.registered THEN "snapBalance" ELSE "bounds", call[c])
  /\ UNCHANGED <<chain, pool, count>>

\* Step 1: the cap check and the initial deposit of exactly bounds.min.
InitialDeposit(c) ==
  /\ pc[c] = "bounds"
  /\ IF MinBound > call[c].max
     THEN Return(c, "err") /\ UNCHANGED <<chain, pool, count>>
     ELSE Send(c, "initWait", "init", {}, MinBound, call[c])

InitialDeposited(c) ==
  /\ pc[c] = "initWait"
  /\ Awaited(c, "ok")
  /\ Goto(c, "snapBalance", [Settled(c) EXCEPT !.initial = MinBound])
  /\ UNCHANGED <<chain, pool, count>>

\* Step 2: the balance of the snapshot.
SnapshotBalance(c) ==
  /\ pc[c] = "snapBalance"
  /\ \E seen \in Views :
       IF seen.registered
       THEN Goto(c, "snapDeposits",
                 [call[c] EXCEPT !.total = seen.near, !.available = StorageAvailable(seen)])
       ELSE Return(c, "err")
  /\ UNCHANGED <<chain, pool, count>>

\* Step 2: the deposits of the snapshot, and the plan.
MakePlan(c) ==
  /\ pc[c] = "snapDeposits"
  /\ \E seen \in Views :
     LET snap == [total |-> call[c].total, available |-> call[c].available,
                  deposits |-> seen.deposits, min |-> MinBound]
         plan == Plan(snap, call[c].needed, call[c].keep)
         next == IF plan.kind = "InitialRegister" THEN "register"
                 ELSE IF plan.unregister # {} THEN "verify"
                 ELSE "recompute"
     IN  IF plan.kind = "Err"
         THEN Return(c, "err")
         ELSE Goto(c, next, [call[c] EXCEPT !.total = 0, !.available = 0, !.plan = plan])
  /\ UNCHANGED <<chain, pool, count>>

\* Step 3: the candidates are checked again on fresh deposits.
VerifyUnregister(c) ==
  /\ pc[c] = "verify"
  /\ \E seen \in Views :
     LET fresh == {t \in call[c].plan.unregister :
                     /\ t \in DOMAIN seen.deposits
                     /\ seen.deposits[t] = 0
                     /\ t \notin call[c].keep}
     IN  Goto(c, IF fresh = {} THEN "recompute" ELSE "unregister",
              [call[c] EXCEPT !.verified = fresh])
  /\ UNCHANGED <<chain, pool, count>>

Chunk(c) == FirstInKeyOrder(call[c].verified, ChunkSize)

\* Step 3: one chunk is sent; its failure is logged and the loop goes on.
SendUnregister(c) ==
  /\ pc[c] = "unregister"
  /\ Send(c, "unregWait", "unregister", Chunk(c), 0, call[c])

NextChunk(c, locals) ==
  LET rest == call[c].verified \ Chunk(c)
  IN  Goto(c, IF rest = {} THEN "recompute" ELSE "unregister",
           [locals EXCEPT !.verified = rest])

UnregisterSettled(c) ==
  /\ pc[c] = "unregWait"
  /\ \/ (Awaited(c, "ok") \/ Awaited(c, "failed")) /\ NextChunk(c, Settled(c))
        /\ UNCHANGED pool
     \/ MayGiveUp(c) /\ NextChunk(c, AfterAbandon(c)) /\ pool' = Abandon(c)
  /\ UNCHANGED <<chain, count>>

UnregisterNotSent(c) ==
  /\ pc[c] = "unregister"
  /\ Faults
  /\ \/ NextChunk(c, call[c]) /\ UNCHANGED pool
     \/ NextChunk(c, [call[c] EXCEPT !.clean = FALSE]) /\ Orphan("unregister", Chunk(c), 0)
  /\ UNCHANGED <<chain, count>>

\* Mutant: no cap check before the top-up.
RecomputeUncapped(c) ==
  /\ pc[c] = "recompute"
  /\ \E seen \in Views :
     LET topup == SaturatingSub(call[c].plan.estimate, StorageAvailable(seen))
     IN  IF ~seen.registered
         THEN Return(c, "err")
         ELSE Goto(c, IF topup = 0 THEN "register" ELSE "topup",
                   [call[c] EXCEPT !.topup = topup])
  /\ UNCHANGED <<chain, pool, count>>

\* Mutant: the initial deposit is not counted against the cap.
RecomputeWholeCap(c) ==
  /\ pc[c] = "recompute"
  /\ \E seen \in Views :
     LET topup == SaturatingSub(call[c].plan.estimate, StorageAvailable(seen))
     IN  IF ~seen.registered \/ topup > call[c].max
         THEN Return(c, "err")
         ELSE Goto(c, IF topup = 0 THEN "register" ELSE "topup",
                   [call[c] EXCEPT !.topup = topup])
  /\ UNCHANGED <<chain, pool, count>>

\* Steps 4 and 5: the top-up from the storage that is available now, within
\* what the initial deposit left of the cap.
Recompute(c) ==
  /\ pc[c] = "recompute"
  /\ \E seen \in Views :
     LET topup == SaturatingSub(call[c].plan.estimate, StorageAvailable(seen))
     IN  IF ~seen.registered \/ topup > call[c].max - call[c].initial
         THEN Return(c, "err")
         ELSE Goto(c, IF topup = 0 THEN "register" ELSE "topup",
                   [call[c] EXCEPT !.topup = topup])
  /\ UNCHANGED <<chain, pool, count>>

\* Step 6.
SendTopUp(c) ==
  /\ pc[c] = "topup"
  /\ Send(c, "topupWait", "topup", {}, call[c].topup, [call[c] EXCEPT !.topup = 0])

ToppedUp(c) ==
  /\ pc[c] = "topupWait"
  /\ Awaited(c, "ok")
  /\ Goto(c, "register", Settled(c))
  /\ UNCHANGED <<chain, pool, count>>

\* Mutant: register_tokens is not awaited.
SendRegisterUnawaited(c) ==
  /\ pc[c] = "register"
  /\ pool' = pool \cup {[kind |-> "register", tokens |-> call[c].plan.register,
                         amount |-> 0, by |-> None]}
  /\ Return(c, "ok")
  /\ UNCHANGED <<chain, count>>

\* Step 7, and the whole of handle_initial_register.
SendRegister(c) ==
  /\ pc[c] = "register"
  /\ IF call[c].plan.register = {}
     THEN Return(c, "ok") /\ UNCHANGED <<chain, pool, count>>
     ELSE Send(c, "regWait", "register", call[c].plan.register, 0, call[c])

Registered(c) ==
  /\ pc[c] = "regWait"
  /\ Awaited(c, "ok")
  /\ Return(c, "ok")
  /\ UNCHANGED <<chain, pool, count>>

\* A deposit or register_tokens that the contract refused ends the call.
TxFailed(c) ==
  /\ pc[c] \in {"initWait", "topupWait", "regWait"}
  /\ Awaited(c, "failed")
  /\ Return(c, "err")
  /\ UNCHANGED <<chain, pool, count>>

\* So does a deposit or register_tokens the caller no longer waits for.
TxTimeout(c) ==
  /\ pc[c] \in {"initWait", "topupWait", "regWait"}
  /\ MayGiveUp(c)
  /\ Return(c, "err")
  /\ pool' = Abandon(c)
  /\ UNCHANGED <<chain, count>>

\* A view call, or the broadcast of a deposit or of register_tokens, fails.
RpcError(c) ==
  /\ pc[c] \in {"balance", "bounds", "snapBalance", "snapDeposits", "verify",
                "recompute", "topup", "register"}
  /\ Fail(c)

\* The same, but the transaction is on its way.
OrphanedSend(c) ==
  /\ Faults
  /\ \/ pc[c] = "bounds" /\ MinBound <= call[c].max /\ Orphan("init", {}, MinBound)
     \/ pc[c] = "topup" /\ Orphan("topup", {}, call[c].topup)
     \/ pc[c] = "register" /\ call[c].plan.register # {}
        /\ Orphan("register", call[c].plan.register, 0)
  /\ Return(c, "err")
  /\ UNCHANGED <<chain, count>>

Step(c) ==
  \/ AcquireLock(c) \/ ReadBalance(c) \/ InitialDeposit(c) \/ InitialDeposited(c)
  \/ SnapshotBalance(c) \/ MakePlan(c) \/ VerifyUnregister(c)
  \/ SendUnregister(c) \/ UnregisterSettled(c) \/ UnregisterNotSent(c)
  \/ Recompute(c) \/ SendTopUp(c) \/ ToppedUp(c) \/ SendRegister(c) \/ Registered(c)
  \/ TxFailed(c) \/ TxTimeout(c) \/ RpcError(c) \/ OrphanedSend(c)

-----------------------------------------------------------------------------
(* The chain and the wallet's other transactions. *)

Apply(op) ==
  CASE op.kind = "init"       -> StorageRegister(acct, op.amount)
    [] op.kind = "topup"      -> StorageDeposit(acct, op.amount)
    [] op.kind = "register"   -> RegisterTokens(acct, op.tokens)
    [] op.kind = "unregister" -> UnregisterTokens(acct, op.tokens)

ReplicaLags == replica' = IF StaleViews THEN replica ELSE acct'

CatchUp ==
  /\ replica # acct
  /\ replica' = acct
  /\ UNCHANGED <<acct, pool, lock, pc, call, count>>

\* The chain executes one transaction of the pool; the nonce of all the
\* others is used up.
Execute ==
  \E op \in pool :
    /\ acct' = Apply(op).acct
    /\ pool' = {}
    /\ call' = [c \in Caller |->
         IF c = op.by
         THEN [call[c] EXCEPT !.tx = IF Apply(op).ok THEN "ok" ELSE "failed"]
         ELSE call[c]]
    /\ ReplicaLags
    /\ UNCHANGED <<lock, pc, count>>

\* A swap of another task moves the balance of a registered token.
WalletSwap ==
  /\ Wallet
  /\ \E t \in DOMAIN acct.deposits :
       acct' = [acct EXCEPT !.deposits[t] = 1 - @]
  /\ pool' = {}
  /\ ReplicaLags
  /\ UNCHANGED <<lock, pc, call, count>>

\* A transfer to the exchange registers the token it brings.
WalletDeposit ==
  /\ Wallet
  /\ \E t \in Token \ DOMAIN acct.deposits :
       /\ RegisterTokens(acct, {t}).ok
       /\ acct' = [RegisterTokens(acct, {t}).acct EXCEPT !.deposits[t] = 1]
  /\ pool' = {}
  /\ call' = [c \in Caller |-> [call[c] EXCEPT !.quiet = pc[c] \in {"idle", "lock"}]]
  /\ ReplicaLags
  /\ UNCHANGED <<lock, pc, count>>

Next ==
  \/ \E c \in Caller : Call(c) \/ Step(c)
  \/ Execute
  \/ WalletSwap
  \/ WalletDeposit
  \/ CatchUp

Spec == Init /\ [][Next]_vars

\* A task that called keeps running until it returns, tokio's mutex serves
\* the tasks that wait for it in the order they came, the chain executes
\* what is broadcast (unless another transaction of the wallet overtakes
\* it), and the tasks call again and again.
Fairness ==
  /\ \A c \in Caller : /\ WF_vars(Step(c)) /\ WF_vars(Call(c))
                        /\ SF_vars(AcquireLock(c))
  /\ WF_vars(Execute)
FairSpec == Spec /\ Fairness

-----------------------------------------------------------------------------
(* Properties. *)

PlanRec == [kind : {"InitialRegister", "Normal", "Err"}, unregister : SUBSET Token,
            register : SUBSET Token, estimate : Nat]
CallRec ==
  [needed : SUBSET Token, keep : SUBSET Token, max : Nat, initial : Nat,
   total : Nat, available : Nat, plan : PlanRec, verified : SUBSET Token,
   topup : Nat, tx : {"none", "pending", "ok", "failed"}, attached : Nat, clean : BOOLEAN,
   quiet : BOOLEAN, doomed : SUBSET Token, result : {"none", "ok", "err"}]
Acct == [registered : BOOLEAN, near : Nat, deposits : Deposits, legacy : SUBSET Token]

\* The state of the account, of the callers and of the pool of storage.rs
\* keeps its types; amounts stay naturals, so no subtraction underflows.
TypeOK ==
  /\ acct \in Acct /\ replica \in Acct
  /\ pool \subseteq Op
  /\ lock \in [Process -> Caller \cup {None}]
  /\ pc \in [Caller -> Labels]
  /\ call \in [Caller -> CallRec]
  /\ calls \in Nat /\ budget \in Nat

\* What a call attaches to storage_deposit, its initial deposit and its
\* top-up together, never exceeds the cap it was given, whatever the views
\* returned, and the checked_sub behind `remaining_cap' never panics.
CallSpendWithinCap ==
  \A c \in Caller : /\ call[c].attached <= call[c].max
                    /\ call[c].initial <= call[c].max

\* The retry contract of ensure_ref_storage_setup: the storage balance never
\* grows by more than the caps of the calls made, also when deposits that
\* callers gave up on execute late or views are stale.
StorageSpendWithinRetryBudget == acct.near <= budget

\* The per-account mutex does its job: as long as no abandoned transaction
\* is around, a top-up that executes brings the available storage to the
\* plan's estimate and no further, so it is never paid twice.
TopUpNeverDoubled ==
  [][\A c \in Caller :
       (/\ pc[c] = "topupWait" /\ call[c].clean
        /\ call[c].tx = "pending" /\ call'[c].tx = "ok")
       => StorageAvailable(acct') <= call[c].plan.estimate]_vars

\* While a call holds the mutex, nobody unregisters a token it needs or
\* keeps: not another caller, and not the call itself, its own unregister
\* transactions that it gave up on and that execute late included.  The one
\* exception is a token that an unregister_tokens left behind by an earlier
\* call names: the mutex does not cover that transaction any more.
ProtectedTokensStay ==
  [][\A c \in Caller :
       pc[c] \notin {"idle", "lock"}
       => \A t \in (call[c].needed \cup call[c].keep) \cap DOMAIN acct.deposits :
            t \in DOMAIN acct'.deposits \cup call[c].doomed]_vars

\* A call that returns Ok has all its tokens registered, whatever was
\* swapped, deposited or refused meanwhile, if no transaction that a caller
\* gave up on could still execute during the call (`clean').
OkMeansRegistered ==
  [][\A c \in Caller :
       (pc[c] # "idle" /\ pc'[c] = "idle" /\ call'[c].result = "ok" /\ call[c].clean)
       => call[c].needed \subseteq DOMAIN acct'.deposits]_vars

\* The only reason for which a Plan::Normal ends in a refused register_tokens
\* is the one storage.rs names at its top-up: the average per_token was lower
\* than what a new token takes, by more than the margin, because the account
\* held tokens of the older form.  Refused or failed unregister chunks and
\* swaps in between never are: the top-up is recomputed after them.  (Other
\* than that, another transaction may have registered a token since the call
\* began, or one that a caller gave up on may interfere.)
NormalRegisterAccepted ==
  \A c \in Caller :
    (/\ pc[c] = "regWait" /\ call[c].tx = "failed"
     /\ call[c].plan.kind = "Normal" /\ call[c].clean /\ call[c].quiet)
    => /\ call[c].plan.estimate < TokenCost * Cardinality(call[c].plan.register)
       /\ acct.legacy \cup (call[c].plan.unregister \cap Legacy) # {}

\* Every call returns: none of the failures leaves the mutex locked.
CallsReturn == \A c \in Caller : pc[c] # "idle" ~> pc[c] = "idle"

\* The Retry Contract in the doc of ensure_ref_storage_setup: "A
\* register_tokens rejection is recovered on the next cycle via a fresh
\* balance_of read".  Stated weakly: after a rejection some later call of
\* the same task returns Ok.
RejectionRecovered ==
  \A c \in Caller : (pc[c] = "regWait" /\ call[c].tx = "failed")
                    ~> (pc[c] = "idle" /\ call[c].result = "ok")
=============================================================================
