---------------------------- MODULE RefContract -----------------------------
(***************************************************************************)
(* The part of the REF exchange contract that the storage code talks to,   *)
(* as contract_spec.md (sections 2.2 and 2.5 to 2.9) describes it and as   *)
(* storage.rs and deposit.rs call it.  The contract is not part of the     *)
(* repository.  The state of one account is a record                       *)
(*    registered   the account exists on the exchange                      *)
(*    near         NEAR credited to its storage balance                    *)
(*    deposits     registered token -> balance                             *)
(*    legacy       registered tokens still stored in the older form, which *)
(*                 takes less storage (legacy_tokens of contract_spec.md)  *)
(* A call returns a record with the new account and whether it succeeded;  *)
(* a failed call leaves the account as it was.                             *)
(***************************************************************************)
EXTENDS Integers, FiniteSets

CONSTANTS
  MinBound,   \* storage_balance_bounds().min: cost of the account header
  TokenCost,  \* storage cost of one registered token
  LegacyCost  \* storage cost of one token kept in the older form

ASSUME ContractAssumption ==
  /\ MinBound \in Nat \ {0} /\ TokenCost \in Nat \ {0}
  /\ LegacyCost \in 1..TokenCost

NoAccount ==
  [registered |-> FALSE, near |-> 0, deposits |-> [t \in {} |-> 0], legacy |-> {}]

StorageUsage(acct) ==
  MinBound + LegacyCost * Cardinality(acct.legacy)
           + TokenCost * Cardinality(DOMAIN acct.deposits \ acct.legacy)
StorageAvailable(acct) ==
  IF acct.near > StorageUsage(acct) THEN acct.near - StorageUsage(acct) ELSE 0

Done(acct) == [ok |-> TRUE, acct |-> acct]
Failed(acct) == [ok |-> FALSE, acct |-> acct]

\* storage_deposit(registration_only): an account that exists already gets
\* everything back, a new one keeps MinBound.
StorageRegister(acct, amount) ==
  IF acct.registered
  THEN Done(acct)
  ELSE IF amount < MinBound
       THEN Failed(acct)
       ELSE Done([acct EXCEPT !.registered = TRUE, !.near = MinBound])

\* storage_deposit without registration_only: everything is credited.
StorageDeposit(acct, amount) ==
  IF ~acct.registered /\ amount < MinBound
  THEN Failed(acct)
  ELSE Done([acct EXCEPT !.registered = TRUE, !.near = @ + amount])

\* register_tokens: all or nothing, tokens already registered are skipped.
RegisterTokens(acct, tokens) ==
  LET all == DOMAIN acct.deposits \cup tokens
      new == [acct EXCEPT !.deposits =
                [t \in all |-> IF t \in DOMAIN @ THEN @[t] ELSE 0]]
  IN  IF acct.registered /\ StorageUsage(new) <= acct.near
      THEN Done(new)
      ELSE Failed(acct)

\* unregister_tokens: refused as a whole when a token has a balance.
UnregisterTokens(acct, tokens) ==
  IF acct.registered /\ \A t \in tokens \cap DOMAIN acct.deposits : acct.deposits[t] = 0
  THEN Done([acct EXCEPT !.deposits = [t \in DOMAIN @ \ tokens |-> @[t]],
                         !.legacy = @ \ tokens])
  ELSE Failed(acct)
=============================================================================
