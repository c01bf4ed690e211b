--------------------------- MODULE StoragePlanner ---------------------------
(***************************************************************************)
(* The pure storage planner of crates/blockchain/src/ref_finance/storage/  *)
(* planner.rs.  A snapshot of the account's storage on the REF exchange is *)
(* a record                                                                *)
(*    total, available  what storage_balance_of returned                   *)
(*    deposits          what get_deposits returned: token -> balance       *)
(*    min               storage_balance_bounds().min                       *)
(* Tokens are naturals so that their order is the order of the BTreeMap    *)
(* the code walks when it picks the tokens to unregister.                  *)
(***************************************************************************)
EXTENDS Integers, FiniteSets

CONSTANTS
  MaxRegisterPerCycle,  \* MAX_REGISTER_PER_CYCLE
  U128Max               \* largest amount the checked_* operations accept

ASSUME PlannerAssumption == MaxRegisterPerCycle \in Nat /\ U128Max \in Nat

SafetyMarginNumerator == 11
SafetyMarginDenominator == 10

\* Mutant: underflow.
PlainSub(a, b) == a - b

\* u128::saturating_sub and u128::div_ceil.
SaturatingSub(a, b) == IF a > b THEN a - b ELSE 0
DivCeil(a, b) == (a + b - 1) \div b

\* Estimated storage cost of one token: the average over the registered
\* tokens, never below the account minimum.
PerToken(snap) ==
  LET usable == SaturatingSub(snap.total - snap.available, snap.min)
      calc   == DivCeil(usable, Cardinality(DOMAIN snap.deposits))
  IN  IF calc > snap.min THEN calc ELSE snap.min

\* Mutant: only one token is paid for.
NeededRawForOne(snap, register) == PerToken(snap)

\* needed_u128 before and after the safety margin.
NeededRaw(snap, register) == PerToken(snap) * Cardinality(register)
Needed(snap, register) ==
  DivCeil(NeededRaw(snap, register) * SafetyMarginNumerator,
          SafetyMarginDenominator)

ToRegister(snap, requested) == requested \ DOMAIN snap.deposits

\* Mutant: tokens the caller asked for may be unregistered.
CandidatesRequestedToo(snap, requested, keep) ==
  {t \in DOMAIN snap.deposits : snap.deposits[t] = 0} \ keep

\* Registered tokens with no balance that nobody asked for.
Candidates(snap, requested, keep) ==
  {t \in DOMAIN snap.deposits : snap.deposits[t] = 0} \ (keep \cup requested)

\* Vec::truncate on a list in BTreeMap order.
FirstInKeyOrder(S, k) == {t \in S : Cardinality({u \in S : u < t}) < k}

PlanErr == [kind |-> "Err", unregister |-> {}, register |-> {}, estimate |-> 0]

\* planner::plan for an account that has no registered token.
PlanInitial(requested) ==
  IF Cardinality(requested) > MaxRegisterPerCycle
  THEN PlanErr
  ELSE [kind |-> "InitialRegister", unregister |-> {},
        register |-> requested, estimate |-> 0]

\* TooManyTokens and ArithmeticOverflow.
Rejected(snap, register) ==
  \/ snap.total < snap.available
  \/ Cardinality(register) > MaxRegisterPerCycle
  \/ NeededRaw(snap, register) > U128Max
  \/ NeededRaw(snap, register) * SafetyMarginNumerator > U128Max

\* planner::plan for an account that has registered tokens.
PlanNormal(snap, requested, keep) ==
  LET register == ToRegister(snap, requested)
      needed   == Needed(snap, register)
      shortage == SaturatingSub(needed, snap.available)
  IN  IF Rejected(snap, register)
      THEN PlanErr
      ELSE [kind |-> "Normal",
            unregister |->
              IF needed <= snap.available
              THEN {}
              ELSE FirstInKeyOrder(Candidates(snap, requested, keep),
                                   DivCeil(shortage, PerToken(snap))),
            register |-> register,
            estimate |-> needed]

Plan(snap, requested, keep) ==
  IF DOMAIN snap.deposits = {}
  THEN PlanInitial(requested)
  ELSE PlanNormal(snap, requested, keep)
=============================================================================
