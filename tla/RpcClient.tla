------------------------------ MODULE RpcClient ------------------------------
(***************************************************************************)
(* StandardRpcClient::call of crates/blockchain/src/jsonrpc/rpc.rs and the *)
(* EndpointPool of endpoint_pool.rs that all tasks of the process share.   *)
(*                                                                         *)
(* An endpoint that is marked as failed comes back when its reset time has *)
(* passed; time is abstracted to Expire, which may happen at any moment.   *)
(* Each time the pool takes its lock is a step of its own: next_endpoint   *)
(* looks for an available endpoint and clears the failures in two steps.   *)
(***************************************************************************)
EXTENDS Integers, Sequences, FiniteSets

CONSTANTS
  Caller,        \* tasks that make RPC calls
  RpcEndpoints,  \* startup.rpc_endpoints: sequence of [weight, maxRetries]
  RetryLimit,    \* retry_limit of the client
  U16Max,        \* largest value of the retry counter
  Networks       \* what endpoints may be like: those in bad never answer, those
                 \* in good always do; expiry: reset times pass meanwhile

ASSUME RpcAssumption ==
  /\ RpcEndpoints \in Seq([weight : Nat, maxRetries : Nat])
  /\ RetryLimit \in 0..U16Max /\ U16Max \in Nat
  /\ Networks \subseteq [bad : SUBSET Nat, good : SUBSET Nat, expiry : BOOLEAN]

VARIABLES
  net,       \* how the endpoints are; it does not change
  failed,    \* endpoints whose reset time lies in the future
  pc,        \* idle, select, clear or calling
  endpoint,  \* index of the endpoint in use
  total,     \* total_retry_count
  local,     \* endpoint_retry_count
  attempts,  \* history: requests of the current call
  result     \* none, ok (the answer or an error of its own) or limit

vars == <<net, failed, pc, endpoint, total, local, attempts, result>>

\* EndpointPool::new never leaves the pool empty.
Endpoints ==
  IF RpcEndpoints = <<>> THEN <<[weight |-> 100, maxRetries |-> 3]>> ELSE RpcEndpoints
Endpoint == 1..Len(Endpoints)
NoEndpoint == 0

Init ==
  /\ net \in Networks
  /\ failed = {}
  /\ pc = [c \in Caller |-> "idle"]
  /\ endpoint = [c \in Caller |-> NoEndpoint]
  /\ total = [c \in Caller |-> 0]
  /\ local = [c \in Caller |-> 0]
  /\ attempts = [c \in Caller |-> 0]
  /\ result = [c \in Caller |-> "none"]

-----------------------------------------------------------------------------
(* EndpointPool *)

\* Mutant: the failures are ignored.
AvailableAll == Endpoint

\* available_endpoints
Available == Endpoint \ failed

\* weighted_random_select: any endpoint with a weight, the first one when
\* none has any.
Selectable(available) ==
  LET weighted == {e \in available : Endpoints[e].weight > 0}
  IN  IF weighted = {}
      THEN {e \in available : \A f \in available : e <= f}
      ELSE weighted

Use(c, e) ==
  /\ endpoint' = [endpoint EXCEPT ![c] = e]
  /\ local' = [local EXCEPT ![c] = 0]
  /\ pc' = [pc EXCEPT ![c] = "calling"]

\* next_endpoint finds an available endpoint ...
Select(c) ==
  /\ pc[c] = "select"
  /\ IF Available = {}
     THEN pc' = [pc EXCEPT ![c] = "clear"] /\ UNCHANGED <<endpoint, local>>
     ELSE \E e \in Selectable(Available) : Use(c, e)
  /\ UNCHANGED <<net, failed, total, attempts, result>>

\* ... or forgets all failures and takes the first one; call sleeps and asks
\* again if there is none.
ClearFailures(c) ==
  /\ pc[c] = "clear"
  /\ failed' = {}
  /\ IF Endpoint = {}
     THEN pc' = [pc EXCEPT ![c] = "select"] /\ UNCHANGED <<endpoint, local>>
     ELSE Use(c, 1)
  /\ UNCHANGED <<net, total, attempts, result>>

\* Mutant: the mark is filed under a URL that is none of the pool's.
MarkFailedOther(e) == failed' = failed \cup {NoEndpoint}

MarkFailed(e) == failed' = failed \cup {e}

Expire ==
  /\ net.expiry
  /\ \E e \in failed : failed' = failed \ {e}
  /\ UNCHANGED <<net, pc, endpoint, total, local, attempts, result>>

-----------------------------------------------------------------------------
(* StandardRpcClient::call *)

Call(c) ==
  /\ pc[c] = "idle"
  /\ pc' = [pc EXCEPT ![c] = "select"]
  /\ total' = [total EXCEPT ![c] = 0]
  /\ local' = [local EXCEPT ![c] = 0]
  /\ attempts' = [attempts EXCEPT ![c] = 0]
  /\ result' = [result EXCEPT ![c] = "none"]
  /\ UNCHANGED <<net, failed, endpoint>>

Return(c, r) ==
  /\ pc' = [pc EXCEPT ![c] = "idle"]
  /\ result' = [result EXCEPT ![c] = r]

\* One request; the history of requests stops one past its limit.
MaxAttempts == RetryLimit + 2
Attempt(c) ==
  /\ pc[c] = "calling"
  /\ attempts' = [attempts EXCEPT ![c] = IF @ < MaxAttempts THEN @ + 1 ELSE @]

\* MaybeRetry::Through: an answer, or an error that a retry cannot cure.
Through(c) ==
  /\ Attempt(c)
  /\ endpoint[c] \notin net.bad
  /\ Return(c, "ok")
  /\ UNCHANGED <<net, failed, endpoint, total, local>>

\* total_retry_count += 1 wraps around in a release build.
Increment(n) == (n + 1) % (U16Max + 1)

\* Mutants: one request too many, one too few.
LimitReachedLate(c) == RetryLimit + 1 < Increment(total[c])
LimitReachedEarly(c) == RetryLimit <= Increment(total[c])

LimitReached(c) == RetryLimit < Increment(total[c])

\* MaybeRetry::Retry: the same endpoint again, up to its max_retries.
Retry(c) ==
  /\ Attempt(c)
  /\ endpoint[c] \notin net.good
  /\ total' = [total EXCEPT ![c] = Increment(@)]
  /\ IF LimitReached(c)
     THEN Return(c, "limit") /\ UNCHANGED <<failed, local>>
     ELSE /\ local' = [local EXCEPT ![c] = @ + 1]
          /\ IF local'[c] > Endpoints[endpoint[c]].maxRetries
             THEN /\ MarkFailed(endpoint[c])
                  /\ pc' = [pc EXCEPT ![c] = "select"]
             ELSE UNCHANGED <<failed, pc>>
          /\ UNCHANGED result
  /\ UNCHANGED <<net, endpoint>>

\* Mutant: a switch does not count as a retry.
SwitchUncounted(c) ==
  /\ Attempt(c)
  /\ endpoint[c] \notin net.good
  /\ MarkFailed(endpoint[c])
  /\ pc' = [pc EXCEPT ![c] = "select"]
  /\ UNCHANGED <<net, endpoint, local, total, result>>

\* MaybeRetry::SwitchEndpoint: TooManyRequests marks the endpoint at once.
SwitchEndpoint(c) ==
  /\ Attempt(c)
  /\ endpoint[c] \notin net.good
  /\ MarkFailed(endpoint[c])
  /\ total' = [total EXCEPT ![c] = Increment(@)]
  /\ IF LimitReached(c)
     THEN Return(c, "limit")
     ELSE pc' = [pc EXCEPT ![c] = "select"] /\ UNCHANGED result
  /\ UNCHANGED <<net, endpoint, local>>

Step(c) ==
  Select(c) \/ ClearFailures(c) \/ Through(c) \/ Retry(c) \/ SwitchEndpoint(c)

Next == Expire \/ \E c \in Caller : Call(c) \/ Step(c)

Spec == Init /\ [][Next]_vars

\* A call that was made keeps running.
FairSpec == Spec /\ \A c \in Caller : WF_vars(Step(c))

-----------------------------------------------------------------------------
(* Properties. *)

\* The counters and the pool of rpc.rs keep their types.
TypeOK ==
  /\ net \in Networks
  /\ failed \subseteq Endpoint
  /\ pc \in [Caller -> {"idle", "select", "clear", "calling"}]
  /\ endpoint \in [Caller -> Endpoint \cup {NoEndpoint}]
  /\ total \in [Caller -> 0..U16Max]
  /\ local \in [Caller -> Nat]
  /\ attempts \in [Caller -> Nat]
  /\ result \in [Caller -> {"none", "ok", "limit"}]

\* One call makes at most retry_limit + 1 requests, over all endpoints it is
\* switched to and however often the pool is cleared.
AttemptsWithinLimit == \A c \in Caller : attempts[c] <= RetryLimit + 1

\* A call that gives up has used its whole retry budget.
LimitMeansExhausted ==
  \A c \in Caller : result[c] = "limit" => attempts[c] = RetryLimit + 1

\* As long as an endpoint that always answers is there and no reset time
\* passes, no call fails, although other tasks mark endpoints at the same
\* time: retry_limit covers one visit to each bad endpoint.
FailoverSucceeds ==
  net.good # {} /\ ~net.expiry => \A c \in Caller : result[c] # "limit"

\* Every call returns, whatever the endpoints answer.
CallsReturn == \A c \in Caller : pc[c] # "idle" ~> pc[c] = "idle"
=============================================================================
