---------------------------- MODULE AdvisoryGateway ----------------------------
(***************************************************************************)
(* Concurrent advisory calls of integrations/openai/client.py through the  *)
(* circuit breaker of resilience/circuit_breakers/async_breaker.py and a   *)
(* cost budget (a port; its implementation is not in the repository).      *)
(* Every await is a place where other calls run, so the outcome of a call  *)
(* is recorded long after the breaker let it through.                      *)
(***************************************************************************)
EXTENDS Integers, FiniteSets

CONSTANTS Calls,             \* concurrent structured_completion calls
          FailureThreshold,
          RecoverySeconds,
          Budget             \* reservations the budget grants at a time (external)

ASSUME AdvisoryAssumption ==
  /\ IsFiniteSet(Calls)
  /\ {FailureThreshold, RecoverySeconds, Budget} \subseteq Nat \ {0}

VARIABLES
  failures,  \* _failures
  opened,    \* seconds since _opened_at, Closed when it is None
  call,      \* where a call is
  held,      \* calls whose reservation is neither settled nor released
  cancelled  \* calls whose task was cancelled, or whose release() raised

advisoryVars == <<failures, opened, call, held, cancelled>>

Closed == -1

\* Where a call waits: for the breaker, for the provider, to settle, and so on.
CallStates ==
  {"idle", "reserved", "refused", "calling", "answered", "settled", "erred",
   "released"}

\* Calls the breaker has let through whose outcome it does not know yet.
Outstanding ==
  {c \in Calls : call[c] \in {"calling", "answered", "settled", "erred", "released"}}

AdvisoryInit ==
  /\ failures = 0
  /\ opened = Closed
  /\ call = [c \in Calls |-> "idle"]
  /\ held = {}
  /\ cancelled = {}

\* The call goes on to s.
Goes(c, s) == call' = [call EXCEPT ![c] = s]

-----------------------------------------------------------------------------
\* reserve(); a call beyond the budget is rejected and changes nothing.
ReserveBudget(c) ==
  /\ call[c] = "idle" /\ c \notin cancelled
  /\ Cardinality(held) < Budget
  /\ held' = held \cup {c}
  /\ Goes(c, "reserved")
  /\ UNCHANGED <<failures, opened, cancelled>>

\* allow(): refused while the circuit is open; the first call after the
\* recovery time closes it for all.
Allow(c) ==
  /\ call[c] = "reserved"
  /\ \/ /\ opened = Closed
        /\ Goes(c, "calling")
        /\ UNCHANGED <<failures, opened>>
     \/ /\ opened # Closed /\ opened < RecoverySeconds
        /\ Goes(c, "refused")
        /\ UNCHANGED <<failures, opened>>
     \/ /\ opened # Closed /\ opened >= RecoverySeconds
        /\ Goes(c, "calling")
        /\ failures' = 0
        /\ opened' = Closed
  /\ UNCHANGED <<held, cancelled>>

\* The provider answers, or fails, or answers outside the schema.
Answered(c) ==
  /\ call[c] = "calling"
  /\ \E s \in {"answered", "erred"} : Goes(c, s)
  /\ UNCHANGED <<failures, opened, held, cancelled>>

\* settle(), which may raise.
Settle(c) ==
  /\ call[c] = "answered"
  /\ \/ Goes(c, "settled") /\ held' = held \ {c}
     \/ Goes(c, "erred") /\ UNCHANGED held
  /\ UNCHANGED <<failures, opened, cancelled>>

\* A success closes the circuit, however late it comes.
ClosedBySuccess == opened' = Closed

\* success() of the breaker.
Succeed(c) ==
  /\ call[c] = "settled"
  /\ failures' = 0
  /\ ClosedBySuccess
  /\ Goes(c, "idle")
  /\ UNCHANGED <<held, cancelled>>

\* Mutation: the reservation is given back only after an error.
GivenBackAfterError(c) == held' = IF call[c] = "erred" THEN held \ {c} ELSE held

\* The reservation is given back.
GivenBack(c) == held' = held \ {c}

\* release() after an error, or after the open circuit refused the call.
Release(c) ==
  /\ \/ call[c] = "erred" /\ Goes(c, "released")
     \/ call[c] = "refused" /\ Goes(c, "idle")
  /\ GivenBack(c)
  /\ UNCHANGED <<failures, opened, cancelled>>

\* Mutation: the breaker opens one failure late.
TrippedLate(n) == n > FailureThreshold

\* Failures that open the circuit, or keep it open.
Tripped(n) == n >= FailureThreshold

\* failure() of the breaker: the recovery time starts again at every failure
\* beyond the threshold.
Fail(c) ==
  /\ call[c] = "released"
  /\ failures' = failures + 1
  /\ opened' = IF Tripped(failures + 1) THEN 0 ELSE opened
  /\ Goes(c, "idle")
  /\ UNCHANGED <<held, cancelled>>

\* CancelledError is no Exception: neither handler runs.  A release() that raises
\* leaves its handler in the same way.
Cancel(c) ==
  /\ call[c] # "idle"
  /\ cancelled' = cancelled \cup {c}
  /\ Goes(c, "idle")
  /\ UNCHANGED <<failures, opened, held>>

AdvisoryTick ==
  /\ opened # Closed /\ opened < RecoverySeconds
  /\ opened' = opened + 1
  /\ UNCHANGED <<failures, call, held, cancelled>>

AdvisoryNext ==
  \/ \E c \in Calls :
       \/ ReserveBudget(c) \/ Allow(c) \/ Answered(c) \/ Settle(c)
       \/ Succeed(c) \/ Release(c) \/ Fail(c) \/ Cancel(c)
  \/ AdvisoryTick

AdvisorySpec == AdvisoryInit /\ [][AdvisoryNext]_advisoryVars

-----------------------------------------------------------------------------
\* Every variable has its type.
AdvisoryTypeOK ==
  /\ failures \in Nat
  /\ opened \in Closed .. RecoverySeconds
  /\ call \in [Calls -> CallStates]
  /\ held \subseteq Calls
  /\ cancelled \subseteq Calls

\* The circuit is open exactly while the threshold is reached, and a provider
\* that is down gets at most as many calls more as run concurrently: late
\* outcomes of calls let through earlier neither open the circuit early nor
\* leave it closed (allow, success, failure).
BurstBounded ==
  /\ opened # Closed <=> failures >= FailureThreshold
  /\ failures + Cardinality(Outstanding) <= FailureThreshold - 1 + Cardinality(Calls)

\* A reservation of the budget belongs to a call under way, or to one that was
\* cancelled: every other way out of structured_completion gives it back once.
ReservationsReturned ==
  \A c \in held :
    c \in cancelled \/ call[c] \in {"reserved", "refused", "calling", "answered", "erred"}

\* What the gateway promises however its concurrent calls interleave and end: a
\* bounded burst on a provider that is down, and no forgotten reservation
\* (AsyncCircuitBreaker, structured_completion).
AdvisoryContract == BurstBounded /\ ReservationsReturned
=============================================================================
