--------------------------- MODULE HttpResilience ---------------------------
(* The clients every connector call goes through (hallpass/rest.py): a         *)
(* CircuitBreakerHttpClient around a RetryingHttpClient, for one downstream    *)
(* service that many threads call.                                             *)
EXTENDS Naturals

CONSTANTS
  MaxRetries,       \* RetryPolicy.max_retries
  FailureThreshold, \* BreakerPolicy.failure_threshold
  ResetAfter        \* BreakerPolicy.reset_after, in ticks

ASSUME ResilienceAssumption ==
  MaxRetries \in Nat /\ FailureThreshold \in Nat \ {0} /\ ResetAfter \in Nat \ {0}

VARIABLES
  failures,  \* consecutive outages counted (to the threshold: no more is told apart)
  opened,    \* _opened_at is set
  age,       \* the time since _opened_at (to ResetAfter: no more is told apart)
  service,   \* "down", "rejecting" (any call may be met with a client error)
             \* or "answering"
  hits       \* requests that reached the service since _opened_at (history)

breakerVars == <<failures, opened, age, service, hits>>

Services == {"down", "rejecting", "answering"}

(* The breaker lets no call through.                                           *)
Blocking == opened /\ age < ResetAfter

ResilienceInit ==
  /\ failures = 0 /\ opened = FALSE /\ age = 0
  /\ service = "answering" /\ hits = 0

(* A request reaches the service.                                              *)
Hit ==
  /\ hits' = IF Blocking THEN hits + 1 ELSE hits
  /\ UNCHANGED <<failures, opened, age, service>>

(* Mutant: one attempt too many.                                               *)
MutantRetriesOneMore(tried) == tried <= MaxRetries

Retries(tried) == tried < MaxRetries

(* Mutant: an open circuit lets every call through.                            *)
MutantPassesAlways == UNCHANGED breakerVars

Passes ==
  /\ ~Blocking
  /\ UNCHANGED breakerVars

(* An outage that outlasted its retries.                                       *)
Trip ==
  LET counted == IF failures < FailureThreshold THEN failures + 1 ELSE failures
      opens == counted = FailureThreshold
  IN /\ failures' = counted
     /\ opened' = (opened \/ opens)
     /\ age' = IF opens THEN 0 ELSE age
     /\ hits' = IF opens THEN 0 ELSE hits
     /\ UNCHANGED service

(* Mutant: a success resets the count and leaves the circuit open.             *)
MutantHealHalf ==
  /\ failures' = 0
  /\ UNCHANGED <<opened, age, service, hits>>

Heal ==
  /\ failures' = 0 /\ opened' = FALSE
  /\ age' = 0 /\ hits' = 0
  /\ UNCHANGED service

Elapse ==
  /\ Blocking
  /\ age' = age + 1
  /\ UNCHANGED <<failures, opened, service, hits>>

Turn ==
  /\ service' \in Services \ {service}
  /\ UNCHANGED <<failures, opened, age, hits>>

Forget ==
  /\ failures' = 0 /\ opened' = FALSE
  /\ age' = 0 /\ hits' = 0
  /\ UNCHANGED service
=============================================================================
