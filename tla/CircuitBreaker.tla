--------------------------- MODULE CircuitBreaker ---------------------------
(***************************************************************************)
(* The circuit breaker of crates/oneshim-network/src/circuit_breaker.rs as *)
(* operators on its InnerState record; every operation of the source runs  *)
(* under one mutex, so each operator is one atomic transition.             *)
(*                                                                         *)
(* Time is relative: `wait` is what is left until the deadline that        *)
(* CircuitState::Open holds (until - Instant::now(), 0 once it passed), so *)
(* `Instant::now() >= until` is wait = 0, and Elapse lets time pass.       *)
(***************************************************************************)
EXTENDS Naturals

CONSTANTS
  FailureThreshold,  \* CircuitBreakerConfig.failure_threshold (3 in the code)
  InitialCooldown,   \* .initial_cooldown (30 s)
  MaxCooldown,       \* .max_cooldown (300 s)
  MaxFailures        \* bound: where the model's failure count saturates

ASSUME BreakerAssumption ==
  /\ FailureThreshold \in Nat \ {0}
  /\ InitialCooldown \in Nat \ {0}
  /\ MaxCooldown \in Nat
  /\ InitialCooldown <= MaxCooldown
  /\ MaxFailures \in Nat
  /\ FailureThreshold <= MaxFailures

BreakerState ==
  [status   : {"Closed", "Open", "HalfOpen"},
   wait     : 0..MaxCooldown,
   failures : 0..MaxFailures,
   cooldown : InitialCooldown..MaxCooldown]

NewBreaker ==
  [status |-> "Closed", wait |-> 0, failures |-> 0, cooldown |-> InitialCooldown]

(***************************************************************************)
(* check(): an open breaker whose cooldown is over becomes half-open.      *)
(***************************************************************************)
Check(b) ==
  IF b.status = "Open" /\ b.wait = 0 THEN [b EXCEPT !.status = "HalfOpen"] ELSE b

RecordSuccess(b) == NewBreaker

(***************************************************************************)
(* consecutive_failures is a u32 that only the threshold test reads; here  *)
(* it saturates at MaxFailures, which is no lower than the threshold.      *)
(***************************************************************************)
CountFailure(b) == IF b.failures < MaxFailures THEN b.failures + 1 ELSE b.failures

Doubled(b) == IF b.cooldown * 2 > MaxCooldown THEN MaxCooldown ELSE b.cooldown * 2

RecordFailure(b) ==
  CASE b.status = "Closed" /\ CountFailure(b) >= FailureThreshold ->
         [b EXCEPT !.failures = CountFailure(b), !.status = "Open", !.wait = b.cooldown]
    [] b.status = "HalfOpen" ->
         [b EXCEPT !.failures = CountFailure(b), !.status = "Open",
                   !.cooldown = Doubled(b), !.wait = Doubled(b)]
    [] OTHER -> [b EXCEPT !.failures = CountFailure(b)]

(* One unit of time passes for a breaker that is waiting. *)
Elapse(b) == [b EXCEPT !.wait = @ - 1]
=============================================================================
