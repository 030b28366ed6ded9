----------------------------- MODULE BreakerEntry -----------------------------
(***************************************************************************)
(* core/provider_health.py, _EntryState and the pure part of                *)
(* ProviderHealthStore: one provider's circuit breaker.  Time is counted    *)
(* in ticks and relatively: openedAgo is now - opened_at, which only ever   *)
(* matters up to the longest cooldown.  Likewise consecutive_failures only  *)
(* matters up to open_after_failures.  The lifetime counters are reporting. *)
(***************************************************************************)
EXTENDS Naturals

CONSTANTS
  OpenAfter,          \* open_after_failures
  Cooldown,           \* cooldown_seconds
  MaxCooldown         \* max_cooldown_seconds

ASSUME BreakerAssumption ==
  /\ OpenAfter \in Nat \ {0}
  /\ Cooldown \in Nat
  /\ MaxCooldown \in Nat

Longest == IF Cooldown > MaxCooldown THEN Cooldown ELSE MaxCooldown

Entry == [failures  : 0 .. OpenAfter,
          state     : {"closed", "open", "half_open"},
          openedAgo : 0 .. Longest,
          cooldown  : 0 .. Longest]

Fresh == [failures |-> 0, state |-> "closed", openedAgo |-> Longest, cooldown |-> Cooldown]

(* Mutant: an open breaker never half-opens.                                *)
CooledDownNever(e) == e

(* _transition_if_cooldown_elapsed                                          *)
CooledDown(e) ==
  IF e.state = "open" /\ e.openedAgo >= e.cooldown
  THEN [e EXCEPT !.state = "half_open"] ELSE e

(* apply(), success.                                                        *)
Succeeded(e) ==
  IF e.state \in {"open", "half_open"}
  THEN [e EXCEPT !.failures = 0, !.state = "closed", !.cooldown = Cooldown]
  ELSE [e EXCEPT !.failures = 0]

Doubled(e) == IF 2 * e.cooldown < MaxCooldown THEN 2 * e.cooldown ELSE MaxCooldown

Counted(e) == IF e.failures < OpenAfter THEN e.failures + 1 ELSE OpenAfter

(* apply(), failure.  A failed probe reopens for longer; any other failure  *)
(* from the threshold on (re)opens, also while the breaker is open.         *)
Failed(e) ==
  IF e.state = "half_open"
  THEN [failures |-> Counted(e), state |-> "open", openedAgo |-> 0, cooldown |-> Doubled(e)]
  ELSE IF Counted(e) >= OpenAfter
       THEN [e EXCEPT !.failures = Counted(e), !.state = "open", !.openedAgo = 0]
       ELSE [e EXCEPT !.failures = Counted(e)]

(* One tick later.                                                          *)
Older(n) == IF n < Longest THEN n + 1 ELSE n
Aged(e)  == [e EXCEPT !.openedAgo = Older(@)]

(* What every stored entry is, however updates were lost or reordered.      *)
Coherent(e) ==
  /\ e \in Entry
  /\ e.state = "closed" <=> e.failures < OpenAfter
  /\ e.state = "closed" => e.cooldown = Cooldown
=============================================================================
