----------------------------- MODULE SearchSession -----------------------------
(***************************************************************************)
(* core/discovery.py, ResilientSearchSession: one request's chain of search *)
(* providers under its wall-clock budget (core/budget.py), a circuit        *)
(* breaker per provider that lives as long as the request, and the breakers *)
(* it shares with other processes through the provider health store, here   *)
(* the atomic table of module Breaker.                                      *)
(*                                                                          *)
(* Time passes in ticks while a provider is called and between two queries. *)
(* A failure is its status and its failure class; a result is what the      *)
(* session tells apart in it.                                               *)
(***************************************************************************)
EXTENDS BreakerEntry

CONSTANTS
  Providers,          \* 1 .. n, in the configured order
  Skips,              \* the values of skip_providers
  SharedProviders,    \* providers that other processes call, too
  QualityGate,        \* providers with quality_gate
  ShortCircuit,       \* providers with short_circuit_on_exact_model
  EmptyLimit,         \* empty_circuit_after, per provider; 0: never
  Timeout,            \* a provider's own timeout
  Overrun,            \* by how much a provider's call may exceed its deadline
  Total,              \* the budget's total_seconds
  Share,              \* total_seconds * provider_time_share
  Least,              \* can_start's minimum_seconds
  Headroom,           \* remaining seconds above which a retry is allowed
  FailureLimit,       \* circuit_breaker_failures
  BlockedCooldown,    \* blocked_cooldown_seconds
  MaxReopens,         \* max_blocked_reopens
  Never,              \* no entry in _reopen_at
  Absent              \* as in Breaker

ASSUME SessionAssumption ==
  /\ \E n \in Providers : n >= 1 /\ Providers = 1 .. n
  /\ Skips \subseteq SUBSET Providers /\ SharedProviders \subseteq Providers
  /\ QualityGate \subseteq Providers /\ ShortCircuit \subseteq Providers
  /\ EmptyLimit \in [Providers -> Nat]
  /\ Timeout \in Nat \ {0} /\ Overrun \in Nat
  /\ Total \in Nat \ {0} /\ Share \in Nat
  /\ Least \in Nat \ {0} /\ Headroom \in Nat
  /\ FailureLimit \in Nat \ {0}
  /\ BlockedCooldown \in Nat /\ MaxReopens \in Nat
  /\ Never \notin Nat /\ Absent \notin Entry

VARIABLES
  pc,                 \* "idle" between two queries
  cursor,             \* index of the for loop
  productive,         \* productive_provider_found
  skipped,            \* skip_providers
  call,               \* the call in flight: timeout_seconds, attempt_number, how long
                      \* it has lasted, and its current attempt
  now,                \* seconds since the budget was created
  open,               \* keys of _open_providers
  reopenAt,           \* _reopen_at
  blocked,            \* _blocked_counts
  empties,            \* _empty_streak
  failures,           \* _failure_counts
  spent,              \* _provider_elapsed
  gaveUp,             \* providers that had a call end in a timeout or a parse error
  used,               \* time its calls really took
  health              \* the shared breakers

loopVars    == <<pc, cursor, productive, skipped>>
circuitVars == <<open, reopenAt, blocked, empties, failures, spent, gaveUp>>
vars == <<loopVars, call, now, circuitVars, used, health>>

Store == INSTANCE Breaker WITH Keys <- Providers

Failures == {[status |-> "timeout",     class |-> "timeout"],
             [status |-> "parse_error", class |-> "malformed"],
             [status |-> "blocked",     class |-> "blocked"],
             [status |-> "blocked",     class |-> "connection_error"],
             [status |-> "error",       class |-> "connection_error"],
             [status |-> "error",       class |-> "other"]}
(* Nothing; nothing about the query; some other product; likely_variant; exact_model_hit. *)
Results  == {"empty", "low_value", "other_product", "variant", "exact"}
NoCall   == [limit |-> 0, attempt |-> 0, lasted |-> 0, attemptLasted |-> 0]

(* The longest a query can hold a provider: two attempts. *)
LongestCall == 2 * (Timeout + Overrun)
LastMoment  == Total + LongestCall

TypeOK ==
  /\ pc \in {"idle", "choosing", "calling"}
  /\ cursor \in Providers
  /\ productive \in BOOLEAN
  /\ skipped \subseteq Providers
  /\ call \in [limit : 0 .. Timeout, attempt : {0, 1}, lasted : 0 .. LongestCall,
               attemptLasted : 0 .. Timeout + Overrun]
  /\ now \in 0 .. LastMoment
  /\ open \subseteq Providers
  /\ reopenAt \in [Providers -> (0 .. LastMoment + BlockedCooldown) \cup {Never}]
  /\ \A i \in Providers : reopenAt[i] # Never => i \in open
  /\ blocked \in [Providers -> Nat]
  /\ empties \in [Providers -> Nat]
  /\ failures \in [Providers -> 0 .. FailureLimit]
  /\ spent \in [Providers -> 0 .. LastMoment] /\ used \in [Providers -> 0 .. LastMoment]
  /\ gaveUp \subseteq Providers
  /\ health \in [Providers -> Entry \cup {Absent}]

(* WallClockBudget.remaining_seconds *)
Remaining == IF now < Total THEN Total - now ELSE 0

Init ==
  /\ pc = "idle" /\ cursor = 1 /\ productive = FALSE /\ skipped = {}
  /\ call = NoCall
  /\ now = 0
  /\ open = {} /\ reopenAt = [i \in Providers |-> Never]
  /\ blocked  = [i \in Providers |-> 0]
  /\ empties  = [i \in Providers |-> 0]
  /\ failures = [i \in Providers |-> 0]
  /\ spent    = [i \in Providers |-> 0]
  /\ used     = [i \in Providers |-> 0]
  /\ gaveUp   = {}
  /\ Store!Init

-----------------------------------------------------------------------------
(* search_with_status, before a provider is called                          *)

Query(skip) ==
  /\ pc = "idle"
  /\ pc' = "choosing" /\ cursor' = 1 /\ productive' = FALSE /\ skipped' = skip
  /\ UNCHANGED <<call, now, circuitVars, used, health>>

(* The outcome is returned; the query's local variables are gone. *)
Finish == pc' = "idle" /\ cursor' = 1 /\ productive' = FALSE /\ skipped' = {}

(* Around the for loop, with the new value of productive_provider_found. *)
Continue(i, found) ==
  IF i + 1 \in Providers
  THEN pc' = "choosing" /\ cursor' = i + 1 /\ productive' = found /\ UNCHANGED skipped
  ELSE Finish

At(i) == pc = "choosing" /\ cursor = i

PassOver(i) ==
  /\ At(i)
  /\ i \in skipped \/ productive
  /\ Continue(i, productive)
  /\ UNCHANGED <<call, now, circuitVars, used, health>>

CanStart == Remaining >= Least

OutOfBudget(i) ==
  /\ At(i) /\ i \notin skipped /\ ~productive
  /\ ~CanStart
  /\ Finish
  /\ UNCHANGED <<call, now, circuitVars, used, health>>

Considered(i) == At(i) /\ i \notin skipped /\ ~productive /\ CanStart

CooledOff(i) == i \in open /\ reopenAt[i] # Never /\ now >= reopenAt[i]

(* Mutant: the elapsed cooldown stays in the table. *)
HalfOpenedKeeping(i) == open' = open \ {i} /\ UNCHANGED reopenAt

HalfOpened(i) == open' = open \ {i} /\ reopenAt' = [reopenAt EXCEPT ![i] = Never]

HalfOpen(i) ==
  /\ Considered(i) /\ CooledOff(i)
  /\ HalfOpened(i)
  /\ UNCHANGED <<loopVars, call, now, blocked, empties, failures, spent, gaveUp, used, health>>

LocalCircuitOpen(i) ==
  /\ Considered(i) /\ ~CooledOff(i)
  /\ i \in open
  /\ Continue(i, productive)
  /\ UNCHANGED <<call, now, circuitVars, used, health>>

(* health_store.is_open: the answer, and what asking does to the table. *)
IsOpen(i)   == health[i] # Absent /\ CooledDown(health[i]).state = "open"
AskStore(i) == IF health[i] = Absent THEN UNCHANGED health ELSE Store!Look(i)

SharedCircuitOpen(i) ==
  /\ Considered(i) /\ i \notin open
  /\ IsOpen(i) /\ AskStore(i)
  /\ open' = open \cup {i}
  /\ Continue(i, productive)
  /\ UNCHANGED <<call, now, reopenAt, blocked, empties, failures, spent, gaveUp, used>>

Callable(i) == Considered(i) /\ i \notin open /\ ~IsOpen(i) /\ AskStore(i)

SpentShare(i) == spent[i] >= Share

Capped(i) ==
  /\ Callable(i)
  /\ SpentShare(i)
  /\ Continue(i, productive)
  /\ UNCHANGED <<call, now, circuitVars, used>>

(* WallClockBudget.timeout_for *)
BoundedTimeout == IF Timeout < Remaining THEN Timeout ELSE Remaining

StartCall(i) ==
  /\ Callable(i)
  /\ ~SpentShare(i)
  /\ pc' = "calling"
  /\ call' = [NoCall EXCEPT !.limit = BoundedTimeout]
  /\ UNCHANGED <<cursor, productive, skipped, now, circuitVars, used>>

-----------------------------------------------------------------------------
(* The call raised                                                          *)

MayRetry(f) == call.attempt = 0 /\ f.class = "connection_error" /\ Remaining > Headroom

(* The second attempt gets the timeout that was computed for the first. *)
RetryCall(i, f) ==
  /\ pc = "calling" /\ cursor = i
  /\ MayRetry(f)
  /\ call' = [call EXCEPT !.attempt = 1, !.attemptLasted = 0]
  /\ UNCHANGED <<loopVars, now, circuitVars, used, health>>

(* Mutant: only the last attempt is charged. *)
ChargedLastAttempt(i) == spent' = [spent EXCEPT ![i] = @ + call.attemptLasted]

Charged(i) == spent' = [spent EXCEPT ![i] = @ + call.lasted]

(* HEALTH_AFFECTING_FAILURE_CLASSES *)
Reported(i, class) ==
  IF class \in {"timeout", "connection_error", "blocked"}
  THEN Store!RecordFailure(i) ELSE UNCHANGED health

(* Only a bot check cools off, and only so many times per request. *)
CooldownSet(i, status) ==
  IF status = "blocked"
  THEN /\ blocked' = [blocked EXCEPT ![i] = @ + 1]
       /\ reopenAt' = IF blocked[i] + 1 <= MaxReopens
                      THEN [reopenAt EXCEPT ![i] = now + BlockedCooldown] ELSE reopenAt
  ELSE /\ reopenAt' = [reopenAt EXCEPT ![i] = Never]
       /\ UNCHANGED blocked

CallFails(i, f) ==
  /\ pc = "calling" /\ cursor = i
  /\ ~MayRetry(f)
  /\ Charged(i)
  /\ failures' = [failures EXCEPT ![i] = IF @ < FailureLimit THEN @ + 1 ELSE @]
  /\ Reported(i, f.class)
  /\ IF f.status \in {"blocked", "timeout", "parse_error"} \/ failures'[i] >= FailureLimit
     THEN open' = open \cup {i} /\ CooldownSet(i, f.status)
     ELSE UNCHANGED <<open, reopenAt, blocked>>
  /\ gaveUp' = IF f.status \in {"timeout", "parse_error"} THEN gaveUp \cup {i} ELSE gaveUp
  /\ Continue(i, productive)
  /\ call' = NoCall
  /\ UNCHANGED <<now, empties, used>>

-----------------------------------------------------------------------------
(* The call returned                                                        *)

TooLate == call.lasted > call.limit

Returned(i, found) ==
  /\ pc = "calling" /\ cursor = i
  /\ Charged(i)
  /\ call' = NoCall
  /\ Continue(i, found)

LateResult(i) ==
  /\ Returned(i, productive) /\ TooLate
  /\ open' = open \cup {i}
  /\ Store!RecordFailure(i)
  /\ gaveUp' = gaveUp \cup {i}
  /\ UNCHANGED <<now, reopenAt, blocked, empties, failures, used>>

EmptyResult(i) ==
  /\ Returned(i, productive) /\ ~TooLate
  /\ empties' = [empties EXCEPT ![i] = IF @ < EmptyLimit[i] THEN @ + 1 ELSE @]
  /\ open' = IF EmptyLimit[i] # 0 /\ empties'[i] >= EmptyLimit[i] THEN open \cup {i} ELSE open
  /\ UNCHANGED <<now, reopenAt, blocked, failures, gaveUp, used, health>>

LowValueResult(i) ==
  /\ Returned(i, productive) /\ ~TooLate
  /\ i \in QualityGate
  /\ UNCHANGED <<now, open, reopenAt, blocked, empties, failures, gaveUp, used, health>>

EndsQuery(i, r) == r = "exact" \/ (r = "variant" /\ i \notin ShortCircuit)

UsefulResult(i, r) ==
  /\ Returned(i, productive \/ EndsQuery(i, r)) /\ ~TooLate
  /\ failures' = [failures EXCEPT ![i] = 0]
  /\ empties' = [empties EXCEPT ![i] = 0]
  /\ Store!RecordSuccess(i)
  /\ UNCHANGED <<now, open, reopenAt, blocked, gaveUp, used>>

-----------------------------------------------------------------------------
(* Another process of the run records an outcome for the same provider.     *)
OtherProcess(i) ==
  /\ Store!RecordFailure(i) \/ Store!RecordSuccess(i)
  /\ UNCHANGED <<loopVars, call, now, circuitVars, used>>

(* A provider's transports keep its deadline up to Overrun; the rest of the *)
(* request takes its time between two queries.                              *)
Tick ==
  /\ \/ pc = "calling" /\ call.attemptLasted < call.limit + Overrun
     \/ pc = "idle" /\ now < Total
  /\ now' = now + 1
  /\ IF pc = "calling"
     THEN /\ call' = [call EXCEPT !.lasted = @ + 1, !.attemptLasted = @ + 1]
          /\ used' = [used EXCEPT ![cursor] = @ + 1]
     ELSE UNCHANGED <<call, used>>
  /\ Store!Elapse
  /\ UNCHANGED <<loopVars, circuitVars>>

Next ==
  \/ \E skip \in Skips : Query(skip)
  \/ \E i \in Providers :
       \/ PassOver(i) \/ OutOfBudget(i) \/ HalfOpen(i) \/ LocalCircuitOpen(i)
       \/ SharedCircuitOpen(i) \/ Capped(i) \/ StartCall(i)
       \/ \E f \in Failures : RetryCall(i, f) \/ CallFails(i, f)
       \/ LateResult(i) \/ EmptyResult(i) \/ LowValueResult(i)
       \/ \E r \in Results \ {"empty", "low_value"} : UsefulResult(i, r)
  \/ \E i \in SharedProviders : OtherProcess(i)
  \/ Tick

Spec == Init /\ [][Next]_vars
=============================================================================
