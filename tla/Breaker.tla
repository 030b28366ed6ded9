-------------------------------- MODULE Breaker --------------------------------
(***************************************************************************)
(* What the processes of one run expect of ProviderHealthStore: a table of *)
(* circuit breakers on which each operation is atomic.  It is also exactly *)
(* the in-memory store (path=None), whose operations never suspend.        *)
(***************************************************************************)
EXTENDS BreakerEntry

CONSTANTS
  Keys,               \* "discovery:bing", "fetch:example.com", ...
  Absent              \* no entry recorded yet

VARIABLE health       \* the table, per key

OrFresh(e) == IF e = Absent THEN Fresh ELSE e

Init == health = [k \in Keys |-> Absent]

(* is_open *)
Look(k) ==
  /\ health[k] # Absent
  /\ health' = [health EXCEPT ![k] = CooledDown(@)]

(* record_success, record_failure *)
RecordSuccess(k) == health' = [health EXCEPT ![k] = Succeeded(OrFresh(@))]
RecordFailure(k) == health' = [health EXCEPT ![k] = Failed(OrFresh(@))]

(* reset *)
Reset == health' = [k \in Keys |-> Absent]

Elapse ==
  health' = [k \in Keys |-> IF health[k] = Absent THEN Absent ELSE Aged(health[k])]

Next ==
  \/ \E k \in Keys : Look(k) \/ RecordSuccess(k) \/ RecordFailure(k)
  \/ Reset \/ Elapse

Spec == Init /\ [][Next]_health
=============================================================================
