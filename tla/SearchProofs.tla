------------------------------ MODULE SearchProofs ------------------------------
(***************************************************************************)
(* Theorems about the search session, for any number of providers and any  *)
(* times: its types, the fair share of a provider, the bound on how often   *)
(* a blocking provider is probed, the finality of a timeout, and the bound  *)
(* on the overrun of the budget.                                           *)
(*                                                                         *)
(* The inductive invariant has four parts, of which an action usually      *)
(* disturbs one: the loop, the clock, the circuits, the shared breakers.   *)
(*                                                                         *)
(* And about the documents of a product, which the discovery service asks   *)
(* the session for, and the facts it draws from them (FactsPipeline), on    *)
(* any sites: what is called exact, what its second pass keeps of the       *)
(* first, which raw pairs are evidence of one attribute, and which of its   *)
(* rows are the main product's. They stand beside those of the session and  *)
(* not in a module of their own: no definition is shared.                   *)
(***************************************************************************)
EXTENDS SearchProperties, BreakerProofs, FactsPipeline, FiniteSetTheorems, WellFoundedInduction, TLAPS

HIDE BreakerAssumption

LoopInv ==
  /\ pc \in {"idle", "choosing", "calling"}
  /\ cursor \in Providers
  /\ productive \in BOOLEAN
  /\ skipped \subseteq Providers

(* What a call in flight may still take: a first attempt began with its     *)
(* timeout inside the budget, a second one with some headroom left.         *)
InFlight ==
  /\ spent[cursor] < Share
  /\ call.attemptLasted <= call.limit + Overrun
  /\ \/ call.attempt = 0 /\ call.lasted = call.attemptLasted
                         /\ now + call.limit <= Total + call.lasted
     \/ call.attempt = 1 /\ call.lasted <= call.attemptLasted + Timeout + Overrun
                         /\ now + Headroom < Total + call.attemptLasted

InCall(i) == IF pc = "calling" /\ cursor = i THEN call.lasted ELSE 0

ClockInv ==
  /\ call \in [limit : 0 .. Timeout, attempt : {0, 1}, lasted : 0 .. LongestCall,
               attemptLasted : 0 .. Timeout + Overrun]
  /\ now \in 0 .. LastMoment
  /\ spent \in [Providers -> Nat] /\ used \in [Providers -> Nat]
  /\ \A i \in Providers : /\ used[i] = spent[i] + InCall(i)
                          /\ used[i] <= now
                          /\ used[i] < Share + LongestCall
  /\ pc = "calling" => InFlight

CircuitInv ==
  /\ open \subseteq Providers /\ gaveUp \subseteq Providers
  /\ reopenAt \in [Providers -> (0 .. LastMoment + BlockedCooldown) \cup {Never}]
  /\ blocked \in [Providers -> Nat]
  /\ empties \in [Providers -> Nat]
  /\ failures \in [Providers -> 0 .. FailureLimit]
  /\ \A i \in Providers :
       /\ reopenAt[i] # Never => i \in open
       /\ i \in gaveUp => i \in open /\ reopenAt[i] = Never
       /\ i \notin open \/ reopenAt[i] # Never => blocked[i] <= MaxReopens
       /\ blocked[i] <= MaxReopens + 1
  /\ pc = "calling" => cursor \notin open

HealthInv ==
  /\ health \in [Providers -> Entry \cup {Absent}]
  /\ \A i \in Providers : health[i] # Absent => Coherent(health[i])

Inv == LoopInv /\ ClockInv /\ CircuitInv /\ HealthInv

LEMMA Bounds ==
  /\ Timeout \in Nat /\ Timeout > 0 /\ Overrun \in Nat /\ Total \in Nat /\ Total > 0
  /\ Share \in Nat /\ Least \in Nat /\ Least > 0 /\ Headroom \in Nat
  /\ LongestCall \in Nat /\ LongestCall = 2 * (Timeout + Overrun) /\ LongestCall > 0
  /\ LastMoment \in Nat /\ LastMoment = Total + LongestCall
BY SessionAssumption DEF LongestCall, LastMoment

LEMMA CircuitBounds == BlockedCooldown \in Nat /\ MaxReopens \in Nat /\ Never \notin Nat
BY SessionAssumption

LEMMA ProviderBounds ==
  /\ 1 \in Providers /\ Providers \subseteq Nat
  /\ \A skip \in Skips : skip \subseteq Providers
BY SessionAssumption

LEMMA NoCallTyped ==
  NoCall \in [limit : 0 .. Timeout, attempt : {0, 1}, lasted : 0 .. LongestCall,
              attemptLasted : 0 .. Timeout + Overrun]
BY Bounds DEF NoCall

LEMMA RemainingBounds ==
  ASSUME now \in Nat
  PROVE  /\ Remaining \in Nat /\ (Remaining > 0 => now + Remaining = Total)
         /\ BoundedTimeout \in 0 .. Timeout /\ BoundedTimeout <= Remaining
BY Bounds DEF Remaining, BoundedTimeout

LEMMA SearchInit == Init => Inv
<1>. SUFFICES ASSUME Init PROVE Inv
  OBVIOUS
<1>. USE DEF Init
<1>1. LoopInv
  BY ProviderBounds DEF LoopInv
<1>2. ClockInv
  BY Bounds, NoCallTyped DEF ClockInv, InCall
<1>3. CircuitInv
  BY Bounds, ProviderBounds, SessionAssumption DEF CircuitInv
<1>4. HealthInv
  BY DEF HealthInv, Store!Init
<1>. QED BY <1>1, <1>2, <1>3, <1>4 DEF Inv

-----------------------------------------------------------------------------
(* Wherever the for loop goes on, no call is in flight.                     *)
LEMMA LoopGoesOn ==
  ASSUME LoopInv, NEW i \in Providers, NEW found \in BOOLEAN, Continue(i, found) \/ Finish
  PROVE  LoopInv' /\ pc' # "calling"
BY ProviderBounds DEF LoopInv, Continue, Finish

(* The steps of one provider's turn.                                        *)
LEMMA ProviderStep ==
  ASSUME LoopInv, Next
  PROVE  \/ \E skip \in Skips : Query(skip)
         \/ \E i \in Providers :
              \/ PassOver(i) \/ OutOfBudget(i) \/ HalfOpen(i) \/ LocalCircuitOpen(i)
              \/ SharedCircuitOpen(i) \/ Capped(i) \/ StartCall(i)
              \/ \E f \in Failures : RetryCall(i, f) \/ CallFails(i, f)
              \/ LateResult(i) \/ EmptyResult(i) \/ LowValueResult(i)
              \/ \E r \in Results : UsefulResult(i, r)
              \/ OtherProcess(i)
         \/ Tick
BY SessionAssumption DEF Next

LEMMA LoopStep == LoopInv /\ [Next]_vars => LoopInv'
<1>. SUFFICES ASSUME LoopInv, [Next]_vars PROVE LoopInv'
  OBVIOUS
<1>1. CASE UNCHANGED loopVars
  BY <1>1 DEF LoopInv, loopVars
<1>2. ASSUME NEW skip \in Skips, Query(skip) PROVE LoopInv'
  BY <1>2, ProviderBounds DEF Query, LoopInv
<1>3. ASSUME NEW i \in Providers,
             PassOver(i) \/ OutOfBudget(i) \/ LocalCircuitOpen(i) \/ SharedCircuitOpen(i) \/ Capped(i)
      PROVE  LoopInv'
  <2>1. Continue(i, productive) \/ Finish
    BY <1>3 DEF PassOver, OutOfBudget, LocalCircuitOpen, SharedCircuitOpen, Capped
  <2>. QED BY <2>1, LoopGoesOn DEF LoopInv
<1>4. ASSUME NEW i \in Providers, StartCall(i) PROVE LoopInv'
  BY <1>4 DEF StartCall, LoopInv
<1>5. ASSUME NEW i \in Providers, NEW f \in Failures, CallFails(i, f) PROVE LoopInv'
  <2>1. Continue(i, productive)
    BY <1>5 DEF CallFails
  <2>. QED BY <2>1, LoopGoesOn DEF LoopInv
<1>6. ASSUME NEW i \in Providers, LateResult(i) \/ EmptyResult(i) \/ LowValueResult(i) PROVE LoopInv'
  <2>1. Continue(i, productive)
    BY <1>6 DEF LateResult, EmptyResult, LowValueResult, Returned
  <2>. QED BY <2>1, LoopGoesOn DEF LoopInv
<1>7. ASSUME NEW i \in Providers, NEW r \in Results, UsefulResult(i, r) PROVE LoopInv'
  <2>1. Continue(i, productive \/ EndsQuery(i, r))
    BY <1>7 DEF UsefulResult, Returned
  <2>. QED BY <2>1, LoopGoesOn DEF LoopInv
<1>8. ASSUME NEW i \in Providers, NEW f \in Failures, HalfOpen(i) \/ RetryCall(i, f) \/ OtherProcess(i)
      PROVE  UNCHANGED loopVars
  BY <1>8 DEF HalfOpen, RetryCall, OtherProcess
<1>9. Tick => UNCHANGED loopVars
  BY DEF Tick
<1>10. Failures # {}
  BY DEF Failures
<1>11. CASE Next
  BY <1>1, <1>2, <1>3, <1>4, <1>5, <1>6, <1>7, <1>8, <1>9, <1>10, <1>11, ProviderStep
<1>12. CASE UNCHANGED vars
  BY <1>1, <1>12 DEF vars, loopVars
<1>. QED BY <1>11, <1>12

-----------------------------------------------------------------------------
(* Outside a call, the books are balanced.                                  *)
LEMMA ClockOutside ==
  ASSUME ClockInv, pc # "calling", pc' # "calling",
         call' = call \/ call' = NoCall, UNCHANGED <<now, spent, used>>
  PROVE  ClockInv'
BY NoCallTyped DEF ClockInv, InCall

LEMMA ClockCallEnds ==
  ASSUME LoopInv, ClockInv, NEW i \in Providers, pc = "calling", cursor = i, Charged(i),
         pc' # "calling", call' = NoCall, UNCHANGED <<now, used>>
  PROVE  ClockInv'
<1>1. spent[i] \in Nat /\ call.lasted \in 0 .. LongestCall
  BY DEF ClockInv
<1>2. spent' \in [Providers -> Nat] /\ spent'[i] = used[i]
  BY <1>1, Bounds DEF Charged, ClockInv, InCall
<1>3. \A k \in Providers : used[k] = spent'[k]
  BY <1>2 DEF ClockInv, InCall, Charged
<1>. QED
  BY <1>2, <1>3, NoCallTyped, Bounds DEF ClockInv, InCall

LEMMA ClockStart ==
  ASSUME LoopInv, ClockInv, NEW i \in Providers, StartCall(i)
  PROVE  ClockInv'
<1>1. /\ pc = "choosing" /\ cursor = i /\ Remaining >= Least /\ ~(spent[i] >= Share)
      /\ pc' = "calling" /\ UNCHANGED <<cursor, now, spent, used>>
      /\ call' = [limit |-> BoundedTimeout, attempt |-> 0, lasted |-> 0, attemptLasted |-> 0]
  BY DEF StartCall, Callable, Considered, CanStart, At, SpentShare, circuitVars, NoCall
<1>2. /\ BoundedTimeout \in 0 .. Timeout /\ now + BoundedTimeout <= Total /\ now \in Nat
      /\ spent[i] \in Nat
  BY <1>1, RemainingBounds, Bounds DEF ClockInv
<1>3. call' \in [limit : 0 .. Timeout, attempt : {0, 1}, lasted : 0 .. LongestCall,
                 attemptLasted : 0 .. Timeout + Overrun]
  BY <1>1, <1>2, Bounds
<1>4. InFlight'
  BY <1>1, <1>2, Bounds DEF InFlight
<1>5. \A k \in Providers : InCall(k) = 0 /\ InCall(k)' = 0
  BY <1>1 DEF InCall
<1>6. UNCHANGED <<now, spent, used>>
  BY <1>1
<1>. QED BY <1>3, <1>4, <1>5, <1>6 DEF ClockInv

LEMMA ClockRetry ==
  ASSUME LoopInv, ClockInv, NEW i \in Providers, NEW f \in Failures, RetryCall(i, f)
  PROVE  ClockInv'
<1>. DEFINE limit == call.limit
            lasted == call.lasted
<1>1. /\ pc = "calling" /\ cursor = i /\ call.attempt = 0 /\ Remaining > Headroom
      /\ UNCHANGED <<pc, cursor, now, spent, used>>
      /\ call' = [call EXCEPT !.attempt = 1, !.attemptLasted = 0]
  BY DEF RetryCall, MayRetry, loopVars, circuitVars
<1>2. /\ limit \in 0 .. Timeout /\ lasted \in 0 .. LongestCall /\ now \in Nat
      /\ lasted <= Timeout + Overrun /\ now + Headroom < Total
  BY <1>1, RemainingBounds, Bounds DEF ClockInv, InFlight
<1>3. call' = [limit |-> limit, attempt |-> 1, lasted |-> lasted, attemptLasted |-> 0]
  BY <1>1 DEF ClockInv
<1>4. call' \in [limit : 0 .. Timeout, attempt : {0, 1}, lasted : 0 .. LongestCall,
                 attemptLasted : 0 .. Timeout + Overrun]
  BY <1>2, <1>3, Bounds
<1>5. InFlight'
  <2>1. spent[cursor] < Share
    BY <1>1 DEF ClockInv, InFlight
  <2>. QED BY <2>1, <1>1, <1>2, <1>3, Bounds DEF InFlight
<1>6. \A k \in Providers : InCall(k)' = InCall(k)
  BY <1>1, <1>3 DEF InCall
<1>7. UNCHANGED <<now, spent, used>>
  BY <1>1
<1>. QED BY <1>4, <1>5, <1>6, <1>7 DEF ClockInv

LEMMA ClockTick == LoopInv /\ ClockInv /\ Tick => ClockInv'
<1>. SUFFICES ASSUME LoopInv, ClockInv, Tick PROVE ClockInv'
  OBVIOUS
<1>1. now' = now + 1 /\ UNCHANGED <<pc, cursor, spent>> /\ now \in Nat
  BY DEF Tick, loopVars, circuitVars, ClockInv
<1>2. CASE pc # "calling"
  <2>1. now < Total /\ UNCHANGED <<call, used>>
    BY <1>2 DEF Tick
  <2>2. now' \in 0 .. LastMoment
    BY <1>1, <2>1, Bounds
  <2>. QED BY <1>1, <1>2, <2>1, <2>2 DEF ClockInv, InCall
<1>3. CASE pc = "calling"
  <2>. DEFINE i == cursor
              limit == call.limit
              lasted == call.lasted
              within == call.attemptLasted
  <2>1. /\ i \in Providers /\ InFlight /\ within < limit + Overrun
        /\ call' = [call EXCEPT !.lasted = @ + 1, !.attemptLasted = @ + 1]
        /\ used' = [used EXCEPT ![i] = @ + 1]
    BY <1>3 DEF Tick, LoopInv, ClockInv
  <2>2. /\ limit \in 0 .. Timeout /\ lasted \in 0 .. LongestCall /\ within \in Nat
        /\ call.attempt \in {0, 1}
    BY DEF ClockInv
  <2>3. call' = [limit |-> limit, attempt |-> call.attempt, lasted |-> lasted + 1,
                 attemptLasted |-> within + 1]
    BY <2>1 DEF ClockInv
  <2>4. lasted + 1 \in 0 .. LongestCall /\ within + 1 \in 0 .. Timeout + Overrun
    BY <2>1, <2>2, Bounds DEF InFlight
  <2>5. call' \in [limit : 0 .. Timeout, attempt : {0, 1}, lasted : 0 .. LongestCall,
                   attemptLasted : 0 .. Timeout + Overrun]
    BY <2>2, <2>3, <2>4
  <2>6. now' \in 0 .. LastMoment
    BY <1>1, <2>1, <2>2, Bounds DEF InFlight
  <2>7. InFlight'
    BY <1>1, <2>1, <2>2, <2>3, Bounds DEF InFlight
  <2>8. used' \in [Providers -> Nat]
    BY <2>1 DEF ClockInv
  <2>9. ASSUME NEW k \in Providers
        PROVE  used'[k] = spent'[k] + InCall(k)' /\ used'[k] <= now' /\ used'[k] < Share + LongestCall
    <3>0. /\ used[k] \in Nat /\ spent[k] \in Nat /\ used[k] = spent[k] + InCall(k)
          /\ used[k] <= now /\ used[k] < Share + LongestCall
      BY DEF ClockInv
    <3>1. CASE k = i
      <4>1. used'[k] = used[k] + 1 /\ InCall(k) = lasted /\ InCall(k)' = lasted + 1
        BY <1>1, <1>3, <2>1, <2>3, <3>1 DEF InCall, ClockInv
      <4>2. spent[k] < Share
        BY <2>1, <3>1 DEF InFlight
      <4>. QED BY <1>1, <2>2, <2>4, <3>0, <4>1, <4>2, Bounds
    <3>2. CASE k # i
      <4>1. used'[k] = used[k] /\ InCall(k) = 0 /\ InCall(k)' = 0
        BY <1>1, <2>1, <3>2 DEF InCall, ClockInv
      <4>. QED BY <1>1, <3>0, <4>1
    <3>. QED BY <3>1, <3>2
  <2>10. spent' \in [Providers -> Nat]
    BY <1>1 DEF ClockInv
  <2>. QED BY <2>5, <2>6, <2>7, <2>8, <2>9, <2>10 DEF ClockInv
<1>. QED BY <1>2, <1>3

LEMMA ClockStep == LoopInv /\ ClockInv /\ [Next]_vars => ClockInv'
<1>. SUFFICES ASSUME LoopInv, ClockInv, [Next]_vars PROVE ClockInv'
  OBVIOUS
<1>1. CASE UNCHANGED <<loopVars, call, now, spent, used>>
  BY <1>1 DEF ClockInv, InFlight, InCall, loopVars
<1>2. ASSUME NEW skip \in Skips, Query(skip) PROVE ClockInv'
  BY <1>2, ClockOutside DEF Query, circuitVars
<1>3. ASSUME NEW i \in Providers,
             PassOver(i) \/ OutOfBudget(i) \/ LocalCircuitOpen(i) \/ SharedCircuitOpen(i) \/ Capped(i)
      PROVE  ClockInv'
  <2>1. /\ pc = "choosing" /\ UNCHANGED <<call, now, spent, used>>
        /\ Continue(i, productive) \/ Finish
    BY <1>3 DEF PassOver, OutOfBudget, LocalCircuitOpen, SharedCircuitOpen, Capped, Callable,
                Considered, At, circuitVars
  <2>. QED BY <2>1, LoopGoesOn, ClockOutside DEF LoopInv
<1>4. ASSUME NEW i \in Providers, StartCall(i) PROVE ClockInv'
  BY <1>4, ClockStart
<1>5. ASSUME NEW i \in Providers, NEW f \in Failures, RetryCall(i, f) PROVE ClockInv'
  BY <1>5, ClockRetry
<1>6. ASSUME NEW i \in Providers, NEW f \in Failures, CallFails(i, f) PROVE ClockInv'
  <2>1. /\ pc = "calling" /\ cursor = i /\ Charged(i) /\ call' = NoCall
        /\ Continue(i, productive) /\ UNCHANGED <<now, used>>
    BY <1>6 DEF CallFails
  <2>. QED BY <2>1, LoopGoesOn, ClockCallEnds DEF LoopInv
<1>7. ASSUME NEW i \in Providers, LateResult(i) \/ EmptyResult(i) \/ LowValueResult(i) PROVE ClockInv'
  <2>1. /\ pc = "calling" /\ cursor = i /\ Charged(i) /\ call' = NoCall
        /\ Continue(i, productive) /\ UNCHANGED <<now, used>>
    BY <1>7 DEF LateResult, EmptyResult, LowValueResult, Returned
  <2>. QED BY <2>1, LoopGoesOn, ClockCallEnds DEF LoopInv
<1>8. ASSUME NEW i \in Providers, NEW r \in Results, UsefulResult(i, r) PROVE ClockInv'
  <2>1. /\ pc = "calling" /\ cursor = i /\ Charged(i) /\ call' = NoCall
        /\ Continue(i, productive \/ EndsQuery(i, r)) /\ UNCHANGED <<now, used>>
    BY <1>8 DEF UsefulResult, Returned
  <2>2. pc' # "calling"
    BY <2>1, LoopGoesOn DEF LoopInv
  <2>. QED BY <2>1, <2>2, ClockCallEnds
<1>9. ASSUME NEW i \in Providers, HalfOpen(i) \/ OtherProcess(i)
      PROVE  UNCHANGED <<loopVars, call, now, spent, used>>
  BY <1>9 DEF HalfOpen, OtherProcess, circuitVars
<1>10. Tick => ClockInv'
  BY ClockTick
<1>11. CASE Next
  BY <1>1, <1>2, <1>3, <1>4, <1>5, <1>6, <1>7, <1>8, <1>9, <1>10, <1>11, ProviderStep
<1>12. CASE UNCHANGED vars
  BY <1>1, <1>12 DEF vars, loopVars, circuitVars
<1>. QED BY <1>11, <1>12

-----------------------------------------------------------------------------
LEMMA CircuitUnchanged ==
  ASSUME CircuitInv, UNCHANGED <<open, reopenAt, blocked, empties, failures, gaveUp>>,
         pc' = "calling" => pc = "calling" /\ cursor' = cursor
  PROVE  CircuitInv'
BY DEF CircuitInv

LEMMA CircuitHalfOpens ==
  ASSUME CircuitInv, NEW i \in Providers, HalfOpen(i)
  PROVE  CircuitInv'
<1>1. /\ i \in open /\ reopenAt[i] # Never /\ pc' # "calling"
      /\ open' = open \ {i} /\ reopenAt' = [reopenAt EXCEPT ![i] = Never]
      /\ UNCHANGED <<blocked, empties, failures, gaveUp>>
  BY DEF HalfOpen, Considered, At, CooledOff, HalfOpened, loopVars
<1>2. i \notin gaveUp /\ blocked[i] <= MaxReopens
  BY <1>1 DEF CircuitInv
<1>. QED BY <1>1, <1>2 DEF CircuitInv

(* A closed circuit opens for good.                                         *)
LEMMA CircuitOpens ==
  ASSUME CircuitInv, NEW i \in Providers, i \notin open, open' = open \cup {i},
         reopenAt' = [reopenAt EXCEPT ![i] = Never] \/ UNCHANGED reopenAt,
         gaveUp' \in {gaveUp, gaveUp \cup {i}},
         empties' \in [Providers -> Nat], failures' \in [Providers -> 0 .. FailureLimit],
         UNCHANGED blocked, pc' # "calling"
  PROVE  CircuitInv'
<1>1. reopenAt[i] = Never /\ UNCHANGED reopenAt
  BY DEF CircuitInv
<1>. QED BY <1>1 DEF CircuitInv

LEMMA CircuitBlocked ==
  ASSUME CircuitInv, LoopInv, ClockInv, NEW i \in Providers, i \notin open, open' = open \cup {i},
         CooldownSet(i, "blocked"), UNCHANGED <<gaveUp, empties>>,
         failures' \in [Providers -> 0 .. FailureLimit], pc' # "calling"
  PROVE  CircuitInv'
<1>1. /\ reopenAt[i] = Never /\ i \notin gaveUp /\ blocked[i] \in Nat /\ blocked[i] <= MaxReopens
  BY DEF CircuitInv
<1>2. /\ blocked' = [blocked EXCEPT ![i] = @ + 1]
      /\ reopenAt' = IF blocked[i] + 1 <= MaxReopens
                     THEN [reopenAt EXCEPT ![i] = now + BlockedCooldown] ELSE reopenAt
  BY DEF CooldownSet
<1>3. /\ now + BlockedCooldown \in 0 .. LastMoment + BlockedCooldown
      /\ now + BlockedCooldown # Never /\ MaxReopens \in Nat
  <2>1. now \in 0 .. LastMoment
    BY DEF ClockInv
  <2>2. LastMoment \in Nat
    BY Bounds
  <2>. HIDE DEF LastMoment, ClockInv
  <2>. QED BY <2>1, <2>2, CircuitBounds
<1>4. blocked' \in [Providers -> Nat] /\ blocked'[i] = blocked[i] + 1
  BY <1>1, <1>2 DEF CircuitInv
<1>5. CASE blocked[i] + 1 <= MaxReopens
  <2>1. reopenAt' = [reopenAt EXCEPT ![i] = now + BlockedCooldown]
    BY <1>2, <1>5
  <2>2. reopenAt' \in [Providers -> (0 .. LastMoment + BlockedCooldown) \cup {Never}]
    BY <1>3, <2>1 DEF CircuitInv
  <2>3. ASSUME NEW k \in Providers
        PROVE  /\ reopenAt'[k] # Never => k \in open'
               /\ k \in gaveUp' => k \in open' /\ reopenAt'[k] = Never
               /\ k \notin open' \/ reopenAt'[k] # Never => blocked'[k] <= MaxReopens
               /\ blocked'[k] <= MaxReopens + 1
    BY <1>1, <1>2, <1>3, <1>4, <1>5, <2>1 DEF CircuitInv
  <2>. QED BY <1>4, <2>2, <2>3 DEF CircuitInv
<1>6. CASE ~(blocked[i] + 1 <= MaxReopens)
  <2>1. UNCHANGED reopenAt
    BY <1>2, <1>6
  <2>2. ASSUME NEW k \in Providers
        PROVE  /\ reopenAt'[k] # Never => k \in open'
               /\ k \in gaveUp' => k \in open' /\ reopenAt'[k] = Never
               /\ k \notin open' \/ reopenAt'[k] # Never => blocked'[k] <= MaxReopens
               /\ blocked'[k] <= MaxReopens + 1
    BY <1>1, <1>2, <1>3, <1>4, <2>1 DEF CircuitInv
  <2>. QED BY <1>4, <2>1, <2>2 DEF CircuitInv
<1>. QED BY <1>5, <1>6

LEMMA CircuitFails ==
  ASSUME LoopInv, ClockInv, CircuitInv, NEW i \in Providers, NEW f \in Failures, CallFails(i, f)
  PROVE  CircuitInv'
<1>1. /\ i \notin open /\ pc' # "calling" /\ UNCHANGED empties
      /\ gaveUp' = IF f.status \in {"timeout", "parse_error"} THEN gaveUp \cup {i} ELSE gaveUp
  <2>1. pc = "calling" /\ cursor = i /\ Continue(i, productive)
    BY DEF CallFails
  <2>. QED BY <2>1, LoopGoesOn DEF CallFails, CircuitInv, LoopInv
<1>2. failures' \in [Providers -> 0 .. FailureLimit] /\ empties' \in [Providers -> Nat]
  <2>1. FailureLimit \in Nat /\ \A n \in 0 .. FailureLimit : n < FailureLimit => n + 1 \in 0 .. FailureLimit
    BY SessionAssumption
  <2>2. failures' = [failures EXCEPT ![i] = IF @ < FailureLimit THEN @ + 1 ELSE @]
    BY DEF CallFails
  <2>. QED BY <1>1, <2>1, <2>2 DEF CircuitInv
<1>3. f.status \in {"timeout", "parse_error", "blocked", "error"}
  BY DEF Failures
<1>4. CASE f.status = "blocked"
  <2>1. open' = open \cup {i} /\ CooldownSet(i, "blocked") /\ UNCHANGED gaveUp
    BY <1>1, <1>4 DEF CallFails
  <2>. QED BY <1>1, <1>2, <2>1, CircuitBlocked
<1>5. CASE f.status # "blocked" /\ open' = open \cup {i} /\ CooldownSet(i, f.status)
  <2>1. reopenAt' = [reopenAt EXCEPT ![i] = Never] /\ UNCHANGED blocked
    BY <1>5 DEF CooldownSet
  <2>. QED BY <1>1, <1>2, <1>5, <2>1, CircuitOpens
<1>6. CASE f.status = "error" /\ UNCHANGED <<open, reopenAt, blocked>>
  BY <1>1, <1>2, <1>6 DEF CircuitInv
<1>. QED BY <1>3, <1>4, <1>5, <1>6 DEF CallFails

LEMMA CircuitStep == LoopInv /\ ClockInv /\ CircuitInv /\ [Next]_vars => CircuitInv'
<1>. SUFFICES ASSUME LoopInv, ClockInv, CircuitInv, [Next]_vars PROVE CircuitInv'
  OBVIOUS
<1>1. ASSUME NEW skip \in Skips, Query(skip) PROVE CircuitInv'
  BY <1>1, CircuitUnchanged DEF Query, circuitVars
<1>2. ASSUME NEW i \in Providers, PassOver(i) \/ OutOfBudget(i) \/ LocalCircuitOpen(i) \/ Capped(i)
      PROVE  CircuitInv'
  <2>1. UNCHANGED circuitVars /\ (Continue(i, productive) \/ Finish)
    BY <1>2 DEF PassOver, OutOfBudget, LocalCircuitOpen, Capped
  <2>. QED BY <2>1, LoopGoesOn, CircuitUnchanged DEF circuitVars, LoopInv
<1>3. ASSUME NEW i \in Providers, HalfOpen(i) PROVE CircuitInv'
  BY <1>3, CircuitHalfOpens
<1>4. ASSUME NEW i \in Providers, SharedCircuitOpen(i) PROVE CircuitInv'
  <2>1. /\ i \notin open /\ open' = open \cup {i}
        /\ UNCHANGED <<reopenAt, gaveUp, empties, failures, blocked>>
        /\ Continue(i, productive)
    BY <1>4 DEF SharedCircuitOpen
  <2>2. pc' # "calling"
    BY <2>1, LoopGoesOn DEF LoopInv
  <2>3. empties' \in [Providers -> Nat] /\ failures' \in [Providers -> 0 .. FailureLimit]
    BY <2>1 DEF CircuitInv
  <2>. QED BY <2>1, <2>2, <2>3, CircuitOpens
<1>5. ASSUME NEW i \in Providers, StartCall(i) PROVE CircuitInv'
  <2>1. cursor' = i /\ i \notin open /\ UNCHANGED circuitVars
    BY <1>5 DEF StartCall, Callable, Considered, At
  <2>. QED BY <2>1 DEF CircuitInv, circuitVars
<1>6. ASSUME NEW i \in Providers, NEW f \in Failures, RetryCall(i, f) PROVE CircuitInv'
  BY <1>6, CircuitUnchanged DEF RetryCall, loopVars, circuitVars
<1>7. ASSUME NEW i \in Providers, NEW f \in Failures, CallFails(i, f) PROVE CircuitInv'
  BY <1>7, CircuitFails
<1>8. ASSUME NEW i \in Providers, NEW found \in BOOLEAN, Returned(i, found)
      PROVE  i \notin open /\ pc' # "calling"
  <2>1. pc = "calling" /\ cursor = i /\ Continue(i, found)
    BY <1>8 DEF Returned
  <2>. QED BY <2>1, LoopGoesOn DEF CircuitInv
<1>9. ASSUME NEW i \in Providers, LateResult(i) PROVE CircuitInv'
  <2>1. /\ Returned(i, productive) /\ open' = open \cup {i} /\ gaveUp' = gaveUp \cup {i}
        /\ UNCHANGED <<reopenAt, blocked, empties, failures>>
    BY <1>9 DEF LateResult
  <2>2. i \notin open /\ pc' # "calling"
    BY <2>1, <1>8 DEF LoopInv
  <2>3. empties' \in [Providers -> Nat] /\ failures' \in [Providers -> 0 .. FailureLimit]
    BY <2>1 DEF CircuitInv
  <2>. QED BY <2>1, <2>2, <2>3, CircuitOpens
<1>10. ASSUME NEW i \in Providers, EmptyResult(i) PROVE CircuitInv'
  <2>1. /\ Returned(i, productive) /\ open' \in {open, open \cup {i}}
        /\ empties' = [empties EXCEPT ![i] = IF @ < EmptyLimit[i] THEN @ + 1 ELSE @]
        /\ UNCHANGED <<reopenAt, blocked, failures, gaveUp>>
    BY <1>10 DEF EmptyResult
  <2>2. i \notin open /\ pc' # "calling"
    BY <2>1, <1>8 DEF LoopInv
  <2>3. empties' \in [Providers -> Nat] /\ failures' \in [Providers -> 0 .. FailureLimit]
    BY <2>1 DEF CircuitInv
  <2>4. CASE open' = open
    BY <2>1, <2>2, <2>3, <2>4 DEF CircuitInv
  <2>5. CASE open' = open \cup {i}
    BY <2>1, <2>2, <2>3, <2>5, CircuitOpens
  <2>. QED BY <2>1, <2>4, <2>5
<1>11. ASSUME NEW i \in Providers, LowValueResult(i) PROVE CircuitInv'
  <2>1. Returned(i, productive) /\ UNCHANGED <<open, reopenAt, blocked, empties, failures, gaveUp>>
    BY <1>11 DEF LowValueResult
  <2>. QED BY <2>1, <1>8, CircuitUnchanged DEF LoopInv
<1>12. ASSUME NEW i \in Providers, NEW r \in Results, UsefulResult(i, r) PROVE CircuitInv'
  <2>1. /\ Returned(i, productive \/ EndsQuery(i, r)) /\ UNCHANGED <<open, reopenAt, blocked, gaveUp>>
        /\ failures' = [failures EXCEPT ![i] = 0] /\ empties' = [empties EXCEPT ![i] = 0]
    BY <1>12 DEF UsefulResult
  <2>2. pc' # "calling"
    BY <2>1, <1>8
  <2>3. 0 \in 0 .. FailureLimit
    BY SessionAssumption
  <2>4. empties' \in [Providers -> Nat] /\ failures' \in [Providers -> 0 .. FailureLimit]
    BY <2>1, <2>3 DEF CircuitInv
  <2>. QED BY <2>1, <2>2, <2>4 DEF CircuitInv
<1>13. ASSUME NEW i \in Providers, OtherProcess(i) PROVE CircuitInv'
  BY <1>13, CircuitUnchanged DEF OtherProcess, loopVars, circuitVars
<1>14. Tick => CircuitInv'
  BY CircuitUnchanged DEF Tick, loopVars, circuitVars
<1>15. CASE Next
  BY <1>1, <1>2, <1>3, <1>4, <1>5, <1>6, <1>7, <1>9, <1>10, <1>11, <1>12, <1>13, <1>14, <1>15,
     ProviderStep
<1>16. CASE UNCHANGED vars
  BY <1>16, CircuitUnchanged DEF vars, loopVars, circuitVars
<1>. QED BY <1>15, <1>16

-----------------------------------------------------------------------------
(* The shared table's breakers are those of module BreakerEntry.            *)
LEMMA SameBreaker ==
  /\ Store!Fresh = Fresh
  /\ \A e : /\ Store!CooledDown(e) = CooledDown(e) /\ Store!Aged(e) = Aged(e)
           /\ Store!Succeeded(e) = Succeeded(e) /\ Store!Failed(e) = Failed(e)
<1>1. Store!Longest = Longest
  BY DEF Store!Longest, Longest
<1>2. \A n : Store!Older(n) = Older(n)
  BY <1>1 DEF Store!Older, Older
<1>3. \A e : Store!Counted(e) = Counted(e) /\ Store!Doubled(e) = Doubled(e)
  BY DEF Store!Counted, Counted, Store!Doubled, Doubled
<1>4. Store!Fresh = Fresh
  BY <1>1 DEF Store!Fresh, Fresh
<1>5. \A e : Store!CooledDown(e) = CooledDown(e)
  BY DEF Store!CooledDown, CooledDown
<1>6. \A e : Store!Aged(e) = Aged(e)
  BY <1>2 DEF Store!Aged, Aged
<1>7. \A e : Store!Succeeded(e) = Succeeded(e)
  BY DEF Store!Succeeded, Succeeded
<1>8. \A e : Store!Failed(e) = Failed(e)
  BY <1>3 DEF Store!Failed, Failed
<1>. QED BY <1>4, <1>5, <1>6, <1>7, <1>8

(* Every step does one operation of the shared table, or none.              *)
LEMMA HealthOperation ==
  ASSUME HealthInv, NEW i \in Providers,
         AskStore(i) \/ Store!RecordFailure(i) \/ Store!RecordSuccess(i)
  PROVE  HealthInv'
<1>1. Coherent(Store!OrFresh(health[i]))
  BY FreshCoherent, SameBreaker DEF Store!OrFresh, HealthInv
<1>2. ASSUME NEW e, Coherent(e), health' = [health EXCEPT ![i] = e] PROVE HealthInv'
  BY <1>2 DEF HealthInv, Coherent
<1>3. CASE UNCHANGED health
  BY <1>3 DEF HealthInv
<1>4. CASE health[i] # Absent /\ Store!Look(i)
  BY <1>2, <1>4, CooledDownCoherent, SameBreaker DEF Store!Look, HealthInv
<1>5. CASE Store!RecordFailure(i)
  BY <1>1, <1>2, <1>5, FailedCoherent, SameBreaker DEF Store!RecordFailure
<1>6. CASE Store!RecordSuccess(i)
  BY <1>1, <1>2, <1>6, SucceededCoherent, SameBreaker DEF Store!RecordSuccess
<1>. QED BY <1>3, <1>4, <1>5, <1>6 DEF AskStore

LEMMA HealthElapse == HealthInv /\ Store!Elapse => HealthInv'
<1>. SUFFICES ASSUME HealthInv, Store!Elapse PROVE HealthInv'
  OBVIOUS
<1>1. \A i \in Providers : health[i] # Absent => Coherent(Aged(health[i])) /\ Aged(health[i]) \in Entry
  BY AgedCoherent DEF HealthInv, Coherent
<1>. QED BY <1>1, SameBreaker DEF HealthInv, Store!Elapse

LEMMA HealthStep == LoopInv /\ HealthInv /\ [Next]_vars => HealthInv'
<1>. SUFFICES ASSUME LoopInv, HealthInv, [Next]_vars PROVE HealthInv'
  OBVIOUS
<1>1. CASE UNCHANGED health
  BY <1>1 DEF HealthInv
<1>2. ASSUME NEW skip \in Skips, Query(skip) PROVE UNCHANGED health
  BY <1>2 DEF Query
<1>3. ASSUME NEW i \in Providers, NEW f \in Failures,
             PassOver(i) \/ OutOfBudget(i) \/ HalfOpen(i) \/ LocalCircuitOpen(i) \/ RetryCall(i, f)
             \/ EmptyResult(i) \/ LowValueResult(i)
      PROVE  UNCHANGED health
  BY <1>3 DEF PassOver, OutOfBudget, HalfOpen, LocalCircuitOpen, RetryCall, EmptyResult, LowValueResult
<1>4. ASSUME NEW i \in Providers, SharedCircuitOpen(i) \/ Capped(i) \/ StartCall(i) PROVE AskStore(i)
  BY <1>4 DEF SharedCircuitOpen, Capped, StartCall, Callable
<1>5. ASSUME NEW i \in Providers, NEW f \in Failures, CallFails(i, f)
      PROVE  UNCHANGED health \/ Store!RecordFailure(i)
  BY <1>5 DEF CallFails, Reported
<1>6. ASSUME NEW i \in Providers, LateResult(i) PROVE Store!RecordFailure(i)
  BY <1>6 DEF LateResult
<1>7. ASSUME NEW i \in Providers, NEW r \in Results, UsefulResult(i, r) PROVE Store!RecordSuccess(i)
  BY <1>7 DEF UsefulResult
<1>8. ASSUME NEW i \in Providers, OtherProcess(i)
      PROVE  Store!RecordFailure(i) \/ Store!RecordSuccess(i)
  BY <1>8 DEF OtherProcess
<1>9. Tick => Store!Elapse
  BY DEF Tick
<1>10. Failures # {}
  BY DEF Failures
<1>11. CASE Next
  BY <1>1, <1>2, <1>3, <1>4, <1>5, <1>6, <1>7, <1>8, <1>9, <1>10, <1>11, ProviderStep,
     HealthOperation, HealthElapse
<1>12. CASE UNCHANGED vars
  BY <1>1, <1>12 DEF vars
<1>. QED BY <1>11, <1>12

-----------------------------------------------------------------------------
(* The four parts together are inductive.                                   *)
THEOREM Invariance == Spec => []Inv
<1>1. Init => Inv
  BY SearchInit
<1>2. Inv /\ [Next]_vars => Inv'
  BY LoopStep, ClockStep, CircuitStep, HealthStep DEF Inv
<1>. QED BY <1>1, <1>2, PTL DEF Spec

(* Type correctness of the search session.                                  *)
THEOREM TypeCorrect == Spec => []TypeOK
<1>1. Inv => TypeOK
  <2>. SUFFICES ASSUME Inv PROVE TypeOK
    OBVIOUS
  <2>1. \A i \in Providers : spent[i] \in 0 .. LastMoment /\ used[i] \in 0 .. LastMoment
    <3>. SUFFICES ASSUME NEW i \in Providers
         PROVE  spent[i] \in 0 .. LastMoment /\ used[i] \in 0 .. LastMoment
      OBVIOUS
    <3>1. /\ spent[i] \in Nat /\ used[i] \in Nat /\ used[i] = spent[i] + InCall(i) /\ used[i] <= now
          /\ now \in 0 .. LastMoment /\ call.lasted \in 0 .. LongestCall
      BY DEF Inv, ClockInv
    <3>2. InCall(i) \in Nat
      BY <3>1, Bounds DEF InCall
    <3>. QED BY <3>1, <3>2, Bounds
  <2>2. spent \in [Providers -> 0 .. LastMoment] /\ used \in [Providers -> 0 .. LastMoment]
    BY <2>1 DEF Inv, ClockInv
  <2>. QED BY <2>2 DEF TypeOK, Inv, LoopInv, ClockInv, CircuitInv, HealthInv
<1>. QED BY <1>1, Invariance, PTL

(* No provider ever gets more of the budget than its share and the one call *)
(* that crosses it.                                                         *)
THEOREM Fairness == Spec => []FairShare
<1>1. Inv => FairShare
  BY DEF Inv, ClockInv, FairShare
<1>. QED BY <1>1, Invariance, PTL

(* A blocking provider is probed again a bounded number of times.           *)
THEOREM BoundedReopens == Spec => []BlockedReopensBounded
<1>1. Inv => BlockedReopensBounded
  BY DEF Inv, CircuitInv, BlockedReopensBounded
<1>. QED BY <1>1, Invariance, PTL

(* A provider is not called again in the request that saw it time out.      *)
THEOREM FinalTimeouts == Spec => []TimeoutIsFinal
<1>1. Inv => TimeoutIsFinal
  BY DEF Inv, CircuitInv, TimeoutIsFinal
<1>. QED BY <1>1, Invariance, PTL

(* Searching overruns the budget by less than one attempt.                  *)
THEOREM Overruns == Spec => []OverrunBounded
<1>1. Inv => OverrunBounded
  <2>. SUFFICES ASSUME Inv, pc = "calling" PROVE OverrunBounded
    BY DEF OverrunBounded
  <2>1. InFlight /\ call.limit \in 0 .. Timeout /\ now \in Nat /\ call.lasted \in Nat /\ call.attemptLasted \in Nat
    BY Bounds DEF Inv, ClockInv
  <2>2. CASE call.attempt = 0
    BY <2>1, <2>2, Bounds DEF InFlight, OverrunBounded
  <2>3. CASE call.attempt # 0
    BY <2>1, <2>3, Bounds DEF InFlight, OverrunBounded
  <2>. QED BY <2>2, <2>3
<1>. QED BY <1>1, Invariance, PTL

-----------------------------------------------------------------------------
(* The lists that the facts of a product are made of (RawExtraction): what the     *)
(* numbers of a set, and lists one after the other, are for every argument.          *)

(* A set of numbers that has a member has a least one.                        *)
LEMMA LeastNumber ==
  ASSUME NEW S \in SUBSET Nat, S # {}
  PROVE  \E m \in S : \A n \in S : ~(n < m)
<1>1. \A m, n \in Nat : m < n => <<m, n>> \in OpToRel(<, Nat)
  BY DEF OpToRel
<1>2. PICK m \in S : \A n \in S : ~(<<n, m>> \in OpToRel(<, Nat))
  BY NatLessThanWellFounded, WFMin
<1>. QED BY <1>1, <1>2

(* A set of numbers that holds 0 and with each number below n the next holds all of them. *)
LEMMA Upwards ==
  ASSUME NEW n \in Nat, NEW S, 0 \in S, \A m \in 1 .. n : m - 1 \in S => m \in S
  PROVE  0 .. n \subseteq S
<1>. SUFFICES ASSUME (0 .. n) \ S # {} PROVE FALSE
  OBVIOUS
<1>. DEFINE T == (0 .. n) \ S
<1>0. T \in SUBSET Nat /\ T # {}
  OBVIOUS
<1>1. PICK m \in T : \A k \in T : ~(k < m)
  <2>. HIDE DEF T
  <2>. QED BY <1>0, LeastNumber
<1>2. m # 0 /\ m - 1 \in 0 .. n /\ m - 1 < m
  BY <1>1
<1>. QED BY <1>1, <1>2

Continues(f, n, a, step) == f[0] = a /\ \A m \in 1 .. n : f[m] = step[m][f[m - 1]]

(* A step that is given as a function can be repeated any number of times.    *)
LEMMA BoundedRecursion ==
  ASSUME NEW n \in Nat, NEW X, NEW a \in X, NEW step \in [1 .. n -> [X -> X]]
  PROVE  \E f \in [0 .. n -> X] : Continues(f, n, a, step)
<1>. DEFINE S == {k \in 0 .. n : \E f \in [0 .. k -> X] : Continues(f, k, a, step)}
<1>1. 0 \in S
  <2>1. [k \in 0 .. 0 |-> a] \in [0 .. 0 -> X] /\ Continues([k \in 0 .. 0 |-> a], 0, a, step)
    BY DEF Continues
  <2>. QED BY <2>1
<1>2. ASSUME NEW m \in 1 .. n, m - 1 \in S PROVE m \in S
  <2>1. PICK f \in [0 .. m - 1 -> X] : Continues(f, m - 1, a, step)
    BY <1>2
  <2>. DEFINE g == [k \in 0 .. m |-> IF k = m THEN step[m][f[m - 1]] ELSE f[k]]
  <2>2. step[m][f[m - 1]] \in X
    OBVIOUS
  <2>3. g \in [0 .. m -> X]
    BY <2>2
  <2>4. ASSUME NEW k \in 1 .. m PROVE g[k] = step[k][g[k - 1]]
    <3>1. CASE k = m
      <4>1. k - 1 \in 0 .. m /\ k - 1 # m
        BY <3>1
      <4>. QED BY <3>1, <4>1
    <3>2. CASE k # m
      <4>1. k \in 1 .. m - 1 /\ k - 1 \in 0 .. m - 1 /\ k - 1 # m
        BY <3>2
      <4>. QED BY <2>1, <4>1 DEF Continues
    <3>. QED BY <3>1, <3>2
  <2>5. g[0] = a
    BY <2>1 DEF Continues
  <2>6. Continues(g, m, a, step)
    BY <2>4, <2>5 DEF Continues
  <2>. QED BY <2>3, <2>6
<1>3. \A m \in 1 .. n : m - 1 \in S => m \in S
  BY <1>2
<1>4. 0 .. n \subseteq S
  <2>. HIDE DEF S
  <2>. QED BY <1>1, <1>3, Upwards
<1>. QED BY <1>4

(* Two that begin at one value and take the same steps go the same way.       *)
LEMMA SameContinuation ==
  ASSUME NEW a, NEW step, NEW n \in Nat, NEW k \in Nat, NEW g, NEW h, n <= k,
         Continues(g, n, a, step), Continues(h, k, a, step)
  PROVE  \A m \in 0 .. n : g[m] = h[m]
<1>. DEFINE S == {m \in 0 .. n : g[m] = h[m]}
<1>1. 0 \in S
  BY DEF Continues
<1>2. ASSUME NEW m \in 1 .. n, m - 1 \in S PROVE m \in S
  <2>1. g[m - 1] = h[m - 1] /\ m \in 1 .. k /\ m \in 0 .. n
    BY <1>2
  <2>. QED BY <2>1 DEF Continues
<1>3. \A m \in 1 .. n : m - 1 \in S => m \in S
  BY <1>2
<1>4. 0 .. n \subseteq S
  <2>. HIDE DEF S
  <2>. QED BY <1>1, <1>3, Upwards
<1>. QED BY <1>4

Follows(f, a, step) == f[0] = a /\ \A m \in Nat \ {0} : f[m] = step[m][f[m - 1]]

(* A function that is given at 0, and at each number from the number before.        *)
LEMMA Recursion ==
  ASSUME NEW X, NEW a \in X, NEW step \in [Nat \ {0} -> [X -> X]]
  PROVE  \E f \in [Nat -> X] : Follows(f, a, step)
<1>. DEFINE G(n) == CHOOSE g \in [0 .. n -> X] : Continues(g, n, a, step)
            f == [n \in Nat |-> G(n)[n]]
<1>1. ASSUME NEW n \in Nat PROVE G(n) \in [0 .. n -> X] /\ Continues(G(n), n, a, step)
  <2>. DEFINE part == [m \in 1 .. n |-> step[m]]
  <2>1. part \in [1 .. n -> [X -> X]]
    OBVIOUS
  <2>2. PICK g \in [0 .. n -> X] : Continues(g, n, a, part)
    <3>. HIDE DEF part
    <3>. QED BY <2>1, BoundedRecursion
  <2>3. Continues(g, n, a, step)
    BY <2>2 DEF Continues
  <2>. QED BY <2>3
<1>. HIDE DEF G
<1>2. f \in [Nat -> X]
  <2>1. \A n \in Nat : n \in 0 .. n
    OBVIOUS
  <2>. QED BY <1>1, <2>1
<1>3. f[0] = a
  BY <1>1 DEF Continues
<1>4. ASSUME NEW m \in Nat \ {0} PROVE f[m] = step[m][f[m - 1]]
  <2>1. m \in Nat /\ m - 1 \in Nat /\ m \in 1 .. m /\ m - 1 <= m /\ m - 1 \in 0 .. m - 1
    OBVIOUS
  <2>2. G(m - 1)[m - 1] = G(m)[m - 1]
    BY <1>1, <2>1, SameContinuation
  <2>3. G(m)[m] = step[m][G(m)[m - 1]]
    BY <1>1, <2>1 DEF Continues
  <2>. QED BY <2>1, <2>2, <2>3
<1>5. Follows(f, a, step)
  <2>. HIDE DEF f
  <2>. QED BY <1>3, <1>4 DEF Follows
<1>. QED BY <1>2, <1>5

Counts(S, m, t) ==
  /\ t \in Seq(Nat)
  /\ \A i \in 1 .. Len(t) : t[i] \in S /\ t[i] \in 1 .. m
  /\ \A k \in S \cap (1 .. m) : \E i \in 1 .. Len(t) : t[i] = k
  /\ \A i, j \in 1 .. Len(t) : i < j => t[i] < t[j]

(* Counting a number that is in the set appends it, one that is not changes nothing. *)
LEMMA CountsOneMore ==
  ASSUME NEW S, NEW m \in Nat \ {0}, NEW t, Counts(S, m - 1, t)
  PROVE  Counts(S, m, IF m \in S THEN Append(t, m) ELSE t)
<1>0. t \in Seq(Nat) /\ Len(t) \in Nat
  BY DEF Counts
<1>1. CASE m \in S
  <2>1. PICK u : u = Append(t, m)
    OBVIOUS
  <2>2. /\ u \in Seq(Nat) /\ Len(u) = Len(t) + 1
        /\ u[Len(t) + 1] = m /\ \A i \in 1 .. Len(t) : u[i] = t[i]
    BY <1>0, <2>1
  <2>3. ASSUME NEW i \in 1 .. Len(u) PROVE u[i] \in S /\ u[i] \in 1 .. m
    <3>1. CASE i = Len(t) + 1
      BY <1>1, <2>2, <3>1
    <3>2. CASE i # Len(t) + 1
      <4>1. i \in 1 .. Len(t)
        BY <1>0, <2>2, <3>2
      <4>2. t[i] \in S /\ t[i] \in 1 .. m - 1
        BY <4>1 DEF Counts
      <4>. QED BY <2>2, <4>1, <4>2
    <3>. QED BY <3>1, <3>2
  <2>4. ASSUME NEW k \in S \cap (1 .. m) PROVE \E i \in 1 .. Len(u) : u[i] = k
    <3>1. CASE k = m
      BY <1>0, <2>2, <3>1
    <3>2. CASE k # m
      <4>1. k \in S \cap (1 .. m - 1)
        BY <3>2
      <4>2. PICK i \in 1 .. Len(t) : t[i] = k
        BY <4>1 DEF Counts
      <4>. QED BY <1>0, <2>2, <4>2
    <3>. QED BY <3>1, <3>2
  <2>5. ASSUME NEW i \in 1 .. Len(u), NEW j \in 1 .. Len(u), i < j PROVE u[i] < u[j]
    <3>1. i \in 1 .. Len(t) /\ u[i] = t[i] /\ t[i] \in 1 .. m - 1
      BY <1>0, <2>2, <2>5 DEF Counts
    <3>2. CASE j = Len(t) + 1
      BY <2>2, <3>1, <3>2
    <3>3. CASE j # Len(t) + 1
      <4>1. j \in 1 .. Len(t)
        BY <1>0, <2>2, <3>3
      <4>2. t[i] < t[j]
        BY <2>5, <3>1, <4>1 DEF Counts
      <4>. QED BY <2>2, <3>1, <4>1, <4>2
    <3>. QED BY <3>2, <3>3
  <2>6. Counts(S, m, u)
    BY <2>2, <2>3, <2>4, <2>5 DEF Counts
  <2>. QED BY <1>1, <2>1, <2>6
<1>2. CASE m \notin S
  <2>1. S \cap (1 .. m) = S \cap (1 .. m - 1)
    BY <1>2
  <2>2. \A i \in 1 .. Len(t) : t[i] \in S /\ t[i] \in 1 .. m
    <3>1. \A x \in 1 .. m - 1 : x \in 1 .. m
      OBVIOUS
    <3>. QED BY <3>1 DEF Counts
  <2>3. Counts(S, m, t)
    BY <2>1, <2>2 DEF Counts
  <2>. QED BY <1>2, <2>3
<1>. QED BY <1>1, <1>2

IsUpTo(S, f) ==
  f = [m \in Nat |-> IF m = 0 THEN << >> ELSE IF m \in S THEN Append(f[m - 1], m) ELSE f[m - 1]]

(* Numbers is what its definition says: nothing at 0, then one number at a time. *)
LEMMA NumbersUnfold ==
  ASSUME NEW n, NEW S
  PROVE  \E up : /\ Numbers(S, n) = up[n] /\ up[0] = << >>
                 /\ \A m \in Nat \ {0} : up[m] = IF m \in S THEN Append(up[m - 1], m) ELSE up[m - 1]
<1>. DEFINE Step(m, t) == IF m \in S THEN Append(t, m) ELSE t
            step == [m \in Nat \ {0} |-> [t \in Seq(Nat) |-> Step(m, t)]]
            upTo == CHOOSE f : IsUpTo(S, f)
<1>1. Numbers(S, n) = upTo[n]
  BY DEF Numbers, IsUpTo
<1>2. step \in [Nat \ {0} -> [Seq(Nat) -> Seq(Nat)]] /\ << >> \in Seq(Nat)
  <2>1. \A m \in Nat \ {0}, t \in Seq(Nat) : Step(m, t) \in Seq(Nat)
    OBVIOUS
  <2>. HIDE DEF Step
  <2>. QED BY <2>1
<1>3. \A m \in Nat \ {0}, t \in Seq(Nat) : step[m][t] = Step(m, t)
  <2>. HIDE DEF Step
  <2>. QED OBVIOUS
<1>4. PICK f \in [Nat -> Seq(Nat)] : Follows(f, << >>, step)
  <2>. HIDE DEF step
  <2>. QED BY <1>2, Recursion
<1>5. \A m \in Nat : f[m] = IF m = 0 THEN << >> ELSE Step(m, f[m - 1])
  <2>1. \A m \in Nat \ {0} : m - 1 \in Nat
    OBVIOUS
  <2>. HIDE DEF Step, step
  <2>. QED BY <1>3, <1>4, <2>1 DEF Follows
<1>6. IsUpTo(S, f)
  <2>1. f = [m \in Nat |-> f[m]]
    OBVIOUS
  <2>. QED BY <1>5, <2>1 DEF IsUpTo
<1>7. IsUpTo(S, upTo)
  <2>1. \E g : IsUpTo(S, g)
    BY <1>6
  <2>. QED BY <2>1
<1>8. upTo[0] = << >> /\ \A m \in Nat \ {0} : upTo[m] = Step(m, upTo[m - 1])
  <2>. DEFINE Nth(m) == IF m = 0 THEN << >> ELSE Step(m, upTo[m - 1])
  <2>1. upTo = [m \in Nat |-> Nth(m)]
    <3>. HIDE DEF upTo
    <3>. QED BY <1>7 DEF IsUpTo
  <2>2. \A m \in Nat : upTo[m] = Nth(m)
    <3>. HIDE DEF Nth, upTo
    <3>. QED BY <2>1
  <2>. HIDE DEF upTo
  <2>. QED BY <2>2
<1>. QED BY <1>1, <1>8

(* Numbers lists the members of the set up to n, each once, in order.         *)
LEMMA NumbersCount ==
  ASSUME NEW n \in Nat, NEW S
  PROVE  Counts(S, n, Numbers(S, n))
<1>1. PICK up : /\ Numbers(S, n) = up[n] /\ up[0] = << >>
                /\ \A m \in Nat \ {0} : up[m] = IF m \in S THEN Append(up[m - 1], m) ELSE up[m - 1]
  BY NumbersUnfold
<1>. DEFINE T == {m \in 0 .. n : Counts(S, m, up[m])}
<1>3. 0 \in T
  <2>1. << >> \in Seq(Nat) /\ Len(<< >>) = 0 /\ 1 .. 0 = {}
    OBVIOUS
  <2>2. Counts(S, 0, << >>)
    BY <2>1 DEF Counts
  <2>. QED BY <1>1, <2>2
<1>4. ASSUME NEW m \in 1 .. n, m - 1 \in T PROVE m \in T
  <2>1. m - 1 \in 0 .. n /\ m \in 0 .. n /\ m \in Nat \ {0}
    OBVIOUS
  <2>2. Counts(S, m - 1, up[m - 1])
    BY <1>4
  <2>3. Counts(S, m, up[m])
    BY <1>1, <2>1, <2>2, CountsOneMore
  <2>. QED BY <2>1, <2>3
<1>5. 0 .. n \subseteq T
  <2>1. \A m \in 1 .. n : m - 1 \in T => m \in T
    BY <1>4
  <2>. HIDE DEF T
  <2>. QED BY <1>3, <2>1, Upwards
<1>. QED BY <1>1, <1>5

-----------------------------------------------------------------------------
(* Lists one after the other                                                  *)

IsJoined(parts, f) == f = [n \in 0 .. Len(parts) |-> IF n = 0 THEN << >> ELSE f[n - 1] \o parts[n]]

(* Where each element of a list joined from the first n parts comes from.        *)
ComesFrom(parts, n, t, src) ==
  /\ src \in [1 .. Len(t) -> (1 .. n) \X Nat]
  /\ \A p \in 1 .. Len(t) : /\ src[p][2] \in 1 .. Len(parts[src[p][1]])
                            /\ t[p] = parts[src[p][1]][src[p][2]]
  /\ \A p, q \in 1 .. Len(t) : src[p] = src[q] => p = q

Joins(parts, n, t, X) == t \in Seq(X) /\ \E src : ComesFrom(parts, n, t, src)

(* Concat is what its definition says: nothing at 0, then one part at a time. *)
LEMMA ConcatUnfold ==
  ASSUME NEW X, NEW parts, Len(parts) \in Nat, \A n \in 1 .. Len(parts) : parts[n] \in Seq(X)
  PROVE  \E up : /\ Concat(parts) = up[Len(parts)] /\ up[0] = << >>
                 /\ \A m \in 1 .. Len(parts) : up[m] = up[m - 1] \o parts[m]
<1>. DEFINE N == Len(parts)
            step == [m \in 1 .. N |-> [t \in Seq(X) |-> t \o parts[m]]]
            upTo == CHOOSE f : IsJoined(parts, f)
<1>1. Concat(parts) = upTo[N]
  BY DEF Concat, IsJoined
<1>2. step \in [1 .. N -> [Seq(X) -> Seq(X)]] /\ << >> \in Seq(X)
  OBVIOUS
<1>3. \A m \in 1 .. N, t \in Seq(X) : step[m][t] = t \o parts[m]
  OBVIOUS
<1>4. PICK f \in [0 .. N -> Seq(X)] : Continues(f, N, << >>, step)
  <2>. HIDE DEF step, N
  <2>1. N \in Nat
    BY DEF N
  <2>. QED BY <1>2, <2>1, BoundedRecursion
<1>5. \A m \in 0 .. N : f[m] = IF m = 0 THEN << >> ELSE f[m - 1] \o parts[m]
  <2>1. \A m \in 0 .. N : m = 0 \/ (m \in 1 .. N /\ m - 1 \in 0 .. N)
    OBVIOUS
  <2>. HIDE DEF step, N
  <2>. QED BY <1>3, <1>4, <2>1 DEF Continues
<1>6. IsJoined(parts, f)
  <2>1. f = [m \in 0 .. N |-> f[m]]
    OBVIOUS
  <2>. QED BY <1>5, <2>1 DEF IsJoined
<1>7. IsJoined(parts, upTo)
  <2>1. \E g : IsJoined(parts, g)
    BY <1>6
  <2>. QED BY <2>1
<1>8. upTo[0] = << >> /\ \A m \in 1 .. N : upTo[m] = upTo[m - 1] \o parts[m]
  <2>. DEFINE Nth(m) == IF m = 0 THEN << >> ELSE upTo[m - 1] \o parts[m]
  <2>1. upTo = [m \in 0 .. N |-> Nth(m)]
    <3>. HIDE DEF upTo
    <3>. QED BY <1>7 DEF IsJoined
  <2>2. \A m \in 0 .. N : upTo[m] = Nth(m)
    <3>. HIDE DEF Nth, upTo
    <3>. QED BY <2>1
  <2>3. 0 \in 0 .. N /\ \A m \in 1 .. N : m \in 0 .. N /\ m # 0
    OBVIOUS
  <2>. HIDE DEF upTo
  <2>. QED BY <2>2, <2>3
<1>. QED BY <1>1, <1>8

(* Each element of a list with one more part is of that part or was there before. *)
LEMMA JoinsOneMore ==
  ASSUME NEW X, NEW parts, NEW n \in Nat \ {0}, NEW t, Joins(parts, n - 1, t, X), parts[n] \in Seq(X)
  PROVE  Joins(parts, n, t \o parts[n], X)
<1>1. PICK last : last = parts[n]
  OBVIOUS
<1>2. PICK u : u = t \o last
  OBVIOUS
<1>3. /\ t \in Seq(X) /\ last \in Seq(X) /\ Len(t) \in Nat /\ Len(last) \in Nat
  BY <1>1 DEF Joins
<1>4. /\ u \in Seq(X) /\ Len(u) = Len(t) + Len(last)
      /\ \A p \in 1 .. Len(u) : u[p] = IF p <= Len(t) THEN t[p] ELSE last[p - Len(t)]
  BY <1>2, <1>3
<1>5. PICK src : ComesFrom(parts, n - 1, t, src)
  BY DEF Joins
<1>. DEFINE new == [p \in 1 .. Len(u) |-> IF p <= Len(t) THEN src[p] ELSE <<n, p - Len(t)>>]
<1>6. ASSUME NEW p \in 1 .. Len(u)
      PROVE  /\ new[p] \in (1 .. n) \X Nat /\ new[p][2] \in 1 .. Len(parts[new[p][1]])
             /\ u[p] = parts[new[p][1]][new[p][2]]
             /\ p <= Len(t) => new[p] = src[p] /\ src[p][1] \in 1 .. n - 1 /\ p \in 1 .. Len(t)
             /\ ~(p <= Len(t)) => new[p] = <<n, p - Len(t)>>
  <2>1. CASE p <= Len(t)
    <3>1. p \in 1 .. Len(t) /\ new[p] = src[p] /\ u[p] = t[p]
      BY <1>3, <1>4, <2>1
    <3>2. src[p] \in (1 .. n - 1) \X Nat /\ src[p][2] \in 1 .. Len(parts[src[p][1]]) /\ t[p] = parts[src[p][1]][src[p][2]]
      BY <1>5, <3>1 DEF ComesFrom
    <3>3. src[p][1] \in 1 .. n - 1 /\ src[p] \in (1 .. n) \X Nat
      BY <3>2
    <3>. QED BY <2>1, <3>1, <3>2, <3>3
  <2>2. CASE ~(p <= Len(t))
    <3>1. new[p] = <<n, p - Len(t)>> /\ u[p] = last[p - Len(t)] /\ p - Len(t) \in 1 .. Len(last)
      BY <1>3, <1>4, <2>2
    <3>. HIDE DEF new
    <3>2. new[p][1] = n /\ new[p][2] = p - Len(t) /\ new[p] \in (1 .. n) \X Nat
      BY <3>1
    <3>. QED BY <1>1, <2>2, <3>1, <3>2
  <2>. QED BY <2>1, <2>2
<1>7. ASSUME NEW p \in 1 .. Len(u), NEW q \in 1 .. Len(u), new[p] = new[q] PROVE p = q
  <2>. HIDE DEF new
  <2>0. p \in Nat /\ q \in Nat
    OBVIOUS
  <2>1. CASE p <= Len(t) /\ q <= Len(t)
    BY <1>5, <1>6, <1>7, <2>1 DEF ComesFrom
  <2>2. CASE ~(p <= Len(t)) /\ ~(q <= Len(t))
    <3>1. <<n, p - Len(t)>> = <<n, q - Len(t)>>
      BY <1>6, <1>7, <2>2
    <3>. QED BY <1>3, <2>0, <3>1
  <2>3. CASE p <= Len(t) /\ ~(q <= Len(t))
    <3>1. new[p][1] \in 1 .. n - 1 /\ new[q] = <<n, q - Len(t)>>
      BY <1>6, <2>3
    <3>. QED BY <1>7, <3>1
  <2>4. CASE ~(p <= Len(t)) /\ q <= Len(t)
    <3>1. new[q][1] \in 1 .. n - 1 /\ new[p] = <<n, p - Len(t)>>
      BY <1>6, <2>4
    <3>. QED BY <1>7, <3>1
  <2>. QED BY <2>1, <2>2, <2>3, <2>4
<1>8. ComesFrom(parts, n, u, new)
  <2>1. new = [p \in 1 .. Len(u) |-> new[p]]
    OBVIOUS
  <2>. HIDE DEF new
  <2>. QED BY <1>6, <1>7, <2>1 DEF ComesFrom
<1>. QED BY <1>1, <1>2, <1>4, <1>8 DEF Joins

(* Each element of the joined list is an element of one of the parts, in their order. *)
LEMMA ConcatJoins ==
  ASSUME NEW X, NEW parts, Len(parts) \in Nat, \A n \in 1 .. Len(parts) : parts[n] \in Seq(X)
  PROVE  Joins(parts, Len(parts), Concat(parts), X)
<1>. DEFINE N == Len(parts)
<1>1. PICK up : /\ Concat(parts) = up[N] /\ up[0] = << >>
                /\ \A m \in 1 .. N : up[m] = up[m - 1] \o parts[m]
  BY ConcatUnfold
<1>. DEFINE T == {m \in 0 .. N : Joins(parts, m, up[m], X)}
<1>2. 0 \in T
  <2>1. << >> \in Seq(X) /\ Len(<< >>) = 0 /\ 1 .. 0 = {}
    OBVIOUS
  <2>2. ComesFrom(parts, 0, << >>, [p \in 1 .. 0 |-> <<0, 0>>])
    BY <2>1 DEF ComesFrom
  <2>3. Joins(parts, 0, << >>, X)
    BY <2>1, <2>2 DEF Joins
  <2>. QED BY <1>1, <2>3
<1>3. ASSUME NEW m \in 1 .. N, m - 1 \in T PROVE m \in T
  <2>1. m - 1 \in 0 .. N /\ m \in 0 .. N /\ m \in Nat \ {0}
    OBVIOUS
  <2>2. Joins(parts, m - 1, up[m - 1], X) /\ parts[m] \in Seq(X)
    BY <1>3
  <2>3. Joins(parts, m, up[m - 1] \o parts[m], X)
    BY <2>1, <2>2, JoinsOneMore
  <2>4. Joins(parts, m, up[m], X)
    BY <1>1, <2>3
  <2>. QED BY <2>1, <2>4
<1>4. 0 .. N \subseteq T
  <2>1. \A m \in 1 .. N : m - 1 \in T => m \in T
    BY <1>3
  <2>2. N \in Nat
    OBVIOUS
  <2>. HIDE DEF T, N
  <2>. QED BY <1>2, <2>1, <2>2, Upwards
<1>5. N \in 0 .. N
  OBVIOUS
<1>. QED BY <1>1, <1>4, <1>5

-----------------------------------------------------------------------------
(* The clusters of normalised records                                         *)

(* A function on 1 .. n is a sequence of length n.                            *)
LEMMA ListOf ==
  ASSUME NEW n \in Nat, NEW X, NEW f \in [1 .. n -> X]
  PROVE  f \in Seq(X) /\ Len(f) = n
<1>1. f \in Seq(X)
  OBVIOUS
<1>2. DOMAIN f = 1 .. n /\ DOMAIN f = 1 .. Len(f) /\ Len(f) \in Nat
  BY <1>1
<1>. QED BY <1>1, <1>2

LongerRun(r, s) == r[3] > s[3] \/ (r[3] = s[3] /\ (r[1] < s[1] \/ (r[1] = s[1] /\ r[2] <= s[2])))

(* Of some runs of bounded length one comes first: the longest, of these the earliest. *)
LEMMA LongestRun ==
  ASSUME NEW R \in SUBSET (Nat \X Nat \X Nat), NEW n \in Nat, R # {}, \A r \in R : r[3] <= n
  PROVE  \E r \in R : \A s \in R : LongerRun(r, s)
<1>1. PICK a \in R : \A s \in R : s[3] <= a[3]
  <2>. DEFINE S == {n - r[3] : r \in R}
  <2>1. S # {} /\ S \in SUBSET Nat
    OBVIOUS
  <2>2. PICK m \in S : \A k \in S : ~(k < m)
    <3>. HIDE DEF S
    <3>. QED BY <2>1, LeastNumber
  <2>3. PICK a \in R : m = n - a[3]
    BY <2>2
  <2>4. ASSUME NEW s \in R PROVE s[3] <= a[3]
    <3>1. ~(n - s[3] < n - a[3])
      BY <2>2, <2>3
    <3>. QED BY <3>1
  <2>. QED BY <2>4
<1>2. PICK b \in R : b[3] = a[3] /\ \A s \in R : s[3] = a[3] => b[1] <= s[1]
  <2>. DEFINE S == {r[1] : r \in {q \in R : q[3] = a[3]}}
  <2>1. S # {} /\ S \in SUBSET Nat
    OBVIOUS
  <2>2. PICK m \in S : \A k \in S : ~(k < m)
    <3>. HIDE DEF S
    <3>. QED BY <2>1, LeastNumber
  <2>3. PICK b \in R : b[3] = a[3] /\ m = b[1]
    BY <2>2
  <2>4. ASSUME NEW s \in R, s[3] = a[3] PROVE b[1] <= s[1]
    <3>1. ~(s[1] < b[1])
      BY <2>2, <2>3, <2>4
    <3>. QED BY <3>1
  <2>. QED BY <2>3, <2>4
<1>3. PICK c \in R : c[3] = a[3] /\ c[1] = b[1] /\ \A s \in R : s[3] = a[3] /\ s[1] = b[1] => c[2] <= s[2]
  <2>. DEFINE S == {r[2] : r \in {q \in R : q[3] = a[3] /\ q[1] = b[1]}}
  <2>1. S # {} /\ S \in SUBSET Nat
    BY <1>2
  <2>2. PICK m \in S : \A k \in S : ~(k < m)
    <3>. HIDE DEF S
    <3>. QED BY <2>1, LeastNumber
  <2>3. PICK c \in R : c[3] = a[3] /\ c[1] = b[1] /\ m = c[2]
    BY <2>2
  <2>4. ASSUME NEW s \in R, s[3] = a[3], s[1] = b[1] PROVE c[2] <= s[2]
    <3>1. ~(s[2] < c[2])
      BY <2>2, <2>3, <2>4
    <3>. QED BY <3>1
  <2>. QED BY <2>3, <2>4
<1>4. ASSUME NEW s \in R PROVE LongerRun(c, s)
  <2>1. /\ c[1] \in Nat /\ c[2] \in Nat /\ c[3] \in Nat /\ s[1] \in Nat /\ s[2] \in Nat /\ s[3] \in Nat
    OBVIOUS
  <2>2. s[3] <= a[3] /\ c[3] = a[3] /\ c[1] = b[1]
    BY <1>1, <1>3
  <2>3. s[3] = a[3] => c[1] <= s[1]
    BY <1>2, <1>3
  <2>4. s[3] = a[3] /\ s[1] = c[1] => c[2] <= s[2]
    BY <1>3
  <2>. QED BY <2>1, <2>2, <2>3, <2>4 DEF LongerRun
<1>. QED BY <1>4

EqualRun(left, right, r) ==
  \A k \in 0 .. r[3] - 1 : /\ r[1] + k \in DOMAIN left /\ r[2] + k \in DOMAIN right
                           /\ left[r[1] + k] = right[r[2] + k]

(* A matching block is a run of equal values.                                  *)
LEMMA MatchingBlocksEqual ==
  ASSUME NEW X, NEW left \in Seq(X), NEW right \in Seq(X), NEW b \in MatchingBlocks(left, right)
  PROVE  EqualRun(left, right, b) /\ b \in Nat \X Nat \X Nat
<1>. DEFINE runs == {r \in (DOMAIN left) \X (DOMAIN right) \X (DOMAIN left) :
                       /\ r[1] + r[3] - 1 <= Len(left) /\ r[2] + r[3] - 1 <= Len(right)
                       /\ \A k \in 0 .. r[3] - 1 : left[r[1] + k] = right[r[2] + k]}
            Inside(w) == {r \in runs : /\ w[1] <= r[1] /\ r[1] + r[3] - 1 <= w[2]
                                       /\ w[3] <= r[2] /\ r[2] + r[3] - 1 <= w[4]}
<1>1. PICK w : Inside(w) # {} /\ b = CHOOSE r \in Inside(w) : \A s \in Inside(w) : LongerRun(r, s)
  BY DEF MatchingBlocks, LongerRun
<1>2. Inside(w) \in SUBSET (Nat \X Nat \X Nat) /\ \A r \in Inside(w) : r[3] <= Len(left)
  OBVIOUS
<1>3. Inside(w) \subseteq runs
  OBVIOUS
<1>4. b \in Inside(w)
  <2>1. Len(left) \in Nat
    OBVIOUS
  <2>. HIDE DEF Inside
  <2>2. \E r \in Inside(w) : \A s \in Inside(w) : LongerRun(r, s)
    BY <1>1, <1>2, <2>1, LongestRun
  <2>. QED BY <1>1, <2>2
<1>5. b \in runs
  <2>. HIDE DEF Inside, runs
  <2>. QED BY <1>3, <1>4
<1>6. b \in Nat \X Nat \X Nat /\ b[1] \in 1 .. Len(left) /\ b[2] \in 1 .. Len(right)
  BY <1>5
<1>7. ASSUME NEW k \in 0 .. b[3] - 1
      PROVE  b[1] + k \in DOMAIN left /\ b[2] + k \in DOMAIN right /\ left[b[1] + k] = right[b[2] + k]
  <2>1. b[1] + b[3] - 1 <= Len(left) /\ b[2] + b[3] - 1 <= Len(right) /\ left[b[1] + k] = right[b[2] + k]
    BY <1>5
  <2>2. b[1] \in Nat /\ b[2] \in Nat /\ b[3] \in Nat /\ Len(left) \in Nat /\ Len(right) \in Nat
    BY <1>6
  <2>3. b[1] + k \in 1 .. Len(left) /\ b[2] + k \in 1 .. Len(right)
    <3>. HIDE DEF runs, Inside
    <3>. QED BY <1>6, <2>1, <2>2
  <2>. QED BY <2>1, <2>3
<1>. QED BY <1>6, <1>7 DEF EqualRun

Agree(records, i, j) ==
  ValueKey(records[i]) = ValueKey(records[j]) /\ records[i].variant = records[j].variant

(* Records that are duplicates say the same value of the same variant.        *)
LEMMA DuplicatesAgree ==
  ASSUME NEW records, NEW i, NEW j, Duplicates(records, i, j)
  PROVE  Agree(records, i, j)
BY DEF Duplicates, SameBucket, Agree

(* So do records that stand opposite each other in sibling locales or readers. *)
LEMMA AlignedAgree ==
  ASSUME NEW records, IsList(records), NEW i, NEW j, Aligned(records, i, j)
  PROVE  Agree(records, i, j)
<1>. DEFINE Stream(k) == Numbers({l \in DOMAIN records :
                              /\ records[l].cls \in {"spec", "identity"}
                              /\ records[l].raw.url = records[k].raw.url /\ records[l].raw.method = records[k].raw.method
                              /\ records[l].raw.sourceType = records[k].raw.sourceType}, Len(records))
            Values(stream) == [k \in DOMAIN stream |-> ValueKey(records[stream[k]])]
            X == {ValueKey(records[k]) : k \in Nat}
<1>0. PICK b \in MatchingBlocks(Values(Stream(i)), Values(Stream(j))) :
        \E k \in 0 .. b[3] - 1 : Stream(i)[b[1] + k] = i /\ Stream(j)[b[2] + k] = j
  BY DEF Aligned
<1>1. PICK k \in 0 .. b[3] - 1 : Stream(i)[b[1] + k] = i /\ Stream(j)[b[2] + k] = j
  BY <1>0
<1>2. records[i].variant = records[j].variant
  BY DEF Aligned
<1>3. ASSUME NEW q PROVE Stream(q) \in Seq(Nat)
  <2>1. Len(records) \in Nat
    BY DEF IsList
  <2>. QED BY <2>1, NumbersCount DEF Counts
<1>. HIDE DEF Stream
<1>4. ASSUME NEW stream \in Seq(Nat) PROVE Values(stream) \in Seq(X)
  OBVIOUS
<1>5. Values(Stream(i)) \in Seq(X) /\ Values(Stream(j)) \in Seq(X)
  BY <1>3, <1>4
<1>6. EqualRun(Values(Stream(i)), Values(Stream(j)), b)
  <2>. HIDE DEF Values, X
  <2>. QED BY <1>5, MatchingBlocksEqual
<1>7. /\ b[1] + k \in DOMAIN Values(Stream(i)) /\ b[2] + k \in DOMAIN Values(Stream(j))
      /\ Values(Stream(i))[b[1] + k] = Values(Stream(j))[b[2] + k]
  <2>. HIDE DEF Values
  <2>. QED BY <1>6 DEF EqualRun
<1>8. ASSUME NEW stream, NEW p \in DOMAIN Values(stream) PROVE Values(stream)[p] = ValueKey(records[stream[p]])
  OBVIOUS
<1>9. ValueKey(records[i]) = ValueKey(records[j])
  <2>. HIDE DEF Values
  <2>. QED BY <1>1, <1>7, <1>8
<1>. QED BY <1>2, <1>9 DEF Agree

-----------------------------------------------------------------------------

JoinedBy(records, clusters, j) ==
  {c \in clusters : \E i \in c : Duplicates(records, i, j) \/ Aligned(records, i, j)}
JoinRecord(records, clusters, j) ==
  (clusters \ JoinedBy(records, clusters, j)) \cup {{j} \cup UNION JoinedBy(records, clusters, j)}

AreClusters(records, f) == f = [n \in Nat |-> IF n = 0 THEN {} ELSE JoinRecord(records, f[n - 1], n)]

(* Clusters is what its definition says: none at first, then one record at a time. *)
LEMMA ClustersUnfold ==
  ASSUME NEW records
  PROVE  \E up : /\ Clusters(records) = up[Len(records)] /\ up[0] = {}
                 /\ \A m \in Nat \ {0} : up[m] = JoinRecord(records, up[m - 1], m)
<1>. DEFINE X == SUBSET SUBSET Nat
            step == [m \in Nat \ {0} |-> [t \in X |-> JoinRecord(records, t, m)]]
            upTo == CHOOSE f : AreClusters(records, f)
<1>1. Clusters(records) = upTo[Len(records)]
  BY DEF Clusters, AreClusters, JoinRecord, JoinedBy
<1>2. step \in [Nat \ {0} -> [X -> X]] /\ {} \in X
  <2>1. \A m \in Nat \ {0}, t \in X : JoinRecord(records, t, m) \in X
    BY DEF JoinRecord, JoinedBy
  <2>. HIDE DEF X
  <2>2. step \in [Nat \ {0} -> [X -> X]]
    BY <2>1
  <2>. QED BY <2>2 DEF X
<1>3. \A m \in Nat \ {0}, t \in X : step[m][t] = JoinRecord(records, t, m)
  <2>. HIDE DEF X
  <2>. QED OBVIOUS
<1>4. PICK f \in [Nat -> X] : Follows(f, {}, step)
  <2>. HIDE DEF step, X
  <2>. QED BY <1>2, Recursion
<1>5. \A m \in Nat : f[m] = IF m = 0 THEN {} ELSE JoinRecord(records, f[m - 1], m)
  <2>1. \A m \in Nat \ {0} : m - 1 \in Nat
    OBVIOUS
  <2>. HIDE DEF step, X
  <2>. QED BY <1>3, <1>4, <2>1 DEF Follows
<1>6. AreClusters(records, f)
  <2>1. f = [m \in Nat |-> f[m]]
    OBVIOUS
  <2>. HIDE DEF X
  <2>. QED BY <1>5, <2>1 DEF AreClusters
<1>7. AreClusters(records, upTo)
  <2>1. \E g : AreClusters(records, g)
    BY <1>6
  <2>. QED BY <2>1
<1>8. upTo[0] = {} /\ \A m \in Nat \ {0} : upTo[m] = JoinRecord(records, upTo[m - 1], m)
  <2>. DEFINE Nth(m) == IF m = 0 THEN {} ELSE JoinRecord(records, upTo[m - 1], m)
  <2>1. upTo = [m \in Nat |-> Nth(m)]
    <3>. HIDE DEF upTo
    <3>. QED BY <1>7 DEF AreClusters
  <2>2. \A m \in Nat : upTo[m] = Nth(m)
    <3>. HIDE DEF Nth, upTo
    <3>. QED BY <2>1
  <2>. HIDE DEF upTo
  <2>. QED BY <2>2
<1>. QED BY <1>1, <1>8

(* Clusters of the first n records, each of records that agree.                  *)
Agreeing(records, n, clusters) ==
  \A c \in clusters : /\ c # {} /\ c \in SUBSET (1 .. n)
                      /\ \A i, j \in c : Agree(records, i, j)

(* A record that joins a cluster agrees with all of it: it was compared with one of them, *)
(* and agreeing is transitive.                                                *)
LEMMA JoinAgreeing ==
  ASSUME NEW records, IsList(records), NEW n \in Nat \ {0}, NEW clusters, Agreeing(records, n - 1, clusters)
  PROVE  Agreeing(records, n, JoinRecord(records, clusters, n))
<1>. DEFINE joined == JoinedBy(records, clusters, n)
<1>1. ASSUME NEW c \in joined, NEW i \in c PROVE Agree(records, i, n) /\ i \in 1 .. n
  <2>1. c \in clusters
    BY DEF JoinedBy
  <2>2. PICK k \in c : Duplicates(records, k, n) \/ Aligned(records, k, n)
    BY DEF JoinedBy
  <2>3. Agree(records, k, n)
    BY <2>2, DuplicatesAgree, AlignedAgree
  <2>4. Agree(records, i, k) /\ i \in 1 .. n - 1
    BY <2>1 DEF Agreeing
  <2>. QED BY <2>3, <2>4 DEF Agree
<1>. HIDE DEF joined
<1>2. \A c \in joined : \A i \in c : Agree(records, i, n) /\ i \in 1 .. n
  BY <1>1
<1>. DEFINE new == {n} \cup UNION joined
<1>3. \A i \in new : Agree(records, i, n) /\ i \in 1 .. n
  BY <1>2 DEF Agree
<1>4. new # {} /\ new \in SUBSET (1 .. n) /\ \A i, j \in new : Agree(records, i, j)
  <2>1. new # {}
    OBVIOUS
  <2>. HIDE DEF new
  <2>. QED BY <1>3, <2>1 DEF Agree
<1>5. ASSUME NEW c \in clusters PROVE c # {} /\ c \in SUBSET (1 .. n) /\ \A i, j \in c : Agree(records, i, j)
  BY DEF Agreeing
<1>6. \A c \in JoinRecord(records, clusters, n) : c \in clusters \/ c = new
  BY DEF JoinRecord, joined
<1>. HIDE DEF new
<1>. QED BY <1>4, <1>5, <1>6 DEF Agreeing

(* So the clusters of all the records are each of records that agree.         *)
LEMMA ClustersAgreeing ==
  ASSUME NEW records, IsList(records)
  PROVE  Agreeing(records, Len(records), Clusters(records))
<1>. DEFINE N == Len(records)
<1>1. PICK up : /\ Clusters(records) = up[N] /\ up[0] = {}
                /\ \A m \in Nat \ {0} : up[m] = JoinRecord(records, up[m - 1], m)
  BY ClustersUnfold
<1>. DEFINE T == {m \in 0 .. N : Agreeing(records, m, up[m])}
<1>0. N \in Nat
  BY DEF IsList
<1>2. 0 \in T
  BY <1>0, <1>1 DEF Agreeing
<1>3. ASSUME NEW m \in 1 .. N, m - 1 \in T PROVE m \in T
  <2>1. m - 1 \in 0 .. N /\ m \in 0 .. N /\ m \in Nat \ {0}
    BY <1>0
  <2>2. Agreeing(records, m - 1, up[m - 1])
    BY <1>3
  <2>3. Agreeing(records, m, JoinRecord(records, up[m - 1], m))
    BY <2>1, <2>2, JoinAgreeing
  <2>4. Agreeing(records, m, up[m])
    BY <1>1, <2>1, <2>3
  <2>. QED BY <2>1, <2>4
<1>4. 0 .. N \subseteq T
  <2>1. \A m \in 1 .. N : m - 1 \in T => m \in T
    BY <1>3
  <2>. HIDE DEF T, N
  <2>. QED BY <1>0, <1>2, <2>1, Upwards
<1>5. N \in 0 .. N
  BY <1>0
<1>. QED BY <1>1, <1>4, <1>5

(* A function on 1 .. n is a list.                                            *)
LEMMA FunctionListed ==
  ASSUME NEW n \in Nat, NEW f, DOMAIN f = 1 .. n, f = [k \in 1 .. n |-> f[k]]
  PROVE  IsList(f) /\ Len(f) = n
<1>. DEFINE X == {f[k] : k \in 1 .. n}
<1>1. f \in [1 .. n -> X]
  OBVIOUS
<1>2. Len(f) = n
  <2>. HIDE DEF X
  <2>. QED BY <1>1, ListOf
<1>. QED BY <1>2 DEF IsList

(* There is one normalised record for each raw pair.                          *)
LEMMA RecordsListed ==
  ASSUME NEW raws, IsList(raws)
  PROVE  IsList(Records(raws)) /\ DOMAIN Records(raws) = DOMAIN raws
<1>1. DOMAIN Records(raws) = DOMAIN raws /\ Records(raws) = [k \in DOMAIN raws |-> Records(raws)[k]]
  <2>. DEFINE A == [i \in DOMAIN raws |-> Record(raws[i])]
              B == WithoutTemplates(A)
              C == WithVariants(B, IdentityNodes(B))
              D == [i \in DOMAIN C |-> FinaliseValue(C[i])]
  <2>1. Records(raws) = D
    BY DEF Records
  <2>2. DOMAIN A = DOMAIN raws
    OBVIOUS
  <2>. HIDE DEF A
  <2>3. DOMAIN B = DOMAIN A
    BY DEF WithoutTemplates
  <2>. HIDE DEF B
  <2>4. DOMAIN C = DOMAIN B
    BY DEF WithVariants
  <2>. HIDE DEF C
  <2>5. DOMAIN D = DOMAIN raws /\ D = [k \in DOMAIN raws |-> D[k]]
    BY <2>2, <2>3, <2>4
  <2>. HIDE DEF D
  <2>. QED BY <2>1, <2>5
<1>2. Len(raws) \in Nat /\ DOMAIN raws = 1 .. Len(raws)
  BY DEF IsList
<1>. QED BY <1>1, <1>2, FunctionListed

(* The evidence of an attribute is a cluster, its first record the first of it.  *)
EvidenceOf(records, clusters, a) ==
  /\ IsList(a.evidence) /\ Len(a.evidence) > 0 /\ a.evidence[1] \in Nat
  /\ a.first = records[a.evidence[1]].raw
  /\ \E c \in clusters : a = Attribute(records, c) /\ \A i \in 1 .. Len(a.evidence) : a.evidence[i] \in c

InOrder(attributes) ==
  \A k, l \in DOMAIN attributes : k < l => attributes[k].evidence[1] < attributes[l].evidence[1]

(* Each attribute has one cluster of records as its evidence, and they come in the order *)
(* of their first records.                                                    *)
LEMMA AttributesEvidence ==
  ASSUME NEW records, IsList(records), NEW clusters, Agreeing(records, Len(records), clusters)
  PROVE  /\ IsList(AttributesOf(records, clusters))
         /\ \A k \in DOMAIN AttributesOf(records, clusters) :
              EvidenceOf(records, clusters, AttributesOf(records, clusters)[k])
         /\ InOrder(AttributesOf(records, clusters))
<1>. DEFINE N == Len(records)
            Leads(i, c) == i \in c /\ \A j \in c : i <= j
            S == {i \in DOMAIN records : \E c \in clusters : Leads(i, c)}
            leads == Numbers(S, N)
            Of(k) == CHOOSE c \in clusters : Leads(leads[k], c)
            result == AttributesOf(records, clusters)
<1>1. N \in Nat /\ DOMAIN records = 1 .. N
  BY DEF IsList
<1>2. leads \in Seq(Nat) /\ (\A k \in DOMAIN leads : leads[k] \in S)
        /\ \A k, l \in DOMAIN leads : k < l => leads[k] < leads[l]
  <2>. HIDE DEF S
  <2>1. Counts(S, N, leads)
    <3>. HIDE DEF N
    <3>. QED BY <1>1, NumbersCount
  <2>2. leads \in Seq(Nat)
    <3>. HIDE DEF leads
    <3>. QED BY <2>1 DEF Counts
  <2>3. DOMAIN leads = 1 .. Len(leads)
    <3>. HIDE DEF leads
    <3>. QED BY <2>2
  <2>. HIDE DEF leads
  <2>. QED BY <2>1, <2>2, <2>3 DEF Counts
<1>3. result = [k \in DOMAIN leads |-> Attribute(records, Of(k))]
  BY DEF AttributesOf
<1>4. DOMAIN leads = 1 .. Len(leads) /\ Len(leads) \in Nat
  <2>. HIDE DEF leads
  <2>. QED BY <1>2
<1>5. IsList(result) /\ DOMAIN result = DOMAIN leads
  <2>. HIDE DEF leads, result, Of
  <2>1. DOMAIN result = 1 .. Len(leads) /\ result = [k \in 1 .. Len(leads) |-> result[k]]
    BY <1>3, <1>4
  <2>. QED BY <1>4, <2>1, FunctionListed
<1>6. ASSUME NEW k \in DOMAIN leads
      PROVE  /\ Of(k) \in clusters /\ Leads(leads[k], Of(k)) /\ leads[k] \in 1 .. N
  <2>1. leads[k] \in S
    BY <1>2
  <2>2. leads[k] \in 1 .. N /\ \E c \in clusters : Leads(leads[k], c)
    <3>. HIDE DEF leads
    <3>. QED BY <1>1, <2>1
  <2>. HIDE DEF leads, Leads
  <2>. QED BY <2>2
<1>7. ASSUME NEW c \in clusters, NEW i \in 1 .. N, Leads(i, c)
      PROVE  /\ EvidenceOf(records, clusters, Attribute(records, c))
             /\ Attribute(records, c).evidence[1] = i
  <2>. DEFINE e == Numbers(c, N)
  <2>1. Attribute(records, c).evidence = e /\ Attribute(records, c).first = records[e[1]].raw
    BY DEF Attribute
  <2>2. Counts(c, N, e)
    <3>. HIDE DEF N
    <3>. QED BY <1>1, NumbersCount
  <2>. HIDE DEF e
  <2>3. e \in Seq(Nat) /\ DOMAIN e = 1 .. Len(e) /\ Len(e) \in Nat
    BY <2>2 DEF Counts
  <2>4. i \in c \cap (1 .. N)
    BY <1>7
  <2>5. PICK p \in 1 .. Len(e) : e[p] = i
    BY <2>2, <2>4 DEF Counts
  <2>6. Len(e) > 0 /\ 1 \in 1 .. Len(e)
    BY <2>3, <2>5
  <2>7. e[1] \in c /\ e[1] \in 1 .. N
    BY <2>2, <2>6 DEF Counts
  <2>8. i <= e[1]
    BY <1>7, <2>7
  <2>9. p > 1 => e[1] < e[p]
    BY <2>2, <2>5, <2>6 DEF Counts
  <2>10. e[1] = i
    BY <2>5, <2>7, <2>8, <2>9
  <2>11. \A q \in 1 .. Len(e) : e[q] \in c
    BY <2>2 DEF Counts
  <2>12. EvidenceOf(records, clusters, Attribute(records, c))
    BY <2>1, <2>3, <2>6, <2>7, <2>11 DEF EvidenceOf, IsList
  <2>. QED BY <2>1, <2>10, <2>12
<1>8. \A k \in DOMAIN leads : /\ result[k] = Attribute(records, Of(k))
                              /\ EvidenceOf(records, clusters, result[k]) /\ result[k].evidence[1] = leads[k]
  <2>1. ASSUME NEW k \in DOMAIN leads
        PROVE  /\ result[k] = Attribute(records, Of(k))
               /\ EvidenceOf(records, clusters, result[k]) /\ result[k].evidence[1] = leads[k]
    <3>1. result[k] = Attribute(records, Of(k))
      <4>. HIDE DEF result, leads, Of
      <4>. QED BY <1>3
    <3>2. /\ EvidenceOf(records, clusters, Attribute(records, Of(k)))
          /\ Attribute(records, Of(k)).evidence[1] = leads[k]
      <4>1. Of(k) \in clusters /\ Leads(leads[k], Of(k)) /\ leads[k] \in 1 .. N
        BY <1>6
      <4>. HIDE DEF Of, leads, Leads
      <4>. QED BY <4>1, <1>7
    <3>. HIDE DEF result, Of, leads
    <3>. QED BY <3>1, <3>2
  <2>. QED BY <2>1
<1>9. InOrder(result)
  <2>. HIDE DEF result, leads, Of
  <2>. QED BY <1>2, <1>5, <1>8 DEF InOrder
<1>. HIDE DEF result, leads, Of
<1>10. \A k \in DOMAIN result : EvidenceOf(records, clusters, result[k])
  BY <1>5, <1>8
<1>. QED BY <1>5, <1>9, <1>10 DEF result

(* What SetToSeq makes of a finite set is a list of its members.              *)
LEMMA SetListed ==
  ASSUME NEW S, IsFiniteSet(S)
  PROVE  IsList(SetToSeq(S)) /\ \A k \in DOMAIN SetToSeq(S) : SetToSeq(S)[k] \in S
<1>1. PICK f : f \in [1 .. Cardinality(S) -> S] /\ IsInjective(f)
  <2>1. PICK n \in Nat : ExistsBijection(1 .. n, S)
    BY FS_NatBijection
  <2>2. Cardinality(S) = n
    BY <2>1, FS_CountingElements
  <2>3. PICK f : f \in Bijection(1 .. n, S)
    BY <2>1 DEF ExistsBijection
  <2>4. f \in [1 .. n -> S] /\ IsInjective(f)
    BY <2>3 DEF Bijection, Injection, IsInjective
  <2>. QED BY <2>2, <2>4
<1>2. SetToSeq(S) \in [1 .. Cardinality(S) -> S]
  BY <1>1 DEF SetToSeq
<1>3. Cardinality(S) \in Nat
  BY FS_CardinalityType
<1>. QED BY <1>2, <1>3, ListOf DEF IsList

-----------------------------------------------------------------------------
(* The documents of a product (FactsPipeline).                                *)

IsPlace(p) == p.stage \in Nat /\ p.rank \in Nat /\ p.at \in Nat

(* Places are well ordered: whatever was found, something was found first.   *)
LEMMA ForemostFound ==
  ASSUME NEW found, found # {}, \A f \in found : IsPlace(f.place)
  PROVE  Foremost(found) \in found
<1>1. PICK f1 \in found : \A g \in found : ~(g.place.stage < f1.place.stage)
  <2>. DEFINE S == {g.place.stage : g \in found}
  <2>1. S # {} /\ S \in SUBSET Nat
    BY DEF IsPlace
  <2>2. PICK m \in S : \A n \in S : ~(n < m)
    BY <2>1, LeastNumber
  <2>. QED BY <2>2
<1>. DEFINE atStage == {g \in found : g.place.stage = f1.place.stage}
<1>2. PICK f2 \in atStage : \A g \in atStage : ~(g.place.rank < f2.place.rank)
  <2>. DEFINE S == {g.place.rank : g \in atStage}
  <2>1. S # {} /\ S \in SUBSET Nat
    BY DEF IsPlace
  <2>2. PICK m \in S : \A n \in S : ~(n < m)
    BY <2>1, LeastNumber
  <2>. QED BY <2>2
<1>. DEFINE atRank == {g \in atStage : g.place.rank = f2.place.rank}
<1>3. PICK f3 \in atRank : \A g \in atRank : ~(g.place.at < f3.place.at)
  <2>. DEFINE S == {g.place.at : g \in atRank}
  <2>1. S # {} /\ S \in SUBSET Nat
    BY DEF IsPlace
  <2>2. PICK m \in S : \A n \in S : ~(n < m)
    BY <2>1, LeastNumber
  <2>. QED BY <2>2
<1>4. \A g \in found : ~Ahead(g.place, f3.place)
  BY <1>1, <1>2, <1>3 DEF Ahead
<1>. QED BY <1>4 DEF Foremost

KeysFound(found) == {Url[f.document.url].key : f \in found}

(* Merging keeps every file once, under one of its spellings.                *)
LEMMA MergedKeys ==
  ASSUME NEW found, \A f \in found : IsPlace(f.place)
  PROVE  Keys(MergeDocuments(found)) = KeysFound(found)
<1>. DEFINE Alike(f) == {g \in found : Url[g.document.url].key = Url[f.document.url].key}
            Exact(alike) == {g \in alike : g.document.match = "exact"}
            Better(alike) == IF Exact(alike) = {} THEN alike ELSE Exact(alike)
            Chosen(f) == Foremost(Better(Alike(f)))
            Pages(f) == UNION {g.document.foundOn : g \in Alike(f)}
<1>1. ASSUME NEW f \in found
      PROVE  Url[FoundOn(Chosen(f).document, Pages(f)).url].key = Url[f.document.url].key
  <2>1. Better(Alike(f)) # {} /\ Better(Alike(f)) \subseteq Alike(f) /\ Alike(f) \subseteq found
    OBVIOUS
  <2>2. Foremost(Better(Alike(f))) \in Better(Alike(f))
    <3>. HIDE DEF Better, Alike
    <3>. QED BY <2>1, ForemostFound
  <2>3. FoundOn(Chosen(f).document, Pages(f)).url = Chosen(f).document.url
    BY DEF FoundOn
  <2>4. Chosen(f) \in {g \in found : Url[g.document.url].key = Url[f.document.url].key}
    BY <2>1, <2>2
  <2>. HIDE DEF Chosen, Pages
  <2>. QED BY <2>3, <2>4
<1>. HIDE DEF Chosen, Pages
<1>2. MergeDocuments(found) = {FoundOn(Chosen(f).document, Pages(f)) : f \in found}
  BY DEF MergeDocuments, Chosen, Pages
<1>. QED BY <1>1, <1>2 DEF Keys, KeysFound

(* Reading a document changes what is said of it, not which one it is.        *)
LEMMA VerifiedKeys ==
  ASSUME NEW found, NEW texts, NEW regional
  PROVE  Keys(VerifyDocumentIdentity(found, texts, regional)) = Keys(found)
<1>. DEFINE Checked(d) == IF d \in ToVerify(found) THEN Judged(d, VerifyIdentity(texts[d.url], regional)) ELSE d
<1>1. \A d \in found : Checked(d).url = d.url
  BY DEF Judged
<1>. HIDE DEF Checked
<1>2. VerifyDocumentIdentity(found, texts, regional) = {Checked(d) : d \in found}
  BY DEF VerifyDocumentIdentity, Checked
<1>. QED BY <1>1, <1>2 DEF Keys

-----------------------------------------------------------------------------
(* An exact PDF was read, and names the product.                              *)

Proven(d) ==
  /\ d.url \in DOMAIN read /\ read[d.url]
  /\ \/ W.pdfs[d.url].identity.sku \in Owned
     \/ W.pdfs[d.url].identity.sku = "base_only" /\ W.regional

ReadInv == \A d \in documents : d.match = "exact" /\ Url[d.url].file = "pdf" => Proven(d)

(* A text is found exact only when it was read and names the product.         *)
LEMMA VerifiedExact ==
  ASSUME NEW text, NEW regional, VerifyIdentity(text, regional).match = "exact"
  PROVE  text.status = "ok" /\ (text.sku \in Owned \/ (text.sku = "base_only" /\ regional))
BY DEF VerifyIdentity, Verdict, Owned

(* Assembling reads every PDF it calls exact.                                 *)
LEMMA ReadAssembled ==
  ASSUME ReadInv, Assemble
  PROVE  ReadInv'
<1>1. CASE UNCHANGED <<read, documents, world>>
  BY <1>1 DEF ReadInv, Proven, W
<1>2. CASE ~UNCHANGED <<read, documents, world>>
  <2>1. PICK found \in {AllDocuments} : \E reading \in [DOMAIN read \cup UnreadIn(found) -> BOOLEAN] :
          read' = reading /\ documents' = VerifyDocumentIdentity(found, TextIn(found, reading), W.regional)
    BY <1>2 DEF Assemble
  <2>2. /\ DOMAIN read' = DOMAIN read \cup UnreadIn(found)
        /\ documents' = VerifyDocumentIdentity(found, TextIn(found, read'), W.regional)
    BY <2>1
  <2>3. world' = world
    BY DEF Assemble
  <2>5. ASSUME NEW d \in found, d \in ToVerify(found),
               Judged(d, VerifyIdentity(TextIn(found, read')[d.url], W.regional)).match = "exact"
        PROVE  /\ d.url \in DOMAIN read' /\ read'[d.url]
               /\ \/ W.pdfs[d.url].identity.sku \in Owned
                  \/ W.pdfs[d.url].identity.sku = "base_only" /\ W.regional
    <3>. DEFINE text == TextIn(found, read')[d.url]
    <3>1. text.status = "ok" /\ (text.sku \in Owned \/ (text.sku = "base_only" /\ W.regional))
      BY <2>5, VerifiedExact DEF Judged
    <3>2. text = IF read'[d.url] THEN W.pdfs[d.url].identity
                 ELSE [status |-> "unreadable", sku |-> "absent", stem |-> FALSE, words |-> "none"]
      BY <2>5 DEF TextIn
    <3>3. read'[d.url]
      BY <3>1, <3>2
    <3>4. d.url \in DOMAIN read'
      BY <2>2, <2>5 DEF UnreadIn
    <3>. QED BY <3>1, <3>2, <3>3, <3>4
  <2>6. ASSUME NEW e \in documents', e.match = "exact", Url[e.url].file = "pdf"
        PROVE  Proven(e)'
    <3>1. PICK d \in found : e = IF d \in ToVerify(found)
                                 THEN Judged(d, VerifyIdentity(TextIn(found, read')[d.url], W.regional)) ELSE d
      BY <2>2, <2>6 DEF VerifyDocumentIdentity
    <3>2. d \in ToVerify(found)
      BY <2>6, <3>1 DEF ToVerify
    <3>3. e.url = d.url
      BY <3>1, <3>2 DEF Judged
    <3>. QED BY <2>3, <2>5, <2>6, <3>1, <3>2, <3>3 DEF Proven, W
  <2>. QED BY <2>6 DEF ReadInv
<1>. QED BY <1>1, <1>2

-----------------------------------------------------------------------------
(* The second pass works on the pages of the first: what the sources alone     *)
(* give is there in both.                                                      *)

SourceKeys == KeysFound(Found(SourcePlaces))

PassInv ==
  /\ world \in Worlds /\ queries \in Nat /\ extras \subseteq Nat
  /\ queries = 0 => extras = {}
  /\ phase = "loading" => firstPass = {}
  /\ Keys(firstPass) \subseteq SourceKeys
  /\ Keys(firstPass) \subseteq Keys(documents)

(* Documents are found at places.                                             *)
LEMMA PlacesTyped ==
  ASSUME PassInv
  PROVE  \A f \in Found(Places) : IsPlace(f.place)
<1>1. \A s : MatchRank(s) \in Nat
  BY DEF MatchRank
<1>2. \A role : Having(role) \subseteq Nat
  BY WorldAssumption DEF PassInv, Having, W, IsList
<1>3. \A p \in Products : IsPlace(p)
  BY <1>1, <1>2 DEF Products, FirstPlaces, Place, IsPlace
<1>4. \A p \in Scans : IsPlace(p)
  BY <1>2 DEF Scans, FirstPlaces, Place, IsPlace
<1>5. \A p \in Places : IsPlace(p)
  BY <1>2, <1>3, <1>4 DEF PassInv, Places, SourcePlaces, Targets, Place, IsPlace
<1>. QED BY <1>5 DEF Found

(* What the sources give is assembled, and without queries nothing else is.    *)
LEMMA AssembledKeys ==
  ASSUME PassInv
  PROVE  /\ SourceKeys \subseteq Keys(AllDocuments)
         /\ queries = 0 => Keys(AllDocuments) = SourceKeys
<1>1. Keys(AllDocuments) = KeysFound(Found(Places))
  BY PlacesTyped, MergedKeys DEF AllDocuments
<1>2. SourcePlaces \subseteq Places /\ (queries = 0 => Places = SourcePlaces)
  BY DEF Places, PassInv
<1>3. Found(SourcePlaces) \subseteq Found(Places)
  BY <1>2 DEF Found
<1>. QED BY <1>1, <1>2, <1>3 DEF SourceKeys, KeysFound

(* They are the same as long as the pages are.                                *)
LEMMA SameSources ==
  ASSUME UNCHANGED <<world, cache>>
  PROVE  SourceKeys' = SourceKeys
<1>1. Having("document")' = Having("document") /\ Having("product")' = Having("product")
      /\ Having("support")' = Having("support") /\ W' = W
  BY DEF Having, W
<1>2. SourcePlaces' = SourcePlaces
  BY <1>1 DEF SourcePlaces, Targets, Products, Scans, W
<1>3. \A p \in SourcePlaces : DocumentsAt(p)' = DocumentsAt(p)
  BY <1>1 DEF DocumentsAt, DocumentFromRecord, LinkedDocuments, W
<1>4. Found(SourcePlaces)' = Found(SourcePlaces)
  BY <1>2, <1>3 DEF Found
<1>. QED BY <1>4 DEF SourceKeys, KeysFound

(* A pass that assembles keeps what the invariant says of the passes.         *)
LEMMA PassAssembled ==
  ASSUME PassInv, Assemble
  PROVE  PassInv'
<1>1. /\ UNCHANGED <<world, cache, extras, queries>> /\ phase' # "loading"
      /\ \/ UNCHANGED <<documents, firstPass>>
         \/ /\ \E texts : documents' = VerifyDocumentIdentity(AllDocuments, texts, W.regional)
            /\ firstPass' = IF queries = 0 THEN documents' ELSE firstPass
  BY DEF Assemble
<1>2. SourceKeys' = SourceKeys
  BY <1>1, SameSources
<1>3. CASE UNCHANGED <<documents, firstPass>>
  BY <1>1, <1>2, <1>3 DEF PassInv, Keys
<1>4. CASE ~UNCHANGED <<documents, firstPass>>
  <2>1. PICK texts : documents' = VerifyDocumentIdentity(AllDocuments, texts, W.regional)
    BY <1>1, <1>4
  <2>2. Keys(documents') = Keys(AllDocuments)
    BY <2>1, VerifiedKeys
  <2>3. firstPass' = IF queries = 0 THEN documents' ELSE firstPass
    BY <1>1, <1>4
  <2>4. Keys(firstPass') \subseteq SourceKeys /\ Keys(firstPass') \subseteq Keys(documents')
    BY <2>2, <2>3, AssembledKeys DEF PassInv
  <2>5. Keys(firstPass)' = Keys(firstPass') /\ Keys(documents)' = Keys(documents')
    BY DEF Keys
  <2>. QED BY <1>1, <1>2, <2>4, <2>5 DEF PassInv
<1>. QED BY <1>3, <1>4

(* So does every step, and it keeps what is said of the texts that were read. *)
LEMMA FactsInductive ==
  ASSUME PassInv, ReadInv, [FactsNext]_factsVars
  PROVE  PassInv' /\ ReadInv'
<1>1. CASE Assemble
  BY <1>1, PassAssembled, ReadAssembled
<1>2. CASE \E u \in DOMAIN Url : Load(u)
  <2>1. /\ phase = "loading"
        /\ UNCHANGED <<world, read, extras, queries, documents, firstPass>>
    BY <1>2 DEF Load
  <2>2. firstPass' = {} /\ Keys(firstPass)' = {}
    BY <2>1 DEF PassInv, Keys
  <2>. QED BY <2>1, <2>2 DEF PassInv, ReadInv, Proven, W, Keys
<1>3. CASE QueryDocuments
  <2>1. /\ UNCHANGED <<world, phase, cache, read, documents, firstPass>>
        /\ queries' = queries + 1 /\ extras' \subseteq extras \cup {queries'}
    BY <1>3 DEF QueryDocuments
  <2>2. SourceKeys' = SourceKeys
    BY <2>1, SameSources
  <2>3. queries' \in Nat /\ queries' # 0 /\ extras' \subseteq Nat
    BY <2>1 DEF PassInv
  <2>4. Keys(firstPass)' = Keys(firstPass) /\ Keys(documents)' = Keys(documents)
    BY <2>1 DEF Keys
  <2>5. PassInv'
    BY <2>1, <2>2, <2>3, <2>4 DEF PassInv
  <2>. QED BY <2>1, <2>5 DEF ReadInv, Proven, W
<1>4. CASE QueriesDone \/ StartExtraction \/ FinishExtraction \/ (\E i \in DOMAIN outcome : Attempt(i)) \/ UNCHANGED factsVars
  <2>1. /\ UNCHANGED <<world, cache, read, extras, queries, documents, firstPass>>
        /\ phase' = "loading" => phase = "loading"
    BY <1>4 DEF QueriesDone, NextPass, StartExtraction, FinishExtraction, Attempt, factsVars
  <2>2. SourceKeys' = SourceKeys
    BY <2>1, SameSources
  <2>. QED BY <2>1, <2>2 DEF PassInv, ReadInv, Proven, W, Keys
<1>. QED BY <1>1, <1>2, <1>3, <1>4 DEF FactsNext

(* So both hold all along.                                                    *)
LEMMA FactsInvariance == FactsSpec => [](PassInv /\ ReadInv)
<1>1. FactsInit => PassInv /\ ReadInv
  BY DEF FactsInit, PassInv, ReadInv, Keys
<1>2. PassInv /\ ReadInv /\ [FactsNext]_factsVars => PassInv' /\ ReadInv'
  BY FactsInductive
<1>. QED BY <1>1, <1>2, PTL DEF FactsSpec

(* A PDF that is called exact was read, and its text names the requested product; *)
(* no link or page makes a manual exact by itself (_verify_document_identity).     *)
THEOREM ExactDocuments == FactsSpec => []ExactDocumentNamesModel
<1>1. ReadInv => ExactDocumentNamesModel
  BY DEF ReadInv, Proven, ExactDocumentNamesModel
<1>. QED BY <1>1, FactsInvariance, PTL

(* The pass after the document queries finds again every document of the first    *)
(* (discover_name).                                                              *)
THEOREM SecondPass == FactsSpec => []SecondPassKeeps
<1>1. PassInv => SecondPassKeeps
  BY DEF PassInv, SecondPassKeeps
<1>. QED BY <1>1, FactsInvariance, PTL

-----------------------------------------------------------------------------
(* The documents are known: finitely many, at addresses of the world. So what is   *)
(* read from them is a list.                                                     *)

(* As many images as arguments.                                              *)
LEMMA ImageFinite ==
  ASSUME NEW f, IsFiniteSet(DOMAIN f)
  PROVE  IsFiniteSet({f[x] : x \in DOMAIN f})
<1>. DEFINE S == DOMAIN f
            T == {f[x] : x \in DOMAIN f}
            g == [x \in S |-> f[x]]
<1>1. g \in Surjection(S, T)
  BY DEF Surjection
<1>. QED BY <1>1, FS_Surjection

Located(S) == \A d \in S : d.url \in DOMAIN Url
KnownDocuments(S) == IsFiniteSet(S) /\ Located(S)

(* A document's locale has a rank.                                            *)
LEMMA RankIsNumber ==
  ASSUME NEW d
  PROVE  LocaleRank(d) \in Nat
<1>. DEFINE tag == CHOOSE t \in d.locales : TRUE
            at == {i \in DOMAIN PreferredLocales : PreferredLocales[i] = tag}
<1>1. Len(PreferredLocales) \in Nat /\ at \subseteq Nat
  BY WorldAssumption DEF IsList
<1>2. LocaleRank(d) = IF at = {} THEN Len(PreferredLocales) + 1 ELSE CHOOSE i \in at : TRUE
  BY DEF LocaleRank
<1>. HIDE DEF at
<1>3. CASE at = {}
  BY <1>1, <1>2, <1>3
<1>4. CASE at # {}
  <2>1. (CHOOSE i \in at : TRUE) \in at
    BY <1>4
  <2>. QED BY <1>1, <1>2, <1>4, <2>1
<1>. QED BY <1>3, <1>4

(* One document for all the locales of it is one of those that were found.     *)
LEMMA CollapsedKnown ==
  ASSUME NEW docs, KnownDocuments(docs)
  PROVE  KnownDocuments(CollapseLocales(docs))
<1>. DEFINE tagged == {d \in docs : d.locales # {}}
            Alike(d) == {e \in tagged : e.type = d.type /\ e.title = d.title}
            First(group) == CHOOSE d \in group : \A e \in group : LocaleRank(d) <= LocaleRank(e)
            One(group) == InLocales(First(group), UNION {e.locales : e \in group})
            one == [d \in tagged |-> One(Alike(d))]
            ones == {one[d] : d \in tagged}
<1>1. CollapseLocales(docs) = (docs \ tagged) \cup ones
  <2>1. CollapseLocales(docs) = (docs \ tagged) \cup {One(group) : group \in {Alike(d) : d \in tagged}}
    BY DEF CollapseLocales
  <2>2. ones = {One(Alike(d)) : d \in tagged}
    <3>. HIDE DEF One, Alike
    <3>. QED OBVIOUS
  <2>3. ones = {One(group) : group \in {Alike(d) : d \in tagged}}
    <3>. HIDE DEF One, Alike, ones
    <3>. QED BY <2>2
  <2>. HIDE DEF ones
  <2>. QED BY <2>1, <2>3
<1>2. IsFiniteSet(tagged) /\ IsFiniteSet(docs \ tagged)
  BY FS_Subset DEF KnownDocuments
<1>3. IsFiniteSet(ones)
  <2>1. DOMAIN one = tagged
    OBVIOUS
  <2>. HIDE DEF one, tagged
  <2>. QED BY <1>2, <2>1, ImageFinite
<1>4. ASSUME NEW d \in tagged PROVE one[d].url \in DOMAIN Url
  <2>. DEFINE group == Alike(d)
              ranks == {LocaleRank(e) : e \in group}
  <2>1. group # {} /\ group \subseteq docs
    OBVIOUS
  <2>2. PICK m \in ranks : \A n \in ranks : ~(n < m)
    <3>. HIDE DEF group
    <3>1. ranks # {} /\ ranks \in SUBSET Nat
      BY <2>1, RankIsNumber
    <3>. HIDE DEF ranks
    <3>. QED BY <3>1, LeastNumber
  <2>3. PICK f \in group : \A e \in group : LocaleRank(f) <= LocaleRank(e)
    <3>. HIDE DEF group
    <3>1. PICK f \in group : m = LocaleRank(f)
      OBVIOUS
    <3>2. \A e \in group : ~(LocaleRank(e) < m)
      BY <2>2
    <3>. QED BY <3>1, <3>2, RankIsNumber
  <2>4. First(group) \in group
    <3>. HIDE DEF group
    <3>. QED BY <2>3
  <2>5. one[d].url = First(group).url
    BY DEF InLocales
  <2>. HIDE DEF First, group, one
  <2>. QED BY <2>1, <2>4, <2>5 DEF KnownDocuments, Located
<1>5. Located(ones)
  <2>. HIDE DEF one
  <2>. QED BY <1>4 DEF Located
<1>6. IsFiniteSet((docs \ tagged) \cup ones)
  <2>. HIDE DEF ones, tagged
  <2>. QED BY <1>2, <1>3, FS_Union
<1>7. Located((docs \ tagged) \cup ones)
  <2>. HIDE DEF ones
  <2>. QED BY <1>5 DEF Located, KnownDocuments
<1>. QED BY <1>1, <1>6, <1>7 DEF KnownDocuments

(* A link that is kept keeps its address.                                     *)
LEMMA KeptUrl ==
  ASSUME NEW link, NEW page, NEW exactPage, NEW probablePage, NEW hosts, NEW title,
         JudgeLink(link, page, exactPage, probablePage, hosts, title).fate = "kept"
  PROVE  JudgeLink(link, page, exactPage, probablePage, hosts, title).document.url = link.url
<1>. DEFINE j == JudgeLink(link, page, exactPage, probablePage, hosts, title)
<1>1. PICK type, text, verdict, locales : j = Kept(Document(link.url, type, text, verdict, page, locales))
  BY DEF JudgeLink, Refused, Ignored
<1>. QED BY <1>1 DEF Kept, Document

(* The documents that a page links to are finitely many, at known addresses.  *)
LEMMA LinksKnown ==
  ASSUME NEW links, IsList(links), \A i \in DOMAIN links : links[i].url \in DOMAIN Url,
         NEW page, NEW exactPage, NEW probablePage, NEW hosts, NEW title
  PROVE  KnownDocuments(ExtractDocuments(links, page, exactPage, probablePage, hosts, title).accepted)
<1>. DEFINE judged == FirstLinks(links, page, exactPage, probablePage, hosts, title)
            Of(i) == JudgeLink(links[i], page, exactPage, probablePage, hosts, title)
            kept == {k \in judged : k.fate = "kept"}
            taken == {j.document : j \in kept}
            one == [i \in DOMAIN links |-> Of(i)]
            doc == [k \in kept |-> k.document]
<1>1. ExtractDocuments(links, page, exactPage, probablePage, hosts, title).accepted = CollapseLocales(taken)
  BY DEF ExtractDocuments
<1>2. judged \subseteq {one[i] : i \in DOMAIN one}
  BY DEF FirstLinks
<1>3. IsFiniteSet(DOMAIN one)
  <2>1. DOMAIN one = 1 .. Len(links) /\ Len(links) \in Nat
    BY DEF IsList
  <2>2. IsFiniteSet(1 .. Len(links))
    BY <2>1, FS_Interval
  <2>. HIDE DEF one
  <2>. QED BY <2>1, <2>2
<1>4. IsFiniteSet(judged)
  <2>. HIDE DEF one, judged
  <2>1. IsFiniteSet({one[i] : i \in DOMAIN one})
    BY <1>3, ImageFinite
  <2>. QED BY <1>2, <2>1, FS_Subset
<1>5. IsFiniteSet(taken)
  <2>. HIDE DEF judged
  <2>1. IsFiniteSet(kept)
    BY <1>4, FS_Subset
  <2>. HIDE DEF kept
  <2>2. DOMAIN doc = kept /\ taken = {doc[k] : k \in DOMAIN doc}
    OBVIOUS
  <2>. HIDE DEF doc, taken
  <2>. QED BY <2>1, <2>2, ImageFinite
<1>6. ASSUME NEW k \in kept PROVE k.document.url \in DOMAIN Url
  <2>1. k \in judged /\ k.fate = "kept"
    OBVIOUS
  <2>2. PICK i \in DOMAIN links : k = Of(i)
    <3>. HIDE DEF judged, Of
    <3>. QED BY <1>2, <2>1
  <2>. QED BY <2>1, <2>2, KeptUrl
<1>7. Located(taken)
  <2>. HIDE DEF kept
  <2>. QED BY <1>6 DEF Located
<1>. HIDE DEF taken
<1>. QED BY <1>1, <1>5, <1>7, CollapsedKnown DEF KnownDocuments

(* The sources and records of a world are at known addresses.                 *)
LEMMA WorldLists ==
  ASSUME world \in Worlds
  PROVE  /\ IsList(W.sources)
         /\ \A i \in DOMAIN W.sources : W.sources[i].url \in DOMAIN Url
         /\ \A i \in DOMAIN W.records : W.records[i].url \in DOMAIN Url
<1>1. \A list \in {World[world].sources, World[world].records} : \A i \in DOMAIN list : list[i].url \in DOMAIN Url
  BY WorldAssumption
<1>2. \A i \in DOMAIN World[world].sources : World[world].sources[i].url \in DOMAIN Url
  BY <1>1
<1>3. \A i \in DOMAIN World[world].records : World[world].records[i].url \in DOMAIN Url
  BY <1>1
<1>4. IsList(World[world].sources)
  BY WorldAssumption
<1>. QED BY <1>2, <1>3, <1>4 DEF W

(* What is not a file is a page, whose links are at known addresses and whose attributes *)
(* are a list.                                                                *)
LEMMA PageLists ==
  ASSUME world \in Worlds, NEW u \in DOMAIN Url, ~IsFile(u)
  PROVE  /\ Url[u].file = "page"
         /\ IsList(W.pages[u].links) /\ \A i \in DOMAIN W.pages[u].links : W.pages[u].links[i].url \in DOMAIN Url
         /\ IsList(ExtractHtmlAttributes(W.pages[u]).attributes)
<1>1. Url[u].file = "page"
  BY WorldAssumption DEF IsFile
<1>. QED BY <1>1, WorldAssumption DEF W

(* Finitely many pages are looked at, each at an address that is known.       *)
LEMMA TargetsKnown ==
  ASSUME PassInv
  PROVE  /\ IsFiniteSet(Targets)
         /\ \A p \in Targets : W.sources[p.at].url \in DOMAIN Url /\ ~IsFile(W.sources[p.at].url)
         /\ \A p \in Targets : p.stage \in {2, 3}
<1>. DEFINE n == DOMAIN W.sources
            all == {Place(2, MatchRank(W.sources[i]), i) : i \in n} \cup {Place(3, 1, i) : i \in n}
                     \cup {Place(3, 2, i) : i \in n}
<1>0. world \in Worlds
  BY DEF PassInv
<1>1. \A role : Having(role) \subseteq n
  BY DEF Having
<1>2. Targets \subseteq all
  BY <1>1 DEF Targets, Products, Scans, FirstPlaces
<1>3. IsFiniteSet(n)
  <2>1. n = 1 .. Len(W.sources) /\ Len(W.sources) \in Nat
    BY <1>0, WorldLists DEF IsList
  <2>2. IsFiniteSet(1 .. Len(W.sources))
    BY <2>1, FS_Interval
  <2>. HIDE DEF n
  <2>. QED BY <2>1, <2>2
<1>4. IsFiniteSet({Place(2, MatchRank(W.sources[i]), i) : i \in n})
  <2>. DEFINE f == [i \in n |-> Place(2, MatchRank(W.sources[i]), i)]
  <2>1. DOMAIN f = n /\ {Place(2, MatchRank(W.sources[i]), i) : i \in n} = {f[i] : i \in DOMAIN f}
    OBVIOUS
  <2>. HIDE DEF f
  <2>. QED BY <1>3, <2>1, ImageFinite
<1>5. ASSUME NEW k PROVE IsFiniteSet({Place(3, k, i) : i \in n})
  <2>. DEFINE f == [i \in n |-> Place(3, k, i)]
  <2>1. DOMAIN f = n /\ {Place(3, k, i) : i \in n} = {f[i] : i \in DOMAIN f}
    OBVIOUS
  <2>. HIDE DEF f
  <2>. QED BY <1>3, <2>1, ImageFinite
<1>6. IsFiniteSet(all)
  <2>1. IsFiniteSet({Place(3, 1, i) : i \in n}) /\ IsFiniteSet({Place(3, 2, i) : i \in n})
    BY <1>5
  <2>2. IsFiniteSet({Place(3, 1, i) : i \in n} \cup {Place(3, 2, i) : i \in n})
    BY <2>1, FS_Union
  <2>3. IsFiniteSet({Place(2, MatchRank(W.sources[i]), i) : i \in n} \cup
                      ({Place(3, 1, i) : i \in n} \cup {Place(3, 2, i) : i \in n}))
    BY <1>4, <2>2, FS_Union
  <2>4. all = {Place(2, MatchRank(W.sources[i]), i) : i \in n} \cup
                ({Place(3, 1, i) : i \in n} \cup {Place(3, 2, i) : i \in n})
    OBVIOUS
  <2>. HIDE DEF all
  <2>. QED BY <2>3, <2>4
<1>7. \A p \in all : p.stage \in {2, 3} /\ p.at \in n
  BY DEF Place
<1>8. IsFiniteSet(Targets)
  <2>. HIDE DEF all
  <2>. QED BY <1>2, <1>6, FS_Subset
<1>9. ASSUME NEW p \in Products PROVE ~IsFile(W.sources[p.at].url)
  <2>1. PICK i \in Having("product") : p = Place(2, MatchRank(W.sources[i]), i)
    BY DEF Products, FirstPlaces
  <2>2. p.at = i /\ PageRole(W.sources[i]) = "product"
    BY <2>1 DEF Place, Having
  <2>. QED BY <2>2 DEF PageRole
<1>10. \A p \in Scans : ~IsFile(W.sources[p.at].url)
  BY DEF Scans, FirstPlaces
<1>11. \A p \in Targets : p.stage \in {2, 3} /\ W.sources[p.at].url \in DOMAIN Url
  <2>. HIDE DEF all
  <2>. QED BY <1>0, <1>2, <1>7, WorldLists
<1>. QED BY <1>8, <1>9, <1>10, <1>11 DEF Targets

QueriedInv == extras \subseteq (1 .. queries) \cap DOMAIN W.records

(* Documents are looked for at finitely many places.                          *)
LEMMA PlacesFinite ==
  ASSUME PassInv, QueriedInv
  PROVE  IsFiniteSet(Places)
<1>. DEFINE S == Having("document")
            f == [i \in S |-> Place(1, 1, i)]
            g == [i \in extras |-> Place(4, 1, i)]
<1>1. Places = ({f[i] : i \in S} \cup Targets) \cup {g[i] : i \in extras}
  BY DEF Places, SourcePlaces
<1>2. IsFiniteSet(S)
  <2>1. S \subseteq DOMAIN W.sources
    BY DEF Having
  <2>2. DOMAIN W.sources = 1 .. Len(W.sources) /\ Len(W.sources) \in Nat
    BY WorldLists DEF PassInv, IsList
  <2>3. IsFiniteSet(1 .. Len(W.sources))
    BY <2>2, FS_Interval
  <2>. HIDE DEF S
  <2>. QED BY <2>1, <2>2, <2>3, FS_Subset
<1>3. IsFiniteSet(extras)
  <2>1. IsFiniteSet(1 .. queries)
    BY FS_Interval DEF PassInv
  <2>. QED BY <2>1, FS_Subset DEF QueriedInv
<1>4. IsFiniteSet({f[i] : i \in S})
  <2>1. DOMAIN f = S
    OBVIOUS
  <2>. HIDE DEF f, S
  <2>. QED BY <1>2, <2>1, ImageFinite
<1>5. IsFiniteSet({g[i] : i \in extras})
  <2>1. DOMAIN g = extras
    OBVIOUS
  <2>. HIDE DEF g
  <2>. QED BY <1>3, <2>1, ImageFinite
<1>. HIDE DEF f, g, S
<1>6. IsFiniteSet({f[i] : i \in S} \cup Targets)
  BY <1>4, TargetsKnown, FS_Union
<1>. QED BY <1>1, <1>5, <1>6, FS_Union

(* A document at a known address is known,                                    *)
LEMMA OneKnown ==
  ASSUME NEW u \in DOMAIN Url, NEW type, NEW title, NEW verdict, NEW page, NEW locales
  PROVE  KnownDocuments({Document(u, type, title, verdict, page, locales)})
<1>. DEFINE d == Document(u, type, title, verdict, page, locales)
<1>1. d.url = u
  BY DEF Document
<1>. HIDE DEF d
<1>2. KnownDocuments({d})
  BY <1>1, FS_Singleton DEF KnownDocuments, Located
<1>. QED BY <1>2 DEF d

(* and so are no documents.                                                   *)
LEMMA NoneKnown == KnownDocuments({})
BY FS_EmptySet DEF KnownDocuments, Located

(* The documents found at one place are known.                                *)
LEMMA PlaceKnown ==
  ASSUME PassInv, QueriedInv, NEW p \in Places
  PROVE  KnownDocuments(DocumentsAt(p))
<1>0. world \in Worlds
  BY DEF PassInv
<1>1. CASE \E i \in Having("document") : p = Place(1, 1, i)
  <2>1. PICK i \in Having("document") : p = Place(1, 1, i)
    BY <1>1
  <2>2. DocumentsAt(p) = DocumentFromCandidate(W.sources[i])
    BY <2>1 DEF Place, DocumentsAt
  <2>3. W.sources[i].url \in DOMAIN Url
    BY <1>0, WorldLists DEF Having
  <2>. DEFINE s == W.sources[i]
  <2>4. DocumentFromCandidate(s) = {} \/
          \E type, verdict : DocumentFromCandidate(s) = {Document(s.url, type, s.title, verdict, s.url, {})}
    <3>. HIDE DEF s
    <3>. QED BY Zenon DEF DocumentFromCandidate
  <2>. QED BY <2>2, <2>3, <2>4, OneKnown, NoneKnown
<1>2. CASE p \in Targets
  <2>. DEFINE s == W.sources[p.at]
  <2>1. s.url \in DOMAIN Url /\ ~IsFile(s.url) /\ p.stage \in {2, 3}
    BY <1>2, TargetsKnown
  <2>2. DocumentsAt(p) = LinkedDocuments(s, p.stage = 2)
    BY <2>1 DEF DocumentsAt
  <2>3. IsList(W.pages[s.url].links) /\ \A i \in DOMAIN W.pages[s.url].links : W.pages[s.url].links[i].url \in DOMAIN Url
    BY <1>0, <2>1, PageLists
  <2>. HIDE DEF s
  <2>4. LinkedDocuments(s, p.stage = 2) = {} \/
          LinkedDocuments(s, p.stage = 2) =
            ExtractDocuments(W.pages[s.url].links, s.url, s.match = "exact" /\ p.stage = 2,
                             s.match \in {"exact", "probable"}, W.hosts, W.pages[s.url].title).accepted
    BY DEF LinkedDocuments
  <2>5. KnownDocuments(ExtractDocuments(W.pages[s.url].links, s.url, s.match = "exact" /\ p.stage = 2,
                             s.match \in {"exact", "probable"}, W.hosts, W.pages[s.url].title).accepted)
    BY <2>3, LinksKnown
  <2>. QED BY <2>2, <2>4, <2>5, NoneKnown
<1>3. CASE \E i \in extras : p = Place(4, 1, i)
  <2>1. PICK i \in extras : p = Place(4, 1, i)
    BY <1>3
  <2>2. DocumentsAt(p) = DocumentFromRecord(W.records[i])
    BY <2>1 DEF Place, DocumentsAt
  <2>3. W.records[i].url \in DOMAIN Url
    BY <1>0, WorldLists DEF QueriedInv
  <2>. DEFINE s == W.records[i]
  <2>4. DocumentFromRecord(s) = {} \/
          \E type, verdict : DocumentFromRecord(s) = {Document(s.url, type, s.text, verdict, s.url, {})}
    <3>. HIDE DEF s
    <3>. QED BY Zenon DEF DocumentFromRecord
  <2>. QED BY <2>2, <2>3, <2>4, OneKnown, NoneKnown
<1>. QED BY <1>1, <1>2, <1>3 DEF Places, SourcePlaces

(* What discovery assembles is finitely many documents at known addresses.     *)
LEMMA AssembledKnown ==
  ASSUME PassInv, QueriedInv
  PROVE  KnownDocuments(AllDocuments)
<1>. DEFINE found == Found(Places)
            Nth(p) == {[place |-> p, document |-> d] : d \in DocumentsAt(p)}
            at == [p \in Places |-> Nth(p)]
<1>1. found = UNION {at[p] : p \in DOMAIN at} /\ DOMAIN at = Places
  BY DEF Found
<1>2. ASSUME NEW p \in Places
      PROVE  IsFiniteSet(at[p]) /\ \A f \in at[p] : f.document.url \in DOMAIN Url
  <2>. DEFINE docs == DocumentsAt(p)
              one == [d \in docs |-> [place |-> p, document |-> d]]
  <2>1. at[p] = {one[d] : d \in DOMAIN one} /\ DOMAIN one = docs
    OBVIOUS
  <2>2. IsFiniteSet(docs) /\ \A d \in docs : d.url \in DOMAIN Url
    BY PlaceKnown DEF KnownDocuments, Located
  <2>3. \A d \in docs : one[d].document.url \in DOMAIN Url
    BY <2>2
  <2>. HIDE DEF one, docs, at
  <2>. QED BY <2>1, <2>2, <2>3, ImageFinite
<1>3. IsFiniteSet(found) /\ \A f \in found : f.document.url \in DOMAIN Url
  <2>. HIDE DEF at, found
  <2>1. IsFiniteSet({at[p] : p \in DOMAIN at})
    BY <1>1, PlacesFinite, ImageFinite
  <2>2. \A T \in {at[p] : p \in DOMAIN at} : IsFiniteSet(T)
    BY <1>1, <1>2
  <2>3. IsFiniteSet(UNION {at[p] : p \in DOMAIN at})
    BY <2>1, <2>2, FS_UNION
  <2>. QED BY <1>1, <1>2, <2>3
<1>4. \A f \in found : IsPlace(f.place)
  BY PlacesTyped
<1>. DEFINE Alike(f) == {g \in found : Url[g.document.url].key = Url[f.document.url].key}
            Exact(alike) == {g \in alike : g.document.match = "exact"}
            Better(alike) == IF Exact(alike) = {} THEN alike ELSE Exact(alike)
            Chosen(f) == Foremost(Better(Alike(f)))
            Pages(f) == UNION {g.document.foundOn : g \in Alike(f)}
            merged == [f \in found |-> FoundOn(Chosen(f).document, Pages(f))]
<1>5. ASSUME NEW f \in found PROVE merged[f].url \in DOMAIN Url
  <2>. HIDE DEF found
  <2>1. Better(Alike(f)) # {} /\ Better(Alike(f)) \subseteq found
    OBVIOUS
  <2>2. Chosen(f) \in found
    <3>. HIDE DEF Better, Alike
    <3>. QED BY <2>1, <1>4, ForemostFound
  <2>3. merged[f].url = Chosen(f).document.url
    <3>. HIDE DEF Chosen, Pages
    <3>. QED BY DEF FoundOn
  <2>. HIDE DEF Chosen, merged
  <2>. QED BY <1>3, <2>2, <2>3
<1>6. AllDocuments = {merged[f] : f \in DOMAIN merged} /\ DOMAIN merged = found
  <2>1. AllDocuments = {FoundOn(Chosen(f).document, Pages(f)) : f \in found}
    BY DEF AllDocuments, MergeDocuments
  <2>. HIDE DEF Chosen, Pages, found
  <2>. QED BY <2>1
<1>. HIDE DEF merged, found
<1>7. IsFiniteSet(AllDocuments)
  BY <1>3, <1>6, ImageFinite
<1>. QED BY <1>5, <1>6, <1>7 DEF KnownDocuments, Located

(* Verifying their identity changes nothing of that.                          *)
LEMMA VerifiedKnown ==
  ASSUME NEW found, KnownDocuments(found), NEW texts, NEW regional
  PROVE  KnownDocuments(VerifyDocumentIdentity(found, texts, regional))
<1>. DEFINE one == [d \in found |-> IF d \in ToVerify(found) THEN Judged(d, VerifyIdentity(texts[d.url], regional)) ELSE d]
<1>1. \A d \in found : one[d].url = d.url
  BY DEF Judged
<1>2. VerifyDocumentIdentity(found, texts, regional) = {one[d] : d \in DOMAIN one} /\ DOMAIN one = found
  BY DEF VerifyDocumentIdentity
<1>. HIDE DEF one
<1>. QED BY <1>1, <1>2, ImageFinite DEF KnownDocuments, Located

(* A finite set has a subset of every smaller size.                           *)
LEMMA SubsetOfSize ==
  ASSUME NEW S, IsFiniteSet(S), NEW k \in 0 .. Cardinality(S)
  PROVE  \E T \in SUBSET S : IsFiniteSet(T) /\ Cardinality(T) = k
<1>0. Cardinality(S) \in Nat /\ k \in Nat
  BY FS_CardinalityType
<1>1. PICK n \in Nat : ExistsBijection(1 .. n, S)
  BY FS_NatBijection
<1>2. Cardinality(S) = n
  BY <1>1, FS_CountingElements
<1>3. PICK f : f \in Bijection(1 .. n, S)
  BY <1>1 DEF ExistsBijection
<1>4. f \in [1 .. n -> S] /\ \A i, j \in 1 .. n : f[i] = f[j] => i = j
  BY <1>3 DEF Bijection, Injection, IsInjective
<1>. DEFINE g == [i \in 1 .. k |-> f[i]]
            T == {f[i] : i \in 1 .. k}
<1>5. 1 .. k \subseteq 1 .. n
  BY <1>0, <1>2
<1>6. T \subseteq S
  BY <1>4, <1>5
<1>7. g \in Bijection(1 .. k, T)
  <2>1. g \in [1 .. k -> T]
    OBVIOUS
  <2>2. \A i, j \in 1 .. k : g[i] = g[j] => i = j
    BY <1>4, <1>5
  <2>3. \A t \in T : \E i \in 1 .. k : g[i] = t
    OBVIOUS
  <2>. HIDE DEF g, T
  <2>. QED BY <2>1, <2>2, <2>3 DEF Bijection, Injection, Surjection, IsInjective
<1>8. IsFiniteSet(1 .. k) /\ Cardinality(1 .. k) = k
  BY <1>0, FS_Interval
<1>9. IsFiniteSet(T) /\ Cardinality(T) = k
  <2>. HIDE DEF g, T
  <2>1. ExistsBijection(1 .. k, T)
    BY <1>7 DEF ExistsBijection
  <2>. QED BY <1>8, <2>1, FS_Bijection
<1>. HIDE DEF T
<1>. QED BY <1>6, <1>9

(* At most so many documents are picked, the exact ones first.                *)
LEMMA PickedKnown ==
  ASSUME KnownDocuments(documents)
  PROVE  KnownDocuments(PickedDocuments) /\ PickedDocuments \subseteq documents
<1>. DEFINE usable == {d \in documents : d.match \in Usable}
            exact == {d \in usable : d.match = "exact"}
            Best(S) == /\ Cardinality(S) = MaxSources
                       /\ \A d \in S, e \in usable \ S : e.match = "exact" => d.match = "exact"
<1>1. IsFiniteSet(usable) /\ IsFiniteSet(exact) /\ usable \subseteq documents /\ exact \subseteq usable
  <2>1. IsFiniteSet(usable) /\ usable \subseteq documents
    BY FS_Subset DEF KnownDocuments
  <2>. HIDE DEF usable
  <2>. QED BY <2>1, FS_Subset
<1>2. PickedDocuments = IF Cardinality(usable) <= MaxSources THEN usable ELSE CHOOSE S \in SUBSET usable : Best(S)
  BY DEF PickedDocuments
<1>3. MaxSources \in Nat /\ Cardinality(usable) \in Nat /\ Cardinality(exact) \in Nat
  <2>. HIDE DEF usable, exact
  <2>. QED BY <1>1, WorldAssumption, FS_CardinalityType
<1>4. ASSUME ~(Cardinality(usable) <= MaxSources)
      PROVE  \E S \in SUBSET usable : Best(S)
  <2>1. CASE MaxSources <= Cardinality(exact)
    <3>1. PICK S \in SUBSET exact : Cardinality(S) = MaxSources
      <4>. HIDE DEF exact
      <4>. QED BY <1>1, <1>3, <2>1, SubsetOfSize
    <3>2. \A d \in S : d.match = "exact"
      OBVIOUS
    <3>3. S \in SUBSET usable
      OBVIOUS
    <3>. HIDE DEF usable
    <3>. QED BY <3>1, <3>2, <3>3
  <2>2. CASE ~(MaxSources <= Cardinality(exact))
    <3>. DEFINE rest == usable \ exact
    <3>1. IsFiniteSet(rest) /\ Cardinality(rest) = Cardinality(usable) - Cardinality(exact)
      <4>. HIDE DEF usable, exact
      <4>1. IsFiniteSet(rest) /\ Cardinality(rest) = Cardinality(usable) - Cardinality(usable \cap exact)
        BY <1>1, FS_Difference
      <4>2. usable \cap exact = exact
        BY <1>1
      <4>. QED BY <4>1, <4>2
    <3>2. PICK R \in SUBSET rest : IsFiniteSet(R) /\ Cardinality(R) = MaxSources - Cardinality(exact)
      <4>. HIDE DEF rest
      <4>1. MaxSources - Cardinality(exact) \in 0 .. Cardinality(rest)
        <5>. HIDE DEF usable, exact
        <5>. QED BY <1>3, <1>4, <2>2, <3>1
      <4>. HIDE DEF usable, exact
      <4>. QED BY <3>1, <4>1, SubsetOfSize
    <3>3. Cardinality(exact \cup R) = MaxSources
      <4>. HIDE DEF usable, exact
      <4>1. exact \cap R = {}
        OBVIOUS
      <4>2. Cardinality(exact \cup R) = Cardinality(exact) + Cardinality(R) - Cardinality(exact \cap R)
        BY <1>1, <3>2, FS_Union
      <4>3. Cardinality(exact \cap R) = 0
        BY <4>1, FS_EmptySet
      <4>. QED BY <1>3, <3>2, <4>2, <4>3
    <3>4. \A e \in usable \ (exact \cup R) : e.match # "exact"
      OBVIOUS
    <3>5. exact \cup R \in SUBSET usable
      OBVIOUS
    <3>. HIDE DEF usable, exact
    <3>. QED BY <3>3, <3>4, <3>5
  <2>. QED BY <2>1, <2>2
<1>5. PickedDocuments \subseteq usable
  <2>. HIDE DEF usable, Best
  <2>. QED BY <1>2, <1>4
<1>6. IsFiniteSet(PickedDocuments)
  <2>. HIDE DEF usable
  <2>. QED BY <1>1, <1>5, FS_Subset
<1>. QED BY <1>1, <1>5, <1>6 DEF KnownDocuments, Located

(* The documents that are picked for a role are a list, at known addresses.   *)
LEMMA PickedListed ==
  ASSUME world \in Worlds, NEW role
  PROVE  /\ IsList(Picked(role))
         /\ \A k \in DOMAIN Picked(role) : Picked(role)[k].url \in DOMAIN Url
<1>. DEFINE n == Len(W.sources)
            With(match) == Numbers({i \in Having(role) : W.sources[i].match = match}, n)
            order == With("exact") \o With("probable")
            top == IF Len(order) > MaxSources THEN MaxSources ELSE Len(order)
<1>1. n \in Nat /\ DOMAIN W.sources = 1 .. n
  BY WorldLists DEF IsList
<1>2. ASSUME NEW match
      PROVE  With(match) \in Seq(1 .. n)
  <2>. DEFINE S == {i \in Having(role) : W.sources[i].match = match}
              t == Numbers(S, n)
  <2>1. Counts(S, n, t)
    <3>. HIDE DEF S, n
    <3>. QED BY <1>1, NumbersCount
  <2>. HIDE DEF t, S, n
  <2>2. t \in Seq(Nat) /\ \A i \in 1 .. Len(t) : t[i] \in 1 .. n
    BY <2>1 DEF Counts
  <2>3. t \in [1 .. Len(t) -> 1 .. n] /\ Len(t) \in Nat
    BY <2>2
  <2>4. t \in Seq(1 .. n)
    BY <2>3, ListOf
  <2>. QED BY <2>4 DEF t, S
<1>3. order \in Seq(1 .. n)
  <2>1. With("exact") \in Seq(1 .. n) /\ With("probable") \in Seq(1 .. n)
    BY <1>2
  <2>. HIDE DEF With, n
  <2>. QED BY <2>1
<1>4. Picked(role) = [k \in 1 .. top |-> W.sources[order[k]]]
  BY DEF Picked
<1>5. Len(order) \in Nat /\ top \in Nat /\ top <= Len(order)
  <2>. HIDE DEF order, n
  <2>. QED BY <1>3, WorldAssumption
<1>6. \A k \in 1 .. top : order[k] \in DOMAIN W.sources
  <2>. HIDE DEF order, n, top
  <2>. QED BY <1>1, <1>3, <1>5
<1>. HIDE DEF order, top
<1>7. DOMAIN Picked(role) = 1 .. top /\ Picked(role) = [k \in 1 .. top |-> Picked(role)[k]]
  BY <1>4
<1>8. IsList(Picked(role))
  BY <1>5, <1>7, FunctionListed
<1>9. \A k \in 1 .. top : Picked(role)[k].url \in DOMAIN Url
  BY <1>4, <1>6, WorldLists
<1>. QED BY <1>7, <1>8, <1>9

(* What is extracted is a list of sources at known addresses.                *)
LEMMA SourcesListed ==
  ASSUME world \in Worlds, KnownDocuments(documents)
  PROVE  IsList(Sources) /\ \A i \in DOMAIN Sources : Sources[i].url \in DOMAIN Url
<1>. DEFINE kinds == {"official_product_page", "official_support_page", "official_document"}
            U == [url : DOMAIN Url, kind : kinds, type : {NoType} \cup {d.type : d \in documents}]
            Of(seq, kind) == [i \in DOMAIN seq |-> [url |-> seq[i].url, kind |-> kind, type |-> NoType]]
            docs == SetToSeq(PickedDocuments)
            listed == [i \in DOMAIN docs |-> [url |-> docs[i].url, kind |-> "official_document", type |-> docs[i].type]]
<1>1. ASSUME NEW role, NEW kind \in kinds
      PROVE  Of(Picked(role), kind) \in Seq(U)
  <2>. DEFINE picked == Picked(role)
              s == Of(picked, kind)
  <2>1. Len(picked) \in Nat /\ DOMAIN picked = 1 .. Len(picked) /\ \A k \in DOMAIN picked : picked[k].url \in DOMAIN Url
    BY PickedListed DEF IsList
  <2>. HIDE DEF picked
  <2>2. s \in [1 .. Len(picked) -> U]
    BY <2>1
  <2>3. s \in Seq(U)
    <3>. HIDE DEF s, U
    <3>. QED BY <2>1, <2>2, ListOf
  <2>. QED BY <2>3 DEF picked
<1>2. listed \in Seq(U)
  <2>1. IsFiniteSet(PickedDocuments) /\ \A d \in PickedDocuments : d.url \in DOMAIN Url
    BY PickedKnown DEF KnownDocuments, Located
  <2>2. IsList(docs) /\ \A k \in DOMAIN docs : docs[k] \in PickedDocuments
    BY <2>1, SetListed
  <2>3. PickedDocuments \subseteq documents
    BY PickedKnown
  <2>. HIDE DEF docs
  <2>4. Len(docs) \in Nat /\ DOMAIN docs = 1 .. Len(docs)
    BY <2>2 DEF IsList
  <2>5. \A k \in DOMAIN docs : docs[k].url \in DOMAIN Url /\ docs[k] \in documents
    BY <2>1, <2>2, <2>3
  <2>6. listed \in [1 .. Len(docs) -> U]
    BY <2>4, <2>5
  <2>. HIDE DEF listed, U
  <2>. QED BY <2>4, <2>6, ListOf
<1>3. Sources = Of(Picked("product"), "official_product_page") \o Of(Picked("support"), "official_support_page") \o listed
  BY DEF Sources
<1>4. Sources \in Seq(U)
  <2>1. /\ Of(Picked("product"), "official_product_page") \in Seq(U)
        /\ Of(Picked("support"), "official_support_page") \in Seq(U)
    BY <1>1
  <2>. HIDE DEF Of, listed, U
  <2>. QED BY <1>2, <1>3, <2>1
<1>5. \A u \in U : u.url \in DOMAIN Url
  OBVIOUS
<1>. HIDE DEF U
<1>. QED BY <1>4, <1>5 DEF IsList

OutcomeKnown(i) == Url[Sources[i].url].file = "doc" => outcome[i] = "unsupported"

ExtractInv ==
  /\ QueriedInv /\ KnownDocuments(documents)
  /\ phase = "extracting" => DOMAIN outcome = DOMAIN Sources /\ \A i \in DOMAIN outcome : OutcomeKnown(i)

FactsInv ==
  facts # NoFacts =>
    /\ IsList(facts.raws) /\ facts.attributes = NormalizeAttributes(facts.raws)
    /\ facts.mapping = MapResult(facts.attributes, W.category)

(* What one source gives is a list.                                           *)
LEMMA ExtractedListed ==
  ASSUME PassInv, ExtractInv, phase = "extracting", NEW i \in DOMAIN Sources
  PROVE  IsList(Extracted(Sources)[i])
<1>. DEFINE s == Sources[i]
<1>0. world \in Worlds
  BY DEF PassInv
<1>1. s.url \in DOMAIN Url /\ OutcomeKnown(i)
  BY <1>0, SourcesListed DEF ExtractInv
<1>2. Extracted(Sources)[i] = IF outcome[i] = "page" THEN ExtractedFrom(s).attributes ELSE << >>
  BY DEF Extracted
<1>3. CASE outcome[i] # "page"
  <2>1. IsList(<< >>)
    BY DEF IsList
  <2>. HIDE DEF s
  <2>. QED BY <1>2, <1>3, <2>1
<1>4. CASE outcome[i] = "page"
  <2>1. Url[s.url].file # "doc"
    BY <1>1, <1>4 DEF OutcomeKnown
  <2>2. CASE Url[s.url].file = "pdf"
    <3>. DEFINE techOnly == s.type \in ProseTypes
    <3>1. techOnly \in BOOLEAN
      OBVIOUS
    <3>2. ExtractedFrom(s) = ExtractDocumentAttributes(World[world].pdfs[s.url].pages, techOnly)
      <4>. HIDE DEF s
      <4>. QED BY <2>2 DEF ExtractedFrom, W
    <3>. HIDE DEF techOnly, s
    <3>3. IsList(ExtractDocumentAttributes(World[world].pdfs[s.url].pages, techOnly).attributes)
      BY <1>0, <1>1, <2>2, <3>1, WorldAssumption
    <3>. QED BY <1>2, <1>4, <3>2, <3>3
  <2>3. CASE Url[s.url].file # "pdf"
    <3>. HIDE DEF s
    <3>1. ~IsFile(s.url)
      BY <2>1, <2>3 DEF IsFile, FileSuffix
    <3>2. ExtractedFrom(s) = ExtractHtmlAttributes(W.pages[s.url])
      BY <2>3 DEF ExtractedFrom
    <3>. QED BY <1>0, <1>1, <1>2, <1>4, <3>1, <3>2, PageLists
  <2>. QED BY <2>2, <2>3
<1>. QED BY <1>3, <1>4

(* What the sources give, one after another, is a list.                      *)
LEMMA RawsListed ==
  ASSUME NEW sources, IsList(sources), NEW extracted, \A i \in DOMAIN sources : IsList(extracted[i])
  PROVE  IsList(RawAttributes(sources, extracted))
<1>. DEFINE Said(a, s) == [label |-> a.label, value |-> a.value, method |-> a.method, section |-> a.section,
                           url |-> s.url, sourceType |-> s.kind]
            part == [i \in DOMAIN sources |-> [k \in DOMAIN extracted[i] |-> Said(extracted[i][k], sources[i])]]
            X == UNION {{part[i][k] : k \in DOMAIN part[i]} : i \in DOMAIN sources}
            raws == RawAttributes(sources, extracted)
<1>1. raws = Concat(part)
  BY DEF RawAttributes
<1>2. Len(sources) \in Nat /\ DOMAIN sources = 1 .. Len(sources)
  BY DEF IsList
<1>3. DOMAIN part = 1 .. Len(sources) /\ part = [i \in 1 .. Len(sources) |-> part[i]]
  <2>. HIDE DEF Said
  <2>. QED BY <1>2
<1>4. IsList(part) /\ Len(part) = Len(sources)
  <2>. HIDE DEF part
  <2>. QED BY <1>2, <1>3, FunctionListed
<1>5. ASSUME NEW i \in DOMAIN sources PROVE part[i] \in Seq(X)
  <2>. DEFINE e == extracted[i]
              p == part[i]
  <2>1. Len(e) \in Nat /\ DOMAIN e = 1 .. Len(e)
    BY DEF IsList
  <2>2. DOMAIN p = DOMAIN e /\ p = [k \in DOMAIN e |-> p[k]]
    <3>. HIDE DEF Said
    <3>. QED OBVIOUS
  <2>3. \A k \in DOMAIN p : p[k] \in X
    <3>. HIDE DEF part
    <3>. QED OBVIOUS
  <2>. HIDE DEF p, e, X
  <2>4. p \in [1 .. Len(e) -> X]
    BY <2>1, <2>2, <2>3
  <2>5. p \in Seq(X)
    BY <2>1, <2>4, ListOf
  <2>. QED BY <2>5 DEF p
<1>. HIDE DEF part, X, raws
<1>6. \A n \in 1 .. Len(part) : part[n] \in Seq(X)
  BY <1>2, <1>4, <1>5
<1>7. Concat(part) \in Seq(X)
  BY <1>4, <1>6, ConcatJoins DEF Joins, IsList
<1>. QED BY <1>1, <1>7 DEF IsList, raws

(* What the extraction ends with is made of the raw pairs of all its sources. *)
LEMMA FinishedFacts ==
  ASSUME PassInv, ExtractInv, FactsInv, FinishExtraction
  PROVE  FactsInv'
<1>1. UNCHANGED world /\ phase = "extracting"
  BY DEF FinishExtraction
<1>2. CASE facts' = facts
  BY <1>1, <1>2 DEF FactsInv, W
<1>3. CASE facts' # facts
  <2>1. PICK raws, attributes : /\ raws = RawAttributes(Sources, Extracted(Sources))
                                /\ attributes = NormalizeAttributes(raws)
                                /\ facts'.raws = raws /\ facts'.attributes = attributes
                                /\ facts'.mapping = MapResult(attributes, W.category)
    BY <1>3 DEF FinishExtraction
  <2>2. IsList(Sources)
    BY SourcesListed DEF PassInv, ExtractInv
  <2>3. IsList(raws)
    BY <1>1, <2>1, <2>2, ExtractedListed, RawsListed
  <2>. QED BY <1>1, <2>1, <2>3 DEF FactsInv, W
<1>. QED BY <1>2, <1>3

(* The sources of the extraction are settled when it starts.                  *)
LEMMA SameSourceList ==
  ASSUME UNCHANGED <<world, documents>>
  PROVE  Sources' = Sources
<1>1. W' = W /\ PickedDocuments' = PickedDocuments /\ \A role : Having(role)' = Having(role)
  BY DEF W, PickedDocuments, Having
<1>2. \A role : Picked(role)' = Picked(role)
  BY <1>1 DEF Picked
<1>. QED BY <1>1, <1>2 DEF Sources

(* Every step keeps the documents known, and the attempts those of a list of sources, *)
LEMMA ExtractStep ==
  ASSUME PassInv, ExtractInv, [FactsNext]_factsVars
  PROVE  ExtractInv'
<1>1. CASE Assemble
  <2>1. /\ UNCHANGED <<world, extras, queries>> /\ phase' # "extracting"
        /\ \/ UNCHANGED documents
           \/ \E texts : documents' = VerifyDocumentIdentity(AllDocuments, texts, W.regional)
    BY <1>1 DEF Assemble
  <2>2. KnownDocuments(documents')
    BY <2>1, AssembledKnown, VerifiedKnown DEF ExtractInv
  <2>3. KnownDocuments(documents)'
    BY <2>2 DEF KnownDocuments, Located
  <2>. QED BY <2>1, <2>3 DEF ExtractInv, QueriedInv, W
<1>2. CASE QueryDocuments
  <2>1. /\ UNCHANGED <<world, phase, documents>> /\ phase = "querying"
        /\ queries' = queries + 1 /\ extras' \subseteq extras \cup ({queries'} \cap DOMAIN W.records)
    BY <1>2 DEF QueryDocuments
  <2>2. 1 .. queries \subseteq 1 .. queries' /\ queries' \in 1 .. queries'
    BY <2>1 DEF PassInv
  <2>3. QueriedInv'
    BY <2>1, <2>2 DEF ExtractInv, QueriedInv, W
  <2>. QED BY <2>1, <2>3 DEF ExtractInv, KnownDocuments, Located
<1>3. CASE (\E u \in DOMAIN Url : Load(u)) \/ QueriesDone
  <2>1. UNCHANGED <<world, extras, queries, documents>> /\ phase' # "extracting"
    BY <1>3 DEF Load, QueriesDone, NextPass
  <2>. QED BY <2>1 DEF ExtractInv, QueriedInv, KnownDocuments, Located, W
<1>4. CASE StartExtraction
  <2>1. /\ UNCHANGED <<world, extras, queries, documents>>
        /\ outcome' = [i \in DOMAIN Sources |-> IF Url[Sources[i].url].file = "doc" THEN "unsupported" ELSE "waiting"]
    BY <1>4 DEF StartExtraction
  <2>2. Sources' = Sources
    BY <2>1, SameSourceList
  <2>3. QueriedInv' /\ KnownDocuments(documents)'
    BY <2>1 DEF ExtractInv, QueriedInv, KnownDocuments, Located, W
  <2>4. DOMAIN outcome' = DOMAIN Sources' /\ \A i \in DOMAIN outcome' : OutcomeKnown(i)'
    BY <2>1, <2>2 DEF OutcomeKnown
  <2>. QED BY <2>3, <2>4 DEF ExtractInv
<1>5. CASE \E i \in DOMAIN outcome : Attempt(i)
  <2>1. PICK i \in DOMAIN outcome : Attempt(i)
    BY <1>5
  <2>2. /\ UNCHANGED <<world, phase, extras, queries, documents>> /\ phase = "extracting" /\ outcome[i] = "waiting"
        /\ DOMAIN outcome' = DOMAIN outcome /\ \A j \in DOMAIN outcome \ {i} : outcome'[j] = outcome[j]
    BY <2>1 DEF Attempt
  <2>3. Sources' = Sources
    BY <2>2, SameSourceList
  <2>4. QueriedInv' /\ KnownDocuments(documents)'
    BY <2>2 DEF ExtractInv, QueriedInv, KnownDocuments, Located, W
  <2>5. DOMAIN outcome' = DOMAIN Sources' /\ \A j \in DOMAIN outcome' : OutcomeKnown(j)'
    BY <2>2, <2>3 DEF ExtractInv, OutcomeKnown
  <2>. QED BY <2>4, <2>5 DEF ExtractInv
<1>6. CASE FinishExtraction \/ UNCHANGED factsVars
  <2>1. /\ UNCHANGED <<world, extras, queries, documents, outcome>> /\ (phase' = "extracting" => phase = "extracting")
    BY <1>6 DEF FinishExtraction, factsVars
  <2>2. Sources' = Sources
    BY <2>1, SameSourceList
  <2>3. QueriedInv' /\ KnownDocuments(documents)'
    BY <2>1 DEF ExtractInv, QueriedInv, KnownDocuments, Located, W
  <2>. QED BY <2>1, <2>2, <2>3 DEF ExtractInv, OutcomeKnown
<1>. QED BY <1>1, <1>2, <1>3, <1>4, <1>5, <1>6 DEF FactsNext

(* and the facts those of the raw pairs.                                      *)
LEMMA FactsStep ==
  ASSUME PassInv, ExtractInv, FactsInv, [FactsNext]_factsVars
  PROVE  FactsInv'
<1>1. CASE FinishExtraction
  BY <1>1, FinishedFacts
<1>2. CASE ~FinishExtraction
  <2>1. UNCHANGED <<world, facts>>
    BY <1>2 DEF FactsNext, factsVars, Load, Assemble, QueryDocuments, QueriesDone, StartExtraction, Attempt
  <2>. QED BY <2>1 DEF FactsInv, W
<1>. QED BY <1>1, <1>2

(* So the facts, once there, are always made of a list of raw pairs.          *)
LEMMA ExtractionInvariance == FactsSpec => []FactsInv
<1>1. FactsInit => ExtractInv /\ FactsInv
  BY FS_EmptySet DEF FactsInit, ExtractInv, FactsInv, QueriedInv, KnownDocuments, Located
<1>2. PassInv /\ ExtractInv /\ FactsInv /\ [FactsNext]_factsVars => ExtractInv' /\ FactsInv'
  BY ExtractStep, FactsStep
<1>. QED BY <1>1, <1>2, FactsInvariance, PTL DEF FactsSpec

(* Through any chain of merges, the raw pairs behind one attribute say the same    *)
(* value of the same variant (normalize_attributes).                             *)
THEOREM ClustersAgree == FactsSpec => []ClusterAgrees
<1>1. FactsInv => ClusterAgrees
  <2>. SUFFICES ASSUME FactsInv PROVE ClusterAgrees
    OBVIOUS
  <2>. DEFINE records == Records(facts.raws)
  <2>1. CASE facts = NoFacts
    <3>1. DOMAIN facts.attributes = {}
      BY <2>1 DEF NoFacts
    <3>. QED BY <3>1 DEF ClusterAgrees
  <2>2. CASE facts # NoFacts
    <3>1. IsList(facts.raws) /\ facts.attributes = AttributesOf(records, Clusters(records))
      BY <2>2 DEF FactsInv, NormalizeAttributes
    <3>2. IsList(records)
      BY <3>1, RecordsListed
    <3>. HIDE DEF records
    <3>3. Agreeing(records, Len(records), Clusters(records))
      BY <3>2, ClustersAgreeing
    <3>4. ASSUME NEW a \in DOMAIN facts.attributes
          PROVE  \A i, j \in DOMAIN facts.attributes[a].evidence :
                   Agree(records, facts.attributes[a].evidence[i], facts.attributes[a].evidence[j])
      <4>. DEFINE e == facts.attributes[a].evidence
      <4>1. EvidenceOf(records, Clusters(records), facts.attributes[a])
        BY <3>1, <3>2, <3>3, AttributesEvidence
      <4>2. PICK c \in Clusters(records) : \A i \in DOMAIN e : e[i] \in c
        BY <4>1 DEF EvidenceOf, IsList
      <4>3. \A x, y \in c : Agree(records, x, y)
        BY <3>3 DEF Agreeing
      <4>. HIDE DEF e
      <4>4. \A i, j \in DOMAIN e : Agree(records, e[i], e[j])
        BY <4>2, <4>3
      <4>. QED BY <4>4 DEF e
    <3>. QED BY <3>4 DEF ClusterAgrees, Agree, records
  <2>. QED BY <2>1, <2>2
<1>. QED BY <1>1, ExtractionInvariance, PTL

-----------------------------------------------------------------------------
(* The rows of a mapped attribute (CanonicalMapping)                           *)

(* A reading of a value: how sure it can be at most, and what it costs.        *)
IsEval(e) ==
  /\ DOMAIN e = {"ok", "reject", "cap", "penalty", "figures", "unit"}
  /\ e.cap \in 0 .. Uncapped /\ e.penalty \in 0 .. 160

(* Each way to read a value gives a reading.                                  *)
LEMMA FitIsEval ==
  /\ IsEval(Unfit) /\ IsEval(Rejected)
  /\ \A figures, unit : IsEval(Fit(figures, unit))
BY DEF IsEval, Unfit, Rejected, Fit, ShapeCap, Uncapped

(* A measure with the units of its family,                                    *)
LEMMA InFamilyIsEval ==
  ASSUME NEW c, NEW figures, NEW unit, NEW alt
  PROVE  IsEval(InFamily(c, figures, unit, alt))
<1>1. \A f : IsEval([Fit(f, "implied") EXCEPT !.cap = ImpliedCap])
  BY DEF IsEval, Fit, Uncapped, ImpliedCap
<1>2. \/ InFamily(c, figures, unit, alt) = Unfit
      \/ InFamily(c, figures, unit, alt) = Rejected
      \/ \E f : InFamily(c, figures, unit, alt) = [Fit(f, "implied") EXCEPT !.cap = ImpliedCap]
      \/ \E f, s : InFamily(c, figures, unit, alt) = Fit(f, s)
  BY DEF InFamily
<1>. QED BY <1>1, <1>2, FitIsEval

(* a measure of any unit,                                                     *)
LEMMA MeasureIsEval ==
  ASSUME NEW c, NEW info
  PROVE  IsEval(EvalMeasure(c, info))
<1>1. ASSUME NEW m, m.penalty \in 0 .. 160
      PROVE  IsEval(MeasureAs(c, info, m))
  <2>. DEFINE e == IF c.family # NoUnit THEN InFamily(c, m.figures, m.unit, info.alt)
                   ELSE Fit(m.figures, IF c.unit = NoUnit THEN "none" ELSE "explicit")
  <2>1. IsEval(e)
    BY FitIsEval, InFamilyIsEval
  <2>2. MeasureAs(c, info, m) = Unfit \/ MeasureAs(c, info, m) = [e EXCEPT !.penalty = m.penalty]
    BY DEF MeasureAs
  <2>. HIDE DEF e
  <2>3. IsEval([e EXCEPT !.penalty = m.penalty])
    BY <1>1, <2>1 DEF IsEval
  <2>. QED BY <2>2, <2>3, FitIsEval
<1>2. TextMeasurement(c, info).penalty \in 0 .. 160
  BY DEF TextMeasurement
<1>3. CASE info.kind = "text"
  BY <1>1, <1>2, <1>3 DEF EvalMeasure
<1>4. CASE info.kind # "text"
  BY <1>1, <1>4 DEF EvalMeasure
<1>. QED BY <1>3, <1>4

(* a value of any kind,                                                       *)
LEMMA EvaluateIsEval ==
  ASSUME NEW c, NEW info, c.vtype \in {"boolean", "text", "count", "dimensions", "measure"}
  PROVE  IsEval(Evaluate(c, info))
<1>1. \A figures, unit : IsEval([Fit(figures, unit) EXCEPT !.penalty = 50])
  BY DEF IsEval, Fit, Uncapped
<1>2. IsEval(EvalCount(c, info))
  BY <1>1, FitIsEval DEF EvalCount
<1>3. IsEval(EvalType(c, info))
  BY <1>1, <1>2, FitIsEval, MeasureIsEval, InFamilyIsEval DEF EvalType
<1>. QED BY <1>3, FitIsEval DEF Evaluate

(* and what the validation leaves of it.                                      *)
LEMMA TestedIsEval ==
  ASSUME NEW c, NEW e, IsEval(e)
  PROVE  IsEval(Tested(c, e))
<1>1. Tested(c, e) = e \/ Tested(c, e) = [e EXCEPT !.ok = FALSE, !.cap = ShapeCap]
  BY DEF Tested
<1>2. IsEval([e EXCEPT !.ok = FALSE, !.cap = ShapeCap])
  BY DEF IsEval, ShapeCap, Uncapped
<1>. QED BY <1>1, <1>2

-----------------------------------------------------------------------------

(* Whatever has an upper bound has a largest member.                          *)
LEMMA LargestNumber ==
  ASSUME NEW S \in SUBSET Int, S # {}, NEW top \in Int, \A n \in S : n <= top
  PROVE  \E m \in S : \A n \in S : n <= m
<1>. DEFINE short == {k \in Nat : top - k \in S}
<1>1. PICK n0 \in S : TRUE
  OBVIOUS
<1>2. short # {} /\ short \in SUBSET Nat
  <2>1. top - n0 \in Nat /\ top - (top - n0) = n0
    OBVIOUS
  <2>2. top - n0 \in short
    BY <2>1
  <2>. QED BY <2>2
<1>3. PICK k \in short : \A n \in short : ~(n < k)
  <2>. HIDE DEF short
  <2>. QED BY <1>2, LeastNumber
<1>4. ASSUME NEW n \in S PROVE n <= top - k
  <2>1. top - n \in Nat /\ top - (top - n) = n
    OBVIOUS
  <2>2. top - n \in short
    BY <2>1
  <2>3. ~(top - n < k)
    <3>. HIDE DEF short
    <3>. QED BY <1>3, <2>2
  <2>. QED BY <1>3, <2>1, <2>3
<1>. QED BY <1>3, <1>4

(* A label scores 900 at most,                                                *)
LEMMA HitScore ==
  ASSUME NEW c, NEW label, NEW path
  PROVE  LabelHit(c, label, path).score \in 0 .. 900
BY DEF LabelHit, NoHit, Via

HitsOf(c, a, labels) == {LabelHit(c, l, a.label.path) : l \in labels}
BestOf(c, a, labels) == CHOOSE h \in HitsOf(c, a, labels) : \A g \in HitsOf(c, a, labels) : g.score <= h.score

(* and so does the best of an attribute's labels.                             *)
LEMMA BestHit ==
  ASSUME NEW c, NEW a, NEW labels, labels # {}
  PROVE  BestOf(c, a, labels).score \in 0 .. 900
<1>. DEFINE hits == HitsOf(c, a, labels)
            scores == {h.score : h \in hits}
<1>1. hits # {} /\ \A h \in hits : h.score \in 0 .. 900
  BY HitScore DEF HitsOf
<1>. HIDE DEF hits
<1>2. PICK m \in scores : \A n \in scores : n <= m
  <2>1. scores \in SUBSET Int /\ \A n \in scores : n <= 900
    BY <1>1
  <2>2. PICK h \in hits : h.score \in scores
    BY <1>1
  <2>. HIDE DEF scores
  <2>3. scores # {} /\ 900 \in Int
    BY <2>2
  <2>4. \E m \in scores : \A n \in scores : n <= m
    BY <2>1, <2>3, LargestNumber
  <2>. QED BY <2>4
<1>3. PICK h \in hits : \A g \in hits : g.score <= h.score
  BY <1>2
<1>4. (CHOOSE k \in hits : \A g \in hits : g.score <= k.score) \in hits
  BY <1>3
<1>. QED BY <1>1, <1>4 DEF BestOf, hits

(* So the confidence of a reading has an upper bound, whatever its attribute. *)
LEMMA ConfidenceBound ==
  ASSUME NEW a, IsFiniteSet(a.aliases), NEW category, NEW h, h.hit.score \in 0 .. 900, NEW e, IsEval(e)
  PROVE  Confidence(a, category, h, e) \in Int /\ Confidence(a, category, h, e) <= Uncapped
<1>. DEFINE c == h.concept
            Points(alias) == LabelOnlyKeys(alias, a.label.path, category)
            agree == Cardinality({x \in a.aliases : c.key \in Points(x)})
            disagree == \E x \in a.aliases : Points(x) # {} /\ c.key \notin Points(x)
            p1 == IF h.alias THEN 50 ELSE 0
            p2 == IF ~h.alias /\ h.hit.group /\ ~c.groupOnly THEN 50 ELSE 0
            p3 == IF c.categories # AnyCategory THEN 30 ELSE 0
            p4 == IF e.unit \in {"explicit", "converted"} /\ c.family # NoUnit THEN 30 ELSE 0
            p5 == IF agree > 1 THEN 40 ELSE 20 * agree
            p6 == IF disagree THEN 100 ELSE 0
            score == h.hit.score - p1 + p2 + p3 + p4 + p5 - p6 - e.penalty
<1>1. Confidence(a, category, h, e) = IF score > e.cap THEN e.cap ELSE IF score > Uncapped THEN Uncapped ELSE score
  BY DEF Confidence
<1>2. p1 \in Int
  OBVIOUS
<1>3. p2 \in Int
  OBVIOUS
<1>4. p3 \in Int
  OBVIOUS
<1>5. p4 \in Int
  OBVIOUS
<1>6. p6 \in Int
  OBVIOUS
<1>7. p5 \in Int
  <2>. DEFINE S == {x \in a.aliases : c.key \in Points(x)}
  <2>1. IsFiniteSet(S)
    <3>. HIDE DEF Points
    <3>. QED BY FS_Subset
  <2>. HIDE DEF S
  <2>2. Cardinality(S) \in Nat
    BY <2>1, FS_CardinalityType
  <2>3. (IF Cardinality(S) > 1 THEN 40 ELSE 20 * Cardinality(S)) \in Int
    BY <2>2
  <2>. QED BY <2>3 DEF S
<1>8. e.penalty \in Int /\ e.cap \in Int /\ e.cap <= Uncapped /\ Uncapped \in Int
  BY DEF IsEval, Uncapped
<1>. DEFINE p0 == h.hit.score
<1>9. p0 \in Int
  OBVIOUS
<1>10. score \in Int
  <2>1. score = p0 - p1 + p2 + p3 + p4 + p5 - p6 - e.penalty
    OBVIOUS
  <2>. HIDE DEF p0, p1, p2, p3, p4, p5, p6, score
  <2>. QED BY <1>2, <1>3, <1>4, <1>5, <1>6, <1>7, <1>8, <1>9, <2>1
<1>. HIDE DEF score
<1>. QED BY <1>1, <1>8, <1>10

HitAt(i, a, labels, alias) ==
  [concept |-> Concept[i], place |-> i, hit |-> BestOf(Concept[i], a, labels), alias |-> alias]
EvalAt(i, info) == Tested(Concept[i], Evaluate(Concept[i], info))
ReadingAt(i, a, category, info, labels, alias) ==
  [hit |-> HitAt(i, a, labels, alias), eval |-> EvalAt(i, info),
   score |-> Confidence(a, category, HitAt(i, a, labels, alias), EvalAt(i, info))]

(* A hit is that of a concept of the schema,                                  *)
LEMMA HitsAt ==
  ASSUME NEW a, NEW category, NEW labels, NEW alias, NEW h \in Hits(a, category, labels, alias)
  PROVE  \E i \in DOMAIN Concept : labels # {} /\ h = HitAt(i, a, labels, alias)
BY DEF Hits, HitAt, BestOf, HitsOf

(* and so is a reading: an attribute has as many readings as concepts at most. *)
LEMMA ReadingsAt ==
  ASSUME NEW a, NEW category, NEW info
  PROVE  \E labels, alias : \A r \in Readings(a, category, info) :
           \E i \in DOMAIN Concept : labels # {} /\ r = ReadingAt(i, a, category, info, labels, alias)
<1>. DEFINE own == Hits(a, category, {LabelText(a.label)}, FALSE)
            Read(h) == [hit |-> h, eval |-> Tested(h.concept, Evaluate(h.concept, info)),
                        score |-> Confidence(a, category, h, Tested(h.concept, Evaluate(h.concept, info)))]
<1>1. PICK labels, alias : OrByAlias(own, a, category) = Hits(a, category, labels, alias)
  BY DEF OrByAlias
<1>2. \A r \in Readings(a, category, info) : \E h \in Hits(a, category, labels, alias) : r = Read(h)
  BY <1>1 DEF Readings
<1>3. ASSUME NEW r \in Readings(a, category, info)
      PROVE  \E i \in DOMAIN Concept : labels # {} /\ r = ReadingAt(i, a, category, info, labels, alias)
  <2>1. PICK h \in Hits(a, category, labels, alias) : r = Read(h)
    BY <1>2
  <2>2. PICK i \in DOMAIN Concept : labels # {} /\ h = HitAt(i, a, labels, alias)
    BY HitsAt
  <2>3. HitAt(i, a, labels, alias).concept = Concept[i]
    BY DEF HitAt
  <2>. QED BY <2>1, <2>2, <2>3 DEF ReadingAt, EvalAt
<1>. QED BY <1>3

(* Of the readings of an attribute one is ahead of all the others: by its score, or *)
(* by its place in the schema.                                                   *)
LEMMA TopFound ==
  ASSUME NEW a, IsFiniteSet(a.aliases), NEW category, NEW info, Readings(a, category, info) # {}
  PROVE  LET top == TopOf(Readings(a, category, info))
         IN top \in Readings(a, category, info) /\ \E i \in DOMAIN Concept : top.hit.concept = Concept[i]
<1>. DEFINE live == Readings(a, category, info)
<1>1. PICK labels, alias : \A r \in live : \E i \in DOMAIN Concept :
             labels # {} /\ r = ReadingAt(i, a, category, info, labels, alias)
  BY ReadingsAt
<1>. DEFINE Nth(i) == ReadingAt(i, a, category, info, labels, alias)
<1>2. DOMAIN Concept \subseteq Nat /\ \A i \in DOMAIN Concept : IsEval(EvalAt(i, info))
  <2>1. \A i \in DOMAIN Concept : IsEval(EvalAt(i, info))
    BY SchemaAssumption, EvaluateIsEval, TestedIsEval DEF EvalAt
  <2>. QED BY <2>1, SchemaAssumption DEF IsList
<1>3. ASSUME NEW i \in DOMAIN Concept, labels # {}
      PROVE  Nth(i).score \in Int /\ Nth(i).score <= Uncapped /\ Nth(i).hit.place = i /\ Nth(i).hit.concept = Concept[i]
  <2>1. HitAt(i, a, labels, alias).hit.score \in 0 .. 900
    BY <1>3, BestHit DEF HitAt
  <2>. QED BY <1>2, <2>1, ConfidenceBound DEF ReadingAt, HitAt
<1>. HIDE DEF live
<1>4. \A r \in live : \E i \in DOMAIN Concept : labels # {} /\ r = Nth(i)
  BY <1>1
<1>. HIDE DEF Nth
<1>5. \A r \in live : /\ r.score \in Int /\ r.score <= Uncapped /\ r.hit.place \in Nat
                      /\ r.hit.place \in DOMAIN Concept /\ r.hit.concept = Concept[r.hit.place] /\ r = Nth(r.hit.place)
  BY <1>2, <1>3, <1>4
<1>. DEFINE scores == {r.score : r \in live}
<1>6. PICK m \in scores : \A n \in scores : n <= m
  <2>1. scores \in SUBSET Int /\ \A n \in scores : n <= Uncapped
    BY <1>5
  <2>2. PICK r \in live : r.score \in scores
    BY DEF live
  <2>. HIDE DEF scores
  <2>3. scores # {} /\ Uncapped \in Int
    BY <2>2 DEF Uncapped
  <2>4. \E k \in scores : \A n \in scores : n <= k
    BY <2>1, <2>3, LargestNumber
  <2>. QED BY <2>4
<1>. DEFINE best == {r \in live : r.score = m}
            places == {r.hit.place : r \in best}
<1>7. PICK p \in places : \A n \in places : ~(n < p)
  <2>1. places \in SUBSET Nat
    BY <1>5
  <2>2. PICK r \in best : r.hit.place \in places
    BY <1>6
  <2>. HIDE DEF places
  <2>3. places # {}
    BY <2>2
  <2>. QED BY <2>1, <2>3, LeastNumber
<1>8. PICK r \in best : r.hit.place = p
  BY <1>7
<1>9. ASSUME NEW s \in live \ {r}
      PROVE  s.score < r.score \/ (s.score = r.score /\ r.hit.place < s.hit.place)
  <2>1. r \in live /\ r.score = m /\ r.hit.place = p
    BY <1>8
  <2>2. s.score <= m
    BY <1>6
  <2>3. s.score \in Int /\ m \in Int /\ s.hit.place \in Nat /\ p \in Nat
    BY <1>5, <2>1
  <2>4. CASE s.score = m
    <3>1. s.hit.place \in places
      BY <2>4
    <3>2. ~(s.hit.place < p)
      <4>. HIDE DEF places
      <4>. QED BY <1>7, <3>1
    <3>3. s.hit.place # p
      BY <1>5, <2>1
    <3>. QED BY <2>1, <2>3, <2>4, <3>2, <3>3
  <2>. QED BY <2>1, <2>2, <2>3, <2>4
<1>10. TopOf(live) \in live
  <2>1. r \in live
    OBVIOUS
  <2>. QED BY <1>9, <2>1 DEF TopOf
<1>. QED BY <1>5, <1>10 DEF live

(* A list that is a function: only such are joined.                           *)
Listed(s) == IsList(s) /\ s = [k \in DOMAIN s |-> s[k]]
Members(s) == {s[k] : k \in DOMAIN s}

(* A listed function is a sequence of its members,                            *)
LEMMA ListedSeq ==
  ASSUME NEW s, Listed(s), NEW U, Members(s) \subseteq U
  PROVE  s \in Seq(U)
<1>1. Len(s) \in Nat /\ DOMAIN s = 1 .. Len(s) /\ s = [k \in DOMAIN s |-> s[k]]
  BY DEF Listed, IsList
<1>2. s \in [1 .. Len(s) -> U]
  BY <1>1 DEF Members
<1>. QED BY <1>1, <1>2, ListOf

(* and a sequence is listed.                                                  *)
LEMMA SeqListed ==
  ASSUME NEW U, NEW s \in Seq(U)
  PROVE  Listed(s) /\ Members(s) \subseteq U
BY DEF Listed, IsList, Members

(* Two that are joined are listed, the members of the second after those of the first. *)
LEMMA OneAfterAnother ==
  ASSUME NEW s, Listed(s), NEW t, Listed(t)
  PROVE  /\ Listed(s \o t) /\ Members(s \o t) \subseteq Members(s) \cup Members(t)
         /\ \A k \in DOMAIN (s \o t) : k > Len(s) => (s \o t)[k] \in Members(t)
<1>. DEFINE U == Members(s) \cup Members(t)
<1>1. s \in Seq(U) /\ t \in Seq(U)
  BY ListedSeq
<1>2. ASSUME NEW k \in DOMAIN (s \o t), k > Len(s)
      PROVE  (s \o t)[k] \in Members(t)
  <2>. HIDE DEF U
  <2>1. k - Len(s) \in DOMAIN t /\ (s \o t)[k] = t[k - Len(s)]
    BY <1>1, <1>2
  <2>. QED BY <2>1 DEF Members
<1>3. s \o t \in Seq(U)
  <2>. HIDE DEF U
  <2>. QED BY <1>1
<1>4. Listed(s \o t) /\ Members(s \o t) \subseteq U
  <2>. HIDE DEF U
  <2>. QED BY <1>3, SeqListed
<1>. QED BY <1>2, <1>4

(* A row of an attribute, and one that is derived from another.                *)
IsRow(r, a) ==
  /\ DOMAIN r = {"attribute", "status", "key", "figures", "unit", "confidence", "method", "derivedFrom", "block", "candidates"}
  /\ r.attribute = a /\ r.block = 1
IsDerived(r, a) == IsRow(r, a) /\ r.derivedFrom # NoUnit

(* A row of its own is a row of the attribute.                                *)
LEMMA RowIsRow ==
  ASSUME NEW a, NEW status
  PROVE  IsRow(Row(a, status), a)
BY DEF IsRow, Row

(* What is derived from an attribute is a list of derived rows.               *)
LEMMA DerivedListed ==
  ASSUME NEW a, NEW c, c.key # NoUnit, NEW e, NEW score
  PROVE  /\ Listed(DerivedRows(a, c, e, score))
         /\ \A r \in Members(DerivedRows(a, c, e, score)) : IsDerived(r, a)
<1>. DEFINE said == IF a.value.kind = "text" THEN Companions(c, TextOf(a)) ELSE << >>
            rows == [k \in DOMAIN said |-> CompanionRow(a, c, said[k], score)]
            axes == AxisRows(a, c, e, score)
<1>1. DerivedRows(a, c, e, score) = axes \o rows
  BY DEF DerivedRows
<1>2. Listed(<< >>) /\ Members(<< >>) = {}
  BY DEF Listed, IsList, Members
<1>3. IsList(said)
  <2>1. CASE a.value.kind # "text"
    <3>1. said = << >>
      BY <2>1
    <3>. HIDE DEF said
    <3>. QED BY <1>2, <3>1 DEF Listed
  <2>2. CASE a.value.kind = "text"
    <3>. DEFINE t == TextOf(a)
                Read(d, m) == Evaluate(d, [kind |-> "measure", figures |-> m.figures, unit |-> m.unit,
                                           lead |-> NoReading, text |-> t, alt |-> Blank])
                Said(d) == [key |-> d.key, read |-> Read(d, Embedded(d, t)[1])]
                S == {i \in DOMAIN Concept : /\ c.key \in Concept[i].hosts /\ Len(Embedded(Concept[i], t)) = 1
                                             /\ Said(Concept[i]).read.ok}
                named == Numbers(S, Len(Concept))
                picked == [k \in DOMAIN named |-> Said(Concept[named[k]])]
    <3>1. said = picked
      BY <2>2 DEF Companions
    <3>2. Counts(S, Len(Concept), named)
      <4>1. Len(Concept) \in Nat
        BY SchemaAssumption DEF IsList
      <4>. HIDE DEF S
      <4>. QED BY <4>1, NumbersCount
    <3>. HIDE DEF named, S, Said, said
    <3>3. Len(named) \in Nat /\ DOMAIN named = 1 .. Len(named)
      BY <3>2 DEF Counts
    <3>4. DOMAIN picked = 1 .. Len(named) /\ picked = [k \in 1 .. Len(named) |-> picked[k]]
      BY <3>3
    <3>. HIDE DEF picked
    <3>. QED BY <3>1, <3>3, <3>4, FunctionListed
  <2>. QED BY <2>1, <2>2
<1>4. Listed(rows) /\ \A r \in Members(rows) : IsDerived(r, a)
  <2>. HIDE DEF said
  <2>1. Len(said) \in Nat /\ DOMAIN said = 1 .. Len(said)
    BY <1>3 DEF IsList
  <2>2. DOMAIN rows = 1 .. Len(said) /\ rows = [k \in 1 .. Len(said) |-> rows[k]]
    BY <2>1
  <2>3. \A s : IsDerived(CompanionRow(a, c, s, score), a)
    BY DEF CompanionRow, IsDerived, IsRow, Row
  <2>4. \A r \in Members(rows) : IsDerived(r, a)
    <3>. QED BY <2>3 DEF Members
  <2>. HIDE DEF rows
  <2>5. IsList(rows)
    BY <2>1, <2>2, FunctionListed
  <2>. QED BY <2>2, <2>4, <2>5 DEF Listed
<1>5. Listed(axes) /\ \A r \in Members(axes) : IsDerived(r, a)
  <2>. DEFINE labels == {a.label.text, a.first.label} \cup a.aliases
              ordering == {l \in labels : l \in DOMAIN AxisOrder}
              keys == AxisOrder[CHOOSE l \in ordering : TRUE]
              One(k) == [Row(a, "mapped") EXCEPT !.key = keys[k], !.figures = <<e.figures[k]>>, !.unit = e.unit,
                               !.confidence = score - 20, !.method = "dimension_split", !.derivedFrom = c.key]
              split == [k \in 1 .. 3 |-> One(k)]
  <2>1. axes = << >> \/ axes = split
    BY DEF AxisRows
  <2>. HIDE DEF keys, axes
  <2>2. \A k : IsDerived(One(k), a)
    BY DEF IsDerived, IsRow, Row
  <2>. HIDE DEF One
  <2>3. DOMAIN split = 1 .. 3 /\ split = [k \in 1 .. 3 |-> split[k]] /\ 3 \in Nat
    OBVIOUS
  <2>4. \A r \in Members(split) : IsDerived(r, a)
    BY <2>2 DEF Members
  <2>. HIDE DEF split
  <2>5. IsList(split)
    BY <2>3, FunctionListed
  <2>. QED BY <1>2, <2>1, <2>3, <2>4, <2>5 DEF Listed
<1>. HIDE DEF rows, axes
<1>. QED BY <1>1, <1>4, <1>5, OneAfterAnother

(* The rows of an attribute: one of its own, the others derived from it.        *)
LEMMA AttributeRows ==
  ASSUME NEW a, IsFiniteSet(a.aliases), NEW category
  PROVE  /\ Listed(MapAttribute(a, category))
         /\ \A k \in DOMAIN MapAttribute(a, category) :
              /\ IsRow(MapAttribute(a, category)[k], a)
              /\ k # 1 => MapAttribute(a, category)[k].derivedFrom # NoUnit
<1>. DEFINE live == Readings(a, category, AnalyseValue(a))
            top == TopOf(live)
            c == top.hit.concept
            rows == MapAttribute(a, category)
            candidates == {r.hit.concept.key : r \in {s \in live : s.score >= CandidateMin}}
            main == [Row(a, "mapped") EXCEPT !.key = c.key, !.figures = top.eval.figures, !.unit = top.eval.unit,
                       !.confidence = top.score, !.method = IF top.hit.alias THEN "alias_label" ELSE top.hit.hit.via]
            derived == DerivedRows(a, c, top.eval, top.score)
<1>1. rows = RowsOf(a, live, top)
  BY DEF MapAttribute
<1>2. \/ live # {} /\ rows = <<main>> \o derived
      \/ rows = <<[Row(a, "ambiguous") EXCEPT !.candidates = candidates]>>
      \/ \E status : rows = <<Row(a, status)>>
  <2>. HIDE DEF live, top, rows, derived
  <2>. QED BY <1>1 DEF RowsOf, derived
<1>3. ASSUME NEW r, IsRow(r, a)
      PROVE  Listed(<<r>>) /\ \A k \in DOMAIN <<r>> : k = 1 /\ <<r>>[k] = r
  BY DEF Listed, IsList
<1>4. ASSUME NEW r, IsRow(r, a), rows = <<r>>
      PROVE  Listed(rows) /\ \A k \in DOMAIN rows : IsRow(rows[k], a) /\ k = 1
  <2>. HIDE DEF rows
  <2>. QED BY <1>3, <1>4
<1>5. CASE live # {} /\ rows = <<main>> \o derived
  <2>1. c.key # NoUnit
    <3>1. \E i \in DOMAIN Concept : c = Concept[i]
      BY <1>5, TopFound
    <3>. HIDE DEF c
    <3>. QED BY <3>1, SchemaAssumption
  <2>2. IsRow(main, a)
    <3>. HIDE DEF c, top
    <3>. QED BY DEF IsRow, Row
  <2>3. Listed(derived) /\ \A r \in Members(derived) : IsDerived(r, a)
    <3>. HIDE DEF c, top
    <3>. QED BY <2>1, DerivedListed
  <2>. HIDE DEF main, derived, rows
  <2>4. Listed(<<main>>) /\ Len(<<main>>) = 1 /\ Members(<<main>>) = {main}
    BY <1>3, <2>2 DEF Members
  <2>5. /\ Listed(rows) /\ Members(rows) \subseteq {main} \cup Members(derived)
        /\ \A k \in DOMAIN rows : k > 1 => rows[k] \in Members(derived)
    BY <1>5, <2>3, <2>4, OneAfterAnother
  <2>6. ASSUME NEW k \in DOMAIN rows
        PROVE  IsRow(rows[k], a) /\ (k # 1 => rows[k].derivedFrom # NoUnit)
    <3>1. rows[k] \in {main} \cup Members(derived)
      BY <2>5 DEF Members
    <3>2. IsRow(rows[k], a)
      BY <2>2, <2>3, <3>1 DEF IsDerived
    <3>3. k # 1 => k > 1
      BY <2>5 DEF Listed, IsList
    <3>. QED BY <2>3, <2>5, <3>2, <3>3 DEF IsDerived
  <2>. QED BY <2>5, <2>6 DEF rows
<1>6. IsRow([Row(a, "ambiguous") EXCEPT !.candidates = candidates], a)
  <2>. HIDE DEF candidates
  <2>. QED BY DEF IsRow, Row
<1>7. CASE ~(live # {} /\ rows = <<main>> \o derived)
  <2>1. \E r : IsRow(r, a) /\ rows = <<r>>
    <3>. HIDE DEF rows, live, main, derived, candidates
    <3>. QED BY <1>2, <1>6, <1>7, RowIsRow
  <2>2. Listed(rows) /\ \A k \in DOMAIN rows : IsRow(rows[k], a) /\ k = 1
    <3>. HIDE DEF rows
    <3>. QED BY <1>4, <2>1
  <2>. HIDE DEF rows
  <2>3. \A k \in DOMAIN rows : IsRow(rows[k], a) /\ (k # 1 => rows[k].derivedFrom # NoUnit)
    BY <2>2
  <2>. QED BY <2>2, <2>3 DEF rows
<1>. QED BY <1>5, <1>7

(* What the pass over components does to a row.                               *)
RepeatsOf(rows, j) ==
  IF rows[j].status # "mapped" \/ rows[j].key \notin ComponentKeys \/ rows[j].derivedFrom # NoUnit THEN {}
  ELSE {i \in DOMAIN rows : BlockBefore(rows, i, j)}

(* The pass keeps the key and the attribute of a row, and moves it out of the first block *)
(* when it repeats an earlier one.                                            *)
LEMMA PassedRow ==
  ASSUME NEW rows, IsList(rows), NEW j \in DOMAIN rows, NEW a, IsRow(rows[j], a)
  PROVE  LET f == ComponentPass(rows)[j]
         IN /\ DOMAIN ComponentPass(rows) = DOMAIN rows
            /\ f.status = rows[j].status /\ f.key = rows[j].key /\ f.derivedFrom = rows[j].derivedFrom
            /\ f.attribute = a
            /\ RepeatsOf(rows, j) # {} => f.block # 1
<1>. DEFINE f == ComponentPass(rows)[j]
            repeats == RepeatsOf(rows, j)
            n == Cardinality(repeats)
<1>1. /\ DOMAIN ComponentPass(rows) = DOMAIN rows
      /\ f = IF repeats = {} THEN rows[j]
             ELSE [rows[j] EXCEPT !.block = n + 1, !.confidence = @ - 100, !.method = "repeated_block_context"]
  BY DEF ComponentPass, RepeatsOf
<1>2. IsFiniteSet(repeats)
  <2>1. repeats \subseteq DOMAIN rows
    BY DEF RepeatsOf
  <2>2. DOMAIN rows = 1 .. Len(rows) /\ Len(rows) \in Nat
    BY DEF IsList
  <2>3. IsFiniteSet(1 .. Len(rows))
    BY <2>2, FS_Interval
  <2>. HIDE DEF repeats
  <2>. QED BY <2>1, <2>2, <2>3, FS_Subset
<1>3. ASSUME repeats # {} PROVE n + 1 # 1
  <2>. HIDE DEF repeats
  <2>1. n \in Nat /\ n # 0
    BY <1>2, <1>3, FS_CardinalityType, FS_EmptySet
  <2>. QED BY <2>1
<1>. DEFINE m == n + 1
<1>4. f = IF repeats = {} THEN rows[j]
          ELSE [rows[j] EXCEPT !.block = m, !.confidence = @ - 100, !.method = "repeated_block_context"]
  BY <1>1
<1>5. repeats # {} => m # 1
  BY <1>3
<1>. HIDE DEF repeats, m, f
<1>. QED BY <1>1, <1>4, <1>5 DEF IsRow, f, repeats

(* Two attributes of one section and method whose rows are the main product's are   *)
(* one attribute.                                                                *)
PrimaryOf(f) ==
  f.status = "mapped" /\ f.key \in ComponentKeys /\ f.block = 1 /\ f.derivedFrom = NoUnit
SameOrigin(f, g) ==
  /\ f.key = g.key /\ f.attribute.first.url = g.attribute.first.url
  /\ f.attribute.first.section = g.attribute.first.section /\ f.attribute.first.method = g.attribute.first.method

IsEvidenced(attributes) ==
  /\ IsList(attributes) /\ InOrder(attributes)
  /\ \A k \in DOMAIN attributes : IsFiniteSet(attributes[k].aliases) /\ attributes[k].evidence[1] \in Nat

(* Two rows of the main product, of one key and one section, are one row: of two the later *)
(* would repeat the earlier.                                                  *)
LEMMA OnePrimary ==
  ASSUME NEW attributes, IsEvidenced(attributes), NEW category,
         NEW i \in DOMAIN MapResult(attributes, category).fields, NEW j \in DOMAIN MapResult(attributes, category).fields,
         PrimaryOf(MapResult(attributes, category).fields[i]), PrimaryOf(MapResult(attributes, category).fields[j]),
         SameOrigin(MapResult(attributes, category).fields[i], MapResult(attributes, category).fields[j])
  PROVE  i = j
<1>. DEFINE S == {k \in DOMAIN attributes : attributes[k].cls = "spec"}
            N == Len(attributes)
            specs == Numbers(S, N)
            parts == [k \in DOMAIN specs |-> MapAttribute(attributes[specs[k]], category)]
            rows == Concat(parts)
            fields == ComponentPass(rows)
            X == UNION {Members(parts[k]) : k \in DOMAIN specs}
            Of(k) == attributes[specs[k]]
<1>1. MapResult(attributes, category).fields = fields
  BY DEF MapResult
<1>2. /\ specs \in Seq(Nat) /\ Len(specs) \in Nat /\ DOMAIN specs = 1 .. Len(specs)
      /\ \A k \in DOMAIN specs : specs[k] \in DOMAIN attributes
      /\ \A k, l \in DOMAIN specs : k < l => specs[k] < specs[l]
  <2>1. N \in Nat
    BY DEF IsEvidenced, IsList
  <2>2. S \subseteq DOMAIN attributes
    OBVIOUS
  <2>. HIDE DEF S, N
  <2>3. Counts(S, N, specs)
    BY <2>1, NumbersCount
  <2>. HIDE DEF specs
  <2>4. specs \in Seq(Nat) /\ Len(specs) \in Nat /\ DOMAIN specs = 1 .. Len(specs)
    BY <2>3 DEF Counts
  <2>. QED BY <2>2, <2>3, <2>4 DEF Counts
<1>. HIDE DEF specs
<1>3. DOMAIN parts = 1 .. Len(specs) /\ IsList(parts) /\ Len(parts) = Len(specs)
  <2>1. DOMAIN parts = 1 .. Len(specs) /\ parts = [k \in 1 .. Len(specs) |-> parts[k]]
    BY <1>2
  <2>. HIDE DEF parts
  <2>. QED BY <1>2, <2>1, FunctionListed
<1>4. \A k \in DOMAIN specs :
        /\ Listed(parts[k])
        /\ \A x \in DOMAIN parts[k] : IsRow(parts[k][x], Of(k)) /\ (x # 1 => parts[k][x].derivedFrom # NoUnit)
  <2>1. \A k \in DOMAIN specs : IsFiniteSet(Of(k).aliases) /\ parts[k] = MapAttribute(Of(k), category)
    BY <1>2 DEF IsEvidenced
  <2>. HIDE DEF parts, Of
  <2>. QED BY <2>1, AttributeRows
<1>5. Joins(parts, Len(parts), rows, X)
  <2>1. \A k \in 1 .. Len(parts) : Members(parts[k]) \subseteq X
    BY <1>2, <1>3
  <2>. HIDE DEF parts, X
  <2>2. \A k \in 1 .. Len(parts) : parts[k] \in Seq(X)
    BY <1>2, <1>3, <1>4, <2>1, ListedSeq
  <2>3. Len(parts) \in Nat
    BY <1>3 DEF IsList
  <2>. QED BY <2>2, <2>3, ConcatJoins
<1>. HIDE DEF parts, X, rows
<1>6. PICK src : ComesFrom(parts, Len(parts), rows, src)
  BY <1>5 DEF Joins
<1>7. IsList(rows) /\ DOMAIN rows = 1 .. Len(rows)
  BY <1>5 DEF Joins, IsList
<1>8. ASSUME NEW p \in DOMAIN rows
      PROVE  /\ src[p][1] \in DOMAIN specs /\ src[p][2] \in DOMAIN parts[src[p][1]]
             /\ rows[p] = parts[src[p][1]][src[p][2]] /\ src[p] = <<src[p][1], src[p][2]>>
  <2>1. src[p] \in (1 .. Len(parts)) \X Nat /\ src[p][2] \in 1 .. Len(parts[src[p][1]])
        /\ rows[p] = parts[src[p][1]][src[p][2]]
    BY <1>6, <1>7 DEF ComesFrom
  <2>2. src[p][1] \in DOMAIN specs /\ src[p] = <<src[p][1], src[p][2]>>
    BY <1>2, <1>3, <2>1
  <2>3. DOMAIN parts[src[p][1]] = 1 .. Len(parts[src[p][1]])
    BY <1>4, <2>2 DEF Listed, IsList
  <2>. QED BY <2>1, <2>2, <2>3
<1>9. \A p \in DOMAIN rows : /\ IsRow(rows[p], Of(src[p][1]))
                             /\ src[p][2] # 1 => rows[p].derivedFrom # NoUnit
  <2>. HIDE DEF Of
  <2>. QED BY <1>4, <1>8
<1>10. ASSUME NEW p \in DOMAIN rows
       PROVE
         /\ DOMAIN fields = DOMAIN rows
         /\ fields[p].status = rows[p].status /\ fields[p].key = rows[p].key /\ fields[p].derivedFrom = rows[p].derivedFrom
         /\ fields[p].attribute = Of(src[p][1]) /\ rows[p].attribute = Of(src[p][1])
         /\ RepeatsOf(rows, p) # {} => fields[p].block # 1
  <2>. DEFINE a == Of(src[p][1])
  <2>1. IsRow(rows[p], a)
    BY <1>9
  <2>2. rows[p].attribute = a
    BY <2>1 DEF IsRow
  <2>. HIDE DEF a
  <2>3. /\ DOMAIN fields = DOMAIN rows
        /\ fields[p].status = rows[p].status /\ fields[p].key = rows[p].key /\ fields[p].derivedFrom = rows[p].derivedFrom
        /\ fields[p].attribute = a /\ (RepeatsOf(rows, p) # {} => fields[p].block # 1)
    BY <1>7, <2>1, PassedRow
  <2>. QED BY <2>2, <2>3 DEF a
<1>11. i \in DOMAIN rows /\ j \in DOMAIN rows
  BY <1>1 DEF ComponentPass
<1>. HIDE DEF fields, Of
<1>12. ASSUME NEW p \in DOMAIN rows, NEW q \in DOMAIN rows, PrimaryOf(fields[p]), PrimaryOf(fields[q]),
              SameOrigin(fields[p], fields[q]), src[p][1] < src[q][1]
       PROVE  FALSE
  <2>1. Of(src[p][1]).evidence[1] < Of(src[q][1]).evidence[1]
    <3>1. specs[src[p][1]] < specs[src[q][1]]
      BY <1>2, <1>8, <1>12
    <3>. QED BY <1>2, <1>8, <3>1 DEF Of, IsEvidenced, InOrder
  <2>2. BlockBefore(rows, p, q)
    BY <1>10, <1>12, <2>1 DEF BlockBefore, PrimaryOf, SameOrigin
  <2>3. p \in RepeatsOf(rows, q)
    BY <1>10, <1>12, <2>2 DEF RepeatsOf, PrimaryOf
  <2>. QED BY <1>10, <1>12, <2>3 DEF PrimaryOf
<1>13. PrimaryOf(fields[i]) /\ PrimaryOf(fields[j]) /\ SameOrigin(fields[i], fields[j]) /\ SameOrigin(fields[j], fields[i])
  BY <1>1 DEF SameOrigin
<1>14. src[i][1] = src[j][1]
  <2>1. ~(src[i][1] < src[j][1]) /\ ~(src[j][1] < src[i][1])
    BY <1>11, <1>12, <1>13
  <2>2. src[i][1] \in Nat /\ src[j][1] \in Nat
    BY <1>2, <1>8, <1>11
  <2>. QED BY <2>1, <2>2
<1>15. src[i][2] = 1 /\ src[j][2] = 1
  BY <1>9, <1>10, <1>11, <1>13 DEF PrimaryOf
<1>16. src[i] = src[j]
  BY <1>8, <1>11, <1>14, <1>15
<1>. QED BY <1>6, <1>7, <1>11, <1>16 DEF ComesFrom

(* The aliases of an attribute are as many as its raw pairs at most.             *)
LEMMA AttributesEvidenced ==
  ASSUME NEW records, IsList(records)
  PROVE  IsEvidenced(AttributesOf(records, Clusters(records)))
<1>. DEFINE clusters == Clusters(records)
            result == AttributesOf(records, clusters)
<1>1. Agreeing(records, Len(records), clusters)
  BY ClustersAgreeing
<1>2. /\ IsList(result) /\ InOrder(result)
      /\ \A k \in DOMAIN result : EvidenceOf(records, clusters, result[k])
  <2>. HIDE DEF clusters
  <2>. QED BY <1>1, AttributesEvidence
<1>3. ASSUME NEW members, IsFiniteSet(members)
      PROVE  IsFiniteSet(Attribute(records, members).aliases)
  <2>. DEFINE f == [i \in members |-> records[i].label.base]
  <2>1. DOMAIN f = members /\ {f[i] : i \in DOMAIN f} = {records[i].label.base : i \in members}
    OBVIOUS
  <2>2. IsFiniteSet({records[i].label.base : i \in members})
    <3>. HIDE DEF f
    <3>. QED BY <1>3, <2>1, ImageFinite
  <2>3. \E b : Attribute(records, members).aliases = {records[i].label.base : i \in members} \ {b}
    BY DEF Attribute
  <2>. QED BY <2>2, <2>3, FS_Subset
<1>4. \A k \in DOMAIN result : IsFiniteSet(result[k].aliases)
  <2>. SUFFICES ASSUME NEW k \in DOMAIN result PROVE IsFiniteSet(result[k].aliases)
    OBVIOUS
  <2>1. PICK c : result[k] = Attribute(records, c) /\ c \in clusters
    BY <1>2 DEF EvidenceOf
  <2>2. IsFiniteSet(c)
    <3>1. c \in SUBSET (1 .. Len(records)) /\ Len(records) \in Nat
      BY <1>1, <2>1 DEF Agreeing, IsList
    <3>2. IsFiniteSet(1 .. Len(records))
      BY <3>1, FS_Interval
    <3>. QED BY <3>1, <3>2, FS_Subset
  <2>. QED BY <1>3, <2>1, <2>2
<1>. QED BY <1>2, <1>4 DEF IsEvidenced, EvidenceOf

(* A section that lists the measurements of two components gives the main product   *)
(* one of each (_component_pass).                                                *)
THEOREM OnePrimaryEach == FactsSpec => []OnePrimaryPerBlock
<1>1. FactsInv => OnePrimaryPerBlock
  <2>. SUFFICES ASSUME FactsInv PROVE OnePrimaryPerBlock
    OBVIOUS
  <2>. DEFINE fields == facts.mapping.fields
              Origin(f) == <<f.key, f.attribute.first.url, f.attribute.first.section, f.attribute.first.method>>
  <2>1. CASE facts = NoFacts
    <3>1. DOMAIN facts.mapping.fields = {}
      BY <2>1 DEF NoFacts
    <3>. QED BY <3>1 DEF OnePrimaryPerBlock
  <2>2. CASE facts # NoFacts
    <3>. DEFINE records == Records(facts.raws)
    <3>1. IsEvidenced(facts.attributes) /\ fields = MapResult(facts.attributes, W.category).fields
      <4>1. /\ IsList(facts.raws) /\ facts.attributes = AttributesOf(records, Clusters(records))
            /\ facts.mapping = MapResult(facts.attributes, W.category)
        BY <2>2 DEF FactsInv, NormalizeAttributes
      <4>2. IsList(records)
        BY <4>1, RecordsListed
      <4>. HIDE DEF records
      <4>. QED BY <4>1, <4>2, AttributesEvidenced
    <3>. HIDE DEF fields
    <3>2. ASSUME NEW i \in DOMAIN fields, NEW j \in DOMAIN fields,
                 {fields[i].status, fields[j].status} = {"mapped"}, {fields[i].key} \subseteq ComponentKeys,
                 {fields[i].block, fields[j].block} = {1}, {fields[i].derivedFrom, fields[j].derivedFrom} = {NoUnit},
                 Origin(fields[i]) = Origin(fields[j])
          PROVE  i = j
      <4>1. PrimaryOf(fields[i]) /\ PrimaryOf(fields[j]) /\ SameOrigin(fields[i], fields[j])
        BY <3>2 DEF PrimaryOf, SameOrigin
      <4>. QED BY <3>1, <4>1, OnePrimary
    <3>. QED BY <3>2 DEF OnePrimaryPerBlock, fields
  <2>. QED BY <2>1, <2>2
<1>. QED BY <1>1, ExtractionInvariance, PTL
=============================================================================
