----------------------------- MODULE BreakerProofs -----------------------------
(***************************************************************************)
(* The circuit breaker's transitions keep an entry coherent: the lemmas    *)
(* that the proofs about the health file and about the search session cite.*)
(***************************************************************************)
EXTENDS BreakerEntry, TLAPS

USE BreakerAssumption

LEMMA LongestBounds == /\ Longest \in Nat /\ Cooldown <= Longest /\ MaxCooldown <= Longest
                       /\ Cooldown \in 0 .. Longest
BY DEF Longest

LEMMA FreshCoherent == Coherent(Fresh) /\ Fresh.openedAgo = Longest
BY LongestBounds DEF Fresh, Coherent, Entry

LEMMA CooledDownCoherent ==
  ASSUME NEW e, Coherent(e)
  PROVE  Coherent(CooledDown(e)) /\ CooledDown(e).openedAgo = e.openedAgo
BY LongestBounds DEF CooledDown, Coherent, Entry

LEMMA SucceededCoherent ==
  ASSUME NEW e, Coherent(e)
  PROVE  Coherent(Succeeded(e)) /\ Succeeded(e).openedAgo = e.openedAgo
<1>1. e.failures \in Nat /\ 0 \in 0 .. OpenAfter /\ 0 < OpenAfter
  BY DEF Coherent, Entry
<1>2. CASE e.state \in {"open", "half_open"}
  BY <1>1, <1>2, LongestBounds DEF Succeeded, Coherent, Entry
<1>3. CASE e.state = "closed"
  BY <1>1, <1>3, LongestBounds DEF Succeeded, Coherent, Entry
<1>. QED BY <1>2, <1>3 DEF Coherent, Entry

LEMMA FailedCoherent ==
  ASSUME NEW e, Coherent(e)
  PROVE  Coherent(Failed(e))
<1>1. Counted(e) \in 1 .. OpenAfter /\ (e.state # "closed" => Counted(e) = OpenAfter)
  BY DEF Counted, Coherent, Entry
<1>2. Doubled(e) \in 0 .. Longest
  BY LongestBounds DEF Doubled, Coherent, Entry
<1>3. CASE e.state = "half_open"
  BY <1>1, <1>2, <1>3, LongestBounds DEF Failed, Coherent, Entry
<1>4. CASE e.state # "half_open" /\ Counted(e) >= OpenAfter
  <2>. DEFINE g == [e EXCEPT !.failures = OpenAfter, !.state = "open", !.openedAgo = 0]
  <2>1. Counted(e) = OpenAfter
    BY <1>1, <1>4
  <2>2. Failed(e) = g
    BY <1>4, <2>1 DEF Failed
  <2>3. g \in Entry /\ g.state = "open" /\ g.failures = OpenAfter
    <3>1. e \in Entry /\ 0 \in 0 .. Longest /\ OpenAfter \in 0 .. OpenAfter
      BY LongestBounds DEF Coherent
    <3>2. g.state = "open" /\ g.failures = OpenAfter
      BY <3>1 DEF Entry
    <3>3. g \in Entry
      BY <3>1 DEF Entry
    <3>. QED BY <3>2, <3>3
  <2>. QED BY <2>2, <2>3 DEF Coherent
<1>5. CASE e.state # "half_open" /\ ~(Counted(e) >= OpenAfter)
  BY <1>1, <1>5, LongestBounds DEF Failed, Coherent, Entry
<1>. QED BY <1>3, <1>4, <1>5

LEMMA OlderMonotone ==
  ASSUME NEW m \in 0 .. Longest, NEW n \in 0 .. Longest, m <= n
  PROVE  Older(m) \in 0 .. Longest /\ Older(m) <= Older(n)
BY LongestBounds DEF Older

LEMMA AgedCoherent ==
  ASSUME NEW e, Coherent(e)
  PROVE  Coherent(Aged(e)) /\ Aged(e).openedAgo = Older(e.openedAgo)
<1>1. Older(e.openedAgo) \in 0 .. Longest
  BY OlderMonotone DEF Coherent, Entry
<1>. QED
  BY <1>1 DEF Aged, Coherent, Entry
=============================================================================
