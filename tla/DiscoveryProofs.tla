----------------------------- MODULE DiscoveryProofs -----------------------------
(***************************************************************************)
(* TLAPS proofs about core/discovery.py.  First the search on the            *)
(* manufacturer's own sites (OfficialProbe), for any roots, redirects, limits *)
(* and timeouts: the caller waits for threads that end by their deadlines,   *)
(* so that a call ends; requests are counted against an allowance; no stop   *)
(* event outlives the phase it was set in.  Then a discovery run: what it      *)
(* asks, where authority comes from, and what its trace accounts for, for any *)
(* pages, hosts, words and answers of the searcher.                          *)
(***************************************************************************)
EXTENDS Discovery, OfficialProbe, FiniteSetTheorems, WellFoundedInduction, TLAPS

-----------------------------------------------------------------------------
(* The official sites: the invariant                                        *)

(* When the verification of the pages found begins at the latest.             *)
LatestVerify == HardDeadline + Overrun + DnsWait
DeadlineOf(kind) == IF kind = "verify" THEN LatestVerify + VerifyTime ELSE HardDeadline

(* What a thread was given ends with its deadline, but for the body it reads. *)
WaitInv ==
  \A w \in ProbeThreads :
    /\ thread[w].deadline <= DeadlineOf(w[1])
    /\ thread[w].state = "waiting" => clock + thread[w].waits <= thread[w].deadline + Overrun

(* Where the calling thread is, and how late it can be there.                 *)
StageInv ==
  /\ phase = "idle" <=> stage = "none"
  /\ stage = "dns" => phase = "regional" /\ waited <= DnsWait /\ clock <= HardDeadline + Overrun + waited
  /\ stage \in {"resolving", "probing"} =>
       clock <= IF phase = "regional" THEN LatestVerify ELSE HardDeadline + Overrun
  /\ waited <= clock

(* The allowance of the calls so far; the primary phase has not had its own.  *)
LimitInv ==
  /\ phase # "idle" => calls > 0
  /\ limit <= MaxRequests + (IF phase = "primary" THEN calls - 1 ELSE calls) * ExtraRequests

(* A stop event that is set in a call is about an exact page of its phase.     *)
StopInv ==
  /\ \A d \in Domains : Running(<<"probe", d>>) => stage = "probing"
  /\ stop /\ phase # "idle" => stage # "resolving" /\ \E e \in Domains : thread[<<"probe", e>>].found

ProbeInv == TypeOK /\ WaitInv /\ StageInv /\ LimitInv /\ StopInv /\ CutBySibling

LEMMA ProbeBounds ==
  /\ HardDeadline \in Nat /\ PrimaryDeadline \in Nat /\ PrimaryDeadline <= HardDeadline
  /\ LatestVerify \in Nat /\ HardDeadline + Overrun <= LatestVerify
  /\ LatestVerify + VerifyTime + Overrun = LastMoment /\ LatestVerify <= LastMoment /\ LastMoment \in Nat
  /\ DnsWait <= LastMoment
  /\ Overrun \in Nat /\ DnsWait \in Nat /\ VerifyTime \in Nat /\ Transport \in Nat /\ Grace \in Nat
  /\ MaxRequests \in Nat /\ ExtraRequests \in Nat /\ MaxCalls \in Nat
  /\ Len(Surfaces) \in Nat /\ Len(Surfaces) > 0
  BY ProbeAssumption DEF ProbeAssumption, HardDeadline, PrimaryDeadline, LatestVerify, LastMoment, Smaller, Larger

LEMMA NoThreadType == NoThread \in ThreadState
  BY ProbeBounds DEF NoThread, ThreadState

(* What one step of a thread may do: what it is given (state r) and what it    *)
(* does to what all share.                                                    *)
Steps(w, r) ==
  /\ r \in ThreadState /\ thread' = [thread EXCEPT ![w] = r]
  /\ Running(w)
  /\ r.deadline = thread[w].deadline /\ (thread[w].found => r.found)
  /\ r.state = "waiting" => clock + r.waits <= r.deadline + Overrun
  /\ r.state = "cut" => w[1] = "probe" /\ stop /\ ~thread[w].found
  /\ phase' = phase /\ stage' = stage /\ clock' = clock /\ waited' = waited
  /\ limit' = limit /\ exact' = exact /\ records' = records /\ calls' = calls
  /\ requests' \in Nat /\ requests' <= limit
  /\ resolved' \subseteq Redirects
  /\ \/ stop' = stop /\ grace' = grace
     \/ w[1] = "probe" /\ r.found /\ stop' = TRUE /\ grace' = Grace

LEMMA GetSteps ==
  ASSUME TypeOK, NEW w \in ProbeThreads, Get(w)
  PROVE  \E r \in ThreadState : Steps(w, r)
<1> DEFINE t == thread[w]
           x == RequestTimeout(w) + Overrun
           r == [t EXCEPT !.state = "waiting", !.asked = @ + 1, !.counted = @ + 1, !.waits = x]
<1>1. /\ thread \in [ProbeThreads -> ThreadState] /\ t \in ThreadState /\ clock \in Nat
      /\ requests \in Nat /\ limit \in Nat /\ resolved \subseteq Redirects
  BY ProbeBounds DEF TypeOK
<1>2. t.state = "ready" /\ ~(requests >= limit) /\ ~(clock >= t.deadline) /\ requests' = requests + 1
  BY DEF Get, Counted, Refused
<1>3. RequestTimeout(w) \in Nat /\ clock + RequestTimeout(w) <= t.deadline
  BY <1>1, <1>2, ProbeBounds DEF RequestTimeout, Smaller, ThreadState
<1>4. t.asked \in Nat /\ t.counted \in Nat /\ t.deadline \in Nat /\ x \in Nat /\ clock + x <= t.deadline + Overrun
  BY <1>1, <1>3, ProbeBounds DEF ThreadState
<1>5. thread' = [thread EXCEPT ![w] = r]
  <2>1. thread' = [thread EXCEPT ![w].state = "waiting", ![w].asked = @ + 1,
                                 ![w].counted = @ + 1, ![w].waits = x]
    BY DEF Get
  <2> HIDE DEF x
  <2> QED  BY <1>1, <2>1
<1> HIDE DEF x
<1>6. r \in ThreadState
  <2>1. r = [t EXCEPT !.state = "waiting", !.asked = t.asked + 1, !.counted = t.counted + 1, !.waits = x]
    BY <1>1 DEF ThreadState
  <2>2. t.asked + 1 \in Nat /\ t.counted + 1 \in Nat
    BY <1>4
  <2> QED  BY <1>1, <1>4, <2>1, <2>2 DEF ThreadState
<1>7. r.deadline = t.deadline /\ r.found = t.found /\ r.state = "waiting" /\ r.waits = x
  BY <1>1 DEF ThreadState
<1> HIDE DEF r
<1>8. requests' \in Nat /\ requests' <= limit
  BY <1>1, <1>2
<1>9. /\ phase' = phase /\ stage' = stage /\ clock' = clock /\ waited' = waited
      /\ limit' = limit /\ exact' = exact /\ records' = records /\ calls' = calls
      /\ resolved' = resolved /\ stop' = stop /\ grace' = grace
  BY DEF Get, callVars, resultVars
<1> QED
  BY <1>1, <1>2, <1>4, <1>5, <1>6, <1>7, <1>8, <1>9 DEF Steps, Running

(* A thread's step that asks nothing: its record's fields s and x change.      *)
LEMMA QuietSteps ==
  ASSUME TypeOK, NEW w \in ProbeThreads, Running(w), NEW r \in ThreadState,
         thread' = [thread EXCEPT ![w] = r],
         r.deadline = thread[w].deadline, thread[w].found => r.found,
         r.state # "waiting", r.state = "cut" => w[1] = "probe" /\ stop /\ ~thread[w].found,
         resolved' \subseteq Redirects, UNCHANGED <<callVars, requests, limit, resultVars>>,
         \/ stop' = stop /\ grace' = grace
         \/ w[1] = "probe" /\ r.found /\ stop' = TRUE /\ grace' = Grace
  PROVE  \E q \in ThreadState : Steps(w, q)
<1>1. requests' \in Nat /\ requests' <= limit
  BY DEF TypeOK
<1> QED  BY <1>1 DEF Steps, callVars, resultVars

LEMMA OverState ==
  ASSUME TypeOK, NEW w \in ProbeThreads, NEW s \in {"over", "cut", "raised"}, Over(w, s)
  PROVE  \E r \in ThreadState :
           /\ thread' = [thread EXCEPT ![w] = r]
           /\ r.state = s /\ r.deadline = thread[w].deadline /\ r.found = thread[w].found
<1> DEFINE t == thread[w]
           r == [t EXCEPT !.state = s, !.waits = 0]
<1>1. thread \in [ProbeThreads -> ThreadState] /\ t \in ThreadState
  BY DEF TypeOK
<1>2. thread' = [thread EXCEPT ![w] = r]
  BY <1>1 DEF Over
<1>3. r \in ThreadState /\ r.state = s /\ r.deadline = t.deadline /\ r.found = t.found
  BY <1>1 DEF ThreadState
<1> HIDE DEF r
<1> QED  BY <1>2, <1>3

LEMMA OverSteps ==
  ASSUME TypeOK, NEW w \in ProbeThreads, Running(w), NEW s \in {"over", "cut", "raised"}, Over(w, s),
         s = "cut" => w[1] = "probe" /\ stop /\ ~thread[w].found,
         resolved' \subseteq Redirects, UNCHANGED <<callVars, requests, limit, resultVars>>,
         \/ stop' = stop /\ grace' = grace
         \/ w[1] = "probe" /\ thread[w].found /\ stop' = TRUE /\ grace' = Grace
  PROVE  \E q \in ThreadState : Steps(w, q)
<1>1. PICK r \in ThreadState :
           /\ thread' = [thread EXCEPT ![w] = r]
           /\ r.state = s /\ r.deadline = thread[w].deadline /\ r.found = thread[w].found
  BY OverState
<1> QED  BY <1>1, QuietSteps

(* Each step of the threads that look at d is one of these.                   *)
LEMMA ThreadSteps ==
  ASSUME TypeOK, NEW d \in Domains, ThreadStep(d)
  PROVE  \E w \in ProbeThreads : \E r \in ThreadState : Steps(w, r)
<1> DEFINE a == <<"resolve", d>>
           b == <<"probe", d>>
           c == <<"verify", d>>
<1>0. a \in ProbeThreads /\ b \in ProbeThreads /\ c \in ProbeThreads /\ b[1] = "probe"
  BY DEF ProbeThreads
<1>t. thread \in [ProbeThreads -> ThreadState] /\ resolved \subseteq Redirects
  BY DEF TypeOK
<1> SUFFICES \/ \E r \in ThreadState : Steps(a, r)
             \/ \E r \in ThreadState : Steps(b, r)
             \/ \E r \in ThreadState : Steps(c, r)
  BY <1>0
<1> USE DEF callVars, sharedVars, resultVars
<1>1. CASE AskRoot(d)
  BY <1>0, <1>1, GetSteps DEF AskRoot
<1>2. CASE RootRefused(d)
  BY <1>0, <1>t, <1>2, OverSteps DEF RootRefused, Running
<1>3. CASE RootFails(d)
  <2>1. CASE MayAskRoot(a)
    <3> DEFINE t == thread[a]
               r == [t EXCEPT !.state = "ready", !.waits = 0]
    <3>1. thread' = [thread EXCEPT ![a] = r]
      <4>1. thread' = [thread EXCEPT ![a].state = "ready", ![a].waits = 0]
        BY <1>3, <2>1 DEF RootFails
      <4> QED  BY <1>0, <1>t, <4>1
    <3>2. r \in ThreadState /\ r.state = "ready" /\ r.deadline = t.deadline /\ r.found = t.found
      BY <1>0, <1>t DEF ThreadState
    <3> HIDE DEF r
    <3> QED  BY <1>0, <1>t, <1>3, <3>1, <3>2, QuietSteps DEF RootFails, Running
  <2>2. CASE ~MayAskRoot(a)
    BY <1>0, <1>t, <1>3, <2>2, OverSteps DEF RootFails, Running
  <2> QED  BY <2>1, <2>2
<1>4. CASE RootAnswers(d)
  <2>1. resolved' \subseteq Redirects
    BY <1>t, <1>4 DEF RootAnswers
  <2> QED  BY <1>0, <1>4, <2>1, OverSteps DEF RootAnswers, Running
<1>5. CASE AskSite(d)
  BY <1>0, <1>5, GetSteps DEF AskSite
<1>6. CASE NextSurface(d)
  <2> DEFINE t == thread[b]
             r == [t EXCEPT !.surface = @ + 1, !.asked = 0]
  <2>1. t \in ThreadState /\ t.surface \in 1 .. Len(Surfaces) /\ t.surface < Len(Surfaces) /\ t.state = "ready"
    BY <1>0, <1>t, <1>6 DEF NextSurface, ThreadState
  <2>2. t.surface + 1 \in 1 .. Len(Surfaces)
    BY <2>1, ProbeBounds
  <2>3. thread' = [thread EXCEPT ![b] = r]
    <3>1. thread' = [thread EXCEPT ![b].surface = @ + 1, ![b].asked = 0]
      BY <1>6 DEF NextSurface
    <3> QED  BY <1>0, <1>t, <3>1
  <2>4. r \in ThreadState /\ r.state = "ready" /\ r.deadline = t.deadline /\ r.found = t.found
    <3>1. r = [t EXCEPT !.surface = t.surface + 1, !.asked = 0]
      BY <2>1 DEF ThreadState
    <3> QED  BY <2>1, <2>2, <3>1 DEF ThreadState
  <2> HIDE DEF r
  <2> QED  BY <1>0, <1>t, <1>6, <2>1, <2>3, <2>4, QuietSteps DEF NextSurface, Running
<1>7. CASE SiteAnswers(d)
  <2>1. PICK found \in BOOLEAN :
          thread' = [thread EXCEPT ![b].state = "ready", ![b].waits = 0,
                                   ![b].found = @ \/ (found /\ ~ReadsStructure(b))]
    BY <1>7 DEF SiteAnswers
  <2> DEFINE t == thread[b]
             f == t.found \/ (found /\ ~ReadsStructure(b))
             r == [t EXCEPT !.state = "ready", !.waits = 0, !.found = f]
  <2>2. t \in ThreadState /\ f \in BOOLEAN /\ (t.found => f)
    BY <1>0, <1>t DEF ThreadState
  <2>3. thread' = [thread EXCEPT ![b] = r]
    BY <1>0, <1>t, <2>1
  <2> HIDE DEF f
  <2>4. r \in ThreadState /\ r.state = "ready" /\ r.deadline = t.deadline /\ r.found = f
    BY <2>2 DEF ThreadState
  <2> HIDE DEF r
  <2> QED  BY <1>0, <1>t, <1>7, <2>2, <2>3, <2>4, QuietSteps DEF SiteAnswers, Running
<1>8. CASE SiteRefused(d)
  <2>1. CASE CutOff(b)
    BY <1>0, <1>t, <1>8, <2>1, OverSteps DEF SiteRefused, Running, CutOff
  <2>2. CASE ~CutOff(b)
    BY <1>0, <1>t, <1>8, <2>2, OverSteps DEF SiteRefused, Running
  <2> QED  BY <2>1, <2>2
<1>9. CASE ProbeEnds(d)
  <2>1. CASE thread[b].found /\ ~Quick /\ ~stop
    BY <1>0, <1>t, <1>9, <2>1, OverSteps DEF ProbeEnds, Running
  <2>2. CASE ~(thread[b].found /\ ~Quick /\ ~stop)
    BY <1>0, <1>t, <1>9, <2>2, OverSteps DEF ProbeEnds, Running
  <2> QED  BY <2>1, <2>2
<1>10. CASE ProbeRaises(d)
  BY <1>0, <1>t, <1>10, OverSteps DEF ProbeRaises
<1>11. CASE AskPage(d)
  BY <1>0, <1>11, GetSteps DEF AskPage
<1>12. CASE Verified(d)
  BY <1>0, <1>t, <1>12, OverSteps DEF Verified, Running
<1>13. CASE PageLost(d)
  BY <1>0, <1>t, <1>13, OverSteps DEF PageLost, Running
<1> QED
  BY <1>1, <1>2, <1>3, <1>4, <1>5, <1>6, <1>7, <1>8, <1>9, <1>10, <1>11, <1>12, <1>13 DEF ThreadStep

LEMMA ThreadKeeps ==
  ASSUME ProbeInv, NEW w \in ProbeThreads, NEW r \in ThreadState, Steps(w, r)
  PROVE  ProbeInv'
<1> USE DEF Steps
<1>0. /\ thread \in [ProbeThreads -> ThreadState] /\ thread' \in [ProbeThreads -> ThreadState]
      /\ thread'[w] = r /\ \A v \in ProbeThreads \ {w} : thread'[v] = thread[v]
  BY DEF ProbeInv, TypeOK
<1>1. TypeOK'
  <2>1. stop' \in BOOLEAN /\ grace' \in 0 .. Grace
    <3>1. stop \in BOOLEAN /\ grace \in 0 .. Grace /\ Grace \in 0 .. Grace
      BY ProbeBounds DEF ProbeInv, TypeOK
    <3>2. CASE stop' = stop /\ grace' = grace
      BY <3>1, <3>2
    <3>3. CASE stop' = TRUE /\ grace' = Grace
      BY <3>1, <3>3
    <3> QED  BY <3>2, <3>3
  <2>2. requests' \in Nat /\ limit' \in Nat /\ requests' <= limit' /\ resolved' \subseteq Redirects
    BY DEF ProbeInv, TypeOK
  <2> QED  BY <1>0, <2>1, <2>2 DEF ProbeInv, TypeOK
<1>2. WaitInv'
  <2>1. \A v \in ProbeThreads : DeadlineOf(v[1])' = DeadlineOf(v[1])
    BY DEF DeadlineOf, LatestVerify, HardDeadline
  <2>2. /\ thread'[w].deadline <= DeadlineOf(w[1])
        /\ r.state = "waiting" => clock + r.waits <= r.deadline + Overrun
    BY <1>0 DEF ProbeInv, WaitInv
  <2> QED  BY <1>0, <2>1, <2>2 DEF ProbeInv, WaitInv
<1>3. StageInv' /\ LimitInv'
  BY DEF ProbeInv, StageInv, LimitInv, LatestVerify, HardDeadline
<1>4. \A d \in Domains : thread[<<"probe", d>>].found => thread'[<<"probe", d>>].found
  BY <1>0 DEF ProbeThreads
<1>5. StopInv'
  <2>1. ASSUME NEW d \in Domains, Running(<<"probe", d>>)' PROVE stage = "probing"
    <3>1. Running(<<"probe", d>>)
      BY <1>0, <2>1 DEF Running, ProbeThreads
    <3> QED  BY <3>1 DEF ProbeInv, StopInv
  <2>2. ASSUME stop', phase # "idle"
        PROVE  stage # "resolving" /\ \E e \in Domains : thread'[<<"probe", e>>].found
    <3>1. CASE stop' = stop
      BY <1>4, <2>2, <3>1 DEF ProbeInv, StopInv
    <3>2. CASE w[1] = "probe" /\ r.found
      <4>1. PICK e \in Domains : w = <<"probe", e>>
        BY <3>2 DEF ProbeThreads
      <4>2. stage = "probing"
        BY <4>1 DEF ProbeInv, StopInv
      <4> QED  BY <1>0, <3>2, <4>1, <4>2
    <3> QED  BY <3>1, <3>2
  <2> QED  BY <2>1, <2>2 DEF StopInv
<1>6. CutBySibling'
  <2> SUFFICES ASSUME NEW d \in Domains, thread'[<<"probe", d>>].state = "cut"
               PROVE  \E e \in Domains \ {d} : thread'[<<"probe", e>>].found
    BY DEF CutBySibling
  <2>1. CASE w = <<"probe", d>>
    <3>1. stop /\ ~thread[w].found
      BY <1>0, <2>1
    <3>2. stage = "probing"
      BY <2>1 DEF ProbeInv, StopInv
    <3>3. PICK e \in Domains : thread[<<"probe", e>>].found
      BY <3>1, <3>2 DEF ProbeInv, StopInv, StageInv
    <3> QED  BY <1>4, <2>1, <3>1, <3>3
  <2>2. CASE w # <<"probe", d>>
    <3>1. thread[<<"probe", d>>].state = "cut"
      BY <1>0, <2>2 DEF ProbeThreads
    <3> QED  BY <1>4, <3>1 DEF ProbeInv, CutBySibling
  <2> QED  BY <2>1, <2>2
<1> QED  BY <1>1, <1>2, <1>3, <1>5, <1>6 DEF ProbeInv

-----------------------------------------------------------------------------
(* The calling thread                                                       *)

(* Threads that begin are ready and have found nothing; those of other kinds   *)
(* stay as they are.                                                         *)
LEMMA StartedState ==
  ASSUME TypeOK, NEW kind \in {"resolve", "verify"}, NEW ds \in SUBSET Domains, NEW deadline \in Nat,
         thread' = Started(kind, ds, deadline, 0)
  PROVE  /\ thread' \in [ProbeThreads -> ThreadState]
         /\ \A w \in ProbeThreads :
              \/ thread'[w] = thread[w]
              \/ w[1] = kind /\ thread'[w].state \in {"none", "ready"} /\ thread'[w].deadline \in {0, deadline}
<1> DEFINE r == [NoThread EXCEPT !.state = "ready", !.deadline = deadline, !.counted = 0]
<1>1. r \in ThreadState /\ r.state = "ready" /\ r.deadline = deadline
  BY NoThreadType DEF ThreadState, NoThread
<1>2. NoThread \in ThreadState /\ NoThread.state = "none" /\ NoThread.deadline = 0
  BY NoThreadType DEF NoThread
<1>3. thread' = [w \in ProbeThreads |->
                   IF w[1] = kind /\ w[2] \in ds THEN r
                   ELSE IF w[1] = kind /\ ~Running(w) THEN NoThread ELSE thread[w]]
  BY DEF Started
<1> HIDE DEF r
<1>4. thread \in [ProbeThreads -> ThreadState]
  BY DEF TypeOK
<1> QED  BY <1>1, <1>2, <1>3, <1>4

LEMMA Allowance ==
  \A n \in Nat : /\ (n + 1) * ExtraRequests = n * ExtraRequests + ExtraRequests
                 /\ n * ExtraRequests \in Nat
  BY ProbeBounds

LEMMA Grants ==
  ASSUME TypeOK, LimitInv
  PROVE  /\ calls \in Nat /\ requests <= limit /\ limit <= MaxRequests + calls * ExtraRequests
         /\ phase = "primary" => limit + ExtraRequests <= MaxRequests + calls * ExtraRequests
<1>1. calls \in Nat /\ limit \in Nat /\ requests \in Nat /\ requests <= limit
  BY ProbeBounds DEF TypeOK
<1>2. CASE phase = "primary"
  <2>1. calls - 1 \in Nat /\ limit <= MaxRequests + (calls - 1) * ExtraRequests
    BY <1>1, <1>2 DEF LimitInv
  <2>2. calls * ExtraRequests = (calls - 1) * ExtraRequests + ExtraRequests
    BY <2>1, Allowance, <1>1
  <2>3. (calls - 1) * ExtraRequests \in Nat
    BY <2>1, Allowance
  <2> DEFINE x == (calls - 1) * ExtraRequests
             y == calls * ExtraRequests
  <2>4. x \in Nat /\ y = x + ExtraRequests /\ limit <= MaxRequests + x
    BY <2>1, <2>2, <2>3
  <2> HIDE DEF x, y
  <2>5. limit <= MaxRequests + y /\ limit + ExtraRequests <= MaxRequests + y
    BY <1>1, <2>4, ProbeBounds
  <2> QED  BY <1>1, <2>5 DEF y
<1>3. CASE phase # "primary"
  BY <1>1, <1>3 DEF LimitInv
<1> QED  BY <1>2, <1>3

LEMMA CallBegins == ASSUME ProbeInv, Discover PROVE ProbeInv'
<1> DEFINE first == Started("resolve", Brand, PrimaryDeadline, 0)
           r == [NoThread EXCEPT !.state = "ready", !.deadline = PrimaryDeadline, !.counted = 0]
           later(w) == [thread[w] EXCEPT !.deadline = Larger(@ - clock, 0)]
<1>f. /\ clock' = 0 /\ waited' = 0 /\ phase = "idle" /\ phase' = "primary" /\ stage' = "resolving"
      /\ stop' = FALSE /\ grace' = 0 /\ calls < MaxCalls /\ calls' = calls + 1
      /\ resolved' = resolved /\ requests' = requests /\ limit' = limit /\ exact' = exact /\ records' = records
  BY DEF Discover, Called, NoStop
<1>0. thread \in [ProbeThreads -> ThreadState] /\ clock \in Nat /\ calls \in Nat
  BY ProbeBounds DEF ProbeInv, TypeOK
<1>1. r \in ThreadState /\ r.state = "ready" /\ r.deadline = PrimaryDeadline
  BY NoThreadType, ProbeBounds DEF ThreadState, NoThread
<1>2. \A w \in ProbeThreads : w \in {"resolve"} \X Brand => first[w] = r
  BY DEF Started
<1>3. \A w \in ProbeThreads : thread'[w] = IF w \in {"resolve"} \X Brand THEN r ELSE later(w)
  BY <1>2 DEF Discover, Called
<1>4. ASSUME NEW w \in ProbeThreads
      PROVE  /\ later(w) \in ThreadState
             /\ later(w).state = thread[w].state /\ later(w).found = thread[w].found
             /\ later(w).waits = thread[w].waits
             /\ later(w).deadline <= thread[w].deadline /\ thread[w].deadline - clock <= later(w).deadline
  <2> DEFINE x == Larger(thread[w].deadline - clock, 0)
  <2>1. thread[w] \in ThreadState /\ thread[w].deadline \in Nat
    BY <1>0 DEF ThreadState
  <2>2. x \in Nat /\ x <= thread[w].deadline /\ thread[w].deadline - clock <= x
    BY <1>0, <2>1 DEF Larger
  <2>3. later(w) = [thread[w] EXCEPT !.deadline = x]
    BY <2>1 DEF ThreadState
  <2> HIDE DEF x
  <2> QED  BY <2>1, <2>2, <2>3 DEF ThreadState
<1> HIDE DEF r, later
<1>5. thread' \in [ProbeThreads -> ThreadState]
  <2>1. thread' = [w \in ProbeThreads |-> thread'[w]]
    BY DEF Discover, Called
  <2>2. \A w \in ProbeThreads : thread'[w] \in ThreadState
    BY <1>1, <1>3, <1>4
  <2> QED  BY <2>1, <2>2
<1>6. TypeOK'
  <2>1. 0 \in 0 .. LastMoment /\ 0 \in 0 .. Grace /\ calls' \in 0 .. MaxCalls
    BY <1>f, <1>0, ProbeBounds
  <2> QED  BY <1>f, <1>5, <2>1 DEF ProbeInv, TypeOK
<1>7. WaitInv'
  <2> SUFFICES ASSUME NEW w \in ProbeThreads
               PROVE  /\ thread'[w].deadline <= DeadlineOf(w[1])
                      /\ thread'[w].state = "waiting" =>
                           0 + thread'[w].waits <= thread'[w].deadline + Overrun
    BY <1>f DEF WaitInv
  <2>1. CASE w \in {"resolve"} \X Brand
    BY <1>1, <1>3, <2>1, ProbeBounds DEF DeadlineOf
  <2>2. CASE w \notin {"resolve"} \X Brand
    <3>1. /\ thread[w].deadline <= DeadlineOf(w[1]) /\ DeadlineOf(w[1]) \in Nat
          /\ thread[w].state = "waiting" => clock + thread[w].waits <= thread[w].deadline + Overrun
          /\ thread[w].deadline \in Nat /\ thread[w].waits \in Nat
      <4>1. thread[w].deadline \in Nat /\ thread[w].waits \in Nat
        BY <1>0 DEF ThreadState
      <4>2. DeadlineOf(w[1]) \in Nat
        BY ProbeBounds DEF DeadlineOf
      <4> QED  BY <4>1, <4>2 DEF ProbeInv, WaitInv
    <3>2. thread'[w] = later(w) /\ later(w).deadline \in Nat
      BY <1>3, <1>4, <2>2 DEF ThreadState
    <3>3. later(w).deadline <= DeadlineOf(w[1])
      BY <1>4, <3>1, <3>2
    <3>4. ASSUME thread[w].state = "waiting" PROVE thread[w].waits <= later(w).deadline + Overrun
      BY <1>0, <1>4, <3>1, <3>2, <3>4, ProbeBounds
    <3> QED  BY <1>4, <3>1, <3>2, <3>3, <3>4
  <2> QED  BY <2>1, <2>2
<1>8. StageInv'
  BY <1>f, ProbeBounds DEF ProbeInv, StageInv
<1>9. LimitInv'
  <2>1. limit' = limit /\ calls' - 1 = calls /\ calls' > 0 /\ phase' = "primary"
    BY <1>f, <1>0
  <2>2. limit <= MaxRequests + calls * ExtraRequests
    BY Grants DEF ProbeInv
  <2> QED  BY <2>1, <2>2 DEF LimitInv
<1>10. \A d \in Domains : /\ thread'[<<"probe", d>>].state = thread[<<"probe", d>>].state
                          /\ thread'[<<"probe", d>>].found = thread[<<"probe", d>>].found
  BY <1>3, <1>4 DEF ProbeThreads
<1>11. StopInv' /\ CutBySibling'
  BY <1>f, <1>10 DEF ProbeInv, StopInv, StageInv, CutBySibling, Running
<1> QED  BY <1>6, <1>7, <1>8, <1>9, <1>11 DEF ProbeInv

LEMMA WindowCloses == ASSUME ProbeInv, CloseWindow PROVE ProbeInv'
<1>0. thread \in [ProbeThreads -> ThreadState]
  BY DEF ProbeInv, TypeOK
<1>1. PhaseDeadline \in Nat /\ PhaseDeadline <= HardDeadline
  BY ProbeBounds DEF PhaseDeadline
<1>2. PICK taken \in SUBSET Roots : \E linked \in SUBSET taken :
        thread' = [w \in ProbeThreads |->
              IF w[1] = "probe" /\ w[2] \in taken
              THEN [NoThread EXCEPT !.state = "ready", !.deadline = PhaseDeadline,
                                    !.counted = 1, !.found = w[2] \in linked]
              ELSE IF w[1] = "probe" THEN NoThread ELSE thread[w]]
  BY DEF CloseWindow
<1>p. PICK linked \in SUBSET taken :
        thread' = [w \in ProbeThreads |->
              IF w[1] = "probe" /\ w[2] \in taken
              THEN [NoThread EXCEPT !.state = "ready", !.deadline = PhaseDeadline,
                                    !.counted = 1, !.found = w[2] \in linked]
              ELSE IF w[1] = "probe" THEN NoThread ELSE thread[w]]
  BY <1>2
<1>3. ASSUME NEW w \in ProbeThreads
      PROVE  /\ thread'[w] \in ThreadState
             /\ w[1] # "probe" => thread'[w] = thread[w]
             /\ w[1] = "probe" => thread'[w].state \in {"none", "ready"} /\ thread'[w].deadline \in {0, PhaseDeadline}
  <2> DEFINE r == [NoThread EXCEPT !.state = "ready", !.deadline = PhaseDeadline,
                                   !.counted = 1, !.found = w[2] \in linked]
  <2>1. r \in ThreadState /\ r.state = "ready" /\ r.deadline = PhaseDeadline
    <3> DEFINE f == w[2] \in linked
    <3>1. f \in BOOLEAN
      OBVIOUS
    <3> HIDE DEF f
    <3>2. r = [NoThread EXCEPT !.state = "ready", !.deadline = PhaseDeadline, !.counted = 1, !.found = f]
      BY DEF f
    <3> HIDE DEF r
    <3> QED  BY <1>1, <3>1, <3>2, NoThreadType DEF ThreadState
  <2>2. NoThread \in ThreadState /\ NoThread.state = "none" /\ NoThread.deadline = 0
    BY NoThreadType DEF NoThread
  <2>3. thread'[w] = IF w[1] = "probe" /\ w[2] \in taken THEN r
                     ELSE IF w[1] = "probe" THEN NoThread ELSE thread[w]
    BY <1>p
  <2> HIDE DEF r
  <2> QED  BY <1>0, <2>1, <2>2, <2>3
<1>4. thread' \in [ProbeThreads -> ThreadState]
  BY <1>p, <1>3
<1>5. phase' = phase /\ clock' = clock /\ waited' = waited /\ resolved' = resolved
      /\ UNCHANGED <<requests, limit, stop, grace, exact, records, calls>> /\ stage = "resolving" /\ stage' = "probing"
  BY DEF CloseWindow, sharedVars, resultVars
<1>6. TypeOK'
  BY <1>4, <1>5 DEF ProbeInv, TypeOK
<1>7. WaitInv'
  <2> SUFFICES ASSUME NEW w \in ProbeThreads
               PROVE  /\ thread'[w].deadline <= DeadlineOf(w[1])
                      /\ thread'[w].state = "waiting" =>
                           clock + thread'[w].waits <= thread'[w].deadline + Overrun
    BY <1>5 DEF WaitInv
  <2>1. CASE w[1] = "probe"
    <3>1. DeadlineOf(w[1]) = HardDeadline
      BY <2>1 DEF DeadlineOf
    <3>2. thread'[w].state # "waiting" /\ thread'[w].deadline <= HardDeadline
      BY <1>1, <1>3, <2>1, ProbeBounds
    <3> QED  BY <3>1, <3>2
  <2>2. CASE w[1] # "probe"
    BY <1>3, <2>2 DEF ProbeInv, WaitInv
  <2> QED  BY <2>1, <2>2
<1>8. StageInv' /\ LimitInv'
  BY <1>5 DEF ProbeInv, StageInv, LimitInv
<1>9. StopInv' /\ CutBySibling'
  <2>1. ASSUME NEW d \in Domains PROVE thread'[<<"probe", d>>].state # "cut"
    <3>1. <<"probe", d>> \in ProbeThreads /\ <<"probe", d>>[1] = "probe"
      BY DEF ProbeThreads
    <3> QED  BY <1>3, <3>1
  <2> QED  BY <1>5, <2>1 DEF ProbeInv, StopInv, StageInv, CutBySibling
<1> QED  BY <1>6, <1>7, <1>8, <1>9 DEF ProbeInv

LEMMA CallEnds ==
  ASSUME ProbeInv, Leave, \A d \in Domains : ~Running(<<"probe", d>>),
         records' \in {NotYet} \cup SUBSET Domains
  PROVE  ProbeInv'
<1> USE DEF Leave
<1>0. thread \in [ProbeThreads -> ThreadState]
  BY DEF ProbeInv, TypeOK
<1>1. thread' \in [ProbeThreads -> ThreadState]
  BY <1>0, NoThreadType
<1>2. TypeOK'
  BY <1>1, ProbeBounds DEF ProbeInv, TypeOK, sharedVars
<1>3. \A w \in ProbeThreads : thread'[w] \in {thread[w], NoThread}
  OBVIOUS
<1>4. NoThread.state = "none" /\ NoThread.deadline = 0
  BY DEF NoThread
<1>5. WaitInv'
  <2>1. \A w \in ProbeThreads : DeadlineOf(w[1]) \in Nat
    BY ProbeBounds DEF DeadlineOf
  <2> QED  BY <1>3, <1>4, <2>1 DEF ProbeInv, WaitInv
<1>6. StageInv'
  BY ProbeBounds DEF ProbeInv, StageInv, TypeOK
<1>7. LimitInv'
  BY Grants DEF ProbeInv, LimitInv, sharedVars
<1>8. \A d \in Domains : thread'[<<"probe", d>>] = NoThread
  BY DEF ProbeThreads
<1>9. StopInv' /\ CutBySibling'
  BY <1>4, <1>8 DEF StopInv, CutBySibling, Running
<1> QED  BY <1>2, <1>5, <1>6, <1>7, <1>9 DEF ProbeInv

(* What starting threads of a kind leaves true of all of them.                *)
LEMMA StartKeeps ==
  ASSUME ProbeInv, NEW kind \in {"resolve", "verify"}, NEW ds \in SUBSET Domains, NEW deadline \in Nat,
         deadline <= DeadlineOf(kind), thread' = Started(kind, ds, deadline, 0), clock' = clock,
         \A d \in Domains : ~Running(<<"probe", d>>)
  PROVE  /\ thread' \in [ProbeThreads -> ThreadState] /\ WaitInv' /\ CutBySibling'
         /\ \A d \in Domains : ~Running(<<"probe", d>>)' /\ thread'[<<"probe", d>>] = thread[<<"probe", d>>]
<1>1. /\ thread' \in [ProbeThreads -> ThreadState]
      /\ \A w \in ProbeThreads :
           \/ thread'[w] = thread[w]
           \/ w[1] = kind /\ thread'[w].state \in {"none", "ready"} /\ thread'[w].deadline \in {0, deadline}
  BY StartedState DEF ProbeInv
<1>2. WaitInv'
  <2> SUFFICES ASSUME NEW w \in ProbeThreads
               PROVE  /\ thread'[w].deadline <= DeadlineOf(w[1])
                      /\ thread'[w].state = "waiting" =>
                           clock + thread'[w].waits <= thread'[w].deadline + Overrun
    BY DEF WaitInv, DeadlineOf, LatestVerify, HardDeadline
  <2>1. CASE thread'[w] = thread[w]
    BY <2>1 DEF ProbeInv, WaitInv
  <2>2. CASE w[1] = kind /\ thread'[w].state \in {"none", "ready"} /\ thread'[w].deadline \in {0, deadline}
    <3>1. DeadlineOf(kind) \in Nat
      BY ProbeBounds DEF DeadlineOf
    <3> QED  BY <2>2, <3>1
  <2> QED  BY <1>1, <2>1, <2>2
<1>3. ASSUME NEW d \in Domains PROVE thread'[<<"probe", d>>] = thread[<<"probe", d>>]
  <2>1. <<"probe", d>> \in ProbeThreads /\ <<"probe", d>>[1] # kind
    BY DEF ProbeThreads
  <2> QED  BY <1>1, <2>1
<1>4. CutBySibling' /\ \A d \in Domains : ~Running(<<"probe", d>>)'
  BY <1>3 DEF ProbeInv, CutBySibling, Running
<1> QED  BY <1>1, <1>2, <1>3, <1>4

LEMMA VerifyBegins ==
  ASSUME ProbeInv, NEW pages \in SUBSET Domains, Verify(pages), phase # "idle", clock <= LatestVerify,
         \A d \in Domains : ~Running(<<"probe", d>>),
         UNCHANGED <<phase, clock, waited, resolved, sharedVars, records, calls>>
  PROVE  ProbeInv'
<1> DEFINE deadline == Larger(PrimaryDeadline, clock) + VerifyTime
<1>0. clock \in Nat
  BY ProbeBounds DEF ProbeInv, TypeOK
<1>1. deadline \in Nat /\ deadline <= DeadlineOf("verify")
  BY <1>0, ProbeBounds DEF Larger, DeadlineOf
<1>2. PICK some \in SUBSET pages : thread' = Started("verify", some, deadline, 0)
  BY DEF Verify
<1> HIDE DEF deadline
<1>3. /\ thread' \in [ProbeThreads -> ThreadState] /\ WaitInv' /\ CutBySibling'
      /\ \A d \in Domains : ~Running(<<"probe", d>>)' /\ thread'[<<"probe", d>>] = thread[<<"probe", d>>]
  BY <1>1, <1>2, StartKeeps
<1>4. stage' = "verifying" /\ exact' = pages
  BY DEF Verify
<1>5. TypeOK'
  BY <1>3, <1>4 DEF ProbeInv, TypeOK, sharedVars
<1>6. StageInv' /\ LimitInv'
  BY <1>4 DEF ProbeInv, StageInv, LimitInv, sharedVars
<1>7. StopInv'
  BY <1>3, <1>4 DEF ProbeInv, StopInv, sharedVars
<1> QED  BY <1>3, <1>5, <1>6, <1>7 DEF ProbeInv

LEMMA EnoughKeeps == ASSUME ProbeInv, Enough PROVE ProbeInv'
<1>1. \A d \in Domains : ~Running(<<"probe", d>>)
  BY DEF Enough, Probed
<1>2. phase # "idle" /\ clock <= LatestVerify
  BY ProbeBounds DEF Enough, Probed, ProbeInv, StageInv, TypeOK
<1>3. (IF Raised THEN {} ELSE Found) \in SUBSET Domains
  BY DEF Found
<1> QED  BY <1>1, <1>2, <1>3, VerifyBegins DEF Enough

(* The widening's allowance fits into what the call is given.                 *)
LEMMA Widened ==
  ASSUME ProbeInv, Widen, requests' = requests, calls' = calls, phase' # "primary"
  PROVE  LimitInv' /\ limit' \in Nat /\ requests' <= limit' /\ clock <= HardDeadline
<1>1. phase = "primary" /\ limit' = requests + ExtraRequests /\ clock < HardDeadline - LeastWiden
  BY DEF Widen, MayWiden
<1>2. requests \in Nat /\ limit \in Nat /\ requests <= limit /\ clock \in Nat
  BY ProbeBounds DEF ProbeInv, TypeOK
<1>3. limit + ExtraRequests <= MaxRequests + calls * ExtraRequests
  BY <1>1, Grants DEF ProbeInv
<1>4. calls \in Nat /\ calls * ExtraRequests \in Nat /\ calls > 0
  BY <1>1, ProbeBounds, Allowance DEF ProbeInv, TypeOK, LimitInv
<1> DEFINE x == calls * ExtraRequests
<1>5. limit' <= MaxRequests + x
  <2>1. x \in Nat /\ limit + ExtraRequests <= MaxRequests + x
    BY <1>3, <1>4
  <2> HIDE DEF x
  <2> QED  BY <1>1, <1>2, <2>1, ProbeBounds
<1>6. LimitInv'
  BY <1>4, <1>5 DEF LimitInv
<1>7. clock <= HardDeadline
  BY <1>1, <1>2, ProbeBounds, ProbeAssumption DEF ProbeAssumption
<1> QED  BY <1>1, <1>2, <1>6, <1>7, ProbeBounds

LEMMA FamilyKeeps == ASSUME ProbeInv, ProbeFamily PROVE ProbeInv'
<1>0. /\ Widen /\ phase' = "family" /\ stage' = "resolving" /\ waited' = 0 /\ resolved' = {}
      /\ stop' = FALSE /\ grace' = 0 /\ clock' = clock /\ requests' = requests
      /\ exact' = exact /\ records' = records /\ calls' = calls
  BY DEF ProbeFamily, NoStop, resultVars
<1>1. \A d \in Domains : ~Running(<<"probe", d>>)
  BY <1>0 DEF Widen, Probed
<1>2. PICK family \in SUBSET Family : thread' = Started("resolve", family, HardDeadline, 0)
  BY DEF ProbeFamily
<1>3. family \in SUBSET Domains /\ HardDeadline \in Nat /\ HardDeadline <= DeadlineOf("resolve")
  BY ProbeBounds DEF Domains, DeadlineOf
<1>4. /\ thread' \in [ProbeThreads -> ThreadState] /\ WaitInv' /\ CutBySibling'
      /\ \A d \in Domains : ~Running(<<"probe", d>>)' /\ thread'[<<"probe", d>>] = thread[<<"probe", d>>]
  BY <1>0, <1>1, <1>2, <1>3, StartKeeps
<1>5. LimitInv' /\ limit' \in Nat /\ requests' <= limit' /\ clock <= HardDeadline
  BY <1>0, Widened
<1>6. TypeOK'
  <2>1. 0 \in 0 .. LastMoment /\ 0 \in 0 .. Grace
    BY ProbeBounds
  <2> QED  BY <1>0, <1>4, <1>5, <2>1 DEF ProbeInv, TypeOK
<1>7. StageInv'
  <2>1. clock \in Nat
    BY ProbeBounds DEF ProbeInv, TypeOK
  <2> QED  BY <1>0, <1>5, <2>1, ProbeBounds DEF StageInv
<1>8. StopInv'
  BY <1>0, <1>4 DEF StopInv
<1> QED  BY <1>4, <1>5, <1>6, <1>7, <1>8 DEF ProbeInv

LEMMA DnsAsked == ASSUME ProbeInv, AskDns PROVE ProbeInv'
<1>0. /\ phase' = "regional" /\ stage' = "dns" /\ waited' = 0 /\ clock' = clock /\ thread' = thread
      /\ resolved' = resolved /\ requests' = requests /\ stop' = stop /\ grace' = grace
      /\ exact' = exact /\ records' = records /\ calls' = calls
  BY DEF AskDns, resultVars
<1>1. Probed /\ Found = {} /\ phase \in {"primary", "family"}
  BY DEF AskDns, Widen
<1>2. LimitInv' /\ limit' \in Nat /\ requests' <= limit'
  <2>1. CASE Widen
    BY <1>0, <2>1, Widened
  <2>2. CASE phase = "family" /\ limit' = limit
    BY <1>0, <2>2 DEF ProbeInv, LimitInv, TypeOK
  <2> QED  BY <2>1, <2>2 DEF AskDns
<1>3. TypeOK'
  <2>1. 0 \in 0 .. LastMoment
    BY ProbeBounds
  <2> QED  BY <1>0, <1>2, <2>1 DEF ProbeInv, TypeOK
<1>4. StageInv'
  <2>1. clock \in Nat /\ clock <= HardDeadline + Overrun
    BY <1>1, ProbeBounds DEF ProbeInv, TypeOK, StageInv, Probed
  <2> QED  BY <1>0, <2>1, ProbeBounds DEF StageInv
<1>5. WaitInv' /\ CutBySibling'
  BY <1>0 DEF ProbeInv, WaitInv, CutBySibling, DeadlineOf, LatestVerify, HardDeadline
<1>6. StopInv'
  BY <1>0, <1>1 DEF ProbeInv, StopInv, Probed, Found, Running
<1> QED  BY <1>2, <1>3, <1>4, <1>5, <1>6 DEF ProbeInv

LEMMA DnsAnswered == ASSUME ProbeInv, DnsAnswers PROVE ProbeInv'
<1>0. /\ stage = "dns" /\ phase' = phase /\ clock' = clock /\ requests' = requests /\ limit' = limit
      /\ records' = records /\ calls' = calls
  BY DEF DnsAnswers
<1>1. phase = "regional" /\ clock \in Nat /\ clock <= LatestVerify
  BY <1>0, ProbeBounds DEF ProbeInv, StageInv, TypeOK, LatestVerify
<1>2. \A d \in Domains : ~Running(<<"probe", d>>)
  BY <1>0 DEF ProbeInv, StopInv
<1>3. PICK live \in SUBSET Regional :
        IF live = {}
        THEN Verify({}) /\ UNCHANGED <<waited, resolved, stop, grace>>
        ELSE /\ thread' = Started("resolve", live, HardDeadline, 0)
             /\ stage' = "resolving" /\ waited' = 0
             /\ resolved' = {} /\ NoStop /\ UNCHANGED exact
  BY DEF DnsAnswers
<1>4. CASE live = {}
  <2>1. Verify({}) /\ UNCHANGED <<waited, resolved, stop, grace>>
    BY <1>3, <1>4
  <2>2. {} \in SUBSET Domains /\ UNCHANGED <<phase, clock, waited, resolved, sharedVars, records, calls>>
    BY <1>0, <2>1 DEF sharedVars
  <2> QED  BY <1>1, <1>2, <2>1, <2>2, VerifyBegins
<1>5. CASE live # {}
  <2>0. /\ thread' = Started("resolve", live, HardDeadline, 0) /\ stage' = "resolving" /\ waited' = 0
        /\ resolved' = {} /\ stop' = FALSE /\ grace' = 0 /\ exact' = exact
    BY <1>3, <1>5 DEF NoStop
  <2>1. live \in SUBSET Domains /\ HardDeadline \in Nat /\ HardDeadline <= DeadlineOf("resolve")
    BY ProbeBounds DEF Domains, DeadlineOf
  <2>2. /\ thread' \in [ProbeThreads -> ThreadState] /\ WaitInv' /\ CutBySibling'
        /\ \A d \in Domains : ~Running(<<"probe", d>>)' /\ thread'[<<"probe", d>>] = thread[<<"probe", d>>]
    BY <1>0, <1>2, <2>0, <2>1, StartKeeps
  <2>3. TypeOK'
    <3>1. 0 \in 0 .. LastMoment /\ 0 \in 0 .. Grace
      BY ProbeBounds
    <3> QED  BY <1>0, <2>0, <2>2, <3>1 DEF ProbeInv, TypeOK
  <2>4. StageInv' /\ LimitInv'
    BY <1>0, <1>1, <2>0 DEF ProbeInv, StageInv, LimitInv
  <2>5. StopInv'
    BY <2>0, <2>2 DEF StopInv
  <2> QED  BY <2>2, <2>3, <2>4, <2>5 DEF ProbeInv
<1> QED  BY <1>4, <1>5

LEMMA NextProduct == ASSUME ProbeInv, ConfigureIdentity PROVE ProbeInv'
<1>0. /\ phase = "idle" /\ calls' = 0 /\ records' = NotYet /\ requests' = 0 /\ limit' = MaxRequests
      /\ phase' = phase /\ stage' = stage /\ clock' = clock /\ waited' = waited /\ thread' = thread
      /\ resolved' = resolved /\ stop' = stop /\ grace' = grace /\ exact' = exact
  BY DEF ConfigureIdentity, callVars
<1>1. TypeOK'
  <2>1. 0 \in 0 .. MaxCalls /\ 0 <= MaxRequests /\ 0 \in Nat
    BY ProbeBounds
  <2> QED  BY <1>0, <2>1, ProbeBounds DEF ProbeInv, TypeOK
<1>2. LimitInv'
  BY <1>0, ProbeBounds DEF LimitInv
<1>3. WaitInv' /\ CutBySibling' /\ StageInv' /\ StopInv'
  BY <1>0 DEF ProbeInv, WaitInv, CutBySibling, StageInv, StopInv, DeadlineOf, LatestVerify, HardDeadline, Running
<1> QED  BY <1>1, <1>2, <1>3 DEF ProbeInv

LEMMA EndKeeps == ASSUME ProbeInv, CallRaises \/ CallReturns PROVE ProbeInv'
<1>1. Probed \/ Looked
  BY DEF CallRaises, CallReturns
<1>2. \A d \in Domains : ~Running(<<"probe", d>>)
  BY <1>1 DEF Probed, Looked, ProbeInv, StopInv
<1>3. Leave /\ records' \in {NotYet} \cup SUBSET Domains
  BY DEF CallRaises, CallReturns, ProbeInv, TypeOK
<1> QED  BY <1>2, <1>3, CallEnds

-----------------------------------------------------------------------------
(* Time                                                                     *)

(* While time passes somebody waits, and whoever waits is given a limit.      *)
LEMMA TimeLeft == ASSUME ProbeInv, Tick PROVE clock + 1 <= LastMoment
<1>0. /\ thread \in [ProbeThreads -> ThreadState] /\ clock \in Nat /\ waited \in Nat
      /\ phase \in {"idle", "primary", "family", "regional"}
      /\ stage \in {"none", "resolving", "probing", "dns", "verifying"}
  BY ProbeBounds DEF ProbeInv, TypeOK
<1>1. ASSUME NEW w \in ProbeThreads, Running(w)
      PROVE  clock + 1 <= DeadlineOf(w[1]) + Overrun
  <2>1. thread[w].state = "waiting" /\ thread[w].waits > 0
    BY <1>1 DEF Tick, Urgent, Running
  <2>2. thread[w].waits \in Nat /\ thread[w].deadline \in Nat
    BY <1>0 DEF ThreadState
  <2>3. clock + thread[w].waits <= thread[w].deadline + Overrun /\ thread[w].deadline <= DeadlineOf(w[1])
    BY <2>1 DEF ProbeInv, WaitInv
  <2>4. DeadlineOf(w[1]) \in Nat
    BY ProbeBounds DEF DeadlineOf
  <2> QED  BY <1>0, <2>1, <2>2, <2>3, <2>4, ProbeBounds
<1>2. ASSUME NEW w \in ProbeThreads, Running(w) PROVE clock + 1 <= LastMoment
  <2>1. DeadlineOf(w[1]) \in Nat /\ DeadlineOf(w[1]) + Overrun <= LastMoment
    BY ProbeBounds DEF DeadlineOf
  <2> QED  BY <1>0, <1>1, <1>2, <2>1, ProbeBounds
<1>3. CASE phase = "idle"
  BY <1>2, <1>3 DEF Tick
<1>4. CASE stage = "resolving"
  <2>1. ~(clock >= PhaseDeadline)
    BY <1>4 DEF Tick, Urgent, WindowOver
  <2>2. PhaseDeadline \in Nat /\ PhaseDeadline <= HardDeadline
    BY ProbeBounds DEF PhaseDeadline
  <2> QED  BY <1>0, <2>1, <2>2, ProbeBounds
<1>5. CASE stage = "probing"
  <2>1. PICK d \in Domains : Running(<<"probe", d>>)
    BY <1>5 DEF Tick, Urgent, Probed
  <2> QED  BY <1>2, <2>1 DEF ProbeThreads
<1>6. CASE stage = "dns"
  <2>1. waited < DnsWait
    BY <1>0, <1>6, ProbeBounds DEF Tick, Urgent
  <2>2. clock <= HardDeadline + Overrun + waited
    BY <1>6 DEF ProbeInv, StageInv
  <2> QED  BY <1>0, <2>1, <2>2, ProbeBounds DEF LatestVerify
<1>7. CASE stage = "verifying"
  <2>1. PICK d \in Domains : Running(<<"verify", d>>)
    BY <1>7 DEF Tick, Urgent, Looked
  <2> QED  BY <1>2, <2>1 DEF ProbeThreads
<1> QED  BY <1>0, <1>3, <1>4, <1>5, <1>6, <1>7 DEF ProbeInv, StageInv

LEMMA TickKeeps == ASSUME ProbeInv, Tick PROVE ProbeInv'
<1>0. /\ phase' = phase /\ stage' = stage /\ resolved' = resolved /\ requests' = requests /\ limit' = limit
      /\ stop' = stop /\ exact' = exact /\ records' = records /\ calls' = calls
      /\ grace' = Larger(grace - 1, 0)
  BY DEF Tick, resultVars
<1>1. /\ thread \in [ProbeThreads -> ThreadState] /\ clock \in Nat /\ waited \in Nat /\ waited <= clock
  BY ProbeBounds DEF ProbeInv, TypeOK, StageInv
<1>2. clock' = clock + 1 /\ waited' = waited + 1 /\ clock + 1 <= LastMoment
  <2>1. clock + 1 <= LastMoment
    BY TimeLeft
  <2>2. clock' = Smaller(clock + 1, LastMoment + 1) /\ waited' = Smaller(waited + 1, LastMoment + 1)
    BY DEF Tick
  <2>3. waited + 1 < LastMoment + 1 /\ clock + 1 < LastMoment + 1
    BY <1>1, <2>1, ProbeBounds
  <2> QED  BY <2>1, <2>2, <2>3 DEF Smaller
<1>3. ASSUME NEW w \in ProbeThreads
      PROVE  /\ thread'[w] \in ThreadState
             /\ thread'[w].state = thread[w].state /\ thread'[w].found = thread[w].found
             /\ thread'[w].deadline = thread[w].deadline
             /\ thread[w].state = "waiting" => thread'[w].waits = thread[w].waits - 1
  <2>1. thread[w] \in ThreadState /\ thread[w].waits \in Nat
    BY <1>1 DEF ThreadState
  <2>2. CASE thread[w].state = "waiting"
    <3>1. thread[w].waits - 1 \in Nat
      BY <2>1, <2>2 DEF Tick
    <3>2. thread'[w] = [thread[w] EXCEPT !.waits = thread[w].waits - 1]
      BY <2>1, <2>2 DEF Tick, ThreadState
    <3> QED  BY <2>1, <2>2, <3>1, <3>2 DEF ThreadState
  <2>3. CASE thread[w].state # "waiting"
    <3>1. thread'[w] = thread[w]
      BY <2>3 DEF Tick
    <3> QED  BY <2>1, <2>3, <3>1
  <2> QED  BY <2>2, <2>3
<1>4. thread' \in [ProbeThreads -> ThreadState]
  <2>1. thread' = [w \in ProbeThreads |-> thread'[w]]
    BY DEF Tick
  <2> QED  BY <1>3, <2>1
<1>5. TypeOK'
  <2>1. grace' \in 0 .. Grace
    BY <1>0, ProbeBounds DEF ProbeInv, TypeOK, Larger
  <2>2. clock' \in 0 .. LastMoment /\ waited' \in 0 .. LastMoment
    BY <1>1, <1>2, ProbeBounds
  <2> QED  BY <1>0, <1>4, <2>1, <2>2 DEF ProbeInv, TypeOK
<1>6. WaitInv'
  <2> SUFFICES ASSUME NEW w \in ProbeThreads
               PROVE  /\ thread'[w].deadline <= DeadlineOf(w[1])
                      /\ thread'[w].state = "waiting" =>
                           clock' + thread'[w].waits <= thread'[w].deadline + Overrun
    BY DEF WaitInv, DeadlineOf, LatestVerify, HardDeadline
  <2>1. thread[w].deadline <= DeadlineOf(w[1]) /\ thread[w].waits \in Nat
    BY <1>1 DEF ProbeInv, WaitInv, ThreadState
  <2>2. ASSUME thread[w].state = "waiting"
        PROVE  clock + 1 + (thread[w].waits - 1) <= thread[w].deadline + Overrun
    <3>1. clock + thread[w].waits <= thread[w].deadline + Overrun
      BY <2>2 DEF ProbeInv, WaitInv
    <3> QED  BY <1>1, <2>1, <3>1
  <2> QED  BY <1>2, <1>3, <2>1, <2>2
<1>7. StageInv'
  <2>1. phase = "idle" <=> stage = "none"
    BY DEF ProbeInv, StageInv
  <2>2. ASSUME stage = "dns"
        PROVE  phase = "regional" /\ waited + 1 <= DnsWait /\ clock + 1 <= HardDeadline + Overrun + (waited + 1)
    <3>1. waited < DnsWait
      BY <1>1, <2>2, ProbeBounds DEF Tick, Urgent
    <3> QED  BY <1>1, <2>2, <3>1, ProbeBounds DEF ProbeInv, StageInv
  <2>3. ASSUME stage = "resolving" PROVE clock + 1 <= HardDeadline
    <3>1. ~(clock >= PhaseDeadline)
      BY <2>3 DEF Tick, Urgent, WindowOver
    <3>2. PhaseDeadline \in Nat /\ PhaseDeadline <= HardDeadline
      BY ProbeBounds DEF PhaseDeadline
    <3> QED  BY <1>1, <3>1, <3>2, ProbeBounds
  <2>4. ASSUME stage = "probing" PROVE clock + 1 <= HardDeadline + Overrun
    <3>1. PICK d \in Domains : Running(<<"probe", d>>)
      BY <2>4 DEF Tick, Urgent, Probed
    <3> DEFINE w == <<"probe", d>>
    <3>2. w \in ProbeThreads /\ w[1] = "probe"
      BY DEF ProbeThreads
    <3>3. thread[w].state = "waiting" /\ thread[w].waits > 0
      BY <3>1, <3>2 DEF Tick, Urgent, Running
    <3>4. /\ thread[w].waits \in Nat /\ thread[w].deadline \in Nat
          /\ clock + thread[w].waits <= thread[w].deadline + Overrun /\ thread[w].deadline <= HardDeadline
      BY <1>1, <3>2, <3>3 DEF ProbeInv, WaitInv, DeadlineOf, ThreadState
    <3> QED  BY <1>1, <3>3, <3>4, ProbeBounds
  <2> QED  BY <1>0, <1>1, <1>2, <2>1, <2>2, <2>3, <2>4, ProbeBounds DEF StageInv
<1>8. LimitInv'
  BY <1>0 DEF ProbeInv, LimitInv
<1>9. \A d \in Domains : /\ thread'[<<"probe", d>>].state = thread[<<"probe", d>>].state
                         /\ thread'[<<"probe", d>>].found = thread[<<"probe", d>>].found
  BY <1>3 DEF ProbeThreads
<1>10. StopInv' /\ CutBySibling'
  BY <1>0, <1>9 DEF ProbeInv, StopInv, CutBySibling, Running
<1> QED  BY <1>5, <1>6, <1>7, <1>8, <1>10 DEF ProbeInv

-----------------------------------------------------------------------------
LEMMA ProbeInvariance == ProbeSpec => []ProbeInv
<1>1. ProbeInit => ProbeInv
  <2> SUFFICES ASSUME ProbeInit PROVE ProbeInv
    OBVIOUS
  <2>1. 0 \in 0 .. LastMoment /\ 0 \in 0 .. Grace /\ 0 \in 0 .. MaxCalls /\ 0 <= MaxRequests
    BY ProbeBounds
  <2>2. TypeOK
    BY <2>1, NoThreadType, ProbeBounds DEF ProbeInit, TypeOK
  <2>3. \A w \in ProbeThreads : thread[w].state = "none" /\ thread[w].deadline = 0 /\ DeadlineOf(w[1]) \in Nat
    BY ProbeBounds DEF ProbeInit, NoThread, DeadlineOf
  <2>4. WaitInv
    BY <2>3 DEF WaitInv
  <2>5. StageInv /\ LimitInv
    BY ProbeBounds DEF ProbeInit, StageInv, LimitInv
  <2>6. ASSUME NEW d \in Domains
        PROVE  ~Running(<<"probe", d>>) /\ thread[<<"probe", d>>].state # "cut"
    <3>1. <<"probe", d>> \in ProbeThreads
      BY DEF ProbeThreads
    <3> QED  BY <2>3, <3>1 DEF Running
  <2>7. StopInv /\ CutBySibling
    BY <2>6 DEF ProbeInit, StopInv, CutBySibling
  <2> QED  BY <2>2, <2>4, <2>5, <2>7 DEF ProbeInv
<1>2. ProbeInv /\ [ProbeNext]_probeVars => ProbeInv'
  <2> SUFFICES ASSUME ProbeInv, [ProbeNext]_probeVars PROVE ProbeInv'
    OBVIOUS
  <2>1. ASSUME NEW d \in Domains, ThreadStep(d) PROVE ProbeInv'
    BY <2>1, ThreadSteps, ThreadKeeps DEF ProbeInv
  <2>2. CASE UNCHANGED probeVars
    BY <2>2 DEF probeVars, callVars, sharedVars, resultVars, ProbeInv, TypeOK, WaitInv, StageInv, LimitInv,
                StopInv, CutBySibling, Running, DeadlineOf, LatestVerify, HardDeadline
  <2> QED
    BY <2>1, <2>2, CallBegins, WindowCloses, EndKeeps, EnoughKeeps, FamilyKeeps, DnsAsked, DnsAnswered,
       NextProduct, TickKeeps DEF ProbeNext
<1> QED  BY <1>1, <1>2, PTL DEF ProbeSpec

(* TypeOK of OfficialProbe, and with it the time of a call: it is over by      *)
(* LastMoment, whatever its threads do and however late DNS answers.          *)
THEOREM ProbeTypeCorrect == ProbeSpec => []TypeOK
<1>1. ProbeInv => TypeOK
  BY DEF ProbeInv
<1> QED  BY <1>1, ProbeInvariance, PTL

(* The requests for one product stay within max_requests and one allowance of  *)
(* extra_phase_requests per call.                                            *)
THEOREM Requests == ProbeSpec => []RequestsBounded
<1>1. ProbeInv => RequestsBounded
  <2> SUFFICES ASSUME ProbeInv PROVE requests <= MaxRequests + calls * ExtraRequests
    BY DEF RequestsBounded
  <2>1. requests \in Nat /\ limit \in Nat /\ calls \in Nat
    BY ProbeBounds DEF ProbeInv, TypeOK
  <2>2. calls * ExtraRequests \in Nat
    BY <2>1, Allowance
  <2>3. requests <= limit /\ limit <= MaxRequests + calls * ExtraRequests
    BY Grants DEF ProbeInv
  <2> DEFINE x == calls * ExtraRequests
  <2> HIDE DEF x
  <2>4. x \in Nat /\ limit <= MaxRequests + x
    BY <2>2, <2>3 DEF x
  <2>5. requests <= MaxRequests + x
    BY <2>1, <2>3, <2>4, ProbeBounds
  <2> QED  BY <2>5 DEF x
<1> QED  BY <1>1, ProbeInvariance, PTL

(* No stop survives into a later phase or call: a probe is only cut short      *)
(* while another site of its phase has an exact page.                        *)
THEOREM CutsJustified == ProbeSpec => []CutBySibling
<1>1. ProbeInv => CutBySibling
  BY DEF ProbeInv
<1> QED  BY <1>1, ProbeInvariance, PTL

-----------------------------------------------------------------------------
(* A discovery run: the invariant                                           *)

RunFields == {"phase", "kind", "product", "known", "domains", "plan", "asked", "sites", "results",
              "claims", "issues", "stopped", "reached", "late", "gated"}

IsSeq(s) == s \in Seq(ToSet(s))
Apart(s) == \A i, j \in DOMAIN s : Same(s[i], s[j]) => i = j
NoneIn(q, s) == \A i \in DOMAIN s : ~Same(q, s[i])

(* What a run asked and what it still plans to ask are different queries; it   *)
(* asks nothing once it is stopped.                                           *)
AskInv(r) ==
  /\ DOMAIN r = RunFields
  /\ r.phase \in {"plan", "site", "exclude", "done", "ranked"}
  /\ IsSeq(r.asked) /\ Apart(r.asked)
  /\ r.phase = "plan" =>
       IsSeq(r.plan) /\ Apart(r.plan) /\ \A j \in DOMAIN r.plan : NoneIn(r.plan[j], r.asked)
  /\ ~r.late
  /\ r.stopped => (r.phase = "plan" /\ r.plan = << >>) \/ r.phase \in {"done", "ranked"}

LEMMA SameSymmetric == \A q, r : Same(q, r) => Same(r, q)
  BY DEF Same

LEMMA RangeSeq ==
  ASSUME NEW S, NEW s \in Seq(S)
  PROVE  IsSeq(s) /\ Len(s) \in Nat /\ DOMAIN s = 1 .. Len(s)
<1>1. Len(s) \in Nat /\ DOMAIN s = 1 .. Len(s)
  OBVIOUS
<1>2. \A i \in 1 .. Len(s) : s[i] \in ToSet(s)
  BY <1>1 DEF ToSet
<1>3. s \in Seq(ToSet(s))
  BY <1>1, <1>2
<1> QED  BY <1>1, <1>3 DEF IsSeq

LEMMA ConcatSeq ==
  ASSUME NEW S, NEW s \in Seq(S), NEW u \in Seq(S)
  PROVE  /\ s \o u \in Seq(S) /\ DOMAIN (s \o u) = 1 .. Len(s) + Len(u) /\ Len(s \o u) = Len(s) + Len(u)
         /\ \A i \in 1 .. Len(s) : (s \o u)[i] = s[i]
         /\ \A i \in 1 .. Len(u) : (s \o u)[Len(s) + i] = u[i]
  OBVIOUS

(* What Append and Tail do to the members and their places.                  *)
LEMMA AppendIsSeq ==
  ASSUME NEW s, IsSeq(s), NEW q
  PROVE  /\ IsSeq(Append(s, q)) /\ Len(s) \in Nat /\ DOMAIN s = 1 .. Len(s)
         /\ DOMAIN Append(s, q) = 1 .. Len(s) + 1 /\ Append(s, q)[Len(s) + 1] = q
         /\ \A i \in 1 .. Len(s) : Append(s, q)[i] = s[i]
         /\ Len(Append(s, q)) = Len(s) + 1 /\ Append(s, q) # << >>
<1> DEFINE S == ToSet(s) \cup {q}
<1>1. s \in Seq(S) /\ q \in S
  BY DEF IsSeq
<1>2. /\ Len(s) \in Nat /\ DOMAIN s = 1 .. Len(s) /\ Append(s, q) \in Seq(S)
      /\ DOMAIN Append(s, q) = 1 .. Len(s) + 1 /\ Append(s, q)[Len(s) + 1] = q
      /\ \A i \in 1 .. Len(s) : Append(s, q)[i] = s[i]
      /\ Len(Append(s, q)) = Len(s) + 1
  BY <1>1
<1>4. IsSeq(Append(s, q))
  BY <1>2, RangeSeq
<1>5. Append(s, q) # << >>
  BY <1>2
<1> QED  BY <1>2, <1>4, <1>5

LEMMA TailIsSeq ==
  ASSUME NEW s, IsSeq(s), s # << >>
  PROVE  /\ IsSeq(Tail(s)) /\ Len(s) \in Nat /\ DOMAIN s = 1 .. Len(s) /\ Head(s) = s[1] /\ 1 \in DOMAIN s
         /\ DOMAIN Tail(s) = 1 .. Len(s) - 1 /\ \A i \in 1 .. Len(s) - 1 : Tail(s)[i] = s[i + 1]
<1>1. s \in Seq(ToSet(s))
  BY DEF IsSeq
<1>2. /\ Len(s) \in Nat /\ DOMAIN s = 1 .. Len(s) /\ Head(s) = s[1] /\ 1 \in DOMAIN s
      /\ DOMAIN Tail(s) = 1 .. Len(Tail(s))
      /\ DOMAIN Tail(s) = 1 .. Len(s) - 1 /\ \A i \in 1 .. Len(s) - 1 : Tail(s)[i] = s[i + 1]
      /\ Tail(s) \in Seq(ToSet(s))
  BY <1>1
<1>4. IsSeq(Tail(s))
  BY <1>2, RangeSeq
<1> QED  BY <1>2, <1>4

LEMMA EmptyIsSeq == IsSeq(<< >>) /\ Apart(<< >>) /\ \A q : NoneIn(q, << >>)
  BY DEF IsSeq, Apart, NoneIn

(* One query more, different from those before, keeps the queries apart.      *)
LEMMA AskedOnce ==
  ASSUME NEW s, IsSeq(s), Apart(s), NEW q, NoneIn(q, s)
  PROVE  IsSeq(Append(s, q)) /\ Apart(Append(s, q))
<1> DEFINE a == Append(s, q)
<1>1. /\ IsSeq(a) /\ Len(s) \in Nat /\ DOMAIN s = 1 .. Len(s) /\ DOMAIN a = 1 .. Len(s) + 1
      /\ a[Len(s) + 1] = q /\ \A i \in 1 .. Len(s) : a[i] = s[i]
  BY AppendIsSeq
<1> HIDE DEF a
<1>2. \A i \in 1 .. Len(s) : ~Same(a[i], a[Len(s) + 1]) /\ ~Same(a[Len(s) + 1], a[i])
  BY <1>1, SameSymmetric DEF NoneIn
<1>3. \A i, j \in 1 .. Len(s) : Same(a[i], a[j]) => i = j
  BY <1>1 DEF Apart
<1>4. \A i \in 1 .. Len(s) + 1 : i \in 1 .. Len(s) \/ i = Len(s) + 1
  BY <1>1
<1>5. Apart(a)
  BY <1>1, <1>2, <1>3, <1>4 DEF Apart
<1> QED  BY <1>1, <1>5 DEF a

-----------------------------------------------------------------------------
(* The plans                                                                *)

(* Queries of different forms, at most one of which names a domain, differ.  *)
LEMMA FormsApart ==
  ASSUME NEW s,
         \A i, j \in DOMAIN s : s[i].form = s[j].form => i = j,
         \A i, j \in DOMAIN s : s[i].domain # NoWord /\ s[j].domain # NoWord => i = j
  PROVE  Apart(s)
  BY DEF Apart, Same

Base(p) == BuildSearchQueries(p)
Hint(p) == [SiteQuery(p, Hinted[p.brand]) EXCEPT !.form = "hinted"]

LEMMA BaseQueries ==
  ASSUME NEW p
  PROVE  /\ Base(p) \in Seq(ToSet(Base(p))) /\ DOMAIN Base(p) = 1 .. Len(BaseForms)
         /\ Len(Base(p)) = Len(BaseForms) /\ Len(BaseForms) \in Nat
         /\ \A i \in 1 .. Len(BaseForms) :
              /\ Base(p)[i].form = BaseForms[i] /\ Base(p)[i].domain = NoWord
              /\ BaseForms[i] \notin OtherForms
         /\ \A i, j \in 1 .. Len(BaseForms) : BaseForms[i] = BaseForms[j] => i = j
<1> DEFINE b == Base(p)
<1>1. /\ BaseForms \in Seq(ToSet(BaseForms)) /\ ToSet(BaseForms) \cap OtherForms = {}
      /\ \A i, j \in DOMAIN BaseForms : BaseForms[i] = BaseForms[j] => i = j
  BY DiscoveryAssumption DEF DiscoveryAssumption
<1>2. Len(BaseForms) \in Nat /\ DOMAIN BaseForms = 1 .. Len(BaseForms)
  BY <1>1
<1>3. b = [i \in 1 .. Len(BaseForms) |-> Simple(BaseForms[i], <<p.brand>> \o p.model.parts)]
  BY <1>2 DEF Base, BuildSearchQueries
<1>4. \A i \in DOMAIN b : b[i] \in ToSet(b)
  BY DEF ToSet
<1>5. b \in Seq(ToSet(b)) /\ Len(b) = Len(BaseForms)
  BY <1>2, <1>3, <1>4
<1>6. \A i \in 1 .. Len(BaseForms) : b[i].form = BaseForms[i] /\ b[i].domain = NoWord
  BY <1>3 DEF Simple, Query
<1>7. \A i \in 1 .. Len(BaseForms) : BaseForms[i] \notin OtherForms
  BY <1>1, <1>2 DEF ToSet
<1> QED  BY <1>1, <1>2, <1>3, <1>5, <1>6, <1>7

LEMMA BroadApart ==
  ASSUME NEW p, NEW known
  PROVE  IsSeq(BroadPlan(p, known)) /\ Apart(BroadPlan(p, known))
<1> DEFINE b == Base(p)
           n == Len(BaseForms)
           h == Hint(p)
           o == Simple("official", p.model.parts \o <<p.brand>>)
           w == OfficialWebsite(p)
           a == Simple("authority", <<p.brand>> \o p.model.parts)
           plan == BroadPlan(p, known)
           S == ToSet(b) \cup {h, o, w, a}
<1>1. /\ h.form = "hinted" /\ o.form = "official" /\ w.form = "website" /\ a.form = "authority"
      /\ o.domain = NoWord /\ w.domain = NoWord /\ a.domain = NoWord
  BY DEF Hint, SiteQuery, Query, Simple, OfficialWebsite
<1>2. \A i \in 1 .. n : b[i].form \notin {"hinted", "official", "website", "authority"}
  BY BaseQueries DEF OtherForms
<1>3. b \in Seq(S) /\ h \in S /\ o \in S /\ w \in S /\ a \in S /\ n \in Nat /\ Len(b) = n
  BY BaseQueries
<1>4. \A i, j \in 1 .. n : b[i].form = b[j].form => i = j
  BY BaseQueries
<1>5. \A i \in 1 .. n : b[i].domain = NoWord
  BY BaseQueries
<1>6. plan = (b \o <<h>>) \o (IF known THEN << >> ELSE <<o, w, a>>)
  BY DEF BroadPlan, Base, Hint
<1> HIDE DEF b, h, o, w, a, n
<1>7. CASE known
  <2>1. plan = b \o <<h>>
    BY <1>3, <1>6, <1>7
  <2>2. /\ plan \in Seq(S) /\ DOMAIN plan = 1 .. n + 1 /\ plan[n + 1] = h
        /\ \A i \in 1 .. n : plan[i] = b[i]
    BY <1>3, <2>1
  <2> HIDE DEF plan
  <2>3. \A i \in 1 .. n + 1 : i \in 1 .. n \/ i = n + 1
    BY <1>3
  <2>4. \A i, j \in DOMAIN plan : plan[i].form = plan[j].form => i = j
    BY <1>1, <1>2, <1>4, <2>2, <2>3
  <2>5. \A i, j \in DOMAIN plan : plan[i].domain # NoWord /\ plan[j].domain # NoWord => i = j
    BY <1>5, <2>2, <2>3
  <2>6. IsSeq(plan)
    BY <2>2, RangeSeq
  <2> QED  BY <2>4, <2>5, <2>6, FormsApart DEF plan
<1>8. CASE ~known
  <2>1. plan = (b \o <<h>>) \o <<o, w, a>>
    BY <1>6, <1>8
  <2> DEFINE bh == b \o <<h>>
  <2>2. bh \in Seq(S) /\ Len(bh) = n + 1 /\ bh[n + 1] = h /\ \A i \in 1 .. n : bh[i] = b[i]
    BY <1>3
  <2> DEFINE rest == <<o, w, a>>
  <2>3. rest \in Seq(S) /\ Len(rest) = 3 /\ rest[1] = o /\ rest[2] = w /\ rest[3] = a
    BY <1>3
  <2> HIDE DEF bh, rest
  <2>r. plan = bh \o rest
    BY <2>1 DEF bh, rest
  <2>4. /\ plan \in Seq(S) /\ DOMAIN plan = 1 .. n + 4
        /\ \A i \in 1 .. n + 1 : plan[i] = bh[i]
        /\ plan[n + 2] = o /\ plan[n + 3] = w /\ plan[n + 4] = a
    <3> HIDE DEF plan
    <3>1. /\ plan \in Seq(S) /\ DOMAIN plan = 1 .. Len(bh) + Len(rest)
          /\ \A i \in 1 .. Len(bh) : plan[i] = bh[i]
          /\ \A i \in 1 .. Len(rest) : plan[Len(bh) + i] = rest[i]
      <4>1. bh \in Seq(S) /\ rest \in Seq(S)
        BY <2>2, <2>3
      <4> HIDE DEF S
      <4>2. /\ bh \o rest \in Seq(S) /\ DOMAIN (bh \o rest) = 1 .. Len(bh) + Len(rest)
            /\ \A i \in 1 .. Len(bh) : (bh \o rest)[i] = bh[i]
            /\ \A i \in 1 .. Len(rest) : (bh \o rest)[Len(bh) + i] = rest[i]
        BY <4>1, ConcatSeq
      <4> QED  BY <2>r, <4>2
    <3>2. Len(bh) + Len(rest) = n + 4 /\ Len(bh) + 1 = n + 2 /\ Len(bh) + 2 = n + 3 /\ Len(bh) + 3 = n + 4
      BY <1>3, <2>2, <2>3
    <3>4. plan[Len(bh) + 1] = rest[1] /\ plan[Len(bh) + 2] = rest[2] /\ plan[Len(bh) + 3] = rest[3]
      BY <2>3, <3>1
    <3> QED  BY <2>2, <2>3, <3>1, <3>2, <3>4
  <2>5. \A i \in 1 .. n : plan[i] = b[i]
    BY <1>3, <2>2, <2>4
  <2>6. plan[n + 1] = h
    BY <1>3, <2>2, <2>4
  <2> HIDE DEF plan
  <2>7. \A i \in DOMAIN plan : i \in 1 .. n \/ i = n + 1 \/ i = n + 2 \/ i = n + 3 \/ i = n + 4
    BY <1>3, <2>4
  <2>8. \A i, j \in DOMAIN plan : plan[i].form = plan[j].form => i = j
    BY <1>1, <1>2, <1>4, <2>4, <2>5, <2>6, <2>7
  <2>9. \A i, j \in DOMAIN plan : plan[i].domain # NoWord /\ plan[j].domain # NoWord => i = j
    BY <1>1, <1>5, <2>4, <2>5, <2>6, <2>7
  <2>10. IsSeq(plan)
    BY <2>4, RangeSeq
  <2> QED  BY <2>8, <2>9, <2>10, FormsApart DEF plan
<1> QED  BY <1>7, <1>8

LEMMA FieldApart ==
  ASSUME NEW p, NEW known
  PROVE  IsSeq(FieldPlan(p, known)) /\ Apart(FieldPlan(p, known))
<1> DEFINE w == OfficialWebsite(p)
           f == Simple("field", p.model.parts)
           plan == FieldPlan(p, known)
<1>1. plan = (IF known THEN << >> ELSE <<w>>) \o <<f>>
  BY DEF FieldPlan
<1>2. w.form # f.form /\ w.domain = NoWord /\ f.domain = NoWord
  BY DEF OfficialWebsite, Simple, Query
<1> HIDE DEF w, f, plan
<1>3. CASE known
  <2>1. plan \in Seq({f}) /\ DOMAIN plan = {1}
    BY <1>1, <1>3
  <2> QED  BY <2>1, RangeSeq DEF Apart, plan
<1>4. CASE ~known
  <2>1. plan \in Seq({w, f}) /\ DOMAIN plan = {1, 2} /\ plan[1] = w /\ plan[2] = f
    BY <1>1, <1>4
  <2>2. Apart(plan)
    BY <1>2, <2>1 DEF Apart, Same
  <2> QED  BY <2>1, <2>2, RangeSeq DEF plan
<1> QED  BY <1>3, <1>4

LEMMA Least ==
  ASSUME NEW S \in SUBSET Nat, S # {}
  PROVE  \E m \in S : \A n \in S : m <= n
<1>1. \A m, n \in Nat : m < n => <<m, n>> \in OpToRel(<, Nat)
  BY DEF OpToRel
<1>2. \E m \in S : \A n \in S : ~(<<n, m>> \in OpToRel(<, Nat))
  BY NatLessThanWellFounded, WFMin
<1>3. PICK m \in S : \A n \in S : ~(<<n, m>> \in OpToRel(<, Nat))
  BY <1>2
<1>4. \A n \in S : ~(n < m)
  BY <1>1, <1>3
<1> QED  BY <1>4

(* A property of finite subsets that fails for some fails for a minimal one.   *)
LEMMA MinimalSubset ==
  ASSUME NEW S, IsFiniteSet(S), NEW F \in SUBSET SUBSET S, F # {}
  PROVE  \E T \in F : \A U \in F : U \subseteq T => U = T
<1>1. \A T \in SUBSET S : IsFiniteSet(T)
  BY FS_Subset
<1>2. F \subseteq FiniteSubsetsOf(S)
  BY <1>1 DEF FiniteSubsetsOf
<1>3. IsWellFoundedOn(StrictSubsetOrdering(S), FiniteSubsetsOf(S))
  BY FS_StrictSubsetOrderingWellFounded
<1>4. PICK T \in F : \A U \in F : ~(<<U, T>> \in StrictSubsetOrdering(S))
  BY <1>2, <1>3, WFMin
<1>5. \A U \in F : U \subseteq T /\ U # T => <<U, T>> \in StrictSubsetOrdering(S)
  <2> SUFFICES ASSUME NEW U \in SUBSET S, U \subseteq T, U # T
               PROVE  <<U, T>> \in StrictSubsetOrdering(S)
    OBVIOUS
  <2>1. T \in SUBSET S
    OBVIOUS
  <2> DEFINE p == <<U, T>>
  <2>2. p \in (SUBSET S) \X (SUBSET S) /\ p[1] = U /\ p[2] = T
    BY <2>1
  <2> HIDE DEF p
  <2>3. p \in StrictSubsetOrdering(S)
    BY <2>2 DEF StrictSubsetOrdering
  <2> QED  BY <2>3 DEF p
<1>6. ASSUME NEW U \in F, U \subseteq T PROVE U = T
  BY <1>4, <1>5, <1>6
<1> QED  BY <1>6

LEMMA FiniteImage ==
  ASSUME NEW S, IsFiniteSet(S), NEW f, DOMAIN f = S
  PROVE  IsFiniteSet({f[x] : x \in S})
<1> DEFINE g == [x \in S |-> f[x]]
<1>1. g \in Surjection(S, {f[x] : x \in S})
  BY DEF Surjection
<1> QED  BY <1>1, FS_Surjection

-----------------------------------------------------------------------------
(* The evidence for official domains                                        *)

(* Evidence as OfficialDomains orders it: weight, domain, page.              *)
Rankable(S) == IsFiniteSet(S) /\ \A e \in S : e[1] \in Int /\ e[3] \in Nat

LEMMA Weakest ==
  ASSUME NEW S, Rankable(S), S # {}
  PROVE  \E w \in S : \A e \in S : ~Stronger(w, e)
<1> DEFINE F == {T \in SUBSET S : T # {} /\ ~\E w \in T : \A e \in T : ~Stronger(w, e)}
<1>1. SUFFICES ASSUME F # {} PROVE FALSE
  OBVIOUS
<1>2. PICK T \in F : \A U \in F : U \subseteq T => U = T
  <2>1. F \in SUBSET SUBSET S /\ IsFiniteSet(S)
    BY DEF Rankable
  <2> HIDE DEF F
  <2> QED  BY <1>1, <2>1, MinimalSubset
<1>3. PICK a \in T : TRUE
  OBVIOUS
<1>4. \A e \in S : e[1] \in Int /\ e[3] \in Nat
  BY DEF Rankable
<1>5. \A e \in S : ~Stronger(e, e)
  BY <1>4 DEF Stronger
<1>6. T # {a}
  BY <1>5
<1> DEFINE U == T \ {a}
<1>7. U # {} /\ U \in SUBSET S /\ U \subseteq T /\ U # T
  BY <1>3, <1>6
<1>8. PICK u \in U : \A e \in U : ~Stronger(u, e)
  BY <1>2, <1>7
<1>9. Stronger(u, a)
  BY <1>8
<1>10. \A e \in U : ~Stronger(a, e)
  <2> TAKE e \in U
  <2>1. /\ u[1] \in Int /\ u[3] \in Nat /\ a[1] \in Int /\ a[3] \in Nat
        /\ e[1] \in Int /\ e[3] \in Nat /\ ~Stronger(u, e)
    BY <1>4, <1>7, <1>8
  <2> QED  BY <1>9, <2>1 DEF Stronger
<1>11. \A e \in T : ~Stronger(a, e)
  BY <1>5, <1>10
<1> QED  BY <1>3, <1>11

Sorted(s, S) ==
  /\ s \in [1 .. Cardinality(S) -> S]
  /\ \A i, j \in 1 .. Cardinality(S) : i < j => s[i] # s[j] /\ ~Stronger(s[j], s[i])

LEMMA RankedExists ==
  ASSUME NEW S, Rankable(S)
  PROVE  Ranked(S) \in [1 .. Cardinality(S) -> S] /\ Cardinality(S) \in Nat
<1> DEFINE F == {T \in SUBSET S : ~\E s : Sorted(s, T)}
<1>1. F = {}
  <2> SUFFICES ASSUME F # {} PROVE FALSE
    OBVIOUS
  <2>1. PICK T \in F : \A U \in F : U \subseteq T => U = T
    <3>1. F \in SUBSET SUBSET S /\ IsFiniteSet(S)
      BY DEF Rankable
    <3> HIDE DEF F
    <3> QED  BY <3>1, MinimalSubset
  <2>2. Rankable(T) /\ IsFiniteSet(T)
    BY <2>1, FS_Subset DEF Rankable
  <2>3. T # {}
    <3> SUFFICES ASSUME T = {} PROVE FALSE
      OBVIOUS
    <3>1. Cardinality(T) = 0
      BY FS_EmptySet
    <3>2. [i \in 1 .. 0 |-> {}] \in [1 .. 0 -> T]
      OBVIOUS
    <3>3. Sorted([i \in 1 .. 0 |-> {}], T)
      BY <3>1, <3>2 DEF Sorted
    <3> QED  BY <2>1, <3>3
  <2>4. PICK w \in T : \A e \in T : ~Stronger(w, e)
    BY <2>2, <2>3, Weakest
  <2> DEFINE U == T \ {w}
             n == Cardinality(U)
  <2>5. U \subseteq T /\ U # T /\ U \in SUBSET S
    BY <2>4
  <2>6. IsFiniteSet(U) /\ n \in Nat /\ Cardinality(T) = n + 1
    <3>1. Cardinality(U) = Cardinality(T) - 1 /\ IsFiniteSet(U)
      BY <2>2, FS_RemoveElement
    <3> QED  BY <2>2, <3>1, FS_CardinalityType
  <2>7. PICK s : Sorted(s, U)
    BY <2>1, <2>5
  <2> DEFINE r == [i \in 1 .. n + 1 |-> IF i = n + 1 THEN w ELSE s[i]]
  <2>8. s \in [1 .. n -> U] /\ \A i, j \in 1 .. n : i < j => s[i] # s[j] /\ ~Stronger(s[j], s[i])
    BY <2>7 DEF Sorted
  <2> HIDE DEF n
  <2>9. \A i \in 1 .. n + 1 : i = n + 1 \/ i \in 1 .. n
    BY <2>6
  <2>10. \A i \in 1 .. n : i # n + 1 /\ r[i] = s[i] /\ s[i] \in U /\ s[i] # w /\ s[i] \in T
    BY <2>6, <2>8
  <2>11. r[n + 1] = w
    BY <2>6
  <2>12. r \in [1 .. n + 1 -> T]
    BY <2>4, <2>9, <2>10
  <2>13. \A i, j \in 1 .. n + 1 : i < j => r[i] # r[j] /\ ~Stronger(r[j], r[i])
    <3> TAKE i, j \in 1 .. n + 1
    <3> HAVE i < j
    <3>1. i \in 1 .. n
      BY <2>6
    <3>2. CASE j = n + 1
      BY <2>4, <2>10, <2>11, <3>1, <3>2
    <3>3. CASE j \in 1 .. n
      BY <2>8, <2>10, <3>1, <3>3
    <3> QED  BY <2>9, <3>2, <3>3
  <2>14. Sorted(r, T)
    BY <2>6, <2>12, <2>13 DEF Sorted
  <2> QED  BY <2>1, <2>14
<1>2. \E s : Sorted(s, S)
  BY <1>1
<1>3. Ranked(S) \in [1 .. Cardinality(S) -> S]
  BY <1>2 DEF Sorted, Ranked
<1> QED  BY <1>3, FS_CardinalityType DEF Rankable

(* Results as a searcher gives them: their pages are canonical or NoPage.    *)
Canonical(rs) == IsSeq(rs) /\ \A r \in ToSet(rs) : r.page \in DOMAIN Page \cup {NoPage}
PagesOf(rs) == {r.page : r \in Valid(rs)}

LEMMA CanonicalPages ==
  ASSUME NEW rs, Canonical(rs)
  PROVE  /\ IsFiniteSet(DOMAIN rs) /\ DOMAIN rs \subseteq Nat
         /\ \A i \in DOMAIN rs : rs[i].page # NoPage => rs[i].page \in PagesOf(rs) /\ rs[i].page \in Nat
<1>1. Len(rs) \in Nat /\ DOMAIN rs = 1 .. Len(rs)
  BY RangeSeq DEF Canonical, IsSeq
<1>2. IsFiniteSet(1 .. Len(rs))
  BY <1>1, FS_Interval
<1>3. \A i \in DOMAIN rs : rs[i] \in ToSet(rs)
  BY DEF ToSet
<1>4. \A i \in DOMAIN rs : rs[i].page # NoPage => rs[i].page \in PagesOf(rs) /\ rs[i].page \in DOMAIN Page
  BY <1>3 DEF Canonical, PagesOf, Valid
<1> QED  BY <1>1, <1>2, <1>4, RankingAssumption DEF RankingAssumption

(* What a domain's evidence must be.                                         *)
Evidence(e, pages) == e[3] \in pages /\ e[3] # NoPage /\ BelongsTo(e[3], e[2])

LEMMA ClaimsAreEvidence ==
  ASSUME NEW brand, NEW claims, NEW products, NEW model, Canonical(claims)
  PROVE  LET S == ClaimedDomains(brand, claims, products, model)
         IN  Rankable(S) /\ \A e \in S : Evidence(e, PagesOf(claims))
<1> DEFINE S == ClaimedDomains(brand, claims, products, model)
           host(i) == Page[claims[i].page].host
           a == [i \in DOMAIN claims |-> <<120 - i, host(i), claims[i].page>>]
           b == [i \in DOMAIN claims |-> <<100 - i, Site[host(i)].root, claims[i].page>>]
           A == {a[i] : i \in DOMAIN claims}
           B == {b[i] : i \in DOMAIN claims}
<1>1. \A e \in S : \E i \in DOMAIN claims : claims[i].page # NoPage /\ (e = a[i] \/ e = b[i])
  BY DEF ClaimedDomains
<1>2. \A i \in DOMAIN claims : claims[i].page # NoPage =>
        claims[i].page \in PagesOf(claims) /\ claims[i].page \in Nat /\ i \in Nat
  BY CanonicalPages
<1>3. ASSUME NEW e \in S
      PROVE  e[1] \in Int /\ e[3] \in Nat /\ Evidence(e, PagesOf(claims))
  <2>1. PICK i \in DOMAIN claims : claims[i].page # NoPage /\ (e = a[i] \/ e = b[i])
    BY <1>1, <1>3
  <2>2. claims[i].page \in PagesOf(claims) /\ claims[i].page \in Nat /\ i \in Nat
    BY <1>2, <2>1
  <2>3. e[3] = claims[i].page /\ (e[1] = 120 - i \/ e[1] = 100 - i)
        /\ (e[2] = host(i) \/ e[2] = Site[host(i)].root)
    BY <2>1
  <2> HIDE DEF S, a, b
  <2>4. BelongsTo(e[3], e[2])
    BY <2>3 DEF BelongsTo, HostOf
  <2> QED  BY <2>1, <2>2, <2>3, <2>4 DEF Evidence
<1>4. IsFiniteSet(A) /\ IsFiniteSet(B)
  <2>1. DOMAIN a = DOMAIN claims /\ DOMAIN b = DOMAIN claims /\ IsFiniteSet(DOMAIN claims)
    BY CanonicalPages
  <2> HIDE DEF a, b
  <2> QED  BY <2>1, FiniteImage
<1>5. S \subseteq A \cup B
  BY <1>1
<1>6. IsFiniteSet(S)
  <2> HIDE DEF S, A, B
  <2>1. IsFiniteSet(A \cup B)
    BY <1>4, FS_Union
  <2> QED  BY <1>5, <2>1, FS_Subset
<1> QED  BY <1>3, <1>6 DEF Rankable

LEMMA ProductsAreEvidence ==
  ASSUME NEW brand, NEW products, NEW match, Canonical(products)
  PROVE  LET S == ProvenDomains(brand, products, match)
         IN  Rankable(S) /\ \A e \in S : Evidence(e, PagesOf(products))
<1> DEFINE S == ProvenDomains(brand, products, match)
           a == [i \in DOMAIN products |-> <<90 - i, HostOf(products[i].page).root, products[i].page>>]
           A == {a[i] : i \in DOMAIN products}
<1>1. \A e \in S : \E i \in DOMAIN products : products[i].page # NoPage /\ e = a[i]
  BY DEF ProvenDomains
<1>2. \A i \in DOMAIN products : products[i].page # NoPage =>
        products[i].page \in PagesOf(products) /\ products[i].page \in Nat /\ i \in Nat
  BY CanonicalPages
<1>3. ASSUME NEW e \in S
      PROVE  e[1] \in Int /\ e[3] \in Nat /\ Evidence(e, PagesOf(products))
  <2>1. PICK i \in DOMAIN products : products[i].page # NoPage /\ e = a[i]
    BY <1>1, <1>3
  <2>2. products[i].page \in PagesOf(products) /\ products[i].page \in Nat /\ i \in Nat
    BY <1>2, <2>1
  <2>3. e[3] = products[i].page /\ e[1] = 90 - i /\ e[2] = HostOf(products[i].page).root
    BY <2>1
  <2> HIDE DEF S, a
  <2>4. BelongsTo(e[3], e[2])
    BY <2>3 DEF BelongsTo
  <2> QED  BY <2>1, <2>2, <2>3, <2>4 DEF Evidence
<1>4. IsFiniteSet(A)
  <2>1. DOMAIN a = DOMAIN products /\ IsFiniteSet(DOMAIN products)
    BY CanonicalPages
  <2> HIDE DEF a
  <2> QED  BY <2>1, FiniteImage
<1>5. S \subseteq A
  BY <1>1
<1>6. IsFiniteSet(S)
  <2> HIDE DEF S, A
  <2> QED  BY <1>4, <1>5, FS_Subset
<1> QED  BY <1>3, <1>6 DEF Rankable

(* An official domain and its evidence, a page among those given.            *)
Proof(d, pages) == d.evidence \in pages /\ d.evidence # NoPage /\ BelongsTo(d.evidence, d.domain)
Proofs(domains, pages) == IsSeq(domains) /\ \A i \in DOMAIN domains : Proof(domains[i], pages)

LEMMA OfficialDomainsProven ==
  ASSUME NEW brand, NEW claims, NEW products, NEW model, Canonical(claims), Canonical(products)
  PROVE  Proofs(OfficialDomains(brand, claims, products, model), PagesOf(claims) \cup PagesOf(products))
<1> DEFINE match == [r \in Valid(products) |-> MatchOf(r, model)]
           C == ClaimedDomains(brand, claims, products, model)
           P == ProvenDomains(brand, products, match)
           proofs == C \cup P
           best == {e \in proofs : \A o \in proofs : o[2] = e[2] => ~Stronger(o, e)}
           ranked == Ranked(best)
           pages == PagesOf(claims) \cup PagesOf(products)
           n == Cardinality(best)
           domains == [i \in 1 .. n |-> [domain |-> ranked[i][2], evidence |-> ranked[i][3]]]
<1>1. domains = OfficialDomains(brand, claims, products, model)
  BY DEF OfficialDomains
<1>2. Rankable(C) /\ \A e \in C : Evidence(e, PagesOf(claims))
  BY ClaimsAreEvidence
<1>3. Rankable(P) /\ \A e \in P : Evidence(e, PagesOf(products))
  <2> HIDE DEF match
  <2> QED  BY ProductsAreEvidence
<1> HIDE DEF C, P
<1>4. \A e \in proofs : Evidence(e, pages) /\ e[1] \in Int /\ e[3] \in Nat
  BY <1>2, <1>3 DEF Evidence, Rankable
<1>5. IsFiniteSet(proofs)
  BY <1>2, <1>3, FS_Union DEF Rankable
<1>6. best \subseteq proofs
  OBVIOUS
<1> HIDE DEF proofs, best
<1>7. Rankable(best)
  BY <1>4, <1>5, <1>6, FS_Subset DEF Rankable
<1>8. ranked \in [1 .. n -> best] /\ n \in Nat
  BY <1>7, RankedExists
<1> HIDE DEF n, ranked
<1>9. \A i \in 1 .. n : Evidence(ranked[i], pages)
  BY <1>4, <1>6, <1>8
<1>10. \A i \in 1 .. n : domains[i].domain = ranked[i][2] /\ domains[i].evidence = ranked[i][3]
  OBVIOUS
<1>11. \A i \in 1 .. n : Proof(domains[i], pages)
  BY <1>9, <1>10 DEF Proof, Evidence
<1>12. DOMAIN domains = 1 .. n
  OBVIOUS
<1>13. IsSeq(domains)
  <2>1. \A i \in 1 .. n : domains[i] \in ToSet(domains)
    BY <1>12 DEF ToSet
  <2>2. domains \in Seq(ToSet(domains))
    BY <1>8, <1>12, <2>1
  <2> QED  BY <2>2 DEF IsSeq
<1> QED  BY <1>1, <1>11, <1>12, <1>13 DEF Proofs

(* What AuthorityIsEarned asks of one candidate.                             *)
Earned(c, domains, pages) ==
  c.authority = "verified" =>
    /\ c.evidence \in pages
    /\ HostOf(c.page).kind \notin {"marketplace", "specialized_reference"}
    /\ \E d \in ToSet(domains) : BelongsTo(c.page, d.domain) /\ BelongsTo(c.evidence, d.domain)

LEMMA DomainIsOwner ==
  ASSUME NEW u, NEW domains, NEW pages, Proofs(domains, pages), DomainOf(u, domains).evidence # NoPage
  PROVE  LET d == DomainOf(u, domains)
         IN  d \in ToSet(domains) /\ Proof(d, pages) /\ BelongsTo(u, d.domain)
<1> DEFINE owning == {i \in DOMAIN domains : BelongsTo(u, domains[i].domain)}
<1>1. owning # {}
  BY DEF DomainOf
<1>2. DOMAIN domains \subseteq Nat
  BY RangeSeq DEF Proofs, IsSeq
<1>3. owning \in SUBSET Nat
  BY <1>2
<1>4. Min(owning) \in owning
  <2> HIDE DEF owning
  <2>1. \E x \in owning : \A y \in owning : x =< y
    BY <1>1, <1>3, Least
  <2> QED  BY <2>1 DEF Min
<1>5. DomainOf(u, domains) = domains[Min(owning)]
  BY <1>1 DEF DomainOf
<1> HIDE DEF owning
<1>6. Min(owning) \in DOMAIN domains /\ BelongsTo(u, domains[Min(owning)].domain)
  BY <1>4 DEF owning
<1> QED  BY <1>5, <1>6 DEF Proofs, ToSet

LEMMA CandidateEarned ==
  ASSUME NEW r, NEW product, NEW domains, NEW pages, Proofs(domains, pages)
  PROVE  LET c == CandidateOf(r, product, domains)
         IN  Earned(c, domains, pages) /\ c.page = r.page
<1> DEFINE c == CandidateOf(r, product, domains)
           owner == DomainOf(r.page, domains)
<1>1. /\ c.page = r.page
      /\ c.authority = "verified" => /\ owner.evidence # NoPage /\ c.evidence = owner.evidence
                                     /\ ClassifySource(r.page, TRUE) = "manufacturer"
  BY DEF CandidateOf, CandidateWith
<1> SUFFICES ASSUME c.authority = "verified" PROVE Earned(c, domains, pages)
  BY <1>1 DEF Earned
<1>2. owner \in ToSet(domains) /\ Proof(owner, pages) /\ BelongsTo(r.page, owner.domain)
  BY <1>1, DomainIsOwner
<1>3. HostOf(r.page).kind \notin {"marketplace", "specialized_reference"}
  BY <1>1 DEF ClassifySource
<1> HIDE DEF c, owner
<1>4. c.evidence \in pages /\ BelongsTo(c.evidence, owner.domain)
  BY <1>1, <1>2 DEF Proof
<1> QED  BY <1>1, <1>2, <1>3, <1>4 DEF Earned

(* The merge keeps what makes the winner's authority.                        *)
LEMMA RankedEarned ==
  ASSUME NEW results, NEW product, NEW domains, NEW pages, Proofs(domains, pages),
         NEW c \in RankCandidates(results, product, domains)
  PROVE  Earned(c, domains, pages)
<1> DEFINE Of(i) == CandidateOf(results[i], product, domains)
<1>1. PICK i \in DOMAIN results : \E all : c = Merged(Of(i), all)
  BY DEF RankCandidates
<1>2. c.page = Of(i).page /\ c.authority = Of(i).authority /\ c.evidence = Of(i).evidence
  BY <1>1 DEF Merged, CandidateOf, CandidateWith
<1>3. Earned(Of(i), domains, pages)
  BY CandidateEarned
<1> HIDE DEF Of
<1> QED  BY <1>2, <1>3 DEF Earned

(* Annotations change what a candidate is to the identity, not its authority. *)
LEMMA AnnotatedEarned ==
  ASSUME NEW results, NEW p, NEW domains, NEW pages, Proofs(domains, pages),
         NEW g \in Gated(RankCandidates(results, p, domains), p)
  PROVE  Earned(g.candidate, domains, pages) /\ Earned(Annotated(p, g).candidate, domains, pages)
<1>1. PICK c \in RankCandidates(results, p, domains) :
        g = [gate |-> AssessCandidateRelevance(c, p), candidate |-> c]
  BY DEF Gated
<1>2. Earned(c, domains, pages)
  BY RankedEarned
<1>3. \E i \in DOMAIN results : \E all : c = Merged(CandidateOf(results[i], p, domains), all)
  BY DEF RankCandidates
<1> DEFINE F == {"page", "title", "type", "authority", "evidence", "match", "relevance", "relation",
                 "score", "provenance"}
<1>4. DOMAIN c = F
  BY <1>3 DEF Merged, CandidateOf, CandidateWith
<1> DEFINE x == Renamed(p, c)
<1>5. x.page = c.page /\ x.authority = c.authority /\ x.evidence = c.evidence /\ DOMAIN x = F
  BY <1>4 DEF Renamed
<1> DEFINE y == [x EXCEPT !.relation = SourceIdentityRelation(p, x)]
<1>6. y.page = c.page /\ y.authority = c.authority /\ y.evidence = c.evidence
  <2> HIDE DEF x
  <2> QED  BY <1>5
<1>7. g.candidate = c
  BY <1>1
<1>8. Annotated(p, g).candidate = c \/ Annotated(p, g).candidate = y
  BY <1>1, <1>7 DEF Annotated
<1> HIDE DEF x, y
<1> QED  BY <1>2, <1>6, <1>7, <1>8 DEF Earned

GatedOf(r) == Gated(RankCandidates(r.results, r.product, r.domains), r.product)

(* What a run knows is from pages shown to runs of its brand, and its         *)
(* candidates are those of its results.                                      *)
AuthorityInv(r, pages) ==
  /\ r.product \in Products
  /\ Canonical(r.results) /\ PagesOf(r.results) \subseteq pages
  /\ Canonical(r.claims) /\ PagesOf(r.claims) \subseteq pages
  /\ Proofs(r.domains, pages)
  /\ r.phase = "ranked" =>
       /\ \A g \in r.gated : Earned(g.candidate, r.domains, pages)
       /\ r.gated \in {GatedOf(r), {Annotated(r.product, g) : g \in GatedOf(r)}}

CacheInv ==
  /\ DOMAIN cache = Brands /\ DOMAIN shown = Brands
  /\ \A b \in Brands : Proofs(cache[b].domains, shown[b])

DiscoveryInv ==
  /\ DOMAIN run = Threads /\ CacheInv
  /\ \A t \in Runs : AskInv(run[t]) /\ AuthorityInv(run[t], shown[run[t].product.brand])

LEMMA MorePagesShown ==
  ASSUME NEW S, NEW T, S \subseteq T
  PROVE  /\ \A domains : Proofs(domains, S) => Proofs(domains, T)
         /\ \A r : AuthorityInv(r, S) => AuthorityInv(r, T)
<1>1. \A domains : Proofs(domains, S) => Proofs(domains, T)
  BY DEF Proofs, Proof
<1>2. \A c, domains : Earned(c, domains, S) => Earned(c, domains, T)
  BY DEF Earned
<1> QED  BY <1>1, <1>2 DEF AuthorityInv

(* A step of one thread keeps the invariant if its new state has it, and the  *)
(* domains remembered have been proven by pages shown.                       *)
LEMMA StepOfThread ==
  ASSUME DiscoveryInv, NEW t \in Threads, NEW s, run' = [run EXCEPT ![t] = s],
         DOMAIN shown' = Brands, \A b \in Brands : shown[b] \subseteq shown'[b],
         s.phase # "idle" => AskInv(s) /\ AuthorityInv(s, shown'[s.product.brand]),
         DOMAIN cache' = Brands,
         \A b \in Brands : cache'[b] = cache[b] \/ Proofs(cache'[b].domains, shown'[b])
  PROVE  DiscoveryInv'
<1>1. DOMAIN run' = Threads /\ run'[t] = s /\ \A u \in Threads \ {t} : run'[u] = run[u]
  BY DEF DiscoveryInv
<1>2. CacheInv'
  BY MorePagesShown DEF CacheInv, DiscoveryInv
<1>3. \A u \in Runs' : AskInv(run'[u]) /\ AuthorityInv(run'[u], shown'[run'[u].product.brand])
  <2> TAKE u \in Runs'
  <2>1. u \in Threads /\ run'[u].phase # "idle"
    BY DEF Runs
  <2>2. CASE u = t
    BY <1>1, <2>1, <2>2
  <2>3. CASE u # t
    <3>1. run'[u] = run[u] /\ u \in Runs
      BY <1>1, <2>1, <2>3 DEF Runs
    <3>2. AskInv(run[u]) /\ AuthorityInv(run[u], shown[run[u].product.brand])
      BY <3>1 DEF DiscoveryInv
    <3>3. run[u].product.brand \in Brands
      BY <3>2 DEF AuthorityInv, Brands
    <3> QED  BY <3>1, <3>2, <3>3, MorePagesShown
  <2> QED  BY <2>2, <2>3
<1> QED  BY <1>1, <1>2, <1>3 DEF DiscoveryInv

LEMMA InitKeepsRuns == Init => DiscoveryInv
<1> SUFFICES ASSUME Init PROVE DiscoveryInv
  OBVIOUS
<1>1. Runs = {}
  BY DEF Init, Runs, Idle
<1>2. \A b \in Brands : Proofs(cache[b].domains, shown[b])
  <2>1. \A b \in Brands : cache[b].domains = << >>
    BY DEF Init, NotCached
  <2> QED  BY <2>1, EmptyIsSeq DEF Proofs
<1> QED  BY <1>1, <1>2 DEF Init, DiscoveryInv, CacheInv

-----------------------------------------------------------------------------
(* Starting a run, and hearing an answer                                    *)

LEMMA EmptyCanonical == Canonical(<< >>) /\ PagesOf(<< >>) = {}
<1>1. ToSet(<< >>) = {}
  BY DEF ToSet
<1> QED  BY <1>1, EmptyIsSeq DEF Canonical, PagesOf, Valid

LEMMA RunStartKeeps ==
  ASSUME DiscoveryInv, NEW t \in Threads, NEW p \in Products, NEW kind, Start(t, p, kind)
  PROVE  DiscoveryInv'
<1> DEFINE known == cache[p.brand].known
           plan == IF kind = "field" THEN FieldPlan(p, known) ELSE BroadPlan(p, known)
           s == [phase |-> "plan", kind |-> kind, product |-> p, known |-> known,
                 domains |-> cache[p.brand].domains, plan |-> plan, asked |-> << >>,
                 sites |-> << >>, results |-> << >>, claims |-> << >>, issues |-> {},
                 stopped |-> FALSE, reached |-> FALSE, late |-> FALSE, gated |-> {}]
<1>1. run' = [run EXCEPT ![t] = s] /\ cache' = cache /\ shown' = shown
  BY DEF Start
<1>2. IsSeq(plan) /\ Apart(plan)
  BY BroadApart, FieldApart
<1> HIDE DEF plan
<1>3. AskInv(s)
  BY <1>2, EmptyIsSeq DEF AskInv, RunFields, NoneIn
<1>4. p.brand \in Brands
  BY DEF Brands
<1>5. Proofs(cache[p.brand].domains, shown[p.brand])
  BY <1>4 DEF DiscoveryInv, CacheInv
<1>6. AuthorityInv(s, shown[p.brand]) /\ s.product = p /\ s.phase # "idle"
  BY <1>5, EmptyCanonical DEF AuthorityInv
<1> HIDE DEF s
<1> QED  BY <1>1, <1>3, <1>6, StepOfThread DEF DiscoveryInv, CacheInv

ShownBy(a) == {a.results[i].page : i \in DOMAIN a.results}

LEMMA LabelledCanonical ==
  ASSUME NEW f \in Forms, NEW a \in Answers[f], NEW q
  PROVE  LET found == Labelled(a.results, q)
         IN  Canonical(found) /\ PagesOf(found) \subseteq ShownBy(a)
<1> DEFINE found == Labelled(a.results, q)
           rs == a.results
<1>1. /\ rs \in Seq(ToSet(rs))
      /\ \A r \in ToSet(rs) : DOMAIN r = {"page", "title", "snippet", "provider", "query"}
                              /\ r.page \in DOMAIN Page \cup {NoPage}
  BY DiscoveryAssumption DEF DiscoveryAssumption
<1>2. Len(rs) \in Nat /\ DOMAIN rs = 1 .. Len(rs)
  BY <1>1
<1>3. \A i \in 1 .. Len(rs) : rs[i] \in ToSet(rs)
  BY <1>2 DEF ToSet
<1>4. found = [i \in 1 .. Len(rs) |-> [rs[i] EXCEPT !.query = q.words]]
  BY <1>2 DEF Labelled
<1>5. \A i \in 1 .. Len(rs) : found[i].page = rs[i].page /\ found[i].page \in DOMAIN Page \cup {NoPage}
  BY <1>1, <1>3, <1>4
<1>6. DOMAIN found = 1 .. Len(rs)
  BY <1>4
<1> HIDE DEF found, rs
<1>7. IsSeq(found)
  <2>1. \A i \in 1 .. Len(rs) : found[i] \in ToSet(found)
    BY <1>6 DEF ToSet
  <2>2. found \in Seq(ToSet(found))
    BY <1>2, <1>4, <2>1
  <2> QED  BY <2>2 DEF IsSeq
<1>8. \A r \in ToSet(found) : \E i \in 1 .. Len(rs) : r = found[i]
  BY <1>6 DEF ToSet
<1>9. Canonical(found)
  BY <1>5, <1>7, <1>8 DEF Canonical
<1>10. \A r \in Valid(found) : \E i \in DOMAIN rs : r.page = rs[i].page
  BY <1>2, <1>5, <1>8 DEF Valid
<1>11. PagesOf(found) \subseteq {rs[i].page : i \in DOMAIN rs}
  BY <1>10 DEF PagesOf
<1> QED  BY <1>9, <1>11 DEF found, rs, ShownBy

LEMMA MoreResults ==
  ASSUME NEW s, NEW u, Canonical(s), Canonical(u)
  PROVE  Canonical(s \o u) /\ PagesOf(s \o u) \subseteq PagesOf(s) \cup PagesOf(u)
<1> DEFINE S == ToSet(s) \cup ToSet(u)
<1>1. s \in Seq(S) /\ u \in Seq(S)
  BY DEF Canonical, IsSeq
<1> DEFINE x == s \o u
<1>2. x \in Seq(S)
  BY <1>1
<1>3. IsSeq(x)
  <2> HIDE DEF S, x
  <2> QED  BY <1>2, RangeSeq
<1>4. ToSet(x) \subseteq S
  <2> HIDE DEF S, x
  <2>1. DOMAIN x = 1 .. Len(x) /\ \A i \in 1 .. Len(x) : x[i] \in S
    BY <1>2
  <2> QED  BY <2>1 DEF ToSet
<1> HIDE DEF x
<1>5. Canonical(x)
  BY <1>3, <1>4 DEF Canonical
<1>6. PagesOf(x) \subseteq PagesOf(s) \cup PagesOf(u)
  BY <1>4 DEF PagesOf, Valid
<1> QED  BY <1>5, <1>6 DEF x

(* What an answer adds to a run.                                             *)
Adds(h, r, q, a) ==
  /\ DOMAIN h = RunFields
  /\ h.phase = r.phase /\ h.product = r.product /\ h.domains = r.domains
  /\ h.plan = r.plan /\ h.gated = r.gated
  /\ h.asked = Append(r.asked, q)
  /\ h.results = r.results \/ h.results = r.results \o Labelled(a.results, q)
  /\ h.claims = r.claims \/ h.claims = r.claims \o Labelled(a.results, q)
  /\ h.late <=> (r.late \/ r.stopped)
  /\ h.stopped <=> (r.stopped \/ a.exhausted)

LEMMA HeardFields ==
  ASSUME NEW r, DOMAIN r = RunFields, NEW q, NEW a
  PROVE  Adds(Heard(r, q, a), r, q, a)
<1> DEFINE found == Labelled(a.results, q)
           lookup == r.kind = "field" /\ q.form = "website"
           e1 == Append(r.asked, q)
           e2 == IF lookup THEN r.results ELSE r.results \o found
           e3 == IF q.form \in {"official", "website", "authority"} /\ a.success
                 THEN r.claims \o found ELSE r.claims
           e4 == r.issues \cup a.issues
           e5 == r.late \/ r.stopped
           e6 == r.stopped \/ a.exhausted
           h == [r EXCEPT !.asked = e1, !.results = e2, !.claims = e3, !.issues = e4,
                          !.late = e5, !.stopped = e6]
<1>1. Heard(r, q, a) = h
  BY DEF Heard
<1>2. e2 = r.results \/ e2 = r.results \o found
  OBVIOUS
<1>3. e3 = r.claims \/ e3 = r.claims \o found
  OBVIOUS
<1>4. /\ DOMAIN h = RunFields
      /\ h.phase = r.phase /\ h.product = r.product /\ h.domains = r.domains
      /\ h.plan = r.plan /\ h.gated = r.gated
      /\ h.asked = e1 /\ h.results = e2 /\ h.claims = e3 /\ h.late = e5 /\ h.stopped = e6
  <2> HIDE DEF e1, e2, e3, e4, e5, e6
  <2> QED  BY DEF RunFields
<1> HIDE DEF h
<1> QED  BY <1>1, <1>2, <1>3, <1>4 DEF Adds

(* After an answer the queries asked are still apart, if the query is a new    *)
(* one, and what the run knows was shown to its brand.                       *)
Heeded(h, r, q, a, pages) ==
  /\ DOMAIN h = RunFields /\ h.phase = r.phase /\ h.plan = r.plan /\ h.product = r.product
  /\ h.asked = Append(r.asked, q) /\ IsSeq(h.asked) /\ Apart(h.asked)
  /\ ~h.late /\ (h.stopped <=> a.exhausted)
  /\ AuthorityInv(h, pages \cup ShownBy(a))

LEMMA HeardKeeps ==
  ASSUME NEW r, AskInv(r), NEW pages, AuthorityInv(r, pages), ~r.stopped, r.phase # "ranked",
         NEW f \in Forms, NEW a \in Answers[f], NEW q, NoneIn(q, r.asked)
  PROVE  Heeded(Heard(r, q, a), r, q, a, pages)
<1> DEFINE h == Heard(r, q, a)
           more == pages \cup ShownBy(a)
<1> DEFINE found == Labelled(a.results, q)
<1>0. Adds(h, r, q, a)
  BY HeardFields DEF AskInv
<1> HIDE DEF h
<1>1. /\ DOMAIN h = RunFields
      /\ h.phase = r.phase /\ h.product = r.product /\ h.domains = r.domains
      /\ h.plan = r.plan /\ h.gated = r.gated
      /\ h.asked = Append(r.asked, q)
      /\ h.results = r.results \/ h.results = r.results \o found
      /\ h.claims = r.claims \/ h.claims = r.claims \o found
      /\ h.late <=> (r.late \/ r.stopped)
      /\ h.stopped <=> (r.stopped \/ a.exhausted)
  BY <1>0 DEF Adds
<1>2. IsSeq(h.asked) /\ Apart(h.asked)
  BY <1>1, AskedOnce DEF AskInv
<1>3. Canonical(found) /\ PagesOf(found) \subseteq ShownBy(a)
  BY LabelledCanonical
<1> HIDE DEF found
<1>4. /\ Canonical(r.results) /\ PagesOf(r.results) \subseteq pages
      /\ Canonical(r.claims) /\ PagesOf(r.claims) \subseteq pages
      /\ Proofs(r.domains, pages) /\ r.product \in Products
  BY DEF AuthorityInv
<1>m. \A s : Canonical(s) /\ PagesOf(s) \subseteq pages =>
        Canonical(s \o found) /\ PagesOf(s \o found) \subseteq more /\ PagesOf(s) \subseteq more
  <2> TAKE s
  <2> HAVE Canonical(s) /\ PagesOf(s) \subseteq pages
  <2>1. Canonical(s \o found) /\ PagesOf(s \o found) \subseteq PagesOf(s) \cup PagesOf(found)
    BY <1>3, MoreResults
  <2> QED  BY <1>3, <2>1
<1>5. Canonical(h.results) /\ PagesOf(h.results) \subseteq more
  BY <1>1, <1>4, <1>m
<1>6. Canonical(h.claims) /\ PagesOf(h.claims) \subseteq more
  BY <1>1, <1>4, <1>m
<1>7. Proofs(h.domains, more)
  BY <1>1, <1>4, MorePagesShown
<1>8. AuthorityInv(h, more)
  BY <1>1, <1>4, <1>5, <1>6, <1>7 DEF AuthorityInv
<1> QED  BY <1>1, <1>2, <1>8 DEF AskInv, Heeded, h

LEMMA ShowMore ==
  ASSUME DiscoveryInv, NEW r, r.product \in Products, NEW a, Show(r, a)
  PROVE  /\ DOMAIN shown' = Brands /\ r.product.brand \in Brands
         /\ \A b \in Brands : shown[b] \subseteq shown'[b]
         /\ shown'[r.product.brand] =
              shown[r.product.brand] \cup ShownBy(a)
<1>1. DOMAIN shown = Brands
  BY DEF DiscoveryInv, CacheInv
<1>2. r.product.brand \in Brands
  BY DEF Brands
<1> DEFINE new == ShownBy(a)
<1>3. shown' = [shown EXCEPT ![r.product.brand] = shown[r.product.brand] \cup new]
  BY DEF Show, ShownBy
<1> HIDE DEF new
<1>4. /\ DOMAIN shown' = Brands /\ \A b \in Brands : shown[b] \subseteq shown'[b]
      /\ shown'[r.product.brand] = shown[r.product.brand] \cup new
  BY <1>1, <1>2, <1>3
<1> QED  BY <1>2, <1>4 DEF new

LEMMA AskKeeps ==
  ASSUME DiscoveryInv, NEW t \in Threads, NEW f \in Forms, NEW answer \in Answers[f], Ask(t, answer)
  PROVE  DiscoveryInv'
<1> DEFINE r == run[t]
           q == Head(r.plan)
           h == Heard(r, q, answer)
           rest == Rest(r, answer)
           reached == Reaches(r, answer)
           s == [h EXCEPT !.plan = rest, !.reached = reached]
           more == shown[r.product.brand] \cup ShownBy(answer)
<1>1. r.phase = "plan" /\ r.plan # << >>
  BY DEF Ask
<1>2. run' = [run EXCEPT ![t] = s] /\ Show(r, answer) /\ cache' = cache
  BY DEF Ask
<1>3. AskInv(r) /\ AuthorityInv(r, shown[r.product.brand])
  BY <1>1 DEF DiscoveryInv, Runs
<1>4. IsSeq(r.plan) /\ Apart(r.plan) /\ \A j \in DOMAIN r.plan : NoneIn(r.plan[j], r.asked)
  BY <1>1, <1>3 DEF AskInv
<1>5. /\ IsSeq(Tail(r.plan)) /\ Len(r.plan) \in Nat /\ DOMAIN r.plan = 1 .. Len(r.plan)
      /\ q = r.plan[1] /\ 1 \in DOMAIN r.plan /\ DOMAIN Tail(r.plan) = 1 .. Len(r.plan) - 1
      /\ \A i \in 1 .. Len(r.plan) - 1 : Tail(r.plan)[i] = r.plan[i + 1]
  BY <1>1, <1>4, TailIsSeq
<1>6. NoneIn(q, r.asked)
  BY <1>4, <1>5
<1>7. ~r.stopped
  BY <1>1, <1>3 DEF AskInv
<1> HIDE DEF q
<1>8. /\ DOMAIN h = RunFields /\ h.phase = r.phase /\ h.product = r.product
      /\ h.asked = Append(r.asked, q) /\ IsSeq(h.asked) /\ Apart(h.asked)
      /\ ~h.late /\ (h.stopped <=> answer.exhausted)
      /\ AuthorityInv(h, more)
  <2>1. r.phase # "ranked"
    BY <1>1
  <2>2. Heeded(h, r, q, answer, shown[r.product.brand])
    BY <1>3, <1>6, <1>7, <2>1, HeardKeeps
  <2> HIDE DEF h, r
  <2> QED  BY <2>2 DEF Heeded
<1> HIDE DEF h, reached, rest
<1>9. /\ DOMAIN s = RunFields /\ s.phase = h.phase /\ s.product = h.product /\ s.asked = h.asked
      /\ s.late = h.late /\ s.stopped = h.stopped /\ s.plan = rest /\ s.domains = h.domains
      /\ s.results = h.results /\ s.claims = h.claims /\ s.gated = h.gated
  BY <1>8 DEF RunFields
<1>10. rest = << >> \/ (rest = Tail(r.plan) /\ ~answer.exhausted)
  BY DEF rest, Rest
<1>11. IsSeq(rest) /\ Apart(rest) /\ \A j \in DOMAIN rest : NoneIn(rest[j], s.asked)
  <2>1. CASE rest = << >>
    BY <2>1, EmptyIsSeq
  <2>2. CASE rest = Tail(r.plan)
    <3>1. Apart(rest)
      <4> SUFFICES ASSUME NEW i \in DOMAIN rest, NEW j \in DOMAIN rest, Same(rest[i], rest[j])
                   PROVE  i = j
        BY DEF Apart
      <4>1. i \in 1 .. Len(r.plan) - 1 /\ j \in 1 .. Len(r.plan) - 1
        BY <1>5, <2>2
      <4>2. i + 1 \in DOMAIN r.plan /\ j + 1 \in DOMAIN r.plan /\ Same(r.plan[i + 1], r.plan[j + 1])
        BY <1>5, <2>2, <4>1
      <4>3. i + 1 = j + 1
        BY <1>4, <4>2 DEF Apart
      <4> QED  BY <4>1, <4>3, <1>5
    <3>2. ASSUME NEW j \in DOMAIN rest PROVE NoneIn(rest[j], s.asked)
      <4>1. j \in 1 .. Len(r.plan) - 1 /\ rest[j] = r.plan[j + 1]
        BY <1>5, <2>2, <3>2
      <4>2. j + 1 \in DOMAIN r.plan /\ j + 1 # 1
        BY <1>5, <4>1
      <4>3. NoneIn(rest[j], r.asked)
        BY <1>4, <4>1, <4>2
      <4>4. ~Same(rest[j], q)
        BY <1>4, <1>5, <4>1, <4>2 DEF Apart
      <4>5. /\ Len(r.asked) \in Nat /\ DOMAIN r.asked = 1 .. Len(r.asked)
            /\ DOMAIN s.asked = 1 .. Len(r.asked) + 1 /\ s.asked[Len(r.asked) + 1] = q
            /\ \A i \in 1 .. Len(r.asked) : s.asked[i] = r.asked[i]
        BY <1>3, <1>8, <1>9, AppendIsSeq DEF AskInv
      <4>6. \A i \in 1 .. Len(r.asked) + 1 : i \in 1 .. Len(r.asked) \/ i = Len(r.asked) + 1
        BY <4>5
      <4> QED  BY <4>3, <4>4, <4>5, <4>6 DEF NoneIn
    <3> QED  BY <1>5, <2>2, <3>1, <3>2
  <2> QED  BY <1>10, <2>1, <2>2
<1> HIDE DEF s
<1>12. AskInv(s)
  BY <1>1, <1>8, <1>9, <1>10, <1>11 DEF AskInv
<1>13. AuthorityInv(s, more)
  BY <1>1, <1>8, <1>9 DEF AuthorityInv
<1>14. /\ DOMAIN shown' = Brands /\ \A b \in Brands : shown[b] \subseteq shown'[b]
       /\ shown'[r.product.brand] = more
  BY <1>2, <1>3, ShowMore DEF AuthorityInv
<1>15. s.product = r.product
  BY <1>8, <1>9
<1> HIDE DEF r, more
<1> QED  BY <1>2, <1>12, <1>13, <1>14, <1>15, StepOfThread DEF DiscoveryInv, CacheInv

-----------------------------------------------------------------------------
(* The other actions                                                        *)

LEMMA SettleKeeps ==
  ASSUME DiscoveryInv, NEW t \in Threads, Settle(t)
  PROVE  DiscoveryInv'
<1> DEFINE r == run[t]
           brand == r.product.brand
           pages == shown[brand]
<1>1. r.phase = "plan" /\ r.plan = << >> /\ shown' = shown
  BY DEF Settle
<1>2. AskInv(r) /\ AuthorityInv(r, pages) /\ DOMAIN r = RunFields
  BY <1>1 DEF DiscoveryInv, Runs, AskInv
<1> DEFINE domains == IF r.known THEN r.domains ELSE ProvenBy(r)
           sites == SiteDomains(r, domains)
<1>3. /\ cache' = IF r.known THEN cache ELSE CacheFor(r, domains)
      /\ run' = [run EXCEPT ![t] =
           [r EXCEPT !.domains = domains, !.sites = sites,
                     !.phase = IF r.kind = "field" \/ r.stopped \/ r.reached THEN "done" ELSE "site",
                     !.plan = FirstOf(sites, Limit.site)]]
  BY Zenon DEF Settle
<1>d. domains = r.domains \/ domains = ProvenBy(r)
  OBVIOUS
<1> HIDE DEF domains, sites
<1> DEFINE onward == IF r.kind = "field" \/ r.stopped \/ r.reached THEN "done" ELSE "site"
           plan == FirstOf(sites, Limit.site)
           s == [r EXCEPT !.domains = domains, !.sites = sites, !.phase = onward, !.plan = plan]
<1>4. onward = "done" \/ (onward = "site" /\ ~r.stopped)
  OBVIOUS
<1> HIDE DEF onward, plan
<1>5. /\ DOMAIN s = RunFields /\ s.phase = onward /\ s.product = r.product /\ s.asked = r.asked
      /\ s.late = r.late /\ s.stopped = r.stopped /\ s.domains = domains
      /\ s.results = r.results /\ s.claims = r.claims
  BY <1>2 DEF RunFields
<1> HIDE DEF s
<1>6. AskInv(s)
  BY <1>2, <1>4, <1>5 DEF AskInv
<1>7. PagesOf(r.claims) \cup PagesOf(r.results) \subseteq pages
  BY <1>2 DEF AuthorityInv
<1>8. Proofs(ProvenBy(r), pages)
  <2>1. Proofs(ProvenBy(r), PagesOf(r.claims) \cup PagesOf(r.results))
    BY <1>2, OfficialDomainsProven DEF ProvenBy, AuthorityInv
  <2> QED  BY <1>7, <2>1, MorePagesShown
<1>9. Proofs(domains, pages)
  BY <1>2, <1>8, <1>d DEF AuthorityInv
<1>10. AuthorityInv(s, pages)
  BY <1>2, <1>4, <1>5, <1>9 DEF AuthorityInv
<1>11. DOMAIN shown' = Brands /\ \A b \in Brands : shown[b] \subseteq shown'[b]
  BY <1>1 DEF DiscoveryInv, CacheInv
<1>12. /\ DOMAIN cache' = Brands
       /\ \A b \in Brands : cache'[b] = cache[b] \/ Proofs(cache'[b].domains, shown'[b])
  <2>1. CASE r.known
    BY <1>3, <2>1 DEF DiscoveryInv, CacheInv
  <2>2. CASE ~r.known
    <3>1. cache' = [cache EXCEPT ![brand] = Cached(domains)] /\ DOMAIN cache = Brands
      BY <1>3, <2>2 DEF CacheFor, DiscoveryInv, CacheInv
    <3>2. Cached(domains).domains = domains
      BY DEF Cached
    <3> HIDE DEF pages
    <3>3. \A b \in Brands : IF b = brand THEN cache'[b] = Cached(domains) ELSE cache'[b] = cache[b]
      BY <3>1
    <3> QED  BY <1>1, <1>9, <3>1, <3>2, <3>3 DEF pages
  <2> QED  BY <2>1, <2>2
<1>13. run' = [run EXCEPT ![t] = s]
  BY <1>3 DEF s, onward, plan
<1>14. s.product = r.product /\ AuthorityInv(s, shown'[s.product.brand])
  BY <1>1, <1>5, <1>10
<1> HIDE DEF r
<1> QED  BY <1>6, <1>11, <1>12, <1>13, <1>14, StepOfThread

LEMMA FollowKeeps ==
  ASSUME DiscoveryInv, NEW t \in Threads, FollowDomain(t)
  PROVE  DiscoveryInv'
<1> DEFINE r == run[t]
           q == FollowUp(r, Head(r.plan))
           rest == Tail(r.plan)
           pages == shown[r.product.brand]
<1>1. r.phase \in {"site", "exclude"} /\ cache' = cache
  BY DEF FollowDomain
<1>2. AskInv(r) /\ AuthorityInv(r, pages) /\ DOMAIN r = RunFields
  BY <1>1 DEF DiscoveryInv, Runs, AskInv
<1>3. ~r.stopped /\ r.phase # "plan" /\ r.phase # "ranked"
  BY <1>1, <1>2 DEF AskInv
<1>4. CASE ~WorthAsking(r, Head(r.plan))
  <2> DEFINE s == [r EXCEPT !.plan = rest]
  <2>1. run' = [run EXCEPT ![t] = s] /\ shown' = shown
    BY <1>4 DEF FollowDomain
  <2> HIDE DEF rest
  <2>2. /\ DOMAIN s = RunFields /\ s.phase = r.phase /\ s.product = r.product /\ s.asked = r.asked
        /\ s.late = r.late /\ s.stopped = r.stopped /\ s.domains = r.domains
        /\ s.results = r.results /\ s.claims = r.claims
    BY <1>2 DEF RunFields
  <2> HIDE DEF s
  <2>3. AskInv(s)
    BY <1>2, <1>3, <2>2 DEF AskInv
  <2>4. AuthorityInv(s, pages)
    BY <1>2, <1>3, <2>2 DEF AuthorityInv
  <2>5. DOMAIN shown' = Brands /\ (\A b \in Brands : shown[b] \subseteq shown'[b]) /\ DOMAIN cache' = Brands
    BY <1>1, <2>1 DEF DiscoveryInv, CacheInv
  <2>6. AuthorityInv(s, shown'[s.product.brand])
    BY <2>1, <2>2, <2>4
  <2> HIDE DEF r
  <2> QED  BY <1>1, <2>1, <2>3, <2>5, <2>6, StepOfThread
<1>5. CASE WorthAsking(r, Head(r.plan))
  <2>1. PICK answer \in Answers[q.form] :
          /\ run' = [run EXCEPT ![t] =
               IF answer.exhausted THEN [Heard(r, q, answer) EXCEPT !.phase = "done"]
               ELSE [Heard(r, q, answer) EXCEPT !.plan = rest]]
          /\ Show(r, answer)
    BY <1>5 DEF FollowDomain
  <2>2. q.form \in Forms
    BY DEF FollowUp, SiteQuery, Query, Forms, OtherForms
  <2>3. NoneIn(q, r.asked)
    BY <1>5, SameSymmetric DEF WorthAsking, Planned, NoneIn
  <2> DEFINE h == Heard(r, q, answer)
             s == IF answer.exhausted THEN [h EXCEPT !.phase = "done"] ELSE [h EXCEPT !.plan = rest]
             more == pages \cup ShownBy(answer)
  <2> HIDE DEF q
  <2>4. Heeded(h, r, q, answer, pages)
    BY <1>2, <1>3, <2>2, <2>3, HeardKeeps
  <2>5. run' = [run EXCEPT ![t] = s]
    BY <2>1
  <2> HIDE DEF h, rest
  <2>6. /\ DOMAIN h = RunFields /\ h.phase = r.phase /\ h.plan = r.plan /\ h.product = r.product
        /\ IsSeq(h.asked) /\ Apart(h.asked)
        /\ ~h.late /\ (h.stopped <=> answer.exhausted) /\ AuthorityInv(h, more)
    BY <2>4 DEF Heeded
  <2>7. /\ DOMAIN s = RunFields /\ s.product = h.product /\ s.asked = h.asked
        /\ s.late = h.late /\ s.stopped = h.stopped /\ s.domains = h.domains
        /\ s.results = h.results /\ s.claims = h.claims
        /\ IF answer.exhausted THEN s.phase = "done" ELSE s.phase = h.phase
    BY <2>6 DEF RunFields
  <2> HIDE DEF s
  <2>8. AskInv(s)
    BY <1>1, <2>6, <2>7 DEF AskInv
  <2>9. AuthorityInv(s, more)
    BY <1>1, <2>6, <2>7 DEF AuthorityInv
  <2>10. /\ DOMAIN shown' = Brands /\ \A b \in Brands : shown[b] \subseteq shown'[b]
         /\ shown'[r.product.brand] = more
    BY <1>2, <2>1, ShowMore DEF AuthorityInv
  <2>11. s.product = r.product
    BY <2>6, <2>7
  <2>12. AuthorityInv(s, shown'[s.product.brand])
    BY <2>9, <2>10, <2>11
  <2>13. DOMAIN cache' = Brands
    BY <1>1 DEF DiscoveryInv, CacheInv
  <2> HIDE DEF r
  <2> QED  BY <1>1, <2>5, <2>8, <2>10, <2>12, <2>13, StepOfThread
<1> QED  BY <1>4, <1>5

LEMMA LoopKeeps ==
  ASSUME DiscoveryInv, NEW t \in Threads, NextLoop(t)
  PROVE  DiscoveryInv'
<1> DEFINE r == run[t]
           plan == FirstOf(r.sites, Limit.exclude)
           s == IF r.phase = "site" THEN [r EXCEPT !.phase = "exclude", !.plan = plan]
                ELSE [r EXCEPT !.phase = "done"]
<1>1. r.phase \in {"site", "exclude"} /\ cache' = cache /\ shown' = shown /\ run' = [run EXCEPT ![t] = s]
  BY DEF NextLoop
<1>2. AskInv(r) /\ AuthorityInv(r, shown[r.product.brand]) /\ DOMAIN r = RunFields
  BY <1>1 DEF DiscoveryInv, Runs, AskInv
<1>3. ~r.stopped
  BY <1>1, <1>2 DEF AskInv
<1> HIDE DEF plan
<1>4. /\ DOMAIN s = RunFields /\ s.phase \in {"exclude", "done"} /\ s.product = r.product /\ s.asked = r.asked
      /\ s.late = r.late /\ s.stopped = r.stopped /\ s.domains = r.domains
      /\ s.results = r.results /\ s.claims = r.claims
  BY <1>2 DEF RunFields
<1> HIDE DEF s
<1>5. AskInv(s)
  BY <1>2, <1>3, <1>4 DEF AskInv
<1>6. AuthorityInv(s, shown[r.product.brand])
  BY <1>2, <1>4 DEF AuthorityInv
<1>7. AuthorityInv(s, shown'[s.product.brand])
  BY <1>1, <1>4, <1>6
<1>8. DOMAIN shown' = Brands /\ (\A b \in Brands : shown[b] \subseteq shown'[b]) /\ DOMAIN cache' = Brands
  BY <1>1 DEF DiscoveryInv, CacheInv
<1> HIDE DEF r
<1> QED  BY <1>1, <1>5, <1>7, <1>8, StepOfThread

LEMMA RankKeeps ==
  ASSUME DiscoveryInv, NEW t \in Threads, Rank(t)
  PROVE  DiscoveryInv'
<1> DEFINE r == run[t]
           pages == shown[r.product.brand]
           gated == Gated(RankCandidates(r.results, r.product, r.domains), r.product)
           final == IF r.kind = "early" THEN gated ELSE {Annotated(r.product, g) : g \in gated}
           s == [r EXCEPT !.phase = "ranked", !.gated = final]
<1>1. r.phase = "done" /\ cache' = cache /\ shown' = shown /\ run' = [run EXCEPT ![t] = s]
  BY DEF Rank
<1>2. AskInv(r) /\ AuthorityInv(r, pages) /\ DOMAIN r = RunFields
  BY <1>1 DEF DiscoveryInv, Runs, AskInv
<1>3. \A g \in final : Earned(g.candidate, r.domains, pages)
  <2>1. Proofs(r.domains, pages)
    BY <1>2 DEF AuthorityInv
  <2>2. \A g \in gated : Earned(g.candidate, r.domains, pages)
                         /\ Earned(Annotated(r.product, g).candidate, r.domains, pages)
    BY <2>1, AnnotatedEarned
  <2> HIDE DEF gated
  <2> QED  BY <2>2
<1>f. final \in {GatedOf(r), {Annotated(r.product, g) : g \in GatedOf(r)}}
  BY DEF GatedOf
<1> HIDE DEF final
<1>4. /\ DOMAIN s = RunFields /\ s.phase = "ranked" /\ s.product = r.product /\ s.asked = r.asked
      /\ s.late = r.late /\ s.stopped = r.stopped /\ s.domains = r.domains
      /\ s.results = r.results /\ s.claims = r.claims /\ s.gated = final
  BY <1>2 DEF RunFields
<1> HIDE DEF s
<1>5. AskInv(s)
  BY <1>2, <1>4 DEF AskInv
<1>6. AuthorityInv(s, pages)
  <2>1. GatedOf(s) = GatedOf(r)
    BY <1>4 DEF GatedOf
  <2> QED  BY <1>2, <1>3, <1>f, <1>4, <2>1 DEF AuthorityInv
<1>7. AuthorityInv(s, shown'[s.product.brand])
  BY <1>1, <1>4, <1>6
<1>8. DOMAIN shown' = Brands /\ (\A b \in Brands : shown[b] \subseteq shown'[b]) /\ DOMAIN cache' = Brands
  BY <1>1 DEF DiscoveryInv, CacheInv
<1> HIDE DEF r
<1> QED  BY <1>1, <1>5, <1>7, <1>8, StepOfThread

LEMMA FinishKeeps ==
  ASSUME DiscoveryInv, NEW t \in Threads, Finish(t)
  PROVE  DiscoveryInv'
<1>1. run' = [run EXCEPT ![t] = Idle] /\ cache' = cache /\ shown' = shown
  BY DEF Finish
<1>2. Idle.phase = "idle"
  BY DEF Idle
<1>3. DOMAIN shown' = Brands /\ (\A b \in Brands : shown[b] \subseteq shown'[b]) /\ DOMAIN cache' = Brands
  BY <1>1 DEF DiscoveryInv, CacheInv
<1> QED  BY <1>1, <1>2, <1>3, StepOfThread

LEMMA DiscoveryInvariance == Spec => []DiscoveryInv
<1>1. Init => DiscoveryInv
  BY InitKeepsRuns
<1>2. DiscoveryInv /\ [Next]_vars => DiscoveryInv'
  <2> SUFFICES ASSUME DiscoveryInv, [Next]_vars PROVE DiscoveryInv'
    OBVIOUS
  <2>1. CASE UNCHANGED vars
    <3>1. cache' = cache /\ run' = run /\ shown' = shown
      BY <2>1 DEF vars
    <3> QED  BY <3>1 DEF DiscoveryInv, CacheInv, Runs
  <2>2. CASE Next
    <3>1. PICK t \in Threads :
            \/ \E p \in Products, kind \in {"broad", "early", "field"} : Start(t, p, kind)
            \/ \E answer \in UNION {Answers[f] : f \in Forms} : Ask(t, answer)
            \/ Settle(t) \/ FollowDomain(t) \/ NextLoop(t) \/ Rank(t) \/ Finish(t)
      BY <2>2 DEF Next
    <3>2. CASE \E p \in Products, kind \in {"broad", "early", "field"} : Start(t, p, kind)
      BY <3>2, RunStartKeeps
    <3>3. CASE \E answer \in UNION {Answers[f] : f \in Forms} : Ask(t, answer)
      <4>1. PICK f \in Forms : \E answer \in Answers[f] : Ask(t, answer)
        BY <3>3
      <4>2. PICK answer \in Answers[f] : Ask(t, answer)
        BY <4>1
      <4> QED  BY <4>2, AskKeeps
    <3> QED  BY <3>1, <3>2, <3>3, SettleKeeps, FollowKeeps, LoopKeeps, RankKeeps, FinishKeeps
  <2> QED  BY <2>1, <2>2
<1> QED  BY <1>1, <1>2, PTL DEF Spec

(* A candidate is verified only through a domain that owns it and whose        *)
(* evidence page a searcher showed in a run of its brand, whatever the         *)
(* searcher says and however runs share the cache of official domains.         *)
THEOREM Authority == Spec => []AuthorityIsEarned
<1>1. DiscoveryInv => AuthorityIsEarned
  <2> SUFFICES ASSUME DiscoveryInv, NEW t \in Threads, Done(t), NEW g \in run[t].gated
               PROVE  Earned(g.candidate, run[t].domains, shown[run[t].product.brand])
    BY DEF AuthorityIsEarned, Earned
  <2> QED  BY DEF DiscoveryInv, Runs, Done, AuthorityInv
<1> QED  BY <1>1, DiscoveryInvariance, PTL

(* No query is asked twice in a run, and none after the budget is exhausted.   *)
THEOREM QueriesOnce == Spec => []NoWastedQuery
<1>1. DiscoveryInv => NoWastedQuery
  BY DEF DiscoveryInv, AskInv, Apart, NoWastedQuery
<1> QED  BY <1>1, DiscoveryInvariance, PTL

-----------------------------------------------------------------------------
(* The candidates of a run                                                  *)

Verdicts == {"exact", "likely_variant", "likely", "unknown", "mismatch", "different_variant"}

LEMMA MatchVerdict == \A model, title, path : CandidateModelMatch(model, title, path) \in Verdicts
<1>1. \A model, words : CompoundModelMatch(model, words) \in {"exact", "likely", "unknown"}
  BY DEF CompoundModelMatch
<1>2. \A model, text : ModelMatch(model, text) \in Verdicts
  BY <1>1 DEF ModelMatch, Verdicts
<1>3. \A model, title, path, said, words, match :
        match \in Verdicts => Weighed(model, title, path, said, words, match) \in Verdicts
  BY <1>2 DEF Weighed, Verdicts
<1> QED  BY <1>2, <1>3 DEF CandidateModelMatch

LEMMA KindOfPage == \A u : PageKind(u) \in Kinds
  BY DEF PageKind, Kinds

LEMMA SourceTypes ==
  ASSUME NEW u, NEW official
  PROVE  ClassifySource(u, official) \in {"marketplace", "specialized_reference", "manufacturer",
                                          "retailer", "other"}
  BY DEF ClassifySource

LEMMA ScoreType ==
  ASSUME NEW u, NEW said, NEW type \in DOMAIN TypeScore, NEW authority, NEW match \in Verdicts, NEW product
  PROVE  ScoreCandidate(u, said, type, authority, match, product) \in Int
<1>1. MatchScore[match] \in Int
  BY DEF MatchScore, Verdicts
<1>2. TypeScore[type] \in Int
  BY DEF TypeScore
<1>3. KindScore[PageKind(u)] \in Int
  BY KindOfPage DEF KindScore, Kinds
<1> QED  BY <1>1, <1>2, <1>3 DEF ScoreCandidate

LEMMA CandidateShape ==
  ASSUME NEW r, NEW product, NEW domains
  PROVE  LET c == CandidateOf(r, product, domains)
         IN  /\ c.page = r.page /\ c.score \in Int
             /\ c.provenance = {[provider |-> r.provider, query |-> r.query]}
<1> DEFINE owner == DomainOf(r.page, domains)
           match == MatchOf(r, product.model)
           source == ClassifySource(r.page, owner.evidence # NoPage)
           verified == source = "manufacturer" /\ owner.evidence # NoPage
           type == IF verified /\ IsOfficialDocument(r.page) THEN "official_document" ELSE source
           authority == IF verified THEN "verified" ELSE "unknown"
           score == ScoreCandidate(r.page, Sayings(r), type, authority, match, product)
<1>1. match \in Verdicts
  BY MatchVerdict DEF MatchOf
<1>2. type \in DOMAIN TypeScore
  BY SourceTypes DEF TypeScore
<1>3. score \in Int
  <2> HIDE DEF match, type, authority
  <2> QED  BY <1>1, <1>2, ScoreType
<1>4. /\ CandidateOf(r, product, domains).page = r.page
      /\ CandidateOf(r, product, domains).score = score
      /\ CandidateOf(r, product, domains).provenance = {[provider |-> r.provider, query |-> r.query]}
  BY DEF CandidateOf, CandidateWith
<1> QED  BY <1>3, <1>4

(* The pages of the results that rank_candidates looks at.                   *)
ConsideredIn(results, product) == {i \in DOMAIN results : Considered(results[i], product.model)}

LEMMA ConsideredByPage ==
  ASSUME NEW results, NEW product, NEW i \in ConsideredIn(results, product),
         NEW j \in DOMAIN results, results[j].page = results[i].page
  PROVE  j \in ConsideredIn(results, product)
  BY DEF ConsideredIn, Considered

(* The candidates of a run: one for each page considered, with the provenance *)
(* of every result of that page.                                             *)
OnePerPage(C, results, product) ==
  /\ \A c \in C : \E i \in ConsideredIn(results, product) : c.page = results[i].page
  /\ \A i \in ConsideredIn(results, product) : \E c \in C : c.page = results[i].page
  /\ \A c, d \in C : c.page = d.page => c = d
  /\ \A c \in C, i \in DOMAIN results : results[i].page = c.page =>
       [provider |-> results[i].provider, query |-> results[i].query] \in c.provenance

LEMMA RankedOnePerPage ==
  ASSUME NEW results, Canonical(results), NEW product, NEW domains
  PROVE  OnePerPage(RankCandidates(results, product, domains), results, product)
<1> DEFINE considered == ConsideredIn(results, product)
           candidate == [i \in considered |-> CandidateOf(results[i], product, domains)]
           Mates(i) == {j \in considered : results[j].page = results[i].page}
           Wins(i) == \A j \in Mates(i) :
                        \/ candidate[i].score > candidate[j].score
                        \/ candidate[i].score = candidate[j].score /\ i <= j
           All(i) == {candidate[j] : j \in Mates(i)}
           K == RankCandidates(results, product, domains)
<1>1. K = {Merged(candidate[i], All(i)) : i \in {i \in considered : Wins(i)}}
  BY DEF RankCandidates, ConsideredIn
<1>2. \A i \in considered : /\ i \in Nat /\ candidate[i].score \in Int
                            /\ candidate[i].page = results[i].page
                            /\ candidate[i].provenance =
                                 {[provider |-> results[i].provider, query |-> results[i].query]}
  BY CandidateShape, CanonicalPages DEF ConsideredIn
<1>3. IsFiniteSet(considered)
  BY CanonicalPages, FS_Subset DEF ConsideredIn
<1>4. \A i \in considered : \E j \in Mates(i) : Wins(j)
  <2> TAKE i \in considered
  <2> DEFINE f == [j \in Mates(i) |-> <<0 - candidate[j].score, j, j>>]
             S == {f[j] : j \in Mates(i)}
  <2>1. IsFiniteSet(Mates(i)) /\ i \in Mates(i)
    BY <1>3, FS_Subset
  <2> HIDE DEF candidate
  <2>2. IsFiniteSet(S)
    <3>1. DOMAIN f = Mates(i)
      OBVIOUS
    <3> HIDE DEF f
    <3> QED  BY <2>1, <3>1, FiniteImage
  <2>3. \A j \in Mates(i) : f[j][1] = 0 - candidate[j].score /\ f[j][3] = j /\ j \in Nat
                            /\ candidate[j].score \in Int
    BY <1>2
  <2>4. Rankable(S) /\ S # {}
    <3> HIDE DEF f
    <3> QED  BY <2>1, <2>2, <2>3 DEF Rankable
  <2>5. PICK w \in S : \A e \in S : ~Stronger(w, e)
    BY <2>4, Weakest
  <2>6. PICK j \in Mates(i) : w = f[j]
    OBVIOUS
  <2>7. \A k \in Mates(i) : ~Stronger(f[j], f[k])
    BY <2>5, <2>6
  <2> HIDE DEF f, S
  <2>8. \A k \in Mates(i) : \/ candidate[j].score > candidate[k].score
                            \/ candidate[j].score = candidate[k].score /\ j <= k
    BY <2>3, <2>7 DEF Stronger
  <2>9. Mates(j) = Mates(i)
    OBVIOUS
  <2> QED  BY <2>8, <2>9
<1>5. \A i, j \in considered : Wins(i) /\ Wins(j) /\ results[i].page = results[j].page => i = j
  <2> HIDE DEF candidate
  <2> QED  BY <1>2
<1>6. \A i \in considered : LET m == Merged(candidate[i], All(i)) IN
        m.page = results[i].page /\ m.provenance = UNION {c.provenance : c \in All(i)}
  <2> TAKE i \in considered
  <2>1. candidate[i] = CandidateOf(results[i], product, domains)
    OBVIOUS
  <2> HIDE DEF All, candidate
  <2> QED  BY <2>1 DEF Merged, CandidateOf, CandidateWith
<1>7. \A c \in K : \E i \in considered : Wins(i) /\ c = Merged(candidate[i], All(i))
  BY <1>1
<1>8. \A i \in considered : Wins(i) => Merged(candidate[i], All(i)) \in K
  BY <1>1
<1> HIDE DEF K, candidate
<1>9. ASSUME NEW c \in K PROVE \E i \in considered : c.page = results[i].page
  BY <1>6, <1>7
<1>10. ASSUME NEW i \in considered PROVE \E c \in K : c.page = results[i].page
  <2>1. PICK j \in Mates(i) : Wins(j)
    BY <1>4
  <2> HIDE DEF Wins, All
  <2>2. Merged(candidate[j], All(j)) \in K /\ Merged(candidate[j], All(j)).page = results[j].page
    BY <1>6, <1>8, <2>1
  <2> QED  BY <2>2
<1>11. ASSUME NEW c \in K, NEW d \in K, c.page = d.page PROVE c = d
  <2> HIDE DEF Wins, All
  <2>1. PICK i \in considered : Wins(i) /\ c = Merged(candidate[i], All(i))
    BY <1>7
  <2>2. PICK j \in considered : Wins(j) /\ d = Merged(candidate[j], All(j))
    BY <1>7
  <2>3. c.page = results[i].page /\ d.page = results[j].page
    BY <1>6, <2>1, <2>2
  <2>4. i = j
    BY <1>5, <1>11, <2>1, <2>2, <2>3
  <2> QED  BY <2>1, <2>2, <2>4
<1>12. ASSUME NEW c \in K, NEW i \in DOMAIN results, results[i].page = c.page
       PROVE  [provider |-> results[i].provider, query |-> results[i].query] \in c.provenance
  <2>1. PICK j \in considered : c = Merged(candidate[j], All(j))
    BY <1>7
  <2>2. c.page = results[j].page /\ c.provenance = UNION {x.provenance : x \in All(j)}
    BY <1>6, <2>1
  <2>3. i \in Mates(j)
    BY <1>12, <2>2, ConsideredByPage
  <2>4. candidate[i] \in All(j)
    BY <2>3
  <2> DEFINE e == [provider |-> results[i].provider, query |-> results[i].query]
  <2>5. e \in candidate[i].provenance
    BY <1>2, <2>3
  <2> HIDE DEF e, All
  <2> QED  BY <2>2, <2>4, <2>5 DEF e
<1> QED  BY <1>9, <1>10, <1>11, <1>12 DEF OnePerPage, K

-----------------------------------------------------------------------------
(* The trace of a run                                                       *)

(* What the gate and the annotations make of candidates: the page and the     *)
(* provenance of each are kept, and the gate's answer is one for each page.   *)
Sifted(G, results, product) ==
  /\ \A g \in G : \E i \in ConsideredIn(results, product) : g.candidate.page = results[i].page
  /\ \A i \in ConsideredIn(results, product) : \E g \in G : g.candidate.page = results[i].page
  /\ \A g, h \in G : g.candidate.page = h.candidate.page => g = h
  /\ \A g \in G, i \in DOMAIN results : results[i].page = g.candidate.page =>
       [provider |-> results[i].provider, query |-> results[i].query] \in g.candidate.provenance

LEMMA GatedSifted ==
  ASSUME NEW results, NEW product, NEW C, OnePerPage(C, results, product)
  PROVE  Sifted(Gated(C, product), results, product)
<1> DEFINE G == Gated(C, product)
           Of(c) == [gate |-> AssessCandidateRelevance(c, product), candidate |-> c]
<1>1. /\ \A g \in G : g.candidate \in C /\ g = Of(g.candidate)
      /\ \A c \in C : Of(c) \in G /\ Of(c).candidate = c
  BY DEF Gated
<1> HIDE DEF G, Of
<1>2. ASSUME NEW g \in G, NEW h \in G, g.candidate.page = h.candidate.page PROVE g = h
  <2>1. g.candidate = h.candidate
    BY <1>1, <1>2 DEF OnePerPage
  <2> QED  BY <1>1, <2>1
<1>3. ASSUME NEW i \in ConsideredIn(results, product) PROVE \E g \in G : g.candidate.page = results[i].page
  <2>1. PICK c \in C : c.page = results[i].page
    BY DEF OnePerPage
  <2> QED  BY <1>1, <2>1
<1> QED  BY <1>1, <1>2, <1>3 DEF OnePerPage, Sifted, G

LEMMA AnnotatedSifted ==
  ASSUME NEW results, NEW product, NEW domains, NEW K, K = RankCandidates(results, product, domains),
         Sifted(Gated(K, product), results, product)
  PROVE  Sifted({Annotated(product, g) : g \in Gated(K, product)}, results, product)
<1> DEFINE G == Gated(K, product)
           F == {"page", "title", "type", "authority", "evidence", "match", "relevance", "relation",
                 "score", "provenance"}
<1>1. ASSUME NEW g \in G
      PROVE  /\ Annotated(product, g).candidate.page = g.candidate.page
             /\ Annotated(product, g).candidate.provenance = g.candidate.provenance
  <2>1. PICK c \in K : g = [gate |-> AssessCandidateRelevance(c, product), candidate |-> c]
    BY DEF Gated
  <2>2. \E i \in DOMAIN results : \E all : c = Merged(CandidateOf(results[i], product, domains), all)
    BY DEF RankCandidates
  <2>3. DOMAIN c = F
    BY <2>2 DEF Merged, CandidateOf, CandidateWith
  <2> DEFINE x == Renamed(product, c)
  <2>4. x.page = c.page /\ x.provenance = c.provenance /\ DOMAIN x = F
    BY <2>3 DEF Renamed
  <2> DEFINE y == [x EXCEPT !.relation = SourceIdentityRelation(product, x)]
  <2>5. y.page = c.page /\ y.provenance = c.provenance
    <3> HIDE DEF x
    <3> QED  BY <2>4
  <2>6. g.candidate = c
    BY <2>1
  <2>7. Annotated(product, g).candidate = c \/ Annotated(product, g).candidate = y
    BY <2>1, <2>6 DEF Annotated
  <2> HIDE DEF x, y
  <2> QED  BY <2>5, <2>6, <2>7
<1> DEFINE A(g) == Annotated(product, g)
           N == {A(g) : g \in G}
<1>2. /\ \A n \in N : \E g \in G : n = A(g)
      /\ \A g \in G : A(g) \in N
  OBVIOUS
<1>3. \A g \in G : A(g).candidate.page = g.candidate.page /\ A(g).candidate.provenance = g.candidate.provenance
  BY <1>1
<1> HIDE DEF A, G, N
<1>4. Sifted(G, results, product)
  BY DEF G
<1>5. ASSUME NEW n \in N PROVE \E i \in ConsideredIn(results, product) : n.candidate.page = results[i].page
  BY <1>2, <1>3, <1>4 DEF Sifted
<1>6. ASSUME NEW i \in ConsideredIn(results, product) PROVE \E n \in N : n.candidate.page = results[i].page
  <2>1. PICK g \in G : g.candidate.page = results[i].page
    BY <1>4 DEF Sifted
  <2> QED  BY <1>2, <1>3, <2>1
<1>7. ASSUME NEW n \in N, NEW m \in N, n.candidate.page = m.candidate.page PROVE n = m
  <2>1. PICK g \in G : n = A(g)
    BY <1>2
  <2>2. PICK h \in G : m = A(h)
    BY <1>2
  <2>3. g.candidate.page = h.candidate.page
    BY <1>3, <1>7, <2>1, <2>2
  <2>4. g = h
    BY <1>4, <2>3 DEF Sifted
  <2> QED  BY <2>1, <2>2, <2>4
<1>8. ASSUME NEW n \in N, NEW i \in DOMAIN results, results[i].page = n.candidate.page
      PROVE  [provider |-> results[i].provider, query |-> results[i].query] \in n.candidate.provenance
  <2>1. PICK g \in G : n = A(g)
    BY <1>2
  <2>2. results[i].page = g.candidate.page
    BY <1>3, <1>8, <2>1
  <2> DEFINE e == [provider |-> results[i].provider, query |-> results[i].query]
  <2>3. e \in g.candidate.provenance
    BY <1>4, <2>2 DEF Sifted
  <2> HIDE DEF e
  <2>4. e \in n.candidate.provenance
    BY <1>3, <2>1, <2>3
  <2> QED  BY <2>4 DEF e
<1> QED  BY <1>5, <1>6, <1>7, <1>8 DEF Sifted, N, A, G

(* As many places as members, when each member has one place of its own.     *)
LEMMA OneEach ==
  ASSUME NEW n \in Nat, NEW I \in SUBSET (1 .. n), NEW S, NEW f \in [I -> S],
         \A i, j \in I : f[i] = f[j] => i = j, \A s \in S : \E i \in I : f[i] = s
  PROVE  Cardinality(I) = Cardinality(S)
<1>1. IsFiniteSet(I)
  <2>1. IsFiniteSet(1 .. n)
    BY FS_Interval
  <2> QED  BY <2>1, FS_Subset
<1>2. ExistsBijection(I, S)
  <2>1. f \in Bijection(I, S)
    BY DEF Bijection, Injection, Surjection, IsInjective
  <2> QED  BY <2>1 DEF ExistsBijection
<1> QED  BY <1>1, <1>2, FS_Bijection

(* The first place of each page looked at.                                   *)
First(results, product) ==
  {i \in ConsideredIn(results, product) : ~\E j \in 1 .. i - 1 : results[j].page = results[i].page}

LEMMA FirstOfEach ==
  ASSUME NEW results, Canonical(results), NEW product
  PROVE  /\ \A i \in ConsideredIn(results, product) : \E j \in First(results, product) :
              results[j].page = results[i].page
         /\ \A i, j \in First(results, product) : results[i].page = results[j].page => i = j
         /\ Len(results) \in Nat /\ First(results, product) \subseteq 1 .. Len(results)
<1>1. Len(results) \in Nat /\ DOMAIN results = 1 .. Len(results)
  BY CanonicalPages
<1>2. ASSUME NEW i \in ConsideredIn(results, product)
      PROVE  \E j \in First(results, product) : results[j].page = results[i].page
  <2> DEFINE M == {j \in ConsideredIn(results, product) : results[j].page = results[i].page}
  <2>1. M \subseteq Nat /\ i \in M
    BY <1>1 DEF ConsideredIn
  <2>2. PICK j \in M : \A k \in M : j <= k
    <3> HIDE DEF M
    <3> QED  BY <2>1, Least
  <2>3. ASSUME NEW k \in 1 .. j - 1, results[k].page = results[j].page PROVE FALSE
    <3>1. j \in 1 .. Len(results) /\ k \in DOMAIN results /\ k < j
      BY <1>1 DEF ConsideredIn
    <3>2. k \in ConsideredIn(results, product)
      BY <2>3, <3>1, ConsideredByPage
    <3> QED  BY <2>2, <2>3, <3>1, <3>2
  <2> QED  BY <2>3 DEF First
<1>3. ASSUME NEW i \in First(results, product), NEW j \in First(results, product),
             results[i].page = results[j].page
      PROVE  i = j
  <2>1. i \in 1 .. Len(results) /\ j \in 1 .. Len(results)
    BY <1>1 DEF First, ConsideredIn
  <2>2. ~(i < j) /\ ~(j < i)
    BY <1>3, <2>1 DEF First
  <2> QED  BY <2>1, <2>2
<1>4. First(results, product) \subseteq 1 .. Len(results)
  BY <1>1 DEF First, ConsideredIn
<1> QED  BY <1>1, <1>2, <1>3, <1>4

(* As many first places as candidates, for any set of candidates of which each *)
(* has a page of its own.                                                    *)
LEMMA PlacesCounted ==
  ASSUME NEW results, Canonical(results), NEW product, NEW S,
         \A c \in S : \E i \in ConsideredIn(results, product) : c.page = results[i].page,
         \A c, d \in S : c.page = d.page => c = d
  PROVE  Cardinality({i \in First(results, product) : results[i].page \in PagesIn(S)}) = Cardinality(S)
<1> DEFINE I == {i \in First(results, product) : results[i].page \in PagesIn(S)}
           f == [i \in I |-> CHOOSE c \in S : c.page = results[i].page]
<1>1. \A i \in I : f[i] \in S /\ f[i].page = results[i].page
  BY DEF PagesIn
<1>2. Len(results) \in Nat /\ I \in SUBSET (1 .. Len(results))
  BY FirstOfEach
<1>3. f \in [I -> S]
  BY <1>1
<1>4. \A i, j \in I : results[i].page = results[j].page => i = j
  BY FirstOfEach
<1>5. ASSUME NEW s \in S PROVE \E i \in I : results[i].page = s.page
  <2>1. PICK i \in ConsideredIn(results, product) : s.page = results[i].page
    OBVIOUS
  <2>2. PICK j \in First(results, product) : results[j].page = results[i].page
    BY FirstOfEach
  <2> QED  BY <2>1, <2>2 DEF PagesIn
<1> HIDE DEF I, f
<1>6. \A i, j \in I : f[i] = f[j] => i = j
  BY <1>1, <1>4
<1>7. \A s \in S : \E i \in I : f[i] = s
  <2> TAKE s \in S
  <2>1. PICK i \in I : results[i].page = s.page
    BY <1>5
  <2>2. f[i] = s
    BY <1>1, <2>1
  <2> QED  BY <2>2
<1>8. Cardinality(I) = Cardinality(S)
  BY <1>2, <1>3, <1>6, <1>7, OneEach
<1> QED  BY <1>8 DEF I

(* Where the trace says "accepted" and where "rejected", and that it falls     *)
(* through nowhere.                                                          *)
LEMMA Fates ==
  ASSUME NEW results, Canonical(results), NEW product, NEW G, Sifted(G, results, product),
         NEW i \in DOMAIN results
  PROVE  LET fate == TraceEntry(results, i, Accepted(G), Rejected(G), product.model) IN
         /\ fate = "accepted" <=> i \in First(results, product) /\ results[i].page \in PagesIn(Accepted(G))
         /\ fate = "rejected" <=> i \in First(results, product) /\ results[i].page \in PagesIn(Rejected(G))
         /\ fate # "unclassified_pre_ranking_drop"
<1> DEFINE u == results[i].page
           seen == \E j \in 1 .. i - 1 : results[j].page = u
           a == u \in PagesIn(Accepted(G))
           b == u \in PagesIn(Rejected(G))
           fate == TraceEntry(results, i, Accepted(G), Rejected(G), product.model)
<1>1. fate = IF u = NoPage THEN "invalid_or_non_http_url"
             ELSE IF ~Considered(results[i], product.model) THEN "obvious_non_product_or_blocked_url"
             ELSE IF seen THEN "merged_duplicate"
             ELSE IF a THEN "accepted"
             ELSE IF b THEN "rejected"
             ELSE "unclassified_pre_ranking_drop"
  BY DEF TraceEntry
<1>2. i \in ConsideredIn(results, product) <=> Considered(results[i], product.model)
  BY DEF ConsideredIn
<1>3. i \in First(results, product) <=> i \in ConsideredIn(results, product) /\ ~seen
  BY DEF First
<1>4. Considered(results[i], product.model) => u # NoPage
  BY DEF Considered
<1>5. ASSUME a PROVE \E g \in G : g.gate # "reject" /\ g.candidate.page = u
  BY <1>5 DEF PagesIn, Accepted
<1>6. ASSUME b PROVE \E g \in G : g.gate = "reject" /\ g.candidate.page = u
  BY <1>6 DEF PagesIn, Rejected
<1>7. ~(a /\ b)
  <2> SUFFICES ASSUME a, b PROVE FALSE
    OBVIOUS
  <2>1. PICK g \in G : g.gate # "reject" /\ g.candidate.page = u
    BY <1>5
  <2>2. PICK h \in G : h.gate = "reject" /\ h.candidate.page = u
    BY <1>6
  <2>3. g.candidate.page = h.candidate.page
    BY <2>1, <2>2
  <2> QED  BY <2>1, <2>2, <2>3 DEF Sifted
<1>8. ASSUME i \in ConsideredIn(results, product) PROVE a \/ b
  <2>1. PICK g \in G : g.candidate.page = u
    BY <1>8 DEF Sifted
  <2> QED  BY <2>1 DEF PagesIn, Accepted, Rejected
<1> HIDE DEF u, seen, a, b, fate
<1>9. /\ fate = "accepted" <=> i \in First(results, product) /\ a
      /\ fate = "rejected" <=> i \in First(results, product) /\ b
      /\ fate # "unclassified_pre_ranking_drop"
  BY <1>1, <1>2, <1>3, <1>4, <1>7, <1>8
<1> QED  BY <1>9 DEF fate, a, b, u

LEMMA TraceCounted ==
  ASSUME NEW results, Canonical(results), NEW product, NEW G, Sifted(G, results, product)
  PROVE  LET trace == DiscoveryTrace(results, Accepted(G), Rejected(G), product.model)
             Times(fate) == Cardinality({i \in DOMAIN trace : trace[i] = fate})
         IN  /\ Times("unclassified_pre_ranking_drop") = 0
             /\ Times("accepted") = Cardinality(Accepted(G))
             /\ Times("rejected") = Cardinality(Rejected(G))
<1> DEFINE trace == DiscoveryTrace(results, Accepted(G), Rejected(G), product.model)
           Places(fate) == {i \in DOMAIN trace : trace[i] = fate}
           Firsts(S) == {i \in First(results, product) : results[i].page \in PagesIn(S)}
<1>1. DOMAIN trace = DOMAIN results /\ \A i \in DOMAIN results :
        trace[i] = TraceEntry(results, i, Accepted(G), Rejected(G), product.model)
  BY DEF DiscoveryTrace
<1>2. First(results, product) \subseteq DOMAIN results
  BY DEF First, ConsideredIn
<1> HIDE DEF trace
<1>3. Places("unclassified_pre_ranking_drop") = {}
  BY <1>1, Fates
<1>4. \A i \in DOMAIN results :
        /\ trace[i] = "accepted" <=> i \in First(results, product) /\ results[i].page \in PagesIn(Accepted(G))
        /\ trace[i] = "rejected" <=> i \in First(results, product) /\ results[i].page \in PagesIn(Rejected(G))
  BY <1>1, Fates
<1>5. Places("accepted") = Firsts(Accepted(G)) /\ Places("rejected") = Firsts(Rejected(G))
  BY <1>1, <1>2, <1>4
<1>6. /\ \A c \in Accepted(G) \cup Rejected(G) : \E g \in G : c = g.candidate
      /\ \A c, d \in Accepted(G) \cup Rejected(G) : c.page = d.page => c = d
  <2>1. \A c \in Accepted(G) \cup Rejected(G) : \E g \in G : c = g.candidate
    BY DEF Accepted, Rejected
  <2> QED  BY <2>1 DEF Sifted
<1>7. \A c \in Accepted(G) \cup Rejected(G) : \E i \in ConsideredIn(results, product) : c.page = results[i].page
  BY <1>6 DEF Sifted
<1>8. Cardinality(Firsts(Accepted(G))) = Cardinality(Accepted(G))
  BY <1>6, <1>7, PlacesCounted
<1>9. Cardinality(Firsts(Rejected(G))) = Cardinality(Rejected(G))
  BY <1>6, <1>7, PlacesCounted
<1>10. Cardinality(Places("unclassified_pre_ranking_drop")) = 0
  BY <1>3, FS_EmptySet
<1>11. Cardinality(Places("accepted")) = Cardinality(Accepted(G))
  BY <1>5, <1>8
<1>12. Cardinality(Places("rejected")) = Cardinality(Rejected(G))
  BY <1>5, <1>9
<1> QED  BY <1>10, <1>11, <1>12 DEF trace

LEMMA RunAccounted ==
  ASSUME DiscoveryInv, NEW t \in Threads, Done(t)
  PROVE  Canonical(run[t].results) /\ Sifted(run[t].gated, run[t].results, run[t].product)
<1> DEFINE r == run[t]
           K == RankCandidates(r.results, r.product, r.domains)
<1>1. AuthorityInv(r, shown[r.product.brand]) /\ r.phase = "ranked"
  BY DEF DiscoveryInv, Runs, Done
<1>2. Canonical(r.results)
  BY <1>1 DEF AuthorityInv
<1>3. OnePerPage(K, r.results, r.product)
  BY <1>2, RankedOnePerPage
<1>4. Sifted(Gated(K, r.product), r.results, r.product)
  BY <1>3, GatedSifted
<1>5. Sifted({Annotated(r.product, g) : g \in Gated(K, r.product)}, r.results, r.product)
  BY <1>4, AnnotatedSifted
<1>6. r.gated \in {Gated(K, r.product), {Annotated(r.product, g) : g \in Gated(K, r.product)}}
  BY <1>1 DEF AuthorityInv, GatedOf
<1> HIDE DEF K
<1>7. r.gated = Gated(K, r.product) \/ r.gated = {Annotated(r.product, g) : g \in Gated(K, r.product)}
  BY <1>6
<1> QED  BY <1>2, <1>4, <1>5, <1>7

(* Whatever the searcher shows: each result collected is accounted for, each   *)
(* candidate accepted or rejected is named once in the trace, and has the      *)
(* provenance of every result of its page.                                   *)
THEOREM Accounted == Spec => []EveryResultAccounted
<1>1. DiscoveryInv => EveryResultAccounted
  <2> SUFFICES ASSUME DiscoveryInv PROVE EveryResultAccounted
    OBVIOUS
  <2>1. \A t \in Threads : Done(t) =>
          Canonical(run[t].results) /\ Sifted(run[t].gated, run[t].results, run[t].product)
    BY RunAccounted
  <2>2. \A t \in Threads : Done(t) =>
          LET r == run[t]
              trace == DiscoveryTrace(r.results, Accepted(r.gated), Rejected(r.gated), r.product.model)
              Times(fate) == Cardinality({i \in DOMAIN trace : trace[i] = fate})
          IN  /\ Times("unclassified_pre_ranking_drop") = 0
              /\ Times("accepted") = Cardinality(Accepted(r.gated))
              /\ Times("rejected") = Cardinality(Rejected(r.gated))
    BY <2>1, TraceCounted
  <2>3. \A t \in Threads : Done(t) =>
          \A g \in run[t].gated, i \in DOMAIN run[t].results :
            run[t].results[i].page = g.candidate.page
              => [provider |-> run[t].results[i].provider, query |-> run[t].results[i].query]
                   \in g.candidate.provenance
    BY <2>1 DEF Sifted
  <2> QED  BY <2>2, <2>3 DEF EveryResultAccounted
<1> QED  BY <1>1, DiscoveryInvariance, PTL

-----------------------------------------------------------------------------
(* Variants and other models                                                *)

(* An address that names another product outweighs any title.                *)
LEMMA OtherNamed ==
  ASSUME NEW model, NEW title, NEW path, NamesAnother(model, path)
  PROVE  CandidateModelMatch(model, title, path) \in {"different_variant", "mismatch"}
<1>. DEFINE words == FlattenSeq(path)
            said == FlattenSeq(title)
            match == ModelMatch(model, title)
<1>1. CandidateModelMatch(model, title, path) = Weighed(model, title, path, said, words, match)
  BY DEF CandidateModelMatch
<1>2. \/ LongerModel(model, path, words) \/ OtherNumber(model, words) \/ LongerNumber(model, words)
      \/ NearIdentifier(model, words)
  BY DEF NamesAnother, LongerModel
<1>3. PathNamesVariant(model, path, words) \/ NearIdentifier(model, words)
  BY <1>2 DEF PathNamesVariant
<1>. HIDE DEF words, said, match
<1>. QED BY <1>1, <1>3 DEF Weighed

(* The gate rejects what the matchers call another product.                  *)
LEMMA OtherRejected ==
  ASSUME NEW p, NEW u, NEW title, NEW domains,
         CandidateModelMatch(p.model, title, PathOf(u)) \in {"different_variant", "mismatch"}
  PROVE  LET result == [page |-> u, title |-> title, snippet |-> << >>, provider |-> "any", query |-> << >>]
         IN  AssessCandidateRelevance(CandidateOf(result, p, domains), p) = "reject"
<1>. DEFINE result == [page |-> u, title |-> title, snippet |-> << >>, provider |-> "any", query |-> << >>]
            c == CandidateOf(result, p, domains)
<1>1. MatchOf(result, p.model) \in {"different_variant", "mismatch"}
  BY DEF MatchOf
<1>2. c.match = MatchOf(result, p.model)
  <2>. HIDE DEF result
  <2>. QED BY DEF CandidateOf, CandidateWith
<1>3. c.match \in {"different_variant", "mismatch"}
  BY <1>1, <1>2
<1>. HIDE DEF c
<1>4. AssessCandidateRelevance(c, p) = "reject"
  BY <1>3 DEF AssessCandidateRelevance
<1>. QED BY <1>4 DEF c

(* A page whose address names a variant of the model, or another model in its  *)
(* place, is rejected whatever its title says, for models of one word or more. *)
THEOREM VariantsRejected == Spec => []VariantPageNeverExact
<1>1. DiscoveryInv => VariantPageNeverExact
  <2>. SUFFICES ASSUME DiscoveryInv, NEW t \in Runs, NEW u \in DOMAIN Page, NEW title \in Titles,
                       NamesAnother(run[t].product.model, PathOf(u))
                PROVE  ~CouldPass(run[t], u, title)
    BY DEF VariantPageNeverExact
  <2>1. PICK p, domains : p = run[t].product /\ domains = run[t].domains
    OBVIOUS
  <2>2. CandidateModelMatch(p.model, title, PathOf(u)) \in {"different_variant", "mismatch"}
    BY <2>1, OtherNamed
  <2>. QED BY <2>1, <2>2, OtherRejected DEF CouldPass
<1>. QED BY <1>1, DiscoveryInvariance, PTL
=============================================================================
