------------------------------ MODULE FetchProofs ------------------------------
(***************************************************************************)
(* FetchTransport for any number of threads and hosts and any timeouts:     *)
(* every fetch keeps its deadline, and no host is blamed for another answer *)
(* than its last. BrowserSessions likewise: every search hands back its     *)
(* driver and its profile directory, and what a thread fetches between its  *)
(* visits is a behaviour of FetchTransport.                                 *)
(***************************************************************************)
EXTENDS BrowserSessions, BreakerProofs, FiniteSetTheorems, TLAPS

(* Where a fetch stands in time: what it waits for, how long it has waited, *)
(* and how much of the timeout that wait was given.                         *)
InTime(t) ==
  /\ call[t].lasted <= MayLast(t)
  /\ began[t] <= clock[t] /\ began[t] <= StoreWait
  /\ pc[t] = "idle" => clock[t] = 0 /\ call[t].lasted = 0
  /\ pc[t] = "asking" => clock[t] = call[t].lasted /\ call[t].limit <= StoreWait
  /\ pc[t] \in {"requesting", "rendering"} =>
       clock[t] - began[t] <= Timeout - call[t].limit + call[t].lasted
  /\ pc[t] = "backing_off" =>
       /\ call[t].limit = Backoff
       /\ clock[t] - began[t] <= Timeout + Overrun + call[t].lasted
  /\ pc[t] = "recording" =>
       /\ call[t].limit <= StoreWait
       /\ clock[t] - began[t] <= Timeout + Overrun + Backoff + call[t].lasted
  /\ pc[t] = "retrying" => clock[t] <= Timeout - call[t].limit + call[t].lasted

Inv == ThreadsTypeOK /\ \A t \in Threads : InTime(t)

(* The numeric constants are natural numbers.                                *)
LEMMA Bounds ==
  /\ Timeout \in Nat /\ Backoff \in Nat /\ LeastRetry \in Nat /\ LeastRetry > 0
  /\ LeastBrowser \in Nat /\ LeastBrowser > 0 /\ MostBrowser \in Nat
  /\ Overrun \in Nat /\ StoreWait \in Nat
BY FetchAssumption DEF FetchAssumption

LEMMA SmallerBounds ==
  ASSUME NEW a \in Int, NEW b \in Int
  PROVE  Smaller(a, b) <= a /\ Smaller(a, b) <= b /\ Smaller(a, b) \in {a, b}
BY DEF Smaller

LEMMA FetchInit == Init => Inv
<1>1. ASSUME Init PROVE ThreadsTypeOK
  BY <1>1 DEF Init, ThreadsTypeOK, Candidate, NoCandidate, NoCall, NoResult, Result, Statuses
<1>2. ASSUME Init, NEW t \in Threads PROVE InTime(t)
  BY <1>2, Bounds DEF Init, InTime, MayLast, NoCall
<1>. QED BY <1>1, <1>2 DEF Inv

(* The record that Wait writes, and what a thread's step leaves to the others. *)
LEMMA OthersUnchanged ==
  ASSUME Inv, NEW t \in Threads, NEW u \in Threads, u # t,
         pc'[u] = pc[u], clock'[u] = clock[u], began'[u] = began[u], call'[u] = call[u]
  PROVE  InTime(u)'
BY DEF Inv, InTime, MayLast

(* A thread that returns is as it was in the beginning.                      *)
LEMMA Returns ==
  ASSUME Inv, NEW t \in Threads, Return(t)
  PROVE  Inv'
<1>1. ThreadsTypeOK'
  BY Bounds DEF Inv, ThreadsTypeOK, Return, NoCandidate, NoCall, NoResult, Result, Statuses, Candidate
<1>2. InTime(t)'
  BY Bounds DEF Inv, ThreadsTypeOK, Return, InTime, MayLast, NoCall
<1>3. ASSUME NEW u \in Threads, u # t PROVE InTime(u)'
  BY <1>3, OthersUnchanged DEF Inv, ThreadsTypeOK, Return
<1>. QED BY <1>1, <1>2, <1>3 DEF Inv

(* A thread that waits for something else has just begun to wait for it.     *)
LEMMA Waits ==
  ASSUME Inv, NEW t \in Threads,
         NEW what \in {"asking", "requesting", "backing_off", "rendering", "recording", "retrying"},
         NEW attempt \in {0, 1}, NEW limit \in Nat,
         Wait(t, what, attempt, limit),
         clock' = clock,
         NEW b \in Nat, began' = [began EXCEPT ![t] = b],
         b <= clock[t], b <= StoreWait,
         what = "asking" => clock[t] = 0 /\ limit <= StoreWait,
         what \in {"requesting", "rendering"} => clock[t] - b <= Timeout - limit,
         what = "backing_off" => limit = Backoff /\ clock[t] - b <= Timeout + Overrun,
         what = "recording" =>
           limit <= StoreWait /\ clock[t] - b <= Timeout + Overrun + Backoff,
         what = "retrying" => clock[t] <= Timeout - limit,
         candidate' \in [Threads -> Candidate], result' \in [Threads -> Result],
         heard' \in [Threads -> Affecting \cup {"other", NoClass}]
  PROVE  Inv'
<1>1. /\ pc'[t] = what /\ clock'[t] = clock[t] /\ began'[t] = b
      /\ call'[t] = [attempt |-> attempt, limit |-> limit, lasted |-> 0]
      /\ clock[t] \in Nat
  BY DEF Inv, ThreadsTypeOK, Wait
<1>2. ThreadsTypeOK'
  BY <1>1 DEF Inv, ThreadsTypeOK, Wait
<1>3. InTime(t)'
  BY <1>1, Bounds DEF InTime, MayLast
<1>4. ASSUME NEW u \in Threads, u # t PROVE InTime(u)'
  BY <1>4, OthersUnchanged DEF Inv, ThreadsTypeOK, Wait
<1>. QED BY <1>2, <1>3, <1>4 DEF Inv

-----------------------------------------------------------------------------
(* The steps of a thread                                                    *)

LEMMA BeginStep ==
  ASSUME Inv, NEW t \in Threads, NEW c \in Candidates, Begin(t, c)
  PROVE  Inv'
<1> DEFINE limit == IF c.host = NoHost THEN 0 ELSE StoreWait
<1>1. limit \in Nat /\ limit <= StoreWait
  BY Bounds
<1>2. clock[t] = 0 /\ began[t] \in Nat /\ began[t] <= clock[t] /\ began[t] <= StoreWait
  BY DEF Inv, ThreadsTypeOK, InTime, Begin
<1>3. began' = [began EXCEPT ![t] = began[t]] /\ candidate' \in [Threads -> Candidate]
  BY FetchAssumption DEF Begin, Inv, ThreadsTypeOK, FetchAssumption
<1>4. Wait(t, "asking", 0, limit) /\ clock' = clock /\ result' = result /\ heard' = heard
  BY DEF Begin
<1> HIDE DEF limit
<1>. QED BY <1>1, <1>2, <1>3, <1>4, Waits DEF Inv, ThreadsTypeOK

(* The time a thread has used when its wait for the network is over.        *)
LEMMA ElapsedBounds ==
  ASSUME Inv, NEW t \in Threads
  PROVE  /\ clock[t] \in Nat /\ began[t] \in Nat
         /\ began[t] <= clock[t] /\ began[t] <= StoreWait
         /\ Left(t) \in Int /\ LeftInAll(t) \in Int
         /\ Left(t) = Timeout - (clock[t] - began[t]) /\ LeftInAll(t) = Timeout - clock[t]
         /\ pc[t] = "asking" => clock[t] <= StoreWait
         /\ pc[t] \in {"requesting", "rendering"} => clock[t] - began[t] <= Timeout + Overrun
         /\ pc[t] = "backing_off" => clock[t] - began[t] <= Timeout + Overrun + Backoff
BY Bounds DEF Inv, ThreadsTypeOK, InTime, MayLast, Left, LeftInAll

LEMMA RequestStep ==
  ASSUME Inv, NEW t \in Threads, Request(t)
  PROVE  Inv'
<1> DEFINE b == clock[t]
<1>1. /\ Wait(t, "requesting", 0, Timeout) /\ clock' = clock
      /\ began' = [began EXCEPT ![t] = b]
      /\ candidate' = candidate /\ result' = result /\ heard' = heard /\ pc[t] = "asking"
  BY DEF Request, Admitted
<1>2. b \in Nat /\ b <= StoreWait /\ b <= clock[t] /\ clock[t] - b <= Timeout - Timeout
  BY <1>1, ElapsedBounds, Bounds
<1>3. candidate' \in [Threads -> Candidate] /\ result' \in [Threads -> Result]
      /\ heard' \in [Threads -> Affecting \cup {"other", NoClass}]
  BY <1>1 DEF Inv, ThreadsTypeOK
<1>4. Timeout \in Nat
  BY Bounds
<1> HIDE DEF b
<1>. QED BY <1>1, <1>2, <1>3, <1>4, Waits

(* A thread whose request or rendering ended goes on with its result.       *)
LEMMA FinishedStep ==
  ASSUME Inv, NEW t \in Threads, NEW r \in Result, Finished(t, r),
         pc[t] \in {"requesting", "rendering", "backing_off"},
         UNCHANGED <<candidate, clock, began>>,
         heard' \in [Threads -> Affecting \cup {"other", NoClass}]
  PROVE  Inv'
<1> DEFINE limit == IF r.status = "success" \/ r.class \in Affecting THEN StoreWait ELSE 0
<1>1. limit \in Nat /\ limit <= StoreWait
  BY Bounds
<1>2. /\ Wait(t, "recording", 0, limit) /\ result' = [result EXCEPT ![t] = r]
  BY DEF Finished
<1>3. clock[t] - began[t] <= Timeout + Overrun + Backoff
  BY ElapsedBounds, Bounds
<1>4. began' = [began EXCEPT ![t] = began[t]]
  BY DEF Inv, ThreadsTypeOK
<1> HIDE DEF limit
<1>5. result' \in [Threads -> Result] /\ candidate' \in [Threads -> Candidate]
  BY <1>2 DEF Inv, ThreadsTypeOK
<1>. QED BY <1>1, <1>2, <1>3, <1>4, <1>5, ElapsedBounds, Waits

LEMMA BackOffStep ==
  ASSUME Inv, NEW t \in Threads, pc[t] = "requesting", Wait(t, "backing_off", 0, Backoff),
         UNCHANGED <<candidate, clock, began, result>>,
         heard' \in [Threads -> Affecting \cup {"other", NoClass}]
  PROVE  Inv'
<1>1. began' = [began EXCEPT ![t] = began[t]] /\ clock[t] - began[t] <= Timeout + Overrun
  BY ElapsedBounds DEF Inv, ThreadsTypeOK
<1>. QED BY <1>1, ElapsedBounds, Bounds, Waits DEF Inv, ThreadsTypeOK

LEMMA RequestFailsStep ==
  ASSUME Inv, NEW t \in Threads, NEW e \in Exceptions, RequestFails(t, e)
  PROVE  Inv'
<1>1. heard' \in [Threads -> Affecting \cup {"other", NoClass}]
  BY DEF Inv, ThreadsTypeOK, RequestFails, Exceptions, Affecting
<1>2. [status |-> "error", class |-> e] \in Result
  BY DEF Result, Statuses, Exceptions, Affecting
<1>3. pc[t] = "requesting" /\ UNCHANGED <<candidate, clock, began>>
  BY DEF RequestFails
<1>4. CASE MayRetry(t, e)
  BY <1>1, <1>3, <1>4, BackOffStep DEF RequestFails
<1>5. CASE ~MayRetry(t, e)
  BY <1>1, <1>2, <1>3, <1>5, FinishedStep DEF RequestFails
<1>. QED BY <1>4, <1>5

LEMMA RateLimitedStep ==
  ASSUME Inv, NEW t \in Threads, RateLimited(t)
  PROVE  Inv'
<1>1. heard' \in [Threads -> Affecting \cup {"other", NoClass}]
  BY DEF Inv, ThreadsTypeOK, RateLimited, Affecting
<1>. QED BY <1>1, BackOffStep DEF RateLimited

LEMMA RetryStep ==
  ASSUME Inv, NEW t \in Threads, Retry(t)
  PROVE  Inv'
<1>1. /\ Wait(t, "requesting", 1, Left(t)) /\ Left(t) >= LeastRetry
      /\ UNCHANGED <<candidate, clock, began, result, heard>>
  BY DEF Retry
<1>2. began' = [began EXCEPT ![t] = began[t]] /\ Left(t) \in Nat
      /\ clock[t] - began[t] <= Timeout - Left(t)
  BY <1>1, ElapsedBounds, Bounds DEF Inv, ThreadsTypeOK
<1>. QED BY <1>1, <1>2, ElapsedBounds, Waits DEF Inv, ThreadsTypeOK

LEMMA GiveUpStep ==
  ASSUME Inv, NEW t \in Threads, GiveUpRetry(t)
  PROVE  Inv'
<1> DEFINE r == [status |-> "error",
                 class  |-> IF heard[t] \in Exceptions THEN heard[t] ELSE "other"]
<1>1. r \in Result
  BY DEF Result, Statuses, Exceptions, Affecting
<1>2. Finished(t, r) /\ pc[t] = "backing_off" /\ UNCHANGED <<candidate, clock, began, heard>>
  BY DEF GiveUpRetry, BackedOff
<1> HIDE DEF r
<1>. QED BY <1>1, <1>2, FinishedStep DEF Inv, ThreadsTypeOK

LEMMA VerdictTyped ==
  ASSUME NEW r \in Responses
  PROVE  Verdict(r) \in Result
<1>1. r.code \in {"ok", "not_found", "denied", "rate_limited", "unavailable", "refused"}
  BY DEF Responses
<1>. QED BY <1>1 DEF Verdict, Result, Statuses, Affecting

LEMMA ResponseStep ==
  ASSUME Inv, NEW t \in Threads, NEW r \in Responses,
         Answered(t, r) \/ NoTimeToRender(t, r) \/ Render(t, r)
  PROVE  Inv'
<1>1. /\ pc[t] = "requesting" /\ UNCHANGED <<candidate, clock, began>>
      /\ heard' \in [Threads -> Affecting \cup {"other", NoClass}]
  BY DEF Answered, NoTimeToRender, Render, Response, Inv, ThreadsTypeOK, Affecting
<1>2. CASE Answered(t, r)
  BY <1>1, <1>2, VerdictTyped, FinishedStep DEF Answered
<1>3. CASE NoTimeToRender(t, r)
  <2>1. [status |-> IF r.document.page.text > 0 THEN "success" ELSE "error", class |-> NoClass]
        \in Result
    BY DEF Result, Statuses
  <2>. QED BY <1>1, <1>3, <2>1, FinishedStep DEF NoTimeToRender
<1>4. CASE Render(t, r)
  <2> DEFINE limit == Smaller(MostBrowser, Left(t))
  <2>1. Left(t) >= LeastBrowser /\ Wait(t, "rendering", 0, limit) /\ result' = result
    BY <1>4 DEF Render
  <2>2. limit \in Nat /\ limit <= Left(t)
    BY <2>1, ElapsedBounds, SmallerBounds, Bounds
  <2> HIDE DEF limit
  <2>3. clock[t] - began[t] <= Timeout - limit
    BY <2>2, ElapsedBounds, Bounds
  <2>4. began' = [began EXCEPT ![t] = began[t]] /\ result' \in [Threads -> Result]
        /\ candidate' \in [Threads -> Candidate]
    BY <1>1, <2>1 DEF Inv, ThreadsTypeOK
  <2>. QED BY <1>1, <2>1, <2>2, <2>3, <2>4, ElapsedBounds, Waits
<1>. QED BY <1>2, <1>3, <1>4

LEMMA RenderedStep ==
  ASSUME Inv, NEW t \in Threads, NEW page \in Renderings, Rendered(t, page)
  PROVE  Inv'
<1> DEFINE r == [status |-> CASE page = "text"      -> "success"
                              [] page = "challenge" -> "blocked"
                              [] OTHER              -> "error",
                 class  |-> NoClass]
<1>1. r \in Result
  BY DEF Result, Statuses
<1>2. Finished(t, r) /\ pc[t] = "rendering" /\ UNCHANGED <<candidate, clock, began, heard>>
  BY DEF Rendered
<1> HIDE DEF r
<1>. QED BY <1>1, <1>2, FinishedStep DEF Inv, ThreadsTypeOK

LEMMA RetryInBrowserStep ==
  ASSUME Inv, NEW t \in Threads, RetryInBrowser(t)
  PROVE  Inv'
<1> DEFINE limit == Smaller(MostBrowser, LeftInAll(t))
<1>1. /\ LeftInAll(t) >= LeastBrowser /\ Wait(t, "retrying", 0, limit)
      /\ UNCHANGED <<candidate, clock, began, result, heard>>
  BY DEF RetryInBrowser, WorthRetrying
<1>2. limit \in Nat /\ limit <= LeftInAll(t)
  BY <1>1, ElapsedBounds, SmallerBounds, Bounds
<1> HIDE DEF limit
<1>3. clock[t] <= Timeout - limit
  BY <1>2, ElapsedBounds, Bounds
<1>4. began' = [began EXCEPT ![t] = began[t]] /\ result' \in [Threads -> Result]
      /\ candidate' \in [Threads -> Candidate]
      /\ heard' \in [Threads -> Affecting \cup {"other", NoClass}]
  BY <1>1 DEF Inv, ThreadsTypeOK
<1>. QED BY <1>1, <1>2, <1>3, <1>4, ElapsedBounds, Waits

LEMMA TickStep == Inv /\ Tick => Inv'
<1>. SUFFICES ASSUME Inv, Tick PROVE Inv'
  OBVIOUS
<1>1. ThreadsTypeOK'
  BY DEF Inv, ThreadsTypeOK, Tick
<1>2. ASSUME NEW t \in Threads, t \in Busy PROVE InTime(t)'
  <2>1. /\ clock'[t] = clock[t] + 1 /\ began'[t] = began[t] /\ pc'[t] = pc[t] /\ pc[t] # "idle"
        /\ call'[t].lasted = call[t].lasted + 1 /\ call'[t].limit = call[t].limit
        /\ call[t].lasted < MayLast(t)
    BY <1>2 DEF Inv, ThreadsTypeOK, Tick, Busy
  <2>2. /\ clock[t] \in Nat /\ began[t] \in Nat
        /\ call[t].lasted \in Nat /\ call[t].limit \in Nat
    BY DEF Inv, ThreadsTypeOK
  <2>3. InTime(t)
    BY DEF Inv
  <2>. QED BY <2>1, <2>2, <2>3, Bounds DEF InTime, MayLast
<1>3. ASSUME NEW t \in Threads, t \notin Busy PROVE InTime(t)'
  <2>1. clock'[t] = clock[t] /\ began'[t] = began[t] /\ pc'[t] = pc[t] /\ call'[t] = call[t]
    BY <1>3 DEF Inv, ThreadsTypeOK, Tick
  <2>. QED BY <2>1 DEF Inv, InTime, MayLast
<1>. QED BY <1>1, <1>2, <1>3 DEF Inv

LEMMA NextStep == Inv /\ [Next]_vars => Inv'
<1>. SUFFICES ASSUME Inv, [Next]_vars PROVE Inv'
  OBVIOUS
<1>1. ASSUME NEW t \in Threads, SkipHost(t) \/ Unsupported(t) \/ Done(t) \/ RetriedInBrowser(t)
      PROVE  Inv'
  BY <1>1, Returns DEF SkipHost, Unsupported, Done, RetriedInBrowser
<1>2. ASSUME NEW t \in Threads, NEW r \in Responses, NoPdfReader(t, r) PROVE Inv'
  BY <1>2, Returns DEF NoPdfReader
<1>3. ASSUME NEW t \in Threads, Step(t) PROVE Inv'
  BY <1>1, <1>2, <1>3, RequestStep, RateLimitedStep, RetryStep, GiveUpStep, RequestFailsStep,
     ResponseStep, RenderedStep, RetryInBrowserStep DEF Step
<1>4. CASE UNCHANGED vars
  BY <1>4 DEF Inv, ThreadsTypeOK, InTime, MayLast, vars
<1>. QED BY <1>3, <1>4, BeginStep, TickStep DEF Next

-----------------------------------------------------------------------------
(* DeadlineKept, of fetch_candidate: whatever hosts answer and however slow  *)
(* the store is, a fetch is over by its timeout, one back-off, one overrun   *)
(* and two waits for the store.                                              *)
THEOREM DeadlinesKept == Spec => []DeadlineKept
<1>1. Inv => DeadlineKept
  <2>1. ASSUME Inv, NEW t \in Threads PROVE clock[t] <= LastMoment
    <3>1. /\ clock[t] \in Nat /\ began[t] \in Nat /\ InTime(t)
          /\ call[t].lasted \in Nat /\ call[t].limit \in Nat
          /\ pc[t] \in {"idle", "asking", "requesting", "backing_off", "rendering", "recording",
                        "retrying"}
      BY <2>1 DEF Inv, ThreadsTypeOK
    <3>. QED BY <3>1, Bounds DEF InTime, MayLast, LastMoment
  <2>. QED BY <2>1 DEF DeadlineKept
<1>. QED BY <1>1, FetchInit, NextStep, PTL DEF Spec
-----------------------------------------------------------------------------
(* Breakers                                                                  *)

(* A thread about to record a failure of the host was answered with one last, *)
(* and every breaker is one that the breaker's operations lead to.             *)
Blames(t) == pc[t] = "recording" /\ result[t].class \in Affecting => heard[t] \in Affecting

HeardInv == Inv /\ \A t \in Threads : Blames(t)

HostsInv ==
  /\ health \in [Hosts -> Entry \cup {Absent}]
  /\ \A h \in Hosts : health[h] = Absent \/ Coherent(health[h])

(* A step of t that only t's own variables see.                              *)
LEMMA OthersBlame ==
  ASSUME NEW t \in Threads, \A u \in Threads \ {t} : Blames(u),
         \A u \in Threads \ {t} : pc'[u] = pc[u] /\ result'[u] = result[u] /\ heard'[u] = heard[u],
         pc'[t] = "recording" /\ result'[t].class \in Affecting => heard'[t] \in Affecting
  PROVE  \A u \in Threads : Blames(u)'
BY DEF Blames

(* A thread that goes on to something else than recording blames nobody.       *)
LEMMA NotRecording ==
  ASSUME HeardInv, NEW t \in Threads, pc'[t] # "recording",
         \A u \in Threads \ {t} : pc'[u] = pc[u] /\ result'[u] = result[u] /\ heard'[u] = heard[u]
  PROVE  \A u \in Threads : Blames(u)'
BY OthersBlame DEF HeardInv

LEMMA FinishBlames ==
  ASSUME HeardInv, NEW t \in Threads, NEW r \in Result, Finished(t, r),
         NEW c \in Affecting \cup {"other", NoClass}, heard' = [heard EXCEPT ![t] = c],
         r.class \in Affecting => c \in Affecting
  PROVE  \A u \in Threads : Blames(u)'
<1>1. /\ result'[t] = r /\ heard'[t] = c
      /\ \A u \in Threads \ {t} : pc'[u] = pc[u] /\ result'[u] = result[u] /\ heard'[u] = heard[u]
  BY DEF Finished, Wait, HeardInv, Inv, ThreadsTypeOK
<1> QED  BY <1>1, OthersBlame DEF HeardInv

LEMMA ReturnBlames ==
  ASSUME HeardInv, NEW t \in Threads, Return(t)
  PROVE  \A u \in Threads : Blames(u)'
BY NotRecording DEF Return, HeardInv, Inv, ThreadsTypeOK

LEMMA WaitBlames ==
  ASSUME HeardInv, NEW t \in Threads, NEW what, NEW attempt, NEW limit, Wait(t, what, attempt, limit),
         what # "recording", result' = result,
         \A u \in Threads \ {t} : heard'[u] = heard[u]
  PROVE  \A u \in Threads : Blames(u)'
BY NotRecording DEF Wait, HeardInv, Inv, ThreadsTypeOK

(* The class of a response's verdict is the one it is heard as.                 *)
LEMMA VerdictHeard ==
  ASSUME NEW r \in Responses, Verdict(r).class \in Affecting
  PROVE  r.code = "denied" \/ r.code \in Affecting
<1>1. r.code \in {"not_found", "denied", "rate_limited", "unavailable", "refused", "ok"}
  BY DEF Responses
<1> QED  BY <1>1, ClassAssumption DEF Verdict, Affecting

LEMMA ResponseBlames ==
  ASSUME HeardInv, NEW t \in Threads, NEW r \in Responses,
         Answered(t, r) \/ NoTimeToRender(t, r) \/ Render(t, r)
  PROVE  \A u \in Threads : Blames(u)'
<1> DEFINE c == CASE r.code = "denied" -> "blocked"
                  [] r.code \in Affecting -> r.code
                  [] OTHER -> NoClass
<1>1. heard' = [heard EXCEPT ![t] = c] /\ c \in Affecting \cup {"other", NoClass}
  BY DEF Answered, NoTimeToRender, Render, Response, Affecting
<1>2. CASE Answered(t, r)
  <2>1. Verdict(r).class \in Affecting => c \in Affecting
    BY VerdictHeard DEF Affecting
  <2>2. Verdict(r) \in Result
    BY VerdictTyped
  <2>3. Finished(t, Verdict(r))
    BY <1>2 DEF Answered
  <2> HIDE DEF c
  <2> QED  BY <1>1, <2>1, <2>2, <2>3, FinishBlames
<1>3. CASE NoTimeToRender(t, r)
  <2> DEFINE v == [status |-> IF r.document.page.text > 0 THEN "success" ELSE "error",
                   class  |-> NoClass]
  <2>1. v \in Result /\ v.class \notin Affecting /\ Finished(t, v)
    BY <1>3, ClassAssumption DEF NoTimeToRender, Result, Statuses
  <2> HIDE DEF c, v
  <2> QED  BY <1>1, <2>1, FinishBlames
<1>4. CASE Render(t, r)
  <2>1. /\ Wait(t, "rendering", 0, Smaller(MostBrowser, Left(t))) /\ result' = result
        /\ \A u \in Threads \ {t} : heard'[u] = heard[u]
    BY <1>1, <1>4 DEF Render, HeardInv, Inv, ThreadsTypeOK
  <2> QED  BY <2>1, WaitBlames
<1> QED  BY <1>2, <1>3, <1>4

LEMMA FailureBlames ==
  ASSUME HeardInv, NEW t \in Threads, NEW e \in Exceptions, RequestFails(t, e)
  PROVE  \A u \in Threads : Blames(u)'
<1>1. e \in Affecting \cup {"other", NoClass}
  BY DEF Exceptions, Affecting
<1>2. CASE MayRetry(t, e)
  <2>1. /\ Wait(t, "backing_off", 0, Backoff) /\ result' = result
        /\ \A u \in Threads \ {t} : heard'[u] = heard[u]
    BY <1>2 DEF RequestFails, HeardInv, Inv, ThreadsTypeOK
  <2> QED  BY <2>1, WaitBlames
<1>3. CASE ~MayRetry(t, e)
  <2>1. [status |-> "error", class |-> e] \in Result
    BY <1>1 DEF Result, Statuses
  <2>2. /\ Finished(t, [status |-> "error", class |-> e])
        /\ heard' = [heard EXCEPT ![t] = e]
    BY <1>3 DEF RequestFails
  <2> QED  BY <1>1, <2>1, <2>2, FinishBlames
<1> QED  BY <1>2, <1>3

LEMMA GiveUpBlames ==
  ASSUME HeardInv, NEW t \in Threads, GiveUpRetry(t)
  PROVE  \A u \in Threads : Blames(u)'
<1> DEFINE v == [status |-> "error", class |-> IF heard[t] \in Exceptions THEN heard[t] ELSE "other"]
<1>1. heard[t] \in Affecting \cup {"other", NoClass} /\ heard' = [heard EXCEPT ![t] = heard[t]]
  BY DEF GiveUpRetry, HeardInv, Inv, ThreadsTypeOK
<1>2. v \in Result /\ (v.class \in Affecting => heard[t] \in Affecting)
  BY <1>1 DEF Result, Statuses, Affecting, Exceptions
<1>3. Finished(t, v)
  BY DEF GiveUpRetry
<1> HIDE DEF v
<1> QED  BY <1>1, <1>2, <1>3, FinishBlames

LEMMA RenderedBlames ==
  ASSUME HeardInv, NEW t \in Threads, NEW page, Rendered(t, page)
  PROVE  \A u \in Threads : Blames(u)'
<1> DEFINE v == [status |-> CASE page = "text"      -> "success"
                              [] page = "challenge" -> "blocked"
                              [] OTHER              -> "error",
                 class  |-> NoClass]
<1>1. heard[t] \in Affecting \cup {"other", NoClass} /\ heard' = [heard EXCEPT ![t] = heard[t]]
  BY DEF Rendered, HeardInv, Inv, ThreadsTypeOK
<1>2. v \in Result /\ v.class \notin Affecting
  BY ClassAssumption DEF Result, Statuses
<1>3. Finished(t, v)
  BY DEF Rendered
<1> HIDE DEF v
<1> QED  BY <1>1, <1>2, <1>3, FinishBlames

LEMMA HeardStep == HeardInv /\ [Next]_vars => HeardInv'
<1> SUFFICES ASSUME HeardInv, [Next]_vars PROVE \A u \in Threads : Blames(u)'
  BY NextStep DEF HeardInv
<1>1. ASSUME NEW t \in Threads, SkipHost(t) \/ Unsupported(t) \/ Done(t) \/ RetriedInBrowser(t)
      PROVE  \A u \in Threads : Blames(u)'
  BY <1>1, ReturnBlames DEF SkipHost, Unsupported, Done, RetriedInBrowser
<1>2. ASSUME NEW t \in Threads, NEW r \in Responses, NoPdfReader(t, r)
      PROVE  \A u \in Threads : Blames(u)'
  BY <1>2, ReturnBlames DEF NoPdfReader
<1>3. ASSUME NEW t \in Threads, Request(t) PROVE \A u \in Threads : Blames(u)'
  BY <1>3, WaitBlames DEF Request
<1>4. ASSUME NEW t \in Threads, RateLimited(t) PROVE \A u \in Threads : Blames(u)'
  <2>1. \A u \in Threads \ {t} : heard'[u] = heard[u]
    BY <1>4 DEF RateLimited, HeardInv, Inv, ThreadsTypeOK
  <2> QED  BY <1>4, <2>1, WaitBlames DEF RateLimited
<1>5. ASSUME NEW t \in Threads, Retry(t) PROVE \A u \in Threads : Blames(u)'
  BY <1>5, WaitBlames DEF Retry
<1>6. ASSUME NEW t \in Threads, RetryInBrowser(t) PROVE \A u \in Threads : Blames(u)'
  BY <1>6, WaitBlames DEF RetryInBrowser
<1>7. ASSUME NEW t \in Threads, NEW c \in Candidates, Begin(t, c)
      PROVE  \A u \in Threads : Blames(u)'
  BY <1>7, WaitBlames DEF Begin
<1>8. ASSUME Tick \/ UNCHANGED vars PROVE \A u \in Threads : Blames(u)'
  BY <1>8 DEF Tick, vars, HeardInv, Blames
<1> QED
  BY <1>1, <1>2, <1>3, <1>4, <1>5, <1>6, <1>7, <1>8, ResponseBlames, FailureBlames, GiveUpBlames,
     RenderedBlames DEF Next, Step

LEMMA HeardStart == Init => HeardInv
BY FetchInit DEF Init, HeardInv, Blames

LEMMA SameBreaker ==
  /\ Store!Fresh = Fresh
  /\ \A e : /\ Store!CooledDown(e) = CooledDown(e) /\ Store!Aged(e) = Aged(e)
           /\ Store!Succeeded(e) = Succeeded(e) /\ Store!Failed(e) = Failed(e)
<1>1. Store!Longest = Longest
  BY DEF Store!Longest, Longest
<1>2. \A n : Store!Older(n) = Older(n)
  BY <1>1 DEF Store!Older, Older
<1>3. \A e : Store!Counted(e) = Counted(e) /\ Store!Doubled(e) = Doubled(e)
  BY DEF Store!Counted, Counted, Store!Doubled, Doubled
<1>4. Store!Fresh = Fresh
  BY <1>1 DEF Store!Fresh, Fresh
<1>5. \A e : Store!CooledDown(e) = CooledDown(e) /\ Store!Aged(e) = Aged(e)
  BY <1>2 DEF Store!CooledDown, CooledDown, Store!Aged, Aged
<1>6. \A e : Store!Succeeded(e) = Succeeded(e) /\ Store!Failed(e) = Failed(e)
  BY <1>3 DEF Store!Succeeded, Succeeded, Store!Failed, Failed
<1> QED  BY <1>4, <1>5, <1>6

(* What a step does to the breaker of a host: nothing, or one operation.        *)
Operation(h) ==
  \/ health'[h] = health[h]
  \/ health[h] # Absent /\ health'[h] \in {CooledDown(health[h]), Aged(health[h])}
  \/ health'[h] = Succeeded(Store!OrFresh(health[h]))

(* A failure is what a thread records that was answered with one.               *)
FailureRecorded(h) ==
  /\ health'[h] = Failed(Store!OrFresh(health[h]))
  /\ \E t \in Threads : Host(t) = h /\ pc[t] = "recording" /\ result[t].class \in Affecting

LEMMA RecordedOperation ==
  ASSUME HostsInv, NEW t \in Threads, pc[t] = "recording", Recorded(Host(t), result[t]), NEW h \in Hosts
  PROVE  Operation(h) \/ FailureRecorded(h)
BY SameBreaker
DEF HostsInv, Recorded, Store!RecordSuccess, Store!RecordFailure, Operation, FailureRecorded

LEMMA AskedOperation ==
  ASSUME HostsInv, NEW g, AskStore(g), NEW h \in Hosts
  PROVE  Operation(h)
BY SameBreaker DEF HostsInv, AskStore, Store!Look, Operation

LEMMA HealthOperation ==
  ASSUME HostsInv, [Next]_vars, NEW h \in Hosts
  PROVE  Operation(h) \/ FailureRecorded(h)
<1>1. ASSUME NEW t \in Threads, SkipHost(t) \/ Unsupported(t) \/ Request(t) PROVE Operation(h)
  BY <1>1, AskedOperation DEF SkipHost, Unsupported, Request, Admitted
<1>2. ASSUME NEW t \in Threads, Done(t) \/ RetryInBrowser(t) PROVE Operation(h) \/ FailureRecorded(h)
  BY <1>2, RecordedOperation DEF Done, RetryInBrowser
<1>3. CASE health' = health
  BY <1>3 DEF Operation
<1>4. CASE Tick
  <2>1. health'[h] = IF health[h] = Absent THEN Absent ELSE Store!Aged(health[h])
    BY <1>4 DEF Tick, Store!Elapse
  <2> QED  BY <2>1, SameBreaker DEF Operation
<1>5. ASSUME NEW t \in Threads, Step(t) PROVE Operation(h) \/ FailureRecorded(h)
  <2>1. \/ SkipHost(t) \/ Unsupported(t) \/ Request(t) \/ Done(t) \/ RetryInBrowser(t)
        \/ health' = health
    BY <1>5 DEF Step, RateLimited, Retry, GiveUpRetry, RequestFails, Answered, NoPdfReader,
                NoTimeToRender, Render, Response, Rendered, RetriedInBrowser
  <2> QED  BY <1>1, <1>2, <1>3, <2>1
<1>6. ASSUME NEW t \in Threads, NEW c \in Candidates, Begin(t, c)
      PROVE  Operation(h) \/ FailureRecorded(h)
  <2>1. health' = health
    BY <1>6 DEF Begin
  <2> QED  BY <1>3, <2>1
<1> QED  BY <1>3, <1>4, <1>5, <1>6 DEF Next, vars

LEMMA OrFreshCoherent ==
  ASSUME HostsInv, NEW h \in Hosts
  PROVE  Coherent(Store!OrFresh(health[h]))
BY FreshCoherent, SameBreaker DEF HostsInv, Store!OrFresh

LEMMA HostsStep == HostsInv /\ [Next]_vars => HostsInv'
<1> SUFFICES ASSUME HostsInv, [Next]_vars PROVE HostsInv'
  OBVIOUS
<1>1. ASSUME NEW h \in Hosts PROVE health'[h] = Absent \/ Coherent(health'[h])
  <2>1. health[h] = Absent \/ Coherent(health[h])
    BY DEF HostsInv
  <2>2. CASE health'[h] = health[h]
    BY <2>1, <2>2
  <2>3. CASE health[h] # Absent /\ health'[h] \in {CooledDown(health[h]), Aged(health[h])}
    BY <2>1, <2>3, CooledDownCoherent, AgedCoherent
  <2>4. CASE health'[h] = Succeeded(Store!OrFresh(health[h]))
    BY <2>4, OrFreshCoherent, SucceededCoherent
  <2>5. CASE health'[h] = Failed(Store!OrFresh(health[h]))
    BY <2>5, OrFreshCoherent, FailedCoherent
  <2> QED  BY <2>2, <2>3, <2>4, <2>5, HealthOperation DEF Operation, FailureRecorded
<1>2. \E f : health' = [h \in Hosts |-> f[h]]
  <2>1. health = [h \in Hosts |-> health[h]]
    BY DEF HostsInv
  <2>2. ASSUME NEW g, AskStore(g) PROVE health' = [h \in Hosts |-> health'[h]]
    BY <2>1, <2>2 DEF AskStore, Store!Look
  <2>3. ASSUME NEW g, NEW r, Recorded(g, r) PROVE health' = [h \in Hosts |-> health'[h]]
    BY <2>1, <2>3 DEF Recorded, Store!RecordSuccess, Store!RecordFailure
  <2>4. CASE Tick
    BY <2>4 DEF Tick, Store!Elapse
  <2>5. CASE health' = health
    BY <2>1, <2>5
  <2>6. ASSUME NEW t \in Threads, Step(t) PROVE \E f : health' = [h \in Hosts |-> f[h]]
    BY <2>2, <2>3, <2>5, <2>6
    DEF Step, SkipHost, Unsupported, Request, Admitted, Done, RetryInBrowser,
        RateLimited, Retry, GiveUpRetry, RequestFails, Answered, NoPdfReader, NoTimeToRender,
        Render, Response, Rendered, RetriedInBrowser
  <2> QED  BY <2>4, <2>5, <2>6 DEF Next, Begin, vars
<1>3. health' \in [Hosts -> Entry \cup {Absent}]
  BY <1>1, <1>2 DEF Coherent
<1> QED  BY <1>1, <1>3 DEF HostsInv

LEMMA HostsStart == Init => HostsInv
BY DEF Init, Store!Init, HostsInv

(* What a failure leaves in an entry.                                         *)
LEMMA FailedFields ==
  ASSUME NEW e, Coherent(e)
  PROVE  /\ Failed(e).failures = Counted(e) /\ Counted(e) >= 1
         /\ Failed(e).state \in {"closed", "open"}
         /\ Counted(e) >= OpenAfter => Failed(e).state = "open" /\ Failed(e).openedAgo = 0
<1>1. e \in Entry /\ e.failures \in 0 .. OpenAfter
  BY DEF Coherent, Entry
<1>2. Counted(e) \in 1 .. OpenAfter /\ (e.state # "closed" => Counted(e) = OpenAfter)
  BY BreakerAssumption DEF Counted, Coherent, Entry, BreakerAssumption
<1>3. CASE e.state = "half_open"
  BY <1>2, <1>3 DEF Failed
<1>4. CASE e.state # "half_open" /\ Counted(e) >= OpenAfter
  <2> DEFINE n == Counted(e)
  <2>1. Failed(e) = [e EXCEPT !.failures = n, !.state = "open", !.openedAgo = 0]
    BY <1>4 DEF Failed
  <2> HIDE DEF n
  <2>2. Failed(e).failures = n /\ Failed(e).state = "open" /\ Failed(e).openedAgo = 0
    BY <1>1, <2>1 DEF Entry
  <2> QED  BY <1>2, <2>2 DEF n
<1>5. CASE e.state # "half_open" /\ ~(Counted(e) >= OpenAfter)
  <2> DEFINE n == Counted(e)
  <2>1. Failed(e) = [e EXCEPT !.failures = n]
    BY <1>5 DEF Failed
  <2> HIDE DEF n
  <2>2. Failed(e).failures = n /\ Failed(e).state = e.state
    BY <1>1, <2>1 DEF Entry
  <2>3. e.state \in {"closed", "open"}
    BY <1>1, <1>5 DEF Entry
  <2> QED  BY <1>2, <1>5, <2>2, <2>3 DEF n
<1> QED  BY <1>3, <1>4, <1>5

LEMMA SuccessDiffers ==
  ASSUME NEW e, Coherent(e)
  PROVE  Succeeded(e) # Failed(e)
<1>1. Succeeded(e).failures = 0
  BY DEF Succeeded, Coherent, Entry
<1> QED  BY <1>1, FailedFields

(* No other operation has a failure's effect.                                 *)
LEMMA NotAFailure ==
  ASSUME NEW e, Coherent(e), NEW f \in {CooledDown(e), Aged(e)}, f = Failed(e)
  PROVE  f = e
<1>1. /\ e \in Entry /\ e.failures \in 0 .. OpenAfter /\ e.openedAgo \in 0 .. Longest
      /\ Longest \in Nat
  BY LongestBounds DEF Coherent, Entry
<1>2. CASE f = CooledDown(e)
  <2>1. f.state # "half_open"
    BY FailedFields
  <2> QED  BY <1>1, <1>2, <2>1 DEF CooledDown, Entry
<1>3. CASE f = Aged(e)
  <2>1. f.failures = e.failures /\ f.openedAgo = Older(e.openedAgo)
    BY <1>1, <1>3 DEF Aged, Entry
  <2>2. Counted(e) >= OpenAfter
    BY <1>1, <2>1, FailedFields DEF Counted
  <2>3. Older(e.openedAgo) = 0
    BY <2>1, <2>2, FailedFields
  <2>4. Older(e.openedAgo) = e.openedAgo
    BY <1>1, <2>3 DEF Older
  <2> QED  BY <1>1, <1>3, <2>4 DEF Aged, Entry
<1> QED  BY <1>2, <1>3

LEMMA LastAnswerStep ==
  ASSUME HeardInv, HostsInv, [Next]_vars, NEW h \in Hosts,
         health'[h] = Failed(Store!OrFresh(health[h])), health'[h] # health[h]
  PROVE  \E t \in Threads : Host(t) = h /\ pc[t] = "recording" /\ heard[t] \in Affecting
<1>1. CASE FailureRecorded(h)
  BY <1>1 DEF FailureRecorded, HeardInv, Blames
<1>2. ~Operation(h)
  <2> DEFINE e == Store!OrFresh(health[h])
  <2>1. Coherent(e) /\ (health[h] # Absent => e = health[h])
    BY OrFreshCoherent DEF Store!OrFresh
  <2>2. health'[h] # Succeeded(e)
    BY <2>1, SuccessDiffers
  <2> QED  BY <2>1, <2>2, NotAFailure DEF Operation
<1> QED  BY <1>1, <1>2, HealthOperation

(* Any number of threads and hosts, any threshold and cooldown of the breaker:   *)
(* a host is blamed only for what it answered last.                            *)
THEOREM LastAnswerBlamed == Spec => BlamedForLastAnswer
<1>1. HeardInv /\ HostsInv /\ [Next]_vars =>
        [\A h \in Hosts :
           /\ health'[h] = Failed(Store!OrFresh(health[h])) /\ health'[h] # health[h]
           => \E t \in Threads : Host(t) = h /\ pc[t] = "recording" /\ heard[t] \in Affecting]_vars
  BY LastAnswerStep
<1> QED
  BY <1>1, HeardStart, HeardStep, HostsStart, HostsStep, PTL DEF Spec, BlamedForLastAnswer
-----------------------------------------------------------------------------
(* Browsers                                                                  *)

HandlesOf(s) == IF s \in Held THEN 1 ELSE 0

(* The browsers of a thread in each state of its search. A driver has a holder *)
(* for each handle, and one more only in a thread that is known for it.         *)
BrowsersInv(t) ==
  /\ profile = t <=> google[t] # "closed"
  /\ driver[t] >= HandlesOf(google[t]) + HandlesOf(renderer[t])
  /\ t \notin left => /\ driver[t] = HandlesOf(google[t]) + HandlesOf(renderer[t])
                      /\ google[t] # "orphan" /\ renderer[t] # "stuck"
  /\ work[t].at \in {"rest", "fetching"} => google[t] = "closed" /\ renderer[t] = "closed"

SessionInv == SessionTypeOK /\ \A t \in Threads : BrowsersInv(t)

LEMMA HandlesCounted ==
  /\ \A a : Handles(<<a>>) = HandlesOf(a)
  /\ \A a, b : Handles(<<a, b>>) = HandlesOf(a) + HandlesOf(b)
<1>1. Cardinality({}) = 0 /\ Cardinality({1}) = 1 /\ Cardinality({2}) = 1 /\ Cardinality({1, 2}) = 2
  <2>1. IsFiniteSet({1}) /\ Cardinality({1}) = 1 /\ Cardinality({2}) = 1 /\ Cardinality({}) = 0
    BY FS_Singleton, FS_EmptySet
  <2>2. Cardinality({1} \cup {2}) = 2
    BY <2>1, FS_AddElement
  <2>3. {1} \cup {2} = {1, 2}
    OBVIOUS
  <2> QED  BY <2>1, <2>2, <2>3
<1>2. ASSUME NEW a PROVE Handles(<<a>>) = HandlesOf(a)
  <2> DEFINE S == {i \in DOMAIN <<a>> : <<a>>[i] \in Held}
  <2>1. S = IF a \in Held THEN {1} ELSE {}
    OBVIOUS
  <2> QED  BY <1>1, <2>1 DEF Handles, HandlesOf
<1>3. ASSUME NEW a, NEW b PROVE Handles(<<a, b>>) = HandlesOf(a) + HandlesOf(b)
  <2> DEFINE S == {i \in DOMAIN <<a, b>> : <<a, b>>[i] \in Held}
  <2>1. DOMAIN <<a, b>> = {1, 2}
    OBVIOUS
  <2>2. /\ a \in Held /\ b \in Held => S = {1, 2}
        /\ a \in Held /\ b \notin Held => S = {1}
        /\ a \notin Held /\ b \in Held => S = {2}
        /\ a \notin Held /\ b \notin Held => S = {}
    BY <2>1
  <2> QED  BY <1>1, <2>2 DEF Handles, HandlesOf
<1> QED  BY <1>2, <1>3

Works == [kind : {"none", "verify", "discover"}, root : 0 .. 3,
          at : {"rest", "searching", "homepage", "site_search", "fetching"}]

(* A search moves on.                                                           *)
LEMMA WorkMoves ==
  ASSUME work \in [Threads -> Works], NEW t \in Threads, NEW r \in 0 .. 3,
         NEW a \in {"rest", "searching", "homepage", "site_search", "fetching"},
         \/ work' = [work EXCEPT ![t].at = a, ![t].root = r]
         \/ work' = [work EXCEPT ![t].at = a]
  PROVE  /\ work' \in [Threads -> Works] /\ work'[t].at = a
         /\ \A u \in Threads \ {t} : work'[u] = work[u]
<1>1. work[t] \in Works
  OBVIOUS
<1>2. /\ [work[t] EXCEPT !.at = a, !.root = r] \in Works
      /\ [work[t] EXCEPT !.at = a, !.root = r].at = a
  BY <1>1 DEF Works
<1>3. [work[t] EXCEPT !.at = a] \in Works /\ [work[t] EXCEPT !.at = a].at = a
  BY <1>1 DEF Works
<1>4. CASE work' = [work EXCEPT ![t].at = a, ![t].root = r]
  <2>1. work' = [work EXCEPT ![t] = [work[t] EXCEPT !.at = a, !.root = r]]
    BY <1>1, <1>4
  <2> QED  BY <1>2, <2>1
<1>5. CASE work' = [work EXCEPT ![t].at = a]
  <2>1. work' = [work EXCEPT ![t] = [work[t] EXCEPT !.at = a]]
    BY <1>1, <1>5
  <2> QED  BY <1>3, <2>1
<1> QED  BY <1>4, <1>5

(* What a step of one thread leaves to the others.                              *)
LEMMA OtherBrowsers ==
  ASSUME SessionInv, NEW t \in Threads, NEW u \in Threads, u # t,
         profile' = u <=> profile = u, driver'[u] = driver[u], google'[u] = google[u],
         renderer'[u] = renderer[u], work'[u] = work[u], u \in left' <=> u \in left
  PROVE  BrowsersInv(u)'
BY DEF SessionInv, BrowsersInv, HandlesOf

LEMMA GoogleStep ==
  ASSUME SessionInv, NEW t \in Threads, AskGoogle(t)
  PROVE  SessionInv'
<1> USE BrowserAssumption DEF SessionInv, SessionTypeOK, BrowserAssumption
<1>0. work[t].at = "searching" /\ work' = work /\ renderer' = renderer /\ official' = official
      /\ google[t] # "open"
  BY DEF AskGoogle
<1>1. CASE GoogleLaunchFails(t)
  <2>1. SessionTypeOK'
    BY <1>0, <1>1 DEF GoogleLaunchFails, Held
  <2>2. BrowsersInv(t)'
    BY <1>0, <1>1 DEF GoogleLaunchFails, BrowsersInv, HandlesOf, Held
  <2>3. \A u \in Threads \ {t} : BrowsersInv(u)'
    BY <1>0, <1>1, OtherBrowsers DEF GoogleLaunchFails
  <2> QED  BY <2>1, <2>2, <2>3
<1>2. CASE GoogleLaunches(t)
  <2>0. google[t] = "closed" /\ t # NoThread
    BY <1>2 DEF GoogleLaunches, BrowsersInv
  <2>1. SessionTypeOK'
    BY <1>0, <1>2 DEF GoogleLaunches, Acquired, Held
  <2>2. BrowsersInv(t)'
    BY <1>0, <1>2, <2>0 DEF GoogleLaunches, Acquired, BrowsersInv, HandlesOf, Held
  <2>3. \A u \in Threads \ {t} : BrowsersInv(u)'
    BY <1>0, <1>2, OtherBrowsers DEF GoogleLaunches
  <2> QED  BY <2>1, <2>2, <2>3
<1> QED  BY <1>1, <1>2 DEF AskGoogle

(* A step that leaves the browsers alone, and neither ends nor begins a search. *)
LEMMA BrowsersLeft ==
  ASSUME SessionInv, SessionTypeOK', NEW t \in Threads,
         UNCHANGED <<driver, google, renderer, profile, left>>,
         \A u \in Threads \ {t} : work'[u] = work[u],
         work'[t].at \in {"rest", "fetching"} => work[t].at \in {"rest", "fetching"}
  PROVE  SessionInv'
BY DEF SessionInv, BrowsersInv, HandlesOf

LEMMA ShownStep ==
  ASSUME SessionInv, NEW t \in Threads, NEW o \in [pages : 0 .. MaxPages, known : BOOLEAN],
         work[t].at \in {"homepage", "site_search"},
         \/ Known(t)
         \/ work[t].root \in Sites /\ NextRoot(t, o)
         \/ work[t].root \in Sites /\ \E page \in Shown : Visited(t, page, o)
  PROVE  /\ official' \in [Threads -> [pages : 0 .. MaxPages, known : BOOLEAN]]
         /\ work' \in [Threads -> Works]
         /\ \A u \in Threads \ {t} : work'[u] = work[u]
         /\ work'[t].at \notin {"rest", "fetching"}
<1> USE BrowserAssumption DEF SessionInv, SessionTypeOK, BrowserAssumption, Sites, Smaller
<1>0. work \in [Threads -> Works] /\ work[t].root \in 0 .. 3 /\ 0 \in 0 .. 3
  BY DEF Works
<1>1. CASE Known(t)
  <2>1. official' \in [Threads -> [pages : 0 .. MaxPages, known : BOOLEAN]]
    BY <1>1 DEF Known
  <2>2. work' = [work EXCEPT ![t].at = "searching", ![t].root = 0]
    BY <1>1 DEF Known
  <2>3. work' \in [Threads -> Works] /\ work'[t].at = "searching"
        /\ \A u \in Threads \ {t} : work'[u] = work[u]
    BY <1>0, <2>2, WorkMoves
  <2> QED  BY <2>1, <2>3
<1>2. CASE work[t].root \in Sites /\ NextRoot(t, o)
  <2>1. official' \in [Threads -> [pages : 0 .. MaxPages, known : BOOLEAN]]
    BY <1>2 DEF NextRoot
  <2>2. work[t].root + 1 \in 0 .. 3
    BY <1>2
  <2>3. work' = [work EXCEPT ![t].at = "homepage", ![t].root = work[t].root + 1]
    BY <1>0, <1>2 DEF NextRoot
  <2> QED  BY <1>0, <2>1, <2>2, <2>3, WorkMoves
<1>3. CASE official' = [official EXCEPT ![t] = o] /\ At(t, "site_search")
  <2>1. official' \in [Threads -> [pages : 0 .. MaxPages, known : BOOLEAN]]
    BY <1>3
  <2> QED  BY <1>0, <1>3, <2>1, WorkMoves DEF At
<1> QED  BY <1>1, <1>2, <1>3 DEF Visited

LEMMA VisitStep ==
  ASSUME SessionInv, NEW t \in Threads, Visit(t)
  PROVE  SessionInv'
<1> USE BrowserAssumption DEF SessionInv, SessionTypeOK, BrowserAssumption
<1> DEFINE o == [official[t] EXCEPT !.pages = @ + 1]
<1>1. PICK opened \in Opened(t) :
        /\ renderer' = [renderer EXCEPT ![t] = opened.renderer]
        /\ driver' = [driver EXCEPT ![t] = opened.driver]
        /\ left' = IF opened.broke THEN left \cup {t} ELSE left
        /\ \/ NextRoot(t, o)
           \/ opened.renderer = "open" /\ \E page \in Shown : Visited(t, page, o)
  BY DEF Visit
<1>2. o \in [pages : 0 .. MaxPages, known : BOOLEAN]
  BY DEF Visit
<1>3. /\ work[t].at \in {"homepage", "site_search"} /\ work[t].root \in Sites
      /\ renderer[t] = "open" \/ driver[t] < MaxHolders
      /\ google' = google /\ profile' = profile
  BY DEF Visit
<1> HIDE DEF o
<1>4. /\ official' \in [Threads -> [pages : 0 .. MaxPages, known : BOOLEAN]]
      /\ work' \in [Threads -> Works]
      /\ \A u \in Threads \ {t} : work'[u] = work[u]
      /\ work'[t].at \notin {"rest", "fetching"}
  BY <1>1, <1>2, <1>3, ShownStep
<1>5. \/ opened = [renderer |-> "open", driver |-> driver[t], broke |-> FALSE] /\ renderer[t] = "open"
      \/ opened = [renderer |-> "open", driver |-> driver[t] + 1, broke |-> FALSE] /\ renderer[t] # "open"
      \/ opened = [renderer |-> "stuck", driver |-> driver[t] + 1, broke |-> TRUE] /\ renderer[t] # "open"
      \/ opened = [renderer |-> renderer[t], driver |-> 0, broke |-> FALSE] /\ driver[t] = 0
  BY DEF Opened, Acquired
<1>6. SessionTypeOK'
  <2>1. driver' \in [Threads -> 0 .. MaxHolders + 2]
    BY <1>1, <1>3, <1>5
  <2>2. renderer' \in [Threads -> Held \cup {"closed"}] /\ left' \subseteq Threads
    BY <1>1, <1>5 DEF Held
  <2> QED  BY <1>3, <1>4, <2>1, <2>2 DEF Works
<1>7. BrowsersInv(t)'
  BY <1>1, <1>3, <1>4, <1>5 DEF BrowsersInv, HandlesOf, Held
<1>8. \A u \in Threads \ {t} : BrowsersInv(u)'
  BY <1>1, <1>3, <1>4, <1>5, OtherBrowsers
<1> QED  BY <1>6, <1>7, <1>8

LEMMA ReleaseStep ==
  ASSUME SessionInv, NEW t \in Threads, Release(t) \/ LeaveSession(t)
  PROVE  SessionInv'
<1> USE BrowserAssumption DEF SessionInv, SessionTypeOK, BrowserAssumption
<1>0. /\ google' = [google EXCEPT ![t] = "closed"]
      /\ renderer' = [renderer EXCEPT ![t] = "closed"]
      /\ profile' = IF google[t] = "closed" THEN profile ELSE NoThread
      /\ \/ At(t, "fetching") /\ UNCHANGED official
         \/ End(t)
  BY DEF Release, LeaveSession, GoogleReleased, BothReleased
<1>1. \/ /\ driver' = [driver EXCEPT ![t] = @ - (HandlesOf(google[t]) + HandlesOf(renderer[t]))]
         /\ left' = IF driver'[t] = 0 THEN left \ {t} ELSE left
      \/ /\ driver' = [driver EXCEPT ![t] = @ - HandlesOf(google[t])]
         /\ left' = IF renderer[t] = "closed" THEN left ELSE left \cup {t}
  BY HandlesCounted DEF Release, LeaveSession, BothReleased, Stopped
<1>2. /\ driver[t] \in 0 .. MaxHolders + 2 /\ HandlesOf(google[t]) \in {0, 1} /\ HandlesOf(renderer[t]) \in {0, 1}
      /\ driver[t] >= HandlesOf(google[t]) + HandlesOf(renderer[t])
  BY DEF HandlesOf, BrowsersInv
<1>3. SessionTypeOK'
  <2>0. /\ driver[t] - (HandlesOf(google[t]) + HandlesOf(renderer[t])) \in 0 .. MaxHolders + 2
        /\ driver[t] - HandlesOf(google[t]) \in 0 .. MaxHolders + 2
    BY <1>2
  <2>1. driver' \in [Threads -> 0 .. MaxHolders + 2]
    BY <1>1, <2>0
  <2>2. google' \in [Threads -> Held \cup {"closed", "orphan"}] /\ renderer' \in [Threads -> Held \cup {"closed"}]
        /\ profile' \in Threads \cup {NoThread} /\ left' \subseteq Threads
    BY <1>0, <1>1
  <2>3. /\ official' \in [Threads -> [pages : 0 .. MaxPages, known : BOOLEAN]]
        /\ work' \in [Threads -> Works]
    <3>0. work \in [Threads -> Works]
      BY DEF Works
    <3>1. CASE At(t, "fetching") /\ UNCHANGED official
      BY <3>0, <3>1, WorkMoves DEF At
    <3>2. CASE End(t)
      BY <3>0, <3>2 DEF End, Unvisited, Rest, Works
    <3> QED  BY <1>0, <3>1, <3>2
  <2> QED  BY <2>1, <2>2, <2>3 DEF Works
<1>4. BrowsersInv(t)'
  BY <1>0, <1>1, <1>2 DEF BrowsersInv, HandlesOf, Held
<1>5. \A u \in Threads \ {t} : BrowsersInv(u)'
  <2> SUFFICES ASSUME NEW u \in Threads, u # t PROVE BrowsersInv(u)'
    OBVIOUS
  <2>1. profile' = u <=> profile = u
    BY <1>0 DEF BrowsersInv
  <2>2. work'[u] = work[u]
    BY <1>0 DEF At, End
  <2> QED  BY <1>0, <1>1, <2>1, <2>2, OtherBrowsers
<1> QED  BY <1>3, <1>4, <1>5

LEMMA SessionStep ==
  ASSUME SessionInv, [SessionNext]_everything
  PROVE  SessionInv'
<1> USE BrowserAssumption DEF SessionInv, SessionTypeOK, BrowserAssumption
<1>0. work \in [Threads -> Works] /\ 0 \in 0 .. 3 /\ 1 \in 0 .. 3
  BY DEF Works
<1>1. ASSUME NEW t \in Pool, NEW kind \in {"verify", "discover"}, Serve(t, kind) PROVE SessionInv'
  <2>1. SessionTypeOK'
    BY <1>1 DEF Serve, Rest
  <2> QED  BY <1>1, <2>1, BrowsersLeft DEF Serve
<1>2. ASSUME NEW t \in Pool, AskOfficial(t) PROVE SessionInv'
  <2>1. /\ work' \in [Threads -> Works] /\ work'[t].at = "homepage"
        /\ \A u \in Threads \ {t} : work'[u] = work[u]
    BY <1>0, <1>2, WorkMoves DEF AskOfficial
  <2>2. SessionTypeOK'
    BY <1>2, <2>1 DEF AskOfficial, Works
  <2> QED  BY <1>2, <2>1, <2>2, BrowsersLeft DEF AskOfficial
<1>3. ASSUME NEW t \in Pool, SitesVisited(t) PROVE SessionInv'
  <2>1. /\ work' \in [Threads -> Works] /\ work'[t].at = "searching"
        /\ \A u \in Threads \ {t} : work'[u] = work[u]
    BY <1>0, <1>3, WorkMoves DEF SitesVisited, Known
  <2>2. official' \in [Threads -> [pages : 0 .. MaxPages, known : BOOLEAN]]
    BY <1>3 DEF SitesVisited, Known
  <2>3. SessionTypeOK'
    BY <1>3, <2>1, <2>2 DEF SitesVisited, Works
  <2> QED  BY <1>3, <2>1, <2>3, BrowsersLeft DEF SitesVisited
<1>4. ASSUME NEW t \in Pool, FetchesDone(t) PROVE SessionInv'
  <2>1. CASE At(t, "searching") /\ UNCHANGED official
    <3>1. /\ work' \in [Threads -> Works] /\ work'[t].at = "searching"
          /\ \A u \in Threads \ {t} : work'[u] = work[u]
      BY <1>0, <2>1, WorkMoves DEF At
    <3>2. SessionTypeOK'
      BY <1>4, <2>1, <3>1 DEF FetchesDone, Works
    <3> QED  BY <1>4, <3>1, <3>2, BrowsersLeft DEF FetchesDone
  <2>2. CASE End(t)
    <3>1. work' \in [Threads -> Works] /\ \A u \in Threads \ {t} : work'[u] = work[u]
      BY <1>0, <2>2 DEF End, Rest, Works
    <3>2. official' \in [Threads -> [pages : 0 .. MaxPages, known : BOOLEAN]]
      BY <2>2 DEF End, Unvisited
    <3>3. SessionTypeOK'
      BY <1>4, <3>1, <3>2 DEF FetchesDone, Works
    <3> QED  BY <1>4, <3>1, <3>3, BrowsersLeft DEF FetchesDone
  <2> QED  BY <1>4, <2>1, <2>2 DEF FetchesDone
<1>5. ASSUME UNCHANGED sessionVars PROVE SessionInv'
  BY <1>5 DEF sessionVars, BrowsersInv
<1> QED
  BY <1>1, <1>2, <1>3, <1>4, <1>5, GoogleStep, VisitStep, ReleaseStep
  DEF SessionNext, SearchStep, everything

LEMMA SessionStart == SessionInit => SessionInv
BY BrowserAssumption
DEF SessionInit, SessionInv, SessionTypeOK, BrowsersInv, HandlesOf, Held, Unvisited, Rest, BrowserAssumption

LEMMA SessionInvariance == SessionSpec => []SessionInv
BY SessionStart, SessionStep, PTL DEF SessionSpec

(* Any number of threads, roots and pages, launches that break where they will:  *)
(* a verification fetches without a driver in its thread, unless one broke or was *)
(* left open there.                                                            *)
THEOREM DriversReturned == SessionSpec => []DriverReturned
<1>1. SessionInv => DriverReturned
  BY DEF SessionInv, SessionTypeOK, BrowsersInv, DriverReturned, HandlesOf, Held
<1> QED  BY <1>1, SessionInvariance, PTL

(* No thread keeps Google's profile after its search.                          *)
THEOREM ProfilesReturned == SessionSpec => []ProfileReturned
<1>1. SessionInv => ProfileReturned
  BY DEF SessionInv, BrowsersInv, ProfileReturned
<1> QED  BY <1>1, SessionInvariance, PTL

(* A thread whose browsers are in the way fetches as FetchTransport allows: the  *)
(* deadline holds there, too.                                                  *)
THEOREM SessionsImplementFetching == SessionSpec => Spec
<1>1. SessionInit => Init
  BY DEF SessionInit
<1>2. [SessionNext]_everything => [Next]_vars
  BY DEF SessionNext, FetchStep, Next, everything
<1> QED  BY <1>1, <1>2, PTL DEF SessionSpec, Spec
=============================================================================
