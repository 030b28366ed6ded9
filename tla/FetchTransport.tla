----------------------------- MODULE FetchTransport -----------------------------
(***************************************************************************)
(* core/fetch.py: fetch_candidate.  Threads of several verifications fetch  *)
(* candidates: a GET with at most one retry, a browser when a page cannot   *)
(* be read without one, and a second chance in the browser for a verified   *)
(* first-party page.  The circuit breaker of a host is shared through the   *)
(* provider health store, here the atomic table of module Breaker.          *)
(*                                                                          *)
(* Time is counted in ticks.  A response is what the transport tells apart  *)
(* in it: its status code, its size and its body.                           *)
(***************************************************************************)
EXTENDS BreakerEntry, Integers

CONSTANTS
  Threads,
  Hosts,
  NoHost,             \* a URL without a host name
  Timeout,            \* the fetch's timeout
  Backoff,            \* FETCH_RETRY_BACKOFF_SECONDS
  LeastRetry,         \* MIN_RETRY_REMAINING_SECONDS
  LeastBrowser,       \* MIN_BROWSER_FALLBACK_SECONDS
  MostBrowser,        \* MAX_BROWSER_FALLBACK_SECONDS
  Overrun,            \* by how much a request or a rendering exceeds its own timeout
  StoreWait,          \* the longest operation of the health store
  Candidates,         \* the candidates that are fetched
  Pages, NoPage,      \* the HTML pages that are answered
  NoClass,            \* failure_class None
  Absent              \* as in Breaker

Candidate == [host : Hosts \cup {NoHost}, http : BOOLEAN, verified : BOOLEAN]

(* What _blocked_reason and _html_content_complete see in a page: a marker of *)
(* a challenge, a Product in JSON-LD, its text, the marker of a script shell, *)
(* elements marked as specifications, as placeholders, labels in a            *)
(* specification, and its values that are empty, or empty and with data.      *)
Page == [challenge : BOOLEAN, product : BOOLEAN, text : Nat, shell : BOOLEAN, specs : Nat,
         skeletons : Nat, labels : Nat, empty : Nat, pending : Nat]

ASSUME FetchAssumption ==
  /\ Pages \subseteq Page
  /\ Candidates \subseteq Candidate
  /\ NoHost \notin Hosts
  /\ Timeout \in Nat \ {0} /\ Backoff \in Nat
  /\ LeastRetry \in Nat \ {0}
  /\ LeastBrowser \in Nat \ {0} /\ MostBrowser \in Nat \ {0}
  /\ Overrun \in Nat /\ StoreWait \in Nat
  /\ Absent \notin Entry

VARIABLES
  pc,                 \* what a thread is waiting for
  candidate,          \* the host of its URL, a supported scheme, a verified first-party page
  clock,              \* time since fetch_candidate was entered
  began,              \* that time when fetch_source was entered
  call,               \* the current attempt, how long its wait may last and has lasted
  result,             \* the FetchResult: status and failure_class
  heard,              \* what the last answer to a GET was a failure of, if any
  health              \* the breakers, per host

vars == <<pc, candidate, clock, began, call, result, heard, health>>

Store == INSTANCE Breaker WITH Keys <- Hosts

Affecting   == {"timeout", "connection_error", "blocked", "rate_limited", "unavailable"}
Exceptions  == {"timeout", "connection_error", "other"}
Retryable   == {"timeout", "connection_error", "rate_limited"}   \* _FETCH_RETRYABLE_CLASSES

ASSUME ClassAssumption == NoClass \notin Affecting \cup {"other"}

(* The document of an error response never decides. *)
Responses ==
  LET Documents == [type : {"pdf", "text", "binary"}, page : {NoPage}]
                   \cup [type : {"html"}, page : Pages]
  IN  [code      : {"not_found", "denied", "rate_limited", "unavailable", "refused"},
       oversized : BOOLEAN, document : {[type |-> "text", page |-> NoPage]}]
      \cup [code : {"ok"}, oversized : BOOLEAN, document : Documents]

Statuses == {"success", "blocked", "not_found", "unsupported", "error"}
Result   == [status : Statuses, class : Affecting \cup {"other", NoClass}]
NoResult == [status |-> "error", class |-> NoClass]              \* _result()
NoCall   == [attempt |-> 0, limit |-> 0, lasted |-> 0]
NoCandidate == [host |-> NoHost, http |-> FALSE, verified |-> FALSE]

(* When the last wait of a fetch is over at the latest. *)
LastMoment == Timeout + Backoff + Overrun + 2 * StoreWait

ThreadsTypeOK ==
  /\ pc \in [Threads -> {"idle", "asking", "requesting", "backing_off", "rendering",
                         "recording", "retrying"}]
  /\ candidate \in [Threads -> Candidate]
  /\ clock \in [Threads -> Nat] /\ began \in [Threads -> Nat]
  /\ call \in [Threads -> [attempt : {0, 1}, limit : Nat, lasted : Nat]]
  /\ result \in [Threads -> Result]
  /\ heard \in [Threads -> Affecting \cup {"other", NoClass}]

TypeOK == ThreadsTypeOK /\ health \in [Hosts -> Entry \cup {Absent}]

Init ==
  /\ pc = [t \in Threads |-> "idle"]
  /\ candidate = [t \in Threads |-> NoCandidate]
  /\ clock = [t \in Threads |-> 0] /\ began = [t \in Threads |-> 0]
  /\ call = [t \in Threads |-> NoCall]
  /\ result = [t \in Threads |-> NoResult]
  /\ heard = [t \in Threads |-> NoClass]
  /\ Store!Init

Smaller(a, b) == IF a < b THEN a ELSE b

(* What is left of the timeout since fetch_source, and since fetch_candidate, was entered. *)
Left(t)      == Timeout - (clock[t] - began[t])
LeftInAll(t) == Timeout - clock[t]

(* The thread's next wait, which lasts at most limit. *)
Wait(t, what, attempt, limit) ==
  /\ pc' = [pc EXCEPT ![t] = what]
  /\ call' = [call EXCEPT ![t] = [attempt |-> attempt, limit |-> limit, lasted |-> 0]]

-----------------------------------------------------------------------------
(* fetch_candidate, up to fetch_source                                      *)

Begin(t, c) ==
  /\ pc[t] = "idle"
  /\ candidate' = [candidate EXCEPT ![t] = c]
  /\ Wait(t, "asking", 0, IF c.host = NoHost THEN 0 ELSE StoreWait)
  /\ UNCHANGED <<clock, began, result, heard, health>>

(* The caller has its result; the call's local variables are gone. *)
Return(t) ==
  /\ pc' = [pc EXCEPT ![t] = "idle"]
  /\ candidate' = [candidate EXCEPT ![t] = NoCandidate]
  /\ clock' = [clock EXCEPT ![t] = 0] /\ began' = [began EXCEPT ![t] = 0]
  /\ call' = [call EXCEPT ![t] = NoCall]
  /\ result' = [result EXCEPT ![t] = NoResult]
  /\ heard' = [heard EXCEPT ![t] = NoClass]

Host(t) == candidate[t].host

IsOpen(h)   == h # NoHost /\ health[h] # Absent /\ CooledDown(health[h]).state = "open"
AskStore(h) == IF h = NoHost \/ health[h] = Absent THEN UNCHANGED health ELSE Store!Look(h)

SkipHost(t) ==
  /\ pc[t] = "asking"
  /\ IsOpen(Host(t)) /\ AskStore(Host(t))
  /\ Return(t)

Admitted(t) ==
  /\ pc[t] = "asking"
  /\ ~IsOpen(Host(t))
  /\ AskStore(Host(t))

Fetchable(c) == c.host # NoHost /\ c.http

Unsupported(t) ==
  /\ Admitted(t) /\ ~Fetchable(candidate[t])
  /\ Return(t)

Request(t) ==
  /\ Admitted(t) /\ Fetchable(candidate[t])
  /\ Wait(t, "requesting", 0, Timeout)
  /\ began' = [began EXCEPT ![t] = clock[t]]
  /\ UNCHANGED <<candidate, clock, result, heard>>

-----------------------------------------------------------------------------
(* fetch_source                                                             *)

(* fetch_candidate goes on with the result: it tells the store, which takes *)
(* time, if there is something to tell.                                     *)
Finished(t, r) ==
  /\ result' = [result EXCEPT ![t] = r]
  /\ Wait(t, "recording", 0,
          IF r.status = "success" \/ r.class \in Affecting THEN StoreWait ELSE 0)

MayRetry(t, class) == call[t].attempt = 0 /\ class \in Retryable

(* client.get raised. *)
RequestFails(t, e) ==
  /\ pc[t] = "requesting"
  /\ heard' = [heard EXCEPT ![t] = e]
  /\ IF MayRetry(t, e)
     THEN Wait(t, "backing_off", 0, Backoff) /\ UNCHANGED result
     ELSE Finished(t, [status |-> "error", class |-> e])
  /\ UNCHANGED <<candidate, clock, began, health>>

RateLimited(t) ==
  /\ pc[t] = "requesting"
  /\ MayRetry(t, "rate_limited")
  /\ heard' = [heard EXCEPT ![t] = "rate_limited"]
  /\ Wait(t, "backing_off", 0, Backoff)
  /\ UNCHANGED <<candidate, clock, began, result, health>>

BackedOff(t) == pc[t] = "backing_off" /\ call[t].lasted = Backoff

(* Mutant: the retry gets the whole timeout again. *)
RetryInFull(t) ==
  /\ BackedOff(t) /\ Left(t) >= LeastRetry
  /\ Wait(t, "requesting", 1, Timeout)
  /\ UNCHANGED <<candidate, clock, began, result, heard, health>>

Retry(t) ==
  /\ BackedOff(t) /\ Left(t) >= LeastRetry
  /\ Wait(t, "requesting", 1, Left(t))
  /\ UNCHANGED <<candidate, clock, began, result, heard, health>>

(* Too late: the error is the exception, and None after a 429. *)
GiveUpRetry(t) ==
  /\ BackedOff(t) /\ Left(t) < LeastRetry
  /\ Finished(t, [status |-> "error",
                  class  |-> IF heard[t] \in Exceptions THEN heard[t] ELSE "other"])
  /\ UNCHANGED <<candidate, clock, began, heard, health>>

(* _html_content_complete: whether a page can be read without a browser. *)
ContentComplete(p) ==
  \/ p.product
  \/ /\ p.text >= 80 /\ (p.shell => p.text >= 500)
     /\ \/ p.specs = 0
        \/ /\ p.skeletons < 2
           /\ p.labels < 3 \/ (p.pending < 3 /\ (p.specs < 5 \/ p.empty < 3))

(* _html_needs_browser, of a page that is looked at at all. *)
NeedsBrowser(r) ==
  /\ r.code = "ok" /\ ~r.oversized /\ r.document.type = "html"
  /\ ~r.document.page.challenge /\ ~ContentComplete(r.document.page)

(* The status and failure class of a response that needs no browser, in the *)
(* order in which _fetch_source_impl looks at it.                           *)
Verdict(r) ==
  IF r.code = "not_found" THEN [status |-> "not_found", class |-> NoClass]
  ELSE IF r.oversized     THEN [status |-> "error", class |-> "other"]
  ELSE CASE r.code = "denied"       -> [status |-> "blocked", class |-> "blocked"]
         [] r.code = "rate_limited" -> [status |-> "error", class |-> "rate_limited"]
         [] r.code = "unavailable"  -> [status |-> "error", class |-> "unavailable"]
         [] r.code = "refused"      -> [status |-> "error", class |-> "other"]
         [] r.code = "ok" ->
              [status |-> CASE r.document.type = "binary" -> "unsupported"
                            [] r.document.type = "html" /\ r.document.page.challenge -> "blocked"
                            [] OTHER -> "success",
               class  |-> NoClass]

Response(t, r) ==
  /\ pc[t] = "requesting"
  /\ ~(r.code = "rate_limited" /\ MayRetry(t, "rate_limited"))
  /\ heard' = [heard EXCEPT ![t] =
                 CASE r.code = "denied" -> "blocked"
                   [] r.code \in Affecting -> r.code
                   [] OTHER -> NoClass]
  /\ UNCHANGED <<candidate, clock, began, health>>

Answered(t, r) ==
  /\ Response(t, r)
  /\ ~NeedsBrowser(r)
  /\ Finished(t, Verdict(r))

(* A PDF, and pypdf is not installed: the RuntimeError passes through fetch_candidate. *)
NoPdfReader(t, r) ==
  /\ pc[t] = "requesting"
  /\ r.code = "ok" /\ ~r.oversized /\ r.document.type = "pdf"
  /\ Return(t)
  /\ UNCHANGED health

NoTimeToRender(t, r) ==
  /\ Response(t, r)
  /\ NeedsBrowser(r) /\ Left(t) < LeastBrowser
  /\ Finished(t, [status |-> IF r.document.page.text > 0 THEN "success" ELSE "error",
                  class  |-> NoClass])

Render(t, r) ==
  /\ Response(t, r)
  /\ NeedsBrowser(r) /\ Left(t) >= LeastBrowser
  /\ Wait(t, "rendering", 0, Smaller(MostBrowser, Left(t)))
  /\ UNCHANGED result

(* What the browser shows: an exception, a challenge, a page without text, text. *)
Renderings == {"failed", "challenge", "blank", "text"}

Rendered(t, page) ==
  /\ pc[t] = "rendering"
  /\ Finished(t, [status |-> CASE page = "text"      -> "success"
                               [] page = "challenge" -> "blocked"
                               [] OTHER              -> "error",
                  class  |-> NoClass])
  /\ UNCHANGED <<candidate, clock, began, heard, health>>

-----------------------------------------------------------------------------
(* fetch_candidate, from there                                              *)

(* Mutant: any failure is recorded. *)
RecordedAny(h, r) ==
  IF r.status = "success" THEN Store!RecordSuccess(h) ELSE Store!RecordFailure(h)

Recorded(h, r) ==
  IF r.status = "success" THEN Store!RecordSuccess(h)
  ELSE IF r.class \in Affecting THEN Store!RecordFailure(h)
  ELSE UNCHANGED health

WorthRetrying(t) ==
  /\ LeftInAll(t) >= LeastBrowser
  /\ result[t].status \in {"blocked", "error"}
  /\ candidate[t].verified

Done(t) ==
  /\ pc[t] = "recording"
  /\ Recorded(Host(t), result[t])
  /\ ~WorthRetrying(t)
  /\ Return(t)

RetryInBrowser(t) ==
  /\ pc[t] = "recording"
  /\ Recorded(Host(t), result[t])
  /\ WorthRetrying(t)
  /\ Wait(t, "retrying", 0, Smaller(MostBrowser, LeftInAll(t)))
  /\ UNCHANGED <<candidate, clock, began, result, heard>>

(* Whatever it shows, the breaker does not hear of it. *)
RetriedInBrowser(t) ==
  /\ pc[t] = "retrying"
  /\ Return(t)
  /\ UNCHANGED health

-----------------------------------------------------------------------------
MayLast(t) ==
  call[t].limit + (IF pc[t] \in {"requesting", "rendering", "retrying"} THEN Overrun ELSE 0)

Busy == {t \in Threads : pc[t] # "idle"}

Tick ==
  /\ \A t \in Busy : call[t].lasted < MayLast(t)
  /\ clock' = [t \in Threads |-> IF t \in Busy THEN clock[t] + 1 ELSE clock[t]]
  /\ call' = [t \in Threads |->
                IF t \in Busy THEN [call[t] EXCEPT !.lasted = @ + 1] ELSE call[t]]
  /\ Store!Elapse
  /\ UNCHANGED <<pc, candidate, began, result, heard>>

Step(t) ==
  \/ SkipHost(t) \/ Unsupported(t) \/ Request(t)
  \/ RateLimited(t) \/ Retry(t) \/ GiveUpRetry(t)
  \/ \E e \in Exceptions : RequestFails(t, e)
  \/ \E r \in Responses : Answered(t, r) \/ NoPdfReader(t, r) \/ NoTimeToRender(t, r) \/ Render(t, r)
  \/ \E page \in Renderings : Rendered(t, page)
  \/ Done(t) \/ RetryInBrowser(t) \/ RetriedInBrowser(t)

Next ==
  \/ \E t \in Threads : Step(t) \/ \E c \in Candidates : Begin(t, c)
  \/ Tick

Spec == Init /\ [][Next]_vars
=============================================================================
