------------------------------ MODULE OfficialProbe ------------------------------
(***************************************************************************)
(* core/discovery.py, DirectDomainProbeProvider: the search for the product *)
(* on the manufacturer's own sites.  One call resolves the roots that the   *)
(* brand suggests, each in a thread, probes those that answered in time,    *)
(* each in a thread, and widens the search while no exact page was found:   *)
(* to sibling sites, then to roots that exist in DNS.  Threads that were    *)
(* not waited for go on.  All share the count of requests and a stop event. *)
(*                                                                          *)
(* Time is counted in ticks since the call began.  A page is an exact page  *)
(* of the requested product or it is not.                                   *)
(***************************************************************************)
EXTENDS Integers, FiniteSets, Sequences

CONSTANTS
  Brand, Family, Regional, \* roots of the three phases
  Redirects,          \* <<d, e>>: what d resolves to may be the root e
  Surfaces,           \* how many requests a probe's surfaces make at most, in order
  QuickSearch,        \* how many the cheap pass makes at most
  Timeout,            \* the provider's timeout
  Reserve,            \* what _discover keeps of it for itself
  Primary,            \* the primary phase's allowance
  ShortWindow, Window,\* how long roots may take to resolve, with and without an answer
  LeastWiden,         \* the time that _extra_phases needs
  DnsWait,            \* how long DNS is waited for
  Grace,              \* sibling_grace_seconds
  VerifyTime,         \* the verification's own allowance
  Transport,          \* the timeout of one request
  Overrun,            \* by how much reading its body may exceed it
  MaxRequests, ExtraRequests, DomainLimit, MaxProbe,
  MaxCalls,           \* bound: calls for one product
  NotYet              \* _records is None

Domains == Brand \cup Family \cup Regional

ASSUME ProbeAssumption ==
  /\ Brand \cap Family = {} /\ (Brand \cup Family) \cap Regional = {}
  /\ Brand # {} /\ IsFiniteSet(Domains)
  /\ Redirects \subseteq Domains \X Domains /\ \A d \in Domains : <<d, d>> \in Redirects
  /\ Surfaces \in Seq(Nat) /\ Len(Surfaces) > 0 /\ QuickSearch \in Nat
  /\ Timeout \in Nat /\ Reserve \in Nat /\ Primary \in Nat
  /\ ShortWindow \in Nat /\ Window \in Nat \ {0} /\ LeastWiden \in Nat /\ DnsWait \in Nat
  /\ Grace \in Nat /\ VerifyTime \in Nat /\ Transport \in Nat \ {0} /\ Overrun \in Nat
  /\ MaxRequests \in Nat /\ ExtraRequests \in Nat
  /\ DomainLimit \in Nat \ {0} /\ MaxProbe \in Nat \ {0} /\ MaxCalls \in Nat \ {0}

VARIABLES
  phase,              \* of the call: "idle" between two calls
  stage,              \* what the calling thread waits for in it
  clock,              \* time since the call began
  waited,             \* time since its window opened
  thread,             \* the threads that resolve and probe roots and verify their pages
  resolved,           \* the roots that answered in this window, by the domain asked
  requests,           \* _request_count
  limit,              \* max_requests
  stop,               \* the stop event
  grace,              \* time until _stop_after
  exact,              \* roots with an exact page in the results
  records,            \* _records
  calls               \* _discover's calls for this product

callVars   == <<phase, stage, clock, waited>>
sharedVars == <<requests, limit, stop, grace>>
resultVars == <<exact, records, calls>>
probeVars == <<callVars, thread, resolved, sharedVars, resultVars>>

Smaller(a, b) == IF a < b THEN a ELSE b
Larger(a, b)  == IF a > b THEN a ELSE b

HardDeadline    == Larger(Timeout - Reserve, 0)
PrimaryDeadline == Smaller(HardDeadline, Smaller(Timeout, Primary))
LastMoment      == HardDeadline + Overrun + DnsWait + VerifyTime + Overrun

ProbeThreads == {"resolve", "probe", "verify"} \X Domains
NoThread == [state |-> "none", surface |-> 1, asked |-> 0, counted |-> 0,
             deadline |-> 0, waits |-> 0, found |-> FALSE]
ThreadState == [state    : {"none", "ready", "waiting", "over", "cut", "raised"},
                surface  : 1 .. Len(Surfaces), asked : Nat, counted : Nat,
                deadline : Nat, waits : Nat, found : BOOLEAN]

TypeOK ==
  /\ phase \in {"idle", "primary", "family", "regional"}
  /\ stage \in {"none", "resolving", "probing", "dns", "verifying"}
  /\ clock \in 0 .. LastMoment /\ waited \in 0 .. LastMoment
  /\ thread \in [ProbeThreads -> ThreadState]
  /\ resolved \subseteq Redirects
  /\ requests \in Nat /\ limit \in Nat /\ requests <= limit
  /\ stop \in BOOLEAN /\ grace \in 0 .. Grace
  /\ exact \subseteq Domains
  /\ records \in {NotYet} \cup SUBSET Domains
  /\ calls \in 0 .. MaxCalls

ProbeInit ==
  /\ phase = "idle" /\ stage = "none" /\ clock = 0 /\ waited = 0
  /\ thread = [w \in ProbeThreads |-> NoThread]
  /\ resolved = {}
  /\ requests = 0 /\ limit = MaxRequests
  /\ stop = FALSE /\ grace = 0
  /\ exact = {} /\ records = NotYet /\ calls = 0

Running(w) == thread[w].state \in {"ready", "waiting"}

(* The threads kind of ds, which begin; a slot is free when its thread is over. *)
Started(kind, ds, deadline, counted) ==
  [w \in ProbeThreads |->
     IF w[1] = kind /\ w[2] \in ds
     THEN [NoThread EXCEPT !.state = "ready", !.deadline = deadline, !.counted = counted]
     ELSE IF w[1] = kind /\ ~Running(w) THEN NoThread ELSE thread[w]]

-----------------------------------------------------------------------------
(* _get                                                                     *)

(* The verification's threads have no context. *)
InContext(w) == w[1] # "verify"

CutOff(w) == InContext(w) /\ stop /\ grace = 0

Refused(w) ==
  \/ requests >= limit
  \/ InContext(w) /\ thread[w].counted >= DomainLimit
  \/ CutOff(w)
  \/ clock >= thread[w].deadline

RequestTimeout(w) == Smaller(Transport, thread[w].deadline - clock)

(* Mutant: the limits are not looked at. *)
CountedUnchecked(w) ==
  /\ thread[w].state = "ready"
  /\ requests' = requests + 1

Counted(w) ==
  /\ thread[w].state = "ready" /\ ~Refused(w)
  /\ requests' = requests + 1

Get(w) ==
  /\ Counted(w)
  /\ thread' = [thread EXCEPT ![w].state = "waiting", ![w].asked = @ + 1,
                              ![w].counted = @ + 1, ![w].waits = RequestTimeout(w) + Overrun]
  /\ UNCHANGED <<callVars, resolved, limit, stop, grace, resultVars>>

-----------------------------------------------------------------------------
(* _resolve_domain, in a thread: www.<domain>, then <domain>                *)

MayAskRoot(w) == thread[w].asked < 2

Over(w, state) == thread' = [thread EXCEPT ![w] = [@ EXCEPT !.state = state, !.waits = 0]]

AskRoot(d) == LET w == <<"resolve", d>> IN MayAskRoot(w) /\ Get(w)

RootRefused(d) ==
  LET w == <<"resolve", d>> IN
  /\ thread[w].state = "ready" /\ Refused(w)
  /\ Over(w, "over")
  /\ UNCHANGED <<callVars, resolved, sharedVars, resultVars>>

(* No answer: the other spelling, if there is one left. *)
RootFails(d) ==
  LET w == <<"resolve", d>> IN
  /\ thread[w].state = "waiting"
  /\ IF MayAskRoot(w)
     THEN thread' = [thread EXCEPT ![w].state = "ready", ![w].waits = 0]
     ELSE Over(w, "over")
  /\ UNCHANGED <<callVars, resolved, sharedVars, resultVars>>

(* The window in which the thread was started is still open. *)
Awaited(d) ==
  /\ stage = "resolving"
  /\ d \in CASE phase = "primary" -> Brand [] phase = "family" -> Family [] OTHER -> Regional

(* A page that is no brand site's, or one of the brand's; late answers are lost. *)
RootAnswers(d) ==
  LET w == <<"resolve", d>> IN
  /\ thread[w].state = "waiting"
  /\ Over(w, "over")
  /\ \/ UNCHANGED resolved
     \/ \E r \in Redirects : r[1] = d /\ Awaited(d) /\ resolved' = resolved \cup {r}
  /\ UNCHANGED <<callVars, sharedVars, resultVars>>

-----------------------------------------------------------------------------
(* _probe_domain, in a thread                                               *)

Quick == phase = "regional"

Cap(w) == IF Quick THEN QuickSearch ELSE Surfaces[thread[w].surface]

(* robots.txt, unless what it says is known: it links no product.             *)
ReadsStructure(w) == ~Quick /\ thread[w].surface = 1

(* An exact page ends the probe with the surface that had it, which may go on:  *)
(* robots.txt is asked for though the homepage links the product, the routes of  *)
(* the sitemaps for up to three exact pages.                                    *)
MayAsk(w) ==
  /\ thread[w].asked < Cap(w)
  /\ thread[w].found => ~Quick

AskSite(d) == LET w == <<"probe", d>> IN MayAsk(w) /\ Get(w)

(* Nothing more to ask of this surface. *)
NextSurface(d) ==
  LET w == <<"probe", d>> IN
  /\ thread[w].state = "ready"
  /\ ~Quick /\ ~thread[w].found /\ thread[w].surface < Len(Surfaces)
  /\ thread' = [thread EXCEPT ![w].surface = @ + 1, ![w].asked = 0]
  /\ UNCHANGED <<callVars, resolved, sharedVars, resultVars>>

(* A request answers: with an exact page, or with nothing of use. *)
SiteAnswers(d) ==
  LET w == <<"probe", d>> IN
  /\ thread[w].state = "waiting"
  /\ \E found \in BOOLEAN :
       thread' = [thread EXCEPT ![w].state = "ready", ![w].waits = 0,
                                ![w].found = @ \/ (found /\ ~ReadsStructure(w))]
  /\ UNCHANGED <<callVars, resolved, sharedVars, resultVars>>

(* Refused once, refused to the end: the probe ends with what it has. *)
SiteRefused(d) ==
  LET w == <<"probe", d>> IN
  /\ thread[w].state = "ready" /\ MayAsk(w) /\ ~thread[w].found
  /\ Refused(w)
  /\ Over(w, IF CutOff(w) THEN "cut" ELSE "over")
  /\ UNCHANGED <<callVars, resolved, sharedVars, resultVars>>

(* All surfaces are exhausted, or one had an exact page; the first to find one *)
(* of a full probe stops its siblings, after a grace.                          *)
ProbeEnds(d) ==
  LET w == <<"probe", d>> IN
  /\ thread[w].state = "ready"
  /\ Quick \/ thread[w].found \/ thread[w].surface = Len(Surfaces)
  /\ Over(w, "over")
  /\ IF thread[w].found /\ ~Quick /\ ~stop
     THEN stop' = TRUE /\ grace' = Grace
     ELSE UNCHANGED <<stop, grace>>
  /\ UNCHANGED <<callVars, resolved, requests, limit, resultVars>>

(* A connection lost while the body is read, or an address that does not   *)
(* parse; in the last surface, the second hop of the crawl, it is caught.  *)
ProbeRaises(d) ==
  LET w == <<"probe", d>> IN
  /\ Running(w) /\ (Quick \/ thread[w].surface < Len(Surfaces))
  /\ Over(w, "raised")
  /\ UNCHANGED <<callVars, resolved, sharedVars, resultVars>>

-----------------------------------------------------------------------------
(* _verify_records, in at most three threads                                *)

AskPage(d) == LET w == <<"verify", d>> IN thread[w].asked = 0 /\ Get(w)

(* Whatever the page says, and if it says nothing, the record stays. *)
Verified(d) ==
  LET w == <<"verify", d>> IN
  /\ \/ thread[w].state = "waiting"
     \/ thread[w].state = "ready" /\ Refused(w)
  /\ Over(w, "over")
  /\ UNCHANGED <<callVars, resolved, sharedVars, resultVars>>

PageLost(d) ==
  LET w == <<"verify", d>> IN
  /\ thread[w].state = "waiting"
  /\ Over(w, "raised")
  /\ UNCHANGED <<callVars, resolved, sharedVars, resultVars>>

-----------------------------------------------------------------------------
(* _discover, in the calling thread                                         *)

NoStop == stop' = FALSE /\ grace' = 0

(* The call is over; the threads it did not wait for go on.                 *)
Leave ==
  /\ phase' = "idle" /\ stage' = "none" /\ waited' = 0
  /\ thread' = [w \in ProbeThreads |-> IF Running(w) THEN thread[w] ELSE NoThread]
  /\ resolved' = {} /\ exact' = {}
  /\ UNCHANGED <<clock, sharedVars, calls>>

Called ==
  /\ phase = "idle" /\ records = NotYet /\ calls < MaxCalls
  /\ \A d \in Brand : ~Running(<<"resolve", d>>)
  /\ phase' = "primary" /\ stage' = "resolving" /\ clock' = 0 /\ waited' = 0
  /\ calls' = calls + 1
  /\ thread' = [w \in ProbeThreads |->   \* the others' deadlines are on the last call's clock
       IF w \in {"resolve"} \X Brand THEN Started("resolve", Brand, PrimaryDeadline, 0)[w]
       ELSE [thread[w] EXCEPT !.deadline = Larger(@ - clock, 0)]]
  /\ UNCHANGED <<resolved, exact>>

(* Mutant: the event of the last call is still set. *)
DiscoverStopped == Called /\ UNCHANGED <<requests, limit, stop, grace, records>>

(* A product's second call, after one that raised, begins here only when the *)
(* brand's own roots have no thread left of the first.                       *)
Discover == Called /\ NoStop /\ UNCHANGED <<requests, limit, records>>

PhaseDeadline == IF phase = "primary" THEN PrimaryDeadline ELSE HardDeadline

WindowOver ==
  \/ \A d \in Domains : Awaited(d) => ~Running(<<"resolve", d>>)
  \/ clock >= PhaseDeadline
  \/ waited >= Window
  \/ phase = "primary" /\ waited >= ShortWindow /\ resolved # {}

Roots == {r[2] : r \in resolved}

(* Each root is probed once; which of more than MaxProbe depends on the order *)
(* of the candidates.  The homepage may link the product.                     *)
CloseWindow ==
  /\ stage = "resolving" /\ WindowOver
  /\ \E taken \in SUBSET Roots :
       /\ IF phase = "primary" /\ Cardinality(Roots) > MaxProbe
          THEN Cardinality(taken) = MaxProbe ELSE taken = Roots
       /\ \E linked \in SUBSET taken :
            thread' = [w \in ProbeThreads |->
              IF w[1] = "probe" /\ w[2] \in taken
              THEN [NoThread EXCEPT !.state = "ready", !.deadline = PhaseDeadline,
                                    !.counted = 1, !.found = w[2] \in linked]
              ELSE IF w[1] = "probe" THEN NoThread ELSE thread[w]]
  /\ stage' = "probing"
  /\ UNCHANGED <<phase, clock, waited, resolved, sharedVars, resultVars>>

Lost(kind) == \E d \in Domains : thread[<<kind, d>>].state = "raised"

Probed == stage = "probing" /\ \A d \in Domains : ~Running(<<"probe", d>>)
Raised == Lost("probe")
Looked == stage = "verifying" /\ \A d \in Domains : ~Running(<<"verify", d>>)
Found  == {d \in Domains : thread[<<"probe", d>>].found}

(* A probe of the primary phase raised, or a page's verification did: so   *)
(* does the call, and it keeps nothing.                                    *)
CallRaises ==
  /\ \/ Probed /\ phase = "primary" /\ Raised
     \/ Looked /\ Lost("verify")
  /\ Leave /\ UNCHANGED records

(* The pages found are looked at, at most three of them. *)
Verify(pages) ==
  /\ exact' = pages
  /\ stage' = "verifying"
  /\ \E some \in SUBSET pages :
       /\ Cardinality(some) = Smaller(3, Cardinality(pages))
       /\ thread' = Started("verify", some, Larger(PrimaryDeadline, clock) + VerifyTime, 0)

MayWiden == clock < HardDeadline - LeastWiden

(* _extra_phases is left, with what it found or, after an exception, nothing. *)
Enough ==
  /\ Probed
  /\ \/ phase = "primary" /\ ~Raised /\ (Found # {} \/ ~MayWiden)
     \/ phase = "family" /\ (Raised \/ Found # {})
     \/ phase = "regional"
  /\ Verify(IF Raised THEN {} ELSE Found)
  /\ UNCHANGED <<phase, clock, waited, resolved, sharedVars, records, calls>>

Widen ==
  /\ Probed /\ phase = "primary" /\ ~Raised
  /\ Found = {} /\ MayWiden
  /\ limit' = requests + ExtraRequests

(* The sibling sites that official pages link to. *)
ProbeFamily ==
  /\ Widen
  /\ \E family \in SUBSET Family \ {{}} :
       thread' = Started("resolve", family, HardDeadline, 0)
  /\ phase' = "family" /\ stage' = "resolving" /\ waited' = 0
  /\ resolved' = {} /\ NoStop
  /\ UNCHANGED <<clock, requests, resultVars>>

(* None, or none of use: DNS is asked for further roots. *)
AskDns ==
  /\ \/ Widen
     \/ Probed /\ phase = "family" /\ ~Raised /\ Found = {} /\ UNCHANGED limit
  /\ phase' = "regional" /\ stage' = "dns" /\ waited' = 0
  /\ UNCHANGED <<clock, thread, resolved, requests, stop, grace, resultVars>>

DnsAnswers ==
  /\ stage = "dns"
  /\ \E live \in SUBSET Regional :
       IF live = {}
       THEN Verify({}) /\ UNCHANGED <<waited, resolved, stop, grace>>
       ELSE /\ thread' = Started("resolve", live, HardDeadline, 0)
            /\ stage' = "resolving" /\ waited' = 0
            /\ resolved' = {} /\ NoStop /\ UNCHANGED exact
  /\ UNCHANGED <<phase, clock, requests, limit, records, calls>>

CallReturns ==
  /\ Looked /\ ~Lost("verify")
  /\ Leave /\ records' = exact

(* configure_identity, of the session's next product. *)
ConfigureIdentity ==
  /\ phase = "idle"
  /\ calls > 0 /\ calls' = 0
  /\ records' = NotYet /\ requests' = 0 /\ limit' = MaxRequests
  /\ UNCHANGED <<callVars, thread, resolved, stop, grace, exact>>

-----------------------------------------------------------------------------
(* A request takes up to its timeout, and what happens at once takes none.  *)
Urgent ==
  \/ stage = "resolving" /\ WindowOver
  \/ Probed
  \/ Looked
  \/ stage = "dns" /\ waited >= DnsWait
  \/ \E w \in ProbeThreads : thread[w].state = "ready"

Tick ==
  /\ ~Urgent
  /\ phase # "idle" \/ \E w \in ProbeThreads : Running(w)
  /\ \A w \in ProbeThreads : thread[w].state = "waiting" => thread[w].waits > 0
  /\ clock' = Smaller(clock + 1, LastMoment + 1) /\ waited' = Smaller(waited + 1, LastMoment + 1)
  /\ thread' = [w \in ProbeThreads |->
       IF thread[w].state = "waiting" THEN [thread[w] EXCEPT !.waits = @ - 1] ELSE thread[w]]
  /\ grace' = Larger(grace - 1, 0)
  /\ UNCHANGED <<phase, stage, resolved, requests, limit, stop, resultVars>>

ThreadStep(d) ==
  \/ AskRoot(d) \/ RootRefused(d) \/ RootFails(d) \/ RootAnswers(d)
  \/ AskSite(d) \/ NextSurface(d) \/ SiteAnswers(d) \/ SiteRefused(d) \/ ProbeEnds(d)
  \/ ProbeRaises(d)
  \/ AskPage(d) \/ Verified(d) \/ PageLost(d)

ProbeNext ==
  \/ \E d \in Domains : ThreadStep(d)
  \/ Discover \/ CloseWindow \/ CallRaises \/ Enough \/ ProbeFamily \/ AskDns \/ DnsAnswers
  \/ CallReturns \/ ConfigureIdentity
  \/ Tick

ProbeSpec == ProbeInit /\ [][ProbeNext]_probeVars

-----------------------------------------------------------------------------
(* What bounds the search, whatever its threads do, also those that outlive *)
(* their window or their call.                                             *)

(* max_requests and extra_phase_requests: requests for one product.  The   *)
(* widening's allowance is granted on top of what was asked so far, once a *)
(* call; only a call that raised is followed by another.                   *)
RequestsBounded == requests <= MaxRequests + calls * ExtraRequests

(* A probe is only cut short for the sake of an exact page that a sibling  *)
(* of the same phase has: no stop survives into a later phase or call.     *)
CutBySibling ==
  \A d \in Domains : thread[<<"probe", d>>].state = "cut" =>
     \E e \in Domains \ {d} : thread[<<"probe", e>>].found
==============================================================================
