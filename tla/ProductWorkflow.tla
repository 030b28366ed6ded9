---------------------------- MODULE ProductWorkflow ----------------------------
(***************************************************************************)
(* One verification: _run_product_workflow_with_services (core/workflow.py) *)
(* and the targeted search it runs (core/targeted_search.py), under one     *)
(* wall-clock budget (core/budget.py).                                     *)
(*                                                                         *)
(* discover -> fetch the selected candidates and the specification pages    *)
(* they link to -> search for the fields still missing, query by query      *)
(* -> recover authority roles -> validate.                                 *)
(*                                                                         *)
(* Time passes between any two steps, so a check of the budget and the call  *)
(* it allows may see different remaining times. What discovery finds and    *)
(* how a site answers are choices of the environment; SearchSession models   *)
(* the inside of a discovery, HealthStore the breaker in front of a host.   *)
(***************************************************************************)
EXTENDS SourceEvidence

CONSTANTS
  Fields,             \* expected, searchable fields of the schema, in its order
  Content,            \* facts the extractor reads from the page of a URL
  BoundContent,       \* facts only the readers of exact official pages read
  SpecLinks,          \* specification links on the page of a URL
  Redirects,          \* where a request for a URL may end
  InitialOutcomes,    \* candidate lists of the initial discovery
  TargetedOutcomes,   \* [status, candidates] of a targeted discovery
  Queries,            \* number of planned queries of each field
  MaxInitialSources, MaxTotalQueries, MaxCandidatesPerQuery, MaxCandidatesPerField,
  StreakLimits,       \* the five max_consecutive_... settings
  Total,              \* budget, in units of the smallest minimum
  FetchMinimum,       \* minimum of initial_fetch, fetch and targeted_search: 1 s
  QueryMinimum,       \* of targeted_discovery and targeted_fetch: 0.25 s
  ProviderMinimum,    \* of each provider a discovery asks: 0.1 s
  ExtractionMinimum   \* of the extractions: 0.05 s

Candidates ==
  [url : Urls, type : STRING, authority : STRING, gate : STRING, verify : BOOLEAN,
   relation : {"exact_variant", "same_base_model", "different_model", "unknown"},
   relevance : {"exact_base_model", "variant_of_base_model", "probable_base_model",
                "different_model", "unknown"},
   match : {"exact", "likely_variant", "likely", "mismatch", "different_variant", "unknown"},
   variant : {"matches", "silent", "conflicts"}, score : Int]

(* Each field is listed once, and so is each document that a page links to   *)
(* (extract_official_spec_links).                                           *)
ASSUME WorkflowAssumption ==
  /\ Total \in Nat /\ ExtractionMinimum \in Nat \ {0}
  /\ ProviderMinimum \in Nat /\ ExtractionMinimum <= ProviderMinimum
  /\ QueryMinimum \in Nat /\ ProviderMinimum <= QueryMinimum
  /\ FetchMinimum \in Nat /\ QueryMinimum <= FetchMinimum
  /\ Fields \in Seq(ToSet(Fields)) /\ \A i, j \in DOMAIN Fields : Fields[i] = Fields[j] => i = j
  /\ InitialOutcomes \subseteq Seq(Candidates)
  /\ \A o \in TargetedOutcomes : o.candidates \in Seq(Candidates)
  /\ SpecLinks \in [Urls -> Seq(Urls)] /\ Redirects \in [Urls -> SUBSET Urls]
  /\ \A u \in Urls : \A i, j \in DOMAIN SpecLinks[u] :
       /\ Canonical[SpecLinks[u][i]] # NoUrl
       /\ Canonical[SpecLinks[u][i]] = Canonical[SpecLinks[u][j]] => i = j
  /\ Queries \in [ToSet(Fields) -> Nat \ {0}]
  /\ MaxInitialSources \in Nat \ {0} /\ MaxTotalQueries \in Nat \ {0}
  /\ MaxCandidatesPerQuery \in Nat \ {0} /\ MaxCandidatesPerField \in Nat \ {0}

VARIABLES
  step,
  enabled,            \* targeted_search_enabled of the request
  remaining,          \* remaining_seconds
  exhaustedStage,     \* exhausted_stage
  queue, at, queued,  \* the growing list of candidates, its iterator, its URLs
  cache,              \* fetch_cache of fetch_once: transport results
  requests,           \* how often each document was requested (history)
  sources,            \* fetched
  extracted,          \* indices of the sources that were extracted
  plan,               \* fields of the targeted plan, [] when it is not run
  field, query,       \* the two outer for loops of the targeted search
  inspected,          \* candidates inspected for the field
  executed,           \* executed_queries
  streaks, domains, covered, confirmable,
  pageCache,          \* fetch_cache of the targeted search: sources
  current,            \* what the running query has found so far
  results,            \* TargetedQueryResults
  stops,              \* [field, stop_reason, global] of the ended fields
  profile             \* field -> its resolution

initialVars == <<queue, at, queued, sources, extracted>>
fetchVars == <<cache, requests>>
targetedVars == <<plan, field, query, inspected, executed, streaks, domains, covered,
                  confirmable, pageCache, current, results, stops>>
budgetVars == <<remaining, exhaustedStage>>
workflowVars == <<step, enabled, budgetVars, initialVars, fetchVars, targetedVars, profile>>

None == "none"
Streaks == {"zero_accepted_candidates", "zero_useful_facts", "duplicate_domain_saturation",
            "no_coverage_gain", "no_confirmed_gain"}
NoResult == [status |-> None]
NoQuery == [status |-> "success", candidates |-> << >>, accepted |-> 0, domains |-> {},
            views |-> << >>, facts |-> {}, strong |-> FALSE, stop |-> None, global |-> FALSE]

Doc(c) == Canonical[c.url]
Docs == {Canonical[u] : u \in Urls} \ {NoUrl}

WorkflowTypeOK ==
  /\ step \in {"discovery", "queue", "fetch", "extract", "plan", "query", "queryDiscovery",
             "candidate", "candidateFetch", "candidateExtract", "account", "resolve", "done"}
  /\ enabled \in BOOLEAN
  /\ remaining \in 0 .. Total
  /\ exhaustedStage \in {None, "initial_discovery", "initial_fetch", "initial_extraction",
       "fetch", "targeted_search", "targeted_discovery", "targeted_fetch", "targeted_extraction"}
  /\ at \in 1 .. Len(queue) + 1
  /\ queued = {Doc(queue[i]) : i \in DOMAIN queue}
  /\ Len(sources) < at + 1 /\ extracted \subseteq DOMAIN sources
  /\ \A d \in Docs : requests[d] \in Nat /\ (cache[d] # NoResult => requests[d] > 0)
  /\ \A d \in Docs : pageCache[d] # NoResult => cache[d] # NoResult
  /\ executed \in 0 .. MaxTotalQueries
  /\ inspected \in 0 .. MaxCandidatesPerField
  /\ streaks \in [Streaks -> Nat]
  /\ covered \cup confirmable \subseteq ToSet(plan) /\ confirmable \subseteq covered
  /\ Len(results) <= executed
  /\ Len(stops) <= Len(plan)

WorkflowInit ==
  /\ step = "discovery" /\ enabled \in BOOLEAN
  /\ remaining = Total /\ exhaustedStage = None
  /\ queue = << >> /\ at = 1 /\ queued = {}
  /\ cache = [d \in Docs |-> NoResult] /\ requests = [d \in Docs |-> 0]
  /\ sources = << >> /\ extracted = {}
  /\ plan = << >> /\ field = 1 /\ query = 1 /\ inspected = 0 /\ executed = 0
  /\ streaks = [s \in Streaks |-> 0] /\ domains = {} /\ covered = {} /\ confirmable = {}
  /\ pageCache = [d \in Docs |-> NoResult] /\ current = NoQuery
  /\ results = << >> /\ stops = << >>
  /\ profile = << >>

-----------------------------------------------------------------------------
(* WallClockBudget *)

TimePasses ==
  /\ step # "done" /\ remaining > 0
  /\ remaining' = remaining - 1
  /\ UNCHANGED <<step, enabled, exhaustedStage, initialVars, fetchVars, targetedVars, profile>>

CanStart(minimum) == remaining >= minimum

(* Mutant: mark_exhausted without "if self.exhausted_stage is None". *)
MarkLastExhausted(stage, minimum) ==
  /\ ~CanStart(minimum)
  /\ exhaustedStage' = stage
  /\ UNCHANGED remaining

(* can_start that refuses: only the first stage cut off is recorded.        *)
MarkExhausted(stage, minimum) ==
  /\ ~CanStart(minimum)
  /\ exhaustedStage' = IF exhaustedStage = None THEN stage ELSE exhaustedStage
  /\ UNCHANGED remaining

-----------------------------------------------------------------------------
(* Initial discovery and the fetch loop *)

(* A discovery that ran out of time has marked the budget itself.           *)
DiscoverInitial ==
  /\ step = "discovery"
  /\ \E candidates \in InitialOutcomes :
       queue' \in SelectSourceCandidates(candidates, MaxInitialSources)
  /\ queued' = {Doc(queue'[i]) : i \in DOMAIN queue'}
  /\ \/ UNCHANGED budgetVars
     \/ MarkExhausted("initial_discovery", ProviderMinimum)
  /\ step' = "queue"
  /\ UNCHANGED <<at, sources, extracted, fetchVars, targetedVars, enabled, profile>>

TakeFromQueue ==
  /\ step = "queue"
  /\ IF at > Len(queue) THEN step' = "plan" /\ UNCHANGED budgetVars
     ELSE \/ CanStart(FetchMinimum) /\ step' = "fetch" /\ UNCHANGED budgetVars
          \/ MarkExhausted("initial_fetch", FetchMinimum) /\ step' = "plan"
  /\ UNCHANGED <<initialVars, fetchVars, targetedVars, enabled, profile>>

(* The transport results that a request for url can have.                   *)
TransportResults(url) == [url : {url}, final : Redirects[url], status : {"success", "blocked"}]

(* fetch_once on a document not fetched yet: live_fetch makes the request,  *)
(* whatever its answer is.                                                 *)
LiveFetch(c, page) ==
  /\ CanStart(FetchMinimum)
  /\ page \in TransportResults(c.url)
  /\ cache' = [cache EXCEPT ![Doc(c)] = page]
  /\ requests' = [requests EXCEPT ![Doc(c)] = @ + 1]

FetchOnce(c, page) ==
  \/ cache[Doc(c)] # NoResult /\ page = cache[Doc(c)] /\ UNCHANGED fetchVars
  \/ cache[Doc(c)] = NoResult /\ LiveFetch(c, page)

(* live_fetch finds too little time left and raises BudgetExhaustedError.    *)
FetchRefused(c) ==
  /\ cache[Doc(c)] = NoResult
  /\ MarkExhausted("fetch", FetchMinimum)
  /\ UNCHANGED fetchVars

AcceptsLinks(v) == v.status = "success" /\ IsOfficial(v.says) /\ v.says.relation \in SameProduct

(* The candidate an official page's specification link becomes.             *)
LinkedCandidate(c, url) ==
  [c EXCEPT !.url = url, !.match = "unknown", !.relevance = "unknown",
            !.relation = "unknown", !.verify = TRUE]

(* The members of a sequence at some of its places, in its order.           *)
InOrder(s, places) ==
  {[i \in DOMAIN p |-> s[p[i]]] :
     p \in {p \in [1 .. Cardinality(places) -> places] : \A i, j \in DOMAIN p : i < j => p[i] < p[j]}}

(* Mutant: links appended without looking them up in `queued`. *)
AllLinksToQueue(v) == DOMAIN SpecLinks[v.final]

LinksToQueue(v) ==
  {n \in DOMAIN SpecLinks[v.final] : Canonical[SpecLinks[v.final][n]] \notin queued}

FetchInitial ==
  /\ step = "fetch"
  /\ LET c == queue[at]
     IN \/ /\ FetchRefused(c)
           /\ step' = "plan"
           /\ UNCHANGED initialVars
        \/ \E page \in {cache[Doc(c)]} \cup TransportResults(c.url) :
             /\ FetchOnce(c, page)
             /\ LET v == FetchOnceView(page, c)
                    places == IF AcceptsLinks(v) THEN LinksToQueue(v) ELSE {}
                IN /\ sources' = Append(sources, v)
                   /\ \E links \in InOrder(SpecLinks[v.final], places) :
                        /\ queue' = queue \o [i \in DOMAIN links |-> LinkedCandidate(c, links[i])]
                        /\ queued' = queued \cup {Canonical[url] : url \in ToSet(links)}
                   /\ IF v.status = "success" THEN step' = "extract" /\ UNCHANGED at
                      ELSE step' = "queue" /\ at' = at + 1
                   /\ UNCHANGED <<budgetVars, extracted>>
  /\ UNCHANGED <<targetedVars, enabled, profile>>

ExtractInitial ==
  /\ step = "extract"
  /\ \/ CanStart(ExtractionMinimum) /\ extracted' = extracted \cup {Len(sources)}
        /\ UNCHANGED budgetVars
     \/ MarkExhausted("initial_extraction", ExtractionMinimum) /\ UNCHANGED extracted
  /\ at' = at + 1
  /\ step' = "queue"
  /\ UNCHANGED <<queue, queued, sources, fetchVars, targetedVars, enabled, profile>>

-----------------------------------------------------------------------------
(* Facts of the initial sources *)

(* The readers of exact official pages name the final URL as their source,   *)
(* the generic extractor the requested one.                                 *)
ReadsBoundContent(v) ==
  IsOfficial(v.says) /\ v.says.relevance = "exact_base_model" /\ v.says.relation \in SameProduct

Fact(content, url, wide) ==
  [field |-> content.field, value |-> content.value, confidence |-> content.confidence,
   source |-> url, wide |-> wide]

FactsOf(v) ==
  {Fact(f, v.url, FALSE) : f \in Content[v.final]}
    \cup IF ReadsBoundContent(v) THEN {Fact(f, v.final, TRUE) : f \in BoundContent[v.final]}
         ELSE {}

InitialFacts == UNION {FactsOf(sources[i]) : i \in extracted}

(* analyze_gaps and build_targeted_search_plan: a field with any fact is     *)
(* satisfied, whatever its source is worth.                                 *)
Missing(facts) == {n \in DOMAIN Fields : \A fact \in facts : fact.field # Fields[n]}
MissingFields == InOrder(Fields, Missing(InitialFacts))

PlanTargetedSearch ==
  /\ step = "plan"
  /\ \/ ~enabled /\ step' = "resolve" /\ UNCHANGED <<plan, budgetVars>>
     \/ /\ enabled /\ CanStart(FetchMinimum)
        /\ plan' \in MissingFields /\ step' = "query" /\ UNCHANGED budgetVars
     \/ /\ enabled /\ MarkExhausted("targeted_search", FetchMinimum)
        /\ step' = "resolve" /\ UNCHANGED plan
  /\ UNCHANGED <<initialVars, fetchVars, field, query, inspected, executed, streaks, domains,
                 covered, confirmable, pageCache, current, results, stops, enabled, profile>>

-----------------------------------------------------------------------------
(* _run_targeted_search *)

Searched == plan[field]

(* Mutant: the outer loop goes on after a global stop reason. *)
EndFieldOnly(reason, global) ==
  /\ stops' = Append(stops, [field |-> Searched, reason |-> reason, global |-> global])
  /\ inspected' = 0
  /\ query' = 1 /\ current' = NoQuery
  /\ IF field = Len(plan)
     THEN step' = "resolve" /\ UNCHANGED field
     ELSE step' = "query" /\ field' = field + 1

EndField(reason, global) ==
  /\ stops' = Append(stops, [field |-> Searched, reason |-> reason, global |-> global])
  /\ inspected' = 0
  /\ query' = 1 /\ current' = NoQuery
  /\ IF global \/ field = Len(plan)
     THEN step' = "resolve" /\ UNCHANGED field
     ELSE step' = "query" /\ field' = field + 1

StartQuery ==
  /\ step = "query"
  /\ \/ /\ plan = << >>
        /\ step' = "resolve"
        /\ UNCHANGED <<budgetVars, field, query, inspected, executed, current, stops>>
     \/ /\ plan # << >>
        /\ \/ query > Queries[Searched] /\ EndField("query_limit", FALSE)
              /\ UNCHANGED <<budgetVars, executed>>
           \/ query <= Queries[Searched] /\ executed >= MaxTotalQueries
              /\ EndField("global_query_limit", TRUE) /\ UNCHANGED <<budgetVars, executed>>
           \/ query <= Queries[Searched] /\ executed < MaxTotalQueries
              /\ MarkExhausted("targeted_discovery", QueryMinimum)
              /\ EndField("budget_exhausted", TRUE) /\ UNCHANGED executed
           \/ /\ query <= Queries[Searched] /\ executed < MaxTotalQueries
              /\ CanStart(QueryMinimum)
              /\ step' = "queryDiscovery"
              /\ UNCHANGED <<budgetVars, field, query, inspected, executed, current, stops>>
  /\ UNCHANGED <<initialVars, fetchVars, plan, streaks, domains, covered, confirmable,
                 pageCache, results, enabled, profile>>

DiscoverTargeted ==
  /\ step = "queryDiscovery"
  /\ \E outcome \in TargetedOutcomes :
       current' = [NoQuery EXCEPT !.status = outcome.status,
         !.candidates = [i \in {i \in DOMAIN outcome.candidates : i <= MaxCandidatesPerQuery}
                           |-> outcome.candidates[i]]]
  /\ \/ UNCHANGED budgetVars
     \/ MarkExhausted("targeted_discovery", ProviderMinimum)
  /\ executed' = executed + 1
  /\ step' = "candidate"
  /\ UNCHANGED <<initialVars, fetchVars, plan, field, query, inspected, streaks, domains,
                 covered, confirmable, pageCache, results, stops, enabled, profile>>

Candidate == Head(current.candidates)
Stopped(reason, global) == [current EXCEPT !.stop = reason, !.global = global]

ConsiderCandidate ==
  /\ step = "candidate"
  /\ \/ /\ current.candidates = << >>
        /\ step' = "account"
        /\ UNCHANGED <<budgetVars, inspected, current>>
     \/ /\ current.candidates # << >>
        /\ MarkExhausted("targeted_fetch", QueryMinimum)
        /\ current' = Stopped("budget_exhausted", TRUE)
        /\ step' = "account"
        /\ UNCHANGED inspected
     \/ /\ current.candidates # << >> /\ CanStart(QueryMinimum)
        /\ inspected >= MaxCandidatesPerField
        /\ current' = Stopped("candidate_limit", FALSE)
        /\ step' = "account"
        /\ UNCHANGED <<budgetVars, inspected>>
     \/ /\ current.candidates # << >> /\ CanStart(QueryMinimum)
        /\ inspected < MaxCandidatesPerField
        /\ inspected' = inspected + 1
        /\ IF CandidateIdentityRejection(Candidate, Searched) \/ Doc(Candidate) = NoUrl
           THEN current' = [current EXCEPT !.candidates = Tail(@)] /\ UNCHANGED step
           ELSE /\ current' = [current EXCEPT !.accepted = @ + 1,
                                              !.domains = @ \cup {Host[Doc(Candidate)]}]
                /\ step' = "candidateFetch"
        /\ UNCHANGED budgetVars
  /\ UNCHANGED <<initialVars, fetchVars, plan, field, query, executed, streaks, domains,
                 covered, confirmable, pageCache, results, stops, enabled, profile>>

(* The search's own cache keeps the source made for the first candidate of   *)
(* a document.                                                              *)
FetchCandidate ==
  /\ step = "candidateFetch"
  /\ LET c == Candidate
         Take(v) ==
           /\ pageCache' = [pageCache EXCEPT ![Doc(c)] = v]
           /\ current' = [current EXCEPT !.views = Append(@, TargetedView(v, c)),
                            !.candidates = IF v.status = "success" THEN @ ELSE Tail(@)]
           /\ step' = IF v.status = "success" THEN "candidateExtract" ELSE "candidate"
           /\ UNCHANGED budgetVars
     IN \/ pageCache[Doc(c)] # NoResult /\ Take(pageCache[Doc(c)]) /\ UNCHANGED fetchVars
        \/ /\ pageCache[Doc(c)] = NoResult
           /\ \E page \in {cache[Doc(c)]} \cup TransportResults(c.url) :
                FetchOnce(c, page) /\ Take(FetchOnceView(page, c))
        \/ /\ pageCache[Doc(c)] = NoResult
           /\ FetchRefused(c)
           /\ current' = Stopped("budget_exhausted", TRUE)
           /\ step' = "account"
           /\ UNCHANGED pageCache
  /\ UNCHANGED <<initialVars, plan, field, query, inspected, executed, streaks, domains,
                 covered, confirmable, results, stops, enabled, profile>>

ExtractCandidate ==
  /\ step = "candidateExtract"
  /\ LET v == Last(current.views)
         exact == {Fact(f, v.url, FALSE) : f \in {f \in Content[v.final] : f.field = Searched}}
     IN \/ /\ CanStart(ExtractionMinimum)
           /\ current' = [current EXCEPT !.candidates = Tail(@), !.facts = @ \cup exact,
                            !.strong = @ \/ (exact # {} /\ IsOfficial(v.says))]
           /\ step' = "candidate"
           /\ UNCHANGED budgetVars
        \/ /\ MarkExhausted("targeted_extraction", ExtractionMinimum)
           /\ current' = Stopped("budget_exhausted", TRUE)
           /\ step' = "account"
  /\ UNCHANGED <<initialVars, fetchVars, plan, field, query, inspected, executed, streaks,
                 domains, covered, confirmable, pageCache, results, stops, enabled, profile>>

(* One query's effect on the five counters of useless queries.              *)
UselessIn(s) ==
  CASE s = "zero_accepted_candidates" -> current.accepted = 0
    [] s = "zero_useful_facts" -> current.facts = {}
    [] s = "duplicate_domain_saturation" ->
         current.accepted > 0 /\ current.domains \subseteq domains /\ current.facts = {}
    [] s = "no_coverage_gain" -> current.facts = {} \/ Searched \in covered
    [] s = "no_confirmed_gain" -> ~current.strong \/ Searched \in confirmable

StreakOrder == <<"zero_accepted_candidates", "zero_useful_facts",
                 "duplicate_domain_saturation", "no_coverage_gain", "no_confirmed_gain">>

DiscoveryFailed ==
  IF current.status = "blocked" THEN "discovery_blocked" ELSE "discovery_error"

(* A query that ends its field leaves the counters as they were.            *)
AccountQuery ==
  /\ step = "account"
  /\ domains' = domains \cup current.domains
  /\ covered' = IF current.facts # {} THEN covered \cup {Searched} ELSE covered
  /\ confirmable' = IF current.strong THEN confirmable \cup {Searched} ELSE confirmable
  /\ results' = Append(results, [field |-> Searched, status |-> current.status,
                                 views |-> current.views, facts |-> current.facts])
  /\ \/ /\ current.status \in {"blocked", "error"}
        /\ EndField(DiscoveryFailed, current.global)
        /\ UNCHANGED streaks
     \/ /\ current.status \notin {"blocked", "error"} /\ current.strong
        /\ EndField("strong_official_evidence", current.global)
        /\ UNCHANGED streaks
     \/ /\ current.status \notin {"blocked", "error"} /\ ~current.strong
        /\ current.stop # None
        /\ EndField(current.stop, current.global)
        /\ UNCHANGED streaks
     \/ /\ current.status \notin {"blocked", "error"} /\ ~current.strong
        /\ current.stop = None
        /\ streaks' = [s \in Streaks |-> IF UselessIn(s) THEN streaks[s] + 1 ELSE 0]
        /\ LET Reached(n) == streaks'[StreakOrder[n]] >= StreakLimits[StreakOrder[n]]
           IN \/ \E n \in 1 .. 5 :
                   /\ Reached(n) /\ \A m \in 1 .. n - 1 : ~Reached(m)
                   /\ EndField(StreakOrder[n], TRUE)
              \/ /\ \A n \in 1 .. 5 : ~Reached(n)
                 /\ query' = query + 1 /\ current' = NoQuery /\ step' = "query"
                 /\ UNCHANGED <<field, inspected, stops>>
  /\ UNCHANGED <<budgetVars, initialVars, fetchVars, plan, executed, pageCache, enabled, profile>>

-----------------------------------------------------------------------------
(* Authority roles, validation *)

AllViews ==
  ToSet(sources) \cup UNION {ToSet(results[i].views) : i \in DOMAIN results}

(* What validation knows of the source of a fact, its authority resolved:     *)
(* the first source of the list that has the URL as its own or its final one. *)
FirstOf(views, places) ==
  ResolveAuthorityRole(views[CHOOSE i \in places : \A j \in places : i <= j], AllViews)

SourceMetadata(url) ==
  FirstOf(sources, {i \in DOMAIN sources : url \in {sources[i].url, sources[i].final}})

(* The sources of the fact's own query, compared by document.                *)
TargetedMetadata(views, url) ==
  FirstOf(views, {i \in DOMAIN views :
                    Canonical[url] \in {Canonical[views[i].url], Canonical[views[i].final]}})

Attributed(fact, v) ==
  [field |-> fact.field, value |-> fact.value, confidence |-> fact.confidence,
   source |-> fact.source, wide |-> fact.wide, claim |-> v.meta, status |-> v.status]

ExistingFacts == {Attributed(f, SourceMetadata(f.source)) : f \in InitialFacts}
TargetedFacts(i) ==
  {Attributed(f, TargetedMetadata(results[i].views, f.source)) : f \in results[i].facts}

(* _deduplicate_candidate_facts: the same statement of the same page counts   *)
(* once, with the metadata it had first.                                    *)
SameStatement(f, g) ==
  /\ f.field = g.field /\ f.value = g.value /\ f.wide = g.wide
  /\ Canonical[f.source] = Canonical[g.source]

AllFacts ==
  FoldLeft(LAMBDA facts, i : facts \cup
             {f \in TargetedFacts(i) : \A g \in facts : ~SameStatement(f, g)},
           ExistingFacts, [i \in DOMAIN results |-> i])

Validate ==
  /\ step = "resolve"
  /\ profile' = [f \in ToSet(Fields) |-> ResolveField({g \in AllFacts : g.field = f})]
  /\ step' = "done"
  /\ UNCHANGED <<enabled, budgetVars, initialVars, fetchVars, targetedVars>>

Finished == step = "done" /\ UNCHANGED workflowVars

WorkflowNext ==
  \/ TimePasses
  \/ DiscoverInitial \/ TakeFromQueue \/ FetchInitial \/ ExtractInitial
  \/ PlanTargetedSearch \/ StartQuery \/ DiscoverTargeted \/ ConsiderCandidate \/ FetchCandidate
  \/ ExtractCandidate \/ AccountQuery
  \/ Validate \/ Finished

WorkflowSpec == WorkflowInit /\ [][WorkflowNext]_workflowVars
=============================================================================
