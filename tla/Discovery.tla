-------------------------------- MODULE Discovery --------------------------------
(***************************************************************************)
(* core/discovery.py, one discovery run: which queries it asks in which     *)
(* order, what makes it stop, and how the domains proven official reach the *)
(* process-wide cache that the runs of all threads share (here for one      *)
(* market: its key is the brand and the market). A run is broad              *)
(* (discover_identity_with_status), early (the same plan, ended by the      *)
(* first official page: services/discovery_debug.py) or a field query of    *)
(* the targeted search (discover_identity_query_with_status).               *)
(*                                                                         *)
(* The searcher is the environment: it answers a query with results, with   *)
(* the statuses of its providers' attempts, and with whether the budget ran *)
(* out. Answers limits what it may say to what the properties tell apart.   *)
(***************************************************************************)
EXTENDS CandidateRanking

CONSTANTS
  Threads,
  Products,           \* [brand, model, article, suffix]: suffix of the variant, or NoWord
  Answers,            \* what the searcher may say, per form of query
  BaseForms,          \* the forms of build_search_queries, in order
  Hinted,             \* brand -> the .com domain spelled like it
  MaxRuns             \* bound: runs started by all threads together

VARIABLES
  cache,              \* _OFFICIAL_DOMAIN_CACHE
  run,                \* the run of each thread
  started,            \* runs started so far
  shown               \* history: pages the searcher showed in the runs of a brand

vars == <<cache, run, started, shown>>

Brands == {p.brand : p \in Products}
OtherForms == {"hinted", "official", "website", "authority", "field", "site", "rest"}
Forms == ToSet(BaseForms) \cup OtherForms
Statuses == {"empty", "low_value", "blocked", "timeout", "parse_error", "error",
             "circuit_open", "capped"}
NotCached == [known |-> FALSE, domains |-> << >>]
Cached(domains) == [known |-> TRUE, domains |-> domains]

ASSUME DiscoveryAssumption ==
  /\ MaxRuns \in Nat /\ DOMAIN Answers = Forms
  /\ BaseForms \in Seq(ToSet(BaseForms)) /\ ToSet(BaseForms) \cap OtherForms = {}
  /\ \A i, j \in DOMAIN BaseForms : BaseForms[i] = BaseForms[j] => i = j
  /\ \A f \in Forms : \A a \in Answers[f] :
       /\ a.issues \subseteq Statuses /\ (a.results # << >> => a.success)
       /\ a.results = << >> => a.issues # {}
       /\ a.results \in Seq(ToSet(a.results))
       /\ \A res \in ToSet(a.results) :
            DOMAIN res = {"page", "title", "snippet", "provider", "query"} /\ res.page \in DOMAIN Page \cup {NoPage}

Query(form, words, domain, without) ==
  [form |-> form, words |-> words, domain |-> domain, without |-> without]
Simple(form, words) == Query(form, words, NoWord, {})

Idle == [phase |-> "idle"]
Runs == {t \in Threads : run[t].phase # "idle"}

Init ==
  /\ cache = [b \in Brands |-> NotCached]
  /\ run = [t \in Threads |-> Idle]
  /\ started = 0
  /\ shown = [b \in Brands |-> {}]

-----------------------------------------------------------------------------
(* The plan of a run                                                        *)

BuildSearchQueries(p) ==
  [i \in DOMAIN BaseForms |-> Simple(BaseForms[i], <<p.brand>> \o p.model.parts)]

SiteQuery(p, domain) == Query("site", p.model.parts, domain, {})
OfficialWebsite(p) == Simple("website", <<p.brand>>)

BroadPlan(p, known) ==
  BuildSearchQueries(p) \o <<[SiteQuery(p, Hinted[p.brand]) EXCEPT !.form = "hinted"]>>
    \o (IF known THEN << >>
        ELSE <<Simple("official", p.model.parts \o <<p.brand>>), OfficialWebsite(p),
               Simple("authority", <<p.brand>> \o p.model.parts)>>)

FieldPlan(p, known) ==
  (IF known THEN << >> ELSE <<OfficialWebsite(p)>>) \o <<Simple("field", p.model.parts)>>

Start(t, p, kind) ==
  /\ run[t].phase = "idle" /\ started < MaxRuns
  /\ started' = started + 1
  /\ LET known == cache[p.brand].known
         plan == IF kind = "field" THEN FieldPlan(p, known) ELSE BroadPlan(p, known)
     IN run' = [run EXCEPT ![t] =
          [phase |-> "plan", kind |-> kind, product |-> p, known |-> known,
           domains |-> cache[p.brand].domains, plan |-> plan, asked |-> << >>,
           sites |-> << >>, results |-> << >>, claims |-> << >>, issues |-> {},
           stopped |-> FALSE, reached |-> FALSE, late |-> FALSE, gated |-> {}]]
  /\ UNCHANGED <<cache, shown>>

-----------------------------------------------------------------------------
(* Asking one query                                                         *)

Same(q, r) == q.words = r.words /\ q.domain = r.domain /\ q.without = r.without
              /\ (q.form = r.form \/ q.domain # NoWord)
Planned(r, q) == \E i \in DOMAIN r.asked : Same(r.asked[i], q)

Labelled(results, q) == [i \in DOMAIN results |-> [results[i] EXCEPT !.query = q.words]]

(* What _search_query returns, added to the run. A field run keeps the      *)
(* answer to its authority query apart from the product's results.          *)
Heard(r, q, answer) ==
  LET found == Labelled(answer.results, q)
      lookup == r.kind = "field" /\ q.form = "website"
  IN [r EXCEPT
        !.asked = Append(@, q),
        !.results = IF lookup THEN @ ELSE @ \o found,
        !.claims = IF q.form \in {"official", "website", "authority"} /\ answer.success THEN @ \o found ELSE @,
        !.issues = @ \cup answer.issues,
        !.late = @ \/ r.stopped,
        !.stopped = @ \/ answer.exhausted]

OfficialExactPage(res, p) ==
  /\ res.page # NoPage /\ ~IsSearchLanding(res.page)
  /\ HostOf(res.page).brand = p.brand
  /\ BrandEvidence(res, p.brand)
  /\ \/ MatchOf(res, p.model) = "exact"
     \/ /\ MatchOf(res, p.model) = "likely_variant"
        /\ SkuRelation(p.model, ToSet(res.title \o PathText(PathOf(res.page)))) = "regional_suffix"
  /\ PathNamesCompleteModel(res.page, p)
  /\ PageKind(res.page) \notin {"homepage", "catalog", "weak", "support"}
  /\ ~HasContext(res, {}, Hints.accessory) /\ ~HasContext(res, {"context"}, Hints.context)

Reaches(r, answer) ==
  r.kind = "early" /\ \E i \in DOMAIN answer.results : OfficialExactPage(answer.results[i], r.product)

(* Mutant: the query goes on after the budget is exhausted.                  *)
RestNeverStopped(r, answer) == IF Reaches(r, answer) THEN << >> ELSE Tail(r.plan)

Rest(r, answer) == IF answer.exhausted \/ Reaches(r, answer) THEN << >> ELSE Tail(r.plan)

Show(r, answer) ==
  shown' = [shown EXCEPT ![r.product.brand] = @ \cup {answer.results[i].page : i \in DOMAIN answer.results}]

Ask(t, answer) ==
  /\ run[t].phase = "plan" /\ run[t].plan # << >>
  /\ answer \in Answers[Head(run[t].plan).form]
  /\ LET r == run[t]
     IN /\ run' = [run EXCEPT ![t] =
             [Heard(r, Head(r.plan), answer) EXCEPT !.plan = Rest(r, answer),
                                                    !.reached = Reaches(r, answer)]]
        /\ Show(r, answer)
  /\ UNCHANGED <<cache, started>>

(* The domains follow from the whole plan's answers, and are remembered for  *)
(* every later run of the brand: also when there are none. A field run whose *)
(* lookup exhausted the budget has no product results to corroborate with.   *)
ProvenBy(r) == OfficialDomains(r.product.brand, r.claims, r.results, r.product.model)

(* Mutant: one entry for all brands. *)
CacheForAllBrands(r, domains) == [b \in Brands |-> Cached(domains)]

CacheFor(r, domains) == [cache EXCEPT ![r.product.brand] = Cached(domains)]

Mentions(r, domain) ==
  \E i \in DOMAIN r.results :
    /\ r.results[i].page # NoPage /\ BelongsTo(r.results[i].page, domain)
    /\ NamesInAnyField(r.results[i], r.product.model)

FirstOf(s, n) == SubSeq(s, 1, IF Len(s) < n THEN Len(s) ELSE n)

Limit == [site |-> 3, exclude |-> 2]

SiteDomains(r, domains) ==
  LET all == [i \in DOMAIN domains |-> domains[i].domain]
      relevant == SelectSeq(all, LAMBDA d : Mentions(r, d))
  IN IF relevant # << >> THEN relevant ELSE FirstOf(all, 1)

Settle(t) ==
  /\ run[t].phase = "plan" /\ run[t].plan = << >>
  /\ LET r == run[t]
     IN \E domains \in {IF r.known THEN r.domains ELSE ProvenBy(r)} : \E sites \in {SiteDomains(r, domains)} :
          /\ cache' = IF r.known THEN cache ELSE CacheFor(r, domains)
          /\ run' = [run EXCEPT ![t] =
               [r EXCEPT !.domains = domains, !.sites = sites,
                         !.phase = IF r.kind = "field" \/ r.stopped \/ r.reached THEN "done" ELSE "site",
                         !.plan = FirstOf(sites, Limit.site)]]
  /\ UNCHANGED <<started, shown>>

-----------------------------------------------------------------------------
(* The two follow-up loops over the official domains                        *)

(* The hosts already seen on a domain, beside the domain itself.            *)
SeenHosts(r, domain) ==
  {Page[res.page].host : res \in {x \in ToSet(r.results) : x.page # NoPage /\ BelongsTo(x.page, domain)}}
    \ {domain}

FollowUp(r, domain) ==
  IF r.phase = "site" THEN SiteQuery(r.product, domain)
  ELSE Query("rest", r.product.model.parts, domain, SeenHosts(r, domain))

WorthAsking(r, domain) ==
  /\ r.phase = "site" \/ SeenHosts(r, domain) # {}
  /\ ~Planned(r, FollowUp(r, domain))

FollowDomain(t) ==
  /\ run[t].phase \in {"site", "exclude"} /\ run[t].plan # << >>
  /\ LET r == run[t]
         q == FollowUp(r, Head(r.plan))
         Onward(s) == [s EXCEPT !.plan = Tail(r.plan)]
     IN IF ~WorthAsking(r, Head(r.plan))
        THEN run' = [run EXCEPT ![t] = Onward(r)] /\ UNCHANGED shown
        ELSE \E answer \in Answers[q.form] :
               /\ run' = [run EXCEPT ![t] =
                    IF answer.exhausted THEN [Heard(r, q, answer) EXCEPT !.phase = "done"]
                    ELSE Onward(Heard(r, q, answer))]
               /\ Show(r, answer)
  /\ UNCHANGED <<cache, started>>

NextLoop(t) ==
  /\ run[t].phase \in {"site", "exclude"} /\ run[t].plan = << >>
  /\ LET r == run[t]
     IN run' = [run EXCEPT ![t] =
          IF r.phase = "site"
          THEN [r EXCEPT !.phase = "exclude", !.plan = FirstOf(r.sites, Limit.exclude)]
          ELSE [r EXCEPT !.phase = "done"]]
  /\ UNCHANGED <<cache, started, shown>>

-----------------------------------------------------------------------------
(* The outcome                                                              *)

(* What an accepted candidate is to the requested identity: the annotations  *)
(* of broad and of targeted discovery, after the gate.                      *)
SourceIdentityRelation(p, c) ==
  LET full == <<p.model.key, p.suffix>>
  IN IF c.match \in {"mismatch", "different_variant"} THEN "different_model"
     ELSE IF c.match = "unknown" /\ ~ExactPhrase(p.model, c) THEN "unknown"
     ELSE IF \E g \in ToSet(c.title \o PathText(PathOf(c.page))) : Occurrences(full, g) # {}
       THEN "exact_variant"
     ELSE "same_base_model"

Renamed(p, c) ==
  IF c.match \in {"unknown", "mismatch"} /\ PlainlyNamed(p.model, FlattenSeq(c.title))
  THEN [c EXCEPT !.match = "exact", !.relevance = "exact_base_model",
                 !.score = ScoreCandidate(c.page, c.title, c.type, c.authority, "exact", p)]
  ELSE c

Annotated(p, g) ==
  LET c == Renamed(p, g.candidate)
  IN IF g.gate = "reject" THEN g
     ELSE [g EXCEPT !.candidate = [c EXCEPT !.relation = SourceIdentityRelation(p, c)]]

Rank(t) ==
  /\ run[t].phase = "done"
  /\ LET r == run[t] IN
     \E gated \in {Gated(RankCandidates(r.results, r.product, r.domains), r.product)} :
       run' = [run EXCEPT ![t] =
          [r EXCEPT !.phase = "ranked",
                    !.gated = IF r.kind = "early" THEN gated
                              ELSE {Annotated(r.product, g) : g \in gated}]]
  /\ UNCHANGED <<cache, started, shown>>

Severity == <<"timeout", "blocked", "error", "parse_error", "low_value", "empty",
              "circuit_open", "capped">>

SearchStatus(r) ==
  LET worst == SelectSeq(Severity, LAMBDA s : s \in r.issues)[1]
  IN IF r.issues = {} THEN "success"
     ELSE IF r.results # << >> THEN "partial"
     ELSE IF worst \in {"parse_error", "low_value", "circuit_open", "capped"} THEN "error"
     ELSE worst

Finish(t) ==
  /\ run[t].phase = "ranked"
  /\ run' = [run EXCEPT ![t] = Idle]
  /\ UNCHANGED <<cache, started, shown>>

Next ==
  \E t \in Threads :
    \/ \E p \in Products, kind \in {"broad", "early", "field"} : Start(t, p, kind)
    \/ \E answer \in UNION {Answers[f] : f \in Forms} : Ask(t, answer)
    \/ Settle(t) \/ FollowDomain(t) \/ NextLoop(t) \/ Rank(t) \/ Finish(t)

Spec == Init /\ [][Next]_vars

-----------------------------------------------------------------------------
(* What a discovery run owes its caller, over all answers of the searcher and  *)
(* all interleavings of runs that share the cache of official domains.         *)

Done(t) == run[t].phase = "ranked"

(* Authority is earned: a candidate is verified only through a domain that     *)
(* owns it and whose evidence page a searcher showed in a run of the same      *)
(* brand, this one or an earlier one; a marketplace or a reference site never  *)
(* is, whatever its name (classify_source, discover_global_official_domains).  *)
AuthorityIsEarned ==
  \A t \in Threads : Done(t) =>
    \A g \in run[t].gated :
      LET c == g.candidate IN
      c.authority = "verified" =>
        /\ c.evidence \in shown[run[t].product.brand]
        /\ HostOf(c.page).kind \notin {"marketplace", "specialized_reference"}
        /\ \E d \in ToSet(run[t].domains) : BelongsTo(c.page, d.domain) /\ BelongsTo(c.evidence, d.domain)

(* The budget is spent once: no query is asked twice in a run, and none after  *)
(* an answer said that the budget is exhausted, in any of the three loops.     *)
NoWastedQuery ==
  \A t \in Runs :
    /\ ~run[t].late
    /\ \A i, j \in DOMAIN run[t].asked : Same(run[t].asked[i], run[t].asked[j]) => i = j

(* Every result collected is accounted for: the trace never falls through to   *)
(* its defensive last case, names each accepted and each rejected candidate    *)
(* once, and a candidate keeps the provenance of every result of its page.     *)
EveryResultAccounted ==
  \A t \in Threads : Done(t) =>
    LET r == run[t]
        trace == DiscoveryTrace(r.results, Accepted(r.gated), Rejected(r.gated), r.product.model)
        Times(fate) == Cardinality({i \in DOMAIN trace : trace[i] = fate})
    IN /\ Times("unclassified_pre_ranking_drop") = 0
       /\ Times("accepted") = Cardinality(Accepted(r.gated)) /\ Times("rejected") = Cardinality(Rejected(r.gated))
       /\ \A g \in r.gated, i \in DOMAIN r.results :
            r.results[i].page = g.candidate.page
              => [provider |-> r.results[i].provider, query |-> r.results[i].query]
                   \in g.candidate.provenance

(* A page whose address names a variant of the model, or another model in its  *)
(* place (it writes a word near one of the model's identifiers, or another     *)
(* number where the model has its own), cannot pass the gate of a run as the    *)
(* exact product, whatever title a search result gives it: the matchers of     *)
(* match.py and sku.py and the decisions of the gate agree about it, over all  *)
(* pages and titles.                                                         *)
Titles == {res.title : res \in UNION {ToSet(a.results) : a \in UNION {Answers[f] : f \in Forms}}}

CouldPass(r, u, title) ==
  LET result == [page |-> u, title |-> title, snippet |-> << >>, provider |-> "any", query |-> << >>]
  IN AssessCandidateRelevance(CandidateOf(result, r.product, r.domains), r.product) = "exact"

NamesAnother(model, path) ==
  LET words == FlattenSeq(path)
      Variant(w) == Extends(w, model.key) /\ Extension[w].close
  IN \/ ~UrlNamesExactModel(model, path) /\ \E w \in ToSet(words) : Variant(w)
     \/ NearIdentifier(model, words)
     \/ OtherNumber(model, words) \/ LongerNumber(model, words)

VariantPageNeverExact ==
  \A t \in Runs : run[t].asked = << >> =>
    \A u \in DOMAIN Page : NamesAnother(run[t].product.model, PathOf(u)) =>
      \A title \in Titles : ~CouldPass(run[t], u, title)
=============================================================================
