----------------------------- MODULE CandidateRanking -----------------------------
(***************************************************************************)
(* core/discovery.py, from search results to candidates: which domains are  *)
(* proven official, what kind of page a URL is, the score of a candidate,   *)
(* the relevance gate before any fetch, the merge of the results of one     *)
(* page, and the trace that accounts for every result.                      *)
(*                                                                         *)
(* A page is a canonical URL, numbered in lexical order: Page[u] is its     *)
(* host, its path (segments of words), whether its query string searches,   *)
(* and whether it is a PDF. A result is [page, title, snippet, provider,    *)
(* query]: title and snippet are sequences of groups of words, the query is *)
(* the words it asked for.                                                  *)
(***************************************************************************)
EXTENDS ModelMatching, Integers

CONSTANTS
  Page, NoPage,       \* NoPage: a URL that canonicalize_url refuses
  Site,               \* host -> [root, brand, suffix, resembles, kind]: the registrable
                      \* domain and its label (brand \o suffix), the brands its first
                      \* label resembles, and what the tables of hosts say of it
  Hints,              \* the tables of words for path segments and titles
  Commerce,           \* suffixes of a shop that bears a brand's name
  OfficialWord, BrandConfirmed, FamilyLink   \* "official"; two markers of the direct probe

Kinds == {"homepage", "catalog", "weak", "support", "product", "other"}
HostKinds == {"ordinary", "marketplace", "specialized_reference", "retailer", "blocked",
              "user_content", "context", "documents", "reserved"}
Relevant == {"exact", "likely_variant", "weak"}

ASSUME RankingAssumption ==
  /\ DOMAIN Page \subseteq Nat /\ NoPage \notin DOMAIN Page
  /\ \A u \in DOMAIN Page : Page[u].host \in DOMAIN Site
  /\ \A h \in DOMAIN Site : Site[h].kind \in HostKinds

HostOf(u) == Site[Page[u].host]
PathOf(u) == Page[u].path
PathWords(u) == Words(PathOf(u))
Haystack(r) == Words(r.title) \cup PathWords(r.page)
BelongsTo(u, domain) == Page[u].host = domain \/ HostOf(u).root = domain

-----------------------------------------------------------------------------
(* Kinds of pages                                                           *)

IsSearchLanding(u) ==
  \/ PathWords(u) \cap Hints.search # {}
  \/ Page[u].searches /\ PathWords(u) \cap Hints.product = {}

PageKind(u) ==
  LET path == PathOf(u)
      Has(hints) == PathWords(u) \cap hints # {}
  IN IF IsSearchLanding(u) THEN "catalog"
     ELSE IF path = << >> \/ \E w \in Hints.locale : path = <<<<w>>>> THEN "homepage"
     ELSE IF Has(Hints.weak) THEN "weak"
     ELSE IF Has(Hints.support) \/ Page[u].pdf THEN "support"
     ELSE IF \E w \in Hints.catalog : path[Len(path)] = <<w>> THEN "catalog"
     ELSE IF Has(Hints.product) THEN "product" ELSE "other"

IsObviousNonProduct(u, model) ==
  LET blocked == PathWords(u) \cap Hints.blocked IN
  \/ HostOf(u).kind \in {"blocked", "user_content"}
  \/ /\ blocked # {}
     /\ blocked \subseteq Hints.container => CandidateModelMatch(model, << >>, PathOf(u)) # "exact"

IsOfficialDocument(u) ==
  Page[u].pdf \/ HostOf(u).kind = "documents" \/ PathWords(u) \cap Hints.support # {}

ClassifySource(u, official) ==
  IF HostOf(u).kind \in {"marketplace", "specialized_reference"} THEN HostOf(u).kind
  ELSE IF official THEN "manufacturer"
  ELSE IF HostOf(u).kind = "retailer" THEN "retailer" ELSE "other"

-----------------------------------------------------------------------------
(* Which domains are proven official                                        *)

BrandRoot(h, brand) == Site[h].brand = brand /\ Site[h].suffix = NoWord
BrandFamily(h, brand) ==
  Site[h].brand = brand /\ Site[h].suffix # NoWord /\ Site[h].suffix \notin Commerce

BrandEvidence(r, brand) ==
  \/ brand \in Words(r.title)
  \/ BrandRoot(Page[r.page].host, brand)
  \/ r.provider = "direct_domain_probe" /\ BrandConfirmed \in Words(r.snippet)

Sayings(r) == r.title \o r.snippet
MatchOf(r, model) == CandidateModelMatch(model, r.title, PathOf(r.page))
NamesInAnyField(r, model) == ModelMatch(model, Sayings(r) \o PathText(PathOf(r.page))) = "exact"
Valid(results) == {r \in ToSet(results) : r.page # NoPage}
OwnPage(r) == ~IsSearchLanding(r.page) /\ HostOf(r.page).kind # "user_content"

(* A result that claims to be the official site, or the homepage of the     *)
(* brand's root with an exact product page beside it: the evidence for a     *)
(* domain is its weight, the domain and the page.                           *)
ClaimedDomains(brand, claims, products, model) ==
  LET Claim(i) ==
        LET r == claims[i]
            host == Page[r.page].host
            named == brand \in Words(Sayings(r))
            beside == \E p \in Valid(products) :
                        /\ OwnPage(p) /\ p.page # r.page /\ BelongsTo(p.page, Site[host].root)
                        /\ NamesInAnyField(p, model)
        IN IF ~named THEN {}
           ELSE IF OfficialWord \in Words(Sayings(r)) THEN {<<120 - i, host, r.page>>}
           ELSE IF BrandRoot(host, brand) /\ beside THEN {<<100 - i, Site[host].root, r.page>>}
           ELSE {}
      consistent == {i \in DOMAIN claims :
                       /\ claims[i].page # NoPage
                       /\ LET host == Page[claims[i].page].host
                          IN brand \in Site[host].resembles \/ BrandRoot(host, brand)}
  IN UNION {Claim(i) : i \in consistent}

(* An exact product page on the brand's root, on one of several roots with   *)
(* one label, or on a site that the brand's own site links to.              *)
ProvenDomains(brand, products, match) ==
  LET Label(r) == <<HostOf(r.page).brand, HostOf(r.page).suffix>>
      Exact(r) == BrandEvidence(r, brand) /\ ~IsSearchLanding(r.page) /\ match[r] = "exact"
      ecosystem == {r \in Valid(products) : BrandFamily(Page[r.page].host, brand) /\ Exact(r)}
      Regional(r) ==
        LET roots == {HostOf(e.page).root : e \in {e \in ecosystem : Label(e) = Label(r)}}
        IN Cardinality(roots) >= 2 /\ HostOf(r.page).root \in roots
      Sibling(r) == /\ r.provider = "direct_domain_probe" /\ FamilyLink \in Words(r.snippet)
                    /\ BrandFamily(Page[r.page].host, brand)
      Proven(r) ==
        /\ r.page # NoPage
        /\ HostOf(r.page).kind # "reserved" /\ OwnPage(r) /\ BrandEvidence(r, brand)
        /\ \/ BrandRoot(Page[r.page].host, brand) /\ match[r] \in {"exact", "likely_variant"}
           \/ (Regional(r) \/ Sibling(r)) /\ match[r] = "exact"
  IN {<<90 - i, HostOf(products[i].page).root, products[i].page>> :
        i \in {i \in DOMAIN products : Proven(products[i])}}

Stronger(a, b) == a[1] > b[1] \/ (a[1] = b[1] /\ a[3] > b[3])

(* The members of S one after the other, none before a stronger one.         *)
Ranked(S) ==
  CHOOSE s \in [1 .. Cardinality(S) -> S] :
    \A i, j \in 1 .. Cardinality(S) : i < j => s[i] # s[j] /\ ~Stronger(s[j], s[i])

(* The domains in the order of their evidence, the best of each.            *)
OfficialDomains(brand, claims, products, model) ==
  LET match == [r \in Valid(products) |-> MatchOf(r, model)]
      proofs == ClaimedDomains(brand, claims, products, model) \cup ProvenDomains(brand, products, match)
      best == {e \in proofs : \A o \in proofs : o[2] = e[2] => ~Stronger(o, e)}
      ranked == Ranked(best)
  IN [i \in 1 .. Cardinality(best) |-> [domain |-> ranked[i][2], evidence |-> ranked[i][3]]]

-----------------------------------------------------------------------------
(* Scores                                                                   *)

MatchScore == [exact |-> 60, likely_variant |-> 45, likely |-> 30, unknown |-> -35,
               mismatch |-> -120, different_variant |-> -120]
KindScore == [product |-> 15, homepage |-> -25, catalog |-> -20, support |-> 10,
              weak |-> -20, other |-> 0]
TypeScore == [manufacturer |-> 25, official_document |-> 20, retailer |-> 5,
              marketplace |-> -25, specialized_reference |-> 0, other |-> 0]

ScoreCandidate(u, said, type, authority, match, product) ==
  LET When(condition, points) == IF condition THEN points ELSE 0
      Spells(words) == \/ Covered(product.model.spellings, words) # {}
                       \/ Within(product.model.key, words)
  IN MatchScore[match] + TypeScore[type] + KindScore[PageKind(u)]
     + When(ArticleMatches(product.article, said \o PathText(PathOf(u))), 35)
     + When(authority = "verified", 20)
     + When(Spells(FlattenSeq(said)), 10) + When(Spells(FlattenSeq(PathOf(u))), 10)
     + When(match \in {"exact", "likely_variant"} /\ HostOf(u).brand = product.brand, 30)

ModelRelevance ==
  [exact |-> "exact_base_model", likely_variant |-> "variant_of_base_model",
   likely |-> "probable_base_model", mismatch |-> "different_model",
   different_variant |-> "different_model", unknown |-> "unknown"]

-----------------------------------------------------------------------------
(* The relevance gate                                                       *)

PathNamesCompleteModel(u, product) ==
  LET words == PathWords(u)
      identifiers == ToSet(product.model.parts) \cap Identifiers
      suffixes == {product.model.parts[i + 1] : i \in
                     {i \in 1 .. Len(product.model.parts) - 1 :
                        product.model.parts[i] \in Identifiers /\ product.model.parts[i + 1] \in Numbers}}
  IN \/ SpelledAt(product.model, FlattenSeq(PathOf(u))) # {} \/ product.branded \in words
     \/ Len(product.model.parts) >= 2 /\ ToSet(product.model.parts) \subseteq words
     \/ identifiers # {} /\ identifiers \cup suffixes \subseteq words

(* base_model_in_text of the title and the address *)
ExactPhrase(model, r) ==
  \E words \in {FlattenSeq(r.title), FlattenSeq(PathOf(r.page))} : PlainlyNamed(model, words)

Component(model, r) == CompoundModelMatch(model, Haystack(r))

HasContext(r, hosts, hints) == HostOf(r.page).kind \in hosts \/ Haystack(r) \cap hints # {}

AssessCandidateRelevance(c, product) ==
  LET model == product.model
      kind == PageKind(c.page)
      sku == SkuRelation(model, ToSet(c.title \o PathText(PathOf(c.page))))
      named == c.match = "exact" \/ ExactPhrase(model, c) \/ Component(model, c) = "exact"
      verifiable ==
        /\ c.match = "unknown" /\ c.authority = "verified"
        /\ c.type \in {"manufacturer", "official_document"}
        /\ \E p \in c.provenance : PlainlyNamed(model, p.query)
        /\ kind \notin {"homepage", "catalog", "weak"}
      excluded ==
        \/ c.match \in {"different_variant", "mismatch"}
        \/ IsSearchLanding(c.page)
        \/ HasContext(c, {"context"}, Hints.context)
        \/ HasContext(c, {}, Hints.accessory)
        \/ /\ kind = "product" /\ ~(ToSet(model.parts) \subseteq TinyWords)
           /\ \A p \in ToSet(model.parts) \ TinyWords : ~Within(p, FlattenSeq(PathOf(c.page)))
  IN IF excluded THEN "reject"
     ELSE IF c.match = "likely_variant"
       THEN IF sku = "regional_suffix" THEN "exact" ELSE "likely_variant"
     ELSE IF named
       THEN IF kind \in {"catalog", "homepage", "weak"} \/ ~PathNamesCompleteModel(c.page, product)
            THEN "weak" ELSE "exact"
     ELSE IF ArticleMatches(product.article, c.title \o PathText(PathOf(c.page))) THEN "exact"
     ELSE IF c.match = "likely" \/ Component(model, c) = "likely" \/ verifiable THEN "weak"
     ELSE "reject"

-----------------------------------------------------------------------------
(* rank_candidates: one candidate per page                                  *)

DomainOf(u, domains) ==
  LET owning == {i \in DOMAIN domains : BelongsTo(u, domains[i].domain)}
  IN IF owning = {} THEN [domain |-> NoWord, evidence |-> NoPage] ELSE domains[Min(owning)]

CandidateWith(r, product, owner, match) ==
  LET source == ClassifySource(r.page, owner.evidence # NoPage)
      verified == source = "manufacturer" /\ owner.evidence # NoPage
      type == IF verified /\ IsOfficialDocument(r.page) THEN "official_document" ELSE source
      authority == IF verified THEN "verified" ELSE "unknown"
  IN [page |-> r.page, title |-> r.title, type |-> type, authority |-> authority,
      evidence |-> IF verified THEN owner.evidence ELSE NoPage, match |-> match,
      relevance |-> ModelRelevance[match], relation |-> "unknown",
      score |-> ScoreCandidate(r.page, Sayings(r), type, authority, match, product),
      provenance |-> {[provider |-> r.provider, query |-> r.query]}]

CandidateOf(r, product, domains) ==
  CandidateWith(r, product, DomainOf(r.page, domains), MatchOf(r, product.model))

Considered(r, model) == r.page # NoPage /\ ~IsObviousNonProduct(r.page, model)

(* The results of one page make one candidate: the first of the best score,  *)
(* with the provenance of all.                                              *)
(* Mutant: the candidates that lose take their provenance with them.         *)
MergedWinnerOnly(winner, all) == winner

Merged(winner, all) == [winner EXCEPT !.provenance = UNION {c.provenance : c \in all}]

RankCandidates(results, product, domains) ==
  LET considered == {i \in DOMAIN results : Considered(results[i], product.model)}
      candidate == [i \in considered |-> CandidateOf(results[i], product, domains)]
      Same(i) == {j \in considered : results[j].page = results[i].page}
      Wins(i) == \A j \in Same(i) :
                   \/ candidate[i].score > candidate[j].score
                   \/ candidate[i].score = candidate[j].score /\ i <= j
  IN {Merged(candidate[i], {candidate[j] : j \in Same(i)}) : i \in {i \in considered : Wins(i)}}

(* _partition_relevance_candidates: the gate's answers, and the order in    *)
(* which the accepted and the rejected candidates are listed.               *)
Gated(candidates, product) ==
  {[gate |-> AssessCandidateRelevance(c, product), candidate |-> c] : c \in candidates}
Accepted(gated) == {g.candidate : g \in {g \in gated : g.gate # "reject"}}
Rejected(gated) == {g.candidate : g \in {g \in gated : g.gate = "reject"}}
Before(c, d) == c.score > d.score \/ (c.score = d.score /\ c.page < d.page)

-----------------------------------------------------------------------------
(* _build_discovery_trace: what became of every result collected             *)

PagesIn(candidates) == {c.page : c \in candidates}

TraceEntry(results, i, accepted, rejected, model) ==
  LET u == results[i].page
      seen == \E j \in 1 .. i - 1 : results[j].page = u
  IN IF u = NoPage THEN "invalid_or_non_http_url"
     ELSE IF ~Considered(results[i], model) THEN "obvious_non_product_or_blocked_url"
     ELSE IF seen THEN "merged_duplicate"
     ELSE IF u \in PagesIn(accepted) THEN "accepted"
     ELSE IF u \in PagesIn(rejected) THEN "rejected"
     ELSE "unclassified_pre_ranking_drop"

DiscoveryTrace(results, accepted, rejected, model) ==
  [i \in DOMAIN results |-> TraceEntry(results, i, accepted, rejected, model)]
=============================================================================
