----------------------------- MODULE VerifierProofs -----------------------------
(***************************************************************************)
(* Theorems about a verification.  First the workflow that computes it, for *)
(* any schema, pages, redirects, limits and budget: no document is fetched   *)
(* twice, the stage that the budget cut short is recorded exactly, and the   *)
(* targeted search ends for the reasons it gives; a source whose identity was *)
(* withdrawn vouches for nothing that the initial stage read.  Then the      *)
(* cached answers of verify(), for any number of threads, keys, releases,    *)
(* kills, repository faults and clock steps.                                *)
(***************************************************************************)
EXTENDS VerifierProperties, WorkflowProperties, FiniteSetTheorems, WellFoundedInduction, TLAPS

-----------------------------------------------------------------------------
(* A verification: the invariant                                            *)

InitialSteps == {"discovery", "queue", "fetch", "extract"}
SearchSteps == {"query", "queryDiscovery", "candidate", "candidateFetch", "candidateExtract", "account"}
InitialStages == {"initial_discovery", "initial_fetch", "initial_extraction", "fetch"}

(* A document is requested when its transport result is remembered, and not   *)
(* before; the result is that of one of the document's URLs.                 *)
Remembered ==
  /\ DOMAIN cache = Docs /\ DOMAIN requests = Docs
  /\ \A d \in Docs :
       \/ cache[d] = NoResult /\ requests[d] = 0
       \/ cache[d] # NoResult /\ requests[d] = 1 /\ Canonical[cache[d].url] = d

IsSeq(s) == s \in Seq(ToSet(s))

(* A list of distinct documents, none of them NoUrl.                         *)
Distinct(s) ==
  /\ s \in Seq(Candidates) /\ \A i \in DOMAIN s : Doc(s[i]) # NoUrl
  /\ \A i, j \in DOMAIN s : Doc(s[i]) = Doc(s[j]) => i = j

(* The list of candidates grows by documents not queued yet; the sources are  *)
(* those of the candidates that the loop has passed, so that no transport     *)
(* result of a later candidate is remembered.                                *)
QueueInv ==
  /\ Distinct(queue) /\ at \in Nat \ {0} /\ at <= Len(queue) + 1
  /\ step = "discovery" => at = 1
  /\ step \in {"fetch", "extract"} => at <= Len(queue)
  /\ queued = {Doc(queue[i]) : i \in DOMAIN queue}
  /\ IsSeq(sources)
  /\ Len(sources) = IF step = "extract" THEN at ELSE at - 1
  /\ \A i \in DOMAIN sources : Canonical[sources[i].url] = Doc(queue[i])
  /\ step \in InitialSteps =>
       \A d \in Docs : cache[d] # NoResult => \E i \in DOMAIN sources : Canonical[sources[i].url] = d

(* While no stage of the initial work is recorded as cut short, none was.     *)
ExhaustionInv ==
  /\ exhaustedStage \in {None} \cup InitialStages \cup TargetedStages
  /\ extracted \subseteq DOMAIN sources
  /\ step \in InitialSteps => exhaustedStage \notin TargetedStages
  /\ exhaustedStage \notin InitialStages =>
       /\ \A i \in DOMAIN sources : sources[i].status = "success" =>
            i \in extracted \/ (step = "extract" /\ i = Len(sources))
       /\ step \notin InitialSteps => at > Len(queue)
  /\ step \in InitialSteps \cup {"plan"} => plan = << >>
  /\ step \notin InitialSteps \cup {"plan"} /\ exhaustedStage = None =>
       IF enabled THEN plan \in MissingFields ELSE plan = << >>
  /\ DOMAIN current = DOMAIN NoQuery
  /\ current.stop = "budget_exhausted" => exhaustedStage # None
  /\ IsSeq(stops)
  /\ \A i \in DOMAIN stops : stops[i].reason = "budget_exhausted" => exhaustedStage # None

StopHolds(i) ==
  LET s == stops[i] IN
  /\ s.field = plan[i]
  /\ s.global => i = Len(stops)
  /\ s.reason = "query_limit" => Cardinality(ResultsOf(s.field)) = Queries[s.field]
  /\ s.reason = "global_query_limit" => s.global /\ executed = MaxTotalQueries
  /\ s.reason = "strong_official_evidence" => \E r \in ResultsOf(s.field) : results[r].facts # {}
  /\ s.reason \in {"query_limit", "candidate_limit"} => s.field \notin confirmable

(* The field being searched: the fields before it have ended, not the search,  *)
(* and its results are those of its queries so far.                          *)
AtField ==
  /\ field \in 1 .. Len(plan) /\ Len(stops) = field - 1
  /\ \A i \in DOMAIN stops : ~stops[i].global
  /\ \A i \in DOMAIN results : \E k \in 1 .. field : results[i].field = plan[k]
  /\ query \in Nat \ {0}
  /\ query <= IF step = "query" THEN Queries[Searched] + 1 ELSE Queries[Searched]
  /\ Cardinality(ResultsOf(Searched)) = query - 1
  /\ \A k \in field .. Len(plan) : plan[k] \notin confirmable

Planned == plan \in Seq(ToSet(Fields)) /\ \A i, j \in DOMAIN plan : plan[i] = plan[j] => i = j
Counted == executed \in 0 .. MaxTotalQueries /\ (step = "queryDiscovery" => executed < MaxTotalQueries)
QueryHonest ==
  /\ current.stop \in {None, "budget_exhausted", "candidate_limit"}
  /\ current.strong => current.facts # {}
Stopping ==
  /\ Len(stops) <= Len(plan) /\ \A i \in DOMAIN stops : StopHolds(i)
  /\ step \in {"resolve", "done"} /\ plan # << >> =>
       stops # << >> /\ (Len(stops) = Len(plan) \/ Last(stops).global)
Untouched ==
  step \in InitialSteps \cup {"plan"} =>
    results = << >> /\ stops = << >> /\ field = 1 /\ query = 1 /\ confirmable = {}
Searching ==
  /\ step \in SearchSteps \ {"query"} => plan # << >>
  /\ step \in SearchSteps /\ plan # << >> => AtField

SearchInv == Planned /\ IsSeq(results) /\ Counted /\ QueryHonest /\ Stopping /\ Untouched /\ Searching

-----------------------------------------------------------------------------
(* Requests                                                                 *)

LEMMA FetchOnceRemembers ==
  ASSUME Remembered, NEW c, NEW page \in {cache[Doc(c)]} \cup TransportResults(c.url), FetchOnce(c, page)
  PROVE  /\ Remembered'
         /\ Doc(c) \in Docs => Canonical[page.url] = Doc(c)
         /\ \A d \in Docs : cache[d] # NoResult => cache'[d] # NoResult
         /\ Doc(c) \in Docs => cache'[Doc(c)] # NoResult
<1>1. CASE cache[Doc(c)] # NoResult /\ page = cache[Doc(c)] /\ UNCHANGED fetchVars
  BY <1>1 DEF Remembered, fetchVars
<1>2. CASE cache[Doc(c)] = NoResult /\ LiveFetch(c, page)
  <2>1. /\ page \in TransportResults(c.url)
        /\ cache' = [cache EXCEPT ![Doc(c)] = page]
        /\ requests' = [requests EXCEPT ![Doc(c)] = @ + 1]
    BY <1>2 DEF LiveFetch
  <2>2. page # NoResult /\ page.url = c.url
    BY <2>1 DEF TransportResults, NoResult, None
  <2>3. Canonical[page.url] = Doc(c)
    BY <2>2 DEF Doc
  <2>4. ASSUME NEW d \in Docs
        PROVE  \/ cache'[d] = NoResult /\ requests'[d] = 0
               \/ cache'[d] # NoResult /\ requests'[d] = 1 /\ Canonical[cache'[d].url] = d
    <3>1. CASE d = Doc(c)
      <4>1. requests[d] = 0
        BY <1>2, <3>1 DEF Remembered
      <4>2. cache'[d] = page /\ requests'[d] = 1
        BY <2>1, <3>1, <4>1 DEF Remembered
      <4> QED  BY <2>2, <2>3, <3>1, <4>2
    <3>2. CASE d # Doc(c)
      <4>1. cache'[d] = cache[d] /\ requests'[d] = requests[d]
        BY <2>1, <3>2 DEF Remembered
      <4> QED  BY <4>1 DEF Remembered
    <3> QED  BY <3>1, <3>2
  <2>5. DOMAIN cache' = Docs /\ DOMAIN requests' = Docs
    BY <2>1 DEF Remembered
  <2>6. \A d \in Docs : cache'[d] = (IF d = Doc(c) THEN page ELSE cache[d])
    BY <2>1 DEF Remembered
  <2>7. Remembered'
    BY <2>4, <2>5 DEF Remembered, Docs
  <2> QED  BY <2>2, <2>3, <2>6, <2>7
<1> QED  BY <1>1, <1>2 DEF FetchOnce

LEMMA RememberedKept ==
  ASSUME Remembered, [WorkflowNext]_workflowVars
  PROVE  Remembered'
<1>1. CASE UNCHANGED fetchVars
  BY <1>1 DEF fetchVars, Remembered
<1>2. CASE FetchInitial
  <2>1. CASE FetchRefused(queue[at])
    BY <1>1, <2>1 DEF FetchRefused
  <2>2. CASE \E page \in {cache[Doc(queue[at])]} \cup TransportResults(queue[at].url) :
               FetchOnce(queue[at], page)
    BY <2>2, FetchOnceRemembers
  <2> QED  BY <1>2, <2>1, <2>2 DEF FetchInitial
<1>3. CASE FetchCandidate
  <2>1. CASE UNCHANGED fetchVars
    BY <1>1, <2>1
  <2>2. CASE \E page \in {cache[Doc(Candidate)]} \cup TransportResults(Candidate.url) :
               FetchOnce(Candidate, page)
    BY <2>2, FetchOnceRemembers
  <2>3. CASE FetchRefused(Candidate)
    BY <1>1, <2>3 DEF FetchRefused
  <2> QED  BY <1>3, <2>1, <2>2, <2>3 DEF FetchCandidate
<1>4. CASE UNCHANGED workflowVars
  BY <1>1, <1>4 DEF workflowVars
<1>5. ASSUME \/ TimePasses \/ DiscoverInitial \/ TakeFromQueue \/ ExtractInitial \/ PlanTargetedSearch
             \/ StartQuery \/ DiscoverTargeted \/ ConsiderCandidate \/ ExtractCandidate
             \/ AccountQuery \/ Validate \/ Finished
      PROVE  UNCHANGED fetchVars
  BY <1>5 DEF TimePasses, DiscoverInitial, TakeFromQueue, ExtractInitial, PlanTargetedSearch, StartQuery,
     DiscoverTargeted, ConsiderCandidate, ExtractCandidate, AccountQuery, Validate, Finished, workflowVars
<1> QED  BY <1>1, <1>2, <1>3, <1>4, <1>5 DEF WorkflowNext

LEMMA RememberedInvariance == WorkflowSpec => []Remembered
<1>1. WorkflowInit => Remembered
  BY DEF WorkflowInit, Remembered
<1> QED  BY <1>1, RememberedKept, PTL DEF WorkflowSpec

-----------------------------------------------------------------------------
(* The candidates to fetch                                                  *)

LEMMA SeqMembers ==
  ASSUME NEW S, NEW s \in Seq(S)
  PROVE  /\ Len(s) \in Nat /\ DOMAIN s = 1 .. Len(s) /\ \A i \in DOMAIN s : s[i] \in S
         /\ IsFiniteSet(DOMAIN s) /\ IsFiniteSet(ToSet(s))
<1>1. Len(s) \in Nat /\ DOMAIN s = 1 .. Len(s) /\ \A i \in DOMAIN s : s[i] \in S
  OBVIOUS
<1>2. IsFiniteSet(1 .. Len(s))
  BY <1>1, FS_Interval
<1>3. s \in Surjection(DOMAIN s, ToSet(s))
  <2>1. s = [i \in DOMAIN s |-> s[i]]
    BY <1>1
  <2>2. \A i \in DOMAIN s : s[i] \in ToSet(s)
    BY DEF ToSet
  <2>3. s \in [DOMAIN s -> ToSet(s)]
    BY <2>1, <2>2
  <2>4. \A x \in ToSet(s) : \E i \in DOMAIN s : s[i] = x
    BY DEF ToSet
  <2> QED  BY <2>3, <2>4 DEF Surjection
<1>4. IsFiniteSet(ToSet(s))
  BY <1>1, <1>2, <1>3, FS_Surjection
<1> QED  BY <1>1, <1>2, <1>4

LEMMA TierType == \A c, official : Tier(c, official) \in Nat
  BY DEF Tier

(* Nothing precedes itself.                                                  *)
LEMMA PrecedesStrict ==
  ASSUME NEW c \in Candidates, NEW official
  PROVE  ~Precedes(c, c, official)
<1>1. c.score \in Int /\ c.url \in Urls
  BY DEF Candidates
<1>2. c.url \in Nat
  BY <1>1, EvidenceAssumption DEF EvidenceAssumption
<1> QED  BY <1>1, <1>2, TierType DEF Precedes

LEMMA DeduplicatedDocuments ==
  ASSUME NEW cs \in Seq(Candidates)
  PROVE  /\ IsFiniteSet(Deduplicated(cs)) /\ Deduplicated(cs) \subseteq Candidates
         /\ \A c \in Deduplicated(cs) : Doc(c) # NoUrl
         /\ \A c, d \in Deduplicated(cs) : Doc(c) = Doc(d) => c = d
<1>1. /\ Len(cs) \in Nat /\ DOMAIN cs = 1 .. Len(cs) /\ \A i \in DOMAIN cs : cs[i] \in Candidates
      /\ IsFiniteSet(ToSet(cs))
  BY SeqMembers
<1>2. Deduplicated(cs) \subseteq ToSet(cs) /\ Deduplicated(cs) \subseteq Candidates
  BY <1>1 DEF Deduplicated, ToSet
<1>3. \A i \in DOMAIN cs : cs[i].score \in Int
  BY <1>1 DEF Candidates
<1>4. ASSUME NEW c \in Deduplicated(cs), NEW d \in Deduplicated(cs), Doc(c) = Doc(d)
      PROVE  c = d
  <2> DEFINE Best(i) == /\ Selectable(cs[i])
                        /\ \A j \in DOMAIN cs :
                             Selectable(cs[j]) /\ Canonical[cs[j].url] = Canonical[cs[i].url]
                               => \/ cs[j].score < cs[i].score
                                  \/ cs[j].score = cs[i].score /\ i <= j
  <2>1. PICK i \in DOMAIN cs : c = cs[i] /\ Best(i)
    BY DEF Deduplicated
  <2>2. PICK j \in DOMAIN cs : d = cs[j] /\ Best(j)
    BY DEF Deduplicated
  <2>3. Canonical[cs[j].url] = Canonical[cs[i].url]
    BY <1>4, <2>1, <2>2 DEF Doc
  <2>4. /\ cs[j].score < cs[i].score \/ (cs[j].score = cs[i].score /\ i <= j)
        /\ cs[i].score < cs[j].score \/ (cs[i].score = cs[j].score /\ j <= i)
    BY <2>1, <2>2, <2>3
  <2>5. i = j
    BY <1>1, <1>3, <2>4
  <2> QED  BY <2>1, <2>2, <2>5
<1>5. \A c \in Deduplicated(cs) : Doc(c) # NoUrl
  BY DEF Deduplicated, Selectable, Doc
<1> QED  BY <1>1, <1>2, <1>4, <1>5, FS_Subset

LEMMA ListIsSeq ==
  ASSUME NEW n \in Nat, NEW S, NEW T, S \subseteq T, NEW s \in [1 .. n -> S]
  PROVE  /\ s \in Seq(T) /\ DOMAIN s = 1 .. n /\ Len(s) = n /\ DOMAIN s \subseteq Nat
         /\ \A i \in DOMAIN s : s[i] \in S
<1>1. s \in [1 .. n -> T]
  OBVIOUS
<1>2. s \in Seq(T)
  BY <1>1
<1>3. DOMAIN s = 1 .. n
  OBVIOUS
<1> QED  BY <1>2, <1>3

LEMMA SelectedDistinct ==
  ASSUME NEW cs \in InitialOutcomes, NEW limit, NEW s \in SelectSourceCandidates(cs, limit)
  PROVE  Distinct(s)
<1> DEFINE kept == Deduplicated(cs)
           official == \E c \in kept : IsExactOfficial(c)
<1>1. cs \in Seq(Candidates)
  BY WorkflowAssumption DEF WorkflowAssumption
<1>2. /\ IsFiniteSet(kept) /\ kept \subseteq Candidates /\ \A c \in kept : Doc(c) # NoUrl
      /\ \A c, d \in kept : Doc(c) = Doc(d) => c = d
  BY <1>1, DeduplicatedDocuments
<1>3. PICK first \in FirstPass(kept, limit, official) :
        s \in UNION {Listed(first, rest, official) : rest \in SecondPass(kept, first, limit, official)}
  BY DEF SelectSourceCandidates
<1>r. PICK rest \in SecondPass(kept, first, limit, official) : s \in Listed(first, rest, official)
  BY <1>3
<1>s. first \subseteq kept /\ rest \subseteq kept
  BY DEF FirstPass, SecondPass
<1> HIDE DEF kept, official
<1>4. /\ s \in [1 .. Cardinality(first \cup rest) -> first \cup rest]
      /\ \A i, j \in DOMAIN s : i < j =>
           IF s[i] \in first <=> s[j] \in first THEN Precedes(s[i], s[j], official) ELSE s[i] \in first
  BY <1>r DEF Listed
<1>5. Cardinality(first \cup rest) \in Nat
  <2>1. first \cup rest \in SUBSET kept
    BY <1>s
  <2>2. IsFiniteSet(first \cup rest)
    BY <1>2, <2>1, FS_Subset
  <2> QED  BY <2>2, FS_CardinalityType
<1>7. s \in Seq(kept) /\ DOMAIN s \subseteq Nat /\ \A i \in DOMAIN s : s[i] \in kept
  <2>1. first \cup rest \subseteq kept
    BY <1>s
  <2> QED  BY <1>4, <1>5, <2>1, ListIsSeq
<1>8. \A i, j \in DOMAIN s : s[i] = s[j] => i = j
  <2> SUFFICES ASSUME NEW i \in DOMAIN s, NEW j \in DOMAIN s, s[i] = s[j], i < j PROVE FALSE
    BY <1>7
  <2>1. Precedes(s[i], s[i], official)
    BY <1>4
  <2> QED  BY <1>2, <1>7, <2>1, PrecedesStrict
<1>9. s \in Seq(Candidates)
  BY <1>2, <1>7
<1> QED  BY <1>2, <1>7, <1>8, <1>9 DEF Distinct

(* The links to append: distinct documents, none of them queued.             *)
LEMMA NewLinks ==
  ASSUME NEW u \in Urls, NEW places \in SUBSET DOMAIN SpecLinks[u],
         NEW links \in InOrder(SpecLinks[u], places)
  PROVE  /\ links \in Seq(Urls)
         /\ \A i \in DOMAIN links : \E n \in places : links[i] = SpecLinks[u][n]
         /\ \A i, j \in DOMAIN links : Canonical[links[i]] = Canonical[links[j]] => i = j
         /\ \A i \in DOMAIN links : Canonical[links[i]] # NoUrl
<1> DEFINE s == SpecLinks[u]
<1>1. /\ s \in Seq(Urls)
      /\ \A i, j \in DOMAIN s : Canonical[s[i]] # NoUrl /\ (Canonical[s[i]] = Canonical[s[j]] => i = j)
  BY WorkflowAssumption DEF WorkflowAssumption
<1>2. Len(s) \in Nat /\ DOMAIN s = 1 .. Len(s) /\ (\A i \in DOMAIN s : s[i] \in Urls) /\ IsFiniteSet(DOMAIN s)
  BY <1>1, SeqMembers
<1>4. PICK p : /\ p \in [1 .. Cardinality(places) -> places]
               /\ \A i, j \in DOMAIN p : i < j => p[i] < p[j]
               /\ links = [i \in DOMAIN p |-> s[p[i]]]
  BY DEF InOrder
<1>5. Cardinality(places) \in Nat
  BY <1>2, FS_Subset, FS_CardinalityType
<1> HIDE DEF s
<1>p. DOMAIN p = 1 .. Cardinality(places) /\ \A i \in DOMAIN p : p[i] \in places
  BY <1>4, <1>5, ListIsSeq
<1>6. DOMAIN links = 1 .. Cardinality(places) /\ \A i \in DOMAIN links : p[i] \in DOMAIN s /\ links[i] = s[p[i]]
  BY <1>4, <1>p DEF s
<1>7. links \in Seq(Urls)
  <2> DEFINE n == Cardinality(places)
  <2>1. links \in [1 .. n -> Urls]
    BY <1>2, <1>4, <1>6, <1>p
  <2> HIDE DEF n
  <2> QED  BY <1>5, <2>1, ListIsSeq DEF n
<1>8. \A i, j \in DOMAIN links : p[i] = p[j] => i = j
  <2>1. ASSUME NEW i \in DOMAIN links, NEW j \in DOMAIN links, i < j PROVE p[i] < p[j] /\ p[i] \in Nat
    BY <1>2, <1>4, <1>6, <1>p, <2>1
  <2>2. DOMAIN links \subseteq Nat
    BY <1>5, <1>6
  <2> QED  BY <2>1, <2>2
<1>9. \A i, j \in DOMAIN links : Canonical[links[i]] = Canonical[links[j]] => i = j
  BY <1>1, <1>6, <1>8
<1> QED  BY <1>1, <1>4, <1>6, <1>7, <1>9 DEF s

(* The view of a transport result keeps where it came from.                  *)
LEMMA ViewOfPage ==
  ASSUME NEW page, NEW c
  PROVE  /\ FetchOnceView(page, c).url = page.url /\ FetchOnceView(page, c).final = page.final
         /\ FetchOnceView(page, c).status = page.status
<1> DEFINE Kept(v) == /\ DOMAIN v = {"url", "final", "status", "says", "meta", "rejected"}
                      /\ v.url = page.url /\ v.final = page.final /\ v.status = page.status
<1>1. Kept(CandidateFetchView(page, c))
  BY DEF CandidateFetchView
<1>2. ASSUME NEW v, Kept(v) PROVE Kept(VerifyFetchedIdentity(v, c))
  BY <1>2 DEF VerifyFetchedIdentity
<1>3. ASSUME NEW v, Kept(v) PROVE Kept(RejectRedirectedOfficialIdentity(v, c))
  BY <1>3 DEF RejectRedirectedOfficialIdentity
<1>4. Kept(VerifyFetchedIdentity(CandidateFetchView(page, c), c))
  <2> HIDE DEF Kept
  <2> QED  BY <1>1, <1>2
<1>5. Kept(FetchOnceView(page, c))
  <2> HIDE DEF Kept
  <2> QED  BY <1>3, <1>4 DEF FetchOnceView
<1> QED  BY <1>5

LEMMA LinkedIsCandidate ==
  ASSUME NEW c \in Candidates, NEW u \in Urls
  PROVE  LinkedCandidate(c, u) \in Candidates /\ Doc(LinkedCandidate(c, u)) = Canonical[u]
<1>1. LinkedCandidate(c, u).url = u
  BY DEF LinkedCandidate, Candidates
<1>2. ASSUME NEW d \in Candidates
      PROVE  /\ [d EXCEPT !.url = u] \in Candidates /\ [d EXCEPT !.match = "unknown"] \in Candidates
             /\ [d EXCEPT !.relevance = "unknown"] \in Candidates
             /\ [d EXCEPT !.relation = "unknown"] \in Candidates
             /\ [d EXCEPT !.verify = TRUE] \in Candidates
  <2>1. [d EXCEPT !.url = u] \in Candidates
    BY DEF Candidates
  <2>2. [d EXCEPT !.match = "unknown"] \in Candidates
    BY DEF Candidates
  <2>3. [d EXCEPT !.relevance = "unknown"] \in Candidates
    BY DEF Candidates
  <2>4. [d EXCEPT !.relation = "unknown"] \in Candidates
    BY DEF Candidates
  <2>5. [d EXCEPT !.verify = TRUE] \in Candidates
    BY DEF Candidates
  <2> QED  BY <2>1, <2>2, <2>3, <2>4, <2>5
<1>3. LinkedCandidate(c, u) =
        [[[[[c EXCEPT !.url = u] EXCEPT !.match = "unknown"] EXCEPT !.relevance = "unknown"]
             EXCEPT !.relation = "unknown"] EXCEPT !.verify = TRUE]
  BY DEF LinkedCandidate, Candidates
<1>4. LinkedCandidate(c, u) \in Candidates
  BY <1>2, <1>3
<1> QED  BY <1>1, <1>4 DEF Doc

Concatenated(r, a, b) ==
  /\ Len(r) = Len(a) + Len(b) /\ DOMAIN r = 1 .. Len(a) + Len(b)
  /\ \A i \in 1 .. Len(a) : r[i] = a[i]
  /\ \A i \in 1 .. Len(b) : r[Len(a) + i] = b[i]

LEMMA Concatenation ==
  ASSUME NEW S, NEW a \in Seq(S), NEW b \in Seq(S)
  PROVE  a \o b \in Seq(S) /\ Concatenated(a \o b, a, b)
  BY DEF Concatenated

LEMMA SecondPart ==
  ASSUME NEW m \in Nat, NEW n \in Nat, NEW i \in 1 .. m + n
  PROVE  i \in 1 .. m \/ \E k \in 1 .. n : i = m + k
<1> SUFFICES ASSUME i \notin 1 .. m PROVE \E k \in 1 .. n : i = m + k
  OBVIOUS
<1>1. i - m \in 1 .. n /\ i = m + (i - m)
  OBVIOUS
<1> QED  BY <1>1

(* r is q with the documents of the links appended.                          *)
Extended(r, q, links) ==
  /\ Distinct(r) /\ Len(q) <= Len(r) /\ \A i \in DOMAIN q : r[i] = q[i]
  /\ {Doc(r[i]) : i \in DOMAIN r} =
       {Doc(q[i]) : i \in DOMAIN q} \cup {Canonical[u] : u \in ToSet(links)}

(* Documents not listed yet can be appended to a list of distinct documents.  *)
LEMMA DistinctAppended ==
  ASSUME NEW q, Distinct(q), NEW links \in Seq(Urls),
         \A i \in DOMAIN links : Canonical[links[i]] # NoUrl,
         \A i, j \in DOMAIN links : Canonical[links[i]] = Canonical[links[j]] => i = j,
         \A i \in DOMAIN links : \A k \in DOMAIN q : Doc(q[k]) # Canonical[links[i]],
         NEW t, Len(t) = Len(links),
         \A i \in DOMAIN links : Doc(t[i]) = Canonical[links[i]],
         NEW r \in Seq(Candidates), Concatenated(r, q, t)
  PROVE  Extended(r, q, links)
<1> DEFINE m == Len(q)
           n == Len(links)
<1>1. q \in Seq(Candidates) /\ m \in Nat /\ DOMAIN q = 1 .. m /\ \A i \in DOMAIN q : q[i] \in Candidates
  BY SeqMembers DEF Distinct
<1>2. n \in Nat /\ DOMAIN links = 1 .. n /\ \A i \in DOMAIN links : links[i] \in Urls
  BY SeqMembers
<1>3. \A i \in DOMAIN links : Doc(t[i]) = Canonical[links[i]]
  OBVIOUS
<1> HIDE DEF m
<1>6. Len(t) = n
  OBVIOUS
<1> HIDE DEF n
<1>7. r \in Seq(Candidates)
  OBVIOUS
<1>8. /\ DOMAIN r = 1 .. m + n /\ Len(r) = m + n
      /\ \A i \in 1 .. m : r[i] = q[i]
      /\ \A i \in 1 .. n : r[m + i] = t[i]
  BY <1>6 DEF m, Concatenated
<1>9. \A i \in 1 .. m : i \in DOMAIN r /\ r[i] = q[i]
  BY <1>1, <1>2, <1>8
<1>10. ASSUME NEW i \in 1 .. n PROVE m + i \in DOMAIN r /\ Doc(r[m + i]) = Canonical[links[i]]
  <2>1. m + i \in 1 .. m + n
    BY <1>1, <1>2
  <2>2. r[m + i] = t[i] /\ Doc(t[i]) = Canonical[links[i]]
    BY <1>2, <1>3, <1>8
  <2>3. DOMAIN r = 1 .. m + n
    BY <1>8
  <2>4. m + i \in DOMAIN r
    BY <2>1, <2>3
  <2>5. Doc(r[m + i]) = Canonical[links[i]]
    BY <2>2
  <2> QED  BY <2>4, <2>5
<1>11. \A i \in DOMAIN r : i \in 1 .. m \/ \E k \in 1 .. n : i = m + k
  <2> SUFFICES ASSUME NEW i \in DOMAIN r PROVE i \in 1 .. m \/ \E k \in 1 .. n : i = m + k
    OBVIOUS
  <2>2. i \in 1 .. m + n
    BY <1>8
  <2> QED  BY <1>1, <1>2, <2>2, SecondPart
<1>12. \A i \in DOMAIN r : Doc(r[i]) # NoUrl
  <2> SUFFICES ASSUME NEW i \in DOMAIN r PROVE Doc(r[i]) # NoUrl
    OBVIOUS
  <2>1. CASE i \in 1 .. m
    BY <1>1, <1>9, <2>1 DEF Distinct
  <2>2. ASSUME NEW k \in 1 .. n, i = m + k PROVE Doc(r[i]) # NoUrl
    BY <1>2, <1>10, <2>2
  <2> QED  BY <1>11, <2>1, <2>2
<1>13. ASSUME NEW i \in DOMAIN r, NEW j \in DOMAIN r, Doc(r[i]) = Doc(r[j]) PROVE i = j
  <2>1. CASE i \in 1 .. m /\ j \in 1 .. m
    <3>1. r[i] = q[i] /\ r[j] = q[j] /\ i \in DOMAIN q /\ j \in DOMAIN q
      BY <1>1, <1>9, <2>1
    <3>2. Doc(q[i]) = Doc(q[j])
      BY <1>13, <3>1
    <3> QED  BY <3>1, <3>2 DEF Distinct
  <2>2. ASSUME NEW k \in 1 .. n, i = m + k, j \in 1 .. m PROVE FALSE
    <3>1. r[j] = q[j] /\ j \in DOMAIN q /\ k \in DOMAIN links
      BY <1>1, <1>2, <1>9, <2>2
    <3>2. Doc(r[i]) = Canonical[links[k]]
      BY <1>10, <2>2
    <3>3. Doc(q[j]) = Canonical[links[k]]
      BY <1>13, <3>1, <3>2
    <3> QED  BY <3>1, <3>3
  <2>3. ASSUME NEW k \in 1 .. n, j = m + k, i \in 1 .. m PROVE FALSE
    <3>1. r[i] = q[i] /\ i \in DOMAIN q /\ k \in DOMAIN links
      BY <1>1, <1>2, <1>9, <2>3
    <3>2. Doc(r[j]) = Canonical[links[k]]
      BY <1>10, <2>3
    <3>3. Doc(q[i]) = Canonical[links[k]]
      BY <1>13, <3>1, <3>2
    <3> QED  BY <3>1, <3>3
  <2>4. ASSUME NEW k \in 1 .. n, NEW l \in 1 .. n, i = m + k, j = m + l PROVE i = j
    <3>1. Canonical[links[k]] = Canonical[links[l]]
      BY <1>10, <1>13, <2>4
    <3> QED  BY <1>2, <2>4, <3>1
  <2> QED  BY <1>11, <2>1, <2>2, <2>3, <2>4
<1>14. {Doc(r[i]) : i \in DOMAIN r} = {Doc(q[i]) : i \in DOMAIN q} \cup {Canonical[u] : u \in ToSet(links)}
  <2>1. ASSUME NEW i \in DOMAIN r
        PROVE  Doc(r[i]) \in {Doc(q[k]) : k \in DOMAIN q} \cup {Canonical[u] : u \in ToSet(links)}
    <3>1. CASE i \in 1 .. m
      BY <1>1, <1>9, <3>1
    <3>2. ASSUME NEW k \in 1 .. n, i = m + k
          PROVE  Doc(r[i]) \in {Canonical[u] : u \in ToSet(links)}
      BY <1>2, <1>10, <3>2 DEF ToSet
    <3> QED  BY <1>11, <3>1, <3>2
  <2>2. ASSUME NEW k \in DOMAIN q PROVE Doc(q[k]) \in {Doc(r[i]) : i \in DOMAIN r}
    BY <1>1, <1>9
  <2>3. ASSUME NEW u \in ToSet(links) PROVE Canonical[u] \in {Doc(r[i]) : i \in DOMAIN r}
    <3>1. PICK k \in 1 .. n : u = links[k]
      BY <1>2 DEF ToSet
    <3> QED  BY <1>10, <3>1
  <2> DEFINE Earlier == {Doc(q[i]) : i \in DOMAIN q}
             Added == {Canonical[u] : u \in ToSet(links)}
             All == {Doc(r[i]) : i \in DOMAIN r}
  <2>4. All \subseteq Earlier \cup Added
    BY <2>1
  <2>5. Earlier \subseteq All
    BY <2>2
  <2>6. Added \subseteq All
    BY <2>3
  <2> HIDE DEF Earlier, Added, All
  <2>7. All = Earlier \cup Added
    BY <2>4, <2>5, <2>6
  <2> QED  BY <2>7 DEF Earlier, Added, All
<1>15. \A i, j \in DOMAIN r : Doc(r[i]) = Doc(r[j]) => i = j
  BY <1>13
<1>16. m <= Len(r) /\ \A i \in DOMAIN q : r[i] = q[i]
  BY <1>1, <1>2, <1>8
<1> QED  BY <1>7, <1>12, <1>14, <1>15, <1>16 DEF Distinct, m, Extended

(* The initial fetch loop                                                   *)

LEMMA QueueStart == WorkflowInit => QueueInv
  BY DEF WorkflowInit, QueueInv, Distinct, IsSeq, ToSet, InitialSteps

LEMMA QueueDiscovered ==
  ASSUME QueueInv, DiscoverInitial
  PROVE  QueueInv'
<1>1. /\ step = "discovery" /\ step' = "queue" /\ at' = at /\ sources' = sources /\ cache' = cache
      /\ queued' = {Doc(queue'[i]) : i \in DOMAIN queue'}
      /\ \E candidates \in InitialOutcomes : queue' \in SelectSourceCandidates(candidates, MaxInitialSources)
  BY DEF DiscoverInitial, fetchVars
<1>2. Distinct(queue')
  BY <1>1, SelectedDistinct
<1>3. at = 1 /\ IsSeq(sources) /\ Len(sources) = 0
      /\ \A d \in Docs : cache[d] # NoResult => \E i \in DOMAIN sources : Canonical[sources[i].url] = d
  BY <1>1 DEF QueueInv, InitialSteps
<1>4. Len(queue') \in Nat
  BY <1>2 DEF Distinct
<1>5. DOMAIN sources = {}
  BY <1>3
<1>6. /\ Distinct(queue)' /\ at' \in Nat \ {0} /\ at' <= Len(queue)' + 1
      /\ (step = "discovery" => at = 1)' /\ (step \in {"fetch", "extract"} => at <= Len(queue))'
  BY <1>1, <1>2, <1>3, <1>4 DEF Distinct
<1>7. /\ (IsSeq(sources))' /\ (Len(sources) = IF step = "extract" THEN at ELSE at - 1)'
      /\ (\A i \in DOMAIN sources : Canonical[sources[i].url] = Doc(queue[i]))'
  BY <1>1, <1>3, <1>5
<1>8. (step \in InitialSteps =>
        \A d \in Docs : cache[d] # NoResult => \E i \in DOMAIN sources : Canonical[sources[i].url] = d)'
  BY <1>1, <1>3
<1>9. (queued = {Doc(queue[i]) : i \in DOMAIN queue})'
  BY <1>1
<1> QED  BY <1>6, <1>7, <1>8, <1>9 DEF QueueInv

LEMMA QueueTaken ==
  ASSUME QueueInv, TakeFromQueue
  PROVE  QueueInv'
<1>1. step = "queue" /\ step' \in {"plan", "fetch"} /\ (step' = "fetch" => ~(at > Len(queue)))
      /\ queue' = queue /\ at' = at /\ queued' = queued /\ sources' = sources /\ cache' = cache
  BY DEF TakeFromQueue, initialVars, fetchVars
<1>2. Len(queue) \in Nat /\ at \in Nat
  BY DEF QueueInv, Distinct
<1>3. step' = "fetch" => at <= Len(queue)
  BY <1>1, <1>2
<1> QED  BY <1>1, <1>3 DEF QueueInv, Distinct, InitialSteps

LEMMA QueueExtracted ==
  ASSUME QueueInv, ExtractInitial
  PROVE  QueueInv'
<1>1. /\ step = "extract" /\ step' = "queue" /\ at' = at + 1
      /\ queue' = queue /\ queued' = queued /\ sources' = sources /\ cache' = cache
  BY DEF ExtractInitial, fetchVars
<1>2. Len(queue) \in Nat /\ at \in Nat \ {0} /\ at <= Len(queue)
  BY <1>1 DEF QueueInv, Distinct
<1> QED  BY <1>1, <1>2 DEF QueueInv, Distinct, InitialSteps

(* No document is met twice in the initial loop: the transport result of the  *)
(* candidate taken is never remembered.                                      *)
LEMMA InitialFetchIsLive ==
  ASSUME QueueInv, step = "fetch"
  PROVE  /\ queue[at] \in Candidates /\ Doc(queue[at]) \in Docs /\ at \in DOMAIN queue
         /\ cache[Doc(queue[at])] = NoResult
<1>1. queue \in Seq(Candidates) /\ Len(queue) \in Nat /\ DOMAIN queue = 1 .. Len(queue)
      /\ at \in 1 .. Len(queue) /\ Len(sources) = at - 1 /\ DOMAIN sources = 1 .. at - 1
  BY DEF QueueInv, Distinct
<1>2. queue[at] \in Candidates /\ Doc(queue[at]) # NoUrl
  BY <1>1 DEF QueueInv, Distinct
<1>3. queue[at].url \in Urls
  BY <1>2 DEF Candidates
<1>4. Doc(queue[at]) \in Docs
  BY <1>2, <1>3 DEF Docs, Doc
<1>5. SUFFICES ASSUME cache[Doc(queue[at])] # NoResult PROVE FALSE
  BY <1>1, <1>2, <1>4
<1>6. PICK i \in DOMAIN sources : Canonical[sources[i].url] = Doc(queue[at])
  BY <1>4, <1>5 DEF QueueInv, InitialSteps
<1>7. Doc(queue[i]) = Doc(queue[at]) /\ i \in DOMAIN queue /\ i < at
  BY <1>1, <1>6 DEF QueueInv
<1>8. i = at
  BY <1>1, <1>7 DEF QueueInv, Distinct
<1> QED  BY <1>1, <1>7, <1>8

LEMMA QueueFetched ==
  ASSUME QueueInv, Remembered, FetchInitial
  PROVE  QueueInv'
<1> DEFINE c == queue[at]
           n == Len(sources)
<1>1. step = "fetch" /\ UNCHANGED <<targetedVars, enabled, profile>>
  BY DEF FetchInitial
<1>2. /\ c \in Candidates /\ Doc(c) \in Docs /\ at \in DOMAIN queue /\ cache[Doc(c)] = NoResult
  BY <1>1, InitialFetchIsLive
<1>3. /\ Distinct(queue) /\ at \in Nat \ {0} /\ at <= Len(queue) /\ n = at - 1 /\ n \in Nat
      /\ queued = {Doc(queue[i]) : i \in DOMAIN queue} /\ IsSeq(sources)
      /\ DOMAIN sources = 1 .. n /\ Len(queue) \in Nat
      /\ \A i \in DOMAIN sources : Canonical[sources[i].url] = Doc(queue[i])
      /\ \A d \in Docs : cache[d] # NoResult => \E i \in DOMAIN sources : Canonical[sources[i].url] = d
  BY <1>1 DEF QueueInv, Distinct, InitialSteps
<1>4. CASE FetchRefused(c) /\ step' = "plan" /\ UNCHANGED initialVars
  <2>1. /\ step' = "plan" /\ queue' = queue /\ at' = at /\ queued' = queued /\ sources' = sources /\ cache' = cache
    BY <1>4 DEF FetchRefused, initialVars, fetchVars
  <2> QED  BY <1>3, <2>1 DEF QueueInv, Distinct, InitialSteps
<1>5. ASSUME NEW page \in {cache[Doc(c)]} \cup TransportResults(c.url), FetchOnce(c, page),
             NEW v, v = FetchOnceView(page, c),
             NEW links \in InOrder(SpecLinks[v.final], IF AcceptsLinks(v) THEN LinksToQueue(v) ELSE {}),
             sources' = Append(sources, v),
             queue' = queue \o [i \in DOMAIN links |-> LinkedCandidate(c, links[i])],
             queued' = queued \cup {Canonical[url] : url \in ToSet(links)},
             IF v.status = "success" THEN step' = "extract" /\ UNCHANGED at
             ELSE step' = "queue" /\ at' = at + 1
      PROVE  QueueInv'
  <2>1. page \in TransportResults(c.url) /\ cache' = [cache EXCEPT ![Doc(c)] = page]
    BY <1>2, <1>5 DEF FetchOnce, LiveFetch
  <2>2. c.url \in Urls
    BY <1>2 DEF Candidates
  <2>3. page.url = c.url /\ page.final \in Redirects[c.url]
    BY <2>1 DEF TransportResults
  <2>4. page.final \in Urls
    BY <2>2, <2>3, WorkflowAssumption DEF WorkflowAssumption
  <2>5. v.url = c.url /\ v.final \in Urls
    BY <1>5, <2>3, <2>4, ViewOfPage
  <2> DEFINE places == IF AcceptsLinks(v) THEN LinksToQueue(v) ELSE {}
  <2>6. /\ places \subseteq DOMAIN SpecLinks[v.final]
        /\ \A k \in places : Canonical[SpecLinks[v.final][k]] \notin queued
    BY DEF LinksToQueue
  <2> HIDE DEF places
  <2>7. links \in InOrder(SpecLinks[v.final], places)
    BY <1>5 DEF places
  <2>8. /\ links \in Seq(Urls)
        /\ \A i \in DOMAIN links : \E k \in places : links[i] = SpecLinks[v.final][k]
        /\ \A i, j \in DOMAIN links : Canonical[links[i]] = Canonical[links[j]] => i = j
        /\ \A i \in DOMAIN links : Canonical[links[i]] # NoUrl
    BY <2>5, <2>6, <2>7, NewLinks
  <2>9. \A i \in DOMAIN links : \A k \in DOMAIN queue : Doc(queue[k]) # Canonical[links[i]]
    <3> SUFFICES ASSUME NEW i \in DOMAIN links, NEW k \in DOMAIN queue PROVE Doc(queue[k]) # Canonical[links[i]]
      OBVIOUS
    <3>1. Canonical[links[i]] \notin queued
      BY <2>6, <2>8
    <3> QED  BY <1>3, <3>1
  <2>10. /\ Distinct(queue') /\ Len(queue) <= Len(queue') /\ \A i \in DOMAIN queue : queue'[i] = queue[i]
         /\ {Doc(queue'[i]) : i \in DOMAIN queue'} =
              {Doc(queue[i]) : i \in DOMAIN queue} \cup {Canonical[u] : u \in ToSet(links)}
    <3> DEFINE t == [i \in DOMAIN links |-> LinkedCandidate(c, links[i])]
    <3>1. queue' = queue \o t /\ c \in Candidates /\ Distinct(queue)
      BY <1>2, <1>3, <1>5
    <3>2. \A i \in DOMAIN links : links[i] \in Urls
      BY <2>8, SeqMembers
    <3>3. \A i \in DOMAIN links : t[i] \in Candidates /\ Doc(t[i]) = Canonical[links[i]]
      BY <3>1, <3>2, LinkedIsCandidate
    <3>4. t \in [DOMAIN links -> Candidates]
      BY <3>3
    <3> HIDE DEF c, t
    <3>6. t \in Seq(Candidates) /\ Len(t) = Len(links)
      <4>1. Len(links) \in Nat /\ DOMAIN links = 1 .. Len(links)
        BY <2>8, SeqMembers
      <4>2. t \in [1 .. Len(links) -> Candidates]
        BY <3>4, <4>1
      <4> QED  BY <4>1, <4>2, ListIsSeq
    <3>7. queue' \in Seq(Candidates) /\ Concatenated(queue', queue, t)
      BY <3>1, <3>6, Concatenation DEF Distinct
    <3>5. Extended(queue', queue, links)
      BY <2>8, <2>9, <3>1, <3>3, <3>6, <3>7, DistinctAppended
    <3> QED  BY <3>5 DEF Extended
  <2>11. /\ Len(sources') = n + 1 /\ DOMAIN sources' = 1 .. n + 1 /\ sources'[n + 1] = v
         /\ \A i \in 1 .. n : sources'[i] = sources[i]
    BY <1>3, <1>5
  <2>12. IsSeq(sources')
    <3>1. \A i \in 1 .. n + 1 : sources'[i] \in ToSet(sources')
      BY <2>11 DEF ToSet
    <3>2. sources' = [i \in 1 .. n + 1 |-> sources'[i]]
      BY <1>3, <1>5, <2>11
    <3>3. sources' \in [1 .. n + 1 -> ToSet(sources')]
      BY <3>1, <3>2
    <3>4. n + 1 \in Nat
      BY <1>3
    <3> QED  BY <3>3, <3>4, ListIsSeq DEF IsSeq
  <2>13. \A i \in DOMAIN sources' : Canonical[sources'[i].url] = Doc(queue'[i])
    <3>1. Canonical[v.url] = Doc(c)
      BY <2>5 DEF Doc
    <3>2. ASSUME NEW i \in 1 .. n PROVE Canonical[sources'[i].url] = Doc(queue'[i])
      <4>1. i \in DOMAIN queue /\ i \in DOMAIN sources
        BY <1>3 DEF Distinct
      <4> QED  BY <1>3, <2>10, <2>11, <4>1
    <3>3. n + 1 = at /\ Doc(queue'[at]) = Doc(c)
      BY <1>2, <1>3, <2>10
    <3>4. \A i \in 1 .. n + 1 : i \in 1 .. n \/ i = n + 1
      BY <1>3
    <3> QED  BY <2>11, <3>1, <3>2, <3>3, <3>4
  <2>14. ASSUME NEW d \in Docs, cache'[d] # NoResult
         PROVE  \E i \in DOMAIN sources' : Canonical[sources'[i].url] = d
    <3>1. CASE d = Doc(c)
      <4>1. n + 1 \in DOMAIN sources' /\ Canonical[sources'[n + 1].url] = d
        BY <1>3, <2>5, <2>11, <3>1 DEF Doc
      <4> QED  BY <4>1
    <3>2. CASE d # Doc(c)
      <4>1. cache'[d] = cache[d]
        BY <2>1, <3>2 DEF Remembered
      <4>2. PICK i \in DOMAIN sources : Canonical[sources[i].url] = d
        BY <1>3, <2>14, <4>1
      <4>3. i \in DOMAIN sources' /\ sources'[i] = sources[i]
        BY <1>3, <2>11
      <4> QED  BY <4>2, <4>3
    <3> QED  BY <3>1, <3>2
  <2>15. /\ at' \in Nat \ {0} /\ at' <= Len(queue') + 1 /\ step' \in {"extract", "queue"}
         /\ (step' = "extract" => at' = at /\ at' <= Len(queue'))
         /\ Len(sources') = IF step' = "extract" THEN at' ELSE at' - 1
    <3>1. Len(queue') \in Nat
      BY <2>10 DEF Distinct
    <3>2. CASE v.status = "success"
      BY <1>3, <1>5, <2>10, <2>11, <3>1, <3>2
    <3>3. CASE v.status # "success"
      BY <1>3, <1>5, <2>10, <2>11, <3>1, <3>3
    <3> QED  BY <3>2, <3>3
  <2>16. queued' = {Doc(queue'[i]) : i \in DOMAIN queue'}
    BY <1>3, <1>5, <2>10
  <2>17. /\ Distinct(queue)' /\ (at \in Nat \ {0})' /\ (at <= Len(queue) + 1)' /\ (step = "discovery" => at = 1)'
         /\ (step \in {"fetch", "extract"} => at <= Len(queue))'
         /\ (queued = {Doc(queue[i]) : i \in DOMAIN queue})'
    BY <2>10, <2>15, <2>16 DEF Distinct
  <2>18. /\ (IsSeq(sources))' /\ (Len(sources) = IF step = "extract" THEN at ELSE at - 1)'
         /\ (\A i \in DOMAIN sources : Canonical[sources[i].url] = Doc(queue[i]))'
    BY <2>12, <2>13, <2>15
  <2>19. (\A d \in Docs : cache[d] # NoResult => \E i \in DOMAIN sources : Canonical[sources[i].url] = d)'
    BY <2>14
  <2> QED  BY <2>17, <2>18, <2>19 DEF QueueInv
<1>6. \/ FetchRefused(c) /\ step' = "plan" /\ UNCHANGED initialVars
      \/ \E page \in {cache[Doc(c)]} \cup TransportResults(c.url) :
           /\ FetchOnce(c, page)
           /\ sources' = Append(sources, FetchOnceView(page, c))
           /\ \E links \in InOrder(SpecLinks[FetchOnceView(page, c).final],
                IF AcceptsLinks(FetchOnceView(page, c)) THEN LinksToQueue(FetchOnceView(page, c)) ELSE {}) :
                  /\ queue' = queue \o [i \in DOMAIN links |-> LinkedCandidate(c, links[i])]
                  /\ queued' = queued \cup {Canonical[url] : url \in ToSet(links)}
           /\ IF FetchOnceView(page, c).status = "success" THEN step' = "extract" /\ UNCHANGED at
              ELSE step' = "queue" /\ at' = at + 1
  BY DEF FetchInitial
<1> HIDE DEF c, n
<1> QED  BY <1>4, <1>5, <1>6

(* After the initial loop, or while only the time moves, its lists are left    *)
(* alone.                                                                   *)
LEMMA EndFieldSteps ==
  ASSUME NEW reason, NEW global, EndField(reason, global)
  PROVE  step' \in {"resolve", "query"} /\ current' = NoQuery
  BY DEF EndField

LEMMA LaterSteps ==
  ASSUME \/ PlanTargetedSearch \/ StartQuery \/ DiscoverTargeted \/ ConsiderCandidate \/ FetchCandidate
         \/ ExtractCandidate \/ AccountQuery \/ Validate
  PROVE  step \notin InitialSteps /\ step' \notin InitialSteps /\ UNCHANGED initialVars /\ enabled' = enabled
<1>1. CASE PlanTargetedSearch
  BY <1>1 DEF PlanTargetedSearch, InitialSteps
<1>2. CASE StartQuery
  BY <1>2, EndFieldSteps DEF StartQuery, InitialSteps
<1>3. CASE DiscoverTargeted
  BY <1>3 DEF DiscoverTargeted, InitialSteps
<1>4. CASE ConsiderCandidate
  BY <1>4 DEF ConsiderCandidate, InitialSteps
<1>5. CASE FetchCandidate
  <2>1. step = "candidateFetch" /\ step' \in {"candidateExtract", "candidate", "account"}
        /\ UNCHANGED initialVars /\ enabled' = enabled
    BY <1>5 DEF FetchCandidate
  <2> QED  BY <2>1 DEF InitialSteps
<1>6. CASE ExtractCandidate
  <2>1. step = "candidateExtract" /\ step' \in {"candidate", "account"}
        /\ UNCHANGED initialVars /\ enabled' = enabled
    BY <1>6 DEF ExtractCandidate
  <2> QED  BY <2>1 DEF InitialSteps
<1>7. CASE AccountQuery
  <2>1. step = "account" /\ UNCHANGED initialVars /\ enabled' = enabled
    BY <1>7 DEF AccountQuery
  <2>2. step' \in {"resolve", "query"}
    BY <1>7, EndFieldSteps DEF AccountQuery
  <2> QED  BY <2>1, <2>2 DEF InitialSteps
<1>8. CASE Validate
  BY <1>8 DEF Validate, InitialSteps
<1> QED  BY <1>1, <1>2, <1>3, <1>4, <1>5, <1>6, <1>7, <1>8

LEMMA QueueUntouched ==
  ASSUME QueueInv, UNCHANGED initialVars,
         \/ step' = step /\ cache' = cache
         \/ step \notin InitialSteps /\ step' \notin InitialSteps
  PROVE  QueueInv'
<1>1. queue' = queue /\ at' = at /\ queued' = queued /\ sources' = sources
  BY DEF initialVars
<1>2. CASE step' = step /\ cache' = cache
  BY <1>1, <1>2 DEF QueueInv, Distinct
<1>3. CASE step \notin InitialSteps /\ step' \notin InitialSteps
  BY <1>1, <1>3 DEF QueueInv, Distinct, InitialSteps
<1> QED  BY <1>2, <1>3

LEMMA QueueKept ==
  ASSUME QueueInv, Remembered, [WorkflowNext]_workflowVars
  PROVE  QueueInv'
<1>1. CASE TimePasses
  <2>1. UNCHANGED initialVars /\ step' = step /\ cache' = cache
    BY <1>1 DEF TimePasses, fetchVars
  <2> QED  BY <2>1, QueueUntouched
<1>2. CASE \/ PlanTargetedSearch \/ StartQuery \/ DiscoverTargeted \/ ConsiderCandidate \/ FetchCandidate
           \/ ExtractCandidate \/ AccountQuery \/ Validate
  <2>1. step \notin InitialSteps /\ step' \notin InitialSteps /\ UNCHANGED initialVars
    BY <1>2, LaterSteps
  <2> QED  BY <2>1, QueueUntouched
<1>3. CASE Finished \/ UNCHANGED workflowVars
  <2>1. UNCHANGED initialVars /\ step' = step /\ cache' = cache
    BY <1>3 DEF Finished, workflowVars, fetchVars
  <2> QED  BY <2>1, QueueUntouched
<1> QED  BY <1>1, <1>2, <1>3, QueueDiscovered, QueueTaken, QueueFetched, QueueExtracted DEF WorkflowNext

LEMMA QueueInvariance == WorkflowSpec => []QueueInv
<1> QED  BY QueueStart, QueueKept, RememberedInvariance, PTL DEF WorkflowSpec

(* Every document is requested at most once, and the initial loop visits no    *)
(* document twice, however its list grows.                                   *)
THEOREM FetchesOnce == WorkflowSpec => []FetchedOnce
<1>1. ASSUME Remembered PROVE RequestedOnce
  <2> SUFFICES ASSUME NEW d \in Docs PROVE requests[d] <= 1
    BY DEF RequestedOnce
  <2>1. requests[d] = 0 \/ requests[d] = 1
    BY <1>1 DEF Remembered
  <2> QED  BY <2>1
<1>2. ASSUME QueueInv, NEW i \in DOMAIN sources, NEW j \in DOMAIN sources,
             Canonical[sources[i].url] = Canonical[sources[j].url]
      PROVE  i = j
  <2>1. /\ Doc(queue[i]) = Doc(queue[j]) /\ DOMAIN queue = 1 .. Len(queue) /\ Len(queue) \in Nat
        /\ DOMAIN sources = 1 .. Len(sources) /\ at \in Nat /\ at <= Len(queue) + 1
        /\ Len(sources) = (IF step = "extract" THEN at ELSE at - 1)
        /\ (step = "extract" => at <= Len(queue))
    BY <1>2 DEF QueueInv, Distinct
  <2>2. i \in DOMAIN queue /\ j \in DOMAIN queue
    BY <2>1
  <2> QED  BY <1>2, <2>1, <2>2 DEF QueueInv, Distinct
<1>3. Remembered /\ QueueInv => FetchedOnce
  BY <1>1, <1>2 DEF FetchedOnce
<1> QED  BY <1>3, RememberedInvariance, QueueInvariance, PTL

(* The budget                                                               *)

(* r is s with e at its end.                                                 *)
Appended(r, s, e) ==
  /\ Len(s) \in Nat /\ DOMAIN s = 1 .. Len(s)
  /\ Len(r) = Len(s) + 1 /\ DOMAIN r = 1 .. Len(s) + 1
  /\ \A i \in DOMAIN s : r[i] = s[i]
  /\ r[Len(s) + 1] = e

LEMMA AppendMember ==
  ASSUME NEW S, NEW s \in Seq(S), NEW e \in S
  PROVE  Append(s, e) \in Seq(S) /\ Appended(Append(s, e), s, e)
  BY DEF Appended

LEMMA RangeSeq ==
  ASSUME NEW S, NEW s \in Seq(S)
  PROVE  IsSeq(s)
<1>1. Len(s) \in Nat /\ s = [i \in 1 .. Len(s) |-> s[i]] /\ DOMAIN s = 1 .. Len(s)
  OBVIOUS
<1> DEFINE n == Len(s)
           T == ToSet(s)
<1>2. \A i \in 1 .. n : s[i] \in T
  BY <1>1 DEF ToSet
<1>3. s \in [1 .. n -> T] /\ n \in Nat
  BY <1>1, <1>2
<1> HIDE DEF n, T
<1>4. s \in Seq(T)
  BY <1>3, ListIsSeq
<1> QED  BY <1>4 DEF IsSeq, T

LEMMA AppendSeq ==
  ASSUME NEW s, IsSeq(s), NEW e
  PROVE  IsSeq(Append(s, e)) /\ Appended(Append(s, e), s, e)
<1> DEFINE S == ToSet(s) \cup {e}
<1>1. s \in Seq(S) /\ e \in S
  BY DEF IsSeq
<1> HIDE DEF S
<1>2. Append(s, e) \in Seq(S) /\ Appended(Append(s, e), s, e)
  BY <1>1, AppendMember
<1> QED  BY <1>2, RangeSeq

StopOf(reason, global) == [field |-> Searched, reason |-> reason, global |-> global]

LEMMA EndFieldEffect ==
  ASSUME NEW reason, NEW global, EndField(reason, global), IsSeq(stops)
  PROVE  /\ IsSeq(stops') /\ Appended(stops', stops, StopOf(reason, global)) /\ query' = 1 /\ current' = NoQuery
         /\ step' \in {"query", "resolve"}
         /\ step' = "resolve" => field = Len(plan) \/ StopOf(reason, global).global
         /\ step' = "query" => field # Len(plan) /\ field' = field + 1 /\ ~StopOf(reason, global).global
  BY AppendSeq DEF EndField, StopOf

(* Only the first stage cut off is recorded.                                 *)
LEMMA Marked ==
  ASSUME NEW stage, NEW minimum, MarkExhausted(stage, minimum), stage # None
  PROVE  /\ exhaustedStage' # None
         /\ exhaustedStage' = exhaustedStage \/ (exhaustedStage = None /\ exhaustedStage' = stage)
  BY DEF MarkExhausted

LEMMA ExhaustionStart == WorkflowInit => ExhaustionInv
  BY DEF WorkflowInit, ExhaustionInv, InitialSteps, InitialStages, TargetedStages, NoQuery, None, ToSet, IsSeq

LEMMA ExhaustionInitial ==
  ASSUME ExhaustionInv, QueueInv, TimePasses \/ DiscoverInitial \/ TakeFromQueue \/ ExtractInitial
  PROVE  ExhaustionInv'
<1>1. UNCHANGED <<plan, current, stops, enabled>> /\ sources' = sources
  BY DEF TimePasses, DiscoverInitial, TakeFromQueue, ExtractInitial, targetedVars, initialVars
<1> USE DEF InitialSteps, InitialStages, TargetedStages
<1>2. CASE TimePasses
  <2>1. step' = step /\ exhaustedStage' = exhaustedStage /\ extracted' = extracted /\ queue' = queue /\ at' = at
    BY <1>2 DEF TimePasses, initialVars
  <2> QED  BY <1>1, <2>1 DEF ExhaustionInv, MissingFields, InitialFacts
<1>3. CASE DiscoverInitial
  <2>1. step = "discovery" /\ step' = "queue" /\ extracted' = extracted /\ at' = at
    BY <1>3 DEF DiscoverInitial
  <2>2. exhaustedStage' = exhaustedStage \/ (exhaustedStage = None /\ exhaustedStage' = "initial_discovery")
    BY <1>3, Marked DEF DiscoverInitial, budgetVars, None
  <2> QED  BY <1>1, <2>1, <2>2 DEF ExhaustionInv, None
<1>4. CASE TakeFromQueue
  <2>1. /\ step = "queue" /\ extracted' = extracted /\ at' = at /\ queue' = queue
        /\ \/ at > Len(queue) /\ step' = "plan" /\ exhaustedStage' = exhaustedStage
           \/ step' = "fetch" /\ exhaustedStage' = exhaustedStage
           \/ MarkExhausted("initial_fetch", FetchMinimum) /\ step' = "plan"
    BY <1>4 DEF TakeFromQueue, initialVars, budgetVars
  <2>2. CASE MarkExhausted("initial_fetch", FetchMinimum) /\ step' = "plan"
    <3>1. exhaustedStage' # None /\ (exhaustedStage' = exhaustedStage \/ exhaustedStage' = "initial_fetch")
      BY <2>2, Marked DEF None
    <3> QED  BY <1>1, <2>1, <2>2, <3>1 DEF ExhaustionInv, None
  <2>3. CASE \/ at > Len(queue) /\ step' = "plan" /\ exhaustedStage' = exhaustedStage
             \/ step' = "fetch" /\ exhaustedStage' = exhaustedStage
    BY <1>1, <2>1, <2>3 DEF ExhaustionInv
  <2> QED  BY <2>1, <2>2, <2>3
<1>5. CASE ExtractInitial
  <2>1. step = "extract" /\ step' = "queue" /\ Len(sources) \in DOMAIN sources
    <3>1. step = "extract" /\ step' = "queue"
      BY <1>5 DEF ExtractInitial
    <3>2. Len(sources) = at /\ at \in Nat \ {0} /\ DOMAIN sources = 1 .. Len(sources)
      BY <3>1 DEF QueueInv
    <3> QED  BY <3>1, <3>2
  <2>2. CASE extracted' = extracted \cup {Len(sources)} /\ UNCHANGED budgetVars
    <3>1. exhaustedStage' = exhaustedStage
      BY <2>2 DEF budgetVars
    <3> QED  BY <1>1, <2>1, <2>2, <3>1 DEF ExhaustionInv
  <2>3. CASE MarkExhausted("initial_extraction", ExtractionMinimum) /\ UNCHANGED extracted
    <3>1. exhaustedStage' # None /\ (exhaustedStage' = exhaustedStage \/ exhaustedStage' = "initial_extraction")
      BY <2>3, Marked DEF None
    <3> QED  BY <1>1, <2>1, <2>3, <3>1 DEF ExhaustionInv, None
  <2> QED  BY <1>5, <2>2, <2>3 DEF ExtractInitial
<1> QED  BY <1>2, <1>3, <1>4, <1>5

LEMMA ExhaustionFetch ==
  ASSUME ExhaustionInv, QueueInv, FetchInitial
  PROVE  ExhaustionInv'
<1> USE DEF InitialSteps, InitialStages, TargetedStages
<1>1. UNCHANGED <<plan, current, stops, enabled>> /\ step = "fetch"
  BY DEF FetchInitial, targetedVars
<1>2. CASE FetchRefused(queue[at]) /\ step' = "plan" /\ UNCHANGED initialVars
  <2>1. exhaustedStage' # None /\ (exhaustedStage' = exhaustedStage \/ exhaustedStage' = "fetch")
    BY <1>2, Marked DEF FetchRefused, None
  <2>2. sources' = sources /\ extracted' = extracted /\ at' = at /\ queue' = queue
    BY <1>2 DEF initialVars
  <2> QED  BY <1>1, <1>2, <2>1, <2>2 DEF ExhaustionInv, None
<1>3. ASSUME NEW v, sources' = Append(sources, v),
             step' = IF v.status = "success" THEN "extract" ELSE "queue",
             UNCHANGED <<budgetVars, extracted>>
      PROVE  ExhaustionInv'
  <2>1. IsSeq(sources)
    BY DEF QueueInv
  <2>2. Appended(sources', sources, v)
    BY <1>3, <2>1, AppendSeq
  <2>3. exhaustedStage' = exhaustedStage /\ extracted' = extracted /\ step' \in {"extract", "queue"}
    BY <1>3 DEF budgetVars
  <2>4. extracted' \subseteq DOMAIN sources'
    BY <2>2, <2>3 DEF Appended, ExhaustionInv
  <2>5. ASSUME exhaustedStage \notin InitialStages, NEW i \in DOMAIN sources', sources'[i].status = "success"
        PROVE  i \in extracted \/ (step' = "extract" /\ i = Len(sources'))
    <3>1. CASE i \in DOMAIN sources
      BY <1>1, <2>2, <2>5, <3>1 DEF Appended, ExhaustionInv
    <3>2. CASE i = Len(sources) + 1
      BY <1>3, <2>2, <2>5, <3>2 DEF Appended
    <3> QED  BY <2>2, <3>1, <3>2 DEF Appended
  <2> QED  BY <1>1, <2>3, <2>4, <2>5 DEF ExhaustionInv
<1>4. \/ FetchRefused(queue[at]) /\ step' = "plan" /\ UNCHANGED initialVars
      \/ \E page \in {cache[Doc(queue[at])]} \cup TransportResults(queue[at].url) :
           /\ sources' = Append(sources, FetchOnceView(page, queue[at]))
           /\ step' = IF FetchOnceView(page, queue[at]).status = "success" THEN "extract" ELSE "queue"
           /\ UNCHANGED <<budgetVars, extracted>>
  BY DEF FetchInitial
<1> QED  BY <1>2, <1>3, <1>4

(* What a step of the targeted search may do to the budget and to its records. *)
BudgetMoves ==
  \/ exhaustedStage' = exhaustedStage
  \/ exhaustedStage = None /\ exhaustedStage' \in InitialStages \cup TargetedStages
RecordsHonest ==
  /\ DOMAIN current = DOMAIN NoQuery
  /\ current.stop = "budget_exhausted" => exhaustedStage # None
  /\ IsSeq(stops)
  /\ \A i \in DOMAIN stops : stops[i].reason = "budget_exhausted" => exhaustedStage # None

LEMMA NoQueryRecord == DOMAIN NoQuery = {"status", "candidates", "accepted", "domains", "views", "facts",
                                         "strong", "stop", "global"} /\ NoQuery.stop = None
  BY DEF NoQuery

LEMMA ExhaustionLater ==
  ASSUME ExhaustionInv, step \notin InitialSteps, step' \notin InitialSteps, UNCHANGED initialVars,
         enabled' = enabled, BudgetMoves, RecordsHonest',
         \/ step # "plan" /\ plan' = plan
         \/ exhaustedStage' = None => IF enabled THEN plan' \in MissingFields ELSE plan' = << >>,
         step' # "plan"
  PROVE  ExhaustionInv'
<1>1. sources' = sources /\ extracted' = extracted /\ at' = at /\ queue' = queue
  BY DEF initialVars
<1>2. MissingFields' = MissingFields
  BY <1>1 DEF MissingFields, InitialFacts
<1>3. exhaustedStage' = None => exhaustedStage = None
  BY DEF BudgetMoves, InitialStages, TargetedStages, None
<1>4. exhaustedStage' \notin InitialStages => exhaustedStage \notin InitialStages
  BY DEF BudgetMoves, InitialStages, None
<1>5. exhaustedStage' \in {None} \cup InitialStages \cup TargetedStages
  BY DEF BudgetMoves, ExhaustionInv
<1>6. (step \notin InitialSteps \cup {"plan"} /\ exhaustedStage = None =>
         IF enabled THEN plan \in MissingFields ELSE plan = << >>)'
  <2> SUFFICES ASSUME exhaustedStage' = None
               PROVE  IF enabled THEN plan' \in MissingFields ELSE plan' = << >>
    BY <1>2
  <2>1. CASE step # "plan" /\ plan' = plan
    BY <1>3, <2>1 DEF ExhaustionInv
  <2> QED  BY <2>1
<1>7. (\A i \in DOMAIN sources : sources[i].status = "success" =>
            i \in extracted \/ (step = "extract" /\ i = Len(sources)))'
      \/ exhaustedStage' \in InitialStages
  BY <1>1, <1>4 DEF ExhaustionInv, InitialSteps
<1>8. at' > Len(queue') \/ exhaustedStage' \in InitialStages
  BY <1>1, <1>4 DEF ExhaustionInv
<1>9. (extracted \subseteq DOMAIN sources)'
  BY <1>1 DEF ExhaustionInv
<1> QED  BY <1>5, <1>6, <1>7, <1>8, <1>9 DEF ExhaustionInv, RecordsHonest

LEMMA ExhaustionHonest == ExhaustionInv => RecordsHonest
  BY DEF ExhaustionInv, RecordsHonest

LEMMA HonestKept ==
  ASSUME RecordsHonest, BudgetMoves, UNCHANGED <<current, stops>>
  PROVE  RecordsHonest'
  BY DEF RecordsHonest, BudgetMoves, InitialStages, TargetedStages, None

LEMMA HonestCurrent ==
  ASSUME RecordsHonest, BudgetMoves, UNCHANGED stops, DOMAIN current' = DOMAIN NoQuery,
         current'.stop = "budget_exhausted" => current.stop = current'.stop \/ exhaustedStage' # None
  PROVE  RecordsHonest'
  BY DEF RecordsHonest, BudgetMoves, InitialStages, TargetedStages, None

LEMMA HonestEnd ==
  ASSUME RecordsHonest, BudgetMoves, NEW reason, NEW global, EndField(reason, global),
         reason = "budget_exhausted" => exhaustedStage' # None
  PROVE  RecordsHonest'
<1>1. IsSeq(stops') /\ Appended(stops', stops, StopOf(reason, global)) /\ current' = NoQuery
  BY EndFieldEffect DEF RecordsHonest
<1>2. exhaustedStage # None => exhaustedStage' # None
  BY DEF BudgetMoves, InitialStages, TargetedStages, None
<1>3. StopOf(reason, global).reason = reason
  BY DEF StopOf
<1>4. \A i \in DOMAIN stops' : i \in DOMAIN stops \/ i = Len(stops) + 1
  BY <1>1 DEF Appended
<1>5. ASSUME NEW i \in DOMAIN stops', stops'[i].reason = "budget_exhausted"
      PROVE  exhaustedStage' # None
  BY <1>1, <1>2, <1>3, <1>4, <1>5 DEF Appended, RecordsHonest
<1>6. current'.stop = "budget_exhausted" => FALSE
  BY <1>1, NoQueryRecord DEF None
<1> QED  BY <1>1, <1>5, <1>6 DEF RecordsHonest

LEMMA MarkedMoves ==
  ASSUME NEW stage \in InitialStages \cup TargetedStages, NEW minimum, MarkExhausted(stage, minimum)
  PROVE  BudgetMoves /\ exhaustedStage' # None
<1>1. stage # None
  BY DEF InitialStages, TargetedStages, None
<1> QED  BY <1>1, Marked DEF BudgetMoves

LEMMA StillMoves == UNCHANGED budgetVars => BudgetMoves
  BY DEF budgetVars, BudgetMoves

LEMMA ExhaustionPlan ==
  ASSUME ExhaustionInv, PlanTargetedSearch
  PROVE  ExhaustionInv'
<1>1. step = "plan" /\ UNCHANGED <<current, stops>> /\ step' # "plan"
  BY DEF PlanTargetedSearch
<1>2. CASE ~enabled /\ step' = "resolve" /\ UNCHANGED <<plan, budgetVars>>
  <2>1. plan' = << >>
    BY <1>1, <1>2 DEF ExhaustionInv
  <2> QED  BY <1>1, <1>2, <2>1, LaterSteps, StillMoves, HonestKept, ExhaustionHonest, ExhaustionLater
<1>3. CASE enabled /\ plan' \in MissingFields /\ UNCHANGED budgetVars
  BY <1>1, <1>3, LaterSteps, StillMoves, HonestKept, ExhaustionHonest, ExhaustionLater
<1>4. CASE MarkExhausted("targeted_search", FetchMinimum)
  <2>1. BudgetMoves /\ exhaustedStage' # None
    BY <1>4, MarkedMoves DEF TargetedStages
  <2> QED  BY <1>1, <2>1, LaterSteps, HonestKept, ExhaustionHonest, ExhaustionLater
<1> QED  BY <1>2, <1>3, <1>4 DEF PlanTargetedSearch

(* The steps that leave the plan alone.                                      *)
LEMMA ExhaustionSearch ==
  ASSUME ExhaustionInv, BudgetMoves, RecordsHonest',
         StartQuery \/ DiscoverTargeted \/ ConsiderCandidate \/ FetchCandidate \/ ExtractCandidate
           \/ AccountQuery \/ Validate
  PROVE  ExhaustionInv'
<1>1. step \notin InitialSteps /\ step' \notin InitialSteps /\ UNCHANGED initialVars /\ enabled' = enabled
  BY LaterSteps
<1>2. step # "plan" /\ plan' = plan
  BY DEF StartQuery, DiscoverTargeted, ConsiderCandidate, FetchCandidate, ExtractCandidate, AccountQuery,
     Validate, targetedVars
<1>3. step' # "plan"
  <2>1. CASE StartQuery \/ AccountQuery
    BY <2>1, EndFieldSteps DEF StartQuery, AccountQuery
  <2>2. CASE DiscoverTargeted \/ ConsiderCandidate \/ ExtractCandidate \/ Validate
    BY <1>2, <2>2 DEF DiscoverTargeted, ConsiderCandidate, ExtractCandidate, Validate
  <2>3. CASE FetchCandidate
    BY <2>3 DEF FetchCandidate
  <2> QED  BY <2>1, <2>2, <2>3
<1> QED  BY <1>1, <1>2, <1>3, ExhaustionLater

LEMMA ExhaustionStartQuery ==
  ASSUME ExhaustionInv, StartQuery
  PROVE  ExhaustionInv'
<1>1. RecordsHonest
  BY ExhaustionHonest
<1>2. CASE plan = << >> /\ UNCHANGED <<budgetVars, current, stops>>
  BY <1>1, <1>2, StillMoves, HonestKept, ExhaustionSearch
<1>3. CASE EndField("query_limit", FALSE) /\ UNCHANGED budgetVars
  BY <1>1, <1>3, StillMoves, HonestEnd, ExhaustionSearch
<1>4. CASE EndField("global_query_limit", TRUE) /\ UNCHANGED budgetVars
  BY <1>1, <1>4, StillMoves, HonestEnd, ExhaustionSearch
<1>5. CASE MarkExhausted("targeted_discovery", QueryMinimum) /\ EndField("budget_exhausted", TRUE)
  <2>1. BudgetMoves /\ exhaustedStage' # None
    BY <1>5, MarkedMoves DEF TargetedStages
  <2> QED  BY <1>1, <1>5, <2>1, HonestEnd, ExhaustionSearch
<1>6. CASE UNCHANGED <<budgetVars, current, stops>>
  BY <1>1, <1>6, StillMoves, HonestKept, ExhaustionSearch
<1> QED  BY <1>2, <1>3, <1>4, <1>5, <1>6 DEF StartQuery

LEMMA ExhaustionDiscover ==
  ASSUME ExhaustionInv, DiscoverTargeted
  PROVE  ExhaustionInv'
<1>1. RecordsHonest
  BY ExhaustionHonest
<1>2. BudgetMoves
  <2>1. UNCHANGED budgetVars \/ MarkExhausted("targeted_discovery", ProviderMinimum)
    BY DEF DiscoverTargeted
  <2> QED  BY <2>1, StillMoves, MarkedMoves DEF TargetedStages
<1>3. stops' = stops
  BY DEF DiscoverTargeted
<1>4. PICK outcome \in TargetedOutcomes :
        current' = [NoQuery EXCEPT !.status = outcome.status,
          !.candidates = [i \in {i \in DOMAIN outcome.candidates : i <= MaxCandidatesPerQuery}
                            |-> outcome.candidates[i]]]
  BY DEF DiscoverTargeted
<1>5. DOMAIN current' = DOMAIN NoQuery /\ current'.stop = None
  BY <1>4, NoQueryRecord
<1> QED  BY <1>1, <1>2, <1>3, <1>5, HonestCurrent, ExhaustionSearch DEF None

LEMMA StoppedRecord ==
  ASSUME DOMAIN current = DOMAIN NoQuery, NEW reason, NEW global
  PROVE  DOMAIN Stopped(reason, global) = DOMAIN NoQuery /\ Stopped(reason, global).stop = reason
         /\ Stopped(reason, global).strong = current.strong /\ Stopped(reason, global).facts = current.facts
  BY NoQueryRecord DEF Stopped

LEMMA ExhaustionConsider ==
  ASSUME ExhaustionInv, ConsiderCandidate
  PROVE  ExhaustionInv'
<1>1. RecordsHonest /\ stops' = stops /\ DOMAIN current = DOMAIN NoQuery
  BY ExhaustionHonest DEF ConsiderCandidate, RecordsHonest
<1>2. CASE UNCHANGED <<budgetVars, current>>
  BY <1>1, <1>2, StillMoves, HonestKept, ExhaustionSearch
<1>3. CASE MarkExhausted("targeted_fetch", QueryMinimum) /\ current' = Stopped("budget_exhausted", TRUE)
  <2>1. BudgetMoves /\ exhaustedStage' # None
    BY <1>3, MarkedMoves DEF TargetedStages
  <2>2. DOMAIN current' = DOMAIN NoQuery
    BY <1>1, <1>3, StoppedRecord
  <2> QED  BY <1>1, <2>1, <2>2, HonestCurrent, ExhaustionSearch
<1>4. CASE current' = Stopped("candidate_limit", FALSE) /\ UNCHANGED budgetVars
  <2>1. DOMAIN current' = DOMAIN NoQuery /\ current'.stop = "candidate_limit"
    BY <1>1, <1>4, StoppedRecord
  <2> QED  BY <1>1, <1>4, <2>1, StillMoves, HonestCurrent, ExhaustionSearch
<1>5. CASE /\ \/ current' = [current EXCEPT !.candidates = Tail(@)]
              \/ current' = [current EXCEPT !.accepted = @ + 1, !.domains = @ \cup {Host[Doc(Candidate)]}]
           /\ UNCHANGED budgetVars
  <2>1. DOMAIN current' = DOMAIN NoQuery /\ current'.stop = current.stop
    BY <1>1, <1>5, NoQueryRecord
  <2> QED  BY <1>1, <1>5, <2>1, StillMoves, HonestCurrent, ExhaustionSearch
<1> QED  BY <1>2, <1>3, <1>4, <1>5 DEF ConsiderCandidate

(* The view is added to the query; nothing else of it moves.                 *)
LEMMA TakenRecord ==
  ASSUME DOMAIN current = DOMAIN NoQuery, NEW views, NEW candidates
  PROVE  LET after == [current EXCEPT !.views = views, !.candidates = candidates] IN
         DOMAIN after = DOMAIN NoQuery /\ after.stop = current.stop /\ after.strong = current.strong
           /\ after.facts = current.facts
  BY NoQueryRecord

LEMMA FetchCandidateCases ==
  ASSUME FetchCandidate
  PROVE  /\ stops' = stops
         /\ \/ UNCHANGED budgetVars /\ \E views, candidates :
                 current' = [current EXCEPT !.views = views, !.candidates = candidates]
            \/ MarkExhausted("fetch", FetchMinimum) /\ current' = Stopped("budget_exhausted", TRUE)
<1> DEFINE c == Candidate
           Took(v) == /\ current' = [current EXCEPT !.views = Append(@, TargetedView(v, c)),
                                       !.candidates = IF v.status = "success" THEN @ ELSE Tail(@)]
                      /\ UNCHANGED budgetVars
<1>1. /\ stops' = stops
      /\ \/ Took(pageCache[Doc(c)])
         \/ \E page \in {cache[Doc(c)]} \cup TransportResults(c.url) : Took(FetchOnceView(page, c))
         \/ FetchRefused(c) /\ current' = Stopped("budget_exhausted", TRUE)
  BY DEF FetchCandidate
<1>2. ASSUME NEW v, Took(v)
      PROVE  UNCHANGED budgetVars /\ \E views, candidates :
               current' = [current EXCEPT !.views = views, !.candidates = candidates]
  BY <1>2
<1> QED  BY <1>1, <1>2 DEF FetchRefused

LEMMA ExhaustionFetchCandidate ==
  ASSUME ExhaustionInv, FetchCandidate
  PROVE  ExhaustionInv'
<1>1. RecordsHonest /\ stops' = stops /\ DOMAIN current = DOMAIN NoQuery
  BY ExhaustionHonest, FetchCandidateCases DEF RecordsHonest
<1>2. ASSUME UNCHANGED budgetVars, NEW views, NEW candidates,
             current' = [current EXCEPT !.views = views, !.candidates = candidates]
      PROVE  ExhaustionInv'
  <2>1. DOMAIN current' = DOMAIN NoQuery /\ current'.stop = current.stop
    BY <1>1, <1>2, TakenRecord
  <2> QED  BY <1>1, <1>2, <2>1, StillMoves, HonestCurrent, ExhaustionSearch
<1>3. CASE MarkExhausted("fetch", FetchMinimum) /\ current' = Stopped("budget_exhausted", TRUE)
  <2>1. BudgetMoves /\ exhaustedStage' # None
    BY <1>3, MarkedMoves DEF InitialStages
  <2>2. DOMAIN current' = DOMAIN NoQuery
    BY <1>1, <1>3, StoppedRecord
  <2> QED  BY <1>1, <2>1, <2>2, HonestCurrent, ExhaustionSearch
<1> QED  BY <1>2, <1>3, FetchCandidateCases

LEMMA ExtractCandidateCases ==
  ASSUME ExtractCandidate, DOMAIN current = DOMAIN NoQuery
  PROVE  /\ stops' = stops
         /\ \/ /\ UNCHANGED budgetVars /\ DOMAIN current' = DOMAIN NoQuery /\ current'.stop = current.stop
               /\ \E exact : /\ current'.facts = current.facts \cup exact
                             /\ current'.strong => current.strong \/ exact # {}
            \/ /\ MarkExhausted("targeted_extraction", ExtractionMinimum)
               /\ current' = Stopped("budget_exhausted", TRUE)
<1>1. stops' = stops
  BY DEF ExtractCandidate
<1>2. \/ UNCHANGED budgetVars /\ \E exact, candidates, v :
           current' = [current EXCEPT !.candidates = candidates, !.facts = @ \cup exact,
                         !.strong = @ \/ (exact # {} /\ IsOfficial(v.says))]
      \/ /\ MarkExhausted("targeted_extraction", ExtractionMinimum)
         /\ current' = Stopped("budget_exhausted", TRUE)
  BY DEF ExtractCandidate
<1>3. ASSUME NEW exact, NEW candidates, NEW v,
             current' = [current EXCEPT !.candidates = candidates, !.facts = @ \cup exact,
                           !.strong = @ \/ (exact # {} /\ IsOfficial(v.says))]
      PROVE  /\ DOMAIN current' = DOMAIN NoQuery /\ current'.stop = current.stop
             /\ current'.facts = current.facts \cup exact
             /\ current'.strong => current.strong \/ exact # {}
  BY <1>3, NoQueryRecord
<1> QED  BY <1>1, <1>2, <1>3

LEMMA ExhaustionExtractCandidate ==
  ASSUME ExhaustionInv, ExtractCandidate
  PROVE  ExhaustionInv'
<1>1. RecordsHonest /\ DOMAIN current = DOMAIN NoQuery
  BY ExhaustionHonest DEF RecordsHonest
<1>2. stops' = stops
  BY <1>1, ExtractCandidateCases
<1>3. CASE UNCHANGED budgetVars /\ DOMAIN current' = DOMAIN NoQuery /\ current'.stop = current.stop
  BY <1>1, <1>2, <1>3, StillMoves, HonestCurrent, ExhaustionSearch
<1>4. CASE MarkExhausted("targeted_extraction", ExtractionMinimum) /\ current' = Stopped("budget_exhausted", TRUE)
  <2>1. BudgetMoves /\ exhaustedStage' # None
    BY <1>4, MarkedMoves DEF TargetedStages
  <2>2. DOMAIN current' = DOMAIN NoQuery
    BY <1>1, <1>4, StoppedRecord
  <2> QED  BY <1>1, <1>2, <2>1, <2>2, HonestCurrent, ExhaustionSearch
<1> QED  BY <1>1, <1>3, <1>4, ExtractCandidateCases

(* How the accounting of a query can go on.                                  *)
LEMMA AccountCases ==
  ASSUME AccountQuery
  PROVE  \/ EndField(DiscoveryFailed, current.global)
         \/ current.strong /\ EndField("strong_official_evidence", current.global)
         \/ ~current.strong /\ current.stop # None /\ EndField(current.stop, current.global)
         \/ \E n \in 1 .. 5 : EndField(StreakOrder[n], TRUE)
         \/ /\ ~current.strong /\ current.stop = None
            /\ query' = query + 1 /\ current' = NoQuery /\ step' = "query" /\ UNCHANGED <<field, stops>>
  BY DEF AccountQuery

LEMMA StreakReasons == \A n \in 1 .. 5 : StreakOrder[n] \in Streaks
<1>1. \A n \in 1 .. 5 : n = 1 \/ n = 2 \/ n = 3 \/ n = 4 \/ n = 5
  OBVIOUS
<1>2. /\ StreakOrder[1] = "zero_accepted_candidates" /\ StreakOrder[2] = "zero_useful_facts"
      /\ StreakOrder[3] = "duplicate_domain_saturation" /\ StreakOrder[4] = "no_coverage_gain"
      /\ StreakOrder[5] = "no_confirmed_gain"
  BY DEF StreakOrder
<1> QED  BY <1>1, <1>2 DEF Streaks

LEMMA ExhaustionAccount ==
  ASSUME ExhaustionInv, AccountQuery
  PROVE  ExhaustionInv'
<1>1. RecordsHonest /\ UNCHANGED budgetVars
  BY ExhaustionHonest DEF AccountQuery
<1>2. BudgetMoves
  BY <1>1, StillMoves
<1>3. exhaustedStage' = exhaustedStage
  BY <1>1 DEF budgetVars
<1>4. CASE EndField(DiscoveryFailed, current.global)
  <2>1. DiscoveryFailed # "budget_exhausted"
    BY DEF DiscoveryFailed
  <2> QED  BY <1>1, <1>2, <1>4, <2>1, HonestEnd, ExhaustionSearch
<1>5. CASE EndField("strong_official_evidence", current.global)
  BY <1>1, <1>2, <1>5, HonestEnd, ExhaustionSearch
<1>6. CASE EndField(current.stop, current.global)
  <2>1. current.stop = "budget_exhausted" => exhaustedStage' # None
    BY <1>1, <1>3 DEF RecordsHonest
  <2> QED  BY <1>1, <1>2, <1>6, <2>1, HonestEnd, ExhaustionSearch
<1>7. ASSUME NEW n \in 1 .. 5, EndField(StreakOrder[n], TRUE) PROVE ExhaustionInv'
  <2>1. StreakOrder[n] # "budget_exhausted"
    BY StreakReasons DEF Streaks
  <2> QED  BY <1>1, <1>2, <1>7, <2>1, HonestEnd, ExhaustionSearch
<1>8. CASE current' = NoQuery /\ UNCHANGED <<field, stops>>
  <2>1. current'.stop # "budget_exhausted" /\ DOMAIN current' = DOMAIN NoQuery
    BY <1>8, NoQueryRecord DEF None
  <2> QED  BY <1>1, <1>2, <1>8, <2>1, HonestCurrent, ExhaustionSearch
<1> QED  BY <1>4, <1>5, <1>6, <1>7, <1>8, AccountCases

LEMMA ExhaustionKept ==
  ASSUME ExhaustionInv, QueueInv, [WorkflowNext]_workflowVars
  PROVE  ExhaustionInv'
<1>1. CASE Validate
  <2>1. UNCHANGED <<budgetVars, current, stops>>
    BY <1>1 DEF Validate, targetedVars
  <2>2. RecordsHonest'
    BY <2>1, StillMoves, HonestKept, ExhaustionHonest
  <2> QED  BY <1>1, <2>1, <2>2, StillMoves, ExhaustionSearch
<1>2. CASE Finished \/ UNCHANGED workflowVars
  <2>1. UNCHANGED workflowVars
    BY <1>2 DEF Finished
  <2>2. /\ UNCHANGED <<step, enabled, exhaustedStage, queue, at, sources, extracted, plan, current, stops>>
    BY <2>1 DEF workflowVars, budgetVars, initialVars, targetedVars
  <2> QED  BY <2>2 DEF ExhaustionInv, MissingFields, InitialFacts
<1> QED  BY <1>1, <1>2, ExhaustionInitial, ExhaustionFetch, ExhaustionPlan, ExhaustionStartQuery,
         ExhaustionDiscover, ExhaustionConsider, ExhaustionFetchCandidate, ExhaustionExtractCandidate,
         ExhaustionAccount DEF WorkflowNext

LEMMA ExhaustionInvariance == WorkflowSpec => []ExhaustionInv
<1> QED  BY ExhaustionStart, ExhaustionKept, QueueInvariance, PTL DEF WorkflowSpec

(* A verification cut short by the budget says so, and names a stage of the    *)
(* targeted search only when nothing of the initial work is left.            *)
THEOREM ExhaustionExact == WorkflowSpec => []ExhaustionIsExact
<1>1. ASSUME ExhaustionInv, QueueInv PROVE ExhaustionIsExact
  <2>1. ASSUME exhaustedStage \notin InitialStages, step \notin InitialSteps PROVE ~InitialWorkLeft
    <3>1. \A i \in DOMAIN sources : sources[i].status = "success" => i \in extracted
      BY <1>1, <2>1 DEF ExhaustionInv, InitialSteps
    <3>2. at > Len(queue)
      BY <1>1, <2>1 DEF ExhaustionInv
    <3> QED  BY <3>1, <3>2 DEF InitialWorkLeft
  <2>2. ASSUME exhaustedStage \in TargetedStages PROVE ~InitialWorkLeft
    <3>1. exhaustedStage \notin InitialStages
      BY <2>2 DEF InitialStages, TargetedStages
    <3>2. step \notin InitialSteps
      BY <1>1, <2>2 DEF ExhaustionInv
    <3> QED  BY <2>1, <3>1, <3>2
  <2>3. ASSUME step = "done", exhaustedStage = None
        PROVE  /\ ~InitialWorkLeft
               /\ IF enabled THEN plan \in MissingFields ELSE plan = << >>
               /\ \A i \in DOMAIN stops : stops[i].reason # "budget_exhausted"
    <3>1. exhaustedStage \notin InitialStages /\ step \notin InitialSteps /\ step # "plan"
      BY <2>3 DEF InitialStages, InitialSteps, None
    <3>2. IF enabled THEN plan \in MissingFields ELSE plan = << >>
      BY <1>1, <2>3, <3>1 DEF ExhaustionInv
    <3>3. \A i \in DOMAIN stops : stops[i].reason # "budget_exhausted"
      BY <1>1, <2>3 DEF ExhaustionInv
    <3> QED  BY <2>1, <3>1, <3>2, <3>3
  <2> QED  BY <2>2, <2>3 DEF ExhaustionIsExact
<1> QED  BY <1>1, ExhaustionInvariance, QueueInvariance, PTL

-----------------------------------------------------------------------------
(* The targeted search                                                      *)

LEMMA SearchStart == WorkflowInit => SearchInv
<1> SUFFICES ASSUME WorkflowInit PROVE SearchInv
  OBVIOUS
<1>1. /\ step = "discovery" /\ plan = << >> /\ results = << >> /\ stops = << >> /\ field = 1 /\ query = 1
      /\ confirmable = {} /\ executed = 0 /\ current = NoQuery
  BY DEF WorkflowInit
<1>2. MaxTotalQueries \in Nat
  BY WorkflowAssumption DEF WorkflowAssumption
<1>3. NoQuery.stop = None /\ ~NoQuery.strong
  BY DEF NoQuery
<1> QED  BY <1>1, <1>2, <1>3 DEF SearchInv, Planned, Counted, QueryHonest, Stopping, Untouched, Searching, IsSeq, ToSet, SearchSteps, InitialSteps, None

(* The initial loop.                                                         *)
LEMMA SearchInitial ==
  ASSUME SearchInv, ExhaustionInv, step \in InitialSteps, step' \in InitialSteps \cup {"plan"},
         UNCHANGED targetedVars
  PROVE  SearchInv'
<1>1. /\ plan' = plan /\ field' = field /\ query' = query /\ executed' = executed /\ confirmable' = confirmable
      /\ current' = current /\ results' = results /\ stops' = stops
  BY DEF targetedVars
<1>2. /\ stops = << >>
  BY DEF SearchInv, Planned, Counted, QueryHonest, Stopping, Untouched, Searching
<1> QED  BY <1>1, <1>2 DEF SearchInv, Planned, Counted, QueryHonest, Stopping, Untouched, Searching, SearchSteps, InitialSteps

LEMMA SearchTimePasses ==
  ASSUME SearchInv, UNCHANGED <<step, targetedVars>>
  PROVE  SearchInv'
<1>1. /\ plan' = plan /\ field' = field /\ query' = query /\ executed' = executed /\ confirmable' = confirmable
      /\ current' = current /\ results' = results /\ stops' = stops /\ step' = step
  BY DEF targetedVars
<1>2. AtField => AtField'
  BY <1>1 DEF AtField, ResultsOf, Searched
<1>3. \A i \in DOMAIN stops : StopHolds(i) => StopHolds(i)'
  BY <1>1 DEF StopHolds, ResultsOf
<1> QED  BY <1>1, <1>2, <1>3 DEF SearchInv, Planned, Counted, QueryHonest, Stopping, Untouched, Searching

(* The fields missing are planned in their order, each once.                 *)
LEMMA PlanOnce ==
  ASSUME NEW p \in MissingFields
  PROVE  p \in Seq(ToSet(Fields)) /\ \A i, j \in DOMAIN p : p[i] = p[j] => i = j
<1> DEFINE places == Missing(InitialFacts)
<1>1. Fields \in Seq(ToSet(Fields)) /\ \A i, j \in DOMAIN Fields : Fields[i] = Fields[j] => i = j
  BY WorkflowAssumption DEF WorkflowAssumption
<1>2. /\ Len(Fields) \in Nat /\ DOMAIN Fields = 1 .. Len(Fields) /\ IsFiniteSet(DOMAIN Fields)
      /\ \A i \in DOMAIN Fields : Fields[i] \in ToSet(Fields)
  BY <1>1, SeqMembers
<1>3. places \subseteq DOMAIN Fields
  BY DEF Missing
<1>4. PICK q \in {q \in [1 .. Cardinality(places) -> places] : \A i, j \in DOMAIN q : i < j => q[i] < q[j]} :
        p = [i \in DOMAIN q |-> Fields[q[i]]]
  BY DEF MissingFields, InOrder
<1> HIDE DEF places
<1>5. Cardinality(places) \in Nat
  BY <1>2, <1>3, FS_Subset, FS_CardinalityType
<1>6. DOMAIN q = 1 .. Cardinality(places) /\ \A i \in DOMAIN q : q[i] \in places
  BY <1>4, <1>5, ListIsSeq
<1>7. DOMAIN p = 1 .. Cardinality(places) /\ \A i \in DOMAIN p : q[i] \in DOMAIN Fields /\ p[i] = Fields[q[i]]
  BY <1>3, <1>4, <1>6
<1>8. p \in Seq(ToSet(Fields))
  <2> DEFINE n == Cardinality(places)
             S == ToSet(Fields)
  <2>1. p \in [1 .. n -> S]
    BY <1>2, <1>4, <1>6, <1>7
  <2>2. n \in Nat
    BY <1>5
  <2> HIDE DEF n, S
  <2>3. p \in Seq(S)
    BY <2>1, <2>2, ListIsSeq
  <2> QED  BY <2>3 DEF S
<1>9. \A i, j \in DOMAIN p : q[i] = q[j] => i = j
  <2>1. ASSUME NEW i \in DOMAIN p, NEW j \in DOMAIN p, i < j PROVE q[i] < q[j] /\ q[i] \in Nat
    BY <1>2, <1>4, <1>6, <1>7, <2>1
  <2>2. DOMAIN p \subseteq Nat
    BY <1>5, <1>7
  <2> QED  BY <2>1, <2>2
<1>10. \A i, j \in DOMAIN p : p[i] = p[j] => i = j
  BY <1>1, <1>7, <1>9
<1> QED  BY <1>8, <1>10

LEMMA SearchPlanned ==
  ASSUME SearchInv, ExhaustionInv, PlanTargetedSearch
  PROVE  SearchInv'
<1>1. /\ step = "plan" /\ step' \in {"query", "resolve"} /\ UNCHANGED <<field, query, executed, confirmable, current, results, stops>>
      /\ plan' = plan \/ (plan' \in MissingFields /\ step' = "query")
      /\ step' = "resolve" => plan' = plan
  BY DEF PlanTargetedSearch
<1>2. plan = << >> /\ results = << >> /\ stops = << >> /\ field = 1 /\ query = 1 /\ confirmable = {}
  BY <1>1 DEF SearchInv, Untouched, ExhaustionInv
<1>3. Planned'
  <2>1. CASE plan' = plan
    BY <2>1 DEF Planned, SearchInv
  <2>2. CASE plan' \in MissingFields
    BY <2>2, PlanOnce DEF Planned
  <2> QED  BY <1>1, <2>1, <2>2
<1>4. step' = "resolve" => plan' = << >>
  BY <1>1, <1>2
<1>5. plan' # << >> => AtField'
  <2> SUFFICES ASSUME plan' # << >> PROVE AtField'
    OBVIOUS
  <2>1. plan' \in Seq(ToSet(Fields))
    BY <1>3 DEF Planned
  <2>2. Len(plan') \in Nat /\ DOMAIN plan' = 1 .. Len(plan') /\ 1 \in DOMAIN plan' /\ plan'[1] \in ToSet(Fields)
    <3>1. Len(plan') \in Nat /\ DOMAIN plan' = 1 .. Len(plan') /\ \A i \in DOMAIN plan' : plan'[i] \in ToSet(Fields)
      BY <2>1, SeqMembers
    <3>2. Len(plan') # 0
      BY <2>1
    <3> QED  BY <3>1, <3>2
  <2>3. Queries[plan'[1]] \in Nat \ {0}
    BY <2>2, WorkflowAssumption DEF WorkflowAssumption
  <2>4. field' = 1 /\ query' = 1 /\ results' = << >> /\ stops' = << >> /\ confirmable' = {}
    BY <1>1, <1>2
  <2>5. Searched' = plan'[1]
    BY <2>4 DEF Searched
  <2>6. ResultsOf(Searched)' = {}
    BY <2>4 DEF ResultsOf
  <2>7. Cardinality(ResultsOf(Searched)') = 0
    BY <2>6, FS_EmptySet
  <2> QED  BY <2>2, <2>3, <2>4, <2>5, <2>7 DEF AtField
<1>6. Counted'
  BY <1>1 DEF Counted, SearchInv
<1>7. QueryHonest' /\ (IsSeq(results))'
  BY <1>1 DEF QueryHonest, SearchInv
<1>8. Stopping'
  <2>1. Len(plan') \in Nat
    BY <1>3, SeqMembers DEF Planned
  <2>2. stops' = << >> /\ Len(stops') = 0 /\ DOMAIN stops' = {}
    BY <1>1, <1>2
  <2>3. step' = "query" \/ plan' = << >>
    BY <1>1, <1>4
  <2> QED  BY <2>1, <2>2, <2>3 DEF Stopping
<1>9. Untouched' /\ Searching'
  <2>1. step' \notin InitialSteps \cup {"plan"} /\ step' \notin SearchSteps \ {"query"}
    BY <1>1 DEF InitialSteps, SearchSteps
  <2>2. Untouched'
    BY <2>1 DEF Untouched
  <2>3. Searching'
    BY <1>5, <2>1 DEF Searching
  <2> QED  BY <2>2, <2>3
<1> QED  BY <1>3, <1>6, <1>7, <1>8, <1>9 DEF SearchInv

(* A step inside a query: the field and what ended before it stay.            *)
LEMMA SearchInside ==
  ASSUME SearchInv, plan # << >>, step \in SearchSteps, step' \in SearchSteps \ {"query"},
         UNCHANGED <<plan, field, query, confirmable, results, stops>>, query <= Queries[Searched],
         Counted', QueryHonest'
  PROVE  SearchInv'
<1>1. AtField
  BY DEF SearchInv, Searching
<1>2. AtField'
  BY <1>1 DEF AtField, ResultsOf, Searched
<1>3. ASSUME NEW i \in DOMAIN stops PROVE StopHolds(i)'
  <2>1. StopHolds(i) /\ ~stops[i].global
    BY <1>1 DEF SearchInv, Stopping, AtField
  <2> QED  BY <2>1 DEF StopHolds, ResultsOf
<1>4. Planned' /\ (IsSeq(results))'
  BY DEF SearchInv, Planned
<1>5. step' \notin {"resolve", "done"} /\ step' \notin InitialSteps \cup {"plan"}
  BY DEF SearchSteps, InitialSteps
<1>6. Len(stops') <= Len(plan')
  BY DEF SearchInv, Stopping
<1>7. Stopping'
  BY <1>3, <1>5, <1>6 DEF Stopping
<1>8. Untouched' /\ Searching'
  BY <1>2, <1>5 DEF Untouched, Searching
<1> QED  BY <1>4, <1>7, <1>8 DEF SearchInv

(* What a query adds when its field ends.                                    *)
ResultsGrow ==
  /\ IsSeq(results') /\ DOMAIN results \subseteq DOMAIN results'
  /\ \A i \in DOMAIN results : results'[i] = results[i]
  /\ \A i \in DOMAIN results' : i \in DOMAIN results \/ results'[i].field = Searched
ConfirmableGrows == confirmable \subseteq confirmable' /\ confirmable' \subseteq confirmable \cup {Searched}

ResultsAfter(f) == {i \in DOMAIN results' : results'[i].field = f}

LEMMA OtherResults ==
  ASSUME ResultsGrow, NEW f, f # Searched
  PROVE  ResultsAfter(f) = ResultsOf(f)
<1>1. ASSUME NEW i \in ResultsAfter(f) PROVE i \in ResultsOf(f)
  BY <1>1 DEF ResultsGrow, ResultsOf, ResultsAfter
<1>2. ASSUME NEW i \in ResultsOf(f) PROVE i \in ResultsAfter(f)
  BY <1>2 DEF ResultsGrow, ResultsOf, ResultsAfter
<1> QED  BY <1>1, <1>2

ReasonHolds(reason, global) ==
  /\ reason = "query_limit" => Cardinality(ResultsAfter(Searched)) = Queries[Searched]
  /\ reason = "global_query_limit" => global /\ executed = MaxTotalQueries
  /\ reason = "strong_official_evidence" => \E r \in ResultsAfter(Searched) : results'[r].facts # {}
  /\ reason \in {"query_limit", "candidate_limit"} => Searched \notin confirmable'

EndedWith(reason, global) ==
  /\ Len(stops') = field /\ DOMAIN stops' = 1 .. field /\ stops'[field] = StopOf(reason, global)
  /\ \A i \in DOMAIN stops : stops'[i] = stops[i] /\ i \in DOMAIN stops'

(* The field ends: its stop holds, and the stops before it still do.          *)
LEMMA StopsAfterEnd ==
  ASSUME Planned, AtField, IsSeq(stops), \A i \in DOMAIN stops : StopHolds(i),
         NEW reason, NEW global, EndField(reason, global), plan' = plan, executed' = executed,
         ResultsGrow, ConfirmableGrows, ReasonHolds(reason, global)
  PROVE  (\A i \in DOMAIN stops' : StopHolds(i)') /\ EndedWith(reason, global)
<1>1. /\ field \in 1 .. Len(plan) /\ Len(stops) = field - 1 /\ DOMAIN plan = 1 .. Len(plan) /\ Len(plan) \in Nat
      /\ \A i \in DOMAIN stops : ~stops[i].global
  BY SeqMembers DEF AtField, Planned
<1>2. Appended(stops', stops, StopOf(reason, global))
  BY EndFieldEffect
<1>3. /\ Len(stops') = field /\ DOMAIN stops' = 1 .. field /\ stops'[field] = StopOf(reason, global)
      /\ DOMAIN stops = 1 .. field - 1
      /\ \A i \in DOMAIN stops : stops'[i] = stops[i] /\ i \in DOMAIN stops'
  BY <1>1, <1>2 DEF Appended
<1>4. ASSUME NEW i \in DOMAIN stops PROVE StopHolds(i)'
  <2>1. stops'[i] = stops[i] /\ StopHolds(i) /\ ~stops[i].global
    BY <1>1, <1>3
  <2>2. i \in DOMAIN plan /\ field \in DOMAIN plan /\ i # field
    BY <1>1, <1>3
  <2>3. stops[i].field = plan[i] /\ plan[i] # Searched
    BY <2>1, <2>2 DEF StopHolds, Planned, Searched
  <2>4. ResultsAfter(stops[i].field) = ResultsOf(stops[i].field)
    BY <2>3, OtherResults
  <2>5. stops'[i].field \notin confirmable => stops'[i].field \notin confirmable'
    BY <2>1, <2>3 DEF ConfirmableGrows
  <2>6. ASSUME NEW r \in ResultsOf(stops[i].field), results[r].facts # {}
        PROVE  results'[r].facts # {}
    BY <2>6 DEF ResultsGrow, ResultsOf
  <2>7. \/ stops[i].reason # "query_limit" \/ Cardinality(ResultsAfter(stops'[i].field)) = Queries[stops'[i].field]
    BY <2>1, <2>4 DEF StopHolds
  <2>8. \/ stops[i].reason # "strong_official_evidence"
        \/ \E r \in ResultsAfter(stops'[i].field) : results'[r].facts # {}
    BY <2>1, <2>4, <2>6 DEF StopHolds
  <2>9. stops[i].reason # "global_query_limit" /\ (stops'[i].reason \in {"query_limit", "candidate_limit"} =>
          stops'[i].field \notin confirmable')
    BY <2>1, <2>5 DEF StopHolds
  <2> QED  BY <2>1, <2>3, <2>7, <2>8, <2>9 DEF StopHolds, ResultsOf, ResultsAfter
<1>5. ASSUME NEW k, k = field PROVE StopHolds(k)'
  <2>1. /\ stops'[k].field = Searched /\ stops'[k].reason = reason /\ stops'[k].global = global
        /\ k = Len(stops') /\ Searched = plan'[k]
    BY <1>3, <1>5 DEF StopOf, Searched
  <2> QED  BY <2>1 DEF StopHolds, ReasonHolds, ResultsOf, ResultsAfter
<1>6. \A i \in DOMAIN stops' : i \in DOMAIN stops \/ i = field
  BY <1>1, <1>3
<1> QED  BY <1>3, <1>4, <1>5, <1>6 DEF EndedWith

LEMMA NextField ==
  ASSUME Planned, AtField, NEW reason, NEW global, EndField(reason, global), plan' = plan,
         ResultsGrow, ConfirmableGrows, IsSeq(stops), step' = "query", EndedWith(reason, global)
  PROVE  AtField'
<1>1. /\ field' = field + 1 /\ query' = 1 /\ field # Len(plan)
  BY EndFieldEffect
<1>g. ~StopOf(reason, global).global
  BY EndFieldEffect
<1>2. /\ DOMAIN plan = 1 .. Len(plan) /\ Len(plan) \in Nat
      /\ \A i \in DOMAIN plan : plan[i] \in ToSet(Fields)
      /\ \A i, j \in DOMAIN plan : plan[i] = plan[j] => i = j
  BY SeqMembers DEF Planned
<1>l. field \in 1 .. Len(plan) /\ Len(stops) = field - 1 /\ DOMAIN stops = 1 .. Len(stops)
  BY SeqMembers DEF AtField, IsSeq
<1>m. field \in Nat /\ 1 <= field /\ field + 1 \in Nat /\ DOMAIN stops = 1 .. field - 1
  BY <1>2, <1>l
<1>k. field <= Len(plan) /\ Len(plan) \in Int /\ field \in Int
  BY <1>2, <1>l
<1>o. field + 1 <= Len(plan)
  <2>1. field # Len(plan)
    BY <1>1
  <2> QED  BY <1>k, <2>1
<1>p. field + 1 \in 1 .. Len(plan)
  BY <1>k, <1>m, <1>o
<1>n. PICK n : n = field + 1
  OBVIOUS
<1>3. field' = n /\ n \in 1 .. Len(plan) /\ n \in Nat /\ n \in DOMAIN plan /\ field \in DOMAIN plan /\ field = n - 1
  <2>1. n \in Nat /\ n \in 1 .. Len(plan) /\ field = n - 1 /\ field \in 1 .. Len(plan)
    BY <1>l, <1>m, <1>n, <1>p
  <2>2. field' = n
    BY <1>1, <1>n
  <2> QED  BY <1>2, <2>1, <2>2
<1>s. /\ Len(stops') = n - 1 /\ DOMAIN stops' = 1 .. field /\ stops'[field] = StopOf(reason, global)
      /\ \A i \in DOMAIN stops : stops'[i] = stops[i]
  BY <1>3 DEF EndedWith
<1>4. \A i \in DOMAIN stops' : ~stops'[i].global
  <2> SUFFICES ASSUME NEW i \in DOMAIN stops' PROVE ~stops'[i].global
    OBVIOUS
  <2>1. CASE i \in DOMAIN stops
    BY <1>s, <2>1 DEF AtField
  <2>2. CASE i = field
    BY <1>g, <1>s, <2>2
  <2>3. i \in 1 .. field
    BY <1>s
  <2>4. i \in 1 .. field - 1 \/ i = field
    BY <1>m, <2>3
  <2> QED  BY <1>m, <2>1, <2>2, <2>4
<1>5. ASSUME NEW i \in DOMAIN results' PROVE \E k \in 1 .. field : results'[i].field = plan[k]
  <2>1. CASE i \in DOMAIN results
    BY <2>1 DEF AtField, ResultsGrow
  <2>2. CASE results'[i].field = Searched
    <3>1. field \in 1 .. field
      BY <1>m
    <3> QED  BY <2>2, <3>1 DEF Searched
  <2> QED  BY <2>1, <2>2 DEF ResultsGrow
<1>6. \A k \in 1 .. field : k \in 1 .. n /\ k \in DOMAIN plan /\ k # n
  BY <1>2, <1>m, <1>n, <1>3
<1>7. Queries[plan[n]] \in Nat \ {0}
  BY <1>2, <1>3, WorkflowAssumption DEF WorkflowAssumption
<1>8. ResultsAfter(plan[n]) = {}
  <2> SUFFICES ASSUME NEW i \in ResultsAfter(plan[n]) PROVE FALSE
    OBVIOUS
  <2>1. i \in DOMAIN results' /\ results'[i].field = plan[n]
    BY DEF ResultsAfter
  <2>2. PICK k \in 1 .. field : results'[i].field = plan[k]
    BY <1>5, <2>1
  <2>3. plan[k] = plan[n] /\ k \in DOMAIN plan /\ k # n
    BY <1>6, <2>1, <2>2
  <2> QED  BY <1>2, <1>3, <2>3
<1>9. Cardinality(ResultsOf(Searched)') = query' - 1
  <2>1. ResultsOf(Searched)' = ResultsAfter(plan[n])
    BY <1>3 DEF ResultsOf, Searched, ResultsAfter
  <2>2. Cardinality({}) = 0
    BY FS_EmptySet
  <2>3. Cardinality(ResultsOf(Searched)') = 0
    BY <1>8, <2>1, <2>2
  <2> QED  BY <1>1, <2>3
<1>10. ASSUME NEW k \in n .. Len(plan) PROVE plan[k] \notin confirmable'
  <2>1. k \in field .. Len(plan) /\ k \in DOMAIN plan /\ k # field
    BY <1>2, <1>m, <1>n
  <2>2. plan[k] \notin confirmable /\ plan[k] # Searched
    BY <1>2, <1>3, <2>1 DEF AtField, Searched
  <2> QED  BY <2>2 DEF ConfirmableGrows
<1>11. query' \in Nat \ {0} /\ query' <= (IF step' = "query" THEN Queries[Searched'] + 1 ELSE Queries[Searched'])
  BY <1>1, <1>3, <1>7 DEF Searched
<1>12. \A i \in DOMAIN results' : \E k \in 1 .. field' : results'[i].field = plan'[k]
  <2> SUFFICES ASSUME NEW i \in DOMAIN results' PROVE \E k \in 1 .. field' : results'[i].field = plan'[k]
    OBVIOUS
  <2>1. PICK k \in 1 .. field : results'[i].field = plan[k]
    BY <1>5
  <2>2. k \in 1 .. field' /\ results'[i].field = plan'[k]
    BY <1>3, <1>6, <2>1
  <2> QED  BY <2>2
<1>13. field' \in 1 .. Len(plan') /\ Len(stops') = field' - 1
  BY <1>3, <1>s
<1>14. \A k \in field' .. Len(plan') : plan'[k] \notin confirmable'
  BY <1>3, <1>10
<1> QED  BY <1>4, <1>9, <1>11, <1>12, <1>13, <1>14 DEF AtField

LEMMA SearchEnd ==
  ASSUME SearchInv, IsSeq(stops), step \in SearchSteps, plan # << >>,
         NEW reason, NEW global, EndField(reason, global), plan' = plan, executed' = executed,
         ResultsGrow, ConfirmableGrows, ReasonHolds(reason, global)
  PROVE  SearchInv'
<1>1. Planned /\ AtField /\ \A i \in DOMAIN stops : StopHolds(i)
  BY DEF SearchInv, Searching, Stopping
<1>2. (\A i \in DOMAIN stops' : StopHolds(i)') /\ EndedWith(reason, global)
  BY <1>1, StopsAfterEnd
<1>s. Len(stops') = field /\ DOMAIN stops' = 1 .. field /\ stops'[field] = StopOf(reason, global)
  BY <1>2 DEF EndedWith
<1>3. /\ current' = NoQuery /\ query' = 1
      /\ step' \in {"query", "resolve"}
      /\ step' = "resolve" => field = Len(plan) \/ StopOf(reason, global).global
  BY EndFieldEffect
<1>4. field \in 1 .. Len(plan) /\ Len(plan) \in Nat
  BY <1>1, SeqMembers DEF AtField, Planned
<1>5. Planned' /\ (IsSeq(results))'
  BY <1>1 DEF Planned, ResultsGrow
<1>6. step' \in {"query", "resolve"}
  BY <1>3
<1>7. Counted'
  BY <1>6 DEF SearchInv, Counted
<1>8. QueryHonest'
  BY <1>3 DEF QueryHonest, NoQuery, None
<1>9. Stopping'
  <2>1. Len(stops') <= Len(plan')
    BY <1>s, <1>4
  <2>2. stops' # << >>
    BY <1>s, <1>4
  <2>3. step' = "resolve" => Len(stops') = Len(plan') \/ Last(stops').global
    <3>1. Last(stops') = StopOf(reason, global)
      BY <1>s DEF Last
    <3> QED  BY <1>s, <1>3, <3>1
  <2>4. step' # "done"
    BY <1>6
  <2> QED  BY <1>2, <2>1, <2>2, <2>3, <2>4 DEF Stopping
<1>10. Untouched' /\ Searching'
  <2>1. step' \notin InitialSteps \cup {"plan"} /\ step' \notin SearchSteps \ {"query"}
    BY <1>6 DEF InitialSteps, SearchSteps
  <2>3. step' \in SearchSteps => AtField'
    BY <1>1, <1>2, <1>6, NextField DEF SearchSteps
  <2> QED  BY <2>1, <2>3 DEF Untouched, Searching
<1> QED  BY <1>5, <1>7, <1>8, <1>9, <1>10 DEF SearchInv

LEMMA NothingMore ==
  ASSUME IsSeq(results), UNCHANGED <<results, confirmable>>
  PROVE  ResultsGrow /\ ConfirmableGrows /\ ResultsAfter(Searched) = ResultsOf(Searched)
  BY DEF ResultsGrow, ConfirmableGrows, ResultsAfter, ResultsOf

LEMMA SearchStartQuery ==
  ASSUME SearchInv, ExhaustionInv, StartQuery
  PROVE  SearchInv'
<1>1. /\ step = "query" /\ step \in SearchSteps /\ IsSeq(stops) /\ IsSeq(results)
      /\ UNCHANGED <<plan, confirmable, results>>
  BY DEF StartQuery, SearchSteps, ExhaustionInv, SearchInv
<1>2. CASE plan = << >> /\ step' = "resolve" /\ UNCHANGED <<field, query, executed, current, stops>>
  <2>1. \A i \in DOMAIN stops : StopHolds(i)'
    BY <1>1, <1>2 DEF StopHolds, ResultsOf, SearchInv, Stopping
  <2>2. Planned' /\ (IsSeq(results))' /\ Counted' /\ QueryHonest'
    BY <1>1, <1>2 DEF SearchInv, Planned, Counted, QueryHonest
  <2>3. Stopping'
    BY <1>1, <1>2, <2>1 DEF SearchInv, Stopping
  <2>4. Untouched' /\ Searching'
    BY <1>1, <1>2 DEF Untouched, Searching, SearchSteps, InitialSteps
  <2> QED  BY <2>2, <2>3, <2>4 DEF SearchInv
<1>3. ASSUME plan # << >>
      PROVE  /\ AtField /\ executed \in 0 .. MaxTotalQueries /\ query \in Nat /\ query <= Queries[Searched] + 1
             /\ Cardinality(ResultsOf(Searched)) = query - 1 /\ Searched \notin confirmable
             /\ Queries[Searched] \in Nat
  <2>1. AtField /\ Planned
    BY <1>1, <1>3 DEF SearchInv, Searching
  <2>2. field \in 1 .. Len(plan) /\ Len(plan) \in Nat /\ DOMAIN plan = 1 .. Len(plan)
        /\ \A i \in DOMAIN plan : plan[i] \in ToSet(Fields)
    BY <2>1, SeqMembers DEF AtField, Planned
  <2>3. field \in field .. Len(plan) /\ field \in DOMAIN plan
    BY <2>2
  <2>4. Queries[Searched] \in Nat
    BY <2>2, <2>3, WorkflowAssumption DEF WorkflowAssumption, Searched
  <2>5. executed \in 0 .. MaxTotalQueries
    BY DEF SearchInv, Counted
  <2>6. query \in Nat /\ query <= Queries[Searched] + 1
    BY <1>1, <2>1 DEF AtField
  <2>7. Cardinality(ResultsOf(Searched)) = query - 1 /\ Searched \notin confirmable
    BY <2>1, <2>3 DEF AtField, Searched
  <2> QED  BY <2>1, <2>4, <2>5, <2>6, <2>7
<1>4. ResultsGrow /\ ConfirmableGrows /\ ResultsAfter(Searched) = ResultsOf(Searched)
  BY <1>1, NothingMore
<1>5. CASE plan # << >> /\ query > Queries[Searched] /\ EndField("query_limit", FALSE) /\ executed' = executed
  <2>1. Cardinality(ResultsAfter(Searched)) = Queries[Searched]
    <3>1. query - 1 = Queries[Searched]
      BY <1>3, <1>5
    <3> QED  BY <1>3, <1>4, <1>5, <3>1
  <2>2. ReasonHolds("query_limit", FALSE)
    BY <1>1, <1>3, <1>5, <2>1 DEF ReasonHolds
  <2> QED  BY <1>1, <1>4, <1>5, <2>2, SearchEnd
<1>6. CASE plan # << >> /\ executed >= MaxTotalQueries /\ EndField("global_query_limit", TRUE) /\ executed' = executed
  <2>1. executed = MaxTotalQueries
    BY <1>3, <1>6, WorkflowAssumption DEF WorkflowAssumption
  <2>2. ReasonHolds("global_query_limit", TRUE)
    BY <2>1 DEF ReasonHolds
  <2> QED  BY <1>1, <1>4, <1>6, <2>2, SearchEnd
<1>7. CASE plan # << >> /\ EndField("budget_exhausted", TRUE) /\ executed' = executed
  <2>1. ReasonHolds("budget_exhausted", TRUE)
    BY DEF ReasonHolds
  <2> QED  BY <1>1, <1>4, <1>7, <2>1, SearchEnd
<1>8. CASE /\ plan # << >> /\ query <= Queries[Searched] /\ executed < MaxTotalQueries
           /\ step' = "queryDiscovery" /\ UNCHANGED <<field, query, executed, current, stops>>
  <2>1. Counted' /\ QueryHonest'
    BY <1>3, <1>8 DEF Counted, QueryHonest, SearchInv
  <2>2. step' \in SearchSteps \ {"query"}
    BY <1>8 DEF SearchSteps
  <2> QED  BY <1>1, <1>8, <2>1, <2>2, SearchInside
<1> QED  BY <1>2, <1>5, <1>6, <1>7, <1>8 DEF StartQuery

(* Inside a query.                                                           *)
LEMMA InsideQuery ==
  ASSUME SearchInv, step \in SearchSteps \ {"query"}
  PROVE  plan # << >> /\ AtField /\ query <= Queries[Searched]
<1>1. AtField /\ plan # << >>
  BY DEF SearchInv, Searching
<1> QED  BY <1>1 DEF AtField

LEMMA SearchQuerySteps ==
  ASSUME SearchInv, DiscoverTargeted \/ ConsiderCandidate \/ FetchCandidate \/ ExtractCandidate,
         Counted', QueryHonest'
  PROVE  SearchInv'
<1>1. /\ step \in SearchSteps \ {"query"} /\ step' \in SearchSteps \ {"query"}
      /\ UNCHANGED <<plan, field, query, confirmable, results, stops>>
  <2>1. CASE DiscoverTargeted
    BY <2>1 DEF DiscoverTargeted, SearchSteps
  <2>2. CASE ConsiderCandidate
    BY <2>2 DEF ConsiderCandidate, SearchSteps
  <2>3. CASE FetchCandidate
    <3>1. step = "candidateFetch" /\ step' \in {"candidateExtract", "candidate", "account"}
          /\ UNCHANGED <<plan, field, query, confirmable, results, stops>>
      BY <2>3 DEF FetchCandidate
    <3> QED  BY <3>1 DEF SearchSteps
  <2>4. CASE ExtractCandidate
    <3>1. step = "candidateExtract" /\ step' \in {"candidate", "account"}
          /\ UNCHANGED <<plan, field, query, confirmable, results, stops>>
      BY <2>4 DEF ExtractCandidate
    <3> QED  BY <3>1 DEF SearchSteps
  <2> QED  BY <2>1, <2>2, <2>3, <2>4
<1> QED  BY <1>1, InsideQuery, SearchInside

LEMMA SearchDiscover ==
  ASSUME SearchInv, DiscoverTargeted
  PROVE  SearchInv'
<1>1. step = "queryDiscovery" /\ step' = "candidate" /\ executed' = executed + 1
  BY DEF DiscoverTargeted
<1>2. executed \in 0 .. MaxTotalQueries /\ executed < MaxTotalQueries /\ MaxTotalQueries \in Nat
  BY <1>1, WorkflowAssumption DEF SearchInv, Counted, WorkflowAssumption
<1>3. Counted'
  BY <1>1, <1>2 DEF Counted
<1>4. PICK outcome \in TargetedOutcomes :
        current' = [NoQuery EXCEPT !.status = outcome.status,
          !.candidates = [i \in {i \in DOMAIN outcome.candidates : i <= MaxCandidatesPerQuery}
                            |-> outcome.candidates[i]]]
  BY DEF DiscoverTargeted
<1>5. current'.stop = NoQuery.stop /\ current'.strong = NoQuery.strong
  BY <1>4, NoQueryRecord
<1>6. NoQuery.stop = None /\ ~NoQuery.strong
  BY DEF NoQuery
<1>7. QueryHonest'
  BY <1>5, <1>6 DEF QueryHonest
<1> QED  BY <1>3, <1>7, SearchQuerySteps

LEMMA CountedKept ==
  ASSUME SearchInv, executed' = executed, step' # "queryDiscovery"
  PROVE  Counted'
  BY DEF SearchInv, Counted

(* The query's record as it is, or with another stop reason.                 *)
LEMMA HonestKeptQuery ==
  ASSUME SearchInv,
         \/ current' = current
         \/ current'.stop = current.stop /\ current'.strong = current.strong /\ current'.facts = current.facts
  PROVE  QueryHonest'
<1>1. QueryHonest
  BY DEF SearchInv
<1> QED  BY <1>1 DEF QueryHonest

LEMMA HonestStopped ==
  ASSUME SearchInv, ExhaustionInv, NEW reason \in {"budget_exhausted", "candidate_limit"}, NEW global,
         current' = Stopped(reason, global)
  PROVE  QueryHonest'
<1>1. QueryHonest /\ DOMAIN current = DOMAIN NoQuery
  BY DEF SearchInv, ExhaustionInv
<1>2. current'.stop = reason /\ current'.strong = current.strong /\ current'.facts = current.facts
  BY <1>1, StoppedRecord
<1> QED  BY <1>1, <1>2 DEF QueryHonest

LEMMA SearchConsider ==
  ASSUME SearchInv, ExhaustionInv, ConsiderCandidate
  PROVE  SearchInv'
<1>1. /\ executed' = executed /\ step' # "queryDiscovery" /\ DOMAIN current = DOMAIN NoQuery
  BY DEF ConsiderCandidate, ExhaustionInv
<1>2. ASSUME current' = current PROVE QueryHonest'
  BY <1>2, HonestKeptQuery
<1>3. ASSUME current' = Stopped("budget_exhausted", TRUE) PROVE QueryHonest'
  BY <1>3, HonestStopped
<1>4. ASSUME current' = Stopped("candidate_limit", FALSE) PROVE QueryHonest'
  BY <1>4, HonestStopped
<1>5. ASSUME \/ current' = [current EXCEPT !.candidates = Tail(@)]
             \/ current' = [current EXCEPT !.accepted = @ + 1, !.domains = @ \cup {Host[Doc(Candidate)]}]
      PROVE  QueryHonest'
  <2>1. current'.stop = current.stop /\ current'.strong = current.strong /\ current'.facts = current.facts
    BY <1>1, <1>5, NoQueryRecord
  <2> QED  BY <2>1, HonestKeptQuery
<1>6. QueryHonest'
  BY <1>2, <1>3, <1>4, <1>5 DEF ConsiderCandidate
<1> QED  BY <1>1, <1>6, CountedKept, SearchQuerySteps

LEMMA SearchFetchCandidate ==
  ASSUME SearchInv, ExhaustionInv, FetchCandidate
  PROVE  SearchInv'
<1>1. /\ executed' = executed /\ step' # "queryDiscovery"
  BY DEF FetchCandidate
<1>2. DOMAIN current = DOMAIN NoQuery
  BY DEF ExhaustionInv
<1>3. ASSUME NEW views, NEW candidates, current' = [current EXCEPT !.views = views, !.candidates = candidates]
      PROVE  QueryHonest'
  <2>1. current'.stop = current.stop /\ current'.strong = current.strong /\ current'.facts = current.facts
    BY <1>2, <1>3, TakenRecord
  <2> QED  BY <2>1, HonestKeptQuery
<1>4. ASSUME current' = Stopped("budget_exhausted", TRUE) PROVE QueryHonest'
  BY <1>4, HonestStopped
<1>5. QueryHonest'
  BY <1>3, <1>4, FetchCandidateCases
<1> QED  BY <1>1, <1>5, CountedKept, SearchQuerySteps

LEMMA SearchExtractCandidate ==
  ASSUME SearchInv, ExhaustionInv, ExtractCandidate
  PROVE  SearchInv'
<1>1. /\ executed' = executed /\ step' # "queryDiscovery"
  BY DEF ExtractCandidate
<1>2. DOMAIN current = DOMAIN NoQuery /\ QueryHonest
  BY DEF ExhaustionInv, SearchInv
<1>3. ASSUME current'.stop = current.stop, NEW exact, current'.facts = current.facts \cup exact,
             current'.strong => current.strong \/ exact # {}
      PROVE  QueryHonest'
  <2>1. current'.strong => current'.facts # {}
    BY <1>2, <1>3 DEF QueryHonest
  <2> QED  BY <1>2, <1>3, <2>1 DEF QueryHonest
<1>4. ASSUME current' = Stopped("budget_exhausted", TRUE) PROVE QueryHonest'
  BY <1>4, HonestStopped
<1>5. QueryHonest'
  BY <1>2, <1>3, <1>4, ExtractCandidateCases
<1> QED  BY <1>1, <1>5, CountedKept, SearchQuerySteps

-----------------------------------------------------------------------------
(* The accounting of a query                                                *)

(* The result of the query is one more of the field's.                        *)
ResultAdded ==
  /\ Appended(results', results, [field |-> Searched, status |-> current.status,
                                  views |-> current.views, facts |-> current.facts])
  /\ IsSeq(results')

LEMMA AccountAdds ==
  ASSUME SearchInv, AccountQuery
  PROVE  /\ ResultAdded /\ ResultsGrow /\ ConfirmableGrows
         /\ ResultsAfter(Searched) = ResultsOf(Searched) \cup {Len(results) + 1}
         /\ Len(results) + 1 \notin ResultsOf(Searched)
         /\ results'[Len(results) + 1].facts = current.facts
<1> DEFINE r == [field |-> Searched, status |-> current.status, views |-> current.views, facts |-> current.facts]
           n == Len(results) + 1
<1>1. IsSeq(results) /\ results' = Append(results, r)
  BY DEF SearchInv, AccountQuery
<1>2. IsSeq(results') /\ Appended(results', results, r)
  BY <1>1, AppendSeq
<1>3. r.field = Searched /\ r.facts = current.facts
  OBVIOUS
<1>4. ResultAdded
  BY <1>2 DEF ResultAdded
<1> HIDE DEF r
<1>5. /\ DOMAIN results = 1 .. Len(results) /\ Len(results) \in Nat /\ DOMAIN results' = 1 .. Len(results) + 1
      /\ \A i \in DOMAIN results : results'[i] = results[i]
      /\ results'[n] = r
  BY <1>2 DEF Appended
<1>6. /\ n \in DOMAIN results' /\ n \notin DOMAIN results /\ DOMAIN results \subseteq DOMAIN results'
      /\ \A i \in DOMAIN results' : i \in DOMAIN results \/ i = n
  BY <1>5
<1> HIDE DEF n
<1>7. ResultsGrow
  BY <1>2, <1>3, <1>5, <1>6 DEF ResultsGrow
<1>8. ConfirmableGrows
  BY DEF ConfirmableGrows, AccountQuery
<1>9. ResultsAfter(Searched) = ResultsOf(Searched) \cup {n}
  <2>1. ASSUME NEW i \in ResultsAfter(Searched) PROVE i \in ResultsOf(Searched) \cup {n}
    BY <1>5, <1>6, <2>1 DEF ResultsAfter, ResultsOf
  <2>2. ASSUME NEW i \in ResultsOf(Searched) \cup {n} PROVE i \in ResultsAfter(Searched)
    BY <1>3, <1>5, <1>6, <2>2 DEF ResultsAfter, ResultsOf
  <2> QED  BY <2>1, <2>2
<1>10. n \notin ResultsOf(Searched) /\ results'[n].facts = current.facts
  BY <1>3, <1>5, <1>6 DEF ResultsOf
<1> QED  BY <1>4, <1>7, <1>8, <1>9, <1>10 DEF n

(* The next query of the field: one more of its queries has its result.      *)
LEMMA NextQuery ==
  ASSUME SearchInv, IsSeq(stops), plan # << >>, step = "account", AccountQuery, ~current.strong,
         query' = query + 1, current' = NoQuery, step' = "query", UNCHANGED <<field, stops, plan, executed>>
  PROVE  SearchInv'
<1>1. AtField /\ Planned /\ query <= Queries[Searched] /\ query \in Nat \ {0}
  <2>1. AtField /\ Planned /\ step # "query"
    BY DEF SearchInv, Searching, SearchSteps
  <2> QED  BY <2>1 DEF AtField
<1>2. /\ ResultsGrow
      /\ ResultsAfter(Searched) = ResultsOf(Searched) \cup {Len(results) + 1}
      /\ Len(results) + 1 \notin ResultsOf(Searched)
  BY AccountAdds
<1>3. confirmable' = confirmable
  BY DEF AccountQuery
<1>4. Cardinality(ResultsAfter(Searched)) = query
  <2>1. DOMAIN results = 1 .. Len(results) /\ Len(results) \in Nat
    BY SeqMembers DEF SearchInv, IsSeq
  <2>2. IsFiniteSet(DOMAIN results)
    BY <2>1, FS_Interval
  <2>3. ResultsOf(Searched) \subseteq DOMAIN results
    BY DEF ResultsOf
  <2>4. IsFiniteSet(ResultsOf(Searched))
    BY <2>2, <2>3, FS_Subset
  <2>5. Cardinality(ResultsAfter(Searched)) = Cardinality(ResultsOf(Searched)) + 1
    BY <1>2, <2>4, FS_AddElement
  <2>6. Cardinality(ResultsOf(Searched)) = query - 1
    BY <1>1 DEF AtField
  <2> QED  BY <1>1, <2>5, <2>6
<1>5. Queries[Searched] \in Nat
  <2>1. field \in 1 .. Len(plan) /\ Len(plan) \in Nat /\ DOMAIN plan = 1 .. Len(plan)
        /\ \A i \in DOMAIN plan : plan[i] \in ToSet(Fields)
    BY <1>1, SeqMembers DEF AtField, Planned
  <2> QED  BY <2>1, WorkflowAssumption DEF WorkflowAssumption, Searched
<1>6. AtField'
  <2>1. Searched' = Searched
    BY DEF Searched
  <2>2. ResultsOf(Searched)' = ResultsAfter(Searched)
    BY <2>1 DEF ResultsOf, ResultsAfter
  <2>3. Cardinality(ResultsOf(Searched)') = query' - 1
    BY <1>1, <1>4, <2>2
  <2>4. query' \in Nat \ {0} /\ query' <= Queries[Searched] + 1
    BY <1>1, <1>5
  <2>5. field' \in 1 .. Len(plan') /\ Len(stops') = field' - 1 /\ (\A i \in DOMAIN stops' : ~stops'[i].global)
        /\ \A k \in field' .. Len(plan') : plan'[k] \notin confirmable'
    BY <1>1, <1>3 DEF AtField
  <2>6. \A i \in DOMAIN results' : \E k \in 1 .. field' : results'[i].field = plan'[k]
    <3> SUFFICES ASSUME NEW i \in DOMAIN results' PROVE \E k \in 1 .. field : results'[i].field = plan[k]
      OBVIOUS
    <3>1. CASE i \in DOMAIN results
      BY <1>1, <1>2, <3>1 DEF AtField, ResultsGrow
    <3>2. CASE results'[i].field = Searched
      <4>1. field \in 1 .. field
        BY <1>1 DEF AtField
      <4> QED  BY <3>2, <4>1 DEF Searched
    <3> QED  BY <1>2, <3>1, <3>2 DEF ResultsGrow
  <2> QED  BY <2>1, <2>3, <2>4, <2>5, <2>6 DEF AtField
<1>7. ASSUME NEW i \in DOMAIN stops PROVE StopHolds(i)'
  <2>1. StopHolds(i) /\ ~stops[i].global
    BY <1>1 DEF SearchInv, Stopping, AtField
  <2>2. /\ stops[i].field = plan[i] /\ i \in DOMAIN plan /\ field \in DOMAIN plan /\ i # field
    <3>1. DOMAIN stops = 1 .. Len(stops)
      BY SeqMembers DEF IsSeq
    <3>2. Len(stops) = field - 1 /\ field \in 1 .. Len(plan) /\ DOMAIN plan = 1 .. Len(plan) /\ Len(plan) \in Nat
      BY <1>1, SeqMembers DEF AtField, Planned
    <3> QED  BY <2>1, <3>1, <3>2 DEF StopHolds
  <2>3. stops[i].field # Searched
    BY <1>1, <2>2 DEF Planned, Searched
  <2>4. ResultsAfter(stops[i].field) = ResultsOf(stops[i].field)
    BY <1>2, <2>3, OtherResults
  <2>5. ASSUME NEW r \in ResultsOf(stops[i].field), results[r].facts # {}
        PROVE  results'[r].facts # {}
    BY <1>2, <2>5 DEF ResultsGrow, ResultsOf
  <2>6. \/ stops[i].reason # "query_limit" \/ Cardinality(ResultsAfter(stops'[i].field)) = Queries[stops'[i].field]
    BY <2>1, <2>4 DEF StopHolds
  <2>7. \/ stops[i].reason # "strong_official_evidence"
        \/ \E r \in ResultsAfter(stops'[i].field) : results'[r].facts # {}
    BY <2>1, <2>4, <2>5 DEF StopHolds
  <2>8. /\ stops[i].reason # "global_query_limit"
        /\ stops[i].reason \in {"query_limit", "candidate_limit"} => stops[i].field \notin confirmable'
    BY <1>3, <2>1 DEF StopHolds
  <2> QED  BY <2>1, <2>2, <2>6, <2>7, <2>8 DEF StopHolds, ResultsOf, ResultsAfter
<1>8. Planned' /\ (IsSeq(results))'
  BY <1>1, <1>2 DEF Planned, ResultsGrow
<1>9. Stopping'
  <2>1. Len(stops) <= Len(plan)
    BY DEF SearchInv, Stopping
  <2> QED  BY <1>7, <2>1 DEF Stopping
<1>10. Untouched' /\ Searching'
  BY <1>6 DEF Untouched, Searching, InitialSteps, SearchSteps
<1>11. QueryHonest'
  BY DEF QueryHonest, NoQuery, None
<1> QED  BY <1>8, <1>9, <1>10, <1>11, CountedKept DEF SearchInv

LEMMA SearchAccount ==
  ASSUME SearchInv, ExhaustionInv, AccountQuery
  PROVE  SearchInv'
<1>1. /\ step = "account" /\ step \in SearchSteps /\ step \in SearchSteps \ {"query"} /\ IsSeq(stops)
      /\ plan' = plan /\ executed' = executed
  BY DEF AccountQuery, SearchSteps, ExhaustionInv
<1>2. AtField /\ plan # << >>
  BY <1>1, InsideQuery
<1>3. /\ ResultsGrow /\ ConfirmableGrows
      /\ ResultsAfter(Searched) = ResultsOf(Searched) \cup {Len(results) + 1}
      /\ results'[Len(results) + 1].facts = current.facts
  BY AccountAdds
<1>4. QueryHonest
  BY DEF SearchInv
<1>5. ASSUME NEW reason, NEW global, EndField(reason, global), ReasonHolds(reason, global)
      PROVE  SearchInv'
  BY <1>1, <1>2, <1>3, <1>5, SearchEnd
<1>6. CASE EndField(DiscoveryFailed, current.global)
  <2>1. DiscoveryFailed \in {"discovery_blocked", "discovery_error"}
    BY DEF DiscoveryFailed
  <2>2. ReasonHolds(DiscoveryFailed, current.global)
    BY <2>1 DEF ReasonHolds
  <2> QED  BY <1>5, <1>6, <2>2
<1>7. CASE current.strong /\ EndField("strong_official_evidence", current.global)
  <2>1. Len(results) + 1 \in ResultsAfter(Searched) /\ results'[Len(results) + 1].facts # {}
    BY <1>3, <1>4, <1>7 DEF QueryHonest
  <2>2. ReasonHolds("strong_official_evidence", current.global)
    BY <2>1 DEF ReasonHolds
  <2> QED  BY <1>5, <1>7, <2>2
<1>8. CASE ~current.strong /\ current.stop # None /\ EndField(current.stop, current.global)
  <2>1. current.stop \in {"budget_exhausted", "candidate_limit"}
    BY <1>4, <1>8 DEF QueryHonest
  <2>2. Searched \notin confirmable'
    <3>1. Searched \notin confirmable
      <4>1. field \in field .. Len(plan)
        BY <1>2 DEF AtField
      <4> QED  BY <1>2, <4>1 DEF AtField, Searched
    <3>2. confirmable' = confirmable
      BY <1>8 DEF AccountQuery
    <3> QED  BY <3>1, <3>2
  <2>3. ReasonHolds(current.stop, current.global)
    BY <2>1, <2>2 DEF ReasonHolds
  <2> QED  BY <1>5, <1>8, <2>3
<1>9. ASSUME NEW n \in 1 .. 5, EndField(StreakOrder[n], TRUE) PROVE SearchInv'
  <2>1. StreakOrder[n] \in Streaks
    BY StreakReasons
  <2>2. ReasonHolds(StreakOrder[n], TRUE)
    BY <2>1 DEF ReasonHolds, Streaks
  <2> QED  BY <1>5, <1>9, <2>2
<1>10. CASE /\ ~current.strong /\ current.stop = None
            /\ query' = query + 1 /\ current' = NoQuery /\ step' = "query" /\ UNCHANGED <<field, stops>>
  BY <1>1, <1>2, <1>10, NextQuery
<1> QED  BY <1>6, <1>7, <1>8, <1>9, <1>10, AccountCases

LEMMA SearchValidate ==
  ASSUME SearchInv, Validate
  PROVE  SearchInv'
<1>1. /\ step = "resolve" /\ step' = "done"
      /\ UNCHANGED <<plan, field, query, executed, confirmable, current, results, stops>>
  BY DEF Validate, targetedVars
<1>2. \A i \in DOMAIN stops : StopHolds(i) => StopHolds(i)'
  BY <1>1 DEF StopHolds, ResultsOf
<1>3. Stopping'
  BY <1>1, <1>2 DEF SearchInv, Stopping
<1>4. Untouched' /\ Searching'
  BY <1>1 DEF Untouched, Searching, InitialSteps, SearchSteps
<1> QED  BY <1>1, <1>3, <1>4 DEF SearchInv, Planned, Counted, QueryHonest

LEMMA SearchKept ==
  ASSUME SearchInv, ExhaustionInv, [WorkflowNext]_workflowVars
  PROVE  SearchInv'
<1>1. CASE TimePasses
  <2>1. UNCHANGED <<step, targetedVars>>
    BY <1>1 DEF TimePasses
  <2> QED  BY <2>1, SearchTimePasses
<1>2. CASE Finished \/ UNCHANGED workflowVars
  <2>1. UNCHANGED <<step, targetedVars>>
    BY <1>2 DEF Finished, workflowVars
  <2> QED  BY <2>1, SearchTimePasses
<1>3. CASE DiscoverInitial \/ TakeFromQueue \/ FetchInitial \/ ExtractInitial
  <2>1. UNCHANGED targetedVars
    BY <1>3 DEF DiscoverInitial, TakeFromQueue, FetchInitial, ExtractInitial
  <2>2. step \in InitialSteps /\ step' \in InitialSteps \cup {"plan"}
    BY <1>3 DEF DiscoverInitial, TakeFromQueue, FetchInitial, ExtractInitial, InitialSteps
  <2> QED  BY <2>1, <2>2, SearchInitial
<1> QED  BY <1>1, <1>2, <1>3, SearchPlanned, SearchStartQuery, SearchDiscover, SearchConsider,
         SearchFetchCandidate, SearchExtractCandidate, SearchAccount, SearchValidate DEF WorkflowNext

LEMMA SearchInvariance == WorkflowSpec => []SearchInv
<1> QED  BY SearchStart, SearchKept, ExhaustionInvariance, PTL DEF WorkflowSpec

(* A targeted search ends for the reason it gives, field by field, and       *)
(* leaves out no planned field unless the last one stopped it globally.      *)
THEOREM StopsHonest == WorkflowSpec => []StopIsHonest
<1>1. ASSUME SearchInv PROVE StopIsHonest
  <2>1. \A i \in DOMAIN stops : StopHolds(i)
    BY <1>1 DEF SearchInv, Stopping
  <2>2. step = "resolve" /\ plan # << >> => stops # << >> /\ (Len(stops) = Len(plan) \/ Last(stops).global)
    BY <1>1 DEF SearchInv, Stopping
  <2> QED  BY <2>1, <2>2 DEF StopIsHonest, StopHolds
<1> QED  BY <1>1, SearchInvariance, PTL

-----------------------------------------------------------------------------
(* Types                                                                    *)

InQuery == {"candidate", "candidateFetch", "candidateExtract", "account"}

(* What the other parts of the invariant leave open.                          *)
Places ==
  /\ step \in InitialSteps \cup SearchSteps \cup {"plan", "resolve", "done"}
  /\ enabled \in BOOLEAN /\ remaining \in 0 .. Total
PagesRemembered == DOMAIN pageCache = Docs /\ \A d \in Docs : pageCache[d] # NoResult => cache[d] # NoResult
Tallies ==
  /\ inspected \in 0 .. MaxCandidatesPerField
  /\ streaks \in [Streaks -> Nat]
  /\ covered \subseteq ToSet(plan) /\ confirmable \subseteq covered
  /\ step \in InitialSteps \cup {"plan"} => covered = {}
  /\ Len(results) + (IF step \in InQuery THEN 1 ELSE 0) <= executed
TypeInv == Places /\ PagesRemembered /\ Tallies

LEMMA TypeStart == WorkflowInit => TypeInv
<1> SUFFICES ASSUME WorkflowInit PROVE TypeInv
  OBVIOUS
<1>1. Places
  BY WorkflowAssumption DEF WorkflowInit, WorkflowAssumption, Places, InitialSteps
<1>2. PagesRemembered
  BY DEF WorkflowInit, PagesRemembered
<1>3. Tallies
  BY WorkflowAssumption DEF WorkflowInit, WorkflowAssumption, Tallies, InQuery
<1> QED  BY <1>1, <1>2, <1>3 DEF TypeInv

LEMMA PlacesKept ==
  ASSUME Places, [WorkflowNext]_workflowVars
  PROVE  Places'
<1>1. ASSUME enabled' = enabled, remaining' = remaining,
             step' = step \/ step' \in InitialSteps \cup SearchSteps \cup {"plan", "resolve", "done"}
      PROVE  Places'
  BY <1>1 DEF Places
<1>2. CASE TimePasses
  BY <1>2, WorkflowAssumption DEF TimePasses, Places, WorkflowAssumption
<1> USE DEF InitialSteps, SearchSteps, budgetVars, MarkExhausted
<1>3. CASE DiscoverInitial \/ TakeFromQueue \/ ExtractInitial \/ PlanTargetedSearch
  BY <1>1, <1>3 DEF DiscoverInitial, TakeFromQueue, ExtractInitial, PlanTargetedSearch
<1>4. CASE FetchInitial
  <2>1. remaining' = remaining /\ step' \in {"plan", "extract", "queue"} /\ enabled' = enabled
    BY <1>4 DEF FetchInitial, FetchRefused
  <2> QED  BY <1>1, <2>1
<1>5. CASE StartQuery
  <2>1. remaining' = remaining /\ enabled' = enabled /\ step' \in {"resolve", "query", "queryDiscovery"}
    BY <1>5 DEF StartQuery, EndField
  <2> QED  BY <1>1, <2>1
<1>6. CASE DiscoverTargeted \/ ConsiderCandidate
  BY <1>1, <1>6 DEF DiscoverTargeted, ConsiderCandidate
<1>7. CASE FetchCandidate
  <2>1. remaining' = remaining /\ enabled' = enabled /\ step' \in {"candidateExtract", "candidate", "account"}
    BY <1>7 DEF FetchCandidate, FetchRefused
  <2> QED  BY <1>1, <2>1
<1>8. CASE ExtractCandidate
  <2>1. remaining' = remaining /\ enabled' = enabled /\ step' \in {"candidate", "account"}
    BY <1>8 DEF ExtractCandidate
  <2> QED  BY <1>1, <2>1
<1>9. CASE AccountQuery
  <2>1. remaining' = remaining /\ enabled' = enabled /\ step' \in {"resolve", "query"}
    BY <1>9 DEF AccountQuery, EndField
  <2> QED  BY <1>1, <2>1
<1>10. CASE Validate
  BY <1>1, <1>10 DEF Validate
<1>11. CASE Finished \/ UNCHANGED workflowVars
  BY <1>1, <1>11 DEF Finished, workflowVars
<1> QED  BY <1>2, <1>3, <1>4, <1>5, <1>6, <1>7, <1>8, <1>9, <1>10, <1>11 DEF WorkflowNext

LEMMA PagesKept ==
  ASSUME PagesRemembered, Remembered, [WorkflowNext]_workflowVars
  PROVE  PagesRemembered'
<1>1. ASSUME UNCHANGED <<pageCache, cache>> PROVE PagesRemembered'
  BY <1>1 DEF PagesRemembered
<1>2. ASSUME NEW c, NEW page \in {cache[Doc(c)]} \cup TransportResults(c.url), FetchOnce(c, page),
             \/ pageCache' = pageCache
             \/ \E v : pageCache' = [pageCache EXCEPT ![Doc(c)] = v]
      PROVE  PagesRemembered'
  <2>1. /\ \A d \in Docs : cache[d] # NoResult => cache'[d] # NoResult
        /\ Doc(c) \in Docs => cache'[Doc(c)] # NoResult
    BY <1>2, FetchOnceRemembers
  <2>2. DOMAIN pageCache' = Docs /\ \A d \in Docs : pageCache'[d] = pageCache[d] \/ d = Doc(c)
    BY <1>2 DEF PagesRemembered
  <2> QED  BY <2>1, <2>2 DEF PagesRemembered, Docs
<1>3. CASE FetchInitial
  <2>1. pageCache' = pageCache
    BY <1>3 DEF FetchInitial, targetedVars
  <2>2. CASE FetchRefused(queue[at])
    BY <1>1, <2>1, <2>2 DEF FetchRefused, fetchVars
  <2>3. CASE \E page \in {cache[Doc(queue[at])]} \cup TransportResults(queue[at].url) :
               FetchOnce(queue[at], page)
    BY <1>2, <2>1, <2>3
  <2> QED  BY <1>3, <2>2, <2>3 DEF FetchInitial
<1>4. CASE FetchCandidate
  <2>1. \/ /\ pageCache[Doc(Candidate)] # NoResult /\ UNCHANGED fetchVars
           /\ pageCache' = [pageCache EXCEPT ![Doc(Candidate)] = pageCache[Doc(Candidate)]]
        \/ \E page \in {cache[Doc(Candidate)]} \cup TransportResults(Candidate.url) :
             FetchOnce(Candidate, page) /\ \E v : pageCache' = [pageCache EXCEPT ![Doc(Candidate)] = v]
        \/ FetchRefused(Candidate) /\ UNCHANGED pageCache
    BY <1>4 DEF FetchCandidate
  <2>2. CASE /\ UNCHANGED fetchVars
             /\ pageCache' = [pageCache EXCEPT ![Doc(Candidate)] = pageCache[Doc(Candidate)]]
    BY <2>2 DEF PagesRemembered, fetchVars
  <2>3. CASE FetchRefused(Candidate) /\ UNCHANGED pageCache
    BY <1>1, <2>3 DEF FetchRefused, fetchVars
  <2> QED  BY <1>2, <2>1, <2>2, <2>3
<1>5. ASSUME \/ TimePasses \/ DiscoverInitial \/ TakeFromQueue \/ ExtractInitial \/ PlanTargetedSearch
             \/ StartQuery \/ DiscoverTargeted \/ ConsiderCandidate \/ ExtractCandidate
             \/ AccountQuery \/ Validate \/ Finished \/ UNCHANGED workflowVars
      PROVE  UNCHANGED <<pageCache, cache>>
  BY <1>5 DEF TimePasses, DiscoverInitial, TakeFromQueue, ExtractInitial, PlanTargetedSearch, StartQuery,
     DiscoverTargeted, ConsiderCandidate, ExtractCandidate, AccountQuery, Validate, Finished, workflowVars,
     fetchVars, targetedVars
<1> QED  BY <1>1, <1>3, <1>4, <1>5 DEF WorkflowNext

LEMMA TalliesOfAccount ==
  ASSUME Tallies, SearchInv, AccountQuery
  PROVE  Tallies'
<1>1. /\ step = "account" /\ step \in InQuery /\ step \in SearchSteps \ {"query"}
      /\ plan' = plan /\ executed' = executed
  BY DEF AccountQuery, InQuery, SearchSteps
<1>2. AtField /\ Planned
  BY <1>1, InsideQuery DEF SearchInv
<1>3. Searched \in ToSet(plan)
  <2>1. field \in DOMAIN plan /\ \A i \in DOMAIN plan : plan[i] \in ToSet(plan)
    BY <1>2, SeqMembers DEF AtField, Planned, ToSet
  <2> QED  BY <2>1 DEF Searched
<1>4. covered' \subseteq ToSet(plan) /\ confirmable' \subseteq covered'
  <2>1. /\ covered' = IF current.facts # {} THEN covered \cup {Searched} ELSE covered
        /\ confirmable' = IF current.strong THEN confirmable \cup {Searched} ELSE confirmable
    BY DEF AccountQuery
  <2>2. current.strong => current.facts # {}
    BY DEF SearchInv, QueryHonest
  <2> QED  BY <1>3, <2>1, <2>2 DEF Tallies
<1>5. Len(results') = Len(results) + 1 /\ Len(results) \in Nat
  <2>1. Appended(results', results, [field |-> Searched, status |-> current.status,
                                     views |-> current.views, facts |-> current.facts])
    BY AccountAdds DEF ResultAdded
  <2> QED  BY <2>1 DEF Appended
<1>6. step' \in {"query", "resolve"} /\ (inspected' = 0 \/ inspected' = inspected)
  BY DEF AccountQuery, EndField
<1>7. streaks' \in [Streaks -> Nat]
  <2>1. \/ streaks' = streaks
        \/ streaks' = [s \in Streaks |-> IF UselessIn(s) THEN streaks[s] + 1 ELSE 0]
    BY DEF AccountQuery
  <2>2. CASE streaks' = [s \in Streaks |-> IF UselessIn(s) THEN streaks[s] + 1 ELSE 0]
    <3>1. \A s \in Streaks : streaks[s] + 1 \in Nat
      BY DEF Tallies
    <3> QED  BY <2>2, <3>1
  <2> QED  BY <2>1, <2>2 DEF Tallies
<1>8. inspected' \in 0 .. MaxCandidatesPerField
  BY <1>6, WorkflowAssumption DEF Tallies, WorkflowAssumption
<1>9. step' \notin InQuery /\ step' \notin InitialSteps \cup {"plan"}
  BY <1>6 DEF InQuery, InitialSteps
<1>10. Len(results') <= executed'
  BY <1>1, <1>5 DEF Tallies
<1> QED  BY <1>1, <1>4, <1>7, <1>8, <1>9, <1>10 DEF Tallies

LEMMA TalliesKept ==
  ASSUME Tallies, SearchInv, ExhaustionInv, [WorkflowNext]_workflowVars
  PROVE  Tallies'
<1>1. executed \in Nat /\ Len(results) \in Nat /\ MaxCandidatesPerField \in Nat /\ inspected \in Nat
  BY SeqMembers, WorkflowAssumption DEF SearchInv, Counted, IsSeq, WorkflowAssumption, Tallies
<1>2. ASSUME UNCHANGED <<streaks, covered, confirmable, results, plan>>, executed' = executed,
             inspected' \in 0 .. MaxCandidatesPerField, step' \in InQuery => step \in InQuery,
             step' \in InitialSteps \cup {"plan"} => step \in InitialSteps \cup {"plan"}
      PROVE  Tallies'
  <2>1. Len(results') + (IF step' \in InQuery THEN 1 ELSE 0) <= executed'
    BY <1>1, <1>2 DEF Tallies
  <2> QED  BY <1>2, <2>1 DEF Tallies
<1>3. CASE \/ TimePasses \/ DiscoverInitial \/ TakeFromQueue \/ FetchInitial \/ ExtractInitial \/ Validate
           \/ Finished \/ UNCHANGED workflowVars
  <2>1. UNCHANGED targetedVars
    BY <1>3 DEF TimePasses, DiscoverInitial, TakeFromQueue, FetchInitial, ExtractInitial, Validate,
       Finished, workflowVars
  <2>2. step' = step \/ (step \in InitialSteps /\ step' \notin InQuery) \/ step' = "done"
    BY <1>3 DEF TimePasses, DiscoverInitial, TakeFromQueue, FetchInitial, ExtractInitial, Validate,
       Finished, workflowVars, InitialSteps, InQuery
  <2>3. /\ UNCHANGED <<streaks, covered, confirmable, results, plan>> /\ executed' = executed
        /\ inspected' = inspected
    BY <2>1 DEF targetedVars
  <2>4. inspected' \in 0 .. MaxCandidatesPerField
    BY <2>3 DEF Tallies
  <2> QED  BY <1>2, <2>2, <2>3, <2>4 DEF InitialSteps, InQuery
<1>4. CASE PlanTargetedSearch
  <2>1. /\ step = "plan" /\ step' \in {"query", "resolve"}
        /\ UNCHANGED <<streaks, covered, confirmable, results, executed, inspected>>
    BY <1>4 DEF PlanTargetedSearch
  <2>2. covered = {} /\ confirmable = {}
    BY <2>1 DEF Tallies
  <2>3. step' \notin InQuery /\ step' \notin InitialSteps \cup {"plan"} /\ step \notin InQuery
    BY <2>1 DEF InQuery, InitialSteps
  <2> QED  BY <2>1, <2>2, <2>3 DEF Tallies
<1>5. CASE StartQuery
  <2>1. /\ step = "query" /\ step' \in {"resolve", "query", "queryDiscovery"} /\ executed' = executed
        /\ UNCHANGED <<streaks, covered, confirmable, results, plan>> /\ (inspected' = 0 \/ inspected' = inspected)
    BY <1>5 DEF StartQuery, EndField
  <2>2. inspected' \in 0 .. MaxCandidatesPerField
    BY <1>1, <2>1 DEF Tallies
  <2> QED  BY <1>2, <2>1, <2>2 DEF InQuery, InitialSteps
<1>6. CASE DiscoverTargeted
  <2>1. /\ step = "queryDiscovery" /\ step' = "candidate" /\ executed' = executed + 1
        /\ UNCHANGED <<streaks, covered, confirmable, results, plan, inspected>>
    BY <1>6 DEF DiscoverTargeted
  <2>2. step \notin InQuery /\ step' \in InQuery /\ step' \notin InitialSteps \cup {"plan"}
    BY <2>1 DEF InQuery, InitialSteps
  <2>3. Len(results') + 1 <= executed'
    BY <1>1, <2>1, <2>2 DEF Tallies
  <2> QED  BY <2>1, <2>2, <2>3 DEF Tallies
<1>7. CASE ConsiderCandidate
  <2>1. /\ step = "candidate" /\ step' \in {"account", "candidate", "candidateFetch"} /\ executed' = executed
        /\ UNCHANGED <<streaks, covered, confirmable, results, plan>>
        /\ (inspected' = inspected \/ (inspected < MaxCandidatesPerField /\ inspected' = inspected + 1))
    BY <1>7 DEF ConsiderCandidate
  <2>2. inspected' \in 0 .. MaxCandidatesPerField
    BY <1>1, <2>1 DEF Tallies
  <2> QED  BY <1>2, <2>1, <2>2 DEF InQuery, InitialSteps
<1>8. CASE FetchCandidate \/ ExtractCandidate
  <2>1. /\ step \in {"candidateFetch", "candidateExtract"} /\ step' \in {"account", "candidate", "candidateExtract"}
        /\ executed' = executed /\ inspected' = inspected
        /\ UNCHANGED <<streaks, covered, confirmable, results, plan>>
    BY <1>8 DEF FetchCandidate, ExtractCandidate
  <2>2. inspected' \in 0 .. MaxCandidatesPerField
    BY <2>1 DEF Tallies
  <2> QED  BY <1>2, <2>1, <2>2 DEF InQuery, InitialSteps
<1> QED  BY <1>3, <1>4, <1>5, <1>6, <1>7, <1>8, TalliesOfAccount DEF WorkflowNext

LEMMA TypeInvariance == WorkflowSpec => []TypeInv
<1>1. ASSUME TypeInv, Remembered, SearchInv, ExhaustionInv, [WorkflowNext]_workflowVars PROVE TypeInv'
  BY <1>1, PlacesKept, PagesKept, TalliesKept DEF TypeInv
<1> QED  BY <1>1, TypeStart, RememberedInvariance, SearchInvariance, ExhaustionInvariance, PTL DEF WorkflowSpec

(* Type correctness, with the caches: a page the targeted search remembers was *)
(* requested, and every query whose result is kept was executed.             *)
THEOREM WorkflowTypeCorrect == WorkflowSpec => []WorkflowTypeOK
<1>1. ASSUME TypeInv, Remembered, QueueInv, ExhaustionInv, SearchInv PROVE WorkflowTypeOK
  <2>1. /\ step \in {"discovery", "queue", "fetch", "extract", "plan", "query", "queryDiscovery",
                    "candidate", "candidateFetch", "candidateExtract", "account", "resolve", "done"}
        /\ enabled \in BOOLEAN /\ remaining \in 0 .. Total
    BY <1>1 DEF TypeInv, Places, InitialSteps, SearchSteps
  <2>2. exhaustedStage \in {None, "initial_discovery", "initial_fetch", "initial_extraction",
          "fetch", "targeted_search", "targeted_discovery", "targeted_fetch", "targeted_extraction"}
    BY <1>1 DEF ExhaustionInv, InitialStages, TargetedStages
  <2>3. /\ at \in 1 .. Len(queue) + 1 /\ queued = {Doc(queue[i]) : i \in DOMAIN queue}
        /\ Len(sources) < at + 1 /\ extracted \subseteq DOMAIN sources
    <3>1. /\ at \in Nat \ {0} /\ at <= Len(queue) + 1 /\ queue \in Seq(Candidates)
          /\ Len(sources) = (IF step = "extract" THEN at ELSE at - 1)
      BY <1>1 DEF QueueInv, Distinct
    <3>2. Len(queue) \in Nat
      BY <3>1
    <3>3. at \in 1 .. Len(queue) + 1 /\ Len(sources) < at + 1
      BY <3>1, <3>2
    <3> QED  BY <1>1, <3>3 DEF QueueInv, ExhaustionInv
  <2>4. \A d \in Docs : requests[d] \in Nat /\ (cache[d] # NoResult => requests[d] > 0)
    BY <1>1 DEF Remembered
  <2>5. \A d \in Docs : pageCache[d] # NoResult => cache[d] # NoResult
    BY <1>1 DEF TypeInv, PagesRemembered
  <2>6. /\ inspected \in 0 .. MaxCandidatesPerField /\ streaks \in [Streaks -> Nat]
        /\ covered \cup confirmable \subseteq ToSet(plan) /\ confirmable \subseteq covered
    BY <1>1 DEF TypeInv, Tallies
  <2>7. executed \in 0 .. MaxTotalQueries /\ Len(stops) <= Len(plan)
    BY <1>1 DEF SearchInv, Counted, Stopping
  <2>8. Len(results) <= executed
    <3>1. Len(results) \in Nat /\ executed \in Int
      BY <1>1, <2>7, SeqMembers DEF SearchInv, IsSeq
    <3> QED  BY <1>1, <3>1 DEF TypeInv, Tallies
  <2> QED  BY <2>1, <2>2, <2>3, <2>4, <2>5, <2>6, <2>7, <2>8 DEF WorkflowTypeOK
<1> QED  BY <1>1, TypeInvariance, RememberedInvariance, QueueInvariance, ExhaustionInvariance, SearchInvariance, PTL

-----------------------------------------------------------------------------
(* Identities that were withdrawn                                           *)

ViewFields == {"url", "final", "status", "says", "meta", "rejected"}
ClaimFields == {"type", "authority", "relation", "relevance"}

(* Each source is the view of what its candidate's own URL was answered.      *)
SourcesInv ==
  \A i \in DOMAIN sources : \E page, c : page.url = c.url /\ sources[i] = FetchOnceView(page, c)

ProfileInv ==
  step = "done" => \A f \in ToSet(Fields) : \A fact \in Confirming(f) : Eligible(fact)

(* The view of a transport result says whether its identity was withdrawn.   *)
LEMMA ViewWithdrawn ==
  ASSUME NEW page, NEW c
  PROVE  LET v == FetchOnceView(page, c)
             away == /\ page.status = "success" /\ IsOfficial(c)
                     /\ PathKey[c.url] # PathKey[page.final] /\ page.final \notin PagesNaming
         IN /\ DOMAIN v = ViewFields /\ DOMAIN v.meta = ClaimFields
            /\ IsOfficial(v.says) <=> IsOfficial(c)
            /\ v.rejected <=> away
            /\ away => v.meta.relation = "unknown"
<1>. DEFINE Kept(v) == /\ DOMAIN v = ViewFields /\ DOMAIN v.meta = ClaimFields /\ DOMAIN v.says = ClaimFields
                       /\ v.says.type = c.type /\ v.says.authority = c.authority
                       /\ v.final = page.final /\ v.status = page.status /\ v.rejected = FALSE
            away == /\ page.status = "success" /\ IsOfficial(c)
                    /\ PathKey[c.url] # PathKey[page.final] /\ page.final \notin PagesNaming
            a == CandidateFetchView(page, c)
            b == VerifyFetchedIdentity(a, c)
            r == RejectRedirectedOfficialIdentity(b, c)
<1>1. Kept(a)
  BY DEF CandidateFetchView, Claim, ViewFields, ClaimFields
<1>2. Kept(b)
  <2>1. CASE b = a
    <3>. HIDE DEF a, b
    <3>. QED BY <1>1, <2>1
  <2>2. CASE b = [a EXCEPT !.says = Identified(@, "same_base_model", "exact_base_model"),
                           !.meta = Identified(@, "same_base_model", "exact_base_model")]
    <3>. HIDE DEF a, b
    <3>. QED BY <1>1, <2>2 DEF Identified, ViewFields, ClaimFields
  <2>. QED BY <2>1, <2>2 DEF VerifyFetchedIdentity
<1>3. RedirectedAway(b, c) <=> away
  <2>. HIDE DEF b
  <2>. QED BY <1>2 DEF RedirectedAway
<1>4. CASE ~away
  <2>1. r = b
    <3>. HIDE DEF b, away
    <3>. QED BY <1>3, <1>4 DEF RejectRedirectedOfficialIdentity
  <2>2. FetchOnceView(page, c) = r
    BY DEF FetchOnceView
  <2>. HIDE DEF b, r
  <2>. QED BY <1>2, <1>4, <2>1, <2>2 DEF IsOfficial
<1>5. CASE away
  <2>1. r = [b EXCEPT !.says = Identified(@, "unknown", "unknown"), !.meta = Identified(@, "unknown", "unknown"),
                      !.rejected = TRUE]
    <3>. HIDE DEF b, away
    <3>. QED BY <1>3, <1>5 DEF RejectRedirectedOfficialIdentity
  <2>2. /\ DOMAIN r = ViewFields /\ DOMAIN r.meta = ClaimFields /\ r.rejected = TRUE
        /\ r.meta.relation = "unknown" /\ r.says.type = c.type /\ r.says.authority = c.authority
    <3>. HIDE DEF b, r
    <3>. QED BY <1>2, <2>1 DEF Identified, ViewFields, ClaimFields
  <2>3. FetchOnceView(page, c) = r
    BY DEF FetchOnceView
  <2>. HIDE DEF r
  <2>. QED BY <1>5, <2>2, <2>3 DEF IsOfficial
<1>. QED BY <1>4, <1>5

(* Authority that is recovered changes nothing of the identity.              *)
LEMMA ResolvedIdentity ==
  ASSUME NEW v, DOMAIN v = ViewFields, DOMAIN v.meta = ClaimFields, NEW views
  PROVE  ResolveAuthorityRole(v, views).meta.relation = v.meta.relation
<1>. DEFINE Raised(claim) == [claim EXCEPT !.authority = "verified", !.type = ClaimedRole[v.final]]
            r == [v EXCEPT !.says = Raised(@), !.meta = Raised(@)]
<1>1. ResolveAuthorityRole(v, views) = r \/ ResolveAuthorityRole(v, views) = v
  BY DEF ResolveAuthorityRole
<1>2. r.meta.relation = v.meta.relation
  BY DEF ViewFields, ClaimFields
<1>. HIDE DEF r
<1>. QED BY <1>1, <1>2

(* What confirms a value is eligible.                                        *)
LEMMA SupportEligible ==
  ASSUME NEW facts
  PROVE  ResolveField(facts).status = "Confirmed" => \A g \in ResolveField(facts).supporting : Eligible(g)
<1>. DEFINE strong == {f \in facts : StrongFact(f)}
            top == {f \in strong : \A g \in strong : AuthorityRank(g) <= AuthorityRank(f)}
            values == {f.value : f \in top}
            Supporting(v) == {f \in facts : Eligible(f) /\ f.value = v}
            all == {f \in facts : Eligible(f)}
            chosen == Supporting(CHOOSE v \in values : TRUE)
<1>1. \/ ResolveField(facts) = [status |-> "Unresolved", supporting |-> all]
      \/ ResolveField(facts) = [status |-> "Conflict", supporting |-> all]
      \/ ResolveField(facts) = [status |-> "Confirmed", supporting |-> chosen]
  <2>. HIDE DEF StrongFact, Eligible, AuthorityRank
  <2>. QED BY DEF ResolveField
<1>2. \A g \in chosen : Eligible(g)
  OBVIOUS
<1>. HIDE DEF all, chosen
<1>. QED BY <1>1, <1>2

(* A set of numbers that has a member has a least one.                        *)
LEMMA LeastNumber ==
  ASSUME NEW S \in SUBSET Nat, S # {}
  PROVE  \E m \in S : \A n \in S : ~(n < m)
<1>1. \A m, n \in Nat : m < n => <<m, n>> \in OpToRel(<, Nat)
  BY DEF OpToRel
<1>2. PICK m \in S : \A n \in S : ~(<<n, m>> \in OpToRel(<, Nat))
  BY NatLessThanWellFounded, WFMin
<1>. QED BY <1>1, <1>2

(* A source is the view of what its candidate's URL was answered: the initial *)
(* loop fetches each document live.                                          *)
LEMMA SourcesKept ==
  ASSUME QueueInv, SourcesInv, [WorkflowNext]_workflowVars
  PROVE  SourcesInv'
<1>1. CASE FetchInitial
  <2>1. PICK c : c = queue[at]
    OBVIOUS
  <2>2. cache[Doc(c)] = NoResult /\ IsSeq(sources)
    <3>1. step = "fetch"
      BY <1>1 DEF FetchInitial
    <3>. QED BY <2>1, <3>1, InitialFetchIsLive DEF QueueInv
  <2>3. CASE UNCHANGED initialVars
    BY <2>3 DEF SourcesInv, initialVars
  <2>4. ASSUME NEW page \in {cache[Doc(c)]} \cup TransportResults(c.url), FetchOnce(c, page),
               sources' = Append(sources, FetchOnceView(page, c))
        PROVE  SourcesInv'
    <3>1. page.url = c.url
      BY <2>2, <2>4 DEF FetchOnce, LiveFetch, TransportResults
    <3>2. Appended(sources', sources, FetchOnceView(page, c))
      BY <2>2, <2>4, AppendSeq
    <3>3. ASSUME NEW i \in DOMAIN sources'
          PROVE  \E p, d : p.url = d.url /\ sources'[i] = FetchOnceView(p, d)
      <4>1. CASE i \in DOMAIN sources
        BY <3>2, <4>1 DEF Appended, SourcesInv
      <4>2. CASE sources'[i] = FetchOnceView(page, c)
        BY <3>1, <4>2
      <4>. QED BY <2>2, <3>2, <4>1, <4>2 DEF Appended, IsSeq
    <3>. QED BY <3>3 DEF SourcesInv
  <2>5. \/ UNCHANGED initialVars
        \/ \E page \in {cache[Doc(c)]} \cup TransportResults(c.url) :
             FetchOnce(c, page) /\ sources' = Append(sources, FetchOnceView(page, c))
    BY <1>1, <2>1 DEF FetchInitial
  <2>. QED BY <2>3, <2>4, <2>5
<1>2. CASE WorkflowNext /\ ~FetchInitial
  <2>1. sources' = sources
    <3>1. CASE TimePasses \/ DiscoverInitial \/ TakeFromQueue \/ ExtractInitial \/ Finished
      BY <3>1 DEF TimePasses, DiscoverInitial, TakeFromQueue, ExtractInitial, Finished, initialVars, workflowVars
    <3>2. CASE \/ PlanTargetedSearch \/ StartQuery \/ DiscoverTargeted \/ ConsiderCandidate \/ FetchCandidate
               \/ ExtractCandidate \/ AccountQuery \/ Validate
      BY <3>2, LaterSteps DEF initialVars
    <3>. QED BY <1>2, <3>1, <3>2 DEF WorkflowNext
  <2>. QED BY <2>1 DEF SourcesInv
<1>3. CASE UNCHANGED workflowVars
  BY <1>3 DEF workflowVars, initialVars, SourcesInv
<1>. QED BY <1>1, <1>2, <1>3

LEMMA SourcesInvariance == WorkflowSpec => []SourcesInv
<1>1. WorkflowInit => SourcesInv
  BY DEF WorkflowInit, SourcesInv
<1>. QED BY <1>1, SourcesKept, QueueInvariance, PTL DEF WorkflowSpec

(* The result is confirmed by what is eligible.                              *)
LEMMA ProfileKept ==
  ASSUME ProfileInv, [WorkflowNext]_workflowVars
  PROVE  ProfileInv'
<1>1. CASE Validate
  <2>1. profile' = [f \in ToSet(Fields) |-> ResolveField({g \in AllFacts : g.field = f})]
    BY <1>1 DEF Validate
  <2>2. ASSUME NEW f \in ToSet(Fields), NEW fact \in Confirming(f)' PROVE Eligible(fact)
    <3>1. PICK facts : profile'[f] = ResolveField(facts)
      BY <2>1
    <3>2. ResolveField(facts).status = "Confirmed" /\ fact \in ResolveField(facts).supporting
      BY <2>2, <3>1 DEF Confirming
    <3>. QED BY <3>2, SupportEligible
  <2>. QED BY <2>2 DEF ProfileInv
<1>2. CASE (Finished \/ UNCHANGED workflowVars) /\ ~Validate
  <2>1. step' = step /\ profile' = profile
    BY <1>2 DEF Finished, workflowVars
  <2>. QED BY <2>1 DEF ProfileInv, Confirming
<1>3. CASE WorkflowNext /\ ~Validate /\ ~Finished
  <2>1. step' # "done"
    <3>1. CASE TimePasses
      BY <3>1 DEF TimePasses
    <3>2. CASE DiscoverInitial \/ TakeFromQueue \/ ExtractInitial \/ PlanTargetedSearch
      BY <3>2 DEF DiscoverInitial, TakeFromQueue, ExtractInitial, PlanTargetedSearch
    <3>3. CASE FetchInitial
      BY <3>3 DEF FetchInitial
    <3>4. CASE StartQuery \/ AccountQuery
      BY <3>4, EndFieldSteps DEF StartQuery, AccountQuery
    <3>5. CASE DiscoverTargeted
      BY <3>5 DEF DiscoverTargeted
    <3>6. CASE ConsiderCandidate
      BY <3>6 DEF ConsiderCandidate
    <3>7. CASE FetchCandidate
      BY <3>7 DEF FetchCandidate
    <3>8. CASE ExtractCandidate
      BY <3>8 DEF ExtractCandidate
    <3>. QED BY <1>3, <3>1, <3>2, <3>3, <3>4, <3>5, <3>6, <3>7, <3>8 DEF WorkflowNext
  <2>. QED BY <2>1 DEF ProfileInv
<1>. QED BY <1>1, <1>2, <1>3

LEMMA ProfileInvariance == WorkflowSpec => []ProfileInv
<1>1. WorkflowInit => ProfileInv
  BY DEF WorkflowInit, ProfileInv
<1>. QED BY <1>1, ProfileKept, PTL DEF WorkflowSpec

(* A fact of the initial stage speaks with the claim of the first source that *)
(* has its URL.                                                              *)
LEMMA FactOfSource ==
  ASSUME QueueInv, ExhaustionInv, NEW fact \in ExistingFacts
  PROVE  \E i \in DOMAIN sources :
           /\ fact.source \in {sources[i].url, sources[i].final}
           /\ fact.claim = ResolveAuthorityRole(sources[i], AllViews).meta
<1>1. PICK g \in InitialFacts : fact = Attributed(g, SourceMetadata(g.source))
  BY DEF ExistingFacts
<1>2. fact.source = g.source /\ fact.claim = SourceMetadata(g.source).meta
  BY <1>1 DEF Attributed
<1>3. PICK i \in extracted : g \in FactsOf(sources[i])
  BY <1>1 DEF InitialFacts
<1>4. g.source \in {sources[i].url, sources[i].final}
  BY <1>3 DEF FactsOf, Fact
<1>. DEFINE S == {k \in DOMAIN sources : g.source \in {sources[k].url, sources[k].final}}
<1>5. i \in S /\ S \in SUBSET Nat
  BY <1>3, <1>4 DEF ExhaustionInv, QueueInv, IsSeq
<1>6. SourceMetadata(g.source) = ResolveAuthorityRole(sources[CHOOSE k \in S : \A j \in S : k <= j], AllViews)
  BY DEF SourceMetadata, FirstOf
<1>7. \E k \in S : \A j \in S : k <= j
  <2>. HIDE DEF S
  <2>1. PICK k \in S : \A j \in S : ~(j < k)
    BY <1>5, LeastNumber
  <2>. QED BY <1>5, <2>1
<1>. QED BY <1>2, <1>6, <1>7

LEMMA VouchedFor ==
  ASSUME QueueInv, ExhaustionInv, SourcesInv, ProfileInv
  PROVE  WithdrawnVouchesForNothing
<1>. SUFFICES ASSUME step = "done", NEW f \in ToSet(Fields), NEW fact \in Confirming(f), fact \in ExistingFacts
              PROVE  \E i \in DOMAIN sources :
                       /\ fact.source \in {sources[i].url, sources[i].final}
                       /\ sources[i].meta.relation \in SameProduct /\ ~LandedElsewhere(sources[i])
  BY DEF WithdrawnVouchesForNothing
<1>1. PICK i \in DOMAIN sources : /\ fact.source \in {sources[i].url, sources[i].final}
                                   /\ fact.claim = ResolveAuthorityRole(sources[i], AllViews).meta
  BY FactOfSource
<1>2. PICK v : v = sources[i]
  OBVIOUS
<1>3. PICK page, c : page.url = c.url /\ v = FetchOnceView(page, c)
  BY <1>2 DEF SourcesInv
<1>4. DOMAIN v = ViewFields /\ DOMAIN v.meta = ClaimFields /\ (IsOfficial(v.says) <=> IsOfficial(c))
  BY <1>3, ViewWithdrawn
<1>5. v.meta.relation \in SameProduct
  <2>1. fact.claim.relation \in SameProduct
    <3>1. Eligible(fact)
      BY DEF ProfileInv
    <3>. QED BY <3>1 DEF Eligible, IdentityCompatible, SameProduct
  <2>2. fact.claim.relation = v.meta.relation
    BY <1>1, <1>2, <1>4, ResolvedIdentity
  <2>. QED BY <2>1, <2>2
<1>6. ~(/\ page.status = "success" /\ IsOfficial(c)
        /\ PathKey[c.url] # PathKey[page.final] /\ page.final \notin PagesNaming)
  BY <1>3, <1>5, ViewWithdrawn DEF SameProduct
<1>7. v.url = c.url /\ v.final = page.final /\ v.status = page.status
  BY <1>3, ViewOfPage
<1>8. ~LandedElsewhere(v)
  BY <1>4, <1>6, <1>7 DEF LandedElsewhere
<1>. QED BY <1>1, <1>2, <1>5, <1>8

(* What the initial stage read confirms a value on the word of a source of    *)
(* that page that has an identity, and never of one that an official URL was  *)
(* led away to: not by the metadata that the source kept, nor when a          *)
(* manufacturer's link gave the page its authority back                      *)
(* (_reject_redirected_official_identity, _source_metadata).                *)
THEOREM WithdrawnVouches == WorkflowSpec => []WithdrawnVouchesForNothing
<1>1. QueueInv /\ ExhaustionInv /\ SourcesInv /\ ProfileInv => WithdrawnVouchesForNothing
  BY VouchedFor
<1>. QED BY <1>1, QueueInvariance, ExhaustionInvariance, SourcesInvariance, ProfileInvariance, PTL

-----------------------------------------------------------------------------
(* The cached answers of verify()                                           *)

USE ServiceAssumption, NoEntryAssumption

(* A row or a looked-up entry: a successful result of its own key, whose    *)
(* real age exceeds its clock age by no more than the clock was set back.   *)
Sound(e, k) ==
  e # NoEntry => /\ e.key = k /\ e.success
                 /\ now - e.made <= (clock - e.storedAt) + setBack

(* What a thread holds between looking a row up and judging its age.        *)
Pending(t) ==
  /\ Sound(got[t], request[t].key)
  /\ pc[t] \in {"looking", "judging"} => request[t].valid /\ ~request[t].force
  /\ pc[t] \in {"judging", "saving"} => got[t] # NoEntry
  /\ pc[t] = "judging" => got[t].version = deployed /\ ~got[t].corrupt

VerifierInv ==
  /\ TypeOK
  /\ \A k \in Keys : Sound(store[k], k)
  /\ \A t \in Threads : Pending(t)

LEMMA Initially == Init => VerifierInv
<1>. SUFFICES ASSUME Init PROVE VerifierInv
  OBVIOUS
<1>1. PICK leftover \in [Keys -> BOOLEAN \X SchemaVersions \X BOOLEAN] :
        store = [k \in Keys |-> LeftoverRow(k, leftover[k])]
  BY DEF Init
<1>2. 0 \in Times
  BY DEF Times
<1>3. \A k \in Keys : LeftoverRow(k, leftover[k]) \in Entry \cup {NoEntry}
  BY <1>2 DEF LeftoverRow, Entry
<1>4. Nothing \in Request
  BY DEF Nothing, Request, AnyKey
<1>5. TypeOK
  BY <1>1, <1>2, <1>3, <1>4 DEF Init, TypeOK, Stages, Answers
<1>6. \A k \in Keys : Sound(store[k], k)
  BY <1>1 DEF Init, Sound, LeftoverRow
<1>7. \A t \in Threads : Pending(t)
  BY DEF Init, Pending, Sound
<1>. QED BY <1>5, <1>6, <1>7 DEF VerifierInv

-----------------------------------------------------------------------------
(* The steps of a thread leave the clocks alone: soundness of an entry does *)
(* not change.                                                              *)
LEMMA SoundStays ==
  ASSUME NEW e, NEW k, UNCHANGED <<now, clock, setBack>>
  PROVE  Sound(e, k)' <=> Sound(e', k')
BY DEF Sound

LEMMA CallStep ==
  ASSUME VerifierInv, NEW t \in Threads, Call(t)
  PROVE  VerifierInv'
<1>. USE DEF VerifierInv, TypeOK, Call, Goto, worldVars
<1>1. TypeOK'
  BY DEF Stages, Answers, Times
<1>2. (\A k \in Keys : Sound(store[k], k))'
  BY DEF Sound
<1>3. (\A u \in Threads : Pending(u))'
  BY DEF Pending, Sound, Stages
<1>. QED BY <1>1, <1>2, <1>3

LEMMA ReturnStep ==
  ASSUME VerifierInv, NEW t \in Threads, Reject(t) \/ Hit(t) \/ WorkflowFails(t)
  PROVE  VerifierInv'
<1>. USE DEF VerifierInv, TypeOK, Reject, Hit, WorkflowFails, Return, Goto, worldVars
<1>0. got[t] # NoEntry /\ pc[t] = "judging" => Age(got[t]) \in Times
  BY DEF Age, Entry, Times
<1>1. TypeOK'
  BY <1>0 DEF Stages, Answers, Pending
<1>2. (\A k \in Keys : Sound(store[k], k))'
  BY DEF Sound
<1>3. (\A u \in Threads : Pending(u))'
  BY DEF Pending, Sound, Stages
<1>. QED BY <1>1, <1>2, <1>3

LEMMA RunStep ==
  ASSUME VerifierInv, NEW t \in Threads,
         Bypass(t) \/ Miss(t) \/ Stale(t) \/ WorkflowSucceeds(t) \/ LookUp(t)
  PROVE  VerifierInv'
<1>. USE DEF VerifierInv, TypeOK, Bypass, Miss, Stale, WorkflowSucceeds, LookUp,
             RunWorkflow, Goto, worldVars
<1>1. TypeOK'
  BY DEF Stages
<1>2. (\A k \in Keys : Sound(store[k], k))'
  BY DEF Sound
<1>3. (\A u \in Threads : Pending(u))'
  BY DEF Pending, Sound, Stages
<1>. QED BY <1>1, <1>2, <1>3

LEMMA FindStep ==
  ASSUME VerifierInv, NEW t \in Threads, Find(t)
  PROVE  VerifierInv'
<1>. USE DEF VerifierInv, TypeOK, Find, CacheKey, Goto, worldVars
<1>1. request[t].key \in Keys
  BY DEF Request
<1>2. TypeOK'
  BY <1>1 DEF Stages
<1>3. (\A k \in Keys : Sound(store[k], k))'
  BY DEF Sound
<1>4. (\A u \in Threads : Pending(u))'
  BY <1>1 DEF Pending, Sound, Stages, Usable
<1>. QED BY <1>2, <1>3, <1>4

LEMMA StampedRow ==
  ASSUME NEW v \in SchemaVersions, NEW c \in Times, NEW k \in Keys, NEW n \in Times
  PROVE  [version |-> v, storedAt |-> c, success |-> TRUE, corrupt |-> FALSE,
          key |-> k, made |-> n] \in Entry
BY DEF Entry

LEMMA StampStep ==
  ASSUME VerifierInv, NEW t \in Threads, Stamp(t)
  PROVE  VerifierInv'
<1>. USE DEF VerifierInv, TypeOK, Stamp, Goto, worldVars
<1>. DEFINE e == [version |-> deployed, storedAt |-> clock, success |-> TRUE,
                  corrupt |-> FALSE, key |-> request[t].key, made |-> now]
<1>0. /\ deployed \in SchemaVersions /\ clock \in Times /\ now \in Times
      /\ request[t].key \in Keys
  BY DEF Request
<1>1. e \in Entry /\ e # NoEntry
  BY <1>0, StampedRow
<1>2. TypeOK'
  BY <1>1 DEF Stages
<1>3. (\A k \in Keys : Sound(store[k], k))'
  BY DEF Sound
<1>4. Sound(e, request[t].key)
  BY DEF Sound, Times
<1>5. (\A u \in Threads : Pending(u))'
  BY <1>1, <1>4 DEF Pending, Sound, Stages
<1>. QED BY <1>2, <1>3, <1>5

LEMMA SaveStep ==
  ASSUME VerifierInv, NEW t \in Threads, Save(t)
  PROVE  VerifierInv'
<1>. USE DEF VerifierInv, TypeOK, Save, CacheKey, Return, Goto, worldVars
<1>1. request[t].key \in Keys
  BY DEF Request
<1>2. TypeOK'
  BY <1>1 DEF Stages, Answers
<1>3. (\A k \in Keys : Sound(store[k], k))'
  BY <1>1 DEF Sound, Pending
<1>4. (\A u \in Threads : Pending(u))'
  BY DEF Pending, Sound, Stages
<1>. QED BY <1>2, <1>3, <1>4

(* Time, the clock and the process.                                         *)
LEMMA SoundMoves ==
  ASSUME TypeOK, Tick \/ StepClock \/ Restart, NEW e \in Entry \cup {NoEntry}, NEW k \in Keys,
         Sound(e, k)
  PROVE  Sound(e, k)'
BY DEF TypeOK, Tick, StepClock, Restart, Sound, Entry, Times

LEMMA WorldStep ==
  ASSUME VerifierInv, Tick \/ StepClock \/ Restart
  PROVE  VerifierInv'
<1>. USE DEF VerifierInv
<1>1. TypeOK'
  <2>1. CASE Tick
    BY <2>1 DEF TypeOK, Tick, Times
  <2>2. CASE StepClock
    BY <2>2 DEF TypeOK, StepClock, Times
  <2>3. CASE Restart
    BY <2>3 DEF TypeOK, Restart, Stages, Answers
  <2>. QED BY <2>1, <2>2, <2>3
<1>2. (\A k \in Keys : Sound(store[k], k))'
  <2>1. store' = store /\ \A k \in Keys : store[k] \in Entry \cup {NoEntry}
    BY DEF TypeOK, Tick, StepClock, Restart
  <2>. QED BY <2>1, SoundMoves DEF Sound
<1>3. (\A t \in Threads : Pending(t))'
  <2>1. CASE Tick \/ StepClock
    <3>1. UNCHANGED <<deployed, pc, request, got>>
      BY <2>1 DEF Tick, StepClock
    <3>2. \A t \in Threads : got[t] \in Entry \cup {NoEntry} /\ request[t].key \in Keys
      BY DEF TypeOK, Request
    <3>. QED BY <2>1, <3>1, <3>2, SoundMoves DEF Pending, Sound
  <2>2. CASE Restart
    BY <2>2 DEF Restart, Pending, Sound
  <2>. QED BY <2>1, <2>2
<1>. QED BY <1>1, <1>2, <1>3

LEMMA InvStep == VerifierInv /\ [Next]_vars => VerifierInv'
<1>. SUFFICES ASSUME VerifierInv, [Next]_vars PROVE VerifierInv'
  OBVIOUS
<1>1. CASE UNCHANGED vars
  BY <1>1 DEF vars, VerifierInv, TypeOK, Pending, Sound
<1>2. ASSUME NEW t \in Threads, Call(t) \/ Step(t) PROVE VerifierInv'
  BY <1>2, CallStep, ReturnStep, RunStep, FindStep, StampStep, SaveStep DEF Step
<1>. QED BY <1>1, <1>2, WorldStep DEF Next

LEMMA Always == Spec => []VerifierInv
BY Initially, InvStep, PTL DEF Spec

(* Only Hit serves a hit, and what it serves is sound.                      *)
LEMMA HitServed ==
  ASSUME VerifierInv, [Next]_vars, NEW t \in Threads, ServesHit(t)
  PROVE  Hit(t)
BY DEF VerifierInv, TypeOK, ServesHit, Next, Call, Step, Reject, Bypass, LookUp, Miss, Find,
       Stale, Hit, WorkflowFails, WorkflowSucceeds, Stamp, Save, Return, RunWorkflow, Goto,
       Tick, StepClock, Restart, vars

THEOREM TypeCorrect == Spec => []TypeOK
BY Always, PTL DEF VerifierInv

(* No thread, release, kill or damaged row makes verify() serve a result of *)
(* another request, another schema, or a failure.                           *)
THEOREM SoundHits == Spec => HitsAreSound
<1>1. ASSUME VerifierInv, [Next]_vars, NEW t \in Threads, ServesHit(t)
      PROVE  /\ got[t].key = request[t].key /\ ~request[t].force /\ request[t].valid
             /\ got[t].version = deployed /\ got[t].success /\ ~got[t].corrupt
  BY <1>1, HitServed DEF Hit, VerifierInv, Pending, Sound
<1>2. VerifierInv /\ [Next]_vars =>
        [\A t \in Threads : ServesHit(t) =>
           /\ got[t].key = request[t].key /\ ~request[t].force /\ request[t].valid
           /\ got[t].version = deployed /\ got[t].success /\ ~got[t].corrupt]_vars
  BY <1>1
<1>. QED BY <1>2, Always, PTL DEF Spec, HitsAreSound

(* The freshness window holds in real time, up to backward clock steps.     *)
THEOREM FreshHits == Spec => HitsAreFresh
<1>1. ASSUME VerifierInv, [Next]_vars, NEW t \in Threads, ServesHit(t)
      PROVE  now - got[t].made <= TTL + setBack
  <2>1. Hit(t) /\ got[t] \in Entry /\ Sound(got[t], request[t].key) /\ got[t] # NoEntry
    BY <1>1, HitServed DEF Hit, VerifierInv, TypeOK, Pending
  <2>2. clock - got[t].storedAt <= Age(got[t])
    BY <1>1, <2>1 DEF Age, VerifierInv, TypeOK, Entry, Times
  <2>3. Age(got[t]) <= TTL /\ Age(got[t]) \in Nat
    BY <1>1, <2>1 DEF Hit, Age, VerifierInv, TypeOK, Entry, Times
  <2>. QED BY <1>1, <2>1, <2>2, <2>3 DEF Sound, VerifierInv, TypeOK, Entry, Times
<1>2. VerifierInv /\ [Next]_vars =>
        [\A t \in Threads : ServesHit(t) => now - got[t].made <= TTL + setBack]_vars
  BY <1>1
<1>. QED BY <1>2, Always, PTL DEF Spec, HitsAreFresh
=============================================================================
