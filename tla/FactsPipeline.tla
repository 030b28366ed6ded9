------------------------------- MODULE FactsPipeline -------------------------------
(***************************************************************************)
(* services/discovery_debug.py, services/raw_extraction.py,                 *)
(* services/normalization.py and services/canonical_mapping.py: the facts of *)
(* a product, from what discovery found on the manufacturer's sites.         *)
(*                                                                         *)
(* Discovery service: load the official pages (a pool, a cache that lasts    *)
(* for the call), assemble the documents they link to, read those that are    *)
(* said to be the model's, and, when there is no manual, ask the search       *)
(* session for documents and assemble once more over the same caches. The     *)
(* extraction service then fetches each source by itself, three times at most; *)
(* what it reads is normalised and mapped.                                    *)
(***************************************************************************)
EXTENDS CanonicalMapping

CONSTANTS
  World,        \* what the sites hold: [sources, pages, pdfs, records, hosts, regional, category]
  Worlds,       \* the names of the worlds that are explored
  MaxProducts,  \* product pages loaded by discovery (6)
  MaxScans,     \* other pages searched for documents (3)
  MaxSources,   \* pages, and documents, that are extracted (8)
  MaxTries,     \* attempts of the extraction to fetch a source (3)
  MaxQueries,   \* document queries of a call (document_queries: 2 domains and a declaration)
  NeighbourValue  \* texts that are written about another model only

(* Sources, links and what the readers find in a page or a document are lists, of  *)
(* addresses that are known.                                                    *)
ASSUME WorldAssumption ==
  /\ MaxSources \in Nat /\ IsList(PreferredLocales)
  /\ \A u \in DOMAIN Url : Url[u].file \in {"page"} \cup FileSuffix
  /\ \A w \in Worlds :
       /\ IsList(World[w].sources)
       /\ \A list \in {World[w].sources, World[w].records} : \A i \in DOMAIN list : list[i].url \in DOMAIN Url
  /\ \A w \in Worlds, u \in {v \in DOMAIN Url : Url[v].file = "page"} :
       /\ IsList(World[w].pages[u].links) /\ IsList(ExtractHtmlAttributes(World[w].pages[u]).attributes)
       /\ \A i \in DOMAIN World[w].pages[u].links : World[w].pages[u].links[i].url \in DOMAIN Url
  /\ \A w \in Worlds, u \in {v \in DOMAIN Url : Url[v].file = "pdf"}, techOnly \in BOOLEAN :
       IsList(ExtractDocumentAttributes(World[w].pdfs[u].pages, techOnly).attributes)

VARIABLES
  world,      \* the world of this behaviour
  phase,      \* where the calls are
  cache,      \* page_cache: address -> "page" or "none", for the pages already asked for
  read,       \* document_cache: address -> whether its text could be read
  extras,     \* the document queries that gave a result
  queries,    \* document queries attempted
  documents,  \* the documents of the last pass
  firstPass,  \* those of the first pass
  tried,      \* source -> failed attempts of the extraction to fetch it
  outcome,    \* source -> "waiting", "page", "fetch_failed", "unreadable" or "raised"
  facts       \* the normalised attributes and the mapped fields

factsVars == <<world, phase, cache, read, extras, queries, documents, firstPass, tried, outcome, facts>>

W == World[world]
NoFacts == [raws |-> << >>, issues |-> << >>, attributes |-> << >>,
            mapping |-> [fields |-> << >>, collisions |-> {}, other |-> 0]]

-----------------------------------------------------------------------------
(* The sources of a discovery outcome: [url, match, title]                    *)

PageRole(s) ==
  LET type == ClassifyDocument(s.url, s.title)
  IN IF IsFile(s.url) \/ (type # NoType /\ ~Url[s.url].hub) THEN "document"
     ELSE IF Url[s.url].support \/ Url[s.url].hub THEN "support" ELSE "product"

MatchRank(s) == IF s.match = "exact" THEN 1 ELSE IF s.match = "probable" THEN 2 ELSE 3

(* Where documents come from, in the order they are merged in: candidates, product *)
(* pages by their match, other pages, results of the document queries.             *)
Place(stage, rank, at) == [stage |-> stage, rank |-> rank, at |-> at]
Having(role) == {i \in DOMAIN W.sources : PageRole(W.sources[i]) = role}
FirstPlaces(places, n) == {p \in places : Cardinality({q \in places : Ahead(q, p)}) < n}

Products == FirstPlaces({Place(2, MatchRank(W.sources[i]), i) : i \in Having("product")}, MaxProducts)
Scans ==
  FirstPlaces({p \in {Place(3, 1, i) : i \in Having("support")} \cup {Place(3, 2, i) : i \in Having("document")} :
                 ~IsFile(W.sources[p.at].url)}, MaxScans)
Targets == Products \cup Scans
TargetUrls == {W.sources[p.at].url : p \in Targets}

DocumentFromCandidate(s) ==
  LET type == ClassifyDocument(s.url, s.title)
      own == DocumentModelMatch(s.url, s.title, FALSE)
      verdict == IF Unmatched(own) /\ s.match = "exact" THEN Verdict("exact", "search_result") ELSE own
  IN IF type = NoType \/ Unmatched(verdict) THEN {} ELSE {Document(s.url, type, s.title, verdict, s.url, {})}

(* Results of the document queries count only on a verified official host.     *)
DocumentFromRecord(r) ==
  LET type == ClassifyDocument(r.url, r.text)
      verdict == DocumentModelMatch(r.url, r.text, FALSE)
  IN IF type = NoType \/ Url[r.url].host \notin W.hosts \/ Unmatched(verdict) THEN {}
     ELSE {Document(r.url, type, r.text, verdict, r.url, {})}

LinkedDocuments(s, isProduct) ==
  IF cache[s.url] # "page" THEN {}
  ELSE ExtractDocuments(W.pages[s.url].links, s.url, s.match = "exact" /\ isProduct,
                        s.match \in {"exact", "probable"}, W.hosts, W.pages[s.url].title).accepted

DocumentsAt(p) ==
  CASE p.stage = 1 -> DocumentFromCandidate(W.sources[p.at])
    [] p.stage = 4 -> DocumentFromRecord(W.records[p.at])
    [] OTHER -> LinkedDocuments(W.sources[p.at], p.stage = 2)

SourcePlaces == {Place(1, 1, i) : i \in Having("document")} \cup Targets
Places == SourcePlaces \cup {Place(4, 1, i) : i \in extras}
Found(places) == UNION {{[place |-> p, document |-> d] : d \in DocumentsAt(p)} : p \in places}
AllDocuments == MergeDocuments(Found(Places))

(* The texts of the documents that are read; unreadable ones stay so.          *)
TextIn(found, reading) ==
  [u \in {d.url : d \in ToVerify(found)} |->
     IF reading[u] THEN W.pdfs[u].identity ELSE [status |-> "unreadable", sku |-> "absent", stem |-> FALSE, words |-> "none"]]
UnreadIn(found) == {d.url : d \in ToVerify(found)} \ DOMAIN read

ManualFound(docs) == \E d \in docs : d.type \in Manuals

-----------------------------------------------------------------------------
(* The discovery service                                                      *)

FactsInit ==
  /\ world \in Worlds /\ phase = "loading" /\ cache = << >> /\ read = << >> /\ extras = {} /\ queries = 0
  /\ documents = {} /\ firstPass = {} /\ tried = << >> /\ outcome = << >> /\ facts = NoFacts

(* A page that is lost while its body is read makes the whole call raise.      *)
Load(u) ==
  /\ phase = "loading" /\ u \in TargetUrls \ DOMAIN cache
  /\ \E answers \in [1 .. 2 -> {"page", "refused", "dropped"}] :
       LET page == FetchWorkingPage(Url[u].slashed, answers)
       IN IF page = "raised" THEN phase' = "failed" /\ UNCHANGED cache
          ELSE cache' = cache @@ (u :> page) /\ UNCHANGED phase
  /\ UNCHANGED <<world, read, extras, queries, documents, firstPass, tried, outcome, facts>>

(* Mutant: the second pass loads the pages once more.                          *)
NextPassReloads == phase' = "loading" /\ cache' = << >>
NextPass == phase' = "assembling" /\ UNCHANGED cache

(* One pass: documents merged, read and verified. The first pass without a      *)
(* manual leads to the document queries; a body that breaks off while a          *)
(* document is read makes the call raise.                                      *)
Assemble ==
  /\ phase = "assembling" \/ (phase = "loading" /\ TargetUrls \subseteq DOMAIN cache)
  /\ \E found \in {AllDocuments} :
       \/ /\ UnreadIn(found) # {} /\ phase' = "failed"
          /\ UNCHANGED <<read, documents, firstPass>>
       \/ \E reading \in {r \in [DOMAIN read \cup UnreadIn(found) -> BOOLEAN] : \A u \in DOMAIN read : r[u] = read[u]} :
            /\ read' = reading
            /\ documents' = VerifyDocumentIdentity(found, TextIn(found, reading), W.regional)
            /\ firstPass' = IF queries = 0 THEN documents' ELSE firstPass
            /\ phase' = IF queries > 0 \/ ManualFound(documents') THEN "stored" ELSE "querying"
  /\ UNCHANGED <<world, cache, extras, queries, tried, outcome, facts>>

(* A query that raises is passed over; too little time left ends them.          *)
QueryDocuments ==
  /\ phase = "querying" /\ queries < MaxQueries
  /\ queries' = queries + 1
  /\ extras' \in {extras, extras \cup ({queries'} \cap DOMAIN W.records)}
  /\ UNCHANGED <<world, phase, cache, read, documents, firstPass, tried, outcome, facts>>

QueriesDone ==
  /\ phase = "querying"
  /\ IF queries = 0 THEN phase' = "stored" /\ UNCHANGED cache ELSE NextPass
  /\ UNCHANGED <<world, read, extras, queries, documents, firstPass, tried, outcome, facts>>

-----------------------------------------------------------------------------
(* The extraction service                                                     *)

Usable == {"exact", "probable"}
Picked(role) ==
  LET With(match) == Numbers({i \in Having(role) : W.sources[i].match = match}, Len(W.sources))
      order == With("exact") \o With("probable")
  IN [k \in 1 .. (IF Len(order) > MaxSources THEN MaxSources ELSE Len(order)) |-> W.sources[order[k]]]
PickedDocuments ==
  LET usable == {d \in documents : d.match \in Usable}
  IN IF Cardinality(usable) <= MaxSources THEN usable
     ELSE CHOOSE S \in SUBSET usable :
            /\ Cardinality(S) = MaxSources
            /\ \A d \in S, e \in usable \ S : e.match = "exact" => d.match = "exact"

(* Everything that is extracted: [url, kind, type], pages before documents.     *)
Sources ==
  LET Of(seq, kind) == [i \in DOMAIN seq |-> [url |-> seq[i].url, kind |-> kind, type |-> NoType]]
      docs == SetToSeq(PickedDocuments)
  IN Of(Picked("product"), "official_product_page") \o Of(Picked("support"), "official_support_page")
       \o [i \in DOMAIN docs |-> [url |-> docs[i].url, kind |-> "official_document", type |-> docs[i].type]]

StartExtraction ==
  /\ phase = "stored" /\ phase' = "extracting"
  /\ tried' = [i \in DOMAIN Sources |-> 0]
  /\ outcome' = [i \in DOMAIN Sources |-> IF Url[Sources[i].url].file = "doc" THEN "unsupported" ELSE "waiting"]
  /\ UNCHANGED <<world, cache, read, extras, queries, documents, firstPass, facts>>

(* One attempt; a miss is tried again, a body that breaks off is not caught.    *)
Attempt(i) ==
  /\ phase = "extracting" /\ outcome[i] = "waiting"
  /\ \E answer \in {"page", "none", "raised"} :
       IF answer = "none" /\ tried[i] + 1 < MaxTries
       THEN tried' = [tried EXCEPT ![i] = @ + 1] /\ UNCHANGED outcome
       ELSE /\ outcome' = [outcome EXCEPT ![i] =
                 IF answer = "none" THEN "fetch_failed"
                 ELSE IF answer = "page" /\ Url[Sources[i].url].file = "pdf" /\ W.pdfs[Sources[i].url].pages = << >>
                   THEN "unreadable" ELSE answer]
            /\ UNCHANGED tried
  /\ UNCHANGED <<world, phase, cache, read, extras, queries, documents, firstPass, facts>>

(* What one source gives.                                                      *)
ExtractedFrom(s) ==
  IF Url[s.url].file = "pdf" THEN ExtractDocumentAttributes(W.pdfs[s.url].pages, s.type \in ProseTypes)
  ELSE ExtractHtmlAttributes(W.pages[s.url])

(* What each source gave.                                                      *)
Extracted(sources) ==
  [i \in DOMAIN sources |-> IF outcome[i] = "page" THEN ExtractedFrom(sources[i]).attributes ELSE << >>]

RawAttributes(sources, extracted) ==
  LET Said(a, s) == [label |-> a.label, value |-> a.value, method |-> a.method, section |-> a.section,
                     url |-> s.url, sourceType |-> s.kind]
  IN Concat([i \in DOMAIN sources |-> [k \in DOMAIN extracted[i] |-> Said(extracted[i][k], sources[i])]])

(* What a source that answered is said to lack.                                *)
IssueOf(s, found) ==
  LET Seen(seen) == IF found = << >>
                    THEN IF seen.location = "js_required" \/ seen.shell THEN "js_required" ELSE "no_attributes"
                    ELSE IF seen.interaction = "true" THEN "partly_js_required" ELSE "none"
  IN IF s.kind = "official_document" THEN (IF found = << >> THEN "no_attributes" ELSE "none")
     ELSE Seen(InspectProductPage(W.pages[s.url]))

(* Stages 35 and 36, once every source has answered.                           *)
FinishExtraction ==
  /\ phase = "extracting" /\ \A i \in DOMAIN outcome : outcome[i] # "waiting"
  /\ IF \E i \in DOMAIN outcome : outcome[i] = "raised"
     THEN phase' = "failed" /\ UNCHANGED facts
     ELSE \E sources \in {Sources} : \E extracted \in {Extracted(sources)} :
          \E raws \in {RawAttributes(sources, extracted)} : \E attributes \in {NormalizeAttributes(raws)} :
            /\ phase' = "done"
            /\ facts' = [raws |-> raws,
                         issues |-> [i \in DOMAIN sources |->
                                       IF outcome[i] = "page" THEN IssueOf(sources[i], extracted[i]) ELSE outcome[i]],
                         attributes |-> attributes, mapping |-> MapResult(attributes, W.category)]
  /\ UNCHANGED <<world, cache, read, extras, queries, documents, firstPass, tried, outcome>>

FactsNext ==
  \/ \E u \in DOMAIN Url : Load(u)
  \/ Assemble \/ QueryDocuments \/ QueriesDone \/ StartExtraction
  \/ \E i \in DOMAIN outcome : Attempt(i)
  \/ FinishExtraction

FactsSpec == FactsInit /\ [][FactsNext]_factsVars

-----------------------------------------------------------------------------
(* What the facts of a product may be made of.                                 *)

Keys(docs) == {Url[d.url].key : d \in docs}
Collected == phase \in {"stored", "extracting", "done"}

(* A PDF that is called exact was read and names the requested product, however  *)
(* trustworthy the page that links to it (services/discovery_debug.py:247).      *)
ExactDocumentNamesModel ==
  Collected =>
    \A d \in documents : d.match = "exact" /\ Url[d.url].file = "pdf" =>
      /\ d.url \in DOMAIN read /\ read[d.url]
      /\ \/ W.pdfs[d.url].identity.sku \in Owned
         \/ W.pdfs[d.url].identity.sku = "base_only" /\ W.regional

(* The second pass, after the document queries, works on the pages and texts of  *)
(* the first: it finds again every document that was there.                     *)
SecondPassKeeps == Collected => Keys(firstPass) \subseteq Keys(documents)

(* JSON whose reading begins below what names the other model: at a specification  *)
(* key inside its object, or in a data-* attribute named like one.                *)
DecodedApart(page) ==
  \E k \in DOMAIN page.scripts :
    LET s == page.scripts[k] IN
    \/ /\ s.type = "state"
       /\ \E root \in AnchoredRoots(s.nodes) : \E j \in AncestorsOrSelf(s.nodes, root) \ {root} :
            IsNeighbourJson(s.nodes[j])
    \/ s.type = "data" /\ s.nodes[1].key \in SpecKey

(* A value written about another model is read only out of JSON state decoded     *)
(* apart from what names that model; the state of a script as a whole, tables,     *)
(* comparisons, JSON-LD and shared documents keep it out.                        *)
NeighbourStaysOut ==
  \A i \in DOMAIN facts.raws :
    {facts.raws[i].value[k] : k \in DOMAIN facts.raws[i].value} \cap NeighbourValue # {} =>
      /\ facts.raws[i].method \in {"json_state_pair", "json_state_keyed_spec", "json_state_map"}
      /\ DecodedApart(W.pages[facts.raws[i].url])

(* core/raw_extraction.py:22-24, of every reader: neighbouring SKUs are never     *)
(* mixed in.                                                                    *)
NeighboursNeverMixed ==
  \A i \in DOMAIN facts.raws :
    {facts.raws[i].value[k] : k \in DOMAIN facts.raws[i].value} \cap NeighbourValue = {}

(* Through any chain of merges, the raw pairs behind one attribute say the same    *)
(* value of the same variant (normalize_attributes).                             *)
ClusterAgrees ==
  \A records \in {Records(facts.raws)} : \A a \in DOMAIN facts.attributes :
    LET members == facts.attributes[a].evidence
    IN \A i, j \in DOMAIN members :
         /\ ValueKey(records[members[i]]) = ValueKey(records[members[j]])
         /\ records[members[i]].variant = records[members[j]].variant

(* A section that lists the measurements of two components gives the main product  *)
(* one of each (_component_pass).                                                *)
OnePrimaryPerBlock ==
  LET fields == facts.mapping.fields
      Origin(f) == <<f.key, f.attribute.first.url, f.attribute.first.section, f.attribute.first.method>>
  IN \A i, j \in DOMAIN fields :
       ({fields[i].status, fields[j].status} = {"mapped"} /\ {fields[i].key} \subseteq ComponentKeys
          /\ {fields[i].block, fields[j].block} = {1} /\ {fields[i].derivedFrom, fields[j].derivedFrom} = {NoUnit}
          /\ Origin(fields[i]) = Origin(fields[j])) => i = j
=============================================================================
