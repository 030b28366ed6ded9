---------------------------- MODULE OfficialDocuments ----------------------------
(***************************************************************************)
(* core/official_documents.py and core/document_identity.py: the documents  *)
(* an official page links to, what kind each is, whether it belongs to the  *)
(* requested model, and what its own text says about that.                  *)
(*                                                                         *)
(* A text (the words of a link, of a file name, of a document) is           *)
(* [type, sku, other, words]: the document type its words say, the relation *)
(* of its best identifier to the requested SKU (sku.py), whether it carries *)
(* an identifier shaped like another model's, and whether the words of the  *)
(* model's name are in it ("all", "extended" by a variant word, "none").    *)
(***************************************************************************)
EXTENDS Naturals, FiniteSets, Sequences, SequencesExt

CONSTANTS
  Url,              \* address -> [key, file, host, text, folder, hub]: its duplicate key, "pdf",
                    \* "doc" or "page", its host, its last segment, the type its folders say,
                    \* and whether it lists documents (is_document_index)
  OwnHosts,         \* hosts that are spelled like the brand (_same_official_family)
  PreferredLocales, \* _PREFERRED_LOCALES
  NoType            \* not a document

FileSuffix == {"pdf", "doc"}
IsFile(u) == Url[u].file \in FileSuffix

SkuOrder == <<"exact", "regional_suffix", "base_only", "different_suffix",
              "different_variant", "absent">>
SkuRank(kind) == CHOOSE i \in DOMAIN SkuOrder : SkuOrder[i] = kind
BestSku(kinds) == CHOOSE k \in kinds : \A l \in kinds : SkuRank(k) <= SkuRank(l)

Silent == [type |-> NoType, sku |-> "absent", other |-> FALSE, words |-> "none"]

FirstType(types) ==
  LET said == SelectSeq(types, LAMBDA t : t # NoType)
  IN IF said = << >> THEN NoType ELSE said[1]

ClassifyDocument(u, text) ==
  FirstType(<<text.type, Url[u].text.type>> \o (IF IsFile(u) THEN <<Url[u].folder>> ELSE << >>))

Manuals == {"manual", "user_guide", "instruction", "quick_start_guide"}
CanonicalField(type) ==
  IF type \in {"manual", "user_guide", "instruction"} THEN "manual_url"
  ELSE IF type = "quick_start_guide" THEN "quick_start_guide_url"
  ELSE IF type \in {"datasheet", "spec_sheet"} THEN "datasheet_url"
  ELSE type

-----------------------------------------------------------------------------
(* Does the link belong to the model? [match, why]                          *)

Verdict(match, why) == [match |-> match, why |-> why]
Unmatched(v) == v.match = "none"

DocumentModelMatch(u, text, linkedFromExactPage) ==
  LET sku == BestSku({text.sku, Url[u].text.sku})
      words == {text.words, Url[u].text.words}
  IN IF sku \in {"exact", "regional_suffix"} THEN Verdict("exact", "identifier")
     ELSE IF sku \in {"different_suffix", "different_variant"} THEN Verdict("none", "different")
     ELSE IF text.other \/ Url[u].text.other THEN Verdict("none", "different")
     ELSE IF linkedFromExactPage THEN Verdict("exact", "context")
     ELSE IF "extended" \in words THEN Verdict("none", "variant_word")
     ELSE IF "all" \in words THEN Verdict("probable", "family")
     ELSE Verdict("none", "unidentified")

SameOfficialFamily(u, base, hosts) ==
  Url[u].host \in {Url[base].host} \cup hosts \cup OwnHosts

-----------------------------------------------------------------------------
(* The links of one page: anchors, then addresses in its state. A link is    *)
(* [url, text, code, locale]: code is the relation of the product code       *)
(* stored beside an embedded address.                                        *)

Document(u, type, title, verdict, page, locales) ==
  [url |-> u, type |-> type, title |-> title, match |-> verdict.match, why |-> verdict.why,
   foundOn |-> {page}, locales |-> locales]
Refusal(u, why) == [url |-> u, why |-> why]

(* What one link is: accepted, refused, or not a document at all.            *)
Kept(d) == [fate |-> "kept", document |-> d]
Refused(u, why) == [fate |-> "refused", refusal |-> Refusal(u, why)]
Ignored == [fate |-> "ignored"]

JudgeLink(link, page, exactPage, probablePage, hosts, title) ==
  LET u == link.url
      type == FirstType(<<ClassifyDocument(u, link.text)>>
                          \o (IF IsFile(u) THEN <<title>> ELSE << >>))
      text == [link.text EXCEPT !.sku = BestSku({@, link.code})]
      verdict == DocumentModelMatch(u, text, exactPage /\ IsFile(u))
      family == Unmatched(verdict) /\ IsFile(u) /\ probablePage /\ verdict.why # "different"
  IN IF type = NoType THEN (IF IsFile(u) THEN Refused(u, "untyped") ELSE Ignored)
     ELSE IF Url[u].hub /\ ~IsFile(u) THEN Refused(u, "hub")
     ELSE IF ~IsFile(u) /\ ~SameOfficialFamily(u, page, hosts) THEN Refused(u, "foreign_host")
     ELSE IF family THEN Kept(Document(u, type, link.text, Verdict("probable", "page_family"), page, link.locale))
     ELSE IF Unmatched(verdict) THEN Refused(u, verdict.why)
     ELSE Kept(Document(u, type, link.text, verdict, page, link.locale))

(* The first link to an address decides what it is; later ones are not read. *)
FirstLinks(links, page, exactPage, probablePage, hosts, title) ==
  LET Decides(judged, i) ==
        /\ judged[i].fate # "ignored"
        /\ \A j \in 1 .. i - 1 : Url[links[j].url].key = Url[links[i].url].key => judged[j].fate = "ignored"
      First(judged) == {judged[i] : i \in {k \in DOMAIN links : Decides(judged, k)}}
  IN First([i \in DOMAIN links |-> JudgeLink(links[i], page, exactPage, probablePage, hosts, title)])

LocaleRank(d) ==
  LET tag == CHOOSE t \in d.locales : TRUE
      at == {i \in DOMAIN PreferredLocales : PreferredLocales[i] = tag}
  IN IF at = {} THEN Len(PreferredLocales) + 1 ELSE CHOOSE i \in at : TRUE

InLocales(d, tags) ==
  [url |-> d.url, type |-> d.type, title |-> d.title, match |-> d.match, why |-> d.why,
   foundOn |-> d.foundOn, locales |-> tags]

(* One entry per type and title when a page lists the document in many locales. *)
CollapseLocales(documents) ==
  LET tagged == {d \in documents : d.locales # {}}
      Alike(d) == {e \in tagged : e.type = d.type /\ e.title = d.title}
      First(group) == CHOOSE d \in group : \A e \in group : LocaleRank(d) <= LocaleRank(e)
  IN (documents \ tagged)
       \cup {InLocales(First(group), UNION {e.locales : e \in group}) : group \in {Alike(d) : d \in tagged}}

ExtractDocuments(links, page, exactPage, probablePage, hosts, title) ==
  LET judged == FirstLinks(links, page, exactPage, probablePage, hosts, title)
  IN [accepted |-> CollapseLocales({j.document : j \in {k \in judged : k.fate = "kept"}}),
      rejected |-> {j.refusal : j \in {k \in judged : k.fate = "refused"}}]

-----------------------------------------------------------------------------
(* The same file reached from several places, by several spellings. What was   *)
(* found is [place, document], and a place [stage, rank, at].                  *)

Ahead(p, q) ==
  \/ p.stage < q.stage
  \/ p.stage = q.stage /\ p.rank < q.rank
  \/ p.stage = q.stage /\ p.rank = q.rank /\ p.at < q.at
Foremost(found) == CHOOSE f \in found : \A g \in found : ~Ahead(g.place, f.place)

FoundOn(d, pages) ==
  [url |-> d.url, type |-> d.type, title |-> d.title, match |-> d.match, why |-> d.why,
   foundOn |-> pages, locales |-> d.locales]

(* The first that is exact, or else the first, found wherever one of them was.  *)
MergeDocuments(found) ==
  LET Alike(f) == {g \in found : Url[g.document.url].key = Url[f.document.url].key}
      Exact(alike) == {g \in alike : g.document.match = "exact"}
      Better(alike) == IF Exact(alike) = {} THEN alike ELSE Exact(alike)
  IN {FoundOn(Foremost(Better(Alike(f))).document, UNION {g.document.foundOn : g \in Alike(f)}) : f \in found}

DocumentsByField(documents) ==
  {[field |-> CanonicalField(d.type), url |-> d.url] : d \in {e \in documents : e.match # "unverified"}}

-----------------------------------------------------------------------------
(* Identity from the text of a document: [status, sku, stem, words].          *)

(* The market code of the request, left out in the text, names the product.  *)
VerifyIdentity(text, regionalRequest) ==
  IF text.status # "ok" THEN Verdict("unverified", text.status)
  ELSE IF text.sku \in {"exact", "regional_suffix"} THEN Verdict("exact", "document_text")
  ELSE IF text.sku = "base_only"
    THEN IF regionalRequest THEN Verdict("exact", "document_text") ELSE Verdict("probable", "family_base")
  ELSE IF text.stem THEN Verdict("probable", "family_stem")
  ELSE IF text.words = "all" THEN Verdict("probable", "family_words")
  ELSE IF text.sku # "absent" THEN Verdict("unverified", "different_identifier")
  ELSE Verdict("unverified", "not_in_text")

(* Only a PDF whose link says that it is the model's is read.                *)
ToVerify(documents) == {d \in documents : d.match = "exact" /\ Url[d.url].file = "pdf"}

Judged(d, v) ==
  [url |-> d.url, type |-> d.type, title |-> d.title, match |-> v.match, why |-> v.why,
   foundOn |-> d.foundOn, locales |-> d.locales]

(* Mutant: a file that cannot be read keeps what its link says.              *)
VerifiedIfReadable(documents, texts, regionalRequest) ==
  {IF d \in ToVerify(documents) /\ texts[d.url].status = "ok"
   THEN Judged(d, VerifyIdentity(texts[d.url], regionalRequest)) ELSE d : d \in documents}

VerifyDocumentIdentity(documents, texts, regionalRequest) ==
  {IF d \in ToVerify(documents)
   THEN Judged(d, VerifyIdentity(texts[d.url], regionalRequest)) ELSE d : d \in documents}
=============================================================================
