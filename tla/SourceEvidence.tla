----------------------------- MODULE SourceEvidence -----------------------------
(***************************************************************************)
(* The decisions about sources and evidence that one verification takes:   *)
(* which candidates are fetched (select_source_candidates), what a fetched  *)
(* page proves about the product (core/workflow.py), which candidates a     *)
(* targeted query accepts (core/targeted_search.py), which unknown sites    *)
(* gain authority (core/authority.py), and which value of a field is        *)
(* confirmed (core/validation.py).                                         *)
(*                                                                         *)
(* A claim is what a candidate or a source asserts of itself: source_type, *)
(* authority_status, identity_relation, model_relevance. The text of a page *)
(* is reduced to what these decisions ask of it: whether it names the model *)
(* (PagesNaming), what it links to, which role it claims.                   *)
(***************************************************************************)
EXTENDS Integers, FiniteSets, Sequences, SequencesExt

CONSTANTS
  Urls,               \* the URLs met, in their lexical order
  Canonical,          \* canonicalize_url; NoUrl when there is none
  NoUrl,
  PathKey,            \* _url_path_key: host and path of each URL, whatever its query
  Host,               \* host of each canonical URL
  PagesNaming,        \* URLs whose page names the requested model
  HostsLinked,        \* hosts that the page of a URL links to
  ClaimedRole,        \* the role a page claims for its own site
  VariantFields,      \* fields whose value differs between variants
  Placeholder         \* a value such as "n/a"

ASSUME EvidenceAssumption ==
  /\ Urls \subseteq Nat /\ PagesNaming \subseteq Urls
  /\ NoUrl \notin Urls /\ Canonical \in [Urls -> Urls \cup {NoUrl}]
  /\ \A u, v \in Urls : Canonical[u] # NoUrl /\ Canonical[u] = Canonical[v] => PathKey[u] = PathKey[v]
  /\ \A u \in Urls : ClaimedRole[u] \in {"unknown", "manufacturer", "distributor"}

Official == {"manufacturer", "official_document"}
SameProduct == {"same_base_model", "exact_variant"}

Claim(c) == [type |-> c.type, authority |-> c.authority,
             relation |-> c.relation, relevance |-> c.relevance]

IsOfficial(c) == c.authority = "verified" /\ c.type \in Official
IsExactOfficial(c) == IsOfficial(c) /\ c.match = "exact" /\ c.relation \in SameProduct

-----------------------------------------------------------------------------
(* select_source_candidates: one candidate per document, ranked by tier,    *)
(* then one per host and role before the mirrors fill the remaining slots.  *)

Selectable(c) ==
  /\ c.gate # "reject"
  /\ c.relation # "different_model" /\ c.relevance # "different_model" /\ c.match # "mismatch"
  /\ Canonical[c.url] # NoUrl

Deduplicated(cs) ==
  {cs[i] : i \in {i \in DOMAIN cs :
     /\ Selectable(cs[i])
     /\ \A j \in DOMAIN cs :
          Selectable(cs[j]) /\ Canonical[cs[j].url] = Canonical[cs[i].url]
            => \/ cs[j].score < cs[i].score
               \/ cs[j].score = cs[i].score /\ i <= j}}

Tier(c, hasExactOfficial) ==
  LET exact == c.match = "exact" /\ c.relation \in SameProduct
      verification == IsOfficial(c) /\ c.gate = "weak" /\ c.relation = "unknown" /\ c.verify
  IN CASE c.gate = "weak" /\ ~verification -> 6
       [] c.authority = "verified" /\ exact /\ c.type = "official_document" -> 0
       [] c.authority = "verified" /\ exact /\ c.type = "manufacturer" -> 1
       [] c.type = "specialized_reference" /\ exact -> IF hasExactOfficial THEN 2 ELSE 3
       [] verification -> IF hasExactOfficial THEN 3 ELSE 2
       [] OTHER -> 4

Precedes(c, d, official) ==
  \/ Tier(c, official) < Tier(d, official)
  \/ Tier(c, official) = Tier(d, official)
     /\ (c.score > d.score \/ (c.score = d.score /\ c.url < d.url))

OrdinaryWeak(c) == c.gate = "weak" /\ ~c.verify
Family(c) == <<Host[Canonical[c.url]], c.type>>

Before(c, S, official) == {d \in S : Precedes(d, c, official)}
HasRoom(chosen, c, limit) ==
  /\ Cardinality(chosen) < limit
  /\ ~(OrdinaryWeak(c) /\ \E d \in chosen : OrdinaryWeak(d))

(* What each pass over the ranked candidates takes: one set.                 *)
FirstPass(kept, limit, official) ==
  {S \in SUBSET kept :
     S = {c \in kept : /\ HasRoom(Before(c, S, official), c, limit)
                       /\ \A d \in Before(c, S, official) : Family(d) # Family(c)}}
SecondPass(kept, first, limit, official) ==
  {S \in SUBSET kept :
     S = {c \in kept \ first : HasRoom(first \cup Before(c, S, official), c, limit)}}

(* The candidates taken, those of the first pass before the others: one list. *)
Listed(first, rest, official) ==
  {s \in [1 .. Cardinality(first \cup rest) -> first \cup rest] :
     \A i, j \in DOMAIN s : i < j =>
       IF s[i] \in first <=> s[j] \in first THEN Precedes(s[i], s[j], official)
       ELSE s[i] \in first}

SelectSourceCandidates(cs, limit) ==
  LET kept == Deduplicated(cs)
      official == \E c \in kept : IsExactOfficial(c)
  IN UNION {UNION {Listed(first, rest, official) : rest \in SecondPass(kept, first, limit, official)} :
              first \in FirstPass(kept, limit, official)}

-----------------------------------------------------------------------------
(* A transport result [url, final, status] seen as the source of a          *)
(* candidate: `says` are the source's own fields, `meta` its                *)
(* discovery_metadata, `rejected` its official_rejection_reason.            *)

CandidateFetchView(page, c) ==
  [url |-> page.url, final |-> page.final, status |-> page.status,
   says |-> Claim(c), meta |-> Claim(c), rejected |-> FALSE]

Identified(claim, relation, relevance) ==
  [claim EXCEPT !.relation = relation, !.relevance = relevance]

(* Only a verification fetch whose page names the model gains an identity.  *)
VerifyFetchedIdentity(v, c) ==
  IF /\ v.status = "success" /\ c.relation = "unknown" /\ IsOfficial(c) /\ c.verify
     /\ v.final \in PagesNaming
  THEN [v EXCEPT !.says = Identified(@, "same_base_model", "exact_base_model"),
                 !.meta = Identified(@, "same_base_model", "exact_base_model")]
  ELSE v

RedirectedAway(v, c) ==
  /\ v.status = "success" /\ IsOfficial(c)
  /\ PathKey[c.url] # PathKey[v.final] /\ v.final \notin PagesNaming

(* Mutant: the identity withdrawn from the source, not from its metadata. *)
RejectRedirectedSourceOnly(v, c) ==
  IF RedirectedAway(v, c)
  THEN [v EXCEPT !.says = Identified(@, "unknown", "unknown"), !.rejected = TRUE]
  ELSE v

RejectRedirectedOfficialIdentity(v, c) ==
  IF RedirectedAway(v, c)
  THEN [v EXCEPT !.says = Identified(@, "unknown", "unknown"),
                 !.meta = Identified(@, "unknown", "unknown"), !.rejected = TRUE]
  ELSE v

FetchOnceView(page, c) ==
  RejectRedirectedOfficialIdentity(
    VerifyFetchedIdentity(CandidateFetchView(page, c), c), c)

(* Targeted search copies the source it got and lays the candidate's claim  *)
(* over it, keeping only an authority that was verified.                    *)
TargetedView(v, c) ==
  [v EXCEPT !.meta = Claim(c),
            !.says = IF v.says.authority = "verified"
                     THEN Identified(@, c.relation, c.relevance) ELSE Claim(c)]

(* _candidate_identity_rejection. c.variant is what the candidate shows of  *)
(* the requested variant: "matches", "silent" or "conflicts".               *)
CandidateIdentityRejection(c, field) ==
  \/ c.gate = "reject"
  \/ c.relation = "different_model" \/ c.relevance = "different_model" \/ c.match = "mismatch"
  \/ /\ c.relation = "unknown"
     /\ c.relevance \notin {"exact_base_model", "variant_of_base_model", "probable_base_model"}
  \/ /\ field \in VariantFields
     /\ \/ c.variant = "conflicts"
        \/ c.relation # "exact_variant" /\ c.variant = "silent"

-----------------------------------------------------------------------------
(* _resolve_authority_roles: a page that claims a role for its site is       *)
(* believed when a verified manufacturer's page of this run links to it.     *)

Trusted(views) ==
  {v \in views : v.status = "success" /\ v.says.authority = "verified"
                 /\ v.says.type = "manufacturer"}

Corroborated(v, views) ==
  \E t \in Trusted(views) : Host[Canonical[v.final]] \in HostsLinked[t.final]

ResolveAuthorityRole(v, views) ==
  LET Raised(claim) == [claim EXCEPT !.authority = "verified", !.type = ClaimedRole[v.final]]
  IN IF /\ v.status = "success" /\ v.says.authority = "unknown"
        /\ ClaimedRole[v.final] # "unknown" /\ Corroborated(v, views)
     THEN [v EXCEPT !.says = Raised(@), !.meta = Raised(@)]
     ELSE v

-----------------------------------------------------------------------------
(* validate_product_profile. A fact carries the claim and the status of the  *)
(* source that the validation finds for it.                                 *)

AuthorityRank(fact) ==
  CASE IsOfficial(fact.claim) -> 4
    [] ~IsOfficial(fact.claim) /\ fact.claim.type = "specialized_reference" -> 3
    [] ~IsOfficial(fact.claim) /\ fact.claim.type \in {"retailer", "marketplace", "distributor"} -> 2
    [] OTHER -> 1

IdentityCompatible(fact) ==
  IF fact.field \in VariantFields
  THEN \/ fact.claim.relation = "exact_variant"
       \/ fact.claim.relation = "same_base_model" /\ fact.wide
  ELSE fact.claim.relation \in SameProduct

Eligible(fact) ==
  fact.status = "success" /\ fact.value # Placeholder /\ IdentityCompatible(fact)

StrongFact(fact) ==
  /\ Eligible(fact)
  /\ \/ AuthorityRank(fact) = 4 /\ fact.confidence \in {"high", "medium"}
     \/ AuthorityRank(fact) = 3 /\ fact.confidence = "high"

(* _resolve_field: the strongest authority decides, unless it disagrees with *)
(* itself.                                                                  *)
ResolveField(facts) ==
  LET strong == {f \in facts : StrongFact(f)}
      top == {f \in strong : \A g \in strong : AuthorityRank(g) <= AuthorityRank(f)}
      values == {f.value : f \in top}
      Supporting(v) == {f \in facts : Eligible(f) /\ f.value = v}
  IN CASE strong = {} ->
            [status |-> "Unresolved", supporting |-> {f \in facts : Eligible(f)}]
       [] Cardinality(values) > 1 ->
            [status |-> "Conflict", supporting |-> {f \in facts : Eligible(f)}]
       [] OTHER ->
            [status |-> "Confirmed", supporting |-> Supporting(CHOOSE v \in values : TRUE)]
=============================================================================
