--------------------------- MODULE WorkflowProperties ---------------------------
(* What one verification promises. *)
EXTENDS ProductWorkflow

TargetedStages == {"targeted_search", "targeted_discovery", "targeted_fetch",
                   "targeted_extraction"}

(* No document is requested twice in one verification, by whichever stage,   *)
(* link or mirror URL it is met again (fetch_cache of fetch_once).           *)
RequestedOnce == \A d \in Docs : requests[d] <= 1

(* Nor does the initial fetch loop visit a document twice, although its list  *)
(* grows while it runs (queued).                                            *)
FetchedOnce ==
  /\ RequestedOnce
  /\ \A i, j \in DOMAIN sources : Canonical[sources[i].url] = Canonical[sources[j].url] => i = j

InitialWorkLeft ==
  \/ ~(at > Len(queue))
  \/ \E i \in DOMAIN sources : sources[i].status = "success" /\ i \notin extracted

(* Exhaustion is recorded with the exact stage: a result cut short by the    *)
(* budget says so, and a targeted stage is only named when every initial      *)
(* source was fetched and extracted (WallClockBudget.mark_exhausted).        *)
ExhaustionIsExact ==
  /\ exhaustedStage \in TargetedStages => ~InitialWorkLeft
  /\ step = "done" =>
       \/ exhaustedStage # None
       \/ /\ ~InitialWorkLeft
          /\ IF enabled THEN plan \in MissingFields ELSE plan = << >>
          /\ \A i \in DOMAIN stops : stops[i].reason # "budget_exhausted"

ResultsOf(f) == {i \in DOMAIN results : results[i].field = f}

(* A targeted search that ends says truthfully why: it visits every planned   *)
(* field unless its last field stopped it globally, and each stop reason is   *)
(* what happened to the field (_run_targeted_search).                       *)
StopIsHonest ==
  /\ step = "resolve" /\ plan # << >> =>
       /\ stops # << >>
       /\ Len(stops) = Len(plan) \/ Last(stops).global
  /\ \A i \in DOMAIN stops :
       LET s == stops[i] IN
       /\ s.field = plan[i]
       /\ s.global => i = Len(stops)
       /\ s.reason = "query_limit" => Cardinality(ResultsOf(s.field)) = Queries[s.field]
       /\ s.reason = "global_query_limit" => executed = MaxTotalQueries
       /\ s.reason = "strong_official_evidence" =>
            \E r \in ResultsOf(s.field) : results[r].facts # {}
       /\ s.reason \in {"query_limit", "candidate_limit"} => s.field \notin confirmable

Confirming(f) == IF profile[f].status = "Confirmed" THEN profile[f].supporting ELSE {}

(* An official URL that was answered with another page, which does not name   *)
(* the model.                                                               *)
LandedElsewhere(v) ==
  /\ IsOfficial(v.says) /\ v.status = "success"
  /\ PathKey[v.url] # PathKey[v.final] /\ v.final \notin PagesNaming

(* What the initial stage read confirms a value on the word of a source of    *)
(* that page only that has an identity, and none that redirected away has:    *)
(* not by its metadata, nor after its authority was recovered                *)
(* (_reject_redirected_official_identity, _source_metadata).                *)
WithdrawnVouchesForNothing ==
  step = "done" => \A f \in ToSet(Fields) : \A fact \in Confirming(f) \cap ExistingFacts :
    \E i \in DOMAIN sources :
      /\ fact.source \in {sources[i].url, sources[i].final}
      /\ sources[i].meta.relation \in SameProduct /\ ~LandedElsewhere(sources[i])

RejectedPages == {v.url : v \in {v \in AllViews : v.rejected}}

(* "its facts must not be accepted as exact-model official evidence", of an   *)
(* official URL that redirected away (_reject_redirected_official_identity).  *)
(* The targeted search lays a candidate's claim over the identity withdrawn.  *)
WithdrawnIsNoOfficialEvidence ==
  step = "done" => \A f \in ToSet(Fields) : \A fact \in Confirming(f) :
    fact.source \in RejectedPages => ~(IsOfficial(fact.claim) /\ fact.claim.relation \in SameProduct)
=================================================================================
