------------------------------- MODULE MCWorkflow -------------------------------
(* The two parts of the verifier, one of them in each behaviour: the answers   *)
(* that verify() caches, or the workflow that computes one.                   *)
(*                                                                           *)
(* The pages of the workflow are 1: the manufacturer's product page, 2: its    *)
(* specification page, 3: a reference site, 4: the manufacturer's landing      *)
(* page, 5: a mirror URL of 1, 6: the product page under another query.        *)
EXTENDS WorkflowProperties, VerifierProperties

VARIABLE part

MCUrls == 1 .. 6
MCCanonical == <<1, 2, 3, 4, 1, 6>>
MCPathKey == <<1, 2, 3, 4, 1, 1>>
MCHost == [d \in {1, 2, 3, 4, 6} |-> IF d = 3 THEN "reference" ELSE "maker"]
MCPagesNaming == {2, 3}
MCHostsLinked == <<{}, {"maker"}, {}, {"maker"}, {}, {}>>
MCClaimedRole == <<"manufacturer", "unknown", "unknown", "manufacturer", "unknown", "unknown">>

MCFields == <<"weight", "color", "depth">>
Says(f, v, c) == [field |-> f, value |-> v, confidence |-> c]
MCContent == <<{}, {Says("weight", 1, "high")},
               {Says("weight", 2, "high"), Says("color", 1, "medium"), Says("depth", 1, "medium")},
               {Says("weight", 2, "high"), Says("color", 2, "high")}, {},
               {Says("weight", 3, "high")}>>
MCBoundContent == <<{Says("color", 1, "high"), Says("weight", 3, "high")}, {Says("color", 1, "high")}, {}, {}, {}, {}>>
MCSpecLinks == <<<<2>>, <<5>>, <<>>, <<>>, <<>>, <<>>>>
MCRedirects == <<{1, 4, 6}, {2}, {3}, {4}, {1}, {6}>>

Found(url, type, authority, relation, gate, score) ==
  [url |-> url, type |-> type, authority |-> authority, relation |-> relation,
   relevance |-> IF relation = "unknown" THEN "unknown" ELSE "exact_base_model",
   match |-> IF relation = "unknown" THEN "unknown" ELSE "exact",
   gate |-> gate, verify |-> relation = "unknown", variant |-> "silent", score |-> score]

Product == Found(1, "manufacturer", "verified", "same_base_model", "exact", 3)
Unverified == Found(5, "retailer", "unknown", "exact_variant", "exact", 2)
Spec2 == Found(2, "official_document", "verified", "unknown", "weak", 2)
Landing == Found(4, "manufacturer", "verified", "same_base_model", "weak", 1)
Reference == Found(3, "specialized_reference", "unknown", "same_base_model", "exact", 1)

MCInitialOutcomes ==
  {<<Product, Reference>>, <<Unverified, Spec2>>, <<Reference, Unverified, Product>>,
   <<Landing, Unverified>>, << >>}
MCTargetedOutcomes ==
  {[status |-> "success", candidates |-> c] :
     c \in {<< >>, <<Product>>, <<Spec2, Reference, Unverified>>, <<Reference>>,
            <<Unverified, Product>>, <<Landing>>}}
    \cup {[status |-> s, candidates |-> <<Unverified>>] : s \in {"blocked", "error"}}
MCQueries == [f \in ToSet(MCFields) |-> 2]
MCStreakLimits ==
  [s \in Streaks |-> CASE s = "duplicate_domain_saturation" -> 1
                       [] s = "no_confirmed_gain" -> 3
                       [] OTHER -> 2]

(* The part that does not run stays as it starts.                             *)
MCInit ==
  /\ part \in {"service", "workflow"} /\ Init /\ WorkflowInit
  /\ part = "service" => ~enabled
  /\ part = "workflow" => deployed = 1 /\ \A k \in Keys : store[k] = NoEntry
MCNext ==
  /\ \/ part = "service" /\ Next /\ UNCHANGED workflowVars
     \/ part = "workflow" /\ WorkflowNext /\ UNCHANGED vars
  /\ UNCHANGED part
MCSpec == MCInit /\ [][MCNext]_<<part, vars, workflowVars>>
=============================================================================
