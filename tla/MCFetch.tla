-------------------------------- MODULE MCFetch --------------------------------
(* An instance of BrowserSessions for TLC: two threads and one host. *)
EXTENDS BrowserSessions, TLC

MCCandidates ==
  {NoCandidate} \cup [host : Hosts, http : {TRUE}, verified : {TRUE}]

(* A challenge, a product in JSON-LD, a shell without and one with text, a  *)
(* page of placeholders, specifications still to be filled in, a full page. *)
Plain == [challenge |-> FALSE, product |-> FALSE, text |-> 600, shell |-> FALSE, specs |-> 0,
          skeletons |-> 0, labels |-> 0, empty |-> 0, pending |-> 0]
MCPages ==
  {[Plain EXCEPT !.challenge = TRUE], [Plain EXCEPT !.product = TRUE, !.text = 0],
   [Plain EXCEPT !.text = 0], [Plain EXCEPT !.text = 300, !.shell = TRUE],
   [Plain EXCEPT !.specs = 1, !.skeletons = 2],
   [Plain EXCEPT !.specs = 5, !.labels = 3, !.empty = 3], Plain}

(* A challenge, another brand's page, the brand's without the model, with it in *)
(* a payload only, in an image's address, and in an answer to a script.         *)
Anchor == [source |-> "anchor", own |-> TRUE, landing |-> FALSE, asset |-> FALSE,
           named |-> TRUE, nearby |-> TRUE]
BrandPage == [blocked |-> FALSE, brand |-> TRUE, links |-> {}, xhr |-> {}]
MCShown ==
  {[BrandPage EXCEPT !.blocked = TRUE], [BrandPage EXCEPT !.brand = FALSE, !.links = {Anchor}],
   [BrandPage EXCEPT !.links = {[Anchor EXCEPT !.source = "payload", !.named = FALSE],
                                [Anchor EXCEPT !.asset = TRUE]}],
   [BrandPage EXCEPT !.xhr = {Anchor}]}

=============================================================================
