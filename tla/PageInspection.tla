------------------------------ MODULE PageInspection ------------------------------
(***************************************************************************)
(* core/page_inspection.py: how a delivered page keeps its specifications   *)
(* (visible, hidden in the document, in JSON state, or absent until a       *)
(* script runs), and how a page is fetched.                                 *)
(*                                                                         *)
(* A page is [nodes, scripts, title, links, text]. Its nodes are in document *)
(* order; a node is [tag, up, marks, text, pair, target]: up is the index of *)
(* its parent (0 for none), marks what its attributes and classes say, text  *)
(* the text under it, pair the "Label: value" that text is (or NoPair).      *)
(* A script is [type, spec, nodes]: spec when a specification key is in it,  *)
(* nodes its JSON in document order.                                         *)
(***************************************************************************)
EXTENDS Naturals, FiniteSets, Sequences, SequencesExt

CONSTANTS
  NoPair,        \* a text that is not "Label: value"
  ShellText      \* fewer texts than this in the body of a script shell (600 characters)

AncestorsOrSelf(nodes, i) ==
  LET up[j \in 0 .. Len(nodes)] == IF j = 0 THEN {} ELSE {j} \cup up[nodes[j].up]
  IN up[i]
Under(nodes, i) == {j \in i + 1 .. Len(nodes) : i \in AncestorsOrSelf(nodes, j)}
Children(nodes, i) == SelectSeq([j \in 1 .. Len(nodes) |-> j], LAMBDA j : nodes[j].up = i)
Some(nodes, S, mark) == \E j \in S : mark \in nodes[j].marks

-----------------------------------------------------------------------------
(* The scan                                                                 *)

IsSpecMarked(n) == "spec" \in n.marks
Closed(n) == n.tag = "details" /\ "open" \notin n.marks
PlainlyHidden(n) ==
  \/ n.marks \cap {"hidden", "display_none", "aria_hidden"} # {}
  \/ Closed(n) \/ n.tag = "template"
Collapsed(n) == "collapsed" \in n.marks /\ "active" \notin n.marks

(* A collapsed class hides only a container named for specifications.        *)
FrameHidden(n) == PlainlyHidden(n) \/ (Collapsed(n) /\ IsSpecMarked(n))

SpecRows(nodes) ==
  {i \in DOMAIN nodes :
     /\ nodes[i].tag \in {"tr", "dt"} \/ (nodes[i].pair # NoPair /\ nodes[i].tag \notin {"td", "dd", "th", "dt"})
     /\ \E j \in AncestorsOrSelf(nodes, i) : IsSpecMarked(nodes[j])}
HiddenRows(nodes) ==
  {i \in SpecRows(nodes) : \E j \in AncestorsOrSelf(nodes, i) : FrameHidden(nodes[j])}

(* Elements that say "show all specifications", or tabs named for them.       *)
Interactive == {"expandable", "tab", "toggle", "link"}
SpecControls(nodes) ==
  {i \in DOMAIN nodes :
     /\ nodes[i].marks \cap Interactive # {} \/ nodes[i].tag \in {"a", "button", "summary"}
     /\ \/ "spec_control" \in nodes[i].marks
        \/ "spec_tab" \in nodes[i].marks /\ nodes[i].marks \cap {"expandable", "tab"} # {}}

(* What a node's markup tells: [kind, named] (named: its id or class is a     *)
(* specification's).                                                         *)
Signals(nodes) ==
  LET Signal(kind, n) == [kind |-> kind, named |-> IsSpecMarked(n)]
      Told(n) == PlainlyHidden(n) /\ (IsSpecMarked(n) \/ n.tag \in {"details", "template"})
      HiddenBy(n) ==
        IF "hidden" \in n.marks THEN "hidden_attribute"
        ELSE IF "display_none" \in n.marks THEN "display_none"
        ELSE IF n.tag = "details" THEN "closed_details"
        ELSE IF n.tag = "template" THEN "template" ELSE "aria_hidden"
      all == {nodes[i] : i \in DOMAIN nodes}
  IN {Signal(HiddenBy(n), n) : n \in {m \in all : Told(m)}}
       \cup {Signal("collapsed_container", n) : n \in {m \in all : Collapsed(m) /\ IsSpecMarked(m)}}
       \cup {[kind |-> "aria_expanded", named |-> FALSE] : n \in {m \in all : "unexpanded" \in m.marks}}
       \cup {[kind |-> "collapse_toggle", named |-> FALSE] : n \in {m \in all : "toggle" \in m.marks}}

JsonBlocks(scripts) ==
  Cardinality({i \in DOMAIN scripts : scripts[i].type \in {"json", "state", "ld"} /\ scripts[i].spec})

-----------------------------------------------------------------------------
(* The verdict                                                              *)

InspectProductPage(page) ==
  LET nodes == page.nodes
      signals == Signals(nodes)
      Signalled(kinds) == \E s \in signals : s.kind \in kinds
      controls == SpecControls(nodes)
      hiddenRows == Cardinality(HiddenRows(nodes))
      visibleRows == Cardinality(SpecRows(nodes)) - hiddenRows
      blocks == JsonBlocks(page.scripts)
      targetInDom == \E i, j \in DOMAIN nodes : "id" \in nodes[j].marks /\ nodes[i].target = j
      expandable ==
        \/ controls # {}
        \/ Signalled({"aria_expanded", "collapse_toggle", "closed_details"}) /\ \E s \in signals : s.named
      shell == Some(nodes, DOMAIN nodes, "shell_root") /\ page.text < ShellText
      hiddenDom == hiddenRows > 0 \/ Signalled({"hidden_attribute", "display_none", "closed_details",
                                                "template", "collapsed_container"})
      inHtml == hiddenRows + visibleRows >= 3 \/ blocks > 0
      interaction ==
        IF shell THEN "unknown"
        ELSE IF expandable /\ ~inHtml /\ ~targetInDom THEN "true"
        ELSE IF inHtml \/ ~expandable THEN "false" ELSE "unknown"
  IN [expandable |-> expandable,
      hidden |->
        IF hiddenRows > 0 \/ blocks > 0 THEN "true"
        ELSE IF shell THEN "unknown"
        ELSE IF hiddenDom \/ (expandable /\ targetInDom /\ visibleRows > 0) THEN "true" ELSE "false",
      interaction |-> interaction,
      shell |-> shell,
      location |->
        IF shell THEN "unknown"
        ELSE IF interaction = "true" THEN "js_required"
        ELSE IF hiddenRows > 0 \/ (hiddenDom /\ visibleRows = 0 /\ blocks = 0) THEN "dom_hidden"
        ELSE IF blocks > 0 THEN "json_state"
        ELSE IF visibleRows > 0 THEN "visible_dom" ELSE "unknown"]

-----------------------------------------------------------------------------
(* Fetching. An address has one spelling or two (with and without a trailing  *)
(* slash); an answer to a spelling is "page", "refused" (an error, a status   *)
(* of 400 or more, another content type) or "dropped" (the connection is lost  *)
(* while the body is read, which fetch_page_html does not catch).             *)

UrlVariants(slashed) == IF slashed THEN <<1, 2>> ELSE <<1>>

(* The first spelling that answers; "raised" when a body breaks off.           *)
FetchWorkingPage(slashed, answers) ==
  LET spoken == SelectSeq(UrlVariants(slashed), LAMBDA k : answers[k] # "refused")
  IN IF spoken = << >> THEN "none"
     ELSE IF answers[spoken[1]] = "dropped" THEN "raised" ELSE "page"
=============================================================================
