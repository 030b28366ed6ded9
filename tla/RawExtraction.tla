------------------------------- MODULE RawExtraction -------------------------------
(***************************************************************************)
(* core/raw_extraction.py: the raw label/value pairs of one official source  *)
(* (a page, or the text of a document), with where and how each was read,   *)
(* and what was left out because it may be about another model.             *)
(*                                                                         *)
(* The pages are those of PageInspection. A label or a value is the name of  *)
(* a text; Text[t] is what the code tests of it: [sku, sibling, bullet,      *)
(* junk, noise, size]. A value is the sequence of the texts it joins.        *)
(***************************************************************************)
EXTENDS PageInspection

CONSTANTS
  Text,        \* text -> [sku: its relation to the requested SKU, sibling: an identifier
               \* shaped like it, bullet: it starts with one, junk: a section of no
               \* interest, noise: never a label, size: "label", "value" or "long"]
  Blank,       \* the empty text
  SpecKey,     \* keys of JSON that name specifications (_STATE_SPEC)
  AnchorKey,   \* those a decoder looks for anywhere in a script (_SPEC_ANCHOR)
  SpecHints, Neighbourhood,   \* node marks: _SPEC_HINT and _NEIGHBOUR_CONTEXT
  PairCap,     \* pairs one reader takes from a page (2,500)
  NodeBudget,  \* JSON nodes visited in a page (80,000)
  TechWindow   \* lines of a technical section after its heading (45)

ASSUME ExtractionAssumption ==
  /\ Blank \in DOMAIN Text /\ AnchorKey \subseteq SpecKey
  /\ PairCap \in Nat \ {0} /\ NodeBudget \in Nat \ {0} /\ TechWindow \in Nat \ {0}

Owned == {"exact", "regional_suffix"}

IsList(s) == Len(s) \in Nat /\ DOMAIN s = 1 .. Len(s)

(* The numbers of S up to n in their order, and lists one after the other: written  *)
(* as recursive functions, which a proof can unfold.                             *)
Numbers(S, n) ==
  LET upTo[m \in Nat] ==
        IF m = 0 THEN << >> ELSE IF m \in S THEN Append(upTo[m - 1], m) ELSE upTo[m - 1]
  IN upTo[n]
Concat(parts) ==
  LET upTo[n \in 0 .. Len(parts)] == IF n = 0 THEN << >> ELSE upTo[n - 1] \o parts[n]
  IN upTo[Len(parts)]

Exclusion(why, n) == [excluded |-> why, count |-> n]
Offer(label, value, location, method, section) ==
  [excluded |-> "no", label |-> label, value |-> value, location |-> location,
   method |-> method, section |-> section]

IsPair(label, value) ==
  /\ label # Blank /\ value # << >> /\ value # <<label>>
  /\ Text[label].size # "long" /\ ~Text[label].noise

-----------------------------------------------------------------------------
(* The collector: the first reader of a pair keeps it.                       *)

NothingYet == [attributes |-> << >>, excluded |-> << >>]

Exclude(c, why, n) ==
  [c EXCEPT !.excluded = [w \in DOMAIN @ \cup {why} |->
     (IF w \in DOMAIN @ THEN @[w] ELSE 0) + (IF w = why THEN n ELSE 0)]]

Add(c, o) ==
  LET same == {i \in DOMAIN c.attributes : c.attributes[i].label = o.label /\ c.attributes[i].value = o.value}
      Again(a) == IF o.location = a.location THEN a ELSE [a EXCEPT !.seenIn = @ \cup {o.location}]
  IN IF ~IsPair(o.label, o.value) THEN c
     ELSE IF o.location \notin {"json_ld", "json_state"} /\ \E i \in DOMAIN o.section : Text[o.section[i]].junk
       THEN Exclude(c, "non_spec_section", 1)
     ELSE IF same # {} THEN [c EXCEPT !.attributes = [i \in DOMAIN @ |-> IF i \in same THEN Again(@[i]) ELSE @[i]]]
     ELSE [c EXCEPT !.attributes = Append(@, [label |-> o.label, value |-> o.value, location |-> o.location,
                                              method |-> o.method, section |-> o.section, seenIn |-> {}])]

Take(c, o) == IF o.excluded = "no" THEN Add(c, o) ELSE Exclude(c, o.excluded, o.count)
Collect(c, offers) == FoldLeft(Take, c, offers)

-----------------------------------------------------------------------------
(* Where a node is                                                          *)

Hideable == {"div", "section", "ul", "li", "dl", "table", "tbody"}
OwnHidden(n) ==
  \/ n.marks \cap {"hidden", "aria_hidden", "display_none"} # {}
  \/ Collapsed(n) /\ n.tag \in Hideable
  \/ Closed(n)

Location(nodes, i) ==
  LET around == AncestorsOrSelf(nodes, i)
      InSummary(j) == nodes[j].tag = "details" /\ \E k \in around : nodes[k].up = j /\ nodes[k].tag = "summary"
  IN IF \E j \in around : nodes[j].tag = "template" THEN "template"
     ELSE IF \E j \in around : OwnHidden(nodes[j]) /\ ~(Closed(nodes[j]) /\ InSummary(j)) THEN "dom_hidden"
     ELSE "visible_dom"

InNeighbourContext(nodes, i) ==
  \E j \in AncestorsOrSelf(nodes, i) :
    nodes[j].tag \in {"nav", "footer", "header"} \/ nodes[j].marks \cap Neighbourhood # {}

(* Six ancestors are looked at, which are all of them in a page so small.     *)
InSpecContext(nodes, i) == \E j \in AncestorsOrSelf(nodes, i) : nodes[j].marks \cap SpecHints # {}

Headings == {"h1", "h2", "h3", "h4", "summary", "caption"}
SectionOf(nodes, i) ==
  LET before == {j \in 1 .. i - 1 : nodes[j].tag \in Headings}
      last == CHOOSE j \in before : \A k \in before : k <= j
  IN IF before = {} \/ nodes[last].text = Blank THEN << >> ELSE <<nodes[last].text>>

-----------------------------------------------------------------------------
(* The readers of a page, in the order they run                              *)

ValueOf(text) == IF text = Blank THEN << >> ELSE <<text>>

(* A table by its rows, [node, cells, inHead]: the cells are nodes, inHead says   *)
(* that the row stands in a thead.                                              *)
TableRowsOf(nodes, t) ==
  LET Cell(i) == nodes[i].tag \in {"th", "td"}
      rows == Numbers({i \in Under(nodes, t) : nodes[i].tag = "tr"}, Len(nodes))
  IN [k \in DOMAIN rows |-> [node |-> rows[k], cells |-> SelectSeq(Children(nodes, rows[k]), Cell),
                             inHead |-> nodes[nodes[rows[k]].up].tag = "thead"]]

(* The first row names columns; the column of the requested model among them.    *)
Headed(nodes, rows) ==
  LET head == rows[1].cells
  IN rows # << >> /\ Len(head) > 2 /\ ((\A k \in 2 .. Len(head) : nodes[head[k]].tag = "th") \/ rows[1].inHead)
ModelColumns(nodes, rows) == {k \in DOMAIN rows[1].cells : Text[nodes[rows[1].cells[k]].text].sku \in Owned}
SiblingColumn(nodes, rows) == \E k \in DOMAIN rows[1].cells : Text[nodes[rows[1].cells[k]].text].sibling
FirstColumn(own) == IF own = {} THEN 0 ELSE CHOOSE k \in own : \A l \in own : k <= l

(* The rows with two cells or more, by their texts; a label alone opens a group   *)
(* for the bullets after it.                                                    *)
ReadRows(nodes, rows, headed, column, section) ==
  LET Row(r, says, location, in) ==
        IF column # 0 /\ column <= Len(says)
          THEN IF r = rows[1] THEN << >>
               ELSE <<Offer(says[1], ValueOf(says[column]), location, "table_row_model_column", in)>>
        ELSE IF Len(says) = 2 THEN <<Offer(says[1], ValueOf(says[2]), location, "table_row", in)>>
        ELSE IF headed /\ r # rows[1] THEN <<Offer(says[1], Tail(says), location, "table_row_multi", in)>>
        ELSE << >>
      TakeRow(state, r, says) ==
        IF Len(says) < 2 THEN state
        ELSE IF Len(says) = 2 /\ says[2] = Blank
          THEN [state EXCEPT !.group = IF Text[says[1]].bullet THEN @ ELSE says[1]]
        ELSE [group |-> IF Text[says[1]].bullet THEN state.group ELSE Blank,
              offers |-> state.offers \o Row(r, says, Location(nodes, r.node),
                 IF state.group # Blank /\ Text[says[1]].bullet THEN section \o <<state.group>> ELSE section)]
      Read(state, r) == TakeRow(state, r, [k \in DOMAIN r.cells |-> nodes[r.cells[k]].text])
  IN FoldLeft(Read, [group |-> Blank, offers |-> << >>], rows).offers

ReadTable(nodes, t) ==
  LET Readable(rows, headed, column) ==
        IF headed /\ column = 0 /\ SiblingColumn(nodes, rows) THEN <<Exclusion("neighbour_model_columns", Len(rows) - 1)>>
        ELSE ReadRows(nodes, rows, headed, column, SectionOf(nodes, t))
      Columns(rows, headed) == Readable(rows, headed, IF headed THEN FirstColumn(ModelColumns(nodes, rows)) ELSE 0)
      Found(rows) == Columns(rows, Headed(nodes, rows))
  IN IF InNeighbourContext(nodes, t) THEN <<Exclusion("neighbour_context_table", 1)>> ELSE Found(TableRowsOf(nodes, t))

ReadDefinitionList(nodes, d) ==
  LET entries == Numbers({i \in Under(nodes, d) : nodes[i].tag \in {"dt", "dd"}}, Len(nodes))
      Term(k) == LET terms == {j \in 1 .. k : nodes[entries[j]].tag = "dt"}
                 IN IF terms = {} THEN 0 ELSE entries[CHOOSE j \in terms : \A l \in terms : l <= j]
      defined == Numbers({k \in DOMAIN entries : nodes[entries[k]].tag = "dd" /\ Term(k) # 0}, Len(entries))
  IN IF InNeighbourContext(nodes, d) THEN <<Exclusion("neighbour_context_dl", 1)>>
     ELSE [k \in DOMAIN defined |->
             Offer(nodes[Term(defined[k])].text, ValueOf(nodes[entries[defined[k]]].text),
                   Location(nodes, entries[defined[k]]), "definition_list", SectionOf(nodes, d))]

Unread == {"script", "style", "svg", "img", "br", "noscript"}
Nested == {"table", "ul", "ol", "dl"}
IsElementPair(nodes, i) ==
  LET kids == SelectSeq(Children(nodes, i), LAMBDA k : nodes[k].tag \notin Unread)
      Kid(k) == nodes[kids[k]]
  IN /\ nodes[i].tag \in {"div", "li", "p", "section", "span"} /\ Len(kids) = 2
     /\ ("label" \in Kid(1).marks /\ "value" \in Kid(2).marks) \/ InSpecContext(nodes, i)
     /\ \A k \in 1 .. 2, j \in DOMAIN nodes : j \in Under(nodes, kids[k]) => nodes[j].tag \notin Nested
     /\ IsPair(Kid(1).text, ValueOf(Kid(2).text)) /\ Text[Kid(1).text].size = "label"
     /\ Text[Kid(2).text].size # "long" /\ "cart" \notin Kid(2).marks

IsColonLine(nodes, i) ==
  LET n == nodes[i]
  IN /\ n.tag \in {"li", "p", "div", "span", "td"} /\ n.pair # NoPair
     /\ \A j \in Under(nodes, i) : nodes[j].tag \notin {"li", "p", "div", "table", "ul", "ol"}
     /\ "strong_label" \in n.marks \/ (InSpecContext(nodes, i) /\ n.tag \in {"li", "p", "div"})
     /\ Text[n.pair.label].size = "label"

(* A reader stops at its cap; what it leaves out does not count.              *)
UpToCap(nodes, found, Read(_), why) ==
  LET Step(state, i) ==
        IF state.count >= PairCap THEN state
        ELSE IF InNeighbourContext(nodes, i) THEN [state EXCEPT !.offers = Append(@, Exclusion(why, 1))]
        ELSE [count |-> state.count + 1, offers |-> Append(state.offers, Read(i))]
  IN FoldLeft(Step, [count |-> 0, offers |-> << >>], Numbers(found, Len(nodes))).offers

ReadElementPairs(nodes) ==
  LET Read(i) ==
        LET kids == SelectSeq(Children(nodes, i), LAMBDA k : nodes[k].tag \notin Unread)
        IN Offer(nodes[kids[1]].text, ValueOf(nodes[kids[2]].text), Location(nodes, i), "element_pair",
                 SectionOf(nodes, i))
  IN UpToCap(nodes, {i \in DOMAIN nodes : IsElementPair(nodes, i)}, Read, "neighbour_context_pair")

ReadLabelColon(nodes) ==
  LET Read(i) == Offer(nodes[i].pair.label, ValueOf(nodes[i].pair.value), Location(nodes, i), "label_colon",
                       SectionOf(nodes, i))
  IN UpToCap(nodes, {i \in DOMAIN nodes : IsColonLine(nodes, i)}, Read, "neighbour_context_line")

ReadStructures(nodes) ==
  LET EachOf(tag, Read(_, _)) ==
        LET found == Numbers({i \in DOMAIN nodes : nodes[i].tag = tag}, Len(nodes))
        IN Concat([k \in DOMAIN found |-> Read(nodes, found[k])])
  IN EachOf("table", ReadTable) \o EachOf("dl", ReadDefinitionList)
       \o ReadElementPairs(nodes) \o ReadLabelColon(nodes)

(* What a script's template holds is read on its own, then offered again.     *)
ReadScriptTemplates(scripts) ==
  LET Templated(c) ==
        [i \in DOMAIN c.attributes |-> Offer(c.attributes[i].label, c.attributes[i].value, "template",
                                             c.attributes[i].method, c.attributes[i].section)]
      Left(c) == LET why == SetToSeq(DOMAIN c.excluded)
                 IN [i \in DOMAIN why |-> Exclusion(why[i], c.excluded[why[i]])]
      Again(c) == Templated(c) \o Left(c)
      Read(s) == Again(Collect(NothingYet, ReadStructures(s.nodes)))
      templates == SelectSeq(scripts, LAMBDA s : s.type = "template")
  IN Concat([k \in DOMAIN templates |-> Read(templates[k])])

-----------------------------------------------------------------------------
(* JSON. A product of JSON-LD is [ids, fields, properties]: the text of its   *)
(* identifiers and its pairs. A node of JSON state is [kind, up, key, ids,     *)
(* label, value, flat, small, fields, keyed]: its place in the document order, *)
(* the label and value its keys give (or Blank), whether all its values are    *)
(* scalars, its scalars (key as a label), and the pairs its grouped lists name. *)

OtherProduct == {"absent", "different_variant", "different_suffix"}

ReadJsonLd(scripts) ==
  LET Pairs(pairs, method) ==
        [k \in DOMAIN pairs |-> Offer(pairs[k][1], ValueOf(pairs[k][2]), "json_ld", method, << >>)]
      Product(p) ==
        IF Text[p.ids].sku \in OtherProduct /\ Text[p.ids].sibling
          THEN <<Exclusion("neighbour_json_ld_product", 1)>>
        ELSE Pairs(p.fields, "json_ld_field") \o Pairs(p.properties, "json_ld_property")
      Read(s) == IF ~s.parses THEN <<Exclusion("json_ld_unparseable", 1)>>
                 ELSE Concat([k \in DOMAIN s.nodes |-> Product(s.nodes[k])])
      linked == SelectSeq(scripts, LAMBDA s : s.type = "ld")
  IN Concat([k \in DOMAIN linked |-> Read(linked[k])])

IsNeighbourJson(n) ==
  /\ n.kind = "dict" /\ n.ids # Blank /\ Text[n.ids].sku \notin {"exact", "regional_suffix", "base_only"}
  /\ Text[n.ids].sku \in {"different_variant", "different_suffix"} \/ Text[n.ids].sibling

(* The keys above a node, from the root of the walk down.                     *)
PathFrom(nodes, root, i) ==
  LET named == {j \in AncestorsOrSelf(nodes, i) : j >= root /\ nodes[j].key # Blank}
  IN [k \in 1 .. Cardinality(named) |-> nodes[Numbers(named, Len(nodes))[k]].key]

StateOffers(nodes, root, i) ==
  LET n == nodes[i]
      path == PathFrom(nodes, root, i)
      near == {path[k] : k \in {j \in DOMAIN path : j > Len(path) - 6}}
      last == IF path = << >> THEN Blank ELSE path[Len(path)]
      Said(label, value, method, section) == Offer(label, ValueOf(value), "json_state", method, section)
      keyed == [k \in DOMAIN n.keyed |-> Said(n.keyed[k].label, n.keyed[k].value, "json_state_keyed_spec", <<n.keyed[k].group>>)]
      pair == IF n.label # Blank /\ n.value # Blank /\ n.small
                THEN <<Said(n.label, n.value, "json_state_pair", SubSeq(path, IF Len(path) > 1 THEN Len(path) - 1 ELSE 1, Len(path)))>>
              ELSE IF n.flat /\ last \in SpecKey
                THEN [k \in DOMAIN n.fields |-> Said(n.fields[k][1], n.fields[k][2], "json_state_map", <<last>>)]
              ELSE << >>
  IN IF n.kind # "dict" THEN << >>
     ELSE IF IsNeighbourJson(n) THEN <<Exclusion("neighbour_json_product", 1)>>
     ELSE keyed \o (IF near \cap SpecKey # {} THEN pair ELSE << >>)

(* The nodes below another model's product are not visited; the budget is     *)
(* shared by the walks of a page.                                             *)
WalkState(nodes, root, budget) ==
  LET Skipped(i) == \E j \in AncestorsOrSelf(nodes, i) \ {i} : j >= root /\ IsNeighbourJson(nodes[j])
      reached == Numbers({i \in {root} \cup Under(nodes, root) : ~Skipped(i)}, Len(nodes))
      visited == SubSeq(reached, 1, IF Len(reached) > budget THEN budget ELSE Len(reached))
  IN [offers |-> Concat([k \in DOMAIN visited |-> StateOffers(nodes, root, visited[k])]),
      left |-> budget - Len(visited)]

(* Values that hang off a specification key, outside those already decoded.   *)
AnchoredRoots(nodes) ==
  {i \in DOMAIN nodes :
     /\ nodes[i].key \in AnchorKey
     /\ \A j \in AncestorsOrSelf(nodes, i) \ {i} : nodes[j].key \notin AnchorKey}

(* What is walked of a script: the anchored values first, then the whole of it    *)
(* when it parses; what Next.js pushes is one more text, which does not parse as a *)
(* whole. Of a data-* attribute, a script of type "data" whose root has the         *)
(* attribute's name as its key, only the whole; where its element stands is not    *)
(* looked at. The attributes come last.                                          *)
WalkedRoots(s) ==
  (IF s.type = "state" THEN Numbers(AnchoredRoots(s.nodes), Len(s.nodes)) ELSE << >>)
    \o (IF s.parses /\ s.nodes # << >> THEN <<1>> ELSE << >>)

ReadJsonState(scripts) ==
  LET Walked(state, w) == [offers |-> state.offers \o w.offers, left |-> w.left]
      Walk(state, s) ==
        FoldLeft(LAMBDA st, root : Walked(st, WalkState(s.nodes, root, st.left)), state, WalkedRoots(s))
      Kept(type) == SelectSeq(scripts, LAMBDA s : s.type = type /\ s.spec)
  IN FoldLeft(Walk, [offers |-> << >>, left |-> NodeBudget], Kept("state") \o Kept("data")).offers

(* JSON first: it wins the ties of provenance.                                *)
ExtractHtmlAttributes(page) ==
  Collect(NothingYet, ReadJsonLd(page.scripts) \o ReadJsonState(page.scripts)
                        \o ReadStructures(page.nodes) \o ReadScriptTemplates(page.scripts))

-----------------------------------------------------------------------------
(* Documents. A page of a document is [model, sibling, lines]: whether it      *)
(* names the requested model, another of its shape, and its lines; a line is   *)
(* [kind, label, value]: a technical heading, a colon line, a label with a     *)
(* quantity, or anything else.                                               *)

DocumentLines(lines, tech, techOnly) ==
  LET Line(state, l) ==
        LET inTech == state.tech > 0
            left == IF inTech THEN state.tech - 1 ELSE 0
            method == IF l.kind = "colon" THEN "pdf_label_colon" ELSE "pdf_tech_section_line"
            taken == (~techOnly \/ inTech) /\ (l.kind = "colon" \/ (l.kind = "unit" /\ inTech))
        IN IF l.kind = "heading" THEN [state EXCEPT !.tech = TechWindow]
           ELSE [tech |-> left,
                 out |-> IF taken THEN Append(state.out, [label |-> l.label, value |-> <<l.value>>, method |-> method])
                         ELSE state.out]
  IN FoldLeft(Line, [tech |-> tech, out |-> << >>], lines)

(* Mutant: only the page itself decides, whatever the rest of the document names. *)
ScopePageByPage(pages) ==
  [selected |-> SelectSeq([i \in DOMAIN pages |-> [page |-> i, scope |-> IF pages[i].model THEN "document_model_page" ELSE "document_scope"]],
                          LAMBDA s : pages[s.page].model \/ ~pages[s.page].sibling),
   named |-> \E i \in DOMAIN pages : pages[i].model,
   multi |-> \E i \in DOMAIN pages : pages[i].sibling,
   shared |-> {}, ambiguous |-> {}]

ScopeDocumentPages(pages) ==
  LET multi == \E i \in DOMAIN pages : pages[i].sibling
      own == {i \in DOMAIN pages : pages[i].model /\ ~pages[i].sibling}
      scoped == {i \in DOMAIN pages : ~pages[i].model /\ ~multi}
      shared == {i \in DOMAIN pages : pages[i].model /\ pages[i].sibling}
  IN [selected |-> [k \in 1 .. Cardinality(own \cup scoped) |->
                      LET i == Numbers(own \cup scoped, Len(pages))[k]
                      IN [page |-> i, scope |-> IF i \in own THEN "document_model_page" ELSE "document_scope"]],
      named |-> \E i \in DOMAIN pages : pages[i].model,
      multi |-> multi, shared |-> shared,
      ambiguous |-> DOMAIN pages \ (own \cup scoped \cup shared)]

ProseTypes == {"manual", "instruction", "user_guide", "quick_start_guide"}

(* The technical window survives from one selected page to the next; techOnly is   *)
(* said of the documents of ProseTypes.                                         *)
ExtractDocumentAttributes(pages, techOnly) ==
  LET scope == ScopeDocumentPages(pages)
      OnPage(state, s) ==
        LET read == DocumentLines(pages[s.page].lines, state.tech, techOnly)
            New(found, l) ==
              IF \E i \in DOMAIN found : found[i].label = l.label /\ found[i].value = l.value THEN found
              ELSE IF ~IsPair(l.label, l.value) THEN found
              ELSE Append(found, [label |-> l.label, value |-> l.value, location |-> "document", method |-> l.method,
                                  section |-> << >>, page |-> s.page, scope |-> s.scope, seenIn |-> {}])
        IN [tech |-> read.tech, found |-> FoldLeft(New, state.found, read.out)]
      kept == FoldLeft(OnPage, [tech |-> 0, found |-> << >>], scope.selected)
      Withheld(n, s) == n + Len(DocumentLines(pages[s.page].lines, 0, FALSE).out)
      Counts(c, why, n) == IF n = 0 THEN c ELSE Exclude(c, why, n)
  IN IF ~scope.named
       THEN Exclude(NothingYet, "document_model_not_in_text", FoldLeft(Withheld, 0, scope.selected))
     ELSE Counts(Counts([attributes |-> kept.found, excluded |-> << >>],
                        "neighbour_sku_shared_page", Cardinality(scope.shared)),
                 "neighbour_sku_ambiguous_page", Cardinality(scope.ambiguous))
=============================================================================
