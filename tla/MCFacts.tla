--------------------------------- MODULE MCFacts ---------------------------------
(* The product X100 beside its neighbour X200, in five small worlds.            *)
EXTENDS FactsPipeline, TLC

Labels == {"Power", "Leistung", "Puissance", "Weight", "Gewicht", "Poids", "Height", "Hauteur", "Width",
           "Largeur", "Voltage", "Dimensions", "Colour", "sku", "weight"}
Values == {"700W", "900W", "2kg", "5kg", "2lb", "300mm", "400mm", "230V 50Hz", "1x2x3", "red", "blue", "X100R", "X100B"}
Models == {"X100", "X200"}
Sections == {"Specifications", "Technical data", "Also bought"}
MCBlank == ""
Texts == Labels \cup Values \cup Models \cup Sections \cup {"", "specs", "products", "name"}

MCText ==
  [t \in Texts |->
     [sku |-> IF t \in {"X100", "X100R", "X100B"} THEN "exact" ELSE IF t = "X200" THEN "different_variant" ELSE "absent",
      sibling |-> t = "X200", bullet |-> FALSE, junk |-> t = "Also bought", noise |-> FALSE,
      size |-> IF t \in Values THEN "value" ELSE "label"]]

Written(figures, unit) ==
  [fold |-> "", says |-> "figures", figures |-> figures, times |-> FALSE, padded |-> FALSE, unit |-> unit,
   again |-> "", alt |-> "", prose |-> FALSE, download |-> FALSE, model |-> FALSE]
Words(t) == [Written(<< >>, "") EXCEPT !.says = "words", !.fold = t]
MCSpelling ==
  [t \in Texts |->
     CASE t = "700W" -> Written(<<700>>, "W") [] t = "900W" -> Written(<<900>>, "W")
       [] t = "2kg" -> Written(<<2>>, "kg") [] t = "5kg" -> Written(<<5>>, "kg") [] t = "2lb" -> Written(<<2>>, "lb")
       [] t = "300mm" -> Written(<<300>>, "mm") [] t = "400mm" -> Written(<<400>>, "mm")
       [] t = "1x2x3" -> [Written(<<100, 200, 300>>, "mm") EXCEPT !.times = TRUE]
       [] OTHER -> [Words(t) EXCEPT !.model = t \in Models]]
MCNaming ==
  [t \in Texts |-> [base |-> IF t = "weight" THEN "Weight" ELSE t, unit |-> "", short |-> FALSE,
                    kind |-> IF t = "weight" THEN "ld_measure" ELSE "none", long |-> FALSE, caption |-> FALSE, download |-> FALSE]]
MCUnit == [u \in {"W", "kg", "lb", "mm", "V", "Hz"} |-> [unit |-> u, doubled |-> FALSE]]
MCWithin ==
  [t \in Texts |->
     IF t = "230V 50Hz"
     THEN <<[figures |-> <<230>>, unit |-> "V", start |-> TRUE, bracket |-> FALSE],
            [figures |-> <<50>>, unit |-> "Hz", start |-> FALSE, bracket |-> FALSE]>> ELSE << >>]
MCReading ==
  [t \in Texts |-> [truth |-> "none", count |-> << >>, spelled |-> << >>, alone |-> FALSE, axes |-> << >>]]
MCAxisOrder == [l \in {"Dimensions"} |-> <<"height_mm", "width_mm", "depth_mm">>]

(* Masses in 10 mg, the others in their canonical unit.                          *)
MCFamily ==
  [f \in {"power", "mass", "length", "voltage", "frequency"} |->
     CASE f = "power" -> [canonical |-> "W", factor |-> [u \in {"W"} |-> 1], tried |-> <<"W">>]
       [] f = "mass" -> [canonical |-> "kg", factor |-> [u \in {"kg", "lb"} |-> IF u = "kg" THEN 100000 ELSE 45359],
                         tried |-> <<"kg">>]
       [] f = "length" -> [canonical |-> "mm", factor |-> [u \in {"mm"} |-> 1], tried |-> <<"mm">>]
       [] f = "voltage" -> [canonical |-> "V", factor |-> [u \in {"V"} |-> 1], tried |-> <<"V">>]
       [] f = "frequency" -> [canonical |-> "Hz", factor |-> [u \in {"Hz"} |-> 1], tried |-> <<"Hz">>]]
Measure(key, family, labels, plausible) ==
  [key |-> key, unit |-> MCFamily[family].canonical, family |-> family, vtype |-> "measure", categories |-> {},
   excluded |-> {}, labels |-> labels, generic |-> {}, weak |-> {}, groups |-> {}, needGroup |-> FALSE,
   groupOnly |-> FALSE, exclude |-> {}, plausible |-> plausible, test |-> << >>, gate |-> {}, pattern |-> << >>,
   prefix |-> FALSE, multi |-> FALSE, component |-> FALSE, hosts |-> {}, axisSplit |-> FALSE]
Part(c) == [c EXCEPT !.component = TRUE]
MCConcept ==
  <<Measure("power_w", "power", {"Power", "Leistung", "Puissance"}, <<1, 20000>>),
    Measure("voltage_v", "voltage", {"Voltage"}, <<1, 1000>>),
    [Measure("frequency_hz", "frequency", {}, <<1, 100000>>) EXCEPT !.hosts = {"voltage_v"}],
    Part(Measure("weight_kg", "mass", {"Weight", "Gewicht", "Poids"}, <<5000, 50000000>>)),
    Part(Measure("height_mm", "length", {"Height", "Hauteur"}, <<5, 3000>>)),
    Part(Measure("width_mm", "length", {"Width", "Largeur"}, <<5, 3000>>)),
    [Measure("dimensions_mm", "length", {"Dimensions"}, <<5, 3000>>) EXCEPT !.vtype = "dimensions", !.axisSplit = TRUE]>>

-----------------------------------------------------------------------------
(* Pages                                                                     *)

Nothing == [type |-> NoType, sku |-> "absent", other |-> FALSE, words |-> "none"]
Manual == [Nothing EXCEPT !.type = "manual"]
Address(key, file, host, text) ==
  [key |-> key, file |-> file, host |-> host, text |-> text, folder |-> NoType, hub |-> FALSE, leaf |-> "x100",
   support |-> FALSE, slashed |-> FALSE]
MCUrl ==
  [u \in {"de", "fr", "prob", "cmp", "man", "man2", "scan", "rec"} |->
     CASE u \in {"de", "fr"} -> Address(u, "page", "acme.com", Nothing)
       [] u = "prob" -> [Address(u, "page", "acme.com", Nothing) EXCEPT !.leaf = "x1", !.slashed = TRUE]
       [] u = "cmp" -> [Address(u, "page", "acme.com", Nothing) EXCEPT !.leaf = "compare"]
       [] u = "man" -> Address("man", "pdf", "cdn.com", Nothing)
       [] u = "man2" -> Address("man", "pdf", "cdn.com", Nothing)
       [] u = "scan" -> Address("scan", "pdf", "cdn.com", Nothing)
       [] u = "rec" -> Address("rec", "pdf", "acme.com", [Nothing EXCEPT !.sku = "exact"])]

NodeIn(tag, up, marks, text) == [tag |-> tag, up |-> up, marks |-> marks, text |-> text, pair |-> NoPair, target |-> 0]
Node(tag, up, text) == NodeIn(tag, up, {}, text)
(* A table, under the node up, whose first node is the at-th of the page.         *)
RowNodes(at, table, tag, cells) ==
  <<Node("tr", table, "")>> \o [k \in DOMAIN cells |-> Node(tag, at, cells[k])]
RECURSIVE TableRows(_, _, _)
TableRows(at, table, rows) ==
  IF rows = << >> THEN << >>
  ELSE LET row == RowNodes(at, table, rows[1].tag, rows[1].cells)
       IN row \o TableRows(at + Len(row), table, Tail(rows))
Table(at, up, rows) == <<Node("table", up, "")>> \o TableRows(at + 1, at, rows)
Cells(cells) == [tag |-> "td", cells |-> cells]
Heads(cells) == [tag |-> "th", cells |-> cells]
Links(urls) == [k \in DOMAIN urls |-> [url |-> urls[k], text |-> Manual, code |-> "absent", locale |-> {}]]
Page(nodes, scripts, links) == [nodes |-> nodes, scripts |-> scripts, title |-> NoType, links |-> links, text |-> 900]

Localised(power, weight, height, width) ==
  <<Node("h2", 0, "Specifications")>>
    \o Table(2, 0, <<Cells(<<power, "700W">>), Cells(<<weight, "2kg">>), Cells(<<height, "300mm">>),
                     Cells(<<width, "400mm">>), Cells(<<weight, "5kg">>)>>)
    \o <<Node("h2", 0, "Also bought")>> \o Table(19, 0, <<Cells(<<power, "900W">>)>>)
Compared ==
  <<NodeIn("div", 0, {"compare"}, "")>> \o Table(2, 1, <<Cells(<<"Power", "900W">>)>>)
    \o Table(6, 0, <<Heads(<<"", "X100", "X200">>), Cells(<<"Power", "700W", "900W">>),
                     Cells(<<"Voltage", "230V 50Hz", "230V 50Hz">>)>>)
Linked(id, value) == [ids |-> id, fields |-> <<<<"name", id>>>>, properties |-> <<<<"Power", value>>>>]
Variant(id, colour) ==
  [type |-> "ld", spec |-> TRUE, parses |-> TRUE,
   nodes |-> <<[ids |-> "X100", fields |-> <<<<"sku", id>>, <<"Colour", colour>>, <<"weight", "2kg">>>>, properties |-> << >>]>>]
JsonLd == [type |-> "ld", spec |-> TRUE, parses |-> TRUE, nodes |-> <<Linked("X100", "700W"), Linked("X200", "900W")>>]
Json(up, key, ids, fields) ==
  [kind |-> "dict", up |-> up, key |-> key, ids |-> ids, label |-> "", value |-> "", flat |-> fields # << >>,
   small |-> TRUE, fields |-> fields, keyed |-> << >>]
(* The neighbour's product among the state's, its pairs under the given key.       *)
State(key) ==
  [type |-> "state", spec |-> TRUE, parses |-> TRUE,
   nodes |-> <<Json(0, "", "", << >>), Json(1, "specs", "", <<<<"Power", "700W">>>>),
               Json(1, "products", "X200", << >>), Json(3, key, "", <<<<"Power", "900W">>>>)>>]
(* Under a specification key of the neighbour's product, an entry of a list.        *)
Entry(label, value) ==
  [State("specs") EXCEPT !.nodes = SubSeq(@, 1, 3) \o
     <<[Json(3, "specs", "", << >>) EXCEPT !.kind = "list"],
       [Json(4, "", "", << >>) EXCEPT !.label = label, !.value = value]>>]
(* In a data-* attribute: the state of a whole page, or one product's pairs alone.   *)
Carried(name, nodes) == [type |-> "data", spec |-> TRUE, parses |-> TRUE, nodes |-> [nodes EXCEPT ![1].key = name]]
Card == Carried("specs", <<Json(0, "", "", <<<<"Power", "900W">>>>)>>)

Pair(label, value) == [label |-> label, value |-> value]
(* A pair of elements, a colon line, a definition list, and a closed details.      *)
Folded ==
  Table(1, 0, <<Cells(<<"Dimensions", "1x2x3">>)>>)
    \o <<NodeIn("div", 0, {"spec"}, ""), Node("div", 5, ""), Node("span", 6, "Power"), Node("span", 6, "700W"),
         [Node("li", 5, "") EXCEPT !.pair = Pair("Colour", "red")],
         Node("dl", 0, ""), Node("dt", 10, "Voltage"), Node("dd", 10, "230V 50Hz"), Node("details", 0, "")>>
    \o Table(14, 13, <<Cells(<<"Weight", "2kg">>)>>)
Template == [type |-> "template", spec |-> FALSE, parses |-> FALSE, nodes |-> Table(1, 0, <<Cells(<<"Height", "300mm">>)>>)]

MCPages ==
  [u \in {"de", "fr", "prob", "cmp"} |->
     CASE u = "de" -> Page(Localised("Leistung", "Gewicht", "Height", "Width"), <<Variant("X100R", "red")>>, Links(<<"man">>))
       [] u = "fr" -> Page(Localised("Puissance", "Poids", "Hauteur", "Largeur"), <<Variant("X100B", "blue")>>, Links(<<"man2", "scan">>))
       [] u = "cmp" -> Page(Compared, <<JsonLd, State("name"), Carried("name", State("specs").nodes)>>, Links(<<"scan">>))
       [] u = "prob" -> Page(Folded, <<Template>>,
                             <<[url |-> "scan", text |-> [Manual EXCEPT !.type = "datasheet"], code |-> "absent", locale |-> {}]>>)]
Identity(sku) == [status |-> "ok", sku |-> sku, stem |-> FALSE, words |-> "none"]
Line(kind, label, value) == [kind |-> kind, label |-> label, value |-> value]
MCPdfs ==
  [u \in {"man", "man2", "scan", "rec"} |->
     IF u = "scan"
     THEN [identity |-> Identity("different_variant"),
           pages |-> <<[model |-> FALSE, sibling |-> TRUE, lines |-> <<Line("colon", "Power", "900W")>>]>>]
     ELSE [identity |-> Identity(IF u = "rec" THEN "base_only" ELSE "exact"),
           pages |-> <<[model |-> TRUE, sibling |-> FALSE,
                        lines |-> <<Line("heading", "", ""), Line("unit", "Weight", "2kg"), Line("colon", "Power", "700W")>>],
                       [model |-> TRUE, sibling |-> TRUE, lines |-> <<Line("colon", "Power", "900W")>>],
                       [model |-> FALSE, sibling |-> FALSE, lines |-> <<Line("colon", "Power", "900W")>>]>>]]

Source(u, match) == [url |-> u, match |-> match, title |-> Nothing]
MCWorld ==
  [w \in {"locales", "neighbours", "anchored", "carried", "queries"} |->
     [sources |-> CASE w = "locales" -> <<Source("de", "exact"), Source("fr", "exact")>>
                    [] w \in {"neighbours", "anchored", "carried"} -> <<Source("cmp", "exact")>>
                    [] w = "queries" -> <<Source("prob", "probable")>>,
      pages |-> [MCPages EXCEPT !["cmp"].scripts = CASE w = "anchored" -> <<State("specs"), Entry("Leistung", "900W")>>
                                                     [] w = "carried" -> <<Card>>
                                                     [] OTHER -> @],
      pdfs |-> MCPdfs, records |-> <<[url |-> "rec", text |-> Manual], [url |-> "man2", text |-> Manual]>>,
      hosts |-> {"acme.com"}, regional |-> FALSE, category |-> "none"]]
MCPreferred == <<"en">>
=============================================================================
