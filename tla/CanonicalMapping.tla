------------------------------ MODULE CanonicalMapping ------------------------------
(***************************************************************************)
(* core/canonical_mapping.py: normalised attributes to canonical fields. The *)
(* schema is a constant; the decision (which concepts a label hits, whether  *)
(* the value can be read as theirs, how the candidates rank, what is derived *)
(* from a composite, which rows belong to a second component) is computed.   *)
(* Confidence is in thousandths; a measure in the smallest unit of a family.  *)
(***************************************************************************)
EXTENDS Normalization

CONSTANTS
  Concept,    \* concepts in the order of the schema: [key, unit, family, vtype, categories,
              \* excluded, labels, generic, weak, groups, needGroup, groupOnly, exclude,
              \* plausible, test, gate, pattern, prefix, multi, component, hosts, axisSplit]
  Family,     \* family -> [canonical, factor: unit -> integer, tried: units tried when none is written]
  Within,     \* text -> the measures inside it, [figures, unit, start, bracket]
  Reading,    \* text -> [truth, count, spelled, alone, axes]: "true", "false" or "none", what its
              \* first word says; the number it starts with; the measure in words it starts with;
              \* whether that number or measure is all of it; its figures when they are multiplied
  AxisOrder,  \* labels that declare the order of the axes -> their keys
  NotSpecLabel, NotSpecValue, PromoGroup   \* _NAS_LABELS, _LEGAL_VALUE and _PROMO_VALUE, _PROMO_GROUP

(* The schema is a list; every concept has a key and a known kind of value.     *)
ASSUME SchemaAssumption ==
  /\ IsList(Concept)
  /\ \A i \in DOMAIN Concept :
       Concept[i].key # NoUnit /\ Concept[i].vtype \in {"boolean", "text", "count", "dimensions", "measure"}

MapMin == 700
CandidateMin == 400
Margin == 100
ShapeCap == 500
ImpliedCap == 750
Uncapped == 990
Via == [label |-> 900, generic |-> 720, weak |-> 600, group_only |-> 780]

AnyCategory == {}
AnyText == {}
Applies(c, category) == (c.categories = AnyCategory \/ category \in c.categories) /\ category \notin c.excluded
FamiliesOf(unit) == {f \in DOMAIN Family : unit \in DOMAIN Family[f].factor}
Metric == {"mm", "cm", "m", "kg", "g", "L", "ml", "W", "kW", "V", "A", "mA", "Ah", "mAh", "Wh", "kWh"}
ToCanonical(family, unit, figures) == [i \in DOMAIN figures |-> figures[i] * Family[family].factor[unit]]

(* Two single figures agree within the percentage; the coarser tolerance of a    *)
(* figure with few decimals is left out.                                       *)
Near(a, b, percent) ==
  /\ Len(a) = 1 /\ Len(b) = 1
  /\ LET apart == IF a[1] > b[1] THEN a[1] - b[1] ELSE b[1] - a[1] IN 100 * apart <= percent * b[1]

LabelText(label) == IF label.shown = NoUnit THEN label.base ELSE label.text

-----------------------------------------------------------------------------
(* Which concepts a label hits, by the strongest of its patterns              *)

NoHit == [via |-> "none", score |-> 0, group |-> FALSE]

LabelHit(c, label, path) ==
  LET grouped == \E i \in DOMAIN path : path[i] \in c.groups /\ ~Naming[path[i]].caption
      Hit(via) == [via |-> via, score |-> Via[via], group |-> grouped]
  IN IF label \in c.exclude \/ (c.needGroup /\ ~grouped) THEN NoHit
     ELSE IF c.groupOnly THEN (IF grouped THEN Hit("group_only") ELSE NoHit)
     ELSE IF label \in c.labels THEN Hit("label")
     ELSE IF c.categories # AnyCategory /\ label \in c.generic THEN Hit("generic")
     ELSE IF label \in c.weak THEN Hit("weak") ELSE NoHit

-----------------------------------------------------------------------------
(* Can the value be read as the concept's?                                    *)

Unfit == [ok |-> FALSE, reject |-> FALSE, cap |-> ShapeCap, penalty |-> 0, figures |-> << >>, unit |-> "none"]
Fit(figures, unit) == [ok |-> TRUE, reject |-> FALSE, cap |-> Uncapped, penalty |-> 0, figures |-> figures, unit |-> unit]
Rejected == [Unfit EXCEPT !.reject = TRUE]

Plausible(c, figures) == \A i \in DOMAIN figures : c.plausible[1] <= figures[i] /\ figures[i] <= c.plausible[2]

(* The one unit under which every figure is plausible, or none.                *)
InferUnit(c, figures) ==
  LET tried == {Family[c.family].tried[i] : i \in DOMAIN Family[c.family].tried}
      fitting == IF c.plausible = << >> THEN tried
                 ELSE {u \in tried : Plausible(c, ToCanonical(c.family, u, figures))}
  IN IF Cardinality(fitting) = 1 THEN CHOOSE u \in fitting : TRUE ELSE NoUnit

(* Figures with their unit, or the only plausible one; what the source adds in   *)
(* parentheses in a metric unit beats arithmetic on another unit.               *)
InFamily(c, figures, unit, alt) ==
  LET Own(u) == ToCanonical(c.family, u, figures)
      Metrically(beside, own) ==
        IF /\ beside.kind = "number" /\ beside.unit \in Metric /\ unit \notin Metric
           /\ c.family \in FamiliesOf(beside.unit)
           /\ Near(ToCanonical(c.family, beside.unit, beside.figures), own, 1)
        THEN ToCanonical(c.family, beside.unit, beside.figures) ELSE own
      Implied(u) == IF u = NoUnit THEN Unfit ELSE [Fit(Own(u), "implied") EXCEPT !.cap = ImpliedCap]
  IN IF unit = NoUnit THEN Implied(InferUnit(c, figures))
     ELSE IF c.family \notin FamiliesOf(unit) THEN Rejected
     ELSE IF unit = Family[c.family].canonical THEN Fit(Own(unit), "explicit")
     ELSE Fit(IF alt = Blank THEN Own(unit) ELSE Metrically(ParseMeasure(alt), Own(unit)), "converted")

(* What analyse_value makes of a value.                                        *)
TextOf(a) == a.first.value[1]
NoReading == [truth |-> "none", count |-> << >>, spelled |-> << >>, alone |-> FALSE, axes |-> << >>]
AnalyseValue(a) ==
  LET known == IF FamiliesOf(a.unit) = {} THEN NoUnit ELSE a.unit
      lead == IF a.value.kind = "text" THEN Reading[TextOf(a)] ELSE NoReading
      Info(kind, figures, unit) == [kind |-> kind, figures |-> figures, unit |-> unit, lead |-> lead, text |-> TextOf(a),
                                    alt |-> IF kind = "measure" THEN a.value.measure.alt ELSE Blank]
  IN IF a.value.kind = "boolean" THEN Info("boolean", << >>, NoUnit)
     ELSE IF a.value.kind \in {"number", "range"} /\ known = a.unit THEN Info("measure", a.value.measure.figures, a.unit)
     ELSE IF a.value.kind = "dimensions" THEN Info("dimensions", a.value.measure.figures, known)
     ELSE IF lead.axes # << >> THEN Info("dimensions", lead.axes, NoUnit) ELSE Info("text", << >>, NoUnit)

(* The measures of the concept's family that stand inside a text.              *)
Embedded(c, t) == SelectSeq(Within[t], LAMBDA m : c.family \in FamiliesOf(m.unit))

(* The measure of a text, [found, figures, unit, penalty]: the one in words at    *)
(* its start, the one inside it, or the number the concept's pattern takes.      *)
TextMeasurement(c, info) ==
  LET Found(figures, unit, penalty) == [found |-> TRUE, figures |-> figures, unit |-> unit, penalty |-> penalty]
      inside == Embedded(c, info.text)
      first == inside[1]
      agrees == inside[2].bracket /\ Near(ToCanonical(c.family, first.unit, first.figures),
                                          ToCanonical(c.family, inside[2].unit, inside[2].figures), 2)
      spelled == info.lead.spelled
  IN IF spelled # << >> /\ (c.prefix \/ info.lead.alone \/ c.family \in {"volume", "duration_months", "duration_h"})
       THEN Found(spelled[1].figures, spelled[1].unit, 0)
     ELSE IF Len(inside) = 1 \/ (Len(inside) > 1 /\ (agrees \/ first.start))
       THEN Found(first.figures, first.unit, IF first.start THEN 80 ELSE 160)
     ELSE IF info.text \in DOMAIN c.pattern THEN Found(c.pattern[info.text], NoUnit, 50)
     ELSE [Found(<< >>, NoUnit, 0) EXCEPT !.found = FALSE]

MeasureAs(c, info, m) ==
  IF ~m.found \/ (c.family = NoUnit /\ info.kind = "measure" /\ m.unit # NoUnit) THEN Unfit
  ELSE [(IF c.family # NoUnit THEN InFamily(c, m.figures, m.unit, info.alt)
         ELSE Fit(m.figures, IF c.unit = NoUnit THEN "none" ELSE "explicit")) EXCEPT !.penalty = m.penalty]

EvalMeasure(c, info) ==
  IF info.kind = "text" THEN MeasureAs(c, info, TextMeasurement(c, info))
  ELSE MeasureAs(c, info, [found |-> info.kind = "measure", figures |-> info.figures, unit |-> info.unit, penalty |-> 0])

EvalCount(c, info) ==
  IF info.kind = "measure" THEN (IF info.unit = NoUnit /\ Len(info.figures) = 1 THEN Fit(info.figures, "none") ELSE Unfit)
  ELSE IF info.kind = "text" /\ info.lead.count # << >> /\ (c.prefix \/ info.lead.alone)
    THEN [Fit(info.lead.count, "none") EXCEPT !.penalty = 50]
  ELSE Unfit

EvalType(c, info) ==
  CASE c.vtype = "boolean" ->
         IF info.kind = "boolean" THEN Fit(<< >>, "none")
         ELSE IF info.kind = "text" /\ info.lead.truth # "none" THEN [Fit(<< >>, "none") EXCEPT !.penalty = 50]
         ELSE Unfit
    [] c.vtype = "text" -> IF info.kind = "boolean" \/ Spelling[info.text].prose THEN Unfit ELSE Fit(<< >>, "none")
    [] c.vtype = "count" -> EvalCount(c, info)
    [] c.vtype = "dimensions" ->
         IF info.kind = "dimensions" THEN InFamily(c, info.figures, info.unit, Blank) ELSE Unfit
    [] c.vtype = "measure" -> EvalMeasure(c, info)

(* A concept tests the figure its label was written beside.                    *)
Tested(c, read) ==
  LET passes == c.test = << >> \/ read.figures = << >>
                  \/ \A i \in DOMAIN read.figures : c.test[1] <= read.figures[i] /\ read.figures[i] <= c.test[2]
  IN IF read.ok /\ ~passes THEN [read EXCEPT !.ok = FALSE, !.cap = ShapeCap] ELSE read

Evaluate(c, info) == IF c.gate # AnyText /\ info.text \notin c.gate THEN Rejected ELSE EvalType(c, info)

-----------------------------------------------------------------------------
(* One attribute: its rows                                                    *)

Row(a, status) ==
  [attribute |-> a, status |-> status, key |-> NoUnit, figures |-> << >>, unit |-> "none", confidence |-> 0,
   method |-> "none", derivedFrom |-> NoUnit, block |-> 1, candidates |-> {}]

Hits(a, category, labels, alias) ==
  LET Best(c) ==
        LET hits == {LabelHit(c, l, a.label.path) : l \in labels}
        IN CHOOSE h \in hits : \A g \in hits : g.score <= h.score
  IN {[concept |-> Concept[i], place |-> i, hit |-> Best(Concept[i]), alias |-> alias] :
        i \in {j \in DOMAIN Concept : labels # {} /\ Applies(Concept[j], category) /\ Best(Concept[j]).via # "none"}}

(* Keys that a label alone points to.                                          *)
LabelOnlyKeys(label, path, category) ==
  {Concept[i].key : i \in {j \in DOMAIN Concept :
     Applies(Concept[j], category) /\ ~Concept[j].groupOnly /\ LabelHit(Concept[j], label, path).via # "none"}}

Confidence(a, category, h, e) ==
  LET c == h.concept
      Points(alias) == LabelOnlyKeys(alias, a.label.path, category)
      agree == Cardinality({x \in a.aliases : c.key \in Points(x)})
      disagree == \E x \in a.aliases : Points(x) # {} /\ c.key \notin Points(x)
      score == h.hit.score - (IF h.alias THEN 50 ELSE 0)
                 + (IF ~h.alias /\ h.hit.group /\ ~c.groupOnly THEN 50 ELSE 0)
                 + (IF c.categories # AnyCategory THEN 30 ELSE 0)
                 + (IF e.unit \in {"explicit", "converted"} /\ c.family # NoUnit THEN 30 ELSE 0)
                 + (IF agree > 1 THEN 40 ELSE 20 * agree) - (IF disagree THEN 100 ELSE 0) - e.penalty
  IN IF score > e.cap THEN e.cap ELSE IF score > Uncapped THEN Uncapped ELSE score

(* A mapped composite is split into its axes, when the label orders them.       *)
AxisRows(a, c, e, score) ==
  LET labels == {a.label.text, a.first.label} \cup a.aliases
      ordering == {l \in labels : l \in DOMAIN AxisOrder}
      keys == AxisOrder[CHOOSE l \in ordering : TRUE]
  IN IF ~c.axisSplit \/ ordering = {} \/ Len(e.figures) # 3 THEN << >>
     ELSE [k \in 1 .. 3 |-> [Row(a, "mapped") EXCEPT !.key = keys[k], !.figures = <<e.figures[k]>>, !.unit = e.unit,
                               !.confidence = score - 20, !.method = "dimension_split", !.derivedFrom = c.key]]

(* The companions named inside the value of a composite, as they are read.      *)
Companions(c, t) ==
  LET Read(d, m) == Evaluate(d, [kind |-> "measure", figures |-> m.figures, unit |-> m.unit,
                                 lead |-> NoReading, text |-> t, alt |-> Blank])
      Said(d) == [key |-> d.key, read |-> Read(d, Embedded(d, t)[1])]
      named == Numbers({i \in DOMAIN Concept : /\ c.key \in Concept[i].hosts /\ Len(Embedded(Concept[i], t)) = 1
                                               /\ Said(Concept[i]).read.ok}, Len(Concept))
  IN [k \in DOMAIN named |-> Said(Concept[named[k]])]

CompanionRow(a, c, s, score) ==
  [Row(a, "mapped") EXCEPT !.key = s.key, !.figures = s.read.figures, !.unit = s.read.unit,
     !.confidence = score - 100, !.method = "compound_value_split", !.derivedFrom = c.key]

DerivedRows(a, c, e, score) ==
  LET Rows(said) == [k \in DOMAIN said |-> CompanionRow(a, c, said[k], score)]
  IN AxisRows(a, c, e, score) \o Rows(IF a.value.kind = "text" THEN Companions(c, TextOf(a)) ELSE << >>)

NotASpec(a) ==
  \/ ({a.label.base} \cup a.aliases) \cap NotSpecLabel # {}
  \/ \E i \in DOMAIN a.first.value : a.first.value[i] \in NotSpecValue
  \/ a.first.method \in {"pdf_label_colon", "pdf_tech_section_line"} /\ Naming[a.label.text].long
  \/ \E i \in DOMAIN a.label.path : a.label.path[i] \in PromoGroup /\ Within[TextOf(a)] = << >>

(* The aliases of a label are asked only when it hits nothing itself.          *)
OrByAlias(own, a, category) == IF own # {} THEN own ELSE Hits(a, category, a.aliases, TRUE)

(* What an attribute may be, [hit, eval, score], without the rejected readings.  *)
Readings(a, category, info) ==
  LET Scored(h, e) == [hit |-> h, eval |-> e, score |-> Confidence(a, category, h, e)]
      Read(h) == Scored(h, Tested(h.concept, Evaluate(h.concept, info)))
  IN {r \in {Read(h) : h \in OrByAlias(Hits(a, category, {LabelText(a.label)}, FALSE), a, category)} : ~r.eval.reject}

(* Ties go to the concept that comes first in the schema.                       *)
TopOf(live) ==
  CHOOSE r \in live : \A s \in live \ {r} :
    s.score < r.score \/ (s.score = r.score /\ r.hit.place < s.hit.place)

(* Mapped when the best is good enough, readable and ahead of the other keys;     *)
(* ambiguous while some key is plausible.                                       *)
RowsOf(a, live, top) ==
  LET c == top.hit.concept
      leads == \A r \in {s \in live : s.hit.concept.key # c.key} : top.score - r.score >= Margin
      candidates == {r.hit.concept.key : r \in {s \in live : s.score >= CandidateMin}}
  IN IF live # {} /\ top.score >= MapMin /\ top.eval.ok /\ leads
       THEN <<[Row(a, "mapped") EXCEPT !.key = c.key, !.figures = top.eval.figures, !.unit = top.eval.unit,
                 !.confidence = top.score, !.method = IF top.hit.alias THEN "alias_label" ELSE top.hit.hit.via]>>
              \o DerivedRows(a, c, top.eval, top.score)
     ELSE IF candidates # {} THEN <<[Row(a, "ambiguous") EXCEPT !.candidates = candidates]>>
     ELSE <<Row(a, IF NotASpec(a) THEN "not_a_spec" ELSE "unmapped")>>

MapAttribute(a, category) ==
  LET Decide(live) == RowsOf(a, live, TopOf(live)) IN Decide(Readings(a, category, AnalyseValue(a)))

-----------------------------------------------------------------------------
(* The second block of measurements in one section is another component's.     *)

ComponentKeys == {Concept[i].key : i \in {j \in DOMAIN Concept : Concept[j].component}}

(* Mutant: the more confident reading is the main product's.                   *)
LessConfidentBlock(fields, i, j) ==
  /\ fields[i].status = "mapped" /\ fields[i].key = fields[j].key /\ fields[i].derivedFrom = NoUnit
  /\ fields[i].attribute.first.url = fields[j].attribute.first.url
  /\ fields[i].attribute.first.section = fields[j].attribute.first.section
  /\ fields[i].confidence > fields[j].confidence

BlockBefore(fields, i, j) ==
  /\ fields[i].status = "mapped" /\ fields[i].key = fields[j].key /\ fields[i].derivedFrom = NoUnit
  /\ fields[i].attribute.first.url = fields[j].attribute.first.url
  /\ fields[i].attribute.first.section = fields[j].attribute.first.section
  /\ fields[i].attribute.first.method = fields[j].attribute.first.method
  /\ fields[i].attribute.evidence[1] < fields[j].attribute.evidence[1]

ComponentPass(fields) ==
  LET Repeats(j) == IF fields[j].status # "mapped" \/ fields[j].key \notin ComponentKeys \/ fields[j].derivedFrom # NoUnit THEN {}
                    ELSE {i \in DOMAIN fields : BlockBefore(fields, i, j)}
  IN [j \in DOMAIN fields |->
        IF Repeats(j) = {} THEN fields[j]
        ELSE [fields[j] EXCEPT !.block = Cardinality(Repeats(j)) + 1, !.confidence = @ - 100,
                !.method = "repeated_block_context"]]

ListKeys == {Concept[i].key : i \in {j \in DOMAIN Concept : Concept[j].multi}}
FieldKey(f) == <<IF f.block = 1 THEN "primary" ELSE "secondary_component", f.key>>

(* Keys that several attributes map to, and whether their values agree.         *)
DetectCollisions(fields) ==
  LET mapped == {i \in DOMAIN fields : fields[i].status = "mapped"}
      Members(k) == {i \in mapped : FieldKey(fields[i]) = k}
      keys == {k \in {FieldKey(fields[i]) : i \in mapped} : Cardinality({fields[i].attribute : i \in Members(k)}) > 1}
      Values(k) == {<<fields[i].figures, fields[i].attribute.value.fold>> : i \in Members(k)}
      Figures(k) == {fields[i].figures : i \in Members(k)}
      Agree(k) == IF << >> \in Figures(k) THEN Cardinality(Values(k)) = 1 ELSE Cardinality(Figures(k)) = 1
      Rewritten(k) == /\ Cardinality({fields[i].attribute.first.value : i \in Members(k)}) > 1
                      /\ \E i \in Members(k) : fields[i].unit = "converted"
      Kind(k) == IF k[1] = "primary" /\ k[2] \in ListKeys THEN "list_field"
                 ELSE IF ~Agree(k) THEN "different_values"
                 ELSE IF Rewritten(k) THEN "equivalent_after_conversion" ELSE "same_value"
  IN {[key |-> k, kind |-> Kind(k), members |-> Members(k)] : k \in keys}

MapResult(attributes, category) ==
  LET specs == Numbers({i \in DOMAIN attributes : attributes[i].cls = "spec"}, Len(attributes))
      Mapped(fields) ==
        [fields |-> fields, collisions |-> DetectCollisions(fields), other |-> Len(attributes) - Len(specs)]
  IN Mapped(ComponentPass(Concat([k \in DOMAIN specs |-> MapAttribute(attributes[specs[k]], category)])))
=============================================================================
