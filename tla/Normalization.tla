------------------------------- MODULE Normalization -------------------------------
(***************************************************************************)
(* core/normalization.py: raw pairs to normalised attributes. A raw pair is  *)
(* what RawExtraction found, with its url and sourceType. What the text      *)
(* hygiene leaves of a text is given: Spelling[t] as a value, Naming[t] as a *)
(* label; what is made of it is computed here.                               *)
(***************************************************************************)
EXTENDS RawExtraction, OfficialDocuments, Integers

CONSTANTS
  Spelling,  \* text -> [fold, says, figures, times, padded, unit, again, alt, prose, download,
             \* model]: its comparison form; "words", "figures" or one of the exceptions
             \* below; its numbers, whether they are multiplied, whether the second starts
             \* with 0, its unit tokens, the text in parentheses; what classify tests
  Naming,    \* text -> [base, unit, short, kind, long, caption, download]: the label, the unit token
             \* written in it, at most two letters, the vocabulary it belongs to, five words, seven
             \* or more, a file size in it
  Unit,      \* unit token -> [unit, doubled]
  GenericGroup, SpecGroup, ContentGroup,   \* section names: _GENERIC_GROUP, _SPEC_HINT, _CONTENT_SECTION
  VariantField, IdField                    \* labels of JSON-LD scalars: _VARIANT_FIELDS, _ID_FIELDS

(* "identity_metadata", "product_spec", "marketing_content", "unknown"        *)
Classes == <<"identity", "spec", "content", "unknown">>
ClassRank(cls) == CHOOSE i \in DOMAIN Classes : Classes[i] = cls

-----------------------------------------------------------------------------
(* Values                                                                   *)

NoUnit == Blank
CanonicalUnit(token) == IF token \in DOMAIN Unit THEN Unit[token].unit ELSE NoUnit

NoMeasure == [kind |-> "none", figures |-> << >>, unit |-> NoUnit, alt |-> NoUnit]

(* A whole value that is a number, a range or dimensions.                      *)
MeasureOf(s) ==
  LET unit == CanonicalUnit(s.unit)
      unitRead == s.unit = NoUnit \/ unit # NoUnit
      again == s.again = NoUnit \/ (unit # NoUnit /\ CanonicalUnit(s.again) = unit)
      ordered == Len(s.figures) = 2 => s.figures[1] <= s.figures[2] /\ ~s.padded
  IN IF s.says # "figures" \/ ~unitRead THEN NoMeasure
     ELSE IF s.times THEN [kind |-> "dimensions", figures |-> s.figures, unit |-> unit, alt |-> NoUnit]
     ELSE IF ~again \/ ~ordered THEN NoMeasure
     ELSE [kind |-> IF Len(s.figures) = 2 THEN "range" ELSE "number", figures |-> s.figures, unit |-> unit, alt |-> NoUnit]

ParseMeasure(t) ==
  LET s == Spelling[t]
      own == MeasureOf(s)
      inner == MeasureOf(Spelling[s.alt])  (* read only when there is one *)
  IN IF s.alt = Blank THEN own
     ELSE IF own.kind \notin {"number", "range"} \/ own.unit = NoUnit \/ inner.unit = NoUnit
               \/ Spelling[s.alt].alt # Blank THEN NoMeasure
     ELSE [own EXCEPT !.alt = s.alt]

Numeric == {"number", "range", "dimensions"}

(* [kind, measure, fold]. Several joined texts are words.                      *)
NormalizeValue(value) ==
  LET Plainly(kind) == [kind |-> kind, measure |-> NoMeasure, fold |-> [i \in DOMAIN value |-> Spelling[value[i]].fold]]
      s == Spelling[value[1]]
      measure == ParseMeasure(value[1])
  IN IF Len(value) # 1 THEN Plainly("text")
     ELSE IF s.says = "lorem" THEN Plainly("template_text")
     ELSE IF s.says = "heading" THEN Plainly("heading")
     ELSE IF s.says \in {"placeholder", "punctuation"} THEN Plainly("placeholder")
     ELSE IF s.says = "i18n_key" THEN Plainly("i18n_key")
     ELSE IF s.says \in {"yes", "no", "i18n_yes", "i18n_no"}
       THEN [kind |-> "boolean", measure |-> NoMeasure,
             fold |-> <<IF s.says \in {"yes", "i18n_yes"} THEN "true" ELSE "false">>]
     ELSE [Plainly(IF measure.kind = "none" THEN "text" ELSE measure.kind) EXCEPT !.measure = measure]

-----------------------------------------------------------------------------
(* Labels                                                                   *)

NormalizeLabel(t, section) ==
  [base |-> Naming[t].base, text |-> t, nested |-> Text[t].bullet, short |-> Naming[t].short,
   hint |-> CanonicalUnit(Naming[t].unit), shown |-> NoUnit,
   path |-> SelectSeq(section, LAMBDA part : part # Blank)]

(* The unit stays in the label when no value takes it.                         *)
WithUnit(label) == [label EXCEPT !.shown = label.hint, !.hint = NoUnit]

Parents(label) == SelectSeq(label.path, LAMBDA part : part \notin GenericGroup)
InGroup(label) == (label.nested \/ label.short) /\ Parents(label) # << >>

(* Children are comparable only inside their group.                            *)
QualifiedLabel(label) ==
  [group |-> IF InGroup(label) THEN Parents(label)[Len(Parents(label))] ELSE Blank,
   base |-> label.base, shown |-> label.shown]

-----------------------------------------------------------------------------
(* Classification                                                           *)

Structured == {"table_row", "definition_list", "json_ld_property", "json_state_pair",
               "json_state_keyed_spec", "json_state_map", "pdf_label_colon", "pdf_tech_section_line"}
FromJson == {"json_ld_field", "json_ld_property", "json_state_pair", "json_state_keyed_spec", "json_state_map"}

Classify(label, value, raw) ==
  LET kind == Naming[label.text].kind
      said == {Spelling[raw.value[i]] : i \in DOMAIN raw.value}
      specSection == \E i \in DOMAIN label.path : label.path[i] \in SpecGroup
      structured == raw.method \in Structured
      prose == \E s \in said : s.prose
      As(cls, why) == [cls |-> cls, why |-> why]
  IN IF label.base = Blank \/ kind = "schema" THEN As("unknown", "label")
     ELSE IF value.kind \in {"placeholder", "template_text", "i18n_key", "heading"} THEN As("unknown", value.kind)
     ELSE IF raw.method = "json_ld_field"
       THEN IF kind = "ld_measure" THEN As("spec", "json_ld_measure")
            ELSE IF kind = "ld_content" THEN As("content", "json_ld_content") ELSE As("identity", "json_ld_scalar")
     ELSE IF kind = "identity" THEN As("identity", "identifier_label")
     ELSE IF Naming[label.text].download \/ \E s \in said : s.download THEN As("content", "download_entry")
     ELSE IF \E s \in said : s.model THEN As("identity", "value_is_model_identifier")
     ELSE IF kind \in {"standard", "value"} THEN As("unknown", "label")
     ELSE IF kind = "content" THEN As("content", "content_label")
     ELSE IF raw.method \notin FromJson /\ \E i \in DOMAIN raw.section : raw.section[i] \in ContentGroup
       THEN As("content", "content_section")
     ELSE IF prose /\ ~(specSection /\ structured /\ ~Naming[label.text].caption)
                  /\ (Naming[label.text].long \/ ~structured)
       THEN As("content", "prose_value")
     ELSE IF value.kind \in Numeric \cup {"boolean"} THEN As("spec", "measurable_value")
     ELSE IF structured THEN As("spec", "structured_pair")
     ELSE IF specSection THEN As("spec", "spec_section") ELSE As("unknown", "unstructured_pair")

Record(raw) ==
  LET label == NormalizeLabel(raw.label, raw.section)
      value == NormalizeValue(raw.value)
      class == Classify(label, value, raw)
  IN [raw |-> raw, label |-> label, value |-> value, cls |-> class.cls, why |-> class.why,
      unit |-> NoUnit, variant |-> Blank]

(* A section with template text is not product data.                           *)
WithoutTemplates(records) ==
  LET In(r, t) == t.why = "template_text" /\ t.raw.section # << >>
                    /\ t.raw.url = r.raw.url /\ t.raw.section = r.raw.section
      Blocked(r) == /\ r.why # "template_text" /\ r.cls # "unknown" /\ r.raw.method # "json_ld_field"
                    /\ r.value.kind \notin Numeric
                    /\ \E i \in DOMAIN records : In(r, records[i])
  IN [i \in DOMAIN records |->
        IF Blocked(records[i]) THEN [records[i] EXCEPT !.cls = "unknown", !.why = "template_block"] ELSE records[i]]

-----------------------------------------------------------------------------
(* Identity nodes: a run of JSON-LD scalars of a source, until a label repeats. *)

IdentityNodes(records) ==
  LET Scalar(i) == records[i].raw.method = "json_ld_field"
      Continues(node, i) == /\ records[node[1]].raw.url = records[i].raw.url
                            /\ \A j \in DOMAIN node : records[node[j]].label.base # records[i].label.base
      Grow(nodes, i) ==
        IF ~Scalar(i) THEN nodes
        ELSE IF nodes # << >> /\ Continues(nodes[Len(nodes)], i)
          THEN [nodes EXCEPT ![Len(nodes)] = Append(@, i)] ELSE Append(nodes, <<i>>)
  IN FoldLeft(Grow, << >>, [i \in DOMAIN records |-> i])

FieldOf(records, node, labels) ==
  LET found == SelectSeq(node, LAMBDA i : records[i].label.base \in labels)
  IN IF found = << >> THEN Blank ELSE records[found[1]].raw.value[1]

(* The variant a node describes, Blank for the product itself or a parent.      *)
VariantOf(records, nodes, n) ==
  LET Id(m) == FieldOf(records, nodes[m], IdField)
      trait == FieldOf(records, nodes[n], VariantField)
      siblings == {m \in DOMAIN nodes \ {n} : records[nodes[m][1]].raw.url = records[nodes[n][1]].raw.url}
  IN IF Id(n) = Blank \/ (trait = Blank /\ \A m \in siblings : Id(m) \in {Blank, Id(n)}) THEN Blank
     ELSE IF trait # Blank THEN trait
     ELSE IF FieldOf(records, nodes[n], {"name"}) # Blank THEN FieldOf(records, nodes[n], {"name"}) ELSE Id(n)

(* Spec values get the unit of their label, which otherwise keeps it.           *)
FinaliseValue(r) ==
  LET measured == r.cls = "spec" /\ r.value.kind \in Numeric
      unit == IF ~measured THEN NoUnit
              ELSE IF r.value.measure.unit # NoUnit THEN r.value.measure.unit ELSE r.label.hint
      consumed == measured /\ r.label.hint # NoUnit /\ unit = r.label.hint
  IN [r EXCEPT !.unit = unit, !.label = IF r.label.hint # NoUnit /\ ~consumed THEN WithUnit(@) ELSE @]

(* What a record of an identity node says holds for the variant of the node.    *)
WithVariants(records, nodes) ==
  LET At(i) == {m \in DOMAIN nodes : \E j \in DOMAIN nodes[m] : nodes[m][j] = i}
  IN [i \in DOMAIN records |->
        IF At(i) = {} THEN records[i]
        ELSE [records[i] EXCEPT !.variant = VariantOf(records, nodes, CHOOSE m \in At(i) : TRUE)]]

Records(raws) ==
  LET Finished(read) == [i \in DOMAIN read |-> FinaliseValue(read[i])]
      Told(read) == Finished(WithVariants(read, IdentityNodes(read)))
  IN Told(WithoutTemplates([i \in DOMAIN raws |-> Record(raws[i])]))

-----------------------------------------------------------------------------
(* De-duplication                                                           *)

(* The text a record is compared by: its figures, or what is written.           *)
ValueKey(r) ==
  IF r.value.kind \in Numeric /\ (r.cls = "spec" \/ r.value.measure.unit = NoUnit)
  THEN [kind |-> r.value.kind, figures |-> r.value.measure.figures, fold |-> << >>]
  ELSE [kind |-> "text", figures |-> << >>, fold |-> r.value.fold]

SameBucket(r, s) ==
  QualifiedLabel(r.label) = QualifiedLabel(s.label) /\ ValueKey(r) = ValueKey(s) /\ r.variant = s.variant

(* Same unit; or one unit in the whole bucket and a value without any.          *)
Duplicates(records, i, j) ==
  LET units == {records[k].unit : k \in {l \in DOMAIN records : SameBucket(records[l], records[i])}} \ {NoUnit}
  IN /\ SameBucket(records[i], records[j])
     /\ \/ records[i].unit = records[j].unit
        \/ NoUnit \in {records[i].unit, records[j].unit} /\ Cardinality(units) = 1

(* Runs of equal values of two streams, [at, in the other, length]: the longest    *)
(* inside a window <<from, to, from, to>>, then those of the windows on its sides. *)
MatchingBlocks(left, right) ==
  LET runs == {r \in (DOMAIN left) \X (DOMAIN right) \X (DOMAIN left) :
                 /\ r[1] + r[3] - 1 <= Len(left) /\ r[2] + r[3] - 1 <= Len(right)
                 /\ \A k \in 0 .. r[3] - 1 : left[r[1] + k] = right[r[2] + k]}
      Before(r, s) == r[3] > s[3] \/ (r[3] = s[3] /\ (r[1] < s[1] \/ (r[1] = s[1] /\ r[2] <= s[2])))
      Inside(w) == {r \in runs : /\ w[1] <= r[1] /\ r[1] + r[3] - 1 <= w[2]
                                 /\ w[3] <= r[2] /\ r[2] + r[3] - 1 <= w[4]}
      Best(w) == CHOOSE r \in Inside(w) : \A s \in Inside(w) : Before(r, s)
      Open(ws) == {w \in ws : Inside(w) # {}}
      Sides(w, b) == {<<w[1], b[1] - 1, w[3], b[2] - 1>>, <<b[1] + b[3], w[2], b[2] + b[3], w[4]>>}
      windows[d \in Nat] ==
        IF d = 0 THEN {<<1, Len(left), 1, Len(right)>>} ELSE UNION {Sides(w, Best(w)) : w \in Open(windows[d - 1])}
  IN {Best(w) : w \in Open(UNION {windows[d] : d \in 0 .. Len(left)})}

(* Mutant: the variants of a product are aligned as its locales are.            *)
AlignedAcrossVariants(records, i, j) ==
  /\ i # j /\ records[i].raw.sourceType = records[j].raw.sourceType
  /\ ValueKey(records[i]) = ValueKey(records[j]) /\ records[i].unit = records[j].unit

(* Sibling locales of a page, or two readers of one page, that list the same    *)
(* four values or more in the same order: their labels are translations.        *)
Aligned(records, i, j) ==
  LET Stream(k) == Numbers({l \in DOMAIN records :
                              /\ records[l].cls \in {"spec", "identity"}
                              /\ records[l].raw.url = records[k].raw.url /\ records[l].raw.method = records[k].raw.method
                              /\ records[l].raw.sourceType = records[k].raw.sourceType}, Len(records))
      Values(stream) == [k \in DOMAIN stream |-> ValueKey(records[stream[k]])]
      a == records[i].raw
      b == records[j].raw
      siblings == /\ {records[i].cls, records[j].cls} \subseteq {"spec", "identity"}
                  /\ Url[a.url].host = Url[b.url].host /\ Url[a.url].leaf = Url[b.url].leaf
                  /\ a.sourceType = b.sourceType
                  /\ (a.url = b.url) # (a.method = b.method)
      long == Len(Stream(i)) >= 4 /\ Len(Stream(j)) >= 4
      Pairs(m) == /\ m[3] >= 4 /\ Cardinality({Values(Stream(i))[m[1] + k] : k \in 0 .. m[3] - 1}) >= 2
                  /\ \E k \in 0 .. m[3] - 1 : Stream(i)[m[1] + k] = i /\ Stream(j)[m[2] + k] = j
  IN /\ i # j /\ siblings /\ records[i].variant = records[j].variant /\ records[i].unit = records[j].unit
     /\ long /\ \E m \in MatchingBlocks(Values(Stream(i)), Values(Stream(j))) : Pairs(m)

(* The clusters of record numbers: record by record, those it is linked with become *)
(* one with it.                                                                 *)
Clusters(records) ==
  LET Linked(i, j) == Duplicates(records, i, j) \/ Aligned(records, i, j)
      Joined(clusters, j) ==
        LET joined == {c \in clusters : \E i \in c : Linked(i, j)}
        IN (clusters \ joined) \cup {{j} \cup UNION joined}
      upTo[n \in Nat] == IF n = 0 THEN {} ELSE Joined(upTo[n - 1], n)
  IN upTo[Len(records)]

(* One attribute per cluster, led by its record of the best class.              *)
Attribute(records, members) ==
  LET Rank(i) == ClassRank(records[i].cls)
      Leads(i, j) == Rank(i) < Rank(j) \/ (Rank(i) = Rank(j) /\ i <= j)
      first == records[CHOOSE i \in members : \A j \in members : Leads(i, j)]
      ordered == Numbers(members, Len(records))
      united == SelectSeq(ordered, LAMBDA i : records[i].unit # NoUnit)
  IN [label |-> first.label, value |-> first.value, cls |-> first.cls, variant |-> first.variant,
      unit |-> IF united = << >> THEN NoUnit ELSE records[united[1]].unit,
      aliases |-> {records[i].label.base : i \in members} \ {first.label.base},
      evidence |-> ordered, first |-> records[ordered[1]].raw]

(* An attribute per cluster, in the order of their first records.               *)
AttributesOf(records, clusters) ==
  LET Leads(i, c) == i \in c /\ \A j \in c : i <= j
      leads == Numbers({i \in DOMAIN records : \E c \in clusters : Leads(i, c)}, Len(records))
  IN [k \in DOMAIN leads |-> Attribute(records, CHOOSE c \in clusters : Leads(leads[k], c))]

NormalizeAttributes(raws) ==
  LET Of(records) == AttributesOf(records, Clusters(records)) IN Of(Records(raws))
=============================================================================
