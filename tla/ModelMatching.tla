------------------------------ MODULE ModelMatching ------------------------------
(***************************************************************************)
(* core/match.py and core/sku.py: does a search result name the requested  *)
(* model, a market version of it, a different variant, or another model?   *)
(*                                                                         *)
(* A word is one alphanumeric part after normalize_model. A group is a      *)
(* sequence of words joined by ./_- ; a title is a sequence of groups; a    *)
(* path is a sequence of segments, each a sequence of words, and as a text  *)
(* it is one group. What a decision asks of the spelling of a word is a     *)
(* constant. A model is [parts, key, spellings, skus]: its words, the word  *)
(* that spells all of them joined (its only part, when it has one), the      *)
(* sequences of words that normalize to that word, and those of its tokens   *)
(* that have letters and digits, as [base, suffix, size]: the identifier,    *)
(* the market code after it (NoWord: none), and their characters together.   *)
(***************************************************************************)
EXTENDS Naturals, FiniteSets, Sequences, SequencesExt

CONSTANTS
  NoWord,
  Identifiers,        \* words of five characters or more with letters and digits
  Numbers,            \* words of digits
  LongNumbers,        \* those of more than two digits
  SlugWords,          \* words of four letters or more
  ShortWords,         \* words of at most four characters
  LongWords,          \* words of at least four
  TinyWords,          \* words of at most two
  RegionalTails,      \* classify_sku_suffix(word) = "regional"
  Modifiers,          \* MODEL_FAMILY_MODIFIERS
  FileSuffixes,       \* NON_VARIANT_SUFFIXES
  PageRoleWords,      \* PAGE_ROLE_WORDS
  Extension,          \* word -> [of, tail, close]: it is `of` followed by `tail`;
                      \* close: by at most two characters, and `of` ends in a digit
  NearMisses,         \* pairs of words that differ by at most two trailing characters
  Contained,          \* word -> words of three characters or more written inside it
  Split               \* word -> the sequences of two or three words that together spell it

Plain(w) == w \notin DOMAIN Extension
Extends(w, key) == ~Plain(w) /\ Extension[w].of = key
Near(w, v) == <<w, v>> \in NearMisses \/ <<v, w>> \in NearMisses

Words(text) == ToSet(FlattenSeq(text))
PathText(path) == <<FlattenSeq(path)>>

(* The positions at which the words `part` occur in the sequence `whole`. *)
Occurrences(part, whole) ==
  {i \in 1 .. Len(whole) : i + Len(part) - 1 <= Len(whole)
                           /\ SubSeq(whole, i, i + Len(part) - 1) = part}
(* The positions of the words that spell one of these sequences.             *)
Covered(spellings, words) ==
  UNION {UNION {i .. i + Len(s) - 1 : i \in Occurrences(s, words)} : s \in spellings}
(* _parts_forming_identifier, of the joined model and of a word *)
SpelledAt(model, words) == Covered({s \in model.spellings : Len(s) <= 3}, words)
SplitOf(w) == IF w \in DOMAIN Split THEN Split[w] ELSE {}
FormingIdentifier(w, words) == Covered(SplitOf(w), words)
(* The word is in the joined words. *)
Within(w, words) ==
  \/ FormingIdentifier(w, words) # {}
  \/ \E v \in ToSet(words) : v = w \/ Extends(v, w) \/ (v \in DOMAIN Contained /\ w \in Contained[v])
Following(whole, i) == IF i \in DOMAIN whole THEN whole[i] ELSE NoWord

-----------------------------------------------------------------------------
(* match.py                                                                 *)

CompoundModelMatch(model, words) ==
  LET parts == ToSet(model.parts)
      found == parts \cap words
  IN IF Len(model.parts) < 2 \/ found = {} THEN "unknown"
     ELSE IF found = parts \/ found \cap Identifiers # {} THEN "exact"
     ELSE IF Cardinality(found) >= 2 /\ found \cap (Numbers \cup Identifiers) # {} THEN "likely"
     ELSE "unknown"

NamesVariant(key, group) ==
  \E i \in 1 .. Len(group) - 1 :
    group[i] = key /\ group[i + 1] \in ShortWords \ FileSuffixes

NamesKey(model, group) ==
  \/ group \in model.spellings
  \/ model.key \in ToSet(group)
  \/ Len(group) = 1 /\ Extends(group[1], model.key) /\ Extension[group[1]].tail \in FileSuffixes

ModelMatch(model, text) ==
  LET groups == ToSet(text)
      compound == CompoundModelMatch(model, Words(text))
  IN IF \E g \in groups : NamesVariant(model.key, g) THEN "likely_variant"
     ELSE IF \E g \in groups : NamesKey(model, g) THEN "exact"
     ELSE IF compound # "unknown" THEN compound
     ELSE IF \E g \in groups : Len(g) = 1 /\ Near(g[1], model.key) THEN "mismatch"
     ELSE "unknown"

(* "<model>-specs" is still that model's page. *)
UrlNamesExactModel(model, path) ==
  LET last == IF path = << >> THEN << >> ELSE path[Len(path)]
      kept == {n \in 0 .. Len(last) : \A i \in n + 1 .. Len(last) : last[i] \in PageRoleWords}
  IN \E n \in kept : SubSeq(last, 1, n) = model.parts

(* A word of the path is the model followed by a tail.                       *)
LongerModel(model, path, words) ==
  /\ ~UrlNamesExactModel(model, path)
  /\ \E w \in ToSet(words) : Extends(w, model.key)
                             /\ (Extension[w].tail \in Modifiers \/ Extension[w].close)

(* Another number follows the model's word, or the whole model up to a number *)
(* of one or two digits is followed by that number and a tail.               *)
OtherNumber(model, words) ==
  \E i \in 1 .. Len(model.parts) - 1, j \in 1 .. Len(words) - 1 :
    /\ model.parts[i + 1] \in Numbers /\ model.parts[i] \in LongWords
    /\ words[j] = model.parts[i] /\ words[j + 1] \in Numbers \ {model.parts[i + 1]}
LongerNumber(model, words) ==
  \E i \in 1 .. Len(model.parts) - 1 : \E j \in Occurrences(SubSeq(model.parts, 1, i), words) :
    LET w == Following(words, i + j) IN
    /\ model.parts[i + 1] \in Numbers \ LongNumbers
    /\ Extends(w, model.parts[i + 1]) /\ Extension[w].close

(* Mutant: another number in the place of the model's is overlooked. *)
PathNamesLongerWord(model, path, words) ==
  LongerModel(model, path, words) \/ LongerNumber(model, words)
PathNamesVariant(model, path, words) ==
  LongerModel(model, path, words) \/ OtherNumber(model, words) \/ LongerNumber(model, words)

(* A word of the path is near an identifier of the model and no part of it.    *)
NearIdentifier(model, words) ==
  \E p \in ToSet(model.parts) \cap Identifiers, j \in DOMAIN words :
    Near(p, words[j]) /\ j \notin FormingIdentifier(p, words)

(* The model followed by a family modifier ("Pro", "Max") it does not have.   *)
Modified(model, words) ==
  \E i \in Occurrences(model.parts, words) :
    Following(words, i + Len(model.parts)) \in Modifiers \ ToSet(model.parts)
PlainlyNamed(model, words) ==
  \E i \in Occurrences(model.parts, words) :
    Following(words, i + Len(model.parts)) \notin Modifiers \ ToSet(model.parts)
NamesModified(model, said, path, words) ==
  \/ Modified(model, words)
  \/ Modified(model, said) /\ ~(PlainlyNamed(model, said) /\ UrlNamesExactModel(model, path))

(* The base of the model without the modifier that was asked for. *)
LacksModifier(model, words) ==
  \E i \in DOMAIN model.parts :
    /\ i > 1 /\ model.parts[i] \in Modifiers \ ToSet(words)
    /\ Occurrences(SubSeq(model.parts, 1, i - 1), words) # {}

(* The title's words and the path's, and what the title alone says.             *)
Weighed(model, title, path, said, words, match) ==
  LET another == \E g \in ToSet(title) :
                   /\ ToSet(g) \cap Identifiers # {} /\ g \notin model.spellings
                   /\ g \notin {<<p>> : p \in ToSet(model.parts)}
  IN IF PathNamesVariant(model, path, words) \/ NamesModified(model, said, path, words)
       THEN "different_variant"
     ELSE IF NearIdentifier(model, words) THEN "mismatch"
     ELSE IF match # "exact" /\ (LacksModifier(model, said) \/ LacksModifier(model, words))
       THEN "different_variant"
     ELSE IF match = "likely" /\ ToSet(model.parts) \subseteq ToSet(words) THEN "exact"
     ELSE IF match # "unknown" THEN match
     ELSE IF another THEN "unknown"
     ELSE ModelMatch(model, <<words>>)

CandidateModelMatch(model, title, path) ==
  Weighed(model, title, path, FlattenSeq(title), FlattenSeq(path), ModelMatch(model, title))

ArticleMatches(article, text) == article # NoWord /\ <<article>> \in ToSet(text)

-----------------------------------------------------------------------------
(* sku.py                                                                   *)

NoSku == [base |-> NoWord, suffix |-> NoWord, size |-> 0]

(* The longest identifier of the model, the first of several.               *)
RequestedSku(model) ==
  LET skus == model.skus
      longest == {i \in DOMAIN skus : \A j \in DOMAIN skus :
                    skus[j].size < skus[i].size \/ (skus[j].size = skus[i].size /\ i <= j)}
  IN IF skus = << >> THEN NoSku ELSE skus[CHOOSE i \in longest : TRUE]

IsSlugWord(w) == w \in SlugWords \cup LongNumbers

RelateTail(sku, first) ==
  IF first = NoWord THEN (IF sku.suffix = NoWord THEN "exact" ELSE "base_only")
  ELSE IF sku.suffix # NoWord
    THEN IF first = sku.suffix THEN "exact"
         ELSE IF IsSlugWord(first) THEN "base_only" ELSE "different_suffix"
  ELSE IF first \in RegionalTails THEN "regional_suffix"
  ELSE IF IsSlugWord(first) THEN "exact" ELSE "different_variant"

SkuOrder == <<"exact", "regional_suffix", "base_only", "different_suffix",
              "different_variant", "absent">>

(* The best relation any word of the texts (title and path) has to the SKU. *)
SkuRelation(model, texts) ==
  LET sku == RequestedSku(model)
      Ends(g, i) == {n \in i .. Len(g) : SubSeq(g, i, n) \in {<<sku.base>>} \cup SplitOf(sku.base)}
      At(g, i) == IF Ends(g, i) # {} THEN RelateTail(sku, Following(g, Min(Ends(g, i)) + 1))
                  ELSE IF Extends(g[i], sku.base) THEN "different_variant" ELSE "absent"
      relations == UNION {{At(g, i) : i \in DOMAIN g} : g \in texts} \cup {"absent"}
  IN IF sku = NoSku THEN "absent"
     ELSE SelectSeq(SkuOrder, LAMBDA r : r \in relations)[1]
=============================================================================
