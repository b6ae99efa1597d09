----------------------------- MODULE Derivations -----------------------------
(***************************************************************************)
(* Derived verb stems: how the source preparer writes them out             *)
(* (gener/derivation.c) and how the analysis recognizes them               *)
(* (gkdict/derivio.c).  Both join a lemma's stem and a suffix of its class *)
(* and reduplicate the perfect; the analysis starts from a stem as it      *)
(* stands in a word, without quantities.                                   *)
(*                                                                         *)
(* A lemma is [name, stem, class, dialect, syll], a rule of a class        *)
(* [suffix, class, part, rei, dialect]; syll is the flag SYLL_AUGMENT,     *)
(* part the principal part and rei R_E_I_ALPHA.  Left out: the junctions do_euph changes, nasal    *)
(* infixes and reduplicated presents, stems that are a mere breathing,     *)
(* diaereses, voice and tense constraints.                                 *)
(***************************************************************************)
EXTENDS Augments

\* Bits of a stem type, and the principal parts in it.
VERBSTEM == 8^6
Part(digit) == digit * 8^7
PP_PF == Part(4)
PP_PP == Part(5)
PP_AP == Part(6)
PP_FP == Part(7)
Is_perfect(part) == part \in {PP_PF, PP_PP, PP_FP}

Marked(text) == stripquant(text) # text

----------------------------------------------------------------------------
(* Writing a stem.                                                         *)

Is_asp(c) == c \in {"q", "x", "f"}

\* next_cons_rough: the next consonants behind a consonant and the vowels
\* after it begin with an aspirate, or with s and an aspirate.  A mark ends
\* the search.
next_cons_rough(w, i) ==
  LET past(from, Is(_)) == Min({j \in from .. Len(w) + 1 : ~ Is(At(w, j))})
      j == past(past(i, Is_cons), Is_vowel)
  IN Is_asp(At(w, j)) \/ (At(w, j) = "s" /\ Is_asp(At(w, j + 1)))

\* do_dissim: the first aspirate before another one becomes smooth.  The
\* exemption of aorist passives looks for their number in the bit VERBSTEM.
Verb(stype) == (stype \div VERBSTEM) % 2 * VERBSTEM   \* stype & VERBSTEM
Dissimilated(w) == {i \in 1 .. Len(w) : Is_asp(w[i]) /\ next_cons_rough(w, i)}
do_dissim(w, stype) ==
  LET at == Min(Dissimilated(w))
  IN IF Dissimilated(w) = {} \/ (Is_asp(Last(w)) /\ Verb(stype) = PP_AP) THEN w
     ELSE ReplaceAt(w, at, Smooth(w[at]))

\* write_rule: the stem of a lemma under a rule that agrees with its dialect.
Joined(lemma, rule) ==
  LET word == lemma.stem \o rule.suffix
  IN IF Is_perfect(rule.part) THEN simpleredupit(word, lemma.syll, "e") ELSE word
write_rule(lemma, rule) == do_dissim(Joined(lemma, rule), rule.part)

\* rule_matches and the dialect test of write_rule.
rule_matches(lemma, rule) ==
  /\ lemma.class = rule.class
  /\ AndDialect(lemma.dialect, rule.dialect) # Clash

----------------------------------------------------------------------------
(* Recognizing a stem.  The reduplication the stem is supposed to have is  *)
(* [kind, stem]: kind "" for none, "redupl", "temp_aug" or "syll_aug"; the *)
(* stem is the reduplicated one with its quantities, if unaugment gave it. *)

Redupl(kind, stem) == [kind |-> kind, stem |-> stem]

\* DstemTakesDsuff: the classes and dialects agree, and a long alpha follows
\* r, e or i if its rule says so.
Is_rei_char(c) == c \in {"r", "e", "i"}
DstemTakesDsuff(class, dialect, stem, rule, suffix) ==
  /\ class = rule.class
  /\ AndDialect(dialect, rule.dialect) # Clash
  /\ IsPrefix(<<"a", "_">>, suffix) /\ rule.rei => Is_rei_char(Last(stem))

\* checkcomderiv2: a key for each rule that takes the stem.  A key has the
\* stem with its quantities once the stem or a rule so far has marked some,
\* else none, for the stem in the word.  "found" are the rules of a suffix.
checkcomderiv2(found, stem, dialect, suffix, lemma, redupl, markedstem) ==
  LET marked(i) == markedstem \/ \E j \in 1 .. i : Marked(found[j].suffix)
      text(i) == IF Marked(found[i].suffix) THEN found[i].suffix ELSE suffix
  IN {[lemma |-> lemma.name,
       stem |-> IF marked(i) THEN stem \o text(i) ELSE <<>>] :
        i \in {k \in DOMAIN found :
                 /\ DstemTakesDsuff(lemma.class, dialect, stem, found[k], text(k))
                 /\ Is_perfect(found[k].part) = (redupl.kind # "")
                 /\ redupl.kind = "syll_aug" => lemma.syll}}

\* checkcomderiv with checkmultredups: the stem is reduplicated again.
\* Mutant: a stem with a vowel gets no more than one variant.
OneVariant(stem, dialect) ==
  LET made == redupit2(stem, dialect, FALSE, "e")
  IN SubSeq(made, Len(made), Len(made))
Variants(stem, dialect) == redupit2(stem, dialect, FALSE, "e")

checkcomderiv(found, lemma, suffix, redupl) ==
  LET markedstem == Marked(lemma.stem)
      variants == Variants(lemma.stem, lemma.dialect)
  IN IF redupl.kind = ""
     THEN checkcomderiv2(found, lemma.stem, lemma.dialect, suffix, lemma, redupl, markedstem)
     ELSE IF redupl.stem # <<>>
     THEN checkcomderiv2(found, redupl.stem, lemma.dialect, <<>>, lemma, redupl, TRUE)
     ELSE IF Is_vowel(Head(lemma.stem))
     THEN UNION {checkcomderiv2(found, variants[i].text, variants[i].dialect, suffix,
                                lemma, redupl, markedstem) : i \in DOMAIN variants}
     ELSE checkcomderiv2(found, simpleredupit(lemma.stem, FALSE, "e"), lemma.dialect,
                         suffix, lemma, redupl, markedstem)

\* checkforderiv2: every way to cut a stem into a lemma's and a suffix.
checkforderiv2(w, lexicon, rules, redupl) ==
  UNION {checkcomderiv(
           SelectSeq(rules, LAMBDA r : stripquant(r.suffix) = SubSeq(w, i + 1, Len(w))),
           lemma, SubSeq(w, i + 1, Len(w)), redupl) :
         <<i, lemma>> \in {<<n, l>> \in (1 .. Len(w)) \X lexicon :
                             stripquant(l.stem) = SubSeq(w, 1, n)}}

\* checkaugredup: "e)" is no reduplication before a vowel or one consonant,
\* but for a double one.
DoubleConsonants == {"z", "c", "y"}
checkaugredup(w, lexicon, rules) ==
  IF /\ IsPrefix(<<"e", ")">>, w)
     /\ ~ Is_cons(At(w, 4)) /\ At(w, 3) \notin DoubleConsonants
  THEN {}
  ELSE UNION {checkforderiv2(p.text, lexicon, rules,
                             Redupl(IF p.syllabic THEN "syll_aug" ELSE "temp_aug",
                                    p.quantity)) :
                p \in unaugment(w, TRUE)}

checkforredupderiv(w, lexicon, rules) ==
  IF ~ Is_cons(Head(w)) THEN checkaugredup(w, lexicon, rules)
  ELSE IF un_redupl(w, "e") = <<>> THEN {}
  ELSE checkforderiv2(un_redupl(w, "e"), lexicon, rules, Redupl("redupl", <<>>))

\* checkforderiv: the keys of a stem.
checkforderiv(w, lexicon, rules) ==
  checkforderiv2(w, lexicon, rules, Redupl("", <<>>))
    \cup checkforredupderiv(w, lexicon, rules)
=============================================================================
