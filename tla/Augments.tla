------------------------------ MODULE Augments ------------------------------
(***************************************************************************)
(* Augments and reduplications (morphlib/augment.c): how the form          *)
(* generator prefixes a stem, and the stems the analysis proposes for a    *)
(* prefixed one.  Stem separators are left out.                            *)
(***************************************************************************)
EXTENDS Accentuation

\* No dialect at all stands for any.
ALL_DIAL == {}
\* AndDialect: Clash for a negative result.
Clash == {"none"}
AndDialect(d, e) ==
  IF d = {} \/ e = {} THEN d \cup e
  ELSE IF d \cap e = {} THEN Clash ELSE d \cap e

stripquant(w) == SelectSeq(w, LAMBDA c : ~ Is_quant(c))

----------------------------------------------------------------------------
(* The tables.  A row stands for its two rows in the code, one with each   *)
(* breathing; "B" is the place of the breathing.                           *)

AugRow(noaug, withaug, augdial, uniqueflag) ==
  [noaug |-> noaug, withaug |-> withaug, augdial |-> augdial,
   uniqueflag |-> uniqueflag]
Always(noaug, withaug) == AugRow(noaug, withaug, ALL_DIAL, FALSE)

TempAugments ==
  << Always(<<"a", "i", "B">>, <<"h", "B", "|">>),
     Always(<<"e", "i", "B">>, <<"h", "B", "|">>),
     Always(<<"o", "i", "B">>, <<"w", "B", "|">>),
     Always(<<"o", "i", "B">>, <<"w", "B", "|">>),
     Always(<<"a", "u", "B">>, <<"h", "u", "B">>),
     AugRow(<<"a", "u", "B">>, <<"a", "u", "B">>, {"DORIC"}, FALSE),
     Always(<<"e", "u", "B">>, <<"h", "u", "B">>),
     AugRow(<<"e", "B", "e">>, <<"e", "B", "e">>, {"EPIC"}, TRUE),
     AugRow(<<"a", "B">>, <<"h", "B">>, {"ATTIC", "IONIC", "EPIC"}, FALSE),
     AugRow(<<"a", "B">>, <<"a", "_", "B">>, {"DORIC", "AEOLIC"}, FALSE),
     Always(<<"e", "B">>, <<"h", "B">>),
     Always(<<"h", "B">>, <<"h", "B">>),
     Always(<<"i", "B">>, <<"i", "_", "B">>),
     Always(<<"o", "B">>, <<"w", "B">>),
     Always(<<"w", "B">>, <<"w", "B">>),
     Always(<<"u", "B">>, <<"u", "_", "B">>),
     Always(<<"o", "u", "B">>, <<"o", "u", "B">>) >>

SyllAugments ==
  << Always(<<"i", "B">>, <<"e", "i", "B">>),
     Always(<<"i", "B">>, <<"e", "B", "i">>),
     Always(<<"o", "i", ")", "w">>, <<"o", "i", ")", "w">>),
     AugRow(<<"e", "B", "o", "i">>, <<"e", "B", "w", "|">>, ALL_DIAL, TRUE),
     Always(<<"o", "i", "B">>, <<"e", "B", "w", "|">>),
     Always(<<"e", "i", "B">>, <<"e", "i", "B">>),
     Always(<<"e", "B">>, <<"e", "i", "B">>),
     Always(<<"a", "B">>, <<"e", "B", "a">>),
     Always(<<"h", "B">>, <<"e", "B", "h">>),
     Always(<<"w", "B">>, <<"e", "B", "w">>),
     Always(<<"o", "B">>, <<"e", "B", "w">>),
     Always(<<"e", "B">>, <<"e", "i", "B">>),
     Always(<<"e", "u", "B">>, <<"e", "u", "B">>),
     Always(<<"o", "u", "B">>, <<"e", "B", "o", "u">>) >>

Breathe(text, breath) ==
  [i \in DOMAIN text |-> IF text[i] = "B" THEN breath ELSE text[i]]
\* The rows of a table for the breathing of a stem.
RowsFor(table, w) ==
  LET rough == \E i \in 1 .. Len(w) : w[i] = "("
      breath == IF rough THEN "(" ELSE ")"
  IN [i \in DOMAIN table |->
        [table[i] EXCEPT !.noaug = Breathe(@, breath),
                         !.withaug = Breathe(@, breath)]]

----------------------------------------------------------------------------
(* Augmenting.  A form is [text, dialect, flags, tense].                    *)

\* do_tempaug and do_syllaug: a variant for every row whose vowel the stem
\* begins with and whose dialect agrees, up to the first unique one; a short
\* mark behind the vowel goes.
do_augment(table, form, syllabic) ==
  LET stem == form.text
      rows == SelectSeq(RowsFor(table, stem),
                        LAMBDA r : /\ IsPrefix(r.noaug, stem)
                                   /\ AndDialect(form.dialect, r.augdial) # Clash)
      unique == {i \in DOMAIN rows : rows[i].uniqueflag}
      rest(r) == LET at == Len(r.noaug) + 1
                 IN SubSeq(stem, IF At(stem, at) = HARDSHORT THEN at + 1 ELSE at,
                           Len(stem))
  IN [i \in 1 .. Min(unique \cup {Len(rows)}) |->
        [form EXCEPT !.text = rows[i].withaug \o rest(rows[i]),
                     !.dialect = AndDialect(@, rows[i].augdial),
                     !.flags = IF syllabic THEN @ \ {"SYLL_AUGMENT"} ELSE @]]

augmentit(form, syllabic) ==
  LET c == Head(form.text)
      body == IF IsPrefix(<<"r", "(">>, form.text)
              THEN (IF "RAW_SONANT" \in form.flags THEN <<"r">> ELSE <<"r", "r">>)
                     \o SubSeq(form.text, 3, Len(form.text))
              ELSE IF "SYLL_AUGMENT" \in form.flags THEN <<c>> \o form.text
              ELSE form.text
  IN IF Is_cons(c) THEN <<[form EXCEPT !.text = <<"e", ")">> \o body]>>
     ELSE IF syllabic THEN do_augment(SyllAugments, form, TRUE)
     ELSE do_augment(TempAugments, form, FALSE)

\* needs_augment2, for the indicative.
needs_augment2(form) ==
  /\ "HAS_AUGMENT" \notin form.flags
  /\ \/ form.tense \in {"IMPERF", "AORIST"}
     \/ /\ form.tense = "PLUPERF"
        /\ "ATTIC_REDUPL" \in form.flags \/ Head(form.text) \notin {"e", "h"}

\* add_augment for Greek: the forms, and how many of them it says it made.
\* Only the first one is marked as augmented, also when none was made.
add_augment(form) ==
  LET made == augmentit(form, "SYLL_AUGMENT" \in form.flags)
      marked(f, flag) == [f EXCEPT !.flags = @ \cup {flag}]
  IN IF "SKIP_AUGMENT" \in form.flags
     THEN [count |-> 0, forms |-> <<marked(form, "UNAUGMENTED")>>]
     ELSE IF ~ needs_augment2(form)
     THEN [count |-> IF "HAS_AUGMENT" \in form.flags THEN 1 ELSE 0,
           forms |-> <<[form EXCEPT !.flags = @ \ {"SYLL_AUGMENT"}]>>]
     ELSE [count |-> Len(made),
           forms |-> IF made = <<>> THEN <<marked(form, "HAS_AUGMENT")>>
                     ELSE <<marked(Head(made), "HAS_AUGMENT")>> \o Tail(made)]

----------------------------------------------------------------------------
(* Taking the augment off.  A proposal is [text, quantity, syllabic]: the  *)
(* stem, the augmented stem with its quantity when the row marks one (else *)
(* empty), and whether the augment is syllabic.                            *)

Proposal(text, quantity, syllabic) ==
  [text |-> text, quantity |-> quantity, syllabic |-> syllabic]

\* morphstrncmp on a prefix: a subscript is an iota.
Sounds(c) == IF c = "|" THEN "i" ELSE c
BeginsWith(w, prefix) ==
  /\ Len(prefix) <= Len(w)
  /\ \A i \in DOMAIN prefix : Sounds(prefix[i]) = Sounds(w[i])

\* A row undone.  Mutant: what is left begins behind the augment with its
\* quantity, which the word does not show.
RestBehindMarks(w, row) == SubSeq(w, Len(row.withaug) + 1, Len(w))
RestBehind(w, row) == SubSeq(w, Len(stripquant(row.withaug)) + 1, Len(w))

Undone(table, w, syllabic) ==
  LET rows == SelectSeq(RowsFor(table, w),
                        LAMBDA r : BeginsWith(w, stripquant(r.withaug)))
  IN {LET r == rows[i]
          marked == ~ syllabic /\ stripquant(r.withaug) # r.withaug
      IN Proposal(r.noaug \o RestBehind(w, r),
                  IF marked THEN r.withaug \o RestBehind(w, r) ELSE <<>>,
                  syllabic) : i \in DOMAIN rows}

unaugment(w, wantsyllaugs) ==
  LET from(i) == SubSeq(w, i, Len(w))
  IN IF IsPrefix(<<"e", ")", "r", "r">>, w)
     THEN {Proposal(<<"r", "(">> \o from(5), <<>>, FALSE)}
     ELSE IF IsPrefix(<<"e", ")", "r">>, w)
     THEN {Proposal(<<"r", "(">> \o from(4), <<>>, FALSE)}
     ELSE IF IsPrefix(<<"e", ")">>, w) /\ Is_cons(At(w, 3))
     THEN {Proposal(from(3), <<>>, FALSE)}
            \cup IF w[3] = At(w, 4) THEN {Proposal(from(4), <<>>, TRUE)} ELSE {}
     ELSE Undone(TempAugments, w, FALSE)
            \cup IF wantsyllaugs THEN Undone(SyllAugments, w, TRUE) ELSE {}

----------------------------------------------------------------------------
(* Reduplication.                                                          *)

Smooth(c) == CASE c = "q" -> "t" [] c = "x" -> "k" [] c = "f" -> "p" [] OTHER -> c
Is_liquid(c) == c \in {"r", "l"}

\* Consonants that take an augment instead: two that are no muta cum liquida,
\* double ones, r, and gn or gl.
AugmentsInstead(w, redupc) ==
  \/ /\ Is_cons(w[1]) /\ Is_cons(At(w, 2)) /\ ~ Is_liquid(At(w, 2)) /\ redupc # "i"
  \/ w[1] \in {"z", "c", "y", "r"} \/ Is_vowel(w[1])
  \/ <<w[1], At(w, 2)>> \in {<<"g", "n">>, <<"g", "l">>} /\ redupc # "i"

Blank(text, dialect) ==
  [text |-> text, dialect |-> dialect, flags |-> {}, tense |-> "PERFECT"]
redupit2(text, dialect, syllabic, redupc) ==
  IF AugmentsInstead(text, redupc)
  THEN augmentit(Blank(text, dialect), syllabic)
  ELSE <<Blank(<<Smooth(text[1]), redupc>> \o text, dialect)>>

\* The first variant; a stem that has none stays as it is.
simpleredupit(text, syllabic, redupc) ==
  LET made == redupit2(text, {}, syllabic, redupc)
  IN IF made = <<>> THEN text ELSE Head(made).text

\* un_redupl: the stem behind a reduplication, empty if there is none.
un_redupl(w, redupc) ==
  IF At(w, 2) = redupc /\ w[1] = Smooth(At(w, 3)) THEN SubSeq(w, 3, Len(w)) ELSE <<>>
=============================================================================
