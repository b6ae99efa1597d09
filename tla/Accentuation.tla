---------------------------- MODULE Accentuation ----------------------------
(***************************************************************************)
(* Where the form generator puts the accent: recessively on verb forms     *)
(* (FixRecAcc), persistently on nouns, adjectives and participles          *)
(* (FixPersAcc2), both in morphlib/fixacc.c, over the syllable and         *)
(* quantity functions of greeklib.                                         *)
(*                                                                         *)
(* A word is a sequence of Beta Code characters, marks behind their vowel. *)
(* Capitals, which carry their breathing in front, the doubtful quantity   *)
(* mark and words longer than a buffer are left out.                       *)
(***************************************************************************)
EXTENDS Integers, Sequences, FiniteSets, SequencesExt, FiniteSetsExt

Is_lvwl(c) == c \in {"h", "w"}
Is_shvwl(c) == c \in {"a", "e", "i", "o", "u"}
Is_vowel(c) == Is_lvwl(c) \/ Is_shvwl(c)
HARDLONG == "_"
HARDSHORT == "^"
Is_quant(c) == c \in {HARDLONG, HARDSHORT}
Is_breath(c) == c \in {"(", ")"}
ACUTE == "/"
CIRCUMFLEX == "="
Is_accent(c) == c \in {ACUTE, CIRCUMFLEX}
Is_cons(c) == ~ (Is_vowel(c) \/ Is_quant(c) \/ Is_breath(c) \/ Is_accent(c)
                 \/ c \in {"|", "+", ""})

At(w, i) == IF i \in 1 .. Len(w) THEN w[i] ELSE ""

hasaccent(w) == \E i \in 1 .. Len(w) : Is_accent(w[i])

----------------------------------------------------------------------------
(* Syllables.                                                              *)

\* Whether the character at p is the second vowel of a diphthong.
is_diphth(p, w) ==
  /\ w[p] \in {"i", "u"}
  /\ At(w, p + 1) # "+"
  /\ \/ At(w, p - 1) \in {"a", "e", "o"}
     \/ <<At(w, p - 1), w[p]>> \in {<<"u", "i">>, <<"h", "u">>}

Vowels(w) == {p \in 1 .. Len(w) : Is_vowel(w[p])}
Nuclei(w) == {p \in Vowels(w) : ~ is_diphth(p, w)}
nsylls(w) == Cardinality(Nuclei(w))

\* The syllables behind a position.
After(w, p) == Cardinality({q \in Nuclei(w) : q > p})

ULTIMA == 0
PENULT == 1
ANTEPENULT == 2
P_ERR == 0

\* getsyll: the vowel of a syllable counted from the end, the second one of a
\* diphthong; getsyll2: the first one.
getsyll(w, syll) == Max({p \in Vowels(w) : After(w, p) = syll} \cup {P_ERR})
getsyll2(w, syll) ==
  LET p == getsyll(w, syll)
  IN IF nsylls(w) = 0 THEN 1
     ELSE IF p # P_ERR /\ is_diphth(p, w) THEN p - 1 ELSE p

LONG == "long"
SHORT == "short"
I_ERR == "none"

\* A subscript, behind the vowel or its breathing.
long_by_isub(w, p) ==
  At(w, p + 1) = "|" \/ (Is_breath(At(w, p + 1)) /\ At(w, p + 2) = "|")

\* The first mark before the next consonant decides, then the vowels; final
\* -ai and -oi may count as short.
Measured(w, p, final_short) ==
  LET marks == {s \in p .. Len(w) :
                  Is_quant(w[s]) /\ \A t \in p .. s : ~ Is_cons(w[t])}
      final == \/ p = Len(w)
               \/ p + 1 = Len(w) /\ Is_accent(w[p + 1])
  IN IF p = P_ERR THEN I_ERR
     ELSE IF marks # {}
          THEN IF w[Min(marks)] = HARDLONG THEN LONG ELSE SHORT
     ELSE IF long_by_isub(w, p) \/ Is_lvwl(w[p]) THEN LONG
     ELSE IF is_diphth(p, w)
          THEN IF final_short /\ final /\ w[p] = "i" /\ w[p - 1] \in {"a", "o"}
               THEN SHORT ELSE LONG
     ELSE SHORT

\* Final -ai and -oi are short in endings but for the oblique cases.
\* Mutant: they are always long.
quantprimLongAi(w, syll, is_ending, is_oblique) ==
  Measured(w, getsyll(w, syll), FALSE)
quantprim(w, syll, is_ending, is_oblique) ==
  Measured(w, getsyll(w, syll), is_ending /\ ~ is_oblique)

\* getquantity: a mark on the vowel itself, then as quantprim.
getquantity(w, syll, is_ending, is_oblique) ==
  LET mark == At(w, getsyll(w, syll) + 1)
  IN IF getsyll(w, syll) # P_ERR /\ Is_quant(mark)
     THEN IF mark = HARDLONG THEN LONG ELSE SHORT
     ELSE quantprim(w, syll, is_ending, is_oblique)

\* addaccent: behind the breathing and the quantity; a circumflex replaces
\* the mark of a long vowel.
addaccent(w, accent, p) ==
  IF p = P_ERR THEN w
  ELSE LET q == Min({i \in p + 1 .. Len(w) + 1 :
                       ~ (Is_breath(At(w, i)) \/ Is_quant(At(w, i)))})
       IN IF accent = CIRCUMFLEX /\ w[q - 1] = HARDLONG
          THEN ReplaceAt(w, q - 1, accent)
          ELSE InsertAt(w, q, accent)

----------------------------------------------------------------------------
(* Recessive accents.  flags are the Morpheus flags the caller passes;     *)
(* takescirc is ulttakescirc and penult_form is penult_form of the ending. *)

\* Mutant: the accent recedes whatever the quantity of the ultima.
FixRecAccFar(w, flags, takescirc, penult_form) ==
  IF getsyll(w, ANTEPENULT) # P_ERR THEN addaccent(w, ACUTE, getsyll(w, ANTEPENULT))
  ELSE addaccent(w, ACUTE, getsyll(w, ULTIMA))

FixRecAcc(w, flags, takescirc, penult_form) ==
  LET ult == getsyll(w, ULTIMA)
      pen == getsyll(w, PENULT)
      ant == getsyll(w, ANTEPENULT)
      target == IF pen = P_ERR THEN ult ELSE pen
  IN IF hasaccent(w) \/ ult = P_ERR THEN w
     ELSE IF getquantity(w, ULTIMA, TRUE, FALSE) = LONG
          THEN IF pen # P_ERR THEN addaccent(w, ACUTE, pen)
               ELSE IF "ACCENT_OPTIONAL" \in flags THEN w
               ELSE addaccent(w, IF takescirc THEN CIRCUMFLEX ELSE ACUTE, ult)
     ELSE IF ant # P_ERR /\ ~ penult_form THEN addaccent(w, ACUTE, ant)
     ELSE IF "ACCENT_OPTIONAL" \in flags THEN w
     ELSE addaccent(w, IF /\ getquantity(w, PENULT, TRUE, FALSE) = LONG
                          /\ "ENCLITIC" \notin flags
                       THEN CIRCUMFLEX ELSE ACUTE, target)

----------------------------------------------------------------------------
(* Persistent accents.  A stem is [text, flags, noun3], an ending          *)
(* [text, flags, case, dual]: noun3 says that it is a noun of the third    *)
(* declension.                                                             *)

ulttakescirc(end) ==
  /\ "NO_CIRCUMFLEX" \notin end.flags
  /\ \/ "CONTRACTED" \in end.flags
     \/ "ENCLITIC" \notin end.flags /\ end.case \notin {"ACCUSATIVE", "NOMINATIVE"}

Is_oblique(end) == end.case \in {"GENITIVE", "DATIVE"}

diphth_end(w) ==
  LET s == getsyll(w, ULTIMA)
  IN /\ s > 1 /\ Is_vowel(w[s - 1])
     /\ nsylls(SubSeq(w, 1, s - 2)) # 0

is_thirdmono(stem, end) ==
  /\ stem.text # <<>> /\ stem.noun3
  /\ nsylls(stem.text) + nsylls(end.text) = 2
  /\ "CONTRACTED" \notin stem.flags \cup end.flags
  /\ ~ (diphth_end(stem.text \o end.text) /\ ~ end.dual)
  /\ Is_oblique(end)

\* Accents a string by itself: a contracted monosyllable counts as long.
fixnacc2(w, end) ==
  LET contr == "CONTRACTED" \in end.flags
      optional == "ACCENT_OPTIONAL" \in end.flags
      ult == getsyll(w, ULTIMA)
      pen == getsyll(w, PENULT)
      ant == getsyll(w, ANTEPENULT)
  IN IF hasaccent(w) THEN w
     ELSE IF \/ getquantity(w, ULTIMA, TRUE, Is_oblique(end)) = LONG
             \/ nsylls(w) = 1 /\ contr
          THEN IF pen # P_ERR THEN addaccent(w, ACUTE, pen)
               ELSE IF optional THEN w
               ELSE addaccent(w, IF ulttakescirc(end) THEN CIRCUMFLEX ELSE ACUTE, ult)
     ELSE IF ant # P_ERR THEN addaccent(w, ACUTE, ant)
     ELSE IF optional THEN w
     ELSE addaccent(w, IF /\ getquantity(w, PENULT, TRUE, Is_oblique(end) /\ ~ contr) = LONG
                          /\ "ENCLITIC" \notin end.flags
                       THEN CIRCUMFLEX ELSE ACUTE,
                    IF pen = P_ERR THEN ult ELSE pen)

\* The accent stays on the last syllable of the stem.
AccentStem(stem, end) ==
  LET p == getsyll(stem.text, ULTIMA)
      long == quantprim(stem.text, ULTIMA, FALSE, Is_oblique(end)) = LONG
      ult == quantprim(end.text, ULTIMA, TRUE, Is_oblique(end))
  IN IF nsylls(end.text) = 1 /\ long /\ ult = SHORT /\ "ENCLITIC" \notin end.flags
     THEN IF "ACCENT_OPTIONAL" \in end.flags THEN stem.text
          ELSE addaccent(stem.text, CIRCUMFLEX, p)
     ELSE addaccent(stem.text,
                    IF /\ ult # LONG /\ nsylls(end.text) # 2
                       /\ long /\ "CONTRACTED" \in stem.flags
                    THEN CIRCUMFLEX ELSE ACUTE, p)

\* The accent stays before the last syllable of the stem.
AccentBeforeStem(stem, end) ==
  LET Long(syll) ==
        getquantity(stem.text, syll, FALSE, Is_oblique(end)) = LONG
      pen == getsyll(stem.text, PENULT)
  IN IF /\ nsylls(end.text) = 0 /\ Long(PENULT)
        /\ getquantity(stem.text, ULTIMA, FALSE, Is_oblique(end)) = SHORT
        /\ "ENCLITIC" \notin end.flags
     THEN addaccent(stem.text, CIRCUMFLEX, pen)
     ELSE IF \/ nsylls(end.text) > 1
             \/ getquantity(end.text, ULTIMA, TRUE, Is_oblique(end)) = LONG
          THEN addaccent(stem.text, ACUTE, getsyll(stem.text, ULTIMA))
     ELSE addaccent(stem.text, ACUTE, pen)

\* penult_form and antepen_form are those of the stem.
FixPersAcc2(stem, end, penult_form, antepen_form) ==
  LET whole == stem.text \o end.text
      third == is_thirdmono(stem, end)
      From(w, p) == SubSeq(w, 1, p - 1) \o fixnacc2(SubSeq(w, p, Len(w)), end)
  IN IF nsylls(stem.text) = 0 /\ nsylls(end.text) = 0 THEN whole
     ELSE IF "PROCLITIC" \in end.flags THEN stem.text
     ELSE IF hasaccent(whole) \/ {"ACCENT_OPTIONAL", "ENCLITIC"} \subseteq end.flags
          THEN whole
     ELSE IF third /\ nsylls(end.text) = 2
          THEN IF "ACCENT_OPTIONAL" \in end.flags THEN whole
               ELSE stem.text \o From(end.text, getsyll2(end.text, ULTIMA))
     ELSE IF "SUFF_ACC" \in stem.flags \/ third \/ nsylls(stem.text) = 0
          THEN IF nsylls(end.text) >= 1 THEN stem.text \o fixnacc2(end.text, end)
               ELSE From(whole, getsyll2(whole, ULTIMA))
     ELSE IF penult_form \/ "STEM_ACC" \in end.flags \/ nsylls(stem.text) = 1
          THEN AccentStem(stem, end) \o end.text
     ELSE IF antepen_form THEN AccentBeforeStem(stem, end) \o end.text
     ELSE fixnacc2(whole, end)
=============================================================================
