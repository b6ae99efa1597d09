------------------------------ MODULE MCEngine ------------------------------
(***************************************************************************)
(* The engine below one word, in parts that share nothing: the searches of *)
(* StemIndex, the accents of Accentuation and the augments and derived     *)
(* stems of Augments and Derivations over all inputs up to a bound, which  *)
(* grow from state to state; the states of AnalysisStorage; the requests   *)
(* of LanguageTables.                                                      *)
(***************************************************************************)
EXTENDS Derivations, AccentLaw, AnalysisStorage, LanguageTables, StemIndex

CONSTANTS
  MaxEntries,   \* entries of a dictionary
  MaxSyllables, \* pieces of a word
  MaxLetters    \* letters of a stem

\* Letters 2 and 3 are one to the comparison table; keys longer than KEYLEN
\* share their record with their neighbours.
MCClass == <<1, 2, 2>>
StemKeys == UNION {[1 .. n -> 1 .. 2] : n \in 1 .. 3} \cup {<<1, 3>>, <<3>>}
MCListable ==
  [key : StemKeys, flags : {1}] \cup [key : {<<1, 2>>, <<1, 3>>}, flags : {2}]
MCProbes == StemKeys \cup [1 .. 4 -> 1 .. 2]
MCModuli == 1 .. 2

\* Forms of two keys, one of them found in two dialects, also through a
\* crasis, and once in a mood that takes no augment.
MCForm(key, dialect, with, unaugmented, indicative) ==
  [key |-> key, dialect |-> dialect, crasis |-> with,
   unaugmented |-> unaugmented, indicative |-> indicative]
MCForms ==
  {MCForm(key, dialect, with, FALSE, TRUE) :
     key \in {"k1", "k2"}, dialect \in {{}, {"DORIC"}}, with \in {None, "kai"}}
  \cup {MCForm("k3", {}, with, TRUE, mood) :
           with \in {None, "o"}, mood \in BOOLEAN}
MCCrases == {[preword |-> "kai", possdial |-> {}],
             [preword |-> "kai", possdial |-> {"ATTIC"}],
             [preword |-> "o", possdial |-> {"EPIC"}]}

\* What a stem may begin with: a vowel or diphthong for every row of the
\* augment tables, long, short and unmarked ones; r; consonants that are
\* reduplicated, and clusters that are and that are not.
Onsets ==
  {<<"a", ")">>, <<"a", "(">>, <<"a", "i", ")">>, <<"a", "u", "(">>,
   <<"e", ")">>, <<"e", "(">>, <<"e", "i", ")">>, <<"e", "u", ")">>,
   <<"e", ")", "e">>, <<"e", ")", "o", "i">>, <<"h", ")">>, <<"i", "(">>,
   <<"i", ")", "^">>, <<"o", ")">>, <<"o", "i", ")">>, <<"o", "i", ")", "w">>,
   <<"o", "u", ")">>, <<"u", "(">>, <<"u", ")", "^">>, <<"w", ")">>,
   <<"r", "(">>, <<"k">>, <<"q">>, <<"z">>, <<"g", "n">>, <<"k", "r">>,
   <<"s", "t">>}
Letters == {<<"a">>, <<"a", "_">>, <<"e">>, <<"w">>, <<"r">>, <<"q">>, <<"n">>}

Dialects == {{}, {"ATTIC"}, {"DORIC"}, {"EPIC"}}

\* The rules of a class as its table has them (aw_denom.asc): a suffix of the
\* perfect and one of the aorist passive, each in three dialects.
Rule(suffix, part, rei, dialect) ==
  [suffix |-> suffix, class |-> "aw", part |-> part, rei |-> rei,
   dialect |-> dialect]
Rules ==
  <<Rule(<<"h", "k">>, PP_PF, FALSE, {"ATTIC", "IONIC"}),
    Rule(<<"a", "_", "k">>, PP_PF, TRUE, {"ATTIC"}),
    Rule(<<"a", "_", "k">>, PP_PF, FALSE, {"DORIC", "AEOLIC"}),
    Rule(<<"h", "q">>, PP_AP, FALSE, {"ATTIC", "IONIC"}),
    Rule(<<"a", "_", "q">>, PP_AP, TRUE, {"ATTIC"}),
    Rule(<<"a", "_", "q">>, PP_AP, FALSE, {"DORIC", "AEOLIC"})>>

----------------------------------------------------------------------------
VARIABLES
  part,         \* the part of the engine that runs
  dstem         \* a stem, with its quantities

functions == <<entries, words, dstem>>
allvars == <<part, functions, storage, vars>>

MCInit ==
  /\ part \in {"search", "accents", "stems", "storage", "tables"}
  /\ entries = <<>> /\ NoWord /\ dstem = <<>>
  /\ SInit
  /\ Init /\ (part # "tables" => language = CHOOSE l \in Languages : TRUE)

EnterKey ==
  /\ part = "search" /\ Len(entries) < MaxEntries
  /\ AddEntry
  /\ UNCHANGED <<words, dstem, storage, vars>>

EnterPiece ==
  /\ part = "accents" /\ Cardinality(cuts) <= MaxSyllables
  /\ AddPiece
  /\ UNCHANGED <<entries, dstem, storage, vars>>

\* No two consonants meet, which could change, nor two vowels that could make
\* a diphthong.
AddLetter ==
  /\ part = "stems"
  /\ \/ dstem = <<>> /\ dstem' \in Onsets
     \/ /\ dstem # <<>> /\ Len(dstem) < MaxLetters
        /\ \E letter \in Letters :
             /\ ~ (Is_cons(Last(dstem)) /\ Is_cons(letter[1]))
             /\ dstem' = dstem \o letter
  /\ UNCHANGED <<entries, words, storage, vars>>

Store == part = "storage" /\ SNext /\ UNCHANGED <<functions, vars>>

Request == part = "tables" /\ Next /\ UNCHANGED <<functions, storage>>

MCNext ==
  /\ EnterKey \/ EnterPiece \/ AddLetter \/ Store \/ Request
  /\ UNCHANGED part

MCSpec == MCInit /\ [][MCNext]_allvars

----------------------------------------------------------------------------
Lemma(dialect, syll) ==
  [name |-> "lemma", stem |-> dstem, class |-> "aw", dialect |-> dialect,
   syll |-> syll]

\* unaugment takes back whatever add_augment prefixed, however many variants
\* the dialects leave (augment.c): a stem without quantities is among the
\* proposals for each of its augmented forms.  There are never more of them
\* than genwd.c:201 has room for.
AugmentUndone == part = "stems" /\ dstem # <<>> =>
  \A dialect \in Dialects, flags \in {{}, {"SYLL_AUGMENT"}} :
    LET r == add_augment([text |-> dstem, dialect |-> dialect, flags |-> flags,
                          tense |-> "IMPERF"])
    IN /\ r.count <= 2
       /\ \A i \in 1 .. r.count :
            \E p \in unaugment(stripquant(r.forms[i].text), TRUE) :
              stripquant(p.text) = stripquant(dstem)

\* The stems a request for a derived stem writes (write_rule).
Requests ==
  {<<l, r>> \in {Lemma(d, s) : d \in Dialects, s \in BOOLEAN}
                \X {Rules[i] : i \in DOMAIN Rules} :
     rule_matches(l, r) /\ (r.rei => Is_rei_char(Last(dstem)))}
KeysFor(w, lemma) == checkforderiv(stripquant(w), {lemma}, Rules)
Spells(key, w) == key.stem = <<>> \/ stripquant(key.stem) = stripquant(w)

\* The analysis recognizes every derived stem the preparer writes, although
\* each of the two reduplicates in its own way.  Left out: stems that lost
\* an aspirate; perfects of lemmas with a syllabic augment; perfects of
\* e)e-, where write_rule takes the epic reduplication and the rules are of
\* other dialects; a long suffix behind an augmented vowel (LongMarkKept).
DerivedFound == part = "stems" /\ dstem # <<>> =>
  \A <<lemma, rule>> \in Requests :
    LET w == write_rule(lemma, rule)
    IN /\ w = Joined(lemma, rule)
       /\ Is_perfect(rule.part) =>
            /\ ~ lemma.syll
            /\ ~ \E b \in {")", "("} : IsPrefix(<<"e", b, "e">>, dstem)
            /\ ~ (Is_vowel(Head(dstem)) /\ Marked(rule.suffix))
       => \E key \in KeysFor(w, lemma) : Spells(key, w)

\* "this *could* be a doric reduplicated form, but we want to make sure that
\* we have labelled the long alpha" (derivio.c:376): a reduplicated stem
\* whose vowel is long without a letter to show it gets a key with the marks
\* it was written with.
LongMarkKept == part = "stems" /\ dstem # <<>> =>
  \A <<lemma, rule>> \in Requests :
    LET w == write_rule(lemma, rule)
    IN Is_perfect(rule.part) /\ ~ lemma.syll /\ At(w, 2) = "_" =>
         \E key \in KeysFor(w, lemma) : key.stem = w

\* "a)riqmh/qhn not a)ritmh/qhn" (do_dissim.c:23): an aorist passive that
\* ends in an aspirate keeps the one before it.
PassiveKeepsAspirate == part = "stems" /\ dstem # <<>> =>
  \A <<lemma, rule>> \in Requests :
    rule.part = PP_AP /\ Is_asp(Last(rule.suffix)) =>
      write_rule(lemma, rule) = lemma.stem \o rule.suffix
=============================================================================
