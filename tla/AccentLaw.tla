------------------------------ MODULE AccentLaw ------------------------------
(***************************************************************************)
(* What the accents of Accentuation should be, by the rules of Greek       *)
(* grammar, for words of any length.                                       *)
(***************************************************************************)
EXTENDS Accentuation

\* Short, marked long, diphthong that may be short at the end, long vowel,
\* a vowel of its own, a consonant at the end.
Pieces == {<<"k", "a">>, <<"k", "a", "_">>, <<"k", "a", "i">>, <<"k", "w">>,
           <<"i", "+">>, <<"k">>}

VARIABLES
  word,         \* an unaccented word
  cuts          \* where its pieces end

words == <<word, cuts>>

NoWord == word = <<>> /\ cuts = {0}

AddPiece ==
  /\ \E piece \in Pieces : word' = word \o piece
  /\ cuts' = cuts \cup {Len(word')}

Words == NoWord /\ [][AddPiece]_words

----------------------------------------------------------------------------
Accents(w) == {i \in 1 .. Len(w) : Is_accent(w[i])}

\* The letters, breathings and subscripts of a word.
Unaccented(w) ==
  LET of[n \in 0 .. Len(w)] ==
        IF n = 0 THEN <<>>
        ELSE IF Is_accent(w[n]) \/ Is_quant(w[n]) THEN of[n - 1]
        ELSE Append(of[n - 1], w[n])
  IN of[Len(w)]

\* The quantity of an unaccented word's syllable, by the school rule: final -ai
\* and -oi are short but in the oblique cases.
IsLong(w, syll, oblique) ==
  LET p == getsyll(w, syll)
  IN p # P_ERR /\ \/ w[p] \in {"h", "w"}
                  \/ At(w, p + 1) \in {"_", "|"}
                  \/ /\ is_diphth(p, w)
                     /\ \/ oblique
                        \/ SubSeq(w, p - 1, Len(w)) \notin
                             {<<"a", "i">>, <<"o", "i">>}

\* The word with one accent, on one of the last three syllables: not before
\* the penult if the ultima is long; a circumflex only on a long vowel, never
\* on the antepenult, and on a long penult just if the ultima is short.
Lawful(accented, w, oblique) ==
  /\ Unaccented(accented) = Unaccented(w)
  /\ \E at \in 1 .. Len(accented) :
       LET syll == After(accented, at)
       IN /\ Accents(accented) = {at}
          /\ syll \in ULTIMA .. ANTEPENULT
          /\ syll = ANTEPENULT => accented[at] = ACUTE /\ ~ IsLong(w, ULTIMA, oblique)
          /\ syll = PENULT /\ IsLong(w, PENULT, FALSE) =>
               (accented[at] = CIRCUMFLEX <=> ~ IsLong(w, ULTIMA, oblique))
          /\ accented[at] = CIRCUMFLEX => IsLong(w, syll, oblique)

\* FixRecAcc accents every word with a vowel lawfully and as far from the end
\* as the law lets it, and leaves it alone when asked again.
Recessive ==
  \A penult, takescirc \in BOOLEAN :
    LET r == FixRecAcc(word, {}, takescirc, penult)
    IN nsylls(word) > 0 =>
         /\ Lawful(r, word, FALSE)
         /\ LET syll == CHOOSE n \in ULTIMA .. ANTEPENULT :
                          \E at \in Accents(r) : After(r, at) = n
            IN syll = Min({nsylls(word) - 1,
                           IF IsLong(word, ULTIMA, FALSE) \/ penult THEN PENULT ELSE ANTEPENULT})
         /\ FixRecAcc(r, {}, takescirc, penult) = r

Stems(p) == [text : {SubSeq(word, 1, p)}, noun3 : BOOLEAN,
             flags : {{}, {"SUFF_ACC"}}]
Endings(p) == [text : {SubSeq(word, p + 1, Len(word))}, dual : {FALSE},
               case : {"NOMINATIVE", "GENITIVE"}, flags : {{}, {"STEM_ACC"}}]

\* FixPersAcc2 accents every stem with its ending lawfully, wherever the one
\* ends and the other begins.  Left out: endings of two syllables whose last
\* is long (the accent stays on the stem, as in po/lews) and longer ones; the
\* ending tables accent those themselves.  No ending is empty: the null
\* ending is written as a character.  The flags are those of an ordinary
\* paradigm (Stems, Endings).  Contracted, enclitic, proclitic and optionally
\* accented forms follow other rules: enclitics get an acute where the law
\* wants a circumflex, contractions a circumflex on a short syllable.
Persistent ==
  \A p \in cuts \ {Len(word)} :
  \A stem \in Stems(p), end \in Endings(p), penult, antepen \in BOOLEAN :
    /\ nsylls(word) > 0
    /\ \/ nsylls(end.text) < 2
       \/ nsylls(end.text) = 2 /\ ~ IsLong(end.text, ULTIMA, Is_oblique(end))
    => Lawful(FixPersAcc2(stem, end, penult, antepen), word, Is_oblique(end))
=============================================================================
