----------------------------- MODULE WordSearch -----------------------------
(***************************************************************************)
(* How one word is searched for: morpheus_check_word (anal/checkstring.c)  *)
(* and what it calls, down to checkword.  A word that is not in the stem   *)
(* library as it is spelled is respelled, by rules tried in a fixed order, *)
(* and searched again: an elided vowel is put back, an enclitic taken off, *)
(* a crasis undone, a u read as v.  Greek is searched up to three times    *)
(* over, with more dialects and with unaugmented verbs allowed.            *)
(*                                                                         *)
(* The C functions call one another recursively on ONE gk_word, whose      *)
(* spelling, dialect and flags each of them changes and has to put back.   *)
(* Only checkcrasis works on a copy, which shares the analyses with the    *)
(* original (gw_analysis_storage).  The recursion is a stack of frames;    *)
(* a step is what one function does between two calls.  The spellings are  *)
(* values and the string operations are the constant Respelled; the stem   *)
(* library is a set of entries, which says what checkindecl, checknom and  *)
(* checkverb can find.  Nothing is left of a call but whether it found     *)
(* something new (rval > 0).  Italian, for which there is no stem library, *)
(* is left out.                                                            *)
(***************************************************************************)
EXTENDS Integers, FiniteSets, Sequences

CONSTANTS
  Spellings,    \* the spellings of words
  Respelled,    \* Respelled[rule][s]: what a rule makes of s, in order
  Requests,     \* the words asked for, with the options of the request
  Libraries     \* Libraries[language]: stem libraries, as sets of entries

Parts    == {"indeclinable", "nominal", "verb", "unaugmented"}
Nominals == {"indeclinable", "nominal"}
Dialects == {"attic", "ionic", "epic", "doric", "prose"}
Flags    == {"UNAUGMENTED", "POETIC"}

\* Rules of one spelling: the four of checkapostr, the four of checkstring1,
\* the two breathings, the two of checkstring4, the rest of checkstring3.
Stages3 == [GREEK |-> <<"plain", "lower", "elided", "enclitic">>,
            LATIN |-> <<"plain", "lower", "elided", "enclitic", "est", "ust",
                        "ist", "n", "v", "J", "j", "ex">>]
Elisions  == <<"aspirate", "elided", "ai", "unaccented">>
Prodelisions == <<"e", "e/", "a", "a/">>
Breathings == <<"smooth", "rough">>
Elements(q) == {q[i] : i \in DOMAIN q}
Rules == Elements(Stages3.LATIN \o Elisions \o Prodelisions \o Breathings)
         \cup {"cun", "tt", "crasis", "lowered"}

\* A respelling: the new spelling, the dialects a crasis adds (possdial) and
\* the parts of speech that may carry an enclitic (enclitic_word.stemtype).
Respelling == [to : Spellings, dialect : SUBSET Dialects,
               accepts : SUBSET Parts]

Entry == [spelling : Spellings, part : Parts, dialect : SUBSET Dialects]

Request == [language : {"GREEK", "LATIN"},
            spelling : Spellings, dialect : SUBSET Dialects,
            strict : BOOLEAN, ignore : BOOLEAN, verbs : BOOLEAN,
            nocrasis : BOOLEAN, quick : BOOLEAN]

ASSUME Constants ==
  /\ DOMAIN Respelled = Rules
  /\ \A r \in Rules : /\ DOMAIN Respelled[r] = Spellings
                       /\ \A s \in Spellings : Respelled[r][s] \in Seq(Respelling)
  \* addbreath always makes a spelling
  /\ \A r \in Elements(Breathings) : \A s \in Spellings : Respelled[r][s] # <<>>
  \* only an enclitic restricts the part of speech, only a crasis the dialect
  /\ \A r \in Rules, s \in Spellings : \A q \in Elements(Respelled[r][s]) :
       /\ r # "enclitic" => q.accepts = Parts
       /\ r # "crasis" => q.dialect = {}
  \* a word is no longer than the buffer it is kept in (MAXWORDSIZE)
  /\ IsFiniteSet(Spellings)
  /\ Requests \subseteq Request
  /\ \A r \in Requests : \A l \in Libraries[r.language] : l \subseteq Entry

VARIABLES
  library,   \* the entries of the stem library
  request,   \* the word asked for and its options
  word,      \* the gk_word at hand: workword, dialect, flags, stem's flags
  anals,     \* the analyses in the storage that the copies share
  stack,     \* the frames of the active functions, innermost first
  ret        \* what the last call returned; "none" before any call

Language == request.language      \* cur_lang()

vars == <<library, request, word, anals, stack, ret>>

Word == [spelling : Spellings, dialect : SUBSET Dialects,
         flags : SUBSET Flags, stem : SUBSET Flags]

Procs == {"word", "one", "two", "three", "apostr", "crasis"}
Frames == [proc : Procs, kept : Word, own : Word, stage : Nat,
           plan : Seq(Respelling), found : BOOLEAN]
Frame(p, w) == [proc |-> p, kept |-> w, own |-> w, stage |-> 0,
                plan |-> <<>>, found |-> FALSE]

Top == Head(stack)

\* AndDialect(a, b) >= 0: no constraint, or one that both satisfy.
Agrees(a, b) == a = {} \/ b = {} \/ a \cap b # {}

-----------------------------------------------------------------------------
\* What checkindecl, checknom and checkverb find that is not found yet
\* (AddAnalysis leaves a duplicate out and counts nothing for it).
Fitting(s, parts, w) ==
  {e \in library \ anals : /\ e.spelling = s
                           /\ e.part \in parts
                           /\ Agrees(e.dialect, w.dialect)
                           /\ request.verbs => e.part \notin Nominals}

\* checkword: unaugmented verbs only when they are asked for, and then no
\* nominal; with QUICK a hit among indeclinables or nominals is enough.
CheckWord(s, w) ==
  LET parts   == IF "UNAUGMENTED" \in w.stem
                 THEN {"verb", "unaugmented"} ELSE Nominals \cup {"verb"}
      indecl  == Fitting(s, parts \cap {"indeclinable"}, w)
      nominal == Fitting(s, parts \cap Nominals, w)
  IN  IF request.quick /\ indecl # {} THEN indecl
      ELSE IF request.quick /\ nominal # {} THEN nominal
      ELSE Fitting(s, parts, w)

\* checkstring4: the word, then with "cun" read as "sun" (nominals only, and
\* whatever the flags), then the same with each "tt" in turn read as "ss".
\* The first that finds anything ends it.
CheckString4(s, w) ==
  LET spelt == <<s>> \o [i \in DOMAIN Respelled["tt"][s] |->
                           Respelled["tt"][s][i].to]
      sun(t) == UNION {Fitting(q.to, Nominals, w) :
                         q \in Elements(Respelled["cun"][t])}
      hit(i) == IF CheckWord(spelt[i], w) # {}
                THEN CheckWord(spelt[i], w) ELSE sun(spelt[i])
      first  == {i \in DOMAIN spelt : /\ hit(i) # {}
                                      /\ \A j \in 1 .. i - 1 : hit(j) = {}}
  IN  UNION {hit(i) : i \in first}

-----------------------------------------------------------------------------
\* Calls and returns of the recursion.
Push(f, p, w) == /\ stack' = <<Frame(p, w), f>> \o Tail(stack)
                 /\ word' = w
                 /\ ret' = "none"
Stay(f, w)    == /\ stack' = <<f>> \o Tail(stack)
                 /\ word' = w
                 /\ ret' = "none"
Return(v, w)  == /\ stack' = Tail(stack)
                 /\ word' = w
                 /\ ret' = IF v THEN "yes" ELSE "no"

Spelt(w, s) == [w EXCEPT !.spelling = s]

\* Mutant: the spelling that was tried last is left in the word.
Unrestored(w, f) == w

\* The spelling is that which the function of frame f was given (saveword).
Restored(w, f) == Spelt(w, f.own.spelling)

\* check_word_once: a new word and a new storage for its analyses.
Fresh(s) == [spelling |-> s, dialect |-> request.dialect,
             flags |-> {}, stem |-> {}]

Init ==
  /\ request \in Requests
  /\ library \in Libraries[Language]
  /\ word = Fresh(request.spelling)
  /\ anals = {}
  /\ stack = <<Frame("word", word)>>
  /\ ret = "none"

\* The next word: everything but the stem library is new.
Begin(r) ==
  /\ stack = <<>> /\ r.language = Language
  /\ request' = r
  /\ word' = [spelling |-> r.spelling, dialect |-> r.dialect,
              flags |-> {}, stem |-> {}]
  /\ anals' = {}
  /\ stack' = <<Frame("word", word')>>
  /\ ret' = "none"
  /\ UNCHANGED library

\* morpheus_check_word: the word as it stands; when that finds nothing, and
\* accents are ignored, with a smooth and then with a rough breathing.
Attempts(s) == <<s>> \o [i \in 1 .. 2 |-> Respelled[Breathings[i]][s][1].to]

CheckWordAgain ==
  /\ stack # <<>> /\ Top.proc = "word"
  /\ \/ Top.stage = 0
     \/ /\ anals = {} /\ Top.stage < 3
        /\ Language # "LATIN" /\ request.ignore
  /\ anals' = {}
  /\ LET tried == IF Top.stage = 0 THEN request.spelling
                  ELSE Attempts(request.spelling)[Top.stage + 1]
     IN  Push([Top EXCEPT !.stage = @ + 1], "one", Fresh(tried))
  /\ UNCHANGED <<library, request>>

CheckWordEnds ==
  /\ stack # <<>> /\ Top.proc = "word" /\ Top.stage > 0
  /\ \/ anals # {} \/ Top.stage = 3
     \/ Language = "LATIN" \/ ~request.ignore
  /\ Return(anals # {}, word)
  /\ UNCHANGED <<library, request, anals>>

\* checkstring1: a word that begins with an apostrophe has lost an e) or an
\* a), with the accent or without; an accented spelling is tried when the
\* search before it leaves nothing found.
CheckString1 ==
  /\ stack # <<>> /\ Top.proc = "one"
  /\ LET own  == Top.own.spelling
         left == {i \in Top.stage + 1 .. 4 :
                    /\ Respelled[Prodelisions[i]][own] # <<>>
                    /\ (i \in {1, 3} \/ ret = "no")}
         next == CHOOSE i \in left : \A j \in left : i <= j
     IN  IF Respelled["e"][own] = <<>> /\ ret = "none"
         THEN Push(Top, "two", word)
         ELSE IF Respelled["e"][own] = <<>> \/ left = {}
         THEN Return(ret = "yes", word)
         ELSE Push([Top EXCEPT !.stage = next], "two",
                   Spelt(word, Respelled[Prodelisions[next]][own][1].to))
  /\ UNCHANGED <<library, request, anals>>

-----------------------------------------------------------------------------
\* checkstring2.  The passes are 1 as asked, 3 with Ionic and epic and without
\* augment, 5 as poetry, without augment; 2, 4 and 6 are the crasis that is
\* looked for when the pass before it finds nothing.

Ionic(w)  == [w EXCEPT !.dialect = @ \cup {"ionic", "epic"},
                       !.flags = @ \cup {"UNAUGMENTED"},
                       !.stem = @ \cup {"UNAUGMENTED"}]
Poetic(w) == [w EXCEPT !.flags = @ \cup {"UNAUGMENTED", "POETIC"},
                       !.stem = @ \cup {"UNAUGMENTED"}]

\* Mutants: the flags of the stem, or the dialect, are not put back.
PutBackWord(w, own) == [w EXCEPT !.dialect = own.dialect, !.flags = own.flags]
PutBackFlags(w, own) == [w EXCEPT !.flags = own.flags, !.stem = own.flags]

\* The word as it was when the pass began: the stem gets the word's flags
\* back, of which both copies are taken (m and m2).
PutBack(w, own) == [w EXCEPT !.dialect = own.dialect, !.flags = own.flags,
                             !.stem = own.flags]

\* Whether unaugmented Ionic is looked for: not in prose of other dialects.
WantsIonic(w) == Agrees(w.dialect, {"epic", "ionic"}) \/ "prose" \notin w.dialect

CheckString2 ==
  /\ stack # <<>> /\ Top.proc = "two" /\ Top.stage = 0
  /\ Push([Top EXCEPT !.stage = 1], "three", word)
  /\ UNCHANGED <<library, request, anals>>

LooksForCrasis == Top.stage \in {1, 3, 5} /\ ret = "no" /\ anals = {}

CheckString2Crasis ==
  /\ stack # <<>> /\ Top.proc = "two" /\ LooksForCrasis
  /\ Push([Top EXCEPT !.stage = @ + 1], "crasis", word)
  /\ UNCHANGED <<library, request, anals>>

CheckString2Ionic ==
  /\ stack # <<>> /\ Top.proc = "two"
  /\ Top.stage \in {1, 2} /\ ~LooksForCrasis
  /\ IF Language = "LATIN" \/ ~WantsIonic(word)
     THEN Return(anals # {}, word)
     ELSE Push([Top EXCEPT !.stage = 3, !.own = word], "three", Ionic(word))
  /\ UNCHANGED <<library, request, anals>>

CheckString2Poetic ==
  /\ stack # <<>> /\ Top.proc = "two"
  /\ Top.stage \in {3, 4} /\ ~LooksForCrasis
  /\ LET back == PutBack(word, Top.own)
     IN  IF ret = "no" /\ back.dialect \cap {"ionic", "prose"} = {}
         THEN Push([Top EXCEPT !.stage = 5], "three", Poetic(back))
         ELSE Return(anals # {}, back)
  /\ UNCHANGED <<library, request, anals>>

CheckString2Ends ==
  /\ stack # <<>> /\ Top.proc = "two"
  /\ Top.stage \in {5, 6} /\ ~LooksForCrasis
  /\ Return(anals # {}, PutBack(word, Top.own))
  /\ UNCHANGED <<library, request, anals>>

-----------------------------------------------------------------------------
\* checkstring3.  Stage by stage: some rules respell the word the function
\* was given (saveword), the others the word as the rule before left it.
RespellsOwn == {"lower", "v", "J", "j"}
WhileEmpty  == {"enclitic", "n"}        \* only while there is no analysis
AllOfThem   == {"ist", "n"}             \* all the respellings are tried
Adds        == {"enclitic", "elided"} \cup AllOfThem    \* rval += ...

Plan3(stage, f) ==
  LET from == IF stage \in RespellsOwn THEN f.own.spelling ELSE word.spelling
  IN  IF \/ stage = "plain"
         \/ stage = "lower" /\ request.strict
         \/ stage \in WhileEmpty /\ anals # {}
      THEN <<>> ELSE Respelled[stage][from]

Stage3 == Stages3[Language][Top.stage]

\* A respelling is to be tried: the loop over the enclitics ends at the first
\* analysis.
Pending == /\ Top.plan # <<>>
           /\ Stage3 = "enclitic" => anals = {}

\* First of all the word as it is spelled.
CheckString3Plain ==
  /\ stack # <<>> /\ Top.proc = "three" /\ Top.stage = 0
  /\ LET hits == CheckString4(word.spelling, word)
     IN  /\ anals' = anals \cup hits
         /\ Stay([Top EXCEPT !.stage = 1, !.found = (hits # {})], word)
  /\ UNCHANGED <<library, request>>

\* A capital at the start of a sentence: the lower-case spellings.
CheckString3Lower ==
  /\ stack # <<>> /\ Top.proc = "three" /\ Top.stage > 0
  /\ Stage3 = "lower" /\ Pending
  /\ LET own   == Restored(word, Top)
         lower == Spelt(word, Head(Top.plan).to)
         hits  == CheckString4(lower.spelling, word)
     IN  /\ anals' = anals \cup hits
         /\ IF hits # {}
            THEN Return(TRUE, own)
            ELSE Stay([Top EXCEPT !.plan = Tail(@), !.found = FALSE],
                      IF Tail(Top.plan) = <<>> THEN own ELSE lower)
  /\ UNCHANGED <<library, request>>

\* Any other respelling is searched for by the function itself, an elided
\* word by checkapostr.
CheckString3Respell ==
  /\ stack # <<>> /\ Top.proc = "three" /\ Top.stage > 0
  /\ Stage3 # "lower" /\ Pending /\ ret = "none"
  /\ IF Stage3 = "elided" THEN Push(Top, "apostr", word)
     ELSE Push(Top, "three", Spelt(word, Head(Top.plan).to))
  /\ UNCHANGED <<library, request, anals>>

\* Mutant: whatever the word without the enclitic is.
CarriedByAll(q) == anals

\* An enclitic stays on the parts of speech that may carry it: the other
\* analyses are struck off, though rval still counts them.
Carried(q) == {e \in anals : e.part \in q.accepts}

\* Mutant: the next enclitic is never reached.
RestAll(f) == IF Stage3 = "elided" THEN <<>> ELSE f.plan

\* The respellings that are left to try; the elided ones are all one call.
Rest(f) == IF Stage3 = "elided" THEN <<>> ELSE Tail(f.plan)

\* Back from the search for a respelling.
CheckString3Back ==
  /\ stack # <<>> /\ Top.proc = "three" /\ ret # "none"
  /\ LET f     == Top
         found == \/ ret = "yes"
                  \/ Stage3 \in Adds /\ f.found
     IN  /\ anals' = IF Stage3 = "enclitic" THEN Carried(Head(f.plan)) ELSE anals
         /\ IF found /\ (Stage3 \in AllOfThem => Rest(f) = <<>>)
            THEN Return(TRUE, Restored(word, f))
            ELSE Stay([f EXCEPT !.plan = Rest(f), !.found = found],
                      IF Stage3 = "enclitic" THEN Restored(word, f) ELSE word)
  /\ UNCHANGED <<library, request>>

\* Nothing is left of a stage: the next one that has a respelling to offer.
\* After the last the word is spelled as it was given.
CheckString3Next ==
  /\ stack # <<>> /\ Top.proc = "three" /\ Top.stage > 0
  /\ ~Pending /\ ret = "none"
  /\ LET left == {i \in Top.stage + 1 .. Len(Stages3[Language]) :
                    Plan3(Stages3[Language][i], Top) # <<>>}
         next == CHOOSE i \in left : \A j \in left : i <= j
     IN  IF left = {} THEN Return(Top.found, Restored(word, Top))
         ELSE Stay([Top EXCEPT !.stage = next,
                               !.plan = Plan3(Stages3[Language][next], Top)],
                   word)
  /\ UNCHANGED <<library, request, anals>>

-----------------------------------------------------------------------------
\* checkapostr: the stop before the apostrophe without its aspiration, each
\* vowel that may have been elided (the diphthong only as poetry), and, if
\* all that finds nothing, the word without the accent on its last syllable.
CheckApostr ==
  /\ stack # <<>> /\ Top.proc = "apostr" /\ Top.plan # <<>> /\ ret = "none"
  /\ LET rule == Elisions[Top.stage]
         w    == Spelt(word, Head(Top.plan).to)
     IN  IF rule \in {"aspirate", "unaccented"} THEN Push(Top, "apostr", w)
         ELSE Push(Top, "three",
                   IF rule = "ai" THEN [w EXCEPT !.flags = @ \cup {"POETIC"}]
                   ELSE w)
  /\ UNCHANGED <<library, request, anals>>

CheckApostrBack ==
  /\ stack # <<>> /\ Top.proc = "apostr" /\ ret # "none"
  /\ Stay([Top EXCEPT !.plan = Tail(@), !.found = @ \/ ret = "yes"],
          [word EXCEPT !.spelling = Top.own.spelling,
                       !.flags = Top.own.flags])
  /\ UNCHANGED <<library, request, anals>>

CheckApostrNext ==
  /\ stack # <<>> /\ Top.proc = "apostr" /\ Top.plan = <<>> /\ ret = "none"
  /\ LET rule(i) == Respelled[Elisions[i]][Top.own.spelling]
         left == {i \in Top.stage + 1 .. 4 : /\ rule(i) # <<>>
                                             /\ i = 4 => ~Top.found}
         next == CHOOSE i \in left : \A j \in left : i <= j
     IN  IF left = {} THEN Return(Top.found, word)
         ELSE Stay([Top EXCEPT !.stage = next, !.plan = rule(next)], word)
  /\ UNCHANGED <<library, request, anals>>

\* checkcrasis: each way to undo a crasis is searched for on a copy of the
\* word (testcrasis).  In Latin the word itself is first put in lower case,
\* and stays so.
CheckCrasis ==
  /\ stack # <<>> /\ Top.proc = "crasis" /\ Top.stage = 0
  /\ LET lower == IF Language # "LATIN" \/ Respelled["lowered"][word.spelling] = <<>>
                  THEN word ELSE Spelt(word, Respelled["lowered"][word.spelling][1].to)
     IN  IF request.nocrasis THEN Return(FALSE, word)
         ELSE Stay([Top EXCEPT !.stage = 1, !.own = lower,
                               !.plan = Respelled["crasis"][lower.spelling]],
                   lower)
  /\ UNCHANGED <<library, request, anals>>

TestCrasis ==
  /\ stack # <<>> /\ Top.proc = "crasis" /\ Top.stage = 1 /\ ret = "none"
  /\ IF Top.plan = <<>> THEN Return(Top.found, word)
     ELSE Push(Top, "three",
               [word EXCEPT !.spelling = Head(Top.plan).to,
                            !.dialect = @ \cup Head(Top.plan).dialect])
  /\ UNCHANGED <<library, request, anals>>

TestCrasisBack ==
  /\ stack # <<>> /\ Top.proc = "crasis" /\ ret # "none"
  /\ Stay([Top EXCEPT !.plan = Tail(@), !.found = @ \/ ret = "yes"], Top.own)
  /\ UNCHANGED <<library, request, anals>>

-----------------------------------------------------------------------------
Step == \/ CheckWordAgain \/ CheckWordEnds
        \/ CheckString1
        \/ CheckString2 \/ CheckString2Crasis \/ CheckString2Ionic
        \/ CheckString2Poetic \/ CheckString2Ends
        \/ CheckString3Plain \/ CheckString3Lower \/ CheckString3Respell
        \/ CheckString3Back \/ CheckString3Next
        \/ CheckApostr \/ CheckApostrBack \/ CheckApostrNext
        \/ CheckCrasis \/ TestCrasis \/ TestCrasisBack

Next == Step \/ \E r \in Requests : Begin(r)

\* A call that was begun runs to its end: nothing in it waits.
Spec == Init /\ [][Next]_vars /\ WF_vars(Step)

-----------------------------------------------------------------------------
\* The types of the variables.
TypeOK ==
  /\ library \subseteq Entry
  /\ request \in Request
  /\ word \in Word
  /\ anals \subseteq library
  /\ ret \in {"none", "yes", "no"}
  /\ stack \in Seq(Frames)

-----------------------------------------------------------------------------
\* What a search may find, without the order in which it looks: the rules of
\* each function as sets.  A candidate is a spelling with the parts of speech
\* and the dialects that the rules on the way to it leave.
Begun(s) == [spelling |-> s, parts |-> Parts, dialect |-> {}]

By(rules, c) ==
  {[spelling |-> q.to, parts |-> c.parts \cap q.accepts,
    dialect |-> c.dialect \cup q.dialect] :
     q \in UNION {Elements(Respelled[r][c.spelling]) : r \in rules}}

ByAll(rules, cs) == UNION {By(rules, c) : c \in cs}

\* The respellings that checkstring3 and checkapostr search for in turn;
\* the rules for Latin make nothing of a Greek word.
Recursive == Elements(Stages3.LATIN \o Elisions) \ {"plain", "lower"}

Searched[n \in Nat] ==
  [s \in Spellings |->
     IF n = 0 THEN {Begun(s)}
     ELSE LET before == Searched[n - 1][s]
          IN  before \cup ByAll(Recursive, before)]

\* As many respellings in a row as there are spellings.
Reached == Searched[Cardinality(Spellings)]

From(c) == {[d EXCEPT !.parts = @ \cap c.parts,
                      !.dialect = @ \cup c.dialect] : d \in Reached[c.spelling]}

\* The spellings checkstring1, checkcrasis and checkstring3 begin with: an
\* initial apostrophe is always resolved.
Started(r) ==
  {Begun(r.spelling)}
  \cup IF r.ignore /\ r.language # "LATIN"
       THEN ByAll(Elements(Breathings), {Begun(r.spelling)}) ELSE {}

Wholes(r) == {c \in Started(r) : Respelled["e"][c.spelling] = <<>>}
             \cup ByAll(Elements(Prodelisions), Started(r))

Lows(r) == Wholes(r) \cup ByAll({"lowered"}, Wholes(r))

Undone(r) == Wholes(r) \cup IF r.nocrasis THEN {} ELSE ByAll({"crasis"}, Lows(r))

Candidates(r) ==
  LET all == UNION {From(c) : c \in Undone(r)}
  IN  all \cup IF r.strict THEN {} ELSE ByAll({"lower"}, all)

\* What r says of the dialects, in the passes that look for plain and for
\* unaugmented forms: Ionic and epic are added, or no augment wanted.
Wanted(e, r, c) ==
  LET asked == Agrees(e.dialect, r.dialect \cup c.dialect)
      ionic == /\ r.language = "GREEK" /\ WantsIonic(r)
               /\ Agrees(e.dialect,
                         r.dialect \cup c.dialect \cup {"ionic", "epic"})
      poem  == /\ r.language = "GREEK" /\ WantsIonic(r) /\ asked
               /\ r.dialect \cap {"ionic", "prose"} = {}
  IN  CASE e.part = "verb"        -> asked \/ ionic
        [] e.part = "unaugmented" -> ionic \/ poem
        [] OTHER                  -> asked

\* e is an answer to r, under one of the candidate spellings, or under the
\* spellings with ss for tt and, for a nominal in any dialect, sun for cun.
AnswersBy(e, r, c) ==
  /\ e.part \in c.parts
  /\ r.verbs => e.part \notin Nominals
  /\ LET tt == {c} \cup By({"tt"}, c)
     IN  \/ \E t \in tt : t.spelling = e.spelling /\ Wanted(e, r, c)
         \/ \E t \in ByAll({"cun"}, tt) :
              /\ t.spelling = e.spelling
              /\ e.part \in Nominals
              /\ \/ Wanted(e, r, c)
                 \/ Wanted([e EXCEPT !.part = "unaugmented"], r, c)

Answers(r) == {e \in library : \E c \in Candidates(r) : AnswersBy(e, r, c)}

\* NothingInvented: an analysis stands only for a word the rules lead to, of
\* a part of speech that may carry the enclitic that was taken off, in a
\* dialect that was asked for, and unaugmented only where that was looked for
\* -- whatever was tried, and failed, before (checkstring3's filter, the
\* flags and dialects of checkstring2).  It is stated of what is returned:
\* the filter acts after the call.
NothingInvented == stack = <<>> => anals \subseteq Answers(request)

\* A filtered word counts as found: checkstring3 returns rval > 0 and no
\* analysis, and checkstring2 looks neither for a crasis nor again.
Hidden(r) == \E c \in Candidates(r) : \E e \in library :
               \E q \in Elements(Respelled["enclitic"][c.spelling]) :
                 \E t \in Reached[q.to] :
                   /\ e.spelling \in {u.spelling : u \in {t} \cup By({"tt"}, t)}
                   /\ e.part \notin q.accepts

\* A Latin word that the rule for exc-, exp- and ext- applies to: that rule
\* may be given the wrong spelling (see ExRespelled).
ExWord(r) == \E c \in Candidates(r) : Respelled["ex"][c.spelling] # <<>>

\* NothingMissed: a search comes back empty only when nothing in the stem
\* library answers -- no early return, no flag left from an earlier pass and
\* no spelling left behind by an earlier rule keeps a rule from its turn.
NothingMissed ==
  stack = <<>> /\ anals = {} /\ ~Hidden(request) /\ ~ExWord(request) =>
    Answers(request) = {}

\* ExRespelled: a Latin word spelled exc-, exp- or ext- whose exs- spelling is
\* in the stem library is found (the comment at checkstring.c:704-706).
ExRespelled ==
  stack = <<>> /\ Language = "LATIN" /\ anals = {} =>
    \A q \in Elements(Respelled["ex"][request.spelling]) :
      ~ \E e \in library : /\ e.spelling = q.to
                           /\ request.verbs => e.part \notin Nominals
                           /\ Agrees(e.dialect, request.dialect)
                           /\ e.part # "unaugmented"

\* LicenceScoped: unaugmented forms are allowed exactly while a second or
\* third pass of checkstring2 runs, poetic ones in the third pass or under an
\* elided ai, and dialects are added only by a pass and by the crasis being
\* tried; word and stem agree on it.
Active(p) == {i \in DOMAIN stack : stack[i].proc = p}

LicenceScoped ==
  stack # <<>> =>
    LET pass   == {stack[i].stage : i \in Active("two")}
        inner  == {i \in DOMAIN stack : i > 1 \/ ret # "none"}
        calls  == {i \in inner : stack[i].plan # <<>>}
        elided == \E i \in Active("apostr") \cap calls : stack[i].stage = 3
        undone == UNION {Head(stack[i].plan).dialect :
                           i \in Active("crasis") \cap calls}
    IN  /\ ("UNAUGMENTED" \in word.stem) = (pass \cap (3 .. 6) # {})
        /\ ("UNAUGMENTED" \in word.flags) = (pass \cap (3 .. 6) # {})
        /\ ("POETIC" \in word.flags) = (pass \cap {5, 6} # {} \/ elided)
        /\ word.dialect = request.dialect \cup undone \cup
                          IF pass \cap {3, 4} # {} THEN {"ionic", "epic"} ELSE {}

\* HandedBack: checkstring3 and checkapostr return the word as they were given
\* it, however many respellings they tried and on every path out; so do
\* checkstring2 and checkcrasis, but that in Latin checkcrasis leaves it in
\* lower case.
HandedBack ==
  [][stack # <<>> /\ Len(stack') < Len(stack) =>
       CASE Top.proc \in {"three", "apostr"} -> word' = Top.kept
         [] Top.proc \in {"two", "crasis"} ->
              \/ word' = Top.kept
              \/ /\ Language = "LATIN"
                 /\ word' \in {Spelt(Top.kept, q.to) :
                      q \in Elements(Respelled["lowered"][Top.kept.spelling])}
         [] OTHER -> TRUE]_vars

\* SearchEnds: every search comes to an end -- the functions that call
\* themselves on another spelling do not go round in circles.
SearchEnds == []<>(stack = <<>>)
=============================================================================
