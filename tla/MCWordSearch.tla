---------------------------- MODULE MCWordSearch ----------------------------
(***************************************************************************)
(* Small lexicons for WordSearch: spellings as the code makes them (Beta   *)
(* Code for Greek), enough of them for every rule to apply at least once   *)
(* and for the rules to follow one another.                                *)
(***************************************************************************)
EXTENDS WordSearch, TLC

To(s) == [to |-> s, dialect |-> {}, accepts |-> Parts]
In(d, s) == [To(s) EXCEPT !.dialect = d]
Enclitic(s) == [To(s) EXCEPT !.accepts = {"nominal"}]

\* A rule that applies to the spellings of f, and to no other.
Rule(f) == [s \in Spellings |-> IF s \in DOMAIN f THEN f[s] ELSE <<>>]
Only(s, q) == [x \in {s} |-> q]
And(f, g) == [x \in DOMAIN f \cup DOMAIN g |->
                IF x \in DOMAIN f THEN f[x] ELSE g[x]]
TableOf(rules) == [r \in Rules |->
                     IF r \in DOMAIN rules THEN Rule(rules[r]) ELSE Rule(<<>>)]

\* The breathings always make a spelling: the others are left as they are.
Breathed(f) == And(f, [s \in Spellings |-> <<To(s)>>])

Ask(language, s) ==
  [language |-> language, spelling |-> s, dialect |-> {}, strict |-> FALSE,
   ignore |-> FALSE, verbs |-> FALSE, nocrasis |-> FALSE, quick |-> FALSE]

Known(s, p, d) == [spelling |-> s, part |-> p, dialect |-> d]

\* The libraries of at most two of the entries.
UpToTwo(entries) == {{a, b} : a, b \in entries} \cup {{}}

-----------------------------------------------------------------------------
\* Greek.  Spellings that no rule makes an entry of are left out.
GreekSpellings ==
  {"ka)gw/", "a)gw/", "e)gw/",              \* a crasis, undone in two ways
   "tw)/galma", "a)/galma",                 \* a crasis that may be Doric
   "'qa/non", "e)qa/non", "e)/qanon", "a)qa/non",      \* prodelision
   "qala/tth", "qala/ssh",                  \* tt for ss
   "cu/nodos", "su/nodos",                  \* cun for sun
   "o(/sper", "o(/s",                       \* the enclitic per
   "*ou(=tos", "ou(=tos",                   \* a capital
   "gene/sq'", "gene/st'", "gene/sqe", "gene/ste", "gene/sqai^", \* elisions
   "ka/k'", "kak'", "ka/ka^", "kaka/^",
   "anqrwpos", "a)nqrwpos", "a(nqrwpos"}    \* no breathing

GreekRules == TableOf(
  [crasis |-> And(Only("ka)gw/", <<To("a)gw/"), To("e)gw/")>>),
                  Only("tw)/galma", <<To("a)/galma"),
                                      In({"doric"}, "a)/galma")>>)),
   e      |-> Only("'qa/non", <<To("e)qa/non")>>),
   a      |-> Only("'qa/non", <<To("a)qa/non")>>),
   tt     |-> Only("qala/tth", <<To("qala/ssh")>>),
   cun    |-> Only("cu/nodos", <<To("su/nodos")>>),
   enclitic |-> Only("o(/sper", <<Enclitic("o(/s")>>),
   lower  |-> Only("*ou(=tos", <<To("ou(=tos")>>),
   aspirate |-> Only("gene/sq'", <<To("gene/st'")>>),
   elided |-> And(And(Only("gene/sq'", <<To("gene/sqe")>>),
                      Only("gene/st'", <<To("gene/ste")>>)),
                  And(Only("ka/k'", <<To("ka/ka^")>>),
                      Only("kak'", <<To("kaka/^")>>))),
   ai     |-> Only("gene/sq'", <<To("gene/sqai^")>>),
   unaccented |-> Only("ka/k'", <<To("kak'")>>),
   smooth |-> Breathed(Only("anqrwpos", <<To("a)nqrwpos")>>)),
   rough  |-> Breathed(Only("anqrwpos", <<To("a(nqrwpos")>>))]
  @@ ("e/" :> Only("'qa/non", <<To("e)/qanon")>>)))

GreekEntries ==
  {Known("a)gw/", "nominal", {}), Known("e)gw/", "indeclinable", {}),
   Known("a)/galma", "nominal", {"doric"}),
   Known("e)qa/non", "verb", {"ionic"}), Known("e)/qanon", "verb", {}),
   Known("a)qa/non", "unaugmented", {"doric"}),
   Known("qala/tth", "nominal", {"attic"}), Known("qala/ssh", "nominal", {}),
   Known("su/nodos", "nominal", {"ionic"}), Known("su/nodos", "verb", {}),
   Known("o(/s", "nominal", {}), Known("o(/s", "verb", {}),
   Known("*ou(=tos", "nominal", {}), Known("ou(=tos", "indeclinable", {}),
   Known("gene/ste", "verb", {}), Known("gene/sqai^", "unaugmented", {}),
   Known("ka/ka^", "unaugmented", {"epic"}), Known("kaka/^", "nominal", {}),
   Known("a(nqrwpos", "nominal", {})}

GreekLibraries == UpToTwo(GreekEntries)

GreekRequests ==
  LET asked == {Ask("GREEK", s) :
                  s \in {"ka)gw/", "tw)/galma", "'qa/non", "qala/tth",
                         "cu/nodos", "o(/sper", "*ou(=tos", "gene/sq'",
                         "ka/k'", "anqrwpos"}}
  IN  asked \cup {[r EXCEPT !.dialect = {"attic"}, !.ignore = TRUE] :
                   r \in asked}
            \cup {[r EXCEPT !.dialect = {"doric", "prose"}, !.verbs = TRUE,
                            !.quick = TRUE] : r \in asked}
            \cup {[r EXCEPT !.strict = TRUE, !.nocrasis = TRUE] : r \in asked}

-----------------------------------------------------------------------------
\* Latin.
LatinSpellings ==
  {"expoliatum", "expoljatum", "exspoliatum", "exspoljatum", \* ex for exs, i, j
   "expoliatumque", "expoljatumque", "exspoliatumque",       \* the enclitic que
   "Vbist", "ubist", "Ubist", "Vbis", "Vbi", "ubis", "ubi", "Ubis", "Ubi",
   "Ain", "ain", "Ais", "Ai", "ais", "ai",                   \* ais + ne
   "bonast", "bona", "bonust", "bonus",                      \* with est
   "uenio", "venio",                                         \* u for v
   "egomet", "ego",                                          \* met
   "Iulius", "iulius", "Julius", "Juljus"}                   \* I for J

Capital(lower, title) == <<To(lower), To(lower), To(title)>>

LatinRules == TableOf(
  [j      |-> And(And(And(Only("expoliatum", <<To("expoljatum")>>),
                          Only("exspoliatum", <<To("exspoljatum")>>)),
                      Only("expoliatumque", <<To("expoljatumque")>>)),
                  Only("Iulius", <<To("Juljus")>>)),
   J      |-> Only("Iulius", <<To("Julius")>>),
   ex     |-> And(And(Only("expoliatum", <<To("exspoliatum")>>),
                      Only("expoljatum", <<To("exspoljatum")>>)),
                  Only("expoliatumque", <<To("exspoliatumque")>>)),
   enclitic |-> And(And(Only("expoliatumque", <<To("expoliatum")>>),
                        Only("expoljatumque", <<To("expoljatum")>>)),
                    And(Only("exspoliatumque", <<To("exspoliatum")>>),
                        Only("egomet", <<Enclitic("ego")>>))),
   lower  |-> And(And(And(Only("Vbist", Capital("ubist", "Ubist")),
                          Only("Vbis", Capital("ubis", "Ubis"))),
                      And(Only("Vbi", Capital("ubi", "Ubi")),
                          Only("Iulius", Capital("iulius", "Iulius")))),
                  And(Only("Ain", Capital("ain", "Ain")),
                      And(Only("Ais", Capital("ais", "Ais")),
                          Only("Ai", Capital("ai", "Ai"))))),
   ist    |-> Only("Vbist", <<To("Vbis"), To("Vbi")>>),
   n      |-> Only("Ain", <<To("Ais"), To("Ai")>>),
   est    |-> Only("bonast", <<To("bona")>>),
   ust    |-> Only("bonust", <<To("bonus")>>),
   v      |-> Only("uenio", <<To("venio")>>),
   lowered |-> And(Only("Ain", <<To("ain")>>),
                   Only("Iulius", <<To("iulius")>>)),
   crasis |-> Only("ain", <<To("ais")>>)])

LatinEntries ==
  {Known("exspoliatum", "verb", {}), Known("expoljatum", "nominal", {}),
   Known("Vbis", "nominal", {}), Known("ubi", "indeclinable", {}),
   Known("Ubist", "nominal", {}), Known("ais", "verb", {}),
   Known("Ai", "indeclinable", {}), Known("bona", "nominal", {}),
   Known("bona", "verb", {}), Known("bonus", "nominal", {}),
   Known("ego", "nominal", {}), Known("ego", "verb", {}),
   Known("uenio", "verb", {}), Known("venio", "verb", {}),
   Known("Julius", "nominal", {}), Known("iulius", "nominal", {})}

LatinLibraries == UpToTwo(LatinEntries)

LatinRequests ==
  LET asked == {Ask("LATIN", s) :
                  s \in {"expoliatum", "expoliatumque", "Vbist", "Ain",
                         "bonast", "bonust", "uenio", "egomet", "Iulius"}}
  IN  asked \cup {[r EXCEPT !.quick = TRUE, !.strict = TRUE] : r \in asked}
            \cup {[r EXCEPT !.verbs = TRUE, !.nocrasis = TRUE] : r \in asked}

-----------------------------------------------------------------------------
\* Both languages: no spelling is one of both.
MCSpellings == GreekSpellings \cup LatinSpellings
MCRespelled ==
  [r \in Rules |-> [s \in Spellings |-> GreekRules[r][s] \o LatinRules[r][s]]]
MCRequests == GreekRequests \cup LatinRequests
MCLibraries == [GREEK |-> GreekLibraries, LATIN |-> LatinLibraries]
=============================================================================
