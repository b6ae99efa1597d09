--------------------------- MODULE AnalysisProofs ---------------------------
(***************************************************************************)
(* The analysis of a word, for any spellings, respellings, stem library    *)
(* and requests.  The functions of checkstring.c, which call one another   *)
(* on one and the same word, give it back as they were given it            *)
(* (SearchHandsBack), and what it is licensed to at each point -- to be    *)
(* unaugmented, to be poetic, to a dialect -- is what the functions active *)
(* at that point stand for (SearchScoped), however deep they are nested.   *)
(* What they return is what the rules lead to (SearchSound): nothing is    *)
(* found under a spelling, a part of speech or a licence left from         *)
(* something else that was tried.                                          *)
(* And what the storage of analyses keeps, for any forms, crases and       *)
(* capacity: exactly one analysis for each form (OnePerForm), and dialects *)
(* only from where they may come (DialectsRight).                          *)
(*                                                                         *)
(* The stack of the search has no bound.  The invariant relates each frame *)
(* to the next: a frame knows what word it gives to the one it calls.      *)
(* What all of them together license follows from it frame by frame, from  *)
(* the outermost inwards, by looking at the least counterexample.          *)
(* What is found deep inside may still be struck off by an enclitic that   *)
(* waits further out: the invariant behind SearchSound says of each frame  *)
(* and part of speech that it is struck off there or rightly looked for.   *)
(***************************************************************************)
EXTENDS WordSearch, AnalysisStorage, FiniteSetTheorems, WellFoundedInduction,
        TLAPS

----------------------------------------------------------------------------
(* The search: how the functions call one another.                         *)

\* w has the dialect and the flags of v.
Like(w, v) == w.dialect = v.dialect /\ w.flags = v.flags /\ w.stem = v.stem
\* A word as check_word_once makes it, but for its spelling.
Unmarked(w, r) == w.dialect = r.dialect /\ w.flags = {} /\ w.stem = {}
\* In Latin checkcrasis leaves its word in lower case.
Lowered(v, w, r) ==
  /\ r.language = "LATIN"
  /\ w \in {Spelt(v, q.to) : q \in Elements(Respelled["lowered"][v.spelling])}

\* What holds of every frame.
FrameRight(f, r) ==
  /\ f.proc \in {"three", "apostr"} => f.own = f.kept
  /\ f.proc = "apostr" => f.stage \in 0 .. 4 /\ (f.plan # <<>> => f.stage > 0)
  /\ f.proc = "crasis" => /\ f.stage \in {0, 1}
                          /\ f.own = f.kept \/ Lowered(f.kept, f.own, r)
  /\ f.proc \in {"one", "two"} => Unmarked(f.kept, r)
  /\ f.proc = "two" => /\ f.stage \in 0 .. 6
                       /\ f.stage > 2 => r.language # "LATIN" /\ f.own = f.kept

\* Who calls whom.
CallsProc(f, p) ==
  \/ f.proc = "word" /\ p = "one"
  \/ f.proc = "one" /\ p = "two"
  \/ f.proc = "two" /\ \/ f.stage \in {1, 3, 5} /\ p = "three"
                       \/ f.stage \in {2, 4, 6} /\ p = "crasis"
  \/ f.proc \in {"three", "apostr"} /\ p \in {"three", "apostr"}
  \/ f.proc = "crasis" /\ p = "three"

\* The words a frame gives to those it calls.
Hands(f, w, r) ==
  \/ f.proc = "word" /\ Unmarked(w, r)
  \/ f.proc = "one" /\ Like(w, f.kept)
  \/ f.proc = "three" /\ f.plan # <<>> /\ Like(w, f.kept)
  \/ f.proc = "two" /\ \/ f.stage \in {1, 2} /\ w = f.kept
                       \/ f.stage \in {3, 4} /\ w = Ionic(f.kept)
                       \/ f.stage \in {5, 6} /\ w = Poetic(f.kept)
  \/ /\ f.proc = "apostr" /\ f.plan # <<>>
     /\ w.dialect = f.kept.dialect /\ w.stem = f.kept.stem
     /\ w.flags = IF f.stage = 3 THEN f.kept.flags \cup {"POETIC"} ELSE f.kept.flags
  \/ /\ f.proc = "crasis" /\ f.stage = 1 /\ f.plan # <<>>
     /\ w.dialect = f.kept.dialect \cup Head(f.plan).dialect
     /\ w.flags = f.kept.flags /\ w.stem = f.kept.stem
\* What a frame has when they return,
Gets(f, w, r) ==
  \/ Hands(f, w, r)
  \/ f.proc = "two" /\ f.stage = 2 /\ Lowered(f.kept, w, r)
\* and between calls.
Holds(f, w, r) ==
  \/ f.proc = "word" /\ Unmarked(w, r)
  \/ f.proc \in {"one", "three"} /\ Like(w, f.kept)
  \/ f.proc = "two" /\ f.stage = 0 /\ w = f.kept
  \/ f.proc = "apostr" /\ w = f.kept
  \/ f.proc = "crasis" /\ \/ f.stage = 0 /\ w = f.kept
                          \/ f.stage = 1 /\ w = f.own

Chain ==
  /\ \A i \in 1 .. Len(stack) : FrameRight(stack[i], request)
  /\ \A i \in 1 .. Len(stack) - 1 :
       /\ CallsProc(stack[i + 1], stack[i].proc)
       /\ Hands(stack[i + 1], stack[i].kept, request)
  /\ stack # <<>> => stack[Len(stack)].proc = "word"
  /\ stack # <<>> => IF ret = "none" THEN Holds(Top, word, request)
                    ELSE Gets(Top, word, request)
\* The inductive invariant.  Chain: each frame is as its function leaves it,
\* was called by the next as that one calls, with a word it gives, and the
\* word at hand is one the innermost has.
SearchInv == TypeOK /\ Chain

\* A set of numbers has a least one.
LEMMA Least ==
  ASSUME NEW T, T \subseteq Nat, T # {}
  PROVE  \E x \in T : \A y \in T : x <= y
<1> DEFINE R == OpToRel(<, Nat)
<1>1. IsWellFoundedOn(R, Nat)
  BY NatLessThanWellFounded
<1>2. \A x, y \in Nat : x < y => <<x, y>> \in R
  BY DEF OpToRel
<1> HIDE DEF R
<1>3. PICK x \in T : \A y \in T : ~ (<<y, x>> \in R)
  BY <1>1, WFMin
<1>4. ASSUME NEW y \in T PROVE x <= y
  <2>1. x \in Nat /\ y \in Nat /\ ~ (y < x)
    BY <1>2, <1>3
  <2> QED BY <2>1
<1> QED BY <1>4

\* Two sequences joined.
LEMMA Joined ==
  ASSUME NEW S, NEW s \in Seq(S), NEW t \in Seq(S)
  PROVE  /\ s \o t \in Seq(S) /\ DOMAIN (s \o t) = 1 .. Len(s) + Len(t)
         /\ Len(s \o t) = Len(s) + Len(t)
         /\ \A i \in 1 .. Len(s) : (s \o t)[i] = s[i]
         /\ \A i \in 1 .. Len(t) : (s \o t)[Len(s) + i] = t[i]
         /\ DOMAIN s = 1 .. Len(s) /\ DOMAIN t = 1 .. Len(t)
         /\ Len(s) \in Nat /\ Len(t) \in Nat
OBVIOUS

\* The elements of two sequences joined are those of both.
LEMMA ElementsOfBoth ==
  ASSUME NEW S, NEW s \in Seq(S), NEW t \in Seq(S)
  PROVE  Elements(s \o t) = Elements(s) \cup Elements(t) /\ s \o t \in Seq(S)
<1>1. /\ s \o t \in Seq(S) /\ DOMAIN (s \o t) = 1 .. Len(s) + Len(t)
      /\ \A i \in 1 .. Len(s) : (s \o t)[i] = s[i]
      /\ \A i \in 1 .. Len(t) : (s \o t)[Len(s) + i] = t[i]
      /\ DOMAIN s = 1 .. Len(s) /\ DOMAIN t = 1 .. Len(t)
      /\ Len(s) \in Nat /\ Len(t) \in Nat
  BY Joined
<1> DEFINE u == s \o t
<1> HIDE DEF u
<1>2. ASSUME NEW i \in DOMAIN u PROVE u[i] \in Elements(s) \cup Elements(t)
  <2>1. CASE i \in 1 .. Len(s)
    BY <1>1, <2>1 DEF Elements, u
  <2>2. CASE i \notin 1 .. Len(s)
    <3>1. i - Len(s) \in 1 .. Len(t) /\ i = Len(s) + (i - Len(s))
      BY <1>1, <2>2 DEF u
    <3>2. u[i] = t[i - Len(s)]
      BY <1>1, <3>1 DEF u
    <3> QED BY <1>1, <3>1, <3>2 DEF Elements
  <2> QED BY <2>1, <2>2
<1>3. ASSUME NEW i \in DOMAIN s PROVE s[i] \in Elements(u)
  <2>1. i \in DOMAIN u /\ u[i] = s[i]
    BY <1>1 DEF u
  <2> QED BY <2>1 DEF Elements
<1>4. ASSUME NEW i \in DOMAIN t PROVE t[i] \in Elements(u)
  <2>1. Len(s) + i \in DOMAIN u /\ u[Len(s) + i] = t[i]
    BY <1>1 DEF u
  <2> QED BY <2>1 DEF Elements
<1>5. Elements(u) = Elements(s) \cup Elements(t)
  BY <1>2, <1>3, <1>4 DEF Elements
<1> QED BY <1>1, <1>5 DEF u

\* The names of the rules are rules.
LEMMA RuleNames ==
  /\ \A i \in DOMAIN Stages3.LATIN : Stages3.LATIN[i] \in Rules
  /\ \A i \in DOMAIN Stages3.GREEK : Stages3.GREEK[i] \in Rules
  /\ \A i \in 1 .. 4 : Elisions[i] \in Rules /\ Prodelisions[i] \in Rules
  /\ \A i \in 1 .. 2 : Breathings[i] \in Rules /\ Breathings[i] \in Elements(Breathings)
  /\ {"e", "lowered", "crasis"} \subseteq Rules
<1> DEFINE L == Stages3.LATIN
           Names == {"plain", "lower", "elided", "enclitic", "est", "ust", "ist",
                     "n", "v", "J", "j", "ex", "aspirate", "ai", "unaccented",
                     "e", "e/", "a", "a/", "smooth", "rough"}
<1>1. /\ L \in Seq(Names) /\ Elisions \in Seq(Names)
      /\ Prodelisions \in Seq(Names) /\ Breathings \in Seq(Names)
  <2>1. L \in Seq(Names)
    <3>1. L = <<"plain", "lower", "elided", "enclitic", "est", "ust",
                "ist", "n", "v", "J", "j", "ex">>
      BY DEF Stages3
    <3> HIDE DEF L
    <3> QED BY <3>1
  <2>2. /\ Elisions \in Seq(Names)
        /\ Prodelisions \in Seq(Names) /\ Breathings \in Seq(Names)
    BY DEF Elisions, Prodelisions, Breathings
  <2> QED BY <2>1, <2>2
<1> HIDE DEF L
<1> DEFINE X == L \o Elisions
           Y == X \o Prodelisions
           Z == Y \o Breathings
<1>2. Elements(Z) = Elements(L) \cup Elements(Elisions) \cup Elements(Prodelisions)
                      \cup Elements(Breathings)
  <2>1. X \in Seq(Names) /\ Elements(X) = Elements(L) \cup Elements(Elisions)
    BY <1>1, ElementsOfBoth
  <2> HIDE DEF X
  <2>2. Y \in Seq(Names) /\ Elements(Y) = Elements(X) \cup Elements(Prodelisions)
    BY <1>1, <2>1, ElementsOfBoth
  <2> HIDE DEF Y
  <2>3. Elements(Z) = Elements(Y) \cup Elements(Breathings)
    BY <1>1, <2>2, ElementsOfBoth
  <2> QED BY <2>1, <2>2, <2>3
<1>3. Elements(L) \cup Elements(Elisions) \cup Elements(Prodelisions)
        \cup Elements(Breathings) \subseteq Rules
  <2>1. Elements(Z) \subseteq Rules
    BY DEF Rules, L
  <2> QED BY <1>2, <2>1
<1>4. \A i \in DOMAIN L : L[i] \in Rules
  BY <1>3 DEF Elements
<1>5. /\ \A i \in 1 .. 4 : Elisions[i] \in Elements(Elisions)
      /\ \A i \in 1 .. 4 : Prodelisions[i] \in Elements(Prodelisions)
      /\ \A i \in 1 .. 2 : Breathings[i] \in Elements(Breathings)
  BY DEF Elements, Elisions, Prodelisions, Breathings
<1>6. \A i \in DOMAIN Stages3.GREEK : Stages3.GREEK[i] \in Rules
  <2>1. DOMAIN Stages3.GREEK = 1 .. 4 /\ 1 .. 4 \subseteq DOMAIN L
        /\ \A i \in 1 .. 4 : Stages3.GREEK[i] = L[i]
    BY DEF Stages3, L
  <2> QED BY <1>4, <2>1
<1>7. "e" \in Rules
  <2>1. Prodelisions[1] = "e"
    BY DEF Prodelisions
  <2> QED BY <1>3, <1>5, <2>1
<1>8. "lowered" \in Rules /\ "crasis" \in Rules
  BY DEF Rules
<1> QED BY <1>3, <1>4, <1>5, <1>6, <1>7, <1>8 DEF L

\* A respelling is a word again.
LEMMA Respellings ==
  ASSUME NEW r \in Rules, NEW s \in Spellings
  PROVE  /\ Respelled[r][s] \in Seq(Respelling)
         /\ Respelled[r][s] # <<>> =>
              Respelled[r][s][1] \in Respelling /\ Respelled[r][s][1].to \in Spellings
<1>1. Respelled[r][s] \in Seq(Respelling)
  BY Constants
<1>2. \A q \in Respelling : q.to \in Spellings
  BY DEF Respelling
<1> QED BY <1>1, <1>2

\* Changing a word makes a word.
LEMMA WordTypes ==
  ASSUME NEW w \in Word, NEW s \in Spellings
  PROVE  /\ Spelt(w, s) \in Word /\ Like(Spelt(w, s), w)
         /\ Ionic(w) \in Word /\ Poetic(w) \in Word
         /\ w.spelling \in Spellings
         /\ \A d \in SUBSET Dialects : [w EXCEPT !.spelling = s, !.dialect = @ \cup d] \in Word
BY DEF Word, Spelt, Ionic, Poetic, Dialects, Flags, Like

\* Words that differ in nothing are the same.
LEMMA SameWord ==
  ASSUME NEW v \in Word, NEW w \in Word, Like(v, w)
  PROVE  Spelt(v, w.spelling) = w
BY DEF Word, Spelt, Like

----------------------------------------------------------------------------
(* The stack.                                                              *)

\* A call puts a frame on the stack, over that of the caller;
LEMMA Pushed ==
  ASSUME NEW S, NEW s \in Seq(S), s # <<>>, NEW a \in S, NEW b \in S,
         NEW t, t = <<a, b>> \o Tail(s)
  PROVE  /\ t \in Seq(S) /\ Len(t) = Len(s) + 1 /\ t # <<>>
         /\ Head(t) = a /\ t[1] = a /\ t[2] = b
         /\ \A i \in 3 .. Len(s) + 1 : t[i] = s[i - 1]
<1>1. Len(t) = Len(s) + 1 /\ t \in Seq(S) /\ t[1] = a /\ t[2] = b
  OBVIOUS
<1>2. t # <<>> /\ Head(t) = a
  BY <1>1
<1>3. ASSUME NEW i \in 3 .. Len(s) + 1 PROVE t[i] = s[i - 1]
  OBVIOUS
<1> QED BY <1>1, <1>2, <1>3

\* between calls only the innermost frame changes;
LEMMA Stayed ==
  ASSUME NEW S, NEW s \in Seq(S), s # <<>>, NEW a \in S,
         NEW t, t = <<a>> \o Tail(s)
  PROVE  /\ t \in Seq(S) /\ Len(t) = Len(s) /\ t # <<>>
         /\ Head(t) = a /\ t[1] = a
         /\ \A i \in 2 .. Len(s) : t[i] = s[i]
<1>1. Len(t) = Len(s) /\ t \in Seq(S) /\ t[1] = a
  OBVIOUS
<1>2. t # <<>> /\ Head(t) = a
  BY <1>1
<1>3. ASSUME NEW i \in 2 .. Len(s) PROVE t[i] = s[i]
  OBVIOUS
<1> QED BY <1>1, <1>2, <1>3

\* a return takes it off.
LEMMA Tailed ==
  ASSUME NEW S, NEW s \in Seq(S), s # <<>>
  PROVE  /\ Tail(s) \in Seq(S) /\ Len(Tail(s)) = Len(s) - 1 /\ Len(s) \in Nat \ {0}
         /\ \A i \in 1 .. Len(s) - 1 : Tail(s)[i] = s[i + 1]
         /\ Tail(s) # <<>> => Head(Tail(s)) = s[2]
         /\ Head(s) = s[1] /\ s[1] \in S
OBVIOUS

\* The part of the types that a call or a return may disturb.
Formed == stack \in Seq(Frames) /\ word \in Word /\ ret \in {"none", "yes", "no"}

\* A number that is not 0.
LEMMA OneOrMore ==
  \A n \in Nat : n # 0 => (n = 1 \/ (n > 1 /\ 1 \in 1 .. n - 1 /\ 2 \in 1 .. n))
OBVIOUS

\* A call keeps the invariant when the caller gives what it may give and the
\* frame of the called begins as one of its kind does;
LEMMA PushKeeps ==
  ASSUME SearchInv, stack # <<>>, request' = request,
         NEW f \in Frames, NEW p \in Procs, NEW w \in Word,
         f.proc = Top.proc, f.kept = Top.kept, FrameRight(f, request),
         CallsProc(f, p), Hands(f, w, request),
         FrameRight(Frame(p, w), request), Holds(Frame(p, w), w, request),
         Push(f, p, w)
  PROVE  Formed' /\ Chain' /\ Len(stack') = Len(stack) + 1
<1> DEFINE g == Frame(p, w)
<1>1. g \in Frames /\ g.proc = p /\ g.kept = w
  BY DEF Frame, Frames
<1>2. FrameRight(g, request) /\ Holds(g, w, request)
  OBVIOUS
<1>3. stack' = <<g, f>> \o Tail(stack) /\ word' = w /\ ret' = "none"
  BY DEF Push
<1> HIDE DEF g
<1>4. stack \in Seq(Frames) /\ Len(stack) \in Nat \ {0} /\ Top = stack[1]
  BY DEF SearchInv, TypeOK, Top
<1>5. /\ stack' \in Seq(Frames) /\ Len(stack') = Len(stack) + 1 /\ stack' # <<>>
      /\ Head(stack') = g /\ stack'[1] = g /\ stack'[2] = f
      /\ \A i \in 3 .. Len(stack) + 1 : stack'[i] = stack[i - 1]
  BY <1>1, <1>3, <1>4, Pushed
<1>6. ASSUME NEW i \in 1 .. Len(stack') PROVE FrameRight(stack'[i], request)
  <2>1. CASE i = 1
    BY <1>2, <1>5, <2>1
  <2>2. CASE i = 2
    BY <1>5, <2>2
  <2>3. CASE i > 2
    <3>1. stack'[i] = stack[i - 1] /\ i - 1 \in 1 .. Len(stack)
      BY <1>4, <1>5, <2>3
    <3> QED BY <3>1 DEF SearchInv, Chain
  <2> QED BY <2>1, <2>2, <2>3
<1>7. ASSUME NEW i \in 1 .. Len(stack') - 1
      PROVE  /\ CallsProc(stack'[i + 1], stack'[i].proc)
             /\ Hands(stack'[i + 1], stack'[i].kept, request)
  <2>1. CASE i = 1
    BY <1>1, <1>5, <2>1
  <2>2. CASE i = 2
    <3>1. stack'[3] = stack[2] /\ 1 \in 1 .. Len(stack) - 1
      BY <1>4, <1>5, <2>2
    <3>2. CallsProc(stack[2], stack[1].proc) /\ Hands(stack[2], stack[1].kept, request)
      BY <3>1 DEF SearchInv, Chain
    <3> QED BY <1>4, <1>5, <2>2, <3>1, <3>2
  <2>3. CASE i > 2
    <3>1. /\ stack'[i] = stack[i - 1] /\ stack'[i + 1] = stack[(i - 1) + 1]
          /\ i - 1 \in 1 .. Len(stack) - 1
      BY <1>4, <1>5, <2>3
    <3> QED BY <3>1 DEF SearchInv, Chain
  <2> QED BY <2>1, <2>2, <2>3
<1>8. stack'[Len(stack')].proc = "word"
  <2>1. stack[Len(stack)].proc = "word"
    BY DEF SearchInv, Chain
  <2>2. CASE Len(stack) = 1
    BY <1>4, <1>5, <2>1, <2>2
  <2>3. CASE Len(stack) > 1
    <3>1. stack'[Len(stack')] = stack[Len(stack)]
      BY <1>4, <1>5, <2>3
    <3> QED BY <2>1, <3>1
  <2>4. Len(stack) = 1 \/ Len(stack) > 1
    <3>1. Len(stack) \in Nat \ {0}
      BY <1>4
    <3> QED BY <3>1, OneOrMore
  <2> QED BY <2>2, <2>3, <2>4
<1>9. Chain'
  BY <1>2, <1>3, <1>5, <1>6, <1>7, <1>8 DEF Chain, Top
<1> QED BY <1>3, <1>5, <1>9 DEF Formed

\* so does a step between calls, when the word is what the function may have;
LEMMA StayKeeps ==
  ASSUME SearchInv, stack # <<>>, request' = request,
         NEW f \in Frames, NEW w \in Word,
         f.proc = Top.proc, f.kept = Top.kept, FrameRight(f, request),
         Holds(f, w, request), Stay(f, w)
  PROVE  Formed' /\ Chain' /\ Len(stack') = Len(stack)
<1>3. stack' = <<f>> \o Tail(stack) /\ word' = w /\ ret' = "none"
  BY DEF Stay
<1>4. stack \in Seq(Frames) /\ Len(stack) \in Nat \ {0} /\ Top = stack[1]
  BY DEF SearchInv, TypeOK, Top
<1>5. /\ stack' \in Seq(Frames) /\ Len(stack') = Len(stack) /\ stack' # <<>>
      /\ Head(stack') = f /\ stack'[1] = f
      /\ \A i \in 2 .. Len(stack) : stack'[i] = stack[i]
  BY <1>3, <1>4, Stayed
<1>6. ASSUME NEW i \in 1 .. Len(stack') PROVE FrameRight(stack'[i], request)
  <2>1. CASE i = 1
    BY <1>5, <2>1
  <2>2. CASE i > 1
    BY <1>4, <1>5, <2>2 DEF SearchInv, Chain
  <2> QED BY <2>1, <2>2
<1>7. ASSUME NEW i \in 1 .. Len(stack') - 1
      PROVE  /\ CallsProc(stack'[i + 1], stack'[i].proc)
             /\ Hands(stack'[i + 1], stack'[i].kept, request)
  <2>1. /\ CallsProc(stack[i + 1], stack[i].proc)
        /\ Hands(stack[i + 1], stack[i].kept, request)
    BY <1>5 DEF SearchInv, Chain
  <2>2. stack'[i + 1] = stack[i + 1]
    BY <1>4, <1>5
  <2>3. stack'[i].proc = stack[i].proc /\ stack'[i].kept = stack[i].kept
    BY <1>4, <1>5
  <2> QED BY <2>1, <2>2, <2>3
<1>8. stack'[Len(stack')].proc = "word"
  <2>1. stack[Len(stack)].proc = "word"
    BY DEF SearchInv, Chain
  <2> QED BY <1>4, <1>5, <2>1
<1>9. Chain'
  BY <1>3, <1>5, <1>6, <1>7, <1>8 DEF Chain, Top
<1> QED BY <1>3, <1>5, <1>9 DEF Formed

\* The caller's frame.
Caller == stack[2]

\* What the invariant says of the innermost frame and of its caller.
LEMMA CallerCalls ==
  ASSUME SearchInv, stack # <<>>
  PROVE  /\ Top \in Frames /\ Top = stack[1] /\ FrameRight(Top, request)
         /\ IF ret = "none" THEN Holds(Top, word, request)
                            ELSE Gets(Top, word, request)
         /\ Len(stack) = 1 => Top.proc = "word"
         /\ Len(stack) # 1 => /\ Caller \in Frames
                              /\ FrameRight(Caller, request)
                              /\ CallsProc(Caller, Top.proc)
                              /\ Hands(Caller, Top.kept, request)
<1>1. stack \in Seq(Frames) /\ Len(stack) \in Nat \ {0} /\ Top = stack[1]
  BY DEF SearchInv, TypeOK, Top
<1>2. Top \in Frames /\ FrameRight(Top, request)
  BY <1>1 DEF SearchInv, Chain
<1>3. IF ret = "none" THEN Holds(Top, word, request)
                            ELSE Gets(Top, word, request)
  BY DEF SearchInv, Chain
<1>4. Len(stack) = 1 => Top.proc = "word"
  BY <1>1 DEF SearchInv, Chain
<1>5. ASSUME Len(stack) # 1
      PROVE  /\ Caller \in Frames
             /\ FrameRight(Caller, request)
             /\ CallsProc(Caller, Top.proc)
             /\ Hands(Caller, Top.kept, request)
  <2>1. 1 \in 1 .. Len(stack) - 1 /\ 2 \in 1 .. Len(stack)
    <3>1. Len(stack) \in Nat \ {0}
      BY <1>1
    <3> QED BY <1>5, <3>1, OneOrMore
  <2>2. CallsProc(stack[1 + 1], Top.proc) /\ Hands(stack[1 + 1], Top.kept, request)
    BY <1>1, <2>1 DEF SearchInv, Chain
  <2> QED BY <1>1, <2>1, <2>2 DEF SearchInv, Chain, Caller
<1> QED BY <1>1, <1>2, <1>3, <1>4, <1>5

\* and a return, when the caller can use the word that comes back.
LEMMA ReturnKeeps ==
  ASSUME SearchInv, stack # <<>>, request' = request,
         NEW v \in BOOLEAN, NEW w \in Word,
         Len(stack) # 1 => Gets(Caller, w, request),
         Return(v, w)
  PROVE  Formed' /\ Chain' /\ Len(stack') < Len(stack)
<1>3. stack' = Tail(stack) /\ word' = w /\ ret' \in {"yes", "no"}
  BY DEF Return
<1>4. /\ stack' \in Seq(Frames) /\ Len(stack') = Len(stack) - 1
      /\ Len(stack) \in Nat \ {0}
      /\ \A i \in 1 .. Len(stack) - 1 : stack'[i] = stack[i + 1]
      /\ stack' # <<>> => Head(stack') = stack[2]
  BY <1>3, Tailed DEF SearchInv, TypeOK
<1>6. ASSUME NEW i \in 1 .. Len(stack') PROVE FrameRight(stack'[i], request)
  <2>1. stack'[i] = stack[i + 1] /\ i + 1 \in 1 .. Len(stack)
    BY <1>4
  <2> QED BY <2>1 DEF SearchInv, Chain
<1>7. ASSUME NEW i \in 1 .. Len(stack') - 1
      PROVE  /\ CallsProc(stack'[i + 1], stack'[i].proc)
             /\ Hands(stack'[i + 1], stack'[i].kept, request)
  <2>1. /\ stack'[i] = stack[i + 1] /\ stack'[i + 1] = stack[(i + 1) + 1]
        /\ i + 1 \in 1 .. Len(stack) - 1
    BY <1>4
  <2> QED BY <2>1 DEF SearchInv, Chain
<1>8. stack' # <<>> => stack'[Len(stack')].proc = "word" /\ Len(stack) # 1
  <2>1. stack[Len(stack)].proc = "word"
    BY DEF SearchInv, Chain
  <2>2. stack' # <<>> => Len(stack') > 0
    BY <1>4
  <2>3. ASSUME Len(stack') > 0 PROVE stack'[Len(stack')] = stack[Len(stack)] /\ Len(stack) # 1
    BY <1>4, <2>3
  <2> QED BY <2>1, <2>2, <2>3
<1>9. Chain'
  <2>1. stack' # <<>> => Gets(Head(stack'), word', request)
    BY <1>3, <1>4, <1>8 DEF Caller
  <2>2. ret' # "none"
    BY <1>3
  <2> QED BY <1>3, <1>6, <1>7, <1>8, <2>1, <2>2 DEF Chain, Top
<1>10. Len(stack') < Len(stack)
  BY <1>4
<1> QED BY <1>3, <1>4, <1>9, <1>10 DEF Formed

\* What HandedBack says of a step.
HandsBack ==
  stack # <<>> /\ Len(stack') < Len(stack) =>
       CASE Top.proc \in {"three", "apostr"} -> word' = Top.kept
         [] Top.proc \in {"two", "crasis"} ->
              word' = Top.kept \/ Lowered(Top.kept, word', request)
         [] OTHER -> TRUE

\* What the calls and returns leave alone.
Frozen == library' = library /\ request' = request /\ anals' \subseteq library

\* The same, with the types and with what HandedBack says:
LEMMA PushStep ==
  ASSUME SearchInv, stack # <<>>, Frozen,
         NEW f \in Frames, NEW p \in Procs, NEW w \in Word,
         f.proc = Top.proc, f.kept = Top.kept, FrameRight(f, request),
         CallsProc(f, p), Hands(f, w, request),
         FrameRight(Frame(p, w), request), Holds(Frame(p, w), w, request),
         Push(f, p, w)
  PROVE  SearchInv' /\ HandsBack
<1>1. Formed' /\ Chain' /\ Len(stack') = Len(stack) + 1
  BY PushKeeps DEF Frozen
<1>2. TypeOK'
  BY <1>1 DEF TypeOK, Formed, Frozen, SearchInv
<1>3. ~ (Len(stack') < Len(stack))
  <2>1. Len(stack) \in Nat
    BY DEF SearchInv, TypeOK
  <2> QED BY <1>1, <2>1
<1> QED BY <1>1, <1>2, <1>3 DEF SearchInv, HandsBack

\* a call, a step between calls,
LEMMA StayStep ==
  ASSUME SearchInv, stack # <<>>, Frozen,
         NEW f \in Frames, NEW w \in Word,
         f.proc = Top.proc, f.kept = Top.kept, FrameRight(f, request),
         Holds(f, w, request), Stay(f, w)
  PROVE  SearchInv' /\ HandsBack
<1>1. Formed' /\ Chain' /\ Len(stack') = Len(stack)
  BY StayKeeps DEF Frozen
<1>2. TypeOK'
  BY <1>1 DEF TypeOK, Formed, Frozen, SearchInv
<1>3. ~ (Len(stack') < Len(stack))
  <2>1. Len(stack) \in Nat
    BY DEF SearchInv, TypeOK
  <2> QED BY <1>1, <2>1
<1> QED BY <1>1, <1>2, <1>3 DEF SearchInv, HandsBack

\* What a function gives back to its caller.
GivesBack(f, w, r) ==
  \/ f.proc = "word"
  \/ f.proc = "one" /\ Like(w, f.kept)
  \/ f.proc \in {"three", "apostr"} /\ w = f.kept
  \/ f.proc \in {"two", "crasis"} /\ (w = f.kept \/ Lowered(f.kept, w, r))

\* and a return of a word the function may give back.
LEMMA ReturnStep ==
  ASSUME SearchInv, stack # <<>>, Frozen,
         NEW v \in BOOLEAN, NEW w \in Word,
         GivesBack(Top, w, request), Return(v, w)
  PROVE  SearchInv' /\ HandsBack
<1>1. ASSUME Len(stack) # 1 PROVE Gets(Caller, w, request)
  <2>1. /\ Top \in Frames /\ Caller \in Frames /\ FrameRight(Top, request)
        /\ FrameRight(Caller, request) /\ CallsProc(Caller, Top.proc)
        /\ Hands(Caller, Top.kept, request)
    BY <1>1, CallerCalls
  <2>2. w = Top.kept => Gets(Caller, w, request)
    BY <2>1 DEF Gets
  <2>3. Top.proc # "word"
    BY <2>1 DEF CallsProc
  <2>4. CASE Top.proc = "one"
    <3>1. Like(w, Top.kept) /\ Unmarked(Top.kept, request) /\ Caller.proc = "word"
      BY <2>1, <2>4 DEF GivesBack, FrameRight, CallsProc
    <3> QED BY <3>1 DEF Gets, Hands, Like, Unmarked
  <2>5. CASE Top.proc \in {"two", "crasis"} /\ Lowered(Top.kept, w, request)
    <3>1. Like(w, Top.kept)
      BY <2>5, <2>1 DEF Lowered, Like, Spelt, Word, Frames
    <3>2. CASE Top.proc = "two"
      <4>1. Caller.proc = "one"
        BY <2>1, <3>2 DEF CallsProc
      <4> QED BY <2>1, <3>1, <4>1 DEF Hands, Gets, Like
    <3>3. CASE Top.proc = "crasis"
      <4>1. Caller.proc = "two" /\ Caller.stage \in {2, 4, 6}
        BY <2>1, <3>3 DEF CallsProc
      <4>2. Caller.stage = 2
        BY <2>1, <2>5, <4>1 DEF FrameRight, Lowered
      <4>3. Top.kept = Caller.kept
        BY <2>1, <4>1, <4>2 DEF Hands
      <4> QED BY <2>5, <4>1, <4>2, <4>3 DEF Gets
    <3> QED BY <2>5, <3>2, <3>3
  <2> QED BY <2>2, <2>3, <2>4, <2>5 DEF GivesBack
<1>2. Formed' /\ Chain'
  BY <1>1, ReturnKeeps DEF Frozen
<1>3. TypeOK'
  BY <1>2 DEF TypeOK, Formed, Frozen, SearchInv
<1>4. word' = w
  BY DEF Return
<1>5. HandsBack
  BY <1>4 DEF HandsBack, GivesBack
<1> QED BY <1>2, <1>3, <1>5 DEF SearchInv

----------------------------------------------------------------------------
(* check_word_once and checkstring1.                                       *)

\* What the lemmas of the actions start from.
LEMMA Begins ==
  ASSUME SearchInv, stack # <<>>
  PROVE  /\ Top \in Frames /\ word \in Word /\ request \in Request
         /\ FrameRight(Top, request)
         /\ ret = "none" => Holds(Top, word, request)
         /\ ret # "none" => Gets(Top, word, request)
         /\ anals \subseteq library /\ ret \in {"none", "yes", "no"}
         /\ Top.kept \in Word /\ Top.own \in Word /\ Top.plan \in Seq(Respelling)
         /\ Top.stage \in Nat /\ Top.found \in BOOLEAN /\ Top.proc \in Procs
         /\ Top.own.spelling \in Spellings
         /\ request.spelling \in Spellings
         /\ request.language \in {"GREEK", "LATIN"}
<1>1. /\ Top \in Frames /\ FrameRight(Top, request)
      /\ ret = "none" => Holds(Top, word, request)
  BY CallerCalls
<1>2. ret # "none" => Gets(Top, word, request)
  BY CallerCalls
<1>3. Top.kept \in Word /\ Top.own \in Word /\ Top.plan \in Seq(Respelling)
         /\ Top.stage \in Nat /\ Top.found \in BOOLEAN /\ Top.proc \in Procs
  BY <1>1 DEF Frames
<1>4. Top.own.spelling \in Spellings
  BY <1>3 DEF Word
<1>5. request \in Request /\ request.spelling \in Spellings
      /\ request.language \in {"GREEK", "LATIN"}
  BY DEF SearchInv, TypeOK, Request
<1> QED BY <1>1, <1>2, <1>3, <1>4, <1>5, CallerCalls DEF SearchInv, TypeOK

\* An element of a sequence.
LEMMA ElementTyped ==
  ASSUME NEW S, NEW q \in Seq(S), NEW i \in 1 .. Len(q)
  PROVE  q[i] \in S
OBVIOUS

\* With a smooth or a rough breathing, or without, it is a spelling.
LEMMA AttemptsSpelt ==
  ASSUME NEW s \in Spellings, NEW i \in 1 .. 3
  PROVE  Attempts(s)[i] \in Spellings
<1> DEFINE u == [j \in 1 .. 2 |-> Respelled[Breathings[j]][s][1].to]
           v == <<s>>
<1>1. \A j \in 1 .. 2 : u[j] \in Spellings
  <2> TAKE j \in 1 .. 2
  <2>1. Breathings[j] \in Rules /\ Breathings[j] \in Elements(Breathings)
    BY RuleNames
  <2>2. Respelled[Breathings[j]][s] # <<>>
    BY <2>1, Constants
  <2> QED BY <2>1, <2>2, Respellings
<1>2. u \in Seq(Spellings) /\ Len(u) = 2
  BY <1>1
<1>3. v \in Seq(Spellings) /\ Len(v) = 1
  OBVIOUS
<1>4. Attempts(s) = v \o u
  BY DEF Attempts
<1> HIDE DEF u, v
<1>5. Attempts(s) \in Seq(Spellings) /\ Len(Attempts(s)) = 3
  <2>1. v \o u \in Seq(Spellings) /\ Len(v \o u) = Len(v) + Len(u)
    BY <1>2, <1>3, Joined
  <2> QED BY <1>2, <1>3, <1>4, <2>1
<1> QED BY <1>5, ElementTyped

\* check_word_once makes a word without flags.
LEMMA FreshWord ==
  ASSUME request \in Request, NEW s \in Spellings
  PROVE  Fresh(s) \in Word /\ Unmarked(Fresh(s), request)
BY DEF Fresh, Word, Unmarked, Request, Flags

\* morpheus_check_word tries a spelling,
LEMMA StepWordAgain ==
  ASSUME SearchInv, CheckWordAgain
  PROVE  SearchInv' /\ HandsBack
<1>1. stack # <<>> /\ Top.proc = "word" /\ Top.stage \in {0, 1, 2}
  <2>1. stack # <<>> /\ Top.proc = "word" /\ (Top.stage = 0 \/ Top.stage < 3)
    BY DEF CheckWordAgain
  <2> QED BY <2>1, Begins
<1> DEFINE tried == IF Top.stage = 0 THEN request.spelling
                  ELSE Attempts(request.spelling)[Top.stage + 1]
           f == [Top EXCEPT !.stage = @ + 1]
           w == Fresh(tried)
<1>2. Push(f, "one", w) /\ Frozen
  BY DEF CheckWordAgain, Frozen
<1>3. tried \in Spellings
  BY <1>1, Begins, AttemptsSpelt
<1>4. w \in Word /\ Unmarked(w, request)
  <2> HIDE DEF tried
  <2> QED BY <1>1, <1>3, Begins, FreshWord
<1>5. f \in Frames /\ f.proc = "word" /\ f.kept = Top.kept
  BY <1>1, Begins DEF Frames
<1>6. FrameRight(Frame("one", w), request) /\ Holds(Frame("one", w), w, request)
  <2> HIDE DEF w
  <2> QED BY <1>4 DEF FrameRight, Holds, Frame, Like
<1> HIDE DEF f, w
<1>7. FrameRight(f, request) /\ CallsProc(f, "one") /\ Hands(f, w, request)
  BY <1>4, <1>5 DEF FrameRight, CallsProc, Hands
<1> QED BY <1>1, <1>2, <1>4, <1>5, <1>6, <1>7, PushStep DEF Procs

\* or ends.
LEMMA StepWordEnds ==
  ASSUME SearchInv, CheckWordEnds
  PROVE  SearchInv' /\ HandsBack
<1>1. stack # <<>> /\ Top.proc = "word" /\ Return(anals # {}, word)
      /\ library' = library /\ request' = request /\ anals' = anals
  BY DEF CheckWordEnds
<1>2. Frozen /\ word \in Word
  BY <1>1, Begins DEF Frozen
<1>3. GivesBack(Top, word, request)
  BY <1>1 DEF GivesBack
<1> DEFINE v == anals # {}
<1>4. v \in BOOLEAN /\ Return(v, word)
  BY <1>1
<1> HIDE DEF v
<1> QED BY <1>1, <1>2, <1>3, <1>4, ReturnStep

\* checkstring1 calls checkstring2, on the word or on one with its vowel put
\* back, or returns.
LEMMA StepOne ==
  ASSUME SearchInv, CheckString1
  PROVE  SearchInv' /\ HandsBack
<1> DEFINE own  == Top.own.spelling
           left == {i \in Top.stage + 1 .. 4 :
                      /\ Respelled[Prodelisions[i]][own] # <<>>
                      /\ (i \in {1, 3} \/ ret = "no")}
           next == CHOOSE i \in left : \A j \in left : i <= j
           w == Spelt(word, Respelled[Prodelisions[next]][own][1].to)
           f == [Top EXCEPT !.stage = next]
<1>1. stack # <<>> /\ Top.proc = "one"
      /\ library' = library /\ request' = request /\ anals' = anals
  BY DEF CheckString1
<1>2. \/ Push(Top, "two", word)
      \/ Return(ret = "yes", word)
      \/ left # {} /\ Push(f, "two", w)
  BY DEF CheckString1
<1>3. /\ Frozen /\ Like(word, Top.kept) /\ Unmarked(Top.kept, request)
      /\ Unmarked(word, request) /\ word \in Word
      /\ Top \in Frames /\ FrameRight(Top, request)
  <2>1. Like(word, Top.kept)
    BY <1>1, Begins DEF Holds, Gets, Hands
  <2>2. Unmarked(Top.kept, request)
    BY <1>1, Begins DEF FrameRight
  <2>3. Unmarked(word, request)
    BY <2>1, <2>2 DEF Like, Unmarked
  <2> QED BY <1>1, <2>1, <2>2, <2>3, Begins DEF Frozen
<1>4. ASSUME NEW g \in Frames, NEW v \in Word, g.proc = "one", g.kept = Top.kept,
             Like(v, word), Push(g, "two", v)
      PROVE  SearchInv' /\ HandsBack
  <2>1. FrameRight(g, request) /\ CallsProc(g, "two") /\ Hands(g, v, request)
    BY <1>3, <1>4 DEF FrameRight, CallsProc, Hands, Like
  <2>2. Unmarked(v, request)
    BY <1>3, <1>4 DEF Like, Unmarked
  <2>3. FrameRight(Frame("two", v), request) /\ Holds(Frame("two", v), v, request)
    BY <2>2 DEF FrameRight, Holds, Frame
  <2> QED BY <1>1, <1>3, <1>4, <2>1, <2>3, PushStep DEF Procs
<1>5. CASE Push(Top, "two", word)
  <2>1. Like(word, word)
    BY DEF Like
  <2> QED BY <1>1, <1>3, <1>4, <1>5, <2>1
<1>6. CASE Return(ret = "yes", word)
  <2> DEFINE v == ret = "yes"
  <2>1. v \in BOOLEAN /\ Return(v, word)
    BY <1>6
  <2>2. GivesBack(Top, word, request)
    BY <1>1, <1>3 DEF GivesBack
  <2> HIDE DEF v
  <2> QED BY <1>1, <1>3, <2>1, <2>2, ReturnStep
<1>7. CASE left # {} /\ Push(f, "two", w)
  <2>1. Top.stage \in Nat /\ own \in Spellings
    BY <1>1, Begins
  <2>2. left \subseteq Nat
    BY <2>1
  <2>3. next \in left
    <3>1. left # {}
      BY <1>7
    <3> HIDE DEF left
    <3>2. \E i \in left : \A j \in left : i <= j
      BY <2>2, <3>1, Least
    <3> QED BY <3>2
  <2>4. next \in 1 .. 4 /\ next \in Nat /\ Respelled[Prodelisions[next]][own] # <<>>
    <3> HIDE DEF next
    <3> QED BY <2>1, <2>3
  <2> HIDE DEF next, own
  <2>5. Respelled[Prodelisions[next]][own][1].to \in Spellings
    BY <2>1, <2>4, RuleNames, Respellings
  <2>6. w \in Word /\ Like(w, word)
    BY <1>3, <2>5, WordTypes
  <2>7. f \in Frames /\ f.proc = "one" /\ f.kept = Top.kept
    BY <1>1, <1>3, <2>4 DEF Frames
  <2> HIDE DEF w, f
  <2> QED BY <1>4, <1>7, <2>6, <2>7
<1> QED BY <1>2, <1>5, <1>6, <1>7

\* What a pass of checkstring2 changed in a plain word is put back.
LEMMA PassesUndone ==
  ASSUME NEW w \in Word, NEW r, Unmarked(w, r)
  PROVE  PutBack(Ionic(w), w) = w /\ PutBack(Poetic(w), w) = w
BY DEF Word, Unmarked, PutBack, Ionic, Poetic

\* What checkstring2 knows between two calls.
LEMMA PassWord ==
  ASSUME SearchInv, stack # <<>>, Top.proc = "two"
  PROVE  /\ Top \in Frames /\ FrameRight(Top, request) /\ word \in Word
         /\ Top.kept \in Word /\ Unmarked(Top.kept, request) /\ Top.stage \in 0 .. 6
         /\ Top.stage > 2 => Language # "LATIN" /\ Top.own = Top.kept
         /\ Top.stage = 0 => word = Top.kept
         /\ Top.stage = 1 => word = Top.kept
         /\ Top.stage = 2 => word = Top.kept \/ Lowered(Top.kept, word, request)
         /\ Top.stage \in {3, 4} => word = Ionic(Top.kept)
         /\ Top.stage \in {5, 6} => word = Poetic(Top.kept)
<1>1. /\ Top \in Frames /\ FrameRight(Top, request) /\ word \in Word
      /\ Top.kept \in Word
      /\ ret = "none" => Holds(Top, word, request)
      /\ ret # "none" => Gets(Top, word, request)
  BY Begins
<1>2. /\ Unmarked(Top.kept, request) /\ Top.stage \in 0 .. 6
      /\ Top.stage > 2 => request.language # "LATIN" /\ Top.own = Top.kept
  BY <1>1 DEF FrameRight
<1>3. CASE ret = "none"
  <2>1. Top.stage = 0 /\ word = Top.kept
    BY <1>1, <1>3 DEF Holds
  <2> QED BY <1>1, <1>2, <2>1 DEF Language
<1>4. CASE ret # "none"
  <2>1. \/ Top.stage \in {1, 2} /\ word = Top.kept
        \/ Top.stage \in {3, 4} /\ word = Ionic(Top.kept)
        \/ Top.stage \in {5, 6} /\ word = Poetic(Top.kept)
        \/ Top.stage = 2 /\ Lowered(Top.kept, word, request)
    BY <1>1, <1>4 DEF Gets, Hands
  <2> QED BY <1>1, <1>2, <2>1 DEF Language
<1> QED BY <1>3, <1>4

\* checkstring2 calls p, in pass s, with the word of that pass.
LEMMA PassCalls ==
  ASSUME SearchInv, stack # <<>>, Top.proc = "two", Frozen,
         NEW f \in Frames, f.proc = "two", f.kept = Top.kept, f.stage \in 1 .. 6,
         f.stage > 2 => Language # "LATIN" /\ f.own = f.kept,
         NEW w \in Word,
         f.stage \in {1, 2} => w = f.kept,
         f.stage \in {3, 4} => w = Ionic(f.kept),
         f.stage \in {5, 6} => w = Poetic(f.kept),
         NEW p \in {"three", "crasis"}, p = "three" <=> f.stage \in {1, 3, 5},
         Push(f, p, w)
  PROVE  SearchInv' /\ HandsBack
<1>1. Unmarked(f.kept, request)
  BY PassWord
<1>2. FrameRight(f, request) /\ CallsProc(f, p) /\ Hands(f, w, request)
  BY <1>1 DEF FrameRight, CallsProc, Hands, Language
<1>3. FrameRight(Frame(p, w), request) /\ Holds(Frame(p, w), w, request)
  BY DEF FrameRight, Holds, Frame, Like
<1>4. p \in Procs
  BY DEF Procs
<1> QED BY <1>2, <1>3, <1>4, PushStep

\* The first pass;
LEMMA StepTwo ==
  ASSUME SearchInv, CheckString2
  PROVE  SearchInv' /\ HandsBack
<1> DEFINE f == [Top EXCEPT !.stage = 1]
<1>1. /\ stack # <<>> /\ Top.proc = "two" /\ Top.stage = 0 /\ Push(f, "three", word)
      /\ library' = library /\ request' = request /\ anals' = anals
  BY DEF CheckString2
<1>2. Frozen
  BY <1>1, Begins DEF Frozen
<1>3. Top \in Frames /\ word \in Word /\ word = Top.kept
  BY <1>1, PassWord
<1>4. f \in Frames /\ f.proc = "two" /\ f.kept = Top.kept /\ f.stage = 1
  BY <1>1, <1>3 DEF Frames
<1> HIDE DEF f
<1> QED BY <1>1, <1>2, <1>3, <1>4, PassCalls

\* a crasis, when a pass has found nothing;
LEMMA StepTwoCrasis ==
  ASSUME SearchInv, CheckString2Crasis
  PROVE  SearchInv' /\ HandsBack
<1> DEFINE f == [Top EXCEPT !.stage = @ + 1]
<1>1. /\ stack # <<>> /\ Top.proc = "two" /\ Top.stage \in {1, 3, 5}
      /\ Push(f, "crasis", word)
      /\ library' = library /\ request' = request /\ anals' = anals
  BY DEF CheckString2Crasis, LooksForCrasis
<1>2. Frozen
  BY <1>1, Begins DEF Frozen
<1>3. /\ Top \in Frames /\ word \in Word
      /\ Top.stage > 2 => Language # "LATIN" /\ Top.own = Top.kept
      /\ Top.stage = 1 => word = Top.kept
      /\ Top.stage = 3 => word = Ionic(Top.kept)
      /\ Top.stage = 5 => word = Poetic(Top.kept)
  BY <1>1, PassWord
<1>4. /\ f \in Frames /\ f.proc = "two" /\ f.kept = Top.kept /\ f.own = Top.own
      /\ f.stage = Top.stage + 1
  BY <1>1, <1>3 DEF Frames
<1> HIDE DEF f
<1>5. f.stage \in {2, 4, 6} /\ f.stage \in 1 .. 6
  BY <1>1, <1>4
<1>6. f.stage > 2 => Language # "LATIN" /\ f.own = f.kept
  BY <1>1, <1>3, <1>4
<1>7. /\ f.stage \in {1, 2} => word = f.kept
      /\ f.stage \in {3, 4} => word = Ionic(f.kept)
      /\ f.stage \in {5, 6} => word = Poetic(f.kept)
  BY <1>1, <1>3, <1>4
<1> QED BY <1>1, <1>2, <1>3, <1>4, <1>5, <1>6, <1>7, PassCalls

\* the pass with Ionic and epic;
LEMMA StepTwoIonic ==
  ASSUME SearchInv, CheckString2Ionic
  PROVE  SearchInv' /\ HandsBack
<1> DEFINE f == [Top EXCEPT !.stage = 3, !.own = word]
           v == anals # {}
<1>1. /\ stack # <<>> /\ Top.proc = "two" /\ Top.stage \in {1, 2}
      /\ library' = library /\ request' = request /\ anals' = anals
      /\ \/ Return(v, word)
         \/ Language # "LATIN" /\ Push(f, "three", Ionic(word))
  BY DEF CheckString2Ionic
<1>2. Frozen /\ v \in BOOLEAN
  BY <1>1, Begins DEF Frozen
<1> HIDE DEF v
<1>3. /\ Top \in Frames /\ word \in Word
      /\ word = Top.kept \/ Lowered(Top.kept, word, request)
  BY <1>1, PassWord
<1>4. CASE Return(v, word)
  <2>1. GivesBack(Top, word, request)
    BY <1>1, <1>3 DEF GivesBack
  <2> QED BY <1>1, <1>2, <1>3, <1>4, <2>1, ReturnStep
<1>5. CASE Language # "LATIN" /\ Push(f, "three", Ionic(word))
  <2>1. word = Top.kept
    BY <1>3, <1>5 DEF Lowered, Language
  <2>2. /\ f \in Frames /\ f.proc = "two" /\ f.kept = Top.kept
        /\ f.stage = 3 /\ f.own = word
    BY <1>1, <1>3 DEF Frames
  <2>3. Ionic(word) \in Word
    BY <1>3, WordTypes DEF Word
  <2> HIDE DEF f
  <2> DEFINE w == Ionic(word)
  <2>4. w \in Word /\ w = Ionic(f.kept) /\ Push(f, "three", w)
    BY <1>5, <2>1, <2>2, <2>3
  <2> HIDE DEF w
  <2> QED BY <1>1, <1>2, <1>5, <2>1, <2>2, <2>4, PassCalls
<1> QED BY <1>1, <1>4, <1>5

\* the pass as poetry, which first puts back what that one changed;
LEMMA StepTwoPoetic ==
  ASSUME SearchInv, CheckString2Poetic
  PROVE  SearchInv' /\ HandsBack
<1> DEFINE f == [Top EXCEPT !.stage = 5]
           v == anals # {}
           back == PutBack(word, Top.own)
<1>1. /\ stack # <<>> /\ Top.proc = "two" /\ Top.stage \in {3, 4}
      /\ library' = library /\ request' = request /\ anals' = anals
      /\ \/ Return(v, back)
         \/ Push(f, "three", Poetic(back))
  BY DEF CheckString2Poetic
<1>2. Frozen /\ v \in BOOLEAN
  BY <1>1, Begins DEF Frozen
<1> HIDE DEF v
<1>3. /\ Top \in Frames /\ Top.kept \in Word /\ Language # "LATIN"
      /\ back = Top.kept /\ Top.own = Top.kept
  <2>1. /\ Top.kept \in Word /\ Unmarked(Top.kept, request)
        /\ word = Ionic(Top.kept) /\ Top.own = Top.kept /\ Language # "LATIN"
        /\ Top \in Frames
    BY <1>1, PassWord
  <2> QED BY <2>1, PassesUndone
<1> HIDE DEF back
<1>4. CASE Return(v, back)
  <2>1. GivesBack(Top, back, request)
    BY <1>1, <1>3 DEF GivesBack
  <2> QED BY <1>1, <1>2, <1>3, <1>4, <2>1, ReturnStep
<1>5. CASE Push(f, "three", Poetic(back))
  <2>2. /\ f \in Frames /\ f.proc = "two" /\ f.kept = Top.kept
        /\ f.stage = 5 /\ f.own = Top.own
    BY <1>1, <1>3 DEF Frames
  <2>3. Poetic(back) \in Word
    BY <1>3, WordTypes DEF Word
  <2> HIDE DEF f
  <2> DEFINE w == Poetic(back)
  <2>4. w \in Word /\ w = Poetic(f.kept) /\ Push(f, "three", w)
    BY <1>3, <1>5, <2>2, <2>3
  <2> HIDE DEF w
  <2> QED BY <1>1, <1>2, <1>3, <2>2, <2>4, PassCalls
<1> QED BY <1>1, <1>4, <1>5

\* and the end, which puts back what it changed itself.
LEMMA StepTwoEnds ==
  ASSUME SearchInv, CheckString2Ends
  PROVE  SearchInv' /\ HandsBack
<1> DEFINE v == anals # {}
           back == PutBack(word, Top.own)
<1>1. /\ stack # <<>> /\ Top.proc = "two" /\ Top.stage \in {5, 6}
      /\ library' = library /\ request' = request /\ anals' = anals
      /\ Return(v, back)
  BY DEF CheckString2Ends
<1>2. Frozen /\ v \in BOOLEAN
  BY <1>1, Begins DEF Frozen
<1> HIDE DEF v
<1>3. Top.kept \in Word /\ back = Top.kept
  <2>1. /\ Top.kept \in Word /\ Unmarked(Top.kept, request)
        /\ word = Poetic(Top.kept) /\ Top.own = Top.kept
    BY <1>1, PassWord
  <2> QED BY <2>1, PassesUndone
<1> HIDE DEF back
<1>4. GivesBack(Top, back, request)
  BY <1>1, <1>3 DEF GivesBack
<1> QED BY <1>1, <1>2, <1>3, <1>4, ReturnStep

\* What is found is in the stem library.
LEMMA HitsStored ==
  ASSUME NEW s, NEW w
  PROVE  CheckString4(s, w) \subseteq library
<1>1. \A t, parts, v : Fitting(t, parts, v) \subseteq library
  BY DEF Fitting
<1>2. \A t, v : CheckWord(t, v) \subseteq library
  BY <1>1 DEF CheckWord
<1> DEFINE spelt == <<s>> \o [i \in DOMAIN Respelled["tt"][s] |->
                           Respelled["tt"][s][i].to]
           sun(t) == UNION {Fitting(q.to, Nominals, w) :
                         q \in Elements(Respelled["cun"][t])}
           hit(i) == IF CheckWord(spelt[i], w) # {}
                THEN CheckWord(spelt[i], w) ELSE sun(spelt[i])
           first  == {i \in DOMAIN spelt : /\ hit(i) # {}
                                      /\ \A j \in 1 .. i - 1 : hit(j) = {}}
<1>3. CheckString4(s, w) = UNION {hit(i) : i \in first}
  BY DEF CheckString4
<1>4. \A t : sun(t) \subseteq library
  BY <1>1
<1>5. \A i : hit(i) \subseteq library
  <2> HIDE DEF sun, spelt
  <2> QED BY <1>2, <1>4
<1> HIDE DEF hit, first
<1> QED BY <1>3, <1>5

\* What checkstring3 knows.
LEMMA ThreeWord ==
  ASSUME SearchInv, stack # <<>>, Top.proc = "three"
  PROVE  /\ Top \in Frames /\ FrameRight(Top, request) /\ word \in Word
         /\ Top.kept \in Word /\ Top.plan \in Seq(Respelling)
         /\ Top.own = Top.kept /\ Like(word, Top.kept)
         /\ Restored(word, Top) = Top.kept
         /\ ret # "none" => Top.plan # <<>>
         /\ \A s \in Spellings : Spelt(word, s) \in Word /\ Like(Spelt(word, s), Top.kept)
<1>1. /\ Top \in Frames /\ FrameRight(Top, request) /\ word \in Word
      /\ Top.kept \in Word /\ Top.plan \in Seq(Respelling)
      /\ ret = "none" => Holds(Top, word, request)
      /\ ret # "none" => Gets(Top, word, request)
  BY Begins
<1>2. Like(word, Top.kept) /\ (ret # "none" => Top.plan # <<>>)
  BY <1>1 DEF Holds, Gets, Hands
<1>3. Top.own = Top.kept
  BY <1>1 DEF FrameRight
<1>4. Restored(word, Top) = Top.kept
  BY <1>1, <1>2, <1>3, SameWord DEF Restored
<1>5. \A s \in Spellings : Spelt(word, s) \in Word /\ Like(Spelt(word, s), Top.kept)
  BY <1>1, <1>2, WordTypes DEF Like
<1> QED BY <1>1, <1>2, <1>3, <1>4, <1>5

\* checkstring3 goes on with a word of the same flags,
LEMMA ThreeStays ==
  ASSUME SearchInv, stack # <<>>, Top.proc = "three", Frozen,
         NEW f \in Frames, f.proc = "three", f.kept = Top.kept, f.own = Top.own,
         NEW w \in Word, Like(w, Top.kept), Stay(f, w)
  PROVE  SearchInv' /\ HandsBack
<1>1. FrameRight(f, request) /\ Holds(f, w, request)
  BY ThreeWord DEF FrameRight, Holds
<1> QED BY <1>1, StayStep

\* or returns the word it was given.
LEMMA ThreeReturns ==
  ASSUME SearchInv, stack # <<>>, Top.proc = "three", Frozen,
         NEW v \in BOOLEAN, Return(v, Restored(word, Top))
  PROVE  SearchInv' /\ HandsBack
<1> DEFINE w == Restored(word, Top)
<1>1. w = Top.kept /\ w \in Word
  BY ThreeWord
<1>2. Return(v, w)
  OBVIOUS
<1> HIDE DEF w
<1>3. GivesBack(Top, w, request)
  BY <1>1 DEF GivesBack
<1> QED BY <1>1, <1>2, <1>3, ReturnStep

\* checkstring3 looks the word up as it is spelled,
LEMMA StepThreePlain ==
  ASSUME SearchInv, CheckString3Plain
  PROVE  SearchInv' /\ HandsBack
<1> DEFINE matches == CheckString4(word.spelling, word)
           f == [Top EXCEPT !.stage = 1, !.found = (matches # {})]
<1>1. /\ stack # <<>> /\ Top.proc = "three" /\ Stay(f, word)
      /\ library' = library /\ request' = request /\ anals' = anals \cup matches
  BY DEF CheckString3Plain
<1>2. Frozen
  BY <1>1, Begins, HitsStored DEF Frozen
<1> DEFINE b == matches # {}
<1> b \in BOOLEAN
  OBVIOUS
<1>3. f = [Top EXCEPT !.stage = 1, !.found = b]
  OBVIOUS
<1> HIDE DEF b
<1>4. Top \in Frames /\ word \in Word /\ Like(word, Top.kept)
  BY <1>1, ThreeWord
<1> HIDE DEF f, matches
<1>5. f \in Frames /\ f.proc = "three" /\ f.kept = Top.kept /\ f.own = Top.own
  BY <1>1, <1>3, <1>4 DEF Frames
<1> QED BY <1>1, <1>2, <1>4, <1>5, ThreeStays

\* in lower case,
LEMMA StepThreeLower ==
  ASSUME SearchInv, CheckString3Lower
  PROVE  SearchInv' /\ HandsBack
<1> DEFINE own   == Restored(word, Top)
           lower == Spelt(word, Head(Top.plan).to)
           matches  == CheckString4(lower.spelling, word)
           f == [Top EXCEPT !.plan = Tail(@), !.found = FALSE]
           w == IF Tail(Top.plan) = <<>> THEN own ELSE lower
<1>1. /\ stack # <<>> /\ Top.proc = "three" /\ Top.plan # <<>>
      /\ library' = library /\ request' = request
  BY DEF CheckString3Lower, Pending
<1>2. /\ anals' = anals \cup CheckString4(lower.spelling, word)
      /\ Return(TRUE, own) \/ Stay(f, w)
  BY DEF CheckString3Lower
<1>3. Frozen
  BY <1>1, <1>2, Begins, HitsStored DEF Frozen
<1>4. Top \in Frames /\ Top.plan \in Seq(Respelling) /\ own = Top.kept /\ Top.kept \in Word
  BY <1>1, ThreeWord
<1>5. Head(Top.plan).to \in Spellings /\ Tail(Top.plan) \in Seq(Respelling)
  <2>1. Head(Top.plan) \in Respelling /\ Tail(Top.plan) \in Seq(Respelling)
    BY <1>1, <1>4
  <2> QED BY <2>1 DEF Respelling
<1>6. lower \in Word /\ Like(lower, Top.kept)
  BY <1>1, <1>5, ThreeWord
<1>7. w \in Word /\ Like(w, Top.kept)
  <2>1. Like(Top.kept, Top.kept)
    BY DEF Like
  <2> HIDE DEF own, lower
  <2> QED BY <1>4, <1>6, <2>1
<1>8. f \in Frames /\ f.proc = "three" /\ f.kept = Top.kept /\ f.own = Top.own
  BY <1>1, <1>4, <1>5 DEF Frames
<1>9. CASE Stay(f, w)
  <2> HIDE DEF f, w
  <2> QED BY <1>1, <1>3, <1>7, <1>8, <1>9, ThreeStays
<1>10. CASE Return(TRUE, own)
  BY <1>1, <1>3, <1>10, ThreeReturns
<1> QED BY <1>2, <1>9, <1>10

\* respelled, which is a search of its own,
LEMMA StepThreeRespell ==
  ASSUME SearchInv, CheckString3Respell
  PROVE  SearchInv' /\ HandsBack
<1> DEFINE w == Spelt(word, Head(Top.plan).to)
<1>1. /\ stack # <<>> /\ Top.proc = "three" /\ Top.plan # <<>> /\ ret = "none"
      /\ library' = library /\ request' = request /\ anals' = anals
      /\ Push(Top, "apostr", word) \/ Push(Top, "three", w)
  BY DEF CheckString3Respell, Pending
<1>2. Frozen
  BY <1>1, Begins DEF Frozen
<1>4. /\ Top \in Frames /\ Top.plan \in Seq(Respelling) /\ FrameRight(Top, request)
      /\ word \in Word /\ Like(word, Top.kept)
  BY <1>1, ThreeWord
<1>5. w \in Word /\ Like(w, Top.kept)
  <2>1. Head(Top.plan) \in Respelling
    BY <1>1, <1>4
  <2>2. Head(Top.plan).to \in Spellings
    BY <2>1 DEF Respelling
  <2> QED BY <1>1, <2>2, ThreeWord
<1> HIDE DEF w
<1>6. ASSUME NEW p \in {"three", "apostr"}, NEW v \in Word, Like(v, Top.kept), Push(Top, p, v)
      PROVE  SearchInv' /\ HandsBack
  <2>1. CallsProc(Top, p) /\ Hands(Top, v, request)
    BY <1>1, <1>6 DEF CallsProc, Hands
  <2>2. FrameRight(Frame(p, v), request) /\ Holds(Frame(p, v), v, request)
    BY DEF FrameRight, Holds, Frame, Like
  <2>3. p \in Procs
    BY DEF Procs
  <2> QED BY <1>1, <1>2, <1>4, <1>6, <2>1, <2>2, <2>3, PushStep
<1> QED BY <1>1, <1>4, <1>5, <1>6

\* comes back from that search,
LEMMA StepThreeBack ==
  ASSUME SearchInv, CheckString3Back
  PROVE  SearchInv' /\ HandsBack
<1> DEFINE any == ret = "yes" \/ (Stage3 \in Adds /\ Top.found)
           f == [Top EXCEPT !.plan = Rest(Top), !.found = any]
           w == IF Stage3 = "enclitic" THEN Restored(word, Top) ELSE word
<1>1. /\ stack # <<>> /\ Top.proc = "three" /\ ret # "none"
      /\ library' = library /\ request' = request
      /\ anals' = IF Stage3 = "enclitic" THEN Carried(Head(Top.plan)) ELSE anals
      /\ Return(TRUE, Restored(word, Top)) \/ Stay(f, w)
  BY DEF CheckString3Back
<1>2. Frozen
  BY <1>1, Begins DEF Frozen, Carried
<1>3. /\ Top \in Frames /\ Top.plan \in Seq(Respelling) /\ Top.plan # <<>>
      /\ word \in Word /\ Like(word, Top.kept) /\ Restored(word, Top) = Top.kept
      /\ Top.kept \in Word /\ Top.found \in BOOLEAN
  BY <1>1, ThreeWord, Begins
<1>4. Rest(Top) \in Seq(Respelling)
  BY <1>3 DEF Rest
<1>5. any \in BOOLEAN
  BY <1>3, Zenon
<1>6. w \in Word /\ Like(w, Top.kept)
  BY <1>3 DEF Like
<1> HIDE DEF any
<1>7. f \in Frames /\ f.proc = "three" /\ f.kept = Top.kept /\ f.own = Top.own
  BY <1>1, <1>3, <1>4, <1>5 DEF Frames
<1>8. CASE Stay(f, w)
  <2> HIDE DEF f, w
  <2> QED BY <1>1, <1>2, <1>6, <1>7, <1>8, ThreeStays
<1>9. CASE Return(TRUE, Restored(word, Top))
  BY <1>1, <1>2, <1>9, ThreeReturns
<1> QED BY <1>1, <1>8, <1>9

\* The respellings a stage begins with are respellings.
LEMMA PlanTyped ==
  ASSUME NEW f \in Frames, word \in Word, NEW stage \in Rules
  PROVE  Plan3(stage, f) \in Seq(Respelling)
<1>1. f.own.spelling \in Spellings /\ word.spelling \in Spellings
  BY DEF Frames, Word
<1>2. /\ Respelled[stage][f.own.spelling] \in Seq(Respelling)
      /\ Respelled[stage][word.spelling] \in Seq(Respelling)
  BY <1>1, Respellings
<1>3. \/ Plan3(stage, f) = <<>>
      \/ Plan3(stage, f) = Respelled[stage][f.own.spelling]
      \/ Plan3(stage, f) = Respelled[stage][word.spelling]
  BY Zenon DEF Plan3
<1>4. <<>> \in Seq(Respelling)
  OBVIOUS
<1> QED BY <1>2, <1>3, <1>4

\* and goes on to the next rule, or returns.
LEMMA StepThreeNext ==
  ASSUME SearchInv, CheckString3Next
  PROVE  SearchInv' /\ HandsBack
<1> DEFINE left == {i \in Top.stage + 1 .. Len(Stages3[Language]) :
                      Plan3(Stages3[Language][i], Top) # <<>>}
           next == CHOOSE i \in left : \A j \in left : i <= j
           plan == Plan3(Stages3[Language][next], Top)
           f == [Top EXCEPT !.stage = next, !.plan = plan]
<1>1. /\ stack # <<>> /\ Top.proc = "three" /\ ret = "none"
      /\ library' = library /\ request' = request /\ anals' = anals
  BY DEF CheckString3Next
<1>2. Return(Top.found, Restored(word, Top)) \/ (left # {} /\ Stay(f, word))
  BY Zenon DEF CheckString3Next
<1>3. /\ Frozen /\ Top \in Frames /\ word \in Word /\ Like(word, Top.kept)
      /\ Top.found \in BOOLEAN /\ Top.stage \in Nat /\ Language \in {"GREEK", "LATIN"}
  BY <1>1, ThreeWord, Begins DEF Frozen, Language
<1>4. CASE Return(Top.found, Restored(word, Top))
  <2> DEFINE v == Top.found
  <2>1. v \in BOOLEAN /\ Return(v, Restored(word, Top))
    BY <1>3, <1>4
  <2> HIDE DEF v
  <2> QED BY <1>1, <1>3, <2>1, ThreeReturns
<1>5. CASE left # {} /\ Stay(f, word)
  <2>1. left \subseteq Nat
    BY <1>3
  <2>2. next \in left
    <3>1. left # {}
      BY <1>5
    <3> HIDE DEF left
    <3>2. \E i \in left : \A j \in left : i <= j
      BY <2>1, <3>1, Least
    <3> QED BY <3>2
  <2>3. next \in Nat /\ next \in 1 .. Len(Stages3[Language])
    <3> HIDE DEF next
    <3> QED BY <1>3, <2>1, <2>2
  <2> HIDE DEF next
  <2>4. Stages3[Language][next] \in Rules
    <3>1. CASE Language = "GREEK"
      <4>1. next \in DOMAIN Stages3.GREEK
        BY <2>3, <3>1 DEF Stages3
      <4> QED BY <3>1, <4>1, RuleNames
    <3>2. CASE Language = "LATIN"
      <4>1. next \in DOMAIN Stages3.LATIN
        BY <2>3, <3>2 DEF Stages3
      <4> QED BY <3>2, <4>1, RuleNames
    <3> QED BY <1>3, <3>1, <3>2
  <2>5. plan \in Seq(Respelling)
    BY <1>3, <2>4, PlanTyped
  <2> HIDE DEF plan
  <2>6. f \in Frames /\ f.proc = "three" /\ f.kept = Top.kept /\ f.own = Top.own
    BY <1>1, <1>3, <2>3, <2>5 DEF Frames
  <2> HIDE DEF f
  <2> QED BY <1>1, <1>3, <1>5, <2>6, ThreeStays
<1> QED BY <1>2, <1>4, <1>5

\* What checkapostr knows.
LEMMA ApostrWord ==
  ASSUME SearchInv, stack # <<>>, Top.proc = "apostr"
  PROVE  /\ Top \in Frames /\ FrameRight(Top, request) /\ word \in Word
         /\ Top.kept \in Word /\ Top.own = Top.kept /\ Top.plan \in Seq(Respelling)
         /\ Top.stage \in 0 .. 4 /\ (Top.plan # <<>> => Top.stage > 0)
         /\ ret = "none" => word = Top.kept
         /\ ret # "none" => /\ Top.plan # <<>>
                            /\ word.dialect = Top.kept.dialect
                            /\ word.stem = Top.kept.stem
<1>1. /\ Top \in Frames /\ FrameRight(Top, request) /\ word \in Word
      /\ Top.kept \in Word /\ Top.plan \in Seq(Respelling)
      /\ ret = "none" => Holds(Top, word, request)
      /\ ret # "none" => Gets(Top, word, request)
  BY Begins
<1>2. /\ Top.own = Top.kept
      /\ Top.stage \in 0 .. 4 /\ (Top.plan # <<>> => Top.stage > 0)
  BY <1>1 DEF FrameRight
<1>3. ret = "none" => word = Top.kept
  BY <1>1 DEF Holds
<1>4. ret # "none" => /\ Top.plan # <<>>
                            /\ word.dialect = Top.kept.dialect
                            /\ word.stem = Top.kept.stem
  BY <1>1 DEF Gets, Hands
<1> QED BY <1>1, <1>2, <1>3, <1>4

\* checkapostr searches for a respelling, as poetry when it is an elided ai,
LEMMA StepApostr ==
  ASSUME SearchInv, CheckApostr
  PROVE  SearchInv' /\ HandsBack
<1> DEFINE rule == Elisions[Top.stage]
           w    == Spelt(word, Head(Top.plan).to)
           v    == [w EXCEPT !.flags = @ \cup {"POETIC"}]
<1>1. /\ stack # <<>> /\ Top.proc = "apostr" /\ Top.plan # <<>> /\ ret = "none"
      /\ library' = library /\ request' = request /\ anals' = anals
  BY DEF CheckApostr
<1>2. \/ rule \in {"aspirate", "unaccented"} /\ Push(Top, "apostr", w)
      \/ rule \notin {"aspirate", "unaccented", "ai"} /\ Push(Top, "three", w)
      \/ rule = "ai" /\ Push(Top, "three", v)
  BY Zenon DEF CheckApostr
<1>3. /\ Frozen /\ Top \in Frames /\ FrameRight(Top, request) /\ word \in Word
      /\ word = Top.kept /\ Top.stage \in 1 .. 4 /\ Top.plan \in Seq(Respelling)
  BY <1>1, ApostrWord, Begins DEF Frozen
<1>4. rule = "ai" <=> Top.stage = 3
  BY <1>3 DEF Elisions
<1>5. Head(Top.plan).to \in Spellings
  <2>1. Head(Top.plan) \in Respelling
    BY <1>1, <1>3
  <2> QED BY <2>1 DEF Respelling
<1>6. w \in Word /\ Like(w, Top.kept)
  BY <1>3, <1>5, WordTypes
<1> HIDE DEF w
<1>7. v \in Word /\ v.dialect = w.dialect /\ v.stem = w.stem
      /\ v.flags = w.flags \cup {"POETIC"}
  BY <1>6 DEF Word, Flags
<1> HIDE DEF v
<1>8. ASSUME NEW p \in {"three", "apostr"}, NEW u \in Word, Push(Top, p, u),
             u.dialect = Top.kept.dialect, u.stem = Top.kept.stem,
             u.flags = IF Top.stage = 3 THEN Top.kept.flags \cup {"POETIC"}
                       ELSE Top.kept.flags
      PROVE  SearchInv' /\ HandsBack
  <2>1. CallsProc(Top, p) /\ Hands(Top, u, request)
    BY <1>1, <1>8 DEF CallsProc, Hands
  <2>2. FrameRight(Frame(p, u), request) /\ Holds(Frame(p, u), u, request)
    BY DEF FrameRight, Holds, Frame, Like
  <2>3. p \in Procs
    BY DEF Procs
  <2> QED BY <1>1, <1>3, <1>8, <2>1, <2>2, <2>3, PushStep
<1>9. CASE rule \in {"aspirate", "unaccented"} /\ Push(Top, "apostr", w)
  <2>1. Top.stage # 3
    BY <1>4, <1>9
  <2> HIDE DEF rule
  <2> QED BY <1>6, <1>8, <1>9, <2>1 DEF Like
<1>10. CASE rule \notin {"aspirate", "unaccented", "ai"} /\ Push(Top, "three", w)
  <2>1. Top.stage # 3
    BY <1>4, <1>10
  <2> HIDE DEF rule
  <2> QED BY <1>6, <1>8, <1>10, <2>1 DEF Like
<1>11. CASE rule = "ai" /\ Push(Top, "three", v)
  <2>1. Top.stage = 3
    BY <1>4, <1>11
  <2> HIDE DEF rule
  <2> QED BY <1>6, <1>7, <1>8, <1>11, <2>1 DEF Like
<1> QED BY <1>2, <1>9, <1>10, <1>11

\* checkapostr goes on with the word it was given.
LEMMA ApostrStays ==
  ASSUME SearchInv, stack # <<>>, Top.proc = "apostr", Frozen,
         NEW f \in Frames, f.proc = "apostr", f.kept = Top.kept, f.own = Top.own,
         f.stage \in 0 .. 4, f.plan # <<>> => f.stage > 0,
         Stay(f, Top.kept)
  PROVE  SearchInv' /\ HandsBack
<1> DEFINE w == Top.kept
<1>1. w \in Word /\ Stay(f, w)
  BY ApostrWord
<1>2. FrameRight(f, request) /\ Holds(f, w, request)
  BY ApostrWord DEF FrameRight, Holds
<1> HIDE DEF w
<1> QED BY <1>1, <1>2, StayStep

\* puts the spelling and the flags back,
LEMMA StepApostrBack ==
  ASSUME SearchInv, CheckApostrBack
  PROVE  SearchInv' /\ HandsBack
<1> DEFINE any == Top.found \/ ret = "yes"
           w == [word EXCEPT !.spelling = Top.own.spelling,
                             !.flags = Top.own.flags]
           f == [Top EXCEPT !.plan = Tail(@), !.found = any]
<1>1. /\ stack # <<>> /\ Top.proc = "apostr" /\ ret # "none" /\ Stay(f, w)
      /\ library' = library /\ request' = request /\ anals' = anals
  BY DEF CheckApostrBack
<1>2. /\ Frozen /\ Top \in Frames /\ word \in Word /\ Top.kept \in Word
      /\ Top.own = Top.kept /\ Top.stage \in 1 .. 4
      /\ Top.plan \in Seq(Respelling) /\ Top.plan # <<>>
      /\ word.dialect = Top.kept.dialect /\ word.stem = Top.kept.stem
  BY <1>1, ApostrWord, Begins DEF Frozen
<1>3. w = Top.kept
  BY <1>2 DEF Word
<1>4. any \in BOOLEAN
  BY <1>1, Begins, Zenon
<1>5. Tail(Top.plan) \in Seq(Respelling)
  BY <1>2
<1> HIDE DEF any, w
<1>6. f \in Frames /\ f.proc = "apostr" /\ f.kept = Top.kept /\ f.own = Top.own
      /\ f.stage = Top.stage
  BY <1>1, <1>2, <1>4, <1>5 DEF Frames
<1> HIDE DEF f
<1> QED BY <1>1, <1>2, <1>3, <1>6, ApostrStays

\* and goes on to the next rule, or returns.
LEMMA StepApostrNext ==
  ASSUME SearchInv, CheckApostrNext
  PROVE  SearchInv' /\ HandsBack
<1> DEFINE rule(i) == Respelled[Elisions[i]][Top.own.spelling]
           left == {i \in Top.stage + 1 .. 4 : /\ rule(i) # <<>>
                                               /\ i = 4 => ~Top.found}
           next == CHOOSE i \in left : \A j \in left : i <= j
           plan == rule(next)
           f == [Top EXCEPT !.stage = next, !.plan = plan]
<1>1. /\ stack # <<>> /\ Top.proc = "apostr" /\ ret = "none"
      /\ library' = library /\ request' = request /\ anals' = anals
  BY DEF CheckApostrNext
<1>2. Return(Top.found, word) \/ (left # {} /\ Stay(f, word))
  BY Zenon DEF CheckApostrNext
<1>3. /\ Frozen /\ Top \in Frames /\ word \in Word /\ word = Top.kept
      /\ Top.found \in BOOLEAN /\ Top.stage \in Nat
      /\ Top.own.spelling \in Spellings
  BY <1>1, ApostrWord, Begins DEF Frozen
<1>4. CASE Return(Top.found, word)
  <2> DEFINE v == Top.found
  <2>1. v \in BOOLEAN /\ Return(v, word)
    BY <1>3, <1>4
  <2>2. GivesBack(Top, word, request)
    BY <1>1, <1>3 DEF GivesBack
  <2> HIDE DEF v
  <2> QED BY <1>1, <1>3, <2>1, <2>2, ReturnStep
<1>5. CASE left # {} /\ Stay(f, word)
  <2>1. left \subseteq Nat
    BY <1>3
  <2>2. next \in left
    <3>1. left # {}
      BY <1>5
    <3> HIDE DEF left
    <3>2. \E i \in left : \A j \in left : i <= j
      BY <2>1, <3>1, Least
    <3> QED BY <3>2
  <2>3. next \in Nat /\ next \in 1 .. 4
    <3> HIDE DEF next, rule
    <3> QED BY <1>3, <2>1, <2>2
  <2> HIDE DEF next
  <2>4. plan \in Seq(Respelling)
    BY <1>3, <2>3, RuleNames, Respellings
  <2> HIDE DEF plan
  <2>5. f \in Frames /\ f.proc = "apostr" /\ f.kept = Top.kept /\ f.own = Top.own
        /\ f.stage = next
    BY <1>1, <1>3, <2>3, <2>4 DEF Frames
  <2> HIDE DEF f
  <2>6. Stay(f, Top.kept) /\ f.stage \in 0 .. 4 /\ f.stage > 0
    BY <1>3, <1>5, <2>3, <2>5
  <2> QED BY <1>1, <1>3, <2>5, <2>6, ApostrStays
<1> QED BY <1>2, <1>4, <1>5

----------------------------------------------------------------------------
(* checkcrasis.                                                            *)

\* What checkcrasis knows.
LEMMA CrasisWord ==
  ASSUME SearchInv, stack # <<>>, Top.proc = "crasis"
  PROVE  /\ Top \in Frames /\ FrameRight(Top, request) /\ word \in Word
         /\ Top.kept \in Word /\ Top.own \in Word /\ Top.plan \in Seq(Respelling)
         /\ Top.own = Top.kept \/ Lowered(Top.kept, Top.own, request)
         /\ Like(Top.own, Top.kept)
         /\ Top.stage = 0 => ret = "none" /\ word = Top.kept
         /\ ret = "none" => word = Top.kept \/ word = Top.own
         /\ ret = "none" /\ Top.stage = 1 => word = Top.own
         /\ ret # "none" => Top.plan # <<>> /\ Top.stage = 1
<1>1. /\ Top \in Frames /\ FrameRight(Top, request) /\ word \in Word
      /\ Top.kept \in Word /\ Top.own \in Word /\ Top.plan \in Seq(Respelling)
      /\ ret = "none" => Holds(Top, word, request)
      /\ ret # "none" => Gets(Top, word, request)
  BY Begins
<1>2. Top.own = Top.kept \/ Lowered(Top.kept, Top.own, request)
  BY <1>1 DEF FrameRight
<1>3. Like(Top.own, Top.kept)
  BY <1>1, <1>2 DEF Like, Lowered, Spelt, Word
<1>4. /\ ret # "none" => Top.plan # <<>> /\ Top.stage = 1
  BY <1>1 DEF Gets, Hands
<1>5. ret = "none" => \/ Top.stage = 0 /\ word = Top.kept
                      \/ Top.stage = 1 /\ word = Top.own
  BY <1>1 DEF Holds
<1> QED BY <1>1, <1>2, <1>3, <1>4, <1>5

LEMMA CrasisStays ==
  ASSUME SearchInv, stack # <<>>, Top.proc = "crasis", Frozen,
         NEW f \in Frames, f.proc = "crasis", f.kept = Top.kept, f.stage = 1,
         f.own = Top.kept \/ Lowered(Top.kept, f.own, request),
         NEW w \in Word, w = f.own, Stay(f, w)
  PROVE  SearchInv' /\ HandsBack
<1>1. FrameRight(f, request) /\ Holds(f, w, request)
  BY DEF FrameRight, Holds
<1> QED BY <1>1, StayStep

\* checkcrasis begins, in Latin with the word in lower case,
LEMMA StepCrasis ==
  ASSUME SearchInv, CheckCrasis
  PROVE  SearchInv' /\ HandsBack
<1> DEFINE made == Respelled["lowered"][word.spelling]
           low == Spelt(word, made[1].to)
           lower == IF Language # "LATIN" \/ made = <<>> THEN word ELSE low
           plan == Respelled["crasis"][lower.spelling]
           f == [Top EXCEPT !.stage = 1, !.own = lower, !.plan = plan]
<1>1. /\ stack # <<>> /\ Top.proc = "crasis" /\ Top.stage = 0
      /\ library' = library /\ request' = request /\ anals' = anals
  BY DEF CheckCrasis
<1>2. Return(FALSE, word) \/ Stay(f, lower)
  BY Zenon DEF CheckCrasis
<1>3. Frozen /\ Top \in Frames /\ word \in Word /\ word = Top.kept
  BY <1>1, CrasisWord, Begins DEF Frozen
<1>4. CASE Return(FALSE, word)
  <2>1. GivesBack(Top, word, request)
    BY <1>1, <1>3 DEF GivesBack
  <2> QED BY <1>1, <1>3, <1>4, <2>1, ReturnStep
<1>5. CASE Stay(f, lower)
  <2>1. word.spelling \in Spellings
    BY <1>3 DEF Word
  <2>2. made \in Seq(Respelling) /\ (made # <<>> => made[1].to \in Spellings)
    BY <2>1, RuleNames, Respellings
  <2>3. made # <<>> => low \in Word
    BY <1>3, <2>2, WordTypes
  <2>4. Language = "LATIN" /\ made # <<>> => Lowered(Top.kept, low, request)
    <3>1. made # <<>> => made[1] \in Elements(made)
      <4>1. made # <<>> => 1 \in DOMAIN made
        BY <2>2
      <4> QED BY <4>1 DEF Elements
    <3> QED BY <1>3, <3>1 DEF Lowered, Language
  <2>5. lower \in Word /\ (lower = Top.kept \/ Lowered(Top.kept, lower, request))
    <3> HIDE DEF made, low
    <3> QED BY <1>3, <2>3, <2>4
  <2> HIDE DEF lower
  <2>6. lower.spelling \in Spellings
    BY <2>5 DEF Word
  <2>7. plan \in Seq(Respelling)
    BY <2>6, RuleNames, Respellings
  <2> HIDE DEF plan
  <2>8. f \in Frames /\ f.proc = "crasis" /\ f.kept = Top.kept /\ f.stage = 1
        /\ f.own = lower
    BY <1>1, <1>3, <2>5, <2>7 DEF Frames
  <2> HIDE DEF f
  <2> QED BY <1>1, <1>3, <1>5, <2>5, <2>8, CrasisStays
<1> QED BY <1>2, <1>4, <1>5

\* tests a crasis on a copy of the word, or returns,
LEMMA StepTestCrasis ==
  ASSUME SearchInv, TestCrasis
  PROVE  SearchInv' /\ HandsBack
<1> DEFINE q == Head(Top.plan)
           w == [word EXCEPT !.spelling = q.to, !.dialect = @ \cup q.dialect]
<1>1. /\ stack # <<>> /\ Top.proc = "crasis" /\ Top.stage = 1 /\ ret = "none"
      /\ library' = library /\ request' = request /\ anals' = anals
  BY DEF TestCrasis
<1>2. Return(Top.found, word) \/ (Top.plan # <<>> /\ Push(Top, "three", w))
  BY DEF TestCrasis
<1>3. /\ Frozen /\ Top \in Frames /\ FrameRight(Top, request) /\ word \in Word
      /\ word = Top.own /\ Like(word, Top.kept) /\ Top.found \in BOOLEAN
      /\ word = Top.kept \/ Lowered(Top.kept, word, request)
      /\ Top.plan \in Seq(Respelling)
  BY <1>1, CrasisWord, Begins DEF Frozen
<1>4. CASE Return(Top.found, word)
  <2> DEFINE v == Top.found
  <2>1. v \in BOOLEAN /\ Return(v, word)
    BY <1>3, <1>4
  <2>2. GivesBack(Top, word, request)
    BY <1>1, <1>3 DEF GivesBack
  <2> HIDE DEF v
  <2> QED BY <1>1, <1>3, <2>1, <2>2, ReturnStep
<1>5. CASE Top.plan # <<>> /\ Push(Top, "three", w)
  <2>1. q \in Respelling
    BY <1>3, <1>5
  <2>2. q.to \in Spellings /\ q.dialect \in SUBSET Dialects
    BY <2>1 DEF Respelling
  <2> HIDE DEF q
  <2>3. /\ w \in Word /\ w.dialect = word.dialect \cup q.dialect
        /\ w.flags = word.flags /\ w.stem = word.stem
    BY <1>3, <2>2 DEF Word
  <2> HIDE DEF w
  <2>4. CallsProc(Top, "three") /\ Hands(Top, w, request)
    BY <1>1, <1>3, <1>5, <2>3 DEF CallsProc, Hands, Like, q
  <2>5. FrameRight(Frame("three", w), request) /\ Holds(Frame("three", w), w, request)
    BY DEF FrameRight, Holds, Frame, Like
  <2> QED BY <1>1, <1>3, <1>5, <2>3, <2>4, <2>5, PushStep DEF Procs
<1> QED BY <1>2, <1>4, <1>5

\* and goes on with the word of which it made the copy.
LEMMA StepTestCrasisBack ==
  ASSUME SearchInv, TestCrasisBack
  PROVE  SearchInv' /\ HandsBack
<1> DEFINE any == Top.found \/ ret = "yes"
           f == [Top EXCEPT !.plan = Tail(@), !.found = any]
           w == Top.own
<1>1. /\ stack # <<>> /\ Top.proc = "crasis" /\ ret # "none" /\ Stay(f, w)
      /\ library' = library /\ request' = request /\ anals' = anals
  BY DEF TestCrasisBack
<1>2. /\ Frozen /\ Top \in Frames /\ Top.own \in Word /\ Top.stage = 1
      /\ Top.own = Top.kept \/ Lowered(Top.kept, Top.own, request)
      /\ Top.plan \in Seq(Respelling) /\ Top.plan # <<>>
  BY <1>1, CrasisWord, Begins DEF Frozen
<1>3. any \in BOOLEAN
  BY <1>1, Begins, Zenon
<1>4. Tail(Top.plan) \in Seq(Respelling)
  BY <1>2
<1> HIDE DEF any
<1>5. f \in Frames /\ f.proc = "crasis" /\ f.kept = Top.kept /\ f.own = Top.own
      /\ f.stage = 1
  BY <1>1, <1>2, <1>3, <1>4 DEF Frames
<1>6. w \in Word /\ w = f.own
  BY <1>2, <1>5
<1> HIDE DEF f, w
<1>7. f.own = Top.kept \/ Lowered(Top.kept, f.own, request)
  BY <1>2, <1>5
<1> QED BY <1>1, <1>2, <1>5, <1>6, <1>7, CrasisStays

\* A search begins with one frame and a plain word.
LEMMA StartRight ==
  ASSUME request' \in Request, library' \subseteq Entry, anals' = {},
         word' = [spelling |-> request'.spelling, dialect |-> request'.dialect,
                  flags |-> {}, stem |-> {}],
         stack' = <<Frame("word", word')>>, ret' = "none"
  PROVE  SearchInv'
<1> DEFINE w == word'
           f == Frame("word", w)
<1>1. w \in Word /\ Unmarked(w, request')
  BY DEF Word, Unmarked, Request, Flags
<1>2. f \in Frames /\ f.proc = "word" /\ f.kept = w
  <2> HIDE DEF w
  <2> QED BY <1>1 DEF Frames, Frame, Procs
<1>3. stack' = <<f>>
  OBVIOUS
<1> HIDE DEF f
<1>4. /\ stack' \in Seq(Frames) /\ Len(stack') = 1 /\ stack'[1] = f
      /\ stack' # <<>> /\ Head(stack') = f
  BY <1>2, <1>3
<1>5. FrameRight(f, request') /\ Holds(f, w, request')
  <2> HIDE DEF w
  <2> QED BY <1>1, <1>2 DEF FrameRight, Holds
<1>6. TypeOK'
  BY <1>1, <1>4 DEF TypeOK
<1>7. Chain'
  <2>1. \A i \in 1 .. Len(stack') : FrameRight(stack'[i], request')
    BY <1>4, <1>5
  <2>2. 1 .. Len(stack') - 1 = {}
    BY <1>4
  <2>3. stack'[Len(stack')].proc = "word"
    BY <1>2, <1>4
  <2>4. ret' = "none" /\ Holds(Head(stack'), word', request')
    BY <1>4, <1>5
  <2> QED BY <2>1, <2>2, <2>3, <2>4, Zenon DEF Chain, Top
<1> QED BY <1>6, <1>7 DEF SearchInv

\* So does the first.
LEMMA SearchInit ==
  ASSUME Init
  PROVE  SearchInv
<1> DEFINE w == word
           f == Frame("word", w)
<1>0. request \in Request /\ library \subseteq Entry /\ anals = {} /\ ret = "none"
  BY Constants DEF Init, Language
<1>1. w \in Word /\ Unmarked(w, request)
  BY <1>0 DEF Word, Unmarked, Request, Flags, Init, Fresh
<1>2. f \in Frames /\ f.proc = "word" /\ f.kept = w
  <2> HIDE DEF w
  <2> QED BY <1>1 DEF Frames, Frame, Procs
<1>3. stack = <<f>>
  BY DEF Init
<1> HIDE DEF f
<1>4. /\ stack \in Seq(Frames) /\ Len(stack) = 1 /\ stack[1] = f
      /\ stack # <<>> /\ Head(stack) = f
  BY <1>2, <1>3
<1>5. FrameRight(f, request) /\ Holds(f, w, request)
  <2> HIDE DEF w
  <2> QED BY <1>1, <1>2 DEF FrameRight, Holds
<1>6. TypeOK
  BY <1>0, <1>1, <1>4 DEF TypeOK
<1>7. Chain
  <2>1. \A i \in 1 .. Len(stack) : FrameRight(stack[i], request)
    BY <1>4, <1>5
  <2>2. 1 .. Len(stack) - 1 = {}
    BY <1>4
  <2>3. stack[Len(stack)].proc = "word"
    BY <1>2, <1>4
  <2>4. ret = "none" /\ Holds(Head(stack), word, request)
    BY <1>0, <1>4, <1>5
  <2> QED BY <2>1, <2>2, <2>3, <2>4, Zenon DEF Chain, Top
<1> QED BY <1>6, <1>7 DEF SearchInv

\* The next word.
LEMMA StepBegin ==
  ASSUME SearchInv, NEW r \in Requests, Begin(r)
  PROVE  SearchInv' /\ HandsBack
<1>1. /\ request' \in Request /\ library' \subseteq Entry /\ anals' = {}
      /\ word' = [spelling |-> request'.spelling, dialect |-> request'.dialect,
                  flags |-> {}, stem |-> {}]
      /\ stack' = <<Frame("word", word')>> /\ ret' = "none"
  BY Constants DEF Begin, SearchInv, TypeOK
<1>2. stack = <<>>
  BY DEF Begin
<1> QED BY <1>1, <1>2, StartRight DEF HandsBack

\* Nothing changes.
LEMMA SearchStutter ==
  ASSUME SearchInv, UNCHANGED vars
  PROVE  SearchInv' /\ HandsBack
<1>1. /\ library' = library /\ request' = request /\ word' = word
      /\ anals' = anals /\ stack' = stack /\ ret' = ret
  BY DEF vars
<1>2. TypeOK'
  BY <1>1 DEF TypeOK, SearchInv
<1>3. Chain'
  BY <1>1 DEF Chain, SearchInv, Top
<1>4. ~ (Len(stack') < Len(stack))
  BY <1>1 DEF SearchInv, TypeOK
<1> QED BY <1>2, <1>3, <1>4 DEF SearchInv, HandsBack

\* Every step keeps the invariant, and hands back what HandedBack says.
LEMMA SearchStep ==
  ASSUME SearchInv, [Next]_vars
  PROVE  SearchInv' /\ HandsBack
<1>1. CASE Step
  BY <1>1, StepWordAgain, StepWordEnds, StepOne, StepTwo, StepTwoCrasis, StepTwoIonic,
     StepTwoPoetic, StepTwoEnds, StepThreePlain, StepThreeLower, StepThreeRespell,
     StepThreeBack, StepThreeNext, StepApostr, StepApostrBack, StepApostrNext,
     StepCrasis, StepTestCrasis, StepTestCrasisBack DEF Step
<1>2. CASE \E r \in Requests : Begin(r)
  BY <1>2, StepBegin
<1>3. CASE UNCHANGED vars
  BY <1>3, SearchStutter
<1> QED BY <1>1, <1>2, <1>3 DEF Next

\* Type correctness of the search: every respelling that is tried is a word
\* again, and what is found is in the stem library (checkstring.c).
THEOREM SearchTyped == Spec => []TypeOK
<1>1. SearchInv => TypeOK
  BY DEF SearchInv
<1> QED BY <1>1, SearchInit, SearchStep, PTL DEF Spec

\* HandedBack: checkstring3 and checkapostr return the word as they were given
\* it, on every path out and however deep they are nested; checkstring2 and
\* checkcrasis too, but for the lower case that checkcrasis leaves in Latin.
THEOREM SearchHandsBack == Spec => HandedBack
<1>1. HandsBack =>
        (stack # <<>> /\ Len(stack') < Len(stack) =>
           CASE Top.proc \in {"three", "apostr"} -> word' = Top.kept
             [] Top.proc \in {"two", "crasis"} ->
                  \/ word' = Top.kept
                  \/ /\ Language = "LATIN"
                     /\ word' \in {Spelt(Top.kept, q.to) :
                          q \in Elements(Respelled["lowered"][Top.kept.spelling])}
             [] OTHER -> TRUE)
  BY DEF HandsBack, Lowered, Language
<1> QED BY <1>1, SearchInit, SearchStep, PTL DEF Spec, HandedBack

----------------------------------------------------------------------------
(* Licence.                                                                *)

\* What the frames from the k-th outwards stand for.
Passing(k, T) == \E i \in 1 .. Len(stack) :
                   i >= k /\ stack[i].proc = "two" /\ stack[i].stage \in T
Eliding(k) == \E i \in 1 .. Len(stack) :
                /\ i >= k /\ stack[i].proc = "apostr"
                /\ stack[i].plan # <<>> /\ stack[i].stage = 3
Undoing(k, x) == \E i \in 1 .. Len(stack) :
                   /\ i >= k /\ stack[i].proc = "crasis"
                   /\ stack[i].plan # <<>> /\ x \in Head(stack[i].plan).dialect

\* The word w is licensed to what they stand for, and to no more.
Scoped(w, k) ==
  /\ "UNAUGMENTED" \in w.stem <=> Passing(k, 3 .. 6)
  /\ "UNAUGMENTED" \in w.flags <=> Passing(k, 3 .. 6)
  /\ "POETIC" \in w.flags <=> Passing(k, {5, 6}) \/ Eliding(k)
  /\ \A x : x \in w.dialect <=> \/ x \in request.dialect
                                \/ Undoing(k, x)
                                \/ Passing(k, {3, 4}) /\ x \in {"ionic", "epic"}

\* One more frame: the i-th.
LEMMA OneFrame ==
  ASSUME NEW i \in 1 .. Len(stack), stack \in Seq(Frames)
  PROVE  /\ \A T : Passing(i, T) <=> \/ Passing(i + 1, T)
                                     \/ stack[i].proc = "two" /\ stack[i].stage \in T
         /\ Eliding(i) <=> \/ Eliding(i + 1)
                           \/ /\ stack[i].proc = "apostr"
                              /\ stack[i].plan # <<>> /\ stack[i].stage = 3
         /\ \A x : Undoing(i, x) <=> \/ Undoing(i + 1, x)
                                     \/ /\ stack[i].proc = "crasis"
                                        /\ stack[i].plan # <<>>
                                        /\ x \in Head(stack[i].plan).dialect
<1>1. \A j \in 1 .. Len(stack) : j >= i <=> j >= i + 1 \/ j = i
  OBVIOUS
<1>2. ASSUME NEW T
      PROVE  Passing(i, T) <=>
               (Passing(i + 1, T) \/ (stack[i].proc = "two" /\ stack[i].stage \in T))
  <2> DEFINE P(j) == stack[j].proc = "two" /\ stack[j].stage \in T
  <2>1. Passing(i, T) <=> \E j \in 1 .. Len(stack) : j >= i /\ P(j)
    BY DEF Passing
  <2>2. Passing(i + 1, T) <=> \E j \in 1 .. Len(stack) : j >= i + 1 /\ P(j)
    BY DEF Passing
  <2> HIDE DEF P
  <2>3. Passing(i, T) <=> (Passing(i + 1, T) \/ P(i))
    BY <1>1, <2>1, <2>2
  <2> QED BY <2>3 DEF P
<1>3. Eliding(i) <=>
        (Eliding(i + 1) \/ (/\ stack[i].proc = "apostr"
                            /\ stack[i].plan # <<>> /\ stack[i].stage = 3))
  BY <1>1, Zenon DEF Eliding
<1>4. ASSUME NEW x
      PROVE  Undoing(i, x) <=>
               (Undoing(i + 1, x) \/ (/\ stack[i].proc = "crasis"
                                      /\ stack[i].plan # <<>>
                                      /\ x \in Head(stack[i].plan).dialect))
  BY <1>1, Zenon DEF Undoing
<1> QED BY <1>2, <1>3, <1>4, Zenon

\* Words of the same dialect and flags are licensed to the same.
LEMMA ScopedLike ==
  ASSUME NEW v, NEW w, NEW k, Like(w, v), Scoped(v, k)
  PROVE  Scoped(w, k)
BY DEF Like, Scoped

\* A frame licenses the words it hands on to what it stands for.
LEMMA ScopeStep ==
  ASSUME stack \in Seq(Frames), NEW i \in 1 .. Len(stack),
         FrameRight(stack[i], request), stack[i].proc # "word",
         Scoped(stack[i].kept, i + 1),
         NEW w \in Word, Gets(stack[i], w, request)
  PROVE  Scoped(w, i)
<1> DEFINE f == stack[i]
<1>1. f \in Frames /\ f.kept \in Word
  <2>1. f \in Frames
    OBVIOUS
  <2> HIDE DEF f
  <2> QED BY <2>1 DEF Frames
<1> USE DEF Scoped
<1>2. CASE f.proc \in {"one", "three"}
  <2>1. Like(w, f.kept)
    BY <1>2 DEF Gets, Hands
  <2>2. Scoped(f.kept, i)
    BY <1>2, OneFrame
  <2> QED BY <2>1, <2>2, ScopedLike
<1>3. CASE f.proc = "apostr"
  <2>1. /\ f.plan # <<>> /\ w.dialect = f.kept.dialect /\ w.stem = f.kept.stem
        /\ w.flags = IF f.stage = 3 THEN f.kept.flags \cup {"POETIC"} ELSE f.kept.flags
    BY <1>3 DEF Gets, Hands
  <2>2. /\ \A T : Passing(i, T) <=> Passing(i + 1, T)
        /\ Eliding(i) <=> Eliding(i + 1) \/ f.stage = 3
        /\ \A x : Undoing(i, x) <=> Undoing(i + 1, x)
    BY <1>3, <2>1, OneFrame
  <2> HIDE DEF f
  <2> QED BY <2>1, <2>2 DEF f
<1>4. CASE f.proc = "crasis"
  <2>1. /\ f.plan # <<>> /\ w.flags = f.kept.flags /\ w.stem = f.kept.stem
        /\ w.dialect = f.kept.dialect \cup Head(f.plan).dialect
    BY <1>4 DEF Gets, Hands
  <2>2. /\ \A T : Passing(i, T) <=> Passing(i + 1, T)
        /\ Eliding(i) <=> Eliding(i + 1)
        /\ \A x : Undoing(i, x) <=> Undoing(i + 1, x) \/ x \in Head(f.plan).dialect
    BY <1>4, <2>1, OneFrame
  <2> QED BY <2>1, <2>2
<1>5. CASE f.proc = "two"
  <2>1. Unmarked(f.kept, request) /\ f.stage \in 0 .. 6
    BY <1>5 DEF FrameRight
  <2>2. \/ f.stage \in {1, 2} /\ Like(w, f.kept)
        \/ f.stage \in {3, 4} /\ w = Ionic(f.kept)
        \/ f.stage \in {5, 6} /\ w = Poetic(f.kept)
    BY <1>1, <1>5 DEF Gets, Hands, Lowered, Like, Spelt, Word
  <2>3. /\ ~ Passing(i + 1, 3 .. 6) /\ ~ Passing(i + 1, {5, 6}) /\ ~ Eliding(i + 1)
        /\ \A x : Undoing(i + 1, x) => x \in request.dialect
    <3>1. f.kept.dialect = request.dialect /\ f.kept.flags = {} /\ f.kept.stem = {}
      BY <2>1 DEF Unmarked
    <3>2. Scoped(f.kept, i + 1)
      OBVIOUS
    <3> HIDE DEF f
    <3>3. ~ Passing(i + 1, 3 .. 6) /\ ~ Passing(i + 1, {5, 6}) /\ ~ Eliding(i + 1)
      BY <3>1, <3>2
    <3>4. \A x : x \in f.kept.dialect <=>
                   \/ x \in request.dialect
                   \/ Undoing(i + 1, x)
                   \/ Passing(i + 1, {3, 4}) /\ x \in {"ionic", "epic"}
      BY <3>2, Zenon
    <3>5. \A x : x \in f.kept.dialect <=> x \in request.dialect
      BY <3>1
    <3> QED BY <3>3, <3>4, <3>5
  <2>4. ~ Passing(i + 1, {3, 4})
    <3>1. Passing(i + 1, {3, 4}) => Passing(i + 1, 3 .. 6)
      BY DEF Passing
    <3> QED BY <2>3, <3>1
  <2>5. /\ Passing(i, 3 .. 6) <=> f.stage \in 3 .. 6
        /\ Passing(i, {3, 4}) <=> f.stage \in {3, 4}
        /\ Passing(i, {5, 6}) <=> f.stage \in {5, 6}
        /\ ~ Eliding(i)
        /\ \A x : Undoing(i, x) <=> Undoing(i + 1, x)
    BY <1>5, <2>3, <2>4, OneFrame
  <2>6. CASE f.stage \in {1, 2} /\ Like(w, f.kept)
    BY <2>1, <2>3, <2>4, <2>5, <2>6 DEF Like, Unmarked
  <2>7. CASE f.stage \in {3, 4} /\ w = Ionic(f.kept)
    <3>1. /\ w.dialect = f.kept.dialect \cup {"ionic", "epic"}
          /\ w.flags = {"UNAUGMENTED"} /\ w.stem = {"UNAUGMENTED"}
      BY <1>1, <2>1, <2>7 DEF Ionic, Word, Unmarked
    <3> QED BY <2>1, <2>3, <2>4, <2>5, <2>7, <3>1 DEF Unmarked
  <2>8. CASE f.stage \in {5, 6} /\ w = Poetic(f.kept)
    <3>1. /\ w.dialect = f.kept.dialect
          /\ w.flags = {"UNAUGMENTED", "POETIC"} /\ w.stem = {"UNAUGMENTED"}
      BY <1>1, <2>1, <2>8 DEF Poetic, Word, Unmarked
    <3> QED BY <2>1, <2>3, <2>4, <2>5, <2>8, <3>1 DEF Unmarked
  <2> QED BY <2>2, <2>6, <2>7, <2>8
<1> QED BY <1>1, <1>2, <1>3, <1>4, <1>5 DEF Frames, Procs

\* Only the outermost frame is one of morpheus_check_word.
LEMMA WordOutermost ==
  ASSUME SearchInv, NEW i \in 1 .. Len(stack), stack[i].proc = "word"
  PROVE  i = Len(stack)
<1> SUFFICES ASSUME i # Len(stack) PROVE FALSE
  OBVIOUS
<1>1. Len(stack) \in Nat
  BY DEF SearchInv, TypeOK
<1>2. i \in 1 .. Len(stack) - 1
  BY <1>1
<1>3. CallsProc(stack[i + 1], stack[i].proc)
  BY <1>2 DEF SearchInv, Chain
<1> QED BY <1>3 DEF CallsProc

\* Outside every frame there is nothing to license.
LEMMA Outermost ==
  ASSUME SearchInv, NEW k, k \in Nat, k >= Len(stack), NEW w, Unmarked(w, request)
  PROVE  Scoped(w, k)
<1>1. Len(stack) \in Nat
  BY DEF SearchInv, TypeOK
<1>2. \A i \in 1 .. Len(stack) : i >= k => stack[i].proc = "word"
  <2> SUFFICES ASSUME NEW i \in 1 .. Len(stack), i >= k PROVE stack[i].proc = "word"
    OBVIOUS
  <2>1. i = Len(stack) /\ stack # <<>>
    BY <1>1
  <2> QED BY <2>1 DEF SearchInv, Chain
<1>3. /\ \A T : ~ Passing(k, T)
      /\ ~ Eliding(k)
      /\ \A x : ~ Undoing(k, x)
  BY <1>2 DEF Passing, Eliding, Undoing
<1> QED BY <1>3 DEF Scoped, Unmarked

\* Every function was given a word that is licensed to what its callers
\* stand for.
LEMMA CalledInScope ==
  ASSUME SearchInv
  PROVE  \A i \in 1 .. Len(stack) - 1 : Scoped(stack[i].kept, i + 1)
<1> DEFINE n == Len(stack)
           T == {k \in Nat : k < n - 1 /\ ~ Scoped(stack[n - 1 - k].kept, n - k)}
<1>1. n \in Nat /\ stack \in Seq(Frames)
  BY DEF SearchInv, TypeOK
<1>2. T = {}
  <2> SUFFICES ASSUME T # {} PROVE FALSE
    OBVIOUS
  <2>1. T \subseteq Nat
    OBVIOUS
  <2>2. PICK k \in T : \A j \in T : k <= j
    <3> HIDE DEF T
    <3> QED BY <2>1, Least
  <2>3. k \in Nat /\ k < n - 1 /\ ~ Scoped(stack[n - 1 - k].kept, n - k)
    BY <2>2
  <2>4. k - 1 \notin T
    <3> HIDE DEF T
    <3> QED BY <2>2, <2>3
  <2> DEFINE i == n - k
  <2>5. i \in Nat /\ i \in 2 .. n /\ i - 1 \in 1 .. n - 1 /\ n - 1 - k = i - 1
    BY <1>1, <2>3
  <2> HIDE DEF T, n
  <2>6. /\ stack[i] \in Frames /\ FrameRight(stack[i], request)
        /\ Hands(stack[i], stack[i - 1].kept, request)
        /\ stack[i - 1].kept \in Word
    <3>1. i \in 1 .. n /\ (i - 1) + 1 = i /\ i - 1 \in 1 .. n
      BY <1>1, <2>5
    <3>2. stack[i] \in Frames /\ stack[i - 1] \in Frames
      BY <1>1, <3>1, ElementTyped DEF n
    <3>3. FrameRight(stack[i], request) /\ Hands(stack[(i - 1) + 1], stack[i - 1].kept, request)
      BY <2>5, <3>1 DEF SearchInv, Chain, n
    <3>4. stack[i - 1].kept \in Word
      BY <3>2 DEF Frames
    <3> QED BY <3>1, <3>2, <3>3, <3>4
  <2>7. CASE i = n
    <3>1. stack[n].proc = "word"
      <4>1. stack # <<>>
        BY <1>1, <2>5 DEF n
      <4> QED BY <4>1 DEF SearchInv, Chain, n
    <3>2. Unmarked(stack[i - 1].kept, request)
      BY <2>6, <2>7, <3>1 DEF Hands
    <3>3. Scoped(stack[i - 1].kept, i)
      <4>1. i \in Nat /\ i >= Len(stack)
        BY <1>1, <2>5, <2>7 DEF n
      <4> QED BY <3>2, <4>1, Outermost
    <3> QED BY <2>3, <2>5, <3>3
  <2>8. CASE i # n
    <3>1. k - 1 \in Nat /\ k - 1 < n - 1 /\ n - 1 - (k - 1) = i /\ n - (k - 1) = i + 1
      BY <1>1, <2>3, <2>5, <2>8
    <3>2. Scoped(stack[i].kept, i + 1)
      BY <2>4, <3>1 DEF T
    <3>3. stack[i].proc # "word" /\ i \in 1 .. Len(stack)
      BY <1>1, <2>5, <2>8, WordOutermost DEF n
    <3>4. Gets(stack[i], stack[i - 1].kept, request)
      BY <2>6 DEF Gets
    <3>5. Scoped(stack[i - 1].kept, i)
      <4> DEFINE w == stack[i - 1].kept
      <4>1. w \in Word /\ Gets(stack[i], w, request)
        BY <2>6, <3>4
      <4> HIDE DEF w, i
      <4>2. Scoped(w, i)
        BY <1>1, <2>6, <3>2, <3>3, <4>1, ScopeStep
      <4> QED BY <4>2 DEF w
    <3> QED BY <2>3, <2>5, <3>5
  <2> QED BY <2>7, <2>8
<1>3. ASSUME NEW i \in 1 .. Len(stack) - 1 PROVE Scoped(stack[i].kept, i + 1)
  <2> DEFINE k == n - 1 - i
  <2>1. k \in Nat /\ k < n - 1 /\ n - 1 - k = i /\ n - k = i + 1
    BY <1>1
  <2>2. k \notin T
    BY <1>2
  <2> HIDE DEF k, n
  <2> QED BY <2>1, <2>2
<1> QED BY <1>3

\* The word at hand is licensed to the frames that wait for a call.
LEMMA WordInScope ==
  ASSUME SearchInv, stack # <<>>
  PROVE  IF ret = "none" THEN Scoped(word, 2) ELSE Scoped(word, 1)
<1>1. /\ stack \in Seq(Frames) /\ Len(stack) \in Nat \ {0} /\ Top = stack[1]
      /\ word \in Word /\ Top \in Frames /\ FrameRight(Top, request)
      /\ ret = "none" => Holds(Top, word, request)
      /\ ret # "none" => Gets(Top, word, request)
  <2>1. Top = stack[1]
    BY CallerCalls
  <2> QED BY <2>1, Begins DEF SearchInv, TypeOK
<1>2. CASE Len(stack) = 1
  <2>1. Top.proc = "word"
    BY <1>2, CallerCalls
  <2>2. Unmarked(word, request)
    BY <1>1, <2>1 DEF Holds, Gets, Hands
  <2>3. Scoped(word, 1) /\ Scoped(word, 2)
    BY <1>2, <2>2, Outermost
  <2> QED BY <2>3
<1>3. CASE Len(stack) # 1
  <2>1. 1 \in 1 .. Len(stack) - 1
    BY <1>1, <1>3, OneOrMore
  <2>2. Scoped(stack[1].kept, 1 + 1)
    BY <2>1, CalledInScope
  <2>3. Scoped(Top.kept, 2)
    BY <1>1, <2>2
  <2>4. Top.proc # "word"
    <3>1. CallsProc(Caller, Top.proc)
      BY <1>3, CallerCalls
    <3> QED BY <3>1 DEF CallsProc
  <2>5. CASE ret = "none"
    <3>1. Like(word, Top.kept)
      <4>1. CASE Top.proc = "crasis"
        BY <1>1, <2>5, <4>1, CrasisWord DEF Like
      <4>2. CASE Top.proc # "crasis"
        BY <1>1, <2>4, <2>5, <4>2 DEF Holds, Like
      <4> QED BY <4>1, <4>2
    <3> QED BY <2>3, <2>5, <3>1, ScopedLike
  <2>6. CASE ret # "none"
    <3>1. 1 \in 1 .. Len(stack)
      BY <1>1
    <3>2. Scoped(word, 1)
      BY <1>1, <2>2, <2>4, <2>6, <3>1, ScopeStep
    <3> QED BY <2>6, <3>2
  <2> QED BY <2>5, <2>6
<1> QED BY <1>2, <1>3

\* The invariant says what LicenceScoped says.
LEMMA InScope ==
  ASSUME SearchInv
  PROVE  LicenceScoped
<1> SUFFICES ASSUME stack # <<>> PROVE LicenceScoped
  BY DEF LicenceScoped
<1> DEFINE pass   == {stack[i].stage : i \in Active("two")}
           inner  == {i \in DOMAIN stack : i > 1 \/ ret # "none"}
           calls  == {i \in inner : stack[i].plan # <<>>}
           elided == \E i \in Active("apostr") \cap calls : stack[i].stage = 3
           undone == UNION {Head(stack[i].plan).dialect :
                              i \in Active("crasis") \cap calls}
           k == IF ret = "none" THEN 2 ELSE 1
<1>1. /\ stack \in Seq(Frames) /\ Len(stack) \in Nat /\ DOMAIN stack = 1 .. Len(stack)
      /\ Top = stack[1]
  BY CallerCalls DEF SearchInv, TypeOK
<1>2. Scoped(word, k)
  BY WordInScope
<1>3. \A i \in 1 .. Len(stack) : i \in inner <=> i >= k
  BY <1>1
<1>4. ret = "none" /\ Top.proc = "two" => Top.stage = 0
  BY Begins DEF Holds
<1>5. ASSUME NEW T, 0 \notin T PROVE (pass \cap T # {}) <=> Passing(k, T)
  <2>1. (pass \cap T # {}) <=>
          \E i \in 1 .. Len(stack) : stack[i].proc = "two" /\ stack[i].stage \in T
    BY <1>1 DEF Active
  <2>2. ASSUME NEW i \in 1 .. Len(stack), stack[i].proc = "two", stack[i].stage \in T
        PROVE  i >= k
    <3>1. CASE i = 1 /\ ret = "none"
      BY <1>1, <1>4, <1>5, <2>2, <3>1
    <3>2. CASE i # 1 \/ ret # "none"
      BY <1>1, <3>2
    <3> QED BY <3>1, <3>2
  <2> HIDE DEF pass, k
  <2> QED BY <2>1, <2>2, Zenon DEF Passing
<1>6. elided <=> Eliding(k)
  <2> HIDE DEF k, inner
  <2> QED BY <1>1, <1>3 DEF Active, Eliding
<1>7. \A x : x \in undone <=> Undoing(k, x)
  <2> HIDE DEF k, inner
  <2> QED BY <1>1, <1>3 DEF Active, Undoing
<1> HIDE DEF pass, inner, elided, undone, k
<1>8. /\ 0 \notin 3 .. 6 /\ 0 \notin {5, 6} /\ 0 \notin {3, 4}
  OBVIOUS
<1>9. /\ "UNAUGMENTED" \in word.stem <=> pass \cap (3 .. 6) # {}
      /\ "UNAUGMENTED" \in word.flags <=> pass \cap (3 .. 6) # {}
      /\ "POETIC" \in word.flags <=> (pass \cap {5, 6} # {} \/ elided)
  BY <1>2, <1>5, <1>6, <1>8, Zenon DEF Scoped
<1>10. word.dialect = request.dialect \cup undone \cup
                          (IF pass \cap {3, 4} # {} THEN {"ionic", "epic"} ELSE {})
  <2>1. \A x : x \in word.dialect <=>
                 (\/ x \in request.dialect
                  \/ x \in undone
                  \/ pass \cap {3, 4} # {} /\ x \in {"ionic", "epic"})
    BY <1>2, <1>5, <1>7, <1>8, Zenon DEF Scoped
  <2> QED BY <2>1
<1>11. /\ ("UNAUGMENTED" \in word.stem) = (pass \cap (3 .. 6) # {})
       /\ ("UNAUGMENTED" \in word.flags) = (pass \cap (3 .. 6) # {})
       /\ ("POETIC" \in word.flags) = (pass \cap {5, 6} # {} \/ elided)
  <2>1. ("UNAUGMENTED" \in word.stem) = (pass \cap (3 .. 6) # {})
    BY <1>9
  <2>2. ("UNAUGMENTED" \in word.flags) = (pass \cap (3 .. 6) # {})
    BY <1>9
  <2>3. ("POETIC" \in word.flags) = (pass \cap {5, 6} # {} \/ elided)
    BY <1>9
  <2> QED BY <2>1, <2>2, <2>3
<1> QED BY <1>10, <1>11, Zenon DEF LicenceScoped, pass, elided, undone, calls, inner

\* LicenceScoped: unaugmented and poetic forms and additional dialects are
\* allowed exactly while a pass of checkstring2, an elision of checkapostr or a
\* crasis of checkcrasis that allows them is active, and never longer.
THEOREM SearchScoped == Spec => []LicenceScoped
BY SearchInit, SearchStep, InScope, PTL DEF Spec

----------------------------------------------------------------------------
(* What the rules lead to.                                                 *)

Candidate == [spelling : Spellings, parts : SUBSET Parts, dialect : SUBSET Dialects]

\* One more respelling,
Further(f) == [s \in Spellings |-> f[s] \cup ByAll(Recursive, f[s])]
\* and n of them in a row, each of which may be left out.
Path(n, s, p) ==
  /\ p \in [0 .. n -> Candidate]
  /\ p[0] = Begun(s)
  /\ \A i \in 1 .. n : p[i] = p[i - 1] \/ p[i] \in By(Recursive, p[i - 1])

\* What the recursive rules are.
LEMMA RecursiveRules ==
  /\ Recursive \subseteq Rules
  /\ \A r \in Recursive : r # "crasis"
  /\ "crasis" \in Rules /\ "enclitic" \in Rules
BY DEF Recursive, Rules, Stages3, Elisions, Prodelisions, Breathings, Elements

\* A candidate is respelled as a candidate.
LEMMA ByTyped ==
  ASSUME NEW rules \in SUBSET Rules, NEW c \in Candidate
  PROVE  By(rules, c) \subseteq Candidate
<1> SUFFICES ASSUME NEW r \in rules, NEW q \in Elements(Respelled[r][c.spelling])
             PROVE  [spelling |-> q.to, parts |-> c.parts \cap q.accepts,
                     dialect |-> c.dialect \cup q.dialect] \in Candidate
  BY DEF By
<1>1. c.spelling \in Spellings /\ c.parts \in SUBSET Parts /\ c.dialect \in SUBSET Dialects
  BY DEF Candidate
<1>2. q \in Respelling
  <2>1. Respelled[r][c.spelling] \in Seq(Respelling)
    BY <1>1, Constants
  <2> QED BY <2>1 DEF Elements
<1> QED BY <1>1, <1>2 DEF Candidate, Respelling

\* A spelling is a candidate.
LEMMA BegunTyped ==
  \A s \in Spellings : Begun(s) \in Candidate
BY DEF Begun, Candidate

\* A path goes on by a respelling, or stays.
LEMMA Longer ==
  ASSUME NEW n \in Nat \ {0}, NEW s \in Spellings, NEW d
  PROVE  (\E p : Path(n, s, p) /\ p[n] = d) <=>
         (\E p : Path(n - 1, s, p) /\ (d = p[n - 1] \/ d \in By(Recursive, p[n - 1])))
<1>1. ASSUME NEW p, Path(n, s, p), p[n] = d
      PROVE  \E q : Path(n - 1, s, q) /\ (d = q[n - 1] \/ d \in By(Recursive, q[n - 1]))
  <2> DEFINE q == [i \in 0 .. n - 1 |-> p[i]]
  <2>1. q \in [0 .. n - 1 -> Candidate] /\ q[0] = Begun(s)
    BY <1>1 DEF Path
  <2>2. \A i \in 1 .. n - 1 : q[i] = p[i] /\ q[i - 1] = p[i - 1] /\ i \in 1 .. n
    OBVIOUS
  <2>3. q[n - 1] = p[n - 1] /\ n \in 1 .. n
    OBVIOUS
  <2> HIDE DEF q
  <2>4. Path(n - 1, s, q)
    BY <1>1, <2>1, <2>2 DEF Path
  <2>5. d = q[n - 1] \/ d \in By(Recursive, q[n - 1])
    BY <1>1, <2>3 DEF Path
  <2> QED BY <2>4, <2>5
<1>2. ASSUME NEW p, Path(n - 1, s, p), d = p[n - 1] \/ d \in By(Recursive, p[n - 1])
      PROVE  \E q : Path(n, s, q) /\ q[n] = d
  <2> DEFINE q == [i \in 0 .. n |-> IF i = n THEN d ELSE p[i]]
  <2>1. d \in Candidate
    <3>1. p[n - 1] \in Candidate
      BY <1>2 DEF Path
    <3> QED BY <1>2, <3>1, ByTyped, RecursiveRules
  <2>2. q \in [0 .. n -> Candidate] /\ q[0] = Begun(s) /\ q[n] = d
    BY <1>2, <2>1 DEF Path
  <2>3. ASSUME NEW i \in 1 .. n PROVE q[i] = q[i - 1] \/ q[i] \in By(Recursive, q[i - 1])
    <3>1. CASE i = n
      <4>1. q[i] = d /\ q[i - 1] = p[n - 1]
        BY <3>1
      <4> HIDE DEF q
      <4> QED BY <1>2, <4>1
    <3>2. CASE i # n
      <4>1. q[i] = p[i] /\ q[i - 1] = p[i - 1] /\ i \in 1 .. n - 1
        BY <3>2
      <4> HIDE DEF q
      <4> QED BY <1>2, <4>1 DEF Path
    <3> QED BY <3>1, <3>2
  <2> HIDE DEF q
  <2> QED BY <2>2, <2>3 DEF Path
<1> QED BY <1>1, <1>2

\* Searched is what its definition says it is: the ends of the paths.
LEMMA SearchedPaths ==
  /\ Searched[0] = [s \in Spellings |-> {Begun(s)}]
  /\ \A n \in Nat \ {0} : Searched[n] = Further(Searched[n - 1])
<1> DEFINE Body(g) == [n \in Nat |->
                         [s \in Spellings |->
                            IF n = 0 THEN {Begun(s)}
                            ELSE LET before == g[n - 1][s]
                                 IN  before \cup ByAll(Recursive, before)]]
           ends == [n \in Nat |-> [s \in Spellings |->
                      {d \in Candidate : \E p : Path(n, s, p) /\ p[n] = d}]]
<1>1. Searched = CHOOSE g : g = Body(g)
  BY DEF Searched
<1>2. ASSUME NEW n \in Nat, NEW s \in Spellings
      PROVE  ends[n][s] = Body(ends)[n][s]
  <2>1. CASE n = 0
    <3> DEFINE p0 == [i \in 0 .. 0 |-> Begun(s)]
    <3>1. p0 \in [0 .. 0 -> Candidate] /\ p0[0] = Begun(s)
      BY BegunTyped
    <3>2. \A i \in 1 .. 0 : FALSE
      OBVIOUS
    <3> HIDE DEF p0
    <3>3. Path(0, s, p0)
      BY <3>1, <3>2 DEF Path
    <3>4. \A d \in Candidate : (\E p : Path(0, s, p) /\ p[0] = d) <=> d = Begun(s)
      BY <3>1, <3>3 DEF Path
    <3>5. ends[0][s] = {Begun(s)}
      BY <3>4, BegunTyped
    <3>6. Body(ends)[0][s] = {Begun(s)}
      OBVIOUS
    <3> QED BY <2>1, <3>5, <3>6
  <2>2. CASE n # 0
    <3>1. n \in Nat \ {0} /\ n - 1 \in Nat
      BY <2>2
    <3>2. \A d : d \in ends[n - 1][s] <=>
                   d \in Candidate /\ \E p : Path(n - 1, s, p) /\ p[n - 1] = d
      BY <3>1
    <3>3. \A d : d \in ends[n][s] <=> d \in Candidate /\ \E p : Path(n, s, p) /\ p[n] = d
      OBVIOUS
    <3>4. Body(ends)[n][s] = ends[n - 1][s] \cup ByAll(Recursive, ends[n - 1][s])
      BY <2>2
    <3>5. \A p : Path(n - 1, s, p) => p[n - 1] \in Candidate
      BY <3>1 DEF Path
    <3> HIDE DEF ends, Body
    <3>6. \A d : d \in ByAll(Recursive, ends[n - 1][s]) <=>
                   \E p : Path(n - 1, s, p) /\ d \in By(Recursive, p[n - 1])
      BY <3>2, <3>5 DEF ByAll
    <3>7. \A d : d \in Body(ends)[n][s] <=>
                   \E p : /\ Path(n - 1, s, p)
                          /\ d = p[n - 1] \/ d \in By(Recursive, p[n - 1])
      BY <3>2, <3>4, <3>5, <3>6
    <3>8. \A d : d \in Body(ends)[n][s] => d \in Candidate
      <4>1. \A p : Path(n - 1, s, p) => By(Recursive, p[n - 1]) \subseteq Candidate
        BY <3>5, ByTyped, RecursiveRules
      <4> QED BY <3>5, <3>7, <4>1
    <3>9. \A d : d \in Body(ends)[n][s] <=> \E p : Path(n, s, p) /\ p[n] = d
      BY <3>1, <3>7, Longer
    <3> QED BY <3>3, <3>8, <3>9
  <2> QED BY <2>1, <2>2
<1>3. ends = Body(ends)
  <2>1. \A n \in Nat : ends[n] = Body(ends)[n]
    <3> TAKE n \in Nat
    <3> DEFINE a == ends[n]
               b == Body(ends)[n]
    <3>1. a = [s \in Spellings |-> a[s]] /\ b = [s \in Spellings |-> b[s]]
      OBVIOUS
    <3>2. \A s \in Spellings : a[s] = b[s]
      BY <1>2
    <3> HIDE DEF a, b
    <3>3. a = b
      BY <3>1, <3>2
    <3> QED BY <3>3 DEF a, b
  <2>2. ends = [n \in Nat |-> ends[n]] /\ Body(ends) = [n \in Nat |-> Body(ends)[n]]
    OBVIOUS
  <2> HIDE DEF ends, Body
  <2> QED BY <2>1, <2>2
<1>4. Searched = Body(Searched)
  <2> HIDE DEF Body
  <2> QED BY <1>1, <1>3
<1>5. \A n \in Nat : Searched[n] = Body(Searched)[n]
  BY <1>4
<1> QED
  <2>1. Searched[0] = [s \in Spellings |-> {Begun(s)}]
    BY <1>5
  <2>2. ASSUME NEW n \in Nat \ {0} PROVE Searched[n] = Further(Searched[n - 1])
    BY <1>5 DEF Further
  <2> QED BY <2>1, <2>2

\* The rules lead from s to t and leave the part of speech q.
Leads(q, s, t) == \E d \in Reached[s] : /\ d.spelling = t /\ q \in d.parts
                                        /\ d.dialect = {}

\* The word w asks for what r asks for, with d added, in some pass.
Licensed(w, d, r) ==
  \/ "UNAUGMENTED" \notin w.stem /\ w.dialect = r.dialect \cup d
  \/ /\ r.language = "GREEK" /\ WantsIonic(r) /\ "UNAUGMENTED" \in w.stem
     /\ \/ w.dialect = r.dialect \cup d \cup {"ionic", "epic"}
        \/ w.dialect = r.dialect \cup d /\ r.dialect \cap {"ionic", "prose"} = {}

\* An analysis of w as q is an answer to r.
Sound(w, q, r) ==
  \E c \in Undone(r) : /\ Leads(q, c.spelling, w.spelling)
                       /\ q \in c.parts /\ Licensed(w, c.dialect, r)

\* The frame f strikes off what is found as q: enclitic is the fourth rule.
Strikes(f, q) == f.proc = "three" /\ f.stage = 4 /\ q \notin Head(f.plan).accepts

\* The word of a frame, and those it is going to try, are right for q.
Rightly(f, q, r) ==
  /\ f.proc = "one" => \E c \in Started(r) : c.spelling = f.own.spelling
  /\ f.proc = "two" => /\ \E c \in Wholes(r) : c.spelling = f.kept.spelling
                       /\ f.stage > 2 => WantsIonic(r)
                       /\ f.stage > 4 => r.dialect \cap {"ionic", "prose"} = {}
  /\ f.proc = "crasis" =>
       /\ f.stage = 0 => \E c \in Wholes(r) : c.spelling = f.kept.spelling
       /\ f.stage # 0 => \E c \in Lows(r) : c.spelling = f.own.spelling
       /\ Licensed(f.own, {}, r)
       /\ f.plan # <<>> => ~r.nocrasis
       /\ Elements(f.plan) \subseteq Elements(Respelled["crasis"][f.own.spelling])
  /\ f.proc \in {"three", "apostr"} => Sound(f.own, q, r)
  /\ f.proc = "three" => f.stage \in 0 .. Len(Stages3[r.language])
  /\ f.proc = "three" /\ f.stage = 2 =>
       /\ f.plan # <<>> => ~r.strict
       /\ Elements(f.plan) \subseteq Elements(Respelled["lower"][f.own.spelling])
  /\ f.proc = "apostr" \/ (f.proc = "three" /\ f.stage # 2) =>
       \A x \in Elements(f.plan) :
         \/ f.proc = "three" /\ f.stage = 4 /\ q \notin x.accepts
         \/ Sound(Spelt(f.own, x.to), q, r)

\* Some frame from the k-th outwards strikes off what is found as q.
Struck(k, q) == \E j \in 1 .. Len(stack) : j >= k /\ Strikes(stack[j], q)
\* The innermost frame that waits for a call.
Waiting == IF ret = "none" THEN 2 ELSE 1

FramesSound ==
  \A k \in 1 .. Len(stack) : \A q \in Parts :
    Struck(k + 1, q) \/ Rightly(stack[k], q, request)
\* checkstring3 tries the lower-case spellings on the word at hand.
Lowering(f) == f.stage = 2 /\ f.plan # <<>>
WordSound ==
  stack # <<>> =>
    /\ Top.proc = "one" /\ ret = "none" => word = Top.own
    /\ Top.proc = "three" =>
         \A q \in Parts : \/ Struck(Waiting, q)
                          \/ ret = "none" /\ Lowering(Top)
                          \/ Sound(word, q, request)
AnalsSound == \A e \in anals : Struck(Waiting, e.part) \/ e \in Answers(request)

\* What holds at first and after each turn if it did before it holds always.
LEMMA Upwards ==
  ASSUME NEW N \in Nat, NEW A, 0 \in A, \A n \in 1 .. N : n - 1 \in A => n \in A
  PROVE  \A n \in 0 .. N : n \in A
<1> DEFINE T == {n \in 0 .. N : n \notin A}
<1> SUFFICES ASSUME T # {} PROVE FALSE
  OBVIOUS
<1>1. T \subseteq Nat
  OBVIOUS
<1>2. PICK m \in T : \A y \in T : m <= y
  <2> HIDE DEF T
  <2> QED BY <1>1, Least
<1>3. m \in 1 .. N /\ m - 1 \in 0 .. N /\ m - 1 \notin T /\ m \notin A
  BY <1>2
<1> QED BY <1>3

\* What is searched are candidates.
LEMMA SearchedTyped ==
  \A n \in Nat : \A s \in Spellings : Searched[n][s] \subseteq Candidate
<1> SUFFICES ASSUME NEW N \in Nat
             PROVE  \A s \in Spellings : Searched[N][s] \subseteq Candidate
  OBVIOUS
<1> DEFINE A == {n \in 0 .. N : \A s \in Spellings : Searched[n][s] \subseteq Candidate}
<1>1. 0 \in A
  BY SearchedPaths, BegunTyped
<1>2. ASSUME NEW n \in 1 .. N, n - 1 \in A PROVE n \in A
  <2>1. Searched[n] = Further(Searched[n - 1])
    BY SearchedPaths
  <2>2. ASSUME NEW s \in Spellings PROVE Searched[n][s] \subseteq Candidate
    <3>1. Searched[n][s] = Searched[n - 1][s] \cup ByAll(Recursive, Searched[n - 1][s])
      BY <2>1 DEF Further
    <3>2. Searched[n - 1][s] \subseteq Candidate
      BY <1>2
    <3>3. \A c \in Searched[n - 1][s] : By(Recursive, c) \subseteq Candidate
      BY <3>2, ByTyped, RecursiveRules
    <3> QED BY <3>1, <3>2, <3>3 DEF ByAll
  <2> QED BY <2>2
<1> HIDE DEF A
<1>3. \A n \in 0 .. N : n \in A
  BY <1>1, <1>2, Upwards
<1> QED BY <1>3 DEF A

\* The spellings that n respellings lead to from s, and that leave q.
Led(n, s, q) == {t \in Spellings : \E d \in Searched[n][s] :
                    d.spelling = t /\ q \in d.parts /\ d.dialect = {}}
\* One respelling that leaves q.
Respells(q, t, u) == \E r \in Recursive : \E x \in Elements(Respelled[r][t]) :
                        u = x.to /\ q \in x.accepts

\* A respelling of a spelling is a spelling.
LEMMA RespellsTyped ==
  ASSUME NEW q, NEW t \in Spellings, NEW u, Respells(q, t, u)
  PROVE  u \in Spellings
<1>1. PICK r \in Recursive : \E x \in Elements(Respelled[r][t]) : u = x.to
  BY DEF Respells
<1>4. PICK x \in Elements(Respelled[r][t]) : u = x.to
  BY <1>1
<1>2. Respelled[r][t] \in Seq(Respelling)
  BY RecursiveRules, Constants
<1>3. x \in Respelling
  BY <1>2 DEF Elements
<1> QED BY <1>3, <1>4 DEF Respelling

\* No respelling leads to the spelling itself.
LEMMA LedFirst ==
  ASSUME NEW s \in Spellings, NEW q \in Parts
  PROVE  s \in Led(0, s, q)
<1>1. Begun(s) \in Searched[0][s]
  BY SearchedPaths
<1>2. Begun(s).spelling = s /\ q \in Begun(s).parts /\ Begun(s).dialect = {}
  BY DEF Begun
<1> QED BY <1>1, <1>2 DEF Led

\* Each respelling leads one further, and to nothing else.
LEMMA LedFurther ==
  ASSUME NEW n \in Nat, NEW s \in Spellings, NEW q \in Parts
  PROVE  \A u \in Spellings : u \in Led(n + 1, s, q) <=>
           u \in Led(n, s, q) \/ \E t \in Led(n, s, q) : Respells(q, t, u)
<1>1. Searched[n + 1][s] = Searched[n][s] \cup ByAll(Recursive, Searched[n][s])
  <2>1. n + 1 \in Nat \ {0} /\ (n + 1) - 1 = n
    OBVIOUS
  <2>2. Searched[n + 1] = Further(Searched[n])
    BY <2>1, SearchedPaths
  <2> QED BY <2>2 DEF Further
<1>2. ASSUME NEW u \in Spellings, u \in Led(n + 1, s, q)
      PROVE  u \in Led(n, s, q) \/ \E t \in Led(n, s, q) : Respells(q, t, u)
  <2>1. PICK d \in Searched[n + 1][s] : d.spelling = u /\ q \in d.parts /\ d.dialect = {}
    BY <1>2 DEF Led
  <2>2. CASE d \in Searched[n][s]
    BY <2>1, <2>2 DEF Led
  <2>3. CASE d \in ByAll(Recursive, Searched[n][s])
    <3>1. PICK c \in Searched[n][s] : d \in By(Recursive, c)
      BY <2>3 DEF ByAll
    <3>0. PICK r \in Recursive : \E x \in Elements(Respelled[r][c.spelling]) :
            d = [spelling |-> x.to, parts |-> c.parts \cap x.accepts,
                 dialect |-> c.dialect \cup x.dialect]
      BY <3>1 DEF By
    <3>2. PICK x \in Elements(Respelled[r][c.spelling]) :
            d = [spelling |-> x.to, parts |-> c.parts \cap x.accepts,
                 dialect |-> c.dialect \cup x.dialect]
      BY <3>0
    <3>3. /\ u = x.to /\ q \in c.parts /\ q \in x.accepts /\ c.dialect = {}
      BY <2>1, <3>2
    <3>4. c.spelling \in Spellings
      BY <3>1, SearchedTyped DEF Candidate
    <3>5. c.spelling \in Led(n, s, q)
      BY <3>1, <3>3, <3>4 DEF Led
    <3>6. Respells(q, c.spelling, u)
      BY <3>2, <3>3 DEF Respells
    <3> QED BY <3>5, <3>6
  <2> QED BY <1>1, <2>1, <2>2, <2>3
<1>3. ASSUME NEW u \in Spellings, u \in Led(n, s, q)
      PROVE  u \in Led(n + 1, s, q)
  BY <1>1, <1>3 DEF Led
<1>4. ASSUME NEW u \in Spellings, NEW t \in Led(n, s, q), Respells(q, t, u)
      PROVE  u \in Led(n + 1, s, q)
  <2>1. PICK d \in Searched[n][s] : d.spelling = t /\ q \in d.parts /\ d.dialect = {}
    BY DEF Led
  <2>0. PICK r \in Recursive : \E x \in Elements(Respelled[r][t]) : u = x.to /\ q \in x.accepts
    BY <1>4 DEF Respells
  <2>2. PICK x \in Elements(Respelled[r][t]) : u = x.to /\ q \in x.accepts
    BY <2>0
  <2>3. x.dialect = {}
    <3>1. t \in Spellings /\ r \in Rules /\ r # "crasis"
      BY RecursiveRules DEF Led
    <3> QED BY <3>1, Constants
  <2> DEFINE e == [spelling |-> x.to, parts |-> d.parts \cap x.accepts,
                   dialect |-> d.dialect \cup x.dialect]
  <2>4. e \in By(Recursive, d)
    BY <2>1 DEF By
  <2>5. e.spelling = u /\ q \in e.parts /\ e.dialect = {}
    BY <2>1, <2>2, <2>3
  <2> HIDE DEF e
  <2>6. e \in Searched[n + 1][s]
    BY <1>1, <2>4 DEF ByAll
  <2> QED BY <2>5, <2>6 DEF Led
<1> QED BY <1>2, <1>3, <1>4

\* A search that goes no further in one respelling goes no further in two.
LEMMA LedStable ==
  ASSUME NEW n \in Nat, NEW s \in Spellings, NEW q \in Parts,
         Led(n + 1, s, q) = Led(n, s, q)
  PROVE  Led(n + 2, s, q) = Led(n + 1, s, q)
<1>1. n + 1 \in Nat /\ (n + 1) + 1 = n + 2
  OBVIOUS
<1>2. \A u \in Spellings : u \in Led(n + 2, s, q) <=> u \in Led(n + 1, s, q)
  BY <1>1, LedFurther
<1>3. Led(n + 2, s, q) \subseteq Spellings /\ Led(n + 1, s, q) \subseteq Spellings
  BY DEF Led
<1> QED BY <1>2, <1>3

\* As many respellings as there are spellings lead to all there is.
LEMMA LedAll ==
  ASSUME NEW s \in Spellings, NEW q \in Parts
  PROVE  LET N == Cardinality(Spellings)
         IN  N \in Nat /\ Led(N + 1, s, q) = Led(N, s, q)
<1> DEFINE N == Cardinality(Spellings)
           R(n) == Led(n, s, q)
<1>1. N \in Nat /\ IsFiniteSet(Spellings)
  BY Constants, FS_CardinalityType
<1>2. SUFFICES ASSUME R(N + 1) # R(N) PROVE FALSE
  BY <1>1
<1>3. \A n \in Nat : R(n) \subseteq Spellings /\ R(n) \subseteq R(n + 1)
  <2> TAKE n \in Nat
  <2>1. R(n) \subseteq Spellings
    BY DEF Led
  <2> QED BY <2>1, LedFurther
<1>4. \A n \in Nat : IsFiniteSet(R(n)) /\ Cardinality(R(n)) \in Nat
  BY <1>1, <1>3, FS_Subset, FS_CardinalityType
<1>5. \A n \in 0 .. N : R(n + 1) # R(n)
  <2> DEFINE A == {n \in 0 .. N : R((N - n) + 1) # R(N - n)}
  <2>1. 0 \in A
    BY <1>1, <1>2
  <2>2. ASSUME NEW n \in 1 .. N, n - 1 \in A PROVE n \in A
    <3>1. N - n \in Nat /\ N - (n - 1) = (N - n) + 1 /\ (N - (n - 1)) + 1 = (N - n) + 2
      BY <1>1
    <3>2. R((N - n) + 2) # R((N - n) + 1)
      BY <2>2, <3>1
    <3>3. R((N - n) + 1) # R(N - n)
      BY <3>1, <3>2, LedStable
    <3> QED BY <1>1, <3>3
  <2>3. \A n \in 0 .. N : n \in A
    <3> HIDE DEF A
    <3> QED BY <1>1, <2>1, <2>2, Upwards
  <2> TAKE n \in 0 .. N
  <2>4. N - n \in 0 .. N /\ N - (N - n) = n
    BY <1>1
  <2>5. N - n \in A
    BY <2>3, <2>4
  <2> QED BY <2>4, <2>5
<1>6. \A n \in 0 .. N : Cardinality(R(n)) >= n + 1
  <2> DEFINE A == {n \in 0 .. N : Cardinality(R(n)) >= n + 1}
  <2>1. 0 \in A
    <3>1. s \in R(0)
      BY LedFirst
    <3>2. Cardinality(R(0)) # 0
      BY <1>4, <3>1, FS_EmptySet
    <3> QED BY <1>1, <1>4, <3>2
  <2>2. ASSUME NEW n \in 1 .. N, n - 1 \in A PROVE n \in A
    <3>1. n - 1 \in 0 .. N /\ n - 1 \in Nat /\ n \in Nat /\ (n - 1) + 1 = n
      BY <1>1
    <3>2. R(n - 1) \subseteq R(n) /\ R(n - 1) # R(n)
      BY <1>3, <1>5, <3>1
    <3>3. Cardinality(R(n - 1)) < Cardinality(R(n))
      BY <1>4, <3>1, <3>2, FS_Subset
    <3>4. Cardinality(R(n - 1)) >= n /\ Cardinality(R(n)) \in Nat /\ Cardinality(R(n - 1)) \in Nat
      BY <1>4, <2>2, <3>1
    <3> HIDE DEF R
    <3> QED BY <3>1, <3>3, <3>4
  <2> HIDE DEF A
  <2>3. \A n \in 0 .. N : n \in A
    BY <1>1, <2>1, <2>2, Upwards
  <2> QED BY <2>3 DEF A
<1>7. Cardinality(R(N)) <= N
  BY <1>1, <1>3, FS_Subset
<1>8. Cardinality(R(N)) >= N + 1 /\ Cardinality(R(N)) \in Nat
  BY <1>1, <1>4, <1>6
<1> HIDE DEF R
<1> QED BY <1>1, <1>7, <1>8

\* So what can be respelled leads on.
LEMMA LeadsOn ==
  ASSUME NEW s \in Spellings, NEW q \in Parts
  PROVE  /\ Leads(q, s, s)
         /\ \A t \in Spellings : Leads(q, s, t) <=> t \in Led(Cardinality(Spellings), s, q)
         /\ \A t \in Spellings : \A r \in Recursive :
              Leads(q, s, t) =>
                \A x \in Elements(Respelled[r][t]) : q \in x.accepts => Leads(q, s, x.to)
<1> DEFINE N == Cardinality(Spellings)
<1>1. N \in Nat /\ Led(N + 1, s, q) = Led(N, s, q)
  BY LedAll
<1>2. \A t \in Spellings : Leads(q, s, t) <=> t \in Led(N, s, q)
  BY DEF Leads, Led, Reached
<1>3. s \in Led(N, s, q)
  <2> DEFINE A == {n \in 0 .. N : s \in Led(n, s, q)}
  <2>1. 0 \in A
    BY <1>1, LedFirst
  <2>2. ASSUME NEW n \in 1 .. N, n - 1 \in A PROVE n \in A
    <3>1. n - 1 \in Nat /\ (n - 1) + 1 = n
      OBVIOUS
    <3> QED BY <2>2, <3>1, LedFurther
  <2> HIDE DEF A
  <2>3. \A n \in 0 .. N : n \in A
    BY <1>1, <2>1, <2>2, Upwards
  <2> QED BY <1>1, <2>3 DEF A
<1>4. ASSUME NEW t \in Spellings, NEW r \in Recursive, Leads(q, s, t),
             NEW x \in Elements(Respelled[r][t]), q \in x.accepts
      PROVE  Leads(q, s, x.to)
  <2>1. Respells(q, t, x.to)
    BY <1>4 DEF Respells
  <2>2. x.to \in Spellings
    BY <2>1, RespellsTyped
  <2>3. x.to \in Led(N + 1, s, q)
    BY <1>1, <1>2, <1>4, <2>1, <2>2, LedFurther
  <2> QED BY <1>1, <1>2, <2>2, <2>3
<1> QED BY <1>2, <1>3, <1>4

\* A candidate of any part of speech, in the dialect that is asked for.
Plain(c) == c \in Candidate /\ c.parts = Parts /\ c.dialect = {}

\* The rules that respell a candidate.
LEMMA NamedRules ==
  /\ Elements(Breathings) \subseteq Rules \ {"enclitic", "crasis"}
  /\ Elements(Prodelisions) \subseteq Rules \ {"enclitic", "crasis"}
  /\ {"lowered"} \subseteq Rules \ {"enclitic", "crasis"}
  /\ {"lower"} \subseteq Rules \ {"enclitic", "crasis"}
  /\ {"crasis"} \subseteq Rules \ {"enclitic"}
  /\ "e" \in Rules /\ "tt" \in Rules /\ "cun" \in Rules
BY DEF Rules, Stages3, Elisions, Prodelisions, Breathings, Elements

\* What a rule makes of a candidate.
LEMMA RespeltBy ==
  ASSUME NEW rules \in SUBSET Rules, NEW c \in Candidate,
         NEW rule \in rules, NEW x, x \in Elements(Respelled[rule][c.spelling])
  PROVE  /\ x \in Respelling
         /\ \E d \in By(rules, c) : /\ d.spelling = x.to
                                    /\ d.parts = c.parts \cap x.accepts
                                    /\ d.dialect = c.dialect \cup x.dialect
         /\ rule # "enclitic" => x.accepts = Parts
         /\ rule # "crasis" => x.dialect = {}
<1>1. c.spelling \in Spellings
  BY DEF Candidate
<1>2. Respelled[rule][c.spelling] \in Seq(Respelling)
  BY <1>1, Constants
<1>3. x \in Respelling
  BY <1>2 DEF Elements
<1> DEFINE d == [spelling |-> x.to, parts |-> c.parts \cap x.accepts,
                 dialect |-> c.dialect \cup x.dialect]
<1>4. d \in By(rules, c)
  BY DEF By
<1>5. d.spelling = x.to /\ d.parts = c.parts \cap x.accepts
      /\ d.dialect = c.dialect \cup x.dialect
  OBVIOUS
<1> HIDE DEF d
<1>6. (rule # "enclitic" => x.accepts = Parts) /\ (rule # "crasis" => x.dialect = {})
  BY <1>1, Constants
<1> QED BY <1>3, <1>4, <1>5, <1>6

\* And what was made of it was made by a rule.
LEMMA ByRule ==
  ASSUME NEW rules \in SUBSET Rules, NEW c \in Candidate, NEW d, d \in By(rules, c)
  PROVE  /\ d \in Candidate
         /\ (\A r \in rules : r # "enclitic") => d.parts = c.parts
         /\ (\A r \in rules : r # "crasis") => d.dialect = c.dialect
<1>1. PICK rule \in rules : \E x \in Elements(Respelled[rule][c.spelling]) :
        d = [spelling |-> x.to, parts |-> c.parts \cap x.accepts,
             dialect |-> c.dialect \cup x.dialect]
  BY DEF By
<1>2. PICK x \in Elements(Respelled[rule][c.spelling]) :
        d = [spelling |-> x.to, parts |-> c.parts \cap x.accepts,
             dialect |-> c.dialect \cup x.dialect]
  BY <1>1
<1>3. (rule # "enclitic" => x.accepts = Parts) /\ (rule # "crasis" => x.dialect = {})
  <2>1. c.spelling \in Spellings /\ rule \in Rules
    BY DEF Candidate
  <2> QED BY <2>1, Constants
<1>4. d \in Candidate
  BY ByTyped
<1>5. c.parts \subseteq Parts
  BY DEF Candidate
<1> QED BY <1>2, <1>3, <1>4, <1>5

\* Rules that restrict nothing keep a candidate plain.
LEMMA PlainBy ==
  ASSUME NEW rules \in SUBSET (Rules \ {"enclitic", "crasis"}), NEW cs,
         \A c \in cs : Plain(c)
  PROVE  \A d \in ByAll(rules, cs) : Plain(d)
<1> SUFFICES ASSUME NEW c \in cs, NEW d \in By(rules, c) PROVE Plain(d)
  BY DEF ByAll
<1> QED BY ByRule DEF Plain

\* The spellings checkstring1 and checkcrasis begin with are plain; a crasis
\* adds its dialects.
LEMMA PlainBegin ==
  ASSUME NEW r \in Request
  PROVE  /\ \A c \in Started(r) : Plain(c)
         /\ \A c \in Wholes(r) : Plain(c)
         /\ \A c \in Lows(r) : Plain(c)
         /\ \A c \in Undone(r) : c \in Candidate /\ c.parts = Parts
<1>1. \A c \in {Begun(r.spelling)} : Plain(c)
  BY DEF Plain, Begun, Candidate, Request
<1>2. \A c \in Started(r) : Plain(c)
  <2>1. \A c \in ByAll(Elements(Breathings), {Begun(r.spelling)}) : Plain(c)
    BY <1>1, PlainBy, NamedRules
  <2> QED BY <1>1, <2>1, Zenon DEF Started
<1>3. \A c \in Wholes(r) : Plain(c)
  BY <1>2, PlainBy, NamedRules DEF Wholes
<1>4. \A c \in Lows(r) : Plain(c)
  BY <1>3, PlainBy, NamedRules DEF Lows
<1>5. \A c \in ByAll({"crasis"}, Lows(r)) : c \in Candidate /\ c.parts = Parts
  <2> SUFFICES ASSUME NEW c \in Lows(r), NEW d \in By({"crasis"}, c)
               PROVE  d \in Candidate /\ d.parts = Parts
    BY DEF ByAll
  <2>1. Plain(c)
    BY <1>4
  <2> QED BY <2>1, ByRule, NamedRules DEF Plain
<1>6. \A c \in Undone(r) : c \in Wholes(r) \/ c \in ByAll({"crasis"}, Lows(r))
  BY DEF Undone
<1> QED BY <1>2, <1>3, <1>4, <1>5, <1>6 DEF Plain

\* The word itself, and with a breathing when accents are ignored;
LEMMA StartsWith ==
  ASSUME NEW r \in Request
  PROVE  /\ \E c \in Started(r) : c.spelling = r.spelling
         /\ r.ignore /\ r.language # "LATIN" =>
              \A i \in 1 .. 2 : \E c \in Started(r) :
                c.spelling = Respelled[Breathings[i]][r.spelling][1].to
<1>0. Begun(r.spelling) \in Candidate /\ Begun(r.spelling).spelling = r.spelling
      /\ r.spelling \in Spellings
  BY BegunTyped DEF Begun, Request
<1>1. PICK b \in Candidate : /\ b = Begun(r.spelling) /\ b.spelling = r.spelling
                             /\ r.spelling \in Spellings
  BY <1>0
<1>2. b \in Started(r)
  BY <1>1 DEF Started
<1>3. ASSUME r.ignore, r.language # "LATIN", NEW i \in 1 .. 2
      PROVE  \E c \in Started(r) : c.spelling = Respelled[Breathings[i]][r.spelling][1].to
  <2> DEFINE made == Respelled[Breathings[i]][r.spelling]
  <2>1. Breathings[i] \in Elements(Breathings) /\ Breathings[i] \in Rules
    BY RuleNames
  <2>2. made \in Seq(Respelling) /\ made # <<>>
    BY <1>1, <2>1, Constants
  <2>3. made[1] \in Elements(made)
    BY <2>2 DEF Elements
  <2>6. made = Respelled[Breathings[i]][b.spelling] /\ Elements(Breathings) \in SUBSET Rules
    BY <1>1, NamedRules
  <2>4. \E d \in By(Elements(Breathings), b) : d.spelling = made[1].to
    <3> DEFINE x == made[1]
               rule == Breathings[i]
               rules == Elements(Breathings)
    <3>1. /\ x \in Elements(Respelled[rule][b.spelling])
          /\ rule \in rules /\ rules \in SUBSET Rules
      BY <2>1, <2>3, <2>6
    <3> HIDE DEF x, rule, rules, made
    <3>2. \E d \in By(rules, b) : d.spelling = x.to
      BY <3>1, RespeltBy
    <3> QED BY <3>2 DEF x, rules
  <2>5. By(Elements(Breathings), b) \subseteq Started(r)
    BY <1>1, <1>3 DEF Started, ByAll
  <2> QED BY <2>4, <2>5
<1> QED BY <1>1, <1>2, <1>3

\* these as they are or with their vowel put back;
LEMMA WholeFrom ==
  ASSUME NEW r \in Request, NEW s, \E c \in Started(r) : c.spelling = s
  PROVE  /\ s \in Spellings
         /\ Respelled["e"][s] = <<>> => \E c \in Wholes(r) : c.spelling = s
         /\ \A rule \in Elements(Prodelisions) : \A x \in Elements(Respelled[rule][s]) :
              \E c \in Wholes(r) : c.spelling = x.to
<1>1. PICK c \in Started(r) : c.spelling = s
  OBVIOUS
<1>2. c \in Candidate
  BY PlainBegin DEF Plain
<1>3. Respelled["e"][s] = <<>> => c \in Wholes(r)
  BY <1>1 DEF Wholes
<1>4. ASSUME NEW rule \in Elements(Prodelisions), NEW x \in Elements(Respelled[rule][s])
      PROVE  \E d \in Wholes(r) : d.spelling = x.to
  <2>1. \E d \in By(Elements(Prodelisions), c) : d.spelling = x.to
    BY <1>1, <1>2, RespeltBy, NamedRules
  <2>2. By(Elements(Prodelisions), c) \subseteq Wholes(r)
    BY DEF Wholes, ByAll
  <2> QED BY <2>1, <2>2
<1> QED BY <1>1, <1>2, <1>3, <1>4 DEF Candidate

\* and those in lower case.
LEMMA LowFrom ==
  ASSUME NEW r \in Request, NEW s, \E c \in Wholes(r) : c.spelling = s
  PROVE  /\ s \in Spellings
         /\ \E c \in Lows(r) : c.spelling = s
         /\ \A x \in Elements(Respelled["lowered"][s]) :
              \E c \in Lows(r) : c.spelling = x.to
<1>1. PICK c \in Wholes(r) : c.spelling = s
  OBVIOUS
<1>2. c \in Candidate
  BY PlainBegin DEF Plain
<1>3. c \in Lows(r)
  BY DEF Lows
<1>4. ASSUME NEW x \in Elements(Respelled["lowered"][s])
      PROVE  \E d \in Lows(r) : d.spelling = x.to
  <2>1. \E d \in By({"lowered"}, c) : d.spelling = x.to
    BY <1>1, <1>2, RespeltBy, NamedRules
  <2>2. By({"lowered"}, c) \subseteq Lows(r)
    BY DEF Lows, ByAll
  <2> QED BY <2>1, <2>2
<1> QED BY <1>1, <1>2, <1>3, <1>4 DEF Candidate

\* Analyses of a whole word are answers, of a word with its crasis undone too,
LEMMA SoundWhole ==
  ASSUME NEW r \in Request, NEW w, NEW q \in Parts, Licensed(w, {}, r),
         \E c \in Wholes(r) : c.spelling = w.spelling
  PROVE  Sound(w, q, r)
<1>1. PICK c \in Wholes(r) : c.spelling = w.spelling
  OBVIOUS
<1>2. c \in Undone(r)
  BY DEF Undone
<1>3. c.spelling \in Spellings /\ q \in c.parts /\ c.dialect = {}
  BY PlainBegin DEF Plain, Candidate
<1>4. Leads(q, c.spelling, c.spelling)
  BY <1>3, LeadsOn
<1> QED BY <1>1, <1>2, <1>3, <1>4 DEF Sound

LEMMA SoundCrasis ==
  ASSUME NEW r \in Request, NEW w, NEW q \in Parts, NEW s,
         \E c \in Lows(r) : c.spelling = s, ~r.nocrasis,
         NEW x, x \in Elements(Respelled["crasis"][s]),
         w.spelling = x.to, Licensed(w, x.dialect, r)
  PROVE  Sound(w, q, r)
<1>1. PICK c \in Lows(r) : c.spelling = s
  OBVIOUS
<1>2. c \in Candidate /\ c.dialect = {}
  BY PlainBegin DEF Plain
<1>3. PICK d \in By({"crasis"}, c) : d.spelling = x.to /\ d.dialect = c.dialect \cup x.dialect
  <2> DEFINE e == [spelling |-> x.to, parts |-> c.parts \cap x.accepts,
                   dialect |-> c.dialect \cup x.dialect]
  <2>1. x \in Elements(Respelled["crasis"][c.spelling])
    BY <1>1
  <2>2. e \in By({"crasis"}, c)
    BY <2>1 DEF By
  <2>3. e.spelling = x.to /\ e.dialect = c.dialect \cup x.dialect
    OBVIOUS
  <2> HIDE DEF e
  <2> QED BY <2>2, <2>3
<1>4. d \in Undone(r)
  BY <1>3 DEF Undone, ByAll
<1>5. d.spelling \in Spellings /\ q \in d.parts /\ d.dialect = x.dialect
  BY <1>2, <1>3, <1>4, PlainBegin DEF Candidate
<1>6. Leads(q, d.spelling, d.spelling)
  BY <1>5, LeadsOn
<1> QED BY <1>3, <1>4, <1>5, <1>6 DEF Sound

\* and of what the rules make of such words;
LEMMA SoundFurther ==
  ASSUME NEW r \in Request, NEW w \in Word, NEW q \in Parts, Sound(w, q, r),
         NEW rule \in Recursive, NEW x, x \in Elements(Respelled[rule][w.spelling]),
         q \in x.accepts, NEW v, v.spelling = x.to,
         v.dialect = w.dialect, v.stem = w.stem
  PROVE  Sound(v, q, r)
<1>1. PICK c \in Undone(r) : /\ Leads(q, c.spelling, w.spelling)
                             /\ q \in c.parts /\ Licensed(w, c.dialect, r)
  BY DEF Sound
<1>2. c.spelling \in Spellings /\ w.spelling \in Spellings
  BY PlainBegin DEF Candidate, Word
<1>3. Leads(q, c.spelling, v.spelling)
  BY <1>1, <1>2, LeadsOn
<1>4. Licensed(v, c.dialect, r)
  BY <1>1 DEF Licensed
<1> QED BY <1>1, <1>3, <1>4 DEF Sound

\* words alike are alike.
LEMMA SoundLike ==
  ASSUME NEW r, NEW w, NEW q, Sound(w, q, r),
         NEW v, v.spelling = w.spelling, v.dialect = w.dialect, v.stem = w.stem
  PROVE  Sound(v, q, r)
BY DEF Sound, Licensed

\* A word of which an analysis is an answer has a candidate for its spelling,
LEMMA SoundCandidate ==
  ASSUME NEW r \in Request, NEW w \in Word, NEW q \in Parts, Sound(w, q, r)
  PROVE  \E k \in UNION {From(c) : c \in Undone(r)} :
           /\ k \in Candidate
           /\ k.spelling = w.spelling /\ q \in k.parts /\ Licensed(w, k.dialect, r)
<1>1. PICK c \in Undone(r) : /\ Leads(q, c.spelling, w.spelling)
                             /\ q \in c.parts /\ Licensed(w, c.dialect, r)
  BY DEF Sound
<1>2. PICK d \in Reached[c.spelling] : d.spelling = w.spelling /\ q \in d.parts /\ d.dialect = {}
  BY <1>1 DEF Leads
<1>3. c \in Candidate /\ c.spelling \in Spellings
  BY PlainBegin DEF Candidate
<1>4. d \in Candidate
  <2>1. Cardinality(Spellings) \in Nat
    BY Constants, FS_CardinalityType
  <2> QED BY <1>2, <1>3, <2>1, SearchedTyped DEF Reached
<1> DEFINE k == [d EXCEPT !.parts = @ \cap c.parts, !.dialect = @ \cup c.dialect]
<1>5. k \in From(c)
  BY <1>2 DEF From
<1>6. k \in Candidate /\ k.spelling = w.spelling /\ q \in k.parts /\ k.dialect = c.dialect
  BY <1>1, <1>2, <1>3, <1>4 DEF Candidate
<1> HIDE DEF k
<1> QED BY <1>1, <1>5, <1>6

LEMMA CandidateOf ==
  ASSUME NEW r \in Request, NEW w \in Word, NEW q \in Parts, Sound(w, q, r)
  PROVE  \E k \in Candidates(r) :
           k.spelling = w.spelling /\ q \in k.parts /\ Licensed(w, k.dialect, r)
BY SoundCandidate DEF Candidates

\* and one for each of its lower-case spellings, unless capitals are strict.
LEMMA LowerCandidate ==
  ASSUME NEW r \in Request, NEW w \in Word, NEW q \in Parts, Sound(w, q, r), ~r.strict,
         NEW x, x \in Elements(Respelled["lower"][w.spelling])
  PROVE  \E k \in Candidates(r) :
           k.spelling = x.to /\ q \in k.parts /\ Licensed(w, k.dialect, r)
<1> DEFINE all == UNION {From(c) : c \in Undone(r)}
<1>1. PICK k \in all : /\ k \in Candidate
           /\ k.spelling = w.spelling /\ q \in k.parts /\ Licensed(w, k.dialect, r)
  BY SoundCandidate
<1>2. Candidates(r) = all \cup ByAll({"lower"}, all)
  BY DEF Candidates
<1> HIDE DEF all
<1>3. PICK d \in By({"lower"}, k) : /\ d.spelling = x.to
                                    /\ d.parts = k.parts \cap x.accepts
                                    /\ d.dialect = k.dialect \cup x.dialect
  <2> DEFINE e == [spelling |-> x.to, parts |-> k.parts \cap x.accepts,
                   dialect |-> k.dialect \cup x.dialect]
  <2>1. x \in Elements(Respelled["lower"][k.spelling])
    BY <1>1
  <2>2. e \in By({"lower"}, k)
    BY <2>1 DEF By
  <2>3. /\ e.spelling = x.to /\ e.parts = k.parts \cap x.accepts
        /\ e.dialect = k.dialect \cup x.dialect
    OBVIOUS
  <2> HIDE DEF e
  <2> QED BY <2>2, <2>3
<1>4. x.accepts = Parts /\ x.dialect = {}
  <2>1. "lower" \in Rules /\ w.spelling \in Spellings
    BY NamedRules DEF Word
  <2> QED BY <2>1, Constants
<1>5. d \in Candidates(r)
  BY <1>2, <1>3 DEF ByAll
<1>6. d.dialect = k.dialect /\ q \in d.parts
  BY <1>1, <1>3, <1>4
<1> QED BY <1>1, <1>3, <1>5, <1>6

----------------------------------------------------------------------------
(* What is found is an answer.                                             *)

\* An entry as checkstring4 finds nominals: whatever the flags.
AnyForm(e) == [e EXCEPT !.part = "unaugmented"]

\* What fits in w, by the parts it was looked for among.
LEMMA FitsWanted ==
  ASSUME request \in Request, library \subseteq Entry, NEW w, NEW k,
         Licensed(w, k.dialect, request), NEW s, NEW among,
         NEW e, e \in Fitting(s, among, w)
  PROVE  /\ e \in library /\ e.spelling = s /\ e.part \in among
         /\ request.verbs => e.part \notin Nominals
         /\ "UNAUGMENTED" \in w.stem =>
              /\ Wanted(AnyForm(e), request, k)
              /\ e.part \in {"verb", "unaugmented"} => Wanted(e, request, k)
         /\ "UNAUGMENTED" \notin w.stem => (e.part # "unaugmented" => Wanted(e, request, k))
<1>1. /\ e \in library /\ e.spelling = s /\ e.part \in among
      /\ Agrees(e.dialect, w.dialect) /\ (request.verbs => e.part \notin Nominals)
  BY DEF Fitting
<1> DEFINE u == AnyForm(e)
<1>2. u.part = "unaugmented" /\ u.dialect = e.dialect /\ e.part \in Parts
  BY <1>1 DEF Entry, AnyForm
<1> HIDE DEF u
<1> DEFINE asked == Agrees(e.dialect, request.dialect \cup k.dialect)
           ionic == /\ request.language = "GREEK" /\ WantsIonic(request)
                    /\ Agrees(e.dialect, request.dialect \cup k.dialect \cup {"ionic", "epic"})
           poem  == /\ request.language = "GREEK" /\ WantsIonic(request) /\ asked
                    /\ request.dialect \cap {"ionic", "prose"} = {}
<1>3. /\ Wanted(u, request, k) <=> ionic \/ poem
      /\ e.part = "verb" => (Wanted(e, request, k) <=> asked \/ ionic)
      /\ e.part = "unaugmented" => (Wanted(e, request, k) <=> ionic \/ poem)
      /\ e.part \in Nominals => (Wanted(e, request, k) <=> asked)
  BY <1>2 DEF Wanted, Nominals
<1>4. "UNAUGMENTED" \in w.stem => ionic \/ poem
  BY <1>1 DEF Licensed
<1>5. "UNAUGMENTED" \notin w.stem => asked
  BY <1>1 DEF Licensed
<1>6. poem => asked
  OBVIOUS
<1> HIDE DEF asked, ionic, poem
<1>7. e.part \in Nominals \/ e.part = "verb" \/ e.part = "unaugmented"
  BY <1>2 DEF Parts, Nominals
<1> QED BY <1>1, <1>3, <1>4, <1>5, <1>6, <1>7 DEF u

\* checkword finds what it looks for.
LEMMA CheckWordFits ==
  ASSUME NEW s, NEW w, NEW e, e \in CheckWord(s, w)
  PROVE  \/ "UNAUGMENTED" \in w.stem /\ e \in Fitting(s, {"verb", "unaugmented"}, w)
         \/ "UNAUGMENTED" \notin w.stem /\ e \in Fitting(s, Nominals \cup {"verb"}, w)
<1> DEFINE parts == IF "UNAUGMENTED" \in w.stem
                    THEN {"verb", "unaugmented"} ELSE Nominals \cup {"verb"}
<1>1. \/ e \in Fitting(s, parts \cap {"indeclinable"}, w)
      \/ e \in Fitting(s, parts \cap Nominals, w)
      \/ e \in Fitting(s, parts, w)
  BY DEF CheckWord
<1>2. e \in Fitting(s, parts, w)
  BY <1>1 DEF Fitting
<1> QED BY <1>2

\* checkstring4 finds answers.
LEMMA HitsAnswer ==
  ASSUME request \in Request, library \subseteq Entry, NEW w, NEW s \in Spellings,
         NEW e, e \in CheckString4(s, w), NEW k \in Candidates(request),
         k.spelling = s, e.part \in k.parts, Licensed(w, k.dialect, request)
  PROVE  e \in Answers(request)
<1> DEFINE made == [i \in DOMAIN Respelled["tt"][s] |-> Respelled["tt"][s][i].to]
           spelt == <<s>> \o made
           sun(t) == UNION {Fitting(q.to, Nominals, w) :
                         q \in Elements(Respelled["cun"][t])}
           hit(i) == IF CheckWord(spelt[i], w) # {}
                THEN CheckWord(spelt[i], w) ELSE sun(spelt[i])
           first  == {i \in DOMAIN spelt : /\ hit(i) # {}
                                      /\ \A j \in 1 .. i - 1 : hit(j) = {}}
           tt == {k} \cup By({"tt"}, k)
<1>1. CheckString4(s, w) = UNION {hit(i) : i \in first}
  BY DEF CheckString4
<1>2. PICK i \in DOMAIN spelt : e \in CheckWord(spelt[i], w) \/ e \in sun(spelt[i])
  <2> HIDE DEF spelt, sun
  <2> QED BY <1>1
<1>3. PICK t \in tt : t.spelling = spelt[i]
  <2>1. Respelled["tt"][s] \in Seq(Respelling)
    BY NamedRules, Constants
  <2>2. made \in Seq(Spellings) /\ Len(made) = Len(Respelled["tt"][s])
    <3> DEFINE q == Respelled["tt"][s]
    <3>1. q \in Seq(Respelling) /\ made = [j \in DOMAIN q |-> q[j].to]
      BY <2>1
    <3> HIDE DEF q, made
    <3>5. \A j \in 1 .. Len(q) : q[j] \in Respelling
      BY <3>1
    <3>6. \A x \in Respelling : x.to \in Spellings
      BY DEF Respelling
    <3>2. \A j \in 1 .. Len(q) : q[j].to \in Spellings
      BY <3>5, <3>6
    <3>3. DOMAIN q = 1 .. Len(q) /\ Len(q) \in Nat
      BY <3>1
    <3>4. made \in Seq(Spellings) /\ Len(made) = Len(q)
      BY <3>1, <3>2, <3>3
    <3> QED BY <3>4 DEF q
  <2>3. <<s>> \in Seq(Spellings) /\ Len(<<s>>) = 1 /\ <<s>>[1] = s
    OBVIOUS
  <2>4. \A j \in 1 .. Len(made) : made[j] = Respelled["tt"][s][j].to
    BY <2>1, <2>2
  <2>5. i \in 1 .. 1 + Len(made) /\ spelt[i] = IF i = 1 THEN s ELSE made[i - 1]
    <3> HIDE DEF made
    <3> QED BY <2>2, <2>3
  <2>6. CASE i = 1
    BY <2>5, <2>6
  <2>7. CASE i # 1
    <3>1. i - 1 \in 1 .. Len(made)
      BY <2>2, <2>5, <2>7
    <3> DEFINE x == Respelled["tt"][s][i - 1]
               d == [spelling |-> x.to, parts |-> k.parts \cap x.accepts,
                     dialect |-> k.dialect \cup x.dialect]
    <3>2. x \in Elements(Respelled["tt"][k.spelling]) /\ spelt[i] = x.to
      BY <2>1, <2>2, <2>4, <2>5, <2>7, <3>1 DEF Elements
    <3>3. d \in By({"tt"}, k) /\ d.spelling = spelt[i]
      <4> HIDE DEF x, spelt
      <4> QED BY <3>2 DEF By
    <3> QED BY <3>3
  <2> QED BY <2>6, <2>7
<1> HIDE DEF made, spelt, tt
<1>4. CASE e \in CheckWord(spelt[i], w)
  <2>1. /\ e \in library /\ e.spelling = t.spelling /\ Wanted(e, request, k)
        /\ request.verbs => e.part \notin Nominals
    <3>1. CASE "UNAUGMENTED" \in w.stem /\ e \in Fitting(spelt[i], {"verb", "unaugmented"}, w)
      BY <1>3, <3>1, FitsWanted
    <3>2. CASE "UNAUGMENTED" \notin w.stem /\ e \in Fitting(spelt[i], Nominals \cup {"verb"}, w)
      BY <1>3, <3>2, FitsWanted DEF Nominals
    <3> QED BY <1>4, <3>1, <3>2, CheckWordFits
  <2>2. \E u \in {k} \cup By({"tt"}, k) : u.spelling = e.spelling /\ Wanted(e, request, k)
    BY <1>3, <2>1 DEF tt
  <2>3. AnswersBy(e, request, k)
    BY <2>1, <2>2 DEF AnswersBy
  <2> QED BY <2>1, <2>3 DEF Answers
<1>5. CASE e \in sun(spelt[i])
  <2>0. e \in sun(t.spelling)
    <3> HIDE DEF sun
    <3> QED BY <1>3, <1>5
  <2>1. PICK x \in Elements(Respelled["cun"][t.spelling]) : e \in Fitting(x.to, Nominals, w)
    BY <2>0
  <2>2. /\ e \in library /\ e.spelling = x.to /\ e.part \in Nominals
        /\ request.verbs => e.part \notin Nominals
        /\ Wanted(e, request, k) \/ Wanted(AnyForm(e), request, k)
    <3>1. /\ e \in library /\ e.spelling = x.to /\ e.part \in Nominals
          /\ request.verbs => e.part \notin Nominals
          /\ "UNAUGMENTED" \in w.stem => Wanted(AnyForm(e), request, k)
          /\ "UNAUGMENTED" \notin w.stem => (e.part # "unaugmented" => Wanted(e, request, k))
      BY <2>1, FitsWanted
    <3>2. e.part # "unaugmented"
      BY <3>1 DEF Nominals
    <3> QED BY <3>1, <3>2
  <2> DEFINE d == [spelling |-> x.to, parts |-> t.parts \cap x.accepts,
                   dialect |-> t.dialect \cup x.dialect]
  <2>3. d \in By({"cun"}, t) /\ d.spelling = e.spelling
    BY <2>2 DEF By
  <2> HIDE DEF d
  <2>4. d \in ByAll({"cun"}, tt)
    BY <2>3 DEF ByAll
  <2>5. AnswersBy(e, request, k)
    BY <2>2, <2>3, <2>4 DEF AnswersBy, tt, AnyForm
  <2> QED BY <2>2, <2>5 DEF Answers
<1> QED BY <1>2, <1>4, <1>5

----------------------------------------------------------------------------
(* Calls and returns.                                                      *)

\* What is right for what is found, whatever was tried before.
Right == FramesSound /\ WordSound /\ AnalsSound

\* What is struck off is struck off by the innermost frame or by those that
\* wait for it.
LEMMA FromTop ==
  ASSUME SearchInv, stack # <<>>, NEW q
  PROVE  Struck(1, q) <=> Strikes(Top, q) \/ Struck(2, q)
<1>1. Top = stack[1] /\ 1 \in 1 .. Len(stack) /\ Len(stack) \in Nat
  BY DEF SearchInv, TypeOK, Top
<1>2. \A j \in 1 .. Len(stack) : j = 1 \/ j >= 2
  BY <1>1
<1> QED BY <1>1, <1>2 DEF Struck

\* What is found stays right when the innermost frame strikes off nothing.
LEMMA AnalsKept ==
  ASSUME SearchInv, Right, stack # <<>>, NEW e \in anals,
         ret = "none" \/ ~ Strikes(Top, e.part)
  PROVE  Struck(2, e.part) \/ e \in Answers(request)
<1>1. Struck(Waiting, e.part) \/ e \in Answers(request)
  BY DEF Right, AnalsSound
<1>2. ret = "none" => Waiting = 2
  BY DEF Waiting
<1>3. ret # "none" => Waiting = 1
  BY DEF Waiting
<1> QED BY <1>1, <1>2, <1>3, FromTop

\* What is right for what is found of a part of speech in the innermost frame.
LEMMA TopRight ==
  ASSUME SearchInv, Right, stack # <<>>, NEW q \in Parts
  PROVE  Struck(2, q) \/ Rightly(Top, q, request)
<1>1. Top = stack[1] /\ 1 \in 1 .. Len(stack) /\ 1 + 1 = 2
  BY DEF SearchInv, TypeOK, Top
<1> QED BY <1>1 DEF Right, FramesSound

\* The answers are those of the request.
LEMMA SameAnswers ==
  ASSUME library' = library, request' = request
  PROVE  Answers(request)' = Answers(request)
BY DEF Answers, AnswersBy, Wanted, WantsIonic

\* A call.
LEMMA PushSound ==
  ASSUME SearchInv, Right, stack # <<>>, library' = library, request' = request,
         anals' \subseteq anals,
         ret = "none" \/ Top.proc # "three",
         NEW f \in Frames, NEW p \in Procs, NEW w \in Word, Push(f, p, w),
         \A q \in Parts : Struck(2, q) \/ Rightly(f, q, request),
         \A q \in Parts : Struck(2, q) \/ Strikes(f, q)
                                       \/ Rightly(Frame(p, w), q, request)
  PROVE  Right'
<1> DEFINE g == Frame(p, w)
<1>1. g \in Frames /\ g.proc = p /\ g.own = w
  BY DEF Frame, Frames
<1>2. \A q \in Parts : Struck(2, q) \/ Strikes(f, q) \/ Rightly(g, q, request)
  OBVIOUS
<1>3. stack' = <<g, f>> \o Tail(stack) /\ word' = w /\ ret' = "none"
  BY DEF Push
<1> HIDE DEF g
<1>4. stack \in Seq(Frames) /\ Len(stack) \in Nat \ {0}
  BY DEF SearchInv, TypeOK
<1>5. /\ Len(stack') = Len(stack) + 1 /\ stack' # <<>>
      /\ Head(stack') = g /\ stack'[1] = g /\ stack'[2] = f
      /\ \A i \in 3 .. Len(stack) + 1 : stack'[i] = stack[i - 1]
  BY <1>1, <1>3, <1>4, Pushed
<1>6. ASSUME NEW k \in Nat, k > 1, NEW q, Struck(k, q)
      PROVE  Struck(k + 1, q)'
  <2>1. PICK j \in 1 .. Len(stack) : j >= k /\ Strikes(stack[j], q)
    BY <1>6 DEF Struck
  <2>2. j + 1 \in 3 .. Len(stack) + 1 /\ (j + 1) - 1 = j /\ j + 1 >= k + 1
        /\ j + 1 \in 1 .. Len(stack')
    BY <1>4, <1>5, <1>6, <2>1
  <2>3. Strikes(stack'[j + 1], q)
    BY <1>5, <2>1, <2>2
  <2> QED BY <2>2, <2>3 DEF Struck, Strikes
<1>7. ASSUME NEW q, Strikes(f, q) \/ Struck(2, q)
      PROVE  Struck(2, q)'
  <2>1. CASE Strikes(f, q)
    <3>1. 2 \in 1 .. Len(stack') /\ Strikes(stack'[2], q)
      BY <1>4, <1>5, <2>1
    <3> QED BY <3>1 DEF Struck, Strikes
  <2>2. CASE Struck(2, q)
    <3>1. Struck(2 + 1, q)'
      BY <1>6, <2>2
    <3> QED BY <3>1 DEF Struck
  <2> QED BY <1>7, <2>1, <2>2
<1>8. FramesSound'
  <2>1. SUFFICES ASSUME NEW k \in 1 .. Len(stack'), NEW q \in Parts
                 PROVE  Struck(k + 1, q)' \/ Rightly(stack'[k], q, request')
    BY DEF FramesSound
  <2>2. CASE k = 1
    BY <1>2, <1>5, <1>7, <2>2
  <2>3. CASE k = 2
    BY <1>5, <1>6, <2>3
  <2>4. CASE k > 2
    <3>1. k - 1 \in 1 .. Len(stack) /\ stack'[k] = stack[k - 1] /\ (k - 1) + 1 = k
          /\ k \in Nat /\ k > 1
      BY <1>4, <1>5, <2>4
    <3>2. Struck(k, q) \/ Rightly(stack[k - 1], q, request)
      BY <3>1 DEF Right, FramesSound
    <3> QED BY <1>6, <3>1, <3>2
  <2> QED BY <2>2, <2>3, <2>4
<1>9. WordSound'
  <2>1. ASSUME p = "three", NEW q \in Parts
        PROVE  Struck(2, q)' \/ Sound(w, q, request)
    <3>1. Rightly(g, q, request) => Sound(w, q, request)
      BY <1>1, <2>1 DEF Rightly
    <3> QED BY <1>2, <1>7, <3>1
  <2>2. Waiting' = 2
    BY <1>3 DEF Waiting
  <2>3. Top'.proc = p /\ Top'.own = w
    BY <1>1, <1>5 DEF Top
  <2> QED BY <1>3, <2>1, <2>2, <2>3 DEF WordSound
<1>10. AnalsSound'
  <2>1. SUFFICES ASSUME NEW e \in anals'
                 PROVE  Struck(Waiting, e.part)' \/ e \in Answers(request)'
    BY DEF AnalsSound
  <2>2. Waiting' = 2
    BY <1>3 DEF Waiting
  <2>3. Struck(2, e.part) \/ e \in Answers(request)
    <3>1. ret = "none" \/ ~ Strikes(Top, e.part)
      BY DEF Strikes
    <3> QED BY <3>1, AnalsKept
  <2> QED BY <1>7, <2>2, <2>3, SameAnswers
<1> QED BY <1>8, <1>9, <1>10 DEF Right

\* A step between calls.
LEMMA StaySound ==
  ASSUME SearchInv, Right, stack # <<>>, library' = library, request' = request,
         NEW f \in Frames, NEW w \in Word, Stay(f, w), f.proc # "one",
         \A q \in Parts : Struck(2, q) \/ Rightly(f, q, request),
         f.proc = "three" =>
           \A q \in Parts : Struck(2, q) \/ Lowering(f) \/ Sound(w, q, request),
         \A e \in anals' : Struck(2, e.part) \/ e \in Answers(request)
  PROVE  Right'
<1>3. stack' = <<f>> \o Tail(stack) /\ word' = w /\ ret' = "none"
  BY DEF Stay
<1>4. stack \in Seq(Frames) /\ Len(stack) \in Nat \ {0}
  BY DEF SearchInv, TypeOK
<1>5. /\ Len(stack') = Len(stack) /\ stack' # <<>>
      /\ Head(stack') = f /\ stack'[1] = f
      /\ \A i \in 2 .. Len(stack) : stack'[i] = stack[i]
  BY <1>3, <1>4, Stayed
<1>6. ASSUME NEW k \in Nat, k > 1, NEW q, Struck(k, q)
      PROVE  Struck(k, q)'
  <2>1. PICK j \in 1 .. Len(stack) : j >= k /\ Strikes(stack[j], q)
    BY <1>6 DEF Struck
  <2>2. j \in 2 .. Len(stack) /\ j \in 1 .. Len(stack')
    BY <1>4, <1>5, <1>6, <2>1
  <2>3. Strikes(stack'[j], q)
    BY <1>5, <2>1, <2>2
  <2> QED BY <2>1, <2>2, <2>3 DEF Struck, Strikes
<1>7. Waiting' = 2
  BY <1>3 DEF Waiting
<1>8. FramesSound'
  <2>1. SUFFICES ASSUME NEW k \in 1 .. Len(stack'), NEW q \in Parts
                 PROVE  Struck(k + 1, q)' \/ Rightly(stack'[k], q, request')
    BY DEF FramesSound
  <2>2. CASE k = 1
    BY <1>5, <1>6, <2>2
  <2>3. CASE k > 1
    <3>1. k \in 1 .. Len(stack) /\ stack'[k] = stack[k] /\ k + 1 \in Nat /\ k + 1 > 1
      BY <1>4, <1>5, <2>3
    <3>2. Struck(k + 1, q) \/ Rightly(stack[k], q, request)
      BY <3>1 DEF Right, FramesSound
    <3> QED BY <1>6, <3>1, <3>2
  <2> QED BY <2>2, <2>3
<1>9. WordSound'
  <2>1. Top' = f
    BY <1>5 DEF Top
  <2>2. \A q \in Parts : Struck(2, q) => Struck(2, q)'
    BY <1>6
  <2>3. Lowering(f)' = Lowering(f)
    BY DEF Lowering
  <2> QED BY <1>3, <1>7, <2>1, <2>2, <2>3 DEF WordSound
<1>10. AnalsSound'
  <2>1. SUFFICES ASSUME NEW e \in anals'
                 PROVE  Struck(Waiting, e.part)' \/ e \in Answers(request)'
    BY DEF AnalsSound
  <2> QED BY <1>6, <1>7, SameAnswers
<1> QED BY <1>8, <1>9, <1>10 DEF Right

\* A return.
LEMMA ReturnSound ==
  ASSUME SearchInv, Right, stack # <<>>, library' = library, request' = request,
         NEW v, NEW w \in Word, Return(v, w),
         Top.proc \in {"three", "apostr"} => w = Top.kept,
         \A e \in anals' : Struck(2, e.part) \/ e \in Answers(request)
  PROVE  Right'
<1>3. stack' = Tail(stack) /\ word' = w /\ ret' # "none"
  BY DEF Return
<1>4. /\ Len(stack') = Len(stack) - 1 /\ Len(stack) \in Nat \ {0}
      /\ \A i \in 1 .. Len(stack) - 1 : stack'[i] = stack[i + 1]
      /\ stack' # <<>> => Head(stack') = stack[2]
  BY <1>3, Tailed DEF SearchInv, TypeOK
<1>5. stack' # <<>> => Len(stack) # 1
  BY <1>3, <1>4 DEF SearchInv, TypeOK
<1>6. ASSUME NEW k \in Nat, k > 0, NEW q, Struck(k + 1, q)
      PROVE  Struck(k, q)'
  <2>1. PICK j \in 1 .. Len(stack) : j >= k + 1 /\ Strikes(stack[j], q)
    BY <1>6 DEF Struck
  <2>2. j - 1 \in 1 .. Len(stack) - 1 /\ (j - 1) + 1 = j /\ j - 1 >= k
        /\ j - 1 \in 1 .. Len(stack')
    BY <1>4, <1>6, <2>1
  <2>3. Strikes(stack'[j - 1], q)
    BY <1>4, <2>1, <2>2
  <2> QED BY <2>2, <2>3 DEF Struck, Strikes
<1>7. Waiting' = 1
  BY <1>3 DEF Waiting
<1>8. FramesSound'
  <2>1. SUFFICES ASSUME NEW k \in 1 .. Len(stack'), NEW q \in Parts
                 PROVE  Struck(k + 1, q)' \/ Rightly(stack'[k], q, request')
    BY DEF FramesSound
  <2>2. k + 1 \in 1 .. Len(stack) /\ stack'[k] = stack[k + 1] /\ k + 1 \in Nat /\ k + 1 > 0
    BY <1>4
  <2>3. Struck((k + 1) + 1, q) \/ Rightly(stack[k + 1], q, request)
    BY <2>2 DEF Right, FramesSound
  <2> QED BY <1>6, <2>2, <2>3
<1>9. ASSUME NEW q, Struck(2, q) PROVE Struck(1, q)'
  <2>1. 1 \in Nat /\ 1 > 0 /\ 1 + 1 = 2
    OBVIOUS
  <2> QED BY <1>6, <1>9, <2>1
<1>10. WordSound'
  <2>1. ASSUME stack' # <<>>, Top'.proc = "three", NEW q \in Parts
        PROVE  Struck(1, q)' \/ Sound(w, q, request)
    <3>1. Top' = Caller
      BY <1>4, <2>1 DEF Top, Caller
    <3>2. /\ CallsProc(Caller, Top.proc) /\ FrameRight(Top, request)
      BY <1>5, <2>1, CallerCalls
    <3>3. Top.proc \in {"three", "apostr"} /\ Top.own = Top.kept
      BY <2>1, <3>1, <3>2 DEF CallsProc, FrameRight
    <3>4. Struck(2, q) \/ Sound(Top.own, q, request)
      <4>1. Rightly(Top, q, request) => Sound(Top.own, q, request)
        BY <3>3 DEF Rightly
      <4> QED BY <4>1, TopRight
    <3> QED BY <1>9, <3>3, <3>4
  <2> QED BY <1>3, <1>7, <2>1 DEF WordSound
<1>11. AnalsSound'
  <2>1. SUFFICES ASSUME NEW e \in anals'
                 PROVE  Struck(Waiting, e.part)' \/ e \in Answers(request)'
    BY DEF AnalsSound
  <2> QED BY <1>7, <1>9, SameAnswers
<1> QED BY <1>8, <1>10, <1>11 DEF Right

----------------------------------------------------------------------------
(* The steps of each function.                                             *)

\* A function that is called with a word of which what is found is an answer
\* begins as it should.
LEMMA CalledRight ==
  ASSUME NEW p \in {"three", "apostr"}, NEW w, NEW q, Sound(w, q, request),
         request \in Request
  PROVE  Rightly(Frame(p, w), q, request)
<1> DEFINE g == Frame(p, w)
<1>1. g.proc = p /\ g.own = w /\ g.stage = 0 /\ g.plan = <<>>
  BY DEF Frame
<1>2. Elements(<<>>) = {}
  BY DEF Elements
<1>3. 0 \in 0 .. Len(Stages3[request.language])
  BY DEF Stages3, Request
<1> HIDE DEF g
<1>4. Rightly(g, q, request)
  BY <1>1, <1>2, <1>3 DEF Rightly
<1> QED BY <1>4 DEF g

\* The breathings that morpheus_check_word tries after the word itself.
LEMMA AttemptsAre ==
  ASSUME NEW s \in Spellings, NEW i \in 1 .. 2
  PROVE  Attempts(s)[i + 1] = Respelled[Breathings[i]][s][1].to
<1> DEFINE u == [j \in 1 .. 2 |-> Respelled[Breathings[j]][s][1].to]
           v == <<s>>
<1>1. \A j \in 1 .. 2 : u[j] \in Spellings
  <2> TAKE j \in 1 .. 2
  <2>1. Breathings[j] \in Rules /\ Breathings[j] \in Elements(Breathings)
    BY RuleNames
  <2>2. Respelled[Breathings[j]][s] # <<>>
    BY <2>1, Constants
  <2> QED BY <2>1, <2>2, Respellings
<1>2. u \in Seq(Spellings) /\ Len(u) = 2
  BY <1>1
<1>3. v \in Seq(Spellings) /\ Len(v) = 1
  OBVIOUS
<1>4. Attempts(s) = v \o u /\ u[i] = Respelled[Breathings[i]][s][1].to
  BY DEF Attempts
<1> HIDE DEF u, v
<1>5. (v \o u)[1 + i] = u[i]
  BY <1>2, <1>3, Joined
<1>6. i + 1 = 1 + i
  OBVIOUS
<1> QED BY <1>4, <1>5, <1>6

\* morpheus_check_word.
LEMMA RightWordAgain ==
  ASSUME SearchInv, Right, CheckWordAgain
  PROVE  Right'
<1>1. stack # <<>> /\ Top.proc = "word" /\ Top.stage \in {0, 1, 2}
  <2>1. stack # <<>> /\ Top.proc = "word" /\ (Top.stage = 0 \/ Top.stage < 3)
    BY DEF CheckWordAgain
  <2> QED BY <2>1, Begins
<1> DEFINE tried == IF Top.stage = 0 THEN request.spelling
                  ELSE Attempts(request.spelling)[Top.stage + 1]
           f == [Top EXCEPT !.stage = @ + 1]
           w == Fresh(tried)
<1>2. /\ Push(f, "one", w) /\ library' = library /\ request' = request /\ anals' = {}
      /\ Top.stage # 0 => request.ignore /\ request.language # "LATIN"
  BY DEF CheckWordAgain, Language
<1>3. tried \in Spellings
  BY <1>1, Begins, AttemptsSpelt
<1>4. \E c \in Started(request) : c.spelling = tried
  <2>1. request \in Request /\ request.spelling \in Spellings
    BY <1>1, Begins
  <2>2. CASE Top.stage = 0
    BY <2>1, <2>2, StartsWith
  <2>3. CASE Top.stage # 0
    <3>1. Top.stage \in 1 .. 2
      BY <1>1, <2>3
    <3>2. tried = Respelled[Breathings[Top.stage]][request.spelling][1].to
      BY <2>1, <2>3, <3>1, AttemptsAre
    <3> QED BY <1>2, <2>1, <2>3, <3>1, <3>2, StartsWith
  <2> QED BY <2>2, <2>3
<1> HIDE DEF tried
<1>5. w \in Word /\ w.spelling = tried
  <2>1. request \in Request
    BY <1>1, Begins
  <2> QED BY <1>3, <2>1, FreshWord DEF Fresh
<1>6. f \in Frames /\ f.proc = "word"
  BY <1>1, Begins DEF Frames
<1> HIDE DEF f, w
<1>7. \A q \in Parts : Rightly(f, q, request)
  BY <1>6 DEF Rightly
<1>8. \A q \in Parts : Rightly(Frame("one", w), q, request)
  <2>1. Frame("one", w).proc = "one" /\ Frame("one", w).own = w
    BY DEF Frame
  <2> QED BY <1>4, <1>5, <2>1 DEF Rightly
<1> QED BY <1>1, <1>2, <1>5, <1>6, <1>7, <1>8, PushSound DEF Procs

\* A function other than checkstring3 returns what was found.
LEMMA RightReturn ==
  ASSUME SearchInv, Right, stack # <<>>, Top.proc # "three",
         library' = library, request' = request, anals' = anals,
         NEW v, NEW w \in Word, Return(v, w), Top.proc = "apostr" => w = Top.kept
  PROVE  Right'
<1>1. \A q : ~ Strikes(Top, q)
  BY DEF Strikes
<1>2. \A e \in anals' : Struck(2, e.part) \/ e \in Answers(request)
  BY <1>1, AnalsKept
<1> QED BY <1>2, ReturnSound

LEMMA RightWordEnds ==
  ASSUME SearchInv, Right, CheckWordEnds
  PROVE  Right'
<1>1. stack # <<>> /\ Top.proc = "word" /\ Return(anals # {}, word)
      /\ library' = library /\ request' = request /\ anals' = anals
  BY DEF CheckWordEnds
<1>2. word \in Word
  BY <1>1, Begins
<1> DEFINE v == anals # {}
<1>3. Return(v, word)
  BY <1>1
<1> HIDE DEF v
<1> QED BY <1>1, <1>2, <1>3, RightReturn

\* checkstring1.
LEMMA RightOne ==
  ASSUME SearchInv, Right, CheckString1
  PROVE  Right'
<1> DEFINE own  == Top.own.spelling
           left == {i \in Top.stage + 1 .. 4 :
                      /\ Respelled[Prodelisions[i]][own] # <<>>
                      /\ (i \in {1, 3} \/ ret = "no")}
           next == CHOOSE i \in left : \A j \in left : i <= j
           w == Spelt(word, Respelled[Prodelisions[next]][own][1].to)
           f == [Top EXCEPT !.stage = next]
<1>1. stack # <<>> /\ Top.proc = "one"
      /\ library' = library /\ request' = request /\ anals' = anals
  BY DEF CheckString1
<1>2. \/ Respelled["e"][own] = <<>> /\ ret = "none" /\ Push(Top, "two", word)
      \/ Return(ret = "yes", word)
      \/ left # {} /\ Push(f, "two", w)
  BY DEF CheckString1
<1>3. /\ word \in Word /\ Top \in Frames /\ request \in Request
      /\ Top.stage \in Nat /\ own \in Spellings
  BY <1>1, Begins
<1>4. \A q \in Parts : \/ Struck(2, q)
                       \/ /\ Rightly(Top, q, request)
                          /\ \E c \in Started(request) : c.spelling = own
  BY <1>1, TopRight DEF Rightly
<1>5. ASSUME NEW g \in Frames, NEW v \in Word, g.proc = "one", g.own = Top.own,
             Push(g, "two", v),
             (\E c \in Started(request) : c.spelling = own) =>
               \E c \in Wholes(request) : c.spelling = v.spelling
      PROVE  Right'
  <2>1. \A q \in Parts : Struck(2, q) \/ Rightly(g, q, request)
    BY <1>4, <1>5 DEF Rightly
  <2>2. ASSUME NEW q \in Parts, ~ Struck(2, q)
        PROVE  Rightly(Frame("two", v), q, request)
    <3>1. \E c \in Wholes(request) : c.spelling = v.spelling
      BY <1>4, <1>5, <2>2
    <3>2. Frame("two", v).proc = "two" /\ Frame("two", v).kept = v /\ Frame("two", v).stage = 0
      BY DEF Frame
    <3> QED BY <3>1, <3>2 DEF Rightly
  <2> QED BY <1>1, <1>5, <2>1, <2>2, PushSound DEF Procs
<1>6. CASE Respelled["e"][own] = <<>> /\ ret = "none" /\ Push(Top, "two", word)
  <2>1. word.spelling = own
    BY <1>1, <1>6 DEF Right, WordSound
  <2> HIDE DEF own
  <2>2. (\E c \in Started(request) : c.spelling = own) =>
               \E c \in Wholes(request) : c.spelling = word.spelling
    BY <1>3, <1>6, <2>1, WholeFrom
  <2> QED BY <1>1, <1>3, <1>5, <1>6, <2>2
<1>7. CASE Return(ret = "yes", word)
  <2> DEFINE v == ret = "yes"
  <2>1. Return(v, word)
    BY <1>7
  <2> HIDE DEF v
  <2> QED BY <1>1, <1>3, <2>1, RightReturn
<1>8. CASE left # {} /\ Push(f, "two", w)
  <2>2. left \subseteq Nat
    BY <1>3
  <2>3. next \in left
    <3>1. left # {}
      BY <1>8
    <3> HIDE DEF left
    <3>2. \E i \in left : \A j \in left : i <= j
      BY <2>2, <3>1, Least
    <3> QED BY <3>2
  <2>4. next \in 1 .. 4 /\ next \in Nat /\ Respelled[Prodelisions[next]][own] # <<>>
    <3> HIDE DEF next
    <3> QED BY <1>3, <2>3
  <2> HIDE DEF next, own
  <2> DEFINE made == Respelled[Prodelisions[next]][own]
  <2>5. made \in Seq(Respelling) /\ made[1].to \in Spellings /\ made # <<>>
    BY <1>3, <2>4, RuleNames, Respellings
  <2>6. made[1] \in Elements(made)
    BY <2>5 DEF Elements
  <2>7. w \in Word /\ w.spelling = made[1].to
    BY <1>3, <2>5, WordTypes DEF Spelt, Word
  <2>8. f \in Frames /\ f.proc = "one" /\ f.own = Top.own
    BY <1>1, <1>3, <2>4 DEF Frames
  <2>9. Prodelisions[next] \in Elements(Prodelisions)
    BY <2>4 DEF Elements, Prodelisions
  <2>10. (\E c \in Started(request) : c.spelling = own) =>
               \E c \in Wholes(request) : c.spelling = made[1].to
    <3> DEFINE x == made[1]
               rule == Prodelisions[next]
    <3>1. x \in Elements(Respelled[rule][own]) /\ rule \in Elements(Prodelisions)
      BY <2>6, <2>9
    <3> HIDE DEF x, rule, made
    <3> QED BY <1>3, <3>1, WholeFrom DEF x
  <2> HIDE DEF w, f, made
  <2> QED BY <1>5, <1>8, <2>7, <2>8, <2>10 DEF own
<1> QED BY <1>2, <1>6, <1>7, <1>8

\* In each pass of checkstring2 the word is spelled as it was, and is licensed
\* to what the pass stands for.
LEMMA PassLicensed ==
  ASSUME NEW k \in Word, NEW r \in Request, Unmarked(k, r)
  PROVE  /\ Licensed(k, {}, r)
         /\ r.language # "LATIN" /\ WantsIonic(r) =>
              /\ Licensed(Ionic(k), {}, r)
              /\ r.dialect \cap {"ionic", "prose"} = {} => Licensed(Poetic(k), {}, r)
         /\ Ionic(k).spelling = k.spelling /\ Poetic(k).spelling = k.spelling
<1>1. /\ Ionic(k).spelling = k.spelling /\ Poetic(k).spelling = k.spelling
      /\ Ionic(k).dialect = k.dialect \cup {"ionic", "epic"}
      /\ Poetic(k).dialect = k.dialect
      /\ "UNAUGMENTED" \in Ionic(k).stem /\ "UNAUGMENTED" \in Poetic(k).stem
  BY DEF Ionic, Poetic, Word
<1>2. k.dialect = r.dialect /\ k.stem = {}
  BY DEF Unmarked
<1>3. r.language # "LATIN" => r.language = "GREEK"
  BY DEF Request
<1> QED BY <1>1, <1>2, <1>3 DEF Licensed

\* A pass looks for the word in checkstring3,
LEMMA PassRight ==
  ASSUME SearchInv, Right, stack # <<>>, Top.proc = "two",
         library' = library, request' = request, anals' = anals,
         NEW f \in Frames, NEW w \in Word, Push(f, "three", w),
         \A q \in Parts : Struck(2, q) \/ Rightly(f, q, request),
         f.proc = "two", w.spelling = f.kept.spelling,
         \A q \in Parts : Rightly(f, q, request) => Licensed(w, {}, request)
  PROVE  Right'
<1>1. request \in Request
  BY Begins
<1>2. ASSUME NEW q \in Parts, Rightly(f, q, request)
      PROVE  Rightly(Frame("three", w), q, request)
  <2>1. Licensed(w, {}, request)
    BY <1>2
  <2>2. \E c \in Wholes(request) : c.spelling = w.spelling
    BY <1>2 DEF Rightly
  <2>3. Sound(w, q, request)
    BY <1>1, <2>1, <2>2, SoundWhole
  <2> QED BY <1>1, <2>3, CalledRight
<1>3. \A q \in Parts : Struck(2, q) \/ Strikes(f, q)
                                    \/ Rightly(Frame("three", w), q, request)
  BY <1>2
<1>4. "three" \in Procs /\ anals' \subseteq anals
  BY DEF Procs
<1> QED BY <1>3, <1>4, PushSound

\* What is right for checkstring2.
LEMMA TwoRight ==
  ASSUME NEW f, f.proc = "two", NEW q
  PROVE  Rightly(f, q, request) <=>
           /\ \E c \in Wholes(request) : c.spelling = f.kept.spelling
           /\ f.stage > 2 => WantsIonic(request)
           /\ f.stage > 4 => request.dialect \cap {"ionic", "prose"} = {}
BY DEF Rightly

\* the first time as it is asked for,
LEMMA RightTwo ==
  ASSUME SearchInv, Right, CheckString2
  PROVE  Right'
<1> DEFINE f == [Top EXCEPT !.stage = 1]
<1>1. /\ stack # <<>> /\ Top.proc = "two" /\ Top.stage = 0 /\ Push(f, "three", word)
      /\ library' = library /\ request' = request /\ anals' = anals
  BY DEF CheckString2
<1>3. Top \in Frames /\ word \in Word /\ word = Top.kept /\ Unmarked(Top.kept, request)
      /\ request \in Request
  BY <1>1, PassWord, Begins
<1>4. f \in Frames /\ f.proc = "two" /\ f.kept = Top.kept /\ f.stage = 1
  BY <1>1, <1>3 DEF Frames
<1> HIDE DEF f
<1>5. \A q \in Parts : Struck(2, q) \/ Rightly(f, q, request)
  <2>1. ~ (f.stage > 2) /\ ~ (f.stage > 4)
    BY <1>4
  <2>2. \A q \in Parts : Rightly(Top, q, request) => Rightly(f, q, request)
    BY <1>1, <1>4, <2>1, TwoRight
  <2> QED BY <1>1, <2>2, TopRight
<1>6. Licensed(word, {}, request) /\ word.spelling = f.kept.spelling
  BY <1>3, <1>4, PassLicensed
<1> QED BY <1>1, <1>3, <1>4, <1>5, <1>6, PassRight

\* then with a crasis undone,
LEMMA RightTwoCrasis ==
  ASSUME SearchInv, Right, CheckString2Crasis
  PROVE  Right'
<1> DEFINE f == [Top EXCEPT !.stage = @ + 1]
<1>1. /\ stack # <<>> /\ Top.proc = "two" /\ Top.stage \in {1, 3, 5}
      /\ Push(f, "crasis", word)
      /\ library' = library /\ request' = request /\ anals' = anals
  BY DEF CheckString2Crasis, LooksForCrasis
<1>3. /\ Top \in Frames /\ word \in Word /\ Top.kept \in Word
      /\ Unmarked(Top.kept, request) /\ request \in Request
      /\ Top.stage > 2 => request.language # "LATIN"
      /\ Top.stage = 1 => word = Top.kept
      /\ Top.stage = 3 => word = Ionic(Top.kept)
      /\ Top.stage = 5 => word = Poetic(Top.kept)
  BY <1>1, PassWord, Begins DEF Language
<1>4. f \in Frames /\ f.proc = "two" /\ f.kept = Top.kept /\ f.stage = Top.stage + 1
  BY <1>1, <1>3 DEF Frames
<1> HIDE DEF f
<1>5. ASSUME NEW q \in Parts, Rightly(Top, q, request)
      PROVE  Rightly(f, q, request) /\ Rightly(Frame("crasis", word), q, request)
  <2>1. /\ \E c \in Wholes(request) : c.spelling = Top.kept.spelling
        /\ Top.stage > 2 => WantsIonic(request)
        /\ Top.stage > 4 => request.dialect \cap {"ionic", "prose"} = {}
    BY <1>1, <1>5, TwoRight
  <2>2. (f.stage > 2 => Top.stage > 2) /\ (f.stage > 4 => Top.stage > 4)
    BY <1>1, <1>4
  <2>3. Rightly(f, q, request)
    BY <1>4, <2>1, <2>2, TwoRight
  <2>4. Licensed(word, {}, request) /\ word.spelling = Top.kept.spelling
    <3>1. Top.stage \in {3, 5} => Top.stage > 2
      OBVIOUS
    <3>2. Top.stage = 5 => Top.stage > 4
      OBVIOUS
    <3> QED BY <1>1, <1>3, <2>1, <3>1, <3>2, PassLicensed
  <2> DEFINE g == Frame("crasis", word)
  <2>5. g.proc = "crasis" /\ g.own = word /\ g.kept = word /\ g.stage = 0 /\ g.plan = <<>>
    BY DEF Frame
  <2>6. Elements(<<>>) = {}
    BY DEF Elements
  <2> HIDE DEF g
  <2>7. Rightly(g, q, request)
    BY <2>1, <2>4, <2>5, <2>6 DEF Rightly
  <2> QED BY <2>3, <2>7 DEF g
<1>6. /\ \A q \in Parts : Struck(2, q) \/ Rightly(f, q, request)
      /\ \A q \in Parts : Struck(2, q) \/ Strikes(f, q)
                                       \/ Rightly(Frame("crasis", word), q, request)
  BY <1>1, <1>5, TopRight
<1> QED BY <1>1, <1>3, <1>4, <1>6, PushSound DEF Procs

\* with the Ionic dialect added,
LEMMA RightTwoIonic ==
  ASSUME SearchInv, Right, CheckString2Ionic
  PROVE  Right'
<1> DEFINE f == [Top EXCEPT !.stage = 3, !.own = word]
           v == anals # {}
<1>1. /\ stack # <<>> /\ Top.proc = "two" /\ Top.stage \in {1, 2}
      /\ library' = library /\ request' = request /\ anals' = anals
      /\ \/ Return(v, word)
         \/ /\ request.language # "LATIN" /\ WantsIonic(word)
            /\ Push(f, "three", Ionic(word))
  BY DEF CheckString2Ionic, Language
<1> HIDE DEF v
<1>3. /\ Top \in Frames /\ word \in Word /\ Top.kept \in Word
      /\ Unmarked(Top.kept, request) /\ request \in Request
      /\ word = Top.kept \/ Lowered(Top.kept, word, request)
  BY <1>1, PassWord, Begins
<1>4. CASE Return(v, word)
  BY <1>1, <1>3, <1>4, RightReturn
<1>5. CASE request.language # "LATIN" /\ WantsIonic(word) /\ Push(f, "three", Ionic(word))
  <2>1. word = Top.kept
    BY <1>3, <1>5 DEF Lowered
  <2>2. f \in Frames /\ f.proc = "two" /\ f.kept = Top.kept /\ f.stage = 3
    BY <1>1, <1>3 DEF Frames
  <2> HIDE DEF f
  <2>3. WantsIonic(request)
    BY <1>3, <1>5, <2>1 DEF WantsIonic, Unmarked
  <2>4. \A q \in Parts : Struck(2, q) \/ Rightly(f, q, request)
    <3>1. ~ (f.stage > 4)
      BY <2>2
    <3>2. \A q \in Parts : Rightly(Top, q, request) => Rightly(f, q, request)
      BY <1>1, <2>2, <2>3, <3>1, TwoRight
    <3> QED BY <1>1, <3>2, TopRight
  <2> DEFINE w == Ionic(word)
  <2>5. w \in Word /\ Licensed(w, {}, request) /\ w.spelling = f.kept.spelling
    <3>1. w \in Word
      BY <1>3, WordTypes DEF Word
    <3> QED BY <1>3, <1>5, <2>1, <2>2, <2>3, <3>1, PassLicensed
  <2>6. Push(f, "three", w)
    BY <1>5
  <2> HIDE DEF w
  <2> QED BY <1>1, <2>2, <2>4, <2>5, <2>6, PassRight
<1> QED BY <1>1, <1>4, <1>5

\* and as poetry;
LEMMA RightTwoPoetic ==
  ASSUME SearchInv, Right, CheckString2Poetic
  PROVE  Right'
<1> DEFINE f == [Top EXCEPT !.stage = 5]
           v == anals # {}
           back == PutBack(word, Top.own)
<1>1. /\ stack # <<>> /\ Top.proc = "two" /\ Top.stage \in {3, 4}
      /\ library' = library /\ request' = request /\ anals' = anals
      /\ \/ Return(v, back)
         \/ back.dialect \cap {"ionic", "prose"} = {} /\ Push(f, "three", Poetic(back))
  BY DEF CheckString2Poetic
<1> HIDE DEF v
<1>3. /\ Top \in Frames /\ Top.kept \in Word /\ request.language # "LATIN"
      /\ Unmarked(Top.kept, request) /\ request \in Request
      /\ back = Top.kept
  <2>1. /\ Top.kept \in Word /\ Unmarked(Top.kept, request)
        /\ word = Ionic(Top.kept) /\ Top.own = Top.kept /\ Language # "LATIN"
        /\ Top \in Frames
    BY <1>1, PassWord
  <2> QED BY <1>1, <2>1, PassesUndone, Begins DEF Language
<1> HIDE DEF back
<1>4. CASE Return(v, back)
  BY <1>1, <1>3, <1>4, RightReturn
<1>5. CASE back.dialect \cap {"ionic", "prose"} = {} /\ Push(f, "three", Poetic(back))
  <2>2. f \in Frames /\ f.proc = "two" /\ f.kept = Top.kept /\ f.stage = 5
    BY <1>1, <1>3 DEF Frames
  <2> HIDE DEF f
  <2>3. request.dialect \cap {"ionic", "prose"} = {}
    BY <1>3, <1>5 DEF Unmarked
  <2>7. Top.stage > 2
    BY <1>1
  <2>4. ASSUME NEW q \in Parts, Rightly(Top, q, request)
        PROVE  WantsIonic(request) /\ Rightly(f, q, request)
    BY <1>1, <2>2, <2>3, <2>4, <2>7, TwoRight
  <2>8. \A q \in Parts : Struck(2, q) \/ Rightly(f, q, request)
    BY <1>1, <2>4, TopRight
  <2> DEFINE w == Poetic(back)
  <2>5. /\ w \in Word /\ w.spelling = f.kept.spelling
        /\ WantsIonic(request) => Licensed(w, {}, request)
    <3>1. w \in Word
      BY <1>3, WordTypes DEF Word
    <3> QED BY <1>3, <2>2, <2>3, <3>1, PassLicensed
  <2>6. Push(f, "three", w)
    BY <1>5
  <2> HIDE DEF w
  <2>9. f.stage > 2
    BY <2>2
  <2>10. \A q \in Parts : Rightly(f, q, request) => Licensed(w, {}, request)
    BY <2>2, <2>5, <2>9, TwoRight
  <2> QED BY <1>1, <2>2, <2>8, <2>5, <2>6, <2>10, PassRight
<1> QED BY <1>1, <1>4, <1>5

\* and it returns.
LEMMA RightTwoEnds ==
  ASSUME SearchInv, Right, CheckString2Ends
  PROVE  Right'
<1> DEFINE v == anals # {}
           back == PutBack(word, Top.own)
<1>1. /\ stack # <<>> /\ Top.proc = "two" /\ Top.stage \in {5, 6}
      /\ library' = library /\ request' = request /\ anals' = anals
      /\ Return(v, back)
  BY DEF CheckString2Ends
<1> HIDE DEF v
<1>3. Top.kept \in Word /\ back = Top.kept
  <2>1. /\ Top.kept \in Word /\ Unmarked(Top.kept, request)
        /\ word = Poetic(Top.kept) /\ Top.own = Top.kept
    BY <1>1, PassWord
  <2> QED BY <2>1, PassesUndone
<1> HIDE DEF back
<1> QED BY <1>1, <1>3, RightReturn

\* Where in checkstring3 its rules stand.
LEMMA Stages ==
  ASSUME NEW L \in {"GREEK", "LATIN"}, NEW i \in 1 .. Len(Stages3[L])
  PROVE  /\ Stages3[L][i] = "lower" <=> i = 2
         /\ Stages3[L][i] = "enclitic" <=> i = 4
         /\ Stages3[L][i] \in Rules \ {"crasis"}
         /\ Stages3[L][i] \in {"plain", "lower"} \/ Stages3[L][i] \in Recursive
<1> DEFINE G == Stages3.GREEK
           A == Stages3.LATIN
           q == A \o Elisions
<1>1. G = <<"plain", "lower", "elided", "enclitic">>
  BY DEF Stages3
<1>2. A = <<"plain", "lower", "elided", "enclitic", "est", "ust",
            "ist", "n", "v", "J", "j", "ex">>
  BY DEF Stages3
<1>3. /\ Len(G) = 4 /\ \A j \in 1 .. 4 : (G[j] = "lower" <=> j = 2)
                                      /\ (G[j] = "enclitic" <=> j = 4)
                                      /\ G[j] # "crasis"
      /\ Len(A) = 12 /\ \A j \in 1 .. 12 : (A[j] = "lower" <=> j = 2)
                                         /\ (A[j] = "enclitic" <=> j = 4)
                                         /\ A[j] # "crasis"
      /\ \A j \in 1 .. 4 : G[j] = A[j]
  <2> HIDE DEF G, A
  <2> QED BY <1>1, <1>2
<1>4. \A j \in 1 .. 12 : A[j] \in Rules /\ A[j] \in Elements(q)
  <2>1. \A j \in 1 .. 12 : A[j] \in Rules
    <3>1. DOMAIN A = 1 .. 12
      BY <1>2
    <3> QED BY <3>1, RuleNames
  <2> DEFINE Names == {"plain", "lower", "elided", "enclitic", "est", "ust", "ist",
                       "n", "v", "J", "j", "ex", "aspirate", "ai", "unaccented"}
  <2>2. A \in Seq(Names) /\ Elisions \in Seq(Names)
    <3>1. Elisions \in Seq(Names)
      BY DEF Elisions
    <3> HIDE DEF A
    <3>2. A \in Seq(Names)
      BY <1>2
    <3> QED BY <3>1, <3>2
  <2> HIDE DEF A
  <2>3. Elements(q) = Elements(A) \cup Elements(Elisions)
    BY <2>2, ElementsOfBoth
  <2>4. \A j \in 1 .. 12 : A[j] \in Elements(A)
    BY <1>3, <2>2 DEF Elements
  <2> QED BY <2>1, <2>3, <2>4
<1>5. Elements(q) \ {"plain", "lower"} = Recursive
  BY DEF Recursive
<1>6. L = "GREEK" => Stages3[L] = G
  OBVIOUS
<1>7. L = "LATIN" => Stages3[L] = A
  OBVIOUS
<1> HIDE DEF G, A, q
<1>8. CASE L = "GREEK"
  <2>1. i \in 1 .. 4 /\ i \in 1 .. 12 /\ Stages3[L][i] = A[i]
    <3>1. Stages3[L] = G /\ i \in 1 .. Len(G)
      BY <1>6, <1>8
    <3>2. i \in 1 .. 4 /\ i \in 1 .. 12
      BY <1>3, <3>1
    <3> QED BY <1>3, <3>1, <3>2
  <2> QED BY <1>3, <1>4, <1>5, <2>1
<1>9. CASE L = "LATIN"
  <2>1. i \in 1 .. 12 /\ Stages3[L][i] = A[i]
    BY <1>3, <1>7, <1>9
  <2> QED BY <1>3, <1>4, <1>5, <2>1
<1> QED BY <1>8, <1>9

\* How many there are.
LEMMA StagesLong ==
  ASSUME NEW L \in {"GREEK", "LATIN"}
  PROVE  Len(Stages3[L]) = 4 \/ Len(Stages3[L]) = 12
<1>1. CASE L = "GREEK"
  <2>1. Stages3[L] = <<"plain", "lower", "elided", "enclitic">>
    BY <1>1 DEF Stages3
  <2> QED BY <2>1
<1>2. CASE L = "LATIN"
  <2>1. Stages3[L] = <<"plain", "lower", "elided", "enclitic", "est", "ust",
                       "ist", "n", "v", "J", "j", "ex">>
    BY <1>2 DEF Stages3
  <2> QED BY <2>1
<1> QED BY <1>1, <1>2

\* The second and the fourth of them are there in both languages.
LEMMA StagesThere ==
  ASSUME request \in Request
  PROVE  /\ Language \in {"GREEK", "LATIN"} /\ Language = request.language
         /\ 2 \in 1 .. Len(Stages3[Language]) /\ 4 \in 1 .. Len(Stages3[Language])
         /\ Stages3[Language][2] = "lower" /\ Stages3[Language][4] = "enclitic"
<1>1. Language \in {"GREEK", "LATIN"} /\ Language = request.language
  BY DEF Language, Request
<1>2. Len(Stages3[Language]) = 4 \/ Len(Stages3[Language]) = 12
  BY <1>1, StagesLong
<1>3. 2 \in 1 .. Len(Stages3[Language]) /\ 4 \in 1 .. Len(Stages3[Language])
  <2> DEFINE n == Len(Stages3[Language])
  <2>1. n = 4 \/ n = 12
    BY <1>2
  <2> HIDE DEF n
  <2>2. 2 \in 1 .. n /\ 4 \in 1 .. n
    BY <2>1
  <2> QED BY <2>2 DEF n
<1>4. Stages3[Language][2] = "lower" /\ Stages3[Language][4] = "enclitic"
  BY <1>1, <1>3, Stages
<1> QED BY <1>1, <1>3, <1>4

\* What is right for checkstring3.
LEMMA ThreeRight ==
  ASSUME NEW f, f.proc = "three", NEW q
  PROVE  Rightly(f, q, request) <=>
           /\ Sound(f.own, q, request)
           /\ f.stage \in 0 .. Len(Stages3[request.language])
           /\ f.stage = 2 =>
                /\ f.plan # <<>> => ~request.strict
                /\ Elements(f.plan) \subseteq Elements(Respelled["lower"][f.own.spelling])
           /\ f.stage # 2 => \A x \in Elements(f.plan) :
                \/ f.stage = 4 /\ q \notin x.accepts
                \/ Sound(Spelt(f.own, x.to), q, request)
BY DEF Rightly

\* The rest of a plan is part of it.
LEMMA RestOfPlan ==
  ASSUME NEW plan \in Seq(Respelling), plan # <<>>
  PROVE  /\ Head(plan) \in Elements(plan) /\ Head(plan) \in Respelling
         /\ Tail(plan) \in Seq(Respelling) /\ Elements(Tail(plan)) \subseteq Elements(plan)
         /\ Elements(<<>>) = {} /\ Head(plan).to \in Spellings
<1>1. Head(plan) = plan[1] /\ 1 \in DOMAIN plan /\ Head(plan) \in Respelling
  OBVIOUS
<1>2. Tail(plan) \in Seq(Respelling) /\ DOMAIN Tail(plan) = 1 .. Len(plan) - 1
      /\ \A i \in 1 .. Len(plan) - 1 : Tail(plan)[i] = plan[i + 1]
      /\ \A j \in 1 .. Len(plan) - 1 : j + 1 \in DOMAIN plan
  OBVIOUS
<1>3. Elements(Tail(plan)) \subseteq Elements(plan)
  <2> DEFINE t == Tail(plan)
  <2> HIDE DEF t
  <2>1. \A i \in DOMAIN t : t[i] \in Elements(plan)
    BY <1>2 DEF Elements, t
  <2> QED BY <2>1 DEF Elements, t
<1>4. Head(plan).to \in Spellings
  BY <1>1 DEF Respelling
<1> QED BY <1>1, <1>2, <1>3, <1>4 DEF Elements

\* What checkstring4 finds under the word, or a spelling of it, is an answer.
LEMMA FindsRight ==
  ASSUME SearchInv, stack # <<>>, NEW s \in Spellings,
         NEW e, e \in CheckString4(s, word),
         \E k \in Candidates(request) :
            k.spelling = s /\ e.part \in k.parts /\ Licensed(word, k.dialect, request)
  PROVE  e \in Answers(request)
<1>1. request \in Request /\ library \subseteq Entry
  BY DEF SearchInv, TypeOK
<1> QED BY <1>1, HitsAnswer

\* What is found is in the library, with its part of speech.
LEMMA FoundParts ==
  ASSUME SearchInv, NEW s, NEW w, NEW e, e \in CheckString4(s, w)
  PROVE  e.part \in Parts
<1>1. e \in library /\ library \subseteq Entry
  BY HitsStored DEF SearchInv, TypeOK
<1> QED BY <1>1 DEF Entry

\* checkstring3 looks the word up as it is spelled;
LEMMA RightThreePlain ==
  ASSUME SearchInv, Right, CheckString3Plain
  PROVE  Right'
<1> DEFINE matches == CheckString4(word.spelling, word)
           b == matches # {}
           f == [Top EXCEPT !.stage = 1, !.found = b]
<1>1. /\ stack # <<>> /\ Top.proc = "three" /\ Top.stage = 0 /\ Stay(f, word)
      /\ library' = library /\ request' = request /\ anals' = anals \cup matches
  BY DEF CheckString3Plain
<1>2. b \in BOOLEAN
  OBVIOUS
<1> HIDE DEF b, matches
<1>3. /\ Top \in Frames /\ word \in Word /\ word.spelling \in Spellings
      /\ Top.own = Top.kept /\ Like(word, Top.kept) /\ request \in Request
  BY <1>1, ThreeWord, Begins DEF Word
<1>4. f \in Frames /\ f.proc = "three" /\ f.own = Top.own /\ f.stage = 1
      /\ f.plan = Top.plan
  BY <1>1, <1>2, <1>3 DEF Frames
<1> HIDE DEF f
<1>5. \A q : ~ Strikes(Top, q)
  BY <1>1 DEF Strikes
<1>6. ASSUME NEW q \in Parts
      PROVE  /\ Struck(2, q) \/ Rightly(f, q, request)
             /\ Struck(2, q) \/ Sound(word, q, request)
  <2>1. Rightly(Top, q, request) => Rightly(f, q, request)
    <3>1. 1 \in 0 .. Len(Stages3[request.language])
      <4>1. \/ Len(Stages3[request.language]) = 4
            \/ Len(Stages3[request.language]) = 12
        BY <1>3, StagesLong DEF Request
      <4> DEFINE n == Len(Stages3[request.language])
      <4>2. n = 4 \/ n = 12
        BY <4>1
      <4> HIDE DEF n
      <4>3. 1 \in 0 .. n
        BY <4>2
      <4> QED BY <4>3 DEF n
    <3> QED BY <1>1, <1>4, <3>1, ThreeRight
  <2>2. Struck(Waiting, q) => Struck(2, q)
    <3>1. Waiting \in {1, 2}
      BY DEF Waiting
    <3> QED BY <1>1, <1>5, <3>1, FromTop
  <2>3. Struck(Waiting, q) \/ Sound(word, q, request)
    BY <1>1 DEF Right, WordSound, Lowering
  <2> QED BY <1>1, <2>1, <2>2, <2>3, TopRight
<1>7. ASSUME NEW e \in anals' PROVE Struck(2, e.part) \/ e \in Answers(request)
  <2>1. CASE e \in anals
    BY <1>1, <1>5, <2>1, AnalsKept
  <2>2. CASE e \in matches
    <3>1. e.part \in Parts /\ e \in CheckString4(word.spelling, word)
      BY <2>2, FoundParts DEF matches
    <3>2. ASSUME Sound(word, e.part, request) PROVE e \in Answers(request)
      <4>1. \E k \in Candidates(request) : /\ k.spelling = word.spelling
              /\ e.part \in k.parts /\ Licensed(word, k.dialect, request)
        BY <1>3, <3>1, <3>2, CandidateOf
      <4> QED BY <1>1, <1>3, <3>1, <4>1, FindsRight
    <3> QED BY <1>6, <3>1, <3>2
  <2> QED BY <1>1, <2>1, <2>2
<1> QED BY <1>1, <1>3, <1>4, <1>6, <1>7, StaySound

\* What is licensed for a word is for another with its dialect and flags.
LEMMA LicensedLike ==
  ASSUME NEW v, NEW w, Like(w, v), NEW d, NEW r, Licensed(v, d, r)
  PROVE  Licensed(w, d, r)
BY DEF Licensed, Like

\* in lower case;
LEMMA RightThreeLower ==
  ASSUME SearchInv, Right, CheckString3Lower
  PROVE  Right'
<1> DEFINE own   == Restored(word, Top)
           lower == Spelt(word, Head(Top.plan).to)
           matches  == CheckString4(lower.spelling, word)
           f == [Top EXCEPT !.plan = Tail(@), !.found = FALSE]
           w == IF Tail(Top.plan) = <<>> THEN own ELSE lower
<1>1. /\ stack # <<>> /\ Top.proc = "three" /\ Top.plan # <<>>
      /\ Top.stage > 0 /\ Stages3[Language][Top.stage] = "lower"
      /\ library' = library /\ request' = request
  BY DEF CheckString3Lower, Pending, Stage3
<1>2. /\ anals' = anals \cup matches
      /\ Return(TRUE, own) \/ Stay(f, w)
  BY DEF CheckString3Lower
<1>3. /\ Top \in Frames /\ Top.plan \in Seq(Respelling) /\ own = Top.kept
      /\ Top.kept \in Word /\ Top.own = Top.kept /\ word \in Word
      /\ Like(word, Top.kept) /\ request \in Request /\ Top.own \in Word
  BY <1>1, ThreeWord, Begins
<1>4. /\ Head(Top.plan).to \in Spellings /\ Tail(Top.plan) \in Seq(Respelling)
      /\ Head(Top.plan) \in Elements(Top.plan)
      /\ Elements(Tail(Top.plan)) \subseteq Elements(Top.plan)
  BY <1>1, <1>3, RestOfPlan
<1>5. lower \in Word /\ lower.spelling = Head(Top.plan).to
  BY <1>1, <1>3, <1>4, ThreeWord DEF Spelt, Word
<1>6. /\ f \in Frames /\ f.proc = "three" /\ f.own = Top.own /\ f.stage = Top.stage
      /\ f.plan = Tail(Top.plan)
  BY <1>1, <1>3, <1>4 DEF Frames
<1>7. w \in Word /\ (Tail(Top.plan) = <<>> => w = Top.own)
  <2> HIDE DEF own, lower
  <2> QED BY <1>3, <1>5
<1> HIDE DEF f, w, own, lower
<1>8. ASSUME NEW q \in Parts, Rightly(Top, q, request)
      PROVE  /\ Top.stage = 2 /\ ~ request.strict /\ Sound(Top.own, q, request)
             /\ Head(Top.plan) \in Elements(Respelled["lower"][Top.own.spelling])
             /\ Rightly(f, q, request)
  <2>1. /\ Sound(Top.own, q, request)
        /\ Top.stage \in 0 .. Len(Stages3[request.language])
        /\ Top.stage = 2 =>
             /\ Top.plan # <<>> => ~request.strict
             /\ Elements(Top.plan) \subseteq Elements(Respelled["lower"][Top.own.spelling])
    BY <1>1, <1>8, ThreeRight
  <2>2. Top.stage = 2
    <3>1. Language \in {"GREEK", "LATIN"} /\ Language = request.language
      BY <1>3, StagesThere
    <3>2. Top.stage \in 1 .. Len(Stages3[Language])
      BY <1>1, <2>1, <3>1
    <3> QED BY <1>1, <3>1, <3>2, Stages
  <2>3. Rightly(f, q, request)
    BY <1>1, <1>4, <1>6, <2>1, <2>2, ThreeRight
  <2> QED BY <1>1, <1>4, <2>1, <2>2, <2>3
<1>9. ASSUME NEW e \in anals' PROVE Struck(2, e.part) \/ e \in Answers(request)
  <2>1. CASE e \in anals
    <3>1. e.part \in Parts
      BY <2>1 DEF SearchInv, TypeOK, Entry
    <3>2. Rightly(Top, e.part, request) => ~ Strikes(Top, e.part)
      BY <1>8, <3>1 DEF Strikes
    <3> QED BY <1>1, <2>1, <3>1, <3>2, AnalsKept, TopRight
  <2>2. CASE e \in matches
    <3>1. e.part \in Parts /\ e \in CheckString4(Head(Top.plan).to, word)
      BY <1>5, <2>2, FoundParts
    <3>2. ASSUME Rightly(Top, e.part, request) PROVE e \in Answers(request)
      <4> DEFINE x == Head(Top.plan)
      <4>1. /\ x \in Elements(Respelled["lower"][Top.own.spelling])
            /\ ~ request.strict /\ Sound(Top.own, e.part, request)
        BY <1>8, <3>1, <3>2
      <4> HIDE DEF x
      <4>2. \E k \in Candidates(request) : /\ k.spelling = x.to
              /\ e.part \in k.parts /\ Licensed(Top.own, k.dialect, request)
        BY <1>3, <3>1, <4>1, LowerCandidate
      <4>3. \E k \in Candidates(request) : /\ k.spelling = x.to
              /\ e.part \in k.parts /\ Licensed(word, k.dialect, request)
        BY <1>3, <4>2, LicensedLike
      <4> QED BY <1>1, <1>4, <3>1, <4>3, FindsRight DEF x
    <3> QED BY <1>1, <3>1, <3>2, TopRight
  <2> QED BY <1>2, <2>1, <2>2
<1>10. CASE Stay(f, w)
  <2>1. \A q \in Parts : Struck(2, q) \/ Rightly(f, q, request)
    BY <1>1, <1>8, TopRight
  <2>2. ASSUME NEW q \in Parts
        PROVE  Struck(2, q) \/ Lowering(f) \/ Sound(w, q, request)
    <3>1. Rightly(Top, q, request) => Lowering(f) \/ Sound(w, q, request)
      BY <1>6, <1>7, <1>8 DEF Lowering
    <3> QED BY <1>1, <3>1, TopRight
  <2> QED BY <1>1, <1>6, <1>7, <1>9, <1>10, <2>1, <2>2, StaySound
<1>11. CASE Return(TRUE, own)
  <2> HIDE DEF matches
  <2> QED BY <1>1, <1>3, <1>9, <1>11, ReturnSound
<1> QED BY <1>2, <1>10, <1>11

\* What checkstring3 knows of the word at hand between two calls, or after one
\* that strikes off nothing.
LEMMA ThreeSound ==
  ASSUME SearchInv, Right, stack # <<>>, Top.proc = "three", ~ Lowering(Top),
         NEW q \in Parts, ret = "none" \/ ~ Strikes(Top, q)
  PROVE  Struck(2, q) \/ Sound(word, q, request)
<1>1. Struck(Waiting, q) \/ Sound(word, q, request)
  BY DEF Right, WordSound
<1>2. ret = "none" => Waiting = 2
  BY DEF Waiting
<1>3. ret # "none" => Waiting = 1
  BY DEF Waiting
<1> QED BY <1>1, <1>2, <1>3, FromTop

\* A word spelled another way is like one of its dialect and flags that is
\* spelled so too.
LEMMA SpeltAlike ==
  ASSUME NEW v \in Word, NEW w \in Word, Like(w, v), NEW s \in Spellings
  PROVE  /\ Spelt(w, s).spelling = Spelt(v, s).spelling
         /\ Spelt(w, s).dialect = Spelt(v, s).dialect
         /\ Spelt(w, s).stem = Spelt(v, s).stem
         /\ Spelt(w, s).spelling = s
         /\ Spelt(w, s).dialect = w.dialect /\ Spelt(w, s).stem = w.stem
         /\ Spelt(v, s).dialect = v.dialect /\ Spelt(v, s).stem = v.stem
BY DEF Spelt, Like, Word

\* respelled, in a search of its own;
LEMMA RightThreeRespell ==
  ASSUME SearchInv, Right, CheckString3Respell
  PROVE  Right'
<1> DEFINE w == Spelt(word, Head(Top.plan).to)
<1>1. /\ stack # <<>> /\ Top.proc = "three" /\ Top.plan # <<>> /\ ret = "none"
      /\ Stages3[Language][Top.stage] # "lower"
      /\ library' = library /\ request' = request /\ anals' = anals
      /\ Push(Top, "apostr", word) \/ Push(Top, "three", w)
  BY DEF CheckString3Respell, Pending, Stage3
<1>2. /\ Top \in Frames /\ Top.plan \in Seq(Respelling) /\ Top.own = Top.kept
      /\ Top.kept \in Word /\ word \in Word /\ Like(word, Top.kept) /\ request \in Request
  BY <1>1, ThreeWord, Begins
<1>3. Top.stage # 2
  BY <1>1, <1>2, StagesThere
<1>4. ~ Lowering(Top)
  BY <1>3 DEF Lowering
<1>5. \A q \in Parts : Struck(2, q) \/ Rightly(Top, q, request)
  BY <1>1, TopRight
<1>6. CASE Push(Top, "apostr", word)
  <2>1. \A q \in Parts : Struck(2, q) \/ Rightly(Frame("apostr", word), q, request)
    BY <1>1, <1>2, <1>4, ThreeSound, CalledRight
  <2> QED BY <1>1, <1>2, <1>5, <1>6, <2>1, PushSound DEF Procs
<1>7. CASE Push(Top, "three", w)
  <2> DEFINE x == Head(Top.plan)
  <2>1. x \in Elements(Top.plan) /\ x.to \in Spellings
    BY <1>1, <1>2, RestOfPlan
  <2>2. /\ w \in Word /\ w.spelling = Spelt(Top.own, x.to).spelling
        /\ w.dialect = Spelt(Top.own, x.to).dialect
        /\ w.stem = Spelt(Top.own, x.to).stem
    BY <1>1, <1>2, <2>1, SpeltAlike, ThreeWord
  <2> HIDE DEF w
  <2>3. ASSUME NEW q \in Parts, Rightly(Top, q, request), ~ Strikes(Top, q)
        PROVE  Rightly(Frame("three", w), q, request)
    <3>1. \/ Top.stage = 4 /\ q \notin x.accepts
          \/ Sound(Spelt(Top.own, x.to), q, request)
      BY <1>1, <1>3, <2>1, <2>3, ThreeRight
    <3>2. Sound(Spelt(Top.own, x.to), q, request)
      BY <1>1, <2>3, <3>1 DEF Strikes
    <3>3. Sound(w, q, request)
      BY <2>2, <3>2, SoundLike
    <3> QED BY <1>2, <3>3, CalledRight
  <2>4. \A q \in Parts : Struck(2, q) \/ Strikes(Top, q)
                                      \/ Rightly(Frame("three", w), q, request)
    BY <1>5, <2>3
  <2> QED BY <1>1, <1>2, <1>5, <1>7, <2>2, <2>4, PushSound DEF Procs
<1> QED BY <1>1, <1>6, <1>7

\* it comes back from that search, and strikes off what may not carry the
\* enclitic;
LEMMA RightThreeBack ==
  ASSUME SearchInv, Right, CheckString3Back
  PROVE  Right'
<1> DEFINE any == ret = "yes" \/ (Stage3 \in Adds /\ Top.found)
           f == [Top EXCEPT !.plan = Rest(Top), !.found = any]
           w == IF Stage3 = "enclitic" THEN Restored(word, Top) ELSE word
           own == Restored(word, Top)
<1>1. /\ stack # <<>> /\ Top.proc = "three" /\ ret # "none"
      /\ library' = library /\ request' = request
      /\ anals' = IF Stage3 = "enclitic" THEN Carried(Head(Top.plan)) ELSE anals
      /\ Return(TRUE, own) \/ Stay(f, w)
  BY DEF CheckString3Back
<1>2. /\ Top \in Frames /\ Top.plan \in Seq(Respelling) /\ Top.plan # <<>>
      /\ word \in Word /\ Like(word, Top.kept) /\ own = Top.kept /\ request \in Request
      /\ Top.kept \in Word /\ Top.found \in BOOLEAN /\ Top.own = Top.kept
  BY <1>1, ThreeWord, Begins
<1>3. /\ Rest(Top) \in Seq(Respelling) /\ Elements(Rest(Top)) \subseteq Elements(Top.plan)
  <2>1. <<>> \in Seq(Respelling)
    OBVIOUS
  <2>2. Rest(Top) = <<>> \/ Rest(Top) = Tail(Top.plan)
    BY DEF Rest
  <2> QED BY <1>2, <2>1, <2>2, RestOfPlan
<1>4. any \in BOOLEAN
  BY <1>2, Zenon
<1>5. /\ w \in Word /\ (Stage3 = "enclitic" => w = Top.own)
      /\ Stage3 # "enclitic" => w = word
  BY <1>2
<1> HIDE DEF any, own, w
<1>6. /\ f \in Frames /\ f.proc = "three" /\ f.own = Top.own /\ f.stage = Top.stage
      /\ f.plan = Rest(Top)
  BY <1>1, <1>2, <1>3, <1>4 DEF Frames
<1> HIDE DEF f
<1>7. Top.stage = 4 => Stage3 = "enclitic"
  BY <1>2, StagesThere DEF Stage3
<1>8. ASSUME NEW e \in anals' PROVE Struck(2, e.part) \/ e \in Answers(request)
  <2>1. e \in anals /\ (Stage3 = "enclitic" => e.part \in Head(Top.plan).accepts)
    BY <1>1 DEF Carried
  <2>2. ~ Strikes(Top, e.part)
    BY <1>7, <2>1 DEF Strikes
  <2> QED BY <1>1, <2>1, <2>2, AnalsKept
<1>9. CASE Return(TRUE, own)
  BY <1>1, <1>2, <1>8, <1>9, ReturnSound
<1>10. CASE Stay(f, w)
  <2>1. ASSUME NEW q \in Parts, Rightly(Top, q, request)
        PROVE  Rightly(f, q, request) /\ Sound(Top.own, q, request)
    <3>1. /\ Sound(Top.own, q, request)
          /\ Top.stage \in 0 .. Len(Stages3[request.language])
          /\ Top.stage = 2 =>
               /\ Top.plan # <<>> => ~request.strict
               /\ Elements(Top.plan) \subseteq Elements(Respelled["lower"][Top.own.spelling])
          /\ Top.stage # 2 => \A x \in Elements(Top.plan) :
               \/ Top.stage = 4 /\ q \notin x.accepts
               \/ Sound(Spelt(Top.own, x.to), q, request)
      BY <1>1, <2>1, ThreeRight
    <3> QED BY <1>2, <1>3, <1>6, <3>1, ThreeRight
  <2>2. ASSUME NEW q \in Parts
        PROVE  Struck(2, q) \/ Lowering(f) \/ Sound(w, q, request)
    <3>1. CASE Stage3 = "enclitic"
      BY <1>1, <1>5, <2>1, <3>1, TopRight
    <3>2. CASE Stage3 # "enclitic"
      <4>1. Struck(Waiting, q) \/ Sound(word, q, request)
        BY <1>1 DEF Right, WordSound
      <4>2. Waiting = 1 /\ ~ Strikes(Top, q)
        BY <1>1, <1>7, <3>2 DEF Waiting, Strikes
      <4> QED BY <1>1, <1>5, <3>2, <4>1, <4>2, FromTop
    <3> QED BY <3>1, <3>2
  <2>3. \A q \in Parts : Struck(2, q) \/ Rightly(f, q, request)
    BY <1>1, <2>1, TopRight
  <2> QED BY <1>1, <1>5, <1>6, <1>8, <1>10, <2>2, <2>3, StaySound
<1> QED BY <1>1, <1>9, <1>10

\* What a rule makes of a word that is right for what is found.
LEMMA PlanRight ==
  ASSUME request \in Request, NEW o \in Word, NEW w \in Word, Like(w, o),
         NEW q \in Parts, Sound(w, q, request), NEW rule \in Recursive,
         NEW x, x \in Elements(Respelled[rule][w.spelling])
  PROVE  \/ rule = "enclitic" /\ q \notin x.accepts
         \/ Sound(Spelt(o, x.to), q, request)
<1>1. w.spelling \in Spellings /\ rule \in Rules
  BY RecursiveRules DEF Word
<1>2. Respelled[rule][w.spelling] \in Seq(Respelling)
  BY <1>1, Constants
<1>3. x.to \in Spellings
  <2>1. x \in Respelling
    BY <1>2 DEF Elements
  <2> QED BY <2>1 DEF Respelling
<1>4. rule # "enclitic" => x.accepts = Parts
  BY <1>1, Constants
<1> DEFINE v == Spelt(o, x.to)
<1>5. v.spelling = x.to /\ v.dialect = w.dialect /\ v.stem = w.stem
  BY <1>3, SpeltAlike DEF Like
<1> HIDE DEF v
<1>6. q \in x.accepts => Sound(v, q, request)
  BY <1>5, SoundFurther
<1> QED BY <1>4, <1>6 DEF v

\* and it goes on to the next rule, or returns.
LEMMA RightThreeNext ==
  ASSUME SearchInv, Right, CheckString3Next
  PROVE  Right'
<1> DEFINE left == {i \in Top.stage + 1 .. Len(Stages3[Language]) :
                      Plan3(Stages3[Language][i], Top) # <<>>}
           next == CHOOSE i \in left : \A j \in left : i <= j
           rule == Stages3[Language][next]
           plan == Plan3(rule, Top)
           f == [Top EXCEPT !.stage = next, !.plan = plan]
<1>1. /\ stack # <<>> /\ Top.proc = "three" /\ ret = "none" /\ ~ Pending
      /\ library' = library /\ request' = request /\ anals' = anals
  BY DEF CheckString3Next
<1>2. Return(Top.found, Restored(word, Top)) \/ (left # {} /\ Stay(f, word))
  BY Zenon DEF CheckString3Next
<1>3. /\ Top \in Frames /\ word \in Word /\ Like(word, Top.kept)
      /\ Top.kept \in Word /\ Top.own = Top.kept /\ Restored(word, Top) = Top.kept
      /\ Top.stage \in Nat /\ request \in Request
  BY <1>1, ThreeWord, Begins
<1>4. Language \in {"GREEK", "LATIN"} /\ Language = request.language
  BY <1>3, StagesThere
<1>5. \A e \in anals' : Struck(2, e.part) \/ e \in Answers(request)
  BY <1>1, AnalsKept
<1>6. CASE Return(Top.found, Restored(word, Top))
  <2> DEFINE w == Restored(word, Top)
             v == Top.found
  <2>1. w = Top.kept /\ w \in Word /\ Return(v, w)
    BY <1>3, <1>6
  <2> HIDE DEF v, w
  <2> QED BY <1>1, <1>5, <2>1, ReturnSound
<1>7. CASE left # {} /\ Stay(f, word)
  <2>1. left \subseteq Nat
    BY <1>3
  <2>2. next \in left
    <3>1. left # {}
      BY <1>7
    <3> HIDE DEF left
    <3>2. \E i \in left : \A j \in left : i <= j
      BY <2>1, <3>1, Least
    <3> QED BY <3>2
  <2>3. next \in Nat /\ next \in 1 .. Len(Stages3[Language]) /\ plan # <<>>
    <3> HIDE DEF next
    <3> QED BY <1>3, <2>1, <2>2
  <2> HIDE DEF next
  <2>4. /\ rule = "lower" <=> next = 2
        /\ rule = "enclitic" <=> next = 4
        /\ rule \in Rules
        /\ rule \in {"plain", "lower"} \/ rule \in Recursive
    BY <1>4, <2>3, Stages
  <2> HIDE DEF rule
  <2>5. plan \in Seq(Respelling)
    BY <1>3, <2>4, PlanTyped
  <2>6. /\ rule # "plain" /\ (rule = "lower" => ~ request.strict)
        /\ rule = "lower" => plan = Respelled[rule][Top.own.spelling]
        /\ \/ plan = Respelled[rule][Top.own.spelling]
           \/ plan = Respelled[rule][word.spelling]
    BY <2>3, Zenon DEF Plan3, RespellsOwn
  <2> HIDE DEF plan
  <2>7. /\ f \in Frames /\ f.proc = "three" /\ f.own = Top.own /\ f.stage = next
        /\ f.plan = plan
    BY <1>1, <1>3, <2>3, <2>5 DEF Frames
  <2> HIDE DEF f
  <2>8. ~ Lowering(Top)
    <3>1. Top.stage = 2 => Stage3 = "lower"
      BY <1>3, StagesThere DEF Stage3
    <3> QED BY <1>1, <3>1 DEF Lowering, Pending
  <2>9. ASSUME NEW q \in Parts, ~ Struck(2, q)
        PROVE  Rightly(f, q, request) /\ Sound(word, q, request)
    <3>1. Rightly(Top, q, request) /\ Sound(word, q, request)
      BY <1>1, <2>8, <2>9, TopRight, ThreeSound
    <3>2. Sound(Top.own, q, request)
      BY <1>1, <3>1, ThreeRight
    <3>3. next \in 0 .. Len(Stages3[request.language])
      BY <1>4, <2>3
    <3>4. next = 2 => /\ ~ request.strict
                      /\ Elements(plan) \subseteq Elements(Respelled["lower"][Top.own.spelling])
      BY <2>4, <2>6
    <3>5. ASSUME next # 2, NEW x \in Elements(plan)
          PROVE  \/ next = 4 /\ q \notin x.accepts
                 \/ Sound(Spelt(Top.own, x.to), q, request)
      <4>1. rule \in Recursive
        BY <2>4, <2>6, <3>5
      <4>2. Like(Top.own, Top.own) /\ Like(word, Top.own) /\ Top.own \in Word
        BY <1>3 DEF Like
      <4>3. CASE plan = Respelled[rule][Top.own.spelling]
        BY <1>3, <2>4, <3>2, <4>1, <4>2, <4>3, PlanRight
      <4>4. CASE plan = Respelled[rule][word.spelling]
        BY <1>3, <2>4, <3>1, <4>1, <4>2, <4>4, PlanRight
      <4> QED BY <2>6, <4>3, <4>4
    <3>6. Rightly(f, q, request)
      BY <2>7, <3>2, <3>3, <3>4, <3>5, ThreeRight
    <3> QED BY <3>1, <3>6
  <2> QED BY <1>1, <1>3, <1>5, <1>7, <2>7, <2>9, StaySound
<1> QED BY <1>2, <1>6, <1>7

\* What is right for checkapostr.
LEMMA ApostrRight ==
  ASSUME NEW f, f.proc = "apostr", NEW q
  PROVE  Rightly(f, q, request) <=>
           /\ Sound(f.own, q, request)
           /\ \A x \in Elements(f.plan) : Sound(Spelt(f.own, x.to), q, request)
BY DEF Rightly

\* checkapostr searches for a respelling,
LEMMA RightApostr ==
  ASSUME SearchInv, Right, CheckApostr
  PROVE  Right'
<1> DEFINE rule == Elisions[Top.stage]
           x    == Head(Top.plan)
           w    == Spelt(word, x.to)
           v    == [w EXCEPT !.flags = @ \cup {"POETIC"}]
<1>1. /\ stack # <<>> /\ Top.proc = "apostr" /\ Top.plan # <<>> /\ ret = "none"
      /\ library' = library /\ request' = request /\ anals' = anals
  BY DEF CheckApostr
<1>2. Push(Top, "apostr", w) \/ Push(Top, "three", w) \/ Push(Top, "three", v)
  BY Zenon DEF CheckApostr
<1>3. /\ Top \in Frames /\ word \in Word /\ word = Top.own /\ request \in Request
      /\ Top.plan \in Seq(Respelling)
  BY <1>1, ApostrWord, Begins
<1>4. x \in Elements(Top.plan) /\ x.to \in Spellings
  BY <1>1, <1>3, RestOfPlan
<1>5. w \in Word /\ w = Spelt(Top.own, x.to)
  BY <1>3, <1>4, WordTypes
<1> HIDE DEF w
<1>6. /\ v \in Word /\ v.dialect = w.dialect /\ v.stem = w.stem
      /\ v.spelling = w.spelling
  BY <1>5 DEF Word, Flags
<1> HIDE DEF v, x
<1>7. \A q \in Parts : Struck(2, q) \/ (Rightly(Top, q, request) /\ Sound(w, q, request))
  <2>1. \A q \in Parts : Rightly(Top, q, request) => Sound(w, q, request)
    BY <1>1, <1>4, <1>5, ApostrRight
  <2> QED BY <1>1, <2>1, TopRight
<1>8. \A q \in Parts : Sound(w, q, request) => Sound(v, q, request)
  BY <1>6, SoundLike
<1>9. ASSUME NEW p \in {"three", "apostr"}, NEW u \in {v, w}, Push(Top, p, u)
      PROVE  Right'
  <2>1. \A q \in Parts : Struck(2, q) \/ Rightly(Frame(p, u), q, request)
    BY <1>3, <1>7, <1>8, CalledRight
  <2>2. u \in Word /\ p \in Procs
    BY <1>5, <1>6 DEF Procs
  <2> QED BY <1>1, <1>3, <1>7, <1>9, <2>1, <2>2, PushSound
<1> QED BY <1>2, <1>9

\* comes back from it,
LEMMA RightApostrBack ==
  ASSUME SearchInv, Right, CheckApostrBack
  PROVE  Right'
<1> DEFINE any == Top.found \/ ret = "yes"
           w == [word EXCEPT !.spelling = Top.own.spelling,
                             !.flags = Top.own.flags]
           f == [Top EXCEPT !.plan = Tail(@), !.found = any]
<1>1. /\ stack # <<>> /\ Top.proc = "apostr" /\ ret # "none" /\ Stay(f, w)
      /\ library' = library /\ request' = request /\ anals' = anals
  BY DEF CheckApostrBack
<1>2. /\ Top \in Frames /\ word \in Word /\ Top.kept \in Word /\ Top.own = Top.kept
      /\ Top.plan \in Seq(Respelling) /\ Top.plan # <<>>
      /\ word.dialect = Top.kept.dialect /\ word.stem = Top.kept.stem
  BY <1>1, ApostrWord
<1>3. w = Top.kept
  BY <1>2 DEF Word
<1>4. any \in BOOLEAN
  BY <1>1, Begins, Zenon
<1>5. Tail(Top.plan) \in Seq(Respelling)
      /\ Elements(Tail(Top.plan)) \subseteq Elements(Top.plan)
  BY <1>2, RestOfPlan
<1> HIDE DEF any, w
<1>6. f \in Frames /\ f.proc = "apostr" /\ f.own = Top.own /\ f.plan = Tail(Top.plan)
  BY <1>1, <1>2, <1>4, <1>5 DEF Frames
<1> HIDE DEF f
<1>7. \A q \in Parts : Struck(2, q) \/ Rightly(f, q, request)
  <2>1. \A q \in Parts : Rightly(Top, q, request) => Rightly(f, q, request)
    BY <1>1, <1>5, <1>6, ApostrRight
  <2> QED BY <1>1, <2>1, TopRight
<1>8. \A e \in anals' : Struck(2, e.part) \/ e \in Answers(request)
  <2>1. \A q : ~ Strikes(Top, q)
    BY <1>1 DEF Strikes
  <2> QED BY <1>1, <2>1, AnalsKept
<1>9. w \in Word
  BY <1>2, <1>3
<1> QED BY <1>1, <1>6, <1>7, <1>8, <1>9, StaySound

\* and goes on to the next rule, or returns.
LEMMA RightApostrNext ==
  ASSUME SearchInv, Right, CheckApostrNext
  PROVE  Right'
<1> DEFINE rule(i) == Respelled[Elisions[i]][Top.own.spelling]
           left == {i \in Top.stage + 1 .. 4 : /\ rule(i) # <<>>
                                               /\ i = 4 => ~Top.found}
           next == CHOOSE i \in left : \A j \in left : i <= j
           plan == rule(next)
           f == [Top EXCEPT !.stage = next, !.plan = plan]
<1>1. /\ stack # <<>> /\ Top.proc = "apostr" /\ ret = "none"
      /\ library' = library /\ request' = request /\ anals' = anals
  BY DEF CheckApostrNext
<1>2. Return(Top.found, word) \/ (left # {} /\ Stay(f, word))
  BY Zenon DEF CheckApostrNext
<1>3. /\ Top \in Frames /\ word \in Word /\ word = Top.kept /\ Top.own = Top.kept
      /\ Top.stage \in Nat /\ Top.own.spelling \in Spellings /\ Top.own \in Word
      /\ request \in Request
  BY <1>1, ApostrWord, Begins
<1>4. CASE Return(Top.found, word)
  <2> DEFINE v == Top.found
  <2>1. Return(v, word)
    BY <1>4
  <2> HIDE DEF v
  <2> QED BY <1>1, <1>3, <2>1, RightReturn
<1>5. CASE left # {} /\ Stay(f, word)
  <2>1. left \subseteq Nat
    BY <1>3
  <2>2. next \in left
    <3>1. left # {}
      BY <1>5
    <3> HIDE DEF left
    <3>2. \E i \in left : \A j \in left : i <= j
      BY <2>1, <3>1, Least
    <3> QED BY <3>2
  <2>3. next \in Nat /\ next \in 1 .. 4
    <3> HIDE DEF next, rule
    <3> QED BY <1>3, <2>1, <2>2
  <2> HIDE DEF next
  <2>4. plan \in Seq(Respelling)
    BY <1>3, <2>3, RuleNames, Respellings
  <2> DEFINE name == Elisions[next]
  <2>5. name \in Recursive /\ name # "enclitic"
    <3>1. Elisions[next] \in {"aspirate", "elided", "ai", "unaccented"}
      BY <2>3 DEF Elisions
    <3>2. \A r \in {"aspirate", "elided", "ai", "unaccented"} : r \in Recursive
      <4> DEFINE Names == {"plain", "lower", "elided", "enclitic", "est", "ust", "ist",
                           "n", "v", "J", "j", "ex", "aspirate", "ai", "unaccented"}
                 A == Stages3.LATIN
      <4>1. Elisions \in Seq(Names)
        BY DEF Elisions
      <4>2. A \in Seq(Names)
        <5>1. A = <<"plain", "lower", "elided", "enclitic", "est", "ust",
                    "ist", "n", "v", "J", "j", "ex">>
          BY DEF Stages3
        <5> HIDE DEF A
        <5> QED BY <5>1
      <4> HIDE DEF A
      <4>3. Elements(A \o Elisions) = Elements(A) \cup Elements(Elisions)
        BY <4>1, <4>2, ElementsOfBoth
      <4>4. {"aspirate", "elided", "ai", "unaccented"} \subseteq Elements(Elisions)
        BY DEF Elements, Elisions
      <4> QED BY <4>3, <4>4 DEF Recursive, A
    <3> QED BY <3>1, <3>2
  <2>6. plan = Respelled[name][Top.own.spelling]
    OBVIOUS
  <2> HIDE DEF plan, name
  <2>7. f \in Frames /\ f.proc = "apostr" /\ f.own = Top.own /\ f.plan = plan
    BY <1>1, <1>3, <2>3, <2>4 DEF Frames
  <2> HIDE DEF f
  <2>8. ASSUME NEW q \in Parts, Rightly(Top, q, request)
        PROVE  Rightly(f, q, request)
    <3>1. Sound(Top.own, q, request)
      BY <1>1, <2>8, ApostrRight
    <3>2. Like(Top.own, Top.own)
      BY DEF Like
    <3>3. \A y \in Elements(plan) : Sound(Spelt(Top.own, y.to), q, request)
      BY <1>3, <2>5, <2>6, <3>1, <3>2, PlanRight
    <3> QED BY <2>7, <3>1, <3>3, ApostrRight
  <2>9. \A q \in Parts : Struck(2, q) \/ Rightly(f, q, request)
    BY <1>1, <2>8, TopRight
  <2>10. \A e \in anals' : Struck(2, e.part) \/ e \in Answers(request)
    BY <1>1, AnalsKept
  <2> QED BY <1>1, <1>3, <1>5, <2>7, <2>9, <2>10, StaySound
<1> QED BY <1>2, <1>4, <1>5

\* What is right for checkcrasis.
LEMMA CrasisRight ==
  ASSUME NEW f, f.proc = "crasis", NEW q
  PROVE  Rightly(f, q, request) <=>
           /\ f.stage = 0 => \E c \in Wholes(request) : c.spelling = f.kept.spelling
           /\ f.stage # 0 => \E c \in Lows(request) : c.spelling = f.own.spelling
           /\ Licensed(f.own, {}, request)
           /\ f.plan # <<>> => ~request.nocrasis
           /\ Elements(f.plan) \subseteq Elements(Respelled["crasis"][f.own.spelling])
BY DEF Rightly

\* checkcrasis begins,
LEMMA RightCrasis ==
  ASSUME SearchInv, Right, CheckCrasis
  PROVE  Right'
<1> DEFINE made == Respelled["lowered"][word.spelling]
           low == Spelt(word, made[1].to)
           lower == IF Language # "LATIN" \/ made = <<>> THEN word ELSE low
           plan == Respelled["crasis"][lower.spelling]
           f == [Top EXCEPT !.stage = 1, !.own = lower, !.plan = plan]
<1>1. /\ stack # <<>> /\ Top.proc = "crasis" /\ Top.stage = 0
      /\ library' = library /\ request' = request /\ anals' = anals
  BY DEF CheckCrasis
<1>2. Return(FALSE, word) \/ (~ request.nocrasis /\ Stay(f, lower))
  BY Zenon DEF CheckCrasis
<1>3. /\ Top \in Frames /\ word \in Word /\ word = Top.kept /\ request \in Request
      /\ ret = "none" /\ word.spelling \in Spellings
  BY <1>1, CrasisWord, Begins DEF Word
<1>4. CASE Return(FALSE, word)
  BY <1>1, <1>3, <1>4, RightReturn
<1>5. CASE ~ request.nocrasis /\ Stay(f, lower)
  <2>1. Like(word, Top.own)
    BY <1>1, <1>3, CrasisWord DEF Like
  <2>2. made \in Seq(Respelling) /\ (made # <<>> => made[1].to \in Spellings)
    BY <1>3, RuleNames, Respellings
  <2>3. made # <<>> => /\ low \in Word /\ Like(low, word) /\ low.spelling = made[1].to
                       /\ made[1] \in Elements(made)
    <3>1. made # <<>> => 1 \in DOMAIN made
      BY <2>2
    <3>2. made # <<>> => made[1] \in Elements(made)
      BY <3>1 DEF Elements
    <3>3. made # <<>> => low \in Word /\ Like(low, word) /\ low.spelling = made[1].to
      BY <1>3, <2>2, WordTypes DEF Spelt, Word
    <3> QED BY <3>2, <3>3
  <2>4. ASSUME \E c \in Wholes(request) : c.spelling = word.spelling
        PROVE  \E c \in Lows(request) : c.spelling = lower.spelling
    <3>1. /\ \E c \in Lows(request) : c.spelling = word.spelling
          /\ \A x \in Elements(made) : \E c \in Lows(request) : c.spelling = x.to
      BY <1>3, <2>4, LowFrom
    <3>2. made # <<>> => \E c \in Lows(request) : c.spelling = low.spelling
      BY <2>3, <3>1
    <3> HIDE DEF made, low
    <3> QED BY <3>1, <3>2
  <2>5. lower \in Word /\ Like(lower, word)
    <3>1. Like(word, word)
      BY DEF Like
    <3> HIDE DEF made, low
    <3> QED BY <1>3, <2>3, <3>1
  <2> HIDE DEF lower
  <2>6. lower.spelling \in Spellings
    BY <2>5 DEF Word
  <2>7. plan \in Seq(Respelling)
    BY <2>6, RuleNames, Respellings
  <2>8. Elements(plan) = Elements(Respelled["crasis"][lower.spelling])
    OBVIOUS
  <2> HIDE DEF plan
  <2>9. f \in Frames /\ f.proc = "crasis" /\ f.stage = 1 /\ f.own = lower
        /\ f.plan = plan
    BY <1>1, <1>3, <2>5, <2>7 DEF Frames
  <2> HIDE DEF f
  <2>10. ASSUME NEW q \in Parts, Rightly(Top, q, request)
         PROVE  Rightly(f, q, request)
    <3>1. /\ \E c \in Wholes(request) : c.spelling = word.spelling
          /\ Licensed(Top.own, {}, request)
      BY <1>1, <1>3, <2>10, CrasisRight
    <3>2. Licensed(lower, {}, request)
      BY <2>1, <2>5, <3>1, LicensedLike
    <3>3. \E c \in Lows(request) : c.spelling = f.own.spelling
      BY <2>4, <2>9, <3>1
    <3> QED BY <1>5, <2>8, <2>9, <3>2, <3>3, CrasisRight
  <2>11. \A q \in Parts : Struck(2, q) \/ Rightly(f, q, request)
    BY <1>1, <2>10, TopRight
  <2>12. \A e \in anals' : Struck(2, e.part) \/ e \in Answers(request)
    BY <1>1, <1>3, AnalsKept
  <2> QED BY <1>1, <1>5, <2>5, <2>9, <2>11, <2>12, StaySound
<1> QED BY <1>2, <1>4, <1>5

\* tests a crasis on a copy of the word,
LEMMA RightTestCrasis ==
  ASSUME SearchInv, Right, TestCrasis
  PROVE  Right'
<1> DEFINE x == Head(Top.plan)
           w == [word EXCEPT !.spelling = x.to, !.dialect = @ \cup x.dialect]
<1>1. /\ stack # <<>> /\ Top.proc = "crasis" /\ Top.stage = 1 /\ ret = "none"
      /\ library' = library /\ request' = request /\ anals' = anals
  BY DEF TestCrasis
<1>2. Return(Top.found, word) \/ (Top.plan # <<>> /\ Push(Top, "three", w))
  BY DEF TestCrasis
<1>3. /\ Top \in Frames /\ word \in Word /\ word = Top.own /\ request \in Request
      /\ Top.plan \in Seq(Respelling)
  BY <1>1, CrasisWord, Begins
<1>4. CASE Return(Top.found, word)
  <2> DEFINE v == Top.found
  <2>1. Return(v, word)
    BY <1>4
  <2> HIDE DEF v
  <2> QED BY <1>1, <1>3, <2>1, RightReturn
<1>5. CASE Top.plan # <<>> /\ Push(Top, "three", w)
  <2>1. x \in Elements(Top.plan) /\ x \in Respelling
    BY <1>3, <1>5, RestOfPlan
  <2>2. x.to \in Spellings /\ x.dialect \in SUBSET Dialects
    BY <2>1 DEF Respelling
  <2> HIDE DEF x
  <2>3. /\ w \in Word /\ w.dialect = word.dialect \cup x.dialect
        /\ w.stem = word.stem /\ w.spelling = x.to
    BY <1>3, <2>2 DEF Word
  <2> HIDE DEF w
  <2>4. ASSUME NEW q \in Parts, Rightly(Top, q, request)
        PROVE  Rightly(Frame("three", w), q, request)
    <3> DEFINE s == Top.own.spelling
    <3>1. /\ \E c \in Lows(request) : c.spelling = s
          /\ Licensed(word, {}, request) /\ ~ request.nocrasis
          /\ x \in Elements(Respelled["crasis"][s])
      <4>1. Top.stage # 0
        BY <1>1
      <4> QED BY <1>1, <1>3, <1>5, <2>1, <2>4, <4>1, CrasisRight
    <3> HIDE DEF s
    <3>2. Licensed(w, x.dialect, request)
      <4>1. \A d : d \cup {} = d
        OBVIOUS
      <4>2. \/ word.dialect = request.dialect => w.dialect = request.dialect \cup x.dialect
            \/ FALSE
        BY <2>3
      <4>3. word.dialect = request.dialect \cup {} \cup {"ionic", "epic"} =>
              w.dialect = request.dialect \cup x.dialect \cup {"ionic", "epic"}
        BY <2>3
      <4> QED BY <2>3, <3>1, <4>1, <4>2, <4>3 DEF Licensed
    <3>3. Sound(w, q, request)
      BY <1>3, <2>3, <3>1, <3>2, SoundCrasis
    <3> QED BY <1>3, <3>3, CalledRight
  <2>5. /\ \A q \in Parts : Struck(2, q) \/ Rightly(Top, q, request)
        /\ \A q \in Parts : Struck(2, q) \/ Rightly(Frame("three", w), q, request)
    BY <1>1, <2>4, TopRight
  <2> QED BY <1>1, <1>3, <1>5, <2>3, <2>5, PushSound DEF Procs
<1> QED BY <1>2, <1>4, <1>5

\* and goes on to the next.
LEMMA RightTestCrasisBack ==
  ASSUME SearchInv, Right, TestCrasisBack
  PROVE  Right'
<1> DEFINE any == Top.found \/ ret = "yes"
           f == [Top EXCEPT !.plan = Tail(@), !.found = any]
           w == Top.own
<1>1. /\ stack # <<>> /\ Top.proc = "crasis" /\ ret # "none" /\ Stay(f, w)
      /\ library' = library /\ request' = request /\ anals' = anals
  BY DEF TestCrasisBack
<1>2. /\ Top \in Frames /\ w \in Word /\ Top.stage = 1
      /\ Top.plan \in Seq(Respelling) /\ Top.plan # <<>>
  BY <1>1, CrasisWord
<1>3. any \in BOOLEAN
  BY <1>1, Begins, Zenon
<1>4. /\ Tail(Top.plan) \in Seq(Respelling)
      /\ Elements(Tail(Top.plan)) \subseteq Elements(Top.plan)
  BY <1>2, RestOfPlan
<1> HIDE DEF any
<1>5. f \in Frames /\ f.proc = "crasis" /\ f.own = Top.own /\ f.stage = 1
      /\ f.plan = Tail(Top.plan)
  BY <1>1, <1>2, <1>3, <1>4 DEF Frames
<1> HIDE DEF f, w
<1>6. \A q \in Parts : Struck(2, q) \/ Rightly(f, q, request)
  <2>1. \A q \in Parts : Rightly(Top, q, request) => Rightly(f, q, request)
    BY <1>1, <1>2, <1>4, <1>5, CrasisRight
  <2> QED BY <1>1, <2>1, TopRight
<1>7. \A e \in anals' : Struck(2, e.part) \/ e \in Answers(request)
  <2>1. \A q : ~ Strikes(Top, q)
    BY <1>1 DEF Strikes
  <2> QED BY <1>1, <2>1, AnalsKept
<1> QED BY <1>1, <1>2, <1>5, <1>6, <1>7, StaySound

----------------------------------------------------------------------------
(* What is returned.                                                       *)

\* A search begins with nothing found and one frame,
LEMMA RightAtFirst ==
  ASSUME Init
  PROVE  Right
<1>1. stack = <<Frame("word", word)>> /\ ret = "none" /\ anals = {}
  BY DEF Init
<1> DEFINE f == Frame("word", word)
<1>2. f.proc = "word"
  BY DEF Frame
<1>3. stack = <<f>>
  BY <1>1
<1> HIDE DEF f
<1>4. Len(stack) = 1 /\ stack[1] = f /\ Head(stack) = f
  BY <1>3
<1>5. FramesSound
  BY <1>2, <1>4 DEF FramesSound, Rightly
<1>6. WordSound
  BY <1>2, <1>4 DEF WordSound, Top
<1> QED BY <1>1, <1>5, <1>6 DEF Right, AnalsSound

\* and so does that for the next word.
LEMMA RightBegin ==
  ASSUME NEW r \in Requests, Begin(r)
  PROVE  Right'
<1>1. stack' = <<Frame("word", word')>> /\ ret' = "none" /\ anals' = {}
  BY DEF Begin
<1> DEFINE f == Frame("word", word')
<1>2. f.proc = "word"
  BY DEF Frame
<1>3. stack' = <<f>>
  BY <1>1
<1> HIDE DEF f
<1>4. Len(stack') = 1 /\ stack'[1] = f /\ Head(stack') = f
  BY <1>3
<1>5. FramesSound'
  BY <1>2, <1>4 DEF FramesSound, Rightly
<1>6. WordSound'
  BY <1>2, <1>4 DEF WordSound, Top
<1> QED BY <1>1, <1>5, <1>6 DEF Right, AnalsSound

\* Nothing changes.
LEMMA RightStutter ==
  ASSUME Right, UNCHANGED vars
  PROVE  Right'
<1>1. /\ library' = library /\ request' = request /\ word' = word
      /\ anals' = anals /\ stack' = stack /\ ret' = ret
  BY DEF vars
<1>2. \A k, q : Struck(k, q)' <=> Struck(k, q)
  BY <1>1 DEF Struck
<1>3. Waiting' = Waiting
  BY <1>1 DEF Waiting
<1>4. FramesSound'
  BY <1>1, <1>2 DEF Right, FramesSound
<1>5. WordSound'
  BY <1>1, <1>2, <1>3 DEF Right, WordSound, Top, Lowering
<1>6. AnalsSound'
  BY <1>1, <1>2, <1>3, SameAnswers DEF Right, AnalsSound
<1> QED BY <1>4, <1>5, <1>6 DEF Right

\* Every step keeps what is found right.
LEMMA RightStep ==
  ASSUME SearchInv, Right, [Next]_vars
  PROVE  Right'
<1>1. CASE Step
  BY <1>1, RightWordAgain, RightWordEnds, RightOne, RightTwo, RightTwoCrasis,
     RightTwoIonic, RightTwoPoetic, RightTwoEnds, RightThreePlain, RightThreeLower,
     RightThreeRespell, RightThreeBack, RightThreeNext, RightApostr, RightApostrBack,
     RightApostrNext, RightCrasis, RightTestCrasis, RightTestCrasisBack DEF Step
<1>2. CASE \E r \in Requests : Begin(r)
  BY <1>2, RightBegin
<1>3. CASE UNCHANGED vars
  BY <1>3, RightStutter
<1> QED BY <1>1, <1>2, <1>3 DEF Next

\* Once the search is over nothing is left that some frame would strike off.
LEMMA RightAtLast ==
  ASSUME Right
  PROVE  NothingInvented
<1> SUFFICES ASSUME stack = <<>>, NEW e \in anals PROVE e \in Answers(request)
  BY DEF NothingInvented
<1>1. Len(stack) = 0
  OBVIOUS
<1>2. ~ Struck(Waiting, e.part)
  BY <1>1 DEF Struck
<1> QED BY <1>2 DEF Right, AnalsSound

\* NothingInvented: every analysis that a search returns stands for a word the
\* rules lead to from the one that was asked for -- of a part of speech that
\* may carry the enclitics taken off on the way, in a dialect that was asked
\* for or that a crasis or a pass adds, and unaugmented only where checkstring2
\* looked for that -- whatever was tried, and failed, before.
THEOREM SearchSound == Spec => []NothingInvented
<1>1. Init => SearchInv /\ Right
  BY SearchInit, RightAtFirst
<1>2. SearchInv /\ Right /\ [Next]_vars => (SearchInv /\ Right)'
  BY SearchStep, RightStep
<1>3. SearchInv /\ Right => NothingInvented
  BY RightAtLast
<1> QED BY <1>1, <1>2, <1>3, PTL DEF Spec

----------------------------------------------------------------------------
(* The storage of the analyses.                                            *)

\* A crasis is only tested for a word that had no analyses: while tests go
\* on, all that is there was found by one of them.
TestedAlone ==
  /\ crasis # NoCrasis => tested # {}
  /\ tested # {} => \A k \in 1 .. Len(found) :
                      Kept(found[k].form) => found[k].crasis # NoCrasis

IInv == STypeOK /\ OneEach /\ DialectsContained /\ TestedAlone

\* Replacing an element of a sequence.
LEMMA Replacing ==
  ASSUME NEW S, NEW s \in Seq(S), NEW i \in 1 .. Len(s), NEW e \in S
  PROVE  LET r == [s EXCEPT ![i] = e]
         IN /\ r \in Seq(S) /\ Len(r) = Len(s) /\ r[i] = e
            /\ \A j \in 1 .. Len(s) : j # i => r[j] = s[j]
  OBVIOUS

\* Room is made behind the analyses; those that are there stay.
LEMMA Growth ==
  ASSUME STypeOK
  PROVE  /\ Grown \in Seq(Analysis) /\ Len(Grown) >= count + 1
         /\ Len(Grown) >= Len(items)
         /\ \A i \in 1 .. count : Grown[i] = items[i]
<1>1. Empty \in Analysis
  BY DEF Empty, Analysis
<1>2. CASE count < Len(items)
  BY <1>2 DEF Grown, STypeOK
<1>3. CASE ~ (count < Len(items))
  <2>1. count = Len(items)
    BY <1>3 DEF STypeOK
  <2> DEFINE capacity == IF items = <<>> THEN InitialCapacity ELSE 2 * Len(items)
  <2>2. capacity \in Nat /\ capacity >= Len(items) + 1
    BY StorageAssumption DEF STypeOK
  <2>3. Grown = [i \in 1 .. capacity |-> IF i <= Len(items) THEN items[i] ELSE Empty]
    BY <1>3 DEF Grown
  <2> HIDE DEF capacity
  <2>4. \A i \in 1 .. capacity :
          (IF i <= Len(items) THEN items[i] ELSE Empty) \in Analysis
    BY <1>1, <2>2 DEF STypeOK
  <2>5. Grown \in Seq(Analysis) /\ Len(Grown) = capacity
    BY <2>2, <2>3, <2>4
  <2>6. \A i \in 1 .. count : Grown[i] = items[i]
    BY <2>1, <2>2, <2>3 DEF STypeOK
  <2> QED BY <2>1, <2>2, <2>5, <2>6 DEF STypeOK
<1> QED BY <1>2, <1>3

\* What a form writes is an analysis with its key and its dialects.
LEMMA Writing ==
  ASSUME NEW f \in Forms, NEW slot \in Analysis
  PROVE  /\ Written(f, slot) \in Analysis
         /\ Written(f, slot).key = f.key
         /\ Written(f, slot).dialect = FormDialect(f)
<1> DEFINE K == {g.key : g \in Forms} \cup {None}
           C == {g.crasis : g \in Forms} \cup {None}
<1>1. Analysis = [key : K, dialect : SUBSET AllDialects, crasis : C]
  BY DEF Analysis
<1>2. f.key \in K /\ f.crasis \in C
  <2>1. f.key \in {g.key : g \in Forms} /\ f.crasis \in {g.crasis : g \in Forms}
    BY Zenon
  <2> QED BY <2>1
<1>3. f.dialect \subseteq AllDialects
  <2>1. f.dialect \subseteq UNION {g.dialect : g \in Forms}
    BY Zenon
  <2> QED BY <2>1 DEF AllDialects
<1>4. {"HOMERIC", "IONIC"} \subseteq AllDialects
  BY DEF AllDialects
<1> HIDE DEF K, C
<1>5. FormDialect(f) \subseteq AllDialects
  BY <1>3, <1>4 DEF FormDialect
<1>6. slot.crasis \in C
  BY <1>1
<1> QED BY <1>1, <1>2, <1>5, <1>6 DEF Written

\* The initial state.
LEMMA Initially == SInit => IInv
<1> SUFFICES ASSUME SInit PROVE IInv
  OBVIOUS
<1>1. STypeOK
  BY DEF SInit, STypeOK
<1>2. 1 .. count = {} /\ 1 .. Len(found) = {}
  BY DEF SInit
<1>3. OneEach /\ DialectsContained /\ TestedAlone
  BY <1>2 DEF OneEach, DialectsContained, TestedAlone, SInit
<1> QED BY <1>1, <1>3 DEF IInv

\* Merging keeps the key; the dialects become those of both, unless the
\* analysis may be in any dialect.
LEMMA Merging ==
  ASSUME NEW a \in Analysis, NEW b \in Analysis
  PROVE  LET m == merge_anal_dialects(a, b)
         IN /\ m \in Analysis /\ m.key = a.key
            /\ m.dialect = IF a.dialect = {} THEN {}
                           ELSE a.dialect \cup b.dialect
  BY DEF merge_anal_dialects, Analysis

\* A form that the engine finds is refused, merged or appended.
LEMMA FindKeeps ==
  ASSUME IInv, NEW f \in Forms, Find(f)
  PROVE  IInv'
<1> DEFINE new == [form |-> f, crasis |-> crasis]
           n == Len(found)
           anal == Written(f, Grown[count + 1])
<1>1. /\ Grown \in Seq(Analysis) /\ count + 1 \in 1 .. Len(Grown)
      /\ Len(Grown) >= Len(items)
      /\ \A i \in 1 .. count : Grown[i] = items[i] /\ items[i] \in Analysis
  BY Growth DEF IInv, STypeOK
<1>2. anal \in Analysis /\ anal.key = f.key /\ anal.dialect = FormDialect(f)
  BY <1>1, Writing
<1>3. /\ found' = Append(found, new) /\ Len(found') = n + 1
      /\ found' \in Seq([form : Forms, crasis : Crases \cup {NoCrasis}])
      /\ found'[n + 1] = new
      /\ \A k \in 1 .. n : found'[k] = found[k]
      /\ n \in Nat
  BY DEF Find, IInv, STypeOK
<1>4. TestedAlone'
  <2>1. tested' = tested /\ crasis' = crasis /\ (tested # {} => crasis # NoCrasis)
    BY DEF Find, IInv, TestedAlone
  <2> QED BY <2>1, <1>3 DEF IInv, TestedAlone
<1>5. CASE f.unaugmented /\ ~ f.indicative
  <2>1. /\ items' = [Grown EXCEPT ![count + 1].crasis = anal.crasis]
        /\ count' = count /\ hits' = hits
    BY <1>5 DEF Find, AddAnalysis
  <2> DEFINE slot == [Grown[count + 1] EXCEPT !.crasis = anal.crasis]
  <2>a. Grown[count + 1] \in Analysis
    BY <1>1
  <2>b. slot \in Analysis
    BY <1>2, <2>a DEF Analysis
  <2>c. items' = [Grown EXCEPT ![count + 1] = slot]
    BY <2>1
  <2>d. count \in Nat
    BY DEF IInv, STypeOK
  <2> HIDE DEF slot, anal
  <2>2. items' \in Seq(Analysis) /\ Len(items') = Len(Grown)
    BY <1>1, <2>b, <2>c, Replacing
  <2>3. \A i \in 1 .. count : items'[i] = items[i]
    BY <1>1, <2>b, <2>c, <2>d, Replacing
  <2>4. \A i \in 1 .. count : FormsOf(i)' = FormsOf(i)
    BY <1>3, <1>5, <2>3 DEF FormsOf, Kept
  <2>5. STypeOK'
    BY <1>1, <1>3, <2>1, <2>2, <2>d DEF IInv, STypeOK, Find
  <2>6. OneEach'
    <3>1. \A i, j \in 1 .. count : items'[i].key = items'[j].key => i = j
      BY <2>3 DEF IInv, OneEach, equiv_anal
    <3>2. \A k \in 1 .. n + 1 :
            Kept(found'[k].form) => k \in 1 .. n /\ found'[k] = found[k]
      BY <1>3, <1>5 DEF Kept
    <3>3. \A k \in 1 .. n : Kept(found[k].form) =>
            \E i \in 1 .. count : items'[i].key = found[k].form.key
      BY <2>3 DEF IInv, OneEach
    <3>4. \A i \in 1 .. count : FormsOf(i)' # {}
      BY <2>4 DEF IInv, OneEach
    <3> QED BY <1>3, <2>1, <3>1, <3>2, <3>3, <3>4 DEF OneEach, equiv_anal
  <2>7. DialectsContained'
    <3>1. \A i \in 1 .. count : \A k \in FormsOf(i) : found'[k] = found[k]
      BY <1>3 DEF FormsOf
    <3>2. SUFFICES ASSUME NEW i \in 1 .. count, NEW first \in FormsOf(i),
                          found[first].crasis = NoCrasis,
                          \A k \in FormsOf(i) : first <= k
                   PROVE  /\ \A d \in items'[i].dialect :
                               \E k \in FormsOf(i) : d \in FormDialect(found'[k].form)
                          /\ FormDialect(found'[first].form) \subseteq items'[i].dialect
                          /\ FormDialect(found'[first].form) = {}
                               <=> items'[i].dialect = {}
      BY <2>1, <2>4, <3>1 DEF DialectsContained
    <3>3. /\ \A d \in items[i].dialect :
               \E k \in FormsOf(i) : d \in FormDialect(found[k].form)
          /\ FormDialect(found[first].form) \subseteq items[i].dialect
          /\ FormDialect(found[first].form) = {} <=> items[i].dialect = {}
      BY <3>2 DEF IInv, DialectsContained
    <3> QED BY <2>3, <3>1, <3>3
  <2> QED BY <1>4, <2>5, <2>6, <2>7 DEF IInv
<1> DEFINE twins == Twin(anal)
<1>6. ASSUME Kept(f), twins # {}
      PROVE  IInv'
  <2> DEFINE first == CHOOSE i \in twins : \A j \in twins : i <= j
             merged == merge_anal_dialects(Grown[first], anal)
  <2>1. first \in 1 .. count /\ items[first].key = f.key
    <3>1. \A i \in twins : i \in 1 .. count /\ items[i].key = f.key
      BY <1>2 DEF Twin, equiv_anal
    <3>2. PICK i \in twins : TRUE
      BY <1>6
    <3>3. \A j \in twins : i <= j
      BY <3>1, <3>2 DEF IInv, OneEach, equiv_anal, STypeOK
    <3>4. first \in twins
      BY <3>2, <3>3
    <3> QED BY <3>1, <3>4
  <2> HIDE DEF first
  <2>2. items' = [Grown EXCEPT ![count + 1] = anal, ![first] = merged]
        /\ count' = count /\ hits' = hits
    <3>1. items' = [Grown EXCEPT ![count + 1] = anal,
                                 ![first] = merge_anal_dialects(@, anal)]
          /\ count' = count /\ hits' = hits
      BY <1>6 DEF Find, AddAnalysis, Kept, first
    <3> QED BY <1>1, <2>1, <3>1 DEF IInv, STypeOK
  <2>3. /\ merged \in Analysis /\ merged.key = items[first].key
        /\ merged.dialect = IF items[first].dialect = {} THEN {}
                            ELSE items[first].dialect \cup FormDialect(f)
    <3>1. Grown[first] = items[first] /\ Grown[first] \in Analysis
      BY <1>1, <2>1
    <3> QED BY <1>2, <3>1, Merging
  <2> HIDE DEF merged, anal
  <2> DEFINE once == [Grown EXCEPT ![count + 1] = anal]
  <2>d. count \in Nat /\ first # count + 1
    BY <2>1 DEF IInv, STypeOK
  <2>4. /\ once \in Seq(Analysis) /\ Len(once) = Len(Grown)
        /\ \A i \in 1 .. count : once[i] = items[i]
    <3>1. \A i \in 1 .. count : i \in 1 .. Len(Grown) /\ i # count + 1
      BY <1>1, <2>d
    <3> QED BY <1>1, <1>2, <3>1, Replacing
  <2>5. items' = [once EXCEPT ![first] = merged]
    BY <2>2
  <2> HIDE DEF once
  <2>6. /\ items' \in Seq(Analysis) /\ Len(items') = Len(Grown)
        /\ items'[first] = merged
        /\ \A i \in 1 .. count : i # first => items'[i] = items[i]
    <3>1. \A i \in 1 .. count : i \in 1 .. Len(once)
      BY <1>1, <2>4, <2>d
    <3> QED BY <2>1, <2>3, <2>4, <2>5, <3>1, Replacing
  <2>7. STypeOK'
    BY <1>1, <1>3, <2>2, <2>6, <2>d DEF IInv, STypeOK, Find
  <2>8. \A i \in 1 .. count : items'[i].key = items[i].key
    BY <2>3, <2>6
  <2>9. \A i \in 1 .. count :
          FormsOf(i)' = FormsOf(i) \cup (IF i = first THEN {n + 1} ELSE {})
    <3>1. \A i \in 1 .. count : items[i].key = f.key <=> i = first
      BY <2>1 DEF IInv, OneEach, equiv_anal
    <3> QED BY <1>3, <1>6, <2>8, <3>1 DEF FormsOf
  <2>10. OneEach'
    <3>1. \A i, j \in 1 .. count : items'[i].key = items'[j].key => i = j
      BY <2>8 DEF IInv, OneEach, equiv_anal
    <3>2. \A k \in 1 .. n : Kept(found[k].form) =>
            \E i \in 1 .. count : items'[i].key = found[k].form.key
      BY <2>8 DEF IInv, OneEach
    <3>3. \E i \in 1 .. count : items'[i].key = found'[n + 1].form.key
      BY <1>3, <2>1, <2>8
    <3>4. \A k \in 1 .. n + 1 : k \in 1 .. n \/ k = n + 1
      BY <1>3
    <3>5. \A i \in 1 .. count : FormsOf(i)' # {}
      BY <2>9 DEF IInv, OneEach
    <3>6. \A k \in 1 .. n + 1 : Kept(found'[k].form) =>
            \E i \in 1 .. count : items'[i].key = found'[k].form.key
      BY <1>3, <3>2, <3>3, <3>4
    <3> HIDE DEF n, new
    <3> QED BY <1>3, <2>2, <3>1, <3>5, <3>6 DEF OneEach, equiv_anal
  <2>11. DialectsContained'
    <3>1. \A i \in 1 .. count : \A k \in FormsOf(i) :
            k \in 1 .. n /\ found'[k] = found[k]
      BY <1>3 DEF FormsOf
    <3>2. SUFFICES ASSUME NEW i \in 1 .. count, NEW k \in FormsOf(i)',
                          found'[k].crasis = NoCrasis,
                          \A l \in FormsOf(i)' : k <= l
                   PROVE  /\ \A d \in items'[i].dialect :
                               \E l \in FormsOf(i)' : d \in FormDialect(found'[l].form)
                          /\ FormDialect(found'[k].form) \subseteq items'[i].dialect
                          /\ FormDialect(found'[k].form) = {}
                               <=> items'[i].dialect = {}
      BY <2>2 DEF DialectsContained
    <3>3. k \in FormsOf(i) /\ found'[k] = found[k] /\ \A l \in FormsOf(i) : k <= l
      <4>1. PICK l \in FormsOf(i) : TRUE
        BY DEF IInv, OneEach
      <4>2. k <= l /\ l < n + 1 /\ l \in Nat /\ n \in Nat
        BY <1>3, <2>9, <3>1, <3>2, <4>1
      <4>3. k \in FormsOf(i)
        BY <1>3, <2>9, <4>2
      <4> QED BY <2>9, <3>1, <3>2, <4>3
    <3>4. /\ \A d \in items[i].dialect :
               \E l \in FormsOf(i) : d \in FormDialect(found[l].form)
          /\ FormDialect(found[k].form) \subseteq items[i].dialect
          /\ FormDialect(found[k].form) = {} <=> items[i].dialect = {}
      BY <3>2, <3>3 DEF IInv, DialectsContained
    <3>5. CASE i # first
      BY <2>6, <2>9, <3>1, <3>3, <3>4, <3>5
    <3>6. CASE i = first
      <4>1. items'[i].dialect = IF items[i].dialect = {} THEN {}
                                ELSE items[i].dialect \cup FormDialect(f)
        BY <2>3, <2>6, <3>6
      <4>2. n + 1 \in FormsOf(i)' /\ found'[n + 1].form = f
        BY <1>3, <2>9, <3>6
      <4>3. \A l \in FormsOf(i) : l \in FormsOf(i)' /\ found'[l] = found[l]
        BY <2>9, <3>1
      <4> HIDE DEF new
      <4> QED BY <3>3, <3>4, <4>1, <4>2, <4>3
    <3> QED BY <3>5, <3>6
  <2> QED BY <1>4, <2>7, <2>10, <2>11 DEF IInv
<1>7. ASSUME Kept(f), twins = {}
      PROVE  IInv'
  <2>1. /\ items' = [Grown EXCEPT ![count + 1] = anal]
        /\ count' = count + 1 /\ hits' = hits + 1
    BY <1>7 DEF Find, AddAnalysis, Kept
  <2>2. \A i \in 1 .. count : items[i].key # f.key
    BY <1>2, <1>7 DEF Twin, equiv_anal
  <2>d. count \in Nat /\ 1 .. count + 1 = (1 .. count) \cup {count + 1}
    BY DEF IInv, STypeOK
  <2> HIDE DEF anal
  <2>3. /\ items' \in Seq(Analysis) /\ Len(items') = Len(Grown)
        /\ items'[count + 1] = anal
        /\ \A i \in 1 .. count : items'[i] = items[i]
    <3>1. \A i \in 1 .. count : i \in 1 .. Len(Grown) /\ i # count + 1
      BY <1>1, <2>d
    <3> QED BY <1>1, <1>2, <2>1, <3>1, Replacing
  <2>4. STypeOK'
    BY <1>1, <1>3, <2>1, <2>3, <2>d DEF IInv, STypeOK, Find
  <2>5. \A k \in 1 .. n : Kept(found[k].form) => found[k].form.key # f.key
    BY <2>2 DEF IInv, OneEach
  <2>e. PICK last \in Nat : last = count + 1
    BY <2>d
  <2>6. FormsOf(last)' = {n + 1}
    <3>1. items'[last].key = f.key
      BY <1>2, <2>3, <2>e
    <3>2. FormsOf(last)' =
            {k \in 1 .. n + 1 : Kept(found'[k].form) /\ found'[k].form.key = f.key}
      BY <1>3, <2>1, <3>1 DEF FormsOf
    <3>3. \A k \in 1 .. n + 1 : k \in 1 .. n \/ k = n + 1
      BY <1>3
    <3>4. found'[n + 1].form = f /\ n + 1 \in 1 .. n + 1
      BY <1>3
    <3> HIDE DEF n, new
    <3> QED BY <1>3, <1>7, <2>5, <3>2, <3>3, <3>4
  <2>7. \A i \in 1 .. count : FormsOf(i)' = FormsOf(i)
    BY <1>3, <2>2, <2>3 DEF FormsOf
  <2>8. OneEach'
    <3>1. \A i, j \in 1 .. count : items'[i].key = items'[j].key => i = j
      BY <2>3 DEF IInv, OneEach, equiv_anal
    <3>2. \A i \in 1 .. count : items'[i].key # items'[count + 1].key
      BY <1>2, <2>2, <2>3
    <3>3. \A k \in 1 .. n : Kept(found[k].form) =>
            \E i \in 1 .. count : items'[i].key = found[k].form.key
      BY <2>3 DEF IInv, OneEach
    <3>4. items'[count + 1].key = found'[n + 1].form.key
      BY <1>2, <1>3, <2>3
    <3>5. \A k \in 1 .. n + 1 : k \in 1 .. n \/ k = n + 1
      BY <1>3
    <3>6. \A k \in 1 .. n + 1 : Kept(found'[k].form) =>
            \E i \in 1 .. count + 1 : items'[i].key = found'[k].form.key
      BY <1>3, <2>d, <3>3, <3>4, <3>5
    <3>7. \A i, j \in 1 .. count + 1 : items'[i].key = items'[j].key => i = j
      BY <2>d, <3>1, <3>2
    <3>8. \A i \in 1 .. count + 1 : FormsOf(i)' # {}
      <4>1. \A i \in 1 .. count : FormsOf(i)' # {}
        BY <2>7 DEF IInv, OneEach
      <4>2. FormsOf(last)' # {}
        BY <2>6
      <4> QED BY <2>d, <2>e, <4>1, <4>2
    <3> HIDE DEF n, new
    <3> QED BY <1>3, <2>1, <3>6, <3>7, <3>8 DEF OneEach, equiv_anal
  <2>9. DialectsContained'
    <3>1. \A i \in 1 .. count : \A k \in FormsOf(i) : found'[k] = found[k]
      BY <1>3 DEF FormsOf
    <3>2. SUFFICES ASSUME NEW i \in 1 .. count + 1, NEW k \in FormsOf(i)',
                          found'[k].crasis = NoCrasis,
                          \A l \in FormsOf(i)' : k <= l
                   PROVE  /\ \A d \in items'[i].dialect :
                               \E l \in FormsOf(i)' : d \in FormDialect(found'[l].form)
                          /\ FormDialect(found'[k].form) \subseteq items'[i].dialect
                          /\ FormDialect(found'[k].form) = {}
                               <=> items'[i].dialect = {}
      BY <2>1 DEF DialectsContained
    <3>3. CASE i = count + 1
      <4>1. FormsOf(i)' = {n + 1} /\ k = n + 1
        BY <2>6, <2>e, <3>3
      <4>2. items'[i].dialect = FormDialect(f) /\ found'[n + 1].form = f
        BY <1>2, <1>3, <2>3, <3>3
      <4> QED BY <4>1, <4>2
    <3>4. CASE i \in 1 .. count
      <4>1. k \in FormsOf(i) /\ found[k].crasis = NoCrasis
            /\ \A l \in FormsOf(i) : k <= l
        BY <2>7, <3>1, <3>2, <3>4
      <4>2. /\ \A d \in items[i].dialect :
                 \E l \in FormsOf(i) : d \in FormDialect(found[l].form)
            /\ FormDialect(found[k].form) \subseteq items[i].dialect
            /\ FormDialect(found[k].form) = {} <=> items[i].dialect = {}
        BY <3>4, <4>1 DEF IInv, DialectsContained
      <4> QED BY <2>3, <2>7, <3>1, <3>4, <4>1, <4>2
    <3> QED BY <2>d, <3>3, <3>4
  <2> QED BY <1>4, <2>4, <2>8, <2>9 DEF IInv
<1> QED BY <1>5, <1>6, <1>7 DEF Kept

\* What depends on the analyses and the forms only.
LEMMA Unmoved ==
  ASSUME OneEach, DialectsContained,
         items' = items, count' = count, found' = found
  PROVE  OneEach' /\ DialectsContained'
<1>1. \A i : FormsOf(i)' = FormsOf(i)
  BY DEF FormsOf
<1>2. OneEach'
  BY <1>1 DEF OneEach
<1>3. DialectsContained'
  BY <1>1 DEF DialectsContained
<1> QED BY <1>2, <1>3

\* A test begins for a word without analyses, or goes on.
LEMMA BeginTestKeeps ==
  ASSUME IInv, NEW c \in Crases, BeginTest(c)
  PROVE  IInv'
<1>1. /\ items' = items /\ count' = count /\ found' = found
      /\ crasis' = c /\ hits' = 0 /\ tested' = tested \cup {c}
  BY DEF BeginTest
<1>2. STypeOK'
  BY <1>1 DEF IInv, STypeOK
<1>3. OneEach' /\ DialectsContained'
  BY <1>1, Unmoved DEF IInv
<1>4. CASE tested = {}
  <2>1. count = 0
    BY <1>4 DEF BeginTest
  <2>2. \A k \in 1 .. Len(found) : ~ Kept(found[k].form)
    BY <2>1 DEF IInv, OneEach
  <2> QED BY <1>1, <1>2, <1>3, <2>2 DEF IInv, TestedAlone
<1>5. CASE tested # {}
  BY <1>1, <1>2, <1>3, <1>5 DEF IInv, TestedAlone
<1> QED BY <1>4, <1>5

\* What a test adds goes to analyses that tests have found.
LEMMA EndTestKeeps ==
  ASSUME IInv, EndTest
  PROVE  IInv'
<1> DEFINE Added(i) == [items[i] EXCEPT !.dialect = @ \cup crasis.possdial]
<1>1. /\ items' = [i \in DOMAIN items |->
                     IF hits > 0 /\ i <= count THEN Added(i) ELSE items[i]]
      /\ crasis # NoCrasis /\ crasis' = NoCrasis
      /\ count' = count /\ found' = found /\ hits' = hits /\ tested' = tested
  BY DEF EndTest
<1>2. \A i \in 1 .. Len(items) : Added(i) \in Analysis /\ Added(i).key = items[i].key
  <2>1. crasis \in Crases
    BY <1>1 DEF IInv, STypeOK
  <2>2. crasis.possdial \subseteq UNION {c.possdial : c \in Crases}
    BY <2>1, Zenon
  <2>3. crasis.possdial \subseteq AllDialects
    BY <2>2 DEF AllDialects
  <2>4. \A i \in 1 .. Len(items) : items[i] \in Analysis
    BY DEF IInv, STypeOK
  <2> QED BY <2>3, <2>4 DEF Analysis
<1> HIDE DEF Added
<1>3. /\ items' \in Seq(Analysis) /\ Len(items') = Len(items)
      /\ \A i \in 1 .. Len(items) : items'[i].key = items[i].key
      /\ 1 .. count \subseteq 1 .. Len(items)
  BY <1>1, <1>2 DEF IInv, STypeOK
<1>4. \A i \in 1 .. count : FormsOf(i)' = FormsOf(i)
  <2>1. \A i \in 1 .. count : items'[i].key = items[i].key
    BY <1>3
  <2> QED BY <1>1, <2>1 DEF FormsOf
<1>5. STypeOK'
  BY <1>1, <1>3 DEF IInv, STypeOK
<1>6. OneEach'
  <2>1. \A i \in 1 .. count : items'[i].key = items[i].key
    BY <1>3
  <2>2. \A i, j \in 1 .. count : items'[i].key = items'[j].key => i = j
    BY <2>1 DEF IInv, OneEach, equiv_anal
  <2>3. \A k \in 1 .. Len(found) : Kept(found[k].form) =>
          \E i \in 1 .. count : items'[i].key = found[k].form.key
    BY <2>1 DEF IInv, OneEach
  <2>4. \A i \in 1 .. count : FormsOf(i)' # {}
    BY <1>4 DEF IInv, OneEach
  <2>5. count' = count /\ found' = found
    BY <1>1
  <2>6. (\A i, j \in 1 .. count : equiv_anal(items[i], items[j]) => i = j)'
    BY <2>2, <2>5 DEF equiv_anal
  <2>7. (\A k \in 1 .. Len(found) :
           Kept(found[k].form) =>
             \E i \in 1 .. count : items[i].key = found[k].form.key)'
    BY <2>3, <2>5
  <2>8. (\A i \in 1 .. count : FormsOf(i) # {})'
    BY <2>4, <2>5
  <2> QED BY <2>6, <2>7, <2>8 DEF OneEach
<1>7. DialectsContained'
  <2>1. \A i \in 1 .. count : \A k \in FormsOf(i) : found'[k].crasis # NoCrasis
    BY <1>1 DEF IInv, TestedAlone, FormsOf
  <2> QED BY <1>1, <1>4, <2>1 DEF DialectsContained
<1>8. TestedAlone'
  BY <1>1 DEF IInv, TestedAlone
<1> QED BY <1>5, <1>6, <1>7, <1>8 DEF IInv

LEMMA EndCrasisKeeps ==
  ASSUME IInv, EndCrasis
  PROVE  IInv'
<1>1. /\ items' = items /\ count' = count /\ found' = found
      /\ crasis' = crasis /\ crasis = NoCrasis /\ hits' = hits /\ tested' = {}
  BY DEF EndCrasis
<1>2. STypeOK'
  BY <1>1 DEF IInv, STypeOK
<1>3. OneEach' /\ DialectsContained'
  BY <1>1, Unmoved DEF IInv
<1> QED BY <1>1, <1>2, <1>3 DEF IInv, TestedAlone

\* The inductive invariant holds in every reachable state of the storage.
THEOREM Invariance == SSpec => []IInv
<1>1. IInv /\ [SNext]_storage => IInv'
  <2> SUFFICES ASSUME IInv, [SNext]_storage PROVE IInv'
    OBVIOUS
  <2>1. CASE \E f \in Forms : Find(f)
    BY <2>1, FindKeeps
  <2>2. CASE \E c \in Crases : BeginTest(c)
    BY <2>2, BeginTestKeeps
  <2>3. CASE EndTest
    BY <2>3, EndTestKeeps
  <2>4. CASE EndCrasis
    BY <2>4, EndCrasisKeeps
  <2>5. CASE UNCHANGED storage
    <3>1. /\ items' = items /\ count' = count /\ found' = found
          /\ crasis' = crasis /\ hits' = hits /\ tested' = tested
      BY <2>5 DEF storage
    <3>2. OneEach' /\ DialectsContained'
      BY <3>1, Unmoved DEF IInv
    <3> QED BY <3>1, <3>2 DEF IInv, STypeOK, TestedAlone
  <2> QED BY <2>1, <2>2, <2>3, <2>4, <2>5 DEF SNext
<1> QED BY Initially, <1>1, PTL DEF SSpec

\* Whatever the engine finds in whatever order, the storage keeps exactly one
\* analysis of each form (AddAnalysis).
THEOREM OnePerForm == SSpec => []OneEach
<1>1. IInv => OneEach
  BY DEF IInv
<1> QED BY <1>1, Invariance, PTL

\* A crasis adds its dialects to nothing that was found without one
\* (testcrasis).
THEOREM DialectsRight == SSpec => []DialectsContained
<1>1. IInv => DialectsContained
  BY DEF IInv
<1> QED BY <1>1, Invariance, PTL
=============================================================================
