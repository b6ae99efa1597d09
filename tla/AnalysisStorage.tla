-------------------------- MODULE AnalysisStorage --------------------------
(***************************************************************************)
(* The analyses of one word: AddAnalysis (anal/checkgenwds.c) puts a form  *)
(* that the engine found into storage that every copy of the word shares,  *)
(* or merges it with an equivalent one; testcrasis (anal/checkcrasis.c)    *)
(* runs the engine on a word respelled for a crasis and then adds the      *)
(* crasis' dialects to everything in the storage.                          *)
(*                                                                         *)
(* A form is [key, dialect, crasis, unaugmented, indicative]: key stands   *)
(* for all that equiv_anal compares, dialect is the union of its parts'.   *)
(* The empty dialect is every dialect.  Lemmas of compounds, which may be  *)
(* too long, preverbs without aspiration and refused memory are left out.  *)
(***************************************************************************)
EXTENDS Integers, Sequences, FiniteSets

CONSTANTS
  Forms,            \* the forms that the engine may find
  Crases,           \* PossCras: [preword, possdial]
  InitialCapacity,  \* 4
  MaxFound          \* bound: forms found for a word

None == "none"
NoCrasis == [preword |-> None, possdial |-> {}]

ASSUME StorageAssumption == InitialCapacity \in Nat \ {0} /\ MaxFound \in Nat
ASSUME CrasesAssumption == NoCrasis \notin Crases

VARIABLES
  items,    \* gw_analysis_storage->items, as long as its capacity
  count,    \* gw_analysis_storage->count
  crasis,   \* the crasis under test
  hits,     \* the analyses it has added
  tested,   \* the crases tested in this call of checkcrasis
  found     \* history: the forms found, with the crasis under test

storage == <<items, count, crasis, hits, tested, found>>

Empty == [key |-> None, dialect |-> {}, crasis |-> None]

SInit ==
  /\ items = <<>> /\ count = 0 /\ crasis = NoCrasis /\ hits = 0 /\ tested = {}
  /\ found = <<>>

----------------------------------------------------------------------------
equiv_anal(a, b) == a.key = b.key

\* merge_anal_dialects: no false constraints for an analysis that has none.
merge_anal_dialects(a, b) ==
  IF a.dialect = {} THEN a ELSE [a EXCEPT !.dialect = @ \cup b.dialect]

\* Room for one more: the capacity starts at four and doubles, in cleared
\* memory.
Grown ==
  LET capacity == IF items = <<>> THEN InitialCapacity ELSE 2 * Len(items)
  IN IF count < Len(items) THEN items
     ELSE [i \in 1 .. capacity |-> IF i <= Len(items) THEN items[i] ELSE Empty]

\* An unaugmented form is homeric or ionic.
FormDialect(f) ==
  IF ~ f.unaugmented THEN f.dialect
  ELSE IF f.dialect = {} THEN {"HOMERIC", "IONIC"}
  ELSE f.dialect

\* The record behind the last analysis, as the form writes it: a crasis left
\* there by a form that was not kept stays unless the form has its own.
Written(f, slot) ==
  [key |-> f.key, dialect |-> FormDialect(f),
   crasis |-> IF f.crasis # None THEN f.crasis ELSE slot.crasis]

\* Mutant: only the analysis before is compared.
TwinLast(anal) == {i \in 1 .. count : i = count /\ equiv_anal(anal, items[i])}
Twin(anal) == {i \in 1 .. count : equiv_anal(anal, items[i])}

\* AddAnalysis.  The return value is counted in hits.
AddAnalysis(f) ==
  LET room == Grown
      anal == Written(f, room[count + 1])
      twins == Twin(anal)
  IN IF f.unaugmented /\ ~ f.indicative
     THEN items' = [room EXCEPT ![count + 1].crasis = anal.crasis]
          /\ UNCHANGED <<count, hits>>
     ELSE IF twins # {}
     THEN LET first == CHOOSE i \in twins : \A j \in twins : i <= j
          IN /\ items' = [room EXCEPT ![count + 1] = anal,
                                      ![first] = merge_anal_dialects(@, anal)]
             /\ UNCHANGED <<count, hits>>
     ELSE /\ items' = [room EXCEPT ![count + 1] = anal]
          /\ count' = count + 1
          /\ hits' = hits + 1

\* The engine finds a form, of the word as it is spelled now.
Find(f) ==
  /\ Len(found) < MaxFound
  /\ f.crasis = crasis.preword
  /\ crasis = NoCrasis => tested = {}
  /\ AddAnalysis(f)
  /\ found' = Append(found, [form |-> f, crasis |-> crasis])
  /\ UNCHANGED <<crasis, tested>>

\* checkcrasis is called for a word that has no analyses; it tests every
\* crasis the word may begin with.  Mutant: it is called for any word.
BeginTestAlways(c) ==
  /\ crasis = NoCrasis /\ c \notin tested
  /\ crasis' = c
  /\ hits' = 0
  /\ tested' = tested \cup {c}
  /\ UNCHANGED <<items, count, found>>
BeginTest(c) ==
  /\ crasis = NoCrasis /\ c \notin tested
  /\ tested = {} => count = 0
  /\ crasis' = c
  /\ hits' = 0
  /\ tested' = tested \cup {c}
  /\ UNCHANGED <<items, count, found>>

\* The end of testcrasis: its dialects go to all analyses if it added one.
EndTest ==
  /\ crasis # NoCrasis
  /\ items' = [i \in DOMAIN items |->
                 IF hits > 0 /\ i <= count
                 THEN [items[i] EXCEPT !.dialect = @ \cup crasis.possdial]
                 ELSE items[i]]
  /\ crasis' = NoCrasis
  /\ UNCHANGED <<count, hits, tested, found>>

\* checkcrasis returns; the word may be looked at in another way.
EndCrasis ==
  /\ crasis = NoCrasis /\ tested # {}
  /\ tested' = {}
  /\ UNCHANGED <<items, count, crasis, hits, found>>

SNext ==
  \/ \E f \in Forms : Find(f)
  \/ \E c \in Crases : BeginTest(c)
  \/ EndTest
  \/ EndCrasis

SSpec == SInit /\ [][SNext]_storage

----------------------------------------------------------------------------
\* An analysis has a key of a form, and dialects of forms and crases.
AllDialects ==
  (UNION {f.dialect : f \in Forms}) \cup (UNION {c.possdial : c \in Crases})
    \cup {"HOMERIC", "IONIC"}
Analysis ==
  [key : {f.key : f \in Forms} \cup {None}, dialect : SUBSET AllDialects,
   crasis : {f.crasis : f \in Forms} \cup {None}]

\* Every variable keeps its type; nothing is counted that has no room.
STypeOK ==
  /\ items \in Seq(Analysis) /\ count \in 0 .. Len(items)
  /\ crasis \in Crases \cup {NoCrasis} /\ hits \in Nat
  /\ tested \subseteq Crases
  /\ found \in Seq([form : Forms, crasis : Crases \cup {NoCrasis}])

Kept(f) == ~ f.unaugmented \/ f.indicative
FormsOf(i) == {k \in 1 .. Len(found) : /\ Kept(found[k].form)
                                       /\ found[k].form.key = items[i].key}

\* The storage has exactly one analysis for each form that was found and not
\* refused, however it has grown and whatever was merged (the loop over the
\* analyses in AddAnalysis).
OneEach ==
  /\ \A i, j \in 1 .. count : equiv_anal(items[i], items[j]) => i = j
  /\ \A k \in 1 .. Len(found) :
       Kept(found[k].form) =>
         \E i \in 1 .. count : items[i].key = found[k].form.key
  /\ \A i \in 1 .. count : FormsOf(i) # {}

\* The dialects of an analysis come from its own forms: the crases that
\* testcrasis adds to whatever the storage holds reach only analyses that a
\* crasis found first.  What can be in any dialect stays so.
DialectsContained ==
  \A i \in 1 .. count :
    \A first \in FormsOf(i) :
      found[first].crasis = NoCrasis /\ (\A k \in FormsOf(i) : first <= k) =>
        /\ \A d \in items[i].dialect :
             \E k \in FormsOf(i) : d \in FormDialect(found[k].form)
        /\ FormDialect(found[first].form) \subseteq items[i].dialect
        /\ FormDialect(found[first].form) = {} <=> items[i].dialect = {}
=============================================================================
