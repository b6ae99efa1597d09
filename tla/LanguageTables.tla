--------------------------- MODULE LanguageTables ---------------------------
(***************************************************************************)
(* The tables of a language that the engine reads when it first needs them *)
(* and keeps in its runtime context: the morphology keys                   *)
(* (morphlib/morphkeys.c), the raw preverbs (morphlib/preverb3.c), the     *)
(* contraction and euphony tables (gkends/contract.c) and the ring of      *)
(* ending tables (gkends/getcurrend.c).                                    *)
(*                                                                         *)
(* No table is dropped when the language of a context changes: each cache  *)
(* remembers the language it was filled for and finds out at its next use. *)
(* Reading a table of preverbs, contractions or endings uses the keys, so  *)
(* one request can fill, clear or fail two caches.  One context is used by *)
(* one thread at a time; a request is one step.                            *)
(***************************************************************************)
EXTENDS Integers, Sequences, FiniteSets

CONSTANTS
  Languages,   \* languages the context is switched between
  StemTypes,   \* stem types; every language has an ending table for each
  Tables,      \* the tables of preverbs, contractions and euphony
  CacheSize,   \* MORPHEUS_END_CACHE_SIZE
  Nothing      \* the NULL pointer

Keys == "keys"
Names == StemTypes \cup Tables \cup {Keys}
Content == [language : Languages, name : Names]   \* a table read from a file
Slots == 0 .. CacheSize - 1
Faults == {"NONE", "INTERNAL", "NO_MEMORY"}

ASSUME CacheAssumption == CacheSize \in Nat \ {0}
ASSUME NamesAssumption ==
  /\ StemTypes \cap Tables = {}
  /\ Keys \notin StemTypes \cup Tables
ASSUME NothingAssumption ==
  /\ Nothing \notin Content
  /\ Nothing \notin [language : Languages, name : Names,
                     got : Content \cup {Nothing}]

VARIABLES
  language,        \* of the context
  error,           \* runtime_error
  keys, keys_language,
  table, table_language,
  cache, current, size,          \* ending_cache, _current, _size
  cache_language, initialized,   \* ending_cache_language, _initialized
  answer,   \* the last request, and the table it got
  missed,   \* history: a request got nothing since the call began
  recent    \* history: the endings loaded since the ring was cleared, no more
            \* than the last CacheSize of them
keyVars == <<keys, keys_language>>
tableVars == <<table, table_language>>
ringVars == <<cache, current, size, cache_language, initialized, recent>>
vars == <<language, error, keyVars, tableVars, ringVars, answer, missed>>

\* A zeroed context: every language field has the value 0.
Init ==
  /\ language \in Languages
  /\ error = "NONE"
  /\ keys = Nothing /\ keys_language = language
  /\ table = [t \in Tables |-> Nothing]
  /\ table_language = [t \in Tables |-> language]
  /\ cache = [i \in Slots |-> Nothing] /\ current = 0 /\ size = 0
  /\ cache_language = language /\ initialized = FALSE
  /\ answer = Nothing /\ missed = FALSE /\ recent = <<>>

\* morpheus_runtime_error_record keeps the first error.  Mutant: the last.
RecordLast(e, fault) == fault
Record(e, fault) == IF e = "NONE" THEN fault ELSE e

\* A file of the current language, read from its first byte to its last or
\* not kept.
Read(name, fault) ==
  IF fault = "NONE" THEN [language |-> language, name |-> name] ELSE Nothing
Answer(name, got) ==
  /\ answer' = [language |-> language, name |-> name, got |-> got]
  /\ missed' = (missed \/ got = Nothing)

\* set_lang, morpheus_runtime_context_set_language.
SetLanguage(l) ==
  /\ language' = l
  /\ UNCHANGED <<error, keyVars, tableVars, ringVars, answer, missed>>

\* A call begins: morpheus_runtime_context_clear_error.
BeginCall ==
  /\ error' = "NONE" /\ answer' = Nothing /\ missed' = FALSE
  /\ UNCHANGED <<language, keyVars, tableVars, ringVars>>

----------------------------------------------------------------------------
(* Morphology keys.                                                        *)

keys_inited == keys # Nothing /\ keys_language = language
\* The keys after init_keys, if it is needed, met a fault, and that fault.
KeysAfter(fault) == IF keys_inited THEN keys ELSE Read(Keys, fault)
KeysFault(fault) == IF keys_inited THEN "NONE" ELSE fault
InitKeys(fault) ==
  /\ keys' = KeysAfter(fault)
  /\ keys_language' =
       IF KeysFault(fault) = "NONE" THEN language ELSE keys_language

\* Scanning or naming a key.
UseKeys(fault) ==
  /\ InitKeys(fault)
  /\ error' = Record(error, KeysFault(fault))
  /\ Answer(Keys, keys')
  /\ UNCHANGED <<language, tableVars, ringVars>>

----------------------------------------------------------------------------
(* Preverbs, contractions, euphony.                                        *)

\* Mutant: whatever is loaded is used.
LoadedAnyhow(t) == table[t] # Nothing
Loaded(t) == table[t] # Nothing /\ table_language[t] = language

\* ensure_preverb_table, vowel_contraction_table, consonant_euphony_table.
UseLoaded(t) ==
  /\ Loaded(t)
  /\ Answer(t, table[t])
  /\ UNCHANGED <<language, error, keyVars, tableVars, ringVars>>

\* load_euph_tab gives up after a line when the context has an error, also one
\* from before.  It may fail before it has scanned a key.
LoadTable(t, key_fault, fault) ==
  /\ ~Loaded(t)
  /\ \/ /\ fault # "NONE"
        /\ error' = Record(error, fault)
        /\ UNCHANGED keyVars
     \/ /\ InitKeys(key_fault)
        /\ error' = Record(Record(error, KeysFault(key_fault)), fault)
  /\ table' = [table EXCEPT ![t] = Read(t, error')]
  /\ table_language' =
       IF error' = "NONE" THEN [table_language EXCEPT ![t] = language]
                          ELSE table_language
  /\ Answer(t, table'[t])
  /\ UNCHANGED <<language, ringVars>>

----------------------------------------------------------------------------
(* The ring of ending tables.                                              *)

\* The ring as current_ending_cache returns it.
stale == initialized /\ cache_language # language
Ring == IF stale THEN [i \in Slots |-> Nothing] ELSE cache
\* Mutant: clearing forgets the write position.
CurrentKept == current
RingCurrent == IF stale THEN 0 ELSE current
RingSize == IF stale THEN 0 ELSE size
RingRecent == IF stale THEN <<>> ELSE recent

\* CheckEndCache and cacheconsistent stop at the first empty slot.
Scanned == {i \in Slots : \A j \in 0 .. i : Ring[j] # Nothing}
Found(s) == {i \in Scanned : Ring[i].name = s}
CacheConsistent ==
  /\ size' = IF Cardinality(Scanned) < RingSize THEN RingSize
                                                ELSE Cardinality(Scanned)
  /\ cache_language' = language /\ initialized' = TRUE

\* GetCurrentEndList, from the ring.  The consistency check names every table
\* in it, so the keys are loaded again if they are of another language; the
\* files do not change within one request.
UseEndings(s, key_fault) ==
  /\ Found(s) # {}
  /\ CacheConsistent
  /\ InitKeys(key_fault)
  /\ error' = Record(error, KeysFault(key_fault))
  /\ LET i == CHOOSE i \in Found(s) : \A j \in Found(s) : i <= j
     IN Answer(s, Ring[i])
  /\ cache' = Ring /\ current' = RingCurrent /\ recent' = RingRecent
  /\ UNCHANGED <<language, tableVars>>

\* InsertEndCache.
Following(i) == IF i + 1 >= CacheSize THEN 0 ELSE i + 1
Insert(s) ==
  /\ cache' = [Ring EXCEPT ![RingCurrent] = Read(s, "NONE")]
  /\ current' = Following(RingCurrent)
  /\ recent' = LET all == Append(RingRecent, s)
               IN IF Len(all) > CacheSize THEN Tail(all) ELSE all

\* GetCurrentEndList, from the file, whose name needs the keys.
LoadEndings(s, key_fault, fault) ==
  /\ Found(s) = {}
  /\ CacheConsistent
  /\ InitKeys(key_fault)
  /\ LET reading == IF keys' = Nothing THEN "INTERNAL" ELSE fault
     IN /\ error' = Record(Record(error, KeysFault(key_fault)), reading)
        /\ Answer(s, Read(s, reading))
        /\ IF reading = "NONE"
           THEN Insert(s)
           ELSE cache' = Ring /\ current' = RingCurrent /\ recent' = RingRecent
  /\ UNCHANGED <<language, tableVars>>

----------------------------------------------------------------------------
Next ==
  \/ \E l \in Languages : SetLanguage(l)
  \/ BeginCall
  \/ \E f \in Faults : UseKeys(f)
  \/ \E t \in Tables : UseLoaded(t)
  \/ \E t \in Tables, k \in Faults, f \in Faults : LoadTable(t, k, f)
  \/ \E s \in StemTypes, k \in Faults : UseEndings(s, k)
  \/ \E s \in StemTypes, k \in Faults, f \in Faults : LoadEndings(s, k, f)

Spec == Init /\ [][Next]_vars

----------------------------------------------------------------------------
(* Properties.                                                             *)

Maybe == Content \cup {Nothing}
\* Every variable keeps its type.
TypeOK ==
  /\ language \in Languages /\ error \in Faults
  /\ keys \in Maybe /\ keys_language \in Languages
  /\ table \in [Tables -> Maybe] /\ table_language \in [Tables -> Languages]
  /\ cache \in [Slots -> Maybe] /\ current \in Slots /\ size \in 0 .. CacheSize
  /\ cache_language \in Languages /\ initialized \in BOOLEAN
  /\ answer \in [language : Languages, name : Names, got : Maybe]
                  \cup {Nothing}
  /\ missed \in BOOLEAN
  /\ recent \in Seq(StemTypes)

\* A request gets the table it asked for, in the language the context had at
\* that moment, however the language changed and whatever failed before: a
\* table of another language would give wrong analyses without any error.
AnswersCurrent ==
  answer # Nothing /\ answer.got # Nothing =>
    answer.got = [language |-> answer.language, name |-> answer.name]

\* A request of this call that got nothing is not hidden by a later success:
\* the status of the call is read from the error (morpheus_analyze).
MissReported == missed => error # "NONE"

\* A ring whose next write goes to slot cur, filled in the language lang with
\* the endings rec, the oldest first: the slots behind cur hold rec, each
\* ending once, and the others hold nothing.
Back(cur, d) == IF cur >= d THEN cur - d ELSE cur - d + CacheSize
Fifo(ring, cur, lang, rec) ==
  /\ Len(rec) <= CacheSize
  /\ Len(rec) < CacheSize => cur = Len(rec)
  /\ \A k \in 1 .. Len(rec) : ring[Back(cur, Len(rec) - k + 1)] =
                                [language |-> lang, name |-> rec[k]]
  /\ \A i \in Slots : ring[i] # Nothing =>
       \E k \in 1 .. Len(rec) : i = Back(cur, Len(rec) - k + 1)
  /\ \A j, k \in 1 .. Len(rec) : rec[j] = rec[k] => j = k

\* The ring holds the last CacheSize ending tables read in its language, each
\* once, from the write position backwards, and has no holes for the scans to
\* stop at (CheckEndCache, InsertEndCache): a table is not read again while
\* it is one of those.
RingIsFifo == Fifo(cache, current, cache_language, recent)

\* The count of the ring never runs ahead of its tables: the message "saw only
\* ... of ... ending tables" (cacheconsistent, getcurrend.c:174) is never
\* printed.
Occupied(ring) == {i \in Slots : ring[i] # Nothing}
NeverShort == size <= Cardinality(Occupied(cache))
=============================================================================
