---------------------------- MODULE EngineProofs ----------------------------
(***************************************************************************)
(* Proofs about LanguageTables, for any languages, tables, stem types and  *)
(* size of the ring, about StemIndex, for any characters, entries, keys    *)
(* and coarseness of the index, and about Accentuation, for words of any   *)
(* length.                                                                 *)
(*                                                                         *)
(* The loops of StemIndex are functions of the number of their turns.      *)
(* That there is such a function is the lemma Turns; what holds after each *)
(* turn follows by going up the turns (Upward).                            *)
(***************************************************************************)
EXTENDS LanguageTables, StemIndex, AccentLaw, FiniteSetTheorems,
        WellFoundedInduction, TLAPS

\* A cached table is of the language its cache remembers.
KeysRight ==
  keys # Nothing => keys = [language |-> keys_language, name |-> Keys]
TablesRight ==
  \A t \in Tables :
    table[t] # Nothing => table[t] = [language |-> table_language[t],
                                      name |-> t]
\* Before the first request nothing is in the ring.
FreshRing == ~initialized => recent = <<>>

IInv ==
  /\ TypeOK
  /\ KeysRight
  /\ TablesRight
  /\ FreshRing
  /\ RingIsFifo
  /\ NeverShort
  /\ AnswersCurrent
  /\ MissReported

----------------------------------------------------------------------------
(* The ring.                                                               *)

\* A slot behind the write position is a slot, and slots at different
\* distances are different (InsertEndCache).
LEMMA BackSlots ==
  ASSUME NEW cur \in Slots
  PROVE  /\ \A d \in 1 .. CacheSize : Back(cur, d) \in Slots
         /\ \A d, e \in 1 .. CacheSize : Back(cur, d) = Back(cur, e) => d = e
         /\ \A i \in Slots : \E d \in 1 .. CacheSize : i = Back(cur, d)
         /\ Back(cur, CacheSize) = cur
         /\ Following(cur) \in Slots
         /\ Back(Following(cur), 1) = cur
         /\ \A d \in 1 .. CacheSize - 1 :
              Back(Following(cur), d + 1) = Back(cur, d)
<1>1. \A d \in 1 .. CacheSize : Back(cur, d) \in Slots
  BY CacheAssumption DEF Back, Slots
<1>2. \A d, e \in 1 .. CacheSize : Back(cur, d) = Back(cur, e) => d = e
  BY CacheAssumption DEF Back, Slots
<1>3. ASSUME NEW i \in Slots
      PROVE  \E d \in 1 .. CacheSize : i = Back(cur, d)
  <2> DEFINE d == IF i < cur THEN cur - i ELSE cur - i + CacheSize
  <2>1. d \in 1 .. CacheSize /\ i = Back(cur, d)
    BY CacheAssumption DEF Back, Slots
  <2> QED BY <2>1
<1>4. Back(cur, CacheSize) = cur
  BY CacheAssumption DEF Back, Slots
<1>5. Following(cur) \in Slots /\ Back(Following(cur), 1) = cur
  BY CacheAssumption DEF Back, Slots, Following
<1>6. \A d \in 1 .. CacheSize - 1 :
        Back(Following(cur), d + 1) = Back(cur, d)
  BY CacheAssumption DEF Back, Slots, Following
<1> QED BY <1>1, <1>2, <1>3, <1>4, <1>5, <1>6

\* The scans of a ring find all of its tables (CheckEndCache,
\* cacheconsistent).
LEMMA NoHoles ==
  ASSUME NEW ring \in [Slots -> Maybe], NEW cur \in Slots,
         NEW lang \in Languages, NEW rec \in Seq(StemTypes),
         Fifo(ring, cur, lang, rec),
         NEW i \in Slots, ring[i] # Nothing,
         NEW j \in 0 .. i
  PROVE  ring[j] # Nothing
<1> DEFINE n == Len(rec)
<1>1. n \in Nat /\ n <= CacheSize /\ \A k \in 1 .. n : rec[k] \in StemTypes
  BY CacheAssumption DEF Fifo
<1>2. j \in Slots
  BY CacheAssumption DEF Slots
<1>3. ASSUME NEW k \in 1 .. n, j = Back(cur, n - k + 1)
      PROVE  ring[j] # Nothing
  <2>1. ring[j] = [language |-> lang, name |-> rec[k]]
    BY <1>3 DEF Fifo
  <2>2. [language |-> lang, name |-> rec[k]] \in Content
    BY <1>1 DEF Content, Names
  <2> QED BY <2>1, <2>2, NothingAssumption
<1>4. CASE n < CacheSize
  <2>1. cur = n
    BY <1>4 DEF Fifo
  <2>2. PICK k \in 1 .. n : i = Back(cur, n - k + 1)
    BY DEF Fifo
  <2>3. i = k - 1
    BY <2>1, <2>2, <1>1 DEF Back
  <2>4. j + 1 \in 1 .. n /\ j = Back(cur, n - (j + 1) + 1)
    BY <2>1, <2>3, <1>1 DEF Back
  <2> QED BY <2>4, <1>3
<1>5. CASE n = CacheSize
  <2>1. PICK d \in 1 .. CacheSize : j = Back(cur, d)
    BY <1>2, BackSlots
  <2>2. n - d + 1 \in 1 .. n /\ n - (n - d + 1) + 1 = d
    BY <1>5, <1>1, CacheAssumption
  <2> QED BY <2>1, <2>2, <1>3
<1> QED BY <1>1, <1>4, <1>5, CacheAssumption

\* Dropping the oldest element of a sequence that has grown by one.
LEMMA AppendTail ==
  ASSUME NEW S, NEW q \in Seq(S), NEW s \in S, Len(q) >= 1
  PROVE  /\ Len(Append(q, s)) = Len(q) + 1
         /\ Len(Tail(Append(q, s))) = Len(q)
         /\ Tail(Append(q, s))[Len(q)] = s
         /\ \A k \in 1 .. Len(q) - 1 : Tail(Append(q, s))[k] = q[k + 1]
<1> DEFINE a == Append(q, s)
<1>1. /\ a \in Seq(S) /\ Len(a) = Len(q) + 1 /\ a[Len(q) + 1] = s
      /\ \A k \in 1 .. Len(q) : a[k] = q[k]
  OBVIOUS
<1> HIDE DEF a
<1>2. Len(Tail(a)) = Len(q) /\ \A k \in 1 .. Len(q) : Tail(a)[k] = a[k + 1]
  BY <1>1
<1>3. Tail(a)[Len(q)] = s
  BY <1>1, <1>2
<1>4. \A k \in 1 .. Len(q) - 1 : Tail(a)[k] = q[k + 1]
  BY <1>1, <1>2
<1> QED BY <1>1, <1>2, <1>3, <1>4 DEF a

\* Inserting a table that is not there keeps the ring in order.
LEMMA InsertKeepsFifo ==
  ASSUME NEW ring \in [Slots -> Maybe], NEW cur \in Slots,
         NEW lang \in Languages, NEW rec \in Seq(StemTypes),
         Fifo(ring, cur, lang, rec),
         NEW s \in StemTypes, \A k \in 1 .. Len(rec) : rec[k] # s
  PROVE  LET all == Append(rec, s)
         IN Fifo([ring EXCEPT ![cur] = [language |-> lang, name |-> s]],
                 Following(cur), lang,
                 IF Len(all) > CacheSize THEN Tail(all) ELSE all)
<1> DEFINE n == Len(rec)
           new == [ring EXCEPT ![cur] = [language |-> lang, name |-> s]]
           all == Append(rec, s)
           rest == IF Len(all) > CacheSize THEN Tail(all) ELSE all
           m == Len(rest)
           gone == IF n < CacheSize THEN 0 ELSE 1
<1>1. n \in Nat /\ n <= CacheSize
  BY CacheAssumption DEF Fifo
<1>2. /\ m = n + 1 - gone /\ gone \in {0, 1} /\ m \in Nat
      /\ \A k \in 1 .. m - 1 : rest[k] = rec[k + gone]
      /\ rest[m] = s
      /\ m >= 1 /\ m <= CacheSize
  <2>1. CASE n < CacheSize
    BY <2>1, <1>1, CacheAssumption
  <2>2. CASE n = CacheSize
    <3>1. n >= 1 /\ n + 1 > CacheSize /\ gone = 1
      BY <2>2, <1>1, CacheAssumption
    <3>2. /\ Len(all) = n + 1
          /\ Len(Tail(all)) = n /\ Tail(all)[n] = s
          /\ \A k \in 1 .. n - 1 : Tail(all)[k] = rec[k + 1]
      BY <3>1, AppendTail
    <3>3. rest = Tail(all)
      BY <3>1, <3>2
    <3> HIDE DEF rest, n, all, gone
    <3> QED BY <3>1, <3>2, <3>3, <2>2, <1>1 DEF m
  <2>3. n < CacheSize \/ n = CacheSize
    BY <1>1, CacheAssumption
  <2> HIDE DEF rest, m, gone, n
  <2> QED BY <2>1, <2>2, <2>3
<1> HIDE DEF rest, m, gone
<1>3. ASSUME NEW k \in 1 .. m
      PROVE  new[Back(Following(cur), m - k + 1)] =
               [language |-> lang, name |-> rest[k]]
  <2>1. CASE k = m
    <3>1. Back(Following(cur), m - k + 1) = cur
      BY <2>1, <1>1, <1>2, BackSlots
    <3> QED BY <3>1, <2>1, <1>2
  <2>2. CASE k # m
    <3> DEFINE d == m - k
    <3>1. d \in 1 .. CacheSize - 1 /\ k + gone \in 1 .. n
          /\ n - (k + gone) + 1 = d /\ k \in 1 .. m - 1
      BY <2>2, <1>1, <1>2, CacheAssumption
    <3>2. Back(Following(cur), d + 1) = Back(cur, d) /\ Back(cur, d) # cur
          /\ Back(cur, d) \in Slots
      <4> HIDE DEF d
      <4>1. d \in 1 .. CacheSize /\ CacheSize \in 1 .. CacheSize /\ d # CacheSize
        BY <3>1, CacheAssumption
      <4>2. Back(cur, d) # Back(cur, CacheSize)
        BY <4>1, BackSlots
      <4>3. Back(Following(cur), d + 1) = Back(cur, d)
        BY <3>1, BackSlots
      <4> QED BY <4>1, <4>2, <4>3, BackSlots
    <3>3. ring[Back(cur, d)] = [language |-> lang, name |-> rec[k + gone]]
      BY <3>1 DEF Fifo
    <3> QED BY <3>1, <3>2, <3>3, <1>2
  <2> QED BY <2>1, <2>2
<1>4. ASSUME NEW i \in Slots, new[i] # Nothing
      PROVE  \E k \in 1 .. m : i = Back(Following(cur), m - k + 1)
  <2>1. CASE i = cur
    <3>1. i = Back(Following(cur), m - m + 1)
      BY <2>1, <1>1, <1>2, BackSlots
    <3> QED BY <3>1, <1>1, <1>2
  <2>2. CASE i # cur
    <3>1. ring[i] # Nothing
      BY <1>4, <2>2
    <3>2. PICK k \in 1 .. n : i = Back(cur, n - k + 1)
      BY <3>1 DEF Fifo
    <3>3. n - k + 1 # CacheSize
      BY <2>2, <3>2, BackSlots
    <3>4. n - k + 1 \in 1 .. CacheSize - 1 /\ k - gone \in 1 .. m
          /\ m - (k - gone) + 1 = (n - k + 1) + 1
      BY <3>2, <3>3, <1>1, <1>2, CacheAssumption DEF gone
    <3>5. i = Back(Following(cur), m - (k - gone) + 1)
      BY <3>2, <3>4, BackSlots
    <3> QED BY <3>4, <3>5
  <2> QED BY <2>1, <2>2
<1>5. ASSUME NEW j \in 1 .. m, NEW k \in 1 .. m, rest[j] = rest[k]
      PROVE  j = k
  <2>1. ASSUME NEW i \in 1 .. m - 1
        PROVE  rest[i] # rest[m]
    <3>1. i + gone \in 1 .. n /\ rest[i] = rec[i + gone]
      BY <1>1, <1>2
    <3> QED BY <3>1, <1>2
  <2>3. CASE j = m \/ k = m
    <3>1. j \in 1 .. m - 1 \/ j = m
      BY <1>2
    <3>2. k \in 1 .. m - 1 \/ k = m
      BY <1>2
    <3> QED BY <2>1, <2>3, <3>1, <3>2, <1>5
  <2>2. CASE j # m /\ k # m
    <3>1. j \in 1 .. m - 1 /\ k \in 1 .. m - 1
      <4>1. m \in Nat
        BY <1>2
      <4> HIDE DEF m
      <4> QED BY <2>2, <4>1
    <3>4. j + gone \in 1 .. n /\ k + gone \in 1 .. n
      <4>1. n \in Nat /\ m \in Nat /\ m = n + 1 - gone /\ gone \in {0, 1}
        BY <1>1, <1>2
      <4> HIDE DEF n, m, gone
      <4> QED BY <3>1, <4>1
    <3>2. rec[j + gone] = rec[k + gone]
      BY <3>1, <1>5, <1>2
    <3>3. j + gone = k + gone
      BY <3>4, <3>2 DEF Fifo
    <3> QED BY <3>3, <1>2
  <2> QED BY <2>2, <2>3
<1>6. m < CacheSize => Following(cur) = m
  BY <1>1, <1>2, CacheAssumption DEF Fifo, Following, gone
<1>7. Fifo(new, Following(cur), lang, rest)
  BY <1>2, <1>3, <1>4, <1>5, <1>6 DEF Fifo, m
<1> QED BY <1>7 DEF rest

\* The ring that current_ending_cache returns is in order, for the language of
\* the context.
LEMMA CurrentRing ==
  ASSUME TypeOK, RingIsFifo, NeverShort, FreshRing
  PROVE  /\ Ring \in [Slots -> Maybe] /\ RingCurrent \in Slots
         /\ RingSize \in 0 .. CacheSize /\ RingRecent \in Seq(StemTypes)
         /\ Fifo(Ring, RingCurrent, language, RingRecent)
         /\ RingSize <= Cardinality(Occupied(Ring))
         /\ IsFiniteSet(Occupied(Ring))
         /\ Cardinality(Occupied(Ring)) \in 0 .. CacheSize
         /\ \A i \in Slots : Ring[i] # Nothing =>
              Ring[i] = [language |-> language, name |-> Ring[i].name]
<1>1. Ring \in [Slots -> Maybe] /\ RingCurrent \in Slots
      /\ RingSize \in 0 .. CacheSize /\ RingRecent \in Seq(StemTypes)
  BY CacheAssumption DEF TypeOK, Ring, RingCurrent, RingSize, RingRecent,
                         Maybe, Slots
<1>2. IsFiniteSet(Occupied(Ring))
      /\ Cardinality(Occupied(Ring)) \in 0 .. CacheSize
  <2>1. IsFiniteSet(Slots) /\ Cardinality(Slots) = CacheSize
    BY FS_Interval, CacheAssumption DEF Slots
  <2>2. Occupied(Ring) \in SUBSET Slots
    BY DEF Occupied
  <2>3. IsFiniteSet(Occupied(Ring))
        /\ Cardinality(Occupied(Ring)) <= Cardinality(Slots)
    BY <2>1, <2>2, FS_Subset
  <2>4. Cardinality(Occupied(Ring)) \in Nat
    BY <2>3, FS_CardinalityType
  <2> QED BY <2>1, <2>3, <2>4, CacheAssumption
<1>3. Fifo(Ring, RingCurrent, language, RingRecent)
  <2>1. CASE stale
    BY <2>1, CacheAssumption
    DEF Fifo, Ring, RingCurrent, RingRecent
  <2>2. CASE ~stale /\ initialized
    BY <2>2 DEF stale, RingIsFifo, Ring, RingCurrent, RingRecent
  <2>3. CASE ~initialized
    BY <2>3, CacheAssumption
    DEF stale, FreshRing, RingIsFifo, Fifo, Ring, RingCurrent, RingRecent
  <2> QED BY <2>1, <2>2, <2>3
<1>4. RingSize <= Cardinality(Occupied(Ring))
  BY <1>2 DEF NeverShort, RingSize, Ring
<1>5. ASSUME NEW i \in Slots, Ring[i] # Nothing
      PROVE  Ring[i] = [language |-> language, name |-> Ring[i].name]
  <2>1. PICK k \in 1 .. Len(RingRecent) :
          i = Back(RingCurrent, Len(RingRecent) - k + 1)
    BY <1>3, <1>5 DEF Fifo
  <2>2. Ring[i] = [language |-> language, name |-> RingRecent[k]]
    BY <1>3, <2>1 DEF Fifo
  <2> QED BY <2>2
<1> QED BY <1>1, <1>2, <1>3, <1>4, <1>5

\* A request for endings scans every table of the ring, and finds the one it
\* wants exactly when that is among the latest.
LEMMA ScanFinds ==
  ASSUME TypeOK, RingIsFifo, NeverShort, FreshRing, NEW s \in StemTypes
  PROVE  /\ Scanned = Occupied(Ring)
         /\ Found(s) = {} => \A k \in 1 .. Len(RingRecent) : RingRecent[k] # s
         /\ Found(s) # {} =>
              \E i \in Found(s) : \A j \in Found(s) : i <= j
<1>1. Scanned = Occupied(Ring)
  <2>1. ASSUME NEW i \in Slots, Ring[i] # Nothing, NEW j \in 0 .. i
        PROVE  Ring[j] # Nothing
    <3>1. language \in Languages
      BY DEF TypeOK
    <3> QED BY <2>1, <3>1, CurrentRing, NoHoles
  <2>2. \A i \in Slots : i \in 0 .. i
    BY CacheAssumption DEF Slots
  <2> QED BY <2>1, <2>2 DEF Scanned, Occupied
<1>2. ASSUME Found(s) = {}, NEW k \in 1 .. Len(RingRecent), RingRecent[k] = s
      PROVE  FALSE
  <2> DEFINE i == Back(RingCurrent, Len(RingRecent) - k + 1)
  <2>1. Len(RingRecent) - k + 1 \in 1 .. CacheSize
    BY CurrentRing, CacheAssumption DEF Fifo
  <2>2. i \in Slots
    BY <2>1, CurrentRing, BackSlots
  <2>3. Ring[i] = [language |-> language, name |-> s]
    BY <1>2, CurrentRing DEF Fifo
  <2>4. Ring[i] # Nothing
    BY <2>3, NothingAssumption DEF TypeOK, Content, Names
  <2>5. i \in Found(s)
    BY <2>2, <2>3, <2>4, <1>1 DEF Found, Occupied
  <2> QED BY <2>5, <1>2
<1>3. ASSUME Found(s) # {}
      PROVE  \E i \in Found(s) : \A j \in Found(s) : i <= j
  <2>1. \A i, j \in Found(s) : Ring[i] = Ring[j]
    BY <1>1, CurrentRing DEF Found, Occupied
  <2>2. \A i, j \in Found(s) : i = j
    <3> SUFFICES ASSUME NEW i \in Found(s), NEW j \in Found(s)
                 PROVE  i = j
      OBVIOUS
    <3>1. i \in Slots /\ j \in Slots /\ Ring[i] # Nothing /\ Ring[j] # Nothing
      BY <1>1 DEF Found, Occupied
    <3>2. PICK k \in 1 .. Len(RingRecent) :
            i = Back(RingCurrent, Len(RingRecent) - k + 1)
      BY <3>1, CurrentRing DEF Fifo
    <3>3. PICK l \in 1 .. Len(RingRecent) :
            j = Back(RingCurrent, Len(RingRecent) - l + 1)
      BY <3>1, CurrentRing DEF Fifo
    <3>4. RingRecent[k] = RingRecent[l]
      <4>1. Ring[i] = [language |-> language, name |-> RingRecent[k]]
        BY <3>2, CurrentRing DEF Fifo
      <4>2. Ring[j] = [language |-> language, name |-> RingRecent[l]]
        BY <3>3, CurrentRing DEF Fifo
      <4>3. Ring[i].name = RingRecent[k] /\ Ring[j].name = RingRecent[l]
        BY <4>1, <4>2
      <4> QED BY <2>1, <4>3
    <3>5. k = l
      BY <3>4, CurrentRing DEF Fifo
    <3> QED BY <3>2, <3>3, <3>5
  <2>3. \A i \in Found(s) : i \in Int
    BY <1>1 DEF Found, Occupied, Slots
  <2> QED BY <1>3, <2>2, <2>3
<1> QED BY <1>1, <1>2, <1>3

----------------------------------------------------------------------------
(* Every step keeps the invariant.                                         *)

\* A file that is read is a table of the language of the context.
LEMMA ReadRight ==
  ASSUME TypeOK, NEW name \in Names, NEW f \in Faults
  PROVE  /\ Read(name, f) \in Maybe
         /\ Read(name, f) = Nothing <=> f # "NONE"
         /\ f = "NONE" => Read(name, f) = [language |-> language,
                                           name |-> name]
<1>1. [language |-> language, name |-> name] \in Content
  BY DEF TypeOK, Content
<1> QED BY <1>1, NothingAssumption DEF Read, Maybe

\* init_keys leaves the keys of the language of the context, or none.
LEMMA KeysStep ==
  ASSUME TypeOK, KeysRight, NEW f \in Faults, InitKeys(f)
  PROVE  /\ keys' \in Maybe /\ keys_language' \in Languages
         /\ KeysRight' /\ KeysFault(f) \in Faults
         /\ keys' = Nothing <=> KeysFault(f) # "NONE"
         /\ keys' # Nothing => keys' = [language |-> language, name |-> Keys]
<1>1. Keys \in Names
  BY DEF Names
<1>2. CASE keys_inited
  BY <1>2 DEF InitKeys, KeysAfter, KeysFault, keys_inited, KeysRight, TypeOK,
              Faults
<1>3. CASE ~keys_inited
  BY <1>1, <1>3, ReadRight
  DEF InitKeys, KeysAfter, KeysFault, KeysRight, TypeOK
<1> QED BY <1>2, <1>3

\* The first error stays, and a fault leaves some error.
LEMMA RecordRight ==
  ASSUME NEW e \in Faults, NEW f \in Faults
  PROVE  /\ Record(e, f) \in Faults
         /\ Record(e, f) = "NONE" <=> e = "NONE" /\ f = "NONE"
BY DEF Record, Faults

\* An answer that is right, or nothing with an error, keeps the properties of
\* answers.
LEMMA AnswerStep ==
  ASSUME TypeOK, MissReported, NEW name \in Names, NEW got \in Maybe,
         Answer(name, got), error' \in Faults,
         error # "NONE" => error' # "NONE",
         got # Nothing => got = [language |-> language, name |-> name],
         got = Nothing => error' # "NONE"
  PROVE  /\ answer' \in [language : Languages, name : Names, got : Maybe]
                           \cup {Nothing}
         /\ missed' \in BOOLEAN
         /\ AnswersCurrent' /\ MissReported'
<1>1. answer' = [language |-> language, name |-> name, got |-> got]
  BY DEF Answer
<1>2. answer'.got = got /\ answer'.language = language /\ answer'.name = name
  BY <1>1
<1>3. AnswersCurrent'
  BY <1>2 DEF AnswersCurrent
<1>4. missed' \in BOOLEAN /\ MissReported'
  BY DEF MissReported, Answer, TypeOK
<1>5. answer' \in [language : Languages, name : Names, got : Maybe]
  BY <1>1 DEF TypeOK
<1> QED BY <1>3, <1>4, <1>5

\* Initially.
LEMMA InitInvariant == Init => IInv
<1> SUFFICES ASSUME Init PROVE IInv
  OBVIOUS
<1>1. TypeOK
  BY CacheAssumption DEF Init, TypeOK, Maybe, Slots, Faults
<1>2. KeysRight /\ TablesRight /\ FreshRing /\ AnswersCurrent /\ MissReported
  BY DEF Init, KeysRight, TablesRight, FreshRing, AnswersCurrent, MissReported
<1>3. RingIsFifo
  BY CacheAssumption DEF Init, RingIsFifo, Fifo
<1>4. NeverShort
  <2>1. Occupied(cache) = {}
    BY DEF Init, Occupied
  <2>2. Cardinality(Occupied(cache)) = 0
    BY <2>1, FS_EmptySet
  <2> QED BY <2>2 DEF Init, NeverShort
<1> QED BY <1>1, <1>2, <1>3, <1>4 DEF IInv

\* A language change.
LEMMA SetLanguageStep ==
  ASSUME IInv, NEW l \in Languages, SetLanguage(l)
  PROVE  IInv'
<1> USE DEF SetLanguage, keyVars, tableVars, ringVars, IInv
<1>1. TypeOK'
  BY DEF TypeOK
<1>2. KeysRight' /\ TablesRight' /\ FreshRing' /\ AnswersCurrent'
      /\ MissReported'
  BY DEF KeysRight, TablesRight, FreshRing, AnswersCurrent, MissReported
<1>3. RingIsFifo' /\ NeverShort'
  BY DEF RingIsFifo, NeverShort
<1> QED BY <1>1, <1>2, <1>3

\* The beginning of a call.
LEMMA BeginCallStep ==
  ASSUME IInv, BeginCall
  PROVE  IInv'
<1> USE DEF BeginCall, keyVars, tableVars, ringVars, IInv
<1>1. TypeOK'
  BY DEF TypeOK, Faults
<1>2. KeysRight' /\ TablesRight' /\ FreshRing' /\ AnswersCurrent'
      /\ MissReported'
  BY DEF KeysRight, TablesRight, FreshRing, AnswersCurrent, MissReported
<1>3. RingIsFifo' /\ NeverShort'
  BY DEF RingIsFifo, NeverShort
<1> QED BY <1>1, <1>2, <1>3

\* A request for the keys.
LEMMA UseKeysStep ==
  ASSUME IInv, NEW f \in Faults, UseKeys(f)
  PROVE  IInv'
<1> USE DEF tableVars, ringVars, IInv
<1>1. /\ keys' \in Maybe /\ keys_language' \in Languages /\ KeysRight'
      /\ KeysFault(f) \in Faults
      /\ keys' = Nothing <=> KeysFault(f) # "NONE"
      /\ keys' # Nothing => keys' = [language |-> language, name |-> Keys]
  BY KeysStep DEF UseKeys
<1>2. error' \in Faults
      /\ (error' = "NONE" <=> error = "NONE" /\ KeysFault(f) = "NONE")
  BY <1>1, RecordRight DEF UseKeys, TypeOK
<1>3. /\ answer' \in [language : Languages, name : Names, got : Maybe]
                        \cup {Nothing}
      /\ missed' \in BOOLEAN /\ AnswersCurrent' /\ MissReported'
  <2>1. Keys \in Names
    BY DEF Names
  <2> QED BY <1>1, <1>2, <2>1, AnswerStep DEF UseKeys
<1>4. TypeOK'
  BY <1>1, <1>2, <1>3 DEF TypeOK, UseKeys
<1>5. TablesRight' /\ FreshRing' /\ RingIsFifo' /\ NeverShort'
  BY DEF UseKeys, TablesRight, FreshRing, RingIsFifo, NeverShort
<1> QED BY <1>1, <1>3, <1>4, <1>5

\* A request that finds its table loaded.
LEMMA UseLoadedStep ==
  ASSUME IInv, NEW t \in Tables, UseLoaded(t)
  PROVE  IInv'
<1> USE DEF keyVars, tableVars, ringVars, IInv
<1>1. table[t] \in Maybe /\ t \in Names /\ error' \in Faults /\ error' = error
  BY DEF UseLoaded, TypeOK, Names
<1>2. table[t] # Nothing /\ table[t] = [language |-> language, name |-> t]
  BY DEF UseLoaded, Loaded, TablesRight
<1>3. /\ answer' \in [language : Languages, name : Names, got : Maybe]
                        \cup {Nothing}
      /\ missed' \in BOOLEAN /\ AnswersCurrent' /\ MissReported'
  BY <1>1, <1>2, AnswerStep DEF UseLoaded
<1>4. TypeOK'
  BY <1>3 DEF TypeOK, UseLoaded
<1>5. KeysRight' /\ TablesRight' /\ FreshRing' /\ RingIsFifo' /\ NeverShort'
  BY DEF UseLoaded, KeysRight, TablesRight, FreshRing, RingIsFifo, NeverShort
<1> QED BY <1>3, <1>4, <1>5

\* A request that has to load its table.
LEMMA LoadTableStep ==
  ASSUME IInv, NEW t \in Tables, NEW k \in Faults, NEW f \in Faults,
         LoadTable(t, k, f)
  PROVE  IInv'
<1> USE DEF keyVars, tableVars, ringVars, IInv
<1>1. keys' \in Maybe /\ keys_language' \in Languages /\ KeysRight'
      /\ error' \in Faults /\ (error # "NONE" => error' # "NONE")
  <2>1. CASE f # "NONE" /\ error' = Record(error, f) /\ UNCHANGED keyVars
    BY <2>1, RecordRight DEF TypeOK, KeysRight
  <2>2. CASE /\ InitKeys(k)
             /\ error' = Record(Record(error, KeysFault(k)), f)
    <3>1. keys' \in Maybe /\ keys_language' \in Languages /\ KeysRight'
          /\ KeysFault(k) \in Faults
      BY <2>2, KeysStep
    <3>2. Record(error, KeysFault(k)) \in Faults
          /\ (error # "NONE" => Record(error, KeysFault(k)) # "NONE")
      BY <3>1, RecordRight DEF TypeOK
    <3>3. error' \in Faults /\ (error # "NONE" => error' # "NONE")
      BY <2>2, <3>2, RecordRight
    <3> QED BY <3>1, <3>3
  <2> QED BY <2>1, <2>2 DEF LoadTable
<1>2. t \in Names
  BY DEF Names
<1>3. /\ Read(t, error') \in Maybe
      /\ Read(t, error') = Nothing <=> error' # "NONE"
      /\ error' = "NONE" => Read(t, error') = [language |-> language,
                                               name |-> t]
  BY <1>1, <1>2, ReadRight
<1>4. /\ table' = [table EXCEPT ![t] = Read(t, error')]
      /\ table'[t] = Read(t, error')
  BY DEF LoadTable, TypeOK
<1>5. /\ answer' \in [language : Languages, name : Names, got : Maybe]
                        \cup {Nothing}
      /\ missed' \in BOOLEAN /\ AnswersCurrent' /\ MissReported'
  <2>1. Answer(t, Read(t, error'))
    BY <1>4 DEF LoadTable
  <2> QED BY <1>1, <1>2, <1>3, <2>1, AnswerStep
<1>6. TypeOK'
  BY <1>1, <1>3, <1>4, <1>5 DEF TypeOK, LoadTable
<1>7. TablesRight'
  <2> SUFFICES ASSUME NEW u \in Tables, table'[u] # Nothing
               PROVE  table'[u] = [language |-> table_language'[u],
                                   name |-> u]
    BY DEF TablesRight
  <2>1. CASE u = t
    <3>1. error' = "NONE"
      BY <2>1, <1>3, <1>4
    <3>2. table_language'[t] = language
      BY <3>1 DEF LoadTable, TypeOK
    <3> QED BY <2>1, <3>1, <3>2, <1>3, <1>4
  <2>2. CASE u # t
    <3>1. table'[u] = table[u] /\ table_language'[u] = table_language[u]
      BY <2>2, <1>4 DEF LoadTable, TypeOK
    <3> QED BY <3>1 DEF TablesRight
  <2> QED BY <2>1, <2>2
<1>8. FreshRing' /\ RingIsFifo' /\ NeverShort'
  BY DEF LoadTable, FreshRing, RingIsFifo, NeverShort
<1> QED BY <1>1, <1>5, <1>6, <1>7, <1>8

\* What both requests for endings do to the count of the ring.
LEMMA CountStep ==
  ASSUME IInv, NEW s \in StemTypes, CacheConsistent
  PROVE  /\ size' \in 0 .. CacheSize
         /\ size' <= Cardinality(Occupied(Ring))
         /\ cache_language' = language /\ initialized' = TRUE
<1>1. Scanned = Occupied(Ring)
  BY ScanFinds DEF IInv
<1> QED BY <1>1, CurrentRing DEF CacheConsistent, IInv

\* A request for endings that are in the ring.
LEMMA UseEndingsStep ==
  ASSUME IInv, NEW s \in StemTypes, NEW k \in Faults, UseEndings(s, k)
  PROVE  IInv'
<1> USE DEF tableVars, IInv
<1>1. /\ keys' \in Maybe /\ keys_language' \in Languages /\ KeysRight'
      /\ KeysFault(k) \in Faults
  BY KeysStep DEF UseEndings
<1>2. error' \in Faults /\ (error # "NONE" => error' # "NONE")
  BY <1>1, RecordRight DEF UseEndings, TypeOK
<1> DEFINE i == CHOOSE i \in Found(s) : \A j \in Found(s) : i <= j
<1>3. i \in Found(s)
  BY ScanFinds DEF UseEndings
<1>4. Answer(s, Ring[i])
  BY DEF UseEndings
<1> HIDE DEF i
<1>5. Ring[i] \in Maybe /\ Ring[i] # Nothing /\ s \in Names
      /\ Ring[i] = [language |-> language, name |-> s]
  <2>1. i \in Slots /\ Ring[i] # Nothing /\ Ring[i].name = s
    BY <1>3, ScanFinds DEF Found, Occupied
  <2> QED BY <2>1, CurrentRing DEF Names
<1>6. /\ answer' \in [language : Languages, name : Names, got : Maybe]
                        \cup {Nothing}
      /\ missed' \in BOOLEAN /\ AnswersCurrent' /\ MissReported'
  BY <1>2, <1>4, <1>5, AnswerStep
<1>7. /\ size' \in 0 .. CacheSize /\ size' <= Cardinality(Occupied(Ring))
      /\ cache_language' = language /\ initialized' = TRUE
  BY CountStep DEF UseEndings
<1>8. cache' = Ring /\ current' = RingCurrent /\ recent' = RingRecent
  BY DEF UseEndings
<1>9. TypeOK'
  BY <1>1, <1>2, <1>6, <1>7, <1>8, CurrentRing DEF TypeOK, UseEndings
<1>10. RingIsFifo' /\ NeverShort'
  BY <1>7, <1>8, CurrentRing DEF RingIsFifo, NeverShort
<1>11. FreshRing' /\ TablesRight'
  BY <1>7 DEF FreshRing, TablesRight, UseEndings
<1> QED BY <1>1, <1>6, <1>9, <1>10, <1>11

\* A request for endings that have to be read.
LEMMA LoadEndingsStep ==
  ASSUME IInv, NEW s \in StemTypes, NEW k \in Faults, NEW f \in Faults,
         LoadEndings(s, k, f)
  PROVE  IInv'
<1> USE DEF tableVars, IInv
<1> DEFINE reading == IF keys' = Nothing THEN "INTERNAL" ELSE f
<1>1. /\ keys' \in Maybe /\ keys_language' \in Languages /\ KeysRight'
      /\ KeysFault(k) \in Faults
      /\ keys' = Nothing <=> KeysFault(k) # "NONE"
  BY KeysStep DEF LoadEndings
<1>2. reading \in Faults
  BY DEF Faults
<1>3. /\ error' = Record(Record(error, KeysFault(k)), reading)
      /\ Answer(s, Read(s, reading))
      /\ reading = "NONE" => Insert(s)
      /\ reading # "NONE" => /\ cache' = Ring /\ current' = RingCurrent
                             /\ recent' = RingRecent
  BY DEF LoadEndings
<1> HIDE DEF reading
<1>4. /\ error' \in Faults /\ (error # "NONE" => error' # "NONE")
      /\ reading # "NONE" => error' # "NONE"
  <2>1. Record(error, KeysFault(k)) \in Faults
        /\ (error # "NONE" => Record(error, KeysFault(k)) # "NONE")
    BY <1>1, RecordRight DEF TypeOK
  <2> QED BY <1>2, <1>3, <2>1, RecordRight
<1>5. /\ s \in Names /\ Read(s, reading) \in Maybe
      /\ Read(s, reading) = Nothing <=> reading # "NONE"
      /\ reading = "NONE" => Read(s, reading) = [language |-> language,
                                                 name |-> s]
  <2>1. s \in Names
    BY DEF Names
  <2> QED BY <1>2, <2>1, ReadRight
<1>6. /\ answer' \in [language : Languages, name : Names, got : Maybe]
                        \cup {Nothing}
      /\ missed' \in BOOLEAN /\ AnswersCurrent' /\ MissReported'
  BY <1>3, <1>4, <1>5, AnswerStep
<1>7. /\ size' \in 0 .. CacheSize /\ size' <= Cardinality(Occupied(Ring))
      /\ cache_language' = language /\ initialized' = TRUE
  BY CountStep DEF LoadEndings
<1>8. /\ cache' \in [Slots -> Maybe] /\ current' \in Slots
      /\ recent' \in Seq(StemTypes) /\ RingIsFifo' /\ NeverShort'
  <2>1. CASE reading # "NONE"
    BY <2>1, <1>3, <1>7, CurrentRing DEF RingIsFifo, NeverShort
  <2>2. CASE reading = "NONE"
    <3> DEFINE c == [language |-> language, name |-> s]
    <3>1. /\ cache' = [Ring EXCEPT ![RingCurrent] = c]
          /\ current' = Following(RingCurrent)
          /\ c \in Maybe /\ c # Nothing
      BY <2>2, <1>3, <1>5, ReadRight DEF Insert, Faults, Read
    <3>2. \A j \in 1 .. Len(RingRecent) : RingRecent[j] # s
      BY ScanFinds DEF LoadEndings
    <3>3. language \in Languages
      BY DEF TypeOK
    <3>4. Fifo([Ring EXCEPT ![RingCurrent] = c], Following(RingCurrent),
               language, recent')
      <4> DEFINE all == Append(RingRecent, s)
                 latest == IF Len(all) > CacheSize THEN Tail(all) ELSE all
      <4>1. recent' = latest
        BY <2>2, <1>3 DEF Insert
      <4>2. /\ Ring \in [Slots -> Maybe] /\ RingCurrent \in Slots
            /\ RingRecent \in Seq(StemTypes)
            /\ Fifo(Ring, RingCurrent, language, RingRecent)
        BY CurrentRing
      <4> HIDE DEF all, latest
      <4>3. Fifo([Ring EXCEPT ![RingCurrent] = c], Following(RingCurrent),
                 language, latest)
        BY <3>2, <3>3, <4>2, InsertKeepsFifo DEF all, latest
      <4> QED BY <4>1, <4>3
    <3>5. RingIsFifo'
      BY <3>1, <3>4, <1>7 DEF RingIsFifo
    <3>6. cache' \in [Slots -> Maybe] /\ current' \in Slots
      BY <3>1, CurrentRing, BackSlots
    <3>7. recent' \in Seq(StemTypes)
      BY <2>2, <1>3, CurrentRing DEF Insert
    <3>8. NeverShort'
      <4>1. Occupied(Ring) \in SUBSET Occupied(cache')
        BY <3>1, CurrentRing DEF Occupied
      <4>2. Occupied(cache') \in SUBSET Slots /\ IsFiniteSet(Slots)
        BY FS_Interval, CacheAssumption DEF Occupied, Slots
      <4>3. IsFiniteSet(Occupied(cache'))
        BY <4>2, FS_Subset
      <4>4. Cardinality(Occupied(Ring)) <= Cardinality(Occupied(cache'))
        BY <4>1, <4>3, FS_Subset
      <4>5. Cardinality(Occupied(cache')) \in Nat
        BY <4>3, FS_CardinalityType
      <4> QED BY <1>7, <4>4, <4>5, CurrentRing DEF NeverShort
    <3> QED BY <3>5, <3>6, <3>7, <3>8
  <2> QED BY <2>1, <2>2
<1>9. TypeOK'
  BY <1>1, <1>4, <1>6, <1>7, <1>8 DEF TypeOK, LoadEndings
<1>10. FreshRing' /\ TablesRight'
  BY <1>7 DEF FreshRing, TablesRight, LoadEndings
<1> QED BY <1>1, <1>6, <1>8, <1>9, <1>10

\* Every step.
LEMMA StepInvariant == IInv /\ [Next]_vars => IInv'
<1> SUFFICES ASSUME IInv, [Next]_vars PROVE IInv'
  OBVIOUS
<1>1. ASSUME NEW l \in Languages, SetLanguage(l) PROVE IInv'
  BY <1>1, SetLanguageStep
<1>2. CASE BeginCall
  BY <1>2, BeginCallStep
<1>3. ASSUME NEW f \in Faults, UseKeys(f) PROVE IInv'
  BY <1>3, UseKeysStep
<1>4. ASSUME NEW t \in Tables, UseLoaded(t) PROVE IInv'
  BY <1>4, UseLoadedStep
<1>5. ASSUME NEW t \in Tables, NEW k \in Faults, NEW f \in Faults,
             LoadTable(t, k, f)
      PROVE  IInv'
  BY <1>5, LoadTableStep
<1>6. ASSUME NEW s \in StemTypes, NEW k \in Faults, UseEndings(s, k)
      PROVE  IInv'
  BY <1>6, UseEndingsStep
<1>7. ASSUME NEW s \in StemTypes, NEW k \in Faults, NEW f \in Faults,
             LoadEndings(s, k, f)
      PROVE  IInv'
  BY <1>7, LoadEndingsStep
<1>8. CASE UNCHANGED vars
  <2> USE <1>8 DEF vars, keyVars, tableVars, ringVars, IInv
  <2>1. TypeOK'
    BY DEF TypeOK
  <2>2. KeysRight' /\ TablesRight' /\ FreshRing' /\ AnswersCurrent'
        /\ MissReported' /\ RingIsFifo' /\ NeverShort'
    BY DEF KeysRight, TablesRight, FreshRing, AnswersCurrent, MissReported,
           RingIsFifo, NeverShort
  <2> QED BY <2>1, <2>2
<1> QED BY <1>1, <1>2, <1>3, <1>4, <1>5, <1>6, <1>7, <1>8 DEF Next

----------------------------------------------------------------------------
(* The theorems.                                                           *)

\* The inductive invariant holds of every behaviour.
THEOREM Invariance == Spec => []IInv
<1>1. Init => IInv
  BY InitInvariant
<1>2. IInv /\ [Next]_vars => IInv'
  BY StepInvariant
<1> QED BY <1>1, <1>2, PTL DEF Spec

\* Every variable keeps its type; in particular the write position stays in
\* the ring (InsertEndCache).
THEOREM TypeCorrect == Spec => []TypeOK
BY Invariance, PTL DEF IInv

\* Every request gets the table it asked for, in the language of the context
\* at that moment, whatever was cached (current_ending_cache,
\* ensure_preverb_table, vowel_contraction_table, keys_inited).
THEOREM RightLanguage == Spec => []AnswersCurrent
BY Invariance, PTL DEF IInv

\* A request that got nothing shows in the error of the call
\* (morpheus_runtime_error_record).
THEOREM MissesReported == Spec => []MissReported
BY Invariance, PTL DEF IInv

\* The ring holds the last tables read in its language and nothing else
\* (InsertEndCache, CheckEndCache).
THEOREM RingOrder == Spec => []RingIsFifo
BY Invariance, PTL DEF IInv

\* The count of the ring never exceeds its tables (cacheconsistent).
THEOREM CountRight == Spec => []NeverShort
BY Invariance, PTL DEF IInv

----------------------------------------------------------------------------
(* The comparison of keys.                                                 *)

\* A set of numbers has a least one.
LEMMA Least ==
  ASSUME NEW T, T \subseteq Nat, T # {}
  PROVE  \E x \in T : \A y \in T : x <= y
<1> DEFINE R == OpToRel(<, Nat)
<1>1. IsWellFoundedOn(R, Nat)
  BY NatLessThanWellFounded
<1>2. \A x, y \in Nat : x < y => <<x, y>> \in R
  BY DEF OpToRel
<1> HIDE DEF R
<1>3. PICK x \in T : \A y \in T : ~ (<<y, x>> \in R)
  BY <1>1, WFMin
<1>4. ASSUME NEW y \in T PROVE x <= y
  <2>1. x \in Nat /\ y \in Nat /\ ~ (y < x)
    BY <1>2, <1>3
  <2> QED BY <2>1
<1> QED BY <1>4

\* Strings that may have blanks, and the places in them.
Str == Seq(0 .. Len(Class))
Place == Nat \ {0}

\* The comparison does not tell one string from another,
Same(s, t) == \A i \in Place : Rank(s, i) = Rank(t, i)
\* or puts it before the other.
Below(s, t) ==
  \E i \in Place : /\ Rank(s, i) < Rank(t, i)
                   /\ \A j \in 1 .. i - 1 : Rank(s, j) = Rank(t, j)

\* Only the characters of a key are above the end of a string.
LEMMA Ranks ==
  ASSUME NEW s \in Str, NEW i \in Place
  PROVE  /\ Rank(s, i) \in Nat
         /\ i > Len(s) => Rank(s, i) = 0
         /\ i <= Len(s) /\ s[i] # BLANK => Rank(s, i) # 0
<1>1. ASSUME i <= Len(s), s[i] # BLANK PROVE Rank(s, i) \in Nat \ {0}
  <2>1. s[i] \in 1 .. Len(Class)
    BY <1>1 DEF Str, BLANK, Place
  <2> QED BY <1>1, <2>1, StemIndexAssumption DEF Rank, Place
<1> QED BY <1>1 DEF Rank, BLANK, Place, Str

\* A key has a rank wherever it has a character.
LEMMA KeyRanks ==
  ASSUME NEW s \in Keyed
  PROVE  /\ s \in Str
         /\ \A i \in Place : Rank(s, i) # 0 <=> i <= Len(s)
<1>1. s \in Str
  BY StemIndexAssumption DEF Keyed, Str
<1>2. \A i \in Place : i <= Len(s) => s[i] # BLANK
  BY DEF Keyed, Place, BLANK
<1> QED BY <1>1, <1>2, Ranks DEF Place, Str

\* morphstrcmp tells which of the two it is.
LEMMA Compared ==
  ASSUME NEW s \in Str, NEW t \in Str
  PROVE  /\ morphstrcmp(s, t) \in Int
         /\ (morphstrcmp(s, t) = 0) <=> Same(s, t)
         /\ (morphstrcmp(s, t) < 0) <=> Below(s, t)
         /\ (morphstrcmp(s, t) > 0) <=> Below(t, s)
<1> DEFINE places == {i \in 1 .. Len(s) + Len(t) : Rank(s, i) # Rank(t, i)}
<1>1. \A i \in Place : Rank(s, i) \in Nat /\ Rank(t, i) \in Nat
  BY Ranks
<1>2. \A i \in Place : Rank(s, i) # Rank(t, i) => i \in places
  <2> SUFFICES ASSUME NEW i \in Place, Rank(s, i) # Rank(t, i)
               PROVE  i \in 1 .. Len(s) + Len(t)
    OBVIOUS
  <2>1. i <= Len(s) \/ i <= Len(t)
    BY Ranks DEF Place, Str
  <2> QED BY <2>1 DEF Place, Str
<1>3. places \subseteq Place
  BY DEF Str, Place
<1>4. CASE places = {}
  <2>1. morphstrcmp(s, t) = 0
    BY <1>4 DEF morphstrcmp
  <2>2. Same(s, t) /\ ~ Below(s, t) /\ ~ Below(t, s)
    BY <1>1, <1>2, <1>4 DEF Same, Below
  <2> QED BY <2>1, <2>2
<1>5. CASE places # {}
  <2> DEFINE first == CHOOSE i \in places : \A j \in places : i <= j
  <2>1. PICK k \in places : \A j \in places : k <= j
    BY <1>3, <1>5, Least DEF Place
  <2>2. first \in places /\ \A j \in places : first <= j
    BY <2>1
  <2>3. morphstrcmp(s, t) = Rank(s, first) - Rank(t, first)
    BY <1>5 DEF morphstrcmp
  <2> HIDE DEF first
  <2>4. first \in Place /\ Rank(s, first) # Rank(t, first)
    BY <1>3, <2>2
  <2>5. \A j \in Place : j < first => Rank(s, j) = Rank(t, j)
    BY <1>2, <2>2, <2>4 DEF Place
  <2> HIDE DEF places
  <2>6. ~ Same(s, t)
    BY <2>4 DEF Same
  <2>7. \A j \in 1 .. first - 1 : j \in Place /\ j < first
    BY <2>4 DEF Place
  <2>8. Rank(s, first) < Rank(t, first) => Below(s, t)
    BY <2>4, <2>5, <2>7 DEF Below
  <2>9. Rank(t, first) < Rank(s, first) => Below(t, s)
    BY <2>4, <2>5, <2>7 DEF Below
  <2>10. ASSUME Below(s, t) PROVE Rank(s, first) < Rank(t, first)
    <3>1. PICK i \in Place : /\ Rank(s, i) < Rank(t, i)
                             /\ \A j \in 1 .. i - 1 : Rank(s, j) = Rank(t, j)
      BY <2>10 DEF Below
    <3>2. i = first
      BY <1>1, <2>4, <2>5, <3>1 DEF Place
    <3> QED BY <3>1, <3>2
  <2>11. ASSUME Below(t, s) PROVE Rank(t, first) < Rank(s, first)
    <3>1. PICK i \in Place : /\ Rank(t, i) < Rank(s, i)
                             /\ \A j \in 1 .. i - 1 : Rank(t, j) = Rank(s, j)
      BY <2>11 DEF Below
    <3>2. i = first
      BY <1>1, <2>4, <2>5, <3>1 DEF Place
    <3> QED BY <3>1, <3>2
  <2>12. Rank(s, first) \in Nat /\ Rank(t, first) \in Nat
    BY <1>1, <2>4
  <2> QED BY <2>3, <2>4, <2>6, <2>8, <2>9, <2>10, <2>11, <2>12
<1> QED BY <1>4, <1>5

\* This is an order of the strings.
LEMMA Ordered ==
  ASSUME NEW s \in Str, NEW t \in Str
  PROVE  /\ Same(s, s)
         /\ Same(s, t) => Same(t, s)
         /\ Same(s, t) \/ Below(s, t) \/ Below(t, s)
         /\ ~ (Same(s, t) /\ Below(s, t))
         /\ ~ (Below(s, t) /\ Below(t, s))
<1>1. Same(s, t) => Same(t, s)
  BY DEF Same
<1> QED BY <1>1, Compared DEF Same

\* The order is transitive, also through strings that are the same.
LEMMA OrderedBy ==
  ASSUME NEW s \in Str, NEW t \in Str, NEW u \in Str
  PROVE  /\ Same(s, t) /\ Same(t, u) => Same(s, u)
         /\ Same(s, t) /\ Below(t, u) => Below(s, u)
         /\ Below(s, t) /\ Same(t, u) => Below(s, u)
         /\ Below(s, t) /\ Below(t, u) => Below(s, u)
<1>1. Same(s, t) /\ Same(t, u) => Same(s, u)
  BY DEF Same
<1>2. ASSUME Same(s, t), Below(t, u) PROVE Below(s, u)
  <2>1. PICK i \in Place : /\ Rank(t, i) < Rank(u, i)
                           /\ \A j \in 1 .. i - 1 : Rank(t, j) = Rank(u, j)
    BY <1>2 DEF Below
  <2>2. \A j \in 1 .. i - 1 : j \in Place
    BY DEF Place
  <2> QED BY <1>2, <2>1, <2>2 DEF Same, Below
<1>3. ASSUME Below(s, t), Same(t, u) PROVE Below(s, u)
  <2>1. PICK i \in Place : /\ Rank(s, i) < Rank(t, i)
                           /\ \A j \in 1 .. i - 1 : Rank(s, j) = Rank(t, j)
    BY <1>3 DEF Below
  <2>2. \A j \in 1 .. i - 1 : j \in Place
    BY DEF Place
  <2> QED BY <1>3, <2>1, <2>2 DEF Same, Below
<1>4. ASSUME Below(s, t), Below(t, u) PROVE Below(s, u)
  <2>1. PICK i \in Place : /\ Rank(s, i) < Rank(t, i)
                           /\ \A j \in 1 .. i - 1 : Rank(s, j) = Rank(t, j)
    BY <1>4 DEF Below
  <2>2. PICK k \in Place : /\ Rank(t, k) < Rank(u, k)
                           /\ \A j \in 1 .. k - 1 : Rank(t, j) = Rank(u, j)
    BY <1>4 DEF Below
  <2>3. \A j \in Place : Rank(s, j) \in Nat /\ Rank(t, j) \in Nat /\ Rank(u, j) \in Nat
    BY Ranks
  <2>4. i \in Nat /\ k \in Nat /\ i > 0 /\ k > 0
    BY DEF Place
  <2>5. CASE i < k
    <3>1. Rank(t, i) = Rank(u, i) /\ \A j \in 1 .. i - 1 : j \in 1 .. k - 1
      BY <2>2, <2>4, <2>5
    <3> QED BY <2>1, <2>2, <3>1 DEF Below
  <2>6. CASE i = k
    <3>1. Rank(s, i) < Rank(u, i)
      BY <2>1, <2>2, <2>3, <2>6
    <3> QED BY <2>1, <2>2, <2>6, <3>1 DEF Below
  <2>7. CASE k < i
    <3>1. Rank(s, k) = Rank(t, k) /\ \A j \in 1 .. k - 1 : j \in 1 .. i - 1
      BY <2>1, <2>4, <2>7
    <3> QED BY <2>1, <2>2, <3>1 DEF Below
  <2> QED BY <2>4, <2>5, <2>6, <2>7
<1> QED BY <1>1, <1>2, <1>3, <1>4

\* A prefix has the ranks of its places and no others.
LEMMA PrefixRanks ==
  ASSUME NEW s \in Str, NEW n \in Nat
  PROVE  /\ Prefix(s, n) \in Str
         /\ \A i \in Place :
              Rank(Prefix(s, n), i) = IF i <= n THEN Rank(s, i) ELSE 0
         /\ s \in Keyed => Prefix(s, n) \in Keyed
         /\ s # <<>> /\ n # 0 => Prefix(s, n) # <<>>
<1> DEFINE m == IF n < Len(s) THEN n ELSE Len(s)
<1>1. /\ Len(s) \in Nat /\ m \in 0 .. Len(s)
      /\ s # <<>> /\ n # 0 => m # 0
      /\ \A i \in Place : i <= m <=> i <= n /\ i <= Len(s)
  BY DEF Str, Place
<1>2. Prefix(s, n) = SubSeq(s, 1, m)
  BY DEF Prefix
<1> HIDE DEF m
<1>3. /\ SubSeq(s, 1, m) \in Str
      /\ Len(SubSeq(s, 1, m)) = m
      /\ \A i \in 1 .. m : SubSeq(s, 1, m)[i] = s[i]
  BY <1>1 DEF Str
<1>4. ASSUME NEW i \in Place
      PROVE  Rank(Prefix(s, n), i) = IF i <= n THEN Rank(s, i) ELSE 0
  BY <1>1, <1>2, <1>3 DEF Rank, BLANK, Place
<1>5. ASSUME s \in Keyed PROVE SubSeq(s, 1, m) \in Keyed
  BY <1>1, <1>5 DEF Keyed
<1>6. m # 0 => SubSeq(s, 1, m) # <<>>
  BY <1>1, <1>3
<1> QED BY <1>1, <1>2, <1>3, <1>4, <1>5, <1>6

\* Truncated, keys may become the same but do not change places.
LEMMA PrefixOrder ==
  ASSUME NEW s \in Str, NEW t \in Str, NEW n \in Nat
  PROVE  /\ Same(s, t) => Same(Prefix(s, n), Prefix(t, n))
         /\ Below(Prefix(s, n), Prefix(t, n)) => Below(s, t)
         /\ Below(s, t) => ~ Below(Prefix(t, n), Prefix(s, n))
<1>1. Same(s, t) => Same(Prefix(s, n), Prefix(t, n))
  BY PrefixRanks DEF Same
<1>2. ASSUME NEW a \in Str, NEW b \in Str, Below(Prefix(a, n), Prefix(b, n))
      PROVE  Below(a, b)
  <2>1. PICK i \in Place :
          /\ Rank(Prefix(a, n), i) < Rank(Prefix(b, n), i)
          /\ \A j \in 1 .. i - 1 : Rank(Prefix(a, n), j) = Rank(Prefix(b, n), j)
    BY <1>2 DEF Below
  <2>2. i <= n
    BY <2>1, PrefixRanks
  <2>3. \A j \in 1 .. i - 1 : j \in Place /\ j <= n
    BY <2>2 DEF Place
  <2>4. Rank(a, i) < Rank(b, i)
    BY <2>1, <2>2, PrefixRanks
  <2>5. \A j \in 1 .. i - 1 : Rank(a, j) = Rank(b, j)
    BY <2>1, <2>3, PrefixRanks
  <2> QED BY <2>4, <2>5 DEF Below
<1>3. Below(s, t) => ~ Below(Prefix(t, n), Prefix(s, n))
  BY <1>2, Ordered
<1> QED BY <1>1, <1>2, <1>3

\* ChckFullIndex: a line that starts with the key is the key's if it is not
\* longer, and only a line above the key makes the scan give up.
LEMMA AgainstLine ==
  ASSUME NEW s \in Keyed, NEW t \in Keyed
  PROVE  /\ morphstrncmp(s, t, Len(s)) < 0 => Below(s, t)
         /\ morphstrncmp(s, t, Len(s)) = 0 /\ Len(t) = Len(s) <=> Same(s, t)
<1> DEFINE n == Len(s)
<1>1. s \in Str /\ t \in Str /\ n \in Nat /\ Len(t) \in Nat
  BY KeyRanks DEF Keyed
<1>2. Prefix(s, n) \in Str /\ Prefix(t, n) \in Str
  BY <1>1, PrefixRanks
<1>3. /\ (morphstrncmp(s, t, n) < 0) <=> Below(Prefix(s, n), Prefix(t, n))
      /\ (morphstrncmp(s, t, n) = 0) <=> Same(Prefix(s, n), Prefix(t, n))
  BY <1>2, Compared DEF morphstrncmp
<1>4. /\ \A i \in Place : Rank(s, i) # 0 <=> i <= n
      /\ \A i \in Place : Rank(t, i) # 0 <=> i <= Len(t)
  BY KeyRanks
<1>5. /\ \A i \in Place : Rank(Prefix(s, n), i) = IF i <= n THEN Rank(s, i) ELSE 0
      /\ \A i \in Place : Rank(Prefix(t, n), i) = IF i <= n THEN Rank(t, i) ELSE 0
  BY <1>1, PrefixRanks
<1>6. ASSUME Same(s, t) PROVE Len(t) = n
  <2>1. \A i \in Place : i <= n <=> i <= Len(t)
    BY <1>4, <1>6 DEF Same
  <2>2. Len(t) # 0 => (Len(t) <= n)
    BY <1>1, <2>1 DEF Place
  <2>3. n # 0 => (n <= Len(t))
    BY <1>1, <2>1 DEF Place
  <2> QED BY <1>1, <2>2, <2>3
<1>7. ASSUME Same(Prefix(s, n), Prefix(t, n)), Len(t) = n PROVE Same(s, t)
  BY <1>4, <1>5, <1>7 DEF Same
<1>8. Same(s, t) => Same(Prefix(s, n), Prefix(t, n))
  BY <1>1, PrefixOrder
<1>9. Below(Prefix(s, n), Prefix(t, n)) => Below(s, t)
  BY <1>1, PrefixOrder
<1> HIDE DEF n
<1> QED BY <1>3, <1>6, <1>7, <1>8, <1>9 DEF n

\* A blank behind a key changes nothing.
LEMMA BlankRanks ==
  ASSUME NEW s \in Keyed
  PROVE  /\ Append(s, BLANK) \in Str
         /\ Len(Append(s, BLANK)) = Len(s) + 1
         /\ \A i \in Place : Rank(Append(s, BLANK), i) = Rank(s, i)
<1>1. /\ s \in Str /\ Len(s) \in Nat /\ BLANK \in 0 .. Len(Class)
  BY KeyRanks, StemIndexAssumption DEF BLANK, Keyed
<1>2. /\ Append(s, BLANK) \in Str
      /\ Len(Append(s, BLANK)) = Len(s) + 1
      /\ \A i \in 1 .. Len(s) : Append(s, BLANK)[i] = s[i]
      /\ Append(s, BLANK)[Len(s) + 1] = BLANK
  BY <1>1 DEF Str
<1>3. ASSUME NEW i \in Place PROVE Rank(Append(s, BLANK), i) = Rank(s, i)
  <2>1. CASE i <= Len(s)
    BY <1>1, <1>2, <2>1 DEF Rank, Place
  <2>2. CASE i = Len(s) + 1
    BY <1>1, <1>2, <2>2 DEF Rank, Place
  <2>3. CASE i > Len(s) + 1
    BY <1>1, <1>2, <2>3 DEF Rank, Place
  <2> QED BY <1>1, <2>1, <2>2, <2>3 DEF Place
<1> QED BY <1>2, <1>3

\* checkendind: with the blanks the beginning of a line is as good as all of
\* it.
LEMMA WithBlank ==
  ASSUME NEW s \in Keyed, NEW t \in Keyed, NEW c,
         c = morphstrncmp(Append(s, BLANK), Append(t, BLANK), Len(Append(s, BLANK)))
  PROVE  /\ c \in Int
         /\ (c = 0) <=> Same(s, t)
         /\ (c < 0) <=> Below(s, t)
         /\ (c > 0) <=> Below(t, s)
<1> DEFINE n == Len(s) + 1
           p == Prefix(Append(s, BLANK), n)
           q == Prefix(Append(t, BLANK), n)
<1>1. s \in Str /\ t \in Str /\ n \in Nat /\ n \in Place
  BY KeyRanks DEF Keyed, Place
<1>2. Append(s, BLANK) \in Str /\ Append(t, BLANK) \in Str
  BY BlankRanks
<1>3. c = morphstrcmp(p, q)
  BY BlankRanks DEF morphstrncmp
<1>4. p \in Str /\ q \in Str
  BY <1>1, <1>2, PrefixRanks
<1>5. \A i \in Place : Rank(s, i) # 0 => i < n
  BY KeyRanks DEF Place, Keyed
<1>6. \A i \in Place : Rank(p, i) = IF i <= n THEN Rank(s, i) ELSE 0
  BY <1>1, <1>2, PrefixRanks, BlankRanks
<1>7. \A i \in Place : Rank(q, i) = IF i <= n THEN Rank(t, i) ELSE 0
  BY <1>1, <1>2, PrefixRanks, BlankRanks
<1>8. \A i \in Place : Rank(s, i) \in Nat /\ Rank(t, i) \in Nat
  BY <1>1, Ranks
<1>9. \A i \in Place : n <= i /\ Rank(t, n) = 0 => Rank(t, i) = 0
  BY <1>1, KeyRanks DEF Keyed, Place
<1> HIDE DEF n, p, q
<1>10. Same(p, q) => Same(s, t)
  <2> SUFFICES ASSUME Same(p, q), NEW i \in Place PROVE Rank(s, i) = Rank(t, i)
    BY DEF Same
  <2>1. Rank(t, n) = 0
    BY <1>1, <1>5, <1>6, <1>7 DEF Same, Place
  <2>2. CASE i <= n
    BY <1>6, <1>7, <2>2 DEF Same
  <2>3. CASE n < i
    BY <1>1, <1>5, <1>9, <2>1, <2>3 DEF Place
  <2> QED BY <1>1, <2>2, <2>3 DEF Place
<1>11. Below(p, q) => Below(s, t)
  <2> SUFFICES ASSUME Below(p, q) PROVE Below(s, t)
    OBVIOUS
  <2>1. PICK i \in Place : /\ Rank(p, i) < Rank(q, i)
                           /\ \A j \in 1 .. i - 1 : Rank(p, j) = Rank(q, j)
    BY DEF Below
  <2>2. i <= n
    BY <1>6, <1>7, <2>1
  <2>3. \A j \in 1 .. i - 1 : j \in Place /\ j <= n
    BY <1>1, <2>2 DEF Place
  <2> QED BY <1>6, <1>7, <2>1, <2>2, <2>3 DEF Below
<1>12. Below(q, p) => Below(t, s)
  <2> SUFFICES ASSUME Below(q, p) PROVE Below(t, s)
    OBVIOUS
  <2>1. PICK i \in Place : /\ Rank(q, i) < Rank(p, i)
                           /\ \A j \in 1 .. i - 1 : Rank(q, j) = Rank(p, j)
    BY DEF Below
  <2>2. i <= n
    BY <1>6, <1>7, <2>1
  <2>3. \A j \in 1 .. i - 1 : j \in Place /\ j <= n
    BY <1>1, <2>2 DEF Place
  <2> QED BY <1>6, <1>7, <2>1, <2>2, <2>3 DEF Below
<1>13. /\ c \in Int
       /\ (c = 0) <=> Same(p, q)
       /\ (c < 0) <=> Below(p, q)
       /\ (c > 0) <=> Below(q, p)
  BY <1>3, <1>4, Compared
<1>14. /\ Same(p, q) \/ Below(p, q) \/ Below(q, p)
       /\ ~ (Same(s, t) /\ Below(s, t))
       /\ ~ (Same(s, t) /\ Below(t, s))
       /\ ~ (Below(s, t) /\ Below(t, s))
  BY <1>1, <1>4, Ordered
<1> QED BY <1>10, <1>11, <1>12, <1>13, <1>14

----------------------------------------------------------------------------
(* Loops.                                                                  *)

\* What holds at first and after each turn if it did before it holds always.
LEMMA Upward ==
  ASSUME NEW N \in Nat, NEW A, 0 \in A, \A n \in 1 .. N : n - 1 \in A => n \in A
  PROVE  \A n \in 0 .. N : n \in A
<1> DEFINE T == {n \in 0 .. N : n \notin A}
<1> SUFFICES ASSUME T # {} PROVE FALSE
  OBVIOUS
<1>1. T \subseteq Nat
  OBVIOUS
<1>2. PICK m \in T : \A y \in T : m <= y
  <2> HIDE DEF T
  <2> QED BY <1>1, Least
<1>3. m \in 1 .. N /\ m - 1 \in 0 .. N /\ m - 1 \notin T /\ m \notin A
  BY <1>2
<1> QED BY <1>3

\* A loop each turn of which keeps to what is right there, and its turns.
Loop(N, Right, F, start) ==
  /\ N \in Nat
  /\ start \in Right[0]
  /\ \A n \in 1 .. N : \A x \in Right[n - 1] : F[n][x] \in Right[n]
Turn(N, Right, F, start, f) ==
  /\ f = [n \in 0 .. N |-> f[n]]
  /\ \A n \in 0 .. N : f[n] \in Right[n]
  /\ f[0] = start
  /\ \A n \in 1 .. N : f[n] = F[n][f[n - 1]]

\* The turns are a function of their number.
LEMMA Turns ==
  ASSUME NEW N, NEW Right, NEW F, NEW start, Loop(N, Right, F, start)
  PROVE  \E f : Turn(N, Right, F, start, f)
<1>5. /\ N \in Nat
      /\ start \in Right[0]
      /\ \A n \in 1 .. N : \A x \in Right[n - 1] : F[n][x] \in Right[n]
  BY DEF Loop
<1> DEFINE All == UNION {Right[n] : n \in 0 .. N}
           Runs(m) == \E f \in [0 .. m -> All] :
                        /\ \A n \in 0 .. m : f[n] \in Right[n]
                        /\ f[0] = start
                        /\ \A n \in 1 .. m : f[n] = F[n][f[n - 1]]
           A == {m \in 0 .. N : Runs(m)}
<1>1. \A n \in 0 .. N : \A x \in Right[n] : x \in All
  OBVIOUS
<1> HIDE DEF All
<1>2. 0 \in A
  <2> DEFINE g == [n \in 0 .. 0 |-> start]
  <2>1. g \in [0 .. 0 -> All] /\ g[0] = start
    BY <1>1, <1>5
  <2>2. \A n \in 0 .. 0 : g[n] \in Right[n]
    BY <1>5
  <2>3. \A n \in 1 .. 0 : g[n] = F[n][g[n - 1]]
    OBVIOUS
  <2> HIDE DEF g
  <2>4. Runs(0)
    BY <2>1, <2>2, <2>3
  <2>5. 0 \in 0 .. N
    BY <1>5
  <2> HIDE DEF Runs
  <2> QED BY <2>4, <2>5
<1>3. ASSUME NEW m \in 1 .. N, m - 1 \in A PROVE m \in A
  <2>1. PICK f \in [0 .. m - 1 -> All] :
          /\ \A n \in 0 .. m - 1 : f[n] \in Right[n]
          /\ f[0] = start
          /\ \A n \in 1 .. m - 1 : f[n] = F[n][f[n - 1]]
    BY <1>3
  <2> DEFINE g == [n \in 0 .. m |-> IF n = m THEN F[m][f[m - 1]] ELSE f[n]]
  <2>2. F[m][f[m - 1]] \in Right[m] /\ F[m][f[m - 1]] \in All
    <3>1. f[m - 1] \in Right[m - 1] /\ m \in 0 .. N
      BY <2>1
    <3> QED BY <1>1, <1>5, <3>1
  <2>3. g \in [0 .. m -> All]
    BY <2>1, <2>2
  <2>4. \A n \in 0 .. m : n = m \/ n \in 0 .. m - 1
    OBVIOUS
  <2>5. \A n \in 0 .. m : g[n] \in Right[n]
    BY <2>1, <2>2, <2>4
  <2>6. g[0] = start
    BY <2>1
  <2>7. ASSUME NEW n \in 1 .. m PROVE g[n] = F[n][g[n - 1]]
    <3>1. n - 1 \in 0 .. m /\ n - 1 # m /\ n \in 0 .. m
      OBVIOUS
    <3>2. g[n - 1] = f[n - 1]
      BY <3>1
    <3>3. CASE n = m
      BY <3>1, <3>2, <3>3
    <3>4. CASE n # m
      <4>1. n \in 1 .. m - 1 /\ g[n] = f[n]
        BY <3>1, <3>4
      <4> QED BY <2>1, <3>2, <4>1
    <3> QED BY <3>3, <3>4
  <2> HIDE DEF g
  <2>8. Runs(m)
    BY <2>3, <2>5, <2>6, <2>7
  <2> QED BY <2>8
<1> HIDE DEF A
<1>4. N \in A
  <2>1. \A n \in 0 .. N : n \in A
    BY <1>2, <1>3, <1>5, Upward
  <2> QED BY <1>5, <2>1
<1>6. PICK f \in [0 .. N -> All] :
        /\ \A n \in 0 .. N : f[n] \in Right[n]
        /\ f[0] = start
        /\ \A n \in 1 .. N : f[n] = F[n][f[n - 1]]
  BY <1>4 DEF A
<1>7. f = [n \in 0 .. N |-> f[n]]
  OBVIOUS
<1> QED BY <1>6, <1>7 DEF Turn

----------------------------------------------------------------------------
(* What do_index writes.                                                   *)

LineOf == [key : Keyed \ {<<>>}, flags : Seq(Nat)]

\* The lines are what the first n entries of a list come to: one line for
\* each key, in order, with the flags of all its entries.
Holds(list, n, lines) ==
  /\ lines \in Seq(LineOf)
  /\ lines = <<>> <=> n = 0
  /\ n # 0 => Same(lines[Len(lines)].key, list[n].key)
  /\ \A i, j \in 1 .. Len(lines) : i < j => Below(lines[i].key, lines[j].key)
  /\ \A i \in 1 .. Len(lines) : \A x :
       x \in FlagsIn(lines[i].flags) <=>
         \E k \in 1 .. n : list[k].flags = x /\ Same(list[k].key, lines[i].key)
  /\ \A k \in 1 .. n : \E i \in 1 .. Len(lines) : Same(list[k].key, lines[i].key)

\* An entry has a key and flags.
LEMMA Entered ==
  ASSUME NEW list \in Seq(Listable), NEW n \in 1 .. Len(list)
  PROVE  list[n].key \in Keyed \ {<<>>} /\ list[n].key \in Str /\ list[n].flags \in Nat
<1>1. list[n] \in Listable
  OBVIOUS
<1>2. list[n].key \in Keyed \ {<<>>} /\ list[n].flags \in Nat
  BY <1>1, StemIndexAssumption
<1> QED BY <1>2, KeyRanks

\* Flags are added at the end of a line.
LEMMA FlagsMore ==
  ASSUME NEW s \in Seq(Nat), NEW f \in Nat
  PROVE  /\ Append(s, f) \in Seq(Nat)
         /\ \A x : x \in FlagsIn(Append(s, f)) <=> x \in FlagsIn(s) \/ x = f
<1>1. /\ Append(s, f) \in Seq(Nat)
      /\ Len(Append(s, f)) = Len(s) + 1
      /\ \A i \in 1 .. Len(s) : Append(s, f)[i] = s[i]
      /\ Append(s, f)[Len(s) + 1] = f
      /\ Len(s) \in Nat
  OBVIOUS
<1>2. \A i \in 1 .. Len(s) + 1 : i \in 1 .. Len(s) \/ i = Len(s) + 1
  BY <1>1
<1>3. \A i \in 1 .. Len(s) : i \in 1 .. Len(s) + 1
  BY <1>1
<1>4. Len(s) + 1 \in 1 .. Len(s) + 1
  BY <1>1
<1> QED BY <1>1, <1>2, <1>3, <1>4 DEF FlagsIn

\* A key that none of the entries before has begins a line,
LEMMA NewLine ==
  ASSUME NEW list \in Seq(Listable), NEW n \in 1 .. Len(list), NEW lines,
         Holds(list, n - 1, lines),
         n # 1 => Below(list[n - 1].key, list[n].key)
  PROVE  Holds(list, n, Append(lines, [key |-> list[n].key, flags |-> <<list[n].flags>>]))
<1> DEFINE e == list[n]
           line == [key |-> e.key, flags |-> <<e.flags>>]
           more == Append(lines, line)
           L == Len(lines)
<1>1. /\ lines \in Seq(LineOf) /\ L \in Nat
      /\ \A i \in 1 .. L : lines[i].key \in Keyed \ {<<>>}
                          /\ lines[i].key \in Str /\ lines[i].flags \in Seq(Nat)
  <2>1. lines \in Seq(LineOf)
    BY DEF Holds
  <2>2. \A i \in 1 .. L : lines[i] \in LineOf
    BY <2>1
  <2> QED BY <2>1, <2>2, KeyRanks DEF LineOf
<1>2. e.key \in Keyed \ {<<>>} /\ e.key \in Str /\ e.flags \in Nat
  BY Entered
<1>3. line \in LineOf
  BY <1>2 DEF LineOf
<1>4. /\ more \in Seq(LineOf) /\ Len(more) = L + 1 /\ more # <<>>
      /\ \A i \in 1 .. L : more[i] = lines[i]
      /\ more[L + 1] = line
  <2> HIDE DEF line
  <2>1. /\ more \in Seq(LineOf) /\ Len(more) = L + 1
        /\ \A i \in 1 .. L : more[i] = lines[i]
        /\ more[L + 1] = line
    BY <1>1, <1>3
  <2> QED BY <1>1, <2>1
<1>5. \A i \in 1 .. L : Below(lines[i].key, e.key)
  <2> SUFFICES ASSUME NEW i \in 1 .. L PROVE Below(lines[i].key, e.key)
    OBVIOUS
  <2>1. n # 1 /\ n - 1 \in 1 .. Len(list) /\ L # 0 /\ L \in 1 .. L
    BY <1>1 DEF Holds
  <2>2. Same(lines[L].key, list[n - 1].key) /\ Below(list[n - 1].key, e.key)
    BY <2>1 DEF Holds
  <2>3. list[n - 1].key \in Str
    BY <2>1, Entered
  <2>4. Below(lines[L].key, e.key)
    BY <1>1, <1>2, <2>1, <2>2, <2>3, OrderedBy
  <2>5. CASE i = L
    BY <2>4, <2>5
  <2>6. CASE i # L
    <3>1. Below(lines[i].key, lines[L].key)
      BY <1>1, <2>1, <2>6 DEF Holds
    <3> QED BY <1>1, <1>2, <2>1, <2>4, <3>1, OrderedBy
  <2> QED BY <2>5, <2>6
<1>6. \A k \in 1 .. n - 1 : ~ Same(list[k].key, e.key)
  <2> SUFFICES ASSUME NEW k \in 1 .. n - 1, Same(list[k].key, e.key) PROVE FALSE
    OBVIOUS
  <2>1. PICK i \in 1 .. L : Same(list[k].key, lines[i].key)
    BY DEF Holds
  <2>2. list[k].key \in Str
    BY Entered
  <2>3. Below(list[k].key, e.key)
    BY <1>1, <1>2, <1>5, <2>1, <2>2, OrderedBy
  <2> QED BY <1>2, <2>2, <2>3, Ordered
<1>7. Same(e.key, e.key) /\ \A i \in 1 .. L : ~ Same(e.key, lines[i].key)
  BY <1>1, <1>2, <1>5, Ordered
<1>8. \A k \in 1 .. n : k \in 1 .. n - 1 \/ k = n
  OBVIOUS
<1>9. n \in 1 .. n /\ \A k \in 1 .. n - 1 : k \in 1 .. n
  OBVIOUS
<1>10. \A i \in 1 .. L + 1 : i \in 1 .. L \/ i = L + 1
  BY <1>1
<1>11. L + 1 \in 1 .. L + 1 /\ \A i \in 1 .. L : i \in 1 .. L + 1 /\ i < L + 1
  BY <1>1
<1>12. \A x : x \in FlagsIn(line.flags) <=> x = e.flags
  <2>1. line.flags = <<e.flags>> /\ Len(<<e.flags>>) = 1 /\ <<e.flags>>[1] = e.flags
    OBVIOUS
  <2> QED BY <2>1 DEF FlagsIn
<1>13. ASSUME NEW i \in 1 .. L + 1, NEW x
       PROVE  x \in FlagsIn(more[i].flags) <=>
                \E k \in 1 .. n : list[k].flags = x /\ Same(list[k].key, more[i].key)
  <2>1. CASE i \in 1 .. L
    <3>1. more[i] = lines[i] /\ ~ Same(e.key, lines[i].key)
      BY <1>4, <1>7, <2>1
    <3>2. x \in FlagsIn(lines[i].flags) <=>
            \E k \in 1 .. n - 1 : list[k].flags = x /\ Same(list[k].key, lines[i].key)
      BY <2>1 DEF Holds
    <3> HIDE DEF more
    <3> QED BY <1>8, <1>9, <3>1, <3>2
  <2>2. CASE i = L + 1
    <3>1. more[i] = line /\ line.key = e.key
      BY <1>4, <2>2
    <3> HIDE DEF more, line
    <3> QED BY <1>6, <1>7, <1>8, <1>9, <1>12, <3>1
  <2> QED BY <1>10, <2>1, <2>2
<1>14. ASSUME NEW i \in 1 .. L + 1, NEW j \in 1 .. L + 1, i < j
       PROVE  Below(more[i].key, more[j].key)
  <2>1. i \in 1 .. L
    BY <1>1, <1>14
  <2>2. CASE j \in 1 .. L
    <3>1. Below(lines[i].key, lines[j].key)
      BY <1>14, <2>1, <2>2 DEF Holds
    <3> QED BY <1>4, <2>1, <2>2, <3>1
  <2>3. CASE j = L + 1
    <3>1. more[i] = lines[i] /\ more[j].key = e.key
      BY <1>4, <2>1, <2>3
    <3> QED BY <1>5, <2>1, <3>1
  <2> QED BY <1>10, <2>2, <2>3
<1>15. ASSUME NEW k \in 1 .. n
       PROVE  \E i \in 1 .. L + 1 : Same(list[k].key, more[i].key)
  <2>1. CASE k = n
    <3>1. more[L + 1].key = e.key
      BY <1>4
    <3> QED BY <1>7, <1>11, <2>1, <3>1
  <2>2. CASE k \in 1 .. n - 1
    <3>1. PICK i \in 1 .. L : Same(list[k].key, lines[i].key)
      BY <2>2 DEF Holds
    <3> QED BY <1>4, <1>11, <3>1
  <2> QED BY <1>8, <2>1, <2>2
<1>16. Same(more[Len(more)].key, list[n].key)
  <2>1. more[Len(more)].key = e.key
    BY <1>4
  <2> QED BY <1>7, <2>1
<1> HIDE DEF more
<1>17. Holds(list, n, more)
  BY <1>4, <1>13, <1>14, <1>15, <1>16 DEF Holds
<1> QED BY <1>17 DEF more

\* What is known of the lines, in steps a prover takes one at a time.
LEMMA HeldLines ==
  ASSUME NEW list, NEW n \in Nat, NEW lines, Holds(list, n, lines), n # 0
  PROVE  /\ lines \in Seq(LineOf) /\ Len(lines) \in Nat
         /\ Len(lines) \in 1 .. Len(lines)
         /\ \A i \in 1 .. Len(lines) :
              /\ lines[i] \in LineOf
              /\ lines[i].key \in Keyed \ {<<>>} /\ lines[i].key \in Str
              /\ lines[i].flags \in Seq(Nat)
<1>1. lines \in Seq(LineOf) /\ lines # <<>>
  BY DEF Holds
<1>2. Len(lines) \in Nat /\ Len(lines) \in 1 .. Len(lines)
  BY <1>1
<1>3. \A i \in 1 .. Len(lines) : lines[i] \in LineOf
  BY <1>1
<1> QED BY <1>1, <1>2, <1>3, KeyRanks DEF LineOf

\* while one of the same key adds its flags to the last line,
LEMMA MoreFlags ==
  ASSUME NEW list \in Seq(Listable), NEW n \in 1 .. Len(list), NEW lines,
         Holds(list, n - 1, lines),
         n # 1, Same(list[n].key, list[n - 1].key)
  PROVE  Holds(list, n, [lines EXCEPT ![Len(lines)].flags = Append(@, list[n].flags)])
<1> DEFINE e == list[n]
           more == [lines EXCEPT ![Len(lines)].flags = Append(@, e.flags)]
           L == Len(lines)
<1>1. /\ lines \in Seq(LineOf) /\ L \in Nat /\ L \in 1 .. L
      /\ \A i \in 1 .. L : /\ lines[i] \in LineOf
                          /\ lines[i].key \in Keyed \ {<<>>} /\ lines[i].key \in Str
                          /\ lines[i].flags \in Seq(Nat)
  BY HeldLines
<1>2. e.key \in Str /\ e.flags \in Nat /\ list[n - 1].key \in Str
  <2>1. n - 1 \in 1 .. Len(list)
    OBVIOUS
  <2> QED BY <2>1, Entered
<1> DEFINE line == [key |-> lines[L].key, flags |-> Append(lines[L].flags, e.flags)]
<1>3. line \in LineOf /\ line.key = lines[L].key
      /\ \A x : x \in FlagsIn(line.flags) <=> x \in FlagsIn(lines[L].flags) \/ x = e.flags
  <2>1. Append(lines[L].flags, e.flags) \in Seq(Nat)
    BY <1>1, <1>2, FlagsMore
  <2>2. \A x : x \in FlagsIn(Append(lines[L].flags, e.flags)) <=>
                 x \in FlagsIn(lines[L].flags) \/ x = e.flags
    BY <1>1, <1>2, FlagsMore
  <2> QED BY <1>1, <2>1, <2>2 DEF LineOf
<1>4. more = [lines EXCEPT ![L] = line]
  <2>1. lines[L] = [key |-> lines[L].key, flags |-> lines[L].flags]
    BY <1>1 DEF LineOf
  <2>2. [lines[L] EXCEPT !.flags = Append(lines[L].flags, e.flags)] = line
    <3> DEFINE fs == Append(lines[L].flags, e.flags)
    <3> HIDE DEF fs
    <3>1. \A k, g : [[key |-> k, flags |-> g] EXCEPT !.flags = fs] = [key |-> k, flags |-> fs]
      OBVIOUS
    <3>2. [lines[L] EXCEPT !.flags = fs] = [key |-> lines[L].key, flags |-> fs]
      BY <2>1, <3>1, Zenon
    <3> QED BY <3>2 DEF fs
  <2>3. more = [lines EXCEPT ![L] = [lines[L] EXCEPT !.flags = Append(lines[L].flags, e.flags)]]
    OBVIOUS
  <2> QED BY <2>2, <2>3, Zenon
<1> HIDE DEF line, e
<1>5. /\ [lines EXCEPT ![L] = line] \in Seq(LineOf) /\ Len([lines EXCEPT ![L] = line]) = L
      /\ \A i \in 1 .. L : i # L => [lines EXCEPT ![L] = line][i] = lines[i]
      /\ [lines EXCEPT ![L] = line][L] = line
  BY <1>1, <1>3
<1> HIDE DEF more
<1>6. /\ more \in Seq(LineOf) /\ Len(more) = L /\ more # <<>>
      /\ \A i \in 1 .. L : i # L => more[i] = lines[i]
      /\ more[L] = line
      /\ \A i \in 1 .. L : more[i].key = lines[i].key
  <2>1. /\ more \in Seq(LineOf) /\ Len(more) = L
        /\ \A i \in 1 .. L : i # L => more[i] = lines[i]
        /\ more[L] = line
    BY <1>4, <1>5, Zenon
  <2> QED BY <1>1, <1>3, <2>1
<1> HIDE DEF L
<1>7. Same(lines[L].key, e.key) /\ Same(e.key, lines[L].key)
  <2>1. Same(lines[L].key, list[n - 1].key)
    BY DEF Holds, L
  <2>2. Same(list[n - 1].key, e.key) /\ lines[L].key \in Str
    BY <1>1, <1>2, Ordered DEF e
  <2>3. Same(lines[L].key, e.key)
    BY <1>2, <2>1, <2>2, OrderedBy
  <2> QED BY <1>2, <2>2, <2>3, Ordered
<1>8. ASSUME NEW i \in 1 .. L, i # L PROVE ~ Same(e.key, lines[i].key)
  <2>1. Below(lines[i].key, lines[L].key)
    BY <1>1, <1>8 DEF Holds, L
  <2>2. Below(lines[i].key, e.key)
    BY <1>1, <1>2, <1>7, <2>1, OrderedBy
  <2> QED BY <1>1, <1>2, <2>2, Ordered
<1>9. /\ \A k \in 1 .. n : k \in 1 .. n - 1 \/ k = n
      /\ n \in 1 .. n /\ \A k \in 1 .. n - 1 : k \in 1 .. n
  OBVIOUS
<1>10. \A i \in 1 .. L : \A x :
         x \in FlagsIn(lines[i].flags) <=>
           \E k \in 1 .. n - 1 : list[k].flags = x /\ Same(list[k].key, lines[i].key)
  BY DEF Holds, L
<1>11. ASSUME NEW i \in 1 .. L, NEW x
       PROVE  x \in FlagsIn(more[i].flags) <=>
                \E k \in 1 .. n : list[k].flags = x /\ Same(list[k].key, more[i].key)
  <2>1. CASE i # L
    <3>1. more[i] = lines[i] /\ ~ Same(e.key, lines[i].key)
      BY <1>6, <1>8, <2>1
    <3> QED BY <1>9, <1>10, <3>1 DEF e
  <2>2. CASE i = L
    <3>1. more[i] = line /\ line.key = lines[i].key
      BY <1>3, <1>6, <2>2
    <3>2. x \in FlagsIn(line.flags) <=> x \in FlagsIn(lines[i].flags) \/ x = e.flags
      BY <1>3, <2>2
    <3>3. Same(e.key, lines[i].key)
      BY <1>7, <2>2
    <3> QED BY <1>9, <1>10, <3>1, <3>2, <3>3 DEF e
  <2> QED BY <2>1, <2>2
<1>12. \A i, j \in 1 .. L : i < j => Below(more[i].key, more[j].key)
  BY <1>6 DEF Holds, L
<1>13. ASSUME NEW k \in 1 .. n
       PROVE  \E i \in 1 .. L : Same(list[k].key, more[i].key)
  <2>1. CASE k = n
    BY <1>1, <1>6, <1>7, <2>1 DEF e
  <2>2. CASE k \in 1 .. n - 1
    BY <1>6, <2>2 DEF Holds, L
  <2> QED BY <1>9, <2>1, <2>2
<1>14. Same(more[L].key, list[n].key)
  BY <1>1, <1>6, <1>7 DEF e
<1>15. Holds(list, n, more)
  BY <1>6, <1>11, <1>12, <1>13, <1>14 DEF Holds
<1> QED BY <1>15 DEF more, e

\* or nothing, when the entry before had the same ones.
LEMMA NoFlags ==
  ASSUME NEW list \in Seq(Listable), NEW n \in 1 .. Len(list), NEW lines,
         Holds(list, n - 1, lines),
         n # 1, Same(list[n].key, list[n - 1].key), list[n].flags = list[n - 1].flags
  PROVE  Holds(list, n, lines)
<1> DEFINE L == Len(lines)
<1>1. /\ lines \in Seq(LineOf) /\ L \in Nat /\ L \in 1 .. L
      /\ \A i \in 1 .. L : lines[i].key \in Str
  <2>1. n - 1 \in Nat /\ n - 1 # 0
    OBVIOUS
  <2> QED BY <2>1, HeldLines
<1>2. n - 1 \in 1 .. Len(list) /\ n - 1 \in 1 .. n - 1
  OBVIOUS
<1>3. list[n].key \in Str /\ list[n - 1].key \in Str
  BY <1>2, Entered
<1>4. /\ \A k \in 1 .. n : k \in 1 .. n - 1 \/ k = n
      /\ n \in 1 .. n /\ \A k \in 1 .. n - 1 : k \in 1 .. n
  OBVIOUS
<1>5. Same(list[n - 1].key, list[n].key)
  BY <1>3, Ordered
<1>6. Same(lines[L].key, list[n].key)
  <2>1. Same(lines[L].key, list[n - 1].key)
    BY DEF Holds
  <2> QED BY <1>1, <1>3, <1>5, <2>1, OrderedBy
<1>7. \A i \in 1 .. L : Same(list[n].key, lines[i].key) <=> Same(list[n - 1].key, lines[i].key)
  BY <1>1, <1>3, <1>5, OrderedBy
<1>8. ASSUME NEW i \in 1 .. L, NEW x
       PROVE  x \in FlagsIn(lines[i].flags) <=>
                \E k \in 1 .. n : list[k].flags = x /\ Same(list[k].key, lines[i].key)
  <2>1. x \in FlagsIn(lines[i].flags) <=>
          \E k \in 1 .. n - 1 : list[k].flags = x /\ Same(list[k].key, lines[i].key)
    BY DEF Holds
  <2> QED BY <1>2, <1>4, <1>7, <2>1
<1>9. ASSUME NEW k \in 1 .. n PROVE \E i \in 1 .. L : Same(list[k].key, lines[i].key)
  <2>1. \A m \in 1 .. n - 1 : \E i \in 1 .. L : Same(list[m].key, lines[i].key)
    BY DEF Holds
  <2> QED BY <1>2, <1>4, <1>7, <2>1
<1>10. lines # <<>> /\ \A i, j \in 1 .. L : i < j => Below(lines[i].key, lines[j].key)
  BY DEF Holds
<1> QED BY <1>1, <1>6, <1>8, <1>9, <1>10 DEF Holds

\* The entry before, as do_index has it.
Previous(list, n) == IF n = 1 THEN [key |-> <<>>, flags |-> 0] ELSE list[n - 1]

\* Whichever it is, a turn of do_index keeps to the entries.
LEMMA NotedHolds ==
  ASSUME NEW list \in Seq(Listable), InOrder(list), NEW n \in 1 .. Len(list), NEW lines,
         Holds(list, n - 1, lines)
  PROVE  Holds(list, n, Noted(lines, list[n], Previous(list, n)))
<1> DEFINE c == morphstrcmp(list[n].key, Previous(list, n).key)
<1>1. list[n].key \in Keyed \ {<<>>} /\ list[n].key \in Str
  BY Entered
<1>2. CASE n = 1
  <2>1. Previous(list, n).key = <<>> /\ <<>> \in Str /\ 1 \in Place
    BY <1>2 DEF Previous, Str, Place
  <2>2. ~ Same(list[n].key, <<>>)
    <3>1. Rank(list[n].key, 1) # 0
      BY <1>1, <2>1, KeyRanks DEF Keyed
    <3>2. Rank(<<>>, 1) = 0
      BY <2>1, Ranks
    <3> QED BY <2>1, <3>1, <3>2 DEF Same
  <2>3. c # 0
    BY <1>1, <2>1, <2>2, Compared
  <2> QED BY <1>2, <2>3, NewLine DEF Noted
<1>3. CASE n # 1
  <2> DEFINE p == list[n - 1]
  <2>1. Previous(list, n) = p /\ n - 1 \in 1 .. Len(list) - 1
    BY <1>3 DEF Previous
  <2>2. p.key \in Str /\ p.flags \in Nat
    BY <2>1, Entered
  <2>3. zstrcmp(p, list[n]) <= 0
    BY <2>1 DEF InOrder
  <2>4. CASE Same(list[n].key, p.key)
    <3>1. c = 0
      BY <1>1, <2>1, <2>2, <2>4, Compared
    <3>2. CASE list[n].flags = p.flags
      BY <1>3, <2>1, <2>4, <3>1, <3>2, NoFlags DEF Noted
    <3>3. CASE list[n].flags # p.flags
      BY <1>3, <2>1, <2>4, <3>1, <3>3, MoreFlags DEF Noted
    <3> QED BY <3>2, <3>3
  <2>5. CASE ~ Same(list[n].key, p.key)
    <3>1. c # 0
      BY <1>1, <2>1, <2>2, <2>5, Compared
    <3>2. ~ Same(p.key, list[n].key)
      BY <1>1, <2>2, <2>5, Ordered
    <3>3. Below(p.key, list[n].key)
      <4>1. morphstrcmp(p.key, list[n].key) # 0 /\ morphstrcmp(p.key, list[n].key) \in Int
        BY <1>1, <2>2, <3>2, Compared
      <4>2. morphstrcmp(p.key, list[n].key) < 0
        BY <2>3, <4>1 DEF zstrcmp
      <4> QED BY <1>1, <2>2, <4>2, Compared
    <3> QED BY <2>1, <3>1, <3>3, NewLine DEF Noted
  <2> QED BY <2>4, <2>5
<1> QED BY <1>2, <1>3

\* So the lines are what the list comes to (do_index).
LEMMA Indexed ==
  ASSUME NEW list \in Seq(Listable), InOrder(list)
  PROVE  Holds(list, Len(list), do_index(list))
<1> DEFINE N == Len(list)
           prev(n) == IF n = 1 THEN [key |-> <<>>, flags |-> 0] ELSE list[n - 1]
           M[n \in 0 .. Len(list)] ==
             IF n = 0 THEN <<>> ELSE Noted(M[n - 1], list[n], prev(n))
           Body(g) == [n \in 0 .. Len(list) |->
                         IF n = 0 THEN <<>> ELSE Noted(g[n - 1], list[n], prev(n))]
           Right == [n \in 0 .. N |-> {l \in Seq(LineOf) : Holds(list, n, l)}]
           F == [n \in 1 .. N |-> [l \in Right[n - 1] |->
                                     Noted(l, list[n], Previous(list, n))]]
<1>1. do_index(list) = M[N]
  BY DEF do_index
<1>2. M = CHOOSE g : g = Body(g)
  OBVIOUS
<1> HIDE DEF M
<1>3. \A n \in 1 .. N : prev(n) = Previous(list, n)
  BY DEF Previous
<1>4. Holds(list, 0, <<>>) /\ N \in Nat
  <2>1. <<>> \in Seq(LineOf) /\ Len(<<>>) = 0
    OBVIOUS
  <2> QED BY <2>1 DEF Holds
<1>5. ASSUME NEW n \in 1 .. N, NEW l, Holds(list, n - 1, l)
      PROVE  Holds(list, n, Noted(l, list[n], Previous(list, n)))
  BY <1>5, NotedHolds
<1>6. \A n \in 0 .. N : \A l : l \in Right[n] <=> Holds(list, n, l)
  BY DEF Holds
<1> HIDE DEF Right
<1>7. \A n \in 1 .. N : \A l \in Right[n - 1] :
         /\ F[n][l] = Noted(l, list[n], Previous(list, n))
         /\ F[n][l] \in Right[n]
  <2> SUFFICES ASSUME NEW n \in 1 .. N, NEW l \in Right[n - 1]
               PROVE  /\ F[n][l] = Noted(l, list[n], Previous(list, n))
                      /\ F[n][l] \in Right[n]
    OBVIOUS
  <2>1. n - 1 \in 0 .. N /\ n \in 0 .. N
    OBVIOUS
  <2>2. F[n][l] = Noted(l, list[n], Previous(list, n))
    OBVIOUS
  <2> QED BY <1>5, <1>6, <2>1, <2>2
<1>8. <<>> \in Right[0]
  BY <1>4, <1>6
<1> HIDE DEF F
<1>9. PICK f : Turn(N, Right, F, <<>>, f)
  <2>1. Loop(N, Right, F, <<>>)
    BY <1>4, <1>7, <1>8 DEF Loop
  <2> QED BY <2>1, Turns
<1>10. f = Body(f)
  <2>1. \A n \in 0 .. N : f[n] = IF n = 0 THEN <<>> ELSE Noted(f[n - 1], list[n], prev(n))
    <3> SUFFICES ASSUME NEW n \in 1 .. N
                 PROVE  f[n] = Noted(f[n - 1], list[n], prev(n))
      <4>1. f[0] = <<>> /\ \A n \in 0 .. N : n = 0 \/ n \in 1 .. N
        BY <1>9 DEF Turn
      <4> HIDE DEF prev
      <4> QED BY <4>1
    <3>1. n - 1 \in 0 .. N
      OBVIOUS
    <3>2. f[n - 1] \in Right[n - 1]
      BY <1>9, <3>1 DEF Turn
    <3> HIDE DEF prev
    <3> QED BY <1>3, <1>7, <1>9, <3>2 DEF Turn
  <2> QED BY <1>9, <2>1 DEF Turn
<1>11. M = Body(M)
  <2> HIDE DEF Body
  <2> QED BY <1>2, <1>10
<1>12. \A n \in 0 .. N : M[n] = IF n = 0 THEN <<>> ELSE Noted(M[n - 1], list[n], prev(n))
  <2> HIDE DEF prev
  <2>1. \A n \in 0 .. N : Body(M)[n] =
                           IF n = 0 THEN <<>> ELSE Noted(M[n - 1], list[n], prev(n))
    OBVIOUS
  <2> HIDE DEF Body
  <2> QED BY <1>11, <2>1, Zenon
<1> DEFINE A == {n \in 0 .. N : Holds(list, n, M[n])}
<1>13. 0 \in A
  BY <1>4, <1>12
<1>14. ASSUME NEW n \in 1 .. N, n - 1 \in A PROVE n \in A
  <2>1. M[n] = Noted(M[n - 1], list[n], Previous(list, n))
    <3> HIDE DEF prev
    <3> QED BY <1>3, <1>12
  <2> QED BY <1>5, <1>14, <2>1
<1>15. N \in A
  <2> HIDE DEF A
  <2>1. \A n \in 0 .. N : n \in A
    BY <1>4, <1>13, <1>14, Upward
  <2> QED BY <1>4, <2>1
<1> QED BY <1>1, <1>15

----------------------------------------------------------------------------
(* What the searches answer.                                               *)

\* Lines in order, a key on each.
Ascending(lines) ==
  /\ lines \in Seq(LineOf)
  /\ \A i, j \in 1 .. Len(lines) : i < j => Below(lines[i].key, lines[j].key)

\* The answer to a key is what is behind it on its line, if there is one.
Answers(lines, key, r) ==
  \/ \E i \in 1 .. Len(lines) : Same(key, lines[i].key) /\ r = lines[i].flags
  \/ r = Missing /\ \A i \in 1 .. Len(lines) : ~ Same(key, lines[i].key)

\* The keys and flags of lines in order.
LEMMA LineKeys ==
  ASSUME NEW lines, Ascending(lines)
  PROVE  /\ Len(lines) \in Nat
         /\ \A i \in 1 .. Len(lines) :
              /\ lines[i].key \in Keyed \ {<<>>} /\ lines[i].key \in Str
              /\ lines[i].flags \in Seq(Nat)
<1>1. lines \in Seq(LineOf)
  BY DEF Ascending
<1>2. \A i \in 1 .. Len(lines) : lines[i] \in LineOf
  BY <1>1
<1> QED BY <1>1, <1>2, KeyRanks DEF LineOf

\* An answer from the lines has the flags the list has under the key.
LEMMA AnswersList ==
  ASSUME NEW list \in Seq(Listable), NEW lines, Holds(list, Len(list), lines),
         NEW key \in Keyed, NEW r, Answers(lines, key, r)
  PROVE  r \in Seq(Nat) /\ FlagsIn(r) = FlagsOf(list, key)
<1> DEFINE N == Len(list)
<1>1. Ascending(lines) /\ N \in Nat /\ key \in Str
  BY KeyRanks DEF Holds, Ascending
<1>2. \A x : x \in FlagsOf(list, key) <=>
               \E k \in 1 .. N : list[k].flags = x /\ Same(list[k].key, key)
  <2>1. \A k \in 1 .. N : (morphstrcmp(list[k].key, key) = 0) <=> Same(list[k].key, key)
    BY <1>1, Entered, Compared
  <2> QED BY <2>1 DEF FlagsOf
<1>3. CASE \E i \in 1 .. Len(lines) : Same(key, lines[i].key) /\ r = lines[i].flags
  <2>1. PICK i \in 1 .. Len(lines) : Same(key, lines[i].key) /\ r = lines[i].flags
    BY <1>3
  <2>2. lines[i].key \in Str /\ lines[i].flags \in Seq(Nat)
    BY <1>1, LineKeys
  <2>3. Same(lines[i].key, key)
    BY <1>1, <2>1, <2>2, Ordered
  <2>4. \A k \in 1 .. N : Same(list[k].key, key) <=> Same(list[k].key, lines[i].key)
    BY <1>1, <2>1, <2>2, <2>3, Entered, OrderedBy
  <2>5. \A x : x \in FlagsIn(lines[i].flags) <=>
          \E k \in 1 .. N : list[k].flags = x /\ Same(list[k].key, lines[i].key)
    BY DEF Holds
  <2>6. \A x : x \in FlagsIn(r) <=> x \in FlagsOf(list, key)
    BY <1>2, <2>1, <2>4, <2>5
  <2>7. FlagsIn(r) = FlagsOf(list, key)
    BY <2>6
  <2> QED BY <2>1, <2>2, <2>7
<1>4. CASE r = Missing /\ \A i \in 1 .. Len(lines) : ~ Same(key, lines[i].key)
  <2>1. r \in Seq(Nat) /\ FlagsIn(r) = {}
    BY <1>4 DEF Missing, FlagsIn
  <2>2. ASSUME NEW k \in 1 .. N, Same(list[k].key, key) PROVE FALSE
    <3>1. PICK i \in 1 .. Len(lines) : Same(list[k].key, lines[i].key)
      BY DEF Holds
    <3>2. list[k].key \in Str /\ lines[i].key \in Str
      BY <1>1, Entered, LineKeys
    <3>3. Same(key, list[k].key)
      BY <1>1, <2>2, <3>2, Ordered
    <3>4. Same(key, lines[i].key)
      BY <1>1, <3>1, <3>2, <3>3, OrderedBy
    <3> QED BY <1>4, <3>4
  <2> QED BY <1>2, <2>1, <2>2
<1> QED BY <1>3, <1>4 DEF Answers

\* A key below a line is below all lines behind it, and one above a line is
\* above all before it.
LEMMA AroundLine ==
  ASSUME NEW lines, Ascending(lines), NEW key \in Str, NEW m \in 1 .. Len(lines)
  PROVE  /\ Below(key, lines[m].key) =>
              \A i \in 1 .. Len(lines) : i >= m => Below(key, lines[i].key)
         /\ Below(lines[m].key, key) =>
              \A i \in 1 .. Len(lines) : i <= m => Below(lines[i].key, key)
<1>1. \A i \in 1 .. Len(lines) : lines[i].key \in Str
  BY LineKeys
<1>2. ASSUME Below(key, lines[m].key), NEW i \in 1 .. Len(lines), i >= m
      PROVE  Below(key, lines[i].key)
  <2>1. CASE i = m
    BY <1>2, <2>1
  <2>2. CASE i # m
    <3>1. Below(lines[m].key, lines[i].key)
      BY <1>2, <2>2, LineKeys DEF Ascending
    <3> QED BY <1>1, <1>2, <3>1, OrderedBy
  <2> QED BY <2>1, <2>2
<1>3. ASSUME Below(lines[m].key, key), NEW i \in 1 .. Len(lines), i <= m
      PROVE  Below(lines[i].key, key)
  <2>1. CASE i = m
    BY <1>3, <2>1
  <2>2. CASE i # m
    <3>1. Below(lines[i].key, lines[m].key)
      BY <1>3, <2>2, LineKeys DEF Ascending
    <3> QED BY <1>1, <1>3, <3>1, OrderedBy
  <2> QED BY <2>1, <2>2
<1> QED BY <1>2, <1>3

----------------------------------------------------------------------------
(* The bisection of checkendind.                                           *)

\* After n turns either the line is all that is left, or what is left holds
\* it if any line does, and is at least n lines shorter.
Bisected(lines, key, n, s) ==
  /\ s \in [low : Int, high : Int]
  /\ \/ /\ s.low = s.high /\ s.low + 1 \in 1 .. Len(lines)
        /\ Same(key, lines[s.low + 1].key)
     \/ /\ 0 <= s.low /\ s.high < Len(lines)
        /\ s.high - s.low + 1 <= Len(lines) - n
        /\ \A i \in 1 .. Len(lines) : i <= s.low => Below(lines[i].key, key)
        /\ \A i \in 1 .. Len(lines) : i > s.high + 1 => Below(key, lines[i].key)

\* A turn of checkendind keeps the line of the key in what is left.
LEMMA HalvedRight ==
  ASSUME NEW lines, Ascending(lines), NEW key \in Keyed,
         NEW n \in 1 .. Len(lines), NEW s, Bisected(lines, key, n - 1, s)
  PROVE  Bisected(lines, key, n, Halved(s, lines, key))
<1> DEFINE N == Len(lines)
<1>1. N \in Nat /\ \A i \in 1 .. N : lines[i].key \in Keyed /\ lines[i].key \in Str
  BY LineKeys
<1>2. key \in Str
  BY KeyRanks
<1>3. s \in [low : Int, high : Int] /\ s.low \in Int /\ s.high \in Int
  BY DEF Bisected
<1>4. CASE s.low > s.high
  <2>1. Halved(s, lines, key) = s
    BY <1>4 DEF Halved
  <2> QED BY <1>1, <1>3, <1>4, <2>1 DEF Bisected
<1>5. CASE s.low <= s.high
  <2> DEFINE cur == Append(key, BLANK)
  <2>1. PICK mid : mid = (s.low + s.high) \div 2
    OBVIOUS
  <2>2. PICK comp : comp = morphstrncmp(cur, Append(lines[mid + 1].key, BLANK), Len(cur))
    OBVIOUS
  <2>3. Halved(s, lines, key) =
          IF comp < 0 THEN [s EXCEPT !.high = mid - 1]
          ELSE IF comp > 0 THEN [s EXCEPT !.low = mid + 1]
          ELSE [low |-> mid, high |-> mid]
    <3>1. ~ (s.low > s.high)
      BY <1>3, <1>5
    <3> QED BY <2>1, <2>2, <3>1, Zenon DEF Halved
  <2>4. mid \in Int /\ s.low <= mid /\ mid <= s.high
    BY <1>3, <1>5, <2>1
  <2>5. mid + 1 \in 1 .. N
    <3>1. CASE s.low = s.high /\ s.low + 1 \in 1 .. N
      BY <1>3, <2>4, <3>1
    <3>2. CASE 0 <= s.low /\ s.high < N
      BY <1>1, <1>3, <2>4, <3>2
    <3> QED BY <3>1, <3>2 DEF Bisected
  <2>6. /\ comp \in Int
        /\ (comp = 0) <=> Same(key, lines[mid + 1].key)
        /\ (comp < 0) <=> Below(key, lines[mid + 1].key)
        /\ (comp > 0) <=> Below(lines[mid + 1].key, key)
    BY <1>1, <2>2, <2>5, WithBlank
  <2>7. CASE comp = 0
    <3>1. Halved(s, lines, key) = [low |-> mid, high |-> mid]
      BY <2>3, <2>7
    <3> QED BY <2>4, <2>5, <2>6, <2>7, <3>1 DEF Bisected
  <2>8. CASE comp # 0
    <3>1. /\ 0 <= s.low /\ s.high < N
          /\ s.high - s.low + 1 <= N - (n - 1)
          /\ \A i \in 1 .. N : i <= s.low => Below(lines[i].key, key)
          /\ \A i \in 1 .. N : i > s.high + 1 => Below(key, lines[i].key)
      <4>1. ~ (s.low = s.high /\ s.low + 1 \in 1 .. N /\ Same(key, lines[s.low + 1].key))
        <5>1. s.low = s.high => mid = s.low
          BY <1>3, <2>4
        <5> QED BY <2>6, <2>8, <5>1
      <4> QED BY <4>1 DEF Bisected
    <3>2. CASE comp < 0
      <4>1. Halved(s, lines, key) = [low |-> s.low, high |-> mid - 1]
        BY <1>3, <2>3, <3>2
      <4>2. \A i \in 1 .. N : i > (mid - 1) + 1 => Below(key, lines[i].key)
        <5>1. \A i \in 1 .. N : i >= mid + 1 => Below(key, lines[i].key)
          BY <1>2, <2>5, <2>6, <3>2, AroundLine
        <5> QED BY <2>4, <5>1
      <4>3. (mid - 1) - s.low + 1 <= N - n /\ mid - 1 < N
        BY <1>1, <1>3, <2>4, <2>5, <3>1
      <4>4. PICK t : t = [low |-> s.low, high |-> mid - 1]
        OBVIOUS
      <4>5. t \in [low : Int, high : Int] /\ t.low = s.low /\ t.high = mid - 1
        BY <1>3, <2>4, <4>4
      <4>6. Bisected(lines, key, n, t)
        BY <3>1, <4>2, <4>3, <4>5 DEF Bisected
      <4> QED BY <4>1, <4>4, <4>6
    <3>3. CASE comp > 0
      <4>1. Halved(s, lines, key) = [low |-> mid + 1, high |-> s.high]
        BY <1>3, <2>3, <2>6, <3>3
      <4>2. \A i \in 1 .. N : i <= mid + 1 => Below(lines[i].key, key)
        BY <1>2, <2>5, <2>6, <3>3, AroundLine
      <4>3. s.high - (mid + 1) + 1 <= N - n /\ 0 <= mid + 1
        BY <1>1, <1>3, <2>4, <2>5, <3>1
      <4>4. PICK t : t = [low |-> mid + 1, high |-> s.high]
        OBVIOUS
      <4>5. t \in [low : Int, high : Int] /\ t.low = mid + 1 /\ t.high = s.high
        BY <1>3, <2>4, <4>4
      <4>6. Bisected(lines, key, n, t)
        BY <3>1, <4>2, <4>3, <4>5 DEF Bisected
      <4> QED BY <4>1, <4>4, <4>6
    <3> QED BY <2>6, <2>8, <3>2, <3>3
  <2> QED BY <2>7, <2>8
<1> QED BY <1>3, <1>4, <1>5

\* So checkendind answers every key from its line.
LEMMA BisectionAnswers ==
  ASSUME NEW lines, Ascending(lines), NEW key \in Keyed
  PROVE  Answers(lines, key, checkendind(lines, key))
<1> DEFINE N == Len(lines)
           start == [low |-> 0, high |-> Len(lines) - 1]
           M[n \in 0 .. Len(lines)] ==
             IF n = 0 THEN [low |-> 0, high |-> Len(lines) - 1]
             ELSE Halved(M[n - 1], lines, key)
           Body(g) == [n \in 0 .. N |-> IF n = 0 THEN start ELSE Halved(g[n - 1], lines, key)]
           States == [low : Int, high : Int]
           Right == [n \in 0 .. N |-> {s \in States : Bisected(lines, key, n, s)}]
           F == [n \in 1 .. N |-> [s \in Right[n - 1] |-> Halved(s, lines, key)]]
<1>1. checkendind(lines, key) =
        IF M[N].low <= M[N].high THEN lines[M[N].low + 1].flags ELSE Missing
  BY DEF checkendind
<1>2. M = CHOOSE g : g = Body(g)
  OBVIOUS
<1> HIDE DEF M
<1>3. N \in Nat
  BY LineKeys
<1>4. Bisected(lines, key, 0, start)
  <2>1. start \in States /\ start.low = 0 /\ start.high = N - 1
    BY <1>3
  <2>2. \A i \in 1 .. N : ~ (i <= 0) /\ ~ (i > N - 1 + 1)
    BY <1>3
  <2> HIDE DEF start
  <2> QED BY <1>3, <2>1, <2>2 DEF Bisected
<1> HIDE DEF start
<1>5. ASSUME NEW n \in 1 .. N, NEW s, Bisected(lines, key, n - 1, s)
      PROVE  Bisected(lines, key, n, Halved(s, lines, key))
  BY <1>5, HalvedRight
<1>6. \A n \in 0 .. N : \A s : s \in Right[n] <=> Bisected(lines, key, n, s)
  BY DEF Bisected
<1> HIDE DEF Right
<1>7. \A n \in 1 .. N : \A s \in Right[n - 1] :
        /\ F[n][s] = Halved(s, lines, key)
        /\ F[n][s] \in Right[n]
  <2> SUFFICES ASSUME NEW n \in 1 .. N, NEW s \in Right[n - 1]
               PROVE  F[n][s] = Halved(s, lines, key) /\ F[n][s] \in Right[n]
    OBVIOUS
  <2>1. n - 1 \in 0 .. N /\ n \in 0 .. N
    BY <1>3
  <2>2. F[n][s] = Halved(s, lines, key)
    OBVIOUS
  <2> QED BY <1>5, <1>6, <2>1, <2>2
<1> HIDE DEF F
<1>8. PICK f : Turn(N, Right, F, start, f)
  <2>1. start \in Right[0]
    BY <1>3, <1>4, <1>6
  <2>2. Loop(N, Right, F, start)
    BY <1>3, <1>7, <2>1 DEF Loop
  <2> QED BY <2>2, Turns
<1>9. f = Body(f)
  <2>1. \A n \in 0 .. N : f[n] = IF n = 0 THEN start ELSE Halved(f[n - 1], lines, key)
    <3> SUFFICES ASSUME NEW n \in 1 .. N PROVE f[n] = Halved(f[n - 1], lines, key)
      <4>1. f[0] = start /\ \A n \in 0 .. N : n = 0 \/ n \in 1 .. N
        BY <1>3, <1>8 DEF Turn
      <4> QED BY <4>1
    <3>1. n - 1 \in 0 .. N
      BY <1>3
    <3>2. f[n - 1] \in Right[n - 1]
      BY <1>8, <3>1 DEF Turn
    <3> QED BY <1>7, <1>8, <3>2 DEF Turn
  <2> QED BY <1>8, <2>1 DEF Turn
<1>10. M = Body(M)
  <2> HIDE DEF Body
  <2> QED BY <1>2, <1>9
<1>11. \A n \in 0 .. N : M[n] = IF n = 0 THEN start ELSE Halved(M[n - 1], lines, key)
  <2>1. \A n \in 0 .. N : Body(M)[n] = IF n = 0 THEN start ELSE Halved(M[n - 1], lines, key)
    OBVIOUS
  <2> HIDE DEF Body
  <2> QED BY <1>10, <2>1, Zenon
<1> HIDE DEF Body
<1> DEFINE A == {n \in 0 .. N : Bisected(lines, key, n, M[n])}
<1>12. 0 \in A
  BY <1>3, <1>4, <1>11
<1>13. ASSUME NEW n \in 1 .. N, n - 1 \in A PROVE n \in A
  <2>1. M[n] = Halved(M[n - 1], lines, key) /\ n \in 0 .. N
    BY <1>3, <1>11
  <2> QED BY <1>5, <1>13, <2>1
<1>14. Bisected(lines, key, N, M[N])
  <2>1. \A n \in 0 .. N : n \in A
    <3> HIDE DEF A
    <3> QED BY <1>3, <1>12, <1>13, Upward
  <2> QED BY <1>3, <2>1
<1>15. PICK s : s = M[N]
  OBVIOUS
<1>16. s.low \in Int /\ s.high \in Int
  BY <1>14, <1>15 DEF Bisected
<1>17. CASE s.low <= s.high
  <2>1. s.low + 1 \in 1 .. N /\ Same(key, lines[s.low + 1].key)
    BY <1>3, <1>14, <1>15, <1>16, <1>17 DEF Bisected
  <2>2. checkendind(lines, key) = lines[s.low + 1].flags
    BY <1>1, <1>15, <1>17
  <2> QED BY <2>1, <2>2 DEF Answers
<1>18. CASE s.low > s.high
  <2>1. /\ \A i \in 1 .. N : i <= s.low => Below(lines[i].key, key)
        /\ \A i \in 1 .. N : i > s.high + 1 => Below(key, lines[i].key)
    BY <1>14, <1>15, <1>16, <1>18 DEF Bisected
  <2>2. ASSUME NEW i \in 1 .. N PROVE ~ Same(key, lines[i].key)
    <3>1. key \in Str /\ lines[i].key \in Str
      BY KeyRanks, LineKeys
    <3>2. i <= s.low \/ i > s.high + 1
      BY <1>3, <1>16, <1>18
    <3>3. Below(lines[i].key, key) \/ Below(key, lines[i].key)
      BY <2>1, <3>2
    <3> QED BY <3>1, <3>3, Ordered
  <2>3. ~ (s.low <= s.high)
    BY <1>16, <1>18
  <2>4. checkendind(lines, key) = Missing
    BY <1>1, <1>15, <2>3
  <2> QED BY <2>2, <2>4 DEF Answers
<1> QED BY <1>16, <1>17, <1>18

----------------------------------------------------------------------------
(* The coarse index and the scan.                                          *)

\* From a line that is not behind the one of the key the scan of
\* ChckFullIndex finds it, and nothing else.
LEMMA ScanAnswers ==
  ASSUME NEW lines, Ascending(lines), NEW key \in Keyed, NEW start \in Nat \ {0},
         \A i \in 1 .. Len(lines) : i < start => ~ Same(key, lines[i].key)
  PROVE  Answers(lines, key, ChckFullIndex(lines, key, start))
<1> DEFINE N == Len(lines)
           comp(n) == morphstrncmp(key, lines[n].key, Len(key))
           Hit(n) == comp(n) = 0 /\ Len(lines[n].key) = Len(key)
           ends == {n \in start .. Len(lines) : comp(n) < 0 \/ Hit(n)}
           last == CHOOSE n \in ends : \A m \in ends : n <= m
<1>1. ChckFullIndex(lines, key, start) =
        IF ends # {} /\ Hit(last) THEN lines[last].flags ELSE Missing
  BY DEF ChckFullIndex
<1>2. /\ N \in Nat /\ key \in Str
      /\ \A i \in 1 .. N : lines[i].key \in Keyed /\ lines[i].key \in Str
  BY LineKeys, KeyRanks
<1>3. \A i \in 1 .. N : /\ comp(i) < 0 => Below(key, lines[i].key)
                        /\ Hit(i) <=> Same(key, lines[i].key)
  BY <1>2, AgainstLine
<1>4. \A i \in 1 .. N : i < start \/ i \in start .. N
  BY <1>2
<1>5. ends \subseteq 1 .. N /\ ends \subseteq Nat
  BY <1>2
<1>6. \A i \in start .. N : i \notin ends => ~ Hit(i)
  OBVIOUS
<1>7. \A i \in ends : comp(i) < 0 \/ Hit(i)
  OBVIOUS
<1> HIDE DEF comp, Hit, ends
<1>8. CASE ends = {}
  <2>1. ChckFullIndex(lines, key, start) = Missing
    BY <1>1, <1>8
  <2>2. \A i \in 1 .. N : ~ Same(key, lines[i].key)
    BY <1>3, <1>4, <1>6, <1>8
  <2> QED BY <2>1, <2>2 DEF Answers
<1>9. CASE ends # {}
  <2>1. last \in ends /\ \A m \in ends : last <= m
    <3>1. \E n \in ends : \A m \in ends : n <= m
      BY <1>5, <1>9, Least
    <3> QED BY <3>1
  <2> HIDE DEF last
  <2>2. last \in 1 .. N
    BY <1>5, <2>1
  <2>3. CASE Hit(last)
    <3>1. ChckFullIndex(lines, key, start) = lines[last].flags
      BY <1>1, <1>9, <2>3
    <3>2. Same(key, lines[last].key)
      BY <1>3, <2>2, <2>3
    <3> QED BY <2>2, <3>1, <3>2 DEF Answers
  <2>4. CASE ~ Hit(last)
    <3>1. ChckFullIndex(lines, key, start) = Missing
      BY <1>1, <2>4
    <3>2. Below(key, lines[last].key)
      BY <1>3, <1>7, <2>1, <2>2, <2>4
    <3>3. \A i \in 1 .. N : i >= last => Below(key, lines[i].key)
      BY <1>2, <2>2, <3>2, AroundLine
    <3>4. \A i \in 1 .. N : i >= last => ~ Same(key, lines[i].key)
      BY <1>2, <3>3, Ordered
    <3>5. \A i \in 1 .. N : i < last => i \notin ends
      BY <1>2, <1>5, <2>1, <2>2
    <3>6. \A i \in 1 .. N : i < last => ~ Same(key, lines[i].key)
      BY <1>3, <1>4, <1>6, <3>5
    <3>7. \A i \in 1 .. N : i < last \/ i >= last
      BY <1>2, <2>2
    <3> QED BY <3>1, <3>4, <3>6, <3>7 DEF Answers
  <2> QED BY <2>3, <2>4
<1> QED BY <1>8, <1>9

RecordOf == [tag : Keyed, line : Nat]
CurKey(lines, n) == IF n = 0 THEN <<>> ELSE Prefix(lines[n].key, KeyLen)

\* After n lines there is a record, and the line of each is the first one
\* with its truncated key.
Indexes(lines, modulus, n, s) ==
  /\ s \in [nkeys : Nat, records : Seq(RecordOf)]
  /\ n = 0 => s.nkeys >= modulus
  /\ n # 0 => s.records # <<>>
  /\ \A r \in 1 .. Len(s.records) :
       /\ s.records[r].line \in 1 .. n
       /\ s.records[r].tag = CurKey(lines, s.records[r].line)
       /\ ~ Same(s.records[r].tag, CurKey(lines, s.records[r].line - 1))

\* A truncated key is a key; only before the first line there is none.
LEMMA Truncated ==
  ASSUME NEW lines, Ascending(lines), NEW n \in 0 .. Len(lines)
  PROVE  /\ CurKey(lines, n) \in Keyed /\ CurKey(lines, n) \in Str
         /\ n # 0 => CurKey(lines, n) # <<>>
         /\ n = 0 => CurKey(lines, n) = <<>>
<1>1. KeyLen \in Nat /\ KeyLen # 0
  BY StemIndexAssumption
<1>2. CASE n = 0
  <2>1. <<>> \in Keyed
    BY DEF Keyed
  <2> QED BY <1>2, <2>1, KeyRanks DEF CurKey
<1>3. CASE n # 0
  <2>1. n \in 1 .. Len(lines)
    BY <1>3
  <2>2. lines[n].key \in Keyed /\ lines[n].key # <<>> /\ lines[n].key \in Str
    BY <2>1, LineKeys
  <2>3. CurKey(lines, n) = Prefix(lines[n].key, KeyLen)
    BY <1>3 DEF CurKey
  <2> QED BY <1>1, <1>3, <2>2, <2>3, PrefixRanks
<1> QED BY <1>2, <1>3

\* A key is not the same as none.
LEMMA NotNone ==
  ASSUME NEW s \in Keyed, s # <<>>
  PROVE  ~ Same(s, <<>>)
<1>1. Rank(s, 1) # 0
  BY KeyRanks DEF Keyed, Place
<1>2. <<>> \in Str /\ Len(<<>>) = 0 /\ 1 \in Place
  BY DEF Str, Place
<1>3. Rank(<<>>, 1) = 0
  BY <1>2, Ranks
<1> QED BY <1>1, <1>2, <1>3 DEF Same

\* prockeyline writes a record for a line only if the one before has another
\* truncated key, and for the first line always.
LEMMA RecordedRight ==
  ASSUME NEW lines, Ascending(lines), NEW modulus \in Nat,
         NEW n \in 1 .. Len(lines), NEW s, Indexes(lines, modulus, n - 1, s)
  PROVE  Indexes(lines, modulus, n,
                 Recorded(s, modulus, n, CurKey(lines, n), CurKey(lines, n - 1)))
<1> DEFINE cur == CurKey(lines, n)
           prev == CurKey(lines, n - 1)
           after == Recorded(s, modulus, n, cur, prev)
           R == Len(s.records)
<1>1. /\ s \in [nkeys : Nat, records : Seq(RecordOf)]
      /\ s.nkeys \in Nat /\ s.records \in Seq(RecordOf) /\ R \in Nat
  BY DEF Indexes
<1>2. cur \in Keyed /\ cur \in Str /\ cur # <<>> /\ prev \in Str
  <2>1. n \in 0 .. Len(lines) /\ n - 1 \in 0 .. Len(lines) /\ n # 0
    BY LineKeys
  <2> QED BY <2>1, Truncated
<1>3. (morphstrcmp(cur, prev) # 0) <=> ~ Same(cur, prev)
  BY <1>2, Compared
<1>4. n = 1 => ~ Same(cur, prev)
  <2>1. n = 1 => prev = <<>>
    BY DEF CurKey
  <2> HIDE DEF cur, prev
  <2> QED BY <1>2, <2>1, NotNone
<1>5. \A r \in 1 .. R : /\ s.records[r].line \in 1 .. n
                        /\ s.records[r].tag = CurKey(lines, s.records[r].line)
                        /\ ~ Same(s.records[r].tag, CurKey(lines, s.records[r].line - 1))
  <2>1. \A i \in 1 .. n - 1 : i \in 1 .. n
    OBVIOUS
  <2> QED BY <2>1 DEF Indexes
<1>6. n = 1 => s.nkeys >= modulus
  BY DEF Indexes
<1>7. n # 1 => s.records # <<>>
  <2>1. n # 1 => n - 1 # 0
    OBVIOUS
  <2> QED BY <2>1 DEF Indexes
<1>8. CASE Due(s.nkeys + 1, modulus, cur, prev)
  <2>1. PICK rec : rec = [tag |-> cur, line |-> n]
    OBVIOUS
  <2>2. rec \in RecordOf /\ rec.tag = cur /\ rec.line = n
    BY <1>2, <2>1 DEF RecordOf
  <2>3. ~ Same(cur, prev)
    BY <1>3, <1>8 DEF Due
  <2>4. PICK more : more = Append(s.records, rec)
    OBVIOUS
  <2>5. /\ more \in Seq(RecordOf) /\ Len(more) = R + 1
        /\ \A r \in 1 .. R : more[r] = s.records[r]
        /\ more[R + 1] = rec
    BY <1>1, <2>2, <2>4
  <2>6. PICK t : t = [nkeys |-> 0, records |-> more]
    OBVIOUS
  <2>7. t \in [nkeys : Nat, records : Seq(RecordOf)] /\ t.records = more
    BY <2>5, <2>6
  <2>8. after = t
    BY <1>8, <2>1, <2>4, <2>6 DEF Recorded
  <2>9. ASSUME NEW r \in 1 .. R + 1
        PROVE  /\ more[r].line \in 1 .. n
               /\ more[r].tag = CurKey(lines, more[r].line)
               /\ ~ Same(more[r].tag, CurKey(lines, more[r].line - 1))
    <3>1. CASE r = R + 1
      BY <2>2, <2>3, <2>5, <3>1
    <3>2. CASE r # R + 1
      <4>1. r \in 1 .. R /\ more[r] = s.records[r]
        BY <1>1, <2>5, <3>2
      <4> QED BY <1>5, <4>1
    <3> QED BY <3>1, <3>2
  <2>10. more # <<>>
    BY <1>1, <2>5
  <2>11. Indexes(lines, modulus, n, t)
    BY <2>5, <2>7, <2>9, <2>10 DEF Indexes
  <2> QED BY <2>8, <2>11
<1>9. CASE ~ Due(s.nkeys + 1, modulus, cur, prev)
  <2>1. n # 1
    BY <1>1, <1>3, <1>4, <1>6, <1>9 DEF Due
  <2>2. PICK t : t = [s EXCEPT !.nkeys = s.nkeys + 1]
    OBVIOUS
  <2>3. t \in [nkeys : Nat, records : Seq(RecordOf)] /\ t.records = s.records
    BY <1>1, <2>2
  <2>4. after = t
    BY <1>9, <2>2 DEF Recorded
  <2>5. Indexes(lines, modulus, n, t)
    BY <1>5, <1>7, <2>1, <2>3 DEF Indexes
  <2> QED BY <2>4, <2>5
<1> QED BY <1>8, <1>9

\* So index_list has a record if there is a line, and each is the first of its
\* truncated key.
LEMMA IndexRight ==
  ASSUME NEW lines, Ascending(lines), NEW modulus \in Nat
  PROVE  /\ index_list(lines, modulus) \in Seq(RecordOf)
         /\ lines # <<>> => index_list(lines, modulus) # <<>>
         /\ \A r \in 1 .. Len(index_list(lines, modulus)) :
              LET record == index_list(lines, modulus)[r]
              IN /\ record.line \in 1 .. Len(lines)
                 /\ record.tag = CurKey(lines, record.line)
                 /\ ~ Same(record.tag, CurKey(lines, record.line - 1))
<1> DEFINE N == Len(lines)
           start == [nkeys |-> modulus + 1, records |-> <<>>]
           curkey(n) == IF n = 0 THEN <<>> ELSE Prefix(lines[n].key, KeyLen)
           M[n \in 0 .. Len(lines)] ==
             IF n = 0 THEN [nkeys |-> modulus + 1, records |-> <<>>]
             ELSE Recorded(M[n - 1], modulus, n, curkey(n), curkey(n - 1))
           Step(n, s) == Recorded(s, modulus, n, CurKey(lines, n), CurKey(lines, n - 1))
           Body(g) == [n \in 0 .. N |-> IF n = 0 THEN start ELSE Step(n, g[n - 1])]
           States == [nkeys : Nat, records : Seq(RecordOf)]
           Right == [n \in 0 .. N |-> {s \in States : Indexes(lines, modulus, n, s)}]
           F == [n \in 1 .. N |-> [s \in Right[n - 1] |-> Step(n, s)]]
<1>1. index_list(lines, modulus) = M[N].records
  BY DEF index_list
<1>2. M = CHOOSE g : g = Body(g)
  BY DEF CurKey
<1> HIDE DEF M
<1>3. N \in Nat
  BY LineKeys
<1>4. Indexes(lines, modulus, 0, start)
  <2>1. start \in States /\ start.nkeys = modulus + 1 /\ start.records = <<>>
        /\ Len(start.records) = 0
    OBVIOUS
  <2> HIDE DEF start
  <2> QED BY <1>3, <2>1 DEF Indexes
<1> HIDE DEF start
<1>5. ASSUME NEW n \in 1 .. N, NEW s, Indexes(lines, modulus, n - 1, s)
      PROVE  Indexes(lines, modulus, n, Step(n, s))
  BY <1>5, RecordedRight
<1> HIDE DEF Step
<1>6. \A n \in 0 .. N : \A s : s \in Right[n] <=> Indexes(lines, modulus, n, s)
  BY DEF Indexes
<1> HIDE DEF Right
<1>7. \A n \in 1 .. N : \A s \in Right[n - 1] : F[n][s] = Step(n, s) /\ F[n][s] \in Right[n]
  <2> SUFFICES ASSUME NEW n \in 1 .. N, NEW s \in Right[n - 1]
               PROVE  F[n][s] = Step(n, s) /\ F[n][s] \in Right[n]
    OBVIOUS
  <2>1. n - 1 \in 0 .. N /\ n \in 0 .. N
    BY <1>3
  <2>2. F[n][s] = Step(n, s)
    OBVIOUS
  <2> QED BY <1>5, <1>6, <2>1, <2>2
<1> HIDE DEF F
<1>8. PICK f : Turn(N, Right, F, start, f)
  <2>1. start \in Right[0]
    BY <1>3, <1>4, <1>6
  <2>2. Loop(N, Right, F, start)
    BY <1>3, <1>7, <2>1 DEF Loop
  <2> QED BY <2>2, Turns
<1>9. f = Body(f)
  <2>1. \A n \in 0 .. N : f[n] = IF n = 0 THEN start ELSE Step(n, f[n - 1])
    <3> SUFFICES ASSUME NEW n \in 1 .. N PROVE f[n] = Step(n, f[n - 1])
      <4>1. f[0] = start /\ \A n \in 0 .. N : n = 0 \/ n \in 1 .. N
        BY <1>3, <1>8 DEF Turn
      <4> QED BY <4>1
    <3>1. n - 1 \in 0 .. N
      BY <1>3
    <3>2. f[n - 1] \in Right[n - 1]
      BY <1>8, <3>1 DEF Turn
    <3> QED BY <1>7, <1>8, <3>2 DEF Turn
  <2> QED BY <1>8, <2>1 DEF Turn
<1>10. M = Body(M)
  <2> HIDE DEF Body
  <2> QED BY <1>2, <1>9
<1>11. \A n \in 0 .. N : M[n] = IF n = 0 THEN start ELSE Step(n, M[n - 1])
  <2>1. \A n \in 0 .. N : Body(M)[n] = IF n = 0 THEN start ELSE Step(n, M[n - 1])
    OBVIOUS
  <2> HIDE DEF Body
  <2> QED BY <1>10, <2>1, Zenon
<1> HIDE DEF Body
<1> DEFINE A == {n \in 0 .. N : Indexes(lines, modulus, n, M[n])}
<1>12. 0 \in A
  BY <1>3, <1>4, <1>11
<1>13. ASSUME NEW n \in 1 .. N, n - 1 \in A PROVE n \in A
  <2>1. M[n] = Step(n, M[n - 1]) /\ n \in 0 .. N
    BY <1>3, <1>11
  <2> QED BY <1>5, <1>13, <2>1
<1>14. Indexes(lines, modulus, N, M[N])
  <2>1. \A n \in 0 .. N : n \in A
    <3> HIDE DEF A
    <3> QED BY <1>3, <1>12, <1>13, Upward
  <2> QED BY <1>3, <2>1
<1>15. lines # <<>> => N # 0
  BY DEF Ascending
<1> QED BY <1>1, <1>14, <1>15 DEF Indexes

\* binlook never leaves a part that begins behind a record above the tag.
Narrow(records, tag, s) ==
  /\ s \in [low : Nat, high : Nat]
  /\ s.low <= Len(records) /\ s.high <= Len(records)
  /\ s.low # 0 => ~ Below(tag, records[s.low].tag)

\* A turn of binlook keeps that.
LEMMA NarrowedRight ==
  ASSUME NEW records \in Seq(RecordOf), NEW tag \in Str, NEW s, Narrow(records, tag, s)
  PROVE  Narrow(records, tag, Narrowed(s, records, tag))
<1>1. s \in [low : Nat, high : Nat] /\ s.low \in Nat /\ s.high \in Nat /\ Len(records) \in Nat
  BY DEF Narrow
<1>2. CASE s.low >= s.high
  <2>1. Narrowed(s, records, tag) = s
    BY <1>2 DEF Narrowed
  <2> QED BY <2>1
<1>3. CASE s.low < s.high
  <2>1. PICK mid : mid = s.low + (s.high - s.low) \div 2
    OBVIOUS
  <2>2. PICK comp : comp = morphstrcmp(tag, records[mid + 1].tag)
    OBVIOUS
  <2>3. Narrowed(s, records, tag) =
          IF comp < 0 THEN [s EXCEPT !.high = mid]
          ELSE IF comp > 0 THEN [s EXCEPT !.low = mid + 1]
          ELSE [low |-> mid + 1, high |-> mid + 1]
    <3>1. ~ (s.low >= s.high)
      BY <1>1, <1>3
    <3> QED BY <2>1, <2>2, <3>1, Zenon DEF Narrowed
  <2>4. mid \in Nat /\ s.low <= mid /\ mid < s.high
    BY <1>1, <1>3, <2>1
  <2>5. mid + 1 \in 1 .. Len(records) /\ mid + 1 # 0 /\ mid + 1 \in Nat
        /\ mid + 1 <= Len(records) /\ mid <= Len(records)
    BY <1>1, <2>4 DEF Narrow
  <2>6. records[mid + 1].tag \in Str
    <3>1. records[mid + 1] \in RecordOf
      BY <2>5
    <3> QED BY <3>1, KeyRanks DEF RecordOf
  <2>7. comp \in Int /\ (comp < 0 <=> Below(tag, records[mid + 1].tag))
    BY <2>2, <2>6, Compared
  <2>8. CASE comp < 0
    <3>1. PICK t : t = [s EXCEPT !.high = mid]
      OBVIOUS
    <3>2. t \in [low : Nat, high : Nat] /\ t.low = s.low /\ t.high = mid
      BY <1>1, <2>4, <3>1
    <3> QED BY <2>3, <2>5, <2>8, <3>1, <3>2 DEF Narrow
  <2>9. CASE comp > 0
    <3>1. PICK t : t = [s EXCEPT !.low = mid + 1]
      OBVIOUS
    <3>2. t \in [low : Nat, high : Nat] /\ t.low = mid + 1 /\ t.high = s.high
      BY <1>1, <2>4, <3>1
    <3>3. Narrowed(s, records, tag) = t /\ ~ (comp < 0)
      BY <2>3, <2>7, <2>9, <3>1
    <3> QED BY <2>5, <2>7, <3>2, <3>3 DEF Narrow
  <2>10. CASE comp = 0
    <3>1. PICK t : t = [low |-> mid + 1, high |-> mid + 1]
      OBVIOUS
    <3>2. t \in [low : Nat, high : Nat] /\ t.low = mid + 1 /\ t.high = mid + 1
      BY <2>4, <3>1
    <3>3. Narrowed(s, records, tag) = t /\ ~ (comp < 0)
      BY <2>3, <2>10, <3>1
    <3> QED BY <2>5, <2>7, <3>2, <3>3 DEF Narrow
  <2> QED BY <2>7, <2>8, <2>9, <2>10
<1> QED BY <1>1, <1>2, <1>3

\* So binlook gives the first record or one that is not above the tag.
LEMMA BinlookRight ==
  ASSUME NEW records \in Seq(RecordOf), NEW tag \in Str
  PROVE  /\ binlook(records, tag) \in Nat
         /\ binlook(records, tag) # 0 =>
              /\ binlook(records, tag) + 1 \in 1 .. Len(records)
              /\ ~ Below(tag, records[binlook(records, tag) + 1].tag)
<1> DEFINE N == Len(records)
           start == [low |-> 0, high |-> Len(records)]
           M[n \in 0 .. Len(records)] ==
             IF n = 0 THEN [low |-> 0, high |-> Len(records)]
             ELSE Narrowed(M[n - 1], records, tag)
           Body(g) == [n \in 0 .. N |-> IF n = 0 THEN start ELSE Narrowed(g[n - 1], records, tag)]
           States == {s \in [low : Nat, high : Nat] : Narrow(records, tag, s)}
           Right == [n \in 0 .. N |-> States]
           F == [n \in 1 .. N |-> [s \in Right[n - 1] |-> Narrowed(s, records, tag)]]
<1>1. binlook(records, tag) = IF M[N].low > 0 THEN M[N].low - 1 ELSE 0
  BY DEF binlook
<1>2. M = CHOOSE g : g = Body(g)
  OBVIOUS
<1> HIDE DEF M
<1>3. N \in Nat
  OBVIOUS
<1>4. Narrow(records, tag, start)
  <2>1. start \in [low : Nat, high : Nat] /\ start.low = 0 /\ start.high = N
    BY <1>3
  <2> HIDE DEF start
  <2> QED BY <1>3, <2>1 DEF Narrow
<1> HIDE DEF start
<1>5. \A n \in 0 .. N : \A s : s \in Right[n] <=> Narrow(records, tag, s)
  BY DEF Narrow
<1> HIDE DEF Right
<1>6. \A n \in 1 .. N : \A s \in Right[n - 1] :
        F[n][s] = Narrowed(s, records, tag) /\ F[n][s] \in Right[n]
  <2> SUFFICES ASSUME NEW n \in 1 .. N, NEW s \in Right[n - 1]
               PROVE  F[n][s] = Narrowed(s, records, tag) /\ F[n][s] \in Right[n]
    OBVIOUS
  <2>1. n - 1 \in 0 .. N /\ n \in 0 .. N
    BY <1>3
  <2>2. F[n][s] = Narrowed(s, records, tag)
    OBVIOUS
  <2> QED BY <1>5, <2>1, <2>2, NarrowedRight
<1> HIDE DEF F
<1>7. PICK f : Turn(N, Right, F, start, f)
  <2>1. start \in Right[0]
    BY <1>3, <1>4, <1>5
  <2>2. Loop(N, Right, F, start)
    BY <1>3, <1>6, <2>1 DEF Loop
  <2> QED BY <2>2, Turns
<1>8. f = Body(f)
  <2>1. \A n \in 0 .. N : f[n] = IF n = 0 THEN start ELSE Narrowed(f[n - 1], records, tag)
    <3> SUFFICES ASSUME NEW n \in 1 .. N PROVE f[n] = Narrowed(f[n - 1], records, tag)
      <4>1. f[0] = start /\ \A n \in 0 .. N : n = 0 \/ n \in 1 .. N
        BY <1>3, <1>7 DEF Turn
      <4> QED BY <4>1
    <3>1. n - 1 \in 0 .. N
      BY <1>3
    <3>2. f[n - 1] \in Right[n - 1]
      BY <1>7, <3>1 DEF Turn
    <3> QED BY <1>6, <1>7, <3>2 DEF Turn
  <2> QED BY <1>7, <2>1 DEF Turn
<1>9. M = Body(M)
  <2> HIDE DEF Body
  <2> QED BY <1>2, <1>8
<1>10. \A n \in 0 .. N : M[n] = IF n = 0 THEN start ELSE Narrowed(M[n - 1], records, tag)
  <2>1. \A n \in 0 .. N : Body(M)[n] = IF n = 0 THEN start ELSE Narrowed(M[n - 1], records, tag)
    OBVIOUS
  <2> HIDE DEF Body
  <2> QED BY <1>9, <2>1, Zenon
<1> HIDE DEF Body
<1> DEFINE A == {n \in 0 .. N : Narrow(records, tag, M[n])}
<1>11. 0 \in A
  BY <1>3, <1>4, <1>10
<1>12. ASSUME NEW n \in 1 .. N, n - 1 \in A PROVE n \in A
  <2>1. M[n] = Narrowed(M[n - 1], records, tag) /\ n \in 0 .. N
    BY <1>3, <1>10
  <2> QED BY <1>12, <2>1, NarrowedRight
<1>13. Narrow(records, tag, M[N])
  <2>1. \A n \in 0 .. N : n \in A
    <3> HIDE DEF A
    <3> QED BY <1>3, <1>11, <1>12, Upward
  <2> QED BY <1>3, <2>1
<1>14. PICK s : s = M[N]
  OBVIOUS
<1>15. s.low \in Nat /\ s.low <= N /\ (s.low # 0 => ~ Below(tag, records[s.low].tag))
  BY <1>13, <1>14 DEF Narrow
<1>16. PICK at : at = binlook(records, tag)
  OBVIOUS
<1>17. at = IF s.low > 0 THEN s.low - 1 ELSE 0
  BY <1>1, <1>14, <1>16
<1>18. at \in Nat /\ (at # 0 => at + 1 = s.low /\ s.low # 0 /\ s.low \in 1 .. N)
  BY <1>3, <1>15, <1>17
<1> QED BY <1>15, <1>16, <1>18

\* The scan never starts behind the line of the key.
LEMMA StartRight ==
  ASSUME NEW lines, Ascending(lines), NEW modulus \in Nat, NEW key \in Keyed,
         NEW records, records = index_list(lines, modulus)
  PROVE  /\ ChckPreIndex(records, key) \in Nat \ {0}
         /\ \A i \in 1 .. Len(lines) :
              i < ChckPreIndex(records, key) => ~ Same(key, lines[i].key)
<1> DEFINE N == Len(lines)
           T(n) == CurKey(lines, n)
<1>1. PICK tag : tag = Prefix(key, KeyLen)
  OBVIOUS
<1>2. KeyLen \in Nat /\ key \in Str /\ tag \in Str /\ N \in Nat
  BY <1>1, KeyRanks, PrefixRanks, LineKeys, StemIndexAssumption
<1>3. records \in Seq(RecordOf)
  BY IndexRight
<1>4. PICK at : at = binlook(records, tag)
  OBVIOUS
<1>5. /\ at \in Nat
      /\ at # 0 => at + 1 \in 1 .. Len(records) /\ ~ Below(tag, records[at + 1].tag)
  BY <1>2, <1>3, <1>4, BinlookRight
<1>6. ChckPreIndex(records, key) = IF at = 0 THEN 1 ELSE records[at + 1].line
  BY <1>1, <1>4 DEF ChckPreIndex
<1>7. CASE at = 0
  <2>1. ChckPreIndex(records, key) = 1
    BY <1>6, <1>7
  <2>2. \A i \in 1 .. N : ~ (i < 1)
    BY <1>2
  <2> QED BY <2>1, <2>2
<1>8. CASE at # 0
  <2>1. PICK m : m = records[at + 1].line
    OBVIOUS
  <2>2. /\ m \in 1 .. N /\ records[at + 1].tag = T(m)
        /\ ~ Same(T(m), T(m - 1))
    BY <1>5, <1>8, <2>1, IndexRight
  <2>3. ~ Below(tag, T(m))
    BY <1>5, <1>8, <2>2
  <2>4. ASSUME NEW i \in 1 .. N, i < m, Same(key, lines[i].key) PROVE FALSE
    <3> DEFINE k == m - 1
    <3>1. k \in 1 .. N /\ i <= k /\ k < m
      BY <1>2, <2>2, <2>4
    <3>2. /\ lines[i].key \in Str /\ lines[k].key \in Str /\ lines[m].key \in Str
      BY <2>2, <3>1, LineKeys
    <3>3. /\ T(i) = Prefix(lines[i].key, KeyLen) /\ T(k) = Prefix(lines[k].key, KeyLen)
          /\ T(m) = Prefix(lines[m].key, KeyLen)
      BY <1>2, <2>2, <3>1 DEF CurKey
    <3>4. T(i) \in Str /\ T(k) \in Str /\ T(m) \in Str
      BY <1>2, <3>2, <3>3, PrefixRanks
    <3>5. ~ Below(T(m), T(k))
      <4>1. Below(lines[k].key, lines[m].key)
        BY <2>2, <3>1 DEF Ascending
      <4> QED BY <1>2, <3>2, <3>3, <4>1, PrefixOrder
    <3>6. ~ Same(T(k), T(m))
      BY <2>2, <3>4, Ordered
    <3>7. Below(T(k), T(m))
      BY <3>4, <3>5, <3>6, Ordered
    <3>8. Same(T(i), T(k)) \/ Below(T(i), T(k))
      <4>1. CASE i = k
        BY <3>4, <4>1, Ordered
      <4>2. CASE i # k
        <5>1. i < k
          BY <1>2, <3>1, <4>2
        <5>2. Below(lines[i].key, lines[k].key)
          BY <3>1, <5>1 DEF Ascending
        <5>3. ~ Below(T(k), T(i))
          BY <1>2, <3>2, <3>3, <5>2, PrefixOrder
        <5> QED BY <3>4, <5>3, Ordered
      <4> QED BY <4>1, <4>2
    <3>9. Below(T(i), T(m))
      BY <3>4, <3>7, <3>8, OrderedBy
    <3>10. Same(tag, T(i))
      BY <1>1, <1>2, <2>4, <3>2, <3>3, PrefixOrder
    <3>11. Below(tag, T(m))
      BY <1>2, <3>4, <3>9, <3>10, OrderedBy
    <3> QED BY <2>3, <3>11
  <2>5. ChckPreIndex(records, key) = m /\ m \in Nat \ {0}
    BY <1>6, <1>8, <2>1, <2>2
  <2> QED BY <2>4, <2>5
<1> QED BY <1>7, <1>8

\* So a look-up through the index answers every key from its line.
LEMMA IndexAnswers ==
  ASSUME NEW lines, Ascending(lines), NEW modulus \in Nat, NEW key \in Keyed
  PROVE  Answers(lines, key, LookUpNominal(lines, index_list(lines, modulus), key))
<1>1. PICK records : records = index_list(lines, modulus)
  OBVIOUS
<1>2. CASE records = <<>>
  <2>1. lines = <<>>
    BY <1>1, <1>2, IndexRight
  <2>2. LookUpNominal(lines, records, key) = Missing
    BY <1>2 DEF LookUpNominal
  <2> QED BY <1>1, <2>1, <2>2 DEF Answers
<1>3. CASE records # <<>>
  <2>1. LookUpNominal(lines, records, key) =
          ChckFullIndex(lines, key, ChckPreIndex(records, key))
    BY <1>3 DEF LookUpNominal
  <2>2. /\ ChckPreIndex(records, key) \in Nat \ {0}
        /\ \A i \in 1 .. Len(lines) :
             i < ChckPreIndex(records, key) => ~ Same(key, lines[i].key)
    BY <1>1, StartRight
  <2>3. Answers(lines, key, ChckFullIndex(lines, key, ChckPreIndex(records, key)))
    BY <2>2, ScanAnswers
  <2> QED BY <1>1, <2>1, <2>3
<1> QED BY <1>2, <1>3

----------------------------------------------------------------------------
(* The dictionaries.                                                       *)

\* A list of entries in order.
Sorted == entries \in Seq(Listable) /\ InOrder(entries)

\* In such a list both searches find what they should.
LEMMA SortedFound == Sorted => FoundAsWritten
<1> SUFFICES ASSUME Sorted PROVE FoundAsWritten
  OBVIOUS
<1>1. PICK lines : lines = do_index(entries)
  OBVIOUS
<1>2. entries \in Seq(Listable) /\ Holds(entries, Len(entries), lines)
  BY <1>1, Indexed DEF Sorted
<1>3. Ascending(lines)
  BY <1>2 DEF Holds, Ascending
<1>4. ASSUME NEW key \in Probes
      PROVE  /\ checkendind(lines, key) \in Seq(Nat)
             /\ FlagsIn(checkendind(lines, key)) = FlagsOf(entries, key)
             /\ \A m \in Moduli :
                  FlagsIn(LookUpNominal(lines, index_list(lines, m), key))
                    = FlagsOf(entries, key)
  <2>1. key \in Keyed /\ \A m \in Moduli : m \in Nat
    BY StemIndexAssumption
  <2>2. /\ checkendind(lines, key) \in Seq(Nat)
        /\ FlagsIn(checkendind(lines, key)) = FlagsOf(entries, key)
    <3>1. Answers(lines, key, checkendind(lines, key))
      BY <1>3, <2>1, BisectionAnswers
    <3> QED BY <1>2, <2>1, <3>1, AnswersList
  <2>3. ASSUME NEW m \in Moduli
        PROVE  FlagsIn(LookUpNominal(lines, index_list(lines, m), key))
                 = FlagsOf(entries, key)
    <3>1. Answers(lines, key, LookUpNominal(lines, index_list(lines, m), key))
      BY <1>3, <2>1, IndexAnswers
    <3> QED BY <1>2, <2>1, <3>1, AnswersList
  <2> QED BY <2>2, <2>3
<1> QED BY <1>1, <1>4, Zenon DEF FoundAsWritten

\* Of any list of entries both searches find what was written under a key,
\* whatever the characters, the length of the truncated keys and how coarse
\* the index is.
THEOREM ListsFound == Lists => []FoundAsWritten
<1>1. entries = <<>> => Sorted
  <2>1. ASSUME entries = <<>> PROVE Sorted
    <3>1. <<>> \in Seq(Listable) /\ Len(<<>>) = 0
      OBVIOUS
    <3>2. \A i \in 1 .. 0 - 1 : FALSE
      OBVIOUS
    <3> QED BY <2>1, <3>1, <3>2 DEF Sorted, InOrder
  <2> QED BY <2>1
<1>2. Sorted /\ [AddEntry]_entries => Sorted'
  <2>1. CASE AddEntry
    BY <2>1 DEF Sorted, AddEntry
  <2>2. CASE UNCHANGED entries
    BY <2>2 DEF Sorted
  <2> QED BY <2>1, <2>2
<1> QED BY <1>1, <1>2, SortedFound, PTL DEF Lists

----------------------------------------------------------------------------
(* The accents of a word.                                                  *)

\* The words that are accented, and their parts: marks and the second vowels
\* of diphthongs stand behind what they belong to.
Letters == {"k", "a", "i", "w", HARDLONG, "+"}
Spelled(w) ==
  /\ w \in Seq(Letters)
  /\ \A i \in 1 .. Len(w) :
       /\ w[i] = "a" => i = 1 \/ At(w, i - 1) = "k"
       /\ w[i] = HARDLONG => At(w, i - 1) = "a"
       /\ w[i] = "+" => At(w, i - 1) = "i"
       /\ w[i] = "i" => At(w, i + 1) = "+" \/ At(w, i - 1) = "a"

\* The vowels of such a word, and those that are the second of a diphthong.
Second(w, p) == p \in 1 .. Len(w) /\ w[p] = "i" /\ At(w, p + 1) # "+"

LEMMA Spelling ==
  ASSUME NEW w, Spelled(w)
  PROVE  /\ Len(w) \in Nat
         /\ \A i \in 1 .. Len(w) : w[i] \in Letters /\ At(w, i) = w[i]
         /\ \A p : p \in Vowels(w) <=> p \in 1 .. Len(w) /\ w[p] \in {"a", "i", "w"}
         /\ \A p \in 1 .. Len(w) : is_diphth(p, w) <=> Second(w, p)
         /\ \A p : Second(w, p) => /\ p - 1 \in 1 .. Len(w) /\ w[p - 1] = "a"
                                   /\ p - 1 \in Nuclei(w) /\ p \notin Nuclei(w)
                                   /\ p \in Vowels(w)
         /\ \A p : p \in Nuclei(w) <=> p \in Vowels(w) /\ ~ Second(w, p)
<1>1. Len(w) \in Nat /\ \A i \in 1 .. Len(w) : w[i] \in Letters /\ At(w, i) = w[i]
  BY DEF Spelled, At
<1>2. \A p : p \in Vowels(w) <=> p \in 1 .. Len(w) /\ w[p] \in {"a", "i", "w"}
  <2> SUFFICES ASSUME NEW p \in 1 .. Len(w)
               PROVE  Is_vowel(w[p]) <=> w[p] \in {"a", "i", "w"}
    BY DEF Vowels
  <2> QED BY <1>1 DEF Letters, HARDLONG, Is_vowel, Is_lvwl, Is_shvwl
<1>3. ASSUME NEW p \in 1 .. Len(w), w[p] = "i", At(w, p + 1) # "+"
      PROVE  p - 1 \in 1 .. Len(w) /\ w[p - 1] = "a" /\ At(w, p - 1) = "a"
  <2>1. At(w, p - 1) = "a"
    BY <1>3 DEF Spelled
  <2> QED BY <1>1, <2>1 DEF At
<1>4. ASSUME NEW p \in 1 .. Len(w)
      PROVE  is_diphth(p, w) <=> Second(w, p)
  <2>1. w[p] \in Letters
    BY <1>1
  <2>2. CASE is_diphth(p, w)
    <3>1. w[p] = "i" /\ At(w, p + 1) # "+"
      BY <2>1, <2>2 DEF is_diphth, Letters, HARDLONG
    <3> QED BY <2>2, <3>1 DEF Second
  <2>3. CASE Second(w, p)
    BY <1>3, <2>3 DEF Second, is_diphth
  <2> QED BY <2>2, <2>3
<1>5. \A p : p \in Nuclei(w) <=> p \in Vowels(w) /\ ~ Second(w, p)
  BY <1>2, <1>4 DEF Nuclei
<1>6. ASSUME NEW p, Second(w, p)
      PROVE  /\ p - 1 \in 1 .. Len(w) /\ w[p - 1] = "a"
             /\ p - 1 \in Nuclei(w) /\ p \notin Nuclei(w) /\ p \in Vowels(w)
  <2>1. p - 1 \in 1 .. Len(w) /\ w[p - 1] = "a"
    BY <1>3, <1>6 DEF Second
  <2>2. p - 1 \in Vowels(w) /\ ~ Second(w, p - 1) /\ p \in Vowels(w)
    BY <1>2, <1>6, <2>1 DEF Second
  <2> QED BY <1>5, <1>6, <2>1, <2>2
<1> QED BY <1>1, <1>2, <1>4, <1>5, <1>6

\* Counting the syllables behind a position.
LEMMA Counting ==
  ASSUME NEW w, Spelled(w)
  PROVE  /\ nsylls(w) \in Nat
         /\ \A p \in Int : After(w, p) \in 0 .. nsylls(w)
         /\ \A p, q \in Int : p <= q => After(w, q) <= After(w, p)
         /\ \A p, q \in Int : \A n \in Nuclei(w) :
              p < n /\ n <= q => After(w, q) < After(w, p)
         /\ \A p, q \in Int : (\A n \in Nuclei(w) : n > p <=> n > q)
              => After(w, p) = After(w, q)
         /\ \A p \in Int : \A n \in Nuclei(w) : n <= p => After(w, p) < nsylls(w)
         /\ \A p \in Int : (\A n \in Nuclei(w) : n > p) => After(w, p) = nsylls(w)
         /\ \A p \in Int : (\A n \in Nuclei(w) : n <= p) => After(w, p) = 0
         /\ \A p \in Int : \A n \in Nuclei(w) :
              p < n /\ (\A m \in Nuclei(w) : p < m => n <= m)
              => After(w, p) = After(w, n) + 1
<1> DEFINE B(p) == {q \in Nuclei(w) : q > p}
<1>1. Nuclei(w) \subseteq 1 .. Len(w) /\ Len(w) \in Nat
  BY Spelling DEF Nuclei, Vowels
<1>2. IsFiniteSet(Nuclei(w))
  <2>1. IsFiniteSet(1 .. Len(w))
    BY <1>1, FS_Interval
  <2> HIDE DEF B
  <2> QED BY <1>1, <2>1, FS_Subset
<1>3. nsylls(w) \in Nat /\ nsylls(w) = Cardinality(Nuclei(w))
  BY <1>2, FS_CardinalityType DEF nsylls
<1>4. \A p : B(p) \subseteq Nuclei(w) /\ After(w, p) = Cardinality(B(p))
  BY DEF After
<1>5. \A p : IsFiniteSet(B(p)) /\ After(w, p) \in Nat /\ After(w, p) <= nsylls(w)
  <2> SUFFICES ASSUME NEW p PROVE IsFiniteSet(B(p)) /\ After(w, p) \in Nat /\ After(w, p) <= nsylls(w)
    OBVIOUS
  <2> HIDE DEF B
  <2> QED BY <1>2, <1>3, <1>4, FS_Subset, FS_CardinalityType
<1>6. \A p, q \in Int : p <= q => B(q) \subseteq B(p)
  BY <1>1
<1>7. \A p, q \in Int : \A n \in Nuclei(w) :
         p < n /\ n <= q => n \in B(p) /\ n \notin B(q) /\ B(q) \subseteq B(p)
  BY <1>1
<1>8. \A p, q \in Int : (\A n \in Nuclei(w) : n > p <=> n > q) => B(p) = B(q)
  BY <1>1
<1>9. \A p \in Int : \A n \in Nuclei(w) : n <= p => n \notin B(p)
  BY <1>1
<1>10. \A p \in Int : (\A n \in Nuclei(w) : n > p) => B(p) = Nuclei(w)
  OBVIOUS
<1>17. \A p \in Int : (\A n \in Nuclei(w) : n <= p) => B(p) = {}
  BY <1>1
<1>18. \A p \in Int : \A n \in Nuclei(w) :
          p < n /\ (\A m \in Nuclei(w) : p < m => n <= m)
          => B(p) = B(n) \cup {n} /\ n \notin B(n)
  BY <1>1
<1> HIDE DEF B
<1>11. ASSUME NEW S, NEW T, S \subseteq T, IsFiniteSet(T)
       PROVE  /\ Cardinality(S) \in Nat /\ Cardinality(T) \in Nat
              /\ Cardinality(S) <= Cardinality(T)
              /\ \A x \in T : x \notin S => Cardinality(S) < Cardinality(T)
  <2>1. IsFiniteSet(S) /\ Cardinality(S) <= Cardinality(T)
        /\ (Cardinality(S) = Cardinality(T) => S = T)
    BY <1>11, FS_Subset
  <2>2. Cardinality(S) \in Nat /\ Cardinality(T) \in Nat
    BY <1>11, <2>1, FS_CardinalityType
  <2> QED BY <2>1, <2>2
<1>12. \A p, q \in Int : p <= q => After(w, q) <= After(w, p)
  BY <1>4, <1>5, <1>6, <1>11
<1>13. \A p, q \in Int : \A n \in Nuclei(w) :
          p < n /\ n <= q => After(w, q) < After(w, p)
  BY <1>4, <1>5, <1>7, <1>11
<1>14. \A p, q \in Int : (\A n \in Nuclei(w) : n > p <=> n > q)
          => After(w, p) = After(w, q)
  BY <1>4, <1>8
<1>15. \A p \in Int : \A n \in Nuclei(w) : n <= p => After(w, p) < nsylls(w)
  BY <1>2, <1>3, <1>4, <1>9, <1>11
<1>16. \A p \in Int : (\A n \in Nuclei(w) : n > p) => After(w, p) = nsylls(w)
  BY <1>3, <1>4, <1>10
<1>19. \A p \in Int : (\A n \in Nuclei(w) : n <= p) => After(w, p) = 0
  BY <1>4, <1>17, FS_EmptySet
<1>20. ASSUME NEW p \in Int, NEW n \in Nuclei(w), p < n,
              \A m \in Nuclei(w) : p < m => n <= m
       PROVE  After(w, p) = After(w, n) + 1
  <2>1. B(p) = B(n) \cup {n} /\ n \notin B(n)
    BY <1>18, <1>20
  <2> QED BY <1>4, <1>5, <2>1, FS_AddElement
<1> QED BY <1>3, <1>5, <1>12, <1>13, <1>14, <1>15, <1>16, <1>19, <1>20

\* A set of numbers with a bound has a greatest one.
LEMMA Greatest ==
  ASSUME NEW N \in Nat, NEW T, T \subseteq 0 .. N, T # {}
  PROVE  \E x \in T : \A y \in T : y <= x
<1> DEFINE U == {N - x : x \in T}
<1>1. U \subseteq Nat /\ U # {}
  <2>1. \A x \in T : N - x \in Nat
    OBVIOUS
  <2>2. PICK t \in T : TRUE
    OBVIOUS
  <2>3. N - t \in U
    OBVIOUS
  <2> QED BY <2>1, <2>3
<1>2. PICK u \in U : \A y \in U : u <= y
  <2> HIDE DEF U
  <2> QED BY <1>1, Least
<1>3. PICK x \in T : u = N - x
  BY <1>2
<1>4. ASSUME NEW y \in T PROVE y <= x
  <2>1. N - y \in U
    OBVIOUS
  <2>2. N - x <= N - y
    <3> HIDE DEF U
    <3> QED BY <1>2, <1>3, <2>1
  <2> QED BY <1>3, <2>2
<1> QED BY <1>4

\* There is a syllable at each distance from the end.
LEMMA Syllables ==
  ASSUME NEW w, Spelled(w)
  PROVE  \A s \in 0 .. nsylls(w) - 1 : \E n \in Nuclei(w) : After(w, n) = s
<1> SUFFICES ASSUME 0 < nsylls(w)
             PROVE  \A s \in 0 .. nsylls(w) - 1 : \E n \in Nuclei(w) : After(w, n) = s
  BY Counting
<1>1. Nuclei(w) \subseteq 0 .. Len(w) /\ Len(w) \in Nat /\ nsylls(w) - 1 \in Nat
  BY Spelling, Counting DEF Nuclei, Vowels
<1> DEFINE A == {s \in Nat : \E n \in Nuclei(w) : After(w, n) = s}
<1>2. 0 \in A
  <2>1. Nuclei(w) # {}
    <3> SUFFICES ASSUME Nuclei(w) = {} PROVE FALSE
      OBVIOUS
    <3>1. After(w, 0) = 0 /\ After(w, 0) = nsylls(w)
      BY Counting
    <3> QED BY <3>1
  <2>2. PICK n \in Nuclei(w) : \A m \in Nuclei(w) : m <= n
    BY <1>1, <2>1, Greatest
  <2>3. After(w, n) = 0
    BY <1>1, <2>2, Counting
  <2> QED BY <2>3
<1>3. ASSUME NEW s \in 1 .. nsylls(w) - 1, s - 1 \in A PROVE s \in A
  <2>1. PICK n \in Nuclei(w) : After(w, n) = s - 1
    BY <1>3
  <2> DEFINE T == {m \in Nuclei(w) : m < n}
  <2>2. T # {}
    <3> SUFFICES ASSUME T = {} PROVE FALSE
      OBVIOUS
    <3>1. n - 1 \in Int /\ \A m \in Nuclei(w) : n - 1 < m /\ n <= m
      BY <1>1
    <3>2. After(w, n - 1) = nsylls(w) /\ After(w, n - 1) = After(w, n) + 1
      BY <3>1, Counting
    <3> QED BY <1>1, <2>1, <3>2
  <2>3. T \subseteq 0 .. Len(w)
    BY <1>1
  <2>4. PICK m \in T : \A y \in T : y <= m
    <3> HIDE DEF T
    <3> QED BY <1>1, <2>2, <2>3, Greatest
  <2>5. m \in Int /\ m < n /\ \A k \in Nuclei(w) : m < k => n <= k
    BY <1>1, <2>4
  <2>6. After(w, m) = After(w, n) + 1
    BY <2>5, Counting
  <2> QED BY <1>1, <2>1, <2>4, <2>6
<1>4. \A s \in 0 .. nsylls(w) - 1 : s \in A
  <2> HIDE DEF A
  <2> QED BY <1>1, <1>2, <1>3, Upward
<1> QED BY <1>4

\* The vowel that getsyll finds: the last one of its syllable.
Heard(w, s, p) == p \in Vowels(w) /\ After(w, p) = s /\ ~ Second(w, p + 1)

LEMMA Hearing ==
  ASSUME NEW w, Spelled(w), NEW s \in Nat
  PROVE  /\ s < nsylls(w) => Heard(w, s, getsyll(w, s))
         /\ s >= nsylls(w) => getsyll(w, s) = P_ERR
         /\ \A p : Heard(w, s, p) => p = getsyll(w, s) /\ s < nsylls(w)
<1> DEFINE T == {p \in Vowels(w) : After(w, p) = s} \cup {P_ERR}
<1>1. Vowels(w) \subseteq 1 .. Len(w) /\ Nuclei(w) \subseteq Vowels(w) /\ Len(w) \in Nat
  BY Spelling DEF Vowels, Nuclei
<1>2. nsylls(w) \in Nat /\ \A p \in Int : After(w, p) \in Nat
  BY Counting
<1>3. ASSUME NEW p \in Vowels(w) PROVE After(w, p) < nsylls(w)
  <2>1. \E n \in Nuclei(w) : n <= p
    BY <1>1, Spelling
  <2> QED BY <1>1, <2>1, Counting
<1>4. ASSUME NEW p, Heard(w, s, p), NEW q \in Vowels(w), After(w, q) = s PROVE q <= p
  <2>1. p \in Int /\ q \in Int /\ After(w, p) = s
    BY <1>1, <1>4 DEF Heard
  <2> SUFFICES ASSUME p < q PROVE FALSE
    BY <2>1
  <2>2. CASE q \in Nuclei(w)
    <3>1. After(w, q) < After(w, p)
      BY <2>1, <2>2, Counting
    <3> QED BY <1>2, <1>4, <2>1, <3>1
  <2>3. CASE q \notin Nuclei(w)
    <3>1. Second(w, q) /\ q - 1 \in Nuclei(w)
      BY <2>3, Spelling
    <3>2. q # p + 1
      BY <1>4, <3>1 DEF Heard
    <3>3. p < q - 1 /\ q - 1 <= q
      BY <1>1, <2>1, <3>1, <3>2
    <3>4. After(w, q) < After(w, p)
      BY <2>1, <3>1, <3>3, Counting
    <3> QED BY <1>2, <1>4, <2>1, <3>4
  <2> QED BY <2>2, <2>3
<1>5. getsyll(w, s) = Max(T)
  BY DEF getsyll
<1>6. ASSUME NEW p, Heard(w, s, p) PROVE p = getsyll(w, s) /\ s < nsylls(w)
  <2>1. p \in T /\ p \in Nat /\ T \subseteq Nat /\ \A q \in T : q <= p
    BY <1>1, <1>4, <1>6 DEF Heard, P_ERR
  <2>2. Max(T) = p
    <3> HIDE DEF T
    <3>1. \A x \in T : (\A y \in T : x >= y) <=> x = p
      BY <2>1
    <3> QED BY <2>1, <3>1 DEF Max
  <2> QED BY <1>3, <1>5, <1>6, <2>2 DEF Heard
<1>7. ASSUME s < nsylls(w) PROVE Heard(w, s, getsyll(w, s))
  <2>1. PICK n \in Nuclei(w) : After(w, n) = s
    BY <1>2, <1>7, Syllables
  <2>2. n \in Vowels(w) /\ n \in Int
    BY <1>1
  <2>3. CASE ~ Second(w, n + 1)
    <3>1. Heard(w, s, n)
      BY <2>1, <2>2, <2>3 DEF Heard
    <3> QED BY <1>6, <3>1
  <2>4. CASE Second(w, n + 1)
    <3>1. n + 1 \in Vowels(w) /\ n + 1 \notin Nuclei(w) /\ w[n + 1] = "i"
      BY <2>4, Spelling DEF Second
    <3>2. \A m \in Nuclei(w) : m > n <=> m > n + 1
      BY <1>1, <2>2, <3>1
    <3>3. After(w, n + 1) = s
      BY <2>1, <2>2, <3>2, Counting
    <3>4. ~ Second(w, n + 2)
      <4> SUFFICES ASSUME Second(w, n + 2) PROVE FALSE
        OBVIOUS
      <4>1. w[n + 2 - 1] = "a" /\ n + 2 - 1 = n + 1
        BY <2>2, Spelling
      <4> QED BY <3>1, <4>1
    <3>5. Heard(w, s, n + 1)
      BY <2>2, <3>1, <3>3, <3>4 DEF Heard
    <3> QED BY <1>6, <3>5
  <2> QED BY <2>3, <2>4
<1>8. ASSUME s >= nsylls(w) PROVE getsyll(w, s) = P_ERR
  <2>1. \A p \in Vowels(w) : After(w, p) # s
    BY <1>1, <1>2, <1>3, <1>8
  <2>2. T = {0}
    BY <2>1 DEF P_ERR
  <2>3. Max(T) = 0
    <3> HIDE DEF T
    <3> QED BY <2>2 DEF Max
  <2> QED BY <1>5, <2>3 DEF P_ERR
<1> QED BY <1>6, <1>7, <1>8

\* Whether a syllable is long, where final -ai may count as short.
LongAt(w, s, final_short) ==
  /\ s < nsylls(w)
  /\ \/ w[getsyll(w, s)] = "w"
     \/ At(w, getsyll(w, s) + 1) = HARDLONG
     \/ /\ Second(w, getsyll(w, s))
        /\ ~ (final_short /\ getsyll(w, s) = Len(w))

\* A vowel is long by a mark behind it, by its letter or by the other vowel
\* of its diphthong.
LEMMA Measures ==
  ASSUME NEW w, Spelled(w), NEW p \in Vowels(w), NEW final_short \in BOOLEAN
  PROVE  Measured(w, p, final_short) =
           IF \/ w[p] = "w" \/ At(w, p + 1) = HARDLONG
              \/ Second(w, p) /\ ~ (final_short /\ p = Len(w))
           THEN LONG ELSE SHORT
<1> DEFINE marks == {s \in p .. Len(w) :
                       Is_quant(w[s]) /\ \A t \in p .. s : ~ Is_cons(w[t])}
           final == \/ p = Len(w)
                    \/ p + 1 = Len(w) /\ Is_accent(w[p + 1])
<1>1. /\ p \in 1 .. Len(w) /\ Len(w) \in Nat /\ w[p] \in {"a", "i", "w"} /\ p # P_ERR
      /\ \A i \in 1 .. Len(w) : w[i] \in Letters /\ At(w, i) = w[i]
  BY Spelling DEF P_ERR
<1>2. \A i \in 1 .. Len(w) : /\ Is_quant(w[i]) <=> w[i] = HARDLONG
                             /\ Is_cons(w[i]) <=> w[i] = "k"
                             /\ w[i] # "|" /\ ~ Is_breath(w[i]) /\ ~ Is_accent(w[i])
                             /\ Is_lvwl(w[i]) <=> w[i] = "w"
  BY <1>1 DEF Is_quant, Is_cons, Is_vowel, Is_lvwl, Is_shvwl, Is_breath, Is_accent,
              ACUTE, CIRCUMFLEX, HARDLONG, HARDSHORT, Letters
<1>11. ~ Is_cons(w[p]) /\ ~ Is_quant(w[p]) /\ w[p] # HARDLONG
  BY <1>1 DEF Is_quant, Is_cons, Is_vowel, Is_lvwl, Is_shvwl, HARDLONG, HARDSHORT
<1>3. \A i \in Int : At(w, i) # "|" /\ ~ Is_breath(At(w, i))
  BY <1>1, <1>2 DEF At, Is_breath
<1>4. ~ long_by_isub(w, p)
  BY <1>1, <1>3 DEF long_by_isub
<1>5. final <=> p = Len(w)
  BY <1>1, <1>2
<1>6. Measured(w, p, final_short) =
        IF marks # {} THEN IF w[Min(marks)] = HARDLONG THEN LONG ELSE SHORT
        ELSE IF w[p] = "w" THEN LONG
        ELSE IF is_diphth(p, w)
             THEN IF final_short /\ p = Len(w) /\ w[p] = "i" /\ w[p - 1] \in {"a", "o"}
                  THEN SHORT ELSE LONG
        ELSE SHORT
  BY <1>1, <1>2, <1>4, <1>5, Zenon DEF Measured
<1>7. ASSUME At(w, p + 1) = HARDLONG
      PROVE  marks # {} /\ w[Min(marks)] = HARDLONG
  <2>1. p + 1 \in 1 .. Len(w) /\ w[p + 1] = HARDLONG
    BY <1>1, <1>7 DEF At, HARDLONG
  <2>2. \A t \in p .. p + 1 : ~ Is_cons(w[t])
    <3>1. ~ Is_cons(w[p + 1])
      BY <1>2, <2>1 DEF HARDLONG
    <3>2. \A t \in p .. p + 1 : t = p \/ t = p + 1
      BY <1>1
    <3> QED BY <1>11, <3>1, <3>2
  <2>3. p + 1 \in marks
    BY <1>1, <1>2, <2>1, <2>2
  <2>4. \A s \in marks : p + 1 <= s /\ s \in Int
    <3> SUFFICES ASSUME NEW s \in p .. Len(w), Is_quant(w[s])
                 PROVE  p + 1 <= s /\ s \in Int
      OBVIOUS
    <3>1. s # p
      BY <1>11
    <3> QED BY <1>1, <3>1
  <2>5. Min(marks) = p + 1
    <3> HIDE DEF marks
    <3>1. \A x \in marks : (\A y \in marks : x <= y) <=> x = p + 1
      BY <1>1, <2>3, <2>4
    <3> QED BY <2>3, <3>1 DEF Min
  <2> QED BY <2>1, <2>3, <2>5
<1>8. ASSUME At(w, p + 1) # HARDLONG
      PROVE  marks = {}
  <2> SUFFICES ASSUME NEW s \in p .. Len(w), w[s] = HARDLONG,
                      \A t \in p .. s : ~ Is_cons(w[t])
               PROVE  FALSE
    BY <1>1, <1>2
  <2>1. s # p /\ s # p + 1
    <3>1. s # p
      BY <1>11
    <3>2. s \in 1 .. Len(w) /\ At(w, s) = HARDLONG
      BY <1>1
    <3> QED BY <1>8, <3>1, <3>2
  <2>2. s - 1 \in 1 .. Len(w) /\ s - 2 \in p .. s /\ s - 2 \in 1 .. Len(w)
        /\ s - 1 # 1 /\ (s - 1) - 1 = s - 2
    BY <1>1, <2>1
  <2>3. w[s - 1] = "a"
    <3>1. At(w, s - 1) = "a"
      BY <1>1 DEF Spelled
    <3> QED BY <1>1, <2>2, <3>1
  <2>4. w[s - 2] = "k"
    <3>1. At(w, (s - 1) - 1) = "k"
      BY <2>2, <2>3 DEF Spelled
    <3> QED BY <1>1, <2>2, <3>1
  <2> QED BY <1>2, <2>2, <2>4
<1>9. is_diphth(p, w) <=> Second(w, p)
  BY <1>1, Spelling
<1>10. Second(w, p) => w[p] = "i" /\ w[p - 1] = "a"
  BY Spelling DEF Second
<1> HIDE DEF marks
<1> QED BY <1>6, <1>7, <1>8, <1>9, <1>10

LEMMA TwoLetters ==
  ASSUME NEW t \in Seq(Letters), Len(t) = 2, NEW a, NEW b, t[1] = a, t[2] = b
  PROVE  t = <<a, b>>
OBVIOUS

LEMMA Quantities ==
  ASSUME NEW w, Spelled(w), NEW s \in Nat
  PROVE  /\ \A end, oblique \in BOOLEAN :
              /\ quantprim(w, s, end, oblique) =
                   IF LongAt(w, s, end /\ ~ oblique) THEN LONG
                   ELSE IF s < nsylls(w) THEN SHORT ELSE I_ERR
              /\ getquantity(w, s, end, oblique) = quantprim(w, s, end, oblique)
         /\ \A oblique \in BOOLEAN : IsLong(w, s, oblique) <=> LongAt(w, s, ~ oblique)
<1> DEFINE p == getsyll(w, s)
<1>1. CASE s >= nsylls(w)
  <2>1. p = P_ERR /\ ~ (s < nsylls(w))
    BY <1>1, Hearing, Counting
  <2> HIDE DEF p
  <2>2. \A end, oblique \in BOOLEAN : quantprim(w, s, end, oblique) = I_ERR
    BY <2>1 DEF quantprim, Measured, p
  <2> QED BY <2>1, <2>2 DEF LongAt, getquantity, IsLong, p
<1>2. CASE s < nsylls(w)
  <2>1. p \in Vowels(w) /\ p \in 1 .. Len(w) /\ Len(w) \in Nat /\ p # P_ERR
        /\ w[p] \in {"a", "i", "w"}
    BY <1>2, Hearing, Spelling DEF Heard, P_ERR
  <2> HIDE DEF p
  <2>2. \A f \in BOOLEAN : Measured(w, p, f) = IF LongAt(w, s, f) THEN LONG ELSE SHORT
    BY <1>2, <2>1, Measures DEF LongAt, p
  <2>3. \A end, oblique \in BOOLEAN :
           quantprim(w, s, end, oblique) =
             IF LongAt(w, s, end /\ ~ oblique) THEN LONG ELSE SHORT
    BY <2>2 DEF quantprim, p
  <2>4. Is_quant(At(w, p + 1)) <=> At(w, p + 1) = HARDLONG
    <3>1. p + 1 \in 1 .. Len(w) => At(w, p + 1) \in Letters
      BY <2>1, Spelling
    <3>2. p + 1 \notin 1 .. Len(w) => At(w, p + 1) = ""
      BY DEF At
    <3> QED BY <3>1, <3>2 DEF Letters, Is_quant, HARDLONG, HARDSHORT
  <2>5. At(w, p + 1) = HARDLONG => \A f \in BOOLEAN : LongAt(w, s, f)
    BY <1>2 DEF LongAt, p
  <2>6. \A end, oblique \in BOOLEAN :
           getquantity(w, s, end, oblique) = quantprim(w, s, end, oblique)
    BY <2>1, <2>3, <2>4, <2>5 DEF getquantity, p
  <2>7. ASSUME NEW oblique \in BOOLEAN
        PROVE  IsLong(w, s, oblique) <=> LongAt(w, s, ~ oblique)
    <3>1. At(w, p + 1) # "|"
      <4>1. p + 1 \in 1 .. Len(w) => At(w, p + 1) \in Letters
        BY <2>1, Spelling
      <4> QED BY <4>1 DEF At, Letters, HARDLONG
    <3>2. ASSUME Second(w, p)
          PROVE  SubSeq(w, p - 1, Len(w)) \in {<<"a", "i">>, <<"o", "i">>}
                 <=> p = Len(w)
      <4> DEFINE t == SubSeq(w, p - 1, Len(w))
      <4>1. p - 1 \in 1 .. Len(w) /\ w[p - 1] = "a" /\ w[p] = "i" /\ w \in Seq(Letters)
        BY <3>2, Spelling DEF Second, Spelled
      <4>2. Len(t) = Len(w) - p + 2 /\ t[1] = "a" /\ t[2] = "i" /\ t \in Seq(Letters)
        BY <2>1, <4>1
      <4> HIDE DEF t
      <4>3. CASE p = Len(w)
        <5>1. Len(t) = 2
          BY <2>1, <4>2, <4>3
        <5>2. t = <<"a", "i">>
          BY <4>2, <5>1, TwoLetters
        <5> QED BY <4>3, <5>2 DEF t
      <4>4. CASE p # Len(w)
        <5>1. Len(t) # 2
          BY <2>1, <4>2, <4>4
        <5>2. t # <<"a", "i">> /\ t # <<"o", "i">>
          BY <5>1
        <5> QED BY <4>4, <5>2 DEF t
      <4> QED BY <4>3, <4>4
    <3>3. is_diphth(p, w) <=> Second(w, p)
      BY <2>1, Spelling
    <3>4. IsLong(w, s, oblique) <=>
            \/ w[p] = "w" \/ At(w, p + 1) = HARDLONG
            \/ Second(w, p) /\ (oblique \/ p # Len(w))
      BY <2>1, <3>1, <3>2, <3>3 DEF IsLong, p, HARDLONG
    <3> QED BY <1>2, <3>4 DEF LongAt, p
  <2> QED BY <1>2, <2>3, <2>6, <2>7
<1> QED BY <1>1, <1>2, Counting

\* As many numbers after all of them have moved.
LEMMA Shifted ==
  ASSUME NEW S, NEW T, S \subseteq Int, T \subseteq Int, IsFiniteSet(S),
         NEW d \in Int, \A x \in Int : x \in S <=> x + d \in T
  PROVE  IsFiniteSet(T) /\ Cardinality(T) = Cardinality(S)
<1> DEFINE f == [x \in S |-> x + d]
<1>1. f \in [S -> T] /\ \A x \in S : f[x] = x + d
  OBVIOUS
<1>2. \A x, y \in S : f[x] = f[y] => x = y
  OBVIOUS
<1>3. ASSUME NEW y \in T PROVE \E x \in S : f[x] = y
  <2>1. y - d \in S /\ (y - d) + d = y
    OBVIOUS
  <2> QED BY <1>1, <2>1
<1> HIDE DEF f
<1>4. IsInjective(f)
  BY <1>1, <1>2 DEF IsInjective
<1>5. f \in Bijection(S, T)
  BY <1>1, <1>3, <1>4 DEF Bijection, Injection, Surjection
<1> QED BY <1>5, FS_Bijection DEF ExistsBijection

\* What is in a sequence made of two.
LEMMA Joining ==
  ASSUME NEW C, NEW s \in Seq(C), NEW t \in Seq(C)
  PROVE  /\ s \o t \in Seq(C) /\ Len(s \o t) = Len(s) + Len(t)
         /\ \A i \in 1 .. Len(s) : (s \o t)[i] = s[i]
         /\ \A i \in 1 .. Len(t) : (s \o t)[Len(s) + i] = t[i]
OBVIOUS

\* Where an accent for a vowel goes, and whether it takes the place of a mark.
AccentAt(w, p, accent) ==
  IF At(w, p + 1) = HARDLONG /\ accent # CIRCUMFLEX THEN p + 2 ELSE p + 1
Added(w, p, accent) ==
  IF At(w, p + 1) = HARDLONG /\ accent = CIRCUMFLEX THEN 0 ELSE 1

\* r is w with an accent at a position, put in (d = 1) or written over a mark.
Written(r, w, at, d, accent) ==
  /\ r \in Seq(Letters \cup {ACUTE, CIRCUMFLEX})
  /\ d \in {0, 1} /\ Len(r) = Len(w) + d
  /\ at \in 1 .. Len(r) /\ r[at] = accent
  /\ \A i \in 1 .. at - 1 : i <= Len(w) /\ r[i] = w[i]
  /\ \A i \in at + 1 - d .. Len(w) : r[i + d] = w[i]
  /\ d = 0 => w[at] = HARDLONG

LEMMA Writing ==
  ASSUME NEW w, Spelled(w), NEW p \in Vowels(w), NEW accent \in {ACUTE, CIRCUMFLEX}
  PROVE  Written(addaccent(w, accent, p), w, AccentAt(w, p, accent),
                 Added(w, p, accent), accent)
<1> DEFINE Q == {i \in p + 1 .. Len(w) + 1 :
                   ~ (Is_breath(At(w, i)) \/ Is_quant(At(w, i)))}
           q == IF At(w, p + 1) = HARDLONG THEN p + 2 ELSE p + 1
<1>1. /\ p \in 1 .. Len(w) /\ Len(w) \in Nat /\ p # P_ERR /\ w \in Seq(Letters)
      /\ w[p] \in {"a", "i", "w"}
      /\ \A i \in 1 .. Len(w) : w[i] \in Letters /\ At(w, i) = w[i]
  BY Spelling DEF P_ERR, Spelled
<1>2. \A i \in Int : /\ ~ Is_breath(At(w, i))
                     /\ Is_quant(At(w, i)) <=> At(w, i) = HARDLONG
                     /\ At(w, i) = HARDLONG => i \in 1 .. Len(w) /\ w[i] = HARDLONG
  BY <1>1 DEF At, Is_breath, Is_quant, HARDLONG, HARDSHORT, Letters
<1>3. ASSUME At(w, p + 1) = HARDLONG PROVE p + 1 <= Len(w) /\ At(w, p + 2) # HARDLONG
  <2>1. p + 1 \in 1 .. Len(w)
    BY <1>1, <1>2, <1>3
  <2>2. ASSUME At(w, p + 2) = HARDLONG PROVE FALSE
    <3>1. p + 2 \in 1 .. Len(w) /\ w[p + 2] = HARDLONG /\ (p + 2) - 1 = p + 1
      BY <1>1, <1>2, <2>2
    <3>2. At(w, (p + 2) - 1) = "a"
      BY <3>1 DEF Spelled
    <3> QED BY <1>3, <3>1, <3>2 DEF HARDLONG
  <2> QED BY <1>1, <2>1, <2>2
<1>4. q \in Q /\ q \in 1 .. Len(w) + 1 /\ \A i \in Q : q <= i /\ i \in Int
  BY <1>1, <1>2, <1>3
<1>5. Min(Q) = q
  <2> HIDE DEF Q, q
  <2>1. \A x \in Q : (\A y \in Q : x <= y) <=> x = q
    BY <1>4
  <2> QED BY <1>4, <2>1 DEF Min
<1> DEFINE r == addaccent(w, accent, p)
<1>6. r = IF accent = CIRCUMFLEX /\ w[q - 1] = HARDLONG
          THEN ReplaceAt(w, q - 1, accent) ELSE InsertAt(w, q, accent)
  <2> HIDE DEF q
  <2> QED BY <1>1, <1>5 DEF addaccent
<1>7. w[q - 1] = HARDLONG <=> At(w, p + 1) = HARDLONG
  <2>1. w[p] # HARDLONG
    BY <1>1 DEF HARDLONG
  <2> QED BY <1>1, <1>2, <2>1
<1>8. CASE At(w, p + 1) = HARDLONG /\ accent = CIRCUMFLEX
  <2>1. q - 1 = p + 1 /\ p + 1 \in 1 .. Len(w) /\ w[p + 1] = HARDLONG
    BY <1>1, <1>2, <1>8
  <2>2. r = [w EXCEPT ![p + 1] = accent]
    <3> HIDE DEF q, r
    <3> QED BY <1>6, <1>7, <1>8, <2>1 DEF ReplaceAt
  <2>3. AccentAt(w, p, accent) = p + 1 /\ Added(w, p, accent) = 0
    BY <1>8 DEF AccentAt, Added
  <2> HIDE DEF r, q
  <2>4. r \in Seq(Letters \cup {ACUTE, CIRCUMFLEX}) /\ Len(r) = Len(w)
        /\ r[p + 1] = accent
        /\ \A i \in 1 .. Len(w) : i # p + 1 => r[i] = w[i]
    BY <1>1, <2>1, <2>2
  <2> HIDE DEF r
  <2>5. Written(r, w, p + 1, 0, accent)
    BY <1>1, <2>1, <2>4 DEF Written
  <2> QED BY <2>3, <2>5 DEF r
<1>9. CASE ~ (At(w, p + 1) = HARDLONG /\ accent = CIRCUMFLEX)
  <2>1. r = SubSeq(w, 1, q - 1) \o <<accent>> \o SubSeq(w, q, Len(w))
    <3> HIDE DEF q, r
    <3> QED BY <1>6, <1>7, <1>9 DEF InsertAt
  <2>2. AccentAt(w, p, accent) = q /\ Added(w, p, accent) = 1
    BY <1>9 DEF AccentAt, Added
  <2> HIDE DEF r, q
  <2> DEFINE C == Letters \cup {ACUTE, CIRCUMFLEX}
             a == SubSeq(w, 1, q - 1)
             b == SubSeq(w, q, Len(w))
  <2>3. w \in Seq(C) /\ accent \in C /\ q \in 1 .. Len(w) + 1
    BY <1>1, <1>4
  <2> HIDE DEF C
  <2>4. /\ a \in Seq(C) /\ Len(a) = q - 1 /\ \A i \in 1 .. q - 1 : a[i] = w[i]
        /\ b \in Seq(C) /\ Len(b) = Len(w) + 1 - q
        /\ \A i \in 1 .. Len(w) + 1 - q : b[i] = w[q + i - 1]
    BY <1>1, <2>3
  <2> HIDE DEF a, b
  <2>5. /\ <<accent>> \in Seq(C) /\ Len(<<accent>>) = 1 /\ <<accent>>[1] = accent
    BY <2>3
  <2> DEFINE c == a \o <<accent>>
  <2>10. r = c \o b
    BY <2>1 DEF a, b
  <2>11. c \in Seq(C) /\ Len(c) = q /\ c[q] = accent /\ \A i \in 1 .. q - 1 : c[i] = w[i]
    <3> HIDE DEF c
    <3>1. /\ c \in Seq(C) /\ Len(c) = (q - 1) + 1
          /\ \A i \in 1 .. q - 1 : c[i] = a[i]
          /\ c[(q - 1) + 1] = accent
      <4>1. 1 \in 1 .. 1
        OBVIOUS
      <4> QED BY <2>4, <2>5, <4>1, Joining DEF c
    <3> QED BY <2>3, <2>4, <3>1
  <2> HIDE DEF c
  <2>12. /\ r \in Seq(C) /\ Len(r) = Len(c) + Len(b)
         /\ \A i \in 1 .. Len(c) : r[i] = c[i]
         /\ \A i \in 1 .. Len(b) : r[Len(c) + i] = b[i]
    <3>1. b \in Seq(C) /\ c \in Seq(C)
      BY <2>4, <2>11
    <3>2. /\ c \o b \in Seq(C) /\ Len(c \o b) = Len(c) + Len(b)
          /\ \A i \in 1 .. Len(c) : (c \o b)[i] = c[i]
          /\ \A i \in 1 .. Len(b) : (c \o b)[Len(c) + i] = b[i]
      BY <3>1, Joining
    <3> QED BY <2>10, <3>2, Zenon
  <2>6. r \in Seq(C) /\ Len(r) = Len(w) + 1
    BY <1>1, <2>3, <2>4, <2>11, <2>12
  <2>7. r[q] = accent /\ (\A i \in 1 .. q - 1 : r[i] = w[i])
    BY <1>1, <2>3, <2>4, <2>11, <2>12
  <2>8. \A i \in q .. Len(w) : r[i + 1] = w[i]
    <3> SUFFICES ASSUME NEW i \in q .. Len(w) PROVE r[i + 1] = w[i]
      OBVIOUS
    <3>1. i + 1 - q \in 1 .. Len(b) /\ b[i + 1 - q] = w[i]
      BY <1>1, <2>3, <2>4
    <3>2. q + (i + 1 - q) = i + 1
      BY <1>1, <2>3
    <3> QED BY <2>11, <2>12, <3>1, <3>2
  <2>9. Written(r, w, q, 1, accent)
    BY <1>1, <2>3, <2>6, <2>7, <2>8 DEF Written, C
  <2> QED BY <2>2, <2>9 DEF r
<1> QED BY <1>8, <1>9

\* Whether a vowel is the second of a diphthong depends on its neighbours.
LEMMA Diphthongs ==
  ASSUME NEW w, NEW r, NEW i, NEW j, r[j] = w[i], At(r, j + 1) = At(w, i + 1)
  PROVE  /\ At(r, j - 1) = At(w, i - 1) => (is_diphth(j, r) <=> is_diphth(i, w))
         /\ At(r, j - 1) \in {ACUTE, CIRCUMFLEX} => ~ is_diphth(j, r)
<1>1. \A a, b, c, d : <<a, b>> = <<c, d>> <=> a = c /\ b = d
  OBVIOUS
<1> QED BY <1>1 DEF is_diphth, ACUTE, CIRCUMFLEX

\* The accent is the only one, and in the syllable it was put in.
LEMMA Placing ==
  ASSUME NEW w, Spelled(w), NEW s \in Nat, s < nsylls(w),
         NEW accent \in {ACUTE, CIRCUMFLEX}
  PROVE  LET r == addaccent(w, accent, getsyll(w, s))
             at == AccentAt(w, getsyll(w, s), accent)
             d == Added(w, getsyll(w, s), accent)
         IN  /\ Written(r, w, at, d, accent)
             /\ Accents(r) = {at} /\ hasaccent(r)
             /\ After(r, at) = s
<1> DEFINE p == getsyll(w, s)
           r == addaccent(w, accent, p)
           at == AccentAt(w, p, accent)
           d == Added(w, p, accent)
<1>1. p \in Vowels(w) /\ p \in 1 .. Len(w) /\ ~ Second(w, p + 1) /\ After(w, p) = s
  BY Hearing, Spelling DEF Heard
<1>2. Len(w) \in Nat /\ \A i \in 1 .. Len(w) : w[i] \in Letters /\ At(w, i) = w[i]
  BY Spelling
<1>3. Written(r, w, at, d, accent)
  BY <1>1, Writing
<1>4. /\ d \in {0, 1} /\ at \in p + 1 .. p + 2
      /\ at = p + 2 => At(w, p + 1) = HARDLONG /\ d = 1
      /\ d = 0 => At(w, p + 1) = HARDLONG /\ at = p + 1
  <2> HIDE DEF p
  <2> QED BY <1>1, <1>2 DEF AccentAt, Added
<1> HIDE DEF p, r, at, d
<1>5. /\ r \in Seq(Letters \cup {ACUTE, CIRCUMFLEX}) /\ Len(r) = Len(w) + d
      /\ at \in 1 .. Len(r) /\ r[at] = accent /\ Is_accent(accent)
      /\ \A i \in 1 .. at - 1 : i <= Len(w) /\ r[i] = w[i]
      /\ \A i \in at + 1 - d .. Len(w) : r[i + d] = w[i]
  BY <1>3 DEF Written, Is_accent
<1>11. p \in Int /\ at \in Int /\ d \in Int
  BY <1>1, <1>2, <1>4
<1>6. \A c \in Letters : ~ Is_accent(c)
  BY DEF Letters, HARDLONG, Is_accent, ACUTE, CIRCUMFLEX
<1>7. Accents(r) = {at}
  <2>1. ASSUME NEW j \in 1 .. Len(r), j # at PROVE ~ Is_accent(r[j])
    <3>1. CASE j < at
      <4>1. j \in 1 .. Len(w) /\ r[j] = w[j]
        BY <1>2, <1>4, <1>5, <3>1
      <4> QED BY <1>2, <1>6, <4>1
    <3>2. CASE j > at
      <4>1. j - d \in 1 .. Len(w) /\ j - d \in at + 1 - d .. Len(w) /\ (j - d) + d = j
        BY <1>2, <1>4, <1>5, <3>2
      <4>2. r[j] = w[j - d]
        BY <1>5, <4>1
      <4> QED BY <1>2, <1>6, <4>1, <4>2
    <3> QED BY <1>4, <2>1, <3>1, <3>2
  <2> QED BY <1>5, <2>1 DEF Accents
<1>8. hasaccent(r)
  BY <1>5 DEF hasaccent
<1>9. ASSUME NEW i \in at + 1 - d .. Len(w), NEW j \in Int, j = i + d
      PROVE  j \in Nuclei(r) <=> i \in Nuclei(w)
  <2>1. /\ i \in 1 .. Len(w) /\ j \in 1 .. Len(r) /\ j > at /\ i > p
        /\ r[j] = w[i] /\ i \in Int
    BY <1>1, <1>2, <1>4, <1>5, <1>9
  <2>2. At(r, j + 1) = At(w, i + 1)
    <3>1. CASE i = Len(w)
      <4>1. i + 1 \notin 1 .. Len(w) /\ j + 1 \notin 1 .. Len(r)
        BY <1>2, <1>5, <1>9, <1>11, <3>1
      <4> QED BY <4>1 DEF At
    <3>2. CASE i # Len(w)
      <4>1. i + 1 \in at + 1 - d .. Len(w) /\ i + 1 \in 1 .. Len(w)
            /\ j + 1 \in 1 .. Len(r) /\ (i + 1) + d = j + 1
        BY <1>2, <1>5, <1>9, <1>11, <2>1, <3>2
      <4> QED BY <1>5, <4>1 DEF At
    <3> QED BY <3>1, <3>2
  <2>3. \/ At(r, j - 1) = At(w, i - 1)
        \/ ~ is_diphth(j, r) /\ ~ is_diphth(i, w)
    <3>1. CASE j - 1 > at
      <4>1. i - 1 \in at + 1 - d .. Len(w) /\ i - 1 \in 1 .. Len(w)
            /\ j - 1 \in 1 .. Len(r) /\ (i - 1) + d = j - 1
        BY <1>1, <1>2, <1>5, <1>9, <1>11, <2>1, <3>1
      <4> QED BY <1>5, <4>1 DEF At
    <3>2. CASE j - 1 = at
      <4>1. At(r, j - 1) \in {ACUTE, CIRCUMFLEX}
        BY <1>5, <3>2 DEF At
      <4>2. ~ is_diphth(j, r)
        BY <2>1, <2>2, <4>1, Diphthongs
      <4>3. ~ Second(w, i)
        <5>1. CASE i = p + 1
          BY <1>1, <5>1
        <5>2. CASE i = p + 2
          <6>1. At(w, p + 1) = HARDLONG
            BY <1>4, <1>9, <1>11, <2>1, <3>2, <5>2
          <6>2. At(w, i - 1) = HARDLONG /\ i - 1 \in 1 .. Len(w)
            <7>1. i - 1 = p + 1
              BY <1>11, <5>2
            <7>2. p + 1 \in 1 .. Len(w)
              BY <6>1 DEF At, HARDLONG
            <7> QED BY <6>1, <7>1, <7>2
          <6>3. w[i - 1] = HARDLONG
            BY <1>2, <6>2
          <6> QED BY <6>3, Spelling DEF HARDLONG
        <5>3. i = p + 1 \/ i = p + 2
          BY <1>4, <1>9, <1>11, <2>1, <3>2
        <5> QED BY <5>1, <5>2, <5>3
      <4> QED BY <2>1, <4>2, <4>3, Spelling
    <3>3. j - 1 > at \/ j - 1 = at
      BY <1>11, <2>1
    <3> QED BY <3>1, <3>2, <3>3
  <2>4. is_diphth(j, r) <=> is_diphth(i, w)
    BY <2>1, <2>2, <2>3, Diphthongs
  <2> QED BY <2>1, <2>4 DEF Nuclei, Vowels
<1>10. After(r, at) = s
  <2> DEFINE S == {q \in Nuclei(w) : q > p}
             T == {q \in Nuclei(r) : q > at}
  <2>1. S \subseteq 1 .. Len(w) /\ T \subseteq 1 .. Len(r)
    BY DEF Nuclei, Vowels
  <2>2. Len(r) \in Nat /\ d \in Int
    BY <1>2, <1>4, <1>5
  <2>3. ASSUME NEW x \in Int PROVE x \in S <=> x + d \in T
    <3>1. ASSUME x \in S PROVE x \in at + 1 - d .. Len(w)
      <4>1. x \in 1 .. Len(w) /\ x > p /\ w[x] \in {"a", "i", "w"}
        BY <2>1, <3>1, Spelling
      <4>2. At(w, p + 1) = HARDLONG => x # p + 1
        BY <1>2, <4>1 DEF HARDLONG
      <4> QED BY <1>1, <1>2, <1>4, <4>1, <4>2
    <3>2. ASSUME x + d \in T PROVE x \in at + 1 - d .. Len(w)
      BY <1>2, <1>4, <1>5, <2>1, <3>2
    <3>3. x \in at + 1 - d .. Len(w) => x > p /\ x + d > at
      BY <1>1, <1>2, <1>4
    <3>4. x + d \in Int
      BY <1>11
    <3> QED BY <1>9, <3>1, <3>2, <3>3, <3>4
  <2>4. IsFiniteSet(1 .. Len(w))
    BY <1>2, FS_Interval
  <2> DEFINE CS == Cardinality(S)
             CT == Cardinality(T)
  <2>5. After(w, p) = CS /\ After(r, at) = CT
    BY DEF After
  <2> HIDE DEF S, T
  <2>6. IsFiniteSet(S) /\ S \subseteq Int /\ T \subseteq Int
    <3>1. IsFiniteSet(S)
      BY <2>1, <2>4, FS_Subset
    <3> QED BY <1>2, <2>1, <2>2, <3>1
  <2>7. CT = CS
    BY <2>2, <2>3, <2>6, Shifted
  <2> QED BY <1>1, <2>5, <2>7
<1> QED BY <1>3, <1>7, <1>8, <1>10 DEF p, r, at, d

\* What Unaccented computes, one character after another.
LEMMA Stripping ==
  ASSUME NEW C, NEW w \in Seq(C)
  PROVE  \E f : /\ f = [n \in 0 .. Len(w) |-> f[n]]
                /\ f[0] = <<>>
                /\ \A n \in 1 .. Len(w) :
                     f[n] = IF Is_accent(w[n]) \/ Is_quant(w[n]) THEN f[n - 1]
                            ELSE Append(f[n - 1], w[n])
                /\ Unaccented(w) = f[Len(w)]
<1> DEFINE N == Len(w)
           Kept(l, n) == IF Is_accent(w[n]) \/ Is_quant(w[n]) THEN l ELSE Append(l, w[n])
           M[n \in 0 .. Len(w)] ==
             IF n = 0 THEN <<>>
             ELSE IF Is_accent(w[n]) \/ Is_quant(w[n]) THEN M[n - 1]
             ELSE Append(M[n - 1], w[n])
           Body(g) == [n \in 0 .. Len(w) |->
                         IF n = 0 THEN <<>>
                         ELSE IF Is_accent(w[n]) \/ Is_quant(w[n]) THEN g[n - 1]
                         ELSE Append(g[n - 1], w[n])]
           Right == [n \in 0 .. N |-> Seq(C)]
           F == [n \in 1 .. N |-> [l \in Seq(C) |-> Kept(l, n)]]
<1>1. Unaccented(w) = M[N]
  BY DEF Unaccented
<1>2. M = CHOOSE g : g = Body(g)
  OBVIOUS
<1> HIDE DEF M
<1>3. N \in Nat /\ <<>> \in Seq(C)
  OBVIOUS
<1>4. \A n \in 0 .. N : Right[n] = Seq(C)
  OBVIOUS
<1>5. \A n \in 1 .. N : \A l \in Seq(C) : F[n][l] = Kept(l, n) /\ F[n][l] \in Seq(C)
  OBVIOUS
<1> HIDE DEF F, Right
<1>6. PICK f : Turn(N, Right, F, <<>>, f)
  <2>1. \A n \in 1 .. N : n - 1 \in 0 .. N /\ n \in 0 .. N
    BY <1>3
  <2>2. Loop(N, Right, F, <<>>)
    <3>1. Right[0] = Seq(C) /\ \A n \in 1 .. N : Right[n - 1] = Seq(C) /\ Right[n] = Seq(C)
      BY <1>3, <1>4, <2>1
    <3> HIDE DEF N, Kept
    <3> QED BY <1>3, <1>5, <3>1 DEF Loop
  <2> QED BY <2>2, Turns
<1>7. /\ f = [n \in 0 .. N |-> f[n]] /\ f[0] = <<>>
      /\ \A n \in 1 .. N : f[n] = Kept(f[n - 1], n)
  <2>1. \A n \in 1 .. N : n - 1 \in 0 .. N
    BY <1>3
  <2> HIDE DEF Kept
  <2> QED BY <1>4, <1>5, <1>6, <2>1 DEF Turn
<1>8. f = Body(f)
  <2>1. \A n \in 0 .. N : f[n] = IF n = 0 THEN <<>> ELSE Kept(f[n - 1], n)
    <3>1. \A n \in 0 .. N : n = 0 \/ n \in 1 .. N
      BY <1>3
    <3>2. \A n \in 1 .. N : n # 0
      BY <1>3
    <3> HIDE DEF Kept
    <3> QED BY <1>7, <3>1, <3>2
  <2> QED BY <1>7, <2>1
<1>9. M = Body(M)
  <2> HIDE DEF Body
  <2> QED BY <1>2, <1>8
<1>10. /\ M = [n \in 0 .. N |-> M[n]] /\ M[0] = <<>>
       /\ \A n \in 1 .. N : M[n] = Kept(M[n - 1], n)
  <2>1. \A g : g = Body(g) => g = [n \in 0 .. N |-> g[n]] /\ g[0] = <<>>
    BY <1>3
  <2>2. \A g : g = Body(g) => \A n \in 1 .. N : g[n] = Kept(g[n - 1], n)
    <3> SUFFICES ASSUME NEW g, g = Body(g), NEW n \in 1 .. N
                 PROVE  g[n] = Kept(g[n - 1], n)
      OBVIOUS
    <3>1. n \in 0 .. N /\ n # 0
      BY <1>3
    <3>2. Body(g)[n] = Kept(g[n - 1], n)
      BY <3>1
    <3> HIDE DEF Body, Kept
    <3> QED BY <3>2
  <2> HIDE DEF Body, Kept
  <2> QED BY <1>9, <2>1, <2>2
<1> QED BY <1>1, <1>10

\* It does not see an accent.
LEMMA Stripped ==
  ASSUME NEW w, Spelled(w), NEW r, NEW at, NEW d, NEW accent \in {ACUTE, CIRCUMFLEX},
         Written(r, w, at, d, accent)
  PROVE  Unaccented(r) = Unaccented(w)
<1> DEFINE Mark(c) == Is_accent(c) \/ Is_quant(c)
<1>1. /\ w \in Seq(Letters) /\ r \in Seq(Letters \cup {ACUTE, CIRCUMFLEX})
      /\ Len(w) \in Nat /\ d \in {0, 1} /\ Len(r) = Len(w) + d
      /\ at \in 1 .. Len(r) /\ r[at] = accent
      /\ \A i \in 1 .. at - 1 : i <= Len(w) /\ r[i] = w[i]
      /\ \A i \in at + 1 - d .. Len(w) : r[i + d] = w[i]
      /\ d = 0 => w[at] = HARDLONG
  BY DEF Written, Spelled
<1>2. PICK f : /\ f[0] = <<>>
               /\ \A n \in 1 .. Len(w) :
                    f[n] = IF Mark(w[n]) THEN f[n - 1] ELSE Append(f[n - 1], w[n])
               /\ Unaccented(w) = f[Len(w)]
  BY <1>1, Stripping
<1>3. PICK g : /\ g[0] = <<>>
               /\ \A n \in 1 .. Len(r) :
                    g[n] = IF Mark(r[n]) THEN g[n - 1] ELSE Append(g[n - 1], r[n])
               /\ Unaccented(r) = g[Len(r)]
  BY <1>1, Stripping
<1>4. Mark(accent) /\ Mark(HARDLONG)
  BY DEF Is_accent, Is_quant
<1> HIDE DEF Mark
<1> DEFINE A == {n \in 0 .. at - 1 : g[n] = f[n]}
<1>5. \A n \in 0 .. at - 1 : n \in A
  <2>1. 0 \in A /\ at - 1 \in Nat
    BY <1>1, <1>2, <1>3
  <2>2. ASSUME NEW n \in 1 .. at - 1, n - 1 \in A PROVE n \in A
    <3>1. n \in 1 .. Len(w) /\ n \in 1 .. Len(r) /\ r[n] = w[n] /\ g[n - 1] = f[n - 1]
      BY <1>1, <2>2
    <3> QED BY <1>2, <1>3, <3>1
  <2> HIDE DEF A
  <2> QED BY <2>1, <2>2, Upward
<1>6. g[at - 1] = f[at - 1] /\ g[at] = g[at - 1]
  <2>1. at - 1 \in A
    <3> HIDE DEF A
    <3> QED BY <1>1, <1>5
  <2> QED BY <1>1, <1>3, <1>4, <2>1
<1>7. at - d \in 0 .. Len(w) /\ g[at - d + d] = f[at - d]
  BY <1>1, <1>2, <1>4, <1>6
<1> DEFINE M == Len(w) - (at - d)
           B == {n \in 0 .. M : g[at + n] = f[at - d + n]}
<1>8. \A n \in 0 .. M : n \in B
  <2>1. 0 \in B /\ M \in Nat
    BY <1>1, <1>7
  <2>2. ASSUME NEW n \in 1 .. M, n - 1 \in B PROVE n \in B
    <3>1. /\ at - d + n \in 1 .. Len(w) /\ at + n \in 1 .. Len(r)
          /\ at - d + n \in at + 1 - d .. Len(w) /\ (at - d + n) + d = at + n
          /\ (at - d + n) - 1 = at - d + (n - 1) /\ (at + n) - 1 = at + (n - 1)
      BY <1>1, <2>1
    <3>2. r[at + n] = w[at - d + n] /\ g[at + (n - 1)] = f[at - d + (n - 1)]
      BY <1>1, <2>2, <3>1
    <3> HIDE DEF M
    <3>3. g[at + n] = f[at - d + n]
      <4> DEFINE i == at - d + n
                 j == at + n
      <4>1. i \in 1 .. Len(w) /\ j \in 1 .. Len(r)
        BY <3>1
      <4>2. r[j] = w[i] /\ g[j - 1] = f[i - 1]
        BY <3>1, <3>2, Zenon
      <4> HIDE DEF i, j
      <4>3. g[j] = f[i]
        BY <1>2, <1>3, <4>1, <4>2
      <4> QED BY <4>3 DEF i, j
    <3> QED BY <2>2, <3>3
  <2> HIDE DEF B, M
  <2> QED BY <2>1, <2>2, Upward
<1>9. M \in B
  <2>1. M \in 0 .. M
    BY <1>1, <1>7
  <2> HIDE DEF B, M
  <2> QED BY <1>8, <2>1
<1>10. at + M = Len(r) /\ at - d + M = Len(w)
  BY <1>1
<1> QED BY <1>2, <1>3, <1>9, <1>10

\* Only the last syllable is at the end.
LEMMA NotFinal ==
  ASSUME NEW w, Spelled(w), NEW s \in Nat, s # 0
  PROVE  LongAt(w, s, TRUE) <=> LongAt(w, s, FALSE)
<1> SUFFICES ASSUME s < nsylls(w) PROVE getsyll(w, s) # Len(w)
  BY DEF LongAt
<1>1. getsyll(w, s) \in Vowels(w) /\ After(w, getsyll(w, s)) = s
  BY Hearing DEF Heard
<1>2. ASSUME getsyll(w, s) = Len(w) PROVE After(w, getsyll(w, s)) = 0
  <2>1. Len(w) \in Int /\ \A n \in Nuclei(w) : n <= Len(w)
    BY Spelling DEF Nuclei, Vowels
  <2> QED BY <1>2, <2>1, Counting
<1> QED BY <1>1, <1>2

\* Where an accent may be, and which.
Suits(w, s, accent, final_short) ==
  /\ s \in ULTIMA .. ANTEPENULT /\ s < nsylls(w)
  /\ accent \in {ACUTE, CIRCUMFLEX}
  /\ s = ANTEPENULT => accent = ACUTE /\ ~ LongAt(w, ULTIMA, final_short)
  /\ s = PENULT /\ LongAt(w, PENULT, TRUE) =>
       (accent = CIRCUMFLEX <=> ~ LongAt(w, ULTIMA, final_short))
  /\ accent = CIRCUMFLEX => LongAt(w, s, final_short)

LEMMA SuitsLawful ==
  ASSUME NEW w, Spelled(w), NEW s, NEW accent, NEW oblique \in BOOLEAN,
         NEW final_short \in BOOLEAN, final_short <=> ~ oblique,
         Suits(w, s, accent, final_short)
  PROVE  Lawful(addaccent(w, accent, getsyll(w, s)), w, oblique)
<1> DEFINE r == addaccent(w, accent, getsyll(w, s))
           at == AccentAt(w, getsyll(w, s), accent)
           d == Added(w, getsyll(w, s), accent)
<1>1. s \in Nat /\ s < nsylls(w) /\ accent \in {ACUTE, CIRCUMFLEX}
      /\ s \in ULTIMA .. ANTEPENULT
  BY DEF Suits, ULTIMA, ANTEPENULT
<1>2. Written(r, w, at, d, accent) /\ Accents(r) = {at} /\ After(r, at) = s
  BY <1>1, Placing
<1> HIDE DEF r, at, d
<1>3. Unaccented(r) = Unaccented(w)
  BY <1>1, <1>2, Stripped
<1>4. at \in 1 .. Len(r) /\ r[at] = accent
  BY <1>2 DEF Written
<1>5. \A o \in BOOLEAN : /\ IsLong(w, ULTIMA, o) <=> LongAt(w, ULTIMA, ~ o)
                         /\ IsLong(w, PENULT, o) <=> LongAt(w, PENULT, ~ o)
                         /\ IsLong(w, s, o) <=> LongAt(w, s, ~ o)
  <2>1. ULTIMA \in Nat /\ PENULT \in Nat
    BY DEF ULTIMA, PENULT
  <2> QED BY <1>1, <2>1, Quantities
<1>6. IsLong(w, PENULT, FALSE) <=> LongAt(w, PENULT, TRUE)
  BY <1>5
<1>9. \A n : LongAt(w, n, ~ oblique) <=> LongAt(w, n, final_short)
  <2>1. (~ oblique) = final_short
    OBVIOUS
  <2> QED BY <2>1, Zenon
<1>7. /\ s = ANTEPENULT => accent = ACUTE /\ ~ IsLong(w, ULTIMA, oblique)
      /\ s = PENULT /\ IsLong(w, PENULT, FALSE) =>
           (accent = CIRCUMFLEX <=> ~ IsLong(w, ULTIMA, oblique))
      /\ accent = CIRCUMFLEX => IsLong(w, s, oblique)
  BY <1>5, <1>6, <1>9, Zenon DEF Suits
<1>8. Lawful(r, w, oblique)
  <2>1. \E a \in 1 .. Len(r) :
          /\ Accents(r) = {a}
          /\ After(r, a) \in ULTIMA .. ANTEPENULT
          /\ After(r, a) = ANTEPENULT => r[a] = ACUTE /\ ~ IsLong(w, ULTIMA, oblique)
          /\ After(r, a) = PENULT /\ IsLong(w, PENULT, FALSE) =>
               (r[a] = CIRCUMFLEX <=> ~ IsLong(w, ULTIMA, oblique))
          /\ r[a] = CIRCUMFLEX => IsLong(w, After(r, a), oblique)
    BY <1>1, <1>2, <1>4, <1>7
  <2> QED BY <1>3, <2>1, Zenon DEF Lawful
<1> QED BY <1>8 DEF r

\* A word has no accent, and a vowel for each of its syllables.
LEMMA Unmarked ==
  ASSUME NEW w, Spelled(w)
  PROVE  /\ ~ hasaccent(w)
         /\ \A s \in Nat : getsyll(w, s) = P_ERR <=> s >= nsylls(w)
<1>1. \A i \in 1 .. Len(w) : ~ Is_accent(w[i])
  BY Spelling DEF Letters, HARDLONG, Is_accent, ACUTE, CIRCUMFLEX
<1>2. ASSUME NEW s \in Nat PROVE getsyll(w, s) = P_ERR <=> s >= nsylls(w)
  <2>1. s >= nsylls(w) => getsyll(w, s) = P_ERR
    BY Hearing
  <2>2. s < nsylls(w) => getsyll(w, s) \in 1 .. Len(w)
    BY Hearing, Spelling DEF Heard
  <2>3. nsylls(w) \in Nat /\ Len(w) \in Nat
    BY Counting, Spelling
  <2> QED BY <2>1, <2>2, <2>3 DEF P_ERR
<1> QED BY <1>1, <1>2 DEF hasaccent

\* The lesser of two numbers.
LEMMA Lesser ==
  ASSUME NEW a \in Int, NEW b \in Int
  PROVE  Min({a, b}) = IF a < b THEN a ELSE b
<1> DEFINE m == IF a < b THEN a ELSE b
<1>1. m \in {a, b} /\ \A x \in {a, b} : (\A y \in {a, b} : x <= y) <=> x = m
  OBVIOUS
<1> HIDE DEF m
<1>2. Min({a, b}) = m
  BY <1>1 DEF Min
<1> QED BY <1>2 DEF m

\* FixRecAcc puts the accent where it suits and as far from the end as it may.
LEMMA Receding ==
  ASSUME NEW w, Spelled(w), 0 < nsylls(w), NEW penult \in BOOLEAN,
         NEW takescirc \in BOOLEAN
  PROVE  \E s, accent :
           /\ FixRecAcc(w, {}, takescirc, penult) = addaccent(w, accent, getsyll(w, s))
           /\ Suits(w, s, accent, TRUE)
           /\ s = Min({nsylls(w) - 1,
                       IF LongAt(w, ULTIMA, TRUE) \/ penult THEN PENULT ELSE ANTEPENULT})
<1> DEFINE long == LongAt(w, ULTIMA, TRUE)
           far == IF long \/ penult THEN PENULT ELSE ANTEPENULT
           r == FixRecAcc(w, {}, takescirc, penult)
           Fits(s, accent) == /\ r = addaccent(w, accent, getsyll(w, s))
                              /\ Suits(w, s, accent, TRUE)
                              /\ s = Min({nsylls(w) - 1, far})
<1>1. nsylls(w) \in Nat /\ ~ hasaccent(w)
      /\ \A n \in Nat : getsyll(w, n) = P_ERR <=> n >= nsylls(w)
  BY Counting, Unmarked
<1>2. /\ getquantity(w, ULTIMA, TRUE, FALSE) = LONG <=> long
      /\ getquantity(w, PENULT, TRUE, FALSE) = LONG <=> LongAt(w, PENULT, TRUE)
  <2>1. ULTIMA \in Nat /\ PENULT \in Nat
    BY DEF ULTIMA, PENULT
  <2>2. LONG # SHORT /\ LONG # I_ERR
    BY DEF LONG, SHORT, I_ERR
  <2> QED BY <2>1, <2>2, Quantities
<1>3. LongAt(w, PENULT, TRUE) => PENULT < nsylls(w)
  BY DEF LongAt
<1>4. far \in Int /\ nsylls(w) - 1 \in Int
  BY <1>1 DEF PENULT, ANTEPENULT
<1>5. Min({nsylls(w) - 1, far}) = IF nsylls(w) - 1 < far THEN nsylls(w) - 1 ELSE far
  <2> HIDE DEF far
  <2> QED BY <1>4, Lesser
<1>6. r = IF long
          THEN IF PENULT < nsylls(w) THEN addaccent(w, ACUTE, getsyll(w, PENULT))
               ELSE addaccent(w, IF takescirc THEN CIRCUMFLEX ELSE ACUTE, getsyll(w, ULTIMA))
          ELSE IF ANTEPENULT < nsylls(w) /\ ~ penult
               THEN addaccent(w, ACUTE, getsyll(w, ANTEPENULT))
          ELSE addaccent(w, IF LongAt(w, PENULT, TRUE) THEN CIRCUMFLEX ELSE ACUTE,
                         IF PENULT < nsylls(w) THEN getsyll(w, PENULT)
                         ELSE getsyll(w, ULTIMA))
  <2>1. /\ getsyll(w, ULTIMA) # P_ERR
        /\ getsyll(w, PENULT) # P_ERR <=> PENULT < nsylls(w)
        /\ getsyll(w, ANTEPENULT) # P_ERR <=> ANTEPENULT < nsylls(w)
    BY <1>1 DEF ULTIMA, PENULT, ANTEPENULT
  <2> HIDE DEF long
  <2> QED BY <1>1, <1>2, <2>1 DEF FixRecAcc
<1> HIDE DEF long, r
<1>7. CASE nsylls(w) = 1
  <2> DEFINE accent == IF long /\ takescirc THEN CIRCUMFLEX ELSE ACUTE
  <2>1. ULTIMA = Min({nsylls(w) - 1, far})
    BY <1>5, <1>7 DEF ULTIMA, PENULT, ANTEPENULT
  <2>2. r = addaccent(w, accent, getsyll(w, ULTIMA))
    <3>1. ~ (PENULT < nsylls(w)) /\ ~ (ANTEPENULT < nsylls(w))
      BY <1>7 DEF PENULT, ANTEPENULT
    <3> QED BY <1>3, <1>6, <3>1, Zenon
  <2>3. accent \in {ACUTE, CIRCUMFLEX} /\ (accent = CIRCUMFLEX => long)
    BY DEF ACUTE, CIRCUMFLEX
  <2> HIDE DEF accent
  <2>4. Suits(w, ULTIMA, accent, TRUE)
    <3>1. /\ ULTIMA \in ULTIMA .. ANTEPENULT /\ ULTIMA < nsylls(w)
          /\ ULTIMA # ANTEPENULT /\ ULTIMA # PENULT
      BY <1>7 DEF ULTIMA, PENULT, ANTEPENULT
    <3> QED BY <2>3, <3>1, Zenon DEF Suits, long
  <2> HIDE DEF far
  <2>5. Fits(ULTIMA, accent)
    BY <2>1, <2>2, <2>4
  <2> QED BY <2>5 DEF r, far, long
<1>8. CASE nsylls(w) > 1 /\ (long \/ penult \/ nsylls(w) = 2)
  <2> DEFINE accent == IF ~ long /\ LongAt(w, PENULT, TRUE) THEN CIRCUMFLEX ELSE ACUTE
  <2>1. PENULT = Min({nsylls(w) - 1, far})
    BY <1>1, <1>5, <1>8 DEF PENULT, ANTEPENULT
  <2>2. r = addaccent(w, accent, getsyll(w, PENULT))
    <3>1. PENULT < nsylls(w) /\ (nsylls(w) = 2 => ~ (ANTEPENULT < nsylls(w)))
      BY <1>1, <1>8 DEF PENULT, ANTEPENULT
    <3> QED BY <1>6, <1>8, <3>1, Zenon
  <2>3. /\ accent \in {ACUTE, CIRCUMFLEX}
        /\ accent = CIRCUMFLEX <=> ~ long /\ LongAt(w, PENULT, TRUE)
    BY DEF ACUTE, CIRCUMFLEX
  <2> HIDE DEF accent
  <2>4. Suits(w, PENULT, accent, TRUE)
    <3>1. /\ PENULT \in ULTIMA .. ANTEPENULT /\ PENULT < nsylls(w)
          /\ PENULT # ANTEPENULT
      BY <1>1, <1>8 DEF ULTIMA, PENULT, ANTEPENULT
    <3> QED BY <2>3, <3>1, Zenon DEF Suits, long
  <2> HIDE DEF far
  <2>5. Fits(PENULT, accent)
    BY <2>1, <2>2, <2>4
  <2> QED BY <2>5 DEF r, far, long
<1>9. CASE nsylls(w) > 2 /\ ~ long /\ ~ penult
  <2>1. ANTEPENULT = Min({nsylls(w) - 1, far})
    BY <1>1, <1>5, <1>9 DEF PENULT, ANTEPENULT
  <2>2. r = addaccent(w, ACUTE, getsyll(w, ANTEPENULT))
    BY <1>1, <1>6, <1>9 DEF PENULT, ANTEPENULT
  <2>3. Suits(w, ANTEPENULT, ACUTE, TRUE)
    <3>1. /\ ANTEPENULT \in ULTIMA .. ANTEPENULT /\ ANTEPENULT < nsylls(w)
          /\ ANTEPENULT # PENULT /\ ACUTE # CIRCUMFLEX
      BY <1>1, <1>9 DEF ULTIMA, PENULT, ANTEPENULT, ACUTE, CIRCUMFLEX
    <3> QED BY <1>9, <3>1, Zenon DEF Suits, long
  <2> HIDE DEF far
  <2>4. Fits(ANTEPENULT, ACUTE)
    BY <2>1, <2>2, <2>3
  <2> QED BY <2>4 DEF r, far, long
<1>10. \/ nsylls(w) = 1
       \/ nsylls(w) > 1 /\ (long \/ penult \/ nsylls(w) = 2)
       \/ nsylls(w) > 2 /\ ~ long /\ ~ penult
  BY <1>1
<1> QED BY <1>7, <1>8, <1>9, <1>10, Zenon

\* A word that goes on with another is a word.
LEMMA LongerWord ==
  ASSUME NEW u, Spelled(u), NEW v, Spelled(v), v = <<>> \/ v[1] # "a"
  PROVE  Spelled(u \o v)
<1> DEFINE w == u \o v
<1>1. u \in Seq(Letters) /\ v \in Seq(Letters) /\ Len(u) \in Nat /\ Len(v) \in Nat
  BY DEF Spelled
<1>2. /\ w \in Seq(Letters) /\ Len(w) = Len(u) + Len(v)
      /\ \A i \in 1 .. Len(u) : w[i] = u[i]
      /\ \A i \in 1 .. Len(v) : w[Len(u) + i] = v[i]
  BY <1>1, Joining
<1> HIDE DEF w
<1>3. ASSUME NEW i \in Int, i <= Len(u) PROVE At(w, i) = At(u, i)
  <2>1. i \in 1 .. Len(w) <=> i \in 1 .. Len(u)
    BY <1>1, <1>2, <1>3
  <2> QED BY <1>2, <2>1 DEF At
<1>4. ASSUME NEW i \in Int, i >= 1 PROVE At(w, Len(u) + i) = At(v, i)
  <2>1. CASE i <= Len(v)
    <3>1. i \in 1 .. Len(v) /\ Len(u) + i \in 1 .. Len(w)
      BY <1>1, <1>2, <1>4, <2>1
    <3> QED BY <1>2, <3>1 DEF At
  <2>2. CASE i > Len(v)
    <3>1. i \notin 1 .. Len(v) /\ Len(u) + i \notin 1 .. Len(w)
      BY <1>1, <1>2, <1>4, <2>2
    <3> QED BY <3>1 DEF At
  <2> QED BY <1>1, <1>4, <2>1, <2>2
<1>5. ASSUME NEW i \in 1 .. Len(u)
      PROVE  /\ w[i] = "a" => i = 1 \/ At(w, i - 1) = "k"
             /\ w[i] = HARDLONG => At(w, i - 1) = "a"
             /\ w[i] = "+" => At(w, i - 1) = "i"
             /\ w[i] = "i" => At(w, i + 1) = "+" \/ At(w, i - 1) = "a"
  <2>1. w[i] = u[i] /\ At(w, i - 1) = At(u, i - 1)
    BY <1>1, <1>2, <1>3
  <2>2. At(u, i + 1) = "+" => At(w, i + 1) = "+"
    <3>1. CASE i + 1 <= Len(u)
      BY <1>1, <1>3, <3>1
    <3>2. CASE i + 1 > Len(u)
      <4>1. i + 1 \notin 1 .. Len(u)
        BY <1>1, <3>2
      <4> QED BY <4>1 DEF At
    <3> QED BY <1>1, <3>1, <3>2
  <2> QED BY <2>1, <2>2 DEF Spelled
<1>6. ASSUME NEW i \in 1 .. Len(v), NEW j \in Int, j = Len(u) + i
      PROVE  /\ w[j] = "a" => j = 1 \/ At(w, j - 1) = "k"
             /\ w[j] = HARDLONG => At(w, j - 1) = "a"
             /\ w[j] = "+" => At(w, j - 1) = "i"
             /\ w[j] = "i" => At(w, j + 1) = "+" \/ At(w, j - 1) = "a"
  <2>1. w[j] = v[i] /\ At(w, j + 1) = At(v, i + 1)
    <3>1. j + 1 = Len(u) + (i + 1) /\ i + 1 \in Int /\ i + 1 >= 1
      BY <1>1, <1>6
    <3> QED BY <1>2, <1>4, <1>6, <3>1
  <2>2. i # 1 => At(w, j - 1) = At(v, i - 1)
    <3> SUFFICES ASSUME i # 1 PROVE At(w, j - 1) = At(v, i - 1)
      OBVIOUS
    <3>1. j - 1 = Len(u) + (i - 1) /\ i - 1 \in Int /\ i - 1 >= 1
      BY <1>1, <1>6
    <3> QED BY <1>4, <3>1
  <2>3. /\ v[i] = "a" => i = 1 \/ At(v, i - 1) = "k"
        /\ v[i] = HARDLONG => At(v, i - 1) = "a"
        /\ v[i] = "+" => At(v, i - 1) = "i"
        /\ v[i] = "i" => At(v, i + 1) = "+" \/ At(v, i - 1) = "a"
    BY DEF Spelled
  <2>4. CASE i = 1
    <3>1. At(v, i - 1) = "" /\ v # <<>>
      BY <1>1, <2>4 DEF At
    <3>2. v[i] # "a" /\ v[i] # HARDLONG /\ v[i] # "+" /\ (v[i] = "i" => At(v, i + 1) = "+")
      BY <2>3, <2>4, <3>1
    <3> QED BY <2>1, <3>2
  <2>5. CASE i # 1
    BY <2>1, <2>2, <2>3, <2>5
  <2> QED BY <2>4, <2>5
<1>7. ASSUME NEW j \in 1 .. Len(w)
      PROVE  j \in 1 .. Len(u) \/ \E i \in 1 .. Len(v) : j = Len(u) + i
  <2>1. CASE j > Len(u)
    <3>1. j - Len(u) \in 1 .. Len(v) /\ j = Len(u) + (j - Len(u))
      BY <1>1, <1>2, <2>1
    <3> QED BY <3>1
  <2> QED BY <1>1, <2>1
<1>8. Spelled(w)
  <2>1. \A j \in 1 .. Len(w) :
          /\ w[j] = "a" => j = 1 \/ At(w, j - 1) = "k"
          /\ w[j] = HARDLONG => At(w, j - 1) = "a"
          /\ w[j] = "+" => At(w, j - 1) = "i"
          /\ w[j] = "i" => At(w, j + 1) = "+" \/ At(w, j - 1) = "a"
    BY <1>5, <1>6, <1>7
  <2> QED BY <1>2, <2>1 DEF Spelled
<1> QED BY <1>8 DEF w

\* Where a word can be cut, both parts are words.
CutRight(w, p) ==
  /\ p \in 0 .. Len(w)
  /\ Spelled(SubSeq(w, 1, p)) /\ Spelled(SubSeq(w, p + 1, Len(w)))
  /\ p = Len(w) \/ w[p + 1] # "a"
WordRight ==
  /\ Spelled(word)
  /\ \A p \in cuts : CutRight(word, p)

\* A short word.
Short(w) ==
  /\ w \in Seq(Letters) /\ Len(w) > 0 /\ Len(w) <= 3
  /\ \/ w[1] \in {"k", "w"}
     \/ Len(w) > 1 /\ w[1] = "i" /\ w[2] = "+"
  /\ Len(w) > 1 => \/ w[2] = "w"
                   \/ w[1] = "k" /\ w[2] = "a"
                   \/ w[1] = "i" /\ w[2] = "+"
  /\ Len(w) > 2 => w[2] = "a" /\ w[3] \in {HARDLONG, "i"}

LEMMA ShortWord ==
  ASSUME NEW w, Short(w)
  PROVE  Spelled(w)
<1> DEFINE b == w[1]
           c == w[2]
           d == w[3]
           n == Len(w)
<1>1. n \in Nat /\ n > 0 /\ n <= 3 /\ w \in Seq(Letters)
  BY DEF Short
<1>2. b = "k" \/ b = "w" \/ (n > 1 /\ b = "i" /\ c = "+")
  BY DEF Short
<1>3. n > 1 => c = "w" \/ (b = "k" /\ c = "a") \/ (b = "i" /\ c = "+")
  BY DEF Short
<1>4. n > 2 => c = "a" /\ (d = HARDLONG \/ d = "i")
  BY DEF Short
<1>5. HARDLONG = "_"
  BY DEF HARDLONG
<1>6. \A i \in 1 .. n : At(w, i) = w[i]
  BY DEF At
<1>7. /\ At(w, 1) = b
      /\ n > 1 => At(w, 2) = c
      /\ n > 2 => At(w, 3) = d
  <2>1. 1 \in 1 .. n /\ (n > 1 => 2 \in 1 .. n) /\ (n > 2 => 3 \in 1 .. n)
    BY <1>1
  <2> QED BY <1>6, <2>1
<1> DEFINE Right(i) == /\ w[i] = "a" => i = 1 \/ At(w, i - 1) = "k"
                       /\ w[i] = HARDLONG => At(w, i - 1) = "a"
                       /\ w[i] = "+" => At(w, i - 1) = "i"
                       /\ w[i] = "i" => At(w, i + 1) = "+" \/ At(w, i - 1) = "a"
<1> SUFFICES ASSUME NEW i \in 1 .. n PROVE Right(i)
  BY <1>1 DEF Spelled
<1>8. w[i] = At(w, i) /\ i \in Int /\ 1 <= i /\ i <= n
  BY <1>1, <1>6
<1> HIDE DEF b, c, d, n
<1>9. i = 1 \/ i = 2 \/ i = 3
  BY <1>1, <1>8
<1>10. CASE i = 1
  <2>1. w[i] = b /\ i + 1 = 2
    BY <1>7, <1>8, <1>10
  <2> QED BY <1>2, <1>5, <1>7, <1>10, <2>1
<1>11. CASE i = 2
  <2>1. w[i] = c /\ i - 1 = 1 /\ n > 1
    BY <1>1, <1>7, <1>8, <1>11
  <2> QED BY <1>3, <1>5, <1>7, <2>1
<1>12. CASE i = 3
  <2>1. w[i] = d /\ i - 1 = 2 /\ n > 1 /\ n > 2
    BY <1>1, <1>7, <1>8, <1>12
  <2> QED BY <1>4, <1>5, <1>7, <2>1
<1> QED BY <1>9, <1>10, <1>11, <1>12

LEMMA PieceRight ==
  ASSUME NEW piece \in Pieces
  PROVE  Spelled(piece) /\ piece # <<>> /\ piece[1] # "a" /\ Len(piece) > 0
<1>1. "k" \in Letters /\ "a" \in Letters /\ "i" \in Letters /\ "w" \in Letters
      /\ "_" \in Letters /\ "+" \in Letters /\ HARDLONG = "_"
  BY DEF Letters, HARDLONG
<1>2. \A b \in Letters :
        <<b>> \in Seq(Letters) /\ Len(<<b>>) = 1 /\ <<b>>[1] = b
  OBVIOUS
<1>3. \A b, c \in Letters :
        /\ <<b, c>> \in Seq(Letters) /\ Len(<<b, c>>) = 2
        /\ <<b, c>>[1] = b /\ <<b, c>>[2] = c
  OBVIOUS
<1>4. \A b, c, d \in Letters :
        /\ <<b, c, d>> \in Seq(Letters) /\ Len(<<b, c, d>>) = 3
        /\ <<b, c, d>>[1] = b /\ <<b, c, d>>[2] = c /\ <<b, c, d>>[3] = d
  OBVIOUS
<1>5. ASSUME NEW w \in Seq(Letters), NEW b, NEW c, NEW d, NEW n \in Nat,
             Len(w) = n, n > 0, n <= 3, w[1] = b,
             n > 1 => w[2] = c, n > 2 => w[3] = d,
             b = "k" \/ b = "w" \/ (n > 1 /\ b = "i" /\ c = "+"),
             n > 1 => c = "w" \/ (b = "k" /\ c = "a") \/ (b = "i" /\ c = "+"),
             n > 2 => c = "a" /\ (d = "_" \/ d = "i")
      PROVE  Short(w)
  <2>1. Len(w) > 0 /\ Len(w) <= 3 /\ (Len(w) > 1 <=> n > 1) /\ (Len(w) > 2 <=> n > 2)
    BY <1>5
  <2>2. w[1] \in {"k", "w"} \/ (Len(w) > 1 /\ w[1] = "i" /\ w[2] = "+")
    BY <1>5, <2>1
  <2>3. Len(w) > 1 => \/ w[2] = "w"
                      \/ w[1] = "k" /\ w[2] = "a"
                      \/ w[1] = "i" /\ w[2] = "+"
    BY <1>5, <2>1
  <2>4. Len(w) > 2 => w[2] = "a" /\ w[3] \in {HARDLONG, "i"}
    <3> SUFFICES ASSUME Len(w) > 2 PROVE w[2] = "a" /\ w[3] \in {HARDLONG, "i"}
      OBVIOUS
    <3>1. n > 1 /\ n > 2
      <4>1. n > 2
        BY <2>1
      <4> QED BY <4>1
    <3>2. w[2] = c /\ w[3] = d /\ c = "a" /\ (d = "_" \/ d = "i")
      BY <1>5, <3>1
    <3> QED BY <1>1, <3>2
  <2> QED BY <1>5, <2>1, <2>2, <2>3, <2>4 DEF Short
<1>6. Short(<<"k">>)
  <2> DEFINE w == <<"k">>
  <2>1. w \in Seq(Letters) /\ Len(w) = 1 /\ w[1] = "k"
    BY <1>1, <1>2
  <2> HIDE DEF w
  <2>2. Short(w)
    <3>1. 1 \in Nat /\ ~ (1 > 1) /\ ~ (1 > 2) /\ 1 > 0 /\ 1 <= 3
      OBVIOUS
    <3> QED BY <1>5, <2>1, <3>1
  <2> QED BY <2>2 DEF w
<1>7. ASSUME NEW b \in Letters, NEW c \in Letters,
             \/ b = "k" /\ c = "w"
             \/ b = "k" /\ c = "a"
             \/ b = "i" /\ c = "+"
      PROVE  Short(<<b, c>>)
  <2> DEFINE w == <<b, c>>
  <2>1. w \in Seq(Letters) /\ Len(w) = 2 /\ w[1] = b /\ w[2] = c
    BY <1>3
  <2> HIDE DEF w
  <2>2. Short(w)
    <3>1. 2 \in Nat /\ 2 > 1 /\ ~ (2 > 2) /\ 2 > 0 /\ 2 <= 3
      OBVIOUS
    <3> QED BY <1>5, <1>7, <2>1, <3>1, Zenon
  <2> QED BY <2>2 DEF w
<1>8. ASSUME NEW d \in Letters, d = "_" \/ d = "i"
      PROVE  Short(<<"k", "a", d>>)
  <2> DEFINE w == <<"k", "a", d>>
  <2>1. w \in Seq(Letters) /\ Len(w) = 3 /\ w[1] = "k" /\ w[2] = "a" /\ w[3] = d
    BY <1>1, <1>4
  <2> HIDE DEF w
  <2>2. Short(w)
    <3>1. 3 \in Nat /\ 3 > 1 /\ 3 > 2 /\ 3 > 0 /\ 3 <= 3
      OBVIOUS
    <3> QED BY <1>5, <1>8, <2>1, <3>1, Zenon
  <2> QED BY <2>2 DEF w
<1>9. Short(piece)
  BY <1>1, <1>6, <1>7, <1>8 DEF Pieces
<1>10. Spelled(piece)
  BY <1>9, ShortWord
<1>11. Len(piece) > 0 /\ (piece[1] = "k" \/ piece[1] = "w" \/ piece[1] = "i")
  BY <1>9 DEF Short
<1> QED BY <1>10, <1>11

LEMMA NoWordRight == NoWord => WordRight
<1> SUFFICES ASSUME NoWord PROVE WordRight
  OBVIOUS
<1>1. word = <<>> /\ cuts = {0} /\ Len(word) = 0 /\ <<>> \in Seq(Letters)
  BY DEF NoWord
<1>2. Spelled(<<>>)
  BY <1>1 DEF Spelled
<1>3. SubSeq(word, 1, 0) = <<>> /\ SubSeq(word, 0 + 1, Len(word)) = <<>>
  BY <1>1
<1>4. CutRight(word, 0)
  <2>1. 0 \in 0 .. Len(word) /\ 0 = Len(word)
    BY <1>1
  <2> QED BY <1>2, <1>3, <2>1, Zenon DEF CutRight
<1>5. \A p \in cuts : p = 0
  BY <1>1
<1>6. Spelled(word)
  BY <1>1, <1>2
<1> QED BY <1>4, <1>5, <1>6 DEF WordRight

\* Sequences with the same elements.
LEMMA SameSequence ==
  ASSUME NEW C, NEW s \in Seq(C), NEW t \in Seq(C), Len(s) = Len(t),
         \A i \in 1 .. Len(s) : s[i] = t[i]
  PROVE  s = t
OBVIOUS

LEMMA PieceStep == WordRight /\ [AddPiece]_words => WordRight'
<1> SUFFICES ASSUME WordRight, [AddPiece]_words PROVE WordRight'
  OBVIOUS
<1>1. CASE UNCHANGED words
  BY <1>1 DEF words, WordRight
<1>2. CASE AddPiece
  <2>1. PICK piece \in Pieces : word' = word \o piece
    BY <1>2 DEF AddPiece
  <2>2. Spelled(piece) /\ piece # <<>> /\ piece[1] # "a" /\ Len(piece) > 0
    BY PieceRight
  <2>3. Spelled(word')
    BY <2>1, <2>2, LongerWord DEF WordRight
  <2>4. /\ word \in Seq(Letters) /\ piece \in Seq(Letters)
        /\ Len(word) \in Nat /\ Len(piece) \in Nat
    BY <2>2 DEF WordRight, Spelled
  <2>5. /\ word' \in Seq(Letters) /\ Len(word') = Len(word) + Len(piece)
        /\ \A i \in 1 .. Len(word) : word'[i] = word[i]
        /\ \A i \in 1 .. Len(piece) : word'[Len(word) + i] = piece[i]
    BY <2>1, <2>4, Joining
  <2>6. ASSUME NEW p \in cuts PROVE CutRight(word', p)
    <3> DEFINE u == SubSeq(word, 1, p)
               v == SubSeq(word, p + 1, Len(word))
    <3>1. p \in 0 .. Len(word) /\ Spelled(u) /\ Spelled(v)
          /\ (p = Len(word) \/ word[p + 1] # "a")
      BY DEF WordRight, CutRight
    <3>2. SubSeq(word', 1, p) = u
      BY <2>4, <2>5, <3>1
    <3>3. SubSeq(word', p + 1, Len(word')) = v \o piece
      <4> DEFINE x == SubSeq(word', p + 1, Len(word'))
                 y == v \o piece
      <4>1. /\ v \in Seq(Letters) /\ Len(v) = Len(word) - p
            /\ \A i \in 1 .. Len(v) : v[i] = word[p + i]
        BY <2>4, <3>1
      <4>2. /\ x \in Seq(Letters) /\ Len(x) = Len(word') - p
            /\ \A i \in 1 .. Len(x) : x[i] = word'[p + i]
        BY <2>4, <2>5, <3>1
      <4> HIDE DEF v, x
      <4>3. /\ y \in Seq(Letters) /\ Len(y) = Len(v) + Len(piece)
            /\ \A i \in 1 .. Len(v) : y[i] = v[i]
            /\ \A i \in 1 .. Len(piece) : y[Len(v) + i] = piece[i]
        <5>1. v \in Seq(Letters) /\ piece \in Seq(Letters)
          BY <2>4, <4>1
        <5> QED BY <5>1, Joining
      <4> HIDE DEF y
      <4>4. ASSUME NEW i \in 1 .. Len(x) PROVE x[i] = y[i]
        <5>1. i \in Int /\ x[i] = word'[p + i]
          BY <4>2
        <5>2. CASE i <= Len(v)
          <6>1. i \in 1 .. Len(v) /\ p + i \in 1 .. Len(word)
            BY <2>4, <3>1, <4>1, <5>2
          <6> QED BY <2>5, <4>1, <4>3, <5>1, <6>1
        <5>3. CASE i > Len(v)
          <6> DEFINE k == i - Len(v)
          <6>1. k \in 1 .. Len(piece) /\ Len(v) + k = i /\ Len(word) + k = p + i
            BY <2>4, <2>5, <3>1, <4>1, <4>2, <5>3
          <6> HIDE DEF k
          <6>2. word'[p + i] = piece[k] /\ y[i] = piece[k]
            <7>1. word'[Len(word) + k] = piece[k] /\ y[Len(v) + k] = piece[k]
              BY <2>5, <4>3, <6>1
            <7> QED BY <6>1, <7>1
          <6> QED BY <5>1, <6>2
        <5> QED BY <2>4, <4>1, <5>1, <5>2, <5>3
      <4>5. Len(x) = Len(y)
        BY <2>4, <2>5, <3>1, <4>1, <4>2, <4>3
      <4>6. x = y
        BY <4>2, <4>3, <4>4, <4>5, SameSequence
      <4> QED BY <4>6 DEF x, y
    <3>4. Spelled(v \o piece)
      <4> HIDE DEF v
      <4> QED BY <2>2, <3>1, LongerWord
    <3>5. word'[p + 1] # "a"
      <4>1. CASE p = Len(word)
        <5>1. 1 \in 1 .. Len(piece)
          BY <2>2, <2>4
        <5> QED BY <2>2, <2>5, <4>1, <5>1
      <4>2. CASE p # Len(word)
        <5>1. p + 1 \in 1 .. Len(word)
          BY <2>4, <3>1, <4>2
        <5> QED BY <2>5, <3>1, <4>2, <5>1
      <4> QED BY <4>1, <4>2
    <3>6. p \in 0 .. Len(word')
      BY <2>4, <2>5, <3>1
    <3> HIDE DEF u, v
    <3> QED BY <3>1, <3>2, <3>3, <3>4, <3>5, <3>6 DEF CutRight
  <2>7. CutRight(word', Len(word'))
    <3>1. SubSeq(word', 1, Len(word')) = word'
      BY <2>5
    <3>2. SubSeq(word', Len(word') + 1, Len(word')) = <<>>
      BY <2>5
    <3>3. Spelled(<<>>)
      <4>1. <<>> \in Seq(Letters) /\ Len(<<>>) = 0
        OBVIOUS
      <4> QED BY <4>1 DEF Spelled
    <3>4. Len(word') \in 0 .. Len(word')
      BY <2>4, <2>5
    <3> QED BY <2>3, <3>1, <3>2, <3>3, <3>4 DEF CutRight
  <2>8. cuts' = cuts \cup {Len(word')}
    BY <1>2 DEF AddPiece
  <2> QED BY <2>3, <2>6, <2>7, <2>8 DEF WordRight
<1> QED BY <1>1, <1>2

\* FixRecAcc is right about every such word.
LEMMA WordRecessive == WordRight => Recessive
<1> SUFFICES ASSUME WordRight, NEW penult \in BOOLEAN, NEW takescirc \in BOOLEAN,
                    nsylls(word) > 0
             PROVE  LET r == FixRecAcc(word, {}, takescirc, penult)
                    IN /\ Lawful(r, word, FALSE)
                       /\ LET syll == CHOOSE n \in ULTIMA .. ANTEPENULT :
                                        \E at \in Accents(r) : After(r, at) = n
                          IN syll = Min({nsylls(word) - 1,
                                         IF IsLong(word, ULTIMA, FALSE) \/ penult
                                         THEN PENULT ELSE ANTEPENULT})
                       /\ FixRecAcc(r, {}, takescirc, penult) = r
  BY DEF Recessive
<1>1. Spelled(word) /\ 0 < nsylls(word)
  BY Counting DEF WordRight
<1> DEFINE r == FixRecAcc(word, {}, takescirc, penult)
<1>2. PICK s, accent :
        /\ r = addaccent(word, accent, getsyll(word, s))
        /\ Suits(word, s, accent, TRUE)
        /\ s = Min({nsylls(word) - 1,
                    IF LongAt(word, ULTIMA, TRUE) \/ penult THEN PENULT ELSE ANTEPENULT})
  BY <1>1, Receding, Zenon
<1> HIDE DEF r
<1>3. Lawful(r, word, FALSE)
  BY <1>1, <1>2, SuitsLawful
<1>4. PICK at : Accents(r) = {at} /\ After(r, at) = s /\ hasaccent(r)
  <2>1. s \in Nat /\ s < nsylls(word) /\ accent \in {ACUTE, CIRCUMFLEX}
    BY <1>2 DEF Suits, ULTIMA, ANTEPENULT
  <2> QED BY <1>1, <1>2, <2>1, Placing
<1>5. s \in ULTIMA .. ANTEPENULT
  BY <1>2 DEF Suits
<1>6. (CHOOSE n \in ULTIMA .. ANTEPENULT : \E a \in Accents(r) : After(r, a) = n) = s
  BY <1>4, <1>5
<1>7. IsLong(word, ULTIMA, FALSE) <=> LongAt(word, ULTIMA, TRUE)
  <2>1. ULTIMA \in Nat /\ (~ FALSE) = TRUE
    BY DEF ULTIMA
  <2> QED BY <1>1, <2>1, Quantities
<1>8. FixRecAcc(r, {}, takescirc, penult) = r
  BY <1>4 DEF FixRecAcc
<1>9. s = Min({nsylls(word) - 1,
               IF IsLong(word, ULTIMA, FALSE) \/ penult THEN PENULT ELSE ANTEPENULT})
  BY <1>2, <1>7, Zenon
<1> QED BY <1>3, <1>6, <1>8, <1>9, Zenon DEF r

\* The recessive accent of a word of any length is lawful, as far from the end
\* as the quantities allow, and put in once.
THEOREM AccentsRecede == Words => []Recessive
<1>1. NoWord => WordRight
  BY NoWordRight
<1>2. WordRight /\ [AddPiece]_words => WordRight'
  BY PieceStep
<1>3. WordRight => Recessive
  BY WordRecessive
<1> QED BY <1>1, <1>2, <1>3, PTL DEF Words

----------------------------------------------------------------------------
(* A word in two parts: what holds of a part holds of the word there.      *)

Joint(u, v) == Spelled(u) /\ Spelled(v) /\ Spelled(u \o v) /\ v # <<>>

LEMMA Parts ==
  ASSUME NEW u, NEW v, Joint(u, v)
  PROVE  LET w == u \o v
         IN  /\ Len(u) \in Nat /\ Len(v) \in Nat /\ Len(v) > 0
             /\ w \in Seq(Letters) /\ Len(w) = Len(u) + Len(v)
             /\ \A i \in 1 .. Len(u) : w[i] = u[i]
             /\ \A i \in 1 .. Len(v) : w[Len(u) + i] = v[i]
             /\ \A i \in Int : i <= Len(u) => At(w, i) = At(u, i)
             /\ \A i \in Int : i >= 1 => At(w, Len(u) + i) = At(v, i)
             /\ \A i \in Int : i <= Len(u) + 1 =>
                  /\ At(w, i) = HARDLONG <=> At(u, i) = HARDLONG
                  /\ At(w, i) = "+" <=> At(u, i) = "+"
<1> DEFINE w == u \o v
<1>1. u \in Seq(Letters) /\ v \in Seq(Letters) /\ Len(u) \in Nat /\ Len(v) \in Nat
      /\ Len(v) > 0
  BY DEF Joint, Spelled
<1>2. /\ w \in Seq(Letters) /\ Len(w) = Len(u) + Len(v)
      /\ \A i \in 1 .. Len(u) : w[i] = u[i]
      /\ \A i \in 1 .. Len(v) : w[Len(u) + i] = v[i]
  BY <1>1, Joining
<1> HIDE DEF w
<1>3. ASSUME NEW i \in Int, i <= Len(u) PROVE At(w, i) = At(u, i)
  <2>1. i \in 1 .. Len(w) <=> i \in 1 .. Len(u)
    BY <1>1, <1>2, <1>3
  <2> QED BY <1>2, <2>1 DEF At
<1>4. ASSUME NEW i \in Int, i >= 1 PROVE At(w, Len(u) + i) = At(v, i)
  <2>1. CASE i <= Len(v)
    <3>1. i \in 1 .. Len(v) /\ Len(u) + i \in 1 .. Len(w)
      BY <1>1, <1>2, <1>4, <2>1
    <3> QED BY <1>2, <3>1 DEF At
  <2>2. CASE i > Len(v)
    <3>1. i \notin 1 .. Len(v) /\ Len(u) + i \notin 1 .. Len(w)
      BY <1>1, <1>2, <1>4, <2>2
    <3> QED BY <3>1 DEF At
  <2> QED BY <1>1, <1>4, <2>1, <2>2
<1>5. ASSUME NEW i \in Int, i <= Len(u) + 1
      PROVE  /\ At(w, i) = HARDLONG <=> At(u, i) = HARDLONG
             /\ At(w, i) = "+" <=> At(u, i) = "+"
  <2>1. CASE i <= Len(u)
    BY <1>3, <2>1
  <2>2. CASE i = Len(u) + 1
    <3>1. At(u, i) = ""
      <4>1. i \notin 1 .. Len(u)
        BY <1>1, <2>2
      <4> QED BY <4>1 DEF At
    <3>2. At(w, i) = At(v, 1)
      <4>1. 1 \in Int /\ 1 >= 1
        OBVIOUS
      <4> QED BY <1>4, <2>2, <4>1
    <3>3. At(v, 1) # HARDLONG /\ At(v, 1) # "+"
      <4>1. 1 \in 1 .. Len(v) /\ 1 - 1 \notin 1 .. Len(v) /\ Spelled(v)
        BY <1>1 DEF Joint
      <4>2. At(v, 1) = v[1] /\ At(v, 1 - 1) = ""
        BY <4>1 DEF At
      <4>3. /\ v[1] = HARDLONG => At(v, 1 - 1) = "a"
            /\ v[1] = "+" => At(v, 1 - 1) = "i"
        BY <4>1 DEF Spelled
      <4> QED BY <4>2, <4>3
    <3> QED BY <3>1, <3>2, <3>3 DEF HARDLONG
  <2> QED BY <1>1, <1>5, <2>1, <2>2
<1>6. /\ \A i \in Int : i <= Len(u) => At(w, i) = At(u, i)
      /\ \A i \in Int : i >= 1 => At(w, Len(u) + i) = At(v, i)
      /\ \A i \in Int : i <= Len(u) + 1 =>
                  /\ At(w, i) = HARDLONG <=> At(u, i) = HARDLONG
                  /\ At(w, i) = "+" <=> At(u, i) = "+"
  BY <1>3, <1>4, <1>5
<1> QED BY <1>1, <1>2, <1>6 DEF w

\* The vowels and syllables are those of the parts.
LEMMA PartVowels ==
  ASSUME NEW u, NEW v, Joint(u, v)
  PROVE  LET w == u \o v
         IN  /\ \A i \in Int : i <= Len(u) =>
                  /\ Second(w, i) <=> Second(u, i)
                  /\ i \in Vowels(w) <=> i \in Vowels(u)
                  /\ i \in Nuclei(w) <=> i \in Nuclei(u)
             /\ \A i \in Int : i >= 1 =>
                  /\ Second(w, Len(u) + i) <=> Second(v, i)
                  /\ Len(u) + i \in Vowels(w) <=> i \in Vowels(v)
                  /\ Len(u) + i \in Nuclei(w) <=> i \in Nuclei(v)
<1> DEFINE w == u \o v
<1>1. Spelled(u) /\ Spelled(v) /\ Spelled(w)
  BY DEF Joint
<1>2. /\ Len(u) \in Nat /\ Len(v) \in Nat /\ Len(w) = Len(u) + Len(v)
      /\ \A i \in 1 .. Len(u) : w[i] = u[i]
      /\ \A i \in 1 .. Len(v) : w[Len(u) + i] = v[i]
      /\ \A i \in Int : i >= 1 => At(w, Len(u) + i) = At(v, i)
      /\ \A i \in Int : i <= Len(u) + 1 => (At(w, i) = "+" <=> At(u, i) = "+")
  BY Parts
<1> HIDE DEF w
<1>3. ASSUME NEW x, Spelled(x)
      PROVE  /\ \A p : p \in Vowels(x) <=> p \in 1 .. Len(x) /\ x[p] \in {"a", "i", "w"}
             /\ \A p : p \in Nuclei(x) <=> p \in Vowels(x) /\ ~ Second(x, p)
  BY <1>3, Spelling
<1>4. ASSUME NEW i \in Int, i <= Len(u)
      PROVE  /\ Second(w, i) <=> Second(u, i)
             /\ i \in Vowels(w) <=> i \in Vowels(u)
             /\ i \in Nuclei(w) <=> i \in Nuclei(u)
  <2>1. /\ i \in 1 .. Len(w) <=> i \in 1 .. Len(u)
        /\ i \in 1 .. Len(u) => w[i] = u[i]
        /\ At(w, i + 1) = "+" <=> At(u, i + 1) = "+"
    BY <1>2, <1>4
  <2>2. Second(w, i) <=> Second(u, i)
    BY <2>1 DEF Second
  <2>3. i \in Vowels(w) <=> i \in Vowels(u)
    BY <1>1, <1>3, <2>1
  <2> QED BY <1>1, <1>3, <2>2, <2>3
<1>5. ASSUME NEW i \in Int, i >= 1
      PROVE  /\ Second(w, Len(u) + i) <=> Second(v, i)
             /\ Len(u) + i \in Vowels(w) <=> i \in Vowels(v)
             /\ Len(u) + i \in Nuclei(w) <=> i \in Nuclei(v)
  <2>1. /\ Len(u) + i \in 1 .. Len(w) <=> i \in 1 .. Len(v)
        /\ i \in 1 .. Len(v) => w[Len(u) + i] = v[i]
    BY <1>2, <1>5
  <2>2. At(w, (Len(u) + i) + 1) = At(v, i + 1)
    <3>1. (Len(u) + i) + 1 = Len(u) + (i + 1) /\ i + 1 \in Int /\ i + 1 >= 1
      BY <1>2, <1>5
    <3> QED BY <1>2, <3>1
  <2>3. Second(w, Len(u) + i) <=> Second(v, i)
    BY <2>1, <2>2 DEF Second
  <2>4. Len(u) + i \in Vowels(w) <=> i \in Vowels(v)
    BY <1>1, <1>3, <2>1
  <2> QED BY <1>1, <1>3, <2>3, <2>4
<1> QED BY <1>4, <1>5 DEF w

LEMMA PartCounts ==
  ASSUME NEW u, NEW v, Joint(u, v)
  PROVE  LET w == u \o v
         IN  /\ \A q \in Nat : After(w, Len(u) + q) = After(v, q)
             /\ \A q \in Int : q <= Len(u) => After(w, q) = After(u, q) + nsylls(v)
             /\ nsylls(w) = nsylls(u) + nsylls(v)
<1> DEFINE w == u \o v
<1>1. Spelled(u) /\ Spelled(v) /\ Spelled(w) /\ Len(u) \in Nat
  BY Parts DEF Joint
<1>2. /\ \A i \in Int : i <= Len(u) => (i \in Nuclei(w) <=> i \in Nuclei(u))
      /\ \A i \in Int : i >= 1 => (Len(u) + i \in Nuclei(w) <=> i \in Nuclei(v))
  BY PartVowels
<1> HIDE DEF w
<1>3. ASSUME NEW x, Spelled(x)
      PROVE  /\ Nuclei(x) \subseteq 1 .. Len(x) /\ Len(x) \in Nat
             /\ \A q : IsFiniteSet({i \in Nuclei(x) : i > q})
             /\ After(x, 0) = nsylls(x) /\ nsylls(x) \in Nat
  <2>1. Nuclei(x) \subseteq 1 .. Len(x) /\ Len(x) \in Nat
    BY <1>3, Spelling DEF Nuclei, Vowels
  <2>2. IsFiniteSet(Nuclei(x))
    <3>1. IsFiniteSet(1 .. Len(x))
      BY <2>1, FS_Interval
    <3> QED BY <2>1, <3>1, FS_Subset
  <2>3. ASSUME NEW q PROVE IsFiniteSet({i \in Nuclei(x) : i > q})
    <3>1. {i \in Nuclei(x) : i > q} \subseteq Nuclei(x)
      OBVIOUS
    <3> QED BY <2>2, <3>1, FS_Subset
  <2>4. After(x, 0) = nsylls(x) /\ nsylls(x) \in Nat
    <3>1. \A n \in Nuclei(x) : n > 0
      BY <2>1
    <3> QED BY <1>3, <3>1, Counting
  <2> QED BY <2>1, <2>3, <2>4
<1>4. ASSUME NEW q \in Nat PROVE After(w, Len(u) + q) = After(v, q)
  <2> DEFINE S == {i \in Nuclei(v) : i > q}
             T == {i \in Nuclei(w) : i > Len(u) + q}
  <2>1. S \subseteq Int /\ T \subseteq Int /\ IsFiniteSet(S)
    <3>1. \A i \in Nuclei(v) : i \in Int
      BY <1>1, <1>3
    <3>2. \A i \in Nuclei(w) : i \in Int
      BY <1>1, <1>3
    <3> QED BY <1>1, <1>3, <3>1, <3>2
  <2>2. ASSUME NEW x \in Int PROVE x \in S <=> x + Len(u) \in T
    <3>1. x > q <=> x + Len(u) > Len(u) + q
      BY <1>1
    <3>2. x > q => x >= 1
      OBVIOUS
    <3>3. x + Len(u) = Len(u) + x
      BY <1>1
    <3> QED BY <1>2, <3>1, <3>2, <3>3
  <2>3. /\ After(v, q) = Cardinality(S) /\ After(w, Len(u) + q) = Cardinality(T)
    BY DEF After
  <2> HIDE DEF S, T
  <2>4. Len(u) \in Int
    BY <1>1
  <2> QED BY <2>1, <2>2, <2>3, <2>4, Shifted
<1>5. After(w, Len(u)) = nsylls(v)
  <2>1. Len(u) + 0 = Len(u) /\ 0 \in Nat
    BY <1>1
  <2>2. After(v, 0) = nsylls(v)
    BY <1>1, <1>3
  <2>3. After(w, Len(u) + 0) = After(v, 0)
    BY <1>4, <2>1
  <2> QED BY <2>1, <2>2, <2>3
<1>6. ASSUME NEW q \in Int, q <= Len(u)
      PROVE  After(w, q) = After(u, q) + nsylls(v)
  <2> DEFINE S == {i \in Nuclei(u) : i > q}
             T == {i \in Nuclei(w) : i > Len(u)}
             R == {i \in Nuclei(w) : i > q}
  <2>1. IsFiniteSet(S) /\ IsFiniteSet(T)
    BY <1>1, <1>3
  <2>2. R = S \cup T /\ S \cap T = {}
    <3>1. \A i \in Nuclei(u) : i \in Int /\ i <= Len(u)
      BY <1>1, <1>3
    <3>2. \A i \in Nuclei(w) : i \in Int
      BY <1>1, <1>3
    <3>3. \A i \in Int : i > Len(u) => i > q
      BY <1>1, <1>6
    <3>4. \A i \in Int : i > Len(u) <=> ~ (i <= Len(u))
      BY <1>1
    <3> QED BY <1>2, <3>1, <3>2, <3>3, <3>4
  <2>3. /\ After(u, q) = Cardinality(S) /\ After(w, Len(u)) = Cardinality(T)
        /\ After(w, q) = Cardinality(R)
    BY DEF After
  <2> HIDE DEF S, T, R
  <2>4. Cardinality(R) = Cardinality(S) + Cardinality(T) - Cardinality({})
    BY <2>1, <2>2, FS_Union
  <2>5. Cardinality({}) = 0 /\ Cardinality(S) \in Nat /\ Cardinality(T) \in Nat
    BY <2>1, FS_EmptySet, FS_CardinalityType
  <2> QED BY <1>5, <2>3, <2>4, <2>5
<1>7. nsylls(w) = nsylls(u) + nsylls(v)
  <2>1. 0 <= Len(u) /\ 0 \in Int
    BY <1>1
  <2> QED BY <1>1, <1>3, <1>6, <2>1
<1> QED BY <1>4, <1>6, <1>7 DEF w

LEMMA PartSyllables ==
  ASSUME NEW u, NEW v, Joint(u, v), NEW s \in Nat
  PROVE  /\ s < nsylls(v) => getsyll(u \o v, s) = Len(u) + getsyll(v, s)
         /\ s < nsylls(u) => getsyll(u \o v, s + nsylls(v)) = getsyll(u, s)
<1> DEFINE w == u \o v
<1>1. Spelled(u) /\ Spelled(v) /\ Spelled(w) /\ Len(u) \in Nat
  BY Parts DEF Joint
<1>2. /\ \A i \in Int : i <= Len(u) =>
           /\ Second(w, i) <=> Second(u, i)
           /\ i \in Vowels(w) <=> i \in Vowels(u)
      /\ \A i \in Int : i >= 1 =>
           /\ Second(w, Len(u) + i) <=> Second(v, i)
           /\ Len(u) + i \in Vowels(w) <=> i \in Vowels(v)
  BY PartVowels
<1>3. /\ \A q \in Nat : After(w, Len(u) + q) = After(v, q)
      /\ \A q \in Int : q <= Len(u) => After(w, q) = After(u, q) + nsylls(v)
      /\ nsylls(u) \in Nat /\ nsylls(v) \in Nat
  <2>1. nsylls(u) \in Nat /\ nsylls(v) \in Nat
    BY <1>1, Counting
  <2> QED BY <2>1, PartCounts
<1>4. ~ Second(v, 1) /\ ~ Second(u, Len(u) + 1)
  <2>1. 1 - 1 \notin 1 .. Len(v) /\ Len(u) + 1 \notin 1 .. Len(u)
    BY <1>1
  <2>2. Second(v, 1) => 1 - 1 \in 1 .. Len(v)
    BY <1>1, Spelling
  <2> QED BY <2>1, <2>2 DEF Second
<1> HIDE DEF w
<1>5. ASSUME s < nsylls(v) PROVE getsyll(w, s) = Len(u) + getsyll(v, s)
  <2> DEFINE p == getsyll(v, s)
  <2>1. Heard(v, s, p) /\ p \in 1 .. Len(v)
    BY <1>1, <1>5, Hearing, Spelling DEF Heard
  <2> HIDE DEF p
  <2>2. Heard(w, s, Len(u) + p)
    <3>1. p \in Nat /\ p \in Int /\ p >= 1 /\ p + 1 \in Int /\ p + 1 >= 1
          /\ Len(u) + (p + 1) = (Len(u) + p) + 1
      BY <1>1, <2>1
    <3>2. Len(u) + p \in Vowels(w) /\ After(w, Len(u) + p) = s
      BY <1>2, <1>3, <2>1, <3>1 DEF Heard
    <3>3. ~ Second(w, (Len(u) + p) + 1)
      <4>1. Second(w, Len(u) + (p + 1)) <=> Second(v, p + 1)
        BY <1>2, <3>1
      <4> QED BY <2>1, <3>1, <4>1 DEF Heard
    <3> QED BY <3>2, <3>3 DEF Heard
  <2> QED BY <1>1, <2>2, Hearing DEF p
<1>6. ASSUME s < nsylls(u) PROVE getsyll(w, s + nsylls(v)) = getsyll(u, s)
  <2> DEFINE p == getsyll(u, s)
  <2>1. Heard(u, s, p) /\ p \in 1 .. Len(u)
    BY <1>1, <1>6, Hearing, Spelling DEF Heard
  <2> HIDE DEF p
  <2>2. p \in Int /\ p <= Len(u) /\ p + 1 \in Int /\ p + 1 <= Len(u) + 1
    BY <1>1, <2>1
  <2>3. p \in Vowels(w) /\ After(w, p) = s + nsylls(v)
    BY <1>2, <1>3, <2>1, <2>2 DEF Heard
  <2>4. ~ Second(w, p + 1)
    <3>1. CASE p + 1 <= Len(u)
      BY <1>2, <2>1, <2>2, <3>1 DEF Heard
    <3>2. CASE p + 1 = Len(u) + 1
      <4>1. 1 \in Int /\ 1 >= 1
        OBVIOUS
      <4> QED BY <1>2, <1>4, <3>2, <4>1
    <3> QED BY <1>1, <2>2, <3>1, <3>2
  <2>5. Heard(w, s + nsylls(v), p) /\ s + nsylls(v) \in Nat
    <3>1. s + nsylls(v) \in Nat
      BY <1>3
    <3> QED BY <2>3, <2>4, <3>1 DEF Heard
  <2> QED BY <1>1, <2>5, Hearing DEF p
<1> QED BY <1>5, <1>6 DEF w

LEMMA PartQuantities ==
  ASSUME NEW u, NEW v, Joint(u, v), NEW s \in Nat, NEW f \in BOOLEAN
  PROVE  /\ s < nsylls(v) => (LongAt(u \o v, s, f) <=> LongAt(v, s, f))
         /\ s < nsylls(u) =>
              (LongAt(u \o v, s + nsylls(v), f) <=> LongAt(u, s, FALSE))
<1> DEFINE w == u \o v
<1>1. /\ Spelled(u) /\ Spelled(v) /\ Spelled(w)
      /\ nsylls(u) \in Nat /\ nsylls(v) \in Nat /\ nsylls(w) = nsylls(u) + nsylls(v)
  BY PartCounts, Counting DEF Joint
<1>2. /\ Len(u) \in Nat /\ Len(v) \in Nat /\ Len(v) > 0 /\ Len(w) = Len(u) + Len(v)
      /\ \A i \in 1 .. Len(u) : w[i] = u[i]
      /\ \A i \in 1 .. Len(v) : w[Len(u) + i] = v[i]
      /\ \A i \in Int : i >= 1 => At(w, Len(u) + i) = At(v, i)
      /\ \A i \in Int : i <= Len(u) + 1 => (At(w, i) = HARDLONG <=> At(u, i) = HARDLONG)
  BY Parts
<1>3. /\ \A i \in Int : i <= Len(u) => (Second(w, i) <=> Second(u, i))
      /\ \A i \in Int : i >= 1 => (Second(w, Len(u) + i) <=> Second(v, i))
  BY PartVowels
<1>4. /\ s < nsylls(v) => getsyll(w, s) = Len(u) + getsyll(v, s)
      /\ s < nsylls(u) => getsyll(w, s + nsylls(v)) = getsyll(u, s)
  BY PartSyllables
<1> HIDE DEF w
<1>5. ASSUME s < nsylls(v) PROVE LongAt(w, s, f) <=> LongAt(v, s, f)
  <2> DEFINE p == getsyll(v, s)
  <2>1. p \in 1 .. Len(v)
    BY <1>1, <1>5, Hearing, Spelling DEF Heard
  <2>2. s < nsylls(w) /\ getsyll(w, s) = Len(u) + p
    BY <1>1, <1>4, <1>5
  <2> HIDE DEF p
  <2>3. At(w, (Len(u) + p) + 1) = At(v, p + 1)
    <3>1. (Len(u) + p) + 1 = Len(u) + (p + 1) /\ p + 1 \in Int /\ p + 1 >= 1
      BY <1>2, <2>1
    <3> QED BY <1>2, <3>1
  <2>4. /\ w[Len(u) + p] = v[p]
        /\ Second(w, Len(u) + p) <=> Second(v, p)
        /\ Len(u) + p = Len(w) <=> p = Len(v)
    <3>1. w[Len(u) + p] = v[p]
      BY <1>2, <2>1
    <3>2. Second(w, Len(u) + p) <=> Second(v, p)
      <4>1. p \in Int /\ p >= 1
        BY <2>1
      <4> QED BY <1>3, <4>1
    <3>3. Len(u) + p = Len(w) <=> p = Len(v)
      <4>1. /\ p \in Int /\ Len(u) \in Int /\ Len(v) \in Int
            /\ Len(w) = Len(u) + Len(v)
        BY <1>2, <2>1
      <4> QED BY <4>1
    <3> QED BY <3>1, <3>2, <3>3
  <2>5. LongAt(w, s, f) <=> \/ v[p] = "w"
                            \/ At(v, p + 1) = HARDLONG
                            \/ Second(v, p) /\ ~ (f /\ p = Len(v))
    BY <2>2, <2>3, <2>4, Zenon DEF LongAt
  <2>6. LongAt(v, s, f) <=> \/ v[p] = "w"
                            \/ At(v, p + 1) = HARDLONG
                            \/ Second(v, p) /\ ~ (f /\ p = Len(v))
    BY <1>5, Zenon DEF LongAt, p
  <2> QED BY <2>5, <2>6
<1>6. ASSUME s < nsylls(u)
      PROVE  LongAt(w, s + nsylls(v), f) <=> LongAt(u, s, FALSE)
  <2> DEFINE p == getsyll(u, s)
             n == s + nsylls(v)
  <2>1. p \in 1 .. Len(u)
    BY <1>1, <1>6, Hearing, Spelling DEF Heard
  <2>2. n < nsylls(w) /\ getsyll(w, n) = p
    BY <1>1, <1>4, <1>6
  <2> HIDE DEF p, n
  <2>3. /\ w[p] = u[p] /\ (Second(w, p) <=> Second(u, p)) /\ p # Len(w)
        /\ At(w, p + 1) = HARDLONG <=> At(u, p + 1) = HARDLONG
    BY <1>2, <1>3, <2>1
  <2>4. LongAt(w, n, f) <=> \/ u[p] = "w"
                            \/ At(u, p + 1) = HARDLONG
                            \/ Second(u, p)
    BY <2>2, <2>3, Zenon DEF LongAt
  <2>5. LongAt(u, s, FALSE) <=> \/ u[p] = "w"
                                \/ At(u, p + 1) = HARDLONG
                                \/ Second(u, p)
    BY <1>6, Zenon DEF LongAt, p
  <2> QED BY <2>4, <2>5 DEF n
<1> QED BY <1>5, <1>6 DEF w

\* There is one way to write an accent.
LEMMA OneWriting ==
  ASSUME NEW w, Len(w) \in Nat, NEW at, NEW d, NEW accent, NEW r, NEW t,
         Written(r, w, at, d, accent), Written(t, w, at, d, accent)
  PROVE  r = t
<1> DEFINE C == Letters \cup {ACUTE, CIRCUMFLEX}
<1>1. /\ r \in Seq(C) /\ t \in Seq(C) /\ Len(r) = Len(t) /\ Len(r) = Len(w) + d
      /\ d \in {0, 1} /\ at \in 1 .. Len(r)
  BY DEF Written
<1>2. ASSUME NEW i \in 1 .. Len(r) PROVE r[i] = t[i]
  <2>1. CASE i < at
    <3>1. i \in 1 .. at - 1
      BY <1>1, <2>1
    <3> QED BY <3>1 DEF Written
  <2>2. CASE i = at
    BY <2>2 DEF Written
  <2>3. CASE i > at
    <3>1. i - d \in at + 1 - d .. Len(w) /\ (i - d) + d = i
      BY <1>1, <2>3
    <3>2. r[(i - d) + d] = w[i - d] /\ t[(i - d) + d] = w[i - d]
      BY <3>1 DEF Written
    <3> QED BY <3>1, <3>2
  <2> QED BY <1>1, <2>1, <2>2, <2>3
<1> HIDE DEF C
<1> QED BY <1>1, <1>2, SameSequence

\* An accent put in a part is put in the word.
LEMMA TailWritten ==
  ASSUME NEW u, NEW v, Joint(u, v), NEW at, NEW d, NEW accent \in {ACUTE, CIRCUMFLEX},
         NEW r, Written(r, v, at, d, accent)
  PROVE  Written(u \o r, u \o v, Len(u) + at, d, accent)
<1> DEFINE C == Letters \cup {ACUTE, CIRCUMFLEX}
           w == u \o v
           t == u \o r
           L == Len(u)
<1>1. /\ L \in Nat /\ Len(v) \in Nat /\ Len(w) = L + Len(v)
      /\ \A i \in 1 .. L : w[i] = u[i]
      /\ \A i \in 1 .. Len(v) : w[L + i] = v[i]
  BY Parts
<1>2. /\ r \in Seq(C) /\ d \in {0, 1} /\ Len(r) = Len(v) + d
      /\ at \in 1 .. Len(r) /\ r[at] = accent
      /\ \A i \in 1 .. at - 1 : i <= Len(v) /\ r[i] = v[i]
      /\ \A i \in at + 1 - d .. Len(v) : r[i + d] = v[i]
      /\ d = 0 => v[at] = HARDLONG
  BY DEF Written
<1>3. u \in Seq(C)
  BY DEF Joint, Spelled
<1>4. /\ t \in Seq(C) /\ Len(t) = L + Len(r)
      /\ \A i \in 1 .. L : t[i] = u[i]
      /\ \A i \in 1 .. Len(r) : t[L + i] = r[i]
  <2>1. u \in Seq(C) /\ r \in Seq(C)
    BY <1>2, <1>3
  <2> HIDE DEF C
  <2> QED BY <2>1, Joining
<1> HIDE DEF w, t, L
<1>5. Len(t) = Len(w) + d /\ L + at \in 1 .. Len(t) /\ t[L + at] = accent
  BY <1>1, <1>2, <1>4
<1>6. ASSUME NEW i \in 1 .. (L + at) - 1 PROVE i <= Len(w) /\ t[i] = w[i]
  <2>1. CASE i <= L
    <3>1. i \in 1 .. L
      BY <1>1, <1>2, <2>1
    <3> QED BY <1>1, <1>4, <3>1
  <2>2. CASE i > L
    <3> DEFINE k == i - L
    <3>1. k \in 1 .. at - 1 /\ L + k = i /\ k \in 1 .. Len(r)
      BY <1>1, <1>2, <2>2
    <3> HIDE DEF k
    <3>2. k <= Len(v) /\ r[k] = v[k] /\ k \in 1 .. Len(v)
      BY <1>1, <1>2, <3>1
    <3>3. t[L + k] = r[k] /\ w[L + k] = v[k] /\ L + k <= Len(w)
      BY <1>1, <1>4, <3>1, <3>2
    <3> QED BY <3>1, <3>2, <3>3
  <2> QED BY <1>1, <1>2, <2>1, <2>2
<1>7. ASSUME NEW i \in (L + at) + 1 - d .. Len(w) PROVE t[i + d] = w[i]
  <2> DEFINE k == i - L
  <2>1. k \in at + 1 - d .. Len(v) /\ L + k = i /\ k \in 1 .. Len(v)
        /\ k + d \in 1 .. Len(r) /\ L + (k + d) = i + d
    BY <1>1, <1>2
  <2> HIDE DEF k
  <2>2. r[k + d] = v[k] /\ t[L + (k + d)] = r[k + d] /\ w[L + k] = v[k]
    BY <1>1, <1>2, <1>4, <2>1
  <2> QED BY <2>1, <2>2
<1>8. d = 0 => w[L + at] = HARDLONG
  BY <1>1, <1>2
<1>9. Written(t, w, L + at, d, accent)
  BY <1>2, <1>4, <1>5, <1>6, <1>7, <1>8 DEF Written
<1> QED BY <1>9 DEF w, t, L

LEMMA HeadWritten ==
  ASSUME NEW u, NEW v, Joint(u, v), NEW at, NEW d, NEW accent \in {ACUTE, CIRCUMFLEX},
         NEW r, Written(r, u, at, d, accent)
  PROVE  Written(r \o v, u \o v, at, d, accent)
<1> DEFINE C == Letters \cup {ACUTE, CIRCUMFLEX}
           w == u \o v
           t == r \o v
           L == Len(u)
<1>1. /\ L \in Nat /\ Len(v) \in Nat /\ Len(w) = L + Len(v)
      /\ \A i \in 1 .. L : w[i] = u[i]
      /\ \A i \in 1 .. Len(v) : w[L + i] = v[i]
  BY Parts
<1>2. /\ r \in Seq(C) /\ d \in {0, 1} /\ Len(r) = L + d
      /\ at \in 1 .. Len(r) /\ r[at] = accent
      /\ \A i \in 1 .. at - 1 : i <= L /\ r[i] = u[i]
      /\ \A i \in at + 1 - d .. L : r[i + d] = u[i]
      /\ d = 0 => u[at] = HARDLONG
  BY DEF Written
<1>3. v \in Seq(C)
  BY DEF Joint, Spelled
<1>4. /\ t \in Seq(C) /\ Len(t) = Len(r) + Len(v)
      /\ \A i \in 1 .. Len(r) : t[i] = r[i]
      /\ \A i \in 1 .. Len(v) : t[Len(r) + i] = v[i]
  <2>1. r \in Seq(C) /\ v \in Seq(C)
    BY <1>2, <1>3
  <2> HIDE DEF C
  <2> QED BY <2>1, Joining
<1> HIDE DEF w, t, L
<1>5. Len(t) = Len(w) + d /\ at \in 1 .. Len(t) /\ t[at] = accent
  BY <1>1, <1>2, <1>4
<1>6. ASSUME NEW i \in 1 .. at - 1 PROVE i <= Len(w) /\ t[i] = w[i]
  <2>1. i <= L /\ r[i] = u[i] /\ i \in 1 .. L /\ i \in 1 .. Len(r)
    BY <1>1, <1>2
  <2> QED BY <1>1, <1>4, <2>1
<1>7. ASSUME NEW i \in at + 1 - d .. Len(w) PROVE t[i + d] = w[i]
  <2>1. CASE i <= L
    <3>1. i \in at + 1 - d .. L /\ i \in 1 .. L /\ i + d \in 1 .. Len(r)
      BY <1>1, <1>2, <2>1
    <3> QED BY <1>1, <1>2, <1>4, <3>1
  <2>2. CASE i > L
    <3> DEFINE k == i - L
    <3>1. k \in 1 .. Len(v) /\ L + k = i /\ Len(r) + k = i + d
      BY <1>1, <1>2, <2>2
    <3> HIDE DEF k
    <3>2. t[Len(r) + k] = v[k] /\ w[L + k] = v[k]
      BY <1>1, <1>4, <3>1
    <3> QED BY <3>1, <3>2
  <2> QED BY <1>1, <1>2, <2>1, <2>2
<1>8. d = 0 => w[at] = HARDLONG
  BY <1>1, <1>2
<1>9. Written(t, w, at, d, accent)
  BY <1>2, <1>4, <1>5, <1>6, <1>7, <1>8 DEF Written
<1> QED BY <1>9 DEF w, t

LEMMA SyllableWritten ==
  ASSUME NEW x, Spelled(x), NEW n \in Nat, n < nsylls(x),
         NEW accent \in {ACUTE, CIRCUMFLEX}
  PROVE  /\ getsyll(x, n) \in 1 .. Len(x)
         /\ Written(addaccent(x, accent, getsyll(x, n)), x,
                    AccentAt(x, getsyll(x, n), accent),
                    Added(x, getsyll(x, n), accent), accent)
<1>1. getsyll(x, n) \in Vowels(x) /\ getsyll(x, n) \in 1 .. Len(x)
  BY Hearing, Spelling DEF Heard
<1> QED BY <1>1, Writing

LEMMA TailAccent ==
  ASSUME NEW u, NEW v, Joint(u, v), NEW s \in Nat, s < nsylls(v),
         NEW accent \in {ACUTE, CIRCUMFLEX}
  PROVE  u \o addaccent(v, accent, getsyll(v, s))
         = addaccent(u \o v, accent, getsyll(u \o v, s))
<1> DEFINE w == u \o v
           p == getsyll(v, s)
           q == getsyll(w, s)
           r == addaccent(v, accent, p)
           t == addaccent(w, accent, q)
<1>1. /\ Spelled(u) /\ Spelled(v) /\ Spelled(w)
      /\ nsylls(u) \in Nat /\ nsylls(v) \in Nat /\ nsylls(w) = nsylls(u) + nsylls(v)
  BY PartCounts, Counting DEF Joint
<1>2. /\ Len(u) \in Nat /\ Len(v) \in Nat /\ Len(w) = Len(u) + Len(v)
      /\ \A i \in Int : i >= 1 => At(w, Len(u) + i) = At(v, i)
      /\ \A i \in Int : i <= Len(u) + 1 => (At(w, i) = HARDLONG <=> At(u, i) = HARDLONG)
  BY Parts
<1>3. q = Len(u) + p
  BY PartSyllables
<1>4. p \in 1 .. Len(v) /\ Written(r, v, AccentAt(v, p, accent), Added(v, p, accent), accent)
  BY <1>1, SyllableWritten
<1>5. Written(t, w, AccentAt(w, q, accent), Added(w, q, accent), accent)
  <2>1. s < nsylls(w)
    BY <1>1
  <2> QED BY <1>1, <2>1, SyllableWritten
<1> HIDE DEF p, q, r, t
<1>6. At(w, q + 1) = At(v, p + 1)
  <2>1. q + 1 = Len(u) + (p + 1) /\ p + 1 \in Int /\ p + 1 >= 1
    BY <1>2, <1>3, <1>4
  <2> HIDE DEF w
  <2> QED BY <1>2, <2>1
<1>7. /\ AccentAt(w, q, accent) = Len(u) + AccentAt(v, p, accent)
      /\ Added(w, q, accent) = Added(v, p, accent)
  BY <1>2, <1>3, <1>4, <1>6 DEF AccentAt, Added
<1>8. Written(u \o r, w, Len(u) + AccentAt(v, p, accent), Added(v, p, accent), accent)
  BY <1>4, TailWritten
<1>9. Len(w) \in Nat
  BY <1>2
<1>10. u \o r = t
  BY <1>5, <1>7, <1>8, <1>9, OneWriting
<1> QED BY <1>10 DEF r, t, p, q

LEMMA HeadAccent ==
  ASSUME NEW u, NEW v, Joint(u, v), NEW s \in Nat, s < nsylls(u),
         NEW accent \in {ACUTE, CIRCUMFLEX}
  PROVE  addaccent(u, accent, getsyll(u, s)) \o v
         = addaccent(u \o v, accent, getsyll(u \o v, s + nsylls(v)))
<1> DEFINE w == u \o v
           p == getsyll(u, s)
           q == getsyll(w, s + nsylls(v))
           r == addaccent(u, accent, p)
           t == addaccent(w, accent, q)
<1>1. /\ Spelled(u) /\ Spelled(v) /\ Spelled(w)
      /\ nsylls(u) \in Nat /\ nsylls(v) \in Nat /\ nsylls(w) = nsylls(u) + nsylls(v)
  BY PartCounts, Counting DEF Joint
<1>2. /\ Len(u) \in Nat /\ Len(v) \in Nat /\ Len(w) = Len(u) + Len(v)
      /\ \A i \in Int : i >= 1 => At(w, Len(u) + i) = At(v, i)
      /\ \A i \in Int : i <= Len(u) + 1 => (At(w, i) = HARDLONG <=> At(u, i) = HARDLONG)
  BY Parts
<1>3. q = p
  BY PartSyllables
<1>4. p \in 1 .. Len(u) /\ Written(r, u, AccentAt(u, p, accent), Added(u, p, accent), accent)
  BY <1>1, SyllableWritten
<1>5. Written(t, w, AccentAt(w, q, accent), Added(w, q, accent), accent)
  <2>1. s + nsylls(v) < nsylls(w) /\ s + nsylls(v) \in Nat
    BY <1>1
  <2> QED BY <1>1, <2>1, SyllableWritten
<1> HIDE DEF p, q, r, t
<1>6. At(w, q + 1) = HARDLONG <=> At(u, p + 1) = HARDLONG
  BY <1>2, <1>3, <1>4
<1>7. /\ AccentAt(w, q, accent) = AccentAt(u, p, accent)
      /\ Added(w, q, accent) = Added(u, p, accent)
  BY <1>3, <1>6 DEF AccentAt, Added
<1>8. Written(r \o v, w, AccentAt(u, p, accent), Added(u, p, accent), accent)
  BY <1>4, HeadWritten
<1>9. Len(w) \in Nat
  BY <1>2
<1>10. r \o v = t
  BY <1>5, <1>7, <1>8, <1>9, OneWriting
<1> QED BY <1>10 DEF r, t, p, q

\* An accent that suits a word's end suits the word.
LEMMA SuitsOn ==
  ASSUME NEW u, NEW v, Joint(u, v), NEW s, NEW accent, NEW f \in BOOLEAN,
         Suits(v, s, accent, f)
  PROVE  Suits(u \o v, s, accent, f) /\ s \in Nat /\ s < nsylls(v)
<1> DEFINE w == u \o v
<1>1. /\ s \in ULTIMA .. ANTEPENULT /\ s < nsylls(v)
      /\ accent \in {ACUTE, CIRCUMFLEX}
      /\ s = ANTEPENULT => accent = ACUTE /\ ~ LongAt(v, ULTIMA, f)
      /\ s = PENULT /\ LongAt(v, PENULT, TRUE) =>
           (accent = CIRCUMFLEX <=> ~ LongAt(v, ULTIMA, f))
      /\ accent = CIRCUMFLEX => LongAt(v, s, f)
  BY Zenon DEF Suits
<1>2. /\ nsylls(u) \in Nat /\ nsylls(v) \in Nat
      /\ nsylls(w) = nsylls(u) + nsylls(v)
  <2>1. nsylls(u) \in Nat /\ nsylls(v) \in Nat
    BY Counting DEF Joint
  <2> QED BY <2>1, PartCounts
<1>3. s \in Nat /\ s < nsylls(w) /\ ULTIMA < nsylls(v) /\ ULTIMA \in Nat
      /\ PENULT \in Nat
  BY <1>1, <1>2 DEF ULTIMA, PENULT, ANTEPENULT
<1>4. ASSUME NEW n \in Nat, n < nsylls(v), NEW g \in BOOLEAN
      PROVE  LongAt(w, n, g) <=> LongAt(v, n, g)
  <2>1. LongAt(w, n, TRUE) <=> LongAt(v, n, TRUE)
    BY <1>4, PartQuantities
  <2>2. LongAt(w, n, FALSE) <=> LongAt(v, n, FALSE)
    BY <1>4, PartQuantities
  <2>3. g = TRUE \/ g = FALSE
    OBVIOUS
  <2> QED BY <2>1, <2>2, <2>3, Zenon
<1>5. /\ LongAt(w, ULTIMA, f) <=> LongAt(v, ULTIMA, f)
      /\ LongAt(w, s, f) <=> LongAt(v, s, f)
  BY <1>1, <1>3, <1>4, Zenon
<1>6. s = PENULT => (LongAt(w, PENULT, TRUE) <=> LongAt(v, PENULT, TRUE))
  <2>1. TRUE \in BOOLEAN
    OBVIOUS
  <2> QED BY <1>1, <1>3, <1>4, <2>1, Zenon
<1> HIDE DEF w
<1>7. Suits(w, s, accent, f)
  BY <1>1, <1>3, <1>5, <1>6, Zenon DEF Suits
<1> QED BY <1>1, <1>3, <1>7 DEF w

\* The flags of the stems and endings that are joined.
Plain(flags) ==
  /\ "CONTRACTED" \notin flags /\ "ACCENT_OPTIONAL" \notin flags
  /\ "ENCLITIC" \notin flags /\ "PROCLITIC" \notin flags

\* What fixnacc2 and FixPersAcc2 should do with a word.
Suited(r, w, f) ==
  \E s, accent : /\ r = addaccent(w, accent, getsyll(w, s))
                 /\ Suits(w, s, accent, f)

\* fixnacc2 by itself puts an accent where it suits.
LEMMA Settling ==
  ASSUME NEW w, Spelled(w), 0 < nsylls(w), NEW end, Plain(end.flags)
  PROVE  Suited(fixnacc2(w, end), w, ~ Is_oblique(end))
<1> DEFINE f == ~ Is_oblique(end)
           long == LongAt(w, ULTIMA, f)
           r == fixnacc2(w, end)
<1>0. Is_oblique(end) \in BOOLEAN /\ f \in BOOLEAN
  BY DEF Is_oblique
<1>1. nsylls(w) \in Nat /\ ~ hasaccent(w)
      /\ \A n \in Nat : getsyll(w, n) = P_ERR <=> n >= nsylls(w)
  BY Counting, Unmarked
<1>2. /\ getquantity(w, ULTIMA, TRUE, Is_oblique(end)) = LONG <=> long
      /\ getquantity(w, PENULT, TRUE, Is_oblique(end)) = LONG <=> LongAt(w, PENULT, f)
  <2>1. ULTIMA \in Nat /\ PENULT \in Nat /\ TRUE \in BOOLEAN
    BY DEF ULTIMA, PENULT
  <2>2. LONG # SHORT /\ LONG # I_ERR
    BY DEF LONG, SHORT, I_ERR
  <2>3. \A n \in Nat :
          getquantity(w, n, TRUE, Is_oblique(end)) =
            IF LongAt(w, n, TRUE /\ ~ Is_oblique(end)) THEN LONG
            ELSE IF n < nsylls(w) THEN SHORT ELSE I_ERR
    BY <1>0, <2>1, Quantities
  <2>4. (TRUE /\ ~ Is_oblique(end)) = f
    BY <1>0
  <2>5. \A n \in Nat : getquantity(w, n, TRUE, Is_oblique(end)) = LONG <=> LongAt(w, n, f)
    BY <2>2, <2>3, <2>4, Zenon
  <2> QED BY <2>1, <2>5
<1>3. /\ LongAt(w, PENULT, f) => PENULT < nsylls(w)
      /\ LongAt(w, PENULT, f) <=> LongAt(w, PENULT, TRUE)
  <2>1. LongAt(w, PENULT, TRUE) <=> LongAt(w, PENULT, FALSE)
    <3>1. PENULT \in Nat /\ PENULT # 0
      BY DEF PENULT
    <3> QED BY <3>1, NotFinal
  <2>2. f = TRUE \/ f = FALSE
    BY <1>0
  <2>3. LongAt(w, PENULT, f) <=> LongAt(w, PENULT, TRUE)
    <3> HIDE DEF f
    <3> QED BY <2>1, <2>2, Zenon
  <2> QED BY <2>3 DEF LongAt
<1>6. \E takes \in BOOLEAN :
      r = IF long
          THEN IF PENULT < nsylls(w) THEN addaccent(w, ACUTE, getsyll(w, PENULT))
               ELSE addaccent(w, IF takes THEN CIRCUMFLEX ELSE ACUTE, getsyll(w, ULTIMA))
          ELSE IF ANTEPENULT < nsylls(w)
               THEN addaccent(w, ACUTE, getsyll(w, ANTEPENULT))
          ELSE addaccent(w, IF LongAt(w, PENULT, f) THEN CIRCUMFLEX ELSE ACUTE,
                         IF PENULT < nsylls(w) THEN getsyll(w, PENULT)
                         ELSE getsyll(w, ULTIMA))
  <2>1. /\ getsyll(w, PENULT) # P_ERR <=> PENULT < nsylls(w)
        /\ getsyll(w, PENULT) = P_ERR <=> ~ (PENULT < nsylls(w))
        /\ getsyll(w, ANTEPENULT) # P_ERR <=> ANTEPENULT < nsylls(w)
    BY <1>1 DEF PENULT, ANTEPENULT
  <2>2. (Is_oblique(end) /\ ~ ("CONTRACTED" \in end.flags)) = Is_oblique(end)
    BY <1>0 DEF Plain
  <2>3. ulttakescirc(end) \in BOOLEAN
    BY DEF ulttakescirc
  <2> HIDE DEF long, f
  <2> QED BY <1>1, <1>2, <2>1, <2>2, <2>3 DEF fixnacc2, Plain
<1>7. PICK takes \in BOOLEAN :
      r = IF long
          THEN IF PENULT < nsylls(w) THEN addaccent(w, ACUTE, getsyll(w, PENULT))
               ELSE addaccent(w, IF takes THEN CIRCUMFLEX ELSE ACUTE, getsyll(w, ULTIMA))
          ELSE IF ANTEPENULT < nsylls(w)
               THEN addaccent(w, ACUTE, getsyll(w, ANTEPENULT))
          ELSE addaccent(w, IF LongAt(w, PENULT, f) THEN CIRCUMFLEX ELSE ACUTE,
                         IF PENULT < nsylls(w) THEN getsyll(w, PENULT)
                         ELSE getsyll(w, ULTIMA))
  BY <1>6, Zenon
<1> HIDE DEF long, r, f
<1>8. CASE nsylls(w) = 1
  <2> DEFINE accent == IF long /\ takes THEN CIRCUMFLEX ELSE ACUTE
  <2>1. ~ (PENULT < nsylls(w)) /\ ~ (ANTEPENULT < nsylls(w))
    BY <1>8 DEF PENULT, ANTEPENULT
  <2>2. r = addaccent(w, accent, getsyll(w, ULTIMA))
    BY <1>3, <1>7, <2>1, Zenon
  <2>3. accent \in {ACUTE, CIRCUMFLEX} /\ (accent = CIRCUMFLEX => long)
    BY DEF ACUTE, CIRCUMFLEX
  <2> HIDE DEF accent
  <2>4. Suits(w, ULTIMA, accent, f)
    <3>1. /\ ULTIMA \in ULTIMA .. ANTEPENULT /\ ULTIMA < nsylls(w)
          /\ ULTIMA # ANTEPENULT /\ ULTIMA # PENULT
      BY <1>8 DEF ULTIMA, PENULT, ANTEPENULT
    <3> QED BY <2>3, <3>1, Zenon DEF Suits, long
  <2>5. Suited(r, w, f)
    BY <2>2, <2>4, Zenon DEF Suited
  <2> QED BY <2>5 DEF r, f
<1>9. CASE nsylls(w) > 1 /\ (long \/ nsylls(w) = 2)
  <2> DEFINE accent == IF ~ long /\ LongAt(w, PENULT, f) THEN CIRCUMFLEX ELSE ACUTE
  <2>1. PENULT < nsylls(w) /\ (nsylls(w) = 2 => ~ (ANTEPENULT < nsylls(w)))
    BY <1>1, <1>9 DEF PENULT, ANTEPENULT
  <2>2. r = addaccent(w, accent, getsyll(w, PENULT))
    BY <1>7, <1>9, <2>1, Zenon
  <2>3. /\ accent \in {ACUTE, CIRCUMFLEX}
        /\ accent = CIRCUMFLEX <=> ~ long /\ LongAt(w, PENULT, f)
    BY DEF ACUTE, CIRCUMFLEX
  <2> HIDE DEF accent
  <2>4. Suits(w, PENULT, accent, f)
    <3>1. PENULT \in ULTIMA .. ANTEPENULT /\ PENULT # ANTEPENULT
      BY DEF ULTIMA, PENULT, ANTEPENULT
    <3> QED BY <1>3, <2>1, <2>3, <3>1, Zenon DEF Suits, long
  <2>5. Suited(r, w, f)
    BY <2>2, <2>4, Zenon DEF Suited
  <2> QED BY <2>5 DEF r, f
<1>10. CASE nsylls(w) > 2 /\ ~ long
  <2>1. ANTEPENULT < nsylls(w)
    BY <1>1, <1>10 DEF ANTEPENULT
  <2>2. r = addaccent(w, ACUTE, getsyll(w, ANTEPENULT))
    BY <1>7, <1>10, <2>1, Zenon
  <2>3. Suits(w, ANTEPENULT, ACUTE, f)
    <3>1. /\ ANTEPENULT \in ULTIMA .. ANTEPENULT
          /\ ANTEPENULT # PENULT /\ ACUTE # CIRCUMFLEX
      BY DEF ULTIMA, PENULT, ANTEPENULT, ACUTE, CIRCUMFLEX
    <3> QED BY <1>10, <2>1, <3>1, Zenon DEF Suits, long
  <2>4. Suited(r, w, f)
    BY <2>2, <2>3, Zenon DEF Suited
  <2> QED BY <2>4 DEF r, f
<1>11. \/ nsylls(w) = 1
       \/ nsylls(w) > 1 /\ (long \/ nsylls(w) = 2)
       \/ nsylls(w) > 2 /\ ~ long
  BY <1>1
<1> QED BY <1>8, <1>9, <1>10, <1>11, Zenon

\* A word that ends in a word that is accented where it suits.
LEMMA SuitedOn ==
  ASSUME NEW u, NEW v, Joint(u, v), NEW r, NEW f \in BOOLEAN, Suited(r, v, f)
  PROVE  Suited(u \o r, u \o v, f)
<1>1. PICK s, accent : r = addaccent(v, accent, getsyll(v, s)) /\ Suits(v, s, accent, f)
  BY DEF Suited
<1>2. Suits(u \o v, s, accent, f) /\ s \in Nat /\ s < nsylls(v)
  BY <1>1, SuitsOn
<1>3. accent \in {ACUTE, CIRCUMFLEX}
  BY <1>1, Zenon DEF Suits
<1>4. u \o r = addaccent(u \o v, accent, getsyll(u \o v, s))
  BY <1>1, <1>2, <1>3, TailAccent
<1> QED BY <1>2, <1>4, Zenon DEF Suited

\* The last syllable begins a word of its own.
LEMMA LastSyllable ==
  ASSUME NEW w, Spelled(w), 0 < nsylls(w)
  PROVE  LET p == getsyll2(w, ULTIMA)
             u == SubSeq(w, 1, p - 1)
             v == SubSeq(w, p, Len(w))
         IN  u \o v = w /\ Joint(u, v) /\ 0 < nsylls(v)
<1> DEFINE q == getsyll(w, ULTIMA)
           p == getsyll2(w, ULTIMA)
           u == SubSeq(w, 1, p - 1)
           v == SubSeq(w, p, Len(w))
<1>1. /\ Len(w) \in Nat /\ w \in Seq(Letters)
      /\ \A i \in 1 .. Len(w) : At(w, i) = w[i]
      /\ \A i : i \in Vowels(w) <=> i \in 1 .. Len(w) /\ w[i] \in {"a", "i", "w"}
  BY Spelling DEF Spelled
<1>2. p \in Nuclei(w)
  <2>1. Heard(w, ULTIMA, q)
    <3>1. ULTIMA \in Nat /\ ULTIMA < nsylls(w)
      BY DEF ULTIMA
    <3> QED BY <3>1, Hearing
  <2>2. q \in Vowels(w) /\ q \in 1 .. Len(w) /\ q # P_ERR /\ nsylls(w) # 0
    BY <1>1, <2>1 DEF Heard, P_ERR
  <2>3. is_diphth(q, w) <=> Second(w, q)
    BY <2>2, Spelling
  <2>4. p = IF Second(w, q) THEN q - 1 ELSE q
    BY <2>2, <2>3 DEF getsyll2
  <2>5. Second(w, q) => q - 1 \in Nuclei(w)
    BY Spelling
  <2>6. ~ Second(w, q) => q \in Nuclei(w)
    BY <2>2, Spelling
  <2> HIDE DEF p, q
  <2> QED BY <2>4, <2>5, <2>6
<1> HIDE DEF p
<1>3. /\ p \in 1 .. Len(w) /\ w[p] \in {"a", "i", "w"} /\ ~ Second(w, p)
  <2>1. p \in Vowels(w) /\ ~ Second(w, p)
    BY <1>2, Spelling
  <2> QED BY <1>1, <2>1
<1>4. /\ u \in Seq(Letters) /\ Len(u) = p - 1
      /\ \A i \in 1 .. Len(u) : u[i] = w[i]
  BY <1>1, <1>3
<1>5. /\ v \in Seq(Letters) /\ Len(v) = Len(w) - p + 1
      /\ \A i \in 1 .. Len(v) : v[i] = w[p - 1 + i]
  BY <1>1, <1>3
<1> HIDE DEF u, v
<1>6. u \o v = w
  <2> DEFINE x == u \o v
  <2>1. /\ x \in Seq(Letters) /\ Len(x) = Len(u) + Len(v)
        /\ \A i \in 1 .. Len(u) : x[i] = u[i]
        /\ \A i \in 1 .. Len(v) : x[Len(u) + i] = v[i]
    <3>1. u \in Seq(Letters) /\ v \in Seq(Letters)
      BY <1>4, <1>5
    <3> QED BY <3>1, Joining
  <2> HIDE DEF x
  <2>2. Len(x) = Len(w)
    BY <1>1, <1>3, <1>4, <1>5, <2>1
  <2>3. ASSUME NEW i \in 1 .. Len(x) PROVE x[i] = w[i]
    <3>1. CASE i <= Len(u)
      <4>1. i \in 1 .. Len(u)
        BY <1>3, <1>4, <3>1
      <4> QED BY <1>4, <2>1, <4>1
    <3>2. CASE i > Len(u)
      <4> DEFINE k == i - Len(u)
      <4>1. k \in 1 .. Len(v) /\ Len(u) + k = i /\ p - 1 + k = i
        BY <1>1, <1>3, <1>4, <1>5, <2>1, <3>2
      <4> HIDE DEF k
      <4>2. x[Len(u) + k] = v[k] /\ v[k] = w[p - 1 + k]
        BY <1>5, <2>1, <4>1
      <4> QED BY <4>1, <4>2
    <3> QED BY <1>1, <1>3, <1>4, <2>2, <3>1, <3>2
  <2>4. x = w
    BY <1>1, <2>1, <2>2, <2>3, SameSequence
  <2> QED BY <2>4 DEF x
<1>7. /\ \A i \in Int : i < p => At(u, i) = At(w, i)
      /\ \A i \in Int : i >= 1 => At(v, i) = At(w, p - 1 + i)
  <2>1. ASSUME NEW i \in Int, i < p PROVE At(u, i) = At(w, i)
    <3>1. i \in 1 .. Len(u) <=> i \in 1 .. Len(w)
      BY <1>1, <1>3, <1>4, <2>1
    <3> QED BY <1>4, <3>1 DEF At
  <2>2. ASSUME NEW i \in Int, i >= 1 PROVE At(v, i) = At(w, p - 1 + i)
    <3>1. i \in 1 .. Len(v) <=> p - 1 + i \in 1 .. Len(w)
      BY <1>1, <1>3, <1>5, <2>2
    <3> QED BY <1>5, <3>1 DEF At
  <2> QED BY <2>1, <2>2
<1>8. Spelled(u)
  <2> SUFFICES ASSUME NEW i \in 1 .. Len(u)
               PROVE  /\ u[i] = "a" => i = 1 \/ At(u, i - 1) = "k"
                      /\ u[i] = HARDLONG => At(u, i - 1) = "a"
                      /\ u[i] = "+" => At(u, i - 1) = "i"
                      /\ u[i] = "i" => At(u, i + 1) = "+" \/ At(u, i - 1) = "a"
    BY <1>4 DEF Spelled
  <2>1. u[i] = w[i] /\ At(u, i - 1) = At(w, i - 1) /\ i \in 1 .. Len(w) /\ i < p
    <3>1. i \in Int /\ i <= Len(u) /\ i >= 1
      BY <1>3, <1>4
    <3>2. i < p /\ i - 1 < p /\ i - 1 \in Int /\ i \in 1 .. Len(w)
      BY <1>1, <1>3, <1>4, <3>1
    <3> QED BY <1>4, <1>7, <3>2
  <2>2. At(w, i + 1) = "+" => At(u, i + 1) = "+"
    <3>1. CASE i + 1 < p
      BY <1>7, <3>1
    <3>2. CASE i + 1 = p
      <4>1. At(w, i + 1) = w[p]
        BY <1>1, <1>3, <3>2
      <4> QED BY <1>3, <4>1
    <3> QED BY <1>3, <2>1, <3>1, <3>2
  <2> QED BY <2>1, <2>2 DEF Spelled
<1>9. Spelled(v)
  <2> SUFFICES ASSUME NEW i \in 1 .. Len(v)
               PROVE  /\ v[i] = "a" => i = 1 \/ At(v, i - 1) = "k"
                      /\ v[i] = HARDLONG => At(v, i - 1) = "a"
                      /\ v[i] = "+" => At(v, i - 1) = "i"
                      /\ v[i] = "i" => At(v, i + 1) = "+" \/ At(v, i - 1) = "a"
    BY <1>5 DEF Spelled
  <2> DEFINE j == p - 1 + i
  <2>1. v[i] = w[j] /\ j \in 1 .. Len(w) /\ j >= p /\ i \in Int /\ i >= 1
    BY <1>1, <1>3, <1>5
  <2>2. At(v, i + 1) = At(w, j + 1)
    <3>1. i + 1 \in Int /\ i + 1 >= 1 /\ p - 1 + (i + 1) = j + 1
      BY <1>1, <1>3, <2>1
    <3> QED BY <1>7, <3>1
  <2>3. CASE i = 1
    <3>1. j = p
      BY <1>1, <1>3, <2>3
    <3>2. w[p] = "i" => At(w, p + 1) = "+"
      BY <1>3 DEF Second
    <3> HIDE DEF j
    <3> QED BY <1>3, <2>1, <2>2, <2>3, <3>1, <3>2 DEF HARDLONG
  <2>4. CASE i # 1
    <3>1. At(v, i - 1) = At(w, j - 1) /\ j # 1
      <4>1. i - 1 \in Int /\ i - 1 >= 1 /\ p - 1 + (i - 1) = j - 1 /\ j # 1
        BY <1>1, <1>3, <2>1, <2>4
      <4> QED BY <1>7, <4>1
    <3> HIDE DEF j
    <3> QED BY <2>1, <2>2, <3>1 DEF Spelled
  <2> QED BY <2>3, <2>4
<1>10. Joint(u, v)
  <2>1. Len(v) > 0
    BY <1>1, <1>3, <1>5
  <2>2. v # <<>>
    BY <2>1
  <2> QED BY <1>6, <1>8, <1>9, <2>2 DEF Joint
<1>11. 0 < nsylls(v)
  <2>1. 1 \in Nuclei(v)
    <3>1. Len(u) + 1 = p /\ 1 \in Int /\ 1 >= 1
      BY <1>1, <1>3, <1>4
    <3>2. Len(u) + 1 \in Nuclei(u \o v) <=> 1 \in Nuclei(v)
      BY <1>10, <3>1, PartVowels
    <3> QED BY <1>2, <1>6, <3>1, <3>2
  <2>2. After(v, 1) < nsylls(v) /\ After(v, 1) \in 0 .. nsylls(v) /\ nsylls(v) \in Nat
    <3>1. 1 \in Int /\ 1 <= 1
      OBVIOUS
    <3> QED BY <1>9, <2>1, <3>1, Counting
  <2> QED BY <2>2
<1> QED BY <1>6, <1>10, <1>11 DEF u, v, p

\* The quantities that the accents of nouns ask for.
LEMMA Asked ==
  ASSUME NEW x, Spelled(x), NEW n \in Nat, NEW o \in BOOLEAN
  PROVE  /\ getquantity(x, n, TRUE, o) = quantprim(x, n, TRUE, o)
         /\ getquantity(x, n, FALSE, o) = quantprim(x, n, FALSE, o)
         /\ quantprim(x, n, TRUE, o) = LONG <=> LongAt(x, n, ~ o)
         /\ quantprim(x, n, FALSE, o) = LONG <=> LongAt(x, n, FALSE)
         /\ quantprim(x, n, TRUE, o) = SHORT <=> n < nsylls(x) /\ ~ LongAt(x, n, ~ o)
         /\ quantprim(x, n, FALSE, o) = SHORT <=> n < nsylls(x) /\ ~ LongAt(x, n, FALSE)
<1>1. \A end, oblique \in BOOLEAN :
        /\ quantprim(x, n, end, oblique) =
             IF LongAt(x, n, end /\ ~ oblique) THEN LONG
             ELSE IF n < nsylls(x) THEN SHORT ELSE I_ERR
        /\ getquantity(x, n, end, oblique) = quantprim(x, n, end, oblique)
  BY Quantities
<1>2. (TRUE /\ ~ o) = (~ o) /\ (FALSE /\ ~ o) = FALSE /\ TRUE \in BOOLEAN /\ FALSE \in BOOLEAN
  OBVIOUS
<1>3. LONG # SHORT /\ LONG # I_ERR /\ SHORT # I_ERR
  BY DEF LONG, SHORT, I_ERR
<1>4. /\ getquantity(x, n, TRUE, o) = quantprim(x, n, TRUE, o)
      /\ getquantity(x, n, FALSE, o) = quantprim(x, n, FALSE, o)
  BY <1>1, <1>2, Zenon
<1>5. quantprim(x, n, TRUE, o) = IF LongAt(x, n, ~ o) THEN LONG
                                 ELSE IF n < nsylls(x) THEN SHORT ELSE I_ERR
  BY <1>1, <1>2, Zenon
<1>6. quantprim(x, n, FALSE, o) = IF LongAt(x, n, FALSE) THEN LONG
                                  ELSE IF n < nsylls(x) THEN SHORT ELSE I_ERR
  BY <1>1, <1>2, Zenon
<1>7. /\ quantprim(x, n, TRUE, o) = LONG <=> LongAt(x, n, ~ o)
      /\ quantprim(x, n, TRUE, o) = SHORT <=> n < nsylls(x) /\ ~ LongAt(x, n, ~ o)
  BY <1>3, <1>5, Zenon
<1>8. /\ quantprim(x, n, FALSE, o) = LONG <=> LongAt(x, n, FALSE)
      /\ quantprim(x, n, FALSE, o) = SHORT <=> n < nsylls(x) /\ ~ LongAt(x, n, FALSE)
  BY <1>3, <1>6, Zenon
<1> QED BY <1>4, <1>7, <1>8, Zenon

\* A stem and an ending, neither of which asks for anything special.
Wed(stem, end, f) ==
  /\ Joint(stem.text, end.text) /\ 0 < nsylls(stem.text \o end.text)
  /\ Plain(stem.flags) /\ Plain(end.flags)
  /\ f = (~ Is_oblique(end))
  /\ \/ nsylls(end.text) < 2
     \/ nsylls(end.text) = 2 /\ ~ LongAt(end.text, ULTIMA, f)

\* What a stem and an ending tell of the word they make.
LEMMA Together ==
  ASSUME NEW stem, NEW end, NEW f, Wed(stem, end, f)
  PROVE  LET u == stem.text
             v == end.text
             w == u \o v
             n == nsylls(v)
         IN  /\ Spelled(u) /\ Spelled(v) /\ Spelled(w)
             /\ f \in BOOLEAN /\ Is_oblique(end) \in BOOLEAN
             /\ nsylls(u) \in Nat /\ n \in Nat /\ nsylls(w) = nsylls(u) + n
             /\ n = 0 \/ n = 1 \/ n = 2
             /\ n = 2 => ~ LongAt(w, 0, f)
             /\ n > 0 => (LongAt(w, 0, f) <=> LongAt(v, 0, f))
             /\ \A s \in Nat : s < nsylls(u) =>
                  /\ LongAt(w, s + n, TRUE) <=> LongAt(u, s, FALSE)
                  /\ LongAt(w, s + n, f) <=> LongAt(u, s, FALSE)
<1> DEFINE u == stem.text
           v == end.text
           w == u \o v
           n == nsylls(v)
<1>1. Joint(u, v) /\ f = (~ Is_oblique(end))
      /\ (n < 2 \/ (n = 2 /\ ~ LongAt(v, 0, f)))
  BY DEF Wed, ULTIMA
<1> HIDE DEF u, v
<1>2. Spelled(u) /\ Spelled(v) /\ Spelled(w)
  BY <1>1 DEF Joint
<1>3. Is_oblique(end) \in BOOLEAN /\ (f = TRUE \/ f = FALSE)
  BY <1>1 DEF Is_oblique
<1>4. nsylls(u) \in Nat /\ n \in Nat
  BY <1>2, Counting
<1>5. nsylls(w) = nsylls(u) + n
  BY <1>1, PartCounts
<1>6. n > 0 => (LongAt(w, 0, f) <=> LongAt(v, 0, f))
  <2> SUFFICES ASSUME n > 0 PROVE LongAt(w, 0, f) <=> LongAt(v, 0, f)
    OBVIOUS
  <2>1. 0 \in Nat /\ 0 < n
    OBVIOUS
  <2>2. LongAt(w, 0, TRUE) <=> LongAt(v, 0, TRUE)
    BY <1>1, <2>1, PartQuantities
  <2>3. LongAt(w, 0, FALSE) <=> LongAt(v, 0, FALSE)
    BY <1>1, <2>1, PartQuantities
  <2> QED BY <1>3, <2>2, <2>3, Zenon
<1>7. ASSUME NEW s \in Nat, s < nsylls(u)
      PROVE  /\ LongAt(w, s + n, TRUE) <=> LongAt(u, s, FALSE)
             /\ LongAt(w, s + n, f) <=> LongAt(u, s, FALSE)
  <2>1. LongAt(w, s + n, TRUE) <=> LongAt(u, s, FALSE)
    BY <1>1, <1>7, PartQuantities
  <2>2. LongAt(w, s + n, FALSE) <=> LongAt(u, s, FALSE)
    BY <1>1, <1>7, PartQuantities
  <2> QED BY <1>3, <2>1, <2>2, Zenon
<1>8. n = 0 \/ n = 1 \/ n = 2
  <2>1. n < 2 \/ n = 2
    BY <1>1
  <2> HIDE DEF n
  <2> QED BY <1>4, <2>1
<1>9. n = 2 => ~ LongAt(w, 0, f)
  <2>1. n = 2 => n > 0 /\ ~ (n < 2)
    OBVIOUS
  <2> QED BY <1>1, <1>6, <2>1, Zenon
<1>10. f \in BOOLEAN
  BY <1>3
<1> QED BY <1>2, <1>3, <1>4, <1>5, <1>6, <1>7, <1>8, <1>9, <1>10, Zenon DEF u, v

\* The accent on the last syllable of the stem.
LEMMA OnStem ==
  ASSUME NEW stem, NEW end, NEW f, Wed(stem, end, f), 0 < nsylls(stem.text)
  PROVE  Suited(AccentStem(stem, end) \o end.text, stem.text \o end.text, f)
<1> DEFINE u == stem.text
           v == end.text
           w == u \o v
           n == nsylls(v)
           lu == LongAt(u, 0, FALSE)
           lv == LongAt(v, 0, f)
           accent == IF n = 1 /\ lu /\ ~ lv THEN CIRCUMFLEX ELSE ACUTE
           r == AccentStem(stem, end) \o v
<1>1. /\ Spelled(u) /\ Spelled(v) /\ Spelled(w)
      /\ f \in BOOLEAN /\ Is_oblique(end) \in BOOLEAN
      /\ nsylls(u) \in Nat /\ n \in Nat /\ nsylls(w) = nsylls(u) + n
      /\ n = 0 \/ n = 1 \/ n = 2
      /\ n = 2 => ~ LongAt(w, 0, f)
      /\ n > 0 => (LongAt(w, 0, f) <=> lv)
      /\ \A s \in Nat : s < nsylls(u) =>
           /\ LongAt(w, s + n, TRUE) <=> LongAt(u, s, FALSE)
           /\ LongAt(w, s + n, f) <=> LongAt(u, s, FALSE)
  BY Together
<1>2. /\ Joint(u, v) /\ Plain(stem.flags) /\ Plain(end.flags) /\ f = (~ Is_oblique(end))
  BY DEF Wed
<1> HIDE DEF w
<1>3. /\ quantprim(u, 0, FALSE, Is_oblique(end)) = LONG <=> lu
      /\ quantprim(v, 0, TRUE, Is_oblique(end)) = SHORT <=> 0 < n /\ ~ lv
  <2>1. 0 \in Nat
    OBVIOUS
  <2>2. quantprim(u, 0, FALSE, Is_oblique(end)) = LONG <=> lu
    BY <1>1, <2>1, Asked
  <2>3. quantprim(v, 0, TRUE, Is_oblique(end)) = SHORT
          <=> 0 < n /\ ~ LongAt(v, 0, ~ Is_oblique(end))
    BY <1>1, <2>1, Asked
  <2> QED BY <1>2, <2>2, <2>3, Zenon
<1>4. AccentStem(stem, end) = addaccent(u, accent, getsyll(u, 0))
  <2>1. "ENCLITIC" \notin end.flags /\ "ACCENT_OPTIONAL" \notin end.flags
        /\ "CONTRACTED" \notin stem.flags
    BY <1>2 DEF Plain
  <2>2. n = 1 => 0 < n
    OBVIOUS
  <2> HIDE DEF lu, lv
  <2>3. AccentStem(stem, end) =
          IF n = 1 /\ lu /\ quantprim(v, 0, TRUE, Is_oblique(end)) = SHORT
          THEN addaccent(u, CIRCUMFLEX, getsyll(u, 0))
          ELSE addaccent(u, ACUTE, getsyll(u, 0))
    BY <1>3, <2>1, Zenon DEF AccentStem, ULTIMA
  <2> QED BY <1>3, <2>2, <2>3, Zenon
<1>5. accent \in {ACUTE, CIRCUMFLEX} /\ ACUTE # CIRCUMFLEX
      /\ (accent = CIRCUMFLEX <=> n = 1 /\ lu /\ ~ lv)
  BY DEF ACUTE, CIRCUMFLEX
<1>6. r = addaccent(w, accent, getsyll(w, n))
  <2>1. 0 \in Nat /\ 0 < nsylls(u) /\ 0 + n = n
    BY <1>1
  <2> HIDE DEF accent
  <2>2. addaccent(u, accent, getsyll(u, 0)) \o v = addaccent(w, accent, getsyll(w, 0 + n))
    BY <1>2, <1>5, <2>1, HeadAccent, Zenon DEF w
  <2> QED BY <1>4, <2>1, <2>2
<1> HIDE DEF accent, r
<1>7. /\ LongAt(w, n, TRUE) <=> lu
      /\ LongAt(w, n, f) <=> lu
  <2>1. 0 \in Nat /\ 0 < nsylls(u) /\ 0 + n = n
    BY <1>1
  <2>2. /\ LongAt(w, 0 + n, TRUE) <=> lu
        /\ LongAt(w, 0 + n, f) <=> lu
    BY <1>1, <2>1, Zenon
  <2> QED BY <2>1, <2>2
<1>8. n \in 0 .. 2 /\ n < nsylls(w)
  <2> HIDE DEF u, v, n, lu, lv
  <2>1. 0 < nsylls(u)
    BY DEF u
  <2> QED BY <1>1, <2>1
<1>9. Suits(w, n, accent, f)
  <2>1. n = 2 => n # 1
    OBVIOUS
  <2>2. n = 2 => accent = ACUTE /\ ~ LongAt(w, 0, f)
    BY <1>1, <1>5, <2>1
  <2>3. n = 1 /\ LongAt(w, 1, TRUE) => (accent = CIRCUMFLEX <=> ~ LongAt(w, 0, f))
    <3> SUFFICES ASSUME n = 1, LongAt(w, n, TRUE)
                 PROVE  accent = CIRCUMFLEX <=> ~ LongAt(w, 0, f)
      OBVIOUS
    <3>1. n > 0
      OBVIOUS
    <3>2. lu /\ (LongAt(w, 0, f) <=> lv)
      BY <1>1, <1>7, <3>1
    <3> QED BY <1>5, <3>2
  <2>4. accent = CIRCUMFLEX => LongAt(w, n, f)
    BY <1>5, <1>7
  <2> HIDE DEF u, v, n, lu, lv
  <2> QED BY <1>5, <1>8, <2>2, <2>3, <2>4, Zenon DEF Suits, ULTIMA, PENULT, ANTEPENULT
<1>10. Suited(r, w, f)
  BY <1>6, <1>9, Zenon DEF Suited
<1> QED BY <1>10 DEF r, w

\* Accents that suit the last syllables but one and two.
LEMMA Suiting ==
  ASSUME NEW w, NEW f
  PROVE  /\ 1 < nsylls(w) /\ LongAt(w, 1, f) /\ ~ LongAt(w, 0, f)
           => Suits(w, 1, CIRCUMFLEX, f)
         /\ 1 < nsylls(w) /\ (LongAt(w, 1, TRUE) => LongAt(w, 0, f))
           => Suits(w, 1, ACUTE, f)
         /\ 2 < nsylls(w) /\ ~ LongAt(w, 0, f) => Suits(w, 2, ACUTE, f)
<1>1. /\ ACUTE # CIRCUMFLEX /\ 1 # 2 /\ 2 # 1
      /\ 1 \in 0 .. 2 /\ 2 \in 0 .. 2
  BY DEF ACUTE, CIRCUMFLEX
<1>2. ASSUME 1 < nsylls(w), LongAt(w, 1, f), ~ LongAt(w, 0, f)
      PROVE  Suits(w, 1, CIRCUMFLEX, f)
  BY <1>1, <1>2, Zenon DEF Suits, ULTIMA, PENULT, ANTEPENULT
<1>3. ASSUME 1 < nsylls(w), LongAt(w, 1, TRUE) => LongAt(w, 0, f)
      PROVE  Suits(w, 1, ACUTE, f)
  BY <1>1, <1>3, Zenon DEF Suits, ULTIMA, PENULT, ANTEPENULT
<1>4. ASSUME 2 < nsylls(w), ~ LongAt(w, 0, f)
      PROVE  Suits(w, 2, ACUTE, f)
  BY <1>1, <1>4, Zenon DEF Suits, ULTIMA, PENULT, ANTEPENULT
<1> QED BY <1>2, <1>3, <1>4, Zenon

\* The accent before the last syllable of the stem.
LEMMA BeforeStem ==
  ASSUME NEW stem, NEW end, NEW f, Wed(stem, end, f), 1 < nsylls(stem.text)
  PROVE  Suited(AccentBeforeStem(stem, end) \o end.text, stem.text \o end.text, f)
<1> DEFINE u == stem.text
           v == end.text
           w == u \o v
           n == nsylls(v)
           l0 == LongAt(u, 0, FALSE)
           l1 == LongAt(u, 1, FALSE)
           lv == LongAt(v, 0, f)
           r == AccentBeforeStem(stem, end) \o v
<1>1. /\ Spelled(u) /\ Spelled(v) /\ Spelled(w)
      /\ f \in BOOLEAN /\ Is_oblique(end) \in BOOLEAN
      /\ nsylls(u) \in Nat /\ n \in Nat /\ nsylls(w) = nsylls(u) + n
      /\ n = 0 \/ n = 1 \/ n = 2
      /\ n = 2 => ~ LongAt(w, 0, f)
      /\ n > 0 => (LongAt(w, 0, f) <=> lv)
      /\ \A s \in Nat : s < nsylls(u) =>
           /\ LongAt(w, s + n, TRUE) <=> LongAt(u, s, FALSE)
           /\ LongAt(w, s + n, f) <=> LongAt(u, s, FALSE)
  BY Together
<1>2. /\ Joint(u, v) /\ Plain(stem.flags) /\ Plain(end.flags) /\ f = (~ Is_oblique(end))
  BY DEF Wed
<1> HIDE DEF w
<1>3. /\ getquantity(u, 1, FALSE, Is_oblique(end)) = LONG <=> l1
      /\ getquantity(u, 0, FALSE, Is_oblique(end)) = SHORT <=> ~ l0
      /\ getquantity(v, 0, TRUE, Is_oblique(end)) = LONG <=> lv
  <2>1. 0 \in Nat /\ 1 \in Nat /\ 0 < nsylls(u) /\ 1 < nsylls(u)
    BY <1>1
  <2>5. ASSUME NEW s \in Nat, s < nsylls(u)
        PROVE  /\ getquantity(u, s, FALSE, Is_oblique(end)) = LONG <=> LongAt(u, s, FALSE)
               /\ getquantity(u, s, FALSE, Is_oblique(end)) = SHORT <=> ~ LongAt(u, s, FALSE)
    <3>1. /\ getquantity(u, s, FALSE, Is_oblique(end)) = quantprim(u, s, FALSE, Is_oblique(end))
          /\ quantprim(u, s, FALSE, Is_oblique(end)) = LONG <=> LongAt(u, s, FALSE)
          /\ quantprim(u, s, FALSE, Is_oblique(end)) = SHORT
               <=> s < nsylls(u) /\ ~ LongAt(u, s, FALSE)
      BY <1>1, Asked
    <3> QED BY <2>5, <3>1, Zenon
  <2>2. getquantity(u, 1, FALSE, Is_oblique(end)) = LONG <=> l1
    BY <2>1, <2>5, Zenon
  <2>3. getquantity(u, 0, FALSE, Is_oblique(end)) = SHORT <=> ~ l0
    BY <2>1, <2>5, Zenon
  <2>4. getquantity(v, 0, TRUE, Is_oblique(end)) = LONG <=> LongAt(v, 0, ~ Is_oblique(end))
    BY <1>1, <2>1, Asked
  <2> QED BY <1>2, <2>2, <2>3, <2>4, Zenon
<1>4. AccentBeforeStem(stem, end) =
        IF n = 0 /\ l1 /\ ~ l0 THEN addaccent(u, CIRCUMFLEX, getsyll(u, 1))
        ELSE IF n > 1 \/ lv THEN addaccent(u, ACUTE, getsyll(u, 0))
        ELSE addaccent(u, ACUTE, getsyll(u, 1))
  <2>1. "ENCLITIC" \notin end.flags
    BY <1>2 DEF Plain
  <2> HIDE DEF l0, l1, lv
  <2> QED BY <1>3, <2>1, Zenon DEF AccentBeforeStem, ULTIMA, PENULT
<1>5. /\ addaccent(u, CIRCUMFLEX, getsyll(u, 1)) \o v
         = addaccent(w, CIRCUMFLEX, getsyll(w, 1 + n))
      /\ addaccent(u, ACUTE, getsyll(u, 1)) \o v = addaccent(w, ACUTE, getsyll(w, 1 + n))
      /\ addaccent(u, ACUTE, getsyll(u, 0)) \o v = addaccent(w, ACUTE, getsyll(w, 0 + n))
  <2>1. 0 \in Nat /\ 1 \in Nat /\ 0 < nsylls(u) /\ 1 < nsylls(u)
        /\ ACUTE \in {ACUTE, CIRCUMFLEX} /\ CIRCUMFLEX \in {ACUTE, CIRCUMFLEX}
    BY <1>1
  <2>2. addaccent(u, CIRCUMFLEX, getsyll(u, 1)) \o v
        = addaccent(w, CIRCUMFLEX, getsyll(w, 1 + n))
    BY <1>2, <2>1, HeadAccent, Zenon DEF w
  <2>3. addaccent(u, ACUTE, getsyll(u, 1)) \o v = addaccent(w, ACUTE, getsyll(w, 1 + n))
    BY <1>2, <2>1, HeadAccent, Zenon DEF w
  <2>4. addaccent(u, ACUTE, getsyll(u, 0)) \o v = addaccent(w, ACUTE, getsyll(w, 0 + n))
    BY <1>2, <2>1, HeadAccent, Zenon DEF w
  <2> QED BY <2>2, <2>3, <2>4
<1>6. /\ LongAt(w, 0 + n, TRUE) <=> l0
      /\ LongAt(w, 0 + n, f) <=> l0
      /\ LongAt(w, 1 + n, TRUE) <=> l1
      /\ LongAt(w, 1 + n, f) <=> l1
  <2>1. 0 \in Nat /\ 1 \in Nat /\ 0 < nsylls(u) /\ 1 < nsylls(u)
    BY <1>1
  <2> QED BY <1>1, <2>1, Zenon
<1>7. nsylls(w) > 1 + n
  BY <1>1
<1>8. ~ LongAt(v, 0, f) \/ n # 0
  BY DEF LongAt
<1> SUFFICES Suited(r, w, f)
  BY DEF w
<1>9. CASE n = 0
  <2>1. 1 + n = 1 /\ 0 + n = 0 /\ 1 < nsylls(w) /\ ~ (n > 1) /\ ~ lv
    BY <1>7, <1>8, <1>9
  <2>2. /\ LongAt(w, 0, f) <=> l0
        /\ LongAt(w, 1, TRUE) <=> l1
        /\ LongAt(w, 1, f) <=> l1
    BY <1>6, <2>1
  <2>3. CASE l1 /\ ~ l0
    <3>1. r = addaccent(w, CIRCUMFLEX, getsyll(w, 1))
      BY <1>4, <1>5, <1>9, <2>1, <2>3, Zenon
    <3>2. Suits(w, 1, CIRCUMFLEX, f)
      BY <2>1, <2>2, <2>3, Suiting, Zenon
    <3> QED BY <3>1, <3>2, Zenon DEF Suited
  <2>4. CASE ~ (l1 /\ ~ l0)
    <3>1. r = addaccent(w, ACUTE, getsyll(w, 1))
      BY <1>4, <1>5, <1>9, <2>1, <2>4, Zenon
    <3>2. Suits(w, 1, ACUTE, f)
      BY <2>1, <2>2, <2>4, Suiting, Zenon
    <3> QED BY <3>1, <3>2, Zenon DEF Suited
  <2> QED BY <2>3, <2>4
<1>10. CASE n = 1
  <2>1. 1 + n = 2 /\ 0 + n = 1 /\ 1 < nsylls(w) /\ 2 < nsylls(w)
        /\ ~ (n > 1) /\ n # 0 /\ n > 0
    BY <1>1, <1>7, <1>10
  <2>2. LongAt(w, 0, f) <=> lv
    BY <1>1, <2>1, Zenon
  <2>3. CASE lv
    <3>1. r = addaccent(w, ACUTE, getsyll(w, 1))
      BY <1>4, <1>5, <2>1, <2>3, Zenon
    <3>2. Suits(w, 1, ACUTE, f)
      BY <2>1, <2>2, <2>3, Suiting, Zenon
    <3> QED BY <3>1, <3>2, Zenon DEF Suited
  <2>4. CASE ~ lv
    <3>1. r = addaccent(w, ACUTE, getsyll(w, 2))
      BY <1>4, <1>5, <2>1, <2>4, Zenon
    <3>2. Suits(w, 2, ACUTE, f)
      BY <2>1, <2>2, <2>4, Suiting, Zenon
    <3> QED BY <3>1, <3>2, Zenon DEF Suited
  <2> QED BY <2>3, <2>4
<1>11. CASE n = 2
  <2>1. 0 + n = 2 /\ 2 < nsylls(w) /\ n > 1 /\ n # 0
    BY <1>1, <1>7, <1>11
  <2>2. r = addaccent(w, ACUTE, getsyll(w, 2))
    BY <1>4, <1>5, <2>1, Zenon
  <2>3. Suits(w, 2, ACUTE, f)
    BY <1>1, <1>11, <2>1, Suiting, Zenon
  <2> QED BY <2>2, <2>3, Zenon DEF Suited
<1> QED BY <1>1, <1>9, <1>10, <1>11

\* The last syllable, accented by itself, in its word.
LEMMA FromLast ==
  ASSUME NEW w, Spelled(w), 0 < nsylls(w), NEW end, Plain(end.flags)
  PROVE  Suited(SubSeq(w, 1, getsyll2(w, ULTIMA) - 1)
                  \o fixnacc2(SubSeq(w, getsyll2(w, ULTIMA), Len(w)), end),
                w, ~ Is_oblique(end))
<1> DEFINE u == SubSeq(w, 1, getsyll2(w, ULTIMA) - 1)
           v == SubSeq(w, getsyll2(w, ULTIMA), Len(w))
           f == ~ Is_oblique(end)
           r == fixnacc2(v, end)
<1>1. u \o v = w /\ Joint(u, v) /\ 0 < nsylls(v)
  BY LastSyllable
<1> HIDE DEF u, v
<1>2. Spelled(v) /\ f \in BOOLEAN
  BY <1>1 DEF Joint, Is_oblique
<1>3. Suited(r, v, f)
  BY <1>1, <1>2, Settling
<1> HIDE DEF r, f
<1>4. Suited(u \o r, u \o v, f)
  BY <1>1, <1>2, <1>3, SuitedOn
<1> QED BY <1>1, <1>4 DEF u, v, f, r

\* FixPersAcc2 accents a stem and its ending where it suits their word.
LEMMA Joined ==
  ASSUME NEW stem, NEW end, NEW f, Wed(stem, end, f),
         NEW penult, NEW antepen
  PROVE  Suited(FixPersAcc2(stem, end, penult, antepen), stem.text \o end.text, f)
<1> DEFINE u == stem.text
           v == end.text
           w == u \o v
           third == is_thirdmono(stem, end)
           From(x, p) == SubSeq(x, 1, p - 1) \o fixnacc2(SubSeq(x, p, Len(x)), end)
           r == FixPersAcc2(stem, end, penult, antepen)
<1>1. /\ Spelled(u) /\ Spelled(v) /\ Spelled(w) /\ f \in BOOLEAN
      /\ nsylls(u) \in Nat /\ nsylls(v) \in Nat /\ nsylls(w) = nsylls(u) + nsylls(v)
  BY Together
<1>2. /\ Joint(u, v) /\ Plain(end.flags) /\ f = (~ Is_oblique(end)) /\ 0 < nsylls(w)
  BY DEF Wed
<1>3. /\ "ACCENT_OPTIONAL" \notin end.flags /\ "PROCLITIC" \notin end.flags
      /\ ~ ({"ACCENT_OPTIONAL", "ENCLITIC"} \subseteq end.flags)
  BY <1>2 DEF Plain
<1>4. ~ hasaccent(w)
  BY <1>1, Unmarked
<1>5. ~ (nsylls(u) = 0 /\ nsylls(v) = 0)
  BY <1>1, <1>2
<1>6. r = IF third /\ nsylls(v) = 2 THEN u \o From(v, getsyll2(v, ULTIMA))
          ELSE IF "SUFF_ACC" \in stem.flags \/ third \/ nsylls(u) = 0
               THEN IF nsylls(v) >= 1 THEN u \o fixnacc2(v, end)
                    ELSE From(w, getsyll2(w, ULTIMA))
          ELSE IF penult \/ "STEM_ACC" \in end.flags \/ nsylls(u) = 1
               THEN AccentStem(stem, end) \o v
          ELSE IF antepen THEN AccentBeforeStem(stem, end) \o v
          ELSE fixnacc2(w, end)
  BY <1>3, <1>4, <1>5, Zenon DEF FixPersAcc2
<1> HIDE DEF r, third
<1> SUFFICES Suited(r, w, f)
  BY DEF r, w
<1>7. CASE nsylls(v) = 2 /\ r = u \o From(v, getsyll2(v, ULTIMA))
  <2>1. 0 < nsylls(v)
    BY <1>1, <1>7
  <2> DEFINE x == From(v, getsyll2(v, ULTIMA))
  <2>2. Suited(x, v, ~ Is_oblique(end))
    BY <1>1, <1>2, <2>1, FromLast
  <2> HIDE DEF x
  <2>3. Suited(x, v, f)
    BY <1>2, <2>2, Zenon
  <2>4. Suited(u \o x, w, f)
    BY <1>1, <1>2, <2>3, SuitedOn
  <2>5. r = u \o x
    BY <1>7 DEF x
  <2> QED BY <2>4, <2>5, Zenon
<1>8. CASE nsylls(v) >= 1 /\ r = u \o fixnacc2(v, end)
  <2>1. 0 < nsylls(v)
    BY <1>1, <1>8
  <2>2. Suited(fixnacc2(v, end), v, ~ Is_oblique(end))
    BY <1>1, <1>2, <2>1, Settling
  <2>3. Suited(fixnacc2(v, end), v, f)
    BY <1>2, <2>2, Zenon
  <2>4. Suited(u \o fixnacc2(v, end), w, f)
    BY <1>1, <1>2, <2>3, SuitedOn
  <2> QED BY <1>8, <2>4, Zenon
<1>9. CASE r = From(w, getsyll2(w, ULTIMA))
  <2>1. Suited(From(w, getsyll2(w, ULTIMA)), w, ~ Is_oblique(end))
    BY <1>1, <1>2, FromLast
  <2> HIDE DEF From, w
  <2>2. Suited(r, w, f)
    BY <1>2, <1>9, <2>1, Zenon
  <2> QED BY <2>2 DEF w
<1>10. CASE nsylls(u) # 0 /\ r = AccentStem(stem, end) \o v
  <2>1. 0 < nsylls(u)
    BY <1>1, <1>10
  <2>2. Suited(AccentStem(stem, end) \o v, w, f)
    BY <2>1, OnStem
  <2> QED BY <1>10, <2>2, Zenon
<1>11. CASE /\ nsylls(u) # 0 /\ nsylls(u) # 1
            /\ r = AccentBeforeStem(stem, end) \o v
  <2>1. 1 < nsylls(u)
    BY <1>1, <1>11
  <2>2. Suited(AccentBeforeStem(stem, end) \o v, w, f)
    BY <2>1, BeforeStem
  <2> QED BY <1>11, <2>2, Zenon
<1>12. CASE r = fixnacc2(w, end)
  <2>1. Suited(fixnacc2(w, end), w, ~ Is_oblique(end))
    BY <1>1, <1>2, Settling
  <2> HIDE DEF w
  <2>2. Suited(r, w, f)
    BY <1>2, <1>12, <2>1, Zenon
  <2> QED BY <2>2 DEF w
<1>13. \/ nsylls(v) = 2 /\ r = u \o From(v, getsyll2(v, ULTIMA))
       \/ nsylls(v) >= 1 /\ r = u \o fixnacc2(v, end)
       \/ r = From(w, getsyll2(w, ULTIMA))
       \/ nsylls(u) # 0 /\ r = AccentStem(stem, end) \o v
       \/ /\ nsylls(u) # 0 /\ nsylls(u) # 1
          /\ r = AccentBeforeStem(stem, end) \o v
       \/ r = fixnacc2(w, end)
  <2> HIDE DEF From, w, u, v
  <2> QED BY <1>6, Zenon
<1> QED BY <1>7, <1>8, <1>9, <1>10, <1>11, <1>12, <1>13

\* The two sides of a cut make the word.
LEMMA CutJoint ==
  ASSUME NEW w, Spelled(w), NEW p, CutRight(w, p), p # Len(w)
  PROVE  LET u == SubSeq(w, 1, p)
             v == SubSeq(w, p + 1, Len(w))
         IN  u \o v = w /\ Joint(u, v)
<1> DEFINE u == SubSeq(w, 1, p)
           v == SubSeq(w, p + 1, Len(w))
<1>1. w \in Seq(Letters) /\ Len(w) \in Nat
  BY DEF Spelled
<1>2. p \in 0 .. Len(w) /\ p # Len(w) /\ Spelled(u) /\ Spelled(v)
  BY DEF CutRight
<1>3. /\ u \in Seq(Letters) /\ Len(u) = p
      /\ \A i \in 1 .. Len(u) : u[i] = w[i]
  BY <1>1, <1>2
<1>4. /\ v \in Seq(Letters) /\ Len(v) = Len(w) - p
      /\ \A i \in 1 .. Len(v) : v[i] = w[p + i]
  BY <1>1, <1>2
<1> HIDE DEF u, v
<1>5. u \o v = w
  <2> DEFINE x == u \o v
  <2>1. /\ x \in Seq(Letters) /\ Len(x) = Len(u) + Len(v)
        /\ \A i \in 1 .. Len(u) : x[i] = u[i]
        /\ \A i \in 1 .. Len(v) : x[Len(u) + i] = v[i]
    <3>1. u \in Seq(Letters) /\ v \in Seq(Letters)
      BY <1>3, <1>4
    <3> QED BY <3>1, Joining
  <2> HIDE DEF x
  <2>2. Len(x) = Len(w)
    BY <1>1, <1>2, <1>3, <1>4, <2>1
  <2>3. ASSUME NEW i \in 1 .. Len(x) PROVE x[i] = w[i]
    <3>1. CASE i <= Len(u)
      <4>1. i \in 1 .. Len(u)
        BY <1>2, <1>3, <3>1
      <4> QED BY <1>3, <2>1, <4>1
    <3>2. CASE i > Len(u)
      <4> DEFINE k == i - Len(u)
      <4>1. k \in 1 .. Len(v) /\ Len(u) + k = i /\ p + k = i
        BY <1>1, <1>2, <1>3, <1>4, <2>1, <3>2
      <4> HIDE DEF k
      <4>2. x[Len(u) + k] = v[k] /\ v[k] = w[p + k]
        BY <1>4, <2>1, <4>1
      <4> QED BY <4>1, <4>2
    <3> QED BY <1>1, <1>2, <1>3, <2>2, <3>1, <3>2
  <2>4. x = w
    BY <1>1, <2>1, <2>2, <2>3, SameSequence
  <2> QED BY <2>4 DEF x
<1>6. v # <<>>
  <2>1. Len(v) > 0
    BY <1>1, <1>2, <1>4
  <2> QED BY <2>1
<1>7. Joint(u, v)
  BY <1>2, <1>5, <1>6 DEF Joint
<1> QED BY <1>5, <1>7 DEF u, v

\* FixPersAcc2 is right about every such word, wherever its stem ends.
LEMMA WordPersistent == WordRight => Persistent
<1> SUFFICES ASSUME WordRight, NEW p \in cuts \ {Len(word)},
                    NEW stem \in Stems(p), NEW end \in Endings(p),
                    NEW penult \in BOOLEAN, NEW antepen \in BOOLEAN,
                    nsylls(word) > 0,
                    \/ nsylls(end.text) < 2
                    \/ /\ nsylls(end.text) = 2
                       /\ ~ IsLong(end.text, ULTIMA, Is_oblique(end))
             PROVE  Lawful(FixPersAcc2(stem, end, penult, antepen), word,
                           Is_oblique(end))
  BY DEF Persistent
<1> DEFINE u == SubSeq(word, 1, p)
           v == SubSeq(word, p + 1, Len(word))
           f == ~ Is_oblique(end)
           r == FixPersAcc2(stem, end, penult, antepen)
<1>1. Spelled(word) /\ CutRight(word, p) /\ p # Len(word)
  BY DEF WordRight
<1>2. u \o v = word /\ Joint(u, v)
  BY <1>1, CutJoint
<1>3. /\ stem.text = u /\ stem.flags \in {{}, {"SUFF_ACC"}}
      /\ end.text = v /\ end.flags \in {{}, {"STEM_ACC"}}
  BY DEF Stems, Endings
<1>4. Plain(stem.flags) /\ Plain(end.flags)
  BY <1>3 DEF Plain
<1> HIDE DEF u, v
<1>5. Is_oblique(end) \in BOOLEAN /\ f \in BOOLEAN /\ (f <=> ~ Is_oblique(end))
  BY DEF Is_oblique
<1>6. Spelled(v) /\ (IsLong(v, ULTIMA, Is_oblique(end)) <=> LongAt(v, ULTIMA, f))
  <2>1. Spelled(v) /\ ULTIMA \in Nat
    BY <1>2 DEF Joint, ULTIMA
  <2> QED BY <1>5, <2>1, Quantities
<1>7. 0 < nsylls(word)
  BY <1>1, Counting
<1>8. Wed(stem, end, f)
  <2> HIDE DEF f
  <2>1. \/ nsylls(v) < 2
        \/ nsylls(v) = 2 /\ ~ LongAt(v, ULTIMA, f)
    BY <1>3, <1>6
  <2>2. f = (~ Is_oblique(end))
    BY DEF f
  <2> QED BY <1>2, <1>3, <1>4, <1>7, <2>1, <2>2 DEF Wed
<1>9. Suited(r, word, f)
  BY <1>2, <1>3, <1>8, Joined
<1> HIDE DEF r, f
<1>10. PICK s, accent : /\ r = addaccent(word, accent, getsyll(word, s))
                        /\ Suits(word, s, accent, f)
  BY <1>9 DEF Suited
<1>11. Lawful(r, word, Is_oblique(end))
  BY <1>1, <1>5, <1>10, SuitsLawful
<1> QED BY <1>11 DEF r

\* The persistent accent of a stem and an ending is lawful in words of any
\* length, wherever the stem ends and the ending begins.
THEOREM AccentsPersist == Words => []Persistent
<1>1. NoWord => WordRight
  BY NoWordRight
<1>2. WordRight /\ [AddPiece]_words => WordRight'
  BY PieceStep
<1>3. WordRight => Persistent
  BY WordPersistent
<1> QED BY <1>1, <1>2, <1>3, PTL DEF Words
=============================================================================
