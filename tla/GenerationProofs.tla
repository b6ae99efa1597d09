-------------------------- MODULE GenerationProofs --------------------------
(***************************************************************************)
(* What an index that opens promises, for files of any size: its tables    *)
(* partition the records, the search finds a lemma exactly when the index  *)
(* has it, and the walk visits the records of the lemma, all of them, each *)
(* once.  And what a generation call answers, for any number of records    *)
(* and forms and for every limit and capacity: all the forms that match,   *)
(* each once, in order; or an error that something accounts for.  And that *)
(* the preparer of the sources writes what the lines say, for sources of   *)
(* any length; and that the reader finds in what either builder makes of   *)
(* it the blocks of every lemma, each once and in the order of the source. *)
(*                                                                         *)
(* The layout is checked entry by entry, each against the one before; what *)
(* that says of entries far from each other needs an induction, which is   *)
(* made here by looking at the least counterexample.  So do the loop of    *)
(* the filter and the concatenation of what the lines say.  A loop of the  *)
(* builders is a function of its turns (Turns), and Upward is the          *)
(* induction over them.                                                    *)
(***************************************************************************)
EXTENDS BuiltIndex, Generation, FiniteSetTheorems, SequenceTheorems,
        WellFoundedInduction, TLAPS

\* A set of numbers has a least one.
LEMMA Least ==
  ASSUME NEW T, T \subseteq Nat, T # {}
  PROVE  \E x \in T : \A y \in T : x <= y
<1> DEFINE R == OpToRel(<, Nat)
<1>1. IsWellFoundedOn(R, Nat)
  BY NatLessThanWellFounded
<1>2. \A x, y \in Nat : x < y => <<x, y>> \in R
  BY DEF OpToRel
<1> HIDE DEF R
<1>3. PICK x \in T : \A y \in T : ~ (<<y, x>> \in R)
  BY <1>1, WFMin
<1>4. ASSUME NEW y \in T PROVE x <= y
  <2>1. x \in Nat /\ y \in Nat /\ ~ (y < x)
    BY <1>2, <1>3
  <2> QED BY <2>1
<1> QED BY <1>4

----------------------------------------------------------------------------
(* Tables.                                                                 *)

\* An entry ends where the next begins, or before the later ones.
LEMMA Monotone ==
  ASSUME NEW n \in Nat, NEW from \in [0 .. n - 1 -> Nat],
         NEW size \in [0 .. n - 1 -> Nat], Consecutive(from, size),
         NEW i \in 0 .. n - 1, NEW j \in i + 1 .. n - 1
  PROVE  from[i] + size[i] <= from[j]
<1> SUFFICES ASSUME ~ (from[i] + size[i] <= from[j]) PROVE FALSE
  OBVIOUS
<1> DEFINE T == {k \in i + 1 .. n - 1 : ~ (from[i] + size[i] <= from[k])}
<1>1. T \subseteq Nat /\ T # {}
  <2>1. T \subseteq Nat
    OBVIOUS
  <2>2. j \in T
    OBVIOUS
  <2> QED BY <2>1, <2>2
<1>2. PICK k \in T : \A y \in T : k <= y
  BY <1>1, Least
<1>3. /\ k \in 0 .. n - 1 /\ k - 1 \in 0 .. n - 1 /\ k # 0
      /\ from[k] \in Nat /\ from[k - 1] \in Nat /\ size[k - 1] \in Nat
      /\ from[i] \in Nat /\ size[i] \in Nat
  BY <1>2
<1>4. from[k] = from[k - 1] + size[k - 1]
  BY <1>3 DEF Consecutive
<1>5. CASE k - 1 = i
  BY <1>2, <1>4, <1>5
<1>6. CASE k - 1 # i
  <2>1. k - 1 \in i + 1 .. n - 1 /\ k - 1 \notin T
    BY <1>2, <1>3, <1>6
  <2>2. from[i] + size[i] <= from[k - 1]
    BY <2>1
  <2> QED BY <1>2, <1>3, <1>4, <2>2
<1> QED BY <1>5, <1>6

\* Every element of the table below belongs to one entry.
LEMMA Partition ==
  ASSUME NEW n \in Nat, NEW total \in Nat,
         NEW from \in [0 .. n - 1 -> Nat], NEW size \in [0 .. n - 1 -> Nat],
         Covers(from, size, total), NEW r \in 0 .. total - 1
  PROVE  \E i \in 0 .. n - 1 :
           /\ r \in from[i] .. from[i] + size[i] - 1
           /\ \A j \in 0 .. n - 1 :
                r \in from[j] .. from[j] + size[j] - 1 => j = i
<1>0. Consecutive(from, size)
  BY DEF Covers
<1> DEFINE T == {k \in 0 .. n - 1 : r < from[k] + size[k]}
<1>1. T \subseteq Nat
  OBVIOUS
<1>2. T # {}
  <2>1. PICK k \in 0 .. n - 1 : from[k] + size[k] = total
    BY DEF Covers
  <2> QED BY <2>1
<1>3. PICK i \in T : \A y \in T : i <= y
  BY <1>1, <1>2, Least
<1>4. /\ i \in 0 .. n - 1 /\ from[i] \in Nat /\ size[i] \in Nat
      /\ r < from[i] + size[i]
  BY <1>3
<1>5. from[i] <= r
  <2>1. CASE i = 0
    BY <1>0, <1>4, <2>1 DEF Consecutive
  <2>2. CASE i # 0
    <3>1. i - 1 \in 0 .. n - 1 /\ i - 1 \notin T
      BY <1>3, <1>4, <2>2
    <3>2. from[i] = from[i - 1] + size[i - 1]
      BY <1>0, <1>4, <2>2 DEF Consecutive
    <3> QED BY <1>4, <3>1, <3>2
  <2> QED BY <2>1, <2>2
<1> HIDE DEF T
<1>6. ASSUME NEW j \in 0 .. n - 1, r \in from[j] .. from[j] + size[j] - 1
      PROVE  j = i
  <2>1. from[j] \in Nat /\ size[j] \in Nat
    OBVIOUS
  <2>2. ~ (i < j)
    <3> SUFFICES ASSUME i < j PROVE FALSE
      OBVIOUS
    <3>1. j \in i + 1 .. n - 1
      BY <1>4
    <3>2. from[i] + size[i] <= from[j]
      BY <1>0, <1>4, <3>1, Monotone
    <3> QED BY <1>4, <1>6, <2>1, <3>2
  <2>3. ~ (j < i)
    <3> SUFFICES ASSUME j < i PROVE FALSE
      OBVIOUS
    <3>1. i \in j + 1 .. n - 1
      BY <1>4
    <3>2. from[j] + size[j] <= from[i]
      BY <1>0, <3>1, Monotone
    <3> QED BY <1>4, <1>5, <1>6, <2>1, <3>2
  <2> QED BY <1>4, <2>2, <2>3
<1> QED BY <1>4, <1>5, <1>6

----------------------------------------------------------------------------
(* The tables of a valid file.                                             *)

FirstBlocks == [i \in 0 .. lemma_count - 1 |-> Lemma(i).first_block]
BlockCounts == [i \in 0 .. lemma_count - 1 |-> Lemma(i).block_count]
FirstRecords == [i \in 0 .. block_count - 1 |-> Block(i).first_record]
RecordCounts == [i \in 0 .. block_count - 1 |-> Block(i).record_count]

LEMMA Tables ==
  ASSUME file \in Content
  PROVE  /\ lemma_count \in Nat /\ block_count \in Nat /\ record_count \in Nat
         /\ \A i \in 0 .. lemma_count - 1 :
              /\ Lemma(i).key \in Nat /\ Lemma(i).first_block \in Nat
              /\ Lemma(i).block_count \in Nat
         /\ \A b \in 0 .. block_count - 1 :
              Block(b).first_record \in Nat /\ Block(b).record_count \in Nat
         /\ FirstBlocks \in [0 .. lemma_count - 1 -> Nat]
         /\ BlockCounts \in [0 .. lemma_count - 1 -> Nat]
         /\ FirstRecords \in [0 .. block_count - 1 -> Nat]
         /\ RecordCounts \in [0 .. block_count - 1 -> Nat]
<1>1. /\ file.lemmas \in Seq(LemmaEntry) /\ file.blocks \in Seq(BlockEntry)
      /\ file.records \in Nat
  BY DEF Content
<1>2. lemma_count \in Nat /\ block_count \in Nat /\ record_count \in Nat
  BY <1>1 DEF lemma_count, block_count, record_count
<1>3. ASSUME NEW i \in 0 .. lemma_count - 1
      PROVE  Lemma(i) \in LemmaEntry
  <2>1. i + 1 \in 1 .. Len(file.lemmas)
    BY <1>2 DEF lemma_count
  <2> QED BY <1>1, <2>1 DEF Lemma
<1>4. ASSUME NEW b \in 0 .. block_count - 1
      PROVE  Block(b) \in BlockEntry
  <2>1. b + 1 \in 1 .. Len(file.blocks)
    BY <1>2 DEF block_count
  <2> QED BY <1>1, <2>1 DEF Block
<1> QED BY <1>2, <1>3, <1>4
        DEF FirstBlocks, BlockCounts, FirstRecords, RecordCounts, LemmaEntry,
            BlockEntry

LEMMA LaidOut ==
  ASSUME ValidLayout
  PROVE  /\ Covers(FirstBlocks, BlockCounts, block_count)
         /\ Covers(FirstRecords, RecordCounts, record_count)
BY DEF ValidLayout, FirstBlocks, BlockCounts, FirstRecords, RecordCounts

\* Every block has one lemma, every record one block.
LEMMA OneLemma ==
  ASSUME file \in Content, ValidLayout, NEW b \in 0 .. block_count - 1
  PROVE  \E i \in 0 .. lemma_count - 1 :
           /\ b \in BlocksOf(i)
           /\ \A j \in 0 .. lemma_count - 1 : b \in BlocksOf(j) => j = i
<1>1. PICK i \in 0 .. lemma_count - 1 :
        /\ b \in FirstBlocks[i] .. FirstBlocks[i] + BlockCounts[i] - 1
        /\ \A j \in 0 .. lemma_count - 1 :
             b \in FirstBlocks[j] .. FirstBlocks[j] + BlockCounts[j] - 1 => j = i
  BY Tables, LaidOut, Partition
<1> QED BY <1>1 DEF BlocksOf, FirstBlocks, BlockCounts

LEMMA OneBlock ==
  ASSUME file \in Content, ValidLayout, NEW r \in 0 .. record_count - 1
  PROVE  \E b \in 0 .. block_count - 1 :
           /\ r \in RecordsOf(b)
           /\ \A c \in 0 .. block_count - 1 : r \in RecordsOf(c) => c = b
<1>1. PICK b \in 0 .. block_count - 1 :
        /\ r \in FirstRecords[b] .. FirstRecords[b] + RecordCounts[b] - 1
        /\ \A c \in 0 .. block_count - 1 :
             r \in FirstRecords[c] .. FirstRecords[c] + RecordCounts[c] - 1
               => c = b
  BY Tables, LaidOut, Partition
<1> QED BY <1>1 DEF RecordsOf, FirstRecords, RecordCounts

\* The ranges lie within the tables, in the order of their owners.
LEMMA Within ==
  ASSUME file \in Content, ValidLayout
  PROVE  /\ \A i \in 0 .. lemma_count - 1 :
              Lemma(i).first_block + Lemma(i).block_count <= block_count
         /\ \A b \in 0 .. block_count - 1 :
              Block(b).first_record + Block(b).record_count <= record_count
         /\ \A b \in 0 .. block_count - 1 : \A c \in b + 1 .. block_count - 1 :
              Block(b).first_record + Block(b).record_count
                <= Block(c).first_record
<1>1. \A i \in 0 .. lemma_count - 1 :
        FirstBlocks[i] + BlockCounts[i] <= block_count
  BY Tables, LaidOut DEF Covers
<1>2. \A b \in 0 .. block_count - 1 :
        FirstRecords[b] + RecordCounts[b] <= record_count
  BY Tables, LaidOut DEF Covers
<1>3. \A b \in 0 .. block_count - 1 : \A c \in b + 1 .. block_count - 1 :
        FirstRecords[b] + RecordCounts[b] <= FirstRecords[c]
  BY Tables, LaidOut, Monotone DEF Covers
<1>4. \A b \in 0 .. block_count - 1 : \A c \in b + 1 .. block_count - 1 :
        c \in 0 .. block_count - 1
  BY Tables
<1> QED BY <1>1, <1>2, <1>3, <1>4
        DEF FirstBlocks, BlockCounts, FirstRecords, RecordCounts

\* The keys increase.
LEMMA Increasing ==
  ASSUME file \in Content, ValidLayout,
         NEW i \in 0 .. lemma_count - 1, NEW j \in i + 1 .. lemma_count - 1
  PROVE  Lemma(i).key < Lemma(j).key
<1> SUFFICES ASSUME ~ (Lemma(i).key < Lemma(j).key) PROVE FALSE
  OBVIOUS
<1>0. lemma_count \in Nat /\ \A k \in 0 .. lemma_count - 1 : Lemma(k).key \in Nat
  BY Tables
<1> DEFINE T == {k \in i + 1 .. lemma_count - 1 : ~ (Lemma(i).key < Lemma(k).key)}
<1>1. T \subseteq Nat /\ T # {}
  BY <1>0
<1>2. PICK k \in T : \A y \in T : k <= y
  BY <1>1, Least
<1>3. k \in 1 .. lemma_count - 1 /\ k - 1 \in 0 .. lemma_count - 1
  BY <1>0, <1>2
<1>4. Lemma(k - 1).key < Lemma(k).key
  BY <1>3 DEF ValidLayout
<1>5. CASE k - 1 = i
  BY <1>2, <1>4, <1>5
<1>6. CASE k - 1 # i
  <2>1. k - 1 \in i + 1 .. lemma_count - 1 /\ k - 1 \notin T
    BY <1>0, <1>2, <1>3, <1>6
  <2>2. Lemma(i).key < Lemma(k - 1).key
    BY <2>1
  <2>3. k \in 0 .. lemma_count - 1
    BY <1>3
  <2> QED BY <1>0, <1>2, <1>3, <1>4, <2>2, <2>3
<1> QED BY <1>5, <1>6

----------------------------------------------------------------------------
(* The reader.                                                             *)

\* What a file that was opened promises.
Checked == Opened => ValidLayout

\* The lemma is in the interval, if anywhere.
Searching ==
  step = "search" =>
    /\ low <= high /\ high <= lemma_count /\ visited = <<>>
    /\ \A i \in 0 .. low - 1 : Lemma(i).key < lemma
    /\ \A i \in high .. lemma_count - 1 : lemma < Lemma(i).key

Found(i) == /\ Lemma(i).key = lemma /\ first = Lemma(i).first_block
            /\ count = Lemma(i).block_count

\* The records of the blocks before b.
RecordsBefore(b) ==
  {r \in 0 .. record_count - 1 : \E c \in first .. b - 1 : r \in RecordsOf(c)}
Visited == {visited[k] : k \in 1 .. Len(visited)}
Ascending == \A k \in 1 .. Len(visited) - 1 : visited[k] < visited[k + 1]

\* The walk has visited what lies before its place, in order.
Walking ==
  /\ step \in {"block", "record", "OK"} =>
       /\ \E i \in 0 .. lemma_count - 1 : Found(i)
       /\ first <= block /\ block <= first + count /\ Ascending
  /\ step = "block" => Visited = RecordsBefore(block)
  /\ step = "record" =>
       /\ block < first + count /\ last_record = RecordsEnd(block)
       /\ Block(block).first_record <= record /\ record <= last_record
       /\ Visited = RecordsBefore(block)
                      \cup (Block(block).first_record .. record - 1)
  /\ step = "OK" => block = first + count /\ Visited = RecordsBefore(block)

IInv ==
  /\ TypeOK /\ Checked /\ Searching /\ Walking
  /\ step = "NOT_FOUND" => \A i \in 0 .. lemma_count - 1 : Lemma(i).key # lemma
  /\ step # "INVALID"

LEMMA Initially == Init => IInv
BY FilesAssumption
   DEF Init, IInv, TypeOK, Steps, Checked, Opened, Searching, Walking

LEMMA OpenStep == IInv /\ Open => IInv'
BY DEF Open, search, walk, IInv, TypeOK, Steps, Checked, Opened, ValidLayout,
       lemma_count, block_count, record_count, Lemma, Block, Searching, Walking

LEMMA SameFile ==
  ASSUME file' = file
  PROVE  /\ lemma_count' = lemma_count /\ block_count' = block_count
         /\ record_count' = record_count /\ ValidLayout' = ValidLayout
         /\ \A i : Lemma(i)' = Lemma(i) /\ Block(i)' = Block(i)
         /\ \A i : RecordsEnd(i)' = RecordsEnd(i) /\ RecordsOf(i)' = RecordsOf(i)
BY DEF lemma_count, block_count, record_count, ValidLayout, Lemma, Block,
       RecordsEnd, RecordsOf

LEMMA GenerateStep ==
  ASSUME IInv, NEW l \in Lemmas, Generate(l)
  PROVE  IInv'
<1>1. ValidLayout /\ file \in Content /\ file' = file
  BY DEF IInv, Checked, Opened, Generate, Answers, TypeOK
<1>2. lemma_count \in Nat
  BY <1>1, Tables
<1>3. TypeOK'
  BY <1>2, LemmasAssumption DEF IInv, TypeOK, Generate, Steps, walk
<1>4. Checked' /\ step' = "search"
  BY <1>1, SameFile DEF Checked, Generate
<1>5. Searching'
  BY <1>1, <1>2, SameFile DEF Searching, Generate
<1> QED BY <1>3, <1>4, <1>5 DEF IInv, Walking

LEMMA ProbeStep ==
  ASSUME IInv, Probe
  PROVE  IInv'
<1> DEFINE middle == low + (high - low) \div 2
<1>1. /\ ValidLayout /\ file \in Content /\ file' = file /\ step = "search"
      /\ low \in Nat /\ high \in Nat /\ lemma \in Nat /\ lemma' = lemma
      /\ low < high /\ high <= lemma_count /\ visited = <<>>
      /\ \A i \in 0 .. low - 1 : Lemma(i).key < lemma
      /\ \A i \in high .. lemma_count - 1 : lemma < Lemma(i).key
  BY DEF IInv, Checked, Opened, Probe, TypeOK, Searching
<1>2. /\ lemma_count \in Nat
      /\ \A i \in 0 .. lemma_count - 1 :
           /\ Lemma(i).key \in Nat /\ Lemma(i).first_block \in Nat
           /\ Lemma(i).block_count \in Nat
  BY <1>1, Tables
<1>3. middle \in Nat /\ low <= middle /\ middle < high
  BY <1>1
<1>4. middle \in 0 .. lemma_count - 1
  BY <1>1, <1>2, <1>3
<1> HIDE DEF middle
<1>5. Checked'
  BY <1>1, SameFile DEF Checked
<1>6. CASE /\ lemma < Lemma(middle).key /\ high' = Below(middle)
           /\ UNCHANGED <<step, low, walk>>
  <2>1. \A i \in middle .. lemma_count - 1 : lemma < Lemma(i).key
    <3> TAKE i \in middle .. lemma_count - 1
    <3>1. i \in 0 .. lemma_count - 1 /\ (i = middle \/ i \in middle + 1 .. lemma_count - 1)
      BY <1>2, <1>3
    <3>2. i # middle => Lemma(middle).key < Lemma(i).key
      BY <1>1, <1>4, <3>1, Increasing
    <3> QED BY <1>1, <1>2, <1>4, <1>6, <3>1, <3>2
  <2>2. TypeOK'
    BY <1>1, <1>3, <1>6 DEF IInv, TypeOK, walk, Below
  <2>3. Searching'
    BY <1>1, <1>2, <1>3, <1>6, <2>1, SameFile DEF Searching, walk, Below
  <2> QED BY <1>1, <1>5, <1>6, <2>2, <2>3 DEF IInv, Walking
<1>7. CASE /\ lemma > Lemma(middle).key /\ low' = Above(middle)
           /\ UNCHANGED <<step, high, walk>>
  <2>1. \A i \in 0 .. middle : Lemma(i).key < lemma
    <3> TAKE i \in 0 .. middle
    <3>1. i \in 0 .. lemma_count - 1 /\ (i = middle \/ middle \in i + 1 .. lemma_count - 1)
      BY <1>2, <1>3, <1>4
    <3>2. i # middle => Lemma(i).key < Lemma(middle).key
      BY <1>1, <1>4, <3>1, Increasing
    <3> QED BY <1>1, <1>2, <1>4, <1>7, <3>1, <3>2
  <2>2. TypeOK'
    BY <1>1, <1>3, <1>7 DEF IInv, TypeOK, walk, Above
  <2>3. Searching'
    BY <1>1, <1>2, <1>3, <1>7, <2>1, SameFile DEF Searching, walk, Above
  <2> QED BY <1>1, <1>5, <1>7, <2>2, <2>3 DEF IInv, Walking
<1>8. CASE /\ lemma = Lemma(middle).key
           /\ first' = Lemma(middle).first_block
           /\ count' = Lemma(middle).block_count
           /\ block' = first' /\ step' = "block"
           /\ UNCHANGED <<low, high, record, last_record, visited>>
  <2>1. TypeOK'
    BY <1>1, <1>2, <1>4, <1>8 DEF IInv, TypeOK, Steps
  <2>2. PICK m \in 0 .. lemma_count - 1 : m = middle
    BY <1>4
  <2>3. Visited' = {} /\ RecordsBefore(block)' = {}
    <3>1. visited' = <<>> /\ Len(visited') = 0
      BY <1>1, <1>8
    <3>2. PICK f \in Nat : first' = f /\ block' = f
      BY <1>2, <1>4, <1>8
    <3>3. first' .. block' - 1 = {}
      BY <3>2
    <3> QED BY <3>1, <3>3 DEF Visited, RecordsBefore
  <2>4. Ascending'
    BY <1>1, <1>8 DEF Ascending
  <2>5. \E i \in 0 .. lemma_count' - 1 : Found(i)'
    <3>1. Found(m)'
      BY <1>1, <1>8, <2>2, SameFile DEF Found
    <3> QED BY <1>1, <2>2, <3>1, SameFile
  <2>6. Walking'
    <3>1. /\ step' = "block"
          /\ \E f, c \in Nat : first' = f /\ block' = f /\ count' = c
      BY <1>2, <1>4, <1>8
    <3>2. first' <= block' /\ block' <= first' + count'
      BY <3>1
    <3> QED BY <2>3, <2>4, <2>5, <3>1, <3>2 DEF Walking
  <2> QED BY <1>5, <1>8, <2>1, <2>6 DEF IInv, Searching
<1> QED BY <1>6, <1>7, <1>8 DEF Probe, middle

LEMMA MissStep ==
  ASSUME IInv, Miss
  PROVE  IInv'
<1>1. /\ file' = file /\ file \in Content /\ lemma' = lemma /\ ValidLayout
      /\ low \in Nat /\ high \in Nat /\ lemma \in Nat /\ step' = "NOT_FOUND"
      /\ low = high
      /\ \A i \in 0 .. low - 1 : Lemma(i).key < lemma
      /\ \A i \in high .. lemma_count - 1 : lemma < Lemma(i).key
  BY DEF IInv, Miss, TypeOK, Searching, Checked, Opened
<1>2. \A i \in 0 .. lemma_count - 1 : Lemma(i).key # lemma
  <2> TAKE i \in 0 .. lemma_count - 1
  <2>1. Lemma(i).key \in Nat /\ lemma_count \in Nat
    BY <1>1, Tables
  <2>2. i \in 0 .. low - 1 \/ i \in high .. lemma_count - 1
    BY <1>1, <2>1
  <2> QED BY <1>1, <2>1, <2>2
<1>3. TypeOK' /\ Checked'
  BY <1>1, SameFile DEF IInv, TypeOK, Miss, Steps, Answers, search, walk, Checked
<1> QED BY <1>1, <1>2, <1>3, SameFile DEF IInv, Searching, Walking

\* Where the walk stands: on a block of the lemma, within the tables.
LEMMA Place ==
  ASSUME IInv, step \in {"block", "record", "OK"}
  PROVE  /\ ValidLayout /\ file \in Content
         /\ first \in Nat /\ count \in Nat /\ block \in Nat /\ record \in Nat
         /\ last_record \in Nat /\ visited \in Seq(Nat)
         /\ block_count \in Nat /\ record_count \in Nat
         /\ first <= block /\ block <= first + count
         /\ first + count <= block_count
<1>1. ValidLayout /\ file \in Content
  BY DEF IInv, Checked, Opened, TypeOK
<1>2. PICK i \in 0 .. lemma_count - 1 : Found(i)
  BY DEF IInv, Walking
<1>3. first + count <= block_count
  BY <1>1, <1>2, Within DEF Found
<1> QED BY <1>1, <1>3, Tables DEF IInv, TypeOK, Walking

LEMMA NextBlockStep ==
  ASSUME IInv, NextBlock
  PROVE  IInv'
<1>1. /\ ValidLayout /\ file \in Content /\ step = "block"
      /\ first \in Nat /\ count \in Nat /\ block \in Nat
      /\ block_count \in Nat /\ first <= block /\ block <= first + count
      /\ first + count <= block_count
  BY Place DEF NextBlock
<1>2. /\ UNCHANGED <<file, lemma, search, first, count, block, visited>>
      /\ file' = file /\ first' = first /\ count' = count /\ block' = block
      /\ visited' = visited /\ lemma' = lemma
  BY DEF NextBlock
<1>3. /\ \A i : Found(i)' = Found(i)
      /\ \A b : RecordsBefore(b)' = RecordsBefore(b)
      /\ Visited' = Visited /\ Ascending' = Ascending
      /\ lemma_count' = lemma_count
  BY <1>2, SameFile DEF Found, RecordsBefore, Visited, Ascending
<1>4. /\ \E i \in 0 .. lemma_count - 1 : Found(i)
      /\ Ascending /\ Visited = RecordsBefore(block)
  BY <1>1 DEF IInv, Walking
<1>5. CASE block = first + count /\ step' = "OK" /\ UNCHANGED <<record, last_record>>
  <2>1. TypeOK'
    BY <1>2, <1>5 DEF IInv, TypeOK, search, Steps, Answers
  <2>2. Checked'
    BY <1>1, <1>2, SameFile DEF Checked
  <2>3. RecordsBefore(block)' = RecordsBefore(block)
    BY <1>2, SameFile DEF RecordsBefore
  <2>4. Walking'
    BY <1>1, <1>2, <1>3, <1>4, <1>5, <2>3 DEF Walking
  <2> QED BY <1>5, <2>1, <2>2, <2>4 DEF IInv, Searching
<1>6. CASE block # first + count
  <2>1. block < first + count /\ block < block_count
    BY <1>1, <1>6
  <2>2. block \in 0 .. block_count - 1
    BY <1>1, <2>1
  <2>3. /\ record' = Block(block).first_record
        /\ last_record' = RecordsEnd(block) /\ step' = "record"
    BY <1>6, <2>1 DEF NextBlock
  <2>4. Block(block).first_record \in Nat /\ Block(block).record_count \in Nat
    BY <1>1, <2>2, Tables
  <2>5. record' \in Nat /\ last_record' \in Nat /\ record' <= last_record'
    BY <2>3, <2>4 DEF RecordsEnd
  <2>6. TypeOK'
    BY <1>2, <2>3, <2>5 DEF IInv, TypeOK, search, Steps
  <2>7. Checked'
    BY <1>1, <1>2, SameFile DEF Checked
  <2>8. /\ RecordsBefore(block)' = RecordsBefore(block)
        /\ RecordsEnd(block)' = RecordsEnd(block)
        /\ Block(block)' = Block(block)
    BY <1>2, SameFile DEF RecordsBefore, RecordsEnd, Block
  <2>9. Block(block).first_record .. record' - 1 = {}
    BY <2>3, <2>4
  <2>10. Walking'
    <3>1. Visited' = RecordsBefore(block)'
                       \cup (Block(block).first_record .. record' - 1)
      BY <1>3, <1>4, <2>8, <2>9
    <3>2. /\ block' < first' + count' /\ first' <= block'
          /\ block' <= first' + count'
      BY <1>1, <1>2, <2>1
    <3>3. Block(block)'.first_record <= record'
      BY <2>3, <2>4, <2>8
    <3> QED BY <1>3, <1>4, <2>3, <2>5, <2>8, <3>1, <3>2, <3>3 DEF Walking
  <2> QED BY <2>3, <2>6, <2>7, <2>10 DEF IInv, Searching
<1> QED BY <1>5, <1>6 DEF NextBlock

\* The next record lies behind everything that was visited.
LEMMA Ahead ==
  ASSUME IInv, step = "record", record # last_record
  PROVE  /\ block \in 0 .. block_count - 1 /\ record < record_count
         /\ Block(block).first_record \in Nat
         /\ Block(block).first_record <= record /\ record < last_record
         /\ \A r \in Visited : r < record
<1>1. /\ ValidLayout /\ file \in Content /\ record \in Nat /\ block \in Nat
      /\ last_record \in Nat /\ first \in Nat
      /\ block_count \in Nat /\ record_count \in Nat
      /\ first + count <= block_count /\ first <= block /\ count \in Nat
  BY Place
<1>2. /\ block < first + count /\ last_record = RecordsEnd(block)
      /\ Block(block).first_record <= record /\ record <= last_record
      /\ Visited = RecordsBefore(block)
                     \cup (Block(block).first_record .. record - 1)
  BY DEF IInv, Walking
<1>3. block \in 0 .. block_count - 1
  BY <1>1, <1>2
<1>4. Block(block).first_record \in Nat /\ Block(block).record_count \in Nat
  BY <1>1, <1>3, Tables
<1>5. last_record <= record_count
  BY <1>1, <1>2, <1>3, Within DEF RecordsEnd
<1>6. ASSUME NEW r \in RecordsBefore(block) PROVE r < record
  <2>1. PICK c \in first .. block - 1 : r \in RecordsOf(c)
    BY DEF RecordsBefore
  <2>2. c \in 0 .. block_count - 1 /\ block \in c + 1 .. block_count - 1
    BY <1>1, <1>3
  <2>3. Block(c).first_record \in Nat /\ Block(c).record_count \in Nat
    BY <1>1, <2>2, Tables
  <2>4. Block(c).first_record + Block(c).record_count <= Block(block).first_record
    BY <1>1, <2>2, Within
  <2> QED BY <1>1, <1>2, <1>4, <2>1, <2>3, <2>4 DEF RecordsOf
<1>7. \A r \in Block(block).first_record .. record - 1 : r < record
  BY <1>1, <1>4
<1> QED BY <1>1, <1>2, <1>3, <1>4, <1>5, <1>6, <1>7

LEMMA NextRecordStep ==
  ASSUME IInv, NextRecord
  PROVE  IInv'
<1>1. /\ ValidLayout /\ file \in Content /\ step = "record"
      /\ first \in Nat /\ count \in Nat /\ block \in Nat /\ record \in Nat
      /\ last_record \in Nat /\ block_count \in Nat /\ record_count \in Nat
      /\ first <= block /\ first + count <= block_count
      /\ visited \in Seq(Nat)
  BY Place DEF NextRecord
<1>2. /\ UNCHANGED <<file, lemma, search, first, count, last_record>>
      /\ file' = file /\ first' = first /\ count' = count /\ lemma' = lemma
      /\ last_record' = last_record
  BY DEF NextRecord
<1>3. /\ \A i : Found(i)' = Found(i)
      /\ \A b : RecordsBefore(b)' = RecordsBefore(b)
      /\ lemma_count' = lemma_count
  BY <1>2, SameFile DEF Found, RecordsBefore
<1>4. /\ \E i \in 0 .. lemma_count - 1 : Found(i)
      /\ block < first + count /\ last_record = RecordsEnd(block)
      /\ Block(block).first_record <= record /\ record <= last_record
      /\ Ascending
      /\ Visited = RecordsBefore(block)
                     \cup (Block(block).first_record .. record - 1)
  BY <1>1 DEF IInv, Walking
<1>5. block \in 0 .. block_count - 1
  BY <1>1, <1>4
<1>6. Block(block).first_record \in Nat /\ Block(block).record_count \in Nat
  BY <1>1, <1>5, Tables
<1>7. Checked'
  BY <1>1, <1>2, SameFile DEF Checked
<1>8. CASE record = last_record /\ block' = block + 1 /\ step' = "block"
           /\ UNCHANGED <<record, visited>>
  <2>1. TypeOK'
    BY <1>1, <1>2, <1>8 DEF IInv, TypeOK, search, Steps
  <2>2. Block(block).first_record .. record - 1 = RecordsOf(block)
    BY <1>4, <1>6, <1>8 DEF RecordsOf, RecordsEnd
  <2>3. \A c : c \in first .. block <=> c \in first .. block - 1 \/ c = block
    BY <1>1
  <2>4. RecordsOf(block) \subseteq 0 .. record_count - 1
    <3>1. Block(block).first_record + Block(block).record_count <= record_count
      BY <1>1, <1>5, Within
    <3> QED BY <1>1, <1>6, <3>1 DEF RecordsOf
  <2>5. RecordsBefore(block + 1) = RecordsBefore(block) \cup RecordsOf(block)
    <3>1. first .. (block + 1) - 1 = first .. block
      BY <1>1
    <3> QED BY <2>3, <2>4, <3>1 DEF RecordsBefore
  <2>6. Visited' = RecordsBefore(block + 1) /\ Ascending'
    BY <1>4, <1>8, <2>2, <2>5 DEF Visited, Ascending
  <2>7. RecordsBefore(block)' = RecordsBefore(block + 1)
    BY <1>2, <1>8, SameFile DEF RecordsBefore
  <2>8. first' <= block' /\ block' <= first' + count'
    BY <1>1, <1>2, <1>4, <1>8
  <2>9. Walking'
    BY <1>3, <1>4, <1>8, <2>6, <2>7, <2>8 DEF Walking
  <2> QED BY <1>7, <1>8, <2>1, <2>9 DEF IInv, Searching
<1>9. CASE record # last_record /\ UNCHANGED block
  <2>1. record < record_count /\ record < last_record /\ \A r \in Visited : r < record
    BY <1>1, <1>9, Ahead
  <2>2. /\ visited' = Append(visited, record) /\ record' = record + 1
        /\ step' = "record" /\ block' = block
    BY <1>1, <1>9, <2>1 DEF NextRecord
  <2>3. TypeOK'
    BY <1>1, <1>2, <2>2 DEF IInv, TypeOK, search, Steps
  <2>4. /\ Len(visited) \in Nat /\ Len(visited') = Len(visited) + 1
        /\ visited'[Len(visited) + 1] = record
        /\ \A k \in 1 .. Len(visited) : visited'[k] = visited[k]
        /\ \A k \in 1 .. Len(visited) : visited[k] \in Visited
    BY <1>1, <2>2 DEF Visited
  <2>5. Ascending'
    <3> SUFFICES ASSUME NEW k \in 1 .. Len(visited') - 1
                 PROVE  visited'[k] < visited'[k + 1]
      BY DEF Ascending
    <3>1. CASE k = Len(visited)
      BY <2>1, <2>4, <3>1
    <3>2. CASE k # Len(visited)
      <4>1. k \in 1 .. Len(visited) - 1 /\ k \in 1 .. Len(visited)
            /\ k + 1 \in 1 .. Len(visited)
        BY <2>4, <3>2
      <4> QED BY <1>4, <2>4, <4>1 DEF Ascending
    <3> QED BY <3>1, <3>2
  <2>6. Visited' = Visited \cup {record}
    <3>1. 1 .. Len(visited') = (1 .. Len(visited)) \cup {Len(visited) + 1}
      BY <2>4
    <3>2. ASSUME NEW r \in Visited' PROVE r \in Visited \cup {record}
      BY <2>4, <3>1 DEF Visited
    <3>3. ASSUME NEW r \in Visited PROVE r \in Visited'
      BY <2>4, <3>1 DEF Visited
    <3>4. record \in Visited'
      BY <2>4, <3>1 DEF Visited
    <3> QED BY <3>2, <3>3, <3>4
  <2>7. Block(block).first_record .. (record + 1) - 1 =
          (Block(block).first_record .. record - 1) \cup {record}
    BY <1>1, <1>4, <1>6
  <2>8. Visited' = RecordsBefore(block)
                     \cup (Block(block).first_record .. (record + 1) - 1)
    BY <1>4, <2>6, <2>7
  <2>9. /\ RecordsBefore(block)' = RecordsBefore(block)
        /\ Block(block)' = Block(block) /\ RecordsEnd(block)' = RecordsEnd(block)
    BY <1>2, <2>2, SameFile DEF RecordsBefore, Block, RecordsEnd
  <2>10. /\ Block(block).first_record <= record + 1 /\ record + 1 <= last_record
    BY <1>1, <1>4, <1>6, <2>1
  <2>11. block' <= first' + count' /\ first' <= block' /\ block' < first' + count'
    BY <1>1, <1>2, <1>4, <2>2
  <2>12. Walking'
    BY <1>2, <1>3, <1>4, <2>2, <2>5, <2>8, <2>9, <2>10, <2>11 DEF Walking
  <2> QED BY <1>7, <2>2, <2>3, <2>12 DEF IInv, Searching
<1> QED BY <1>8, <1>9 DEF NextRecord

LEMMA NextIInv == IInv /\ [Next]_vars => IInv'
<1> SUFFICES ASSUME IInv, [Next]_vars PROVE IInv'
  OBVIOUS
<1>1. CASE UNCHANGED vars
  <2>1. TypeOK'
    BY <1>1 DEF vars, search, walk, IInv, TypeOK
  <2>2. Checked' /\ Searching'
    BY <1>1, SameFile DEF vars, search, walk, IInv, Checked, Opened, Searching
  <2>3. Walking'
    BY <1>1 DEF vars, search, walk, IInv, Walking, Found, RecordsBefore,
                Visited, Ascending, RecordsEnd, RecordsOf, Block, Lemma,
                lemma_count, record_count
  <2> QED BY <1>1, <2>1, <2>2, <2>3, SameFile DEF vars, IInv
<1> QED BY <1>1, OpenStep, GenerateStep, ProbeStep, MissStep, NextBlockStep,
           NextRecordStep DEF Next

\* Nothing but a valid file opens, and the search and the walk keep to it.
THEOREM Invariance == Spec => []IInv
BY Initially, NextIInv, PTL DEF Spec

\* An index that opens gives every record to one block of one lemma
\* (gener_index.c:91-178).
THEOREM PartitionRight == Spec => []RecordsPartitioned
<1>1. IInv => RecordsPartitioned
  <2> SUFFICES ASSUME IInv, Opened, NEW r \in 0 .. record_count - 1
               PROVE  \E e \in Owners(r) : Owners(r) = {e}
    BY DEF RecordsPartitioned
  <2>1. ValidLayout /\ file \in Content
    BY DEF IInv, Checked, TypeOK
  <2>2. PICK b \in 0 .. block_count - 1 :
          /\ r \in RecordsOf(b)
          /\ \A c \in 0 .. block_count - 1 : r \in RecordsOf(c) => c = b
    BY <2>1, OneBlock
  <2>3. PICK i \in 0 .. lemma_count - 1 :
          /\ b \in BlocksOf(i)
          /\ \A j \in 0 .. lemma_count - 1 : b \in BlocksOf(j) => j = i
    BY <2>1, OneLemma
  <2>4. <<i, b>> \in Owners(r)
    BY <2>2, <2>3 DEF Owners
  <2>5. \A e \in Owners(r) : e = <<i, b>>
    BY <2>2, <2>3 DEF Owners
  <2> QED BY <2>4, <2>5
<1> QED BY <1>1, Invariance, PTL

\* The binary search finds a lemma exactly when the index has it
\* (gener_index.c:261-290).
THEOREM SearchRight == Spec => []LookupRight
<1>1. IInv => LookupRight
  BY DEF IInv, Walking, Found, LookupRight
<1> QED BY <1>1, Invariance, PTL

\* A successful call has visited the records of its lemma, all of them and
\* no others, once each and in the order of the file.
THEOREM WalkRight == Spec => []VisitedRight
<1>1. IInv => VisitedRight
  <2> SUFFICES ASSUME IInv, step = "OK"
               PROVE  /\ Visited = {r \in 0 .. record_count - 1 :
                                      \E e \in Owners(r) : Lemma(e[1]).key = lemma}
                      /\ Ascending
    BY DEF VisitedRight, Visited, Ascending
  <2>1. /\ ValidLayout /\ file \in Content /\ first \in Nat /\ count \in Nat
        /\ block \in Nat /\ block_count \in Nat /\ first + count <= block_count
    BY Place
  <2>2. PICK i \in 0 .. lemma_count - 1 : Found(i)
    BY DEF IInv, Walking
  <2>3. Ascending /\ block = first + count /\ Visited = RecordsBefore(block)
    BY DEF IInv, Walking
  <2>4. first .. block - 1 = BlocksOf(i)
    BY <2>1, <2>2, <2>3 DEF Found, BlocksOf
  <2>5. \A j \in 0 .. lemma_count - 1 : Lemma(j).key = lemma => j = i
    <3> TAKE j \in 0 .. lemma_count - 1
    <3>1. lemma_count \in Nat /\ Lemma(j).key \in Nat /\ Lemma(i).key \in Nat
      BY <2>1, Tables
    <3>2. i < j => Lemma(i).key < Lemma(j).key
      <4> HAVE i < j
      <4>1. j \in i + 1 .. lemma_count - 1
        BY <3>1
      <4> QED BY <2>1, <4>1, Increasing
    <3>3. j < i => Lemma(j).key < Lemma(i).key
      <4> HAVE j < i
      <4>1. i \in j + 1 .. lemma_count - 1
        BY <3>1
      <4> QED BY <2>1, <4>1, Increasing
    <3> QED BY <2>2, <3>1, <3>2, <3>3 DEF Found
  <2>6. ASSUME NEW r \in 0 .. record_count - 1
        PROVE  r \in RecordsBefore(block) <=>
                 \E e \in Owners(r) : Lemma(e[1]).key = lemma
    <3>1. ASSUME r \in RecordsBefore(block)
          PROVE  \E e \in Owners(r) : Lemma(e[1]).key = lemma
      <4>1. PICK c \in BlocksOf(i) : r \in RecordsOf(c)
        BY <2>4, <3>1 DEF RecordsBefore
      <4>2. c \in 0 .. block_count - 1
        BY <2>1, <2>3, <2>4
      <4>3. <<i, c>> \in Owners(r)
        BY <4>1, <4>2 DEF Owners
      <4>4. <<i, c>>[1] = i /\ Lemma(i).key = lemma
        BY <2>2 DEF Found
      <4> QED BY <4>3, <4>4
    <3>2. ASSUME NEW e \in Owners(r), Lemma(e[1]).key = lemma
          PROVE  r \in RecordsBefore(block)
      <4>1. /\ e[1] \in 0 .. lemma_count - 1 /\ e[2] \in BlocksOf(e[1])
            /\ r \in RecordsOf(e[2])
        BY DEF Owners
      <4>2. e[2] \in first .. block - 1
        BY <2>4, <2>5, <3>2, <4>1
      <4> QED BY <4>1, <4>2 DEF RecordsBefore
    <3> QED BY <3>1, <3>2
  <2>7. RecordsBefore(block) \subseteq 0 .. record_count - 1
    BY DEF RecordsBefore
  <2> QED BY <2>3, <2>6, <2>7
<1> QED BY <1>1, Invariance, PTL

\* Together: what a call answers is what the index has.
THEOREM AnswersRight == Spec => []AnswerRight
<1>1. LookupRight /\ VisitedRight => AnswerRight
  BY DEF AnswerRight
<1> QED BY <1>1, SearchRight, WalkRight, PTL

----------------------------------------------------------------------------
(* The calls: what the filter leaves (generation_matches).                 *)

\* What the loop over the records has kept of the first n is what the next
\* one adds to.
Loop(s, f, n) ==
  /\ f \in [0 .. n -> Seq(Record)]
  /\ \A i \in 0 .. n :
       f[i] = IF i = 0 THEN <<>>
              ELSE IF s[i].accepted THEN Append(f[i - 1], s[i]) ELSE f[i - 1]

\* The loop can be run over any number of records,
LEMMA LoopRuns ==
  ASSUME NEW s \in Seq(Record), NEW n \in 0 .. Len(s)
  PROVE  \E f : Loop(s, f, n)
<1> SUFFICES ASSUME ~ \E f : Loop(s, f, n) PROVE FALSE
  OBVIOUS
<1> DEFINE T == {m \in 0 .. Len(s) : ~ \E f : Loop(s, f, m)}
<1>1. T \subseteq Nat /\ n \in T
  OBVIOUS
<1>2. PICK m \in T : \A y \in T : m <= y
  BY <1>1, Least
<1>3. CASE m = 0
  <2>1. Loop(s, [i \in 0 .. 0 |-> <<>>], 0)
    BY DEF Loop
  <2> QED BY <1>2, <1>3, <2>1
<1>4. CASE m # 0
  <2>1. m \in 1 .. Len(s) /\ m - 1 \in 0 .. Len(s) /\ m - 1 \notin T
    BY <1>2, <1>4
  <2>2. PICK f : Loop(s, f, m - 1)
    BY <2>1
  <2>3. s[m] \in Record
    BY <2>1
  <2> DEFINE last == IF s[m].accepted THEN Append(f[m - 1], s[m]) ELSE f[m - 1]
             g == [i \in 0 .. m |-> IF i = m THEN last ELSE f[i]]
  <2>4. last \in Seq(Record)
    BY <2>1, <2>2, <2>3 DEF Loop
  <2>5. g \in [0 .. m -> Seq(Record)]
    BY <2>1, <2>2, <2>4 DEF Loop
  <2>6. ASSUME NEW i \in 0 .. m
        PROVE  g[i] = IF i = 0 THEN <<>>
                      ELSE IF s[i].accepted THEN Append(g[i - 1], s[i]) ELSE g[i - 1]
    <3>1. CASE i = m
      BY <2>1, <3>1
    <3>2. CASE i # m
      <4>1. i \in 0 .. m - 1 /\ g[i] = f[i] /\ (i # 0 => i - 1 \in 0 .. m /\ g[i - 1] = f[i - 1])
        BY <2>1, <3>2
      <4> QED BY <2>2, <4>1 DEF Loop
    <3> QED BY <3>1, <3>2
  <2>7. Loop(s, g, m)
    BY <2>5, <2>6 DEF Loop
  <2> QED BY <1>2, <2>7
<1> QED BY <1>3, <1>4

\* whatever satisfies its equations is such a run,
LEMMA LoopOnly ==
  ASSUME NEW s \in Seq(Record), NEW f, f = [n \in 0 .. Len(s) |-> f[n]],
         \A n \in 0 .. Len(s) :
           f[n] = IF n = 0 THEN <<>>
                  ELSE IF s[n].accepted THEN Append(f[n - 1], s[n]) ELSE f[n - 1]
  PROVE  Loop(s, f, Len(s))
<1>1. SUFFICES \A n \in 0 .. Len(s) : f[n] \in Seq(Record)
  BY DEF Loop
<1> DEFINE T == {n \in 0 .. Len(s) : f[n] \notin Seq(Record)}
<1>2. SUFFICES ASSUME T # {} PROVE FALSE
  OBVIOUS
<1>3. T \subseteq Nat
  OBVIOUS
<1>4. PICK m \in T : \A y \in T : m <= y
  BY <1>2, <1>3, Least
<1>5. CASE m = 0
  BY <1>4, <1>5
<1>6. CASE m # 0
  <2>1. /\ m - 1 \in 0 .. Len(s) /\ m - 1 \notin T
        /\ m \in 1 .. Len(s) /\ s[m] \in Record
    BY <1>4, <1>6
  <2>2. f[m - 1] \in Seq(Record)
    BY <2>1
  <2>3. \A n \in 1 .. Len(s) :
          f[n] = IF s[n].accepted THEN Append(f[n - 1], s[n]) ELSE f[n - 1]
    OBVIOUS
  <2>4. f[m] = IF s[m].accepted THEN Append(f[m - 1], s[m]) ELSE f[m - 1]
    BY <2>1, <2>3, Zenon
  <2>5. Append(f[m - 1], s[m]) \in Seq(Record)
    BY <2>1, <2>2
  <2> QED BY <1>4, <2>2, <2>4, <2>5, Zenon
<1> QED BY <1>5, <1>6

\* e is where the records of r stand in the first n of s: all that are
\* accepted, in order.
Keeps(s, r, e, n) ==
  /\ e \in [1 .. Len(r) -> 1 .. n]
  /\ \A a \in 1 .. Len(r) : s[e[a]].accepted /\ r[a] = s[e[a]]
  /\ \A a, b \in 1 .. Len(r) : a < b => e[a] < e[b]
  /\ IsFiniteSet({i \in 1 .. n : s[i].accepted})
  /\ Len(r) = Cardinality({i \in 1 .. n : s[i].accepted})

\* and what it keeps are the accepted ones, all of them, in order.
LEMMA LoopKeeps ==
  ASSUME NEW s \in Seq(Record), NEW f, Loop(s, f, Len(s)), NEW n \in 0 .. Len(s)
  PROVE  \E e : Keeps(s, f[n], e, n)
<1> SUFFICES ASSUME ~ \E e : Keeps(s, f[n], e, n) PROVE FALSE
  OBVIOUS
<1> DEFINE T == {m \in 0 .. Len(s) : ~ \E e : Keeps(s, f[m], e, m)}
<1>1. T \subseteq Nat /\ n \in T
  OBVIOUS
<1>2. PICK m \in T : \A y \in T : m <= y
  BY <1>1, Least
<1>3. CASE m = 0
  <2>1. f[0] = <<>> /\ Len(f[0]) = 0
    BY DEF Loop
  <2>2. {i \in 1 .. 0 : s[i].accepted} = {}
    OBVIOUS
  <2>3. Keeps(s, f[0], [a \in 1 .. 0 |-> 0], 0)
    BY <2>1, <2>2, FS_EmptySet DEF Keeps
  <2> QED BY <1>2, <1>3, <2>3
<1>4. CASE m # 0
  <2>1. m \in 1 .. Len(s) /\ m - 1 \in 0 .. Len(s) /\ m - 1 \notin T /\ m \in 0 .. Len(s)
    BY <1>2, <1>4
  <2> DEFINE r == f[m - 1]
  <2>2. PICK e : Keeps(s, r, e, m - 1)
    BY <2>1
  <2>3. r \in Seq(Record) /\ s[m] \in Record /\ Len(r) \in Nat
    BY <2>1 DEF Loop
  <2>4. f[m] = IF s[m].accepted THEN Append(r, s[m]) ELSE r
    BY <2>1 DEF Loop
  <2> DEFINE Of(k) == {i \in 1 .. k : s[i].accepted}
  <2>5. CASE s[m].accepted
    <3> DEFINE g == [a \in 1 .. Len(r) + 1 |-> IF a = Len(r) + 1 THEN m ELSE e[a]]
    <3>1. Len(f[m]) = Len(r) + 1 /\ f[m][Len(r) + 1] = s[m]
          /\ \A a \in 1 .. Len(r) : f[m][a] = r[a]
      BY <2>3, <2>4, <2>5
    <3>2. Of(m) = Of(m - 1) \cup {m} /\ m \notin Of(m - 1)
      BY <2>1, <2>5
    <3>3. IsFiniteSet(Of(m)) /\ Cardinality(Of(m)) = Len(r) + 1
      <4>1. IsFiniteSet(Of(m - 1)) /\ Cardinality(Of(m - 1)) = Len(r)
        BY <2>2 DEF Keeps
      <4>2. /\ IsFiniteSet(Of(m - 1) \cup {m})
            /\ Cardinality(Of(m - 1) \cup {m}) = Cardinality(Of(m - 1)) + 1
        BY <4>1, <3>2, FS_AddElement, Zenon
      <4> QED BY <4>1, <4>2, <3>2, Zenon
    <3>4. g \in [1 .. Len(f[m]) -> 1 .. m]
      BY <2>1, <2>2, <2>3, <3>1 DEF Keeps
    <3>5. \A a \in 1 .. Len(f[m]) : s[g[a]].accepted /\ f[m][a] = s[g[a]]
      <4> SUFFICES ASSUME NEW a \in 1 .. Len(r) + 1
                   PROVE  s[g[a]].accepted /\ f[m][a] = s[g[a]]
        BY <3>1
      <4>1. CASE a = Len(r) + 1
        <5>1. g[a] = m /\ f[m][a] = s[m]
          BY <3>1, <4>1
        <5> QED BY <2>5, <5>1
      <4>2. CASE a # Len(r) + 1
        <5>1. a \in 1 .. Len(r) /\ g[a] = e[a]
          BY <2>3, <4>2
        <5> QED BY <2>2, <3>1, <5>1 DEF Keeps
      <4> QED BY <4>1, <4>2
    <3>6. \A a, b \in 1 .. Len(f[m]) : a < b => g[a] < g[b]
      <4> SUFFICES ASSUME NEW a \in 1 .. Len(r) + 1, NEW b \in 1 .. Len(r) + 1, a < b
                   PROVE  g[a] < g[b]
        BY <3>1
      <4>1. a \in 1 .. Len(r) /\ g[a] = e[a] /\ e[a] \in 1 .. m - 1
        BY <2>2, <2>3 DEF Keeps
      <4>2. CASE b = Len(r) + 1
        BY <2>1, <4>1, <4>2
      <4>3. CASE b # Len(r) + 1
        <5>1. b \in 1 .. Len(r) /\ g[b] = e[b]
          BY <2>3, <4>3
        <5> QED BY <2>2, <4>1, <5>1 DEF Keeps
      <4> QED BY <4>2, <4>3
    <3>7. Keeps(s, f[m], g, m)
      BY <3>1, <3>3, <3>4, <3>5, <3>6 DEF Keeps
    <3> QED BY <1>2, <3>7
  <2>6. CASE ~ s[m].accepted
    <3>1. Of(m) = Of(m - 1)
      BY <2>1, <2>6
    <3>2. f[m] = r
      BY <2>4, <2>6
    <3>3. e \in [1 .. Len(r) -> 1 .. m]
      BY <2>1, <2>2 DEF Keeps
    <3>4. Keeps(s, f[m], e, m)
      BY <2>2, <3>1, <3>2, <3>3 DEF Keeps
    <3> QED BY <1>2, <3>4
  <2> QED BY <2>5, <2>6
<1> QED BY <1>3, <1>4

\* The filter keeps the accepted records, all of them, in their order.
LEMMA AcceptedRight ==
  ASSUME collected \in Seq(Record)
  PROVE  /\ Accepted \in Seq(Record)
         /\ \E e : Keeps(collected, Accepted, e, Len(collected))
<1> DEFINE N == Len(collected)
           M[n \in 0 .. Len(collected)] ==
             IF n = 0 THEN <<>>
             ELSE IF collected[n].accepted THEN Append(M[n - 1], collected[n])
             ELSE M[n - 1]
           Body(g) == [n \in 0 .. Len(collected) |->
                         IF n = 0 THEN <<>>
                         ELSE IF collected[n].accepted
                              THEN Append(g[n - 1], collected[n]) ELSE g[n - 1]]
<1>1. Accepted = M[N]
  BY DEF Accepted
<1>2. M = CHOOSE g : g = Body(g)
  OBVIOUS
<1>3. PICK f : Loop(collected, f, N)
  BY LoopRuns
<1>4. f = Body(f)
  BY <1>3 DEF Loop
<1>5. M = Body(M)
  <2> HIDE DEF Body, M
  <2> QED BY <1>2, <1>4
<1> HIDE DEF M
<1>8. /\ DOMAIN M = 0 .. N
      /\ \A n \in 0 .. N :
           M[n] = IF n = 0 THEN <<>>
                  ELSE IF collected[n].accepted
                       THEN Append(M[n - 1], collected[n]) ELSE M[n - 1]
      /\ M = [n \in 0 .. N |-> M[n]]
  <2>1. /\ DOMAIN Body(M) = 0 .. N
        /\ \A n \in 0 .. N :
             Body(M)[n] = IF n = 0 THEN <<>>
                    ELSE IF collected[n].accepted
                         THEN Append(M[n - 1], collected[n]) ELSE M[n - 1]
        /\ Body(M) = [n \in 0 .. N |-> Body(M)[n]]
    OBVIOUS
  <2> HIDE DEF Body, N
  <2> QED BY <1>5, <2>1, Zenon
<1>7. Loop(collected, M, N)
  BY <1>8, LoopOnly, Zenon
<1>9. N \in 0 .. N
  OBVIOUS
<1>10. M[N] \in Seq(Record)
  BY <1>7, <1>9, Zenon DEF Loop
<1>11. \E e : Keeps(collected, M[N], e, N)
  BY <1>7, <1>9, LoopKeeps, Zenon
<1> QED BY <1>1, <1>10, <1>11, Zenon

\* Type correctness of a generation call.
CallFlags ==
  /\ limit_exceeded \in BOOLEAN /\ no_memory \in BOOLEAN
  /\ oom \in BOOLEAN /\ failed \in BOOLEAN
CallData ==
  /\ calling \in {"idle", "record", "visit", "normalize", "filter"}
  /\ limit \in Nat /\ left \in Nat /\ form_count \in Nat /\ capacity \in Nat
  /\ forms \in Seq(Form) /\ produced \in Seq(Form)
  /\ collected \in Seq(Record) /\ result \in Seq(Record)
  /\ service \in {"OK", "NO_MEMORY", "ENGINE_ERROR", "STOPPED"}
  /\ error \in Errors
  /\ answer \in {NoAnswer, "OK", "NO_MEMORY", "INTERNAL_ERROR",
                 "RESULT_LIMIT_EXCEEDED"}
CallTypes == CallFlags /\ CallData

\* The record that is made of the k-th form.
Taken(k) == [rank |-> produced[k].rank, accepted |-> produced[k].accepted,
             source_order |-> k - 1]

\* Between calls nothing of one is left but its answer and the error.
Idle ==
  calling = "idle" => /\ collected = <<>> /\ capacity = 0 /\ forms = <<>>
                      /\ ~ limit_exceeded /\ ~ no_memory /\ service = "OK"
\* During a call there is no answer.
Unanswered == calling # "idle" => answer = NoAnswer /\ result = <<>>

\* While the engine runs nothing has gone wrong, and the forms are in the
\* collector in the order they were produced, the rest of them to be visited.
Collecting ==
  calling \in {"record", "visit"} =>
    /\ ~ limit_exceeded /\ ~ no_memory /\ service = "OK" /\ error = "NONE"
    /\ ~ oom /\ ~ failed
    /\ calling = "record" => forms = <<>>
    /\ form_count = Len(collected) /\ Len(collected) <= HardLimit
    /\ Len(collected) + Len(forms) = Len(produced)
    /\ \A k \in DOMAIN collected : collected[k] = Taken(k)
    /\ \A k \in DOMAIN forms : forms[k] = produced[Len(collected) + k]

\* What stopped the service is what the collector and the service say.
Stopping ==
  calling = "normalize" =>
    /\ limit_exceeded => Len(produced) > HardLimit
    /\ no_memory => oom
    /\ service = "STOPPED" => limit_exceeded \/ no_memory
    /\ service = "NO_MEMORY" => oom
    /\ service = "ENGINE_ERROR" => failed
    /\ service = "OK" => /\ ~ oom /\ ~ failed
                         /\ form_count = Len(collected)
                         /\ Len(collected) = Len(produced)
                         /\ \A k \in DOMAIN collected : collected[k] = Taken(k)

\* The sorted records are the forms, each once.
SortedBy(p) ==
  /\ p \in [1 .. Len(produced) -> 1 .. Len(produced)]
  /\ \A i, j \in 1 .. Len(produced) : i # j => p[i] # p[j]
  /\ \A i \in 1 .. Len(produced) : collected[i] = Taken(p[i])
  /\ \A i, j \in 1 .. Len(produced) :
       i < j => Precedes(collected[i], collected[j])
Filtering ==
  calling = "filter" =>
    /\ ~ oom /\ ~ failed /\ Len(collected) = Len(produced)
    /\ \E p \in [1 .. Len(produced) -> 1 .. Len(produced)] : SortedBy(p)

\* The inductive invariant: at each point of a call, what is known by then.
CInv == /\ CallTypes /\ Idle /\ Unanswered
        /\ Collecting /\ Stopping /\ Filtering
        /\ calling = "idle" => StatusExplained /\ CompleteAndOrdered

\* Before the first call.
LEMMA CallInit == CInit => CInv
<1> SUFFICES ASSUME CInit PROVE CInv
  OBVIOUS
<1>1. CallTypes
  <2>1. CallFlags
    BY Zenon DEF CInit, CallFlags
  <2>2. CallData
    BY DEF CInit, CallData, Errors, NoAnswer
  <2> QED BY <2>1, <2>2 DEF CallTypes
<1>2. StatusExplained /\ CompleteAndOrdered
  BY DEF CInit, StatusExplained, CompleteAndOrdered, NoAnswer
<1> QED BY <1>1, <1>2 DEF CInit, CInv, Idle, Unanswered, Collecting, Stopping, Filtering

\* A call for a lemma of the index begins with nothing collected.
LEMMA StepGenerate ==
  ASSUME CInv, NEW n \in Nat \ {0}, NEW l \in Limits, GenerateLemma(n, l)
  PROVE  CInv'
<1> USE GenerationAssumption
<1>1. CallTypes'
  <2>1. CallFlags'
    BY Zenon DEF CInv, CallTypes, CallFlags, GenerateLemma, collector
  <2>2. CallData'
    BY DEF CInv, CallTypes, CallData, GenerateLemma, ErrorCleared, Errors,
           NoAnswer, collector
  <2> QED BY <2>1, <2>2 DEF CallTypes
<1>2. Unanswered' /\ Idle'
  BY DEF GenerateLemma, Unanswered, Idle
<1>3. Collecting'
  BY DEF CInv, Idle, GenerateLemma, Collecting, ErrorCleared, collector
<1> QED BY <1>1, <1>2, <1>3 DEF CInv, GenerateLemma, Stopping, Filtering

\* A call for a lemma the index has not, or one that cannot allocate.
LEMMA StepUnknown ==
  ASSUME CInv, GenerateUnknown \/ GenerateWithoutMemory
  PROVE  CInv'
<1>1. CallTypes'
  <2>1. CallFlags'
    BY Zenon DEF CInv, CallTypes, CallFlags, GenerateUnknown,
                 GenerateWithoutMemory, collector
  <2>2. /\ calling' = calling /\ result' = <<>> /\ produced' = <<>>
        /\ answer' = "OK" \/ answer' = "NO_MEMORY"
        /\ UNCHANGED <<limit, left, forms, form_count, collected, capacity,
                       service, error>>
    BY Zenon DEF GenerateUnknown, GenerateWithoutMemory, call, collector
  <2>3. CallData'
    BY <2>2 DEF CInv, CallTypes, CallData
  <2> QED BY <2>1, <2>3 DEF CallTypes
<1>2. calling' = "idle" /\ result' = <<>> /\ produced' = <<>>
  BY DEF GenerateUnknown, GenerateWithoutMemory
<1>3. Idle'
  BY DEF CInv, Idle, GenerateUnknown, GenerateWithoutMemory, call, collector
<1>4. Cardinality(Matching') = 0
  <2>1. Matching' = {}
    BY <1>2 DEF Matching
  <2> QED BY <2>1, FS_EmptySet
<1>5. CompleteAndOrdered'
  BY <1>2, <1>4 DEF CompleteAndOrdered
<1>6. StatusExplained'
  BY <1>2 DEF StatusExplained, GenerateUnknown, GenerateWithoutMemory
<1> QED BY <1>1, <1>2, <1>3, <1>5, <1>6
        DEF CInv, Unanswered, Collecting, Stopping, Filtering

\* The engine gives the forms of a record to be visited, or the service stops
\* with a status that says why.
LEMMA StepRunEngine ==
  ASSUME CInv, RunEngine
  PROVE  CInv'
<1>1. calling = "record" /\ calling' \in {"visit", "normalize"}
      /\ UNCHANGED <<collected, capacity, limit_exceeded, no_memory, answer, result>>
      /\ UNCHANGED <<limit, form_count>>
  BY DEF RunEngine, ServiceReturns, collector, outcome, call
<1>2. /\ ~ limit_exceeded /\ ~ no_memory /\ service = "OK" /\ error = "NONE"
      /\ ~ oom /\ ~ failed /\ forms = <<>>
      /\ form_count = Len(collected) /\ Len(collected) <= HardLimit
      /\ Len(collected) = Len(produced)
      /\ \A k \in DOMAIN collected : collected[k] = Taken(k)
  BY <1>1 DEF CInv, Collecting
<1>3. CASE calling' = "visit"
  <2>1. PICK f \in Forms : /\ forms' = f /\ produced' = produced \o f
                           /\ left' = left - 1 /\ left > 0
                           /\ UNCHANGED service
                           /\ error' = "NONE" /\ ~ oom' /\ ~ failed'
    BY <1>2, <1>3 DEF RunEngine, ServiceReturns
  <2>10. oom' \in BOOLEAN /\ failed' \in BOOLEAN
    <3>1. \A e : (oom \/ e) \in BOOLEAN /\ (failed \/ e) \in BOOLEAN
      BY Zenon
    <3> QED BY <1>3, <3>1, Zenon DEF RunEngine, ServiceReturns
  <2>2. f \in Seq(Form)
    BY DEF Forms
  <2>3. produced \in Seq(Form) /\ produced \o f \in Seq(Form)
    BY <2>2 DEF CInv, CallTypes, CallData
  <2>4. /\ Len(produced \o f) = Len(produced) + Len(f)
        /\ \A k \in 1 .. Len(produced) : (produced \o f)[k] = produced[k]
        /\ \A k \in 1 .. Len(f) : (produced \o f)[Len(produced) + k] = f[k]
    BY <2>2, <2>3
  <2>5. CallTypes'
    <3>1. CallFlags'
      BY <1>1, <2>1, <2>10, Zenon DEF CInv, CallTypes, CallFlags
    <3>2. CallData'
      BY <1>1, <1>2, <1>3, <2>1, <2>2, <2>3 DEF CInv, CallTypes, CallData, Errors
    <3> QED BY <3>1, <3>2 DEF CallTypes
  <2>6. \A k \in DOMAIN collected' : collected'[k] = Taken(k)'
    <3>1. DOMAIN collected = 1 .. Len(produced)
      BY <1>2 DEF CInv, CallTypes, CallData
    <3> QED BY <1>1, <1>2, <2>1, <2>4, <3>1 DEF Taken
  <2>7. Len(collected') + Len(forms') = Len(produced')
    BY <1>1, <1>2, <2>1, <2>4
  <2>8. \A k \in DOMAIN forms' : forms'[k] = produced'[Len(collected') + k]
    BY <1>1, <1>2, <2>1, <2>2, <2>4
  <2>9. Collecting'
    BY <1>1, <1>2, <1>3, <2>1, <2>6, <2>7, <2>8 DEF Collecting
  <2> QED BY <1>1, <1>3, <2>5, <2>9
          DEF CInv, Idle, Unanswered, Stopping, Filtering
<1> DEFINE Kept == left' = left /\ forms' = forms /\ produced' = produced
           Explained == \/ service' = "NO_MEMORY" /\ oom'
                        \/ service' = "ENGINE_ERROR" /\ failed'
<1>4. ASSUME calling' = "normalize", Kept, CallFlags', error' \in Errors, Explained
      PROVE  CInv'
  <2>1. CallTypes'
    BY <1>1, <1>4 DEF CInv, CallTypes, CallData
  <2>2. Stopping'
    BY <1>1, <1>2, <1>4 DEF Stopping
  <2> QED BY <1>1, <1>4, <2>1, <2>2
          DEF CInv, Idle, Unanswered, Collecting, Filtering
<1>5. ASSUME oom' \in BOOLEAN, failed' \in BOOLEAN PROVE CallFlags'
  BY <1>1, <1>5, Zenon DEF CInv, CallTypes, CallFlags
<1>6. CASE /\ ServiceReturns("NO_MEMORY") /\ oom' = TRUE
           /\ UNCHANGED <<call, error, produced, failed>>
  <2>1. failed' \in BOOLEAN /\ oom' \in BOOLEAN
    BY <1>6, Zenon DEF CInv, CallTypes, CallFlags
  <2>2. error' \in Errors
    BY <1>2, <1>6 DEF Errors
  <2>3. calling' = "normalize" /\ Kept
    BY <1>6 DEF ServiceReturns, call
  <2>4. Explained
    BY <1>6, Zenon DEF ServiceReturns
  <2> HIDE DEF Kept, Explained
  <2> QED BY <1>4, <1>5, <2>1, <2>2, <2>3, <2>4, Zenon
<1>7. ASSUME NEW e \in Errors, error' = e, ServiceReturns(RuntimeStatus(error')),
             UNCHANGED <<call, produced>>,
             oom' = (oom \/ e = "NO_MEMORY"),
             failed' \in BOOLEAN, e # "NO_MEMORY" => failed'
      PROVE  CInv'
  <2>1. oom' \in BOOLEAN
    BY <1>7, Zenon
  <2>2. calling' = "normalize" /\ Kept /\ service' = RuntimeStatus(e)
    BY <1>7 DEF ServiceReturns, call
  <2>3. Explained
    <3>1. CASE e = "NO_MEMORY"
      BY <1>7, <2>2, <3>1, Zenon DEF RuntimeStatus
    <3>2. CASE e # "NO_MEMORY"
      BY <1>7, <2>2, <3>2, Zenon DEF RuntimeStatus
    <3> QED BY <3>1, <3>2
  <2> HIDE DEF Kept, Explained
  <2> QED BY <1>4, <1>5, <1>7, <2>1, <2>2, <2>3, Zenon
<1>8. ASSUME NEW e \in Errors,
             error' = IF error = "NONE" THEN e ELSE error,
             ServiceReturns(RuntimeStatus(error')),
             oom' = (oom \/ e = "NO_MEMORY"),
             failed' = (failed \/ e # "NO_MEMORY"),
             UNCHANGED <<call, produced>>
      PROVE  CInv'
  <2>1. failed' \in BOOLEAN /\ (e # "NO_MEMORY" => failed')
    BY <1>8, Zenon
  <2>2. error' = e
    BY <1>2, <1>8, Zenon
  <2> QED BY <1>7, <1>8, <2>1, <2>2, Zenon
<1>9. ASSUME NEW e \in Errors,
             error' = IF error = "NONE" THEN e ELSE error,
             oom' = (oom \/ e = "NO_MEMORY"),
             failed' = (failed \/ e = "INTERNAL"),
             IF error' = "NONE"
             THEN calling' = "visit"
             ELSE ServiceReturns(RuntimeStatus(error')) /\ UNCHANGED <<call, produced>>
      PROVE  CInv'
  <2>1. error' = e
    BY <1>2, <1>9, Zenon
  <2>2. CASE e = "NONE"
    BY <1>3, <1>9, <2>1, <2>2, Zenon
  <2>3. CASE e # "NONE"
    <3>1. e # "NO_MEMORY" => e = "INTERNAL"
      BY <2>3 DEF Errors
    <3>2. failed' \in BOOLEAN /\ (e # "NO_MEMORY" => failed')
      BY <1>9, <3>1, Zenon
    <3> QED BY <1>7, <1>9, <2>1, <2>3, <3>2, Zenon
  <2> QED BY <2>2, <2>3
<1> QED BY <1>6, <1>8, <1>9, Zenon DEF RunEngine

\* The records come to an end, or the forms of one of them do.
LEMMA StepRecords ==
  ASSUME CInv, RecordsDone \/ RecordDone
  PROVE  CInv'
<1>1. \/ calling = "record" /\ calling' = "normalize" /\ service' = "OK"
      \/ calling = "visit" /\ forms = <<>> /\ calling' = "record" /\ UNCHANGED service
  <2>1. CASE RecordsDone
    <3>1. calling = "record" /\ ServiceReturns("OK")
      BY <2>1 DEF RecordsDone
    <3> QED BY <3>1 DEF ServiceReturns
  <2>2. CASE RecordDone
    BY <2>2 DEF RecordDone
  <2> QED BY <2>1, <2>2
<1>2. UNCHANGED <<call, collector, error, outcome, history>>
  BY DEF RecordsDone, RecordDone
<1>3. CallTypes'
  BY <1>1, <1>2 DEF CInv, CallTypes, CallFlags, CallData, call, collector,
                    outcome, history
<1>4. Collecting' /\ Stopping'
  <2>1. CASE calling' = "normalize"
    BY <1>1, <1>2, <2>1
       DEF CInv, CallTypes, CallData, Collecting, Stopping, Taken, call, collector, outcome, history
  <2>2. CASE calling' = "record"
    BY <1>1, <1>2, <2>2
       DEF CInv, Collecting, Stopping, Taken, call, collector, outcome, history
  <2> QED BY <1>1, <2>1, <2>2
<1> QED BY <1>1, <1>2, <1>3, <1>4 DEF CInv, Idle, Unanswered, Filtering, outcome

\* Something to grow to is left below the limit.
LEMMA GrownGrows ==
  ASSUME NEW n \in Nat, n < HardLimit
  PROVE  Grown(n) \in Nat /\ Grown(n) > n
BY GenerationAssumption DEF Grown

\* A form is added to the collector, which has room for it or grows; or it is
\* one too many, or there is no memory, and the service stops.
LEMMA StepVisit ==
  ASSUME CInv, Visit
  PROVE  CInv'
<1> USE GenerationAssumption
<1>1. /\ calling = "visit" /\ forms # <<>> /\ form_count' = form_count + 1
      /\ UNCHANGED <<limit, left, error, answer, result, produced, failed>>
  BY DEF Visit, outcome
<1>2. /\ ~ limit_exceeded /\ ~ no_memory /\ service = "OK" /\ error = "NONE"
      /\ ~ oom /\ ~ failed
      /\ form_count = Len(collected) /\ Len(collected) <= HardLimit
      /\ Len(collected) + Len(forms) = Len(produced)
      /\ \A k \in DOMAIN collected : collected[k] = Taken(k)
      /\ \A k \in DOMAIN forms : forms[k] = produced[Len(collected) + k]
  BY <1>1 DEF CInv, Collecting
<1>3. /\ forms \in Seq(Form) /\ Len(forms) \in Nat \ {0} /\ Head(forms) \in Form
      /\ Tail(forms) \in Seq(Form) /\ Len(Tail(forms)) = Len(forms) - 1
      /\ DOMAIN Tail(forms) = 1 .. Len(forms) - 1
      /\ \A k \in 1 .. Len(forms) - 1 : Tail(forms)[k] = forms[k + 1]
      /\ Head(forms) = forms[1]
  BY <1>1 DEF CInv, CallTypes, CallData
<1>4. /\ collected \in Seq(Record) /\ Len(collected) \in Nat
      /\ DOMAIN collected = 1 .. Len(collected)
      /\ produced \in Seq(Form) /\ Len(produced) \in Nat /\ capacity \in Nat
  BY DEF CInv, CallTypes, CallData
<1>5. CASE Collected(Head(forms)) /\ capacity' \in Nat /\ Len(collected) < HardLimit
  <2> DEFINE r == Ordered(Head(forms))
  <2>1. /\ collected' = Append(collected, r) /\ forms' = Tail(forms)
        /\ UNCHANGED <<calling, service, limit_exceeded, no_memory, oom>>
    BY <1>5 DEF Collected
  <2>2. r \in Record /\ r = Taken(Len(collected) + 1)
    <3>1. Head(forms) = produced[Len(collected) + 1]
      BY <1>2, <1>3
    <3> QED BY <1>3, <1>4, <3>1 DEF Ordered, Taken, Form, Record
  <2> HIDE DEF r
  <2>3. /\ collected' \in Seq(Record) /\ Len(collected') = Len(collected) + 1
        /\ DOMAIN collected' = 1 .. Len(collected) + 1
        /\ \A k \in 1 .. Len(collected) : collected'[k] = collected[k]
        /\ collected'[Len(collected) + 1] = r
    BY <1>4, <2>1, <2>2
  <2>4. CallTypes'
    BY <1>1, <1>2, <1>3, <1>5, <2>1, <2>3 DEF CInv, CallTypes, CallFlags, CallData
  <2>5. \A k \in DOMAIN collected' : collected'[k] = Taken(k)'
    <3> SUFFICES ASSUME NEW k \in 1 .. Len(collected) + 1
                 PROVE  collected'[k] = Taken(k)
      BY <1>1, <2>3 DEF Taken
    <3> QED BY <1>2, <1>4, <2>2, <2>3
  <2>6. \A k \in DOMAIN forms' : forms'[k] = produced'[Len(collected') + k]
    <3> SUFFICES ASSUME NEW k \in 1 .. Len(forms) - 1
                 PROVE  Tail(forms)[k] = produced[Len(collected) + 1 + k]
      BY <1>1, <1>3, <2>1, <2>3
    <3>1. k + 1 \in DOMAIN forms /\ Tail(forms)[k] = forms[k + 1]
      BY <1>3
    <3>2. forms[k + 1] = produced[Len(collected) + (k + 1)]
      BY <1>2, <3>1
    <3> QED BY <1>4, <3>1, <3>2
  <2>7. /\ form_count' = Len(collected') /\ Len(collected') <= HardLimit
        /\ Len(collected') + Len(forms') = Len(produced')
    BY <1>1, <1>2, <1>3, <1>4, <1>5, <2>1, <2>3
  <2>8. Collecting'
    BY <1>1, <1>2, <2>1, <2>5, <2>6, <2>7 DEF Collecting
  <2> QED BY <1>1, <2>1, <2>4, <2>8 DEF CInv, Idle, Unanswered, Stopping, Filtering
<1>6. CASE Stopped /\ capacity' \in Nat /\ oom' \in BOOLEAN
           /\ limit_exceeded' \in BOOLEAN /\ no_memory' \in BOOLEAN
           /\ (limit_exceeded' \/ no_memory')
           /\ (limit_exceeded' => Len(collected) = HardLimit)
           /\ (no_memory' => oom')
  <2>1. calling' = "normalize" /\ service' = "STOPPED"
        /\ UNCHANGED <<collected, capacity, forms>>
    BY <1>6 DEF Stopped, ServiceReturns
  <2>2. CallTypes'
    BY <1>1, <1>6, <2>1, <1>2, <1>4 DEF CInv, CallTypes, CallFlags, CallData
  <2>3. Stopping'
    BY <1>1, <1>2, <1>3, <1>4, <1>6, <2>1 DEF Stopping
  <2> QED BY <1>1, <2>1, <2>2, <2>3 DEF CInv, Idle, Unanswered, Collecting, Filtering
<1>7. CASE Len(collected) = HardLimit
  <2>1. ~ (Len(collected) < HardLimit)
    BY <1>4, <1>7
  <2>2. limit_exceeded' = TRUE /\ Stopped /\ UNCHANGED <<no_memory, oom>>
    BY <2>1, Zenon DEF Visit
  <2>3. UNCHANGED capacity
    BY <2>2 DEF Stopped
  <2> QED BY <1>2, <1>4, <1>6, <1>7, <2>2, <2>3, Zenon DEF CInv, CallTypes, CallFlags
<1>8. CASE Len(collected) < HardLimit /\ Len(collected) = capacity
  <2>1. Grown(capacity) \in Nat /\ Grown(capacity) > capacity
    BY <1>4, <1>8, GrownGrows
  <2>2. \/ capacity' = Grown(capacity) /\ Collected(Head(forms))
        \/ no_memory' = TRUE /\ oom' = TRUE /\ Stopped /\ UNCHANGED limit_exceeded
    <3>1. Len(collected) # HardLimit /\ ~ (Len(collected) < capacity)
      BY <1>4, <1>8
    <3>2. oom \/ Grown(capacity) > capacity
      BY <2>1
    <3> QED BY <2>1, <3>1, <3>2, Zenon DEF Visit
  <2>3. CASE capacity' = Grown(capacity) /\ Collected(Head(forms))
    BY <1>5, <1>8, <2>1, <2>3, Zenon
  <2>4. CASE no_memory' = TRUE /\ oom' = TRUE /\ Stopped /\ UNCHANGED limit_exceeded
    BY <1>2, <1>4, <1>6, <2>4, Zenon DEF Stopped, CInv, CallTypes, CallFlags
  <2> QED BY <2>2, <2>3, <2>4
<1>9. CASE Len(collected) < HardLimit /\ Len(collected) # capacity
  <2>1. Len(collected) # HardLimit
    BY <1>9
  <2>2. Collected(Head(forms)) /\ UNCHANGED capacity
    BY <1>9, <2>1, Zenon DEF Visit
  <2> QED BY <1>4, <1>5, <1>9, <2>2
<1> QED BY <1>2, <1>4, <1>7, <1>8, <1>9

\* What Return leaves, whatever the call answers.
LEMMA Returned ==
  ASSUME CInv, NEW status, NEW records \in Seq(Record), NEW ranout \in BOOLEAN,
         Return(status, records, ranout), UNCHANGED <<error, produced, failed>>,
         status \in {"OK", "NO_MEMORY", "INTERNAL_ERROR", "RESULT_LIMIT_EXCEEDED"},
         (StatusExplained /\ CompleteAndOrdered)'
  PROVE  CInv'
<1>1. /\ calling' = "idle" /\ answer' = status /\ result' = records
      /\ left' = 0 /\ forms' = <<>> /\ form_count' = 0 /\ collected' = <<>>
      /\ capacity' = 0 /\ service' = "OK"
      /\ UNCHANGED <<limit, error, produced>>
  BY DEF Return
<1>2. CallFlags'
  <2>1. oom' \in BOOLEAN
    BY Zenon DEF Return
  <2> QED BY <2>1, Zenon DEF CInv, CallTypes, CallFlags, Return
<1>3. CallData'
  BY <1>1 DEF CInv, CallTypes, CallData
<1>4. Idle'
  BY <1>1, Zenon DEF Idle, Return
<1> QED BY <1>1, <1>2, <1>3, <1>4
        DEF CInv, CallTypes, Unanswered, Collecting, Stopping, Filtering

\* The status is that of the first thing that went wrong.
LEMMA StatusRight ==
  ASSUME CInv, calling = "normalize"
  PROVE  \/ /\ NormalizedStatus = "OK" /\ ~ oom /\ ~ failed
            /\ Len(collected) = Len(produced)
            /\ \A k \in DOMAIN collected : collected[k] = Taken(k)
         \/ NormalizedStatus = "NO_MEMORY" /\ oom
         \/ NormalizedStatus = "RESULT_LIMIT_EXCEEDED" /\ Len(produced) > HardLimit
         \/ NormalizedStatus = "INTERNAL_ERROR" /\ failed
<1>1. Stopping /\ service \in {"OK", "NO_MEMORY", "ENGINE_ERROR", "STOPPED"}
  BY DEF CInv, CallTypes, CallData
<1>2. CASE limit_exceeded
  <2>1. NormalizedStatus = "RESULT_LIMIT_EXCEEDED"
    BY <1>2, Zenon DEF NormalizedStatus
  <2> QED BY <1>1, <1>2, <2>1 DEF Stopping
<1>3. CASE ~ limit_exceeded /\ no_memory
  <2>1. NormalizedStatus = "NO_MEMORY"
    BY <1>3 DEF NormalizedStatus
  <2> QED BY <1>1, <1>3, <2>1 DEF Stopping
<1>4. CASE ~ limit_exceeded /\ ~ no_memory
  <2>1. service # "STOPPED"
    BY <1>1, <1>4 DEF Stopping
  <2>2. CASE service = "NO_MEMORY"
    <3>1. NormalizedStatus = "NO_MEMORY"
      BY <1>4, <2>2 DEF NormalizedStatus
    <3> QED BY <1>1, <2>2, <3>1 DEF Stopping
  <2>3. CASE service = "ENGINE_ERROR"
    <3>1. NormalizedStatus = "INTERNAL_ERROR"
      BY <1>4, <2>3 DEF NormalizedStatus
    <3> QED BY <1>1, <2>3, <3>1 DEF Stopping
  <2>4. CASE service = "OK"
    <3>1. form_count = Len(collected)
      BY <1>1, <2>4 DEF Stopping
    <3>2. NormalizedStatus = "OK"
      BY <1>4, <2>4, <3>1 DEF NormalizedStatus
    <3> QED BY <1>1, <2>4, <3>2 DEF Stopping
  <2> QED BY <1>1, <2>1, <2>2, <2>3, <2>4
<1> QED BY <1>2, <1>3, <1>4

\* The records are sorted, or the call returns the status of what went wrong.
LEMMA StepNormalize ==
  ASSUME CInv, Normalize
  PROVE  CInv'
<1>1. calling = "normalize" /\ UNCHANGED <<error, produced, failed>>
  BY DEF Normalize
<1>2. CASE NormalizedStatus = "OK"
  <2>1. /\ ~ oom /\ ~ failed /\ Len(collected) = Len(produced)
        /\ \A k \in DOMAIN collected : collected[k] = Taken(k)
    BY <1>1, <1>2, StatusRight
  <2>2. /\ calling' = "filter" /\ collected' \in Sortings
        /\ UNCHANGED <<call, capacity, limit_exceeded, no_memory, service,
                       outcome, oom>>
    BY <1>2 DEF Normalize
  <2> DEFINE n == Len(produced)
  <2>3. /\ collected \in Seq(Record) /\ DOMAIN collected = 1 .. n /\ n \in Nat
        /\ produced \in Seq(Form)
    BY <2>1 DEF CInv, CallTypes, CallData
  <2>4. PICK p \in Permuted :
          /\ collected' = [k \in DOMAIN collected |-> collected[p[k]]]
          /\ \A i, j \in DOMAIN collected' : i < j => Precedes(collected'[i], collected'[j])
    BY <2>2 DEF Sortings
  <2>5. p \in [1 .. n -> 1 .. n] /\ \A i, j \in 1 .. n : i # j => p[i] # p[j]
    BY <2>3, <2>4 DEF Permuted
  <2>6. /\ DOMAIN collected' = 1 .. n
        /\ \A i \in 1 .. n : collected'[i] = collected[p[i]] /\ collected[p[i]] = Taken(p[i])
    BY <2>1, <2>3, <2>4, <2>5
  <2>7. collected' \in Seq(Record) /\ Len(collected') = n
    <3>1. collected' = [k \in 1 .. n |-> collected[p[k]]]
      BY <2>3, <2>4
    <3>2. \A k \in 1 .. n : collected[p[k]] \in Record
      BY <2>3, <2>5
    <3> QED BY <2>3, <3>1, <3>2
  <2>8. CallTypes'
    BY <1>1, <2>2, <2>7 DEF CInv, CallTypes, CallFlags, CallData, call, outcome
  <2>9. Filtering'
    <3>1. \A i \in 1 .. n : Taken(i)' = Taken(i)
      BY <1>1 DEF Taken
    <3>2. SortedBy(p)'
      BY <1>1, <2>4, <2>5, <2>6, <3>1 DEF SortedBy
    <3>3. ~ oom' /\ ~ failed'
      BY <1>1, <2>1, <2>2
    <3> QED BY <1>1, <2>5, <2>7, <3>2, <3>3 DEF Filtering
  <2> QED BY <1>1, <2>2, <2>8, <2>9
          DEF CInv, Idle, Unanswered, Collecting, Stopping, outcome
<1>3. CASE NormalizedStatus # "OK"
  <2>1. Return(NormalizedStatus, <<>>, FALSE)
    BY <1>3 DEF Normalize
  <2>2. /\ answer' = NormalizedStatus /\ result' = <<>>
        /\ UNCHANGED <<produced, failed>> /\ (oom => oom')
    BY <1>1, <2>1, Zenon DEF Return
  <2>3. \/ NormalizedStatus = "NO_MEMORY" /\ oom
        \/ NormalizedStatus = "RESULT_LIMIT_EXCEEDED" /\ Len(produced) > HardLimit
        \/ NormalizedStatus = "INTERNAL_ERROR" /\ failed
    BY <1>1, <1>3, StatusRight
  <2>4. CompleteAndOrdered'
    BY <1>3, <2>2 DEF CompleteAndOrdered
  <2>5. StatusExplained'
    BY <2>2, <2>3 DEF StatusExplained
  <2>6. <<>> \in Seq(Record) /\ FALSE \in BOOLEAN
        /\ NormalizedStatus \in {"OK", "NO_MEMORY", "INTERNAL_ERROR", "RESULT_LIMIT_EXCEEDED"}
    BY <2>3
  <2> QED BY <1>1, <2>1, <2>4, <2>5, <2>6, Returned
<1> QED BY <1>2, <1>3

\* The fields of a record are those of its form.
LEMMA TakenFields ==
  ASSUME NEW k
  PROVE  /\ Taken(k).rank = produced[k].rank
         /\ Taken(k).accepted = produced[k].accepted
         /\ Taken(k).source_order = k - 1
BY DEF Taken

\* The order of the sorted records is one of the forms: as many are accepted
\* as match the request.
LEMMA AcceptedMatch ==
  ASSUME CInv, NEW p, SortedBy(p), Len(collected) = Len(produced)
  PROVE  Cardinality({i \in 1 .. Len(collected) : collected[i].accepted})
           = Cardinality(Matching)
<1> DEFINE n == Len(produced)
           A == {i \in 1 .. n : collected[i].accepted}
           f == [i \in A |-> p[i]]
<1>1. /\ n \in Nat /\ DOMAIN produced = 1 .. n
  BY DEF CInv, CallTypes, CallData
<1>2. \A i \in 1 .. n : collected[i].accepted = produced[p[i]].accepted
  <2>1. \A i \in 1 .. n : collected[i] = Taken(p[i])
    BY DEF SortedBy
  <2> QED BY <2>1, TakenFields
<1>3. IsFiniteSet(1 .. n)
  BY <1>1, FS_Interval
<1>4. p \in Injection(1 .. n, 1 .. n)
  BY DEF SortedBy, Injection, IsInjective
<1>5. p \in Surjection(1 .. n, 1 .. n)
  BY <1>3, <1>4, FS_Injection
<1>6. f \in Bijection(A, Matching)
  <2>1. f \in [A -> Matching]
    BY <1>1, <1>2 DEF SortedBy, Matching
  <2>2. \A i, j \in A : f[i] = f[j] => i = j
    BY DEF SortedBy
  <2>3. \A k \in Matching : \E i \in A : f[i] = k
    <3> SUFFICES ASSUME NEW k \in Matching PROVE \E i \in A : f[i] = k
      OBVIOUS
    <3>1. PICK i \in 1 .. n : p[i] = k
      BY <1>1, <1>5 DEF Matching, Surjection
    <3>2. i \in A
      BY <1>2, <3>1 DEF Matching
    <3> QED BY <3>1, <3>2
  <2> QED BY <2>1, <2>2, <2>3 DEF Bijection, Injection, IsInjective, Surjection
<1>7. IsFiniteSet(A)
  BY <1>3, FS_Subset
<1>8. Cardinality(Matching) = Cardinality(A)
  BY <1>6, <1>7, FS_Bijection DEF ExistsBijection
<1> QED BY <1>8

\* The accepted records are returned, unless they are more than the limit.
LEMMA StepFilter ==
  ASSUME CInv, Filter
  PROVE  CInv'
<1>1. calling = "filter" /\ UNCHANGED <<error, produced, failed>>
  BY DEF Filter
<1>2. ~ oom /\ ~ failed /\ Len(collected) = Len(produced)
  BY <1>1 DEF CInv, Filtering
<1>3. PICK p \in [1 .. Len(produced) -> 1 .. Len(produced)] : SortedBy(p)
  BY <1>1 DEF CInv, Filtering
<1> DEFINE n == Len(produced)
           r == Accepted
<1>4. /\ collected \in Seq(Record) /\ DOMAIN collected = 1 .. n /\ n \in Nat
      /\ produced \in Seq(Form) /\ DOMAIN produced = 1 .. n
  BY <1>2 DEF CInv, CallTypes, CallData
<1>5. r \in Seq(Record)
  BY <1>4, AcceptedRight
<1>6. PICK e : Keeps(collected, r, e, n)
  BY <1>2, <1>4, AcceptedRight
<1>7. Len(r) = Cardinality(Matching)
  BY <1>2, <1>3, <1>6, AcceptedMatch DEF Keeps
<1>8. Matching' = Matching
  BY <1>1 DEF Matching
<1> HIDE DEF r
<1>9. CASE Len(r) > limit /\ Return("RESULT_LIMIT_EXCEEDED", <<>>, FALSE)
  <2>1. answer' = "RESULT_LIMIT_EXCEEDED" /\ result' = <<>> /\ UNCHANGED limit
    BY <1>9 DEF Return
  <2>2. CompleteAndOrdered'
    BY <2>1 DEF CompleteAndOrdered
  <2>3. StatusExplained'
    BY <1>7, <1>8, <1>9, <2>1 DEF StatusExplained
  <2>4. <<>> \in Seq(Record) /\ FALSE \in BOOLEAN
    OBVIOUS
  <2> QED BY <1>1, <1>9, <2>2, <2>3, <2>4, Returned
<1>10. CASE Return("NO_MEMORY", <<>>, TRUE)
  <2>1. answer' = "NO_MEMORY" /\ result' = <<>> /\ oom'
    BY <1>10, Zenon DEF Return
  <2>2. CompleteAndOrdered'
    BY <2>1 DEF CompleteAndOrdered
  <2>3. StatusExplained'
    BY <2>1 DEF StatusExplained
  <2>4. <<>> \in Seq(Record) /\ TRUE \in BOOLEAN
    OBVIOUS
  <2> QED BY <1>1, <1>10, <2>2, <2>3, <2>4, Returned
<1>11. CASE Return("OK", r, FALSE)
  <2>1. answer' = "OK" /\ result' = r /\ ~ oom' /\ ~ failed'
    <3>1. answer' = "OK" /\ result' = r /\ oom' = (oom \/ FALSE)
      BY <1>11 DEF Return
    <3> QED BY <1>1, <1>2, <3>1, Zenon
  <2>2. StatusExplained'
    BY <2>1 DEF StatusExplained
  <2>3. /\ e \in [1 .. Len(r) -> 1 .. n] /\ Len(r) \in Nat /\ DOMAIN r = 1 .. Len(r)
        /\ \A a \in 1 .. Len(r) : collected[e[a]].accepted /\ r[a] = collected[e[a]]
        /\ \A a, b \in 1 .. Len(r) : a < b => e[a] < e[b]
    BY <1>5, <1>6 DEF Keeps
  <2>4. ASSUME NEW a \in 1 .. Len(r)
        PROVE  /\ p[e[a]] \in Matching
               /\ r[a] = Taken(p[e[a]]) /\ produced[p[e[a]]].accepted = TRUE
    <3>1. e[a] \in 1 .. n /\ p[e[a]] \in 1 .. n
      BY <1>3, <2>3
    <3>2. r[a] = Taken(p[e[a]])
      BY <1>3, <2>3, <3>1 DEF SortedBy
    <3>3. produced[p[e[a]]] \in Form
      BY <1>4, <3>1
    <3>4. produced[p[e[a]]].accepted
      <4>1. collected[e[a]].accepted = produced[p[e[a]]].accepted
        <5>1. collected[e[a]] = Taken(p[e[a]])
          BY <1>3, <3>1 DEF SortedBy
        <5> QED BY <5>1, TakenFields
      <4> QED BY <2>3, <4>1
    <3>5. produced[p[e[a]]].accepted \in BOOLEAN
      BY <3>3 DEF Form
    <3> QED BY <1>4, <3>1, <3>2, <3>4, <3>5 DEF Matching
  <2>5. \A a \in 1 .. Len(r) :
          \E k \in Matching : r[a] = [rank |-> produced[k].rank, accepted |-> TRUE,
                                      source_order |-> k - 1]
    BY <2>4 DEF Taken
  <2>6. ASSUME NEW a \in 1 .. Len(r), NEW b \in 1 .. Len(r), a < b
        PROVE  \/ r[a].rank < r[b].rank
               \/ r[a].rank = r[b].rank /\ r[a].source_order < r[b].source_order
    <3>1. /\ e[a] \in 1 .. n /\ e[b] \in 1 .. n /\ e[a] < e[b]
          /\ r[a] = collected[e[a]] /\ r[b] = collected[e[b]]
      BY <2>3, <2>6
    <3>2. Precedes(r[a], r[b])
      BY <1>3, <3>1 DEF SortedBy
    <3>3. /\ r[a].source_order = p[e[a]] - 1 /\ r[b].source_order = p[e[b]] - 1
          /\ p[e[a]] \in Nat /\ p[e[b]] \in Nat /\ p[e[a]] # p[e[b]]
      <4>1. p \in [1 .. n -> 1 .. n] /\ \A i, j \in 1 .. n : i # j => p[i] # p[j]
        BY <1>3 DEF SortedBy
      <4>2. e[a] # e[b] /\ p[e[a]] \in 1 .. n /\ p[e[b]] \in 1 .. n
        BY <1>4, <3>1, <4>1
      <4>3. r[a] = Taken(p[e[a]]) /\ r[b] = Taken(p[e[b]])
        BY <2>4
      <4>4. r[a].source_order = p[e[a]] - 1 /\ r[b].source_order = p[e[b]] - 1
        BY <4>3, TakenFields
      <4>5. p[e[a]] # p[e[b]]
        BY <3>1, <4>1, <4>2
      <4> QED BY <1>4, <4>2, <4>4, <4>5
    <3> QED BY <3>2, <3>3 DEF Precedes
  <2>7. CompleteAndOrdered'
    BY <1>1, <1>7, <1>8, <2>1, <2>3, <2>5, <2>6 DEF CompleteAndOrdered
  <2>8. FALSE \in BOOLEAN
    OBVIOUS
  <2> QED BY <1>1, <1>5, <1>11, <2>2, <2>7, <2>8, Returned
<1> QED BY <1>9, <1>10, <1>11 DEF Filter, r

\* Nothing changes.
LEMMA CallStutter ==
  ASSUME CInv, UNCHANGED callvars
  PROVE  CInv'
<1>1. /\ UNCHANGED <<calling, limit, left, forms, form_count, collected, capacity>>
      /\ UNCHANGED <<service, error, answer, result, produced>>
      /\ UNCHANGED <<limit_exceeded, no_memory, oom, failed>>
  BY DEF callvars, call, collector, outcome, history
<1>2. CallTypes'
  BY <1>1 DEF CInv, CallTypes, CallFlags, CallData
<1>3. Collecting' /\ Stopping' /\ Idle' /\ Unanswered'
  BY <1>1 DEF CInv, Collecting, Stopping, Idle, Unanswered, Taken
<1>4. Filtering'
  <2>1. \A p : SortedBy(p) => SortedBy(p)'
    BY <1>1 DEF SortedBy, Taken
  <2> QED BY <1>1, <2>1 DEF CInv, Filtering
<1>5. Matching' = Matching
  BY <1>1 DEF Matching
<1>6. calling' = "idle" => StatusExplained' /\ CompleteAndOrdered'
  BY <1>1, <1>5 DEF CInv, StatusExplained, CompleteAndOrdered
<1> QED BY <1>2, <1>3, <1>4, <1>6 DEF CInv

\* CInv holds throughout.
LEMMA CallInvariance == Calls => []CInv
<1>1. ASSUME CInv, [Call(Nat \ {0}) \/ Work]_callvars PROVE CInv'
  <2>1. CASE UNCHANGED callvars
    BY <1>1, <2>1, CallStutter
  <2>2. CASE Call(Nat \ {0})
    BY <1>1, <2>2, StepGenerate, StepUnknown DEF Call
  <2>3. CASE Work
    BY <1>1, <2>3, StepRunEngine, StepRecords, StepVisit, StepNormalize, StepFilter
       DEF Work
  <2> QED BY <1>1, <2>1, <2>2, <2>3
<1> QED BY <1>1, CallInit, PTL DEF Calls

\* Type correctness of the generation calls: the collector never holds
\* anything but records, and the status of the service is one of its own
\* (morpheus_generate,
\* collect_form of bridge/generation_normalizer.c).
THEOREM CallsTyped == Calls => []CallTypes
<1>1. CInv => CallTypes
  BY DEF CInv
<1> QED BY <1>1, CallInvariance, PTL

\* StatusExplained: an error is answered only when memory ran out, the engine
\* failed or there were too many forms in that call, whatever error the context
\* had kept from earlier calls (morpheus_generation_service_generate and
\* morpheus_generation_normalize).
THEOREM CallsExplained == Calls => []StatusExplained
<1>1. CInv => StatusExplained
  BY DEF CInv, Unanswered, StatusExplained, NoAnswer
<1> QED BY <1>1, CallInvariance, PTL

\* CompleteAndOrdered: a call that answers OK returns every form the engine
\* produced that matches the request, each once, by rank and then in the order
\* in which they were produced (collect_form, the qsort of
\* morpheus_generation_normalize, generation_matches); one that does not
\* returns nothing.
THEOREM CallsComplete == Calls => []CompleteAndOrdered
<1>1. CInv => CompleteAndOrdered
  BY DEF CInv, Unanswered, CompleteAndOrdered, NoAnswer
<1> QED BY <1>1, CallInvariance, PTL

----------------------------------------------------------------------------
(* The preparer: concatenation (FlattenSeq).                               *)

\* A name for the concatenation of two sequences.
Cat(a, b) == a \o b
\* It has the type of the two.
LEMMA CatType ==
  ASSUME NEW T, NEW a \in Seq(T), NEW b \in Seq(T)
  PROVE  Cat(a, b) \in Seq(T)
BY DEF Cat

\* f is what has been concatenated of the first n of the sequences.
Joins(T, ss, f, n) ==
  /\ f \in [1 .. n -> Seq(T)]
  /\ \A i \in 1 .. n : f[i] = IF i = 1 THEN ss[i] ELSE Cat(f[i - 1], ss[i])

\* Sequences can be concatenated one by one,
LEMMA JoinsExists ==
  ASSUME NEW T, NEW ss \in Seq(Seq(T)), NEW n \in 1 .. Len(ss)
  PROVE  \E f : Joins(T, ss, f, n)
<1> SUFFICES ASSUME ~ \E f : Joins(T, ss, f, n) PROVE FALSE
  OBVIOUS
<1> DEFINE M == {m \in 1 .. Len(ss) : ~ \E f : Joins(T, ss, f, m)}
<1>1. M \subseteq Nat /\ n \in M
  OBVIOUS
<1>2. PICK m \in M : \A y \in M : m <= y
  BY <1>1, Least
<1>6. \A i \in 1 .. Len(ss) : i \notin M => \E f : Joins(T, ss, f, i)
  OBVIOUS
<1>7. Len(ss) \in Nat /\ m \in 1 .. Len(ss) /\ m \in Nat
  BY <1>2
<1> HIDE DEF M
<1>3. \A i \in 1 .. Len(ss) : ss[i] \in Seq(T)
  OBVIOUS
<1>4. CASE m = 1
  <2>1. Joins(T, ss, [i \in 1 .. 1 |-> ss[i]], 1)
    BY <1>3, <1>4, <1>7 DEF Joins
  <2> QED BY <1>4, <1>7, <2>1 DEF M
<1>5. CASE m # 1
  <2>1. m \in 2 .. Len(ss) /\ m - 1 \in 1 .. Len(ss) /\ m - 1 \notin M
    BY <1>2, <1>5, <1>7
  <2>2. PICK f : Joins(T, ss, f, m - 1)
    BY <1>6, <2>1
  <2> DEFINE g == [i \in 1 .. m |-> IF i = m THEN Cat(f[m - 1], ss[m]) ELSE f[i]]
  <2>3. f[m - 1] \in Seq(T) /\ ss[m] \in Seq(T)
    BY <1>3, <2>1, <2>2 DEF Joins
  <2>4. g \in [1 .. m -> Seq(T)]
    BY <2>1, <2>2, <2>3, CatType DEF Joins
  <2>5. ASSUME NEW i \in 1 .. m
        PROVE  g[i] = IF i = 1 THEN ss[i] ELSE Cat(g[i - 1], ss[i])
    <3>1. CASE i = m
      <4> m - 1 \in 1 .. m /\ m \in 1 .. m /\ m - 1 # m /\ m # 1
        BY <1>7, <2>1
      <4>1. g[m] = Cat(f[m - 1], ss[m]) /\ g[m - 1] = f[m - 1] /\ m # 1
        OBVIOUS
      <4> QED BY <3>1, <4>1
    <3>2. CASE i # m
      <4>1. i \in 1 .. m - 1 /\ m \in Nat
        BY <2>1, <3>2
      <4>2. g[i] = f[i] /\ (i # 1 => i - 1 \in 1 .. m /\ g[i - 1] = f[i - 1])
        BY <4>1
      <4> QED BY <2>2, <4>1, <4>2 DEF Joins
    <3> QED BY <3>1, <3>2
  <2>6. Joins(T, ss, g, m)
    BY <2>4, <2>5 DEF Joins
  <2> QED BY <1>7, <2>6 DEF M
<1> QED BY <1>4, <1>5

\* whatever satisfies the equations does so,
LEMMA JoinsOnly ==
  ASSUME NEW T, NEW ss \in Seq(Seq(T)), NEW f, f = [i \in 1 .. Len(ss) |-> f[i]],
         \A i \in 1 .. Len(ss) : f[i] = IF i = 1 THEN ss[i] ELSE Cat(f[i - 1], ss[i])
  PROVE  Joins(T, ss, f, Len(ss))
<1>1. SUFFICES \A i \in 1 .. Len(ss) : f[i] \in Seq(T)
  BY DEF Joins
<1> DEFINE M == {i \in 1 .. Len(ss) : f[i] \notin Seq(T)}
<1>2. SUFFICES ASSUME M # {} PROVE FALSE
  OBVIOUS
<1>3. M \subseteq Nat
  OBVIOUS
<1>4. PICK m \in M : \A y \in M : m <= y
  BY <1>2, <1>3, Least
<1>5. m \in 1 .. Len(ss) /\ ss[m] \in Seq(T) /\ f[m] \notin Seq(T)
  BY <1>4
<1>6. CASE m = 1
  BY <1>5, <1>6
<1>7. CASE m # 1
  <2>1. m - 1 \in 1 .. Len(ss) /\ m - 1 \notin M
    BY <1>4, <1>7
  <2>2. f[m - 1] \in Seq(T)
    BY <2>1
  <2>3. f[m] = Cat(f[m - 1], ss[m])
    BY <1>5, <1>7
  <2>4. Cat(f[m - 1], ss[m]) \in Seq(T)
    BY <1>5, <2>2, CatType
  <2> QED BY <1>5, <2>3, <2>4
<1> QED BY <1>6, <1>7

\* and FlattenSeq is the last of these.
LEMMA Flattened ==
  ASSUME NEW T, NEW ss \in Seq(Seq(T)), Len(ss) # 0
  PROVE  \E f : Joins(T, ss, f, Len(ss)) /\ FlattenSeq(ss) = f[Len(ss)]
<1> DEFINE N == Len(ss)
           M[i \in 1 .. Len(ss)] == IF i = 1 THEN ss[i] ELSE M[i - 1] \o ss[i]
           Body(g) == [i \in 1 .. Len(ss) |->
                         IF i = 1 THEN ss[i] ELSE g[i - 1] \o ss[i]]
<1>1. FlattenSeq(ss) = M[N]
  BY DEF FlattenSeq
<1>2. M = CHOOSE g : g = Body(g)
  OBVIOUS
<1>3. PICK f : Joins(T, ss, f, N)
  <2>1. N \in 1 .. Len(ss)
    OBVIOUS
  <2> QED BY <2>1, JoinsExists
<1>4. f = Body(f)
  BY <1>3 DEF Joins, Cat
<1>5. M = Body(M)
  <2> HIDE DEF Body, M
  <2> QED BY <1>2, <1>4
<1> HIDE DEF M
<1>6. M = [i \in 1 .. Len(ss) |-> M[i]]
  BY <1>5
<1>7. \A i \in 1 .. Len(ss) : M[i] = IF i = 1 THEN ss[i] ELSE Cat(M[i - 1], ss[i])
  BY <1>5 DEF Cat
<1>8. Joins(T, ss, M, N)
  BY <1>6, <1>7, JoinsOnly
<1> QED BY <1>1, <1>8

\* One more sequence is concatenated at the end.
LEMMA FlattenMore ==
  ASSUME NEW T, NEW ss \in Seq(Seq(T)), NEW tt \in Seq(Seq(T)),
         NEW n \in Nat, n # 0, Len(ss) = n, Len(tt) = n + 1,
         \A i \in 1 .. n : tt[i] = ss[i]
  PROVE  /\ FlattenSeq(ss) \in Seq(T)
         /\ FlattenSeq(tt) = FlattenSeq(ss) \o tt[n + 1]
<1>1. PICK f : Joins(T, ss, f, n) /\ FlattenSeq(ss) = f[n]
  BY Flattened
<1>2. PICK g : Joins(T, tt, g, n + 1) /\ FlattenSeq(tt) = g[n + 1]
  BY Flattened
<1>3. \A i \in 1 .. n : f[i] = g[i]
  <2> DEFINE M == {i \in 1 .. n : f[i] # g[i]}
  <2> SUFFICES ASSUME M # {} PROVE FALSE
    OBVIOUS
  <2>1. M \subseteq Nat
    OBVIOUS
  <2>2. PICK i \in M : \A y \in M : i <= y
    BY <2>1, Least
  <2>3. /\ i \in 1 .. n /\ i \in 1 .. n + 1 /\ f[i] # g[i] /\ tt[i] = ss[i]
        /\ i # 1 => i - 1 \in 1 .. n
    BY <2>2
  <2>4. \A k \in 1 .. n : k \notin M => f[k] = g[k]
    OBVIOUS
  <2> HIDE DEF M
  <2>5. CASE i = 1
    BY <1>1, <1>2, <2>3, <2>5 DEF Joins
  <2>6. CASE i # 1
    <3>1. i - 1 \notin M
      BY <2>2, <2>3
    <3>2. f[i - 1] = g[i - 1]
      BY <2>3, <2>4, <2>6, <3>1
    <3>3. f[i] = Cat(f[i - 1], ss[i]) /\ g[i] = Cat(g[i - 1], tt[i])
      BY <1>1, <1>2, <2>3, <2>6 DEF Joins
    <3> QED BY <2>3, <3>2, <3>3
  <2> QED BY <2>5, <2>6
<1>4. f[n] \in Seq(T)
  BY <1>1 DEF Joins
<1>5. \A i \in 1 .. n + 1 : i # 1 => g[i] = Cat(g[i - 1], tt[i])
  BY <1>2 DEF Joins
<1>6. g[n + 1] = Cat(g[n], tt[n + 1])
  BY <1>5
<1>7. f[n] = g[n]
  <2>1. n \in 1 .. n
    OBVIOUS
  <2> QED BY <1>3, <2>1
<1> QED BY <1>1, <1>2, <1>4, <1>6, <1>7, Zenon DEF Cat

\* An empty sequence is <<>>.
LEMMA NoElement ==
  ASSUME NEW S, NEW s \in Seq(S), Len(s) = 0
  PROVE  s = <<>>
OBVIOUS

\* FlattenSeq, one sequence more.
LEMMA FlattenAppend ==
  ASSUME NEW T, NEW ss \in Seq(Seq(T)), NEW s \in Seq(T)
  PROVE  /\ FlattenSeq(ss) \in Seq(T)
         /\ FlattenSeq(Append(ss, s)) = FlattenSeq(ss) \o s
<1>1. PICK tt : tt = Append(ss, s)
  OBVIOUS
<1>2. PICK n \in Nat : n = Len(ss)
  OBVIOUS
<1>3. /\ tt \in Seq(Seq(T)) /\ Len(tt) = n + 1 /\ tt[n + 1] = s
      /\ \A i \in 1 .. n : tt[i] = ss[i]
  BY <1>1, <1>2
<1>4. CASE n = 0
  <2>1. ss = <<>> /\ FlattenSeq(ss) = <<>>
    <3>1. Len(ss) = 0 /\ ss = <<>>
      BY <1>2, <1>4, NoElement
    <3> QED BY <3>1 DEF FlattenSeq
  <2>2. PICK g : Joins(T, tt, g, 1) /\ FlattenSeq(tt) = g[1]
    <3>1. Len(tt) = 1 /\ Len(tt) # 0
      BY <1>3, <1>4
    <3>2. PICK g : Joins(T, tt, g, Len(tt)) /\ FlattenSeq(tt) = g[Len(tt)]
      BY <1>3, <3>1, Flattened, Zenon
    <3> QED BY <3>1, <3>2
  <2>3. FlattenSeq(tt) = s
    BY <1>3, <1>4, <2>2 DEF Joins
  <2>4. <<>> \o s = s /\ <<>> \in Seq(T)
    OBVIOUS
  <2> QED BY <1>1, <2>1, <2>3, <2>4
<1>5. CASE n # 0
  BY <1>1, <1>2, <1>3, <1>5, FlattenMore
<1> QED BY <1>4, <1>5

----------------------------------------------------------------------------
(* The preparer: looking back (LastBefore).                                *)

\* j is the last of S before i.
IsLast(j, i, S) ==
  \/ j = 0 /\ \A k \in S : i <= k
  \/ j \in S /\ j < i /\ \A k \in S : k < i => k <= j

\* There is one,
LEMMA LastIs ==
  ASSUME NEW S, S \subseteq Nat \ {0}, NEW i \in Nat
  PROVE  IsLast(LastBefore(i, S), i, S)
<1>1. CASE ~ \E j \in S : j < i
  BY <1>1 DEF LastBefore, IsLast
<1>2. CASE \E j \in S : j < i
  <2> DEFINE T == {x \in Nat : \E k \in S : k < i /\ x = i - k}
  <2>1. T \subseteq Nat /\ T # {}
    <3>1. PICK k \in S : k < i
      BY <1>2
    <3>2. i - k \in T
      BY <3>1
    <3> QED BY <3>2
  <2>2. PICK x \in T : \A y \in T : x <= y
    BY <2>1, Least
  <2>3. PICK j \in S : j < i /\ x = i - j
    BY <2>2
  <2>4. \A k \in S : k < i => k <= j
    <3> SUFFICES ASSUME NEW k \in S, k < i PROVE k <= j
      OBVIOUS
    <3>1. i - k \in T
      BY <1>2
    <3>2. i - j <= i - k
      BY <2>2, <2>3, <3>1
    <3>3. j \in Nat /\ k \in Nat
      BY <2>3
    <3> QED BY <3>2, <3>3
  <2>5. \E m \in S : m < i /\ \A k \in S : k < i => k <= m
    BY <2>3, <2>4
  <2> QED BY <1>2, <2>5 DEF LastBefore, IsLast
<1> QED BY <1>1, <1>2

\* and no other.
LEMMA LastOne ==
  ASSUME NEW S, S \subseteq Nat \ {0}, NEW i \in Nat, NEW j, IsLast(j, i, S)
  PROVE  LastBefore(i, S) = j
<1> DEFINE m == LastBefore(i, S)
<1>1. IsLast(m, i, S)
  BY LastIs
<1> HIDE DEF m
<1>2. CASE m = 0 /\ j = 0
  BY <1>2 DEF m
<1>3. CASE j \in S /\ j < i /\ \A k \in S : k < i => k <= j
  <2>1. j \in Nat
    BY <1>3
  <2>2. m \in S /\ m < i /\ j <= m
    BY <1>1, <1>3, <2>1 DEF IsLast
  <2>3. m \in Nat /\ m <= j
    BY <1>3, <2>2
  <2> QED BY <2>1, <2>2, <2>3 DEF m
<1>4. CASE j = 0 /\ \A k \in S : i <= k
  <2>1. ~ \E k \in S : k < i
    BY <1>4
  <2> QED BY <1>1, <1>4, <2>1 DEF IsLast, m
<1> QED BY <1>3, <1>4 DEF IsLast

\* Only what is before i matters.
LEMMA LastSame ==
  ASSUME NEW S, S \subseteq Nat \ {0}, NEW U, U \subseteq Nat \ {0}, NEW i \in Nat,
         \A k \in 1 .. i - 1 : k \in S <=> k \in U
  PROVE  LastBefore(i, S) = LastBefore(i, U)
<1> DEFINE j == LastBefore(i, U)
<1>1. IsLast(j, i, U)
  BY LastIs
<1> HIDE DEF j
<1>2. \A k \in Nat \ {0} : k < i => (k \in S <=> k \in U)
  OBVIOUS
<1>3. \A k \in U : k < i => k \in S
  BY <1>2
<1>4. \A k \in S : k < i => k \in U
  BY <1>2
<1>5. (\A k \in U : i <= k) => \A k \in S : i <= k
  <2> SUFFICES ASSUME \A k \in U : i <= k, NEW k \in S, ~ i <= k PROVE FALSE
    OBVIOUS
  <2>1. k \in Nat /\ k < i
    OBVIOUS
  <2> QED BY <1>4, <2>1
<1>6. IsLast(j, i, S)
  BY <1>1, <1>3, <1>4, <1>5 DEF IsLast
<1> QED BY <1>6, LastOne DEF j

\* One step further, the last is i or the one before.
LEMMA LastNext ==
  ASSUME NEW S, S \subseteq Nat \ {0}, NEW i \in Nat \ {0}
  PROVE  LastBefore(i + 1, S) = IF i \in S THEN i ELSE LastBefore(i, S)
<1> DEFINE j == LastBefore(i, S)
<1>1. IsLast(j, i, S)
  BY LastIs
<1> HIDE DEF j
<1>2. \A k \in S : k \in Nat /\ (k < i + 1 <=> k < i \/ k = i) /\ ~ i + 1 <= i
  OBVIOUS
<1>3. CASE i \in S
  <2>1. i < i + 1 /\ \A k \in S : k < i + 1 => k <= i
    BY <1>2
  <2>2. IsLast(i, i + 1, S)
    BY <1>3, <2>1 DEF IsLast
  <2>3. i + 1 \in Nat
    OBVIOUS
  <2>4. LastBefore(i + 1, S) = i
    BY <2>2, <2>3, LastOne
  <2> QED BY <1>3, <2>4
<1>4. CASE i \notin S
  <2>1. \A k \in S : k < i + 1 <=> k < i
    BY <1>2, <1>4
  <2>2. (\A k \in S : i <= k) => \A k \in S : i + 1 <= k
    <3> SUFFICES ASSUME \A k \in S : i <= k, NEW k \in S PROVE i + 1 <= k
      OBVIOUS
    <3>1. k \in Nat /\ k # i /\ i <= k
      BY <1>4
    <3> QED BY <3>1
  <2>3. IsLast(j, i + 1, S)
    BY <1>1, <2>1, <2>2 DEF IsLast
  <2>4. i + 1 \in Nat
    OBVIOUS
  <2>5. LastBefore(i + 1, S) = j
    BY <2>3, <2>4, LastOne
  <2> QED BY <1>4, <2>5 DEF j
<1> QED BY <1>3, <1>4

----------------------------------------------------------------------------
(* The preparer: the lines read.                                           *)

Names == {line.name : line \in Lines} \cup {Nothing}
Keys == {line.keys : line \in Lines} \cup {Nothing}
LineRead == [type : Types \cup {"eof"}, name : Names, keys : Keys,
             exception : Kinds \cup {"none"}]
LineWritten == [type : {"le", "record"}, name : Seq(Names \cup {Default}),
                keys : Keys]

\* One more line, e, is read.
Grows(e) == source \in Seq(LineRead) /\ e \in LineRead /\ source' = Append(source, e)
\* S with n, if c.
With(S, n, c) == IF c THEN S \cup {n} ELSE S

\* What an invalid derivation takes along reaches to the last line.
Skipped ==
  \E j \in Denied : \A k \in j + 1 .. Len(source) : source[k].type \in {";", "@"}

\* How a line belongs to the sets that are looked back for.
IsPlain(e, types) ==
  /\ e.type \in types /\ e.exception = "none"
  /\ ~ (e.type \in {";", "@"} /\ Skipped)
IsDenied(e) == e.type = "de" /\ e.exception = "invalid_derivation"
Asks(e) == IsPlain(e, {";"}) \/ (e.type = ";" /\ e.exception = "zero_request")
Ends(e) == IsPlain(e, {"de", "le", "eof", "record"}) \/ IsDenied(e)
Resumes(e) ==
  IsPlain(e, {"record", "word", "de", "le", "eof"}) \/ Asks(e) \/ IsDenied(e)

\* The lines before stay as they are.
LEMMA Before ==
  ASSUME NEW e, Grows(e)
  PROVE  /\ Len(source) \in Nat /\ Len(source') = Len(source) + 1
         /\ DOMAIN source = 1 .. Len(source)
         /\ DOMAIN source' = 1 .. Len(source) + 1
         /\ \A i \in 1 .. Len(source) : source'[i] = source[i]
         /\ source'[Len(source) + 1] = e
BY DEF Grows

\* Lines of a type,
LEMMA FollowsMore ==
  ASSUME NEW e, Grows(e), NEW CONSTANT T, NEW CONSTANT X
  PROVE  /\ Follows(T, X) \subseteq 1 .. Len(source)
         /\ Follows(T, X)' = With(Follows(T, X), Len(source) + 1,
                                  e.type \in T /\ e.exception \in X)
<1> DEFINE n == Len(source)
<1>1. /\ n \in Nat /\ DOMAIN source = 1 .. n /\ DOMAIN source' = 1 .. n + 1
      /\ \A i \in 1 .. n : source'[i] = source[i]
      /\ source'[n + 1] = e
  BY Before
<1> HIDE DEF n
<1>2. Follows(T, X) \subseteq 1 .. n
  BY <1>1 DEF Follows
<1>3. ASSUME NEW i
      PROVE  i \in Follows(T, X)' <=>
               \/ i \in Follows(T, X)
               \/ i = n + 1 /\ e.type \in T /\ e.exception \in X
  <2>1. i \in 1 .. n + 1 <=> i \in 1 .. n \/ i = n + 1
    BY <1>1
  <2>2. n + 1 \notin 1 .. n
    BY <1>1
  <2>3. CASE i \in 1 .. n
    BY <1>1, <2>1, <2>2, <2>3 DEF Follows
  <2>4. CASE i = n + 1
    BY <1>1, <2>1, <2>2, <2>4 DEF Follows
  <2>5. CASE i \notin 1 .. n + 1
    BY <1>1, <2>1, <2>5 DEF Follows
  <2> QED BY <2>1, <2>3, <2>4, <2>5
<1>4. Follows(T, X)' = With(Follows(T, X), n + 1, e.type \in T /\ e.exception \in X)
  <2>1. CASE e.type \in T /\ e.exception \in X
    <3>1. Follows(T, X)' = Follows(T, X) \cup {n + 1}
      BY <1>3, <2>1
    <3> QED BY <2>1, <3>1 DEF With
  <2>2. CASE ~ (e.type \in T /\ e.exception \in X)
    <3>1. Follows(T, X)' = Follows(T, X)
      BY <1>3, <2>2
    <3> QED BY <2>2, <3>1 DEF With
  <2> QED BY <2>1, <2>2
<1> QED BY <1>2, <1>4 DEF n

\* those an invalid derivation takes along,
LEMMA TakenMore ==
  ASSUME NEW e, Grows(e)
  PROVE  /\ TakenAlong \subseteq 1 .. Len(source)
         /\ TakenAlong' = With(TakenAlong, Len(source) + 1,
                               /\ e.type \in {";", "@"} /\ e.exception = "none"
                               /\ Skipped)
<1> DEFINE n == Len(source)
           c == e.type \in {";", "@"} /\ e.exception = "none"
           A == Follows({";", "@"}, {"none"})
           D == Denied
           Reaches(s, j, m) == \A k \in j + 1 .. m : s[k].type \in {";", "@"}
<1>1. /\ n \in Nat /\ DOMAIN source = 1 .. n /\ DOMAIN source' = 1 .. n + 1
      /\ \A i \in 1 .. n : source'[i] = source[i]
      /\ source'[n + 1] = e
  BY Before
<1>2. A \subseteq 1 .. n /\ A' = With(A, n + 1, c)
  <2>1. c <=> e.type \in {";", "@"} /\ e.exception \in {"none"}
    OBVIOUS
  <2>2. A' = With(A, n + 1, e.type \in {";", "@"} /\ e.exception \in {"none"})
    BY FollowsMore
  <2> HIDE DEF c, n
  <2>3. A' = With(A, n + 1, c)
    BY <2>1, <2>2 DEF With
  <2>4. A \subseteq 1 .. n
    BY FollowsMore DEF n
  <2> QED BY <2>3, <2>4
<1>3. D \subseteq 1 .. n /\ D' = With(D, n + 1, IsDenied(e))
  BY FollowsMore DEF Denied, IsDenied
<1>4. TakenAlong = {i \in A : \E j \in D : j < i /\ Reaches(source, j, i)}
  BY DEF TakenAlong, Denied
<1>5. TakenAlong' = {i \in A' : \E j \in D' : j < i /\ Reaches(source', j, i)}
  BY DEF TakenAlong, Denied
<1>6. Skipped <=> \E j \in D : Reaches(source, j, n)
  BY DEF Skipped
<1>7. ASSUME NEW j \in 1 .. n, NEW i \in 1 .. n
      PROVE  Reaches(source', j, i) <=> Reaches(source, j, i)
  <2>1. \A k \in j + 1 .. i : k \in 1 .. n
    BY <1>1
  <2> HIDE DEF n
  <2>2. \A k \in j + 1 .. i : source'[k] = source[k]
    BY <1>1, <2>1
  <2> QED BY <2>2
<1>8. ASSUME NEW j \in 1 .. n, c
      PROVE  Reaches(source', j, n + 1) <=> Reaches(source, j, n)
  <2>1. \A k \in j + 1 .. n + 1 : k = n + 1 \/ k \in j + 1 .. n
    BY <1>1
  <2>2. \A k \in j + 1 .. n : k \in j + 1 .. n + 1 /\ k \in 1 .. n
    BY <1>1
  <2> HIDE DEF n
  <2>3. source'[n + 1].type \in {";", "@"}
    BY <1>1, <1>8
  <2>4. \A k \in j + 1 .. n : source'[k] = source[k]
    BY <1>1, <2>2
  <2> QED BY <2>1, <2>2, <2>3, <2>4
<1> HIDE DEF n, A, D, Reaches
<1>9. ASSUME NEW i PROVE i \in TakenAlong' <=>
                           i \in TakenAlong \/ (i = n + 1 /\ c /\ Skipped)
  <2>1. CASE i \in 1 .. n
    <3>1. i # n + 1 /\ ~ (n + 1 < i)
      BY <1>1, <2>1
    <3>2. i \in A' <=> i \in A
      BY <1>2, <3>1 DEF With
    <3>3. \A j : j \in D' /\ j < i <=> j \in D /\ j < i
      BY <1>3, <3>1 DEF With
    <3>4. \A j \in D : Reaches(source', j, i) <=> Reaches(source, j, i)
      BY <1>3, <1>7, <2>1
    <3>5. i \in TakenAlong' <=> i \in A' /\ \E j : j \in D' /\ j < i /\ Reaches(source', j, i)
      BY <1>5
    <3>6. i \in TakenAlong <=> i \in A /\ \E j : j \in D /\ j < i /\ Reaches(source, j, i)
      BY <1>4
    <3>7. i \in TakenAlong' <=> i \in TakenAlong
      BY <3>2, <3>3, <3>4, <3>5, <3>6
    <3> QED BY <3>1, <3>7, Zenon
  <2>2. CASE i = n + 1
    <3>1. i \notin 1 .. n /\ ~ (n + 1 < i) /\ \A j \in 1 .. n : j < i
      BY <1>1, <2>2
    <3>2. i \in A' <=> c
      BY <1>2, <2>2, <3>1 DEF With
    <3>3. \A j : j \in D' /\ j < i <=> j \in D
      BY <1>3, <2>2, <3>1 DEF With
    <3>4. c => \A j \in D : Reaches(source', j, i) <=> Reaches(source, j, n)
      BY <1>3, <1>8, <2>2
    <3> HIDE DEF c
    <3>5. i \in TakenAlong' <=> c /\ Skipped
      BY <1>5, <1>6, <3>2, <3>3, <3>4
    <3>6. i \notin TakenAlong
      BY <1>2, <1>4, <3>1
    <3> QED BY <2>2, <3>5, <3>6
  <2>3. CASE i \notin 1 .. n /\ i # n + 1
    <3>1. i \notin A /\ i \notin A'
      BY <1>2, <2>3 DEF With
    <3> QED BY <1>4, <1>5, <2>3, <3>1
  <2> QED BY <2>1, <2>2, <2>3
<1> HIDE DEF c
<1>10. TakenAlong' = With(TakenAlong, n + 1, c /\ Skipped)
  <2>1. CASE c /\ Skipped
    <3>1. TakenAlong' = TakenAlong \cup {n + 1}
      BY <1>9, <2>1
    <3> QED BY <2>1, <3>1 DEF With
  <2>2. CASE ~ (c /\ Skipped)
    <3>1. TakenAlong' = TakenAlong
      <4>1. \A i : i \in TakenAlong' <=> i \in TakenAlong
        BY <1>9, <2>2, Zenon
      <4> HIDE DEF c
      <4>2. TakenAlong' \subseteq TakenAlong /\ TakenAlong \subseteq TakenAlong'
        BY <4>1
      <4> QED BY <4>2
    <3> QED BY <2>2, <3>1 DEF With
  <2> QED BY <2>1, <2>2
<1>11. TakenAlong \subseteq 1 .. n
  BY <1>2, <1>4
<1> QED BY <1>10, <1>11, Zenon DEF n, c

\* and so all of them.
LEMMA PlainMore ==
  ASSUME NEW e, Grows(e), NEW CONSTANT T
  PROVE  /\ Plain(T) \subseteq 1 .. Len(source)
         /\ Plain(T)' = With(Plain(T), Len(source) + 1, IsPlain(e, T))
<1> DEFINE n == Len(source)
           F == Follows(T, {"none"})
           c == e.type \in T /\ e.exception = "none"
           d == e.type \in {";", "@"} /\ e.exception = "none" /\ Skipped
<1>1. n + 1 \notin 1 .. n
  BY Before
<1>2. F \subseteq 1 .. n /\ F' = With(F, n + 1, c)
  BY FollowsMore
<1>3. TakenAlong \subseteq 1 .. n /\ TakenAlong' = With(TakenAlong, n + 1, d)
  BY TakenMore
<1>4. Plain(T) = F \ TakenAlong /\ Plain(T)' = F' \ TakenAlong'
  BY DEF Plain
<1>5. IsPlain(e, T) <=> c /\ ~ d
  BY DEF IsPlain
<1> HIDE DEF n, F, c, d
<1>6. Plain(T)' = With(Plain(T), n + 1, IsPlain(e, T))
  <2>1. CASE c /\ d
    BY <1>1, <1>2, <1>3, <1>4, <1>5, <2>1 DEF With
  <2>2. CASE c /\ ~ d
    BY <1>1, <1>2, <1>3, <1>4, <1>5, <2>2 DEF With
  <2>3. CASE ~ c /\ d
    BY <1>1, <1>2, <1>3, <1>4, <1>5, <2>3 DEF With
  <2>4. CASE ~ c /\ ~ d
    BY <1>1, <1>2, <1>3, <1>4, <1>5, <2>4 DEF With
  <2> QED BY <2>1, <2>2, <2>3, <2>4
<1> QED BY <1>2, <1>4, <1>6 DEF n

----------------------------------------------------------------------------
(* The preparer: what looking back finds when a line is added.             *)

\* The sets that are looked back for grow by the line that was read.
LEMMA SetsMore ==
  ASSUME NEW e, Grows(e)
  PROVE  LET n == Len(source) + 1 IN
         /\ Deriving' = With(Deriving, n, IsPlain(e, {"de"}))
         /\ Denied' = With(Denied, n, IsDenied(e))
         /\ Asking' = With(Asking, n, Asks(e))
         /\ Ending' = With(Ending, n, Ends(e))
         /\ Continuable' = With(Continuable, n, Resumes(e))
<1> DEFINE n == Len(source) + 1
           Z == Follows({";"}, {"zero_request"})
           z == e.type = ";" /\ e.exception = "zero_request"
           P == Plain({"le", "eof", "record"})
           R == Plain({"record", "word", "de", "le", "eof"})
<1>1. Deriving' = With(Deriving, n, IsPlain(e, {"de"}))
  BY PlainMore DEF Deriving
<1>2. Denied' = With(Denied, n, IsDenied(e))
  BY FollowsMore DEF Denied, With, IsDenied
<1>3. Z' = With(Z, n, z)
  BY FollowsMore DEF With
<1>4. /\ P' = With(P, n, IsPlain(e, {"le", "eof", "record"}))
      /\ R' = With(R, n, IsPlain(e, {"record", "word", "de", "le", "eof"}))
      /\ Plain({";"})' = With(Plain({";"}), n, IsPlain(e, {";"}))
  BY PlainMore
<1> HIDE DEF n
<1>5. Asking' = With(Asking, n, Asks(e))
  BY <1>3, <1>4 DEF Asking, With, Asks
<1>6. Ends(e) <=> IsPlain(e, {"de"}) \/ IsDenied(e) \/ IsPlain(e, {"le", "eof", "record"})
  BY DEF Ends, IsPlain
<1> HIDE DEF Z, z, P, R
<1>7. Ending' = With(Ending, n, Ends(e))
  BY <1>1, <1>2, <1>4, <1>6 DEF Ending, With, P
<1>8. Continuable' = With(Continuable, n, Resumes(e))
  BY <1>2, <1>4, <1>5 DEF Continuable, With, Resumes, R
<1> QED BY <1>1, <1>2, <1>5, <1>7, <1>8 DEF n

\* They are sets of lines.
LEMMA SetsOfLines ==
  ASSUME NEW e, Grows(e)
  PROVE  /\ Deriving \subseteq 1 .. Len(source) /\ Denied \subseteq 1 .. Len(source)
         /\ Asking \subseteq 1 .. Len(source) /\ Ending \subseteq 1 .. Len(source)
         /\ Continuable \subseteq 1 .. Len(source)
<1>1. Deriving \subseteq 1 .. Len(source)
  BY PlainMore DEF Deriving
<1>2. Denied \subseteq 1 .. Len(source)
  BY FollowsMore DEF Denied
<1>3. Asking \subseteq 1 .. Len(source)
  BY FollowsMore, PlainMore DEF Asking
<1>4. Ending \subseteq 1 .. Len(source)
  BY <1>1, <1>2, PlainMore DEF Ending
<1>5. Continuable \subseteq 1 .. Len(source)
  BY <1>2, <1>3, PlainMore DEF Continuable
<1> QED BY <1>1, <1>2, <1>3, <1>4, <1>5

\* What a set has below n it keeps.
LEMMA WithLast ==
  ASSUME NEW S, NEW U, NEW n \in Nat \ {0}, NEW i \in 1 .. n,
         S \subseteq 1 .. n - 1, U \in {S, S \cup {n}}
  PROVE  /\ LastBefore(i, U) = LastBefore(i, S)
         /\ LastBefore(n + 1, U) = IF n \in U THEN n ELSE LastBefore(n, S)
         /\ LastBefore(i, S) \in S \cup {0} /\ LastBefore(i, S) < i
         /\ \A k : k < i => (k \in U <=> k \in S)
<1>1. /\ S \subseteq Nat \ {0} /\ U \subseteq Nat \ {0} /\ i \in Nat
      /\ n \notin S
  OBVIOUS
<1>2. \A k : k < i => (k \in U <=> k \in S)
  OBVIOUS
<1>3. LastBefore(i, U) = LastBefore(i, S)
  <2>1. \A k \in 1 .. i - 1 : k \in U <=> k \in S
    BY <1>2
  <2> QED BY <1>1, <2>1, LastSame
<1>4. LastBefore(n, U) = LastBefore(n, S)
  <2>1. \A k \in 1 .. n - 1 : k \in U <=> k \in S
    OBVIOUS
  <2> QED BY <1>1, <2>1, LastSame
<1>5. LastBefore(n + 1, U) = IF n \in U THEN n ELSE LastBefore(n, U)
  BY <1>1, LastNext
<1>7. IsLast(LastBefore(i, S), i, S)
  BY <1>1, LastIs
<1>8. LastBefore(i, S) \in S \cup {0} /\ LastBefore(i, S) < i
  BY <1>7 DEF IsLast
<1> QED BY <1>2, <1>3, <1>4, <1>5, <1>8

\* Nothing before a line changes what the derivation there is, or what it
\* yields,
LEMMA DerivationSame ==
  ASSUME NEW e, Grows(e), NEW i \in 1 .. Len(source) + 1
  PROVE  /\ DerivationOf(i)' = DerivationOf(i)
         /\ DerivationOf(i) \in Deriving \cup {0}
         /\ DerivationOf(i) < i
         /\ DerivationOf(i) # 0 =>
              source'[DerivationOf(i)].name = source[DerivationOf(i)].name
         /\ Unasked(i)' = Unasked(i)
<1> DEFINE j == LastBefore(i, Ending)
           n == Len(source) + 1
<1>0. /\ n \in Nat \ {0} /\ n - 1 = Len(source) /\ i \in 1 .. n
      /\ \A k \in 1 .. Len(source) : source'[k] = source[k]
  BY Before
<1>1. /\ Deriving \subseteq 1 .. n - 1 /\ Asking \subseteq 1 .. n - 1
      /\ Ending \subseteq 1 .. n - 1
  BY <1>0, SetsOfLines
<1>2. LastBefore(i, Ending') = j /\ j \in Ending \cup {0} /\ j < i
  <2>1. Ending' \in {Ending, Ending \cup {n}}
    BY SetsMore DEF With
  <2> HIDE DEF n
  <2> QED BY <1>0, <1>1, <2>1, WithLast DEF j
<1>3. \A k : k < i => /\ k \in Deriving' <=> k \in Deriving
                      /\ k \in Asking' <=> k \in Asking
  <2>1. Deriving' \in {Deriving, Deriving \cup {n}}
    BY SetsMore DEF With
  <2>2. Asking' \in {Asking, Asking \cup {n}}
    BY SetsMore DEF With
  <2> HIDE DEF n
  <2> QED BY <1>0, <1>1, <2>1, <2>2, WithLast
<1> HIDE DEF j, n
<1>4. /\ DerivationOf(i)' = IF j \in Deriving' THEN j ELSE 0
      /\ DerivationOf(i) = IF j \in Deriving THEN j ELSE 0
  BY <1>2 DEF DerivationOf, j
<1>5. DerivationOf(i)' = DerivationOf(i)
  BY <1>2, <1>3, <1>4
<1>6. /\ DerivationOf(i) \in Deriving \cup {0}
      /\ DerivationOf(i) < i
  BY <1>0, <1>2, <1>4 DEF n
<1>7. DerivationOf(i) # 0 =>
        source'[DerivationOf(i)].name = source[DerivationOf(i)].name
  BY <1>0, <1>1, <1>6
<1>8. Unasked(i)' = Unasked(i)
  <2> DEFINE d == DerivationOf(i)
             asked == \E k \in Asking : d < k /\ k < i
  <2>1. (\E k \in Asking' : d < k /\ k < i) <=> asked
    BY <1>3
  <2>2. Unasked(i)' = IF d # 0 /\ ~ \E k \in Asking' : d < k /\ k < i
                      THEN <<Derived(source'[d].name, Default, Nothing)>> ELSE <<>>
    BY <1>5 DEF Unasked, Derived
  <2>3. Unasked(i) = IF d # 0 /\ ~ asked
                     THEN <<Derived(source[d].name, Default, Nothing)>> ELSE <<>>
    BY DEF Unasked
  <2> HIDE DEF asked, d
  <2> QED BY <1>7, <2>1, <2>2, <2>3 DEF d
<1> QED BY <1>5, <1>6, <1>7, <1>8

\* Every request, and every continuation of one, has a derivation.
Grounded ==
  \A i \in DOMAIN source :
    i \in Plain({";"}) \/ (i \in Plain({"@"}) /\ LastBefore(i, Continuable) \in Asking)
      => DerivationOf(i) # 0

\* A line that is not the last belongs where it did,
LEMMA PlainSame ==
  ASSUME NEW e, Grows(e), NEW CONSTANT T, NEW i \in 0 .. Len(source)
  PROVE  i \in Plain(T)' <=> i \in Plain(T)
<1>1. i # Len(source) + 1
  BY Before
<1> QED BY <1>1, PlainMore DEF With

\* also as an invalid derivation or a request,
LEMMA SameSets ==
  ASSUME NEW e, Grows(e), NEW i \in 0 .. Len(source)
  PROVE  /\ i \in Denied' <=> i \in Denied
         /\ i \in Asking' <=> i \in Asking
<1>1. i # Len(source) + 1
  BY Before
<1> QED BY <1>1, SetsMore DEF With

\* and continues what it did,
LEMMA ResumesSame ==
  ASSUME NEW e, Grows(e), NEW i \in 1 .. Len(source) + 1
  PROVE  /\ LastBefore(i, Continuable)' = LastBefore(i, Continuable)
         /\ LastBefore(i, Continuable) \in Continuable \cup {0}
         /\ LastBefore(i, Continuable) \in 0 .. Len(source)
<1> DEFINE n == Len(source) + 1
           j == LastBefore(i, Continuable)
<1>1. /\ n \in Nat \ {0} /\ n - 1 = Len(source) /\ i \in 1 .. n
      /\ Continuable \subseteq 1 .. n - 1
  BY Before, SetsOfLines
<1>2. Continuable' \in {Continuable, Continuable \cup {n}}
  BY SetsMore DEF With
<1> HIDE DEF n
<1>3. LastBefore(i, Continuable') = j /\ j \in Continuable \cup {0}
  BY <1>1, <1>2, WithLast
<1>4. j \in 0 .. Len(source)
  <2>1. Continuable \subseteq 1 .. Len(source) /\ Len(source) \in Nat
    BY Before, SetsOfLines
  <2> HIDE DEF j
  <2> QED BY <1>3, <2>1
<1> QED BY <1>3, <1>4

\* also as a continuation,
LEMMA ContinuedSame ==
  ASSUME NEW e, Grows(e), NEW i \in 1 .. Len(source),
         LastBefore(i, Continuable) \in Asking => DerivationOf(i) # 0
  PROVE  Continued(i)' = Continued(i)
<1> DEFINE j == LastBefore(i, Continuable)
           d == DerivationOf(i)
           W == Plain({"record", "word"})
<1>1. /\ i \in 1 .. Len(source) + 1 /\ Len(source) \in Nat
      /\ \A k \in 1 .. Len(source) : source'[k] = source[k]
  BY Before
<1>2. LastBefore(i, Continuable') = j /\ j \in 0 .. Len(source)
  BY <1>1, ResumesSame
<1>3. /\ j \in Asking' <=> j \in Asking
      /\ j \in W' <=> j \in W
  BY <1>2, SameSets, PlainSame
<1>4. DerivationOf(i)' = d /\ (d # 0 => source'[d].name = source[d].name)
  BY <1>1, DerivationSame
<1>5. 0 \notin Asking /\ 0 \notin W
  BY <1>1, SetsOfLines, PlainMore
<1>6. Continued(i) =
        CASE j \in Asking -> <<Derived(source[d].name, source[j].name, source[i].keys)>>
          [] j \in W -> <<RecordLine(source[j].name, source[i].keys)>>
          [] OTHER -> <<>>
  BY DEF Continued
<1>7. Continued(i)' =
        CASE j \in Asking' -> <<Derived(source'[d].name, source'[j].name, source'[i].keys)>>
          [] j \in W' -> <<RecordLine(source'[j].name, source'[i].keys)>>
          [] OTHER -> <<>>
  BY <1>2, <1>4 DEF Continued, Derived, RecordLine
<1>8. j \in Asking => d # 0
  OBVIOUS
<1> HIDE DEF j, d, W
<1>9. j # 0 => source'[j] = source[j]
  BY <1>1, <1>2
<1>10. source'[i] = source[i]
  BY <1>1
<1>11. CASE j \in Asking
  BY <1>3, <1>4, <1>5, <1>6, <1>7, <1>8, <1>9, <1>10, <1>11
<1>12. CASE j \notin Asking /\ j \in W
  BY <1>3, <1>4, <1>5, <1>6, <1>7, <1>9, <1>10, <1>12
<1>13. CASE j \notin Asking /\ j \notin W
  BY <1>3, <1>6, <1>7, <1>13
<1> QED BY <1>11, <1>12, <1>13

\* so that it says what it did.
LEMMA SaysSame ==
  ASSUME NEW e, Grows(e), NEW i \in 1 .. Len(source), Grounded
  PROVE  Says(i)' = Says(i)
<1> DEFINE d == DerivationOf(i)
           L == Plain({"le"})
           D == Plain({"de", "eof"})
           R == Plain({"record", "word"})
           C == Plain({"@"})
           Q == Plain({";"})
<1>1. /\ i \in 1 .. Len(source) + 1 /\ i \in 0 .. Len(source)
      /\ source'[i] = source[i] /\ i \in DOMAIN source
  BY Before
<1>2. /\ i \in L' <=> i \in L
      /\ i \in D' <=> i \in D
      /\ i \in R' <=> i \in R
      /\ i \in C' <=> i \in C
      /\ i \in Q' <=> i \in Q
      /\ i \in Denied' <=> i \in Denied
  BY <1>1, SameSets, PlainSame
<1>3. DerivationOf(i)' = d /\ (d # 0 => source'[d].name = source[d].name)
  BY <1>1, DerivationSame
<1>4. Unasked(i)' = Unasked(i)
  BY <1>1, DerivationSame
<1>5. i \in Q => d # 0
  BY <1>1 DEF Grounded
<1>6. i \in C => Continued(i)' = Continued(i)
  BY <1>1, ContinuedSame DEF Grounded
<1>7. Says(i) =
        CASE i \in L -> Append(Unasked(i), LemmaLine(source[i].name))
          [] i \in D \cup Denied -> Unasked(i)
          [] i \in R -> <<RecordLine(source[i].name, source[i].keys)>>
          [] i \in C -> Continued(i)
          [] i \in Q -> <<Derived(source[d].name, source[i].name, source[i].keys)>>
          [] OTHER -> <<>>
  BY DEF Says
<1>8. Says(i)' =
        CASE i \in L' -> Append(Unasked(i)', LemmaLine(source'[i].name))
          [] i \in D' \cup Denied' -> Unasked(i)'
          [] i \in R' -> <<RecordLine(source'[i].name, source'[i].keys)>>
          [] i \in C' -> Continued(i)'
          [] i \in Q' -> <<Derived(source'[d].name, source'[i].name, source'[i].keys)>>
          [] OTHER -> <<>>
  BY <1>3 DEF Says, LemmaLine, RecordLine, Derived
<1> HIDE DEF d, L, D, R, C, Q
<1> QED BY <1>1, <1>2, <1>3, <1>4, <1>5, <1>6, <1>7, <1>8

----------------------------------------------------------------------------
(* The preparer: its fields are what looking back over the lines finds.    *)

Parsers ==
  [base : {"none", "direct", "derivation"}, prefix : Names, derivation : Names,
   request : Names, lemma : BOOLEAN, derived : BOOLEAN, explicit : BOOLEAN,
   skip : BOOLEAN]
ToolTypes ==
  /\ stage \in {"reading", "written", "built", "failed"}
  /\ parser \in Parsers
  /\ prepared \in Seq(LineWritten)
  /\ source \in Seq(LineRead)

\* The line that is read next.
Upcoming == Len(source) + 1

\* The derivation in force, and whether it was asked for anything.
InForce ==
  /\ parser.derived <=> DerivationOf(Upcoming) # 0
  /\ parser.derived =>
       /\ parser.derivation = source[DerivationOf(Upcoming)].name
       /\ parser.explicit <=> \E k \in Asking : DerivationOf(Upcoming) < k

\* What a continuation would continue.
Based ==
  LET j == LastBefore(Upcoming, Continuable)
  IN /\ parser.base = "direct" =>
          j \in Plain({"record", "word"}) /\ parser.prefix = source[j].name
     /\ parser.base = "derivation" =>
          /\ parser.derived
          /\ parser.request # Nothing =>
               j \in Asking /\ parser.request = source[j].name

\* What the lines say, one after the other.
Said == [i \in DOMAIN source |-> Says(i)]

\* The inductive invariant.
ToolInv ==
  /\ ToolTypes
  /\ stage \in {"reading", "written"} =>
       /\ Said \in Seq(Seq(LineWritten)) /\ prepared = FlattenSeq(Said)
       /\ Grounded
  /\ stage = "reading" => /\ parser.skip <=> Skipped
                          /\ InForce /\ Based

\* What an invalid derivation takes along after one more line.
LEMMA SkippedMore ==
  ASSUME NEW e, Grows(e)
  PROVE  Skipped' <=> IsDenied(e) \/ (e.type \in {";", "@"} /\ Skipped)
<1> DEFINE n == Len(source)
           c == e.type \in {";", "@"}
           Reaches(s, j, m) == \A k \in j + 1 .. m : s[k].type \in {";", "@"}
<1>1. /\ n \in Nat /\ Len(source') = n + 1
      /\ \A i \in 1 .. n : source'[i] = source[i]
      /\ source'[n + 1] = e
  BY Before
<1>2. /\ Denied \subseteq 1 .. n
      /\ \A j : j \in Denied' <=> j \in Denied \/ (j = n + 1 /\ IsDenied(e))
  BY SetsMore, SetsOfLines DEF With
<1>3. Skipped <=> \E j \in Denied : Reaches(source, j, n)
  BY DEF Skipped
<1>4. Skipped' <=> \E j \in Denied' : Reaches(source', j, n + 1)
  BY <1>1 DEF Skipped
<1>5. Reaches(source', n + 1, n + 1)
  <2>1. \A k \in n + 1 + 1 .. n + 1 : FALSE
    BY <1>1
  <2> QED BY <2>1
<1>6. ASSUME NEW j \in 1 .. n
      PROVE  Reaches(source', j, n + 1) <=> c /\ Reaches(source, j, n)
  <2>1. \A k \in j + 1 .. n + 1 : k = n + 1 \/ k \in j + 1 .. n
    BY <1>1
  <2>2. /\ n + 1 \in j + 1 .. n + 1
        /\ \A k \in j + 1 .. n : k \in j + 1 .. n + 1 /\ k \in 1 .. n
    BY <1>1
  <2> HIDE DEF n
  <2>3. source'[n + 1].type \in {";", "@"} <=> c
    BY <1>1
  <2> HIDE DEF c
  <2>4. \A k \in j + 1 .. n : source'[k] = source[k]
    BY <1>1, <2>2
  <2> QED BY <2>1, <2>2, <2>3, <2>4
<1> HIDE DEF n, Reaches
<1>7. (\E j \in Denied : Reaches(source', j, n + 1)) <=> c /\ Skipped
  <2> HIDE DEF c
  <2> QED BY <1>2, <1>3, <1>6
<1>8. Skipped' <=> IsDenied(e) \/ \E j \in Denied : Reaches(source', j, n + 1)
  BY <1>2, <1>4, <1>5
<1> QED BY <1>7, <1>8

\* The line says something.
Speaks(e) == IsPlain(e, {"le", "de", "eof", "record", "word", "@", ";"})

\* What a line says when it is read.
LEMMA SaysNow ==
  ASSUME NEW e, Grows(e), NEW n, n = Upcoming
  PROVE  /\ IsPlain(e, {"le"}) => Says(n)' = Append(Unasked(n), LemmaLine(e.name))
         /\ IsPlain(e, {"de", "eof"}) \/ IsDenied(e) => Says(n)' = Unasked(n)
         /\ IsPlain(e, {"record", "word"}) => Says(n)' = <<RecordLine(e.name, e.keys)>>
         /\ IsPlain(e, {"@"}) => Says(n)' = Continued(n)'
         /\ IsPlain(e, {";"}) =>
              Says(n)' = <<Derived(source'[DerivationOf(n)].name, e.name, e.keys)>>
         /\ ~ Speaks(e) /\ ~ IsDenied(e) => Says(n)' = <<>>
<1> DEFINE d == DerivationOf(n)
           L == Plain({"le"})
           D == Plain({"de", "eof"})
           R == Plain({"record", "word"})
           C == Plain({"@"})
           Q == Plain({";"})
<1>1. /\ n \in 1 .. Len(source) + 1 /\ n \notin 1 .. Len(source)
      /\ n = Len(source) + 1 /\ source'[n] = e
  BY Before DEF Upcoming
<1>2. /\ n \in L' <=> IsPlain(e, {"le"})
      /\ n \in D' <=> IsPlain(e, {"de", "eof"})
      /\ n \in R' <=> IsPlain(e, {"record", "word"})
      /\ n \in C' <=> IsPlain(e, {"@"})
      /\ n \in Q' <=> IsPlain(e, {";"})
  BY <1>1, PlainMore DEF With
<1>3. n \in Denied' <=> IsDenied(e)
  BY <1>1, SetsMore, SetsOfLines DEF With
<1>4. DerivationOf(n)' = d /\ Unasked(n)' = Unasked(n)
  BY <1>1, DerivationSame
<1>5. Says(n)' =
        CASE n \in L' -> Append(Unasked(n)', LemmaLine(source'[n].name))
          [] n \in D' \cup Denied' -> Unasked(n)'
          [] n \in R' -> <<RecordLine(source'[n].name, source'[n].keys)>>
          [] n \in C' -> Continued(n)'
          [] n \in Q' -> <<Derived(source'[d].name, source'[n].name, source'[n].keys)>>
          [] OTHER -> <<>>
  BY <1>4 DEF Says, LemmaLine, RecordLine, Derived
<1>6. /\ IsPlain(e, {"le"}) <=> Speaks(e) /\ e.type = "le"
      /\ IsPlain(e, {"de", "eof"}) <=>
           Speaks(e) /\ e.type \in {"de", "eof"}
      /\ IsPlain(e, {"record", "word"}) <=>
           Speaks(e) /\ e.type \in {"record", "word"}
      /\ IsPlain(e, {"@"}) <=> Speaks(e) /\ e.type = "@"
      /\ IsPlain(e, {";"}) <=> Speaks(e) /\ e.type = ";"
  BY DEF IsPlain, Speaks
<1>7. IsDenied(e) => e.type = "de" /\ ~ Speaks(e)
  BY DEF IsDenied, IsPlain, Speaks
<1> HIDE DEF d, L, D, R, C, Q
<1>8. CASE IsPlain(e, {"le"})
  BY <1>1, <1>2, <1>3, <1>4, <1>5, <1>6, <1>7, <1>8
<1>9. CASE IsPlain(e, {"de", "eof"}) \/ IsDenied(e)
  BY <1>1, <1>2, <1>3, <1>4, <1>5, <1>6, <1>7, <1>9
<1>10. CASE IsPlain(e, {"record", "word"})
  BY <1>1, <1>2, <1>3, <1>4, <1>5, <1>6, <1>7, <1>10
<1>11. CASE IsPlain(e, {"@"})
  BY <1>1, <1>2, <1>3, <1>4, <1>5, <1>6, <1>7, <1>11
<1>12. CASE IsPlain(e, {";"})
  BY <1>1, <1>2, <1>3, <1>4, <1>5, <1>6, <1>7, <1>12 DEF d
<1>13. CASE ~ Speaks(e) /\ ~ IsDenied(e)
  BY <1>2, <1>3, <1>5, <1>6, <1>13
<1>14. Speaks(e) =>
         \/ IsPlain(e, {"le"}) \/ IsPlain(e, {"de", "eof"})
         \/ IsPlain(e, {"record", "word"}) \/ IsPlain(e, {"@"})
         \/ IsPlain(e, {";"})
  BY DEF IsPlain, Speaks
<1> QED BY <1>8, <1>9, <1>10, <1>11, <1>12, <1>13, <1>14

----------------------------------------------------------------------------
(* The preparer: a line more.                                              *)

\* n is the next number.
LEMMA Beyond ==
  ASSUME NEW m \in Nat, NEW n, n = m + 1
  PROVE  /\ n \in 1 .. m + 1 /\ n \notin 1 .. m /\ n \in 1 .. n
         /\ \A i \in 1 .. n : i \in 1 .. m \/ i = n
         /\ 1 .. m \subseteq 1 .. n /\ 1 .. m \subseteq 0 .. m
OBVIOUS

\* Intervals that are equal end alike.
LEMMA SameLength ==
  ASSUME NEW x \in Nat, NEW y \in Nat, 1 .. x = 1 .. y
  PROVE  x = y
<1>1. x # 0 => x \in 1 .. x
  OBVIOUS
<1>2. y # 0 => y \in 1 .. y
  OBVIOUS
<1> QED BY <1>1, <1>2

\* A sequence t that has one more element than s, and that it is Append(s, out).
Longer(S, s, out, k, t) ==
  /\ s \in Seq(S) /\ out \in S /\ k = Len(s) + 1 /\ t \in [1 .. k -> S]
  /\ \A i \in 1 .. Len(s) : t[i] = s[i]
  /\ t[k] = out
LEMMA OneMore ==
  ASSUME NEW S, NEW s, NEW out, NEW k, NEW t, Longer(S, s, out, k, t)
  PROVE  Append(s, out) \in Seq(S) /\ t = Append(s, out)
<1> USE DEF Longer
<1>1. /\ Append(s, out) \in Seq(S) /\ Len(Append(s, out)) = Len(s) + 1
      /\ \A i \in 1 .. Len(s) : Append(s, out)[i] = s[i]
      /\ Append(s, out)[Len(s) + 1] = out
  OBVIOUS
<1>2. Append(s, out) \in [1 .. Len(s) + 1 -> S]
  BY <1>1, LenProperties
<1>3. PICK a, m : a = Append(s, out) /\ m = Len(s) + 1 /\ m = k
  OBVIOUS
<1>4. \A i \in 1 .. m : i \in 1 .. Len(s) \/ i = m
  BY <1>3
<1>5. a \in [1 .. m -> S] /\ t \in [1 .. m -> S]
  BY <1>2, <1>3
<1>6. \A i \in 1 .. m : a[i] = t[i]
  BY <1>1, <1>3, <1>4
<1>7. a = t
  <2>1. a = [i \in 1 .. m |-> a[i]]
    BY <1>5
  <2>2. t = [i \in 1 .. m |-> t[i]]
    BY <1>5
  <2>3. [i \in 1 .. m |-> a[i]] = [i \in 1 .. m |-> t[i]]
    BY <1>6
  <2> QED BY <2>1, <2>2, <2>3
<1> QED BY <1>1, <1>3, <1>7

\* A line that writes what it says keeps the output right.
LEMMA LineSays ==
  ASSUME Said \in Seq(Seq(LineWritten)), prepared = FlattenSeq(Said), Grounded,
         NEW e, Grows(e), NEW n, n = Upcoming, NEW out \in Seq(LineWritten),
         Says(n)' = out, prepared' = prepared \o out,
         IsPlain(e, {";"})
           \/ (IsPlain(e, {"@"}) /\ LastBefore(n, Continuable) \in Asking)
           => DerivationOf(n) # 0
  PROVE  /\ Said' \in Seq(Seq(LineWritten)) /\ prepared' = FlattenSeq(Said')
         /\ Grounded'
<1>0. /\ n = Len(source) + 1 /\ Len(source) \in Nat
      /\ DOMAIN source = 1 .. Len(source) /\ DOMAIN source' = 1 .. n
  BY Before DEF Upcoming
<1>1. /\ n \in 1 .. Len(source) + 1 /\ n \notin 1 .. Len(source) /\ n \in 1 .. n
      /\ n = Len(source) + 1 /\ Len(source) \in Nat
      /\ DOMAIN source = 1 .. Len(source) /\ DOMAIN source' = 1 .. n
      /\ \A i \in 1 .. n : i \in 1 .. Len(source) \/ i = n
      /\ 1 .. Len(source) \subseteq 1 .. n
      /\ 1 .. Len(source) \subseteq 0 .. Len(source)
  <2>1. PICK m \in Nat : m = Len(source)
    BY <1>0
  <2>2. n = m + 1
    BY <1>0, <2>1
  <2>3. /\ n \in 1 .. m + 1 /\ n \notin 1 .. m /\ n \in 1 .. n
        /\ \A i \in 1 .. n : i \in 1 .. m \/ i = n
        /\ 1 .. m \subseteq 1 .. n /\ 1 .. m \subseteq 0 .. m
    BY <2>2, Beyond
  <2> QED BY <1>0, <2>1, <2>3
<1>2. Said' = [i \in 1 .. n |-> Says(i)']
  BY <1>1 DEF Said
<1>3. Said = [i \in 1 .. Len(source) |-> Says(i)]
  BY <1>1 DEF Said
<1>4. \A i \in 1 .. Len(source) : Says(i)' = Says(i)
  BY SaysSame
<1>5. Said' = Append(Said, out) /\ Append(Said, out) \in Seq(Seq(LineWritten))
  <2>1. DOMAIN Said = 1 .. Len(source) /\ \A i \in 1 .. Len(source) : Said[i] = Says(i)
    BY <1>3
  <2>2. PICK t : t = Said'
    OBVIOUS
  <2>3. t = [i \in 1 .. n |-> t[i]] /\ \A i \in 1 .. n : t[i] = Says(i)'
    BY <1>2, <2>2
  <2>4. \A i \in 1 .. Len(source) : t[i] = Said[i]
    <3> SUFFICES ASSUME NEW i \in 1 .. Len(source) PROVE t[i] = Said[i]
      OBVIOUS
    <3>1. i \in 1 .. n
      BY <1>1
    <3> QED BY <1>4, <2>1, <2>3, <3>1
  <2>5. t[n] = out
    <3>1. t[n] = Says(n)'
      BY <1>1, <2>3
    <3> QED BY <3>1
  <2>6. PICK m \in Nat : m = Len(source)
    BY <1>1
  <2>7. /\ Said \in Seq(Seq(LineWritten)) /\ DOMAIN Said = 1 .. m /\ n = m + 1
        /\ \A i \in 1 .. m : t[i] = Said[i]
    BY <1>1, <2>1, <2>4, <2>6
  <2>8. PICK s : s = Said
    OBVIOUS
  <2>9. s \in Seq(Seq(LineWritten)) /\ DOMAIN s = 1 .. m /\ \A i \in 1 .. m : t[i] = s[i]
    BY <2>7, <2>8
  <2>10. t = [i \in 1 .. n |-> t[i]]
    BY <2>3
  <2> HIDE DEF Said
  <2>11. Append(s, out) \in Seq(Seq(LineWritten)) /\ t = Append(s, out)
    <3> n = m + 1 /\ m \in Nat /\ out \in Seq(LineWritten)
      BY <2>6, <2>7
    <3>1. PICK S : S = Seq(LineWritten)
      OBVIOUS
    <3>2. s \in Seq(S) /\ out \in S /\ DOMAIN s = 1 .. m
      BY <2>9, <3>1
    <3>3. Len(s) = m
      <4>1. Len(s) \in Nat /\ 1 .. Len(s) = 1 .. m
        BY <3>2, LenProperties
      <4> QED BY <4>1, SameLength
    <3>4. PICK k : k = Len(s) + 1
      OBVIOUS
    <3>5. k = n
      BY <2>7, <3>3, <3>4
    <3>6. (\A i \in 1 .. Len(s) : t[i] = s[i]) /\ t[k] = out
      BY <2>5, <2>9, <3>3, <3>5
    <3>7. \A i \in 1 .. k : t[i] \in S
      <4>1. s \in [1 .. Len(s) -> S]
        BY <3>2, LenProperties
      <4>2. \A i \in 1 .. Len(s) : s[i] \in S
        BY <4>1
      <4> QED BY <1>1, <2>6, <3>2, <3>3, <3>5, <3>6, <4>2
    <3>8. t \in [1 .. k -> S]
      BY <2>10, <3>5, <3>7
    <3>9. Append(s, out) \in Seq(S) /\ t = Append(s, out)
      <4>1. s \in Seq(S) /\ out \in S /\ k = Len(s) + 1 /\ t \in [1 .. k -> S]
        BY <3>2, <3>4, <3>8
      <4>2. t[k] = out
        BY <3>6
      <4>3. \A i \in 1 .. Len(s) : t[i] = s[i]
        BY <3>6
      <4>4. Longer(S, s, out, k, t)
        BY <4>1, <4>2, <4>3 DEF Longer
      <4> QED BY <4>4, OneMore
    <3> QED BY <3>1, <3>9
  <2> QED BY <2>2, <2>8, <2>11
<1>7. FlattenSeq(Append(Said, out)) = FlattenSeq(Said) \o out
  BY FlattenAppend
<1>8. Grounded'
  <2>1. SUFFICES ASSUME NEW i \in 1 .. n,
                        \/ i \in Plain({";"})'
                        \/ i \in Plain({"@"})' /\ LastBefore(i, Continuable)' \in Asking'
                 PROVE  DerivationOf(i)' # 0
    BY <1>1 DEF Grounded
  <2>2. /\ DerivationOf(i)' = DerivationOf(i)
        /\ LastBefore(i, Continuable)' = LastBefore(i, Continuable)
        /\ LastBefore(i, Continuable) \in 0 .. Len(source)
    BY <1>1, DerivationSame, ResumesSame
  <2>3. LastBefore(i, Continuable)' \in Asking' => LastBefore(i, Continuable) \in Asking
    BY <2>2, SameSets
  <2>4. CASE i \in 1 .. Len(source)
    <3>1. i \in 0 .. Len(source) /\ i \in DOMAIN source
      BY <1>1, <2>4
    <3>2. i \in Plain({";"}) \/ (i \in Plain({"@"}) /\ LastBefore(i, Continuable) \in Asking)
      BY <2>1, <2>3, <3>1, PlainSame
    <3> QED BY <2>2, <3>1, <3>2 DEF Grounded
  <2>5. CASE i = n
    <3>1. /\ i \in Plain({";"})' <=> IsPlain(e, {";"})
          /\ i \in Plain({"@"})' <=> IsPlain(e, {"@"})
      BY <1>1, <2>5, PlainMore DEF With
    <3> QED BY <2>1, <2>2, <2>3, <2>5, <3>1
  <2> QED BY <1>1, <2>4, <2>5
<1> QED BY <1>5, <1>7, <1>8

\* The derivation in force after one more line.
LEMMA ForceMore ==
  ASSUME NEW e, Grows(e), NEW n, n = Upcoming
  PROVE  /\ ~ Ends(e) => DerivationOf(Upcoming)' = DerivationOf(n)
         /\ Ends(e) /\ ~ IsPlain(e, {"de"}) => DerivationOf(Upcoming)' = 0
         /\ IsPlain(e, {"de"}) => /\ DerivationOf(Upcoming)' = n
                                  /\ n # 0 /\ source'[n].name = e.name
                                  /\ ~ \E k \in Asking' : n < k
         /\ DerivationOf(n) # 0 =>
              /\ source'[DerivationOf(n)].name = source[DerivationOf(n)].name
              /\ (\E k \in Asking' : DerivationOf(n) < k)
                   <=> Asks(e) \/ \E k \in Asking : DerivationOf(n) < k
<1> DEFINE j == LastBefore(n, Ending)
           d == DerivationOf(n)
<1>1. /\ n = Len(source) + 1 /\ n \in Nat \ {0} /\ n - 1 = Len(source)
      /\ n \in 1 .. n /\ Upcoming' = n + 1 /\ source'[n] = e
      /\ n \in 1 .. Len(source) + 1
  BY Before DEF Upcoming
<1>2. /\ Ending \subseteq 1 .. n - 1 /\ Asking \subseteq 1 .. n - 1
      /\ Deriving \subseteq 1 .. n - 1
  BY <1>1, SetsOfLines
<1>3. /\ Ending' \in {Ending, Ending \cup {n}}
      /\ n \in Ending' <=> Ends(e)
      /\ \A k : k \in Deriving' <=> k \in Deriving \/ (k = n /\ IsPlain(e, {"de"}))
      /\ \A k : k \in Asking' <=> k \in Asking \/ (k = n /\ Asks(e))
  <2>1. n \notin 1 .. n - 1
    BY <1>1
  <2> QED BY <1>1, <1>2, <2>1, SetsMore DEF With
<1>4. LastBefore(n + 1, Ending') = (IF n \in Ending' THEN n ELSE j)
      /\ j \in Ending \cup {0} /\ j < n
  <2>1. PICK S, U : S = Ending /\ U = Ending'
    OBVIOUS
  <2>2. S \subseteq 1 .. n - 1 /\ U \in {S, S \cup {n}}
    <3>1. Ending \subseteq 1 .. n - 1 /\ Ending' \in {Ending, Ending \cup {n}}
      BY <1>2, <1>3
    <3> QED BY <2>1, <3>1, Zenon
  <2>3. /\ LastBefore(n + 1, U) = IF n \in U THEN n ELSE LastBefore(n, S)
        /\ LastBefore(n, S) \in S \cup {0} /\ LastBefore(n, S) < n
    BY <1>1, <2>2, WithLast
  <2> QED BY <2>1, <2>3, Zenon
<1>5. DerivationOf(Upcoming)' =
        (IF LastBefore(n + 1, Ending') \in Deriving'
         THEN LastBefore(n + 1, Ending') ELSE 0)
  BY <1>1 DEF DerivationOf
<1>6. d = (IF j \in Deriving THEN j ELSE 0)
  BY DEF DerivationOf
<1>7. IsPlain(e, {"de"}) => Ends(e)
  BY DEF Ends, IsPlain
<1>8. d # 0 => source'[d].name = source[d].name
  BY <1>1, DerivationSame
<1>9. d < n
  BY <1>1, DerivationSame
<1>10. ~ \E k \in Asking' : n < k
  <2>1. \A k \in Asking : ~ n < k
    BY <1>1, <1>2
  <2>2. ~ n < n
    BY <1>1
  <2> QED BY <1>3, <2>1, <2>2
<1> HIDE DEF d, j
<1>11. ~ Ends(e) => DerivationOf(Upcoming)' = d
  <2> SUFFICES ASSUME ~ Ends(e) PROVE DerivationOf(Upcoming)' = d
    OBVIOUS
  <2>1. j # n
    BY <1>1, <1>4
  <2>2. LastBefore(n + 1, Ending') = j
    <3>1. n \notin Ending'
      BY <1>3
    <3> QED BY <1>4, <3>1
  <2>3. j \in Deriving' <=> j \in Deriving
    BY <1>3, <2>1
  <2> QED BY <1>5, <1>6, <2>2, <2>3, Zenon
<1>12. Ends(e) /\ ~ IsPlain(e, {"de"}) => DerivationOf(Upcoming)' = 0
  <2>1. n \notin Deriving
    BY <1>1, <1>2
  <2> QED BY <1>3, <1>4, <1>5, <2>1
<1>13. IsPlain(e, {"de"}) => DerivationOf(Upcoming)' = n
  BY <1>3, <1>4, <1>5, <1>7
<1>14. (\E k \in Asking' : d < k) <=> Asks(e) \/ \E k \in Asking : d < k
  BY <1>3, <1>9
<1> QED BY <1>1, <1>8, <1>10, <1>11, <1>12, <1>13, <1>14 DEF d

\* What could be continued after one more line.
LEMMA BaseMore ==
  ASSUME NEW e, Grows(e), NEW n, n = Upcoming
  PROVE  /\ Resumes(e) => LastBefore(Upcoming, Continuable)' = n
         /\ ~ Resumes(e) =>
              LastBefore(Upcoming, Continuable)' = LastBefore(n, Continuable)
         /\ n \in Plain({"record", "word"})' <=> IsPlain(e, {"record", "word"})
         /\ n \in Asking' <=> Asks(e)
         /\ source'[n] = e
<1> DEFINE j == LastBefore(n, Continuable)
<1>1. /\ n = Len(source) + 1 /\ n \in Nat \ {0} /\ n - 1 = Len(source)
      /\ n \in 1 .. n /\ Upcoming' = n + 1 /\ source'[n] = e
      /\ n \notin 1 .. n - 1
  BY Before DEF Upcoming
<1>2. /\ Continuable \subseteq 1 .. n - 1 /\ Asking \subseteq 1 .. n - 1
      /\ Plain({"record", "word"}) \subseteq 1 .. n - 1
  BY <1>1, SetsOfLines, PlainMore
<1>3. /\ Continuable' \in {Continuable, Continuable \cup {n}}
      /\ n \in Continuable' <=> Resumes(e)
      /\ n \in Asking' <=> Asks(e)
  BY <1>1, <1>2, SetsMore DEF With
<1>4. n \in Plain({"record", "word"})' <=> IsPlain(e, {"record", "word"})
  BY <1>1, <1>2, PlainMore DEF With
<1>5. LastBefore(n + 1, Continuable') = IF n \in Continuable' THEN n ELSE j
  <2>1. PICK S, U : S = Continuable /\ U = Continuable'
    OBVIOUS
  <2>2. S \subseteq 1 .. n - 1 /\ U \in {S, S \cup {n}}
    BY <1>2, <1>3, <2>1
  <2>3. LastBefore(n + 1, U) = IF n \in U THEN n ELSE LastBefore(n, S)
    BY <1>1, <2>2, WithLast
  <2> QED BY <2>1, <2>3, Zenon
<1>6. LastBefore(Upcoming, Continuable)' = LastBefore(n + 1, Continuable')
  BY <1>1
<1> QED BY <1>1, <1>3, <1>4, <1>5, <1>6

\* The derivation in force stays,
LEMMA InForceKept ==
  ASSUME InForce, NEW e, Grows(e), ~ Ends(e),
         parser'.derived = parser.derived, parser'.derivation = parser.derivation,
         parser.derived => (parser'.explicit <=> parser.explicit \/ Asks(e))
  PROVE  InForce'
<1>1. PICK n : n = Upcoming
  OBVIOUS
<1> DEFINE d == DerivationOf(n)
<1>2. DerivationOf(Upcoming)' = d
  BY <1>1, ForceMore
<1>3. d # 0 => /\ source'[d].name = source[d].name
               /\ (\E k \in Asking' : d < k) <=> Asks(e) \/ \E k \in Asking : d < k
  BY <1>1, ForceMore
<1>4. /\ parser.derived <=> d # 0
      /\ parser.derived => /\ parser.derivation = source[d].name
                           /\ parser.explicit <=> \E k \in Asking : d < k
  BY <1>1 DEF InForce
<1>5. InForce' <=> /\ parser'.derived <=> d # 0
                   /\ parser'.derived => /\ parser'.derivation = source'[d].name
                                         /\ parser'.explicit <=> \E k \in Asking' : d < k
  BY <1>2 DEF InForce
<1> HIDE DEF d
<1> QED BY <1>3, <1>4, <1>5

\* ends,
LEMMA InForceEnded ==
  ASSUME NEW e, Grows(e), Ends(e), ~ IsPlain(e, {"de"}), ~ parser'.derived
  PROVE  InForce'
<1>1. PICK n : n = Upcoming
  OBVIOUS
<1>2. DerivationOf(Upcoming)' = 0
  BY <1>1, ForceMore
<1> QED BY <1>2 DEF InForce

\* or begins.
LEMMA InForceBegun ==
  ASSUME NEW e, Grows(e), IsPlain(e, {"de"}), parser'.derived,
         parser'.derivation = e.name, ~ parser'.explicit
  PROVE  InForce'
<1>1. PICK n : n = Upcoming
  OBVIOUS
<1>2. /\ DerivationOf(Upcoming)' = n
      /\ n # 0 /\ source'[n].name = e.name
      /\ ~ \E k \in Asking' : n < k
  BY <1>1, ForceMore
<1> QED BY <1>2 DEF InForce

\* What can be continued stays,
LEMMA BasedKept ==
  ASSUME Based, NEW e, Grows(e), ~ Resumes(e), parser'.base = parser.base,
         parser'.prefix = parser.prefix, parser'.request = parser.request,
         parser'.derived = parser.derived
  PROVE  Based'
<1>1. PICK n : n = Upcoming
  OBVIOUS
<1> DEFINE j == LastBefore(n, Continuable)
           W == Plain({"record", "word"})
<1>2. LastBefore(Upcoming, Continuable)' = j
  BY <1>1, BaseMore
<1>3. n \in 1 .. Len(source) + 1 /\ 0 \notin W /\ 0 \notin Asking
  BY <1>1, Before, SetsOfLines, PlainMore DEF Upcoming
<1>4. j \in 0 .. Len(source)
  BY <1>3, ResumesSame
<1>5. (j \in W' <=> j \in W) /\ (j \in Asking' <=> j \in Asking)
  BY <1>4, PlainSame, SameSets
<1>6. j # 0 => source'[j] = source[j]
  BY <1>4, Before
<1>7. /\ parser.base = "direct" => j \in W /\ parser.prefix = source[j].name
      /\ parser.base = "derivation" =>
           /\ parser.derived
           /\ parser.request # Nothing =>
                j \in Asking /\ parser.request = source[j].name
  BY <1>1 DEF Based
<1>8. Based' <=>
        /\ parser'.base = "direct" => j \in W' /\ parser'.prefix = source'[j].name
        /\ parser'.base = "derivation" =>
             /\ parser'.derived
             /\ parser'.request # Nothing =>
                  j \in Asking' /\ parser'.request = source'[j].name
  BY <1>2 DEF Based
<1> HIDE DEF j, W
<1> QED BY <1>3, <1>5, <1>6, <1>7, <1>8

\* ends,
LEMMA BasedEnded ==
  ASSUME \/ parser'.base = "none"
         \/ parser'.base = "derivation" /\ parser'.derived /\ parser'.request = Nothing
  PROVE  Based'
BY DEF Based

\* or begins.
LEMMA BasedBegun ==
  ASSUME NEW e, Grows(e),
         \/ /\ IsPlain(e, {"record", "word"})
            /\ parser'.base = "direct" /\ parser'.prefix = e.name
         \/ /\ Asks(e) /\ parser'.derived
            /\ parser'.base = "derivation" /\ parser'.request = e.name
  PROVE  Based'
<1>1. PICK n : n = Upcoming
  OBVIOUS
<1>2. Resumes(e)
  BY DEF Resumes, IsPlain
<1>3. LastBefore(Upcoming, Continuable)' = n
  BY <1>1, <1>2, BaseMore
<1>4. /\ n \in Plain({"record", "word"})' <=> IsPlain(e, {"record", "word"})
      /\ n \in Asking' <=> Asks(e)
      /\ source'[n] = e
  BY <1>1, BaseMore
<1> QED BY <1>3, <1>4 DEF Based

\* What a derivation yields when nobody asked it for anything.
LEMMA FlushedRight ==
  ASSUME InForce, ToolTypes, NEW e, Grows(e), NEW n, n = Upcoming
  PROVE  /\ Unasked(n) = Flushed(parser)
         /\ Flushed(parser) \in Seq(LineWritten)
<1> DEFINE d == DerivationOf(n)
<1>1. \A k \in Asking : k < n
  BY SetsOfLines, Before DEF Upcoming
<1>2. (\E k \in Asking : d < k /\ k < n) <=> \E k \in Asking : d < k
  BY <1>1
<1>3. /\ parser.derived <=> d # 0
      /\ parser.derived => /\ parser.derivation = source[d].name
                           /\ parser.explicit <=> \E k \in Asking : d < k
  BY DEF InForce
<1>4. Unasked(n) = IF d # 0 /\ ~ \E k \in Asking : d < k /\ k < n
                   THEN <<Derived(source[d].name, Default, Nothing)>> ELSE <<>>
  BY DEF Unasked
<1> HIDE DEF d
<1>5. Unasked(n) = Flushed(parser)
  BY <1>2, <1>3, <1>4 DEF Flushed
<1>6. Flushed(parser) \in Seq(LineWritten)
  <2>1. parser.derivation \in Names /\ Nothing \in Keys /\ Default \in Names \cup {Default}
    BY DEF ToolTypes, Parsers, Keys
  <2>2. Derived(parser.derivation, Default, Nothing) \in LineWritten
    BY <2>1 DEF Derived, LineWritten
  <2> QED BY <2>2 DEF Flushed
<1> QED BY <1>5, <1>6

----------------------------------------------------------------------------
(* The preparer: its steps.                                                *)

\* The line that is read.
LEMMA LineGrows ==
  ASSUME ToolInv, NEW line \in Lines, NEW x \in Kinds \cup {"none"}, Reads(line, x)
  PROVE  /\ \E e : /\ Grows(e) /\ e.type = line.type /\ e.name = line.name
                   /\ e.keys = line.keys /\ e.exception = x
         /\ stage = "reading" /\ stage' = "reading"
         /\ line.type \in Types /\ line.name \in Names /\ line.keys \in Keys
<1> DEFINE e == [type |-> line.type, name |-> line.name, keys |-> line.keys,
                 exception |-> x]
<1>1. line.type \in Types /\ line.name \in Names /\ line.keys \in Keys
  BY LinesAssumption DEF Names, Keys
<1>2. source \in Seq(LineRead)
  BY DEF ToolInv, ToolTypes
<1>3. e \in LineRead
  BY <1>1 DEF LineRead
<1>4. stage = "reading" /\ stage' = "reading" /\ source' = Append(source, e)
  BY DEF Reads
<1>5. Grows(e)
  BY <1>2, <1>3, <1>4 DEF Grows
<1> QED BY <1>1, <1>4, <1>5

\* A line keeps the invariant when the output gets what it says and the fields
\* of the parser follow.
LEMMA StepKeeps ==
  ASSUME ToolInv, stage = "reading", stage' = "reading", NEW e, Grows(e),
         NEW n, n = Upcoming, NEW out \in Seq(LineWritten),
         Says(n)' = out, prepared' = prepared \o out,
         IsPlain(e, {";"})
           \/ (IsPlain(e, {"@"}) /\ LastBefore(n, Continuable) \in Asking)
           => DerivationOf(n) # 0,
         parser' \in Parsers,
         parser'.skip <=> IsDenied(e) \/ (e.type \in {";", "@"} /\ parser.skip),
         InForce', Based'
  PROVE  ToolInv'
<1>1. /\ Said \in Seq(Seq(LineWritten)) /\ prepared = FlattenSeq(Said) /\ Grounded
      /\ parser.skip <=> Skipped
      /\ ToolTypes
  BY DEF ToolInv
<1>2. /\ Said' \in Seq(Seq(LineWritten)) /\ prepared' = FlattenSeq(Said') /\ Grounded'
  BY <1>1, LineSays
<1>3. parser'.skip <=> Skipped'
  BY <1>1, SkippedMore
<1>4. ToolTypes'
  <2>1. prepared' \in Seq(LineWritten)
    <3>1. prepared \in Seq(LineWritten) /\ prepared' = Cat(prepared, out)
      BY <1>1 DEF ToolTypes, Cat
    <3> QED BY <3>1, CatType
  <2>2. source' \in Seq(LineRead)
    <3>1. Append(source, e) \in Seq(LineRead)
      BY AppendProperties DEF Grows
    <3> QED BY <3>1 DEF Grows
  <2> QED BY <1>1, <2>1, <2>2 DEF ToolTypes
<1> QED BY <1>2, <1>3, <1>4 DEF ToolInv

\* What is added to the output: a line,
LEMMA OneLine ==
  ASSUME ToolTypes, NEW r \in LineWritten
  PROVE  Append(prepared, r) = prepared \o <<r>> /\ <<r>> \in Seq(LineWritten)
<1>1. prepared \in Seq(LineWritten)
  BY DEF ToolTypes
<1>2. <<r>> \in Seq(LineWritten)
  OBVIOUS
<1>3. Append(prepared, r) = prepared \o <<r>>
  BY <1>1, AppendIsConcat
<1> QED BY <1>2, <1>3, Zenon
\* nothing,
LEMMA NoLine ==
  ASSUME ToolTypes
  PROVE  prepared = prepared \o <<>> /\ <<>> \in Seq(LineWritten)
BY ConcatEmptySeq DEF ToolTypes
\* or a line behind others.
LEMMA OneLineMore ==
  ASSUME ToolTypes, NEW s \in Seq(LineWritten), NEW r \in LineWritten
  PROVE  /\ prepared \o s \o <<r>> = prepared \o Append(s, r)
         /\ Append(s, r) \in Seq(LineWritten)
<1>1. prepared \in Seq(LineWritten) /\ <<r>> \in Seq(LineWritten)
  BY DEF ToolTypes
<1>2. (prepared \o s) \o <<r>> = prepared \o (s \o <<r>>)
  BY <1>1, ConcatAssociative
<1>3. Append(s, r) = s \o <<r>>
  BY AppendIsConcat
<1>4. Append(s, r) \in Seq(LineWritten)
  OBVIOUS
<1> QED BY <1>2, <1>3, <1>4, Zenon

\* What is written has its type.
LEMMA WrittenTyped ==
  ASSUME NEW name \in Names, NEW part \in Names \cup {Default}, NEW keys \in Keys
  PROVE  /\ LemmaLine(name) \in LineWritten
         /\ RecordLine(name, keys) \in LineWritten
         /\ Derived(name, part, keys) \in LineWritten
<1>1. Nothing \in Keys /\ name \in Names \cup {Default}
  BY DEF Keys
<1> QED BY <1>1 DEF LineWritten, LemmaLine, RecordLine, Derived

\* An exception to the manifest is nothing else.
LEMMA Unheard ==
  ASSUME NEW e, e.type = "other" \/ e.exception # "none"
  PROVE  /\ ~ Speaks(e) /\ (~ IsDenied(e) => ~ Ends(e))
         /\ ~ IsDenied(e) /\ e.exception # "zero_request" => ~ Asks(e) /\ ~ Resumes(e)
         /\ \A T \in {{"@"}, {";"}, {"de"}, {"record", "word"}} : ~ IsPlain(e, T)
BY DEF Speaks, Ends, IsDenied, Asks, Resumes, IsPlain

\* A skipped line changes nothing.
LEMMA SkippedKeeps ==
  ASSUME ToolInv, NEW line \in Lines, ReadSkipped(line)
  PROVE  ToolInv'
<1>1. Reads(line, "none") /\ Skips(line) /\ UNCHANGED <<parser, prepared>>
  BY DEF ReadSkipped
<1>2. PICK e : /\ Grows(e) /\ e.type = line.type /\ e.exception = "none"
  BY <1>1, LineGrows
<1>3. stage = "reading" /\ stage' = "reading"
  BY <1>1, LineGrows
<1>4. PICK n : n = Upcoming
  OBVIOUS
<1>5. e.type \in {";", "@"} /\ parser.skip /\ Skipped
  BY <1>1, <1>2, <1>3 DEF Skips, ToolInv
<1>6. /\ ~ Speaks(e) /\ ~ IsDenied(e) /\ ~ Ends(e) /\ ~ Asks(e) /\ ~ Resumes(e)
      /\ ~ IsPlain(e, {"@"}) /\ ~ IsPlain(e, {";"})
  BY <1>2, <1>5 DEF Speaks, Ends, IsDenied, Asks, Resumes, IsPlain
<1>7. Says(n)' = <<>>
  BY <1>2, <1>4, <1>6, SaysNow
<1>8. InForce /\ Based /\ ToolTypes
  BY <1>3 DEF ToolInv
<1>9. InForce'
  BY <1>1, <1>2, <1>6, <1>8, InForceKept
<1>10. Based'
  BY <1>1, <1>2, <1>6, <1>8, BasedKept
<1>11. prepared' = prepared \o <<>> /\ <<>> \in Seq(LineWritten)
  BY <1>1, <1>8, NoLine
<1>12. parser' \in Parsers /\ parser'.skip
  BY <1>1, <1>5, <1>8 DEF ToolTypes
<1> QED BY <1>2, <1>3, <1>4, <1>5, <1>6, <1>7, <1>9, <1>10, <1>11, <1>12, StepKeeps

\* A lemma gets what the derivation before it yields and starts afresh.
LEMMA LemmaKeeps ==
  ASSUME ToolInv, NEW line \in Lines, ReadLemma(line)
  PROVE  ToolInv'
<1>1. /\ Reads(line, "none") /\ line.type = "le"
      /\ prepared' = prepared \o Flushed(parser) \o <<LemmaLine(line.name)>>
      /\ parser' = [Fresh(parser) EXCEPT !.lemma = TRUE]
  BY DEF ReadLemma
<1>2. PICK e : /\ Grows(e) /\ e.type = "le" /\ e.exception = "none"
               /\ e.name = line.name
  BY <1>1, LineGrows
<1>3. stage = "reading" /\ stage' = "reading" /\ line.name \in Names
  BY <1>1, LineGrows
<1>4. PICK n : n = Upcoming
  OBVIOUS
<1>5. InForce /\ Based /\ ToolTypes
  BY <1>3 DEF ToolInv
<1>6. /\ IsPlain(e, {"le"}) /\ Ends(e) /\ ~ IsDenied(e)
      /\ ~ IsPlain(e, {"@"}) /\ ~ IsPlain(e, {";"}) /\ ~ IsPlain(e, {"de"})
  BY <1>2 DEF Ends, IsDenied, IsPlain
<1>7. Unasked(n) = Flushed(parser) /\ Flushed(parser) \in Seq(LineWritten)
  BY <1>2, <1>4, <1>5, FlushedRight
<1>8. Says(n)' = Append(Flushed(parser), LemmaLine(e.name))
  <2>1. Says(n)' = Append(Unasked(n), LemmaLine(e.name))
    BY <1>2, <1>4, <1>6, SaysNow
  <2> QED BY <1>7, <2>1
<1>9. LemmaLine(line.name) \in LineWritten
  <2>1. Nothing \in Names /\ Nothing \in Keys
    BY DEF Names, Keys
  <2> QED BY <1>3, <2>1, WrittenTyped
<1>10. PICK out : out = Append(Flushed(parser), LemmaLine(line.name))
  OBVIOUS
<1>11. prepared' = prepared \o out /\ out \in Seq(LineWritten)
  BY <1>1, <1>5, <1>7, <1>9, <1>10, OneLineMore
<1>12. /\ parser' \in Parsers /\ parser'.skip = FALSE
       /\ parser'.derived = FALSE /\ parser'.base = "none"
  BY <1>1, <1>5 DEF ToolTypes, Parsers, Fresh, Names
<1>13. InForce'
  BY <1>2, <1>6, <1>12, InForceEnded
<1>14. Based'
  BY <1>12, BasedEnded
<1>15. Says(n)' = out
  BY <1>2, <1>8, <1>10
<1> QED BY <1>2, <1>3, <1>4, <1>6, <1>11, <1>12, <1>13, <1>14, <1>15, StepKeeps

\* A record is written as it is; that of a word leaves the derivation in force.
LEMMA RecordKeeps ==
  ASSUME ToolInv, NEW line \in Lines, ReadRecord(line)
  PROVE  ToolInv'
<1> DEFINE r == RecordLine(line.name, line.keys)
           p == [Now EXCEPT !.prefix = line.name, !.base = "direct"]
<1>1. /\ Reads(line, "none") /\ line.type \in {"record", "word"}
      /\ prepared' = Append(prepared, r)
      /\ parser' = IF line.type = "record"
                   THEN [p EXCEPT !.derived = FALSE, !.explicit = FALSE,
                                  !.request = Nothing]
                   ELSE p
  BY DEF ReadRecord, EndsDerivation
<1>2. PICK e : /\ Grows(e) /\ e.type = line.type /\ e.exception = "none"
               /\ e.name = line.name /\ e.keys = line.keys
  BY <1>1, LineGrows
<1>3. /\ stage = "reading" /\ stage' = "reading"
      /\ line.name \in Names /\ line.keys \in Keys
  BY <1>1, LineGrows
<1>4. PICK n : n = Upcoming
  OBVIOUS
<1>5. InForce /\ Based /\ ToolTypes
  BY <1>3 DEF ToolInv
<1>6. /\ IsPlain(e, {"record", "word"}) /\ ~ IsDenied(e) /\ ~ Asks(e)
      /\ ~ IsPlain(e, {"@"}) /\ ~ IsPlain(e, {";"}) /\ ~ IsPlain(e, {"de"})
      /\ Ends(e) <=> line.type = "record"
  BY <1>1, <1>2 DEF Ends, IsDenied, IsPlain, Asks
<1>7. Says(n)' = <<r>>
  <2>1. Says(n)' = <<RecordLine(e.name, e.keys)>>
    BY <1>2, <1>4, <1>6, SaysNow
  <2> QED BY <1>2, <2>1
<1>8. r \in LineWritten
  BY <1>3, WrittenTyped
<1> HIDE DEF r
<1>9. prepared' = prepared \o <<r>> /\ <<r>> \in Seq(LineWritten)
  BY <1>1, <1>5, <1>8, OneLine
<1>10. /\ parser' \in Parsers /\ parser'.skip = FALSE
       /\ parser'.base = "direct" /\ parser'.prefix = line.name
       /\ line.type = "record" => parser'.derived = FALSE
       /\ line.type # "record" => /\ parser'.derived = parser.derived
                                  /\ parser'.derivation = parser.derivation
                                  /\ parser'.explicit = parser.explicit
  <2>1. parser \in Parsers /\ Nothing \in Names
    BY <1>5 DEF ToolTypes, Names
  <2>2. CASE line.type = "record"
    BY <1>1, <1>3, <2>1, <2>2 DEF Parsers, Now
  <2>3. CASE line.type # "record"
    BY <1>1, <1>3, <2>1, <2>3 DEF Parsers, Now
  <2> QED BY <2>2, <2>3
<1>11. InForce'
  <2>1. CASE line.type = "record"
    BY <1>2, <1>6, <1>10, <2>1, InForceEnded
  <2>2. CASE line.type # "record"
    BY <1>2, <1>5, <1>6, <1>10, <2>2, InForceKept
  <2> QED BY <2>1, <2>2
<1>12. Based'
  BY <1>2, <1>6, <1>10, BasedBegun
<1>13. e.type \notin {";", "@"}
  BY <1>1, <1>2
<1> QED BY <1>2, <1>3, <1>4, <1>6, <1>7, <1>9, <1>10, <1>11, <1>12, <1>13, StepKeeps

\* A derivation writes what the one before it yields and begins.
LEMMA DerivationKeeps ==
  ASSUME ToolInv, NEW line \in Lines, ReadDerivation(line)
  PROVE  ToolInv'
<1>1. /\ Reads(line, "none") /\ line.type = "de"
      /\ prepared' = prepared \o Flushed(parser)
      /\ parser' = [Now EXCEPT !.derivation = line.name, !.base = "derivation",
                           !.request = Nothing, !.explicit = FALSE,
                           !.derived = TRUE]
  BY DEF ReadDerivation, RequestForgotten
<1>2. PICK e : /\ Grows(e) /\ e.type = "de" /\ e.exception = "none"
               /\ e.name = line.name
  BY <1>1, LineGrows
<1>3. stage = "reading" /\ stage' = "reading" /\ line.name \in Names
  BY <1>1, LineGrows
<1>4. PICK n : n = Upcoming
  OBVIOUS
<1>5. InForce /\ Based /\ ToolTypes
  BY <1>3 DEF ToolInv
<1>6. /\ IsPlain(e, {"de", "eof"}) /\ IsPlain(e, {"de"}) /\ ~ IsDenied(e)
      /\ ~ IsPlain(e, {"@"}) /\ ~ IsPlain(e, {";"})
  BY <1>2 DEF IsDenied, IsPlain
<1>7. Unasked(n) = Flushed(parser) /\ Flushed(parser) \in Seq(LineWritten)
  BY <1>2, <1>4, <1>5, FlushedRight
<1>8. Says(n)' = Flushed(parser)
  BY <1>2, <1>4, <1>6, <1>7, SaysNow
<1>9. /\ parser' \in Parsers /\ parser'.skip = FALSE
      /\ parser'.derived = TRUE /\ parser'.derivation = line.name
      /\ parser'.explicit = FALSE /\ parser'.base = "derivation"
      /\ parser'.request = Nothing
  BY <1>1, <1>3, <1>5 DEF ToolTypes, Parsers, Now, Names
<1>10. InForce'
  BY <1>2, <1>6, <1>9, InForceBegun
<1>11. Based'
  BY <1>9, BasedEnded
<1>12. PICK out : out = Flushed(parser)
  OBVIOUS
<1> QED BY <1>1, <1>2, <1>3, <1>4, <1>6, <1>7, <1>8, <1>9, <1>10, <1>11, <1>12, StepKeeps

\* A request writes what it asks of the derivation in force.
LEMMA RequestKeeps ==
  ASSUME ToolInv, NEW line \in Lines, ReadRequest(line)
  PROVE  ToolInv'
<1> DEFINE r == Derived(parser.derivation, line.name, line.keys)
<1>1. /\ Reads(line, "none") /\ line.type = ";" /\ ~ Skips(line)
      /\ parser.derived
      /\ prepared' = Append(prepared, r)
      /\ parser' = [Now EXCEPT !.request = line.name, !.explicit = TRUE,
                               !.base = "derivation"]
  BY DEF ReadRequest, Requested
<1>2. PICK e : /\ Grows(e) /\ e.type = ";" /\ e.exception = "none"
               /\ e.name = line.name /\ e.keys = line.keys
  <2>1. \E e : /\ Grows(e) /\ e.type = line.type /\ e.exception = "none"
               /\ e.name = line.name /\ e.keys = line.keys
    <3>1. Reads(line, "none") /\ "none" \in Kinds \cup {"none"}
      BY <1>1
    <3> HIDE DEF r
    <3> QED BY <3>1, LineGrows
  <2> QED BY <1>1, <2>1
<1>3. /\ stage = "reading" /\ stage' = "reading"
      /\ line.name \in Names /\ line.keys \in Keys
  BY <1>1, LineGrows
<1>4. PICK n : n = Upcoming
  OBVIOUS
<1>5. InForce /\ Based /\ ToolTypes /\ (parser.skip <=> Skipped)
  BY <1>3 DEF ToolInv
<1>6. /\ ~ parser.skip /\ IsPlain(e, {";"}) /\ Asks(e) /\ ~ IsDenied(e) /\ ~ Ends(e)
      /\ ~ IsPlain(e, {"@"})
  BY <1>1, <1>2, <1>5 DEF Ends, IsDenied, IsPlain, Asks, Skips
<1>7. /\ DerivationOf(n) # 0
      /\ source'[DerivationOf(n)].name = parser.derivation
  <2>1. /\ DerivationOf(n) # 0
        /\ source[DerivationOf(n)].name = parser.derivation
    BY <1>1, <1>4, <1>5 DEF InForce
  <2> QED BY <1>2, <1>4, <2>1, ForceMore
<1>8. Says(n)' = <<r>>
  <2>1. Says(n)' = <<Derived(source'[DerivationOf(n)].name, e.name, e.keys)>>
    BY <1>2, <1>4, <1>6, SaysNow
  <2> QED BY <1>2, <1>7, <2>1
<1>9. r \in LineWritten
  <2>1. parser.derivation \in Names /\ line.name \in Names \cup {Default}
    BY <1>3, <1>5 DEF ToolTypes, Parsers
  <2> QED BY <1>3, <2>1, WrittenTyped
<1> HIDE DEF r
<1>10. prepared' = prepared \o <<r>> /\ <<r>> \in Seq(LineWritten)
  BY <1>1, <1>5, <1>9, OneLine
<1>11. /\ parser' \in Parsers /\ parser'.skip = FALSE
       /\ parser'.base = "derivation" /\ parser'.request = line.name
       /\ parser'.derived = parser.derived /\ parser'.derivation = parser.derivation
       /\ parser'.explicit = TRUE
  BY <1>1, <1>3, <1>5 DEF ToolTypes, Parsers, Now
<1>12. InForce'
  BY <1>2, <1>5, <1>6, <1>11, InForceKept
<1>13. Based'
  BY <1>1, <1>2, <1>6, <1>11, BasedBegun
<1> QED BY <1>2, <1>3, <1>4, <1>6, <1>7, <1>8, <1>10, <1>11, <1>12, <1>13, StepKeeps

\* A line of another type, and one that the manifest leaves out, says nothing
\* and changes nothing.
LEMMA UnheardKeeps ==
  ASSUME ToolInv, NEW line \in Lines, NEW x \in Kinds \cup {"none"}, Reads(line, x),
         ~ Skips(line), line.type = "other" \/ x # "none",
         x \notin {"invalid_derivation", "zero_request"},
         parser' = Now, prepared' = prepared
  PROVE  ToolInv'
<1>1. PICK e : Grows(e) /\ e.type = line.type /\ e.exception = x
  BY LineGrows
<1>2. stage = "reading" /\ stage' = "reading"
  BY LineGrows
<1>3. PICK n : n = Upcoming
  OBVIOUS
<1>4. InForce /\ Based /\ ToolTypes
  BY <1>2 DEF ToolInv
<1>5. ~ IsDenied(e) /\ e.exception # "zero_request"
  BY <1>1 DEF IsDenied
<1>6. /\ ~ Speaks(e) /\ ~ Ends(e) /\ ~ Asks(e) /\ ~ Resumes(e)
      /\ ~ IsPlain(e, {"@"}) /\ ~ IsPlain(e, {";"})
  BY <1>1, <1>5, Unheard
<1>7. Says(n)' = <<>>
  BY <1>1, <1>3, <1>5, <1>6, SaysNow
<1>8. /\ parser' \in Parsers /\ parser'.skip = FALSE
      /\ parser'.base = parser.base /\ parser'.prefix = parser.prefix
      /\ parser'.request = parser.request /\ parser'.derived = parser.derived
      /\ parser'.derivation = parser.derivation
      /\ parser'.explicit = parser.explicit
  BY <1>4 DEF ToolTypes, Parsers, Now
<1>9. InForce'
  BY <1>1, <1>4, <1>6, <1>8, InForceKept
<1>10. Based'
  BY <1>1, <1>4, <1>6, <1>8, BasedKept
<1>11. prepared' = prepared \o <<>> /\ <<>> \in Seq(LineWritten)
  BY <1>4, NoLine
<1>12. ~ (e.type \in {";", "@"} /\ parser.skip)
  BY <1>1 DEF Skips
<1> QED BY <1>1, <1>2, <1>3, <1>5, <1>6, <1>7, <1>8, <1>9, <1>10, <1>11, <1>12, StepKeeps

\* An invalid derivation ends the one before it and takes along what follows;
\* a request that yields nothing still asks; the others say nothing.
LEMMA ExceptedKeeps ==
  ASSUME ToolInv, NEW line \in Lines, NEW kind \in Kinds, ReadExcepted(line, kind)
  PROVE  ToolInv'
<1>1. Reads(line, kind) /\ ~ Skips(line) /\ kind \in Kinds \cup {"none"} /\ kind # "none"
  BY DEF ReadExcepted, Kinds
<1>2. PICK e : /\ Grows(e) /\ e.type = line.type /\ e.exception = kind
               /\ e.name = line.name
  BY <1>1, LineGrows
<1>3. stage = "reading" /\ stage' = "reading" /\ line.name \in Names
  BY <1>1, LineGrows
<1>4. PICK n : n = Upcoming
  OBVIOUS
<1>5. InForce /\ Based /\ ToolTypes
  BY <1>3 DEF ToolInv
<1>6. /\ ~ Speaks(e) /\ ~ IsPlain(e, {"@"}) /\ ~ IsPlain(e, {";"})
      /\ ~ IsPlain(e, {"de"})
  BY <1>1, <1>2, Unheard
<1>7. CASE /\ kind = "invalid_derivation" /\ line.type = "de"
           /\ prepared' = prepared \o Flushed(parser)
           /\ parser' = [parser EXCEPT !.base = "none", !.derived = FALSE,
                           !.explicit = FALSE, !.request = Nothing, !.skip = TRUE]
  <2>1. IsDenied(e) /\ Ends(e)
    BY <1>2, <1>7 DEF IsDenied, Ends
  <2>2. Unasked(n) = Flushed(parser) /\ Flushed(parser) \in Seq(LineWritten)
    BY <1>2, <1>4, <1>5, FlushedRight
  <2>3. PICK out : out = Flushed(parser)
    OBVIOUS
  <2>4. Says(n)' = out
    BY <1>2, <1>4, <2>1, <2>2, <2>3, SaysNow
  <2>5. /\ parser' \in Parsers /\ parser'.skip = TRUE
        /\ parser'.derived = FALSE /\ parser'.base = "none"
    BY <1>5, <1>7 DEF ToolTypes, Parsers, Names
  <2>6. InForce'
    BY <1>2, <1>6, <2>1, <2>5, InForceEnded
  <2>7. Based'
    BY <2>5, BasedEnded
  <2>8. prepared' = prepared \o out /\ out \in Seq(LineWritten)
    BY <1>7, <2>2, <2>3
  <2> QED BY <1>2, <1>3, <1>4, <1>6, <2>1, <2>4, <2>5, <2>6, <2>7, <2>8, StepKeeps
<1>8. CASE /\ kind = "zero_request" /\ line.type = ";" /\ parser.derived
           /\ parser' = Requested(line) /\ UNCHANGED prepared
  <2>1. Asks(e) /\ ~ IsDenied(e) /\ ~ Ends(e)
    BY <1>2, <1>8 DEF IsDenied, Asks, Ends, IsPlain
  <2>2. Says(n)' = <<>>
    BY <1>2, <1>4, <1>6, <2>1, SaysNow
  <2>3. /\ parser' \in Parsers /\ parser'.skip = FALSE
        /\ parser'.base = "derivation" /\ parser'.request = line.name
        /\ parser'.derived = parser.derived /\ parser'.derivation = parser.derivation
        /\ parser'.explicit = TRUE
    BY <1>3, <1>5, <1>8 DEF ToolTypes, Parsers, Now, Requested
  <2>4. InForce'
    BY <1>2, <1>5, <2>1, <2>3, InForceKept
  <2>5. Based'
    BY <1>2, <1>8, <2>1, <2>3, BasedBegun
  <2>6. prepared' = prepared \o <<>> /\ <<>> \in Seq(LineWritten)
    BY <1>5, <1>8, NoLine
  <2>7. ~ (e.type \in {";", "@"} /\ parser.skip)
    BY <1>1, <1>2 DEF Skips
  <2> QED BY <1>2, <1>3, <1>4, <1>6, <2>1, <2>2, <2>3, <2>4, <2>5, <2>6, <2>7, StepKeeps
<1>9. CASE /\ kind \notin {"invalid_derivation", "zero_request"}
           /\ parser' = Now /\ UNCHANGED prepared
  BY <1>1, <1>9, UnheardKeeps
<1> QED BY <1>7, <1>8, <1>9 DEF ReadExcepted

\* The end of a file gets what the last derivation yields.
LEMMA EndKeeps ==
  ASSUME ToolInv, EndOfFile
  PROVE  ToolInv'
<1> DEFINE e == [type |-> "eof", name |-> Nothing, keys |-> Nothing,
                 exception |-> "none"]
<1>1. /\ stage = "reading" /\ stage' = "reading"
      /\ prepared' = prepared \o Flushed(parser)
      /\ parser' = Fresh(parser) /\ source' = Append(source, e)
  BY DEF EndOfFile
<1>2. Grows(e)
  <2>1. e \in LineRead
    BY DEF LineRead, Names, Keys
  <2>2. source \in Seq(LineRead)
    BY DEF ToolInv, ToolTypes
  <2> QED BY <1>1, <2>1, <2>2 DEF Grows
<1>3. e.type = "eof" /\ e.exception = "none"
  OBVIOUS
<1> HIDE DEF e
<1>4. PICK n : n = Upcoming
  OBVIOUS
<1>5. InForce /\ Based /\ ToolTypes
  BY <1>1 DEF ToolInv
<1>6. /\ IsPlain(e, {"de", "eof"}) /\ Ends(e) /\ ~ IsDenied(e)
      /\ ~ IsPlain(e, {"@"}) /\ ~ IsPlain(e, {";"}) /\ ~ IsPlain(e, {"de"})
  BY <1>3 DEF IsDenied, IsPlain, Ends
<1>7. Unasked(n) = Flushed(parser) /\ Flushed(parser) \in Seq(LineWritten)
  BY <1>2, <1>4, <1>5, FlushedRight
<1>8. PICK out : out = Flushed(parser)
  OBVIOUS
<1>9. Says(n)' = out
  BY <1>2, <1>4, <1>6, <1>7, <1>8, SaysNow
<1>10. /\ parser' \in Parsers /\ parser'.skip = FALSE
       /\ parser'.derived = FALSE /\ parser'.base = "none"
  BY <1>1, <1>5 DEF ToolTypes, Parsers, Fresh, Names
<1>11. InForce'
  BY <1>2, <1>6, <1>10, InForceEnded
<1>12. Based'
  BY <1>10, BasedEnded
<1>13. e.type \notin {";", "@"}
  BY <1>3
<1> QED BY <1>1, <1>2, <1>4, <1>6, <1>7, <1>8, <1>9, <1>10, <1>11, <1>12, <1>13, StepKeeps

\* A continuation repeats the record or the request it continues.
LEMMA ContinuationKeeps ==
  ASSUME ToolInv, NEW line \in Lines, ReadContinuation(line)
  PROVE  ToolInv'
<1>1. /\ Reads(line, "none") /\ line.type = "@" /\ ~ Skips(line)
      /\ parser' = Now
      /\ \/ /\ parser.base = "direct"
            /\ prepared' = Append(prepared, RecordLine(parser.prefix, line.keys))
         \/ /\ parser.base = "derivation" /\ parser.request # Nothing
            /\ prepared' = Append(prepared, Derived(parser.derivation,
                                                    parser.request, line.keys))
  BY DEF ReadContinuation
<1>2. PICK e : /\ Grows(e) /\ e.type = "@" /\ e.exception = "none"
               /\ e.keys = line.keys
  <2>1. \E e : /\ Grows(e) /\ e.type = line.type /\ e.exception = "none"
               /\ e.keys = line.keys
    BY <1>1, LineGrows
  <2> QED BY <1>1, <2>1
<1>3. stage = "reading" /\ stage' = "reading" /\ line.keys \in Keys
  BY <1>1, LineGrows
<1>4. PICK n : n = Upcoming
  OBVIOUS
<1>5. InForce /\ Based /\ ToolTypes /\ (parser.skip <=> Skipped)
  BY <1>3 DEF ToolInv
<1>6. /\ ~ parser.skip /\ IsPlain(e, {"@"}) /\ ~ Asks(e) /\ ~ IsDenied(e) /\ ~ Ends(e)
      /\ ~ Resumes(e) /\ ~ IsPlain(e, {";"})
  BY <1>1, <1>2, <1>5 DEF Ends, IsDenied, IsPlain, Asks, Skips, Resumes
<1> DEFINE j == LastBefore(n, Continuable)
           d == DerivationOf(n)
           W == Plain({"record", "word"})
<1>7. /\ n \in 1 .. Len(source) + 1 /\ 0 \notin W /\ 0 \notin Asking
      /\ source'[n] = e /\ n = Len(source) + 1
  BY <1>2, <1>4, Before, SetsOfLines, PlainMore DEF Upcoming
<1>8. LastBefore(n, Continuable)' = j /\ j \in 0 .. Len(source)
  BY <1>2, <1>7, ResumesSame
<1>9. (j \in W' <=> j \in W) /\ (j \in Asking' <=> j \in Asking)
  BY <1>2, <1>8, PlainSame, SameSets
<1>10. j # 0 => source'[j] = source[j]
  BY <1>2, <1>8, Before
<1>11. j \in Asking => j \notin W
  BY DEF Asking, Plain, Follows
<1>12. DerivationOf(n)' = d
  BY <1>2, <1>7, DerivationSame
<1>13. Continued(n)' =
        CASE j \in Asking' -> <<Derived(source'[d].name, source'[j].name, e.keys)>>
          [] j \in W' -> <<RecordLine(source'[j].name, e.keys)>>
          [] OTHER -> <<>>
  BY <1>7, <1>8, <1>12 DEF Continued, Derived, RecordLine
<1>14. Says(n)' = Continued(n)'
  BY <1>2, <1>4, <1>6, SaysNow
<1>15. /\ parser.base = "direct" => j \in W /\ parser.prefix = source[j].name
       /\ parser.base = "derivation" =>
            /\ parser.derived
            /\ parser.request # Nothing =>
                 j \in Asking /\ parser.request = source[j].name
  BY <1>4, <1>5 DEF Based
<1>16. /\ parser.derived <=> d # 0
       /\ parser.derived => parser.derivation = source[d].name
  BY <1>4, <1>5 DEF InForce
<1>17. d # 0 => source'[d].name = source[d].name
  BY <1>2, <1>4, ForceMore
<1> HIDE DEF j, d, W
<1>18. PICK r : /\ r \in LineWritten /\ prepared' = Append(prepared, r)
                /\ Continued(n)' = <<r>> /\ (j \in Asking => d # 0)
  <2>1. CASE /\ parser.base = "direct"
             /\ prepared' = Append(prepared, RecordLine(parser.prefix, line.keys))
    <3>1. RecordLine(parser.prefix, line.keys) \in LineWritten
      <4>1. parser.prefix \in Names
        BY <1>5 DEF ToolTypes, Parsers
      <4> QED BY <1>3, <4>1, WrittenTyped
    <3>2. /\ j \in W' /\ j \notin Asking' /\ j \notin Asking
          /\ source'[j].name = parser.prefix
      BY <1>7, <1>9, <1>10, <1>11, <1>15, <2>1
    <3>3. Continued(n)' = <<RecordLine(parser.prefix, line.keys)>>
      BY <1>2, <1>13, <3>2
    <3> QED BY <2>1, <3>1, <3>2, <3>3
  <2>2. CASE /\ parser.base = "derivation" /\ parser.request # Nothing
             /\ prepared' = Append(prepared, Derived(parser.derivation,
                                                     parser.request, line.keys))
    <3>1. Derived(parser.derivation, parser.request, line.keys) \in LineWritten
      <4>1. parser.derivation \in Names /\ parser.request \in Names \cup {Default}
        BY <1>5 DEF ToolTypes, Parsers
      <4> QED BY <1>3, <4>1, WrittenTyped
    <3>2. /\ j \in Asking' /\ j \notin W' /\ d # 0
          /\ source'[j].name = parser.request /\ source'[d].name = parser.derivation
      BY <1>7, <1>9, <1>10, <1>11, <1>15, <1>16, <1>17, <2>2
    <3>3. Continued(n)' = <<Derived(parser.derivation, parser.request, line.keys)>>
      BY <1>2, <1>13, <3>2
    <3> QED BY <2>2, <3>1, <3>2, <3>3
  <2> QED BY <1>1, <2>1, <2>2
<1>19. prepared' = prepared \o <<r>> /\ <<r>> \in Seq(LineWritten)
  BY <1>5, <1>18, OneLine
<1>20. /\ parser' \in Parsers /\ parser'.skip = FALSE
       /\ parser'.base = parser.base /\ parser'.prefix = parser.prefix
       /\ parser'.request = parser.request /\ parser'.derived = parser.derived
       /\ parser'.derivation = parser.derivation
       /\ parser'.explicit = parser.explicit
  BY <1>1, <1>5 DEF ToolTypes, Parsers, Now
<1>21. InForce'
  BY <1>2, <1>5, <1>6, <1>20, InForceKept
<1>22. Based'
  BY <1>2, <1>5, <1>6, <1>20, BasedKept
<1>23. Says(n)' = <<r>> /\ (LastBefore(n, Continuable) \in Asking => DerivationOf(n) # 0)
  BY <1>14, <1>18 DEF j, d
<1> QED BY <1>2, <1>3, <1>4, <1>6, <1>19, <1>20, <1>21, <1>22, <1>23, StepKeeps

----------------------------------------------------------------------------
(* The preparer: what it writes.                                           *)

\* What looking back finds depends on the lines alone.
LEMMA Unread ==
  ASSUME source' = source
  PROVE  Said' = Said /\ Grounded' = Grounded /\ Skipped' = Skipped
BY DEF Said, Grounded, Skipped, Says, Continued, Unasked, DerivationOf, LastBefore,
       Continuable, Ending, Asking, Deriving, Denied, Plain, TakenAlong, Follows,
       LemmaLine, RecordLine, Derived

\* Without a line there is nothing to look back for.
LEMMA NothingYet ==
  ASSUME source = <<>>
  PROVE  /\ Said = <<>> /\ Grounded /\ ~ Skipped
         /\ DerivationOf(Upcoming) = 0
<1>1. DOMAIN source = {} /\ Len(source) = 0
  OBVIOUS
<1>2. \A T, X : Follows(T, X) = {}
  BY <1>1 DEF Follows
<1>3. \A T : Plain(T) = {}
  BY <1>2 DEF Plain
<1>4. Denied = {} /\ Deriving = {}
  BY <1>2, <1>3 DEF Denied, Deriving
<1>5. Said = <<>>
  BY <1>1 DEF Said
<1>6. Grounded
  BY <1>1 DEF Grounded
<1>7. ~ Skipped
  BY <1>4 DEF Skipped
<1>8. DerivationOf(Upcoming) = 0
  BY <1>4 DEF DerivationOf
<1> QED BY <1>5, <1>6, <1>7, <1>8

\* ToolInv holds initially,
LEMMA ToolInit ==
  ASSUME PInit
  PROVE  ToolInv
<1>1. /\ stage = "reading" /\ parser = Started /\ prepared = <<>> /\ source = <<>>
  BY DEF PInit
<1>2. /\ Said = <<>> /\ Grounded /\ ~ Skipped /\ DerivationOf(Upcoming) = 0
  BY <1>1, NothingYet
<1>3. ToolTypes
  BY <1>1 DEF ToolTypes, Parsers, Started, Names
<1>4. Said \in Seq(Seq(LineWritten)) /\ prepared = FlattenSeq(Said)
  <2>1. FlattenSeq(<<>>) = <<>>
    BY DEF FlattenSeq
  <2> QED BY <1>1, <1>2, <2>1
<1>5. InForce
  BY <1>1, <1>2 DEF InForce, Started
<1>6. Based
  BY <1>1 DEF Based, Started
<1>7. parser.skip <=> Skipped
  BY <1>1, <1>2 DEF Started
<1> QED BY <1>1, <1>2, <1>3, <1>4, <1>5, <1>6, <1>7 DEF ToolInv

\* is kept by every step,
LEMMA ToolNext ==
  ASSUME ToolInv, [PNext]_toolvars
  PROVE  ToolInv'
<1>1. ASSUME NEW line \in Lines,
             \/ ReadSkipped(line) \/ ReadLemma(line) \/ ReadRecord(line)
             \/ ReadContinuation(line) \/ ReadDerivation(line)
             \/ ReadRequest(line)
      PROVE  ToolInv'
  BY <1>1, SkippedKeeps, LemmaKeeps, RecordKeeps, ContinuationKeeps,
     DerivationKeeps, RequestKeeps
<1>2. ASSUME NEW line \in Lines, ReadOther(line)
      PROVE  ToolInv'
  <2>1. Reads(line, "none") /\ line.type = "other" /\ parser' = Now /\ prepared' = prepared
    BY <1>2 DEF ReadOther
  <2>2. ~ Skips(line)
    BY <2>1 DEF Skips
  <2> QED BY <2>1, <2>2, UnheardKeeps
<1>3. ASSUME NEW line \in Lines, NEW kind \in Kinds, ReadExcepted(line, kind)
      PROVE  ToolInv'
  BY <1>3, ExceptedKeeps
<1>4. CASE EndOfFile
  BY <1>4, EndKeeps
<1>5. CASE Write
  <2>1. stage = "reading" /\ stage' = "written" /\ UNCHANGED <<parser, prepared, source>>
    BY <1>5 DEF Write
  <2>2. Said' = Said /\ Grounded' = Grounded
    BY <2>1, Unread
  <2> QED BY <2>1, <2>2 DEF ToolInv, ToolTypes
<1>6. CASE Reject
  <2>1. /\ stage' = "failed" /\ parser' = Started /\ prepared' = <<>> /\ source' = <<>>
    BY <1>6 DEF Reject
  <2>2. ToolTypes'
    BY <2>1 DEF ToolTypes, Parsers, Started, Names
  <2> QED BY <2>1, <2>2 DEF ToolInv
<1>7. CASE Build
  <2>1. stage' \in {"built", "failed"} /\ UNCHANGED <<parser, prepared, source>>
    BY <1>7 DEF Build
  <2> QED BY <2>1 DEF ToolInv, ToolTypes
<1>8. CASE UNCHANGED toolvars
  <2>1. UNCHANGED <<stage, parser, prepared, source>>
    BY <1>8 DEF toolvars
  <2>2. Said' = Said /\ Grounded' = Grounded /\ Skipped' = Skipped
    BY <2>1, Unread
  <2>3. InForce' = InForce /\ Based' = Based
    BY <2>1 DEF InForce, Based, DerivationOf, LastBefore, Upcoming, Continuable,
                Ending, Asking, Deriving, Denied, Plain, TakenAlong, Follows
  <2>4. ToolTypes' = ToolTypes
    BY <2>1 DEF ToolTypes
  <2> QED BY <2>1, <2>2, <2>3, <2>4 DEF ToolInv
<1> QED BY <1>1, <1>2, <1>3, <1>4, <1>5, <1>6, <1>7, <1>8 DEF PNext

\* and so holds throughout.
LEMMA ToolsKeep == Preparation => []ToolInv
<1>1. PInit => ToolInv
  BY ToolInit
<1>2. ToolInv /\ [PNext]_toolvars => ToolInv'
  BY ToolNext
<1> QED BY <1>1, <1>2, PTL DEF Preparation

\* Type correctness of the source tools (prepare_state, the buffers of
\* gener-source-preparer.c).
THEOREM SourcesTyped == Preparation => []ToolTypes
<1>1. ToolInv => ToolTypes
  BY DEF ToolInv
<1> QED BY <1>1, ToolsKeep, PTL

\* PreparedRight: what the preparer writes is what the lines say, each where it
\* stands, for sources of any length and any exceptions to them: no field of
\* the parser outlives the lemma, derivation or file it belongs to
\* (prepare_file, gener-source-preparer.c).
THEOREM SourcesPrepared == Preparation => []PreparedRight
<1>1. ToolInv => PreparedRight
  BY DEF ToolInv, Said, PreparedRight
<1> QED BY <1>1, ToolsKeep, PTL

----------------------------------------------------------------------------
(* Loops.                                                                  *)

\* What holds at first and after each turn if it did before it holds always.
LEMMA Upward ==
  ASSUME NEW N \in Nat, NEW A, 0 \in A, \A n \in 1 .. N : n - 1 \in A => n \in A
  PROVE  \A n \in 0 .. N : n \in A
<1> DEFINE T == {n \in 0 .. N : n \notin A}
<1> SUFFICES ASSUME T # {} PROVE FALSE
  OBVIOUS
<1>1. T \subseteq Nat
  OBVIOUS
<1>2. PICK m \in T : \A y \in T : m <= y
  <2> HIDE DEF T
  <2> QED BY <1>1, Least
<1>3. m \in 1 .. N /\ m - 1 \in 0 .. N /\ m - 1 \notin T /\ m \notin A
  BY <1>2
<1> QED BY <1>3

\* A loop each turn of which keeps to what is right there, and its turns.
Looping(N, Right, F, start) ==
  /\ N \in Nat
  /\ start \in Right[0]
  /\ \A n \in 1 .. N : \A x \in Right[n - 1] : F[n][x] \in Right[n]
Turn(N, Right, F, start, f) ==
  /\ f = [n \in 0 .. N |-> f[n]]
  /\ \A n \in 0 .. N : f[n] \in Right[n]
  /\ f[0] = start
  /\ \A n \in 1 .. N : f[n] = F[n][f[n - 1]]

\* The turns are a function of their number.
LEMMA Turns ==
  ASSUME NEW N, NEW Right, NEW F, NEW start, Looping(N, Right, F, start)
  PROVE  \E f : Turn(N, Right, F, start, f)
<1>5. /\ N \in Nat
      /\ start \in Right[0]
      /\ \A n \in 1 .. N : \A x \in Right[n - 1] : F[n][x] \in Right[n]
  BY DEF Looping
<1> DEFINE All == UNION {Right[n] : n \in 0 .. N}
           Runs(m) == \E f \in [0 .. m -> All] :
                        /\ \A n \in 0 .. m : f[n] \in Right[n]
                        /\ f[0] = start
                        /\ \A n \in 1 .. m : f[n] = F[n][f[n - 1]]
           A == {m \in 0 .. N : Runs(m)}
<1>1. \A n \in 0 .. N : \A x \in Right[n] : x \in All
  OBVIOUS
<1> HIDE DEF All
<1>2. 0 \in A
  <2> DEFINE g == [n \in 0 .. 0 |-> start]
  <2>1. g \in [0 .. 0 -> All] /\ g[0] = start
    BY <1>1, <1>5
  <2>2. \A n \in 0 .. 0 : g[n] \in Right[n]
    BY <1>5
  <2>3. \A n \in 1 .. 0 : g[n] = F[n][g[n - 1]]
    OBVIOUS
  <2> HIDE DEF g
  <2>4. Runs(0)
    BY <2>1, <2>2, <2>3
  <2>5. 0 \in 0 .. N
    BY <1>5
  <2> HIDE DEF Runs
  <2> QED BY <2>4, <2>5
<1>3. ASSUME NEW m \in 1 .. N, m - 1 \in A PROVE m \in A
  <2>1. PICK f \in [0 .. m - 1 -> All] :
          /\ \A n \in 0 .. m - 1 : f[n] \in Right[n]
          /\ f[0] = start
          /\ \A n \in 1 .. m - 1 : f[n] = F[n][f[n - 1]]
    BY <1>3
  <2> DEFINE g == [n \in 0 .. m |-> IF n = m THEN F[m][f[m - 1]] ELSE f[n]]
  <2>2. F[m][f[m - 1]] \in Right[m] /\ F[m][f[m - 1]] \in All
    <3>1. f[m - 1] \in Right[m - 1] /\ m \in 0 .. N
      BY <2>1
    <3> QED BY <1>1, <1>5, <3>1
  <2>3. g \in [0 .. m -> All]
    BY <2>1, <2>2
  <2>4. \A n \in 0 .. m : n = m \/ n \in 0 .. m - 1
    OBVIOUS
  <2>5. \A n \in 0 .. m : g[n] \in Right[n]
    BY <2>1, <2>2, <2>4
  <2>6. g[0] = start
    BY <2>1
  <2>7. ASSUME NEW n \in 1 .. m PROVE g[n] = F[n][g[n - 1]]
    <3>1. n - 1 \in 0 .. m /\ n - 1 # m /\ n \in 0 .. m
      OBVIOUS
    <3>2. g[n - 1] = f[n - 1]
      BY <3>1
    <3>3. CASE n = m
      BY <3>1, <3>2, <3>3
    <3>4. CASE n # m
      <4>1. n \in 1 .. m - 1 /\ g[n] = f[n]
        BY <3>1, <3>4
      <4> QED BY <2>1, <3>2, <4>1
    <3> QED BY <3>3, <3>4
  <2> HIDE DEF g
  <2>8. Runs(m)
    BY <2>3, <2>5, <2>6, <2>7
  <2> QED BY <2>8
<1> HIDE DEF A
<1>4. N \in A
  <2>1. \A n \in 0 .. N : n \in A
    BY <1>2, <1>3, <1>5, Upward
  <2> QED BY <1>5, <2>1
<1>6. PICK f \in [0 .. N -> All] :
        /\ \A n \in 0 .. N : f[n] \in Right[n]
        /\ f[0] = start
        /\ \A n \in 1 .. N : f[n] = F[n][f[n - 1]]
  BY <1>4 DEF A
<1>7. f = [n \in 0 .. N |-> f[n]]
  OBVIOUS
<1> QED BY <1>6, <1>7 DEF Turn

----------------------------------------------------------------------------
(* The builders: numbers in order (InTurn).                                *)

\* s has the numbers of S, in ascending order.
Numbers(s, S) ==
  /\ s \in Seq(Nat \ {0})
  /\ \A j, k \in 1 .. Len(s) : j < k => s[j] < s[k]
  /\ \A x : x \in S <=> \E k \in 1 .. Len(s) : s[k] = x

\* One number more, above the others.
LEMMA NumberMore ==
  ASSUME NEW S, NEW T, NEW n \in Nat \ {0}, NEW s, Numbers(s, S),
         \A x \in S : x < n, \A x : x \in T <=> x \in S \/ x = n
  PROVE  Numbers(Append(s, n), T)
<1> DEFINE t == Append(s, n)
<1>1. s \in Seq(Nat \ {0}) /\ Len(s) \in Nat
  BY DEF Numbers
<1>2. /\ t \in Seq(Nat \ {0}) /\ Len(t) = Len(s) + 1 /\ t[Len(s) + 1] = n
      /\ \A k \in 1 .. Len(s) : t[k] = s[k]
  BY <1>1
<1>3. \A k \in 1 .. Len(t) : k = Len(s) + 1 \/ k \in 1 .. Len(s)
  BY <1>1, <1>2
<1>4. \A k \in 1 .. Len(s) : s[k] \in Nat /\ s[k] < n
  BY <1>1 DEF Numbers
<1> HIDE DEF t
<1>5. ASSUME NEW j \in 1 .. Len(t), NEW k \in 1 .. Len(t), j < k PROVE t[j] < t[k]
  <2>1. j \in 1 .. Len(s)
    BY <1>1, <1>2, <1>5
  <2>2. CASE k = Len(s) + 1
    BY <1>2, <1>4, <2>1, <2>2
  <2>3. CASE k \in 1 .. Len(s)
    BY <1>2, <1>5, <2>1, <2>3 DEF Numbers
  <2> QED BY <1>3, <2>2, <2>3
<1>6. ASSUME NEW x PROVE x \in T <=> \E k \in 1 .. Len(t) : t[k] = x
  <2>1. ASSUME x \in T PROVE \E k \in 1 .. Len(t) : t[k] = x
    <3>1. CASE x = n
      <4>1. Len(s) + 1 \in 1 .. Len(t)
        BY <1>1, <1>2
      <4> QED BY <1>2, <3>1, <4>1
    <3>2. CASE x \in S
      <4>1. PICK k \in 1 .. Len(s) : s[k] = x
        BY <3>2 DEF Numbers
      <4>2. k \in 1 .. Len(t)
        BY <1>1, <1>2
      <4> QED BY <1>2, <4>1, <4>2
    <3> QED BY <2>1, <3>1, <3>2
  <2>2. ASSUME NEW k \in 1 .. Len(t), t[k] = x PROVE x \in T
    <3>1. CASE k = Len(s) + 1
      BY <1>2, <2>2, <3>1
    <3>2. CASE k \in 1 .. Len(s)
      BY <1>2, <2>2, <3>2 DEF Numbers
    <3> QED BY <1>3, <3>1, <3>2
  <2> QED BY <2>1, <2>2
<1>7. Numbers(t, T)
  BY <1>2, <1>5, <1>6 DEF Numbers
<1> QED BY <1>7 DEF t

\* InTurn has the numbers of a set.
LEMMA InTurnRight ==
  ASSUME NEW N \in Nat, NEW S
  PROVE  Numbers(InTurn(N, S), {i \in 1 .. N : i \in S})
<1> DEFINE M[i \in 0 .. N] ==
             IF i = 0 THEN <<>> ELSE IF i \in S THEN Append(M[i - 1], i) ELSE M[i - 1]
           Body(g) ==
             [i \in 0 .. N |->
                IF i = 0 THEN <<>> ELSE IF i \in S THEN Append(g[i - 1], i) ELSE g[i - 1]]
           Up(n) == {i \in 1 .. n : i \in S}
           Step(n, s) == IF n \in S THEN Append(s, n) ELSE s
           Right == [n \in 0 .. N |-> {s \in Seq(Nat \ {0}) : Numbers(s, Up(n))}]
           F == [n \in 1 .. N |-> [s \in Right[n - 1] |-> Step(n, s)]]
<1>1. InTurn(N, S) = M[N]
  BY DEF InTurn
<1>2. M = CHOOSE g : g = Body(g)
  OBVIOUS
<1> HIDE DEF M
<1>3. Numbers(<<>>, Up(0))
  <2>1. <<>> \in Seq(Nat \ {0}) /\ Len(<<>>) = 0 /\ \A x : x \notin Up(0)
    OBVIOUS
  <2> QED BY <2>1 DEF Numbers
<1>4. ASSUME NEW n \in 1 .. N, NEW s, Numbers(s, Up(n - 1))
      PROVE  Numbers(Step(n, s), Up(n))
  <2>1. CASE n \in S
    <3>1. /\ n \in Nat \ {0} /\ \A x \in Up(n - 1) : x < n
          /\ \A x : x \in Up(n) <=> x \in Up(n - 1) \/ x = n
      BY <2>1
    <3> HIDE DEF Up
    <3> QED BY <1>4, <2>1, <3>1, NumberMore
  <2>2. CASE n \notin S
    <3>1. Up(n) = Up(n - 1)
      BY <2>2
    <3> HIDE DEF Up
    <3> QED BY <1>4, <2>2, <3>1
  <2> QED BY <2>1, <2>2
<1>5. \A n \in 0 .. N : \A s : s \in Right[n] <=> Numbers(s, Up(n))
  BY DEF Numbers
<1> HIDE DEF Right, Up
<1>6. \A n \in 1 .. N : \A s \in Right[n - 1] :
         F[n][s] = Step(n, s) /\ F[n][s] \in Right[n]
  <2> SUFFICES ASSUME NEW n \in 1 .. N, NEW s \in Right[n - 1]
               PROVE  F[n][s] = Step(n, s) /\ F[n][s] \in Right[n]
    OBVIOUS
  <2>1. n - 1 \in 0 .. N /\ n \in 0 .. N
    OBVIOUS
  <2>2. F[n][s] = Step(n, s)
    <3> HIDE DEF Step
    <3> QED OBVIOUS
  <2> HIDE DEF F, Step
  <2> QED BY <1>4, <1>5, <2>1, <2>2
<1>7. <<>> \in Right[0]
  BY <1>3, <1>5
<1> HIDE DEF F
<1>8. PICK f : Turn(N, Right, F, <<>>, f)
  <2>1. Looping(N, Right, F, <<>>)
    BY <1>6, <1>7 DEF Looping
  <2> QED BY <2>1, Turns
<1>9. f = Body(f)
  <2>1. \A n \in 0 .. N : f[n] = IF n = 0 THEN <<>> ELSE Step(n, f[n - 1])
    <3> SUFFICES ASSUME NEW n \in 1 .. N PROVE f[n] = Step(n, f[n - 1])
      <4>1. f[0] = <<>> /\ \A n \in 0 .. N : n = 0 \/ n \in 1 .. N
        BY <1>8 DEF Turn
      <4> HIDE DEF Step
      <4> QED BY <4>1
    <3>1. n - 1 \in 0 .. N
      OBVIOUS
    <3>2. f[n - 1] \in Right[n - 1]
      BY <1>8, <3>1 DEF Turn
    <3> HIDE DEF Step
    <3> QED BY <1>6, <1>8, <3>2 DEF Turn
  <2> QED BY <1>8, <2>1 DEF Turn
<1>10. M = Body(M)
  <2> HIDE DEF Body
  <2> QED BY <1>2, <1>9
<1>11. \A n \in 0 .. N : M[n] = IF n = 0 THEN <<>> ELSE Step(n, M[n - 1])
  <2>1. \A n \in 0 .. N : Body(M)[n] = IF n = 0 THEN <<>> ELSE Step(n, M[n - 1])
    OBVIOUS
  <2> HIDE DEF Body, Step
  <2> QED BY <1>10, <2>1, Zenon
<1> DEFINE A == {n \in 0 .. N : Numbers(M[n], Up(n))}
<1>12. 0 \in A
  BY <1>3, <1>11
<1>13. ASSUME NEW n \in 1 .. N, n - 1 \in A PROVE n \in A
  <2>1. M[n] = Step(n, M[n - 1])
    <3> HIDE DEF Step
    <3> QED BY <1>11
  <2> HIDE DEF Step
  <2> QED BY <1>4, <1>13, <2>1
<1>14. N \in A
  <2> HIDE DEF A
  <2>1. \A n \in 0 .. N : n \in A
    BY <1>12, <1>13, Upward
  <2> QED BY <2>1
<1> QED BY <1>1, <1>14 DEF Up

\* There is only one such sequence.
LEMMA OneOrder ==
  ASSUME NEW S, NEW s, NEW t, Numbers(s, S), Numbers(t, S)
  PROVE  s = t
<1>1. s \in Seq(Nat) /\ t \in Seq(Nat) /\ Len(s) \in Nat /\ Len(t) \in Nat
  BY DEF Numbers
<1>2. ASSUME NEW a, NEW b, Numbers(a, S), Numbers(b, S), NEW n \in 1 .. Len(a),
             \A k \in 1 .. n - 1 : k \in 1 .. Len(b) /\ a[k] = b[k]
      PROVE  n \in 1 .. Len(b) /\ b[n] <= a[n]
  <2>1. /\ a \in Seq(Nat) /\ b \in Seq(Nat) /\ Len(a) \in Nat /\ Len(b) \in Nat
        /\ a[n] \in Nat /\ a[n] \in S
    <3>1. a \in Seq(Nat \ {0}) /\ b \in Seq(Nat \ {0})
      BY <1>2 DEF Numbers
    <3>2. \E k \in 1 .. Len(a) : a[k] = a[n]
      BY <1>2
    <3>3. a[n] \in S
      BY <1>2, <3>2, Zenon DEF Numbers
    <3> QED BY <3>1, <3>3
  <2>2. PICK m \in 1 .. Len(b) : b[m] = a[n]
    BY <1>2, <2>1 DEF Numbers
  <2>3. n <= m
    <3> SUFFICES ASSUME m < n PROVE FALSE
      BY <2>1
    <3>1. m \in 1 .. n - 1 /\ m \in 1 .. Len(a)
      BY <2>1
    <3>2. a[m] < a[n] /\ a[m] \in Nat
      BY <1>2, <2>1, <3>1 DEF Numbers
    <3> QED BY <1>2, <2>1, <2>2, <3>1, <3>2
  <2>4. n \in 1 .. Len(b)
    BY <2>1, <2>2, <2>3
  <2>5. b[n] \in Nat /\ b[m] \in Nat
    BY <2>1, <2>2, <2>4
  <2>6. n = m \/ b[n] < b[m]
    BY <1>2, <2>1, <2>2, <2>3, <2>4 DEF Numbers
  <2> QED BY <2>2, <2>4, <2>5, <2>6
<1> DEFINE A == {n \in 0 .. Len(s) : \A k \in 1 .. n : k \in 1 .. Len(t) /\ s[k] = t[k]}
<1>3. 0 \in A
  BY <1>1
<1>4. ASSUME NEW n \in 1 .. Len(s), n - 1 \in A PROVE n \in A
  <2>1. \A k \in 1 .. n - 1 : k \in 1 .. Len(t) /\ s[k] = t[k]
    BY <1>4
  <2>2. n \in 1 .. Len(t) /\ t[n] <= s[n]
    BY <1>2, <2>1
  <2>3. \A k \in 1 .. n - 1 : k \in 1 .. Len(s) /\ t[k] = s[k]
    BY <1>1, <2>1
  <2>4. s[n] <= t[n]
    BY <1>2, <2>2, <2>3
  <2>5. s[n] = t[n]
    BY <1>1, <2>2, <2>4
  <2>6. \A k \in 1 .. n : k = n \/ k \in 1 .. n - 1
    BY <1>1
  <2> QED BY <1>1, <2>1, <2>2, <2>5, <2>6
<1>5. Len(s) \in A
  <2> HIDE DEF A
  <2>1. \A n \in 0 .. Len(s) : n \in A
    BY <1>1, <1>3, <1>4, Upward
  <2> QED BY <1>1, <2>1
<1>6. \A k \in 1 .. Len(s) : k \in 1 .. Len(t) /\ s[k] = t[k]
  BY <1>5
<1>7. Len(t) <= Len(s)
  <2> SUFFICES ASSUME Len(s) < Len(t) PROVE FALSE
    BY <1>1
  <2>1. /\ Len(s) + 1 \in 1 .. Len(t)
        /\ \A k \in 1 .. Len(s) + 1 - 1 : k \in 1 .. Len(s) /\ t[k] = s[k]
    BY <1>1, <1>6
  <2>2. Len(s) + 1 \in 1 .. Len(s)
    BY <1>2, <2>1
  <2> QED BY <1>1, <2>2
<1>8. Len(s) <= Len(t)
  BY <1>1, <1>6
<1>9. Len(s) = Len(t)
  BY <1>1, <1>7, <1>8
<1>10. s = [k \in 1 .. Len(s) |-> s[k]] /\ t = [k \in 1 .. Len(t) |-> t[k]]
  BY <1>1
<1> QED BY <1>6, <1>9, <1>10, Zenon

----------------------------------------------------------------------------
(* The builders: the blocks of the prepared file (parse_source).           *)

\* A prepared file: its first line is a lemma, and lemmas have keys.
PreparedFile(lines) ==
  /\ lines \in Seq(LineWritten)
  /\ lines # <<>> => lines[1].type = "le"
  /\ \A i \in 1 .. Len(lines) :
       lines[i].type = "le" => LemmaKeys[lines[i].name[1]] \in Nat

BlockOf == [lemma : Nat, ordinal : Nat, records : Seq(LineWritten)]

\* The lines that begin a block, and where the one that begins at h[k] ends.
Begins(lines, n) == {i \in 1 .. n : lines[i].type = "le"}
Until(h, k, n) == IF k = Len(h) THEN n ELSE h[k + 1] - 1
BlockAt(lines, i, n, k) ==
  [lemma |-> LemmaKeys[lines[i].name[1]], ordinal |-> k - 1,
   records |-> SubSeq(lines, i + 1, n)]

\* The blocks are what the first n lines say.
Parses(lines, n, blocks, h) ==
  /\ Numbers(h, Begins(lines, n))
  /\ blocks \in Seq(BlockOf) /\ Len(blocks) = Len(h)
  /\ \A k \in 1 .. Len(h) : blocks[k] = BlockAt(lines, h[k], Until(h, k, n), k)

\* The numbers in such a sequence.
LEMMA NumbersIn ==
  ASSUME NEW S, NEW s, Numbers(s, S)
  PROVE  /\ s \in Seq(Nat) /\ Len(s) \in Nat
         /\ \A k \in 1 .. Len(s) : s[k] \in S /\ s[k] \in Nat \ {0}
<1>1. s \in Seq(Nat \ {0})
  BY DEF Numbers
<1>2. ASSUME NEW k \in 1 .. Len(s) PROVE s[k] \in S
  <2>1. \E j \in 1 .. Len(s) : s[j] = s[k]
    OBVIOUS
  <2> QED BY <2>1, Zenon DEF Numbers
<1> QED BY <1>1, <1>2

\* A line with a lemma begins a block,
LEMMA LemmaParsed ==
  ASSUME NEW lines, PreparedFile(lines), NEW n \in 1 .. Len(lines),
         NEW blocks, NEW h, Parses(lines, n - 1, blocks, h), lines[n].type = "le"
  PROVE  Parses(lines, n, Parsed(blocks, lines[n]), Append(h, n))
<1> DEFINE b == BlockAt(lines, n, n, Len(h) + 1)
           bb == Append(blocks, b)
           hh == Append(h, n)
<1>1. /\ lines \in Seq(LineWritten) /\ Len(lines) \in Nat
      /\ LemmaKeys[lines[n].name[1]] \in Nat
  BY DEF PreparedFile
<1>2. /\ blocks \in Seq(BlockOf) /\ Len(blocks) = Len(h)
      /\ Numbers(h, Begins(lines, n - 1))
  BY DEF Parses
<1>3. /\ h \in Seq(Nat) /\ Len(h) \in Nat
      /\ \A k \in 1 .. Len(h) : h[k] \in 1 .. n - 1
  BY <1>2, NumbersIn DEF Begins
<1>4. SubSeq(lines, n + 1, n) = <<>>
  BY SubSeqEmpty
<1>5. Parsed(blocks, lines[n]) = bb
  BY <1>2, <1>4 DEF Parsed, BlockAt
<1>6. b \in BlockOf
  <2>1. <<>> \in Seq(LineWritten) /\ Len(h) + 1 - 1 \in Nat
    BY <1>3
  <2> QED BY <1>1, <1>4, <2>1 DEF BlockOf, BlockAt
<1>7. Numbers(hh, Begins(lines, n))
  <2>1. \A x \in Begins(lines, n - 1) : x < n
    BY DEF Begins
  <2>2. \A x : x \in Begins(lines, n) <=> x \in Begins(lines, n - 1) \/ x = n
    BY DEF Begins
  <2> QED BY <1>2, <2>1, <2>2, NumberMore
<1>8. /\ bb \in Seq(BlockOf) /\ Len(bb) = Len(h) + 1 /\ Len(hh) = Len(h) + 1
      /\ bb[Len(h) + 1] = b /\ hh[Len(h) + 1] = n
      /\ \A k \in 1 .. Len(h) : bb[k] = blocks[k] /\ hh[k] = h[k]
  <2> HIDE DEF b
  <2> QED BY <1>2, <1>3, <1>6
<1> HIDE DEF bb, hh, b
<1>9. ASSUME NEW k \in 1 .. Len(hh)
      PROVE  bb[k] = BlockAt(lines, hh[k], Until(hh, k, n), k)
  <2>1. CASE k = Len(h) + 1
    BY <1>8, <2>1 DEF Until, b
  <2>2. CASE k \in 1 .. Len(h)
    <3>1. Until(hh, k, n) = Until(h, k, n - 1)
      <4>1. CASE k = Len(h)
        <5>1. k # Len(hh) /\ hh[k + 1] = n
          BY <1>3, <1>8, <4>1
        <5> QED BY <4>1, <5>1 DEF Until
      <4>2. CASE k # Len(h)
        <5>1. k # Len(hh) /\ k + 1 \in 1 .. Len(h)
          BY <1>3, <1>8, <2>2, <4>2
        <5>2. hh[k + 1] = h[k + 1]
          BY <1>8, <5>1
        <5> QED BY <4>2, <5>1, <5>2 DEF Until
      <4> QED BY <4>1, <4>2
    <3>2. blocks[k] = BlockAt(lines, h[k], Until(h, k, n - 1), k)
      BY <2>2 DEF Parses
    <3> QED BY <1>8, <2>2, <3>1, <3>2
  <2>3. k = Len(h) + 1 \/ k \in 1 .. Len(h)
    BY <1>3, <1>8
  <2> QED BY <2>1, <2>2, <2>3
<1>10. Parses(lines, n, bb, hh)
  BY <1>7, <1>8, <1>9 DEF Parses
<1> QED BY <1>5, <1>10 DEF hh

\* A block with other records.
LEMMA OtherRecords ==
  ASSUME NEW a \in BlockOf, NEW t \in Seq(LineWritten)
  PROVE  [a EXCEPT !.records = t]
           = [lemma |-> a.lemma, ordinal |-> a.ordinal, records |-> t]
BY DEF BlockOf

\* and a record belongs to the last one.
LEMMA RecordParsed ==
  ASSUME NEW lines, PreparedFile(lines), NEW n \in 1 .. Len(lines),
         NEW blocks, NEW h, Parses(lines, n - 1, blocks, h), lines[n].type # "le"
  PROVE  Parses(lines, n, Parsed(blocks, lines[n]), h)
<1> DEFINE L == Len(h)
           b == BlockAt(lines, h[L], n, L)
<1>1. /\ lines \in Seq(LineWritten) /\ Len(lines) \in Nat /\ lines # <<>>
      /\ lines[n] \in LineWritten
      /\ \A i \in 1 .. Len(lines) :
           lines[i].type = "le" => LemmaKeys[lines[i].name[1]] \in Nat
  BY DEF PreparedFile
<1>2. /\ blocks \in Seq(BlockOf) /\ Len(blocks) = L
      /\ Numbers(h, Begins(lines, n - 1))
  BY DEF Parses
<1>3. /\ h \in Seq(Nat) /\ L \in Nat
      /\ \A k \in 1 .. L : h[k] \in 1 .. n - 1 /\ lines[h[k]].type = "le"
  BY <1>2, NumbersIn DEF Begins
<1>4. L \in 1 .. L
  <2>1. lines[1].type = "le" /\ n # 1
    BY <1>1 DEF PreparedFile
  <2>2. 1 \in Begins(lines, n - 1)
    BY <2>1 DEF Begins
  <2>3. PICK k \in 1 .. Len(h) : h[k] = 1
    BY <1>2, <2>2 DEF Numbers
  <2> QED BY <1>3, <2>3
<1>5. /\ h[L] \in 1 .. n - 1 /\ h[L] \in 1 .. Len(lines)
      /\ LemmaKeys[lines[h[L]].name[1]] \in Nat
  BY <1>1, <1>3, <1>4
<1>6. blocks[L] = BlockAt(lines, h[L], n - 1, L)
  BY <1>4 DEF Parses, Until
<1>7. SubSeq(lines, h[L] + 1, n) = Append(SubSeq(lines, h[L] + 1, n - 1), lines[n])
  <2>1. h[L] + 1 \in 1 .. Len(lines) /\ n \in h[L] + 1 .. Len(lines)
    BY <1>1, <1>5
  <2>2. SubSeq(lines, h[L] + 1, n) = SubSeq(lines, h[L] + 1, n - 1) \o <<lines[n]>>
    BY <1>1, <2>1, SubSeqRecursiveSecond
  <2>3. SubSeq(lines, h[L] + 1, n - 1) \in Seq(LineWritten)
    <3>1. \A i \in h[L] + 1 .. n - 1 : lines[i] \in LineWritten
      BY <1>1, <1>5
    <3> QED BY <1>5, <3>1, SubSeqProperties
  <2>4. PICK s \in Seq(LineWritten) : s = SubSeq(lines, h[L] + 1, n - 1)
    BY <2>3
  <2>5. s \o <<lines[n]>> = Append(s, lines[n])
    BY <1>1
  <2> QED BY <2>2, <2>4, <2>5
<1>8. SubSeq(lines, h[L] + 1, n) \in Seq(LineWritten)
  <2>1. \A i \in h[L] + 1 .. n : lines[i] \in LineWritten
    BY <1>1, <1>5
  <2> QED BY <1>5, <2>1, SubSeqProperties
<1>9. b \in BlockOf
  BY <1>3, <1>4, <1>5, <1>8 DEF BlockOf, BlockAt
<1>10. Parsed(blocks, lines[n]) = [blocks EXCEPT ![L] = b]
  <2>1. b = [blocks[L] EXCEPT !.records = Append(@, lines[n])]
    <3>1. blocks[L] \in BlockOf
      BY <1>2, <1>4
    <3>2. PICK t : t = SubSeq(lines, h[L] + 1, n)
      OBVIOUS
    <3>3. PICK a : a = blocks[L]
      OBVIOUS
    <3>4. /\ a.lemma = LemmaKeys[lines[h[L]].name[1]] /\ a.ordinal = L - 1
          /\ t = Append(a.records, lines[n])
      <4>1. PICK r : r = SubSeq(lines, h[L] + 1, n - 1)
        OBVIOUS
      <4>2. PICK x : x = LemmaKeys[lines[h[L]].name[1]]
        OBVIOUS
      <4>3. a = [lemma |-> x, ordinal |-> L - 1, records |-> r]
        BY <1>6, <3>3, <4>1, <4>2 DEF BlockAt
      <4>4. a.lemma = x /\ a.ordinal = L - 1 /\ a.records = r
        BY <4>3
      <4>5. t = Append(r, lines[n])
        BY <1>7, <3>2, <4>1
      <4> QED BY <4>2, <4>4, <4>5
    <3>5. b = [lemma |-> a.lemma, ordinal |-> a.ordinal, records |-> t]
      BY <3>2, <3>4 DEF BlockAt
    <3>6. [a EXCEPT !.records = t]
            = [lemma |-> a.lemma, ordinal |-> a.ordinal, records |-> t]
      BY <1>8, <3>1, <3>2, <3>3, OtherRecords
    <3> HIDE DEF b
    <3> QED BY <3>3, <3>4, <3>5, <3>6, Zenon
  <2>2. Parsed(blocks, lines[n])
          = [blocks EXCEPT ![Len(blocks)].records = Append(@, lines[n])]
    BY Zenon DEF Parsed
  <2>3. Len(blocks) = L
    BY <1>2
  <2>4. [blocks EXCEPT ![L].records = Append(@, lines[n])]
          = [blocks EXCEPT ![L] = [blocks[L] EXCEPT !.records = Append(@, lines[n])]]
    OBVIOUS
  <2> HIDE DEF b, L
  <2> QED BY <2>1, <2>2, <2>3, <2>4
<1> DEFINE bb == [blocks EXCEPT ![L] = b]
<1>11. /\ bb \in Seq(BlockOf) /\ Len(bb) = L /\ bb[L] = b
       /\ \A k \in 1 .. L : k # L => bb[k] = blocks[k]
  <2> HIDE DEF b
  <2> QED BY <1>2, <1>4, <1>9, ExceptSeq
<1> HIDE DEF bb
<1>12. Begins(lines, n) = Begins(lines, n - 1)
  BY <1>1 DEF Begins
<1>13. ASSUME NEW k \in 1 .. L PROVE bb[k] = BlockAt(lines, h[k], Until(h, k, n), k)
  <2>1. CASE k = L
    BY <1>11, <2>1 DEF Until
  <2>2. CASE k # L
    <3>1. Until(h, k, n) = Until(h, k, n - 1)
      BY <2>2 DEF Until
    <3>2. blocks[k] = BlockAt(lines, h[k], Until(h, k, n - 1), k)
      BY DEF Parses
    <3> QED BY <1>11, <2>2, <3>1, <3>2
  <2> QED BY <2>1, <2>2
<1>14. Parses(lines, n, bb, h)
  BY <1>2, <1>11, <1>12, <1>13 DEF Parses
<1> QED BY <1>10, <1>14 DEF bb

\* So the blocks are what the file says.
LEMMA ParsedRight ==
  ASSUME NEW lines, PreparedFile(lines)
  PROVE  \E h : Parses(lines, Len(lines), parse_source(lines), h)
<1> DEFINE N == Len(lines)
           M[n \in 0 .. Len(lines)] ==
             IF n = 0 THEN <<>> ELSE Parsed(M[n - 1], lines[n])
           Body(g) == [n \in 0 .. Len(lines) |->
                         IF n = 0 THEN <<>> ELSE Parsed(g[n - 1], lines[n])]
           Fits(n, b) == \E h : Parses(lines, n, b, h)
           Right == [n \in 0 .. N |-> {b \in Seq(BlockOf) : Fits(n, b)}]
           F == [n \in 1 .. N |-> [b \in Right[n - 1] |-> Parsed(b, lines[n])]]
<1>1. parse_source(lines) = M[N]
  BY DEF parse_source
<1>2. M = CHOOSE g : g = Body(g)
  OBVIOUS
<1> HIDE DEF M
<1>3. N \in Nat
  BY DEF PreparedFile
<1>4. Fits(0, <<>>)
  <2>1. /\ <<>> \in Seq(Nat \ {0}) /\ <<>> \in Seq(BlockOf) /\ Len(<<>>) = 0
        /\ \A x : x \notin Begins(lines, 0)
    BY DEF Begins
  <2>2. Parses(lines, 0, <<>>, <<>>)
    BY <2>1 DEF Parses, Numbers
  <2> QED BY <2>2
<1>5. ASSUME NEW n \in 1 .. N, NEW b, Fits(n - 1, b) PROVE Fits(n, Parsed(b, lines[n]))
  <2>1. PICK h : Parses(lines, n - 1, b, h)
    BY <1>5
  <2>2. CASE lines[n].type = "le"
    BY <2>1, <2>2, LemmaParsed
  <2>3. CASE lines[n].type # "le"
    BY <2>1, <2>3, RecordParsed
  <2> QED BY <2>2, <2>3
<1>6. \A n \in 0 .. N : \A b : b \in Right[n] <=> Fits(n, b)
  BY DEF Parses
<1> HIDE DEF Right, Fits
<1>7. \A n \in 1 .. N : \A b \in Right[n - 1] :
         F[n][b] = Parsed(b, lines[n]) /\ F[n][b] \in Right[n]
  <2> SUFFICES ASSUME NEW n \in 1 .. N, NEW b \in Right[n - 1]
               PROVE  F[n][b] = Parsed(b, lines[n]) /\ F[n][b] \in Right[n]
    OBVIOUS
  <2>1. n - 1 \in 0 .. N /\ n \in 0 .. N
    BY <1>3
  <2>2. F[n][b] = Parsed(b, lines[n])
    OBVIOUS
  <2> HIDE DEF F
  <2> QED BY <1>5, <1>6, <2>1, <2>2
<1>8. <<>> \in Right[0]
  BY <1>3, <1>4, <1>6
<1> HIDE DEF F
<1>9. PICK f : Turn(N, Right, F, <<>>, f)
  <2>1. Looping(N, Right, F, <<>>)
    BY <1>3, <1>7, <1>8 DEF Looping
  <2> QED BY <2>1, Turns
<1>10. f = Body(f)
  <2>1. \A n \in 0 .. N : f[n] = IF n = 0 THEN <<>> ELSE Parsed(f[n - 1], lines[n])
    <3> SUFFICES ASSUME NEW n \in 1 .. N PROVE f[n] = Parsed(f[n - 1], lines[n])
      <4>1. f[0] = <<>> /\ \A n \in 0 .. N : n = 0 \/ n \in 1 .. N
        BY <1>9 DEF Turn
      <4> QED BY <4>1
    <3>1. n - 1 \in 0 .. N
      BY <1>3
    <3>2. f[n - 1] \in Right[n - 1]
      BY <1>9, <3>1 DEF Turn
    <3> QED BY <1>7, <1>9, <3>2 DEF Turn
  <2> QED BY <1>9, <2>1 DEF Turn
<1>11. M = Body(M)
  <2> HIDE DEF Body
  <2> QED BY <1>2, <1>10
<1>12. \A n \in 0 .. N : M[n] = IF n = 0 THEN <<>> ELSE Parsed(M[n - 1], lines[n])
  <2>1. \A n \in 0 .. N : Body(M)[n] = IF n = 0 THEN <<>> ELSE Parsed(M[n - 1], lines[n])
    OBVIOUS
  <2> HIDE DEF Body
  <2> QED BY <1>11, <2>1, Zenon
<1> DEFINE A == {n \in 0 .. N : Fits(n, M[n])}
<1>13. 0 \in A
  BY <1>3, <1>4, <1>12
<1>14. ASSUME NEW n \in 1 .. N, n - 1 \in A PROVE n \in A
  <2>1. M[n] = Parsed(M[n - 1], lines[n])
    BY <1>12
  <2> QED BY <1>5, <1>14, <2>1
<1>15. N \in A
  <2> HIDE DEF A
  <2>1. \A n \in 0 .. N : n \in A
    BY <1>3, <1>13, <1>14, Upward
  <2> QED BY <1>3, <2>1
<1> QED BY <1>1, <1>15 DEF Fits

----------------------------------------------------------------------------
(* The builders: what qsort leaves (Sorted).                               *)

\* p puts the numbers up to n in an order.
Arranges(p, n, R) ==
  /\ p \in Orders(n)
  /\ \A j, k \in 1 .. n : j < k => <<p[j], p[k]>> \in R

\* One number more can be put in.
LEMMA ArrangeMore ==
  ASSUME NEW n \in Nat \ {0}, NEW R, NEW p, Arranges(p, n - 1, R),
         \A i, j \in 1 .. n : i # j => <<i, j>> \in R \/ <<j, i>> \in R,
         \A i, j, k \in 1 .. n : <<i, j>> \in R /\ <<j, k>> \in R => <<i, k>> \in R
  PROVE  \E g : Arranges(g, n, R)
<1> DEFINE T == {k \in 1 .. n : k = n \/ <<n, p[k]>> \in R}
<1>1. T \subseteq Nat /\ n \in T
  OBVIOUS
<1>2. PICK x \in T : \A y \in T : x <= y
  BY <1>1, Least
<1>3. x \in 1 .. n /\ (x # n => <<n, p[x]>> \in R)
  BY <1>2
<1>4. ASSUME NEW k \in 1 .. n - 1
      PROVE  p[k] \in 1 .. n - 1 /\ p[k] \in 1 .. n /\ p[k] # n /\ k \in 1 .. n /\ k # n
  <2>1. p \in [1 .. n - 1 -> 1 .. n - 1]
    BY DEF Arranges, Orders
  <2>2. p[k] \in 1 .. n - 1
    BY <2>1
  <2> QED BY <2>2
<1>5. ASSUME NEW k \in 1 .. n - 1, k < x PROVE <<p[k], n>> \in R
  <2>1. k \notin T
    BY <1>2, <1>3, <1>5
  <2>2. <<n, p[k]>> \notin R
    BY <1>4, <2>1
  <2> QED BY <1>4, <2>2
<1>6. ASSUME NEW k \in 1 .. n - 1, x <= k PROVE <<n, p[k]>> \in R
  <2>1. x \in 1 .. n - 1 /\ <<n, p[x]>> \in R
    BY <1>3, <1>6
  <2>2. x = k \/ <<p[x], p[k]>> \in R
    BY <1>6, <2>1 DEF Arranges
  <2>3. p[x] \in 1 .. n /\ p[k] \in 1 .. n /\ n \in 1 .. n
    BY <1>4, <2>1
  <2> QED BY <2>1, <2>2, <2>3
<1> HIDE DEF T
<1> DEFINE g == [k \in 1 .. n |-> IF k < x THEN p[k] ELSE IF k = x THEN n ELSE p[k - 1]]
<1>7. /\ \A k \in 1 .. n : k < x => k \in 1 .. n - 1 /\ g[k] = p[k]
      /\ \A k \in 1 .. n : x < k => k - 1 \in 1 .. n - 1 /\ g[k] = p[k - 1]
      /\ g[x] = n
  BY <1>3
<1>8. g \in [1 .. n -> 1 .. n]
  <2> SUFFICES ASSUME NEW k \in 1 .. n
               PROVE  (IF k < x THEN p[k] ELSE IF k = x THEN n ELSE p[k - 1]) \in 1 .. n
    OBVIOUS
  <2>1. CASE k < x
    BY <1>3, <1>4, <2>1
  <2>2. CASE k = x
    BY <2>2
  <2>3. CASE x < k
    <3>1. k - 1 \in 1 .. n - 1
      BY <1>3, <2>3
    <3> QED BY <1>3, <1>4, <2>3, <3>1
  <2> QED BY <1>3, <2>1, <2>2, <2>3
<1> HIDE DEF g
<1>9. ASSUME NEW i \in 1 .. n PROVE \E k \in 1 .. n : g[k] = i
  <2>1. CASE i = n
    BY <1>3, <1>7, <2>1
  <2>2. CASE i # n
    <3>1. i \in 1 .. n - 1
      BY <2>2
    <3>2. PICK k \in 1 .. n - 1 : p[k] = i
      BY <3>1 DEF Arranges, Orders
    <3>3. CASE k < x
      <4>1. k \in 1 .. n
        BY <3>2
      <4> QED BY <1>7, <3>2, <3>3, <4>1
    <3>4. CASE x <= k
      <4>1. k + 1 \in 1 .. n /\ x < k + 1 /\ k + 1 - 1 = k
        BY <1>3, <3>2, <3>4
      <4>2. g[k + 1] = p[k]
        BY <1>7, <4>1
      <4> QED BY <3>2, <4>1, <4>2
    <3> QED BY <1>3, <3>2, <3>3, <3>4
  <2> QED BY <2>1, <2>2
<1>10. ASSUME NEW j \in 1 .. n, NEW k \in 1 .. n, j < k PROVE <<g[j], g[k]>> \in R
  <2>1. CASE k < x
    <3>1. j < x /\ j \in 1 .. n - 1 /\ k \in 1 .. n - 1
      BY <1>3, <1>10, <2>1
    <3>2. <<p[j], p[k]>> \in R
      BY <1>10, <3>1 DEF Arranges
    <3> QED BY <1>7, <2>1, <3>1, <3>2
  <2>2. CASE k = x
    <3>1. j < x /\ j \in 1 .. n - 1
      BY <1>3, <1>10, <2>2
    <3> QED BY <1>5, <1>7, <2>2, <3>1
  <2>3. CASE x < k
    <3>1. k - 1 \in 1 .. n - 1 /\ g[k] = p[k - 1] /\ x <= k - 1
      BY <1>3, <1>7, <2>3
    <3>2. CASE j < x
      <4>1. j \in 1 .. n - 1 /\ g[j] = p[j] /\ j < k - 1
        BY <1>3, <1>7, <3>1, <3>2
      <4> QED BY <3>1, <4>1 DEF Arranges
    <3>3. CASE j = x
      BY <1>6, <1>7, <3>1, <3>3
    <3>4. CASE x < j
      <4>1. j - 1 \in 1 .. n - 1 /\ g[j] = p[j - 1] /\ j - 1 < k - 1
        BY <1>3, <1>7, <1>10, <3>4
      <4> QED BY <3>1, <4>1 DEF Arranges
    <3> QED BY <1>3, <3>2, <3>3, <3>4
  <2> QED BY <1>3, <2>1, <2>2, <2>3
<1> QED BY <1>8, <1>9, <1>10 DEF Arranges, Orders

\* So the numbers can be put into any order that is total.
LEMMA Arranged ==
  ASSUME NEW N \in Nat, NEW R,
         \A i, j \in 1 .. N : i # j => <<i, j>> \in R \/ <<j, i>> \in R,
         \A i, j, k \in 1 .. N : <<i, j>> \in R /\ <<j, k>> \in R => <<i, k>> \in R
  PROVE  \E p : Arranges(p, N, R)
<1> DEFINE A == {n \in 0 .. N : \E p : Arranges(p, n, R)}
<1>1. 0 \in A
  <2> DEFINE p == [k \in 1 .. 0 |-> k]
  <2>1. p \in [1 .. 0 -> 1 .. 0]
    OBVIOUS
  <2>2. Arranges(p, 0, R)
    <3> HIDE DEF p
    <3> QED BY <2>1 DEF Arranges, Orders
  <2> HIDE DEF p
  <2> QED BY <2>2
<1>2. ASSUME NEW n \in 1 .. N, n - 1 \in A PROVE n \in A
  <2>1. PICK p : Arranges(p, n - 1, R)
    BY <1>2
  <2>2. n \in Nat \ {0} /\ \A i \in 1 .. n : i \in 1 .. N
    OBVIOUS
  <2>3. /\ \A i, j \in 1 .. n : i # j => <<i, j>> \in R \/ <<j, i>> \in R
        /\ \A i, j, k \in 1 .. n : <<i, j>> \in R /\ <<j, k>> \in R => <<i, k>> \in R
    BY <2>2
  <2>4. \E g : Arranges(g, n, R)
    BY <2>1, <2>2, <2>3, ArrangeMore
  <2> QED BY <2>4
<1>3. N \in A
  <2> HIDE DEF A
  <2>1. \A n \in 0 .. N : n \in A
    BY <1>1, <1>2, Upward
  <2> QED BY <2>1
<1> QED BY <1>3

\* The blocks as they stand in the sources.
InSourceOrder(blocks) ==
  /\ blocks \in Seq(BlockOf)
  /\ \A j, k \in 1 .. Len(blocks) : j < k => blocks[j].ordinal < blocks[k].ordinal

\* The fields of a block.
LEMMA BlockFields ==
  ASSUME NEW blocks \in Seq(BlockOf), NEW k \in 1 .. Len(blocks)
  PROVE  /\ blocks[k] \in BlockOf
         /\ blocks[k].lemma \in Nat /\ blocks[k].ordinal \in Nat
         /\ blocks[k].records \in Seq(LineWritten)
<1>1. blocks[k] \in BlockOf
  OBVIOUS
<1>2. \A b \in BlockOf : /\ b.lemma \in Nat /\ b.ordinal \in Nat
                         /\ b.records \in Seq(LineWritten)
  BY DEF BlockOf
<1> QED BY <1>1, <1>2

\* Sorted puts them into the order of compare_blocks, all of them.
LEMMA SortedRight ==
  ASSUME NEW blocks, InSourceOrder(blocks)
  PROVE  \E p \in Orders(Len(blocks)) :
           /\ Sorted(blocks) = At(blocks, p)
           /\ \A j, k \in 1 .. Len(blocks) :
                j < k => compare_blocks(blocks[p[j]], blocks[p[k]])
<1> DEFINE N == Len(blocks)
           R == {e \in (1 .. N) \X (1 .. N) : compare_blocks(blocks[e[1]], blocks[e[2]])}
           Right(p) == \A j, k \in DOMAIN blocks :
                         j < k => compare_blocks(blocks[p[j]], blocks[p[k]])
<1>1. blocks \in Seq(BlockOf) /\ N \in Nat /\ DOMAIN blocks = 1 .. N
  BY DEF InSourceOrder
<1>2. \A i, j \in 1 .. N : <<i, j>> \in R <=> compare_blocks(blocks[i], blocks[j])
  OBVIOUS
<1> HIDE DEF R
<1>3. \A i \in 1 .. N : blocks[i].lemma \in Nat /\ blocks[i].ordinal \in Nat
  BY <1>1, BlockFields
<1>4. ASSUME NEW i \in 1 .. N, NEW j \in 1 .. N, i # j
      PROVE  <<i, j>> \in R \/ <<j, i>> \in R
  <2>1. blocks[i].ordinal < blocks[j].ordinal \/ blocks[j].ordinal < blocks[i].ordinal
    <3>1. i < j \/ j < i
      BY <1>1, <1>4
    <3> QED BY <3>1 DEF InSourceOrder
  <2>2. compare_blocks(blocks[i], blocks[j]) \/ compare_blocks(blocks[j], blocks[i])
    BY <1>3, <2>1 DEF compare_blocks
  <2> QED BY <1>2, <2>2
<1>5. ASSUME NEW i \in 1 .. N, NEW j \in 1 .. N, NEW k \in 1 .. N,
             <<i, j>> \in R, <<j, k>> \in R
      PROVE  <<i, k>> \in R
  <2>1. compare_blocks(blocks[i], blocks[j]) /\ compare_blocks(blocks[j], blocks[k])
    BY <1>2, <1>5
  <2>2. compare_blocks(blocks[i], blocks[k])
    BY <1>3, <2>1 DEF compare_blocks
  <2> QED BY <1>2, <2>2
<1>6. PICK q : Arranges(q, N, R)
  BY <1>1, <1>4, <1>5, Arranged
<1>7. q \in Orders(N) /\ Right(q)
  <2>1. q \in Orders(N) /\ \A j \in 1 .. N : q[j] \in 1 .. N
    BY <1>6 DEF Arranges, Orders
  <2>2. ASSUME NEW j \in 1 .. N, NEW k \in 1 .. N, j < k
        PROVE  compare_blocks(blocks[q[j]], blocks[q[k]])
    <3>1. <<q[j], q[k]>> \in R
      BY <1>6, <2>2 DEF Arranges
    <3> QED BY <1>2, <2>1, <3>1
  <2> QED BY <1>1, <2>1, <2>2
<1> DEFINE p == CHOOSE p \in Orders(N) : Right(p)
<1>8. p \in Orders(N) /\ Right(p)
  <2> HIDE DEF Right
  <2> QED BY <1>7
<1>9. Sorted(blocks) = At(blocks, p)
  BY DEF Sorted
<1> HIDE DEF p
<1> QED BY <1>1, <1>8, <1>9

----------------------------------------------------------------------------
(* The builders: which blocks are kept (discard_duplicate_blocks).         *)

\* What a sequence has at some places.
LEMMA AtPlaces ==
  ASSUME NEW T, NEW s \in Seq(T), NEW g \in Seq(Nat),
         \A k \in 1 .. Len(g) : g[k] \in 1 .. Len(s)
  PROVE  /\ At(s, g) \in Seq(T) /\ Len(At(s, g)) = Len(g)
         /\ \A k \in 1 .. Len(g) : At(s, g)[k] = s[g[k]]
<1>1. Len(g) \in Nat /\ DOMAIN g = 1 .. Len(g)
  OBVIOUS
<1>2. At(s, g) = [k \in 1 .. Len(g) |-> s[g[k]]]
  BY <1>1 DEF At
<1>3. \A k \in 1 .. Len(g) : s[g[k]] \in T
  OBVIOUS
<1> QED BY <1>1, <1>2, <1>3

\* Blocks in the order of the file, and those that repeat no earlier one.
InOrder(blocks) ==
  /\ blocks \in Seq(BlockOf)
  /\ \A j, k \in 1 .. Len(blocks) : j < k => compare_blocks(blocks[j], blocks[k])
Unlike(blocks, n) ==
  {i \in 1 .. n : \A p \in 1 .. i - 1 : ~ same_block(blocks[p], blocks[i])}

\* The lemmas of such blocks ascend.
LEMMA LemmasAscend ==
  ASSUME NEW blocks, InOrder(blocks), NEW j \in 1 .. Len(blocks),
         NEW k \in 1 .. Len(blocks), j <= k
  PROVE  blocks[j].lemma <= blocks[k].lemma
<1>1. blocks[j].lemma \in Nat /\ blocks[k].lemma \in Nat
  BY BlockFields DEF InOrder
<1>2. CASE j = k
  BY <1>1, <1>2
<1>3. CASE j < k
  BY <1>1, <1>3 DEF InOrder, compare_blocks
<1> QED BY <1>2, <1>3

\* The search back from the last block meets every block of the lemma.
LEMMA SearchedBack ==
  ASSUME NEW earlier \in Seq(BlockOf), NEW b \in BlockOf,
         \A j, k \in 1 .. Len(earlier) : j < k => earlier[j].lemma <= earlier[k].lemma,
         \A k \in 1 .. Len(earlier) : earlier[k].lemma <= b.lemma
  PROVE  Repeats(earlier, b) <=> \E p \in 1 .. Len(earlier) : same_block(earlier[p], b)
<1>1. DOMAIN earlier = 1 .. Len(earlier) /\ Len(earlier) \in Nat
  OBVIOUS
<1>2. ASSUME NEW p \in 1 .. Len(earlier), same_block(earlier[p], b),
             NEW q \in p .. Len(earlier)
      PROVE  earlier[q].lemma = b.lemma
  <2>1. q \in 1 .. Len(earlier)
    BY <1>1
  <2>2. /\ earlier[p].lemma \in Nat /\ earlier[q].lemma \in Nat /\ b.lemma \in Nat
    BY <2>1, BlockFields DEF BlockOf
  <2>3. earlier[p].lemma = b.lemma
    BY <1>2 DEF same_block
  <2>4. p = q \/ earlier[p].lemma <= earlier[q].lemma
    BY <1>1, <2>1
  <2>5. earlier[q].lemma <= b.lemma
    BY <2>1
  <2> QED BY <2>2, <2>3, <2>4, <2>5
<1> QED BY <1>1, <1>2 DEF Repeats

\* Compared with all blocks before it (gener-index.js), a block is kept if it
\* is unlike them.
LEMMA FilteredRight ==
  ASSUME NEW blocks, InOrder(blocks)
  PROVE  \E g : Numbers(g, Unlike(blocks, Len(blocks))) /\ filtered(blocks) = At(blocks, g)
<1> DEFINE N == Len(blocks)
           S == {i \in DOMAIN blocks : ~ Repeats(SubSeq(blocks, 1, i - 1), blocks[i])}
<1>1. blocks \in Seq(BlockOf) /\ N \in Nat /\ DOMAIN blocks = 1 .. N
  BY DEF InOrder
<1>2. ASSUME NEW i \in 1 .. N
      PROVE  Repeats(SubSeq(blocks, 1, i - 1), blocks[i])
               <=> \E p \in 1 .. i - 1 : same_block(blocks[p], blocks[i])
  <2>1. PICK e : e = SubSeq(blocks, 1, i - 1)
    OBVIOUS
  <2>2. /\ e \in Seq(BlockOf) /\ Len(e) = i - 1
        /\ \A k \in 1 .. i - 1 : e[k] = blocks[k]
    <3>1. \A k \in 1 .. i - 1 : blocks[k] \in BlockOf
      BY <1>1
    <3>2. i - 1 - 1 + 1 = i - 1 /\ (1 <= i - 1 \/ i - 1 = 0)
          /\ \A k \in 1 .. i - 1 : 1 + k - 1 = k
      OBVIOUS
    <3> QED BY <2>1, <3>1, <3>2, SubSeqProperties
  <2>3. \A k \in 1 .. i - 1 : k \in 1 .. N /\ k <= i
    BY <1>1
  <2>4. \A j, k \in 1 .. i - 1 : j < k => e[j].lemma <= e[k].lemma
    BY <2>2, <2>3, LemmasAscend
  <2>5. \A k \in 1 .. i - 1 : e[k].lemma <= blocks[i].lemma
    BY <2>2, <2>3, LemmasAscend
  <2>6. blocks[i] \in BlockOf
    BY <1>1
  <2>7. Repeats(e, blocks[i]) <=> \E p \in 1 .. i - 1 : same_block(e[p], blocks[i])
    BY <2>2, <2>4, <2>5, <2>6, SearchedBack
  <2> QED BY <2>1, <2>2, <2>7
<1>3. {i \in 1 .. N : i \in S} = Unlike(blocks, N)
  BY <1>1, <1>2 DEF Unlike
<1> HIDE DEF S
<1>4. Numbers(InTurn(N, S), Unlike(blocks, N))
  BY <1>1, <1>3, InTurnRight
<1>5. filtered(blocks) = At(blocks, InTurn(N, S))
  BY DEF filtered, S
<1> QED BY <1>4, <1>5

\* A block is like an earlier one exactly if it is like one that was kept.
LEMMA LikeKept ==
  ASSUME NEW blocks, InOrder(blocks), NEW n \in 1 .. Len(blocks),
         NEW g, Numbers(g, Unlike(blocks, n - 1))
  PROVE  Repeats(At(blocks, g), blocks[n])
           <=> \E p \in 1 .. n - 1 : same_block(blocks[p], blocks[n])
<1>1. blocks \in Seq(BlockOf) /\ Len(blocks) \in Nat /\ blocks[n] \in BlockOf
  BY DEF InOrder
<1>2. /\ g \in Seq(Nat) /\ Len(g) \in Nat
      /\ \A k \in 1 .. Len(g) : g[k] \in 1 .. n - 1 /\ g[k] \in 1 .. Len(blocks)
  <2>1. \A x \in Unlike(blocks, n - 1) : x \in 1 .. n - 1 /\ x \in 1 .. Len(blocks)
    BY <1>1 DEF Unlike
  <2> QED BY <2>1, NumbersIn
<1>3. PICK e : e = At(blocks, g)
  OBVIOUS
<1>4. /\ e \in Seq(BlockOf) /\ Len(e) = Len(g)
      /\ \A k \in 1 .. Len(g) : e[k] = blocks[g[k]]
  BY <1>1, <1>2, <1>3, AtPlaces
<1>5. \A j, k \in 1 .. Len(g) : j < k => e[j].lemma <= e[k].lemma
  <2> SUFFICES ASSUME NEW j \in 1 .. Len(g), NEW k \in 1 .. Len(g), j < k
               PROVE  e[j].lemma <= e[k].lemma
    OBVIOUS
  <2>1. g[j] < g[k]
    BY DEF Numbers
  <2>2. g[j] \in 1 .. Len(blocks) /\ g[k] \in 1 .. Len(blocks) /\ g[j] <= g[k]
    BY <1>2, <2>1
  <2> QED BY <1>4, <2>2, LemmasAscend
<1>6. ASSUME NEW k \in 1 .. Len(g) PROVE e[k].lemma <= blocks[n].lemma
  <2>1. g[k] \in 1 .. Len(blocks) /\ g[k] <= n
    BY <1>2
  <2> QED BY <1>4, <2>1, LemmasAscend
<1>7. Repeats(e, blocks[n]) <=> \E p \in 1 .. Len(g) : same_block(e[p], blocks[n])
  BY <1>1, <1>4, <1>5, <1>6, SearchedBack
<1>8. ASSUME NEW p \in 1 .. n - 1, same_block(blocks[p], blocks[n])
      PROVE  \E k \in 1 .. Len(g) : same_block(e[k], blocks[n])
  <2> DEFINE T == {q \in 1 .. n - 1 : same_block(blocks[q], blocks[n])}
  <2>1. T \subseteq Nat /\ p \in T
    BY <1>8
  <2>2. PICK q \in T : \A y \in T : q <= y
    BY <2>1, Least
  <2>3. q \in 1 .. n - 1 /\ same_block(blocks[q], blocks[n])
    OBVIOUS
  <2>4. ASSUME NEW r \in 1 .. q - 1, same_block(blocks[r], blocks[q]) PROVE FALSE
    <3>1. same_block(blocks[r], blocks[n])
      BY <2>3, <2>4 DEF same_block
    <3>2. r \in T
      BY <2>3, <3>1
    <3> QED BY <2>2, <2>3, <3>2
  <2>5. q \in Unlike(blocks, n - 1)
    BY <2>3, <2>4 DEF Unlike
  <2>6. PICK k \in 1 .. Len(g) : g[k] = q
    BY <2>5 DEF Numbers
  <2> QED BY <1>4, <2>3, <2>6
<1>9. ASSUME NEW k \in 1 .. Len(g), same_block(e[k], blocks[n])
      PROVE  \E p \in 1 .. n - 1 : same_block(blocks[p], blocks[n])
  BY <1>2, <1>4, <1>9
<1> QED BY <1>3, <1>7, <1>8, <1>9

\* Compared with those that are kept (gener-index-builder.c), so is it.
LEMMA KeptRight ==
  ASSUME NEW blocks, InOrder(blocks)
  PROVE  \E g : /\ Numbers(g, Unlike(blocks, Len(blocks)))
                /\ discard_duplicate_blocks(blocks) = At(blocks, g)
<1> DEFINE N == Len(blocks)
           Step(n, kept) == IF Repeats(kept, blocks[n]) THEN kept
                            ELSE Append(kept, blocks[n])
           M[n \in 0 .. Len(blocks)] ==
             IF n = 0 THEN <<>>
             ELSE IF Repeats(M[n - 1], blocks[n]) THEN M[n - 1]
             ELSE Append(M[n - 1], blocks[n])
           Body(f) == [n \in 0 .. Len(blocks) |->
             IF n = 0 THEN <<>>
             ELSE IF Repeats(f[n - 1], blocks[n]) THEN f[n - 1]
             ELSE Append(f[n - 1], blocks[n])]
           Fits(n, b) == \E g : Numbers(g, Unlike(blocks, n)) /\ b = At(blocks, g)
           Right == [n \in 0 .. N |-> {b \in Seq(BlockOf) : Fits(n, b)}]
           F == [n \in 1 .. N |-> [b \in Right[n - 1] |-> Step(n, b)]]
<1>1. discard_duplicate_blocks(blocks) = M[N]
  BY DEF discard_duplicate_blocks
<1>2. M = CHOOSE g : g = Body(g)
  OBVIOUS
<1> HIDE DEF M
<1>3. N \in Nat /\ blocks \in Seq(BlockOf) /\ \A n \in 1 .. N : blocks[n] \in BlockOf
  BY DEF InOrder
<1>4. ASSUME NEW n \in 0 .. N, NEW g, Numbers(g, Unlike(blocks, n))
      PROVE  /\ g \in Seq(Nat) /\ \A k \in 1 .. Len(g) : g[k] \in 1 .. n /\ g[k] \in 1 .. N
             /\ At(blocks, g) \in Seq(BlockOf) /\ Len(At(blocks, g)) = Len(g)
             /\ \A k \in 1 .. Len(g) : At(blocks, g)[k] = blocks[g[k]]
  <2>1. \A x \in Unlike(blocks, n) : x \in 1 .. n /\ x \in 1 .. N
    BY <1>3 DEF Unlike
  <2>2. g \in Seq(Nat) /\ \A k \in 1 .. Len(g) : g[k] \in 1 .. n /\ g[k] \in 1 .. N
    BY <1>4, <2>1, NumbersIn
  <2> QED BY <1>3, <2>2, AtPlaces
<1>5. Fits(0, <<>>)
  <2>1. /\ <<>> \in Seq(Nat \ {0}) /\ Len(<<>>) = 0 /\ DOMAIN <<>> = {}
        /\ \A x : x \notin Unlike(blocks, 0)
    BY DEF Unlike
  <2>2. Numbers(<<>>, Unlike(blocks, 0))
    BY <2>1 DEF Numbers
  <2>3. At(blocks, <<>>) \in Seq(BlockOf) /\ Len(At(blocks, <<>>)) = 0
    <3>1. 0 \in 0 .. N
      BY <1>3
    <3> QED BY <1>4, <2>1, <2>2, <3>1
  <2>4. At(blocks, <<>>) = <<>>
    BY <2>3, NoElement
  <2> QED BY <2>2, <2>4
<1>6. ASSUME NEW n \in 1 .. N, NEW b, Fits(n - 1, b) PROVE Fits(n, Step(n, b))
  <2>1. PICK g : Numbers(g, Unlike(blocks, n - 1)) /\ b = At(blocks, g)
    BY <1>6
  <2>2. n - 1 \in 0 .. N
    BY <1>3
  <2>3. /\ g \in Seq(Nat) /\ Len(g) \in Nat
        /\ \A k \in 1 .. Len(g) : g[k] \in 1 .. n - 1 /\ g[k] \in 1 .. N
        /\ b \in Seq(BlockOf) /\ Len(b) = Len(g)
        /\ \A k \in 1 .. Len(g) : b[k] = blocks[g[k]]
    <3>1. \A k \in 1 .. Len(g) : g[k] \in 1 .. n - 1 /\ g[k] \in 1 .. N
      BY <1>4, <2>1, <2>2
    <3> QED BY <1>4, <2>1, <2>2, <3>1
  <2>4. Repeats(b, blocks[n]) <=> \E p \in 1 .. n - 1 : same_block(blocks[p], blocks[n])
    BY <2>1, LikeKept
  <2>5. CASE Repeats(b, blocks[n])
    <3>1. Unlike(blocks, n) = Unlike(blocks, n - 1)
      BY <2>4, <2>5 DEF Unlike
    <3> QED BY <2>1, <2>5, <3>1
  <2>6. CASE ~ Repeats(b, blocks[n])
    <3>1. /\ \A x \in Unlike(blocks, n - 1) : x < n
          /\ \A x : x \in Unlike(blocks, n) <=> x \in Unlike(blocks, n - 1) \/ x = n
      BY <2>4, <2>6 DEF Unlike
    <3>2. Numbers(Append(g, n), Unlike(blocks, n))
      BY <2>1, <3>1, NumberMore
    <3>3. PICK gg : gg = Append(g, n)
      OBVIOUS
    <3>4. PICK bb : bb = Append(b, blocks[n])
      OBVIOUS
    <3>5. /\ gg \in Seq(Nat) /\ Len(gg) = Len(g) + 1 /\ gg[Len(g) + 1] = n
          /\ \A k \in 1 .. Len(g) : gg[k] = g[k]
      BY <2>3, <3>3
    <3>6. /\ bb \in Seq(BlockOf) /\ Len(bb) = Len(g) + 1 /\ bb[Len(g) + 1] = blocks[n]
          /\ \A k \in 1 .. Len(g) : bb[k] = b[k]
      BY <1>3, <2>3, <3>4
    <3>7. /\ At(blocks, gg) \in Seq(BlockOf) /\ Len(At(blocks, gg)) = Len(gg)
          /\ \A k \in 1 .. Len(gg) : At(blocks, gg)[k] = blocks[gg[k]]
      <4>1. n \in 0 .. N
        BY <1>3
      <4> QED BY <1>4, <3>2, <3>3, <4>1
    <3>8. \A k \in 1 .. Len(gg) : At(blocks, gg)[k] = bb[k]
      <4> SUFFICES ASSUME NEW k \in 1 .. Len(gg) PROVE At(blocks, gg)[k] = bb[k]
        OBVIOUS
      <4>1. k = Len(g) + 1 \/ k \in 1 .. Len(g)
        BY <2>3, <3>5
      <4> QED BY <2>3, <3>5, <3>6, <3>7, <4>1
    <3>9. At(blocks, gg) = bb
      BY <3>5, <3>6, <3>7, <3>8, SeqEqual
    <3> QED BY <2>6, <3>2, <3>3, <3>4, <3>9
  <2> HIDE DEF Fits
  <2> QED BY <2>5, <2>6
<1>7. \A n \in 0 .. N : \A b : b \in Right[n] <=> Fits(n, b)
  BY <1>4
<1> HIDE DEF Right, Fits
<1>8. \A n \in 1 .. N : \A b \in Right[n - 1] :
         F[n][b] = Step(n, b) /\ F[n][b] \in Right[n]
  <2> SUFFICES ASSUME NEW n \in 1 .. N, NEW b \in Right[n - 1]
               PROVE  F[n][b] = Step(n, b) /\ F[n][b] \in Right[n]
    OBVIOUS
  <2>1. n - 1 \in 0 .. N /\ n \in 0 .. N
    BY <1>3
  <2> HIDE DEF Step
  <2>2. F[n][b] = Step(n, b)
    OBVIOUS
  <2> HIDE DEF F
  <2> QED BY <1>6, <1>7, <2>1, <2>2
<1>9. <<>> \in Right[0]
  BY <1>3, <1>5, <1>7
<1> HIDE DEF F
<1>10. PICK f : Turn(N, Right, F, <<>>, f)
  <2>1. Looping(N, Right, F, <<>>)
    BY <1>3, <1>8, <1>9 DEF Looping
  <2> QED BY <2>1, Turns
<1>11. f = Body(f)
  <2>1. \A n \in 0 .. N : f[n] = IF n = 0 THEN <<>> ELSE Step(n, f[n - 1])
    <3> SUFFICES ASSUME NEW n \in 1 .. N PROVE f[n] = Step(n, f[n - 1])
      <4>1. f[0] = <<>> /\ \A n \in 0 .. N : n = 0 \/ n \in 1 .. N
        BY <1>10 DEF Turn
      <4> HIDE DEF Step
      <4> QED BY <4>1
    <3>1. n - 1 \in 0 .. N
      BY <1>3
    <3>2. f[n - 1] \in Right[n - 1]
      BY <1>10, <3>1 DEF Turn
    <3> HIDE DEF Step
    <3> QED BY <1>8, <1>10, <3>2 DEF Turn
  <2> QED BY <1>10, <2>1 DEF Turn
<1>12. M = Body(M)
  <2> HIDE DEF Body
  <2> QED BY <1>2, <1>11
<1>13. \A n \in 0 .. N : M[n] = IF n = 0 THEN <<>> ELSE Step(n, M[n - 1])
  <2>1. \A n \in 0 .. N : Body(M)[n] = IF n = 0 THEN <<>> ELSE Step(n, M[n - 1])
    OBVIOUS
  <2> HIDE DEF Body, Step
  <2> QED BY <1>12, <2>1, Zenon
<1> DEFINE A == {n \in 0 .. N : Fits(n, M[n])}
<1>14. 0 \in A
  BY <1>3, <1>5, <1>13
<1>15. ASSUME NEW n \in 1 .. N, n - 1 \in A PROVE n \in A
  <2>1. M[n] = Step(n, M[n - 1])
    <3> HIDE DEF Step
    <3> QED BY <1>13
  <2> HIDE DEF Step
  <2> QED BY <1>6, <1>15, <2>1
<1>16. N \in A
  <2> HIDE DEF A
  <2>1. \A n \in 0 .. N : n \in A
    BY <1>3, <1>14, <1>15, Upward
  <2> QED BY <1>3, <2>1
<1> QED BY <1>1, <1>16 DEF Fits

----------------------------------------------------------------------------
(* The builders: the tables of the file (Layout).                          *)

\* Blocks as they are written: in order, none without a record.
Writable(blocks) ==
  InOrder(blocks) /\ \A k \in 1 .. Len(blocks) : blocks[k].records # <<>>

\* The blocks that begin a lemma; where the k-th lemma ends.
RunStarts(blocks) ==
  {i \in 1 .. Len(blocks) : i = 1 \/ blocks[i - 1].lemma # blocks[i].lemma}
EndOf(g, k, n) == IF k = Len(g) THEN n + 1 ELSE g[k + 1]

\* w[i] are the records of the first i blocks.
Writes(blocks, w) ==
  /\ w \in [0 .. Len(blocks) -> Seq(LineWritten)]
  /\ w[0] = <<>>
  /\ \A i \in 1 .. Len(blocks) : w[i] = Cat(w[i - 1], blocks[i].records)

LemmaTable(blocks, g) ==
  [k \in 1 .. Len(g) |->
     [key |-> blocks[g[k]].lemma, first_block |-> g[k] - 1,
      block_count |-> EndOf(g, k, Len(blocks)) - g[k]]]
BlockTable(blocks, w) ==
  [i \in 1 .. Len(blocks) |->
     [first_record |-> Len(w[i - 1]), record_count |-> Len(blocks[i].records)]]
LayoutOf(blocks, g, w) ==
  [file |-> [sound |-> TRUE, lemmas |-> LemmaTable(blocks, g),
             blocks |-> BlockTable(blocks, w), records |-> Len(w[Len(blocks)])],
   records |-> w[Len(blocks)]]

\* The records are written one block after the other.
LEMMA WrittenIs ==
  ASSUME NEW blocks \in Seq(BlockOf), NEW M,
         M = CHOOSE f : f = [i \in 0 .. Len(blocks) |->
               IF i = 0 THEN <<>> ELSE f[i - 1] \o blocks[i].records]
  PROVE  Writes(blocks, M)
<1> DEFINE N == Len(blocks)
           Body(f) == [i \in 0 .. Len(blocks) |->
                         IF i = 0 THEN <<>> ELSE f[i - 1] \o blocks[i].records]
           Right == [n \in 0 .. N |-> Seq(LineWritten)]
           F == [n \in 1 .. N |-> [s \in Seq(LineWritten) |-> Cat(s, blocks[n].records)]]
<1>1. N \in Nat /\ \A n \in 1 .. N : blocks[n].records \in Seq(LineWritten)
  BY BlockFields
<1>2. \A n \in 0 .. N : Right[n] = Seq(LineWritten)
  OBVIOUS
<1> HIDE DEF Right
<1>3. \A n \in 1 .. N : \A s \in Right[n - 1] :
         F[n][s] = Cat(s, blocks[n].records) /\ F[n][s] \in Right[n]
  <2> SUFFICES ASSUME NEW n \in 1 .. N, NEW s \in Right[n - 1]
               PROVE  F[n][s] = Cat(s, blocks[n].records) /\ F[n][s] \in Right[n]
    OBVIOUS
  <2>1. n - 1 \in 0 .. N /\ n \in 0 .. N /\ s \in Seq(LineWritten)
    BY <1>1, <1>2
  <2>2. F[n][s] = Cat(s, blocks[n].records)
    BY <2>1
  <2> HIDE DEF F
  <2> QED BY <1>1, <1>2, <2>1, <2>2, CatType
<1>4. /\ 0 \in 0 .. N /\ <<>> \in Seq(LineWritten) /\ <<>> \in Right[0]
      /\ \A n \in 1 .. N : n \in 0 .. N /\ n - 1 \in 0 .. N
  <2>1. 0 \in 0 .. N /\ <<>> \in Seq(LineWritten) /\ \A n \in 1 .. N : n \in 0 .. N /\ n - 1 \in 0 .. N
    BY <1>1
  <2> QED BY <1>2, <2>1
<1> HIDE DEF F
<1>5. PICK f : Turn(N, Right, F, <<>>, f)
  <2>1. Looping(N, Right, F, <<>>)
    BY <1>1, <1>3, <1>4 DEF Looping
  <2> QED BY <2>1, Turns
<1>6. f = Body(f)
  <2>1. \A n \in 0 .. N : f[n] = IF n = 0 THEN <<>> ELSE Cat(f[n - 1], blocks[n].records)
    <3> SUFFICES ASSUME NEW n \in 1 .. N PROVE f[n] = Cat(f[n - 1], blocks[n].records)
      <4>1. f[0] = <<>> /\ \A n \in 0 .. N : n = 0 \/ n \in 1 .. N
        BY <1>5 DEF Turn
      <4> QED BY <4>1
    <3>1. n - 1 \in 0 .. N
      BY <1>1
    <3>2. f[n - 1] \in Right[n - 1]
      BY <1>5, <3>1 DEF Turn
    <3> QED BY <1>3, <1>5, <3>2 DEF Turn
  <2> QED BY <1>5, <2>1 DEF Turn, Cat
<1>7. M = Body(M)
  <2>1. M = CHOOSE g : g = Body(g)
    OBVIOUS
  <2> HIDE DEF Body
  <2> QED BY <2>1, <1>6
<1>8. \A n \in 0 .. N : M[n] = IF n = 0 THEN <<>> ELSE Cat(M[n - 1], blocks[n].records)
  <2>1. \A n \in 0 .. N :
          Body(M)[n] = IF n = 0 THEN <<>> ELSE Cat(M[n - 1], blocks[n].records)
    BY DEF Cat
  <2> HIDE DEF Body
  <2> QED BY <1>7, <2>1, Zenon
<1>9. M[0] = <<>> /\ \A n \in 1 .. N : M[n] = Cat(M[n - 1], blocks[n].records)
  <2>1. 0 \in 0 .. N /\ \A n \in 1 .. N : n \in 0 .. N /\ n # 0
    BY <1>1
  <2> QED BY <1>8, <2>1
<1> DEFINE A == {n \in 0 .. N : M[n] \in Seq(LineWritten)}
<1>10. 0 \in A
  BY <1>4, <1>9
<1>11. ASSUME NEW n \in 1 .. N, n - 1 \in A PROVE n \in A
  <2>1. M[n - 1] \in Seq(LineWritten) /\ blocks[n].records \in Seq(LineWritten)
    BY <1>1, <1>11
  <2>2. M[n] = Cat(M[n - 1], blocks[n].records)
    BY <1>9
  <2>3. M[n] \in Seq(LineWritten)
    BY <2>1, <2>2, CatType
  <2> QED BY <1>4, <2>3
<1>12. \A n \in 0 .. N : M[n] \in Seq(LineWritten)
  <2> HIDE DEF A
  <2>1. \A n \in 0 .. N : n \in A
    BY <1>1, <1>10, <1>11, Upward
  <2> QED BY <2>1 DEF A
<1>13. M = [n \in 0 .. N |-> M[n]]
  <2>1. M = [n \in 0 .. N |-> IF n = 0 THEN <<>> ELSE M[n - 1] \o blocks[n].records]
    BY <1>7
  <2> QED BY <2>1
<1> QED BY <1>9, <1>12, <1>13 DEF Writes

\* Layout in terms of these.
LEMMA LaidOutAs ==
  ASSUME NEW blocks \in Seq(BlockOf)
  PROVE  \E g, w : /\ Numbers(g, RunStarts(blocks)) /\ Writes(blocks, w)
                   /\ Layout(blocks) = LayoutOf(blocks, g, w)
<1> DEFINE N == Len(blocks)
           S == {i \in DOMAIN blocks : i = 1 \/ blocks[i - 1].lemma # blocks[i].lemma}
           g == InTurn(N, S)
           M[i \in 0 .. Len(blocks)] ==
             IF i = 0 THEN <<>> ELSE M[i - 1] \o blocks[i].records
           ends(k) == IF k = Len(g) THEN Len(blocks) + 1 ELSE g[k + 1]
<1>1. N \in Nat /\ DOMAIN blocks = 1 .. N
  OBVIOUS
<1>2. Numbers(g, RunStarts(blocks))
  <2>1. {i \in 1 .. N : i \in S} = RunStarts(blocks)
    BY <1>1 DEF RunStarts
  <2> HIDE DEF S
  <2> QED BY <1>1, <2>1, InTurnRight
<1>3. Writes(blocks, M)
  <2>1. M = CHOOSE f : f = [i \in 0 .. Len(blocks) |->
              IF i = 0 THEN <<>> ELSE f[i - 1] \o blocks[i].records]
    OBVIOUS
  <2> HIDE DEF M
  <2> QED BY <2>1, WrittenIs
<1>4. Layout(blocks) =
        [file |->
          [sound |-> TRUE,
           lemmas |-> [k \in DOMAIN g |->
                         [key |-> blocks[g[k]].lemma, first_block |-> g[k] - 1,
                          block_count |-> ends(k) - g[k]]],
           blocks |-> [i \in DOMAIN blocks |->
                         [first_record |-> Len(M[i - 1]),
                          record_count |-> Len(blocks[i].records)]],
           records |-> Len(M[Len(blocks)])],
         records |-> M[Len(blocks)]]
  BY DEF Layout
<1>5. \A k : ends(k) = EndOf(g, k, Len(blocks))
  BY DEF EndOf
<1> HIDE DEF M, S, ends, g
<1>6. DOMAIN g = 1 .. Len(g)
  BY <1>2, NumbersIn
<1>7. Layout(blocks) = LayoutOf(blocks, g, M)
  BY <1>1, <1>4, <1>5, <1>6 DEF LayoutOf, LemmaTable, BlockTable
<1> QED BY <1>2, <1>3, <1>7

\* How far the records of a block reach.
LEMMA WrittenLengths ==
  ASSUME NEW blocks, Writable(blocks), NEW w, Writes(blocks, w), NEW i \in 1 .. Len(blocks)
  PROVE  /\ w[i - 1] \in Seq(LineWritten) /\ w[i] \in Seq(LineWritten)
         /\ blocks[i].records \in Seq(LineWritten) /\ Len(blocks[i].records) \in Nat \ {0}
         /\ Len(w[i - 1]) \in Nat /\ Len(w[i]) = Len(w[i - 1]) + Len(blocks[i].records)
         /\ w[i] = w[i - 1] \o blocks[i].records
<1>1. blocks \in Seq(BlockOf) /\ Len(blocks) \in Nat
  BY DEF Writable, InOrder
<1>2. i - 1 \in 0 .. Len(blocks) /\ i \in 0 .. Len(blocks)
  BY <1>1
<1>3. w[i - 1] \in Seq(LineWritten) /\ w[i] \in Seq(LineWritten)
  BY <1>2 DEF Writes
<1>4. blocks[i].records \in Seq(LineWritten)
  BY <1>1, BlockFields
<1>5. blocks[i].records # <<>>
  BY DEF Writable
<1>6. Len(blocks[i].records) \in Nat \ {0}
  BY <1>4, <1>5, EmptySeq
<1>7. w[i] = w[i - 1] \o blocks[i].records
  BY DEF Writes, Cat
<1>8. Len(w[i]) = Len(w[i - 1]) + Len(blocks[i].records) /\ Len(w[i - 1]) \in Nat
  BY <1>3, <1>4, <1>7, ConcatProperties
<1> QED BY <1>3, <1>4, <1>6, <1>7, <1>8

\* A range that is not empty.
LEMMA Reaches ==
  ASSUME NEW x \in Nat, NEW y \in Nat \ {0}, NEW z, z = x + y
  PROVE  x + 1 \in Nat \ {0} /\ z \in Nat /\ x + 1 <= z /\ z <= z
  OBVIOUS

\* What is written stays where it is.
LEMMA WrittenStays ==
  ASSUME NEW s \in Seq(LineWritten), NEW t \in Seq(LineWritten),
         NEW a \in Nat \ {0}, NEW b \in Nat, a <= b, b <= Len(s)
  PROVE  b <= Len(s \o t) /\ SubSeq(s \o t, a, b) = SubSeq(s, a, b)
<1>1. Len(s) \in Nat /\ Len(t) \in Nat /\ Len(s \o t) = Len(s) + Len(t)
  BY ConcatProperties
<1>2. a \in 1 .. Len(s) /\ b \in 1 .. Len(s)
  BY <1>1
<1> QED BY <1>1, <1>2, SubSeqOfConcat1
LEMMA WrittenLast ==
  ASSUME NEW s \in Seq(LineWritten), NEW t \in Seq(LineWritten), t # <<>>
  PROVE  SubSeq(s \o t, Len(s) + 1, Len(s) + Len(t)) = t
<1>1. Len(s) \in Nat /\ Len(t) \in Nat \ {0}
  BY EmptySeq
<1> DEFINE a == Len(s) + 1
           b == Len(s) + Len(t)
<1>2. /\ a \in Len(s) + 1 .. Len(s) + Len(t) /\ b \in Len(s) + 1 .. Len(s) + Len(t)
      /\ a - Len(s) = 1 /\ b - Len(s) = Len(t)
  BY <1>1
<1> HIDE DEF a, b
<1>3. SubSeq(s \o t, a, b) = SubSeq(t, a - Len(s), b - Len(s))
  BY <1>2, SubSeqOfConcat2
<1>4. SubSeq(t, 1, Len(t)) = t
  BY SubSeqFull
<1> QED BY <1>2, <1>3, <1>4 DEF a, b

\* Where they are in the file.
LEMMA WrittenAt ==
  ASSUME NEW blocks, Writable(blocks), NEW w, Writes(blocks, w), NEW i \in 1 .. Len(blocks)
  PROVE  /\ w[Len(blocks)] \in Seq(LineWritten) /\ Len(w[i]) <= Len(w[Len(blocks)])
         /\ SubSeq(w[Len(blocks)], Len(w[i - 1]) + 1, Len(w[i])) = blocks[i].records
<1> DEFINE N == Len(blocks)
           a == Len(w[i - 1]) + 1
           b == Len(w[i])
           There(n) == /\ w[n] \in Seq(LineWritten) /\ b <= Len(w[n])
                       /\ SubSeq(w[n], a, b) = blocks[i].records
           A == {m \in 0 .. N - i : There(i + m)}
<1>1. N \in Nat /\ N - i \in Nat /\ i \in Nat /\ i + 0 = i /\ i + (N - i) = N
  <2>1. blocks \in Seq(BlockOf)
    BY DEF Writable, InOrder
  <2> QED BY <2>1
<1>2. /\ w[i - 1] \in Seq(LineWritten) /\ w[i] \in Seq(LineWritten)
      /\ blocks[i].records \in Seq(LineWritten) /\ Len(blocks[i].records) \in Nat \ {0}
      /\ Len(w[i - 1]) \in Nat /\ Len(w[i]) = Len(w[i - 1]) + Len(blocks[i].records)
      /\ w[i] = w[i - 1] \o blocks[i].records
  BY WrittenLengths
<1>3. a \in Nat \ {0} /\ b \in Nat /\ a <= b /\ b <= b
  BY <1>2, Reaches, Zenon
<1>4. There(i)
  <2>1. blocks[i].records # <<>>
    BY DEF Writable
  <2>2. SubSeq(w[i - 1] \o blocks[i].records, Len(w[i - 1]) + 1,
               Len(w[i - 1]) + Len(blocks[i].records)) = blocks[i].records
    BY <1>2, <2>1, WrittenLast
  <2>3. SubSeq(w[i], a, b) = blocks[i].records
    BY <1>2, <2>2, Zenon
  <2> QED BY <1>2, <1>3, <2>3
<1> HIDE DEF a, b
<1>5. 0 \in A
  <2>1. 0 \in 0 .. N - i
    BY <1>1
  <2> HIDE DEF There
  <2> QED BY <1>1, <1>4, <2>1
<1>6. ASSUME NEW m \in 1 .. N - i, m - 1 \in A PROVE m \in A
  <2>1. i + m \in 1 .. N /\ i + (m - 1) = (i + m) - 1 /\ m \in 0 .. N - i
    BY <1>1
  <2>2. PICK n \in 1 .. N : n = i + m
    BY <2>1
  <2>3. There(n - 1)
    <3> HIDE DEF There
    <3> QED BY <1>6, <2>1, <2>2
  <2>4. /\ w[n - 1] \in Seq(LineWritten) /\ w[n] \in Seq(LineWritten)
        /\ blocks[n].records \in Seq(LineWritten)
        /\ w[n] = w[n - 1] \o blocks[n].records
    BY WrittenLengths
  <2>5. b <= Len(w[n - 1] \o blocks[n].records)
        /\ SubSeq(w[n - 1] \o blocks[n].records, a, b) = SubSeq(w[n - 1], a, b)
    BY <1>3, <2>3, <2>4, WrittenStays
  <2>6. There(n)
    BY <2>3, <2>4, <2>5
  <2> HIDE DEF There
  <2> QED BY <2>1, <2>2, <2>6
<1>7. N - i \in A
  <2> HIDE DEF A
  <2>1. \A m \in 0 .. N - i : m \in A
    BY <1>1, <1>5, <1>6, Upward
  <2>2. N - i \in 0 .. N - i
    BY <1>1
  <2> QED BY <2>1, <2>2
<1>8. There(N)
  <2> HIDE DEF There
  <2> QED BY <1>1, <1>7
<1> QED BY <1>8 DEF a, b

\* The lemma is the same from where a run begins to its end.
LEMMA RunSame ==
  ASSUME NEW blocks \in Seq(BlockOf), NEW g, Numbers(g, RunStarts(blocks)),
         NEW k \in 1 .. Len(g)
  PROVE  /\ g[k] \in 1 .. Len(blocks) /\ EndOf(g, k, Len(blocks)) \in g[k] + 1 .. Len(blocks) + 1
         /\ \A j \in g[k] .. EndOf(g, k, Len(blocks)) - 1 :
              j \in 1 .. Len(blocks) /\ blocks[j].lemma = blocks[g[k]].lemma
<1> DEFINE N == Len(blocks)
           a == g[k]
           z == EndOf(g, k, N)
<1>1. N \in Nat /\ Len(g) \in Nat
  BY NumbersIn
<1>2. \A j \in 1 .. Len(g) : g[j] \in 1 .. N
  <2>1. \A x \in RunStarts(blocks) : x \in 1 .. N
    BY DEF RunStarts
  <2> QED BY <2>1, NumbersIn
<1>3. a \in 1 .. N /\ z \in a + 1 .. N + 1
  <2>1. CASE k = Len(g)
    BY <1>1, <1>2, <2>1 DEF EndOf
  <2>2. CASE k # Len(g)
    <3>1. k + 1 \in 1 .. Len(g) /\ k < k + 1
      BY <1>1, <2>2
    <3>2. g[k] < g[k + 1] /\ g[k + 1] \in 1 .. N /\ z = g[k + 1]
      BY <1>2, <2>2, <3>1 DEF Numbers, EndOf
    <3> QED BY <1>2, <3>2
  <2> QED BY <2>1, <2>2
<1>4. ASSUME NEW j \in a + 1 .. z - 1 PROVE j \notin RunStarts(blocks)
  <2> SUFFICES ASSUME j \in RunStarts(blocks) PROVE FALSE
    OBVIOUS
  <2>1. PICK x \in 1 .. Len(g) : g[x] = j
    BY DEF Numbers
  <2>2. k < x
    <3> SUFFICES ASSUME x <= k PROVE FALSE
      BY <1>1
    <3>1. x = k \/ g[x] < g[k]
      BY <1>1 DEF Numbers
    <3> QED BY <1>3, <2>1, <3>1
  <2>3. k # Len(g) /\ k + 1 \in 1 .. Len(g)
    BY <1>1, <2>2
  <2>4. k + 1 = x \/ g[k + 1] < g[x]
    <3>1. k + 1 = x \/ k + 1 < x
      BY <1>1, <2>2
    <3> QED BY <2>3, <3>1 DEF Numbers
  <2>5. g[k + 1] \in Nat /\ z = g[k + 1]
    BY <1>2, <2>3 DEF EndOf
  <2> QED BY <1>3, <2>1, <2>4, <2>5
<1> HIDE DEF a, z
<1> DEFINE A == {m \in 0 .. (z - 1) - a : blocks[a + m].lemma = blocks[a].lemma}
<1>5. 0 \in A
  <2>1. a + 0 = a /\ 0 \in 0 .. (z - 1) - a
    BY <1>3
  <2> QED BY <2>1
<1>6. ASSUME NEW m \in 1 .. (z - 1) - a, m - 1 \in A PROVE m \in A
  <2>1. /\ a + m \in a + 1 .. z - 1 /\ a + m \in 1 .. N /\ a + m # 1
        /\ a + (m - 1) = (a + m) - 1 /\ m \in 0 .. (z - 1) - a
    BY <1>1, <1>3
  <2>2. blocks[(a + m) - 1].lemma = blocks[a + m].lemma
    BY <1>4, <2>1 DEF RunStarts
  <2>3. blocks[(a + m) - 1].lemma = blocks[a].lemma
    BY <1>6, <2>1
  <2> QED BY <2>1, <2>2, <2>3
<1>7. \A m \in 0 .. (z - 1) - a : blocks[a + m].lemma = blocks[a].lemma
  <2>1. (z - 1) - a \in Nat
    BY <1>3
  <2> HIDE DEF A
  <2>2. \A m \in 0 .. (z - 1) - a : m \in A
    BY <1>5, <1>6, <2>1, Upward
  <2> QED BY <2>2 DEF A
<1>8. \A j \in a .. z - 1 : j \in 1 .. N /\ blocks[j].lemma = blocks[a].lemma
  <2> SUFFICES ASSUME NEW j \in a .. z - 1
               PROVE  j \in 1 .. N /\ blocks[j].lemma = blocks[a].lemma
    OBVIOUS
  <2>1. j - a \in 0 .. (z - 1) - a /\ a + (j - a) = j /\ j \in 1 .. N
    BY <1>1, <1>3
  <2> QED BY <1>7, <2>1
<1> QED BY <1>3, <1>8 DEF a, z

\* Every block is in a run.
LEMMA RunOf ==
  ASSUME NEW blocks \in Seq(BlockOf), NEW g, Numbers(g, RunStarts(blocks)),
         NEW b \in 1 .. Len(blocks)
  PROVE  /\ Len(g) # 0 /\ g[1] = 1
         /\ \E k \in 1 .. Len(g) : b \in g[k] .. EndOf(g, k, Len(blocks)) - 1
<1>1. Len(blocks) \in Nat /\ Len(g) \in Nat /\ \A k \in 1 .. Len(g) : g[k] \in Nat \ {0}
  BY NumbersIn
<1>2. PICK x \in 1 .. Len(g) : g[x] = 1
  <2>1. 1 \in RunStarts(blocks)
    BY <1>1 DEF RunStarts
  <2> QED BY <2>1 DEF Numbers
<1>3. Len(g) # 0 /\ g[1] = 1
  <2>1. x = 1 \/ g[1] < g[x]
    BY <1>1, <1>2 DEF Numbers
  <2>2. 1 \in 1 .. Len(g)
    BY <1>1, <1>2
  <2> QED BY <1>1, <1>2, <2>1, <2>2
<1> DEFINE T == {k \in 1 .. Len(g) : b < g[k]}
<1>4. CASE T = {}
  <2>1. Len(g) \in 1 .. Len(g)
    BY <1>1, <1>3
  <2>2. g[Len(g)] <= b
    BY <1>1, <1>4, <2>1
  <2>3. b \in g[Len(g)] .. EndOf(g, Len(g), Len(blocks)) - 1
    BY <1>1, <2>1, <2>2 DEF EndOf
  <2> QED BY <1>3, <2>1, <2>3
<1>5. CASE T # {}
  <2>1. T \subseteq Nat
    OBVIOUS
  <2>2. PICK y \in T : \A t \in T : y <= t
    <3> HIDE DEF T
    <3> QED BY <1>5, <2>1, Least
  <2>3. y \in 1 .. Len(g) /\ b < g[y] /\ y # 1
    BY <1>3, <2>2
  <2>4. y - 1 \in 1 .. Len(g) /\ y - 1 \notin T /\ y - 1 # Len(g) /\ (y - 1) + 1 = y
    BY <1>1, <2>2, <2>3
  <2>5. g[y - 1] <= b
    BY <1>1, <2>4
  <2>6. EndOf(g, y - 1, Len(blocks)) = g[y]
    BY <2>4 DEF EndOf
  <2>7. b \in g[y - 1] .. EndOf(g, y - 1, Len(blocks)) - 1
    BY <1>1, <2>3, <2>4, <2>5, <2>6
  <2> QED BY <1>3, <2>4, <2>7
<1> QED BY <1>4, <1>5

----------------------------------------------------------------------------
(* The builders: what the reader makes of the file.                        *)

\* The file and its records are the tables of these blocks.
FileOf(blocks, g, w) ==
  /\ Writable(blocks) /\ Numbers(g, RunStarts(blocks)) /\ Writes(blocks, w)
  /\ index = LayoutOf(blocks, g, w)

LEMMA ReaderSees ==
  ASSUME NEW blocks, NEW g, NEW w, FileOf(blocks, g, w)
  PROVE  /\ Built!lemma_count = Len(g) /\ Built!block_count = Len(blocks)
         /\ Built!record_count = Len(w[Len(blocks)])
         /\ index.file.sound /\ index.records = w[Len(blocks)]
         /\ \A k \in 1 .. Len(g) :
              /\ Built!Lemma(k - 1).key = blocks[g[k]].lemma
              /\ Built!Lemma(k - 1).first_block = g[k] - 1
              /\ Built!Lemma(k - 1).block_count = EndOf(g, k, Len(blocks)) - g[k]
         /\ \A i \in 1 .. Len(blocks) :
              /\ Built!Block(i - 1).first_record = Len(w[i - 1])
              /\ Built!Block(i - 1).record_count = Len(blocks[i].records)
<1>1. /\ index.file.lemmas = LemmaTable(blocks, g)
      /\ index.file.blocks = BlockTable(blocks, w)
      /\ index.file.records = Len(w[Len(blocks)])
      /\ index.file.sound /\ index.records = w[Len(blocks)]
  BY DEF FileOf, LayoutOf
<1>2. Len(g) \in Nat /\ Len(blocks) \in Nat
  BY NumbersIn DEF FileOf, Writable, InOrder
<1>3. Len(LemmaTable(blocks, g)) = Len(g) /\ Len(BlockTable(blocks, w)) = Len(blocks)
  BY <1>2 DEF LemmaTable, BlockTable
<1>4. ASSUME NEW k \in 1 .. Len(g)
      PROVE  Built!Lemma(k - 1)
               = [key |-> blocks[g[k]].lemma, first_block |-> g[k] - 1,
                  block_count |-> EndOf(g, k, Len(blocks)) - g[k]]
  <2>1. (k - 1) + 1 = k
    BY <1>2
  <2>2. Built!Lemma(k - 1) = LemmaTable(blocks, g)[k]
    BY <1>1, <2>1 DEF Built!Lemma
  <2> QED BY <2>2 DEF LemmaTable
<1>5. ASSUME NEW i \in 1 .. Len(blocks)
      PROVE  Built!Block(i - 1)
               = [first_record |-> Len(w[i - 1]), record_count |-> Len(blocks[i].records)]
  <2>1. (i - 1) + 1 = i
    BY <1>2
  <2>2. Built!Block(i - 1) = BlockTable(blocks, w)[i]
    BY <1>1, <2>1 DEF Built!Block
  <2> QED BY <2>2 DEF BlockTable
<1>6. /\ Built!lemma_count = Len(g) /\ Built!block_count = Len(blocks)
      /\ Built!record_count = Len(w[Len(blocks)])
  BY <1>1, <1>3 DEF Built!lemma_count, Built!block_count, Built!record_count
<1>7. ASSUME NEW k \in 1 .. Len(g)
      PROVE  /\ Built!Lemma(k - 1).key = blocks[g[k]].lemma
             /\ Built!Lemma(k - 1).first_block = g[k] - 1
             /\ Built!Lemma(k - 1).block_count = EndOf(g, k, Len(blocks)) - g[k]
  <2>1. PICK a, b, c : a = blocks[g[k]].lemma /\ b = g[k] - 1
                       /\ c = EndOf(g, k, Len(blocks)) - g[k]
    OBVIOUS
  <2>2. Built!Lemma(k - 1) = [key |-> a, first_block |-> b, block_count |-> c]
    BY <1>4, <2>1
  <2>3. PICK r : r = [key |-> a, first_block |-> b, block_count |-> c]
    OBVIOUS
  <2>4. r.key = a /\ r.first_block = b /\ r.block_count = c
    BY <2>3
  <2> QED BY <2>1, <2>2, <2>3, <2>4, Zenon
<1>8. ASSUME NEW i \in 1 .. Len(blocks)
      PROVE  /\ Built!Block(i - 1).first_record = Len(w[i - 1])
             /\ Built!Block(i - 1).record_count = Len(blocks[i].records)
  <2>1. PICK a, b : a = Len(w[i - 1]) /\ b = Len(blocks[i].records)
    OBVIOUS
  <2>2. Built!Block(i - 1) = [first_record |-> a, record_count |-> b]
    BY <1>5, <2>1
  <2>3. PICK r : r = [first_record |-> a, record_count |-> b]
    OBVIOUS
  <2>4. r.first_record = a /\ r.record_count = b
    BY <2>3
  <2> QED BY <2>1, <2>2, <2>3, <2>4, Zenon
<1> QED BY <1>1, <1>6, <1>7, <1>8, Zenon

\* Ranges from one end to the next cover a table.
LEMMA EndsCover ==
  ASSUME NEW n \in Nat, NEW e \in [0 .. n -> Nat], e[0] = 0,
         \A i \in 1 .. n : e[i - 1] < e[i]
  PROVE  Built!Covers([i \in 0 .. n - 1 |-> e[i]],
                      [i \in 0 .. n - 1 |-> e[i + 1] - e[i]], e[n])
<1> DEFINE from == [i \in 0 .. n - 1 |-> e[i]]
           size == [i \in 0 .. n - 1 |-> e[i + 1] - e[i]]
<1>1. ASSUME NEW i \in 0 .. n - 1
      PROVE  /\ i + 1 \in 1 .. n /\ (i + 1) - 1 = i /\ e[i] \in Nat /\ e[i + 1] \in Nat
             /\ from[i] = e[i] /\ size[i] = e[i + 1] - e[i] /\ e[i] < e[i + 1]
  <2>1. i + 1 \in 1 .. n /\ (i + 1) - 1 = i /\ i \in 0 .. n /\ i + 1 \in 0 .. n
    OBVIOUS
  <2>2. e[(i + 1) - 1] < e[i + 1]
    BY <2>1
  <2> QED BY <2>1, <2>2
<1>2. DOMAIN from = 0 .. n - 1
  OBVIOUS
<1> HIDE DEF from, size
<1>3. \A i \in 0 .. n - 1 : from[i] + size[i] = e[i + 1] /\ size[i] > 0
  BY <1>1
<1>4. Built!Consecutive(from, size)
  <2> SUFFICES ASSUME NEW i \in 0 .. n - 1
               PROVE  /\ size[i] > 0
                      /\ from[i] = IF i = 0 THEN 0 ELSE from[i - 1] + size[i - 1]
    BY <1>2 DEF Built!Consecutive
  <2>1. CASE i = 0
    BY <1>1, <1>3, <2>1
  <2>2. CASE i # 0
    <3>1. i - 1 \in 0 .. n - 1 /\ (i - 1) + 1 = i
      BY <2>2
    <3>2. from[i - 1] + size[i - 1] = e[i]
      BY <1>3, <3>1
    <3> QED BY <1>1, <1>3, <2>2, <3>2
  <2> QED BY <2>1, <2>2
<1>5. \A m \in 0 .. n : \A j \in 0 .. m : e[j] <= e[m]
  <2> DEFINE A == {m \in 0 .. n : \A j \in 0 .. m : e[j] <= e[m]}
  <2>1. 0 \in A
    OBVIOUS
  <2>2. ASSUME NEW m \in 1 .. n, m - 1 \in A PROVE m \in A
    <3>1. m - 1 \in 0 .. n /\ m \in 0 .. n /\ e[m - 1] \in Nat /\ e[m] \in Nat
      OBVIOUS
    <3>2. e[m - 1] < e[m] /\ \A j \in 0 .. m - 1 : e[j] <= e[m - 1]
      BY <2>2
    <3>3. ASSUME NEW j \in 0 .. m PROVE e[j] <= e[m]
      <4>1. e[j] \in Nat /\ (j = m \/ j \in 0 .. m - 1)
        BY <3>1
      <4> QED BY <3>1, <3>2, <4>1
    <3> QED BY <3>1, <3>3
  <2> HIDE DEF A
  <2>3. \A m \in 0 .. n : m \in A
    BY <2>1, <2>2, Upward
  <2> QED BY <2>3 DEF A
<1>6. \A i \in 0 .. n - 1 : from[i] + size[i] <= e[n]
  <2> SUFFICES ASSUME NEW i \in 0 .. n - 1 PROVE e[i + 1] <= e[n]
    BY <1>3
  <2>1. i + 1 \in 0 .. n /\ n \in 0 .. n
    OBVIOUS
  <2> QED BY <1>5, <2>1
<1>7. ASSUME e[n] # 0 PROVE \E i \in 0 .. n - 1 : from[i] + size[i] = e[n]
  <2>1. n # 0
    BY <1>7
  <2>2. n - 1 \in 0 .. n - 1 /\ (n - 1) + 1 = n
    BY <2>1
  <2>3. from[n - 1] + size[n - 1] = e[n]
    BY <1>3, <2>2
  <2> QED BY <2>2, <2>3
<1>8. Built!Covers(from, size, e[n])
  BY <1>2, <1>4, <1>6, <1>7, Zenon DEF Built!Covers
<1> QED BY <1>8 DEF from, size

\* The reader accepts the file,
LEMMA ReaderAccepts ==
  ASSUME NEW blocks, NEW g, NEW w, FileOf(blocks, g, w)
  PROVE  Built!ValidLayout
<1> DEFINE N == Len(blocks)
           L == Len(g)
<1>1. /\ Writable(blocks) /\ InOrder(blocks) /\ blocks \in Seq(BlockOf)
      /\ Numbers(g, RunStarts(blocks)) /\ Writes(blocks, w) /\ N \in Nat /\ L \in Nat
  BY NumbersIn DEF FileOf, Writable, InOrder
<1>2. \A k \in 1 .. L : g[k] \in 1 .. N /\ EndOf(g, k, N) \in g[k] + 1 .. N + 1
  BY <1>1, RunSame
<1>3. ASSUME NEW k \in 1 .. L - 1
      PROVE  Built!Lemma(k - 1).key < Built!Lemma(k).key
  <2>1. k \in 1 .. L /\ k + 1 \in 1 .. L /\ (k + 1) - 1 = k /\ k < k + 1
    BY <1>1
  <2>2. g[k] < g[k + 1] /\ g[k] \in 1 .. N /\ g[k + 1] \in 1 .. N
    BY <1>1, <1>2, <2>1 DEF Numbers
  <2>3. g[k + 1] \in RunStarts(blocks)
    BY <1>1, <2>1, NumbersIn
  <2>4. /\ g[k + 1] - 1 \in 1 .. N /\ g[k + 1] # 1 /\ g[k] <= g[k + 1] - 1
        /\ g[k + 1] - 1 <= g[k + 1]
    BY <1>1, <2>2
  <2>5. blocks[g[k + 1] - 1].lemma # blocks[g[k + 1]].lemma
    BY <2>3, <2>4 DEF RunStarts
  <2>6. /\ blocks[g[k]].lemma \in Nat /\ blocks[g[k + 1]].lemma \in Nat
        /\ blocks[g[k + 1] - 1].lemma \in Nat
    BY <1>1, <2>2, <2>4, BlockFields
  <2>7. /\ blocks[g[k]].lemma <= blocks[g[k + 1] - 1].lemma
        /\ blocks[g[k + 1] - 1].lemma <= blocks[g[k + 1]].lemma
    BY <1>1, <2>2, <2>4, LemmasAscend
  <2>8. blocks[g[k]].lemma < blocks[g[k + 1]].lemma
    BY <2>5, <2>6, <2>7
  <2>9. Built!Lemma(k - 1).key = blocks[g[k]].lemma
    BY <2>1, ReaderSees
  <2>10. Built!Lemma(k).key = blocks[g[k + 1]].lemma
    BY <2>1, ReaderSees
  <2> QED BY <2>8, <2>9, <2>10
<1>4. Built!Covers([i \in 0 .. L - 1 |-> Built!Lemma(i).first_block],
                   [i \in 0 .. L - 1 |-> Built!Lemma(i).block_count], N)
  <2> DEFINE e == [i \in 0 .. L |-> IF i = L THEN N ELSE g[i + 1] - 1]
  <2>1. e \in [0 .. L -> Nat] /\ e[L] = N
    <3>1. \A i \in 0 .. L : i = L \/ i + 1 \in 1 .. L
      BY <1>1
    <3> QED BY <1>1, <1>2, <3>1
  <2>2. e[0] = 0
    <3>1. CASE L = 0
      <4>1. N = 0
        <5> SUFFICES ASSUME N # 0 PROVE FALSE
          OBVIOUS
        <5>1. 1 \in 1 .. N
          BY <1>1
        <5> QED BY <1>1, <3>1, <5>1, RunOf
      <4> QED BY <3>1, <4>1
    <3>2. CASE L # 0
      <4>1. 1 \in 1 .. L /\ 0 \in 0 .. L
        BY <1>1, <3>2
      <4>2. 1 \in 1 .. N
        BY <1>1, <1>2, <4>1
      <4>3. g[1] = 1
        BY <1>1, <4>2, RunOf
      <4> QED BY <3>2, <4>1, <4>3
    <3> QED BY <3>1, <3>2
  <2>3. \A i \in 1 .. L : e[i - 1] = g[i] - 1 /\ e[i] = EndOf(g, i, N) - 1
    BY <1>1, <1>2 DEF EndOf
  <2> HIDE DEF e
  <2>4. \A i \in 1 .. L : e[i - 1] < e[i]
    BY <1>1, <1>2, <2>3
  <2>5. Built!Covers([i \in 0 .. L - 1 |-> e[i]],
                     [i \in 0 .. L - 1 |-> e[i + 1] - e[i]], e[L])
    BY <1>1, <2>1, <2>2, <2>4, EndsCover
  <2>6. ASSUME NEW i \in 0 .. L - 1
        PROVE  Built!Lemma(i).first_block = e[i] /\ Built!Lemma(i).block_count = e[i + 1] - e[i]
    <3>1. i + 1 \in 1 .. L /\ (i + 1) - 1 = i
      BY <1>1
    <3>2. PICK k \in 1 .. L : k = i + 1 /\ k - 1 = i
      BY <3>1
    <3>3. /\ Built!Lemma(k - 1).first_block = g[k] - 1
          /\ Built!Lemma(k - 1).block_count = EndOf(g, k, N) - g[k]
      BY <1>1, ReaderSees
    <3>4. e[k - 1] = g[k] - 1 /\ e[k] = EndOf(g, k, N) - 1
      BY <2>3
    <3>5. (EndOf(g, k, N) - 1) - (g[k] - 1) = EndOf(g, k, N) - g[k]
      <4>1. \A x, y \in Int : (x - 1) - (y - 1) = x - y
        OBVIOUS
      <4>2. EndOf(g, k, N) \in Int /\ g[k] \in Int
        BY <1>1, <1>2
      <4> QED BY <4>1, <4>2
    <3> QED BY <3>2, <3>3, <3>4, <3>5
  <2> QED BY <2>1, <2>5, <2>6
<1>5. Built!Covers([i \in 0 .. N - 1 |-> Built!Block(i).first_record],
                   [i \in 0 .. N - 1 |-> Built!Block(i).record_count], Len(w[N]))
  <2> DEFINE e == [i \in 0 .. N |-> Len(w[i])]
  <2>1. e \in [0 .. N -> Nat] /\ e[N] = Len(w[N]) /\ e[0] = 0
    <3>1. \A i \in 0 .. N : w[i] \in Seq(LineWritten)
      BY <1>1 DEF Writes
    <3>2. \A i \in 0 .. N : Len(w[i]) \in Nat
      BY <3>1, LenProperties
    <3>3. w[0] = <<>> /\ Len(<<>>) = 0 /\ 0 \in 0 .. N /\ N \in 0 .. N
      BY <1>1 DEF Writes
    <3>4. e[0] = Len(w[0]) /\ e[N] = Len(w[N])
      BY <3>3
    <3> QED BY <3>2, <3>3, <3>4
  <2>2. ASSUME NEW i \in 1 .. N
        PROVE  /\ e[i - 1] = Len(w[i - 1]) /\ e[i] = Len(w[i])
               /\ Len(blocks[i].records) = e[i] - e[i - 1] /\ e[i - 1] < e[i]
    <3>1. i - 1 \in 0 .. N /\ i \in 0 .. N
      BY <1>1
    <3>2. e[i - 1] = Len(w[i - 1]) /\ e[i] = Len(w[i])
      BY <3>1
    <3> HIDE DEF e
    <3>3. /\ Len(w[i - 1]) \in Nat /\ Len(blocks[i].records) \in Nat \ {0}
          /\ Len(w[i]) = Len(w[i - 1]) + Len(blocks[i].records)
      BY <1>1, WrittenLengths
    <3>4. \A x \in Nat, y \in Nat \ {0} : \A z : z = x + y => y = z - x /\ x < z
      OBVIOUS
    <3> QED BY <3>2, <3>3, <3>4
  <2> HIDE DEF e
  <2>3. Built!Covers([i \in 0 .. N - 1 |-> e[i]],
                     [i \in 0 .. N - 1 |-> e[i + 1] - e[i]], e[N])
    BY <1>1, <2>1, <2>2, EndsCover
  <2>4. ASSUME NEW i \in 0 .. N - 1
        PROVE  Built!Block(i).first_record = e[i] /\ Built!Block(i).record_count = e[i + 1] - e[i]
    <3>1. i + 1 \in 1 .. N /\ (i + 1) - 1 = i
      BY <1>1
    <3>2. PICK k \in 1 .. N : k = i + 1 /\ k - 1 = i
      BY <3>1
    <3>3. /\ Built!Block(k - 1).first_record = Len(w[k - 1])
          /\ Built!Block(k - 1).record_count = Len(blocks[k].records)
      BY <1>1, ReaderSees
    <3>4. e[k - 1] = Len(w[k - 1]) /\ Len(blocks[k].records) = e[k] - e[k - 1]
      BY <2>2
    <3> QED BY <3>2, <3>3, <3>4
  <2> QED BY <2>1, <2>3, <2>4
<1>6. /\ Built!lemma_count = L /\ Built!block_count = N /\ Built!record_count = Len(w[N])
      /\ index.file.sound
  BY ReaderSees
<1> HIDE DEF N, L
<1> QED BY <1>3, <1>4, <1>5, <1>6 DEF Built!ValidLayout

\* and finds under a key the blocks of the lemma with their records.
BlocksWith(blocks, key) == {b \in 1 .. Len(blocks) : blocks[b].lemma = key}
RecordsAt(blocks, f) == [n \in 1 .. Len(f) |-> blocks[f[n]].records]
LEMMA ReaderFinds ==
  ASSUME NEW blocks, NEW g, NEW w, FileOf(blocks, g, w), NEW key
  PROVE  \E f : /\ Numbers(f, BlocksWith(blocks, key))
                /\ BlocksFound(key) = RecordsAt(blocks, f)
<1> DEFINE N == Len(blocks)
           L == Len(g)
           S == {b \in 1 .. N : blocks[b].lemma = key}
<1>1. /\ Writable(blocks) /\ blocks \in Seq(BlockOf)
      /\ Numbers(g, RunStarts(blocks)) /\ Writes(blocks, w) /\ N \in Nat /\ L \in Nat
  BY NumbersIn DEF FileOf, Writable, InOrder
<1>2. /\ Built!lemma_count = L /\ Built!block_count = N
      /\ index.records = w[N]
  BY ReaderSees
<1>3. ASSUME NEW k \in 1 .. L
      PROVE  /\ g[k] \in 1 .. N /\ EndOf(g, k, N) \in g[k] + 1 .. N + 1
             /\ Built!Lemma(k - 1).key = blocks[g[k]].lemma
             /\ \A b \in 1 .. N : b - 1 \in Built!BlocksOf(k - 1)
                                    <=> b \in g[k] .. EndOf(g, k, N) - 1
  <2>1. g[k] \in 1 .. N /\ EndOf(g, k, N) \in g[k] + 1 .. N + 1
    BY <1>1, RunSame
  <2>2. /\ Built!Lemma(k - 1).key = blocks[g[k]].lemma
        /\ Built!Lemma(k - 1).first_block = g[k] - 1
        /\ Built!Lemma(k - 1).block_count = EndOf(g, k, N) - g[k]
    BY ReaderSees
  <2>3. Built!BlocksOf(k - 1) = g[k] - 1 .. (g[k] - 1) + ((EndOf(g, k, N) - g[k]) - 1)
    <3>1. Built!BlocksOf(k - 1)
            = Built!Lemma(k - 1).first_block
                .. Built!Lemma(k - 1).first_block + (Built!Lemma(k - 1).block_count - 1)
      BY DEF Built!BlocksOf
    <3> QED BY <2>2, <3>1, Zenon
  <2>4. \A x, y \in 1 .. N + 1 : \A b \in 1 .. N :
          b - 1 \in x - 1 .. (x - 1) + ((y - x) - 1) <=> b \in x .. y - 1
    BY <1>1
  <2>5. g[k] \in 1 .. N + 1 /\ EndOf(g, k, N) \in 1 .. N + 1
    BY <1>1, <2>1
  <2> QED BY <2>1, <2>2, <2>3, <2>4, <2>5
<1>4. Owned(key) = S
  <2>1. ASSUME NEW b \in 1 .. N, b \in Owned(key) PROVE blocks[b].lemma = key
    <3>1. PICK i \in 0 .. L - 1 : Built!Lemma(i).key = key /\ b - 1 \in Built!BlocksOf(i)
      BY <1>2, <2>1 DEF Owned
    <3>2. PICK k \in 1 .. L : k - 1 = i
      <4>1. i + 1 \in 1 .. L /\ (i + 1) - 1 = i
        BY <1>1
      <4> QED BY <4>1
    <3>3. b \in g[k] .. EndOf(g, k, N) - 1 /\ blocks[g[k]].lemma = key
      BY <1>3, <3>1, <3>2
    <3> QED BY <1>1, <3>3, RunSame
  <2>2. ASSUME NEW b \in 1 .. N, blocks[b].lemma = key PROVE b \in Owned(key)
    <3>1. PICK k \in 1 .. L : b \in g[k] .. EndOf(g, k, N) - 1
      BY <1>1, RunOf
    <3>2. blocks[g[k]].lemma = key
      BY <1>1, <2>2, <3>1, RunSame
    <3>3. Built!Lemma(k - 1).key = key /\ b - 1 \in Built!BlocksOf(k - 1)
      BY <1>3, <3>1, <3>2
    <3>4. k - 1 \in 0 .. L - 1
      BY <1>1
    <3> QED BY <1>2, <3>3, <3>4 DEF Owned
  <2>3. \A b \in Owned(key) : b \in 1 .. N
    BY <1>2 DEF Owned
  <2> QED BY <2>1, <2>2, <2>3
<1>5. ASSUME NEW b \in 1 .. N PROVE RecordsFound(b) = blocks[b].records
  <2>1. /\ Built!Block(b - 1).first_record = Len(w[b - 1])
        /\ Built!Block(b - 1).record_count = Len(blocks[b].records)
    BY ReaderSees
  <2>2. Len(w[b]) = Len(w[b - 1]) + Len(blocks[b].records)
    BY <1>1, WrittenLengths
  <2>3. SubSeq(w[N], Len(w[b - 1]) + 1, Len(w[b])) = blocks[b].records
    BY <1>1, WrittenAt
  <2> QED BY <1>2, <2>1, <2>2, <2>3 DEF RecordsFound
<1> DEFINE f == InTurn(N, S)
<1>6. Numbers(f, S)
  <2>1. {i \in 1 .. N : i \in S} = S
    OBVIOUS
  <2> HIDE DEF S
  <2> QED BY <1>1, <2>1, InTurnRight
<1>7. DOMAIN f = 1 .. Len(f) /\ \A n \in 1 .. Len(f) : f[n] \in 1 .. N
  <2> HIDE DEF f
  <2>1. f \in Seq(Nat)
    BY <1>6, NumbersIn
  <2>2. \A n \in 1 .. Len(f) : f[n] \in S
    BY <1>6, NumbersIn
  <2> QED BY <2>1, <2>2
<1>8. BlocksFound(key) = [n \in DOMAIN f |-> RecordsFound(f[n])]
  BY <1>2, <1>4 DEF BlocksFound
<1> HIDE DEF f, S
<1>9. BlocksFound(key) = [n \in 1 .. Len(f) |-> blocks[f[n]].records]
  BY <1>5, <1>7, <1>8
<1> QED BY <1>6, <1>9 DEF S, BlocksWith, RecordsAt

----------------------------------------------------------------------------
(* The builders: which blocks of the source the file has.                  *)

Numbered(blocks) ==
  /\ blocks \in Seq(BlockOf)
  /\ \A k \in 1 .. Len(blocks) : blocks[k].ordinal = k - 1
\* bs are the blocks with the numbers of T, the n-th the one with number q[n].
Picks(blocks, bs, q, T) ==
  /\ bs \in Seq(BlockOf) /\ q \in [1 .. Len(bs) -> Nat]
  /\ \A n \in 1 .. Len(bs) : q[n] \in 1 .. Len(blocks) /\ bs[n] = blocks[q[n]]
  /\ \A x : x \in T <=> \E n \in 1 .. Len(bs) : q[n] = x
\* The blocks with records, and of those alike the first.
Filled(blocks) == {i \in 1 .. Len(blocks) : blocks[i].records # <<>>}
Earliest(blocks) ==
  {i \in Filled(blocks) :
     \A j \in Filled(blocks) : j < i => ~ same_block(blocks[j], blocks[i])}

\* Blocks without records are left out,
LEMMA FilledPicked ==
  ASSUME NEW blocks, Numbered(blocks)
  PROVE  /\ InSourceOrder(discard_empty_blocks(blocks))
         /\ \E q : Picks(blocks, discard_empty_blocks(blocks), q, Filled(blocks))
<1> DEFINE S == {i \in DOMAIN blocks : blocks[i].records # <<>>}
           q == InTurn(Len(blocks), S)
           bs == At(blocks, q)
<1>1. blocks \in Seq(BlockOf) /\ Len(blocks) \in Nat /\ DOMAIN blocks = 1 .. Len(blocks)
  BY DEF Numbered
<1>2. discard_empty_blocks(blocks) = bs
  BY DEF discard_empty_blocks
<1>3. Numbers(q, Filled(blocks))
  <2>1. {i \in 1 .. Len(blocks) : i \in S} = Filled(blocks)
    BY <1>1 DEF Filled
  <2> HIDE DEF S
  <2> QED BY <1>1, <2>1, InTurnRight
<1> HIDE DEF q
<1>4. q \in Seq(Nat) /\ Len(q) \in Nat /\ \A k \in 1 .. Len(q) : q[k] \in 1 .. Len(blocks)
  <2>1. \A x \in Filled(blocks) : x \in 1 .. Len(blocks)
    BY DEF Filled
  <2> QED BY <1>3, <2>1, NumbersIn
<1>5. /\ bs \in Seq(BlockOf) /\ Len(bs) = Len(q)
      /\ \A k \in 1 .. Len(q) : bs[k] = blocks[q[k]]
  BY <1>1, <1>4, AtPlaces
<1> HIDE DEF bs
<1>6. q \in [1 .. Len(bs) -> Nat]
  BY <1>4, <1>5
<1>7. Picks(blocks, bs, q, Filled(blocks))
  <2>1. \A x : x \in Filled(blocks) <=> \E n \in 1 .. Len(bs) : q[n] = x
    BY <1>3, <1>5 DEF Numbers
  <2> QED BY <1>4, <1>5, <1>6, <2>1, Zenon DEF Picks
<1>8. InSourceOrder(bs)
  <2>1. ASSUME NEW j \in 1 .. Len(bs), NEW k \in 1 .. Len(bs), j < k
        PROVE  bs[j].ordinal < bs[k].ordinal
    <3>1. q[j] < q[k] /\ q[j] \in 1 .. Len(blocks) /\ q[k] \in 1 .. Len(blocks)
      BY <1>3, <1>4, <1>5, <2>1 DEF Numbers
    <3>2. blocks[q[j]].ordinal = q[j] - 1 /\ blocks[q[k]].ordinal = q[k] - 1
      BY <3>1 DEF Numbered
    <3>3. bs[j] = blocks[q[j]] /\ bs[k] = blocks[q[k]]
      BY <1>5
    <3>4. q[j] - 1 < q[k] - 1
      BY <1>1, <3>1
    <3> QED BY <3>2, <3>3, <3>4
  <2> QED BY <1>5, <2>1 DEF InSourceOrder
<1> QED BY <1>2, <1>7, <1>8

\* the others are sorted,
LEMMA SortedPicked ==
  ASSUME NEW blocks, Numbered(blocks)
  PROVE  /\ InOrder(Sorted(discard_empty_blocks(blocks)))
         /\ \E q : Picks(blocks, Sorted(discard_empty_blocks(blocks)), q, Filled(blocks))
<1> DEFINE e == discard_empty_blocks(blocks)
           s == Sorted(e)
           N == Len(e)
<1>1. PICK q : Picks(blocks, e, q, Filled(blocks))
  BY FilledPicked
<1>2. InSourceOrder(e)
  BY FilledPicked
<1> HIDE DEF e
<1>3. PICK p \in Orders(N) :
        /\ s = At(e, p)
        /\ \A j, k \in 1 .. N : j < k => compare_blocks(e[p[j]], e[p[k]])
  BY <1>2, SortedRight
<1> HIDE DEF s
<1>4. e \in Seq(BlockOf) /\ N \in Nat
  BY <1>2 DEF InSourceOrder
<1>5. p \in [1 .. N -> 1 .. N] /\ \A i \in 1 .. N : \E k \in 1 .. N : p[k] = i
  BY <1>3 DEF Orders
<1>6. p \in Seq(Nat) /\ Len(p) = N
  BY <1>4, <1>5
<1>7. s \in Seq(BlockOf) /\ Len(s) = N /\ \A k \in 1 .. N : s[k] = e[p[k]]
  <2>1. \A k \in 1 .. Len(p) : p[k] \in 1 .. Len(e)
    BY <1>5, <1>6
  <2>2. /\ At(e, p) \in Seq(BlockOf) /\ Len(At(e, p)) = Len(p)
        /\ \A k \in 1 .. Len(p) : At(e, p)[k] = e[p[k]]
    BY <1>4, <1>6, <2>1, AtPlaces
  <2> HIDE DEF N
  <2> QED BY <1>3, <1>6, <2>2
<1> HIDE DEF N
<1>8. InOrder(s)
  <2>1. ASSUME NEW j \in 1 .. Len(s), NEW k \in 1 .. Len(s), j < k
        PROVE  compare_blocks(s[j], s[k])
    <3>1. compare_blocks(e[p[j]], e[p[k]]) /\ s[j] = e[p[j]] /\ s[k] = e[p[k]]
      BY <1>3, <1>7, <2>1
    <3> QED BY <3>1
  <2> QED BY <1>7, <2>1 DEF InOrder
<1> DEFINE r == [n \in 1 .. N |-> q[p[n]]]
<1>9. /\ q \in [1 .. N -> Nat]
      /\ \A n \in 1 .. N : q[n] \in 1 .. Len(blocks) /\ e[n] = blocks[q[n]]
      /\ \A x : x \in Filled(blocks) <=> \E n \in 1 .. N : q[n] = x
  BY <1>1 DEF Picks, N
<1>10. \A n \in 1 .. N : p[n] \in 1 .. N /\ r[n] = q[p[n]]
  BY <1>5
<1>11. r \in [1 .. Len(s) -> Nat]
  BY <1>7, <1>9, <1>5
<1> HIDE DEF r
<1>12. \A n \in 1 .. Len(s) : r[n] \in 1 .. Len(blocks) /\ s[n] = blocks[r[n]]
  BY <1>7, <1>9, <1>10
<1>13. ASSUME NEW x PROVE x \in Filled(blocks) <=> \E n \in 1 .. Len(s) : r[n] = x
  <2>1. ASSUME x \in Filled(blocks) PROVE \E n \in 1 .. Len(s) : r[n] = x
    <3>1. PICK m \in 1 .. N : q[m] = x
      BY <1>9, <2>1
    <3>2. PICK n \in 1 .. N : p[n] = m
      BY <1>5
    <3> QED BY <1>7, <1>10, <3>1, <3>2
  <2>2. ASSUME NEW n \in 1 .. Len(s), r[n] = x PROVE x \in Filled(blocks)
    <3>1. p[n] \in 1 .. N /\ q[p[n]] = x
      BY <1>7, <1>10, <2>2
    <3> QED BY <1>9, <3>1
  <2> QED BY <2>1, <2>2
<1>14. Picks(blocks, s, r, Filled(blocks))
  BY <1>7, <1>11, <1>12, <1>13, Zenon DEF Picks
<1> QED BY <1>8, <1>14 DEF s, e

\* Blocks of a lemma are in the order of the source.
LEMMA PickedInOrder ==
  ASSUME NEW blocks, Numbered(blocks), NEW bs, NEW q, NEW T, Picks(blocks, bs, q, T),
         InOrder(bs), NEW j \in 1 .. Len(bs), NEW k \in 1 .. Len(bs),
         bs[j].lemma = bs[k].lemma
  PROVE  q[j] \in Nat /\ q[k] \in Nat /\ (j < k <=> q[j] < q[k])
<1>1. ASSUME NEW a \in 1 .. Len(bs), NEW b \in 1 .. Len(bs),
             bs[a].lemma = bs[b].lemma, a < b
      PROVE  q[a] < q[b]
  <2>1. compare_blocks(bs[a], bs[b])
    BY <1>1 DEF InOrder
  <2>2. bs[a].lemma \in Nat /\ bs[b].lemma \in Nat
    BY BlockFields DEF InOrder
  <2>3. bs[a].ordinal < bs[b].ordinal
    BY <1>1, <2>1, <2>2 DEF compare_blocks
  <2>4. /\ q[a] \in 1 .. Len(blocks) /\ q[b] \in 1 .. Len(blocks)
        /\ bs[a] = blocks[q[a]] /\ bs[b] = blocks[q[b]]
    BY DEF Picks
  <2>5. bs[a].ordinal = q[a] - 1 /\ bs[b].ordinal = q[b] - 1
    BY <2>4 DEF Numbered
  <2>6. Len(blocks) \in Nat
    BY DEF Numbered
  <2> QED BY <2>3, <2>4, <2>5, <2>6
<1>2. q[j] \in Nat /\ q[k] \in Nat /\ j \in Nat /\ k \in Nat
  BY DEF Picks
<1>3. j < k => q[j] < q[k]
  BY <1>1
<1>4. k < j => q[k] < q[j]
  BY <1>1
<1>5. j = k => q[j] = q[k]
  OBVIOUS
<1> QED BY <1>2, <1>3, <1>4, <1>5

\* and of those alike the first is kept.
LEMMA EarliestPicked ==
  ASSUME NEW blocks, Numbered(blocks), NEW bs, NEW q, Picks(blocks, bs, q, Filled(blocks)),
         InOrder(bs), NEW g, Numbers(g, Unlike(bs, Len(bs)))
  PROVE  /\ Writable(At(bs, g))
         /\ \E r : Picks(blocks, At(bs, g), r, Earliest(blocks))
<1> DEFINE t == At(bs, g)
           r == [n \in 1 .. Len(g) |-> q[g[n]]]
<1>1. /\ bs \in Seq(BlockOf) /\ Len(bs) \in Nat /\ q \in [1 .. Len(bs) -> Nat]
      /\ \A n \in 1 .. Len(bs) : q[n] \in 1 .. Len(blocks) /\ bs[n] = blocks[q[n]]
      /\ \A x : x \in Filled(blocks) <=> \E n \in 1 .. Len(bs) : q[n] = x
  BY DEF Picks
<1>2. /\ g \in Seq(Nat) /\ Len(g) \in Nat
      /\ \A k \in 1 .. Len(g) : g[k] \in 1 .. Len(bs) /\ g[k] \in Unlike(bs, Len(bs))
  <2>1. \A x \in Unlike(bs, Len(bs)) : x \in 1 .. Len(bs)
    BY DEF Unlike
  <2> QED BY <2>1, NumbersIn
<1>3. t \in Seq(BlockOf) /\ Len(t) = Len(g) /\ \A k \in 1 .. Len(g) : t[k] = bs[g[k]]
  BY <1>1, <1>2, AtPlaces
<1>4. \A n \in 1 .. Len(g) : r[n] = q[g[n]]
  OBVIOUS
<1>5. r \in [1 .. Len(t) -> Nat]
  BY <1>1, <1>2, <1>3
<1> HIDE DEF r, t
<1>6. \A n \in 1 .. Len(t) : r[n] \in 1 .. Len(blocks) /\ t[n] = blocks[r[n]]
  BY <1>1, <1>2, <1>3, <1>4
<1>7. InOrder(t)
  <2>1. ASSUME NEW j \in 1 .. Len(t), NEW k \in 1 .. Len(t), j < k
        PROVE  compare_blocks(t[j], t[k])
    <3>1. g[j] < g[k] /\ g[j] \in 1 .. Len(bs) /\ g[k] \in 1 .. Len(bs)
      BY <1>2, <1>3, <2>1 DEF Numbers
    <3>2. compare_blocks(bs[g[j]], bs[g[k]])
      BY <3>1 DEF InOrder
    <3> QED BY <1>3, <3>2
  <2> QED BY <1>3, <2>1 DEF InOrder
<1>8. \A k \in 1 .. Len(t) : t[k].records # <<>>
  <2> SUFFICES ASSUME NEW k \in 1 .. Len(t) PROVE t[k].records # <<>>
    OBVIOUS
  <2>1. g[k] \in 1 .. Len(bs) /\ t[k] = blocks[q[g[k]]]
    BY <1>1, <1>2, <1>3
  <2>2. q[g[k]] \in Filled(blocks)
    BY <1>1, <2>1
  <2> QED BY <2>1, <2>2 DEF Filled
<1>9. ASSUME NEW m \in 1 .. Len(bs)
      PROVE  m \in Unlike(bs, Len(bs)) <=> q[m] \in Earliest(blocks)
  <2>1. q[m] \in Filled(blocks) /\ q[m] \in Nat
    BY <1>1
  <2>2. ASSUME m \in Unlike(bs, Len(bs)), NEW j \in Filled(blocks), j < q[m],
               same_block(blocks[j], blocks[q[m]])
        PROVE  FALSE
    <3>1. PICK p \in 1 .. Len(bs) : q[p] = j
      BY <1>1
    <3>2. same_block(bs[p], bs[m])
      BY <1>1, <2>2, <3>1
    <3>3. bs[p].lemma = bs[m].lemma
      BY <3>2 DEF same_block
    <3>4. p < m
      BY <2>2, <3>1, <3>3, PickedInOrder
    <3>5. p \in 1 .. m - 1
      BY <1>1, <3>4
    <3> QED BY <2>2, <3>2, <3>5 DEF Unlike
  <2>3. ASSUME q[m] \in Earliest(blocks), NEW p \in 1 .. m - 1, same_block(bs[p], bs[m])
        PROVE  FALSE
    <3>1. p \in 1 .. Len(bs) /\ p < m
      BY <1>1
    <3>2. bs[p].lemma = bs[m].lemma
      BY <2>3 DEF same_block
    <3>3. q[p] < q[m]
      BY <3>1, <3>2, PickedInOrder
    <3>4. q[p] \in Filled(blocks) /\ same_block(blocks[q[p]], blocks[q[m]])
      BY <1>1, <2>3, <3>1
    <3> QED BY <2>3, <3>3, <3>4 DEF Earliest
  <2> QED BY <2>1, <2>2, <2>3 DEF Unlike, Earliest
<1>10. ASSUME NEW x PROVE x \in Earliest(blocks) <=> \E n \in 1 .. Len(t) : r[n] = x
  <2>1. ASSUME x \in Earliest(blocks) PROVE \E n \in 1 .. Len(t) : r[n] = x
    <3>1. PICK m \in 1 .. Len(bs) : q[m] = x
      BY <1>1, <2>1 DEF Earliest
    <3>2. m \in Unlike(bs, Len(bs))
      BY <1>9, <2>1, <3>1
    <3>3. PICK n \in 1 .. Len(g) : g[n] = m
      BY <3>2 DEF Numbers
    <3> QED BY <1>3, <1>4, <3>1, <3>3
  <2>2. ASSUME NEW n \in 1 .. Len(t), r[n] = x PROVE x \in Earliest(blocks)
    BY <1>2, <1>3, <1>4, <1>9, <2>2
  <2> QED BY <2>1, <2>2
<1>11. Picks(blocks, t, r, Earliest(blocks))
  BY <1>3, <1>5, <1>6, <1>10, Zenon DEF Picks
<1>12. Writable(t)
  BY <1>7, <1>8 DEF Writable
<1> QED BY <1>11, <1>12 DEF t

\* Either builder writes the tables of these blocks.
LEMMA BuilderWrites ==
  ASSUME NEW blocks, Numbered(blocks),
         index \in {write_index(blocks), buildGenerIndex(blocks)}
  PROVE  \E bs, r, g, w : FileOf(bs, g, w) /\ Picks(blocks, bs, r, Earliest(blocks))
<1> DEFINE s == Sorted(discard_empty_blocks(blocks))
<1>1. InOrder(s)
  BY SortedPicked
<1>2. PICK q : Picks(blocks, s, q, Filled(blocks))
  BY SortedPicked
<1>3. \E g : Numbers(g, Unlike(s, Len(s))) /\ index = Layout(At(s, g))
  <2>1. CASE index = write_index(blocks)
    <3>1. index = Layout(discard_duplicate_blocks(s))
      BY <2>1 DEF write_index
    <3> HIDE DEF s
    <3>2. PICK g : Numbers(g, Unlike(s, Len(s))) /\ discard_duplicate_blocks(s) = At(s, g)
      BY <1>1, KeptRight
    <3> QED BY <3>1, <3>2
  <2>2. CASE index = buildGenerIndex(blocks)
    <3>1. index = Layout(filtered(s))
      BY <2>2 DEF buildGenerIndex
    <3> HIDE DEF s
    <3>2. PICK g : Numbers(g, Unlike(s, Len(s))) /\ filtered(s) = At(s, g)
      BY <1>1, FilteredRight
    <3> QED BY <3>1, <3>2
  <2> QED BY <2>1, <2>2
<1> HIDE DEF s
<1>4. PICK g : Numbers(g, Unlike(s, Len(s))) /\ index = Layout(At(s, g))
  BY <1>3
<1> DEFINE bs == At(s, g)
<1>5. Writable(bs)
  BY <1>1, <1>2, <1>4, EarliestPicked
<1>6. PICK r : Picks(blocks, bs, r, Earliest(blocks))
  BY <1>1, <1>2, <1>4, EarliestPicked
<1> HIDE DEF bs
<1>7. bs \in Seq(BlockOf) /\ index = Layout(bs)
  BY <1>4, <1>5 DEF bs, Writable, InOrder
<1>8. PICK gg, w : /\ Numbers(gg, RunStarts(bs)) /\ Writes(bs, w)
                   /\ Layout(bs) = LayoutOf(bs, gg, w)
  BY <1>7, LaidOutAs
<1>9. FileOf(bs, gg, w)
  BY <1>5, <1>7, <1>8 DEF FileOf
<1> QED BY <1>6, <1>9

----------------------------------------------------------------------------
(* The builders: what the file says of the prepared lines.                 *)

\* The records behind a line that begins a block are those of the block.
LEMMA RecordsParsed ==
  ASSUME NEW blocks, NEW h, PreparedFile(prepared),
         Parses(prepared, Len(prepared), blocks, h), NEW k \in 1 .. Len(h)
  PROVE  /\ h[k] \in 1 .. Len(prepared) /\ prepared[h[k]].type = "le"
         /\ blocks[k].lemma = LemmaKeys[prepared[h[k]].name[1]]
         /\ blocks[k].ordinal = k - 1 /\ blocks[k].records = RecordsAfter(h[k])
<1> DEFINE N == Len(prepared)
           i == h[k]
           next == {j \in i + 1 .. N : prepared[j].type = "le"}
<1>1. Numbers(h, Begins(prepared, N)) /\ Len(h) \in Nat /\ N \in Nat
  BY NumbersIn DEF Parses, PreparedFile
<1>2. \A m \in 1 .. Len(h) : h[m] \in 1 .. N /\ prepared[h[m]].type = "le"
  <2>1. \A x \in Begins(prepared, N) : x \in 1 .. N /\ prepared[x].type = "le"
    BY DEF Begins
  <2> QED BY <1>1, <2>1, NumbersIn
<1>3. /\ blocks[k].lemma = LemmaKeys[prepared[i].name[1]] /\ blocks[k].ordinal = k - 1
      /\ blocks[k].records = SubSeq(prepared, i + 1, Until(h, k, N))
  <2>1. blocks[k] = BlockAt(prepared, i, Until(h, k, N), k)
    BY DEF Parses
  <2>2. PICK a, b, c : a = LemmaKeys[prepared[i].name[1]] /\ b = k - 1
                       /\ c = SubSeq(prepared, i + 1, Until(h, k, N))
    OBVIOUS
  <2>3. BlockAt(prepared, i, Until(h, k, N), k) = [lemma |-> a, ordinal |-> b, records |-> c]
    BY <2>2 DEF BlockAt
  <2>4. PICK rec : rec = [lemma |-> a, ordinal |-> b, records |-> c]
    OBVIOUS
  <2>5. rec.lemma = a /\ rec.ordinal = b /\ rec.records = c
    BY <2>4
  <2> QED BY <2>1, <2>2, <2>3, <2>4, <2>5, Zenon
<1>4. \A x \in 1 .. N : prepared[x].type = "le" => \E m \in 1 .. Len(h) : h[m] = x
  <2>1. \A x \in 1 .. N : prepared[x].type = "le" => x \in Begins(prepared, N)
    BY DEF Begins
  <2> QED BY <1>1, <2>1 DEF Numbers
<1>5. \E end \in next \cup {N + 1} : /\ \A m \in next : end <= m
                                     /\ end - 1 = Until(h, k, N) /\ end \in Nat
  <2>1. CASE k = Len(h)
    <3>1. next = {}
      <4> SUFFICES ASSUME NEW j \in next PROVE FALSE
        OBVIOUS
      <4>1. j \in 1 .. N /\ i < j /\ prepared[j].type = "le"
        BY <1>1, <1>2
      <4>2. PICK m \in 1 .. Len(h) : h[m] = j
        BY <1>4, <4>1
      <4>3. m = k \/ h[m] < h[k]
        BY <1>1, <2>1 DEF Numbers
      <4> QED BY <1>2, <4>1, <4>2, <4>3
    <3>2. (N + 1) - 1 = Until(h, k, N) /\ N + 1 \in Nat
      BY <1>1, <2>1 DEF Until
    <3> HIDE DEF next
    <3> QED BY <3>1, <3>2
  <2>2. CASE k # Len(h)
    <3>1. k + 1 \in 1 .. Len(h) /\ k < k + 1
      BY <1>1, <2>2
    <3>2. i < h[k + 1] /\ h[k + 1] \in 1 .. N /\ prepared[h[k + 1]].type = "le"
      BY <1>1, <1>2, <3>1 DEF Numbers
    <3>3. h[k + 1] \in next
      BY <1>1, <1>2, <3>2
    <3>4. ASSUME NEW j \in next PROVE h[k + 1] <= j
      <4>1. j \in 1 .. N /\ i < j /\ prepared[j].type = "le"
        BY <1>1, <1>2
      <4>2. PICK m \in 1 .. Len(h) : h[m] = j
        BY <1>4, <4>1
      <4>3. k < m
        <5> SUFFICES ASSUME m <= k PROVE FALSE
          BY <1>1
        <5>1. m = k \/ h[m] < h[k]
          BY <1>1 DEF Numbers
        <5> QED BY <1>2, <4>1, <4>2, <5>1
      <4>4. k + 1 = m \/ k + 1 < m
        BY <1>1, <4>3
      <4>5. h[k + 1] = h[m] \/ h[k + 1] < h[m]
        BY <1>1, <3>1, <4>4 DEF Numbers
      <4> QED BY <1>2, <3>2, <4>1, <4>2, <4>5
    <3>5. h[k + 1] - 1 = Until(h, k, N) /\ h[k + 1] \in Nat
      BY <2>2, <3>2 DEF Until
    <3> HIDE DEF next
    <3> QED BY <3>3, <3>4, <3>5
  <2> QED BY <2>1, <2>2
<1> DEFINE IsEnd(end) == end \in next \cup {N + 1} /\ \A m \in next : end <= m
           found == CHOOSE end \in next \cup {N + 1} : \A m \in next : end <= m
<1>6. RecordsAfter(i) = SubSeq(prepared, i + 1, found - 1)
  BY DEF RecordsAfter
<1>7. PICK end : IsEnd(end) /\ end - 1 = Until(h, k, N) /\ end \in Nat
  <2> HIDE DEF next
  <2> QED BY <1>5
<1>8. IsEnd(found)
  <2> HIDE DEF next
  <2> QED BY <1>7
<1>9. found = end
  <2>1. \A x \in next \cup {N + 1} : x \in Nat /\ (x \in next => x <= N)
    BY <1>1, <1>2
  <2> HIDE DEF next, found
  <2>2. found \in Nat /\ end \in Nat
    BY <1>7, <1>8, <2>1
  <2>3. CASE found \in next /\ end \in next
    <3>1. found <= end /\ end <= found
      BY <1>7, <1>8, <2>3
    <3> QED BY <2>2, <3>1
  <2>4. CASE found \notin next
    <3>1. found = N + 1
      BY <1>8, <2>4
    <3>2. end \notin next
      <4> SUFFICES ASSUME end \in next PROVE FALSE
        OBVIOUS
      <4>1. N + 1 <= end /\ end <= N
        BY <1>8, <2>1, <3>1
      <4> QED BY <1>1, <2>2, <4>1
    <3> QED BY <1>7, <3>1, <3>2
  <2>5. CASE end \notin next
    <3>1. end = N + 1
      BY <1>7, <2>5
    <3>2. found \notin next
      <4> SUFFICES ASSUME found \in next PROVE FALSE
        OBVIOUS
      <4>1. N + 1 <= found /\ found <= N
        BY <1>7, <2>1, <3>1
      <4> QED BY <1>1, <2>2, <4>1
    <3> QED BY <1>8, <3>1, <3>2
  <2> QED BY <2>3, <2>4, <2>5
<1>10. blocks[k].records = RecordsAfter(h[k])
  BY <1>3, <1>6, <1>7, <1>9
<1> QED BY <1>2, <1>3, <1>10

\* The lines of a lemma whose records nothing earlier has are the blocks kept.
LEMMA FirstsKept ==
  ASSUME NEW blocks, NEW h, PreparedFile(prepared),
         Parses(prepared, Len(prepared), blocks, h), NEW key
  PROVE  /\ Numbered(blocks) /\ Len(blocks) = Len(h)
         /\ \A x : x \in Firsts(key)
                     <=> \E k \in Earliest(blocks) : h[k] = x /\ blocks[k].lemma = key
<1> DEFINE N == Len(prepared)
<1>1. /\ blocks \in Seq(BlockOf) /\ Len(blocks) = Len(h) /\ Numbers(h, Begins(prepared, N))
      /\ N \in Nat /\ prepared \in Seq(LineWritten)
  BY DEF Parses, PreparedFile
<1>2. \A k \in 1 .. Len(h) :
        /\ h[k] \in 1 .. N /\ prepared[h[k]].type = "le"
        /\ blocks[k].lemma = LemmaKeys[prepared[h[k]].name[1]]
        /\ blocks[k].ordinal = k - 1 /\ blocks[k].records = RecordsAfter(h[k])
  BY RecordsParsed
<1>3. Numbered(blocks)
  BY <1>1, <1>2 DEF Numbered
<1>4. \A x : x \in Heads(key) <=> \E k \in Filled(blocks) : h[k] = x /\ blocks[k].lemma = key
  <2>1. ASSUME NEW x \in Heads(key)
        PROVE  \E k \in Filled(blocks) : h[k] = x /\ blocks[k].lemma = key
    <3>1. x \in 1 .. N /\ prepared[x].type = "le"
      BY <1>1 DEF Heads
    <3>2. x \in Begins(prepared, N)
      BY <3>1 DEF Begins
    <3>3. PICK k \in 1 .. Len(h) : h[k] = x
      BY <1>1, <3>2 DEF Numbers
    <3>4. blocks[k].lemma = key /\ blocks[k].records # <<>>
      BY <1>2, <3>3 DEF Heads
    <3> QED BY <1>1, <3>3, <3>4 DEF Filled
  <2>2. ASSUME NEW k \in Filled(blocks), blocks[k].lemma = key PROVE h[k] \in Heads(key)
    <3>1. k \in 1 .. Len(h) /\ blocks[k].records # <<>>
      BY <1>1 DEF Filled
    <3>2. h[k] \in DOMAIN prepared
      BY <1>1, <1>2, <3>1
    <3> QED BY <1>2, <2>2, <3>1, <3>2 DEF Heads
  <2> QED BY <2>1, <2>2
<1>5. ASSUME NEW j \in Filled(blocks), NEW k \in Filled(blocks)
      PROVE  /\ h[j] < h[k] <=> j < k
             /\ blocks[j].lemma = blocks[k].lemma
                  => (same_block(blocks[j], blocks[k]) <=> RecordsAfter(h[j]) = RecordsAfter(h[k]))
  <2>1. j \in 1 .. Len(h) /\ k \in 1 .. Len(h) /\ Len(h) \in Nat
    BY <1>1, NumbersIn DEF Filled
  <2>2. /\ j < k => h[j] < h[k]
        /\ k < j => h[k] < h[j]
    BY <1>1, <2>1 DEF Numbers
  <2>3. h[j] \in Nat /\ h[k] \in Nat
    BY <1>2, <2>1
  <2>4. h[j] < h[k] <=> j < k
    <3>1. j < k \/ k < j \/ j = k
      BY <2>1
    <3> QED BY <2>1, <2>2, <2>3, <3>1
  <2>5. blocks[j].records = RecordsAfter(h[j]) /\ blocks[k].records = RecordsAfter(h[k])
    BY <1>2, <2>1
  <2> QED BY <2>4, <2>5 DEF same_block
<1>6. ASSUME NEW x, x \in Firsts(key)
      PROVE  \E k \in Earliest(blocks) : h[k] = x /\ blocks[k].lemma = key
  <2>1. x \in Heads(key) /\ \A y \in Heads(key) : y < x => RecordsAfter(y) # RecordsAfter(x)
    BY <1>6 DEF Firsts
  <2>2. PICK k \in Filled(blocks) : h[k] = x /\ blocks[k].lemma = key
    BY <1>4, <2>1
  <2>3. ASSUME NEW j \in Filled(blocks), j < k, same_block(blocks[j], blocks[k]) PROVE FALSE
    <3>1. blocks[j].lemma = key
      BY <2>2, <2>3 DEF same_block
    <3>2. h[j] \in Heads(key) /\ h[j] < x /\ RecordsAfter(h[j]) = RecordsAfter(x)
      BY <1>4, <1>5, <2>2, <2>3, <3>1
    <3> QED BY <2>1, <3>2
  <2> QED BY <2>2, <2>3 DEF Earliest
<1>7. ASSUME NEW k \in Earliest(blocks), blocks[k].lemma = key PROVE h[k] \in Firsts(key)
  <2>1. k \in Filled(blocks) /\ h[k] \in Heads(key)
    BY <1>4, <1>7 DEF Earliest
  <2>2. ASSUME NEW y \in Heads(key), y < h[k], RecordsAfter(y) = RecordsAfter(h[k])
        PROVE  FALSE
    <3>1. PICK j \in Filled(blocks) : h[j] = y /\ blocks[j].lemma = key
      BY <1>4
    <3>2. j < k /\ same_block(blocks[j], blocks[k])
      BY <1>5, <1>7, <2>1, <2>2, <3>1
    <3> QED BY <3>1, <3>2 DEF Earliest
  <2> QED BY <2>1, <2>2 DEF Firsts
<1> QED BY <1>1, <1>3, <1>6, <1>7

\* What is found under a key is what was written for it.
LEMMA FoundIsWritten ==
  ASSUME PreparedFile(prepared), NEW key,
         index \in {write_index(parse_source(prepared)),
                    buildGenerIndex(parse_source(prepared))}
  PROVE  Built!ValidLayout /\ BlocksFound(key) = BlocksWritten(key)
<1> DEFINE blocks == parse_source(prepared)
           N == Len(prepared)
<1>1. PICK h : Parses(prepared, N, blocks, h)
  BY ParsedRight
<1> HIDE DEF blocks
<1>2. /\ Numbered(blocks) /\ Len(blocks) = Len(h)
      /\ \A x : x \in Firsts(key)
                  <=> \E k \in Earliest(blocks) : h[k] = x /\ blocks[k].lemma = key
  BY <1>1, FirstsKept
<1>3. PICK bs, r, g, w : FileOf(bs, g, w) /\ Picks(blocks, bs, r, Earliest(blocks))
  <2>1. index \in {write_index(blocks), buildGenerIndex(blocks)}
    BY DEF blocks
  <2> QED BY <1>2, <2>1, BuilderWrites
<1>4. Built!ValidLayout
  BY <1>3, ReaderAccepts
<1>5. PICK f : Numbers(f, BlocksWith(bs, key)) /\ BlocksFound(key) = RecordsAt(bs, f)
  BY <1>3, ReaderFinds
<1>6. /\ Len(f) \in Nat /\ Len(bs) \in Nat /\ InOrder(bs)
      /\ \A n \in 1 .. Len(f) : f[n] \in 1 .. Len(bs) /\ bs[f[n]].lemma = key
  <2>1. \A n \in 1 .. Len(f) : f[n] \in BlocksWith(bs, key)
    BY <1>5, NumbersIn
  <2> QED BY <1>3, <1>5, <2>1, NumbersIn DEF FileOf, Writable, InOrder, BlocksWith
<1>7. /\ \A n \in 1 .. Len(bs) : r[n] \in 1 .. Len(h) /\ bs[n] = blocks[r[n]]
      /\ \A x : x \in Earliest(blocks) <=> \E n \in 1 .. Len(bs) : r[n] = x
  BY <1>2, <1>3 DEF Picks
<1>8. \A k \in 1 .. Len(h) : /\ h[k] \in 1 .. N /\ blocks[k].records = RecordsAfter(h[k])
  BY <1>1, RecordsParsed
<1>9. N \in Nat /\ Numbers(h, Begins(prepared, N)) /\ Len(h) \in Nat
  BY <1>1, NumbersIn DEF PreparedFile, Parses
<1> DEFINE s == [n \in 1 .. Len(f) |-> h[r[f[n]]]]
<1>10. \A n \in 1 .. Len(f) : /\ s[n] = h[r[f[n]]] /\ s[n] \in 1 .. N
                              /\ f[n] \in 1 .. Len(bs) /\ r[f[n]] \in 1 .. Len(h)
                              /\ bs[f[n]].records = RecordsAfter(s[n])
  <2> SUFFICES ASSUME NEW n \in 1 .. Len(f)
               PROVE  /\ s[n] = h[r[f[n]]] /\ s[n] \in 1 .. N
                      /\ f[n] \in 1 .. Len(bs) /\ r[f[n]] \in 1 .. Len(h)
                      /\ bs[f[n]].records = RecordsAfter(s[n])
    OBVIOUS
  <2>1. s[n] = h[r[f[n]]]
    OBVIOUS
  <2> HIDE DEF s
  <2> QED BY <1>6, <1>7, <1>8, <2>1
<1>11. s \in Seq(Nat \ {0}) /\ Len(s) = Len(f)
  <2>1. s \in [1 .. Len(f) -> Nat \ {0}]
    <3>1. \A n \in 1 .. Len(f) : h[r[f[n]]] \in Nat \ {0}
      BY <1>9, <1>10
    <3> QED BY <3>1
  <2> HIDE DEF s
  <2> QED BY <1>6, <2>1
<1> HIDE DEF s
<1>12. ASSUME NEW j \in 1 .. Len(s), NEW k \in 1 .. Len(s), j < k PROVE s[j] < s[k]
  <2>1. f[j] < f[k] /\ f[j] \in 1 .. Len(bs) /\ f[k] \in 1 .. Len(bs)
    BY <1>5, <1>6, <1>11, <1>12 DEF Numbers
  <2>2. bs[f[j]].lemma = bs[f[k]].lemma
    BY <1>6, <1>11
  <2>3. r[f[j]] < r[f[k]]
    BY <1>2, <1>3, <1>6, <2>1, <2>2, PickedInOrder
  <2>4. h[r[f[j]]] < h[r[f[k]]]
    BY <1>9, <1>10, <1>11, <2>3 DEF Numbers
  <2> QED BY <1>10, <1>11, <2>4
<1>13. ASSUME NEW x PROVE x \in Firsts(key) <=> \E n \in 1 .. Len(s) : s[n] = x
  <2>1. ASSUME x \in Firsts(key) PROVE \E n \in 1 .. Len(s) : s[n] = x
    <3>1. PICK k \in Earliest(blocks) : h[k] = x /\ blocks[k].lemma = key
      BY <1>2, <2>1
    <3>2. PICK b \in 1 .. Len(bs) : r[b] = k
      BY <1>7
    <3>3. bs[b].lemma = key
      BY <1>7, <3>1, <3>2
    <3>4. PICK n \in 1 .. Len(f) : f[n] = b
      BY <1>5, <3>3 DEF Numbers, BlocksWith
    <3> QED BY <1>10, <1>11, <3>1, <3>2, <3>4
  <2>2. ASSUME NEW n \in 1 .. Len(s), s[n] = x PROVE x \in Firsts(key)
    <3>1. PICK b \in 1 .. Len(bs) : b = f[n] /\ bs[b].lemma = key
      BY <1>6, <1>11
    <3>2. r[b] \in Earliest(blocks) /\ blocks[r[b]].lemma = key
      BY <1>7, <3>1
    <3>3. h[r[b]] = x
      BY <1>10, <1>11, <2>2, <3>1
    <3> QED BY <1>2, <3>2, <3>3
  <2> QED BY <2>1, <2>2
<1>14. Numbers(s, Firsts(key))
  BY <1>11, <1>12, <1>13 DEF Numbers
<1> DEFINE t == InTurn(N, Firsts(key))
<1>15. Numbers(t, Firsts(key))
  <2>1. {i \in 1 .. N : i \in Firsts(key)} = Firsts(key)
    <3>1. \A x \in Firsts(key) : x \in 1 .. N
      BY <1>10, <1>11, <1>13
    <3> QED BY <3>1
  <2> QED BY <1>9, <2>1, InTurnRight
<1> HIDE DEF t
<1>16. t = s
  BY <1>14, <1>15, OneOrder
<1>17. BlocksWritten(key) = [n \in 1 .. Len(f) |-> RecordsAfter(s[n])]
  <2>1. BlocksWritten(key) = [n \in DOMAIN t |-> RecordsAfter(t[n])]
    BY DEF BlocksWritten, t
  <2>2. DOMAIN s = 1 .. Len(f)
    BY <1>11
  <2> QED BY <1>16, <2>1, <2>2
<1>18. BlocksFound(key) = BlocksWritten(key)
  BY <1>5, <1>10, <1>17 DEF RecordsAt
<1> QED BY <1>4, <1>18

----------------------------------------------------------------------------
(* The builders: what they read and write at every step.                   *)

\* The prepared file begins with a lemma, if there is anything in it; a
\* finished index is what one of the builders makes of it.
BuildInv ==
  /\ PreparedFile(prepared)
  /\ parser.lemma \/ parser.derived => prepared # <<>>
  /\ stage = "built" => index \in {write_index(parse_source(prepared)),
                                   buildGenerIndex(parse_source(prepared))}

\* One line more,
LEMMA AppendHeaded ==
  ASSUME NEW s, PreparedFile(s), NEW r \in LineWritten,
         r.type = "le" => LemmaKeys[r.name[1]] \in Nat, r.type = "le" \/ s # <<>>
  PROVE  PreparedFile(Append(s, r)) /\ Append(s, r) # <<>>
<1> DEFINE t == Append(s, r)
<1>1. s \in Seq(LineWritten) /\ Len(s) \in Nat
  BY DEF PreparedFile
<1>2. /\ t \in Seq(LineWritten) /\ t # <<>> /\ Len(t) = Len(s) + 1
      /\ \A i \in 1 .. Len(s) : t[i] = s[i]
      /\ t[Len(s) + 1] = r
  BY <1>1, AppendProperties
<1> HIDE DEF t
<1>3. t[1].type = "le"
  <2>1. CASE s = <<>>
    <3>1. Len(s) + 1 = 1
      BY <2>1
    <3> QED BY <1>2, <2>1, <3>1
  <2>2. CASE s # <<>>
    <3>1. 1 \in 1 .. Len(s)
      BY <1>1, <2>2, EmptySeq
    <3> QED BY <1>2, <2>2, <3>1 DEF PreparedFile
  <2> QED BY <2>1, <2>2
<1>4. ASSUME NEW i \in 1 .. Len(t), t[i].type = "le"
      PROVE  LemmaKeys[t[i].name[1]] \in Nat
  <2>1. i = Len(s) + 1 \/ i \in 1 .. Len(s)
    BY <1>1, <1>2
  <2>2. CASE i = Len(s) + 1
    BY <1>2, <1>4, <2>2
  <2>3. CASE i \in 1 .. Len(s)
    BY <1>2, <1>4, <2>3 DEF PreparedFile
  <2> QED BY <2>1, <2>2, <2>3
<1>5. PreparedFile(t)
  BY <1>2, <1>3, <1>4 DEF PreparedFile
<1> QED BY <1>2, <1>5 DEF t

\* or what a derivation yields.
LEMMA FlushHeaded ==
  ASSUME ToolTypes, PreparedFile(prepared), parser.derived => prepared # <<>>
  PROVE  /\ PreparedFile(prepared \o Flushed(parser))
         /\ prepared # <<>> => prepared \o Flushed(parser) # <<>>
<1>1. CASE Flushed(parser) = <<>>
  <2>1. prepared \o <<>> = prepared
    BY NoLine
  <2> QED BY <1>1, <2>1
<1>2. CASE Flushed(parser) # <<>>
  <2> DEFINE r == Derived(parser.derivation, Default, Nothing)
  <2>1. parser.derived /\ Flushed(parser) = <<r>>
    BY <1>2 DEF Flushed
  <2>2. r \in LineWritten /\ r.type # "le"
    <3>1. parser.derivation \in Names /\ Nothing \in Keys /\ Default \in Names \cup {Default}
      BY DEF ToolTypes, Parsers, Keys
    <3> QED BY <3>1 DEF Derived, LineWritten
  <2> HIDE DEF r
  <2>3. prepared \o <<r>> = Append(prepared, r)
    BY <2>2, OneLine
  <2> QED BY <2>1, <2>2, <2>3, AppendHeaded
<1> QED BY <1>1, <1>2

\* A record of what the parser or the line has.
LEMMA RecordHeaded ==
  ASSUME PreparedFile(prepared), prepared # <<>>,
         NEW name \in Names, NEW part \in Names, NEW keys \in Keys
  PROVE  /\ PreparedFile(Append(prepared, RecordLine(name, keys)))
         /\ Append(prepared, RecordLine(name, keys)) # <<>>
         /\ PreparedFile(Append(prepared, Derived(name, part, keys)))
         /\ Append(prepared, Derived(name, part, keys)) # <<>>
<1>1. RecordLine(name, keys) \in LineWritten /\ Derived(name, part, keys) \in LineWritten
  BY WrittenTyped
<1>2. RecordLine(name, keys).type # "le" /\ Derived(name, part, keys).type # "le"
  BY DEF RecordLine, Derived
<1> QED BY <1>1, <1>2, AppendHeaded

\* The fields of the parser that tell whether a lemma came before.
LEMMA ParserFields ==
  ASSUME ToolTypes
  PROVE  /\ parser.derivation \in Names /\ parser.prefix \in Names
         /\ parser.request \in Names
         /\ Now.lemma = parser.lemma /\ Now.derived = parser.derived
         /\ ~ Fresh(parser).lemma /\ ~ Fresh(parser).derived
BY DEF ToolTypes, Parsers, Now, Fresh

\* Reading a line keeps the invariant.
LEMMA LineBuilds ==
  ASSUME ToolInv, BuildInv, NEW line \in Lines,
         \/ ReadSkipped(line) \/ ReadLemma(line) \/ ReadRecord(line)
         \/ ReadContinuation(line) \/ ReadDerivation(line)
         \/ ReadRequest(line) \/ ReadOther(line)
         \/ \E kind \in Kinds : ReadExcepted(line, kind)
  PROVE  BuildInv'
<1>1. PICK x \in Kinds \cup {"none"} : Reads(line, x)
  BY DEF ReadSkipped, ReadLemma, ReadRecord, ReadContinuation, ReadDerivation,
         ReadRequest, ReadOther, ReadExcepted
<1>2. /\ stage' = "reading" /\ line.type \in Types /\ line.name \in Names /\ line.keys \in Keys
  BY <1>1, LineGrows
<1>3. /\ ToolTypes /\ PreparedFile(prepared)
      /\ parser.lemma \/ parser.derived => prepared # <<>>
  BY DEF ToolInv, BuildInv
<1>4. PreparedFile(prepared') /\ (parser'.lemma \/ parser'.derived => prepared' # <<>>)
  <2>1. CASE ReadSkipped(line)
    BY <1>3, <2>1 DEF ReadSkipped
  <2>2. CASE ReadLemma(line)
    <3> DEFINE s == prepared \o Flushed(parser)
               r == LemmaLine(line.name)
    <3>1. PreparedFile(s)
      BY <1>3, FlushHeaded
    <3>2. r \in LineWritten /\ r.type = "le" /\ r.name[1] = line.name
      <4>1. r \in LineWritten
        BY <1>2, WrittenTyped
      <4> QED BY <4>1 DEF LemmaLine
    <3>3. LemmaKeys[line.name] \in Nat
      BY <2>2, LinesAssumption DEF ReadLemma
    <3>4. prepared' = s \o <<r>>
      BY <2>2 DEF ReadLemma
    <3> HIDE DEF s, r
    <3>5. s \o <<r>> = Append(s, r)
      BY <3>1, <3>2, AppendIsConcat DEF PreparedFile
    <3>6. PreparedFile(Append(s, r)) /\ Append(s, r) # <<>>
      BY <3>1, <3>2, <3>3, AppendHeaded
    <3> QED BY <3>4, <3>5, <3>6
  <2>3. CASE ReadRecord(line)
    <3>1. parser.lemma /\ prepared' = Append(prepared, RecordLine(line.name, line.keys))
      BY <2>3 DEF ReadRecord
    <3> QED BY <1>2, <1>3, <3>1, RecordHeaded
  <2>4. CASE ReadContinuation(line)
    <3>1. /\ parser.lemma
          /\ \/ prepared' = Append(prepared, RecordLine(parser.prefix, line.keys))
             \/ prepared' = Append(prepared, Derived(parser.derivation,
                                                     parser.request, line.keys))
      BY <2>4 DEF ReadContinuation
    <3>2. /\ parser.derivation \in Names /\ parser.prefix \in Names
          /\ parser.request \in Names
      BY <1>3, ParserFields
    <3> QED BY <1>2, <1>3, <3>1, <3>2, RecordHeaded
  <2>5. CASE ReadDerivation(line)
    <3>1. parser.lemma /\ prepared' = prepared \o Flushed(parser)
      BY <2>5 DEF ReadDerivation
    <3> QED BY <1>3, <3>1, FlushHeaded
  <2>6. CASE ReadRequest(line)
    <3>1. /\ parser.derived
          /\ prepared' = Append(prepared, Derived(parser.derivation, line.name, line.keys))
      BY <2>6 DEF ReadRequest
    <3>2. parser.derivation \in Names
      BY <1>3, ParserFields
    <3> QED BY <1>2, <1>3, <3>1, <3>2, RecordHeaded
  <2>7. CASE ReadOther(line)
    <3>1. prepared' = prepared /\ parser' = Now
      BY <2>7 DEF ReadOther
    <3>2. parser'.lemma = parser.lemma /\ parser'.derived = parser.derived
      BY <1>3, <3>1, ParserFields
    <3> QED BY <1>3, <3>1, <3>2
  <2>8. ASSUME NEW kind \in Kinds, ReadExcepted(line, kind)
        PROVE  PreparedFile(prepared') /\ (parser'.lemma \/ parser'.derived => prepared' # <<>>)
    <3>1. CASE /\ prepared' = prepared \o Flushed(parser)
               /\ parser' = [parser EXCEPT !.base = "none", !.derived = FALSE,
                               !.explicit = FALSE, !.request = Nothing, !.skip = TRUE]
      <4>1. parser'.lemma = parser.lemma /\ ~ parser'.derived
        BY <1>3, <3>1 DEF ToolTypes, Parsers
      <4> QED BY <1>3, <3>1, <4>1, FlushHeaded
    <3>2. CASE parser.derived /\ parser' = Requested(line) /\ prepared' = prepared
      BY <1>3, <3>2
    <3>3. CASE parser' = Now /\ prepared' = prepared
      <4>1. parser'.lemma = parser.lemma /\ parser'.derived = parser.derived
        BY <1>3, <3>3, ParserFields
      <4> QED BY <1>3, <3>3, <4>1
    <3> QED BY <2>8, <3>1, <3>2, <3>3 DEF ReadExcepted
  <2> QED BY <2>1, <2>2, <2>3, <2>4, <2>5, <2>6, <2>7, <2>8
<1> QED BY <1>2, <1>4 DEF BuildInv

\* BuildInv holds initially,
LEMMA BuildInit ==
  ASSUME PInit
  PROVE  BuildInv
<1>1. stage = "reading" /\ parser = Started /\ prepared = <<>>
  BY DEF PInit
<1>2. PreparedFile(<<>>)
  BY DEF PreparedFile
<1> QED BY <1>1, <1>2 DEF BuildInv, Started

\* is kept by every step,
LEMMA BuildNext ==
  ASSUME ToolInv, BuildInv, [PNext]_toolvars
  PROVE  BuildInv'
<1>1. CASE \E line \in Lines :
             \/ ReadSkipped(line) \/ ReadLemma(line) \/ ReadRecord(line)
             \/ ReadContinuation(line) \/ ReadDerivation(line)
             \/ ReadRequest(line) \/ ReadOther(line)
             \/ \E kind \in Kinds : ReadExcepted(line, kind)
  BY <1>1, LineBuilds
<1>2. CASE EndOfFile
  <2>1. /\ stage = "reading" /\ stage' = stage
        /\ prepared' = prepared \o Flushed(parser) /\ parser' = Fresh(parser)
    BY <1>2 DEF EndOfFile
  <2>2. ToolTypes /\ PreparedFile(prepared) /\ (parser.derived => prepared # <<>>)
    BY DEF ToolInv, BuildInv
  <2>3. ~ parser'.lemma /\ ~ parser'.derived
    BY <2>1, <2>2, ParserFields
  <2>4. PreparedFile(prepared')
    BY <2>1, <2>2, FlushHeaded
  <2> QED BY <2>1, <2>3, <2>4 DEF BuildInv
<1>3. CASE Write
  <2>1. stage' = "written" /\ UNCHANGED <<parser, prepared>>
    BY <1>3 DEF Write
  <2> QED BY <2>1 DEF BuildInv
<1>4. CASE Reject
  <2>1. stage' = "failed" /\ parser' = Started /\ prepared' = <<>>
    BY <1>4 DEF Reject
  <2>2. PreparedFile(<<>>)
    BY DEF PreparedFile
  <2> QED BY <2>1, <2>2 DEF BuildInv, Started
<1>5. CASE Build
  <2>1. /\ UNCHANGED <<parser, prepared>>
        /\ stage' = "built" => index' \in {write_index(parse_source(prepared)),
                                           buildGenerIndex(parse_source(prepared))}
    BY <1>5 DEF Build
  <2> QED BY <2>1 DEF BuildInv
<1>6. CASE UNCHANGED toolvars
  BY <1>6 DEF toolvars, BuildInv
<1> QED BY <1>1, <1>2, <1>3, <1>4, <1>5, <1>6 DEF PNext

\* BuiltRight: what either builder writes, the reader of GenerationIndex
\* accepts, and under every key it finds the blocks the prepared file has for
\* it, each once, in source order and with its own records, for sources of any
\* length (write_index, gener-index-builder.c; buildGenerIndex, gener-index.js).
THEOREM ToolsBuild == Preparation => []BuiltRight
<1>1. PInit => BuildInv
  BY BuildInit
<1>2. ToolInv /\ BuildInv /\ [PNext]_toolvars => BuildInv'
  BY BuildNext
<1>3. BuildInv => BuiltRight
  BY FoundIsWritten DEF BuildInv, BuiltRight
<1> QED BY <1>1, <1>2, <1>3, ToolsKeep, PTL DEF Preparation
=============================================================================
