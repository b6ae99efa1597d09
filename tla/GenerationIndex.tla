-------------------------- MODULE GenerationIndex --------------------------
(***************************************************************************)
(* The generation index (api/gener_index.c) and the walk over it           *)
(* (gener/generation_service.c): a file is validated once and completely,  *)
(* a lemma is found by binary search, and the records of its blocks are    *)
(* visited in order.                                                       *)
(*                                                                         *)
(* A key is a number, its place in the order of strcmp.  Table entries are *)
(* counted from 0, as in the file.  Record contents are left out: "sound"  *)
(* stands for every check of the header, the checksum, the strings, the    *)
(* reserved fields and the record kinds.                                   *)
(***************************************************************************)
EXTENDS Integers, Sequences

CONSTANTS
  Files,   \* contents a gener.index may have
  Lemmas   \* lemmas a caller asks for

LemmaEntry == [key : Nat, first_block : Nat, block_count : Nat]
BlockEntry == [first_record : Nat, record_count : Nat]
Content == [sound : BOOLEAN, lemmas : Seq(LemmaEntry),
            blocks : Seq(BlockEntry), records : Nat]
ASSUME FilesAssumption == Files \subseteq Content
ASSUME LemmasAssumption == Lemmas \subseteq Nat

VARIABLES
  file,     \* the deployed file
  step,     \* what the reader or the walk over it does next
  lemma,    \* the lemma asked for
  low, high,        \* the search interval
  first, count,     \* the blocks of the lemma found
  block, record,    \* the walk
  last_record,      \* end of the current block
  visited   \* the records given to the engine
search == <<low, high>>
walk == <<first, count, block, record, last_record, visited>>
vars == <<file, step, lemma, search, walk>>

Answers == {"OK", "NOT_FOUND", "INVALID"}
Steps == {"closed", "rejected", "open", "search", "block", "record"}
           \cup Answers

Init ==
  /\ file \in Files
  /\ step = "closed"
  /\ lemma = 0 /\ low = 0 /\ high = 0
  /\ first = 0 /\ count = 0 /\ block = 0 /\ record = 0 /\ last_record = 0
  /\ visited = <<>>

lemma_count == Len(file.lemmas)
block_count == Len(file.blocks)
record_count == file.records
Lemma(i) == file.lemmas[i + 1]
Block(i) == file.blocks[i + 1]

----------------------------------------------------------------------------
(* Opening.                                                                *)

\* The entries of a table own consecutive, non-empty ranges of the next
\* table, from its first element to its last.  "from" and "size" are
\* functions on the numbers of the entries.  Mutant: the end of the last
\* range is not compared with the size of the table.
Consecutive(from, size) ==
  \A i \in DOMAIN from :
    size[i] > 0 /\ from[i] = IF i = 0 THEN 0 ELSE from[i - 1] + size[i - 1]
CoversLoosely(from, size, total) ==
  /\ Consecutive(from, size)
  /\ \A i \in DOMAIN from : from[i] + size[i] <= total
Covers(from, size, total) ==
  /\ Consecutive(from, size)
  /\ \A i \in DOMAIN from : from[i] + size[i] <= total
  /\ total # 0 => \E i \in DOMAIN from : from[i] + size[i] = total

ValidLayout ==
  /\ file.sound
  /\ \A i \in 1 .. lemma_count - 1 : Lemma(i - 1).key < Lemma(i).key
  /\ Covers([i \in 0 .. lemma_count - 1 |-> Lemma(i).first_block],
            [i \in 0 .. lemma_count - 1 |-> Lemma(i).block_count],
            block_count)
  /\ Covers([i \in 0 .. block_count - 1 |-> Block(i).first_record],
            [i \in 0 .. block_count - 1 |-> Block(i).record_count],
            record_count)

\* morpheus_gener_index_open_file: no handle without a valid layout.
Open ==
  /\ step = "closed"
  /\ step' = IF ValidLayout THEN "open" ELSE "rejected"
  /\ UNCHANGED <<file, lemma, search, walk>>

----------------------------------------------------------------------------
(* Searching.                                                              *)

\* morpheus_generation_service_generate, up to the loop of the lookup.
Generate(l) ==
  /\ step \in {"open"} \cup Answers
  /\ step' = "search" /\ lemma' = l
  /\ low' = 0 /\ high' = lemma_count
  /\ visited' = <<>>
  /\ UNCHANGED <<file, first, count, block, record, last_record>>

\* Mutant: the upper half keeps the middle.
AboveInclusive(middle) == middle
Above(middle) == middle + 1
\* Mutant: the upper bound is taken for an inclusive one.
BelowInclusive(middle) == IF middle = low THEN middle ELSE middle - 1
Below(middle) == middle

\* One iteration of morpheus_gener_index_lookup.
Probe ==
  /\ step = "search" /\ low # high
  /\ LET middle == low + (high - low) \div 2
         entry == Lemma(middle)
     IN \/ /\ lemma < entry.key
           /\ high' = Below(middle)
           /\ UNCHANGED <<step, low, walk>>
        \/ /\ lemma > entry.key
           /\ low' = Above(middle)
           /\ UNCHANGED <<step, high, walk>>
        \/ /\ lemma = entry.key
           /\ first' = entry.first_block /\ count' = entry.block_count
           /\ block' = first' /\ step' = "block"
           /\ UNCHANGED <<low, high, record, last_record, visited>>
  /\ UNCHANGED <<file, lemma>>

\* Its loop ends without a match.
Miss ==
  /\ step = "search" /\ low = high
  /\ step' = "NOT_FOUND"
  /\ UNCHANGED <<file, lemma, search, walk>>

----------------------------------------------------------------------------
(* Walking.                                                                *)

\* Where the records of a block end.  Mutant: the count is taken for the end.
EndByCount(b) == Block(b).record_count
RecordsEnd(b) == Block(b).first_record + Block(b).record_count

\* The outer loop of morpheus_generation_service_generate.
NextBlock ==
  /\ step = "block"
  /\ \/ /\ block = first + count
        /\ step' = "OK"
        /\ UNCHANGED <<record, last_record>>
     \/ /\ block # first + count
        /\ IF block < block_count
           THEN /\ record' = Block(block).first_record
                /\ last_record' = RecordsEnd(block)
                /\ step' = "record"
           ELSE /\ step' = "INVALID"
                /\ UNCHANGED <<record, last_record>>
  /\ UNCHANGED <<file, lemma, search, first, count, block, visited>>

\* The inner loop.
NextRecord ==
  /\ step = "record"
  /\ \/ /\ record = last_record
        /\ block' = block + 1 /\ step' = "block"
        /\ UNCHANGED <<record, visited>>
     \/ /\ record # last_record
        /\ IF record < record_count
           THEN /\ visited' = Append(visited, record)
                /\ record' = record + 1
                /\ UNCHANGED step
           ELSE /\ step' = "INVALID"
                /\ UNCHANGED <<record, visited>>
        /\ UNCHANGED block
  /\ UNCHANGED <<file, lemma, search, first, count, last_record>>

Next ==
  \/ Open
  \/ \E l \in Lemmas : Generate(l)
  \/ Probe \/ Miss \/ NextBlock \/ NextRecord

\* A call that has begun runs on.
Spec == /\ Init /\ [][Next]_vars
        /\ WF_vars(Probe \/ Miss \/ NextBlock \/ NextRecord)

----------------------------------------------------------------------------
(* Properties.                                                             *)

\* Every variable keeps its type.
TypeOK ==
  /\ file \in Content /\ step \in Steps /\ lemma \in Nat
  /\ low \in Nat /\ high \in Nat
  /\ first \in Nat /\ count \in Nat /\ block \in Nat
  /\ record \in Nat /\ last_record \in Nat
  /\ visited \in Seq(Nat)

Opened == step \notin {"closed", "rejected"}
\* The blocks an entry owns, and the records a block owns.
BlocksOf(i) ==
  Lemma(i).first_block .. Lemma(i).first_block + Lemma(i).block_count - 1
RecordsOf(b) ==
  Block(b).first_record .. Block(b).first_record + Block(b).record_count - 1
Owners(r) == {e \in (0 .. lemma_count - 1) \X (0 .. block_count - 1) :
                e[2] \in BlocksOf(e[1]) /\ r \in RecordsOf(e[2])}

\* An index that opens loses and shares nothing: every record belongs to one
\* block of one lemma (valid_layout, gener_index.c:91-178).
RecordsPartitioned ==
  Opened => \A r \in 0 .. record_count - 1 :
              \E e \in Owners(r) : Owners(r) = {e}

\* The search finds a lemma exactly when the index has it
\* (morpheus_gener_index_lookup, gener_index.c:261-290).
LookupRight ==
  /\ step = "NOT_FOUND" =>
       \A i \in 0 .. lemma_count - 1 : Lemma(i).key # lemma
  /\ step = "OK" =>
       \E i \in 0 .. lemma_count - 1 :
         Lemma(i).key = lemma /\ first = Lemma(i).first_block
                              /\ count = Lemma(i).block_count

\* A successful call has given the engine every record of its lemma, once
\* and in file order, and no record of another lemma.
VisitedRight ==
  step = "OK" =>
    /\ {visited[k] : k \in 1 .. Len(visited)} =
         {r \in 0 .. record_count - 1 :
            \E e \in Owners(r) : Lemma(e[1]).key = lemma}
    /\ \A k \in 1 .. Len(visited) - 1 : visited[k] < visited[k + 1]

\* What a call answers is what the index has: the right lemma, and its
\* records (morpheus_generation_service_generate, generation_service.c:178-231).
AnswerRight == LookupRight /\ VisitedRight

\* Every call is answered: each probe shrinks the interval.
Answered == step = "search" ~> step \in Answers
=============================================================================
