------------------------ MODULE MCGenerationIndex ------------------------
(***************************************************************************)
(* Instances of GenerationIndex for TLC: every index alone, one index with *)
(* sequences of generation calls (Generation) for its lemmas, and the      *)
(* tools (SourceTools) that make an index from sources.                    *)
(***************************************************************************)
EXTENDS BuiltIndex, Generation, FiniteSetsExt

CONSTANTS
  MaxKey,      \* largest key of a long index
  MaxEntries,  \* entries of each table of a small file
  MaxRecords   \* records of a small file

\* Indexes with many lemmas, each with one block of one record.
Long(keys) ==
  LET k == SetToSortSeq(keys, <)
  IN [sound |-> TRUE,
      lemmas |-> [i \in 1 .. Len(k) |->
                    [key |-> k[i], first_block |-> i - 1, block_count |-> 1]],
      blocks |-> [i \in 1 .. Len(k) |->
                    [first_record |-> i - 1, record_count |-> 1]],
      records |-> Len(k)]
LongFiles == {Long(keys) : keys \in SUBSET (1 .. MaxKey)}

\* Every file with small tables, valid or not, and some that a checksum or a
\* reserved field gives away.
SmallFiles ==
  [sound : {TRUE},
   lemmas : SeqOf([key : 1 .. 2, first_block : 0 .. 1,
                   block_count : 0 .. 2], MaxEntries),
   blocks : SeqOf([first_record : 0 .. 2, record_count : 0 .. 3], MaxEntries),
   records : 0 .. MaxRecords]
UnsoundFiles == {[f EXCEPT !.sound = FALSE] : f \in LongFiles}

\* Valid files with several lemmas of several blocks of several records,
\* given the sizes of the lemmas and of the blocks.
Before(sizes, i) == FoldSeq(+, 0, SubSeq(sizes, 1, i - 1))
Valid(lemmas, blocks) ==
  [sound |-> TRUE,
   lemmas |-> [i \in DOMAIN lemmas |->
                 [key |-> 2 * i - 1, first_block |-> Before(lemmas, i),
                  block_count |-> lemmas[i]]],
   blocks |-> [i \in DOMAIN blocks |->
                 [first_record |-> Before(blocks, i),
                  record_count |-> blocks[i]]],
   records |-> FoldSeq(+, 0, blocks)]
ValidFiles ==
  UNION {{Valid(lemmas, blocks) :
            blocks \in [1 .. FoldSeq(+, 0, lemmas) -> 1 .. 2]}
           : lemmas \in SeqOf(1 .. 2, 3)}

\* The file of the generation calls: lemmas of one, two and three records.
CalledFile == Valid(<<1, 1, 2>>, <<1, 2, 1, 2>>)

AllFiles == LongFiles \cup ValidFiles \cup SmallFiles \cup UnsoundFiles
MCLemmas == 0 .. MaxKey + 1

\* The sources: two lemmas, one of them in two spellings, and one line of
\* each type.
Line(type, name, keys) == [type |-> type, name |-> name, keys |-> keys]
MCLines ==
  {Line("le", "a", ""), Line("le", "b", ""), Line("le", "!b", ""),
   Line("le", "!", ""),
   Line("record", "vs", "k"), Line("word", "wd", "k"), Line("@", "", "l"),
   Line("de", "d", ""), Line(";", "fu", "k"), Line("other", "", "")}
MCLemmaKeys == "a" :> 1 @@ "b" :> 2 @@ "!b" :> 2 @@ "!" :> 0

----------------------------------------------------------------------------
\* The records the walk over the index visits for a lemma of the file.
RecordsOfLemma(i) ==
  {r \in 0 .. record_count - 1 : \E e \in Owners(r) : e[1] = i}
Sizes == {Cardinality(RecordsOfLemma(i)) : i \in 0 .. lemma_count - 1}

MCInit == Init /\ CInit /\ PInit

\* Either the index is walked, or the calls go on and the index stays open,
\* or the tools work on sources.
NoCallYet == calling = "idle" /\ answer = NoAnswer
NoTools == stage = "reading" /\ source = <<>>
Walk == NoCallYet /\ NoTools /\ Next /\ UNCHANGED <<callvars, toolvars>>
Called == step = "open" /\ file = CalledFile /\ UNCHANGED <<vars, toolvars>>
Tools == /\ step = "closed" /\ file = CalledFile
         /\ PNext /\ UNCHANGED <<vars, callvars>>
MCNext == Walk \/ (Called /\ (Call(Sizes) \/ Work)) \/ Tools

allvars == <<vars, callvars, toolvars>>
MCSpec == /\ MCInit /\ [][MCNext]_allvars
          /\ WF_allvars(NoCallYet /\ (Probe \/ Miss \/ NextBlock \/ NextRecord)
                         /\ UNCHANGED <<callvars, toolvars>>)
=============================================================================
