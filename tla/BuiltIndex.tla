----------------------------- MODULE BuiltIndex -----------------------------
(***************************************************************************)
(* The index that the tools of SourceTools have built, as its reader       *)
(* (GenerationIndex) sees it.                                              *)
(***************************************************************************)
EXTENDS GenerationIndex, SourceTools

Built == INSTANCE GenerationIndex WITH file <- index.file

\* The blocks the reader finds under a key, in the order of the file, as the
\* records they are.
RecordsFound(b) ==
  LET entry == Built!Block(b - 1)
  IN SubSeq(index.records, entry.first_record + 1,
            entry.first_record + entry.record_count)
Owned(key) ==
  {b \in 1 .. Built!block_count :
     \E i \in 0 .. Built!lemma_count - 1 :
       Built!Lemma(i).key = key /\ b - 1 \in Built!BlocksOf(i)}
BlocksFound(key) ==
  LET found == InTurn(Built!block_count, Owned(key))
  IN [n \in DOMAIN found |-> RecordsFound(found[n])]

\* Those that the prepared file has for it: the records behind each line with
\* the lemma, up to the next lemma, unless there are none or an earlier line
\* had the same.
RecordsAfter(i) ==
  LET next == {j \in i + 1 .. Len(prepared) : prepared[j].type = "le"}
      end == CHOOSE j \in next \cup {Len(prepared) + 1} : \A k \in next : j <= k
  IN SubSeq(prepared, i + 1, end - 1)
Heads(key) ==
  {i \in DOMAIN prepared : /\ prepared[i].type = "le"
                           /\ LemmaKeys[prepared[i].name[1]] = key
                           /\ RecordsAfter(i) # <<>>}
Firsts(key) ==
  {i \in Heads(key) : \A j \in Heads(key) : j < i => RecordsAfter(j) # RecordsAfter(i)}
BlocksWritten(key) ==
  LET firsts == InTurn(Len(prepared), Firsts(key))
  IN [n \in DOMAIN firsts |-> RecordsAfter(firsts[n])]

\* What a builder writes, its reader accepts, and finds under every key the
\* blocks of that key: each once, in source order, none of another
\* (gener-index-builder.c:450, gener-index.js:115; docs/gener-index-format.md:40-43).
BuiltRight ==
  stage = "built" =>
    /\ Built!ValidLayout
    /\ \A key \in Lemmas : BlocksFound(key) = BlocksWritten(key)
=============================================================================
