---------------------------- MODULE SourceTools ----------------------------
(***************************************************************************)
(* The offline tools that make a generation index: the source preparer     *)
(* (tools/gener-source-preparer.c) reads stem sources line by line and     *)
(* expands derivations and continuations; the index builder, written twice *)
(* (tools/gener-index-builder.c and, in the data package and for Deno,     *)
(* gener-index.js), sorts the blocks it leaves and writes the file that    *)
(* GenerationIndex reads.                                                  *)
(*                                                                         *)
(* A line is its type, a name and its keys.  The name is the lemma of      *)
(* :le:; kind, stem and first key of a record; stem, class and keys of     *)
(* :de:; the principal part of a request.  :no:, :aj: and :vs: are one     *)
(* type, :wd: and :vb: another.  The lines and the manifest of exceptions  *)
(* are not fixed beforehand: the environment decides what is read next and *)
(* whether it is an exception.  Every error is the same: the program stops *)
(* and leaves no output.  Blank lines and comments, which change nothing,  *)
(* are left out, and what a derivation writes is one record: Derivations   *)
(* says which.                                                             *)
(***************************************************************************)
EXTENDS Naturals, Sequences, SequencesExt, TLC

CONSTANTS
  Lines,          \* what a line may say
  LemmaKeys,      \* canonical_lemma: its place in strcmp's order; 0: empty
  Default,        \* the principal part of a derivation without requests
  Nothing,
  MaxLines        \* bound: lines of all sources; an exception counts as three

Types == {"le", "record", "word", "@", "de", ";", "other"}
Kinds == {"invalid_derivation", "invalid_record", "orphan_continuation",
          "orphan_request", "zero_continuation", "zero_request"}
ASSUME LinesAssumption ==
  /\ \A line \in Lines : /\ DOMAIN line = {"type", "name", "keys"}
                         /\ line.type \in Types
                         /\ line.type = "le" => line.name \in DOMAIN LemmaKeys
  /\ \A lemma \in DOMAIN LemmaKeys : LemmaKeys[lemma] \in Nat

VARIABLES
  stage,     \* what the tools do
  parser,    \* prepare_state
  prepared,  \* the buffer of the preparer, and the file it writes
  source,    \* history: the lines read, with the ends of files
  index      \* the file the builder writes, and its records
toolvars == <<stage, parser, prepared, source, index>>

\* What is reset where a file begins; request is saved_request, explicit is
\* have_explicit_request.
Fresh(p) == [p EXCEPT !.base = "none", !.prefix = Nothing, !.lemma = FALSE,
                      !.derived = FALSE, !.explicit = FALSE, !.skip = FALSE]

Started == [base |-> "none", prefix |-> Nothing, derivation |-> Nothing,
            request |-> Nothing, lemma |-> FALSE, derived |-> FALSE,
            explicit |-> FALSE, skip |-> FALSE]
PInit ==
  /\ stage = "reading" /\ parser = Started
  /\ prepared = <<>> /\ source = <<>> /\ index = Nothing

----------------------------------------------------------------------------
(* What the preparer writes.                                               *)

LemmaLine(lemma) == [type |-> "le", name |-> <<lemma>>, keys |-> Nothing]
RecordLine(name, keys) == [type |-> "record", name |-> <<name>>, keys |-> keys]
\* expand_request: the record of a derivation, a principal part and further
\* keys.
Derived(derivation, part, keys) ==
  [type |-> "record", name |-> <<derivation, part>>, keys |-> keys]

\* flush_derivation: a derivation nobody asked anything of is asked for its
\* present.  Mutant: it is asked again after a request.
FlushAlways(p) ==
  IF p.derived THEN <<Derived(p.derivation, Default, Nothing)>> ELSE <<>>
Flushed(p) ==
  IF p.derived /\ ~ p.explicit
  THEN <<Derived(p.derivation, Default, Nothing)>> ELSE <<>>

----------------------------------------------------------------------------
(* prepare_file.                                                           *)

Exceptions == Cardinality({i \in DOMAIN source : source[i].exception # "none"})

\* The next line; a line an invalid derivation takes with it is not looked up
\* in the manifest.
Reads(line, exception) ==
  /\ stage = "reading"
  /\ Len(source) + 2 * Exceptions
        + (IF exception = "none" THEN 1 ELSE 3) <= MaxLines
  /\ source' = Append(source, [type |-> line.type, name |-> line.name,
                               keys |-> line.keys, exception |-> exception])
  /\ UNCHANGED <<stage, index>>
Skips(line) == parser.skip /\ line.type \in {";", "@"}
Now == [parser EXCEPT !.skip = FALSE]

ReadSkipped(line) ==
  /\ Skips(line)
  /\ Reads(line, "none")
  /\ UNCHANGED <<parser, prepared>>

ReadLemma(line) ==
  /\ line.type = "le" /\ Reads(line, "none")
  /\ prepared' = prepared \o Flushed(parser) \o <<LemmaLine(line.name)>>
  /\ parser' = [Fresh(parser) EXCEPT !.lemma = TRUE]

\* A record of a declinable stem or of a principal part ends a derivation.
EndsDerivation(line) == line.type = "record"
ReadRecord(line) ==
  /\ line.type \in {"record", "word"} /\ Reads(line, "none")
  /\ parser.lemma
  /\ prepared' = Append(prepared, RecordLine(line.name, line.keys))
  /\ LET p == [Now EXCEPT !.prefix = line.name, !.base = "direct"]
     IN parser' = IF EndsDerivation(line)
                  THEN [p EXCEPT !.derived = FALSE, !.explicit = FALSE,
                                 !.request = Nothing]
                  ELSE p

\* A continuation repeats kind, stem and first key of the record before it,
\* or the request.
ReadContinuation(line) ==
  /\ line.type = "@" /\ ~ Skips(line) /\ Reads(line, "none")
  /\ parser.lemma
  /\ \/ /\ parser.base = "direct"
        /\ prepared' = Append(prepared, RecordLine(parser.prefix, line.keys))
     \/ /\ parser.base = "derivation" /\ parser.request # Nothing
        /\ prepared' = Append(prepared, Derived(parser.derivation,
                                                parser.request, line.keys))
  /\ parser' = Now

\* The request a new derivation begins with.  Mutant: that of the last one.
RequestKept == parser.request
RequestForgotten == Nothing
ReadDerivation(line) ==
  /\ line.type = "de" /\ Reads(line, "none")
  /\ parser.lemma
  /\ prepared' = prepared \o Flushed(parser)
  /\ parser' = [Now EXCEPT !.derivation = line.name, !.base = "derivation",
                           !.request = RequestForgotten, !.explicit = FALSE,
                           !.derived = TRUE]

Requested(line) == [Now EXCEPT !.request = line.name, !.explicit = TRUE,
                               !.base = "derivation"]
ReadRequest(line) ==
  /\ line.type = ";" /\ ~ Skips(line) /\ Reads(line, "none")
  /\ parser.derived
  /\ prepared' = Append(prepared, Derived(parser.derivation, line.name, line.keys))
  /\ parser' = Requested(line)

ReadOther(line) ==
  /\ line.type = "other" /\ Reads(line, "none")
  /\ parser' = Now
  /\ UNCHANGED prepared

\* apply_exception: the line is left out, if it is what the manifest says.
ReadExcepted(line, kind) ==
  /\ ~ Skips(line) /\ Reads(line, kind)
  /\ \/ /\ kind = "invalid_derivation" /\ line.type = "de"
        /\ prepared' = prepared \o Flushed(parser)
        /\ parser' = [parser EXCEPT !.base = "none", !.derived = FALSE,
                        !.explicit = FALSE, !.request = Nothing, !.skip = TRUE]
     \/ /\ kind = "zero_request" /\ line.type = ";" /\ parser.derived
        /\ parser' = Requested(line)
        /\ UNCHANGED prepared
     \/ /\ \/ kind = "invalid_record" /\ line.type \in {"record", "word"}
           \/ kind = "orphan_continuation" /\ line.type = "@"
           \/ kind = "orphan_request" /\ line.type = ";" /\ ~ parser.derived
           \/ kind = "zero_continuation" /\ line.type = "@"
                /\ parser.base = "derivation"
        /\ parser' = Now
        /\ UNCHANGED prepared

EndOfFile ==
  /\ stage = "reading" /\ source # <<>> /\ Last(source).type # "eof"
  /\ prepared' = prepared \o Flushed(parser)
  /\ parser' = Fresh(parser)
  /\ source' = Append(source, [type |-> "eof", name |-> Nothing,
                               keys |-> Nothing, exception |-> "none"])
  /\ UNCHANGED <<stage, index>>

\* write_output, when the last file has been read and every exception seen.
Write ==
  /\ stage = "reading" /\ source # <<>> /\ Last(source).type = "eof"
  /\ stage' = "written"
  /\ UNCHANGED <<parser, prepared, source, index>>

\* A line that is too long, malformed, out of place, or in the manifest with
\* another fingerprint or twice; a derivation without a record; an entry of
\* the manifest that was not seen; a failed allocation, read or write.
Reject ==
  /\ stage = "reading"
  /\ stage' = "failed"
  /\ parser' = Started /\ prepared' = <<>> /\ source' = <<>>
  /\ UNCHANGED index

----------------------------------------------------------------------------
(* The index builders.                                                     *)

\* The numbers up to n that are in a set, in ascending order, and what a
\* sequence has there.
InTurn(n, S) ==
  LET after[i \in 0 .. n] ==
        IF i = 0 THEN <<>>
        ELSE IF i \in S THEN Append(after[i - 1], i) ELSE after[i - 1]
  IN after[n]
At(s, places) == [k \in DOMAIN places |-> s[places[k]]]

\* parse_source: each lemma begins a block, which has the records behind it.
Parsed(blocks, line) ==
  IF line.type = "le"
  THEN Append(blocks, [lemma |-> LemmaKeys[line.name[1]],
                       ordinal |-> Len(blocks), records |-> <<>>])
  ELSE [blocks EXCEPT ![Len(blocks)].records = Append(@, line)]
parse_source(lines) ==
  LET after[n \in 0 .. Len(lines)] ==
        IF n = 0 THEN <<>> ELSE Parsed(after[n - 1], lines[n])
  IN after[Len(lines)]

discard_empty_blocks(blocks) ==
  At(blocks, InTurn(Len(blocks), {i \in DOMAIN blocks : blocks[i].records # <<>>}))

compare_blocks(left, right) ==
  \/ left.lemma < right.lemma
  \/ left.lemma = right.lemma /\ left.ordinal < right.ordinal
\* qsort with compare_blocks, for which no two blocks are equal.
Orders(n) == {p \in [1 .. n -> 1 .. n] : \A i \in 1 .. n : \E k \in 1 .. n : p[k] = i}
Sorted(blocks) ==
  At(blocks, CHOOSE p \in Orders(Len(blocks)) : \A j, k \in DOMAIN blocks :
               j < k => compare_blocks(blocks[p[j]], blocks[p[k]]))

same_block(left, right) ==
  left.lemma = right.lemma /\ left.records = right.records

\* Whether a block repeats an earlier one: the search goes back from the last
\* one and ends where the lemma changes.  Mutant: it ends at the last one.
RepeatsLast(earlier, b) == earlier # <<>> /\ same_block(Last(earlier), b)
Repeats(earlier, b) ==
  \E p \in DOMAIN earlier :
    /\ same_block(earlier[p], b)
    /\ \A q \in p .. Len(earlier) : earlier[q].lemma = b.lemma

\* gener-index-builder.c compares a block with those it keeps, gener-index.js
\* with all before it.
discard_duplicate_blocks(blocks) ==
  LET after[n \in 0 .. Len(blocks)] ==
        IF n = 0 THEN <<>>
        ELSE IF Repeats(after[n - 1], blocks[n]) THEN after[n - 1]
        ELSE Append(after[n - 1], blocks[n])
  IN after[Len(blocks)]
filtered(blocks) ==
  At(blocks, InTurn(Len(blocks),
                    {i \in DOMAIN blocks : ~ Repeats(SubSeq(blocks, 1, i - 1), blocks[i])}))

\* The tables of the file (write_index and buildGenerIndex): a lemma owns the
\* run of blocks with its key, a block its records.  The file and the records
\* its strings spell; written[i] are those of the first i blocks.
Layout(blocks) ==
  LET begins == InTurn(Len(blocks), {i \in DOMAIN blocks :
                         i = 1 \/ blocks[i - 1].lemma # blocks[i].lemma})
      ends(k) == IF k = Len(begins) THEN Len(blocks) + 1 ELSE begins[k + 1]
      written[i \in 0 .. Len(blocks)] ==
        IF i = 0 THEN <<>> ELSE written[i - 1] \o blocks[i].records
  IN [file |->
        [sound |-> TRUE,
         lemmas |-> [k \in DOMAIN begins |->
                       [key |-> blocks[begins[k]].lemma,
                        first_block |-> begins[k] - 1,
                        block_count |-> ends(k) - begins[k]]],
         blocks |-> [i \in DOMAIN blocks |->
                       [first_record |-> Len(written[i - 1]),
                        record_count |-> Len(blocks[i].records)]],
         records |-> Len(written[Len(blocks)])],
      records |-> written[Len(blocks)]]
write_index(blocks) ==
  Layout(discard_duplicate_blocks(Sorted(discard_empty_blocks(blocks))))
buildGenerIndex(blocks) == Layout(filtered(Sorted(discard_empty_blocks(blocks))))

\* A lemma that is empty once canonical stops either builder.
Build ==
  /\ stage = "written"
  /\ LET blocks == parse_source(prepared)
     IN \/ /\ \A i \in DOMAIN blocks : blocks[i].lemma # 0
           /\ index' \in {write_index(blocks), buildGenerIndex(blocks)}
           /\ stage' = "built"
        \/ /\ \E i \in DOMAIN blocks : blocks[i].lemma = 0
           /\ stage' = "failed" /\ UNCHANGED index
  /\ UNCHANGED <<parser, prepared, source>>

PNext ==
  \/ \E line \in Lines :
       \/ ReadSkipped(line) \/ ReadLemma(line) \/ ReadRecord(line)
       \/ ReadContinuation(line) \/ ReadDerivation(line)
       \/ ReadRequest(line) \/ ReadOther(line)
       \/ \E kind \in Kinds : ReadExcepted(line, kind)
  \/ EndOfFile \/ Write \/ Reject \/ Build

\* The tools alone, on sources of any length up to MaxLines.
Preparation == PInit /\ [][PNext]_toolvars

----------------------------------------------------------------------------
(* Properties.                                                             *)

\* What a line says depends on lines before it, found by looking back for
\* the last one of a set.
LastBefore(i, S) == IF \E j \in S : j < i
                    THEN CHOOSE j \in S : j < i /\ \A k \in S : k < i => k <= j
                    ELSE 0
Follows(type, exception) ==
  {i \in DOMAIN source : /\ source[i].type \in type
                         /\ source[i].exception \in exception}
\* The lines an invalid derivation takes with it.
TakenAlong ==
  {i \in Follows({";", "@"}, {"none"}) :
     \E j \in Follows({"de"}, {"invalid_derivation"}) :
       j < i /\ \A k \in j + 1 .. i : source[k].type \in {";", "@"}}
Plain(type) == Follows(type, {"none"}) \ TakenAlong
Asking == Plain({";"}) \cup Follows({";"}, {"zero_request"})
Deriving == Plain({"de"})
Denied == Follows({"de"}, {"invalid_derivation"})

\* The derivation in force before line i, 0 if there is none: only a lemma,
\* an end of file, a declinable or verbal stem or another derivation ends it.
Ending == Deriving \cup Denied \cup Plain({"le", "eof", "record"})
DerivationOf(i) == LET j == LastBefore(i, Ending)
                   IN IF j \in Deriving THEN j ELSE 0
\* What the derivation in force yields if nobody asks it for anything.
Unasked(i) ==
  LET j == DerivationOf(i)
  IN IF j # 0 /\ ~ \E k \in Asking : j < k /\ k < i
     THEN <<Derived(source[j].name, Default, Nothing)>> ELSE <<>>
\* A continuation continues the last record or request, whichever is nearer,
\* and no further back than the lemma or derivation it belongs to.
Continuable == Plain({"record", "word", "de", "le", "eof"})
                 \cup Asking \cup Denied
Continued(i) ==
  LET j == LastBefore(i, Continuable)
  IN CASE j \in Asking ->
            <<Derived(source[DerivationOf(i)].name, source[j].name, source[i].keys)>>
       [] j \in Plain({"record", "word"}) ->
            <<RecordLine(source[j].name, source[i].keys)>>
       [] OTHER -> <<>>
Says(i) ==
  LET line == source[i]
  IN CASE i \in Plain({"le"}) -> Append(Unasked(i), LemmaLine(line.name))
       [] i \in Plain({"de", "eof"}) \cup Denied -> Unasked(i)
       [] i \in Plain({"record", "word"}) -> <<RecordLine(line.name, line.keys)>>
       [] i \in Plain({"@"}) -> Continued(i)
       [] i \in Plain({";"}) ->
            <<Derived(source[DerivationOf(i)].name, line.name, line.keys)>>
       [] OTHER -> <<>>

\* Every line of the sources has become the records it says where it stands,
\* and nothing else: no continuation, request or class of one derivation,
\* lemma or file reaches another (prepare_file, gener-source-preparer.c:655;
\* docs/gener-corpus.md:51-54).
PreparedRight ==
  stage = "written" => prepared = FlattenSeq([i \in DOMAIN source |-> Says(i)])
=============================================================================
