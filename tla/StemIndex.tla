------------------------------ MODULE StemIndex ------------------------------
(***************************************************************************)
(* The compiled dictionaries and ending lists: how the table tools write   *)
(* them (gkdict/indexstems.c, gkends/indexendtables.c, morphlib/indkeys.c) *)
(* and the two searches with which the engine reads them: through a coarse *)
(* index of truncated keys and a scan (morphlib/retrentry.c, for nominals  *)
(* and indeclinables) and by bisection of all lines (gkends/endindex.c,    *)
(* for verb stems, derivations and endings).                               *)
(*                                                                         *)
(* A key is a sequence of characters, numbers from 1; Class maps those     *)
(* that the comparison table does not tell apart to the same number.  The  *)
(* flags behind a key are a number, an offset is the number of a line.     *)
(* Lines longer than a buffer are left out.  after[n] is what a loop has   *)
(* after n turns.                                                          *)
(***************************************************************************)
EXTENDS Integers, Sequences

CONSTANTS
  KeyLen,    \* KEYLEN
  Class,     \* comparison_table
  Listable,  \* the entries a list may have: keys with their flags
  Probes,    \* the keys that are looked up
  Moduli     \* how many lines a record of the coarse index may stand for

Keyed == Seq(1 .. Len(Class))

ASSUME StemIndexAssumption ==
  /\ KeyLen \in Nat \ {0}
  /\ Class \in Seq(Nat \ {0})
  /\ \A e \in Listable : /\ e = [key |-> e.key, flags |-> e.flags]
                         /\ e.key \in Keyed \ {<<>>}
                         /\ e.flags \in Nat
  /\ \A key \in Probes : key \in Keyed
  /\ \A m \in Moduli : m \in Nat \ {0}

VARIABLE entries   \* the entries of a list, as they were sorted

----------------------------------------------------------------------------
(* Comparisons.  The end of a string and the blank behind a key are below  *)
(* every character.                                                        *)

BLANK == 0
Rank(s, i) == IF i > Len(s) \/ s[i] = BLANK THEN BLANK ELSE Class[s[i]]

\* morphstrcmp: the difference at the first place where the strings differ.
morphstrcmp(s, t) ==
  LET places == {i \in 1 .. Len(s) + Len(t) : Rank(s, i) # Rank(t, i)}
  IN IF places = {} THEN 0
     ELSE LET i == CHOOSE i \in places : \A j \in places : i <= j
          IN Rank(s, i) - Rank(t, i)

Prefix(s, n) == SubSeq(s, 1, IF n < Len(s) THEN n ELSE Len(s))
morphstrncmp(s, t, n) == morphstrcmp(Prefix(s, n), Prefix(t, n))

\* An entry is a key with its flags; zstrcmp compares the whole line.
zstrcmp(a, b) ==
  LET c == morphstrcmp(a.key, b.key) IN IF c # 0 THEN c ELSE a.flags - b.flags

\* The orders in which qsort may leave the entries of a list.
InOrder(list) ==
  \A i \in 1 .. Len(list) - 1 : zstrcmp(list[i], list[i + 1]) <= 0

----------------------------------------------------------------------------
(* Writing.                                                                *)

\* One line per key with the flags of all its entries; flags that repeat
\* those just before them are left out.
Noted(lines, e, prev) ==
  IF morphstrcmp(e.key, prev.key) # 0
  THEN Append(lines, [key |-> e.key, flags |-> <<e.flags>>])
  ELSE IF e.flags = prev.flags THEN lines
  ELSE [lines EXCEPT ![Len(lines)].flags = Append(@, e.flags)]

\* do_index, on sorted entries.
do_index(list) ==
  LET prev(n) == IF n = 1 THEN [key |-> <<>>, flags |-> 0] ELSE list[n - 1]
      after[n \in 0 .. Len(list)] ==
        IF n = 0 THEN <<>> ELSE Noted(after[n - 1], list[n], prev(n))
  IN after[Len(list)]

\* prockeyline: whether a record is written for a line.  Mutant: the key of
\* the line before is not looked at.
DueAlone(nkeys, modulus, cur, prev) == nkeys >= modulus
Due(nkeys, modulus, cur, prev) ==
  nkeys >= modulus /\ morphstrcmp(cur, prev) # 0

\* prockeyline for line n.
Recorded(s, modulus, n, cur, prev) ==
  IF Due(s.nkeys + 1, modulus, cur, prev)
  THEN [nkeys |-> 0, records |-> Append(s.records, [tag |-> cur, line |-> n])]
  ELSE [s EXCEPT !.nkeys = @ + 1]

\* index_list: about every modulus-th line, but never between two lines whose
\* truncated keys are equal.
index_list(lines, modulus) ==
  LET curkey(n) == IF n = 0 THEN <<>> ELSE Prefix(lines[n].key, KeyLen)
      after[n \in 0 .. Len(lines)] ==
        IF n = 0 THEN [nkeys |-> modulus + 1, records |-> <<>>]
        ELSE Recorded(after[n - 1], modulus, n, curkey(n), curkey(n - 1))
  IN after[Len(lines)].records

----------------------------------------------------------------------------
(* Reading.                                                                *)

Missing == <<>>

\* A turn of binlook, which leaves nothing but the end of the part before
\* and with the record that is equal to the tag once it has found it.
Narrowed(s, records, tag) ==
  LET mid == s.low + (s.high - s.low) \div 2
      comp == morphstrcmp(tag, records[mid + 1].tag)
  IN IF s.low >= s.high THEN s
     ELSE IF comp < 0 THEN [s EXCEPT !.high = mid]
     ELSE IF comp > 0 THEN [s EXCEPT !.low = mid + 1]
     ELSE [low |-> mid + 1, high |-> mid + 1]

\* binlook without exact_match: the record equal to the tag or the last one
\* below it, the first one if there is none.
binlook(records, tag) ==
  LET after[n \in 0 .. Len(records)] ==
        IF n = 0 THEN [low |-> 0, high |-> Len(records)]
        ELSE Narrowed(after[n - 1], records, tag)
      low == after[Len(records)].low
  IN IF low > 0 THEN low - 1 ELSE 0

\* ChckPreIndex, on an index that has records: the line to start from.
ChckPreIndex(records, key) ==
  LET at == binlook(records, Prefix(key, KeyLen))
  IN IF at = 0 THEN 1 ELSE records[at + 1].line

\* ChckFullIndex: from a line on, until the key is found or a line is above
\* it.
ChckFullIndex(lines, key, start) ==
  LET comp(n) == morphstrncmp(key, lines[n].key, Len(key))
      Hit(n) == comp(n) = 0 /\ Len(lines[n].key) = Len(key)
      ends == {n \in start .. Len(lines) : comp(n) < 0 \/ Hit(n)}
      last == CHOOSE n \in ends : \A m \in ends : n <= m
  IN IF ends # {} /\ Hit(last) THEN lines[last].flags ELSE Missing

\* chckstem for nominals, chckindecl.
LookUpNominal(lines, records, key) ==
  IF records = <<>> THEN Missing
  ELSE ChckFullIndex(lines, key, ChckPreIndex(records, key))

\* A turn of checkendind: the key with the blank behind it, against a whole
\* line.  A line that is found is all that is left.
Halved(s, lines, key) ==
  LET cur == Append(key, BLANK)
      mid == (s.low + s.high) \div 2
      comp == morphstrncmp(cur, Append(lines[mid + 1].key, BLANK), Len(cur))
  IN IF s.low > s.high THEN s
     ELSE IF comp < 0 THEN [s EXCEPT !.high = mid - 1]
     ELSE IF comp > 0 THEN [s EXCEPT !.low = mid + 1]
     ELSE [low |-> mid, high |-> mid]

checkendind(lines, key) ==
  LET after[n \in 0 .. Len(lines)] ==
        IF n = 0 THEN [low |-> 0, high |-> Len(lines) - 1]
        ELSE Halved(after[n - 1], lines, key)
      s == after[Len(lines)]
  IN IF s.low <= s.high THEN lines[s.low + 1].flags ELSE Missing

----------------------------------------------------------------------------
(* Lists of any entries.                                                   *)

\* One more entry, that sorts behind the others: every list that qsort can
\* leave of what add_newstemkey stored is a sequence of such steps.
AddEntry == \E e \in Listable : entries' = Append(entries, e) /\ InOrder(entries')

Lists == entries = <<>> /\ [][AddEntry]_entries

\* The flags of every entry that was written under a key, or under one the
\* comparison does not tell from it.
FlagsOf(list, key) ==
  {list[i].flags : i \in {j \in 1 .. Len(list) : morphstrcmp(list[j].key, key) = 0}}
FlagsIn(line) == {line[i] : i \in 1 .. Len(line)}

\* Whatever the entries and however coarse the index, both searches find the
\* flags of exactly the entries written under a key: the scan never starts
\* behind the key it looks for (ChckPreIndex and ChckFullIndex in
\* retrentry.c), and neither search takes a prefix for the key.
FoundAsWritten ==
  LET lines == do_index(entries)
  IN \A key \in Probes :
       /\ checkendind(lines, key) \in Seq(Nat)
       /\ FlagsIn(checkendind(lines, key)) = FlagsOf(entries, key)
       /\ \A m \in Moduli :
            FlagsIn(LookUpNominal(lines, index_list(lines, m), key))
              = FlagsOf(entries, key)
=============================================================================
