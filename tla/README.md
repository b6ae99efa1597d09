# A TLA+ model of libmorpheus

libmorpheus analyses inflected Greek and Latin words and generates the forms of
a Greek lemma. It is the Morpheus engine of the 1980s and 1990s, with its global
state moved into *runtime contexts*, behind a small C API and bindings for
Node.js, Deno, Python and WebAssembly. This directory models the parts of it
whose correctness depends on order, sharing or history, and those where two
programs must agree on what a word is; it checks them with TLC and proves the
central ones with TLAPS.

Paths below are relative to the root of the repository. The C sources are
under `src/`, and `anal/`, `api/`, `gkends/`, ... stand for `src/anal/` and so
on.

## 1. The system

| Component | State | Operations | Model |
|---|---|---|---|
| Public API: `api/context.c`, `api/analyze.c`, `api/generation.c`, `compat/compat.c` | public contexts; the generation service a context owns; the options of the call under way | open, close, analyze, generate, compat analyze, accessors of a result | `PublicApi` |
| Runtime context: `morphlib/setlang.c`, `morphlib/runtime_context*.h` | everything the engine used to keep in globals; one thread-local pointer to the active context and one thread-local default context | create, destroy, activate, set language, record and clear the first error | `PublicApi` |
| Node.js binding: `bindings/js/node/index.js`, `addon.c` | a promise chain per context, pending counts, finalizers, a worker pool | create, analyze, generate, close, collect | `NodeBinding` |
| Deno binding: `bindings/js/deno/mod.ts` | a promise chain per context, a count of contexts, results in native memory | the same, without a C layer and without finalizers | `DenoBinding` |
| Python binding: `bindings/python/src/libmorpheus/_library.py` | a lock and a pointer per context, a lock and a count per library | the same, by threads | `PythonBinding` |
| WebAssembly binding: `bindings/js/wasm/index.mjs` | a set of open contexts | synchronous calls on one thread | a special case of `PublicApi` |
| Data and native acquisition: `bindings/js/*/internal/` | output directories, receipts | download, verify, install, remove on failure | `Installation` |
| Generation index: `api/gener_index.c` | an immutable file with three tables that refer to each other | validate and open, look up a lemma, walk its blocks | `GenerationIndex` |
| Generation: `gener/generation_service.c`, `bridge/generation_normalizer.c`, `api/generation.c` | a service context, a growing array of records, flags | run the engine per record, collect, sort, filter, map the status | `Generation` |
| Generation source tools: `tools/gener-source-preparer.c`, `tools/gener-index-builder.c`, `bindings/js/data/internal/gener-index.js` | the lemma, record, derivation and request a line may refer to; a manifest of exceptions | expand a stem source line by line; sort, deduplicate and write the index | `SourceTools` |
| Language tables: `morphlib/morphkeys.c`, `morphlib/preverb3.c`, `morphlib/loadeuph.c`, `gkends/contract.c`, `gkends/getcurrend.c` | keys, preverbs, euphony tables, a ring of 45 ending tables; each with the language it was read for | read at first use, notice a change of language, record a failure | `LanguageTables` |
| Word search: `anal/checkstring.c`, `anal/checkcrasis.c`, `anal/checkword.c` | one `gk_word` with its spelling, dialect and flags; its analyses | about thirty respelling rules, recursively; up to three passes over a Greek word | `WordSearch` |
| Analysis storage: `anal/checkgenwds.c`, `morphlib/gkstring.c` | an array of analyses that the copies of a word share | add or merge a form, extend dialects after a crasis | `AnalysisStorage` |
| Dictionary, ending and stem indexes: `gkdict/dictio.c`, `gkdict/indexstems.c`, `gkends/indexendtables.c`, `gkends/endindex.c`, `morphlib/indkeys.c`, `morphlib/retrentry.c` | sorted lists on disk; a coarse index of them in a context | write a list and its index, look up a key | `StemIndex`; in `PublicApi`, which dictionary or index answers |
| Accents: `morphlib/fixacc.c`, `greeklib/` | none | put a recessive or persistent accent on a form | `Accentuation` |
| Augments: `morphlib/augment.c` | none | prefix a stem; propose stems for a prefixed one | `Augments` |
| Derivations: `gener/derivation.c`, `gkdict/derivio.c`, `greeklib/do_dissim.c` | a cache that is filled and never read | write out derived stems; recognize them | `Derivations` |
| Analysis below one spelling: `anal/checkdict.c`, `checkstem.c`, `checkhalf1.c`, `prvb.c` | stems, preverbs | match a spelling against stems and endings | one set in `WordSearch` |
| Form generator `gener/`, trait tables `bridge/legacy_values.c`, Greek strings `greeklib/` | none that outlives a call | string processing | partly, see above; otherwise data |
| Other programs in `tools/`, and those in `auto/`, `retr/`, `tlg/`, `play/`, `scan/`, `gkdict/newlats.c` | | not part of the library | out |

How they interact: a binding calls the public API; a public call *activates*
its runtime context (a thread-local pointer), runs the engine, which finds the
context through that pointer, and reactivates what was active before. Results
are copied out before the call returns; failures travel as the first error
recorded in the context. The engine reads dictionaries, tables and endings
lazily through the context and keeps them there. Generation runs in a second
runtime context that belongs to a service created by the first generation call.
The stem library the engine reads was written by table tools that share its
string functions, and was put in place by an installer.

What is hard, and what correctness means:

- *Interleaving.* Threads run engines that were written for globals. While a
  call runs it must see its own context and nobody else's, and leave the thread
  as it found it (`EngineIsolated`, `HostContextKept`). Python threads share
  contexts and two kinds of locks (`UsesNativeRightly`, `OperationsReturn`).
- *State that outlives a call.* Options, the error record, caches and the
  service survive in a context; a call must answer for itself only
  (`OptionsScoped`, `StatusFaithful`, `StatusExplained`,
  `DictionaryMatchesRequest`, `AnswersCurrent`).
- *Asynchrony.* Promises, workers, finalizers and close() meet in any order
  (`UsesNativeRightly`, `InRequestOrder`, `CountsExact`,
  `RequestsComplete`, `LibraryReleasable`).
- *Crashes and contention.* An installer may be killed between any two steps
  and race another one for the same directory (`ReceiptMeansComplete`,
  `FailureLeavesNothing`, `OthersUntouched`).
- *Recursion on shared state.* The word search changes one word through six
  mutually recursive functions and must put it back on every path
  (`HandedBack`, `LicenceScoped`), miss nothing and invent nothing
  (`NothingMissed`, `NothingInvented`) and end (`SearchEnds`). Its analyses are merged
  in whatever order they are found (`OneEach`, `DialectsContained`).
- *Two programs that must agree.* What is written under a key must be found
  under it (`FoundAsWritten`); what the generator prefixes the analysis must
  take off (`AugmentUndone`); what the preparer derives the analysis must
  recognize (`DerivedFound`); what two builders write the reader must accept
  and find (`BuiltRight`).
- *Context in a line format.* A continuation or a request belongs to a line far
  above it, unless something in between ended that (`PreparedRight`).
- *Trusting a file.* The walk over an index relies on what was validated once
  (`RecordsPartitioned`, `AnswerRight`).
- *Limits.* A ring of 45 tables, a hard limit of records, growing arrays
  (`RingIsFifo`, `CompleteAndOrdered`).

`PROJECT.json` lists every hazard at its line, with the properties that watch
it.

## 2. The modules

### PublicApi

State: `rt`, the runtime contexts (public, service and thread-default ones)
with language, options, error, dictionary tables and verb index; `active`, the thread-local
pointer; `call`, the call a thread is in; `files`, which data can be read;
`answer`, what the call that just returned answered; `host`, a history variable
with what the host of each thread activated last.

A call is several steps, between which other threads run: `EnterAnalyze`,
`EnterCompat` and `EnterGenerate` are the validation and the early returns in
the order of the code; `Activate` the change of the active context; `Prepare`
clearing the error and setting the options; `EngineFault`,
`AddAnalysisFault`, `NominalLookup` and `VerbLookup` what the engine does to the
context it *finds*; `EngineReturn`, `PrintReturn` and `FinishAnalyze`, `FinishCompat`,
`FinishGenerate` the status checks, the restoration and the return.
`Redeploy` changes which files are readable between calls.

The caller serializes the calls on one context, as `docs/public-api.md`
demands; nothing else is assumed of it. What the engine computes is left out.

### NativeUse and the bindings

`NativeUse` is the contract of the C library, as a caller must keep it: a
context is used only between open and close, by one call at a time, a result is
freed exactly once, and the library is unloaded only when no context is open
and no result is left. `NodeBinding`, `DenoBinding` and `PythonBinding` are
each shown to implement it (`Native == INSTANCE NativeUse WITH ...`,
`UsesNativeRightly`), by three different means:

- `NodeBinding` is the JavaScript classes, the addon and the worker pool. One
  action is one turn of the main thread (`Enqueue`, `Start`, `End`,
  `RequestClose`, `FinishClose`, `Collect`, ...) or one step of a worker
  (`Begin`, `Complete`). Each call remembers the call whose settlement starts
  it, and close() waits for the tail; the addon counts what is pending. A
  finalizer may run whenever its object is unreachable.
- `DenoBinding` has the promise chain alone: a context is a pointer, and
  nothing below JavaScript refuses its misuse. A foreign call returns on
  another thread (`NativeReturns`), and the main thread copies and frees its
  result later (`Resume`).
- `PythonBinding` has threads and locks: an operation is asked for, takes a
  lock, enters and leaves the foreign function, reports to the library.
  Context.close asks for the lock of the library while it holds its own.

The teardown of the Node environment and the conversion of records are left
out.

### Installation

`acquireMorpheusData`, `acquireMorpheusNative` and `setupMorpheus`, in their
Deno and Node versions: check that the directory is not there, make it,
download and verify, write the files one after another, write a receipt last,
remove the directory on a failure; setup removes the native library when the
data fails. Any download, write or removal may fail; an installer may be killed
before any step; installers share the disk. `disk[p]` records who made a
directory, which files are in it, whether they were verified, and what its
receipt vouches for.

### SourceTools, GenerationIndex and Generation

`ValidLayout` translates `valid_layout`, `Probe`/`Miss` the binary search,
`NextBlock`/`NextRecord` the two loops of the walk with their range checks.
A key is its rank under strcmp; header, checksum, string and kind checks are
one Boolean.

In `Generation`, `Call` begins a call with a number of records; `RunEngine`
answers one record with forms or an error, `Visit` passes one form to the
collector, with growth of the array, the hard limit and a failing allocation;
`Normalize` is the sort and `Filter` the public filter and limit. The sort is
modelled as qsort is specified: any order the comparison allows. The service
context and its error are kept from one call to the next. `Calls` is the
specification of the calls alone, for lemmas of any number of records.

`SourceTools` is what makes the index. One action is one line as `prepare_file`
reads it (`ReadLemma`, `ReadRecord`, `ReadContinuation`, `ReadDerivation`,
`ReadRequest`, lines the manifest excepts, lines an invalid derivation takes
along), the end of a file, the output, or an error, after which there is none.
`parser` is `prepare_state`. `Build` is either index builder: `write_index` in
C and `buildGenerIndex` in JavaScript discard duplicates in different ways. The
history `source` is what was read; `Says(i)` says by looking back what line i
stands for, without any state, and `PreparedRight` compares the preparer with
it. Kind, stem and first key of a record are one name, the canonical form of
each spelling of a lemma is a constant, and a derivation writes one record.

`MCGenerationIndex` composes the three: the calls of `Generation` are for the
lemmas of an index that opened, and have as many records as its walk visits;
the index `SourceTools` builds is put before `ValidLayout`, and `BuiltRight`
reads it as the walk does. What the reader makes of a built index is said in
`BuiltIndex`, by an instance of `GenerationIndex` for the file that `Build`
writes.

### LanguageTables

One action per request of the engine: `UseKeys`, `UseLoaded`/`LoadTable` for
preverbs, contractions and euphony, `UseEndings`/`LoadEndings` for the ring;
`SetLanguage` and `BeginCall` (which clears the error) between them. A read may
fail at each of its stages, with each error. A request is one step, since a
context is used by one thread at a time; the files do not change while it
runs. What the tables say is data.

### WordSearch and AnalysisStorage

The recursion of `checkstring1`, `checkstring2`, `checkstring3`, `checkapostr`,
`checkcrasis`/`testcrasis` as a stack of frames over one word; a step is what
one function does between two calls. `Respelled` is a constant: for each rule,
what it makes of a spelling. `library` is the set of entries a spelling can
match: spelling, part of speech, dialect. `CheckWord` and `CheckString4` say
which of them one check adds. Frames keep what the C functions keep in local
variables: the saved word, the stage reached, the respellings left, rval.

The reference definition is `Answers(r)`: the entries reachable by the rules
*as sets*, without order, flags or early returns. `NothingInvented` and
`NothingMissed` compare the search with it.

`AnalysisStorage` is what happens to a form the search has found: `Find`
appends it or merges it with an equivalent analysis, and `EndTest` adds the
dialects of a crasis to everything in the storage. The history `found` says
which forms were found under which crasis.

Italian, for which there is no stem library, and the wording of analyses are
left out.

### StemIndex, Accentuation, Augments, Derivations

Functions, as operators; a list of a dictionary is the one state among them,
beside the inputs that grow:

- `StemIndex`: the variable `entries` is a list in the order `qsort` left it in,
  which `AddEntry` extends at its end. `do_index` and `index_list` write the
  list and its coarse index of truncated keys; `LookUpNominal` (the coarse index
  and a scan, `retrentry.c`) and `checkendind` (bisection, `endindex.c`) read
  it. A loop is a function of its turns (`after[n]`).
- `Accentuation`: `FixRecAcc` and `FixPersAcc2` over the functions for
  syllables and quantities. `AccentLaw` says by the rules of Greek grammar what
  they should give, for words that `AddPiece` extends piece by piece (`word`,
  and in `cuts` where its pieces end).
- `Augments`: `add_augment` and `unaugment` with the tables they share, and the
  reduplication both ways.
- `Derivations`: `write_rule`, with which the preparer derives a stem, and
  `checkforderiv`, with which the analysis recognizes one. Stem types are the
  numbers of `includes/stemtype.h`, since a comparison of them is under test.
  Both functions were compared with the compiled C code over the stems,
  dialects and rules of the runs; they differ only where consonants meet at a
  junction, which the model leaves out.

`MCEngine` puts these and the two state machines of the engine into one run,
as parts that share nothing (`part` chooses): the inputs of the functions grow
from state to state, so that each invariant is evaluated on every input up to
the bounds.

## 3. The runs

| Run | Module | What it explores | Properties | Distinct states |
|---|---|---|---|---|
| `api_sequential` | `MCPublicApi` | one thread, one context, two languages, both ends of the options, every deployment, every fault | `StatusFaithful`, `DictionaryMatchesRequest` | 440,512 |
| `api_concurrent` | `MCPublicApi` | two threads, two contexts, all interleavings | `EngineIsolated`, `OptionsScoped`, `HostContextKept`, `NothingDangles` | 2,270,798 |
| `node_calls` | `MCNodeBinding` | two contexts, three calls, two workers | `InRequestOrder`, `CountsExact`, `UsesNativeRightly`, `RequestsComplete` | 525,746 |
| `deno_calls` | `DenoBinding` | two contexts, three calls | `InRequestOrder`, `UsesNativeRightly`, `LibraryReleasable` | 27,068 |
| `python_threads` | `PythonBinding` | two threads, two contexts, four operations | `UsesNativeRightly`, `OperationsReturn`, no deadlock | 194,525 |
| `installation_races` | `MCInstallation` | two installers, three directories, four jobs, failures and kills anywhere | `ReceiptMeansComplete`, `FailureLeavesNothing`, `OthersUntouched` | 1,629,210 |
| `index_files` | `MCGenerationIndex` | all indexes of up to seven lemmas, all small files, valid files with three lemmas; calls of up to three records of up to two forms, two limits; sources of up to six lines | `AnswerRight`, `RecordsPartitioned`, `CompleteAndOrdered`, `StatusExplained`, `PreparedRight`, `BuiltRight`, `Answered` | 1,439,633 |
| `word_search` | `MCWordSearch` | 19 words, three or four sets of options each, every library of at most two entries | `NothingInvented`, `NothingMissed`, `LicenceScoped`, `HandedBack`, `SearchEnds` | 509,522 |
| `word_latin_ex` | `MCWordSearch` | the same | `ExRespelled` (violated) | |
| `engine_functions` | `MCEngine` | lists of up to four entries; words of up to four pieces; stems of up to five letters with the rules of one class; up to four forms and three crases; requests over two languages, four kinds of endings and a ring of three | `FoundAsWritten`, `Recessive`, `Persistent`, `OneEach`, `DialectsContained`, `AnswersCurrent`, `MissReported`, `RingIsFifo`, `AugmentUndone`, `DerivedFound` | 239,868 |
| `derived_aspirate` | `MCEngine` | the same stems | `PassiveKeepsAspirate` (violated) | |
| `derived_longmark` | `MCEngine` | the same stems | `LongMarkKept` (violated) | |

Why the bounds are enough:

- *Threads and contexts.* Every conflict in `PublicApi` is between two users of
  one context or of one thread; the theorems below lift the bound. The
  symmetry of `api_concurrent` permutes threads and contexts, which appear
  only in quantifiers, and the run checks invariants only.
- *Bindings.* Two calls on one context and one on another make the chain, the
  counts and the parallel use of workers; a third on one context shows a call
  that waits for a waiting one. In Python four operations open two contexts
  and leave two for a call, a close or a close of the library between them.
- *Installers.* The jobs are setups of both bindings that share the directory
  of the data, and single acquisitions of the directories the setups use for
  something else; a third installer would meet the same directory in a state
  one of these two leaves it in.
- *Index.* Seven keys make a search of depth three with an odd and an even
  half; lemmas are asked for inside, between and beyond the keys. Two blocks
  and three records are enough for a range to overlap, leave a gap, start late
  or end beyond its table.
- *Sources.* Six lines, or four with one that is excepted, in any number of
  files: two lemmas, one in two spellings, three blocks of one lemma with
  something between two equal ones; two derivations with a request of the
  first; an invalid derivation with a request and a continuation behind it.
- *Generation.* Six forms against a hard limit of five and an initial capacity
  of two: the array grows twice and is refused; two ranks make duplicates.
- *Words.* Each rule applies to at least one word, and rules follow one
  another (an enclitic after an ex- rule, a capital before -ist); a library
  of two entries makes each of two candidate spellings a hit or a miss
  independently.
- *Lists.* Keys of up to three letters against a record of two: keys that
  share a record, prefixes of one another, and letters the comparison does not
  tell apart; an index with one record for each entry or for two.
- *Accents.* Four pieces are one more syllable than an accent can reach; each
  quantity there is can stand in each of them, and a stem ends at each of them.
- *Stems.* The 27 onsets hold a row of every augment table, with both
  breathings, and consonants of each kind of reduplication; behind one, letters
  for each quantity, an aspirate and the letters that protect a long alpha. The
  rules are those of a class with a perfect and an aorist passive in three
  dialects.
- *Storage.* Four forms of three keys: a second form of a key under the same
  and under another crasis, an array that grows twice from a capacity of one.
- *Tables.* Four kinds of endings in three slots: the ring wraps and replaces;
  two languages make every cache stale. The theorems lift the bounds.

Deadlock is checked in `python_threads` and where the system always has
something to do. It is not where the model may really stop: a program whose
contexts and calls are used up, a file that was rejected, an installer that has
finished, inputs that have reached their bound.

Fairness:

- `NodeBinding`: the event loop runs every reaction and completion that is
  ready, workers take queued work, and native calls return. The program and
  the garbage collector need do nothing.
- `DenoBinding`: the same, without workers: started calls return, and ready
  reactions run.
- `PythonBinding`: an operation whose lock stays free takes it and goes on. A
  lock that is passed around for ever is excluded by the number of operations.
- `GenerationIndex` and `WordSearch`: a C function that was called goes on; no
  step of it waits for anything.
- The others check no liveness.

Properties worth reading closely:

- `OptionsScoped` and `HostContextKept` are about *every* return path, the
  failing ones too.
- `StatusExplained` covers three layers that each translate a status.
- `LicenceScoped` says exactly when each dialect and flag is set, at every
  depth of the recursion.
- `NothingMissed` has two preconditions. `ExWord` is the finding below.
  `Hidden` is a word with an enclitic whose bare form is found but may not
  carry it: the analyses are struck off after `rval` has counted them
  (`anal/checkstring.c:441`-`459`), so the search ends with nothing and no
  crasis is tried. No comment says whether that is meant.
- `DictionaryMatchesRequest` speaks of nominals and indeclinables, whose tables
  the HQ option selects, and of verbs apart: those are answered from one index,
  whatever the option says (section 4).
- `Persistent` leaves out endings of two syllables with a long ultima
  (`po/lews`), longer endings and empty ones: the tables accent the first two,
  and the third does not occur. Of the flags it covers those that put the
  accent on the suffix or the stem (`SUFF_ACC`, `STEM_ACC`). The branches of
  `FixPersAcc2` for contracted, enclitic, proclitic and optionally accented
  forms are modelled but no run and no theorem reaches them, as such forms do
  not follow the law the property states; `Recessive` passes no flags either.
- `DerivedFound` names the derived stems that are *not* recognized: those that
  lost an aspirate, perfects of lemmas with a syllabic augment, perfects of
  stems in ee-, and a long suffix behind an augmented vowel. The first and the
  last are findings; the others are listed in section 4.

## 4. Where the code and its documents differ

Three runs show a disagreement. Each was confirmed on the compiled engine.

1. `word_latin_ex`: the rule that spells Latin exc-, exp-, ext- with an s
   works on the spelling the rules before it left in the word
   (`anal/checkstring.c:709`) and not on the word, so that "expoliatum" is
   retried as "exspoljatum" and not found although "exspoliatum" is in the
   dictionary.
2. `derived_aspirate`: `do_dissim` exempts aorist passives from losing an
   aspirate ("a)riqmh/qhn not a)ritmh/qhn", `greeklib/do_dissim.c:23`), but
   looks for their number under the mask of another field
   (`greeklib/do_dissim.c:30`). The preparer writes `a)ritmhq` for `a)riqme/w`,
   and the analysis does not recognize that stem.
3. `derived_longmark`: the second key of a reduplicated stem with a quantity
   is meant to label the long alpha (`gkdict/derivio.c:374`), but gets the
   suffix twice (`gkdict/derivio.c:464`).

Divergences that the models keep, as the code has them, and no run is about:

- A dictionary index that cannot be opened makes a lookup a miss
  (`morphlib/retrentry.c:40`), and analyze succeeds without the analyses, where
  `docs/public-api.md:53` promises `MORPHEUS_STEMLIB_ERROR` for required data
  that is absent or unreadable.
- An HQ request is answered for verbs from the standard verb stem index:
  `chckstem`, `chckderiv` and `chckirrverb` return what `chckvstem` finds
  (`gkdict/dictio.c:212`, `:161`, `:81`), which looks at no option
  (`gkends/endindex.c:129`), and the code behind these returns is not reached.
  But `gkdict/dictio.c:11` names the HQ list for verbs too, and
  `docs/public-api.md:171` says of the option "Uses the optional HQ dictionary
  backend" without exception.
- A second `close()` of a MorpheusContext returns at once
  (`bindings/js/node/index.js:586`) while queued work is outstanding, where
  `bindings/js/node/README.md:260` says that close waits for queued work.
- A lemma with more forms than the hard limit is answered with
  `MORPHEUS_RESULT_LIMIT_EXCEEDED` whatever the filters accept
  (`api/generation.c:230`), where `docs/public-api.md:54` speaks of records
  that matched.

Observations made while modelling, for whoever maintains the code:

- *Accents.* `is_diphth` does not see a diaeresis that stands behind an accent;
  `quantprim` reads the mark of the next vowel when two vowels meet.
- *Storage.* A crasis stays in a record that is reused
  (`anal/checkgenwds.c:264`); a negative answer of `AndDialect` is stored
  (`anal/checkgenwds.c:374`); which of two equivalent forms gives an analysis
  its other fields depends on the order they are found in.
- *Caches.* The probe for HQ data is kept for the life of a context
  (`api/analyze.c:36`); the derivation cache is filled and never read.
- *Bindings.* In Node the count of contexts stays up after a finalizer has
  closed one (`bindings/js/node/index.js:539`). In Python a KeyboardInterrupt
  between `morpheus_open_path` and the count loses a context.
- *Augments.* Only the first variant of an augmented stem is marked
  (`morphlib/augment.c:557`); where a doubled consonant is undone only the
  first proposal is restricted to the indicative; reduplications are taken off
  that would not be put on (gegn-).
- *Source tools.* A derivation without a request writes nothing when an explicit
  record of a stem follows it (`tools/gener-source-preparer.c:758`); a
  continuation behind a record the manifest excepts continues the record before
  that one (`tools/gener-source-preparer.c:526`).
- *Derivations.* A syllabic reduplication before a vowel is refused
  (`e)ou/rhka` of `ou)re/w`); `write_rule` reduplicates without the dialect of
  the rule, so that Doric rules of a-stems get an eta and stems in ee- the epic
  form.

## 5. What is proved

Each proof module finds an inductive invariant `IInv`, shows that it holds
initially and is kept by each action (one lemma per action), and derives the
theorems from it. All theorems are for every value of the constants, under the
named assumptions in the modules that declare them: special values are not
members of the sets they are special to, and sets whose members are counted are
finite.

- `PublicApiProofs`: `TypeCorrect`, `Isolation`, `Scoping`, `HostRestored`,
  `Faithfulness`, `DictionaryRight` and `NoDangling`: all the invariants of
  `PublicApi`. None of them is inductive. `IInv` adds `CallShape` (what a call
  record holds at each step, in particular what it will reactivate), `AllLive`
  (what a call or a host uses stays open), `Activation` (what the thread-local
  pointer holds at each step), `Exclusive` (no context has two users, which the
  guards on the caller give and `Isolation` needs), `OptionsOwned` (whose
  options a context has, and that what a call saved are the initial ones),
  `ErrorIsFault` (the recorded error *is* the first failure of the running
  call, from which the returned status follows) and `TablesKeyed` (a table was
  loaded under the key recorded with it, a verb index for the language of its
  context). `DictionaryRight` is about the nominals' table and the verbs' index
  separately; that verbs ignore the HQ option is part of what it says.
- `NodeBindingProofs`: `OrderKept`, `CountsRight` and `Refinement`. The chain
  is that of the Deno binding, and `Pooled` says that the pool holds each queued
  call once. What is new is the garbage collector: `Lifecycle` says that a
  context the program can ask is open and that one that is closed, or cannot be
  reached, has no call left; so a finalizer destroys nothing that is in use, and
  takes from the count exactly what it destroys.
- `DenoBindingProofs`: `OrderKept` and `Refinement` (the binding implements
  `NativeUse`). `IInv` is about the chain: a call waits for the last call of its
  context before it, and the tail is the last of all (`Chained`); hence all
  before a call that runs are settled, and all are when close() goes on.
  `Counted` says that #contexts is the number of open contexts.
- `PythonBindingProofs`: `Refinement`. A lock that is taken has a holder and a
  thread has one operation at a time (`Locks`, `OneEach`), so an operation that
  is granted a lock is the only one on its context; `Counts` counts a context
  from the end of its opening to the report of its close.
- `InstallationProofs`: `ReceiptRight`, `FailureRight`, `OthersKept`. The
  argument is one of ownership: from the mkdir on, which fails when the
  directory is there, an installer owns its output (`Holding`), and what is
  true of it when the receipt is written follows from the owner's own steps
  (`Progress`).
- `GenerationProofs`: `PartitionRight`, `SearchRight`, `WalkRight` and
  `AnswersRight`, for files of any size. `valid_layout` compares each entry with the one before it;
  what that says of entries far apart is shown by looking at the least
  counterexample (`Monotone`, `Partition`), with the well-foundedness of the
  natural numbers. The walk visits records in ascending order and has visited
  all before the current one.
  `CallsTyped`, `CallsExplained` and `CallsComplete` are about the calls of
  `Generation`, for lemmas of any number of records. Their invariant `CInv` says
  for each point of a call how its parts account for one another: what the
  collector has, what is left of the current record and what the engine
  produced (the collected forms are a prefix of the produced ones, in their
  order, until they are sorted); and which failure each flag, the status of the
  service and the error of its context stand for. The error is in it because
  the context outlives the call: clearing it at the beginning is what makes it
  an error of *this* call. That the sort and the filter lose and repeat nothing
  is a bijection that is carried along, not a count.
  `SourcesTyped` and `SourcesPrepared` are about `SourceTools` alone, for
  sources of any length. `ToolInv` says that the fields of the parser are what
  looking back over the lines finds: the derivation in force and whether it was
  asked for anything (`InForce`), what a continuation would continue (`Based`),
  whether an invalid derivation takes the next line along (`Skipped`). One
  lemma per set that is looked back for says how a line extends it; that no
  later line changes what an earlier one says (`SaysSame`) needs `Grounded`,
  that a request always has its derivation. `FlattenSeq` is unfolded one line
  at a time (`FlattenAppend`).
  `ToolsBuild` is about `SourceTools` and the reader's view of its result
  (`BuiltIndex`). The state needs little (`BuildInv`: the prepared file begins
  with a lemma, a finished index is what one of the builders makes of it); the
  work is in what the builders compute. A loop is a function of its turns
  (`Turns`) and `Upward` is the induction over them. `ParsedRight` says which
  lines each block has, `Arranged` that blocks can be sorted at all, which is
  what makes the order `qsort` promises one that exists, `KeptRight` and
  `FilteredRight` that the two ways to discard duplicates keep the same blocks,
  the first of those alike: searching back to where the lemma changes is enough
  because sorted blocks of a lemma lie together. `ReaderAccepts` and
  `ReaderFinds` are the reader's half. The two ends are joined by `OneOrder`:
  numbers of a set in ascending order are one sequence, so the blocks found and
  the lines written need only be shown to be the same set.
- `EngineProofs`: `TypeCorrect`, `RightLanguage`, `MissesReported`,
  `RingOrder` and `CountRight` are about `LanguageTables`. `IInv` adds
  `KeysRight`, `TablesRight` and `FreshRing` (a cache that holds something holds
  it for the language recorded beside it). The core is a lemma about the ring:
  inserting a new ending at the write position keeps `Fifo`, with arithmetic
  modulo the size written without `%`.
  `ListsFound` is about `StemIndex`, for lists of any length. The state needs
  no more than `Sorted`; the work is in the loops. `Turns` says of a loop that
  it is a function of its turns and `Upward` is the induction over them, so that
  each loop has one lemma about one turn: `Indexed` (after n entries the lines
  ascend strictly, and the last key's line holds the flags of its entries so
  far), `IndexRight` (a record stands for the first line of its truncated key,
  records ascend strictly), `BinlookRight` and `HalvedRight` (what is sought is
  in the part that is left, and the part gets smaller). The comparison is shown
  to be an order, which a cut at some length respects (`PrefixOrder`); so the
  scan starts at or before the key's line (`StartRight`) and meets no line above
  it on the way. It needs from the constants that no character ranks with the
  end of a string and that no entry has an empty key (`StemIndexAssumption`).
  `AccentsRecede` is about `Accentuation`, for words of any length. `WordRight`
  says of the words that marks and the second vowels of diphthongs stand behind
  what they belong to (`Spelled`), here and in both parts at each cut. From it
  follows what the syllable functions compute: `getsyll` finds the one nucleus
  with so many behind it (`Heard`), `quantprim` the quantity grammar gives it
  (`Quantities`), and an accent that `addaccent` puts in is the only one, on the
  syllable meant, with the word unchanged below it (`Placing`, `Stripped`).
  `Receding` goes through the choices of `FixRecAcc`; that the accent it chooses
  suits the quantities is `Suits`, which implies `Lawful`. `AccentsPersist`
  cuts the word in two: a syllable, its quantity and an accent on it are the
  same in a part and in the word (`PartCounts`, `PartQuantities`, `TailAccent`,
  `HeadAccent`), except that the last syllable of a stem is not final in the
  word. So an accent that suits the ending, or the word's last syllable alone,
  suits the word (`SuitedOn`, `LastSyllable`), and what `FixPersAcc2` puts on
  the stem does by `OnStem` and `BeforeStem`. `Joined` goes through its choices.
- `AnalysisProofs`: `SearchTyped`, `SearchHandsBack`, `SearchScoped` and
  `SearchSound`, for words, respellings, libraries and requests of any kind and number. The stack
  has no bound, so `SearchInv` relates each frame to the next (`Chain`): which
  function calls which, and with which word, given the local variables of the
  caller. What the word at hand may be follows from the innermost frame alone,
  and every return is to a frame that knows what it gave. `LicenceScoped`
  speaks of all frames at once; it follows by asking for the outermost frame
  from which on a licence is not explained by the frames outside it, and finding
  that there is none.
  `SearchSound` says that what is returned is an answer in the sense of
  `Answers`. That is not so while a search runs: below an enclitic the word
  without it is looked up as any part of speech, and checkstring3 strikes off
  afterwards what may not carry it. The invariant `Right` is therefore relative:
  for each frame and part of speech, either a frame that waits further out will
  strike that part off, or whatever the frame may still look up under its word
  is an answer (`Rightly`); the same for the word at hand and for what was
  found. `PushSound`, `StaySound` and `ReturnSound` say what a call, a step and a
  return must show, and there is a lemma for each action. With the last frame
  gone nothing is left that would be struck off (`RightAtLast`). On the side of
  the reference definition the work is in `LeadsOn`: one respelling more stays
  among the candidates, because `Reached` takes as many respellings as there are
  spellings, and a respelling that adds nothing ends the matter (`LedAll`, by
  counting). It needs from the constants that only an enclitic restricts the
  part of speech and only a crasis the dialect -- so the code, where no other
  rule changes either -- and that there are finitely many spellings, since a word
  is no longer than the buffer it is kept in (`MAXWORDSIZE`).
  `OnePerForm`, `DialectsRight` are about `AnalysisStorage`. `TestedAlone` says
  that crases are tested only for a word that had no analyses, from which it
  follows that their dialects reach only what a crasis found.

Only model-checked, and why:

- liveness (`RequestsComplete`, `LibraryReleasable`, `OperationsReturn`,
  `Answered`, `SearchEnds`), which with `ENABLED` is out of reach of TLAPS as it
  is used here;
- `NothingMissed`: it is not true of every table of respellings. Some
  rules of `checkstring3` respell what a failed rule before them has left
  (those not in `RespellsOwn`); that this loses nothing but in the case of `ExWord` is
  a property of the rules for Greek and Latin, which the run gives as data;
- `AugmentUndone` and `DerivedFound`: what recursive definitions or nested
  searches over the letters of a word compute, for every input.

## 6. What is not modelled, and why

- *Legacy programs* (`auto/`, `retr/`, `tlg/`, `play/`, `scan/`,
  `gkdict/newlats.c`, `anal/MorphWind.c`) and the scripts in `tools/`:
  interactive and batch programs that are not built into the library. They are more than 20,000 of the roughly
  54,000 lines of C, and the library about 23,000, so the models stand for a
  larger share of the library than of all lines of the repository.
- *String processing without state*, beyond accents, augments and derived
  stems: euphony where consonants meet, the joining of stems and endings, the
  conversion of traits. The models take its results as tables. In
  `Accentuation` capitals and the doubtful quantity mark are left out, in
  `Augments` stem separators, Latin and compounds, in `Derivations` voices,
  nasal infixes and reduplicated presents.
- *Preverbs and compounds* below one spelling (`anal/prvb.c`, `gkdict/compnoun.c`).
- *The content of the data*: stems, endings, tables.
- *Whether a read of a partly written file is noticed*: files are readable or
  not.
- *Resource exhaustion inside the engine*, beyond that an allocation fails and
  is recorded.
- *The WebAssembly binding*: its calls are those of one thread.
- *Build, benchmarks, tests*: not part of the running library.

## 7. Plan

1. `Preverbs`: what `rstprevb` takes off and `CombPbStem` puts on, as
   `Augments` does for augments, and the recursion of `anal/checkdict.c` over
   both.

## 8. Running it

    tlc -config PublicApi_concurrent.cfg MCPublicApi.tla
    tlapm PublicApiProofs.tla

and likewise for the other configurations (`<module>_<question>.cfg`; those of
`Engine`, `PublicApi`, `NodeBinding`, `WordSearch`, `GenerationIndex` and
`Installation` belong to the `MC` module of that name) and proofs. Definitions
marked *Mutant* are plausible mistakes in the definition that follows them; put
in its place, each makes a property of a run fail. They show that the property
depends on that code.
