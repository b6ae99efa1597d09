----------------------------- MODULE PublicApi -----------------------------
(***************************************************************************)
(* The public calls of libmorpheus (api/context.c, api/analyze.c,          *)
(* api/generation.c, compat/compat.c) over the runtime contexts of         *)
(* morphlib/setlang.c.                                                     *)
(*                                                                         *)
(* All engine state lives in a runtime context.  The engine never receives *)
(* that context as an argument: it finds it through the thread-local       *)
(* pointer active_context, which falls back to a thread-local default      *)
(* context.  A call therefore activates its context, runs the engine and   *)
(* reactivates what was active before; the analysis options are fields of  *)
(* the context, set before the engine runs and put back afterwards; an     *)
(* engine failure is the first error the engine records in the context it  *)
(* finds.  Generation runs in a second context, owned by a service that    *)
(* the first generation call of a context creates.                         *)
(*                                                                         *)
(* Threads interleave between the steps of their calls.  The caller        *)
(* serializes the calls on one context (docs/public-api.md, "Ownership and *)
(* concurrency"); nothing else is assumed of it.                           *)
(***************************************************************************)
EXTENDS Naturals, FiniteSets

CONSTANTS
  Threads,     \* threads of the host program
  Contexts,    \* contexts the host opens
  Requests,    \* option words a caller passes to morpheus_analyze
  Languages,   \* languages a context may be opened for
  Deployments, \* states of the language data the program may meet
  Faults,      \* failures the calls may meet: "NO_MEMORY", "INTERNAL"
  NoContext    \* the NULL context pointer

Errors == {"NONE", "NO_MEMORY", "INTERNAL"}
Statuses == {"OK", "INVALID_ARGUMENT", "INPUT_TOO_LONG", "NO_MEMORY",
             "INTERNAL_ERROR", "STEMLIB_ERROR", "RESULT_LIMIT_EXCEEDED"}
Dialects == {"unset", "none", "some"}   \* wanted_dialects with its flag

Public(c)  == [kind |-> "public",  id |-> c]   \* morpheus_open
Service(c) == [kind |-> "service", id |-> c]   \* its generation service's
Default(t) == [kind |-> "default", id |-> t]   \* thread-local default_context
Heap == {Public(c) : c \in Contexts} \cup {Service(c) : c \in Contexts}
Runtime == Heap \cup {Default(t) : t \in Threads}

Options == [crasis_disabled : BOOLEAN, quick : BOOLEAN, hq : BOOLEAN,
            dialects : Dialects]
\* The options of a zeroed context.
InitialOptions == [crasis_disabled |-> FALSE, quick |-> FALSE, hq |-> FALSE,
                   dialects |-> "unset"]

ASSUME RequestsAssumption ==
  Requests \subseteq [crasis_disabled : BOOLEAN, quick : BOOLEAN,
                      hq : BOOLEAN, dialects : {"none", "some"}]
ASSUME LanguagesAssumption ==
  "GREEK" \in Languages /\ Languages \subseteq {"GREEK", "LATIN"}
\* lindex: the pre-index of the standard dictionary of nominals; vbind: the
\* verb stem index; hq: the two files the HQ dictionary needs; gener: the
\* generation index.
Files == [lindex : BOOLEAN, vbind : BOOLEAN, hq : BOOLEAN, gener : BOOLEAN]
ASSUME DeploymentsAssumption == Deployments \subseteq Files
ASSUME FaultsAssumption == Faults \subseteq {"NO_MEMORY", "INTERNAL"}
ASSUME NoContextAssumption == NoContext \notin Runtime

\* What a dictionary pre-index was loaded from: language directory and
\* file, the standard index or the HQ one.
Keys == [language : Languages, hq : BOOLEAN]
NoKey == [language |-> "none", hq |-> FALSE]

RuntimeRecord == [live : BOOLEAN, language : Languages, error : Errors,
                  storage_error : BOOLEAN, options : Options,
                  hq_checked : BOOLEAN, hq_available : BOOLEAN,
                  tag_key : Keys \cup {NoKey}, tags : Keys \cup {NoKey},
                  verb_stem_index : Languages \cup {"none"}]
\* calloc in morpheus_runtime_context_create, then set_language.
Zeroed(lang) == [live |-> TRUE, language |-> lang, error |-> "NONE",
                 storage_error |-> FALSE, options |-> InitialOptions,
                 hq_checked |-> FALSE, hq_available |-> FALSE,
                 tag_key |-> NoKey, tags |-> NoKey,
                 verb_stem_index |-> "none"]
Released == [Zeroed("GREEK") EXCEPT !.live = FALSE]

VARIABLES
  rt,      \* the runtime contexts
  active,  \* active_context of each thread
  call,    \* the call each thread is in
  files,   \* language data that can be read now
  answer,  \* what the call that returned in the last step answered
  host     \* history: what each thread's host last activated
vars == <<rt, active, call, files, answer, host>>

Apis == {"none", "analyze", "compat", "generate"}
Steps == {"idle", "activate", "prepare", "engine", "print", "finish"}
CallRecord == [step : Steps, api : Apis, context : Contexts \cup {NoContext},
               target : Runtime \cup {NoContext},
               previous : Runtime \cup {NoContext}, options : Options,
               saved : Options, word : BOOLEAN,
               fault : Errors, missed : BOOLEAN, served : Keys \cup {NoKey}]
NoCall == [step |-> "idle", api |-> "none", context |-> NoContext,
           target |-> NoContext, previous |-> NoContext,
           options |-> InitialOptions, saved |-> InitialOptions,
           word |-> FALSE, fault |-> "NONE",
           missed |-> FALSE, served |-> NoKey]

\* A status with two facts of the call it answers: the first failure the
\* call met, and whether a dictionary index could not be read.
Answers == [status : Statuses, fault : Errors, missed : BOOLEAN]
Answer(s, fault) == [status |-> s, fault |-> fault, missed |-> FALSE]
NoAnswer == Answer("OK", "NONE")

Init ==
  /\ rt = [r \in Runtime |->
             IF r \in Heap THEN Released ELSE Zeroed("GREEK")]
  /\ active = [t \in Threads |-> NoContext]
  /\ call = [t \in Threads |-> NoCall]
  /\ files \in Deployments
  /\ answer = NoAnswer
  /\ host = [t \in Threads |-> NoContext]

----------------------------------------------------------------------------
(* The runtime context.                                                    *)

\* morpheus_runtime_context_current.
Current(t) == IF active[t] = NoContext THEN Default(t) ELSE active[t]

\* morpheus_runtime_context_activate: active_context is thread-local.
\* Mutant: it is a plain static.
ActivatedEverywhere(t, r) == [u \in Threads |-> r]
Activated(t, r) == [active EXCEPT ![t] = r]

\* What morpheus_runtime_context_destroy leaves of the destroying thread's
\* pointer.  Mutant: it leaves the pointer alone.
StillActive(t, destroyed) == active
Deactivated(t, destroyed) ==
  [active EXCEPT ![t] = IF @ \in destroyed THEN NoContext ELSE @]

\* Mutant: the last error wins.
RecordedLast(x, e) == [x EXCEPT !.error = e]
\* morpheus_runtime_error_record: the first error of a call stays.
Recorded(x, e) == IF x.error = "NONE" THEN [x EXCEPT !.error = e] ELSE x

\* morpheus_runtime_context_clear_error.
Cleared(x) == [x EXCEPT !.error = "NONE", !.storage_error = FALSE]

\* morpheus_runtime_status, compat_runtime_status and, through
\* normalize_status, the generation service's runtime_status.
RuntimeStatus(e) == CASE e = "NO_MEMORY" -> "NO_MEMORY"
                      [] e = "INTERNAL"  -> "INTERNAL_ERROR"
                      [] OTHER           -> "OK"

\* restore_request_state.  Mutant: it forgets the dialects.
RestoredButDialects(x, saved) ==
  [x EXCEPT !.options = [saved EXCEPT !.dialects = x.options.dialects]]
Restored(x, saved) == [x EXCEPT !.options = saved]

\* The dictionary tables answer for one language and one HQ mode:
\* dictionary_context drops them when either has changed.  It does not drop
\* the verb stem index.
DictionaryKey(x) == [language |-> x.language, hq |-> x.options.hq]
\* Mutant: the HQ mode is not compared.
DictionaryContextByLanguage(x) ==
  IF x.tag_key.language = x.language THEN x
  ELSE [x EXCEPT !.tag_key = DictionaryKey(x), !.tags = NoKey]
DictionaryContext(x) ==
  IF x.tag_key = DictionaryKey(x) THEN x
  ELSE [x EXCEPT !.tag_key = DictionaryKey(x), !.tags = NoKey]

Readable(key) == IF key.hq THEN files.hq ELSE files.lindex

Idle(t) == call[t].step = "idle"
InCall(c) == \E t \in Threads : ~Idle(t) /\ call[t].context = c
\* The contexts a thread may still dereference.
Holds(t) == {active[t], host[t]} \cup
            IF Idle(t) THEN {} ELSE {call[t].previous}
\* The serialization a caller owes to a context: no call is in progress on
\* it, and no other thread has it active.
Serialized(t, c) ==
  /\ ~InCall(c)
  /\ \A u \in Threads \ {t} : Public(c) \notin Holds(u)

\* A call goes on past its validation, with runtime context r.
Proceed(t, api, c, r, opts) ==
  /\ call' = [call EXCEPT ![t] = [NoCall EXCEPT !.step = "activate",
                 !.api = api, !.context = c, !.target = r, !.options = opts]]
  /\ answer' = NoAnswer
\* A call returns status s without having run the engine.
Refuse(s, fault) == answer' = Answer(s, fault) /\ UNCHANGED call

----------------------------------------------------------------------------
(* Opening and closing.                                                    *)

\* morpheus_open: the files are validated, then the context and the copy of
\* its path are allocated; a failed allocation leaves nothing behind.
Open(t, c) ==
  /\ Idle(t) /\ ~rt[Public(c)].live
  /\ \/ /\ files.lindex /\ files.vbind
        /\ \E lang \in Languages :
             rt' = [rt EXCEPT ![Public(c)] = Zeroed(lang)]
        /\ Refuse("OK", "NONE")
     \/ /\ files.lindex /\ files.vbind /\ "NO_MEMORY" \in Faults
        /\ Refuse("NO_MEMORY", "NO_MEMORY")
        /\ UNCHANGED rt
     \/ /\ ~files.lindex \/ ~files.vbind
        /\ Refuse("STEMLIB_ERROR", "NONE")
        /\ UNCHANGED rt
  /\ UNCHANGED <<active, files, host>>

\* morpheus_close: the service first, then the context; the pointer of the
\* closing thread is reset when it is the destroyed context.
Close(t, c) ==
  /\ Idle(t) /\ rt[Public(c)].live /\ Serialized(t, c)
  /\ rt' = [rt EXCEPT ![Service(c)] = Released, ![Public(c)] = Released]
  /\ active' = Deactivated(t, {Public(c), Service(c)})
  /\ host' = [host EXCEPT ![t] = IF @ = Public(c) THEN NoContext ELSE @]
  /\ answer' = NoAnswer
  /\ UNCHANGED <<call, files>>

\* A host that links the runtime directly (the generation tools, the tests)
\* activates a context, or NULL, around its own calls.
HostActivate(t) ==
  /\ Idle(t)
  /\ \E r \in {Public(c) : c \in {d \in Contexts :
                 rt[Public(d)].live /\ Serialized(t, d)}} \cup {NoContext} :
       /\ active' = Activated(t, r)
       /\ host' = [host EXCEPT ![t] = r]
  /\ answer' = NoAnswer
  /\ UNCHANGED <<rt, call, files>>

\* Deployment of language data while contexts are open.
Redeploy ==
  /\ files' \in Deployments \ {files}
  /\ answer' = NoAnswer
  /\ UNCHANGED <<rt, active, call, host>>

----------------------------------------------------------------------------
(* The three calls, up to the point where they activate their context.     *)

\* hq_dictionary_available: probed once in the life of a context.
HqProbed(x) == IF x.hq_checked THEN x
               ELSE [x EXCEPT !.hq_checked = TRUE, !.hq_available = files.hq]

\* morpheus_analyze: option words, then the HQ probe, then the input.
EnterAnalyze(t, c) ==
  /\ Idle(t) /\ rt[Public(c)].live /\ Serialized(t, c)
  /\ \E q \in Requests :
       LET x == rt[Public(c)]
           y == IF q.hq THEN HqProbed(x) ELSE x
       IN  \/ /\ q.dialects = "some" /\ x.language # "GREEK"
              /\ Refuse("INVALID_ARGUMENT", "NONE")
              /\ UNCHANGED rt
           \/ /\ q.dialects = "none" \/ x.language = "GREEK"
              /\ rt' = [rt EXCEPT ![Public(c)] = y]
              /\ IF q.hq /\ ~y.hq_available
                 THEN Refuse("STEMLIB_ERROR", "NONE")
                 ELSE \/ Proceed(t, "analyze", c, Public(c), q)
                      \/ Refuse("INVALID_ARGUMENT", "NONE")
                      \/ Refuse("INPUT_TOO_LONG", "NONE")
  /\ UNCHANGED <<active, files, host>>

\* morpheus_compat_analyze: the output buffer is allocated first.
EnterCompat(t, c) ==
  /\ Idle(t) /\ rt[Public(c)].live /\ Serialized(t, c)
  /\ \/ Proceed(t, "compat", c, Public(c), InitialOptions)
     \/ Refuse("INVALID_ARGUMENT", "NONE")
     \/ Refuse("INPUT_TOO_LONG", "NONE")
     \/ "NO_MEMORY" \in Faults /\ Refuse("NO_MEMORY", "NO_MEMORY")
  /\ UNCHANGED <<rt, active, files, host>>

\* morpheus_generate up to the index lookup: ensure_generation_service opens
\* the index and creates the service unless an earlier call has; a lemma the
\* index does not hold ends the call with an empty result.
EnterGenerate(t, c) ==
  LET Lookup == \/ Proceed(t, "generate", c, Service(c), InitialOptions)
                \/ Refuse("OK", "NONE")
                \/ "NO_MEMORY" \in Faults /\ Refuse("NO_MEMORY", "NO_MEMORY")
  IN
  /\ Idle(t) /\ rt[Public(c)].live /\ Serialized(t, c)
  /\ IF rt[Public(c)].language # "GREEK"
     THEN Refuse("INVALID_ARGUMENT", "NONE") /\ UNCHANGED rt
     ELSE \/ Refuse("INVALID_ARGUMENT", "NONE") /\ UNCHANGED rt
          \/ rt[Service(c)].live /\ Lookup /\ UNCHANGED rt
          \/ /\ ~rt[Service(c)].live /\ files.gener
             /\ \/ /\ rt' = [rt EXCEPT ![Service(c)] = Zeroed("GREEK")]
                   /\ Lookup
                \/ "NO_MEMORY" \in Faults /\ Refuse("NO_MEMORY", "NO_MEMORY") /\ UNCHANGED rt
          \/ /\ ~rt[Service(c)].live /\ ~files.gener
             /\ Refuse("STEMLIB_ERROR", "NONE") /\ UNCHANGED rt
  /\ UNCHANGED <<active, files, host>>

----------------------------------------------------------------------------
(* The engine run.                                                         *)

\* morpheus_runtime_context_activate returns what current() was.
Activate(t) ==
  /\ call[t].step = "activate"
  /\ call' = [call EXCEPT ![t].step = "prepare", ![t].previous = Current(t)]
  /\ active' = Activated(t, call[t].target)
  /\ answer' = NoAnswer
  /\ UNCHANGED <<rt, files, host>>

\* clear_error, and for morpheus_analyze apply_request_options.
Prepare(t) ==
  LET r == call[t].target
      x == Cleared(rt[r])
  IN
  /\ call[t].step = "prepare"
  /\ IF call[t].api = "analyze"
     THEN /\ rt' = [rt EXCEPT ![r] = [x EXCEPT !.options = call[t].options]]
          /\ call' = [call EXCEPT ![t].step = "engine",
                                  ![t].saved = x.options]
     ELSE /\ rt' = [rt EXCEPT ![r] = x]
          /\ call' = [call EXCEPT ![t].step = "engine"]
  /\ answer' = NoAnswer
  /\ UNCHANGED <<active, files, host>>

FirstFault(old, e) == IF old = "NONE" THEN e ELSE old

\* The engine records error e and carries on with what it has.
EngineError(t, e) ==
  /\ rt' = [rt EXCEPT ![Current(t)] = Recorded(@, e)]
  /\ call' = [call EXCEPT ![t].fault = FirstFault(@, e)]

EngineFault(t) ==
  /\ call[t].step \in {"engine", "print"}
  /\ \E e \in Faults : EngineError(t, e)
  /\ answer' = NoAnswer
  /\ UNCHANGED <<active, files, host>>

\* AddAnalysis: once the analysis storage has failed, every later addition
\* of the call is refused and records an internal error.
AddAnalysisFault(t) ==
  LET r == Current(t) IN
  /\ call[t].step = "engine" /\ call[t].api # "generate"
  /\ \E e \in Faults \cup {"INTERNAL"} :
       /\ e \in Faults \/ rt[r].storage_error
       /\ rt[r].storage_error => e = "INTERNAL"
       /\ rt' = [rt EXCEPT ![r] = Recorded([@ EXCEPT !.storage_error = TRUE], e)]
       /\ call' = [call EXCEPT ![t].fault = FirstFault(@, e)]
  /\ answer' = NoAnswer
  /\ UNCHANGED <<active, files, host>>

\* chckindecl, and chckstem for nominals: the table of the current key is
\* loaded when it is not there.  init_preind records a failed allocation, but
\* when the .lindex file cannot be opened it only returns NULL: ChckPreIndex
\* then finds no entry and the word goes unmatched.  (chckstem also loads a
\* table of verbs from the same dictionary, which nothing reads.)
NominalLookup(t) ==
  LET r == Current(t)
      x == DictionaryContext(rt[r])
      key == DictionaryKey(rt[r])
  IN
  /\ call[t].step = "engine" /\ call[t].api # "generate"
  /\ \/ /\ x.tags # NoKey
        /\ rt' = [rt EXCEPT ![r] = x]
        /\ call' = [call EXCEPT ![t].served = x.tags]
     \/ /\ x.tags = NoKey /\ Readable(key)
        /\ rt' = [rt EXCEPT ![r] = [x EXCEPT !.tags = key]]
        /\ call' = [call EXCEPT ![t].served = key]
     \/ /\ x.tags = NoKey /\ Readable(key) /\ "NO_MEMORY" \in Faults
        /\ rt' = [rt EXCEPT ![r] = Recorded(x, "NO_MEMORY")]
        /\ call' = [call EXCEPT ![t].fault = FirstFault(@, "NO_MEMORY"),
                                ![t].served = NoKey]
     \/ /\ x.tags = NoKey /\ ~Readable(key)
        /\ rt' = [rt EXCEPT ![r] = x]
        /\ call' = [call EXCEPT ![t].missed = TRUE, ![t].served = NoKey]
  /\ answer' = NoAnswer
  /\ UNCHANGED <<active, files, host>>

\* chckvstem, in which chckstem for verbs, chckderiv and chckirrverb end: verbs
\* are looked up in an index of their own, loaded once in the life of a context
\* (load_end_index) and the same in either HQ mode.  When it cannot be read
\* an error is recorded.
VerbLookup(t) ==
  LET r == Current(t)
      x == DictionaryContext(rt[r])
  IN
  /\ call[t].step = "engine" /\ call[t].api # "generate"
  /\ \/ /\ x.verb_stem_index # "none"
        /\ rt' = [rt EXCEPT ![r] = x]
        /\ UNCHANGED call
     \/ /\ x.verb_stem_index = "none" /\ files.vbind
        /\ rt' = [rt EXCEPT ![r] = [x EXCEPT !.verb_stem_index = x.language]]
        /\ UNCHANGED call
     \/ /\ x.verb_stem_index = "none"
        /\ \E e \in Faults \cup {"INTERNAL"} :
             /\ e \in Faults \/ ~files.vbind
             /\ rt' = [rt EXCEPT ![r] = Recorded(x, e)]
             /\ call' = [call EXCEPT ![t].fault = FirstFault(@, e)]
  /\ answer' = NoAnswer
  /\ UNCHANGED <<active, files, host>>

\* morpheus_check_word returns a word, or NULL for blank input and after a
\* failure; the loop over the generation records ends with all forms, or at
\* the record that failed.
EngineReturn(t) ==
  /\ call[t].step = "engine"
  /\ \E w \in BOOLEAN :
       /\ call' = [call EXCEPT ![t].word = w, ![t].step =
            IF call[t].api = "compat" /\ w /\ rt[call[t].target].error = "NONE"
            THEN "print" ELSE "finish"]
  /\ answer' = NoAnswer
  /\ UNCHANGED <<rt, active, files, host>>

\* PrntAnalyses of the compatibility call, whose errors are checked again.
PrintReturn(t) ==
  /\ call[t].step = "print"
  /\ call' = [call EXCEPT ![t].step = "finish"]
  /\ answer' = NoAnswer
  /\ UNCHANGED <<rt, active, files, host>>

----------------------------------------------------------------------------
(* The end of a call.                                                      *)

\* The call of t ends with status s.  Mutant: the thread is left on its
\* default context.
LeaveToDefault(t, s, fault) ==
  /\ answer' = [status |-> s, fault |-> FirstFault(call[t].fault, fault),
                missed |-> call[t].missed]
  /\ call' = [call EXCEPT ![t] = NoCall]
  /\ active' = Activated(t, NoContext)
Leave(t, s, fault) ==
  /\ answer' = [status |-> s, fault |-> FirstFault(call[t].fault, fault),
                missed |-> call[t].missed]
  /\ call' = [call EXCEPT ![t] = NoCall]
  /\ active' = Activated(t, call[t].previous)

\* Whatever the outcome, the options are put back (restore_request_state)
\* and the previous context is activated again.
FinishAnalyze(t) ==
  LET r == call[t].target
      s == RuntimeStatus(rt[r].error)
  IN
  /\ call[t].step = "finish" /\ call[t].api = "analyze"
  /\ \/ s # "OK" /\ Leave(t, s, "NONE")
     \/ s = "OK" /\ ~call[t].word /\ Leave(t, "INVALID_ARGUMENT", "NONE")
     \/ s = "OK" /\ call[t].word /\ "NO_MEMORY" \in Faults
        /\ Leave(t, "NO_MEMORY", "NO_MEMORY")
     \/ s = "OK" /\ call[t].word /\ Leave(t, "OK", "NONE")
  /\ rt' = [rt EXCEPT ![r] = Restored(@, call[t].saved)]
  /\ UNCHANGED <<files, host>>

\* The output stream is flushed last, which may fail.
FinishCompat(t) ==
  LET s == RuntimeStatus(rt[call[t].target].error) IN
  /\ call[t].step = "finish" /\ call[t].api = "compat"
  /\ \/ s # "OK" /\ Leave(t, s, "NONE")
     \/ s = "OK" /\ ~call[t].word /\ Leave(t, "INVALID_ARGUMENT", "NONE")
     \/ s = "OK" /\ call[t].word /\ "INTERNAL" \in Faults
        /\ Leave(t, "INTERNAL_ERROR", "INTERNAL")
     \/ s = "OK" /\ call[t].word /\ Leave(t, "OK", "NONE")
  /\ UNCHANGED <<rt, files, host>>

\* generate_record asks for the engine's error first, and reports an engine
\* error when it got no forms without one; the collector's visitor may run
\* into the limit or out of memory, and so may the filtered copy.
FinishGenerate(t) ==
  LET s == RuntimeStatus(rt[call[t].target].error) IN
  /\ call[t].step = "finish" /\ call[t].api = "generate"
  /\ \/ s # "OK" /\ Leave(t, s, "NONE")
     \/ s = "OK" /\ ~call[t].word /\ "INTERNAL" \in Faults
        /\ Leave(t, "INTERNAL_ERROR", "INTERNAL")
     \/ s = "OK" /\ call[t].word /\ Leave(t, "RESULT_LIMIT_EXCEEDED", "NONE")
     \/ s = "OK" /\ call[t].word /\ "NO_MEMORY" \in Faults
        /\ Leave(t, "NO_MEMORY", "NO_MEMORY")
     \/ s = "OK" /\ call[t].word /\ Leave(t, "OK", "NONE")
  /\ UNCHANGED <<rt, files, host>>

Step(t) ==
  \/ \E c \in Contexts : \/ Open(t, c) \/ Close(t, c)
                         \/ EnterAnalyze(t, c) \/ EnterCompat(t, c)
                         \/ EnterGenerate(t, c)
  \/ HostActivate(t)
  \/ Activate(t) \/ Prepare(t)
  \/ EngineFault(t) \/ AddAnalysisFault(t)
  \/ NominalLookup(t) \/ VerbLookup(t)
  \/ EngineReturn(t) \/ PrintReturn(t)
  \/ FinishAnalyze(t) \/ FinishCompat(t) \/ FinishGenerate(t)

Next == Redeploy \/ \E t \in Threads : Step(t)

Spec == Init /\ [][Next]_vars

----------------------------------------------------------------------------
(* Properties.                                                             *)

TypeOK ==
  /\ rt \in [Runtime -> RuntimeRecord]
  /\ active \in [Threads -> Runtime \cup {NoContext}]
  /\ call \in [Threads -> CallRecord]
  /\ files \in Files
  /\ answer \in Answers
  /\ host \in [Threads -> Runtime \cup {NoContext}]

Running(t) == call[t].step \in {"prepare", "engine", "print", "finish"}

(* While a call runs, the context the engine finds is the call's own, it is *)
(* alive, and no other thread's engine finds the same one (activate and     *)
(* current, setlang.c; "distinct contexts may be used concurrently").       *)
EngineIsolated ==
  \A t \in Threads : Running(t) =>
    /\ Current(t) = call[t].target
    /\ rt[Current(t)].live
    /\ \A u \in Threads \ {t} : Current(u) # Current(t)

(* Request options are scoped to one morpheus_analyze call: the engine sees *)
(* exactly the options of its own call, and outside such a call a context   *)
(* has the options it was opened with (apply_request_options and            *)
(* restore_request_state on every return path).                             *)
OptionsScoped ==
  /\ \A t \in Threads : call[t].step \in {"engine", "print", "finish"} =>
       rt[call[t].target].options = call[t].options
  /\ \A r \in Runtime :
       (\A t \in Threads : Running(t) => call[t].target # r)
         => rt[r].options = InitialOptions

(* A call leaves the thread as it found it: outside calls the context the   *)
(* engine would find is the one the host activated, or the thread default   *)
(* (every path of the three calls reactivates previous).                    *)
HostContextKept ==
  \A t \in Threads : Idle(t) =>
    Current(t) = IF host[t] = NoContext THEN Default(t) ELSE host[t]

(* A call reports the first failure it met itself and no other: an error    *)
(* left by an earlier call on the context is never reported again, and an   *)
(* engine error is never lost (clear_error, the first-error rule of         *)
(* morpheus_runtime_error_record, and the status checks before results).    *)
StatusFaithful ==
  IF answer.fault = "NONE"
  THEN answer.status \notin {"NO_MEMORY", "INTERNAL_ERROR"}
  ELSE answer.status = IF answer.fault = "NO_MEMORY" THEN "NO_MEMORY"
                       ELSE "INTERNAL_ERROR"

(* Every answer about a nominal or an indeclinable comes from the table of  *)
(* the context's language and of the HQ mode the call asked for, whatever   *)
(* the calls before it had loaded (dictionary_context): offsets of one      *)
(* index are never used in the file of another.  Verbs are answered from    *)
(* the standard index of the context's language, which no option changes    *)
(* (chckvstem).                                                             *)
DictionaryMatchesRequest ==
  /\ \A t \in Threads :
       call[t].step \in {"engine", "print", "finish"} /\ call[t].served # NoKey =>
         call[t].served = [language |-> rt[call[t].target].language,
                           hq |-> call[t].options.hq]
  /\ \A r \in Runtime : rt[r].verb_stem_index \in {"none", rt[r].language}

(* A generation service lives and dies with its context, and no thread      *)
(* keeps a destroyed context active (morpheus_close).                       *)
NothingDangles ==
  /\ \A c \in Contexts : rt[Service(c)].live => rt[Public(c)].live
  /\ \A t \in Threads : rt[Current(t)].live
=============================================================================
