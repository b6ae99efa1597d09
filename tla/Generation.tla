----------------------------- MODULE Generation -----------------------------
(***************************************************************************)
(* A generation call: the service runs the engine on the records of a      *)
(* lemma (gener/generation_service.c), the normalizer collects and sorts   *)
(* the forms (bridge/generation_normalizer.c), and the public call filters *)
(* them (api/generation.c).  The service context keeps its error from one  *)
(* call to the next.                                                       *)
(*                                                                         *)
(* The walk over the index is GenerationIndex; here a lemma has a number   *)
(* of records, and the engine answers each with forms, or with an error.   *)
(* A form is the rank of its compared fields, and whether the filters of   *)
(* the request accept it.  MCGenerationIndex composes the two.             *)
(***************************************************************************)
EXTENDS Naturals, Sequences, FiniteSets

CONSTANTS
  Ranks,            \* ranks of forms; equal ranks are duplicates
  MaxFormsPerRecord,
  Limits,           \* result limits of requests
  HardLimit,        \* MORPHEUS_GENERATION_MAX_LIMIT
  InitialCapacity   \* 32 in the code

ASSUME GenerationAssumption ==
  /\ Ranks \subseteq Nat /\ Limits \subseteq Nat /\ MaxFormsPerRecord \in Nat
  /\ HardLimit \in Nat \ {0} /\ InitialCapacity \in Nat \ {0}

VARIABLES
  calling,    \* what the call does next
  limit,      \* limit of the request
  left,       \* records the engine has not been run on
  forms,      \* forms of the current record not visited yet
  form_count, \* forms the service has passed on
  collected,  \* records of the collector
  capacity,   \* allocated records
  limit_exceeded, no_memory, \* flags of the collector
  service,    \* status of the service
  error,      \* error of the service context
  answer,     \* status of the call
  result,     \* its records
  \* history of the call: forms produced, allocation failed, engine failed
  produced, oom, failed
call == <<limit, left, forms, form_count>>
collector == <<collected, capacity, limit_exceeded, no_memory>>
outcome == <<answer, result>>
history == <<produced, oom, failed>>
callvars == <<calling, call, collector, service, error, outcome, history>>

Errors == {"NONE", "NO_MEMORY", "INTERNAL"}
Form == [rank : Ranks, accepted : BOOLEAN]
Forms == UNION {[1 .. n -> Form] : n \in 0 .. MaxFormsPerRecord}
Record == [rank : Ranks, accepted : BOOLEAN, source_order : Nat]
NoAnswer == "NONE"

CInit ==
  /\ calling = "idle" /\ limit = 1 /\ left = 0 /\ forms = <<>>
  /\ form_count = 0 /\ collected = <<>> /\ capacity = 0
  /\ limit_exceeded = FALSE /\ no_memory = FALSE
  /\ service = "OK" /\ error = "NONE"
  /\ answer = NoAnswer /\ result = <<>>
  /\ produced = <<>> /\ oom = FALSE /\ failed = FALSE

\* The call returns; what it used is released.
Return(status, records, ranout) ==
  /\ calling' = "idle" /\ answer' = status /\ result' = records
  /\ oom' = (oom \/ ranout)
  /\ left' = 0 /\ forms' = <<>> /\ form_count' = 0
  /\ collected' = <<>> /\ capacity' = 0
  /\ limit_exceeded' = FALSE /\ no_memory' = FALSE /\ service' = "OK"
  /\ UNCHANGED limit

----------------------------------------------------------------------------
(* The service.                                                            *)

\* morpheus_runtime_context_clear_error when a call begins.  Mutant: the
\* call keeps the error of the last one.
ErrorKept(e) == e
ErrorCleared(e) == "NONE"

\* morpheus_generate up to the loop of the service, for a lemma of n
\* records; an index has no lemma without a record.
GenerateLemma(n, l) ==
  /\ calling = "idle"
  /\ calling' = "record"
  /\ limit' = l /\ left' = n
  /\ forms' = <<>> /\ form_count' = 0
  /\ error' = ErrorCleared(error)
  /\ answer' = NoAnswer /\ result' = <<>>
  /\ produced' = <<>> /\ oom' = FALSE /\ failed' = FALSE
  /\ UNCHANGED <<collector, service>>

\* A lemma the index does not have: an empty result.
GenerateUnknown ==
  /\ calling = "idle"
  /\ answer' = "OK" /\ oom' = FALSE
  /\ result' = <<>> /\ produced' = <<>> /\ failed' = FALSE
  /\ UNCHANGED <<calling, call, collector, service, error>>

\* That result cannot be allocated, or calloc fails before the service is
\* asked, or the first call cannot allocate the service or its index.
GenerateWithoutMemory ==
  /\ calling = "idle"
  /\ answer' = "NO_MEMORY" /\ oom' = TRUE
  /\ result' = <<>> /\ produced' = <<>> /\ failed' = FALSE
  /\ UNCHANGED <<calling, call, collector, service, error>>

ServiceReturns(status) ==
  /\ calling' = "normalize" /\ service' = status

\* runtime_status.
RuntimeStatus(e) == IF e = "NO_MEMORY" THEN "NO_MEMORY" ELSE "ENGINE_ERROR"

\* generate_record up to its loop: record_keys, GenStemForms or
\* GenIrregForm, and the checks of what they returned.
RunEngine ==
  /\ calling = "record" /\ left > 0
  /\ \/ \* record_keys fails
        /\ ServiceReturns("NO_MEMORY") /\ oom' = TRUE
        /\ UNCHANGED <<call, error, produced, failed>>
     \/ \* no forms, with or without an error of the engine
        \E e \in Errors :
          /\ error' = IF error = "NONE" THEN e ELSE error
          /\ ServiceReturns(RuntimeStatus(error'))
          /\ oom' = (oom \/ e = "NO_MEMORY")
          /\ failed' = (failed \/ e # "NO_MEMORY")
          /\ UNCHANGED <<call, produced>>
     \/ \* forms, with or without an error of the engine
        \E e \in Errors, f \in Forms :
          /\ error' = IF error = "NONE" THEN e ELSE error
          /\ oom' = (oom \/ e = "NO_MEMORY")
          /\ failed' = (failed \/ e = "INTERNAL")
          /\ IF error' = "NONE"
             THEN /\ forms' = f /\ calling' = "visit" /\ left' = left - 1
                  /\ produced' = produced \o f
                  /\ UNCHANGED <<service, limit, form_count>>
             ELSE /\ ServiceReturns(RuntimeStatus(error'))
                  /\ UNCHANGED <<call, produced>>
  /\ UNCHANGED <<collector, outcome>>

RecordsDone ==
  /\ calling = "record" /\ left = 0
  /\ ServiceReturns("OK")
  /\ UNCHANGED <<call, collector, error, outcome, history>>
RecordDone ==
  /\ calling = "visit" /\ forms = <<>>
  /\ calling' = "record"
  /\ UNCHANGED <<call, collector, service, error, outcome, history>>

----------------------------------------------------------------------------
(* The normalizer.                                                         *)

\* The capacity grow_result asks for.
Grown(n) == LET c == IF n = 0 THEN InitialCapacity ELSE 2 * n
            IN IF c > HardLimit THEN HardLimit ELSE c

\* The order of the forms the collector keeps.  Mutant: it keeps none.
Unordered(f) == [rank |-> f.rank, accepted |-> f.accepted,
                 source_order |-> 0]
Ordered(f) == [rank |-> f.rank, accepted |-> f.accepted,
               source_order |-> Len(collected)]

Collected(f) ==
  /\ collected' = Append(collected, Ordered(f))
  /\ forms' = Tail(forms)
  /\ UNCHANGED <<calling, service, limit_exceeded, no_memory, oom>>
Stopped ==
  /\ ServiceReturns("STOPPED")
  /\ UNCHANGED <<collected, capacity, forms>>

\* One form: form_count, then collect_form with grow_result.
Visit ==
  /\ calling = "visit" /\ forms # <<>>
  /\ form_count' = form_count + 1
  /\ \/ /\ Len(collected) = HardLimit
        /\ limit_exceeded' = TRUE
        /\ Stopped /\ UNCHANGED <<no_memory, oom>>
     \/ /\ Len(collected) < HardLimit /\ Len(collected) = capacity
        /\ \/ /\ Grown(capacity) > capacity
              /\ capacity' = Grown(capacity)
              /\ Collected(Head(forms))
           \/ \* realloc fails, or there is nothing to grow to
              /\ no_memory' = TRUE
              /\ oom' = (oom \/ Grown(capacity) > capacity)
              /\ Stopped /\ UNCHANGED limit_exceeded
     \/ /\ Len(collected) < capacity /\ Len(collected) < HardLimit
        /\ Collected(Head(forms)) /\ UNCHANGED capacity
  /\ UNCHANGED <<limit, left, error, outcome, produced, failed>>

\* service_status and normalize_status, and the checks before them in
\* morpheus_generation_normalize.
NormalizedStatus ==
  CASE limit_exceeded -> "RESULT_LIMIT_EXCEEDED"
    [] ~limit_exceeded /\ no_memory -> "NO_MEMORY"
    [] ~limit_exceeded /\ ~no_memory /\ service = "NO_MEMORY" -> "NO_MEMORY"
    [] ~limit_exceeded /\ ~no_memory /\ service = "OK"
         /\ form_count = Len(collected) -> "OK"
    [] OTHER -> "INTERNAL_ERROR"

\* morpheus_normalized_generation_compare.
Precedes(x, y) ==
  x.rank < y.rank \/ (x.rank = y.rank /\ x.source_order <= y.source_order)

\* What qsort may return: any permutation in order, for it is not stable.
Permuted == {p \in [DOMAIN collected -> DOMAIN collected] :
               \A i, j \in DOMAIN collected : i # j => p[i] # p[j]}
Sortings == {s \in {[k \in DOMAIN collected |-> collected[p[k]]] :
                      p \in Permuted} :
               \A i, j \in DOMAIN s : i < j => Precedes(s[i], s[j])}

Normalize ==
  /\ calling = "normalize"
  /\ IF NormalizedStatus = "OK"
     THEN /\ calling' = "filter"
          /\ collected' \in Sortings
          /\ UNCHANGED <<call, capacity, limit_exceeded, no_memory, service,
                         outcome, oom>>
     ELSE Return(NormalizedStatus, <<>>, FALSE)
  /\ UNCHANGED <<error, produced, failed>>

----------------------------------------------------------------------------
(* The public call.                                                        *)

\* generation_matches, record by record: those of the first n that match.
Accepted ==
  LET Matches[n \in 0 .. Len(collected)] ==
        IF n = 0 THEN <<>>
        ELSE IF collected[n].accepted THEN Append(Matches[n - 1], collected[n])
        ELSE Matches[n - 1]
  IN Matches[Len(collected)]
\* The end of morpheus_generate: the limit, the filters and the copy.
Filter ==
  /\ calling = "filter"
  /\ \/ /\ Len(Accepted) > limit
        /\ Return("RESULT_LIMIT_EXCEEDED", <<>>, FALSE)
     \/ /\ Len(Accepted) <= limit
        /\ \/ Return("OK", Accepted, FALSE)
           \/ Return("NO_MEMORY", <<>>, TRUE)
  /\ UNCHANGED <<error, produced, failed>>

\* A call for a lemma, which has one of the numbers of records given.
Call(sizes) ==
  \/ \E n \in sizes, l \in Limits : GenerateLemma(n, l)
  \/ GenerateUnknown \/ GenerateWithoutMemory
Work == RunEngine \/ RecordsDone \/ RecordDone \/ Visit \/ Normalize \/ Filter

\* The calls alone, for lemmas of any number of records.
Calls == CInit /\ [][Call(Nat \ {0}) \/ Work]_callvars

----------------------------------------------------------------------------
(* Properties.                                                             *)

Matching == {k \in DOMAIN produced : produced[k].accepted}

\* An answer is complete, and its order depends on nothing but the forms:
\* every accepted form of every record is there once, by rank, duplicates in
\* the order the engine produced them.  "returns records in a deterministic
\* total order" (docs/public-api.md:103) although qsort is not stable.
CompleteAndOrdered ==
  answer = "OK" =>
    /\ Len(result) = Cardinality(Matching)
    /\ \A i \in DOMAIN result :
         \E k \in Matching : result[i] = [rank |-> produced[k].rank,
                                          accepted |-> TRUE,
                                          source_order |-> k - 1]
    /\ \A i, j \in DOMAIN result : i < j =>
         \/ result[i].rank < result[j].rank
         \/ /\ result[i].rank = result[j].rank
            /\ result[i].source_order < result[j].source_order

\* A status is explained by what happened in its own call: the service
\* context outlives the call, and three layers translate the status.
StatusExplained ==
  /\ answer = "OK" => ~oom /\ ~failed
  /\ answer = "NO_MEMORY" => oom
  /\ answer = "INTERNAL_ERROR" => failed
  /\ answer = "RESULT_LIMIT_EXCEEDED" =>
       Cardinality(Matching) > limit \/ Len(produced) > HardLimit
  /\ answer # "OK" => result = <<>>
=============================================================================
