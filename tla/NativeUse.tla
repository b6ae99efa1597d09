----------------------------- MODULE NativeUse -----------------------------
(***************************************************************************)
(* How a program may use the C library (docs/public-api.md, "Ownership and *)
(* concurrency"): contexts are opened from a loaded library, distinct      *)
(* contexts may be used at the same time, the calls on one context, its    *)
(* destruction included, are serialized, a result belongs to the caller    *)
(* until it is freed, whatever becomes of its context, and the library is  *)
(* unloaded only when every context has been destroyed and every result    *)
(* freed.  The bindings owe this to the library: PublicApi assumes it of   *)
(* its callers; NodeBinding, DenoBinding and PythonBinding are shown to    *)
(* implement it.                                                           *)
(***************************************************************************)
CONSTANTS
  Contexts,  \* native contexts
  Calls      \* native calls

VARIABLES
  library,  \* "loaded" or "unloaded"
  context,  \* "none", "open" or "closed", per context
  inside,   \* the calls that are inside the library, per context
  results   \* the calls whose native result has not been freed
vars == <<library, context, inside, results>>

TypeOK ==
  /\ library \in {"loaded", "unloaded"}
  /\ context \in [Contexts -> {"none", "open", "closed"}]
  /\ inside \in [Contexts -> SUBSET Calls]
  /\ results \subseteq Calls

Init ==
  /\ library = "loaded"
  /\ context = [c \in Contexts |-> "none"]
  /\ inside = [c \in Contexts |-> {}]
  /\ results = {}

\* morpheus_open, morpheus_open_path.
Open(c) ==
  /\ library = "loaded" /\ context[c] = "none"
  /\ context' = [context EXCEPT ![c] = "open"]
  /\ UNCHANGED <<library, inside, results>>

\* morpheus_analyze and morpheus_generate.
Enter(c, o) ==
  /\ library = "loaded" /\ context[c] = "open" /\ inside[c] = {}
  /\ inside' = [inside EXCEPT ![c] = {o}]
  /\ UNCHANGED <<library, context, results>>

\* They return, with a result or without; a caller may keep the context to
\* itself until it has read and freed the result.
Leave(c, o) ==
  /\ inside[c] = {o}
  /\ inside' = [inside EXCEPT ![c] = {}]
  /\ results' \in {results, results \cup {o}}
  /\ UNCHANGED <<library, context>>

\* morpheus_result_free, morpheus_generation_result_free.
Free(o) ==
  /\ library = "loaded" /\ o \in results
  /\ results' = results \ {o}
  /\ UNCHANGED <<library, context, inside>>

\* morpheus_close.
Destroy(c) ==
  /\ library = "loaded" /\ context[c] = "open" /\ inside[c] = {}
  /\ context' = [context EXCEPT ![c] = "closed"]
  /\ UNCHANGED <<library, inside, results>>

Unload ==
  /\ library = "loaded" /\ results = {}
  /\ \A c \in Contexts : context[c] # "open"
  /\ library' = "unloaded"
  /\ UNCHANGED <<context, inside, results>>

Next ==
  \/ \E c \in Contexts : Open(c) \/ Destroy(c)
  \/ \E c \in Contexts, o \in Calls : Enter(c, o) \/ Leave(c, o)
  \/ \E o \in Calls : Free(o)
  \/ Unload

Spec == Init /\ [][Next]_vars
=============================================================================
