---------------------------- MODULE DenoBinding ----------------------------
(***************************************************************************)
(* The Deno binding (bindings/js/deno/mod.ts): classes over foreign        *)
(* functions, without a C layer of their own.  morpheus_analyze and        *)
(* morpheus_generate are declared nonblocking: a thread of the runtime     *)
(* runs them while the main thread goes on; every other function is called *)
(* on the main thread.                                                     *)
(*                                                                         *)
(* What NodeBinding's addon checks, nothing checks here: a context is only *)
(* a pointer, and that nobody uses it after close() rests on the promise   *)
(* chain #tail alone.  A result stays in native memory between the return  *)
(* of the call and the turn of the main thread that copies and frees it.   *)
(* There are no finalizers: what the program forgets to close stays open.  *)
(*                                                                         *)
(* Each action is one turn of the main thread or one step of a runtime     *)
(* thread.  What an exception leaves unchanged is no action.               *)
(***************************************************************************)
EXTENDS Naturals, Sequences, FiniteSets

CONSTANTS
  Contexts,  \* MorpheusContext objects the program may create
  Calls,     \* calls of analyze and generate
  NoCall,    \* the initial #tail, an already resolved promise
  NoContext  \* the context of a call that has not been made

ASSUME NoCallAssumption == NoCall \notin Calls
ASSUME NoContextAssumption == NoContext \notin Contexts
ASSUME FinitenessAssumption == IsFiniteSet(Contexts) /\ IsFiniteSet(Calls)

VARIABLES
  library,  \* the MorpheusLibrary: #contexts, #closed, and #native
  context,  \* the MorpheusContexts
  call,     \* the calls
  results,  \* native results that have not been freed, by their call
  asked     \* history: the calls in the order the program made them
vars == <<library, context, call, results, asked>>

\* closed: #closed; closing: close() waits for the tail.
ContextStates ==
  [closed : BOOLEAN, closing : BOOLEAN, tail : Calls \cup {NoCall},
   native : {"none", "open", "closed"}]
\* "returned" and "failed": the foreign function has returned, and the main
\* thread has not resumed the function that awaits it.
CallStates == [state : {"new", "waiting", "inside", "returned", "failed",
                        "resolved", "rejected"},
               context : Contexts \cup {NoContext},
               after : Calls \cup {NoCall}]

Init ==
  /\ library = [contexts |-> 0, closed |-> FALSE, native |-> "loaded"]
  /\ context = [c \in Contexts |-> [closed |-> FALSE, closing |-> FALSE,
                                    tail |-> NoCall, native |-> "none"]]
  /\ call = [o \in Calls |->
               [state |-> "new", context |-> NoContext, after |-> NoCall]]
  /\ results = {}
  /\ asked = <<>>

Is(o, states) == call[o].state \in states
Settled(o) == o # NoCall => Is(o, {"resolved", "rejected"})
CallsOf(c, states) == {o \in Calls : call[o].context = c /\ Is(o, states)}
Became(o, s) == [call EXCEPT ![o].state = s]

----------------------------------------------------------------------------
(* What the program asks.                                                  *)

\* MorpheusLibrary.createContext, when morpheus_open_path succeeds.
CreateContext(c) ==
  /\ ~library.closed /\ context[c].native = "none"
  /\ context' = [context EXCEPT ![c].native = "open"]
  /\ library' = [library EXCEPT !.contexts = @ + 1]
  /\ UNCHANGED <<call, results, asked>>

\* What a call leaves as #tail: a promise that is fulfilled when the call
\* settles, either way.  Mutant: the tail does not advance.
TailLost(c, o) == context[c].tail
NextTail(c, o) == o

\* MorpheusContext.#enqueue.
Enqueue(c, o) ==
  /\ context[c].native # "none" /\ ~context[c].closed
  /\ Is(o, {"new"})
  /\ call' = [call EXCEPT ![o] = [state |-> "waiting", context |-> c,
                                  after |-> context[c].tail]]
  /\ context' = [context EXCEPT ![c].tail = NextTail(c, o)]
  /\ asked' = Append(asked, o)
  /\ UNCHANGED <<library, results>>

\* MorpheusContext.close up to its await.  A later close returns at once.
RequestClose(c) ==
  /\ context[c].native = "open" /\ ~context[c].closed
  /\ context' = [context EXCEPT ![c].closed = TRUE, ![c].closing = TRUE]
  /\ UNCHANGED <<library, call, results, asked>>

\* MorpheusLibrary.close, which throws while #contexts is not zero.
CloseLibrary ==
  /\ ~library.closed /\ library.contexts = 0
  /\ library' = [library EXCEPT !.closed = TRUE, !.native = "unloaded"]
  /\ UNCHANGED <<context, call, results, asked>>

----------------------------------------------------------------------------
(* What the event loop runs.                                               *)

\* Whether the promise a call left as #tail is fulfilled.  Mutant: a call
\* that was rejected rejects it.
FulfilledBySuccess(o) == o # NoCall => Is(o, {"resolved"})
Fulfilled(o) == Settled(o)

\* MorpheusContext.#analyze and #generate up to the await: the arguments
\* are converted, which may throw, and a thread is given the pointer.
Start(o) ==
  /\ Is(o, {"waiting"}) /\ Fulfilled(call[o].after)
  /\ \E next \in {"inside", "rejected"} : call' = Became(o, next)
  /\ UNCHANGED <<library, context, results, asked>>

\* The results left after the finally clause.  Mutant: a result is freed
\* only when all its records could be copied.
FreedIfCopied(o, copied) == IF copied THEN results \ {o} ELSE results
Freed(o, copied) == results \ {o}

\* The function resumes after its await: a status other than MORPHEUS_OK
\* throws, a record may be refused by morpheus_result_copy.
Resume(o) ==
  /\ \/ Is(o, {"failed"}) /\ call' = Became(o, "rejected") /\ UNCHANGED results
     \/ \E copied \in BOOLEAN :
          /\ Is(o, {"returned"})
          /\ call' = Became(o, IF copied THEN "resolved" ELSE "rejected")
          /\ results' = Freed(o, copied)
  /\ UNCHANGED <<library, context, asked>>

\* What close() waits for.  Mutant: the last call has reached its thread.
TailStarted(c) == context[c].tail # NoCall => ~Is(context[c].tail, {"waiting"})
TailSettled(c) == Fulfilled(context[c].tail)

\* MorpheusContext.close after its await.
FinishClose(c) ==
  /\ context[c].closing /\ TailSettled(c)
  /\ context' = [context EXCEPT ![c].closing = FALSE, ![c].native = "closed"]
  /\ library' = [library EXCEPT !.contexts = @ - 1]
  /\ UNCHANGED <<call, results, asked>>

\* A thread of the runtime returns from morpheus_analyze, morpheus_generate.
NativeReturns(o) ==
  /\ Is(o, {"inside"})
  /\ \/ call' = Became(o, "returned") /\ results' = results \cup {o}
     \/ call' = Became(o, "failed") /\ UNCHANGED results
  /\ UNCHANGED <<library, context, asked>>

Next ==
  \/ \E c \in Contexts : CreateContext(c) \/ RequestClose(c) \/ FinishClose(c)
  \/ \E c \in Contexts, o \in Calls : Enqueue(c, o)
  \/ \E o \in Calls : Start(o) \/ NativeReturns(o) \/ Resume(o)
  \/ CloseLibrary

\* The event loop runs every reaction that is ready and native calls return.
Fairness ==
  /\ \A o \in Calls : WF_vars(Start(o)) /\ WF_vars(NativeReturns(o))
                                        /\ WF_vars(Resume(o))
  /\ \A c \in Contexts : WF_vars(FinishClose(c))

Spec == Init /\ [][Next]_vars /\ Fairness

----------------------------------------------------------------------------
(* Properties.                                                             *)

\* Every variable keeps its type.
TypeOK ==
  /\ library \in [contexts : Nat, closed : BOOLEAN,
                  native : {"loaded", "unloaded"}]
  /\ context \in [Contexts -> ContextStates]
  /\ call \in [Calls -> CallStates]
  /\ results \subseteq Calls
  /\ asked \in Seq(Calls)

\* A call without a result is inside until it is resumed: the text of its
\* status is read then.
Inside(c) == CallsOf(c, {"inside", "failed"})
Native == INSTANCE NativeUse WITH
            library <- library.native,
            context <- [c \in Contexts |-> context[c].native],
            inside <- [c \in Contexts |-> Inside(c)]

\* The promise chain alone keeps the rules of the library: one call of a
\* context at a time, no call on a context that was closed meanwhile, and
\* the library unloaded only when no context is open and every result has
\* been freed, those of calls that failed half-way too (mod.ts:1226-1289).
UsesNativeRightly == Native!Spec

\* Calls on one context reach native code in the order they were made,
\* failed ones included (mod.ts:1243-1245).
InRequestOrder ==
  \A i, j \in 1..Len(asked) :
    i < j /\ call[asked[i]].context = call[asked[j]].context
          /\ ~Is(asked[j], {"new", "waiting"})
      => Settled(asked[i])

\* When every open context has been asked to close, the library can
\* eventually be closed, unless the program opens another: no call, failed
\* or not, and no order of closes leaves #contexts above zero
\* (mod.ts:1135, 1229-1231, 1244).
LibraryReleasable ==
  LET unasked == \E c \in Contexts : context[c].native = "open"
                                    /\ ~context[c].closed
  IN ~unasked ~> (library.contexts = 0 \/ unasked)
=============================================================================
