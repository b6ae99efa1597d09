---------------------------- MODULE NodeBinding ----------------------------
(***************************************************************************)
(* The Node.js binding: the classes of index.js on the main thread, the    *)
(* addon below them (addon.c), and the worker pool that runs native calls. *)
(*                                                                         *)
(* A MorpheusContext chains its calls on a promise, #tail: a call asks the *)
(* addon only when the call before it has settled, and close() waits for   *)
(* the tail.  The addon counts the pending operations of a context and the *)
(* contexts of a library, refuses to close either while its count is not   *)
(* zero, and finalizes what the garbage collector finds unreachable.       *)
(*                                                                         *)
(* One library is loaded.  Each action is one turn of the main thread, or  *)
(* one step of a worker.  What an exception leaves unchanged (a call or a  *)
(* context asked of a closed object, a native open that fails and is       *)
(* undone) is no action.  The teardown of the Node environment is left     *)
(* out.                                                                    *)
(***************************************************************************)
EXTENDS Naturals, Sequences, FiniteSets

CONSTANTS
  Contexts,  \* MorpheusContext objects the program may create
  Calls,     \* calls of analyze and generate
  NoCall,    \* the initial #tail, an already resolved promise
  NoContext, \* the context of a call that has not been made
  Workers    \* threads of the pool

ASSUME NoCallAssumption == NoCall \notin Calls
ASSUME NoContextAssumption == NoContext \notin Contexts
ASSUME WorkersAssumption == Workers \in Nat \ {0}
ASSUME FinitenessAssumption == IsFiniteSet(Contexts) /\ IsFiniteSet(Calls)

VARIABLES
  library,  \* the MorpheusLibrary and its node_morpheus_library
  context,  \* the MorpheusContexts and their node_morpheus_contexts
  call,     \* the calls
  pool,     \* asynchronous work queued for a worker
  asked     \* history: the calls in the order the program made them
vars == <<library, context, call, pool, asked>>

\* held: the program can reach the object; native: the shared library.
Libraries == [held : BOOLEAN, contexts : Nat, closed : BOOLEAN,
              context_count : Nat, native : {"loaded", "unloaded"}]
\* closed, closing: #closed is set, and close() still waits for the tail.
\* returned: a promise of close() has been fulfilled.
\* native, pending, reference: the native context, pending_operations and
\* library_reference of the addon.  collected: the finalizer has run.
ContextStates ==
  [held : BOOLEAN, closed : BOOLEAN, closing : BOOLEAN, returned : BOOLEAN,
   tail : Calls \cup {NoCall}, native : {"none", "open", "closed"},
   pending : Nat, reference : BOOLEAN, collected : BOOLEAN]
CallStates == [state : {"new", "waiting", "queued", "running", "done",
                        "resolved", "rejected"},
               context : Contexts \cup {NoContext},
               after : Calls \cup {NoCall}]

NewContext == [held |-> FALSE, closed |-> FALSE, closing |-> FALSE,
               returned |-> FALSE, tail |-> NoCall, native |-> "none",
               pending |-> 0, reference |-> FALSE, collected |-> FALSE]

Init ==
  /\ library = [held |-> TRUE, contexts |-> 0, closed |-> FALSE,
                context_count |-> 0, native |-> "loaded"]
  /\ context = [c \in Contexts |-> NewContext]
  /\ call = [o \in Calls |->
               [state |-> "new", context |-> NoContext, after |-> NoCall]]
  /\ pool = <<>>
  /\ asked = <<>>

Is(o, states) == call[o].state \in states
Settled(o) == o # NoCall => Is(o, {"resolved", "rejected"})
CallsOf(c, states) == {o \in Calls : call[o].context = c /\ Is(o, states)}
InFlight == {"waiting", "queued", "running", "done"}
Became(o, s) == [call EXCEPT ![o].state = s]

\* A wrapper is reachable from the program, from its own unsettled promise
\* chain, and from a close() that has not returned.
Reachable(c) ==
  \/ context[c].held
  \/ context[c].closing
  \/ CallsOf(c, InFlight) # {}
\* A context's #onClose refers to its MorpheusLibrary, and library_reference
\* to the addon's library.
LibraryReachable ==
  \/ library.held
  \/ \E c \in Contexts : Reachable(c) \/ context[c].reference

----------------------------------------------------------------------------
(* The main thread: what the program asks.                                 *)

\* MorpheusLibrary.createContext.
CreateContext(c) ==
  /\ library.held /\ ~library.closed
  /\ library.native = "loaded"
  /\ context[c].native = "none"
  /\ context' = [context EXCEPT ![c].native = "open",
                                ![c].reference = TRUE, ![c].held = TRUE]
  /\ library' = [library EXCEPT !.context_count = @ + 1, !.contexts = @ + 1]
  /\ UNCHANGED <<call, pool, asked>>

\* What a call leaves as #tail.  Mutant: the tail does not advance.
TailLost(c, o) == context[c].tail
NextTail(c, o) == o

\* MorpheusContext.#enqueue.
Enqueue(c, o) ==
  /\ context[c].held /\ ~context[c].closed
  /\ Is(o, {"new"})
  /\ call' = [call EXCEPT ![o] = [state |-> "waiting", context |-> c,
                                  after |-> context[c].tail]]
  /\ context' = [context EXCEPT ![c].tail = NextTail(c, o)]
  /\ asked' = Append(asked, o)
  /\ UNCHANGED <<library, pool>>

\* MorpheusContext.close, first call: up to its await.
RequestClose(c) ==
  /\ context[c].held /\ ~context[c].closed
  /\ context' = [context EXCEPT ![c].closed = TRUE, ![c].closing = TRUE]
  /\ UNCHANGED <<library, call, pool, asked>>

\* MorpheusContext.close, any later call: it returns at once.
CloseAgain(c) ==
  /\ context[c].held /\ context[c].closed
  /\ context' = [context EXCEPT ![c].returned = TRUE]
  /\ UNCHANGED <<library, call, pool, asked>>

\* MorpheusLibrary.close and node_morpheus_close_library: an exception
\* unless both counts are zero.
CloseLibrary ==
  /\ library.held /\ ~library.closed
  /\ library.contexts = 0 /\ library.context_count = 0
  /\ library' = [library EXCEPT !.closed = TRUE, !.native = "unloaded"]
  /\ UNCHANGED <<context, call, pool, asked>>

\* The program forgets a context, or the library.
Drop(c) ==
  /\ context[c].held
  /\ context' = [context EXCEPT ![c].held = FALSE]
  /\ UNCHANGED <<library, call, pool, asked>>
DropLibrary ==
  /\ library.held
  /\ library' = [library EXCEPT !.held = FALSE]
  /\ UNCHANGED <<context, call, pool, asked>>

----------------------------------------------------------------------------
(* The main thread: what the event loop runs.                              *)

\* What the next call on a context waits for.  Mutant: only a call that
\* succeeded lets the next one run.
RunsAfterSuccess(o) == o # NoCall => Is(o, {"resolved"})
RunsAfter(o) == Settled(o)

\* The reaction on #tail calls node_morpheus_queue_operation, which queues
\* the work or throws.
Start(o) ==
  /\ Is(o, {"waiting"}) /\ RunsAfter(call[o].after)
  /\ LET c == call[o].context
     IN \/ /\ context[c].native = "open"
           /\ context' = [context EXCEPT ![c].pending = @ + 1]
           /\ pool' = Append(pool, o)
           /\ call' = Became(o, "queued")
        \/ /\ call' = Became(o, "rejected")
           /\ UNCHANGED <<context, pool>>
  /\ UNCHANGED <<library, asked>>

\* pending_operations after a completed operation.  Mutant: it is not
\* decremented.
StillPending(n) == n
PendingAfter(n) == n - 1

\* node_morpheus_complete, and the reactions its promise runs.
Complete(o) ==
  /\ Is(o, {"done"})
  /\ \E outcome \in {"resolved", "rejected"} : call' = Became(o, outcome)
  /\ context' = [context EXCEPT ![call[o].context].pending = PendingAfter(@)]
  /\ UNCHANGED <<library, pool, asked>>

\* MorpheusContext.close after its await, with node_morpheus_close_context,
\* which throws while operations are pending.
FinishClose(c) ==
  /\ context[c].closing /\ Settled(context[c].tail)
  /\ IF context[c].pending = 0
     THEN /\ context' = [context EXCEPT ![c].closing = FALSE,
                           ![c].returned = TRUE, ![c].native = "closed",
                           ![c].reference = FALSE]
          /\ library' = [library EXCEPT !.contexts = @ - 1,
                           !.context_count = @ - 1]
     ELSE /\ context' = [context EXCEPT ![c].closing = FALSE]
          /\ UNCHANGED library
  /\ UNCHANGED <<call, pool, asked>>

\* The library after the finalizer of context c.  Mutants: a context that
\* the finalizer closes is not counted down; one that was closed before is
\* counted down again.
FinalizedUncounted(c) == library
FinalizedTwice(c) == [library EXCEPT !.context_count = @ - 1]
Finalized(c) ==
  IF context[c].native = "open"
  THEN [library EXCEPT !.context_count = @ - 1]
  ELSE library

\* node_morpheus_context_finalizer.
Collect(c) ==
  /\ context[c].native # "none" /\ ~context[c].collected
  /\ ~Reachable(c)
  /\ library' = Finalized(c)
  /\ context' = [context EXCEPT ![c].native = "closed",
                    ![c].reference = FALSE, ![c].collected = TRUE]
  /\ UNCHANGED <<call, pool, asked>>

\* node_morpheus_library_finalizer.
CollectLibrary ==
  /\ ~LibraryReachable /\ library.native = "loaded"
  /\ library' = [library EXCEPT !.native = "unloaded"]
  /\ UNCHANGED <<context, call, pool, asked>>

----------------------------------------------------------------------------
(* The worker pool: first come, first served.                              *)

Begin ==
  /\ pool # <<>>
  /\ Cardinality({o \in Calls : Is(o, {"running"})}) < Workers
  /\ call' = Became(Head(pool), "running")
  /\ pool' = Tail(pool)
  /\ UNCHANGED <<library, context, asked>>

\* node_morpheus_execute returns: the results are copied and freed.
End(o) ==
  /\ Is(o, {"running"})
  /\ call' = Became(o, "done")
  /\ UNCHANGED <<library, context, pool, asked>>

Next ==
  \/ \E c \in Contexts :
       \/ CreateContext(c) \/ RequestClose(c) \/ CloseAgain(c) \/ Drop(c)
       \/ FinishClose(c) \/ Collect(c)
  \/ \E c \in Contexts, o \in Calls : Enqueue(c, o)
  \/ \E o \in Calls : Start(o) \/ Complete(o) \/ End(o)
  \/ CloseLibrary \/ DropLibrary \/ CollectLibrary
  \/ Begin

\* The event loop runs every reaction and completion that is ready, workers
\* take queued work, and native calls return.  Nothing is assumed of the
\* program or of the garbage collector.
Fairness ==
  /\ \A o \in Calls : WF_vars(Start(o)) /\ WF_vars(Complete(o))
                                        /\ WF_vars(End(o))
  /\ \A c \in Contexts : WF_vars(FinishClose(c))
  /\ WF_vars(Begin)

Spec == Init /\ [][Next]_vars /\ Fairness

----------------------------------------------------------------------------
(* Properties.                                                             *)

\* Every variable keeps its type; the pool holds the queued calls.
TypeOK ==
  /\ library \in Libraries
  /\ context \in [Contexts -> ContextStates]
  /\ call \in [Calls -> CallStates]
  /\ pool \in Seq(Calls)
  /\ asked \in Seq(Calls)

\* A call is inside the library from the moment a worker runs it until the
\* main thread has completed it: complete still asks the library for the
\* text of a status.  The worker copies and frees the result before it
\* returns, so that none outlives its call.
Inside(c) == CallsOf(c, {"running", "done"})
Native == INSTANCE NativeUse WITH
            library <- library.native,
            context <- [c \in Contexts |-> context[c].native],
            inside <- [c \in Contexts |-> Inside(c)],
            results <- {}

\* The binding uses the library the way its documentation demands: at most
\* one call of a context is in native code, no context is destroyed under a
\* call, and the library is not unloaded under a context, whatever the
\* program closes, drops or forgets (index.js:596-604, addon.c:168-183).
UsesNativeRightly == Native!Spec

\* Calls on one context reach native code in the order they were made,
\* failed ones included: when a call has been handed to the addon, every
\* earlier call on its context has settled.
InRequestOrder ==
  \A i, j \in 1..Len(asked) :
    i < j /\ call[asked[i]].context = call[asked[j]].context
          /\ ~Is(asked[j], {"new", "waiting"})
      => Settled(asked[i])

\* context_count is the number of open native contexts, so that unloading
\* at zero is safe; it never exceeds the wrapper's own count, so that the
\* addon never refuses what MorpheusLibrary.close has accepted; and
\* pending_operations counts the calls between queueing and completion.
CountsExact ==
  /\ library.context_count =
       Cardinality({c \in Contexts : context[c].native = "open"})
  /\ library.context_count <= library.contexts
  /\ \A c \in Contexts : context[c].pending =
       Cardinality(CallsOf(c, {"queued", "running", "done"}))

\* RequestsComplete: every call the program made settles, after failed calls
\* too; and close() reaches the native context: the addon's check for pending
\* operations never turns a requested close away.
CallsSettle ==
  \A o \in Calls : Is(o, {"waiting"}) ~> Settled(o)

CloseCompletes ==
  \A c \in Contexts : context[c].closing ~> context[c].native = "closed"

RequestsComplete == CallsSettle /\ CloseCompletes
=============================================================================
