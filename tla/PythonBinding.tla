--------------------------- MODULE PythonBinding ---------------------------
(***************************************************************************)
(* The Python binding (bindings/python/src/libmorpheus/_library.py): any   *)
(* thread may use any object.  A Library has a lock for its count of       *)
(* contexts, a Context one for its pointer; ctypes releases the            *)
(* interpreter lock while a foreign function runs, so that nothing else    *)
(* keeps threads apart.                                                    *)
(*                                                                         *)
(* Context.close holds the lock of the context when it asks for the lock   *)
(* of the library; nobody asks in the other order.                         *)
(*                                                                         *)
(* An operation is one call of a method by one thread, blocked while       *)
(* another thread owns the lock it needs.  An action is what a thread does *)
(* between two points where others can be seen to run: taking a lock, and  *)
(* entering or leaving a foreign function.  Exceptions that are raised     *)
(* from outside (KeyboardInterrupt) are left out.                          *)
(***************************************************************************)
EXTENDS Naturals, FiniteSets

CONSTANTS
  Threads,
  Contexts,  \* Context objects
  Ops        \* operations the program may ask for, each once

CONSTANTS NoThread, NoContext
ASSUME NoThreadAssumption == NoThread \notin Threads
ASSUME NoContextAssumption == NoContext \notin Contexts
ASSUME FinitenessAssumption == IsFiniteSet(Contexts)

VARIABLES
  library,  \* the Library: _contexts, _native is not None, _lock
  context,  \* the Contexts: _pointer, the native context, _lock
  op,       \* the operations
  results   \* native results that have not been freed, by their operation
vars == <<library, context, op, results>>

Kinds == {"open", "call", "close", "closeLibrary"}
\* "locked": the operation owns its lock and is inside a foreign function;
\* "reading": a call copies its result; "reporting": close has destroyed
\* the native context and asks for the lock of the library.
OpStates == [at : {"new", "asked", "locked", "reading", "reporting", "done"},
             kind : Kinds, thread : Threads \cup {NoThread},
             context : Contexts \cup {NoContext}]
\* pointer: _pointer is not None.
ContextStates == [pointer : BOOLEAN, native : {"none", "open", "closed"},
                  lock : Threads \cup {NoThread}]

Init ==
  /\ library = [contexts |-> 0, native |-> "loaded", lock |-> NoThread]
  /\ context = [c \in Contexts |->
                  [pointer |-> FALSE, native |-> "none", lock |-> NoThread]]
  /\ op = [o \in Ops |-> [at |-> "new", kind |-> "call", thread |-> NoThread,
                          context |-> NoContext]]
  /\ results = {}

Is(o, kind, at) == op[o].kind = kind /\ op[o].at = at
At(o, at) == [op EXCEPT ![o].at = at]
InFlight(o) == op[o].at \notin {"new", "done"}
Idle(t) == ~\E o \in Ops : InFlight(o) /\ op[o].thread = t
Of(o) == context[op[o].context]
\* An RLock is granted to the thread that has it, too.
Grants(lock, o) == lock \in {NoThread, op[o].thread}

\* A thread calls a method.  A Context is only there to be used when
\* Library.context has returned it.
Ask(o, t, kind, c) ==
  /\ op[o].at = "new" /\ Idle(t)
  /\ CASE kind = "open" -> c # NoContext /\ context[c].native = "none"
                          /\ ~\E p \in Ops : InFlight(p) /\ op[p].context = c
       [] kind \in {"call", "close"} ->
            c # NoContext /\ context[c].native # "none"
       [] kind = "closeLibrary" -> c = NoContext
  /\ op' = [op EXCEPT ![o] = [at |-> "asked", kind |-> kind, thread |-> t,
                              context |-> c]]
  /\ UNCHANGED <<library, context, results>>

----------------------------------------------------------------------------
(* Library.context                                                         *)

\* Up to morpheus_open_path: an exception when the library is closed.
BeginOpen(o) ==
  /\ Is(o, "open", "asked") /\ Grants(library.lock, o)
  /\ IF library.native = "loaded"
     THEN /\ library' = [library EXCEPT !.lock = op[o].thread]
          /\ op' = At(o, "locked")
     ELSE /\ op' = At(o, "done")
          /\ UNCHANGED library
  /\ UNCHANGED <<context, results>>

FinishOpen(o) ==
  /\ Is(o, "open", "locked")
  /\ \/ /\ context' = [context EXCEPT ![op[o].context].pointer = TRUE,
                                      ![op[o].context].native = "open"]
        /\ library' = [library EXCEPT !.contexts = @ + 1, !.lock = NoThread]
     \/ /\ library' = [library EXCEPT !.lock = NoThread]
        /\ UNCHANGED context
  /\ op' = At(o, "done")
  /\ UNCHANGED results

----------------------------------------------------------------------------
(* Context.analyze_raw, Context.generate_raw                               *)

\* Whether a call may go on to the foreign function.  Mutant: it does not
\* take the lock of its context first.
MayCallUnlocked(o) == TRUE
MayCall(o) == Grants(Of(o).lock, o)

BeginCall(o) ==
  /\ Is(o, "call", "asked") /\ MayCall(o)
  /\ IF Of(o).pointer
     THEN /\ context' = [context EXCEPT ![op[o].context].lock = op[o].thread]
          /\ op' = At(o, "locked")
     ELSE /\ op' = At(o, "done")
          /\ UNCHANGED context
  /\ UNCHANGED <<library, results>>

\* The lock of a context after an operation on it has raised an exception.
\* Mutant: it is released only on return.
LockKept(c) == context[c].lock
LockAfterFailure(c) == NoThread

\* The foreign function returns, with a result or with an error.
NativeReturns(o) ==
  /\ Is(o, "call", "locked")
  /\ \/ /\ op' = At(o, "reading")
        /\ results' = results \cup {o}
        /\ UNCHANGED context
     \/ /\ op' = At(o, "done")
        /\ context' = [context EXCEPT ![op[o].context].lock =
                                        LockAfterFailure(op[o].context)]
        /\ UNCHANGED results
  /\ UNCHANGED library

\* The records are copied, or one cannot be; the result is freed.
FinishCall(o) ==
  /\ Is(o, "call", "reading")
  /\ results' = results \ {o}
  /\ context' = [context EXCEPT ![op[o].context].lock = NoThread]
  /\ op' = At(o, "done")
  /\ UNCHANGED library

----------------------------------------------------------------------------
(* Context.close, Library._context_closed and Library.close                *)

\* Up to _on_close; the lock of the context stays with the thread.
BeginClose(o) ==
  /\ Is(o, "close", "asked") /\ Grants(Of(o).lock, o)
  /\ IF Of(o).pointer
     THEN /\ context' = [context EXCEPT
                           ![op[o].context] = [pointer |-> FALSE,
                              native |-> "closed", lock |-> op[o].thread]]
          /\ op' = At(o, "reporting")
     ELSE /\ op' = At(o, "done")
          /\ UNCHANGED context
  /\ UNCHANGED <<library, results>>

ReportClose(o) ==
  /\ Is(o, "close", "reporting") /\ Grants(library.lock, o)
  /\ library' = [library EXCEPT !.contexts = @ - 1]
  /\ context' = [context EXCEPT ![op[o].context].lock = NoThread]
  /\ op' = At(o, "done")
  /\ UNCHANGED results

\* When Library.close may drop the library.  Mutant: it does not take the
\* lock, and so may come between morpheus_open_path and the count.
MayDropUnlocked(o) == library.contexts = 0
MayDrop(o) == library.contexts = 0 /\ Grants(library.lock, o)

\* An exception while there are contexts.
CloseLibrary(o) ==
  /\ Is(o, "closeLibrary", "asked")
  /\ \/ MayDrop(o) /\ library' = [library EXCEPT !.native = "unloaded"]
     \/ library.contexts # 0 /\ Grants(library.lock, o) /\ UNCHANGED library
  /\ op' = At(o, "done")
  /\ UNCHANGED <<context, results>>

Step(o) ==
  \/ BeginOpen(o) \/ FinishOpen(o)
  \/ BeginCall(o) \/ NativeReturns(o) \/ FinishCall(o)
  \/ BeginClose(o) \/ ReportClose(o)
  \/ CloseLibrary(o)

Next ==
  \/ \E o \in Ops, t \in Threads, k \in Kinds, c \in Contexts \cup {NoContext} :
       Ask(o, t, k, c)
  \/ \E o \in Ops : Step(o)
  \/ (\A o \in Ops : op[o].at = "done") /\ UNCHANGED vars

\* A thread goes on when it can.  Since every operation is asked for once,
\* a lock is not contended for ever, and weak fairness is enough.
Fairness == \A o \in Ops : WF_vars(Step(o))

Spec == Init /\ [][Next]_vars /\ Fairness

----------------------------------------------------------------------------
(* Properties.                                                             *)

\* Every variable keeps its type; a lock that is taken is owned by a thread
\* whose operation needs it.
TypeOK ==
  /\ library \in [contexts : Nat, native : {"loaded", "unloaded"},
                  lock : Threads \cup {NoThread}]
  /\ context \in [Contexts -> ContextStates]
  /\ op \in [Ops -> OpStates]
  /\ results \subseteq Ops

\* open_path is a use of the library: between its two steps the context is
\* neither open nor counted, and the library must stay.
InsideCall(c) == {o \in Ops : op[o].context = c /\ Is(o, "call", "locked")}
Native == INSTANCE NativeUse WITH
            Calls <- Ops,
            library <- library.native,
            context <- [c \in Contexts |-> context[c].native],
            inside <- [c \in Contexts |-> InsideCall(c)],
            results <- results

\* With two locks and without any other synchronization the binding keeps
\* the rules of the library under every schedule of the threads: no two
\* calls of a context at once, no call on or after its destruction, and no
\* library dropped under an open context, one that is being opened included
\* (_library.py:143-172, 217-255, 311-320).
UsesNativeRightly == Native!Spec

\* Every method that was called returns or raises, whoever fails or closes
\* meanwhile: no thread keeps a lock it does not need any more, and the two
\* locks are never waited for in a circle (_library.py:311-320, 179-181).
OperationsReturn == \A o \in Ops : op[o].at = "asked" ~> op[o].at = "done"
=============================================================================
