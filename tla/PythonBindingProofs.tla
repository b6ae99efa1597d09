------------------------ MODULE PythonBindingProofs ------------------------
(***************************************************************************)
(* Two kinds of locks make the Python binding keep the rules of the C      *)
(* library, for any threads, contexts and operations.                      *)
(*                                                                         *)
(* The argument: a lock that is taken has a holder, and a thread has one   *)
(* operation at a time, so that an operation which is granted a lock is    *)
(* the only one on its context; and #_contexts counts a context from the   *)
(* end of its opening to the report of its close, so that it is not zero   *)
(* while one is open.                                                      *)
(***************************************************************************)
EXTENDS PythonBinding, FiniteSetTheorems, TLAPS

\* The operations that have the lock of their context, or of the library.
Holds(o) == \/ op[o].kind = "call" /\ op[o].at \in {"locked", "reading"}
            \/ Is(o, "close", "reporting")
Opening(o) == Is(o, "open", "locked")

\* Contexts that are counted.
Counted == {c \in Contexts :
              \/ context[c].native = "open"
              \/ \E o \in Ops : Is(o, "close", "reporting") /\ op[o].context = c}

\* Where an operation may be, and on what.
Shapes ==
  \A o \in Ops :
    /\ InFlight(o) =>
         /\ op[o].thread \in Threads
         /\ op[o].kind # "closeLibrary" => op[o].context \in Contexts
    /\ op[o].at = "locked" => op[o].kind \in {"open", "call"}
    /\ op[o].at = "reading" => op[o].kind = "call"
    /\ op[o].at = "reporting" => op[o].kind = "close"

\* A thread runs one operation at a time.
OneEach ==
  \A o, p \in Ops :
    InFlight(o) /\ InFlight(p) /\ op[o].thread = op[p].thread => o = p

Locks ==
  /\ \A o \in Ops : Holds(o) => context[op[o].context].lock = op[o].thread
  /\ \A c \in Contexts : context[c].lock # NoThread =>
       \E o \in Ops : Holds(o) /\ op[o].context = c
  /\ \A o \in Ops : Opening(o) => /\ library.lock = op[o].thread
                                  /\ library.native = "loaded"
  /\ library.lock # NoThread => \E o \in Ops : Opening(o)

\* A context is used, opened or closed in the state for it.
Lifecycle ==
  /\ \A c \in Contexts : context[c].pointer <=> context[c].native = "open"
  /\ \A o \in Ops :
       /\ op[o].kind = "call" /\ Holds(o) => context[op[o].context].native = "open"
       /\ Is(o, "close", "reporting") => context[op[o].context].native = "closed"
       /\ InFlight(o) /\ op[o].kind \in {"call", "close"} =>
            context[op[o].context].native # "none"
       /\ InFlight(o) /\ op[o].kind = "open" =>
            /\ context[op[o].context].native = "none"
            /\ \A p \in Ops : InFlight(p) /\ op[p].context = op[o].context => p = o

Counts ==
  /\ library.contexts = Cardinality(Counted)
  /\ library.native = "unloaded" => Counted = {}
  /\ results = {o \in Ops : Is(o, "call", "reading")}

IInv == TypeOK /\ Shapes /\ OneEach /\ Locks /\ Lifecycle /\ Counts

----------------------------------------------------------------------------
LEMMA CountedFinite == IsFiniteSet(Counted)
<1>1. Counted \subseteq Contexts
  BY DEF Counted
<1> QED BY <1>1, FinitenessAssumption, FS_Subset

LEMMA Initially == Init => IInv
<1> SUFFICES ASSUME Init PROVE IInv
  OBVIOUS
<1>1. \A o \in Ops : op[o].at = "new" /\ op[o].kind = "call"
  BY DEF Init
<1>2. \A c \in Contexts : /\ context[c].native = "none" /\ ~ context[c].pointer
                          /\ context[c].lock = NoThread
  BY DEF Init
<1>3. TypeOK
  BY DEF Init, TypeOK, ContextStates, OpStates, Kinds
<1>4. Shapes /\ OneEach
  BY <1>1 DEF Shapes, OneEach, InFlight
<1>5. Locks /\ Lifecycle
  BY <1>1, <1>2 DEF Init, Locks, Lifecycle, Holds, Opening, Is, InFlight
<1>6. Counted = {} /\ {o \in Ops : Is(o, "call", "reading")} = {}
  BY <1>1, <1>2 DEF Counted, Is
<1>7. Counts
  BY <1>6, FS_EmptySet DEF Init, Counts
<1> QED BY <1>3, <1>4, <1>5, <1>7 DEF IInv

\* An operation that is granted a lock finds it free.
LEMMA Granted ==
  ASSUME IInv, NEW o \in Ops, op[o].at = "asked"
  PROVE  /\ op[o].context \in Contexts /\ Grants(Of(o).lock, o) =>
              /\ context[op[o].context].lock = NoThread
              /\ \A p \in Ops : Holds(p) => op[p].context # op[o].context
         /\ Grants(library.lock, o) =>
              library.lock = NoThread /\ \A p \in Ops : ~ Opening(p)
<1>1. InFlight(o) /\ ~ Holds(o) /\ ~ Opening(o) /\ op[o].thread \in Threads
  BY DEF InFlight, Holds, Opening, Is, IInv, Shapes
<1>2. \A p \in Ops : Holds(p) \/ Opening(p) => InFlight(p) /\ op[p].thread \in Threads
  BY DEF InFlight, Holds, Opening, Is, IInv, Shapes
<1>3. ASSUME op[o].context \in Contexts, Grants(Of(o).lock, o)
      PROVE  /\ context[op[o].context].lock = NoThread
             /\ \A p \in Ops : Holds(p) => op[p].context # op[o].context
  <2>1. ASSUME NEW p \in Ops, Holds(p), op[p].context = op[o].context
        PROVE  FALSE
    <3>1. context[op[o].context].lock = op[p].thread
      BY <2>1 DEF IInv, Locks
    <3>2. op[p].thread = op[o].thread
      BY <1>2, <1>3, <2>1, <3>1, NoThreadAssumption DEF Grants, Of
    <3>3. p = o
      BY <1>1, <1>2, <2>1, <3>2 DEF IInv, OneEach
    <3> QED BY <1>1, <2>1, <3>3
  <2> QED BY <1>3, <2>1 DEF IInv, Locks
<1>4. ASSUME Grants(library.lock, o)
      PROVE  library.lock = NoThread /\ \A p \in Ops : ~ Opening(p)
  <2>1. ASSUME NEW p \in Ops, Opening(p)
        PROVE  FALSE
    <3>1. library.lock = op[p].thread
      BY <2>1 DEF IInv, Locks
    <3>2. op[p].thread = op[o].thread
      BY <1>2, <1>4, <2>1, <3>1, NoThreadAssumption DEF Grants
    <3>3. p = o
      BY <1>1, <1>2, <2>1, <3>2 DEF IInv, OneEach
    <3> QED BY <1>1, <2>1, <3>3
  <2> QED BY <2>1 DEF IInv, Locks
<1> QED BY <1>3, <1>4

\* Two operations do not hold the lock of one context.
LEMMA OneHolder ==
  ASSUME IInv, NEW o \in Ops, NEW p \in Ops, Holds(o), Holds(p),
         op[o].context = op[p].context
  PROVE  o = p
<1>1. InFlight(o) /\ InFlight(p)
  BY DEF InFlight, Holds, Is
<1>2. op[o].thread = op[p].thread
  BY DEF IInv, Locks
<1> QED BY <1>1, <1>2 DEF IInv, OneEach

LEMMA OneOpening ==
  ASSUME IInv, NEW o \in Ops, NEW p \in Ops, Opening(o), Opening(p)
  PROVE  o = p
<1>1. InFlight(o) /\ InFlight(p)
  BY DEF InFlight, Opening, Is
<1>2. op[o].thread = op[p].thread
  BY DEF IInv, Locks
<1> QED BY <1>1, <1>2 DEF IInv, OneEach

\* An operation goes on: what it is and what the others do stays.
LEMMA Advances ==
  ASSUME IInv, NEW o \in Ops, op[o].at \notin {"new", "done"},
         NEW s \in {"locked", "reading", "reporting", "done"}, op' = At(o, s),
         s = "locked" => op[o].kind \in {"open", "call"},
         s = "reading" => op[o].kind = "call",
         s = "reporting" => op[o].kind = "close"
  PROVE  /\ op' \in [Ops -> OpStates]
         /\ op'[o].at = s /\ op'[o].kind = op[o].kind
         /\ op'[o].thread = op[o].thread /\ op'[o].context = op[o].context
         /\ \A p \in Ops \ {o} : op'[p] = op[p]
         /\ \A p \in Ops : op'[p].context = op[p].context
         /\ Shapes' /\ OneEach'
<1>1. op \in [Ops -> OpStates] /\ op[o] \in OpStates
  BY DEF IInv, TypeOK
<1>2. /\ op' \in [Ops -> OpStates]
      /\ op'[o].at = s /\ op'[o].kind = op[o].kind
      /\ op'[o].thread = op[o].thread /\ op'[o].context = op[o].context
      /\ \A p \in Ops \ {o} : op'[p] = op[p]
  BY <1>1 DEF At, OpStates
<1>3. \A p \in Ops : op'[p].context = op[p].context
  BY <1>2
<1>4. \A p \in Ops : InFlight(p)' => InFlight(p) /\ op'[p].thread = op[p].thread
                                     /\ op'[p].kind = op[p].kind
  BY <1>2 DEF InFlight
<1>5. Shapes'
  BY <1>2, <1>3, <1>4 DEF IInv, Shapes, InFlight
<1>6. OneEach'
  BY <1>4 DEF IInv, OneEach
<1> QED BY <1>2, <1>3, <1>5, <1>6

----------------------------------------------------------------------------
\* A thread calls a method: nothing is held yet.
LEMMA AskStep ==
  ASSUME IInv, NEW o \in Ops, NEW t \in Threads, NEW k \in Kinds,
         NEW c \in Contexts \cup {NoContext}, Ask(o, t, k, c)
  PROVE  IInv'
<1>1. /\ op' = [op EXCEPT ![o] = [at |-> "asked", kind |-> k, thread |-> t,
                                  context |-> c]]
      /\ op[o].at = "new" /\ Idle(t)
      /\ library' = library /\ context' = context /\ results' = results
  BY DEF Ask
<1>2. k \in {"open", "call", "close", "closeLibrary"}
  BY DEF Kinds
<1>3. /\ k = "open" => /\ c # NoContext /\ context[c].native = "none"
                       /\ \A p \in Ops : InFlight(p) => op[p].context # c
      /\ k \in {"call", "close"} => c # NoContext /\ context[c].native # "none"
  BY <1>2 DEF Ask
<1>4. /\ op'[o].at = "asked" /\ op'[o].kind = k /\ op'[o].thread = t
      /\ op'[o].context = c /\ \A p \in Ops \ {o} : op'[p] = op[p]
      /\ op' \in [Ops -> OpStates]
  BY <1>1 DEF IInv, TypeOK, OpStates
<1>5. TypeOK'
  BY <1>1, <1>4 DEF IInv, TypeOK
<1>6. Shapes'
  BY <1>2, <1>3, <1>4 DEF IInv, Shapes, InFlight
<1>7. OneEach'
  BY <1>1, <1>4 DEF IInv, OneEach, Idle, InFlight
<1>8. \A p \in Ops : /\ Holds(p)' <=> Holds(p) /\ p # o
                     /\ Opening(p)' <=> Opening(p) /\ p # o
                     /\ Is(p, "close", "reporting")' <=>
                          Is(p, "close", "reporting") /\ p # o
                     /\ Is(p, "call", "reading")' <=>
                          Is(p, "call", "reading") /\ p # o
  BY <1>4 DEF Holds, Opening, Is
<1>9. ~ Holds(o) /\ ~ Opening(o) /\ ~ InFlight(o)
      /\ ~ Is(o, "close", "reporting") /\ ~ Is(o, "call", "reading")
  BY <1>1 DEF Holds, Opening, InFlight, Is
<1>10. Locks'
  <2>1. \A p \in Ops : Holds(p)' <=> Holds(p)
    BY <1>8, <1>9
  <2>2. \A p \in Ops : Opening(p)' <=> Opening(p)
    BY <1>8, <1>9
  <2>3. \A p \in Ops : Holds(p) \/ Opening(p) => op'[p] = op[p]
    BY <1>4, <1>9
  <2> QED BY <1>1, <2>1, <2>2, <2>3 DEF IInv, Locks
<1>11. Lifecycle'
  <2>1. ASSUME NEW p \in Ops
        PROVE  /\ op'[p].kind = "call" /\ Holds(p)'
                    => context[op'[p].context].native = "open"
               /\ Is(p, "close", "reporting")'
                    => context[op'[p].context].native = "closed"
               /\ InFlight(p)' /\ op'[p].kind \in {"call", "close"} =>
                    context[op'[p].context].native # "none"
    <3>1. CASE p = o
      BY <1>3, <1>4, <1>8, <3>1
    <3>2. CASE p # o
      BY <1>4, <1>8, <3>2 DEF IInv, Lifecycle, InFlight
    <3> QED BY <3>1, <3>2
  <2>2. ASSUME NEW p \in Ops, InFlight(p)', op'[p].kind = "open"
        PROVE  /\ context[op'[p].context].native = "none"
               /\ \A q \in Ops : InFlight(q)' /\ op'[q].context = op'[p].context
                                   => q = p
    <3>1. CASE p = o
      BY <1>3, <1>4, <2>2, <3>1 DEF InFlight
    <3>2. CASE p # o
      <4>1. InFlight(p) /\ op[p].kind = "open" /\ op'[p] = op[p]
        BY <1>4, <2>2, <3>2 DEF InFlight
      <4>2. /\ context[op[p].context].native = "none"
            /\ \A q \in Ops : InFlight(q) /\ op[q].context = op[p].context
                                => q = p
        BY <4>1 DEF IInv, Lifecycle
      <4>3. c # op[p].context
        <5>1. op[p].context \in Contexts
          BY <4>1 DEF IInv, Shapes
        <5> QED BY <1>2, <1>3, <4>1, <4>2, <5>1, NoContextAssumption
                DEF Ask
      <4>4. \A q \in Ops \ {o} : InFlight(q)' => InFlight(q)
        BY <1>4 DEF InFlight
      <4> QED BY <1>4, <4>1, <4>2, <4>3, <4>4
    <3> QED BY <3>1, <3>2
  <2> QED BY <1>1, <2>1, <2>2 DEF IInv, Lifecycle
<1>12. Counts'
  <2>1. Counted' = Counted
    BY <1>1, <1>4, <1>8, <1>9 DEF Counted
  <2>2. {p \in Ops : Is(p, "call", "reading")}' = {p \in Ops : Is(p, "call", "reading")}
    BY <1>8, <1>9
  <2> QED BY <1>1, <2>1, <2>2 DEF IInv, Counts
<1> QED BY <1>5, <1>6, <1>7, <1>10, <1>11, <1>12 DEF IInv

\* An operation without a lock ends and changes nothing else.
LEMMA Ends ==
  ASSUME IInv, NEW o \in Ops, op[o].at = "asked", op' = At(o, "done"),
         context' = context, results' = results,
         library' = library \/ (/\ library' = [library EXCEPT !.native = "unloaded"]
                                /\ library.lock = NoThread /\ Counted = {}
                                /\ \A p \in Ops : ~ Opening(p))
  PROVE  IInv'
<1>1. /\ op' \in [Ops -> OpStates] /\ op'[o].at = "done"
      /\ \A p \in Ops \ {o} : op'[p] = op[p]
      /\ \A p \in Ops : op'[p].context = op[p].context
      /\ Shapes' /\ OneEach'
  BY Advances
<1>2. \A p \in Ops : /\ Holds(p)' <=> Holds(p)
                     /\ Opening(p)' <=> Opening(p)
                     /\ Is(p, "close", "reporting")' <=> Is(p, "close", "reporting")
                     /\ Is(p, "call", "reading")' <=> Is(p, "call", "reading")
                     /\ Holds(p) \/ Opening(p) => op'[p] = op[p]
                     /\ InFlight(p)' => InFlight(p) /\ op'[p] = op[p]
  BY <1>1 DEF Holds, Opening, Is, InFlight
<1>3. /\ library'.lock = library.lock /\ library'.contexts = library.contexts
      /\ library' = library \/ (library'.native = "unloaded" /\ Counted = {}
                                /\ \A p \in Ops : ~ Opening(p))
      /\ library' \in [contexts : Nat, native : {"loaded", "unloaded"},
                       lock : Threads \cup {NoThread}]
  BY DEF IInv, TypeOK
<1>4. TypeOK'
  BY <1>1, <1>3 DEF IInv, TypeOK
<1>5. Locks'
  BY <1>1, <1>2, <1>3 DEF IInv, Locks
<1>6. Lifecycle'
  <2>1. \A p \in Ops : Holds(p)' /\ op'[p].kind = "call" =>
          Holds(p) /\ op[p].kind = "call"
    BY <1>2
  <2>2. ASSUME NEW p \in Ops
        PROVE  /\ op'[p].kind = "call" /\ Holds(p)'
                    => context[op'[p].context].native = "open"
               /\ Is(p, "close", "reporting")'
                    => context[op'[p].context].native = "closed"
    BY <1>1, <1>2, <2>1 DEF IInv, Lifecycle
  <2>3. ASSUME NEW p \in Ops, InFlight(p)'
        PROVE  /\ op'[p].kind \in {"call", "close"} =>
                    context[op'[p].context].native # "none"
               /\ op'[p].kind = "open" =>
                    /\ context[op'[p].context].native = "none"
                    /\ \A q \in Ops : InFlight(q)'
                         /\ op'[q].context = op'[p].context => q = p
    BY <1>1, <1>2, <2>3 DEF IInv, Lifecycle
  <2> QED BY <2>2, <2>3 DEF IInv, Lifecycle
<1>7. Counts'
  <2>1. Counted' = Counted
    BY <1>1, <1>2 DEF Counted
  <2>2. {p \in Ops : Is(p, "call", "reading")}' = {p \in Ops : Is(p, "call", "reading")}
    BY <1>2
  <2> QED BY <1>3, <2>1, <2>2 DEF IInv, Counts
<1> QED BY <1>1, <1>4, <1>5, <1>6, <1>7 DEF IInv

LEMMA BeginOpenStep ==
  ASSUME IInv, NEW o \in Ops, BeginOpen(o)
  PROVE  IInv'
<1>1. Is(o, "open", "asked") /\ op[o].at = "asked" /\ op[o].kind = "open"
      /\ context' = context /\ results' = results
  BY DEF BeginOpen, Is
<1>2. library.lock = NoThread /\ \A p \in Ops : ~ Opening(p)
  BY <1>1, Granted DEF BeginOpen
<1>3. CASE op' = At(o, "done") /\ UNCHANGED library
  BY <1>1, <1>3, Ends
<1>4. CASE /\ library.native = "loaded" /\ op' = At(o, "locked")
           /\ library' = [library EXCEPT !.lock = op[o].thread]
  <2>1. /\ op' \in [Ops -> OpStates] /\ op'[o].at = "locked"
        /\ op'[o].kind = "open" /\ op'[o].thread = op[o].thread
        /\ \A p \in Ops \ {o} : op'[p] = op[p]
        /\ \A p \in Ops : op'[p].context = op[p].context
        /\ Shapes' /\ OneEach'
    BY <1>1, <1>4, Advances
  <2>2. InFlight(o) /\ op[o].thread \in Threads
    BY <1>1 DEF InFlight, IInv, Shapes
  <2>3. /\ library'.lock = op[o].thread /\ library'.native = "loaded"
        /\ library'.contexts = library.contexts
        /\ library' \in [contexts : Nat, native : {"loaded", "unloaded"},
                         lock : Threads \cup {NoThread}]
    BY <1>4, <2>2 DEF IInv, TypeOK
  <2>4. \A p \in Ops : /\ Holds(p)' <=> Holds(p)
                       /\ Opening(p)' <=> p = o
                       /\ Is(p, "close", "reporting")' <=> Is(p, "close", "reporting")
                       /\ Is(p, "call", "reading")' <=> Is(p, "call", "reading")
                       /\ Holds(p) => op'[p] = op[p]
                       /\ InFlight(p)' <=> InFlight(p)
                       /\ op'[p].kind = op[p].kind
    BY <1>1, <1>2, <2>1 DEF Holds, Opening, Is, InFlight
  <2>5. TypeOK'
    BY <1>1, <2>1, <2>3 DEF IInv, TypeOK
  <2>6. Locks'
    BY <1>1, <2>1, <2>3, <2>4 DEF IInv, Locks
  <2>7. Lifecycle'
    <3>1. ASSUME NEW p \in Ops
          PROVE  /\ op'[p].kind = "call" /\ Holds(p)'
                      => context[op'[p].context].native = "open"
                 /\ Is(p, "close", "reporting")'
                      => context[op'[p].context].native = "closed"
                 /\ InFlight(p)' /\ op'[p].kind \in {"call", "close"} =>
                      context[op'[p].context].native # "none"
      BY <2>1, <2>4 DEF IInv, Lifecycle
    <3>2. ASSUME NEW p \in Ops, InFlight(p)', op'[p].kind = "open"
          PROVE  /\ context[op'[p].context].native = "none"
                 /\ \A q \in Ops : InFlight(q)'
                      /\ op'[q].context = op'[p].context => q = p
      BY <2>1, <2>4, <3>2 DEF IInv, Lifecycle
    <3> QED BY <1>1, <3>1, <3>2 DEF IInv, Lifecycle
  <2>8. Counts'
    <3>1. Counted' = Counted
      BY <1>1, <2>1, <2>4 DEF Counted
    <3>2. {p \in Ops : Is(p, "call", "reading")}' = {p \in Ops : Is(p, "call", "reading")}
      BY <2>4
    <3> QED BY <1>1, <1>4, <2>3, <3>1, <3>2 DEF IInv, Counts
  <2> QED BY <2>1, <2>5, <2>6, <2>7, <2>8 DEF IInv
<1> QED BY <1>1, <1>3, <1>4 DEF BeginOpen

\* The facts of an operation that gives up its lock and is done.
LEMMA Releases ==
  ASSUME IInv, NEW o \in Ops, op[o].at \notin {"new", "done"},
         op' = At(o, "done")
  PROVE  /\ op' \in [Ops -> OpStates] /\ op'[o].at = "done"
         /\ \A p \in Ops \ {o} : op'[p] = op[p]
         /\ \A p \in Ops : op'[p].context = op[p].context
         /\ Shapes' /\ OneEach'
         /\ \A p \in Ops :
              /\ Holds(p)' <=> Holds(p) /\ p # o
              /\ Opening(p)' <=> Opening(p) /\ p # o
              /\ Is(p, "close", "reporting")' <=>
                   Is(p, "close", "reporting") /\ p # o
              /\ Is(p, "call", "reading")' <=>
                   Is(p, "call", "reading") /\ p # o
              /\ InFlight(p)' <=> InFlight(p) /\ p # o
<1>1. /\ op' \in [Ops -> OpStates] /\ op'[o].at = "done"
      /\ \A p \in Ops \ {o} : op'[p] = op[p]
      /\ \A p \in Ops : op'[p].context = op[p].context
      /\ Shapes' /\ OneEach'
  BY Advances
<1> QED BY <1>1 DEF Holds, Opening, Is, InFlight

LEMMA FinishOpenStep ==
  ASSUME IInv, NEW o \in Ops, FinishOpen(o)
  PROVE  IInv'
<1> DEFINE c == op[o].context
<1>1. /\ op[o].at = "locked" /\ op[o].kind = "open" /\ Opening(o) /\ InFlight(o)
      /\ op' = At(o, "done") /\ results' = results
  BY DEF FinishOpen, Is, Opening, InFlight
<1>2. /\ c \in Contexts /\ context[c].native = "none" /\ ~ context[c].pointer
      /\ \A p \in Ops : InFlight(p) /\ op[p].context = c => p = o
      /\ library.native = "loaded" /\ ~ Holds(o)
  BY <1>1 DEF IInv, Shapes, Lifecycle, Locks, Holds, Is
<1>3. /\ op' \in [Ops -> OpStates] /\ op'[o].at = "done"
      /\ \A p \in Ops \ {o} : op'[p] = op[p]
      /\ \A p \in Ops : op'[p].context = op[p].context
      /\ Shapes' /\ OneEach'
      /\ \A p \in Ops :
           /\ Holds(p)' <=> Holds(p) /\ p # o
           /\ Opening(p)' <=> Opening(p) /\ p # o
           /\ Is(p, "close", "reporting")' <=> Is(p, "close", "reporting") /\ p # o
           /\ Is(p, "call", "reading")' <=> Is(p, "call", "reading") /\ p # o
           /\ InFlight(p)' <=> InFlight(p) /\ p # o
  BY <1>1, Releases
<1>4. \A p \in Ops : ~ Opening(p)'
  BY <1>1, <1>3, OneOpening
<1>5. \A p \in Ops : Holds(p) => op[p].context # c /\ p # o
  BY <1>2 DEF Holds, InFlight, Is
<1>13. \/ /\ context' = [context EXCEPT ![c].pointer = TRUE, ![c].native = "open"]
          /\ library' = [library EXCEPT !.contexts = @ + 1, !.lock = NoThread]
       \/ context' = context /\ library' = [library EXCEPT !.lock = NoThread]
  BY DEF FinishOpen
<1> HIDE DEF c
<1>6. c = op[o].context
  BY DEF c
<1>7. /\ library'.native = "loaded" /\ library'.lock = NoThread
      /\ \/ /\ context' = [context EXCEPT ![c].pointer = TRUE, ![c].native = "open"]
            /\ library'.contexts = library.contexts + 1
         \/ context' = context /\ library'.contexts = library.contexts
      /\ library' \in [contexts : Nat, native : {"loaded", "unloaded"},
                       lock : Threads \cup {NoThread}]
  <2>1. library \in [contexts : Nat, native : {"loaded", "unloaded"},
                     lock : Threads \cup {NoThread}]
    BY DEF IInv, TypeOK
  <2>4. library.native = "loaded"
    BY <1>2
  <2>2. ASSUME library' = [library EXCEPT !.contexts = @ + 1, !.lock = NoThread]
        PROVE  /\ library'.native = "loaded" /\ library'.lock = NoThread
               /\ library'.contexts = library.contexts + 1
               /\ library' \in [contexts : Nat, native : {"loaded", "unloaded"},
                                lock : Threads \cup {NoThread}]
    <3> DEFINE counted == [library EXCEPT !.contexts = @ + 1]
    <3>1. /\ counted.native = "loaded" /\ counted.contexts = library.contexts + 1
          /\ counted \in [contexts : Nat, native : {"loaded", "unloaded"},
                          lock : Threads \cup {NoThread}]
      BY <2>1, <2>4
    <3>2. library' = [counted EXCEPT !.lock = NoThread]
      BY <2>2 DEF counted
    <3> HIDE DEF counted
    <3> QED BY <3>1, <3>2
  <2>3. ASSUME library' = [library EXCEPT !.lock = NoThread]
        PROVE  /\ library'.native = "loaded" /\ library'.lock = NoThread
               /\ library'.contexts = library.contexts
               /\ library' \in [contexts : Nat, native : {"loaded", "unloaded"},
                                lock : Threads \cup {NoThread}]
    BY <2>1, <2>3, <2>4
  <2> QED BY <1>13, <2>2, <2>3
<1>8. /\ context' \in [Contexts -> ContextStates]
      /\ \A d \in Contexts : /\ context'[d].lock = context[d].lock
                             /\ d # c => context'[d] = context[d]
                             /\ context'[d].pointer <=> context'[d].native = "open"
  BY <1>2, <1>7 DEF IInv, TypeOK, ContextStates, Lifecycle
<1>9. TypeOK'
  BY <1>1, <1>3, <1>7, <1>8 DEF IInv, TypeOK
<1>10. Locks'
  <2>1. \A p \in Ops : Holds(p) => op[p].context \in Contexts
    BY DEF Holds, Is, IInv, Shapes, InFlight
  <2> QED BY <1>3, <1>4, <1>5, <1>7, <1>8, <2>1 DEF IInv, Locks
<1>11. Lifecycle'
  <2>1. \A p \in Ops : InFlight(p)' =>
          InFlight(p) /\ op'[p] = op[p] /\ op[p].context # c
    BY <1>2, <1>3, <1>6
  <2>2. \A p \in Ops : InFlight(p) /\ op[p].kind # "closeLibrary" =>
          op[p].context \in Contexts
    BY DEF IInv, Shapes
  <2>3. ASSUME NEW p \in Ops, Holds(p)'
        PROVE  /\ op'[p].kind = "call" => context'[op'[p].context].native = "open"
               /\ Is(p, "close", "reporting")'
                    => context'[op'[p].context].native = "closed"
    <3>1. Holds(p) /\ InFlight(p)' /\ op[p].kind # "closeLibrary"
      BY <1>3, <2>3 DEF Holds, Is, InFlight
    <3>2. op'[p] = op[p] /\ context'[op[p].context] = context[op[p].context]
      BY <1>8, <2>1, <2>2, <3>1
    <3> QED BY <1>3, <3>1, <3>2 DEF IInv, Lifecycle
  <2>4. ASSUME NEW p \in Ops, InFlight(p)'
        PROVE  /\ op'[p].kind \in {"call", "close"} =>
                    context'[op'[p].context].native # "none"
               /\ op'[p].kind = "open" =>
                    /\ context'[op'[p].context].native = "none"
                    /\ \A q \in Ops : InFlight(q)'
                         /\ op'[q].context = op'[p].context => q = p
    <3>1. InFlight(p) /\ op'[p] = op[p]
      BY <2>1, <2>4
    <3>2. op[p].kind # "closeLibrary" =>
            context'[op[p].context] = context[op[p].context]
      BY <1>8, <2>1, <2>2, <2>4
    <3> QED BY <2>1, <3>1, <3>2 DEF IInv, Lifecycle
  <2>5. \A p \in Ops : Is(p, "close", "reporting")' => Holds(p)'
    BY DEF Holds
  <2> QED BY <1>8, <2>3, <2>4, <2>5 DEF Lifecycle
<1>12. Counts'
  <2>1. {p \in Ops : Is(p, "call", "reading")}' = {p \in Ops : Is(p, "call", "reading")}
    BY <1>1, <1>3 DEF Is
  <2>2. c \notin Counted
    BY <1>2, <1>5 DEF Counted, Holds
  <2>3. Counted' = IF context' = context THEN Counted ELSE Counted \cup {c}
    <3>1. \A p \in Ops : Is(p, "close", "reporting")' <=> Is(p, "close", "reporting")
      BY <1>1, <1>3 DEF Is
    <3>2. CASE context' = context
      BY <1>3, <3>1, <3>2 DEF Counted
    <3>3. CASE context' # context
      <4>1. context'[c].native = "open" /\ c \in Contexts
        BY <1>2, <1>7, <3>3 DEF IInv, TypeOK, ContextStates
      <4> QED BY <1>3, <1>8, <3>1, <3>3, <4>1 DEF Counted
    <3> QED BY <3>2, <3>3
  <2>4. library'.contexts = Cardinality(Counted')
    <3>1. CASE context' = context
      <4>1. library'.contexts = library.contexts
        <5>1. context[c].native = "none"
          BY <1>2
        <5>2. context' # [context EXCEPT ![c].pointer = TRUE, ![c].native = "open"]
          BY <1>2, <3>1, <5>1 DEF IInv, TypeOK, ContextStates
        <5> QED BY <1>7, <5>2
      <4> QED BY <2>3, <3>1, <4>1 DEF IInv, Counts
    <3>2. CASE context' # context
      <4>1. library'.contexts = library.contexts + 1
        BY <1>7, <3>2
      <4> QED BY <2>2, <2>3, <3>2, <4>1, CountedFinite, FS_AddElement
              DEF IInv, Counts
    <3> QED BY <3>1, <3>2
  <2> QED BY <1>1, <1>7, <2>1, <2>4 DEF IInv, Counts
<1> QED BY <1>3, <1>9, <1>10, <1>11, <1>12 DEF IInv

----------------------------------------------------------------------------
\* An operation takes the lock of its context and enters a foreign function:
\* a call uses the context, a close destroys it.
LEMMA Takes ==
  ASSUME IInv, NEW o \in Ops, op[o].at = "asked", NEW c, c = op[o].context,
         c \in Contexts, Grants(Of(o).lock, o), context[c].pointer,
         NEW s, NEW n,
         \/ op[o].kind = "call" /\ s = "locked" /\ n = "open"
         \/ op[o].kind = "close" /\ s = "reporting" /\ n = "closed",
         op' = At(o, s), library' = library, results' = results,
         context' \in [Contexts -> ContextStates],
         context'[c].lock = op[o].thread, context'[c].native = n,
         context'[c].pointer <=> n = "open",
         \A d \in Contexts \ {c} : context'[d] = context[d]
  PROVE  IInv'
<1>1. /\ op' \in [Ops -> OpStates] /\ op'[o].at = s
      /\ op'[o].kind = op[o].kind /\ op'[o].thread = op[o].thread
      /\ \A p \in Ops \ {o} : op'[p] = op[p]
      /\ \A p \in Ops : op'[p].context = op[p].context
      /\ Shapes' /\ OneEach'
  BY Advances
<1>2. /\ \A p \in Ops : Holds(p) => op[p].context # c
      /\ InFlight(o) /\ op[o].thread \in Threads /\ context[c].native = "open"
  BY Granted DEF IInv, Shapes, Lifecycle, InFlight
<1>3. \A p \in Ops : /\ Holds(p)' <=> Holds(p) \/ p = o
                     /\ Opening(p)' <=> Opening(p)
                     /\ Is(p, "close", "reporting")' <=>
                          Is(p, "close", "reporting") \/ (p = o /\ s = "reporting")
                     /\ Is(p, "call", "reading")' <=> Is(p, "call", "reading")
                     /\ InFlight(p)' <=> InFlight(p)
                     /\ op'[p].kind = op[p].kind /\ op'[p].thread = op[p].thread
  BY <1>1 DEF Holds, Opening, Is, InFlight
<1>4. TypeOK'
  BY <1>1 DEF IInv, TypeOK
<1>5. \A p \in Ops : InFlight(p) /\ op[p].kind # "closeLibrary" =>
        op[p].context \in Contexts
  BY DEF IInv, Shapes
<1>6. \A p \in Ops : Holds(p) =>
        /\ InFlight(p) /\ op[p].kind # "closeLibrary"
        /\ context'[op[p].context] = context[op[p].context]
  BY <1>2, <1>5 DEF Holds, Is, InFlight
<1>7. Locks'
  <2>1. \A p \in Ops : Holds(p)' => context'[op'[p].context].lock = op'[p].thread
    BY <1>1, <1>3, <1>6 DEF IInv, Locks
  <2>2. ASSUME NEW d \in Contexts, context'[d].lock # NoThread
        PROVE  \E p \in Ops : Holds(p)' /\ op'[p].context = d
    <3>1. CASE d = c
      BY <1>1, <1>3, <3>1
    <3>2. CASE d # c
      BY <1>1, <1>3, <2>2, <3>2 DEF IInv, Locks
    <3> QED BY <3>1, <3>2
  <2>3. /\ \A p \in Ops : Opening(p)' => /\ library.lock = op'[p].thread
                                        /\ library.native = "loaded"
        /\ library.lock # NoThread => \E p \in Ops : Opening(p)'
    BY <1>3 DEF IInv, Locks
  <2> QED BY <2>1, <2>2, <2>3 DEF Locks
<1>8. Lifecycle'
  <2>1. \A d \in Contexts : context'[d].pointer <=> context'[d].native = "open"
    BY DEF IInv, Lifecycle
  <2>2. ASSUME NEW p \in Ops
        PROVE  /\ op'[p].kind = "call" /\ Holds(p)'
                    => context'[op'[p].context].native = "open"
               /\ Is(p, "close", "reporting")'
                    => context'[op'[p].context].native = "closed"
    <3>1. CASE p = o
      BY <1>1, <1>3, <3>1 DEF Is
    <3>2. CASE p # o
      <4>1. Is(p, "close", "reporting") => Holds(p)
        BY DEF Holds
      <4> QED BY <1>1, <1>3, <1>6, <3>2, <4>1 DEF IInv, Lifecycle
    <3> QED BY <3>1, <3>2
  <2>3. ASSUME NEW p \in Ops, InFlight(p)'
        PROVE  /\ op'[p].kind \in {"call", "close"} =>
                    context'[op'[p].context].native # "none"
               /\ op'[p].kind = "open" =>
                    /\ context'[op'[p].context].native = "none"
                    /\ \A q \in Ops : InFlight(q)'
                         /\ op'[q].context = op'[p].context => q = p
    <3>1. CASE op[p].kind = "open"
      <4>1. p # o /\ op[p].context # c
        BY <1>2, <1>3, <2>3, <3>1 DEF IInv, Lifecycle
      <4>2. context'[op[p].context] = context[op[p].context]
        BY <1>3, <1>5, <2>3, <3>1, <4>1
      <4> QED BY <1>1, <1>3, <2>3, <3>1, <4>2 DEF IInv, Lifecycle
    <3>2. CASE op[p].kind # "open"
      BY <1>1, <1>3, <1>5, <2>3, <3>2 DEF IInv, Lifecycle
    <3> QED BY <3>1, <3>2
  <2> QED BY <2>1, <2>2, <2>3 DEF Lifecycle
<1>9. Counts'
  <2>1. Counted' = Counted
    <3>1. \A d \in Contexts \ {c} : d \in Counted' <=> d \in Counted
      BY <1>1, <1>3 DEF Counted
    <3>2. c \in Counted
      BY <1>2 DEF Counted
    <3>3. c \in Counted'
      BY <1>1, <1>3 DEF Counted
    <3> QED BY <3>1, <3>2, <3>3 DEF Counted
  <2>2. {p \in Ops : Is(p, "call", "reading")}' = {p \in Ops : Is(p, "call", "reading")}
    BY <1>3
  <2> QED BY <2>1, <2>2 DEF IInv, Counts
<1> QED BY <1>1, <1>4, <1>7, <1>8, <1>9 DEF IInv

LEMMA BeginCallStep ==
  ASSUME IInv, NEW o \in Ops, BeginCall(o)
  PROVE  IInv'
<1>1. /\ op[o].kind = "call" /\ op[o].at = "asked" /\ Grants(Of(o).lock, o)
      /\ library' = library /\ results' = results /\ op[o].context \in Contexts
      /\ op[o].thread \in Threads
  BY DEF BeginCall, MayCall, Is, IInv, Shapes, InFlight
<1>2. CASE op' = At(o, "done") /\ UNCHANGED context
  BY <1>1, <1>2, Ends
<1>3. CASE /\ Of(o).pointer /\ op' = At(o, "locked")
           /\ context' = [context EXCEPT ![op[o].context].lock = op[o].thread]
  <2>1. PICK c : c = op[o].context
    OBVIOUS
  <2>2. context[c].pointer /\ context[c].native = "open"
    BY <1>1, <1>3, <2>1 DEF Of, IInv, Lifecycle
  <2>3. /\ context' \in [Contexts -> ContextStates]
        /\ context'[c].lock = op[o].thread /\ context'[c].native = "open"
        /\ context'[c].pointer
        /\ \A d \in Contexts \ {c} : context'[d] = context[d]
    BY <1>1, <1>3, <2>1, <2>2 DEF IInv, TypeOK, ContextStates
  <2> QED BY <1>1, <1>3, <2>1, <2>2, <2>3, Takes
<1> QED BY <1>2, <1>3 DEF BeginCall

LEMMA BeginCloseStep ==
  ASSUME IInv, NEW o \in Ops, BeginClose(o)
  PROVE  IInv'
<1>1. /\ op[o].kind = "close" /\ op[o].at = "asked" /\ Grants(Of(o).lock, o)
      /\ library' = library /\ results' = results /\ op[o].context \in Contexts
      /\ op[o].thread \in Threads
  BY DEF BeginClose, Is, IInv, Shapes, InFlight
<1>2. CASE op' = At(o, "done") /\ UNCHANGED context
  BY <1>1, <1>2, Ends
<1>3. CASE /\ Of(o).pointer /\ op' = At(o, "reporting")
           /\ context' = [context EXCEPT
                            ![op[o].context] = [pointer |-> FALSE,
                               native |-> "closed", lock |-> op[o].thread]]
  <2>1. PICK c : c = op[o].context
    OBVIOUS
  <2>2. context[c].pointer
    BY <1>3, <2>1 DEF Of
  <2>3. /\ context' \in [Contexts -> ContextStates]
        /\ context'[c].lock = op[o].thread /\ context'[c].native = "closed"
        /\ ~ context'[c].pointer
        /\ \A d \in Contexts \ {c} : context'[d] = context[d]
    BY <1>1, <1>3, <2>1 DEF IInv, TypeOK, ContextStates
  <2> QED BY <1>1, <1>3, <2>1, <2>2, <2>3, Takes
<1> QED BY <1>2, <1>3 DEF BeginClose

----------------------------------------------------------------------------
\* A context whose close has not been reported is counted.
LEMMA Unreported ==
  ASSUME IInv, NEW o \in Ops, Is(o, "close", "reporting")
  PROVE  /\ op[o].context \in Counted /\ library.contexts \in Nat \ {0}
         /\ Cardinality(Counted \ {op[o].context}) = library.contexts - 1
<1>1. op[o].context \in Contexts
  BY DEF Is, IInv, Shapes, InFlight
<1>2. op[o].context \in Counted
  BY <1>1 DEF Counted
<1>3. Cardinality(Counted) = library.contexts /\ library.contexts \in Nat
  BY DEF IInv, Counts, TypeOK
<1>4. Cardinality(Counted) # 0
  BY <1>2, CountedFinite, FS_EmptySet
<1>5. Cardinality(Counted \ {op[o].context}) = Cardinality(Counted) - 1
  BY <1>2, CountedFinite, FS_RemoveElement
<1> QED BY <1>2, <1>3, <1>4, <1>5

\* An operation gives up the lock of its context and is done.
LEMMA GivesUp ==
  ASSUME IInv, NEW o \in Ops, Holds(o), NEW c, c = op[o].context,
         op' = At(o, "done"), results' = results \ {o},
         context' \in [Contexts -> ContextStates],
         context'[c].lock = NoThread, context'[c].native = context[c].native,
         context'[c].pointer = context[c].pointer,
         \A d \in Contexts \ {c} : context'[d] = context[d],
         library' \in [contexts : Nat, native : {"loaded", "unloaded"},
                      lock : Threads \cup {NoThread}],
         library'.lock = library.lock, library'.native = library.native,
         library'.contexts = IF op[o].kind = "close" THEN library.contexts - 1
                             ELSE library.contexts
  PROVE  IInv'
<1>1. /\ InFlight(o) /\ c \in Contexts /\ ~ Opening(o)
      /\ op[o].at \notin {"new", "done"}
      /\ op[o].kind = "close" <=> Is(o, "close", "reporting")
      /\ op[o].kind = "call" <=> op[o].kind # "close"
  BY DEF Holds, Opening, InFlight, Is, IInv, Shapes
<1>2. /\ op' \in [Ops -> OpStates] /\ op'[o].at = "done"
      /\ \A p \in Ops \ {o} : op'[p] = op[p]
      /\ \A p \in Ops : op'[p].context = op[p].context
      /\ Shapes' /\ OneEach'
      /\ \A p \in Ops :
           /\ Holds(p)' <=> Holds(p) /\ p # o
           /\ Opening(p)' <=> Opening(p) /\ p # o
           /\ Is(p, "close", "reporting")' <=> Is(p, "close", "reporting") /\ p # o
           /\ Is(p, "call", "reading")' <=> Is(p, "call", "reading") /\ p # o
           /\ InFlight(p)' <=> InFlight(p) /\ p # o
  BY <1>1, Releases
<1>3. \A p \in Ops \ {o} : Holds(p) => op[p].context # c
  BY OneHolder
<1>4. TypeOK'
  BY <1>2 DEF IInv, TypeOK
<1>5. \A p \in Ops : Holds(p) => InFlight(p) /\ op[p].context \in Contexts
  BY DEF Holds, Is, InFlight, IInv, Shapes
<1>6. Locks'
  <2>1. \A p \in Ops : Holds(p)' => context'[op'[p].context].lock = op'[p].thread
    BY <1>2, <1>3, <1>5 DEF IInv, Locks
  <2>2. ASSUME NEW d \in Contexts, context'[d].lock # NoThread
        PROVE  \E p \in Ops : Holds(p)' /\ op'[p].context = d
    <3>1. d # c /\ context[d].lock # NoThread
      BY <2>2
    <3>2. PICK p \in Ops : Holds(p) /\ op[p].context = d
      BY <3>1 DEF IInv, Locks
    <3> QED BY <1>2, <3>1, <3>2
  <2>3. \A p \in Ops : Opening(p)' <=> Opening(p)
    BY <1>1, <1>2
  <2> QED BY <1>2, <2>1, <2>2, <2>3 DEF IInv, Locks
<1>7. Lifecycle'
  <2>1. \A d \in Contexts : /\ context'[d].native = context[d].native
                            /\ context'[d].pointer = context[d].pointer
    OBVIOUS
  <2>2. \A d \in Contexts : context'[d].pointer <=> context'[d].native = "open"
    BY <2>1 DEF IInv, Lifecycle
  <2>3. \A p \in Ops : InFlight(p)' =>
          /\ InFlight(p) /\ op'[p] = op[p]
          /\ op[p].kind # "closeLibrary" =>
               context'[op[p].context].native = context[op[p].context].native
    BY <1>2, <2>1 DEF IInv, Shapes
  <2>4. \A p \in Ops : Holds(p)' => InFlight(p)'
    BY <1>2, <1>5
  <2>5. \A p \in Ops : Is(p, "close", "reporting")' => Holds(p)'
    BY DEF Holds
  <2>6. \A p \in Ops : Holds(p)' => op'[p].kind # "closeLibrary"
    BY DEF Holds, Is
  <2>7. ASSUME NEW p \in Ops
        PROVE  /\ op'[p].kind = "call" /\ Holds(p)'
                    => context'[op'[p].context].native = "open"
               /\ Is(p, "close", "reporting")'
                    => context'[op'[p].context].native = "closed"
    BY <1>2, <2>3, <2>4, <2>5, <2>6 DEF IInv, Lifecycle
  <2>8. ASSUME NEW p \in Ops, InFlight(p)'
        PROVE  /\ op'[p].kind \in {"call", "close"} =>
                    context'[op'[p].context].native # "none"
               /\ op'[p].kind = "open" =>
                    /\ context'[op'[p].context].native = "none"
                    /\ \A q \in Ops : InFlight(q)'
                         /\ op'[q].context = op'[p].context => q = p
    BY <1>2, <2>3, <2>8 DEF IInv, Lifecycle
  <2> QED BY <2>2, <2>7, <2>8 DEF Lifecycle
<1>8. Counts'
  <2>1. {p \in Ops : Is(p, "call", "reading")}' =
          {p \in Ops : Is(p, "call", "reading")} \ {o}
    BY <1>2
  <2>2. CASE op[o].kind = "close"
    <3>1. context[c].native = "closed"
      BY <1>1, <2>2 DEF IInv, Lifecycle
    <3>2. \A p \in Ops : Is(p, "close", "reporting") => Holds(p)
      BY DEF Holds
    <3>3. Counted' = Counted \ {c}
      BY <1>2, <1>3, <3>1, <3>2 DEF Counted
    <3>4. Cardinality(Counted') = library.contexts - 1
      BY <1>1, <2>2, <3>3, Unreported
    <3> QED BY <2>1, <2>2, <3>3, <3>4 DEF IInv, Counts
  <2>3. CASE op[o].kind # "close"
    <3>1. \A p \in Ops : Is(p, "close", "reporting")' <=> Is(p, "close", "reporting")
      BY <1>1, <1>2, <2>3
    <3>2. Counted' = Counted
      BY <1>2, <3>1 DEF Counted
    <3> QED BY <2>1, <2>3, <3>2 DEF IInv, Counts
  <2> QED BY <2>2, <2>3
<1> QED BY <1>2, <1>4, <1>6, <1>7, <1>8 DEF IInv

\* The lock of the context of an operation is free.
LEMMA LockFreed ==
  ASSUME IInv, NEW o \in Ops, op[o].context \in Contexts,
         context' = [context EXCEPT ![op[o].context].lock = NoThread]
  PROVE  /\ context' \in [Contexts -> ContextStates]
         /\ context'[op[o].context].lock = NoThread
         /\ context'[op[o].context].native = context[op[o].context].native
         /\ context'[op[o].context].pointer = context[op[o].context].pointer
         /\ \A d \in Contexts \ {op[o].context} : context'[d] = context[d]
<1>1. PICK c \in Contexts : c = op[o].context
  OBVIOUS
<1>2. context' = [context EXCEPT ![c].lock = NoThread]
  BY <1>1
<1>3. /\ context' \in [Contexts -> ContextStates]
      /\ context'[c].lock = NoThread
      /\ context'[c].native = context[c].native
      /\ context'[c].pointer = context[c].pointer
      /\ \A d \in Contexts \ {c} : context'[d] = context[d]
  BY <1>2 DEF IInv, TypeOK, ContextStates
<1> QED BY <1>1, <1>3

LEMMA NativeReturnsStep ==
  ASSUME IInv, NEW o \in Ops, NativeReturns(o)
  PROVE  IInv'
<1>1. /\ op[o].kind = "call" /\ op[o].at = "locked" /\ Holds(o)
      /\ op[o].context \in Contexts /\ library' = library
      /\ o \notin results
  BY DEF NativeReturns, Is, Holds, IInv, Shapes, InFlight, Counts
<1>2. library \in [contexts : Nat, native : {"loaded", "unloaded"},
                   lock : Threads \cup {NoThread}]
  BY DEF IInv, TypeOK
<1>3. CASE /\ op' = At(o, "done") /\ results' = results
           /\ context' = [context EXCEPT ![op[o].context].lock = NoThread]
  <2>1. results' = results \ {o}
    BY <1>1, <1>3
  <2>2. /\ context' \in [Contexts -> ContextStates]
        /\ context'[op[o].context].lock = NoThread
        /\ context'[op[o].context].native = context[op[o].context].native
        /\ context'[op[o].context].pointer = context[op[o].context].pointer
        /\ \A d \in Contexts \ {op[o].context} : context'[d] = context[d]
    BY <1>1, <1>3, LockFreed
  <2> QED BY <1>1, <1>2, <1>3, <2>1, <2>2, GivesUp
<1>4. CASE /\ op' = At(o, "reading") /\ context' = context
           /\ results' = results \cup {o}
  <2>1. /\ op' \in [Ops -> OpStates] /\ op'[o].at = "reading"
        /\ op'[o].kind = op[o].kind /\ op'[o].thread = op[o].thread
        /\ \A p \in Ops \ {o} : op'[p] = op[p]
        /\ \A p \in Ops : op'[p].context = op[p].context
        /\ Shapes' /\ OneEach'
    BY <1>1, <1>4, Advances
  <2>2. \A p \in Ops : /\ Holds(p)' <=> Holds(p)
                       /\ Opening(p)' <=> Opening(p)
                       /\ Is(p, "close", "reporting")' <=> Is(p, "close", "reporting")
                       /\ Is(p, "call", "reading")' <=>
                            Is(p, "call", "reading") \/ p = o
                       /\ InFlight(p)' <=> InFlight(p)
                       /\ op'[p].kind = op[p].kind /\ op'[p].thread = op[p].thread
    BY <1>1, <2>1 DEF Holds, Opening, Is, InFlight
  <2>3. TypeOK'
    BY <1>1, <1>4, <2>1 DEF IInv, TypeOK
  <2>4. Locks'
    BY <1>1, <1>4, <2>1, <2>2 DEF IInv, Locks
  <2>5. Lifecycle'
    <3>1. ASSUME NEW p \in Ops
          PROVE  /\ op'[p].kind = "call" /\ Holds(p)'
                      => context[op'[p].context].native = "open"
                 /\ Is(p, "close", "reporting")'
                      => context[op'[p].context].native = "closed"
                 /\ InFlight(p)' /\ op'[p].kind \in {"call", "close"} =>
                      context[op'[p].context].native # "none"
      BY <2>1, <2>2 DEF IInv, Lifecycle
    <3>2. ASSUME NEW p \in Ops, InFlight(p)', op'[p].kind = "open"
          PROVE  /\ context[op'[p].context].native = "none"
                 /\ \A q \in Ops : InFlight(q)'
                      /\ op'[q].context = op'[p].context => q = p
      BY <2>1, <2>2, <3>2 DEF IInv, Lifecycle
    <3> QED BY <1>4, <3>1, <3>2 DEF IInv, Lifecycle
  <2>6. Counts'
    <3>1. Counted' = Counted
      BY <1>4, <2>1, <2>2 DEF Counted
    <3>2. {p \in Ops : Is(p, "call", "reading")}' =
            {p \in Ops : Is(p, "call", "reading")} \cup {o}
      BY <2>2
    <3> QED BY <1>1, <1>4, <3>1, <3>2 DEF IInv, Counts
  <2> QED BY <2>1, <2>3, <2>4, <2>5, <2>6 DEF IInv
<1> QED BY <1>3, <1>4 DEF NativeReturns, LockAfterFailure

LEMMA FinishCallStep ==
  ASSUME IInv, NEW o \in Ops, FinishCall(o)
  PROVE  IInv'
<1>1. /\ op[o].kind = "call" /\ op[o].at = "reading" /\ Holds(o)
      /\ op[o].context \in Contexts /\ library' = library
      /\ op' = At(o, "done") /\ results' = results \ {o}
      /\ context' = [context EXCEPT ![op[o].context].lock = NoThread]
  BY DEF FinishCall, Is, Holds, IInv, Shapes, InFlight
<1>2. library \in [contexts : Nat, native : {"loaded", "unloaded"},
                   lock : Threads \cup {NoThread}]
  BY DEF IInv, TypeOK
<1>3. /\ context' \in [Contexts -> ContextStates]
      /\ context'[op[o].context].lock = NoThread
      /\ context'[op[o].context].native = context[op[o].context].native
      /\ context'[op[o].context].pointer = context[op[o].context].pointer
      /\ \A d \in Contexts \ {op[o].context} : context'[d] = context[d]
  BY <1>1, LockFreed
<1> QED BY <1>1, <1>2, <1>3, GivesUp

LEMMA ReportCloseStep ==
  ASSUME IInv, NEW o \in Ops, ReportClose(o)
  PROVE  IInv'
<1>1. /\ Is(o, "close", "reporting") /\ op[o].kind = "close" /\ Holds(o)
      /\ op[o].context \in Contexts /\ op' = At(o, "done")
      /\ context' = [context EXCEPT ![op[o].context].lock = NoThread]
      /\ library' = [library EXCEPT !.contexts = @ - 1]
  BY DEF ReportClose, Is, Holds, IInv, Shapes, InFlight
<1>2. library.contexts \in Nat \ {0}
  BY <1>1, Unreported
<1>3. /\ library' \in [contexts : Nat, native : {"loaded", "unloaded"},
                       lock : Threads \cup {NoThread}]
      /\ library'.lock = library.lock /\ library'.native = library.native
      /\ library'.contexts = library.contexts - 1
  BY <1>1, <1>2 DEF IInv, TypeOK
<1>4. results' = results \ {o}
  BY <1>1 DEF ReportClose, IInv, Counts, Is
<1>5. /\ context' \in [Contexts -> ContextStates]
      /\ context'[op[o].context].lock = NoThread
      /\ context'[op[o].context].native = context[op[o].context].native
      /\ context'[op[o].context].pointer = context[op[o].context].pointer
      /\ \A d \in Contexts \ {op[o].context} : context'[d] = context[d]
  BY <1>1, LockFreed
<1> QED BY <1>1, <1>3, <1>4, <1>5, GivesUp

LEMMA CloseLibraryStep ==
  ASSUME IInv, NEW o \in Ops, CloseLibrary(o)
  PROVE  /\ IInv'
         /\ library' # library => Counted = {} /\ \A p \in Ops : ~ Opening(p)
<1>1. /\ op[o].at = "asked" /\ op' = At(o, "done")
      /\ context' = context /\ results' = results
  BY DEF CloseLibrary, Is
<1>2. CASE library' = library
  BY <1>1, <1>2, Ends
<1>3. CASE MayDrop(o) /\ library' = [library EXCEPT !.native = "unloaded"]
  <2>1. library.lock = NoThread /\ \A p \in Ops : ~ Opening(p)
    BY <1>1, <1>3, Granted DEF MayDrop
  <2>2. Counted = {}
    BY <1>3, CountedFinite, FS_EmptySet DEF MayDrop, IInv, Counts
  <2> QED BY <1>1, <1>3, <2>1, <2>2, Ends
<1> QED BY <1>2, <1>3 DEF CloseLibrary

----------------------------------------------------------------------------
LEMMA NextIInv == IInv /\ [Next]_vars => IInv'
<1> SUFFICES ASSUME IInv, [Next]_vars PROVE IInv'
  OBVIOUS
<1>1. ASSUME NEW o \in Ops, NEW t \in Threads, NEW k \in Kinds,
             NEW c \in Contexts \cup {NoContext}, Ask(o, t, k, c)
      PROVE  IInv'
  BY <1>1, AskStep
<1>2. ASSUME NEW o \in Ops, Step(o)
      PROVE  IInv'
  BY <1>2, BeginOpenStep, FinishOpenStep, BeginCallStep, NativeReturnsStep,
     FinishCallStep, BeginCloseStep, ReportCloseStep, CloseLibraryStep DEF Step
<1>3. CASE UNCHANGED vars
  BY <1>3 DEF vars, IInv, TypeOK, Shapes, OneEach, Locks, Lifecycle, Counts,
              Counted, Holds, Opening, InFlight, Is
<1> QED BY <1>1, <1>2, <1>3 DEF Next

\* In every reachable state the locks have their holders and the library its
\* count (_library.py:143-172, 179-181, 217-255, 311-320).
THEOREM Invariance == Spec => []IInv
BY Initially, NextIInv, PTL DEF Spec

\* Every variable keeps its type (_library.py:100-181, 200-320).
THEOREM TypeCorrect == Spec => []TypeOK
<1>1. IInv => TypeOK
  BY DEF IInv
<1> QED BY <1>1, Invariance, PTL

----------------------------------------------------------------------------
(* The binding implements NativeUse.                                       *)

Mapped == [c \in Contexts |-> context[c].native]
Ins == [c \in Contexts |-> InsideCall(c)]

\* While a context is open the library is loaded.
LEMMA Loaded ==
  ASSUME IInv, NEW c \in Contexts, context[c].native = "open"
  PROVE  library.native = "loaded"
<1>1. c \in Counted
  BY DEF Counted
<1> QED BY <1>1 DEF IInv, Counts, TypeOK

\* What is inside after an operation has gone on.
LEMMA InsideAfter ==
  ASSUME IInv, NEW o \in Ops, NEW s, op' = At(o, s), NEW c \in Contexts
  PROVE  InsideCall(c)' =
           IF op[o].kind = "call" /\ op[o].context = c
           THEN IF s = "locked" THEN InsideCall(c) \cup {o}
                ELSE InsideCall(c) \ {o}
           ELSE InsideCall(c)
<1>1. \A p \in Ops : /\ op'[p].context = op[p].context
                     /\ op'[p].kind = op[p].kind
                     /\ p # o => op'[p].at = op[p].at
                     /\ p = o => op'[p].at = s
  BY DEF At, IInv, TypeOK, OpStates
<1> QED BY <1>1 DEF InsideCall, Is

\* The steps that begin outside the library and end there.
LEMMA Unseen ==
  ASSUME IInv, NEW o \in Ops, op[o].at # "locked" \/ op[o].kind # "call",
         NEW s, op' = At(o, s), s # "locked" \/ op[o].kind # "call",
         library'.native = library.native, results' = results,
         \A c \in Contexts : context'[c].native = context[c].native
  PROVE  UNCHANGED Native!vars
<1>1. Mapped' = Mapped
  BY DEF Mapped
<1>2. \A c \in Contexts : o \notin InsideCall(c)
  BY DEF InsideCall, Is
<1>3. \A c \in Contexts : InsideCall(c)' = InsideCall(c)
  BY <1>2, InsideAfter
<1>4. Ins' = Ins
  BY <1>3 DEF Ins
<1> QED BY <1>1, <1>4 DEF Native!vars, Mapped, Ins

LEMMA AskUnseen ==
  ASSUME IInv, NEW o \in Ops, NEW t \in Threads, NEW k \in Kinds,
         NEW c \in Contexts \cup {NoContext}, Ask(o, t, k, c)
  PROVE  UNCHANGED Native!vars
<1>1. \A p \in Ops : /\ p # o => op'[p] = op[p]
                     /\ p = o => op'[p].at = "asked" /\ op[p].at = "new"
  BY DEF Ask, IInv, TypeOK
<1>2. \A d \in Contexts : InsideCall(d)' = InsideCall(d)
  BY <1>1 DEF InsideCall, Is
<1>3. Ins' = Ins
  BY <1>2 DEF Ins
<1> QED BY <1>3 DEF Native!vars, Ins, Ask

LEMMA BeginOpenUnseen ==
  ASSUME IInv, NEW o \in Ops, BeginOpen(o)
  PROVE  UNCHANGED Native!vars
<1>1. op[o].kind = "open" /\ context' = context /\ results' = results
  BY DEF BeginOpen, Is
<1>2. library'.native = library.native
  BY DEF BeginOpen, IInv, TypeOK
<1>3. PICK s \in {"locked", "done"} : op' = At(o, s)
  BY DEF BeginOpen
<1> QED BY <1>1, <1>2, <1>3, Unseen

LEMMA OpensRightly ==
  ASSUME IInv, NEW o \in Ops, FinishOpen(o)
  PROVE  [Native!Next]_(Native!vars)
<1>1. /\ op[o].kind = "open" /\ op' = At(o, "done") /\ results' = results
      /\ Opening(o) /\ op[o].context \in Contexts
      /\ context[op[o].context].native = "none" /\ library.native = "loaded"
  BY DEF FinishOpen, Is, Opening, InFlight, IInv, Shapes, Lifecycle, Locks
<1>2. library'.native = library.native
  <2>1. library \in [contexts : Nat, native : {"loaded", "unloaded"},
                     lock : Threads \cup {NoThread}]
    BY DEF IInv, TypeOK
  <2>2. CASE library' = [library EXCEPT !.lock = NoThread]
    BY <2>1, <2>2
  <2>3. CASE library' = [library EXCEPT !.contexts = @ + 1, !.lock = NoThread]
    <3> DEFINE counted == [library EXCEPT !.contexts = @ + 1]
    <3>1. /\ counted.native = library.native
          /\ counted \in [contexts : Nat, native : {"loaded", "unloaded"},
                          lock : Threads \cup {NoThread}]
      BY <2>1
    <3>2. library' = [counted EXCEPT !.lock = NoThread]
      BY <2>3 DEF counted
    <3> HIDE DEF counted
    <3> QED BY <3>1, <3>2
  <2> QED BY <2>2, <2>3 DEF FinishOpen
<1>3. CASE context' = context
  BY <1>1, <1>2, <1>3, Unseen
<1>4. CASE context' = [context EXCEPT ![op[o].context].pointer = TRUE,
                                      ![op[o].context].native = "open"]
  <2>1. PICK c \in Contexts : c = op[o].context
    BY <1>1
  <2> DEFINE pointed == [context EXCEPT ![c].pointer = TRUE]
  <2>2. /\ pointed \in [Contexts -> ContextStates]
        /\ \A d \in Contexts : pointed[d].native = context[d].native
    BY DEF IInv, TypeOK, ContextStates
  <2>3. context' = [pointed EXCEPT ![c].native = "open"]
    BY <1>4, <2>1 DEF pointed
  <2> HIDE DEF pointed
  <2>4. \A d \in Contexts :
          context'[d].native = IF d = c THEN "open" ELSE context[d].native
    BY <2>2, <2>3 DEF ContextStates
  <2>5. Mapped' = [Mapped EXCEPT ![c] = "open"]
    BY <2>4 DEF Mapped
  <2>6. \A d \in Contexts : InsideCall(d)' = InsideCall(d)
    BY <1>1, InsideAfter
  <2>7. Ins' = Ins
    BY <2>6 DEF Ins
  <2>8. Native!Open(c)
    BY <1>1, <1>2, <2>1, <2>5, <2>7 DEF Native!Open, Mapped, Ins
  <2> QED BY <2>8 DEF Native!Next
<1> QED BY <1>3, <1>4 DEF FinishOpen

LEMMA EntersRightly ==
  ASSUME IInv, NEW o \in Ops, BeginCall(o)
  PROVE  [Native!Next]_(Native!vars)
<1>1. /\ op[o].kind = "call" /\ op[o].at = "asked" /\ Grants(Of(o).lock, o)
      /\ library' = library /\ results' = results /\ op[o].context \in Contexts
      /\ op[o].thread \in Threads
  BY DEF BeginCall, MayCall, Is, IInv, Shapes, InFlight
<1>2. CASE op' = At(o, "done") /\ UNCHANGED context
  BY <1>1, <1>2, Unseen
<1>3. CASE /\ Of(o).pointer /\ op' = At(o, "locked")
           /\ context' = [context EXCEPT ![op[o].context].lock = op[o].thread]
  <2>1. PICK c \in Contexts : c = op[o].context
    BY <1>1
  <2>2. context[c].native = "open" /\ library.native = "loaded"
    BY <1>3, <2>1, Loaded DEF Of, IInv, Lifecycle
  <2>3. InsideCall(c) = {}
    BY <1>1, <2>1, Granted DEF InsideCall, Holds, Is
  <2>4. \A d \in Contexts : context'[d].native = context[d].native
    BY <1>1, <1>3, <2>1 DEF IInv, TypeOK, ContextStates
  <2>5. Mapped' = Mapped
    BY <2>4 DEF Mapped
  <2>6. \A d \in Contexts : InsideCall(d)' = IF d = c THEN {o} ELSE InsideCall(d)
    BY <1>1, <1>3, <2>1, <2>3, InsideAfter
  <2>7. Ins' = [Ins EXCEPT ![c] = {o}]
    BY <2>6 DEF Ins
  <2>8. Native!Enter(c, o)
    BY <1>1, <2>2, <2>3, <2>5, <2>7 DEF Native!Enter, Mapped, Ins
  <2> QED BY <2>8 DEF Native!Next
<1> QED BY <1>2, <1>3 DEF BeginCall

LEMMA LeavesRightly ==
  ASSUME IInv, NEW o \in Ops, NativeReturns(o)
  PROVE  [Native!Next]_(Native!vars)
<1>1. /\ op[o].kind = "call" /\ op[o].at = "locked" /\ Holds(o)
      /\ op[o].context \in Contexts /\ library' = library
      /\ results' \in {results, results \cup {o}}
  BY DEF NativeReturns, Is, Holds, IInv, Shapes, InFlight
<1>2. PICK s \in {"reading", "done"} : op' = At(o, s)
  BY DEF NativeReturns
<1>3. PICK c \in Contexts : c = op[o].context
  BY <1>1
<1>4. \A d \in Contexts : context'[d].native = context[d].native
  <2>1. CASE context' = context
    BY <2>1
  <2>2. CASE context' = [context EXCEPT ![op[o].context].lock = NoThread]
    BY <1>1, <2>2, LockFreed
  <2> QED BY <2>1, <2>2 DEF NativeReturns, LockAfterFailure
<1>5. InsideCall(c) = {o}
  <2>1. o \in InsideCall(c)
    BY <1>1, <1>3 DEF InsideCall, Is
  <2>2. \A p \in InsideCall(c) : p = o
    BY <1>1, <1>3, OneHolder DEF InsideCall, Holds, Is
  <2> QED BY <2>1, <2>2
<1>6. Mapped' = Mapped
  BY <1>4 DEF Mapped
<1>7. \A d \in Contexts : InsideCall(d)' = IF d = c THEN {} ELSE InsideCall(d)
  BY <1>1, <1>2, <1>3, <1>5, InsideAfter
<1>8. Ins' = [Ins EXCEPT ![c] = {}]
  BY <1>7 DEF Ins
<1>9. Native!Leave(c, o)
  BY <1>1, <1>5, <1>6, <1>8 DEF Native!Leave, Mapped, Ins
<1> QED BY <1>9 DEF Native!Next

LEMMA FreesRightly ==
  ASSUME IInv, NEW o \in Ops, FinishCall(o)
  PROVE  [Native!Next]_(Native!vars)
<1>1. /\ op[o].kind = "call" /\ op[o].at = "reading" /\ Holds(o)
      /\ op[o].context \in Contexts /\ library' = library /\ o \in results
      /\ op' = At(o, "done") /\ results' = results \ {o}
      /\ context' = [context EXCEPT ![op[o].context].lock = NoThread]
  BY DEF FinishCall, Is, Holds, IInv, Shapes, InFlight, Counts
<1>2. library.native = "loaded"
  BY <1>1, Loaded DEF IInv, Lifecycle
<1>3. \A d \in Contexts : context'[d].native = context[d].native
  BY <1>1, LockFreed
<1>4. Mapped' = Mapped
  BY <1>3 DEF Mapped
<1>5. \A d \in Contexts : o \notin InsideCall(d)
  BY <1>1 DEF InsideCall, Is
<1>6. \A d \in Contexts : InsideCall(d)' = InsideCall(d)
  BY <1>1, <1>5, InsideAfter
<1>7. Ins' = Ins
  BY <1>6 DEF Ins
<1>8. Native!Free(o)
  BY <1>1, <1>2, <1>4, <1>7 DEF Native!Free, Mapped, Ins
<1> QED BY <1>8 DEF Native!Next

LEMMA DestroysRightly ==
  ASSUME IInv, NEW o \in Ops, BeginClose(o)
  PROVE  [Native!Next]_(Native!vars)
<1>1. /\ op[o].kind = "close" /\ op[o].at = "asked" /\ Grants(Of(o).lock, o)
      /\ library' = library /\ results' = results /\ op[o].context \in Contexts
  BY DEF BeginClose, Is, IInv, Shapes, InFlight
<1>2. CASE op' = At(o, "done") /\ UNCHANGED context
  BY <1>1, <1>2, Unseen
<1>3. CASE /\ Of(o).pointer /\ op' = At(o, "reporting")
           /\ context' = [context EXCEPT
                            ![op[o].context] = [pointer |-> FALSE,
                               native |-> "closed", lock |-> op[o].thread]]
  <2>1. PICK c \in Contexts : c = op[o].context
    BY <1>1
  <2>2. context[c].native = "open" /\ library.native = "loaded"
    BY <1>3, <2>1, Loaded DEF Of, IInv, Lifecycle
  <2>3. InsideCall(c) = {}
    BY <1>1, <2>1, Granted DEF InsideCall, Holds, Is
  <2>4. \A d \in Contexts :
          context'[d].native = IF d = c THEN "closed" ELSE context[d].native
    BY <1>3, <2>1 DEF IInv, TypeOK
  <2>5. Mapped' = [Mapped EXCEPT ![c] = "closed"]
    BY <2>4 DEF Mapped
  <2>6. \A d \in Contexts : InsideCall(d)' = InsideCall(d)
    BY <1>1, <1>3, InsideAfter
  <2>7. Ins' = Ins
    BY <2>6 DEF Ins
  <2>8. Native!Destroy(c)
    BY <1>1, <2>2, <2>3, <2>5, <2>7 DEF Native!Destroy, Mapped, Ins
  <2> QED BY <2>8 DEF Native!Next
<1> QED BY <1>2, <1>3 DEF BeginClose

LEMMA ReportUnseen ==
  ASSUME IInv, NEW o \in Ops, ReportClose(o)
  PROVE  UNCHANGED Native!vars
<1>1. /\ op[o].kind = "close" /\ op[o].context \in Contexts
      /\ op' = At(o, "done") /\ results' = results
      /\ context' = [context EXCEPT ![op[o].context].lock = NoThread]
      /\ library' = [library EXCEPT !.contexts = @ - 1]
  BY DEF ReportClose, Is, IInv, Shapes, InFlight
<1>2. library'.native = library.native
  BY <1>1 DEF IInv, TypeOK
<1>3. \A d \in Contexts : context'[d].native = context[d].native
  BY <1>1, LockFreed
<1> QED BY <1>1, <1>2, <1>3, Unseen

LEMMA UnloadsRightly ==
  ASSUME IInv, NEW o \in Ops, CloseLibrary(o)
  PROVE  [Native!Next]_(Native!vars)
<1>1. /\ op[o].kind = "closeLibrary" /\ op' = At(o, "done")
      /\ context' = context /\ results' = results
  BY DEF CloseLibrary, Is
<1>2. CASE library'.native = library.native
  BY <1>1, <1>2, Unseen
<1>3. CASE library'.native # library.native
  <2>1. Counted = {}
    BY <1>3, CloseLibraryStep
  <2>2. \A c \in Contexts : context[c].native # "open"
    BY <2>1 DEF Counted
  <2>3. results = {}
    <3>1. ASSUME NEW p \in Ops, Is(p, "call", "reading") PROVE FALSE
      <4>1. Holds(p) /\ op[p].kind = "call" /\ op[p].context \in Contexts
        BY <3>1 DEF Holds, Is, IInv, Shapes, InFlight
      <4> QED BY <2>2, <4>1 DEF IInv, Lifecycle
    <3> QED BY <3>1 DEF IInv, Counts
  <2>4. library.native = "loaded" /\ library'.native = "unloaded"
    BY <1>3 DEF CloseLibrary, IInv, TypeOK
  <2>5. \A d \in Contexts : InsideCall(d)' = InsideCall(d)
    BY <1>1, InsideAfter
  <2>6. Ins' = Ins
    BY <2>5 DEF Ins
  <2>7. Native!Unload
    BY <1>1, <2>2, <2>3, <2>4, <2>6 DEF Native!Unload, Mapped, Ins
  <2> QED BY <2>7 DEF Native!Next
<1> QED BY <1>2, <1>3

\* Every step of the binding is a step its library allows, or none of its
\* business.
LEMMA StepRightly == IInv /\ [Next]_vars => [Native!Next]_(Native!vars)
<1> SUFFICES ASSUME IInv, [Next]_vars PROVE [Native!Next]_(Native!vars)
  OBVIOUS
<1>1. CASE UNCHANGED vars
  BY <1>1 DEF vars, Native!vars, InsideCall, Is
<1>2. ASSUME NEW o \in Ops, Step(o)
      PROVE  [Native!Next]_(Native!vars)
  BY <1>2, BeginOpenUnseen, OpensRightly, EntersRightly, LeavesRightly,
     FreesRightly, DestroysRightly, ReportUnseen, UnloadsRightly DEF Step
<1> QED BY <1>1, <1>2, AskUnseen DEF Next

\* The binding keeps the rules of the library with nothing but its two kinds
\* of locks: the detailed specification implements the abstract one, for any
\* threads and contexts (_library.py:143-172, 217-255, 311-320).
THEOREM Refinement == Spec => UsesNativeRightly
<1>1. Init => Native!Init
  BY DEF Init, Native!Init, InsideCall, Is
<1> QED BY <1>1, StepRightly, Invariance, PTL
        DEF Spec, UsesNativeRightly, Native!Spec
=============================================================================
