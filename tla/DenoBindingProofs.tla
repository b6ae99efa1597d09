------------------------- MODULE DenoBindingProofs -------------------------
(***************************************************************************)
(* The promise chains of the Deno binding keep the order of requests and   *)
(* the rules of the C library, for any contexts and calls.                 *)
(***************************************************************************)
EXTENDS DenoBinding, FiniteSetTheorems, TLAPS

CtxOf(i) == call[asked[i]].context
Open == {c \in Contexts : context[c].native = "open"}

\* The calls that were made are those in the history, each once.
AskedOnce ==
  /\ \A i, j \in 1 .. Len(asked) : asked[i] = asked[j] => i = j
  /\ \A i \in 1 .. Len(asked) : ~ Is(asked[i], {"new"}) /\ CtxOf(i) \in Contexts
  /\ \A o \in Calls : ~ Is(o, {"new"}) =>
       \E i \in 1 .. Len(asked) : asked[i] = o

\* A call waits for the last one of its context before it, and the tail is
\* the last of all.
Chained ==
  /\ \A i \in 1 .. Len(asked) : \A j \in 1 .. i - 1 :
       CtxOf(j) = CtxOf(i) =>
         \E m \in j .. i - 1 : call[asked[i]].after = asked[m] /\ CtxOf(m) = CtxOf(i)
  /\ \A j \in 1 .. Len(asked) :
       \E m \in j .. Len(asked) :
         context[CtxOf(j)].tail = asked[m] /\ CtxOf(m) = CtxOf(j)

\* A context that is closed, or not yet made, has no call that could use it.
Lifecycle ==
  /\ \A c \in Contexts :
       /\ context[c].closing => context[c].closed /\ context[c].native = "open"
       /\ context[c].native = "closed" => context[c].closed
  /\ \A i \in 1 .. Len(asked) :
       /\ context[CtxOf(i)].native # "none"
       /\ context[CtxOf(i)].native = "closed" => Settled(asked[i])

\* The library is only dropped when no context is open.
Counted ==
  /\ library.contexts = Cardinality(Open)
  /\ library.closed <=> library.native = "unloaded"
  /\ library.closed => Open = {}
  /\ results = {o \in Calls : Is(o, {"returned"})}

IInv ==
  TypeOK /\ AskedOnce /\ Chained /\ InRequestOrder /\ Lifecycle /\ Counted

----------------------------------------------------------------------------
LEMMA OpenFinite == IsFiniteSet(Open)
<1>1. Open \subseteq Contexts
  BY DEF Open
<1> QED BY <1>1, FinitenessAssumption, FS_Subset

LEMMA Initially == Init => IInv
<1> SUFFICES ASSUME Init PROVE IInv
  OBVIOUS
<1>1. TypeOK
  BY DEF Init, TypeOK, ContextStates, CallStates
<1>2. 1 .. Len(asked) = {}
  BY DEF Init
<1>3. AskedOnce
  BY <1>2 DEF Init, AskedOnce, Is
<1>4. Chained /\ InRequestOrder
  BY <1>2 DEF Chained, InRequestOrder
<1>5. Lifecycle
  BY <1>2 DEF Init, Lifecycle
<1>6. Counted
  <2>1. Open = {} /\ {o \in Calls : Is(o, {"returned"})} = {}
    BY DEF Init, Open, Is
  <2> QED BY <2>1, FS_EmptySet DEF Init, Counted
<1> QED BY <1>1, <1>3, <1>4, <1>5, <1>6 DEF IInv

\* A call changes its state and nothing else does.
LEMMA Unasked ==
  ASSUME IInv, NEW o \in Calls, NEW s, call' = Became(o, s),
         ~ Is(o, {"new"}), s # "new",
         asked' = asked, context' = context
  PROVE  /\ \A i \in 1 .. Len(asked) :
              /\ CtxOf(i)' = CtxOf(i) /\ call'[asked[i]].after = call[asked[i]].after
              /\ asked[i] # o => call'[asked[i]] = call[asked[i]]
              /\ asked[i] = o => call'[asked[i]].state = s
         /\ AskedOnce' /\ Chained'
<1>1. \A i \in 1 .. Len(asked) : asked[i] \in Calls
  BY DEF IInv, TypeOK
<1>2. \A p \in Calls : /\ call'[p].context = call[p].context
                       /\ call'[p].after = call[p].after
                       /\ p # o => call'[p] = call[p]
                       /\ p = o => call'[p].state = s
  BY DEF Became, IInv, TypeOK, CallStates
<1>3. \A i \in 1 .. Len(asked) : CtxOf(i)' = CtxOf(i)
  BY <1>1, <1>2 DEF CtxOf
<1>4. AskedOnce'
  BY <1>1, <1>2, <1>3 DEF IInv, AskedOnce, Is
<1>5. Chained'
  <2>1. \A i \in 1 .. Len(asked) : call'[asked[i]].after = call[asked[i]].after
    BY <1>1, <1>2
  <2>2. \A i \in 1 .. Len(asked) : \A j \in 1 .. i - 1 :
          \A m \in j .. i - 1 : m \in 1 .. Len(asked) /\ j \in 1 .. Len(asked)
    BY DEF IInv, TypeOK
  <2>3. \A i \in 1 .. Len(asked) : \A j \in 1 .. i - 1 :
          CtxOf(j)' = CtxOf(i)' =>
            \E m \in j .. i - 1 :
              call'[asked[i]].after = asked[m] /\ CtxOf(m)' = CtxOf(i)'
    BY <1>3, <2>1, <2>2 DEF IInv, Chained
  <2>4. \A j \in 1 .. Len(asked) : \A m \in j .. Len(asked) : m \in 1 .. Len(asked)
    BY DEF IInv, TypeOK
  <2>5. \A j \in 1 .. Len(asked) :
          \E m \in j .. Len(asked) :
            context[CtxOf(j)'].tail = asked[m] /\ CtxOf(m)' = CtxOf(j)'
    <3> TAKE j \in 1 .. Len(asked)
    <3>1. PICK m \in j .. Len(asked) :
            context[CtxOf(j)].tail = asked[m] /\ CtxOf(m) = CtxOf(j)
      BY DEF IInv, Chained
    <3>2. CtxOf(j)' = CtxOf(j) /\ CtxOf(m)' = CtxOf(m)
      BY <1>3, <2>4
    <3> QED BY <3>1, <3>2
  <2> QED BY <2>3, <2>5 DEF Chained, CtxOf
<1> QED BY <1>1, <1>2, <1>3, <1>4, <1>5

\* A call that was made and has not settled goes on: what holds of contexts
\* and of the order of calls stays.
LEMMA CallStep ==
  ASSUME IInv, NEW o \in Calls,
         NEW s \in {"inside", "returned", "failed", "resolved", "rejected"},
         call' = Became(o, s), ~ Is(o, {"new"}), ~ Settled(o),
         asked' = asked, context' = context, library' = library
  PROVE  /\ AskedOnce' /\ Chained' /\ Lifecycle'
         /\ call' \in [Calls -> CallStates] /\ Open' = Open
         /\ ~ Is(o, {"waiting"}) => InRequestOrder'
<1>1. s # "new"
  OBVIOUS
<1>2. AskedOnce' /\ Chained'
  BY <1>1, Unasked
<1>3. \A i \in 1 .. Len(asked) :
        /\ asked[i] \in Calls
        /\ CtxOf(i)' = CtxOf(i)
        /\ asked[i] # o => call'[asked[i]] = call[asked[i]]
        /\ asked[i] = o => call'[asked[i]].state = s
  BY <1>1, Unasked DEF IInv, TypeOK
<1>4. Lifecycle'
  BY <1>3 DEF IInv, Lifecycle, Settled, Is
<1>5. call' \in [Calls -> CallStates]
  BY DEF Became, IInv, TypeOK, CallStates
<1>6. ASSUME ~ Is(o, {"waiting"}) PROVE InRequestOrder'
  BY <1>3, <1>6 DEF IInv, InRequestOrder, CtxOf, Settled, Is
<1> QED BY <1>2, <1>4, <1>5, <1>6 DEF Open

\* What may be called settled has been: every call before one that may start
\* has settled, since the chain leads through all of them.
LEMMA EarlierSettled ==
  ASSUME IInv, NEW j \in 1 .. Len(asked), Is(asked[j], {"waiting"}),
         Settled(call[asked[j]].after),
         NEW i \in 1 .. j - 1, CtxOf(i) = CtxOf(j)
  PROVE  Settled(asked[i])
<1>1. PICK m \in i .. j - 1 : call[asked[j]].after = asked[m] /\ CtxOf(m) = CtxOf(j)
  BY DEF IInv, Chained
<1>2. /\ m \in 1 .. Len(asked) /\ i \in 1 .. Len(asked)
      /\ asked[m] \in Calls /\ asked[i] \in Calls
  BY DEF IInv, TypeOK
<1>3. Settled(asked[m])
  BY <1>1
<1>4. CASE i = m
  BY <1>3, <1>4
<1>5. CASE i < m
  <2>1. ~ Is(asked[m], {"new", "waiting"})
    BY <1>2, <1>3, NoCallAssumption DEF Settled, Is
  <2> QED BY <1>1, <1>2, <1>5, <2>1 DEF IInv, InRequestOrder, CtxOf
<1> QED BY <1>1, <1>4, <1>5

\* The same for the last call of a context.
LEMMA AllSettled ==
  ASSUME IInv, NEW c \in Contexts, Settled(context[c].tail),
         NEW i \in 1 .. Len(asked), CtxOf(i) = c
  PROVE  Settled(asked[i])
<1>1. PICK m \in i .. Len(asked) : context[c].tail = asked[m] /\ CtxOf(m) = c
  BY DEF IInv, Chained
<1>2. m \in 1 .. Len(asked) /\ asked[m] \in Calls
  BY DEF IInv, TypeOK
<1>3. Settled(asked[m])
  BY <1>1
<1>4. CASE i = m
  BY <1>3, <1>4
<1>5. CASE i < m
  <2>1. ~ Is(asked[m], {"new", "waiting"})
    BY <1>2, <1>3, NoCallAssumption DEF Settled, Is
  <2> QED BY <1>1, <1>2, <1>5, <2>1 DEF IInv, InRequestOrder, CtxOf
<1> QED BY <1>1, <1>4, <1>5

LEMMA StartStep ==
  ASSUME IInv, NEW o \in Calls, Start(o)
  PROVE  IInv'
<1>1. PICK s \in {"inside", "rejected"} : call' = Became(o, s)
  BY DEF Start
<1>2. ~ Is(o, {"new"}) /\ ~ Settled(o)
  BY NoCallAssumption DEF Start, Is, Settled
<1>3. /\ AskedOnce' /\ Chained' /\ Lifecycle'
      /\ call' \in [Calls -> CallStates] /\ Open' = Open
  BY <1>1, <1>2, CallStep DEF Start
<1>4. TypeOK'
  BY <1>3 DEF Start, IInv, TypeOK
<1>5. \A i \in 1 .. Len(asked) :
        /\ asked[i] \in Calls
        /\ CtxOf(i)' = CtxOf(i)
        /\ asked[i] # o => call'[asked[i]] = call[asked[i]]
        /\ asked[i] = o => call'[asked[i]].state = s
  BY <1>1, <1>2, Unasked DEF IInv, TypeOK, Start
<1>6. InRequestOrder'
  <2> SUFFICES ASSUME NEW i \in 1 .. Len(asked), NEW j \in 1 .. Len(asked),
                      i < j, CtxOf(i) = CtxOf(j),
                      ~ Is(asked[j], {"new", "waiting"})'
               PROVE  Settled(asked[i])'
    BY <1>5 DEF InRequestOrder, CtxOf, Start
  <2>1. Settled(asked[i]) => Settled(asked[i])'
    BY <1>2, <1>5 DEF Settled, Is, Start
  <2>2. CASE asked[j] = o
    <3>1. Is(asked[j], {"waiting"}) /\ Settled(call[asked[j]].after)
      BY <2>2 DEF Start, Fulfilled
    <3>2. i \in 1 .. j - 1
      OBVIOUS
    <3> QED BY <2>1, <3>1, <3>2, EarlierSettled
  <2>3. CASE asked[j] # o
    <3>1. ~ Is(asked[j], {"new", "waiting"})
      BY <1>5, <2>3 DEF Is, Start
    <3> QED BY <2>1, <3>1 DEF IInv, InRequestOrder, CtxOf
  <2> QED BY <2>2, <2>3
<1>7. Counted'
  <2>1. {p \in Calls : Is(p, {"returned"})}' = {p \in Calls : Is(p, {"returned"})}
    BY <1>1 DEF Became, Is, Start, IInv, TypeOK, CallStates
  <2> QED BY <1>3, <2>1 DEF Counted, IInv, Start
<1> QED BY <1>3, <1>4, <1>6, <1>7 DEF IInv

LEMMA NativeReturnsStep ==
  ASSUME IInv, NEW o \in Calls, NativeReturns(o)
  PROVE  IInv'
<1>1. PICK s \in {"returned", "failed"} :
        /\ call' = Became(o, s)
        /\ results' = IF s = "returned" THEN results \cup {o} ELSE results
  BY DEF NativeReturns
<1>2. ~ Is(o, {"new"}) /\ ~ Settled(o) /\ ~ Is(o, {"waiting"})
  BY NoCallAssumption DEF NativeReturns, Is, Settled
<1>3. /\ AskedOnce' /\ Chained' /\ Lifecycle' /\ InRequestOrder'
      /\ call' \in [Calls -> CallStates] /\ Open' = Open
  BY <1>1, <1>2, CallStep DEF NativeReturns
<1>4. TypeOK'
  BY <1>1, <1>3 DEF NativeReturns, IInv, TypeOK
<1>5. Counted'
  <2>1. {p \in Calls : Is(p, {"returned"})}' =
          IF s = "returned" THEN {p \in Calls : Is(p, {"returned"})} \cup {o}
          ELSE {p \in Calls : Is(p, {"returned"})}
    BY <1>1 DEF Became, Is, NativeReturns, IInv, TypeOK, CallStates
  <2> QED BY <1>1, <1>3, <2>1 DEF Counted, IInv, NativeReturns
<1> QED BY <1>3, <1>4, <1>5 DEF IInv

LEMMA ResumeStep ==
  ASSUME IInv, NEW o \in Calls, Resume(o)
  PROVE  IInv'
<1>1. PICK s \in {"resolved", "rejected"} : call' = Became(o, s)
  BY DEF Resume
<1>2. /\ Is(o, {"failed", "returned"})
      /\ results' = results \ {o}
  BY DEF Resume, Freed, IInv, Counted, Is
<1>3. ~ Is(o, {"new"}) /\ ~ Settled(o) /\ ~ Is(o, {"waiting"})
  BY <1>2, NoCallAssumption DEF Is, Settled
<1>4. /\ AskedOnce' /\ Chained' /\ Lifecycle' /\ InRequestOrder'
      /\ call' \in [Calls -> CallStates] /\ Open' = Open
  BY <1>1, <1>3, CallStep DEF Resume
<1>5. TypeOK'
  BY <1>2, <1>4 DEF Resume, IInv, TypeOK
<1>6. Counted'
  <2>1. {p \in Calls : Is(p, {"returned"})}' =
          {p \in Calls : Is(p, {"returned"})} \ {o}
    BY <1>1 DEF Became, Is, IInv, TypeOK, CallStates
  <2> QED BY <1>2, <1>4, <2>1 DEF Counted, IInv, Resume
<1> QED BY <1>4, <1>5, <1>6 DEF IInv

----------------------------------------------------------------------------
\* What does not touch the calls and keeps every tail.
LEMMA ContextStep ==
  ASSUME IInv, UNCHANGED <<call, results, asked>>,
         \A c \in Contexts : context'[c].tail = context[c].tail
  PROVE  AskedOnce' /\ Chained' /\ InRequestOrder'
<1>1. \A i \in 1 .. Len(asked) : CtxOf(i)' = CtxOf(i) /\ CtxOf(i) \in Contexts
  BY DEF CtxOf, IInv, AskedOnce
<1>2. AskedOnce'
  BY <1>1 DEF IInv, AskedOnce, Is
<1>3. \A i \in 1 .. Len(asked) : \A j \in 1 .. i - 1 :
        j \in 1 .. Len(asked) /\ \A m \in j .. i - 1 : m \in 1 .. Len(asked)
  BY DEF IInv, TypeOK
<1>4. \A i \in 1 .. Len(asked) : \A j \in 1 .. i - 1 :
        CtxOf(j)' = CtxOf(i)' =>
          \E m \in j .. i - 1 :
            call[asked[i]].after = asked[m] /\ CtxOf(m)' = CtxOf(i)'
  BY <1>1, <1>3 DEF IInv, Chained
<1>5. \A j \in 1 .. Len(asked) :
        \E m \in j .. Len(asked) :
          context'[CtxOf(j)'].tail = asked[m] /\ CtxOf(m)' = CtxOf(j)'
  <2> TAKE j \in 1 .. Len(asked)
  <2>1. PICK m \in j .. Len(asked) :
          context[CtxOf(j)].tail = asked[m] /\ CtxOf(m) = CtxOf(j)
    BY DEF IInv, Chained
  <2>2. m \in 1 .. Len(asked)
    BY DEF IInv, TypeOK
  <2> QED BY <1>1, <2>1, <2>2
<1>6. Chained'
  BY <1>4, <1>5 DEF Chained, CtxOf
<1>7. InRequestOrder'
  BY DEF IInv, InRequestOrder, Settled, Is
<1> QED BY <1>2, <1>6, <1>7

LEMMA CreateContextStep ==
  ASSUME IInv, NEW c \in Contexts, CreateContext(c)
  PROVE  IInv'
<1>1. \A d \in Contexts : /\ context'[d].tail = context[d].tail
                          /\ context'[d].closing = context[d].closing
                          /\ context'[d].closed = context[d].closed
                          /\ d # c => context'[d] = context[d]
                          /\ d = c => context'[d].native = "open"
  BY DEF CreateContext, IInv, TypeOK, ContextStates
<1>2. AskedOnce' /\ Chained' /\ InRequestOrder'
  BY <1>1, ContextStep DEF CreateContext
<1>3. TypeOK'
  BY DEF CreateContext, IInv, TypeOK, ContextStates
<1>4. Lifecycle'
  <2>1. \A i \in 1 .. Len(asked) : CtxOf(i) \in Contexts /\ CtxOf(i) # c
    BY DEF IInv, AskedOnce, Lifecycle, CreateContext
  <2> QED BY <1>1, <2>1 DEF IInv, Lifecycle, CreateContext, CtxOf, Settled, Is
<1>5. Counted'
  <2>1. Open' = Open \cup {c} /\ c \notin Open
    BY <1>1 DEF Open, CreateContext
  <2>2. Cardinality(Open') = Cardinality(Open) + 1
    BY <2>1, OpenFinite, FS_AddElement
  <2>3. {o \in Calls : Is(o, {"returned"})}' = {o \in Calls : Is(o, {"returned"})}
    BY DEF CreateContext, Is
  <2> QED BY <2>2, <2>3 DEF Counted, IInv, CreateContext, TypeOK
<1> QED BY <1>2, <1>3, <1>4, <1>5 DEF IInv

LEMMA RequestCloseStep ==
  ASSUME IInv, NEW c \in Contexts, RequestClose(c)
  PROVE  IInv'
<1>1. \A d \in Contexts : /\ context'[d].tail = context[d].tail
                          /\ context'[d].native = context[d].native
                          /\ d # c => context'[d] = context[d]
                          /\ d = c => context'[d].closing /\ context'[d].closed
  BY DEF RequestClose, IInv, TypeOK, ContextStates
<1>2. AskedOnce' /\ Chained' /\ InRequestOrder'
  BY <1>1, ContextStep DEF RequestClose
<1>3. TypeOK'
  BY DEF RequestClose, IInv, TypeOK, ContextStates
<1>4. Lifecycle'
  <2>1. \A i \in 1 .. Len(asked) : CtxOf(i) \in Contexts
    BY DEF IInv, AskedOnce
  <2>2. \A d \in Contexts :
          /\ context'[d].closing => context'[d].closed /\ context'[d].native = "open"
          /\ context'[d].native = "closed" => context'[d].closed
    BY <1>1 DEF IInv, Lifecycle, RequestClose
  <2>3. \A i \in 1 .. Len(asked) :
          /\ context'[CtxOf(i)].native # "none"
          /\ context'[CtxOf(i)].native = "closed" => Settled(asked[i])
    BY <1>1, <2>1 DEF IInv, Lifecycle
  <2> QED BY <2>2, <2>3 DEF Lifecycle, RequestClose, CtxOf, Settled, Is
<1>5. Open' = Open
  BY <1>1 DEF Open
<1>6. Counted'
  BY <1>5 DEF Counted, IInv, RequestClose, Is
<1> QED BY <1>2, <1>3, <1>4, <1>6 DEF IInv

LEMMA FinishCloseStep ==
  ASSUME IInv, NEW c \in Contexts, FinishClose(c)
  PROVE  IInv' /\ c \in Open /\ ~ library.closed
               /\ \A i \in 1 .. Len(asked) : CtxOf(i) = c => Settled(asked[i])
<1>1. \A d \in Contexts : /\ context'[d].tail = context[d].tail
                          /\ context'[d].closed = context[d].closed
                          /\ d # c => context'[d] = context[d]
                          /\ d = c => ~ context'[d].closing
                                      /\ context'[d].native = "closed"
  BY DEF FinishClose, IInv, TypeOK, ContextStates
<1>2. AskedOnce' /\ Chained' /\ InRequestOrder'
  BY <1>1, ContextStep DEF FinishClose
<1>3. c \in Open
  BY DEF Open, FinishClose, IInv, Lifecycle
<1>4. \A i \in 1 .. Len(asked) : CtxOf(i) = c => Settled(asked[i])
  BY AllSettled DEF FinishClose, TailSettled, Fulfilled
<1>5. Lifecycle'
  <2>1. \A i \in 1 .. Len(asked) : CtxOf(i) \in Contexts
    BY DEF IInv, AskedOnce
  <2>2. context[c].closed
    BY DEF FinishClose, IInv, Lifecycle
  <2>3. \A d \in Contexts :
          /\ context'[d].closing => context'[d].closed /\ context'[d].native = "open"
          /\ context'[d].native = "closed" => context'[d].closed
    BY <1>1, <2>2 DEF IInv, Lifecycle
  <2>4. \A i \in 1 .. Len(asked) :
          /\ context'[CtxOf(i)].native # "none"
          /\ context'[CtxOf(i)].native = "closed" => Settled(asked[i])
    BY <1>1, <1>4, <2>1 DEF IInv, Lifecycle
  <2> QED BY <2>3, <2>4 DEF Lifecycle, FinishClose, CtxOf, Settled, Is
<1>6. /\ Open' = Open \ {c} /\ Cardinality(Open') = Cardinality(Open) - 1
      /\ Cardinality(Open') \in Nat
  <2>1. Open' = Open \ {c}
    BY <1>1 DEF Open
  <2>2. IsFiniteSet(Open')
    BY <2>1, OpenFinite, FS_RemoveElement
  <2> QED BY <1>3, <2>1, <2>2, OpenFinite, FS_RemoveElement, FS_CardinalityType
<1>7. TypeOK'
  <2>1. library.contexts - 1 \in Nat
    BY <1>6 DEF IInv, Counted
  <2> QED BY <2>1 DEF FinishClose, IInv, TypeOK, ContextStates
<1>8. Counted'
  <2>1. ~ library.closed
    BY <1>3 DEF IInv, Counted
  <2> QED BY <1>6, <2>1 DEF Counted, IInv, FinishClose, Is, TypeOK
<1>9. ~ library.closed
  BY <1>3 DEF IInv, Counted
<1> QED BY <1>2, <1>3, <1>4, <1>5, <1>7, <1>8, <1>9 DEF IInv

LEMMA CloseLibraryStep ==
  ASSUME IInv, CloseLibrary
  PROVE  IInv' /\ Open = {} /\ results = {}
<1>1. AskedOnce' /\ Chained' /\ InRequestOrder'
  BY ContextStep DEF CloseLibrary
<1>2. Open = {}
  BY OpenFinite, FS_EmptySet DEF CloseLibrary, IInv, Counted
<1>3. results = {}
  <2> SUFFICES ASSUME NEW o \in Calls, Is(o, {"returned"}) PROVE FALSE
    BY DEF IInv, Counted
  <2>1. PICK i \in 1 .. Len(asked) : asked[i] = o
    BY DEF IInv, AskedOnce, Is
  <2>2. CtxOf(i) \in Contexts /\ context[CtxOf(i)].native = "closed"
    BY <1>2 DEF IInv, AskedOnce, Lifecycle, Open, TypeOK, ContextStates
  <2> QED BY <2>1, <2>2, NoCallAssumption DEF IInv, Lifecycle, Settled, Is
<1>4. TypeOK'
  BY DEF CloseLibrary, IInv, TypeOK
<1>5. Lifecycle'
  BY DEF CloseLibrary, IInv, Lifecycle, CtxOf, Settled, Is
<1>6. Counted'
  BY <1>2 DEF CloseLibrary, IInv, Counted, Open, Is, TypeOK
<1> QED BY <1>1, <1>2, <1>3, <1>4, <1>5, <1>6 DEF IInv

\* The new call is the last of the history and becomes the tail.
LEMMA EnqueueStep ==
  ASSUME IInv, NEW c \in Contexts, NEW o \in Calls, Enqueue(c, o)
  PROVE  IInv'
<1> DEFINE n == Len(asked)
<1>1. /\ n \in Nat /\ Len(asked') = n + 1 /\ asked'[n + 1] = o
      /\ \A i \in 1 .. n : asked'[i] = asked[i] /\ asked[i] \in Calls
  BY DEF Enqueue, IInv, TypeOK
<1>2. /\ call'[o] = [state |-> "waiting", context |-> c,
                     after |-> context[c].tail]
      /\ \A p \in Calls \ {o} : call'[p] = call[p]
  BY DEF Enqueue, IInv, TypeOK
<1>3. \A d \in Contexts : /\ context'[d].native = context[d].native
                          /\ context'[d].closed = context[d].closed
                          /\ context'[d].closing = context[d].closing
                          /\ d # c => context'[d].tail = context[d].tail
                          /\ d = c => context'[d].tail = o
  BY DEF Enqueue, NextTail, IInv, TypeOK, ContextStates
<1>4. \A i \in 1 .. n : /\ asked[i] # o
                        /\ call'[asked'[i]] = call[asked[i]]
                        /\ CtxOf(i)' = CtxOf(i) /\ CtxOf(i) \in Contexts
  BY <1>1, <1>2 DEF Enqueue, IInv, AskedOnce, CtxOf, Is
<1>5. \A i \in 1 .. Len(asked') : i = n + 1 => CtxOf(i)' = c
  BY <1>1, <1>2 DEF CtxOf
<1> HIDE DEF n
<1>6. 1 .. Len(asked') = (1 .. n) \cup {n + 1}
  BY <1>1
<1>7. TypeOK'
  BY DEF Enqueue, NextTail, IInv, TypeOK, CallStates, ContextStates
<1>8. AskedOnce'
  <2>1. \A i, j \in 1 .. Len(asked') : asked'[i] = asked'[j] => i = j
    BY <1>1, <1>4, <1>6 DEF IInv, AskedOnce, n
  <2>2. \A i \in 1 .. Len(asked') : /\ call'[asked'[i]].state # "new"
                                    /\ call'[asked'[i]].context \in Contexts
    BY <1>1, <1>2, <1>4, <1>6 DEF IInv, AskedOnce, n, Is, CtxOf
  <2>3. \A p \in Calls : call'[p].state # "new" =>
          \E i \in 1 .. Len(asked') : asked'[i] = p
    <3> SUFFICES ASSUME NEW p \in Calls, call'[p].state # "new"
                 PROVE  \E i \in 1 .. Len(asked') : asked'[i] = p
      OBVIOUS
    <3>1. CASE p = o
      BY <1>1, <1>6, <3>1
    <3>2. CASE p # o
      <4>1. PICK i \in 1 .. n : asked[i] = p
        BY <1>2, <3>2 DEF IInv, AskedOnce, Is, n
      <4> QED BY <1>1, <1>6, <4>1
    <3> QED BY <3>1, <3>2
  <2> QED BY <2>1, <2>2, <2>3 DEF AskedOnce, Is, CtxOf
<1>9. Chained'
  <2>1. \A i \in 1 .. Len(asked') : \A j \in 1 .. i - 1 :
          CtxOf(j)' = CtxOf(i)' =>
            \E m \in j .. i - 1 :
              call'[asked'[i]].after = asked'[m] /\ CtxOf(m)' = CtxOf(i)'
    <3> SUFFICES ASSUME NEW i \in 1 .. Len(asked'), NEW j \in 1 .. i - 1,
                        CtxOf(j)' = CtxOf(i)'
                 PROVE  \E m \in j .. i - 1 :
                          call'[asked'[i]].after = asked'[m] /\ CtxOf(m)' = CtxOf(i)'
      OBVIOUS
    <3>0. j \in 1 .. n
      BY <1>1
    <3>1. CASE i \in 1 .. n
      <4>1. CtxOf(j) = CtxOf(i)
        BY <1>4, <3>0, <3>1
      <4>2. PICK m \in j .. i - 1 :
              call[asked[i]].after = asked[m] /\ CtxOf(m) = CtxOf(i)
        BY <3>1, <4>1 DEF IInv, Chained, n
      <4>3. m \in 1 .. n
        BY <1>1, <3>1
      <4> QED BY <1>1, <1>4, <3>1, <4>2, <4>3
    <3>2. CASE i = n + 1
      <4>1. CtxOf(j) = c
        BY <1>4, <1>5, <3>0, <3>2
      <4>2. PICK m \in j .. n : context[c].tail = asked[m] /\ CtxOf(m) = c
        BY <3>0, <4>1 DEF IInv, Chained, n
      <4>3. m \in 1 .. n /\ m \in j .. i - 1
        BY <1>1, <3>2
      <4> QED BY <1>1, <1>2, <1>4, <1>5, <3>2, <4>2, <4>3
    <3> QED BY <1>6, <3>1, <3>2
  <2>2. \A j \in 1 .. Len(asked') :
          \E m \in j .. Len(asked') :
            context'[CtxOf(j)'].tail = asked'[m] /\ CtxOf(m)' = CtxOf(j)'
    <3> TAKE j \in 1 .. Len(asked')
    <3>1. CASE CtxOf(j)' = c
      <4>1. n + 1 \in j .. Len(asked')
        BY <1>1
      <4> QED BY <1>1, <1>3, <1>5, <3>1, <4>1
    <3>2. CASE CtxOf(j)' # c
      <4>1. j \in 1 .. n
        BY <1>5, <1>6, <3>2
      <4>2. PICK m \in j .. n :
              context[CtxOf(j)].tail = asked[m] /\ CtxOf(m) = CtxOf(j)
        BY <4>1 DEF IInv, Chained, n
      <4>3. m \in 1 .. n /\ m \in j .. Len(asked')
        BY <1>1, <4>1
      <4> QED BY <1>1, <1>3, <1>4, <3>2, <4>1, <4>2, <4>3
    <3> QED BY <3>1, <3>2
  <2> QED BY <2>1, <2>2 DEF Chained, CtxOf
<1>10. InRequestOrder'
  <2> SUFFICES ASSUME NEW i \in 1 .. Len(asked'), NEW j \in 1 .. Len(asked'),
                      i < j, call'[asked'[i]].context = call'[asked'[j]].context,
                      call'[asked'[j]].state \notin {"new", "waiting"}
               PROVE  Settled(asked[i])'
    BY DEF InRequestOrder, Is
  <2>1. j \in 1 .. n
    BY <1>1, <1>2, <1>6
  <2>2. i \in 1 .. n
    BY <1>1, <2>1
  <2>3. Settled(asked[i])
    BY <1>1, <1>4, <2>1, <2>2 DEF IInv, InRequestOrder, Is, n
  <2> QED BY <1>1, <1>4, <2>2, <2>3 DEF Settled, Is
<1>11. Lifecycle'
  <2>1. \A d \in Contexts :
          /\ context'[d].closing => context'[d].closed /\ context'[d].native = "open"
          /\ context'[d].native = "closed" => context'[d].closed
    BY <1>3 DEF IInv, Lifecycle
  <2>2. context[c].native \notin {"none", "closed"}
    BY DEF Enqueue, IInv, Lifecycle
  <2>3. ASSUME NEW i \in 1 .. Len(asked')
        PROVE  /\ context'[CtxOf(i)'].native # "none"
               /\ context'[CtxOf(i)'].native = "closed" => Settled(asked[i])'
    <3>1. CASE i = n + 1
      BY <1>3, <1>5, <2>2, <3>1
    <3>2. CASE i \in 1 .. n
      <4>1. Settled(asked[i]) => Settled(asked[i])'
        BY <1>1, <1>4, <3>2 DEF Settled, Is
      <4> QED BY <1>3, <1>4, <3>2, <4>1 DEF IInv, Lifecycle, n
    <3> QED BY <1>6, <3>1, <3>2
  <2> QED BY <2>1, <2>3 DEF Lifecycle, CtxOf
<1>12. Counted'
  <2>1. {p \in Calls : Is(p, {"returned"})}' = {p \in Calls : Is(p, {"returned"})}
    BY <1>2 DEF Enqueue, Is
  <2>2. Open' = Open
    BY <1>3 DEF Open
  <2> QED BY <2>1, <2>2 DEF Counted, IInv, Enqueue
<1> QED BY <1>7, <1>8, <1>9, <1>10, <1>11, <1>12 DEF IInv

LEMMA NextIInv == IInv /\ [Next]_vars => IInv'
<1> SUFFICES ASSUME IInv, [Next]_vars PROVE IInv'
  OBVIOUS
<1>1. CASE UNCHANGED vars
  <2>1. Open' = Open /\ {o \in Calls : Is(o, {"returned"})}' =
                        {o \in Calls : Is(o, {"returned"})}
    BY <1>1 DEF vars, Open, Is
  <2>2. TypeOK' /\ InRequestOrder'
    BY <1>1 DEF vars, IInv, TypeOK, InRequestOrder, Settled, Is
  <2>3. AskedOnce' /\ Chained'
    BY <1>1, ContextStep DEF vars
  <2>4. Lifecycle'
    BY <1>1 DEF vars, IInv, Lifecycle, CtxOf, Settled, Is
  <2>5. Counted'
    BY <1>1, <2>1 DEF vars, IInv, Counted
  <2> QED BY <2>2, <2>3, <2>4, <2>5 DEF IInv
<1> QED BY <1>1, CreateContextStep, RequestCloseStep, FinishCloseStep,
           EnqueueStep, StartStep, NativeReturnsStep, ResumeStep,
           CloseLibraryStep DEF Next

\* The history, the chains and the states of the contexts agree.
THEOREM Invariance == Spec => []IInv
<1> QED BY Initially, NextIInv, PTL DEF Spec

\* Types, for any contexts and calls.
THEOREM TypeCorrect == Spec => []TypeOK
<1>1. IInv => TypeOK
  BY DEF IInv
<1> QED BY <1>1, Invariance, PTL

\* Calls on one context reach native code in the order of the requests,
\* failed ones included (mod.ts:1243-1245).
THEOREM OrderKept == Spec => []InRequestOrder
<1>1. IInv => InRequestOrder
  BY DEF IInv
<1> QED BY <1>1, Invariance, PTL

----------------------------------------------------------------------------
(* The binding implements NativeUse.                                       *)

\* A call that was made and has not settled has an open context, and the
\* library is loaded.
LEMMA Usable ==
  ASSUME IInv, NEW o \in Calls, ~ Is(o, {"new"}), ~ Settled(o)
  PROVE  /\ call[o].context \in Contexts
         /\ context[call[o].context].native = "open"
         /\ library.native = "loaded"
<1>1. PICK i \in 1 .. Len(asked) : asked[i] = o
  BY DEF IInv, AskedOnce
<1>2. CtxOf(i) \in Contexts /\ context[CtxOf(i)].native = "open"
  BY <1>1 DEF IInv, AskedOnce, Lifecycle, TypeOK, ContextStates
<1>3. ~ library.closed
  BY <1>2 DEF IInv, Counted, Open
<1> QED BY <1>1, <1>2, <1>3 DEF CtxOf, IInv, Counted, TypeOK

\* No other call of its context is inside with a call that may start, or
\* with one that has started.
LEMMA Alone ==
  ASSUME IInv, NEW o \in Calls, ~ Is(o, {"new"}), ~ Settled(o),
         ~ Is(o, {"waiting"}) \/ Settled(call[o].after),
         NEW p \in Inside(call[o].context)
  PROVE  p = o
<1>1. p \in Calls /\ Is(p, {"inside", "failed"})
      /\ call[p].context = call[o].context
  BY DEF Inside, CallsOf
<1>2. ~ Is(p, {"new", "waiting"}) /\ ~ Settled(p) /\ ~ Is(p, {"new"})
  BY <1>1, NoCallAssumption DEF Is, Settled
<1>3. PICK i \in 1 .. Len(asked) : asked[i] = p
  BY <1>1, <1>2 DEF IInv, AskedOnce
<1>4. PICK j \in 1 .. Len(asked) : asked[j] = o
  BY DEF IInv, AskedOnce
<1>5. CtxOf(i) = CtxOf(j)
  BY <1>1, <1>3, <1>4 DEF CtxOf
<1>6. ~ (j < i)
  BY <1>2, <1>3, <1>4, <1>5 DEF IInv, InRequestOrder, CtxOf
<1>7. ~ (i < j)
  <2> SUFFICES ASSUME i < j PROVE FALSE
    OBVIOUS
  <2>1. CASE Is(o, {"waiting"})
    <3>1. i \in 1 .. j - 1
      OBVIOUS
    <3> QED BY <1>2, <1>3, <1>4, <1>5, <2>1, <3>1, EarlierSettled
  <2>2. CASE ~ Is(o, {"waiting"})
    <3>1. ~ Is(o, {"new", "waiting"})
      BY <2>2 DEF Is
    <3> QED BY <1>2, <1>3, <1>4, <1>5, <3>1 DEF IInv, InRequestOrder, CtxOf
  <2> QED BY <2>1, <2>2
<1>8. i = j
  BY <1>6, <1>7
<1> QED BY <1>3, <1>4, <1>8

\* What is inside after a call has changed its state.
LEMMA InsideAfter ==
  ASSUME IInv, NEW o \in Calls, NEW s, call' = Became(o, s),
         NEW c \in Contexts
  PROVE  Inside(c)' =
           IF c = call[o].context
           THEN IF s \in {"inside", "failed"} THEN Inside(c) \cup {o}
                ELSE Inside(c) \ {o}
           ELSE Inside(c)
<1>1. \A p \in Calls : /\ call'[p].context = call[p].context
                       /\ p # o => call'[p].state = call[p].state
                       /\ p = o => call'[p].state = s
  BY DEF Became, IInv, TypeOK, CallStates
<1> QED BY <1>1 DEF Inside, CallsOf, Is

Mapped == [c \in Contexts |-> context[c].native]
Ins == [c \in Contexts |-> Inside(c)]

LEMMA StartsRightly ==
  ASSUME IInv, NEW o \in Calls, Start(o)
  PROVE  [Native!Next]_(Native!vars)
<1> DEFINE c == call[o].context
<1>1. ~ Is(o, {"new"}) /\ ~ Settled(o) /\ Settled(call[o].after)
  BY NoCallAssumption DEF Start, Is, Settled, Fulfilled
<1>2. c \in Contexts /\ context[c].native = "open" /\ library.native = "loaded"
  BY <1>1, Usable
<1>3. Inside(c) = {}
  <2>1. o \notin Inside(c)
    BY DEF Start, Inside, CallsOf, Is
  <2> QED BY <1>1, <2>1, Alone
<1>4. PICK s \in {"inside", "rejected"} : call' = Became(o, s)
  BY DEF Start
<1> HIDE DEF c
<1>5. CASE s = "inside"
  <2>1. Ins' = [Ins EXCEPT ![c] = {o}]
    <3>1. \A d \in Contexts : Inside(d)' = IF d = c THEN {o} ELSE Inside(d)
      BY <1>3, <1>4, <1>5, InsideAfter DEF c
    <3> QED BY <3>1 DEF Ins
  <2>2. Native!Enter(c, o)
    BY <1>2, <1>3, <2>1 DEF Native!Enter, Start, Ins
  <2> QED BY <1>2, <2>2 DEF Native!Next
<1>6. CASE s = "rejected"
  <2>1. \A d \in Contexts : Inside(d)' = Inside(d)
    BY <1>3, <1>4, <1>6, InsideAfter DEF c
  <2> QED BY <2>1 DEF Native!vars, Start
<1> QED BY <1>4, <1>5, <1>6

LEMMA ReturnsRightly ==
  ASSUME IInv, NEW o \in Calls, NativeReturns(o)
  PROVE  [Native!Next]_(Native!vars)
<1> DEFINE c == call[o].context
<1>1. ~ Is(o, {"new"}) /\ ~ Settled(o) /\ ~ Is(o, {"waiting"})
  BY NoCallAssumption DEF NativeReturns, Is, Settled
<1>2. c \in Contexts
  BY <1>1, Usable
<1>3. Inside(c) = {o}
  <2>1. o \in Inside(c)
    BY DEF NativeReturns, Inside, CallsOf, Is
  <2> QED BY <1>1, <2>1, Alone
<1> HIDE DEF c
<1>4. CASE call' = Became(o, "returned") /\ results' = results \cup {o}
  <2>1. Ins' = [Ins EXCEPT ![c] = {}]
    <3>1. \A d \in Contexts : Inside(d)' = IF d = c THEN {} ELSE Inside(d)
      BY <1>3, <1>4, InsideAfter DEF c
    <3> QED BY <3>1 DEF Ins
  <2>2. Native!Leave(c, o)
    BY <1>2, <1>3, <1>4, <2>1 DEF Native!Leave, NativeReturns, Ins
  <2> QED BY <1>2, <2>2 DEF Native!Next
<1>5. CASE call' = Became(o, "failed") /\ UNCHANGED results
  <2>1. \A d \in Contexts : Inside(d)' = Inside(d)
    BY <1>3, <1>5, InsideAfter DEF c
  <2> QED BY <1>5, <2>1 DEF Native!vars, NativeReturns
<1> QED BY <1>4, <1>5 DEF NativeReturns

LEMMA ResumesRightly ==
  ASSUME IInv, NEW o \in Calls, Resume(o)
  PROVE  [Native!Next]_(Native!vars)
<1> DEFINE c == call[o].context
<1>1. ~ Is(o, {"new"}) /\ ~ Settled(o) /\ ~ Is(o, {"waiting"})
  BY NoCallAssumption DEF Resume, Is, Settled
<1>2. c \in Contexts /\ library.native = "loaded"
  BY <1>1, Usable
<1>3. \A p \in Inside(c) : p = o
  BY <1>1, Alone
<1> HIDE DEF c
<1>4. CASE Is(o, {"failed"}) /\ call' = Became(o, "rejected") /\ UNCHANGED results
  <2>1. Inside(c) = {o}
    BY <1>3, <1>4 DEF Inside, CallsOf, Is, c
  <2>2. Ins' = [Ins EXCEPT ![c] = {}]
    <3>1. \A d \in Contexts : Inside(d)' = IF d = c THEN {} ELSE Inside(d)
      BY <1>4, <2>1, InsideAfter DEF c
    <3> QED BY <3>1 DEF Ins
  <2>3. Native!Leave(c, o)
    BY <1>2, <1>4, <2>1, <2>2 DEF Native!Leave, Resume, Ins
  <2> QED BY <1>2, <2>3 DEF Native!Next
<1>5. ASSUME NEW s \in {"resolved", "rejected"}, Is(o, {"returned"}),
             call' = Became(o, s), results' = results \ {o}
      PROVE  Native!Next
  <2>1. o \notin Inside(c) /\ o \in results
    BY <1>5 DEF Inside, CallsOf, Is, IInv, Counted
  <2>2. \A d \in Contexts : Inside(d)' = Inside(d)
    BY <1>5, <2>1, InsideAfter DEF c
  <2>3. Native!Free(o)
    BY <1>2, <1>5, <2>1, <2>2 DEF Native!Free, Resume
  <2> QED BY <2>3 DEF Native!Next
<1> QED BY <1>4, <1>5 DEF Resume, Freed

LEMMA ClosesRightly ==
  ASSUME IInv, NEW c \in Contexts, FinishClose(c)
  PROVE  [Native!Next]_(Native!vars)
<1>1. /\ context[c].native = "open" /\ ~ library.closed
      /\ \A i \in 1 .. Len(asked) : CtxOf(i) = c => Settled(asked[i])
  BY FinishCloseStep DEF Open
<1>2. library.native = "loaded"
  BY <1>1 DEF IInv, Counted, TypeOK
<1>3. Inside(c) = {}
  <2> SUFFICES ASSUME NEW p \in Calls, call[p].context = c,
                      Is(p, {"inside", "failed"})
               PROVE  FALSE
    BY DEF Inside, CallsOf
  <2>1. PICK i \in 1 .. Len(asked) : asked[i] = p
    BY DEF IInv, AskedOnce, Is
  <2>2. Settled(p)
    BY <1>1, <2>1 DEF CtxOf
  <2> QED BY <2>2, NoCallAssumption DEF Settled, Is
<1>4. Ins' = Ins
  BY DEF FinishClose, Ins, Inside, CallsOf, Is
<1>5. Mapped' = [Mapped EXCEPT ![c] = "closed"]
  BY DEF FinishClose, Mapped, IInv, TypeOK, ContextStates
<1>6. Native!Destroy(c)
  BY <1>1, <1>2, <1>3, <1>4, <1>5 DEF Native!Destroy, FinishClose, Mapped, Ins
<1> QED BY <1>6 DEF Native!Next

LEMMA OpensRightly ==
  ASSUME IInv, NEW c \in Contexts, CreateContext(c)
  PROVE  [Native!Next]_(Native!vars)
<1>1. Ins' = Ins
  BY DEF CreateContext, Ins, Inside, CallsOf, Is
<1>2. Mapped' = [Mapped EXCEPT ![c] = "open"]
  BY DEF CreateContext, Mapped, IInv, TypeOK, ContextStates
<1>3. library.native = "loaded" /\ library'.native = library.native
  BY DEF CreateContext, IInv, Counted, TypeOK
<1>4. Native!Open(c)
  BY <1>1, <1>2, <1>3 DEF Native!Open, CreateContext, Mapped, Ins
<1> QED BY <1>4 DEF Native!Next

\* The steps that no rule of the library is about.
LEMMA UnseenRequest ==
  ASSUME IInv, NEW c \in Contexts, RequestClose(c)
  PROVE  UNCHANGED Native!vars
<1>1. \A d \in Contexts : context'[d].native = context[d].native
  BY DEF RequestClose, IInv, TypeOK, ContextStates
<1>2. Mapped' = Mapped
  BY <1>1 DEF Mapped
<1>3. Ins' = Ins
  BY DEF RequestClose, Ins, Inside, CallsOf, Is
<1> QED BY <1>2, <1>3 DEF Native!vars, Mapped, Ins, RequestClose

LEMMA UnseenCall ==
  ASSUME IInv, NEW c \in Contexts, NEW o \in Calls, Enqueue(c, o)
  PROVE  UNCHANGED Native!vars
<1>1. \A d \in Contexts : context'[d].native = context[d].native
  BY DEF Enqueue, NextTail, IInv, TypeOK, ContextStates
<1>2. Mapped' = Mapped
  BY <1>1 DEF Mapped
<1>3. \A p \in Calls : /\ p # o => call'[p] = call[p]
                       /\ p = o => call'[p].state = "waiting"
                                   /\ call[p].state = "new"
  BY DEF Enqueue, Is, IInv, TypeOK
<1>4. \A d \in Contexts : Inside(d)' = Inside(d)
  BY <1>3 DEF Inside, CallsOf, Is
<1>5. Ins' = Ins
  BY <1>4 DEF Ins
<1> QED BY <1>2, <1>5 DEF Native!vars, Mapped, Ins, Enqueue

\* Every step of the binding is a step its library allows, or none of its
\* business.
LEMMA StepRightly == IInv /\ [Next]_vars => [Native!Next]_(Native!vars)
<1> SUFFICES ASSUME IInv, [Next]_vars PROVE [Native!Next]_(Native!vars)
  OBVIOUS
<1>1. CASE UNCHANGED vars
  BY <1>1 DEF vars, Native!vars, Inside, CallsOf, Is
<1>2. CASE CloseLibrary
  <2>1. \A d \in Contexts : context[d].native # "open"
    BY <1>2, CloseLibraryStep DEF Open
  <2>2. results = {} /\ library.native = "loaded"
    BY <1>2, CloseLibraryStep DEF CloseLibrary, IInv, Counted, TypeOK
  <2>3. Native!Unload
    BY <1>2, <2>1, <2>2 DEF Native!Unload, CloseLibrary, Inside, CallsOf, Is,
                            IInv, TypeOK
  <2> QED BY <2>3 DEF Native!Next
<1> QED BY <1>1, <1>2, UnseenRequest, UnseenCall, OpensRightly, ClosesRightly,
           StartsRightly, ReturnsRightly, ResumesRightly DEF Next

\* The binding keeps the rules of the library with nothing but its promise
\* chains and its count of contexts: the detailed specification implements
\* the abstract one (mod.ts:1226-1289).
THEOREM Refinement == Spec => UsesNativeRightly
<1>1. Init => Native!Init
  BY DEF Init, Native!Init, Inside, CallsOf, Is
<1> QED BY <1>1, StepRightly, Invariance, PTL
        DEF Spec, UsesNativeRightly, Native!Spec
=============================================================================
