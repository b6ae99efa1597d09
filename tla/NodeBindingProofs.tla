------------------------- MODULE NodeBindingProofs -------------------------
(***************************************************************************)
(* The Node.js binding keeps the order of requests, exact counts and the   *)
(* rules of the C library, for any contexts, calls and number of workers.  *)
(*                                                                         *)
(* The argument is that of DenoBindingProofs for the promise chains.  It   *)
(* adds the pool, which holds each queued call once; the counts; and what  *)
(* a finalizer may rely on: a context that nobody can reach has no call    *)
(* that has not settled.                                                   *)
(***************************************************************************)
EXTENDS NodeBinding, FiniteSetTheorems, TLAPS

CtxOf(i) == call[asked[i]].context
Open == {c \in Contexts : context[c].native = "open"}
Pending(c) == CallsOf(c, {"queued", "running", "done"})

\* The calls that were made are those in the history, each once.
AskedOnce ==
  /\ \A i, j \in 1 .. Len(asked) : asked[i] = asked[j] => i = j
  /\ \A i \in 1 .. Len(asked) : ~ Is(asked[i], {"new"}) /\ CtxOf(i) \in Contexts
  /\ \A o \in Calls : ~ Is(o, {"new"}) =>
       \E i \in 1 .. Len(asked) : asked[i] = o

\* A call waits for the last one of its context before it, and the tail is
\* the last of all.
Chained ==
  /\ \A i \in 1 .. Len(asked) : \A j \in 1 .. i - 1 :
       CtxOf(j) = CtxOf(i) =>
         \E m \in j .. i - 1 : call[asked[i]].after = asked[m] /\ CtxOf(m) = CtxOf(i)
  /\ \A j \in 1 .. Len(asked) :
       \E m \in j .. Len(asked) :
         context[CtxOf(j)].tail = asked[m] /\ CtxOf(m) = CtxOf(j)

\* A context that the program can ask is open, and one that is closed, or
\* not yet made, has no call that could use it.
Lifecycle ==
  /\ \A c \in Contexts :
       /\ context[c].held => context[c].native # "none"
       /\ context[c].closing => context[c].closed /\ context[c].native = "open"
       /\ context[c].native = "closed" => context[c].closed \/ ~ context[c].held
       /\ context[c].reference <=> context[c].native = "open"
  /\ \A i \in 1 .. Len(asked) :
       /\ context[CtxOf(i)].native # "none"
       /\ context[CtxOf(i)].native = "closed" => Settled(asked[i])

\* The pool holds queued calls, each once.
Pooled ==
  /\ \A k \in 1 .. Len(pool) : Is(pool[k], {"queued"})
  /\ \A k, l \in 1 .. Len(pool) : pool[k] = pool[l] => k = l

\* The library is only dropped when no context is open.
Unloading ==
  /\ library.closed \/ library.native = "unloaded" => Open = {}
  /\ library.native = "unloaded" => library.closed \/ ~ library.held

IInv ==
  /\ TypeOK /\ AskedOnce /\ Chained /\ InRequestOrder /\ Lifecycle
  /\ Pooled /\ CountsExact /\ Unloading

----------------------------------------------------------------------------
LEMMA OpenFinite == IsFiniteSet(Open)
<1>1. Open \subseteq Contexts
  BY DEF Open
<1> QED BY <1>1, FinitenessAssumption, FS_Subset

LEMMA PendingFinite == \A c \in Contexts : IsFiniteSet(Pending(c))
<1>1. \A c \in Contexts : Pending(c) \subseteq Calls
  BY DEF Pending, CallsOf
<1> QED BY <1>1, FinitenessAssumption, FS_Subset

\* The counts, in terms of the names above.
LEMMA CountsAs ==
  CountsExact <=>
    /\ library.context_count = Cardinality(Open)
    /\ library.context_count <= library.contexts
    /\ \A c \in Contexts : context[c].pending = Cardinality(Pending(c))
BY DEF CountsExact, Open, Pending

LEMMA Initially == Init => IInv
<1> SUFFICES ASSUME Init PROVE IInv
  OBVIOUS
<1>1. TypeOK
  BY DEF Init, TypeOK, Libraries, ContextStates, CallStates, NewContext
<1>2. 1 .. Len(asked) = {} /\ 1 .. Len(pool) = {}
  BY DEF Init
<1>3. AskedOnce
  BY <1>2 DEF Init, AskedOnce, Is
<1>4. Chained /\ InRequestOrder /\ Pooled
  BY <1>2 DEF Chained, InRequestOrder, Pooled
<1>5. Lifecycle
  BY <1>2 DEF Init, Lifecycle, NewContext
<1>6. Open = {} /\ \A c \in Contexts : Pending(c) = {} /\ context[c].pending = 0
  <2>1. Open = {}
    BY DEF Init, Open, NewContext
  <2>2. \A c \in Contexts : context[c].pending = 0
    BY DEF Init, NewContext
  <2>3. \A o \in Calls : call[o].state = "new"
    BY DEF Init
  <2>4. \A c \in Contexts : Pending(c) = {}
    BY <2>3 DEF Pending, CallsOf, Is
  <2> QED BY <2>1, <2>2, <2>4
<1>7. CountsExact
  <2>1. library.context_count = 0 /\ library.contexts = 0
    BY DEF Init
  <2> QED BY <1>6, <2>1, FS_EmptySet, CountsAs
<1>8. Unloading
  BY <1>6 DEF Init, Unloading
<1> QED BY <1>1, <1>3, <1>4, <1>5, <1>7, <1>8 DEF IInv

\* Only the count of pending operations of a context changes.
OnlyPending ==
  \A c \in Contexts :
    /\ context'[c].tail = context[c].tail
    /\ context'[c].native = context[c].native
    /\ context'[c].held = context[c].held
    /\ context'[c].closed = context[c].closed
    /\ context'[c].closing = context[c].closing
    /\ context'[c].reference = context[c].reference

\* A call changes its state and nothing else does.
LEMMA Unasked ==
  ASSUME IInv, NEW o \in Calls, NEW s, call' = Became(o, s),
         ~ Is(o, {"new"}), s # "new",
         asked' = asked,
         \A c \in Contexts : context'[c].tail = context[c].tail
  PROVE  /\ \A i \in 1 .. Len(asked) :
              /\ CtxOf(i)' = CtxOf(i) /\ call'[asked[i]].after = call[asked[i]].after
              /\ asked[i] # o => call'[asked[i]] = call[asked[i]]
              /\ asked[i] = o => call'[asked[i]].state = s
         /\ AskedOnce' /\ Chained'
<1>1. \A i \in 1 .. Len(asked) : asked[i] \in Calls
  BY DEF IInv, TypeOK
<1>2. \A p \in Calls : /\ call'[p].context = call[p].context
                       /\ call'[p].after = call[p].after
                       /\ p # o => call'[p] = call[p]
                       /\ p = o => call'[p].state = s
  BY DEF Became, IInv, TypeOK, CallStates
<1>3. \A i \in 1 .. Len(asked) : CtxOf(i)' = CtxOf(i)
  BY <1>1, <1>2 DEF CtxOf
<1>4. AskedOnce'
  BY <1>1, <1>2, <1>3 DEF IInv, AskedOnce, Is
<1>5. Chained'
  <2>1. \A i \in 1 .. Len(asked) : call'[asked[i]].after = call[asked[i]].after
    BY <1>1, <1>2
  <2>2. \A i \in 1 .. Len(asked) : \A j \in 1 .. i - 1 :
          \A m \in j .. i - 1 : m \in 1 .. Len(asked) /\ j \in 1 .. Len(asked)
    BY DEF IInv, TypeOK
  <2>3. \A i \in 1 .. Len(asked) : \A j \in 1 .. i - 1 :
          CtxOf(j)' = CtxOf(i)' =>
            \E m \in j .. i - 1 :
              call'[asked[i]].after = asked[m] /\ CtxOf(m)' = CtxOf(i)'
    BY <1>3, <2>1, <2>2 DEF IInv, Chained
  <2>4. \A j \in 1 .. Len(asked) : \A m \in j .. Len(asked) : m \in 1 .. Len(asked)
    BY DEF IInv, TypeOK
  <2>5. \A j \in 1 .. Len(asked) :
          \E m \in j .. Len(asked) :
            context'[CtxOf(j)'].tail = asked[m] /\ CtxOf(m)' = CtxOf(j)'
    <3> TAKE j \in 1 .. Len(asked)
    <3>1. PICK m \in j .. Len(asked) :
            context[CtxOf(j)].tail = asked[m] /\ CtxOf(m) = CtxOf(j)
      BY DEF IInv, Chained
    <3>2. CtxOf(j)' = CtxOf(j) /\ CtxOf(m)' = CtxOf(m)
      BY <1>3, <2>4
    <3>3. CtxOf(j) \in Contexts
      BY DEF IInv, AskedOnce
    <3> QED BY <3>1, <3>2, <3>3
  <2> QED BY <2>3, <2>5 DEF Chained, CtxOf
<1> QED BY <1>1, <1>2, <1>3, <1>4, <1>5

\* A call that was made and has not settled goes on: what holds of contexts
\* and of the order of calls stays.
LEMMA CallStep ==
  ASSUME IInv, NEW o \in Calls,
         NEW s \in {"queued", "running", "done", "resolved", "rejected"},
         call' = Became(o, s), ~ Is(o, {"new"}), ~ Settled(o),
         asked' = asked, OnlyPending, library' = library
  PROVE  /\ AskedOnce' /\ Chained' /\ Lifecycle' /\ Unloading'
         /\ call' \in [Calls -> CallStates] /\ Open' = Open
         /\ ~ Is(o, {"waiting"}) => InRequestOrder'
<1>1. s # "new"
  OBVIOUS
<1>2. \A c \in Contexts : context'[c].tail = context[c].tail
  BY DEF OnlyPending
<1>3. AskedOnce' /\ Chained'
  BY <1>1, <1>2, Unasked
<1>4. \A i \in 1 .. Len(asked) :
        /\ asked[i] \in Calls
        /\ CtxOf(i)' = CtxOf(i)
        /\ asked[i] # o => call'[asked[i]] = call[asked[i]]
        /\ asked[i] = o => call'[asked[i]].state = s
  BY <1>1, <1>2, Unasked DEF IInv, TypeOK
<1>5. Lifecycle'
  <2>1. \A i \in 1 .. Len(asked) : Settled(asked[i]) => Settled(asked[i])'
    BY <1>4 DEF Settled, Is
  <2>2. \A i \in 1 .. Len(asked) : CtxOf(i)' = CtxOf(i) /\ CtxOf(i) \in Contexts
    BY <1>4 DEF IInv, AskedOnce
  <2>3. \A i \in 1 .. Len(asked) :
          /\ context'[CtxOf(i)'].native # "none"
          /\ context'[CtxOf(i)'].native = "closed" => Settled(asked[i])'
    BY <2>1, <2>2 DEF IInv, Lifecycle, OnlyPending
  <2>4. \A c \in Contexts :
          /\ context'[c].held => context'[c].native # "none"
          /\ context'[c].closing => context'[c].closed /\ context'[c].native = "open"
          /\ context'[c].native = "closed" => context'[c].closed \/ ~ context'[c].held
          /\ context'[c].reference <=> context'[c].native = "open"
    BY DEF IInv, Lifecycle, OnlyPending
  <2> QED BY <2>3, <2>4 DEF Lifecycle, CtxOf
<1>6. call' \in [Calls -> CallStates]
  BY DEF Became, IInv, TypeOK, CallStates
<1>7. Open' = Open
  BY DEF Open, OnlyPending
<1>8. Unloading'
  BY <1>7 DEF IInv, Unloading
<1>9. ASSUME ~ Is(o, {"waiting"}) PROVE InRequestOrder'
  BY <1>4, <1>9 DEF IInv, InRequestOrder, CtxOf, Settled, Is
<1> QED BY <1>3, <1>5, <1>6, <1>7, <1>8, <1>9

\* What is pending after a call has changed its state.
LEMMA PendingThen ==
  ASSUME IInv, NEW o \in Calls, NEW s, call' = Became(o, s),
         NEW c \in Contexts
  PROVE  Pending(c)' =
           IF c = call[o].context
           THEN IF s \in {"queued", "running", "done"} THEN Pending(c) \cup {o}
                ELSE Pending(c) \ {o}
           ELSE Pending(c)
<1>1. \A p \in Calls : /\ call'[p].context = call[p].context
                       /\ p # o => call'[p].state = call[p].state
                       /\ p = o => call'[p].state = s
  BY DEF Became, IInv, TypeOK, CallStates
<1> QED BY <1>1 DEF Pending, CallsOf, Is

\* What may be called settled has been: every call before one that may start
\* has settled, since the chain leads through all of them.
LEMMA EarlierSettled ==
  ASSUME IInv, NEW j \in 1 .. Len(asked), Is(asked[j], {"waiting"}),
         Settled(call[asked[j]].after),
         NEW i \in 1 .. j - 1, CtxOf(i) = CtxOf(j)
  PROVE  Settled(asked[i])
<1>1. PICK m \in i .. j - 1 : call[asked[j]].after = asked[m] /\ CtxOf(m) = CtxOf(j)
  BY DEF IInv, Chained
<1>2. /\ m \in 1 .. Len(asked) /\ i \in 1 .. Len(asked)
      /\ asked[m] \in Calls /\ asked[i] \in Calls
  BY DEF IInv, TypeOK
<1>3. Settled(asked[m])
  BY <1>1
<1>4. CASE i = m
  BY <1>3, <1>4
<1>5. CASE i < m
  <2>1. ~ Is(asked[m], {"new", "waiting"})
    BY <1>2, <1>3, NoCallAssumption DEF Settled, Is
  <2> QED BY <1>1, <1>2, <1>5, <2>1 DEF IInv, InRequestOrder, CtxOf
<1> QED BY <1>1, <1>4, <1>5

\* The same for the last call of a context.
LEMMA AllSettled ==
  ASSUME IInv, NEW c \in Contexts, Settled(context[c].tail),
         NEW i \in 1 .. Len(asked), CtxOf(i) = c
  PROVE  Settled(asked[i])
<1>1. PICK m \in i .. Len(asked) : context[c].tail = asked[m] /\ CtxOf(m) = c
  BY DEF IInv, Chained
<1>2. m \in 1 .. Len(asked) /\ asked[m] \in Calls
  BY DEF IInv, TypeOK
<1>3. Settled(asked[m])
  BY <1>1
<1>4. CASE i = m
  BY <1>3, <1>4
<1>5. CASE i < m
  <2>1. ~ Is(asked[m], {"new", "waiting"})
    BY <1>2, <1>3, NoCallAssumption DEF Settled, Is
  <2> QED BY <1>1, <1>2, <1>5, <2>1 DEF IInv, InRequestOrder, CtxOf
<1> QED BY <1>1, <1>4, <1>5

----------------------------------------------------------------------------
(* Calls.                                                                  *)

\* Start either queues the call or rejects it.
LEMMA Starts ==
  ASSUME IInv, NEW o \in Calls, Start(o)
  PROVE  /\ Is(o, {"waiting"}) /\ Settled(call[o].after)
         /\ ~ Is(o, {"new"}) /\ ~ Settled(o)
         /\ OnlyPending /\ asked' = asked /\ library' = library
         /\ \/ /\ call' = Became(o, "queued") /\ pool' = Append(pool, o)
               /\ context' = [context EXCEPT ![call[o].context].pending = @ + 1]
            \/ /\ call' = Became(o, "rejected")
               /\ UNCHANGED <<context, pool>>
<1>1. Is(o, {"waiting"}) /\ Settled(call[o].after)
  BY DEF Start, RunsAfter
<1>2. ~ Is(o, {"new"}) /\ ~ Settled(o)
  BY <1>1, NoCallAssumption DEF Is, Settled
<1>3. OnlyPending
  <2>1. CASE context' = context
    BY <2>1 DEF OnlyPending
  <2>2. ASSUME NEW c, context' = [context EXCEPT ![c].pending = @ + 1]
        PROVE  OnlyPending
    BY <2>2 DEF OnlyPending, IInv, TypeOK, ContextStates
  <2> QED BY <2>1, <2>2 DEF Start
<1> QED BY <1>1, <1>2, <1>3 DEF Start

LEMMA StartStep ==
  ASSUME IInv, NEW o \in Calls, Start(o)
  PROVE  IInv'
<1> DEFINE c == call[o].context
<1>1. PICK s \in {"queued", "rejected"} :
        /\ call' = Became(o, s)
        /\ s = "queued" =>
             /\ pool' = Append(pool, o)
             /\ context' = [context EXCEPT ![c].pending = @ + 1]
        /\ s = "rejected" => UNCHANGED <<context, pool>>
  BY Starts
<1>2. /\ Is(o, {"waiting"}) /\ Settled(call[o].after)
      /\ ~ Is(o, {"new"}) /\ ~ Settled(o)
      /\ OnlyPending /\ asked' = asked /\ library' = library
  BY Starts
<1>3. /\ AskedOnce' /\ Chained' /\ Lifecycle' /\ Unloading'
      /\ call' \in [Calls -> CallStates] /\ Open' = Open
  BY <1>1, <1>2, CallStep
<1>4. c \in Contexts
  <2>1. PICK i \in 1 .. Len(asked) : asked[i] = o
    BY <1>2 DEF IInv, AskedOnce
  <2> QED BY <2>1 DEF IInv, AskedOnce, CtxOf
<1>5. \A i \in 1 .. Len(asked) :
        /\ asked[i] \in Calls
        /\ CtxOf(i)' = CtxOf(i)
        /\ asked[i] # o => call'[asked[i]] = call[asked[i]]
        /\ asked[i] = o => call'[asked[i]].state = s
  BY <1>1, <1>2, Unasked DEF IInv, TypeOK, OnlyPending
<1>6. InRequestOrder'
  <2> SUFFICES ASSUME NEW i \in 1 .. Len(asked), NEW j \in 1 .. Len(asked),
                      i < j, CtxOf(i) = CtxOf(j),
                      ~ Is(asked[j], {"new", "waiting"})'
               PROVE  Settled(asked[i])'
    BY <1>2, <1>5 DEF InRequestOrder, CtxOf
  <2>1. Settled(asked[i]) => Settled(asked[i])'
    BY <1>2, <1>5 DEF Settled, Is
  <2>2. CASE asked[j] = o
    <3>1. Is(asked[j], {"waiting"}) /\ Settled(call[asked[j]].after)
      BY <1>2, <2>2
    <3>2. i \in 1 .. j - 1
      OBVIOUS
    <3> QED BY <2>1, <3>1, <3>2, EarlierSettled
  <2>3. CASE asked[j] # o
    <3>1. ~ Is(asked[j], {"new", "waiting"})
      BY <1>2, <1>5, <2>3 DEF Is
    <3> QED BY <2>1, <3>1 DEF IInv, InRequestOrder, CtxOf
  <2> QED BY <2>2, <2>3
<1>7. \A d \in Contexts :
        Pending(d)' = IF s = "queued" /\ d = c THEN Pending(d) \cup {o}
                      ELSE Pending(d)
  <2>1. \A d \in Contexts : o \notin Pending(d)
    BY <1>2 DEF Pending, CallsOf, Is
  <2>2. \A d \in Contexts :
          Pending(d)' = IF d = c
                        THEN IF s \in {"queued", "running", "done"}
                             THEN Pending(d) \cup {o} ELSE Pending(d) \ {o}
                        ELSE Pending(d)
    BY <1>1, PendingThen
  <2> QED BY <1>1, <2>1, <2>2
<1>8. CASE s = "queued"
  <2>1. /\ pool' = Append(pool, o)
        /\ context' = [context EXCEPT ![c].pending = @ + 1]
    BY <1>1, <1>8
  <2> HIDE DEF c
  <2>2. TypeOK'
    <3>1. pool' \in Seq(Calls)
      BY <2>1 DEF IInv, TypeOK
    <3>2. context' \in [Contexts -> ContextStates]
      <4>1. context[c] \in ContextStates /\ context[c].pending + 1 \in Nat
        BY <1>4 DEF IInv, TypeOK, ContextStates
      <4>2. [context[c] EXCEPT !.pending = @ + 1] \in ContextStates
        BY <4>1 DEF ContextStates
      <4> QED BY <1>4, <2>1, <4>2 DEF IInv, TypeOK
    <3> QED BY <1>2, <1>3, <3>1, <3>2 DEF IInv, TypeOK
  <2>3. Pooled'
    <3>1. /\ Len(pool) \in Nat /\ Len(pool') = Len(pool) + 1
          /\ pool'[Len(pool) + 1] = o
          /\ \A k \in 1 .. Len(pool) : pool'[k] = pool[k] /\ pool[k] \in Calls
      BY <2>1 DEF IInv, TypeOK
    <3>2. \A k \in 1 .. Len(pool') : k = Len(pool) + 1 \/ k \in 1 .. Len(pool)
      BY <3>1
    <3>3. \A k \in 1 .. Len(pool) : pool[k] # o
      BY <1>2 DEF IInv, Pooled, Is
    <3>4. call'[o].state = "queued"
      BY <1>1, <1>8 DEF Became, IInv, TypeOK, CallStates
    <3>5. \A k \in 1 .. Len(pool) : call'[pool[k]].state = "queued"
      <4>1. \A p \in Calls : p # o => call'[p] = call[p]
        BY <1>1 DEF Became, IInv, TypeOK
      <4> QED BY <3>1, <3>3, <4>1 DEF IInv, Pooled, Is
    <3>6. \A k \in 1 .. Len(pool') : call'[pool'[k]].state = "queued"
      BY <3>1, <3>2, <3>4, <3>5
    <3>7. \A k, l \in 1 .. Len(pool') : pool'[k] = pool'[l] => k = l
      BY <3>1, <3>2, <3>3 DEF IInv, Pooled
    <3> QED BY <3>6, <3>7 DEF Pooled, Is
  <2>4. CountsExact'
    <3>1. \A d \in Contexts : d # c => context'[d].pending = context[d].pending
      BY <2>1 DEF IInv, TypeOK
    <3>2. context'[c].pending = context[c].pending + 1
      BY <1>4, <2>1 DEF IInv, TypeOK, ContextStates
    <3>3. o \notin Pending(c)
      BY <1>2 DEF Pending, CallsOf, Is
    <3>4. Cardinality(Pending(c) \cup {o}) = Cardinality(Pending(c)) + 1
      BY <1>4, <3>3, PendingFinite, FS_AddElement
    <3>5. \A d \in Contexts : context'[d].pending = Cardinality(Pending(d)')
      BY <1>7, <1>8, <3>1, <3>2, <3>4, CountsAs DEF IInv
    <3> QED BY <1>2, <1>3, <3>5, CountsAs DEF IInv, CountsExact, Open, Pending
  <2> QED BY <1>3, <1>6, <2>2, <2>3, <2>4 DEF IInv
<1>9. CASE s = "rejected"
  <2>1. UNCHANGED <<context, pool>>
    BY <1>1, <1>9
  <2>2. TypeOK'
    BY <1>2, <1>3, <2>1 DEF IInv, TypeOK
  <2>3. \A k \in 1 .. Len(pool) : pool[k] # o /\ pool[k] \in Calls
    BY <1>2 DEF IInv, Pooled, Is, TypeOK
  <2>4. Pooled'
    BY <1>1, <2>1, <2>3 DEF IInv, Pooled, Is, Became, TypeOK
  <2>5. CountsExact'
    BY <1>2, <1>3, <1>7, <1>9, <2>1, CountsAs DEF IInv, CountsExact, Open, Pending
  <2> QED BY <1>3, <1>6, <2>2, <2>4, <2>5 DEF IInv
<1> QED BY <1>8, <1>9

\* A worker takes the first call of the pool, which is queued.
LEMMA Taken ==
  ASSUME IInv, Begin
  PROVE  /\ Head(pool) \in Calls /\ Is(Head(pool), {"queued"})
         /\ \A k \in 1 .. Len(pool) - 1 :
              /\ Tail(pool)[k] = pool[k + 1] /\ pool[k + 1] \in Calls
              /\ pool[k + 1] # Head(pool)
<1>1. /\ Len(pool) \in Nat \ {0} /\ Head(pool) = pool[1] /\ 1 \in 1 .. Len(pool)
      /\ \A k \in 1 .. Len(pool) : pool[k] \in Calls
  BY DEF Begin, IInv, TypeOK
<1>2. \A k \in 1 .. Len(pool) - 1 :
        Tail(pool)[k] = pool[k + 1] /\ k + 1 \in 1 .. Len(pool) /\ k + 1 # 1
  BY <1>1 DEF IInv, TypeOK
<1> QED BY <1>1, <1>2 DEF IInv, Pooled

LEMMA BeginStep ==
  ASSUME IInv, Begin
  PROVE  IInv'
<1> DEFINE o == Head(pool)
<1>1. /\ o \in Calls /\ Is(o, {"queued"})
      /\ \A k \in 1 .. Len(pool) - 1 :
           /\ Tail(pool)[k] = pool[k + 1] /\ pool[k + 1] \in Calls
           /\ pool[k + 1] # o
  BY Taken
<1>2. /\ call' = Became(o, "running") /\ pool' = Tail(pool) /\ asked' = asked
      /\ library' = library /\ context' = context /\ pool # <<>>
  BY DEF Begin
<1> HIDE DEF o
<1>3. ~ Is(o, {"new"}) /\ ~ Is(o, {"waiting"}) /\ ~ Settled(o)
  BY <1>1, NoCallAssumption DEF Is, Settled
<1>4. OnlyPending
  BY <1>2 DEF OnlyPending
<1>5. /\ AskedOnce' /\ Chained' /\ Lifecycle' /\ Unloading' /\ InRequestOrder'
      /\ call' \in [Calls -> CallStates] /\ Open' = Open
  BY <1>1, <1>2, <1>3, <1>4, CallStep
<1>6. TypeOK'
  <2>1. Tail(pool) \in Seq(Calls)
    BY <1>2 DEF IInv, TypeOK
  <2> QED BY <1>2, <1>5, <2>1 DEF IInv, TypeOK
<1>7. Pooled'
  <2>1. Len(pool) \in Nat \ {0} /\ Len(pool') = Len(pool) - 1
    BY <1>2 DEF IInv, TypeOK
  <2>2. \A k \in 1 .. Len(pool') :
          /\ pool'[k] = pool[k + 1] /\ pool[k + 1] \in Calls /\ pool[k + 1] # o
          /\ k + 1 \in 1 .. Len(pool)
    BY <1>1, <1>2, <2>1
  <2>3. \A k \in 1 .. Len(pool') : call'[pool'[k]].state = "queued"
    BY <1>2, <2>2 DEF IInv, Pooled, Is, Became, TypeOK
  <2>4. \A k, l \in 1 .. Len(pool') : pool'[k] = pool'[l] => k = l
    <3> SUFFICES ASSUME NEW k \in 1 .. Len(pool'), NEW l \in 1 .. Len(pool'),
                        pool'[k] = pool'[l]
                 PROVE  k = l
      OBVIOUS
    <3>1. k + 1 = l + 1
      BY <2>2 DEF IInv, Pooled
    <3> QED BY <3>1
  <2> QED BY <2>3, <2>4 DEF Pooled, Is
<1>8. CountsExact'
  <2>1. \A d \in Contexts : Pending(d)' = Pending(d)
    <3>1. o \in Pending(call[o].context)
      BY <1>1 DEF Pending, CallsOf, Is
    <3>2. \A d \in Contexts :
            Pending(d)' = IF d = call[o].context THEN Pending(d) \cup {o}
                          ELSE Pending(d)
      BY <1>1, <1>2, PendingThen
    <3> QED BY <3>1, <3>2
  <2> QED BY <1>2, <1>5, <2>1, CountsAs DEF IInv, CountsExact, Open, Pending
<1> QED BY <1>5, <1>6, <1>7, <1>8 DEF IInv

LEMMA EndStep ==
  ASSUME IInv, NEW o \in Calls, End(o)
  PROVE  IInv'
<1>1. /\ Is(o, {"running"}) /\ call' = Became(o, "done") /\ asked' = asked
      /\ library' = library /\ context' = context /\ pool' = pool
  BY DEF End
<1>2. ~ Is(o, {"new"}) /\ ~ Is(o, {"waiting"}) /\ ~ Settled(o)
  BY <1>1, NoCallAssumption DEF Is, Settled
<1>3. OnlyPending
  BY <1>1 DEF OnlyPending
<1>4. /\ AskedOnce' /\ Chained' /\ Lifecycle' /\ Unloading' /\ InRequestOrder'
      /\ call' \in [Calls -> CallStates] /\ Open' = Open
  BY <1>1, <1>2, <1>3, CallStep
<1>5. TypeOK'
  BY <1>1, <1>4 DEF IInv, TypeOK
<1>6. Pooled'
  <2>1. \A k \in 1 .. Len(pool) : pool[k] # o /\ pool[k] \in Calls
    BY <1>1 DEF IInv, Pooled, Is, TypeOK
  <2> QED BY <1>1, <2>1 DEF IInv, Pooled, Is, Became, TypeOK
<1>7. CountsExact'
  <2>1. \A d \in Contexts : Pending(d)' = Pending(d)
    <3>1. o \in Pending(call[o].context)
      BY <1>1 DEF Pending, CallsOf, Is
    <3> QED BY <1>1, <3>1, PendingThen
  <2> QED BY <1>1, <1>4, <2>1, CountsAs DEF IInv, CountsExact, Open, Pending
<1> QED BY <1>4, <1>5, <1>6, <1>7 DEF IInv

LEMMA CompleteStep ==
  ASSUME IInv, NEW o \in Calls, Complete(o)
  PROVE  IInv'
<1> DEFINE c == call[o].context
<1>1. PICK s \in {"resolved", "rejected"} : call' = Became(o, s)
  BY DEF Complete
<1>2. /\ Is(o, {"done"}) /\ asked' = asked /\ library' = library /\ pool' = pool
      /\ context' = [context EXCEPT ![c].pending = @ - 1]
  BY DEF Complete, PendingAfter
<1>3. ~ Is(o, {"new"}) /\ ~ Is(o, {"waiting"}) /\ ~ Settled(o)
  BY <1>2, NoCallAssumption DEF Is, Settled
<1>4. c \in Contexts
  <2>1. PICK i \in 1 .. Len(asked) : asked[i] = o
    BY <1>3 DEF IInv, AskedOnce
  <2> QED BY <2>1 DEF IInv, AskedOnce, CtxOf
<1>5. OnlyPending
  BY <1>2 DEF OnlyPending, IInv, TypeOK, ContextStates
<1>6. /\ AskedOnce' /\ Chained' /\ Lifecycle' /\ Unloading' /\ InRequestOrder'
      /\ call' \in [Calls -> CallStates] /\ Open' = Open
  BY <1>1, <1>2, <1>3, <1>5, CallStep
<1>7. Pooled'
  <2>1. \A k \in 1 .. Len(pool) : pool[k] # o /\ pool[k] \in Calls
    BY <1>2 DEF IInv, Pooled, Is, TypeOK
  <2> QED BY <1>1, <1>2, <2>1 DEF IInv, Pooled, Is, Became, TypeOK
<1>8. /\ \A d \in Contexts : Pending(d)' = IF d = c THEN Pending(d) \ {o}
                                           ELSE Pending(d)
      /\ o \in Pending(c)
  BY <1>1, <1>2, PendingThen DEF Pending, CallsOf, Is
<1> HIDE DEF c
<1>9. /\ Cardinality(Pending(c) \ {o}) = Cardinality(Pending(c)) - 1
      /\ Cardinality(Pending(c) \ {o}) \in Nat
  <2>1. IsFiniteSet(Pending(c)) /\ IsFiniteSet(Pending(c) \ {o})
    BY <1>4, PendingFinite, FS_RemoveElement
  <2> QED BY <1>8, <2>1, FS_RemoveElement, FS_CardinalityType
<1>10. context[c].pending = Cardinality(Pending(c))
  BY <1>4, CountsAs DEF IInv
<1>11. TypeOK'
  <2>1. context[c].pending - 1 \in Nat
    BY <1>9, <1>10
  <2> QED BY <1>2, <1>4, <1>6, <2>1 DEF IInv, TypeOK, ContextStates
<1>12. CountsExact'
  <2>1. /\ \A d \in Contexts : d # c => context'[d].pending = context[d].pending
        /\ context'[c].pending = context[c].pending - 1
    BY <1>2, <1>4 DEF IInv, TypeOK, ContextStates
  <2>2. \A d \in Contexts : context'[d].pending = Cardinality(Pending(d)')
    BY <1>8, <1>9, <1>10, <2>1, CountsAs DEF IInv
  <2> QED BY <1>2, <1>6, <2>2, CountsAs DEF IInv, CountsExact, Open, Pending
<1> QED BY <1>6, <1>7, <1>11, <1>12 DEF IInv

----------------------------------------------------------------------------
(* Contexts and the library.                                               *)

\* What does not touch the calls and keeps every tail.
LEMMA ContextStep ==
  ASSUME IInv, UNCHANGED <<call, pool, asked>>,
         \A c \in Contexts : context'[c].tail = context[c].tail
  PROVE  /\ AskedOnce' /\ Chained' /\ InRequestOrder' /\ Pooled'
         /\ \A c \in Contexts : Pending(c)' = Pending(c)
         /\ \A i \in 1 .. Len(asked) :
              CtxOf(i)' = CtxOf(i) /\ CtxOf(i) \in Contexts
              /\ Settled(asked[i])' = Settled(asked[i])
<1>1. \A i \in 1 .. Len(asked) : CtxOf(i)' = CtxOf(i) /\ CtxOf(i) \in Contexts
  BY DEF CtxOf, IInv, AskedOnce
<1>2. AskedOnce'
  BY <1>1 DEF IInv, AskedOnce, Is
<1>3. \A i \in 1 .. Len(asked) : \A j \in 1 .. i - 1 :
        j \in 1 .. Len(asked) /\ \A m \in j .. i - 1 : m \in 1 .. Len(asked)
  BY DEF IInv, TypeOK
<1>4. \A i \in 1 .. Len(asked) : \A j \in 1 .. i - 1 :
        CtxOf(j)' = CtxOf(i)' =>
          \E m \in j .. i - 1 :
            call[asked[i]].after = asked[m] /\ CtxOf(m)' = CtxOf(i)'
  <2> SUFFICES ASSUME NEW i \in 1 .. Len(asked), NEW j \in 1 .. i - 1,
                      CtxOf(j)' = CtxOf(i)'
               PROVE  \E m \in j .. i - 1 :
                        call[asked[i]].after = asked[m] /\ CtxOf(m)' = CtxOf(i)'
    OBVIOUS
  <2>1. CtxOf(j) = CtxOf(i)
    BY <1>1, <1>3
  <2>2. PICK m \in j .. i - 1 : call[asked[i]].after = asked[m] /\ CtxOf(m) = CtxOf(i)
    BY <2>1 DEF IInv, Chained
  <2> QED BY <1>1, <1>3, <2>2
<1>5. \A j \in 1 .. Len(asked) :
        \E m \in j .. Len(asked) :
          context'[CtxOf(j)'].tail = asked[m] /\ CtxOf(m)' = CtxOf(j)'
  <2> TAKE j \in 1 .. Len(asked)
  <2>1. PICK m \in j .. Len(asked) :
          context[CtxOf(j)].tail = asked[m] /\ CtxOf(m) = CtxOf(j)
    BY DEF IInv, Chained
  <2>2. m \in 1 .. Len(asked)
    BY DEF IInv, TypeOK
  <2> QED BY <1>1, <2>1, <2>2
<1>6. Chained'
  BY <1>4, <1>5 DEF Chained, CtxOf
<1>7. InRequestOrder'
  BY DEF IInv, InRequestOrder, Settled, Is
<1>8. Pooled'
  BY DEF IInv, Pooled, Is
<1>9. \A c \in Contexts : Pending(c)' = Pending(c)
  BY DEF Pending, CallsOf, Is
<1>10. \A i \in 1 .. Len(asked) : Settled(asked[i])' = Settled(asked[i])
  BY DEF Settled, Is
<1> QED BY <1>1, <1>2, <1>6, <1>7, <1>8, <1>9, <1>10

\* Counting an open context.
LEMMA OneMore ==
  ASSUME NEW c, c \notin Open, Open' = Open \cup {c}
  PROVE  Cardinality(Open') = Cardinality(Open) + 1
BY OpenFinite, FS_AddElement

LEMMA OneLess ==
  ASSUME NEW c \in Open, Open' = Open \ {c}
  PROVE  /\ Cardinality(Open') = Cardinality(Open) - 1
         /\ Cardinality(Open') \in Nat
<1>1. IsFiniteSet(Open')
  BY OpenFinite, FS_RemoveElement
<1> QED BY <1>1, OpenFinite, FS_RemoveElement, FS_CardinalityType

LEMMA CreateContextStep ==
  ASSUME IInv, NEW c \in Contexts, CreateContext(c)
  PROVE  IInv'
<1>1. \A d \in Contexts : /\ context'[d].tail = context[d].tail
                          /\ context'[d].closing = context[d].closing
                          /\ context'[d].closed = context[d].closed
                          /\ context'[d].pending = context[d].pending
                          /\ d # c => context'[d] = context[d]
                          /\ d = c => /\ context'[d].native = "open"
                                      /\ context'[d].reference
                                      /\ context[d].native = "none"
  BY DEF CreateContext, IInv, TypeOK, ContextStates
<1>2. /\ AskedOnce' /\ Chained' /\ InRequestOrder' /\ Pooled'
      /\ \A d \in Contexts : Pending(d)' = Pending(d)
      /\ \A i \in 1 .. Len(asked) :
           /\ CtxOf(i)' = CtxOf(i) /\ CtxOf(i) \in Contexts
           /\ Settled(asked[i])' = Settled(asked[i])
  BY <1>1, ContextStep DEF CreateContext
<1>3. TypeOK'
  <2> DEFINE opened == [context EXCEPT ![c].native = "open"]
             referring == [opened EXCEPT ![c].reference = TRUE]
             counted == [library EXCEPT !.context_count = @ + 1]
  <2>1. opened \in [Contexts -> ContextStates]
    BY DEF IInv, TypeOK, ContextStates
  <2>2. counted \in Libraries
    BY DEF IInv, TypeOK, Libraries
  <2>3. /\ context' = [referring EXCEPT ![c].held = TRUE]
        /\ library' = [counted EXCEPT !.contexts = @ + 1]
    BY DEF CreateContext
  <2> HIDE DEF opened, counted
  <2>4. referring \in [Contexts -> ContextStates]
    BY <2>1 DEF ContextStates
  <2> HIDE DEF referring
  <2>5. context' \in [Contexts -> ContextStates]
    BY <2>3, <2>4 DEF ContextStates
  <2>6. library' \in Libraries
    BY <2>2, <2>3 DEF Libraries
  <2> QED BY <2>5, <2>6 DEF CreateContext, IInv, TypeOK
<1>4. Lifecycle'
  <2>1. \A i \in 1 .. Len(asked) : CtxOf(i) # c
    BY <1>1, <1>2 DEF IInv, Lifecycle
  <2>2. \A i \in 1 .. Len(asked) :
          /\ context'[CtxOf(i)'].native # "none"
          /\ context'[CtxOf(i)'].native = "closed" => Settled(asked[i])'
    BY <1>1, <1>2, <2>1 DEF IInv, Lifecycle
  <2>3. \A d \in Contexts :
          /\ context'[d].held => context'[d].native # "none"
          /\ context'[d].closing => context'[d].closed /\ context'[d].native = "open"
          /\ context'[d].native = "closed" => context'[d].closed \/ ~ context'[d].held
          /\ context'[d].reference <=> context'[d].native = "open"
    BY <1>1 DEF IInv, Lifecycle
  <2>4. asked' = asked
    BY DEF CreateContext
  <2> QED BY <2>2, <2>3, <2>4 DEF Lifecycle, CtxOf
<1>5. /\ library'.context_count = library.context_count + 1
      /\ library'.contexts = library.contexts + 1
      /\ library'.closed = library.closed /\ library'.held = library.held
      /\ library'.native = library.native
      /\ library.native = "loaded" /\ ~ library.closed
      /\ library.context_count \in Nat /\ library.contexts \in Nat
  BY DEF CreateContext, IInv, TypeOK, Libraries
<1>6. CountsExact'
  <2>1. Open' = Open \cup {c} /\ c \notin Open
    BY <1>1 DEF Open
  <2>2. Cardinality(Open') = Cardinality(Open) + 1
    BY <2>1, OneMore
  <2>3. /\ library'.context_count = Cardinality(Open')
        /\ library'.context_count <= library'.contexts
    BY <1>5, <2>2, CountsAs DEF IInv
  <2>4. \A d \in Contexts : context'[d].pending = Cardinality(Pending(d)')
    BY <1>1, <1>2, CountsAs DEF IInv
  <2> QED BY <2>3, <2>4 DEF CountsExact, Open, Pending
<1>7. Unloading'
  BY <1>5 DEF Unloading
<1> QED BY <1>2, <1>3, <1>4, <1>6, <1>7 DEF IInv

\* A step that leaves native contexts and the library alone.
LEMMA AskStep ==
  ASSUME IInv, UNCHANGED <<call, pool, asked, library>>,
         context' \in [Contexts -> ContextStates],
         \A c \in Contexts : /\ context'[c].tail = context[c].tail
                             /\ context'[c].native = context[c].native
                             /\ context'[c].reference = context[c].reference
                             /\ context'[c].pending = context[c].pending
                             /\ context[c].closed => context'[c].closed
                             /\ context'[c].held => context[c].held
                             /\ context'[c].closing =>
                                  context'[c].closed /\ context[c].native = "open"
  PROVE  IInv'
<1>1. /\ AskedOnce' /\ Chained' /\ InRequestOrder' /\ Pooled'
      /\ \A d \in Contexts : Pending(d)' = Pending(d)
      /\ \A i \in 1 .. Len(asked) :
           /\ CtxOf(i)' = CtxOf(i) /\ CtxOf(i) \in Contexts
           /\ Settled(asked[i])' = Settled(asked[i])
  BY ContextStep
<1>2. TypeOK'
  BY DEF IInv, TypeOK
<1>3. Lifecycle'
  <2>1. \A i \in 1 .. Len(asked) :
          /\ context'[CtxOf(i)'].native # "none"
          /\ context'[CtxOf(i)'].native = "closed" => Settled(asked[i])'
    BY <1>1 DEF IInv, Lifecycle
  <2>2. \A d \in Contexts :
          /\ context'[d].held => context'[d].native # "none"
          /\ context'[d].closing => context'[d].closed /\ context'[d].native = "open"
          /\ context'[d].native = "closed" => context'[d].closed \/ ~ context'[d].held
          /\ context'[d].reference <=> context'[d].native = "open"
    BY DEF IInv, Lifecycle
  <2> QED BY <2>1, <2>2 DEF Lifecycle, CtxOf
<1>4. Open' = Open
  BY DEF Open
<1>5. CountsExact'
  BY <1>1, <1>4, CountsAs DEF IInv, CountsExact, Open, Pending
<1>6. Unloading'
  BY <1>4 DEF IInv, Unloading
<1> QED BY <1>1, <1>2, <1>3, <1>5, <1>6 DEF IInv

LEMMA RequestCloseStep ==
  ASSUME IInv, NEW c \in Contexts, RequestClose(c)
  PROVE  IInv'
<1>1. context[c].native = "open"
  BY DEF RequestClose, IInv, Lifecycle, TypeOK, ContextStates
<1> DEFINE closed == [context EXCEPT ![c].closed = TRUE]
<1>2. closed \in [Contexts -> ContextStates] /\ closed[c].closed
  BY DEF IInv, TypeOK, ContextStates
<1>3. context' \in [Contexts -> ContextStates] /\ context'[c].closed
  <2>1. context' = [closed EXCEPT ![c].closing = TRUE]
    BY DEF RequestClose
  <2> HIDE DEF closed
  <2>2. context' \in [Contexts -> ContextStates]
    BY <1>2, <2>1 DEF ContextStates
  <2>3. context'[c].closed
    BY <1>2, <2>1 DEF ContextStates
  <2> QED BY <2>2, <2>3
<1>4. \A d \in Contexts : /\ context'[d].tail = context[d].tail
                          /\ context'[d].native = context[d].native
                          /\ context'[d].reference = context[d].reference
                          /\ context'[d].pending = context[d].pending
                          /\ context'[d].held = context[d].held
                          /\ d # c => context'[d].closed = context[d].closed
                          /\ d # c => context'[d].closing = context[d].closing
  BY DEF RequestClose, IInv, TypeOK, ContextStates
<1>5. \A d \in Contexts : /\ context[d].closed => context'[d].closed
                          /\ context'[d].closing =>
                               context'[d].closed /\ context[d].native = "open"
  BY <1>1, <1>3, <1>4 DEF IInv, Lifecycle
<1>6. UNCHANGED <<call, pool, asked, library>>
  BY DEF RequestClose
<1> QED BY <1>3, <1>4, <1>5, <1>6, AskStep

LEMMA CloseAgainStep ==
  ASSUME IInv, NEW c \in Contexts, CloseAgain(c)
  PROVE  IInv'
<1>1. context' \in [Contexts -> ContextStates]
  BY DEF CloseAgain, IInv, TypeOK, ContextStates
<1>2. \A d \in Contexts : /\ context'[d].tail = context[d].tail
                          /\ context'[d].native = context[d].native
                          /\ context'[d].reference = context[d].reference
                          /\ context'[d].pending = context[d].pending
                          /\ context'[d].held = context[d].held
                          /\ context'[d].closed = context[d].closed
                          /\ context'[d].closing = context[d].closing
  BY DEF CloseAgain, IInv, TypeOK, ContextStates
<1> QED BY <1>1, <1>2, AskStep DEF CloseAgain, IInv, Lifecycle

LEMMA DropStep ==
  ASSUME IInv, NEW c \in Contexts, Drop(c)
  PROVE  IInv'
<1>1. context' \in [Contexts -> ContextStates]
  BY DEF Drop, IInv, TypeOK, ContextStates
<1>2. \A d \in Contexts : /\ context'[d].tail = context[d].tail
                          /\ context'[d].native = context[d].native
                          /\ context'[d].reference = context[d].reference
                          /\ context'[d].pending = context[d].pending
                          /\ context'[d].held => context[d].held
                          /\ context'[d].closed = context[d].closed
                          /\ context'[d].closing = context[d].closing
  BY DEF Drop, IInv, TypeOK, ContextStates
<1> QED BY <1>1, <1>2, AskStep DEF Drop, IInv, Lifecycle

\* Closing the native context of a wrapper whose calls have all settled.
LEMMA NativeCloses ==
  ASSUME IInv, NEW c \in Contexts, UNCHANGED <<call, pool, asked>>,
         context' \in [Contexts -> ContextStates],
         library' \in Libraries,
         \A d \in Contexts : d # c => context'[d] = context[d],
         context'[c].tail = context[c].tail,
         context'[c].pending = context[c].pending,
         context'[c].native = "closed",
         ~ context'[c].closing, ~ context'[c].reference,
         context'[c].closed \/ ~ context'[c].held,
         library'.native = library.native,
         library'.closed = library.closed, library'.held = library.held,
         library'.context_count = library.context_count
                                   - (IF c \in Open THEN 1 ELSE 0),
         library'.context_count <= library'.contexts,
         \A i \in 1 .. Len(asked) : CtxOf(i) = c => Settled(asked[i])
  PROVE  IInv'
<1>1. /\ AskedOnce' /\ Chained' /\ InRequestOrder' /\ Pooled'
      /\ \A d \in Contexts : Pending(d)' = Pending(d)
      /\ \A i \in 1 .. Len(asked) :
           /\ CtxOf(i)' = CtxOf(i) /\ CtxOf(i) \in Contexts
           /\ Settled(asked[i])' = Settled(asked[i])
  BY ContextStep
<1>2. TypeOK'
  BY DEF IInv, TypeOK
<1>3. Lifecycle'
  <2>1. \A i \in 1 .. Len(asked) :
          /\ context'[CtxOf(i)'].native # "none"
          /\ context'[CtxOf(i)'].native = "closed" => Settled(asked[i])'
    BY <1>1 DEF IInv, Lifecycle
  <2>2. \A d \in Contexts :
          /\ context'[d].held => context'[d].native # "none"
          /\ context'[d].closing => context'[d].closed /\ context'[d].native = "open"
          /\ context'[d].native = "closed" => context'[d].closed \/ ~ context'[d].held
          /\ context'[d].reference <=> context'[d].native = "open"
    BY DEF IInv, Lifecycle
  <2> QED BY <2>1, <2>2 DEF Lifecycle, CtxOf
<1>4. Open' = Open \ {c}
  BY DEF Open
<1>5. library'.context_count = Cardinality(Open')
  <2>1. library.context_count = Cardinality(Open)
    BY CountsAs DEF IInv
  <2>2. CASE c \in Open
    BY <1>4, <2>1, <2>2, OneLess
  <2>3. CASE c \notin Open
    <3>1. Open' = Open /\ library.context_count \in Nat
      BY <1>4, <2>3 DEF IInv, TypeOK, Libraries
    <3> QED BY <2>1, <2>3, <3>1
  <2> QED BY <2>2, <2>3
<1>6. CountsExact'
  <2>1. \A d \in Contexts : context'[d].pending = Cardinality(Pending(d)')
    BY <1>1, CountsAs DEF IInv
  <2> QED BY <1>5, <2>1 DEF CountsExact, Open, Pending
<1>7. Unloading'
  BY <1>4 DEF IInv, Unloading
<1> QED BY <1>1, <1>2, <1>3, <1>6, <1>7 DEF IInv

\* When close() goes on, every call of the context has settled; the addon
\* finds no operation pending.
LEMMA FinishCloseStep ==
  ASSUME IInv, NEW c \in Contexts, FinishClose(c)
  PROVE  /\ IInv' /\ c \in Open /\ library.native = "loaded"
         /\ context[c].pending = 0
         /\ \A i \in 1 .. Len(asked) : CtxOf(i) = c => Settled(asked[i])
<1>1. c \in Open /\ context[c].closed
  BY DEF Open, FinishClose, IInv, Lifecycle
<1>2. \A i \in 1 .. Len(asked) : CtxOf(i) = c => Settled(asked[i])
  BY AllSettled DEF FinishClose
<1>3. Pending(c) = {}
  <2> SUFFICES ASSUME NEW p \in Calls, call[p].context = c,
                      Is(p, {"queued", "running", "done"})
               PROVE  FALSE
    BY DEF Pending, CallsOf
  <2>1. PICK i \in 1 .. Len(asked) : asked[i] = p
    BY DEF IInv, AskedOnce, Is
  <2>2. Settled(p)
    BY <1>2, <2>1 DEF CtxOf
  <2> QED BY <2>2, NoCallAssumption DEF Settled, Is
<1>4. context[c].pending = 0
  BY <1>3, CountsAs, FS_EmptySet DEF IInv
<1>5. library.native = "loaded"
  BY <1>1 DEF IInv, Unloading, TypeOK, Libraries
<1>6. /\ context' = [context EXCEPT ![c].closing = FALSE, ![c].returned = TRUE,
                       ![c].native = "closed", ![c].reference = FALSE]
      /\ library' = [library EXCEPT !.contexts = @ - 1, !.context_count = @ - 1]
      /\ UNCHANGED <<call, pool, asked>>
  BY <1>4 DEF FinishClose
<1>7. library.context_count - 1 \in Nat /\ library.contexts - 1 \in Nat
      /\ library.context_count - 1 <= library.contexts - 1
  <2>1. library.context_count = Cardinality(Open)
        /\ library.context_count <= library.contexts
        /\ library.context_count \in Nat /\ library.contexts \in Nat
    BY CountsAs DEF IInv, TypeOK, Libraries
  <2>2. Cardinality(Open) # 0
    BY <1>1, OpenFinite, FS_EmptySet
  <2> QED BY <2>1, <2>2
<1>8. library' \in Libraries /\ library'.native = library.native
      /\ library'.closed = library.closed /\ library'.held = library.held
      /\ library'.context_count = library.context_count - 1
      /\ library'.contexts = library.contexts - 1
  BY <1>6, <1>7 DEF IInv, TypeOK, Libraries
<1>9. context' \in [Contexts -> ContextStates]
  <2> DEFINE settled == [context EXCEPT ![c].closing = FALSE]
             answered == [settled EXCEPT ![c].returned = TRUE]
             destroyed == [answered EXCEPT ![c].native = "closed"]
  <2>1. settled \in [Contexts -> ContextStates]
    BY DEF IInv, TypeOK, ContextStates
  <2>2. context' = [destroyed EXCEPT ![c].reference = FALSE]
    BY <1>6
  <2> HIDE DEF settled
  <2>3. answered \in [Contexts -> ContextStates]
    BY <2>1 DEF ContextStates
  <2> HIDE DEF answered
  <2>4. destroyed \in [Contexts -> ContextStates]
    BY <2>3 DEF ContextStates
  <2> HIDE DEF destroyed
  <2> QED BY <2>2, <2>4 DEF ContextStates
<1>10. /\ \A d \in Contexts : d # c => context'[d] = context[d]
       /\ context'[c].tail = context[c].tail
       /\ context'[c].pending = context[c].pending
       /\ context'[c].native = "closed"
       /\ ~ context'[c].closing /\ ~ context'[c].reference
       /\ context'[c].closed
  BY <1>1, <1>6 DEF IInv, TypeOK, ContextStates
<1>11. /\ library'.context_count = library.context_count
                                     - (IF c \in Open THEN 1 ELSE 0)
       /\ library'.context_count <= library'.contexts
  BY <1>1, <1>7, <1>8
<1>12. IInv'
  BY <1>2, <1>6, <1>8, <1>9, <1>10, <1>11, NativeCloses
<1> QED BY <1>1, <1>2, <1>4, <1>5, <1>12

\* The finalizer runs for what nobody can reach: its calls have settled.
LEMMA CollectStep ==
  ASSUME IInv, NEW c \in Contexts, Collect(c)
  PROVE  /\ IInv'
         /\ \A i \in 1 .. Len(asked) : CtxOf(i) = c => Settled(asked[i])
<1>1. /\ context[c].native # "none" /\ ~ context[c].held /\ ~ context[c].closing
      /\ \A o \in Calls : call[o].context = c => ~ Is(o, InFlight)
  BY DEF Collect, Reachable, CallsOf
<1>2. \A i \in 1 .. Len(asked) : CtxOf(i) = c => Settled(asked[i])
  <2> SUFFICES ASSUME NEW i \in 1 .. Len(asked), CtxOf(i) = c
               PROVE  Settled(asked[i])
    OBVIOUS
  <2>1. asked[i] \in Calls /\ ~ Is(asked[i], {"new"})
    BY DEF IInv, AskedOnce, TypeOK
  <2>2. ~ Is(asked[i], InFlight)
    BY <1>1, <2>1 DEF CtxOf
  <2> QED BY <2>1, <2>2 DEF Is, InFlight, Settled, IInv, TypeOK, CallStates
<1>3. /\ context' = [context EXCEPT ![c].native = "closed",
                       ![c].reference = FALSE, ![c].collected = TRUE]
      /\ UNCHANGED <<call, pool, asked>>
      /\ c \in Open => library' = [library EXCEPT !.context_count = @ - 1]
      /\ c \notin Open => library' = library
  BY DEF Collect, Finalized, Open
<1>4. /\ library.context_count = Cardinality(Open)
      /\ library.context_count <= library.contexts
      /\ library.context_count \in Nat /\ library.contexts \in Nat
      /\ c \in Open => library.context_count - 1 \in Nat
  <2>1. /\ library.context_count = Cardinality(Open)
        /\ library.context_count <= library.contexts
        /\ library.context_count \in Nat /\ library.contexts \in Nat
    BY CountsAs DEF IInv, TypeOK, Libraries
  <2>2. c \in Open => Cardinality(Open) # 0
    BY OpenFinite, FS_EmptySet
  <2> QED BY <2>1, <2>2
<1>5. /\ library' \in Libraries /\ library'.native = library.native
      /\ library'.closed = library.closed /\ library'.held = library.held
      /\ library'.contexts = library.contexts
      /\ c \in Open => library'.context_count = library.context_count - 1
      /\ c \notin Open => library'.context_count = library.context_count
  BY <1>3, <1>4 DEF IInv, TypeOK, Libraries
<1>6. /\ library'.context_count = library.context_count
                                    - (IF c \in Open THEN 1 ELSE 0)
      /\ library'.context_count <= library'.contexts
  <2> DEFINE n == library'.context_count
  <2>1. library'.contexts = library.contexts
    BY <1>5
  <2>2. n = library.context_count - 1 \/ n = library.context_count
    BY <1>5
  <2>3. n = library.context_count - (IF c \in Open THEN 1 ELSE 0)
    BY <1>4, <1>5
  <2> HIDE DEF n
  <2>4. n <= library.contexts
    BY <1>4, <2>2
  <2> QED BY <2>1, <2>3, <2>4 DEF n
<1>7. context' \in [Contexts -> ContextStates]
  <2> DEFINE destroyed == [context EXCEPT ![c].native = "closed"]
             released == [destroyed EXCEPT ![c].reference = FALSE]
  <2>1. destroyed \in [Contexts -> ContextStates]
    BY DEF IInv, TypeOK, ContextStates
  <2>2. context' = [released EXCEPT ![c].collected = TRUE]
    BY <1>3
  <2> HIDE DEF destroyed
  <2>3. released \in [Contexts -> ContextStates]
    BY <2>1 DEF ContextStates
  <2> HIDE DEF released
  <2> QED BY <2>2, <2>3 DEF ContextStates
<1>8. /\ \A d \in Contexts : d # c => context'[d] = context[d]
      /\ context'[c].tail = context[c].tail
      /\ context'[c].pending = context[c].pending
      /\ context'[c].native = "closed"
      /\ ~ context'[c].closing /\ ~ context'[c].reference
      /\ ~ context'[c].held
  BY <1>1, <1>3 DEF IInv, TypeOK, ContextStates
<1>9. UNCHANGED <<call, pool, asked>>
  BY <1>3
<1>10. context'[c].closed \/ ~ context'[c].held
  BY <1>8
<1>11. IInv'
  BY <1>2, <1>5, <1>6, <1>7, <1>8, <1>9, <1>10, NativeCloses
<1> QED BY <1>2, <1>11

\* The library's own steps.
LEMMA LibraryStep ==
  ASSUME IInv, UNCHANGED <<context, call, pool, asked>>,
         library' \in Libraries,
         library'.contexts = library.contexts,
         library'.context_count = library.context_count,
         library'.held => library.held,
         library.closed => library'.closed,
         library'.closed \/ library'.native = "unloaded" => Open = {},
         library'.native = "unloaded" => library'.closed \/ ~ library'.held
  PROVE  IInv'
<1>1. AskedOnce' /\ Chained' /\ InRequestOrder' /\ Pooled'
      /\ \A d \in Contexts : Pending(d)' = Pending(d)
  BY ContextStep
<1>2. Open' = Open
  BY DEF Open
<1>3. Lifecycle'
  BY DEF IInv, Lifecycle, CtxOf, Settled, Is
<1>4. CountsExact'
  BY <1>1, <1>2, CountsAs DEF IInv, CountsExact, Open, Pending
<1> QED BY <1>1, <1>2, <1>3, <1>4 DEF IInv, TypeOK, Unloading

LEMMA CloseLibraryStep ==
  ASSUME IInv, CloseLibrary
  PROVE  IInv' /\ Open = {} /\ library.native = "loaded"
<1>1. Open = {}
  <2>1. Cardinality(Open) = 0
    BY CountsAs DEF CloseLibrary, IInv
  <2> QED BY <2>1, OpenFinite, FS_EmptySet
<1>2. library.native = "loaded"
  BY DEF CloseLibrary, IInv, Unloading, TypeOK, Libraries
<1>3. library' \in Libraries /\ library'.closed
      /\ library'.contexts = library.contexts
      /\ library'.context_count = library.context_count
      /\ library'.held = library.held
  BY DEF CloseLibrary, IInv, TypeOK, Libraries
<1> QED BY <1>1, <1>2, <1>3, LibraryStep DEF CloseLibrary

LEMMA DropLibraryStep ==
  ASSUME IInv, DropLibrary
  PROVE  IInv'
<1>1. library' \in Libraries /\ library'.closed = library.closed
      /\ library'.contexts = library.contexts
      /\ library'.context_count = library.context_count
      /\ ~ library'.held /\ library.held /\ library'.native = library.native
  BY DEF DropLibrary, IInv, TypeOK, Libraries
<1> QED BY <1>1, LibraryStep DEF DropLibrary, IInv, Unloading

LEMMA CollectLibraryStep ==
  ASSUME IInv, CollectLibrary
  PROVE  IInv' /\ Open = {} /\ library.native = "loaded"
<1>1. ~ library.held /\ library.native = "loaded"
      /\ \A c \in Contexts : ~ context[c].reference
  BY DEF CollectLibrary, LibraryReachable
<1>2. Open = {}
  BY <1>1 DEF Open, IInv, Lifecycle
<1>3. library' \in Libraries /\ library'.closed = library.closed
      /\ library'.contexts = library.contexts
      /\ library'.context_count = library.context_count
      /\ ~ library'.held
  BY <1>1 DEF CollectLibrary, IInv, TypeOK, Libraries
<1> QED BY <1>1, <1>2, <1>3, LibraryStep DEF CollectLibrary

\* The new call is the last of the history and becomes the tail.
LEMMA EnqueueStep ==
  ASSUME IInv, NEW c \in Contexts, NEW o \in Calls, Enqueue(c, o)
  PROVE  IInv'
<1> DEFINE n == Len(asked)
<1>1. /\ n \in Nat /\ Len(asked') = n + 1 /\ asked'[n + 1] = o
      /\ \A i \in 1 .. n : asked'[i] = asked[i] /\ asked[i] \in Calls
  BY DEF Enqueue, IInv, TypeOK
<1>2. /\ call'[o] = [state |-> "waiting", context |-> c,
                     after |-> context[c].tail]
      /\ \A p \in Calls \ {o} : call'[p] = call[p]
  BY DEF Enqueue, IInv, TypeOK
<1>3. \A d \in Contexts : /\ context'[d].native = context[d].native
                          /\ context'[d].closed = context[d].closed
                          /\ context'[d].closing = context[d].closing
                          /\ context'[d].held = context[d].held
                          /\ context'[d].reference = context[d].reference
                          /\ context'[d].pending = context[d].pending
                          /\ d # c => context'[d].tail = context[d].tail
                          /\ d = c => context'[d].tail = o
  BY DEF Enqueue, NextTail, IInv, TypeOK, ContextStates
<1>4. \A i \in 1 .. n : /\ asked[i] # o
                        /\ call'[asked'[i]] = call[asked[i]]
                        /\ CtxOf(i)' = CtxOf(i) /\ CtxOf(i) \in Contexts
  BY <1>1, <1>2 DEF Enqueue, IInv, AskedOnce, CtxOf, Is
<1>5. \A i \in 1 .. Len(asked') : i = n + 1 => CtxOf(i)' = c
  BY <1>1, <1>2 DEF CtxOf
<1> HIDE DEF n
<1>6. 1 .. Len(asked') = (1 .. n) \cup {n + 1}
  BY <1>1
<1>7. TypeOK'
  <2>1. context' \in [Contexts -> ContextStates]
    BY DEF Enqueue, NextTail, IInv, TypeOK, ContextStates
  <2>2. call' \in [Calls -> CallStates]
    BY DEF Enqueue, IInv, TypeOK, CallStates, ContextStates
  <2>3. asked' \in Seq(Calls)
    BY DEF Enqueue, IInv, TypeOK
  <2>4. UNCHANGED <<library, pool>>
    BY DEF Enqueue
  <2> QED BY <2>1, <2>2, <2>3, <2>4 DEF IInv, TypeOK
<1>8. AskedOnce'
  <2>1. \A i, j \in 1 .. Len(asked') : asked'[i] = asked'[j] => i = j
    BY <1>1, <1>4, <1>6 DEF IInv, AskedOnce, n
  <2>2. \A i \in 1 .. Len(asked') : /\ call'[asked'[i]].state # "new"
                                    /\ call'[asked'[i]].context \in Contexts
    BY <1>1, <1>2, <1>4, <1>6 DEF IInv, AskedOnce, n, Is, CtxOf
  <2>3. \A p \in Calls : call'[p].state # "new" =>
          \E i \in 1 .. Len(asked') : asked'[i] = p
    <3> SUFFICES ASSUME NEW p \in Calls, call'[p].state # "new"
                 PROVE  \E i \in 1 .. Len(asked') : asked'[i] = p
      OBVIOUS
    <3>1. CASE p = o
      BY <1>1, <1>6, <3>1
    <3>2. CASE p # o
      <4>1. PICK i \in 1 .. n : asked[i] = p
        BY <1>2, <3>2 DEF IInv, AskedOnce, Is, n
      <4> QED BY <1>1, <1>6, <4>1
    <3> QED BY <3>1, <3>2
  <2> QED BY <2>1, <2>2, <2>3 DEF AskedOnce, Is, CtxOf
<1>9. Chained'
  <2>1. \A i \in 1 .. Len(asked') : \A j \in 1 .. i - 1 :
          CtxOf(j)' = CtxOf(i)' =>
            \E m \in j .. i - 1 :
              call'[asked'[i]].after = asked'[m] /\ CtxOf(m)' = CtxOf(i)'
    <3> SUFFICES ASSUME NEW i \in 1 .. Len(asked'), NEW j \in 1 .. i - 1,
                        CtxOf(j)' = CtxOf(i)'
                 PROVE  \E m \in j .. i - 1 :
                          call'[asked'[i]].after = asked'[m] /\ CtxOf(m)' = CtxOf(i)'
      OBVIOUS
    <3>0. j \in 1 .. n
      BY <1>1
    <3>1. CASE i \in 1 .. n
      <4>1. CtxOf(j) = CtxOf(i)
        BY <1>4, <3>0, <3>1
      <4>2. PICK m \in j .. i - 1 :
              call[asked[i]].after = asked[m] /\ CtxOf(m) = CtxOf(i)
        BY <3>1, <4>1 DEF IInv, Chained, n
      <4>3. m \in 1 .. n
        BY <1>1, <3>1
      <4> QED BY <1>1, <1>4, <3>1, <4>2, <4>3
    <3>2. CASE i = n + 1
      <4>1. CtxOf(j) = c
        BY <1>4, <1>5, <3>0, <3>2
      <4>2. PICK m \in j .. n : context[c].tail = asked[m] /\ CtxOf(m) = c
        BY <3>0, <4>1 DEF IInv, Chained, n
      <4>3. m \in 1 .. n /\ m \in j .. i - 1
        BY <1>1, <3>2
      <4> QED BY <1>1, <1>2, <1>4, <1>5, <3>2, <4>2, <4>3
    <3> QED BY <1>6, <3>1, <3>2
  <2>2. \A j \in 1 .. Len(asked') :
          \E m \in j .. Len(asked') :
            context'[CtxOf(j)'].tail = asked'[m] /\ CtxOf(m)' = CtxOf(j)'
    <3> TAKE j \in 1 .. Len(asked')
    <3>1. CASE CtxOf(j)' = c
      <4>1. n + 1 \in j .. Len(asked')
        BY <1>1
      <4> QED BY <1>1, <1>3, <1>5, <3>1, <4>1
    <3>2. CASE CtxOf(j)' # c
      <4>1. j \in 1 .. n
        BY <1>5, <1>6, <3>2
      <4>2. PICK m \in j .. n :
              context[CtxOf(j)].tail = asked[m] /\ CtxOf(m) = CtxOf(j)
        BY <4>1 DEF IInv, Chained, n
      <4>3. m \in 1 .. n /\ m \in j .. Len(asked')
        BY <1>1, <4>1
      <4> QED BY <1>1, <1>3, <1>4, <3>2, <4>1, <4>2, <4>3
    <3> QED BY <3>1, <3>2
  <2> QED BY <2>1, <2>2 DEF Chained, CtxOf
<1>10. InRequestOrder'
  <2> SUFFICES ASSUME NEW i \in 1 .. Len(asked'), NEW j \in 1 .. Len(asked'),
                      i < j, call'[asked'[i]].context = call'[asked'[j]].context,
                      call'[asked'[j]].state \notin {"new", "waiting"}
               PROVE  Settled(asked[i])'
    BY DEF InRequestOrder, Is
  <2>1. j \in 1 .. n
    BY <1>1, <1>2, <1>6
  <2>2. i \in 1 .. n
    BY <1>1, <2>1
  <2>3. Settled(asked[i])
    BY <1>1, <1>4, <2>1, <2>2 DEF IInv, InRequestOrder, Is, n
  <2> QED BY <1>1, <1>4, <2>2, <2>3 DEF Settled, Is
<1>11. Lifecycle'
  <2>1. \A d \in Contexts :
          /\ context'[d].held => context'[d].native # "none"
          /\ context'[d].closing => context'[d].closed /\ context'[d].native = "open"
          /\ context'[d].native = "closed" => context'[d].closed \/ ~ context'[d].held
          /\ context'[d].reference <=> context'[d].native = "open"
    BY <1>3 DEF IInv, Lifecycle
  <2>2. context[c].native \notin {"none", "closed"}
    BY DEF Enqueue, IInv, Lifecycle
  <2>3. ASSUME NEW i \in 1 .. Len(asked')
        PROVE  /\ context'[CtxOf(i)'].native # "none"
               /\ context'[CtxOf(i)'].native = "closed" => Settled(asked[i])'
    <3>1. CASE i = n + 1
      BY <1>3, <1>5, <2>2, <3>1
    <3>2. CASE i \in 1 .. n
      <4>1. Settled(asked[i]) => Settled(asked[i])'
        BY <1>1, <1>4, <3>2 DEF Settled, Is
      <4> QED BY <1>3, <1>4, <3>2, <4>1 DEF IInv, Lifecycle, n
    <3> QED BY <1>6, <3>1, <3>2
  <2> QED BY <2>1, <2>3 DEF Lifecycle, CtxOf
<1>12. Open' = Open
  BY <1>3 DEF Open
<1>13. \A d \in Contexts : Pending(d)' = Pending(d)
  BY <1>2 DEF Enqueue, Pending, CallsOf, Is
<1>14. UNCHANGED <<library, pool>>
  BY DEF Enqueue
<1>15. CountsExact'
  <2>1. \A d \in Contexts : context'[d].pending = Cardinality(Pending(d)')
    BY <1>3, <1>13, CountsAs DEF IInv
  <2> QED BY <1>12, <1>14, <2>1, CountsAs DEF IInv, CountsExact, Open, Pending
<1>16. Pooled'
  <2>1. \A k \in 1 .. Len(pool) : pool[k] \in Calls /\ pool[k] # o
    BY DEF IInv, Pooled, TypeOK, Enqueue, Is
  <2> QED BY <1>2, <1>14, <2>1 DEF IInv, Pooled, Is
<1>17. Unloading'
  BY <1>12, <1>14 DEF IInv, Unloading
<1> QED BY <1>7, <1>8, <1>9, <1>10, <1>11, <1>15, <1>16, <1>17 DEF IInv

LEMMA NextIInv == IInv /\ [Next]_vars => IInv'
<1> SUFFICES ASSUME IInv, [Next]_vars PROVE IInv'
  OBVIOUS
<1>1. CASE UNCHANGED vars
  <2>1. UNCHANGED <<library, context, call, pool, asked>>
    BY <1>1 DEF vars
  <2>2. library' \in Libraries
    BY <2>1 DEF IInv, TypeOK
  <2> QED BY <2>1, <2>2, LibraryStep DEF IInv, Unloading
<1> QED BY <1>1, CreateContextStep, RequestCloseStep, CloseAgainStep, DropStep,
           FinishCloseStep, CollectStep, EnqueueStep, StartStep, CompleteStep,
           EndStep, CloseLibraryStep, DropLibraryStep, CollectLibraryStep,
           BeginStep DEF Next

\* The history, the chains, the pool, the counts and the states of the
\* contexts agree (index.js:583-641, addon.c:520-842).
THEOREM Invariance == Spec => []IInv
<1> QED BY Initially, NextIInv, PTL DEF Spec

\* Types, for any contexts, calls and workers: the addon's counts stay
\* natural numbers although it decrements them without a check.
THEOREM TypeCorrect == Spec => []TypeOK
<1>1. IInv => TypeOK
  BY DEF IInv
<1> QED BY <1>1, Invariance, PTL

\* Calls on one context reach the addon in the order they were made, failed
\* ones included (index.js:596-604).
THEOREM OrderKept == Spec => []InRequestOrder
<1>1. IInv => InRequestOrder
  BY DEF IInv
<1> QED BY <1>1, Invariance, PTL

\* context_count is the number of open native contexts and pending_operations
\* the number of calls between queueing and completion, whatever the
\* finalizers do (addon.c:135-183).
THEOREM CountsRight == Spec => []CountsExact
<1>1. IInv => CountsExact
  BY DEF IInv
<1> QED BY <1>1, Invariance, PTL

----------------------------------------------------------------------------
(* The binding implements NativeUse.                                       *)

\* A call that was made and has not settled has an open context, and the
\* library is loaded.
LEMMA Usable ==
  ASSUME IInv, NEW o \in Calls, ~ Is(o, {"new"}), ~ Settled(o)
  PROVE  /\ call[o].context \in Contexts
         /\ context[call[o].context].native = "open"
         /\ library.native = "loaded"
<1>1. PICK i \in 1 .. Len(asked) : asked[i] = o
  BY DEF IInv, AskedOnce
<1>2. CtxOf(i) \in Contexts /\ context[CtxOf(i)].native = "open"
  BY <1>1 DEF IInv, AskedOnce, Lifecycle, TypeOK, ContextStates
<1>3. Open # {}
  BY <1>2 DEF Open
<1>4. library.native = "loaded"
  BY <1>3 DEF IInv, Unloading, TypeOK, Libraries
<1> QED BY <1>1, <1>2, <1>4 DEF CtxOf

\* Calls of one context that have been handed to the addon and have not
\* settled are one and the same.
LEMMA Alone ==
  ASSUME IInv,
         NEW o \in Calls, ~ Is(o, {"new", "waiting"}), ~ Settled(o),
         NEW p \in Calls, ~ Is(p, {"new", "waiting"}), ~ Settled(p),
         call[p].context = call[o].context
  PROVE  p = o
<1>1. ~ Is(p, {"new"}) /\ ~ Is(o, {"new"})
  BY DEF Is
<1>2. PICK i \in 1 .. Len(asked) : asked[i] = p
  BY <1>1 DEF IInv, AskedOnce
<1>3. PICK j \in 1 .. Len(asked) : asked[j] = o
  BY <1>1 DEF IInv, AskedOnce
<1>4. call[asked[i]].context = call[asked[j]].context
  BY <1>2, <1>3
<1>5. ~ (j < i)
  BY <1>2, <1>3, <1>4 DEF IInv, InRequestOrder
<1>6. ~ (i < j)
  BY <1>2, <1>3, <1>4 DEF IInv, InRequestOrder
<1>7. i = j
  BY <1>5, <1>6
<1> QED BY <1>2, <1>3, <1>7

\* What is inside after a call has changed its state.
LEMMA InsideAfter ==
  ASSUME IInv, NEW o \in Calls, NEW s, call' = Became(o, s),
         NEW c \in Contexts
  PROVE  Inside(c)' =
           IF c = call[o].context
           THEN IF s \in {"running", "done"} THEN Inside(c) \cup {o}
                ELSE Inside(c) \ {o}
           ELSE Inside(c)
<1>1. \A p \in Calls : /\ call'[p].context = call[p].context
                       /\ p # o => call'[p].state = call[p].state
                       /\ p = o => call'[p].state = s
  BY DEF Became, IInv, TypeOK, CallStates
<1> QED BY <1>1 DEF Inside, CallsOf, Is

Mapped == [c \in Contexts |-> context[c].native]
Ins == [c \in Contexts |-> Inside(c)]

\* A context whose calls have all settled has none inside.
LEMMA Empty ==
  ASSUME IInv, NEW c \in Contexts,
         \A i \in 1 .. Len(asked) : CtxOf(i) = c => Settled(asked[i])
  PROVE  Inside(c) = {}
<1> SUFFICES ASSUME NEW p \in Calls, call[p].context = c,
                    Is(p, {"running", "done"})
             PROVE  FALSE
  BY DEF Inside, CallsOf
<1>1. PICK i \in 1 .. Len(asked) : asked[i] = p
  BY DEF IInv, AskedOnce, Is
<1>2. Settled(p)
  BY <1>1 DEF CtxOf
<1> QED BY <1>2, NoCallAssumption DEF Settled, Is

LEMMA BeginsRightly ==
  ASSUME IInv, Begin
  PROVE  [Native!Next]_(Native!vars)
<1> DEFINE o == Head(pool)
           c == call[o].context
<1>1. o \in Calls /\ Is(o, {"queued"}) /\ call' = Became(o, "running")
  BY Taken DEF Begin
<1>2. /\ context' = context /\ library' = library
  BY DEF Begin
<1> HIDE DEF o
<1>3. ~ Is(o, {"new"}) /\ ~ Settled(o) /\ ~ Is(o, {"new", "waiting"})
  BY <1>1, NoCallAssumption DEF Is, Settled
<1>4. c \in Contexts /\ context[c].native = "open" /\ library.native = "loaded"
  BY <1>1, <1>3, Usable
<1>5. Inside(c) = {}
  <2> SUFFICES ASSUME NEW p \in Calls, call[p].context = c,
                      Is(p, {"running", "done"})
               PROVE  FALSE
    BY DEF Inside, CallsOf
  <2>1. ~ Is(p, {"new", "waiting"}) /\ ~ Settled(p)
    BY NoCallAssumption DEF Is, Settled
  <2>2. p = o
    BY <1>1, <1>3, <2>1, Alone
  <2> QED BY <1>1, <2>2 DEF Is
<1> HIDE DEF c
<1>6. Ins' = [Ins EXCEPT ![c] = {o}]
  <2>1. \A d \in Contexts : Inside(d)' = IF d = c THEN {o} ELSE Inside(d)
    BY <1>1, <1>5, InsideAfter DEF c
  <2> QED BY <2>1 DEF Ins
<1>7. Native!Enter(c, o)
  BY <1>2, <1>4, <1>5, <1>6 DEF Native!Enter, Ins
<1> QED BY <1>1, <1>4, <1>7 DEF Native!Next

LEMMA CompletesRightly ==
  ASSUME IInv, NEW o \in Calls, Complete(o)
  PROVE  [Native!Next]_(Native!vars)
<1> DEFINE c == call[o].context
<1>1. PICK s \in {"resolved", "rejected"} : call' = Became(o, s)
  BY DEF Complete
<1>2. /\ Is(o, {"done"}) /\ ~ Is(o, {"new"}) /\ ~ Settled(o)
      /\ ~ Is(o, {"new", "waiting"})
  BY NoCallAssumption DEF Complete, Is, Settled
<1>3. c \in Contexts
  BY <1>2, Usable
<1>4. Inside(c) = {o}
  <2>1. o \in Inside(c)
    BY <1>2 DEF Inside, CallsOf, Is
  <2>2. \A p \in Inside(c) : p = o
    <3> SUFFICES ASSUME NEW p \in Calls, call[p].context = c,
                        Is(p, {"running", "done"})
                 PROVE  p = o
      BY DEF Inside, CallsOf
    <3>1. ~ Is(p, {"new", "waiting"}) /\ ~ Settled(p)
      BY NoCallAssumption DEF Is, Settled
    <3> QED BY <1>2, <3>1, Alone
  <2> QED BY <2>1, <2>2
<1>5. OnlyPending /\ library' = library
  BY DEF Complete, OnlyPending, IInv, TypeOK, ContextStates
<1> HIDE DEF c
<1>6. Mapped' = Mapped
  BY <1>5 DEF Mapped, OnlyPending
<1>7. Ins' = [Ins EXCEPT ![c] = {}]
  <2>1. \A d \in Contexts : Inside(d)' = IF d = c THEN {} ELSE Inside(d)
    BY <1>1, <1>4, InsideAfter DEF c
  <2> QED BY <2>1 DEF Ins
<1>8. Native!Leave(c, o)
  BY <1>3, <1>4, <1>5, <1>6, <1>7 DEF Native!Leave, Mapped, Ins
<1> QED BY <1>3, <1>8 DEF Native!Next

LEMMA FinishesRightly ==
  ASSUME IInv, NEW c \in Contexts, FinishClose(c)
  PROVE  [Native!Next]_(Native!vars)
<1>1. /\ context[c].native = "open" /\ library.native = "loaded"
      /\ context[c].pending = 0 /\ Inside(c) = {}
  BY FinishCloseStep, Empty DEF Open
<1>2. /\ context' = [context EXCEPT ![c].closing = FALSE, ![c].returned = TRUE,
                       ![c].native = "closed", ![c].reference = FALSE]
      /\ library'.native = library.native /\ call' = call
  BY <1>1 DEF FinishClose, IInv, TypeOK, Libraries
<1>3. Ins' = Ins
  BY <1>2 DEF Ins, Inside, CallsOf, Is
<1>4. Mapped' = [Mapped EXCEPT ![c] = "closed"]
  BY <1>2 DEF Mapped, IInv, TypeOK, ContextStates
<1>5. Native!Destroy(c)
  BY <1>1, <1>2, <1>3, <1>4 DEF Native!Destroy, Mapped, Ins
<1> QED BY <1>5 DEF Native!Next

LEMMA CollectsRightly ==
  ASSUME IInv, NEW c \in Contexts, Collect(c)
  PROVE  [Native!Next]_(Native!vars)
<1>1. Inside(c) = {}
  BY CollectStep, Empty
<1>2. /\ context' = [context EXCEPT ![c].native = "closed",
                       ![c].reference = FALSE, ![c].collected = TRUE]
      /\ library'.native = library.native /\ call' = call
  BY DEF Collect, Finalized, IInv, TypeOK, Libraries
<1>3. Ins' = Ins
  BY <1>2 DEF Ins, Inside, CallsOf, Is
<1>4. Mapped' = [Mapped EXCEPT ![c] = "closed"]
  BY <1>2 DEF Mapped, IInv, TypeOK, ContextStates
<1>5. CASE context[c].native = "open"
  <2>1. library.native = "loaded"
    BY <1>5 DEF IInv, Unloading, Open, TypeOK, Libraries
  <2>2. Native!Destroy(c)
    BY <1>1, <1>2, <1>3, <1>4, <1>5, <2>1 DEF Native!Destroy, Mapped, Ins
  <2> QED BY <2>2 DEF Native!Next
<1>6. CASE context[c].native # "open"
  <2>1. context[c].native = "closed"
    BY <1>6 DEF Collect, IInv, TypeOK, ContextStates
  <2>2. Mapped' = Mapped
    BY <1>4, <2>1 DEF Mapped
  <2> QED BY <1>2, <1>3, <2>2 DEF Native!vars, Mapped, Ins
<1> QED BY <1>5, <1>6

LEMMA OpensRightly ==
  ASSUME IInv, NEW c \in Contexts, CreateContext(c)
  PROVE  [Native!Next]_(Native!vars)
<1>1. Ins' = Ins
  BY DEF CreateContext, Ins, Inside, CallsOf, Is
<1>2. Mapped' = [Mapped EXCEPT ![c] = "open"]
  BY DEF CreateContext, Mapped, IInv, TypeOK, ContextStates
<1>3. library.native = "loaded" /\ library'.native = library.native
  BY DEF CreateContext, IInv, TypeOK, Libraries
<1>4. Native!Open(c)
  BY <1>1, <1>2, <1>3 DEF Native!Open, CreateContext, Mapped, Ins
<1> QED BY <1>4 DEF Native!Next

\* No context is open under a library that unloads, nor a call inside.
LEMMA UnloadsRightly ==
  ASSUME IInv, Open = {}, library.native = "loaded",
         library'.native = "unloaded", UNCHANGED <<context, call>>
  PROVE  Native!Next
<1>1. \A d \in Contexts : context[d].native # "open"
  BY DEF Open
<1>2. Ins' = Ins
  BY DEF Ins, Inside, CallsOf, Is
<1>3. Native!Unload
  BY <1>1, <1>2 DEF Native!Unload, Ins
<1> QED BY <1>3 DEF Native!Next

\* Steps that change no native context and nothing of the library's state.
LEMMA Unseen ==
  ASSUME \A c \in Contexts : context'[c].native = context[c].native,
         \A c \in Contexts : Inside(c)' = Inside(c),
         library'.native = library.native
  PROVE  UNCHANGED Native!vars
<1>1. Mapped' = Mapped /\ Ins' = Ins
  BY DEF Mapped, Ins
<1> QED BY <1>1 DEF Native!vars, Mapped, Ins

LEMMA UnseenWrapper ==
  ASSUME IInv, NEW c \in Contexts,
         RequestClose(c) \/ CloseAgain(c) \/ Drop(c)
  PROVE  UNCHANGED Native!vars
<1>1. \A d \in Contexts : context'[d].native = context[d].native
  <2>1. CASE RequestClose(c)
    BY <2>1 DEF RequestClose, IInv, TypeOK, ContextStates
  <2>2. CASE CloseAgain(c)
    BY <2>2 DEF CloseAgain, IInv, TypeOK, ContextStates
  <2>3. CASE Drop(c)
    BY <2>3 DEF Drop, IInv, TypeOK, ContextStates
  <2> QED BY <2>1, <2>2, <2>3
<1>2. library' = library /\ call' = call
  BY DEF RequestClose, CloseAgain, Drop
<1> QED BY <1>1, <1>2, Unseen DEF Inside, CallsOf, Is

LEMMA UnseenCall ==
  ASSUME IInv, NEW c \in Contexts, NEW o \in Calls, Enqueue(c, o)
  PROVE  UNCHANGED Native!vars
<1>1. \A d \in Contexts : context'[d].native = context[d].native
  BY DEF Enqueue, NextTail, IInv, TypeOK, ContextStates
<1>2. \A p \in Calls : /\ p # o => call'[p] = call[p]
                       /\ p = o => call'[p].state = "waiting"
                                   /\ call[p].state = "new"
  BY DEF Enqueue, Is, IInv, TypeOK
<1>3. \A d \in Contexts : Inside(d)' = Inside(d)
  BY <1>2 DEF Inside, CallsOf, Is
<1> QED BY <1>1, <1>3, Unseen DEF Enqueue

LEMMA UnseenStart ==
  ASSUME IInv, NEW o \in Calls, Start(o)
  PROVE  UNCHANGED Native!vars
<1>1. /\ Is(o, {"waiting"}) /\ OnlyPending /\ library' = library
  BY Starts
<1>2. PICK s \in {"queued", "rejected"} : call' = Became(o, s)
  BY Starts
<1>3. \A d \in Contexts : Inside(d)' = Inside(d)
  <2>1. \A d \in Contexts : o \notin Inside(d)
    BY <1>1 DEF Inside, CallsOf, Is
  <2> QED BY <1>2, <2>1, InsideAfter
<1> QED BY <1>1, <1>3, Unseen DEF OnlyPending

LEMMA UnseenEnd ==
  ASSUME IInv, NEW o \in Calls, End(o)
  PROVE  UNCHANGED Native!vars
<1>1. /\ Is(o, {"running"}) /\ call' = Became(o, "done")
      /\ library' = library /\ context' = context
  BY DEF End
<1>2. \A d \in Contexts : Inside(d)' = Inside(d)
  <2>1. o \in Inside(call[o].context)
    BY <1>1 DEF Inside, CallsOf, Is
  <2> QED BY <1>1, <2>1, InsideAfter
<1> QED BY <1>1, <1>2, Unseen

\* Every step of the binding is a step its library allows, or none of its
\* business.
LEMMA StepRightly == IInv /\ [Next]_vars => [Native!Next]_(Native!vars)
<1> SUFFICES ASSUME IInv, [Next]_vars PROVE [Native!Next]_(Native!vars)
  OBVIOUS
<1>1. CASE UNCHANGED vars
  BY <1>1 DEF vars, Native!vars, Inside, CallsOf, Is
<1>2. CASE CloseLibrary
  <2>1. library'.native = "unloaded" /\ UNCHANGED <<context, call>>
    BY <1>2 DEF CloseLibrary, IInv, TypeOK, Libraries
  <2> QED BY <1>2, <2>1, CloseLibraryStep, UnloadsRightly
<1>3. CASE CollectLibrary
  <2>1. library'.native = "unloaded" /\ UNCHANGED <<context, call>>
    BY <1>3 DEF CollectLibrary, IInv, TypeOK, Libraries
  <2> QED BY <1>3, <2>1, CollectLibraryStep, UnloadsRightly
<1>4. CASE DropLibrary
  <2>1. library'.native = library.native /\ UNCHANGED <<context, call>>
    BY <1>4 DEF DropLibrary, IInv, TypeOK, Libraries
  <2> QED BY <2>1, Unseen DEF Inside, CallsOf, Is
<1> QED BY <1>1, <1>2, <1>3, <1>4, OpensRightly, UnseenWrapper,
           FinishesRightly, CollectsRightly, UnseenCall, UnseenStart,
           CompletesRightly, UnseenEnd, BeginsRightly DEF Next

\* The binding keeps the rules of the library, closing, forgetting and
\* finalizing included: the detailed specification implements the abstract
\* one (index.js:596-641, addon.c:168-183).
THEOREM Refinement == Spec => UsesNativeRightly
<1>1. Init => Native!Init
  BY DEF Init, Native!Init, NewContext, Inside, CallsOf, Is
<1> QED BY <1>1, StepRightly, Invariance, PTL
        DEF Spec, UsesNativeRightly, Native!Spec
=============================================================================
