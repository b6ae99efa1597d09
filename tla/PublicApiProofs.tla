-------------------------- MODULE PublicApiProofs --------------------------
(* Theorems about PublicApi, for every set of threads, contexts, requests, *)
(* deployments and faults.                                                 *)
EXTENDS PublicApi, TLAPS

----------------------------------------------------------------------------
(* The inductive invariant.                                                *)

\* The context of a thread outside its calls.
HostCurrent(t) == IF host[t] = NoContext THEN Default(t) ELSE host[t]
HostContexts == {Public(c) : c \in Contexts} \cup {NoContext}
InEngine(t) == call[t].step \in {"engine", "print", "finish"}

\* The shape of a call record at each step.
CallShape ==
  \A t \in Threads : ~Idle(t) =>
    /\ call[t].context \in Contexts
    /\ call[t].target \in {Public(call[t].context), Service(call[t].context)}
    /\ Running(t) => call[t].previous = HostCurrent(t)
    /\ call[t].api # "analyze" => call[t].options = InitialOptions

\* A call's context and its target stay open, and so does a host's context.
AllLive ==
  /\ \A t \in Threads : rt[Default(t)].live
  /\ \A t \in Threads : ~Idle(t) =>
       rt[Public(call[t].context)].live /\ rt[call[t].target].live
  /\ \A t \in Threads : host[t] # NoContext => rt[host[t]].live
  /\ \A c \in Contexts : rt[Service(c)].live => rt[Public(c)].live

\* What active_context holds at each step.
Activation ==
  \A t \in Threads :
    /\ host[t] \in HostContexts
    /\ Running(t) => active[t] = call[t].target
    /\ ~Running(t) => Current(t) = HostCurrent(t)

\* No context has two users.
Exclusive ==
  \A t, u \in Threads : t # u =>
    /\ ~Idle(t) /\ ~Idle(u) => call[t].context # call[u].context
    /\ host[t] # NoContext => host[t] # host[u]
    /\ ~Idle(t) => host[u] # Public(call[t].context)

\* Whose options a runtime context has.
OptionsOwned ==
  /\ \A t \in Threads : InEngine(t) =>
       rt[call[t].target].options = call[t].options
  /\ \A t \in Threads : call[t].saved = InitialOptions
  /\ \A r \in Runtime : (\A t \in Threads : InEngine(t) => call[t].target # r)
       => rt[r].options = InitialOptions

\* The recorded error is the first failure of the call that runs.
ErrorIsFault ==
  \A t \in Threads : ~Idle(t) =>
    IF InEngine(t) THEN rt[call[t].target].error = call[t].fault
                   ELSE call[t].fault = "NONE"

\* Tables were loaded under the key recorded beside them, and verb indexes
\* for the language of their context.
TablesKeyed ==
  /\ \A r \in Runtime : /\ rt[r].tags \in {NoKey, rt[r].tag_key}
                         /\ rt[r].verb_stem_index \in {"none", rt[r].language}
  /\ \A t \in Threads : ~Idle(t) =>
       call[t].served \in {NoKey, [language |-> rt[call[t].target].language,
                                   hq |-> call[t].options.hq]}
  /\ \A t \in Threads : ~InEngine(t) => call[t].served = NoKey

IInv == /\ TypeOK /\ CallShape /\ AllLive /\ Activation /\ Exclusive
        /\ OptionsOwned /\ ErrorIsFault /\ TablesKeyed /\ StatusFaithful

----------------------------------------------------------------------------
(* Facts about the operators.                                              *)

(* The three kinds of runtime context are distinct objects, and none of     *)
(* them is the NULL pointer.                                                *)
LEMMA Kinds ==
  /\ \A c \in Contexts : Public(c) \in Runtime /\ Service(c) \in Runtime
  /\ \A t \in Threads : Default(t) \in Runtime
  /\ \A c, d \in Contexts : Public(c) # Service(d)
  /\ \A c, d \in Contexts : c # d => /\ Public(c) # Public(d)
                                     /\ Service(c) # Service(d)
  /\ \A c \in Contexts, t \in Threads : /\ Public(c) # Default(t)
                                        /\ Service(c) # Default(t)
  /\ \A t, u \in Threads : t # u => Default(t) # Default(u)
  /\ NoContext \notin Runtime
  BY NoContextAssumption DEF Public, Service, Default, Runtime, Heap

(* The record operations keep a context well-typed (the setters of          *)
(* setlang.c and dictionary_context).                                       *)
LEMMA RecordOps ==
  ASSUME NEW x \in RuntimeRecord, NEW e \in Errors, NEW o \in Options
  PROVE  /\ Recorded(x, e) \in RuntimeRecord
         /\ Cleared(x) \in RuntimeRecord
         /\ Restored(x, o) \in RuntimeRecord
         /\ HqProbed(x) \in RuntimeRecord \/ files \notin Files
         /\ DictionaryKey(x) \in Keys
         /\ DictionaryContext(x) \in RuntimeRecord
         /\ RuntimeStatus(e) \in Statuses
<1>1. x.language \in Languages /\ x.options.hq \in BOOLEAN
  BY DEF RuntimeRecord, Options
<1>2. DictionaryKey(x) \in Keys
  BY <1>1 DEF DictionaryKey, Keys
<1>3. DictionaryContext(x) \in RuntimeRecord
  BY <1>2 DEF DictionaryContext, RuntimeRecord
<1>4. Recorded(x, e) \in RuntimeRecord
  BY DEF Recorded, RuntimeRecord
<1>5. Cleared(x) \in RuntimeRecord
  BY DEF Cleared, RuntimeRecord, Errors
<1>6. Restored(x, o) \in RuntimeRecord
  BY DEF Restored, RuntimeRecord
<1>7. HqProbed(x) \in RuntimeRecord \/ files \notin Files
  BY DEF HqProbed, RuntimeRecord, Files
<1>8. RuntimeStatus(e) \in Statuses
  BY DEF RuntimeStatus, Statuses, Errors
<1> QED
  BY <1>2, <1>3, <1>4, <1>5, <1>6, <1>7, <1>8

(* A fresh context and a released one are well-typed.                       *)
LEMMA FreshRecords ==
  /\ \A lang \in Languages : Zeroed(lang) \in RuntimeRecord
  /\ Released \in RuntimeRecord
  /\ InitialOptions \in Options
<1>1. InitialOptions \in Options
  BY DEF InitialOptions, Options, Dialects
<1>2. \A lang \in Languages : Zeroed(lang) \in RuntimeRecord
  BY <1>1 DEF Zeroed, RuntimeRecord, Errors
<1>3. Released \in RuntimeRecord
  BY <1>1, LanguagesAssumption DEF Released, Zeroed, RuntimeRecord, Errors
<1> QED
  BY <1>1, <1>2, <1>3

(* The empty call record is well-typed.                                     *)
LEMMA NoCallTyped == NoCall \in CallRecord
  BY FreshRecords DEF NoCall, CallRecord, Steps, Apis, Errors

----------------------------------------------------------------------------
(* The initial states.                                                     *)

(* A process whose threads have made no call satisfies the invariant.       *)
LEMMA InitIInv == Init => IInv
<1> SUFFICES ASSUME Init PROVE IInv
  OBVIOUS
<1>1. TypeOK
  <2>1. rt \in [Runtime -> RuntimeRecord]
    BY FreshRecords, LanguagesAssumption DEF Init
  <2>2. call \in [Threads -> CallRecord]
    BY NoCallTyped DEF Init
  <2>3. answer \in Answers
    BY DEF Init, NoAnswer, Answer, Answers, Statuses, Errors
  <2> QED
    BY <2>1, <2>2, <2>3, DeploymentsAssumption DEF Init, TypeOK
<1>2. \A t \in Threads : Idle(t) /\ ~Running(t) /\ ~InEngine(t)
  BY DEF Init, Idle, Running, InEngine, NoCall
<1>3. \A r \in Runtime : /\ rt[r].options = InitialOptions
                         /\ rt[r].tags = NoKey
                         /\ rt[r].verb_stem_index = "none"
  BY DEF Init, Released, Zeroed
<1>4. \A t \in Threads : rt[Default(t)].live
  BY Kinds DEF Init, Zeroed, Heap
<1>5. \A c \in Contexts : ~rt[Service(c)].live
  BY Kinds DEF Init, Released, Zeroed, Heap
<1>6. AllLive
  BY <1>2, <1>4, <1>5 DEF Init, AllLive
<1>7. Activation
  BY <1>2 DEF Init, Activation, HostContexts, Current, HostCurrent
<1>8. Exclusive
  BY <1>2 DEF Init, Exclusive
<1>9. OptionsOwned
  BY <1>2, <1>3 DEF OptionsOwned, Init, NoCall
<1>10. TablesKeyed
  BY <1>2, <1>3 DEF TablesKeyed, Init, NoCall
<1>11. StatusFaithful
  BY DEF Init, StatusFaithful, NoAnswer, Answer
<1> QED
  BY <1>1, <1>2, <1>6, <1>7, <1>8, <1>9, <1>10, <1>11
  DEF IInv, CallShape, ErrorIsFault

----------------------------------------------------------------------------
(* Frames: what the steps of each kind have in common.                     *)

(* A step that leaves contexts, threads and calls alone: a deployment, and  *)
(* a call that is refused before it runs the engine.                        *)
LEMMA QuietFrame ==
  ASSUME IInv, UNCHANGED <<rt, active, call, host>>,
         files' \in Files, answer' \in Answers, StatusFaithful'
  PROVE  IInv'
<1>1. TypeOK'
  BY DEF IInv, TypeOK
<1>2. CallShape' /\ AllLive' /\ Activation' /\ Exclusive'
  BY DEF IInv, CallShape, AllLive, Activation, Exclusive, HostCurrent, Running,
         Current, Idle
<1>3. OptionsOwned' /\ ErrorIsFault' /\ TablesKeyed'
  BY DEF IInv, OptionsOwned, ErrorIsFault, TablesKeyed, InEngine, Idle
<1> QED
  BY <1>1, <1>2, <1>3 DEF IInv

(* A step of a running engine: it writes the context of its own call and    *)
(* nothing that belongs to another.                                         *)
LEMMA EngineFrame ==
  ASSUME IInv, NEW t \in Threads, InEngine(t),
         NEW y \in RuntimeRecord, NEW k \in CallRecord,
         y.live, y.language = rt[call[t].target].language,
         y.options = rt[call[t].target].options,
         y.tags \in {NoKey, y.tag_key},
         y.verb_stem_index \in {"none", y.language},
         k.step \in {"engine", "print", "finish"},
         k.api = call[t].api, k.context = call[t].context,
         k.target = call[t].target, k.previous = call[t].previous,
         k.options = call[t].options, k.saved = call[t].saved,
         k.fault = y.error,
         k.served \in {NoKey, [language |-> y.language, hq |-> k.options.hq]},
         rt' = [rt EXCEPT ![call[t].target] = y],
         call' = [call EXCEPT ![t] = k],
         UNCHANGED <<active, files, host>>, answer' = NoAnswer
  PROVE  IInv'
<1> DEFINE r == call[t].target
<1>1. /\ r \in Runtime /\ ~Idle(t) /\ call[t].context \in Contexts
      /\ rt \in [Runtime -> RuntimeRecord] /\ call \in [Threads -> CallRecord]
      /\ r \in {Public(call[t].context), Service(call[t].context)}
  BY Kinds DEF IInv, TypeOK, CallShape, InEngine, Idle
<1>2. /\ rt'[r] = y /\ call'[t] = k
      /\ \A q \in Runtime \ {r} : rt'[q] = rt[q]
      /\ \A u \in Threads \ {t} : call'[u] = call[u]
  BY <1>1
<1>3. /\ InEngine(t)' /\ ~Idle(t)' /\ Running(t)' /\ Running(t)
      /\ \A u \in Threads : /\ Idle(u)' = Idle(u) /\ Running(u)' = Running(u)
                            /\ InEngine(u)' = InEngine(u)
  BY <1>1, <1>2 DEF InEngine, Idle, Running
<1>4. \A u \in Threads \ {t} : ~Idle(u) =>
        call[u].target # r /\ call[u].target \in Runtime
  BY <1>1, Kinds DEF IInv, Exclusive, CallShape
<1>5. TypeOK'
  BY <1>1 DEF IInv, TypeOK, NoAnswer, Answer, Answers, Statuses, Errors
<1>6. CallShape'
  BY <1>2, <1>3 DEF IInv, CallShape, HostCurrent
<1>7. AllLive'
  <2>1. \A q \in Runtime : rt'[q].live = rt[q].live
    BY <1>1, <1>2 DEF IInv, AllLive
  <2>2. \A u \in Threads : host[u] # NoContext => host[u] \in Runtime
    BY Kinds DEF IInv, Activation, HostContexts
  <2> QED
    BY <1>1, <1>2, <1>3, <1>4, <2>1, <2>2, Kinds DEF IInv, AllLive
<1>8. Activation'
  BY <1>2, <1>3 DEF IInv, Activation, Current, HostCurrent
<1>9. Exclusive'
  BY <1>2, <1>3 DEF IInv, Exclusive
<1>10. OptionsOwned'
  BY <1>1, <1>2, <1>3, <1>4 DEF IInv, OptionsOwned, InEngine
<1>11. ErrorIsFault'
  BY <1>1, <1>2, <1>3, <1>4 DEF IInv, ErrorIsFault
<1>12. TablesKeyed'
  BY <1>1, <1>2, <1>3, <1>4 DEF IInv, TablesKeyed
<1>13. StatusFaithful'
  BY DEF StatusFaithful, NoAnswer, Answer
<1> QED
  BY <1>5, <1>6, <1>7, <1>8, <1>9, <1>10, <1>11, <1>12, <1>13 DEF IInv

(* A call that passes its validation: it owns its context from here on, and *)
(* any runtime context it changed was its own or a fresh service.           *)
LEMMA EnterFrame ==
  ASSUME IInv, NEW t \in Threads, NEW c \in Contexts,
         Idle(t), rt[Public(c)].live, Serialized(t, c),
         NEW api \in Apis, NEW r \in {Public(c), Service(c)},
         NEW o \in Options, api # "analyze" => o = InitialOptions,
         rt' \in [Runtime -> RuntimeRecord], rt'[r].live,
         \A q \in Runtime : \/ rt'[q] = rt[q]
                            \/ /\ q \in {Public(c), Service(c)}
                               /\ rt'[q].live
                               /\ rt'[q].options = InitialOptions
                               /\ rt'[q].tags \in {NoKey, rt'[q].tag_key}
                               /\ rt'[q].verb_stem_index \in {"none", rt'[q].language},
         Proceed(t, api, c, r, o), UNCHANGED <<active, files, host>>
  PROVE  IInv'
<1>1. /\ call \in [Threads -> CallRecord] /\ r \in Runtime
      /\ Public(c) \in Runtime /\ Service(c) \in Runtime
  BY Kinds DEF IInv, TypeOK
<1> DEFINE k == [NoCall EXCEPT !.step = "activate", !.api = api,
                   !.context = c, !.target = r, !.options = o]
<1>2. k \in CallRecord
  BY <1>1, NoCallTyped DEF CallRecord, NoCall, Steps
<1>3. call' = [call EXCEPT ![t] = k] /\ answer' = NoAnswer
  BY DEF Proceed
<1>4. /\ k.step = "activate" /\ k.api = api /\ k.context = c /\ k.target = r
      /\ k.options = o /\ k.fault = "NONE" /\ k.served = NoKey
      /\ k.saved = InitialOptions
  BY DEF NoCall
<1> HIDE DEF k
<1>5. call'[t] = k /\ \A u \in Threads \ {t} : call'[u] = call[u]
  BY <1>1, <1>3
<1>6. /\ ~Idle(t)' /\ ~Running(t)' /\ ~InEngine(t)' /\ ~Running(t) /\ ~InEngine(t)
      /\ \A u \in Threads \ {t} : /\ Idle(u)' = Idle(u)
                                  /\ Running(u)' = Running(u)
                                  /\ InEngine(u)' = InEngine(u)
  BY <1>4, <1>5 DEF InEngine, Idle, Running
<1>7. \A u \in Threads \ {t} : ~Idle(u) =>
        /\ call[u].context # c /\ call[u].context \in Contexts
        /\ call[u].target \notin {Public(c), Service(c)}
        /\ Public(call[u].context) \notin {Public(c), Service(c)}
        /\ call[u].target \in Runtime /\ Public(call[u].context) \in Runtime
  BY Kinds DEF IInv, CallShape, Serialized, InCall
<1>8. \A u \in Threads \ {t} : host[u] # Public(c)
  BY DEF Serialized, Holds
<1>9. \A q \in Runtime : rt[q].live => rt'[q].live
  OBVIOUS
<1>10. TypeOK'
  BY <1>1, <1>2, <1>3
  DEF IInv, TypeOK, NoAnswer, Answer, Answers, Statuses, Errors
<1>11. CallShape'
  BY <1>4, <1>5, <1>6 DEF IInv, CallShape, HostCurrent
<1>12. AllLive'
  <2>1. \A u \in Threads : host[u] # NoContext => host[u] \in Runtime
    BY Kinds DEF IInv, Activation, HostContexts
  <2>2. \A u \in Threads : rt'[Default(u)].live
    BY <1>9, Kinds DEF IInv, AllLive
  <2>3. \A u \in Threads : host'[u] # NoContext => rt'[host'[u]].live
    BY <1>9, <2>1 DEF IInv, AllLive
  <2>4. rt'[Public(c)].live
    BY <1>1, <1>9
  <2>5. \A d \in Contexts : rt'[Service(d)].live => rt'[Public(d)].live
    BY <1>9, <2>4, Kinds DEF IInv, AllLive
  <2>6. \A u \in Threads : ~Idle(u)' =>
          rt'[Public(call'[u].context)].live /\ rt'[call'[u].target].live
    BY <1>4, <1>5, <1>6, <1>7, <1>9, <2>4 DEF IInv, AllLive
  <2> QED
    BY <2>2, <2>3, <2>5, <2>6 DEF AllLive
<1>13. Activation'
  BY <1>5, <1>6 DEF IInv, Activation, Current, HostCurrent
<1>14. Exclusive'
  BY <1>4, <1>5, <1>6, <1>7, <1>8 DEF IInv, Exclusive
<1>15. OptionsOwned'
  BY <1>1, <1>4, <1>5, <1>6, <1>7 DEF IInv, OptionsOwned, InEngine, Idle
<1>16. ErrorIsFault'
  BY <1>1, <1>4, <1>5, <1>6, <1>7 DEF IInv, ErrorIsFault
<1>17. TablesKeyed'
  BY <1>1, <1>4, <1>5, <1>6, <1>7 DEF IInv, TablesKeyed
<1>18. StatusFaithful'
  BY <1>3 DEF StatusFaithful, NoAnswer, Answer
<1> QED
  BY <1>10, <1>11, <1>12, <1>13, <1>14, <1>15, <1>16, <1>17, <1>18 DEF IInv

(* The end of a call, which gives the context its options back and the      *)
(* thread its context.                                                      *)
LEMMA LeaveFrame ==
  ASSUME IInv, NEW t \in Threads, call[t].step = "finish",
         NEW s \in Statuses, NEW f \in Errors, Leave(t, s, f),
         LET g == FirstFault(call[t].fault, f)
         IN  IF g = "NONE" THEN s \notin {"NO_MEMORY", "INTERNAL_ERROR"}
             ELSE s = IF g = "NO_MEMORY" THEN "NO_MEMORY" ELSE "INTERNAL_ERROR",
         rt' = [rt EXCEPT ![call[t].target] = Restored(@, InitialOptions)],
         UNCHANGED <<files, host>>
  PROVE  IInv'
<1> DEFINE r == call[t].target
           y == Restored(rt[r], InitialOptions)
<1>1. /\ r \in Runtime /\ call[t].context \in Contexts /\ Running(t)
      /\ rt \in [Runtime -> RuntimeRecord] /\ call \in [Threads -> CallRecord]
      /\ r \in {Public(call[t].context), Service(call[t].context)}
  BY Kinds DEF IInv, TypeOK, CallShape, Running, Idle
<1>2. /\ y \in RuntimeRecord /\ y.live = rt[r].live /\ y.tags = rt[r].tags
      /\ y.tag_key = rt[r].tag_key /\ y.options = InitialOptions
      /\ y.error = rt[r].error /\ y.language = rt[r].language
      /\ y.verb_stem_index = rt[r].verb_stem_index
  <2>1. y \in RuntimeRecord
    BY <1>1, RecordOps, FreshRecords DEF Errors
  <2> QED
    BY <1>1, <2>1 DEF Restored, RuntimeRecord
<1> HIDE DEF y
<1>3. /\ rt' = [rt EXCEPT ![r] = y] /\ rt'[r] = y
      /\ \A q \in Runtime \ {r} : rt'[q] = rt[q]
  BY <1>1 DEF y
<1>4. call' = [call EXCEPT ![t] = NoCall] /\ active' = [active EXCEPT ![t] = call[t].previous]
  BY DEF Leave, Activated
<1>5. call'[t] = NoCall /\ \A u \in Threads \ {t} : call'[u] = call[u]
  BY <1>1, <1>4
<1>6. /\ Idle(t)' /\ ~Running(t)' /\ ~InEngine(t)' /\ ~Idle(t)
      /\ \A u \in Threads \ {t} : /\ Idle(u)' = Idle(u)
                                  /\ Running(u)' = Running(u)
                                  /\ InEngine(u)' = InEngine(u)
  BY <1>5 DEF InEngine, Idle, Running, NoCall
<1>7. \A u \in Threads \ {t} : ~Idle(u) =>
        call[u].target # r /\ call[u].target \in Runtime
  BY <1>1, <1>6, Kinds DEF IInv, Exclusive, CallShape
<1>8. /\ call[t].previous = HostCurrent(t) /\ HostCurrent(t) \in Runtime
      /\ host[t] \in HostContexts
  BY <1>1, <1>6, Kinds DEF IInv, CallShape, Activation, HostContexts, HostCurrent
<1>9. TypeOK'
  <2>1. answer' \in Answers
    BY <1>1 DEF Leave, Answers, FirstFault, CallRecord, Statuses
  <2> QED
    BY <1>1, <1>2, <1>3, <1>4, <1>8, <2>1, NoCallTyped DEF IInv, TypeOK
<1>10. CallShape'
  BY <1>5, <1>6 DEF IInv, CallShape, HostCurrent
<1>11. AllLive'
  <2>1. \A q \in Runtime : rt'[q].live = rt[q].live
    BY <1>1, <1>2, <1>3
  <2>2. \A u \in Threads : host[u] # NoContext => host[u] \in Runtime
    BY Kinds DEF IInv, Activation, HostContexts
  <2>3. \A u \in Threads : ~Idle(u)' =>
          rt'[Public(call'[u].context)].live /\ rt'[call'[u].target].live
    BY <1>5, <1>6, <1>7, <2>1, Kinds DEF IInv, AllLive, CallShape
  <2> QED
    BY <2>1, <2>2, <2>3, Kinds DEF IInv, AllLive
<1>12. Activation'
  <2>1. active'[t] = HostCurrent(t) /\ HostCurrent(t) # NoContext
    BY <1>4, <1>8, Kinds DEF IInv, TypeOK
  <2>2. \A u \in Threads \ {t} : active'[u] = active[u]
    BY <1>4 DEF IInv, TypeOK
  <2> QED
    BY <1>5, <1>6, <2>1, <2>2 DEF IInv, Activation, Current, HostCurrent
<1>13. Exclusive'
  BY <1>5, <1>6 DEF IInv, Exclusive
<1>14. OptionsOwned'
  <2>1. call'[t].saved = InitialOptions
    BY <1>5 DEF NoCall
  <2> QED
    BY <1>1, <1>2, <1>3, <1>5, <1>6, <1>7, <2>1 DEF IInv, OptionsOwned, InEngine, Idle
<1>15. ErrorIsFault'
  BY <1>3, <1>5, <1>6, <1>7 DEF IInv, ErrorIsFault
<1>16. TablesKeyed'
  <2>1. \A q \in Runtime :
          /\ rt'[q].tags \in {NoKey, rt'[q].tag_key}
          /\ rt'[q].verb_stem_index \in {"none", rt'[q].language}
          /\ rt'[q].language = rt[q].language
    BY <1>1, <1>2, <1>3 DEF IInv, TablesKeyed
  <2>2. call'[t].served = NoKey
    BY <1>5 DEF NoCall
  <2> QED
    BY <1>3, <1>5, <1>6, <1>7, <2>1, <2>2 DEF IInv, TablesKeyed
<1>17. StatusFaithful'
  BY DEF Leave, StatusFaithful
<1> QED
  BY <1>9, <1>10, <1>11, <1>12, <1>13, <1>14, <1>15, <1>16, <1>17 DEF IInv

----------------------------------------------------------------------------
(* Every step keeps the invariant.                                         *)

(* A refused call returns a status that names its own failure, or none.     *)
LEMMA Refusal ==
  ASSUME IInv, NEW s \in Statuses, NEW f \in Errors,
         IF f = "NONE" THEN s \notin {"NO_MEMORY", "INTERNAL_ERROR"}
         ELSE f = "NO_MEMORY" /\ s = "NO_MEMORY",
         Refuse(s, f), UNCHANGED <<rt, active, files, host>>
  PROVE  IInv'
<1>1. /\ answer' = [status |-> s, fault |-> f, missed |-> FALSE]
      /\ UNCHANGED call
  BY DEF Refuse, Answer
<1>2. answer' \in Answers /\ StatusFaithful'
  BY <1>1 DEF Answers, StatusFaithful
<1> QED
  BY <1>1, <1>2, QuietFrame DEF IInv, TypeOK

(* morpheus_runtime_context_activate at the start of a call.                *)
LEMMA ActivateStep ==
  ASSUME IInv, NEW t \in Threads, Activate(t)
  PROVE  IInv'
<1> DEFINE k == [call[t] EXCEPT !.step = "prepare", !.previous = Current(t)]
<1>1. /\ call \in [Threads -> CallRecord] /\ active \in [Threads -> Runtime \cup {NoContext}]
      /\ call[t].step = "activate" /\ call[t].target \in Runtime
      /\ Current(t) \in Runtime /\ Current(t) = HostCurrent(t)
  BY Kinds DEF IInv, TypeOK, CallShape, Activate, Idle, Current, Activation, Running
<1>2. call' = [call EXCEPT ![t] = k] /\ active' = [active EXCEPT ![t] = call[t].target]
  BY <1>1 DEF Activate, Activated, CallRecord
<1>3. /\ k \in CallRecord /\ k.step = "prepare" /\ k.previous = Current(t)
      /\ k.api = call[t].api /\ k.context = call[t].context
      /\ k.target = call[t].target /\ k.options = call[t].options
      /\ k.fault = call[t].fault /\ k.served = call[t].served
      /\ k.saved = call[t].saved
  BY <1>1 DEF CallRecord, Steps
<1> HIDE DEF k
<1>4. /\ call'[t] = k /\ active'[t] = call[t].target
      /\ \A u \in Threads \ {t} : call'[u] = call[u] /\ active'[u] = active[u]
  BY <1>1, <1>2
<1>5. /\ ~Idle(t)' /\ Running(t)' /\ ~InEngine(t)' /\ ~Idle(t) /\ ~InEngine(t)
      /\ \A u \in Threads \ {t} : /\ Idle(u)' = Idle(u)
                                  /\ Running(u)' = Running(u)
                                  /\ InEngine(u)' = InEngine(u)
  BY <1>1, <1>3, <1>4 DEF InEngine, Idle, Running
<1>6. UNCHANGED <<rt, files, host>> /\ answer' = NoAnswer
  BY DEF Activate
<1>7. TypeOK'
  BY <1>1, <1>2, <1>3, <1>6 DEF IInv, TypeOK, NoAnswer, Answer, Answers, Statuses, Errors
<1>8. CallShape'
  BY <1>1, <1>3, <1>4, <1>5, <1>6 DEF IInv, CallShape, HostCurrent
<1>9. AllLive'
  BY <1>3, <1>4, <1>5, <1>6 DEF IInv, AllLive
<1>10. Activation'
  BY <1>3, <1>4, <1>5, <1>6 DEF IInv, Activation, Current, HostCurrent
<1>11. Exclusive'
  BY <1>3, <1>4, <1>5, <1>6 DEF IInv, Exclusive
<1>12. OptionsOwned'
  BY <1>3, <1>4, <1>5, <1>6 DEF IInv, OptionsOwned
<1>13. ErrorIsFault'
  BY <1>3, <1>4, <1>5, <1>6 DEF IInv, ErrorIsFault
<1>14. TablesKeyed'
  BY <1>3, <1>4, <1>5, <1>6 DEF IInv, TablesKeyed
<1>15. StatusFaithful'
  BY <1>6 DEF StatusFaithful, NoAnswer, Answer
<1> QED
  BY <1>7, <1>8, <1>9, <1>10, <1>11, <1>12, <1>13, <1>14, <1>15 DEF IInv

(* clear_error and apply_request_options.                                   *)
LEMMA PrepareStep ==
  ASSUME IInv, NEW t \in Threads, Prepare(t)
  PROVE  IInv'
<1> DEFINE r == call[t].target
           x == Cleared(rt[r])
           y == IF call[t].api = "analyze"
                THEN [x EXCEPT !.options = call[t].options] ELSE x
           k == IF call[t].api = "analyze"
                THEN [call[t] EXCEPT !.step = "engine", !.saved = x.options]
                ELSE [call[t] EXCEPT !.step = "engine"]
<1>1. /\ call \in [Threads -> CallRecord] /\ rt \in [Runtime -> RuntimeRecord]
      /\ call[t].step = "prepare" /\ r \in Runtime /\ ~Idle(t)
      /\ r \in {Public(call[t].context), Service(call[t].context)}
      /\ call[t].context \in Contexts
  BY Kinds DEF IInv, TypeOK, CallShape, Prepare, Idle
<1>2. /\ x \in RuntimeRecord /\ x.live = rt[r].live /\ x.language = rt[r].language
      /\ x.options = rt[r].options /\ x.tags = rt[r].tags
      /\ x.tag_key = rt[r].tag_key /\ x.error = "NONE"
      /\ x.verb_stem_index = rt[r].verb_stem_index
  <2>1. rt[r] \in RuntimeRecord
    BY <1>1
  <2>2. \A z \in RuntimeRecord :
          /\ Cleared(z) \in RuntimeRecord /\ Cleared(z).live = z.live
          /\ Cleared(z).language = z.language /\ Cleared(z).options = z.options
          /\ Cleared(z).tags = z.tags /\ Cleared(z).tag_key = z.tag_key
          /\ Cleared(z).error = "NONE"
          /\ Cleared(z).verb_stem_index = z.verb_stem_index
    BY DEF Cleared, RuntimeRecord, Errors
  <2> QED
    BY <2>1, <2>2
<1> HIDE DEF x
<1>3. /\ y \in RuntimeRecord /\ y.live = rt[r].live /\ y.language = rt[r].language
      /\ y.tags = rt[r].tags /\ y.tag_key = rt[r].tag_key /\ y.error = "NONE"
      /\ y.verb_stem_index = rt[r].verb_stem_index
      /\ y.options = IF call[t].api = "analyze" THEN call[t].options ELSE rt[r].options
  BY <1>1, <1>2 DEF RuntimeRecord, CallRecord
<1>4. /\ k \in CallRecord /\ k.step = "engine" /\ k.previous = call[t].previous
      /\ k.api = call[t].api /\ k.context = call[t].context
      /\ k.target = call[t].target /\ k.options = call[t].options
      /\ k.fault = call[t].fault /\ k.served = call[t].served
      /\ k.saved = IF call[t].api = "analyze" THEN rt[r].options ELSE call[t].saved
  BY <1>1, <1>2 DEF CallRecord, Steps, RuntimeRecord
<1>5. /\ rt' = [rt EXCEPT ![r] = y] /\ call' = [call EXCEPT ![t] = k]
      /\ UNCHANGED <<active, files, host>> /\ answer' = NoAnswer
  BY <1>1 DEF Prepare, x
<1> HIDE DEF y, k
<1>6. /\ rt'[r] = y /\ call'[t] = k
      /\ \A q \in Runtime \ {r} : rt'[q] = rt[q]
      /\ \A u \in Threads \ {t} : call'[u] = call[u]
  BY <1>1, <1>5
<1>7. /\ ~Idle(t)' /\ Running(t)' /\ InEngine(t)' /\ Running(t) /\ ~InEngine(t)
      /\ \A u \in Threads \ {t} : /\ Idle(u)' = Idle(u)
                                  /\ Running(u)' = Running(u)
                                  /\ InEngine(u)' = InEngine(u)
  BY <1>1, <1>4, <1>6 DEF InEngine, Idle, Running
<1>8. \A u \in Threads \ {t} : ~Idle(u) =>
        call[u].target # r /\ call[u].target \in Runtime
  BY <1>1, Kinds DEF IInv, Exclusive, CallShape
<1>9. rt[r].options = InitialOptions
  BY <1>1, <1>7, <1>8 DEF IInv, OptionsOwned, InEngine, Idle
<1>10. TypeOK'
  BY <1>1, <1>3, <1>4, <1>5 DEF IInv, TypeOK, NoAnswer, Answer, Answers, Statuses, Errors
<1>11. CallShape'
  BY <1>1, <1>4, <1>5, <1>6, <1>7 DEF IInv, CallShape, HostCurrent
<1>12. AllLive'
  <2>1. \A q \in Runtime : rt'[q].live = rt[q].live
    BY <1>1, <1>3, <1>6
  <2>2. \A u \in Threads : host[u] # NoContext => host[u] \in Runtime
    BY Kinds DEF IInv, Activation, HostContexts
  <2> QED
    BY <1>1, <1>4, <1>5, <1>6, <1>7, <1>8, <2>1, <2>2, Kinds DEF IInv, AllLive, CallShape
<1>13. Activation'
  BY <1>4, <1>5, <1>6, <1>7 DEF IInv, Activation, Current, HostCurrent
<1>14. Exclusive'
  BY <1>1, <1>4, <1>5, <1>6, <1>7 DEF IInv, Exclusive
<1>15. OptionsOwned'
  <2>1. k.saved = InitialOptions
    BY <1>4, <1>9 DEF IInv, OptionsOwned
  <2> QED
    BY <1>1, <1>3, <1>4, <1>6, <1>7, <1>8, <1>9, <2>1 DEF IInv, OptionsOwned, CallShape, InEngine, Idle
<1>16. ErrorIsFault'
  BY <1>1, <1>3, <1>4, <1>6, <1>7, <1>8 DEF IInv, ErrorIsFault
<1>17. TablesKeyed'
  BY <1>1, <1>3, <1>4, <1>6, <1>7, <1>8 DEF IInv, TablesKeyed
<1>18. StatusFaithful'
  BY <1>5 DEF StatusFaithful, NoAnswer, Answer
<1> QED
  BY <1>10, <1>11, <1>12, <1>13, <1>14, <1>15, <1>16, <1>17, <1>18 DEF IInv

(* Entering a call: every branch either refuses it or hands the context to  *)
(* it.                                                                      *)
LEMMA EnterAnalyzeStep ==
  ASSUME IInv, NEW t \in Threads, NEW c \in Contexts, EnterAnalyze(t, c)
  PROVE  IInv'
<1> DEFINE x == rt[Public(c)]
           y(q) == IF q.hq THEN HqProbed(x) ELSE x
<1>1. PICK q \in Requests :
        \/ Refuse("INVALID_ARGUMENT", "NONE") /\ UNCHANGED rt
        \/ /\ rt' = [rt EXCEPT ![Public(c)] = y(q)]
           /\ \/ Refuse("STEMLIB_ERROR", "NONE")
              \/ Proceed(t, "analyze", c, Public(c), q)
              \/ Refuse("INVALID_ARGUMENT", "NONE")
              \/ Refuse("INPUT_TOO_LONG", "NONE")
  BY DEF EnterAnalyze
<1>2. /\ Idle(t) /\ rt[Public(c)].live /\ Serialized(t, c)
      /\ UNCHANGED <<active, files, host>>
  BY DEF EnterAnalyze
<1>3. /\ rt \in [Runtime -> RuntimeRecord] /\ Public(c) \in Runtime
      /\ files \in Files /\ x \in RuntimeRecord /\ q \in Options
  BY Kinds, RequestsAssumption DEF IInv, TypeOK, Options, Dialects
<1>4. y(q) \in [live : {x.live}, language : {x.language}, error : {x.error},
                storage_error : BOOLEAN, options : {x.options},
                hq_checked : BOOLEAN, hq_available : BOOLEAN,
                tag_key : {x.tag_key}, tags : {x.tags},
                verb_stem_index : {x.verb_stem_index}]
  BY <1>3 DEF HqProbed, RuntimeRecord, Files
<1>5. /\ y(q) \in RuntimeRecord /\ y(q).live = x.live /\ y(q).options = x.options
      /\ y(q).tags = x.tags /\ y(q).tag_key = x.tag_key /\ y(q).error = x.error
      /\ y(q).language = x.language /\ y(q).verb_stem_index = x.verb_stem_index
  BY <1>3, <1>4 DEF RuntimeRecord
<1>6. /\ x.options = InitialOptions /\ x.tags \in {NoKey, x.tag_key}
      /\ x.verb_stem_index \in {"none", x.language}
  <2>1. \A u \in Threads : InEngine(u) => call[u].target # Public(c)
    BY <1>2, Kinds DEF IInv, CallShape, InEngine, Idle, Serialized, InCall
  <2> QED
    BY <1>3, <2>1 DEF IInv, OptionsOwned, TablesKeyed
<1> HIDE DEF y
<1>7. CASE Proceed(t, "analyze", c, Public(c), q)
           /\ rt' = [rt EXCEPT ![Public(c)] = y(q)]
  <2>1. rt' \in [Runtime -> RuntimeRecord] /\ rt'[Public(c)] = y(q)
    BY <1>3, <1>5, <1>7
  <2>2. \A p \in Runtime : p # Public(c) => rt'[p] = rt[p]
    BY <1>3, <1>7
  <2>3. "analyze" \in Apis
    BY DEF Apis
  <2> QED
    BY <1>2, <1>3, <1>5, <1>6, <1>7, <2>1, <2>2, <2>3, EnterFrame
<1>8. CASE UNCHANGED rt /\ Refuse("INVALID_ARGUMENT", "NONE")
  BY <1>2, <1>8, Refusal DEF Statuses, Errors
<1>9. ASSUME NEW s \in {"STEMLIB_ERROR", "INVALID_ARGUMENT", "INPUT_TOO_LONG"},
             Refuse(s, "NONE"), rt' = [rt EXCEPT ![Public(c)] = y(q)]
      PROVE  IInv'
  <2>1. rt' \in [Runtime -> RuntimeRecord] /\ rt'[Public(c)] = y(q)
    BY <1>3, <1>5, <1>9
  <2>2. \A p \in Runtime : /\ rt'[p].live = rt[p].live
                           /\ rt'[p].options = rt[p].options
                           /\ rt'[p].tags = rt[p].tags
                           /\ rt'[p].tag_key = rt[p].tag_key
                           /\ rt'[p].error = rt[p].error
                           /\ rt'[p].language = rt[p].language
                           /\ rt'[p].verb_stem_index = rt[p].verb_stem_index
    BY <1>3, <1>5, <1>9
  <2>3. /\ answer' = [status |-> s, fault |-> "NONE", missed |-> FALSE]
        /\ UNCHANGED <<active, call, files, host>>
    BY <1>2, <1>9 DEF Refuse, Answer
  <2>4. \A u \in Threads : ~Idle(u) => /\ call[u].target \in Runtime
                                       /\ Public(call[u].context) \in Runtime
    BY Kinds DEF IInv, CallShape
  <2>5. \A u \in Threads : host[u] # NoContext => host[u] \in Runtime
    BY Kinds DEF IInv, Activation, HostContexts
  <2>6. TypeOK' /\ StatusFaithful'
    BY <2>1, <2>3 DEF IInv, TypeOK, Answers, Statuses, Errors, StatusFaithful
  <2>7. CallShape' /\ Activation' /\ Exclusive'
    BY <2>3 DEF IInv, CallShape, Activation, Exclusive, HostCurrent, Running, Current, Idle
  <2>8. AllLive'
    BY <2>2, <2>3, <2>4, <2>5, Kinds DEF IInv, AllLive, Idle
  <2>9. OptionsOwned' /\ ErrorIsFault' /\ TablesKeyed'
    BY <2>2, <2>3, <2>4 DEF IInv, OptionsOwned, ErrorIsFault, TablesKeyed, InEngine, Idle
  <2> QED
    BY <2>6, <2>7, <2>8, <2>9 DEF IInv
<1> QED
  BY <1>1, <1>7, <1>8, <1>9

LEMMA EnterCompatStep ==
  ASSUME IInv, NEW t \in Threads, NEW c \in Contexts, EnterCompat(t, c)
  PROVE  IInv'
<1>1. /\ Idle(t) /\ rt[Public(c)].live /\ Serialized(t, c)
      /\ UNCHANGED <<rt, active, files, host>>
  BY DEF EnterCompat
<1>2. CASE Proceed(t, "compat", c, Public(c), InitialOptions)
  <2>1. "compat" \in Apis /\ rt' \in [Runtime -> RuntimeRecord]
    BY <1>1 DEF Apis, IInv, TypeOK
  <2> QED
    BY <1>1, <1>2, <2>1, FreshRecords, EnterFrame
<1>3. ASSUME NEW s \in {"INVALID_ARGUMENT", "INPUT_TOO_LONG"}, Refuse(s, "NONE")
      PROVE  IInv'
  BY <1>1, <1>3, Refusal DEF Statuses, Errors
<1>4. CASE Refuse("NO_MEMORY", "NO_MEMORY")
  BY <1>1, <1>4, Refusal DEF Statuses, Errors
<1> QED
  BY <1>2, <1>3, <1>4 DEF EnterCompat

LEMMA EnterGenerateStep ==
  ASSUME IInv, NEW t \in Threads, NEW c \in Contexts, EnterGenerate(t, c)
  PROVE  IInv'
<1>1. /\ Idle(t) /\ rt[Public(c)].live /\ Serialized(t, c)
      /\ UNCHANGED <<active, files, host>>
  BY DEF EnterGenerate
<1>2. ASSUME NEW s \in {"INVALID_ARGUMENT", "STEMLIB_ERROR", "OK"},
             Refuse(s, "NONE"), UNCHANGED rt
      PROVE  IInv'
  BY <1>1, <1>2, Refusal DEF Statuses, Errors
<1>3. CASE Refuse("NO_MEMORY", "NO_MEMORY") /\ UNCHANGED rt
  BY <1>1, <1>3, Refusal DEF Statuses, Errors
<1>4. "generate" \in Apis /\ rt \in [Runtime -> RuntimeRecord]
  BY DEF Apis, IInv, TypeOK
<1>5. CASE /\ Proceed(t, "generate", c, Service(c), InitialOptions)
           /\ UNCHANGED rt /\ rt[Service(c)].live
  BY <1>1, <1>4, <1>5, FreshRecords, EnterFrame
<1>6. CASE /\ rt' = [rt EXCEPT ![Service(c)] = Zeroed("GREEK")]
           /\ \/ Proceed(t, "generate", c, Service(c), InitialOptions)
              \/ Refuse("OK", "NONE")
              \/ Refuse("NO_MEMORY", "NO_MEMORY")
  <2>1. /\ rt' \in [Runtime -> RuntimeRecord] /\ rt'[Service(c)] = Zeroed("GREEK")
        /\ \A p \in Runtime \ {Service(c)} : rt'[p] = rt[p]
    BY <1>4, <1>6, Kinds, FreshRecords, LanguagesAssumption
  <2>2. /\ Zeroed("GREEK").live /\ Zeroed("GREEK").options = InitialOptions
        /\ Zeroed("GREEK").tags = NoKey /\ Zeroed("GREEK").error = "NONE"
        /\ Zeroed("GREEK").verb_stem_index = "none"
    BY DEF Zeroed
  <2>3. CASE Proceed(t, "generate", c, Service(c), InitialOptions)
    BY <1>1, <1>4, <2>1, <2>2, <2>3, FreshRecords, EnterFrame
  <2>4. ASSUME NEW s \in {"OK", "NO_MEMORY"}, NEW f \in {"NONE", "NO_MEMORY"},
               f = IF s = "OK" THEN "NONE" ELSE "NO_MEMORY",
               Refuse(s, f)
        PROVE  IInv'
    <3>1. /\ answer' = [status |-> s, fault |-> f, missed |-> FALSE]
          /\ UNCHANGED <<active, call, files, host>>
      BY <1>1, <2>4 DEF Refuse, Answer
    <3>2. \A u \in Threads : ~Idle(u) =>
            /\ call[u].target \in Runtime \ {Service(c)}
            /\ Public(call[u].context) \in Runtime \ {Service(c)}
      BY <1>1, Kinds DEF IInv, CallShape, Serialized, InCall
    <3>3. \A u \in Threads : host[u] # NoContext =>
            host[u] \in Runtime \ {Service(c)}
      BY Kinds DEF IInv, Activation, HostContexts
    <3>4. TypeOK' /\ StatusFaithful'
      BY <2>1, <2>4, <3>1 DEF IInv, TypeOK, Answers, Statuses, Errors, StatusFaithful
    <3>5. CallShape' /\ Activation' /\ Exclusive'
      BY <3>1 DEF IInv, CallShape, Activation, Exclusive, HostCurrent, Running, Current, Idle
    <3>6. AllLive'
      <4>1. \A u \in Threads : rt'[Default(u)].live
        BY <2>1, Kinds DEF IInv, AllLive
      <4>2. \A d \in Contexts : rt'[Service(d)].live => rt'[Public(d)].live
        BY <1>1, <2>1, Kinds DEF IInv, AllLive
      <4>3. \A u \in Threads : ~Idle(u)' =>
              rt'[Public(call'[u].context)].live /\ rt'[call'[u].target].live
        BY <2>1, <3>1, <3>2 DEF IInv, AllLive, Idle
      <4>4. \A u \in Threads : host'[u] # NoContext => rt'[host'[u]].live
        BY <2>1, <3>1, <3>3 DEF IInv, AllLive
      <4> QED
        BY <4>1, <4>2, <4>3, <4>4 DEF AllLive
    <3>7. OptionsOwned'
      BY <2>1, <2>2, <3>1, <3>2 DEF IInv, OptionsOwned, InEngine, Idle
    <3>8. ErrorIsFault'
      BY <2>1, <3>1, <3>2 DEF IInv, ErrorIsFault, InEngine, Idle
    <3>9. TablesKeyed'
      BY <2>1, <2>2, <3>1, <3>2 DEF IInv, TablesKeyed, InEngine, Idle
    <3> QED
      BY <3>4, <3>5, <3>6, <3>7, <3>8, <3>9 DEF IInv
  <2> QED
    <3>1. CASE Refuse("OK", "NONE")
      BY <2>4, <3>1
    <3>2. CASE Refuse("NO_MEMORY", "NO_MEMORY")
      BY <2>4, <3>2
    <3> QED
      BY <1>6, <2>3, <3>1, <3>2
<1> QED
  BY <1>1, <1>2, <1>3, <1>5, <1>6 DEF EnterGenerate

(* morpheus_open replaces a context nobody uses.                            *)
LEMMA OpenStep ==
  ASSUME IInv, NEW t \in Threads, NEW c \in Contexts, Open(t, c)
  PROVE  IInv'
<1>1. /\ Idle(t) /\ ~rt[Public(c)].live /\ UNCHANGED <<active, files, host>>
  BY DEF Open
<1>2. CASE Refuse("NO_MEMORY", "NO_MEMORY") /\ UNCHANGED rt
  BY <1>1, <1>2, Refusal DEF Statuses, Errors
<1>3. CASE Refuse("STEMLIB_ERROR", "NONE") /\ UNCHANGED rt
  BY <1>1, <1>3, Refusal DEF Statuses, Errors
<1>4. ASSUME NEW lang \in Languages, Refuse("OK", "NONE"),
             rt' = [rt EXCEPT ![Public(c)] = Zeroed(lang)]
      PROVE  IInv'
  <2>1. /\ rt' \in [Runtime -> RuntimeRecord] /\ rt'[Public(c)] = Zeroed(lang)
        /\ \A p \in Runtime \ {Public(c)} : rt'[p] = rt[p]
    BY <1>4, Kinds, FreshRecords DEF IInv, TypeOK
  <2>2. /\ Zeroed(lang).live /\ Zeroed(lang).options = InitialOptions
        /\ Zeroed(lang).tags = NoKey /\ Zeroed(lang).verb_stem_index = "none"
    BY DEF Zeroed
  <2>3. /\ answer' = [status |-> "OK", fault |-> "NONE", missed |-> FALSE]
        /\ UNCHANGED <<active, call, files, host>>
    BY <1>1, <1>4 DEF Refuse, Answer
  <2>4. \A u \in Threads : ~Idle(u) =>
          /\ call[u].target \in Runtime \ {Public(c)}
          /\ Public(call[u].context) \in Runtime \ {Public(c)}
    BY <1>1, Kinds DEF IInv, CallShape, AllLive
  <2>5. \A u \in Threads : host[u] # NoContext => host[u] \in Runtime \ {Public(c)}
    BY <1>1, Kinds DEF IInv, Activation, HostContexts, AllLive
  <2>6. TypeOK' /\ StatusFaithful'
    BY <2>1, <2>3 DEF IInv, TypeOK, Answers, Statuses, Errors, StatusFaithful
  <2>7. CallShape' /\ Activation' /\ Exclusive'
    BY <2>3 DEF IInv, CallShape, Activation, Exclusive, HostCurrent, Running, Current, Idle
  <2>8. AllLive'
    <3>1. \A u \in Threads : rt'[Default(u)].live
      BY <2>1, Kinds DEF IInv, AllLive
    <3>2. \A d \in Contexts : rt'[Service(d)].live => rt'[Public(d)].live
      BY <2>1, <2>2, Kinds DEF IInv, AllLive
    <3>3. \A u \in Threads : ~Idle(u)' =>
            rt'[Public(call'[u].context)].live /\ rt'[call'[u].target].live
      BY <2>1, <2>3, <2>4 DEF IInv, AllLive, Idle
    <3>4. \A u \in Threads : host'[u] # NoContext => rt'[host'[u]].live
      BY <2>1, <2>3, <2>5 DEF IInv, AllLive
    <3> QED
      BY <3>1, <3>2, <3>3, <3>4 DEF AllLive
  <2>9. OptionsOwned' /\ ErrorIsFault' /\ TablesKeyed'
    BY <2>1, <2>2, <2>3, <2>4
    DEF IInv, OptionsOwned, ErrorIsFault, TablesKeyed, InEngine, Idle
  <2> QED
    BY <2>6, <2>7, <2>8, <2>9 DEF IInv
<1> QED
  BY <1>2, <1>3, <1>4 DEF Open

(* morpheus_close destroys contexts nobody else uses, and the closing       *)
(* thread forgets them.                                                     *)
LEMMA CloseStep ==
  ASSUME IInv, NEW t \in Threads, NEW c \in Contexts, Close(t, c)
  PROVE  IInv'
<1> DEFINE gone == {Public(c), Service(c)}
<1>1. /\ Idle(t) /\ rt[Public(c)].live /\ Serialized(t, c)
      /\ rt' = [rt EXCEPT ![Service(c)] = Released, ![Public(c)] = Released]
      /\ active' = [active EXCEPT ![t] = IF @ \in gone THEN NoContext ELSE @]
      /\ host' = [host EXCEPT ![t] = IF @ = Public(c) THEN NoContext ELSE @]
      /\ answer' = NoAnswer /\ UNCHANGED <<call, files>>
  BY DEF Close, Deactivated
<1>2. /\ rt \in [Runtime -> RuntimeRecord] /\ Public(c) \in Runtime /\ Service(c) \in Runtime
      /\ active \in [Threads -> Runtime \cup {NoContext}]
      /\ host \in [Threads -> Runtime \cup {NoContext}]
  BY Kinds DEF IInv, TypeOK
<1>3. /\ \A p \in gone : rt'[p] = Released
      /\ \A p \in Runtime \ gone : rt'[p] = rt[p]
      /\ rt' \in [Runtime -> RuntimeRecord]
  BY <1>1, <1>2, FreshRecords, Kinds
<1>4. /\ ~Released.live /\ Released.options = InitialOptions /\ Released.tags = NoKey
      /\ Released.verb_stem_index = "none"
  BY DEF Released, Zeroed
<1>5. \A u \in Threads : ~Idle(u) =>
        /\ call[u].target \in Runtime \ gone
        /\ Public(call[u].context) \in Runtime \ gone
  BY <1>1, Kinds DEF IInv, CallShape, Serialized, InCall
<1>6. /\ \A u \in Threads \ {t} : /\ host'[u] = host[u] /\ active'[u] = active[u]
                                  /\ host[u] \notin gone
      /\ host'[t] = IF host[t] = Public(c) THEN NoContext ELSE host[t]
      /\ active'[t] = IF active[t] \in gone THEN NoContext ELSE active[t]
      /\ host[t] # Service(c)
  BY <1>1, <1>2, Kinds DEF Serialized, Holds, IInv, Activation, HostContexts
<1>7. \A u \in Threads : /\ host'[u] \in HostContexts
                         /\ host'[u] # NoContext => host'[u] = host[u] /\ host[u] \in Runtime \ gone
  BY <1>6, Kinds DEF IInv, Activation, HostContexts
<1>8. TypeOK' /\ StatusFaithful'
  BY <1>1, <1>2, <1>3 DEF IInv, TypeOK, NoAnswer, Answer, Answers, Statuses, Errors, StatusFaithful
<1>9. CallShape'
  BY <1>1, <1>6 DEF IInv, CallShape, Idle, Running, HostCurrent
<1>10. AllLive'
  <2>1. \A u \in Threads : rt'[Default(u)].live
    BY <1>3, Kinds DEF IInv, AllLive
  <2>2. \A d \in Contexts : rt'[Service(d)].live => rt'[Public(d)].live
    <3> SUFFICES ASSUME NEW d \in Contexts, rt'[Service(d)].live
                 PROVE  rt'[Public(d)].live
      OBVIOUS
    <3>1. d # c
      BY <1>3, <1>4
    <3> QED
      BY <1>3, <3>1, Kinds DEF IInv, AllLive
  <2>3. \A u \in Threads : ~Idle(u)' =>
          rt'[Public(call'[u].context)].live /\ rt'[call'[u].target].live
    BY <1>1, <1>3, <1>5 DEF IInv, AllLive, Idle
  <2>4. \A u \in Threads : host'[u] # NoContext => rt'[host'[u]].live
    <3> SUFFICES ASSUME NEW u \in Threads, host'[u] # NoContext
                 PROVE  rt'[host'[u]].live
      OBVIOUS
    <3>1. host'[u] = host[u] /\ host[u] \in Runtime \ gone
      BY <1>7
    <3>2. rt'[host[u]] = rt[host[u]]
      BY <1>3, <3>1
    <3> QED
      BY <3>1, <3>2 DEF IInv, AllLive
  <2> QED
    BY <2>1, <2>2, <2>3, <2>4 DEF AllLive
<1>11. Activation'
  <2>1. Current(t)' = HostCurrent(t)'
    BY <1>1, <1>6, Kinds DEF IInv, Activation, Current, HostCurrent, Idle, Running
  <2>2. \A u \in Threads : host'[u] \in HostContexts
    BY <1>7
  <2>3. ~Running(t)'
    BY <1>1 DEF Running, Idle
  <2>4. \A u \in Threads \ {t} :
          /\ Running(u)' = Running(u) /\ active'[u] = active[u]
          /\ call'[u] = call[u] /\ Current(u)' = Current(u)
          /\ HostCurrent(u)' = HostCurrent(u)
    BY <1>1, <1>6 DEF Running, Current, HostCurrent
  <2> QED
    BY <2>1, <2>2, <2>3, <2>4 DEF IInv, Activation
<1>12. Exclusive'
  <2> SUFFICES ASSUME NEW u \in Threads, NEW v \in Threads, u # v
               PROVE  /\ ~Idle(u)' /\ ~Idle(v)' => call'[u].context # call'[v].context
                      /\ host'[u] # NoContext => host'[u] # host'[v]
                      /\ ~Idle(u)' => host'[v] # Public(call'[u].context)
    BY DEF Exclusive
  <2>1. host'[u] # NoContext => host'[u] # host'[v]
    BY <1>7 DEF IInv, Exclusive
  <2>2. ~Idle(u)' => host'[v] # Public(call'[u].context)
    BY <1>1, <1>5, <1>6, Kinds DEF IInv, Exclusive, Idle
  <2> QED
    BY <1>1, <2>1, <2>2 DEF IInv, Exclusive, Idle
<1>13. OptionsOwned'
  BY <1>1, <1>3, <1>4, <1>5 DEF IInv, OptionsOwned, InEngine, Idle
<1>14. ErrorIsFault'
  BY <1>1, <1>3, <1>5 DEF IInv, ErrorIsFault, InEngine, Idle
<1>15. TablesKeyed'
  BY <1>1, <1>3, <1>4, <1>5 DEF IInv, TablesKeyed, InEngine, Idle
<1> QED
  BY <1>8, <1>9, <1>10, <1>11, <1>12, <1>13, <1>14, <1>15 DEF IInv

(* A host activates a context nobody else uses.                             *)
LEMMA HostActivateStep ==
  ASSUME IInv, NEW t \in Threads, HostActivate(t)
  PROVE  IInv'
<1>1. PICK r \in HostContexts :
        /\ r # NoContext => /\ r \in Runtime /\ rt[r].live
                            /\ \A u \in Threads \ {t} : host[u] # r
                            /\ \A u \in Threads : ~Idle(u) => Public(call[u].context) # r
        /\ active' = [active EXCEPT ![t] = r]
        /\ host' = [host EXCEPT ![t] = r]
  <2>1. PICK r \in {Public(c) : c \in {d \in Contexts :
               rt[Public(d)].live /\ Serialized(t, d)}} \cup {NoContext} :
          active' = [active EXCEPT ![t] = r] /\ host' = [host EXCEPT ![t] = r]
    BY DEF HostActivate, Activated
  <2>2. ASSUME NEW d \in Contexts, rt[Public(d)].live, Serialized(t, d)
        PROVE  /\ \A u \in Threads \ {t} : host[u] # Public(d)
               /\ \A u \in Threads : ~Idle(u) => Public(call[u].context) # Public(d)
    BY <2>2, Kinds DEF Serialized, InCall, Holds, IInv, CallShape
  <2> QED
    BY <2>1, <2>2, Kinds DEF HostContexts
<1>2. Idle(t) /\ answer' = NoAnswer /\ UNCHANGED <<rt, call, files>>
  BY DEF HostActivate
<1>3. /\ host'[t] = r /\ active'[t] = r
      /\ \A u \in Threads \ {t} : host'[u] = host[u] /\ active'[u] = active[u]
  BY <1>1 DEF IInv, TypeOK
<1>4. TypeOK' /\ StatusFaithful'
  BY <1>1, <1>2 DEF IInv, TypeOK, NoAnswer, Answer, Answers, Statuses, Errors, StatusFaithful
<1>5. CallShape'
  BY <1>2, <1>3 DEF IInv, CallShape, Idle, Running, HostCurrent
<1>6. AllLive'
  BY <1>1, <1>2, <1>3 DEF IInv, AllLive, Idle
<1>7. Activation'
  BY <1>1, <1>2, <1>3 DEF IInv, Activation, Current, HostCurrent, Running, Idle
<1>8. Exclusive'
  <2> SUFFICES ASSUME NEW u \in Threads, NEW v \in Threads, u # v
               PROVE  /\ ~Idle(u)' /\ ~Idle(v)' => call'[u].context # call'[v].context
                      /\ host'[u] # NoContext => host'[u] # host'[v]
                      /\ ~Idle(u)' => host'[v] # Public(call'[u].context)
    BY DEF Exclusive
  <2>1. host'[u] # NoContext => host'[u] # host'[v]
    BY <1>1, <1>3 DEF IInv, Exclusive
  <2>2. ~Idle(u)' => host'[v] # Public(call'[u].context)
    <3>1. Public(call[u].context) # NoContext \/ Idle(u)
      BY Kinds DEF IInv, CallShape
    <3> QED
      BY <1>1, <1>2, <1>3, <3>1 DEF IInv, Exclusive, Idle
  <2> QED
    BY <1>2, <2>1, <2>2 DEF IInv, Exclusive, Idle
<1>9. OptionsOwned' /\ ErrorIsFault' /\ TablesKeyed'
  BY <1>2 DEF IInv, OptionsOwned, ErrorIsFault, TablesKeyed, InEngine, Idle
<1> QED
  BY <1>4, <1>5, <1>6, <1>7, <1>8, <1>9 DEF IInv

(* The engine's own steps.                                                  *)

(* What a running call knows of its context.                                *)
LEMMA InsideCall ==
  ASSUME IInv, NEW t \in Threads, InEngine(t)
  PROVE  LET r == call[t].target IN
         /\ Current(t) = r /\ r \in Runtime /\ rt[r] \in RuntimeRecord
         /\ rt[r].live /\ rt[r].options = call[t].options
         /\ rt[r].error = call[t].fault /\ rt[r].tags \in {NoKey, rt[r].tag_key}
         /\ rt[r].verb_stem_index \in {"none", rt[r].language}
         /\ call[t] \in CallRecord /\ ~Idle(t)
         /\ rt \in [Runtime -> RuntimeRecord] /\ call \in [Threads -> CallRecord]
         /\ call[t].saved = InitialOptions
         /\ call[t].api # "analyze" => call[t].options = InitialOptions
         /\ call[t].served \in {NoKey, [language |-> rt[r].language,
                                        hq |-> call[t].options.hq]}
<1>1. Running(t) /\ ~Idle(t)
  BY DEF InEngine, Running, Idle
<1>2. call[t].target \in Runtime
  BY <1>1, Kinds DEF IInv, CallShape
<1>3. Current(t) = call[t].target
  BY <1>1, <1>2, Kinds DEF IInv, Activation, Current
<1>4. /\ rt[call[t].target].live /\ rt[call[t].target].error = call[t].fault
      /\ rt[call[t].target].options = call[t].options
      /\ call[t].saved = InitialOptions
  BY <1>1 DEF IInv, AllLive, ErrorIsFault, OptionsOwned
<1>5. /\ rt[call[t].target].tags \in {NoKey, rt[call[t].target].tag_key}
      /\ rt[call[t].target].verb_stem_index \in {"none", rt[call[t].target].language}
      /\ call[t].served \in {NoKey, [language |-> rt[call[t].target].language,
                                     hq |-> call[t].options.hq]}
      /\ call[t].api # "analyze" => call[t].options = InitialOptions
  BY <1>1, <1>2 DEF IInv, TablesKeyed, CallShape
<1> QED
  BY <1>1, <1>2, <1>3, <1>4, <1>5 DEF IInv, TypeOK

(* Recording an error changes the context and the call's history alike.     *)
LEMMA FirstErrorRule ==
  ASSUME NEW x \in RuntimeRecord, NEW e \in {"NO_MEMORY", "INTERNAL"}
  PROVE  /\ Recorded(x, e) \in RuntimeRecord
         /\ Recorded(x, e).error = FirstFault(x.error, e)
         /\ Recorded(x, e).live = x.live /\ Recorded(x, e).language = x.language
         /\ Recorded(x, e).options = x.options /\ Recorded(x, e).tags = x.tags
         /\ Recorded(x, e).tag_key = x.tag_key
         /\ Recorded(x, e).verb_stem_index = x.verb_stem_index
  BY DEF Recorded, RuntimeRecord, Errors, FirstFault

LEMMA EngineFaultStep ==
  ASSUME IInv, NEW t \in Threads, EngineFault(t)
  PROVE  IInv'
<1> DEFINE r == call[t].target
<1>1. InEngine(t)
  BY DEF EngineFault, InEngine
<1>2. PICK e \in {"NO_MEMORY", "INTERNAL"} :
        /\ rt' = [rt EXCEPT ![r] = Recorded(rt[r], e)]
        /\ call' = [call EXCEPT ![t] = [call[t] EXCEPT !.fault = FirstFault(@, e)]]
        /\ answer' = NoAnswer /\ UNCHANGED <<active, files, host>>
  BY <1>1, InsideCall, FaultsAssumption DEF EngineFault, EngineError
<1> DEFINE k == [call[t] EXCEPT !.fault = FirstFault(@, e)]
<1>3. /\ k \in CallRecord /\ k.step = call[t].step /\ k.previous = call[t].previous
      /\ k.api = call[t].api /\ k.context = call[t].context
      /\ k.target = call[t].target /\ k.options = call[t].options
      /\ k.saved = call[t].saved /\ k.served = call[t].served
      /\ k.fault = FirstFault(call[t].fault, e)
  BY <1>1, InsideCall DEF CallRecord, Errors, FirstFault
<1> HIDE DEF k
<1>4. call' = [call EXCEPT ![t] = k]
  BY <1>2 DEF k
<1>5. /\ r \in Runtime /\ rt[r] \in RuntimeRecord /\ rt[r].live
      /\ rt[r].options = call[t].options /\ rt[r].error = call[t].fault
      /\ rt[r].tags \in {NoKey, rt[r].tag_key}
      /\ rt[r].verb_stem_index \in {"none", rt[r].language}
      /\ call[t].served \in {NoKey, [language |-> rt[r].language,
                                     hq |-> call[t].options.hq]}
      /\ call[t].step \in {"engine", "print", "finish"}
  BY <1>1, InsideCall DEF InEngine
<1> DEFINE y == Recorded(rt[r], e)
<1>6. /\ y \in RuntimeRecord /\ y.live /\ y.language = rt[r].language
      /\ y.options = rt[r].options /\ y.tags \in {NoKey, y.tag_key}
      /\ y.verb_stem_index \in {"none", y.language}
      /\ y.error = k.fault /\ rt' = [rt EXCEPT ![r] = y]
  BY <1>2, <1>3, <1>5, FirstErrorRule
<1> HIDE DEF y
<1> QED
  BY <1>1, <1>2, <1>3, <1>4, <1>5, <1>6, EngineFrame

LEMMA AddAnalysisFaultStep ==
  ASSUME IInv, NEW t \in Threads, AddAnalysisFault(t)
  PROVE  IInv'
<1> DEFINE r == call[t].target
           z == [rt[r] EXCEPT !.storage_error = TRUE]
<1>1. InEngine(t)
  BY DEF AddAnalysisFault, InEngine
<1>2. PICK e \in {"NO_MEMORY", "INTERNAL"} :
        /\ rt' = [rt EXCEPT ![r] = Recorded(z, e)]
        /\ call' = [call EXCEPT ![t] = [call[t] EXCEPT !.fault = FirstFault(@, e)]]
        /\ answer' = NoAnswer /\ UNCHANGED <<active, files, host>>
  BY <1>1, InsideCall, FaultsAssumption DEF AddAnalysisFault
<1> DEFINE k == [call[t] EXCEPT !.fault = FirstFault(@, e)]
<1>3. /\ k \in CallRecord /\ k.step = call[t].step /\ k.previous = call[t].previous
      /\ k.api = call[t].api /\ k.context = call[t].context
      /\ k.target = call[t].target /\ k.options = call[t].options
      /\ k.saved = call[t].saved /\ k.served = call[t].served
      /\ k.fault = FirstFault(call[t].fault, e)
  BY <1>1, InsideCall DEF CallRecord, Errors, FirstFault
<1>4. /\ z \in RuntimeRecord /\ z.live = rt[r].live /\ z.options = rt[r].options
      /\ z.error = rt[r].error /\ z.tags = rt[r].tags /\ z.tag_key = rt[r].tag_key
      /\ z.language = rt[r].language /\ z.verb_stem_index = rt[r].verb_stem_index
  <2>1. rt[r] \in RuntimeRecord
    BY <1>1, InsideCall
  <2> QED
    BY <2>1 DEF RuntimeRecord
<1> HIDE DEF k, z
<1>5. call' = [call EXCEPT ![t] = k]
  BY <1>2 DEF k
<1>6. /\ r \in Runtime /\ rt[r] \in RuntimeRecord /\ rt[r].live
      /\ rt[r].options = call[t].options /\ rt[r].error = call[t].fault
      /\ rt[r].tags \in {NoKey, rt[r].tag_key}
      /\ rt[r].verb_stem_index \in {"none", rt[r].language}
      /\ call[t].served \in {NoKey, [language |-> rt[r].language,
                                     hq |-> call[t].options.hq]}
      /\ call[t].step \in {"engine", "print", "finish"}
  BY <1>1, InsideCall DEF InEngine
<1> DEFINE y == Recorded(z, e)
<1>7. /\ y \in RuntimeRecord /\ y.live /\ y.language = rt[r].language
      /\ y.options = rt[r].options /\ y.tags \in {NoKey, y.tag_key}
      /\ y.verb_stem_index \in {"none", y.language}
      /\ y.error = k.fault /\ rt' = [rt EXCEPT ![r] = y]
  <2>1. /\ y \in RuntimeRecord /\ y.live = z.live /\ y.language = z.language
        /\ y.options = z.options /\ y.tags = z.tags /\ y.tag_key = z.tag_key
        /\ y.error = FirstFault(z.error, e)
        /\ y.verb_stem_index = z.verb_stem_index
    BY <1>4, FirstErrorRule
  <2>2. rt' = [rt EXCEPT ![r] = y]
    BY <1>2 DEF y
  <2> HIDE DEF y
  <2> QED
    BY <1>3, <1>4, <1>6, <2>1, <2>2
<1> HIDE DEF y
<1> QED
  BY <1>1, <1>2, <1>3, <1>5, <1>6, <1>7, EngineFrame

(* dictionary_context keeps a table only with the key it was loaded under.  *)
LEMMA DictionaryRule ==
  ASSUME NEW x \in RuntimeRecord, x.tags \in {NoKey, x.tag_key}
  PROVE  LET y == DictionaryContext(x) IN
         /\ y \in RuntimeRecord /\ y.live = x.live /\ y.language = x.language
         /\ y.options = x.options /\ y.error = x.error
         /\ y.tag_key = DictionaryKey(x) /\ y.tags \in {NoKey, DictionaryKey(x)}
         /\ y.verb_stem_index = x.verb_stem_index
<1>1. InitialOptions \in Options
  BY FreshRecords
<1>2. DictionaryContext(x) \in RuntimeRecord
  BY <1>1, RecordOps DEF Errors
<1> QED
  BY <1>2 DEF DictionaryContext, RuntimeRecord

LEMMA NominalLookupStep ==
  ASSUME IInv, NEW t \in Threads, NominalLookup(t)
  PROVE  IInv'
<1> DEFINE r == call[t].target
           x == DictionaryContext(rt[r])
           key == DictionaryKey(rt[r])
<1>1. InEngine(t)
  BY DEF NominalLookup, InEngine
<1>2. /\ x \in RuntimeRecord /\ x.live /\ x.language = rt[r].language
      /\ x.options = rt[r].options /\ x.error = rt[r].error
      /\ x.tag_key = key /\ x.tags \in {NoKey, key} /\ key \in Keys
      /\ x.verb_stem_index \in {"none", x.language}
      /\ key = [language |-> rt[r].language, hq |-> call[t].options.hq]
  <2>1. InitialOptions \in Options /\ rt[r] \in RuntimeRecord
    BY <1>1, InsideCall, FreshRecords
  <2>2. key \in Keys
    BY <2>1, RecordOps DEF Errors
  <2> QED
    BY <1>1, <2>1, <2>2, InsideCall, DictionaryRule DEF DictionaryKey
<1>3. answer' = NoAnswer /\ UNCHANGED <<active, files, host>>
  BY DEF NominalLookup
<1>4. PICK y \in {x, [x EXCEPT !.tags = key], Recorded(x, "NO_MEMORY")},
           f \in {call[t].fault, FirstFault(call[t].fault, "NO_MEMORY")},
           m \in {TRUE, call[t].missed}, d \in {NoKey, key} :
        /\ rt' = [rt EXCEPT ![r] = y]
        /\ call' = [call EXCEPT ![t] = [call[t] EXCEPT !.fault = f, !.missed = m,
                                                       !.served = d]]
        /\ \/ y = Recorded(x, "NO_MEMORY") /\ f = FirstFault(call[t].fault, "NO_MEMORY")
           \/ y \in {x, [x EXCEPT !.tags = key]} /\ f = call[t].fault
  <2>1. /\ Current(t) = r /\ call[t] \in CallRecord
        /\ call \in [Threads -> CallRecord]
    BY <1>1, InsideCall
  <2>2. \A d \in {NoKey, key} :
          [call EXCEPT ![t].served = d] =
          [call EXCEPT ![t] = [call[t] EXCEPT !.fault = call[t].fault,
                                 !.missed = call[t].missed, !.served = d]]
    BY <2>1 DEF CallRecord
  <2>3. [call EXCEPT ![t].fault = FirstFault(@, "NO_MEMORY"), ![t].served = NoKey] =
        [call EXCEPT ![t] = [call[t] EXCEPT
           !.fault = FirstFault(call[t].fault, "NO_MEMORY"),
           !.missed = call[t].missed, !.served = NoKey]]
    BY <2>1 DEF CallRecord
  <2>4. [call EXCEPT ![t].missed = TRUE, ![t].served = NoKey] =
        [call EXCEPT ![t] = [call[t] EXCEPT !.fault = call[t].fault,
                               !.missed = TRUE, !.served = NoKey]]
    BY <2>1 DEF CallRecord
  <2> HIDE DEF x, key
  <2>5. \/ /\ x.tags # NoKey /\ rt' = [rt EXCEPT ![r] = x]
           /\ call' = [call EXCEPT ![t].served = x.tags]
        \/ /\ rt' = [rt EXCEPT ![r] = [x EXCEPT !.tags = key]]
           /\ call' = [call EXCEPT ![t].served = key]
        \/ /\ rt' = [rt EXCEPT ![r] = Recorded(x, "NO_MEMORY")]
           /\ call' = [call EXCEPT ![t].fault = FirstFault(@, "NO_MEMORY"),
                                   ![t].served = NoKey]
        \/ /\ rt' = [rt EXCEPT ![r] = x]
           /\ call' = [call EXCEPT ![t].missed = TRUE, ![t].served = NoKey]
    BY <2>1 DEF NominalLookup, x, key
  <2> QED
    BY <1>2, <2>2, <2>3, <2>4, <2>5
<1> DEFINE k == [call[t] EXCEPT !.fault = f, !.missed = m, !.served = d]
<1>5. /\ k \in CallRecord /\ k.step = call[t].step /\ k.previous = call[t].previous
      /\ k.api = call[t].api /\ k.context = call[t].context
      /\ k.target = call[t].target /\ k.options = call[t].options
      /\ k.saved = call[t].saved /\ k.served = d /\ k.fault = f
  <2>1. call[t] \in CallRecord /\ f \in Errors /\ d \in Keys \cup {NoKey}
    BY <1>1, <1>2, <1>4, InsideCall DEF CallRecord, Errors, FirstFault
  <2>2. m \in BOOLEAN
    BY <2>1, <1>4 DEF CallRecord
  <2> QED
    BY <2>1, <2>2 DEF CallRecord
<1> HIDE DEF x, key
<1>6. /\ y \in RuntimeRecord /\ y.live /\ y.language = rt[r].language
      /\ y.options = rt[r].options /\ y.tags \in {NoKey, y.tag_key} /\ y.error = f
      /\ y.verb_stem_index \in {"none", y.language}
  <2>1. CASE y = x /\ f = call[t].fault
    BY <1>1, <1>2, <2>1, InsideCall
  <2>2. CASE y = [x EXCEPT !.tags = key] /\ f = call[t].fault
    BY <1>1, <1>2, <2>2, InsideCall DEF RuntimeRecord
  <2>3. CASE y = Recorded(x, "NO_MEMORY") /\ f = FirstFault(call[t].fault, "NO_MEMORY")
    BY <1>1, <1>2, <2>3, InsideCall, FirstErrorRule
  <2> QED
    BY <1>4, <2>1, <2>2, <2>3
<1> HIDE DEF k
<1>7. call' = [call EXCEPT ![t] = k]
  BY <1>4 DEF k
<1>8. call[t].step \in {"engine", "print", "finish"}
  BY <1>1 DEF InEngine
<1>9. /\ y.language = rt[r].language /\ y.options = rt[r].options
      /\ k.step \in {"engine", "print", "finish"}
      /\ k.served \in {NoKey, [language |-> y.language, hq |-> k.options.hq]}
      /\ k.fault = y.error /\ rt' = [rt EXCEPT ![r] = y]
  BY <1>2, <1>4, <1>5, <1>6, <1>8
<1>10. /\ y \in RuntimeRecord /\ y.live /\ y.tags \in {NoKey, y.tag_key}
       /\ y.verb_stem_index \in {"none", y.language}
  BY <1>6
<1> QED
  BY <1>1, <1>3, <1>5, <1>7, <1>9, <1>10, EngineFrame

(* chckvstem loads the verb index of the context's own language.            *)
LEMMA VerbLookupStep ==
  ASSUME IInv, NEW t \in Threads, VerbLookup(t)
  PROVE  IInv'
<1> DEFINE r == call[t].target
           x == DictionaryContext(rt[r])
           loaded == [x EXCEPT !.verb_stem_index = x.language]
<1>1. InEngine(t)
  BY DEF VerbLookup, InEngine
<1>2. /\ x \in RuntimeRecord /\ x.live /\ x.language = rt[r].language
      /\ x.options = rt[r].options /\ x.error = rt[r].error
      /\ x.tags \in {NoKey, x.tag_key}
      /\ x.verb_stem_index \in {"none", x.language}
  BY <1>1, InsideCall, DictionaryRule
<1> HIDE DEF x
<1>3. /\ loaded \in RuntimeRecord /\ loaded.live /\ loaded.language = x.language
      /\ loaded.options = x.options /\ loaded.error = x.error
      /\ loaded.tags = x.tags /\ loaded.tag_key = x.tag_key
      /\ loaded.verb_stem_index = x.language
  BY <1>2 DEF RuntimeRecord
<1> HIDE DEF loaded
<1>4. answer' = NoAnswer /\ UNCHANGED <<active, files, host>>
  BY DEF VerbLookup
<1>5. \/ /\ \/ rt' = [rt EXCEPT ![r] = x]
            \/ rt' = [rt EXCEPT ![r] = loaded]
         /\ call' = call
      \/ \E e \in {"NO_MEMORY", "INTERNAL"} :
            /\ rt' = [rt EXCEPT ![r] = Recorded(x, e)]
            /\ call' = [call EXCEPT ![t] = [call[t] EXCEPT !.fault = FirstFault(@, e)]]
  BY <1>1, InsideCall, FaultsAssumption DEF VerbLookup, x, loaded
<1>6. /\ r \in Runtime /\ call[t] \in CallRecord /\ rt[r].error = call[t].fault
      /\ call \in [Threads -> CallRecord]
      /\ call[t].served \in {NoKey, [language |-> rt[r].language,
                                     hq |-> call[t].options.hq]}
      /\ call[t].step \in {"engine", "print", "finish"}
  BY <1>1, InsideCall DEF InEngine
<1>7. ASSUME NEW y \in {x, loaded}, rt' = [rt EXCEPT ![r] = y], call' = call
      PROVE  IInv'
  <2>1. call' = [call EXCEPT ![t] = call[t]]
    BY <1>6, <1>7
  <2>2. /\ y \in RuntimeRecord /\ y.live /\ y.language = rt[r].language
        /\ y.options = rt[r].options /\ y.error = call[t].fault
        /\ y.tags \in {NoKey, y.tag_key}
        /\ y.verb_stem_index \in {"none", y.language}
    BY <1>2, <1>3, <1>6, <1>7
  <2>3. call[t].served \in {NoKey, [language |-> y.language,
                                    hq |-> call[t].options.hq]}
    BY <1>6, <2>2
  <2> QED
    BY <1>1, <1>4, <1>6, <1>7, <2>1, <2>2, <2>3, EngineFrame
<1>8. ASSUME NEW e \in {"NO_MEMORY", "INTERNAL"},
             rt' = [rt EXCEPT ![r] = Recorded(x, e)],
             call' = [call EXCEPT ![t] = [call[t] EXCEPT !.fault = FirstFault(@, e)]]
      PROVE  IInv'
  <2> DEFINE k == [call[t] EXCEPT !.fault = FirstFault(@, e)]
             y == Recorded(x, e)
  <2>1. /\ k \in CallRecord /\ k.step = call[t].step /\ k.previous = call[t].previous
        /\ k.api = call[t].api /\ k.context = call[t].context
        /\ k.target = call[t].target /\ k.options = call[t].options
        /\ k.saved = call[t].saved /\ k.served = call[t].served
        /\ k.fault = FirstFault(call[t].fault, e)
    BY <1>6 DEF CallRecord, Errors, FirstFault
  <2>2. /\ y \in RuntimeRecord /\ y.live /\ y.language = rt[r].language
        /\ y.options = rt[r].options /\ y.tags \in {NoKey, y.tag_key}
        /\ y.verb_stem_index \in {"none", y.language}
        /\ y.error = FirstFault(call[t].fault, e)
    BY <1>2, <1>6, FirstErrorRule
  <2>3. call' = [call EXCEPT ![t] = k] /\ rt' = [rt EXCEPT ![r] = y]
    BY <1>8
  <2> HIDE DEF k, y
  <2>4. /\ k.step \in {"engine", "print", "finish"} /\ k.fault = y.error
        /\ k.served \in {NoKey, [language |-> y.language, hq |-> k.options.hq]}
    BY <1>6, <2>1, <2>2
  <2> QED
    BY <1>1, <1>4, <2>1, <2>2, <2>3, <2>4, EngineFrame
<1> QED
  BY <1>5, <1>7, <1>8

LEMMA EngineReturnStep ==
  ASSUME IInv, NEW t \in Threads, EngineReturn(t) \/ PrintReturn(t)
  PROVE  IInv'
<1> DEFINE r == call[t].target
<1>1. InEngine(t)
  BY DEF EngineReturn, PrintReturn, InEngine
<1>2. PICK w \in BOOLEAN, p \in {"print", "finish"} :
        call' = [call EXCEPT ![t] = [call[t] EXCEPT !.word = w, !.step = p]]
  <2>1. call[t] \in CallRecord /\ call \in [Threads -> CallRecord]
    BY <1>1, InsideCall
  <2>2. \A w \in BOOLEAN, p \in {"print", "finish"} :
          [call EXCEPT ![t].word = w, ![t].step = p] =
          [call EXCEPT ![t] = [call[t] EXCEPT !.word = w, !.step = p]]
    BY <2>1 DEF CallRecord
  <2>3. [call EXCEPT ![t].step = "finish"] =
        [call EXCEPT ![t] = [call[t] EXCEPT !.word = call[t].word, !.step = "finish"]]
    BY <2>1 DEF CallRecord
  <2>4. call[t].word \in BOOLEAN
    BY <2>1 DEF CallRecord
  <2>5. CASE EngineReturn(t)
    BY <2>2, <2>5 DEF EngineReturn
  <2>6. CASE PrintReturn(t)
    BY <2>3, <2>4, <2>6 DEF PrintReturn
  <2> QED
    BY <2>5, <2>6
<1>3. UNCHANGED <<rt, active, files, host>> /\ answer' = NoAnswer
  BY DEF EngineReturn, PrintReturn
<1> DEFINE k == [call[t] EXCEPT !.word = w, !.step = p]
<1>4. /\ k \in CallRecord /\ k.step = p /\ k.previous = call[t].previous
      /\ k.api = call[t].api /\ k.context = call[t].context
      /\ k.target = call[t].target /\ k.options = call[t].options
      /\ k.saved = call[t].saved /\ k.served = call[t].served /\ k.fault = call[t].fault
  <2>1. call[t] \in CallRecord /\ w \in BOOLEAN /\ p \in Steps
    BY <1>1, <1>2, InsideCall DEF Steps
  <2> QED
    BY <2>1 DEF CallRecord
<1> HIDE DEF k
<1>5. call' = [call EXCEPT ![t] = k] /\ rt' = [rt EXCEPT ![r] = rt[r]]
  BY <1>1, <1>2, <1>3, InsideCall DEF k
<1>6. /\ r \in Runtime /\ rt[r] \in RuntimeRecord /\ rt[r].live
      /\ rt[r].options = call[t].options /\ rt[r].error = call[t].fault
      /\ rt[r].tags \in {NoKey, rt[r].tag_key}
      /\ rt[r].verb_stem_index \in {"none", rt[r].language}
      /\ call[t].served \in {NoKey, [language |-> rt[r].language,
                                     hq |-> call[t].options.hq]}
      /\ call[t].step \in {"engine", "print", "finish"}
  BY <1>1, InsideCall DEF InEngine
<1>7. /\ k.step \in {"engine", "print", "finish"}
      /\ k.served \in {NoKey, [language |-> rt[r].language, hq |-> k.options.hq]}
      /\ k.fault = rt[r].error
  BY <1>4, <1>6
<1> DEFINE y == rt[r]
<1>8. /\ y \in RuntimeRecord /\ y.live /\ y.language = rt[r].language
      /\ y.options = rt[r].options /\ y.tags \in {NoKey, y.tag_key}
      /\ y.verb_stem_index \in {"none", y.language}
      /\ y.error = k.fault /\ rt' = [rt EXCEPT ![r] = y]
      /\ k.served \in {NoKey, [language |-> y.language, hq |-> k.options.hq]}
  BY <1>5, <1>6, <1>7
<1> HIDE DEF y
<1> QED
  BY <1>1, <1>3, <1>4, <1>5, <1>7, <1>8, EngineFrame

(* The ends of the three calls.                                             *)
LEMMA FinishStep ==
  ASSUME IInv, NEW t \in Threads,
         FinishAnalyze(t) \/ FinishCompat(t) \/ FinishGenerate(t)
  PROVE  IInv'
<1> DEFINE r == call[t].target
           st == RuntimeStatus(rt[r].error)
<1>1. InEngine(t) /\ call[t].step = "finish"
  BY DEF FinishAnalyze, FinishCompat, FinishGenerate, InEngine
<1>2. /\ rt[r].error = call[t].fault /\ call[t].fault \in Errors
      /\ rt[r].options = call[t].options /\ call[t].saved = InitialOptions
      /\ rt \in [Runtime -> RuntimeRecord] /\ r \in Runtime
  BY <1>1, InsideCall DEF CallRecord
<1>3. /\ rt' = [rt EXCEPT ![r] = Restored(@, InitialOptions)]
      /\ UNCHANGED <<files, host>>
  <2>1. CASE FinishAnalyze(t)
    BY <1>2, <2>1 DEF FinishAnalyze
  <2>2. CASE FinishCompat(t) \/ FinishGenerate(t)
    <3>1. call[t].api # "analyze" /\ UNCHANGED <<rt, files, host>>
      BY <2>2 DEF FinishCompat, FinishGenerate
    <3>2. rt[r].options = InitialOptions
      BY <1>1, <3>1, InsideCall
    <3>3. Restored(rt[r], InitialOptions) = rt[r]
      BY <1>2, <3>2 DEF Restored, RuntimeRecord
    <3> QED
      BY <1>2, <3>1, <3>3
  <2> QED
    BY <2>1, <2>2
<1>4. PICK s \in Statuses, f \in Errors :
        /\ Leave(t, s, f)
        /\ \/ st # "OK" /\ s = st /\ f = "NONE"
           \/ st = "OK" /\ f = "NONE" /\ s \notin {"NO_MEMORY", "INTERNAL_ERROR"}
           \/ st = "OK" /\ f = "NO_MEMORY" /\ s = "NO_MEMORY"
           \/ st = "OK" /\ f = "INTERNAL" /\ s = "INTERNAL_ERROR"
  <2>1. st \in Statuses
    BY <1>2 DEF RuntimeStatus, Statuses, Errors
  <2>2. /\ "OK" \in Statuses /\ "INVALID_ARGUMENT" \in Statuses
        /\ "NO_MEMORY" \in Statuses /\ "INTERNAL_ERROR" \in Statuses
        /\ "RESULT_LIMIT_EXCEEDED" \in Statuses
        /\ "NONE" \in Errors /\ "NO_MEMORY" \in Errors /\ "INTERNAL" \in Errors
    BY DEF Statuses, Errors
  <2> HIDE DEF st
  <2>3. CASE FinishAnalyze(t)
    BY <2>1, <2>2, <2>3 DEF FinishAnalyze, st
  <2>4. CASE FinishCompat(t)
    BY <2>1, <2>2, <2>4 DEF FinishCompat, st
  <2>5. CASE FinishGenerate(t)
    BY <2>1, <2>2, <2>5 DEF FinishGenerate, st
  <2> QED
    BY <2>3, <2>4, <2>5
<1>5. st = IF call[t].fault = "NO_MEMORY" THEN "NO_MEMORY"
           ELSE IF call[t].fault = "INTERNAL" THEN "INTERNAL_ERROR" ELSE "OK"
  BY <1>2 DEF RuntimeStatus, Errors
<1>6. LET g == FirstFault(call[t].fault, f)
      IN  IF g = "NONE" THEN s \notin {"NO_MEMORY", "INTERNAL_ERROR"}
          ELSE s = IF g = "NO_MEMORY" THEN "NO_MEMORY" ELSE "INTERNAL_ERROR"
  BY <1>2, <1>4, <1>5 DEF FirstFault, Errors
<1> QED
  BY <1>1, <1>3, <1>4, <1>6, LeaveFrame

(* No step of the process breaks the invariant.                             *)
LEMMA NextIInv == IInv /\ [Next]_vars => IInv'
<1> SUFFICES ASSUME IInv, [Next]_vars PROVE IInv'
  OBVIOUS
<1>1. CASE UNCHANGED vars
  <2>1. answer' \in Answers /\ files' \in Files /\ StatusFaithful'
    BY <1>1 DEF vars, IInv, TypeOK, StatusFaithful
  <2> QED
    BY <1>1, <2>1, QuietFrame DEF vars
<1>2. CASE Redeploy
  <2>1. answer' \in Answers /\ files' \in Files /\ StatusFaithful'
    BY <1>2, DeploymentsAssumption
    DEF Redeploy, NoAnswer, Answer, Answers, Statuses, Errors, StatusFaithful
  <2> QED
    BY <1>2, <2>1, QuietFrame DEF Redeploy
<1>3. ASSUME NEW t \in Threads, Step(t) PROVE IInv'
  <2>1. ASSUME NEW c \in Contexts, Open(t, c) \/ Close(t, c) PROVE IInv'
    BY <2>1, OpenStep, CloseStep
  <2>2. ASSUME NEW c \in Contexts, EnterAnalyze(t, c) \/ EnterCompat(t, c)
                                   \/ EnterGenerate(t, c)
        PROVE  IInv'
    BY <2>2, EnterAnalyzeStep, EnterCompatStep, EnterGenerateStep
  <2>3. CASE HostActivate(t) \/ Activate(t) \/ Prepare(t)
    BY <2>3, HostActivateStep, ActivateStep, PrepareStep
  <2>4. CASE EngineFault(t) \/ AddAnalysisFault(t) \/ NominalLookup(t)
             \/ VerbLookup(t) \/ EngineReturn(t) \/ PrintReturn(t)
    BY <2>4, EngineFaultStep, AddAnalysisFaultStep, NominalLookupStep,
       VerbLookupStep, EngineReturnStep
  <2>5. CASE FinishAnalyze(t) \/ FinishCompat(t) \/ FinishGenerate(t)
    BY <2>5, FinishStep
  <2> QED
    BY <1>3, <2>1, <2>2, <2>3, <2>4, <2>5 DEF Step
<1> QED
  BY <1>1, <1>2, <1>3 DEF Next

----------------------------------------------------------------------------
(* Theorems.                                                               *)

(* The inductive invariant holds throughout.                                *)
THEOREM Invariance == Spec => []IInv
  BY InitIInv, NextIInv, PTL DEF Spec

(* Every variable keeps its type.                                           *)
THEOREM TypeCorrect == Spec => []TypeOK
<1>1. IInv => TypeOK
  BY DEF IInv
<1> QED
  BY <1>1, Invariance, PTL

(* The engine of a call finds the call's own live context, and no other     *)
(* thread's engine finds the same one, however many threads and contexts    *)
(* there are (setlang.c, activate and current).                             *)
THEOREM Isolation == Spec => []EngineIsolated
<1>1. IInv => EngineIsolated
  <2> SUFFICES ASSUME IInv, NEW t \in Threads, Running(t)
               PROVE  /\ Current(t) = call[t].target
                      /\ rt[Current(t)].live
                      /\ \A u \in Threads \ {t} : Current(u) # Current(t)
    BY DEF EngineIsolated
  <2>1. ~Idle(t)
    BY DEF Running, Idle
  <2>2. Current(t) = call[t].target /\ rt[Current(t)].live
    BY <2>1, Kinds DEF IInv, Activation, CallShape, AllLive, Current
  <2>3. ASSUME NEW u \in Threads \ {t} PROVE Current(u) # Current(t)
    <3>1. CASE Running(u)
      <4>1. ~Idle(u)
        BY <3>1 DEF Running, Idle
      <4>2. Current(u) = call[u].target
        BY <3>1, <4>1, Kinds DEF IInv, Activation, CallShape, Current
      <4> QED
        BY <2>1, <2>2, <4>1, <4>2, Kinds DEF IInv, Exclusive, CallShape
    <3>2. CASE ~Running(u)
      <4>1. Current(u) = HostCurrent(u)
        BY <3>2 DEF IInv, Activation
      <4>2. HostCurrent(u) = Default(u) \/ \E c \in Contexts : HostCurrent(u) = Public(c)
        BY DEF IInv, Activation, HostContexts, HostCurrent
      <4>3. host[u] # Public(call[t].context)
        BY <2>1 DEF IInv, Exclusive
      <4>4. HostCurrent(u) # Public(call[t].context)
        BY <2>1, <4>3, Kinds DEF HostCurrent, IInv, CallShape
      <4> QED
        BY <2>1, <2>2, <4>1, <4>2, <4>4, Kinds DEF IInv, CallShape
    <3> QED
      BY <3>1, <3>2
  <2> QED
    BY <2>2, <2>3
<1> QED
  BY <1>1, Invariance, PTL

(* The options of a request are seen by its own call and by no other        *)
(* (analyze.c, apply_request_options and restore_request_state).            *)
THEOREM Scoping == Spec => []OptionsScoped
<1>1. IInv => OptionsScoped
  BY DEF IInv, OptionsOwned, OptionsScoped, InEngine, Running
<1> QED
  BY <1>1, Invariance, PTL

(* Between calls a thread has the context its host activated.               *)
THEOREM HostRestored == Spec => []HostContextKept
<1>1. IInv => HostContextKept
  BY DEF IInv, Activation, HostContextKept, HostCurrent, Idle, Running
<1> QED
  BY <1>1, Invariance, PTL

(* A call's status names the first failure the call itself met.             *)
THEOREM Faithfulness == Spec => []StatusFaithful
<1>1. IInv => StatusFaithful
  BY DEF IInv
<1> QED
  BY <1>1, Invariance, PTL

(* Dictionary answers on nominals and indeclinables come from the table the *)
(* request asked for, and verbs are found in an index of the context's own  *)
(* language (dictio.c, dictionary_context; endindex.c, chckvstem).          *)
THEOREM DictionaryRight == Spec => []DictionaryMatchesRequest
<1>1. IInv => DictionaryMatchesRequest
  BY DEF IInv, TablesKeyed, DictionaryMatchesRequest, Idle
<1> QED
  BY <1>1, Invariance, PTL

(* No thread can reach a destroyed context.                                 *)
THEOREM NoDangling == Spec => []NothingDangles
<1>1. IInv => NothingDangles
  <2> SUFFICES ASSUME IInv, NEW t \in Threads PROVE rt[Current(t)].live
    BY DEF IInv, AllLive, NothingDangles
  <2>1. CASE Running(t)
    <3>1. ~Idle(t)
      BY <2>1 DEF Running, Idle
    <3> QED
      BY <2>1, <3>1, Kinds DEF IInv, Activation, CallShape, AllLive, Current
  <2>2. CASE ~Running(t)
    BY <2>2 DEF IInv, Activation, AllLive, HostCurrent
  <2> QED
    BY <2>1, <2>2
<1> QED
  BY <1>1, Invariance, PTL
=============================================================================
