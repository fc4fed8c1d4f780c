---------------------------- MODULE ZEngine_proofs ----------------------------
(***************************************************************************)
(* For any number of engine threads, timer ids and script activity, and     *)
(* whatever the unlocked vector of contexts hands out: no callback enters a *)
(* script that is gone, the deleted main context is used only by threads    *)
(* created after OnDestroy's clear(), a dead loop is met only during        *)
(* OnDestroy, and TimerManager's map agrees with the loop.                  *)
(***************************************************************************)
EXTENDS ZEngine, SequenceTheorems, WellFoundedInduction, TLAPS

ThreadStates == {"none", "starting", "failed", "adding", "running", "cleaning",
                 "removing", "closing", "ended"}
TimerTasks == [id : TimerIds, set : 1 .. MaxPending + 1, timer_ : BOOLEAN]

MainStates == {"creating", "running", "stopping", "clearing", "destroying",
               "removing", "deleted"}
Faults == {"none", "registry", "threads", "loop", "context", "script"}

\* The iterator is ahead of threads in OnDestroy's loop only.
Types ==
    /\ TypeOK
    /\ scheduled \in [Contexts -> SUBSET TimerTasks]
    /\ main # "stopping" => ahead = {}

\* Where a thread is decides what its script is; a loop without a script runs
\* only in a thread whose ZEngineThread is destructed, ...
ThreadScript ==
    \A t \in Threads :
        /\ thread[t] \in {"none", "starting", "failed"} => script[t] = "null"
        /\ thread[t] = "adding" => script[t] = "idle"
        /\ thread[t] = "running" =>
              script[t] \in {"idle", "busy"} \/ (script[t] = "null" /\ Destructed(t))
        /\ thread[t] = "cleaning" => script[t] = "busy"
        /\ thread[t] = "removing" => script[t] = "idle"
        /\ thread[t] \in {"closing", "ended"} => script[t] # "busy"

\* ... where Root::Run is, the main context's.
MainScript ==
    /\ main \in {"creating", "destroying"} => script[Main] = "busy"
    /\ main = "running" => script[Main] \in {"idle", "busy"}
    /\ main \in {"stopping", "clearing", "removing"} => script[Main] = "idle"
    /\ main = "deleted" => script[Main] = "destroyed"

\* Only a running script is about to post.
HeldByBusy == \A c \in Contexts : held[c] # None => script[c] = "busy"

\* A thread that may still run is in the map.
InTheMap == \A t \in Threads : Alive(t) => t \in zengine_threads_

\* No thread is told to quit before OnDestroy, so none ends before it.
NotYetStopped ==
    main \in {"creating", "running"} =>
        \A t \in Threads :
            /\ ~quit[t]
            /\ \A k \in 1 .. Len(queue[t]) : queue[t][k] # QuitTask
            /\ thread[t] \in {"none", "starting", "failed", "adding", "running"}

\* Whatever the races leave in the vector, in a copy of it or in a lookup's
\* result is a context that was made; only those are posted to.
Made(sc, x) == x \in Threads => sc[x] # "null"
OnlyMadeContexts ==
    /\ \A k \in 1 .. Len(contexts_) : Made(script, contexts_[k])
    /\ \A t \in Threads : \A k \in 1 .. Len(copy[t]) : Made(script, copy[t][k])
    /\ \A c \in Contexts : Made(script, held[c])
OnlyMadePosted ==
    \A t \in Threads : script[t] = "null" =>
        \A k \in 1 .. Len(queue[t]) : queue[t][k] # Data

\* A context not made or destroyed has no timers.
NoTimersLeft ==
    \A c \in Contexts : script[c] \in {"null", "destroyed"} => timers_[c] = {}

IInv ==
    /\ Types
    /\ ThreadScript
    /\ MainScript
    /\ HeldByBusy
    /\ InTheMap
    /\ NotYetStopped
    /\ OnlyMadeContexts
    /\ OnlyMadePosted
    /\ NoTimersLeft
    /\ ContextsOutliveTheirUse
    /\ TimersConsistent

-----------------------------------------------------------------------------
(* The vector.                                                              *)

\* A set of numbers that is not empty has a least element.
LEMMA Least ==
    ASSUME NEW T, T \subseteq Nat, T # {}
    PROVE  \E x \in T : \A y \in T : x <= y
<1>1. PICK x \in T : \A y \in T : ~(<<y, x>> \in OpToRel(<, Nat))
  BY NatLessThanWellFounded, WFMin
<1>2. ASSUME NEW y \in T PROVE x <= y
  <2>1. x \in Nat /\ y \in Nat  BY <1>1
  <2>2. ~(y < x)  BY <1>1, <2>1 DEF OpToRel
  <2> QED  BY <2>1, <2>2
<1> QED  BY <1>1, <1>2

\* A search returns 0 or an index where the element is.
LEMMA FindIndex ==
    ASSUME NEW B, NEW s \in Seq(B), NEW x, Find(s, x) # 0
    PROVE  Find(s, x) \in 1 .. Len(s) /\ s[Find(s, x)] = x
<1>1. DOMAIN s = 1 .. Len(s) /\ Len(s) \in Nat  BY LenProperties
<1>2. \E k \in DOMAIN s : s[k] = x  BY DEF Find
<1>3. PICK k \in {j \in DOMAIN s : s[j] = x} :
             \A j \in {j \in DOMAIN s : s[j] = x} : k <= j
  <2>1. PICK T : T = {j \in DOMAIN s : s[j] = x}  OBVIOUS
  <2>2. T \subseteq Nat /\ T # {}  BY <1>1, <1>2, <2>1
  <2>3. \E k \in T : \A j \in T : k <= j  BY <2>2, Least
  <2> QED  BY <2>1, <2>3
<1>4. k \in DOMAIN s /\ s[k] = x /\ \A j \in 1 .. k - 1 : s[j] # x
  <2>1. k \in 1 .. Len(s) /\ s[k] = x  BY <1>1, <1>3
  <2>2. ASSUME NEW j \in 1 .. k - 1, s[j] = x PROVE FALSE
    <3>1. j \in DOMAIN s /\ ~(k <= j)  BY <1>1, <2>1
    <3> QED  BY <1>3, <2>2, <3>1
  <2> QED  BY <1>1, <2>1, <2>2
<1>5. Find(s, x) \in DOMAIN s /\ s[Find(s, x)] = x
  BY <1>2, <1>4 DEF Find
<1> QED  BY <1>1, <1>5

\* An erase leaves elements that were there.
LEMMA RemoveElements ==
    ASSUME NEW B, NEW s \in Seq(B), NEW n \in 1 .. Len(s)
    PROVE  /\ RemoveAt(s, n) \in Seq(B)
           /\ \A k \in 1 .. Len(RemoveAt(s, n)) :
                 \E j \in 1 .. Len(s) : RemoveAt(s, n)[k] = s[j]
<1> DEFINE C == {s[j] : j \in 1 .. Len(s)}
<1>1. \A j \in 1 .. Len(s) : s[j] \in B /\ s[j] \in C  BY ElementOfSeq
<1>2. C \subseteq B  BY <1>1
<1>3. Len(s) \in Nat  BY LenProperties
<1>4. 1 \in Int /\ n - 1 \in Int /\ n + 1 \in Int /\ Len(s) \in Int  BY <1>3
<1>5. /\ \A j \in 1 .. n - 1 : s[j] \in C
      /\ \A j \in n + 1 .. Len(s) : s[j] \in C
  BY <1>1, <1>3
<1> HIDE DEF C
<1>6. SubSeq(s, 1, n - 1) \in Seq(C) /\ SubSeq(s, n + 1, Len(s)) \in Seq(C)
  BY <1>4, <1>5, SubSeqProperties
<1>7. RemoveAt(s, n) \in Seq(C)  BY <1>6, ConcatProperties DEF RemoveAt
<1>8. \A k \in 1 .. Len(RemoveAt(s, n)) : RemoveAt(s, n)[k] \in C
  BY <1>7, ElementOfSeq
<1>9. RemoveAt(s, n) \in Seq(B)
  <2>1. PICK r : r = RemoveAt(s, n)  OBVIOUS
  <2>2. r \in Seq(C)  BY <1>7, <2>1
  <2>3. r \in Seq(B)  BY <1>2, <2>2
  <2> QED  BY <2>1, <2>3
<1> QED  BY <1>8, <1>9 DEF C

\* A push_back leaves elements of the two vectors, the new one, and, in the
\* race, an undefined one.
LEMMA PushBackElements ==
    ASSUME NEW B, NEW old \in Seq(B), NEW now \in Seq(B), NEW t \in B,
           Undefined \in B, NEW new \in PushBack(old, now, t)
    PROVE  /\ new \in Seq(B)
           /\ \A k \in 1 .. Len(new) :
                 \/ new[k] \in {t, Undefined}
                 \/ \E j \in 1 .. Len(old) : new[k] = old[j]
                 \/ \E j \in 1 .. Len(now) : new[k] = now[j]
<1>1. CASE new = Append(old, t)
  BY <1>1
<1>2. CASE new = Append(now, t)
  BY <1>2
<1>3. CASE new = old \o <<t, Undefined>>
  <2>1. <<t, Undefined>> \in Seq(B) /\ Len(<<t, Undefined>>) = 2  OBVIOUS
  <2>2. /\ new \in Seq(B) /\ Len(new) = Len(old) + 2
        /\ \A k \in 1 .. Len(old) + 2 :
              new[k] = IF k <= Len(old) THEN old[k]
                       ELSE <<t, Undefined>>[k - Len(old)]
    BY <1>3, <2>1, ConcatProperties
  <2>3. Len(old) \in Nat  BY LenProperties
  <2>4. \A k \in 1 .. Len(old) + 2 : k \in 1 .. Len(old) \/ k - Len(old) \in {1, 2}
    BY <2>3
  <2> QED  BY <2>2, <2>3, <2>4
<1> QED  BY <1>1, <1>2, <1>3 DEF PushBack

-----------------------------------------------------------------------------
(* Types.                                                                   *)

\* A callback leaves the script and the fault within their types.
LEMMA EnterTypes ==
    ASSUME Types, NEW c \in Contexts, EnterScript(c)
    PROVE  /\ script' \in [Contexts -> {"null", "idle", "busy", "destroyed"}]
           /\ fault' \in Faults
  BY DEF EnterScript, Types, TypeOK, Faults

\* An abandoned task is a task.
LEMMA AbandonTypes ==
    ASSUME NEW ps \in SUBSET TimerTasks, NEW ids
    PROVE  Abandon(ps, ids) \in SUBSET TimerTasks
  BY DEF Abandon, TimerTasks

\* The steps of an engine thread.
LEMMA ThreadTypes ==
    ASSUME Types, NEW t \in Threads,
           \/ \E c \in Contexts : CreateZEngineThread(c, t)
           \/ CreateContext(t) \/ AddContext(t) \/ EndRun(t) \/ CleanUp(t)
           \/ RemoveContext(t) \/ DestroyLoop(t)
    PROVE  Types'
<1> USE DEF Types, TypeOK, root, threads, registry, timing
<1>0. t \in Contexts  BY DEF Contexts
<1>1. CASE \E c \in Contexts : CreateZEngineThread(c, t)
  <2>0. PICK c \in Contexts : CreateZEngineThread(c, t)  BY <1>1
  <2>1. thread' \in [Threads -> ThreadStates]
    BY <2>0 DEF CreateZEngineThread, ThreadStates
  <2>2. /\ zengine_threads_' \subseteq Threads /\ ahead' \subseteq zengine_threads_'
        /\ main # "stopping" => ahead' = {}
    BY <2>0 DEF CreateZEngineThread
  <2>3. fault' \in Faults  BY <2>0 DEF CreateZEngineThread, Faults
  <2> QED  BY <2>0, <2>1, <2>2, <2>3 DEF CreateZEngineThread, ThreadStates, Faults
<1>2. CASE CreateContext(t)
  <2>1. thread' \in [Threads -> ThreadStates]
    BY <1>2 DEF CreateContext, ThreadStates
  <2>2. script' \in [Contexts -> {"null", "idle", "busy", "destroyed"}]
    BY <1>2 DEF CreateContext
  <2>3. copy' \in [Threads -> Seq(Contexts \cup {Undefined})]
    BY <1>2 DEF CreateContext
  <2> QED  BY <1>2, <2>1, <2>2, <2>3 DEF CreateContext, ThreadStates
<1>3. CASE AddContext(t)
  <2>1. contexts_' \in Seq(Contexts \cup {Undefined})
    <3>1. /\ copy[t] \in Seq(Contexts \cup {Undefined})
          /\ contexts_ \in Seq(Contexts \cup {Undefined})
          /\ t \in Contexts \cup {Undefined} /\ Undefined \in Contexts \cup {Undefined}
          /\ contexts_' \in PushBack(copy[t], contexts_, t)
      BY <1>0, <1>3 DEF AddContext
    <3> HIDE DEF Types, TypeOK
    <3> QED  BY <3>1, PushBackElements
  <2>2. thread' \in [Threads -> ThreadStates]
    BY <1>3 DEF AddContext, ThreadStates
  <2>3. script' \in [Contexts -> {"null", "idle", "busy", "destroyed"}]
    BY <1>3 DEF AddContext
  <2>4. copy' \in [Threads -> Seq(Contexts \cup {Undefined})]
    BY <1>3 DEF AddContext
  <2> QED  BY <1>3, <2>1, <2>2, <2>3, <2>4 DEF AddContext, ThreadStates
<1>4. CASE EndRun(t)
  <2>1. thread' \in [Threads -> ThreadStates]
    BY <1>4 DEF EndRun, ThreadStates
  <2>2. /\ script' \in [Contexts -> {"null", "idle", "busy", "destroyed"}]
        /\ fault' \in Faults
    BY <1>0, <1>4, EnterTypes DEF EndRun, Faults
  <2> QED  BY <1>4, <2>1, <2>2 DEF EndRun, ThreadStates, Faults
<1>5. CASE CleanUp(t)
  <2>1. thread' \in [Threads -> ThreadStates]
    BY <1>5 DEF CleanUp, ThreadStates
  <2>2. script' \in [Contexts -> {"null", "idle", "busy", "destroyed"}]
    BY <1>5 DEF CleanUp
  <2> QED  BY <1>5, <2>1, <2>2 DEF CleanUp, ThreadStates
<1>6. CASE RemoveContext(t)
  <2>1. CASE fault' = "registry"
             /\ UNCHANGED <<contexts_, thread, timers_, scheduled, script>>
    BY <1>6, <2>1 DEF RemoveContext, ThreadStates
  <2>2. CASE /\ contexts_' = Erase(t) /\ thread' = [thread EXCEPT ![t] = "closing"]
             /\ Destroy(t) /\ UNCHANGED fault
    <3>1. contexts_' \in Seq(Contexts \cup {Undefined})
      <4>1. contexts_ \in Seq(Contexts \cup {Undefined})  OBVIOUS
      <4>2. contexts_' = IF Find(contexts_, t) = 0 THEN contexts_
                         ELSE RemoveAt(contexts_, Find(contexts_, t))
        BY <2>2 DEF Erase
      <4> HIDE DEF Types, TypeOK
      <4>3. Find(contexts_, t) # 0 => Find(contexts_, t) \in 1 .. Len(contexts_)
        BY <4>1, FindIndex
      <4> QED  BY <4>1, <4>2, <4>3, RemoveElements
    <3>2. thread' \in [Threads -> ThreadStates]
      BY <2>2 DEF ThreadStates
    <3>3. script' \in [Contexts -> {"null", "idle", "busy", "destroyed"}]
      BY <2>2 DEF Destroy
    <3>4. timers_' \in [Contexts -> SUBSET TimerIds]
      BY <2>2 DEF Destroy
    <3>5. scheduled' \in [Contexts -> SUBSET TimerTasks]
      <4>1. Abandon(scheduled[t], timers_[t]) \in SUBSET TimerTasks
        BY <1>0, AbandonTypes
      <4> QED  BY <2>2, <4>1 DEF Destroy
    <3>6. \A c \in Contexts : \A p \in scheduled'[c] : p \in TimerTasks
      BY <3>5
    <3> QED
      BY <1>6, <2>2, <3>1, <3>2, <3>3, <3>4, <3>5, <3>6
         DEF RemoveContext, ThreadStates, TimerTasks
  <2> QED  BY <1>6, <2>1, <2>2 DEF RemoveContext
<1>7. CASE DestroyLoop(t)
  <2>1. thread' \in [Threads -> ThreadStates]
    BY <1>7 DEF DestroyLoop, ThreadStates
  <2>2. queue' \in [Contexts -> Seq({Data, QuitTask})]
    <3>1. <<>> \in Seq({Data, QuitTask})  BY EmptySeq
    <3>2. queue \in [Contexts -> Seq({Data, QuitTask})]  OBVIOUS
    <3>3. queue' = [queue EXCEPT ![t] = <<>>]  BY <1>7 DEF DestroyLoop
    <3> HIDE DEF Types, TypeOK
    <3> QED  BY <3>1, <3>2, <3>3
  <2>3. scheduled' \in [Contexts -> SUBSET TimerTasks]
    BY <1>7 DEF DestroyLoop
  <2>4. \A c \in Contexts : \A p \in scheduled'[c] : p \in TimerTasks
    BY <2>3
  <2> QED
    BY <1>7, <2>1, <2>2, <2>3, <2>4 DEF DestroyLoop, ThreadStates, TimerTasks
<1> QED  BY <1>1, <1>2, <1>3, <1>4, <1>5, <1>6, <1>7

\* Posting to a loop keeps the queues' type.
LEMMA PostTypes ==
    ASSUME queue \in [Contexts -> Seq({Data, QuitTask})],
           NEW x \in Contexts, NEW op \in {Data, QuitTask}
    PROVE  [queue EXCEPT ![x] = Append(@, op)] \in [Contexts -> Seq({Data, QuitTask})]
<1>1. Append(queue[x], op) \in Seq({Data, QuitTask})  BY AppendProperties
<1> QED  BY <1>1

\* What a lookup may return instead is a context.
LEMMA RangeTypes ==
    ASSUME Types
    PROVE  /\ Range(contexts_) \ {Undefined} \subseteq Contexts
           /\ \A y \in Range(contexts_) : \E k \in 1 .. Len(contexts_) : y = contexts_[k]
<1>1. contexts_ \in Seq(Contexts \cup {Undefined})  BY DEF Types, TypeOK
<1>2. DOMAIN contexts_ = 1 .. Len(contexts_)  BY <1>1, LenProperties
<1>3. \A k \in 1 .. Len(contexts_) : contexts_[k] \in Contexts \cup {Undefined}
  BY <1>1, ElementOfSeq
<1> QED  BY <1>2, <1>3 DEF Range

\* What a script does besides creating threads.
ScriptActs(c) ==
    \/ \E x \in Contexts : Lookup(c, x)
    \/ \E id \in TimerIds : SetTimer(c, id) \/ KillTimer(c, id)

\* The steps of a context's script and loop.
LEMMA ContextTypes ==
    ASSUME Types, NEW c \in Contexts, ScriptActs(c) \/ LoopStep(c)
    PROVE  Types'
<1> USE DEF Types, TypeOK, root, threads, registry, timing
<1>1. CASE \E x \in Contexts : Lookup(c, x)
  <2>1. PICK x \in Contexts : Lookup(c, x)  BY <1>1
  <2>2. held' \in [Contexts -> Contexts \cup {None, Null}]
    <3>1. Range(contexts_) \ {Undefined} \subseteq Contexts  BY RangeTypes
    <3>2. Found(x) \in Contexts \cup {None, Null}  BY DEF Found
    <3>3. held' = held \/ \E y \in Contexts \cup {None, Null} :
                             held' = [held EXCEPT ![c] = y]
      BY <2>1, <3>1, <3>2 DEF Lookup
    <3> QED  BY <3>3
  <2>3. fault' \in Faults  BY <2>1 DEF Lookup, Faults
  <2> QED  BY <2>1, <2>2, <2>3 DEF Lookup, Faults
<1>2. CASE \E id \in TimerIds : SetTimer(c, id)
  <2>1. PICK id \in TimerIds : SetTimer(c, id)  BY <1>2
  <2>2. PICK n \in 1 .. MaxPending + 1 :
               scheduled' = [scheduled EXCEPT ![c] = @ \cup
                                {[id |-> id, set |-> n, timer_ |-> TRUE]}]
    BY <2>1 DEF SetTimer
  <2>3. timers_' \in [Contexts -> SUBSET TimerIds]  BY <2>1 DEF SetTimer
  <2>4. scheduled' \in [Contexts -> SUBSET TimerTasks]
    <3>1. [id |-> id, set |-> n, timer_ |-> TRUE] \in TimerTasks
      BY DEF TimerTasks
    <3> QED  BY <2>2, <3>1
  <2>5. \A d \in Contexts : \A p \in scheduled'[d] : p \in TimerTasks  BY <2>4
  <2> QED  BY <2>1, <2>2, <2>3, <2>4, <2>5 DEF SetTimer, TimerTasks
<1>3. CASE \E id \in TimerIds : KillTimer(c, id)
  <2>1. PICK id \in TimerIds : KillTimer(c, id)  BY <1>3
  <2>2. timers_' \in [Contexts -> SUBSET TimerIds]  BY <2>1 DEF KillTimer
  <2>3. scheduled' \in [Contexts -> SUBSET TimerTasks]
    <3>1. Abandon(scheduled[c], {id}) \in SUBSET TimerTasks  BY AbandonTypes
    <3> QED  BY <2>1, <3>1 DEF KillTimer
  <2>4. \A d \in Contexts : \A p \in scheduled'[d] : p \in TimerTasks  BY <2>3
  <2> QED  BY <2>1, <2>2, <2>3, <2>4 DEF KillTimer, TimerTasks
<1>4. CASE PostTask(c)
  <2>1. held' \in [Contexts -> Contexts \cup {None, Null}]
    BY <1>4 DEF PostTask
  <2>2. /\ queue' \in [Contexts -> Seq({Data, QuitTask})]
        /\ fault' \in Faults
    <3>1. CASE held[c] = Null  BY <1>4, <3>1 DEF PostTask, Faults
    <3>2. CASE held[c] # Null
      <4>1. held[c] \in Contexts  BY <1>4, <3>2 DEF PostTask
      <4>2. queue' = [queue EXCEPT ![held[c]] = Append(@, Data)]
        BY <1>4, <3>2 DEF PostTask
      <4>3. queue' \in [Contexts -> Seq({Data, QuitTask})]
        BY <4>1, <4>2, PostTypes
      <4>4. fault' \in Faults
        BY <1>4, <3>2 DEF PostTask, Uses, Faults
      <4> QED  BY <4>3, <4>4
    <3> QED  BY <3>1, <3>2
  <2> QED  BY <1>4, <2>1, <2>2 DEF PostTask, Faults
<1>5. CASE RunTask(c)
  <2>1. queue' \in [Contexts -> Seq({Data, QuitTask})]
    <3>1. /\ queue \in [Contexts -> Seq({Data, QuitTask})]
          /\ queue[c] # <<>>
          /\ queue' = [queue EXCEPT ![c] = Tail(@)]
      BY <1>5 DEF RunTask
    <3> HIDE DEF Types, TypeOK
    <3>2. Tail(queue[c]) \in Seq({Data, QuitTask})  BY <3>1, HeadTailProperties
    <3> QED  BY <3>1, <3>2
  <2>2. /\ script' \in [Contexts -> {"null", "idle", "busy", "destroyed"}]
        /\ fault' \in Faults
    BY <1>5, EnterTypes DEF RunTask, Faults
  <2>3. quit' \in [Threads -> BOOLEAN]  BY <1>5 DEF RunTask, Contexts
  <2>4. /\ main' \in MainStates /\ ahead' \subseteq zengine_threads_
        /\ main' # "stopping" => ahead' = {}
    BY <1>5 DEF RunTask, MainStates
  <2> QED  BY <1>5, <2>1, <2>2, <2>3, <2>4 DEF RunTask, MainStates, Faults
<1>6. CASE \E p \in scheduled[c] : HandleTimeout(c, p)
  <2>1. PICK p \in scheduled[c] : HandleTimeout(c, p)  BY <1>6
  <2>2. scheduled' \in [Contexts -> SUBSET TimerTasks]
    BY <2>1 DEF HandleTimeout
  <2>3. timers_' \in [Contexts -> SUBSET TimerIds]
    BY <2>1, ZenonT(40) DEF HandleTimeout, ForgetTimer
  <2>4. /\ script' \in [Contexts -> {"null", "idle", "busy", "destroyed"}]
        /\ fault' \in Faults
    BY <2>1, EnterTypes DEF HandleTimeout, Faults
  <2>5. \A d \in Contexts : \A q \in scheduled'[d] : q \in TimerTasks  BY <2>2
  <2> QED  BY <2>1, <2>2, <2>3, <2>4, <2>5 DEF HandleTimeout, TimerTasks, Faults
<1>7. CASE ScriptReturns(c)
  BY <1>7 DEF ScriptReturns
<1> QED
  BY <1>1, <1>2, <1>3, <1>4, <1>5, <1>6, <1>7 DEF ScriptActs, LoopStep

\* The other steps of the main thread.
LEMMA MainTypes ==
    ASSUME Types,
           \/ NetworkEvent \/ Shutdown \/ \E t \in Threads : Stop(t) \/ Clear(t)
           \/ Join \/ BeginClear \/ BeginDestroy \/ DestroyContext \/ DeleteContext
    PROVE  Types'
<1> USE DEF Types, TypeOK, root, threads, registry, timing
<1>0. Main \in Contexts  BY DEF Contexts
<1>1. CASE NetworkEvent
  <2>1. /\ script' \in [Contexts -> {"null", "idle", "busy", "destroyed"}]
        /\ fault' \in Faults
    BY <1>0, <1>1, EnterTypes DEF NetworkEvent
  <2> QED  BY <1>1, <2>1 DEF NetworkEvent, Faults
<1>2. CASE Shutdown
  <2>1. queue' \in [Contexts -> Seq({Data, QuitTask})]
    BY <1>0, <1>2, PostTypes DEF Shutdown
  <2> QED  BY <1>2, <2>1 DEF Shutdown
<1>3. CASE \E t \in Threads : Stop(t) \/ Clear(t)
  <2>1. PICK t \in Threads : Stop(t) \/ Clear(t)  BY <1>3
  <2>2. queue' \in [Contexts -> Seq({Data, QuitTask})]
    <3>1. t \in Contexts  BY DEF Contexts
    <3> QED  BY <2>1, <3>1, PostTypes DEF Stop, Clear, BeginStop
  <2>3. /\ joining' \in Threads \cup {None} /\ ahead' \subseteq zengine_threads_'
        /\ main' = main /\ (main # "stopping" => ahead' = {})
    BY <2>1 DEF Stop, Clear, BeginStop
  <2> QED  BY <2>1, <2>2, <2>3 DEF Stop, Clear, BeginStop
<1>4. CASE Join
  BY <1>4 DEF Join
<1>5. CASE BeginDestroy
  <2>1. /\ script' \in [Contexts -> {"null", "idle", "busy", "destroyed"}]
        /\ fault' \in Faults
    BY <1>0, <1>5, EnterTypes DEF BeginDestroy
  <2> QED  BY <1>5, <2>1 DEF BeginDestroy, Faults
<1>7. CASE BeginClear
  BY <1>7 DEF BeginClear
<1>8. CASE DestroyContext
  BY <1>8 DEF DestroyContext
<1>6. CASE DeleteContext
  <2>0. CASE fault' = "registry"
             /\ UNCHANGED <<main, contexts_, timers_, scheduled, script>>
    BY <1>6, <2>0 DEF DeleteContext
  <2>a. CASE /\ main' = "deleted" /\ contexts_' = Erase(Main)
             /\ Destroy(Main) /\ UNCHANGED fault
    <3>1. contexts_' \in Seq(Contexts \cup {Undefined})
      <4>1. contexts_ \in Seq(Contexts \cup {Undefined})  OBVIOUS
      <4>2. contexts_' = IF Find(contexts_, Main) = 0 THEN contexts_
                         ELSE RemoveAt(contexts_, Find(contexts_, Main))
        BY <2>a DEF Erase
      <4> HIDE DEF Types, TypeOK
      <4>3. Find(contexts_, Main) # 0 => Find(contexts_, Main) \in 1 .. Len(contexts_)
        BY <4>1, FindIndex
      <4> QED  BY <4>1, <4>2, <4>3, RemoveElements
    <3>2. script' \in [Contexts -> {"null", "idle", "busy", "destroyed"}]
      BY <2>a DEF Destroy
    <3>3. timers_' \in [Contexts -> SUBSET TimerIds]
      BY <2>a DEF Destroy
    <3>4. scheduled' \in [Contexts -> SUBSET TimerTasks]
      <4>1. Abandon(scheduled[Main], timers_[Main]) \in SUBSET TimerTasks
        BY <1>0, AbandonTypes
      <4> QED  BY <2>a, <4>1 DEF Destroy
    <3>5. \A c \in Contexts : \A p \in scheduled'[c] : p \in TimerTasks  BY <3>4
    <3> QED
      BY <1>6, <2>a, <3>1, <3>2, <3>3, <3>4, <3>5 DEF DeleteContext, TimerTasks
  <2> QED  BY <1>6, <2>0, <2>a DEF DeleteContext
<1> QED  BY <1>1, <1>2, <1>3, <1>4, <1>5, <1>6, <1>7, <1>8

\* Every step keeps the types.
LEMMA TypeStep ==
    ASSUME Types, [Next]_vars
    PROVE  Types'
<1>1. CASE Next
  <2>0. Main \in Contexts /\ Threads \subseteq Contexts  BY DEF Contexts
  <2>1. CASE \E c \in Contexts : ScriptActs(c) \/ LoopStep(c)
    BY <2>1, ContextTypes
  <2>2. CASE \E t \in Threads :
                 \/ \E c \in Contexts : CreateZEngineThread(c, t)
                 \/ CreateContext(t) \/ AddContext(t) \/ EndRun(t) \/ CleanUp(t)
                 \/ RemoveContext(t) \/ DestroyLoop(t)
    BY <2>2, ThreadTypes
  <2>3. CASE \/ NetworkEvent \/ Shutdown \/ \E t \in Threads : Stop(t) \/ Clear(t)
             \/ Join \/ BeginClear \/ BeginDestroy \/ DestroyContext \/ DeleteContext
    BY <2>3, MainTypes
  <2> QED
    BY <1>1, <2>0, <2>1, <2>2, <2>3 DEF Next, MainStep, ThreadStep, ScriptStep, ScriptActs
<1>2. CASE UNCHANGED vars
  BY <1>2 DEF Types, TypeOK, vars, root, threads, registry, timing
<1> QED  BY <1>1, <1>2

-----------------------------------------------------------------------------
(* Scripts, threads and the vector.                                        *)

\* The part of the invariant about them.
Life ==
    /\ ThreadScript /\ MainScript /\ HeldByBusy /\ InTheMap
    /\ NotYetStopped /\ OnlyMadeContexts /\ OnlyMadePosted /\ NoTimersLeft

\* Steps that touch neither the vector nor the queues and unmake no context
\* keep what is said of them.
LEMMA MadeKept ==
    ASSUME OnlyMadeContexts, OnlyMadePosted, UNCHANGED <<contexts_, copy, held, queue>>,
           \A t \in Threads : script'[t] = "null" => script[t] = "null"
    PROVE  OnlyMadeContexts' /\ OnlyMadePosted'
<1>1. \A x : Made(script, x) => Made(script', x)  BY DEF Made
<1>2. OnlyMadeContexts'  BY <1>1 DEF OnlyMadeContexts
<1>3. OnlyMadePosted'  BY DEF OnlyMadePosted
<1> QED  BY <1>2, <1>3

\* Before OnDestroy, threads may go as far as their loops.
LEMMA StoppedKept ==
    ASSUME NotYetStopped, UNCHANGED <<quit, queue>>,
           main' \in {"creating", "running"} =>
               /\ main \in {"creating", "running"}
               /\ \A t \in Threads : thread'[t] \in {thread[t], "adding", "running"}
    PROVE  NotYetStopped'
  BY DEF NotYetStopped

\* A thread is created, or fails to be, or the map breaks.
LEMMA CreateZEngineThreadLife ==
    ASSUME IInv, fault = "none", Types', NEW c \in Contexts, NEW t \in Threads,
           CreateZEngineThread(c, t)
    PROVE  Life'
<1> USE DEF IInv, Types, TypeOK, Contexts, root, threads, registry, timing
<1>0. thread[t] = "none" /\ script[t] = "null"
  BY DEF CreateZEngineThread, ThreadScript
<1>1. MainScript' /\ HeldByBusy' /\ NoTimersLeft' /\ OnlyMadeContexts' /\ OnlyMadePosted'
  BY DEF CreateZEngineThread, MainScript, HeldByBusy, NoTimersLeft,
     OnlyMadeContexts, OnlyMadePosted, Made
<1>2. ThreadScript'
  BY <1>0 DEF CreateZEngineThread, ThreadScript, Destructed
<1>3. InTheMap'  BY DEF CreateZEngineThread, InTheMap, Alive
<1>4. NotYetStopped'
  BY ZEngineConstants DEF CreateZEngineThread, NotYetStopped
<1> QED  BY <1>1, <1>2, <1>3, <1>4 DEF Life

\* Its context is made, unless its ZEngineThread is destructed.
LEMMA CreateContextLife ==
    ASSUME IInv, fault = "none", Types', NEW t \in Threads, CreateContext(t)
    PROVE  Life'
<1> USE DEF IInv, Types, TypeOK, Contexts, root, threads, registry, timing
<1>0. t # Main /\ thread[t] = "starting" /\ script[t] = "null"
  BY ZEngineConstants DEF CreateContext, ThreadScript
<1>1. ThreadScript'  BY <1>0 DEF CreateContext, ThreadScript, Destructed
<1>2. MainScript'  BY <1>0 DEF CreateContext, MainScript
<1>3. HeldByBusy'  BY <1>0 DEF CreateContext, HeldByBusy
<1>4. InTheMap'  BY <1>0 DEF CreateContext, InTheMap, Alive
<1>5. NotYetStopped'
  <2>1. /\ UNCHANGED <<quit, queue, main>>
        /\ \A u \in Threads : thread'[u] \in {thread[u], "adding", "running"}
    BY DEF CreateContext
  <2> HIDE DEF IInv, Types, TypeOK, Contexts
  <2>2. NotYetStopped  BY DEF IInv
  <2> QED  BY <2>1, <2>2, StoppedKept
<1>6. OnlyMadeContexts'
  <2>1. \A x : Made(script, x) => Made(script', x)  BY <1>0 DEF CreateContext, Made
  <2>2. copy' = copy \/ copy' = [copy EXCEPT ![t] = contexts_]
    BY DEF CreateContext
  <2>3. \A u \in Threads : copy'[u] = copy[u] \/ copy'[u] = contexts_  BY <2>2
  <2>4. contexts_' = contexts_ /\ held' = held  BY DEF CreateContext
  <2> HIDE DEF IInv, Types, TypeOK, Contexts
  <2>5. OnlyMadeContexts  BY DEF IInv
  <2> QED  BY <2>1, <2>3, <2>4, <2>5 DEF OnlyMadeContexts
<1>7. NoTimersLeft'  BY <1>0 DEF CreateContext, NoTimersLeft
<1>8. OnlyMadePosted'
  <2>1. queue' = queue /\ \A u \in Threads : script'[u] = "null" => script[u] = "null"
    BY <1>0 DEF CreateContext
  <2> HIDE DEF IInv, Types, TypeOK, Contexts
  <2>2. OnlyMadePosted  BY DEF IInv
  <2> QED  BY <2>1, <2>2 DEF OnlyMadePosted
<1> QED  BY <1>1, <1>2, <1>3, <1>4, <1>5, <1>6, <1>7, <1>8 DEF Life

\* Its context joins the vector.
LEMMA AddContextLife ==
    ASSUME IInv, fault = "none", Types', NEW t \in Threads, AddContext(t)
    PROVE  Life'
<1> USE DEF IInv, Types, TypeOK, Contexts, root, threads, registry, timing
<1>1. ThreadScript'  BY ZEngineConstants DEF AddContext, ThreadScript, Destructed
<1>2. MainScript'  BY ZEngineConstants DEF AddContext, MainScript
<1>3. HeldByBusy'  BY ZEngineConstants DEF AddContext, HeldByBusy
<1>4. InTheMap'  BY ZEngineConstants DEF AddContext, InTheMap, Alive
<1>5. NotYetStopped'  BY ZEngineConstants DEF AddContext, NotYetStopped
<1>6. OnlyMadeContexts'
  <2>1. \A x : Made(script, x) => Made(script', x)  BY DEF AddContext, Made
  <2>2. Made(script', t) /\ Made(script', Undefined)
    BY ZEngineConstants DEF AddContext, Made
  <2>3. \A k \in 1 .. Len(contexts_') : Made(script', contexts_'[k])
    <3>1. /\ copy[t] \in Seq(Contexts \cup {Undefined})
          /\ contexts_ \in Seq(Contexts \cup {Undefined})
          /\ t \in Contexts \cup {Undefined} /\ Undefined \in Contexts \cup {Undefined}
          /\ contexts_' \in PushBack(copy[t], contexts_, t)
      BY DEF AddContext
    <3>2. /\ \A k \in 1 .. Len(contexts_) : Made(script, contexts_[k])
          /\ \A k \in 1 .. Len(copy[t]) : Made(script, copy[t][k])
      BY DEF OnlyMadeContexts
    <3> HIDE DEF IInv, Types, TypeOK, Contexts
    <3>3. \A k \in 1 .. Len(contexts_') :
             \/ contexts_'[k] \in {t, Undefined}
             \/ \E j \in 1 .. Len(copy[t]) : contexts_'[k] = copy[t][j]
             \/ \E j \in 1 .. Len(contexts_) : contexts_'[k] = contexts_[j]
      <4>1. PICK B, old, now, new : /\ B = Contexts \cup {Undefined}
                                    /\ old = copy[t] /\ now = contexts_
                                    /\ new = contexts_'
        OBVIOUS
      <4>2. /\ old \in Seq(B) /\ now \in Seq(B) /\ t \in B /\ Undefined \in B
            /\ new \in PushBack(old, now, t)
        BY <3>1, <4>1
      <4>3. \A k \in 1 .. Len(new) :
               \/ new[k] \in {t, Undefined}
               \/ \E j \in 1 .. Len(old) : new[k] = old[j]
               \/ \E j \in 1 .. Len(now) : new[k] = now[j]
        BY <4>2, PushBackElements
      <4> QED  BY <4>1, <4>3
    <3> QED  BY <2>1, <2>2, <3>2, <3>3
  <2>4. \A u \in Threads : \A k \in 1 .. Len(copy'[u]) : Made(script', copy'[u][k])
    <3>1. \A u \in Threads : copy'[u] = IF u = t THEN <<>> ELSE copy[u]
      BY DEF AddContext
    <3>2. 1 .. Len(<<>>) = {}  OBVIOUS
    <3>3. \A u \in Threads : \A k \in 1 .. Len(copy[u]) : Made(script, copy[u][k])
      BY DEF OnlyMadeContexts
    <3> HIDE DEF IInv, Types, TypeOK, Contexts
    <3> QED  BY <2>1, <3>1, <3>2, <3>3
  <2>5. \A d \in Contexts : Made(script', held'[d])
    BY <2>1 DEF AddContext, OnlyMadeContexts
  <2> QED  BY <2>3, <2>4, <2>5 DEF OnlyMadeContexts
<1>7. NoTimersLeft' /\ OnlyMadePosted'
  BY ZEngineConstants DEF AddContext, NoTimersLeft, OnlyMadePosted
<1> QED  BY <1>1, <1>2, <1>3, <1>4, <1>5, <1>6, <1>7 DEF Life

\* A script looks a context up.
LEMMA LookupLife ==
    ASSUME IInv, fault = "none", Types', NEW c \in Contexts, NEW x \in Contexts,
           Lookup(c, x)
    PROVE  Life'
<1> USE DEF IInv, Types, TypeOK, Contexts, root, threads, registry, timing
<1>1. /\ ThreadScript' /\ MainScript' /\ InTheMap' /\ NotYetStopped'
      /\ NoTimersLeft' /\ OnlyMadePosted'
  BY DEF Lookup, ThreadScript, Destructed, MainScript, InTheMap, NotYetStopped,
     NoTimersLeft, OnlyMadePosted, Alive
<1>2. HeldByBusy'  BY ZEngineConstants DEF Lookup, HeldByBusy
<1>3. OnlyMadeContexts'
  <2>1. \A y : Made(script', y) <=> Made(script, y)  BY DEF Lookup, Made
  <2>2. Made(script, Null) /\ Made(script, None)  BY ZEngineConstants DEF Made
  <2>3. Made(script, Found(x))
    <3>1. CASE Find(contexts_, x) = 0  BY <2>2, <3>1 DEF Found
    <3>2. CASE Find(contexts_, x) # 0
      <4>1. contexts_ \in Seq(Contexts \cup {Undefined})  OBVIOUS
      <4>2. /\ Find(contexts_, x) \in 1 .. Len(contexts_)
            /\ contexts_[Find(contexts_, x)] = x
        BY <3>2, <4>1, FindIndex
      <4> QED  BY <3>2, <4>2 DEF OnlyMadeContexts, Found
    <3> QED  BY <3>1, <3>2
  <2>4. \A d \in Contexts : Made(script, held'[d])
    <3>1. /\ held \in [Contexts -> Contexts \cup {None, Null}]
          /\ \A d \in Contexts : Made(script, held[d])
      BY DEF OnlyMadeContexts
    <3>2. \/ held' = held
          \/ held' = [held EXCEPT ![c] = Found(x)]
          \/ held' = [held EXCEPT ![c] = Null]
          \/ \E y \in Range(contexts_) : held' = [held EXCEPT ![c] = y]
      BY DEF Lookup
    <3>3. \A y \in Range(contexts_) : Made(script, y)
      BY RangeTypes DEF OnlyMadeContexts
    <3> HIDE DEF IInv, Types, TypeOK, Contexts
    <3> QED  BY <2>2, <2>3, <3>1, <3>2, <3>3
  <2> QED  BY <2>1, <2>4 DEF Lookup, OnlyMadeContexts
<1> QED  BY <1>1, <1>2, <1>3 DEF Life

\* A script posts.
LEMMA PostTaskLife ==
    ASSUME IInv, fault = "none", Types', NEW c \in Contexts, PostTask(c)
    PROVE  Life'
<1> USE DEF IInv, Types, TypeOK, Contexts, root, threads, registry, timing
<1>1. ThreadScript' /\ MainScript' /\ InTheMap' /\ NoTimersLeft'
  BY DEF PostTask, ThreadScript, Destructed, MainScript, InTheMap, NoTimersLeft, Alive
<1>2. HeldByBusy'  BY ZEngineConstants DEF PostTask, HeldByBusy
<1>3. NotYetStopped'
  <2> SUFFICES ASSUME main \in {"creating", "running"}, NEW t \in Threads
               PROVE  /\ ~quit[t]
                      /\ \A k \in 1 .. Len(queue'[t]) : queue'[t][k] # QuitTask
                      /\ thread[t] \in {"none", "starting", "failed", "adding", "running"}
    BY DEF PostTask, NotYetStopped
  <2>1. /\ ~quit[t]
        /\ \A k \in 1 .. Len(queue[t]) : queue[t][k] # QuitTask
        /\ thread[t] \in {"none", "starting", "failed", "adding", "running"}
    BY DEF NotYetStopped
  <2>2. queue[t] \in Seq({Data, QuitTask})  OBVIOUS
  <2>3. queue'[t] = queue[t] \/ queue'[t] = Append(queue[t], Data)
    BY DEF PostTask
  <2>4. CASE queue'[t] = Append(queue[t], Data)
    <3> HIDE DEF IInv, Types, TypeOK, Contexts
    <3>1. Len(queue[t]) \in Nat  BY <2>2
    <3>2. /\ Len(queue'[t]) = Len(queue[t]) + 1
          /\ \A k \in 1 .. Len(queue[t]) : queue'[t][k] = queue[t][k]
          /\ queue'[t][Len(queue[t]) + 1] = Data
      BY <2>2, <2>4, AppendProperties
    <3>3. \A k \in 1 .. Len(queue'[t]) : k \in 1 .. Len(queue[t]) \/ k = Len(queue[t]) + 1
      BY <3>1, <3>2
    <3> QED  BY <2>1, <3>2, <3>3 DEF Data, QuitTask
  <2> QED  BY <2>1, <2>3, <2>4
<1>4. OnlyMadeContexts'
  BY ZEngineConstants DEF PostTask, OnlyMadeContexts, Made
<1>5. OnlyMadePosted'
  <2> SUFFICES ASSUME NEW t \in Threads, script[t] = "null"
               PROVE  \A k \in 1 .. Len(queue'[t]) : queue'[t][k] # Data
    BY DEF PostTask, OnlyMadePosted
  <2>1. held[c] # t  BY DEF OnlyMadeContexts, Made
  <2>2. queue'[t] = queue[t]  BY <2>1 DEF PostTask
  <2> QED  BY <2>2 DEF OnlyMadePosted
<1> QED  BY <1>1, <1>2, <1>3, <1>4, <1>5 DEF Life

\* A script sets a timer.
LEMMA SetTimerLife ==
    ASSUME IInv, fault = "none", Types', NEW c \in Contexts, NEW id \in TimerIds,
           SetTimer(c, id)
    PROVE  Life'
<1> USE DEF IInv, Types, TypeOK, Contexts, root, threads, registry, timing
<1>1. /\ ThreadScript' /\ MainScript' /\ HeldByBusy'
      /\ InTheMap' /\ NotYetStopped' /\ OnlyMadeContexts' /\ OnlyMadePosted'
  BY DEF SetTimer, ThreadScript, Destructed, MainScript, HeldByBusy, InTheMap,
     NotYetStopped, OnlyMadeContexts, OnlyMadePosted, Alive, Made
<1>2. NoTimersLeft'  BY ZEngineConstants DEF SetTimer, NoTimersLeft
<1> QED  BY <1>1, <1>2 DEF Life

\* A script kills a timer.
LEMMA KillTimerLife ==
    ASSUME IInv, fault = "none", Types', NEW c \in Contexts, NEW id \in TimerIds,
           KillTimer(c, id)
    PROVE  Life'
<1> USE DEF IInv, Types, TypeOK, Contexts, root, threads, registry, timing
<1>1. /\ ThreadScript' /\ MainScript' /\ HeldByBusy'
      /\ InTheMap' /\ NotYetStopped' /\ OnlyMadeContexts' /\ OnlyMadePosted'
  BY DEF KillTimer, ThreadScript, Destructed, MainScript, HeldByBusy, InTheMap,
     NotYetStopped, OnlyMadeContexts, OnlyMadePosted, Alive, Made
<1>2. NoTimersLeft'  BY ZEngineConstants DEF KillTimer, NoTimersLeft
<1> QED  BY <1>1, <1>2 DEF Life

\* A loop runs a task.
LEMMA RunTaskLife ==
    ASSUME IInv, fault = "none", Types', NEW c \in Contexts, RunTask(c)
    PROVE  Life'
<1> USE DEF IInv, Types, TypeOK, Contexts, root, threads, registry, timing
<1>a. \A d \in Contexts : \/ script'[d] = script[d]
                          \/ d = c /\ script[d] = "idle" /\ script'[d] = "busy"
  BY DEF RunTask, EnterScript
<1>b. \/ main' = main
      \/ c = Main /\ main = "running" /\ main' = "stopping" /\ script' = script
  BY DEF RunTask, Dispatches
<1>c. thread' = thread /\ held' = held /\ timers_' = timers_ /\ joining' = joining
      /\ zengine_threads_' = zengine_threads_ /\ contexts_' = contexts_ /\ copy' = copy
  BY DEF RunTask
<1>d. c \in Threads => thread[c] = "running"
  BY ZEngineConstants DEF RunTask, Dispatches
<1>e. c = Main => main = "running" /\ script[Main] # "busy"
  BY DEF RunTask, Dispatches
<1>f. \A x : Made(script, x) <=> Made(script', x)  BY <1>a DEF Made
<1>1. OnlyMadeContexts'
  <2> HIDE DEF IInv, Types, TypeOK, Contexts
  <2>1. OnlyMadeContexts  BY DEF IInv
  <2> QED  BY <1>c, <1>f, <2>1 DEF OnlyMadeContexts
<1>2. ThreadScript'
  BY <1>a, <1>b, <1>c, <1>d DEF ThreadScript, Destructed
<1>3. MainScript'
  BY <1>a, <1>b, <1>e DEF MainScript
<1>4. HeldByBusy'  BY <1>a, <1>c DEF HeldByBusy
<1>5. InTheMap'  BY <1>c DEF InTheMap, Alive
<1>8. \A t \in Threads : \/ queue'[t] = queue[t]
                         \/ /\ t = c /\ queue[t] # <<>> /\ queue'[t] = Tail(queue[t])
                            /\ Head(queue[t]) # QuitTask => quit' = quit
  BY DEF RunTask
<1>9. \A t \in Threads : \A k \in 1 .. Len(queue'[t]) :
          \E j \in 1 .. Len(queue[t]) : queue'[t][k] = queue[t][j]
  <2> SUFFICES ASSUME NEW t \in Threads, NEW k \in 1 .. Len(queue'[t])
               PROVE  \E j \in 1 .. Len(queue[t]) : queue'[t][k] = queue[t][j]
    OBVIOUS
  <2>1. queue[t] \in Seq({Data, QuitTask})  OBVIOUS
  <2> HIDE DEF IInv, Types, TypeOK, Contexts
  <2>2. CASE queue'[t] = queue[t]  BY <2>2
  <2>3. CASE queue[t] # <<>> /\ queue'[t] = Tail(queue[t])
    <3>1. /\ Len(queue[t]) \in Nat /\ Len(queue'[t]) = Len(queue[t]) - 1
          /\ \A j \in 1 .. Len(queue'[t]) : queue'[t][j] = queue[t][j + 1]
      BY <2>1, <2>3, HeadTailProperties, LenProperties
    <3>2. k + 1 \in 1 .. Len(queue[t])  BY <3>1
    <3> QED  BY <3>1, <3>2
  <2> QED  BY <1>8, <2>2, <2>3
<1>6. NotYetStopped'
  <2> SUFFICES ASSUME main' \in {"creating", "running"}, NEW t \in Threads
               PROVE  /\ ~quit'[t]
                      /\ \A k \in 1 .. Len(queue'[t]) : queue'[t][k] # QuitTask
                      /\ thread'[t] \in {"none", "starting", "failed", "adding", "running"}
    BY DEF NotYetStopped
  <2>1. main \in {"creating", "running"}  BY <1>b
  <2>2. /\ ~quit[t]
        /\ \A k \in 1 .. Len(queue[t]) : queue[t][k] # QuitTask
        /\ thread[t] \in {"none", "starting", "failed", "adding", "running"}
    BY <2>1 DEF NotYetStopped
  <2>3. ~quit'[t]
    <3>1. CASE t = c
      <4>1. queue[t] \in Seq({Data, QuitTask}) /\ queue[t] # <<>>
        BY <3>1 DEF RunTask
      <4>2. Head(queue[t]) # QuitTask
        <5> HIDE DEF IInv, Types, TypeOK, Contexts
        <5>1. Len(queue[t]) \in Nat /\ Len(queue[t]) # 0 /\ Head(queue[t]) = queue[t][1]
          BY <4>1
        <5> QED  BY <2>2, <5>1
      <4> QED  BY <2>2, <3>1, <4>2 DEF RunTask
    <3>2. CASE t # c
      BY <2>2, <3>2 DEF RunTask
    <3> QED  BY <3>1, <3>2
  <2>4. \A k \in 1 .. Len(queue'[t]) : queue'[t][k] # QuitTask
    <3> HIDE DEF IInv, Types, TypeOK, Contexts
    <3> QED  BY <1>9, <2>2
  <2> QED  BY <1>c, <2>2, <2>3, <2>4
<1>7. NoTimersLeft'  BY <1>a, <1>c DEF NoTimersLeft
<1>10. OnlyMadePosted'
  <2> SUFFICES ASSUME NEW t \in Threads, script'[t] = "null"
               PROVE  \A k \in 1 .. Len(queue'[t]) : queue'[t][k] # Data
    BY DEF OnlyMadePosted
  <2>1. script[t] = "null"  BY <1>a
  <2>2. \A k \in 1 .. Len(queue[t]) : queue[t][k] # Data  BY <2>1 DEF OnlyMadePosted
  <2> HIDE DEF IInv, Types, TypeOK, Contexts
  <2> QED  BY <1>9, <2>2
<1> QED  BY <1>1, <1>2, <1>3, <1>4, <1>5, <1>6, <1>7, <1>10 DEF Life

\* A loop runs a timer's task.
LEMMA HandleTimeoutLife ==
    ASSUME IInv, fault = "none", Types', NEW c \in Contexts, NEW p \in scheduled[c],
           HandleTimeout(c, p)
    PROVE  Life'
<1> USE DEF IInv, Types, TypeOK, Contexts, root, threads, registry, timing
<1>0. \A d \in Contexts : \/ script'[d] = script[d]
                          \/ d = c /\ script[d] = "idle" /\ script'[d] = "busy"
  BY DEF HandleTimeout, EnterScript
<1>1. InTheMap'  BY DEF HandleTimeout, InTheMap, Alive
<1>6. OnlyMadeContexts' /\ OnlyMadePosted' /\ NotYetStopped'
  <2>1. /\ UNCHANGED <<contexts_, copy, held, queue, quit, main, thread>>
        /\ \A u \in Threads : script'[u] = "null" => script[u] = "null"
    BY <1>0 DEF HandleTimeout
  <2> HIDE DEF IInv, Types, TypeOK, Contexts
  <2>2. OnlyMadeContexts /\ OnlyMadePosted /\ NotYetStopped  BY DEF IInv
  <2> QED  BY <2>1, <2>2, MadeKept, StoppedKept
<1>2. ThreadScript'
  BY ZEngineConstants DEF HandleTimeout, ThreadScript, Destructed, EnterScript,
     Dispatches, ThreadScript, MainScript
<1>3. MainScript'
  BY ZEngineConstants DEF HandleTimeout, MainScript, EnterScript, Dispatches,
     ThreadScript, MainScript
<1>4. HeldByBusy'
  BY ZEngineConstants DEF HandleTimeout, HeldByBusy, EnterScript, Dispatches,
     ThreadScript, MainScript
<1>5. NoTimersLeft'
  <2>1. \A d \in Contexts : timers_'[d] \subseteq timers_[d]
    <3>1. timers_' = timers_ \/ timers_' = [timers_ EXCEPT ![c] = timers_[c] \ {p.id}]
      BY DEF HandleTimeout, ForgetTimer
    <3>2. timers_ \in [Contexts -> SUBSET TimerIds]  OBVIOUS
    <3> HIDE DEF IInv, Types, TypeOK, Contexts
    <3> QED  BY <3>1, <3>2
  <2>2. \A d \in Contexts : script'[d] \in {script[d], "busy"}
    BY DEF HandleTimeout, EnterScript
  <2> QED  BY <2>1, <2>2 DEF NoTimersLeft
<1> QED  BY <1>1, <1>2, <1>3, <1>4, <1>5, <1>6 DEF Life

\* A connection calls the main script.
LEMMA NetworkEventLife ==
    ASSUME IInv, fault = "none", Types', NetworkEvent
    PROVE  Life'
<1> USE DEF IInv, Types, TypeOK, Contexts, root, threads, registry, timing
<1>1. InTheMap'  BY DEF NetworkEvent, InTheMap, Alive
<1>6. OnlyMadeContexts' /\ OnlyMadePosted' /\ NotYetStopped'
  <2>1. /\ UNCHANGED <<contexts_, copy, held, queue, quit, main, thread>>
        /\ \A u \in Threads : script'[u] = "null" => script[u] = "null"
    BY ZEngineConstants DEF NetworkEvent, EnterScript
  <2> HIDE DEF IInv, Types, TypeOK, Contexts
  <2>2. OnlyMadeContexts /\ OnlyMadePosted /\ NotYetStopped  BY DEF IInv
  <2> QED  BY <2>1, <2>2, MadeKept, StoppedKept
<1>2. ThreadScript'
  BY ZEngineConstants DEF NetworkEvent, ThreadScript, Destructed, EnterScript, Dispatches,
     ThreadScript, MainScript
<1>3. MainScript'
  BY ZEngineConstants DEF NetworkEvent, MainScript, EnterScript, Dispatches,
     ThreadScript, MainScript
<1>4. HeldByBusy'
  BY ZEngineConstants DEF NetworkEvent, HeldByBusy, EnterScript, Dispatches,
     ThreadScript, MainScript
<1>5. NoTimersLeft'
  BY ZEngineConstants DEF NetworkEvent, NoTimersLeft, EnterScript, Dispatches,
     ThreadScript, MainScript
<1> QED  BY <1>1, <1>2, <1>3, <1>4, <1>5, <1>6 DEF Life

\* A script returns.
LEMMA ScriptReturnsLife ==
    ASSUME IInv, fault = "none", Types', NEW c \in Contexts, ScriptReturns(c)
    PROVE  Life'
<1> USE DEF IInv, Types, TypeOK, Contexts, root, threads, registry, timing
<1>1. OnlyMadeContexts' /\ OnlyMadePosted'
  BY DEF ScriptReturns, OnlyMadeContexts, OnlyMadePosted, Made
<1>2. ThreadScript'  BY ZEngineConstants DEF ScriptReturns, ThreadScript, Destructed
<1>3. MainScript'  BY ZEngineConstants DEF ScriptReturns, MainScript
<1>4. HeldByBusy'  BY ZEngineConstants DEF ScriptReturns, HeldByBusy
<1>5. InTheMap'  BY ZEngineConstants DEF ScriptReturns, InTheMap, Alive
<1>6. NotYetStopped'  BY ZEngineConstants DEF ScriptReturns, NotYetStopped
<1>7. NoTimersLeft'  BY ZEngineConstants DEF ScriptReturns, NoTimersLeft
<1> QED  BY <1>1, <1>2, <1>3, <1>4, <1>5, <1>6, <1>7 DEF Life

\* A thread's loop ends.
LEMMA EndRunLife ==
    ASSUME IInv, fault = "none", Types', NEW t \in Threads, EndRun(t)
    PROVE  Life'
<1> USE DEF IInv, Types, TypeOK, Contexts, root, threads, registry, timing
<1>0. /\ t # Main /\ thread[t] = "running" /\ script[t] # "busy" /\ quit[t]
      /\ main \notin {"creating", "running"}
  BY ZEngineConstants DEF EndRun, Dispatches, NotYetStopped
<1>1. ThreadScript'
  BY <1>0 DEF EndRun, ThreadScript, Destructed, EnterScript
<1>2. MainScript'  BY <1>0 DEF EndRun, MainScript, EnterScript
<1>3. HeldByBusy'  BY <1>0 DEF EndRun, HeldByBusy, EnterScript
<1>4. InTheMap'  BY <1>0 DEF EndRun, InTheMap, Alive
<1>5. NotYetStopped'  BY <1>0 DEF EndRun, NotYetStopped
<1>6. OnlyMadeContexts' /\ OnlyMadePosted'
  <2>1. /\ UNCHANGED <<contexts_, copy, held, queue>>
        /\ \A u \in Threads : script'[u] = "null" => script[u] = "null"
    BY <1>0 DEF EndRun, EnterScript
  <2> HIDE DEF IInv, Types, TypeOK, Contexts
  <2>2. OnlyMadeContexts /\ OnlyMadePosted  BY DEF IInv
  <2> QED  BY <2>1, <2>2, MadeKept
<1>7. NoTimersLeft'  BY <1>0 DEF EndRun, NoTimersLeft, EnterScript
<1> QED  BY <1>1, <1>2, <1>3, <1>4, <1>5, <1>6, <1>7 DEF Life

\* Its last script ends.
LEMMA CleanUpLife ==
    ASSUME IInv, fault = "none", Types', NEW t \in Threads, CleanUp(t)
    PROVE  Life'
<1> USE DEF IInv, Types, TypeOK, Contexts, root, threads, registry, timing
<1>1. ThreadScript'  BY ZEngineConstants DEF CleanUp, ThreadScript, Destructed
<1>2. MainScript'  BY ZEngineConstants DEF CleanUp, MainScript
<1>3. HeldByBusy'  BY ZEngineConstants DEF CleanUp, HeldByBusy
<1>4. InTheMap'  BY ZEngineConstants DEF CleanUp, InTheMap, Alive
<1>5. NotYetStopped'  BY ZEngineConstants DEF CleanUp, NotYetStopped
<1>6. OnlyMadeContexts' /\ OnlyMadePosted'
  BY ZEngineConstants DEF CleanUp, OnlyMadeContexts, OnlyMadePosted, Made
<1>7. NoTimersLeft'  BY ZEngineConstants DEF CleanUp, NoTimersLeft
<1> QED  BY <1>1, <1>2, <1>3, <1>4, <1>5, <1>6, <1>7 DEF Life

\* Its context leaves the vector and is destroyed.
LEMMA RemoveContextLife ==
    ASSUME IInv, fault = "none", Types', NEW t \in Threads, RemoveContext(t)
    PROVE  Life'
<1> USE DEF IInv, Types, TypeOK, Contexts, root, threads, registry, timing
<1>1. ThreadScript'
  BY ZEngineConstants DEF RemoveContext, ThreadScript, Destructed, Destroy
<1>2. MainScript'
  BY ZEngineConstants DEF RemoveContext, MainScript, Destroy
<1>3. HeldByBusy'
  BY ZEngineConstants DEF RemoveContext, HeldByBusy, Destroy, ThreadScript
<1>4. InTheMap'
  BY ZEngineConstants DEF RemoveContext, InTheMap, Alive, Destroy
<1>5. NotYetStopped'
  BY ZEngineConstants DEF RemoveContext, NotYetStopped, Destroy
<1>6. OnlyMadeContexts'
  <2>1. \A y : Made(script, y) => Made(script', y)
    BY DEF RemoveContext, Destroy, Made
  <2>2. \A k \in 1 .. Len(contexts_') : Made(script, contexts_'[k])
    <3>1. /\ contexts_ \in Seq(Contexts \cup {Undefined})
          /\ \A k \in 1 .. Len(contexts_) : Made(script, contexts_[k])
      BY DEF OnlyMadeContexts
    <3>2. contexts_' = contexts_ \/ contexts_' = Erase(t)  BY DEF RemoveContext
    <3> HIDE DEF IInv, Types, TypeOK, Contexts
    <3>3. ASSUME Find(contexts_, t) # 0,
                 contexts_' = RemoveAt(contexts_, Find(contexts_, t))
          PROVE  \A k \in 1 .. Len(contexts_') :
                    \E j \in 1 .. Len(contexts_) : contexts_'[k] = contexts_[j]
      <4>1. Find(contexts_, t) \in 1 .. Len(contexts_)
        BY <3>1, <3>3, FindIndex
      <4>2. PICK n \in 1 .. Len(contexts_) : n = Find(contexts_, t)  BY <4>1
      <4>3. contexts_' = RemoveAt(contexts_, n)  BY <3>3, <4>2
      <4>4. contexts_ \in Seq(Contexts \cup {Undefined})  BY <3>1
      <4>5. \A k \in 1 .. Len(RemoveAt(contexts_, n)) :
               \E j \in 1 .. Len(contexts_) : RemoveAt(contexts_, n)[k] = contexts_[j]
        BY <4>4, RemoveElements
      <4> QED  BY <4>3, <4>5
    <3>4. CASE Find(contexts_, t) # 0 /\ contexts_' = Erase(t)
      <4>1. contexts_' = RemoveAt(contexts_, Find(contexts_, t))
        BY <3>4 DEF Erase
      <4> QED  BY <3>1, <3>3, <3>4, <4>1
    <3>5. CASE contexts_' = contexts_  BY <3>1, <3>5
    <3> QED  BY <3>2, <3>4, <3>5 DEF Erase
  <2> QED  BY <2>1, <2>2 DEF RemoveContext, OnlyMadeContexts
<1>7. NoTimersLeft' /\ OnlyMadePosted'
  BY ZEngineConstants DEF RemoveContext, NoTimersLeft, OnlyMadePosted, Destroy
<1> QED  BY <1>1, <1>2, <1>3, <1>4, <1>5, <1>6, <1>7 DEF Life

\* Its loop is destroyed.
LEMMA DestroyLoopLife ==
    ASSUME IInv, fault = "none", Types', NEW t \in Threads, DestroyLoop(t)
    PROVE  Life'
<1> USE DEF IInv, Types, TypeOK, Contexts, root, threads, registry, timing
<1>1. MainScript' /\ HeldByBusy' /\ NoTimersLeft'
  BY DEF DestroyLoop, MainScript, HeldByBusy, NoTimersLeft
<1>2. ThreadScript'  BY DEF DestroyLoop, ThreadScript, Destructed
<1>3. InTheMap'  BY DEF DestroyLoop, InTheMap, Alive
<1>4. NotYetStopped'  BY DEF DestroyLoop, NotYetStopped
<1>5. OnlyMadeContexts'  BY DEF DestroyLoop, OnlyMadeContexts, Made
<1>6. OnlyMadePosted'
  <2>1. \A u \in Threads : queue'[u] = queue[u] \/ queue'[u] = <<>>
    BY DEF DestroyLoop
  <2> QED  BY <2>1 DEF DestroyLoop, OnlyMadePosted
<1> QED  BY <1>1, <1>2, <1>3, <1>4, <1>5, <1>6 DEF Life

\* The daemon is told to shut down.
LEMMA ShutdownLife ==
    ASSUME IInv, fault = "none", Types', Shutdown
    PROVE  Life'
<1> USE DEF IInv, Types, TypeOK, Contexts, root, threads, registry, timing
<1>1. /\ ThreadScript' /\ MainScript' /\ HeldByBusy'
      /\ InTheMap' /\ OnlyMadeContexts' /\ NoTimersLeft'
  BY DEF Shutdown, ThreadScript, Destructed, MainScript, HeldByBusy, InTheMap,
     OnlyMadeContexts, NoTimersLeft, Alive, Made
<1>2. NotYetStopped' /\ OnlyMadePosted'
  BY ZEngineConstants DEF Shutdown, NotYetStopped, OnlyMadePosted
<1> QED  BY <1>1, <1>2 DEF Life

\* OnDestroy, or clear(), tells a thread to quit.
LEMMA StopLife ==
    ASSUME IInv, fault = "none", Types', NEW t \in Threads, Stop(t) \/ Clear(t)
    PROVE  Life'
<1> USE DEF IInv, Types, TypeOK, Contexts, root, threads, registry, timing
<1>0. joining = None /\ joining' = t /\ main' = main /\ main \in {"stopping", "clearing"}
      /\ UNCHANGED <<thread, script, held, quit, contexts_, copy, timers_, zengine_threads_>>
  BY DEF Stop, Clear, BeginStop
<1>1. /\ MainScript' /\ HeldByBusy' /\ InTheMap' /\ OnlyMadeContexts' /\ NoTimersLeft'
      /\ NotYetStopped'
  BY <1>0 DEF MainScript, HeldByBusy, InTheMap, OnlyMadeContexts, NoTimersLeft,
     NotYetStopped, Alive, Made
<1>2. ThreadScript'
  <2>1. \A u \in Threads : ~Destructed(u)
    BY <1>0, ZEngineConstants DEF Destructed
  <2> QED  BY <1>0, <2>1 DEF ThreadScript
<1>3. OnlyMadePosted'
  <2> SUFFICES ASSUME NEW u \in Threads, script[u] = "null"
               PROVE  \A k \in 1 .. Len(queue'[u]) : queue'[u][k] # Data
    BY <1>0 DEF OnlyMadePosted
  <2>1. \A k \in 1 .. Len(queue[u]) : queue[u][k] # Data  BY DEF OnlyMadePosted
  <2>2. queue[u] \in Seq({Data, QuitTask})  OBVIOUS
  <2>3. queue'[u] = queue[u] \/ queue'[u] = Append(queue[u], QuitTask)
    BY DEF Stop, Clear, BeginStop
  <2>4. CASE queue'[u] = Append(queue[u], QuitTask)
    <3> HIDE DEF IInv, Types, TypeOK, Contexts
    <3>1. Len(queue[u]) \in Nat  BY <2>2
    <3>2. /\ Len(queue'[u]) = Len(queue[u]) + 1
          /\ \A k \in 1 .. Len(queue[u]) : queue'[u][k] = queue[u][k]
          /\ queue'[u][Len(queue[u]) + 1] = QuitTask
      BY <2>2, <2>4, AppendProperties
    <3>3. \A k \in 1 .. Len(queue'[u]) : k \in 1 .. Len(queue[u]) \/ k = Len(queue[u]) + 1
      BY <3>1, <3>2
    <3> QED  BY <2>1, <3>2, <3>3 DEF Data, QuitTask
  <2> QED  BY <2>1, <2>3, <2>4
<1> QED  BY <1>1, <1>2, <1>3 DEF Life

\* It joins the thread.
LEMMA JoinLife ==
    ASSUME IInv, fault = "none", Types', Join
    PROVE  Life'
<1> USE DEF IInv, Types, TypeOK, Contexts, root, threads, registry, timing
<1>1. /\ MainScript' /\ HeldByBusy' /\ NotYetStopped' /\ OnlyMadeContexts'
      /\ OnlyMadePosted' /\ NoTimersLeft'
  BY DEF Join, MainScript, HeldByBusy, NotYetStopped, OnlyMadeContexts,
     OnlyMadePosted, NoTimersLeft, Made
<1>2. ThreadScript'
  <2>1. \A u \in Threads : thread[u] = "running" => u # joining
    BY DEF Join, Exited, Alive
  <2> QED  BY <2>1 DEF Join, ThreadScript, Destructed
<1>3. InTheMap'
  BY ZEngineConstants DEF Join, InTheMap, Alive, Exited
<1> QED  BY <1>1, <1>2, <1>3 DEF Life

\* The loop of OnDestroy ends.
LEMMA BeginClearLife ==
    ASSUME IInv, fault = "none", Types', BeginClear
    PROVE  Life'
<1> USE DEF IInv, Types, TypeOK, Contexts, root, threads, registry, timing
<1>1. /\ MainScript' /\ HeldByBusy' /\ NotYetStopped' /\ OnlyMadeContexts'
      /\ OnlyMadePosted' /\ NoTimersLeft'
  BY DEF BeginClear, MainScript, HeldByBusy, NotYetStopped, OnlyMadeContexts,
     OnlyMadePosted, NoTimersLeft, Made
<1>2. ThreadScript'  BY DEF BeginClear, ThreadScript, Destructed
<1>3. InTheMap'  BY DEF BeginClear, InTheMap, Alive, Exited
<1> QED  BY <1>1, <1>2, <1>3 DEF Life

\* All are joined: the main context's last scripts begin.
LEMMA BeginDestroyLife ==
    ASSUME IInv, fault = "none", Types', BeginDestroy
    PROVE  Life'
<1> USE DEF IInv, Types, TypeOK, Contexts, root, threads, registry, timing
<1>0. /\ script[Main] = "idle" /\ script' = [script EXCEPT ![Main] = "busy"]
      /\ Main \notin Threads /\ joining = None
  BY ZEngineConstants DEF BeginDestroy, EnterScript, MainScript
<1>1. OnlyMadeContexts' /\ OnlyMadePosted'
  BY <1>0 DEF BeginDestroy, OnlyMadeContexts, OnlyMadePosted, Made
<1>2. ThreadScript'
  <2>1. \A u \in Threads : ~Destructed(u)  BY <1>0, ZEngineConstants DEF Destructed
  <2> QED  BY <1>0, <2>1 DEF BeginDestroy, ThreadScript
<1>3. MainScript'  BY <1>0 DEF BeginDestroy, MainScript
<1>4. HeldByBusy'  BY <1>0 DEF BeginDestroy, HeldByBusy
<1>5. InTheMap'  BY DEF BeginDestroy, InTheMap, Alive
<1>6. NotYetStopped'  BY DEF BeginDestroy, NotYetStopped
<1>7. NoTimersLeft'  BY <1>0 DEF BeginDestroy, NoTimersLeft
<1> QED  BY <1>1, <1>2, <1>3, <1>4, <1>5, <1>6, <1>7 DEF Life

\* They end, and the main context is being removed.
LEMMA DestroyContextLife ==
    ASSUME IInv, fault = "none", Types', DestroyContext
    PROVE  Life'
<1> USE DEF IInv, Types, TypeOK, Contexts, root, threads, registry, timing
<1>0. script[Main] = "busy" /\ Main \notin Threads /\ main = "destroying"
  BY ZEngineConstants DEF DestroyContext, MainScript
<1>1. OnlyMadeContexts' /\ OnlyMadePosted'
  BY <1>0 DEF DestroyContext, OnlyMadeContexts, OnlyMadePosted, Made
<1>2. ThreadScript'  BY <1>0 DEF DestroyContext, ThreadScript, Destructed
<1>3. MainScript'  BY DEF DestroyContext, MainScript
<1>4. HeldByBusy'  BY DEF DestroyContext, HeldByBusy
<1>5. InTheMap'  BY DEF DestroyContext, InTheMap, Alive
<1>6. NotYetStopped'  BY DEF DestroyContext, NotYetStopped
<1>7. NoTimersLeft'  BY <1>0 DEF DestroyContext, NoTimersLeft
<1> QED  BY <1>1, <1>2, <1>3, <1>4, <1>5, <1>6, <1>7 DEF Life

\* It is destroyed.
LEMMA DeleteContextLife ==
    ASSUME IInv, fault = "none", Types', DeleteContext
    PROVE  Life'
<1> USE DEF IInv, Types, TypeOK, Contexts, root, threads, registry, timing
<1>1. ThreadScript'
  BY ZEngineConstants DEF DeleteContext, ThreadScript, Destructed, Destroy
<1>2. MainScript'
  BY ZEngineConstants DEF DeleteContext, MainScript, Destroy
<1>3. HeldByBusy'
  BY ZEngineConstants DEF DeleteContext, HeldByBusy, Destroy, MainScript
<1>4. InTheMap'
  BY ZEngineConstants DEF DeleteContext, InTheMap, Alive, Destroy
<1>5. NotYetStopped'
  BY ZEngineConstants DEF DeleteContext, NotYetStopped, Destroy
<1>6. OnlyMadeContexts'
  <2>1. \A y : Made(script, y) => Made(script', y)
    BY DEF DeleteContext, Destroy, Made
  <2>2. \A k \in 1 .. Len(contexts_') : Made(script, contexts_'[k])
    <3>1. /\ contexts_ \in Seq(Contexts \cup {Undefined})
          /\ \A k \in 1 .. Len(contexts_) : Made(script, contexts_[k])
      BY DEF OnlyMadeContexts
    <3>2. contexts_' = contexts_ \/ contexts_' = Erase(Main)
      BY DEF DeleteContext
    <3> HIDE DEF IInv, Types, TypeOK, Contexts
    <3>3. ASSUME Find(contexts_, Main) # 0,
                 contexts_' = RemoveAt(contexts_, Find(contexts_, Main))
          PROVE  \A k \in 1 .. Len(contexts_') :
                    \E j \in 1 .. Len(contexts_) : contexts_'[k] = contexts_[j]
      <4>1. Find(contexts_, Main) \in 1 .. Len(contexts_)
        BY <3>1, <3>3, FindIndex
      <4>2. PICK n \in 1 .. Len(contexts_) : n = Find(contexts_, Main)  BY <4>1
      <4>3. contexts_' = RemoveAt(contexts_, n)  BY <3>3, <4>2
      <4>4. contexts_ \in Seq(Contexts \cup {Undefined})  BY <3>1
      <4>5. \A k \in 1 .. Len(RemoveAt(contexts_, n)) :
               \E j \in 1 .. Len(contexts_) : RemoveAt(contexts_, n)[k] = contexts_[j]
        BY <4>4, RemoveElements
      <4> QED  BY <4>3, <4>5
    <3>4. CASE Find(contexts_, Main) # 0 /\ contexts_' = Erase(Main)
      <4>1. contexts_' = RemoveAt(contexts_, Find(contexts_, Main))
        BY <3>4 DEF Erase
      <4> QED  BY <3>1, <3>3, <3>4, <4>1
    <3>5. CASE contexts_' = contexts_  BY <3>1, <3>5
    <3> QED  BY <3>2, <3>4, <3>5 DEF Erase
  <2> QED  BY <2>1, <2>2 DEF DeleteContext, OnlyMadeContexts
<1>7. NoTimersLeft' /\ OnlyMadePosted'
  BY ZEngineConstants DEF DeleteContext, NoTimersLeft, OnlyMadePosted, Destroy
<1> QED  BY <1>1, <1>2, <1>3, <1>4, <1>5, <1>6, <1>7 DEF Life

\* No step breaks it.
LEMMA LifeStep ==
    ASSUME IInv, Types', [Next]_vars
    PROVE  Life'
<1>1. CASE Next
  <2>0. fault = "none" /\ Main \in Contexts /\ Threads \subseteq Contexts
    BY <1>1 DEF Next, Contexts
  <2>1. CASE \E c \in Contexts : ScriptStep(c)
    BY <2>0, <2>1, CreateZEngineThreadLife, LookupLife, SetTimerLife, KillTimerLife
       DEF ScriptStep
  <2>2. CASE \E c \in Contexts : LoopStep(c)
    BY <2>0, <2>2, PostTaskLife, RunTaskLife, HandleTimeoutLife,
       ScriptReturnsLife
       DEF LoopStep
  <2>3. CASE BeginClear \/ DestroyContext
    BY <2>0, <2>3, BeginClearLife, DestroyContextLife
  <2>4. CASE \E t \in Threads : CreateContext(t) \/ AddContext(t)
    BY <2>0, <2>4, CreateContextLife, AddContextLife
  <2>5. CASE \E t \in Threads : EndRun(t) \/ CleanUp(t)
    BY <2>0, <2>5, EndRunLife, CleanUpLife
  <2>6. CASE \E t \in Threads : RemoveContext(t) \/ DestroyLoop(t)
    BY <2>0, <2>6, RemoveContextLife, DestroyLoopLife
  <2>7. CASE NetworkEvent \/ Shutdown \/ \E t \in Threads : Stop(t) \/ Clear(t)
    BY <2>0, <2>7, NetworkEventLife, ShutdownLife, StopLife
  <2>8. CASE Join \/ BeginDestroy \/ DeleteContext
    BY <2>0, <2>8, JoinLife, BeginDestroyLife, DeleteContextLife
  <2> QED
    BY <1>1, <2>0, <2>1, <2>2, <2>3, <2>4, <2>5, <2>6, <2>7, <2>8
       DEF Next, MainStep, ThreadStep
<1>2. CASE UNCHANGED vars
  BY <1>2
     DEF IInv, Life, ThreadScript, Destructed, MainScript, HeldByBusy, InTheMap,
         Alive, NotYetStopped, OnlyMadeContexts, OnlyMadePosted, NoTimersLeft,
         vars, root, threads, registry, timing
<1> QED  BY <1>1, <1>2

-----------------------------------------------------------------------------
(* Callbacks and posts.                                                     *)

\* A callback that finds a script, and that the loop dispatches or that begins
\* the destruction, finds it idle.
LEMMA EntersIdle ==
    ASSUME IInv, NEW c \in Contexts, EnterScript(c), script[c] # "null",
           Dispatches(c) \/ (c = Main /\ main = "clearing")
    PROVE  fault' = fault
<1>1. script[c] = "idle"
  BY DEF IInv, ThreadScript, MainScript, Dispatches, Contexts
<1> QED  BY <1>1 DEF EnterScript

\* The main context has a script until it is deleted.
LEMMA MainHasScript ==
    ASSUME IInv PROVE script[Main] # "null"
  BY DEF IInv, Types, TypeOK, MainScript

\* A script that runs after the deletion of the main context runs in a thread
\* that is in the map.
LEMMA LateThread ==
    ASSUME IInv, NEW c \in Contexts, script[c] = "busy", main = "deleted"
    PROVE  zengine_threads_ # {}
<1>1. c \in Threads  BY DEF IInv, MainScript, Contexts
<1>2. Alive(c)  BY <1>1 DEF IInv, Types, TypeOK, ThreadScript, Alive
<1> QED  BY <1>1, <1>2 DEF IInv, InTheMap

\* A post of a script finds the main context, if it is not created late, and a
\* loop unless OnDestroy runs.
LEMMA PostFinds ==
    ASSUME IInv, NEW c \in Contexts, PostTask(c), fault = "none"
    PROVE  ContextsOutliveTheirUse'
<1>0. Types /\ ThreadScript /\ HeldByBusy /\ NotYetStopped /\ OnlyMadeContexts
  BY DEF IInv
<1>1. main' = main /\ zengine_threads_' = zengine_threads_ /\ held[c] # None
  BY DEF PostTask, root
<1>2. script[c] = "busy"  BY <1>0, <1>1 DEF HeldByBusy
<1>4. CASE held[c] = Null
  BY <1>4 DEF PostTask, ContextsOutliveTheirUse
<1>5. CASE held[c] = Main
  <2>1. fault' \in {"none", fault} \/ (fault' = "context" /\ main = "deleted")
    BY <1>5 DEF PostTask, Uses
  <2> QED  BY <1>1, <1>2, <2>1, LateThread DEF ContextsOutliveTheirUse
<1>6. CASE held[c] \in Threads
  <2>1. held[c] # Main /\ held[c] # Null  BY <1>6, ZEngineConstants
  <2>2. fault' \in {"none", "loop"} /\ (fault' = "loop" => ~Alive(held[c]))
    BY <1>6, <2>1 DEF PostTask, Uses
  <2>3. main \in {"creating", "running"} => Alive(held[c])
    BY <1>0, <1>6 DEF NotYetStopped, OnlyMadeContexts, Made, ThreadScript, Alive,
       Types, TypeOK
  <2> QED  BY <1>1, <2>2, <2>3 DEF ContextsOutliveTheirUse
<1>7. held[c] \in Contexts \cup {None, Null}  BY <1>0 DEF Types, TypeOK
<1> QED  BY <1>1, <1>4, <1>5, <1>6, <1>7 DEF Contexts

\* No step uses a context that is gone.
LEMMA UseStep ==
    ASSUME IInv, [Next]_vars
    PROVE  ContextsOutliveTheirUse'
<1>1. CASE Next
  <2>0. fault = "none" /\ Main \in Contexts /\ Threads \subseteq Contexts
    BY <1>1 DEF Next, Contexts
  <2>1. CASE \E c \in Contexts : PostTask(c)  BY <2>0, <2>1, PostFinds
  <2>2. CASE \E c \in Contexts : RunTask(c)
    <3>1. PICK c \in Contexts : RunTask(c)  BY <2>2
    <3>2. Head(queue[c]) = Data => script[c] # "null"
      <4> SUFFICES ASSUME Head(queue[c]) = Data, c \in Threads, script[c] = "null"
                   PROVE  FALSE
        BY MainHasScript DEF Contexts
      <4>1. queue[c] \in Seq({Data, QuitTask}) /\ queue[c] # <<>>
        BY <3>1 DEF IInv, Types, TypeOK, RunTask
      <4>2. Len(queue[c]) \in Nat /\ Len(queue[c]) # 0 /\ Head(queue[c]) = queue[c][1]
        BY <4>1
      <4>3. \A k \in 1 .. Len(queue[c]) : queue[c][k] # Data
        BY DEF IInv, OnlyMadePosted
      <4> QED  BY <4>2, <4>3
    <3>3. fault' = fault  BY <3>1, <3>2, EntersIdle DEF RunTask
    <3> QED  BY <2>0, <3>3 DEF ContextsOutliveTheirUse
  <2>3. CASE \E c \in Contexts : \E p \in scheduled[c] : HandleTimeout(c, p)
    <3>1. PICK c \in Contexts : \E p \in scheduled[c] : HandleTimeout(c, p)  BY <2>3
    <3>2. PICK p \in scheduled[c] : HandleTimeout(c, p)  BY <3>1
    <3>3. p.timer_ => script[c] # "null"
      <4> SUFFICES ASSUME p.timer_, script[c] = "null" PROVE FALSE
        OBVIOUS
      <4>1. timers_[c] = {}  BY DEF IInv, NoTimersLeft
      <4>2. c \in Threads => thread[c] # "ended"
        BY <3>2, ZEngineConstants DEF HandleTimeout, Dispatches
      <4>3. p.id \in timers_[c]  BY <4>2 DEF IInv, TimersConsistent
      <4> QED  BY <4>1, <4>3
    <3>4. fault' = fault  BY <3>2, <3>3, EntersIdle DEF HandleTimeout
    <3> QED  BY <2>0, <3>4 DEF ContextsOutliveTheirUse
  <2>4. CASE NetworkEvent
    <3>1. fault' = fault  BY <2>0, <2>4, MainHasScript, EntersIdle DEF NetworkEvent
    <3> QED  BY <2>0, <3>1 DEF ContextsOutliveTheirUse
  <2>5. CASE BeginDestroy
    <3>1. fault' = fault  BY <2>0, <2>5, MainHasScript, EntersIdle DEF BeginDestroy
    <3> QED  BY <2>0, <3>1 DEF ContextsOutliveTheirUse
  <2>6. CASE \E t \in Threads : EndRun(t)
    <3>1. PICK t \in Threads : EndRun(t)  BY <2>6
    <3>2. ~Destructed(t) => script[t] # "null"
      BY <3>1, ZEngineConstants DEF IInv, ThreadScript, EndRun, Dispatches
    <3>3. fault' = fault  BY <2>0, <3>1, <3>2, EntersIdle DEF EndRun
    <3> QED  BY <2>0, <3>3 DEF ContextsOutliveTheirUse
  <2>7. CASE \E c \in Contexts : \E x \in Contexts : Lookup(c, x)
    <3>1. PICK c \in Contexts : \E x \in Contexts : Lookup(c, x)  BY <2>7
    <3>2. /\ fault' \in {fault, "registry"} \/ (fault' = "context" /\ main = "deleted")
          /\ script[c] = "busy" /\ zengine_threads_' = zengine_threads_
      BY <3>1 DEF Lookup, root
    <3> QED  BY <2>0, <3>2, LateThread DEF ContextsOutliveTheirUse
  <2>8. CASE \/ \E c \in Contexts : \/ \E t \in Threads : CreateZEngineThread(c, t)
                                   \/ \E id \in TimerIds : SetTimer(c, id) \/ KillTimer(c, id)
                                   \/ ScriptReturns(c)
             \/ \E t \in Threads : \/ CreateContext(t) \/ AddContext(t) \/ CleanUp(t)
                                   \/ RemoveContext(t) \/ DestroyLoop(t) \/ Stop(t)
                                   \/ Clear(t)
             \/ Shutdown \/ Join \/ BeginClear \/ DestroyContext \/ DeleteContext
    <3>1. fault' \in {fault, "registry", "threads"}
      BY <2>8
         DEF SetTimer, KillTimer, ScriptReturns, CreateZEngineThread, CreateContext,
             AddContext, CleanUp, RemoveContext, DestroyLoop, Stop, Clear, BeginStop,
             Shutdown, Join, BeginClear, DestroyContext, DeleteContext
    <3> QED  BY <2>0, <3>1 DEF ContextsOutliveTheirUse
  <2>9. CASE \E c \in Contexts : LoopStep(c)
    <3>1. PICK c \in Contexts : LoopStep(c)  BY <2>9
    <3>2. CASE PostTask(c)  BY <2>1, <3>2
    <3>3. CASE RunTask(c)  BY <2>2, <3>3
    <3>4. CASE \E p \in scheduled[c] : HandleTimeout(c, p)  BY <2>3, <3>4
    <3>5. CASE ScriptReturns(c)
      <4>1. fault' = fault  BY <3>5 DEF ScriptReturns
      <4> QED  BY <2>0, <4>1 DEF ContextsOutliveTheirUse
    <3> QED  BY <3>1, <3>2, <3>3, <3>4, <3>5 DEF LoopStep
  <2>10. CASE \E c \in Contexts : ScriptStep(c)
    BY <2>7, <2>8, <2>10 DEF ScriptStep
  <2>11. CASE \E t \in Threads : ThreadStep(t)
    BY <2>0, <2>6, <2>8, <2>9, <2>11 DEF ThreadStep
  <2>12. CASE MainStep
    BY <2>0, <2>5, <2>8, <2>9, <2>12 DEF MainStep
  <2>13. CASE Shutdown  BY <2>8, <2>13
  <2> QED  BY <1>1, <2>4, <2>10, <2>11, <2>12, <2>13 DEF Next
<1>2. CASE UNCHANGED vars
  BY <1>2 DEF IInv, ContextsOutliveTheirUse, vars, root
<1> QED  BY <1>1, <1>2

-----------------------------------------------------------------------------
(* Timers.                                                                  *)

\* A map and the loop's tasks agree.
Agree(ids, ps) ==
    LET live == {p \in ps : p.timer_} IN
    /\ {p.id : p \in live} = ids
    /\ \A p, q \in live : p.id = q.id => p = q

\* The four changes to them: set, kill or destroy, fire, and drop an
\* abandoned task.
LEMMA SetAgrees ==
    ASSUME NEW ids, NEW ps, Agree(ids, ps), NEW id, id \notin ids, NEW n
    PROVE  Agree(ids \cup {id}, ps \cup {[id |-> id, set |-> n, timer_ |-> TRUE]})
<1>1. PICK new : new = [id |-> id, set |-> n, timer_ |-> TRUE]  OBVIOUS
<1>2. new.id = id /\ new.timer_  BY <1>1
<1>3. Agree(ids \cup {id}, ps \cup {new})
  <2> DEFINE live == {p \in ps : p.timer_}
             live2 == {p \in ps \cup {new} : p.timer_}
  <2>1. live2 = live \cup {new}  BY <1>2
  <2>2. {p.id : p \in live} = ids /\ \A p, q \in live : p.id = q.id => p = q
    BY DEF Agree
  <2>3. {p.id : p \in live2} = ids \cup {id}
    <3> HIDE DEF live, live2
    <3> QED  BY <1>2, <2>1, <2>2
  <2>4. \A p \in live : p.id # id
    <3> HIDE DEF live, live2
    <3> QED  BY <2>2
  <2>5. \A p, q \in live2 : p.id = q.id => p = q
    <3> HIDE DEF live, live2
    <3> QED  BY <1>2, <2>1, <2>2, <2>4
  <2> QED  BY <2>3, <2>5 DEF Agree
<1> QED  BY <1>1, <1>3

\* Killing timers abandons exactly their tasks.
LEMMA AbandonAgrees ==
    ASSUME NEW ids, NEW ps \in SUBSET TimerTasks, Agree(ids, ps), NEW dead
    PROVE  Agree(ids \ dead, Abandon(ps, dead))
<1>1. \A p \in Abandon(ps, dead) : p.timer_ => p \in ps /\ p.id \notin dead
  <2> SUFFICES ASSUME NEW p \in Abandon(ps, dead), p.timer_
               PROVE  p \in ps /\ p.id \notin dead
    OBVIOUS
  <2>1. PICK q \in ps : p = IF q.id \in dead THEN [q EXCEPT !.timer_ = FALSE] ELSE q
    BY DEF Abandon
  <2>2. q \in TimerTasks  BY <2>1
  <2>3. q.id \notin dead
    <3> SUFFICES ASSUME q.id \in dead PROVE FALSE
      OBVIOUS
    <3>1. p = [q EXCEPT !.timer_ = FALSE]  BY <2>1
    <3>2. p.timer_ = FALSE  BY <2>2, <3>1 DEF TimerTasks
    <3> QED  BY <3>2
  <2> QED  BY <2>1, <2>3
<1>2. \A p \in ps : p.id \notin dead => p \in Abandon(ps, dead)  BY DEF Abandon
<1> QED  BY <1>1, <1>2 DEF Agree

\* A timer that fires leaves the loop and the map.
LEMMA FireAgrees ==
    ASSUME NEW ids, NEW ps, Agree(ids, ps), NEW p \in ps, p.timer_
    PROVE  Agree(ids \ {p.id}, ps \ {p})
  BY DEF Agree

\* An abandoned task leaves the loop.
LEMMA DropAgrees ==
    ASSUME NEW ids, NEW ps, Agree(ids, ps), NEW p \in ps, ~p.timer_
    PROVE  Agree(ids, ps \ {p})
  BY DEF Agree

\* The contexts that have a loop, or may still get one.
Loops(th) == {d \in Contexts : d \in Threads => th[d] # "ended"}

\* A context's map and tasks agree after a step that changes neither, or
\* changes them in one of the four ways, at one context, and gives no context
\* its loop back.
LEMMA AgreeAt ==
    ASSUME Types, TimersConsistent, NEW c \in Contexts, NEW ids, NEW ps,
           Loops(thread') \subseteq Loops(thread),
           c \in Loops(thread') => Agree(ids, ps),
           timers_' = [timers_ EXCEPT ![c] = ids],
           scheduled' = [scheduled EXCEPT ![c] = ps]
    PROVE  TimersConsistent'
<1>1. \A d \in Loops(thread) : Agree(timers_[d], scheduled[d])
  BY DEF TimersConsistent, Agree, Loops
<1>2. \A d \in Loops(thread') : Agree(timers_'[d], scheduled'[d])
  <2> SUFFICES ASSUME NEW d \in Loops(thread')
               PROVE  Agree(timers_'[d], scheduled'[d])
    OBVIOUS
  <2>0. d \in Contexts  BY DEF Loops
  <2>1. CASE d = c
    <3>1. timers_'[d] = ids /\ scheduled'[d] = ps
      BY <2>0, <2>1 DEF Types, TypeOK
    <3> QED  BY <2>1, <3>1
  <2>2. CASE d # c
    <3>1. timers_'[d] = timers_[d] /\ scheduled'[d] = scheduled[d]
      BY <2>0, <2>2 DEF Types, TypeOK
    <3> QED  BY <1>1, <3>1
  <2> QED  BY <2>1, <2>2
<1> QED  BY <1>2 DEF TimersConsistent, Agree, Loops

\* The map and the loop agree after every step.
LEMMA TimersStep ==
    ASSUME IInv, [Next]_vars
    PROVE  TimersConsistent'
<1>0. Types /\ TimersConsistent /\ ThreadScript  BY DEF IInv
<1>a. /\ \A c \in Loops(thread) : Agree(timers_[c], scheduled[c])
      /\ timers_ \in [Contexts -> SUBSET TimerIds]
      /\ scheduled \in [Contexts -> SUBSET TimerTasks]
      /\ \A c \in Contexts : scheduled[c] \in SUBSET TimerTasks
      /\ Main \in Contexts /\ Threads \subseteq Contexts
      /\ Main \in Loops(thread)
  BY <1>0, ZEngineConstants
     DEF TimersConsistent, Agree, Types, TypeOK, Contexts, Loops
<1>d. \A c \in Contexts : script[c] = "busy" \/ Dispatches(c) => c \in Loops(thread)
  BY <1>0, ZEngineConstants DEF ThreadScript, Dispatches, Loops
<1>e. Loops(thread') \subseteq Loops(thread)
  <2>1. \/ thread' = thread
        \/ \E t \in Threads : \E s \in ThreadStates :
              thread[t] # "ended" /\ thread' = [thread EXCEPT ![t] = s]
    <3>1. CASE \E c \in Contexts, t \in Threads : CreateZEngineThread(c, t)
      BY <3>1 DEF CreateZEngineThread, ThreadStates
    <3>2. CASE \E t \in Threads : CreateContext(t) \/ AddContext(t) \/ EndRun(t)
                                  \/ CleanUp(t) \/ RemoveContext(t) \/ DestroyLoop(t)
      BY <3>2, ZEngineConstants
         DEF CreateContext, AddContext, EndRun, CleanUp, RemoveContext, DestroyLoop,
             Dispatches, ThreadStates
    <3>3. CASE \/ \E c \in Contexts : ScriptActs(c) \/ LoopStep(c)
               \/ \E t \in Threads : Stop(t) \/ Clear(t)
               \/ NetworkEvent \/ Shutdown \/ Join \/ BeginClear \/ BeginDestroy
               \/ DestroyContext \/ DeleteContext \/ UNCHANGED vars
      BY <3>3
         DEF ScriptActs, Lookup, SetTimer, KillTimer, LoopStep, PostTask, RunTask,
             HandleTimeout, ScriptReturns, Stop, Clear, BeginStop, NetworkEvent,
             Shutdown, Join, BeginClear, BeginDestroy, DestroyContext,
             DeleteContext, vars, threads
    <3> QED
      BY <1>a, <3>1, <3>2, <3>3 DEF Next, MainStep, ThreadStep, ScriptStep, ScriptActs
  <2> QED  BY <1>0, <2>1 DEF Loops, Types, TypeOK
<1>b. ASSUME UNCHANGED timing PROVE TimersConsistent'
  BY <1>0, <1>b, <1>e DEF TimersConsistent, timing, Loops
<1>c. ASSUME NEW c \in Loops(thread), Destroy(c) PROVE TimersConsistent'
  <2>0. c \in Contexts  BY DEF Loops
  <2>1. Agree(timers_[c] \ timers_[c], Abandon(scheduled[c], timers_[c]))
    BY <1>a, <2>0, AbandonAgrees
  <2>2. timers_[c] \ timers_[c] = {}  OBVIOUS
  <2>3. /\ timers_' = [timers_ EXCEPT ![c] = {}]
        /\ scheduled' = [scheduled EXCEPT ![c] = Abandon(scheduled[c], timers_[c])]
    BY <1>c DEF Destroy
  <2> QED  BY <1>0, <1>e, <2>0, <2>1, <2>2, <2>3, AgreeAt
<1>1. ASSUME NEW c \in Contexts, NEW id \in TimerIds, SetTimer(c, id)
      PROVE  TimersConsistent'
  <2>1. PICK n \in 1 .. MaxPending + 1 :
          /\ id \notin timers_[c] /\ script[c] = "busy"
          /\ timers_' = [timers_ EXCEPT ![c] = timers_[c] \cup {id}]
          /\ scheduled' = [scheduled EXCEPT ![c] = scheduled[c] \cup
                              {[id |-> id, set |-> n, timer_ |-> TRUE]}]
    BY <1>1 DEF SetTimer
  <2>2. Agree(timers_[c] \cup {id},
              scheduled[c] \cup {[id |-> id, set |-> n, timer_ |-> TRUE]})
    BY <1>a, <1>d, <2>1, SetAgrees
  <2> QED  BY <1>0, <1>e, <2>1, <2>2, AgreeAt
<1>2. ASSUME NEW c \in Contexts, NEW id \in TimerIds, KillTimer(c, id)
      PROVE  TimersConsistent'
  <2>1. /\ timers_' = [timers_ EXCEPT ![c] = timers_[c] \ {id}]
        /\ scheduled' = [scheduled EXCEPT ![c] = Abandon(scheduled[c], {id})]
        /\ script[c] = "busy"
    BY <1>2 DEF KillTimer
  <2>2. Agree(timers_[c] \ {id}, Abandon(scheduled[c], {id}))
    BY <1>a, <1>d, <2>1, AbandonAgrees
  <2> QED  BY <1>0, <1>e, <2>1, <2>2, AgreeAt
<1>3. ASSUME NEW c \in Contexts, NEW p \in scheduled[c], HandleTimeout(c, p)
      PROVE  TimersConsistent'
  <2>1. /\ scheduled' = [scheduled EXCEPT ![c] = scheduled[c] \ {p}]
        /\ Agree(timers_[c], scheduled[c])
    BY <1>3, <1>a, <1>d DEF HandleTimeout
  <2>2. CASE p.timer_
    <3>1. timers_' = [timers_ EXCEPT ![c] = timers_[c] \ {p.id}]
      BY <1>3, <2>2 DEF HandleTimeout, ForgetTimer
    <3>2. Agree(timers_[c] \ {p.id}, scheduled[c] \ {p})
      BY <2>1, <2>2, FireAgrees
    <3> QED  BY <1>0, <1>e, <2>1, <3>1, <3>2, AgreeAt
  <2>3. CASE ~p.timer_
    <3>1. timers_' = [timers_ EXCEPT ![c] = timers_[c]]
      BY <1>3, <1>a, <2>3 DEF HandleTimeout
    <3>2. Agree(timers_[c], scheduled[c] \ {p})
      BY <2>1, <2>3, DropAgrees
    <3> QED  BY <1>0, <1>e, <2>1, <3>1, <3>2, AgreeAt
  <2> QED  BY <2>2, <2>3
<1>4. ASSUME NEW t \in Threads, DestroyLoop(t) PROVE TimersConsistent'
  <2>1. t \in Contexts /\ t \notin Loops(thread')
    BY <1>0, <1>4, <1>a DEF DestroyLoop, Loops, Types, TypeOK
  <2>2. /\ timers_' = [timers_ EXCEPT ![t] = timers_[t]]
        /\ scheduled' = [scheduled EXCEPT ![t] = {}]
    BY <1>4, <1>a DEF DestroyLoop
  <2> QED  BY <1>0, <1>e, <2>1, <2>2, AgreeAt
<1>5. ASSUME NEW t \in Threads, RemoveContext(t) PROVE TimersConsistent'
  <2>1. Destroy(t) \/ UNCHANGED timing  BY <1>5 DEF RemoveContext, timing
  <2>2. t \in Loops(thread)  BY <1>5, <1>a DEF RemoveContext, Loops
  <2> QED  BY <1>b, <1>c, <2>1, <2>2
<1>6. ASSUME DeleteContext PROVE TimersConsistent'
  <2>1. Destroy(Main) \/ UNCHANGED timing  BY <1>6 DEF DeleteContext, timing
  <2> QED  BY <1>a, <1>b, <1>c, <2>1
<1>7. ASSUME \/ \E c \in Contexts : \/ \E x \in Contexts : Lookup(c, x)
                                   \/ \E t \in Threads : CreateZEngineThread(c, t)
                                   \/ PostTask(c) \/ RunTask(c) \/ ScriptReturns(c)
             \/ \E t \in Threads : \/ CreateContext(t) \/ AddContext(t) \/ EndRun(t)
                                   \/ CleanUp(t) \/ Stop(t) \/ Clear(t)
             \/ NetworkEvent \/ Shutdown \/ Join \/ BeginClear \/ BeginDestroy
             \/ DestroyContext \/ UNCHANGED vars
      PROVE  TimersConsistent'
  <2>1. UNCHANGED timing
    BY <1>7
       DEF Lookup, PostTask, RunTask, ScriptReturns, CreateZEngineThread,
           CreateContext, AddContext, EndRun, CleanUp, Stop, Clear, BeginStop,
           NetworkEvent, Shutdown, Join, BeginClear, BeginDestroy, DestroyContext,
           vars, timing
  <2> QED  BY <1>b, <2>1
<1>8. ASSUME NEW c \in Contexts, LoopStep(c) PROVE TimersConsistent'
  <2>1. CASE \E p \in scheduled[c] : HandleTimeout(c, p)  BY <1>3, <2>1
  <2>2. CASE PostTask(c) \/ RunTask(c) \/ ScriptReturns(c)
    <3>1. UNCHANGED timing  BY <2>2 DEF PostTask, RunTask, ScriptReturns
    <3> QED  BY <1>b, <3>1
  <2> QED  BY <1>8, <2>1, <2>2 DEF LoopStep
<1>9. ASSUME NEW c \in Contexts, ScriptStep(c) PROVE TimersConsistent'
  BY <1>1, <1>2, <1>7, <1>9 DEF ScriptStep
<1>10. ASSUME NEW t \in Threads, ThreadStep(t) PROVE TimersConsistent'
  BY <1>a, <1>4, <1>5, <1>7, <1>8, <1>10 DEF ThreadStep
<1>11. ASSUME MainStep PROVE TimersConsistent'
  BY <1>a, <1>6, <1>7, <1>8, <1>11 DEF MainStep
<1> QED  BY <1>7, <1>9, <1>10, <1>11 DEF Next

-----------------------------------------------------------------------------
(* The theorems.                                                            *)

\* Root::Initialize establishes the inductive invariant.
LEMMA InitIInv ==
    ASSUME Init PROVE IInv
<1>1. Main \in Contexts /\ Threads \subseteq Contexts /\ Main \notin Threads
      /\ None \notin Contexts
  BY ZEngineConstants DEF Contexts
<1>2. TypeOK
  <2>1. /\ main \in MainStates
        /\ zengine_threads_ \subseteq Threads /\ ahead \subseteq zengine_threads_
        /\ joining \in Threads \cup {None}
        /\ asked \in BOOLEAN /\ quit \in [Threads -> BOOLEAN]
    BY DEF Init, MainStates
  <2>2. thread \in [Threads -> {"none", "starting", "failed", "adding", "running",
                               "cleaning", "removing", "closing", "ended"}]
    BY DEF Init
  <2>3. /\ contexts_ \in Seq(Contexts \cup {Undefined})
        /\ copy \in [Threads -> Seq(Contexts \cup {Undefined})]
    BY <1>1 DEF Init
  <2>4. /\ script \in [Contexts -> {"null", "idle", "busy", "destroyed"}]
        /\ held \in [Contexts -> Contexts \cup {None, Null}]
    BY DEF Init
  <2>5. queue \in [Contexts -> Seq({Data, QuitTask})]  BY DEF Init
  <2>6. timers_ \in [Contexts -> SUBSET TimerIds]  BY DEF Init
  <2>7. \A c \in Contexts : \A p \in scheduled[c] :
            p \in [id : TimerIds, set : 1 .. MaxPending + 1, timer_ : BOOLEAN]
    BY DEF Init
  <2>8. fault \in Faults  BY DEF Init, Faults
  <2> QED
    BY <2>1, <2>2, <2>3, <2>4, <2>5, <2>6, <2>7, <2>8 DEF TypeOK, MainStates, Faults
<1>3. Types  BY <1>2 DEF Init, Types
<1>4. ThreadScript /\ MainScript /\ HeldByBusy
  BY <1>1 DEF Init, ThreadScript, MainScript, HeldByBusy
<1>5. InTheMap  BY DEF Init, InTheMap, Alive
<1>6. NotYetStopped
  BY <1>1 DEF Init, NotYetStopped
<1>7. OnlyMadeContexts
  <2>1. \A k \in 1 .. Len(contexts_) : contexts_[k] = Main  BY DEF Init
  <2>2. \A t \in Threads : Len(copy[t]) = 0  BY DEF Init
  <2>3. \A c \in Contexts : held[c] = None  BY DEF Init
  <2> QED  BY <1>1, <2>1, <2>2, <2>3 DEF OnlyMadeContexts, Made, Contexts
<1>8. NoTimersLeft /\ OnlyMadePosted /\ ContextsOutliveTheirUse
  BY <1>1 DEF Init, NoTimersLeft, OnlyMadePosted, ContextsOutliveTheirUse
<1>9. TimersConsistent  BY DEF Init, TimersConsistent
<1> QED  BY <1>3, <1>4, <1>5, <1>6, <1>7, <1>8, <1>9 DEF IInv

\* Every step of the engine preserves it.
LEMMA Invariance ==
    ASSUME IInv, [Next]_vars PROVE IInv'
<1>1. Types'  BY TypeStep DEF IInv
<1>2. TimersConsistent'  BY TimersStep
<1>3. ContextsOutliveTheirUse'  BY UseStep
<1>4. /\ ThreadScript' /\ MainScript' /\ HeldByBusy' /\ InTheMap'
      /\ NotYetStopped' /\ OnlyMadeContexts' /\ OnlyMadePosted' /\ NoTimersLeft'
  BY <1>1, LifeStep DEF Life
<1> QED  BY <1>1, <1>2, <1>3, <1>4 DEF IInv

\* The root, the threads, the registry, the scripts and the timers keep to
\* their types, whatever the races on contexts_ leave in it.
THEOREM TypeCorrect == Spec => []TypeOK
<1>1. IInv => TypeOK  BY DEF IInv, Types
<1> QED  BY InitIInv, Invariance, <1>1, PTL DEF Spec

\* Whatever scripts create, post and look up, and whenever: no task, timer or
\* network event enters a script that is gone; the deleted main context is used
\* only if a script created a thread after OnDestroy's clear(), for it joins
\* every other one; and a post meets a dead message loop only once OnDestroy is
\* stopping the threads (Root::CreateZEngineThread and OnDestroy,
\* ZEngineContext::OnTimer, OnTaskDataReceived and PostTask).
THEOREM NoUseAfterDestruction == Spec => []ContextsOutliveTheirUse
<1>1. IInv => ContextsOutliveTheirUse  BY DEF IInv
<1> QED  BY InitIInv, Invariance, <1>1, PTL DEF Spec

\* An id in TimerManager's map has exactly one task in the loop that will fire
\* it, and no other task fires (SetTimer, KillTimer, HandleTimeout, ~Timer).
THEOREM TimersAgree == Spec => []TimersConsistent
<1>1. IInv => TimersConsistent  BY DEF IInv
<1> QED  BY InitIInv, Invariance, <1>1, PTL DEF Spec

=============================================================================
