------------------------------- MODULE ZEngine -------------------------------
(***************************************************************************)
(* The scripting engine's contexts, threads and timers: zengine::Root,      *)
(* ZEngineThread (a base::Thread), ZEngineContext, ZEngineContextManager    *)
(* and TimerManager, from Root::Run to the end of Root::OnDestroy.          *)
(*                                                                          *)
(* Each context has a loop, a script and timers.  A script runs inside a    *)
(* callback (initialisation, task, timer, network event, destruction) and,  *)
(* while it runs, sets and kills timers, posts to other contexts by looking *)
(* them up in the manager's vector, and creates threads: every Lua state    *)
(* has CreateZEngineThread, in OnDestroy's hooks and afterwards as well.    *)
(* Left out: what a script does while it is being loaded, and the threads   *)
(* created after OnDestroy's clear(), once ~Root joins them at exit.        *)
(*                                                                          *)
(* The vector contexts_ has no lock.  A push_back copies and then           *)
(* publishes, an erase shifts: an access of another thread in between is a  *)
(* data race, and the model allows each outcome: an entry missed, lost,     *)
(* brought back or left undefined, or a read of freed storage.  The map of  *)
(* threads has none either.  fault records the first use of something that  *)
(* does not exist, or of a map another thread is using; nothing is claimed  *)
(* of the program after it.                                                 *)
(***************************************************************************)
EXTENDS Integers, Sequences, FiniteSets, SequencesExt, FiniteSetsExt

CONSTANTS
    Threads,    \* instance names of the engine threads
    Main,       \* kMainInstanceName; kZEngineContextType_IO is the same type
    TimerIds,   \* timer ids scripts use
    Undefined,  \* an element of contexts_ that no thread has written
    Null,       \* a lookup that found nothing
    None,       \* no lookup under way, nobody joined
    MaxPending  \* bound: scripts post and set timers below so many pending tasks

ASSUME ZEngineConstants ==
    /\ Main \notin Threads
    /\ {Undefined, Null, None} \cap (Threads \cup {Main}) = {}
    /\ Cardinality({Undefined, Null, None}) = 3
    /\ MaxPending \in Nat

VARIABLES
    main,              \* where Root::Run is
    zengine_threads_,  \* names in the map
    ahead,             \* the threads OnDestroy's iterator has yet to reach
    joining,           \* the thread OnDestroy is stopping
    asked,             \* the daemon was told to shut down
    thread,            \* state of each base::Thread
    quit,              \* QuitWhenIdle was called in it
    contexts_,         \* the manager's vector
    copy,              \* what a push_back under way has copied
    script,            \* script_manager_ of each context
    queue,             \* tasks posted to its loop
    held,              \* context a post of its script is about to use
    timers_,           \* TimerManager: ids in the map
    scheduled,         \* BaseTimerTaskInternals in the loop
    fault

root == <<main, zengine_threads_, ahead, joining, asked>>
threads == <<thread, quit>>
registry == <<contexts_, copy>>
timing == <<timers_, scheduled>>
vars == <<root, threads, registry, script, queue, held, timing, fault>>

Contexts == Threads \cup {Main}
Data == "data"
QuitTask == "quit"
Alive(t) == thread[t] \in {"starting", "adding", "running", "cleaning",
                           "removing", "closing"}

\* Root::Initialize has registered the main context; Run begins OnCreate.
Init ==
    /\ main = "creating"
    /\ zengine_threads_ = {}
    /\ ahead = {}
    /\ joining = None
    /\ asked = FALSE
    /\ thread = [t \in Threads |-> "none"]
    /\ quit = [t \in Threads |-> FALSE]
    /\ contexts_ = <<Main>>
    /\ copy = [t \in Threads |-> <<>>]
    /\ script = [c \in Contexts |-> IF c = Main THEN "busy" ELSE "null"]
    /\ queue = [c \in Contexts |-> <<>>]
    /\ held = [c \in Contexts |-> None]
    /\ timers_ = [c \in Contexts |-> {}]
    /\ scheduled = [c \in Contexts |-> {}]
    /\ fault = "none"

-----------------------------------------------------------------------------
(* Engine threads: CreateZEngineThread and ThreadMain up to Run.            *)

\* Another thread may be in the map: OnDestroy's loop or clear(), or a script.
MapShared(c) ==
    \/ main \in {"stopping", "clearing"}
    \/ \E d \in Contexts \ {c} : script[d] = "busy"

\* The result of Start is ignored: a thread that could not be created is in
\* the map all the same.  Start does not wait for Init.  OnDestroy's iterator
\* may or may not reach an element inserted behind its back.  Each name is
\* used once (a bound).
CreateZEngineThread(c, t) ==
    /\ script[c] = "busy"
    /\ held[c] = None
    /\ t \notin zengine_threads_
    /\ thread[t] = "none"
    /\ \/ /\ main # "clearing"
          /\ zengine_threads_' = zengine_threads_ \cup {t}
          /\ \E s \in {"starting", "failed"} : thread' = [thread EXCEPT ![t] = s]
          /\ \/ UNCHANGED ahead
             \/ main = "stopping" /\ ahead' = ahead \cup {t}
          /\ UNCHANGED fault
       \/ /\ MapShared(c)
          /\ fault' = "threads"
          /\ UNCHANGED <<zengine_threads_, ahead, thread>>
    /\ UNCHANGED <<main, joining, asked, quit, registry, script, queue, held,
                   timing>>

\* clear() runs ~ZEngineThread and then, in ~Thread, Stop: from there on Init
\* and CleanUp are base::Thread's, which do nothing.
Destructed(t) == main = "clearing" /\ joining = t

\* ZEngineThread::Init: the context is made and its push_back begins.
CreateContext(t) ==
    /\ thread[t] = "starting"
    /\ IF Destructed(t)
         THEN /\ thread' = [thread EXCEPT ![t] = "running"]
              /\ UNCHANGED <<script, copy>>
         ELSE /\ thread' = [thread EXCEPT ![t] = "adding"]
              /\ script' = [script EXCEPT ![t] = "idle"]
              /\ copy' = [copy EXCEPT ![t] = contexts_]
    /\ UNCHANGED <<root, quit, contexts_, queue, held, timing, fault>>

\* What the vector may hold after a push_back that began on old and ends on
\* now: new storage filled from old; the new element behind what others
\* wrote; or both wrote one slot and the next one is counted but unwritten.
PushBack(old, now, t) ==
    {Append(old, t), Append(now, t)}
        \cup (IF Len(now) > Len(old) THEN {old \o <<t, Undefined>>} ELSE {})

\* The push_back ends and OnThreadInitialize begins.
AddContext(t) ==
    /\ thread[t] = "adding"
    /\ contexts_' \in PushBack(copy[t], contexts_, t)
    /\ copy' = [copy EXCEPT ![t] = <<>>]
    /\ thread' = [thread EXCEPT ![t] = "running"]
    /\ script' = [script EXCEPT ![t] = "busy"]
    /\ UNCHANGED <<root, quit, queue, held, timing, fault>>

-----------------------------------------------------------------------------
(* What scripts do.                                                         *)

\* Another thread is writing the vector.
Adding(c) == \E t \in Threads \ {c} : thread[t] = "adding"
Removing(c) ==
    \/ \E t \in Threads \ {c} : thread[t] = "removing"
    \/ c # Main /\ main = "removing"

\* The first index of x, 0 when it is not there.
Find(s, x) ==
    IF \E k \in DOMAIN s : s[k] = x
      THEN CHOOSE k \in DOMAIN s : s[k] = x /\ \A j \in 1 .. k - 1 : s[j] # x
      ELSE 0

\* The search for x reads an element y on its way.
Reads(x, y) ==
    \E j \in DOMAIN contexts_ :
        /\ contexts_[j] = y
        /\ Find(contexts_, x) \in {0} \cup (j .. Len(contexts_))

\* Mutant: not found gives the element behind the last one.
FoundPastEnd(x) == IF Find(contexts_, x) = 0 THEN Undefined ELSE x

\* What an undisturbed search returns.
Found(x) == IF Find(contexts_, x) = 0 THEN Null ELSE x

\* Scripts' tasks and timers pending in all the loops.
Pending ==
    MapThenSumSet(LAMBDA c : Cardinality({k \in DOMAIN queue[c] : queue[c][k] = Data})
                                + Cardinality(scheduled[c]), Contexts)

\* LookupContext by name or id, LookupMainContext, LookupIOContext.  The
\* element is read once to compare it and once to return it.
Lookup(c, x) ==
    /\ script[c] = "busy"
    /\ held[c] = None
    /\ Pending < MaxPending
    /\ \/ /\ ~Reads(x, Undefined)
          /\ held' = [held EXCEPT ![c] = Found(x)]
          /\ UNCHANGED fault
       \/ /\ Adding(c) \/ Removing(c)
          /\ held' = [held EXCEPT ![c] = Null]
          /\ UNCHANGED fault
       \/ /\ Removing(c)
          /\ \E y \in Range(contexts_) \ {Undefined} : held' = [held EXCEPT ![c] = y]
          /\ UNCHANGED fault
       \/ /\ Adding(c) \/ Reads(x, Undefined)
          /\ fault' = "registry"
          /\ UNCHANGED held
       \/ /\ main = "deleted" /\ Reads(x, Main)
          /\ fault' = "context"
          /\ UNCHANGED held
    /\ UNCHANGED <<root, threads, registry, script, queue, timing>>

\* What a post through the context of x finds: its loop, a context without
\* one, or, for the main context, nothing.
Uses(x) ==
    IF x = Main THEN (IF main = "deleted" THEN "context" ELSE "none")
                ELSE (IF Alive(x) THEN "none" ELSE "loop")

\* PostTask through the context found, if any: the task goes to its loop.
PostTask(c) ==
    /\ held[c] # None
    /\ held' = [held EXCEPT ![c] = None]
    /\ LET x == held[c] IN
         IF x = Null
           THEN UNCHANGED <<queue, fault>>
           ELSE /\ fault' = Uses(x)
                /\ queue' = [queue EXCEPT ![x] = Append(@, Data)]
    /\ UNCHANGED <<root, threads, registry, script, timing>>

\* SetTimer: a one-shot base::Timer; refused while the id is in the map.
\* The bound leaves room for one more beside the id's abandoned task.
SetTimer(c, id) ==
    /\ script[c] = "busy"
    /\ held[c] = None
    /\ id \notin timers_[c]
    /\ \/ Pending < MaxPending
       \/ Pending = MaxPending /\ \E p \in scheduled[c] : p.id = id
    /\ timers_' = [timers_ EXCEPT ![c] = @ \cup {id}]
    /\ \E n \in 1 .. MaxPending + 1 :
          /\ \A m \in 1 .. n : (\E p \in scheduled[c] : p.set = m) <=> m < n
          /\ scheduled' = [scheduled EXCEPT ![c] = @ \cup
                              {[id |-> id, set |-> n, timer_ |-> TRUE]}]
    /\ UNCHANGED <<root, threads, registry, script, queue, held, fault>>

\* ~Timer: the task stays in the loop, without its timer.
Abandon(ps, ids) ==
    {IF p.id \in ids THEN [p EXCEPT !.timer_ = FALSE] ELSE p : p \in ps}

KillTimer(c, id) ==
    /\ script[c] = "busy"
    /\ held[c] = None
    /\ id \in timers_[c]
    /\ timers_' = [timers_ EXCEPT ![c] = @ \ {id}]
    /\ scheduled' = [scheduled EXCEPT ![c] = Abandon(@, {id})]
    /\ UNCHANGED <<root, threads, registry, script, queue, held, fault>>

-----------------------------------------------------------------------------
(* The loops.                                                               *)

Dispatches(c) ==
    /\ script[c] # "busy"
    /\ IF c = Main THEN main = "running" ELSE thread[c] = "running"

\* A callback of the context enters its script, which must be there.
EnterScript(c) ==
    IF script[c] = "idle"
      THEN script' = [script EXCEPT ![c] = "busy"] /\ UNCHANGED fault
      ELSE fault' = "script" /\ UNCHANGED script

\* The task at the head of the queue: OnTaskDataReceived; in an engine thread
\* ThreadQuitHelper, in the main loop the daemon's QuitNow.
RunTask(c) ==
    /\ Dispatches(c)
    /\ queue[c] # <<>>
    /\ queue' = [queue EXCEPT ![c] = Tail(@)]
    /\ \/ /\ Head(queue[c]) = Data
          /\ EnterScript(c)
          /\ UNCHANGED <<main, ahead, quit>>
       \/ /\ Head(queue[c]) = QuitTask
          /\ IF c = Main
               THEN /\ main' = "stopping"
                    /\ ahead' = zengine_threads_
                    /\ UNCHANGED quit
               ELSE quit' = [quit EXCEPT ![c] = TRUE] /\ UNCHANGED <<main, ahead>>
          /\ UNCHANGED <<script, fault>>
    /\ UNCHANGED <<zengine_threads_, joining, asked, thread, registry, held,
                   timing>>

\* Mutant: the id of a timer that has fired stays in the map.
ForgetNothing(c, id) == timers_[c]

\* The map without a timer that has fired.
ForgetTimer(c, id) == timers_[c] \ {id}

\* A timer task: HandleTimeout forgets the id, then OnTimer.  An abandoned
\* one does nothing.
HandleTimeout(c, p) ==
    /\ Dispatches(c)
    /\ p \in scheduled[c]
    /\ scheduled' = [scheduled EXCEPT ![c] = @ \ {p}]
    /\ IF p.timer_
         THEN /\ timers_' = [timers_ EXCEPT ![c] = ForgetTimer(c, p.id)]
              /\ EnterScript(c)
         ELSE UNCHANGED <<timers_, script, fault>>
    /\ UNCHANGED <<root, threads, registry, queue, held>>

\* A connection of the main loop calls the main script.
NetworkEvent ==
    /\ Dispatches(Main)
    /\ EnterScript(Main)
    /\ UNCHANGED <<root, threads, registry, queue, held, timing>>

\* A script returns to the loop, the main one's first time also from OnCreate.
ScriptReturns(c) ==
    /\ script[c] = "busy"
    /\ held[c] = None
    /\ IF c = Main THEN main \in {"creating", "running"} ELSE thread[c] = "running"
    /\ script' = [script EXCEPT ![c] = "idle"]
    /\ main' = IF c = Main THEN "running" ELSE main
    /\ UNCHANGED <<zengine_threads_, ahead, joining, asked, threads, registry, queue,
                   held, timing, fault>>

-----------------------------------------------------------------------------
(* An engine thread ends.                                                   *)

\* Run returns when the loop is idle after QuitWhenIdle; CleanUp runs
\* OnThreadDestroy, unless it is no longer ZEngineThread's.
EndRun(t) ==
    /\ Dispatches(t)
    /\ quit[t]
    /\ queue[t] = <<>>
    /\ IF Destructed(t)
         THEN thread' = [thread EXCEPT ![t] = "closing"] /\ UNCHANGED <<script, fault>>
         ELSE thread' = [thread EXCEPT ![t] = "cleaning"] /\ EnterScript(t)
    /\ UNCHANGED <<root, quit, registry, queue, held, timing>>

\* ZEngineContext::Destroy: RemoveContext begins.
CleanUp(t) ==
    /\ thread[t] = "cleaning"
    /\ script[t] = "busy"
    /\ held[t] = None
    /\ thread' = [thread EXCEPT ![t] = "removing"]
    /\ script' = [script EXCEPT ![t] = "idle"]
    /\ UNCHANGED <<root, quit, registry, queue, held, timing, fault>>

\* The timers and the script of a context are destroyed.
Destroy(c) ==
    /\ timers_' = [timers_ EXCEPT ![c] = {}]
    /\ scheduled' = [scheduled EXCEPT ![c] = Abandon(@, timers_[c])]
    /\ script' = [script EXCEPT ![c] = "destroyed"]

\* The vector without the first entry of x.
Erase(x) ==
    IF Find(contexts_, x) = 0 THEN contexts_ ELSE RemoveAt(contexts_, Find(contexts_, x))

\* The erase ends, then the rest of Destroy.
RemoveContext(t) ==
    /\ thread[t] = "removing"
    /\ \/ /\ ~Reads(t, Undefined)
          /\ contexts_' = Erase(t)
          /\ thread' = [thread EXCEPT ![t] = "closing"]
          /\ Destroy(t)
          /\ UNCHANGED fault
       \/ /\ Adding(t) \/ Reads(t, Undefined)
          /\ fault' = "registry"
          /\ UNCHANGED <<contexts_, thread, timers_, scheduled, script>>
    /\ UNCHANGED <<root, quit, copy, queue, held>>

\* ~MessageLoop deletes what is left in the queues.  The context itself is
\* never deleted.
DestroyLoop(t) ==
    /\ thread[t] = "closing"
    /\ thread' = [thread EXCEPT ![t] = "ended"]
    /\ queue' = [queue EXCEPT ![t] = <<>>]
    /\ scheduled' = [scheduled EXCEPT ![t] = {}]
    /\ UNCHANGED <<root, quit, registry, script, held, timers_, fault>>

-----------------------------------------------------------------------------
(* The main thread: shutting down.                                          *)

\* The daemon's signal handler posts QuitNow to the main loop.
Shutdown ==
    /\ main \in {"creating", "running"}
    /\ ~asked
    /\ asked' = TRUE
    /\ queue' = [queue EXCEPT ![Main] = Append(@, QuitTask)]
    /\ UNCHANGED <<main, zengine_threads_, ahead, joining, threads, registry, script,
                   held, timing, fault>>


\* StopSoon posts ThreadQuitHelper once Start has made the loop.
IsTold(t) == Alive(t)

\* Thread::Stop begins: the thread is told, and joined.
BeginStop(t) ==
    /\ joining = None
    /\ joining' = t
    /\ queue' = IF IsTold(t) THEN [queue EXCEPT ![t] = Append(@, QuitTask)] ELSE queue
    /\ UNCHANGED <<main, zengine_threads_, asked, threads, registry, script, held,
                   timing, fault>>

\* OnDestroy stops the threads in the order of the hash map.
Stop(t) ==
    /\ main = "stopping"
    /\ t \in ahead
    /\ ahead' = ahead \ {t}
    /\ BeginStop(t)

\* Mutant: StopSoon in place of Stop.
NotWaited(t) == TRUE

\* PlatformThread::Join returns, at once for a thread never created.
Exited(t) == ~Alive(t)

Join ==
    /\ main \in {"stopping", "clearing"}
    /\ joining # None
    /\ Exited(joining)
    /\ zengine_threads_' = IF main = "clearing" THEN zengine_threads_ \ {joining}
                                                ELSE zengine_threads_
    /\ joining' = None
    /\ UNCHANGED <<main, ahead, asked, threads, registry, script, queue, held,
                   timing, fault>>

\* The loop ends; clear() drops the threads that are not running ...
BeginClear ==
    /\ main = "stopping"
    /\ joining = None
    /\ ahead = {}
    /\ main' = "clearing"
    /\ zengine_threads_' = {t \in zengine_threads_ : ~Exited(t)}
    /\ UNCHANGED <<ahead, joining, asked, threads, registry, script, queue, held,
                   timing, fault>>

\* ... and stops, in their destructors, those the loop did not reach.
Clear(t) ==
    /\ main = "clearing"
    /\ t \in zengine_threads_
    /\ BeginStop(t)
    /\ UNCHANGED ahead

\* All joined: the main context's scripts OnThreadDestroy and MainDestroy.
BeginDestroy ==
    /\ main = "clearing"
    /\ joining = None
    /\ zengine_threads_ = {}
    /\ main' = "destroying"
    /\ EnterScript(Main)
    /\ UNCHANGED <<zengine_threads_, ahead, joining, asked, threads, registry, queue,
                   held, timing>>

\* ZEngineContext::Destroy: RemoveContext begins.
DestroyContext ==
    /\ main = "destroying"
    /\ held[Main] = None
    /\ main' = "removing"
    /\ script' = [script EXCEPT ![Main] = "idle"]
    /\ UNCHANGED <<zengine_threads_, ahead, joining, asked, threads, registry, queue,
                   held, timing, fault>>

\* The erase ends, and the main context is destroyed and deleted.
DeleteContext ==
    /\ main = "removing"
    /\ \/ /\ ~Reads(Main, Undefined)
          /\ main' = "deleted"
          /\ contexts_' = Erase(Main)
          /\ Destroy(Main)
          /\ UNCHANGED fault
       \/ /\ Adding(Main) \/ Reads(Main, Undefined)
          /\ fault' = "registry"
          /\ UNCHANGED <<main, contexts_, timers_, scheduled, script>>
    /\ UNCHANGED <<zengine_threads_, ahead, joining, asked, threads, copy, queue, held>>

-----------------------------------------------------------------------------
(* The specification.                                                       *)

\* What a script may do besides returning.
ScriptStep(c) ==
    \/ \E t \in Threads : CreateZEngineThread(c, t)
    \/ \E x \in Contexts : Lookup(c, x)
    \/ \E id \in TimerIds : SetTimer(c, id) \/ KillTimer(c, id)

LoopStep(c) ==
    \/ PostTask(c)
    \/ RunTask(c)
    \/ \E p \in scheduled[c] : HandleTimeout(c, p)
    \/ ScriptReturns(c)

ThreadStep(t) ==
    \/ CreateContext(t) \/ AddContext(t)
    \/ LoopStep(t)
    \/ EndRun(t) \/ CleanUp(t) \/ RemoveContext(t) \/ DestroyLoop(t)

MainStep ==
    \/ LoopStep(Main)
    \/ \E t \in Threads : Stop(t) \/ Clear(t)
    \/ Join \/ BeginClear \/ BeginDestroy \/ DestroyContext \/ DeleteContext

Next ==
    /\ fault = "none"
    /\ \/ MainStep
       \/ \E t \in Threads : ThreadStep(t)
       \/ \E c \in Contexts : ScriptStep(c)
       \/ NetworkEvent
       \/ Shutdown

Spec == Init /\ [][Next]_vars

\* Every thread is scheduled, every script returns, and every pass of the
\* main loop runs a task (DoWork), whatever network events it handles.
Fairness ==
    /\ WF_vars(fault = "none" /\ MainStep)
    /\ \A t \in Threads : WF_vars(fault = "none" /\ ThreadStep(t))
    /\ SF_vars(fault = "none" /\ RunTask(Main))

FairSpec == Spec /\ Fairness

-----------------------------------------------------------------------------
(* Properties.                                                              *)

\* Types of the root, the threads, the registry, the scripts and the timers.
TypeOK ==
    /\ main \in {"creating", "running", "stopping", "clearing", "destroying",
                "removing", "deleted"}
    /\ zengine_threads_ \subseteq Threads
    /\ ahead \subseteq zengine_threads_
    /\ joining \in Threads \cup {None}
    /\ asked \in BOOLEAN
    /\ thread \in [Threads -> {"none", "starting", "failed", "adding", "running",
                               "cleaning", "removing", "closing", "ended"}]
    /\ quit \in [Threads -> BOOLEAN]
    /\ contexts_ \in Seq(Contexts \cup {Undefined})
    /\ copy \in [Threads -> Seq(Contexts \cup {Undefined})]
    /\ script \in [Contexts -> {"null", "idle", "busy", "destroyed"}]
    /\ queue \in [Contexts -> Seq({Data, QuitTask})]
    /\ held \in [Contexts -> Contexts \cup {None, Null}]
    /\ timers_ \in [Contexts -> SUBSET TimerIds]
    /\ \A c \in Contexts : \A p \in scheduled[c] :
           p \in [id : TimerIds, set : 1 .. MaxPending + 1, timer_ : BOOLEAN]
    /\ fault \in {"none", "registry", "threads", "loop", "context", "script"}

\* Whatever the unlocked registry hands out, no task, timer or network event
\* enters a script that is gone (the DCHECKs of ZEngineContext::OnTimer and
\* OnTaskDataReceived).  The main context is used after its deletion only by
\* threads that scripts created after OnDestroy's clear(): it joins all others
\* first, those it was not iterating over included.  A post meets a dead
\* message loop only once OnDestroy is stopping the engine threads.
ContextsOutliveTheirUse ==
    /\ fault # "script"
    /\ fault = "context" => zengine_threads_ # {}
    /\ fault = "loop" => main \notin {"creating", "running"}

\* TimerManager's map and the loop agree: an id in the map has exactly one
\* task that will fire it, and no other task fires, so no timer fires twice
\* or after KillTimer and no id stays refused for ever, while there is a loop.
TimersConsistent ==
    \A c \in {d \in Contexts : d \in Threads => thread[d] # "ended"} :
        LET live == {p \in scheduled[c] : p.timer_} IN
        /\ {p.id : p \in live} = timers_[c]
        /\ \A p, q \in live : p.id = q.id => p = q

\* No script posts, sets a timer or creates a thread.
Quiet ==
    \A c \in Contexts :
        /\ \A x \in Contexts : ~Lookup(c, x)
        /\ \A id \in TimerIds : ~SetTimer(c, id)
        /\ \A t \in Threads : ~CreateZEngineThread(c, t)


=============================================================================
