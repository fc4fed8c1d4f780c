------------------------ MODULE MessagePumpNet_proofs -------------------------
(***************************************************************************)
(* For any number of posters, controllers and tasks, any pipe and any       *)
(* delays: the loop never sleeps over a task or past a delayed one, the     *)
(* callbacks reach live watchers, Thread::Stop loses no task that was due,  *)
(* and the loop implements TaskRunner.                                      *)
(***************************************************************************)
EXTENDS MessagePumpNet, SequenceTheorems, WellFoundedInduction, TLAPS

Poll == {"event_loop", "process_active", "write_cb", "read_cb"}
Over == {"destroy", "close", "gone"}

-----------------------------------------------------------------------------
(* The inductive invariant.                                                 *)

\* An event on the active list is one its controller still has, and that
\* controller is alive and watching.
Watches ==
    \A c \in Controllers :
        /\ c \in active => event_[c] # {}
        /\ event_[c] # {} => life[c] = "alive" /\ watcher_[c]

\* A callback that breaks the loop is the last one that runs.
BreakEnds == event_break => pc \notin {"process_active", "write_cb", "read_cb"}

\* The timer is on libevent's lists only during a sleep.
TimerOff ==
    timer_event # 0 \/ "timer" \in active => mode = "ONCE" /\ pc \in Poll

\* Run goes to sleep with the time of the first delayed task, ...
InTime(time) ==
    delayed_work_queue_ # {} =>
        time # 0 /\ time <= Top(delayed_work_queue_).at
ToSleep == pc \in {"idle", "sleep"} => InTime(delayed_work_time_)

\* ... and until it wakes up the timer is set to it or has gone off.
Sleeping ==
    pc \in Poll /\ mode = "ONCE" =>
        InTime(timer_event) \/ "timer" \in active \/ event_break

\* The loop will call DoWork before it sleeps again.
Awake ==
    \/ pc \in {"bind", "work", "task", "delayed_task"} \cup Over
    \/ did_work
    \/ pc \in Poll /\ IF mode = "ONCE" THEN event_break ELSE processed_io_events_

\* Run goes to sleep only after a DoWork that did nothing.
NoWorkDone ==
    pc \in {"idle", "sleep"} \/ (pc \in Poll /\ mode = "ONCE") => ~did_work

\* A loop that may sleep has an empty work queue, a wakeup under way for what
\* is in the other one, and a flag that lets the next post wake it.
Wakeups ==
    /\ ~is_ready_for_scheduling_ => pc = "bind"
    /\ work_queue_ # <<>> => Awake
    /\ incoming_queue_ # <<>> => Awake \/ pipe > 0 \/ writers > 0
    /\ incoming_queue_ = <<>> /\ message_loop_scheduled_ => Awake

\* Tasks are numbered in the order of the queues.
Sorted(s) == \A i, j \in 1 .. Len(s) : i < j => s[i].num < s[j].num
Below(S, T) == \A t \in S, u \in T : t.num < u.num
Order ==
    /\ Sorted(work_queue_) /\ Sorted(incoming_queue_)
    /\ Below(Elements(work_queue_), Elements(incoming_queue_))
    /\ Below(delayed_work_queue_, Elements(work_queue_))
    /\ Below(delayed_work_queue_, Elements(incoming_queue_))
    /\ \A t \in Elements(work_queue_) \cup Elements(incoming_queue_)
                  \cup delayed_work_queue_ : t.num < next_sequence_num_

\* Delayed tasks have a time and do not quit; the clock seen is not ahead.
Queued == Elements(work_queue_) \cup Elements(incoming_queue_)
Delayed ==
    /\ \A t \in delayed_work_queue_ : t.at # 0 /\ t.quit = "none"
    /\ \A t \in Queued : t.at # 0 => t.quit = "none"
    /\ recent_time_ <= now

\* One task quits the loop.
OneQuit ==
    /\ quit_received # "none" => \A t \in Queued : t.quit = "none"
    /\ \A t, u \in Queued : t.quit # "none" /\ u.quit # "none" => t = u

\* The pump stops for the task that quits at once, or in DoIdleWork.
Stops ==
    /\ ~keep_running_ => \/ quit_received = "now"
                         \/ quit_received = "idle" /\ pc \in Over
    /\ pc \in Over => ~keep_running_

\* After QuitWhenIdle the loop stays awake until the tasks posted before it
\* have run.
Drains ==
    /\ mark <= next_sequence_num_
    /\ quit_received = "idle" =>
          \/ \A t \in Queued : t.num >= mark
          \/ pc \in {"work", "task", "delayed_task"}
          \/ pc \in Poll \cup {"delayed"} /\ did_work

\* No task is lost before the loop is destroyed: it has run or is queued.
Kept(n) == n \in ran \/ \E t \in Queued \cup delayed_work_queue_ : t.num = n
Accounted == pc \notin Over => \A n \in 0 .. next_sequence_num_ - 1 : Kept(n)

\* DoDelayedWork leaves Run idle only when no delayed task was due.
NoneDue == pc = "idle" => \A t \in delayed_work_queue_ : t.at > recent_time_

IInv ==
    /\ TypeOK
    /\ Watches
    /\ BreakEnds /\ TimerOff /\ ToSleep /\ Sleeping
    /\ NoWorkDone /\ Wakeups
    /\ Order /\ Delayed
    /\ OneQuit /\ Stops /\ Drains
    /\ Accounted /\ NoneDue

-----------------------------------------------------------------------------
(* Operators.                                                               *)

\* A set of numbers that is not empty has a least element.
LEMMA Least ==
    ASSUME NEW T, T \subseteq Nat, T # {}
    PROVE  \E x \in T : \A y \in T : x <= y
<1>1. PICK x \in T : \A y \in T : ~(<<y, x>> \in OpToRel(<, Nat))
  BY NatLessThanWellFounded, WFMin
<1>2. ASSUME NEW y \in T PROVE x <= y
  <2>1. x \in Nat /\ y \in Nat  BY <1>1
  <2>2. ~(y < x)  BY <1>1, <2>1 DEF OpToRel
  <2> QED  BY <2>1, <2>2
<1> QED  BY <1>1, <1>2

\* The fields of a task.
LEMMA TaskFields ==
    ASSUME NEW t \in Tasks
    PROVE  /\ t.num \in 0 .. MaxTasks - 1 /\ t.num \in Nat
           /\ t.at \in Times /\ t.at \in Nat
           /\ t.quit \in {"none", "now", "idle"}
  BY MessagePumpNetConstants DEF Tasks, Times

\* The top of the delayed queue is one of its earliest tasks.
LEMMA TopIsFirst ==
    ASSUME NEW S, S \subseteq Tasks, S # {}
    PROVE  Top(S) \in S /\ \A u \in S : Top(S).at <= u.at
<1>1. \A t \in S : t.at \in Nat /\ t.num \in Nat  BY TaskFields
<1>2. PICK a \in {t.at : t \in S} : \A b \in {t.at : t \in S} : a <= b
  <2>1. {t.at : t \in S} \subseteq Nat /\ {t.at : t \in S} # {}  BY <1>1
  <2> QED  BY <2>1, Least
<1>3. PICK n \in {t.num : t \in {u \in S : u.at = a}} :
             \A m \in {t.num : t \in {u \in S : u.at = a}} : n <= m
  <2>1. /\ {t.num : t \in {u \in S : u.at = a}} \subseteq Nat
        /\ {t.num : t \in {u \in S : u.at = a}} # {}
    BY <1>1, <1>2
  <2> QED  BY <2>1, Least
<1>4. PICK t \in S : t.at = a /\ t.num = n  BY <1>3
<1>5. \A u \in S : t.at < u.at \/ (t.at = u.at /\ t.num <= u.num)
  <2> SUFFICES ASSUME NEW u \in S
               PROVE  t.at < u.at \/ (t.at = u.at /\ t.num <= u.num)
    OBVIOUS
  <2>1. t.at <= u.at  BY <1>2, <1>4
  <2>2. u.at = a => t.num <= u.num  BY <1>3, <1>4
  <2> QED  BY <1>1, <1>4, <2>1, <2>2
<1>6. /\ Top(S) \in S
      /\ \A u \in S : \/ Top(S).at < u.at
                      \/ Top(S).at = u.at /\ Top(S).num <= u.num
  BY <1>4, <1>5 DEF Top
<1> QED  BY <1>1, <1>6

\* What is in a queue after a post, ...
LEMMA AppendElements ==
    ASSUME NEW S, NEW s \in Seq(S), NEW x \in S
    PROVE  /\ Append(s, x) \in Seq(S) /\ Append(s, x) # <<>>
           /\ Elements(Append(s, x)) = Elements(s) \cup {x}
<1>1. /\ Append(s, x) \in Seq(S) /\ Len(Append(s, x)) = Len(s) + 1
      /\ \A i \in 1 .. Len(s) : Append(s, x)[i] = s[i]
      /\ Append(s, x)[Len(s) + 1] = x
  OBVIOUS
<1>2. /\ DOMAIN s = 1 .. Len(s) /\ DOMAIN Append(s, x) = 1 .. Len(s) + 1
      /\ Len(s) \in Nat
  BY <1>1
<1>3. Elements(Append(s, x)) = Elements(s) \cup {x}
  BY <1>1, <1>2 DEF Elements
<1> QED  BY <1>1, <1>3

\* ... and before and after its first task is taken.
LEMMA TailElements ==
    ASSUME NEW S, NEW s \in Seq(S), s # <<>>
    PROVE  /\ Tail(s) \in Seq(S) /\ Head(s) \in S
           /\ Elements(s) = {Head(s)} \cup Elements(Tail(s))
<1>1. /\ Tail(s) \in Seq(S) /\ Head(s) = s[1] /\ Len(Tail(s)) = Len(s) - 1
      /\ \A i \in 1 .. Len(s) - 1 : Tail(s)[i] = s[i + 1]
      /\ Len(s) \in Nat /\ Len(s) # 0
  BY HeadTailProperties, EmptySeq
<1>2. /\ DOMAIN s = 1 .. Len(s) /\ DOMAIN Tail(s) = 1 .. Len(s) - 1
      /\ Head(s) \in S
  BY <1>1
<1>3. \A i \in 2 .. Len(s) : s[i] = Tail(s)[i - 1] /\ i - 1 \in 1 .. Len(s) - 1
  BY <1>1
<1>4. \A i \in 1 .. Len(s) : i = 1 \/ i \in 2 .. Len(s)  BY <1>1
<1>5. \A i \in 1 .. Len(s) - 1 : i + 1 \in 1 .. Len(s)  BY <1>1
<1>6. Elements(s) \subseteq {Head(s)} \cup Elements(Tail(s))
  <2> SUFFICES ASSUME NEW x \in Elements(s)
               PROVE  x = Head(s) \/ x \in Elements(Tail(s))
    OBVIOUS
  <2>1. PICK i \in 1 .. Len(s) : x = s[i]  BY <1>2 DEF Elements
  <2>2. i \in 2 .. Len(s) => s[i] \in Elements(Tail(s))
    BY <1>2, <1>3 DEF Elements
  <2> QED  BY <1>1, <1>4, <2>1, <2>2
<1>7. {Head(s)} \cup Elements(Tail(s)) \subseteq Elements(s)
  BY <1>1, <1>2, <1>5 DEF Elements
<1> QED  BY <1>1, <1>2, <1>6, <1>7

\* The elements of a queue of tasks are tasks.
LEMMA ElementsType ==
    ASSUME NEW S, NEW s \in Seq(S)
    PROVE  Elements(s) \subseteq S
  BY DEF Elements

LEMMA EmptyElements == Elements(<<>>) = {}
  BY DEF Elements

-----------------------------------------------------------------------------
(* Types.                                                                   *)

\* The type invariant, part by part.
TypeQueues ==
    /\ incoming_queue_ \in Seq(Tasks)
    /\ work_queue_ \in Seq(Tasks)
    /\ delayed_work_queue_ \in SUBSET Tasks
    /\ next_sequence_num_ \in 0 .. MaxTasks
TypeFlags ==
    /\ message_loop_scheduled_ \in BOOLEAN
    /\ is_ready_for_scheduling_ \in BOOLEAN
    /\ message_loop_ \in BOOLEAN
    /\ keep_running_ \in BOOLEAN
    /\ processed_io_events_ \in BOOLEAN
    /\ did_work \in BOOLEAN
    /\ event_break \in BOOLEAN
    /\ quit_received \in {"none", "now", "idle"}
    /\ pc \in Locations
    /\ mode \in {"NONBLOCK", "ONCE"}
TypeTimes ==
    /\ recent_time_ \in Times
    /\ delayed_work_time_ \in Times
    /\ timer_event \in Times
    /\ now \in Times
TypeEvents ==
    /\ life \in [Controllers -> Life]
    /\ watcher_ \in [Controllers -> BOOLEAN]
    /\ event_ \in [Controllers -> SUBSET Kinds]
    /\ res \in [Controllers -> SUBSET Kinds]
    /\ ready \in [Controllers -> SUBSET Kinds]
    /\ flags \in SUBSET Kinds
    /\ context \in Controllers \cup {"none"}
    /\ active \in SUBSET Events
TypeCounts ==
    /\ writers \in 0 .. MaxPosters
    /\ pipe \in 0 .. PipeSize
    /\ ran \in SUBSET (0 .. MaxTasks - 1)
    /\ mark \in 0 .. MaxTasks
    /\ inputs \in 0 .. MaxInputs
Types == TypeQueues /\ TypeFlags /\ TypeTimes /\ TypeEvents /\ TypeCounts

LEMMA TypesOK == TypeOK <=> Types
<1>1. TypeOK => TypeQueues /\ TypeEvents /\ TypeCounts
  BY DEF TypeOK, TypeQueues, TypeEvents, TypeCounts
<1>2. TypeOK => TypeFlags  BY DEF TypeOK, TypeFlags
<1>3. TypeOK => TypeTimes  BY DEF TypeOK, TypeTimes
<1>4. Types => TypeOK
  BY DEF Types, TypeOK, TypeQueues, TypeEvents, TypeCounts, TypeFlags,
     TypeTimes
<1> QED  BY <1>1, <1>2, <1>3, <1>4 DEF Types

\* What a post puts in the queue.
LEMMA PostType ==
    ASSUME Types, NEW at \in RunTimes, NEW quit \in {"none", "now", "idle"},
           Enqueue(at, quit)
    PROVE  \E t \in Tasks :
              /\ t.num = next_sequence_num_ /\ t.at = at /\ t.quit = quit
              /\ incoming_queue_' = Append(incoming_queue_, t)
              /\ next_sequence_num_' = next_sequence_num_ + 1
              /\ next_sequence_num_' \in 0 .. MaxTasks
<1>1. /\ now \in Nat /\ next_sequence_num_ \in Nat /\ MaxTasks \in Nat
      /\ next_sequence_num_ < MaxTasks /\ MaxTime \in Nat /\ MaxDelay \in Nat
      /\ at <= MaxTime /\ next_sequence_num_' = next_sequence_num_ + 1
      /\ incoming_queue_' = Append(incoming_queue_, Task(next_sequence_num_, at, quit))
  BY MessagePumpNetConstants DEF Types, TypeQueues, TypeTimes, Times, Enqueue
<1>2. at \in Nat  BY <1>1 DEF RunTimes
<1>3. at \in Times  BY <1>1, <1>2 DEF Times
<1>4. next_sequence_num_ \in 0 .. MaxTasks - 1 /\ next_sequence_num_' \in 0 .. MaxTasks
  BY <1>1
<1>5. PICK t : t = Task(next_sequence_num_, at, quit)  OBVIOUS
<1>6. t \in Tasks /\ t.num = next_sequence_num_ /\ t.at = at /\ t.quit = quit
  BY <1>3, <1>4, <1>5 DEF Task, Tasks
<1> QED  BY <1>1, <1>4, <1>5, <1>6

\* The queues hold tasks.
LEMMA QueuesStep ==
    ASSUME Types, [Next]_vars
    PROVE  TypeQueues'
<1>0. TypeQueues  BY DEF Types
<1>1. ASSUME NEW at \in RunTimes, NEW quit \in {"none", "now", "idle"},
             PostPendingTask(at, quit) \/ PostFromLoop(at, quit)
      PROVE  TypeQueues'
  <2>1. Enqueue(at, quit) /\ UNCHANGED loop
    BY <1>1 DEF PostPendingTask, PostFromLoop
  <2>2. PICK t \in Tasks : /\ incoming_queue_' = Append(incoming_queue_, t)
                           /\ next_sequence_num_' \in 0 .. MaxTasks
    BY <2>1, PostType
  <2>3. incoming_queue_' \in Seq(Tasks)
    BY <1>0, <2>2, AppendElements DEF TypeQueues
  <2> QED  BY <1>0, <2>1, <2>2, <2>3 DEF TypeQueues, loop
<1>2. CASE ReloadWorkQueue \/ DeletePendingTasks
  <2>1. CASE ReloadWorkQueue
    BY <1>0, <2>1 DEF ReloadWorkQueue, TypeQueues
  <2>2. CASE DeletePendingTasks
    BY <1>0, <2>2 DEF DeletePendingTasks, TypeQueues
  <2> QED  BY <1>2, <2>1, <2>2
<1>3. CASE DelayTask \/ DoWork
  <2>1. Tail(work_queue_) \in Seq(Tasks) /\ Head(work_queue_) \in Tasks
    BY <1>0, <1>3, TailElements DEF TypeQueues, DelayTask, DoWork
  <2> QED  BY <1>0, <1>3, <2>1 DEF DelayTask, DoWork, TypeQueues, queue
<1>4. CASE DoDelayedWork
  BY <1>0, <1>4 DEF DoDelayedWork, TypeQueues, queue
<1>5. CASE \/ StartScheduling \/ NothingToDo \/ DoWorkReturns \/ LoopBreaks
           \/ Dispatch \/ OnWakeup \/ timer_callback
           \/ (\E c \in Controllers : OnLibeventNotification(c))
           \/ WriteReturns \/ ReadReturns \/ NoDelayedWork \/ DelayedWorkReturns
           \/ DoIdleWork \/ Sleep \/ WillDestroyCurrentMessageLoop
           \/ ClientStep \/ ScheduleWork
           \/ (\E S \in SUBSET Controllers \ {{}}, kinds \in SUBSET Kinds \ {{}} :
                  BecomeReady(S, kinds))
           \/ Tick \/ UNCHANGED vars
  <2>1. UNCHANGED <<incoming_queue_, work_queue_, delayed_work_queue_,
                    next_sequence_num_>>
    BY <1>5
       DEF StartScheduling, NothingToDo, DoWorkReturns, LoopBreaks, Dispatch,
           OnWakeup, timer_callback, OnLibeventNotification, WriteReturns,
           ReadReturns, NoDelayedWork, DelayedWorkReturns, DoIdleWork, Sleep,
           WillDestroyCurrentMessageLoop, ClientStep, WatchFileDescriptor,
           StopWatchingFileDescriptor, DeleteController, Exhaust, ScheduleWork,
           BecomeReady, Tick, vars, queue, loop
  <2> QED  BY <1>0, <2>1 DEF TypeQueues
<1> QED  BY <1>1, <1>2, <1>3, <1>4, <1>5 DEF Next, LoopStep, PostStep

\* The parts a step leaves alone.
LEMMA FlagsStep ==
    ASSUME Types, [Next]_vars
    PROVE  TypeFlags'
<1>0. TypeFlags  BY DEF Types
<1>1. CASE StartScheduling \/ ReloadWorkQueue \/ NothingToDo \/ DelayTask
           \/ DoWorkReturns
  <2>1. CASE StartScheduling
    BY <1>0, <2>1
       DEF StartScheduling, PollOrBreak, TypeFlags, Locations, Client, queue,
           loop, run, libevent
  <2>2. CASE ReloadWorkQueue
    BY <1>0, <2>2
       DEF ReloadWorkQueue, PollOrBreak, TypeFlags, Locations, Client, queue,
           loop, run, libevent
  <2>3. CASE NothingToDo
    BY <1>0, <2>3
       DEF NothingToDo, PollOrBreak, TypeFlags, Locations, Client, queue,
           loop, run, libevent
  <2>4. CASE DelayTask
    BY <1>0, <2>4
       DEF DelayTask, PollOrBreak, TypeFlags, Locations, Client, queue,
           loop, run, libevent
  <2>5. CASE DoWorkReturns
    BY <1>0, <2>5
       DEF DoWorkReturns, PollOrBreak, TypeFlags, Locations, Client, queue,
           loop, run, libevent
  <2> QED  BY <1>1, <2>1, <2>2, <2>3, <2>4, <2>5
<1>2. CASE DoWork
  <2>1. Head(work_queue_).quit \in {"none", "now", "idle"}
    BY <1>2, TailElements, TaskFields DEF DoWork, Types, TypeQueues
  <2> QED
    BY <1>0, <1>2, <2>1
       DEF DoWork, RunTask, TypeFlags, Locations, Client, queue, libevent
<1>3. CASE DoDelayedWork
  <2>1. Top(delayed_work_queue_).quit \in {"none", "now", "idle"}
    BY <1>3, TopIsFirst, TaskFields DEF DoDelayedWork, Types, TypeQueues
  <2> QED
    BY <1>0, <1>3, <2>1
       DEF DoDelayedWork, RunTask, TypeFlags, Locations, Client, queue, libevent
<1>4. CASE LoopBreaks \/ Dispatch
  BY <1>0, <1>4, ZenonT(40)
     DEF LoopBreaks, Dispatch, PollReturns, SleepReturns, TypeFlags, Locations,
         Client, queue, loop
<1>5. CASE \/ OnWakeup \/ timer_callback \/ WriteReturns \/ ReadReturns
           \/ (\E c \in Controllers : OnLibeventNotification(c))
  <2>1. CASE OnWakeup
    BY <1>0, <2>1
       DEF OnWakeup, CallbackReturns, AfterCallback, SleepReturns,
           TypeFlags, Locations, Client, queue, loop
  <2>2. CASE timer_callback
    BY <1>0, <2>2
       DEF timer_callback, CallbackReturns, AfterCallback, SleepReturns,
           TypeFlags, Locations, Client, queue, loop
  <2>3. CASE WriteReturns
    BY <1>0, <2>3
       DEF WriteReturns, CallbackReturns, AfterCallback, SleepReturns,
           TypeFlags, Locations, Client, queue, loop
  <2>4. CASE ReadReturns
    BY <1>0, <2>4
       DEF ReadReturns, CallbackReturns, AfterCallback, SleepReturns,
           TypeFlags, Locations, Client, queue, loop
  <2>5. CASE \E c \in Controllers : OnLibeventNotification(c)
    BY <1>0, <2>5
       DEF OnLibeventNotification, CallbackReturns, AfterCallback, SleepReturns,
           TypeFlags, Locations, Client, queue, loop
  <2> QED  BY <1>5, <2>1, <2>2, <2>3, <2>4, <2>5
<1>6. CASE NoDelayedWork \/ DelayedWorkReturns \/ DoIdleWork \/ Sleep
           \/ DeletePendingTasks \/ WillDestroyCurrentMessageLoop
  <2>1. CASE NoDelayedWork
    BY <1>0, <2>1
       DEF NoDelayedWork, ContinueOrIdle, TypeFlags, Locations, Client,
           queue, loop, libevent
  <2>2. CASE DelayedWorkReturns
    BY <1>0, <2>2
       DEF DelayedWorkReturns, ContinueOrIdle, TypeFlags, Locations, Client,
           queue, loop, libevent
  <2>3. CASE DoIdleWork
    BY <1>0, <2>3
       DEF DoIdleWork, ContinueOrIdle, TypeFlags, Locations, Client,
           queue, loop, libevent
  <2>4. CASE Sleep
    BY <1>0, <2>4
       DEF Sleep, ContinueOrIdle, TypeFlags, Locations, Client,
           queue, loop, libevent
  <2>5. CASE DeletePendingTasks
    BY <1>0, <2>5
       DEF DeletePendingTasks, ContinueOrIdle, TypeFlags, Locations, Client,
           queue, loop, libevent
  <2>6. CASE WillDestroyCurrentMessageLoop
    BY <1>0, <2>6
       DEF WillDestroyCurrentMessageLoop, ContinueOrIdle, TypeFlags, Locations, Client,
           queue, loop, libevent
  <2> QED  BY <1>6, <2>1, <2>2, <2>3, <2>4, <2>5, <2>6
<1>7. CASE PostStep
  BY <1>0, <1>7
     DEF PostStep, PostPendingTask, PostFromLoop, Enqueue, TypeFlags, loop, run,
         libevent, NeedsWakeup
<1>8. CASE \/ ClientStep \/ ScheduleWork
           \/ (\E S \in SUBSET Controllers \ {{}}, kinds \in SUBSET Kinds \ {{}} :
                  BecomeReady(S, kinds))
           \/ Tick \/ UNCHANGED vars
  BY <1>0, <1>8
     DEF ClientStep, WatchFileDescriptor, StopWatchingFileDescriptor,
         DeleteController, Exhaust, ScheduleWork, BecomeReady, Tick, vars, TypeFlags,
         queue, loop, run, libevent
<1> QED  BY <1>1, <1>2, <1>3, <1>4, <1>5, <1>6, <1>7, <1>8 DEF Next, LoopStep

\* Times stay on the clock's scale.
LEMMA TimesStep ==
    ASSUME Types, [Next]_vars
    PROVE  TypeTimes'
<1>0. TypeTimes /\ MaxTime \in Nat /\ 0 \in Times
  BY MessagePumpNetConstants DEF Types, Times
<1>a. ASSUME NEW S, S \subseteq Tasks, S # {} PROVE Top(S).at \in Times
  BY <1>a, TopIsFirst, TaskFields
<1>1. CASE DelayTask
  <2>1. Head(work_queue_).at \in Times
    BY <1>1, TailElements, TaskFields DEF DelayTask, Types, TypeQueues
  <2> QED
    BY <1>0, <1>1, <2>1 DEF DelayTask, TypeTimes, libevent, world
<1>2. CASE NoDelayedWork
  <2>1. delayed_work_queue_ # {} => Top(delayed_work_queue_).at \in Times
    BY <1>a DEF Types, TypeQueues
  <2> QED
    BY <1>0, <1>2, <2>1 DEF NoDelayedWork, TypeTimes, libevent, world
<1>3. CASE DoDelayedWork
  <2>1. PICK rest : rest = delayed_work_queue_ \ {Top(delayed_work_queue_)}
    OBVIOUS
  <2>2. rest # {} => Top(rest).at \in Times
    BY <1>a, <2>1 DEF Types, TypeQueues
  <2>3. /\ recent_time_' \in {now, recent_time_}
        /\ delayed_work_time_' = IF rest = {} THEN delayed_work_time_
                                              ELSE Top(rest).at
        /\ now' = now /\ timer_event' = timer_event
    BY <1>3, <2>1 DEF DoDelayedWork, libevent
  <2> QED  BY <1>0, <2>2, <2>3 DEF TypeTimes
<1>4. CASE \/ LoopBreaks \/ Dispatch \/ OnWakeup \/ timer_callback
           \/ (\E c \in Controllers : OnLibeventNotification(c))
           \/ WriteReturns \/ ReadReturns \/ Sleep
  <2>1. /\ UNCHANGED <<recent_time_, now>>
        /\ timer_event' \in {timer_event, 0, delayed_work_time_}
        /\ delayed_work_time_' \in {delayed_work_time_, 0}
    BY <1>4
       DEF LoopBreaks, Dispatch, OnWakeup, timer_callback, WriteReturns,
           ReadReturns, OnLibeventNotification, CallbackReturns, AfterCallback,
           SleepReturns, PollReturns, Sleep, loop, world
  <2> QED  BY <1>0, <2>1 DEF TypeTimes
<1>5. CASE Tick
  BY <1>0, <1>5 DEF Tick, TypeTimes, Times, loop, run, libevent
<1>6. CASE \/ StartScheduling \/ ReloadWorkQueue \/ NothingToDo \/ DoWork
           \/ DoWorkReturns \/ DelayedWorkReturns \/ DoIdleWork
           \/ DeletePendingTasks \/ WillDestroyCurrentMessageLoop
           \/ ClientStep \/ PostStep \/ ScheduleWork
           \/ (\E S \in SUBSET Controllers \ {{}}, kinds \in SUBSET Kinds \ {{}} :
                  BecomeReady(S, kinds))
           \/ UNCHANGED vars
  <2>1. UNCHANGED <<recent_time_, delayed_work_time_, timer_event, now>>
    BY <1>6
       DEF StartScheduling, ReloadWorkQueue, NothingToDo, DoWork, DoWorkReturns,
           DelayedWorkReturns, DoIdleWork, DeletePendingTasks,
           WillDestroyCurrentMessageLoop, ClientStep, WatchFileDescriptor,
           StopWatchingFileDescriptor, DeleteController, Exhaust, PostStep,
           PostPendingTask, PostFromLoop, ScheduleWork, BecomeReady, vars, loop,
           run, libevent, world
  <2> QED  BY <1>0, <2>1 DEF TypeTimes
<1> QED  BY <1>1, <1>2, <1>3, <1>4, <1>5, <1>6 DEF Next, LoopStep

\* Controllers, masks and the active list.
LEMMA EventsStep ==
    ASSUME Types, [Next]_vars
    PROVE  TypeEvents'
<1>0. TypeEvents  BY DEF Types
<1>1. CASE LoopBreaks \/ OnWakeup \/ timer_callback \/ WriteReturns \/ ReadReturns
  <2>1. /\ UNCHANGED <<life, watcher_, event_, res, ready>>
        /\ active' \in SUBSET active
        /\ flags' \in {flags, {}} /\ context' \in {context, "none"}
    BY <1>0, <1>1
       DEF LoopBreaks, OnWakeup, timer_callback, WriteReturns, ReadReturns,
           CallbackReturns, AfterCallback, SleepReturns, PollReturns,
           controllers, world
  <2> QED  BY <1>0, <2>1 DEF TypeEvents
<1>2. CASE Dispatch
  <2>1. /\ UNCHANGED <<life, watcher_, event_, ready, flags, context>>
        /\ active' \in {active, active \cup Found}
        /\ res' = [c \in Controllers |-> res[c] \cup ReadyKinds(c)]
    BY <1>2 DEF Dispatch, PollReturns, controllers, world
  <2>2. Found \in SUBSET Events  BY DEF Found, Events
  <2>3. res' \in [Controllers -> SUBSET Kinds]
    BY <1>0, <2>1 DEF TypeEvents, ReadyKinds
  <2> QED  BY <1>0, <2>1, <2>2, <2>3 DEF TypeEvents
<1>3. ASSUME NEW c \in Controllers, OnLibeventNotification(c)
      PROVE  TypeEvents'
  <2>1. /\ UNCHANGED <<life, watcher_, event_>>
        /\ active' \in SUBSET active /\ flags' = res[c] /\ context' = c
        /\ res' = [res EXCEPT ![c] = {}]
        /\ ready' = ready
    BY <1>3 DEF OnLibeventNotification, controllers, world
  <2> QED  BY <1>0, <1>3, <2>1 DEF TypeEvents
<1>4. ASSUME NEW c \in Controllers, NEW kind \in Kinds, Exhaust(c, kind)
      PROVE  TypeEvents'
  BY <1>0, <1>4 DEF Exhaust, TypeEvents, controllers, libevent
<1>5. ASSUME NEW c \in Controllers, NEW mask \in SUBSET Kinds \ {{}},
             NEW failed \in BOOLEAN, WatchFileDescriptor(c, mask, failed)
      PROVE  TypeEvents'
  BY <1>0, <1>5 DEF WatchFileDescriptor, TypeEvents, Life
<1>6. ASSUME NEW c \in Controllers,
             StopWatchingFileDescriptor(c) \/ DeleteController(c)
      PROVE  TypeEvents'
  <2>1. /\ UNCHANGED <<flags, context, ready>>
        /\ active' \in SUBSET active
        /\ res' \in {res, [res EXCEPT ![c] = {}]}
        /\ event_' \in {event_, [event_ EXCEPT ![c] = {}]}
        /\ watcher_' \in {watcher_, [watcher_ EXCEPT ![c] = FALSE]}
        /\ life' \in {life, [life EXCEPT ![c] = "deleted"]}
    BY <1>6 DEF StopWatchingFileDescriptor, DeleteController, StopWatching,
       world
  <2> QED  BY <1>0, <2>1 DEF TypeEvents, Life
<1>7. ASSUME NEW S, NEW kinds \in SUBSET Kinds, BecomeReady(S, kinds)
      PROVE  TypeEvents'
  BY <1>0, <1>7 DEF BecomeReady, TypeEvents, controllers, libevent
<1>8. CASE \/ StartScheduling \/ ReloadWorkQueue \/ NothingToDo \/ DelayTask
           \/ DoWork \/ DoWorkReturns \/ NoDelayedWork \/ DoDelayedWork
           \/ DelayedWorkReturns \/ DoIdleWork \/ Sleep \/ DeletePendingTasks
           \/ WillDestroyCurrentMessageLoop \/ PostStep \/ ScheduleWork \/ Tick
           \/ UNCHANGED vars
  <2>1. UNCHANGED <<controllers, active, res, context, flags, ready>>
    BY <1>8
       DEF StartScheduling, ReloadWorkQueue, NothingToDo, DelayTask, DoWork,
           DoWorkReturns, NoDelayedWork, DoDelayedWork, DelayedWorkReturns,
           DoIdleWork, Sleep, DeletePendingTasks, WillDestroyCurrentMessageLoop,
           PostStep, PostPendingTask, PostFromLoop, ScheduleWork, Tick, vars,
           libevent, world
  <2> QED  BY <1>0, <2>1 DEF TypeEvents, controllers
<1> QED
  BY <1>1, <1>2, <1>3, <1>4, <1>5, <1>6, <1>7, <1>8 DEF Next, LoopStep,
     ClientStep

\* The pipe holds what it can, also when more is written.
LEMMA WriteByteType ==
    ASSUME NEW n \in 0 .. PipeSize
    PROVE  WriteByte(n) \in 0 .. PipeSize /\ WriteByte(n) > 0
  BY MessagePumpNetConstants DEF WriteByte

\* Counters stay within their bounds.
LEMMA CountsStep ==
    ASSUME Types, [Next]_vars
    PROVE  TypeCounts'
<1>0. /\ writers \in 0 .. MaxPosters /\ pipe \in 0 .. PipeSize
      /\ ran \in SUBSET (0 .. MaxTasks - 1) /\ mark \in 0 .. MaxTasks
      /\ inputs \in 0 .. MaxInputs /\ next_sequence_num_ \in 0 .. MaxTasks
      /\ MaxPosters \in Nat /\ PipeSize \in Nat /\ MaxInputs \in Nat
      /\ WriteByte(pipe) \in 0 .. PipeSize
  BY WriteByteType, MessagePumpNetConstants DEF Types, TypeCounts, TypeQueues
<1>a. ASSUME NEW t \in Tasks, RunTask(t)
      PROVE  /\ ran' \in SUBSET (0 .. MaxTasks - 1)
             /\ mark' \in 0 .. MaxTasks /\ pipe' \in 0 .. PipeSize
  <2>1. t.num \in 0 .. MaxTasks - 1  BY TaskFields
  <2> QED  BY <1>0, <1>a, <2>1 DEF RunTask
<1>1. CASE PostStep
  <2>1. /\ UNCHANGED history /\ pipe' \in {pipe, WriteByte(pipe)}
        /\ inputs' = inputs + 1 /\ inputs < MaxInputs
        /\ \/ writers' = writers
           \/ writers < MaxPosters /\ writers' = writers + 1
    BY <1>1 DEF PostStep, PostPendingTask, PostFromLoop, Enqueue, Input
  <2>2. inputs' \in 0 .. MaxInputs /\ writers' \in 0 .. MaxPosters
    BY <1>0, <2>1
  <2> QED  BY <1>0, <2>1, <2>2 DEF TypeCounts, history
<1>2. CASE ScheduleWork
  BY <1>0, <1>2 DEF ScheduleWork, TypeCounts, history
<1>3. CASE DoWork
  <2>1. Head(work_queue_) \in Tasks
    BY <1>3, TailElements DEF DoWork, Types, TypeQueues
  <2>2. UNCHANGED <<writers, inputs>> /\ RunTask(Head(work_queue_))
    BY <1>3 DEF DoWork
  <2> QED  BY <1>0, <1>a, <2>1, <2>2 DEF TypeCounts
<1>4. CASE DoDelayedWork
  <2>1. Top(delayed_work_queue_) \in Tasks
    BY <1>4, TopIsFirst DEF DoDelayedWork, Types, TypeQueues
  <2>2. UNCHANGED <<writers, inputs>> /\ RunTask(Top(delayed_work_queue_))
    BY <1>4 DEF DoDelayedWork
  <2> QED  BY <1>0, <1>a, <2>1, <2>2 DEF TypeCounts
<1>5. CASE \/ StartScheduling \/ OnWakeup \/ DoIdleWork
  <2>1. /\ UNCHANGED <<writers, inputs, history>>
        /\ \/ pipe' \in {pipe, WriteByte(pipe)}
           \/ pipe > 0 /\ pipe' = pipe - 1
    BY <1>5 DEF StartScheduling, OnWakeup, DoIdleWork
  <2>2. pipe' \in 0 .. PipeSize  BY <1>0, <2>1
  <2> QED  BY <1>0, <2>1, <2>2 DEF TypeCounts, history
<1>6. CASE \/ ClientStep
           \/ (\E S \in SUBSET Controllers \ {{}}, kinds \in SUBSET Kinds \ {{}} :
                  BecomeReady(S, kinds))
  <2>1. /\ UNCHANGED <<writers, pipe, history>>
        /\ \/ inputs' = inputs
           \/ inputs' = inputs + 1 /\ inputs < MaxInputs
    BY <1>6 DEF ClientStep, WatchFileDescriptor, StopWatchingFileDescriptor,
                DeleteController, Exhaust, BecomeReady, Input, world
  <2>2. inputs' \in 0 .. MaxInputs  BY <1>0, <2>1
  <2> QED  BY <1>0, <2>1, <2>2 DEF TypeCounts, history
<1>7. CASE \/ ReloadWorkQueue \/ NothingToDo \/ DelayTask \/ DoWorkReturns
           \/ LoopBreaks \/ Dispatch \/ timer_callback
           \/ (\E c \in Controllers : OnLibeventNotification(c))
           \/ WriteReturns \/ ReadReturns \/ NoDelayedWork \/ DelayedWorkReturns
           \/ Sleep \/ DeletePendingTasks \/ WillDestroyCurrentMessageLoop
           \/ Tick \/ UNCHANGED vars
  <2>1. UNCHANGED <<writers, pipe, inputs, history>>
    BY <1>7
       DEF ReloadWorkQueue, NothingToDo, DelayTask, DoWorkReturns, LoopBreaks,
           Dispatch, timer_callback, OnLibeventNotification, WriteReturns,
           ReadReturns, NoDelayedWork, DelayedWorkReturns, Sleep,
           DeletePendingTasks, WillDestroyCurrentMessageLoop, Tick, vars, world
  <2> QED  BY <1>0, <2>1 DEF TypeCounts, history
<1> QED
  BY <1>1, <1>2, <1>3, <1>4, <1>5, <1>6, <1>7 DEF Next, LoopStep

\* Types are kept.
LEMMA TypeStep ==
    ASSUME Types, [Next]_vars
    PROVE  Types'
  BY QueuesStep, FlagsStep, TimesStep, EventsStep, CountsStep DEF Types

-----------------------------------------------------------------------------
(* Watches.                                                                 *)

\* Callbacks, and what client code does in them, keep the active list and the
\* controllers in step.
LEMMA WatchesStep ==
    ASSUME Types, Watches, [Next]_vars
    PROVE  Watches'
<1>0. /\ life \in [Controllers -> Life]
      /\ watcher_ \in [Controllers -> BOOLEAN]
      /\ event_ \in [Controllers -> SUBSET Kinds]
      /\ \A c \in Controllers : c # "wakeup" /\ c # "timer"
  BY MessagePumpNetConstants DEF Types, TypeEvents
<1>1. CASE Dispatch
  <2>1. UNCHANGED <<life, watcher_, event_>> /\ active' \in {active, active \cup Found}
    BY <1>1 DEF Dispatch, PollReturns, controllers
  <2>2. \A c \in Controllers : c \in Found => event_[c] # {}
    BY <1>0 DEF Found, ReadyKinds
  <2> QED  BY <2>1, <2>2 DEF Watches
<1>2. ASSUME NEW c \in Controllers, NEW mask \in SUBSET Kinds \ {{}},
             NEW failed \in BOOLEAN, WatchFileDescriptor(c, mask, failed)
      PROVE  Watches'
  BY <1>0, <1>2 DEF WatchFileDescriptor, Watches
<1>3. ASSUME NEW c \in Controllers, StopWatchingFileDescriptor(c)
      PROVE  Watches'
  BY <1>0, <1>3 DEF StopWatchingFileDescriptor, StopWatching, Watches
<1>4. ASSUME NEW c \in Controllers, DeleteController(c)
      PROVE  Watches'
  BY <1>0, <1>4 DEF DeleteController, StopWatching, Watches
<1>5. CASE \/ LoopBreaks \/ OnWakeup \/ timer_callback \/ WriteReturns
           \/ ReadReturns \/ (\E c \in Controllers : OnLibeventNotification(c))
  <2>1. UNCHANGED controllers /\ active' \in SUBSET active
    BY <1>5
       DEF LoopBreaks, OnWakeup, timer_callback, ReadReturns, WriteReturns,
           CallbackReturns, AfterCallback, SleepReturns, PollReturns,
           OnLibeventNotification
  <2> QED  BY <2>1 DEF Watches, controllers
<1>6. CASE \/ StartScheduling \/ ReloadWorkQueue \/ NothingToDo \/ DelayTask
           \/ DoWork \/ DoWorkReturns \/ NoDelayedWork \/ DoDelayedWork
           \/ DelayedWorkReturns \/ DoIdleWork \/ Sleep \/ DeletePendingTasks
           \/ WillDestroyCurrentMessageLoop \/ PostStep \/ ScheduleWork \/ Tick
           \/ (\E S \in SUBSET Controllers \ {{}}, kinds \in SUBSET Kinds \ {{}} :
                  BecomeReady(S, kinds))
           \/ (\E c \in Controllers, kind \in Kinds : Exhaust(c, kind))
           \/ UNCHANGED vars
  <2>1. UNCHANGED <<controllers, active>>
    BY <1>6
       DEF StartScheduling, ReloadWorkQueue, NothingToDo, DelayTask, DoWork,
           DoWorkReturns, NoDelayedWork, DoDelayedWork, DelayedWorkReturns,
           DoIdleWork, Sleep, DeletePendingTasks, WillDestroyCurrentMessageLoop,
           PostStep, PostPendingTask, PostFromLoop, ScheduleWork, Tick,
           BecomeReady, Exhaust, vars, libevent
  <2> QED  BY <2>1 DEF Watches, controllers
<1> QED
  BY <1>1, <1>2, <1>3, <1>4, <1>5, <1>6 DEF Next, LoopStep, ClientStep

-----------------------------------------------------------------------------
(* The sleep's timer.                                                       *)

SleepTimer == BreakEnds /\ TimerOff /\ ToSleep /\ Sleeping

\* The timer is right in every step: it is set by Sleep, goes off in Dispatch,
\* and is deleted whenever the sleep ends.
LEMMA TimerStep ==
    ASSUME Types, SleepTimer, [Next]_vars
    PROVE  SleepTimer'
<1>0. /\ BreakEnds /\ TimerOff /\ ToSleep /\ Sleeping
      /\ pc \in Locations /\ mode \in {"NONBLOCK", "ONCE"} /\ event_break \in BOOLEAN
  BY DEF SleepTimer, Types, TypeFlags
<1> USE DEF SleepTimer, BreakEnds, TimerOff, ToSleep, Sleeping, InTime, Poll
<1>1. CASE LoopBreaks
  BY <1>0, <1>1
     DEF LoopBreaks, PollReturns, SleepReturns, loop
<1>2. CASE Dispatch
  <2>1. CASE active \cup Found = {}
    <3>1. mode = "NONBLOCK" /\ pc' \in {"delayed", "destroy"}
          /\ UNCHANGED <<mode, event_break, active, timer_event>>
      BY <1>2, <2>1 DEF Dispatch, PollReturns
    <3> QED  BY <1>0, <3>1
  <2>2. CASE active \cup Found # {}
    <3>1. /\ ~event_break /\ pc = "event_loop" /\ pc' = "process_active"
          /\ active' = active \cup Found
          /\ timer_event' = IF TimerDue THEN 0 ELSE timer_event
          /\ UNCHANGED <<mode, event_break, delayed_work_queue_>>
      BY <1>2, <2>2 DEF Dispatch, loop
    <3>2. "timer" \in Found => TimerDue
      BY MessagePumpNetConstants DEF Found
    <3>3. TimerDue => "timer" \in Found /\ timer_event # 0
      BY DEF Found, TimerDue
    <3> QED  BY <1>0, <3>1, <3>2, <3>3
  <2> QED  BY <2>1, <2>2
<1>3. CASE OnWakeup
  BY <1>0, <1>3
     DEF OnWakeup, AfterCallback, SleepReturns, loop
<1>4. CASE timer_callback
  BY <1>0, <1>4
     DEF timer_callback, AfterCallback, SleepReturns, loop
<1>5. ASSUME NEW c \in Controllers, OnLibeventNotification(c)
      PROVE  SleepTimer'
  <2>1. c # "timer"  BY MessagePumpNetConstants
  <2> QED  BY <1>0, <1>5, <2>1 DEF OnLibeventNotification, loop
<1>6. CASE WriteReturns
  BY <1>0, <1>6
     DEF WriteReturns, CallbackReturns, AfterCallback, SleepReturns, loop
<1>7. CASE ReadReturns
  BY <1>0, <1>7
     DEF ReadReturns, CallbackReturns, AfterCallback, SleepReturns, loop
<1>8. CASE NoDelayedWork
  <2>1. now \in Nat /\ (delayed_work_queue_ # {} => Top(delayed_work_queue_).at \in Nat)
    BY TopIsFirst, TaskFields, MessagePumpNetConstants
       DEF Types, TypeTimes, TypeQueues, Times
  <2>2. delayed_work_queue_ # {} =>
            /\ delayed_work_time_' = Top(delayed_work_queue_).at
            /\ Top(delayed_work_queue_).at > now
    BY <1>8 DEF NoDelayedWork
  <2>3. /\ pc = "delayed" /\ pc' \in {"work", "idle"}
        /\ UNCHANGED <<delayed_work_queue_, mode, active, event_break, timer_event>>
    BY <1>8 DEF NoDelayedWork, ContinueOrIdle, libevent
  <2>4. InTime(delayed_work_time_)'  BY <2>1, <2>2, <2>3
  <2> QED  BY <1>0, <2>3, <2>4
<1>9. CASE Sleep
  BY <1>0, <1>9
     DEF Sleep, loop
<1>10. CASE DoIdleWork
  BY <1>0, <1>10
     DEF DoIdleWork, loop, libevent
<1>11. CASE \/ StartScheduling \/ ReloadWorkQueue \/ NothingToDo \/ DelayTask
            \/ DoWork \/ DoWorkReturns
  <2>1. /\ pc \in {"bind", "work", "task"}
        /\ pc' \in {"work", "task", "event_loop", "destroy"}
        /\ pc' = "event_loop" => mode' = "NONBLOCK"
        /\ UNCHANGED <<active, event_break, timer_event>>
    BY <1>11
       DEF StartScheduling, ReloadWorkQueue, NothingToDo, DelayTask, DoWork,
           DoWorkReturns, PollOrBreak, run, libevent
  <2> QED  BY <1>0, <2>1
<1>12. CASE \/ DoDelayedWork \/ DelayedWorkReturns \/ DeletePendingTasks
            \/ WillDestroyCurrentMessageLoop
  <2>1. /\ pc \in {"delayed", "delayed_task", "destroy", "close"}
        /\ pc' \in {"delayed_task", "work", "destroy", "close", "gone"}
        /\ UNCHANGED <<active, event_break, timer_event>>
    BY <1>12
       DEF DoDelayedWork, DelayedWorkReturns, DeletePendingTasks,
           WillDestroyCurrentMessageLoop, libevent
  <2> QED  BY <1>0, <2>1
<1>13. CASE ClientStep
  <2>1. /\ UNCHANGED <<pc, mode, event_break, timer_event, delayed_work_queue_,
                       delayed_work_time_>>
        /\ \E c \in Controllers : active' \in {active, active \ {c}}
    BY <1>13
       DEF ClientStep, WatchFileDescriptor, StopWatchingFileDescriptor,
           DeleteController, Exhaust, StopWatching, loop,
           run, controllers, libevent
  <2>2. "timer" \in active' <=> "timer" \in active
    BY <2>1, MessagePumpNetConstants
  <2> QED  BY <1>0, <2>1, <2>2
<1>14. CASE \/ PostStep \/ ScheduleWork \/ Tick
            \/ (\E S \in SUBSET Controllers \ {{}}, kinds \in SUBSET Kinds \ {{}} :
                   BecomeReady(S, kinds))
            \/ UNCHANGED vars
  <2>1. UNCHANGED <<loop, run, libevent>>
    BY <1>14
       DEF PostStep, PostPendingTask, PostFromLoop, ScheduleWork, Tick,
           BecomeReady, vars
  <2> QED  BY <1>0, <2>1 DEF loop, run, libevent
<1> QED
  BY <1>1, <1>2, <1>3, <1>4, <1>5, <1>6, <1>7, <1>8, <1>9, <1>10, <1>11, <1>12,
     <1>13, <1>14
     DEF Next, LoopStep

-----------------------------------------------------------------------------
(* Wakeups.                                                                 *)

\* A byte that is taken from the pipe keeps the loop awake until DoWork, and a
\* post that writes none finds it awake or another byte under way.
LEMMA WakesStep ==
    ASSUME Types, SleepTimer, NoWorkDone, Wakeups, [Next]_vars
    PROVE  NoWorkDone' /\ Wakeups'
<1>0. /\ NoWorkDone /\ Wakeups /\ BreakEnds
      /\ pc \in Locations /\ mode \in {"NONBLOCK", "ONCE"}
      /\ did_work \in BOOLEAN /\ processed_io_events_ \in BOOLEAN
      /\ event_break \in BOOLEAN /\ message_loop_scheduled_ \in BOOLEAN
      /\ is_ready_for_scheduling_ \in BOOLEAN /\ keep_running_ \in BOOLEAN
  BY DEF SleepTimer, Types, TypeFlags
<1>a. /\ pipe \in Nat /\ writers \in Nat /\ WriteByte(pipe) > 0
      /\ WriteByte(pipe) \in Nat
  BY WriteByteType, MessagePumpNetConstants DEF Types, TypeCounts
<1> USE DEF NoWorkDone, Wakeups, BreakEnds, Awake, Poll, Over
<1>1. CASE PostStep
  <2>1. PICK at \in RunTimes, quit \in {"none", "now", "idle"} :
            PostPendingTask(at, quit) \/ PostFromLoop(at, quit)
    BY <1>1 DEF PostStep
  <2>2. /\ Enqueue(at, quit) /\ UNCHANGED <<loop, run, libevent>>
        /\ \/ writers' = (IF NeedsWakeup THEN writers + 1 ELSE writers) /\ pipe' = pipe
           \/ pipe' = (IF NeedsWakeup THEN WriteByte(pipe) ELSE pipe)
              /\ writers' = writers
    BY <2>1 DEF PostPendingTask, PostFromLoop
  <2>3. incoming_queue_' # <<>>
    BY <2>2, PostType, AppendElements DEF Types, TypeQueues
  <2>4. NeedsWakeup => pipe' > 0 \/ writers' > 0
    BY <1>a, <2>2
  <2>5. ~NeedsWakeup => Awake \/ pipe' > 0 \/ writers' > 0
    BY <1>0, <2>2 DEF NeedsWakeup
  <2>6. UNCHANGED <<pc, mode, did_work, processed_io_events_, event_break,
                    work_queue_, is_ready_for_scheduling_>>
    BY <2>2 DEF loop, run, libevent, Enqueue
  <2> QED  BY <1>0, <2>3, <2>4, <2>5, <2>6
<1>2. CASE ScheduleWork
  BY <1>0, <1>a, <1>2 DEF ScheduleWork, queue, loop, run, libevent
<1>3. CASE StartScheduling \/ ReloadWorkQueue \/ DelayTask \/ DoWork
  <2>1. /\ pc \in {"bind", "work"} /\ pc' \in {"work", "task"}
    BY <1>3 DEF StartScheduling, ReloadWorkQueue, DelayTask, DoWork, run
  <2>2. is_ready_for_scheduling_'
    BY <1>0, <1>3 DEF StartScheduling, ReloadWorkQueue, DelayTask, DoWork,
       queue
  <2> QED  BY <2>1, <2>2
<1>4. CASE NothingToDo
  BY <1>0, <1>4
     DEF NothingToDo, PollOrBreak, loop
<1>5. CASE DoWorkReturns
  BY <1>0, <1>5
     DEF DoWorkReturns, PollOrBreak, queue, loop
<1>6. CASE LoopBreaks
  BY <1>0, <1>6
     DEF LoopBreaks, PollReturns, SleepReturns, queue, loop, world
<1>7. CASE Dispatch
  BY <1>0, <1>7
     DEF Dispatch, PollReturns, queue, loop, world
<1>8. CASE OnWakeup
  BY <1>0, <1>8
     DEF OnWakeup, AfterCallback, SleepReturns, queue, loop
<1>9. CASE timer_callback
  BY <1>0, <1>9
     DEF timer_callback, AfterCallback, SleepReturns, queue, loop, world
<1>10. CASE WriteReturns
  BY <1>0, <1>10
     DEF WriteReturns, CallbackReturns, AfterCallback, SleepReturns,
         queue, loop, world
<1>11. CASE ReadReturns
  BY <1>0, <1>11
     DEF ReadReturns, CallbackReturns, AfterCallback, SleepReturns,
         queue, loop, world
<1>12. CASE \E c \in Controllers : OnLibeventNotification(c)
  BY <1>0, <1>12
     DEF OnLibeventNotification, queue, loop, world
<1>13. CASE NoDelayedWork
  BY <1>0, <1>13
     DEF NoDelayedWork, ContinueOrIdle, queue, libevent, world
<1>14. CASE DoDelayedWork \/ DelayedWorkReturns
  BY <1>0, <1>14
     DEF DoDelayedWork, DelayedWorkReturns, queue, loop
<1>15. CASE DoIdleWork
  BY <1>0, <1>15
     DEF DoIdleWork, queue, loop, libevent
<1>16. CASE Sleep
  BY <1>0, <1>16
     DEF Sleep, queue, loop, world
<1>17. CASE DeletePendingTasks \/ WillDestroyCurrentMessageLoop
  BY <1>0, <1>17
     DEF DeletePendingTasks, WillDestroyCurrentMessageLoop
<1>18. CASE \/ ClientStep \/ Tick
            \/ (\E S \in SUBSET Controllers \ {{}}, kinds \in SUBSET Kinds \ {{}} :
                   BecomeReady(S, kinds))
            \/ UNCHANGED vars
  BY <1>0, <1>18
     DEF ClientStep, WatchFileDescriptor, StopWatchingFileDescriptor,
         DeleteController, Exhaust, Tick, BecomeReady, vars, queue, loop, run, libevent,
         world
<1> QED
  BY <1>1, <1>2, <1>3, <1>4, <1>5, <1>6, <1>7, <1>8, <1>9, <1>10, <1>11, <1>12,
     <1>13, <1>14, <1>15, <1>16, <1>17, <1>18
     DEF Next, LoopStep

-----------------------------------------------------------------------------
(* The order of tasks, and the task that quits.                             *)

\* A post with the next number keeps a queue sorted, ...
LEMMA SortedAppend ==
    ASSUME NEW s \in Seq(Tasks), NEW t \in Tasks, Sorted(s),
           \A u \in Elements(s) : u.num < t.num
    PROVE  Sorted(Append(s, t))
<1>1. /\ Len(Append(s, t)) = Len(s) + 1 /\ Len(s) \in Nat
      /\ \A i \in 1 .. Len(s) : Append(s, t)[i] = s[i]
      /\ Append(s, t)[Len(s) + 1] = t
  OBVIOUS
<1>2. \A i \in 1 .. Len(s) : s[i].num < t.num  BY DEF Elements
<1> SUFFICES ASSUME NEW i \in 1 .. Len(s) + 1, NEW j \in 1 .. Len(s) + 1, i < j
             PROVE  Append(s, t)[i].num < Append(s, t)[j].num
  BY <1>1 DEF Sorted
<1>3. i \in 1 .. Len(s) /\ (j \in 1 .. Len(s) \/ j = Len(s) + 1)  BY <1>1
<1> QED  BY <1>1, <1>2, <1>3 DEF Sorted

\* ... and the first task of a sorted queue is below the others.
LEMMA SortedTail ==
    ASSUME NEW s \in Seq(Tasks), s # <<>>, Sorted(s)
    PROVE  /\ Sorted(Tail(s))
           /\ \A u \in Elements(Tail(s)) : Head(s).num < u.num
<1>1. /\ Tail(s) \in Seq(Tasks) /\ Head(s) = s[1] /\ Len(Tail(s)) = Len(s) - 1
      /\ \A i \in 1 .. Len(s) - 1 : Tail(s)[i] = s[i + 1]
      /\ Len(s) \in Nat /\ Len(s) # 0
  BY HeadTailProperties, EmptySeq
<1>2. DOMAIN Tail(s) = 1 .. Len(s) - 1  BY <1>1
<1>3. \A i \in 1 .. Len(s) - 1 : i + 1 \in 1 .. Len(s) /\ 1 < i + 1 /\ 1 \in 1 .. Len(s)
  BY <1>1
<1>4. \A i \in 1 .. Len(s) - 1 : s[1].num < s[i + 1].num
  BY <1>3 DEF Sorted
<1>5. \A u \in Elements(Tail(s)) : Head(s).num < u.num
  BY <1>1, <1>2, <1>4 DEF Elements
<1>6. \A i, j \in 1 .. Len(s) - 1 : i < j => i + 1 < j + 1  BY <1>1
<1>7. \A i, j \in 1 .. Len(s) - 1 : i < j => s[i + 1].num < s[j + 1].num
  BY <1>3, <1>6 DEF Sorted
<1> QED  BY <1>1, <1>5, <1>7 DEF Sorted

\* What a step may do to the queues: nothing, take a post in at the end, move
\* the posted tasks to the empty work queue, put off or run the oldest task,
\* run a delayed one, or drop them all.
Posted(t) ==
    /\ incoming_queue_' = Append(incoming_queue_, t)
    /\ next_sequence_num_' = next_sequence_num_ + 1
    /\ UNCHANGED <<work_queue_, delayed_work_queue_>>
Reloaded ==
    /\ work_queue_ = <<>>
    /\ work_queue_' = incoming_queue_ /\ incoming_queue_' = <<>>
    /\ UNCHANGED <<delayed_work_queue_, next_sequence_num_>>
Taken(delayed) ==
    /\ work_queue_ # <<>>
    /\ work_queue_' = Tail(work_queue_)
    /\ delayed_work_queue_' = delayed_work_queue_ \cup delayed
    /\ UNCHANGED <<incoming_queue_, next_sequence_num_>>
TakenDelayed ==
    /\ delayed_work_queue_' \in SUBSET delayed_work_queue_
    /\ UNCHANGED <<incoming_queue_, work_queue_, next_sequence_num_>>
Dropped ==
    /\ incoming_queue_' = <<>> /\ work_queue_' = <<>> /\ delayed_work_queue_' = {}
    /\ next_sequence_num_' = next_sequence_num_

\* Tasks stay numbered in the order of the queues.
LEMMA OrderStep ==
    ASSUME TypeQueues, Order
    PROVE  /\ \A t \in Tasks : t.num = next_sequence_num_ /\ Posted(t) => Order'
           /\ Reloaded \/ Dropped \/ TakenDelayed => Order'
           /\ Taken({}) \/ Taken({Head(work_queue_)}) => Order'
<1> DEFINE I == Elements(incoming_queue_)
           W == Elements(work_queue_)
<1>0. /\ incoming_queue_ \in Seq(Tasks) /\ work_queue_ \in Seq(Tasks)
      /\ delayed_work_queue_ \subseteq Tasks /\ next_sequence_num_ \in Nat
      /\ \A t \in Tasks : t.num \in Nat
      /\ I \subseteq Tasks /\ W \subseteq Tasks
  BY TaskFields, ElementsType, MessagePumpNetConstants DEF TypeQueues
<1>1. ASSUME NEW t \in Tasks, t.num = next_sequence_num_, Posted(t)
      PROVE  Order'
  <2>1. /\ Elements(incoming_queue_)' = I \cup {t}
        /\ Sorted(incoming_queue_)'
    BY <1>0, <1>1, AppendElements, SortedAppend DEF Posted, Order
  <2>2. /\ \A u \in W \cup I \cup delayed_work_queue_ :
              u.num \in Nat /\ u.num < next_sequence_num_
        /\ Below(W, I) /\ Below(delayed_work_queue_, W)
        /\ Below(delayed_work_queue_, I) /\ Sorted(work_queue_)
    BY <1>0 DEF Order
  <2>3. /\ next_sequence_num_' = next_sequence_num_ + 1
        /\ Elements(work_queue_)' = W /\ delayed_work_queue_' = delayed_work_queue_
        /\ work_queue_' = work_queue_
    BY <1>1 DEF Posted
  <2> HIDE DEF I, W
  <2>4. Below(W, I \cup {t}) /\ Below(delayed_work_queue_, I \cup {t})
    BY <1>1, <2>2 DEF Below
  <2>5. \A u \in W \cup (I \cup {t}) \cup delayed_work_queue_ :
            u.num < next_sequence_num_ + 1
    BY <1>0, <1>1, <2>2
  <2> QED  BY <2>1, <2>2, <2>3, <2>4, <2>5 DEF Order
<1>2. CASE Reloaded
  <2>1. /\ Elements(work_queue_)' = I /\ Elements(incoming_queue_)' = {}
        /\ Sorted(work_queue_)' /\ Sorted(incoming_queue_)'
    BY <1>2, EmptyElements DEF Reloaded, Order, Sorted
  <2> HIDE DEF I, W
  <2> QED  BY <1>2, <2>1 DEF Reloaded, Order, Below, I
<1>3. CASE Dropped
  <2>1. /\ Elements(work_queue_)' = {} /\ Elements(incoming_queue_)' = {}
        /\ Sorted(work_queue_)' /\ Sorted(incoming_queue_)'
    BY <1>3, EmptyElements DEF Dropped, Sorted
  <2> QED  BY <1>3, <2>1 DEF Dropped, Order, Below
<1>4. CASE TakenDelayed
  BY <1>4 DEF TakenDelayed, Order, Below
<1>5. CASE Taken({}) \/ Taken({Head(work_queue_)})
  <2>1. /\ W = {Head(work_queue_)} \cup Elements(Tail(work_queue_))
        /\ Sorted(Tail(work_queue_))
        /\ \A u \in Elements(Tail(work_queue_)) : Head(work_queue_).num < u.num
    BY <1>0, <1>5, TailElements, SortedTail DEF Taken, Order
  <2>2. /\ Elements(work_queue_)' = Elements(Tail(work_queue_))
        /\ work_queue_' = Tail(work_queue_)
        /\ incoming_queue_' = incoming_queue_
        /\ Elements(incoming_queue_)' = I
        /\ next_sequence_num_' = next_sequence_num_
        /\ delayed_work_queue_' \subseteq delayed_work_queue_ \cup {Head(work_queue_)}
    BY <1>5 DEF Taken
  <2>3. /\ \A u \in W \cup I \cup delayed_work_queue_ : u.num < next_sequence_num_
        /\ Below(W, I) /\ Below(delayed_work_queue_, W)
        /\ Below(delayed_work_queue_, I) /\ Sorted(incoming_queue_)
    BY DEF Order
  <2> HIDE DEF I, W
  <2> QED  BY <2>1, <2>2, <2>3 DEF Order, Below
<1> QED  BY <1>1, <1>2, <1>3, <1>4, <1>5

\* The tasks that are queued after each of these.
LEMMA QueuedChange ==
    ASSUME TypeQueues, Order
    PROVE  /\ \A t \in Tasks : Posted(t) => Queued' = Queued \cup {t}
           /\ Reloaded => Queued' = Queued
           /\ \A d : Taken(d) =>
                 /\ Head(work_queue_) \in Tasks
                 /\ Queued = Queued' \cup {Head(work_queue_)}
                 /\ \A u \in Queued' : Head(work_queue_).num < u.num
           /\ Dropped => Queued' = {}
<1>0. incoming_queue_ \in Seq(Tasks) /\ work_queue_ \in Seq(Tasks)
  BY DEF TypeQueues
<1>1. ASSUME NEW t \in Tasks, Posted(t) PROVE Queued' = Queued \cup {t}
  <2>1. Elements(incoming_queue_)' = Elements(incoming_queue_) \cup {t}
    BY <1>0, <1>1, AppendElements DEF Posted
  <2>2. Elements(work_queue_)' = Elements(work_queue_)  BY <1>1 DEF Posted
  <2> QED  BY <2>1, <2>2 DEF Queued
<1>2. ASSUME Reloaded PROVE Queued' = Queued
  BY <1>2, EmptyElements DEF Reloaded, Queued
<1>3. ASSUME NEW d, Taken(d)
      PROVE  /\ Head(work_queue_) \in Tasks
             /\ Queued = Queued' \cup {Head(work_queue_)}
             /\ \A u \in Queued' : Head(work_queue_).num < u.num
  <2>1. /\ Head(work_queue_) \in Tasks
        /\ Elements(work_queue_)
             = {Head(work_queue_)} \cup Elements(Tail(work_queue_))
        /\ \A u \in Elements(Tail(work_queue_)) : Head(work_queue_).num < u.num
    BY <1>0, <1>3, TailElements, SortedTail DEF Taken, Order
  <2>2. /\ Elements(work_queue_)' = Elements(Tail(work_queue_))
        /\ Elements(incoming_queue_)' = Elements(incoming_queue_)
    BY <1>3 DEF Taken
  <2>3. Below(Elements(work_queue_), Elements(incoming_queue_))  BY DEF Order
  <2> QED  BY <2>1, <2>2, <2>3 DEF Queued, Below
<1>4. ASSUME Dropped PROVE Queued' = {}
  BY <1>4, EmptyElements DEF Dropped, Queued
<1> QED  BY <1>1, <1>2, <1>3, <1>4

\* A post appends the task with the next number; only a task without a delay
\* quits, and only when no other one does.
LEMMA PostAppends ==
    ASSUME Types, PostStep
    PROVE  \E t \in Tasks :
              /\ Posted(t) /\ t.num = next_sequence_num_
              /\ t.at # 0 => t.quit = "none"
              /\ t.quit # "none" => ~QuitPosted
<1>1. PICK at \in RunTimes, quit \in {"none", "now", "idle"} :
          /\ quit # "none" => at = 0 /\ ~QuitPosted
          /\ PostPendingTask(at, quit) \/ PostFromLoop(at, quit)
  BY DEF PostStep
<1>2. Enqueue(at, quit) /\ UNCHANGED loop
  BY <1>1 DEF PostPendingTask, PostFromLoop
<1>3. PICK t \in Tasks :
              /\ t.num = next_sequence_num_ /\ t.at = at /\ t.quit = quit
              /\ incoming_queue_' = Append(incoming_queue_, t)
              /\ next_sequence_num_' = next_sequence_num_ + 1
  BY <1>2, PostType
<1>4. quit # "none" => t.at = 0  BY <1>1, <1>3
<1> QED  BY <1>1, <1>2, <1>3, <1>4 DEF Posted, loop

\* How each step changes the queues.
LEMMA QueueSteps ==
    ASSUME Types, [Next]_vars
    PROVE  \/ PostStep
           \/ ReloadWorkQueue /\ Reloaded
           \/ DelayTask /\ Taken({Head(work_queue_)})
           \/ DoWork /\ Taken({})
           \/ DoDelayedWork /\ TakenDelayed
           \/ DeletePendingTasks /\ Dropped
           \/ /\ UNCHANGED <<incoming_queue_, work_queue_, delayed_work_queue_,
                             next_sequence_num_>>
              /\ \/ StartScheduling \/ NothingToDo \/ DoWorkReturns \/ LoopBreaks
                 \/ Dispatch \/ OnWakeup \/ timer_callback
                 \/ (\E c \in Controllers : OnLibeventNotification(c))
                 \/ WriteReturns \/ ReadReturns \/ NoDelayedWork
                 \/ DelayedWorkReturns \/ DoIdleWork \/ Sleep
                 \/ WillDestroyCurrentMessageLoop \/ ClientStep \/ ScheduleWork
                 \/ (\E S \in SUBSET Controllers \ {{}},
                        kinds \in SUBSET Kinds \ {{}} : BecomeReady(S, kinds))
                 \/ Tick \/ UNCHANGED vars
<1>1. ReloadWorkQueue => Reloaded  BY DEF ReloadWorkQueue, Reloaded
<1>2. DelayTask => Taken({Head(work_queue_)})  BY DEF DelayTask, Taken, queue
<1>3. DoWork => Taken({})  BY DEF DoWork, Taken, queue
<1>4. DoDelayedWork => TakenDelayed  BY DEF DoDelayedWork, TakenDelayed, queue
<1>5. DeletePendingTasks => Dropped  BY DEF DeletePendingTasks, Dropped
<1>6. CASE \/ StartScheduling \/ NothingToDo \/ DoWorkReturns \/ LoopBreaks
           \/ Dispatch \/ OnWakeup \/ timer_callback
           \/ (\E c \in Controllers : OnLibeventNotification(c))
           \/ WriteReturns \/ ReadReturns \/ NoDelayedWork \/ DelayedWorkReturns
           \/ DoIdleWork \/ Sleep \/ WillDestroyCurrentMessageLoop
           \/ ClientStep \/ ScheduleWork
           \/ (\E S \in SUBSET Controllers \ {{}}, kinds \in SUBSET Kinds \ {{}} :
                  BecomeReady(S, kinds))
           \/ Tick \/ UNCHANGED vars
  <2>1. UNCHANGED <<incoming_queue_, work_queue_, delayed_work_queue_,
                    next_sequence_num_>>
    BY <1>6
       DEF StartScheduling, NothingToDo, DoWorkReturns, LoopBreaks, Dispatch,
           OnWakeup, timer_callback, OnLibeventNotification, WriteReturns,
           ReadReturns, NoDelayedWork, DelayedWorkReturns, DoIdleWork, Sleep,
           WillDestroyCurrentMessageLoop, ClientStep, WatchFileDescriptor,
           StopWatchingFileDescriptor, DeleteController, Exhaust, ScheduleWork,
           BecomeReady, Tick, vars, queue, loop
  <2> QED  BY <1>6, <2>1
<1> QED  BY <1>1, <1>2, <1>3, <1>4, <1>5, <1>6 DEF Next, LoopStep

\* Every step keeps the order.
LEMMA OrderKept ==
    ASSUME Types, Order, [Next]_vars
    PROVE  Order'
<1>0. TypeQueues  BY DEF Types
<1>1. CASE PostStep  BY <1>0, <1>1, PostAppends, OrderStep
<1>2. CASE UNCHANGED <<incoming_queue_, work_queue_, delayed_work_queue_,
                       next_sequence_num_>>
  BY <1>2 DEF Order
<1> QED  BY <1>0, <1>1, <1>2, QueueSteps, OrderStep

Quits == Delayed /\ OneQuit /\ Stops /\ Drains

\* Running a task keeps the quit's bookkeeping.
LEMMA QuitsRun ==
    ASSUME Types, Quits, NEW t \in Tasks, RunTask(t),
           t \in Queued \/ t.quit = "none",
           Queued' \in SUBSET Queued,
           \A u \in Queued' : t \in Queued => u # t,
           delayed_work_queue_' \in SUBSET delayed_work_queue_,
           recent_time_' <= now', next_sequence_num_' = next_sequence_num_,
           pc \notin Over, pc' \in {"task", "delayed_task"}
    PROVE  Quits'
<1>0. /\ keep_running_ \in BOOLEAN /\ t.quit \in {"none", "now", "idle"}
      /\ next_sequence_num_ \in Nat /\ quit_received \in {"none", "now", "idle"}
  BY TaskFields, MessagePumpNetConstants DEF Types, TypeFlags, TypeQueues
<1>1. Delayed'  BY DEF Quits, Delayed
<1>2. OneQuit'
  <2>1. CASE t.quit = "none"
    BY <2>1 DEF RunTask, Quits, OneQuit
  <2>2. CASE t.quit # "none"
    <3>1. \A u \in Queued' : u.quit = "none"
      BY <2>2 DEF Quits, OneQuit
    <3> QED  BY <3>1 DEF OneQuit
  <2> QED  BY <2>1, <2>2
<1>3. t.quit # "none" => quit_received = "none"
  BY DEF Quits, OneQuit
<1>4. Stops'
  BY <1>0, <1>3 DEF RunTask, Quits, Stops, Over
<1>5. Drains'
  BY <1>0 DEF RunTask, Quits, Drains
<1> QED  BY <1>1, <1>2, <1>4, <1>5 DEF Quits

\* The quit's bookkeeping is kept by every step.
LEMMA QuitsStep ==
    ASSUME Types, Order, Quits, [Next]_vars
    PROVE  Quits'
<1>0. /\ TypeQueues /\ pc \in Locations /\ keep_running_ \in BOOLEAN
      /\ did_work \in BOOLEAN /\ processed_io_events_ \in BOOLEAN
      /\ quit_received \in {"none", "now", "idle"}
      /\ now \in Nat /\ recent_time_ \in Nat /\ mark \in Nat
      /\ next_sequence_num_ \in Nat
      /\ Delayed /\ OneQuit /\ Stops /\ Drains
  BY MessagePumpNetConstants
     DEF Types, TypeFlags, TypeTimes, Times, TypeCounts, TypeQueues, Quits
<1>1. CASE PostStep
  <2>1. PICK t \in Tasks :
              /\ Posted(t) /\ t.num = next_sequence_num_
              /\ t.at # 0 => t.quit = "none"
              /\ t.quit # "none" => ~QuitPosted
    BY <1>1, PostAppends
  <2>2. Queued' = Queued \cup {t}  BY <1>0, <2>1, QueuedChange
  <2>3. /\ UNCHANGED <<loop, run, history, now>>
        /\ delayed_work_queue_' = delayed_work_queue_
        /\ next_sequence_num_' = next_sequence_num_ + 1
    BY <1>1, <2>1 DEF PostStep, PostPendingTask, PostFromLoop, Posted
  <2>4. Delayed'  BY <1>0, <2>1, <2>2, <2>3 DEF Delayed, loop
  <2>5. ~QuitPosted =>
            quit_received = "none" /\ \A u \in Queued : u.quit = "none"
    BY DEF QuitPosted, Queued
  <2>6. OneQuit'  BY <1>0, <2>1, <2>2, <2>3, <2>5 DEF OneQuit, loop
  <2>7. Stops'  BY <1>0, <2>3 DEF Stops, loop, run
  <2>8. Drains'  BY <1>0, <2>1, <2>2, <2>3 DEF Drains, loop, run, history
  <2> QED  BY <2>4, <2>6, <2>7, <2>8 DEF Quits
<1>2. CASE DoWork /\ Taken({})
  <2>1. /\ Head(work_queue_) \in Tasks
        /\ Queued = Queued' \cup {Head(work_queue_)}
        /\ \A u \in Queued' : Head(work_queue_).num < u.num
    BY <1>0, <1>2, QueuedChange
  <2>2. Head(work_queue_).num \in Nat  BY <2>1, TaskFields
  <2>3. \A u \in Queued' : u # Head(work_queue_)  BY <2>1, <2>2
  <2>4. /\ RunTask(Head(work_queue_)) /\ pc = "work" /\ pc' = "task"
        /\ UNCHANGED <<delayed_work_queue_, recent_time_, next_sequence_num_, now>>
    BY <1>2 DEF DoWork, queue
  <2> QED  BY <1>0, <2>1, <2>3, <2>4, QuitsRun DEF Over, Delayed
<1>3. CASE DoDelayedWork /\ TakenDelayed
  <2>1. /\ Top(delayed_work_queue_) \in delayed_work_queue_
        /\ Top(delayed_work_queue_) \in Tasks
    BY <1>3, TopIsFirst DEF DoDelayedWork, Types, TypeQueues
  <2>2. Top(delayed_work_queue_).quit = "none" /\ Top(delayed_work_queue_).at # 0
    BY <1>0, <2>1 DEF Delayed
  <2>3. /\ RunTask(Top(delayed_work_queue_)) /\ pc = "delayed" /\ pc' = "delayed_task"
        /\ UNCHANGED <<next_sequence_num_, now, work_queue_, incoming_queue_>>
        /\ recent_time_' \in {recent_time_, now}
        /\ delayed_work_queue_' \in SUBSET delayed_work_queue_
    BY <1>3 DEF DoDelayedWork, queue
  <2>4. Queued' = Queued  BY <2>3 DEF Queued
  <2>5. recent_time_' <= now'  BY <1>0, <2>3 DEF Delayed
  <2>6. Top(delayed_work_queue_) \notin Queued
    <3> SUFFICES ASSUME Top(delayed_work_queue_) \in Queued PROVE FALSE
      OBVIOUS
    <3>1. Top(delayed_work_queue_).num < Top(delayed_work_queue_).num
      BY <2>1 DEF Order, Below, Queued
    <3>2. Top(delayed_work_queue_).num \in Nat  BY <2>1, TaskFields
    <3> QED  BY <3>1, <3>2
  <2> QED  BY <2>1, <2>2, <2>3, <2>4, <2>5, <2>6, QuitsRun DEF Over
<1>4. CASE ReloadWorkQueue /\ Reloaded
  <2>1. Queued' = Queued  BY <1>0, <1>4, QueuedChange
  <2>2. UNCHANGED <<delayed_work_queue_, recent_time_, quit_received, run, now,
                    mark, next_sequence_num_>>
    BY <1>4 DEF ReloadWorkQueue, world, history
  <2> QED
    BY <1>0, <2>1, <2>2 DEF Quits, Delayed, OneQuit, Stops, Drains, run
<1>5. CASE DelayTask /\ Taken({Head(work_queue_)})
  <2>1. Queued = Queued' \cup {Head(work_queue_)}
    BY <1>0, <1>5, QueuedChange
  <2>2. /\ UNCHANGED <<recent_time_, quit_received, keep_running_, pc, did_work,
                       now, mark, next_sequence_num_>>
        /\ pc = "work" /\ Head(work_queue_).at # 0
        /\ delayed_work_queue_' = delayed_work_queue_ \cup {Head(work_queue_)}
    BY <1>5 DEF DelayTask, queue, world, history
  <2> QED
    BY <1>0, <2>1, <2>2 DEF Quits, Delayed, OneQuit, Stops, Drains
<1>6. CASE DeletePendingTasks /\ Dropped
  <2>1. Queued' = {} /\ delayed_work_queue_' = {}
    BY <1>0, <1>6, QueuedChange DEF Dropped
  <2>2. /\ UNCHANGED <<recent_time_, quit_received, keep_running_, now, mark,
                       next_sequence_num_>>
        /\ pc = "destroy" /\ pc' \in {"destroy", "close"}
    BY <1>6 DEF DeletePendingTasks, world, history
  <2> QED
    BY <1>0, <2>1, <2>2 DEF Quits, Delayed, OneQuit, Stops, Drains, Over
<1>7. ASSUME UNCHANGED <<incoming_queue_, work_queue_, delayed_work_queue_,
                         next_sequence_num_>>,
             \/ StartScheduling \/ NothingToDo \/ DoWorkReturns \/ LoopBreaks
             \/ Dispatch \/ OnWakeup \/ timer_callback
             \/ (\E c \in Controllers : OnLibeventNotification(c))
             \/ WriteReturns \/ ReadReturns \/ NoDelayedWork
             \/ DelayedWorkReturns \/ DoIdleWork \/ Sleep
             \/ WillDestroyCurrentMessageLoop \/ ClientStep \/ ScheduleWork
             \/ (\E S \in SUBSET Controllers \ {{}},
                    kinds \in SUBSET Kinds \ {{}} : BecomeReady(S, kinds))
             \/ Tick \/ UNCHANGED vars
      PROVE  Quits'
  <2>1. Queued' = Queued /\ next_sequence_num_' = next_sequence_num_
    BY <1>7 DEF Queued
  <2>2. UNCHANGED <<quit_received, mark>>
    BY <1>7
       DEF StartScheduling, NothingToDo, DoWorkReturns, LoopBreaks, Dispatch,
           OnWakeup, timer_callback, OnLibeventNotification, WriteReturns,
           ReadReturns, NoDelayedWork, DelayedWorkReturns, DoIdleWork, Sleep,
           WillDestroyCurrentMessageLoop, ClientStep, WatchFileDescriptor,
           StopWatchingFileDescriptor, DeleteController, Exhaust, ScheduleWork,
           BecomeReady, Tick, vars, loop, history
  <2>3. recent_time_' <= now'
    <3>1. \/ UNCHANGED <<recent_time_, now>>
          \/ recent_time_' \in {0, now} /\ now' = now
          \/ recent_time_' = recent_time_ /\ now' = now + 1
      BY <1>7
         DEF StartScheduling, NothingToDo, DoWorkReturns, LoopBreaks, Dispatch,
             OnWakeup, timer_callback, OnLibeventNotification, WriteReturns,
             ReadReturns, NoDelayedWork, DelayedWorkReturns, DoIdleWork, Sleep,
             WillDestroyCurrentMessageLoop, ClientStep, WatchFileDescriptor,
             StopWatchingFileDescriptor, DeleteController, Exhaust, ScheduleWork,
             BecomeReady, Tick, vars, loop, world
    <3> QED  BY <1>0, <3>1 DEF Delayed
  <2>4. Delayed' /\ OneQuit'
    BY <1>0, <1>7, <2>1, <2>2, <2>3 DEF Delayed, OneQuit
  <2>5. ASSUME keep_running_' = keep_running_,
               \/ UNCHANGED <<pc, did_work>>
               \/ pc \notin Over /\ pc' = "work"
               \/ pc \in Poll /\ pc' \in Poll /\ did_work' = did_work
               \/ /\ pc \in Poll /\ (did_work => did_work')
                  /\ pc' = IF keep_running_ THEN "delayed" ELSE "destroy"
        PROVE  Stops' /\ Drains'
    BY <1>0, <2>1, <2>2, <2>5 DEF Stops, Drains, Over, Poll
  <2>6. ASSUME \/ LoopBreaks \/ Dispatch \/ OnWakeup \/ timer_callback
               \/ (\E c \in Controllers : OnLibeventNotification(c))
               \/ WriteReturns \/ ReadReturns
        PROVE  Stops' /\ Drains'
    <3>1. /\ keep_running_' = keep_running_ /\ pc \in Poll
          /\ \/ pc' = "work"
             \/ pc' \in Poll /\ did_work' = did_work
             \/ /\ did_work => did_work'
                /\ pc' = IF keep_running_ THEN "delayed" ELSE "destroy"
      BY <2>6
         DEF LoopBreaks, Dispatch, OnWakeup, timer_callback,
             OnLibeventNotification, WriteReturns, ReadReturns, CallbackReturns,
             AfterCallback, PollReturns, SleepReturns, Poll
    <3> QED  BY <2>5, <3>1 DEF Poll, Over
  <2>7. ASSUME NothingToDo PROVE Stops' /\ Drains'
    <3>1. Queued = {}  BY <2>7, EmptyElements DEF NothingToDo, Queued
    <3>2. /\ keep_running_' = keep_running_ /\ pc = "work"
          /\ pc' = IF keep_running_ THEN "event_loop" ELSE "destroy"
      BY <2>7 DEF NothingToDo, PollOrBreak
    <3> QED  BY <1>0, <2>1, <2>2, <3>1, <3>2 DEF Stops, Drains, Over
  <2>8. ASSUME DoWorkReturns PROVE Stops' /\ Drains'
    BY <1>0, <2>1, <2>2, <2>8
       DEF DoWorkReturns, PollOrBreak, Stops, Drains, Over, Poll
  <2>9. ASSUME NoDelayedWork PROVE Stops' /\ Drains'
    BY <1>0, <2>1, <2>2, <2>9
       DEF NoDelayedWork, ContinueOrIdle, Stops, Drains, Over, Poll
  <2>10. ASSUME DelayedWorkReturns PROVE Stops' /\ Drains'
    BY <1>0, <2>1, <2>2, <2>10
       DEF DelayedWorkReturns, Stops, Drains, Over, Poll
  <2>11. ASSUME DoIdleWork PROVE Stops' /\ Drains'
    BY <1>0, <2>1, <2>2, <2>11
       DEF DoIdleWork, Stops, Drains, Over, Poll
  <2>12. ASSUME Sleep PROVE Stops' /\ Drains'
    BY <1>0, <2>1, <2>2, <2>12 DEF Sleep, Stops, Drains, Over, Poll
  <2>13. ASSUME WillDestroyCurrentMessageLoop PROVE Stops' /\ Drains'
    BY <1>0, <2>1, <2>2, <2>13
       DEF WillDestroyCurrentMessageLoop, Stops, Drains, Over, Poll
  <2>14. ASSUME \/ ClientStep \/ ScheduleWork
                \/ (\E S \in SUBSET Controllers \ {{}},
                       kinds \in SUBSET Kinds \ {{}} : BecomeReady(S, kinds))
                \/ Tick \/ UNCHANGED vars
         PROVE  Stops' /\ Drains'
    <3>1. UNCHANGED run
      BY <2>14
         DEF ClientStep, WatchFileDescriptor, StopWatchingFileDescriptor,
             DeleteController, Exhaust, ScheduleWork, BecomeReady, Tick, vars
    <3> QED  BY <2>5, <3>1 DEF run
  <2>15. ASSUME StartScheduling PROVE Stops' /\ Drains'
    BY <2>5, <2>15 DEF StartScheduling, Over
  <2> QED
    BY <1>7, <2>4, <2>6, <2>7, <2>8, <2>9, <2>10, <2>11, <2>12, <2>13, <2>14,
       <2>15
       DEF Quits
<1> QED
  BY <1>1, <1>2, <1>3, <1>4, <1>5, <1>6, <1>7, QueueSteps

-----------------------------------------------------------------------------
(* What becomes of a task.                                                  *)

\* A task leaves the queues by running, until the loop is destroyed.
LEMMA AccountedStep ==
    ASSUME Types, Order, Accounted, [Next]_vars
    PROVE  Accounted'
<1>0. /\ TypeQueues /\ next_sequence_num_ \in Nat
  BY MessagePumpNetConstants DEF Types, TypeQueues
<1>a. pc \in Over => pc' \in Over
  <2>1. CASE \/ StartScheduling \/ ReloadWorkQueue \/ NothingToDo \/ DelayTask
             \/ DoWork \/ DoWorkReturns \/ LoopBreaks \/ Dispatch \/ OnWakeup
             \/ timer_callback \/ WriteReturns \/ ReadReturns \/ NoDelayedWork
             \/ DoDelayedWork \/ DelayedWorkReturns \/ DoIdleWork \/ Sleep
             \/ (\E c \in Controllers : OnLibeventNotification(c))
    BY <2>1
       DEF StartScheduling, ReloadWorkQueue, NothingToDo, DelayTask, DoWork,
           DoWorkReturns, LoopBreaks, Dispatch, OnWakeup, timer_callback,
           WriteReturns, ReadReturns, NoDelayedWork, DoDelayedWork,
           DelayedWorkReturns, DoIdleWork, Sleep, OnLibeventNotification, Over
  <2>2. CASE DeletePendingTasks \/ WillDestroyCurrentMessageLoop
    BY <2>2 DEF DeletePendingTasks, WillDestroyCurrentMessageLoop, Over
  <2>3. CASE \/ ClientStep \/ PostStep \/ ScheduleWork
             \/ (\E S \in SUBSET Controllers \ {{}},
                    kinds \in SUBSET Kinds \ {{}} : BecomeReady(S, kinds))
             \/ Tick \/ UNCHANGED vars
    BY <2>3
       DEF ClientStep, WatchFileDescriptor, StopWatchingFileDescriptor,
           DeleteController, Exhaust, PostStep, PostPendingTask, PostFromLoop,
           ScheduleWork, BecomeReady, Tick, vars, run
  <2> QED  BY <2>1, <2>2, <2>3 DEF Next, LoopStep
<1>b. ASSUME \A n \in 0 .. next_sequence_num_ - 1 : Kept(n) => Kept(n)',
             next_sequence_num_' = next_sequence_num_
      PROVE  Accounted'
  BY <1>a, <1>b DEF Accounted
<1>1. CASE PostStep
  <2>1. PICK t \in Tasks : Posted(t) /\ t.num = next_sequence_num_
    BY <1>1, PostAppends
  <2>2. /\ Queued' = Queued \cup {t}
        /\ delayed_work_queue_' = delayed_work_queue_
        /\ next_sequence_num_' = next_sequence_num_ + 1
    BY <1>0, <2>1, QueuedChange DEF Posted
  <2>3. ran' = ran
    BY <1>1 DEF PostStep, PostPendingTask, PostFromLoop, history
  <2>4. \A n \in 0 .. next_sequence_num_' - 1 :
            n \in 0 .. next_sequence_num_ - 1 \/ n = t.num
    BY <1>0, <2>1, <2>2
  <2> QED  BY <1>a, <2>2, <2>3, <2>4 DEF Accounted, Kept
<1>2. CASE DoWork /\ Taken({})
  <2>1. Queued = Queued' \cup {Head(work_queue_)}
    BY <1>0, <1>2, QueuedChange
  <2>2. /\ ran' = ran \cup {Head(work_queue_).num}
        /\ UNCHANGED <<delayed_work_queue_, next_sequence_num_>>
    BY <1>2 DEF DoWork, RunTask, queue
  <2> QED  BY <1>b, <2>1, <2>2 DEF Kept
<1>3. CASE DoDelayedWork /\ TakenDelayed
  <2>1. /\ ran' = ran \cup {Top(delayed_work_queue_).num}
        /\ delayed_work_queue_'
             = delayed_work_queue_ \ {Top(delayed_work_queue_)}
        /\ UNCHANGED <<work_queue_, incoming_queue_, next_sequence_num_>>
    BY <1>3 DEF DoDelayedWork, RunTask, queue
  <2>2. Queued' = Queued  BY <2>1 DEF Queued
  <2> QED  BY <1>b, <2>1, <2>2 DEF Kept
<1>4. CASE ReloadWorkQueue /\ Reloaded
  <2>1. /\ Queued' = Queued
        /\ UNCHANGED <<delayed_work_queue_, ran, next_sequence_num_>>
    BY <1>0, <1>4, QueuedChange DEF ReloadWorkQueue, history
  <2> QED  BY <1>b, <2>1 DEF Kept
<1>5. CASE DelayTask /\ Taken({Head(work_queue_)})
  <2>1. Queued = Queued' \cup {Head(work_queue_)}
    BY <1>0, <1>5, QueuedChange
  <2>2. /\ delayed_work_queue_' = delayed_work_queue_ \cup {Head(work_queue_)}
        /\ UNCHANGED <<ran, next_sequence_num_>>
    BY <1>5 DEF DelayTask, queue, history
  <2> QED  BY <1>b, <2>1, <2>2 DEF Kept
<1>6. CASE DeletePendingTasks
  BY <1>6 DEF DeletePendingTasks, Accounted, Over
<1>7. ASSUME UNCHANGED <<incoming_queue_, work_queue_, delayed_work_queue_,
                         next_sequence_num_>>,
             \/ StartScheduling \/ NothingToDo \/ DoWorkReturns \/ LoopBreaks
             \/ Dispatch \/ OnWakeup \/ timer_callback
             \/ (\E c \in Controllers : OnLibeventNotification(c))
             \/ WriteReturns \/ ReadReturns \/ NoDelayedWork
             \/ DelayedWorkReturns \/ DoIdleWork \/ Sleep
             \/ WillDestroyCurrentMessageLoop \/ ClientStep \/ ScheduleWork
             \/ (\E S \in SUBSET Controllers \ {{}},
                    kinds \in SUBSET Kinds \ {{}} : BecomeReady(S, kinds))
             \/ Tick \/ UNCHANGED vars
      PROVE  Accounted'
  <2>1. ran' = ran
    BY <1>7
       DEF StartScheduling, NothingToDo, DoWorkReturns, LoopBreaks, Dispatch,
           OnWakeup, timer_callback, OnLibeventNotification, WriteReturns,
           ReadReturns, NoDelayedWork, DelayedWorkReturns, DoIdleWork, Sleep,
           WillDestroyCurrentMessageLoop, ClientStep, WatchFileDescriptor,
           StopWatchingFileDescriptor, DeleteController, Exhaust, ScheduleWork,
           BecomeReady, Tick, vars, history
  <2>2. Queued' = Queued  BY <1>7 DEF Queued
  <2> QED  BY <1>7, <1>b, <2>1, <2>2 DEF Kept
<1> QED
  BY <1>1, <1>2, <1>3, <1>4, <1>5, <1>6, <1>7, QueueSteps

\* Run is idle after a DoDelayedWork that found nothing due, and stays so.
LEMMA NoneDueStep ==
    ASSUME Types, NoneDue, [Next]_vars
    PROVE  NoneDue'
<1>1. CASE NoDelayedWork
  <2>1. ASSUME NEW t \in delayed_work_queue_ PROVE t.at > now
    <3>1. /\ Top(delayed_work_queue_).at <= t.at
          /\ Top(delayed_work_queue_) \in Tasks /\ t \in Tasks
      BY TopIsFirst DEF Types, TypeQueues
    <3>2. Top(delayed_work_queue_).at \in Nat /\ t.at \in Nat /\ now \in Nat
      BY <3>1, TaskFields, MessagePumpNetConstants DEF Types, TypeTimes, Times
    <3>3. Top(delayed_work_queue_).at > now  BY <1>1 DEF NoDelayedWork
    <3> QED  BY <3>1, <3>2, <3>3
  <2>2. /\ delayed_work_queue_' = delayed_work_queue_
        /\ delayed_work_queue_ # {} => recent_time_' = now
    BY <1>1 DEF NoDelayedWork
  <2> QED  BY <2>1, <2>2 DEF NoneDue
<1>2. CASE \/ StartScheduling \/ ReloadWorkQueue \/ NothingToDo \/ DelayTask
           \/ DoWork \/ DoWorkReturns \/ LoopBreaks \/ Dispatch \/ OnWakeup
           \/ timer_callback \/ WriteReturns \/ ReadReturns
           \/ DoDelayedWork \/ DelayedWorkReturns \/ DoIdleWork \/ Sleep
           \/ (\E c \in Controllers : OnLibeventNotification(c))
           \/ DeletePendingTasks \/ WillDestroyCurrentMessageLoop
  <2>1. pc' # "idle"
    BY <1>2
       DEF StartScheduling, ReloadWorkQueue, NothingToDo, DelayTask, DoWork,
           DoWorkReturns, LoopBreaks, Dispatch, OnWakeup, timer_callback,
           WriteReturns, ReadReturns, CallbackReturns, AfterCallback,
           PollOrBreak, PollReturns, SleepReturns, DoDelayedWork,
           DelayedWorkReturns, DoIdleWork, Sleep, OnLibeventNotification,
           DeletePendingTasks, WillDestroyCurrentMessageLoop, run
  <2> QED  BY <2>1 DEF NoneDue
<1>3. CASE \/ ClientStep \/ PostStep \/ ScheduleWork
           \/ (\E S \in SUBSET Controllers \ {{}},
                  kinds \in SUBSET Kinds \ {{}} : BecomeReady(S, kinds))
           \/ Tick \/ UNCHANGED vars
  <2>1. UNCHANGED <<loop, run>>
    BY <1>3
       DEF ClientStep, WatchFileDescriptor, StopWatchingFileDescriptor,
           DeleteController, Exhaust, PostStep, PostPendingTask, PostFromLoop,
           ScheduleWork, BecomeReady, Tick, vars
  <2> QED  BY <2>1 DEF NoneDue, loop, run
<1> QED  BY <1>1, <1>2, <1>3 DEF Next, LoopStep

-----------------------------------------------------------------------------
(* The theorems.                                                            *)

\* A new loop satisfies the inductive invariant.
LEMMA InitIInv ==
    ASSUME Init PROVE IInv
<1> USE MessagePumpNetConstants
<1>1. TypeQueues  BY DEF Init, TypeQueues
<1>2. TypeFlags  BY DEF Init, TypeFlags, Locations
<1>3. TypeTimes  BY DEF Init, TypeTimes, Times
<1>4. TypeEvents  BY DEF Init, TypeEvents, Life, Kinds, Events
<1>5. TypeCounts  BY DEF Init, TypeCounts
<1>6. TypeOK  BY <1>1, <1>2, <1>3, <1>4, <1>5, TypesOK DEF Types
<1>7. Watches  BY DEF Init, Watches
<1>8. BreakEnds /\ TimerOff /\ ToSleep /\ Sleeping /\ NoWorkDone /\ Wakeups
  BY DEF Init, BreakEnds, TimerOff, ToSleep, Sleeping, NoWorkDone, Wakeups,
     Awake,
         Poll
<1>9. Queued = {} /\ Elements(work_queue_) = {} /\ Elements(incoming_queue_) = {}
  BY EmptyElements DEF Init, Queued
<1>10. Order
  BY <1>9 DEF Init, Order, Sorted, Below
<1>11. Delayed /\ OneQuit /\ Stops /\ Drains
  BY <1>9 DEF Init, Delayed, OneQuit, Stops, Drains, Over
<1>12. Accounted /\ NoneDue  BY DEF Init, Accounted, NoneDue
<1> QED  BY <1>6, <1>7, <1>8, <1>10, <1>11, <1>12 DEF IInv

\* Every step preserves it.
LEMMA Invariance ==
    ASSUME IInv, [Next]_vars PROVE IInv'
<1>0. Types /\ SleepTimer /\ Quits  BY TypesOK DEF IInv, SleepTimer, Quits
<1>1. Types'  BY <1>0, TypeStep
<1>2. TypeOK'
  <2>1. (TypeOK <=> Types)'  BY TypesOK, PTL
  <2> QED  BY <1>1, <2>1
<1>3. Watches'  BY <1>0, WatchesStep DEF IInv
<1>4. SleepTimer'  BY <1>0, TimerStep
<1>5. NoWorkDone' /\ Wakeups'  BY <1>0, WakesStep DEF IInv
<1>6. Order'  BY <1>0, OrderKept DEF IInv
<1>7. Quits'  BY <1>0, QuitsStep DEF IInv
<1>8. Accounted' /\ NoneDue'  BY <1>0, AccountedStep, NoneDueStep DEF IInv
<1> QED
  BY <1>2, <1>3, <1>4, <1>5, <1>6, <1>7, <1>8 DEF IInv, SleepTimer, Quits

\* The queues, the pump, the controllers and libevent keep to their types: the
\* numbers and times stay within bounds, and a full pipe is not overfilled.
THEOREM TypeCorrect == Spec => []TypeOK
<1>1. IInv => TypeOK  BY DEF IInv
<1> QED  BY InitIInv, Invariance, <1>1, PTL DEF Spec

\* While the loop sleeps no task waits without a byte in the pipe or a poster
\* about to write one (PostPendingTask, ReloadWorkQueue, OnWakeup, Run).
THEOREM WakeupsReachTheLoop == Spec => []NoLostWakeup
<1>1. IInv => NoLostWakeup
  <2> SUFFICES ASSUME IInv, Asleep
               PROVE  /\ work_queue_ = <<>>
                      /\ incoming_queue_ = <<>> \/ pipe > 0 \/ writers > 0
    BY DEF NoLostWakeup
  <2>1. ~Awake  BY DEF IInv, Asleep, Awake, NoWorkDone, Poll, Over
  <2> QED  BY <2>1 DEF IInv, Wakeups
<1> QED  BY InitIInv, Invariance, <1>1, PTL DEF Spec

\* The sleep ends when the first delayed task is due at the latest, and its
\* timer is on none of libevent's lists outside the sleep (DoDelayedWork, Run).
THEOREM SleepsInTime == Spec => []TimerMatchesSleep
<1>1. IInv => TimerMatchesSleep
  <2>1. ASSUME IInv, Asleep, delayed_work_queue_ # {}
        PROVE  timer_event # 0 /\ timer_event <= Top(delayed_work_queue_).at
    BY <2>1 DEF IInv, Asleep, Sleeping, InTime, Poll
  <2>2. ASSUME IInv, timer_event # 0 \/ "timer" \in active
        PROVE  /\ mode = "ONCE"
               /\ pc \in {"event_loop", "process_active", "write_cb", "read_cb"}
    BY <2>2 DEF IInv, TimerOff, Poll
  <2> QED  BY <2>1, <2>2 DEF TimerMatchesSleep
<1> QED  BY InitIInv, Invariance, <1>1, PTL DEF Spec

\* When DoIdleWork is about to leave Run after Thread::Stop, every task posted
\* before the quit task ran has run, but for delayed tasks that were not due.
THEOREM StopLosesNoDueTask == Spec => []StopDrains
<1>1. IInv => StopDrains
  <2> SUFFICES ASSUME IInv, pc = "idle", quit_received = "idle",
                      NEW n \in 0 .. mark - 1
               PROVE  \/ n \in ran
                      \/ \E t \in delayed_work_queue_ :
                            t.num = n /\ t.at > recent_time_
    BY DEF StopDrains
  <2>1. /\ mark \in Nat /\ next_sequence_num_ \in Nat
        /\ mark <= next_sequence_num_ /\ \A t \in Queued : t.num >= mark
    BY MessagePumpNetConstants DEF IInv, TypeOK, Drains, Poll
  <2>2. n \in 0 .. next_sequence_num_ - 1 /\ n < mark  BY <2>1
  <2>3. Kept(n)  BY <2>2 DEF IInv, Accounted, Over
  <2>4. \A t \in Queued : t.num # n  BY <2>1, <2>2
  <2> QED  BY <2>3, <2>4 DEF IInv, NoneDue, Kept
<1> QED  BY InitIInv, Invariance, <1>1, PTL DEF Spec

\* A callback starts only on a controller that is alive and watching, whatever
\* the callbacks before it stopped or deleted (OnLibeventNotification).
THEOREM CallbacksFindWatchers == Spec => CallbacksReachWatchers
<1>1. ASSUME IInv, [Next]_vars, pc' \in {"write_cb", "read_cb"}, pc' # pc
      PROVE  life[context'] = "alive" /\ watcher_[context']
  <2>1. ASSUME NEW c \in Controllers, OnLibeventNotification(c)
        PROVE  life[context'] = "alive" /\ watcher_[context']
    BY <1>1, <2>1 DEF IInv, Watches, OnLibeventNotification
  <2>2. CASE WriteReturns
    BY <1>1, <2>2
       DEF WriteReturns, ReadFollows, CallbackReturns, AfterCallback, SleepReturns
  <2>3. CASE \/ StartScheduling \/ ReloadWorkQueue \/ NothingToDo \/ DelayTask
             \/ DoWork \/ DoWorkReturns \/ LoopBreaks \/ Dispatch \/ OnWakeup
             \/ timer_callback \/ ReadReturns \/ NoDelayedWork \/ DoDelayedWork
             \/ DelayedWorkReturns \/ DoIdleWork \/ Sleep \/ DeletePendingTasks
             \/ WillDestroyCurrentMessageLoop
    <3>1. pc' \notin {"write_cb", "read_cb"} \/ pc' = pc
      BY <2>3
         DEF StartScheduling, ReloadWorkQueue, NothingToDo, DelayTask, DoWork,
             DoWorkReturns, LoopBreaks, Dispatch, OnWakeup, timer_callback,
             ReadReturns, NoDelayedWork, DoDelayedWork, DelayedWorkReturns,
             DoIdleWork, Sleep, DeletePendingTasks,
             WillDestroyCurrentMessageLoop, PollOrBreak, PollReturns,
             SleepReturns, CallbackReturns, AfterCallback, ContinueOrIdle, run
    <3> QED  BY <1>1, <3>1
  <2>4. CASE \/ ClientStep \/ PostStep \/ ScheduleWork
             \/ (\E S \in SUBSET Controllers \ {{}},
                    kinds \in SUBSET Kinds \ {{}} : BecomeReady(S, kinds))
             \/ Tick \/ UNCHANGED vars
    <3>1. pc' = pc
      BY <2>4
         DEF ClientStep, WatchFileDescriptor, StopWatchingFileDescriptor,
             DeleteController, Exhaust, PostStep, PostPendingTask, PostFromLoop,
             ScheduleWork, BecomeReady, Tick, vars, run
    <3> QED  BY <1>1, <3>1
  <2> QED  BY <1>1, <2>1, <2>2, <2>3, <2>4 DEF Next, LoopStep
<1>2. ASSUME IInv, [Next]_vars
      PROVE  [pc' \in {"write_cb", "read_cb"} /\ pc' # pc =>
                life[context'] = "alive" /\ watcher_[context']]_vars
  BY <1>1, <1>2
<1> QED
  BY InitIInv, Invariance, <1>2, PTL DEF Spec, CallbacksReachWatchers

-----------------------------------------------------------------------------
(* The refinement.                                                          *)

\* The tasks that are pending, as TaskRunner sees them.
Pending == Elements(incoming_queue_) \cup Elements(work_queue_)
             \cup delayed_work_queue_

\* A step changes what TaskRunner sees by one of its steps or not at all.
LEMMA RefinesStep ==
    ASSUME IInv, [Next]_vars
    PROVE  [Abstract!Next]_Abstract!vars
<1>0. /\ Types /\ TypeQueues /\ Order /\ Delayed /\ Stops
      /\ quit_received \in {"none", "now", "idle"} /\ now \in Nat
      /\ recent_time_ \in Nat /\ next_sequence_num_ \in Nat
  BY TypesOK, MessagePumpNetConstants
     DEF IInv, Types, TypeFlags, TypeTimes, Times, TypeQueues
<1>1. Pending = Queued \cup delayed_work_queue_
      /\ Pending' = Queued' \cup delayed_work_queue_'
  BY DEF Pending, Queued
<1>a. pc \in Over => quit_received # "none"  BY <1>0 DEF Stops
<1>2. CASE PostStep
  <2>1. PICK t \in Tasks :
              /\ Posted(t) /\ t.num = next_sequence_num_
              /\ t.at # 0 => t.quit = "none"
              /\ t.quit # "none" => ~QuitPosted
    BY <1>0, <1>2, PostAppends
  <2>2. Pending' = Pending \cup {t}
    BY <1>0, <1>1, <2>1, QueuedChange DEF Posted
  <2>3. /\ message_loop_ /\ message_loop_' = message_loop_
        /\ quit_received' = quit_received /\ now' = now
        /\ next_sequence_num_' = next_sequence_num_ + 1
    BY <1>2, <2>1 DEF PostStep, PostPendingTask, PostFromLoop, Enqueue, loop,
       Posted
  <2>4. t = Abstract!Task(next_sequence_num_, t.at, t.quit)
        /\ t.quit \in Abstract!Quits
    BY <2>1 DEF Tasks, Abstract!Task, Abstract!Quits
  <2>5. t.at \in Nat  BY <2>1, TaskFields
  <2>6. Abstract!Post
    BY <2>2, <2>3, <2>4, <2>5 DEF Abstract!Post, Pending
  <2> QED  BY <2>6 DEF Abstract!Next
<1>3. CASE DoWork /\ Taken({})
  <2>1. PICK t : t = Head(work_queue_)  OBVIOUS
  <2>2. /\ t \in Tasks /\ Queued = Queued' \cup {t}
        /\ \A u \in Queued' : t.num < u.num
    BY <1>0, <1>3, <2>1, QueuedChange
  <2>3. /\ t.at = 0 /\ RunTask(t) /\ delayed_work_queue_' = delayed_work_queue_
        /\ UNCHANGED <<now, next_sequence_num_, message_loop_>>
    BY <1>3, <2>1 DEF DoWork, queue
  <2>4. t.num \in Nat /\ t.quit \in {"none", "now", "idle"}
    BY <2>2, TaskFields
  <2>5. t \in Pending /\ t \notin delayed_work_queue_ /\ t \notin Queued'
    BY <1>0, <1>1, <2>2, <2>3, <2>4 DEF Delayed
  <2>6. Pending' = Pending \ {t}  BY <1>1, <2>2, <2>3, <2>5
  <2>7. \A u \in Abstract!Immediate(Pending) : t.num <= u.num
    <3> SUFFICES ASSUME NEW u \in Pending, u.at = 0 PROVE t.num <= u.num
      BY DEF Abstract!Immediate
    <3>1. u \in Queued  BY <1>0, <1>1 DEF Delayed
    <3>2. u \in Tasks
      BY <1>0, <3>1, ElementsType DEF TypeQueues, Queued
    <3>3. u.num \in Nat  BY <3>2, TaskFields
    <3> QED  BY <2>2, <2>4, <3>1, <3>3
  <2>8. (quit_received' # "none") = (quit_received # "none" \/ t.quit # "none")
    BY <2>3, <2>4 DEF RunTask
  <2>9. Abstract!Run(t)
    BY <2>3, <2>6, <2>7, <2>8 DEF Abstract!Run, Pending
  <2> QED  BY <2>5, <2>9 DEF Abstract!Next, Pending
<1>4. CASE DoDelayedWork /\ TakenDelayed
  <2>1. PICK t : t = Top(delayed_work_queue_)  OBVIOUS
  <2>2. t \in delayed_work_queue_ /\ t \in Tasks
    BY <1>0, <1>4, <2>1, TopIsFirst DEF DoDelayedWork, TypeQueues
  <2>3. /\ RunTask(t) /\ delayed_work_queue_' = delayed_work_queue_ \ {t}
        /\ t.at <= recent_time_ \/ t.at <= now
        /\ UNCHANGED <<now, next_sequence_num_, message_loop_, work_queue_,
                       incoming_queue_>>
    BY <1>4, <2>1 DEF DoDelayedWork, queue
  <2>4. /\ t.num \in Nat /\ t.at \in Nat /\ t.quit \in {"none", "now", "idle"}
        /\ t.at # 0
    BY <1>0, <2>2, TaskFields DEF Delayed
  <2>5. t.at <= now  BY <1>0, <2>3, <2>4 DEF Delayed
  <2>6. t \notin Queued
    <3> SUFFICES ASSUME t \in Queued PROVE FALSE
      OBVIOUS
    <3>1. t.num < t.num  BY <1>0, <2>2 DEF Order, Below, Queued
    <3> QED  BY <2>4, <3>1
  <2>7. Queued' = Queued  BY <2>3 DEF Queued
  <2>8. Pending' = Pending \ {t}  BY <1>1, <2>3, <2>6, <2>7
  <2>9. (quit_received' # "none") = (quit_received # "none" \/ t.quit # "none")
    BY <2>3, <2>4 DEF RunTask
  <2>10. Abstract!Run(t)
    BY <2>3, <2>4, <2>5, <2>8, <2>9 DEF Abstract!Run, Pending
  <2>11. t \in Pending  BY <1>1, <2>2
  <2> QED  BY <2>10, <2>11 DEF Abstract!Next, Pending
<1>5. CASE DeletePendingTasks /\ Dropped
  <2>1. Pending' = {}  BY <1>0, <1>1, <1>5, QueuedChange DEF Dropped
  <2>2. /\ quit_received # "none" /\ quit_received' = quit_received
        /\ UNCHANGED <<now, next_sequence_num_, message_loop_>>
    BY <1>5, <1>a DEF DeletePendingTasks, Over, world
  <2>3. Abstract!GiveUp  BY <2>1, <2>2 DEF Abstract!GiveUp, Pending
  <2> QED  BY <2>3 DEF Abstract!Next
<1>6. ASSUME Pending' = Pending, quit_received' = quit_received,
             UNCHANGED <<now, next_sequence_num_, message_loop_>>
      PROVE  UNCHANGED Abstract!vars
  BY <1>6 DEF Abstract!vars, Pending
<1>7. CASE ReloadWorkQueue /\ Reloaded
  <2>1. Queued' = Queued  BY <1>0, <1>7, QueuedChange
  <2>2. UNCHANGED <<delayed_work_queue_, quit_received, now, next_sequence_num_,
                    message_loop_>>
    BY <1>7 DEF ReloadWorkQueue, world
  <2> QED  BY <1>1, <1>6, <2>1, <2>2
<1>8. CASE DelayTask /\ Taken({Head(work_queue_)})
  <2>1. Queued = Queued' \cup {Head(work_queue_)}  BY <1>0, <1>8, QueuedChange
  <2>2. /\ delayed_work_queue_' = delayed_work_queue_ \cup {Head(work_queue_)}
        /\ UNCHANGED <<quit_received, now, next_sequence_num_, message_loop_>>
    BY <1>8 DEF DelayTask, queue, world
  <2> QED  BY <1>1, <1>6, <2>1, <2>2
<1>9. ASSUME UNCHANGED <<incoming_queue_, work_queue_, delayed_work_queue_,
                         next_sequence_num_>>,
             \/ StartScheduling \/ NothingToDo \/ DoWorkReturns \/ LoopBreaks
             \/ Dispatch \/ OnWakeup \/ timer_callback
             \/ (\E c \in Controllers : OnLibeventNotification(c))
             \/ WriteReturns \/ ReadReturns \/ NoDelayedWork
             \/ DelayedWorkReturns \/ DoIdleWork \/ Sleep
             \/ WillDestroyCurrentMessageLoop \/ ClientStep \/ ScheduleWork
             \/ (\E S \in SUBSET Controllers \ {{}},
                    kinds \in SUBSET Kinds \ {{}} : BecomeReady(S, kinds))
             \/ Tick \/ UNCHANGED vars
      PROVE  [Abstract!Next]_Abstract!vars
  <2>1. Pending' = Pending  BY <1>9 DEF Pending
  <2>2. CASE Tick
    <3>1. UNCHANGED <<message_loop_, quit_received, next_sequence_num_>>
          /\ now' = now + 1
      BY <2>2 DEF Tick, queue, loop
    <3>2. Abstract!Tick  BY <2>1, <3>1 DEF Abstract!Tick, Pending
    <3> QED  BY <3>2 DEF Abstract!Next
  <2>3. CASE WillDestroyCurrentMessageLoop
    <3>1. /\ UNCHANGED <<now, quit_received, next_sequence_num_>>
          /\ message_loop_' = FALSE /\ quit_received # "none"
      BY <1>a, <2>3 DEF WillDestroyCurrentMessageLoop, Over, loop, world
    <3>2. Abstract!Close  BY <2>1, <3>1 DEF Abstract!Close, Pending
    <3> QED  BY <3>2 DEF Abstract!Next
  <2>4. CASE ~Tick /\ ~WillDestroyCurrentMessageLoop
    <3>1. UNCHANGED <<now, quit_received, next_sequence_num_, message_loop_>>
      BY <1>9, <2>4
         DEF StartScheduling, NothingToDo, DoWorkReturns, LoopBreaks, Dispatch,
             OnWakeup, timer_callback, OnLibeventNotification, WriteReturns,
             ReadReturns, NoDelayedWork, DelayedWorkReturns, DoIdleWork, Sleep,
             ClientStep, WatchFileDescriptor, StopWatchingFileDescriptor,
             DeleteController, Exhaust, ScheduleWork, BecomeReady, vars, queue, loop, world
    <3> QED  BY <1>6, <2>1, <3>1
  <2> QED  BY <2>2, <2>3, <2>4
<1> QED
  BY <1>0, <1>2, <1>3, <1>4, <1>5, <1>7, <1>8, <1>9, QueueSteps

\* The incoming, work and delayed queues and the pump keep the promises of
\* TaskRunner: tasks without a delay run one at a time in the order they were
\* posted, a delayed one once and not before its time, none is given up before
\* a task has quit the loop, and none is accepted when the loop is gone.
THEOREM RefinesTaskRunner == Spec => ImplementsTaskRunner
<1>1. Init => Abstract!Init
  BY EmptyElements DEF Init, Abstract!Init
<1> QED
  BY InitIInv, Invariance, RefinesStep, <1>1, PTL
     DEF Spec, ImplementsTaskRunner, Abstract!Spec

=============================================================================
