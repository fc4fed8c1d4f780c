--------------------------- MODULE MessagePumpNet ----------------------------
(***************************************************************************)
(* The event loop every connection, server and engine thread runs on:       *)
(* net::MessagePumpNet (net/message_loop/message_pump_net.cc) over libevent *)
(* (third_party/libevent/event.c), driving base::MessageLoop and its        *)
(* IncomingTaskQueue (base/message_loop), from BindToCurrentThread to the   *)
(* loop's destructor.                                                       *)
(*                                                                          *)
(* Any thread posts, in two steps: the queue and its flag under             *)
(* incoming_queue_lock_, then the byte that wakes the loop.  The loop       *)
(* thread is a program with the counter pc: DoWork, a poll, DoDelayedWork,  *)
(* DoIdleWork, a sleep.  Poll and sleep are event_base_loop with            *)
(* EVLOOP_NONBLOCK and EVLOOP_ONCE.  At "task", "delayed_task", "write_cb"  *)
(* and "read_cb" the loop is inside client code, which may watch, stop or   *)
(* delete any controller and post tasks.                                    *)
(*                                                                          *)
(* TimeTicks are numbers, 0 is is_null().  Left out: nested loops (no code  *)
(* here runs one), I/O observers and non-persistent watches (no caller has  *)
(* any), and the order of events in libevent's active list (any order is    *)
(* allowed).                                                                *)
(***************************************************************************)
EXTENDS Integers, Sequences, FiniteSets

CONSTANTS
    MaxPosters,   \* bound: threads that post at the same time
    Controllers,  \* FileDescriptorWatchers, one descriptor each
    PipeSize,     \* bytes the wakeup pipe holds
    MaxTasks,     \* bound: tasks posted in a behaviour
    MaxDelay,     \* bound: the longest delay of a task
    MaxTime,      \* bound: the clock
    MaxInputs     \* bound: posts, calls of WatchFileDescriptor and times a
                  \* descriptor becomes ready, together

ASSUME MessagePumpNetConstants ==
    /\ PipeSize \in Nat \ {0}
    /\ MaxTasks \in Nat
    /\ MaxDelay \in Nat
    /\ MaxTime \in Nat \ {0}
    /\ MaxInputs \in Nat
    /\ MaxPosters \in Nat \ {0}
    /\ Controllers \cap {"wakeup", "timer"} = {}

VARIABLES
    \* IncomingTaskQueue
    incoming_queue_, next_sequence_num_, message_loop_scheduled_,
    is_ready_for_scheduling_, message_loop_,
    \* MessageLoop and RunLoop
    work_queue_, delayed_work_queue_, recent_time_, quit_received,
    \* MessagePumpNet and the locals of Run
    pc, keep_running_, processed_io_events_, delayed_work_time_, did_work,
    \* FileDescriptorWatcher: its life, mask of event_ ({} for NULL), watcher_ set
    life, event_, watcher_,
    \* libevent: flags of event_base_loop, the active list and its results,
    \* event_break, the deadline of timer_event (0 when not added), and the
    \* controller and flags of the callback that runs
    mode, active, res, event_break, timer_event, context, flags,
    \* the world: how many posters are between lock and write, bytes in the
    \* pipe, what each descriptor is ready for, the clock, inputs so far
    writers, pipe, ready, now, inputs,
    \* history: tasks run, next_sequence_num_ when the quit task ran
    ran, mark

queue == <<incoming_queue_, next_sequence_num_, message_loop_scheduled_,
           is_ready_for_scheduling_, message_loop_>>
loop == <<work_queue_, delayed_work_queue_, recent_time_, quit_received>>
run == <<pc, keep_running_, processed_io_events_, delayed_work_time_, did_work>>
controllers == <<life, event_, watcher_>>
libevent == <<mode, active, res, event_break, timer_event, context, flags>>
world == <<writers, pipe, ready, now, inputs>>
history == <<ran, mark>>
vars == <<queue, loop, run, controllers, libevent, world, history>>

Kinds == {"READ", "WRITE"}
Client == {"task", "delayed_task", "write_cb", "read_cb"}
Life == {"none", "alive", "deleted"}
Events == Controllers \cup {"wakeup", "timer"}
Elements(s) == {s[i] : i \in DOMAIN s}

Abstract == INSTANCE TaskRunner WITH
    posted <- next_sequence_num_,
    pending <- Elements(incoming_queue_) \cup Elements(work_queue_)
                 \cup delayed_work_queue_,
    quitting <- quit_received # "none",
    open <- message_loop_

Task(num, at, quit) == [num |-> num, at |-> at, quit |-> quit]

Init ==
    /\ incoming_queue_ = <<>>
    /\ next_sequence_num_ = 0
    /\ message_loop_scheduled_ = FALSE
    /\ is_ready_for_scheduling_ = FALSE
    /\ message_loop_ = TRUE
    /\ work_queue_ = <<>>
    /\ delayed_work_queue_ = {}
    /\ recent_time_ = 0
    /\ quit_received = "none"
    /\ pc = "bind"
    /\ keep_running_ = TRUE
    /\ processed_io_events_ = FALSE
    /\ delayed_work_time_ = 0
    /\ did_work = FALSE
    /\ life = [c \in Controllers |-> "none"]
    /\ event_ = [c \in Controllers |-> {}]
    /\ watcher_ = [c \in Controllers |-> FALSE]
    /\ mode = "NONBLOCK"
    /\ active = {}
    /\ res = [c \in Controllers |-> {}]
    /\ event_break = FALSE
    /\ timer_event = 0
    /\ context = "none"
    /\ flags = {}
    /\ writers = 0
    /\ pipe = 0
    /\ ready = [c \in Controllers |-> {}]
    /\ now = 1
    /\ inputs = 0
    /\ ran = {}
    /\ mark = 0

-----------------------------------------------------------------------------
(* Posting.                                                                 *)

\* schedule_work: the queue was empty and nobody has woken the loop yet.
NeedsWakeup ==
    /\ is_ready_for_scheduling_
    /\ ~message_loop_scheduled_
    /\ incoming_queue_ = <<>>

Input == inputs < MaxInputs /\ inputs' = inputs + 1

\* The byte in the pipe that makes the loop's wait return; a full pipe
\* refuses it, and needs no other.
WriteByte(n) == IF n < PipeSize THEN n + 1 ELSE n

\* CalculateDelayedRuntime: 0 without a delay.  The clock is read before the
\* lock is taken, so seen is the time or an earlier one.
RunTimes ==
    {0} \cup {seen + delay : seen \in 1 .. now, delay \in 1 .. MaxDelay}

\* PostPendingTask's locked block.
Enqueue(at, quit) ==
    /\ message_loop_
    /\ next_sequence_num_ < MaxTasks
    /\ Input
    /\ at <= MaxTime
    /\ incoming_queue_' = Append(incoming_queue_,
                                 Task(next_sequence_num_, at, quit))
    /\ next_sequence_num_' = next_sequence_num_ + 1
    /\ message_loop_scheduled_' = (message_loop_scheduled_ \/ NeedsWakeup)
    /\ UNCHANGED <<is_ready_for_scheduling_, message_loop_>>

\* PostPendingTask on another thread, up to the end of the locked block.
\* message_loop_lock_ is held for reading until the byte is written.
PostPendingTask(at, quit) ==
    /\ writers < MaxPosters
    /\ Enqueue(at, quit)
    /\ writers' = IF NeedsWakeup THEN writers + 1 ELSE writers
    /\ UNCHANGED <<pipe, ready, now, loop, run, controllers, libevent, history>>

\* MessageLoop::ScheduleWork, after the unlock.
ScheduleWork ==
    /\ writers > 0
    /\ writers' = writers - 1
    /\ pipe' = WriteByte(pipe)
    /\ UNCHANGED <<ready, now, inputs, queue, loop, run, controllers, libevent,
                   history>>

\* Client code on the loop's own thread posts: the loop itself cannot run
\* between the lock and the byte.
PostFromLoop(at, quit) ==
    /\ pc \in Client
    /\ Enqueue(at, quit)
    /\ pipe' = IF NeedsWakeup THEN WriteByte(pipe) ELSE pipe
    /\ UNCHANGED <<writers, ready, now, loop, run, controllers, libevent,
                   history>>

-----------------------------------------------------------------------------
(* DoWork.                                                                  *)

\* event_base_loop(event_base_, EVLOOP_NONBLOCK), unless Quit was called.
PollOrBreak ==
    /\ pc' = IF keep_running_ THEN "event_loop" ELSE "destroy"
    /\ mode' = "NONBLOCK"

\* IncomingTaskQueue::StartScheduling: tasks posted before the thread ran.
StartScheduling ==
    /\ pc = "bind"
    /\ is_ready_for_scheduling_' = TRUE
    /\ pipe' = IF incoming_queue_ = <<>> THEN pipe ELSE WriteByte(pipe)
    /\ pc' = "work"
    /\ UNCHANGED <<incoming_queue_, next_sequence_num_,
                   message_loop_scheduled_, message_loop_, loop, keep_running_,
                   processed_io_events_, delayed_work_time_, did_work,
                   controllers, libevent, writers, ready, now, inputs,
                   history>>

\* Mutant: reloads over tasks that have not run yet.
ReloadWorkQueueAnyTime ==
    /\ pc = "work"
    /\ incoming_queue_ # <<>>
    /\ work_queue_' = incoming_queue_
    /\ incoming_queue_' = <<>>
    /\ UNCHANGED <<next_sequence_num_, message_loop_scheduled_,
                   is_ready_for_scheduling_, message_loop_, delayed_work_queue_,
                   recent_time_, quit_received, run, controllers, libevent,
                   world, history>>

\* ReloadWorkQueue finds tasks: DoWork's loop goes on with them.
ReloadWorkQueue ==
    /\ pc = "work"
    /\ work_queue_ = <<>>
    /\ incoming_queue_ # <<>>
    /\ work_queue_' = incoming_queue_
    /\ incoming_queue_' = <<>>
    /\ UNCHANGED <<next_sequence_num_, message_loop_scheduled_,
                   is_ready_for_scheduling_, message_loop_, delayed_work_queue_,
                   recent_time_, quit_received, run, controllers, libevent,
                   world, history>>

\* Mutant: the flag stays set, so the next post writes no byte.
NothingToDoKeepsFlag ==
    /\ pc = "work"
    /\ work_queue_ = <<>>
    /\ incoming_queue_ = <<>>
    /\ did_work' = FALSE
    /\ PollOrBreak
    /\ UNCHANGED <<queue, loop, keep_running_, processed_io_events_,
                   delayed_work_time_, controllers, active, res, event_break,
                   timer_event, context, flags, world, history>>

\* ReloadWorkQueue finds none: the next post has to wake the loop, and DoWork
\* returns false.
NothingToDo ==
    /\ pc = "work"
    /\ work_queue_ = <<>>
    /\ incoming_queue_ = <<>>
    /\ message_loop_scheduled_' = FALSE
    /\ did_work' = FALSE
    /\ PollOrBreak
    /\ UNCHANGED <<incoming_queue_, next_sequence_num_,
                   is_ready_for_scheduling_, message_loop_, loop,
                   keep_running_, processed_io_events_, delayed_work_time_,
                   controllers, active, res, event_break, timer_event, context,
                   flags, world, history>>

\* The earliest of a set of delayed tasks; PendingTask::operator<.
Top(S) ==
    CHOOSE t \in S : \A u \in S : t.at < u.at \/ (t.at = u.at /\ t.num <= u.num)

\* DoWork meets a delayed task: AddToDelayedWorkQueue, and a new sleep when
\* it is now the first.
DelayTask ==
    /\ pc = "work"
    /\ work_queue_ # <<>>
    /\ LET t == Head(work_queue_) IN
         /\ t.at # 0
         /\ delayed_work_queue_' = delayed_work_queue_ \cup {t}
         /\ delayed_work_time_' = IF Top(delayed_work_queue_') = t
                                    THEN t.at ELSE delayed_work_time_
    /\ work_queue_' = Tail(work_queue_)
    /\ UNCHANGED <<recent_time_, quit_received, pc, keep_running_,
                   processed_io_events_, did_work, queue, controllers,
                   libevent, world, history>>

\* What running a task does to the loop: QuitNow stops the pump, QuitWhenIdle
\* (Thread::Stop's ThreadQuitHelper) leaves it to DoIdleWork.
RunTask(t) ==
    /\ ran' = ran \cup {t.num}
    /\ keep_running_' = (keep_running_ /\ t.quit # "now")
    /\ pipe' = IF t.quit = "now" THEN WriteByte(pipe) ELSE pipe
    /\ IF t.quit = "none" THEN UNCHANGED <<quit_received, mark>>
                          ELSE /\ quit_received' = t.quit
                               /\ mark' = next_sequence_num_

\* DoWork runs the oldest task.
DoWork ==
    /\ pc = "work"
    /\ work_queue_ # <<>>
    /\ Head(work_queue_).at = 0
    /\ RunTask(Head(work_queue_))
    /\ work_queue_' = Tail(work_queue_)
    /\ pc' = "task"
    /\ UNCHANGED <<delayed_work_queue_, recent_time_, processed_io_events_,
                   delayed_work_time_, did_work, queue, controllers, libevent,
                   writers, ready, now, inputs>>

\* The task returns, and with it DoWork.
DoWorkReturns ==
    /\ pc = "task"
    /\ did_work' = TRUE
    /\ PollOrBreak
    /\ UNCHANGED <<keep_running_, processed_io_events_, delayed_work_time_,
                   queue, loop, controllers, active, res, event_break,
                   timer_event, context, flags, world, history>>

-----------------------------------------------------------------------------
(* event_base_loop.                                                         *)

\* A poll returns to Run.
PollReturns ==
    /\ did_work' = (did_work \/ processed_io_events_)
    /\ processed_io_events_' = FALSE
    /\ pc' = IF keep_running_ THEN "delayed" ELSE "destroy"
    /\ UNCHANGED <<active, timer_event>>

\* Mutant: no event_del after the sleep.
SleepReturnsKeepsTimer(act) ==
    /\ pc' = "work"
    /\ active' = act
    /\ UNCHANGED <<timer_event, did_work>>

\* A sleep returns to Run: event_del takes the timer off libevent's lists, also
\* when a wakeup broke the loop while the timer was already active.
SleepReturns(act) ==
    /\ pc' = "work"
    /\ active' = act \ {"timer"}
    /\ timer_event' = 0
    /\ UNCHANGED did_work

\* The top of the loop: a callback asked for it to end.
LoopBreaks ==
    /\ pc = "event_loop"
    /\ event_break
    /\ event_break' = FALSE
    /\ IF mode = "NONBLOCK"
         THEN PollReturns
         ELSE SleepReturns(active) /\ UNCHANGED processed_io_events_
    /\ UNCHANGED <<mode, res, context, flags, keep_running_,
                   delayed_work_time_, queue, loop, controllers, world, history>>

\* What epoll_wait and timeout_process find.
ReadyKinds(c) == event_[c] \cap ready[c]
TimerDue == timer_event # 0 /\ timer_event <= now
Found == {c \in Controllers : ReadyKinds(c) # {}}
           \cup (IF pipe > 0 THEN {"wakeup"} ELSE {})
           \cup (IF TimerDue THEN {"timer"} ELSE {})

\* One pass: dispatch, which waits only under EVLOOP_ONCE with nothing
\* active, and timeout_process.  A poll that finds nothing ends the loop.
Dispatch ==
    /\ pc = "event_loop"
    /\ ~event_break
    /\ mode = "NONBLOCK" \/ active \cup Found # {}
    /\ res' = [c \in Controllers |-> res[c] \cup ReadyKinds(c)]
    /\ IF active \cup Found = {}
         THEN PollReturns
         ELSE /\ active' = active \cup Found
              /\ timer_event' = IF TimerDue THEN 0 ELSE timer_event
              /\ pc' = "process_active"
              /\ UNCHANGED <<did_work, processed_io_events_>>
    /\ UNCHANGED <<mode, event_break, context, flags, keep_running_,
                   delayed_work_time_, queue, loop, controllers, world, history>>

\* After a callback: event_process_active returns when it broke the loop or
\* nothing is active, and EVLOOP_ONCE is done when nothing is.  Then
\* event_break stays set, for the poll that follows.
AfterCallback(act, break) ==
    IF act = {} /\ mode = "ONCE"
      THEN SleepReturns(act)
      ELSE /\ pc' = IF break \/ act = {} THEN "event_loop" ELSE "process_active"
           /\ active' = act
           /\ UNCHANGED <<did_work, timer_event>>

\* Mutant: processed_io_events_ is not set.
OnWakeupUnnoticed ==
    /\ pc = "process_active"
    /\ "wakeup" \in active
    /\ pipe' = IF pipe > 0 THEN pipe - 1 ELSE pipe
    /\ event_break' = TRUE
    /\ AfterCallback(active \ {"wakeup"}, TRUE)
    /\ UNCHANGED <<processed_io_events_, mode, res, context, flags,
                   keep_running_, delayed_work_time_, queue, loop, controllers,
                   writers, ready, now, inputs, history>>

\* OnWakeup: one byte out of the pipe.
OnWakeup ==
    /\ pc = "process_active"
    /\ "wakeup" \in active
    /\ pipe' = IF pipe > 0 THEN pipe - 1 ELSE pipe
    /\ processed_io_events_' = TRUE
    /\ event_break' = TRUE
    /\ AfterCallback(active \ {"wakeup"}, TRUE)
    /\ UNCHANGED <<mode, res, context, flags, keep_running_,
                   delayed_work_time_, queue, loop, controllers, writers, ready,
                   now, inputs, history>>

timer_callback ==
    /\ pc = "process_active"
    /\ "timer" \in active
    /\ event_break' = TRUE
    /\ AfterCallback(active \ {"timer"}, TRUE)
    /\ UNCHANGED <<processed_io_events_, mode, res, context, flags,
                   keep_running_, delayed_work_time_, queue, loop, controllers,
                   world, history>>

\* OnLibeventNotification returns.
CallbackReturns ==
    /\ AfterCallback(active, FALSE)
    /\ context' = "none"
    /\ flags' = {}

\* OnLibeventNotification: the write callback goes first.  epoll is level
\* triggered: the descriptor stays ready until client code exhausts it.
OnLibeventNotification(c) ==
    /\ pc = "process_active"
    /\ c \in active
    /\ active' = active \ {c}
    /\ processed_io_events_' = TRUE
    /\ context' = c
    /\ flags' = res[c]
    /\ res' = [res EXCEPT ![c] = {}]
    /\ pc' = IF "WRITE" \in res[c] THEN "write_cb" ELSE "read_cb"
    /\ UNCHANGED <<mode, event_break, timer_event, keep_running_,
                   delayed_work_time_, did_work, queue, loop, controllers,
                   world, history>>

\* Mutant: only the weak pointer is looked at.
ReadFollowsUnwatched == "READ" \in flags /\ life[context] = "alive"

\* Whether the read callback still follows the write callback: the controller
\* is looked at through a weak pointer, then its watcher_.
ReadFollows == /\ "READ" \in flags
               /\ life[context] = "alive"
               /\ watcher_[context]

\* The write callback returns.
WriteReturns ==
    /\ pc = "write_cb"
    /\ IF ReadFollows
         THEN /\ pc' = "read_cb"
              /\ UNCHANGED <<active, did_work, timer_event, context, flags>>
         ELSE CallbackReturns
    /\ UNCHANGED <<processed_io_events_, mode, res, event_break, keep_running_,
                   delayed_work_time_, queue, loop, controllers, world, history>>

\* The read callback returns.
ReadReturns ==
    /\ pc = "read_cb"
    /\ CallbackReturns
    /\ UNCHANGED <<processed_io_events_, mode, res, event_break, keep_running_,
                   delayed_work_time_, queue, loop,
                   controllers, world, history>>

-----------------------------------------------------------------------------
(* Controllers, from client code on the loop.                               *)

\* Mutant: the old mask is taken over with flags that are libevent's own.
WatchFileDescriptorUnmasked(c, mask, failed) ==
    /\ pc \in Client
    /\ life[c] # "deleted"
    /\ life' = [life EXCEPT ![c] = "alive"]
    /\ Input
    /\ active' = active \ {c}
    /\ res' = [res EXCEPT ![c] = {}]
    /\ event_' = [event_ EXCEPT ![c] =
                     IF failed THEN {}
                     ELSE @ \cup mask \cup (IF @ = {} THEN {} ELSE {"INTERNAL"})]
    /\ watcher_' = [watcher_ EXCEPT ![c] = @ \/ ~failed]
    /\ UNCHANGED <<mode, event_break, timer_event, context, flags, queue,
                   loop, run, writers, pipe, ready, now, history>>

\* event_add after the event was disarmed; failed says epoll refused it, and
\* then the controller has lost its event but keeps its watcher_.
WatchFileDescriptor(c, mask, failed) ==
    /\ pc \in Client
    /\ life[c] # "deleted"
    /\ life' = [life EXCEPT ![c] = "alive"]
    /\ Input
    /\ active' = active \ {c}
    /\ res' = [res EXCEPT ![c] = {}]
    /\ event_' = [event_ EXCEPT ![c] = IF failed THEN {} ELSE @ \cup mask]
    /\ watcher_' = [watcher_ EXCEPT ![c] = @ \/ ~failed]
    /\ UNCHANGED <<mode, event_break, timer_event, context, flags, queue,
                   loop, run, writers, pipe, ready, now, history>>

\* event_del, also from the active list; nothing without an event.
StopWatching(c) ==
    /\ event_[c] # {}
    /\ active' = active \ {c}
    /\ res' = [res EXCEPT ![c] = {}]
    /\ event_' = [event_ EXCEPT ![c] = {}]
    /\ watcher_' = [watcher_ EXCEPT ![c] = FALSE]

StopWatchingFileDescriptor(c) ==
    /\ pc \in Client
    /\ life[c] = "alive"
    /\ StopWatching(c)
    /\ UNCHANGED <<life, mode, event_break, timer_event, context, flags,
                   queue, loop, run, world, history>>

\* ~FileDescriptorWatcher.
DeleteController(c) ==
    /\ pc \in Client
    /\ life[c] = "alive"
    /\ life' = [life EXCEPT ![c] = "deleted"]
    /\ \/ StopWatching(c)
       \/ event_[c] = {} /\ UNCHANGED <<active, res, event_, watcher_>>
    /\ UNCHANGED <<mode, event_break, timer_event, context, flags, queue,
                   loop, run, world, history>>

\* Client code reads a descriptor to its end, or writes until it is full; a
\* callback need not.
Exhaust(c, kind) ==
    /\ pc \in Client
    /\ life[c] = "alive"
    /\ kind \in ready[c]
    /\ ready' = [ready EXCEPT ![c] = @ \ {kind}]
    /\ UNCHANGED <<writers, pipe, now, inputs, queue, loop, run, controllers,
                   libevent, history>>

-----------------------------------------------------------------------------
(* DoDelayedWork, DoIdleWork and the sleep.                                 *)

\* Mutant: idle although work was done.
AlwaysIdle == pc' = "idle"

\* Run goes round again, or is idle.
ContinueOrIdle == pc' = IF did_work THEN "work" ELSE "idle"

\* DoDelayedWork with nothing that is due.
NoDelayedWork ==
    /\ pc = "delayed"
    /\ IF delayed_work_queue_ = {}
         THEN recent_time_' = 0 /\ delayed_work_time_' = 0
         ELSE LET next_run_time == Top(delayed_work_queue_).at IN
                /\ next_run_time > recent_time_
                /\ next_run_time > now
                /\ recent_time_' = now
                /\ delayed_work_time_' = next_run_time
    /\ ContinueOrIdle
    /\ UNCHANGED <<work_queue_, delayed_work_queue_, quit_received,
                   keep_running_, processed_io_events_, did_work, queue,
                   controllers, libevent, world, history>>

\* DoDelayedWork runs the first task; it looks at the clock only when its
\* last view of it does not suffice.
DoDelayedWork ==
    /\ pc = "delayed"
    /\ delayed_work_queue_ # {}
    /\ LET t == Top(delayed_work_queue_)
           rest == delayed_work_queue_ \ {t}
       IN /\ t.at <= recent_time_ \/ t.at <= now
          /\ recent_time_' = IF t.at > recent_time_ THEN now ELSE recent_time_
          /\ delayed_work_queue_' = rest
          /\ delayed_work_time_' = IF rest = {} THEN delayed_work_time_
                                                ELSE Top(rest).at
          /\ RunTask(t)
    /\ pc' = "delayed_task"
    /\ UNCHANGED <<work_queue_, processed_io_events_, did_work, queue,
                   controllers, libevent, writers, ready, now, inputs>>

DelayedWorkReturns ==
    /\ pc = "delayed_task"
    /\ did_work' = TRUE
    /\ pc' = IF keep_running_ THEN "work" ELSE "destroy"
    /\ UNCHANGED <<keep_running_, processed_io_events_, delayed_work_time_,
                   queue, loop, controllers, libevent, world, history>>

\* DoIdleWork: after QuitWhenIdle it is here that the pump quits.
DoIdleWork ==
    /\ pc = "idle"
    /\ IF quit_received = "idle"
         THEN /\ keep_running_' = FALSE
              /\ pipe' = WriteByte(pipe)
              /\ pc' = "destroy"
         ELSE pc' = "sleep" /\ UNCHANGED <<keep_running_, pipe>>
    /\ UNCHANGED <<processed_io_events_, delayed_work_time_, did_work, queue,
                   loop, controllers, libevent, writers, ready, now, inputs, history>>

\* event_base_loop(event_base_, EVLOOP_ONCE), with a timer for the first
\* delayed task; a time that has passed means to go round again.
Sleep ==
    /\ pc = "sleep"
    /\ IF delayed_work_time_ # 0 /\ delayed_work_time_ <= now
         THEN pc' = "work" /\ delayed_work_time_' = 0
              /\ UNCHANGED <<mode, timer_event>>
         ELSE /\ pc' = "event_loop"
              /\ mode' = "ONCE"
              /\ timer_event' = delayed_work_time_
              /\ UNCHANGED delayed_work_time_
    /\ UNCHANGED <<active, res, event_break, context, flags, keep_running_,
                   processed_io_events_, did_work, queue, loop, controllers,
                   world, history>>

-----------------------------------------------------------------------------
(* ~MessageLoop, once Run has returned.                                     *)

\* One round of DeletePendingTasks, ReloadWorkQueue and DeletePendingTasks
\* again.  The rounds end when the second pass finds nothing, which looks only
\* at what was reloaded, or at the hundredth; the count is left out.
DeletePendingTasks ==
    /\ pc = "destroy"
    /\ work_queue_' = <<>>
    /\ incoming_queue_' = <<>>
    /\ delayed_work_queue_' = {}
    /\ \/ incoming_queue_ # <<>> /\ pc' = "destroy"
       \/ pc' = "close"
    /\ message_loop_scheduled_' = (/\ message_loop_scheduled_
                                   /\ incoming_queue_ # <<>>)
    /\ UNCHANGED <<next_sequence_num_, is_ready_for_scheduling_, message_loop_,
                   recent_time_, quit_received, keep_running_,
                   processed_io_events_, delayed_work_time_, did_work,
                   controllers, libevent, world, history>>

\* message_loop_lock_ is taken for writing, so no poster is between its lock
\* and its byte; a task posted since the last pass stays in the queue.
WillDestroyCurrentMessageLoop ==
    /\ pc = "close"
    /\ writers = 0
    /\ message_loop_' = FALSE
    /\ pc' = "gone"
    /\ UNCHANGED <<incoming_queue_, next_sequence_num_,
                   message_loop_scheduled_, is_ready_for_scheduling_, loop,
                   keep_running_, processed_io_events_, delayed_work_time_,
                   did_work, controllers, libevent, world, history>>

-----------------------------------------------------------------------------
(* The world.                                                               *)

\* Data arrives or room appears, on one descriptor or on several before the
\* loop looks; a hang-up makes a descriptor ready for both.
BecomeReady(S, kinds) ==
    /\ \A c \in S : life[c] = "alive"
    /\ Input
    /\ ready' = [c \in Controllers |->
                   IF c \in S THEN ready[c] \cup kinds ELSE ready[c]]
    /\ UNCHANGED <<writers, pipe, now, queue, loop, run, controllers,
                   libevent, history>>

Tick ==
    /\ now < MaxTime
    /\ now' = now + 1
    /\ UNCHANGED <<writers, pipe, ready, inputs, queue, loop, run,
                   controllers, libevent, history>>

-----------------------------------------------------------------------------
(* The specification.                                                       *)

\* The loop's own steps: what it does without client code choosing to.
LoopStep ==
    \/ StartScheduling
    \/ ReloadWorkQueue \/ NothingToDo \/ DelayTask \/ DoWork \/ DoWorkReturns
    \/ LoopBreaks \/ Dispatch \/ OnWakeup \/ timer_callback
    \/ \E c \in Controllers : OnLibeventNotification(c)
    \/ WriteReturns \/ ReadReturns
    \/ NoDelayedWork \/ DoDelayedWork \/ DelayedWorkReturns
    \/ DoIdleWork \/ Sleep
    \/ DeletePendingTasks \/ WillDestroyCurrentMessageLoop

ClientStep ==
    \E c \in Controllers :
        \/ \E mask \in SUBSET Kinds \ {{}}, failed \in BOOLEAN :
              WatchFileDescriptor(c, mask, failed)
        \/ StopWatchingFileDescriptor(c)
        \/ DeleteController(c)
        \/ \E kind \in Kinds : Exhaust(c, kind)

\* Bound: one task of a behaviour quits the loop, as Thread::Stop and
\* Root::Shutdown do.
QuitPosted ==
    \/ quit_received # "none"
    \/ \E t \in Elements(incoming_queue_) \cup Elements(work_queue_)
                 \cup delayed_work_queue_ : t.quit # "none"

PostStep ==
    \E at \in RunTimes, quit \in {"none", "now", "idle"} :
        /\ quit # "none" => at = 0 /\ ~QuitPosted
        /\ PostPendingTask(at, quit) \/ PostFromLoop(at, quit)

Next ==
    \/ LoopStep
    \/ ClientStep
    \/ PostStep
    \/ ScheduleWork
    \/ \E S \in SUBSET Controllers \ {{}}, kinds \in SUBSET Kinds \ {{}} :
          BecomeReady(S, kinds)
    \/ Tick

Spec == Init /\ [][Next]_vars

\* The loop thread and a poster past its lock are scheduled, client code
\* returns, and time passes.
Fairness ==
    /\ WF_vars(LoopStep)
    /\ WF_vars(ScheduleWork)
    /\ WF_vars(Tick)

FairSpec == Spec /\ Fairness

-----------------------------------------------------------------------------
(* Properties.                                                              *)

Locations == Client \cup {"bind", "work", "event_loop", "process_active",
                          "delayed", "idle", "sleep", "destroy", "close", "gone"}
Times == 0 .. MaxTime
Tasks == [num : 0 .. MaxTasks - 1, at : Times, quit : {"none", "now", "idle"}]

\* Types of the queues, the pump, the controllers and libevent.
TypeOK ==
    /\ incoming_queue_ \in Seq(Tasks)
    /\ work_queue_ \in Seq(Tasks)
    /\ delayed_work_queue_ \subseteq Tasks
    /\ next_sequence_num_ \in 0 .. MaxTasks
    /\ {message_loop_scheduled_, is_ready_for_scheduling_, message_loop_,
        keep_running_, processed_io_events_, did_work, event_break}
         \subseteq BOOLEAN
    /\ quit_received \in {"none", "now", "idle"}
    /\ pc \in Locations
    /\ {recent_time_, delayed_work_time_, timer_event, now} \subseteq Times
    /\ life \in [Controllers -> Life]
    /\ watcher_ \in [Controllers -> BOOLEAN]
    /\ event_ \in [Controllers -> SUBSET Kinds]
    /\ res \in [Controllers -> SUBSET Kinds]
    /\ ready \in [Controllers -> SUBSET Kinds]
    /\ flags \subseteq Kinds
    /\ context \in Controllers \cup {"none"}
    /\ mode \in {"NONBLOCK", "ONCE"}
    /\ active \subseteq Events
    /\ writers \in 0 .. MaxPosters
    /\ pipe \in 0 .. PipeSize
    /\ ran \subseteq 0 .. MaxTasks - 1
    /\ mark \in 0 .. MaxTasks
    /\ inputs \in 0 .. MaxInputs

\* event_base_loop waits in the kernel, and nothing it knows of ends the wait.
Asleep == pc = "event_loop" /\ mode = "ONCE" /\ ~event_break /\ active = {}

\* A task posted around the moment the loop goes to sleep wakes it: while the
\* loop sleeps (message_pump_net.cc, Run) with a task in either queue, a byte
\* is in the wakeup pipe or its poster is about to write one.  The flag that
\* saves writes (message_loop_scheduled_) and a full pipe lose no wakeup.
NoLostWakeup ==
    Asleep => /\ work_queue_ = <<>>
              /\ incoming_queue_ = <<>> \/ pipe > 0 \/ writers > 0

\* The sleep's timer is right: while the loop sleeps with delayed tasks it goes
\* off no later than the first of them is due, however delayed_work_time_ was
\* written by ScheduleDelayedWork, DoDelayedWork and Run; and outside a sleep
\* it is on none of libevent's lists, where Run sets it up anew and frees it.
TimerMatchesSleep ==
    /\ Asleep /\ delayed_work_queue_ # {} =>
           timer_event # 0 /\ timer_event <= Top(delayed_work_queue_).at
    /\ timer_event # 0 \/ "timer" \in active =>
           /\ mode = "ONCE"
           /\ pc \in {"event_loop", "process_active", "write_cb", "read_cb"}

\* A read or write callback only starts on a controller that is alive and
\* still watching, although the callbacks before it, those for the same event
\* included, may stop or delete any controller (OnLibeventNotification).
CallbacksReachWatchers ==
    [][pc' \in {"write_cb", "read_cb"} /\ pc' # pc =>
         life[context'] = "alive" /\ watcher_[context']]_vars

\* What Thread::Stop keeps: when DoIdleWork is about to quit, every task posted
\* before the quit task ran has run, wherever it was queued then, but for the
\* delayed tasks that were not due when the loop last looked at the clock.
StopDrains ==
    pc = "idle" /\ quit_received = "idle" =>
        \A n \in 0 .. mark - 1 :
            \/ n \in ran
            \/ \E t \in delayed_work_queue_ : t.num = n /\ t.at > recent_time_

\* thread.h:30 (all pending tasks queued on the thread's message loop run to
\* completion before the thread is terminated): once the loop is gone after
\* Thread::Stop, every task posted before the quit task ran has run.
PendingTasksComplete ==
    pc = "gone" /\ quit_received = "idle" => 0 .. mark - 1 \subseteq ran

\* The queues, the delayed queue and the pump keep the promises of TaskRunner:
\* order, no task lost or run twice, none before its time.
ImplementsTaskRunner == Abstract!Spec

\* No watched descriptor is ready.
Calm == \A c \in Controllers : ReadyKinds(c) = {}

\* Every task that was accepted runs, unless the loop quits first, provided the
\* watched descriptors come to rest: while one stays ready the poll of Run
\* (event_base_loop with EVLOOP_NONBLOCK) need not return.
PostedTaskHandled ==
    <>[]Calm => \A n \in 0 .. MaxTasks - 1 :
                    next_sequence_num_ > n ~> n \in ran \/ quit_received # "none"

=============================================================================
