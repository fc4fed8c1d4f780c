----------------------------- MODULE TaskRunner ------------------------------
(***************************************************************************)
(* What a message loop promises the threads that post to it: tasks posted   *)
(* without a delay run one at a time in the order they were posted, a       *)
(* delayed task runs once and not before its time, a task is given up only  *)
(* after a task has asked the loop to quit, and nothing is accepted once    *)
(* the loop is gone.  MessagePumpNet shows that the two queues, the delayed *)
(* queue and the pump keep these promises.                                  *)
(***************************************************************************)
EXTENDS Integers

VARIABLES
    now,       \* the time
    posted,    \* tasks accepted so far: the next sequence number
    pending,   \* accepted, neither run nor given up
    quitting,  \* a task that quits the loop has run
    open       \* the loop accepts tasks

vars == <<now, posted, pending, quitting, open>>

Quits == {"none", "now", "idle"}

\* at = 0 is a task without a delay; quit is what the task asks of the loop.
Task(num, at, quit) == [num |-> num, at |-> at, quit |-> quit]

Immediate(S) == {t \in S : t.at = 0}

Init ==
    /\ now \in Nat
    /\ posted = 0
    /\ pending = {}
    /\ quitting = FALSE
    /\ open = TRUE

Post ==
    /\ open
    /\ \E t \in pending' :
          /\ t = Task(posted, t.at, t.quit)
          /\ t.at \in Nat
          /\ t.quit \in Quits
          /\ pending' = pending \cup {t}
    /\ posted' = posted + 1
    /\ UNCHANGED <<now, quitting, open>>

Run(t) ==
    /\ IF t.at = 0 THEN \A u \in Immediate(pending) : t.num <= u.num
                   ELSE t.at <= now
    /\ pending' = pending \ {t}
    /\ quitting' = (quitting \/ t.quit # "none")
    /\ UNCHANGED <<now, posted, open>>

\* A loop that quits deletes the tasks that are left.
GiveUp ==
    /\ quitting
    /\ pending' = {}
    /\ UNCHANGED <<now, posted, quitting, open>>

Close ==
    /\ quitting
    /\ open' = FALSE
    /\ UNCHANGED <<now, posted, pending, quitting>>

Tick ==
    /\ now' = now + 1
    /\ UNCHANGED <<posted, pending, quitting, open>>

Next ==
    \/ Post
    \/ \E t \in pending : Run(t)
    \/ GiveUp
    \/ Close
    \/ Tick

Spec == Init /\ [][Next]_vars

=============================================================================
