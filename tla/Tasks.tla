------------------------------- MODULE Tasks -------------------------------
(***************************************************************************)
(* Asynchronous queries: TaskManager of src/web/tasks.py.  Request threads *)
(* submit tasks and wait for them, the threads of a pool run them, and     *)
(* each submission first cleans up what ended long ago or is too much.     *)
(* Each locked section is one step, and there are several in each call.    *)
(* The process may restart at any moment: its tasks are lost.              *)
(*                                                                         *)
(* A task is its number in the order of creation.  Results are left out: a *)
(* task that failed is one that ended.  So is the owner a snapshot is      *)
(* compared with, which takes a single step.                               *)
(***************************************************************************)
EXTENDS Naturals, Sequences, FiniteSets

CONSTANTS
    Threads,        \* the threads of the requests
    Workers,        \* the threads of the pool, ASYNC_TASK_MAX_WORKERS
    MaxTasks,       \* bound: tasks submitted in all
    MaxHistory,     \* ASYNC_TASK_HISTORY
    NoTask          \* no task

ASSUME ThreadsAssumption == Threads \cap Workers = {} /\ IsFiniteSet(Threads)
ASSUME HistoryAssumption == MaxHistory \in Nat \ {0} /\ MaxTasks \in Nat
ASSUME NoTaskAssumption == NoTask \notin Nat

VARIABLES
    at,         \* where each thread is
    item,       \* on which task
    status,     \* of each task: unused, pending, running, ended, or gone
    expired,    \* the ended tasks older than ASYNC_TASK_TTL_SECONDS
    event,      \* the tasks whose event is set
    queue,      \* the tasks the pool has not begun
    backlog     \* history: the most tasks that were unfinished at a time

vars == <<at, item, status, expired, event, queue, backlog>>

Tasks == 1 .. MaxTasks

\* _tasks and _events hold the same tasks.
Kept == {i \in Tasks : status[i] \notin {"unused", "gone"}}
Ended == {i \in Tasks : status[i] = "ended"}
Unfinished(s) == {i \in Tasks : s[i] \in {"pending", "running"}}
Larger(m, n) == IF m > n THEN m ELSE n

Init ==
    /\ at = [t \in Threads \cup Workers |-> "idle"]
    /\ item = [t \in Threads \cup Workers |-> NoTask]
    /\ status = [i \in Tasks |-> "unused"]
    /\ expired = {} /\ event = {} /\ queue = <<>> /\ backlog = 0

-----------------------------------------------------------------------------
\* Mutant of Dropped: of all tasks, finished or not, the oldest go.
DroppedOldest ==
    LET fresh == Kept \ expired
    IN  expired \cup {i \in fresh : Cardinality({j \in fresh : j >= i}) > MaxHistory}
\* Mutant of Dropped: an overflow by one is let pass.
DroppedBeyond ==
    LET fresh == Ended \ expired
        overflow == Cardinality(Kept \ expired) - MaxHistory
    IN  expired \cup {i \in fresh : 1 + Cardinality({j \in fresh : j <= i}) <= overflow}

\* _cleanup_locked: the expired tasks go, and then the oldest of those that
\* ended until no more than MaxHistory tasks are left, if that can be had.
Dropped ==
    LET fresh == Ended \ expired
        kept == Cardinality(Kept \ expired)
    IN  expired \cup
        {i \in fresh : Cardinality({j \in fresh : j <= i}) + MaxHistory <= kept}

\* submit: cleanup, ...
Submit(t) ==
    /\ at[t] = "idle" /\ status[MaxTasks] = "unused"
    /\ status' = [i \in Tasks |-> IF i \in Dropped THEN "gone" ELSE status[i]]
    /\ expired' = {}
    /\ at' = [at EXCEPT ![t] = "cleaned"]
    /\ UNCHANGED <<item, event, queue, backlog>>

\* ... the insertion, in another critical section, ...
Insert(t, i) ==
    /\ at[t] = "cleaned"
    /\ status[i] = "unused" /\ \A j \in 1 .. i - 1 : status[j] # "unused"
    /\ status' = [status EXCEPT ![i] = "pending"]
    /\ backlog' = Larger(backlog, Cardinality(Unfinished(status')))
    /\ at' = [at EXCEPT ![t] = "inserted"]
    /\ item' = [item EXCEPT ![t] = i]
    /\ UNCHANGED <<expired, event, queue>>

\* ... and the call of the pool, whose queue is unbounded.
Enqueue(t) ==
    /\ at[t] = "inserted"
    /\ queue' = Append(queue, item[t])
    /\ at' = [at EXCEPT ![t] = "idle"]
    /\ item' = [item EXCEPT ![t] = NoTask]
    /\ UNCHANGED <<status, expired, event, backlog>>

\* A submission that came when all tasks were used up (the bound).
GiveUp(t) ==
    /\ at[t] = "cleaned" /\ status[MaxTasks] # "unused"
    /\ at' = [at EXCEPT ![t] = "idle"]
    /\ UNCHANGED <<item, status, expired, event, queue, backlog>>

\* _run: the task is marked running, if it is still there, ...
Start(w) ==
    /\ at[w] = "idle" /\ queue # <<>>
    /\ queue' = Tail(queue)
    /\ status' = IF Head(queue) \in Kept
                 THEN [status EXCEPT ![Head(queue)] = "running"] ELSE status
    /\ at' = [at EXCEPT ![w] = "running"]
    /\ item' = [item EXCEPT ![w] = Head(queue)]
    /\ UNCHANGED <<expired, event, backlog>>

\* Mutant of Finish: the waiters are woken before the outcome is stored.
FinishWaking(w) ==
    /\ at[w] = "running"
    /\ event' = event \cup {item[w]}
    /\ at' = [at EXCEPT ![w] = "finished"]
    /\ UNCHANGED <<item, status, expired, queue, backlog>>

\* ... then its function returns or raises and the outcome is stored, ...
Finish(w) ==
    /\ at[w] = "running"
    /\ status' = IF item[w] \in Kept
                 THEN [status EXCEPT ![item[w]] = "ended"] ELSE status
    /\ at' = [at EXCEPT ![w] = "finished"]
    /\ UNCHANGED <<item, expired, event, queue, backlog>>

\* ... and those who wait are woken.
Wake(w) ==
    /\ at[w] = "finished"
    /\ event' = event \cup {item[w]}
    /\ at' = [at EXCEPT ![w] = "idle"] /\ item' = [item EXCEPT ![w] = NoTask]
    /\ UNCHANGED <<status, expired, queue, backlog>>

\* ASYNC_TASK_TTL_SECONDS pass after the end of a task.
ExpireTask(i) ==
    /\ i \in Ended \ expired
    /\ expired' = expired \cup {i}
    /\ UNCHANGED <<at, item, status, event, queue, backlog>>

\* wait: the event is looked up; without one there is nothing to wait for.
Wait(t, i) ==
    /\ at[t] = "idle" /\ i \in Kept
    /\ at' = [at EXCEPT ![t] = "waiting"] /\ item' = [item EXCEPT ![t] = i]
    /\ UNCHANGED <<status, expired, event, queue, backlog>>
Woken(t) ==
    /\ at[t] = "waiting" /\ item[t] \in event
    /\ at' = [at EXCEPT ![t] = "woken"]
    /\ UNCHANGED <<item, status, expired, event, queue, backlog>>
\* The snapshot, woken or after the timeout; it is read in a lock of its own.
Look(t) ==
    /\ at[t] \in {"waiting", "woken"}
    /\ at' = [at EXCEPT ![t] = "idle"] /\ item' = [item EXCEPT ![t] = NoTask]
    /\ UNCHANGED <<status, expired, event, queue, backlog>>

-----------------------------------------------------------------------------
\* The process restarts: the tasks are gone, and so are all threads.
Restart ==
    /\ at' = [t \in Threads \cup Workers |-> "idle"]
    /\ item' = [t \in Threads \cup Workers |-> NoTask]
    /\ status' = [i \in Tasks |-> IF i \in Kept THEN "gone" ELSE status[i]]
    /\ expired' = {} /\ queue' = <<>>
    /\ UNCHANGED <<event, backlog>>

Next ==
    \/ \E t \in Threads, i \in Tasks : Insert(t, i) \/ Wait(t, i)
    \/ \E t \in Threads : Submit(t) \/ Enqueue(t) \/ GiveUp(t) \/ Woken(t) \/ Look(t)
    \/ \E w \in Workers : Start(w) \/ Finish(w) \/ Wake(w)
    \/ \E i \in Tasks : ExpireTask(i)
    \/ Restart

Spec == Init /\ [][Next]_vars

-----------------------------------------------------------------------------
TypeOK ==
    /\ at \in [Threads \cup Workers -> {"idle", "cleaned", "inserted", "waiting",
                                        "woken", "running", "finished"}]
    /\ item \in [Threads \cup Workers -> Tasks \cup {NoTask}]
    /\ status \in [Tasks -> {"unused", "pending", "running", "ended", "gone"}]
    /\ expired \subseteq Tasks /\ event \subseteq Tasks
    /\ queue \in Seq(Tasks) /\ backlog \in Nat

\* A task that is queued or being run is there, so that its outcome is
\* stored and not silently lost: no cleanup drops it, and none gets between
\* the three steps that submit it (tasks.py:60, 87, 146).
WorkIsKept ==
    /\ \A n \in DOMAIN queue : status[queue[n]] = "pending"
    /\ \A t \in Threads : at[t] = "inserted" => status[item[t]] = "pending"
    /\ \A w \in Workers : at[w] = "running" => status[item[w]] = "running"

\* Who was woken sees the outcome, unless it was cleaned up in between; never
\* a task that still runs (tasks.py:92, 116).
WokenSeesEnd ==
    \A t \in Threads : at[t] = "woken" => status[item[t]] \in {"ended", "gone"}

\* The history passes its limit by no more than the submissions that run at
\* once; only a backlog of unfinished tasks, which nothing limits, can make
\* it longer (tasks.py:60).
HistoryBound ==
    Cardinality(Kept) <= Larger(MaxHistory, backlog) + Cardinality(Threads)
=============================================================================
