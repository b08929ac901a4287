------------------------------ MODULE IOThread ------------------------------
(***************************************************************************)
(* The output writer thread of the engine (src/engine/output/IOThread.cpp): *)
(* a bounded queue of WriteTasks guarded by one mutex and two condition     *)
(* variables, a worker that hands each task to PluginFactory::update_all,   *)
(* and start() / stop(), which may be called again for a next session.      *)
(*                                                                         *)
(* Grain: one action per critical section (everything done while mutex_ is  *)
(* held is one step; condition_variable::wait releases it and sleeps in the *)
(* same step) and one action for every effect outside it: each notify, the  *)
(* call of update_all, the stores to the atomics, join.                     *)
(***************************************************************************)
EXTENDS Naturals, Sequences, FiniteSets

CONSTANTS
    Threads,     \* the threads that may call post()
    Controller,  \* the one of them that calls start() and stop()
    Capacity,    \* capacity_, the queue depth at which post() blocks
    MaxPosts,    \* bound: calls of post() by one thread
    MaxStarts    \* bound: calls of start()

ASSUME ConstantsAssumption ==
    /\ Controller \in Threads
    /\ Capacity \in Nat \ {0}
    /\ MaxPosts \in Nat
    /\ MaxStarts \in Nat

VARIABLES
    queue,            \* queue_
    next_sequence,    \* next_sequence_ (never reset)
    stop_flag,        \* stop_flag_
    running,          \* running_
    tasks_completed,  \* tasks_completed_
    last_error,       \* last_error_ # 0
    pc,               \* where each caller is inside post() or stop()
    worker,           \* where the worker thread is; "none": not joinable
    task,             \* the worker's local: <<>> or <<the task it popped>>
    rc,               \* the worker's local: update_all returned non-zero
    posts,            \* per thread, calls of post() so far
    starts,           \* calls of start() so far
    accepted,         \* history: the tasks queued, in queueing order
    delivered         \* history: the tasks update_all was called with

shared == <<queue, next_sequence, stop_flag, running, tasks_completed, last_error>>
history == <<accepted, delivered>>
ioVars == <<shared, pc, worker, task, rc, posts, starts, history>>

\* A snapshot is identified by its poster and the number of the call: only
\* its identity matters to the queue.
Snapshots == Threads \X (1..MaxPosts)
WriteTask == [snapshot : Snapshots, sequence : Nat]

StopPcs   == {"stop_notify_not_empty", "stop_notify_not_full", "joining"}
PostPcs   == {"locking", "waiting_not_full", "notify_not_empty"}
WorkerPcs == {"none", "boot", "top", "waiting_not_empty", "notify_not_full",
              "update", "record", "exiting", "terminated"}

Waiters == {t \in Threads : pc[t] = "waiting_not_full"}

IOInit ==
    /\ queue = <<>>
    /\ next_sequence = 0
    /\ stop_flag = FALSE
    /\ running = FALSE
    /\ tasks_completed = 0
    /\ last_error = FALSE
    /\ pc = [t \in Threads |-> "idle"]
    /\ worker = "none"
    /\ task = <<>>
    /\ rc = FALSE
    /\ posts = [t \in Threads |-> 0]
    /\ starts = 0
    /\ accepted = <<>>
    /\ delivered = <<>>

-----------------------------------------------------------------------------
StopFlagOnStart_Kept == stop_flag
StopFlagOnStart == FALSE

\* start(). Its early return (running_ already true) changes nothing; a second
\* start of a live thread is excluded by its documented precondition.
Start ==
    /\ pc[Controller] = "idle"
    /\ ~running
    /\ worker = "none"
    /\ starts < MaxStarts
    /\ starts' = starts + 1
    /\ stop_flag' = StopFlagOnStart
    /\ worker' = "boot"
    /\ UNCHANGED <<queue, next_sequence, running, tasks_completed, last_error,
                   pc, task, rc, posts, history>>

-----------------------------------------------------------------------------
\* post(): the call, with a fresh snapshot; it next tries to take the mutex.
PostCall(t) ==
    /\ pc[t] = "idle"
    /\ starts > 0
    /\ posts[t] < MaxPosts
    /\ posts' = [posts EXCEPT ![t] = @ + 1]
    /\ pc' = [pc EXCEPT ![t] = "locking"]
    /\ UNCHANGED <<shared, worker, task, rc, starts, history>>

HasSpace_OffByOne == Len(queue) <= Capacity
HasSpace == Len(queue) < Capacity

\* The wait predicate is false: sleep on cv_not_full_.
PostWait(t) ==
    /\ pc[t] = "locking"
    /\ ~HasSpace
    /\ ~stop_flag
    /\ pc' = [pc EXCEPT ![t] = "waiting_not_full"]
    /\ UNCHANGED <<shared, worker, task, rc, posts, starts, history>>

\* After stop() the snapshot is discarded and post() returns.
PostDiscard(t) ==
    /\ pc[t] = "locking"
    /\ stop_flag
    /\ pc' = [pc EXCEPT ![t] = "idle"]
    /\ UNCHANGED <<shared, worker, task, rc, posts, starts, history>>

NewTask(t) == [snapshot |-> <<t, posts[t]>>, sequence |-> next_sequence]

PostEnqueue(t) ==
    /\ pc[t] = "locking"
    /\ ~stop_flag
    /\ HasSpace
    /\ queue' = Append(queue, NewTask(t))
    /\ accepted' = Append(accepted, NewTask(t))
    /\ next_sequence' = next_sequence + 1
    /\ pc' = [pc EXCEPT ![t] = "notify_not_empty"]
    /\ UNCHANGED <<stop_flag, running, tasks_completed, last_error, worker,
                   task, rc, posts, starts, delivered>>

\* notify on cv_not_empty_: only the worker ever sleeps there.
WakeWorker_Forgotten == worker' = worker
WakeWorker ==
    worker' = IF worker = "waiting_not_empty" THEN "top" ELSE worker

PostNotify(t) ==
    /\ pc[t] = "notify_not_empty"
    /\ WakeWorker
    /\ pc' = [pc EXCEPT ![t] = "idle"]
    /\ UNCHANGED <<shared, task, rc, posts, starts, history>>

-----------------------------------------------------------------------------
\* stop(), called by the controller between two posts, also before any start
\* and again after a stop.
StopSet ==
    /\ pc[Controller] = "idle"
    /\ stop_flag' = TRUE
    /\ pc' = [pc EXCEPT ![Controller] = "stop_notify_not_empty"]
    /\ UNCHANGED <<queue, next_sequence, running, tasks_completed, last_error,
                   worker, task, rc, posts, starts, history>>

StopNotifyNotEmpty ==
    /\ pc[Controller] = "stop_notify_not_empty"
    /\ WakeWorker
    /\ pc' = [pc EXCEPT ![Controller] = "stop_notify_not_full"]
    /\ UNCHANGED <<shared, task, rc, posts, starts, history>>

\* cv_not_full_.notify_all().
PostersAwake_Forgotten == pc
PostersAwake == [t \in Threads |-> IF t \in Waiters THEN "locking" ELSE pc[t]]

StopNotifyNotFull ==
    /\ pc[Controller] = "stop_notify_not_full"
    /\ pc' = [PostersAwake EXCEPT ![Controller] = "joining"]
    /\ UNCHANGED <<shared, worker, task, rc, posts, starts, history>>

StopJoin ==
    /\ pc[Controller] = "joining"
    /\ worker \in {"none", "terminated"}
    /\ worker' = "none"
    /\ running' = FALSE
    /\ pc' = [pc EXCEPT ![Controller] = "idle"]
    /\ UNCHANGED <<queue, next_sequence, stop_flag, tasks_completed, last_error,
                   task, rc, posts, starts, history>>

-----------------------------------------------------------------------------
\* run(), the worker thread.
WorkerBoot ==
    /\ worker = "boot"
    /\ running' = TRUE
    /\ worker' = "top"
    /\ UNCHANGED <<queue, next_sequence, stop_flag, tasks_completed, last_error,
                   pc, task, rc, posts, starts, history>>

WorkerWait ==
    /\ worker = "top"
    /\ queue = <<>>
    /\ ~stop_flag
    /\ worker' = "waiting_not_empty"
    /\ UNCHANGED <<shared, pc, task, rc, posts, starts, history>>

NextTask_Newest == queue[Len(queue)]
NextTask == Head(queue)

WorkerPop ==
    /\ worker = "top"
    /\ queue # <<>>
    /\ task' = <<NextTask>>
    /\ queue' = Tail(queue)
    /\ worker' = "notify_not_full"
    /\ UNCHANGED <<next_sequence, stop_flag, running, tasks_completed,
                   last_error, pc, rc, posts, starts, history>>

\* cv_not_full_.notify_one(): wakes one sleeping poster, if there is any.
WakeOnePoster_Forgotten == pc' = pc
WakeOnePoster ==
    \/ Waiters = {} /\ pc' = pc
    \/ \E t \in Waiters : pc' = [pc EXCEPT ![t] = "locking"]

WorkerNotify ==
    /\ worker = "notify_not_full"
    /\ worker' = "update"
    /\ WakeOnePoster
    /\ UNCHANGED <<shared, task, rc, posts, starts, history>>

\* factory_.update_all(task.snapshot), which may report an error.
WorkerUpdate(error) ==
    /\ worker = "update"
    /\ delivered' = Append(delivered, task[1])
    /\ task' = <<>>
    /\ rc' = error
    /\ worker' = "record"
    /\ UNCHANGED <<shared, pc, posts, starts, accepted>>

WorkerRecord ==
    /\ worker = "record"
    /\ last_error' = (last_error \/ rc)
    /\ tasks_completed' = tasks_completed + 1
    /\ rc' = FALSE
    /\ worker' = "top"
    /\ UNCHANGED <<queue, next_sequence, stop_flag, running, pc, task, posts,
                   starts, history>>

MayExit_WithoutDraining == stop_flag
MayExit == stop_flag /\ queue = <<>>

WorkerExit ==
    /\ worker = "top"
    /\ MayExit
    /\ worker' = "exiting"
    /\ UNCHANGED <<shared, pc, task, rc, posts, starts, history>>

WorkerTerminate ==
    /\ worker = "exiting"
    /\ running' = FALSE
    /\ worker' = "terminated"
    /\ UNCHANGED <<queue, next_sequence, stop_flag, tasks_completed, last_error,
                   pc, task, rc, posts, starts, history>>

\* A condition variable may wake a sleeper nobody notified.
SpuriousWakeup ==
    \/ /\ worker = "waiting_not_empty"
       /\ worker' = "top"
       /\ UNCHANGED <<shared, pc, task, rc, posts, starts, history>>
    \/ /\ \E t \in Waiters : pc' = [pc EXCEPT ![t] = "locking"]
       /\ UNCHANGED <<shared, worker, task, rc, posts, starts, history>>

-----------------------------------------------------------------------------
PostSteps(t) ==
    PostWait(t) \/ PostDiscard(t) \/ PostEnqueue(t) \/ PostNotify(t)
StopSteps == StopNotifyNotEmpty \/ StopNotifyNotFull \/ StopJoin
\* The worker's steps other than the call of update_all.
QueueSteps ==
    \/ WorkerBoot \/ WorkerWait \/ WorkerPop \/ WorkerNotify
    \/ WorkerRecord \/ WorkerExit \/ WorkerTerminate
WorkerSteps == QueueSteps \/ \E error \in BOOLEAN : WorkerUpdate(error)

IONext ==
    \/ Start
    \/ \E t \in Threads : PostCall(t) \/ PostSteps(t)
    \/ StopSet
    \/ StopSteps
    \/ WorkerSteps
    \/ SpuriousWakeup

\* A thread that is inside post(), stop() or run() and can take its next step
\* eventually takes it (the operating system schedules it, and every
\* update_all returns). Nobody is obliged to call start(), post() or stop().
IOFairness ==
    /\ \A t \in Threads : WF_ioVars(PostSteps(t))
    /\ WF_ioVars(StopSteps)
    /\ WF_ioVars(WorkerSteps)

IOSpec == IOInit /\ [][IONext]_ioVars /\ IOFairness
-----------------------------------------------------------------------------
\* The types of the thread's state; the queue never exceeds its capacity, the
\* worker holds a task exactly between popping and delivering it, and only a
\* thread that has called post() is inside it.
IOTypeOK ==
    /\ queue \in Seq(WriteTask)
    /\ Len(queue) <= Capacity
    /\ next_sequence \in Nat
    /\ stop_flag \in BOOLEAN
    /\ running \in BOOLEAN
    /\ tasks_completed \in Nat
    /\ last_error \in BOOLEAN
    /\ pc \in [Threads -> {"idle"} \cup PostPcs \cup StopPcs]
    /\ worker \in WorkerPcs
    /\ task \in Seq(WriteTask)
    /\ Len(task) = IF worker \in {"notify_not_full", "update"} THEN 1 ELSE 0
    /\ rc \in BOOLEAN
    /\ posts \in [Threads -> 0..MaxPosts]
    /\ \A t \in Threads : pc[t] \in PostPcs => posts[t] > 0
    /\ starts \in 0..MaxStarts
    /\ accepted \in Seq(WriteTask)
    /\ delivered \in Seq(WriteTask)

\* Every task post() queued is, at every moment and over all sessions, either
\* already delivered to the plugins, in the worker's hand, or in the queue:
\* none is lost, duplicated or overtaken, and the task with sequence number k
\* is the k-th one (0-based), across restarts (WriteTask.hpp, sequence).
FifoNoLoss ==
    /\ Len(accepted) = Len(delivered) + Len(task) + Len(queue)
    /\ \A i \in 1..Len(delivered) : delivered[i] = accepted[i]
    /\ \A i \in 1..Len(task) : task[i] = accepted[Len(delivered) + i]
    /\ \A i \in 1..Len(queue) :
          queue[i] = accepted[Len(delivered) + Len(task) + i]
    /\ \A i \in 1..Len(accepted) : accepted[i].sequence = i - 1

\* When no worker is left to write (it decided to exit, or was joined), every
\* task queued in this session and in the earlier ones has been delivered:
\* the engine finalizes the output plugins on the strength of this.
NothingUnwrittenAfterExit ==
    worker \in {"none", "exiting", "terminated"} => delivered = accepted

\* The worker never sleeps through work: when it is asleep although there is a
\* task or a stop request, somebody has yet to notify it.
WorkerNotStranded ==
    worker = "waiting_not_empty" /\ (queue # <<>> \/ stop_flag) =>
        \/ \E t \in Threads : pc[t] = "notify_not_empty"
        \/ pc[Controller] = "stop_notify_not_empty"

\* No poster sleeps through free space or a stop: while one sleeps, every free
\* slot is matched by a poster already awake and going for it or by a
\* notification the worker has yet to send, and a stop by its notify_all.
PostersNotStranded ==
    Waiters # {} =>
        IF stop_flag
        THEN pc[Controller] \in {"stop_notify_not_empty", "stop_notify_not_full"}
        ELSE Capacity - Len(queue) <=
                Cardinality({t \in Threads : pc[t] = "locking"})
                + (IF worker = "notify_not_full" THEN 1 ELSE 0)

\* Every call of post() and of stop() returns.
CallsReturn == \A t \in Threads : pc[t] # "idle" ~> pc[t] = "idle"

-----------------------------------------------------------------------------
\* The snapshot log this thread implements. It is closed before the first
\* start() and after each join, and draining while stop() runs.
LogPhase ==
    IF pc[Controller] \in StopPcs THEN "draining"
    ELSE IF starts > 0 /\ ~stop_flag THEN "open" ELSE "closed"

SnapshotsOf(tasks) == [i \in 1..Len(tasks) |-> tasks[i].snapshot]

SL == INSTANCE SnapshotLog WITH
        Entries <- Snapshots,
        log     <- SnapshotsOf(accepted),
        written <- SnapshotsOf(delivered),
        phase   <- LogPhase

\* The writer thread implements the snapshot log: its steps add, write in
\* order, drain and close, and what was added is eventually written.
ImplementsSnapshotLog == SL!LogSpec
=============================================================================
