--------------------------- MODULE IOThread_proofs ---------------------------
(***************************************************************************)
(* Theorems about IOThread for every set of threads, capacity and bound.    *)
(***************************************************************************)
EXTENDS IOThread, FiniteSetTheorems, TLAPS

-----------------------------------------------------------------------------
LEMMA TypeInit == IOInit => IOTypeOK
<1> SUFFICES ASSUME IOInit PROVE IOTypeOK
  OBVIOUS
<1> USE ConstantsAssumption DEF IOInit
<1>1. queue \in Seq(WriteTask) /\ Len(queue) <= Capacity
  OBVIOUS
<1>2. accepted \in Seq(WriteTask) /\ delivered \in Seq(WriteTask)
  OBVIOUS
<1>3. /\ task \in Seq(WriteTask)
      /\ Len(task) = IF worker \in {"notify_not_full", "update"} THEN 1 ELSE 0
  OBVIOUS
<1>4. pc \in [Threads -> {"idle"} \cup PostPcs \cup StopPcs]
  OBVIOUS
<1>5. posts \in [Threads -> 0..MaxPosts] /\ starts \in 0..MaxStarts
  OBVIOUS
<1>6. \A t \in Threads : pc[t] \in PostPcs => posts[t] > 0
  BY DEF PostPcs
<1>7. /\ stop_flag \in BOOLEAN /\ running \in BOOLEAN
      /\ last_error \in BOOLEAN /\ rc \in BOOLEAN
      /\ next_sequence \in Nat /\ tasks_completed \in Nat
  OBVIOUS
<1>8. worker \in WorkerPcs
  BY DEF WorkerPcs
<1> QED
  BY <1>1, <1>2, <1>3, <1>4, <1>5, <1>6, <1>7, <1>8 DEF IOTypeOK

LEMMA TypeStep == IOTypeOK /\ [IONext]_ioVars => IOTypeOK'
<1> SUFFICES ASSUME IOTypeOK, [IONext]_ioVars PROVE IOTypeOK'
  OBVIOUS
<1> USE ConstantsAssumption DEF IOTypeOK, PostPcs, StopPcs, WorkerPcs,
        shared, history, Waiters
<1>1. CASE Start
  <2>1. starts' \in 0..MaxStarts
    BY <1>1 DEF Start, StopFlagOnStart
  <2>2. worker' = "boot" /\ stop_flag' = FALSE /\ task' = task
    BY <1>1 DEF Start, StopFlagOnStart
  <2> QED
    BY <1>1, <2>1, <2>2 DEF Start, StopFlagOnStart
<1>2. ASSUME NEW t \in Threads, PostCall(t) PROVE IOTypeOK'
  BY <1>2 DEF PostCall
<1>3. ASSUME NEW t \in Threads, PostWait(t) PROVE IOTypeOK'
  BY <1>3 DEF PostWait
<1>4. ASSUME NEW t \in Threads, PostDiscard(t) PROVE IOTypeOK'
  BY <1>4 DEF PostDiscard
<1>5. ASSUME NEW t \in Threads, PostEnqueue(t) PROVE IOTypeOK'
  <2>1. posts[t] \in 1..MaxPosts
    BY <1>5 DEF PostEnqueue
  <2>2. NewTask(t) \in WriteTask
    BY <2>1 DEF NewTask, WriteTask, Snapshots
  <2> QED
    BY <1>5, <2>2 DEF PostEnqueue, HasSpace
<1>6. ASSUME NEW t \in Threads, PostNotify(t) PROVE IOTypeOK'
  BY <1>6 DEF PostNotify, WakeWorker
<1>7. CASE StopSet
  BY <1>7 DEF StopSet
<1>8. CASE StopNotifyNotEmpty
  BY <1>8 DEF StopNotifyNotEmpty, WakeWorker
<1>9. CASE StopNotifyNotFull
  BY <1>9 DEF StopNotifyNotFull, PostersAwake
<1>10. CASE StopJoin
  BY <1>10 DEF StopJoin
<1>11. CASE WorkerBoot
  BY <1>11 DEF WorkerBoot
<1>12. CASE WorkerWait
  BY <1>12 DEF WorkerWait
<1>13. CASE WorkerPop
  BY <1>13 DEF WorkerPop, NextTask
<1>14. CASE WorkerNotify
  BY <1>14 DEF WorkerNotify, WakeOnePoster
<1>15. ASSUME NEW error \in BOOLEAN, WorkerUpdate(error) PROVE IOTypeOK'
  <2>1. rc' \in BOOLEAN
    BY <1>15, Zenon DEF WorkerUpdate
  <2>2. delivered' \in Seq(WriteTask)
    <3>1. task[1] \in WriteTask
      <4>1. Len(task) = 1 /\ task \in Seq(WriteTask)
        BY <1>15 DEF WorkerUpdate
      <4> QED
        BY ONLY <4>1
    <3>2. delivered \in Seq(WriteTask) /\ delivered' = Append(delivered, task[1])
      BY <1>15 DEF WorkerUpdate
    <3> QED
      BY ONLY <3>1, <3>2
  <2>3. task' \in Seq(WriteTask) /\ Len(task') = 0 /\ worker' = "record"
    BY <1>15 DEF WorkerUpdate
  <2>4. UNCHANGED <<shared, pc, posts, starts, accepted>>
    BY <1>15 DEF WorkerUpdate
  <2> QED
    BY <2>1, <2>2, <2>3, <2>4
<1>16. CASE WorkerRecord
  <2>1. last_error' \in BOOLEAN
    BY <1>16, Zenon DEF WorkerRecord
  <2>2. tasks_completed' \in Nat /\ rc' = FALSE
    BY <1>16 DEF WorkerRecord
  <2>3. worker' = "top" /\ Len(task) = 0
    BY <1>16 DEF WorkerRecord
  <2>4. UNCHANGED <<queue, next_sequence, stop_flag, running, pc, task,
                    posts, starts, history>>
    BY <1>16 DEF WorkerRecord
  <2> QED
    BY <2>1, <2>2, <2>3, <2>4
<1>17. CASE WorkerExit
  BY <1>17 DEF WorkerExit, MayExit
<1>18. CASE WorkerTerminate
  BY <1>18 DEF WorkerTerminate
<1>19. CASE SpuriousWakeup
  BY <1>19 DEF SpuriousWakeup
<1>20. CASE UNCHANGED ioVars
  BY <1>20 DEF ioVars
<1> QED
  BY <1>1, <1>2, <1>3, <1>4, <1>5, <1>6, <1>7, <1>8, <1>9, <1>10, <1>11,
     <1>12, <1>13, <1>14, <1>15, <1>16, <1>17, <1>18, <1>19, <1>20
     DEF IONext, PostSteps, StopSteps, WorkerSteps, QueueSteps

\* Type correctness: in particular the queue never holds more than capacity_
\* tasks, and the worker holds a task exactly from the pop to the end of
\* update_all.
THEOREM TypeCorrect == IOSpec => []IOTypeOK
<1> QED
  BY TypeInit, TypeStep, PTL DEF IOSpec

-----------------------------------------------------------------------------
\* The strengthening: what the protocol between stop(), start() and the
\* worker's exit guarantees about where the threads can be.
StopProtocol ==
    /\ next_sequence = Len(accepted)
    /\ \A t \in Threads : pc[t] \in PostPcs => starts > 0
    /\ pc[Controller] \in StopPcs => stop_flag
    /\ worker # "none" => starts > 0
    /\ starts > 0 /\ ~stop_flag => worker \notin {"none", "exiting", "terminated"}
    /\ worker \in {"none", "exiting", "terminated"} => queue = <<>>

IOInv == IOTypeOK /\ StopProtocol /\ FifoNoLoss

\* Steps that touch neither the queue nor the histories keep FifoNoLoss.
LEMMA FifoUntouched ==
    ASSUME FifoNoLoss, UNCHANGED <<queue, task, accepted, delivered>>
    PROVE  FifoNoLoss'
BY DEF FifoNoLoss

LEMMA EnqueueKeepsFifo ==
    ASSUME IOTypeOK, StopProtocol, FifoNoLoss,
           NEW t \in Threads, PostEnqueue(t)
    PROVE  FifoNoLoss'
<1> DEFINE e == NewTask(t)
<1>1. e.sequence = Len(accepted)
  BY DEF NewTask, StopProtocol
<1>2. /\ queue' = Append(queue, e) /\ accepted' = Append(accepted, e)
      /\ task' = task /\ delivered' = delivered
  BY DEF PostEnqueue, history
<1>3. /\ queue \in Seq(WriteTask) /\ accepted \in Seq(WriteTask)
      /\ task \in Seq(WriteTask) /\ delivered \in Seq(WriteTask)
  BY DEF IOTypeOK
<1>4. e \in WriteTask
  BY TypeStep, <1>2 DEF NewTask, WriteTask, Snapshots, IOTypeOK, PostEnqueue, PostPcs
<1> HIDE DEF e
<1>5. /\ Len(accepted') = Len(accepted) + 1 /\ Len(queue') = Len(queue) + 1
      /\ \A i \in 1..Len(accepted) : accepted'[i] = accepted[i]
      /\ \A i \in 1..Len(queue) : queue'[i] = queue[i]
      /\ accepted'[Len(accepted) + 1] = e /\ queue'[Len(queue) + 1] = e
      /\ task' = task /\ delivered' = delivered
  BY <1>2, <1>3, <1>4
<1>6. /\ Len(delivered) \in Nat /\ Len(task) \in Nat /\ Len(queue) \in Nat
      /\ Len(accepted) = Len(delivered) + Len(task) + Len(queue)
  BY <1>3 DEF FifoNoLoss
<1>7. ASSUME NEW i \in 1..Len(delivered) PROVE delivered'[i] = accepted'[i]
  <2>1. i \in 1..Len(accepted)
    BY <1>6
  <2>2. delivered[i] = accepted[i]
    BY DEF FifoNoLoss
  <2> QED
    BY <2>1, <2>2, <1>5
<1>8. ASSUME NEW i \in 1..Len(task)
      PROVE  task'[i] = accepted'[Len(delivered) + i]
  <2>1. Len(delivered) + i \in 1..Len(accepted)
    BY <1>6
  <2>2. task[i] = accepted[Len(delivered) + i]
    BY DEF FifoNoLoss
  <2> QED
    BY <2>1, <2>2, <1>5
<1>9. ASSUME NEW i \in 1..Len(queue')
      PROVE  queue'[i] = accepted'[Len(delivered) + Len(task) + i]
  <2>1. CASE i = Len(queue) + 1
    <3>1. Len(delivered) + Len(task) + i = Len(accepted) + 1
      BY <2>1, <1>6
    <3> QED
      BY <2>1, <3>1, <1>5
  <2>2. CASE i \in 1..Len(queue)
    <3>1. /\ Len(delivered) + Len(task) + i \in 1..Len(accepted)
          /\ queue[i] = accepted[Len(delivered) + Len(task) + i]
      BY <2>2, <1>6 DEF FifoNoLoss
    <3> QED
      BY <2>2, <3>1, <1>5
  <2> QED
    BY <2>1, <2>2, <1>5, <1>6
<1>10. ASSUME NEW i \in 1..Len(accepted') PROVE accepted'[i].sequence = i - 1
  <2>1. CASE i = Len(accepted) + 1
    BY <2>1, <1>1, <1>5, <1>6
  <2>2. CASE i \in 1..Len(accepted)
    BY <2>2, <1>5 DEF FifoNoLoss
  <2> QED
    BY <2>1, <2>2, <1>5, <1>6
<1>11. Len(accepted') = Len(delivered') + Len(task') + Len(queue')
  BY <1>5, <1>6
<1> QED
  BY <1>5, <1>7, <1>8, <1>9, <1>10, <1>11 DEF FifoNoLoss

LEMMA PopKeepsFifo ==
    ASSUME IOTypeOK, FifoNoLoss, WorkerPop
    PROVE  FifoNoLoss'
<1>1. /\ queue # <<>> /\ task' = <<queue[1]>> /\ queue' = Tail(queue)
      /\ accepted' = accepted /\ delivered' = delivered
  BY DEF WorkerPop, NextTask, history, IOTypeOK
<1>2. /\ queue \in Seq(WriteTask) /\ accepted \in Seq(WriteTask)
      /\ task \in Seq(WriteTask) /\ delivered \in Seq(WriteTask)
  BY DEF IOTypeOK
<1>3. Len(task) = 0
  BY DEF IOTypeOK, WorkerPop
<1> USE <1>1, <1>2, <1>3
<1>4. /\ Len(task') = 1 /\ task'[1] = queue[1]
      /\ Len(queue') = Len(queue) - 1
      /\ \A i \in 1..Len(queue') : queue'[i] = queue[i + 1]
  OBVIOUS
<1>5. Len(accepted') = Len(delivered') + Len(task') + Len(queue')
  BY <1>4 DEF FifoNoLoss
<1>6. \A i \in 1..Len(task') : task'[i] = accepted'[Len(delivered') + i]
  BY <1>4 DEF FifoNoLoss
<1>7. ASSUME NEW i \in 1..Len(queue')
      PROVE  queue'[i] = accepted'[Len(delivered') + Len(task') + i]
  BY <1>4 DEF FifoNoLoss
<1> QED
  BY <1>5, <1>6, <1>7 DEF FifoNoLoss

LEMMA UpdateKeepsFifo ==
    ASSUME IOTypeOK, FifoNoLoss, NEW error \in BOOLEAN, WorkerUpdate(error)
    PROVE  FifoNoLoss'
<1>1. /\ delivered' = Append(delivered, task[1]) /\ task' = <<>>
      /\ accepted' = accepted /\ queue' = queue
  BY DEF WorkerUpdate, shared
<1>2. /\ queue \in Seq(WriteTask) /\ accepted \in Seq(WriteTask)
      /\ task \in Seq(WriteTask) /\ delivered \in Seq(WriteTask)
  BY DEF IOTypeOK
<1>3. Len(task) = 1
  BY DEF IOTypeOK, WorkerUpdate
<1> USE <1>1, <1>2, <1>3
<1>4. /\ Len(delivered') = Len(delivered) + 1 /\ Len(task') = 0
      /\ \A i \in 1..Len(delivered) : delivered'[i] = delivered[i]
      /\ delivered'[Len(delivered) + 1] = task[1]
  OBVIOUS
<1>5. Len(accepted') = Len(delivered') + Len(task') + Len(queue')
  BY <1>4 DEF FifoNoLoss
<1>6. ASSUME NEW i \in 1..Len(delivered')
      PROVE  delivered'[i] = accepted'[i]
  BY <1>4 DEF FifoNoLoss
<1>7. ASSUME NEW i \in 1..Len(queue')
      PROVE  queue'[i] = accepted'[Len(delivered') + Len(task') + i]
  BY <1>4 DEF FifoNoLoss
<1> QED
  BY <1>4, <1>5, <1>6, <1>7 DEF FifoNoLoss

LEMMA InvInit == IOInit => IOInv
<1>1. IOInit => IOTypeOK
  BY TypeInit
<1>2. IOInit => StopProtocol
  BY ConstantsAssumption DEF IOInit, StopProtocol, PostPcs, StopPcs
<1>3. IOInit => FifoNoLoss
  BY DEF IOInit, FifoNoLoss
<1> QED
  BY <1>1, <1>2, <1>3 DEF IOInv

LEMMA StepKeepsFifo == IOInv /\ [IONext]_ioVars => FifoNoLoss'
<1> SUFFICES ASSUME IOInv, [IONext]_ioVars PROVE FifoNoLoss'
  OBVIOUS
<1> USE DEF IOInv
<1>1. ASSUME NEW t \in Threads, PostEnqueue(t) PROVE FifoNoLoss'
  BY <1>1, EnqueueKeepsFifo
<1>2. CASE WorkerPop
  BY <1>2, PopKeepsFifo
<1>3. ASSUME NEW error \in BOOLEAN, WorkerUpdate(error) PROVE FifoNoLoss'
  BY <1>3, UpdateKeepsFifo
<1>4. CASE UNCHANGED <<queue, task, accepted, delivered>>
  BY <1>4, FifoUntouched
<1>5. CASE Start \/ StopSet \/ StopSteps \/ SpuriousWakeup \/ UNCHANGED ioVars
  BY <1>4, <1>5 DEF Start, StopFlagOnStart, StopSet, StopSteps, StopNotifyNotEmpty,
     StopNotifyNotFull, StopJoin, SpuriousWakeup, shared, history, ioVars
<1>6. ASSUME NEW t \in Threads,
             PostCall(t) \/ PostWait(t) \/ PostDiscard(t) \/ PostNotify(t)
      PROVE  FifoNoLoss'
  BY <1>4, <1>6 DEF PostCall, PostWait, PostDiscard, PostNotify, shared, history
<1>7. CASE WorkerBoot \/ WorkerWait \/ WorkerNotify \/ WorkerRecord
           \/ WorkerExit \/ WorkerTerminate
  BY <1>4, <1>7 DEF WorkerBoot, WorkerWait, WorkerNotify, WorkerRecord,
     WorkerExit, WorkerTerminate, shared, history
<1> QED
  BY <1>1, <1>2, <1>3, <1>5, <1>6, <1>7
     DEF IONext, PostSteps, WorkerSteps, QueueSteps

LEMMA StepKeepsStopProtocol == IOInv /\ [IONext]_ioVars => StopProtocol'
<1> SUFFICES ASSUME IOInv, [IONext]_ioVars PROVE StopProtocol'
  OBVIOUS
<1> USE DEF StopProtocol, PostPcs, StopPcs, shared, history
<1>1. /\ IOTypeOK /\ StopProtocol
      /\ Controller \in Threads /\ starts \in Nat /\ queue \in Seq(WriteTask)
      /\ pc \in [Threads -> {"idle"} \cup PostPcs \cup StopPcs]
      /\ accepted \in Seq(WriteTask)
  BY ConstantsAssumption DEF IOInv, IOTypeOK
<1>2. CASE Start
  BY <1>1, <1>2 DEF Start, StopFlagOnStart
<1>3. ASSUME NEW t \in Threads, PostCall(t) PROVE StopProtocol'
  BY <1>1, <1>3 DEF PostCall
<1>4. ASSUME NEW t \in Threads, PostWait(t) PROVE StopProtocol'
  BY <1>1, <1>4 DEF PostWait
<1>5. ASSUME NEW t \in Threads, PostDiscard(t) PROVE StopProtocol'
  BY <1>1, <1>5 DEF PostDiscard
<1>6. ASSUME NEW t \in Threads, PostEnqueue(t) PROVE StopProtocol'
  BY <1>1, <1>6 DEF PostEnqueue
<1>7. ASSUME NEW t \in Threads, PostNotify(t) PROVE StopProtocol'
  BY <1>1, <1>7 DEF PostNotify, WakeWorker
<1>8. CASE StopSet
  BY <1>1, <1>8 DEF StopSet
<1>9. CASE StopNotifyNotEmpty
  BY <1>1, <1>9 DEF StopNotifyNotEmpty, WakeWorker
<1>10. CASE StopNotifyNotFull
  BY <1>1, <1>10 DEF StopNotifyNotFull, PostersAwake, Waiters
<1>11. CASE StopJoin
  BY <1>1, <1>11 DEF StopJoin
<1>12. CASE WorkerNotify
  BY <1>1, <1>12 DEF WorkerNotify, WakeOnePoster, Waiters
<1>13. CASE WorkerPop
  BY <1>1, <1>13 DEF WorkerPop
<1>14. ASSUME NEW error \in BOOLEAN, WorkerUpdate(error) PROVE StopProtocol'
  BY <1>1, <1>14 DEF WorkerUpdate
<1>15. CASE WorkerBoot \/ WorkerWait \/ WorkerRecord
  BY <1>1, <1>15 DEF WorkerBoot, WorkerWait, WorkerRecord
<1>16. CASE WorkerExit \/ WorkerTerminate
  BY <1>1, <1>16 DEF WorkerExit, WorkerTerminate, MayExit
<1>17. CASE SpuriousWakeup
  BY <1>1, <1>17 DEF SpuriousWakeup, Waiters
<1>18. CASE UNCHANGED ioVars
  BY <1>1, <1>18 DEF ioVars
<1> QED
  BY <1>2, <1>3, <1>4, <1>5, <1>6, <1>7, <1>8, <1>9, <1>10, <1>11, <1>12,
     <1>13, <1>14, <1>15, <1>16, <1>17, <1>18
     DEF IONext, PostSteps, StopSteps, WorkerSteps, QueueSteps

\* IOInv is inductive, hence invariant.
THEOREM InvCorrect == IOSpec => []IOInv
<1>1. IOInv /\ [IONext]_ioVars => IOInv'
  BY TypeStep, StepKeepsStopProtocol, StepKeepsFifo DEF IOInv
<1> QED
  BY InvInit, <1>1, PTL DEF IOSpec

\* No task is lost, duplicated or overtaken between post() and the plugins,
\* whatever the threads, the capacity and the number of restarts.
THEOREM FifoCorrect == IOSpec => []FifoNoLoss
<1>1. IOInv => FifoNoLoss
  BY DEF IOInv
<1> QED
  BY <1>1, InvCorrect, PTL

LEMMA InvDrained == IOInv => NothingUnwrittenAfterExit
<1> SUFFICES ASSUME IOInv, worker \in {"none", "exiting", "terminated"}
             PROVE  delivered = accepted
  BY DEF NothingUnwrittenAfterExit
<1>1. queue = <<>> /\ Len(task) = 0
  BY DEF IOInv, StopProtocol, IOTypeOK
<1>2. delivered \in Seq(WriteTask) /\ accepted \in Seq(WriteTask)
  BY DEF IOInv, IOTypeOK
<1>3. /\ Len(accepted) = Len(delivered)
      /\ \A i \in 1..Len(delivered) : delivered[i] = accepted[i]
  BY <1>1, <1>2 DEF IOInv, FifoNoLoss
<1> QED
  BY <1>2, <1>3

\* Once the worker has decided to exit, everything ever queued is delivered.
THEOREM DrainCorrect == IOSpec => []NothingUnwrittenAfterExit
<1> QED
  BY InvDrained, InvCorrect, PTL

-----------------------------------------------------------------------------
\* The refinement, step by step: adding a task adds its snapshot to the log,
\* finishing an update writes the next entry, the rest only moves the phase.
LEMMA SnapshotsOfAppend ==
    ASSUME NEW S, NEW s \in Seq(S), NEW e \in S
    PROVE  SnapshotsOf(Append(s, e)) = Append(SnapshotsOf(s), e.snapshot)
BY DEF SnapshotsOf

LEMMA SnapshotsOfSeq ==
    ASSUME NEW S, NEW s \in Seq(S)
    PROVE  /\ Len(SnapshotsOf(s)) = Len(s)
           /\ \A i \in 1..Len(s) : SnapshotsOf(s)[i] = s[i].snapshot
BY DEF SnapshotsOf

LEMMA RefineInit == IOInit => SL!LogInit
<1> SUFFICES ASSUME IOInit PROVE SL!LogInit
  OBVIOUS
<1>1. LogPhase = "closed"
  BY ConstantsAssumption DEF IOInit, LogPhase, StopPcs
<1>2. SnapshotsOf(<<>>) = <<>>
  BY DEF SnapshotsOf
<1> QED
  BY <1>1, <1>2 DEF IOInit, SL!LogInit

\* Steps that leave the histories alone are stutters, or open, drain or close.
LEMMA RefineQuiet ==
    ASSUME UNCHANGED history,
           \/ LogPhase' = LogPhase
           \/ LogPhase' = "draining"
           \/ LogPhase = "closed" /\ LogPhase' = "open"
           \/ /\ LogPhase = "draining" /\ LogPhase' = "closed"
              /\ delivered = accepted /\ accepted \in Seq(WriteTask)
    PROVE  [SL!LogNext]_SL!logVars
<1>1. /\ SnapshotsOf(accepted)' = SnapshotsOf(accepted)
      /\ SnapshotsOf(delivered)' = SnapshotsOf(delivered)
  BY DEF history, SnapshotsOf
<1>2. CASE LogPhase' = LogPhase
  BY <1>1, <1>2 DEF SL!logVars
<1>3. CASE LogPhase' = "draining"
  BY <1>1, <1>3 DEF SL!LogNext, SL!Drain
<1>4. CASE LogPhase = "closed" /\ LogPhase' = "open"
  BY <1>1, <1>4 DEF SL!LogNext, SL!Open
<1>5. CASE /\ LogPhase = "draining" /\ LogPhase' = "closed"
           /\ delivered = accepted /\ accepted \in Seq(WriteTask)
  <2>1. SL!Backlog = 0
    BY <1>5, SnapshotsOfSeq DEF SL!Backlog
  <2> QED
    BY <1>1, <1>5, <2>1 DEF SL!LogNext, SL!Close
<1> QED
  BY <1>2, <1>3, <1>4, <1>5

LEMMA RefineEnqueue ==
    ASSUME IOInv, NEW t \in Threads, PostEnqueue(t)
    PROVE  SL!LogNext
<1> DEFINE e == NewTask(t)
<1>1. /\ accepted \in Seq(WriteTask) /\ delivered \in Seq(WriteTask)
      /\ queue \in Seq(WriteTask) /\ task \in Seq(WriteTask)
      /\ Len(task) <= 1 /\ Capacity \in Nat /\ Controller \in Threads
      /\ pc \in [Threads -> {"idle"} \cup PostPcs \cup StopPcs]
  BY ConstantsAssumption DEF IOInv, IOTypeOK
<1>2. e \in WriteTask /\ e.snapshot \in Snapshots
  BY DEF NewTask, WriteTask, Snapshots, IOInv, IOTypeOK, PostEnqueue, PostPcs
<1>3. accepted' = Append(accepted, e) /\ delivered' = delivered
  BY DEF PostEnqueue
<1>4. LogPhase = "open" /\ LogPhase' = "open"
  <2>1. starts > 0 /\ ~stop_flag /\ starts' = starts /\ stop_flag' = stop_flag
    BY DEF IOInv, StopProtocol, PostEnqueue, PostPcs
  <2>2. pc[Controller] \notin StopPcs /\ pc'[Controller] \notin StopPcs
    BY <1>1, <2>1 DEF IOInv, StopProtocol, PostEnqueue, StopPcs
  <2> QED
    BY <2>1, <2>2 DEF LogPhase
<1>5. Len(accepted) - Len(delivered) <= Capacity
  <2>1. /\ Len(accepted) = Len(delivered) + Len(task) + Len(queue)
        /\ Len(queue) < Capacity
    BY DEF IOInv, FifoNoLoss, PostEnqueue, HasSpace
  <2>2. /\ Len(accepted) \in Nat /\ Len(delivered) \in Nat
        /\ Len(queue) \in Nat /\ Len(task) \in Nat /\ Len(task) <= 1
        /\ Capacity \in Nat
    BY <1>1
  <2> QED
    BY ONLY <2>1, <2>2
<1> HIDE DEF e
<1>6. SL!Backlog <= Capacity
  BY <1>1, <1>5, SnapshotsOfSeq DEF SL!Backlog
<1>7. SnapshotsOf(accepted)' = Append(SnapshotsOf(accepted), e.snapshot)
  <2>1. SnapshotsOf(accepted)' = SnapshotsOf(Append(accepted, e))
    BY <1>3 DEF SnapshotsOf
  <2> QED
    BY <2>1, <1>1, <1>2, SnapshotsOfAppend
<1>8. SnapshotsOf(delivered)' = SnapshotsOf(delivered)
  BY <1>3 DEF SnapshotsOf
<1>9. SL!Add(e.snapshot)
  BY <1>4, <1>6, <1>7, <1>8 DEF SL!Add
<1> QED
  BY <1>2, <1>9 DEF SL!LogNext

LEMMA RefineUpdate ==
    ASSUME IOInv, NEW error \in BOOLEAN, WorkerUpdate(error)
    PROVE  SL!LogNext
<1>1. /\ accepted \in Seq(WriteTask) /\ delivered \in Seq(WriteTask)
      /\ queue \in Seq(WriteTask) /\ task \in Seq(WriteTask) /\ Len(task) = 1
  BY DEF IOInv, IOTypeOK, WorkerUpdate
<1>2. /\ delivered' = Append(delivered, task[1]) /\ accepted' = accepted
      /\ LogPhase' = LogPhase
  BY DEF WorkerUpdate, LogPhase, shared
<1>3. /\ Len(accepted) = Len(delivered) + 1 + Len(queue)
      /\ Len(delivered) \in Nat /\ Len(queue) \in Nat
      /\ task[1] = accepted[Len(delivered) + 1]
  BY <1>1 DEF IOInv, FifoNoLoss
<1>4. task[1] \in WriteTask /\ Len(delivered) + 1 \in 1..Len(accepted)
  BY <1>1, <1>3
<1>5. SL!Backlog > 0
  BY <1>1, <1>3, SnapshotsOfSeq DEF SL!Backlog
<1>6. SnapshotsOf(accepted)[Len(SnapshotsOf(delivered)) + 1] = task[1].snapshot
  BY <1>1, <1>3, <1>4, SnapshotsOfSeq
<1>7. SnapshotsOf(delivered)' = Append(SnapshotsOf(delivered), task[1].snapshot)
  <2>1. SnapshotsOf(delivered)' = SnapshotsOf(Append(delivered, task[1]))
    BY <1>2 DEF SnapshotsOf
  <2> QED
    BY <2>1, <1>1, <1>4, SnapshotsOfAppend
<1>8. SnapshotsOf(accepted)' = SnapshotsOf(accepted)
  BY <1>2 DEF SnapshotsOf
<1>9. SL!Write
  BY <1>2, <1>5, <1>6, <1>7, <1>8 DEF SL!Write
<1> QED
  BY <1>9 DEF SL!LogNext

LEMMA RefineStep == IOInv /\ [IONext]_ioVars => [SL!LogNext]_SL!logVars
<1> SUFFICES ASSUME IOInv, [IONext]_ioVars PROVE [SL!LogNext]_SL!logVars
  OBVIOUS
<1>1. /\ StopProtocol /\ Controller \in Threads /\ starts \in Nat
      /\ pc \in [Threads -> {"idle"} \cup PostPcs \cup StopPcs]
  BY ConstantsAssumption DEF IOInv, IOTypeOK
<1> DEFINE SamePhase == LogPhase' = LogPhase /\ UNCHANGED history
<1>2. ASSUME SamePhase PROVE [SL!LogNext]_SL!logVars
  BY <1>2, RefineQuiet
<1> HIDE DEF SamePhase
<1>3. CASE Start
  <2>1. LogPhase = "closed"
    BY <1>1, <1>3 DEF Start, StopFlagOnStart, LogPhase, StopProtocol, StopPcs
  <2>2. LogPhase' = "open" /\ UNCHANGED history
    BY <1>1, <1>3 DEF Start, StopFlagOnStart, LogPhase, StopPcs
  <2> QED
    BY <2>1, <2>2, RefineQuiet
<1>4. ASSUME NEW t \in Threads, PostEnqueue(t) PROVE [SL!LogNext]_SL!logVars
  BY <1>4, RefineEnqueue
<1>5. ASSUME NEW error \in BOOLEAN, WorkerUpdate(error)
      PROVE  [SL!LogNext]_SL!logVars
  BY <1>5, RefineUpdate
<1>6. CASE StopSet \/ StopNotifyNotEmpty \/ StopNotifyNotFull
  <2>1. LogPhase' = "draining" /\ UNCHANGED history
    BY <1>1, <1>6 DEF StopSet, StopNotifyNotEmpty, StopNotifyNotFull, LogPhase,
       PostersAwake, StopPcs, history
  <2> QED
    BY <2>1, RefineQuiet
<1>7. CASE StopJoin
  <2>1. LogPhase = "draining" /\ LogPhase' = "closed" /\ UNCHANGED history
    BY <1>1, <1>7 DEF StopJoin, LogPhase, StopProtocol, StopPcs
  <2>2. delivered = accepted /\ accepted \in Seq(WriteTask)
    BY <1>7, InvDrained DEF StopJoin, IOInv, IOTypeOK, NothingUnwrittenAfterExit
  <2> QED
    BY <2>1, <2>2, RefineQuiet
<1>8. ASSUME NEW t \in Threads,
             PostCall(t) \/ PostWait(t) \/ PostDiscard(t) \/ PostNotify(t)
      PROVE  [SL!LogNext]_SL!logVars
  <2>1. SamePhase
    BY <1>1, <1>8 DEF PostCall, PostWait, PostDiscard, PostNotify, SamePhase,
       LogPhase, StopPcs, shared
  <2> QED
    BY <2>1, <1>2
<1>9. CASE WorkerNotify \/ SpuriousWakeup
  <2>1. SamePhase
    BY <1>1, <1>9 DEF WorkerNotify, WakeOnePoster, SpuriousWakeup, Waiters,
       SamePhase, LogPhase, StopPcs, shared
  <2> QED
    BY <2>1, <1>2
<1>10. CASE WorkerBoot \/ WorkerWait \/ WorkerPop \/ WorkerRecord
            \/ WorkerExit \/ WorkerTerminate \/ UNCHANGED ioVars
  <2>1. SamePhase
    BY <1>10 DEF WorkerBoot, WorkerWait, WorkerPop, WorkerRecord, WorkerExit,
       WorkerTerminate, ioVars, SamePhase, LogPhase, shared, history
  <2> QED
    BY <2>1, <1>2
<1> QED
  BY <1>3, <1>4, <1>5, <1>6, <1>7, <1>8, <1>9, <1>10
     DEF IONext, PostSteps, StopSteps, WorkerSteps, QueueSteps

\* The writer thread implements the snapshot log (its safety part; that what
\* was added is eventually written is checked by TLC on ImplementsSnapshotLog).
THEOREM RefinesSnapshotLog == IOSpec => SL!LogSafeSpec
<1> QED
  BY RefineInit, RefineStep, InvCorrect, PTL DEF IOSpec, SL!LogSafeSpec

-----------------------------------------------------------------------------
LEMMA StepKeepsWorkerAwake ==
    IOInv /\ WorkerNotStranded /\ [IONext]_ioVars => WorkerNotStranded'
<1> SUFFICES ASSUME IOInv, WorkerNotStranded, [IONext]_ioVars,
                    worker' = "waiting_not_empty", queue' # <<>> \/ stop_flag'
             PROVE  \/ \E t \in Threads : pc'[t] = "notify_not_empty"
                    \/ pc'[Controller] = "stop_notify_not_empty"
  BY DEF WorkerNotStranded
<1> USE DEF shared, history
<1>1. /\ Controller \in Threads
      /\ pc \in [Threads -> {"idle"} \cup PostPcs \cup StopPcs]
  BY ConstantsAssumption DEF IOInv, IOTypeOK
<1>2. ASSUME NEW t \in Threads, PostEnqueue(t)
      PROVE  pc'[t] = "notify_not_empty"
  BY <1>1, <1>2 DEF PostEnqueue
<1>3. CASE StopSet
  BY <1>1, <1>3 DEF StopSet
<1>4. CASE WorkerSteps
  BY <1>4 DEF WorkerSteps, QueueSteps, WorkerBoot, WorkerWait, WorkerPop, WorkerNotify,
     WorkerUpdate, WorkerRecord, WorkerExit, WorkerTerminate
<1>5. CASE Start \/ StopNotifyNotEmpty \/ StopJoin
  BY <1>5 DEF Start, StopFlagOnStart, StopNotifyNotEmpty, StopJoin, WakeWorker
<1>6. ASSUME NEW t \in Threads, PostNotify(t) PROVE FALSE
  BY <1>6 DEF PostNotify, WakeWorker
<1>7. ASSUME worker' = worker, queue' = queue, stop_flag' = stop_flag,
             \A t \in Threads : pc[t] \in {"notify_not_empty",
                   "stop_notify_not_empty"} => pc'[t] = pc[t]
      PROVE  \/ \E t \in Threads : pc'[t] = "notify_not_empty"
             \/ pc'[Controller] = "stop_notify_not_empty"
  BY <1>1, <1>7 DEF WorkerNotStranded
<1>8. ASSUME NEW t \in Threads, PostCall(t) \/ PostWait(t) \/ PostDiscard(t)
      PROVE  \/ \E u \in Threads : pc'[u] = "notify_not_empty"
             \/ pc'[Controller] = "stop_notify_not_empty"
  BY <1>1, <1>7, <1>8 DEF PostCall, PostWait, PostDiscard
<1>9. CASE StopNotifyNotFull
  BY <1>1, <1>7, <1>9 DEF StopNotifyNotFull, PostersAwake, Waiters
<1>10. CASE SpuriousWakeup
  BY <1>1, <1>7, <1>10 DEF SpuriousWakeup, Waiters
<1>11. CASE UNCHANGED ioVars
  BY <1>7, <1>11 DEF ioVars
<1> QED
  BY <1>2, <1>3, <1>4, <1>5, <1>6, <1>8, <1>9, <1>10, <1>11
     DEF IONext, PostSteps, StopSteps

\* The worker never sleeps through a task or a stop request, whatever the
\* number of threads that post.
THEOREM WorkerAwake == IOSpec => []WorkerNotStranded
<1>1. IOInit => WorkerNotStranded
  BY DEF IOInit, WorkerNotStranded
<1> QED
  BY <1>1, StepKeepsWorkerAwake, InvCorrect, PTL DEF IOSpec

-----------------------------------------------------------------------------
\* The posters that will look at the queue once they have the mutex.
Lockers == {t \in Threads : pc[t] = "locking"}

LEMMA LockersFinite ==
    ASSUME IsFiniteSet(Threads)
    PROVE  IsFiniteSet(Lockers) /\ Cardinality(Lockers) \in Nat
<1>1. IsFiniteSet(Lockers)
  BY FS_Subset DEF Lockers
<1> QED
  BY <1>1, FS_CardinalityType

LEMMA LockerArrives ==
    ASSUME IsFiniteSet(Threads), IOTypeOK, NEW t \in Threads, pc[t] # "locking",
           pc' = [pc EXCEPT ![t] = "locking"]
    PROVE  Cardinality(Lockers') = Cardinality(Lockers) + 1
<1>1. Lockers' = Lockers \cup {t} /\ t \notin Lockers
  BY DEF Lockers, IOTypeOK
<1> QED
  BY <1>1, LockersFinite, FS_AddElement

LEMMA LockerLeaves ==
    ASSUME IsFiniteSet(Threads), IOTypeOK, NEW t \in Threads, pc[t] = "locking",
           NEW p, p # "locking", pc' = [pc EXCEPT ![t] = p]
    PROVE  Cardinality(Lockers') = Cardinality(Lockers) - 1
<1>1. Lockers' = Lockers \ {t} /\ t \in Lockers
  BY DEF Lockers, IOTypeOK
<1> QED
  BY <1>1, LockersFinite, FS_RemoveElement

\* Free slots, posters going for one, and the wakeup the worker has yet to send.
FreeSlots == Capacity - Len(queue)
Owed == IF worker = "notify_not_full" THEN 1 ELSE 0

Served(free, lockers, owed, stopping) ==
    IF stopping
    THEN pc[Controller] \in {"stop_notify_not_empty", "stop_notify_not_full"}
    ELSE free <= lockers + owed

LEMMA StrandedNow ==
    PostersNotStranded <=>
        (Waiters # {} => Served(FreeSlots, Cardinality(Lockers), Owed, stop_flag))
BY DEF PostersNotStranded, FreeSlots, Owed, Lockers, Served

LEMMA StrandedNext ==
    PostersNotStranded' <=>
        (Waiters' # {} =>
            IF stop_flag'
            THEN pc'[Controller] \in {"stop_notify_not_empty", "stop_notify_not_full"}
            ELSE FreeSlots' <= Cardinality(Lockers') + Owed')
BY DEF PostersNotStranded, FreeSlots, Owed, Lockers

\* A step that moves no poster to or from the queue and frees no slot.
LEMMA PostersUntouched ==
    ASSUME PostersNotStranded, UNCHANGED <<queue, stop_flag, Waiters, Lockers, Owed>>,
           pc[Controller] \in {"stop_notify_not_empty", "stop_notify_not_full"}
               => pc'[Controller] = pc[Controller]
    PROVE  PostersNotStranded'
<1>1. FreeSlots' = FreeSlots
  BY DEF FreeSlots
<1> QED
  BY <1>1, StrandedNow, StrandedNext DEF Served

LEMMA StepKeepsPostersAwake ==
    ASSUME IsFiniteSet(Threads), IOInv, PostersNotStranded, [IONext]_ioVars
    PROVE  PostersNotStranded'
<1> USE ConstantsAssumption DEF shared, history
<1>1. /\ IOTypeOK /\ StopProtocol /\ queue \in Seq(WriteTask) /\ FreeSlots \in Nat
      /\ pc \in [Threads -> {"idle"} \cup PostPcs \cup StopPcs]
      /\ Controller \in Threads /\ Cardinality(Lockers) \in Nat /\ Owed \in {0, 1}
  BY LockersFinite DEF IOInv, IOTypeOK, FreeSlots, Owed
<1>2. CASE Start
  \* Nobody waits: an earlier stop() has woken all, or nothing was ever started.
  <2>1. Waiters = {}
    <3>1. CASE stop_flag
      BY <1>2, <3>1, StrandedNow DEF Start, Served
    <3>2. CASE ~stop_flag
      BY <1>1, <1>2, <3>2 DEF Start, StopProtocol, Waiters, PostPcs
    <3> QED
      BY <3>1, <3>2
  <2>2. Waiters' = Waiters
    BY <1>2 DEF Start, Waiters
  <2> QED
    BY <2>1, <2>2, StrandedNext
<1>3. ASSUME NEW t \in Threads, PostCall(t) PROVE PostersNotStranded'
  <2>1. /\ pc' = [pc EXCEPT ![t] = "locking"] /\ pc[t] = "idle"
        /\ UNCHANGED <<queue, stop_flag, worker>>
    BY <1>3 DEF PostCall
  <2>2. Cardinality(Lockers') = Cardinality(Lockers) + 1
    BY <1>1, <2>1, LockerArrives
  <2>3. Waiters' = Waiters /\ FreeSlots' = FreeSlots /\ Owed' = Owed
    BY <1>1, <2>1 DEF Waiters, FreeSlots, Owed
  <2>4. pc[Controller] \in {"stop_notify_not_empty", "stop_notify_not_full"}
           => pc'[Controller] = pc[Controller]
    BY <1>1, <2>1
  <2> QED
    BY <1>1, <2>1, <2>2, <2>3, <2>4, StrandedNow, StrandedNext DEF Served
<1>4. ASSUME NEW t \in Threads, PostWait(t) PROVE PostersNotStranded'
  \* The queue is full.
  <2>1. UNCHANGED <<queue, stop_flag, worker>> /\ ~stop_flag /\ Len(queue) = Capacity
    BY <1>1, <1>4 DEF PostWait, HasSpace, IOTypeOK
  <2>2. FreeSlots' = 0 /\ Owed' = Owed
    BY <2>1 DEF FreeSlots, Owed
  <2>3. Cardinality(Lockers') = Cardinality(Lockers) - 1
    BY <1>1, <1>4, LockerLeaves DEF PostWait
  <2>4. Cardinality(Lockers) # 0
    <3>1. t \in Lockers
      BY <1>4 DEF PostWait, Lockers
    <3> QED
      BY <3>1, LockersFinite, FS_EmptySet
  <2> QED
    BY <1>1, <2>1, <2>2, <2>3, <2>4, StrandedNext
<1>5. ASSUME NEW t \in Threads, PostDiscard(t) PROVE PostersNotStranded'
  <2>1. UNCHANGED <<queue, stop_flag, worker>> /\ stop_flag
    BY <1>5 DEF PostDiscard
  <2>2. Waiters' = Waiters
    BY <1>1, <1>5 DEF PostDiscard, Waiters
  <2>3. pc[Controller] \in {"stop_notify_not_empty", "stop_notify_not_full"}
           => pc'[Controller] = pc[Controller]
    BY <1>1, <1>5 DEF PostDiscard
  <2> QED
    BY <2>1, <2>2, <2>3, StrandedNow, StrandedNext DEF Served
<1>6. ASSUME NEW t \in Threads, PostEnqueue(t) PROVE PostersNotStranded'
  \* One slot fewer and one poster fewer going for it.
  <2>1. /\ queue' = Append(queue, NewTask(t)) /\ ~stop_flag /\ ~stop_flag'
        /\ worker' = worker
    BY <1>6 DEF PostEnqueue
  <2>2. FreeSlots' = FreeSlots - 1 /\ Owed' = Owed
    BY <1>1, <2>1 DEF FreeSlots, Owed
  <2>3. Cardinality(Lockers') = Cardinality(Lockers) - 1
    BY <1>1, <1>6, LockerLeaves DEF PostEnqueue
  <2>4. Waiters' = Waiters
    BY <1>1, <1>6 DEF PostEnqueue, Waiters
  <2> QED
    BY <1>1, <2>1, <2>2, <2>3, <2>4, StrandedNow, StrandedNext DEF Served
<1>7. ASSUME NEW t \in Threads, PostNotify(t) PROVE PostersNotStranded'
  <2>1. /\ UNCHANGED <<queue, stop_flag>> /\ Owed' = Owed
        /\ pc' = [pc EXCEPT ![t] = "idle"] /\ pc[t] = "notify_not_empty"
    BY <1>7 DEF PostNotify, WakeWorker, Owed
  <2>2. Waiters' = Waiters /\ Lockers' = Lockers
    BY <1>1, <2>1 DEF Waiters, Lockers
  <2>3. pc[Controller] \in {"stop_notify_not_empty", "stop_notify_not_full"}
           => pc'[Controller] = pc[Controller]
    BY <1>1, <2>1
  <2> QED
    BY <2>1, <2>2, <2>3, PostersUntouched
<1>8. CASE StopSet
  BY <1>1, <1>8, StrandedNext DEF StopSet
<1>9. CASE StopSteps
  <2>1. stop_flag /\ stop_flag' = stop_flag
    <3>1. pc[Controller] \in StopPcs /\ stop_flag' = stop_flag
      BY <1>9 DEF StopSteps, StopNotifyNotEmpty, StopNotifyNotFull, StopJoin, StopPcs
    <3> QED
      BY <1>1, <3>1 DEF StopProtocol
  <2>2. CASE StopNotifyNotEmpty
    BY <1>1, <2>1, <2>2, StrandedNext DEF StopNotifyNotEmpty
  <2>3. CASE StopNotifyNotFull
    <3>1. Waiters' = {}
      BY <1>1, <2>3 DEF StopNotifyNotFull, PostersAwake, Waiters
    <3> QED
      BY <3>1, StrandedNext
  <2>4. CASE StopJoin
    <3>1. Waiters = {}
      BY <2>1, <2>4, StrandedNow DEF StopJoin, Served
    <3>2. Waiters' = {}
      BY <1>1, <2>4, <3>1 DEF StopJoin, Waiters
    <3> QED
      BY <3>2, StrandedNext
  <2> QED
    BY <1>9, <2>2, <2>3, <2>4 DEF StopSteps
<1>10. CASE WorkerPop
  \* One slot more, and one wakeup owed for it.
  <2>1. /\ queue' = Tail(queue) /\ queue # <<>> /\ UNCHANGED <<stop_flag, pc>>
        /\ worker = "top" /\ worker' = "notify_not_full"
    BY <1>10 DEF WorkerPop
  <2>2. FreeSlots' = FreeSlots + 1 /\ Owed = 0 /\ Owed' = 1
    BY <1>1, <2>1 DEF FreeSlots, Owed
  <2>3. Waiters' = Waiters /\ Lockers' = Lockers
    BY <2>1 DEF Waiters, Lockers
  <2> QED
    BY <1>1, <2>1, <2>2, <2>3, StrandedNow, StrandedNext DEF Served
<1>11. ASSUME NEW t \in Waiters, pc' = [pc EXCEPT ![t] = "locking"],
              UNCHANGED <<queue, stop_flag>>,
              \/ worker' = worker
              \/ worker = "notify_not_full" /\ worker' = "update"
       PROVE  PostersNotStranded'
  \* A poster is woken, with or without having been owed it.
  <2>1. t \in Threads /\ pc[t] = "waiting_not_full"
    BY DEF Waiters
  <2>2. Cardinality(Lockers') = Cardinality(Lockers) + 1
    BY <1>1, <1>11, <2>1, LockerArrives
  <2>3. FreeSlots' = FreeSlots /\ Owed' \in {Owed, Owed - 1}
    BY <1>11 DEF FreeSlots, Owed
  <2>4. pc[Controller] \in {"stop_notify_not_empty", "stop_notify_not_full"}
           => pc'[Controller] = pc[Controller]
    BY <1>1, <1>11, <2>1
  <2>5. Waiters # {}
    OBVIOUS
  <2> QED
    BY <1>1, <1>11, <2>2, <2>3, <2>4, <2>5, StrandedNow, StrandedNext DEF Served
<1>12. CASE WorkerNotify
  <2>1. CASE Waiters = {} /\ pc' = pc
    <3>1. Waiters' = {}
      BY <2>1 DEF Waiters
    <3> QED
      BY <3>1, StrandedNext
  <2>2. CASE \E t \in Waiters : pc' = [pc EXCEPT ![t] = "locking"]
    BY <1>11, <1>12, <2>2 DEF WorkerNotify
  <2> QED
    BY <1>12, <2>1, <2>2 DEF WorkerNotify, WakeOnePoster
<1>13. CASE SpuriousWakeup
  <2>1. CASE worker = "waiting_not_empty" /\ worker' = "top" /\ UNCHANGED <<queue, stop_flag, pc>>
    <3>1. Waiters' = Waiters /\ Lockers' = Lockers /\ Owed' = Owed
      BY <2>1 DEF Waiters, Lockers, Owed
    <3> QED
      BY <2>1, <3>1, PostersUntouched
  <2>2. CASE /\ \E t \in Waiters : pc' = [pc EXCEPT ![t] = "locking"]
             /\ UNCHANGED <<queue, stop_flag, worker>>
    <3>1. PICK t \in Waiters : pc' = [pc EXCEPT ![t] = "locking"]
      BY <2>2
    <3> QED
      BY <1>11, <2>2, <3>1
  <2> QED
    BY <1>13, <2>1, <2>2 DEF SpuriousWakeup
<1>14. CASE \/ WorkerBoot \/ WorkerWait \/ WorkerRecord \/ WorkerExit \/ WorkerTerminate
            \/ \E error \in BOOLEAN : WorkerUpdate(error)
            \/ UNCHANGED ioVars
  <2>1. /\ UNCHANGED <<queue, stop_flag, pc>>
        /\ \/ worker' = worker
           \/ worker # "notify_not_full" /\ worker' # "notify_not_full"
    BY <1>14
    DEF WorkerBoot, WorkerWait, WorkerRecord, WorkerExit, WorkerTerminate, WorkerUpdate, ioVars
  <2>2. Waiters' = Waiters /\ Lockers' = Lockers /\ Owed' = Owed
    BY <2>1 DEF Waiters, Lockers, Owed
  <2> QED
    BY <2>1, <2>2, PostersUntouched
<1> QED
  BY <1>2, <1>3, <1>4, <1>5, <1>6, <1>7, <1>8, <1>9, <1>10, <1>12, <1>13, <1>14
  DEF IONext, PostSteps, WorkerSteps, QueueSteps

\* No poster sleeps through free space or a stop, whatever the number of threads
\* that post: the worker's notify_one for each slot is enough, because a poster
\* that did not sleep has taken the slot of the one that does.
THEOREM PostersAwakeCorrect ==
    ASSUME IsFiniteSet(Threads)
    PROVE  IOSpec => []PostersNotStranded
<1>1. IOInit => PostersNotStranded
  BY DEF IOInit, PostersNotStranded, Waiters
<1>2. IOInv /\ PostersNotStranded /\ [IONext]_ioVars => PostersNotStranded'
  BY StepKeepsPostersAwake
<1> QED
  BY <1>1, <1>2, InvCorrect, PTL DEF IOSpec
=============================================================================
