------------------------- MODULE EngineSession_proofs -------------------------
(***************************************************************************)
(* Theorems about one engine handle, its writer thread and its plugins, for *)
(* every set of models, queue capacity and number of sessions: what the     *)
(* modules IOThread and Plugins keep on their own is carried over, and the  *)
(* calls of the handle are shown to use them so that each .out holds the    *)
(* snapshots of its own session.  The second part is about                  *)
(* swmm_engine_run(), a client that makes the calls of one handle in turn.  *)
(***************************************************************************)
EXTENDS EngineRun, IOThread_proofs, Plugins_proofs

\* A call of the handle is, to the writer thread, one of its own steps or none.
LEMMA SessionStepIsIO == [Next]_vars => [IONext]_ioVars
<1> SUFFICES ASSUME [Next]_vars PROVE [IONext]_ioVars
  OBVIOUS
<1> USE ConstantsAssumption
<1>1. CASE WrongState \/ Initialize \/ InitializeFails \/ FinalizeModel \/ StepComplete
  BY <1>1 DEF WrongState, Initialize, InitializeFails, FinalizeModel, StepComplete
<1>2. CASE Open
  BY <1>2 DEF Open, OpenUnreadable, OpenUnparsable, OpenMeshMissing,
      OpenInvalid, OpenModel, OpenBegin
<1>3. ASSUME NEW save \in BOOLEAN, StartNoFile(save) PROVE UNCHANGED ioVars
  BY <1>3 DEF StartNoFile
<1>4. ASSUME NEW save \in BOOLEAN, NEW fo, NEW fr, StartNotPrepared(save, fo, fr)
      PROVE  UNCHANGED ioVars
  BY <1>4 DEF StartNotPrepared
<1>5. ASSUME NEW save \in BOOLEAN, NEW fo, NEW fr, StartRun(save, fo, fr)
      PROVE  Start
  BY <1>5 DEF StartRun
<1>6. CASE StepReport
  BY <1>6 DEF StepReport, IONext
<1>7. CASE EndCall \/ CloseCall \/ DestroyCall
  BY <1>7 DEF EndCall, CloseCall, DestroyCall, StopFor, IONext
<1>8. ASSUME NEW fr, Report(fr) PROVE UNCHANGED ioVars
  BY <1>8 DEF Report
<1>9. CASE InCall
  BY <1>9 DEF InCall, IONext
<1>10. CASE Finish
  BY <1>10 DEF Finish, EndFinish, CloseFinish, DestroyFinish
<1>11. ASSUME WorkerUpdate(UpdateFails({}, {})) PROVE IONext
  <2>1. UpdateFails({}, {}) \in BOOLEAN
    BY DEF UpdateFails
  <2> QED
    BY <1>11, <2>1 DEF IONext, WorkerSteps
<1>12. CASE Writer
  BY <1>11, <1>12 DEF Writer, WriterUpdate, IONext, WorkerSteps
<1>13. CASE Wakeup
  BY <1>13 DEF Wakeup, IONext
<1>14. CASE Gone \/ UNCHANGED vars
  BY <1>14 DEF Gone, vars
<1> QED
  BY <1>1, <1>2, <1>3, <1>4, <1>5, <1>6, <1>7, <1>8, <1>9, <1>10, <1>12, <1>13, <1>14
  DEF Next, StartCall, IONext

LEMMA SessionKeepsIO == IOInv /\ [Next]_vars => IOInv'
<1> SUFFICES ASSUME IOInv, [Next]_vars PROVE IOInv'
  OBVIOUS
<1>1. [IONext]_ioVars
  BY SessionStepIsIO
<1> QED
  BY <1>1, TypeStep, StepKeepsFifo, StepKeepsStopProtocol DEF IOInv

\* The writer thread keeps its invariant under the engine's calls: nothing is
\* lost or reordered in the queue, and a joined thread has drained it.
THEOREM SessionWriterCorrect == Spec => []IOInv
<1>1. Init => IOInv
  BY InvInit DEF Init
<1> QED
  BY <1>1, SessionKeepsIO, PTL DEF Spec

-----------------------------------------------------------------------------
\* The types of the handle's own state.
HandleTypeOK ==
    /\ state \in EngineStates
    /\ call \in {"none", "end", "close", "destroy"}
    /\ deck \in Deck
    /\ plugin_specs \in Nat
    /\ errors \in BOOLEAN
    /\ iface \subseteq IfaceFiles
    /\ save_results \in BOOLEAN
    /\ end_called \in BOOLEAN
    /\ opens \in 0..MaxOpens

QuietStates == {"CREATED", "BUILDING", "OPENED", "INITIALIZED", "CLOSED"}

\* Where the writer thread can be, by what the caller is doing: it is there
\* from start() to the end of the next stop(), and stop() has been called only
\* by a call that has not returned or that left the running state.
WriterFollowsCalls ==
    /\ worker = "none" => ~running
    /\ pc[Controller] \in PostPcs => call = "none" /\ ~stop_flag
    /\ pc[Controller] \in StopPcs => call # "none"
    /\ call # "none" /\ pc[Controller] = "idle" => worker = "none"
    /\ state = "RUNNING" /\ call = "none" => ~stop_flag
    /\ call = "end" => state \in EndStates
    /\ end_called => worker = "none"
    /\ state \in QuietStates \cup {"DESTROYED"} => worker = "none"

InterfaceFilesClosed == state \in QuietStates => iface = {}

ControlInv == HandleTypeOK /\ WriterFollowsCalls /\ InterfaceFilesClosed

LEMMA ControlInit == Init => ControlInv
<1> SUFFICES ASSUME Init PROVE ControlInv
  OBVIOUS
<1>1. pc[Controller] = "idle"
  BY ConstantsAssumption DEF Init, IOInit
<1>2. HandleTypeOK
  <2>1. NoDeck \in Deck
    BY DEF NoDeck, Deck
  <2>2. MaxOpens \in Nat /\ 0 \in 0..MaxOpens
    BY SessionAssumption
  <2> QED
    BY <2>1, <2>2 DEF Init, HandleTypeOK, EngineStates
<1>3. WriterFollowsCalls /\ InterfaceFilesClosed
  BY <1>1
  DEF Init, IOInit, WriterFollowsCalls, InterfaceFilesClosed, PostPcs, StopPcs
<1> QED
  BY <1>2, <1>3 DEF ControlInv

\* A call that stops nobody and starts nobody: the writer thread stays where it is.
LEMMA HandleStep ==
    ASSUME ControlInv, IOTypeOK, UNCHANGED ioVars, UNCHANGED <<call, end_called>>,
           call = "none", pc[Controller] = "idle", HandleTypeOK',
           state' = "RUNNING" => state = "RUNNING",
           state' \in QuietStates \cup {"DESTROYED"} => worker = "none",
           state' \in QuietStates => iface' = {}
    PROVE  ControlInv'
BY DEF ControlInv, WriterFollowsCalls, InterfaceFilesClosed, ioVars, shared,
       PostPcs, StopPcs

\* The model a handle has after an open() that read d: the [2D_OPTIONS]
\* OUTPUT_FILE may be of an earlier one, the rest is d's own.
ReadOf(d, read) == read \in Deck /\ read.out = d.out /\ read.rpt = d.rpt

LEMMA OpenReads ==
    ASSUME ControlInv, NEW d \in Decks
    PROVE  ReadOf(d, Read(d)) /\ ReadOf(d, [d EXCEPT !.h5 = deck.h5])
<1>1. d \in Deck /\ deck.h5 \in BOOLEAN /\ d.h5 \in BOOLEAN
  BY SessionAssumption DEF ControlInv, HandleTypeOK, Deck
<1>2. (d.h5 \/ deck.h5) \in BOOLEAN
  OBVIOUS
<1>3. ASSUME NEW h5 \in BOOLEAN PROVE ReadOf(d, [d EXCEPT !.h5 = h5])
  BY <1>1 DEF ReadOf, Deck
<1>4. Read(d) = [d EXCEPT !.h5 = d.h5 \/ deck.h5]
  BY <1>1 DEF Read, Deck
<1> QED
  BY <1>1, <1>2, <1>3, <1>4

LEMMA OpenStep ==
    ASSUME ControlInv, IOTypeOK, Open
    PROVE  ControlInv'
<1>1. PICK d \in Decks : \/ OpenUnreadable(d) \/ OpenUnparsable(d)
                         \/ \E ok \in BOOLEAN : OpenMeshMissing(d, ok) \/ OpenInvalid(d, ok)
                         \/ \E invalid, ok \in BOOLEAN : OpenModel(d, invalid, ok)
  BY DEF Open
<1>2. PICK read \in {Read(d), [d EXCEPT !.h5 = deck.h5]} :
          /\ OpenBegin(read) /\ state' \in {"CREATED", "OPENED", "ERROR_STATE"}
          /\ errors' \in BOOLEAN /\ plugin_specs' \in {plugin_specs, SpecsAfter(d)}
  BY <1>1
  DEF OpenUnreadable, OpenUnparsable, OpenMeshMissing, OpenInvalid, OpenModel
<1>3. read \in Deck /\ SpecsAfter(d) \in Nat
  <2>1. read \in Deck
    BY <1>2, OpenReads DEF ReadOf
  <2> QED
    BY <2>1, SessionAssumption DEF SpecsAfter, ControlInv, HandleTypeOK, Deck
<1>4. HandleTypeOK'
  BY <1>2, <1>3, SessionAssumption
  DEF ControlInv, HandleTypeOK, EngineStates, OpenBegin
<1> QED
  BY <1>2, <1>4, HandleStep
  DEF OpenBegin, Idle, OpenStates, ControlInv, WriterFollowsCalls,
      InterfaceFilesClosed, QuietStates

LEMMA StartStep ==
    ASSUME ControlInv, IOTypeOK, StartCall
    PROVE  ControlInv'
<1>1. PICK save \in BOOLEAN :
          \/ StartNoFile(save)
          \/ \E fo \in OutputSets, fr \in ReportSets :
                StartNotPrepared(save, fo, fr) \/ StartRun(save, fo, fr)
  BY DEF StartCall
<1>2. deck \in Deck /\ deck.files \subseteq IfaceFiles
  BY DEF ControlInv, HandleTypeOK, Deck
<1>3. CASE StartNoFile(save)
  <2>1. iface' \subseteq IfaceFiles
    BY <1>2, <1>3 DEF StartNoFile, OpenedBefore
  <2>2. HandleTypeOK'
    BY <1>3, <2>1 DEF StartNoFile, ControlInv, HandleTypeOK, EngineStates
  <2> QED
    BY <1>3, <2>2, HandleStep DEF StartNoFile, Idle, QuietStates
<1>4. ASSUME NEW fo, NEW fr, StartNotPrepared(save, fo, fr)
      PROVE  ControlInv'
  <2>1. HandleTypeOK'
    BY <1>2, <1>4 DEF StartNotPrepared, ControlInv, HandleTypeOK, EngineStates
  <2> QED
    BY <1>4, <2>1, HandleStep DEF StartNotPrepared, Idle, QuietStates
<1>5. ASSUME NEW fo, NEW fr, StartRun(save, fo, fr)
      PROVE  ControlInv'
  <2>1. HandleTypeOK'
    BY <1>2, <1>5 DEF StartRun, ControlInv, HandleTypeOK, EngineStates
  <2>2. Start /\ call = "none" /\ call' = "none" /\ state' = "RUNNING" /\ ~end_called'
    BY <1>5 DEF StartRun, Idle
  <2>3. WriterFollowsCalls' /\ InterfaceFilesClosed'
    BY <2>2 DEF Start, StopFlagOnStart, WriterFollowsCalls, InterfaceFilesClosed,
                PostPcs, StopPcs, EndStates, QuietStates
  <2> QED
    BY <2>1, <2>3 DEF ControlInv
<1> QED
  BY <1>1, <1>3, <1>4, <1>5

\* stop() has returned: the writer thread is gone.
LEMMA FinishStep ==
    ASSUME ControlInv, IOTypeOK, Finish
    PROVE  ControlInv'
<1>1. /\ worker = "none" /\ pc[Controller] = "idle" /\ UNCHANGED ioVars
      /\ call' = "none" /\ state' \in {"ENDED", "CLOSED", "DESTROYED"}
  BY DEF Finish, EndFinish, CloseFinish, DestroyFinish, Stopped, ControlInv,
         WriterFollowsCalls
<1>2. HandleTypeOK'
  BY DEF Finish, EndFinish, CloseFinish, DestroyFinish, IfaceAfterClose,
         ControlInv, HandleTypeOK, EngineStates
<1>3. InterfaceFilesClosed'
  BY DEF Finish, EndFinish, CloseFinish, DestroyFinish, IfaceAfterClose,
         InterfaceFilesClosed, QuietStates
<1>4. WriterFollowsCalls'
  BY <1>1 DEF ControlInv, WriterFollowsCalls, ioVars, shared, PostPcs, StopPcs
<1> QED
  BY <1>2, <1>3, <1>4 DEF ControlInv

\* A step of the writer thread, or of the caller inside post() or stop().
LEMMA ThreadStep ==
    ASSUME ControlInv, IOInv, InCall \/ Writer \/ Wakeup
    PROVE  ControlInv'
<1> USE ConstantsAssumption
<1>1. UNCHANGED sessionVars
  BY DEF InCall, Writer, WriterUpdate, Wakeup
<1>2. HandleTypeOK' /\ InterfaceFilesClosed'
  BY <1>1 DEF ControlInv, HandleTypeOK, InterfaceFilesClosed, sessionVars
<1>3. pc \in [Threads -> {"idle"} \cup PostPcs \cup StopPcs]
  BY DEF IOInv, IOTypeOK
<1>4. WriterFollowsCalls
  BY DEF ControlInv
<1> SUFFICES WriterFollowsCalls'
  BY <1>2 DEF ControlInv
<1> USE <1>1, <1>3, <1>4 DEF WriterFollowsCalls, PostPcs, StopPcs, sessionVars, shared
<1>5. CASE PostSteps(Controller)
  <2>1. CASE PostWait(Controller) \/ PostDiscard(Controller)
    BY <2>1 DEF PostWait, PostDiscard
  <2>2. CASE PostEnqueue(Controller)
    BY <2>2 DEF PostEnqueue
  <2>3. CASE PostNotify(Controller)
    BY <2>3 DEF PostNotify, WakeWorker
  <2> QED
    BY <1>5, <2>1, <2>2, <2>3 DEF PostSteps
<1>6. CASE StopSteps
  BY <1>6
  DEF StopSteps, StopNotifyNotEmpty, StopNotifyNotFull, StopJoin, WakeWorker,
      PostersAwake
<1>7. CASE QueueSteps
  <2>1. CASE WorkerNotify
    <3>1. worker = "notify_not_full" /\ worker' = "update" /\ UNCHANGED shared
      BY <2>1 DEF WorkerNotify
    <3>2. pc'[Controller] = pc[Controller]
          \/ (pc[Controller] = "waiting_not_full" /\ pc'[Controller] = "locking")
      BY <2>1 DEF WorkerNotify, WakeOnePoster, Waiters
    <3> QED
      BY <3>1, <3>2
  <2>2. CASE WorkerBoot \/ WorkerWait \/ WorkerPop \/ WorkerRecord \/ WorkerExit
             \/ WorkerTerminate
    BY <2>2
    DEF WorkerBoot, WorkerWait, WorkerPop, WorkerRecord, WorkerExit, WorkerTerminate
  <2> QED
    BY <1>7, <2>1, <2>2 DEF QueueSteps
<1>8. CASE WriterUpdate
  BY <1>8 DEF WriterUpdate, WorkerUpdate
<1>9. CASE Wakeup
  BY <1>9 DEF Wakeup, SpuriousWakeup, Waiters
<1> QED
  BY <1>5, <1>6, <1>7, <1>8, <1>9 DEF InCall, Writer

LEMMA ControlStep == IOInv /\ ControlInv /\ [Next]_vars => ControlInv'
<1> SUFFICES ASSUME IOInv, ControlInv, [Next]_vars PROVE ControlInv'
  OBVIOUS
<1>1. IOTypeOK
  BY DEF IOInv
<1>2. CASE WrongState
  BY <1>1, <1>2, HandleStep
  DEF WrongState, Idle, ControlInv, HandleTypeOK, EngineStates, QuietStates
<1>3. CASE Open
  BY <1>1, <1>3, OpenStep
<1>4. CASE Initialize \/ InitializeFails
  BY <1>1, <1>4, HandleStep
  DEF Initialize, InitializeFails, Idle, InitializeStates, ControlInv, HandleTypeOK,
      WriterFollowsCalls, InterfaceFilesClosed, EngineStates, QuietStates
<1>5. CASE FinalizeModel
  <2>1. errors' \in BOOLEAN /\ state' \in {"INITIALIZED", "ERROR_STATE"}
    BY <1>5 DEF FinalizeModel
  <2> QED
    BY <1>1, <1>5, <2>1, HandleStep
    DEF FinalizeModel, Idle, ControlInv, HandleTypeOK,
        WriterFollowsCalls, InterfaceFilesClosed, EngineStates, QuietStates
<1>6. CASE StartCall
  BY <1>1, <1>6, StartStep
<1>7. CASE StepReport
  BY <1>1, <1>7, ConstantsAssumption
  DEF StepReport, Idle, StepStates, PostCall, ControlInv, HandleTypeOK, WriterFollowsCalls,
      InterfaceFilesClosed, IOTypeOK, PostPcs, StopPcs, sessionVars, shared
<1>8. CASE StepComplete
  BY <1>1, <1>8, HandleStep
  DEF StepComplete, Idle, ControlInv, HandleTypeOK, EngineStates, QuietStates
<1>9. CASE EndCall \/ CloseCall \/ DestroyCall
  BY <1>1, <1>9, ConstantsAssumption
  DEF EndCall, CloseCall, DestroyCall, StopFor, StopSet, Idle, ControlInv, HandleTypeOK,
      WriterFollowsCalls, InterfaceFilesClosed, IOTypeOK, PostPcs, StopPcs, EndStates
<1>10. ASSUME NEW fr, Report(fr) PROVE ControlInv'
  BY <1>1, <1>10, HandleStep
  DEF Report, Idle, ControlInv, HandleTypeOK, EngineStates, QuietStates
<1>11. CASE InCall \/ Writer \/ Wakeup
  BY <1>11, ThreadStep
<1>12. CASE Finish
  BY <1>1, <1>12, FinishStep
<1>13. CASE Gone \/ UNCHANGED vars
  BY <1>13
  DEF Gone, vars, sessionVars, ioVars, shared, ControlInv, HandleTypeOK,
      WriterFollowsCalls, InterfaceFilesClosed
<1> QED
  BY <1>2, <1>3, <1>4, <1>5, <1>6, <1>7, <1>8, <1>9, <1>10, <1>11, <1>12, <1>13
  DEF Next

\* A session begins with no writer thread and no interface file of an earlier
\* one, whatever calls came before: the precondition of IOThread::start().
THEOREM FreshStartCorrect == Spec => []NothingFromBefore
<1>1. Init => IOInv /\ ControlInv
  BY InvInit, ControlInit DEF Init
<1>2. (IOInv /\ ControlInv) /\ [Next]_vars => (IOInv /\ ControlInv)'
  BY SessionKeepsIO, ControlStep
<1>3. ControlInv => NothingFromBefore
  BY DEF ControlInv, WriterFollowsCalls, InterfaceFilesClosed, QuietStates, NothingFromBefore
<1> QED
  BY <1>1, <1>2, <1>3, PTL DEF Spec

-----------------------------------------------------------------------------
\* While a simulation runs no call of post() finds the writer stopped.
LEMMA DiscardStep ==
    ASSUME IOInv, ControlInv, [Next]_vars, NoSnapshotDiscarded
    PROVE  NoSnapshotDiscarded'
<1> USE ConstantsAssumption
<1>1. /\ pc \in [Threads -> {"idle"} \cup PostPcs \cup StopPcs]
      /\ posts \in [Threads -> 0..MaxPosts] /\ accepted \in Seq(WriteTask)
      /\ Controller \in Threads
  BY DEF IOInv, IOTypeOK
<1>2. pc[Controller] \in PostPcs => ~stop_flag
  BY DEF ControlInv, WriterFollowsCalls
<1>3. [IONext]_ioVars
  BY SessionStepIsIO
<1>4. Threads = {Controller}
  BY SessionAssumption
<1> USE <1>1, <1>2 DEF NoSnapshotDiscarded, PostPcs, StopPcs
<1>5. CASE PostCall(Controller)
  BY <1>5 DEF PostCall, history
<1>6. CASE PostWait(Controller)
  BY <1>6 DEF PostWait, history
<1>7. CASE PostDiscard(Controller)
  BY <1>7 DEF PostDiscard
<1>8. CASE PostEnqueue(Controller)
  <2>1. Len(accepted') = Len(accepted) + 1
    BY <1>8 DEF PostEnqueue
  <2> QED
    BY <1>8, <2>1 DEF PostEnqueue
<1>9. CASE PostNotify(Controller)
  BY <1>9 DEF PostNotify, history
<1>10. CASE StopSet
  BY <1>10 DEF StopSet, history
<1>11. CASE StopSteps
  BY <1>11 DEF StopSteps, StopNotifyNotEmpty, StopNotifyNotFull, StopJoin, PostersAwake, history
<1>12. CASE QueueSteps
  BY <1>12
  DEF QueueSteps, WorkerBoot, WorkerWait, WorkerPop, WorkerNotify, WorkerRecord,
      WorkerExit, WorkerTerminate, WakeOnePoster, Waiters, history
<1>13. CASE \E error \in BOOLEAN : WorkerUpdate(error)
  BY <1>13 DEF WorkerUpdate
<1>14. CASE SpuriousWakeup
  BY <1>14 DEF SpuriousWakeup, Waiters, history
<1>15. CASE Start \/ UNCHANGED ioVars
  BY <1>15 DEF Start, ioVars, history
<1> QED
  BY <1>3, <1>4, <1>5, <1>6, <1>7, <1>8, <1>9, <1>10, <1>11, <1>12, <1>13, <1>14, <1>15
  DEF IONext, PostSteps, WorkerSteps

\* No snapshot a step handed to IOThread::post() is dropped, in the first
\* session of the handle or a later one.
THEOREM DiscardCorrect == Spec => []NoSnapshotDiscarded
<1>1. Init => IOInv /\ ControlInv /\ NoSnapshotDiscarded
  <2>1. Init => NoSnapshotDiscarded
    BY ConstantsAssumption DEF Init, IOInit, NoSnapshotDiscarded
  <2> QED
    BY <2>1, InvInit, ControlInit DEF Init
<1>2. (IOInv /\ ControlInv /\ NoSnapshotDiscarded) /\ [Next]_vars
          => (IOInv /\ ControlInv /\ NoSnapshotDiscarded)'
  BY SessionKeepsIO, ControlStep, DiscardStep
<1> QED
  BY <1>1, <1>2, PTL DEF Spec

-----------------------------------------------------------------------------
LEMMA OwnerStep ==
    ASSUME ReportsAfterEnd, IOInv, ControlInv, [Next]_vars
    PROVE  UNCHANGED pluginVars \/ delivered' # delivered \/ worker = "none"
<1>1. CASE Open
  BY <1>1
  DEF Open, OpenUnreadable, OpenUnparsable, OpenMeshMissing,
      OpenInvalid, OpenModel, OpenBegin,
      OpenStates, ControlInv, WriterFollowsCalls, QuietStates
<1>2. CASE StartCall
  BY <1>2
  DEF StartCall, StartNoFile, StartNotPrepared, StartRun, StartStates,
      ControlInv, WriterFollowsCalls, QuietStates
<1>3. CASE Finish
  BY <1>3
  DEF Finish, EndFinish, CloseFinish, DestroyFinish, Stopped, ControlInv, WriterFollowsCalls
<1>4. ASSUME NEW fr, Report(fr) PROVE worker = "none"
  BY <1>4 DEF Report, ControlInv, WriterFollowsCalls
<1>5. CASE WriterUpdate
  <2>1. delivered' = Append(delivered, task[1])
    BY <1>5 DEF WriterUpdate, WorkerUpdate
  <2>2. delivered \in Seq(WriteTask)
    BY DEF IOInv, IOTypeOK
  <2>3. Len(delivered') # Len(delivered)
    BY <2>1, <2>2
  <2> QED
    BY <2>3
<1>6. CASE UNCHANGED pluginVars
  BY <1>6
<1> QED
  BY <1>1, <1>2, <1>3, <1>4, <1>5, <1>6
  DEF Next, WrongState, Initialize, InitializeFails, FinalizeModel, StepReport,
      StepComplete, EndCall, CloseCall, DestroyCall, StopFor, InCall, Writer, Wakeup,
      Gone, vars

\* If the caller reports only after end(), its thread and the writer thread
\* never use the plugins at the same time (IOutputPlugin.hpp, threading model).
THEOREM OneOwnerCorrect ==
    ASSUME ReportsAfterEnd
    PROVE  Spec => PluginsHaveOneOwner
<1>1. Init => IOInv /\ ControlInv
  BY InvInit, ControlInit DEF Init
<1>2. (IOInv /\ ControlInv) /\ [Next]_vars => (IOInv /\ ControlInv)'
  BY SessionKeepsIO, ControlStep
<1>3. (IOInv /\ ControlInv) /\ [Next]_vars
          => [UNCHANGED pluginVars \/ delivered' # delivered \/ worker = "none"]_vars
  BY OwnerStep
<1> QED
  BY <1>1, <1>2, <1>3, PTL DEF Spec, PluginsHaveOneOwner

-----------------------------------------------------------------------------
\* The plugins a model is opened with: none is left from another model, and
\* none writes its file before start(). Only an .out path makes the built-in one,
\* and of the others start() can fail to prepare only the one for the surface.
PluginsFollowStates ==
    /\ state \in {"CREATED", "BUILDING", "CLOSED", "DESTROYED"} =>
          output_plugins = <<>> /\ report_plugins = <<>>
    /\ state \in {"OPENED", "INITIALIZED"} =>
          /\ \A i \in DOMAIN output_plugins :
                /\ ~output_plugins[i].open
                /\ output_plugins[i].builtin => deck.out
                /\ output_plugins[i].state = "VALIDATED" =>
                      output_plugins[i].builtin \/ deck.h5
          /\ \A i \in DOMAIN report_plugins :
                report_plugins[i].state = "VALIDATED" => report_plugins[i].builtin

PluginsKept == FilesInv /\ PluginsFollowStates

LEMMA PluginsInit == Init => PluginsKept
<1> SUFFICES ASSUME Init PROVE PluginsKept
  OBVIOUS
<1>1. PluginInit /\ output_plugins = <<>> /\ report_plugins = <<>>
  BY DEF Init, PluginInit
<1>2. FilesInv
  BY <1>1
  DEF PluginInit, FilesInv, PluginTypeOK, StreamsFollowStates, FooterCountsPeriods,
      ReportEndsOnce, RptOpen, AtMostOneBuiltin, NoFile
<1> QED
  BY <1>1, <1>2 DEF PluginsKept, PluginsFollowStates, Init

LEMMA FilesUntouched ==
    ASSUME FilesInv, UNCHANGED pluginVars
    PROVE  FilesInv'
BY DEF FilesInv, pluginVars, PluginTypeOK, StreamsFollowStates, FooterCountsPeriods,
       ReportEndsOnce, RptOpen, AtMostOneBuiltin

\* The report of a failed open() is that of a plugin which is gone when open()
\* returns.
LEMMA FailureReportKeeps ==
    ASSUME FilesInv, output_plugins = <<>>, report_plugins = <<>>,
           input_plugins' \in Nat,
           rpt_file' \in {rpt_file, <<"preamble", "interrupted">>},
           UNCHANGED <<output_plugins, report_plugins, out_file, leaked>>
    PROVE  FilesInv'
<1>1. <<"preamble", "interrupted">> \in Seq({"preamble", "results", "interrupted"})
  OBVIOUS
<1>2. DOMAIN output_plugins = {} /\ DOMAIN report_plugins = {}
  OBVIOUS
<1>3. ReportEndsOnce'
  BY <1>2 DEF FilesInv, ReportEndsOnce, RptOpen
<1> QED
  BY <1>1, <1>3
  DEF FilesInv, PluginTypeOK, StreamsFollowStates, FooterCountsPeriods, AtMostOneBuiltin

LEMMA OpenKeepsPlugins ==
    ASSUME ControlInv, PluginsKept, Open
    PROVE  PluginsKept' /\ \A i \in DOMAIN output_plugins' : ~output_plugins'[i].open
<1>1. PICK d \in Decks : \/ OpenUnreadable(d) \/ OpenUnparsable(d)
                         \/ \E ok \in BOOLEAN : OpenMeshMissing(d, ok) \/ OpenInvalid(d, ok)
                         \/ \E invalid, ok \in BOOLEAN : OpenModel(d, invalid, ok)
  BY DEF Open
<1>2. \E read : OpenBegin(read)
  BY <1>1
  DEF OpenUnreadable, OpenUnparsable, OpenMeshMissing, OpenInvalid, OpenModel
<1>3. /\ output_plugins = <<>> /\ report_plugins = <<>> /\ FilesInv
      /\ input_plugins' = 1 /\ UNCHANGED <<out_file, leaked>>
  BY <1>2 DEF OpenBegin, OpenStates, PluginsKept, PluginsFollowStates
<1>4. ASSUME NEW ok \in BOOLEAN, OpenFailureReport(d, ok)
      PROVE  rpt_file' \in {rpt_file, <<"preamble", "interrupted">>}
  BY <1>4 DEF OpenFailureReport
<1>5. CASE \/ OpenUnreadable(d) \/ OpenUnparsable(d)
           \/ \E ok \in BOOLEAN : OpenMeshMissing(d, ok) \/ OpenInvalid(d, ok)
  <2>1. /\ UNCHANGED <<output_plugins, report_plugins>>
        /\ rpt_file' \in {rpt_file, <<"preamble", "interrupted">>}
        /\ state' \in {"CREATED", "ERROR_STATE"}
    BY <1>4, <1>5 DEF OpenUnreadable, OpenUnparsable, OpenMeshMissing, OpenInvalid
  <2>2. FilesInv'
    BY <1>3, <2>1, FailureReportKeeps
  <2> QED
    BY <1>3, <2>1, <2>2 DEF PluginsKept, PluginsFollowStates
<1>6. ASSUME NEW invalid \in BOOLEAN, NEW ok \in BOOLEAN, OpenModel(d, invalid, ok)
      PROVE  PluginsKept' /\ \A i \in DOMAIN output_plugins' : ~output_plugins'[i].open
  <2> DEFINE h5 == Read(d).h5
  <2>1. /\ AddPlugins(SpecsAfter(d), d.out, d.rpt, h5) /\ state' = "OPENED"
        /\ rpt_file' \in {rpt_file, <<"preamble", "interrupted">>}
        /\ deck' = Read(d)
    BY <1>4, <1>6 DEF OpenModel, OpenBegin
  <2>2. /\ SpecsAfter(d) \in Nat /\ d.out \in BOOLEAN /\ d.rpt \in BOOLEAN
        /\ h5 \in BOOLEAN /\ deck'.out = d.out /\ deck'.h5 = h5
    <3>1. ReadOf(d, Read(d))
      BY OpenReads
    <3>2. d \in Deck /\ plugin_specs \in Nat
      BY SessionAssumption DEF ControlInv, HandleTypeOK
    <3> QED
      BY <2>1, <3>1, <3>2 DEF ReadOf, SpecsAfter, Deck
  <2> HIDE DEF h5
  <2>3. /\ FilesInv'
        /\ \A i \in DOMAIN output_plugins' :
              /\ ~output_plugins'[i].open
              /\ output_plugins'[i].builtin => d.out
              /\ output_plugins'[i].state = "VALIDATED" => output_plugins'[i].builtin \/ h5
        /\ \A i \in DOMAIN report_plugins' :
              report_plugins'[i].state = "VALIDATED" => report_plugins'[i].builtin
    BY <1>3, <2>1, <2>2, AddKeeps
  <2> QED
    BY <2>1, <2>2, <2>3 DEF PluginsKept, PluginsFollowStates
<1> QED
  BY <1>1, <1>5, <1>6

LEMMA WriterUpdateKeeps ==
    ASSUME IOInv, ControlInv, PluginsKept, WriterUpdate
    PROVE  PluginsKept'
<1>1. WorkerUpdate(UpdateFails({}, {})) /\ UpdateAll(task[1].snapshot, {}, {})
  BY DEF WriterUpdate
<1>2. worker = "update" /\ UNCHANGED sessionVars
  BY DEF WriterUpdate
<1>3. task[1].snapshot \in PeriodData
  <2>1. Len(task) = 1 /\ task \in Seq(WriteTask)
    BY <1>2 DEF IOInv, IOTypeOK
  <2>2. task[1] \in WriteTask
    BY <2>1, ElementOfSeq
  <2> QED
    BY <2>2, SessionAssumption DEF WriteTask
<1>4. FilesInv'
  BY <1>1, <1>3, UpdateKeeps DEF PluginsKept
<1>5. state' = state /\ state \notin QuietStates \cup {"DESTROYED"}
  BY <1>2 DEF sessionVars, ControlInv, WriterFollowsCalls
<1> QED
  BY <1>4, <1>5 DEF PluginsKept, PluginsFollowStates, QuietStates

LEMMA PluginsStep == IOInv /\ ControlInv /\ PluginsKept /\ [Next]_vars => PluginsKept'
<1> SUFFICES ASSUME IOInv, ControlInv, PluginsKept, [Next]_vars PROVE PluginsKept'
  OBVIOUS
<1>1. FilesInv
  BY DEF PluginsKept
<1>2. ASSUME UNCHANGED pluginVars, UNCHANGED deck,
             state' \in {state, "ERROR_STATE", "ENDED"}
                \/ (state' = "INITIALIZED" /\ state \in {"OPENED", "INITIALIZED", "BUILDING"})
      PROVE  PluginsKept'
  BY <1>1, <1>2, FilesUntouched DEF PluginsKept, PluginsFollowStates, pluginVars
<1>3. CASE Open
  BY <1>3, OpenKeepsPlugins
<1>4. CASE WrongState \/ Initialize \/ InitializeFails \/ FinalizeModel \/ StepReport
           \/ StepComplete
  <2>1. UNCHANGED <<pluginVars, deck>>
    BY <1>4
    DEF WrongState, Initialize, InitializeFails, FinalizeModel, StepReport, StepComplete,
        sessionVars
  <2>2. state' \in {state, "ERROR_STATE", "ENDED"}
           \/ (state' = "INITIALIZED" /\ state \in {"OPENED", "INITIALIZED", "BUILDING"})
    BY <1>4
    DEF WrongState, Initialize, InitializeFails, FinalizeModel, StepReport, StepComplete,
        sessionVars, InitializeStates
  <2> QED
    BY <1>2, <2>1, <2>2
<1>5. ASSUME NEW save \in BOOLEAN, StartNoFile(save) PROVE PluginsKept'
  BY <1>2, <1>5 DEF StartNoFile
<1>6. ASSUME NEW save \in BOOLEAN, NEW fo, NEW fr, StartNotPrepared(save, fo, fr)
      PROVE  PluginsKept'
  <2>1. PrepareAll(fo, fr) /\ state' = "ERROR_STATE"
    BY <1>6 DEF StartNotPrepared
  <2>2. FilesInv'
    BY <1>1, <2>1, PrepareKeeps
  <2> QED
    BY <2>1, <2>2 DEF PluginsKept, PluginsFollowStates
<1>7. ASSUME NEW save \in BOOLEAN, NEW fo, NEW fr, StartRun(save, fo, fr)
      PROVE  PluginsKept'
  <2>1. PrepareAll(fo, fr) /\ state' = "RUNNING"
    BY <1>7 DEF StartRun
  <2>2. FilesInv'
    BY <1>1, <2>1, PrepareKeeps
  <2> QED
    BY <2>1, <2>2 DEF PluginsKept, PluginsFollowStates
<1>8. CASE \/ EndCall \/ CloseCall \/ DestroyCall \/ InCall \/ Wakeup
           \/ UNCHANGED <<pluginVars, sessionVars>>
           \/ Gone \/ UNCHANGED vars
  BY <1>2, <1>8
  DEF EndCall, CloseCall, DestroyCall, StopFor, InCall, Wakeup, Gone, vars, sessionVars
<1>9. ASSUME NEW fr, Report(fr) PROVE PluginsKept'
  <2>1. WriteSummaryAll(fr) /\ state' = "REPORTED"
    BY <1>9 DEF Report
  <2>2. FilesInv'
    BY <1>1, <2>1, WriteSummaryKeeps
  <2> QED
    BY <2>1, <2>2 DEF PluginsKept, PluginsFollowStates
<1>10. CASE WriterUpdate
  BY <1>10, WriterUpdateKeeps
<1>11. CASE EndFinish
  <2>1. /\ \E fo, fr : FinalizeAll(fo, fr)
        /\ state' = "ENDED"
    BY <1>11 DEF EndFinish
  <2>2. FilesInv'
    BY <1>1, <2>1, FinalizeKeeps
  <2> QED
    BY <2>1, <2>2 DEF PluginsKept, PluginsFollowStates
<1>12. CASE CloseFinish \/ DestroyFinish
  <2>1. UnloadAll /\ state' \in {"CLOSED", "DESTROYED"}
    BY <1>12 DEF CloseFinish, DestroyFinish
  <2>2. FilesInv'
    BY <1>1, <2>1, UnloadKeeps
  <2>3. output_plugins' = <<>> /\ report_plugins' = <<>>
    BY <2>1 DEF UnloadAll, RemainingOutputs
  <2> QED
    BY <2>1, <2>2, <2>3 DEF PluginsKept, PluginsFollowStates
<1>13. CASE StartCall
  BY <1>5, <1>6, <1>7, <1>13 DEF StartCall
<1>14. CASE Writer \/ Finish
  BY <1>8, <1>10, <1>11, <1>12, <1>14 DEF Writer, Finish
<1> QED
  BY <1>3, <1>4, <1>8, <1>9, <1>13, <1>14 DEF Next

\* The types of the handle and of its plugins, however models are opened and
\* closed.
THEOREM SessionTypeCorrect == Spec => []SessionTypeOK
<1> DEFINE BaseOK == base \in 0..Len(accepted)
           TypeInv == IOInv /\ ControlInv /\ PluginsKept /\ BaseOK
<1>1. Init => TypeInv
  <2>1. Init => BaseOK
    BY DEF Init, IOInit
  <2> QED
    BY <2>1, InvInit, ControlInit, PluginsInit DEF Init
<1>2. TypeInv /\ [Next]_vars => TypeInv'
  <2> SUFFICES ASSUME TypeInv, [Next]_vars PROVE BaseOK'
    BY SessionKeepsIO, ControlStep, PluginsStep
  <2>1. accepted \in Seq(WriteTask) /\ accepted' \in Seq(WriteTask)
    BY SessionKeepsIO DEF IOInv, IOTypeOK
  <2>2. base' \in {base, Len(accepted)}
    BY DEF Next, WrongState, Open, OpenUnreadable, OpenUnparsable, OpenMeshMissing,
      OpenInvalid, OpenModel,
           OpenBegin, Initialize, InitializeFails, FinalizeModel, StartCall, StartNoFile,
           StartNotPrepared, StartRun, StepReport, StepComplete, EndCall, CloseCall,
           DestroyCall, StopFor, Report, InCall, Finish, EndFinish, CloseFinish,
           DestroyFinish, Writer, WriterUpdate, Wakeup, Gone, vars, sessionVars
  <2>3. accepted' = accepted \/ \E t \in Threads : PostEnqueue(t)
    <3>1. [IONext]_ioVars
      BY SessionStepIsIO
    <3> QED
      BY <3>1
      DEF IONext, Start, PostCall, PostSteps, PostWait, PostDiscard, PostNotify, StopSet,
          StopSteps, StopNotifyNotEmpty, StopNotifyNotFull, StopJoin, WorkerSteps,
          QueueSteps, WorkerBoot, WorkerWait, WorkerPop, WorkerNotify, WorkerUpdate,
          WorkerRecord, WorkerExit, WorkerTerminate, SpuriousWakeup, ioVars, history
  <2>4. Len(accepted') >= Len(accepted)
    BY <2>1, <2>3 DEF PostEnqueue
  <2> QED
    BY <2>1, <2>2, <2>4
<1>3. TypeInv => SessionTypeOK
  BY DEF ControlInv, HandleTypeOK, PluginsKept, FilesInv, SessionTypeOK
<1> QED
  BY <1>1, <1>2, <1>3, PTL DEF Spec

-----------------------------------------------------------------------------
\* The tasks after the b-th, with one more delivered.
LEMMA LaterTasks ==
    ASSUME NEW S, NEW s \in Seq(S), NEW e \in S, NEW b \in 0..Len(s)
    PROVE  /\ SubSeq(s, b + 1, Len(s)) \in Seq(S)
           /\ SubSeq(Append(s, e), b + 1, Len(Append(s, e))) =
                  Append(SubSeq(s, b + 1, Len(s)), e)
<1> DEFINE t == Append(s, e)
           old == SubSeq(s, b + 1, Len(s))
           new == SubSeq(t, b + 1, Len(t))
<1>1. /\ t \in Seq(S) /\ Len(t) = Len(s) + 1 /\ t[Len(s) + 1] = e
      /\ \A i \in 1..Len(s) : t[i] = s[i]
  BY AppendProperties
<1> HIDE DEF t
<1>2. /\ old \in Seq(S) /\ Len(old) = Len(s) - b
      /\ \A i \in 1..Len(s) - b : old[i] = s[b + i]
  <2>1. \A i \in b + 1..Len(s) : s[i] \in S
    BY ElementOfSeq
  <2> QED
    BY <2>1, SubSeqProperties
<1>3. /\ new \in Seq(S) /\ Len(new) = Len(s) + 1 - b
      /\ \A i \in 1..Len(s) + 1 - b : new[i] = t[b + i]
  <2>1. \A i \in b + 1..Len(t) : t[i] \in S
    BY <1>1, ElementOfSeq
  <2> QED
    BY <1>1, <2>1, SubSeqProperties
<1> HIDE DEF old, new
<1>4. /\ Append(old, e) \in Seq(S) /\ Len(Append(old, e)) = Len(s) + 1 - b
      /\ \A i \in 1..Len(s) - b : Append(old, e)[i] = s[b + i]
      /\ Append(old, e)[Len(s) + 1 - b] = e
  BY <1>2, AppendProperties
<1>5. \A i \in 1..Len(new) : new[i] = Append(old, e)[i]
  BY <1>1, <1>3, <1>4
<1>6. new = Append(old, e)
  BY <1>3, <1>4, <1>5, SeqEqual
<1> QED
  BY <1>2, <1>6 DEF t, old, new

\* What the .out holds, and that the session's part of the history is there.
OutInv == base \in 0..Len(delivered) /\ OutFileIsThisSession

\* Steps that neither deliver nor open a file.
LEMMA OutUntouched ==
    ASSUME OutInv, UNCHANGED <<base, delivered>>,
           OutOpen' => OutOpen /\ out_file'.periods = out_file.periods
    PROVE  OutInv'
BY DEF OutInv, OutFileIsThisSession

\* start(): the .out is new, and everything queued before has been delivered.
LEMMA StartKeepsOut ==
    ASSUME IOInv, ControlInv, PluginsKept, OutInv, NEW save \in BOOLEAN,
           NEW fo, NEW fr, StartRun(save, fo, fr) \/ StartNotPrepared(save, fo, fr)
    PROVE  OutInv'
<1>1. /\ state = "INITIALIZED" /\ worker = "none" /\ PrepareAll(fo, fr)
      /\ base' = (IF deck.out THEN Len(accepted) ELSE base)
      /\ delivered' = delivered
  BY DEF StartRun, StartNotPrepared, StartStates, Start, history, ioVars, ControlInv,
         WriterFollowsCalls, QuietStates
<1>2. delivered = accepted /\ delivered \in Seq(WriteTask)
  BY <1>1, InvDrained DEF NothingUnwrittenAfterExit, IOInv, IOTypeOK
<1>3. base' \in 0..Len(delivered')
  BY <1>1, <1>2 DEF OutInv
<1>4. ASSUME OutOpen' PROVE deck.out /\ out_file' = PreparedFile
  <2>1. /\ output_plugins' = [i \in DOMAIN output_plugins |-> output_plugins'[i]]
        /\ \A i \in DOMAIN output_plugins :
              output_plugins'[i] = PrepareOutput(output_plugins[i], i \in fo)
    BY <1>1 DEF PrepareAll, Each
  <2>2. DOMAIN output_plugins' = DOMAIN output_plugins
    BY <2>1
  <2>3. PICK i \in DOMAIN output_plugins : output_plugins'[i].open
    BY <1>4, <2>2 DEF OutOpen
  <2>4. output_plugins[i] \in OutputPlugin /\ ~output_plugins[i].open
    BY <1>1 DEF PluginsKept, PluginsFollowStates, FilesInv, PluginTypeOK
  <2>5. output_plugins[i].state = "VALIDATED" /\ i \notin fo
    BY <2>1, <2>3, <2>4 DEF PrepareOutput, Failed, OutputPlugin
  <2>6. output_plugins'[i] = [output_plugins[i] EXCEPT !.state = "PREPARED",
                                !.open = output_plugins[i].builtin, !.n_periods = 0]
    BY <2>1, <2>5 DEF PrepareOutput
  <2>7. output_plugins[i].builtin
    BY <2>3, <2>4, <2>6 DEF OutputPlugin
  <2>8. deck.out
    BY <1>1, <2>7 DEF PluginsKept, PluginsFollowStates
  <2>9. out_file' = PreparedFile
    BY <1>1, <2>5, <2>7 DEF PrepareAll, FileStarted
  <2> QED
    BY <2>8, <2>9
<1>5. PreparedFile.periods = <<>>
  BY DEF PreparedFile, NoFile
<1>6. SnapshotsOf(SubSeq(delivered, Len(delivered) + 1, Len(delivered))) = <<>>
  <2>1. SubSeq(delivered, Len(delivered) + 1, Len(delivered)) = <<>>
    BY <1>2, SubSeqEmpty
  <2> QED
    BY <2>1 DEF SnapshotsOf
<1>7. OutFileIsThisSession'
  BY <1>1, <1>2, <1>4, <1>5, <1>6 DEF OutFileIsThisSession
<1> QED
  BY <1>3, <1>7 DEF OutInv

\* update_all(): the period is written and delivered in one step.
LEMMA UpdateKeepsOut ==
    ASSUME IOInv, PluginsKept, OutInv, WriterUpdate
    PROVE  OutInv'
<1>1. WorkerUpdate(UpdateFails({}, {})) /\ UpdateAll(task[1].snapshot, {}, {})
  BY DEF WriterUpdate
<1>2. /\ worker = "update" /\ base' = base /\ delivered \in Seq(WriteTask)
      /\ delivered' = Append(delivered, task[1])
  BY <1>1 DEF WriterUpdate, sessionVars, WorkerUpdate, IOInv, IOTypeOK
<1>3. task[1] \in WriteTask
  <2>1. Len(task) = 1 /\ task \in Seq(WriteTask)
    BY <1>2 DEF IOInv, IOTypeOK
  <2> QED
    BY <2>1, ElementOfSeq
<1>4. base \in 0..Len(delivered) /\ Len(delivered') = Len(delivered) + 1
  BY <1>2 DEF OutInv
<1>5. ASSUME OutOpen'
      PROVE  OutOpen /\ out_file'.periods = Append(out_file.periods, task[1].snapshot)
  <2>1. /\ output_plugins' = [i \in DOMAIN output_plugins |-> output_plugins'[i]]
        /\ \A i \in DOMAIN output_plugins :
              output_plugins'[i] = UpdateOutput(output_plugins[i], i \in {})
    BY <1>1 DEF UpdateAll, Each
  <2>2. PICK i \in DOMAIN output_plugins : output_plugins'[i].open
    BY <1>5, <2>1 DEF OutOpen
  <2>3. output_plugins[i] \in OutputPlugin
    BY DEF PluginsKept, FilesInv, PluginTypeOK
  <2>4. output_plugins[i].open
    BY <2>1, <2>2, <2>3 DEF UpdateOutput, Failed, OutputPlugin
  <2>5. output_plugins[i].state \in {"PREPARED", "UPDATING"}
    BY <2>4 DEF PluginsKept, FilesInv, StreamsFollowStates
  <2>6. out_file' = [out_file EXCEPT !.periods = Append(out_file.periods, task[1].snapshot)]
    BY <1>1, <2>4, <2>5 DEF UpdateAll, TakesUpdates
  <2>7. out_file \in [header : BOOLEAN, periods : Seq(PeriodData), footers : Seq(Nat)]
    BY DEF PluginsKept, FilesInv, PluginTypeOK
  <2> QED
    BY <2>4, <2>6, <2>7 DEF OutOpen
<1>6. OutFileIsThisSession'
  <2> SUFFICES ASSUME OutOpen'
               PROVE  out_file'.periods =
                          SnapshotsOf(SubSeq(delivered', base' + 1, Len(delivered')))
    BY DEF OutFileIsThisSession
  <2> DEFINE old == SubSeq(delivered, base + 1, Len(delivered))
  <2>1. /\ old \in Seq(WriteTask)
        /\ SubSeq(delivered', base + 1, Len(delivered')) = Append(old, task[1])
    BY <1>2, <1>3, <1>4, LaterTasks
  <2>2. out_file.periods = SnapshotsOf(old)
    BY <1>5 DEF OutInv, OutFileIsThisSession
  <2> HIDE DEF old
  <2>3. SnapshotsOf(Append(old, task[1])) = Append(SnapshotsOf(old), task[1].snapshot)
    BY <1>3, <2>1, SnapshotsOfAppend
  <2> QED
    BY <1>2, <1>5, <2>1, <2>2, <2>3
<1> QED
  BY <1>2, <1>4, <1>6 DEF OutInv

\* A start that fails to prepare the plugins leaves an .out open only if it was
\* given the path of one and what failed was the plugin for the surface.
LEMMA FailedStartLeaves ==
    ASSUME PluginsKept, NEW save \in BOOLEAN, NEW fo, NEW fr,
           StartNotPrepared(save, fo, fr), OutOpen'
    PROVE  deck.out /\ deck.h5
<1>1. PrepareAll(fo, fr) /\ PrepareFails(fo, fr) /\ state = "INITIALIZED"
  BY DEF StartNotPrepared, StartStates
<1>2. /\ output_plugins' = [i \in DOMAIN output_plugins |-> output_plugins'[i]]
      /\ \A i \in DOMAIN output_plugins :
            output_plugins'[i] = PrepareOutput(output_plugins[i], i \in fo)
  BY <1>1 DEF PrepareAll, Each
<1>3. \A i \in DOMAIN output_plugins :
          output_plugins[i] \in OutputPlugin /\ ~output_plugins[i].open
  BY <1>1 DEF PluginsKept, PluginsFollowStates, FilesInv, PluginTypeOK
<1>4. PICK i \in DOMAIN output_plugins : output_plugins'[i].open
  BY <1>2 DEF OutOpen
<1>5. output_plugins[i].builtin /\ i \notin fo
  <2>1. output_plugins[i].state = "VALIDATED" /\ i \notin fo
    BY <1>2, <1>3, <1>4 DEF PrepareOutput, Failed, OutputPlugin
  <2>2. output_plugins'[i] = [output_plugins[i] EXCEPT !.state = "PREPARED",
                                !.open = output_plugins[i].builtin, !.n_periods = 0]
    BY <1>2, <2>1 DEF PrepareOutput
  <2>3. output_plugins'[i].open = output_plugins[i].builtin
    BY <1>3, <2>2 DEF OutputPlugin
  <2> QED
    BY <1>4, <2>1, <2>3
<1>6. deck.out
  BY <1>1, <1>5 DEF PluginsKept, PluginsFollowStates
<1>7. PICK j \in DOMAIN output_plugins : output_plugins[j].state = "VALIDATED" /\ j \in fo
  BY <1>1 DEF PrepareFails, PluginsKept, PluginsFollowStates
<1>8. ~output_plugins[j].builtin
  BY <1>5, <1>7 DEF PluginsKept, FilesInv, PluginTypeOK, AtMostOneBuiltin
<1>9. deck.h5
  BY <1>1, <1>7, <1>8 DEF PluginsKept, PluginsFollowStates
<1> QED
  BY <1>6, <1>9

\* finalize_all() closes the .out.
LEMMA FinalizeCloses ==
    ASSUME PluginsKept, NEW fo, NEW fr, FinalizeAll(fo, fr)
    PROVE  ~OutOpen'
<1>1. /\ DOMAIN output_plugins' = DOMAIN output_plugins
      /\ \A i \in DOMAIN output_plugins :
            output_plugins'[i] = FinalizeOutput(output_plugins[i], i \in fo)
  BY DEF FinalizeAll, Each
<1>2. ASSUME NEW i \in DOMAIN output_plugins PROVE ~output_plugins'[i].open
  <2>1. /\ output_plugins[i] \in OutputPlugin
        /\ output_plugins[i].open => output_plugins[i].builtin
    BY DEF PluginsKept, FilesInv, PluginTypeOK, AtMostOneBuiltin
  <2>2. CASE output_plugins'[i] = [output_plugins[i] EXCEPT !.state = "FINALIZED",
                                                            !.open = FALSE]
    BY <2>1, <2>2 DEF OutputPlugin
  <2>3. CASE /\ output_plugins'[i] = [output_plugins[i] EXCEPT !.state = "ERROR"]
             /\ ~output_plugins[i].builtin
    BY <2>1, <2>3 DEF OutputPlugin
  <2> QED
    BY <1>1, <2>2, <2>3 DEF FinalizeOutput, Failed
<1> QED
  BY <1>1, <1>2 DEF OutOpen

LEMMA OutStep ==
    ASSUME IOInv, ControlInv, PluginsKept, OutInv, [Next]_vars
    PROVE  OutInv'
<1>1. ASSUME UNCHANGED <<base, delivered, output_plugins, out_file>> PROVE OutInv'
  BY <1>1, OutUntouched DEF OutOpen
<1>2. CASE Open
  <2>1. \A i \in DOMAIN output_plugins' : ~output_plugins'[i].open
    BY <1>2, OpenKeepsPlugins
  <2>2. UNCHANGED <<base, delivered>>
    BY <1>2
    DEF Open, OpenUnreadable, OpenUnparsable, OpenMeshMissing,
      OpenInvalid, OpenModel, OpenBegin, ioVars,
        history
  <2> QED
    BY <2>1, <2>2, OutUntouched DEF OutOpen
<1>3. CASE WrongState \/ Initialize \/ InitializeFails \/ FinalizeModel \/ StepReport
           \/ StepComplete \/ EndCall \/ CloseCall \/ DestroyCall
  <2>1. UNCHANGED <<base, delivered, output_plugins, out_file>>
    BY <1>3
    DEF WrongState, Initialize, InitializeFails, FinalizeModel, StepReport, StepComplete,
        EndCall, CloseCall, DestroyCall, StopFor, StopSet, PostCall, pluginVars,
        sessionVars, ioVars, history
  <2> QED
    BY <1>1, <2>1
<1>4. ASSUME NEW save \in BOOLEAN, StartNoFile(save) PROVE OutInv'
  BY <1>1, <1>4 DEF StartNoFile, pluginVars, ioVars, history
<1>5. ASSUME NEW save \in BOOLEAN, NEW fo, NEW fr, StartNotPrepared(save, fo, fr)
      PROVE  OutInv'
  BY <1>5, StartKeepsOut
<1>6. ASSUME NEW save \in BOOLEAN, NEW fo, NEW fr, StartRun(save, fo, fr)
      PROVE  OutInv'
  BY <1>6, StartKeepsOut
<1>7. ASSUME NEW fr, Report(fr) PROVE OutInv'
  BY <1>1, <1>7 DEF Report, WriteSummaryAll, ioVars, history
<1>8. CASE WriterUpdate
  BY <1>8, UpdateKeepsOut
<1>9. CASE InCall \/ Wakeup \/ (QueueSteps /\ UNCHANGED <<pluginVars, sessionVars>>)
  <2>1. delivered' = delivered
    BY <1>9
    DEF InCall, PostSteps, PostWait, PostDiscard, PostEnqueue, PostNotify, StopSteps,
        StopNotifyNotEmpty, StopNotifyNotFull, StopJoin, Wakeup, SpuriousWakeup, QueueSteps,
        WorkerBoot, WorkerWait, WorkerPop, WorkerNotify, WorkerRecord, WorkerExit,
        WorkerTerminate, history
  <2>2. UNCHANGED <<base, output_plugins, out_file>>
    BY <1>9 DEF InCall, Wakeup, pluginVars, sessionVars
  <2> QED
    BY <1>1, <2>1, <2>2
<1>10. CASE Finish
  <2>1. UNCHANGED <<base, delivered>>
    BY <1>10 DEF Finish, EndFinish, CloseFinish, DestroyFinish, ioVars, history
  <2>2. CASE \E fo, fr : FinalizeAll(fo, fr)
    BY <2>1, <2>2, FinalizeCloses, OutUntouched
  <2>3. CASE UnloadAll
    <3>1. output_plugins' = <<>>
      BY <2>3 DEF UnloadAll, RemainingOutputs
    <3>2. ~OutOpen'
      BY <3>1 DEF OutOpen
    <3> QED
      BY <2>1, <3>2, OutUntouched
  <2> QED
    BY <1>10, <2>2, <2>3 DEF Finish, EndFinish, CloseFinish, DestroyFinish
<1>11. CASE Gone \/ UNCHANGED vars
  BY <1>1, <1>11 DEF Gone, vars, pluginVars, sessionVars, ioVars, history
<1>12. CASE StartCall
  BY <1>4, <1>5, <1>6, <1>12 DEF StartCall
<1>13. CASE Writer
  BY <1>8, <1>9, <1>13 DEF Writer
<1> QED
  BY <1>2, <1>3, <1>7, <1>9, <1>10, <1>11, <1>12, <1>13 DEF Next

\* The inductive invariant of a handle.
SessionInv == IOInv /\ ControlInv /\ PluginsKept /\ OutInv

LEMMA SessionStep == SessionInv /\ [Next]_vars => SessionInv'
BY SessionKeepsIO, ControlStep, PluginsStep, OutStep DEF SessionInv

\* Whatever is called on a handle, and in whatever order, it keeps SessionInv.
THEOREM SessionCorrect == Spec => []SessionInv
<1>1. Init => SessionInv
  <2>1. Init => OutInv
    BY DEF Init, IOInit, PluginInit, OutInv, OutFileIsThisSession, OutOpen
  <2> QED
    BY <2>1, InvInit, ControlInit, PluginsInit DEF Init, SessionInv
<1> QED
  BY <1>1, SessionStep, PTL DEF Spec

\* The .out that is being written holds the snapshots its session has
\* delivered, in their order, and no other.
THEOREM OutFileCorrect == Spec => []OutFileIsThisSession
<1>1. SessionInv => OutFileIsThisSession
  BY DEF SessionInv, OutInv
<1> QED
  BY <1>1, SessionCorrect, PTL

\* Only end() seals the .out.
LEMMA SealStep ==
    ASSUME SessionInv, [Next]_vars, Len(out_file'.footers) > Len(out_file.footers)
    PROVE  out_file'.periods = SnapshotsOf(SubSeq(accepted, base + 1, Len(accepted)))
<1>1. out_file \in [header : BOOLEAN, periods : Seq(PeriodData), footers : Seq(Nat)]
  BY DEF SessionInv, PluginsKept, FilesInv, PluginTypeOK
<1>2. Len(out_file.footers) \in Nat /\ out_file'.footers # out_file.footers
  BY <1>1
<1>3. ASSUME NEW fo, NEW fr, PrepareAll(fo, fr)
      PROVE  FALSE
  <2>1. out_file' = PreparedFile
    BY <1>2, <1>3 DEF PrepareAll
  <2>2. PreparedFile.footers = <<>>
    BY DEF PreparedFile, NoFile
  <2>3. Len(out_file'.footers) = 0
    BY <2>1, <2>2
  <2> QED
    BY <1>2, <2>3
<1>4. ASSUME NEW snapshot, NEW fo, NEW fr, UpdateAll(snapshot, fo, fr)
      PROVE  FALSE
  BY <1>1, <1>2, <1>4 DEF UpdateAll
<1>5. CASE EndFinish
  <2>1. /\ \E fo, fr : FinalizeAll(fo, fr)
        /\ worker = "none"
    BY <1>5 DEF EndFinish, Stopped, SessionInv, ControlInv, WriterFollowsCalls
  <2>2. OutOpen
    BY <1>2, <2>1 DEF FinalizeAll
  <2>3. out_file'.periods = out_file.periods
    BY <1>1, <2>1 DEF FinalizeAll
  <2>4. delivered = accepted
    BY <2>1, InvDrained DEF SessionInv, NothingUnwrittenAfterExit
  <2> QED
    BY <2>2, <2>3, <2>4 DEF SessionInv, OutInv, OutFileIsThisSession
<1>6. CASE UNCHANGED out_file
  BY <1>2, <1>6
<1>7. CASE Open \/ CloseFinish \/ DestroyFinish
  BY <1>6, <1>7
  DEF Open, OpenUnreadable, OpenUnparsable, OpenMeshMissing,
      OpenInvalid, OpenModel, OpenBegin,
      CloseFinish, DestroyFinish, UnloadAll
<1>8. CASE StartCall
  BY <1>3, <1>6, <1>8
  DEF StartCall, StartNoFile, StartNotPrepared, StartRun, pluginVars
<1>9. ASSUME NEW fr, Report(fr) PROVE UNCHANGED out_file
  BY <1>9 DEF Report, WriteSummaryAll
<1>10. CASE Writer
  BY <1>4, <1>6, <1>10 DEF Writer, WriterUpdate, pluginVars
<1>11. CASE UNCHANGED pluginVars
  BY <1>6, <1>11 DEF pluginVars
<1> QED
  BY <1>5, <1>6, <1>7, <1>8, <1>9, <1>10, <1>11
  DEF Next, WrongState, Initialize, InitializeFails, FinalizeModel, StepReport,
      StepComplete, EndCall, CloseCall, DestroyCall, StopFor, InCall, Wakeup, Finish,
      Gone, vars

\* DefaultOutputPlugin's footer is only written behind all the snapshots of the
\* session: IOThread::stop() has drained the queue before finalize_all().
THEOREM SealedCorrect == Spec => SealedFileIsComplete
<1>1. SessionInv /\ [Next]_vars
         => [Len(out_file'.footers) > Len(out_file.footers) =>
                out_file'.periods =
                    SnapshotsOf(SubSeq(accepted, base + 1, Len(accepted)))]_vars
  BY SealStep
<1> QED
  BY <1>1, SessionCorrect, PTL DEF Spec, SealedFileIsComplete

-----------------------------------------------------------------------------
(* swmm_engine_run(): what the files hold when it reports success, and that it *)
(* leaves nothing behind, for every model, capacity and length of simulation   *)


\* The client makes calls of the handle, one at a time.
LEMMA RunStepIsSession == [RunNext]_runVars => [Next]_vars
<1> SUFFICES ASSUME [RunNext]_runVars PROVE [Next]_vars
  OBVIOUS
<1>1. CASE Client
  <2>1. CASE RunOpen \/ RunInitialize \/ RunStep \/ RunEnd \/ RunClose \/ RunDestroy
    BY <2>1 DEF RunOpen, RunInitialize, RunStep, RunEnd, RunClose, RunDestroy, Next
  <2>2. CASE RunStart
    BY <2>2 DEF RunStart, StartCall, Next
  <2>3. ASSUME NEW fr \in ReportSets, RunReport(fr) PROVE [Next]_vars
    BY <2>3 DEF RunReport, Next
  <2> QED
    BY <1>1, <2>1, <2>2, <2>3 DEF Client
<1>2. CASE Background
  BY <1>2 DEF Background, Next
<1>3. CASE Returned \/ UNCHANGED runVars
  BY <1>3 DEF Returned, Gone, runVars
<1> QED
  BY <1>1, <1>2, <1>3 DEF RunNext

\* Where the client is, and what it has found the handle to be.
RunPositions ==
    \/ next_call = "open" /\ state = "CREATED" /\ call = "none" /\ result = "none"
    \/ next_call = "initialize" /\ state = "OPENED" /\ call = "none" /\ result = "none"
    \/ next_call = "start" /\ state = "INITIALIZED" /\ call = "none" /\ result = "none"
    \/ next_call = "step" /\ state = "RUNNING" /\ call = "none" /\ result = "none"
    \/ next_call = "end" /\ state = "ENDED" /\ call = "none" /\ result = "ok"
    \/ next_call = "report" /\ state = "ENDED" /\ call \in {"end", "none"} /\ result = "ok"
    \/ /\ \/ next_call = "close" /\ call = "none"
          \/ next_call = "destroy" /\ call = "close"
       /\ <<state, result>> \in {<<"REPORTED", "ok">>, <<"ERROR_STATE", "error">>}
    \/ /\ \/ next_call = "destroy" /\ call = "none"
          \/ next_call = "return" /\ call = "destroy"
       /\ <<state, result>> \in {<<"CLOSED", "ok">>, <<"CLOSED", "error">>,
                                 <<"CREATED", "error">>, <<"ERROR_STATE", "error">>}
    \/ /\ next_call = "return" /\ state = "DESTROYED" /\ call = "none"
       /\ result \in {"ok", "error"}

\* The .out is being written.
Writing == \/ next_call \in {"step", "end"}
           \/ next_call = "report" /\ call = "end"

LEMMA PositionsStep == RunPositions /\ [RunNext]_runVars => RunPositions'
<1> SUFFICES ASSUME RunPositions, [RunNext]_runVars PROVE RunPositions'
  OBVIOUS
<1>1. CASE RunOpen
  <2>1. state' \in {"OPENED", "CREATED", "ERROR_STATE"} /\ call' = call
    BY <1>1
    DEF RunOpen, Open, OpenUnreadable, OpenUnparsable, OpenMeshMissing,
      OpenInvalid, OpenModel, OpenBegin
  <2> QED
    BY <1>1, <2>1 DEF RunOpen, RunPositions
<1>2. CASE RunInitialize
  BY <1>2 DEF RunInitialize, Initialize, InitializeFails, RunPositions
<1>3. CASE RunStart
  BY <1>3 DEF RunStart, StartRun, StartNoFile, StartNotPrepared, RunPositions
<1>4. CASE RunStep
  BY <1>4 DEF RunStep, StepReport, StepComplete, RunPositions, sessionVars
<1>5. CASE RunEnd
  BY <1>5 DEF RunEnd, EndCall, StopFor, RunPositions
<1>6. ASSUME NEW fr, RunReport(fr) PROVE RunPositions'
  BY <1>6 DEF RunReport, Report, Idle, RunPositions
<1>7. CASE RunClose \/ RunDestroy
  BY <1>7 DEF RunClose, RunDestroy, CloseCall, DestroyCall, StopFor, Idle, RunPositions
<1>8. CASE Background
  <2>1. CASE Finish
    BY <1>8, <2>1
    DEF Background, Finish, EndFinish, CloseFinish, DestroyFinish, Stopped, RunPositions
  <2>2. CASE InCall \/ Writer \/ Wakeup
    BY <1>8, <2>2
    DEF Background, InCall, Writer, WriterUpdate, Wakeup, sessionVars, RunPositions
  <2> QED
    BY <1>8, <2>1, <2>2 DEF Background
<1>9. CASE Returned \/ UNCHANGED runVars
  BY <1>9 DEF Returned, Gone, runVars, vars, sessionVars, RunPositions
<1> QED
  BY <1>1, <1>2, <1>3, <1>4, <1>5, <1>6, <1>7, <1>8, <1>9 DEF RunNext, Client

-----------------------------------------------------------------------------
\* The snapshots of the run are all there is: nothing was posted before start(),
\* only the step loop posts, and after end() nobody is left to write.
RunHistory ==
    /\ base = 0
    /\ next_call \in {"open", "initialize", "start"} =>
          posts[Controller] = 0 /\ pc[Controller] = "idle"
    /\ pc[Controller] \in PostPcs => next_call = "step"
    /\ result = "ok" /\ ~Writing => end_called
    /\ \A i \in DOMAIN accepted : accepted[i].snapshot = <<Controller, i>>

HandleInv == SessionInv /\ NoSnapshotDiscarded /\ RunPositions

LEMMA HandleInvStep == HandleInv /\ [RunNext]_runVars => HandleInv'
BY RunStepIsSession, SessionStep, DiscardStep, PositionsStep DEF HandleInv, SessionInv

\* A step that is none of post() or stop().
LEMMA HistoryUntouched ==
    ASSUME RunHistory, UNCHANGED <<base, posts, pc, accepted>>,
           next_call' \in {"open", "initialize", "start"} =>
               next_call \in {"open", "initialize", "start"},
           next_call' = next_call \/ pc[Controller] = "idle",
           result' = "ok" /\ ~Writing' => end_called'
    PROVE  RunHistory'
BY DEF RunHistory, PostPcs

LEMMA HistoryStep ==
    ASSUME HandleInv, RunHistory, [RunNext]_runVars
    PROVE  RunHistory'
<1> USE ConstantsAssumption
<1>1. /\ pc \in [Threads -> {"idle"} \cup PostPcs \cup StopPcs]
      /\ posts \in [Threads -> 0..MaxPosts] /\ accepted \in Seq(WriteTask)
      /\ RunPositions
  BY DEF HandleInv, SessionInv, IOInv, IOTypeOK
<1>2. CASE RunOpen
  <2>1. UNCHANGED <<base, posts, pc, accepted>> /\ next_call = "open"
    BY <1>2
    DEF RunOpen, Open, OpenUnreadable, OpenUnparsable, OpenMeshMissing,
      OpenInvalid, OpenModel, OpenBegin,
        ioVars, history
  <2>2. result' # "ok"
    BY <1>1, <1>2, <2>1 DEF RunOpen, RunPositions
  <2> QED
    BY <2>1, <2>2, HistoryUntouched DEF RunHistory
<1>3. CASE RunInitialize
  <2>1. UNCHANGED <<base, posts, pc, accepted>> /\ next_call = "initialize"
    BY <1>3 DEF RunInitialize, Initialize, InitializeFails, ioVars, history
  <2>2. result' # "ok"
    BY <1>1, <1>3, <2>1 DEF RunInitialize, RunPositions
  <2> QED
    BY <2>1, <2>2, HistoryUntouched DEF RunHistory
<1>4. CASE RunStart
  <2>1. /\ UNCHANGED <<posts, pc, accepted>> /\ next_call = "start"
        /\ base' \in {base, Len(accepted)} /\ next_call' \in {"step", "close"}
    BY <1>4 DEF RunStart, StartRun, StartNoFile, StartNotPrepared, Start, ioVars, history
  <2>2. posts[Controller] = 0 /\ pc[Controller] = "idle"
    BY <2>1 DEF RunHistory
  <2>3. Len(accepted) = 0
    <3>1. Len(accepted) = posts[Controller]
                - (IF pc[Controller] \in {"locking", "waiting_not_full"} THEN 1 ELSE 0)
      BY DEF HandleInv, NoSnapshotDiscarded
    <3>2. pc[Controller] \notin {"locking", "waiting_not_full"}
      BY <2>2
    <3>3. (IF pc[Controller] \in {"locking", "waiting_not_full"} THEN 1 ELSE 0) = 0
      BY <3>2
    <3>4. Len(accepted) = 0 - 0
      BY <2>2, <3>1, <3>3
    <3> QED
      BY <3>4
  <2>4. result' # "ok"
    BY <1>1, <1>4, <2>1 DEF RunStart, RunPositions
  <2>5. base' = base
    BY <2>1, <2>3 DEF RunHistory
  <2> QED
    BY <2>1, <2>2, <2>4, <2>5, HistoryUntouched
<1>5. CASE RunStep
  <2>1. CASE StepReport /\ UNCHANGED <<next_call, result>>
    BY <1>1, <1>5, <2>1
    DEF RunStep, StepReport, Idle, PostCall, RunHistory, Writing, history, sessionVars,
        RunPositions
  <2>2. CASE StepComplete
    BY <1>5, <2>2, HistoryUntouched
    DEF RunStep, StepReport, StepComplete, Idle, PostCall, Writing, ioVars, history
  <2> QED
    BY <1>5, <2>1, <2>2 DEF RunStep
<1>6. CASE RunEnd
  BY <1>1, <1>6
  DEF RunEnd, EndCall, StopFor, StopSet, RunHistory, Writing, PostPcs, history
<1>7. ASSUME NEW fr, RunReport(fr) PROVE RunHistory'
  <2>1. UNCHANGED <<base, posts, pc, accepted, end_called>> /\ call = "none" /\ pc[Controller] = "idle"
        /\ next_call = "report" /\ next_call' = "close" /\ result' = result
    BY <1>7 DEF RunReport, Report, Idle, ioVars, history
  <2>2. end_called
    BY <1>1, <2>1 DEF RunHistory, RunPositions, Writing
  <2> QED
    BY <2>1, <2>2, HistoryUntouched
<1>8. CASE RunClose \/ RunDestroy
  BY <1>1, <1>8
  DEF RunClose, RunDestroy, CloseCall, DestroyCall, StopFor, StopSet, RunHistory, Writing,
      PostPcs, history
<1>9. CASE Background
  <2>1. CASE Finish
    <3>1. UNCHANGED <<base, posts, pc, accepted, next_call, result>>
      BY <1>9, <2>1
      DEF Background, Finish, EndFinish, CloseFinish, DestroyFinish, ioVars, history
    <3>2. result' = "ok" /\ ~Writing' => end_called'
      BY <1>1, <2>1, <3>1
      DEF Finish, EndFinish, CloseFinish, DestroyFinish, Stopped, Writing, RunHistory,
          RunPositions
    <3> QED
      BY <3>1, <3>2, HistoryUntouched
  <2>2. CASE InCall
    <3>1. UNCHANGED <<base, next_call, result, call, end_called>>
      BY <1>9, <2>2 DEF Background, InCall, sessionVars
    <3>2. CASE PostEnqueue(Controller)
      <4>1. /\ accepted' = Append(accepted, NewTask(Controller)) /\ posts' = posts
            /\ pc[Controller] = "locking" /\ pc'[Controller] = "notify_not_empty"
        BY <1>1, <3>2 DEF PostEnqueue
      <4>2. posts[Controller] = Len(accepted) + 1
        BY <1>1, <4>1 DEF HandleInv, NoSnapshotDiscarded
      <4>3. NewTask(Controller).snapshot = <<Controller, Len(accepted) + 1>>
        BY <4>2 DEF NewTask
      <4> DEFINE e == NewTask(Controller)
      <4> HIDE DEF e
      <4>4. /\ DOMAIN accepted = 1..Len(accepted)
            /\ DOMAIN accepted' = 1..Len(accepted) + 1
            /\ \A i \in 1..Len(accepted) : accepted'[i] = accepted[i]
            /\ accepted'[Len(accepted) + 1] = e
        <5>1. accepted' = Append(accepted, e)
          BY <4>1 DEF e
        <5> QED
          BY <1>1, <5>1
      <4>5. \A i \in DOMAIN accepted' : accepted'[i].snapshot = <<Controller, i>>
        BY <4>3, <4>4 DEF e, RunHistory
      <4> QED
        BY <3>1, <4>1, <4>5 DEF RunHistory, Writing, PostPcs
    <3>3. CASE PostWait(Controller) \/ PostDiscard(Controller) \/ PostNotify(Controller)
      BY <1>1, <3>1, <3>3
      DEF PostWait, PostDiscard, PostNotify, RunHistory, Writing, PostPcs, history
    <3>4. CASE StopSteps
      BY <1>1, <3>1, <3>4
      DEF StopSteps, StopNotifyNotEmpty, StopNotifyNotFull, StopJoin, PostersAwake, RunHistory,
          Writing, PostPcs, history
    <3> QED
      BY <2>2, <3>2, <3>3, <3>4 DEF InCall, PostSteps
  <2>3. CASE Writer \/ Wakeup
    <3>1. UNCHANGED <<base, next_call, result, call, end_called, posts, accepted>>
      BY <1>9, <2>3
      DEF Background, Writer, WriterUpdate, Wakeup, sessionVars, WorkerUpdate, QueueSteps,
          WorkerBoot, WorkerWait, WorkerPop, WorkerNotify, WorkerRecord, WorkerExit,
          WorkerTerminate, SpuriousWakeup, history
    <3>2. \/ pc'[Controller] = pc[Controller]
          \/ pc[Controller] = "waiting_not_full" /\ pc'[Controller] = "locking"
      BY <1>1, <2>3
      DEF Writer, WriterUpdate, Wakeup, WorkerUpdate, QueueSteps, WorkerBoot, WorkerWait,
          WorkerPop, WorkerNotify, WakeOnePoster, Waiters, WorkerRecord, WorkerExit,
          WorkerTerminate, SpuriousWakeup
    <3> QED
      BY <3>1, <3>2 DEF RunHistory, Writing, PostPcs
  <2> QED
    BY <1>9, <2>1, <2>2, <2>3 DEF Background
<1>10. CASE Returned \/ UNCHANGED runVars
  BY <1>10
  DEF Returned, Gone, runVars, vars, ioVars, history, sessionVars, RunHistory, Writing
<1> QED
  BY <1>2, <1>3, <1>4, <1>5, <1>6, <1>7, <1>8, <1>9, <1>10 DEF RunNext, Client

-----------------------------------------------------------------------------
\* A step of the two threads between the calls of the client: unless it is
\* update_all() it leaves the handle and the plugins as they are.
LEMMA BackgroundSteps ==
    ASSUME Background
    PROVE  /\ UNCHANGED <<next_call, result>>
           /\ \/ UNCHANGED <<pluginVars, sessionVars>>
              \/ WriterUpdate
              \/ Finish
BY DEF Background, InCall, Writer, Wakeup

LEMMA UpdateKeepsOpen ==
    ASSUME PluginsKept, WriterUpdate
    PROVE  OutOpen' <=> OutOpen
<1>1. UpdateAll(task[1].snapshot, {}, {})
  BY DEF WriterUpdate
<1>2. /\ DOMAIN output_plugins' = DOMAIN output_plugins
      /\ \A i \in DOMAIN output_plugins :
            output_plugins'[i] = UpdateOutput(output_plugins[i], i \in {})
  BY <1>1 DEF UpdateAll, Each
<1>3. ASSUME NEW i \in DOMAIN output_plugins
      PROVE  output_plugins'[i].open = output_plugins[i].open
  <2>1. output_plugins[i] \in OutputPlugin
    BY DEF PluginsKept, FilesInv, PluginTypeOK
  <2> QED
    BY <1>2, <2>1 DEF UpdateOutput, Failed, OutputPlugin
<1> QED
  BY <1>2, <1>3 DEF OutOpen

\* start() failed and may have left the .out open.
LeftByStart == result = "error" /\ deck.out /\ deck.h5

\* A stream is held while the .out is being written, and after a start() that
\* failed: then it is the one stream that is lost when the plugins are unloaded.
\* close() comes before destroy() whenever an interface file may be open.
RunSafe ==
    /\ OutOpen => Writing \/ LeftByStart
    /\ leaked # 0 => /\ leaked = 1 /\ LeftByStart /\ ~OutOpen
                     /\ next_call \in {"destroy", "return"}
    /\ call # "close" /\ next_call \in {"destroy", "return"} => iface = {}

LEMMA SafeStep ==
    ASSUME HandleInv, RunSafe, [RunNext]_runVars
    PROVE  RunSafe'
<1>1. PluginsKept /\ ControlInv /\ RunPositions
  BY DEF HandleInv, SessionInv
<1> USE DEF LeftByStart
<1>2. CASE RunOpen
  <2>1. Open /\ next_call = "open"
    BY <1>2 DEF RunOpen
  <2>2. ~OutOpen'
    BY <1>1, <2>1, OpenKeepsPlugins DEF OutOpen
  <2>3. leaked' = leaked /\ iface' = iface
    BY <2>1
    DEF Open, OpenUnreadable, OpenUnparsable, OpenMeshMissing,
      OpenInvalid, OpenModel, OpenBegin
  <2>4. iface = {}
    BY <1>1, <2>1 DEF RunPositions, ControlInv, InterfaceFilesClosed, QuietStates
  <2>5. leaked = 0
    BY <2>1 DEF RunSafe
  <2> QED
    BY <2>2, <2>3, <2>4, <2>5 DEF RunSafe
<1>3. CASE RunInitialize
  BY <1>3
  DEF RunInitialize, Initialize, InitializeFails, RunSafe, Writing, OutOpen, pluginVars
<1>4. CASE RunStart
  <2>1. ASSUME NEW fo, NEW fr, StartRun(TRUE, fo, fr), next_call' = "step"
        PROVE  RunSafe'
    <3>1. leaked = 0 /\ leaked' = leaked
      BY <1>4, <2>1 DEF RunSafe, RunStart, StartRun, PrepareAll
    <3> QED
      BY <2>1, <3>1 DEF RunSafe, Writing
  <2>2. ASSUME StartNoFile(TRUE), next_call' = "close"
        PROVE  RunSafe'
    BY <1>4, <2>2 DEF RunStart, StartNoFile, RunSafe, Writing, OutOpen, pluginVars
  <2>3. ASSUME NEW fo, NEW fr, StartNotPrepared(TRUE, fo, fr), next_call' = "close",
               result' = "error"
        PROVE  RunSafe'
    <3>1. OutOpen' => deck.out /\ deck.h5
      BY <1>1, <2>3, FailedStartLeaves
    <3>2. deck' = deck /\ leaked' = leaked
      BY <2>3 DEF StartNotPrepared, PrepareAll
    <3>3. leaked = 0
      BY <1>4 DEF RunSafe, RunStart
    <3> QED
      BY <2>3, <3>1, <3>2, <3>3 DEF RunSafe
  <2> QED
    BY <1>4, <2>1, <2>2, <2>3 DEF RunStart
<1>5. CASE RunStep
  BY <1>5 DEF RunStep, StepReport, StepComplete, RunSafe, Writing, pluginVars
<1>6. CASE RunEnd
  BY <1>6 DEF RunEnd, EndCall, StopFor, RunSafe, Writing, OutOpen, pluginVars
<1>7. ASSUME NEW fr, RunReport(fr) PROVE RunSafe'
  BY <1>7 DEF RunReport, Report, Idle, WriteSummaryAll, RunSafe, Writing, OutOpen
<1>8. CASE RunClose \/ RunDestroy
  BY <1>8
  DEF RunClose, RunDestroy, CloseCall, DestroyCall, StopFor, Idle, RunSafe, Writing, OutOpen,
      pluginVars
<1>9. CASE Background
  <2>1. UNCHANGED <<next_call, result>>
    BY <1>9, BackgroundSteps
  <2>2. CASE UNCHANGED <<pluginVars, sessionVars>>
    BY <2>1, <2>2 DEF pluginVars, sessionVars, RunSafe, Writing, OutOpen
  <2>3. CASE WriterUpdate
    <3>1. (OutOpen' <=> OutOpen) /\ leaked' = leaked /\ UNCHANGED sessionVars
      BY <1>1, <2>3, UpdateKeepsOpen DEF WriterUpdate, UpdateAll
    <3> QED
      BY <2>1, <3>1 DEF sessionVars, RunSafe, Writing
  <2>4. CASE EndFinish
    <3>1. ~OutOpen'
      BY <1>1, <2>4, FinalizeCloses DEF EndFinish
    <3>2. next_call = "report"
      BY <1>1, <2>4 DEF EndFinish, Stopped, RunPositions
    <3> QED
      BY <2>1, <2>4, <3>1, <3>2 DEF EndFinish, FinalizeAll, RunSafe
  <2>5. CASE CloseFinish \/ DestroyFinish
    <3>1. ~Writing
      BY <1>1, <2>5 DEF CloseFinish, DestroyFinish, Stopped, RunPositions, Writing
    <3>2. /\ output_plugins' = <<>> /\ deck' = deck
          /\ leaked' = IF OutOpen THEN leaked + 1 ELSE leaked
      BY <2>5 DEF CloseFinish, DestroyFinish, UnloadAll, RemainingOutputs
    <3>3. ~OutOpen'
      BY <3>2 DEF OutOpen
    <3>4. iface' = {}
      BY <1>1, <2>5
      DEF CloseFinish, DestroyFinish, Stopped, IfaceAfterClose, RunSafe, RunPositions
    <3>5. next_call \in {"destroy", "return"}
      BY <1>1, <2>5 DEF CloseFinish, DestroyFinish, Stopped, RunPositions
    <3> QED
      BY <2>1, <3>1, <3>2, <3>3, <3>4, <3>5 DEF RunSafe
  <2> QED
    BY <1>9, <2>2, <2>3, <2>4, <2>5, BackgroundSteps DEF Finish
<1>10. CASE Returned \/ UNCHANGED runVars
  BY <1>10
  DEF Returned, Gone, runVars, vars, sessionVars, pluginVars, RunSafe, Writing, OutOpen
<1> QED
  BY <1>2, <1>3, <1>4, <1>5, <1>6, <1>7, <1>8, <1>9, <1>10 DEF RunNext, Client

-----------------------------------------------------------------------------
\* The .out that was asked for: there is a plugin to write it, it is open while
\* it is written, and it is complete from then on.
Sealed ==
    /\ out_file.header
    /\ out_file.periods = SnapshotsOf(accepted)
    /\ out_file.footers = <<Len(accepted)>>

OutPromised ==
    deck.out =>
        /\ next_call \in {"initialize", "start"} =>
              \E i \in DOMAIN output_plugins :
                  output_plugins[i].builtin /\ output_plugins[i].state = "VALIDATED"
        /\ Writing => OutOpen
        /\ result = "ok" /\ ~Writing => Sealed

LEMMA OpenMakesWriter ==
    ASSUME NEW rows \in Nat, NEW rpt, NEW h5 \in BOOLEAN, output_plugins = <<>>,
           AddPlugins(rows, TRUE, rpt, h5)
    PROVE  \E i \in DOMAIN output_plugins' :
              output_plugins'[i].builtin /\ output_plugins'[i].state = "VALIDATED"
<1> DEFINE loaded == Loaded(rows)
           last == <<BuiltinOutput>>
           list == loaded \o last
<1>1. output_plugins' = list \o If(h5, <<SurfaceOutput>>)
  BY DEF AddPlugins, If, Loaded, Copies
<1>2. loaded \in Seq(OutputPlugin) /\ Len(loaded) = rows
  <2>1. [builtin |-> FALSE, state |-> "LOADED", open |-> FALSE, n_periods |-> 0]
            \in OutputPlugin
    BY DEF OutputPlugin, PluginStates
  <2> QED
    BY <2>1 DEF Loaded, Copies
<1>3. last \in Seq(OutputPlugin) /\ Len(last) = 1 /\ last[1] = BuiltinOutput
  <2>1. BuiltinOutput \in OutputPlugin
    BY DEF BuiltinOutput, OutputPlugin, PluginStates
  <2> QED
    BY <2>1
<1> HIDE DEF loaded, last
<1>4. /\ Len(list) = rows + 1 /\ list \in Seq(OutputPlugin)
      /\ list[rows + 1] = last[1]
  <2>1. /\ loaded \o last \in Seq(OutputPlugin)
        /\ Len(loaded \o last) = Len(loaded) + Len(last)
        /\ \A i \in 1..Len(loaded) + Len(last) :
              (loaded \o last)[i] = IF i <= Len(loaded) THEN loaded[i]
                                    ELSE last[i - Len(loaded)]
    BY <1>2, <1>3, ConcatProperties
  <2>2. rows + 1 \in 1..Len(loaded) + Len(last) /\ ~(rows + 1 <= Len(loaded))
    BY <1>2, <1>3
  <2>3. (rows + 1) - Len(loaded) = 1
    BY <1>2
  <2> QED
    BY <1>2, <1>3, <2>1, <2>2, <2>3
<1> HIDE DEF list
<1>5. SurfaceOutput \in OutputPlugin
  BY DEF SurfaceOutput, OutputPlugin, PluginStates
<1>6. ThenPerhaps(list, output_plugins', OutputPlugin, SurfaceOutput, h5)
  BY <1>1, <1>4, <1>5, ExtendedList
<1>7. rows + 1 \in DOMAIN output_plugins' /\ output_plugins'[rows + 1] = BuiltinOutput
  BY <1>3, <1>4, <1>6 DEF ThenPerhaps
<1> QED
  BY <1>7 DEF BuiltinOutput

LEMMA PrepareOpens ==
    ASSUME PluginsKept, NEW fo, NEW fr, PrepareAll(fo, fr), ~PrepareFails(fo, fr),
           NEW i \in DOMAIN output_plugins,
           output_plugins[i].builtin, output_plugins[i].state = "VALIDATED"
    PROVE  OutOpen'
<1>1. /\ DOMAIN output_plugins' = DOMAIN output_plugins
      /\ output_plugins'[i] = [output_plugins[i] EXCEPT !.state = "PREPARED",
                                  !.open = output_plugins[i].builtin, !.n_periods = 0]
  BY DEF PrepareAll, PrepareFails, Each, PrepareOutput
<1>2. output_plugins[i] \in OutputPlugin
  BY DEF PluginsKept, FilesInv, PluginTypeOK
<1> QED
  BY <1>1, <1>2 DEF OutOpen, OutputPlugin

\* end() has sealed the .out with everything in it.
LEMMA EndSeals ==
    ASSUME HandleInv, RunHistory, OutOpen, EndFinish
    PROVE  Sealed'
<1>1. UNCHANGED ioVars /\ worker = "none"
  BY DEF EndFinish, Stopped, HandleInv, SessionInv, ControlInv, WriterFollowsCalls
<1>0. PICK fo, fr : FinalizeAll(fo, fr)
  BY DEF EndFinish
<1>2. delivered = accepted /\ accepted \in Seq(WriteTask)
  BY <1>1, InvDrained DEF HandleInv, SessionInv, NothingUnwrittenAfterExit, IOInv, IOTypeOK
<1>3. /\ out_file \in [header : BOOLEAN, periods : Seq(PeriodData), footers : Seq(Nat)]
      /\ FooterCountsPeriods
  BY DEF HandleInv, SessionInv, PluginsKept, FilesInv, PluginTypeOK
<1>4. out_file.footers = <<>> /\ out_file.header
  BY <1>3 DEF FooterCountsPeriods, OutOpen
<1>5. out_file.periods = SnapshotsOf(accepted)
  <2>1. SubSeq(accepted, 1, Len(accepted)) = accepted
    BY <1>2, SubSeqFull
  <2>2. base + 1 = 1
    BY DEF RunHistory
  <2> QED
    BY <1>2, <2>1, <2>2 DEF HandleInv, SessionInv, OutInv, OutFileIsThisSession
<1>6. Len(SnapshotsOf(accepted)) = Len(accepted)
  BY <1>2, SnapshotsOfSeq
<1>7. FooterCountsPeriods'
  <2>1. FilesInv
    BY DEF HandleInv, SessionInv, PluginsKept
  <2> QED
    BY <1>0, <2>1, FinalizeKeeps DEF FilesInv
<1>8. PICK n : out_file' = [out_file EXCEPT !.footers = Append(out_file.footers, n)]
  BY <1>0 DEF FinalizeAll
<1>9. /\ out_file'.header /\ out_file'.periods = SnapshotsOf(accepted)
      /\ out_file'.footers = Append(out_file.footers, n)
  BY <1>3, <1>4, <1>5, <1>8
<1>10. out_file'.footers # <<>>
  <2>1. Len(out_file'.footers) = 1
    BY <1>3, <1>4, <1>9
  <2> QED
    BY <2>1
<1>11. out_file'.footers = <<Len(accepted)>>
  BY <1>6, <1>7, <1>9, <1>10 DEF FooterCountsPeriods
<1> QED
  BY <1>1, <1>9, <1>11 DEF Sealed, ioVars, history

\* Once it is sealed nothing is posted and nothing written.
LEMMA SealedStays ==
    ASSUME HandleInv, RunHistory, result = "ok", ~Writing, InCall \/ Writer \/ Wakeup
    PROVE  UNCHANGED <<pluginVars, sessionVars, accepted>>
<1>1. worker = "none"
  BY DEF RunHistory, HandleInv, SessionInv, ControlInv, WriterFollowsCalls
<1>2. pc[Controller] \notin PostPcs
  BY DEF RunHistory, Writing
<1>3. ~WriterUpdate
  BY <1>1 DEF WriterUpdate
<1>4. UNCHANGED <<pluginVars, sessionVars>>
  BY <1>3 DEF InCall, Writer, Wakeup
<1>5. accepted' = accepted
  BY <1>2, <1>3
  DEF InCall, Writer, Wakeup, PostSteps, PostWait, PostDiscard, PostEnqueue, PostNotify,
      StopSteps, StopNotifyNotEmpty, StopNotifyNotFull, StopJoin, QueueSteps, WorkerBoot,
      WorkerWait, WorkerPop, WorkerNotify, WorkerRecord, WorkerExit, WorkerTerminate,
      SpuriousWakeup, history, PostPcs
<1> QED
  BY <1>4, <1>5

\* What the two threads do between the calls of the client.
LEMMA BackgroundKinds ==
    ASSUME HandleInv, RunHistory, Background
    PROVE  /\ UNCHANGED <<next_call, result>>
           /\ \/ UNCHANGED <<pluginVars, sessionVars, accepted>>
              \/ UNCHANGED <<pluginVars, sessionVars>> /\ (result = "ok" => Writing)
              \/ /\ WriterUpdate /\ UNCHANGED sessionVars
                 /\ next_call \notin {"open", "initialize", "start"}
                 /\ result = "ok" => Writing
              \/ EndFinish /\ next_call = "report"
              \/ (CloseFinish \/ DestroyFinish) /\ next_call \in {"destroy", "return"} /\ ~Writing
<1>1. ControlInv /\ RunPositions
  BY DEF HandleInv, SessionInv
<1>2. UNCHANGED <<next_call, result>>
  BY BackgroundSteps
<1>3. CASE Finish
  <2>1. CASE EndFinish
    BY <1>1, <1>2, <2>1 DEF EndFinish, Stopped, RunPositions
  <2>2. CASE CloseFinish \/ DestroyFinish
    BY <1>1, <1>2, <2>2 DEF CloseFinish, DestroyFinish, Stopped, RunPositions, Writing
  <2> QED
    BY <1>3, <2>1, <2>2 DEF Finish
<1>4. CASE InCall \/ Writer \/ Wakeup
  <2>1. CASE result = "ok" /\ ~Writing
    BY <1>2, <1>4, <2>1, SealedStays
  <2>2. CASE ~(result = "ok" /\ ~Writing)
    <3>1. CASE WriterUpdate
      <4>1. worker # "none" /\ UNCHANGED sessionVars
        BY <3>1 DEF WriterUpdate
      <4>2. state \notin QuietStates
        BY <1>1, <4>1 DEF ControlInv, WriterFollowsCalls
      <4>3. next_call \notin {"open", "initialize", "start"}
        BY <1>1, <4>2 DEF QuietStates, RunPositions
      <4> QED
        BY <1>2, <2>2, <3>1, <4>1, <4>3
    <3>2. CASE ~WriterUpdate
      BY <1>2, <1>4, <2>2, <3>2 DEF InCall, Writer, Wakeup
    <3> QED
      BY <3>1, <3>2
  <2> QED
    BY <2>1, <2>2
<1> QED
  BY <1>3, <1>4 DEF Background

LEMMA PromiseStep ==
    ASSUME HandleInv, RunHistory, OutPromised, [RunNext]_runVars
    PROVE  OutPromised'
<1>1. PluginsKept /\ ControlInv /\ RunPositions
  BY DEF HandleInv, SessionInv
<1>2. CASE RunOpen
  <2>1. PICK d \in Decks : \/ OpenUnreadable(d) \/ OpenUnparsable(d)
                           \/ \E ok \in BOOLEAN : OpenMeshMissing(d, ok) \/ OpenInvalid(d, ok)
                           \/ \E invalid, ok \in BOOLEAN : OpenModel(d, invalid, ok)
    BY <1>2 DEF RunOpen, Open
  <2>2. /\ next_call = "open" /\ state = "CREATED" /\ result = "none"
        /\ output_plugins = <<>>
        /\ state' = "OPENED" => next_call' = "initialize" /\ result' = "none"
        /\ state' # "OPENED" => next_call' = "destroy" /\ result' = "error"
    BY <1>1, <1>2 DEF RunOpen, RunPositions, PluginsKept, PluginsFollowStates
  <2>3. CASE state' # "OPENED"
    BY <2>2, <2>3 DEF OutPromised, Writing
  <2>4. CASE state' = "OPENED"
    <3>1. PICK invalid, ok \in BOOLEAN : OpenModel(d, invalid, ok)
      BY <2>1, <2>4 DEF OpenUnreadable, OpenUnparsable, OpenMeshMissing, OpenInvalid
    <3> DEFINE h5 == Read(d).h5
    <3>2. /\ deck'.out = d.out /\ d \in Deck /\ SpecsAfter(d) \in Nat
          /\ h5 \in BOOLEAN /\ AddPlugins(SpecsAfter(d), d.out, d.rpt, h5)
      <4>1. ReadOf(d, Read(d))
        BY <1>1, OpenReads
      <4>2. d \in Deck /\ plugin_specs \in Nat
        BY <1>1, SessionAssumption DEF ControlInv, HandleTypeOK
      <4>3. deck' = Read(d) /\ AddPlugins(SpecsAfter(d), d.out, d.rpt, h5)
        BY <3>1 DEF OpenModel, OpenBegin
      <4> QED
        BY <4>1, <4>2, <4>3 DEF ReadOf, SpecsAfter, Deck
    <3> HIDE DEF h5
    <3>3. deck'.out => \E i \in DOMAIN output_plugins' :
              output_plugins'[i].builtin /\ output_plugins'[i].state = "VALIDATED"
      <4>1. SUFFICES ASSUME deck'.out
                     PROVE \E i \in DOMAIN output_plugins' :
                              output_plugins'[i].builtin /\ output_plugins'[i].state = "VALIDATED"
        OBVIOUS
      <4>2. d.out = TRUE
        BY <3>2, <4>1 DEF Deck
      <4>3. AddPlugins(SpecsAfter(d), TRUE, d.rpt, h5)
        BY <3>2, <4>2
      <4> QED
        BY <2>2, <3>2, <4>3, OpenMakesWriter
    <3> QED
      BY <2>2, <2>4, <3>3 DEF OutPromised, Writing
  <2> QED
    BY <2>3, <2>4
<1>3. CASE RunInitialize
  BY <1>1, <1>3
  DEF RunInitialize, Initialize, InitializeFails, RunPositions, OutPromised, Writing, pluginVars
<1>4. CASE RunStart
  <2>1. next_call = "start" /\ result = "none" /\ deck' = deck
    BY <1>1, <1>4
    DEF RunStart, StartRun, StartNoFile, StartNotPrepared, RunPositions
  <2>2. CASE next_call' = "close" /\ result' = "error"
    BY <2>2 DEF OutPromised, Writing
  <2>3. ASSUME NEW fo, NEW fr, StartRun(TRUE, fo, fr), next_call' = "step",
               result' = result
        PROVE  OutPromised'
    <3>1. deck.out => OutOpen'
      BY <1>1, <2>1, <2>3, PrepareOpens DEF StartRun, OutPromised
    <3> QED
      BY <2>1, <2>3, <3>1 DEF OutPromised, Writing
  <2> QED
    BY <1>4, <2>2, <2>3 DEF RunStart
<1>5. CASE RunStep \/ RunEnd
  <2>1. UNCHANGED <<pluginVars, deck>> /\ Writing /\ Writing'
    BY <1>5
    DEF RunStep, RunEnd, StepReport, StepComplete, EndCall, StopFor, sessionVars, Writing
  <2>2. next_call' \in {"step", "end", "report"}
    BY <1>5 DEF RunStep, RunEnd
  <2> QED
    BY <2>1, <2>2 DEF OutPromised, OutOpen, pluginVars
<1>6. CASE (\E fr : RunReport(fr)) \/ RunClose \/ RunDestroy
  <2>1. /\ UNCHANGED <<out_file, deck, accepted, result>>
        /\ next_call' \in {"close", "destroy", "return"}
        /\ next_call \in {"report", "close", "destroy"} /\ call = "none"
    BY <1>6
    DEF RunReport, RunClose, RunDestroy, Report, CloseCall, DestroyCall, StopFor, StopSet,
        Idle, WriteSummaryAll, ioVars, history, pluginVars
  <2> QED
    BY <2>1 DEF OutPromised, Writing, Sealed
<1>7. CASE Background
  <2>1. UNCHANGED <<next_call, result>>
    BY <1>7, BackgroundSteps
  <2>2. CASE UNCHANGED <<pluginVars, sessionVars, accepted>>
    BY <2>1, <2>2 DEF OutPromised, Writing, OutOpen, Sealed, pluginVars, sessionVars
  <2>3. CASE UNCHANGED <<pluginVars, sessionVars>> /\ (result = "ok" => Writing)
    BY <2>1, <2>3 DEF OutPromised, Writing, OutOpen, Sealed, pluginVars, sessionVars
  <2>4. CASE /\ WriterUpdate /\ UNCHANGED sessionVars
             /\ next_call \notin {"open", "initialize", "start"}
             /\ result = "ok" => Writing
    <3>1. OutOpen' <=> OutOpen
      BY <1>1, <2>4, UpdateKeepsOpen
    <3> QED
      BY <2>1, <2>4, <3>1 DEF OutPromised, Writing, sessionVars
  <2>5. CASE EndFinish /\ next_call = "report"
    <3>1. call = "end" /\ call' = "none" /\ deck' = deck
      BY <2>5 DEF EndFinish, Stopped
    <3>2. CASE ~deck.out
      BY <3>1, <3>2 DEF OutPromised
    <3>3. CASE deck.out
      <4>1. OutOpen
        BY <2>5, <3>1, <3>3 DEF OutPromised, Writing
      <4>2. Sealed'
        BY <2>5, <4>1, EndSeals
      <4> QED
        BY <2>1, <2>5, <3>1, <4>2 DEF OutPromised, Writing
    <3> QED
      BY <3>2, <3>3
  <2>6. CASE (CloseFinish \/ DestroyFinish) /\ next_call \in {"destroy", "return"} /\ ~Writing
    BY <2>1, <2>6
    DEF CloseFinish, DestroyFinish, UnloadAll, OutPromised, Writing, Sealed, ioVars, history
  <2> QED
    BY <1>7, <2>2, <2>3, <2>4, <2>5, <2>6, BackgroundKinds
<1>8. CASE Returned \/ UNCHANGED runVars
  BY <1>8
  DEF Returned, Gone, runVars, vars, ioVars, history, pluginVars, sessionVars, OutPromised,
      Writing, OutOpen, Sealed
<1> QED
  BY <1>2, <1>3, <1>4, <1>5, <1>6, <1>7, <1>8 DEF RunNext, Client

-----------------------------------------------------------------------------
\* As long as nothing has failed the report is not marked as interrupted, and
\* write_summary() has closed it before the plugins are unloaded.
ReportKept ==
    /\ next_call = "open" => rpt_file = <<>>
    /\ \/ next_call = "initialize" /\ ~errors
       \/ next_call \in {"start", "step"}
       \/ result = "ok"
       => rpt_file # <<"preamble", "interrupted">>
    /\ next_call \in {"close", "destroy", "return"} /\ result = "ok" => ~RptOpen

LEMMA SummaryEnds ==
    ASSUME PluginsKept, NEW fr, WriteSummaryAll(fr),
           rpt_file # <<"preamble", "interrupted">>
    PROVE  rpt_file' # <<"preamble", "interrupted">> /\ ~RptOpen'
<1>1. rpt_file' # <<"preamble", "interrupted">>
  <2>1. RptOpen => rpt_file = <<"preamble">>
    BY DEF PluginsKept, FilesInv, ReportEndsOnce
  <2>2. CASE RptOpen
    <3>1. rpt_file' = Append(<<"preamble">>, "results")
      BY <2>1, <2>2 DEF WriteSummaryAll
    <3>2. Append(<<"preamble">>, "results")[2] = "results"
      OBVIOUS
    <3>3. <<"preamble", "interrupted">>[2] # "results"
      OBVIOUS
    <3>4. rpt_file'[2] # <<"preamble", "interrupted">>[2]
      BY <3>1, <3>2, <3>3, Zenon
    <3> QED
      BY <3>4, Zenon
  <2>3. CASE ~RptOpen
    BY <2>3 DEF WriteSummaryAll
  <2> QED
    BY <2>2, <2>3
<1>2. ~RptOpen'
  <2>1. /\ DOMAIN report_plugins' = DOMAIN report_plugins
        /\ \A i \in DOMAIN report_plugins :
              report_plugins'[i] = SummarizeReport(report_plugins[i], i \in fr)
    BY DEF WriteSummaryAll, Each
  <2>2. ASSUME NEW i \in DOMAIN report_plugins PROVE ~report_plugins'[i].open
    <3>1. /\ report_plugins[i] \in ReportPlugin
          /\ report_plugins[i].open => report_plugins[i].builtin
      BY DEF PluginsKept, FilesInv, PluginTypeOK, AtMostOneBuiltin
    <3>2. CASE report_plugins'[i] = [report_plugins[i] EXCEPT !.open = FALSE]
      BY <3>1, <3>2 DEF ReportPlugin
    <3>3. CASE /\ report_plugins'[i] = [report_plugins[i] EXCEPT !.state = "ERROR"]
               /\ ~report_plugins[i].builtin
      BY <3>1, <3>3 DEF ReportPlugin
    <3> QED
      BY <2>1, <3>2, <3>3 DEF SummarizeReport, Failed
  <2> QED
    BY <2>1, <2>2 DEF RptOpen
<1> QED
  BY <1>1, <1>2

LEMMA ReportStep ==
    ASSUME HandleInv, RunHistory, ReportKept, [RunNext]_runVars
    PROVE  ReportKept'
<1>1. PluginsKept /\ RunPositions
  BY DEF HandleInv, SessionInv
<1>2. CASE RunOpen
  <2>1. PICK d \in Decks : \/ OpenUnreadable(d) \/ OpenUnparsable(d)
                           \/ \E ok \in BOOLEAN : OpenMeshMissing(d, ok) \/ OpenInvalid(d, ok)
                           \/ \E invalid, ok \in BOOLEAN : OpenModel(d, invalid, ok)
    BY <1>2 DEF RunOpen, Open
  <2>2. /\ rpt_file = <<>> /\ result = "none"
        /\ state' = "OPENED" => next_call' = "initialize" /\ result' = "none"
        /\ state' # "OPENED" => next_call' = "destroy" /\ result' = "error"
    BY <1>1, <1>2 DEF RunOpen, RunPositions, ReportKept
  <2>3. CASE state' # "OPENED"
    BY <2>2, <2>3 DEF ReportKept
  <2>4. CASE state' = "OPENED"
    <3>1. PICK invalid, ok \in BOOLEAN : OpenModel(d, invalid, ok)
      BY <2>1, <2>4 DEF OpenUnreadable, OpenUnparsable, OpenMeshMissing, OpenInvalid
    <3>2. ~errors' => rpt_file' = <<>>
      BY <2>2, <3>1 DEF OpenModel
    <3> QED
      BY <2>2, <2>4, <3>2 DEF ReportKept
  <2> QED
    BY <2>3, <2>4
<1>3. CASE RunInitialize
  BY <1>1, <1>3
  DEF RunInitialize, Initialize, InitializeFails, ErrorsAreFatal, RunPositions, ReportKept,
      pluginVars
<1>4. CASE RunStart
  <2>1. next_call = "start" /\ result = "none"
    BY <1>1, <1>4 DEF RunStart, RunPositions
  <2>2. CASE next_call' = "close" /\ result' = "error"
    BY <2>2 DEF ReportKept
  <2>3. ASSUME NEW fo, NEW fr, StartRun(TRUE, fo, fr), next_call' = "step",
               result' = result
        PROVE  ReportKept'
    <3>1. rpt_file' \in {rpt_file, <<"preamble">>}
      BY <2>3 DEF StartRun, PrepareAll
    <3>2. rpt_file # <<"preamble", "interrupted">>
      BY <2>1 DEF ReportKept
    <3>3. rpt_file' # <<"preamble", "interrupted">>
      BY <3>1, <3>2
    <3> QED
      BY <2>1, <2>3, <3>3 DEF ReportKept
  <2> QED
    BY <1>4, <2>2, <2>3 DEF RunStart
<1>5. CASE RunStep \/ RunEnd
  <2>1. rpt_file' = rpt_file /\ next_call \in {"step", "end"}
        /\ next_call' \in {"step", "end", "report"}
    BY <1>5
    DEF RunStep, RunEnd, StepReport, StepComplete, EndCall, StopFor, pluginVars
  <2>2. rpt_file # <<"preamble", "interrupted">>
    BY <1>1, <2>1 DEF RunPositions, ReportKept
  <2> QED
    BY <2>1, <2>2 DEF ReportKept
<1>6. ASSUME NEW fr, RunReport(fr) PROVE ReportKept'
  <2>1. WriteSummaryAll(fr) /\ next_call' = "close" /\ next_call = "report"
    BY <1>6 DEF RunReport, Report
  <2>2. rpt_file # <<"preamble", "interrupted">>
    BY <1>1, <2>1 DEF RunPositions, ReportKept
  <2>3. rpt_file' # <<"preamble", "interrupted">> /\ ~RptOpen'
    BY <1>1, <2>1, <2>2, SummaryEnds
  <2> QED
    BY <2>1, <2>3 DEF ReportKept
<1>7. CASE RunClose \/ RunDestroy
  <2>1. /\ UNCHANGED <<pluginVars, result>>
        /\ next_call \in {"close", "destroy"} /\ next_call' \in {"destroy", "return"}
    BY <1>7 DEF RunClose, RunDestroy, CloseCall, DestroyCall, StopFor
  <2> QED
    BY <2>1 DEF ReportKept, RptOpen, pluginVars
<1>8. CASE Background
  <2>1. UNCHANGED <<next_call, result>>
    BY <1>8, BackgroundSteps
  <2>2. CASE UNCHANGED <<pluginVars, sessionVars>>
    BY <2>1, <2>2 DEF ReportKept, RptOpen, pluginVars, sessionVars
  <2>3. CASE /\ WriterUpdate /\ UNCHANGED sessionVars
             /\ next_call \notin {"open", "initialize", "start"}
             /\ result = "ok" => Writing
    <3>1. rpt_file' = rpt_file /\ errors' = errors
      BY <2>3 DEF WriterUpdate, UpdateAll, sessionVars
    <3>2. ~(next_call \in {"close", "destroy", "return"} /\ result = "ok")
      BY <2>3 DEF Writing
    <3> QED
      BY <2>1, <3>1, <3>2 DEF ReportKept
  <2>4. CASE EndFinish /\ next_call = "report"
    BY <2>1, <2>4 DEF EndFinish, FinalizeAll, ReportKept
  <2>5. CASE (CloseFinish \/ DestroyFinish) /\ next_call \in {"destroy", "return"}
    <3>1. rpt_file' = ReportDestructor /\ report_plugins' = <<>>
      BY <2>5 DEF CloseFinish, DestroyFinish, UnloadAll
    <3>2. ~RptOpen'
      BY <3>1 DEF RptOpen
    <3>3. result = "ok" => rpt_file' = rpt_file
      BY <2>5, <3>1 DEF ReportDestructor, ReportKept
    <3> QED
      BY <2>1, <2>5, <3>2, <3>3 DEF ReportKept
  <2> QED
    BY <1>8, <2>2, <2>3, <2>4, <2>5, BackgroundKinds
<1>9. CASE Returned \/ UNCHANGED runVars
  BY <1>9 DEF Returned, Gone, runVars, vars, pluginVars, sessionVars, ReportKept, RptOpen
<1> QED
  BY <1>2, <1>3, <1>4, <1>5, <1>6, <1>7, <1>8, <1>9 DEF RunNext, Client

-----------------------------------------------------------------------------
RunInv == HandleInv /\ RunHistory /\ RunSafe /\ OutPromised /\ ReportKept

LEMMA RunInvInit == RunInit => RunInv
<1> SUFFICES ASSUME RunInit PROVE RunInv
  OBVIOUS
<1>1. Init /\ state = "CREATED" /\ next_call = "open" /\ result = "none" /\ call = "none"
  BY DEF RunInit, Init
<1>2. SessionInv
  <2>1. OutInv
    BY <1>1 DEF Init, IOInit, PluginInit, OutInv, OutFileIsThisSession, OutOpen
  <2> QED
    BY <1>1, <2>1, InvInit, ControlInit, PluginsInit DEF Init, SessionInv
<1>3. posts[Controller] = 0 /\ pc[Controller] = "idle" /\ accepted = <<>> /\ base = 0
  BY <1>1, ConstantsAssumption DEF Init, IOInit
<1>4. NoSnapshotDiscarded
  BY <1>1, ConstantsAssumption DEF Init, IOInit, NoSnapshotDiscarded
<1>5. RunPositions
  BY <1>1 DEF RunPositions
<1>6. RunHistory
  BY <1>1, <1>3 DEF RunHistory, PostPcs
<1>7. RunSafe /\ OutPromised /\ ReportKept
  BY <1>1 DEF Init, PluginInit, RunSafe, OutPromised, ReportKept, OutOpen, NoDeck
<1> QED
  BY <1>2, <1>4, <1>5, <1>6, <1>7 DEF RunInv, HandleInv

LEMMA RunInvStep == RunInv /\ [RunNext]_runVars => RunInv'
BY HandleInvStep, HistoryStep, SafeStep, PromiseStep, ReportStep DEF RunInv

\* Success is only reported for complete files, however the two threads and the
\* simulation interleave.
THEOREM RunCompleteCorrect == RunSpec => []SuccessMeansCompleteFiles
<1>1. ASSUME RunInv, HasReturned, result = "ok"
      PROVE  /\ deck.out => /\ out_file.header
                            /\ out_file.periods = [i \in 1..posts[Controller] |-> <<Controller, i>>]
                            /\ out_file.footers = <<posts[Controller]>>
             /\ rpt_file \in {<<>>, <<"preamble", "results">>}
  <2>1. next_call = "return" /\ ~Writing
    BY <1>1 DEF RunInv, HandleInv, RunPositions, HasReturned, Writing
  <2>2. rpt_file \in {<<>>, <<"preamble", "results">>}
    BY <1>1, <2>1
    DEF RunInv, ReportKept, HandleInv, SessionInv, PluginsKept, FilesInv, ReportEndsOnce
  <2>3. pc[Controller] \notin {"locking", "waiting_not_full"}
    BY <1>1, <2>1 DEF RunInv, RunHistory, PostPcs
  <2>4. Len(accepted) = posts[Controller]
    <3>1. (IF pc[Controller] \in {"locking", "waiting_not_full"} THEN 1 ELSE 0) = 0
      BY <2>3
    <3>2. Len(accepted) = posts[Controller]
                - (IF pc[Controller] \in {"locking", "waiting_not_full"} THEN 1 ELSE 0)
      BY <1>1 DEF RunInv, HandleInv, NoSnapshotDiscarded
    <3>3. posts[Controller] \in Nat
      BY <1>1, ConstantsAssumption DEF RunInv, HandleInv, SessionInv, IOInv, IOTypeOK
    <3> QED
      BY <3>1, <3>2, <3>3
  <2>5. accepted \in Seq(WriteTask)
    BY <1>1 DEF RunInv, HandleInv, SessionInv, IOInv, IOTypeOK
  <2>6. SnapshotsOf(accepted) = [i \in 1..posts[Controller] |-> <<Controller, i>>]
    <3>1. SnapshotsOf(accepted) = [i \in 1..Len(accepted) |-> accepted[i].snapshot]
      BY <2>5 DEF SnapshotsOf
    <3>2. \A i \in 1..Len(accepted) : accepted[i].snapshot = <<Controller, i>>
      BY <1>1, <2>5 DEF RunInv, RunHistory
    <3> QED
      BY <2>4, <3>1, <3>2
  <2>7. deck.out => Sealed
    BY <1>1, <2>1 DEF RunInv, OutPromised
  <2> QED
    BY <2>2, <2>4, <2>6, <2>7 DEF Sealed
<1>2. RunInv => SuccessMeansCompleteFiles
  BY <1>1 DEF SuccessMeansCompleteFiles
<1> QED
  BY <1>2, RunInvInit, RunInvStep, PTL DEF RunSpec

\* Nothing stays open when swmm_engine_run() has returned, at whichever call it
\* gave up, but for the stream of the .out after a start() that failed for the
\* plugin of the surface.
THEOREM RunCleanCorrect == RunSpec => []NothingLeftBehind
<1>1. ASSUME RunInv, HasReturned
      PROVE  /\ iface = {} /\ worker = "none" /\ output_plugins = <<>>
             /\ leaked # 0 => leaked = 1 /\ result = "error" /\ deck.out /\ deck.h5
  <2>1. next_call = "return" /\ call = "none"
    BY <1>1 DEF RunInv, HandleInv, RunPositions, HasReturned
  <2>2. /\ iface = {}
        /\ leaked # 0 => leaked = 1 /\ result = "error" /\ deck.out /\ deck.h5
    BY <1>1, <2>1 DEF RunInv, RunSafe, LeftByStart
  <2>3. worker = "none" /\ output_plugins = <<>>
    BY <1>1
    DEF RunInv, HandleInv, SessionInv, ControlInv, WriterFollowsCalls, PluginsKept,
        PluginsFollowStates, HasReturned
  <2> QED
    BY <2>2, <2>3
<1>2. RunInv => NothingLeftBehind
  BY <1>1 DEF NothingLeftBehind
<1> QED
  BY <1>2, RunInvInit, RunInvStep, PTL DEF RunSpec
=============================================================================
