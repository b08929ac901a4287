----------------------------- MODULE SnapshotLog -----------------------------
(***************************************************************************)
(* What the writer thread promises to the engine, without threads, locks or *)
(* condition variables: a log to which snapshots are added while a session  *)
(* is open and which is written in the order of the additions, at most      *)
(* Capacity + 1 entries behind; a session ends only once the whole log is   *)
(* written (IOThread.hpp: stop() "waits for all queued tasks to be          *)
(* processed, then joins the thread").                                      *)
(***************************************************************************)
EXTENDS Naturals, Sequences

CONSTANTS Entries, Capacity

VARIABLES
    log,      \* the entries added, over all sessions
    written,  \* those that reached the output plugins
    phase     \* "closed", "open" or "draining"

logVars == <<log, written, phase>>

LogInit ==
    /\ log = <<>>
    /\ written = <<>>
    /\ phase = "closed"

Backlog == Len(log) - Len(written)

Open ==
    /\ phase = "closed"
    /\ phase' = "open"
    /\ UNCHANGED <<log, written>>

Add(e) ==
    /\ phase = "open"
    /\ Backlog <= Capacity
    /\ log' = Append(log, e)
    /\ UNCHANGED <<written, phase>>

Write ==
    /\ Backlog > 0
    /\ written' = Append(written, log[Len(written) + 1])
    /\ UNCHANGED <<log, phase>>

Drain ==
    /\ phase' = "draining"
    /\ UNCHANGED <<log, written>>

Close ==
    /\ phase = "draining"
    /\ Backlog = 0
    /\ phase' = "closed"
    /\ UNCHANGED <<log, written>>

LogNext == Open \/ (\E e \in Entries : Add(e)) \/ Write \/ Drain \/ Close

LogSafeSpec == LogInit /\ [][LogNext]_logVars
LogSpec == LogSafeSpec /\ WF_logVars(Write) /\ WF_logVars(Close)
=============================================================================
