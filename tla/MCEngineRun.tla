----------------------------- MODULE MCEngineRun -----------------------------
\* Small instances of EngineRun: the models of MCEngineSession.
EXTENDS EngineRun

CONSTANT main

MCThreads == {main}
MCPeriodData == Snapshots

\* With and without an .out, a .rpt and a surface file, with all the interface
\* files or none.
RunDecks == [out : BOOLEAN, rpt : BOOLEAN, h5 : BOOLEAN, rows : {0, 1},
             files : {{}, {"routing", "runoff", "rdii"}}]
==============================================================================
