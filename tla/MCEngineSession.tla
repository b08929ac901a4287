--------------------------- MODULE MCEngineSession ---------------------------
\* Small instances of EngineSession: one caller, a few kinds of model.
EXTENDS EngineSession

CONSTANT main

MCThreads == {main}
MCPeriodData == Snapshots

\* A model with every kind of file and no [PLUGINS].
FullDeck == [out |-> TRUE, rpt |-> TRUE, h5 |-> TRUE, rows |-> 0,
             files |-> {"routing", "runoff", "rdii"}]
\* A model with a [PLUGINS] row and no .out.
PluginDeck == [out |-> FALSE, rpt |-> TRUE, h5 |-> FALSE, rows |-> 1,
               files |-> {"rdii"}]
\* A model with an .out and nothing else.
OutDeck == [out |-> TRUE, rpt |-> FALSE, h5 |-> FALSE, rows |-> 0, files |-> {}]

FullDecks == {FullDeck}
PluginDecks == {PluginDeck}
OutDecks == {OutDeck}
TwoDecks == {FullDeck, PluginDeck}
=============================================================================
