---------------------------- MODULE MCPluginCalls ----------------------------
\* Small instances of PluginCalls.
EXTENDS PluginCalls

CONSTANTS s1, s2

MCPeriodData == {s1, s2}
=============================================================================
