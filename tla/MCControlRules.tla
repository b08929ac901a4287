--------------------------- MODULE MCControlRules ---------------------------
(* A pump with depth switches and an orifice that takes two ticks to open or *)
(* close.  Times are even and odd multiples of half a step, events overlap   *)
(* and lie between two steps.                                                *)
EXTENDS ControlRules

OneTick == [l \in Links |-> IF l \in Pumps THEN 0 ELSE 1]

If(var, l, value) == [logic |-> "IF", var |-> var, link |-> l, value |-> value]
And(var, l, value) == [logic |-> "AND", var |-> var, link |-> l, value |-> value]
Or(var, l, value) == [logic |-> "OR", var |-> var, link |-> l, value |-> value]
Set(l, value) == [link |-> l, value |-> value]
MakeRule(premises, then, else, priority) ==
  [premises |-> premises, then_actions |-> then, else_actions |-> else,
   priority |-> priority, parses |-> TRUE]
MakeModel(rules_, off, rule_step, events, steady, steps, total) ==
  [rules |-> rules_, off |-> off, rule_step |-> rule_step, events |-> events,
   skip_steady |-> steady, steps |-> steps, total |-> total]
Window(start, end) == [start |-> StartDate + start, end |-> StartDate + end]

CONSTANTS pump, orifice

AtTime(t) == MakeRule(<<If("SIM_TIME", pump, t)>>, <<Set(pump, 0), Set(orifice, 0)>>, <<>>, 1)
Filling == MakeRule(<<If("DEPTH", pump, 2)>>, <<Set(pump, 1)>>, <<Set(orifice, Full)>>, 1)
Rested == MakeRule(<<If("TIMECLOSED", orifice, 1), And("DEPTH", pump, 2),
                     Or("TIMEOPEN", pump, 1)>>,
                   <<Set(orifice, 1), Set(pump, 0)>>, <<>>, 2)
Broken == [Filling EXCEPT !.parses = FALSE]

McTexts == {AtTime(2), Broken}
McForcings == {[mode |-> "OVERRIDE", value |-> 1, persist |-> FALSE],
               [mode |-> "ADD", value |-> 1, persist |-> TRUE]}
McModels ==
  {MakeModel(<<AtTime(1), Rested>>, {pump}, rule_step, <<>>, TRUE, {2}, 5) : rule_step \in {0, 3}}
  \cup {MakeModel(<<Filling, Rested>>, {}, 2, <<>>, FALSE, {1, 3}, 5)}
  \cup {MakeModel(<<Filling>>, {}, 0, <<Window(0, 2), Window(1, 4), Window(5, 5), Window(6, 9)>>,
                  FALSE, {1, 2}, 7)}
=============================================================================
