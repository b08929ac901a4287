\* A pump and an orifice, four models in two runs on one handle, so that the
\* second finds the rules and the rule timer of the first; one call of the client
\* at any point.
SPECIFICATION Spec
CONSTANTS
  pump = pump
  orifice = orifice
  Links = {pump, orifice}
  Pumps = {pump}
  Ramp <- OneTick
  Full = 2
  Depths = {0, 2}
  OnDepth = 1
  OffDepth = 1
  StartDate = 1
  Models <- McModels
  Texts <- McTexts
  Forcings <- McForcings
  MaxTexts = 5
  MaxRuns = 2
  MaxCalls = 1
INVARIANTS ControlTypeOK StoredRulesAct AgeSinceCrossing EqualTimeFiresOnce
PROPERTIES EventLosesAtMostOneStep RuleStepKept
CHECK_DEADLOCK FALSE
