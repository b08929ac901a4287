SPECIFICATION Spec
CONSTANTS
  Models <- MCModels
  NewNames <- MCNewNames
  MaxEdits = 2
  Followed <- MCFollowed
PROPERTY EveryColumnFollows
CHECK_DEADLOCK FALSE
