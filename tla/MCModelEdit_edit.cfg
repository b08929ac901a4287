SPECIFICATION Spec
CONSTANTS
  Models <- MCModels
  NewNames <- MCNewNames
  MaxEdits = 2
  Followed <- MCFollowed
INVARIANTS EditTypeOK SubtypesMatch FuseUndoesSplit MatricesAligned
PROPERTIES ImplementsModelGraph DeletionForetold
CHECK_DEADLOCK FALSE
