CONSTANTS
  Runs = {r1, r2, r3}
  Limit = 2
  MaxKept = 2
SPECIFICATION Spec
PROPERTY SurvivorsAreMostRecent
CHECK_DEADLOCK FALSE
