CONSTANTS
  Runs = {r1, r2, r3}
  Limit = 2
  MaxKept = 1
SPECIFICATION FairSpec
INVARIANTS SlotsAreExact
PROPERTIES ImplementsSlots CapacityReturns RetentionKeepsEnough
CHECK_DEADLOCK FALSE
