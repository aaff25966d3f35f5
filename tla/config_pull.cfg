CONSTANTS
  Slots = {1}
  FailKinds = {"version", "values"}
  MaxCreates = 3
  MaxFailures = 2
SPECIFICATION FairSpec
INVARIANT TypeOK
 
 
PROPERTY WaitEnds
CHECK_DEADLOCK FALSE
