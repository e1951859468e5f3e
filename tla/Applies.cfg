SPECIFICATION Spec
CONSTANTS
  Instances = {db, app}
  Substrate = {db}
  Trees = {app}
  Probed = {db}
  MaxEdit = 2
  Faults <- AllFaults
INVARIANTS
  
  TrackedIsDeployed
  NothingRecordedAhead
CHECK_DEADLOCK FALSE
