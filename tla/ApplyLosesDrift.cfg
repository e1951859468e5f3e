SPECIFICATION Spec
CONSTANTS
  Instances = {db, app}
  Substrate = {db}
  Trees = {}
  Probed = {db}
  MaxEdit = 2
  Faults = {"fail"}
INVARIANT AppliedIsDeployed
CHECK_DEADLOCK FALSE
