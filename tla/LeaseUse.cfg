SPECIFICATION FairSpec
CONSTANTS
  Agents = {a1, a2}
  Cmds = {c1, c2}
  NumEnvs = 2
  MaxGen = 4
  Nobody = nobody
  Faults = {"exit", "lapse"}
INVARIANT StopCovered
PROPERTY ImplementsFairUse
CHECK_DEADLOCK FALSE
