SPECIFICATION FairSpec
CONSTANTS
  Agents = {a1, a2}
  Cmds = {c1, c2, c3}
  NumEnvs = 1
  MaxGen = 5
  Nobody = nobody
  Faults = {"exit", "lapse", "crash", "steal", "longstop"}
INVARIANT IInv
PROPERTIES
  RightfulLoss
  NeverWedged
CHECK_DEADLOCK FALSE
