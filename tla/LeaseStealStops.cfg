SPECIFICATION Spec
CONSTANTS
  Agents = {a1, a2}
  Cmds = {c1}
  NumEnvs = 1
  MaxGen = 4
  Nobody = nobody
  Faults = {"exit", "steal"}
SYMMETRY Symmetry
INVARIANT HeldWhileStopped
CHECK_DEADLOCK FALSE
