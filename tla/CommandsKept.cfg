SPECIFICATION SpecCommands
CONSTANTS
  Agents = {a1, a2}
  Cmds = {c1, c2}
  NumEnvs = 2
  MaxGen = 4
  Nobody = nobody
  Faults = {"exit", "lapse"}
  Habits = {"one-acquire", "takes-idle", "waits"}
SYMMETRY Symmetry
INVARIANTS  NoDeployOverAnother NoStopUnderChange
CHECK_DEADLOCK FALSE
