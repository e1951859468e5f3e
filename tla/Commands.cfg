CONSTANTS
  p1 = p1
  p2 = p2
  Procs = {p1, p2}
  Slugs = {"a", "b", "c"}
  MaxEnvs = 3
  Preferred <- TwoAndOneMore
  Accounts = {1, 2, 3, 4}
  Initially <- NoneOrTwo
  MaxCommands = 3
  Faults = {"quit"}
SPECIFICATION Spec
SYMMETRY Symmetry
INVARIANTS TypeOK   
PROPERTIES  ImplementsEdits
CHECK_DEADLOCK FALSE
