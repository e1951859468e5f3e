SPECIFICATION Spec
CONSTANTS
  p1 = p1
  p2 = p2
  Procs = {p1, p2}
  Ports = {1, 2, 3}
  MaxCommands = 2
  MaxEvents = 2
  Faults = {"cut-off", "fails", "kill", "wipe", "wipe-data", "taken", "bump"}
  Declarations <- FullAndCore
INVARIANTS
  TypeOK
  
  
PROPERTIES
  
  PortsStay
SYMMETRY Symmetry
CHECK_DEADLOCK FALSE
