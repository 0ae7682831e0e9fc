SPECIFICATION Spec
CONSTANTS
  Bodies <- MCBodies
  MaxItems = 4
  MaxFiles = 1
INVARIANTS LostOnly TwiceOnly DocumentsClosed
CHECK_DEADLOCK FALSE
