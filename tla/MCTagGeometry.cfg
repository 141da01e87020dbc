CONSTANTS
  None = None
  Dynamic = Dynamic
  A = A
  B = B
  Statics <- MCStatics
  Commands = {"dynamic on", "commit", "layout", "disable", "enable"}
  MaxCommands = 2
SPECIFICATION Spec
SYMMETRY MCSymmetry
INVARIANTS OneGeometry StaticUnlessSwitched
CHECK_DEADLOCK FALSE
