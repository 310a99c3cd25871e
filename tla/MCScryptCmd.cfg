SPECIFICATION Spec
CONSTANTS
  Files = {F, G, New}
  New = New
  Device = Device
  Pipe = Pipe
  Stdout = Stdout
  Absent = Absent
  None = None
  Units = 2
CHECK_DEADLOCK FALSE
INVARIANTS InputIntact RejectedTouchesNothing ExitZeroMeansWhole AllReleased
