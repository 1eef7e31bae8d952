\* One invocation starts a server, another one disconnects it.
CONSTANTS
  None = None
  Empty = Empty
  Clis = {c1, c2}
  Servers = {s1}
  MaxCrashes = 0
SPECIFICATION Spec
CHECK_DEADLOCK FALSE
INVARIANT
  OnlyDeadOwnersAreRemoved
