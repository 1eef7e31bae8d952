\* Restart is clicked while the panel re-attaches.
CONSTANTS
  None = None
  MaxCalls = 3
  MaxRestarts = 1
  MaxFaults = 1
SPECIFICATION Spec
CHECK_DEADLOCK FALSE
PROPERTY
  RestartAbortsReattach
