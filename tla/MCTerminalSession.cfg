\* A connection, a re-attach and a restart in any order, one fault.
CONSTANTS
  None = None
  MaxCalls = 3
  MaxRestarts = 1
  MaxFaults = 1
SPECIFICATION FairSpec
CHECK_DEADLOCK FALSE
INVARIANTS
  TypeOK
  ProcessIsHeld
PROPERTIES
  LeavingSignalsProcesses
  ReconnectingEnds
