\* One attempt and no fault: its timeouts alone.
CONSTANTS
  Faults = {}
SPECIFICATION Spec
CHECK_DEADLOCK FALSE
INVARIANTS VerifiedDead
