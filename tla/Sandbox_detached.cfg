\* One attempt whose command may close its stdout and stderr, and no other fault.
CONSTANTS
  Faults = {"detached"}
SPECIFICATION Spec
CHECK_DEADLOCK FALSE
INVARIANTS RecordedDead
