\* One attempt under every fault but a lack of descriptors.
CONSTANTS
  Faults = {"cancel", "crash", "recycle", "broken", "detached"}
SPECIFICATION FairSpec
CHECK_DEADLOCK FALSE
INVARIANTS TypeOK OutcomeKilled NoForeignSignal ReaderOpen
PROPERTIES GraceRespected AttemptEnds NothingOutlives
