CONSTANTS
  OnFailure = TRUE
  BufferCap = 1
  MaxOutput = 2
  MaxFaults = 1
  Faults = {"agent", "sidecar", "node", "core", "stream", "slow"}
SPECIFICATION FairSpec
INVARIANTS TypeOK NumbersNameEvents OutputInOrder OneTerminalEvent EndIsAnnounced
PROPERTIES OutputArchived ImplementsReports
CHECK_DEADLOCK FALSE
