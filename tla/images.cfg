CONSTANTS
  Dockerfiles = {alpine, debian}
  Reference = reference
  Blank = blank
  Callers = {ann, bob}
  MaxMarks = 3
  MaxCrashes = 1
  Faults = {"crash", "drop", "stall", "throw"}
SPECIFICATION Spec
INVARIANTS NothingStranded ClaimedOnce FreshUnlessCrossed PinnedWorks
PROPERTIES Settles
CHECK_DEADLOCK FALSE
