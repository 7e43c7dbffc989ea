CONSTANTS
  Inputs = {hello, wake}
  Perishable = {hello}
  Paths = {"jetstream", "core"}
  MaxDeliver = 2
  MaxCopies = 2
  MaxCrashes = 1
  Faults = {"drop", "late", "slow", "ackloss", "crash", "slowstart"}
SPECIFICATION Spec
INVARIANTS OnceUnlessExcused NothingAbandoned
PROPERTIES ImplementsMailbox Answered
CHECK_DEADLOCK FALSE
