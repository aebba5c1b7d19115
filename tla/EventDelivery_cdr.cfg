CONSTANTS
  EvCalls = {e1}
  EvTypes = {"cdr", "rec"}
  MaxEvents = 2
  MaxAttempts = 2
  MaxFailures = 2
  MaxFaults = 1
SPECIFICATION Spec
INVARIANTS CdrFollowsCall
CHECK_DEADLOCK FALSE
