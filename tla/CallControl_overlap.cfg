CONSTANTS
  Agents = {a1, a2}
  Calls = {c1, c2}
  NoCall = NoCall
  AnyState = AnyState
  NoAgent = NoAgent
  NoQueue = NoQueue
  NoLeg = NoLeg
  SipAgents = {a2}
  q1 = q1
  q2 = q2
  Queues = {q1}
  Members <- MCMembers
  OverflowTo <- MCOverflowTo
  Legs = {l1}
  MaxLegs = 2
  Commands = {"consult", "ivr", "conference", "overlap", "outbound"}
  Faults = {"room", "recording", "crash"}
SPECIFICATION Spec
INVARIANTS MemoryPersisted
PROPERTIES EndedForGood
SYMMETRY SymmetryOfCalls
CHECK_DEADLOCK FALSE
