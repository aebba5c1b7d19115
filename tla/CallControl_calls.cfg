CONSTANTS
  Agents = {a1, a2}
  Calls = {c1, c2}
  NoCall = NoCall
  AnyState = AnyState
  NoAgent = NoAgent
  NoQueue = NoQueue
  NoLeg = NoLeg
  SipAgents = {a2}
  q1 = q1
  q2 = q2
  Queues = {q1, q2}
  Members <- MCMembers
  OverflowTo <- MCOverflowTo
  Legs = {l1, l2, l3}
  MaxLegs = 2
  Commands = {"blind", "consult", "complete", "ivr", "outbound"}
  Faults = {"crash"}
SPECIFICATION Spec
INVARIANTS NoStrayReservation ActiveIsStaffed HangupReleases
PROPERTY EachAgentLifecycle
SYMMETRY SymmetryOfCalls
CHECK_DEADLOCK FALSE
