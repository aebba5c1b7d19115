CONSTANTS
  Agents = {a1}
  Calls = {c1}
  NoCall = NoCall
  AnyState = AnyState
  NoAgent = NoAgent
  NoQueue = NoQueue
  NoLeg = NoLeg
  SipAgents = {a1}
  q1 = q1
  q2 = q2
  Queues = {q1}
  Members <- MCMembers
  OverflowTo <- MCOverflowTo
  Legs = {l1, l2}
  MaxLegs = 2
  Commands = {}
  Faults = {"unregistered"}
SPECIFICATION FairSpec
PROPERTIES DispatchReturns
CHECK_DEADLOCK FALSE
