CONSTANTS
  Agents = {a1, a2, a3}
  Calls = {c1}
  NoCall = NoCall
  AnyState = AnyState
  NoAgent = NoAgent
  NoQueue = NoQueue
  NoLeg = NoLeg
  SipAgents = {a3}
  q1 = q1
  q2 = q2
  Queues = {q1}
  Members <- MCMembers
  OverflowTo <- MCOverflowTo
  Legs = {l1, l2, l3}
  MaxLegs = 2
  Commands = {"blind", "consult", "complete", "ivr", "outbound", "conference", "queue", "hold"}
  Faults = {"unregistered", "crash"}
SPECIFICATION FairSpec
PROPERTIES OffersEnd HandlersEnd
CHECK_DEADLOCK FALSE
