CONSTANTS
  Agents = {a1, a2, a3}
  Calls = {c1}
  NoCall = NoCall
  AnyState = AnyState
  NoAgent = NoAgent
  NoQueue = NoQueue
  NoLeg = NoLeg
  SipAgents = {a3}
  q1 = q1
  q2 = q2
  Queues = {q1}
  Members <- MCMembers
  OverflowTo <- MCOverflowTo
  Legs = {l1, l2, l3}
  MaxLegs = 3
  Commands = {"hold", "blind", "consult", "complete", "queue", "presence", "outbound"}
  Faults = {"unregistered", "crash"}
SPECIFICATION Spec
INVARIANTS TypeOK OfferReserved TalkersReserved
PROPERTIES RecoveryFreesAll
CHECK_DEADLOCK FALSE
