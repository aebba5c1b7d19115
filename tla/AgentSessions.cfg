CONSTANTS
  Agents = {a1, a2}
  Calls = {c1, c2}
  NoCall = NoCall
  AnyState = AnyState
SPECIFICATION Spec
INVARIANTS TypeOK GrantKept
PROPERTY EachAgentLifecycle
CHECK_DEADLOCK FALSE
