CONSTANTS
  Queues = {q1}
  Flows = {f1}
  Dids = {d1}
  Editors = {e1, e2}
  Calls = {c1}
  MaxVersions = 2
  MaxRefs = 1
SPECIFICATION Spec
INVARIANT NoLostUpdate
CHECK_DEADLOCK FALSE
