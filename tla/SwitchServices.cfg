CONSTANTS
  Parts = {"commands", "events", "ivr", "direct"}
  CmdCalls = {c1, c2}
  Keys = {k1}
  Bodies = {b1}
  Clients = {r1, r2}
  NoClient = NoClient
  Kinds = {"mutate", "enter", "hangup"}
  Expected = {0, 1}
  MaxSent = 3
  MaxVersion = 2
  EvCalls = {e1}
  EvTypes = {"cdr", "rec", "action"}
  MaxEvents = 2
  MaxAttempts = 2
  MaxFailures = 2
  MaxFaults = 1
  n1 = n1
  n2 = n2
  n3 = n3
  n4 = n4
  n5 = n5
  n6 = n6
  n7 = n7
  n8 = n8
  Nowhere = Nowhere
  MaxHops = 4
  MaxTries = 2
  DialKeys = {k1, k2}
  Destinations = {d1, d2}
  NoDestination = NoDestination
  WebLegs = {w1}
  Playbacks = {p1}
  MaxDials = 3
SPECIFICATION ServicesSpec
INVARIANTS TypesOK AtMostOnce EventsAreKept RecordingIsGravest DialsAreTrue
PROPERTIES AnswersAreTrue MovesInFlow ServicesSettle
CHECK_DEADLOCK FALSE
