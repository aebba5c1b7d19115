CONSTANTS
  Parts = {"recording", "prompts", "audio", "assets", "room", "ice", "dtmf", "playout", "sip"}
  RecIds = {g1, g2}
  NoRec = NoRec
  RecLegs = {l1}
  QueueCap = 1
  MaxFrames = 2
  MaxSeq = 2
  MaxSleeps = 2
  MaxGens = 1
  Length = 1
  FadeFrames = 2
  AudioLegs = {a1}
  PlayLegs = {a1, a2}
  Assets = {s1, s2}
  Frames = 1
  OutputCap = 2
  EventCap = 1
  MaxGen = 3
  MaxWrites = 2
  RoomLegs = {m1}
  NoPeer = NoPeer
  MaxPeers = 2
  MaxJoins = 2
  Candidates = {u1, u2}
  NoJoin = NoJoin
  KeyLegs = {k1, k2}
  SipKeys = {k1}
  MaxKeys = 3
  Repeats = 2
  Width = 3
  Start = 6
  Capacity = 3
  LateRun = 3
  Sizes = {1, 2}
  Ahead = 1
  Back = 2
  MaxPos = 9
  InDialogs = {i1}
  OutDialogs = {o1}
  MaxHops = 1
  MaxDefers = 1
  MaxEndings = 2
SPECIFICATION Spec
INVARIANTS TypesOK TakenIsKept EndsToldOnce NothingLost NothingAfterEnd InOrder FlowWaitsForAnswer
PROPERTIES NothingOldPlays MediaSettles
CHECK_DEADLOCK FALSE
