SPECIFICATION Spec
CONSTANTS
  r1 = r1
  r2 = r2
  r3 = r3
  r4 = r4
  conversation = conversation
  NoRequest = NoRequest
  Agents = {"claude", "codex", "gemini"}
  Request = {r1, r2, r3, r4}
  Conversation = {conversation}
  Contents <- SomeContents
  Messages <- SomeMessages
  maxSeenRequests = 1
  MaxLines = 7
  MaxGen = 2
SYMMETRY SymmetricRequests
INVARIANTS TypeOK ReplayIsRemembered 
CHECK_DEADLOCK FALSE
