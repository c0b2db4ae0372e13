SPECIFICATION Spec
CONSTANTS
  conversation = conversation
  chat = chat
  uuid = uuid
  bare = bare
  session = session
  project = project
  SessionPrefix = session
  Unsafe = {}
  Underscore = Underscore
  poll = poll
  callback = callback
  NoId = NoId
  File <- Logs
  Agent <- Owner
  Dir <- Dirs
  Stem <- Stems
  Discoverers <- Order
  Poller = {poll}
  Callback = {callback}
  Capacity = 1
  MaxLines <- LinesOf
  Deletable <- Deleted
INVARIANTS TypeOK OneSessionPerFile LinesOnce 
 
CHECK_DEADLOCK FALSE
