SPECIFICATION Spec
CONSTANTS
  gpt = gpt
  mini = mini
  opus = opus
  dear = dear
  cheap = cheap
  custom = custom
  fallback = fallback
  r1 = r1
  r2 = r2
  NoFile = NoFile
  NoDocument = NoDocument
  Char = {gpt, mini, opus}
  Price = {dear, cheap, custom, fallback}
  FallbackPricing = fallback
  DefaultPricing <- DefaultTable
  Models <- Asked
  Document <- Documents
  EmptyDocument <- Empty
  Default <- DefaultConfig
  Env <- EnvSettings
  Reloader = {r1, r2}
  MaxEdits = 2
INVARIANTS TypeOK  PriceIsLongestPrefix
 
CHECK_DEADLOCK FALSE
