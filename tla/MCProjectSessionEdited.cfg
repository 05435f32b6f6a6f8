SPECIFICATION Spec
CONSTANTS
  cache = cache
  book = book
  m1 = m1
  m2 = m2
  w1 = w1
  w2 = w2
  p1 = p1
  p2 = p2
  flow = flow
  ModelKey = model
  Paths <- MCPaths
  Hashes <- MCHashes
  SourceKeys <- MCKeys
  Contents <- MCContents
  Registers <- MCRegisters
  Profiles <- MCProfiles
  Assets = {}
  Payloads = {}
  RuleSets = {}
  Decisions = {}
  ConfigKeys = {k1}
  ConfigVersions = {default, tuned, unreadable}
  Blank = blank
  Default = default
  Unreadable = unreadable
  Legacy = tuned
  None = None
  MaxTouches = 4
  MaxEdits = 1
SYMMETRY Symmetry
INVARIANT ProvenanceHonest
