SPECIFICATION Spec
CONSTANTS
  SourceKeys = {s1}
  Hashes = {h1, h2}
  Profiles = {p1, p2}
  Assets = {a1}
  Payloads = {o1}
  RuleSets = {r1}
  Decisions = {d1}
  ConfigKeys = {k1, k2}
  ConfigVersions = {v1, v2}
  None = None
  CommitMayFail = TRUE
  MaxTouches = 3
INVARIANT RolledBackOnThrow
