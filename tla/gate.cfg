SPECIFICATION Spec
CONSTANTS
  Api = api
  c1 = c1
  c2 = c2
  key = key
  read = read
  write = write
  Procs <- MCProcs
  Keys <- MCKeys
  Scopes <- MCScopes
  LegacyScopes <- MCLegacyScopes
  SystemRead = read
  Unset = unset
  Short = short
  Absent = absent
  Empty = empty
  None = none
  NoToken = noToken
  Tokens = {t1}
  Requests = {r1}
  LegacyConfigured = TRUE
SYMMETRY MCSymmetry
INVARIANTS
  GenuineTokensVerify
  GrantedWasProved
  
  TrailTellsOneStory
CHECK_DEADLOCK FALSE
