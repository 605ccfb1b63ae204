SPECIFICATION Spec
CONSTANTS
    Ids = {c1, c2}
    Scopes = {s1}
    Operators = {p1, p2}
    Requests = {r1}
    Horizon = 3
    ExpiryDates = {2}
    Resolution = 1
    LegacyConfigured = TRUE
    LegacyScopes = {}
SYMMETRY Symmetry
CHECK_DEADLOCK FALSE
INVARIANTS EffectiveOnNextRequest TrailIsTrue
PROPERTIES WithdrawnForGood RotationKeepsAWayIn PruneSparesRecent
