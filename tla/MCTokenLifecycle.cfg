CONSTANTS
  None = None
  Sids = {s1, s2}
  Users = {u1, u2}
  Ttls = {0, 1, 2}
  Retention = 1
  MaxTokens = 2
  MaxTime = 2
SPECIFICATION Spec
INVARIANTS TypeOK SingleUse GrantsAreSound
