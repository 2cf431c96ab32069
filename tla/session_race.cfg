SPECIFICATION Spec
CONSTANTS
  Calls = {t1, t2, t3}
  Nil = Nil
  AtLogin = AtLogin
SYMMETRY Symmetry
INVARIANTS
  SessionComplete
  LimitsAreRecent
