SPECIFICATION Spec
CONSTANTS
  Tasks = {t1, t2}
  Slots = {s1, s2}
  Roles = {r1, r2}
  Member = Member
  EmptyValue = EmptyValue
  Absent = Absent
  Values <- MCValues
  Requests <- TerritoryRequests
  Goal <- TerritoryGoal
  Allowed <- TerritoryAllowed
  MaxAttempts = 1
  FirstId = 2
  MaxDrift = 0
SYMMETRY Symmetry
INVARIANTS
  TypeOK
  IdsOwned
  DoneWitnessed
  AlreadyWitnessed
  SettledInGoal
  NoSelfInflictedError
PROPERTIES
  NoCollateral
  KeepsContract
