SPECIFICATION Spec
CONSTANTS
  Tasks = {t1}
  Slots = {s1}
  Roles = {r1}
  Member = Member
  EmptyValue = EmptyValue
  Absent = Absent
  Values <- MCValues
  Requests <- TerritoryRequests
  Goal <- TerritoryGoal
  Allowed <- TerritoryAllowed
  MaxAttempts = 3
  FirstId = 2
  MaxDrift = 0
INVARIANT NotFoundOnRevokeIsSuccess
