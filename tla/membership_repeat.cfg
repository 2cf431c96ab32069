SPECIFICATION Spec
CONSTANTS
  t1 = t1
  t2 = t2
  Tasks = {t1}
  Slots = {permissionSet}
  group = group
  permissionSet = permissionSet
  permissionSetGroup = permissionSetGroup
  KindOf <- MCKindOf
  EmptyValue = EmptyValue
  Absent = Absent
  Values <- MCValues
  Requests <- MembershipRequests
  Goal <- MembershipGoal
  Allowed <- MembershipGoal
  MaxAttempts = 3
  FirstId = 2
  MaxDrift = 0
INVARIANT RepeatSucceeds
