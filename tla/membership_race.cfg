SPECIFICATION MCSpec
CONSTANTS
  t1 = t1
  t2 = t2
  Tasks = {t1, t2}
  Slots = {group, permissionSet, permissionSetGroup}
  group = group
  permissionSet = permissionSet
  permissionSetGroup = permissionSetGroup
  KindOf <- MCKindOf
  EmptyValue = EmptyValue
  Absent = Absent
  Values <- MCValues
  Requests <- MembershipRequests
  Goal <- MembershipGoal
  Allowed <- MembershipGoal
  MaxAttempts = 1
  FirstId = 2
  MaxDrift = 1
INVARIANTS
  DoneWitnessed
  AlreadyWitnessed
  ComplaintWitnessed
  RetrySucceeds
  SettledInGoal
PROPERTIES
  NoCollateral
  KeepsContract
  EveryTaskAnswered
  HandlersRunOut
