SPECIFICATION Spec
CONSTANTS
  Tasks = {t1}
  role = role
  profile = profile
  r1 = r1
  p1 = p1
  least = least
  full = full
  unmapped = unmapped
  None = None
  Slots = {role, profile}
  Roles = {r1}
  Profiles = {p1, least}
  Licenses = {full, unmapped}
  FieldOf <- MCFieldOf
  UserLicenseOf <- MCUserLicenseOf
  licenseToLeastProfileMapping <- MCMapping
  EmptyValue = EmptyValue
  Absent = Absent
  Values <- MCValues
  Requests <- UserFieldRequests
  Goal <- UserFieldGoal
  Allowed <- UserFieldAllowed
  MaxAttempts = 3
  FirstId = 3
  MaxDrift = 0
INVARIANT RepeatSucceeds
