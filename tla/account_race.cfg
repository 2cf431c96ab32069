SPECIFICATION Spec
CONSTANTS
  Calls = {t1, t2}
  MaxUsers = 2
  maxRetries = 2
  MaxDrift = 1
SYMMETRY Symmetry
CONSTRAINT OneMishap
INVARIANTS
  CreateWitnessed
  MailWitnessed
  AccountUsable
  ReportTrue
  StatusWitnessed
  RepeatCompletes
PROPERTIES
  WritesFounded
  CallsRunOut
