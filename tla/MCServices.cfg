SPECIFICATION Spec
CONSTANTS
  Requests = {r1, r2}
  MaxRecords = 4
  MaxFiles = 3
  MaxMails = 3
  MaxItems = 2
  FSOs = {f1, f2}
  MaxLate = 2
  Staff = {u1, u2}
  Requirements = {q1, q2}
  DailyLimit = 3
  MaxCalls = 6
  Forms = {c1, c2}
  Mixes <- Operations
  Faults = TRUE
SYMMETRY Symmetry
INVARIANTS
  TypeOK
  PartedOnlySince
  OneCurrentUnlessDoubt
  NoSecondDigest
  ToldInEveryBucket
  LimitExceededOnlyByOverlap
PROPERTIES
  ContentLostOnlyBy
  OrphanLeftOnlyBy
  MissedOnlyBy
  UnreadyOnlyBy
  UnauthorisedOnlyBy
\* Records, files, items, days and tasks of the model run out.
CHECK_DEADLOCK FALSE
