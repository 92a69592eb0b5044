SPECIFICATION Spec
CONSTANTS
  Uploads = {u1, u2}
  NoUpload = NoUpload
  Names = {n1, n2}
  Workers = {w1, w2}
  MaxAttempts = 3
  Overlap = TRUE
  Faults = TRUE
SYMMETRY Symmetry
INVARIANTS TypeOK OwnFileUnlessNameShared
PROPERTIES FilesLeftOnlyBy PendingLeftOnlyBy VerdictStands
\* The uploads of the model run out, and then everything may be done.
CHECK_DEADLOCK FALSE
