\* Safety with faults, one completion, three racing requests.
SPECIFICATION Spec
CONSTANTS
  Completions = {c1}
  Requests = {r1, r2, r3}
  MaxSubmissions = 2
  Operations = {"view", "save", "submit", "approve", "reject", "item"}
  Faults = TRUE
SYMMETRY Symmetry
INVARIANTS TypeOK StatusAgreesWithLedger
PROPERTIES LedgerSpec WaitingHiddenOnlyBy StaleLeftOnlyBy
