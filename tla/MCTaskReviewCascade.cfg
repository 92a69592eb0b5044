\* The board's cascade against the router's task_submission updater.
SPECIFICATION Spec
CONSTANTS
  Completions = {c1}
  Requests = {r1, r2}
  MaxSubmissions = 1
  Operations = {"submit", "item"}
  Faults = FALSE
SYMMETRY Symmetry
PROPERTIES ProcessingApproves
