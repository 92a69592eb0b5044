SPECIFICATION Spec
CONSTANTS
  Requests = {r1}
  Tenants = {t1}
  MaxIds = 1
  Admins = {a1}
  Orgs = {o1, o2}
  Members = {u1}
  Mixes <- Operations
  Faults = FALSE
INVARIANT NamesDistinct
CHECK_DEADLOCK FALSE
