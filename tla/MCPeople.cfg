SPECIFICATION Spec
CONSTANTS
  Requests = {r1, r2}
  Tenants = {t1, t2}
  MaxIds = 3
  Admins = {a1, a2, a3}
  Orgs = {o1, o2, o3}
  Members = {u1}
  Mixes <- Operations
  Faults = TRUE
SYMMETRY Symmetry
INVARIANTS TypeOK ScopeFollows
PROPERTIES LastAdminLostOnlyBy MembershipLostOnlyBy PhantomLeftOnlyBy UnplacedOnlyBy
CHECK_DEADLOCK FALSE
