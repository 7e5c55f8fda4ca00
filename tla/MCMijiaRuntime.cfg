SPECIFICATION Spec
CONSTANTS
  Users = {u1, u2}
  Tokens = {k1, k2, k3}
  Jobs = {j1, j2}
  Tasks = {t1, t2}
  Admin = Admin
  None = None
  Nobody = Nobody
  MaxSequence = 2
SYMMETRY Interchangeable
INVARIANTS
  RegistryOwned
  ControlReachesOwner
  RefreshedFromStored
PROPERTIES
  SuccessMeansStored
  ServesLogins
  ImplementsOwnership
