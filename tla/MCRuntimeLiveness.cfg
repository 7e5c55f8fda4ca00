SPECIFICATION FairSpec
CONSTANTS
  Users = {u1}
  Tokens = {k1, k2}
  Jobs = {j1, j2}
  Tasks = {t1}
  Admin = Admin
  None = None
  Nobody = Nobody
  MaxSequence = 2
PROPERTIES
  TasksReturn
  LoginJobsFinish
