CONSTANTS
  root = root
  o1 = o1
  t1 = t1
  a1 = a1
  a2 = a2
  free = free
  pro = pro
  Operators <- MCOperators
  Root = root
  Tenants = {t1, t2}
  t2 = t2
  Apps = {a1, a2}
  CustomRoles = {}
  CustomGrants <- MCGrants
  CustomBindings <- MCBindings
  r1 = r1
  r2 = r2
  Plans = {free, pro}
  DefaultPlan = free
  MaxApplications <- MCApplications
  MaxMembers <- MCMembers
  Replicas = {r1, r2}
  Calls <- MCCalls
  MaxVersion = 3
SYMMETRY Symmetry
SPECIFICATION Spec
INVARIANTS
  ReloadedIsCurrent
  NothingStale
  MembersStayInTenant
PROPERTIES
  WithinQuota
