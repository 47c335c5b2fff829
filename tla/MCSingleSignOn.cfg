SPECIFICATION Spec
CONSTANTS
  t1 = t1
  t2 = t2
  s1 = s1
  s2 = s2
  c1 = c1
  c2 = c2
  i1 = i1
  i2 = i2
  k1 = k1
  k2 = k2
  MaxChanges = 1
  Tenants = {t1, t2}
  Domains = {d1}
  Secrets = {x1}
  Issuers = {i1, i2}
  Clients = {k1, k2}
  Principals = {p1, e1}
  Emails = {e1}
  States = {s1, s2}
  Callbacks = {c1, c2}
  Admins = {m1}
  None = none
SYMMETRY Symmetry
CHECK_DEADLOCK FALSE
INVARIANTS
  TokenOpensOneSession
  SessionOfMember
  ProviderVouched
  ProvisionedOnce
