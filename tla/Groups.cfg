\* Three accounts in two tenants, one group, two requests at a time, between
\* whose authentication and operation accounts open and close.
SPECIFICATION Spec
CONSTANTS
  Users = {u1, u2, u3}
  Tenants = {t1, t2}
  GroupIds = {g1}
  Names = {n1}
  Permissions = {p1}
  Clients = {c1, c2}
  None = None
SYMMETRY People
INVARIANT LinksStayInTenant
PROPERTIES GainNeedsAdmin ImplementsRights
