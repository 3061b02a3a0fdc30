\* Two seeded accounts of one tenant and a name to register: logins,
\* closures, password resets, invitations, crashes and restarts.
SPECIFICATION Spec
CONSTANTS
  admin = admin
  alice = alice
  carol = carol
  acme = acme
  Users = {admin, alice, carol}
  Tenants = {admin, alice, carol, acme}
  Seeds = {admin, alice}
  SeedTenant <- SeededTenant
  SeedAdmins = {admin}
  Passwords = {p1, p2}
  SeedPassword = p1
  Sessions = {s1, s2}
  Resets = {r1, r2}
  Invites = {i1}
  Clients = {c1, c2}
  MaxVerifications = 1
  SessionLifetime = 1
  TokenLifetime = 1
  MaxTime = 1
  None = None
SYMMETRY RowSymmetry
INVARIANTS
  SessionsOutliveNoReset
  OneResetPerOpenAccount
  CredentialsSpentOnce
  TenantBoundary
  PermitsConserved
PROPERTIES
  ImplementsAccounts
  AuthorityIsCurrent
