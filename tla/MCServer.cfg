SPECIFICATION FairSpec
CONSTANTS
  Clients = {c1}
  Users = {admin, guest}
  DefaultUser = admin
  AccessTtl = 2
  RefreshTtl = 3
  MaxTime = 6
  MaxMigrations = 2
  Secrets = {s1, s2}
  None = None
INVARIANTS
  TypeOK
  SchemaExact
  ServesReady
  SessionBounded
  RotationRevokes
PROPERTIES
  NeverStuck
