\* Two migrators at once, from any version to any other, each of which may break off
\* anywhere, on PostgreSQL: what the scripts do apart from their Boolean defaults, which
\* are mended here for the upgrades to get past the first revision.
CONSTANTS
  Migrators = {m1, m2}
  DefaultsMended = TRUE
SPECIFICATION Spec
INVARIANTS VersionMatchesSchema OnlyDefaultsRefused WorkspaceRowsFollow MigratedIsDeclared
PROPERTIES ImplementsHistory
