CONSTANTS
  Config <- MCConfig
  InitSchemas = {"a", "b"}
  InitTables <- MCInitTables
  Creates <- MCCreates
  Drops <- MCDrops
  Renames <- MCRenames
  Uses = {"a"}
  MaxStmt = 4
  MaxBehind = 1
  RestartBehind = FALSE
SPECIFICATION Spec
CHECK_DEADLOCK FALSE
INVARIANTS  RowsLand 
