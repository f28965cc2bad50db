SPECIFICATION DerivedSpec
CONSTANTS
    Cases <- MemberCases
    Attesters = {1, 2}
    Rollups = {"V1", "V2", "V3"}
    Current = "V2"
    TableCases <- AllTables
    TableBatch = 2
INVARIANTS MigrationsJustified DerivedTypeOK TablesReplayed RowsOnChain
PROPERTIES EventuallyMigrated EventuallyCurrent KnownKept EventuallyRepaired
CHECK_DEADLOCK FALSE
