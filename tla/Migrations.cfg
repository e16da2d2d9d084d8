CONSTANTS
    r1 = r1
    r2 = r2
    r3 = r3
    Runner = {r1, r2, r3}
    MaxFaults = 2
SPECIFICATION FairSpec
CHECK_DEADLOCK FALSE
INVARIANTS OnceInOrder SchemaMatches DoneIsDone
PROPERTIES Migrated
