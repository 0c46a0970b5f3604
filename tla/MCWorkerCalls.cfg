SPECIFICATION CallsSpec
CONSTANTS
    MaxLines = 5
    MaxCalls = 2
    MaxFaults = 1
INVARIANTS CallsTypeOK ParsedAsWritten RowsMatchStore
CHECK_DEADLOCK FALSE
