CONSTANT PROCESS_COUNT_MAX = 4
SPECIFICATION FWSpec
INVARIANT WaitsForYounger
INVARIANT NeverPanics
CHECK_DEADLOCK FALSE
