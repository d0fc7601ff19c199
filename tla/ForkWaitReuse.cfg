CONSTANT PROCESS_COUNT_MAX = 4
SPECIFICATION FWSpec
INVARIANT ShellWaitsForItsChild
CHECK_DEADLOCK FALSE
