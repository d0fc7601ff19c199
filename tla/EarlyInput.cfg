CONSTANT PROCESS_COUNT_MAX = 2
SPECIFICATION BootFairSpec
PROPERTY ShellStarts
CHECK_DEADLOCK FALSE
