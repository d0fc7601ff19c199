\* Four slots: a parent, a child, a grandchild and a spare one for exec.
CONSTANT PROCESS_COUNT_MAX = 4
SPECIFICATION FairSpec
INVARIANT NoOrphanedSleeper
INVARIANT PanicIsJustified
INVARIANT BoundedBypass
PROPERTY WokenOnlyByTarget
PROPERTY EveryReadyRuns
\* A panicked or halted machine stops for good.
CHECK_DEADLOCK FALSE
