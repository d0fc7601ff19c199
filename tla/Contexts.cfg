\* Two processes and a slot to stage images in, or three processes.
CONSTANT PROCESS_COUNT_MAX = 3
SPECIFICATION BootSpec
INVARIANT ResumedAsUser
PROPERTY OwnRegisters
\* A panicked or halted machine stops for good.
CHECK_DEADLOCK FALSE
