\* A shell of one page that forks and executes a program of two, with stores to
\* its heap and the stack; memory for exactly three processes of the larger size.
CONSTANTS
    PROCESS_COUNT_MAX = 3
    PAGES_PER_TABLE = 18
    SECTION_COUNT = 3
    KERNEL_BASE = 144
    KERNEL_END = 6
    ALLOCATABLE_START = 11
    STARTUP_SIZE = 32
    INITIAL_SIZE = 32
    TOTAL_SIZE = 72
    SHELL = "SHELL"
    Programs = {"HI"}
    ImagePages <- MCImagePages
    StoreAddresses <- HeapAndStack
SPECIFICATION Spec
INVARIANT NeverOutOfMemory
INVARIANT KernelSeesAllMemory
INVARIANT AllMemoryOwnedOnce
INVARIANT RecordsMatchTables
PROPERTY PrivateMemory
\* The last process may exit, and the boot may stop for want of a shell.
CHECK_DEADLOCK FALSE
