\* Two application threads; lseek to an offset of ten decimal digits.
\* A thread whose reply another thread's recv took blocks for good, so the
\* program really may stop: deadlock is not checked.
CONSTANTS
    Threads = {t1, t2}
    PathLen = 1
    WriteSizes = {0}
    SeekOffsets = {0, 1000000000}
    WorkerFds = {5}
    MaxCalls = 2
SPECIFICATION Spec
INVARIANT NulInBounds
CHECK_DEADLOCK FALSE
