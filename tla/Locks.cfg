\* Every operation of the three threads.  Threads may end up waiting for one another.
SPECIFICATION Spec
CONSTANTS
    Operations <- All
CHECK_DEADLOCK FALSE
INVARIANTS
    KnownDeadlocks
    NothingKept
