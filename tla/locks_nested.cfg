SPECIFICATION LocksSpec
CONSTANTS
    ALocks <- LockObjects
    MaxCount = 2
    MaxErrors = 1
INVARIANT LockedExcludes
CHECK_DEADLOCK FALSE
