SPECIFICATION PlaySpec
CONSTANTS
    Wishes <- AllWishes
    Data <- MCData
    LockOf <- MCLockOf
    Owner <- MCOwner
    OwnerOf <- MCOwnerOf
    Thread <- MCThread
    ThreadOf <- MCThreadOf
    Requests <- MCRequests
    Lock = {1, 2, 3}
    Cursor = {"k"}
    Delayed = {"d", "s"}
    Dropper = {"b"}
    Killable = {"a"}
    CheckStatus = {3}
    UpgradedCI = 10
    MaxWriteLockCount = 1
INVARIANT TypeOK
INVARIANT HoldersExclude
INVARIANT NoInsertCountExact
INVARIANT NoForgottenWaiters
INVARIANT WaitersQueued
