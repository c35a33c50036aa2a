SPECIFICATION Spec
CONSTANTS
    Wishes <- KillWishes
    Data <- MCData
    LockOf <- MCLockOf
    Owner <- MCOwner
    OwnerOf <- MCOwnerOf
    Thread <- MCThread
    ThreadOf <- MCThreadOf
    Requests <- MCRequests
    Lock = {1}
    Cursor = {}
    Delayed = {}
    Dropper = {}
    Killable = {"b"}
    CheckStatus = {}
    UpgradedCI = 10
    MaxWriteLockCount = 1
INVARIANT NobodyForgotten
