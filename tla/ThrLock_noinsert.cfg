SPECIFICATION Spec
CONSTANTS
    Wishes <- NoInsertWishes
    Data <- MCData
    LockOf <- MCLockOf
    Owner <- MCOwner
    OwnerOf <- MCOwnerOf
    Thread <- MCThread
    ThreadOf <- MCThreadOf
    Requests <- MCRequests
    Lock = {1}
    Cursor = {}
    Delayed = {}
    Dropper = {}
    Killable = {}
    CheckStatus = {}
    UpgradedCI = 10
    MaxWriteLockCount = 1
INVARIANT HoldersCompatible
