SPECIFICATION FairSpec
CONSTANTS
    Wishes <- OrderWishes
    Data <- MCData
    LockOf <- MCLockOf
    Owner <- MCOwner
    OwnerOf <- MCOwnerOf
    Thread <- MCThread
    ThreadOf <- MCThreadOf
    Requests <- MCRequests
    Lock = {1, 2, 3}
    Cursor = {}
    Delayed = {}
    Dropper = {}
    Killable = {}
    CheckStatus = {}
    UpgradedCI = 10
    MaxWriteLockCount = 1
PROPERTY WaitEndsEventually
