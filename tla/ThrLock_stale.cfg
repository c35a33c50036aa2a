SPECIFICATION Spec
CONSTANTS
    Wishes <- StaleWishes
    Data <- MCData
    LockOf <- MCLockOf
    Owner <- MCOwner
    OwnerOf <- MCOwnerOf
    Thread <- MCThread
    ThreadOf <- MCThreadOf
    Requests <- MCRequests
    Lock = {1, 2}
    Cursor = {"k"}
    Delayed = {}
    Dropper = {}
    Killable = {}
    CheckStatus = {}
    UpgradedCI = 10
    MaxWriteLockCount = 1
INVARIANT GetsWhatItAsked
