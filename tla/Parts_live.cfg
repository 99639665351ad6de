\* Each part alone, at the bounds MCPartsLive gives it.
SPECIFICATION FairSpec
PROPERTIES
    EventuallySettled
    EventuallyIngested
    OwnerIsBound
    ErasedInTime
    SweptInTurn
    DeletedIsGone
CHECK_DEADLOCK FALSE
