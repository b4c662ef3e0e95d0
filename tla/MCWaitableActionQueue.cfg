\* Three threads, one of which both sends and receives.
SPECIFICATION FairSpec
CONSTANTS
  Capacity = 2
  Producers = {t1, t2}
  Consumers = {t2, t3}
  Actions = {a1, a2, a3, a4}
  NULL = NULL
INVARIANTS TypeOK SendAssertHolds RecvTokenIsHonoured TokensAccountForSlots OneOwner
PROPERTIES FIFO QueuedIsReceived
