SPECIFICATION FairSpec
CONSTANTS
  f1 = f1
  f2 = f2
  o1 = o1
  Fds <- MCFds
  Others <- MCOthers
  MaxSources = 2
  MaxDepth = 2
INVARIANTS TypeOK AliveWhileUsed
PROPERTIES CalledWithData ReadableIsCalled
