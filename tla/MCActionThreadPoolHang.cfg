\* Two threads kept: destroy waits for ever for a thread that began late, and whose quit action another thread took.
SPECIFICATION FairSpec
CONSTANTS
  max_thread_nr = 2
  min_idle_nr = 2
  QueueCapacity = 4
  Workers = {w1, w2, w3}
  Callers = {c1}
  Jobs = {j1, j2}
  QuitJobs = {}
  NULL = NULL
CHECK_DEADLOCK FALSE
PROPERTY DestroyReturns
