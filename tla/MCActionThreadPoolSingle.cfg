\* A pool of one thread: destroy comes to its end when the quit action finds room in the queue.
SPECIFICATION FairSpec
CONSTANTS
  max_thread_nr = 1
  min_idle_nr = 1
  QueueCapacity = 3
  Workers = {w1, w2}
  Callers = {c1, c2}
  Jobs = {j1, j2}
  QuitJobs = {j2}
  NULL = NULL
CHECK_DEADLOCK FALSE
PROPERTY DestroyReturns
