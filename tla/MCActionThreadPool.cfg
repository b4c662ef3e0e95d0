\* Two slots, one thread kept: full queue, extra threads, threads that leave on one count, an action that quits its thread.
SPECIFICATION FairSpec
CONSTANTS
  max_thread_nr = 2
  min_idle_nr = 1
  QueueCapacity = 2
  Workers = {w1, w2}
  Callers = {c1}
  Jobs = {j1, j2, j3}
  QuitJobs = {j3}
  NULL = NULL
CHECK_DEADLOCK FALSE
INVARIANTS TypeOK NoUseAfterDestroy OnlyRegisteredWork
PROPERTY QueuedIsExecuted
