\* Two workers, two callers, three tasks.  (No symmetry: it is unsound for the
\* temporal properties.)
SPECIFICATION Spec
CONSTANTS
  Threads = {c1, c2}
  Workers = {w1, w2}
  Tasks = {t1, t2, t3}
  NoTask = NoTask
INVARIANTS TypeOK NoStrandedTask DrainedAtJoin
PROPERTIES ImplementsExecutor QuitEndsWorkers AcceptedIsStarted
\* a pool that was joined stops
CHECK_DEADLOCK FALSE
