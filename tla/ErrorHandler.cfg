CONSTANTS
  Threads = {t1, t2}
  Reports = {r1, r2, r3}
  Callbacks = {plain, throws, reports}
  Throwing = {throws}
  Reentering = {reports}
  NoCallback = NoCallback
  Free = Free
  NoReport = NoReport
SPECIFICATION FairSpec
INVARIANTS TypeOK ReportIsWhole LockIsGivenBack
PROPERTY EveryReportEnds
\* A null pointer was called, or both threads wait for a mutex.
CHECK_DEADLOCK FALSE
