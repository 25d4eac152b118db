CONSTANTS
  Threads = {t1, t2}
  Reports = {r1, r2}
  Callbacks = {plain}
  Throwing = {}
  Reentering = {}
  NoCallback = NoCallback
  Free = Free
  NoReport = NoReport
SPECIFICATION Spec
INVARIANT NullNeverCalled
