SPECIFICATION Spec
CONSTANTS
  Worker = {w1, w2}
  Caller = {c1, c2, c3}
  d1 = d1
  d2 = d2
  here = here
  alias = alias
  there = there
  bad = bad
  Dir = {d1, d2}
  NoDir = NoDir
  Path = {here, alias, there, bad}
  Canon <- MCCanon
  NoCaller = NoCaller
  NoWorker = NoWorker
INVARIANTS OneWorker RightDirectory CacheAccountsForThreads
PROPERTIES ReleasedOnShutdown LockReleased ImplementsService
