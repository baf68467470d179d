SPECIFICATION Spec
CONSTANTS
  Worker = {w1}
  Caller = {c1, c2, c3}
  Dir = {d1}
  NoDir = NoDir
INVARIANT NothingLeftBehind
PROPERTIES RunTerminates OwnerTerminates
