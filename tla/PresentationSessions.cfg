SPECIFICATION SessionSpec
CONSTANTS
  Call = {c1, c2, c3}
  Field = {optional}
  Required = {}
  NoSelection = NoSelection
INVARIANTS AnsweredOnce AnsweredAsRequested
PROPERTIES OverOnceTaken EveryCallReturns
CHECK_DEADLOCK FALSE
