SPECIFICATION SessionSpec
CONSTANTS
  Call = {c1, c2}
  Field = {required, optional}
  Required = {required}
  NoSelection = NoSelection
INVARIANT SharesOnlySelected
CHECK_DEADLOCK FALSE
