SPECIFICATION Spec
CONSTANTS
  Scan = {n1}
  Tap = {tap}
  Code = {vpRequest, mdocRequest}
  MdocCode = {mdocRequest}
  NoCode = NoCode
  NoScan = NoScan
  MaxScreens = 1
  MaxUses = 2
  Field = {optional}
  Required = {}
  NoSelection = NoSelection
  Call <- ScanCalls
INVARIANT FallbackFindsMdoc
CHECK_DEADLOCK FALSE
