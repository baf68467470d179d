SPECIFICATION Spec
CONSTANTS
  Scan = {n1, n2}
  Tap = {tap}
  Code = {vpRequest, mdocRequest}
  MdocCode = {mdocRequest}
  NoCode = NoCode
  NoScan = NoScan
  MaxScreens = 2
  MaxUses = 2
  Field = {optional}
  Required = {}
  NoSelection = NoSelection
  Call <- ScanCalls
INVARIANTS
  ConsentViews SentAsApproved OutcomeIsFinal
PROPERTIES ScannerResumes ApprovalConcludes
CHECK_DEADLOCK FALSE
