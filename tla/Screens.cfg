CONSTANTS
  requestCode = requestCode
  offerCode = offerCode
  engagement = engagement
  text = text
  age = age
  key = key
  licence = licence
  mdl = mdl
  badge = badge
  Absent = Absent
  Padded = Padded
  Malformed = Malformed
  u1 = u1
  u2 = u2
  k1 = k1
  k2 = k2
  one = one
  both = both
  odd = odd
  plain = plain
  Code = {requestCode, offerCode, engagement, text}
  CodeKindOf <- Kinds4
  Requested <- Asked
  Credential = {licence}
  AttributesOf <- Attributes
  MaxScans = 2
  NoCode = NoCode
  Failed = Failed
  MaxGestures = 3
  MaxTtl = 6
  EmptySecret = EmptySecret
  Missing = Missing
  NotFinite = NotFinite
  Error = Error
  Gestures <- ThreeGestures
  Ttl = 4
  Second = 2
  Secret = key
  Face <- Faces
  NoFace = NoFace
  DetectorFails = DetectorFails
  SlowFactory = FALSE
  Mocked = FALSE
  MaxTime = 6
  None = None
  Record = {licence, mdl, badge}
  RecordKindOf <- Kinds3
  MaxOffers = 2
  MaxRefreshes = 1
  MaxEdits = 1
SPECIFICATION ScreensSpec
INVARIANTS
  WellTyped
  OneScanAtATime
  SeenAfterAsked
  OnlyVerifiedCounts
  ListensAsAsked
  SettledListIsReported
PROPERTIES
  ReviewedIsVerified
  OfferedIsListed
  SavedAsShown
  BegunEnds
CHECK_DEADLOCK FALSE
