CONSTANTS
  s1 = s1
  s2 = s2
  s3 = s3
  n1 = n1
  n2 = n2
  loader = loader
  A = A
  B = B
  C = C
  licence = licence
  identity = identity
  Id <- ReceivedIds
  NativeCard <- NativeIds
  Expired <- ExpiredIds
  Operation <- Callers
  TitleOf <- Titled
  IssuerOf <- IssuedBy
  Loader = loader
  NoId = NoId
SPECIFICATION Spec
PROPERTY RemovedCardsAreDeleted
