CONSTANTS
  None = None
  Blank = Blank
  Malformed = Malformed
  Error = Error
  NotText = NotText
  c1 = c1
  c2 = c2
  c3 = c3
  t1 = t1
  t2 = t2
  s1 = s1
  s2 = s2
  pidQuery = pidQuery
  bar = bar
  airport = airport
  age = age
  nationality = nationality
  dmv = dmv
  other = other
  parsed = parsed
  stored = stored
  Call = {c1, c2, c3}
  Function <- AllFunctions
  Thread = {t1, t2}
  NoCall = NoCall
  Slot = {s1, s2}
  VcInput <- VcInputs
  MdocInput <- MdocInputs
  SdJwtInput <- Jwts
  Chain <- Chains
  Iso = "iso"
  Unknown = "Unknown"
  VcType = "VerifiableCredential"
  MaxTime = 2
  MaxUuid = 2
  Offer <- Offers
  Metadata <- Published
  Discovered <- DiscoveredEndpoints
  FormatName = {"jwt_vc_json", "unheard"}
  KnownFormat = {"jwt_vc_json"}
  ConfigurationId = {"pid", None, Blank}
  ClientRedirect = "wallet"
  MaxRequests = 5
  VerifierRequest <- VerifierRequests
  DcqlQuery = {pidQuery}
  CredentialsJson <- Wallets
  Secrets <- SecretsGiven
  RequiredClaim <- ClaimOfPredicate
  MaxPosts = 2
  Policy = {bar, airport}
  RequiredClaims <- Required
  PolicyClaim = {age, nationality}
  PolicyIssuer = {dmv, other}
  Credential = {parsed, stored}
  ClaimsOf <- ClaimsHeld
  Rankable <- Ranked
  RequestBytes = {0, 3, 4}
  MAX_REQUEST_BYTES = 3
  Uri <- Uris
  Junk = {"marty:", "MARTY:", "text"}
  WalletInput <- Inputs
  Engagement = {"mdoc"}
  Context <- Contexts
SPECIFICATION CoreSpec
INVARIANTS
  WellTyped
  OnePlace
  HalvesAgree
  IdentitySurvivesStorage
  SentToWhomItConcerns
  JudgedOnVerifiedInput
PROPERTY AnsweredDespiteWorker
CHECK_DEADLOCK FALSE
