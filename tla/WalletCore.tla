------------------------------- MODULE WalletCore -------------------------------
(***************************************************************************)
(* The Rust library of the wallet: the bridge, and the callers of its      *)
(* credential, issuance, presentation, policy and QR functions.  These     *)
(* share no state, and each property is about one of them, so a behaviour  *)
(* is one of its parts at work while the others rest.                      *)
(***************************************************************************)
EXTENDS Bridge, Integers

CONSTANTS
  None, Blank, Malformed, Error, NotText,
  Slot, VcInput, MdocInput, SdJwtInput, Chain, Iso, Unknown, VcType,
  MaxTime, MaxUuid,                                  \* of WalletCredentials
  Offer, Metadata, Discovered, FormatName, KnownFormat, ConfigurationId,
  ClientRedirect, MaxRequests,                       \* of WalletIssuance
  VerifierRequest, DcqlQuery, CredentialsJson, Secrets, RequiredClaim,
  MaxPosts,                                          \* of WalletPresentation
  Policy, RequiredClaims, PolicyClaim, PolicyIssuer, Credential, ClaimsOf,
  Rankable, RequestBytes, MAX_REQUEST_BYTES,         \* of WalletPolicy
  Uri, Junk, WalletInput, Engagement, Context                         \* of QrInput

VARIABLES
  part,                                \* the part that is at work
  now, held, saved, uuids, source,
  offer, metadata, auth, code, token, proof, credential, sent,
  request, proofs, posted, answer,
  policies, facts, decision,
  form, input, scanned, routed

Credentials == INSTANCE WalletCredentials
Issuing == INSTANCE WalletIssuance
Presenting == INSTANCE WalletPresentation
Policies == INSTANCE WalletPolicy WITH
  Claim <- PolicyClaim, Issuer <- PolicyIssuer, answer <- decision
Scanning == INSTANCE QrInput

-----------------------------------------------------------------------------
\* Bound of the runs: calls that overlap are one of each kind.
OneOfEach ==
  {"verify_face_match", "parse_mdoc_credential", "wallet_validate_qr_input",
   "verify_liveness_challenge"}
Overlapping == Cardinality({c \in Call : function[c] # "none"}) > 1
OverlapBound ==
  Overlapping => \A c \in Call : function[c] \in OneOfEach \cup {"none"}

bridgeVars == vars
Frame(name) ==
  /\ part = name /\ UNCHANGED part
  /\ name # "bridge" => UNCHANGED bridgeVars
  /\ name # "credentials" => UNCHANGED <<now, held, saved, uuids, source>>
  /\ name # "issuance" =>
       UNCHANGED <<offer, metadata, auth, code, token, proof, credential, sent>>
  /\ name # "presentation" => UNCHANGED <<request, proofs, posted, answer>>
  /\ name # "policy" => UNCHANGED <<policies, facts, decision>>
  /\ name # "qr" => UNCHANGED <<form, input, scanned, routed>>

CoreInit ==
  /\ part \in {"bridge", "credentials", "issuance", "presentation", "policy", "qr"}
  /\ Init /\ (part # "bridge" => ~hangs)
  /\ Credentials!Init /\ Issuing!Init /\ Presenting!Init /\ Policies!Init /\ Scanning!Init

CoreNext ==
  \/ Frame("bridge") /\ Next /\ OverlapBound'
  \/ Frame("credentials") /\ Credentials!Next
  \/ Frame("issuance") /\ Issuing!Next
  \/ Frame("presentation") /\ Presenting!Next
  \/ Frame("policy") /\ Policies!Next
  \/ Frame("qr") /\ Scanning!Next

coreVars ==
  <<part, bridgeVars, now, held, saved, uuids, source,
    offer, metadata, auth, code, token, proof, credential, sent,
    request, proofs, posted, answer, policies, facts, decision,
    form, input, scanned, routed>>

CoreSpec ==
  /\ CoreInit /\ [][CoreNext]_coreVars /\ Fairness

ASSUME Bounds ==
  Credentials!BoundsAreNat /\ Issuing!MaxRequestsIsNat /\ Presenting!MaxPostsIsNat

ASSUME InputsFit ==
  /\ Credentials!NoneIsNoError
  /\ Issuing!MetadataAreRecords /\ Issuing!NoneIsNoText
  /\ Presenting!RequestsAreOfOneKind
  /\ Policies!PolicyFunctions /\ Policies!RankableIsFinite
  /\ Scanning!QueriesAreLists /\ Scanning!TextsAreClassified /\ Scanning!NormalFormIsStable
  /\ Scanning!MarkersAreNoForms

-----------------------------------------------------------------------------
\* The types of every part.
WellTyped ==
  /\ TypeOK /\ Credentials!TypeOK /\ Issuing!TypeOK /\ Presenting!TypeOK
  /\ Policies!TypeOK /\ Scanning!TypeOK

\* A credential is the same before and after a round through storage for whatever the
\* wallet sorts, judges and trusts it by, and is shown in one group, its issuer's.
IdentitySurvivesStorage ==
  Credentials!IdentitySurvivesStorage /\ Credentials!GroupsPartition

\* What leaves the wallet goes to whom it concerns, and complete: tokens come from the
\* issuer of the offer, a credential request names its configuration, a presentation
\* answers the query that was passed and no malformed argument is part of one.
SentToWhomItConcerns ==
  /\ Issuing!TokenIsFromTheIssuer /\ Issuing!RequestsAreComplete
  /\ Presenting!PostedAnswersTheQuery /\ Presenting!PostedIsWellFormed

\* Decisions rest on what was verified, readable and unambiguous: the verified claims of
\* this request, a list of policies that can all be read (of which the first one decides),
\* a registration that names each value once, the request's own challenge and domain, and
\* a route that a second classification does not change.
JudgedOnVerifiedInput ==
  /\ Policies!SatisfiedByVerifiedFacts /\ Policies!EveryPolicyIsReadable
  /\ Scanning!PushIsUnambiguous /\ Scanning!BindingIsTheRequests
  /\ Scanning!RouteAgreesWithScan

================================================================================
