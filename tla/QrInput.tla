------------------------------- MODULE QrInput -------------------------------
(***************************************************************************)
(* What the wallet accepts from a QR code, a link or a request (qr.rs).  A *)
(* text is what the parsers see in it: a marty: URI that parses is a       *)
(* record, of a value only its form counts; any other text is one the      *)
(* kernel's classifier knows, or one of Junk.                              *)
(***************************************************************************)
EXTENDS Integers, Sequences, FiniteSets

CONSTANTS
  Uri,        \* marty: URIs that parse: host, path, credentials, fragment, query
              \* (pairs of key and form of the value)
  Junk,       \* texts that do not parse as a URI
  WalletInput,  \* classify_wallet_input of the kernel: what it says of each text it
                \* knows, or Error where it refuses one
  Engagement,   \* texts that DeviceEngagement::from_qr_uri accepts
  Context,    \* JSON of presentation requests: the form of each member
  None, Error

QueriesAreLists == \A uri \in Uri : uri.query \in Seq([key : STRING, value : STRING])

Wallet == DOMAIN WalletInput
WalletInputKind == {"credential_offer", "presentation_request", "mdoc_device_engagement"}
Known == [kind : WalletInputKind, normalized : Wallet, openid_vc : BOOLEAN]

\* A marty: URI in its normal form, which the classifier does not know.
MartyUri == "marty: URI"

MarkersAreNoForms ==
  /\ {None, Error} \cap {"uri", "text", "context"} = {}
  /\ {None, Error} \cap {"oid4vp", "mdoc"} = {} /\ None # Error
TextsAreClassified ==
  /\ WalletInput \in [Wallet -> Known \cup {Error}] /\ {None, Error} \cap Known = {}
  /\ MartyUri \notin Wallet
\* The normal form of a text is of the text's own kind, and is its own normal form: of
\* the kernel, on whose classification the wallet relies twice.
NormalFormIsStable ==
  \A text \in Wallet : WalletInput[text] # Error =>
    WalletInput[WalletInput[text].normalized] = WalletInput[text]

VARIABLES
  form,     \* what input is: a "uri", a "text", a "context", None at first
  input,    \* what was scanned or passed
  scanned,  \* what wallet_validate_qr_input returned, None before a scan
  routed    \* what wallet_route_presentation_request returned for its result

vars == <<form, input, scanned, routed>>

QrKinds == WalletInputKind \cup {"push_registration"}
FrbWalletQrInput == [kind : QrKinds, normalized : Wallet \cup {MartyUri},
                     requires_external_provider : BOOLEAN]

TypeOK ==
  /\ form \in {"uri", "text", "context", None}
  /\ form \in {"uri", "text"} => scanned \in FrbWalletQrInput \cup {None, Error}
  /\ routed \in {"oid4vp", "mdoc", Error, None}

-----------------------------------------------------------------------------
Keys == {"org", "api", "token", "user"}
BlankForms == {"empty", "spaces"}

\* The loop over query_pairs: the first pair that is refused ends it, and a key may
\* not come twice.
PairError(values, pair) ==
  \/ pair.key \notin Keys
  \/ pair.value \in BlankForms
  \/ pair.key \in DOMAIN values

Insert(values, pair) ==
  IF values = Error THEN Error
  ELSE IF PairError(values, pair) THEN Error
  ELSE [k \in DOMAIN values \cup {pair.key} |->
         IF k = pair.key THEN pair.value ELSE values[k]]

QueryValues(query) ==
  LET read[n \in 0 .. Len(query)] ==   \* what the first n pairs give
        IF n = 0 THEN <<>> ELSE Insert(read[n - 1], query[n])
  IN  read[Len(query)]

HasAll(values) == \A required \in Keys : required \in DOMAIN values

parse_push_registration_qr(uri) ==
  IF uri.host # "push-register" \/ uri.path # "" \/ uri.credentials \/ uri.fragment
  THEN Error
  ELSE LET values == QueryValues(uri.query)
       IN IF values = Error THEN Error
          ELSE IF ~HasAll(values) THEN Error
          ELSE IF values["api"] # "https" THEN Error
          ELSE [kind |-> "push_registration", normalized |-> MartyUri,
                requires_external_provider |-> FALSE]

classify_wallet_input(text) == IF text \in Wallet THEN WalletInput[text] ELSE None

\* The rest of wallet_validate_qr_input: what was classified is parsed as what it is, which
\* fetches, and may fail, where the text only refers to the offer or the request.
External(classified) == classified.kind = "credential_offer" /\ classified.openid_vc
Validated(classified) ==
  LET accepted == [kind |-> classified.kind, normalized |-> classified.normalized,
                   requires_external_provider |-> External(classified)]
  IN IF classified \in {None, Error} THEN {classified}
     ELSE IF classified.kind = "mdoc_device_engagement"
          THEN {IF classified.normalized \in Engagement THEN accepted ELSE Error}
     ELSE IF External(classified) THEN {accepted} ELSE {accepted, Error}

ValidateQrInput ==
  \/ \E uri \in Uri :
       form' = "uri" /\ input' = uri /\ scanned' = parse_push_registration_qr(uri)
  \/ \E text \in Junk \cup Wallet :   \* starts_with("marty:") minds the case
       /\ form' = "text" /\ input' = text
       /\ IF text = "marty:" THEN scanned' = Error
          ELSE scanned' \in Validated(classify_wallet_input(text))
WalletValidateQrInput ==
  form = None /\ ValidateQrInput /\ UNCHANGED routed

-----------------------------------------------------------------------------
\* The text is classified afresh, and an engagement is parsed again; nothing is fetched.
RouteOf(classified) ==
  IF classified \in {None, Error} THEN Error
  ELSE CASE classified.kind = "presentation_request" -> "oid4vp"
         [] classified.kind = "mdoc_device_engagement" ->
              IF classified.normalized \in Engagement THEN "mdoc" ELSE Error
         [] classified.kind = "credential_offer" -> Error

\* The client asks with what the scan handed it: the text in its normal form.
RoutePresentationRequest ==
  /\ form # "context" /\ scanned \notin {None, Error} /\ routed = None
  /\ routed' = RouteOf(classify_wallet_input(scanned.normalized))
  /\ UNCHANGED <<form, input, scanned>>

-----------------------------------------------------------------------------
\* Forms of a member of the context: absent, no string, a text of at most 4096 bytes
\* (two different ones), or one that is refused.
Refused == {"empty", "padded", "long", "control", "default-challenge", "default-domain"}

binding_value(primary, alias) ==
  LET value == IF primary # "absent" THEN primary ELSE alias
  IN IF \/ "not a string" \in {primary, alias}
        \/ primary # "absent" /\ alias # "absent" /\ primary # alias
        \/ value = "absent"
        \/ value \in Refused
     THEN Error ELSE value

\* wallet_validate_presentation_context: the size first, then the JSON, then the values.
PresentationContext(context) ==
  LET challenge == binding_value(context.challenge, context.nonce)
      domain == binding_value(context.domain, context.client_id)
  IN IF context.size = "over 64 KiB" \/ context.json # "object" THEN Error
     ELSE IF Error \in {challenge, domain} THEN Error
     ELSE [challenge |-> challenge, domain |-> domain]

ValidatePresentationContext ==
  form = None /\ \E context \in Context :
    /\ form' = "context" /\ input' = context /\ scanned' = PresentationContext(context)
    /\ UNCHANGED routed

Init == form = None /\ input = None /\ scanned = None /\ routed = None

\* The caller is done with the answer; nothing is kept in Rust between two calls.
Forget == form # None /\ form' = None /\ input' = None /\ scanned' = None /\ routed' = None

Next ==
  \/ WalletValidateQrInput
  \/ RoutePresentationRequest
  \/ ValidatePresentationContext
  \/ Forget

Spec == Init /\ [][Next]_vars

-----------------------------------------------------------------------------
\* What the wallet registers for push with is unambiguous: the query names the four
\* values exactly once each, nothing else, none blank, and posts to an HTTPS address.
Unambiguous(uri) ==
  /\ uri.host = "push-register"
  /\ \A key \in Keys : Cardinality({i \in DOMAIN uri.query : uri.query[i].key = key}) = 1
  /\ \A i \in DOMAIN uri.query :
       /\ uri.query[i].key \in Keys
       /\ uri.query[i].value \notin BlankForms
       /\ uri.query[i].key = "api" => uri.query[i].value = "https"
PushIsUnambiguous == form = "uri" /\ scanned # Error => Unambiguous(input)

\* "Missing, malformed, conflicting, or synthetic values fail closed" (api.rs:387): the
\* values a presentation is bound to are the request's, under whichever name it gives
\* them, and every name it gives agrees.
BindingIsTheRequests ==
  (form = "context" /\ scanned # Error) =>
    LET Given(names) == {input[n] : n \in names} \ {"absent"}
    IN /\ Given({"challenge", "nonce"}) = {scanned.challenge}
       /\ Given({"domain", "client_id"}) = {scanned.domain}
       /\ {scanned.challenge, scanned.domain} \cap (Refused \cup {"not a string"}) = {}
       /\ input.size # "over 64 KiB"

\* A scan and the route chosen for it later agree, although the scan judges the text that
\* was read and the route its normal form: a request that was validated goes to its
\* protocol, and never fails there, and an offer or a registration goes to none.
RouteAgreesWithScan ==
  routed # None =>
    CASE scanned.kind = "presentation_request" -> routed = "oid4vp"
      [] scanned.kind = "mdoc_device_engagement" -> routed = "mdoc"
      [] scanned.kind \in {"credential_offer", "push_registration"} -> routed = Error
================================================================================
