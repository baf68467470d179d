---------------------------- MODULE WalletIssuance ----------------------------
(***************************************************************************)
(* Issuing a credential with the calls of the bridge: offer, metadata of   *)
(* the issuer, authorization or pre-authorized code, token, proof and      *)
(* credential request.  The calls keep no state, so the session is what    *)
(* the caller has been returned; each call reads only that.  Every request *)
(* may fail, and a call that fails returns an error and nothing else.      *)
(***************************************************************************)
EXTENDS Integers, Sequences, FiniteSets

CONSTANTS
  Offer,          \* what the kernel parses from offer URIs; Malformed
  Metadata,       \* what issuers publish
  Discovered,     \* per issuer, the token endpoint its servers publish, or None
  FormatName,     \* the credential formats a caller may ask for
  KnownFormat,    \* those of CredentialFormat::from_str_loose
  ConfigurationId,\* the configuration ids a caller may pass, None and Blank too
  ClientRedirect, \* the redirect of the wallet
  MaxRequests,    \* bound on the requests of one session
  None, Blank, Malformed, Error

MaxRequestsIsNat == MaxRequests \in Nat
MetadataAreRecords ==
  \A m \in Metadata : {"credential_issuer", "token_endpoint"} \subseteq DOMAIN m
NoneIsNoText == None \notin {"text", "later"}

VARIABLES
  offer,     \* FrbCredentialOffer
  metadata,  \* FrbIssuerMetadata
  auth,      \* FrbAuthorizationRequest
  code,      \* the code the user came back with
  token,     \* FrbTokenResponse, and history: where it is from
  proof,     \* what wallet_create_proof_jwt returned, or a platform signer
  credential,\* FrbCredentialResponse
  sent       \* the requests that went out

vars == <<offer, metadata, auth, code, token, proof, credential, sent>>

Send(request) == /\ Len(sent) < MaxRequests
                 /\ sent' = Append(sent, request)

Init ==
  /\ offer = None /\ metadata = None /\ auth = None /\ code = None
  /\ token = None /\ proof = None /\ credential = None /\ sent = <<>>

-----------------------------------------------------------------------------
wallet_parse_credential_offer(o) ==
  IF o = Malformed THEN Error
  ELSE [credential_issuer |-> o.credential_issuer,
        credential_configuration_ids |-> o.configurations,
        pre_authorized_code |-> o.pre_authorized_code,
        tx_code_required |-> o.pre_authorized_code # None /\ o.tx_code,
        issuer_state |-> o.issuer_state]

\* TryFrom<IssuerMetadata>: the token endpoint must be there by now.
FrbIssuerMetadataUnfiltered(m) ==
  [credential_issuer |-> m.credential_issuer, token_endpoint |-> m.token_endpoint,
   credential_endpoint |-> m.credential_endpoint,
   authorization_endpoint |-> m.authorization_endpoint,
   credential_configurations |-> m.credential_configurations]
FrbIssuerMetadata(m) ==
  IF m.token_endpoint \in {None, Blank} THEN Error
  ELSE [credential_issuer |-> m.credential_issuer, token_endpoint |-> m.token_endpoint,
        credential_endpoint |-> m.credential_endpoint,
        authorization_endpoint |-> m.authorization_endpoint,
        credential_configurations |-> m.credential_configurations]

\* What the metadata does not say is asked of the authorization server.
resolve_token_endpoint(m) ==
  IF m.token_endpoint # None THEN m.token_endpoint ELSE Discovered[m.credential_issuer]

AuthorizeAt(issuer) == <<issuer, "authorize">>
wallet_build_auth_request(m, configuration, redirect, issuer_state) ==
  [authorization_url |-> IF m.authorization_endpoint = None
                         THEN AuthorizeAt(m.credential_issuer)
                         ELSE m.authorization_endpoint,
   configuration |-> configuration, redirect_uri |-> redirect,
   issuer_state |-> issuer_state]

FrbTokenResponse(from, grant) == [from |-> from, grant |-> grant]

\* A credential that is no JSON string is its JSON text; one that is deferred has
\* a transaction only.  The format is never filled in.
FrbCredentialResponse(response) ==
  [format |-> None, credential |-> response.credential,
   transaction_id |-> response.transaction_id]

-----------------------------------------------------------------------------
\* The calls.  A new offer starts a new session.
ParseCredentialOffer(o) ==
  /\ wallet_parse_credential_offer(o) # Error
  /\ Send([to |-> <<"offer">>])
  /\ offer' = wallet_parse_credential_offer(o)
  /\ metadata' = None /\ auth' = None /\ code' = None /\ token' = None
  /\ proof' = None /\ credential' = None

FetchIssuerMetadata(m) ==
  LET fetched == [m EXCEPT !.token_endpoint = resolve_token_endpoint(m)]
  IN  /\ offer # None /\ m.credential_issuer = offer.credential_issuer
      /\ Send([to |-> <<m.credential_issuer>>])
      /\ resolve_token_endpoint(m) # None
      /\ FrbIssuerMetadata(fetched) # Error
      /\ metadata' = FrbIssuerMetadata(fetched)
      /\ UNCHANGED <<offer, auth, code, token, proof, credential>>

ExchangePreAuthToken(tx_code) ==
  /\ metadata # None /\ offer.pre_authorized_code # None
  /\ Send([to |-> metadata.token_endpoint, tx_code |-> tx_code])
  /\ offer.tx_code_required => tx_code     \* else the server refuses
  /\ token' = FrbTokenResponse(metadata.token_endpoint,
                              [pre_authorized_code |-> offer.pre_authorized_code])
  /\ UNCHANGED <<offer, metadata, auth, code, proof, credential>>

BuildAuthRequest(configuration) ==
  /\ metadata # None /\ configuration \in offer.credential_configuration_ids
  /\ auth' = wallet_build_auth_request(metadata, configuration, ClientRedirect,
                                       offer.issuer_state)
  /\ UNCHANGED <<offer, metadata, code, token, proof, credential, sent>>

\* The user comes back from the authorization page.
Authorize ==
  /\ auth # None
  /\ code' = [from |-> auth.authorization_url, configuration |-> auth.configuration]
  /\ UNCHANGED <<offer, metadata, auth, token, proof, credential, sent>>

ExchangeAuthCodeToken ==
  /\ metadata # None /\ auth # None /\ code # None
  /\ Send([to |-> metadata.token_endpoint, redirect_uri |-> auth.redirect_uri])
  /\ token' = FrbTokenResponse(metadata.token_endpoint, code)
  /\ UNCHANGED <<offer, metadata, auth, code, proof, credential>>

\* Retired: an error whatever the key, so a caller has a proof from elsewhere.
wallet_create_proof_jwt(key) == Error
CreateProofJwt(key) ==
  /\ proof = None
  /\ proof' = wallet_create_proof_jwt(key)
  /\ UNCHANGED <<offer, metadata, auth, code, token, credential, sent>>
PlatformProof ==
  /\ token # None /\ proof \in {None, Error}
  /\ proof' = "platform"
  /\ UNCHANGED <<offer, metadata, auth, code, token, credential, sent>>

\* Format and configuration are checked before anything is sent; the format is
\* then left out of the request.
Accepts(format, configuration) ==
  format \in KnownFormat /\ configuration \notin {None, Blank}
RequestCredential(format, configuration, response) ==
  /\ token # None /\ proof = "platform"
  /\ Accepts(format, configuration)
  /\ Send([to |-> metadata.credential_endpoint, token |-> token,
           configuration |-> configuration])
  /\ credential' = FrbCredentialResponse(response)
  /\ UNCHANGED <<offer, metadata, auth, code, token, proof>>

\* A request that was sent and answered with an error, or not at all.
RequestFails ==
  /\ offer # None
  /\ \E to \in {<<offer.credential_issuer>>} \cup
               (IF metadata = None THEN {} ELSE {metadata.token_endpoint}) :
       Send([to |-> to])
  /\ UNCHANGED <<offer, metadata, auth, code, token, proof, credential>>

Responses ==
  {[credential |-> "text", transaction_id |-> None],
   [credential |-> None, transaction_id |-> "later"]}

Next ==
  \/ \E o \in Offer : ParseCredentialOffer(o)
  \/ \E m \in Metadata : FetchIssuerMetadata(m)
  \/ \E tx_code \in BOOLEAN : ExchangePreAuthToken(tx_code)
  \/ \E configuration \in ConfigurationId : BuildAuthRequest(configuration)
  \/ Authorize \/ ExchangeAuthCodeToken
  \/ \E key \in {Malformed, "key"} : CreateProofJwt(key)
  \/ PlatformProof
  \/ \E format \in FormatName, configuration \in ConfigurationId,
        response \in Responses : RequestCredential(format, configuration, response)
  \/ RequestFails

Spec == Init /\ [][Next]_vars

-----------------------------------------------------------------------------
TypeOK ==
  /\ offer # None => \E o \in Offer \ {Malformed} :
                       offer = wallet_parse_credential_offer(o)
  /\ metadata # None => /\ offer # None
                        /\ metadata.credential_issuer = offer.credential_issuer
  /\ Len(sent) <= MaxRequests
  /\ proof \in {None, Error, "platform"}
  /\ credential # None => Cardinality({credential.credential, credential.transaction_id}
                                        \ {None}) = 1

\* A token the wallet holds came from the endpoint that the issuer of the offer
\* named or that its authorization server publishes, whatever offers came before.
TokenIsFromTheIssuer ==
  token # None =>
    \E m \in Metadata :
      /\ m.credential_issuer = offer.credential_issuer
      /\ token.from \notin {None, Blank}
      /\ token.from \in {m.token_endpoint, Discovered[m.credential_issuer]}

\* A credential request that reaches the network names a configuration, and no
\* blank one (issuance.rs test "rejects_missing_configuration_before_network_io").
RequestsAreComplete ==
  \A i \in DOMAIN sent :
    "configuration" \in DOMAIN sent[i] => sent[i].configuration \notin {None, Blank}
================================================================================
