----------------------------- MODULE MCWalletCore -----------------------------
(***************************************************************************)
(* A small instance of the Rust library: credentials, issuers, requests,   *)
(* policies and texts to be scanned that tell its cases apart.             *)
(***************************************************************************)
EXTENDS WalletCore, TLC

CONSTANTS
  c1, c2, c3, t1, t2,                  \* calls, and threads of the pool
  s1, s2,                              \* where a caller keeps credentials
  pidQuery,                            \* a DCQL query
  bar, airport, age, nationality, dmv, other, parsed, stored   \* of policies

-----------------------------------------------------------------------------
\* The bridge: all functions.
AllFunctions == DOMAIN Wire

-----------------------------------------------------------------------------
\* W3C credentials with and without claims of their own, an mDoc whose expiry is
\* a full date, one without the ISO namespace, and SD-JWTs of one holder.
At(t) == [form |-> "rfc3339", at |-> t]
Vc1 == [id |-> <<"vc1">>, issuer |-> "university", issuance_date |-> At(0),
        subject |-> <<>>, types |-> {"Degree"}, expiration_date |-> At(1),
        proof |-> [type |-> "DataIntegrityProof"],
        credentialSubject |-> [id |-> <<"holder">>, name |-> "text", degree |-> NotText]]
Vc2 == [id |-> <<"vc2">>, issuer |-> "dmv", issuance_date |-> At(0), subject |-> <<>>]
NoIssuer == [id |-> <<"vc3">>, issuance_date |-> At(0), subject |-> <<>>]
Mdl == <<[doc_type |-> "mDL",
          namespaces |-> [iso |-> [issuing_authority |-> "dmv",
                                   expiry_date |-> [form |-> "full-date", at |-> 1],
                                   portrait |-> NotText],
                          aamva |-> [dhs |-> "text"]]]>>
Bare == <<[doc_type |-> "mID", namespaces |-> [aamva |-> [dhs |-> "text"]]]>>
Jwt(issuer, sub, exp, private) ==
  [iss |-> issuer, sub |-> sub, iat |-> 0, exp |-> exp, private |-> private,
   disclosures |-> {"name"}]
Jwts == {Jwt("university", <<"holder">>, 1, [vct |-> {"Degree"}, name |-> "text"]),
         Jwt(None, <<"holder">>, NotText, [_sd_alg |-> "text", name |-> "text"]),
         Jwt("dmv", None, None, [vct |-> NotText]), Malformed}
Verdict(verified, errors, jurisdiction) ==
  [parses |-> TRUE, verified |-> verified, errors |-> errors,
   jurisdiction |-> jurisdiction]
Chains == {Verdict(TRUE, {}, "US-CA"), Verdict(FALSE, {}, None),
           Verdict(FALSE, {"no IACA"}, None),
           [Verdict(FALSE, {}, None) EXCEPT !.parses = FALSE]}

VcInputs == {Vc1, Vc2, NoIssuer, Malformed}
MdocInputs == {Mdl, Bare, <<>>, Malformed}

-----------------------------------------------------------------------------
\* Two issuers: one names its endpoints, one leaves the token endpoint to its
\* authorization server or publishes a blank one.  Offers with each kind of grant.
OfferOf(issuer, preAuthorized, tx_code) ==
  [credential_issuer |-> issuer, configurations |-> {"pid"},
   pre_authorized_code |-> preAuthorized, tx_code |-> tx_code, issuer_state |-> None]
Publishes(issuer, at, authorization) ==
  [credential_issuer |-> issuer, token_endpoint |-> at,
   credential_endpoint |-> <<issuer, "credential">>,
   authorization_endpoint |-> authorization,
   credential_configurations |-> {"pid"}]

Offers ==
  {OfferOf("a", "pin-code", TRUE), OfferOf("b", "code", FALSE), OfferOf("b", None, FALSE),
   Malformed}
Published ==
  {Publishes("a", <<"a", "token">>, <<"a", "login">>), Publishes("b", None, None),
   Publishes("b", Blank, None)}
DiscoveredEndpoints == [a |-> None, b |-> <<"as", "token">>]

-----------------------------------------------------------------------------
\* A definition with two predicates, one with one, and a DCQL query.
Asks(definition, query) ==
  [response_uri |-> "verifier", presentation_definition |-> definition,
   dcql_query |-> query]

VerifierRequests ==
  {Asks(<<"age_over_18", "residency">>, None), Asks(<<"residency">>, None),
   Asks(None, pidQuery)}
Wallets == {{"all"}, {}}
SecretsGiven == {{"birth_date"}, {"birth_date", "resident_state"}}
ClaimOfPredicate == [age_over_18 |-> "birth_date", residency |-> "resident_state"]

-----------------------------------------------------------------------------
\* Two policies, of two verifiers; one credential as parsed and one as restored from
\* storage, which has no claims; issuance times on both sides of the epoch.
Ranked == {[credential_id |-> parsed, issued_at_unix |-> 1],
           [credential_id |-> stored, issued_at_unix |-> 0],
           [credential_id |-> stored, issued_at_unix |-> -1]}

Required == bar :> {age} @@ airport :> {age, nationality}
ClaimsHeld == parsed :> {age, nationality} @@ stored :> {}

-----------------------------------------------------------------------------
\* Queries of three to five pairs around the one that is accepted, and contexts with
\* every combination of forms.
Pair(key, value) == [key |-> key, value |-> value]
Whole == <<Pair("org", "text"), Pair("api", "https"), Pair("token", "text"),
           Pair("user", "text")>>
Odd == {Pair("org", "other"), Pair("api", "http"), Pair("api", "https"),
        Pair("token", "empty"), Pair("user", "spaces"), Pair("role", "text")}
QueriesWith(p) ==
  {SubSeq(Whole, 1, i) \o <<p>> \o SubSeq(Whole, i + 1, 4) : i \in 0 .. 4}
    \cup {[Whole EXCEPT ![i] = p] : i \in 1 .. 4}
Queries ==
  {Whole} \cup {SubSeq(Whole, 1, i - 1) \o SubSeq(Whole, i + 1, 4) : i \in 1 .. 4}
          \cup UNION {QueriesWith(p) : p \in Odd}
Uris == [host : {"push-register"}, path : {"", "other"}, credentials : {FALSE},
         fragment : BOOLEAN, query : Queries]
        \cup [host : {"push-register", "other"}, path : {""}, credentials : BOOLEAN,
              fragment : {FALSE}, query : {Whole}]
\* Offers by value and by reference, requests under two schemes and one that the
\* classifier refuses, and engagements of which one is no CBOR.
Is(kind, normalized, openid_vc) ==
  [kind |-> kind, normalized |-> normalized, openid_vc |-> openid_vc]
Inputs ==
  [offer |-> Is("credential_offer", "offer", FALSE),
   OFFER |-> Is("credential_offer", "offer", FALSE),
   openid_vc |-> Is("credential_offer", "openid_vc", TRUE),
   openid4vp |-> Is("presentation_request", "openid4vp", FALSE),
   haip |-> Is("presentation_request", "openid4vp", FALSE),
   refused |-> Error,
   mdoc |-> Is("mdoc_device_engagement", "mdoc", FALSE),
   MDOC |-> Is("mdoc_device_engagement", "mdoc", FALSE),
   not_cbor |-> Is("mdoc_device_engagement", "not_cbor", FALSE)]

RefusedForms == {"empty", "padded", "long", "control", "default-challenge",
                 "default-domain"}
Forms == {"absent", "not a string", "a", "b"} \cup RefusedForms
Contexts == [size : {"small"}, json : {"object"}, challenge : Forms, nonce : Forms,
             domain : {"absent", "a", "b"}, client_id : Forms]
            \cup [size : {"small", "over 64 KiB"}, json : {"object", "other"},
                  challenge : {"a"}, nonce : {"absent"}, domain : Forms,
                  client_id : {"absent", "a"}]
================================================================================
