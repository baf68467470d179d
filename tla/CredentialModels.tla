--------------------------- MODULE CredentialModels ---------------------------
(***************************************************************************)
(* The credential types of credential.rs as serde sees them.  A schema     *)
(* says which fields a JSON object must have, which have a default, and    *)
(* which are skipped in both directions.  A JSON object is a record; the   *)
(* values of claims are left out, so a JSON text of claims is the set of   *)
(* their names and Blank the empty text, which is no JSON.                 *)
(***************************************************************************)
EXTENDS Integers, Sequences, FiniteSets

CONSTANTS None, Blank, Malformed, Error

NoneIsNoError == None # Error

CredentialSubject ==
  [required |-> {}, default |-> [id |-> None], skip |-> [claims_json |-> Blank]]

Proof ==
  [required |-> {"type"},
   default |-> [created |-> None, verification_method |-> None,
                proof_purpose |-> None, proof_value |-> None],
   skip |-> <<>>]

CredentialStatus ==
  [required |-> {"type"},
   default |-> [status_list_credential |-> None, status_list_index |-> None],
   skip |-> <<>>]

VerifiableCredential ==
  [required |-> {"id", "issuer", "issuance_date", "subject"},
   default |-> [types |-> {}, issuer_name |-> None, expiration_date |-> None,
                proof |-> None, status |-> None],
   skip |-> [raw_json |-> None]]

MDocCredential ==
  [required |-> {"id", "doc_type", "issuing_authority", "issuing_country"},
   default |-> [expiry_date |-> None, trust_info |-> None, portrait |-> None,
                signature |-> None],
   skip |-> [namespaces_json |-> Blank]]

SdJwtCredential ==
  [required |-> {"id", "issuer", "issuance_date"},
   default |-> [types |-> {}, expiration_date |-> None, disclosable_claims |-> {},
                key_binding |-> None],
   skip |-> [disclosed_claims_json |-> Blank]]

TrustInfo ==
  [required |-> {"is_valid"},
   default |-> [trust_anchor |-> None, status_message |-> None,
                certificate_chain |-> <<>>],
   skip |-> <<>>]

CredentialGroup(issuer, credentials) ==
  [issuer |-> issuer, issuer_name |-> issuer, credentials |-> credentials,
   logo_url |-> None]

Fields(schema) ==
  schema.required \cup DOMAIN schema.default \cup DOMAIN schema.skip

Deserialize(schema, doc) ==
  IF doc = Malformed \/ ~(schema.required \subseteq DOMAIN doc) THEN Error
  ELSE [f \in Fields(schema) |->
          IF f \in DOMAIN schema.skip THEN schema.skip[f]
          ELSE IF f \in DOMAIN doc THEN doc[f] ELSE schema.default[f]]

SerializeSet(schema, value) ==
  [f \in {g \in DOMAIN schema.default : value[g] # None} |-> value[f]]
Serialize(schema, value) ==
  [f \in Fields(schema) \ DOMAIN schema.skip |-> value[f]]

\* A field that is itself one of the types, or null.
Nested(schema, field, doc) ==
  IF field \in DOMAIN doc /\ doc[field] # None
  THEN Deserialize(schema, doc[field]) ELSE None

-----------------------------------------------------------------------------
\* The variants of Credential; a credential is its variant and its value.
Schema == [VerifiableCredential |-> VerifiableCredential, MDoc |-> MDocCredential,
           SdJwt |-> SdJwtCredential]

Id(c) == c.value.id
Issuer(c) == IF c.type = "MDoc" THEN c.value.issuing_authority ELSE c.value.issuer
CredentialTypes(c) == IF c.type = "MDoc" THEN {c.value.doc_type} ELSE c.value.types
ExpiryOf(c) ==
  IF c.type = "MDoc" THEN c.value.expiry_date ELSE c.value.expiration_date

\* A date is the instant it names and how it is written: RFC 3339 date-times are
\* compared, any other text is never past.
IsPast(date, now) == date.form = "rfc3339" /\ date.at < now
IsExpired(c, now) == ExpiryOf(c) # None /\ IsPast(ExpiryOf(c), now)
================================================================================
