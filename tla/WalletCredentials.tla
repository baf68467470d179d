--------------------------- MODULE WalletCredentials ---------------------------
(***************************************************************************)
(* The credential operations of the bridge (operations/credentials.rs and  *)
(* trust.rs) and a caller that uses them as their documentation says:      *)
(* parse a credential, attach the trust of its certificate chain, write it *)
(* as JSON for storage, read it back, now or after a restart.              *)
(***************************************************************************)
EXTENDS CredentialModels

CONSTANTS
  Slot,                 \* where the caller keeps its credentials
  VcInput, MdocInput, SdJwtInput,
  Chain,                \* what the verifier says of a certificate chain
  NotText,              \* a claim value that is not a string
  Iso,                  \* the namespace org.iso.18013.5.1
  Unknown, VcType,      \* the texts used for what a credential leaves out
  MaxTime, MaxUuid      \* bounds on the clock and on fresh identifiers

BoundsAreNat == {MaxTime, MaxUuid} \subseteq Nat

VARIABLES
  now,
  held,     \* the credentials in memory
  saved,    \* their JSON in storage, with the source it was made of
  uuids,    \* fresh identifiers drawn so far
  source    \* history: what the caller was given for each slot

vars == <<now, held, saved, uuids, source>>

-----------------------------------------------------------------------------
\* Parsing.
ParseStructure(doc) ==
  LET vc == Deserialize(VerifiableCredential, doc)
  IN  IF vc = Error THEN Error
      ELSE LET subject == Deserialize(CredentialSubject, vc.subject)
               proof == Nested(Proof, "proof", doc)
               status == Nested(CredentialStatus, "status", doc)
           IN  IF Error \in {subject, proof, status} THEN Error
               ELSE [vc EXCEPT !.subject = subject, !.proof = proof, !.status = status]

\* credentialSubject, where there is one, replaces whatever subject said.
SubjectOf(credentialSubject) ==
  IF credentialSubject = NotText THEN [id |-> None, claims_json |-> {}]
  ELSE [id |-> IF "id" \in DOMAIN credentialSubject /\ credentialSubject.id # NotText
               THEN credentialSubject.id ELSE None,
        claims_json |-> DOMAIN credentialSubject \ {"id"}]

parse_verifiable_credential(doc) ==
  LET vc == ParseStructure(doc)
  IN  IF vc = Error THEN Error
      ELSE [vc EXCEPT
              !.raw_json = doc,
              !.subject = IF "credentialSubject" \in DOMAIN doc
                          THEN SubjectOf(doc.credentialSubject) ELSE @]

extract_claim(namespaces, namespace, claim) ==
  IF /\ namespace \in DOMAIN namespaces
     /\ claim \in DOMAIN namespaces[namespace]
     /\ namespaces[namespace][claim] # NotText
  THEN namespaces[namespace][claim] ELSE None

OrUnknown(text) == IF text = None THEN Unknown ELSE text

parse_mdoc_credential(documents, uuid) ==
  IF documents = Malformed \/ documents = <<>> THEN Error
  ELSE LET doc == Head(documents)
           Claim(name) == extract_claim(doc.namespaces, Iso, name)
       IN  [id |-> uuid, doc_type |-> doc.doc_type,
            issuing_authority |-> OrUnknown(Claim("issuing_authority")),
            issuing_country |-> OrUnknown(Claim("issuing_country")),
            expiry_date |-> Claim("expiry_date"),
            portrait |-> Claim("portrait"),
            signature |-> Claim("signature_usual_mark"),
            namespaces_json |->
              [ns \in DOMAIN doc.namespaces |-> DOMAIN doc.namespaces[ns]],
            trust_info |-> None]

\* The vct or type claim: a list of texts, one text, or anything else.
TypesOf(private) ==
  LET named == {"type", "vct"} \cap DOMAIN private
      value == IF "type" \in named THEN private["type"] ELSE private["vct"]
  IN  IF named = {} \/ value = NotText THEN {VcType} ELSE value

Rfc3339(seconds) == [form |-> "rfc3339", at |-> seconds]

parse_sd_jwt_credential(jwt, uuid, time) ==
  IF jwt = Malformed THEN Error
  ELSE LET disclosed == [c \in DOMAIN jwt.private \ {"_sd", "_sd_alg"} |->
                           jwt.private[c]]
       IN  [id |-> IF jwt.sub = None THEN uuid ELSE jwt.sub,
            types |-> TypesOf(disclosed),
            issuer |-> OrUnknown(jwt.iss),
            issuance_date |-> Rfc3339(IF jwt.iat \in Nat THEN jwt.iat ELSE time),
            expiration_date |->
              IF jwt.exp = None THEN None
              ELSE IF jwt.exp \in Nat THEN Rfc3339(jwt.exp)
              ELSE [form |-> "invalid", at |-> time],
            disclosed_claims_json |-> DOMAIN disclosed,
            disclosable_claims |-> jwt.disclosures,
            key_binding |-> None]

\* A chain that does not parse is an error; any other answer of the verifier,
\* also an invalid one, is attached.
verify_mdoc_trust_chain(chain) ==
  IF ~chain.parses THEN Error
  ELSE [is_valid |-> chain.verified,
        trust_anchor |-> chain.jurisdiction,
        status_message |-> CASE chain.verified -> "Valid"
                             [] ~chain.verified /\ chain.errors = {} -> "Unknown"
                             [] OTHER -> "Invalid",
        certificate_chain |-> <<>>]

\* The claim names, without the order and the repetitions of the list.
get_credential_claims(c) ==
  CASE c.type = "VerifiableCredential" ->
         IF c.value.subject.claims_json = Blank THEN {} ELSE c.value.subject.claims_json
    [] c.type = "SdJwt" ->
         IF c.value.disclosed_claims_json = Blank THEN {} ELSE c.value.disclosed_claims_json
    [] c.type = "MDoc" ->
         IF c.value.namespaces_json = Blank THEN {}
         ELSE UNION {c.value.namespaces_json[ns] : ns \in DOMAIN c.value.namespaces_json}

-----------------------------------------------------------------------------
\* Storage.  The nested types are written and read with their own schema.
credential_to_json_without_trust(c) ==
  LET fields == Serialize(Schema[c.type], c.value)
  IN  [type |-> c.type,
       fields |-> IF c.type = "VerifiableCredential"
                  THEN [fields EXCEPT !.subject = Serialize(CredentialSubject, @)]
                  ELSE [f \in DOMAIN fields \ {"trust_info", "expiration_date"} |->
                          fields[f]]]
credential_to_json(c) ==
  LET fields == Serialize(Schema[c.type], c.value)
  IN  [type |-> c.type,
       fields |-> IF c.type = "VerifiableCredential"
                  THEN [fields EXCEPT !.subject = Serialize(CredentialSubject, @)]
                  ELSE fields]

credential_from_json(json) ==
  IF json = Malformed \/ json.type \notin DOMAIN Schema THEN Error
  ELSE LET value == IF json.type = "VerifiableCredential"
                    THEN ParseStructure(json.fields)
                    ELSE Deserialize(Schema[json.type], json.fields)
       IN  IF value = Error THEN Error ELSE [type |-> json.type, value |-> value]

\* Grouping, for the stacked display; the groups come in no order.
Credentials == {s \in Slot : held[s] # None}
group_credentials_by_issuer(slots) ==
  {CredentialGroup(Issuer(held[s]), {t \in slots : Issuer(held[t]) = Issuer(held[s])}) :
     s \in slots}

-----------------------------------------------------------------------------
TypeOK ==
  /\ now \in 0 .. MaxTime /\ uuids \in 0 .. MaxUuid
  /\ \A s \in Slot :
       /\ held[s] # None => /\ held[s].type \in DOMAIN Schema
                            /\ DOMAIN held[s].value = Fields(Schema[held[s].type])
       /\ saved[s] # None => credential_from_json(saved[s].json) # Error
       /\ held[s] # None => source[s] # None

Init ==
  /\ now = 0 /\ uuids = 0
  /\ held = [s \in Slot |-> None]
  /\ saved = [s \in Slot |-> None]
  /\ source = [s \in Slot |-> None]

Receive(s, type, value) ==
  /\ source[s] = None /\ value # Error
  /\ held' = [held EXCEPT ![s] = [type |-> type, value |-> value]]
  /\ source' = [source EXCEPT ![s] = [type |-> type, value |-> value]]
  /\ UNCHANGED <<now, saved>>

Uuid == <<"uuid", uuids + 1>>

ReceiveVc(s, doc) ==
  /\ Receive(s, "VerifiableCredential", parse_verifiable_credential(doc))
  /\ UNCHANGED uuids

ReceiveMdoc(s, documents) ==
  /\ uuids < MaxUuid /\ uuids' = uuids + 1
  /\ Receive(s, "MDoc", parse_mdoc_credential(documents, Uuid))

ReceiveSdJwt(s, jwt) ==
  /\ uuids < MaxUuid
  /\ uuids' = IF jwt # Malformed /\ jwt.sub = None THEN uuids + 1 ELSE uuids
  /\ Receive(s, "SdJwt", parse_sd_jwt_credential(jwt, Uuid, now))

\* verify_and_attach_trust: an error leaves the caller with what it had.
VerifyAndAttachTrust(s, chain) ==
  LET trust == verify_mdoc_trust_chain(chain)
  IN  /\ held[s] # None /\ held[s].type = "MDoc" /\ trust # Error
      /\ held' = [held EXCEPT ![s].value.trust_info = trust]
      /\ source' = [source EXCEPT ![s].value.trust_info = trust]
      /\ UNCHANGED <<now, saved, uuids>>

Save(s) ==
  /\ held[s] # None
  /\ saved' = [saved EXCEPT ![s] = [json |-> credential_to_json(held[s]),
                                    source |-> source[s]]]
  /\ UNCHANGED <<now, held, uuids, source>>

\* A restart: memory is what storage holds, and what was not saved is gone.
Reload ==
  /\ held' = [s \in Slot |-> IF saved[s] = None THEN None
                             ELSE credential_from_json(saved[s].json)]
  /\ source' = [s \in Slot |-> IF saved[s] = None THEN None ELSE saved[s].source]
  /\ UNCHANGED <<now, saved, uuids>>

Tick ==
  /\ now < MaxTime /\ now' = now + 1
  /\ UNCHANGED <<held, saved, uuids, source>>

Next ==
  \/ Reload \/ Tick
  \/ \E s \in Slot :
       \/ \E doc \in VcInput : ReceiveVc(s, doc)
       \/ \E documents \in MdocInput : ReceiveMdoc(s, documents)
       \/ \E jwt \in SdJwtInput : ReceiveSdJwt(s, jwt)
       \/ \E chain \in Chain : VerifyAndAttachTrust(s, chain)
       \/ Save(s)

Spec == Init /\ [][Next]_vars

-----------------------------------------------------------------------------
\* What a caller sorts, groups and judges a credential by is the same before and
\* after storage: who issued it, what it is, when it ends and whether that is past,
\* the trust that was attached to it; and no claim appears that it was not
\* issued with.
IdentitySurvivesStorage ==
  \A s \in Credentials :
    /\ Id(held[s]) = Id(source[s]) /\ Issuer(held[s]) = Issuer(source[s])
    /\ CredentialTypes(held[s]) = CredentialTypes(source[s])
    /\ ExpiryOf(held[s]) = ExpiryOf(source[s])
    /\ IsExpired(held[s], now) = IsExpired(source[s], now)
    /\ held[s].type = "MDoc" => held[s].value.trust_info = source[s].value.trust_info
    /\ get_credential_claims(held[s]) \subseteq get_credential_claims(source[s])

\* Every credential is shown in the one group of its issuer, whatever its type.
GroupsPartition ==
  LET groups == group_credentials_by_issuer(Credentials)
  IN  /\ UNION {g.credentials : g \in groups} = Credentials
      /\ \A g, h \in groups :
           g # h => g.issuer # h.issuer /\ g.credentials \cap h.credentials = {}
      /\ \A g \in groups : \A s \in g.credentials : Issuer(held[s]) = g.issuer

================================================================================
