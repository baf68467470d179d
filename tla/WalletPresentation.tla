-------------------------- MODULE WalletPresentation --------------------------
(***************************************************************************)
(* Answering a verifier through the calls of the bridge: parse its         *)
(* request, prove its predicates where they ask for zero knowledge, build  *)
(* the presentation and post it (presentation.rs and proofs.rs).  A JSON   *)
(* text is what it parses to, or Malformed; None is an argument left out.  *)
(***************************************************************************)
EXTENDS Integers, Sequences, FiniteSets, SequencesExt

CONSTANTS
  VerifierRequest, \* requests of verifiers: response_uri and one kind of query
                   \* (a definition is its descriptors in their order)
  DcqlQuery,
  CredentialsJson, \* credentials_json: which descriptors have a credential
  Secrets,         \* secrets_json: the claims whose values are given
  RequiredClaim,   \* the claim the predicate of a descriptor is about
  MaxPosts,        \* bound on the presentations posted
  None, Malformed, Error

MaxPostsIsNat == MaxPosts \in Nat

\* A query is neither a definition nor a marker, and a request holds one of the two.
RequestsAreOfOneKind ==
  /\ {None, Malformed} \cap DcqlQuery = {}
  /\ \A r \in VerifierRequest :
       /\ (r.dcql_query = None) = (r.presentation_definition # None)
       /\ r.dcql_query \in DcqlQuery \cup {None}
       /\ r.presentation_definition \notin DcqlQuery

VARIABLES
  request,   \* FrbPresentationRequest, of the last request parsed
  proofs,    \* the proofs made for it, and what they prove
  posted,    \* the presentations that went out
  answer     \* what the last call returned

vars == <<request, proofs, posted, answer>>

Queries == DcqlQuery \cup {None, Malformed}

TypeOK ==
  /\ request # None =>
       /\ request.query_type \in {"presentation_definition", "dcql_query"}
       /\ (request.query_type = "dcql_query") = (request.dcql_query_json # None)
       /\ (request.query_type = "presentation_definition")
            = (request.presentation_definition_json # None)
  /\ Len(posted) <= MaxPosts
  /\ answer \in {None, Error, "ok", "refused", "proved"}

Init == request = None /\ proofs = {} /\ posted = <<>> /\ answer = None

-----------------------------------------------------------------------------
\* wallet_parse_presentation_request: of a request only what Dart needs is kept,
\* and neither its state nor its response mode.
ParseRequest(r) ==
  /\ request' =
       [response_uri |-> r.response_uri,
        query_type |-> IF r.dcql_query # None
                       THEN "dcql_query" ELSE "presentation_definition",
        presentation_definition_json |-> r.presentation_definition,
        dcql_query_json |-> r.dcql_query]
  /\ proofs' = {} /\ answer' = None
  /\ UNCHANGED posted

Fail == answer' = Error /\ UNCHANGED <<request, proofs, posted>>

\* The verifier answers, refuses, or is not reached after the presentation left.
Post(presentation) ==
  /\ Len(posted) < MaxPosts
  /\ posted' = Append(posted, presentation)
  /\ answer' \in {"ok", "refused", Error}
  /\ UNCHANGED <<request, proofs>>

QueryType(definition, dcql) ==
  IF dcql # None THEN "dcql_query"
  ELSE IF definition # None THEN "presentation_definition" ELSE None

\* Everything that was passed must parse, also the query that is not used.
Parses(definition, dcql, credentials) ==
  /\ definition # Malformed /\ dcql # Malformed /\ credentials # Malformed
  /\ QueryType(definition, dcql) # None

BuildAndSubmit(response_uri, definition, dcql, credentials) ==
  \/ Fail   \* a text does not parse, or the engine can build no presentation
  \/ /\ Parses(definition, dcql, credentials)
     /\ Post([to |-> response_uri, query_type |-> QueryType(definition, dcql),
              given |-> {definition, dcql}, credentials |-> credentials, zk |-> {}])

\* zk_prove_from_presentation_definition: the first descriptor decides, and the
\* loop ends with it.
ZkProveFromDefinition(definition, secrets) ==
  \/ Fail   \* also when no proof can be generated
  \/ /\ definition \notin {Malformed, <<>>} /\ secrets # Malformed
     /\ RequiredClaim[Head(definition)] \in secrets
     /\ proofs' = proofs \cup {Head(definition)}
     /\ answer' = "proved"
     /\ UNCHANGED <<request, posted>>

\* zk_prove: one named predicate, of a value the caller passes.
ZkProve(predicate_id) ==
  \/ Fail
  \/ /\ proofs' = proofs \cup {predicate_id} /\ answer' = "ok"
     /\ UNCHANGED <<request, posted>>

BuildAndSubmitZk(response_uri, definition, credentials) ==
  \/ Fail
  \/ /\ definition # Malformed /\ credentials # Malformed
     /\ Post([to |-> response_uri, query_type |-> "presentation_definition",
              given |-> {definition}, credentials |-> credentials, zk |-> proofs])

\* A caller passes on the fields of the request, or texts of its own.
Passed(field, others) == {request[field]} \cup others
DefinitionOf == request.presentation_definition_json

Next ==
  \/ \E r \in VerifierRequest : ParseRequest(r)
  \/ /\ request # None
     /\ \/ \E definition \in Passed("presentation_definition_json", {Malformed}),
              dcql \in Passed("dcql_query_json", Queries),
              credentials \in CredentialsJson \cup {Malformed} :
             BuildAndSubmit(request.response_uri, definition, dcql, credentials)
        \/ /\ DefinitionOf # None
           /\ \E definition \in {DefinitionOf, Malformed, <<>>},
                 secrets \in Secrets \cup {Malformed} :
                ZkProveFromDefinition(definition, secrets)
        \/ /\ DefinitionOf # None
           /\ \E predicate_id \in ToSet(DefinitionOf) : ZkProve(predicate_id)
        \/ /\ DefinitionOf # None
           /\ \E definition \in {DefinitionOf, Malformed},
                 credentials \in CredentialsJson \cup {Malformed} :
                BuildAndSubmitZk(request.response_uri, definition, credentials)

Spec == Init /\ [][Next]_vars

-----------------------------------------------------------------------------
\* A presentation only leaves the wallet when every argument of the call was well
\* formed: an error of the caller is never half an answer to the verifier.
PostedIsWellFormed ==
  \A i \in DOMAIN posted :
    Malformed \notin posted[i].given /\ posted[i].credentials # Malformed

\* What is posted answers the query that was passed, of the two the later protocol's
\* where both were; an error of a call posts nothing.
PostedAnswersTheQuery ==
  \A i \in DOMAIN posted :
    (posted[i].given \cap DcqlQuery # {}) = (posted[i].query_type = "dcql_query")
================================================================================
