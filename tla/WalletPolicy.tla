----------------------------- MODULE WalletPolicy -----------------------------
(***************************************************************************)
(* Presentation policies (policy.rs): the wallet syncs them from the       *)
(* backend, and asks about them with each request of a verifier.  Nothing  *)
(* is kept in Rust: a caller passes the texts it holds, in the order the   *)
(* backend gave, and each text parses to a policy or is Malformed.         *)
(***************************************************************************)
EXTENDS Integers, Sequences, FiniteSets, SequencesExt

CONSTANTS
  Policy,           \* the policies of the backend
  RequiredClaims,   \* the claims a policy requires
  Claim, Issuer,
  Credential,       \* the credentials of the wallet
  ClaimsOf,         \* the claims get_credential_claims reads from each
  Rankable,         \* inputs of a ranking: credential_id and issued_at_unix
  RequestBytes,     \* sizes of the requests of the service
  MAX_REQUEST_BYTES,
  Malformed, Error, None

PolicyFunctions ==
  /\ RequiredClaims \in [Policy -> SUBSET Claim]
  /\ ClaimsOf \in [Credential -> SUBSET Claim]
RankableIsFinite == IsFiniteSet(Rankable)

VARIABLES
  policies,   \* policies_json: what the last sync gave, as the caller holds it
  facts,      \* the claims of the request the protocol verifier has verified,
              \* None before a request
  answer      \* what the last call returned

vars == <<policies, facts, answer>>

Lists == {<<>>} \cup {<<p>> : p \in Policy}
                \cup {s \in Policy \X Policy : s[1] # s[2]}
                \cup {<<p, Malformed>> : p \in Policy}

Answer == [call : {"evaluate"}, policy_id : Policy, is_satisfied : BOOLEAN,
           minimum_disclosure_claims : SUBSET Claim,
           missing_required_claims : SUBSET Claim]
     \cup [call : {"service"}, bytes : {b \in RequestBytes : b <= MAX_REQUEST_BYTES}]
     \cup [call : {"disclose"}, credential : Credential, claims : SUBSET Claim]
     \cup [call : {"rank"}, given : SUBSET Rankable, ranked : Seq(Rankable)]
     \cup [call : {"issuer"}, policy : Policy, issuer : Issuer, verified : BOOLEAN,
           is_trusted : BOOLEAN]

TypeOK ==
  /\ policies \in Lists /\ facts \in (SUBSET Claim) \cup {Malformed, None}
  /\ answer \in {None, Error} \/ answer \in Answer

Init == policies = <<>> /\ facts = None /\ answer = None

-----------------------------------------------------------------------------
Returns(a) == answer' = a /\ UNCHANGED <<policies, facts>>

\* sync_policies: the whole list as the backend orders it, or an error and the
\* caller keeps what it had.
SyncPolicies ==
  \/ Returns(Error)
  \/ /\ policies' \in Lists /\ answer' = None
     /\ UNCHANGED facts

\* A verifier asks, and the protocol verifier states the facts of the request.
VerifierAsks ==
  /\ facts' \in (SUBSET Claim) \cup {Malformed}
  /\ answer' = None
  /\ UNCHANGED policies

\* PolicyEvaluator::evaluate, of one policy and the verified facts.
Evaluation(policy, claims) ==
  [call |-> "evaluate", policy_id |-> policy,
   is_satisfied |-> RequiredClaims[policy] \subseteq claims,
   minimum_disclosure_claims |-> RequiredClaims[policy] \cap claims,
   missing_required_claims |-> RequiredClaims[policy] \ claims]

\* Mutant: claims of the wallet's credentials count as verified.
FactsWithCredentials(credentials) == facts \cup UNION {ClaimsOf[c] : c \in credentials}
\* Only verified facts count: the credentials are an argument nothing reads.
Facts(credentials) == facts

\* Every policy of the list must parse, and there must be one; the first one decides.
Parses(list) == list # <<>> /\ Malformed \notin ToSet(list)

EvaluatePresentationRequest(credentials) ==
  /\ facts # None
  /\ IF Parses(policies) /\ facts # Malformed
     THEN Returns(Evaluation(Head(policies), Facts(credentials)))
     ELSE Returns(Error)

\* evaluate_service_presentation_policy: the size is looked at before the text; what
\* the kernel decides is its own.
EvaluateServicePolicy(bytes) ==
  \/ Returns(Error)
  \/ bytes <= MAX_REQUEST_BYTES /\ Returns([call |-> "service", bytes |-> bytes])

\* MinimumDisclosureResolver::resolve.
GetMinimumDisclosureSet(policy, credential) ==
  IF policy = Malformed THEN Returns(Error)
  ELSE Returns([call |-> "disclose", credential |-> credential,
                claims |-> RequiredClaims[policy] \cap ClaimsOf[credential]])

\* u64::try_from of every issuance time: one that is negative fails the whole call.
Convert(credentials) ==
  IF \A c \in credentials : c.issued_at_unix >= 0 THEN credentials ELSE {Malformed}

\* The ranker reorders the credentials in place, by the strategy of the policy.
RankMatchingCredentials(policy, credentials) ==
  IF policy = Malformed \/ Malformed \in Convert(credentials) THEN Returns(Error)
  ELSE \E ranked \in SetToSeqs(Convert(credentials)) :
         Returns([call |-> "rank", given |-> credentials, ranked |-> ranked])

\* IssuerConstraintChecker::check_issuer decides, by the policy's trust profile and
\* its allowed issuers.
CheckIssuerConstraints(policy, issuer, trust_profile_verified) ==
  IF policy = Malformed THEN Returns(Error)
  ELSE \E is_trusted \in BOOLEAN :
         Returns([call |-> "issuer", policy |-> policy, issuer |-> issuer,
                  verified |-> trust_profile_verified, is_trusted |-> is_trusted])

Held == ToSet(policies)
Next ==
  \/ SyncPolicies
  \/ VerifierAsks
  \/ \E credentials \in SUBSET Credential : EvaluatePresentationRequest(credentials)
  \/ \E bytes \in RequestBytes : EvaluateServicePolicy(bytes)
  \/ \E policy \in Held, credential \in Credential :
       GetMinimumDisclosureSet(policy, credential)
  \/ \E policy \in Held, credentials \in SUBSET Rankable :
       RankMatchingCredentials(policy, credentials)
  \/ \E policy \in Held, issuer \in Issuer, verified \in BOOLEAN :
       CheckIssuerConstraints(policy, issuer, verified)

Spec == Init /\ [][Next]_vars

-----------------------------------------------------------------------------
Called(call) == answer \notin {None, Error} /\ answer.call = call

\* A request is never called satisfied on what the wallet holds: every claim the
\* policy requires was verified of this request, whatever credentials were passed.
SatisfiedByVerifiedFacts ==
  Called("evaluate") =>
    /\ answer.is_satisfied => RequiredClaims[answer.policy_id] \subseteq facts
    /\ answer.minimum_disclosure_claims \subseteq facts

\* A decision about a request is never made from a list with an unreadable entry, also
\* when the entry is not the first, the only one that is asked: it could be the policy
\* that was meant, and the caller learns that its list is damaged.
EveryPolicyIsReadable ==
  Called("evaluate") => Malformed \notin Held
================================================================================
