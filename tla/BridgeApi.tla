------------------------------ MODULE BridgeApi ------------------------------
(***************************************************************************)
(* The two ends of the bridge flutter_rust_bridge generates, as the tables *)
(* they are.  Rust: the wire functions of frb_generated.rs, each with the  *)
(* executor it hands its call to, the order in which it takes its          *)
(* arguments, and whether its API function can fail.  Dart: the tasks of   *)
(* frb_generated.dart, each with the way the caller gets its answer, the   *)
(* order in which it passes the arguments and whether it has a decoder for *)
(* an error.  Arguments cross the border by position, never by name.       *)
(* Dart's camel case names are written as their Rust names, and the types  *)
(* of arguments and results are left out.                                  *)
(***************************************************************************)
EXTENDS Sequences

\* The entries of two tables.
Joined(s, t) ==
  [f \in DOMAIN s \cup DOMAIN t |-> IF f \in DOMAIN s THEN s[f] ELSE t[f]]

-----------------------------------------------------------------------------
\* frb_generated.rs: wrap_normal, wrap_sync and wrap_async; the plain ones
\* have the error type () and wrap their result in Ok.

\* Mutant: a function awaiting the network on the pool.
AsyncOnPool(args) == [mode |-> "normal", args |-> args, fails |-> TRUE]

Normal(args) == [mode |-> "normal", args |-> args, fails |-> TRUE]
NormalPlain(args) == [mode |-> "normal", args |-> args, fails |-> FALSE]
Sync(args) == [mode |-> "sync", args |-> args, fails |-> TRUE]
Async(args) == [mode |-> "async", args |-> args, fails |-> TRUE]

WireTable1 ==
  [ assess_face_quality |-> Normal(<<"image", "models_dir">>),
    check_issuer_constraints |->
        Normal(<<"policy_json", "issuer_id",
               "trust_profile_verified">>),
    create_liveness_challenge |->
        Sync(<<"gestures", "ttl_seconds", "signing_secret">>),
    create_selectable_credential |->
        NormalPlain(<<"credential", "privacy_level">>),
    credential_from_json |-> Normal(<<"json">>) ]

WireTable2 ==
  [ credential_to_json |-> Normal(<<"credential">>),
    estimate_face_age |-> Normal(<<"image", "models_dir">>),
    evaluate_bitstring_status |->
        Normal(<<"entry_json", "status_list_credential_json">>),
    evaluate_liveness_gesture |->
        Sync(<<"gesture", "smiling_probability", "head_euler_angle_x",
               "head_euler_angle_y">>),
    evaluate_presentation_request |->
        Normal(<<"request_json", "policies_json", "_credentials">>) ]

WireTable3 ==
  [ evaluate_service_presentation_policy |-> Normal(<<"request_json">>),
    get_credential_claims |-> NormalPlain(<<"credential">>),
    get_minimum_disclosure_set |-> Normal(<<"policy_json", "credential">>),
    group_credentials_by_issuer |-> NormalPlain(<<"credentials">>),
    is_credential_expired |-> NormalPlain(<<"credential">>),
    parse_mdoc_credential |-> Normal(<<"cbor_bytes">>) ]

WireTable4 ==
  [ parse_sd_jwt_credential |-> Normal(<<"sd_jwt">>),
    parse_status_entries |-> Normal(<<"credential_status_json">>),
    parse_verifiable_credential |-> Normal(<<"json">>),
    rank_matching_credentials |-> Normal(<<"policy_json", "credentials">>),
    shutdown_biometrics |-> Normal(<<>>),
    sync_policies |-> Async(<<"license_jwt", "endpoint">>) ]

WireTable5 ==
  [ verify_and_attach_trust |-> Normal(<<"mdoc", "x5chain">>),
    verify_face_match |->
        Normal(<<"reference_image", "probe_image", "threshold",
               "models_dir">>),
    verify_liveness_challenge |-> Sync(<<"native_payload", "signing_secret">>),
    verify_mdoc_trust_chain |-> Normal(<<"x5chain">>),
    wallet_build_and_submit_presentation |->
        Async(<<"response_uri", "presentation_definition_json",
               "dcql_query_json", "credentials_json">>) ]

WireTable6 ==
  [ wallet_build_and_submit_zk_presentation |->
        Async(<<"response_uri", "presentation_definition_json",
               "credentials_json", "zk_proofs">>),
    wallet_build_auth_request |->
        Normal(<<"issuer_metadata_json", "credential_configuration_id",
               "client_id", "redirect_uri", "issuer_state">>),
    wallet_create_proof_jwt |->
        Normal(<<"holder_kid", "c_nonce", "issuer_url", "jwk_json">>),
    wallet_exchange_auth_code_token |->
        Async(<<"token_endpoint", "code", "code_verifier",
               "redirect_uri", "client_id">>) ]

WireTable7 ==
  [ wallet_exchange_pre_auth_token |->
        Async(<<"token_endpoint", "pre_auth_code", "tx_code">>),
    wallet_fetch_issuer_metadata |-> Async(<<"issuer_url">>),
    wallet_normalize_credential_offer |-> Normal(<<"input">>),
    wallet_parse_credential_offer |-> Async(<<"offer_uri">>),
    wallet_parse_presentation_request |-> Async(<<"request_uri">>) ]

WireTable8 ==
  [ wallet_request_credential |->
        Async(<<"credential_endpoint", "access_token",
               "credential_format", "credential_configuration_id",
               "proof_jwt">>),
    wallet_route_presentation_request |-> Normal(<<"input">>),
    wallet_validate_presentation_context |-> Normal(<<"request_json">>),
    wallet_validate_qr_input |-> Async(<<"raw_data">>),
    zk_is_supported_on_device |-> NormalPlain(<<>>) ]

\* Mutant: the two coordinates of the issuer's key change places on one side.
WireTable9Swapped ==
  [ zk_prove |->
        Normal(<<"predicate_id", "claim_value", "mdoc_bytes",
               "issuer_pky", "issuer_pkx", "doc_type",
               "session_nonce">>),
    zk_prove_from_presentation_definition |->
        Normal(<<"presentation_definition_json", "mdoc_bytes",
               "issuer_pkx", "issuer_pky", "doc_type", "secrets_json",
               "session_nonce">>) ]

WireTable9 ==
  [ zk_prove |->
        Normal(<<"predicate_id", "claim_value", "mdoc_bytes",
               "issuer_pkx", "issuer_pky", "doc_type",
               "session_nonce">>),
    zk_prove_from_presentation_definition |->
        Normal(<<"presentation_definition_json", "mdoc_bytes",
               "issuer_pkx", "issuer_pky", "doc_type", "secrets_json",
               "session_nonce">>) ]

Wire ==
  Joined(WireTable1, Joined(WireTable2, Joined(WireTable3,
  Joined(WireTable4, Joined(WireTable5, Joined(WireTable6,
  Joined(WireTable7, Joined(WireTable8, WireTable9))))))))

-----------------------------------------------------------------------------
\* frb_generated.dart: executeNormal and executeSync; decodeErrorData is null
\* in the plain ones.

Future(args) == [immediate |-> FALSE, args |-> args, decodesErrors |-> TRUE]
FuturePlain(args) ==
  [immediate |-> FALSE, args |-> args, decodesErrors |-> FALSE]
Immediate(args) == [immediate |-> TRUE, args |-> args, decodesErrors |-> TRUE]

TaskTable1 ==
  [ assess_face_quality |-> Future(<<"image", "models_dir">>),
    check_issuer_constraints |->
        Future(<<"policy_json", "issuer_id",
               "trust_profile_verified">>),
    create_liveness_challenge |->
        Immediate(<<"gestures", "ttl_seconds", "signing_secret">>),
    create_selectable_credential |->
        FuturePlain(<<"credential", "privacy_level">>),
    credential_from_json |-> Future(<<"json">>) ]

TaskTable2 ==
  [ credential_to_json |-> Future(<<"credential">>),
    estimate_face_age |-> Future(<<"image", "models_dir">>),
    evaluate_bitstring_status |->
        Future(<<"entry_json", "status_list_credential_json">>),
    evaluate_liveness_gesture |->
        Immediate(<<"gesture", "smiling_probability",
               "head_euler_angle_x", "head_euler_angle_y">>),
    evaluate_presentation_request |->
        Future(<<"request_json", "policies_json", "_credentials">>) ]

TaskTable3 ==
  [ evaluate_service_presentation_policy |-> Future(<<"request_json">>),
    get_credential_claims |-> FuturePlain(<<"credential">>),
    get_minimum_disclosure_set |-> Future(<<"policy_json", "credential">>),
    group_credentials_by_issuer |-> FuturePlain(<<"credentials">>),
    is_credential_expired |-> FuturePlain(<<"credential">>),
    parse_mdoc_credential |-> Future(<<"cbor_bytes">>) ]

TaskTable4 ==
  [ parse_sd_jwt_credential |-> Future(<<"sd_jwt">>),
    parse_status_entries |-> Future(<<"credential_status_json">>),
    parse_verifiable_credential |-> Future(<<"json">>),
    rank_matching_credentials |-> Future(<<"policy_json", "credentials">>),
    shutdown_biometrics |-> Future(<<>>),
    sync_policies |-> Future(<<"license_jwt", "endpoint">>) ]

TaskTable5 ==
  [ verify_and_attach_trust |-> Future(<<"mdoc", "x5chain">>),
    verify_face_match |->
        Future(<<"reference_image", "probe_image", "threshold",
               "models_dir">>),
    verify_liveness_challenge |->
        Immediate(<<"native_payload", "signing_secret">>),
    verify_mdoc_trust_chain |-> Future(<<"x5chain">>),
    wallet_build_and_submit_presentation |->
        Future(<<"response_uri", "presentation_definition_json",
               "dcql_query_json", "credentials_json">>) ]

TaskTable6 ==
  [ wallet_build_and_submit_zk_presentation |->
        Future(<<"response_uri", "presentation_definition_json",
               "credentials_json", "zk_proofs">>),
    wallet_build_auth_request |->
        Future(<<"issuer_metadata_json", "credential_configuration_id",
               "client_id", "redirect_uri", "issuer_state">>),
    wallet_create_proof_jwt |->
        Future(<<"holder_kid", "c_nonce", "issuer_url", "jwk_json">>),
    wallet_exchange_auth_code_token |->
        Future(<<"token_endpoint", "code", "code_verifier",
               "redirect_uri", "client_id">>) ]

TaskTable7 ==
  [ wallet_exchange_pre_auth_token |->
        Future(<<"token_endpoint", "pre_auth_code", "tx_code">>),
    wallet_fetch_issuer_metadata |-> Future(<<"issuer_url">>),
    wallet_normalize_credential_offer |-> Future(<<"input">>),
    wallet_parse_credential_offer |-> Future(<<"offer_uri">>),
    wallet_parse_presentation_request |-> Future(<<"request_uri">>) ]

TaskTable8 ==
  [ wallet_request_credential |->
        Future(<<"credential_endpoint", "access_token",
               "credential_format", "credential_configuration_id",
               "proof_jwt">>),
    wallet_route_presentation_request |-> Future(<<"input">>),
    wallet_validate_presentation_context |-> Future(<<"request_json">>),
    wallet_validate_qr_input |-> Future(<<"raw_data">>),
    zk_is_supported_on_device |-> FuturePlain(<<>>) ]

TaskTable9 ==
  [ zk_prove |->
        Future(<<"predicate_id", "claim_value", "mdoc_bytes",
               "issuer_pkx", "issuer_pky", "doc_type",
               "session_nonce">>),
    zk_prove_from_presentation_definition |->
        Future(<<"presentation_definition_json", "mdoc_bytes",
               "issuer_pkx", "issuer_pky", "doc_type", "secrets_json",
               "session_nonce">>) ]

Task ==
  Joined(TaskTable1, Joined(TaskTable2, Joined(TaskTable3,
  Joined(TaskTable4, Joined(TaskTable5, Joined(TaskTable6,
  Joined(TaskTable7, Joined(TaskTable8, TaskTable9))))))))

=============================================================================
