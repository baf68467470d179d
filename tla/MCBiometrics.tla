------------------------------ MODULE MCBiometrics ------------------------------
(***************************************************************************)
(* Biometrics for TLC: two spellings of one directory, a second directory  *)
(* and a path that is refused.                                             *)
(***************************************************************************)
EXTENDS Biometrics, TLC

CONSTANTS d1, d2, here, alias, there, bad

MCCanon == here :> d1 @@ alias :> d1 @@ there :> d2 @@ bad :> NoDir
=============================================================================
