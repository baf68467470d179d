--------------------------- MODULE LivenessChallenge ---------------------------
(***************************************************************************)
(* The native half of the liveness check: creating and verifying a signed  *)
(* challenge, and deciding from the measurements of one face whether a     *)
(* gesture was made.  A signature stands for the secret it was made with.  *)
(* Probabilities are in percent, angles in degrees, times in ticks.        *)
(***************************************************************************)
EXTENDS Integers, Sequences

CONSTANTS
  MaxGestures, MaxTtl,
  EmptySecret,
  Missing, NotFinite,   \* a measurement the detector did not make, or a NaN
  Error

ASSUME LimitsAreNat == MaxGestures \in Nat /\ MaxTtl \in Nat
ASSUME ErrorIsNoVerdict == Error \notin BOOLEAN

gesture_prompt ==
  {"smile", "turnHeadLeft", "turnHeadRight", "lookUp", "lookDown"}

create_liveness_challenge(gestures, ttl, secret, now) ==
  IF /\ Len(gestures) \in 1 .. MaxGestures
     /\ ttl \in 1 .. MaxTtl
     /\ secret # EmptySecret
     /\ \A i \in DOMAIN gestures : gestures[i] \in gesture_prompt
  THEN [gestures |-> gestures, expiresAt |-> now + ttl, signedWith |-> secret]
  ELSE Error

\* No answer is FALSE: a challenge that is not verified is an error.
verify_liveness_challenge(challenge, secret, now) ==
  IF /\ secret # EmptySecret
     /\ challenge # Error
     /\ challenge.signedWith = secret
     /\ now <= challenge.expiresAt
  THEN TRUE ELSE Error

OrZero(measurement) == IF measurement = Missing THEN 0 ELSE measurement

evaluate_liveness_gesture(gesture, face) ==
  IF NotFinite \in {face.smile, face.x, face.y} THEN Error
  ELSE CASE gesture = "smile"         -> OrZero(face.smile) > 80
         [] gesture = "turnHeadLeft"  -> OrZero(face.y) > 45
         [] gesture = "turnHeadRight" -> OrZero(face.y) < -45
         [] gesture = "lookUp"        -> OrZero(face.x) > 20
         [] gesture = "lookDown"      -> OrZero(face.x) < -20
         [] OTHER -> Error
================================================================================
