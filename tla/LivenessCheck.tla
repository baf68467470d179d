----------------------------- MODULE LivenessCheck -----------------------------
(***************************************************************************)
(* LivenessCheckView, from initState to dispose.  Three things run beside  *)
(* each other on the isolate: the creation of the challenge with its       *)
(* expiry ticker, the camera whose frames are recognised one at a time in  *)
(* an awaited call, and the user, who may leave at any moment.  A view     *)
(* that is left stays mounted until its exit transition ends.              *)
(***************************************************************************)
EXTENDS LivenessChallenge, FiniteSets

CONSTANTS
  Gestures,       \* the gestures of this check
  Ttl, Second,    \* challengeTtl and one second, in ticks
  Secret,         \* livenessSigningSecret
  Face,           \* measurements a frame may yield
  NoFace, DetectorFails, \* a frame without a face, or one the detector fails on
  SlowFactory,    \* TRUE: an injected challengeFactory that takes time
  Mocked,         \* TRUE: kIsWeb or cameraPreviewOverride
  MaxTime,        \* bound on the clock
  None

ASSUME TimesArePositive == {Second, MaxTime} \subseteq Nat \ {0} /\ Ttl \in Nat
ASSUME GesturesAreListed == Gestures \in Seq(STRING)
ASSUME SwitchesAreBoolean == SlowFactory \in BOOLEAN /\ Mocked \in BOOLEAN
ASSUME NoneIsNoChallenge ==
  None \notin [gestures : {Gestures}, expiresAt : Int, signedWith : {Secret}]

VARIABLES
  now,
  route,        \* where the view is on the navigator
  challenge,    \* _challenge
  ticker,       \* when the expiry ticker fires next, or None
  expirySeconds,
  camera,
  isBusy,
  frames,       \* frames being recognised, and the gesture asked at capture
  index,        \* _currentGestureIndex
  feedback,
  seen          \* history: per gesture the frame it was recognised in

checkVars == <<now, route, challenge, ticker, expirySeconds, camera, isBusy, frames,
          index, feedback, seen>>

Mounted == route \in {"shown", "leaving"}
Content == Face \cup {NoFace, DetectorFails}

CheckTypeOK ==
  /\ now \in 0 .. MaxTime
  /\ route \in {"shown", "leaving", "reviewed", "disposed"}
  /\ challenge \notin {None, Error} =>
       /\ challenge.gestures = Gestures /\ challenge.signedWith = Secret
       /\ challenge.expiresAt \in Ttl .. MaxTime + Ttl
  /\ ticker \in 0 .. MaxTime + Second \cup {None}
  /\ expirySeconds \in 0 .. Ttl \div Second
  /\ camera \in {"opening", "streaming", "mocked", "failed"}
  /\ isBusy = (frames # {})
  /\ Cardinality(frames) <= 1
  /\ \A f \in frames : f.content \in Content /\ f.asked \in 0 .. Len(Gestures)
  /\ index \in 0 .. Len(Gestures) /\ (~Mocked => index = Len(seen))
  /\ feedback \in {"", "Good", "Complete", "Unavailable"}

CheckInit ==
  /\ now = 0 /\ route = "shown" /\ challenge = None /\ ticker = None
  /\ expirySeconds = Ttl \div Second
  /\ camera = IF Mocked THEN "mocked" ELSE "opening"
  /\ isBusy = FALSE /\ frames = {}
  /\ index = 0 /\ feedback = "" /\ seen = <<>>

-----------------------------------------------------------------------------
\* _initializeChallenge, when its factory has answered.  Error is a challenge that
\* was refused, or a bridge that failed.
CreateChallenge ==
  \E created \in {create_liveness_challenge(Gestures, Ttl, Secret, now), Error} :
      /\ challenge = None /\ Mounted
      /\ challenge' = created
      /\ IF created = Error
         THEN feedback' = "Unavailable" /\ UNCHANGED ticker
         ELSE ticker' = now + Second /\ UNCHANGED feedback
      /\ UNCHANGED <<now, route, expirySeconds, camera, isBusy, frames, index, seen>>

\* Production creates the challenge before any event reaches the view.
Started == SlowFactory \/ challenge # None

Remaining == IF now < challenge.expiresAt
             THEN (challenge.expiresAt - now) \div Second ELSE 0
ExpiryTick ==
  /\ ticker # None /\ now >= ticker
  /\ ticker' = IF Mounted /\ Remaining > 0 THEN now + Second ELSE None
  /\ expirySeconds' = IF Mounted THEN Remaining ELSE expirySeconds
  /\ UNCHANGED <<now, route, challenge, camera, isBusy, frames, index, feedback, seen>>

OpenCamera ==
  /\ camera = "opening" /\ Started
  /\ camera' \in (IF Mounted THEN {"streaming", "failed"} ELSE {"failed"})
  /\ UNCHANGED <<now, route, challenge, ticker, expirySeconds, isBusy, frames,
                 index, feedback, seen>>

IsExpired == now > challenge.expiresAt

\* Mutant: only the existence of the challenge is checked.
FinishUnexamined ==
  IF challenge \in {None, Error}
  THEN feedback' = "Unavailable" /\ UNCHANGED <<route, camera>>
  ELSE feedback' = "Complete" /\ route' = "reviewed" /\ UNCHANGED camera

\* The last gesture, in the same setState: _finishVerification opens the review
\* or leaves the view as it is.
FinishVerification ==
  IF challenge \in {None, Error} \/ IsExpired
  THEN feedback' = "Unavailable" /\ UNCHANGED <<route, camera>>
  ELSE feedback' = "Complete" /\ route' = "reviewed" /\ UNCHANGED camera

Advance ==
  /\ index' = index + 1
  /\ IF index' < Len(Gestures)
     THEN feedback' = "Good" /\ UNCHANGED <<route, camera>>
     ELSE FinishVerification
  /\ UNCHANGED <<now, challenge, ticker, expirySeconds>>

NotTurned == UNCHANGED <<now, route, challenge, ticker, expirySeconds, camera,
                         index, feedback, seen>>

\* Mutant: without the test of _isBusy.
ProcessAnyImage(content) ==
  /\ camera = "streaming" /\ Mounted /\ Cardinality(frames) < 2
  /\ isBusy' = TRUE
  /\ frames' = frames \cup {[content |-> content, asked |-> index]}
  /\ NotTurned

\* A frame.  It is dropped while another is being recognised, or when it cannot
\* be converted; both leave the state as it is.
ProcessImage(content) ==
  /\ camera = "streaming" /\ Mounted
  /\ ~isBusy
  /\ isBusy' = TRUE
  /\ frames' = frames \cup {[content |-> content, asked |-> index]}
  /\ NotTurned

\* _checkGesture after the await.  A disposed view throws, which is caught like
\* the failure of the detector or of the evaluation.
Counts(f) ==
  /\ Mounted /\ index < Len(Gestures)
  /\ f.content \notin {NoFace, DetectorFails}
  /\ evaluate_liveness_gesture(Gestures[index + 1], f.content) = TRUE

Recognised(f) ==
  /\ f \in frames /\ frames' = frames \ {f}
  /\ isBusy' = FALSE
  /\ IF Counts(f) THEN Advance /\ seen' = Append(seen, f) ELSE NotTurned

\* One turn of _startWebMock, after its delay.
MockGesture ==
  /\ camera = "mocked" /\ Mounted /\ Started
  /\ index < Len(Gestures)
  /\ Advance
  /\ UNCHANGED <<isBusy, frames, seen>>

LeaveCheck ==
  /\ route = "shown" /\ Started /\ route' = "leaving"
  /\ UNCHANGED <<now, challenge, ticker, expirySeconds, camera, isBusy, frames,
                 index, feedback, seen>>
Dispose ==
  /\ route = "leaving" /\ route' = "disposed"
  /\ UNCHANGED <<now, challenge, ticker, expirySeconds, camera, isBusy, frames,
                 index, feedback, seen>>

Tick ==
  /\ Started /\ now < MaxTime /\ now' = now + 1
  /\ UNCHANGED <<route, challenge, ticker, expirySeconds, camera, isBusy, frames,
                 index, feedback, seen>>

CheckNext ==
  \/ CreateChallenge \/ ExpiryTick \/ OpenCamera \/ MockGesture
  \/ LeaveCheck \/ Dispose \/ Tick
  \/ \E content \in Content : ProcessImage(content)
  \/ \E f \in frames : Recognised(f)

\* Timers fire and awaited calls end; the camera, the user and their faces owe
\* nothing.
CheckFairness ==
  /\ WF_checkVars(CreateChallenge) /\ WF_checkVars(ExpiryTick) /\ WF_checkVars(Tick)
  /\ WF_checkVars(\E f \in frames : Recognised(f))

CheckSpec == CheckInit /\ [][CheckNext]_checkVars /\ CheckFairness

-----------------------------------------------------------------------------
\* The review opens after the last gesture only, and with a challenge the kernel
\* would accept at that moment.  The view asks its own clock and never calls
\* verify_liveness_challenge, so the two must agree up to the last tick.
ReviewedIsVerified ==
  [][route # "reviewed" /\ route' = "reviewed" =>
       /\ index' = Len(Gestures)
       /\ verify_liveness_challenge(challenge, Secret, now) = TRUE]_checkVars

\* Each recognised gesture was made in a frame taken after the view asked for it.
\* Without _isBusy a slow frame of one gesture could count for the next one.
SeenAfterAsked == \A i \in DOMAIN seen : seen[i].asked = i - 1

\* Each recognised gesture was really in its frame: the measurement was made, and
\* is beyond its threshold (liveness_behavior.json: at the threshold is not).
GestureWasMade ==
  \A i \in DOMAIN seen :
    LET face == seen[i].content
    IN  CASE Gestures[i] = "smile" -> face.smile # Missing /\ face.smile > 80
          [] Gestures[i] \in {"turnHeadLeft", "turnHeadRight"} ->
               /\ face.y # Missing
               /\ IF Gestures[i] = "turnHeadLeft" THEN face.y > 45 ELSE face.y < -45
          [] OTHER ->
               /\ face.x # Missing
               /\ IF Gestures[i] = "lookUp" THEN face.x > 20 ELSE face.x < -20

\* In production the view only stays behind with no gesture left to make when it
\* has no challenge, or when the challenge's time is over.
StuckOnlyWithoutTime ==
  (Mounted /\ index = Len(Gestures)) =>
    (challenge = Error \/ challenge.expiresAt < now)
================================================================================
