--------------------------- MODULE ScreenPartsProofs ---------------------------
(***************************************************************************)
(* Theorems about three parts of the application that its screens use in   *)
(* several configurations, for every value of their constants: the         *)
(* liveness check, the status of the verification, and the presentation    *)
(* in proximity.  ScreensProofs takes the lemmas about single steps from   *)
(* here for each of its configurations.                                    *)
(***************************************************************************)
EXTENDS LivenessCheck, VerificationStatus, FiniteSetTheorems, TLAPS

-----------------------------------------------------------------------------
(***************************************************************************)
(* The liveness check, for every list of gestures, detector, clock and     *)
(* face.  The frame being recognised is the only one, and was taken while  *)
(* the gesture that is asked now was asked: _isBusy does both.  What the   *)
(* view knows of its challenge is what the kernel made it of.              *)
(***************************************************************************)
TakenFrame == [content : Content, asked : Nat]

Clock == now \in Nat /\ index \in 0 .. Len(Gestures)

\* One frame at a time, and it is about the gesture asked now.
OneFrame ==
  /\ frames \subseteq TakenFrame
  /\ isBusy = (frames # {})
  /\ \A f, g \in frames : f = g
  /\ \A f \in frames : f.asked = index
  /\ seen \in Seq(TakenFrame)
  /\ (camera = "mocked") <=> Mocked
  /\ Mocked => frames = {} /\ seen = <<>>
  /\ ~Mocked => Len(seen) = index

\* A challenge that was not refused is signed, and has a time.
ChallengeIsSigned ==
  challenge \notin {None, Error} =>
    challenge.expiresAt \in Int /\ challenge.signedWith = Secret /\ Secret # EmptySecret

CheckInv == Clock /\ OneFrame /\ ChallengeIsSigned /\ SeenAfterAsked

LEMMA Lengths == Len(Gestures) \in Nat
BY GesturesAreListed

LEMMA Created ==
  ASSUME now \in Nat, create_liveness_challenge(Gestures, Ttl, Secret, now) # Error
  PROVE  LET c == create_liveness_challenge(Gestures, Ttl, Secret, now)
         IN  c.expiresAt \in Int /\ c.signedWith = Secret /\ Secret # EmptySecret
BY LimitsAreNat DEF create_liveness_challenge

LEMMA InitCheckInv == CheckInit => CheckInv
<1> SUFFICES ASSUME CheckInit PROVE CheckInv
  OBVIOUS
<1>1. frames = {} /\ isBusy = FALSE /\ seen = <<>> /\ index = 0 /\ now = 0 /\ challenge = None
  BY DEF CheckInit
<1>2. (camera = "mocked") <=> Mocked
  BY SwitchesAreBoolean DEF CheckInit
<1>3. OneFrame
  <2>1. isBusy = (frames # {})
    BY <1>1
  <2>2. seen \in Seq(TakenFrame) /\ Len(seen) = index
    BY <1>1
  <2> QED BY <1>1, <1>2, <2>1, <2>2 DEF OneFrame
<1>4. Clock /\ ChallengeIsSigned
  BY <1>1, Lengths DEF Clock, ChallengeIsSigned
<1>5. SeenAfterAsked
  BY <1>1 DEF SeenAfterAsked
<1> QED BY <1>3, <1>4, <1>5 DEF CheckInv

\* Neither frames nor gestures are touched.
LEMMA Aside ==
  ASSUME CheckInv, now' \in Nat, ChallengeIsSigned', (camera' = "mocked") <=> Mocked,
         UNCHANGED <<isBusy, frames, index, seen>>
  PROVE  CheckInv'
BY DEF CheckInv, Clock, OneFrame, SeenAfterAsked

LEMMA StepCheckInv == CheckInv /\ [CheckNext]_checkVars => CheckInv'
<1> SUFFICES ASSUME CheckInv, [CheckNext]_checkVars PROVE CheckInv'
  OBVIOUS
<1> USE Lengths
<1>1. CASE CreateChallenge
  <2>1. now' = now /\ UNCHANGED <<camera, isBusy, frames, index, seen>>
    BY <1>1 DEF CreateChallenge
  <2>2. ChallengeIsSigned'
    BY <1>1, Created DEF CreateChallenge, CheckInv, Clock, ChallengeIsSigned
  <2> QED BY <2>1, <2>2, Aside DEF CheckInv, Clock, OneFrame
<1>2. CASE ExpiryTick \/ LeaveCheck \/ Dispose
  <2>1. UNCHANGED <<now, challenge, camera, isBusy, frames, index, seen>>
    BY <1>2 DEF ExpiryTick, LeaveCheck, Dispose
  <2> QED BY <2>1, Aside DEF CheckInv, Clock, OneFrame, ChallengeIsSigned
<1>3. CASE OpenCamera
  <2>1. /\ UNCHANGED <<now, challenge, isBusy, frames, index, seen>>
        /\ camera = "opening" /\ camera' \in {"streaming", "failed"}
    BY <1>3 DEF OpenCamera
  <2> QED BY <2>1, Aside DEF CheckInv, Clock, OneFrame, ChallengeIsSigned
<1>4. CASE Tick
  <2>1. now' = now + 1 /\ UNCHANGED <<challenge, camera, isBusy, frames, index, seen>>
    BY <1>4 DEF Tick
  <2> QED BY <2>1, Aside DEF CheckInv, Clock, OneFrame, ChallengeIsSigned
<1>5. CASE MockGesture
  <2>1. /\ camera = "mocked" /\ index < Len(Gestures) /\ index' = index + 1
        /\ UNCHANGED <<now, challenge, camera, isBusy, frames, seen>>
    BY <1>5 DEF MockGesture, Advance, FinishVerification
  <2> QED BY <2>1 DEF CheckInv, Clock, OneFrame, ChallengeIsSigned, SeenAfterAsked
<1>6. ASSUME NEW content \in Content, ProcessImage(content) PROVE CheckInv'
  <2>1. /\ camera = "streaming" /\ ~isBusy /\ isBusy' = TRUE
        /\ frames' = frames \cup {[content |-> content, asked |-> index]}
        /\ UNCHANGED <<now, challenge, camera, index, seen>>
    BY <1>6 DEF ProcessImage, NotTurned
  <2>2. frames = {}
    BY <2>1 DEF CheckInv, OneFrame
  <2>3. OneFrame'
    <3>1. /\ frames' = {[content |-> content, asked |-> index]} /\ index \in Nat
          /\ [content |-> content, asked |-> index].asked = index
      BY <2>1, <2>2 DEF CheckInv, Clock
    <3>2. frames' \subseteq TakenFrame
      BY <3>1 DEF TakenFrame
    <3>3. ~Mocked
      BY <2>1 DEF CheckInv, OneFrame
    <3>4. isBusy' = (frames' # {})
      BY <2>1, <3>1
    <3>5. \A f, g \in frames' : f = g /\ f.asked = index'
      BY <2>1, <3>1
    <3> QED BY <2>1, <3>2, <3>3, <3>4, <3>5 DEF CheckInv, OneFrame
  <2> QED BY <2>1, <2>3 DEF CheckInv, Clock, ChallengeIsSigned, SeenAfterAsked
<1>7. ASSUME NEW f \in frames, Recognised(f) PROVE CheckInv'
  <2>1. frames' = {} /\ isBusy' = FALSE /\ f \in TakenFrame /\ f.asked = index /\ ~Mocked
    BY <1>7 DEF Recognised, CheckInv, OneFrame
  <2>2. CASE Counts(f)
    <3>1. /\ index < Len(Gestures) /\ index' = index + 1 /\ seen' = Append(seen, f)
          /\ UNCHANGED <<now, challenge, camera>>
      BY <1>7, <2>2 DEF Recognised, Counts, Advance, FinishVerification
    <3>2. OneFrame'
      <4>1. seen' \in Seq(TakenFrame) /\ Len(seen') = index'
        BY <2>1, <3>1 DEF CheckInv, OneFrame, Clock
      <4>2. isBusy' = (frames' # {})
        BY <2>1
      <4> QED BY <2>1, <3>1, <4>1, <4>2 DEF CheckInv, OneFrame
    <3>3. SeenAfterAsked'
      <4>1. Len(seen) = index /\ seen \in Seq(TakenFrame) /\ index \in Nat
        BY <2>1 DEF CheckInv, OneFrame, Clock
      <4>2. /\ DOMAIN seen' = 1 .. index + 1 /\ seen'[index + 1] = f
            /\ \A i \in 1 .. index : seen'[i] = seen[i] /\ i \in DOMAIN seen
        BY <3>1, <4>1
      <4>3. ASSUME NEW i \in 1 .. index + 1 PROVE seen'[i].asked = i - 1
        <5>1. CASE i = index + 1
          BY <2>1, <4>1, <4>2, <5>1
        <5>2. CASE i \in 1 .. index
          BY <4>2, <5>2 DEF CheckInv, SeenAfterAsked
        <5> QED BY <4>1, <5>1, <5>2
      <4> QED BY <4>2, <4>3 DEF SeenAfterAsked
    <3> QED BY <3>1, <3>2, <3>3 DEF CheckInv, Clock, ChallengeIsSigned
  <2>3. CASE ~Counts(f)
    <3>1. UNCHANGED <<now, challenge, camera, index, seen>>
      BY <1>7, <2>3 DEF Recognised, NotTurned
    <3> QED BY <2>1, <3>1 DEF CheckInv, Clock, OneFrame, ChallengeIsSigned, SeenAfterAsked
  <2> QED BY <2>2, <2>3
<1>8. CASE UNCHANGED checkVars
  BY <1>8 DEF checkVars, CheckInv, Clock, OneFrame, ChallengeIsSigned, SeenAfterAsked
<1> QED
  BY <1>1, <1>2, <1>3, <1>4, <1>5, <1>6, <1>7, <1>8 DEF CheckNext

\* What an image must show for a gesture: the part of GestureWasMade about one image.
Shows(face, gesture) ==
  CASE gesture = "smile" -> face.smile # Missing /\ face.smile > 80
    [] gesture \in {"turnHeadLeft", "turnHeadRight"} ->
         /\ face.y # Missing
         /\ IF gesture = "turnHeadLeft" THEN face.y > 45 ELSE face.y < -45
    [] OTHER ->
         /\ face.x # Missing
         /\ IF gesture = "lookUp" THEN face.x > 20 ELSE face.x < -20

LEMMA MadeMeansShown ==
  GestureWasMade <=> \A i \in DOMAIN seen : Shows(seen[i].content, Gestures[i])
BY DEF GestureWasMade, Shows

\* No measurement stands for zero, and zero is beyond no threshold.
LEMMA EvaluatedIsShown ==
  ASSUME NEW gesture, NEW face, evaluate_liveness_gesture(gesture, face) = TRUE
  PROVE  Shows(face, gesture)
<1>1. Error # TRUE
  BY ErrorIsNoVerdict
<1>2. NotFinite \notin {face.smile, face.x, face.y}
  BY <1>1 DEF evaluate_liveness_gesture
<1>3. /\ gesture = "smile" => (OrZero(face.smile) > 80) = TRUE
      /\ gesture = "turnHeadLeft" => (OrZero(face.y) > 45) = TRUE
      /\ gesture = "turnHeadRight" => (OrZero(face.y) < -45) = TRUE
      /\ gesture = "lookUp" => (OrZero(face.x) > 20) = TRUE
      /\ gesture = "lookDown" => (OrZero(face.x) < -20) = TRUE
  BY <1>2 DEF evaluate_liveness_gesture
<1>4. gesture \in {"smile", "turnHeadLeft", "turnHeadRight", "lookUp", "lookDown"}
  BY <1>1, <1>2 DEF evaluate_liveness_gesture
<1> QED BY <1>3, <1>4 DEF OrZero, Shows

LEMMA InitMade == CheckInit => GestureWasMade
<1> SUFFICES ASSUME CheckInit PROVE GestureWasMade
  OBVIOUS
<1>1. seen = <<>>
  BY DEF CheckInit
<1>2. DOMAIN seen = {}
  BY <1>1
<1> QED BY <1>2, MadeMeansShown

LEMMA StepMade ==
  ASSUME CheckInv, GestureWasMade, [CheckNext]_checkVars
  PROVE  GestureWasMade'
<1>1. CASE UNCHANGED seen
  BY <1>1 DEF GestureWasMade
<1>2. ASSUME NEW f \in frames, Recognised(f), Counts(f)
      PROVE  GestureWasMade'
  <2>1. /\ seen' = Append(seen, f) /\ seen \in Seq(TakenFrame) /\ f \in TakenFrame
        /\ Len(seen) = index /\ index \in Nat
    BY <1>2 DEF Recognised, CheckInv, OneFrame, Clock
  <2>2. Shows(f.content, Gestures[index + 1])
    BY <1>2, EvaluatedIsShown DEF Counts
  <2>3. /\ DOMAIN seen' = 1 .. index + 1 /\ seen'[index + 1] = f
        /\ \A i \in 1 .. index : seen'[i] = seen[i] /\ i \in DOMAIN seen
    BY <2>1
  <2>4. ASSUME NEW i \in 1 .. index + 1 PROVE Shows(seen'[i].content, Gestures[i])
    <3>1. CASE i = index + 1
      BY <2>2, <2>3, <3>1
    <3>2. CASE i \in 1 .. index
      BY <2>3, <3>2, MadeMeansShown
    <3> QED BY <2>1, <3>1, <3>2
  <2>5. \A i \in DOMAIN seen' : Shows(seen'[i].content, Gestures[i])
    BY <2>3, <2>4
  <2> QED BY <2>5 DEF GestureWasMade, Shows
<1>3. ASSUME NEW f \in frames, Recognised(f), ~Counts(f)
      PROVE  UNCHANGED seen
  BY <1>3 DEF Recognised, NotTurned
<1> QED
  BY <1>1, <1>2, <1>3 DEF CheckNext, checkVars, CreateChallenge, ExpiryTick, OpenCamera,
     MockGesture, LeaveCheck, Dispose, Tick, ProcessImage, NotTurned

\* The types of the rest.  The ticker runs for a challenge that was created, and no
\* challenge has more time left than it was given.
CheckTyped ==
  /\ now \in 0 .. MaxTime
  /\ route \in {"shown", "leaving", "reviewed", "disposed"}
  /\ challenge \notin {None, Error} =>
       /\ challenge.gestures = Gestures /\ challenge.signedWith = Secret
       /\ challenge.expiresAt \in Ttl .. now + Ttl
  /\ ticker \in 0 .. MaxTime + Second \cup {None}
  /\ ticker # None => challenge \notin {None, Error}
  /\ expirySeconds \in 0 .. Ttl \div Second
  /\ camera \in {"opening", "streaming", "mocked", "failed"}
  /\ \A f \in frames : f.content \in Content
  /\ feedback \in {"", "Good", "Complete", "Unavailable"}

\* Fewer ticks are no more seconds.
LEMMA FewerSeconds ==
  ASSUME NEW a \in Nat, NEW b \in Nat, a <= b, NEW s \in Nat \ {0}
  PROVE  a \div s \in 0 .. b \div s
OBVIOUS

LEMMA InitCheckTyped == CheckInit => CheckTyped
<1>1. Ttl \div Second \in 0 .. Ttl \div Second /\ 0 \in 0 .. MaxTime
  BY TimesArePositive, FewerSeconds
<1> QED BY <1>1 DEF CheckInit, CheckTyped

\* A step of the gestures only moves the view and its feedback.
LEMMA AdvanceTyped ==
  ASSUME CheckTyped, Advance, frames' \subseteq frames
  PROVE  CheckTyped'
BY DEF CheckTyped, Advance, FinishVerification

LEMMA StepCheckTyped ==
  ASSUME CheckTyped, [CheckNext]_checkVars
  PROVE  CheckTyped'
<1>0. /\ now \in 0 .. MaxTime /\ Second \in Nat \ {0} /\ MaxTime \in Nat /\ Ttl \in Nat
      /\ now + Second \in 0 .. MaxTime + Second
  <2>1. now \in 0 .. MaxTime
    BY DEF CheckTyped
  <2>2. Second \in Nat \ {0} /\ MaxTime \in Nat /\ Ttl \in Nat
    BY TimesArePositive
  <2> QED BY <2>1, <2>2
<1>1. CASE CreateChallenge
  <2>1. PICK created \in {create_liveness_challenge(Gestures, Ttl, Secret, now), Error} :
          /\ challenge = None /\ challenge' = created
          /\ IF created = Error
             THEN feedback' = "Unavailable" /\ UNCHANGED ticker
             ELSE ticker' = now + Second /\ UNCHANGED feedback
          /\ UNCHANGED <<now, route, expirySeconds, camera, frames>>
    BY <1>1 DEF CreateChallenge
  <2>2. CASE created = Error
    BY <2>1, <2>2 DEF CheckTyped
  <2>3. CASE created # Error
    <3>1. created = [gestures |-> Gestures, expiresAt |-> now + Ttl, signedWith |-> Secret]
      BY <2>1, <2>3 DEF create_liveness_challenge
    <3>2. /\ created.gestures = Gestures /\ created.signedWith = Secret
          /\ created.expiresAt \in Ttl .. now + Ttl
          /\ created \in [gestures : {Gestures}, expiresAt : Int, signedWith : {Secret}]
      BY <1>0, <3>1
    <3>3. created # None
      BY <3>2, NoneIsNoChallenge
    <3> QED BY <1>0, <2>1, <2>3, <3>2, <3>3 DEF CheckTyped
  <2> QED BY <2>2, <2>3
<1>2. CASE ExpiryTick
  <2>1. /\ ticker # None /\ ticker' \in {now + Second, None}
        /\ expirySeconds' \in {Remaining, expirySeconds}
        /\ UNCHANGED <<now, route, challenge, camera, frames, feedback>>
    BY <1>2 DEF ExpiryTick
  <2>2. challenge \notin {None, Error} /\ challenge.expiresAt \in Ttl .. now + Ttl
    BY <2>1 DEF CheckTyped
  <2>3. Remaining \in 0 .. Ttl \div Second
    <3>1. CASE now < challenge.expiresAt
      <4>1. challenge.expiresAt - now \in Nat /\ challenge.expiresAt - now <= Ttl
        BY <1>0, <2>2, <3>1
      <4> QED BY <1>0, <3>1, <4>1, FewerSeconds DEF Remaining
    <3>2. CASE ~(now < challenge.expiresAt)
      <4>1. Ttl \div Second \in Nat
        BY <1>0, FewerSeconds
      <4> QED BY <3>2, <4>1 DEF Remaining
    <3> QED BY <3>1, <3>2
  <2> QED BY <1>0, <2>1, <2>2, <2>3 DEF CheckTyped
<1>3. CASE OpenCamera \/ LeaveCheck \/ Dispose
  BY <1>3 DEF OpenCamera, LeaveCheck, Dispose, CheckTyped
<1>4. CASE Tick
  <2>1. /\ now' = now + 1 /\ now' \in 0 .. MaxTime
        /\ UNCHANGED <<route, challenge, ticker, expirySeconds, camera, frames, feedback>>
    BY <1>0, <1>4 DEF Tick
  <2>2. Ttl .. now + Ttl \subseteq Ttl .. now' + Ttl
    BY <1>0, <2>1
  <2> QED BY <2>1, <2>2 DEF CheckTyped
<1>5. CASE MockGesture
  BY <1>5, AdvanceTyped DEF MockGesture
<1>6. ASSUME NEW content \in Content, ProcessImage(content) PROVE CheckTyped'
  <2>1. /\ frames' = frames \cup {[content |-> content, asked |-> index]} /\ NotTurned
    BY <1>6 DEF ProcessImage
  <2>2. ASSUME NEW f \in frames' PROVE f.content \in Content
    <3>1. CASE f \in frames
      BY <3>1 DEF CheckTyped
    <3>2. CASE f = [content |-> content, asked |-> index]
      BY <3>2
    <3> QED BY <2>1, <3>1, <3>2
  <2> QED BY <2>1, <2>2 DEF NotTurned, CheckTyped
<1>7. ASSUME NEW f \in frames, Recognised(f) PROVE CheckTyped'
  <2>1. frames' \subseteq frames /\ (Advance \/ NotTurned)
    BY <1>7 DEF Recognised
  <2>2. CASE NotTurned
    BY <2>1, <2>2 DEF NotTurned, CheckTyped
  <2> QED BY <2>1, <2>2, AdvanceTyped
<1>8. CASE UNCHANGED checkVars
  BY <1>8 DEF checkVars, CheckTyped
<1> QED
  BY <1>1, <1>2, <1>3, <1>4, <1>5, <1>6, <1>7, <1>8 DEF CheckNext

LEMMA CheckIsTyped ==
  ASSUME CheckInv, CheckTyped
  PROVE  CheckTypeOK
<1>1. Cardinality(frames) <= 1
  <2>1. CASE frames = {}
    BY <2>1, FS_EmptySet
  <2>2. ASSUME NEW f \in frames PROVE Cardinality(frames) <= 1
    <3>1. frames = {f}
      BY DEF CheckInv, OneFrame
    <3>2. Cardinality({f}) = 1
      BY FS_Singleton
    <3> QED BY <3>1, <3>2
  <2> QED BY <2>1, <2>2
<1>2. /\ \A f \in frames : f.asked \in 0 .. Len(Gestures)
      /\ index \in 0 .. Len(Gestures) /\ (~Mocked => index = Len(seen))
      /\ isBusy = (frames # {})
  BY DEF CheckInv, Clock, OneFrame
<1>3. challenge \notin {None, Error} => challenge.expiresAt \in Ttl .. MaxTime + Ttl
  <2>1. now \in 0 .. MaxTime /\ MaxTime \in Nat /\ Ttl \in Nat
    BY TimesArePositive DEF CheckTyped
  <2>2. Ttl .. now + Ttl \subseteq Ttl .. MaxTime + Ttl
    BY <2>1
  <2> QED BY <2>2 DEF CheckTyped
<1> QED BY <1>1, <1>2, <1>3 DEF CheckTyped, CheckTypeOK

\* The review opens after the last gesture, with a challenge that is signed and has time.
LEMMA ReviewStep ==
  CheckInv /\ [CheckNext]_checkVars =>
    [route # "reviewed" /\ route' = "reviewed" =>
       /\ index' = Len(Gestures)
       /\ verify_liveness_challenge(challenge, Secret, now) = TRUE]_checkVars
<1>1. ASSUME CheckInv, Advance, index < Len(Gestures), route # "reviewed", route' = "reviewed"
      PROVE  /\ index' = Len(Gestures)
             /\ verify_liveness_challenge(challenge, Secret, now) = TRUE
  <2>1. index' = index + 1 /\ ~(index' < Len(Gestures)) /\ FinishVerification
    BY <1>1 DEF Advance
  <2>2. index' = Len(Gestures)
    BY <1>1, <2>1, Lengths DEF CheckInv, Clock
  <2>3. challenge \notin {None, Error} /\ ~(now > challenge.expiresAt)
    BY <1>1, <2>1 DEF FinishVerification, IsExpired
  <2> QED
    BY <1>1, <2>2, <2>3 DEF CheckInv, Clock, ChallengeIsSigned, verify_liveness_challenge
<1>2. ASSUME CheckInv, [CheckNext]_checkVars, route # "reviewed", route' = "reviewed"
      PROVE  Advance /\ index < Len(Gestures)
  BY <1>2 DEF CheckNext, checkVars, CreateChallenge, ExpiryTick, OpenCamera, MockGesture,
     LeaveCheck, Dispose, Tick, ProcessImage, Recognised, Counts, NotTurned
<1> QED BY <1>1, <1>2

\* What every behaviour of the check keeps to.
LEMMA CheckSafe ==
  CheckInit /\ [][CheckNext]_checkVars =>
    [](CheckTypeOK /\ SeenAfterAsked /\ GestureWasMade) /\ ReviewedIsVerified
<1> DEFINE Inv == CheckInv /\ CheckTyped /\ GestureWasMade
<1>1. CheckInit => Inv
  BY InitCheckInv, InitCheckTyped, InitMade
<1>2. Inv /\ [CheckNext]_checkVars => Inv'
  BY StepCheckInv, StepCheckTyped, StepMade
<1>3. Inv => CheckTypeOK /\ SeenAfterAsked /\ GestureWasMade
  BY CheckIsTyped DEF CheckInv
<1>4. Inv /\ [CheckNext]_checkVars =>
        [route # "reviewed" /\ route' = "reviewed" =>
           /\ index' = Len(Gestures)
           /\ verify_liveness_challenge(challenge, Secret, now) = TRUE]_checkVars
  BY ReviewStep
<1> QED BY <1>1, <1>2, <1>3, <1>4, PTL DEF ReviewedIsVerified

\* No frame counts for a gesture that was asked after it was taken, however long the
\* detector takes.
THEOREM GestureSeenAfterAsked == CheckSpec => []SeenAfterAsked
BY CheckSafe, PTL DEF CheckSpec

\* Each gesture that was counted was really in its image: measured, and beyond its
\* threshold.
THEOREM GestureWasShown == CheckSpec => []GestureWasMade
BY CheckSafe, PTL DEF CheckSpec

\* The review opens after the last gesture, with a challenge the kernel would accept at
\* that moment.
THEOREM ReviewOpensVerified == CheckSpec => ReviewedIsVerified
BY CheckSafe, PTL DEF CheckSpec

\* In production nothing happens to the view before it has its challenge.
ChallengeComesFirst ==
  challenge = None => index = 0 /\ frames = {} /\ camera # "streaming"

LEMMA StuckStep ==
  ASSUME ~SlowFactory, Gestures # <<>>, CheckInv, ChallengeComesFirst, StuckOnlyWithoutTime,
         [CheckNext]_checkVars
  PROVE  ChallengeComesFirst' /\ StuckOnlyWithoutTime'
<1> USE Lengths DEF ChallengeComesFirst
<1>1. Len(Gestures) # 0
  BY GesturesAreListed
<1>2. CASE CreateChallenge
  <2>1. challenge = None /\ UNCHANGED <<now, route, camera, index, frames>>
    BY <1>2 DEF CreateChallenge
  <2> QED BY <1>1, <2>1 DEF StuckOnlyWithoutTime
<1>3. CASE ExpiryTick \/ UNCHANGED checkVars
  <2>1. UNCHANGED <<now, route, challenge, camera, index, frames>>
    BY <1>3 DEF ExpiryTick, checkVars
  <2> QED BY <2>1 DEF StuckOnlyWithoutTime, Mounted
<1>4. CASE LeaveCheck \/ Dispose
  <2>1. UNCHANGED <<now, challenge, camera, index, frames>> /\ (Mounted' => Mounted)
    BY <1>4 DEF LeaveCheck, Dispose, Mounted
  <2> QED BY <2>1 DEF StuckOnlyWithoutTime
<1>5. CASE OpenCamera
  <2>1. challenge # None /\ UNCHANGED <<now, route, challenge, index, frames>>
    BY <1>5 DEF OpenCamera, Started
  <2> QED BY <2>1 DEF StuckOnlyWithoutTime, Mounted
<1>6. CASE Tick
  <2>1. /\ challenge # None /\ now' = now + 1
        /\ UNCHANGED <<route, challenge, camera, index, frames>>
    BY <1>6 DEF Tick, Started
  <2> QED BY <2>1 DEF StuckOnlyWithoutTime, Mounted, CheckInv, Clock, ChallengeIsSigned
<1>7. ASSUME NEW content \in Content, ProcessImage(content)
      PROVE  ChallengeComesFirst' /\ StuckOnlyWithoutTime'
  <2>1. camera = "streaming" /\ UNCHANGED <<now, route, challenge, camera, index>>
    BY <1>7 DEF ProcessImage, NotTurned
  <2> QED BY <2>1 DEF StuckOnlyWithoutTime, Mounted
<1>8. ASSUME Advance, index < Len(Gestures), challenge # None
      PROVE  ChallengeComesFirst' /\ StuckOnlyWithoutTime'
  <2>1. index' = index + 1 /\ UNCHANGED <<now, challenge>>
    BY <1>8 DEF Advance
  <2>2. CASE index' < Len(Gestures)
    BY <1>8, <2>1, <2>2 DEF StuckOnlyWithoutTime
  <2>3. CASE ~(index' < Len(Gestures))
    <3>1. FinishVerification
      BY <1>8, <2>3 DEF Advance
    <3> QED
      BY <1>8, <2>1, <3>1
         DEF FinishVerification, IsExpired, StuckOnlyWithoutTime, Mounted, CheckInv, Clock,
             ChallengeIsSigned
  <2> QED BY <2>2, <2>3
<1>9. CASE MockGesture
  BY <1>8, <1>9 DEF MockGesture, Started
<1>10. ASSUME NEW f \in frames, Recognised(f)
       PROVE  ChallengeComesFirst' /\ StuckOnlyWithoutTime'
  <2>1. CASE Counts(f)
    BY <1>8, <1>10, <2>1 DEF Recognised, Counts
  <2>2. CASE ~Counts(f)
    <3>1. challenge # None /\ UNCHANGED <<now, route, challenge, index>>
      BY <1>10, <2>2 DEF Recognised, NotTurned
    <3> QED BY <3>1 DEF StuckOnlyWithoutTime, Mounted
  <2> QED BY <2>1, <2>2
<1> QED
  BY <1>2, <1>3, <1>4, <1>5, <1>6, <1>7, <1>9, <1>10 DEF CheckNext

\* With the factory of production, which answers before any other event, a view whose
\* gestures are all made stays on the screen only when its challenge was refused or has
\* expired.
THEOREM NeverStuckWithTime ==
  ASSUME ~SlowFactory, Gestures # <<>>
  PROVE  CheckSpec => []StuckOnlyWithoutTime
<1>1. CheckInit => ChallengeComesFirst /\ StuckOnlyWithoutTime
  <2>1. Len(Gestures) # 0
    BY GesturesAreListed
  <2> QED BY <2>1, SwitchesAreBoolean DEF CheckInit, ChallengeComesFirst, StuckOnlyWithoutTime
<1>2. CheckInv /\ ChallengeComesFirst /\ StuckOnlyWithoutTime /\ [CheckNext]_checkVars
        => ChallengeComesFirst' /\ StuckOnlyWithoutTime'
  BY StuckStep
<1> QED BY InitCheckInv, StepCheckInv, <1>1, <1>2, PTL DEF CheckSpec

-----------------------------------------------------------------------------
(***************************************************************************)
(* What is shown, stored and requested of a verification agree, for any    *)
(* number of submissions, cancellations and restarts.                      *)
(*                                                                         *)
(* A status passes through two queues on its way to the disk.  The         *)
(* invariant says where the latest one is: the status set last is that of  *)
(* the last call that awaits getInstance, or else the cache; the cache is  *)
(* the last one that is being written, or else the disk, if that write was *)
(* not lost.  The calls that await before the load has ended are the early *)
(* ones: the load will put the cache over what they have shown.            *)
(***************************************************************************)
\* A call of setStatus; one of a submission sets pending.
SetCall ==
  {c \in [op : {"set"}, status : Statuses, by : {Cancelled} \cup Submit] :
     c.by \in Submit => c.status = "pendingApproval"}

Last(calls) == calls[Len(calls)].status

\* The load has not resumed, and nothing but calls of setStatus has begun since the start.
Loading ==
  /\ awaiting # <<>> /\ Head(awaiting) = Load /\ Tail(awaiting) \in Seq(SetCall)
  /\ awaiting = <<Load>> \o Tail(awaiting)
  /\ writing = <<>> /\ cache = disk /\ ~lost
  /\ IF Tail(awaiting) = <<>>
     THEN /\ state = "none" /\ last = "absent" /\ ~early
          /\ kills = 0 /\ cache = "pendingApproval" => requested
     ELSE early /\ last = Last(Tail(awaiting)) /\ state = last

Running ==
  /\ awaiting \in Seq(SetCall) /\ writing \in Seq(SetCall)
  /\ ~early => state = IF awaiting = <<>> THEN Parse(cache, "none") ELSE Last(awaiting)
  /\ last # "absent" => last = IF awaiting = <<>> THEN cache ELSE Last(awaiting)
  /\ writing # <<>> => cache = Last(writing)
  /\ ~lost /\ writing = <<>> => cache = disk
  /\ kills = 0 /\ state = "pendingApproval" /\ ~early => requested

\* One submission at most is in the view, and nothing else sets a status meanwhile.
InView ==
  \A n \in Submit : submit[n].mounted =>
    /\ reviewing /\ submit[n].at \in {"requesting", "setting"}
    /\ submit[n].at = "setting" => state = "pendingApproval" \/ early
    /\ \A m \in Submit \ {n} : ~submit[m].mounted

Typed ==
  /\ state \in Statuses /\ cache \in Stored /\ disk \in Stored
  /\ reviewing \in BOOLEAN /\ requested \in BOOLEAN
  /\ submit \in [Submit -> [at : {"idle", "requesting", "setting", "ended"},
                            mounted : BOOLEAN]]
  /\ cancels \in 0 .. MaxCancels /\ kills \in 0 .. MaxKills
  /\ last \in Statuses \cup {"absent"} /\ early \in BOOLEAN /\ lost \in BOOLEAN

StatusInv == Typed /\ InView /\ (Loading \/ Running)

-----------------------------------------------------------------------------
\* Queues.

LEMMA AppendLast ==
  ASSUME NEW q \in Seq(SetCall), NEW c \in SetCall
  PROVE  /\ Append(q, c) \in Seq(SetCall) /\ Append(q, c) # <<>>
         /\ Last(Append(q, c)) = c.status
BY DEF Last

LEMMA TailLast ==
  ASSUME NEW q \in Seq(SetCall), q # <<>>
  PROVE  /\ Head(q) \in SetCall /\ Tail(q) \in Seq(SetCall)
         /\ IF Tail(q) = <<>> THEN Last(q) = Head(q).status ELSE Last(Tail(q)) = Last(q)
<1> DEFINE t == Tail(q)
<1>1. /\ Len(q) \in Nat \ {0} /\ Len(t) = Len(q) - 1 /\ t \in Seq(SetCall)
      /\ Head(q) = q[1] /\ Head(q) \in SetCall /\ \A i \in 1 .. Len(q) - 1 : t[i] = q[i + 1]
  OBVIOUS
<1>2. CASE t = <<>>
  <2> HIDE DEF t
  <2>1. Len(t) = 0
    BY <1>2
  <2>2. Len(q) = 1
    BY <1>1, <2>1
  <2> QED BY <1>1, <1>2, <2>2 DEF Last, t
<1>3. CASE t # <<>>
  <2> HIDE DEF t
  <2>1. Len(t) \in 1 .. Len(q) - 1 /\ Len(t) + 1 = Len(q)
    BY <1>1, <1>3
  <2>2. t[Len(t)] = q[Len(q)]
    BY <1>1, <2>1
  <2> QED BY <1>1, <1>3, <2>2 DEF Last, t
<1> QED BY <1>2, <1>3

LEMMA CallsAreSets ==
  ASSUME NEW c \in SetCall
  PROVE  /\ c # Load /\ c \in Calls \ {Load} /\ c.status \in Statuses
         /\ Parse(c.status, "none") = c.status
         /\ c.by \in {Cancelled} \cup Submit
         /\ c.by \in Submit => c.status = "pendingApproval"
<1>1. c = Set(c.status, c.by)
  BY DEF SetCall, Set
<1> QED BY <1>1 DEF SetCall, Load, Calls, Set, Statuses, Parse

LEMMA SetsAreCalls ==
  ASSUME NEW status \in Statuses, NEW by \in {Cancelled} \cup Submit,
         by \in Submit => status = "pendingApproval"
  PROVE  Set(status, by) \in SetCall /\ Set(status, by).status = status
BY DEF Set, SetCall

LEMMA RunningHasLoaded ==
  ASSUME Running
  PROVE  Loaded
<1>1. \A i \in DOMAIN awaiting : awaiting[i] # Load
  BY CallsAreSets DEF Running
<1> QED BY <1>1 DEF Loaded

LEMMA LoadingIsNotLoaded ==
  ASSUME Loading
  PROVE  ~Loaded
<1> DEFINE t == Tail(awaiting)
<1>1. t \in Seq(SetCall) /\ awaiting = <<Load>> \o t
  BY DEF Loading
<1> HIDE DEF t
<1>2. <<Load>> \in Seq({Load}) /\ Len(<<Load>>) = 1 /\ <<Load>>[1] = Load
  OBVIOUS
<1>3. Len(t) \in Nat
  BY <1>1
<1>4. 1 \in DOMAIN awaiting /\ awaiting[1] = Load
  BY <1>1, <1>2, <1>3
<1> QED BY <1>4 DEF Loaded

LEMMA OnlyTheLoad ==
  /\ <<Load>> # <<>> /\ Head(<<Load>>) = Load /\ Tail(<<Load>>) = <<>>
  /\ <<>> \in Seq(SetCall) /\ <<Load>> = <<Load>> \o <<>>
OBVIOUS

\* A call that is appended while the load is awaited is appended to the early ones.
LEMMA AppendEarly ==
  ASSUME NEW t \in Seq(SetCall), NEW c \in SetCall, NEW q, q = <<Load>> \o t
  PROVE  /\ Append(q, c) # <<>> /\ Head(Append(q, c)) = Load
         /\ Tail(Append(q, c)) = Append(t, c)
         /\ Append(q, c) = <<Load>> \o Tail(Append(q, c))
<1>1. Append(t, c) \in Seq(SetCall)
  OBVIOUS
<1>2. Append(q, c) = <<Load>> \o Append(t, c)
  OBVIOUS
<1>3. ASSUME NEW u \in Seq(SetCall)
      PROVE  /\ <<Load>> \o u # <<>> /\ Head(<<Load>> \o u) = Load
             /\ Tail(<<Load>> \o u) = u
  OBVIOUS
<1> QED BY <1>1, <1>2, <1>3

-----------------------------------------------------------------------------
\* The steps.

LEMMA LoadStateKeeps ==
  ASSUME StatusInv, LoadState
  PROVE  StatusInv'
<1>1. Loading
  BY TailLast, CallsAreSets DEF StatusInv, LoadState, Running
<1>2. /\ state' = Parse(cache, state) /\ awaiting' = Tail(awaiting)
      /\ UNCHANGED <<cache, disk, writing, reviewing, submit, requested, cancels, kills,
                     last, early, lost>>
  BY DEF LoadState, history
<1>3. Typed'
  BY <1>2 DEF StatusInv, Typed, Parse, Stored, Statuses
<1>4. CASE Tail(awaiting) = <<>>
  <2>1. /\ state = "none" /\ last = "absent" /\ ~early /\ ~lost /\ awaiting' = <<>>
        /\ writing = <<>> /\ cache = disk
        /\ kills = 0 /\ cache = "pendingApproval" => requested
    BY <1>1, <1>2, <1>4 DEF Loading
  <2>2. Running'
    <3>1. <<>> \in Seq(SetCall)
      OBVIOUS
    <3> QED BY <1>2, <2>1, <3>1 DEF Running, Parse
  <2>3. InView'
    <3>1. \A n \in Submit : submit[n].mounted => submit[n].at # "setting"
      BY <2>1 DEF StatusInv, InView
    <3> QED BY <1>2, <3>1 DEF StatusInv, InView
  <2> QED BY <1>3, <2>2, <2>3 DEF StatusInv
<1>5. CASE Tail(awaiting) # <<>>
  <2>1. /\ early /\ last = Last(Tail(awaiting)) /\ ~lost /\ Tail(awaiting) \in Seq(SetCall)
        /\ writing = <<>> /\ cache = disk
    BY <1>1, <1>5 DEF Loading
  <2>2. Running'
    <3>1. <<>> \in Seq(SetCall)
      OBVIOUS
    <3>2. Last(awaiting)' = Last(Tail(awaiting))
      BY <1>2 DEF Last
    <3> QED BY <1>2, <1>5, <2>1, <3>1, <3>2 DEF Running
  <2>3. InView'
    BY <1>2, <2>1 DEF StatusInv, InView
  <2> QED BY <1>3, <2>2, <2>3 DEF StatusInv
<1> QED BY <1>4, <1>5

LEMMA SetStringKeeps ==
  ASSUME StatusInv, SetString
  PROVE  StatusInv'
<1>1. Running
  BY DEF StatusInv, SetString, Loading
<1> DEFINE c == Head(awaiting)
<1>2. /\ awaiting # <<>> /\ awaiting' = Tail(awaiting) /\ cache' = c.status
      /\ writing' = Append(writing, c)
      /\ UNCHANGED <<state, disk, reviewing, submit, requested, cancels, kills,
                     last, early, lost>>
  BY DEF SetString, history
<1>3. /\ c \in SetCall /\ Tail(awaiting) \in Seq(SetCall)
      /\ IF Tail(awaiting) = <<>> THEN Last(awaiting) = c.status
                                 ELSE Last(Tail(awaiting)) = Last(awaiting)
  BY <1>1, <1>2, TailLast DEF Running
<1>4. /\ Append(writing, c) \in Seq(SetCall) /\ Append(writing, c) # <<>>
      /\ Last(Append(writing, c)) = c.status
  BY <1>1, <1>3, AppendLast DEF Running
<1>5. c.status \in Statuses /\ Parse(c.status, "none") = c.status
  BY <1>3, CallsAreSets
<1> HIDE DEF c
<1>6. Typed'
  BY <1>2, <1>5 DEF StatusInv, Typed, Stored
<1>7. InView'
  BY <1>2 DEF StatusInv, InView
<1>8. Running'
  <2>1. Last(writing)' = c.status /\ Last(awaiting)' = Last(Tail(awaiting))
    BY <1>2, <1>4 DEF Last
  <2>2. Parse(cache, "none")' = c.status
    BY <1>2, <1>5 DEF Parse
  <2> QED BY <1>1, <1>2, <1>3, <1>4, <2>1, <2>2 DEF Running
<1> QED BY <1>6, <1>7, <1>8 DEF StatusInv

\* The end of a submission in its view, or of one that has left it.
LEMMA WrittenKeeps ==
  ASSUME StatusInv, Written
  PROVE  StatusInv'
<1>1. Running
  BY DEF StatusInv, Written, Loading
<1> DEFINE c == Head(writing)
<1>2. /\ writing # <<>> /\ disk' = c.status /\ writing' = Tail(writing) /\ lost' = FALSE
      /\ IF c.by = Cancelled THEN UNCHANGED <<submit, reviewing>> ELSE Return(c.by)
      /\ UNCHANGED <<state, cache, awaiting, requested, cancels, kills, last, early>>
  BY DEF Written
<1>3. /\ c \in SetCall /\ Tail(writing) \in Seq(SetCall)
      /\ IF Tail(writing) = <<>> THEN Last(writing) = c.status
                                ELSE Last(Tail(writing)) = Last(writing)
  BY <1>1, <1>2, TailLast DEF Running
<1>4. c.status \in Statuses /\ c.by \in {Cancelled} \cup Submit
  BY <1>3, CallsAreSets
<1>5. Running'
  BY <1>1, <1>2, <1>3 DEF Running, Parse, Last
<1> HIDE DEF c
<1>6. CASE c.by = Cancelled
  <2>1. Typed'
    BY <1>2, <1>4, <1>6 DEF StatusInv, Typed, Stored
  <2>2. InView'
    BY <1>2, <1>6 DEF StatusInv, InView
  <2> QED BY <1>5, <2>1, <2>2 DEF StatusInv
<1>7. CASE c.by # Cancelled
  <2>1. PICK n \in Submit : n = c.by
    BY <1>4, <1>7
  <2>2. /\ submit' = [submit EXCEPT ![n] = [at |-> "ended", mounted |-> FALSE]]
        /\ reviewing' = IF submit[n].mounted THEN FALSE ELSE reviewing
    BY <1>2, <1>7, <2>1 DEF Return
  <2>3. Typed'
    BY <1>2, <1>4, <2>2 DEF StatusInv, Typed, Stored
  <2>4. InView'
    BY <1>2, <2>2 DEF StatusInv, Typed, InView
  <2> QED BY <1>5, <2>3, <2>4 DEF StatusInv
<1> QED BY <1>6, <1>7

LEMMA WriteFailsKeeps ==
  ASSUME StatusInv, WriteFails
  PROVE  StatusInv'
<1>1. Running
  BY DEF StatusInv, WriteFails, Loading
<1>2. /\ writing # <<>> /\ writing' = Tail(writing) /\ lost' = TRUE
      /\ UNCHANGED <<state, cache, disk, awaiting, reviewing, requested, cancels, kills,
                     last, early>>
  BY DEF WriteFails
<1>3. /\ Head(writing) \in SetCall /\ Tail(writing) \in Seq(SetCall)
      /\ Tail(writing) # <<>> => Last(Tail(writing)) = Last(writing)
  BY <1>1, <1>2, TailLast DEF Running
<1>4. Running'
  BY <1>1, <1>2, <1>3 DEF Running, Parse, Last
<1>5. \/ submit' = submit
      \/ \E n \in Submit : submit' = [submit EXCEPT ![n] = [at |-> "ended", mounted |-> FALSE]]
  BY <1>3, CallsAreSets DEF WriteFails
<1>6. CASE submit' = submit
  <2>1. Typed'
    BY <1>2, <1>6 DEF StatusInv, Typed
  <2>2. InView'
    BY <1>2, <1>6 DEF StatusInv, InView
  <2> QED BY <1>4, <2>1, <2>2 DEF StatusInv
<1>7. ASSUME NEW n \in Submit,
             submit' = [submit EXCEPT ![n] = [at |-> "ended", mounted |-> FALSE]]
      PROVE  StatusInv'
  <2>1. Typed'
    BY <1>2, <1>7 DEF StatusInv, Typed
  <2>2. InView'
    BY <1>2, <1>7 DEF StatusInv, Typed, InView
  <2> QED BY <1>4, <2>1, <2>2 DEF StatusInv
<1> QED BY <1>5, <1>6, <1>7

\* A call of setStatus, by a submission or by the Cancel Verification of a card.
LEMMA SetStatusKeeps ==
  ASSUME NEW status \in Statuses, NEW by \in {Cancelled} \cup Submit,
         by \in Submit => status = "pendingApproval", StatusInv, SetStatus(status, by),
         UNCHANGED <<cache, disk, writing, kills>>,
         status = "pendingApproval" => requested'
  PROVE  Loading' \/ Running'
<1>1. Set(status, by) \in SetCall /\ Set(status, by).status = status
  BY SetsAreCalls
<1> DEFINE c == Set(status, by)
<1>2. /\ state' = status /\ awaiting' = Append(awaiting, c) /\ last' = status
      /\ early' = ~Loaded /\ lost' = lost
  BY DEF SetStatus
<1> HIDE DEF c
<1>3. status # "absent"
  BY DEF Statuses
<1>4. CASE Loading
  <2> DEFINE t == Tail(awaiting)
  <2>1. /\ t \in Seq(SetCall) /\ awaiting = <<Load>> \o t
        /\ writing = <<>> /\ cache = disk /\ ~lost
    BY <1>4 DEF Loading
  <2> HIDE DEF t
  <2>2. /\ awaiting' # <<>> /\ Head(awaiting') = Load /\ Tail(awaiting') = Append(t, c)
        /\ awaiting' = <<Load>> \o Tail(awaiting')
    BY <1>1, <1>2, <2>1, AppendEarly DEF c
  <2>3. /\ Append(t, c) \in Seq(SetCall) /\ Append(t, c) # <<>>
        /\ Last(Append(t, c)) = status
    BY <1>1, <2>1, AppendLast DEF c
  <2>4. Last(Tail(awaiting))' = status
    BY <2>2, <2>3 DEF Last
  <2>5. early'
    BY <1>2, <1>4, LoadingIsNotLoaded
  <2> QED BY <1>2, <2>1, <2>2, <2>3, <2>4, <2>5 DEF Loading
<1>5. CASE Running
  <2>1. /\ awaiting' \in Seq(SetCall) /\ awaiting' # <<>> /\ Last(awaiting') = status
    BY <1>1, <1>2, <1>5, AppendLast DEF Running, c
  <2>2. Last(awaiting)' = status /\ Last(writing)' = Last(writing)
    BY <2>1 DEF Last
  <2> QED BY <1>2, <1>5, <2>1, <2>2 DEF Running
<1> QED BY <1>4, <1>5 DEF StatusInv

LEMMA RequestTakenKeeps ==
  ASSUME StatusInv, NEW n \in Submit, RequestTaken(n)
  PROVE  StatusInv'
<1>1. /\ requested' = TRUE /\ submit' = [submit EXCEPT ![n].at = "setting"]
      /\ SetStatus("pendingApproval", n) /\ submit[n].mounted
      /\ state' = "pendingApproval" /\ last' = "pendingApproval"
      /\ early' \in BOOLEAN /\ lost' = lost
      /\ UNCHANGED <<cache, disk, writing, reviewing, cancels, kills>>
  BY DEF RequestTaken, SetStatus, Loaded
<1>2. Loading' \/ Running'
  <2>1. "pendingApproval" \in Statuses
    BY DEF Statuses
  <2> QED BY <1>1, <2>1, SetStatusKeeps
<1>3. Typed'
  BY <1>1 DEF StatusInv, Typed, Statuses
<1>4. InView'
  BY <1>1 DEF StatusInv, Typed, InView
<1> QED BY <1>2, <1>3, <1>4 DEF StatusInv

LEMMA CancelKeeps ==
  ASSUME ConstantsFit, StatusInv, Cancel
  PROVE  StatusInv'
<1>1. /\ requested' = FALSE /\ SetStatus("none", Cancelled) /\ ~reviewing
      /\ last' = "none" /\ early' \in BOOLEAN /\ lost' = lost
      /\ state' = "none" /\ cancels < MaxCancels /\ cancels' = cancels + 1
      /\ UNCHANGED <<cache, disk, writing, reviewing, submit, kills>>
  BY DEF Cancel, SetStatus, Loaded
<1>2. Loading' \/ Running'
  <2>1. /\ "none" \in Statuses /\ Cancelled \notin Submit /\ "none" # "pendingApproval"
        /\ Cancelled \in {Cancelled} \cup Submit
    BY DEF Statuses, Cancelled, Submit
  <2> QED BY <1>1, <2>1, SetStatusKeeps
<1>3. Typed'
  <2>1. cancels' \in 0 .. MaxCancels
    BY <1>1 DEF StatusInv, Typed, ConstantsFit
  <2> QED BY <1>1, <2>1 DEF StatusInv, Typed, Statuses
<1>4. InView'
  BY <1>1 DEF StatusInv, InView
<1> QED BY <1>2, <1>3, <1>4 DEF StatusInv

\* The steps of the views leave the queues, the cache and the disk alone.
LEMMA ViewKeeps ==
  ASSUME StatusInv,
         UNCHANGED <<state, cache, disk, awaiting, writing, kills, last, early, lost>>,
         requested => requested', Typed', InView'
  PROVE  StatusInv'
<1>1. Loading => Loading'
  BY DEF Loading, Last
<1>2. Running => Running'
  BY DEF Running, Last, Parse
<1> QED BY <1>1, <1>2 DEF StatusInv

LEMMA OpenReviewKeeps ==
  ASSUME StatusInv, OpenReview
  PROVE  StatusInv'
<1>1. /\ reviewing' = TRUE
      /\ UNCHANGED <<state, cache, disk, awaiting, writing, submit, requested, cancels, kills,
                     last, early, lost>>
  BY DEF OpenReview, history
<1>2. Typed' /\ InView'
  BY <1>1 DEF StatusInv, Typed, InView
<1> QED BY <1>1, <1>2, ViewKeeps

LEMMA LeaveKeeps ==
  ASSUME StatusInv, Leave
  PROVE  StatusInv'
<1>1. /\ reviewing' = FALSE
      /\ submit' = [n \in Submit |-> [submit[n] EXCEPT !.mounted = FALSE]]
      /\ UNCHANGED <<state, cache, disk, awaiting, writing, requested, cancels, kills,
                     last, early, lost>>
  BY DEF Leave, history
<1>2. \A n \in Submit :
        /\ submit'[n] \in [at : {"idle", "requesting", "setting", "ended"}, mounted : BOOLEAN]
        /\ ~submit'[n].mounted /\ submit'[n].at = submit[n].at
  BY <1>1 DEF StatusInv, Typed
<1>3. Typed'
  BY <1>1, <1>2 DEF StatusInv, Typed
<1>4. InView'
  BY <1>2 DEF InView
<1> QED BY <1>1, <1>2, <1>3, <1>4, ViewKeeps

LEMMA StartSubmitKeeps ==
  ASSUME StatusInv, NEW n \in Submit, StartSubmit(n)
  PROVE  StatusInv'
<1>1. /\ submit' = [submit EXCEPT ![n] = [at |-> "requesting", mounted |-> TRUE]]
      /\ UNCHANGED <<state, cache, disk, awaiting, writing, reviewing, requested, cancels, kills,
                     last, early, lost>>
      /\ reviewing /\ \A m \in Submit : ~submit[m].mounted
  BY DEF StartSubmit, isSubmitting, StatusInv, InView, history
<1>2. Typed'
  BY <1>1 DEF StatusInv, Typed
<1>3. InView'
  BY <1>1 DEF StatusInv, Typed, InView
<1> QED BY <1>1, <1>2, <1>3, ViewKeeps

LEMMA RequestEndsBadlyKeeps ==
  ASSUME StatusInv, NEW n \in Submit, RequestFails(n) \/ RequestTakenAfterLeaving(n)
  PROVE  StatusInv'
<1>1. PICK r \in [at : {"ended"}, mounted : {FALSE}] : submit' = [submit EXCEPT ![n] = r]
  <2>1. CASE RequestFails(n)
    BY <2>1 DEF RequestFails
  <2>2. CASE RequestTakenAfterLeaving(n)
    <3>1. /\ submit[n] \in [at : {"idle", "requesting", "setting", "ended"}, mounted : BOOLEAN]
          /\ ~submit[n].mounted
      BY <2>2 DEF RequestTakenAfterLeaving, StatusInv, Typed
    <3>2. [submit[n] EXCEPT !.at = "ended"] \in [at : {"ended"}, mounted : {FALSE}]
      BY <3>1
    <3> QED BY <2>2, <3>2 DEF RequestTakenAfterLeaving
  <2> QED BY <2>1, <2>2
<1>2. /\ UNCHANGED <<state, cache, disk, awaiting, writing, reviewing, cancels, kills,
                     last, early, lost>>
      /\ requested' = requested \/ requested' = TRUE
  BY DEF RequestFails, RequestTakenAfterLeaving, history
<1>3. Typed'
  BY <1>1, <1>2 DEF StatusInv, Typed
<1>4. /\ submit'[n].at = "ended" /\ ~submit'[n].mounted
      /\ \A m \in Submit \ {n} : submit'[m] = submit[m]
  BY <1>1 DEF StatusInv, Typed
<1>5. InView'
  BY <1>2, <1>4 DEF StatusInv, InView
<1> QED BY <1>2, <1>3, <1>5, ViewKeeps

LEMMA KillKeeps ==
  ASSUME ConstantsFit, StatusInv, Kill
  PROVE  StatusInv'
<1>1. /\ kills < MaxKills /\ kills' = kills + 1 /\ state' = "none" /\ cache' = disk
      /\ awaiting' = <<Load>> /\ writing' = <<>> /\ reviewing' = FALSE
      /\ submit' = [n \in Submit |->
           [at |-> IF submit[n].at = "idle" THEN "idle" ELSE "ended", mounted |-> FALSE]]
      /\ last' = "absent" /\ early' = FALSE /\ lost' = FALSE
      /\ UNCHANGED <<disk, requested, cancels>>
  BY DEF Kill
<1>2. kills' \in 0 .. MaxKills /\ kills' # 0
  BY <1>1 DEF StatusInv, Typed, ConstantsFit
<1>3. \A n \in Submit : /\ submit'[n] \in [at : {"idle", "ended"}, mounted : {FALSE}]
                        /\ ~submit'[n].mounted /\ submit'[n].at # "setting"
  BY <1>1
<1>4. submit' \in [Submit -> [at : {"idle", "requesting", "setting", "ended"},
                            mounted : BOOLEAN]]
  BY <1>1, <1>3
<1>5. Typed'
  BY <1>1, <1>2, <1>4 DEF StatusInv, Typed, Statuses
<1>6. InView'
  BY <1>3 DEF InView
<1>7. Loading'
  BY <1>1, <1>2, OnlyTheLoad DEF Loading
<1> QED BY <1>5, <1>6, <1>7 DEF StatusInv

LEMMA StutterKeeps ==
  ASSUME StatusInv, UNCHANGED vars
  PROVE  StatusInv'
<1>1. Typed' /\ InView'
  BY DEF vars, StatusInv, Typed, InView
<1> QED BY <1>1, ViewKeeps DEF vars

LEMMA InitStatusInv ==
  ASSUME ConstantsFit, Init
  PROVE  StatusInv
<1>1. Typed
  <2>1. cancels \in 0 .. MaxCancels /\ kills \in 0 .. MaxKills
    BY DEF Init, ConstantsFit
  <2>2. submit \in [Submit -> [at : {"idle", "requesting", "setting", "ended"},
                            mounted : BOOLEAN]]
    BY DEF Init
  <2>3. /\ state \in Statuses /\ cache \in Stored /\ disk \in Stored
        /\ reviewing \in BOOLEAN /\ requested \in BOOLEAN
        /\ last \in Statuses \cup {"absent"} /\ early \in BOOLEAN /\ lost \in BOOLEAN
    BY DEF Init, Stored, Statuses
  <2> QED BY <2>1, <2>2, <2>3 DEF Typed
<1>2. InView /\ Loading
  BY OnlyTheLoad DEF Init, InView, Loading
<1> QED BY <1>1, <1>2 DEF StatusInv

LEMMA StepStatusInv ==
  ASSUME ConstantsFit, StatusInv, [Next]_vars
  PROVE  StatusInv'
<1>1. ASSUME NEW n \in Submit, StartSubmit(n) \/ RequestEnds(n)
      PROVE  StatusInv'
  BY <1>1, StartSubmitKeeps, RequestTakenKeeps, RequestEndsBadlyKeeps DEF RequestEnds
<1>2. CASE LoadState \/ SetString \/ Written \/ WriteFails
  BY <1>2, LoadStateKeeps, SetStringKeeps, WrittenKeeps, WriteFailsKeeps
<1>3. CASE OpenReview \/ Leave \/ Cancel \/ Kill
  BY <1>3, OpenReviewKeeps, LeaveKeeps, CancelKeeps, KillKeeps
<1>4. CASE UNCHANGED vars
  BY <1>4, StutterKeeps
<1> QED BY <1>1, <1>2, <1>3, <1>4 DEF Next

-----------------------------------------------------------------------------
LEMMA StatusIsTyped == StatusInv => TypeOK
<1> SUFFICES ASSUME StatusInv PROVE TypeOK
  OBVIOUS
<1>1. Typed
  BY DEF StatusInv
<1>2. awaiting \in Seq(Calls) /\ writing \in Seq(Calls \ {Load})
  <2>1. CASE Loading
    <3>1. Load \in Calls /\ <<>> \in Seq(Calls \ {Load})
      BY DEF Calls
    <3>2. SetCall \subseteq Calls
      BY CallsAreSets
    <3> DEFINE t == Tail(awaiting)
    <3>3. t \in Seq(SetCall) /\ awaiting = <<Load>> \o t /\ writing = <<>>
      BY <2>1 DEF Loading
    <3> HIDE DEF t, Calls
    <3>4. t \in Seq(Calls) /\ <<Load>> \in Seq(Calls)
      BY <3>1, <3>2, <3>3
    <3> QED BY <3>1, <3>3, <3>4
  <2>2. CASE Running
    <3>1. SetCall \subseteq Calls \ {Load}
      BY CallsAreSets
    <3>2. /\ awaiting \in Seq(SetCall) /\ writing \in Seq(SetCall)
      BY <2>2 DEF Running
    <3> HIDE DEF Calls
    <3> QED BY <3>1, <3>2
  <2> QED BY <2>1, <2>2 DEF StatusInv
<1> QED BY <1>1, <1>2 DEF Typed, TypeOK

LEMMA StatusIsStored == StatusInv => ShownIsStored
<1> SUFFICES ASSUME StatusInv, awaiting = <<>>, writing = <<>>
             PROVE  /\ last # "absent" => cache = last
                    /\ ~lost => disk = cache
                    /\ ~early => state = Parse(cache, "none")
  BY DEF ShownIsStored, Quiet
<1>1. Running
  BY DEF StatusInv, Loading
<1> QED BY <1>1 DEF Running

\* The pop that announces a submission ends the write of its status.
LEMMA AnnouncedStep ==
  ASSUME StatusInv, [Next]_vars, NEW n \in Submit, submit[n].at = "setting",
         submit[n].mounted, reviewing, submit'[n].at = "ended", ~reviewing', kills' = kills
  PROVE  disk' = "pendingApproval" /\ (state' = "pendingApproval" \/ early)
<1>1. Written
  <2>1. submit' # submit /\ reviewing' # reviewing
    OBVIOUS
  <2>2. ~Kill
    BY DEF Kill, StatusInv, Typed
  <2>3. ~Leave
    BY DEF Leave, StatusInv, Typed
  <2> QED BY <2>1, <2>2, <2>3 DEF Next, vars, LoadState, SetString, WriteFails,
            OpenReview, Cancel, StartSubmit, RequestEnds, RequestFails, RequestTaken,
            RequestTakenAfterLeaving
<1>2. /\ writing # <<>> /\ disk' = Head(writing).status /\ state' = state
      /\ IF Head(writing).by = Cancelled THEN UNCHANGED <<submit, reviewing>>
                                         ELSE Return(Head(writing).by)
  BY <1>1 DEF Written
<1>3. Running
  BY <1>2 DEF StatusInv, Loading
<1>4. Head(writing) \in SetCall
  BY <1>2, <1>3, TailLast DEF Running
<1>5. Head(writing).by # Cancelled
  BY <1>2
<1>6. Head(writing).status = "pendingApproval"
  BY <1>4, <1>5, CallsAreSets
<1>7. state = "pendingApproval" \/ early
  BY DEF StatusInv, InView
<1> QED BY <1>2, <1>6, <1>7

\* What every behaviour of the verification keeps to.
LEMMA StatusSafe ==
  ASSUME ConstantsFit
  PROVE  Init /\ [][Next]_vars =>
           [](TypeOK /\ PendingMeansRequested /\ ShownIsStored) /\ SuccessIsStored
<1>1. Init => StatusInv
  BY InitStatusInv
<1>2. StatusInv /\ [Next]_vars => StatusInv'
  BY StepStatusInv
<1>3. StatusInv => TypeOK /\ PendingMeansRequested /\ ShownIsStored
  <2>1. StatusInv => PendingMeansRequested
    BY DEF StatusInv, Loading, Running, PendingMeansRequested
  <2> QED BY <2>1, StatusIsTyped, StatusIsStored
<1>4. StatusInv /\ [Next]_vars =>
        [\A n \in Submit :
           /\ submit[n].at = "setting" /\ submit[n].mounted /\ reviewing
           /\ submit'[n].at = "ended" /\ ~reviewing' /\ kills' = kills
           => disk' = "pendingApproval" /\ (state' = "pendingApproval" \/ early)]_vars
  BY AnnouncedStep
<1> QED BY <1>1, <1>2, <1>3, <1>4, PTL DEF SuccessIsStored

\* The queues hold calls, and every other part of the state has its type.
THEOREM TypeCorrect ==
  ASSUME ConstantsFit
  PROVE  Spec => []TypeOK
BY StatusSafe, PTL DEF Spec

\* In whatever order loads, submissions, cancellations, restarts and writes go and fail:
\* when no call is under way the cache holds the status set last, the disk too unless
\* the last write failed, and the cards show it unless it was set before the load.
THEOREM ShownStatusIsStored ==
  ASSUME ConstantsFit
  PROVE  Spec => []ShownIsStored
BY StatusSafe, PTL DEF Spec

\* The pop that announces a submission finds its status on the disk, and on the card
\* unless it was set before the load, also when writes of other calls fail.
THEOREM AnnouncedIsStored ==
  ASSUME ConstantsFit
  PROVE  Spec => SuccessIsStored
BY StatusSafe, PTL DEF Spec

\* Before a restart nothing shows pending that the verifier has not been asked for, unless
\* a load has put an old status over the one that was set.
THEOREM PendingWasRequested ==
  ASSUME ConstantsFit
  PROVE  Spec => []PendingMeansRequested
BY StatusSafe, PTL DEF Spec

-----------------------------------------------------------------------------
(***************************************************************************)
(* Proximity presentation, over either transport and for any number of     *)
(* starts and stops.  After a start that was made while no stop was        *)
(* awaited, stops are all that is queued behind it: until the first of     *)
(* them has ended its presentation is listened to, and after that the      *)
(* transport does not advertise.                                           *)
(***************************************************************************)
CONSTANTS Ble, MaxStarts, MaxStops
VARIABLES
  open, starts, stops, hurried, subscription, listening, calls, advertising,
  stateListeners, connectTimer, requestTimers, answering, answered, closed, addedLate

Near == INSTANCE ProximityPresentation

NearOp == {"start", "stop"}
StartAwaited(q) == \E i \in 1 .. Len(q) : q[i] = "start"
StopAwaited(q) == \E i \in 1 .. Len(q) : q[i] = "stop"
NoneAfterStop(q) == \A i, j \in 1 .. Len(q) : i < j /\ q[i] = "stop" => q[j] # "start"

\* What is awaited, and what is listened to, whatever was hurried.
NearHeard ==
  /\ calls \in Seq(NearOp) /\ starts \in Nat /\ hurried \subseteq 1 .. starts
  /\ listening \subseteq {subscription}
  /\ ~Ble => ~StartAwaited(calls)

\* What follows the last start, if it was not hurried.
NearAsked ==
  /\ NoneAfterStop(calls)
  /\ listening = {starts} \/ (~advertising /\ ~StartAwaited(calls))
  /\ ~Ble /\ calls # <<>> => ~advertising

NearInv == NearHeard /\ (starts \notin hurried => NearAsked) /\ Ble \in BOOLEAN

LEMMA OneCallMore ==
  ASSUME NEW q \in Seq(NearOp), NEW c \in NearOp
  PROVE  /\ Append(q, c) \in Seq(NearOp) /\ Append(q, c) # <<>>
         /\ StartAwaited(Append(q, c)) <=> (StartAwaited(q) \/ c = "start")
         /\ NoneAfterStop(q) /\ (c = "start" => ~StopAwaited(q)) => NoneAfterStop(Append(q, c))
<1> DEFINE r == Append(q, c)
<1>1. /\ r \in Seq(NearOp) /\ Len(r) = Len(q) + 1 /\ r[Len(q) + 1] = c /\ r # <<>>
      /\ Len(q) \in Nat /\ \A i \in 1 .. Len(q) : r[i] = q[i]
  OBVIOUS
<1> HIDE DEF r
<1>2. StartAwaited(r) <=> (StartAwaited(q) \/ c = "start")
  <2>1. \A i \in 1 .. Len(r) : i \in 1 .. Len(q) \/ i = Len(q) + 1
    BY <1>1
  <2>2. 1 .. Len(q) \subseteq 1 .. Len(r) /\ Len(q) + 1 \in 1 .. Len(r)
    BY <1>1
  <2> QED BY <1>1, <2>1, <2>2 DEF StartAwaited
<1>3. ASSUME NoneAfterStop(q), c = "start" => ~StopAwaited(q)
      PROVE  NoneAfterStop(r)
  <2> SUFFICES ASSUME NEW i \in 1 .. Len(r), NEW j \in 1 .. Len(r), i < j, r[i] = "stop"
               PROVE  r[j] # "start"
    BY DEF NoneAfterStop
  <2>1. i \in 1 .. Len(q) /\ q[i] = "stop"
    BY <1>1
  <2>2. CASE j \in 1 .. Len(q)
    BY <1>1, <1>3, <2>1, <2>2 DEF NoneAfterStop
  <2>3. CASE j = Len(q) + 1
    BY <1>1, <1>3, <2>1, <2>3 DEF StopAwaited
  <2> QED BY <1>1, <2>2, <2>3
<1> QED BY <1>1, <1>2, <1>3 DEF r

LEMMA OneCallLess ==
  ASSUME NEW q \in Seq(NearOp), q # <<>>
  PROVE  /\ Tail(q) \in Seq(NearOp) /\ StartAwaited(Tail(q)) => StartAwaited(q)
         /\ Head(q) = "start" => StartAwaited(q)
         /\ NoneAfterStop(q) => /\ NoneAfterStop(Tail(q))
                                /\ Head(q) = "stop" => ~StartAwaited(Tail(q))
<1> DEFINE r == Tail(q)
<1>1. /\ Len(q) \in Nat \ {0} /\ r \in Seq(NearOp) /\ Len(r) = Len(q) - 1
      /\ Head(q) = q[1] /\ \A j \in 1 .. Len(q) - 1 : r[j] = q[j + 1]
  OBVIOUS
<1> HIDE DEF r
<1>2. \A j \in 1 .. Len(r) : j + 1 \in 2 .. Len(q) /\ r[j] = q[j + 1]
  BY <1>1
<1>3. 1 \in 1 .. Len(q) /\ 2 .. Len(q) \subseteq 1 .. Len(q) /\ \A j \in 2 .. Len(q) : 1 < j
  BY <1>1
<1>4. StartAwaited(r) => StartAwaited(q)
  BY <1>2, <1>3 DEF StartAwaited
<1>5. ASSUME NoneAfterStop(q) PROVE NoneAfterStop(r)
  <2> SUFFICES ASSUME NEW i \in 1 .. Len(r), NEW j \in 1 .. Len(r), i < j, r[i] = "stop"
               PROVE  r[j] # "start"
    BY DEF NoneAfterStop
  <2>1. /\ i + 1 \in 1 .. Len(q) /\ j + 1 \in 1 .. Len(q) /\ i + 1 < j + 1
        /\ r[i] = q[i + 1] /\ r[j] = q[j + 1]
    BY <1>1, <1>2, <1>3
  <2> QED BY <1>5, <2>1 DEF NoneAfterStop
<1>6. ASSUME NoneAfterStop(q), Head(q) = "stop" PROVE ~StartAwaited(r)
  BY <1>1, <1>2, <1>3, <1>6 DEF NoneAfterStop, StartAwaited
<1>7. Head(q) = "start" => StartAwaited(q)
  BY <1>1, <1>3 DEF StartAwaited
<1> QED BY <1>1, <1>4, <1>5, <1>6, <1>7 DEF r

LEMMA NoCalls == /\ <<>> \in Seq(NearOp) /\ ~StartAwaited(<<>>) /\ NoneAfterStop(<<>>)
BY DEF StartAwaited, NoneAfterStop

LEMMA StopIsAwaited == Near!Contains(calls, "stop") = StopAwaited(calls)
BY DEF Near!Contains, StopAwaited

LEMMA NearStart ==
  ASSUME NearInv, Near!StartPresentation
  PROVE  NearInv'
<1> DEFINE n == starts + 1
<1>1. /\ starts' = n /\ subscription' = n /\ starts \in Nat
      /\ listening' = (listening \ {subscription}) \cup {n}
      /\ hurried' = IF Near!Contains(calls, "stop") THEN hurried \cup {n} ELSE hurried
      /\ Near!StartAdvertising(n)
  BY DEF Near!StartPresentation, Near!Subscribe, NearInv, NearHeard
<1>2. listening' = {n} /\ hurried' \subseteq 1 .. n
  BY <1>1 DEF NearInv, NearHeard
<1>3. CASE Ble
  <2> DEFINE q == Append(calls, "start")
  <2>1. calls' = q
    BY <1>1, <1>3 DEF Near!StartAdvertising
  <2>2. /\ calls \in Seq(NearOp) /\ "start" \in NearOp
    BY DEF NearInv, NearHeard, NearOp
  <2>3. q \in Seq(NearOp)
    BY <2>2, OneCallMore
  <2>4. ASSUME starts' \notin hurried' PROVE NoneAfterStop(q)
    <3>1. ~StopAwaited(calls)
      BY <1>1, <2>4, StopIsAwaited
    <3>2. NoneAfterStop(calls)
      BY <3>1 DEF StopAwaited, NoneAfterStop
    <3> QED BY <2>2, <3>1, <3>2, OneCallMore
  <2> HIDE DEF q
  <2> QED BY <1>1, <1>2, <1>3, <2>1, <2>3, <2>4 DEF NearInv, NearHeard, NearAsked
<1>4. CASE ~Ble
  <2>1. UNCHANGED calls /\ ~StartAwaited(calls)
    BY <1>1, <1>4 DEF Near!StartAdvertising, NearInv, NearHeard
  <2>2. NearHeard'
    BY <1>1, <1>2, <2>1 DEF NearInv, NearHeard
  <2>3. ASSUME starts' \notin hurried' PROVE calls = <<>>
    <3>1. ~StopAwaited(calls) /\ calls \in Seq(NearOp)
      BY <1>1, <2>3, StopIsAwaited DEF NearInv, NearHeard
    <3>2. \A i \in 1 .. Len(calls) : FALSE
      BY <2>1, <3>1 DEF StopAwaited, StartAwaited, NearOp
    <3> QED BY <3>1, <3>2
  <2> QED BY <1>1, <1>2, <2>1, <2>2, <2>3, NoCalls DEF NearInv, NearAsked
<1> QED BY <1>3, <1>4

LEMMA NearStop ==
  ASSUME NearInv, Near!StopPresentation
  PROVE  NearInv'
<1> DEFINE q == Append(calls, "stop")
<1>1. /\ calls' = q /\ UNCHANGED <<starts, hurried, subscription, listening>>
      /\ IF Ble THEN UNCHANGED advertising ELSE advertising' = FALSE
  BY DEF Near!StopPresentation
<1>2. "stop" \in NearOp /\ calls \in Seq(NearOp)
  BY DEF NearInv, NearHeard, NearOp
<1>3. /\ q \in Seq(NearOp) /\ q # <<>> /\ (StartAwaited(q) <=> StartAwaited(calls))
      /\ NoneAfterStop(calls) => NoneAfterStop(q)
  <2>1. "stop" # "start"
    OBVIOUS
  <2> QED BY <1>2, <2>1, OneCallMore
<1> HIDE DEF q
<1>4. NearHeard'
  BY <1>1, <1>3 DEF NearInv, NearHeard
<1>5. ASSUME starts' \notin hurried' PROVE NearAsked'
  <2>1. NearAsked
    BY <1>1, <1>5 DEF NearInv
  <2>2. CASE Ble
    BY <1>1, <1>3, <2>1, <2>2 DEF NearAsked
  <2>3. CASE ~Ble
    BY <1>1, <1>3, <2>1, <2>3 DEF NearAsked, NearInv, NearHeard
  <2> QED BY <2>2, <2>3
<1> QED BY <1>4, <1>5 DEF NearInv

\* A start that the plugin has served or refused.
LEMMA NearStarted ==
  ASSUME NearInv, calls # <<>>, Head(calls) = "start", calls' = Tail(calls),
         UNCHANGED <<starts, hurried, subscription, listening>>
  PROVE  NearInv'
<1>1. /\ calls \in Seq(NearOp) /\ StartAwaited(calls) /\ Tail(calls) \in Seq(NearOp)
      /\ NoneAfterStop(calls) => NoneAfterStop(Tail(calls))
  BY OneCallLess DEF NearInv, NearHeard
<1>2. Ble
  BY <1>1 DEF NearInv, NearHeard
<1>3. NearHeard'
  BY <1>1, <1>2 DEF NearInv, NearHeard
<1>4. ASSUME starts' \notin hurried' PROVE NearAsked'
  BY <1>1, <1>2, <1>4 DEF NearInv, NearAsked
<1> QED BY <1>3, <1>4 DEF NearInv

\* A stop that has ended, or failed over BLE.
LEMMA NearStopped ==
  ASSUME NearInv, Near!Stopped \/ Near!BleStopFails
  PROVE  NearInv'
<1> USE DEF Near!service
<1>1. /\ calls # <<>> /\ Head(calls) = "stop" /\ calls' = Tail(calls)
      /\ UNCHANGED <<starts, hurried>> /\ (~advertising => ~advertising')
      /\ \/ UNCHANGED <<subscription, listening>> /\ Ble
         \/ listening' = listening \ {subscription} /\ (Ble => ~advertising')
  <2>1. CASE Near!Stopped
    <3>1. (~advertising => ~advertising') /\ (Ble => ~advertising')
      BY <2>1, Zenon DEF Near!Stopped
    <3> QED BY <2>1, <3>1 DEF Near!Stopped, Near!Unsubscribe
  <2>2. CASE Near!BleStopFails
    <3>1. ~advertising => ~advertising'
      BY <2>2, Zenon DEF Near!BleStopFails
    <3> QED BY <2>2, <3>1 DEF Near!BleStopFails
  <2> QED BY <2>1, <2>2
<1>2. /\ Tail(calls) \in Seq(NearOp) /\ StartAwaited(Tail(calls)) => StartAwaited(calls)
      /\ NoneAfterStop(calls) => NoneAfterStop(Tail(calls)) /\ ~StartAwaited(Tail(calls))
  BY <1>1, OneCallLess DEF NearInv, NearHeard
<1>3. NearHeard'
  BY <1>1, <1>2 DEF NearInv, NearHeard
<1>4. ASSUME starts' \notin hurried' PROVE NearAsked'
  <2>1. NearAsked /\ NoneAfterStop(Tail(calls)) /\ ~StartAwaited(Tail(calls))
    BY <1>1, <1>2, <1>4 DEF NearInv, NearAsked
  <2>2. CASE UNCHANGED listening /\ Ble
    BY <1>1, <2>1, <2>2 DEF NearAsked
  <2>3. CASE listening' = listening \ {subscription} /\ (Ble => ~advertising')
    <3>1. ~advertising'
      BY <1>1, <2>1, <2>3 DEF NearAsked
    <3> QED BY <1>1, <2>1, <3>1 DEF NearAsked
  <2> QED BY <1>1, <2>2, <2>3
<1> QED BY <1>3, <1>4 DEF NearInv

LEMMA NearOtherwise ==
  ASSUME NearInv, UNCHANGED <<starts, hurried, subscription, listening, calls, advertising>>
  PROVE  NearInv'
BY DEF NearInv, NearAsked, NearHeard

LEMMA StepNearInv ==
  ASSUME NearInv, [Near!Next]_(Near!vars)
  PROVE  NearInv'
<1> USE DEF Near!service
<1>1. CASE Near!OpenView
  BY <1>1, NearStart DEF Near!OpenView
<1>2. CASE Near!Stop \/ Near!Dispose
  BY <1>2, NearStop DEF Near!Stop, Near!Dispose
<1>3. CASE Near!BleStarted \/ Near!BleStartFails
  BY <1>3, NearStarted DEF Near!BleStarted, Near!BleStartFails
<1>4. CASE Near!Stopped \/ Near!BleStopFails
  BY <1>4, NearStopped
<1>5. CASE Near!CloseView \/ Near!BleStateChanged \/ Near!MockConnects
  BY <1>5, NearOtherwise DEF Near!CloseView, Near!BleStateChanged, Near!MockConnects
<1>6. ASSUME NEW j \in requestTimers, Near!MockRequests(j)
      PROVE  NearInv'
  BY <1>6, NearOtherwise DEF Near!MockRequests
<1>7. ASSUME NEW i \in answering, Near!Answer(i)
      PROVE  NearInv'
  BY <1>7, NearOtherwise DEF Near!Answer
<1>8. CASE UNCHANGED Near!vars
  BY <1>8, NearOtherwise DEF Near!vars
<1> QED BY <1>1, <1>2, <1>3, <1>4, <1>5, <1>6, <1>7, <1>8 DEF Near!Next

\* The types of all but the calls.
NearRest ==
  /\ open \in BOOLEAN /\ advertising \in BOOLEAN /\ closed \in BOOLEAN
  /\ addedLate \in BOOLEAN /\ stateListeners \in Nat
  /\ starts \in Near!MaybePresentation /\ stops \in 0 .. MaxStops
  /\ hurried \subseteq Near!Presentation
  /\ subscription \in Near!MaybePresentation /\ listening \subseteq Near!Presentation
  /\ connectTimer \in Near!MaybePresentation /\ requestTimers \subseteq Near!Presentation
  /\ answering \subseteq Near!Presentation /\ answered \subseteq Near!Presentation

LEMMA StepNearRest ==
  ASSUME Near!ConstantsFit, NearInv, NearRest, [Near!Next]_(Near!vars)
  PROVE  NearRest'
<1> USE DEF Near!service, Near!mock, Near!requests, Near!Nobody, NearRest,
        Near!MaybePresentation, Near!Presentation
<1>1. starts \in Nat /\ MaxStarts \in Nat /\ MaxStops \in Nat
  BY DEF Near!ConstantsFit, NearInv, NearHeard
<1>2. CASE Near!OpenView
  <2>1. starts + 1 \in 1 .. MaxStarts
    BY <1>1, <1>2 DEF Near!OpenView, Near!StartPresentation
  <2> QED BY <1>2, <2>1 DEF Near!OpenView, Near!StartPresentation, Near!Subscribe,
             Near!StartAdvertising
<1>3. CASE Near!CloseView
  BY <1>3 DEF Near!CloseView
<1>4. CASE Near!Stop \/ Near!Dispose
  <2>1. stops' \in 0 .. MaxStops
    BY <1>1, <1>4 DEF Near!Stop, Near!Dispose
  <2> QED BY <1>1, <1>4, <2>1 DEF Near!Stop, Near!Dispose, Near!StopPresentation
<1>5. CASE Near!BleStarted \/ Near!BleStartFails \/ Near!Stopped \/ Near!BleStopFails
  <2>1. CASE Near!BleStarted
    BY <2>1 DEF Near!BleStarted
  <2>2. CASE Near!BleStartFails \/ Near!BleStopFails
    BY <2>2, ZenonT(30) DEF Near!BleStartFails, Near!BleStopFails
  <2>3. CASE Near!Stopped
    <3>1. advertising' \in BOOLEAN
      <4>1. advertising' = (advertising /\ ~Ble)
        BY <2>3 DEF Near!Stopped
      <4> QED BY <4>1, Zenon
    <3> QED BY <1>1, <2>3, <3>1 DEF Near!Stopped, Near!Unsubscribe
  <2> QED BY <1>5, <2>1, <2>2, <2>3
<1>6. CASE Near!BleStateChanged \/ Near!MockConnects
  BY <1>1, <1>6 DEF Near!BleStateChanged, Near!MockConnects
<1>7. ASSUME NEW j \in requestTimers, Near!MockRequests(j)
      PROVE  NearRest'
  BY <1>7 DEF Near!MockRequests
<1>8. ASSUME NEW i \in answering, Near!Answer(i)
      PROVE  NearRest'
  BY <1>8 DEF Near!Answer
<1>9. CASE UNCHANGED Near!vars
  BY <1>9 DEF Near!vars
<1> QED BY <1>2, <1>3, <1>4, <1>5, <1>6, <1>7, <1>8, <1>9 DEF Near!Next

LEMMA InitNear ==
  ASSUME Near!ConstantsFit, Near!Init
  PROVE  NearInv /\ NearRest
<1>1. NearInv
  BY NoCalls DEF Near!Init, Near!Nobody, Near!ConstantsFit, NearInv, NearAsked, NearHeard
<1>2. NearRest
  <2>1. stops \in 0 .. MaxStops
    BY DEF Near!Init, Near!ConstantsFit
  <2> QED BY <2>1 DEF Near!Init, Near!Nobody, NearRest, Near!MaybePresentation
<1> QED BY <1>1, <1>2

LEMMA NearHolds ==
  ASSUME NearInv, NearRest
  PROVE  Near!TypeOK /\ Near!ListensAsAsked /\ Near!OneSubscription
<1>1. Near!TypeOK
  BY DEF NearInv, NearHeard, NearRest, NearOp, Near!TypeOK
<1>2. Near!OneSubscription
  BY DEF NearInv, NearHeard, Near!OneSubscription
<1>3. Near!ListensAsAsked
  BY DEF NearInv, NearAsked, Near!ListensAsAsked
<1> QED BY <1>1, <1>2, <1>3

\* What every behaviour of the presentation keeps to.
LEMMA NearSafe ==
  ASSUME Near!ConstantsFit
  PROVE  Near!Init /\ [][Near!Next]_(Near!vars) =>
           [](Near!TypeOK /\ Near!ListensAsAsked /\ Near!OneSubscription)
<1> DEFINE Inv == NearInv /\ NearRest
<1>1. Near!Init => Inv
  BY InitNear
<1>2. Inv /\ [Near!Next]_(Near!vars) => Inv'
  BY StepNearInv, StepNearRest
<1>3. Inv => Near!TypeOK /\ Near!ListensAsAsked /\ Near!OneSubscription
  BY NearHolds
<1> QED BY <1>1, <1>2, <1>3, PTL

\* Over either transport, and however starts and stops overlap, fail or come late: once
\* nothing is awaited, what is advertised is listened to by the last presentation that was
\* started, unless it was started while a stop was awaited.
THEOREM AdvertisedIsListenedTo ==
  ASSUME Near!ConstantsFit
  PROVE  Near!Spec => []Near!ListensAsAsked
BY NearSafe, PTL DEF Near!Spec

\* No subscription of an earlier presentation is left beside the current one, also when
\* a stop fails between the two.
THEOREM OneSubscriptionIsLeft ==
  ASSUME Near!ConstantsFit
  PROVE  Near!Spec => []Near!OneSubscription
BY NearSafe, PTL DEF Near!Spec
================================================================================
