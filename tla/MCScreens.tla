------------------------------ MODULE MCScreens ------------------------------
(***************************************************************************)
(* The screens of the application and the services under them: the         *)
(* scanner, the liveness check, the list of credentials, the status of the *)
(* verification, the presentation in proximity and the status lists.       *)
(* These share no state, and each property is about one of them, so a      *)
(* behaviour is one of its parts at work while the others rest.            *)
(***************************************************************************)
EXTENDS QrScanner, LivenessCheck, CredentialsNotifier, TLC

CONSTANTS
  requestCode, offerCode, engagement, text, age,   \* codes, an attribute
  key, licence, mdl, badge,
  Absent, Padded, Malformed,                       \* of credentialStatus
  u1, u2, k1, k2, one, both, odd, plain            \* URLs, checks, credentials

VARIABLES
  part,                          \* the part that is at work
  watched,                       \* the one of its calls whose end is asked for
  state, cache, disk, awaiting, writing, reviewing, submit, requested, cancels, kills,
  last, early, lost,
  open, starts, stops, hurried, subscription, listening, calls, advertising,
  stateListeners, connectTimer, requestTimers, answering, answered, closed, addedLate,
  clock, published, since, listCache, check, statusCheck

-----------------------------------------------------------------------------
\* A request, an offer, an engagement and a text of no protocol.
Kinds4 == requestCode :> "presentation_request" @@ offerCode :> "credential_offer"
            @@ engagement :> "mdoc_device_engagement" @@ text :> "unknown"
Asked == [code \in Code |-> IF code = requestCode THEN {age} ELSE {}]
Attributes == licence :> {age}

\* A face at and beyond each threshold, with a measurement missing or not finite.
FaceWith(smile, x, y) == [smile |-> smile, x |-> x, y |-> y]
Faces ==
  {FaceWith(80, Missing, 45), FaceWith(81, 0, 46), FaceWith(Missing, 20, -45),
   FaceWith(81, NotFinite, 46), FaceWith(79, -21, 0)}
ThreeGestures == <<"smile", "turnHeadLeft", "lookDown">>
Slow == INSTANCE LivenessCheck WITH SlowFactory <- TRUE
Tested == INSTANCE LivenessCheck WITH SlowFactory <- TRUE, Mocked <- TRUE

Kinds3 == licence :> "vc" @@ mdl :> "mdoc" @@ badge :> "retired"

Saved == INSTANCE VerificationStatus WITH MaxSubmits <- 2, MaxCancels <- 2, MaxKills <- 1

OnMock == INSTANCE ProximityPresentation WITH Ble <- FALSE, MaxStarts <- 3, MaxStops <- 2
OverBle == INSTANCE ProximityPresentation WITH Ble <- TRUE, MaxStarts <- 3, MaxStops <- 3

\* Two URLs.  The first serves a revocation list that clears or asserts the bit, an
\* unsigned one or no JSON object; the second a suspension list or, misfiled, the
\* first one's.  Credentials with one entry, three, a malformed one, and none.
ListAt(url, purpose, bit) ==
  [id |-> url, types |-> {"VerifiableCredential", "BitstringStatusListCredential"},
   proof |-> TRUE, subject |-> "BitstringStatusList", purpose |-> purpose,
   bits |-> 0 :> FALSE @@ 1 :> bit]
EntryAt(url, purpose) ==
  [type |-> "BitstringStatusListEntry", id |-> url, purpose |-> purpose,
   list |-> url, index |-> 1]
Revocations == {ListAt(u1, "revocation", FALSE), ListAt(u1, "revocation", TRUE)}
Unsigned == [ListAt(u1, "revocation", FALSE) EXCEPT !.proof = FALSE]
Misfiled == {ListAt(u2, "suspension", TRUE), ListAt(u1, "revocation", FALSE)}
Status ==
  one :> [shape |-> "object", entries |-> <<EntryAt(u1, "revocation")>>] @@
  both :> [shape |-> "array",
           entries |-> <<[EntryAt(u1, "revocation") EXCEPT !.index = 0],
                         EntryAt(u1, "revocation"), EntryAt(u2, "suspension")>>] @@
  odd :> [shape |-> "object",
          entries |-> <<[EntryAt(u1, "revocation") EXCEPT !.index = -1]>>] @@
  plain :> Absent

\* Two checks of one list that overlap; one check after the other, for longer; of a
\* credential with entries of each purpose; and where they fail or have nothing to ask.
OtherList == u2 :> {ListAt(u2, "suspension", FALSE)}
Overlap == INSTANCE StatusListService WITH
  now <- clock, cache <- listCache, Check <- {k1, k2}, Credential <- {one},
  StatusOf <- Status, HttpUrl <- {u1, u2}, Published <- u1 :> Revocations @@ OtherList,
  MAX_STATUS_ENTRIES <- 32, MaxIndex <- 3, CacheLife <- 1, Flight <- 1, MaxTime <- 3
Long == INSTANCE StatusListService WITH
  now <- clock, cache <- listCache, Check <- {k1, k2}, Credential <- {one},
  StatusOf <- Status, HttpUrl <- {u1, u2},
  Published <- u1 :> Revocations \cup {Unsigned} @@ OtherList,
  MAX_STATUS_ENTRIES <- 32, MaxIndex <- 3, CacheLife <- 1, Flight <- 1, MaxTime <- 4
Purposes == INSTANCE StatusListService WITH
  now <- clock, cache <- listCache, Check <- {k1, k2}, Credential <- {both},
  StatusOf <- Status, HttpUrl <- {u1, u2},
  Published <- u1 :> {ListAt(u1, "revocation", TRUE), Malformed} @@ u2 :> Misfiled,
  MAX_STATUS_ENTRIES <- 32, MaxIndex <- 3, CacheLife <- 1, Flight <- 1, MaxTime <- 3
Odd == INSTANCE StatusListService WITH
  now <- clock, cache <- listCache, Check <- {k1, k2}, Credential <- {odd, plain, one},
  StatusOf <- Status, HttpUrl <- {u1, u2},
  Published <- u1 :> Revocations \cup {Malformed} @@ OtherList,
  MAX_STATUS_ENTRIES <- 32, MaxIndex <- 3, CacheLife <- 1, Flight <- 1, MaxTime <- 1

\* Bound on the list: of the second offer and the refresh one at most.
SecondOfferOrRefresh == offer'[2].at = "idle" \/ load'[3].at = "idle"

\* Bounds on the status lists: a list changes at one time, and the second check is made
\* at most once, at the start, so that it is the one whose request is overtaken.
OneChange == published' # published => \A u \in {u1, u2} : since[u] = 0
SecondCheckOnce ==
  check[k2].at = "returned" \/ (check[k2].at = "idle" /\ clock > 0) => check'[k2] = check[k2]
OneCheck == check'[k2] = check[k2]

-----------------------------------------------------------------------------
qrVars == vars
verificationVars == <<state, cache, disk, awaiting, writing, reviewing, submit, requested,
                      cancels, kills, last, early, lost>>
proximityVars == <<open, starts, stops, hurried, subscription, listening, calls, advertising,
                   stateListeners, connectTimer, requestTimers, answering, answered,
                   closed, addedLate>>
statusVars == <<clock, published, since, listCache, check, statusCheck>>

Liveness == {"liveness", "slow", "tested"}
Proximity == {"mock", "ble"}
StatusLists == {"overlap", "long", "purposes", "odd"}

Frame(name) ==
  /\ part = name /\ UNCHANGED <<part, watched>>
  /\ name # "qr" => UNCHANGED qrVars
  /\ name \notin Liveness => UNCHANGED checkVars
  /\ name # "list" => UNCHANGED listVars
  /\ name # "verification" => UNCHANGED verificationVars
  /\ name \notin Proximity => UNCHANGED proximityVars
  /\ name \notin StatusLists => UNCHANGED statusVars

\* What rests begins in one state.
Rest ==
  /\ wallet = {badge}
  /\ part # "verification" => disk = "absent"
  /\ part \notin StatusLists => published[u1].bits[1]

ScreensInit ==
  /\ part \in {"qr", "list", "verification"} \cup Liveness \cup Proximity \cup StatusLists
  /\ watched \in IF part \in {"qr", "mock", "verification"} THEN 1 .. 2 ELSE {1}
  /\ Init /\ ListInit /\ Saved!Init /\ OnMock!Init
  /\ IF part = "tested" THEN Tested!CheckInit ELSE CheckInit
  /\ CASE part = "long" -> Long!Init
       [] part = "purposes" -> Purposes!Init
       [] part = "odd" -> Odd!Init
       [] OTHER -> Overlap!Init
  /\ Rest

ScreensNext ==
  \/ Frame("qr") /\ Next
  \/ Frame("liveness") /\ CheckNext
  \/ Frame("slow") /\ Slow!CheckNext
  \/ Frame("tested") /\ Tested!CheckNext
  \/ Frame("list") /\ ListNext /\ SecondOfferOrRefresh
  \/ Frame("verification") /\ Saved!Next
  \/ Frame("mock") /\ OnMock!Next
  \/ Frame("ble") /\ OverBle!Next
  \/ Frame("overlap") /\ Overlap!Next /\ OneChange /\ SecondCheckOnce
  \/ Frame("long") /\ Long!Next /\ OneCheck
  \/ Frame("purposes") /\ Purposes!Next /\ OneCheck /\ OneChange
  \/ Frame("odd") /\ Odd!Next /\ OneCheck

screensVars == <<part, watched, qrVars, checkVars, listVars, verificationVars,
                 proximityVars, statusVars>>

\* The fairness of the modules: each part has up to six actions that are taken if they
\* stay enabled, and as only one part is at work they share their numbers.
FairStep(i) ==
  /\ \/ part = "qr" /\ i = 1 /\ Step
     \/ /\ part \in Liveness
        /\ \/ i = 1 /\ CreateChallenge
           \/ i = 2 /\ ExpiryTick
           \/ i = 3 /\ (IF part = "liveness" THEN Tick ELSE Slow!Tick)
           \/ i = 4 /\ \E f \in frames : Recognised(f)
     \/ part = "list" /\ i - 1 \in LoadId /\ LoadStep(i - 1)
     \/ part = "list" /\ i - 4 \in Offer /\ OfferStep(i - 4)
     \/ /\ part = "verification"
        /\ \/ i = 1 /\ Saved!LoadState
           \/ i = 2 /\ Saved!SetString
           \/ i = 3 /\ (Saved!Written \/ Saved!WriteFails)
           \/ i - 3 \in Saved!Submit /\ Saved!RequestEnds(i - 3)
     \/ /\ part \in Proximity
        /\ \/ i = 1 /\ (IF part = "mock" THEN OnMock!TransportAnswers
                                         ELSE OverBle!TransportAnswers)
           \/ i = 2 /\ OnMock!MockConnects
           \/ i = 3 /\ \E n \in requestTimers : OnMock!MockRequests(n)
           \/ i = 4 /\ \E r \in answering : OnMock!Answer(r)
     \/ /\ part \in StatusLists
        /\ \/ i = 1 /\ Overlap!Step(k1)
           \/ i = 2 /\ Overlap!Step(k2)
  /\ Frame(part)

ScreensSpec ==
  /\ ScreensInit /\ [][ScreensNext]_screensVars
  /\ \A i \in 1 .. 6 : WF_screensVars(FairStep(i))

ASSUME ConstantsOfParts ==
  /\ Saved!ConstantsFit /\ OnMock!ConstantsFit /\ OverBle!ConstantsFit
  /\ Overlap!LimitsArePositive /\ Overlap!TimesAreNat
  /\ Long!TimesAreNat /\ Purposes!TimesAreNat /\ Odd!TimesAreNat
  /\ Overlap!StatusesAreLists /\ Overlap!BitsAreBoolean
  /\ Long!StatusesAreLists /\ Long!BitsAreBoolean
  /\ Purposes!StatusesAreLists /\ Purposes!BitsAreBoolean
  /\ Odd!StatusesAreLists /\ Odd!BitsAreBoolean

-----------------------------------------------------------------------------
\* The types of every part.
WellTyped ==
  /\ TypeOK /\ ListTypeOK
  /\ CASE part \in {"liveness", "slow"} -> CheckTypeOK
       [] part = "tested" -> Tested!CheckTypeOK
       [] part = "verification" -> Saved!TypeOK
       [] part \in Proximity -> OverBle!TypeOK
       [] part = "overlap" -> Overlap!TypeOK
       [] part = "long" -> Long!TypeOK
       [] part = "purposes" -> Purposes!TypeOK
       [] part = "odd" -> Odd!TypeOK
       [] OTHER -> TRUE

\* Only what was verified counts: a result that Rust has validated is shown and handled,
\* a gesture was really in its frame, pending is shown after the verifier took the
\* request, and an offer reported as refused has put nothing into the wallet.
OnlyVerifiedCounts ==
  /\ OnlyValidatedIsShown /\ GestureWasMade /\ Saved!PendingMeansRequested
  /\ UnhandledIsNotStored

\* However starts and stops of a presentation overlap, fail or come late: what is
\* advertised in the end is listened to by the last presentation, once, unless it was
\* started during the await of a stop.
ListensAsAsked ==
  part \in Proximity => OverBle!ListensAsAsked /\ OverBle!OneSubscription

\* How old an answer about a status may be: a check reports a list that has settled, and
\* what a credential keeps is shown for at most two cache lives after the list changed.
SettledListIsReported ==
  /\ part = "overlap" => Overlap!SettledListIsReported
  /\ part = "long" => Long!SettledListIsReported /\ Long!ShownForTwoLivesAtMost
  /\ part = "purposes" => Purposes!SettledListIsReported

\* The status of the verification that was set last is the stored one once all calls are
\* over, if its write did not fail, and the one shown, if it was set after the load; and
\* success is only announced when it is stored.
SavedAsShown == []Saved!ShownIsStored /\ Saved!SuccessIsStored

\* What is begun ends: a scan, unless its preview is hidden while it slides in; the
\* recognition of a frame; a load; a submission; a check of a status; the calls of the BLE
\* plugin; and what the mock has begun for a presentation, with an answer, unless it is
\* stopped, or a stop that was still awaited took the subscription away.
Begun ==
  CASE part = "qr" -> scan[watched].at = "parsing"
    [] part \in Liveness -> isBusy
    [] part = "list" -> isLoading
    [] part = "verification" -> submit[watched].at = "requesting"
    [] part = "mock" -> connectTimer = watched
    [] part = "ble" -> calls # <<>>
    [] part \in StatusLists -> check[k1].at = "parsing"
Ended ==
  CASE part = "qr" ->
         \/ scan[watched].at = "finished" \/ ~mounted
         \/ scan[watched].at = "previewing" /\ preview \in {"hiding", "hidden"}
    [] part \in Liveness -> ~isBusy
    [] part = "list" -> ~isLoading
    [] part = "verification" -> submit[watched].at = "ended"
    [] part = "mock" ->
         watched \in answered \/ ~advertising \/ (listening = {} /\ hurried # {})
    [] part = "ble" -> calls = <<>>
    [] part \in StatusLists -> check[k1].at = "returned"
BegunEnds == Begun ~> Ended
================================================================================
