--------------------------- MODULE PresentationFlow ---------------------------
(***************************************************************************)
(* Presenting a credential from a scanned code on Android: the scanner     *)
(* widget (qr_scanner_enhanced.dart), the consent views it pushes          *)
(* (presentation_request_view.dart) and the client that drives the native  *)
(* handler (initiateOID4VPRequestSDK and completeOID4VPRequestSDK of       *)
(* spruce_platform_service_extended.dart) over PresentationSessions.       *)
(* Dart is one event loop, so a step runs from one await to the next;      *)
(* between two awaits the camera may see another code, and the user may    *)
(* answer, use the preview or leave.                                       *)
(*                                                                         *)
(* A scanned request is handled once by the scan itself, and again by each *)
(* tap on the preview's button, which asks nobody whether it is being      *)
(* handled.  Each handling has a session and a consent view of its own.    *)
(***************************************************************************)
EXTENDS PresentationSessions, Naturals, Sequences

CONSTANTS
  Scan,        \* the accepted scans, each used once
  Tap,         \* taps on the button of one preview, each used once
  Code,        \* the codes that can be scanned, all presentation requests
  MdocCode,    \* those walletRoutePresentationRequest routes to "mdoc"
  NoCode, NoScan,
  MaxScreens,  \* how often the scanner is opened
  MaxUses      \* bound on the accepted scans and the taps together

\* _handlePresentationRequest of a scan, by what called it.
Handling == Scan \X ({"auto"} \cup Tap)

ASSUME CallsAreMadeByHandlings == Call = Handling \X {"initiate", "vp", "mdoc"}
ASSUME TapsAreNotAutomatic == "auto" \notin Tap
ASSUME CodesAreRouted == MdocCode \subseteq Code /\ NoCode \notin Code
ASSUME ScansAreNumbered == NoScan \notin Scan
ASSUME ScannerIsOpened == MaxScreens \in Nat \ {0}

VARIABLES
  scan,             \* what the calls of handleScanResult do
  handling,         \* what _handlePresentationRequest and its consent view do
  views,            \* the consent views on the navigator, the last one on top
  screen,           \* which instance of the scanner widget is mounted
  isProcessing,     \* its _isProcessing ...
  lastScannedCode,  \* ... its _lastScannedCode ...
  currentResult,    \* ... the scan its _currentResult is from ...
  preview,          \* ... its _resultPreviewController ...
  hideTimer         \* ... and its scans whose preview will be hidden after 5 s

scannerVars == <<screen, isProcessing, lastScannedCode>>
previewVars == <<currentResult, preview, hideTimer>>
widgetVars == <<scan, scannerVars, previewVars>>
flowVars == <<handling, views>>
vars == <<sessionVars, widgetVars, flowVars>>

ScanState ==
  [at : {"idle", "processing", "previewing", "handling", "finished"},
   code : Code \cup {NoCode}, screen : 0 .. MaxScreens]

HandlingState ==
  [at : {"unused", "routing", "initiating", "choosing", "completing",
         "falling_back", "finished"},
   choice : Selection, shown : {"none", "success", "error"}]

TypeOK ==
  /\ SessionTypeOK
  /\ scan \in [Scan -> ScanState]
  /\ handling \in [Handling -> HandlingState]
  /\ views \in Seq(Handling)
  /\ screen \in 1 .. MaxScreens
  /\ isProcessing \in BOOLEAN
  /\ lastScannedCode \in Code \cup {NoCode}
  /\ currentResult \in Scan \cup {NoScan}
  /\ preview \in {"hidden", "showing", "shown", "hiding"}
  /\ hideTimer \subseteq Scan

Init ==
  /\ SessionInit
  /\ scan = [n \in Scan |-> [at |-> "idle", code |-> NoCode, screen |-> 0]]
  /\ handling = [h \in Handling |-> [at |-> "unused", choice |-> NoSelection,
                                     shown |-> "none"]]
  /\ views = <<>>
  /\ screen = 1
  /\ isProcessing = FALSE
  /\ lastScannedCode = NoCode
  /\ currentResult = NoScan
  /\ preview = "hidden"
  /\ hideTimer = {}

OwnHandling(n) == <<n, "auto">>
ByTap(h) == h[2] \in Tap
KindOf(code) == IF code \in MdocCode THEN "mdoc" ELSE "vp"
SessionOf(h) == <<h, "initiate">>
Mounted(n) == scan[n].screen = screen
ReplyTo(h, step) == reply[<<h, step>>]

Uses == Cardinality({n \in Scan : scan[n].at # "idle"}) +
        Cardinality({h \in Handling : ByTap(h) /\ handling[h].at # "unused"})

\* handleScanResult ends with the handling it awaits, and its finally clause
\* lets a widget that is still there scan again.
ScanEnds(n) ==
  /\ scan' = [scan EXCEPT ![n].at = "finished"]
  /\ isProcessing' = IF Mounted(n) THEN FALSE ELSE isProcessing
  /\ UNCHANGED <<screen, lastScannedCode>>

\* What the end of _handlePresentationRequest does to the widget: nobody
\* awaits the one a tap has started.
EndOfHandling(h) ==
  /\ IF ByTap(h) THEN UNCHANGED <<scan, scannerVars>> ELSE ScanEnds(h[1])
  /\ UNCHANGED previewVars

\* The handling goes on to its next await; or it is over, with a snack bar of
\* _showSuccess or _showError if the widget is still there.
Goes(h, to) == handling' = [handling EXCEPT ![h].at = to]
Finishes(h, outcome) ==
  handling' = [handling EXCEPT ![h].at = "finished",
                               ![h].shown = IF Mounted(h[1]) THEN outcome ELSE "none"]

-----------------------------------------------------------------------------
\* handleScanResult and the preview of its result

\* Mutant: a code is only compared with the last one.
HandleAnyNewCode(n, code) ==
  /\ scan[n].at = "idle" /\ Uses < MaxUses
  /\ code # lastScannedCode
  /\ scan' = [scan EXCEPT ![n] = [at |-> "processing", code |-> code, screen |-> screen]]
  /\ isProcessing' = TRUE
  /\ lastScannedCode' = code
  /\ UNCHANGED <<sessionVars, screen, previewVars, flowVars>>

\* The camera sees a code, also while a consent view covers the scanner.
HandleScanResult(n, code) ==
  /\ scan[n].at = "idle" /\ Uses < MaxUses
  /\ ~isProcessing
  /\ code # lastScannedCode
  /\ scan' = [scan EXCEPT ![n] = [at |-> "processing", code |-> code, screen |-> screen]]
  /\ isProcessing' = TRUE
  /\ lastScannedCode' = code
  /\ UNCHANGED <<sessionVars, screen, previewVars, flowVars>>

\* Mutant: a failure leaves without the finally clause.
ProcessingFailsEarly(n) ==
  /\ scan[n].at = "processing"
  /\ scan' = [scan EXCEPT ![n].at = "finished"]
  /\ UNCHANGED <<sessionVars, scannerVars, previewVars, flowVars>>

\* processQRCode fails, or the widget is gone when it returns and setState throws.
ProcessingFails(n) ==
  /\ scan[n].at = "processing"
  /\ ScanEnds(n)
  /\ UNCHANGED <<sessionVars, previewVars, flowVars>>

\* _autoHandleResult of scan n, whose preview is there: the first await is the
\* one for the route of the request, and the timer for hiding the preview runs.
AutoHandleResult(n) ==
  /\ scan' = [scan EXCEPT ![n].at = "handling"]
  /\ Goes(OwnHandling(n), "routing")
  /\ hideTimer' = hideTimer \cup {n}

\* _handleSuccessfulScan: forward() of a preview that is there completes at
\* once, otherwise the call waits for the slide-in.
ShowPreview(n) ==
  /\ scan[n].at = "processing" /\ Mounted(n)
  /\ currentResult' = n
  /\ IF preview = "shown"
     THEN AutoHandleResult(n) /\ UNCHANGED preview
     ELSE /\ scan' = [scan EXCEPT ![n].at = "previewing"]
          /\ preview' = "showing"
          /\ UNCHANGED <<hideTimer, handling>>
  /\ UNCHANGED <<sessionVars, scannerVars, views>>

\* The slide-in is over, which its own scan has awaited.
PreviewShown ==
  /\ preview = "showing"
  /\ preview' = "shown"
  /\ AutoHandleResult(currentResult)
  /\ UNCHANGED <<sessionVars, scannerVars, currentResult, views>>

\* reverse(): a slide-in under way is cancelled, and its future never completes.
Reverse == preview' = IF preview \in {"showing", "shown"} THEN "hiding" ELSE preview

PreviewHidden ==
  /\ preview = "hiding"
  /\ preview' = "hidden"
  /\ UNCHANGED <<sessionVars, scan, scannerVars, currentResult, hideTimer, flowVars>>

\* Five seconds after scan n was previewed, whatever is previewed now.
HidePreview(n) ==
  /\ n \in hideTimer
  /\ hideTimer' = hideTimer \ {n}
  /\ Reverse
  /\ UNCHANGED <<sessionVars, scan, scannerVars, currentResult, flowVars>>

\* The preview can be tapped, as long as some of it is in view.
Tappable == views = <<>> /\ currentResult # NoScan /\ preview # "hidden"

DismissPreview ==
  /\ Tappable
  /\ Reverse
  /\ UNCHANGED <<sessionVars, scan, scannerVars, currentResult, hideTimer, flowVars>>

\* _handleResultAction
ResultAction(tap) ==
  LET h == <<currentResult, tap>>
  IN  /\ Tappable
      /\ Uses < MaxUses
      /\ handling[h].at = "unused"
      /\ Goes(h, "routing")
      /\ Reverse
      /\ UNCHANGED <<sessionVars, scan, scannerVars, currentResult, hideTimer, views>>

-----------------------------------------------------------------------------
\* initiateOID4VPRequestSDK

\* The request cannot be routed.
RoutingFails(h) ==
  /\ handling[h].at = "routing"
  /\ Finishes(h, "error")
  /\ EndOfHandling(h)
  /\ UNCHANGED <<sessionVars, views>>

InitiateRequest(h) ==
  /\ handling[h].at = "routing"
  /\ Initiate(SessionOf(h), KindOf(scan[h[1]].code))
  /\ Goes(h, "initiating")
  /\ UNCHANGED <<widgetVars, views>>

InitiationFails(h) ==
  /\ handling[h].at = "initiating"
  /\ ReplyTo(h, "initiate") = "error"
  /\ Finishes(h, "error")
  /\ EndOfHandling(h)
  /\ UNCHANGED <<sessionVars, views>>

\* UserSelectionRequiredException: the consent view is pushed, over another
\* one if there is one, unless the scanner was left meanwhile; then the session
\* stays in the native map.
ShowMatches(h) ==
  /\ handling[h].at = "initiating"
  /\ ReplyTo(h, "initiate") \in {"select", "empty"}
  /\ IF Mounted(h[1])
     THEN /\ Goes(h, "choosing")
          /\ views' = Append(views, h)
          /\ UNCHANGED widgetVars
     ELSE /\ Finishes(h, "none")
          /\ EndOfHandling(h)
          /\ UNCHANGED views
  /\ UNCHANGED sessionVars

-----------------------------------------------------------------------------
\* The consent view.  Only the one on top can be tapped, so it is the one that
\* Navigator.pop takes away.

OnTop(h) == handling[h].at = "choosing" /\ views # <<>> /\ views[Len(views)] = h
PopView == views' = SubSeq(views, 1, Len(views) - 1)

\* Mutant: the user's selection is not passed on.
ApproveWithoutSelection(h, selected) ==
  /\ OnTop(h)
  /\ ReplyTo(h, "initiate") = "select"
  /\ Complete(<<h, "vp">>, "vp", SessionOf(h), NoSelection)
  /\ handling' = [handling EXCEPT ![h].at = "completing", ![h].choice = selected]
  /\ PopView
  /\ EndOfHandling(h)

\* Share: the view is popped, which ends _handlePresentationRequest, and the
\* completion starts.  A view without matches has nothing to share.
Approve(h, selected) ==
  /\ OnTop(h)
  /\ ReplyTo(h, "initiate") = "select"
  /\ Complete(<<h, "vp">>, "vp", SessionOf(h), selected)
  /\ handling' = [handling EXCEPT ![h].at = "completing", ![h].choice = selected]
  /\ PopView
  /\ EndOfHandling(h)

\* Reject, the close button or the back gesture: nothing tells the handler.
Reject(h) ==
  /\ OnTop(h)
  /\ Goes(h, "finished")
  /\ PopView
  /\ EndOfHandling(h)
  /\ UNCHANGED sessionVars

-----------------------------------------------------------------------------
\* completeOID4VPRequestSDK and _completePresentation

Attempt(h) == IF handling[h].at = "completing" THEN "vp" ELSE "mdoc"

\* The first completion that succeeds is the result.
CompletionSucceeds(h) ==
  /\ handling[h].at \in {"completing", "falling_back"}
  /\ ReplyTo(h, Attempt(h)) = "success"
  /\ Finishes(h, "success")
  /\ UNCHANGED <<sessionVars, widgetVars, views>>

\* Mutant: an exception of the VP completion is taken for an empty result.
SwallowException(h) ==
  /\ handling[h].at = "completing"
  /\ ReplyTo(h, "vp") = "error"
  /\ Finishes(h, "success")
  /\ UNCHANGED <<sessionVars, widgetVars, views>>

\* Any PlatformException of the VP completion, whatever it says.
FallBackToMdoc(h) ==
  /\ handling[h].at = "completing"
  /\ ReplyTo(h, "vp") = "error"
  /\ Complete(<<h, "mdoc">>, "mdoc", SessionOf(h), handling[h].choice)
  /\ Goes(h, "falling_back")
  /\ UNCHANGED <<widgetVars, views>>

\* Mutant: the second failure is not reported.
CompletionFailsSilently(h) ==
  /\ handling[h].at = "falling_back"
  /\ ReplyTo(h, "mdoc") = "error"
  /\ Goes(h, "finished")
  /\ UNCHANGED <<sessionVars, widgetVars, views>>

CompletionFails(h) ==
  /\ handling[h].at = "falling_back"
  /\ ReplyTo(h, "mdoc") = "error"
  /\ Finishes(h, "error")
  /\ UNCHANGED <<sessionVars, widgetVars, views>>

-----------------------------------------------------------------------------
\* The user leaves the scanner and opens it again: a new widget, and the
\* animations and timers of the old one are gone.  A consent view lies above
\* the scanner, which cannot be left below it.
ReopenScanner ==
  /\ screen < MaxScreens
  /\ \A h \in Handling : handling[h].at # "choosing"
  /\ screen' = screen + 1
  /\ isProcessing' = FALSE
  /\ lastScannedCode' = NoCode
  /\ currentResult' = NoScan
  /\ preview' = "hidden"
  /\ hideTimer' = {}
  /\ UNCHANGED <<sessionVars, scan, flowVars>>

UserStep ==
  \/ \E n \in Scan, code \in Code : HandleScanResult(n, code)
  \/ DismissPreview
  \/ \E tap \in Tap : ResultAction(tap)
  \/ \E h \in Handling :
       \/ \E selected \in SUBSET Keys : Approve(h, selected)
       \/ Reject(h)
  \/ ReopenScanner

ScanStep(n) == ProcessingFails(n) \/ ShowPreview(n)

PreviewStep == PreviewShown \/ PreviewHidden

DartStep(h) ==
  \/ RoutingFails(h)
  \/ InitiateRequest(h)
  \/ InitiationFails(h)
  \/ ShowMatches(h)
  \/ CompletionSucceeds(h)
  \/ FallBackToMdoc(h)
  \/ CompletionFails(h)

NativeStep(c) == CallStep(c) /\ UNCHANGED <<widgetVars, flowVars>>

Next ==
  \/ UserStep
  \/ \E n \in Scan : ScanStep(n) \/ HidePreview(n)
  \/ PreviewStep
  \/ \E h \in Handling : DartStep(h)
  \/ \E c \in Call : NativeStep(c)

\* Something that can go on does: a continuation whose future completed, a
\* coroutine of the handler, or an animation that no view covers.  The user
\* owes nothing, and no step need be the next one.
Progress ==
  \/ \E n \in Scan : ScanStep(n)
  \/ PreviewStep /\ views = <<>>
  \/ \E h \in Handling : DartStep(h)
  \/ \E c \in Call : NativeStep(c)

Spec == Init /\ [][Next]_vars /\ WF_vars(Progress)

-----------------------------------------------------------------------------
\* The open views are the handlings that wait for a decision, each once.
ViewsAreOpen ==
  /\ \A h \in Handling :
       handling[h].at = "choosing" <=> \E i \in 1 .. Len(views) : views[i] = h
  /\ \A i, j \in 1 .. Len(views) : views[i] = views[j] => i = j

\* Of two consent views one was asked for by a tap: the scans alone, however
\* the camera, the preview and the user interleave, never put one over another.
AutomaticViewsNeverStack ==
  \A g, h \in Handling :
     /\ handling[g].at = "choosing" /\ ~ByTap(g)
     /\ handling[h].at = "choosing" /\ ~ByTap(h)
     => g = h

\* Those, with the types of the variables.
ConsentViews == TypeOK /\ ViewsAreOpen /\ AutomaticViewsNeverStack

\* What an answer may share of a selection: as a VP the very keys ticked, as an
\* mDoc what they name and what is required, or all of it if nothing is ticked.
Allows(choice, kind, fields) ==
  IF kind = "vp" THEN fields = choice
  ELSE choice # {} => fields \subseteq Required \cup {NameIn(key) : key \in choice}

AnswersApprovalOf(h, x) ==
  /\ x.session = SessionOf(h)
  /\ handling[h].at \in {"completing", "falling_back", "finished"}
  /\ x.selected = handling[h].choice
  /\ Allows(handling[h].choice, x.kind, x.fields)

\* A verifier receives only what the user agreed to share with it: an answer
\* belongs to the session of one handling, and carries the selection made in
\* that handling's own view, also when another view of the same scan is open.
SentAsApproved == \A x \in sent : \E h \in Handling : AnswersApprovalOf(h, x)

\* "Presentation submitted successfully" is true: the verifier has an answer
\* to that request, whichever of the two methods gave it.
SuccessMeansSent ==
  \A h \in Handling :
     handling[h].shown = "success" => \E x \in sent : x.session = SessionOf(h)

\* An approved presentation uses up its session, whatever becomes of it: the
\* stored request cannot be answered again after the user saw the outcome.
ApprovalUsesSession ==
  \A h \in Handling :
     handling[h].at = "finished" /\ at[<<h, "vp">>] # "idle"
        => pendingRequests[SessionOf(h)] = "absent"

\* What the user is told of an approved presentation is final: a success was
\* sent, and nothing is left in the native map that could be sent later.
OutcomeIsFinal == SuccessMeansSent /\ ApprovalUsesSession

\* The slide-in of the current result was reversed, by the button, by Dismiss or
\* by the timer of an earlier preview, while its scan awaited the end of it.
SlideInReversed ==
  /\ currentResult # NoScan
  /\ scan[currentResult].at = "previewing"
  /\ preview \in {"hiding", "hidden"}

\* Scanning resumes after every accepted code: the spinner of _isProcessing
\* stays over the scanner only while a consent view waits for the user, or
\* after a reversed slide-in, the one await of the flow that is never answered.
ScannerResumes ==
  isProcessing ~> \/ ~isProcessing
                  \/ \E h \in Handling : handling[h].at = "choosing"
                  \/ SlideInReversed

\* A user who approved learns the outcome, on the screen it was approved on
\* or not at all when that screen was left.
ApprovalConcludes ==
  \A h \in Handling :
     handling[h].at = "completing" ~>
        /\ handling[h].at = "finished"
        /\ handling[h].shown # "none" \/ ~Mounted(h[1])

\* "Fallback to mDoc completion (mDoc channel)": when the VP completion
\* refuses an mDoc session, the mDoc completion finds it.
FallbackFindsMdoc ==
  \A h \in Handling :
     /\ handling[h].at = "falling_back"
     /\ at[<<h, "mdoc">>] = "removing"
     /\ scan[h[1]].code \in MdocCode
     => pendingRequests[SessionOf(h)] = "mdoc"
=============================================================================
