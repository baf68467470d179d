------------------------------ MODULE QrScanner ------------------------------
(***************************************************************************)
(* The scanner widget and the service behind it (qr_scanner_enhanced.dart, *)
(* qr_scanner_service_enhanced.dart): a code is parsed by Rust, matched    *)
(* with the credentials, previewed and handled.  The preview is an         *)
(* animation whose future completes only if nothing reverses it, and a     *)
(* button of its own handles what it shows.  What becomes of a handled     *)
(* presentation request is PresentationFlow's; here it is asked and done.  *)
(***************************************************************************)
EXTENDS Integers, FiniteSets

CONSTANTS
  Code,             \* the texts the camera may see
  CodeKindOf,           \* what wallet_validate_qr_input makes of each
  Requested,        \* the attributes a presentation request asks for
  Credential,       \* the credentials of the wallet ...
  AttributesOf,     \* ... and the keys of their credentialSubject
  MaxScans,         \* bound on the calls of handleScanResult
  NoCode, Failed

CodeKinds == {"credential_offer", "presentation_request", "mdoc_device_engagement",
          "push_registration", "unknown", "malformed"}

ASSUME CodesHaveKinds == CodeKindOf \in [Code -> CodeKinds] /\ NoCode \notin Code
ASSUME MaxScansIsNat == MaxScans \in Nat

Scan == 1 .. MaxScans

VARIABLES
  mounted,          \* the widget is on screen or under what it pushed
  isProcessing, lastScannedCode,
  scan,             \* the calls of handleScanResult
  currentResult,    \* _currentResult: the call it is from, 0 for null
  preview,          \* _resultPreviewController
  hideTimer,        \* calls whose delayed hiding is pending
  handling          \* what _handlePresentationRequest, _handleCredentialOffer do

vars == <<mounted, isProcessing, lastScannedCode, scan, currentResult, preview,
          hideTimer, handling>>

Starter == {"auto", "button"}

TypeOK ==
  /\ mounted \in BOOLEAN /\ isProcessing \in BOOLEAN
  /\ lastScannedCode \in Code \cup {NoCode}
  /\ scan \in [Scan -> [at : {"idle", "parsing", "previewing", "handling", "finished"},
                        code : Code \cup {NoCode},
                        matching : (SUBSET Credential) \cup {Failed}]]
  /\ currentResult \in 0 .. MaxScans
  /\ preview \in {"hidden", "showing", "shown", "hiding"}
  /\ hideTimer \subseteq {n \in Scan : scan[n].at \in {"handling", "finished"}}
  /\ handling \in [Scan \X Starter -> {"no", "asking", "deciding", "done"}]

Init ==
  /\ mounted = TRUE /\ isProcessing = FALSE /\ lastScannedCode = NoCode
  /\ scan = [n \in Scan |-> [at |-> "idle", code |-> NoCode, matching |-> {}]]
  /\ currentResult = 0 /\ preview = "hidden" /\ hideTimer = {}
  /\ handling = [h \in Scan \X Starter |-> "no"]

Kind(n) == CodeKindOf[scan[n].code]
Active == {n \in Scan : scan[n].at \in {"parsing", "previewing", "handling"}}
Deciding == {h \in Scan \X Starter : handling[h] = "deciding"}

-----------------------------------------------------------------------------
\* Mutant: a code is only compared with the last one.
HandleAnyNewCode(n, code) ==
  /\ mounted
  /\ scan[n].at = "idle" /\ \A m \in 1 .. n - 1 : scan[m].at # "idle"
  /\ code # lastScannedCode
  /\ isProcessing' = TRUE /\ lastScannedCode' = code
  /\ scan' = [scan EXCEPT ![n].at = "parsing", ![n].code = code]
  /\ UNCHANGED <<mounted, currentResult, preview, hideTimer, handling>>

\* The camera sees a code, also under a dialog or a consent view.
HandleScanResult(n, code) ==
  /\ mounted
  /\ scan[n].at = "idle" /\ \A m \in 1 .. n - 1 : scan[m].at # "idle"
  /\ ~isProcessing /\ code # lastScannedCode
  /\ isProcessing' = TRUE /\ lastScannedCode' = code
  /\ scan' = [scan EXCEPT ![n].at = "parsing", ![n].code = code]
  /\ UNCHANGED <<mounted, currentResult, preview, hideTimer, handling>>

\* The finally clause.
StopProcessing == isProcessing' = IF mounted THEN FALSE ELSE isProcessing

\* Rust refuses the code or does not know it, or what it refers to cannot be fetched.
\* lastScannedCode stays: the same code is not tried again.
ScanError(n) ==
  /\ scan[n].at = "parsing"
  /\ scan' = [scan EXCEPT ![n].at = "finished"]
  /\ StopProcessing
  /\ UNCHANGED <<mounted, lastScannedCode, currentResult, preview, hideTimer, handling>>

\* The members of the JSON that Rust returns for a request.
ContentKeys == {"request_uri", "client_id", "nonce", "response_uri", "query_type",
                "presentation_definition", "dcql_query"}
RequestedAttributes(n) ==
  IF "requested_attributes" \in ContentKeys THEN Requested[scan[n].code] ELSE {}

\* _enrichWithCredentialData; an error of the wallet is caught, and nothing matches.
Matching(n) ==
  IF Kind(n) # "presentation_request" THEN {{}}
  ELSE {Failed, {c \in Credential : AttributesOf[c] \cap RequestedAttributes(n) # {}}}

\* _validateWithSDK: only what Rust has validated.
IsValid(n) == Kind(n) \notin {"unknown", "malformed"}

\* processQRCode succeeded, but the widget is gone: setState throws, and the error goes
\* to nobody.
ScanAfterLeaving(n) ==
  /\ scan[n].at = "parsing" /\ ~mounted
  /\ scan' = [scan EXCEPT ![n].at = "finished"]
  /\ UNCHANGED <<mounted, isProcessing, lastScannedCode, currentResult, preview,
                 hideTimer, handling>>

\* _handleSuccessfulScan up to the await of forward(), which of a preview that is
\* already there completes at once.
SuccessfulScan(n) ==
  /\ scan[n].at = "parsing" /\ mounted /\ IsValid(n)
  /\ currentResult' = n
  /\ \E matching \in Matching(n) :
       scan' = [scan EXCEPT ![n] =
         [at |-> IF preview = "shown" THEN "handling" ELSE "previewing",
          code |-> scan[n].code, matching |-> matching]]
  /\ preview' = IF preview = "shown" THEN "shown" ELSE "showing"
  /\ hideTimer' = IF preview = "shown" THEN hideTimer \cup {n} ELSE hideTimer
  /\ UNCHANGED <<mounted, isProcessing, lastScannedCode, handling>>

\* Mutant: nothing waits for the end of the animation.
PreviewShownForgetsCall ==
  /\ mounted /\ preview = "showing"
  /\ preview' = "shown"
  /\ UNCHANGED <<mounted, isProcessing, lastScannedCode, scan, currentResult, hideTimer,
                 handling>>

\* The 300 ms are over.
PreviewShown ==
  /\ mounted /\ preview = "showing"
  /\ preview' = "shown"
  /\ LET waiting == {n \in Scan : scan[n].at = "previewing" /\ n = currentResult}
     IN /\ scan' = [n \in Scan |-> IF n \in waiting THEN [scan[n] EXCEPT !.at = "handling"]
                                   ELSE scan[n]]
        /\ hideTimer' = hideTimer \cup waiting
  /\ UNCHANGED <<mounted, isProcessing, lastScannedCode, currentResult, handling>>

\* reverse(): a forward that is under way is cancelled, and the call that awaits it
\* stays where it is.
Reverse == preview' = IF preview \in {"showing", "shown"} THEN "hiding" ELSE preview

PreviewHidden ==
  /\ mounted /\ preview = "hiding" /\ preview' = "hidden"
  /\ UNCHANGED <<mounted, isProcessing, lastScannedCode, scan, currentResult, hideTimer,
                 handling>>

\* Five seconds after the preview of call n was there.
HideAfterDelay(n) ==
  /\ n \in hideTimer
  /\ hideTimer' = hideTimer \ {n}
  /\ IF mounted THEN Reverse ELSE UNCHANGED preview
  /\ UNCHANGED <<mounted, isProcessing, lastScannedCode, scan, currentResult, handling>>

Tappable == mounted /\ Deciding = {} /\ currentResult # 0 /\ preview # "hidden"

Dismiss ==
  /\ Tappable /\ Reverse
  /\ UNCHANGED <<mounted, isProcessing, lastScannedCode, scan, currentResult, hideTimer,
                 handling>>

-----------------------------------------------------------------------------
\* An offer opens its dialog; a request is taken to the platform first.
StartsAt(n) == IF Kind(n) = "presentation_request" THEN "asking" ELSE "deciding"

\* Every credential of the offer is supported: the content of an offer lists none under
\* the name that is looked at, and so every offer is handled.
HandledKinds == {"presentation_request", "credential_offer"}

AutoHandleResult(n) ==
  /\ scan[n].at = "handling" /\ handling[<<n, "auto">>] = "no"
  /\ IF Kind(n) \in HandledKinds
     THEN /\ handling' = [handling EXCEPT ![<<n, "auto">>] = StartsAt(n)]
          /\ UNCHANGED <<scan, isProcessing>>
     ELSE /\ scan' = [scan EXCEPT ![n].at = "finished"]
          /\ StopProcessing /\ UNCHANGED handling
  /\ UNCHANGED <<mounted, lastScannedCode, currentResult, preview, hideTimer>>

\* _handleResultAction, of the result that is shown.
ResultAction ==
  /\ Tappable /\ Reverse
  /\ handling[<<currentResult, "button">>] = "no"
  /\ handling' = [handling EXCEPT ![<<currentResult, "button">>] =
                    IF Kind(currentResult) \in HandledKinds
                    THEN StartsAt(currentResult) ELSE "done"]
  /\ UNCHANGED <<mounted, isProcessing, lastScannedCode, scan, currentResult, hideTimer>>

Ends(h) ==
  /\ handling' = [handling EXCEPT ![h] = "done"]
  /\ IF h[2] = "auto"
     THEN /\ scan' = [scan EXCEPT ![h[1]].at = "finished"] /\ StopProcessing
     ELSE UNCHANGED <<scan, isProcessing>>

\* initiateOID4VPRequestSDK returns: with matches for the user to choose from, if the
\* widget is still there; without, or with an error, this is all.
Initiated(h) ==
  /\ handling[h] = "asking"
  /\ \/ Ends(h)
     \/ /\ mounted
        /\ handling' = [handling EXCEPT ![h] = "deciding"]
        /\ UNCHANGED <<scan, isProcessing>>
  /\ UNCHANGED <<mounted, lastScannedCode, currentResult, preview, hideTimer>>

\* The user approves or refuses in the view or the dialog, which closes it.
Decide(h) ==
  /\ handling[h] = "deciding"
  /\ Ends(h)
  /\ UNCHANGED <<mounted, lastScannedCode, currentResult, preview, hideTimer>>

\* dispose(): the animations stop where they are.
Leave ==
  /\ mounted /\ Deciding = {} /\ mounted' = FALSE
  /\ UNCHANGED <<isProcessing, lastScannedCode, scan, currentResult, preview, hideTimer,
                 handling>>

Step ==
  \/ \E n \in Scan : ScanError(n) \/ ScanAfterLeaving(n) \/ SuccessfulScan(n)
  \/ \E n \in Scan : AutoHandleResult(n) \/ HideAfterDelay(n)
  \/ PreviewShown \/ PreviewHidden
  \/ \E h \in Scan \X Starter : Initiated(h) \/ Decide(h)

User ==
  \/ \E n \in Scan, code \in Code : HandleScanResult(n, code)
  \/ Dismiss \/ ResultAction \/ Leave

Next == Step \/ User

\* Awaits return, animations and timers run out, and the user decides what is asked.
Spec == Init /\ [][Next]_vars /\ WF_vars(Step)

-----------------------------------------------------------------------------
\* Only one call of handleScanResult works at a time, however the camera, the preview
\* and the user interleave.
OneScanAtATime == Cardinality(Active) <= 1

\* The widget refuses codes only while a call is under way: no way through it leaves the
\* flag behind.
ProcessingMeansActive == (mounted /\ isProcessing) => Active # {}

\* "Accept only protocol data already validated by Rust" (service:154): what Rust
\* refused or does not know is never shown with a button to handle it, nor handled.
OnlyValidatedIsShown ==
  currentResult # 0 => CodeKindOf[scan[currentResult].code] \notin {"unknown", "malformed"}
================================================================================
