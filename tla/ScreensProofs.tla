---------------------------- MODULE ScreensProofs ----------------------------
(***************************************************************************)
(* Theorems about the screens.  First the scanner and the list of          *)
(* credentials, each for every value of its constants; then MCScreens, the *)
(* screens together: it implements the module of each part, in each of its *)
(* configurations, and has what ScreenPartsProofs and                      *)
(* StatusListServiceProofs prove of them.                                  *)
(***************************************************************************)
EXTENDS MCScreens, FiniteSetTheorems, TLAPS

-----------------------------------------------------------------------------
(***************************************************************************)
(* The scanner, for every wallet, every set of codes and number of scans.  *)
(* The flag isProcessing and the calls at work determine each other while  *)
(* the widget is there: the strengthening says which call the flag stands  *)
(* for, and that what an automatic start has opened belongs to it.         *)
(***************************************************************************)
AtWork == {"parsing", "previewing", "handling"}

\* The flag stands for the one call at work.
FlagStandsForCall ==
  /\ \A m, n \in Active : m = n
  /\ mounted => (isProcessing <=> Active # {})

\* What the scan itself has started is open no longer than the scan.
AutoBelongsToScan ==
  \A n \in Scan : handling[<<n, "auto">>] \in {"asking", "deciding"} => scan[n].at = "handling"

\* What is shown was scanned, and Rust had validated it.
ShownWasScanned ==
  currentResult # 0 => /\ scan[currentResult].at # "idle"
                       /\ CodeKindOf[scan[currentResult].code] \notin {"unknown", "malformed"}

QrInv == TypeOK /\ FlagStandsForCall /\ AutoBelongsToScan /\ ShownWasScanned

LEMMA InitQrInv == Init => QrInv
<1> SUFFICES ASSUME Init PROVE QrInv
  OBVIOUS
<1>1. Active = {}
  BY DEF Init, Active
<1>2. TypeOK
  <2>1. scan \in [Scan -> [at : {"idle", "parsing", "previewing", "handling", "finished"},
                          code : Code \cup {NoCode},
                          matching : (SUBSET Credential) \cup {Failed}]]
    BY DEF Init
  <2>2. currentResult \in 0 .. MaxScans
    BY MaxScansIsNat DEF Init
  <2>3. handling \in [Scan \X Starter -> {"no", "asking", "deciding", "done"}]
    BY DEF Init
  <2>4. hideTimer = {} /\ mounted = TRUE /\ isProcessing = FALSE
        /\ lastScannedCode = NoCode /\ preview = "hidden"
    BY DEF Init
  <2> QED BY <2>1, <2>2, <2>3, <2>4 DEF TypeOK
<1> QED BY <1>1, <1>2 DEF Init, QrInv, FlagStandsForCall, AutoBelongsToScan,
                            ShownWasScanned, Starter

\* The calls at work are the same, and so is the flag.
LEMMA SameCalls ==
  ASSUME QrInv, TypeOK',
         \A n \in Scan : /\ scan'[n].at \in AtWork <=> scan[n].at \in AtWork
                         /\ scan[n].at = "handling" => scan'[n].at = "handling"
                         /\ scan[n].at # "idle" => scan'[n].at # "idle"
                         /\ scan'[n].code = scan[n].code,
         \A n \in Scan : handling'[<<n, "auto">>] \in {"asking", "deciding"} =>
                          \/ handling[<<n, "auto">>] \in {"asking", "deciding"}
                          \/ scan[n].at = "handling",
         isProcessing' = isProcessing, mounted' => mounted,
         \/ currentResult' = currentResult
         \/ /\ currentResult' \in Scan /\ scan[currentResult'].at # "idle"
            /\ CodeKindOf[scan[currentResult'].code] \notin {"unknown", "malformed"}
  PROVE  QrInv'
<1> USE DEF QrInv
<1>1. Active' = Active
  <2>1. /\ Active = {n \in Scan : scan[n].at \in AtWork}
        /\ Active' = {n \in Scan : scan'[n].at \in AtWork}
    BY DEF Active, AtWork
  <2> QED BY <2>1
<1>2. FlagStandsForCall'
  BY <1>1 DEF FlagStandsForCall
<1>3. AutoBelongsToScan'
  BY DEF AutoBelongsToScan
<1>4. ShownWasScanned'
  <2>1. currentResult \in Scan \cup {0}
    BY MaxScansIsNat DEF TypeOK, Scan
  <2> QED BY <2>1 DEF ShownWasScanned
<1> QED BY <1>2, <1>3, <1>4

\* The one call at work ends, and the flag with it.
LEMMA CallEnds ==
  ASSUME QrInv, TypeOK', NEW n \in Scan, scan[n].at \in AtWork,
         scan'[n].at = "finished", scan'[n].code = scan[n].code,
         \A m \in Scan \ {n} : scan'[m] = scan[m],
         handling'[<<n, "auto">>] \in {"no", "done"},
         \A m \in Scan \ {n} : handling'[<<m, "auto">>] = handling[<<m, "auto">>],
         (StopProcessing \/ ~mounted), mounted' = mounted, currentResult' = currentResult
  PROVE  QrInv'
<1> USE DEF QrInv
<1>1. n \in Active /\ \A m \in Active : m = n
  BY DEF FlagStandsForCall, Active, AtWork
<1>2. Active' = {}
  BY <1>1 DEF Active
<1>3. FlagStandsForCall'
  BY <1>2 DEF FlagStandsForCall, StopProcessing
<1>4. AutoBelongsToScan'
  <2>1. ASSUME NEW m \in Scan, handling'[<<m, "auto">>] \in {"asking", "deciding"}
        PROVE  scan'[m].at = "handling"
    BY <2>1 DEF AutoBelongsToScan
  <2> QED BY <2>1 DEF AutoBelongsToScan
<1>5. ShownWasScanned'
  <2>1. currentResult \in Scan \cup {0}
    BY MaxScansIsNat DEF TypeOK, Scan
  <2>2. \A m \in Scan : scan[m].at # "idle" => scan'[m].at # "idle" /\ scan'[m].code = scan[m].code
    OBVIOUS
  <2> QED BY <2>1, <2>2 DEF ShownWasScanned
<1> QED BY <1>3, <1>4, <1>5

LEMMA FinishedTypes ==
  ASSUME TypeOK, NEW n \in Scan, scan' = [scan EXCEPT ![n].at = "finished"],
         StopProcessing, handling' \in [Scan \X Starter -> {"no", "asking", "deciding", "done"}],
         UNCHANGED <<mounted, lastScannedCode, currentResult, preview, hideTimer>>
  PROVE  TypeOK'
<1>1. scan' \in [Scan -> [at : {"idle", "parsing", "previewing", "handling", "finished"},
                         code : Code \cup {NoCode},
                         matching : (SUBSET Credential) \cup {Failed}]]
  BY DEF TypeOK
<1>2. \A m \in Scan : scan'[m].at = IF m = n THEN "finished" ELSE scan[m].at
  BY DEF TypeOK
<1>3. hideTimer' \subseteq {m \in Scan : scan'[m].at \in {"handling", "finished"}}
  BY <1>2 DEF TypeOK
<1> QED BY <1>1, <1>3 DEF TypeOK, StopProcessing

LEMMA EndsTypes ==
  ASSUME TypeOK, NEW h \in Scan \X Starter, Ends(h),
         UNCHANGED <<mounted, lastScannedCode, currentResult, preview, hideTimer>>
  PROVE  TypeOK'
<1>1. handling' \in [Scan \X Starter -> {"no", "asking", "deciding", "done"}] /\ h[1] \in Scan
  BY DEF TypeOK, Ends
<1>2. CASE h[2] = "auto"
  BY <1>1, <1>2, FinishedTypes DEF Ends
<1>3. CASE h[2] # "auto"
  BY <1>1, <1>3 DEF Ends, TypeOK
<1> QED BY <1>2, <1>3

LEMMA QrTypeStep == TypeOK /\ [Next]_vars => TypeOK'
<1> SUFFICES ASSUME TypeOK, [Next]_vars PROVE TypeOK'
  OBVIOUS
<1> USE MaxScansIsNat DEF TypeOK
<1>1. ASSUME NEW n \in Scan, ScanError(n) PROVE TypeOK'
  BY <1>1, ZenonT(30) DEF ScanError, StopProcessing
<1>2. ASSUME NEW n \in Scan, ScanAfterLeaving(n) PROVE TypeOK'
  BY <1>2, SMTT(30) DEF ScanAfterLeaving
<1>3. ASSUME NEW n \in Scan, SuccessfulScan(n) PROVE TypeOK'
  <2>1. Matching(n) \subseteq (SUBSET Credential) \cup {Failed}
    BY DEF Matching
  <2>2. PICK matching \in Matching(n) :
          scan' = [scan EXCEPT ![n] =
            [at |-> IF preview = "shown" THEN "handling" ELSE "previewing",
             code |-> scan[n].code, matching |-> matching]]
    BY <1>3 DEF SuccessfulScan
  <2>3. \A m \in Scan \ {n} : scan'[m] = scan[m]
    BY <2>2
  <2>4. scan'[n].at = IF preview = "shown" THEN "handling" ELSE "previewing"
    BY <2>2
  <2>5. scan' \in [Scan -> [at : {"idle", "parsing", "previewing", "handling", "finished"},
                           code : Code \cup {NoCode},
                           matching : (SUBSET Credential) \cup {Failed}]]
    BY <2>1, <2>2
  <2>6. hideTimer' \subseteq {m \in Scan : scan'[m].at \in {"handling", "finished"}}
    BY <1>3, <2>3, <2>4 DEF SuccessfulScan
  <2> QED BY <1>3, <2>5, <2>6 DEF SuccessfulScan, Scan
<1>4. ASSUME NEW n \in Scan, AutoHandleResult(n) PROVE TypeOK'
  <2>1. CASE Kind(n) \in HandledKinds
    BY <1>4, <2>1 DEF AutoHandleResult, StartsAt
  <2>2. CASE Kind(n) \notin HandledKinds
    BY <1>4, <2>2, FinishedTypes DEF AutoHandleResult
  <2> QED BY <2>1, <2>2
<1>5. ASSUME NEW n \in Scan, HideAfterDelay(n) PROVE TypeOK'
  BY <1>5 DEF HideAfterDelay, Reverse
<1>6. CASE PreviewShown
  BY <1>6 DEF PreviewShown
<1>7. CASE PreviewHidden
  BY <1>7 DEF PreviewHidden
<1>8. ASSUME NEW h \in Scan \X Starter, Initiated(h) PROVE TypeOK'
  <2>1. CASE Ends(h)
    BY <1>8, <2>1, EndsTypes DEF Initiated
  <2>2. CASE ~Ends(h)
    BY <1>8, <2>2 DEF Initiated
  <2> QED BY <2>1, <2>2
<1>9. ASSUME NEW h \in Scan \X Starter, Decide(h) PROVE TypeOK'
  BY <1>9, EndsTypes DEF Decide
<1>10. ASSUME NEW n \in Scan, NEW code \in Code, HandleScanResult(n, code) PROVE TypeOK'
  BY <1>10, ZenonT(60) DEF HandleScanResult
<1>11. CASE Dismiss
  BY <1>11 DEF Dismiss, Reverse
<1>12. CASE ResultAction
  BY <1>12 DEF ResultAction, StartsAt, Reverse
<1>13. CASE Leave
  BY <1>13 DEF Leave
<1>14. CASE UNCHANGED vars
  BY <1>14 DEF vars
<1> QED
  BY <1>1, <1>2, <1>3, <1>4, <1>5, <1>6, <1>7, <1>8, <1>9, <1>10, <1>11, <1>12, <1>13,
     <1>14 DEF Next, Step, User

\* A call that has begun only moves on.
LEMMA Moves ==
  ASSUME QrInv, TypeOK', NEW n \in Scan, scan[n].at \in AtWork, NEW at \in AtWork,
         scan[n].at = "handling" => at = "handling",
         scan'[n].at = at, scan'[n].code = scan[n].code,
         \A m \in Scan \ {n} : scan'[m] = scan[m],
         UNCHANGED <<handling, isProcessing, mounted>>,
         \/ currentResult' = currentResult
         \/ currentResult' = n /\ IsValid(n)
  PROVE  QrInv'
BY SameCalls DEF AtWork, IsValid, Kind

LEMMA EndsQrInv ==
  ASSUME QrInv, TypeOK', NEW h \in Scan \X Starter, handling[h] \in {"asking", "deciding"},
         Ends(h), UNCHANGED <<mounted, currentResult>>
  PROVE  QrInv'
<1>1. PICK n \in Scan, s \in Starter : h = <<n, s>>
  OBVIOUS
<1>2. handling' = [handling EXCEPT ![<<n, s>>] = "done"]
  BY <1>1 DEF Ends
<1>3. \A m \in Scan : <<m, "auto">> \in Scan \X Starter
  BY DEF Starter
<1>4. CASE s = "auto"
  <2>1. scan[n].at = "handling"
    BY <1>1, <1>4 DEF QrInv, AutoBelongsToScan
  <2>2. scan' = [scan EXCEPT ![n].at = "finished"] /\ StopProcessing
    BY <1>1, <1>4 DEF Ends
  <2>3. handling'[<<n, "auto">>] = "done"
        /\ \A m \in Scan \ {n} : handling'[<<m, "auto">>] = handling[<<m, "auto">>]
    BY <1>2, <1>3, <1>4 DEF QrInv, TypeOK
  <2>4. scan'[n].at = "finished" /\ scan'[n].code = scan[n].code
        /\ \A m \in Scan \ {n} : scan'[m] = scan[m]
    BY <2>2 DEF QrInv, TypeOK
  <2> QED BY <2>1, <2>2, <2>3, <2>4, CallEnds DEF AtWork
<1>5. CASE s # "auto"
  <2>1. UNCHANGED <<scan, isProcessing>>
    BY <1>1, <1>5 DEF Ends
  <2>2. \A m \in Scan : handling'[<<m, "auto">>] = handling[<<m, "auto">>]
    BY <1>2, <1>3, <1>5 DEF QrInv, TypeOK
  <2> QED BY <2>1, <2>2, SameCalls
<1> QED BY <1>4, <1>5

LEMMA StepQrInv == QrInv /\ [Next]_vars => QrInv'
<1> SUFFICES ASSUME QrInv, [Next]_vars PROVE QrInv'
  OBVIOUS
<1>0. TypeOK /\ TypeOK'
  BY QrTypeStep DEF QrInv
<1>1. ASSUME NEW n \in Scan, ScanError(n) \/ ScanAfterLeaving(n) PROVE QrInv'
  <2>1. /\ scan[n].at = "parsing" /\ scan' = [scan EXCEPT ![n].at = "finished"]
        /\ UNCHANGED <<mounted, currentResult, handling>>
        /\ (StopProcessing \/ ~mounted)
    BY <1>1 DEF ScanError, ScanAfterLeaving
  <2>2. \A m \in Scan : handling[<<m, "auto">>] \in {"no", "asking", "deciding", "done"}
    BY <1>0 DEF TypeOK, Starter
  <2>3. handling'[<<n, "auto">>] \in {"no", "done"}
    BY <2>1, <2>2 DEF QrInv, AutoBelongsToScan
  <2>4. scan'[n].at = "finished" /\ scan'[n].code = scan[n].code
        /\ \A m \in Scan \ {n} : scan'[m] = scan[m]
    BY <1>0, <2>1 DEF TypeOK
  <2> QED BY <1>0, <2>1, <2>3, <2>4, CallEnds DEF AtWork
<1>3. ASSUME NEW n \in Scan, SuccessfulScan(n) PROVE QrInv'
  <2>1. /\ scan[n].at = "parsing" /\ IsValid(n) /\ currentResult' = n
        /\ UNCHANGED <<handling, isProcessing, mounted>>
    BY <1>3 DEF SuccessfulScan
  <2>2. scan'[n].at \in {"handling", "previewing"} /\ scan'[n].code = scan[n].code
        /\ \A m \in Scan \ {n} : scan'[m] = scan[m]
    BY <1>0, <1>3 DEF SuccessfulScan, TypeOK
  <2> QED BY <1>0, <2>1, <2>2, Moves DEF AtWork
<1>4. ASSUME NEW n \in Scan, AutoHandleResult(n) PROVE QrInv'
  <2>1. CASE Kind(n) \in HandledKinds
    <3>1. UNCHANGED <<scan, isProcessing, mounted, currentResult>> /\ scan[n].at = "handling"
      BY <1>4, <2>1 DEF AutoHandleResult
    <3>2. \A m \in Scan \ {n} : handling'[<<m, "auto">>] = handling[<<m, "auto">>]
      BY <1>0, <1>4, <2>1 DEF AutoHandleResult, TypeOK, Starter
    <3> QED BY <1>0, <3>1, <3>2, SameCalls
  <2>2. CASE Kind(n) \notin HandledKinds
    <3>1. /\ scan[n].at = "handling" /\ handling[<<n, "auto">>] = "no"
          /\ scan' = [scan EXCEPT ![n].at = "finished"]
          /\ UNCHANGED <<mounted, currentResult, handling>> /\ StopProcessing
      BY <1>4, <2>2 DEF AutoHandleResult
    <3>2. scan'[n].at = "finished" /\ scan'[n].code = scan[n].code
          /\ \A m \in Scan \ {n} : scan'[m] = scan[m]
      BY <1>0, <3>1 DEF TypeOK
    <3> QED BY <1>0, <3>1, <3>2, CallEnds DEF AtWork
  <2> QED BY <2>1, <2>2
<1>5. ASSUME UNCHANGED <<scan, handling, isProcessing, currentResult>>, mounted' => mounted
      PROVE  QrInv'
  BY <1>0, <1>5, SameCalls
<1>6. CASE PreviewShown
  <2>1. UNCHANGED <<handling, isProcessing, currentResult, mounted>>
    BY <1>6 DEF PreviewShown
  <2>2. \A n \in Scan :
          /\ (scan'[n].at = scan[n].at
                \/ (scan[n].at = "previewing" /\ scan'[n].at = "handling"))
          /\ scan'[n].code = scan[n].code
    BY <1>0, <1>6 DEF PreviewShown, TypeOK
  <2> QED BY <1>0, <2>1, <2>2, SameCalls DEF AtWork
<1>8. ASSUME NEW h \in Scan \X Starter, Initiated(h) PROVE QrInv'
  <2>1. UNCHANGED <<mounted, currentResult>> /\ handling[h] = "asking"
    BY <1>8 DEF Initiated
  <2>2. CASE Ends(h)
    BY <1>0, <2>1, <2>2, EndsQrInv
  <2>3. CASE ~Ends(h)
    <3>1. handling' = [handling EXCEPT ![h] = "deciding"] /\ UNCHANGED <<scan, isProcessing>>
      BY <1>8, <2>3 DEF Initiated
    <3>2. \A m \in Scan : <<m, "auto">> \in Scan \X Starter
      BY DEF Starter
    <3>3. \A m \in Scan : handling'[<<m, "auto">>] = handling[<<m, "auto">>]
                          \/ handling[<<m, "auto">>] = "asking"
      BY <1>0, <2>1, <3>1, <3>2 DEF TypeOK
    <3> QED BY <1>0, <2>1, <3>1, <3>3, SameCalls
  <2> QED BY <2>2, <2>3
<1>9. ASSUME NEW h \in Scan \X Starter, Decide(h) PROVE QrInv'
  BY <1>0, <1>9, EndsQrInv DEF Decide
<1>10. ASSUME NEW n \in Scan, NEW code \in Code, HandleScanResult(n, code) PROVE QrInv'
  <2>1. /\ mounted /\ ~isProcessing /\ isProcessing' = TRUE /\ scan[n].at = "idle"
        /\ UNCHANGED <<mounted, currentResult, handling>>
    BY <1>10 DEF HandleScanResult
  <2>2. scan'[n].at = "parsing" /\ \A m \in Scan \ {n} : scan'[m] = scan[m]
    BY <1>0, <1>10 DEF HandleScanResult, TypeOK
  <2>3. Active = {}
    BY <2>1 DEF QrInv, FlagStandsForCall
  <2>4. Active' = {n}
    BY <2>2, <2>3 DEF Active
  <2>5. FlagStandsForCall'
    BY <2>1, <2>4 DEF FlagStandsForCall
  <2>6. AutoBelongsToScan'
    BY <2>1, <2>2 DEF QrInv, AutoBelongsToScan
  <2>7. ShownWasScanned'
    <3>1. currentResult \in Scan \cup {0}
      BY <1>0, MaxScansIsNat DEF TypeOK, Scan
    <3> QED BY <2>1, <2>2, <3>1 DEF QrInv, ShownWasScanned
  <2> QED BY <1>0, <2>5, <2>6, <2>7 DEF QrInv
<1>12. CASE ResultAction
  <2>1. UNCHANGED <<scan, isProcessing, mounted, currentResult>>
    BY <1>12 DEF ResultAction
  <2>2. \A m \in Scan : handling'[<<m, "auto">>] = handling[<<m, "auto">>]
    BY <1>0, <1>12 DEF ResultAction, TypeOK, Starter
  <2> QED BY <1>0, <2>1, <2>2, SameCalls
<1> QED
  BY <1>1, <1>3, <1>4, <1>5, <1>6, <1>8, <1>9, <1>10, <1>12
     DEF Next, Step, User, PreviewHidden, HideAfterDelay, Dismiss, Leave, vars

LEMMA OneIsActive == QrInv => OneScanAtATime
<1> SUFFICES ASSUME QrInv PROVE Cardinality(Active) <= 1
  BY DEF OneScanAtATime
<1>1. CASE Active = {}
  BY <1>1, FS_EmptySet
<1>2. CASE Active # {}
  <2>1. PICK n : n \in Active
    BY <1>2
  <2>2. Active = {n}
    BY <2>1 DEF QrInv, FlagStandsForCall
  <2> QED BY <2>2, FS_Singleton
<1> QED BY <1>1, <1>2

\* What every behaviour of the scanner keeps to.
LEMMA QrSafe ==
  Init /\ [][Next]_vars =>
    [](TypeOK /\ OneScanAtATime /\ ProcessingMeansActive /\ OnlyValidatedIsShown)
<1>1. QrInv => TypeOK /\ OneScanAtATime
  BY OneIsActive DEF QrInv
<1>2. QrInv => ProcessingMeansActive /\ OnlyValidatedIsShown
  BY DEF QrInv, FlagStandsForCall, ProcessingMeansActive, ShownWasScanned,
     OnlyValidatedIsShown
<1> QED BY InitQrInv, StepQrInv, <1>1, <1>2, PTL

\* The types, for every number of scans and every wallet.
THEOREM QrTypeCorrect == Spec => []TypeOK
BY QrSafe, PTL DEF Spec

\* However the camera, the preview, its button, the platform and the user interleave, one
\* call of handleScanResult at most is at work.
THEOREM OneScan == Spec => []OneScanAtATime
BY QrSafe, PTL DEF Spec

\* No way through the widget leaves isProcessing set without a call at work, which would
\* stop the scanner for good.
THEOREM FlagMeansCall == Spec => []ProcessingMeansActive
BY QrSafe, PTL DEF Spec

\* Nothing is shown, with a button to handle it, that Rust has not validated.
THEOREM ShownIsValidated == Spec => []OnlyValidatedIsShown
BY QrSafe, PTL DEF Spec

-----------------------------------------------------------------------------
(***************************************************************************)
(* What handleCredentialOffer tells its caller, for every number of        *)
(* offers, loads and edits.  The invariant ties the three places a         *)
(* credential passes: once an offer has stored it, it is in the wallet,    *)
(* which loses nothing, so it is in whatever the load of that offer reads. *)
(***************************************************************************)
\* What is known of an offer that has stored its credential and awaits its load.
LoadSeesOffer ==
  \A n \in Offer :
    /\ offer[n].handled => offer[n].at = "returned"
    /\ offer[n].stored => offer[n].of \subseteq wallet
    /\ offer[n].at = "loading" => offer[n].stored
    /\ load[n].at = "read" => offer[n].stored /\ offer[n].of \subseteq load[n].read
    /\ offer[n].at \in {"idle", "normalizing", "offering"} =>
         ~offer[n].stored /\ load[n].at = "idle"
    /\ load[n].at = "reading" => offer[n].at = "loading"
    /\ load[n].at = "read" => offer[n].at = "loading"
    /\ load[n].at = "ended" => offer[n].at = "returned"

\* The part of ListTypeOK the invariant needs.
ListTyped ==
  /\ wallet \subseteq Record
  /\ load \in [LoadId -> [at : {"idle", "reading", "read", "ended"},
                          read : SUBSET Record]]
  /\ offer \in [Offer -> [at : {"idle", "normalizing", "offering", "loading", "returned"},
                          of : SUBSET Record, stored : BOOLEAN, handled : BOOLEAN]]

ListInv == ListTyped /\ LoadSeesOffer /\ UnhandledIsNotStored

\* The numbers of offers and of other loads are apart.
LEMMA Ids ==
  /\ Offer \subseteq LoadId /\ RefreshLoad \subseteq LoadId /\ Constructor \in LoadId
  /\ Constructor \notin Offer /\ Offer \cap RefreshLoad = {}
BY BoundsAreNat DEF Offer, LoadId, RefreshLoad, Constructor

LEMMA InitListInv == ListInit => ListInv
<1> SUFFICES ASSUME ListInit PROVE ListInv
  OBVIOUS
<1>1. ListTyped
  BY DEF ListInit, ListTyped
<1>2. \A n \in Offer : load[n].at = "idle" /\ offer[n].at = "idle"
                      /\ offer[n].stored = FALSE /\ offer[n].handled = FALSE
  BY Ids DEF ListInit
<1> QED BY <1>1, <1>2 DEF ListInv, LoadSeesOffer, UnhandledIsNotStored

\* The end of a load, failed or not, and the return of the offer that awaits it.
LEMMA LoadReturns ==
  ASSUME ListInv, NEW l \in LoadId, load[l].at \in {"reading", "read"},
         load' = [load EXCEPT ![l].at = "ended"], OfferReturns(l, TRUE), wallet' = wallet
  PROVE  ListInv'
<1> USE Ids DEF ListInv, ListTyped
<1>1. load' \in [LoadId -> [at : {"idle", "reading", "read", "ended"},
                           read : SUBSET Record]]
  OBVIOUS
<1>2. CASE l \in Offer
  <2>1. offer' = [offer EXCEPT ![l].at = "returned", ![l].handled = TRUE]
    BY <1>2 DEF OfferReturns
  <2>2. /\ offer'[l].at = "returned" /\ offer'[l].handled = TRUE
        /\ offer'[l].of = offer[l].of /\ offer'[l].stored = offer[l].stored
        /\ load'[l].at = "ended"
    BY <1>2, <2>1
  <2>3. \A m \in Offer \ {l} : offer'[m] = offer[m] /\ load'[m] = load[m]
    BY <1>2, <2>1
  <2>4. offer'[l] \in [at : {"idle", "normalizing", "offering", "loading", "returned"},
                      of : SUBSET Record, stored : BOOLEAN, handled : BOOLEAN]
    BY <1>2, <2>1
  <2>5. offer' \in [Offer ->
                     [at : {"idle", "normalizing", "offering", "loading", "returned"},
                      of : SUBSET Record, stored : BOOLEAN, handled : BOOLEAN]]
    BY <1>2, <2>1, <2>4
  <2>6. UnhandledIsNotStored'
    BY <2>2, <2>3 DEF UnhandledIsNotStored
  <2>7. LoadSeesOffer'
    BY <1>2, <2>2, <2>3 DEF LoadSeesOffer
  <2> QED BY <1>1, <2>5, <2>6, <2>7
<1>3. CASE l \notin Offer
  <2>1. offer' = offer /\ \A m \in Offer : load'[m] = load[m]
    BY <1>3 DEF OfferReturns
  <2> QED BY <1>1, <2>1 DEF LoadSeesOffer, UnhandledIsNotStored
<1> QED BY <1>2, <1>3

LEMMA StepListInv == ListInv /\ [ListNext]_listVars => ListInv'
<1> SUFFICES ASSUME ListInv, [ListNext]_listVars PROVE ListInv'
  OBVIOUS
<1> USE Ids DEF ListInv, ListTyped, LoadSeesOffer, UnhandledIsNotStored
<1>1. ASSUME NEW l \in RefreshLoad, RefreshCredentials(l) PROVE ListInv'
  BY <1>1 DEF RefreshCredentials, StartLoad
<1>2. ASSUME NEW l \in LoadId, GetAllCredentials(l) PROVE ListInv'
  BY <1>2 DEF GetAllCredentials
<1>3. ASSUME NEW l \in LoadId, LoadFails(l) PROVE ListInv'
  BY <1>3, LoadReturns DEF LoadFails
<1>4. ASSUME NEW l \in LoadId, LoadEnds(l) PROVE ListInv'
  BY <1>4, LoadReturns DEF LoadEnds
<1>5. ASSUME NEW n \in Offer, NEW c \in Record, StartOffer(n, c) PROVE ListInv'
  <2>1. /\ offer' = [offer EXCEPT ![n].at = "normalizing", ![n].of = {c}]
        /\ load' = load /\ wallet' = wallet /\ offer[n].at = "idle"
    BY <1>5 DEF StartOffer
  <2>2. ListTyped'
    <3>1. offer'[n] \in [at : {"idle", "normalizing", "offering", "loading", "returned"},
                         of : SUBSET Record, stored : BOOLEAN, handled : BOOLEAN]
      BY <2>1, ZenonT(30)
    <3> QED BY <2>1, <3>1
  <2>3. /\ offer'[n].at = "normalizing" /\ offer'[n].stored = offer[n].stored
        /\ offer'[n].handled = offer[n].handled
        /\ \A m \in Offer \ {n} : offer'[m] = offer[m]
    BY <2>1
  <2> QED BY <2>1, <2>2, <2>3
<1>6. ASSUME NEW n \in Offer, OfferRefused(n) PROVE ListInv'
  <2>1. /\ offer' = [offer EXCEPT ![n].at = "returned"]
        /\ load' = load /\ wallet' = wallet /\ offer[n].at \in {"normalizing"}
    BY <1>6 DEF OfferRefused
  <2>2. offer' \in [Offer ->
                     [at : {"idle", "normalizing", "offering", "loading", "returned"},
                      of : SUBSET Record, stored : BOOLEAN, handled : BOOLEAN]]
    BY <2>1, SMTT(30)
  <2>3. /\ offer'[n].at = "returned" /\ offer'[n].stored = offer[n].stored
        /\ offer'[n].handled = offer[n].handled /\ offer'[n].of = offer[n].of
        /\ \A m \in Offer \ {n} : offer'[m] = offer[m]
    BY <2>1
  <2> QED BY <2>1, <2>2, <2>3
<1>7. ASSUME NEW n \in Offer, OfferNormalized(n) PROVE ListInv'
  <2>1. /\ offer' = [offer EXCEPT ![n].at = "offering"]
        /\ load' = load /\ wallet' = wallet /\ offer[n].at \in {"normalizing"}
    BY <1>7 DEF OfferNormalized
  <2>2. offer' \in [Offer ->
                     [at : {"idle", "normalizing", "offering", "loading", "returned"},
                      of : SUBSET Record, stored : BOOLEAN, handled : BOOLEAN]]
    BY <2>1
  <2>3. /\ offer'[n].at = "offering" /\ offer'[n].stored = offer[n].stored
        /\ offer'[n].handled = offer[n].handled /\ offer'[n].of = offer[n].of
        /\ \A m \in Offer \ {n} : offer'[m] = offer[m]
    BY <2>1
  <2> QED BY <2>1, <2>2, <2>3
<1>8. ASSUME NEW n \in Offer, OfferFails(n) PROVE ListInv'
  <2>1. /\ offer' = [offer EXCEPT ![n].at = "returned"]
        /\ load' = load /\ wallet' = wallet /\ offer[n].at \in {"normalizing", "offering"}
    BY <1>8 DEF OfferFails
  <2>2. offer' \in [Offer ->
                     [at : {"idle", "normalizing", "offering", "loading", "returned"},
                      of : SUBSET Record, stored : BOOLEAN, handled : BOOLEAN]]
    BY <2>1, ZenonT(60)
  <2>3. /\ offer'[n].at = "returned" /\ offer'[n].stored = offer[n].stored
        /\ offer'[n].handled = offer[n].handled /\ offer'[n].of = offer[n].of
        /\ \A m \in Offer \ {n} : offer'[m] = offer[m]
    BY <2>1
  <2> QED BY <2>1, <2>2, <2>3
<1>9. ASSUME NEW n \in Offer, OfferStored(n) PROVE ListInv'
  BY <1>9, SMTT(30) DEF OfferStored, StartLoad
<1>10. CASE UNCHANGED <<load, offer, wallet>>
  BY <1>10
<1> QED
  BY <1>1, <1>2, <1>3, <1>4, <1>5, <1>6, <1>7, <1>8, <1>9, <1>10, ZenonT(30)
     DEF ListNext, LoadStep, OfferStep, Add, RemoveVerifiableCredential,
         DismissPromotionalCard, Edit, listVars

\* The sample card is there once some load has ended; a load that has ended is never
\* begun again.
LEMMA StepListTyped ==
  ASSUME ListInv, ListTypeOK, [ListNext]_listVars
  PROVE  ListTypeOK'
<1> USE Ids DEF ListInv, ListTyped, LoadSeesOffer
<1>1. ListTyped'
  BY StepListInv
<1>2. CASE UNCHANGED <<list, promo, isLoading, error, load, edits>>
  BY <1>1, <1>2 DEF ListTypeOK
<1>3. ASSUME NEW l \in LoadId, load[l].at # "ended", StartLoad(l),
             UNCHANGED <<list, promo, error, edits>>
      PROVE  ListTypeOK'
  <2>1. \A m \in LoadId : load'[m].at = "ended" <=> load[m].at = "ended"
    BY <1>3 DEF StartLoad
  <2> QED BY <1>1, <1>3, <2>1 DEF ListTypeOK, StartLoad
<1>4. ASSUME NEW l \in LoadId, LoadFails(l) \/ LoadEnds(l) PROVE ListTypeOK'
  <2>1. load' = [load EXCEPT ![l].at = "ended"] /\ promo' = "active" /\ edits' = edits
    BY <1>4 DEF LoadFails, LoadEnds
  <2>3. load'[l].at = "ended"
    BY <2>1
  <2>2. list' \subseteq Record /\ isLoading' = FALSE /\ error' \in {"none", "retired", "demo"}
    BY <1>4 DEF LoadFails, LoadEnds, Listed
  <2> QED BY <1>1, <2>1, <2>2, <2>3 DEF ListTypeOK
<1>5. ASSUME NEW l \in LoadId, GetAllCredentials(l) PROVE ListTypeOK'
  <2>1. \A m \in LoadId : load'[m].at = "ended" <=> load[m].at = "ended"
    BY <1>5 DEF GetAllCredentials
  <2> QED BY <1>1, <1>5, <2>1 DEF ListTypeOK, GetAllCredentials, shown
<1>6. ASSUME NEW l \in RefreshLoad, RefreshCredentials(l) PROVE ListTypeOK'
  BY <1>3, <1>6 DEF RefreshCredentials
<1>7. ASSUME NEW n \in Offer, OfferStored(n) PROVE ListTypeOK'
  BY <1>3, <1>7 DEF OfferStored
<1>8. ASSUME NEW n \in Offer, OfferNormalized(n) \/ OfferFails(n) PROVE ListTypeOK'
  BY <1>1, <1>8 DEF OfferNormalized, OfferFails, ListTypeOK
<1>9. ASSUME NEW n \in Offer, NEW c \in Record, StartOffer(n, c) PROVE ListTypeOK'
  BY <1>2, <1>9 DEF StartOffer, shown
<1>10. ASSUME NEW n \in Offer, OfferRefused(n) PROVE ListTypeOK'
  BY <1>2, <1>10 DEF OfferRefused, shown
<1>11. ASSUME list' \subseteq Record, promo' \in {promo, "dismissed"},
              promo = "absent" => promo' = "absent", Edit
       PROVE  ListTypeOK'
  BY <1>1, <1>11, BoundsAreNat DEF ListTypeOK, Edit
<1>12. ASSUME NEW c \in Record, Add(c) \/ RemoveVerifiableCredential(c) PROVE ListTypeOK'
  BY <1>11, <1>12 DEF Add, RemoveVerifiableCredential, ListTypeOK
<1>13. CASE DismissPromotionalCard
  BY <1>11, <1>13 DEF DismissPromotionalCard, ListTypeOK
<1> QED
  BY <1>2, <1>4, <1>5, <1>6, <1>7, <1>8, <1>9, <1>10, <1>12, <1>13
     DEF ListNext, LoadStep, OfferStep, listVars

LEMMA InitListTyped == ListInit => ListTypeOK
<1> SUFFICES ASSUME ListInit PROVE ListTypeOK
  OBVIOUS
<1>1. ListTyped
  BY InitListInv DEF ListInv
<1>2. \A l \in LoadId : load[l].at # "ended"
  BY DEF ListInit
<1>3. edits \in 0 .. MaxEdits
  BY BoundsAreNat DEF ListInit
<1> QED BY <1>1, <1>2, <1>3 DEF ListTyped, ListInit, ListTypeOK

\* A step that ends an offer as handled leaves its credential in the list, or says that
\* the wallet could not be read.
LEMMA ListedStep ==
  ASSUME ListInv, [ListNext]_listVars, NEW n \in Offer,
         offer[n].at # "returned", offer'[n].at = "returned", offer'[n].handled
  PROVE  error' = "demo" \/ Listed(offer[n].of) \subseteq list'
<1> USE Ids DEF ListInv, ListTyped, LoadSeesOffer
<1>1. ASSUME NEW l \in LoadId, LoadEnds(l)
      PROVE  Listed(offer[n].of) \subseteq list'
  <2>1. l = n
    BY <1>1 DEF LoadEnds, OfferReturns
  <2>2. offer[n].of \subseteq load[n].read /\ list' = Listed(load[n].read)
    BY <1>1, <2>1 DEF LoadEnds
  <2> QED BY <2>2 DEF Listed
<1>2. ASSUME NEW l \in LoadId, LoadFails(l) PROVE error' = "demo"
  BY <1>2 DEF LoadFails
<1>3. ASSUME NEW m \in Offer, OfferStep(m) PROVE FALSE
  BY <1>3, SMTT(30) DEF OfferStep, OfferRefused, OfferNormalized, OfferFails, OfferStored
<1>4. ASSUME NEW m \in Offer, NEW c \in Record, StartOffer(m, c) PROVE FALSE
  BY <1>4 DEF StartOffer
<1>5. ASSUME offer' = offer PROVE FALSE
  BY <1>5
<1> QED
  BY <1>1, <1>2, <1>3, <1>4, <1>5 DEF ListNext, listVars, LoadStep, RefreshCredentials,
     GetAllCredentials, Add, RemoveVerifiableCredential, DismissPromotionalCard, Edit

\* What every behaviour of the list keeps to.
LEMMA ListSafe ==
  ListInit /\ [][ListNext]_listVars =>
    [](ListTypeOK /\ UnhandledIsNotStored) /\ OfferedIsListed
<1>1. ListInit => ListInv /\ ListTypeOK
  BY InitListInv, InitListTyped
<1>2. ListInv /\ ListTypeOK /\ [ListNext]_listVars => (ListInv /\ ListTypeOK)'
  BY StepListInv, StepListTyped
<1>3. ListInv => UnhandledIsNotStored
  BY DEF ListInv
<1>4. ListInv /\ [ListNext]_listVars =>
        [\A n \in Offer :
          offer[n].at # "returned" /\ offer'[n].at = "returned" /\ offer'[n].handled
          => error' = "demo" \/ Listed(offer[n].of) \subseteq list']_listVars
  BY ListedStep
<1> QED BY <1>1, <1>2, <1>3, <1>4, PTL DEF OfferedIsListed

\* Whatever loads, offers and edits overlap, an offer that is reported as not handled
\* has put nothing into the wallet.
THEOREM UnhandledOfferStoresNothing == ListSpec => []UnhandledIsNotStored
BY ListSafe, PTL DEF ListSpec

\* An offer that is reported as handled is in the list the caller finds, or the error
\* tells that the wallet could not be read.
THEOREM HandledOfferIsListed == ListSpec => OfferedIsListed
BY ListSafe, PTL DEF ListSpec

-----------------------------------------------------------------------------
(***************************************************************************)
(* The screens together.  Each part is one behaviour of its module, in one *)
(* of its configurations, while the others rest: ScreensSpec implements    *)
(* every one of them, and so has their properties.  The instances of the   *)
(* proofs have the constants of the instances of MCScreens.                *)
(***************************************************************************)
Prompt == INSTANCE ScreenPartsProofs WITH
  MaxSubmits <- 2, MaxCancels <- 2, MaxKills <- 1,
  Ble <- FALSE, MaxStarts <- 3, MaxStops <- 2
Slowly == INSTANCE ScreenPartsProofs WITH
  SlowFactory <- TRUE,
  MaxSubmits <- 2, MaxCancels <- 2, MaxKills <- 1,
  Ble <- TRUE, MaxStarts <- 3, MaxStops <- 3
Testing == INSTANCE ScreenPartsProofs WITH
  SlowFactory <- TRUE, Mocked <- TRUE,
  MaxSubmits <- 2, MaxCancels <- 2, MaxKills <- 1,
  Ble <- TRUE, MaxStarts <- 3, MaxStops <- 3

OverlapLists == INSTANCE StatusListServiceProofs WITH
  now <- clock, cache <- listCache, Check <- {k1, k2}, Credential <- {one},
  StatusOf <- Status, HttpUrl <- {u1, u2}, Published <- u1 :> Revocations @@ OtherList,
  MAX_STATUS_ENTRIES <- 32, MaxIndex <- 3, CacheLife <- 1, Flight <- 1, MaxTime <- 3
LongLists == INSTANCE StatusListServiceProofs WITH
  now <- clock, cache <- listCache, Check <- {k1, k2}, Credential <- {one},
  StatusOf <- Status, HttpUrl <- {u1, u2},
  Published <- u1 :> Revocations \cup {Unsigned} @@ OtherList,
  MAX_STATUS_ENTRIES <- 32, MaxIndex <- 3, CacheLife <- 1, Flight <- 1, MaxTime <- 4
PurposesLists == INSTANCE StatusListServiceProofs WITH
  now <- clock, cache <- listCache, Check <- {k1, k2}, Credential <- {both},
  StatusOf <- Status, HttpUrl <- {u1, u2},
  Published <- u1 :> {ListAt(u1, "revocation", TRUE), Malformed} @@ u2 :> Misfiled,
  MAX_STATUS_ENTRIES <- 32, MaxIndex <- 3, CacheLife <- 1, Flight <- 1, MaxTime <- 3
OddLists == INSTANCE StatusListServiceProofs WITH
  now <- clock, cache <- listCache, Check <- {k1, k2}, Credential <- {odd, plain, one},
  StatusOf <- Status, HttpUrl <- {u1, u2},
  Published <- u1 :> Revocations \cup {Malformed} @@ OtherList,
  MAX_STATUS_ENTRIES <- 32, MaxIndex <- 3, CacheLife <- 1, Flight <- 1, MaxTime <- 1

LEMMA SamePromptCheck ==
  /\ CheckInit => Prompt!CheckInit
  /\ [CheckNext]_checkVars => [Prompt!CheckNext]_(Prompt!checkVars)
BY DEF CheckNext, CreateChallenge, ExpiryTick, OpenCamera, MockGesture, LeaveCheck, Dispose, Tick,
     ProcessImage, Recognised, Counts, Advance, FinishVerification, NotTurned, Started, Mounted,
     Remaining, IsExpired, Content, create_liveness_challenge, evaluate_liveness_gesture, OrZero,
     gesture_prompt, checkVars, CheckInit, Prompt!CheckNext, Prompt!CreateChallenge,
     Prompt!ExpiryTick, Prompt!OpenCamera, Prompt!MockGesture, Prompt!LeaveCheck, Prompt!Dispose,
     Prompt!Tick, Prompt!ProcessImage, Prompt!Recognised, Prompt!Counts, Prompt!Advance,
     Prompt!FinishVerification, Prompt!NotTurned, Prompt!Started, Prompt!Mounted,
     Prompt!Remaining, Prompt!IsExpired, Prompt!Content, Prompt!create_liveness_challenge,
     Prompt!evaluate_liveness_gesture, Prompt!OrZero, Prompt!gesture_prompt, Prompt!checkVars,
     Prompt!CheckInit

LEMMA SameSlowCheck ==
  /\ Slow!CheckInit => Slowly!CheckInit
  /\ [Slow!CheckNext]_checkVars => [Slowly!CheckNext]_(Slowly!checkVars)
BY DEF Slow!CheckNext, Slow!CreateChallenge, Slow!ExpiryTick, Slow!OpenCamera, Slow!MockGesture,
     Slow!LeaveCheck, Slow!Dispose, Slow!Tick, Slow!ProcessImage, Slow!Recognised, Slow!Counts,
     Slow!Advance, Slow!FinishVerification, Slow!NotTurned, Slow!Started, Slow!Mounted,
     Slow!Remaining, Slow!IsExpired, Slow!Content, Slow!create_liveness_challenge,
     Slow!evaluate_liveness_gesture, Slow!OrZero, Slow!gesture_prompt, Slow!CheckInit, checkVars,
     Slowly!CheckNext, Slowly!CreateChallenge, Slowly!ExpiryTick, Slowly!OpenCamera,
     Slowly!MockGesture, Slowly!LeaveCheck, Slowly!Dispose, Slowly!Tick, Slowly!ProcessImage,
     Slowly!Recognised, Slowly!Counts, Slowly!Advance, Slowly!FinishVerification,
     Slowly!NotTurned, Slowly!Started, Slowly!Mounted, Slowly!Remaining, Slowly!IsExpired,
     Slowly!Content, Slowly!create_liveness_challenge, Slowly!evaluate_liveness_gesture,
     Slowly!OrZero, Slowly!gesture_prompt, Slowly!checkVars, Slowly!CheckInit

LEMMA SameTestedCheck ==
  /\ Tested!CheckInit => Testing!CheckInit
  /\ [Tested!CheckNext]_checkVars => [Testing!CheckNext]_(Testing!checkVars)
BY DEF Tested!CheckNext, Tested!CreateChallenge, Tested!ExpiryTick, Tested!OpenCamera,
     Tested!MockGesture, Tested!LeaveCheck, Tested!Dispose, Tested!Tick, Tested!ProcessImage,
     Tested!Recognised, Tested!Counts, Tested!Advance, Tested!FinishVerification,
     Tested!NotTurned, Tested!Started, Tested!Mounted, Tested!Remaining, Tested!IsExpired,
     Tested!Content, Tested!create_liveness_challenge, Tested!evaluate_liveness_gesture,
     Tested!OrZero, Tested!gesture_prompt, Tested!CheckInit, checkVars, Testing!CheckNext,
     Testing!CreateChallenge, Testing!ExpiryTick, Testing!OpenCamera, Testing!MockGesture,
     Testing!LeaveCheck, Testing!Dispose, Testing!Tick, Testing!ProcessImage, Testing!Recognised,
     Testing!Counts, Testing!Advance, Testing!FinishVerification, Testing!NotTurned,
     Testing!Started, Testing!Mounted, Testing!Remaining, Testing!IsExpired, Testing!Content,
     Testing!create_liveness_challenge, Testing!evaluate_liveness_gesture, Testing!OrZero,
     Testing!gesture_prompt, Testing!checkVars, Testing!CheckInit

LEMMA SameSaved ==
  /\ Saved!Init => Prompt!Init
  /\ [Saved!Next]_verificationVars => [Prompt!Next]_(Prompt!vars)
BY DEF Saved!Next, Saved!LoadState, Saved!SetString, Saved!Written, Saved!WriteFails,
     Saved!OpenReview, Saved!Leave, Saved!Cancel, Saved!Kill, Saved!StartSubmit, Saved!RequestEnds,
     Saved!RequestFails, Saved!RequestTaken, Saved!RequestTakenAfterLeaving, Saved!SetStatus,
     Saved!Loaded, Saved!Return, Saved!isSubmitting, Saved!Parse, Saved!Load, Saved!Set,
     Saved!Submit, Saved!Cancelled, Saved!history, Saved!Init, Saved!Stored, Saved!Statuses,
     verificationVars, Prompt!Next, Prompt!LoadState, Prompt!SetString, Prompt!Written,
     Prompt!WriteFails, Prompt!OpenReview, Prompt!Leave, Prompt!Cancel, Prompt!Kill,
     Prompt!StartSubmit, Prompt!RequestEnds, Prompt!RequestFails, Prompt!RequestTaken,
     Prompt!RequestTakenAfterLeaving, Prompt!SetStatus, Prompt!Loaded, Prompt!Return,
     Prompt!isSubmitting, Prompt!Parse, Prompt!Load, Prompt!Set, Prompt!Submit, Prompt!Cancelled,
     Prompt!history, Prompt!Init, Prompt!Stored, Prompt!Statuses, Prompt!vars

LEMMA SameOnMock ==
  /\ OnMock!Init => Prompt!Near!Init
  /\ [OnMock!Next]_proximityVars => [Prompt!Near!Next]_(Prompt!Near!vars)
BY DEF OnMock!Next, OnMock!OpenView, OnMock!CloseView, OnMock!Stop, OnMock!Dispose,
     OnMock!BleStarted, OnMock!BleStartFails, OnMock!Stopped, OnMock!BleStopFails,
     OnMock!BleStateChanged, OnMock!MockConnects, OnMock!MockRequests, OnMock!Answer,
     OnMock!StartPresentation, OnMock!StopPresentation, OnMock!Subscribe, OnMock!Unsubscribe,
     OnMock!StartAdvertising, OnMock!Contains, OnMock!service, OnMock!mock, OnMock!requests,
     OnMock!Nobody, OnMock!Init, proximityVars, Prompt!Near!Next, Prompt!Near!OpenView,
     Prompt!Near!CloseView, Prompt!Near!Stop, Prompt!Near!Dispose, Prompt!Near!BleStarted,
     Prompt!Near!BleStartFails, Prompt!Near!Stopped, Prompt!Near!BleStopFails,
     Prompt!Near!BleStateChanged, Prompt!Near!MockConnects, Prompt!Near!MockRequests,
     Prompt!Near!Answer, Prompt!Near!StartPresentation, Prompt!Near!StopPresentation,
     Prompt!Near!Subscribe, Prompt!Near!Unsubscribe, Prompt!Near!StartAdvertising,
     Prompt!Near!Contains, Prompt!Near!service, Prompt!Near!mock, Prompt!Near!requests,
     Prompt!Near!Nobody, Prompt!Near!Init, Prompt!Near!vars

LEMMA SameOverBle ==
  /\ OverBle!Init => Slowly!Near!Init
  /\ [OverBle!Next]_proximityVars => [Slowly!Near!Next]_(Slowly!Near!vars)
BY DEF OverBle!Next, OverBle!OpenView, OverBle!CloseView, OverBle!Stop, OverBle!Dispose,
     OverBle!BleStarted, OverBle!BleStartFails, OverBle!Stopped, OverBle!BleStopFails,
     OverBle!BleStateChanged, OverBle!MockConnects, OverBle!MockRequests, OverBle!Answer,
     OverBle!StartPresentation, OverBle!StopPresentation, OverBle!Subscribe, OverBle!Unsubscribe,
     OverBle!StartAdvertising, OverBle!Contains, OverBle!service, OverBle!mock, OverBle!requests,
     OverBle!Nobody, OverBle!Init, proximityVars, Slowly!Near!Next, Slowly!Near!OpenView,
     Slowly!Near!CloseView, Slowly!Near!Stop, Slowly!Near!Dispose, Slowly!Near!BleStarted,
     Slowly!Near!BleStartFails, Slowly!Near!Stopped, Slowly!Near!BleStopFails,
     Slowly!Near!BleStateChanged, Slowly!Near!MockConnects, Slowly!Near!MockRequests,
     Slowly!Near!Answer, Slowly!Near!StartPresentation, Slowly!Near!StopPresentation,
     Slowly!Near!Subscribe, Slowly!Near!Unsubscribe, Slowly!Near!StartAdvertising,
     Slowly!Near!Contains, Slowly!Near!service, Slowly!Near!mock, Slowly!Near!requests,
     Slowly!Near!Nobody, Slowly!Near!Init, Slowly!Near!vars

LEMMA SameOverlap ==
  /\ Overlap!Init => OverlapLists!Init
  /\ [Overlap!Next]_statusVars => [OverlapLists!Next]_(OverlapLists!vars)
BY DEF Overlap!Next, Overlap!Step, Overlap!Parsed, Overlap!Respond, Overlap!Arrive,
     Overlap!FetchFails, Overlap!Evaluated, Overlap!CheckCached, Overlap!CheckNoStatus,
     Overlap!CheckStatus, Overlap!ClearStatusCache, Overlap!Publish, Overlap!ClearCache,
     Overlap!Tick, Overlap!Return, Overlap!NextEntry, Overlap!Url, Overlap!Fresh,
     Overlap!Current, Overlap!Idle, Overlap!Failure, Overlap!NoStatusEntry, Overlap!Decide,
     Overlap!ParseStatusEntries, Overlap!ParseEntry, Overlap!EvaluateBitstringStatus,
     Overlap!HasNonemptyProof, Overlap!RequiredString, Overlap!Purpose, Overlap!Init,
     Overlap!Lists, statusVars, OverlapLists!Next, OverlapLists!Step, OverlapLists!Parsed,
     OverlapLists!Respond, OverlapLists!Arrive, OverlapLists!FetchFails, OverlapLists!Evaluated,
     OverlapLists!CheckCached, OverlapLists!CheckNoStatus, OverlapLists!CheckStatus,
     OverlapLists!ClearStatusCache, OverlapLists!Publish, OverlapLists!ClearCache,
     OverlapLists!Tick, OverlapLists!Return, OverlapLists!NextEntry, OverlapLists!Url,
     OverlapLists!Fresh, OverlapLists!Current, OverlapLists!Idle, OverlapLists!Failure,
     OverlapLists!NoStatusEntry, OverlapLists!Decide, OverlapLists!ParseStatusEntries,
     OverlapLists!ParseEntry, OverlapLists!EvaluateBitstringStatus,
     OverlapLists!HasNonemptyProof, OverlapLists!RequiredString, OverlapLists!Purpose,
     OverlapLists!vars, OverlapLists!Init, OverlapLists!Lists

LEMMA SameLong ==
  /\ Long!Init => LongLists!Init
  /\ [Long!Next]_statusVars => [LongLists!Next]_(LongLists!vars)
BY DEF Long!Next, Long!Step, Long!Parsed, Long!Respond, Long!Arrive, Long!FetchFails,
     Long!Evaluated, Long!CheckCached, Long!CheckNoStatus, Long!CheckStatus,
     Long!ClearStatusCache, Long!Publish, Long!ClearCache, Long!Tick, Long!Return,
     Long!NextEntry, Long!Url, Long!Fresh, Long!Current, Long!Idle, Long!Failure,
     Long!NoStatusEntry, Long!Decide, Long!ParseStatusEntries, Long!ParseEntry,
     Long!EvaluateBitstringStatus, Long!HasNonemptyProof, Long!RequiredString, Long!Purpose,
     Long!Init, Long!Lists, statusVars, LongLists!Next, LongLists!Step, LongLists!Parsed,
     LongLists!Respond, LongLists!Arrive, LongLists!FetchFails, LongLists!Evaluated,
     LongLists!CheckCached, LongLists!CheckNoStatus, LongLists!CheckStatus,
     LongLists!ClearStatusCache, LongLists!Publish, LongLists!ClearCache, LongLists!Tick,
     LongLists!Return, LongLists!NextEntry, LongLists!Url, LongLists!Fresh, LongLists!Current,
     LongLists!Idle, LongLists!Failure, LongLists!NoStatusEntry, LongLists!Decide,
     LongLists!ParseStatusEntries, LongLists!ParseEntry, LongLists!EvaluateBitstringStatus,
     LongLists!HasNonemptyProof, LongLists!RequiredString, LongLists!Purpose, LongLists!vars,
     LongLists!Init, LongLists!Lists

LEMMA SamePurposes ==
  /\ Purposes!Init => PurposesLists!Init
  /\ [Purposes!Next]_statusVars => [PurposesLists!Next]_(PurposesLists!vars)
BY DEF Purposes!Next, Purposes!Step, Purposes!Parsed, Purposes!Respond, Purposes!Arrive,
     Purposes!FetchFails, Purposes!Evaluated, Purposes!CheckCached, Purposes!CheckNoStatus,
     Purposes!CheckStatus, Purposes!ClearStatusCache, Purposes!Publish, Purposes!ClearCache,
     Purposes!Tick, Purposes!Return, Purposes!NextEntry, Purposes!Url, Purposes!Fresh,
     Purposes!Current, Purposes!Idle, Purposes!Failure, Purposes!NoStatusEntry, Purposes!Decide,
     Purposes!ParseStatusEntries, Purposes!ParseEntry, Purposes!EvaluateBitstringStatus,
     Purposes!HasNonemptyProof, Purposes!RequiredString, Purposes!Purpose, Purposes!Init,
     Purposes!Lists, statusVars, PurposesLists!Next, PurposesLists!Step, PurposesLists!Parsed,
     PurposesLists!Respond, PurposesLists!Arrive, PurposesLists!FetchFails,
     PurposesLists!Evaluated, PurposesLists!CheckCached, PurposesLists!CheckNoStatus,
     PurposesLists!CheckStatus, PurposesLists!ClearStatusCache, PurposesLists!Publish,
     PurposesLists!ClearCache, PurposesLists!Tick, PurposesLists!Return, PurposesLists!NextEntry,
     PurposesLists!Url, PurposesLists!Fresh, PurposesLists!Current, PurposesLists!Idle,
     PurposesLists!Failure, PurposesLists!NoStatusEntry, PurposesLists!Decide,
     PurposesLists!ParseStatusEntries, PurposesLists!ParseEntry,
     PurposesLists!EvaluateBitstringStatus, PurposesLists!HasNonemptyProof,
     PurposesLists!RequiredString, PurposesLists!Purpose, PurposesLists!vars, PurposesLists!Init,
     PurposesLists!Lists

LEMMA SameOdd ==
  /\ Odd!Init => OddLists!Init
  /\ [Odd!Next]_statusVars => [OddLists!Next]_(OddLists!vars)
BY DEF Odd!Next, Odd!Step, Odd!Parsed, Odd!Respond, Odd!Arrive, Odd!FetchFails, Odd!Evaluated,
     Odd!CheckCached, Odd!CheckNoStatus, Odd!CheckStatus, Odd!ClearStatusCache, Odd!Publish,
     Odd!ClearCache, Odd!Tick, Odd!Return, Odd!NextEntry, Odd!Url, Odd!Fresh, Odd!Current,
     Odd!Idle, Odd!Failure, Odd!NoStatusEntry, Odd!Decide, Odd!ParseStatusEntries,
     Odd!ParseEntry, Odd!EvaluateBitstringStatus, Odd!HasNonemptyProof, Odd!RequiredString,
     Odd!Purpose, Odd!Init, Odd!Lists, statusVars, OddLists!Next, OddLists!Step, OddLists!Parsed,
     OddLists!Respond, OddLists!Arrive, OddLists!FetchFails, OddLists!Evaluated,
     OddLists!CheckCached, OddLists!CheckNoStatus, OddLists!CheckStatus,
     OddLists!ClearStatusCache, OddLists!Publish, OddLists!ClearCache, OddLists!Tick,
     OddLists!Return, OddLists!NextEntry, OddLists!Url, OddLists!Fresh, OddLists!Current,
     OddLists!Idle, OddLists!Failure, OddLists!NoStatusEntry, OddLists!Decide,
     OddLists!ParseStatusEntries, OddLists!ParseEntry, OddLists!EvaluateBitstringStatus,
     OddLists!HasNonemptyProof, OddLists!RequiredString, OddLists!Purpose, OddLists!vars,
     OddLists!Init, OddLists!Lists

-----------------------------------------------------------------------------
\* The part that is at work stays the same.
LEMMA PartStays == [ScreensNext]_screensVars => UNCHANGED part
BY DEF ScreensNext, Frame, screensVars

\* A step is one of the part that is at work; to the modules of the others it is none.
LEMMA StepOfItsModule ==
  ASSUME [ScreensNext]_screensVars
  PROVE  /\ [Next]_vars /\ [ListNext]_listVars
         /\ CASE part = "slow" -> [Slow!CheckNext]_checkVars
              [] part = "tested" -> [Tested!CheckNext]_checkVars
              [] OTHER -> [CheckNext]_checkVars
         /\ [Saved!Next]_verificationVars
         /\ IF part = "mock" THEN [OnMock!Next]_proximityVars
                             ELSE [OverBle!Next]_proximityVars
         /\ CASE part = "long" -> [Long!Next]_statusVars
              [] part = "purposes" -> [Purposes!Next]_statusVars
              [] part = "odd" -> [Odd!Next]_statusVars
              [] OTHER -> [Overlap!Next]_statusVars
<1> USE DEF Liveness, Proximity, StatusLists
<1>1. CASE UNCHANGED screensVars
  BY <1>1 DEF screensVars, qrVars
<1>2. CASE Frame("qr") /\ Next
  BY <1>2 DEF Frame
<1>3. CASE Frame("liveness") /\ CheckNext
  BY <1>3 DEF Frame, qrVars
<1>4. CASE Frame("slow") /\ Slow!CheckNext
  BY <1>4 DEF Frame, qrVars
<1>5. CASE Frame("tested") /\ Tested!CheckNext
  BY <1>5 DEF Frame, qrVars
<1>6. CASE Frame("list") /\ ListNext
  BY <1>6 DEF Frame, qrVars
<1>7. CASE Frame("verification") /\ Saved!Next
  BY <1>7 DEF Frame, qrVars
<1>8. CASE Frame("mock") /\ OnMock!Next
  BY <1>8 DEF Frame, qrVars
<1>9. CASE Frame("ble") /\ OverBle!Next
  BY <1>9 DEF Frame, qrVars
<1>10. CASE Frame("overlap") /\ Overlap!Next
  BY <1>10 DEF Frame, qrVars
<1>11. CASE Frame("long") /\ Long!Next
  BY <1>11 DEF Frame, qrVars
<1>12. CASE Frame("purposes") /\ Purposes!Next
  BY <1>12 DEF Frame, qrVars
<1>13. CASE Frame("odd") /\ Odd!Next
  BY <1>13 DEF Frame, qrVars
<1> QED
  BY <1>1, <1>2, <1>3, <1>4, <1>5, <1>6, <1>7, <1>8, <1>9, <1>10, <1>11, <1>12, <1>13
     DEF ScreensNext

LEMMA InitOfItsModule ==
  ASSUME ScreensInit
  PROVE  /\ Init /\ ListInit
         /\ CASE part = "slow" -> Slow!CheckInit
              [] part = "tested" -> Tested!CheckInit
              [] OTHER -> CheckInit
         /\ Saved!Init /\ OnMock!Init /\ OverBle!Init
         /\ CASE part = "long" -> Long!Init
              [] part = "purposes" -> Purposes!Init
              [] part = "odd" -> Odd!Init
              [] OTHER -> Overlap!Init
<1>1. CheckInit <=> Slow!CheckInit
  BY DEF CheckInit, Slow!CheckInit
<1>2. OnMock!Init => OverBle!Init
  BY DEF OnMock!Init, OverBle!Init, OnMock!Nobody, OverBle!Nobody
<1> QED BY <1>1, <1>2 DEF ScreensInit

-----------------------------------------------------------------------------
\* The liveness check: with the factory of the app, with a slow one, with a mock.

LEMMA PromptLiveness ==
  part \notin {"slow", "tested"} /\ ScreensSpec =>
    []((part \notin {"slow", "tested"}) /\ CheckTypeOK /\ SeenAfterAsked /\ GestureWasMade)
    /\ ReviewedIsVerified
<1> DEFINE Here == part \notin {"slow", "tested"}
<1>1. Here /\ ScreensInit => Prompt!CheckInit
  BY InitOfItsModule, SamePromptCheck
<1>2. Here /\ [ScreensNext]_screensVars => Here' /\ [Prompt!CheckNext]_(Prompt!checkVars)
  BY PartStays, StepOfItsModule, SamePromptCheck
<1>3. Prompt!CheckTypeOK => CheckTypeOK
  BY DEF Prompt!CheckTypeOK, Prompt!Content, Prompt!Cardinality, CheckTypeOK, Content, Cardinality
<1>4. Prompt!SeenAfterAsked /\ Prompt!GestureWasMade => SeenAfterAsked /\ GestureWasMade
  BY DEF Prompt!SeenAfterAsked, Prompt!GestureWasMade, SeenAfterAsked, GestureWasMade
<1>5. Prompt!ReviewedIsVerified => ReviewedIsVerified
  BY PTL DEF Prompt!ReviewedIsVerified, Prompt!verify_liveness_challenge, Prompt!checkVars,
     ReviewedIsVerified, verify_liveness_challenge, checkVars
<1>6. Prompt!CheckInit /\ [][Prompt!CheckNext]_(Prompt!checkVars) =>
        [](/\ Prompt!CheckTypeOK /\ Prompt!SeenAfterAsked /\ Prompt!GestureWasMade)
        /\ Prompt!ReviewedIsVerified
  BY Prompt!CheckSafe, ErrorIsNoVerdict, LimitsAreNat, TimesArePositive, GesturesAreListed,
     SwitchesAreBoolean, NoneIsNoChallenge, PTL
<1> QED BY <1>1, <1>2, <1>3, <1>4, <1>5, <1>6, PTL DEF ScreensSpec

LEMMA SlowLiveness ==
  part = "slow" /\ ScreensSpec =>
    []((part = "slow") /\ CheckTypeOK /\ SeenAfterAsked /\ GestureWasMade)
    /\ ReviewedIsVerified
<1> DEFINE Here == part = "slow"
<1>1. Here /\ ScreensInit => Slowly!CheckInit
  BY InitOfItsModule, SameSlowCheck
<1>2. Here /\ [ScreensNext]_screensVars => Here' /\ [Slowly!CheckNext]_(Slowly!checkVars)
  BY PartStays, StepOfItsModule, SameSlowCheck
<1>3. Slowly!CheckTypeOK => CheckTypeOK
  BY DEF Slowly!CheckTypeOK, Slowly!Content, Slowly!Cardinality, CheckTypeOK, Content, Cardinality
<1>4. Slowly!SeenAfterAsked /\ Slowly!GestureWasMade => SeenAfterAsked /\ GestureWasMade
  BY DEF Slowly!SeenAfterAsked, Slowly!GestureWasMade, SeenAfterAsked, GestureWasMade
<1>5. Slowly!ReviewedIsVerified => ReviewedIsVerified
  BY PTL DEF Slowly!ReviewedIsVerified, Slowly!verify_liveness_challenge, Slowly!checkVars,
     ReviewedIsVerified, verify_liveness_challenge, checkVars
<1>6. TRUE \in BOOLEAN /\ Mocked \in BOOLEAN
  BY SwitchesAreBoolean
<1>7. Slowly!CheckInit /\ [][Slowly!CheckNext]_(Slowly!checkVars) =>
        [](/\ Slowly!CheckTypeOK /\ Slowly!SeenAfterAsked /\ Slowly!GestureWasMade)
        /\ Slowly!ReviewedIsVerified
  BY <1>6, Slowly!CheckSafe, ErrorIsNoVerdict, LimitsAreNat, TimesArePositive, GesturesAreListed,
     NoneIsNoChallenge, PTL
<1> QED BY <1>1, <1>2, <1>3, <1>4, <1>5, <1>7, PTL DEF ScreensSpec

LEMMA TestedLiveness ==
  part = "tested" /\ ScreensSpec =>
    []((part = "tested") /\ Tested!CheckTypeOK /\ SeenAfterAsked /\ GestureWasMade)
    /\ ReviewedIsVerified
<1> DEFINE Here == part = "tested"
<1>1. Here /\ ScreensInit => Testing!CheckInit
  BY InitOfItsModule, SameTestedCheck
<1>2. Here /\ [ScreensNext]_screensVars => Here' /\ [Testing!CheckNext]_(Testing!checkVars)
  BY PartStays, StepOfItsModule, SameTestedCheck
<1>3. Testing!CheckTypeOK => Tested!CheckTypeOK
  BY DEF Testing!CheckTypeOK, Testing!Content, Testing!Cardinality, Tested!CheckTypeOK,
     Tested!Content, Tested!Cardinality
<1>4. Testing!SeenAfterAsked /\ Testing!GestureWasMade => SeenAfterAsked /\ GestureWasMade
  BY DEF Testing!SeenAfterAsked, Testing!GestureWasMade, SeenAfterAsked, GestureWasMade
<1>5. Testing!ReviewedIsVerified => ReviewedIsVerified
  BY PTL DEF Testing!ReviewedIsVerified, Testing!verify_liveness_challenge, Testing!checkVars,
     ReviewedIsVerified, verify_liveness_challenge, checkVars
<1>6. TRUE \in BOOLEAN /\ TRUE \in BOOLEAN
  BY SwitchesAreBoolean
<1>7. Testing!CheckInit /\ [][Testing!CheckNext]_(Testing!checkVars) =>
        [](/\ Testing!CheckTypeOK /\ Testing!SeenAfterAsked /\ Testing!GestureWasMade)
        /\ Testing!ReviewedIsVerified
  BY <1>6, Testing!CheckSafe, ErrorIsNoVerdict, LimitsAreNat, TimesArePositive, GesturesAreListed,
     NoneIsNoChallenge, PTL
<1> QED BY <1>1, <1>2, <1>3, <1>4, <1>5, <1>7, PTL DEF ScreensSpec

LEMMA LivenessHolds ==
  ScreensSpec =>
    [](/\ SeenAfterAsked /\ GestureWasMade
       /\ IF part = "tested" THEN Tested!CheckTypeOK ELSE CheckTypeOK)
    /\ ReviewedIsVerified
<1>1. part \notin {"slow", "tested"} \/ part = "slow" \/ part = "tested"
  OBVIOUS
<1>2. part \notin {"slow", "tested"} /\ CheckTypeOK =>
        IF part = "tested" THEN Tested!CheckTypeOK ELSE CheckTypeOK
  OBVIOUS
<1>3. part = "slow" /\ CheckTypeOK =>
        IF part = "tested" THEN Tested!CheckTypeOK ELSE CheckTypeOK
  OBVIOUS
<1>4. part = "tested" /\ Tested!CheckTypeOK =>
        IF part = "tested" THEN Tested!CheckTypeOK ELSE CheckTypeOK
  OBVIOUS
<1> QED
  BY <1>1, <1>2, <1>3, <1>4, PromptLiveness, SlowLiveness, TestedLiveness, PTL

-----------------------------------------------------------------------------
\* The status of the verification.

LEMMA VerificationHolds ==
  ScreensSpec =>
    /\ [](Saved!TypeOK /\ Saved!PendingMeansRequested /\ Saved!ShownIsStored)
    /\ Saved!SuccessIsStored
<1>1. ScreensInit => Prompt!Init
  BY InitOfItsModule, SameSaved
<1>2. [ScreensNext]_screensVars => [Prompt!Next]_(Prompt!vars)
  BY StepOfItsModule, SameSaved
<1>3. Prompt!TypeOK => Saved!TypeOK
  BY DEF Prompt!TypeOK, Prompt!Statuses, Prompt!Stored, Prompt!Calls, Prompt!Load, Prompt!Set,
     Prompt!Cancelled, Prompt!Submit, Saved!TypeOK, Saved!Statuses, Saved!Stored, Saved!Calls,
     Saved!Load, Saved!Set, Saved!Cancelled, Saved!Submit
<1>4. Prompt!PendingMeansRequested => Saved!PendingMeansRequested
  BY DEF Prompt!PendingMeansRequested, Saved!PendingMeansRequested
<1>5. Prompt!ShownIsStored => Saved!ShownIsStored
  BY DEF Prompt!ShownIsStored, Prompt!Quiet, Prompt!Parse, Saved!ShownIsStored, Saved!Quiet,
     Saved!Parse
<1>6. Prompt!SuccessIsStored => Saved!SuccessIsStored
  BY PTL DEF Prompt!SuccessIsStored, Prompt!Submit, Prompt!vars, Saved!SuccessIsStored,
     Saved!Submit, Saved!vars
<1>7. Prompt!ConstantsFit
  BY ConstantsOfParts DEF Saved!ConstantsFit, Prompt!ConstantsFit
<1>8. Prompt!Init /\ [][Prompt!Next]_(Prompt!vars) =>
        [](Prompt!TypeOK /\ Prompt!PendingMeansRequested /\ Prompt!ShownIsStored)
        /\ Prompt!SuccessIsStored
  BY <1>7, Prompt!StatusSafe, ErrorIsNoVerdict, LimitsAreNat, TimesArePositive,
     GesturesAreListed, SwitchesAreBoolean, NoneIsNoChallenge, PTL
<1> QED BY <1>1, <1>2, <1>3, <1>4, <1>5, <1>6, <1>8, PTL DEF ScreensSpec

-----------------------------------------------------------------------------
\* The presentation in proximity, on the mock and over BLE.

LEMMA MockProximity ==
  part = "mock" /\ ScreensSpec =>
    []((part = "mock") /\ OverBle!TypeOK /\ OverBle!ListensAsAsked /\ OverBle!OneSubscription)
<1> DEFINE Here == part = "mock"
<1>1. Here /\ ScreensInit => Prompt!Near!Init
  BY InitOfItsModule, SameOnMock
<1>2. Here /\ [ScreensNext]_screensVars => Here' /\ [Prompt!Near!Next]_(Prompt!Near!vars)
  BY PartStays, StepOfItsModule, SameOnMock
<1>3. Prompt!Near!TypeOK => OverBle!TypeOK
  BY DEF Prompt!Near!TypeOK, Prompt!Near!MaybePresentation, Prompt!Near!Presentation,
     Prompt!Near!Nobody, OverBle!TypeOK, OverBle!MaybePresentation, OverBle!Presentation,
     OverBle!Nobody
<1>4. Prompt!Near!ListensAsAsked /\ Prompt!Near!OneSubscription =>
        OverBle!ListensAsAsked /\ OverBle!OneSubscription
  BY DEF Prompt!Near!ListensAsAsked, Prompt!Near!OneSubscription,
     OverBle!ListensAsAsked, OverBle!OneSubscription
<1>5. Prompt!Near!ConstantsFit
  BY ConstantsOfParts DEF OnMock!ConstantsFit, Prompt!Near!ConstantsFit
<1>6. Prompt!Near!Init /\ [][Prompt!Near!Next]_(Prompt!Near!vars) =>
        [](/\ Prompt!Near!TypeOK /\ Prompt!Near!ListensAsAsked
           /\ Prompt!Near!OneSubscription)
  BY <1>5, Prompt!NearSafe, ErrorIsNoVerdict, LimitsAreNat, TimesArePositive,
     GesturesAreListed, SwitchesAreBoolean, NoneIsNoChallenge, PTL
<1> QED BY <1>1, <1>2, <1>3, <1>4, <1>6, PTL DEF ScreensSpec

LEMMA BleProximity ==
  part # "mock" /\ ScreensSpec =>
    []((part # "mock") /\ OverBle!TypeOK /\ OverBle!ListensAsAsked /\ OverBle!OneSubscription)
<1> DEFINE Here == part # "mock"
<1>1. Here /\ ScreensInit => Slowly!Near!Init
  BY InitOfItsModule, SameOverBle
<1>2. Here /\ [ScreensNext]_screensVars => Here' /\ [Slowly!Near!Next]_(Slowly!Near!vars)
  BY PartStays, StepOfItsModule, SameOverBle
<1>3. Slowly!Near!TypeOK => OverBle!TypeOK
  BY DEF Slowly!Near!TypeOK, Slowly!Near!MaybePresentation, Slowly!Near!Presentation,
     Slowly!Near!Nobody, OverBle!TypeOK, OverBle!MaybePresentation, OverBle!Presentation,
     OverBle!Nobody
<1>4. Slowly!Near!ListensAsAsked /\ Slowly!Near!OneSubscription =>
        OverBle!ListensAsAsked /\ OverBle!OneSubscription
  BY DEF Slowly!Near!ListensAsAsked, Slowly!Near!OneSubscription,
     OverBle!ListensAsAsked, OverBle!OneSubscription
<1>5. Slowly!Near!ConstantsFit /\ TRUE \in BOOLEAN /\ Mocked \in BOOLEAN
  BY ConstantsOfParts, SwitchesAreBoolean DEF OverBle!ConstantsFit, Slowly!Near!ConstantsFit
<1>6. Slowly!Near!Init /\ [][Slowly!Near!Next]_(Slowly!Near!vars) =>
        [](/\ Slowly!Near!TypeOK /\ Slowly!Near!ListensAsAsked
           /\ Slowly!Near!OneSubscription)
  BY <1>5, Slowly!NearSafe, ErrorIsNoVerdict, LimitsAreNat, TimesArePositive,
     GesturesAreListed, NoneIsNoChallenge, PTL
<1> QED BY <1>1, <1>2, <1>3, <1>4, <1>6, PTL DEF ScreensSpec

LEMMA ProximityHolds ==
  ScreensSpec => [](OverBle!TypeOK /\ OverBle!ListensAsAsked /\ OverBle!OneSubscription)
<1>1. part = "mock" \/ part # "mock"
  OBVIOUS
<1> QED BY <1>1, MockProximity, BleProximity, PTL

-----------------------------------------------------------------------------
\* The status lists: two checks that overlap, one for longer, one of a credential with
\* entries of each purpose, and one with a malformed entry or none.

LEMMA OverlapStatus ==
  part \notin {"long", "purposes", "odd"} /\ ScreensSpec =>
    []((part \notin {"long", "purposes", "odd"}) /\ Overlap!TypeOK /\ Overlap!SettledListIsReported)
<1> DEFINE Here == part \notin {"long", "purposes", "odd"}
<1>1. Here /\ ScreensInit => OverlapLists!Init
  BY InitOfItsModule, SameOverlap
<1>2. Here /\ [ScreensNext]_screensVars => Here' /\ [OverlapLists!Next]_(OverlapLists!vars)
  BY PartStays, StepOfItsModule, SameOverlap
<1>3. OverlapLists!TypeOK => Overlap!TypeOK
  BY DEF OverlapLists!TypeOK, OverlapLists!Lists, OverlapLists!Answer, Overlap!TypeOK,
     Overlap!Lists, Overlap!Answer
<1>4. OverlapLists!SettledListIsReported => Overlap!SettledListIsReported
  BY DEF OverlapLists!SettledListIsReported, OverlapLists!Agrees, OverlapLists!Reported,
     OverlapLists!Decision, OverlapLists!LastOfPurpose, OverlapLists!Entries,
     Overlap!SettledListIsReported, Overlap!Agrees, Overlap!Reported, Overlap!Decision,
     Overlap!LastOfPurpose, Overlap!Entries
<1>5. OverlapLists!Fitting
  BY ConstantsOfParts DEF OverlapLists!Fitting, OverlapLists!TimesAreNat,
     OverlapLists!StatusesAreLists, OverlapLists!BitsAreBoolean, Overlap!TimesAreNat,
     Overlap!StatusesAreLists, Overlap!BitsAreBoolean
<1>6. OverlapLists!Init /\ [][OverlapLists!Next]_(OverlapLists!vars) =>
        [](/\ OverlapLists!TypeOK /\ OverlapLists!SettledListIsReported
           /\ OverlapLists!ShownForTwoLivesAtMost)
  BY <1>5, OverlapLists!ListsSafe, PTL
<1> QED BY <1>1, <1>2, <1>3, <1>4, <1>6, PTL DEF ScreensSpec

LEMMA LongStatus ==
  part = "long" /\ ScreensSpec =>
    []((part = "long") /\ Long!TypeOK /\ Long!SettledListIsReported /\ Long!ShownForTwoLivesAtMost)
<1> DEFINE Here == part = "long"
<1>1. Here /\ ScreensInit => LongLists!Init
  BY InitOfItsModule, SameLong
<1>2. Here /\ [ScreensNext]_screensVars => Here' /\ [LongLists!Next]_(LongLists!vars)
  BY PartStays, StepOfItsModule, SameLong
<1>3. LongLists!TypeOK => Long!TypeOK
  BY DEF LongLists!TypeOK, LongLists!Lists, LongLists!Answer, Long!TypeOK, Long!Lists, Long!Answer
<1>4. LongLists!SettledListIsReported /\ LongLists!ShownForTwoLivesAtMost =>
        Long!SettledListIsReported /\ Long!ShownForTwoLivesAtMost
  BY DEF LongLists!SettledListIsReported, LongLists!ShownForTwoLivesAtMost, LongLists!Agrees,
     LongLists!Reported, LongLists!Decision, LongLists!LastOfPurpose, LongLists!Entries,
     LongLists!Current, Long!SettledListIsReported, Long!ShownForTwoLivesAtMost, Long!Agrees,
     Long!Reported, Long!Decision, Long!LastOfPurpose, Long!Entries, Long!Current
<1>5. LongLists!Fitting
  BY ConstantsOfParts DEF LongLists!Fitting, LongLists!TimesAreNat,
     LongLists!StatusesAreLists, LongLists!BitsAreBoolean, Long!TimesAreNat,
     Long!StatusesAreLists, Long!BitsAreBoolean
<1>6. LongLists!Init /\ [][LongLists!Next]_(LongLists!vars) =>
        [](/\ LongLists!TypeOK /\ LongLists!SettledListIsReported
           /\ LongLists!ShownForTwoLivesAtMost)
  BY <1>5, LongLists!ListsSafe, PTL
<1> QED BY <1>1, <1>2, <1>3, <1>4, <1>6, PTL DEF ScreensSpec

LEMMA PurposesStatus ==
  part = "purposes" /\ ScreensSpec =>
    []((part = "purposes") /\ Purposes!TypeOK /\ Purposes!SettledListIsReported)
<1> DEFINE Here == part = "purposes"
<1>1. Here /\ ScreensInit => PurposesLists!Init
  BY InitOfItsModule, SamePurposes
<1>2. Here /\ [ScreensNext]_screensVars => Here' /\ [PurposesLists!Next]_(PurposesLists!vars)
  BY PartStays, StepOfItsModule, SamePurposes
<1>3. PurposesLists!TypeOK => Purposes!TypeOK
  BY DEF PurposesLists!TypeOK, PurposesLists!Lists, PurposesLists!Answer, Purposes!TypeOK,
     Purposes!Lists, Purposes!Answer
<1>4. PurposesLists!SettledListIsReported => Purposes!SettledListIsReported
  BY DEF PurposesLists!SettledListIsReported, PurposesLists!Agrees, PurposesLists!Reported,
     PurposesLists!Decision, PurposesLists!LastOfPurpose, PurposesLists!Entries,
     Purposes!SettledListIsReported, Purposes!Agrees, Purposes!Reported, Purposes!Decision,
     Purposes!LastOfPurpose, Purposes!Entries
<1>5. PurposesLists!Fitting
  BY ConstantsOfParts DEF PurposesLists!Fitting, PurposesLists!TimesAreNat,
     PurposesLists!StatusesAreLists, PurposesLists!BitsAreBoolean, Purposes!TimesAreNat,
     Purposes!StatusesAreLists, Purposes!BitsAreBoolean
<1>6. PurposesLists!Init /\ [][PurposesLists!Next]_(PurposesLists!vars) =>
        [](/\ PurposesLists!TypeOK /\ PurposesLists!SettledListIsReported
           /\ PurposesLists!ShownForTwoLivesAtMost)
  BY <1>5, PurposesLists!ListsSafe, PTL
<1> QED BY <1>1, <1>2, <1>3, <1>4, <1>6, PTL DEF ScreensSpec

LEMMA OddStatus ==
  part = "odd" /\ ScreensSpec =>
    []((part = "odd") /\ Odd!TypeOK)
<1> DEFINE Here == part = "odd"
<1>1. Here /\ ScreensInit => OddLists!Init
  BY InitOfItsModule, SameOdd
<1>2. Here /\ [ScreensNext]_screensVars => Here' /\ [OddLists!Next]_(OddLists!vars)
  BY PartStays, StepOfItsModule, SameOdd
<1>3. OddLists!TypeOK => Odd!TypeOK
  BY DEF OddLists!TypeOK, OddLists!Lists, OddLists!Answer, Odd!TypeOK, Odd!Lists, Odd!Answer
<1>5. OddLists!Fitting
  BY ConstantsOfParts DEF OddLists!Fitting, OddLists!TimesAreNat,
     OddLists!StatusesAreLists, OddLists!BitsAreBoolean, Odd!TimesAreNat,
     Odd!StatusesAreLists, Odd!BitsAreBoolean
<1>6. OddLists!Init /\ [][OddLists!Next]_(OddLists!vars) =>
        [](/\ OddLists!TypeOK /\ OddLists!SettledListIsReported
           /\ OddLists!ShownForTwoLivesAtMost)
  BY <1>5, OddLists!ListsSafe, PTL
<1> QED BY <1>1, <1>2, <1>3, <1>6, PTL DEF ScreensSpec

StatusListsTyped ==
  /\ part = "overlap" => Overlap!TypeOK
  /\ part = "long" => Long!TypeOK
  /\ part = "purposes" => Purposes!TypeOK
  /\ part = "odd" => Odd!TypeOK

LEMMA StatusListsHold == ScreensSpec => [](SettledListIsReported /\ StatusListsTyped)
<1>1. \/ part = "long" \/ part = "purposes" \/ part = "odd"
      \/ part \notin {"long", "purposes", "odd"}
  OBVIOUS
<1>2. part \notin {"long", "purposes", "odd"} /\ Overlap!TypeOK /\ Overlap!SettledListIsReported =>
        SettledListIsReported /\ StatusListsTyped
  BY DEF SettledListIsReported, StatusListsTyped
<1>3. part = "long" /\ Long!TypeOK /\ Long!SettledListIsReported /\ Long!ShownForTwoLivesAtMost =>
        SettledListIsReported /\ StatusListsTyped
  BY DEF SettledListIsReported, StatusListsTyped
<1>4. part = "purposes" /\ Purposes!TypeOK /\ Purposes!SettledListIsReported =>
        SettledListIsReported /\ StatusListsTyped
  BY DEF SettledListIsReported, StatusListsTyped
<1>5. part = "odd" /\ Odd!TypeOK => SettledListIsReported /\ StatusListsTyped
  BY DEF SettledListIsReported, StatusListsTyped
<1> QED
  BY <1>1, <1>2, <1>3, <1>4, <1>5, OverlapStatus, LongStatus, PurposesStatus, OddStatus, PTL

-----------------------------------------------------------------------------
\* The scanner and the list of credentials, which the composition has once.

LEMMA ScannerHolds ==
  ScreensSpec => [](TypeOK /\ OneScanAtATime /\ OnlyValidatedIsShown)
<1>1. ScreensInit => Init
  BY InitOfItsModule
<1>2. [ScreensNext]_screensVars => [Next]_vars
  BY StepOfItsModule
<1> QED BY <1>1, <1>2, QrSafe, PTL DEF ScreensSpec

LEMMA ListHolds ==
  ScreensSpec => [](ListTypeOK /\ UnhandledIsNotStored) /\ OfferedIsListed
<1>1. ScreensInit => ListInit
  BY InitOfItsModule
<1>2. [ScreensNext]_screensVars => [ListNext]_listVars
  BY StepOfItsModule
<1> QED BY <1>1, <1>2, ListSafe, PTL DEF ScreensSpec

-----------------------------------------------------------------------------
(***************************************************************************)
(* What the screens promise together.                                      *)
(***************************************************************************)

\* Whatever screen is at work, in every state it reaches its values have their types.
THEOREM ScreensTypeCorrect == ScreensSpec => []WellTyped
<1>1. TypeOK /\ ListTypeOK /\ Saved!TypeOK /\ OverBle!TypeOK /\ StatusListsTyped
        /\ (IF part = "tested" THEN Tested!CheckTypeOK ELSE CheckTypeOK) => WellTyped
  BY DEF WellTyped, StatusListsTyped, Proximity
<1> QED
  BY <1>1, ScannerHolds, ListHolds, LivenessHolds, VerificationHolds, ProximityHolds,
     StatusListsHold, PTL

\* While the camera, the preview and the platform call the widget at will, one call of
\* handleScanResult at most is at work.
THEOREM ScreensScanOnce == ScreensSpec => []OneScanAtATime
BY ScannerHolds, PTL

\* In each configuration of the liveness check a frame counts for the gesture the view
\* asked for when the frame was taken, also when a detector is slow.
THEOREM ScreensSeeAfterAsking == ScreensSpec => []SeenAfterAsked
BY LivenessHolds, PTL

\* What is shown was validated by Rust, each recognised gesture was in its frame, pending
\* was requested, and an offer that was refused left nothing in the wallet.
THEOREM ScreensCountVerified == ScreensSpec => []OnlyVerifiedCounts
<1>1. OnlyValidatedIsShown /\ GestureWasMade /\ Saved!PendingMeansRequested
        /\ UnhandledIsNotStored => OnlyVerifiedCounts
  BY DEF OnlyVerifiedCounts
<1> QED BY <1>1, ScannerHolds, LivenessHolds, VerificationHolds, ListHolds, PTL

\* On the mock and over BLE, whose stops may fail: what is advertised in the end is listened
\* to by the last presentation alone, unless it was started during the await of a stop.
THEOREM ScreensListenAsAsked == ScreensSpec => []ListensAsAsked
<1>1. OverBle!ListensAsAsked /\ OverBle!OneSubscription => ListensAsAsked
  BY DEF ListensAsAsked
<1> QED BY <1>1, ProximityHolds, PTL

\* A check that overlaps with another, with a changing list or with a failing fetch
\* reports a list that has settled.
THEOREM ScreensReportSettled == ScreensSpec => []SettledListIsReported
BY StatusListsHold, PTL

\* No configuration of the liveness check opens the review without a verdict of Rust.
THEOREM ScreensReviewVerified == ScreensSpec => ReviewedIsVerified
BY LivenessHolds, PTL

\* An offer that is reported as handled is in the list, or the wallet was not readable.
THEOREM ScreensListOffered == ScreensSpec => OfferedIsListed
BY ListHolds, PTL

\* Whatever calls, failing writes and restarts there were: the status set last is the
\* stored one if its write did not fail, and the one shown if it was set after the load,
\* and success is announced only when it is stored.
THEOREM ScreensShowStored == ScreensSpec => SavedAsShown
BY VerificationHolds, PTL DEF SavedAsShown
================================================================================
