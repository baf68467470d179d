------------------------- MODULE PresentationProofs -------------------------
(***************************************************************************)
(* Theorems about the presentation of credentials: the session map of the   *)
(* native half, and the flow of the application over it.                   *)
(***************************************************************************)
EXTENDS PresentationFlow, TLAPS

-----------------------------------------------------------------------------
(***************************************************************************)
(* Theorems about PresentationSessions for any number of calls and any     *)
(* request fields.                                                         *)
(*                                                                         *)
(* What makes a session single-use is where its request is: in the map, in *)
(* the hands of one completing call, or spent.  The inductive invariant    *)
(* says that these exclude each other, and that the request a call holds   *)
(* is the one its session's first call stored.                             *)
(***************************************************************************)
Offered(s) == reply[s] \in {"select", "empty"}

\* A session in the map was stored by its own first call, and has its kind.
Stored ==
  \A s \in Call : pendingRequests[s] # "absent" =>
    /\ at[s] \in {"matching", "returned"}
    /\ method[s] = pendingRequests[s]

\* A session whose id was returned is that of a call which is over.
OfferedIsOver == \A s \in Call : Offered(s) => at[s] = "returned"

\* A completing call names a returned session, or none.
Named ==
  \A c \in Call : at[c] = "removing" => session[c] = c \/ Offered(session[c])

\* A call that has taken a request holds it alone.
Taken ==
  \A c \in Call : at[c] = "answering" =>
    /\ pendingRequests[session[c]] = "absent"
    /\ Offered(session[c])
    /\ method[session[c]] = method[c]
    /\ \A d \in Call : at[d] = "answering" /\ d # c => session[d] # session[c]

\* A session that was answered is neither in the map nor in a call's hands.
Spent ==
  \A x \in sent :
    /\ pendingRequests[x.session] = "absent"
    /\ Offered(x.session)
    /\ method[x.session] = x.kind
    /\ \A c \in Call : at[c] = "answering" => session[c] # x.session

SessionInv ==
  /\ SessionTypeOK
  /\ Stored
  /\ OfferedIsOver
  /\ Named
  /\ Taken
  /\ Spent
  /\ AnsweredOnce

-----------------------------------------------------------------------------
\* What a completion gives to the SDK are fields of the request or keys of the
\* consent view, whatever was selected (completeVpRequest and completeMdocResponse).
LEMMA ApprovedAreFields ==
  ASSUME NEW kind \in Kind, NEW selected \in Selection
  PROVE  ApprovedFields(kind, selected) \in SUBSET (Field \cup Keys)
BY RequiredAreFields DEF ApprovedFields, Selection

\* The handler starts with an empty map and no call.
LEMMA InitEstablishes == SessionInit => SessionInv
BY DEF SessionInit, SessionInv, SessionTypeOK, Selection, Kind, Stored,
       OfferedIsOver, Named, Taken, Spent, AnsweredOnce, Offered

\* Every step of Dart's calls and of their coroutines keeps the invariant.
LEMMA NextPreserves == SessionInv /\ [SessionNext]_sessionVars => SessionInv'
<1> SUFFICES ASSUME SessionInv, [SessionNext]_sessionVars PROVE SessionInv'
  OBVIOUS
<1> USE DEF SessionInv, Stored, OfferedIsOver, Named, Taken, Spent, AnsweredOnce,
            Offered, SessionTypeOK, Kind
<1>0. \A x \in sent : x.session \in Call
  BY DEF Answer
<1>1. ASSUME NEW c \in Call, NEW kind \in Kind, Initiate(c, kind) PROVE SessionInv'
  BY <1>0, <1>1, SMTT(30) DEF Initiate
<1>2. ASSUME NEW c \in Call, NEW kind \in Kind, NEW s \in KnownSession(c),
             NEW selected \in Selection, Complete(c, kind, s, selected)
      PROVE  SessionInv'
  BY <1>0, <1>2, SMTT(30) DEF Complete, KnownSession
<1>3. ASSUME NEW c \in Call, ParseFails(c) PROVE SessionInv'
  BY <1>0, <1>3, SMTT(30) DEF ParseFails, Return
<1>4. ASSUME NEW c \in Call, StoreRequest(c) PROVE SessionInv'
  BY <1>0, <1>4, SMTT(30) DEF StoreRequest, Advance
<1>5. ASSUME NEW c \in Call, MatchingFails(c) PROVE SessionInv'
  BY <1>0, <1>5, SMTT(30) DEF MatchingFails, Return
<1>6. ASSUME NEW c \in Call, ReturnMatches(c) PROVE SessionInv'
  BY <1>0, <1>6, SMTT(30) DEF ReturnMatches, Return
<1>7. ASSUME NEW c \in Call, RemoveSession(c) PROVE SessionInv'
  BY <1>0, <1>7, SMTT(30) DEF RemoveSession, Advance, Return
<1>8. ASSUME NEW c \in Call, AnswerFails(c) PROVE SessionInv'
  BY <1>0, <1>8, SMTT(30) DEF AnswerFails, Return
<1>9. ASSUME NEW c \in Call, AnswerVerifier(c) PROVE SessionInv'
  <2>1. AnswerOf(c) \in Answer
    BY ApprovedAreFields DEF AnswerOf, Answer
  <2>2. /\ AnswerOf(c).session = session[c]
        /\ AnswerOf(c).kind = method[c]
    BY DEF AnswerOf
  <2> QED
    BY <1>0, <1>9, <2>1, <2>2, SMTT(30) DEF AnswerVerifier, Return
<1>10. CASE UNCHANGED sessionVars
  BY <1>10 DEF sessionVars, callVars
<1> QED
  BY <1>1, <1>2, <1>3, <1>4, <1>5, <1>6, <1>7, <1>8, <1>9, <1>10
     DEF SessionNext, CallStep

THEOREM SessionInvariant == SessionSpec => []SessionInv
<1> QED
  BY InitEstablishes, NextPreserves, PTL DEF SessionSpec

\* The session map, the calls and the history keep their types.
THEOREM SessionTypeCorrect == SessionSpec => []SessionTypeOK
BY SessionInvariant, PTL DEF SessionInv

\* However completions race, repeat and fail, no session is answered twice.
THEOREM SessionsAreSingleUse == SessionSpec => []AnsweredOnce
BY SessionInvariant, PTL DEF SessionInv

\* No request is answered by the method of the other kind.
THEOREM AnswersMatchRequests == SessionSpec => []AnsweredAsRequested
<1>1. SessionInv => AnsweredAsRequested
  BY DEF SessionInv, Spent, Offered, AnsweredAsRequested
<1> QED
  BY SessionInvariant, <1>1, PTL

\* A session that left the map never comes back.
THEOREM TakenForGood == SessionSpec => OverOnceTaken
<1>1. SessionInv /\ [SessionNext]_sessionVars
        => [\A s \in Call :
              /\ pendingRequests[s] = "absent"
              /\ at[s] \notin {"idle", "parsing"}
              => pendingRequests'[s] = "absent"]_sessionVars
  BY DEF SessionInv, SessionTypeOK, SessionNext, CallStep, Initiate, Complete,
         ParseFails, StoreRequest, MatchingFails, ReturnMatches, RemoveSession,
         AnswerFails, AnswerVerifier, sessionVars, callVars
<1> QED
  BY SessionInvariant, <1>1, PTL DEF SessionSpec, OverOnceTaken

-----------------------------------------------------------------------------
(***************************************************************************)
(* Theorems about PresentationFlow for any number of scans, taps, codes,   *)
(* screens and request fields.                                             *)
(*                                                                         *)
(* Three arguments carry them.  One is about the widget: at most one scan  *)
(* of the mounted scanner is between its acceptance and the end of what it *)
(* awaits, _isProcessing says so, and the handling a scan has started      *)
(* itself is open only while the scan awaits it.  One is about the views:  *)
(* they are the handlings that wait for a decision.  The third is about    *)
(* the native calls: where a handling is decides which of its three calls  *)
(* has been made, and a completing call carries that handling's own        *)
(* session and selection.  With this one the flow is a caller that         *)
(* PresentationSessions allows, so its theorems hold of the flow as well.  *)
(***************************************************************************)
Busy(n) == scan[n].at \in {"processing", "previewing", "handling"}
Open(h) == handling[h].at \in {"routing", "initiating", "choosing"}

\* The scanner that is mounted works on one scan at a time, and knows it.
OneAtATime ==
  /\ \A n \in Scan : /\ scan[n].screen <= screen
                     /\ Busy(n) /\ Mounted(n) => isProcessing
  /\ \A m, n \in Scan : Busy(m) /\ Mounted(m) /\ Busy(n) /\ Mounted(n) => m = n

\* What the scans have started.
Started ==
  /\ \A h \in Handling :
       /\ handling[h].at # "unused" => scan[h[1]].at # "idle"
       /\ handling[h].at = "choosing" => Mounted(h[1])
  /\ \A n \in Scan :
       /\ Open(OwnHandling(n)) => scan[n].at = "handling"
       /\ scan[n].at = "previewing" => handling[OwnHandling(n)].at = "unused"
       /\ scan[n].at = "processing" => handling[OwnHandling(n)].at = "unused"

\* What is previewed, and what a slide-in under way will go on with.
Previewed ==
  /\ currentResult # NoScan => scan[currentResult].at # "idle"
  /\ preview = "showing" => /\ currentResult \in Scan
                            /\ scan[currentResult].at = "previewing"
                            /\ Mounted(currentResult)

WidgetInv == OneAtATime /\ Started /\ Previewed

\* Which calls a handling has made, by where it is.
CallsMade ==
  \A h \in Handling :
    /\ at[<<h, "initiate">>] \in {"idle", "parsing", "matching", "returned"}
    /\ at[<<h, "vp">>] \in {"idle", "removing", "answering", "returned"}
    /\ at[<<h, "mdoc">>] \in {"idle", "removing", "answering", "returned"}
    /\ handling[h].at \in {"unused", "routing"} => at[<<h, "initiate">>] = "idle"
    /\ Open(h) \/ handling[h].at = "unused" => at[<<h, "vp">>] = "idle"
    /\ at[<<h, "vp">>] # "idle" => reply[SessionOf(h)] = "select"
    /\ at[<<h, "mdoc">>] # "idle" => handling[h].at \in {"falling_back", "finished"}
    /\ handling[h].at = "falling_back" => at[<<h, "vp">>] = "returned"
    /\ handling[h].at = "finished" => at[<<h, "vp">>] \in {"idle", "returned"}
    /\ handling[h].at \in {"completing", "falling_back"} => handling[h].choice \in SUBSET Keys

\* A completing call carries the session and the selection of its own handling.
CarriesChoice ==
  \A h \in Handling, step \in {"vp", "mdoc"} : at[<<h, step>>] # "idle" =>
    /\ session[<<h, step>>] = SessionOf(h)
    /\ chosen[<<h, step>>] = handling[h].choice
    /\ handling[h].choice \in SUBSET Keys

\* Only a call that is over has an answer, and a success was sent.
Replied ==
  \A c \in Call :
    /\ reply[c] # "none" => at[c] = "returned"
    /\ reply[c] = "success" => \E x \in sent : x.session = session[c]

\* The VP completion takes the request out of the map, whatever its kind.
TakenByCompletion ==
  \A h \in Handling : at[<<h, "vp">>] \in {"answering", "returned"} =>
    pendingRequests[SessionOf(h)] = "absent"

\* The parts of the invariant about the native calls and what they sent.
CallInv ==
  /\ CallsMade /\ CarriesChoice /\ Replied /\ TakenByCompletion
  /\ SentAsApproved /\ SuccessMeansSent

\* SessionInv is the invariant of the native half alone.
FlowInv == TypeOK /\ SessionInv /\ WidgetInv /\ ViewsAreOpen /\ CallInv

-----------------------------------------------------------------------------
\* A handling is a scan and what started it.
LEMMA HandlingsOfScans ==
  /\ \A h \in Handling : /\ h[1] \in Scan /\ h = <<h[1], h[2]>>
                         /\ ~ByTap(h) <=> h = OwnHandling(h[1])
  /\ \A n \in Scan : OwnHandling(n) \in Handling /\ OwnHandling(n)[1] = n /\ ~ByTap(OwnHandling(n))
  /\ \A n \in Scan, tap \in Tap : /\ <<n, tap>> \in Handling /\ <<n, tap>>[1] = n
                                  /\ ByTap(<<n, tap>>)
<1> USE DEF Handling, OwnHandling, ByTap
<1>1. \A h \in Handling : /\ h[1] \in Scan /\ h = <<h[1], h[2]>>
                         /\ ~ByTap(h) <=> h = OwnHandling(h[1])
  BY TapsAreNotAutomatic
<1>2. \A n \in Scan : OwnHandling(n) \in Handling /\ OwnHandling(n)[1] = n /\ ~ByTap(OwnHandling(n))
  BY TapsAreNotAutomatic
<1>3. \A n \in Scan, tap \in Tap : /\ <<n, tap>> \in Handling /\ <<n, tap>>[1] = n
                                  /\ ByTap(<<n, tap>>)
  OBVIOUS
<1> QED BY <1>1, <1>2, <1>3

\* The three calls of a handling are calls, and different ones.
LEMMA CallsOfHandling ==
  ASSUME NEW h \in Handling
  PROVE  /\ SessionOf(h) \in Call /\ SessionOf(h) = <<h, "initiate">>
         /\ <<h, "initiate">> \in Call /\ <<h, "vp">> \in Call /\ <<h, "mdoc">> \in Call
         /\ \A g \in Handling, s, t \in {"initiate", "vp", "mdoc"} :
              <<g, s>> = <<h, t>> <=> g = h /\ s = t
BY CallsAreMadeByHandlings DEF SessionOf

LEMMA CallIsOfHandling ==
  ASSUME NEW c \in Call
  PROVE  \E h \in Handling : c \in {<<h, "initiate">>, <<h, "vp">>, <<h, "mdoc">>}
<1>1. c \in Handling \X {"initiate", "vp", "mdoc"}
  BY CallsAreMadeByHandlings
<1>2. PICK h \in Handling, step \in {"initiate", "vp", "mdoc"} : c = <<h, step>>
  BY <1>1
<1> QED BY <1>2

\* What is given to the SDK is what the selection allows (completeVpRequest and
\* completeMdocResponse).
LEMMA ApprovedIsAllowed ==
  ASSUME NEW kind \in Kind, NEW choice \in SUBSET Keys
  PROVE  Allows(choice, kind, ApprovedFields(kind, choice))
BY NoSelectionIsNull DEF Allows, ApprovedFields, Kind

LEMMA InitFlowInv == Init => FlowInv
<1> SUFFICES ASSUME Init PROVE FlowInv
  OBVIOUS
<1> USE DEF Init, SessionInit
<1>1. SessionTypeOK
  BY DEF SessionTypeOK, Kind, Selection
<1>2. SessionInv
  BY InitEstablishes
<1>3. TypeOK
  <2>1. 0 \in 0 .. MaxScreens /\ 1 \in 1 .. MaxScreens
    BY ScannerIsOpened
  <2>2. [at |-> "idle", code |-> NoCode, screen |-> 0] \in ScanState
    BY <2>1 DEF ScanState
  <2>3. [at |-> "unused", choice |-> NoSelection, shown |-> "none"] \in HandlingState
    BY DEF HandlingState, Selection
  <2>4. <<>> \in Seq(Handling)
    OBVIOUS
  <2> HIDE DEF SessionInit
  <2> QED BY <1>1, <2>1, <2>2, <2>3, <2>4 DEF TypeOK
<1>4. WidgetInv
  <2>1. \A h \in Handling : handling[h].at = "unused" /\ h[1] \in Scan
    BY HandlingsOfScans
  <2>2. \A n \in Scan : OwnHandling(n) \in Handling
    BY HandlingsOfScans
  <2>3. \A n \in Scan : scan[n].at = "idle" /\ scan[n].screen = 0 /\ ~Busy(n)
    BY DEF Busy
  <2> QED BY <2>1, <2>2, <2>3 DEF WidgetInv, OneAtATime, Started, Previewed, Busy, Open, Mounted
<1>5. ViewsAreOpen
  BY DEF ViewsAreOpen
<1>6. CallsMade
  BY CallsOfHandling DEF CallsMade, Open
<1>7. CarriesChoice /\ Replied /\ TakenByCompletion
  BY CallsOfHandling DEF CarriesChoice, Replied, TakenByCompletion
<1>8. SentAsApproved /\ SuccessMeansSent
  BY DEF SentAsApproved, SuccessMeansSent
<1> QED BY <1>1, <1>2, <1>3, <1>4, <1>5, <1>6, <1>7, <1>8 DEF FlowInv, CallInv

-----------------------------------------------------------------------------
\* What a step of one handling does to the widget: nothing, or it lets the scan
\* that awaited its end be over.
LEMMA HandlingKeepsWidget ==
  ASSUME FlowInv, NEW h \in Handling,
         \A g \in Handling \ {h} : handling'[g] = handling[g],
         handling[h].at # "unused", handling'[h].at # "unused",
         handling'[h].at = "choosing" => Mounted(h[1]),
         \/ UNCHANGED widgetVars /\ (Open(h)' => Open(h))
         \/ EndOfHandling(h) /\ Open(h) /\ ~Open(h)'
  PROVE  WidgetInv'
<1> USE DEF WidgetInv, OneAtATime, Started, Previewed, Busy, Open, Mounted
<1>1. /\ scan \in [Scan -> ScanState] /\ h[1] \in Scan /\ WidgetInv
      /\ \A g \in Handling : g[1] \in Scan
      /\ \A n \in Scan : OwnHandling(n) \in Handling /\ OwnHandling(n)[1] = n
  BY HandlingsOfScans DEF FlowInv, TypeOK
<1> HIDE DEF FlowInv
<1>2. CASE UNCHANGED widgetVars /\ (Open(h)' => Open(h))
  <2> USE <1>2 DEF widgetVars, scannerVars, previewVars
  <2>1. OneAtATime' /\ Previewed'
    BY <1>1
  <2>2. Started'
    BY <1>1
  <2> QED BY <2>1, <2>2
<1>3. CASE EndOfHandling(h) /\ Open(h) /\ ~Open(h)'
  <2>1. CASE ByTap(h)
    <3>1. UNCHANGED widgetVars
      BY <1>3, <2>1 DEF EndOfHandling, widgetVars
    <3> QED BY <1>2, <1>3, <3>1
  <2>2. CASE ~ByTap(h)
    <3>1. h = OwnHandling(h[1]) /\ scan[h[1]].at = "handling"
      BY <1>1, <1>3, <2>2, HandlingsOfScans
    <3>2. /\ scan' = [scan EXCEPT ![h[1]].at = "finished"]
          /\ isProcessing' = IF Mounted(h[1]) THEN FALSE ELSE isProcessing
          /\ screen' = screen /\ currentResult' = currentResult /\ preview' = preview
      BY <1>3, <2>2 DEF EndOfHandling, ScanEnds, previewVars
    <3>3. /\ \A n \in Scan \ {h[1]} : scan'[n] = scan[n]
          /\ scan'[h[1]].at = "finished" /\ scan'[h[1]].screen = scan[h[1]].screen
      BY <1>1, <3>2 DEF ScanState
    <3>4. \A n \in Scan : scan'[n].screen = scan[n].screen /\ Mounted(n)' = Mounted(n)
      BY <3>2, <3>3
    <3>5. \A n \in Scan : Busy(n)' => Busy(n) /\ n # h[1]
      BY <3>3
    <3>6. OneAtATime'
      <4>1. ASSUME NEW n \in Scan, Busy(n)', Mounted(n)' PROVE isProcessing'
        <5>1. n # h[1] /\ Busy(n) /\ Mounted(n) /\ isProcessing
          BY <1>1, <3>4, <3>5, <4>1
        <5>2. ~Mounted(h[1])
          BY <1>1, <3>1, <5>1
        <5> QED BY <3>2, <5>1, <5>2
      <4> HIDE DEF Busy, Mounted
      <4> QED BY <1>1, <3>2, <3>4, <3>5, <4>1
    <3>7. Started'
      <4>1. ASSUME NEW g \in Handling
            PROVE  /\ handling'[g].at # "unused" => scan'[g[1]].at # "idle"
                   /\ handling'[g].at = "choosing" => Mounted(g[1])'
        BY <1>1, <3>3, <3>4
      <4>2. ASSUME NEW n \in Scan
            PROVE  /\ Open(OwnHandling(n))' => scan'[n].at = "handling"
                   /\ scan'[n].at = "previewing" => handling'[OwnHandling(n)].at = "unused"
                   /\ scan'[n].at = "processing" => handling'[OwnHandling(n)].at = "unused"
        <5>1. CASE n = h[1]
          BY <1>1, <1>3, <3>1, <3>3, <5>1
        <5>2. CASE n # h[1]
          <6>1. /\ OwnHandling(n) # h
                /\ handling'[OwnHandling(n)] = handling[OwnHandling(n)]
                /\ scan'[n] = scan[n]
            BY <1>1, <3>3, <5>2
          <6> QED BY <1>1, <6>1
        <5> QED BY <5>1, <5>2
      <4> QED BY <4>1, <4>2
    <3>8. Previewed'
      BY <1>1, <3>1, <3>2, <3>3, <3>4
    <3> QED BY <3>6, <3>7, <3>8
  <2> QED BY <2>1, <2>2
<1> QED BY <1>2, <1>3

\* And to the views: it pushes its own, pops its own, or leaves them alone.
LEMMA HandlingKeepsViews ==
  ASSUME FlowInv, NEW h \in Handling,
         \A g \in Handling \ {h} : handling'[g] = handling[g],
         \/ UNCHANGED views /\ handling[h].at # "choosing" /\ handling'[h].at # "choosing"
         \/ /\ views' = Append(views, h)
            /\ handling[h].at # "choosing" /\ handling'[h].at = "choosing"
         \/ OnTop(h) /\ PopView /\ handling'[h].at # "choosing"
  PROVE  ViewsAreOpen' /\ views' \in Seq(Handling)
<1>1. views \in Seq(Handling) /\ ViewsAreOpen /\ Len(views) \in Nat
  BY DEF FlowInv, TypeOK
<1>2. CASE UNCHANGED views /\ handling[h].at # "choosing" /\ handling'[h].at # "choosing"
  BY <1>1, <1>2 DEF ViewsAreOpen
<1>3. CASE /\ views' = Append(views, h)
           /\ handling[h].at # "choosing" /\ handling'[h].at = "choosing"
  <2>1. /\ Len(views') = Len(views) + 1 /\ views'[Len(views) + 1] = h
        /\ \A i \in 1 .. Len(views) : views'[i] = views[i]
        /\ views' \in Seq(Handling)
    BY <1>1, <1>3
  <2>2. 1 .. Len(views') = (1 .. Len(views)) \cup {Len(views) + 1}
    BY <1>1, <2>1
  <2>3. \A i \in 1 .. Len(views) : views[i] # h
    BY <1>1, <1>3 DEF ViewsAreOpen
  <2>4. ASSUME NEW g \in Handling
        PROVE  handling'[g].at = "choosing" <=> \E i \in 1 .. Len(views') : views'[i] = g
    <3>1. CASE g = h
      BY <1>3, <2>1, <2>2, <3>1
    <3>2. CASE g # h
      BY <1>1, <2>1, <2>2, <3>2 DEF ViewsAreOpen
    <3> QED BY <3>1, <3>2
  <2>5. \A i, j \in 1 .. Len(views') : views'[i] = views'[j] => i = j
    BY <1>1, <2>1, <2>2, <2>3 DEF ViewsAreOpen
  <2> QED BY <2>1, <2>4, <2>5 DEF ViewsAreOpen
<1>4. CASE OnTop(h) /\ PopView /\ handling'[h].at # "choosing"
  <2>1. Len(views) \in Nat \ {0} /\ views[Len(views)] = h
    BY <1>1, <1>4 DEF OnTop
  <2>2. views' = SubSeq(views, 1, Len(views) - 1)
    BY <1>4 DEF PopView
  <2>3. /\ Len(views') = Len(views) - 1
        /\ \A i \in 1 .. Len(views) - 1 : views'[i] = views[i]
        /\ views' \in Seq(Handling)
    <3>1. /\ Len(views) - 1 \in Nat /\ views \in Seq(Handling)
          /\ views' = [i \in 1 .. Len(views) - 1 |-> views[i]]
      BY <1>1, <2>1, <2>2
    <3>2. \A i \in 1 .. Len(views) - 1 : views[i] \in Handling
      BY <1>1, <2>1
    <3>3. Len(views') = Len(views) - 1 /\ views' \in Seq(Handling)
      BY <3>1, <3>2
    <3> QED BY <3>1, <3>3
  <2>4. 1 .. Len(views) = (1 .. Len(views')) \cup {Len(views)} /\ Len(views) \notin 1 .. Len(views')
    BY <2>1, <2>3
  <2>5. \A i \in 1 .. Len(views') : views'[i] = views[i] /\ views[i] # h
    BY <1>1, <2>1, <2>3, <2>4 DEF ViewsAreOpen
  <2>6. ASSUME NEW g \in Handling
        PROVE  handling'[g].at = "choosing" <=> \E i \in 1 .. Len(views') : views'[i] = g
    <3>1. CASE g = h
      BY <1>4, <2>5, <3>1
    <3>2. CASE g # h
      BY <1>1, <2>1, <2>4, <2>5, <3>2 DEF ViewsAreOpen
    <3> QED BY <3>1, <3>2
  <2>7. \A i, j \in 1 .. Len(views') : views'[i] = views'[j] => i = j
    BY <1>1, <2>4, <2>5 DEF ViewsAreOpen
  <2> QED BY <2>3, <2>6, <2>7 DEF ViewsAreOpen
<1> QED BY <1>2, <1>3, <1>4

-----------------------------------------------------------------------------
\* A step of a handling that makes no native call.
LEMMA QuietHandlingStep ==
  ASSUME FlowInv, NEW h \in Handling, UNCHANGED sessionVars,
         \A g \in Handling \ {h} : handling'[g] = handling[g],
         handling'[h].choice = handling[h].choice,
         \/ handling[h].at = "unused" /\ handling'[h].at = "routing"
         \/ handling[h].at = "initiating" /\ handling'[h].at = "choosing"
         \/ /\ Open(h) \/ at[<<h, Attempt(h)>>] = "returned"
            /\ handling[h].at # "unused" /\ handling'[h].at = "finished",
         handling'[h].shown = "success" =>
           handling[h].shown = "success" \/ \E x \in sent : x.session = SessionOf(h)
  PROVE  CallInv'
<1> USE DEF FlowInv, CallInv, Open, SessionOf
<1>1. /\ at' = at /\ reply' = reply /\ session' = session /\ chosen' = chosen
      /\ sent' = sent /\ pendingRequests' = pendingRequests
  BY DEF sessionVars, callVars
<1>2. CallsMade'
  <2> SUFFICES ASSUME NEW g \in Handling
               PROVE  /\ handling'[g].at \in {"unused", "routing"} => at[<<g, "initiate">>] = "idle"
                      /\ Open(g)' \/ handling'[g].at = "unused" => at[<<g, "vp">>] = "idle"
                      /\ at[<<g, "mdoc">>] # "idle" =>
                           handling'[g].at \in {"falling_back", "finished"}
                      /\ handling'[g].at = "falling_back" => at[<<g, "vp">>] = "returned"
                      /\ handling'[g].at = "finished" => at[<<g, "vp">>] \in {"idle", "returned"}
                      /\ handling'[g].at \in {"completing", "falling_back"}
                           => handling'[g].choice \in SUBSET Keys
    BY <1>1 DEF CallsMade
  <2>1. CASE g # h
    BY <2>1 DEF CallsMade
  <2>2. CASE g = h
    BY <2>2 DEF CallsMade, Attempt
  <2> QED BY <2>1, <2>2
<1>3. CarriesChoice'
  BY <1>1 DEF CarriesChoice
<1>4. Replied' /\ TakenByCompletion'
  BY <1>1 DEF Replied, TakenByCompletion
<1>5. SentAsApproved'
  <2> SUFFICES ASSUME NEW x \in sent
               PROVE  \E g \in Handling : AnswersApprovalOf(g, x)'
    BY <1>1 DEF SentAsApproved
  <2>1. PICK g \in Handling : AnswersApprovalOf(g, x)
    BY DEF SentAsApproved
  <2>2. /\ handling'[g].choice = handling[g].choice
        /\ handling'[g].at \in {"completing", "falling_back", "finished"}
    BY <2>1 DEF AnswersApprovalOf
  <2> QED BY <2>1, <2>2 DEF AnswersApprovalOf, Allows
<1>6. SuccessMeansSent'
  BY <1>1 DEF SuccessMeansSent
<1> QED BY <1>2, <1>3, <1>4, <1>5, <1>6 DEF CallInv

\* A step that makes one of the three calls of a handling.
LEMMA CallingHandlingStep ==
  ASSUME FlowInv, NEW h \in Handling, NEW step \in {"initiate", "vp", "mdoc"},
         at[<<h, step>>] = "idle",
         NEW to \in {"parsing", "removing"}, step = "initiate" <=> to = "parsing",
         at' = [at EXCEPT ![<<h, step>>] = to],
         UNCHANGED <<pendingRequests, reply, sent>>,
         \A c \in Call \ {<<h, step>>} : session'[c] = session[c] /\ chosen'[c] = chosen[c],
         \A g \in Handling \ {h} : handling'[g] = handling[g],
         handling'[h].shown = handling[h].shown,
         \/ step = "initiate" /\ handling[h].at = "routing" /\ handling'[h].at = "initiating"
         \/ /\ step = "vp" /\ handling[h].at = "choosing" /\ handling'[h].at = "completing"
            /\ reply[SessionOf(h)] = "select" /\ handling'[h].choice \in SUBSET Keys
         \/ /\ step = "mdoc" /\ handling[h].at = "completing" /\ handling'[h].at = "falling_back"
            /\ at[<<h, "vp">>] = "returned",
         handling[h].at = "choosing" \/ handling'[h].choice = handling[h].choice,
         to = "removing" => /\ session'[<<h, step>>] = SessionOf(h)
                            /\ chosen'[<<h, step>>] = handling'[h].choice,
         to = "parsing" => session'[<<h, step>>] = session[<<h, step>>]
  PROVE  CallInv'
<1> USE DEF FlowInv, CallInv, Open, SessionOf
<1>1. \A c \in Call : at'[c] = IF c = <<h, step>> THEN to ELSE at[c]
  BY CallsOfHandling DEF TypeOK, SessionTypeOK
<1>2. \A g \in Handling, s \in {"initiate", "vp", "mdoc"} :
        at'[<<g, s>>] = IF g = h /\ s = step THEN to ELSE at[<<g, s>>]
  <2> SUFFICES ASSUME NEW g \in Handling, NEW s \in {"initiate", "vp", "mdoc"}
               PROVE  at'[<<g, s>>] = IF g = h /\ s = step THEN to ELSE at[<<g, s>>]
    OBVIOUS
  <2>1. <<g, s>> \in Call
    BY CallsOfHandling
  <2>2. <<g, s>> = <<h, step>> <=> g = h /\ s = step
    BY CallsOfHandling
  <2> QED BY <1>1, <2>1, <2>2
<1>3. CallsMade'
  <2> SUFFICES ASSUME NEW g \in Handling PROVE CallsMade!(g)'
    BY DEF CallsMade
  <2>1. CASE g # h
    BY <1>2, <2>1 DEF CallsMade
  <2>2. CASE g = h
    BY <1>2, <2>2 DEF CallsMade
  <2> QED BY <2>1, <2>2
<1>4. CarriesChoice'
  <2> SUFFICES ASSUME NEW g \in Handling, NEW s \in {"vp", "mdoc"}, at'[<<g, s>>] # "idle"
               PROVE  /\ session'[<<g, s>>] = SessionOf(g)
                      /\ chosen'[<<g, s>>] = handling'[g].choice
                      /\ handling'[g].choice \in SUBSET Keys
    BY DEF CarriesChoice
  <2>1. CASE g = h /\ s = step
    BY <2>1 DEF CallsMade
  <2>2. CASE ~(g = h /\ s = step)
    <3>1. at[<<g, s>>] # "idle" /\ <<g, s>> # <<h, step>> /\ <<g, s>> \in Call
      <4>1. at[<<g, s>>] # "idle"
        BY <1>2, <2>2
      <4>2. <<g, s>> \in Call
        BY CallsOfHandling
      <4>3. <<g, s>> # <<h, step>>
        BY <2>2, CallsOfHandling
      <4> QED BY <4>1, <4>2, <4>3
    <3>2. /\ session'[<<g, s>>] = SessionOf(g) /\ chosen'[<<g, s>>] = handling[g].choice
          /\ handling[g].choice \in SUBSET Keys
      BY <3>1 DEF CarriesChoice
    <3>3. handling'[g].choice = handling[g].choice
      BY <3>1 DEF CallsMade
    <3> QED BY <3>2, <3>3
  <2> QED BY <2>1, <2>2
<1>5. Replied'
  BY <1>1 DEF Replied
<1>6. TakenByCompletion'
  BY <1>2 DEF TakenByCompletion
<1>7. SentAsApproved'
  <2> SUFFICES ASSUME NEW x \in sent
               PROVE  \E g \in Handling : AnswersApprovalOf(g, x)'
    BY DEF SentAsApproved
  <2>1. PICK g \in Handling : AnswersApprovalOf(g, x)
    BY DEF SentAsApproved
  <2>2. /\ handling'[g].choice = handling[g].choice
        /\ handling'[g].at \in {"completing", "falling_back", "finished"}
    BY <2>1 DEF AnswersApprovalOf
  <2> QED BY <2>1, <2>2 DEF AnswersApprovalOf, Allows
<1>8. SuccessMeansSent'
  <2>1. SuccessMeansSent /\ sent' = sent
    OBVIOUS
  <2>2. \A g \in Handling : handling'[g].shown = handling[g].shown
    OBVIOUS
  <2> HIDE DEF FlowInv
  <2> QED BY <2>1, <2>2 DEF SuccessMeansSent
<1> QED BY <1>3, <1>4, <1>5, <1>6, <1>7, <1>8 DEF CallInv

\* A step of a call's coroutine.  The handling it belongs to waits for it, so what
\* the invariant says of that handling bounds what the call may do.
LEMMA CoroutineStep ==
  ASSUME FlowInv, NEW c \in Call, UNCHANGED <<handling, session, chosen>>,
         NEW to \in {"matching", "answering", "returned"},
         NEW result \in {"none", "select", "empty", "success", "error"},
         at' = [at EXCEPT ![c] = to], reply' = [reply EXCEPT ![c] = result],
         \/ at[c] \in {"parsing", "matching"} /\ to \in {"matching", "returned"}
         \/ at[c] \in {"removing", "answering"} /\ to \in {"answering", "returned"},
         result # "none" => to = "returned",
         \/ UNCHANGED pendingRequests /\ at[c] # "removing"
         \/ /\ at[c] = "parsing"
            /\ \A d \in Call \ {c} : pendingRequests'[d] = pendingRequests[d]
         \/ /\ at[c] = "removing"
            /\ pendingRequests' = [pendingRequests EXCEPT ![session[c]] = "absent"],
         \/ UNCHANGED sent
         \/ at[c] = "answering" /\ sent' = sent \cup {AnswerOf(c)},
         result = "success" => AnswerOf(c) \in sent'
  PROVE  CallInv'
<1> USE DEF FlowInv, CallInv, Open, SessionOf
<1>1. /\ at \in [Call -> {"idle", "parsing", "matching", "removing", "answering", "returned"}]
      /\ reply \in [Call -> {"none", "select", "empty", "success", "error"}]
      /\ session \in [Call -> Call] /\ pendingRequests \in [Call -> Kind \cup {"absent"}]
  BY DEF TypeOK, SessionTypeOK
<1>2. /\ \A d \in Call : at'[d] = IF d = c THEN to ELSE at[d]
      /\ \A d \in Call : reply'[d] = IF d = c THEN result ELSE reply[d]
  BY <1>1
<1>3. reply[c] = "none"
  BY <1>1 DEF Replied
<1>4. \A h \in Handling : /\ <<h, "initiate">> \in Call
                      /\ <<h, "vp">> \in Call /\ <<h, "mdoc">> \in Call
                      /\ <<h, "initiate">> # <<h, "vp">> /\ <<h, "initiate">> # <<h, "mdoc">>
  BY CallsOfHandling
<1>5. CallsMade'
  <2> SUFFICES ASSUME NEW h \in Handling PROVE CallsMade!(h)'
    BY DEF CallsMade
  <2> HIDE DEF FlowInv
  <2>1. CallsMade!(h)
    BY DEF FlowInv, CallsMade
  <2>2. at[<<h, "vp">>] # "idle" => reply'[<<h, "initiate">>] = "select"
    BY <1>2, <1>3, <1>4, <2>1
  <2>3. /\ at'[<<h, "initiate">>] \in {"idle", "parsing", "matching", "returned"}
        /\ at'[<<h, "initiate">>] = "idle" <=> at[<<h, "initiate">>] = "idle"
    BY <1>2, <1>4, <2>1
  <2>4. /\ at'[<<h, "vp">>] \in {"idle", "removing", "answering", "returned"}
        /\ at'[<<h, "vp">>] = "idle" <=> at[<<h, "vp">>] = "idle"
        /\ at[<<h, "vp">>] = "returned" => at'[<<h, "vp">>] = "returned"
    BY <1>2, <1>4, <2>1
  <2>5. /\ at'[<<h, "mdoc">>] \in {"idle", "removing", "answering", "returned"}
        /\ at'[<<h, "mdoc">>] = "idle" <=> at[<<h, "mdoc">>] = "idle"
    BY <1>2, <1>4, <2>1
  <2> QED BY <2>1, <2>2, <2>3, <2>4, <2>5
<1>6. CarriesChoice'
  <2>1. \A d \in Call : at'[d] # "idle" => at[d] # "idle"
    BY <1>2
  <2>2. CarriesChoice
    OBVIOUS
  <2> HIDE DEF FlowInv
  <2> QED BY <1>4, <2>1, <2>2 DEF CarriesChoice
<1>7. Replied'
  <2> SUFFICES ASSUME NEW d \in Call
               PROVE  /\ reply'[d] # "none" => at'[d] = "returned"
                      /\ reply'[d] = "success" => \E x \in sent' : x.session = session[d]
    BY DEF Replied
  <2>1. AnswerOf(c).session = session[c]
    BY DEF AnswerOf
  <2> QED BY <1>2, <2>1 DEF Replied
<1>8. TakenByCompletion'
  <2> SUFFICES ASSUME NEW h \in Handling, at'[<<h, "vp">>] \in {"answering", "returned"}
               PROVE  pendingRequests'[<<h, "initiate">>] = "absent"
    BY DEF TakenByCompletion
  <2>1. at[<<h, "vp">>] # "idle" /\ at[<<h, "initiate">>] = "returned"
    BY <1>1, <1>2, <1>4 DEF CallsMade, Replied
  <2>2. c # <<h, "initiate">>
    BY <2>1
  <2>3. CASE at[c] = "removing" /\ c = <<h, "vp">>
    <3>1. session[c] = <<h, "initiate">>
      BY <2>1, <2>3 DEF CarriesChoice
    <3> QED BY <1>1, <1>4, <2>3, <3>1
  <2>4. CASE ~(at[c] = "removing" /\ c = <<h, "vp">>)
    <3>1. at[<<h, "vp">>] \in {"answering", "returned"}
      <4>1. at[<<h, "vp">>] \in {"idle", "removing", "answering", "returned"}
        BY DEF CallsMade
      <4>2. CASE c = <<h, "vp">>
        BY <2>1, <2>4, <4>1, <4>2
      <4>3. CASE c # <<h, "vp">>
        BY <1>2, <1>4, <4>3
      <4> QED BY <4>2, <4>3
    <3>2. pendingRequests[<<h, "initiate">>] = "absent"
      BY <3>1 DEF TakenByCompletion
    <3> QED BY <1>1, <1>4, <2>2, <3>2
  <2> QED BY <2>3, <2>4
<1>9. SentAsApproved'
  <2> SUFFICES ASSUME NEW x \in sent'
               PROVE  \E h \in Handling : AnswersApprovalOf(h, x)'
    BY DEF SentAsApproved
  <2>1. CASE x \in sent
    BY <2>1 DEF SentAsApproved, AnswersApprovalOf, Allows
  <2>2. CASE x = AnswerOf(c) /\ at[c] = "answering"
    <3>1. PICK h \in Handling : c \in {<<h, "initiate">>, <<h, "vp">>, <<h, "mdoc">>}
      BY CallIsOfHandling
    <3>2. c \in {<<h, "vp">>, <<h, "mdoc">>}
      BY <2>2, <3>1 DEF CallsMade
    <3>3. /\ session[c] = SessionOf(h) /\ chosen[c] = handling[h].choice
          /\ handling[h].choice \in SUBSET Keys
      BY <2>2, <3>2 DEF CarriesChoice
    <3>4. handling[h].at \in {"completing", "falling_back", "finished"}
      <4>1. handling[h].at \in {"unused", "routing", "initiating", "choosing",
                                "completing", "falling_back", "finished"}
        BY DEF TypeOK, HandlingState
      <4> QED BY <2>2, <3>2, <4>1 DEF CallsMade
    <3>5. x.session = SessionOf(h) /\ x.selected = handling[h].choice
      BY <2>2, <3>3 DEF AnswerOf
    <3>6. Allows(handling[h].choice, x.kind, x.fields)
      <4>1. method[c] \in Kind
        BY DEF TypeOK, SessionTypeOK
      <4>2. x.kind = method[c] /\ x.fields = ApprovedFields(method[c], handling[h].choice)
        BY <2>2, <3>3 DEF AnswerOf
      <4> QED BY <3>3, <4>1, <4>2, ApprovedIsAllowed
    <3>7. AnswersApprovalOf(h, x)
      BY <3>4, <3>5, <3>6 DEF AnswersApprovalOf
    <3> QED BY <3>7 DEF AnswersApprovalOf, Allows
  <2> QED BY <2>1, <2>2
<1>10. SuccessMeansSent'
  BY DEF SuccessMeansSent
<1> QED BY <1>5, <1>6, <1>7, <1>8, <1>9, <1>10 DEF CallInv

LEMMA NativeStepCalls ==
  ASSUME FlowInv, NEW c \in Call, NativeStep(c)
  PROVE  CallInv'
<1> USE DEF NativeStep, Advance, Return, flowVars
<1>0. reply \in [Call -> {"none", "select", "empty", "success", "error"}]
  BY DEF FlowInv, TypeOK, SessionTypeOK
<1>a. at[c] # "returned" => reply = [reply EXCEPT ![c] = "none"]
  BY <1>0 DEF FlowInv, CallInv, Replied
<1>1. CASE ParseFails(c)
  BY <1>1, CoroutineStep DEF ParseFails
<1>2. CASE StoreRequest(c)
  <2>1. \A d \in Call \ {c} : pendingRequests'[d] = pendingRequests[d]
    BY <1>2 DEF StoreRequest, FlowInv, TypeOK, SessionTypeOK
  <2> QED BY <1>2, <1>a, <2>1, CoroutineStep DEF StoreRequest
<1>3. CASE MatchingFails(c)
  BY <1>3, CoroutineStep DEF MatchingFails
<1>4. CASE ReturnMatches(c)
  BY <1>4, CoroutineStep DEF ReturnMatches
<1>5. CASE RemoveSession(c)
  BY <1>5, <1>a, CoroutineStep DEF RemoveSession
<1>6. CASE AnswerFails(c)
  BY <1>6, CoroutineStep DEF AnswerFails
<1>7. CASE AnswerVerifier(c)
  BY <1>7, CoroutineStep DEF AnswerVerifier
<1> QED BY <1>1, <1>2, <1>3, <1>4, <1>5, <1>6, <1>7 DEF CallStep

-----------------------------------------------------------------------------
\* The calls of the flow are calls that PresentationSessions allows: a
\* completing one names a session that was returned to Dart.
LEMMA FlowCallsAreSessionCalls == FlowInv /\ [Next]_vars => [SessionNext]_sessionVars
<1> SUFFICES ASSUME FlowInv, [Next]_vars PROVE [SessionNext]_sessionVars
  OBVIOUS
<1> USE CallsOfHandling
<1>1. \A h \in Handling : /\ KindOf(scan[h[1]].code) \in Kind
                         /\ handling[h].choice \in Selection
  BY DEF KindOf, Kind, FlowInv, TypeOK, HandlingState
<1>2. ASSUME NEW n \in Scan, \/ \E code \in Code : HandleScanResult(n, code)
                            \/ ScanStep(n) \/ HidePreview(n)
      PROVE  UNCHANGED sessionVars
  BY <1>2 DEF HandleScanResult, ScanStep, ProcessingFails, ShowPreview, HidePreview
<1>3. ASSUME NEW h \in Handling, NEW selected \in SUBSET Keys, Approve(h, selected)
      PROVE  SessionNext
  <2>1. SessionOf(h) \in KnownSession(<<h, "vp">>)
    BY <1>3 DEF Approve, ReplyTo, KnownSession, SessionOf
  <2> QED BY <1>3, <2>1 DEF Approve, SessionNext, Kind, Selection
<1>4. ASSUME NEW h \in Handling, Reject(h) PROVE UNCHANGED sessionVars
  BY <1>4 DEF Reject
<1>5. ASSUME NEW tap \in Tap, ResultAction(tap) PROVE UNCHANGED sessionVars
  BY <1>5 DEF ResultAction
<1>6. CASE ReopenScanner \/ DismissPreview \/ PreviewStep
  BY <1>6 DEF ReopenScanner, DismissPreview, PreviewStep, PreviewShown, PreviewHidden
<1>7. ASSUME NEW h \in Handling, DartStep(h) PROVE [SessionNext]_sessionVars
  <2>1. CASE InitiateRequest(h)
    BY <1>1, <2>1 DEF InitiateRequest, SessionNext
  <2>2. CASE FallBackToMdoc(h)
    <3>1. at[<<h, "vp">>] # "idle"
      BY <2>2 DEF FallBackToMdoc, ReplyTo, FlowInv, CallInv, Replied
    <3>2. SessionOf(h) \in KnownSession(<<h, "mdoc">>)
      BY <3>1 DEF FlowInv, CallInv, CallsMade, KnownSession
    <3> QED BY <1>1, <2>2, <3>2 DEF FallBackToMdoc, SessionNext, Kind
  <2> QED
    BY <1>7, <2>1, <2>2
       DEF DartStep, RoutingFails, InitiationFails, ShowMatches,
           CompletionSucceeds, CompletionFails
<1>8. ASSUME NEW c \in Call, NativeStep(c) PROVE SessionNext
  BY <1>8 DEF NativeStep, SessionNext
<1>9. CASE UNCHANGED vars
  BY <1>9 DEF vars
<1> QED BY <1>2, <1>3, <1>4, <1>5, <1>6, <1>7, <1>8, <1>9 DEF Next, UserStep

-----------------------------------------------------------------------------
\* What Goes and Finishes do to a handling.
LEMMA HandlingMoves ==
  ASSUME handling \in [Handling -> HandlingState], NEW h \in Handling,
         NEW to \in {"unused", "routing", "initiating", "choosing", "completing",
                     "falling_back", "finished"},
         NEW choice \in Selection, NEW shown \in {"none", "success", "error"}
  PROVE  /\ Goes(h, to) =>
              /\ handling' \in [Handling -> HandlingState]
              /\ \A g \in Handling \ {h} : handling'[g] = handling[g]
              /\ handling'[h].at = to /\ handling'[h].choice = handling[h].choice
              /\ handling'[h].shown = handling[h].shown
         /\ Finishes(h, shown) =>
              /\ handling' \in [Handling -> HandlingState]
              /\ \A g \in Handling \ {h} : handling'[g] = handling[g]
              /\ handling'[h].at = "finished" /\ handling'[h].choice = handling[h].choice
              /\ handling'[h].shown \in {shown, "none"}
         /\ handling' = [handling EXCEPT ![h].at = to, ![h].choice = choice] =>
              /\ handling' \in [Handling -> HandlingState]
              /\ \A g \in Handling \ {h} : handling'[g] = handling[g]
              /\ handling'[h].at = to /\ handling'[h].choice = choice
              /\ handling'[h].shown = handling[h].shown
<1> USE DEF HandlingState
<1>1. handling[h] \in HandlingState
  OBVIOUS
<1>2. ASSUME Goes(h, to)
      PROVE  /\ handling' \in [Handling -> HandlingState]
             /\ \A g \in Handling \ {h} : handling'[g] = handling[g]
             /\ handling'[h].at = to /\ handling'[h].choice = handling[h].choice
             /\ handling'[h].shown = handling[h].shown
  <2>1. handling' = [handling EXCEPT ![h] = [handling[h] EXCEPT !.at = to]]
    BY <1>1, <1>2 DEF Goes
  <2> QED BY <1>1, <2>1
<1>3. ASSUME Finishes(h, shown)
      PROVE  /\ handling' \in [Handling -> HandlingState]
             /\ \A g \in Handling \ {h} : handling'[g] = handling[g]
             /\ handling'[h].at = "finished" /\ handling'[h].choice = handling[h].choice
             /\ handling'[h].shown \in {shown, "none"}
  <2>1. PICK outcome \in {shown, "none"} :
          handling' = [handling EXCEPT ![h] = [handling[h] EXCEPT !.at = "finished",
                                                                  !.shown = outcome]]
    BY <1>1, <1>3 DEF Finishes
  <2> QED BY <1>1, <2>1
<1>4. ASSUME handling' = [handling EXCEPT ![h].at = to, ![h].choice = choice]
      PROVE  /\ handling' \in [Handling -> HandlingState]
             /\ \A g \in Handling \ {h} : handling'[g] = handling[g]
             /\ handling'[h].at = to /\ handling'[h].choice = choice
             /\ handling'[h].shown = handling[h].shown
  <2>1. handling' = [handling EXCEPT ![h] = [handling[h] EXCEPT !.at = to,
                                                                !.choice = choice]]
    BY <1>1, <1>4
  <2> QED BY <1>1, <2>1
<1> QED BY <1>2, <1>3, <1>4

\* The widget keeps its types over the end of a handling.
WidgetTypeOK ==
  /\ scan \in [Scan -> ScanState]
  /\ screen \in 1 .. MaxScreens
  /\ isProcessing \in BOOLEAN
  /\ lastScannedCode \in Code \cup {NoCode}
  /\ currentResult \in Scan \cup {NoScan}
  /\ preview \in {"hidden", "showing", "shown", "hiding"}
  /\ hideTimer \subseteq Scan

LEMMA ScanMoves ==
  ASSUME WidgetTypeOK, NEW n \in Scan,
         NEW to \in {"idle", "processing", "previewing", "handling", "finished"},
         scan' = [scan EXCEPT ![n].at = to]
  PROVE  /\ scan' \in [Scan -> ScanState]
         /\ \A m \in Scan \ {n} : scan'[m] = scan[m]
         /\ scan'[n].at = to /\ scan'[n].screen = scan[n].screen
         /\ \A m \in Scan : scan'[m].screen = scan[m].screen
<1>1. scan[n] \in ScanState
  BY DEF WidgetTypeOK
<1>2. scan' = [scan EXCEPT ![n] = [scan[n] EXCEPT !.at = to]]
  BY <1>1 DEF WidgetTypeOK, ScanState
<1> QED BY <1>1, <1>2 DEF WidgetTypeOK, ScanState

LEMMA EndKeepsTypes ==
  ASSUME WidgetTypeOK, NEW h \in Handling, EndOfHandling(h) \/ UNCHANGED widgetVars
  PROVE  WidgetTypeOK'
<1>1. CASE UNCHANGED widgetVars
  BY <1>1 DEF WidgetTypeOK, widgetVars, scannerVars, previewVars
<1>2. CASE EndOfHandling(h) /\ ByTap(h)
  BY <1>2 DEF WidgetTypeOK, EndOfHandling, scannerVars, previewVars
<1>3. CASE EndOfHandling(h) /\ ~ByTap(h)
  <2>1. ScanEnds(h[1]) /\ UNCHANGED previewVars /\ h[1] \in Scan
    BY <1>3, HandlingsOfScans DEF EndOfHandling
  <2>2. scan' \in [Scan -> ScanState]
    BY <2>1, ScanMoves DEF ScanEnds
  <2>3. isProcessing' \in {FALSE, isProcessing}
    BY <2>1, Zenon DEF ScanEnds
  <2>4. /\ screen' = screen /\ lastScannedCode' = lastScannedCode
        /\ currentResult' = currentResult /\ preview' = preview /\ hideTimer' = hideTimer
    BY <2>1 DEF ScanEnds, previewVars
  <2>5. isProcessing' \in BOOLEAN
    BY <2>3, Zenon DEF WidgetTypeOK
  <2>6. /\ screen' \in 1 .. MaxScreens /\ lastScannedCode' \in Code \cup {NoCode}
        /\ currentResult' \in Scan \cup {NoScan} /\ hideTimer' \subseteq Scan
        /\ preview' \in {"hidden", "showing", "shown", "hiding"}
    BY <2>4 DEF WidgetTypeOK
  <2> QED BY <2>2, <2>5, <2>6 DEF WidgetTypeOK
<1> QED BY <1>1, <1>2, <1>3, Zenon

\* The steps of one handling, and of the user at its view.
HandlingStep(h) ==
  \/ \E selected \in SUBSET Keys : Approve(h, selected)
  \/ Reject(h)
  \/ DartStep(h)

LEMMA HandlingStepInv ==
  ASSUME FlowInv, SessionInv', NEW h \in Handling, HandlingStep(h)
  PROVE  FlowInv'
<1>1. /\ handling \in [Handling -> HandlingState] /\ h[1] \in Scan /\ WidgetTypeOK
      /\ views \in Seq(Handling)
  BY HandlingsOfScans DEF FlowInv, TypeOK, WidgetTypeOK
<1>2. ASSUME handling' \in [Handling -> HandlingState], WidgetTypeOK', WidgetInv',
             ViewsAreOpen', views' \in Seq(Handling), CallInv'
      PROVE  FlowInv'
  BY <1>2 DEF FlowInv, TypeOK, WidgetTypeOK, SessionInv
<1>3. ASSUME NEW selected \in SUBSET Keys, Approve(h, selected) PROVE FlowInv'
  <2>0. /\ handling' = [handling EXCEPT ![h].at = "completing", ![h].choice = selected]
        /\ selected \in Selection
    BY <1>3 DEF Approve, Selection
  <2>1. /\ \A g \in Handling \ {h} : handling'[g] = handling[g]
        /\ handling'[h].at = "completing" /\ handling'[h].choice = selected
        /\ handling'[h].shown = handling[h].shown
        /\ handling' \in [Handling -> HandlingState]
    <3> HIDE <1>3
    <3> QED BY <1>1, <2>0, HandlingMoves
  <2>2. /\ handling[h].at = "choosing" /\ OnTop(h) /\ PopView /\ EndOfHandling(h)
        /\ reply[SessionOf(h)] = "select"
        /\ Complete(<<h, "vp">>, "vp", SessionOf(h), selected)
    BY <1>3 DEF Approve, OnTop, ReplyTo, SessionOf
  <2>3. WidgetInv' /\ WidgetTypeOK'
    BY <1>1, <2>1, <2>2, HandlingKeepsWidget, EndKeepsTypes DEF Open
  <2>4. ViewsAreOpen' /\ views' \in Seq(Handling)
    BY <2>1, <2>2, HandlingKeepsViews
  <2>5. <<h, "vp">> \in Call
    BY CallsOfHandling
  <2>6. /\ session'[<<h, "vp">>] = SessionOf(h) /\ chosen'[<<h, "vp">>] = selected
        /\ \A c \in Call \ {<<h, "vp">>} : session'[c] = session[c] /\ chosen'[c] = chosen[c]
    BY <2>2, <2>5 DEF Complete, FlowInv, TypeOK, SessionTypeOK
  <2>7. CallInv'
    BY <2>1, <2>2, <2>6, CallingHandlingStep DEF Complete
  <2> QED BY <1>2, <2>1, <2>3, <2>4, <2>7
<1>4. CASE Reject(h) \/ RoutingFails(h) \/ InitiationFails(h)
  <2>1. /\ \A g \in Handling \ {h} : handling'[g] = handling[g]
        /\ handling'[h].at = "finished" /\ handling'[h].choice = handling[h].choice
        /\ handling'[h].shown # "success" \/ handling'[h].shown = handling[h].shown
        /\ handling' \in [Handling -> HandlingState]
    BY <1>1, <1>4, HandlingMoves DEF Reject, RoutingFails, InitiationFails, Selection
  <2>2. Open(h) /\ EndOfHandling(h) /\ UNCHANGED sessionVars
    BY <1>4 DEF Reject, RoutingFails, InitiationFails, Open, OnTop
  <2>3. WidgetInv' /\ WidgetTypeOK'
    BY <1>1, <2>1, <2>2, HandlingKeepsWidget, EndKeepsTypes DEF Open
  <2>4. ViewsAreOpen' /\ views' \in Seq(Handling)
    BY <1>4, <2>1, HandlingKeepsViews DEF Reject, RoutingFails, InitiationFails
  <2>5. CallInv'
    BY <2>1, <2>2, QuietHandlingStep DEF Open
  <2> QED BY <1>2, <2>1, <2>3, <2>4, <2>5
<1>5. CASE InitiateRequest(h)
  <2>1. /\ \A g \in Handling \ {h} : handling'[g] = handling[g]
        /\ handling'[h].at = "initiating" /\ handling'[h].choice = handling[h].choice
        /\ handling'[h].shown = handling[h].shown
        /\ handling' \in [Handling -> HandlingState]
    BY <1>1, <1>5, HandlingMoves DEF InitiateRequest, Selection
  <2>2. /\ handling[h].at = "routing" /\ UNCHANGED widgetVars /\ UNCHANGED views
        /\ Initiate(<<h, "initiate">>, KindOf(scan[h[1]].code))
    BY <1>5 DEF InitiateRequest, SessionOf
  <2>3. WidgetInv' /\ WidgetTypeOK'
    BY <1>1, <2>1, <2>2, HandlingKeepsWidget, EndKeepsTypes DEF Open
  <2>4. ViewsAreOpen' /\ views' \in Seq(Handling)
    BY <2>1, <2>2, HandlingKeepsViews
  <2>5. CallInv'
    BY <2>1, <2>2, CallingHandlingStep DEF Initiate
  <2> QED BY <1>2, <2>1, <2>3, <2>4, <2>5
<1>6. CASE FallBackToMdoc(h)
  <2>1. /\ \A g \in Handling \ {h} : handling'[g] = handling[g]
        /\ handling'[h].at = "falling_back" /\ handling'[h].choice = handling[h].choice
        /\ handling'[h].shown = handling[h].shown
        /\ handling' \in [Handling -> HandlingState]
    BY <1>1, <1>6, HandlingMoves DEF FallBackToMdoc, Selection
  <2>2. /\ handling[h].at = "completing" /\ reply[<<h, "vp">>] = "error"
        /\ UNCHANGED widgetVars /\ UNCHANGED views
        /\ Complete(<<h, "mdoc">>, "mdoc", SessionOf(h), handling[h].choice)
    BY <1>6 DEF FallBackToMdoc, ReplyTo
  <2>3. WidgetInv' /\ WidgetTypeOK'
    BY <1>1, <2>1, <2>2, HandlingKeepsWidget, EndKeepsTypes DEF Open
  <2>4. ViewsAreOpen' /\ views' \in Seq(Handling)
    BY <2>1, <2>2, HandlingKeepsViews
  <2>5. <<h, "mdoc">> \in Call /\ <<h, "vp">> \in Call
    BY CallsOfHandling
  <2>6. /\ session'[<<h, "mdoc">>] = SessionOf(h) /\ chosen'[<<h, "mdoc">>] = handling[h].choice
        /\ \A c \in Call \ {<<h, "mdoc">>} : session'[c] = session[c] /\ chosen'[c] = chosen[c]
    BY <2>2, <2>5 DEF Complete, FlowInv, TypeOK, SessionTypeOK
  <2>7. at[<<h, "vp">>] = "returned"
    BY <2>2, <2>5 DEF FlowInv, CallInv, Replied
  <2>8. CallInv'
    BY <2>1, <2>2, <2>6, <2>7, CallingHandlingStep DEF Complete
  <2> QED BY <1>2, <2>1, <2>3, <2>4, <2>8
<1>7. CASE ShowMatches(h)
  <2>1. CASE Mounted(h[1])
    <3>1. /\ \A g \in Handling \ {h} : handling'[g] = handling[g]
          /\ handling'[h].at = "choosing" /\ handling'[h].choice = handling[h].choice
          /\ handling'[h].shown = handling[h].shown
          /\ handling' \in [Handling -> HandlingState]
      BY <1>1, <1>7, <2>1, HandlingMoves DEF ShowMatches, Selection
    <3>2. /\ handling[h].at = "initiating" /\ UNCHANGED widgetVars
          /\ views' = Append(views, h) /\ UNCHANGED sessionVars
      BY <1>7, <2>1 DEF ShowMatches
    <3>3. WidgetInv' /\ WidgetTypeOK'
      BY <1>1, <2>1, <3>1, <3>2, HandlingKeepsWidget, EndKeepsTypes DEF Open
    <3>4. ViewsAreOpen' /\ views' \in Seq(Handling)
      BY <3>1, <3>2, HandlingKeepsViews
    <3>5. CallInv'
      BY <3>1, <3>2, QuietHandlingStep
    <3> QED BY <1>2, <3>1, <3>3, <3>4, <3>5
  <2>2. CASE ~Mounted(h[1])
    <3>1. /\ \A g \in Handling \ {h} : handling'[g] = handling[g]
          /\ handling'[h].at = "finished" /\ handling'[h].choice = handling[h].choice
          /\ handling'[h].shown # "success"
          /\ handling' \in [Handling -> HandlingState]
      BY <1>1, <1>7, <2>2, HandlingMoves DEF ShowMatches, Selection
    <3>2. /\ handling[h].at = "initiating" /\ EndOfHandling(h)
          /\ UNCHANGED views /\ UNCHANGED sessionVars
      BY <1>7, <2>2 DEF ShowMatches
    <3>3. WidgetInv' /\ WidgetTypeOK'
      BY <1>1, <3>1, <3>2, HandlingKeepsWidget, EndKeepsTypes DEF Open
    <3>4. ViewsAreOpen' /\ views' \in Seq(Handling)
      BY <3>1, <3>2, HandlingKeepsViews
    <3>5. CallInv'
      BY <3>1, <3>2, QuietHandlingStep DEF Open
    <3> QED BY <1>2, <3>1, <3>3, <3>4, <3>5
  <2> QED BY <2>1, <2>2
<1>8. CASE CompletionSucceeds(h) \/ CompletionFails(h)
  <2>1. /\ \A g \in Handling \ {h} : handling'[g] = handling[g]
        /\ handling'[h].at = "finished" /\ handling'[h].choice = handling[h].choice
        /\ handling' \in [Handling -> HandlingState]
        /\ handling'[h].shown = "success" => reply[<<h, Attempt(h)>>] = "success"
    BY <1>1, <1>8, HandlingMoves DEF CompletionSucceeds, CompletionFails, Selection, ReplyTo
  <2>2. /\ handling[h].at \in {"completing", "falling_back"}
        /\ reply[<<h, Attempt(h)>>] \in {"success", "error"}
        /\ UNCHANGED widgetVars /\ UNCHANGED views /\ UNCHANGED sessionVars
    BY <1>8 DEF CompletionSucceeds, CompletionFails, ReplyTo, Attempt
  <2>3. WidgetInv' /\ WidgetTypeOK'
    BY <1>1, <2>1, <2>2, HandlingKeepsWidget, EndKeepsTypes DEF Open
  <2>4. ViewsAreOpen' /\ views' \in Seq(Handling)
    BY <2>1, <2>2, HandlingKeepsViews
  <2>5. <<h, Attempt(h)>> \in Call /\ Attempt(h) \in {"vp", "mdoc"}
    BY CallsOfHandling DEF Attempt
  <2>6. at[<<h, Attempt(h)>>] = "returned"
    BY <2>2, <2>5 DEF FlowInv, CallInv, Replied
  <2>7. session[<<h, Attempt(h)>>] = SessionOf(h)
    BY <2>5, <2>6 DEF FlowInv, CallInv, CarriesChoice
  <2>8. handling'[h].shown = "success" => \E x \in sent : x.session = SessionOf(h)
    BY <2>1, <2>5, <2>7 DEF FlowInv, CallInv, Replied
  <2>9. CallInv'
    BY <2>1, <2>2, <2>6, <2>8, QuietHandlingStep
  <2> QED BY <1>2, <2>1, <2>3, <2>4, <2>9
<1> QED BY <1>3, <1>4, <1>5, <1>6, <1>7, <1>8 DEF HandlingStep, DartStep


-----------------------------------------------------------------------------
\* The steps of the scans and of the preview, which leave the consent views and
\* the native calls alone.  At most they start one handling.
LEMMA WidgetStep ==
  ASSUME FlowInv, WidgetTypeOK', WidgetInv', UNCHANGED <<sessionVars, views>>,
         \/ UNCHANGED handling
         \/ \E h \in Handling : handling[h].at = "unused" /\ Goes(h, "routing")
  PROVE  FlowInv'
<1>1. handling \in [Handling -> HandlingState] /\ views \in Seq(Handling)
  BY DEF FlowInv, TypeOK
<1>2. SessionInv' /\ SessionTypeOK'
  BY DEF FlowInv, SessionInv, SessionTypeOK, Stored, OfferedIsOver, Named, Taken, Spent,
         AnsweredOnce, Offered, sessionVars, callVars
<1>3. ASSUME handling' \in [Handling -> HandlingState], ViewsAreOpen', CallInv' PROVE FlowInv'
  BY <1>1, <1>2, <1>3 DEF FlowInv, TypeOK, WidgetTypeOK
<1>4. CASE UNCHANGED handling
  <2>1. ViewsAreOpen'
    BY <1>4 DEF FlowInv, ViewsAreOpen
  <2>2. CallsMade' /\ CarriesChoice' /\ Replied' /\ TakenByCompletion'
    BY <1>4 DEF FlowInv, CallInv, CallsMade, Open, CarriesChoice, Replied, TakenByCompletion,
                SessionOf, sessionVars, callVars
  <2>3. SentAsApproved' /\ SuccessMeansSent'
    BY <1>4 DEF FlowInv, CallInv, SentAsApproved, AnswersApprovalOf, SuccessMeansSent,
                SessionOf, sessionVars, callVars
  <2> QED BY <1>1, <1>3, <1>4, <2>1, <2>2, <2>3 DEF CallInv
<1>5. ASSUME NEW h \in Handling, handling[h].at = "unused", Goes(h, "routing")
      PROVE  FlowInv'
  <2>1. handling[h].choice \in Selection
    BY <1>1 DEF HandlingState
  <2>2. /\ handling' \in [Handling -> HandlingState]
        /\ \A g \in Handling \ {h} : handling'[g] = handling[g]
        /\ handling'[h].at = "routing" /\ handling'[h].choice = handling[h].choice
        /\ handling'[h].shown = handling[h].shown
    BY <1>1, <1>5, <2>1, HandlingMoves
  <2>3. ViewsAreOpen'
    BY <1>5, <2>2, HandlingKeepsViews
  <2>4. CallInv'
    BY <1>5, <2>2, QuietHandlingStep
  <2> QED BY <1>3, <2>2, <2>3, <2>4
<1> QED BY <1>4, <1>5

\* A scan is accepted: the mounted scanner works on no other.
LEMMA HandleScanResultInv ==
  ASSUME FlowInv, NEW n \in Scan, NEW code \in Code, HandleScanResult(n, code)
  PROVE  FlowInv'
<1>1. WidgetTypeOK /\ WidgetInv /\ screen \in Nat /\ screen \in 0 .. MaxScreens
  BY ScannerIsOpened DEF FlowInv, TypeOK, WidgetTypeOK
<1>2. /\ scan[n].at = "idle" /\ ~isProcessing /\ isProcessing' = TRUE
      /\ scan' = [scan EXCEPT ![n] = [at |-> "processing", code |-> code, screen |-> screen]]
      /\ lastScannedCode' = code
      /\ UNCHANGED <<sessionVars, screen, currentResult, preview, hideTimer, handling, views>>
  BY DEF HandleScanResult, previewVars, flowVars
<1>3. [at |-> "processing", code |-> code, screen |-> screen] \in ScanState
  BY <1>1 DEF ScanState
<1>4. WidgetTypeOK'
  BY <1>1, <1>2, <1>3 DEF WidgetTypeOK
<1>5. /\ \A m \in Scan \ {n} : scan'[m] = scan[m]
      /\ scan'[n].at = "processing" /\ scan'[n].screen = screen
  BY <1>1, <1>2 DEF WidgetTypeOK
<1>6. OneAtATime'
  BY <1>1, <1>2, <1>5 DEF WidgetInv, OneAtATime, Busy, Mounted
<1>7. \A h \in Handling : h[1] \in Scan /\ (h[1] = n => handling[h].at = "unused")
  BY <1>1, <1>2, HandlingsOfScans DEF WidgetInv, Started
<1>8. handling[OwnHandling(n)].at = "unused"
  BY <1>7, HandlingsOfScans
<1>9. Started'
  BY <1>1, <1>2, <1>5, <1>7, <1>8 DEF WidgetInv, Started, Mounted, Open
<1>10. Previewed'
  BY <1>1, <1>2, <1>5 DEF WidgetInv, Previewed, Mounted
<1> QED BY <1>2, <1>4, <1>6, <1>9, <1>10, WidgetStep DEF WidgetInv

\* A scan is over before it has a preview.
LEMMA ProcessingFailsInv ==
  ASSUME FlowInv, NEW n \in Scan, ProcessingFails(n)
  PROVE  FlowInv'
<1>1. WidgetTypeOK /\ WidgetInv
  BY DEF FlowInv, TypeOK, WidgetTypeOK
<1>2. /\ scan[n].at = "processing" /\ ScanEnds(n)
      /\ UNCHANGED <<sessionVars, screen, currentResult, preview, hideTimer, handling, views>>
  BY DEF ProcessingFails, ScanEnds, previewVars, flowVars
<1>3. /\ scan' \in [Scan -> ScanState]
      /\ \A m \in Scan \ {n} : scan'[m] = scan[m]
      /\ scan'[n].at = "finished" /\ scan'[n].screen = scan[n].screen
      /\ \A m \in Scan : scan'[m].screen = scan[m].screen
  BY <1>1, <1>2, ScanMoves DEF ScanEnds
<1>4. isProcessing' = IF Mounted(n) THEN FALSE ELSE isProcessing
  BY <1>2 DEF ScanEnds
<1>5. isProcessing' \in BOOLEAN
  BY <1>1, <1>4, Zenon DEF WidgetTypeOK
<1>6. WidgetTypeOK'
  BY <1>1, <1>2, <1>3, <1>5 DEF WidgetTypeOK, ScanEnds
<1>7. \A m \in Scan : (Mounted(m)' <=> Mounted(m)) /\ (Busy(m)' => Busy(m) /\ m # n)
  BY <1>2, <1>3 DEF Mounted, Busy
<1>8. \A m \in Scan : Busy(m)' /\ Mounted(m)' => isProcessing'
  <2>1. ASSUME NEW m \in Scan, Busy(m)', Mounted(m)' PROVE isProcessing'
    <3>1. m # n /\ Busy(m) /\ Mounted(m) /\ isProcessing
      BY <1>1, <1>7, <2>1 DEF WidgetInv, OneAtATime
    <3>2. ~Mounted(n)
      BY <1>1, <1>2, <3>1 DEF WidgetInv, OneAtATime, Busy
    <3> QED BY <1>4, <3>1, <3>2, Zenon
  <2> QED BY <2>1
<1>9. OneAtATime'
  <2> HIDE DEF Busy, Mounted
  <2> QED BY <1>1, <1>2, <1>3, <1>7, <1>8 DEF WidgetInv, OneAtATime
<1>10. Started'
  BY <1>1, <1>2, <1>3, HandlingsOfScans DEF WidgetInv, Started, Mounted, Open
<1>11. Previewed'
  <2>1. currentResult # NoScan => currentResult \in Scan
    BY <1>1 DEF WidgetTypeOK
  <2> QED BY <1>1, <1>2, <1>3, <2>1, ScansAreNumbered DEF WidgetInv, Previewed, Mounted
<1> QED BY <1>2, <1>6, <1>9, <1>10, <1>11, WidgetStep DEF WidgetInv

\* The handling of a scan begins, whose preview is there.
LEMMA AutoHandleResultInv ==
  ASSUME FlowInv, NEW n \in Scan, AutoHandleResult(n), Mounted(n),
         scan[n].at \in {"processing", "previewing"},
         currentResult' = n, preview' = "shown",
         UNCHANGED <<sessionVars, scannerVars, views>>
  PROVE  FlowInv'
<1>1. WidgetTypeOK /\ WidgetInv /\ handling \in [Handling -> HandlingState]
  BY DEF FlowInv, TypeOK, WidgetTypeOK
<1>2. /\ scan' = [scan EXCEPT ![n].at = "handling"]
      /\ Goes(OwnHandling(n), "routing")
      /\ hideTimer' = hideTimer \cup {n}
      /\ UNCHANGED <<screen, isProcessing, lastScannedCode>>
  BY DEF AutoHandleResult, scannerVars
<1>3. /\ scan' \in [Scan -> ScanState]
      /\ \A m \in Scan \ {n} : scan'[m] = scan[m]
      /\ scan'[n].at = "handling" /\ scan'[n].screen = scan[n].screen
      /\ \A m \in Scan : scan'[m].screen = scan[m].screen
  BY <1>1, <1>2, ScanMoves
<1>4. WidgetTypeOK'
  BY <1>1, <1>2, <1>3 DEF WidgetTypeOK
<1>5. OwnHandling(n) \in Handling /\ handling[OwnHandling(n)].at = "unused"
  BY <1>1, HandlingsOfScans DEF WidgetInv, Started
<1>6. handling[OwnHandling(n)].choice \in Selection
  BY <1>1, <1>5 DEF HandlingState
<1>7. /\ \A g \in Handling \ {OwnHandling(n)} : handling'[g] = handling[g]
      /\ handling'[OwnHandling(n)].at = "routing"
  BY <1>1, <1>2, <1>5, <1>6, HandlingMoves
<1>8. OneAtATime'
  BY <1>1, <1>2, <1>3 DEF WidgetInv, OneAtATime, Busy, Mounted
<1>9. Started'
  <2>1. ASSUME NEW g \in Handling
        PROVE  /\ handling'[g].at # "unused" => scan'[g[1]].at # "idle"
               /\ handling'[g].at = "choosing" => Mounted(g[1])'
    <3>1. CASE g = OwnHandling(n)
      BY <1>3, <1>7, <3>1, HandlingsOfScans
    <3>2. CASE g # OwnHandling(n)
      BY <1>1, <1>2, <1>3, <1>7, <3>2, HandlingsOfScans DEF WidgetInv, Started, Mounted
    <3> QED BY <3>1, <3>2
  <2>2. ASSUME NEW m \in Scan
        PROVE  /\ Open(OwnHandling(m))' => scan'[m].at = "handling"
               /\ scan'[m].at = "previewing" => handling'[OwnHandling(m)].at = "unused"
               /\ scan'[m].at = "processing" => handling'[OwnHandling(m)].at = "unused"
    <3>1. CASE m = n
      BY <1>3, <3>1
    <3>2. CASE m # n
      <4>1. OwnHandling(m) \in Handling \ {OwnHandling(n)} /\ scan'[m] = scan[m]
        BY <1>3, <3>2, HandlingsOfScans DEF OwnHandling
      <4>2. handling'[OwnHandling(m)] = handling[OwnHandling(m)]
        BY <1>7, <4>1
      <4> QED BY <1>1, <4>1, <4>2 DEF WidgetInv, Started, Open
    <3> QED BY <3>1, <3>2
  <2> QED BY <2>1, <2>2 DEF Started
<1>10. Previewed'
  BY <1>3 DEF Previewed
<1> QED BY <1>2, <1>4, <1>5, <1>8, <1>9, <1>10, WidgetStep DEF WidgetInv

\* A preview slides in, or is there already.
LEMMA PreviewInv ==
  ASSUME FlowInv, PreviewShown \/ \E n \in Scan : ShowPreview(n)
  PROVE  FlowInv'
<1>1. WidgetTypeOK /\ WidgetInv
  BY DEF FlowInv, TypeOK, WidgetTypeOK
<1>2. CASE PreviewShown
  BY <1>1, <1>2, AutoHandleResultInv DEF PreviewShown, WidgetInv, Previewed
<1>3. ASSUME NEW n \in Scan, ShowPreview(n) PROVE FlowInv'
  <2>1. CASE preview = "shown"
    BY <1>3, <2>1, AutoHandleResultInv DEF ShowPreview
  <2>2. CASE preview # "shown"
    <3>1. /\ scan[n].at = "processing" /\ Mounted(n) /\ currentResult' = n
          /\ scan' = [scan EXCEPT ![n].at = "previewing"] /\ preview' = "showing"
          /\ UNCHANGED <<sessionVars, screen, isProcessing, lastScannedCode,
                         hideTimer, handling, views>>
      BY <1>3, <2>2 DEF ShowPreview, scannerVars
    <3>2. /\ scan' \in [Scan -> ScanState]
          /\ \A m \in Scan \ {n} : scan'[m] = scan[m]
          /\ scan'[n].at = "previewing" /\ scan'[n].screen = scan[n].screen
          /\ \A m \in Scan : scan'[m].screen = scan[m].screen
      BY <1>1, <3>1, ScanMoves
    <3>3. WidgetTypeOK'
      BY <1>1, <3>1, <3>2 DEF WidgetTypeOK
    <3>4. OneAtATime'
      BY <1>1, <3>1, <3>2 DEF WidgetInv, OneAtATime, Busy, Mounted
    <3>5. handling[OwnHandling(n)].at = "unused" /\ \A h \in Handling : h[1] \in Scan
      BY <1>1, <3>1, HandlingsOfScans DEF WidgetInv, Started
    <3>6. Started'
      BY <1>1, <3>1, <3>2, <3>5 DEF WidgetInv, Started, Mounted, Open
    <3>7. Previewed'
      BY <3>1, <3>2 DEF Previewed, Mounted
    <3> QED BY <3>1, <3>3, <3>4, <3>6, <3>7, WidgetStep DEF WidgetInv
  <2> QED BY <2>1, <2>2
<1> QED BY <1>2, <1>3

\* The preview goes out of sight, which ends nothing and may start a handling.
LEMMA HidingInv ==
  ASSUME FlowInv,
         \/ PreviewHidden \/ DismissPreview
         \/ \E n \in Scan : HidePreview(n)
         \/ \E tap \in Tap : ResultAction(tap)
  PROVE  FlowInv'
<1>1. /\ WidgetTypeOK /\ WidgetInv /\ handling \in [Handling -> HandlingState]
      /\ preview \in {"hidden", "showing", "shown", "hiding"}
  BY DEF FlowInv, TypeOK, WidgetTypeOK
<1>2. /\ UNCHANGED <<sessionVars, scan, screen, isProcessing, lastScannedCode,
                     currentResult, views>>
      /\ hideTimer' \subseteq hideTimer
      /\ preview' \in {"hidden", "hiding"} \/ preview' = preview
      /\ preview' = "showing" => preview = "showing"
      /\ preview' \in {"hidden", "showing", "shown", "hiding"}
  BY <1>1 DEF PreviewHidden, DismissPreview, HidePreview, ResultAction, Reverse,
              scannerVars, previewVars, flowVars
<1>3. WidgetTypeOK'
  BY <1>1, <1>2 DEF WidgetTypeOK
<1>4. OneAtATime' /\ Previewed'
  BY <1>1, <1>2 DEF WidgetInv, OneAtATime, Previewed, Busy, Mounted
<1>5. CASE UNCHANGED handling
  <2>1. Started'
    BY <1>1, <1>2, <1>5 DEF WidgetInv, Started, Mounted, Open
  <2> QED BY <1>2, <1>3, <1>4, <1>5, <2>1, WidgetStep DEF WidgetInv
<1>6. ASSUME NEW tap \in Tap, ResultAction(tap) PROVE FlowInv'
  <2> DEFINE h == <<currentResult, tap>>
  <2>1. /\ currentResult \in Scan /\ handling[h].at = "unused" /\ Goes(h, "routing")
    BY <1>1, <1>6 DEF ResultAction, Tappable, WidgetTypeOK
  <2>2. h \in Handling /\ h[1] = currentResult /\ ByTap(h)
    BY <2>1, HandlingsOfScans
  <2> HIDE DEF h
  <2>3. handling[h].choice \in Selection
    BY <1>1, <2>2 DEF HandlingState
  <2>4. /\ \A g \in Handling \ {h} : handling'[g] = handling[g]
        /\ handling'[h].at = "routing"
    BY <1>1, <2>1, <2>2, <2>3, HandlingMoves
  <2>5. \A n \in Scan : /\ OwnHandling(n) \in Handling \ {h}
                        /\ handling'[OwnHandling(n)] = handling[OwnHandling(n)]
    BY <2>2, <2>4, HandlingsOfScans
  <2>6. scan[currentResult].at # "idle"
    BY <1>1, <2>1, ScansAreNumbered DEF WidgetInv, Previewed
  <2>7. Started'
    <3>1. ASSUME NEW g \in Handling
          PROVE  /\ handling'[g].at # "unused" => scan'[g[1]].at # "idle"
                 /\ handling'[g].at = "choosing" => Mounted(g[1])'
      BY <1>1, <1>2, <2>2, <2>4, <2>6 DEF WidgetInv, Started, Mounted
    <3> QED BY <1>1, <1>2, <2>5, <3>1 DEF WidgetInv, Started, Open
  <2> QED BY <1>2, <1>3, <1>4, <2>1, <2>2, <2>7, WidgetStep DEF WidgetInv
<1> QED
  BY <1>5, <1>6 DEF PreviewHidden, DismissPreview, HidePreview, flowVars

\* Nothing of the scanner that was left is mounted in the new one.
LEMMA ReopenScannerInv ==
  ASSUME FlowInv, ReopenScanner
  PROVE  FlowInv'
<1>1. WidgetTypeOK /\ WidgetInv /\ screen \in Nat
  BY ScannerIsOpened DEF FlowInv, TypeOK, WidgetTypeOK
<1>2. /\ screen < MaxScreens /\ screen' = screen + 1
      /\ \A h \in Handling : handling[h].at # "choosing"
      /\ isProcessing' = FALSE /\ lastScannedCode' = NoCode /\ currentResult' = NoScan
      /\ preview' = "hidden" /\ hideTimer' = {}
      /\ UNCHANGED <<sessionVars, scan, handling, views>>
  BY DEF ReopenScanner, flowVars
<1>3. WidgetTypeOK'
  <2>1. screen' \in 1 .. MaxScreens
    BY <1>1, <1>2, ScannerIsOpened
  <2>2. isProcessing' \in BOOLEAN
    BY <1>2
  <2> QED BY <1>1, <1>2, <2>1, <2>2 DEF WidgetTypeOK
<1>4. \A n \in Scan : scan[n].screen \in Nat /\ scan[n].screen <= screen
  BY <1>1 DEF WidgetTypeOK, ScanState, WidgetInv, OneAtATime
<1>5. OneAtATime'
  BY <1>1, <1>2, <1>4 DEF OneAtATime, Busy, Mounted
<1>6. Started'
  BY <1>1, <1>2 DEF WidgetInv, Started, Open
<1>7. Previewed'
  BY <1>2 DEF Previewed
<1> QED BY <1>2, <1>3, <1>5, <1>6, <1>7, WidgetStep DEF WidgetInv

\* Every step keeps the invariant.
LEMMA StepFlowInv == FlowInv /\ [Next]_vars => FlowInv'
<1> SUFFICES ASSUME FlowInv, [Next]_vars PROVE FlowInv'
  OBVIOUS
<1>1. SessionInv'
  BY FlowCallsAreSessionCalls, NextPreserves DEF FlowInv
<1>2. ASSUME NEW h \in Handling, HandlingStep(h) PROVE FlowInv'
  BY <1>1, <1>2, HandlingStepInv
<1>3. ASSUME NEW n \in Scan, NEW code \in Code, HandleScanResult(n, code) PROVE FlowInv'
  BY <1>3, HandleScanResultInv
<1>4. ASSUME NEW n \in Scan, ScanStep(n) \/ HidePreview(n) PROVE FlowInv'
  BY <1>4, ProcessingFailsInv, PreviewInv, HidingInv DEF ScanStep
<1>5. CASE PreviewStep \/ DismissPreview \/ \E tap \in Tap : ResultAction(tap)
  BY <1>5, PreviewInv, HidingInv DEF PreviewStep
<1>6. CASE ReopenScanner
  BY <1>6, ReopenScannerInv
<1>7. ASSUME NEW c \in Call, NativeStep(c) PROVE FlowInv'
  <2>1. CallInv'
    BY <1>7, NativeStepCalls
  <2>2. UNCHANGED <<widgetVars, flowVars>>
    BY <1>7 DEF NativeStep
  <2>3. TypeOK' /\ WidgetInv' /\ ViewsAreOpen'
    BY <1>1, <2>2 DEF FlowInv, TypeOK, SessionInv, WidgetInv, OneAtATime, Started, Previewed,
                      Busy, Open, Mounted, ViewsAreOpen, widgetVars, scannerVars,
                      previewVars, flowVars
  <2> QED BY <1>1, <2>1, <2>3 DEF FlowInv
<1>8. CASE UNCHANGED vars
  <2>1. UNCHANGED <<sessionVars, views, handling>> /\ UNCHANGED widgetVars
    BY <1>8 DEF vars, flowVars
  <2>2. WidgetTypeOK'
    BY <2>1 DEF FlowInv, TypeOK, WidgetTypeOK, widgetVars, scannerVars, previewVars
  <2>3. WidgetInv'
    BY <2>1 DEF FlowInv, WidgetInv, OneAtATime, Started, Previewed, Busy, Open, Mounted,
                widgetVars, scannerVars, previewVars
  <2> QED BY <2>1, <2>2, <2>3, WidgetStep
<1> QED
  BY <1>2, <1>3, <1>4, <1>5, <1>6, <1>7, <1>8 DEF Next, UserStep, HandlingStep

\* The inductive invariant holds throughout.
THEOREM FlowInvariant == Spec => []FlowInv
<1> QED BY InitFlowInv, StepFlowInv, PTL DEF Spec

-----------------------------------------------------------------------------
(***************************************************************************)
(* The views on the navigator are the handlings that wait for the user,    *)
(* and a view lies over another only if a tap on the preview's button      *)
(* (_handleResultAction) asked for one of them: the guard on _isProcessing *)
(* keeps the scans apart, however often codes are scanned and the scanner  *)
(* is left and opened again.                                               *)
(***************************************************************************)
THEOREM OnlyTapsStackViews == Spec => []ConsentViews
<1>1. FlowInv => ConsentViews
  <2> SUFFICES ASSUME FlowInv PROVE AutomaticViewsNeverStack
    BY DEF FlowInv, ConsentViews
  <2> SUFFICES ASSUME NEW g \in Handling, handling[g].at = "choosing", ~ByTap(g),
                      NEW h \in Handling, handling[h].at = "choosing", ~ByTap(h)
               PROVE  g = h
    BY DEF AutomaticViewsNeverStack
  <2>1. g[1] \in Scan /\ h[1] \in Scan /\ g = OwnHandling(g[1]) /\ h = OwnHandling(h[1])
    BY HandlingsOfScans
  <2>2. Busy(g[1]) /\ Mounted(g[1]) /\ Busy(h[1]) /\ Mounted(h[1])
    BY <2>1 DEF FlowInv, WidgetInv, Started, Open, Busy
  <2>3. g[1] = h[1]
    BY <2>1, <2>2 DEF FlowInv, WidgetInv, OneAtATime
  <2> QED BY <2>1, <2>3
<1> QED BY FlowInvariant, <1>1, PTL

(***************************************************************************)
(* Whatever a verifier received belongs to the request of one handling of  *)
(* a scan and carries the selection made in that handling's own view, also *)
(* when the second method answered after the first had failed, or another  *)
(* view of the same scan was open (completeOID4VPRequestSDK).              *)
(***************************************************************************)
THEOREM OnlyApprovedIsSent == Spec => []SentAsApproved
<1>1. FlowInv => SentAsApproved
  BY DEF FlowInv, CallInv
<1> QED BY FlowInvariant, <1>1, PTL

(***************************************************************************)
(* A reported success was sent, and once the user has an outcome nothing   *)
(* of the approved request is left to send (_completePresentation).        *)
(***************************************************************************)
THEOREM OutcomesAreFinal == Spec => []OutcomeIsFinal
<1>1. FlowInv => OutcomeIsFinal
  BY DEF FlowInv, CallInv, CallsMade, TakenByCompletion, SuccessMeansSent, OutcomeIsFinal,
         ApprovalUsesSession
<1> QED BY FlowInvariant, <1>1, PTL

(***************************************************************************)
(* The flow is one of the callers PresentationSessions is specified for:   *)
(* what it does to the native half are steps of SessionNext.  So the       *)
(* theorems about sessions hold of the flow, in particular that a request  *)
(* is answered once although one approval may complete it twice.           *)
(***************************************************************************)
THEOREM FlowObeysSessions ==
  Spec => /\ SessionInit /\ [][SessionNext]_sessionVars
          /\ []AnsweredOnce
          /\ []AnsweredAsRequested
<1>1. Init => SessionInit
  BY DEF Init
<1>2. FlowInv => AnsweredOnce /\ AnsweredAsRequested
  BY DEF FlowInv, SessionInv, Spent, Offered, AnsweredAsRequested
<1> QED BY FlowInvariant, FlowCallsAreSessionCalls, <1>1, <1>2, PTL DEF Spec
=============================================================================
