------------------------- MODULE ProximityPresentation -------------------------
(***************************************************************************)
(* Presenting a licence in proximity: the view that starts a presentation  *)
(* (mdl_presentation_view.dart), ProximityService and its two transports,  *)
(* the BLE one of the phones and the mock of the desktop.  The BLE plugin  *)
(* is external: it serves its calls in order, each in its time, and may    *)
(* refuse any of them.                                                     *)
(***************************************************************************)
EXTENDS Integers, Sequences, SequencesExt

CONSTANTS
  Ble,              \* the transport is BLE, not the mock
  MaxStarts,        \* bound on the calls of startPresentation
  MaxStops          \* bound on the calls of stopPresentation

ConstantsFit == Ble \in BOOLEAN /\ {MaxStarts, MaxStops} \subseteq Nat

Presentation == 1 .. MaxStarts
Nobody == 0

VARIABLES
  open,             \* the view is on screen
  starts, stops,    \* calls of startPresentation and stopPresentation
  hurried,          \* presentations started while a stop was still awaited (history)
  subscription,     \* _transportSubscription: the presentation it was made for ...
  listening,        \* ... and the ones that were not cancelled
  calls,            \* calls of the transport that are awaited
  advertising,
  stateListeners,   \* listeners on the state of the peripheral
  connectTimer,     \* _simulationTimer of the mock: the presentation it was made for
  requestTimers,    \* its inner timers, which nothing cancels
  answering,        \* requests in _processRequest, and ...
  answered,         \* ... those answered: by the presentation whose timer sent them
  closed,           \* the event controller was closed
  addedLate         \* an event was added to it after that

vars == <<open, starts, stops, hurried, subscription, listening, calls, advertising,
          stateListeners, connectTimer, requestTimers, answering, answered, closed,
          addedLate>>
service == <<starts, stops, hurried, subscription, listening>>
mock == <<connectTimer, requestTimers>>
requests == <<answering, answered>>

MaybePresentation == Presentation \cup {Nobody}

TypeOK ==
  /\ open \in BOOLEAN /\ advertising \in BOOLEAN /\ closed \in BOOLEAN
  /\ addedLate \in BOOLEAN
  /\ starts \in MaybePresentation /\ stops \in 0 .. MaxStops /\ hurried \subseteq Presentation
  /\ subscription \in MaybePresentation /\ listening \subseteq Presentation
  /\ calls \in Seq({"start", "stop"}) /\ stateListeners \in Nat
  /\ connectTimer \in MaybePresentation /\ requestTimers \subseteq Presentation
  /\ answering \subseteq Presentation /\ answered \subseteq Presentation

Init ==
  /\ open = FALSE /\ starts = 0 /\ stops = 0 /\ hurried = {}
  /\ subscription = Nobody /\ listening = {} /\ calls = <<>>
  /\ advertising = FALSE /\ stateListeners = 0
  /\ connectTimer = Nobody /\ requestTimers = {}
  /\ answering = {} /\ answered = {} /\ closed = FALSE /\ addedLate = FALSE

-----------------------------------------------------------------------------
\* startAdvertising of the transport, for presentation n; nothing of the mock's is awaited.
StartAdvertising(n) ==
  \/ /\ Ble
     /\ calls' = Append(calls, "start")
     /\ UNCHANGED <<advertising, connectTimer>>
  \/ /\ ~Ble /\ ~advertising
     /\ advertising' = TRUE /\ connectTimer' = n /\ UNCHANGED calls
  \/ /\ ~Ble /\ advertising
     /\ UNCHANGED <<advertising, connectTimer, calls>>

\* Mutant: the earlier subscription is replaced and not cancelled.
SubscribeAgain(n) == subscription' = n /\ listening' = listening \cup {n}

Subscribe(n) ==
  /\ subscription' = n
  /\ listening' = (listening \ {subscription}) \cup {n}

StartPresentation ==
  LET n == starts + 1
  IN  /\ starts < MaxStarts /\ starts' = n
      /\ hurried' = IF Contains(calls, "stop") THEN hurried \cup {n} ELSE hurried
      /\ Subscribe(n) /\ StartAdvertising(n)
      /\ UNCHANGED <<stops, stateListeners, requestTimers>>

\* stopPresentation up to its await: the mock has stopped by then, the plugin not yet.
StopPresentation ==
  /\ calls' = Append(calls, "stop")
  /\ IF Ble THEN UNCHANGED <<advertising, connectTimer>>
            ELSE advertising' = FALSE /\ connectTimer' = Nobody
  /\ UNCHANGED <<starts, hurried, subscription, listening, stateListeners, requestTimers>>

\* What follows the await: whatever subscription there is by then is cancelled.
Unsubscribe ==
  /\ listening' = listening \ {subscription} /\ subscription' = Nobody
  /\ UNCHANGED <<starts, stops, hurried>>

\* The plugin has started: the transport listens to the state of the peripheral.
BleStarted ==
  /\ calls # <<>> /\ Head(calls) = "start"
  /\ calls' = Tail(calls) /\ advertising' = TRUE
  /\ stateListeners' = stateListeners + 1
  /\ UNCHANGED <<open, service, mock, requests, closed, addedLate>>

\* Bluetooth is off or not allowed: the view shows the error.
BleStartFails ==
  /\ calls # <<>> /\ Head(calls) = "start"
  /\ calls' = Tail(calls)
  /\ UNCHANGED <<open, service, advertising, stateListeners, mock, requests, closed,
                 addedLate>>

\* The transport has stopped; the await of the mock ends before any other event.
Stopped ==
  /\ calls # <<>> /\ Head(calls) = "stop"
  /\ calls' = Tail(calls) /\ advertising' = (advertising /\ ~Ble)
  /\ Unsubscribe
  /\ UNCHANGED <<open, stateListeners, mock, requests, closed, addedLate>>

\* _blePeripheral.stop() throws: the rest of stopPresentation is not run.
BleStopFails ==
  /\ Ble /\ calls # <<>> /\ Head(calls) = "stop"
  /\ calls' = Tail(calls)
  /\ UNCHANGED <<open, service, advertising, stateListeners, mock, requests, closed,
                 addedLate>>

\* A reader connects or goes: every listener adds an event, which is only logged.
BleStateChanged ==
  /\ Ble /\ advertising /\ stateListeners > 0 /\ closed
  /\ addedLate' = TRUE
  /\ UNCHANGED <<open, service, calls, advertising, stateListeners, mock, requests, closed>>

-----------------------------------------------------------------------------
\* The timer of the mock: a verifier is connected, and will ask.
MockConnects ==
  /\ connectTimer # Nobody /\ calls = <<>>
  /\ connectTimer' = Nobody
  /\ requestTimers' = requestTimers \cup {connectTimer}
  /\ addedLate' = (addedLate \/ closed)
  /\ UNCHANGED <<open, service, calls, advertising, stateListeners, requests, closed>>

\* The inner timer: a request comes if the mock advertises, for this presentation or the
\* next, and is processed if a subscription is there.
MockRequests(i) ==
  /\ i \in requestTimers /\ calls = <<>>
  /\ requestTimers' = requestTimers \ {i}
  /\ addedLate' = (addedLate \/ (advertising /\ closed))
  /\ answering' = IF advertising /\ listening # {} THEN answering \cup {i} ELSE answering
  /\ UNCHANGED <<open, service, calls, advertising, stateListeners, connectTimer, answered,
                 closed>>

\* _processRequest after its delay: the answer is sent, whatever happened since.
Answer(i) ==
  /\ i \in answering /\ calls = <<>>
  /\ answering' = answering \ {i} /\ answered' = answered \cup {i}
  /\ UNCHANGED <<open, service, calls, advertising, stateListeners, mock, closed, addedLate>>

-----------------------------------------------------------------------------
\* initState of the view.
OpenView ==
  /\ ~open /\ ~closed /\ open' = TRUE
  /\ StartPresentation
  /\ UNCHANGED <<requests, closed, addedLate>>

\* Its button, or back, and then its dispose: ref.read throws there, before the stop.
CloseView ==
  /\ open /\ open' = FALSE
  /\ UNCHANGED <<service, calls, advertising, stateListeners, mock, requests, closed,
                 addedLate>>

\* stopPresentation by any caller of the service, which the view would be.
Stop ==
  /\ ~closed /\ stops < MaxStops /\ stops' = stops + 1
  /\ StopPresentation
  /\ UNCHANGED <<open, requests, closed, addedLate>>

\* dispose of the service: a stop that is not awaited, then dispose of the transport.
Dispose ==
  /\ ~closed /\ closed' = TRUE
  /\ StopPresentation
  /\ UNCHANGED <<open, stops, requests, addedLate>>

TransportAnswers == BleStarted \/ BleStartFails \/ Stopped \/ BleStopFails
Next ==
  \/ OpenView \/ CloseView \/ Stop \/ Dispose
  \/ BleStarted \/ BleStartFails \/ Stopped \/ BleStopFails \/ BleStateChanged
  \/ MockConnects
  \/ \E i \in requestTimers : MockRequests(i)
  \/ \E i \in answering : Answer(i)

\* Awaits end, timers fire.
Fairness ==
  /\ WF_vars(TransportAnswers) /\ WF_vars(MockConnects)
  /\ WF_vars(\E i \in requestTimers : MockRequests(i))
  /\ WF_vars(\E i \in answering : Answer(i))
Spec == Init /\ [][Next]_vars /\ Fairness

-----------------------------------------------------------------------------
\* No subscription outlives the one that replaced it: an event is handled once.
OneSubscription == listening \subseteq {subscription}

\* Whatever starts and stops overlap, fail or come late: once nothing is awaited, what is
\* advertised is listened to by the last presentation that was started, and by no other.
\* Only a start during the await of a stop is lost to that stop, which cancels whatever
\* subscription it finds (proximity_service.dart:45).
ListensAsAsked ==
  advertising /\ calls = <<>> /\ starts \notin hurried => listening = {starts}
================================================================================
