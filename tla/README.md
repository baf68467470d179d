# Marty Authenticator: verification

Marty Authenticator is a credential wallet: a Flutter application (`lib/`) over
a Rust core (`rust/`) and native handlers that drive the SpruceID SDK
(`android/`, `ios/`). This directory holds TLA+ models of parts of it whose
correctness depends on the order of things: threads, coroutines, awaited
storage calls, user actions between two awaits, failures and restarts. Each
module is translated from the source; comments name the functions. Section 6
says what is left out.

    tlc -config Biometrics.cfg MCBiometrics.tla     # a run, see the table below
    tlapm BiometricsProofs.tla                      # the proofs

Contents: 1 inventory, 2 modules, 3 runs, 4 proofs, 5 findings, 6 what is not
modelled, 7 what could come next.

## 1. Inventory

**Biometric worker and cache** (`rust/src/biometric_worker.rs`,
`rust/src/biometrics.rs`). State: a process-wide mutex around an
`Option<CachedBiometrics>` (a canonical models directory and a worker); per
worker a thread that owns the model provider, a bounded channel for its
readiness, an unbounded channel of boxed operations, and one reply channel per
operation. Operations: `start`, `run`, `shutdown`, drop, `verify_face_match`,
`assess_face_quality`, `estimate_face_age`, `shutdown_biometrics`. Hard: panics
in the initializer and in an operation while others are queued, a start that
fails after the previous worker was taken out, directory switches, all of it
with the lock held. Correct when one provider at most exists, it is of the
directory the caller asked for, nothing hangs and shutdown leaves nothing.

**Presentation sessions** (`SpruceIdHandlerRefactored.kt`). State:
`pendingRequests`, one concurrent map from session id to a stored VP or mDoc
request, shared by all channels (`ChannelRegistry.kt`). Operations:
`handleVpRequest` and `createMdocResponse`, each with a first phase (parse,
store, return matches) and a second one (remove, answer the verifier). Each
call is a coroutine on `Dispatchers.IO`. Hard: concurrent completions of one
session, a completion of the wrong kind, failure after the removal, an answer
that arrived although its reply was lost. Correct when a request is answered at
most once, by its own kind, with what the user selected, and every channel call
is answered.

**Presentation flow** (`qr_scanner_enhanced.dart`,
`presentation_request_view.dart`, `spruce_platform_service_extended.dart`).
State: `_isProcessing`, `_lastScannedCode`, the preview of the current result
with its animation and its delayed hides, the consent views on the navigator, and
the continuations of the scans under way. It calls the sessions above through
method channels; Rust routes a request to `oid4vp` or `mdoc`. Hard: scans,
taps on the preview, approvals, rejections and leaving the screen between any two
awaits; the preview's button handles a result that the scan itself handles. Correct
when what is sent is what was approved in the view of that session, the message
shown is true, and the scanner can scan again.

**Credential store** (`wallet_credential_store.dart`). State: secure storage
with one entry per credential body and one with the list of ids. Operations:
`store`, `getAll`, `getById`, `delete`, `clear`, each several awaited storage
calls, with no lock. Hard: interleaved read-modify-write of the index, and
kills or exceptions between the calls. Correct when acknowledged credentials
survive and are listed once, and nothing but a store that was cut off leaves an
unlisted body.

**Card list** (`card_state_provider.dart`, and the views that call it). State:
groups of cards by issuer, kept in memory. It is loaded from the native channel
and the credential store, and changed by drag and drop, unhiding and deleting.
Hard: deletes nobody awaits, cards known by their title, indices of a filtered
list applied to the full one. Correct when a credential is shown once, in its
group, and the list and the store agree.

**Bridge** (`rust/src/frb_generated.rs`, `rust/src/api.rs`, and the Dart half
`lib/rust/marty_bridge.dart/`). 43 functions, each generated twice: a Dart task
that encodes arguments by position, and a wire function that decodes them. State:
the isolate, a thread pool and its queue, the tokio runtime, one port per call,
and the lock of the biometric worker. Hard: the two halves agree only by being
generated together; calls queue behind each other; a biometric call keeps its
thread while it waits. Correct when every parameter gets its own argument, every
error reaches a caller that can decode it, and every call is answered, whatever
the worker does, unless it needs it or every thread of the pool does.

**Wallet operations in Rust** (`rust/src/operations/`, `credential.rs`,
`trust.rs`). No state of their own: a caller parses a credential, attaches
trust, stores and restores it, groups; follows an offer to a credential; answers
a verifier; syncs policies and asks about them; has QR codes classified and
requests bound. Hard: sequences of calls where each result is an argument of the
next, several arguments of which one does not parse, members that are absent,
blank or of another type. Correct when identity survives storage, what is sent
goes to the endpoint and the query it is for, and a decision rests on verified
input.

**QR scanner** (`qr_scanner_enhanced.dart`, `qr_scanner_service_enhanced.dart`).
State: `_isProcessing`, `_lastScannedCode`, `_currentResult`, one animation
controller for the preview, delayed hides, and requests or dialogs under way.
Hard: the future of an animation completes only if nothing reverses it, and the
preview's button works while the result is already handled. Correct when one scan
is at work at a time, only validated results are shown, and a scan ends.

**Liveness check** (`liveness_check_view.dart`, `liveness_challenge.dart`, and
the challenge functions of `biometrics.rs`). State: challenge, expiry ticker,
gesture index, busy flag. Hard: creation of the challenge, expiry, slow frames
and leaving, in any order. Correct when each gesture was made in a frame taken
after it was asked for, and the review opens only on a challenge the kernel would
accept.

**Credentials list** (`credentials_provider.dart`). State: the list, `isLoading`,
`error`. Operations: load (constructor, refresh, and after an offer), offer, add,
remove, dismiss. Hard: loads that overlap and replace the whole state, failures
after the offer was stored. Correct when an accepted offer is listed or the error
says why not, a refused one stored nothing, and loading ends.

**Verification status** (`verification_state_provider.dart`,
`review_and_submit_view.dart`, `mdl_placeholder_card.dart`). State: one value in
memory and on disk. Hard: changes of the value are at once, its writes two awaits
later; the constructor's load is awaited by nobody; the view that submits may be
left, the write may fail. Correct when the status set last is the one stored and
shown, and a success is only announced when it is stored.

**Proximity** (`proximity_service.dart`, `proximity/`,
`mdl_presentation_view.dart`). State: a subscription, the transport, timers.
Hard: starts and stops that overlap or fail, a view that cannot reach the service
any more when it is disposed, timers and answers that outlive a stop. Correct when
what is advertised is listened to by the last presentation, once, and a
presentation is answered.

**Status lists** (`status_list_service.dart`, `status.rs`,
`verifiable_credential.dart`). State: lists by URL and an answer per credential,
each with a life of five minutes. Hard: overlapping requests whose responses
change places, `clearCache` during one, a list the issuer republishes. Correct
when an old answer is gone after a known time.

`PROJECT.json` lists every part, also those left out for good, and every hazard
at its line.

**Interaction.** The scanner calls the client, the client the Rust routing and
the native handler; the native handler answers asynchronously into the Dart
event loop. The card list calls the credential store. Every call into Rust goes
through the bridge, whose biometric functions share a lock and nothing else. The
liveness check asks Rust for its challenge and its decisions and opens the review
view, which changes the verification status. The other screens share no state.

## 2. Modules

| module | models | built on |
|---|---|---|
| `BiometricWorker` | one worker thread and its channels, by worker name | |
| `SharedWorker` | several callers inside `run` of one worker, with its owner | `BiometricWorker` |
| `Biometrics` | lock, cache and callers of the bridge | `BiometricWorker` |
| `BiometricService` | abstract: one provider slot, calls and verdicts | |
| `BiometricsProofs` | theorems about it, and that it implements `BiometricService` | `Biometrics` |
| `SharedWorkerProofs` | theorems about several callers of one worker | `SharedWorker` |
| `PresentationSessions` | the native session map and its coroutines | |
| `PresentationFlow` | scanner, consent view and client over it | `PresentationSessions` |
| `PresentationProofs` | theorems about the sessions and the flow | `PresentationFlow` |
| `WalletCredentialStore` | the secure-storage entries and the methods | |
| `CardState` | the card list over the store | `WalletCredentialStore` |
| `CardStateProofs` | theorems about the store and the card list | `CardState` |
| `BridgeApi` | the tables of both generated halves: executor, arguments by position, error decoder | |
| `Bridge` | isolate, thread pool, runtime, ports and the biometric lock | `BridgeApi` |
| `CredentialModels` | the credential types, what serde keeps of them, their accessors | |
| `WalletCredentials` | parse, trust, store, restore, group | `CredentialModels` |
| `WalletIssuance` | from the offer to the credential, with both grants | |
| `WalletPresentation` | requests, presentations and ZK proofs | |
| `WalletPolicy` | policies, rankings and issuer checks | |
| `QrInput` | classification, push registration, context, route | |
| `QrScanner` | the widget with its preview, and the service | |
| `LivenessChallenge` | the native policy and the thresholds of gestures | |
| `LivenessCheck` | the view: challenge, ticker, frames, leaving | `LivenessChallenge` |
| `CredentialsNotifier` | loads, offers and edits of the list | |
| `VerificationStatus` | notifier, preferences, review view and cards | |
| `ProximityPresentation` | service, mock and BLE transports, view | |
| `BitstringStatus` | the decisions of `status.rs` | |
| `StatusListService` | checks over both caches, server and issuer | `BitstringStatus` |
| `StatusListServiceProofs` | theorems about it | `StatusListService` |
| `WalletCore` | the Rust library: bridge and callers of the operations | `Bridge`, the five `Wallet...`/`QrInput` modules by `INSTANCE` |
| `WalletCoreProofs` | theorems about it, for every value of its constants | `WalletCore` |
| `MCWalletCore` | a small instance of it: credentials, issuers, requests, texts | `WalletCore` |
| `MCScreens` | the screens | `QrScanner`, `LivenessCheck`, `CredentialsNotifier`, the rest by `INSTANCE` |
| `ScreenPartsProofs` | theorems about liveness check, verification status and proximity | `LivenessCheck`, `VerificationStatus`, `ProximityPresentation` by `INSTANCE` |
| `ScreensProofs` | theorems about the scanner and the credentials list, and about the screens together | `MCScreens`, `ScreenPartsProofs` and `StatusListServiceProofs` by `INSTANCE` |
| other `MC...` | values of the constants for TLC | the module named |

How state corresponds to the code:

* **`BiometricWorker`**. `thread[w]` is how far the closure of
  `thread::Builder::spawn` is, including the two stages of an unwinding (the
  panicking closure drops its reply sender before the loop's receiver is
  dropped). `sender[w]` is the `Option<Sender>`, `queue[w]` the accepted
  operations with the executing one at its head, `ready[w]` the readiness
  channel, `reply[c]` the reply channel of caller `c`, `provider[w]` the
  provider the thread owns and `seed[w]` the directory its initializer
  captured. `Join` waits for the thread and forgets it, so a name can be used
  again. The operations of `Provider` are opaque: they return or panic.
* **`SharedWorker`** is the concurrency of the worker's own interface
  (`run` takes `&self`; the test `concurrent_requests_share_one_provider` uses
  it from several threads). The bridge never does that, because it holds the
  lock during `run`.
* **`Biometrics`**. `lock` and `cached` are the static mutex and its content,
  `pc`, `target` and `held` the callers' stacks. On a poisoned lock
  `biometrics.rs:293` and `:329` return an error; but nothing that runs under the
  lock panics, since a panic of an initializer or an operation stays in the
  worker's thread and reaches the holder as an error, so poisoning has no state.
  A call is refused before
  the lock when its directory does not canonicalize (`Canon[p] = NoDir`).
* **`PresentationSessions`**. One constant `Call` names the channel calls; each
  is used once, and a session is named by the call that created it, as its UUID
  is. A coroutine steps from one point where it touches the map, the SDK or the
  reply to the next. What is asked for is a set `Field` with a subset
  `Required`. A caller selects a field by the key the consent view has for it
  (`Key`); `ApprovedFields` is what each completion makes of the keys, taken as
  they are or stripped to names. The SDK is outside: it parses or throws, answers
  or throws, and an answer may arrive although its reply is lost. Whether it throws
  at a field it does not know is not said by the code, so it may do either.
* **`PresentationFlow`**. One step per stretch of Dart between two awaits.
  `scan[n]` is a call of `handleScanResult` with the widget instance (`screen`) it
  belongs to, so `Mounted(n)` is Flutter's `mounted`. `handling[h]` is a call of
  `_handlePresentationRequest` together with its consent view and its completion:
  one that the scan makes itself (`"auto"`), which `handleScanResult` awaits, and
  one for each tap on the button of the preview, which nobody awaits and which
  looks at no flag. `views` is the stack of consent views, of which only the top
  one can be tapped. `preview` is the animation controller: a slide-in that is
  reversed never completes the future that its scan awaits. `hideTimer` holds the
  delayed hides. Every code is a presentation request. The `selectedFields` that
  the view can pass are sets of keys; the type of the channel also allows none,
  which `PresentationSessions` covers.
* **`WalletCredentialStore`**. `body` and `index` are the storage; `op[o]` is
  the storage call that operation `o` awaits, and one action is that call
  together with the code up to the next await. A call can throw and the process
  can be killed at every await.
* **`CardState`**. `groups` is the notifier's state with each card's id,
  source and `isExpired`. Titles and issuers are functions of the id, because
  the mapping functions are. A selection is deleted in one step, as the loop of
  `_deleteSelected` runs without awaiting, and the storage calls of its deletes
  then interleave.
* **`BridgeApi`**, **`Bridge`**. `Wire` and `Task` are the tables of
  `frb_generated.rs` and `frb_generated.dart`, one row per function; they are read
  by position, as the code does. `stage[c]` is where a call is, `thread` and
  `queue` the pool, `isolate` the call Dart stands still for. `hangs` is chosen
  once: the worker may never answer. The pool, the handler and tokio belong to
  flutter_rust_bridge and are modelled from how the generated code uses them.
* **`CredentialModels`**. A Rust struct is a record with the attributes serde
  gives its fields (`skip`, `default`, `Option`); `Serialize` and `Deserialize`
  follow them, so what a round trip loses is lost in the model too.
* **`WalletCredentials`, `WalletIssuance`, `WalletPresentation`, `WalletPolicy`,
  `QrInput`**. The functions keep nothing, so the state is what their caller
  holds: what it got from one call is what it may pass to the next, besides texts
  of its own. A text is what it parses to, or `Malformed`. What was asked of
  peers is kept in `sent` and `posted`. A text that is scanned is classified by the
  kernel (`WalletInput`: its kind and its normal form), and its normal form is
  classified again when it is routed. That a normal form is classified as the text
  was is an assumption on the kernel (`NormalFormIsStable`); that the two functions
  then agree is checked.
* **`QrScanner`**. `scan[n]` is a call of `handleScanResult`, `preview` the
  animation, `hideTimer` the delayed closures. It has every kind of code, with
  offers and their dialogs; what becomes of a presentation request with its session
  and its views is in `PresentationFlow`, which has the preview too. The matches a
  request finds follow from the members of the JSON that Rust returns
  (`ContentKeys`).
* **`LivenessCheck`**. Time is in ticks; frames carry the gesture that was asked
  when they were taken. A view that is left stays mounted until its transition
  ends (`route = "leaving"`). The production factory answers in a microtask,
  before any event (`Started`); an injected one takes time (`SlowFactory`);
  `Mocked` is the web stand-in.
* **`CredentialsNotifier`**. `load[l]` and `offer[n]` are continuations; `wallet`
  is the native wallet, of which a load sees a snapshot. The sample credentials,
  in every list, are left out. Only `handleCredentialOffer` has a caller
  (`document_view.dart:156`).
* **`VerificationStatus`**. `state` is what is shown, `cache` and `disk` the two
  levels of `SharedPreferences`, `awaiting` and `writing` the calls in their
  order. A kill restarts the notifier from the disk. `ref` of a view that is gone
  throws. Nothing keeps a status from being set before the constructor's load has
  ended. Three history variables say what was set last in this run of the
  application (`last`), whether that was before the load (`early`), and whether the
  write that ended last has failed (`lost`).
* **`ProximityPresentation`**. `calls` are those the BLE plugin has yet to serve,
  in order, or refuse; a stop continues (`Unsubscribe`) when its call has been
  served, and not at all when it was refused (`BleStopFails`). `dispose` of the view
  does not get as far as its stop (`CloseView`), because `ref` throws in an element
  that is unmounted. So at present nothing calls `stopPresentation` or `dispose` of
  the service; the interface of the service has both (`Stop`, `Dispose`), and they
  are modelled as calls of whoever holds it, which is what the view is meant to be.
  `hurried` is history: the presentations started during the await of a stop.
* **`BitstringStatus`**, **`StatusListService`**. `published` is what the
  issuer's server has now, `check[c]` a call of `checkStatus` with its loop. A
  response carries the list as it was when it was written. A bridge call takes no
  time on the clock of the caches, a request at most `Flight`.

## 3. Runs

Every property has a mutant in `PROJECT.json`: a plausible bug, written as an
operator beside the one it replaces, that makes the run fail.

| run | what it asks | properties |
|---|---|---|
| `shared_worker` | does a panic strand or hang any caller queued behind it | `NothingLeftBehind RunTerminates OwnerTerminates` |
| `biometrics` | one provider, of the right directory, released by shutdown, never a hang; implements `BiometricService` | `OneWorker RightDirectory CacheAccountsForThreads ReleasedOnShutdown LockReleased ImplementsService` |
| `presentation_sessions` | is a request answered once, as its kind, whatever calls race | `AnsweredOnce AnsweredAsRequested OverOnceTaken EveryCallReturns` |
| `presentation_flow` | is what the user approved what is sent and shown, does every approval end and the scanner go on | `ConsentViews SentAsApproved OutcomeIsFinal ScannerResumes ApprovalConcludes` |
| `credential_store` | do acknowledged credentials survive overlap, failures and kills | `KeptIsStored OrphansAreCutOff GetAllMissesNothing` |
| `card_state` | is each credential shown once, and only while stored | `EachCardOnce ListMatchesStore` |
| `wallet_core` | does the Rust library answer every call with its own arguments, keep identity, send to whom it concerns, and decide on verified input | `WellTyped OnePlace HalvesAgree AnsweredDespiteWorker IdentitySurvivesStorage SentToWhomItConcerns JudgedOnVerifiedInput` |
| `screens` | do the screens survive every order of awaits, timers, failures and leaving | `WellTyped OneScanAtATime SeenAfterAsked ReviewedIsVerified OnlyVerifiedCounts OfferedIsListed SavedAsShown ListensAsAsked SettledListIsReported BegunEnds` |
| `mdoc_fallback`, `shares_only_selected`, `clear_after_kill`, `shared_title` | violations, section 5 | one each |

**The two composite runs.** `wallet_core` and `screens` each put several
components side by side. These share no variable and call nothing of each other,
and each property speaks of one of them, so every interleaving of them violates a
property exactly if one of them alone does. A behaviour therefore picks one
`part` and the others rest in one pinned state: the run is the sum of the
components and not their product. Parts of one component differ in its constants
(for example `liveness`, `slow` and `tested`; `overlap`, `long`, `purposes` and
`odd`). A property of a composite is a conjunction of properties of the
components, which are stated and explained in their modules.
`BegunEnds` is one leads-to for all of them: `watched` is chosen at the start, so
that it follows each scan, submission or presentation in some behaviour.

What the conjunctions consist of. `JudgedOnVerifiedInput`: a request is satisfied
by the facts verified of it alone; it is decided only when every policy of the list
can be read, and then by the first of them; a registration names each value once;
the challenge and domain are the request's; a code has the route of its
classification when it is classified again. `SentToWhomItConcerns`: tokens come from
the offer's issuer, no incomplete request is sent, a posted presentation is well
formed and answers the query passed. `OnlyVerifiedCounts`: only validated results
are shown, a counted gesture was in its frame, pending means requested, an offer
not handled stored nothing. `SavedAsShown`: once no call is under way the status set
last is in the cache, on the disk and on the screen, and an announced success is
stored. `ListensAsAsked`: what is advertised is listened to by the last
presentation, and one subscription at most is left. `ConsentViews`: the open views
are the handlings that wait, each once, and of two open views one was asked for by a
tap. `NothingLeftBehind`, `OutcomeIsFinal` and `ListMatchesStore` likewise join the
invariants of the worker, the flow and the card list that are named in their
definitions.

**Exceptions that properties state.** Some properties except a case in which the
code does not do what they say; each is in the formula, and the second part of section 5 tells of it.

* `ConsentViews` and `AutomaticViewsNeverStack`: a handling that was asked for by a
  tap on the preview may put its view over another.
* `ScannerResumes` and, for `QrScanner`, `BegunEnds`: a scan whose slide-in was
  reversed while it awaited the end of it (`SlideInReversed`) stays at its await and
  `_isProcessing` stays set. This is the one await of the flow that is not answered.
* `ShownIsStored`, `SuccessIsStored` and `PendingMeansRequested`: a status that was
  set before the constructor's load had ended (`early`) is overwritten on the screen.
  What they say of the cache and the disk is not excepted. A write that failed
  (`lost`) leaves the disk as it was.
* `ListensAsAsked` and, for the mock, `BegunEnds`: a presentation that was started
  during the await of a stop (`hurried`) may lose its subscription to that stop.

**Bounds, and why they are enough.**

* `shared_worker`: one worker, three callers: one executing, one queued behind
  it, one about to send when the panic unwinds. One directory, as the worker
  never looks at it.
* `biometrics`: three callers, so that two wait for the lock while one works;
  two directories, one of them reached through two paths, and a refused path;
  two worker names, so that a second thread could exist beside the first.
  `OneWorker` shows that no third name is ever needed.
* `presentation_sessions`: three calls are one that creates a session and two
  that complete it, or two sessions and a completion that confuses them. One
  optional field gives the three selections (none, empty, everything).
* `presentation_flow`: two scans, the second during any wait of the first, or one
  scan and a tap on its preview (`MaxUses = 2` bounds scans and taps together); two
  instances of the scanner (`MaxScreens`); one code of each route; one optional
  field, ticked or not. The proofs have any number of each.
  `mdoc_fallback` needs one scanner.
* `credential_store`: two overlapping callers and three ids, so that one id is
  worked on by each and a third is a bystander; kills are unbounded. Ids and
  callers are interchangeable, and symmetry is used for safety only.
* `card_state`: three received credentials, one of them known to the native
  channel as well, and two expired native cards that share their titles; three
  issuers. Two stored credentials can be deleted by one selection.
* `wallet_core`, bridge: each of the 43 functions alone, which decides all that
  concerns the two halves; overlapping calls (`OverlapBound`) of one function per
  kind, as functions of one kind take the same steps; three calls on a pool of
  two threads, so that two biometric calls can occupy it and a third queue.
* `wallet_core`, operations: two credentials in memory and storage, two issuers,
  three requests of verifiers, two policies; for each a form of input per branch
  of the code. Five requests of an issuance are the longest grant with one
  failure. `QrInput` has the accepted registration with one pair removed, changed,
  inserted, and every combination of forms of the context's members.
* `screens`, scanner: two scans of four kinds of code, so that a hide, a button
  or a dialog of the first meets the second. Liveness: three gestures, a life of
  two seconds, faces at and beyond each threshold. Credentials list: three
  records, two offers, a refresh and the load of the constructor, of which either
  the second offer or the refresh happens (`SecondOfferOrRefresh`). Verification:
  two submissions, two cancellations, one kill. Proximity: three presentations, so
  that one is started before, during and after a stop; two stops on the mock, three
  over BLE (`MaxStops`). Status lists: two URLs and two checks; a second check
  only where checks are to overlap (`SecondCheckOnce`, otherwise `OneCheck`), and
  there and with two purposes a list changes at one time (`OneChange`). A life
  and a request of one tick each keep the order of all times.

Deadlock checking is off where the system really may stop: in the presentation
runs a call and a scan are names used once, and when all are used and the user
does nothing the system rests. In the composite runs likewise: a screen that is
closed stays closed, a clock ends at its bound.

**Fairness.** Safety runs have none. Threads and coroutines that can step do
(`WF` per worker thread, per lock holder, per coroutine and per Dart
continuation): the operating system, Kotlin's dispatcher and Dart's event loop
run what is ready. Operations of the provider and calls of the SDK are assumed
to return or to fail. Nobody is assumed to call, scan, tap, approve or leave. The
flow has one `WF` for everything that can go on (`Progress`): a continuation whose
future completed, a coroutine of the handler, or an animation, as long as no
consent view covers it, since the ticker of a covered route is muted. All of these
are used up, so this is as strong as one `WF` for each. The delayed hides are not
among them: they need not fire. The
mutex of the bridge promises nothing to a single waiter, so `Acquire` is fair
only for all of them together, and no property says that a particular caller
gets the lock.

Of the composite runs: threads of the bridge take calls, the runtime, the isolate
and the lock go on (`Bridge.Fairness`), except for the holder of the lock when
`hangs`. Timers fire, awaited platform calls, requests, animations and bridge
calls end, in success or failure; a dialog of the scanner is decided in the end
(its view can be left instead). No camera has to deliver a frame, no user has to
start or leave anything. `ScreensSpec` states these as six `WF` conjuncts shared
by the parts: only one part is at work in a behaviour, so sharing a number takes
nothing from another.

**What a property holds against.** `NoStrandedOperation` and `RunTerminates`
need the order in which an unwinding thread drops the closure and the receiver;
`CacheAccountsForThreads` needs every error path of `run_biometric` to join what
it took out; `AnsweredOnce` needs the removal to be atomic and never undone;
`SentAsApproved` relates what verifiers received to what each consent view
chose, across scans that overlap and views of one scan that lie over each other;
`KeptIsStored` needs overlapping deletes that
overwrite each other's index to err on the side of keeping an entry, which they
do: the loser's entry comes back without a body, and `getAll` skips it.
`AnsweredDespiteWorker` needs the network functions to be async and the isolate
never to wait for the lock; `SettledListIsReported` bounds the age of an answer
against responses that overtake each other, a cleared cache written back by a
late one, and a list of another URL or purpose; its part about what a credential
keeps shows that the two caches add up: a revoked credential may be shown as
valid for twice the five minutes. `ListensAsAsked` needs the plugin to serve calls
in order, and a start to cancel the subscription that a failed stop has left.
`SavedAsShown` needs every `setStatus` to pass `getInstance` in the order of its
calls. `ReviewedIsVerified` needs the view's clock to agree with the kernel's
up to the last tick.

## 4. Proofs

TLAPS proves the following for all values of the constants: any number of
callers, scans, checks, credentials, offers and messages, queues and texts of any
length. The assumptions are the named `ASSUME`s of the modules, which TLC
evaluates in every run: a null value or a marker is not a value of the kind it is
null for, `Canon` is a function on paths, required fields are fields, bounds and
times are natural numbers, sets of cards are finite, inputs have the fields the
code reads. What a theorem needs beyond that stands in its column of hypotheses.

| theorem (module) | states | hypotheses |
|---|---|---|
| `TypeCorrect` (`BiometricsProofs`) | `Spec => []TypeOK` | |
| `AtMostOneWorker` | `Spec => []OneWorker` | |
| `ServedByRightDirectory` | `Spec => []RightDirectory` | |
| `NothingLeaks` | `Spec => []CacheAccountsForThreads` | |
| `ShutdownReleases` | `Spec => ReleasedOnShutdown` | |
| `ServiceIsImplemented` | `Spec => ImplementsService` (refinement of `BiometricService`) | |
| `NothingIsLeftBehind` (`SharedWorkerProofs`) | `Spec => []NothingLeftBehind` | |
| `OneThread` | `Spec => []Alone` | |
| `SessionTypeCorrect` (`PresentationProofs`) | `SessionSpec => []SessionTypeOK` | |
| `SessionsAreSingleUse` | `SessionSpec => []AnsweredOnce` | |
| `AnswersMatchRequests` | `SessionSpec => []AnsweredAsRequested` | |
| `TakenForGood` | `SessionSpec => OverOnceTaken` | |
| `OnlyTapsStackViews` | `Spec => []ConsentViews` | |
| `OnlyApprovedIsSent` | `Spec => []SentAsApproved` | |
| `OutcomesAreFinal` | `Spec => []OutcomeIsFinal` | |
| `FlowObeysSessions` | the flow implements the sessions, and has their properties | |
| `StoreTyping` (`CardStateProofs`) | `StoreSpec => []StoreTypeOK` | |
| `IndexNeverDuplicates` | `StoreSpec => []IndexIsASet` | |
| `AcknowledgedIsKept` | `StoreSpec => []KeptIsStored` | |
| `RemovalLeavesNoOrphan` | `StoreSpec => []OrphansAreCutOff` | |
| `GetAllIsComplete` | `StoreSpec => GetAllMissesNothing` | |
| `CardsAreShownOnce` | `Spec => []EachCardOnce` | |
| `ListAgreesWithStore` | `Spec => []ListMatchesStore` | |
| `TypeCorrect` (`WalletCoreProofs`) | `Spec => []TypeOK` (of `Bridge`) | |
| `CallInOnePlace` | `Spec => []OnePlace` | |
| `BothHalvesAgree` | `Spec => []HalvesAgree` | |
| `RequestsGoWhereTheyBelong` | `CoreSpec => []SentToWhomItConcerns` | |
| `DecisionsRestOnVerifiedInput` | `CoreSpec => []JudgedOnVerifiedInput` | |
| `GroupsArePartition` | `CoreSpec => []Credentials!GroupsPartition` | |
| `IdentityIsKept` | `CoreSpec => []IdentitySurvivesStorage` | `MarkersAreNoFunctions` |
| `LibraryIsWellTyped` | `CoreSpec => []WellTyped` | `MarkersAreNoFunctions` |
| `PartsAreTheirModules` | `CoreSpec` implements the `Spec` of each of its modules | |
| `LibraryCallsAreSafe` | `CoreSpec => [](OnePlace /\ HalvesAgree)` | |
| `GestureSeenAfterAsked` (`ScreenPartsProofs`) | `CheckSpec => []SeenAfterAsked` | |
| `GestureWasShown` | `CheckSpec => []GestureWasMade` | |
| `ReviewOpensVerified` | `CheckSpec => ReviewedIsVerified` | |
| `NeverStuckWithTime` | `CheckSpec => []StuckOnlyWithoutTime` | the factory is prompt, there are gestures |
| `TypeCorrect` | `Spec => []TypeOK` (of `VerificationStatus`) | `ConstantsFit` |
| `ShownStatusIsStored` | `Spec => []ShownIsStored` | `ConstantsFit` |
| `AnnouncedIsStored` | `Spec => SuccessIsStored` | `ConstantsFit` |
| `PendingWasRequested` | `Spec => []PendingMeansRequested` | `ConstantsFit` |
| `AdvertisedIsListenedTo` | `Near!Spec => []Near!ListensAsAsked` | `Near!ConstantsFit` |
| `OneSubscriptionIsLeft` | `Near!Spec => []Near!OneSubscription` | `Near!ConstantsFit` |
| `TypeCorrect` (`StatusListServiceProofs`) | `Spec => []TypeOK` | `Fitting` |
| `SettledIsReported` | `Spec => []SettledListIsReported` | `Fitting` |
| `KeptForTwoLivesAtMost` | `Spec => []ShownForTwoLivesAtMost` | `Fitting` |
| `QrTypeCorrect` (`ScreensProofs`) | `Spec => []TypeOK` (of `QrScanner`) | |
| `OneScan` | `Spec => []OneScanAtATime` | |
| `FlagMeansCall` | `Spec => []ProcessingMeansActive` | |
| `ShownIsValidated` | `Spec => []OnlyValidatedIsShown` | |
| `UnhandledOfferStoresNothing` | `ListSpec => []UnhandledIsNotStored` | |
| `HandledOfferIsListed` | `ListSpec => OfferedIsListed` | |
| `ScreensTypeCorrect`, `ScreensScanOnce`, `ScreensSeeAfterAsking`, `ScreensCountVerified`, `ScreensListenAsAsked`, `ScreensReportSettled`, `ScreensReviewVerified`, `ScreensListOffered`, `ScreensShowStored` | `ScreensSpec` has each of the safety and action properties of the run `screens` | |

`ConstantsFit` and `Fitting` (`TimesAreNat`, `StatusesAreLists`, `BitsAreBoolean`)
are assumptions on constants. They are hypotheses and not `ASSUME`s because these
modules are instantiated with several values; `MCScreens` assumes them of its
instances, so TLC evaluates them (`ConstantsOfParts`). `NormalFormIsStable`, on which
`DecisionsRestOnVerifiedInput` depends, is an assumption on the kernel's classifier,
whose code is not in this repository. `MarkersAreNoFunctions` says that `None`, `Malformed` and `Error` are no functions:
they are values of the model that stand for no JSON object. It quantifies over all
sets, so TLC cannot evaluate it.

The type invariants of the first six runs that are proved here, and `IndexIsASet`,
are not repeated in the runs.

*Biometrics.* `OneWorker` is not inductive: a step that starts a worker keeps
it only because nothing else exists. The inductive `IInv` says what the lock
gives its holder. `Exclusion`: exactly the holder is between lock and return.
`Hands`: what the holder has in hand and what the cache holds, by phase.
`NoOrphan`: a thread that exists is in the cache or in a hand. `CachedWorker`
and `HeldWorker`: which phases such a thread can be in. `OneOperation`,
`ReplyForWaiter`, `ReadyForStarter`: a message in a channel is for the caller
that waits for it. `ProviderOwned`: the provider belongs to the thread's live
phases. Preservation has one lemma for the worker's steps, and for a caller's
steps one case per action.

The refinement maps the provider of the live thread to the service's slot. It needs
four more facts (`ImplInv`): a call in progress has no outcome yet, a worker that
is stopped is of no use to the call that stops it, a provider is given up only for
such a call or after a panic, and it is of its thread's own directory to the end.
Every step of the detailed specification is then a step of the service or a stutter.

*Shared worker.* `NothingLeftBehind` asks that no caller waits for what nobody will
answer, and that nothing survives the worker value. `IInv` says why: the callers that
are owed an answer are exactly those in the channel of the one live worker (`Alone`),
each once, a thread without a receiver has an empty channel, and what the owner does
bounds the phases of its thread.

*Sessions.* `AnsweredOnce` is not inductive: it says nothing of a call that is
about to answer. A request is in the map (`Stored`), in the hands of one call
(`Taken`) or spent (`Spent`), and `SessionInv` says that these exclude each other
and that the request a call holds is the one its session's first call stored.

*Flow.* `FlowInv` makes two arguments. One is about the widget (`WidgetInv`): at most
one scan of the mounted scanner is between its acceptance and the end of the handling
it awaits, and `_isProcessing` says so; an automatic handling is under way only with
its scan. That is why the scans alone never stack two views, whatever the taps do.
The other is about the native calls (`CallInv`): where a handling is decides which
of its three calls has been made, and a completion carries that handling's own
session and selection; a tap's handling has calls and a session of its own. With the
second one every step of the flow is a step of `PresentationSessions` or leaves it
alone, so the theorems about sessions hold of it.

*Store.* None of the store's invariants is inductive: a method writes back an
index it computed earlier, while others change what that index was computed
from. `StoreInv` is about the values under way. `PendingIsASet`, `StorePending`
and `DeletePending`: what an index about to be written contains, in particular
everything kept and every body that no cut-off store left; `ClearPending`: the
bodies `clear` still has before it; `GetAllPending`: what `getAll` has found or
has before it. `Exclusive` (a store or a clear is the only writer) comes from the
guards of `BeginStore`, `BeginDelete` and `BeginClear`, that is from how the
repository calls the class, not from the class.

*Card list.* `CardsInv` adds to `StoreInv` that only the load and deletes use the
store, that what a load has collected so far contains each card once (`FoundOnce`,
`CollectedOnce`, `Once`), and that a shown received card is kept and not being
deleted (`ShownIsKept`). What filing, dropping and removing do is proved for lists
of any length.

*Induction over data.* The library's induction theorems take an operator and cannot
be instantiated by the provers here. `CardStateProofs` and `WalletCoreProofs` use a
well-founded relation instead, as a set: `<` on the naturals, or the strict subsets
of a set of numbers, of which a set of counterexamples has a least one
(`LeastOf`, `ByInduction`). So what the recursive functions `Where` and `QueryValues`
compute is proved, for every list and every query.

*Bridge.* `BridgeInv` adds to `OnePlace` that whatever holds the isolate is a call
that was begun and not answered (`InsideOfBegunCall`): without it a call could be
posted from one place while another still lists it. This part never looks into the
tables. `HalvesAgree` does: the nine parts of the two generated tables are compared
each, joining tables with agreeing entries keeps the agreement (`AgreeIsKept`), and
`CallsAgree` carries it along the steps of a call.

*Wallet operations.* `ScanInv`, `IssuingInv`, `PresentingInv` and `PolicyInv` tie the
answer a caller holds to what it was computed from. An accepted registration names
each value once because the loop stops at a second occurrence, by induction on the
pairs read. `CredsInv` says that a credential in memory has the fields of its type
(`Formed`) and is as the caller was given it, but for lost claims (`Alike`), and that
a record in storage is the JSON of such a credential. `RoundTrip` shows from the
schemas alone that writing and reading keep both, `Alike` is a preorder, so any
number of rounds and restarts keeps them. `LibraryIsWellTyped` contains that whatever
was saved can be read again.

*Scanner.* `OneScanAtATime` holds because a scan starts only while
`_isProcessing` is clear, so `QrInv` says which call the flag stands for while any
scan is active on a mounted widget, that an automatic handling belongs to the scan
that started it, and that what the preview shows was scanned and validated.

*Liveness.* `CheckInv` relates the index, the frame under recognition, the challenge
and the history: a frame in flight was taken for the current gesture, because
`_isBusy` admits one at a time and nothing else advances the index while it is set,
and the challenge the view holds is one the kernel signed.

*Credentials list.* `ListInv` says of each continuation what its snapshot contains:
an offer that was stored is in the wallet, and in every snapshot taken after it.

*Verification status.* A status passes two queues on its way to the disk.
`StatusInv` says where the latest one is. While the constructor's load is still at
the head of the first queue (`Loading`), nothing has reached the cache in this run
of the application, and every status set so far is behind the load. After that
(`Running`) the status set last is the last call that awaits `getInstance`, or else
the cache; the cache is the last one being written, or else the disk, if the last
write did not fail; and the one shown is the one set last, if that was not `early`.

*Proximity.* The plugin serves a queue of starts and stops. For a presentation that
was started while no stop was awaited, `NearAsked` says that only stops are queued
behind its start: until the first of them has ended it is listened to, and after
that the transport does not advertise. A stop that fails changes neither. `NearHeard`
says that no other subscription is left.

*Status lists.* The invariant never says when a list was read, only that it is the
one published now unless the list has changed since a certain time. That time grows
on the way of a list: from the request that fetched it, to the cache, to the check
that reads it there, to the answer it decides, to the answer a credential keeps. The
life of each cache bounds one of these stages, which gives the two lives of
`ShownForTwoLivesAtMost`. Of two entries of one purpose the last one decides, so the
invariant follows the last entry of each purpose.

*The composites.* `ScreensSpec` and `CoreSpec` have one part at work. `PartsStep` and
`StepOfItsModule` say that each step is a step of the module of that part and leaves
the variables of the others alone; for the screens also that the part stays
(`PartStays`) and with which of its configurations' constants its module starts
(`InitOfItsModule`). So a composite implements each module and has what is proved
of it.

**Only model-checked**: the liveness properties, because they need fairness and
`ENABLED`, which TLAPS does not support: `RunTerminates`, `OwnerTerminates`,
`LockReleased`, `EveryCallReturns`, `ScannerResumes`, `ApprovalConcludes`,
`AnsweredDespiteWorker`, `BegunEnds`. And the ten violations of section 5, which are
counterexamples. Every other property of a run is stated by a theorem.

## 5. Findings

Each is a run that TLC ends with a violation.

1. `mdoc_fallback` (`FallbackFindsMdoc`). `completeVpRequest` removes the
   session before it looks at its type
   (`SpruceIdHandlerRefactored.kt:421`), and `completeOID4VPRequestSDK` always
   tries it first. The "Fallback to mDoc completion (mDoc channel)"
   (`spruce_platform_service_extended.dart:155`) therefore never finds its
   session: an mDoc presentation from a scan cannot succeed.
2. `shares_only_selected` (`SharesOnlySelected`). `completeMdocResponse`
   (`SpruceIdHandlerRefactored.kt:538`) takes an empty selection for a missing
   one and discloses every field, against "Selective disclosure - share only
   necessary information" (`DEEP_LINKING.md:151`).
3. `clear_after_kill` (`ClearLeavesNothing`). `clear`
   ("Delete all stored credentials.", `wallet_credential_store.dart:167`)
   deletes what the index lists, and the body of a store that was killed before
   its index entry is not listed.
4. `shared_title` (`RemovedCardsAreDeleted`). `deleteCard` takes all cards of a
   title off the list and deletes one credential
   (`card_state_provider.dart:302`, against the comment at 307): the others
   return at the next start.

What the code does against its own words in five more places is in the models, and
the properties are stated so that they hold of it: as an exception (section 3), or of
what the code does decide.

* One scan, two answers. The button of the preview (`qr_scanner_enhanced.dart:748`)
  handles a result that the scan is handling already (`:222`), without the guard that
  says "Avoid duplicate processing" (`:123`): one scan then has two sessions and two
  consent views, and the verifier may get two answers. `ConsentViews` excepts a view
  asked for by a tap; `SentAsApproved` holds of each of the two views.
* Two names of a field. The consent view names fields by `$namespace/$field`
  (`presentation_request_view.dart:45`, `:150-153`). `completeMdocResponse` takes the
  namespace off (`SpruceIdHandlerRefactored.kt:533`), `completeVpRequest` does not
  (`:431`), so what it gives to the SDK is no field of the request, while the
  contract test selects by the bare name (`spruce_sdk_contract_test.dart:611`).
  `SentAsApproved` asks for the very keys that were ticked in a VP, and for nothing but
  their names and the required fields in an mDoc.
* One policy of several. "Evaluate a presentation request against policies"
  (`api.rs:115`) looks at the first policy only (`policy.rs:35`, with a TODO at 34).
  `JudgedOnVerifiedInput` speaks of the first, and of a list that can be read.
* A status set too early. One that is set before the load of the constructor has
  ended (`verification_state_provider.dart:8`, `:13`) is stored and then overwritten
  on the screen, where the test 'loads and persists verification state' expects both
  to be the same. `ShownIsStored` and its like except it (`early`).
* Stops of a presentation. The view is left by 'Stop Presentation'
  (`mdl_presentation_view.dart:128`), and its `dispose` throws before the stop (`:49`),
  so the transport goes on advertising; on the mock a second presentation then gets
  nothing, because `startAdvertising` returns early (`mock_proximity_transport.dart:17`).
  If the stop were reached, a presentation that is started during its await would lose
  its subscription to it (`proximity_service.dart:45`), although `startPresentation` is
  to "start listening" (`:31`). `ListensAsAsked` excepts the latter (`hurried`), and
  `BegunEnds` follows a presentation for which the mock has begun its timer.

Seen while modelling. These are behaviours of the models, and no property above
contradicts them; most are worth a look by whoever owns the code.

*Presentation.* A rejected or abandoned session stays in the map for the life of
the process. A failed completion is reported with the message of the mDoc
completion. A code whose processing failed is ignored until another is scanned.
The button of the preview opens a second dialog for an offer too. The delayed hide
of one preview can hide the next (`qr_scanner_enhanced.dart:207`), and one that is
reversed while it slides in never completes `forward()`, so the scanner stays busy
until it is left; `ScannerResumes` and `BegunEnds` except that case. No credential ever matches a request:
`requested_attributes`
(`qr_scanner_service_enhanced.dart:230`) is no member of what Rust returns. Over
an empty list of credentials every offer counts as fully compatible.

*Store and lists.* Unhiding two cards of one title undoes itself; a drop moves
the group at the shown index among all groups; `saveCards` fails on every
non-empty list and its key is never read; two overlapping calls of `store` would
lose an index entry, but nothing overlaps them. An older snapshot of the wallet
can overwrite a newer one (`credentials_provider.dart:304`); `OfferedIsListed`
holds at the moment the offer returns.

*Wallet operations.* Claims are `serde(skip)` (`credential.rs:115,128,193,231`),
so a restored credential has none. The full-date expiry of an mDoc never counts
as past (`credential.rs:72`). Two SD-JWTs of one holder have one id
(`operations/credentials.rs:189`). `wallet_create_proof_jwt` always returns an
error. `zk_prove_from_presentation_definition` proves the first predicate only.
A malformed registration is an error with `marty:` and none with `MARTY:`
(`operations/qr.rs:184`). An issuer without `authorization_endpoint` sends the
user to its own `/authorize` although the token endpoint comes from its
authorization server.

*Liveness and status.* The review does not ask again whether the challenge has
expired. Leaving the liveness view just before the last gesture is recognised
opens the review over the page under it. A review that is left during its request
never shows as pending. A cancellation made before the load has ended is undone on
the screen by it. With two revocation entries the
last one decides (`status_list_service.dart:156`); a check that fails replaces a
cached "revoked".

*Proximity.* An answer delayed past a stop goes to the next reader (`:70`). When the
plugin refuses to stop, the subscription stays and nobody is told
(`ble_proximity_transport.dart:59`, `proximity_service.dart:44`). The BLE listeners
are never cancelled and add to a closed controller.

*Bridge.* As many biometric calls as the pool has threads hold up every other
pooled call. Only `main_document.dart:11` awaits `RustLib.init` before `runApp`.

## 6. Not modelled

* The contents of credentials, requests and messages, and all cryptography: the
  properties tell apart only which request, which fields, which directory.
* The SpruceID SDK, the secure storage, the preferences, the BLE plugin, the
  model provider, flutter_rust_bridge and the marty protocol crates: libraries,
  present as the outcomes their callers can see. What
  `build_presentation_for_request` signs is in one of them.
* The encoding of values on the bridge, opaque policy handles and start-up.
* iOS: the W3C presentation methods of `W3CMethodHandler.swift` answer
  `{"status": "received"}` without submitting anything, so there is no
  behaviour to check yet; note that the scanner shows "Presentation submitted
  successfully" for it.
* Pass-through clients and managers, the web stand-in, layout and localisation,
  the privacy scores and hints of the QR service.
* Initialization and the credential pack of the Android handler.
* Loading IACA certificates from a directory, `checkRevocationStatus` and
  `checkSuspensionStatus` (projections of the same check), `reorderCard` and
  `refreshCards`: no caller. `getById` changes nothing.

## 7. What could come next

The plan this project began with (threads first, then what is answered to others,
what is stored, the rest of the application's state, then pure rules) is carried
out. What remains worth doing, in order:

1. Proofs: every safety and action property of the runs is proved. What is left are
   lemmas of general use, for example one on sequences shared by the proofs of the
   store, the bridge and the status lists, and liveness once the provers support it.
2. The credential pack of the Android handler, and the iOS presentation methods
   when they are written.
