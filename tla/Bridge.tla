-------------------------------- MODULE Bridge --------------------------------
(***************************************************************************)
(* Calls from Dart to Rust.  One isolate runs all of Dart: it encodes the  *)
(* arguments and enters the wire function, which decodes them on the same  *)
(* thread.  A normal function then joins the queue of a pool of threads,   *)
(* an async one is awaited by the tokio runtime, and a sync one is         *)
(* computed while the isolate stands still.  A panic is caught and sent    *)
(* like an error.  The answers come back through one port per call, in any *)
(* order, and are decoded when the isolate is free.  Four of the functions *)
(* (biometrics.rs) take the process-wide lock of the biometric worker and  *)
(* keep it until the worker has answered (module Biometrics).              *)
(***************************************************************************)
EXTENDS BridgeApi, FiniteSets

CONSTANTS
  Call,      \* the calls that Dart makes, each of them once
  Function,  \* the functions they are made to
  Thread,    \* the threads of the pool
  NoCall     \* stands for nobody

ASSUME BridgeAssumption ==
  /\ Function \subseteq DOMAIN Wire
  /\ NoCall \notin Call

VARIABLES
  stage,     \* how far each call is
  function,  \* what each call is made to
  received,  \* the argument each parameter of the API function was given
  result,    \* what Rust sends back: a value, an error or a panic
  outcome,   \* what the caller gets
  isolate,   \* the call the isolate is inside of
  queue,     \* the calls that wait for a thread of the pool
  thread,    \* the call each thread of the pool is busy with
  lock,      \* the call that holds the biometric lock
  hangs      \* the biometric worker may never answer: its models run in a library

vars ==
  <<stage, function, received, result, outcome, isolate, queue, thread, lock, hangs>>

Stages ==
  {"idle", "queued", "running", "locking", "locked", "posted", "answered",
   "misrouted"}

TypeOK ==
  /\ stage \in [Call -> Stages]
  /\ function \in [Call -> Function \cup {"none"}]
  /\ DOMAIN received = Call
  /\ result \in [Call -> {"none", "success", "error", "panic"}]
  /\ outcome \in [Call -> {"none", "value", "exception", "undecodable"}]
  /\ isolate \in Call \cup {NoCall}
  /\ queue \in Seq(Call)
  /\ thread \in [Thread -> Call \cup {NoCall}]
  /\ lock \in Call \cup {NoCall}
  /\ hangs \in BOOLEAN

Init ==
  /\ stage = [c \in Call |-> "idle"]
  /\ function = [c \in Call |-> "none"]
  /\ received = [c \in Call |-> <<>>]
  /\ result = [c \in Call |-> "none"]
  /\ outcome = [c \in Call |-> "none"]
  /\ isolate = NoCall
  /\ queue = <<>>
  /\ thread = [t \in Thread |-> NoCall]
  /\ lock = NoCall
  /\ hangs \in BOOLEAN

-----------------------------------------------------------------------------
\* The functions

\* Callers of run_biometric, and shutdown_biometrics
NeedsWorker(f) ==
  f \in {"assess_face_quality", "estimate_face_age", "verify_face_match",
         "shutdown_biometrics"}

\* The async functions of api.rs, which await the network
Awaits(f) ==
  f \in {"sync_policies", "wallet_validate_qr_input",
         "wallet_parse_credential_offer", "wallet_fetch_issuer_metadata",
         "wallet_exchange_pre_auth_token", "wallet_exchange_auth_code_token",
         "wallet_request_credential", "wallet_parse_presentation_request",
         "wallet_build_and_submit_presentation",
         "wallet_build_and_submit_zk_presentation"}

\* The arguments by position, as Dart passes them, become the parameters of
\* the API function as the wire function names them.
Decoded(f) ==
  LET passed == Task[f].args
      named == Wire[f].args
  IN [p \in {named[i] : i \in DOMAIN named} |->
        passed[CHOOSE i \in DOMAIN named : named[i] = p]]

\* Where a call goes; a Dart task and a wire function of different kinds miss
\* each other: one waits on a port that the other does not know.
Executor(f) ==
  IF Task[f].immediate THEN IF Wire[f].mode = "sync" THEN "isolate" ELSE "nowhere"
  ELSE CASE Wire[f].mode = "normal" -> "pool"
         [] Wire[f].mode = "async" -> "runtime"
         [] OTHER -> "nowhere"

-----------------------------------------------------------------------------
\* Dart calls; arguments are decoded before the wire function returns.

Request(c, f) ==
  /\ isolate = NoCall
  /\ stage[c] = "idle"
  /\ function' = [function EXCEPT ![c] = f]
  /\ received' = [received EXCEPT ![c] = Decoded(f)]
  /\ stage' = [stage EXCEPT ![c] =
                 CASE Executor(f) = "pool" -> "queued"
                   [] Executor(f) = "nowhere" -> "misrouted"
                   [] OTHER -> "running"]
  /\ queue' = IF Executor(f) = "pool" THEN Append(queue, c) ELSE queue
  /\ isolate' = IF Executor(f) = "isolate" THEN c ELSE NoCall
  /\ UNCHANGED <<result, outcome, thread, lock, hangs>>

\* Mutant: the call taken stays at the head of the queue.
TakeCallAgain(t) ==
  /\ thread[t] = NoCall
  /\ queue # <<>>
  /\ thread' = [thread EXCEPT ![t] = Head(queue)]
  /\ stage' = [stage EXCEPT ![Head(queue)] = "running"]
  /\ UNCHANGED <<function, received, result, outcome, isolate, queue, lock, hangs>>

\* A free thread of the pool takes the call that waits longest.
TakeCall(t) ==
  /\ thread[t] = NoCall
  /\ queue # <<>>
  /\ thread' = [thread EXCEPT ![t] = Head(queue)]
  /\ queue' = Tail(queue)
  /\ stage' = [stage EXCEPT ![Head(queue)] = "running"]
  /\ UNCHANGED <<function, received, result, outcome, isolate, lock, hangs>>

\* run_biometric finds its models directory, or shutdown_biometrics begins:
\* from here on the thread waits for the lock.
WantLock(c) ==
  /\ stage[c] = "running"
  /\ NeedsWorker(function[c])
  /\ stage' = [stage EXCEPT ![c] = "locking"]
  /\ UNCHANGED
       <<function, received, result, outcome, isolate, queue, thread, lock, hangs>>

TakeLock(c) ==
  /\ stage[c] = "locking"
  /\ lock = NoCall
  /\ lock' = c
  /\ stage' = [stage EXCEPT ![c] = "locked"]
  /\ UNCHANGED
       <<function, received, result, outcome, isolate, queue, thread, hangs>>

\* The function returns or panics, whatever runs it; its thread is free again.
Post(c, answer) ==
  /\ result' = [result EXCEPT ![c] = answer]
  /\ stage' = [stage EXCEPT ![c] = "posted"]
  /\ thread' = [t \in Thread |-> IF thread[t] = c THEN NoCall ELSE thread[t]]
  /\ UNCHANGED <<function, received, outcome, isolate, queue, hangs>>

\* Without a models directory run_biometric returns before it takes the lock.
Return(c) ==
  /\ stage[c] = "running"
  /\ \E answer \in {"success", "error", "panic"} :
       /\ answer = "error" => Wire[function[c]].fails
       /\ NeedsWorker(function[c]) =>
            answer = "error" /\ function[c] # "shutdown_biometrics"
       /\ Post(c, answer)
  /\ UNCHANGED lock

ReturnFromWorker(c) ==
  /\ stage[c] = "locked"
  /\ \E answer \in {"success", "error"} : Post(c, answer)
  /\ lock' = NoCall

\* The isolate is told, at once by a sync call and through the port by the
\* others, and decodes what it is told.
Receive(c) ==
  /\ stage[c] = "posted"
  /\ isolate \in {NoCall, c}
  /\ isolate' = NoCall
  /\ stage' = [stage EXCEPT ![c] = "answered"]
  /\ outcome' = [outcome EXCEPT ![c] =
       CASE result[c] = "success" -> "value"
         [] result[c] = "error" /\ ~Task[function[c]].decodesErrors ->
              "undecodable"
         [] OTHER -> "exception"]
  /\ UNCHANGED <<function, received, result, queue, thread, lock, hangs>>

-----------------------------------------------------------------------------

Work(c) == WantLock(c) \/ TakeLock(c) \/ Return(c) \/ ReturnFromWorker(c)

Done == \A c \in Call : stage[c] \in {"answered", "misrouted"}

Next ==
  \/ \E c \in Call :
       \/ \E f \in Function : Request(c, f)
       \/ WantLock(c)
       \/ TakeLock(c)
       \/ Return(c)
       \/ ReturnFromWorker(c)
       \/ Receive(c)
  \/ \E t \in Thread : TakeCall(t)
  \/ Done /\ UNCHANGED vars

\* Threads run, awaited requests end, and the event loop of the isolate comes
\* to every message; that Dart makes a call is nobody's duty, and neither is the
\* answer of a worker that hangs.
Fairness ==
  /\ \A t \in Thread : WF_vars(TakeCall(t))
  /\ \A c \in Call : WF_vars(Receive(c)) /\ WF_vars((hangs => lock # c) /\ Work(c))

Spec == Init /\ [][Next]_vars /\ Fairness

-----------------------------------------------------------------------------

Busy == {"running", "locking", "locked"}

\* A call is in one place: once in the queue, or on one thread, or elsewhere
\* than in the pool; and one call at most is at the worker, the one that
\* holds the lock.
OnePlace ==
  /\ \A c \in Call :
       stage[c] = "queued" <=> \E i \in DOMAIN queue : queue[i] = c
  /\ \A i, j \in DOMAIN queue : queue[i] = queue[j] => i = j
  /\ \A t, u \in Thread :
       thread[t] # NoCall => /\ stage[thread[t]] \in Busy
                             /\ isolate # thread[t]
                             /\ thread[u] = thread[t] => u = t
  /\ \A c \in Call : stage[c] = "locked" <=> lock = c

\* The two generated halves agree on positions and formats only, and yet every
\* parameter of an API function is given the argument the caller named so, and
\* an error is only ever sent to a caller that has a decoder for it: the plain
\* functions, whose decodeErrorData is null, answer with a value or a panic.
HalvesAgree ==
  \A c \in Call :
    /\ \A p \in DOMAIN received[c] : received[c][p] = p
    /\ outcome[c] # "undecodable"

AllThreadsAwaitWorker ==
  \A t \in Thread : thread[t] # NoCall /\ NeedsWorker(function[thread[t]])

\* Every call is answered, whatever other calls are in flight: no two of them
\* wait for each other's thread, lock or isolate, and none is left on a port
\* that nothing is sent to.  A biometric worker that hangs costs the calls that
\* need it, and the calls that queue for a thread when as many biometric calls
\* as there are threads are waiting; calls on the isolate and on the network go
\* on, so the screen does.
AnsweredDespiteWorker ==
  \A c \in Call :
    (stage[c] # "idle" /\ (hangs => ~NeedsWorker(function[c])))
      ~> \/ stage[c] = "answered"
         \/ /\ hangs /\ stage[c] = "queued"
            /\ ~Awaits(function[c])
            /\ AllThreadsAwaitWorker

=============================================================================
