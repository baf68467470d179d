------------------------------ MODULE Biometrics ------------------------------
(***************************************************************************)
(* The process-wide cache of the biometric worker: run_biometric and       *)
(* shutdown_biometrics of rust/src/biometrics.rs, over BiometricWorker.    *)
(*                                                                         *)
(* Every exported call (verify_face_match, assess_face_quality,            *)
(* estimate_face_age) resolves its models directory, takes the lifecycle   *)
(* lock, replaces the cached worker when it serves another directory, and  *)
(* runs its operation with the lock still held.                            *)
(***************************************************************************)
EXTENDS BiometricWorker

CONSTANTS Path,        \* values of the models_dir argument
          Canon,       \* Canon[p]: the directory p canonicalizes to, NoDir if refused
          NoCaller,    \* the lock is free
          NoWorker     \* no worker value

ASSUME CanonAssumption == Canon \in [Path -> Dir \cup {NoDir}]
ASSUME NoCallerAssumption == NoCaller \notin Caller
ASSUME NoWorkerAssumption == NoWorker \notin Worker

VARIABLES
  lock,      \* the mutex around the cache: its holder
  cached,    \* the Option<CachedBiometrics> it protects
  pc,        \* where each caller is
  target,    \* the canonical directory of each call, NoDir for shutdown_biometrics
  held,      \* a worker value owned by a caller's stack frame
  outcome    \* what each caller's last call returned

cacheVars == <<lock, cached, pc, target, held, outcome>>
vars == <<thread, sender, seed, provider, ready, queue, reply,
          lock, cached, pc, target, held, outcome>>

Empty == [dir |-> NoDir, worker |-> NoWorker]
Entry == [dir : Dir, worker : Worker]

CallerPhase == {"idle", "locking", "holding", "joining", "cold",
                "starting", "discarding", "sending", "waiting"}

TypeOK ==
  /\ WorkerTypeOK
  /\ lock \in Caller \cup {NoCaller}
  /\ cached \in Entry \cup {Empty}
  /\ pc \in [Caller -> CallerPhase]
  /\ target \in [Caller -> Dir \cup {NoDir}]
  /\ held \in [Caller -> Worker \cup {NoWorker}]
  /\ outcome \in [Caller -> {"none", "ok", "error"}]

Init ==
  /\ WorkerInit
  /\ lock = NoCaller
  /\ cached = Empty
  /\ pc = [c \in Caller |-> "idle"]
  /\ target = [c \in Caller |-> NoDir]
  /\ held = [c \in Caller |-> NoWorker]
  /\ outcome = [c \in Caller |-> "none"]

-----------------------------------------------------------------------------
Goto(c, phase) == pc' = [pc EXCEPT ![c] = phase]

\* The call returns; the guard it holds, if any, is dropped.
Return(c, result) ==
  /\ Goto(c, "idle")
  /\ outcome' = [outcome EXCEPT ![c] = result]
  /\ target' = [target EXCEPT ![c] = NoDir]
  /\ lock' = IF lock = c THEN NoCaller ELSE lock

IsShutdown(c) == target[c] = NoDir

\* A missing, blank, unreadable or non-directory path is refused before the lock.
CallRejected(c, p) ==
  /\ pc[c] = "idle"
  /\ Canon[p] = NoDir
  /\ Return(c, "error")
  /\ UNCHANGED <<workerVars, cached, held>>

Call(c, p) ==
  /\ pc[c] = "idle"
  /\ Canon[p] # NoDir
  /\ Goto(c, "locking")
  /\ target' = [target EXCEPT ![c] = Canon[p]]
  /\ outcome' = [outcome EXCEPT ![c] = "none"]
  /\ UNCHANGED <<workerVars, lock, cached, held>>

CallShutdown(c) ==
  /\ pc[c] = "idle"
  /\ Goto(c, "locking")
  /\ outcome' = [outcome EXCEPT ![c] = "none"]
  /\ UNCHANGED <<workerVars, lock, cached, target, held>>

Acquire(c) ==
  /\ pc[c] = "locking"
  /\ lock = NoCaller
  /\ lock' = c
  /\ Goto(c, "holding")
  /\ UNCHANGED <<workerVars, cached, target, held, outcome>>

\* Mutant: any cached worker will do.
CacheHitAnyDirectory(c) ==
  /\ pc[c] = "holding"
  /\ ~IsShutdown(c)
  /\ cached # Empty
  /\ Goto(c, "sending")
  /\ UNCHANGED <<workerVars, lock, cached, target, held, outcome>>

CacheHit(c) ==
  /\ pc[c] = "holding"
  /\ ~IsShutdown(c)
  /\ cached # Empty
  /\ cached.dir = target[c]
  /\ Goto(c, "sending")
  /\ UNCHANGED <<workerVars, lock, cached, target, held, outcome>>

CacheMiss(c) ==
  /\ pc[c] = "holding"
  /\ ~IsShutdown(c)
  /\ cached = Empty
  /\ Goto(c, "cold")
  /\ UNCHANGED <<workerVars, lock, cached, target, held, outcome>>

NothingCached(c) ==
  /\ pc[c] = "holding"
  /\ IsShutdown(c)
  /\ cached = Empty
  /\ Return(c, "ok")
  /\ UNCHANGED <<workerVars, cached, held>>

\* Mutant: a worker of the right directory is replaced too.
TakePreviousAlways(c) ==
  /\ pc[c] = "holding"
  /\ cached # Empty
  /\ held' = [held EXCEPT ![c] = cached.worker]
  /\ cached' = Empty
  /\ DropSender(cached.worker)
  /\ Goto(c, "joining")
  /\ UNCHANGED <<lock, target, outcome>>

\* The entry is taken out of the cache and its worker told to stop.
TakePrevious(c) ==
  /\ pc[c] = "holding"
  /\ cached # Empty
  /\ cached.dir # target[c]
  /\ held' = [held EXCEPT ![c] = cached.worker]
  /\ cached' = Empty
  /\ DropSender(cached.worker)
  /\ Goto(c, "joining")
  /\ UNCHANGED <<lock, target, outcome>>

\* Mutant: shutdown answers while the worker is still draining.
ShutdownReturnsEarly(c) ==
  /\ pc[c] = "joining"
  /\ IsShutdown(c)
  /\ held' = [held EXCEPT ![c] = NoWorker]
  /\ Return(c, "ok")
  /\ UNCHANGED <<workerVars, cached>>

ShutdownReturns(c) ==
  /\ pc[c] = "joining"
  /\ IsShutdown(c)
  /\ Join(held[c], "finished")
  /\ held' = [held EXCEPT ![c] = NoWorker]
  /\ Return(c, "ok")
  /\ UNCHANGED cached

PreviousStopped(c) ==
  /\ pc[c] = "joining"
  /\ ~IsShutdown(c)
  /\ Join(held[c], "finished")
  /\ held' = [held EXCEPT ![c] = NoWorker]
  /\ Goto(c, "cold")
  /\ UNCHANGED <<lock, cached, target, outcome>>

\* A worker that panicked fails the shutdown of it, and the call with it.
PreviousPanicked(c) ==
  /\ pc[c] = "joining"
  /\ Join(held[c], "panicked")
  /\ held' = [held EXCEPT ![c] = NoWorker]
  /\ Return(c, "error")
  /\ UNCHANGED cached

StartWorker(c, w) ==
  /\ pc[c] = "cold"
  /\ Spawn(w, target[c])
  /\ held' = [held EXCEPT ![c] = w]
  /\ Goto(c, "starting")
  /\ UNCHANGED <<lock, cached, target, outcome>>

SpawnFails(c) ==
  /\ pc[c] = "cold"
  /\ Return(c, "error")
  /\ UNCHANGED <<workerVars, cached, held>>

WorkerStarted(c) ==
  /\ pc[c] = "starting"
  /\ TakeReady(held[c], "ok")
  /\ cached' = [dir |-> target[c], worker |-> held[c]]
  /\ held' = [held EXCEPT ![c] = NoWorker]
  /\ Goto(c, "sending")
  /\ UNCHANGED <<lock, target, outcome>>

\* Mutant: a failed start returns without joining its thread.
WorkerAbandoned(c) ==
  /\ pc[c] = "starting"
  /\ \E message \in {"err", "closed"} : TakeReady(held[c], message)
  /\ held' = [held EXCEPT ![c] = NoWorker]
  /\ Return(c, "error")
  /\ UNCHANGED cached

WorkerRejected(c) ==
  /\ pc[c] = "starting"
  /\ \E message \in {"err", "closed"} : TakeReady(held[c], message)
  /\ Goto(c, "discarding")
  /\ UNCHANGED <<lock, cached, target, held, outcome>>

StartFails(c) ==
  /\ pc[c] = "discarding"
  /\ \E ended \in {"finished", "panicked"} : Join(held[c], ended)
  /\ held' = [held EXCEPT ![c] = NoWorker]
  /\ Return(c, "error")
  /\ UNCHANGED cached

RunSends(c) ==
  /\ pc[c] = "sending"
  /\ SendOperation(c, cached.worker)
  /\ Goto(c, "waiting")
  /\ UNCHANGED <<lock, cached, target, held, outcome>>

RunUnavailable(c) ==
  /\ pc[c] = "sending"
  /\ SendRefused(cached.worker)
  /\ Return(c, "error")
  /\ UNCHANGED <<cached, held>>

RunReturns(c) ==
  /\ pc[c] = "waiting"
  /\ \/ TakeReply(c, "value") /\ Return(c, "ok")
     \/ TakeReply(c, "lost") /\ Return(c, "error")
  /\ UNCHANGED <<cached, held>>

-----------------------------------------------------------------------------
LockedStep(c) ==
  \/ CacheHit(c) \/ CacheMiss(c) \/ NothingCached(c) \/ TakePrevious(c)
  \/ ShutdownReturns(c) \/ PreviousStopped(c) \/ PreviousPanicked(c)
  \/ \E w \in Worker : StartWorker(c, w)
  \/ SpawnFails(c) \/ WorkerStarted(c) \/ WorkerRejected(c) \/ StartFails(c)
  \/ RunSends(c) \/ RunUnavailable(c) \/ RunReturns(c)

WorkerStep(w) == ThreadStep(w) /\ UNCHANGED cacheVars

Next ==
  \/ \E c \in Caller : \/ \E p \in Path : Call(c, p) \/ CallRejected(c, p)
                       \/ CallShutdown(c)
                       \/ Acquire(c)
                       \/ LockedStep(c)
  \/ \E w \in Worker : WorkerStep(w)

\* Threads run: the worker thread's, and that of the caller holding the lock.
\* The mutex promises nothing to a particular waiter, so Acquire is only fair
\* for all waiters together.
Fairness ==
  /\ \A w \in Worker : WF_vars(WorkerStep(w))
  /\ \A c \in Caller : WF_vars(LockedStep(c))
  /\ WF_vars(\E c \in Caller : Acquire(c))

Spec == Init /\ [][Next]_vars /\ Fairness

-----------------------------------------------------------------------------
(***************************************************************************)
(* Two providers never exist at once, not even while one directory's       *)
(* worker replaces another's or a failed start is cleaned up: the models   *)
(* of one directory are in memory at a time ("Repeated calls reuse one     *)
(* worker/runtime/provider", biometrics.rs:84), and no thread outlives the *)
(* call that let go of it.                                                 *)
(***************************************************************************)
OneWorker == \A v, w \in Worker : thread[v] # "none" /\ thread[w] # "none" => v = w

(***************************************************************************)
(* An operation executes on a provider built from the directory its own    *)
(* caller asked for, however the callers' directories alternate.           *)
(***************************************************************************)
RightDirectory ==
  \A w \in Worker : thread[w] = "executing" =>
    /\ provider[w] # NoDir
    /\ target[Head(queue[w])] = provider[w]

(***************************************************************************)
(* While nobody holds the lock the cache accounts for every thread: an     *)
(* empty cache means no worker is left behind by any error path, and an    *)
(* entry is a started worker for its directory, or one that panicked.      *)
(***************************************************************************)
CacheAccountsForThreads ==
  lock = NoCaller =>
    IF cached = Empty THEN \A w \in Worker : thread[w] = "none"
    ELSE /\ seed[cached.worker] = cached.dir
         /\ thread[cached.worker] \in {"looping", "unwinding", "aborting", "panicked"}
         /\ ready[cached.worker] = "empty" /\ queue[cached.worker] = <<>>

(***************************************************************************)
(* shutdown_biometrics answers after pending calls have finished and the   *)
(* provider is released (biometrics.rs:323), whether it reports success or *)
(* that the worker had panicked: at that step no thread, no provider and   *)
(* no unanswered operation is left, and the cache is empty, so that the    *)
(* next call starts a new worker.                                          *)
(***************************************************************************)
ReleasedOnShutdown ==
  [][\A c \in Caller :
       pc[c] # "idle" /\ pc'[c] = "idle" /\ IsShutdown(c) =>
         /\ cached' = Empty
         /\ \A w \in Worker : thread'[w] = "none" /\ provider'[w] = NoDir
         /\ \A other \in Caller : reply'[other] = "none"]_vars

(***************************************************************************)
(* Whoever holds the lock gives it up, whatever fails on the way: an       *)
(* initialization that fails or panics, an operation that panics, a worker *)
(* already gone.  A hang would block every later biometric call.           *)
(***************************************************************************)
LockReleased == \A c \in Caller : lock = c ~> lock # c

-----------------------------------------------------------------------------
\* The abstract service these modules implement.  The provider is the live one
\* of whichever thread owns it; it is broken once its operation panicked.

Owners == {w \in Worker : provider[w] # NoDir}

AbstractProvider == IF Owners = {} THEN NoDir ELSE provider[CHOOSE w \in Owners : TRUE]
AbstractBroken == \E w \in Owners : thread[w] \in {"unwinding", "aborting"}
AbstractCall == [c \in Caller |->
  IF pc[c] = "idle" THEN <<"idle", NoDir>>
  ELSE IF IsShutdown(c) THEN <<"shutdown", NoDir>> ELSE <<"verify", target[c]>>]
AbstractVerdict == [c \in Caller |->
  CASE reply[c] = "value" -> "ok"
    [] reply[c] = "lost" -> "error"
    [] OTHER -> outcome[c]]

Service == INSTANCE BiometricService
             WITH provider <- AbstractProvider, broken <- AbstractBroken,
                  call <- AbstractCall, verdict <- AbstractVerdict

(***************************************************************************)
(* The lock, the cache and the worker together behave as the abstract      *)
(* service: one provider slot, filled only when empty, serving only calls  *)
(* of its own directory, and a shutdown that succeeds only on an empty     *)
(* slot (the promises of biometrics.rs:80-84 and 323-324).                 *)
(***************************************************************************)
ImplementsService == Service!Spec
=============================================================================
