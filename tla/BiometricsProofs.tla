--------------------------- MODULE BiometricsProofs ---------------------------
(***************************************************************************)
(* Theorems about Biometrics for any number of callers, workers, paths and *)
(* directories.                                                            *)
(*                                                                         *)
(* The inductive invariant says what the lock gives its holder: all other  *)
(* callers are outside, so a worker exists only as the cached entry or as  *)
(* the one worker value in the holder's hands, never both, and its thread  *)
(* can only be in the phases that the holder's own phase allows.  With     *)
(* four more facts every step is shown to be one of BiometricService, or   *)
(* to change nothing that service shows.                                   *)
(***************************************************************************)
EXTENDS Biometrics, TLAPS

LockedPhase == {"holding", "joining", "cold", "starting", "discarding",
                "sending", "waiting"}

\* The holder of the lock, and nobody else, is between lock and return.
Exclusion == \A c \in Caller : pc[c] \in LockedPhase <=> lock = c

\* What a caller has in hand, and what the cache holds, in each phase.
Hands ==
  \A c \in Caller :
    /\ pc[c] \in {"joining", "starting", "discarding"} <=> held[c] # NoWorker
    /\ pc[c] \in {"joining", "cold", "starting", "discarding"} => cached = Empty
    /\ pc[c] \in {"cold", "starting", "discarding", "sending", "waiting"}
         => target[c] # NoDir
    /\ pc[c] \in {"sending", "waiting"} => cached # Empty /\ cached.dir = target[c]

\* No thread exists that is neither cached nor in somebody's hands.
InPlay(w) == \/ cached # Empty /\ cached.worker = w
             \/ \E c \in Caller : held[c] = w
NoOrphan == \A w \in Worker : thread[w] # "none" => InPlay(w)

\* The threads the program still refers to, by the way it does.
CachedWorker ==
  cached # Empty =>
    /\ thread[cached.worker] \in
         {"looping", "executing", "unwinding", "aborting", "panicked"}
    /\ seed[cached.worker] = cached.dir
    /\ sender[cached.worker]

HeldWorker ==
  \A c \in Caller :
    /\ pc[c] = "starting" =>
         /\ seed[held[c]] = target[c]
         /\ sender[held[c]]
         /\ ready[held[c]] = "empty" => thread[held[c]] = "initializing"
         /\ ready[held[c]] = "ok" => thread[held[c]] = "looping"
         /\ ready[held[c]] \in {"err", "closed"} =>
              thread[held[c]] \in {"exiting", "aborting", "finished", "panicked"}
    /\ pc[c] = "discarding" =>
         thread[held[c]] \in {"exiting", "aborting", "finished", "panicked"}
    /\ pc[c] = "joining" =>
         thread[held[c]] \in
           {"looping", "unwinding", "exiting", "aborting", "finished", "panicked"}

\* A message on a ready channel is for a starter that has not read it.
ReadyForStarter ==
  \A w \in Worker : ready[w] # "empty" =>
    \E c \in Caller : pc[c] = "starting" /\ held[c] = w

\* At most one operation is accepted at a time: that of the caller waiting for it.
OneOperation ==
  \A w \in Worker :
    /\ thread[w] = "executing" => queue[w] # <<>>
    /\ queue[w] # <<>> =>
         \E c \in Caller : /\ queue[w] = <<c>>
                           /\ pc[c] = "waiting"
                           /\ reply[c] = "pending"
                           /\ cached.worker = w

ReplyForWaiter == \A c \in Caller : reply[c] # "none" => pc[c] = "waiting"

\* The provider belongs to the thread's live phases and to its own directory.
ProviderOwned ==
  \A w \in Worker :
    /\ thread[w] \in {"looping", "executing", "unwinding"} =>
         provider[w] = seed[w] /\ seed[w] # NoDir
    /\ thread[w] \in {"none", "initializing", "finished", "panicked"} =>
         provider[w] = NoDir
    /\ thread[w] = "initializing" => seed[w] # NoDir

IInv ==
  /\ TypeOK
  /\ Exclusion
  /\ Hands
  /\ NoOrphan
  /\ CachedWorker
  /\ HeldWorker
  /\ ReadyForStarter
  /\ OneOperation
  /\ ReplyForWaiter
  /\ ProviderOwned

-----------------------------------------------------------------------------
\* The initial state: no worker, nothing cached, everybody outside.
LEMMA InitEstablishes == Init => IInv
BY NoDirAssumption, NoCallerAssumption, NoWorkerAssumption
   DEF Init, WorkerInit, IInv, TypeOK, WorkerTypeOK, Entry, Empty, CallerPhase,
       ThreadPhase, ReadyContent, ReplyContent, LockedPhase, InPlay, Exclusion,
       Hands, NoOrphan, CachedWorker, HeldWorker, ReadyForStarter, OneOperation,
       ReplyForWaiter, ProviderOwned

\* A step of a worker thread.  It changes no caller, so the ownership parts are
\* kept; what has to be shown is that the phase it moves to is one its owner's
\* phase allows.
LEMMA WorkerStepPreserves ==
  ASSUME IInv, NEW w \in Worker, WorkerStep(w)
  PROVE  IInv'
<1> USE NoDirAssumption, NoCallerAssumption, NoWorkerAssumption
    DEF IInv, TypeOK, WorkerTypeOK, Entry, Empty, CallerPhase, ThreadPhase,
        ReadyContent, ReplyContent, LockedPhase, InPlay, Exclusion, Hands,
        NoOrphan, CachedWorker, HeldWorker, ReadyForStarter, OneOperation,
        ReplyForWaiter, ProviderOwned, cacheVars
<1>0. ThreadStep(w) /\ UNCHANGED cacheVars
  BY DEF WorkerStep
\* Only the holder's starting phase has an initializing thread in it.
<1>a. ASSUME thread[w] = "initializing"
      PROVE  \E c \in Caller : pc[c] = "starting" /\ held[c] = w
  <2>1. ~(cached # Empty /\ cached.worker = w)
    BY <1>a
  <2>2. PICK c \in Caller : held[c] = w
    BY <1>a, <2>1, ZenonT(30)
  <2>3. pc[c] \in {"joining", "starting", "discarding"}
    BY <2>2
  <2> QED
    BY <1>a, <2>2, <2>3, ZenonT(30)
<1>1. CASE InitializeOk(w)
  <2>1. PICK c \in Caller : pc[c] = "starting" /\ held[c] = w
    BY <1>a, <1>1 DEF InitializeOk
  <2>2. TypeOK'
    BY <1>0, <1>1, <2>1 DEF InitializeOk
  <2>3. Exclusion'
    BY <1>0, <1>1, <2>1 DEF InitializeOk
  <2>4. Hands'
    BY <1>0, <1>1, <2>1 DEF InitializeOk
  <2>5. NoOrphan'
    BY <1>0, <1>1, <2>1 DEF InitializeOk
  <2>6. CachedWorker'
    BY <1>0, <1>1, <2>1 DEF InitializeOk
  <2>7. HeldWorker'
    BY <1>0, <1>1, <2>1 DEF InitializeOk
  <2>8. ReadyForStarter'
    BY <1>0, <1>1, <2>1 DEF InitializeOk
  <2>9. OneOperation'
    BY <1>0, <1>1, <2>1 DEF InitializeOk
  <2>10. ReplyForWaiter'
    BY <1>0, <1>1, <2>1 DEF InitializeOk
  <2>11. ProviderOwned'
    BY <1>0, <1>1, <2>1 DEF InitializeOk
  <2> QED
    BY <2>2, <2>3, <2>4, <2>5, <2>6, <2>7, <2>8, <2>9, <2>10, <2>11
<1>2. CASE InitializeErr(w)
  <2>1. PICK c \in Caller : pc[c] = "starting" /\ held[c] = w
    BY <1>a, <1>2 DEF InitializeErr
  <2>2. TypeOK'
    BY <1>0, <1>2, <2>1 DEF InitializeErr
  <2>3. Exclusion'
    BY <1>0, <1>2, <2>1 DEF InitializeErr
  <2>4. Hands'
    BY <1>0, <1>2, <2>1 DEF InitializeErr
  <2>5. NoOrphan'
    BY <1>0, <1>2, <2>1 DEF InitializeErr
  <2>6. CachedWorker'
    BY <1>0, <1>2, <2>1 DEF InitializeErr
  <2>7. HeldWorker'
    BY <1>0, <1>2, <2>1 DEF InitializeErr
  <2>8. ReadyForStarter'
    BY <1>0, <1>2, <2>1 DEF InitializeErr
  <2>9. OneOperation'
    BY <1>0, <1>2, <2>1 DEF InitializeErr
  <2>10. ReplyForWaiter'
    BY <1>0, <1>2, <2>1 DEF InitializeErr
  <2>11. ProviderOwned'
    BY <1>0, <1>2, <2>1 DEF InitializeErr
  <2> QED
    BY <2>2, <2>3, <2>4, <2>5, <2>6, <2>7, <2>8, <2>9, <2>10, <2>11
<1>3. CASE InitializePanics(w)
  <2>1. PICK c \in Caller : pc[c] = "starting" /\ held[c] = w
    BY <1>a, <1>3 DEF InitializePanics
  <2>2. TypeOK'
    BY <1>0, <1>3, <2>1 DEF InitializePanics
  <2>3. Exclusion'
    BY <1>0, <1>3, <2>1 DEF InitializePanics
  <2>4. Hands'
    BY <1>0, <1>3, <2>1 DEF InitializePanics
  <2>5. NoOrphan'
    BY <1>0, <1>3, <2>1 DEF InitializePanics
  <2>6. CachedWorker'
    BY <1>0, <1>3, <2>1 DEF InitializePanics
  <2>7. HeldWorker'
    BY <1>0, <1>3, <2>1 DEF InitializePanics
  <2>8. ReadyForStarter'
    BY <1>0, <1>3, <2>1 DEF InitializePanics
  <2>9. OneOperation'
    BY <1>0, <1>3, <2>1 DEF InitializePanics
  <2>10. ReplyForWaiter'
    BY <1>0, <1>3, <2>1 DEF InitializePanics
  <2>11. ProviderOwned'
    BY <1>0, <1>3, <2>1 DEF InitializePanics
  <2> QED
    BY <2>2, <2>3, <2>4, <2>5, <2>6, <2>7, <2>8, <2>9, <2>10, <2>11
<1>4. CASE TakeOperation(w)
  BY <1>0, <1>4, SMTT(30) DEF TakeOperation
<1>5. CASE CompleteOperation(w)
  BY <1>0, <1>5, SMTT(30) DEF CompleteOperation
<1>6. CASE OperationPanics(w)
  BY <1>0, <1>6, SMTT(30) DEF OperationPanics
<1>7. CASE DropReceiver(w)
  BY <1>0, <1>7, SMTT(30) DEF DropReceiver, Accepted
<1>8. CASE LoopEnds(w)
  BY <1>0, <1>8, SMTT(30) DEF LoopEnds
<1>9. CASE ThreadEnds(w)
  BY <1>0, <1>9, SMTT(30) DEF ThreadEnds
<1> QED
  BY <1>0, <1>1, <1>2, <1>3, <1>4, <1>5, <1>6, <1>7, <1>8, <1>9, ZenonT(30) DEF ThreadStep

\* A step of a caller: only CallRejected, Call, CallShutdown and Acquire are
\* possible without the lock, and every other step is the holder's.
LEMMA CallerStepPreserves ==
  ASSUME IInv, NEW c \in Caller,
         \/ \E p \in Path : Call(c, p) \/ CallRejected(c, p)
         \/ CallShutdown(c) \/ Acquire(c) \/ LockedStep(c)
  PROVE  IInv'
<1> USE CanonAssumption, NoDirAssumption, NoCallerAssumption, NoWorkerAssumption
    DEF IInv, TypeOK, WorkerTypeOK, Entry, Empty, CallerPhase, ThreadPhase,
        ReadyContent, ReplyContent, LockedPhase, InPlay, Exclusion, Hands,
        NoOrphan, CachedWorker, HeldWorker, ReadyForStarter, OneOperation,
        ReplyForWaiter, ProviderOwned, workerVars, Goto, IsShutdown
<1>1. CASE \E p \in Path : Call(c, p)
  BY <1>1, SMTT(30) DEF Call
<1>2. CASE \E p \in Path : CallRejected(c, p)
  BY <1>2, SMTT(30) DEF CallRejected, Return
<1>3. CASE CallShutdown(c)
  BY <1>3, SMTT(30) DEF CallShutdown
<1>4. CASE Acquire(c)
  BY <1>4, SMTT(30) DEF Acquire
<1>5. CASE CacheHit(c)
  BY <1>5, SMTT(30) DEF CacheHit
<1>6. CASE CacheMiss(c)
  BY <1>6, SMTT(30) DEF CacheMiss
<1>7. CASE NothingCached(c)
  BY <1>7, SMTT(30) DEF NothingCached, Return
<1>8. CASE TakePrevious(c)
  BY <1>8, SMTT(30) DEF TakePrevious, DropSender
<1>9. CASE ShutdownReturns(c)
  BY <1>9, SMTT(30) DEF ShutdownReturns, Join, Return
<1>10. CASE PreviousStopped(c)
  BY <1>10, SMTT(30) DEF PreviousStopped, Join
<1>11. CASE PreviousPanicked(c)
  BY <1>11, SMTT(30) DEF PreviousPanicked, Join, Return
<1>12. CASE \E w \in Worker : StartWorker(c, w)
  <2>1. PICK w \in Worker : StartWorker(c, w)
    BY <1>12
  <2>2. ready[w] = "empty" /\ queue[w] = <<>>
    BY <2>1 DEF StartWorker, Spawn
  <2>3. TypeOK'
    BY <2>1, <2>2 DEF StartWorker, Spawn
  <2>4. Exclusion'
    BY <2>1, <2>2 DEF StartWorker, Spawn
  <2>5. Hands'
    BY <2>1, <2>2 DEF StartWorker, Spawn
  <2>6. NoOrphan'
    <3>1. \A v \in Worker : thread[v] = "none"
      <4>1. pc[c] = "cold" /\ cached = Empty /\ lock = c
        BY <2>1 DEF StartWorker
      <4>2. \A b \in Caller : held[b] # NoWorker => b = c
        BY <4>1
      <4>3. held[c] = NoWorker
        BY <4>1
      <4>4. \A b \in Caller : held[b] = NoWorker
        BY <4>2, <4>3
      <4>5. \A v \in Worker : ~InPlay(v)
        BY <4>1, <4>4
      <4>6. NoOrphan
        OBVIOUS
      <4> HIDE DEF IInv, TypeOK, WorkerTypeOK, Entry, Empty, CallerPhase,
                   ThreadPhase, InPlay, Exclusion, Hands, CachedWorker,
                   HeldWorker, ReadyForStarter, OneOperation, ReplyForWaiter,
                   ProviderOwned
      <4> QED
        BY <4>5, <4>6
    <3>2. \A v \in Worker : thread'[v] # "none" => v = w
      BY <2>1, <3>1 DEF StartWorker, Spawn
    <3>3. held'[c] = w
      BY <2>1 DEF StartWorker
    <3> QED
      BY <3>2, <3>3
  <2>7. CachedWorker'
    BY <2>1, <2>2 DEF StartWorker, Spawn
  <2>8. HeldWorker'
    BY <2>1, <2>2 DEF StartWorker, Spawn
  <2>9. ReadyForStarter'
    BY <2>1, <2>2 DEF StartWorker, Spawn
  <2>10. OneOperation'
    BY <2>1, <2>2 DEF StartWorker, Spawn
  <2>11. ReplyForWaiter'
    BY <2>1, <2>2 DEF StartWorker, Spawn
  <2>12. ProviderOwned'
    BY <2>1, <2>2 DEF StartWorker, Spawn
  <2> QED
    BY <2>3, <2>4, <2>5, <2>6, <2>7, <2>8, <2>9, <2>10, <2>11, <2>12
<1>13. CASE SpawnFails(c)
  BY <1>13, SMTT(30) DEF SpawnFails, Return
<1>14. CASE WorkerStarted(c)
  BY <1>14, SMTT(30) DEF WorkerStarted, TakeReady
<1>15. CASE WorkerRejected(c)
  BY <1>15, SMTT(30) DEF WorkerRejected, TakeReady
<1>16. CASE StartFails(c)
  BY <1>16, SMTT(30) DEF StartFails, Join, Return
<1>17. CASE RunSends(c)
  <2>1. cached \in Entry /\ lock = c
    BY <1>17 DEF RunSends
  <2>2. queue[cached.worker] = <<>>
    BY <1>17, <2>1 DEF RunSends
  <2>3. queue'[cached.worker] = <<c>>
    BY <1>17, <2>1, <2>2 DEF RunSends, SendOperation
  <2>4. TypeOK'
    BY <1>17, <2>1, <2>2, <2>3 DEF RunSends, SendOperation
  <2>5. Exclusion'
    BY <1>17, <2>1, <2>2, <2>3 DEF RunSends, SendOperation
  <2>6. Hands'
    BY <1>17, <2>1, <2>2, <2>3 DEF RunSends, SendOperation
  <2>7. NoOrphan'
    BY <1>17, <2>1, <2>2, <2>3 DEF RunSends, SendOperation
  <2>8. CachedWorker'
    BY <1>17, <2>1, <2>2, <2>3 DEF RunSends, SendOperation
  <2>9. HeldWorker'
    BY <1>17, <2>1, <2>2, <2>3 DEF RunSends, SendOperation
  <2>10. ReadyForStarter'
    BY <1>17, <2>1, <2>2, <2>3 DEF RunSends, SendOperation
  <2>11. OneOperation'
    BY <1>17, <2>1, <2>2, <2>3 DEF RunSends, SendOperation
  <2>12. ReplyForWaiter'
    BY <1>17, <2>1, <2>2, <2>3 DEF RunSends, SendOperation
  <2>13. ProviderOwned'
    BY <1>17, <2>1, <2>2, <2>3 DEF RunSends, SendOperation
  <2> QED
    BY <2>4, <2>5, <2>6, <2>7, <2>8, <2>9, <2>10, <2>11, <2>12, <2>13
<1>18. CASE RunUnavailable(c)
  BY <1>18, SMTT(30) DEF RunUnavailable, SendRefused, Return
<1>19. CASE RunReturns(c)
  <2>1. PICK message \in {"value", "lost"} : TakeReply(c, message)
    BY <1>19 DEF RunReturns
  <2>2. PICK result \in {"ok", "error"} : Return(c, result)
    BY <1>19 DEF RunReturns
  <2>3. pc[c] = "waiting" /\ UNCHANGED <<cached, held>>
    BY <1>19 DEF RunReturns
  <2> QED
    BY <2>1, <2>2, <2>3, SMTT(30) DEF TakeReply, Return
<1> QED
  BY <1>1, <1>2, <1>3, <1>4, <1>5, <1>6, <1>7, <1>8, <1>9, <1>10, <1>11,
     <1>12, <1>13, <1>14, <1>15, <1>16, <1>17, <1>18, <1>19, ZenonT(30) DEF LockedStep

LEMMA InvariantIsKept == IInv /\ [Next]_vars => IInv'
<1> SUFFICES ASSUME IInv, [Next]_vars PROVE IInv'
  OBVIOUS
<1>1. CASE Next
  BY <1>1, WorkerStepPreserves, CallerStepPreserves DEF Next
<1>2. CASE UNCHANGED vars
  BY <1>2 DEF vars, IInv, TypeOK, WorkerTypeOK, Exclusion, Hands, NoOrphan,
              InPlay, CachedWorker, HeldWorker, ReadyForStarter, OneOperation,
              ReplyForWaiter, ProviderOwned
<1> QED
  BY <1>1, <1>2

\* The inductive invariant holds throughout.
THEOREM Invariant == Spec => []IInv
<1> QED
  BY InitEstablishes, InvariantIsKept, PTL DEF Spec

-----------------------------------------------------------------------------
(***************************************************************************)
(* Every variable keeps its type; in particular the cache is empty or an   *)
(* entry with a real directory and a real worker, whatever failed on the   *)
(* way there.                                                              *)
(***************************************************************************)
THEOREM TypeCorrect == Spec => []TypeOK
<1>1. IInv => TypeOK
  BY DEF IInv
<1> QED
  BY Invariant, <1>1, PTL

\* A thread is cached or in the lock holder's hands, and never both.
LEMMA OneWorkerAtMost == IInv => OneWorker
<1> SUFFICES ASSUME IInv, NEW v \in Worker, NEW w \in Worker,
                    thread[v] # "none", thread[w] # "none"
             PROVE  v = w
  BY DEF OneWorker
<1>1. InPlay(v) /\ InPlay(w)
  BY DEF IInv, NoOrphan
<1>2. \A b, c \in Caller : held[b] # NoWorker /\ held[c] # NoWorker => b = c
  BY DEF IInv, Hands, Exclusion, LockedPhase
<1>3. \A c \in Caller : held[c] # NoWorker => cached = Empty
  BY DEF IInv, Hands
<1> QED
  BY <1>1, <1>2, <1>3, NoWorkerAssumption DEF InPlay

(***************************************************************************)
(* There is never more than one worker thread, hence never more than one   *)
(* provider and runtime, for any number of concurrent callers and          *)
(* directories (run_biometric joins the previous worker before it starts   *)
(* the next, biometrics.rs:298-312).                                       *)
(***************************************************************************)
THEOREM AtMostOneWorker == Spec => []OneWorker
<1> QED BY Invariant, OneWorkerAtMost, PTL

(***************************************************************************)
(* An operation is executed only by a provider built from the directory    *)
(* its caller passed: the directory comparison and the send happen under   *)
(* one critical section, so no other caller can swap the worker between.   *)
(***************************************************************************)
THEOREM ServedByRightDirectory == Spec => []RightDirectory
<1>1. IInv => RightDirectory
  <2> SUFFICES ASSUME IInv, NEW w \in Worker, thread[w] = "executing"
               PROVE  provider[w] # NoDir /\ target[Head(queue[w])] = provider[w]
    BY DEF RightDirectory
  <2>1. PICK c \in Caller : /\ queue[w] = <<c>>
                            /\ pc[c] = "waiting"
                            /\ cached.worker = w
    BY DEF IInv, OneOperation
  <2>2. provider[w] = seed[w] /\ seed[w] # NoDir
    BY DEF IInv, ProviderOwned
  <2>3. cached # Empty /\ cached.dir = target[c]
    BY <2>1 DEF IInv, Hands
  <2>4. seed[w] = cached.dir
    BY <2>1, <2>3 DEF IInv, CachedWorker
  <2>5. Head(queue[w]) = c
    BY <2>1
  <2> QED
    BY <2>2, <2>3, <2>4, <2>5
<1> QED
  BY Invariant, <1>1, PTL

(***************************************************************************)
(* Between calls every thread is accounted for: none without a cached      *)
(* worker, and the cached one is idle or dying, with nothing accepted and  *)
(* nothing unread.  This is what lets a failed call be retried.            *)
(***************************************************************************)
THEOREM NothingLeaks == Spec => []CacheAccountsForThreads
<1>1. IInv => CacheAccountsForThreads
  <2> SUFFICES ASSUME IInv, lock = NoCaller
               PROVE  IF cached = Empty THEN \A w \in Worker : thread[w] = "none"
                      ELSE /\ seed[cached.worker] = cached.dir
                           /\ thread[cached.worker] \in
                                {"looping", "unwinding", "aborting", "panicked"}
                           /\ ready[cached.worker] = "empty"
                           /\ queue[cached.worker] = <<>>
    BY DEF CacheAccountsForThreads
  <2>1. \A c \in Caller : pc[c] \notin LockedPhase
    BY NoCallerAssumption DEF IInv, Exclusion
  <2>2. \A c \in Caller : held[c] = NoWorker
    BY <2>1 DEF IInv, Hands, LockedPhase
  <2>3. CASE cached = Empty
    BY <2>2, <2>3, NoWorkerAssumption DEF IInv, NoOrphan, InPlay
  <2>4. CASE cached # Empty
    <3>1. cached.worker \in Worker
      BY <2>4 DEF IInv, TypeOK, Entry
    <3>2. queue[cached.worker] = <<>>
      BY <2>1, <3>1 DEF IInv, OneOperation, LockedPhase
    <3>3. ready[cached.worker] = "empty"
      BY <2>1, <3>1 DEF IInv, ReadyForStarter, LockedPhase
    <3>4. thread[cached.worker] # "executing"
      BY <3>1, <3>2 DEF IInv, OneOperation
    <3> QED
      BY <2>4, <3>2, <3>3, <3>4 DEF IInv, CachedWorker
  <2> QED
    BY <2>3, <2>4
<1> QED
  BY Invariant, <1>1, PTL

(***************************************************************************)
(* A call to shutdown_biometrics that returns, with success or with the    *)
(* panic of the worker, leaves nothing behind: no thread, no provider, no  *)
(* unanswered operation, an empty cache (biometrics.rs:323-334).           *)
(***************************************************************************)
THEOREM ShutdownReleases == Spec => ReleasedOnShutdown
<1>1. ASSUME IInv, [Next]_vars, NEW c \in Caller,
             pc[c] # "idle", pc'[c] = "idle", IsShutdown(c)
      PROVE  /\ cached' = Empty
             /\ \A w \in Worker : thread'[w] = "none" /\ provider'[w] = NoDir
             /\ \A other \in Caller : reply'[other] = "none"
  <2>1. NothingCached(c) \/ ShutdownReturns(c) \/ PreviousPanicked(c)
    <3>1. ASSUME NEW b \in Caller, NEW p \in Path, Call(b, p) \/ CallRejected(b, p)
          PROVE  FALSE
      BY <1>1, <3>1 DEF Call, CallRejected, Return, Goto, IInv, TypeOK
    <3>2. ASSUME NEW b \in Caller, CallShutdown(b) \/ Acquire(b)
          PROVE  FALSE
      BY <1>1, <3>2 DEF CallShutdown, Acquire, Goto, IInv, TypeOK
    <3>3. ASSUME NEW w \in Worker, WorkerStep(w)
          PROVE  FALSE
      BY <1>1, <3>3 DEF WorkerStep, cacheVars
    <3>4. ASSUME NEW b \in Caller, LockedStep(b), b # c
          PROVE  FALSE
      BY <1>1, <3>4
         DEF LockedStep, CacheHit, CacheMiss, NothingCached, TakePrevious,
             ShutdownReturns, PreviousStopped, PreviousPanicked, StartWorker,
             SpawnFails, WorkerStarted, WorkerRejected, StartFails, RunSends,
             RunUnavailable, RunReturns, Return, Goto, IInv, TypeOK
    <3>5. ASSUME UNCHANGED vars
          PROVE  FALSE
      BY <1>1, <3>5 DEF vars
    <3>6. PICK b \in Caller : LockedStep(b) /\ b = c
      <4>1. Next
        BY <1>1, <3>5
      <4>2. \E b \in Caller : LockedStep(b)
        BY <4>1, <3>1, <3>2, <3>3 DEF Next
      <4> QED
        BY <4>2, <3>4
    <3>7. pc[c] \notin {"cold", "starting", "discarding", "sending", "waiting"}
      BY <1>1 DEF IInv, Hands, IsShutdown
    <3> QED
      BY <1>1, <3>6, <3>7
         DEF LockedStep, CacheHit, CacheMiss, TakePrevious, PreviousStopped,
             StartWorker, SpawnFails, WorkerStarted, WorkerRejected, StartFails,
             RunSends, RunUnavailable, RunReturns, Return, Goto, IInv, TypeOK
  <2>2. lock = c /\ \A b \in Caller : b # c => pc[b] \notin LockedPhase
    BY <1>1, <2>1
       DEF NothingCached, ShutdownReturns, PreviousPanicked, IInv, Exclusion,
           LockedPhase
  <2>3. \A b \in Caller : b # c => held[b] = NoWorker
    BY <1>1, <2>2 DEF IInv, Hands, LockedPhase
  <2>4. \A b \in Caller : reply[b] = "none"
    BY <1>1, <2>1, <2>2
       DEF NothingCached, ShutdownReturns, PreviousPanicked, IInv,
           ReplyForWaiter, LockedPhase
  <2>5. cached = Empty
    BY <1>1, <2>1
       DEF NothingCached, ShutdownReturns, PreviousPanicked, IInv, Hands
  <2>6. cached' = Empty /\ reply' = reply
    BY <1>1, <2>1, <2>5
       DEF NothingCached, ShutdownReturns, PreviousPanicked, Join, workerVars
  <2>7. \A w \in Worker : thread'[w] = "none"
    <3>1. CASE NothingCached(c)
      <4>1. held[c] = NoWorker
        BY <1>1, <3>1 DEF NothingCached, IInv, Hands
      <4> QED
        BY <1>1, <2>3, <2>5, <3>1, <4>1, NoWorkerAssumption
           DEF NothingCached, IInv, NoOrphan, InPlay, workerVars
    <3>2. CASE ShutdownReturns(c) \/ PreviousPanicked(c)
      <4>1. \A w \in Worker : thread[w] # "none" => w = held[c]
        BY <1>1, <2>3, <2>5, NoWorkerAssumption DEF IInv, NoOrphan, InPlay
      <4>2. thread' = [thread EXCEPT ![held[c]] = "none"]
        BY <3>2 DEF ShutdownReturns, PreviousPanicked, Join
      <4> QED
        BY <1>1, <4>1, <4>2 DEF IInv, TypeOK, WorkerTypeOK
    <3> QED
      BY <1>1, <2>1, <3>1, <3>2
  <2>8. \A w \in Worker : provider'[w] = NoDir
    BY <1>1, <2>7, InvariantIsKept DEF IInv, ProviderOwned
  <2> QED
    BY <2>4, <2>6, <2>7, <2>8
<1>2. IInv /\ [Next]_vars
        => [\A c \in Caller :
              pc[c] # "idle" /\ pc'[c] = "idle" /\ IsShutdown(c) =>
                /\ cached' = Empty
                /\ \A w \in Worker : thread'[w] = "none" /\ provider'[w] = NoDir
                /\ \A other \in Caller : reply'[other] = "none"]_vars
  BY <1>1
<1> QED
  BY Invariant, <1>2, PTL DEF Spec, ReleasedOnShutdown

-----------------------------------------------------------------------------
(***************************************************************************)
(* The refinement.  What the abstract service is told needs four more      *)
(* facts: a call in progress has no outcome yet, a worker that is stopped  *)
(* is of no use to the call that stops it, a provider is given up only for *)
(* such a call or after a panic, and a provider is of its thread's own     *)
(* directory to the end.                                                   *)
(***************************************************************************)
Undecided ==
  \A c \in Caller : /\ pc[c] # "idle" => outcome[c] = "none"
                    /\ pc[c] = "idle" => target[c] = NoDir

StoppedIsUseless == \A c \in Caller : pc[c] = "joining" => target[c] # seed[held[c]]

StoppedByCall ==
  \A w \in Worker : thread[w] = "exiting" /\ provider[w] # NoDir =>
    \E c \in Caller : pc[c] = "joining" /\ held[c] = w

OwnDirectory == \A w \in Worker : provider[w] # NoDir => provider[w] = seed[w]

ImplInv ==
  /\ IInv
  /\ Undecided
  /\ StoppedIsUseless
  /\ StoppedByCall
  /\ OwnDirectory

LEMMA InitImplInv == Init => ImplInv
BY InitEstablishes
   DEF Init, WorkerInit, ImplInv, Undecided, StoppedIsUseless, StoppedByCall, OwnDirectory

\* A looping thread without a sender was told to stop by the call that holds it.
LEMMA StoppedIsJoined ==
  ASSUME IInv, NEW w \in Worker, thread[w] = "looping", ~sender[w]
  PROVE  \E c \in Caller : pc[c] = "joining" /\ held[c] = w
<1>1. ~(cached # Empty /\ cached.worker = w)
  BY DEF IInv, CachedWorker
<1>2. PICK c \in Caller : held[c] = w
  BY <1>1 DEF IInv, NoOrphan, InPlay
<1>3. pc[c] \in {"joining", "starting", "discarding"}
  BY <1>2, NoWorkerAssumption DEF IInv, Hands
<1> QED BY <1>2, <1>3 DEF IInv, HeldWorker

LEMMA ThreadKeepsImplInv ==
  ASSUME ImplInv, NEW w \in Worker, WorkerStep(w)
  PROVE  ImplInv'
<1>1. IInv'
  BY WorkerStepPreserves DEF ImplInv
<1>2. ThreadStep(w) /\ UNCHANGED cacheVars /\ seed' = seed
  BY DEF WorkerStep, ThreadStep, InitializeOk, InitializeErr, InitializePanics,
         TakeOperation, CompleteOperation, OperationPanics, DropReceiver, LoopEnds,
         ThreadEnds
<1>3. Undecided' /\ StoppedIsUseless'
  BY <1>2 DEF ImplInv, Undecided, StoppedIsUseless, cacheVars
<1>4. StoppedByCall'
  <2> SUFFICES ASSUME NEW v \in Worker, thread'[v] = "exiting", provider'[v] # NoDir
               PROVE  \E c \in Caller : pc[c] = "joining" /\ held[c] = v
    BY <1>2 DEF StoppedByCall, cacheVars
  <2>1. thread \in [Worker -> ThreadPhase] /\ provider \in [Worker -> Dir \cup {NoDir}]
    BY DEF ImplInv, IInv, TypeOK, WorkerTypeOK
  <2>2. \/ thread[v] = "exiting" /\ provider[v] # NoDir
        \/ v = w /\ LoopEnds(w)
        \/ v = w /\ InitializeErr(w)
    BY <1>2, <2>1
       DEF ThreadStep, InitializeOk, InitializeErr, InitializePanics, TakeOperation,
           CompleteOperation, OperationPanics, DropReceiver, LoopEnds, ThreadEnds
  <2>3. ~(v = w /\ InitializeErr(w))
    BY DEF InitializeErr, ImplInv, IInv, ProviderOwned
  <2>4. CASE thread[v] = "exiting" /\ provider[v] # NoDir
    BY <2>4 DEF ImplInv, StoppedByCall
  <2>5. CASE v = w /\ LoopEnds(w)
    BY <2>5, StoppedIsJoined DEF LoopEnds, ImplInv
  <2> QED BY <2>2, <2>3, <2>4, <2>5
<1>5. OwnDirectory'
  <2> SUFFICES ASSUME NEW v \in Worker, provider'[v] # NoDir PROVE provider'[v] = seed[v]
    BY <1>2 DEF OwnDirectory
  <2>1. provider'[v] = provider[v] \/ provider'[v] = seed[v]
    BY <1>2
       DEF ImplInv, IInv, TypeOK, WorkerTypeOK, ThreadStep, InitializeOk, InitializeErr,
           InitializePanics, TakeOperation, CompleteOperation, OperationPanics,
           DropReceiver, LoopEnds, ThreadEnds
  <2> QED BY <2>1 DEF ImplInv, OwnDirectory
<1> QED BY <1>1, <1>3, <1>4, <1>5 DEF ImplInv

AnyCallerStep(c) ==
  \/ \E p \in Path : Call(c, p) \/ CallRejected(c, p)
  \/ CallShutdown(c) \/ Acquire(c) \/ LockedStep(c)

LEMMA CallerKeepsImplInv ==
  ASSUME ImplInv, NEW c \in Caller, AnyCallerStep(c)
  PROVE  ImplInv'
<1>1. IInv'
  BY CallerStepPreserves, Zenon DEF ImplInv, AnyCallerStep
<1>2. /\ pc \in [Caller -> CallerPhase] /\ outcome \in [Caller -> {"none", "ok", "error"}]
      /\ target \in [Caller -> Dir \cup {NoDir}] /\ held \in [Caller -> Worker \cup {NoWorker}]
      /\ thread \in [Worker -> ThreadPhase] /\ seed \in [Worker -> Dir \cup {NoDir}]
  BY DEF ImplInv, IInv, TypeOK, WorkerTypeOK
<1> USE DEF AnyCallerStep, LockedStep, Call, CallRejected, CallShutdown, Acquire, CacheHit,
            CacheMiss, NothingCached, TakePrevious, ShutdownReturns, PreviousStopped,
            PreviousPanicked, StartWorker, SpawnFails, WorkerStarted, WorkerRejected,
            StartFails, RunSends, RunUnavailable, RunReturns, Return, Goto, workerVars,
            DropSender, Join, Spawn, TakeReady, SendOperation, SendRefused, TakeReply
<1>3. Undecided'
  BY <1>2, SMTT(60) DEF ImplInv, Undecided
\* What a step of c does to the threads and the other callers.
<1>4. /\ provider' = provider
      /\ \A b \in Caller \ {c} : pc'[b] = pc[b] /\ held'[b] = held[b] /\ target'[b] = target[b]
  BY <1>2, SMTT(60)
<1>5. pc'[c] = "joining" => TakePrevious(c)
  BY <1>2, SMTT(60)
<1>6. \/ seed' = seed /\ thread' = thread
      \/ pc[c] \in LockedPhase
  BY <1>2, SMTT(60) DEF LockedPhase
<1>7. \A w \in Worker : \/ seed'[w] = seed[w] /\ thread'[w] = thread[w]
                        \/ provider[w] = NoDir /\ thread'[w] \in {"none", "initializing"}
  BY <1>2, SMTT(60) DEF ImplInv, IInv, ProviderOwned, CallerPhase
<1> HIDE DEF AnyCallerStep, LockedStep
<1>8. OwnDirectory'
  BY <1>4, <1>7 DEF ImplInv, OwnDirectory
<1>9. \A b \in Caller \ {c} : pc[b] = "joining" => seed' = seed /\ thread' = thread
  BY <1>6 DEF ImplInv, IInv, Exclusion, LockedPhase
<1>10. StoppedIsUseless'
  <2> SUFFICES ASSUME NEW b \in Caller, pc'[b] = "joining" PROVE target'[b] # seed'[held'[b]]
    BY DEF StoppedIsUseless
  <2>1. CASE b # c
    BY <1>4, <1>9, <2>1 DEF ImplInv, StoppedIsUseless
  <2>2. CASE b = c
    BY <1>2, <1>5, <2>2 DEF TakePrevious, DropSender, ImplInv, IInv, CachedWorker
  <2> QED BY <2>1, <2>2
<1>11. StoppedByCall'
  <2> SUFFICES ASSUME NEW w \in Worker, thread'[w] = "exiting", provider'[w] # NoDir
               PROVE  \E b \in Caller : pc'[b] = "joining" /\ held'[b] = w
    BY DEF StoppedByCall
  <2>1. thread[w] = "exiting" /\ provider[w] # NoDir
    BY <1>4, <1>7
  <2>2. PICK b \in Caller : pc[b] = "joining" /\ held[b] = w
    BY <2>1 DEF ImplInv, StoppedByCall
  <2>3. b # c
    <3>1. CASE pc[c] = "joining" /\ held[c] = w
      BY <1>2, <2>1, <3>1 DEF AnyCallerStep, LockedStep
    <3> QED BY <2>2, <3>1
  <2> QED BY <1>4, <2>2, <2>3
<1> QED BY <1>1, <1>3, <1>8, <1>10, <1>11 DEF ImplInv

-----------------------------------------------------------------------------
\* The abstract provider is that of the one thread that owns one.
OwnerView ==
  /\ \A w \in Worker : provider[w] # NoDir =>
       /\ AbstractProvider = provider[w]
       /\ AbstractBroken <=> thread[w] \in {"unwinding", "aborting"}
  /\ (\A w \in Worker : provider[w] = NoDir) => AbstractProvider = NoDir /\ ~AbstractBroken
  /\ AbstractBroken \in BOOLEAN

LEMMA OwnerIsTheThread == IInv => OwnerView
<1> SUFFICES ASSUME IInv PROVE OwnerView
  OBVIOUS
<1>1. ASSUME NEW w \in Worker, provider[w] # NoDir PROVE Owners = {w}
  <2>1. \A v \in Owners : thread[v] # "none"
    BY DEF Owners, IInv, ProviderOwned
  <2> QED BY <1>1, <2>1, OneWorkerAtMost DEF Owners, OneWorker
<1>2. ASSUME NEW w \in Worker, provider[w] # NoDir
      PROVE  /\ AbstractProvider = provider[w]
             /\ AbstractBroken <=> thread[w] \in {"unwinding", "aborting"}
  <2>1. (CHOOSE v \in Owners : TRUE) = w
    BY <1>1, <1>2
  <2> QED BY <1>1, <1>2, <2>1 DEF AbstractProvider, AbstractBroken
<1>3. (\A w \in Worker : provider[w] = NoDir) => AbstractProvider = NoDir /\ ~AbstractBroken
  BY DEF Owners, AbstractProvider, AbstractBroken
<1> QED BY <1>2, <1>3 DEF OwnerView, AbstractBroken

\* What the abstract service sees of a caller.
CallOf(c) ==
  IF pc[c] = "idle" THEN <<"idle", NoDir>>
  ELSE IF target[c] = NoDir THEN <<"shutdown", NoDir>> ELSE <<"verify", target[c]>>

VerdictOf(c) ==
  IF reply[c] = "value" THEN "ok" ELSE IF reply[c] = "lost" THEN "error" ELSE outcome[c]

LEMMA AbstractCalls ==
  /\ AbstractCall = [c \in Caller |-> CallOf(c)]
  /\ AbstractVerdict = [c \in Caller |-> VerdictOf(c)]
BY DEF AbstractCall, CallOf, IsShutdown, AbstractVerdict, VerdictOf

\* A step that concerns one caller concerns its call and its verdict only.
LEMMA OneCallChanges ==
  ASSUME NEW c \in Caller,
         \A b \in Caller \ {c} : CallOf(b)' = CallOf(b) /\ VerdictOf(b)' = VerdictOf(b)
  PROVE  /\ AbstractCall' = [AbstractCall EXCEPT ![c] = CallOf(c)']
         /\ AbstractVerdict' = [AbstractVerdict EXCEPT ![c] = VerdictOf(c)']
<1> DEFINE k == CallOf(c)'
           v == VerdictOf(c)'
<1>1. /\ AbstractCall' = [b \in Caller |-> CallOf(b)']
      /\ AbstractVerdict' = [b \in Caller |-> VerdictOf(b)']
  BY DEF AbstractCall, CallOf, IsShutdown, AbstractVerdict, VerdictOf
<1>2. /\ AbstractCall' = [b \in Caller |-> IF b = c THEN k ELSE CallOf(b)]
      /\ AbstractVerdict' = [b \in Caller |-> IF b = c THEN v ELSE VerdictOf(b)]
  BY <1>1
<1> HIDE DEF k, v
<1>3. /\ AbstractCall' = [AbstractCall EXCEPT ![c] = k]
      /\ AbstractVerdict' = [AbstractVerdict EXCEPT ![c] = v]
  BY <1>2, AbstractCalls
<1> QED BY <1>3 DEF k, v

\* A call that is neither invoked, refused nor finished by the step looks the same.
LEMMA NoCallChanges ==
  ASSUME \A b \in Caller : CallOf(b)' = CallOf(b) /\ VerdictOf(b)' = VerdictOf(b)
  PROVE  AbstractCall' = AbstractCall /\ AbstractVerdict' = AbstractVerdict
<1>1. /\ AbstractCall' = [b \in Caller |-> CallOf(b)']
      /\ AbstractVerdict' = [b \in Caller |-> VerdictOf(b)']
  BY DEF AbstractCall, CallOf, IsShutdown, AbstractVerdict, VerdictOf
<1> QED BY <1>1, AbstractCalls

-----------------------------------------------------------------------------
\* A step of a caller leaves the provider and the other callers alone.
LEMMA CallerFrame ==
  ASSUME ImplInv, NEW c \in Caller, AnyCallerStep(c)
  PROVE  /\ AbstractProvider' = AbstractProvider
         /\ AbstractBroken' = AbstractBroken
         /\ \A b \in Caller \ {c} : CallOf(b)' = CallOf(b) /\ VerdictOf(b)' = VerdictOf(b)
<1>1. /\ pc \in [Caller -> CallerPhase] /\ outcome \in [Caller -> {"none", "ok", "error"}]
      /\ target \in [Caller -> Dir \cup {NoDir}] /\ reply \in [Caller -> ReplyContent]
      /\ thread \in [Worker -> ThreadPhase] /\ cached \in Entry \cup {Empty}
  BY DEF ImplInv, IInv, TypeOK, WorkerTypeOK
<1>2. /\ provider' = provider
      /\ \A w \in Worker : thread'[w] = thread[w] \/ provider[w] = NoDir
      /\ \A b \in Caller \ {c} : /\ pc'[b] = pc[b] /\ target'[b] = target[b]
                                 /\ reply'[b] = reply[b] /\ outcome'[b] = outcome[b]
  BY <1>1, SMTT(60)
     DEF ImplInv, IInv, ProviderOwned, AnyCallerStep, LockedStep, Call, CallRejected,
         CallShutdown, Acquire, CacheHit, CacheMiss, NothingCached, TakePrevious,
         ShutdownReturns, PreviousStopped, PreviousPanicked, StartWorker, SpawnFails,
         WorkerStarted, WorkerRejected, StartFails, RunSends, RunUnavailable, RunReturns,
         Return, Goto, workerVars, DropSender, Join, Spawn, TakeReady, SendOperation,
         SendRefused, TakeReply
<1>3. Owners' = Owners
  BY <1>2 DEF Owners
<1>4. AbstractProvider' = AbstractProvider
  BY <1>2, <1>3 DEF AbstractProvider
<1>5. AbstractBroken' = AbstractBroken
  <2>1. \A w \in Owners : thread'[w] = thread[w]
    BY <1>2 DEF Owners
  <2> QED BY <1>3, <2>1 DEF AbstractBroken
<1> QED BY <1>2, <1>4, <1>5 DEF CallOf, VerdictOf

\* A call that returns with a verdict it may have is a Finish of the service.
LEMMA ReturningFinishes ==
  ASSUME ImplInv, NEW c \in Caller, AnyCallerStep(c), pc[c] # "idle", pc'[c] = "idle",
         reply'[c] = "none",
         \/ reply[c] \in {"none", "lost"} /\ outcome'[c] = "error"
         \/ reply[c] = "value" /\ outcome'[c] = "ok"
         \/ /\ reply[c] = "none" /\ outcome'[c] = "ok" /\ target[c] = NoDir
            /\ \A w \in Worker : provider[w] = NoDir
  PROVE  Service!Finish(c)
<1>1. /\ AbstractProvider' = AbstractProvider /\ AbstractBroken' = AbstractBroken
      /\ AbstractCall' = [AbstractCall EXCEPT ![c] = CallOf(c)']
      /\ AbstractVerdict' = [AbstractVerdict EXCEPT ![c] = VerdictOf(c)']
  BY CallerFrame, OneCallChanges
<1>2. CallOf(c)' = <<"idle", NoDir>> /\ CallOf(c) # <<"idle", NoDir>> /\ VerdictOf(c)' = outcome'[c]
  BY DEF CallOf, VerdictOf
<1>3. AbstractCall[c] = CallOf(c) /\ AbstractVerdict[c] = VerdictOf(c)
  BY AbstractCalls
<1>4. outcome[c] = "none"
  BY DEF ImplInv, Undecided
<1>5. \/ VerdictOf(c) # "none" /\ VerdictOf(c)' = VerdictOf(c)
      \/ VerdictOf(c) = "none" /\ VerdictOf(c)' = "error"
      \/ /\ CallOf(c) = <<"shutdown", NoDir>> /\ VerdictOf(c) = "none" /\ VerdictOf(c)' = "ok"
         /\ \A w \in Worker : provider[w] = NoDir
  BY <1>2, <1>4 DEF VerdictOf, CallOf
<1>6. VerdictOf(c)' = VerdictOf(c) => AbstractVerdict' = AbstractVerdict
  BY <1>1, AbstractCalls
<1>7. (\A w \in Worker : provider[w] = NoDir) => AbstractProvider = NoDir
  BY OwnerIsTheThread DEF ImplInv, OwnerView
<1> HIDE DEF ImplInv
<1> QED BY <1>1, <1>2, <1>3, <1>5, <1>6, <1>7 DEF Service!Finish, Service!Idle

\* When a shutdown succeeds the provider is gone.
LEMMA NoProviderAtShutdown ==
  ASSUME IInv, NEW c \in Caller, NothingCached(c) \/ ShutdownReturns(c)
  PROVE  \A w \in Worker : provider[w] = NoDir
<1>1. pc[c] \in {"holding", "joining"} /\ cached = Empty
  BY DEF NothingCached, ShutdownReturns, IInv, Hands
<1>2. \A b \in Caller \ {c} : held[b] = NoWorker
  BY <1>1 DEF IInv, Hands, Exclusion, LockedPhase
<1>3. \A w \in Worker : thread[w] # "none" => held[c] = w
  BY <1>1, <1>2, NoWorkerAssumption DEF IInv, NoOrphan, InPlay
<1>4. CASE NothingCached(c)
  <2>1. held[c] = NoWorker
    BY <1>4 DEF NothingCached, IInv, Hands
  <2> QED BY <1>3, <2>1, NoWorkerAssumption DEF IInv, ProviderOwned
<1>5. CASE ShutdownReturns(c)
  <2>1. thread[held[c]] = "finished"
    BY <1>5 DEF ShutdownReturns, Join
  <2> QED BY <1>3, <2>1 DEF IInv, ProviderOwned
<1> QED BY <1>4, <1>5

LEMMA CallerStepSimulates ==
  ASSUME ImplInv, NEW c \in Caller, AnyCallerStep(c)
  PROVE  [Service!Next]_(Service!serviceVars)
<1>1. /\ AbstractProvider' = AbstractProvider /\ AbstractBroken' = AbstractBroken
      /\ AbstractCall' = [AbstractCall EXCEPT ![c] = CallOf(c)']
      /\ AbstractVerdict' = [AbstractVerdict EXCEPT ![c] = VerdictOf(c)']
  BY CallerFrame, OneCallChanges
<1>2. AbstractCall[c] = CallOf(c) /\ AbstractVerdict[c] = VerdictOf(c)
  BY AbstractCalls
<1>3. /\ pc \in [Caller -> CallerPhase] /\ outcome \in [Caller -> {"none", "ok", "error"}]
      /\ target \in [Caller -> Dir \cup {NoDir}] /\ reply \in [Caller -> ReplyContent]
  BY DEF ImplInv, IInv, TypeOK, WorkerTypeOK
<1>4. pc[c] # "waiting" => reply[c] = "none"
  BY DEF ImplInv, IInv, ReplyForWaiter
<1>5. pc[c] = "idle" => target[c] = NoDir
  BY DEF ImplInv, Undecided
<1>6. ASSUME NEW p \in Path, Call(c, p) PROVE Service!Next
  <2>1. /\ CallOf(c) = <<"idle", NoDir>> /\ CallOf(c)' = <<"verify", Canon[p]>>
        /\ VerdictOf(c)' = "none" /\ Canon[p] \in Dir
    BY <1>3, <1>4, <1>6, CanonAssumption DEF Call, Goto, CallOf, VerdictOf, workerVars
  <2>2. Service!Invoke(c, <<"verify", Canon[p]>>)
    BY <1>1, <1>2, <2>1 DEF Service!Invoke, Service!Idle
  <2> QED BY <2>1, <2>2 DEF Service!Next, Service!Request
<1>7. ASSUME NEW p \in Path, CallRejected(c, p) PROVE Service!Next
  <2>1. /\ CallOf(c) = <<"idle", NoDir>> /\ CallOf(c)' = CallOf(c)
        /\ VerdictOf(c)' = "error"
    BY <1>3, <1>4, <1>7 DEF CallRejected, Return, Goto, CallOf, VerdictOf, workerVars
  <2>2. AbstractCall' = AbstractCall
    BY <1>1, <2>1, AbstractCalls
  <2>3. Service!Refuse(c)
    BY <1>1, <1>2, <2>1, <2>2 DEF Service!Refuse, Service!Idle
  <2> QED BY <2>3 DEF Service!Next
<1>8. CASE CallShutdown(c)
  <2>1. /\ CallOf(c) = <<"idle", NoDir>> /\ CallOf(c)' = <<"shutdown", NoDir>>
        /\ VerdictOf(c)' = "none"
    BY <1>3, <1>4, <1>5, <1>8 DEF CallShutdown, Goto, CallOf, VerdictOf, workerVars
  <2>2. Service!Invoke(c, <<"shutdown", NoDir>>)
    BY <1>1, <1>2, <2>1 DEF Service!Invoke, Service!Idle
  <2> QED BY <2>2 DEF Service!Next, Service!Request
<1>9. CASE NothingCached(c) \/ ShutdownReturns(c)
  <2>1. \A w \in Worker : provider[w] = NoDir
    BY <1>9, NoProviderAtShutdown DEF ImplInv
  <2>2. /\ pc[c] # "idle" /\ pc'[c] = "idle" /\ reply[c] = "none" /\ reply'[c] = "none"
        /\ outcome'[c] = "ok" /\ target[c] = NoDir
    BY <1>3, <1>4, <1>9
       DEF NothingCached, ShutdownReturns, Return, Goto, IsShutdown, Join, workerVars
  <2> QED BY <2>1, <2>2, ReturningFinishes DEF Service!Next
<1>10. CASE PreviousPanicked(c) \/ SpawnFails(c) \/ StartFails(c) \/ RunUnavailable(c)
  <2>1. /\ pc[c] # "idle" /\ pc'[c] = "idle" /\ reply[c] = "none" /\ reply'[c] = "none"
        /\ outcome'[c] = "error"
    BY <1>3, <1>4, <1>10
       DEF PreviousPanicked, SpawnFails, StartFails, RunUnavailable, Return, Goto, Join,
           SendRefused, workerVars
  <2> QED BY <2>1, ReturningFinishes DEF Service!Next
<1>11. CASE RunReturns(c)
  <2>1. /\ pc[c] # "idle" /\ pc'[c] = "idle" /\ reply'[c] = "none"
        /\ \/ reply[c] = "value" /\ outcome'[c] = "ok"
           \/ reply[c] = "lost" /\ outcome'[c] = "error"
    BY <1>3, <1>11 DEF RunReturns, Return, Goto, TakeReply
  <2> QED BY <2>1, ReturningFinishes DEF Service!Next
<1>12. CASE \/ Acquire(c) \/ CacheHit(c) \/ CacheMiss(c) \/ TakePrevious(c)
            \/ PreviousStopped(c) \/ (\E w \in Worker : StartWorker(c, w))
            \/ WorkerStarted(c) \/ WorkerRejected(c) \/ RunSends(c)
  <2>1. /\ pc[c] # "idle" /\ pc'[c] # "idle" /\ target' = target /\ outcome' = outcome
        /\ reply[c] = "none" /\ reply'[c] \in {"none", "pending"}
    BY <1>3, <1>4, <1>12, SMTT(30)
       DEF Acquire, CacheHit, CacheMiss, TakePrevious, PreviousStopped, StartWorker,
           WorkerStarted, WorkerRejected, RunSends, Goto, DropSender, Join, Spawn,
           TakeReady, SendOperation, workerVars
  <2>2. CallOf(c)' = CallOf(c) /\ VerdictOf(c)' = VerdictOf(c)
    BY <2>1 DEF CallOf, VerdictOf
  <2>3. AbstractCall' = AbstractCall /\ AbstractVerdict' = AbstractVerdict
    BY <2>2, CallerFrame, NoCallChanges
  <2> QED BY <1>1, <2>3 DEF Service!serviceVars
<1> QED
  BY <1>6, <1>7, <1>8, <1>9, <1>10, <1>11, <1>12, Zenon DEF AnyCallerStep, LockedStep

-----------------------------------------------------------------------------
\* The caller whose operation a thread is at waits for it, and wants what the
\* thread's provider was built from.
LEMMA HeadWantsProvider ==
  ASSUME ImplInv, NEW w \in Worker, thread[w] \in {"executing", "unwinding"}, queue[w] # <<>>
  PROVE  \E c \in Caller : /\ queue[w] = <<c>>
                           /\ reply[c] = "pending"
                           /\ VerdictOf(c) = "none"
                           /\ provider[w] # NoDir
                           /\ CallOf(c) = <<"verify", provider[w]>>
<1>1. PICK c \in Caller : /\ queue[w] = <<c>>
                          /\ pc[c] = "waiting"
                          /\ reply[c] = "pending"
                          /\ cached.worker = w
  BY DEF ImplInv, IInv, OneOperation
<1>2. cached # Empty /\ cached.dir = target[c] /\ target[c] # NoDir
  BY <1>1 DEF ImplInv, IInv, Hands
<1>3. provider[w] = seed[w] /\ seed[w] = target[c]
  BY <1>1, <1>2 DEF ImplInv, IInv, ProviderOwned, CachedWorker
<1>4. outcome[c] = "none"
  BY <1>1 DEF ImplInv, Undecided
<1> QED BY <1>1, <1>2, <1>3, <1>4 DEF VerdictOf, CallOf

\* A provider that is let go of is broken, or in the way of a call.
LEMMA LetGoIsJustified ==
  ASSUME ImplInv, NEW w \in Worker, thread[w] = "exiting", provider[w] # NoDir
  PROVE  \E c \in Caller : /\ CallOf(c) # <<"idle", NoDir>>
                           /\ CallOf(c) # <<"verify", provider[w]>>
                           /\ VerdictOf(c) = "none"
<1>1. PICK c \in Caller : pc[c] = "joining" /\ held[c] = w
  BY DEF ImplInv, StoppedByCall
<1>2. target[c] # provider[w]
  BY <1>1 DEF ImplInv, StoppedIsUseless, OwnDirectory
<1>3. reply[c] = "none" /\ outcome[c] = "none"
  BY <1>1 DEF ImplInv, IInv, ReplyForWaiter, Undecided
<1> QED BY <1>1, <1>2, <1>3 DEF CallOf, VerdictOf

LEMMA ThreadStepSimulates ==
  ASSUME ImplInv, NEW w \in Worker, WorkerStep(w)
  PROVE  [Service!Next]_(Service!serviceVars)
<1>1. IInv' /\ OwnerView /\ OwnerView'
  <2>1. IInv'
    BY WorkerStepPreserves DEF ImplInv
  <2>2. IInv => OwnerView
    BY OwnerIsTheThread
  <2>3. OwnerView'
    BY <2>1, OwnerIsTheThread, PTL
  <2> QED BY <2>1, <2>2, <2>3 DEF ImplInv
<1>2. ThreadStep(w) /\ UNCHANGED <<lock, cached, pc, target, held, outcome>>
  BY DEF WorkerStep, cacheVars
<1>3. /\ thread \in [Worker -> ThreadPhase] /\ reply \in [Caller -> ReplyContent]
      /\ provider \in [Worker -> Dir \cup {NoDir}] /\ seed \in [Worker -> Dir \cup {NoDir}]
  BY DEF ImplInv, IInv, TypeOK, WorkerTypeOK
<1>4. \A b \in Caller : CallOf(b)' = CallOf(b)
  BY <1>2 DEF CallOf
\* Nobody else has a thread, so a thread without a provider means there is none.
<1>5. \A v \in Worker \ {w} : provider[v] = NoDir /\ provider'[v] = NoDir
  <2>1. thread[w] # "none" /\ thread'[w] # "none"
    BY <1>2, <1>3
       DEF ThreadStep, InitializeOk, InitializeErr, InitializePanics, TakeOperation,
           CompleteOperation, OperationPanics, DropReceiver, LoopEnds, ThreadEnds
  <2>2. OneWorker /\ \A v \in Worker : thread[v] = "none" => provider[v] = NoDir
    BY OneWorkerAtMost DEF ImplInv, IInv, ProviderOwned
  <2>3. OneWorker' /\ \A v \in Worker : thread'[v] = "none" => provider'[v] = NoDir
    <3>1. OneWorker'
      BY <1>1, OneWorkerAtMost, PTL
    <3> QED BY <1>1, <3>1 DEF IInv, ProviderOwned
  <2> QED BY <2>1, <2>2, <2>3 DEF OneWorker
<1>6. /\ provider[w] = NoDir => AbstractProvider = NoDir /\ ~AbstractBroken
      /\ provider'[w] = NoDir => AbstractProvider' = NoDir /\ ~AbstractBroken'
      /\ provider[w] # NoDir => /\ AbstractProvider = provider[w]
                                /\ AbstractBroken <=> thread[w] \in {"unwinding", "aborting"}
      /\ provider'[w] # NoDir => /\ AbstractProvider' = provider'[w]
                                 /\ AbstractBroken' <=> thread'[w] \in {"unwinding", "aborting"}
  BY <1>1, <1>5 DEF OwnerView
<1>7. AbstractBroken \in BOOLEAN /\ AbstractBroken' \in BOOLEAN
  BY <1>1 DEF OwnerView
\* Steps that answer nobody.
<1>8. ASSUME reply' = reply PROVE AbstractCall' = AbstractCall /\ AbstractVerdict' = AbstractVerdict
  <2>1. \A b \in Caller : VerdictOf(b)' = VerdictOf(b)
    BY <1>2, <1>8 DEF VerdictOf
  <2> QED BY <1>4, <2>1, NoCallChanges
\* Steps that answer the caller at the head.
<1>9. ASSUME NEW c \in Caller, NEW message \in {"value", "lost"},
             \A b \in Caller : reply'[b] = IF b = c THEN message ELSE reply[b],
             NEW verdict \in {"ok", "error"}, (message = "value") <=> (verdict = "ok")
      PROVE  /\ AbstractCall' = AbstractCall
             /\ AbstractVerdict' = [AbstractVerdict EXCEPT ![c] = verdict]
  <2>1. \A b \in Caller \ {c} : VerdictOf(b)' = VerdictOf(b)
    BY <1>2, <1>9 DEF VerdictOf
  <2>2. VerdictOf(c)' = verdict
    BY <1>9 DEF VerdictOf
  <2>3. /\ AbstractCall' = [AbstractCall EXCEPT ![c] = CallOf(c)']
        /\ AbstractVerdict' = [AbstractVerdict EXCEPT ![c] = VerdictOf(c)']
    BY <1>4, <2>1, OneCallChanges
  <2>4. AbstractCall' = AbstractCall
    BY <1>4, <2>3, AbstractCalls
  <2> QED BY <2>2, <2>3, <2>4
<1>10. CASE InitializeOk(w)
  <2>1. /\ provider[w] = NoDir /\ provider'[w] = seed[w] /\ seed[w] \in Dir
        /\ thread'[w] = "looping" /\ reply' = reply
    BY <1>3, <1>10, NoDirAssumption DEF InitializeOk, ImplInv, IInv, ProviderOwned
  <2>2. PICK c \in Caller : pc[c] = "starting" /\ held[c] = w
    <3>1. ~(cached # Empty /\ cached.worker = w)
      BY <1>10 DEF InitializeOk, ImplInv, IInv, CachedWorker
    <3>2. PICK c \in Caller : held[c] = w
      BY <1>10, <3>1 DEF InitializeOk, ImplInv, IInv, NoOrphan, InPlay
    <3>3. pc[c] \in {"joining", "starting", "discarding"}
      BY <3>2, NoWorkerAssumption DEF ImplInv, IInv, Hands
    <3> QED BY <1>10, <3>2, <3>3 DEF InitializeOk, ImplInv, IInv, HeldWorker
  <2>3. CallOf(c) = <<"verify", seed[w]>> /\ VerdictOf(c) = "none"
    BY <2>1, <2>2, NoDirAssumption
       DEF CallOf, VerdictOf, ImplInv, IInv, HeldWorker, ReplyForWaiter, Undecided
  <2>4. AbstractProvider = NoDir /\ ~AbstractBroken
    BY <1>6, <2>1
  <2>5. AbstractProvider' = seed[w] /\ ~AbstractBroken'
    BY <1>6, <2>1, NoDirAssumption
  <2>6. AbstractCall[c] = <<"verify", seed[w]>> /\ AbstractVerdict[c] = "none"
    BY <2>3, AbstractCalls
  <2>7. AbstractCall' = AbstractCall /\ AbstractVerdict' = AbstractVerdict
    BY <1>8, <2>1
  <2>8. Service!Build(c, seed[w])
    BY <1>7, <2>4, <2>5, <2>6, <2>7 DEF Service!Build, Service!Wants
  <2> QED BY <2>1, <2>8 DEF Service!Next
<1>11. CASE InitializeErr(w) \/ InitializePanics(w)
  <2>1. provider[w] = NoDir /\ provider'[w] = NoDir /\ reply' = reply
    BY <1>11 DEF InitializeErr, InitializePanics, ImplInv, IInv, ProviderOwned
  <2> QED BY <1>6, <1>7, <1>8, <2>1 DEF Service!serviceVars
<1>12. CASE TakeOperation(w) \/ LoopEnds(w)
  <2>1. /\ provider'[w] = provider[w] /\ reply' = reply /\ provider[w] # NoDir
        /\ thread[w] \notin {"unwinding", "aborting"}
        /\ thread'[w] \notin {"unwinding", "aborting"}
    BY <1>3, <1>12 DEF TakeOperation, LoopEnds, ImplInv, IInv, ProviderOwned
  <2> QED BY <1>6, <1>7, <1>8, <2>1 DEF Service!serviceVars
<1>13. CASE CompleteOperation(w)
  <2>1. thread[w] = "executing" /\ queue[w] # <<>>
    BY <1>13 DEF CompleteOperation, ImplInv, IInv, OneOperation
  <2>2. PICK c \in Caller : /\ queue[w] = <<c>>
                            /\ reply[c] = "pending"
                            /\ VerdictOf(c) = "none"
                            /\ provider[w] # NoDir
                            /\ CallOf(c) = <<"verify", provider[w]>>
    BY <2>1, HeadWantsProvider
  <2>3. \A b \in Caller : reply'[b] = IF b = c THEN "value" ELSE reply[b]
    BY <1>3, <1>13, <2>2 DEF CompleteOperation
  <2>4. AbstractCall' = AbstractCall /\ AbstractVerdict' = [AbstractVerdict EXCEPT ![c] = "ok"]
    BY <1>9, <2>3
  <2>5. /\ AbstractProvider = provider[w] /\ ~AbstractBroken
        /\ AbstractProvider' = provider[w] /\ ~AbstractBroken'
    BY <1>3, <1>6, <1>13, <2>1, <2>2 DEF CompleteOperation
  <2>6. AbstractCall[c] = <<"verify", provider[w]>> /\ AbstractVerdict[c] = "none"
    BY <2>2, AbstractCalls
  <2>7. Service!Serve(c)
    BY <1>7, <2>2, <2>4, <2>5, <2>6 DEF Service!Serve, Service!Wants
  <2> QED BY <2>7 DEF Service!Next
<1>14. CASE OperationPanics(w) \/ (DropReceiver(w) /\ queue[w] # <<>>)
  <2>1. thread[w] \in {"executing", "unwinding"} /\ queue[w] # <<>>
    BY <1>14 DEF OperationPanics, DropReceiver, ImplInv, IInv, OneOperation
  <2>2. PICK c \in Caller : /\ queue[w] = <<c>>
                            /\ reply[c] = "pending"
                            /\ VerdictOf(c) = "none"
                            /\ provider[w] # NoDir
                            /\ CallOf(c) = <<"verify", provider[w]>>
    BY <2>1, HeadWantsProvider
  <2>3. \A b \in Caller : reply'[b] = IF b = c THEN "lost" ELSE reply[b]
    <3>1. CASE OperationPanics(w)
      BY <1>3, <2>2, <3>1 DEF OperationPanics
    <3>2. CASE DropReceiver(w)
      <4>1. Accepted(w) = {c}
        BY <2>2 DEF Accepted
      <4> QED BY <3>2, <4>1 DEF DropReceiver
    <3> QED BY <1>14, <3>1, <3>2
  <2>4. AbstractCall' = AbstractCall /\ AbstractVerdict' = [AbstractVerdict EXCEPT ![c] = "error"]
    BY <1>9, <2>3
  <2>5. provider'[w] = provider[w] /\ thread'[w] \in {"unwinding", "aborting"}
    BY <1>3, <1>14 DEF OperationPanics, DropReceiver
  <2>6. AbstractProvider = provider[w] /\ AbstractProvider' = provider[w] /\ AbstractBroken' = TRUE
    BY <1>6, <1>7, <2>2, <2>5
  <2>7. AbstractCall[c] = <<"verify", provider[w]>> /\ AbstractVerdict[c] = "none"
    BY <2>2, AbstractCalls
  <2>8. Service!Break(c)
    BY <2>2, <2>4, <2>6, <2>7 DEF Service!Break, Service!Wants
  <2> QED BY <2>8 DEF Service!Next
<1>15. CASE DropReceiver(w) /\ queue[w] = <<>>
  <2>1. reply' = reply
    <3>1. Accepted(w) = {}
      BY <1>15 DEF Accepted
    <3> QED BY <1>3, <1>15, <3>1 DEF DropReceiver
  <2>2. /\ provider'[w] = provider[w] /\ provider[w] # NoDir
        /\ thread[w] = "unwinding" /\ thread'[w] = "aborting"
    BY <1>3, <1>15 DEF DropReceiver, ImplInv, IInv, ProviderOwned
  <2> QED BY <1>6, <1>7, <1>8, <2>1, <2>2 DEF Service!serviceVars
<1>16. CASE ThreadEnds(w)
  <2>1. provider'[w] = NoDir /\ reply' = reply /\ thread[w] \in {"exiting", "aborting"}
    BY <1>3, <1>16 DEF ThreadEnds
  <2>2. AbstractProvider' = NoDir /\ ~AbstractBroken'
    BY <1>6, <2>1
  <2>3. AbstractCall' = AbstractCall /\ AbstractVerdict' = AbstractVerdict
    BY <1>8, <2>1
  <2>4. CASE provider[w] = NoDir
    BY <1>6, <1>7, <2>2, <2>3, <2>4 DEF Service!serviceVars
  <2>5. CASE provider[w] # NoDir
    <3>1. AbstractProvider = provider[w]
      BY <1>6, <2>5
    <3>2. AbstractBroken \/ \E c \in Caller : /\ AbstractCall[c] # <<"idle", NoDir>>
                                             /\ AbstractCall[c] # <<"verify", provider[w]>>
                                             /\ AbstractVerdict[c] = "none"
      <4>1. CASE thread[w] = "aborting"
        BY <1>6, <2>5, <4>1
      <4>2. CASE thread[w] = "exiting"
        BY <2>5, <4>2, LetGoIsJustified, AbstractCalls
      <4> QED BY <2>1, <4>1, <4>2
    <3>3. Service!LetGo
      BY <1>7, <2>2, <2>3, <2>5, <3>1, <3>2 DEF Service!LetGo, Service!Wants, Service!Idle
    <3> QED BY <3>3 DEF Service!Next
  <2> QED BY <2>4, <2>5
<1> QED
  BY <1>2, <1>10, <1>11, <1>12, <1>13, <1>14, <1>15, <1>16 DEF ThreadStep

LEMMA StepSimulates == ImplInv /\ [Next]_vars => [Service!Next]_(Service!serviceVars)
<1> SUFFICES ASSUME ImplInv, [Next]_vars PROVE [Service!Next]_(Service!serviceVars)
  OBVIOUS
<1>1. CASE Next
  BY <1>1, CallerStepSimulates, ThreadStepSimulates, Zenon DEF Next, AnyCallerStep
<1>2. CASE UNCHANGED vars
  BY <1>2 DEF vars, Service!serviceVars, AbstractProvider, AbstractBroken, AbstractCall,
              AbstractVerdict, Owners, IsShutdown
<1> QED BY <1>1, <1>2

LEMMA StepImplInv == ImplInv /\ [Next]_vars => ImplInv'
<1> SUFFICES ASSUME ImplInv, [Next]_vars PROVE ImplInv'
  OBVIOUS
<1>1. CASE Next
  BY <1>1, CallerKeepsImplInv, ThreadKeepsImplInv, Zenon DEF Next, AnyCallerStep
<1>2. CASE UNCHANGED vars
  <2>1. IInv'
    BY <1>2, InvariantIsKept DEF ImplInv
  <2> QED
    BY <1>2, <2>1 DEF vars, ImplInv, Undecided, StoppedIsUseless, StoppedByCall, OwnDirectory
<1> QED BY <1>1, <1>2

(***************************************************************************)
(* The lock, the cache and the worker thread implement the abstract        *)
(* service, for any number of callers, threads and directories: to the     *)
(* callers of biometrics.rs there is one provider slot, filled only when   *)
(* empty, serving only calls of its own directory, emptied only for a call *)
(* it is in the way of or after a panic, and a shutdown succeeds only on   *)
(* an empty slot.                                                          *)
(***************************************************************************)
THEOREM ServiceIsImplemented == Spec => ImplementsService
<1>1. Init => Service!Init
  BY DEF Init, WorkerInit, Service!Init, Service!Idle, AbstractProvider, AbstractBroken,
         AbstractCall, AbstractVerdict, Owners
<1>2. Spec => []ImplInv
  BY InitImplInv, StepImplInv, PTL DEF Spec
<1> QED
  BY <1>1, <1>2, StepSimulates, PTL DEF Spec, ImplementsService, Service!Spec
=============================================================================
