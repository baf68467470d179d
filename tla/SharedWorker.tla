----------------------------- MODULE SharedWorker -----------------------------
(***************************************************************************)
(* One BiometricWorker shared by several threads through a reference       *)
(* count: run takes &self, so any number of callers may be inside it at    *)
(* once, while shutdown consumes the value, so the borrow rules let its    *)
(* owner call it only when nobody is (biometric_worker.rs, run and         *)
(* shutdown; the test concurrent_requests_share_one_provider).  An         *)
(* operation may panic with others queued behind it.                       *)
(***************************************************************************)
EXTENDS BiometricWorker

VARIABLES
  owner,   \* what the owner of the worker value is doing
  pc       \* where each caller is inside run

vars == <<thread, sender, seed, provider, ready, queue, reply, owner, pc>>

TypeOK ==
  /\ WorkerTypeOK
  /\ owner \in {"absent", "starting", "discarding", "serving", "stopping"}
  /\ pc \in [Caller -> {"outside", "sending", "waiting"}]

Init ==
  /\ WorkerInit
  /\ owner = "absent"
  /\ pc = [c \in Caller |-> "outside"]

-----------------------------------------------------------------------------
\* BiometricWorker::start

Start(w, d) ==
  /\ owner = "absent"
  /\ Spawn(w, d)
  /\ owner' = "starting"
  /\ UNCHANGED pc

StartOk(w) ==
  /\ owner = "starting"
  /\ TakeReady(w, "ok")
  /\ owner' = "serving"
  /\ UNCHANGED pc

StartRejected(w) ==
  /\ owner = "starting"
  /\ \E message \in {"err", "closed"} : TakeReady(w, message)
  /\ owner' = "discarding"
  /\ UNCHANGED pc

StartFails(w) ==
  /\ owner = "discarding"
  /\ \E ended \in {"finished", "panicked"} : Join(w, ended)
  /\ owner' = "absent"
  /\ UNCHANGED pc

\* BiometricWorker::run

Run(c) ==
  /\ owner = "serving"
  /\ pc[c] = "outside"
  /\ pc' = [pc EXCEPT ![c] = "sending"]
  /\ UNCHANGED <<workerVars, owner>>

RunSends(c, w) ==
  /\ pc[c] = "sending"
  /\ SendOperation(c, w)
  /\ pc' = [pc EXCEPT ![c] = "waiting"]
  /\ UNCHANGED owner

RunUnavailable(c, w) ==
  /\ pc[c] = "sending"
  /\ SendRefused(w)
  /\ pc' = [pc EXCEPT ![c] = "outside"]
  /\ UNCHANGED owner

RunReturns(c) ==
  /\ pc[c] = "waiting"
  /\ \E message \in {"value", "lost"} : TakeReply(c, message)
  /\ pc' = [pc EXCEPT ![c] = "outside"]
  /\ UNCHANGED owner

\* BiometricWorker::shutdown, or the drop of the last reference

Shutdown(w) ==
  /\ owner = "serving"
  /\ \A c \in Caller : pc[c] = "outside"
  /\ sender[w]
  /\ DropSender(w)
  /\ owner' = "stopping"
  /\ UNCHANGED pc

ShutdownReturns(w) ==
  /\ owner = "stopping"
  /\ \E ended \in {"finished", "panicked"} : Join(w, ended)
  /\ owner' = "absent"
  /\ UNCHANGED pc

-----------------------------------------------------------------------------
OwnerReturns(w) ==
  StartOk(w) \/ StartRejected(w) \/ StartFails(w) \/ ShutdownReturns(w)

RunStep(c) ==
  \/ \E w \in Worker : RunSends(c, w) \/ RunUnavailable(c, w)
  \/ RunReturns(c)

Next ==
  \/ \E w \in Worker : \/ ThreadStep(w) /\ UNCHANGED <<owner, pc>>
                       \/ \E d \in Dir : Start(w, d)
                       \/ OwnerReturns(w)
                       \/ Shutdown(w)
  \/ \E c \in Caller : Run(c) \/ RunStep(c)

\* The threads run: a worker thread that can step does, and so does a caller
\* inside run or an owner inside start or shutdown.  Nobody has to call.
Fairness ==
  /\ \A w \in Worker : WF_vars(ThreadStep(w) /\ UNCHANGED <<owner, pc>>)
  /\ \A w \in Worker : WF_vars(OwnerReturns(w))
  /\ \A c \in Caller : WF_vars(RunStep(c))

Spec == Init /\ [][Next]_vars /\ Fairness

-----------------------------------------------------------------------------
(***************************************************************************)
(* A caller that is still owed an answer has its operation in the channel  *)
(* of a thread that still holds the receiver: no operation is stranded in  *)
(* a channel nobody reads, also when the one before it panicked.           *)
(***************************************************************************)
NoStrandedOperation ==
  \A c \in Caller : pc[c] = "waiting" /\ reply[c] = "pending" =>
    \E w \in Worker : ReceiverAlive(w) /\ c \in Accepted(w)

(***************************************************************************)
(* start and shutdown return only when the thread has dropped what it      *)
(* owned ("release resources before returning", biometric_worker.rs:74):   *)
(* whenever there is no worker value, no provider exists and no caller is  *)
(* owed an answer.                                                         *)
(***************************************************************************)
ReleasedWhenAbsent ==
  owner = "absent" =>
    /\ \A w \in Worker : provider[w] = NoDir /\ thread[w] = "none"
    /\ \A c \in Caller : reply[c] # "pending"

(***************************************************************************)
(* In every state, with the types: what a thread or a caller holds is      *)
(* either still owed to somebody alive, or gone.                           *)
(***************************************************************************)
NothingLeftBehind == TypeOK /\ NoStrandedOperation /\ ReleasedWhenAbsent

(***************************************************************************)
(* run returns whatever the operations ahead of it do, and shutdown        *)
(* returns: nobody is left hanging (the test                               *)
(* operation_panic_is_reported_without_hanging_the_caller, for one caller).*)
(***************************************************************************)
RunTerminates == \A c \in Caller : pc[c] # "outside" ~> pc[c] = "outside"
OwnerTerminates == owner \in {"starting", "stopping"} ~> owner \in {"absent", "serving"}
=============================================================================
