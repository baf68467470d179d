---------------------------- MODULE BiometricWorker ----------------------------
(***************************************************************************)
(* The thread that owns the biometric provider: the type BiometricWorker   *)
(* of rust/src/biometric_worker.rs.                                        *)
(*                                                                         *)
(* A worker is a thread and the channel that feeds it.  The thread builds  *)
(* the provider, answers on a ready channel, then executes the operations  *)
(* of the channel one at a time until every sender is gone; the provider   *)
(* is dropped on that thread.  A caller sends an operation and blocks on a *)
(* result channel of its own, which closes without a value when the        *)
(* operation is dropped unexecuted or unwinds.                             *)
(*                                                                         *)
(* This module has the thread's steps and the halves of start, run and     *)
(* stop that touch its state; SharedWorker and Biometrics say who calls    *)
(* them and when.                                                          *)
(***************************************************************************)
EXTENDS Naturals, Sequences

CONSTANTS Worker,      \* identities of worker threads; one is reused once joined
          Caller,      \* threads that call into the bridge
          Dir,         \* canonical model directories: what a provider is built from
          NoDir        \* stands for "no directory"

ASSUME NoDirAssumption == NoDir \notin Dir

VARIABLES
  thread,    \* the phase of each worker's thread
  sender,    \* whether the channel's only Sender still exists
  seed,      \* the directory the initialize closure captured
  provider,  \* the directory of the provider the thread owns, NoDir if it owns none
  ready,     \* the content of the ready channel
  queue,     \* accepted operations, each named by its caller; the head may be executing
  reply      \* the result channel of each caller's outstanding operation

workerVars == <<thread, sender, seed, provider, ready, queue, reply>>

ThreadPhase == {"none",         \* not spawned, or joined
                "initializing", \* in initialize()
                "looping",      \* blocked on, or about to poll, the receiver
                "executing",    \* inside the operation at the head of the queue
                "unwinding",    \* that operation panicked; the receiver is still alive
                "exiting",      \* returning normally, receiver dropped
                "aborting",     \* unwinding past the loop, receiver dropped
                "finished", "panicked"}
ReadyContent == {"empty", "ok", "err", "closed"}
ReplyContent == {"none", "pending", "value", "lost"}

WorkerTypeOK ==
  /\ thread \in [Worker -> ThreadPhase]
  /\ sender \in [Worker -> BOOLEAN]
  /\ seed \in [Worker -> Dir \cup {NoDir}]
  /\ provider \in [Worker -> Dir \cup {NoDir}]
  /\ ready \in [Worker -> ReadyContent]
  /\ queue \in [Worker -> Seq(Caller)]
  /\ reply \in [Caller -> ReplyContent]

WorkerInit ==
  /\ thread = [w \in Worker |-> "none"]
  /\ sender = [w \in Worker |-> FALSE]
  /\ seed = [w \in Worker |-> NoDir]
  /\ provider = [w \in Worker |-> NoDir]
  /\ ready = [w \in Worker |-> "empty"]
  /\ queue = [w \in Worker |-> <<>>]
  /\ reply = [c \in Caller |-> "none"]

Terminated(w) == thread[w] \in {"finished", "panicked"}
Accepted(w) == {queue[w][i] : i \in DOMAIN queue[w]}

\* The receiver lives until the loop, or the unwinding of it, is left.
ReceiverAlive(w) ==
  thread[w] \in {"initializing", "looping", "executing", "unwinding"}

-----------------------------------------------------------------------------
\* The worker thread.

InitializeOk(w) ==
  /\ thread[w] = "initializing"
  /\ thread' = [thread EXCEPT ![w] = "looping"]
  /\ provider' = [provider EXCEPT ![w] = seed[w]]
  /\ ready' = [ready EXCEPT ![w] = "ok"]
  /\ UNCHANGED <<sender, seed, queue, reply>>

\* The error is on the ready channel before the thread has returned.
InitializeErr(w) ==
  /\ thread[w] = "initializing"
  /\ thread' = [thread EXCEPT ![w] = "exiting"]
  /\ ready' = [ready EXCEPT ![w] = "err"]
  /\ UNCHANGED <<sender, seed, provider, queue, reply>>

\* Mutant: the panicking initializer leaves the ready channel open.
InitializePanicsSilently(w) ==
  /\ thread[w] = "initializing"
  /\ thread' = [thread EXCEPT ![w] = "aborting"]
  /\ UNCHANGED <<sender, seed, provider, ready, queue, reply>>

\* Unwinding drops the ready channel's sender without a message.
InitializePanics(w) ==
  /\ thread[w] = "initializing"
  /\ thread' = [thread EXCEPT ![w] = "aborting"]
  /\ ready' = [ready EXCEPT ![w] = "closed"]
  /\ UNCHANGED <<sender, seed, provider, queue, reply>>

TakeOperation(w) ==
  /\ thread[w] = "looping"
  /\ queue[w] # <<>>
  /\ thread' = [thread EXCEPT ![w] = "executing"]
  /\ UNCHANGED <<sender, seed, provider, ready, queue, reply>>

CompleteOperation(w) ==
  /\ thread[w] = "executing"
  /\ thread' = [thread EXCEPT ![w] = "looping"]
  /\ queue' = [queue EXCEPT ![w] = Tail(@)]
  /\ reply' = [reply EXCEPT ![Head(queue[w])] = "value"]
  /\ UNCHANGED <<sender, seed, provider, ready>>

\* Mutant: the panicking closure never closes its result channel.
OperationPanicsSilently(w) ==
  /\ thread[w] = "executing"
  /\ thread' = [thread EXCEPT ![w] = "unwinding"]
  /\ queue' = [queue EXCEPT ![w] = Tail(@)]
  /\ UNCHANGED <<sender, seed, provider, ready, reply>>

\* The panicking closure is dropped first, and its result channel with it: its
\* caller can be back before the receiver is gone.
OperationPanics(w) ==
  /\ thread[w] = "executing"
  /\ thread' = [thread EXCEPT ![w] = "unwinding"]
  /\ queue' = [queue EXCEPT ![w] = Tail(@)]
  /\ reply' = [reply EXCEPT ![Head(queue[w])] = "lost"]
  /\ UNCHANGED <<sender, seed, provider, ready>>

\* Mutant: the discarded operations are dropped without closing their result
\* channels.
DropReceiverSilently(w) ==
  /\ thread[w] = "unwinding"
  /\ thread' = [thread EXCEPT ![w] = "aborting"]
  /\ queue' = [queue EXCEPT ![w] = <<>>]
  /\ UNCHANGED <<sender, seed, provider, ready, reply>>

\* Dropping the receiver drops the operations it still holds, unexecuted.
DropReceiver(w) ==
  /\ thread[w] = "unwinding"
  /\ thread' = [thread EXCEPT ![w] = "aborting"]
  /\ queue' = [queue EXCEPT ![w] = <<>>]
  /\ reply' = [c \in Caller |-> IF c \in Accepted(w) THEN "lost" ELSE reply[c]]
  /\ UNCHANGED <<sender, seed, provider, ready>>

\* The for loop ends when the channel is empty and has no sender left.
LoopEnds(w) ==
  /\ thread[w] = "looping"
  /\ queue[w] = <<>>
  /\ ~sender[w]
  /\ thread' = [thread EXCEPT ![w] = "exiting"]
  /\ UNCHANGED <<sender, seed, provider, ready, queue, reply>>

\* The provider is dropped, then the thread ends.
ThreadEnds(w) ==
  /\ thread[w] \in {"exiting", "aborting"}
  /\ thread' = [thread EXCEPT ![w] = IF @ = "exiting" THEN "finished" ELSE "panicked"]
  /\ provider' = [provider EXCEPT ![w] = NoDir]
  /\ UNCHANGED <<sender, seed, ready, queue, reply>>

ThreadStep(w) ==
  \/ InitializeOk(w) \/ InitializeErr(w) \/ InitializePanics(w)
  \/ TakeOperation(w) \/ CompleteOperation(w) \/ OperationPanics(w)
  \/ DropReceiver(w) \/ LoopEnds(w) \/ ThreadEnds(w)

-----------------------------------------------------------------------------
\* The halves of start, run and stop that a caller executes.

Spawn(w, d) ==
  /\ thread[w] = "none"
  /\ thread' = [thread EXCEPT ![w] = "initializing"]
  /\ seed' = [seed EXCEPT ![w] = d]
  /\ sender' = [sender EXCEPT ![w] = TRUE]
  /\ UNCHANGED <<provider, ready, queue, reply>>

\* start's recv on the ready channel, with a message or with a closed channel.
TakeReady(w, message) ==
  /\ ready[w] = message
  /\ ready' = [ready EXCEPT ![w] = "empty"]
  /\ UNCHANGED <<thread, sender, seed, provider, queue, reply>>

SendOperation(c, w) ==
  /\ sender[w]
  /\ ReceiverAlive(w)
  /\ queue' = [queue EXCEPT ![w] = Append(@, c)]
  /\ reply' = [reply EXCEPT ![c] = "pending"]
  /\ UNCHANGED <<thread, sender, seed, provider, ready>>

SendRefused(w) ==
  /\ sender[w]
  /\ ~ReceiverAlive(w)
  /\ UNCHANGED workerVars

TakeReply(c, message) ==
  /\ reply[c] = message
  /\ reply' = [reply EXCEPT ![c] = "none"]
  /\ UNCHANGED <<thread, sender, seed, provider, ready, queue>>

\* Mutant: a clone of the sender survives.
DropOneSender(w) ==
  /\ sender[w]
  /\ UNCHANGED workerVars

DropSender(w) ==
  /\ sender' = [sender EXCEPT ![w] = FALSE]
  /\ UNCHANGED <<thread, seed, provider, ready, queue, reply>>

\* Mutant: the thread is detached instead of joined.
Detach(w, ended) ==
  /\ ended = "finished"
  /\ thread[w] # "none"
  /\ UNCHANGED workerVars

\* join returns how the thread ended; the worker value is gone afterwards.
Join(w, ended) ==
  /\ thread[w] = ended
  /\ thread' = [thread EXCEPT ![w] = "none"]
  /\ sender' = [sender EXCEPT ![w] = FALSE]
  /\ seed' = [seed EXCEPT ![w] = NoDir]
  /\ UNCHANGED <<provider, ready, queue, reply>>
=============================================================================
