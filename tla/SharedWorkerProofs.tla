-------------------------- MODULE SharedWorkerProofs --------------------------
(***************************************************************************)
(* Theorems about SharedWorker for any number of callers, workers and      *)
(* directories.                                                            *)
(*                                                                         *)
(* The inductive invariant says what keeps an operation from being         *)
(* stranded: the callers that are owed an answer are exactly those in the  *)
(* channel of the one live worker, each of them once, and a thread without *)
(* a receiver has an empty channel.  What the owner of the worker is doing *)
(* bounds the phases its thread can be in.                                 *)
(***************************************************************************)
EXTENDS SharedWorker, SequenceTheorems, TLAPS

Distinct(q) == \A i, j \in DOMAIN q : q[i] = q[j] => i = j

\* The operations in a channel are those that wait for an answer, each once.
Queued ==
  \A w \in Worker :
    /\ Distinct(queue[w])
    /\ \A c \in Accepted(w) : pc[c] = "waiting" /\ reply[c] = "pending"
    /\ queue[w] # <<>> => ReceiverAlive(w)
    /\ thread[w] = "executing" => queue[w] # <<>>

\* Nobody is inside run but while the worker value is lent out.
Borrowed ==
  \A c \in Caller :
    /\ pc[c] # "outside" => owner = "serving"
    /\ reply[c] # "none" => pc[c] = "waiting"

Alone == \A v, w \in Worker : thread[v] # "none" /\ thread[w] # "none" => v = w

\* The phases of the thread, by what its owner is doing.
OwnedThread ==
  \A w \in Worker :
    /\ ready[w] # "empty" => owner = "starting" /\ thread[w] # "none"
    /\ thread[w] # "none" =>
         /\ owner # "absent"
         /\ owner = "starting" =>
              /\ sender[w]
              /\ ready[w] = "empty" => thread[w] = "initializing"
              /\ ready[w] = "ok" => thread[w] = "looping"
              /\ ready[w] \in {"err", "closed"} =>
                   thread[w] \in {"exiting", "aborting", "finished", "panicked"}
         /\ owner = "discarding" =>
              thread[w] \in {"exiting", "aborting", "finished", "panicked"}
         /\ owner = "serving" =>
              /\ sender[w]
              /\ thread[w] \in {"looping", "executing", "unwinding", "aborting", "panicked"}
         /\ owner = "stopping" =>
              thread[w] \notin {"none", "initializing"}

\* A provider lives no longer than its thread.
ProviderOwned ==
  \A w \in Worker :
    thread[w] \in {"none", "initializing", "finished", "panicked"} => provider[w] = NoDir

IInv ==
  /\ TypeOK
  /\ NoStrandedOperation
  /\ Queued
  /\ Borrowed
  /\ Alone
  /\ OwnedThread
  /\ ProviderOwned

-----------------------------------------------------------------------------
Items(q) == {q[i] : i \in DOMAIN q}

\* A channel whose head is taken keeps the other operations.
LEMMA TailItems ==
  ASSUME NEW S, NEW q \in Seq(S), q # <<>>, Distinct(q)
  PROVE  /\ Head(q) \in Items(q) /\ Tail(q) \in Seq(S) /\ Distinct(Tail(q))
         /\ Items(Tail(q)) = Items(q) \ {Head(q)}
<1>1. /\ Len(q) \in Nat \ {0} /\ DOMAIN q = 1 .. Len(q) /\ Head(q) = q[1]
      /\ Tail(q) \in Seq(S) /\ Len(Tail(q)) = Len(q) - 1
      /\ DOMAIN Tail(q) = 1 .. Len(q) - 1
      /\ \A i \in 1 .. Len(q) - 1 : Tail(q)[i] = q[i + 1]
  BY HeadTailProperties, EmptySeq
<1>2. Distinct(Tail(q))
  <2> SUFFICES ASSUME NEW i \in 1 .. Len(q) - 1, NEW j \in 1 .. Len(q) - 1,
                      Tail(q)[i] = Tail(q)[j]
               PROVE  i = j
    BY <1>1 DEF Distinct
  <2>1. q[i + 1] = q[j + 1] /\ i + 1 \in DOMAIN q /\ j + 1 \in DOMAIN q
    BY <1>1
  <2>2. i + 1 = j + 1
    BY <2>1 DEF Distinct
  <2> QED BY <1>1, <2>2
<1>3. ASSUME NEW x \in Items(Tail(q)) PROVE x \in Items(q) \ {Head(q)}
  <2>1. PICK i \in 1 .. Len(q) - 1 : x = q[i + 1]
    BY <1>1 DEF Items
  <2>2. i + 1 \in DOMAIN q /\ 1 \in DOMAIN q /\ i + 1 # 1
    BY <1>1
  <2>3. q[i + 1] # q[1]
    BY <2>2 DEF Distinct
  <2> QED BY <1>1, <2>1, <2>2, <2>3 DEF Items
<1>4. ASSUME NEW x \in Items(q), x # Head(q) PROVE x \in Items(Tail(q))
  <2>1. PICK i \in DOMAIN q : x = q[i]
    BY DEF Items
  <2>2. i # 1 /\ i - 1 \in 1 .. Len(q) - 1 /\ Tail(q)[i - 1] = q[i]
    BY <1>1, <1>4, <2>1
  <2> QED BY <1>1, <2>1, <2>2 DEF Items
<1>5. Head(q) \in Items(q)
  BY <1>1 DEF Items
<1> QED BY <1>1, <1>2, <1>3, <1>4, <1>5

\* A channel an operation is appended to.
LEMMA AppendItems ==
  ASSUME NEW S, NEW q \in Seq(S), Distinct(q), NEW x \in S, x \notin Items(q)
  PROVE  /\ Append(q, x) \in Seq(S) /\ Append(q, x) # <<>>
         /\ Distinct(Append(q, x)) /\ Items(Append(q, x)) = Items(q) \cup {x}
<1>1. /\ Len(q) \in Nat /\ DOMAIN q = 1 .. Len(q)
      /\ Append(q, x) \in Seq(S) /\ Len(Append(q, x)) = Len(q) + 1
      /\ DOMAIN Append(q, x) = 1 .. Len(q) + 1
      /\ \A i \in 1 .. Len(q) : Append(q, x)[i] = q[i]
      /\ Append(q, x)[Len(q) + 1] = x
  BY AppendProperties
<1>2. \A i \in 1 .. Len(q) + 1 : i \in 1 .. Len(q) \/ i = Len(q) + 1
  BY <1>1
<1>3. Distinct(Append(q, x))
  BY <1>1, <1>2 DEF Distinct, Items
<1>4. Items(Append(q, x)) = Items(q) \cup {x}
  BY <1>1, <1>2 DEF Items
<1>5. Append(q, x) # <<>>
  BY <1>1
<1> QED BY <1>1, <1>3, <1>4, <1>5

-----------------------------------------------------------------------------
LEMMA InitIInv == Init => IInv
BY DEF Init, WorkerInit, IInv, TypeOK, WorkerTypeOK, ThreadPhase, ReadyContent,
       ReplyContent, NoStrandedOperation, Queued, Accepted, ReceiverAlive,
       Distinct, Borrowed, Alone, OwnedThread, ProviderOwned

\* The head of a channel is the operation of a caller that waits for it, so
\* there are operations only while the worker value is lent out.
LEMMA HeadWaits ==
  ASSUME IInv, NEW w \in Worker, queue[w] # <<>>
  PROVE  /\ Head(queue[w]) \in Caller /\ Head(queue[w]) \in Accepted(w)
         /\ pc[Head(queue[w])] = "waiting" /\ reply[Head(queue[w])] = "pending"
         /\ owner = "serving" /\ ReceiverAlive(w)
<1>1. queue[w] \in Seq(Caller) /\ Distinct(queue[w])
  BY DEF IInv, TypeOK, WorkerTypeOK, Queued
<1>2. Head(queue[w]) \in Items(queue[w])
  BY <1>1, TailItems
<1>3. Head(queue[w]) \in Caller
  BY <1>1, HeadTailProperties
<1>4. Head(queue[w]) \in Accepted(w)
  BY <1>2 DEF Accepted, Items
<1> QED BY <1>3, <1>4 DEF IInv, Queued, Borrowed

\* A step of the thread that leaves every channel as it is.
LEMMA QuietThreadStep ==
  ASSUME IInv, NEW w \in Worker, UNCHANGED <<owner, pc>>,
         \/ InitializeOk(w) \/ InitializeErr(w) \/ InitializePanics(w)
         \/ TakeOperation(w) \/ LoopEnds(w) \/ ThreadEnds(w)
  PROVE  IInv'
<1> USE DEF TypeOK, WorkerTypeOK, ThreadPhase, ReadyContent, ReplyContent,
            ReceiverAlive, NoStrandedOperation, Queued, Borrowed, Alone,
            OwnedThread, ProviderOwned
<1>1. queue' = queue /\ reply' = reply /\ sender' = sender /\ seed' = seed
  BY DEF InitializeOk, InitializeErr, InitializePanics, TakeOperation, LoopEnds, ThreadEnds
<1>2. \A v \in Worker : /\ Accepted(v)' = Accepted(v)
                        /\ Distinct(queue[v])' = Distinct(queue[v])
  BY <1>1 DEF Accepted
<1>3. queue[w] # <<>> => owner = "serving" /\ ReceiverAlive(w)
  BY HeadWaits
<1>4. CASE InitializeOk(w)
  <2>1. TypeOK' /\ Borrowed' /\ Alone' /\ ProviderOwned'
    BY <1>1, <1>4 DEF IInv, InitializeOk
  <2>2. Queued'
    BY <1>1, <1>2, <1>3, <1>4 DEF IInv, InitializeOk
  <2>3. NoStrandedOperation'
    BY <1>1, <1>2, <1>3, <1>4 DEF IInv, InitializeOk
  <2>4. OwnedThread'
    BY <1>1, <1>3, <1>4 DEF IInv, InitializeOk
  <2> QED BY <2>1, <2>2, <2>3, <2>4 DEF IInv
<1>5. CASE InitializeErr(w)
  <2>1. TypeOK' /\ Borrowed' /\ Alone' /\ ProviderOwned'
    BY <1>1, <1>5 DEF IInv, InitializeErr
  <2>2. Queued'
    BY <1>1, <1>2, <1>3, <1>5 DEF IInv, InitializeErr
  <2>3. NoStrandedOperation'
    BY <1>1, <1>2, <1>3, <1>5 DEF IInv, InitializeErr
  <2>4. OwnedThread'
    BY <1>1, <1>3, <1>5 DEF IInv, InitializeErr
  <2> QED BY <2>1, <2>2, <2>3, <2>4 DEF IInv
<1>6. CASE InitializePanics(w)
  <2>1. TypeOK' /\ Borrowed' /\ Alone' /\ ProviderOwned'
    BY <1>1, <1>6 DEF IInv, InitializePanics
  <2>2. Queued'
    BY <1>1, <1>2, <1>3, <1>6 DEF IInv, InitializePanics
  <2>3. NoStrandedOperation'
    BY <1>1, <1>2, <1>3, <1>6 DEF IInv, InitializePanics
  <2>4. OwnedThread'
    BY <1>1, <1>3, <1>6 DEF IInv, InitializePanics
  <2> QED BY <2>1, <2>2, <2>3, <2>4 DEF IInv
<1>7. CASE TakeOperation(w)
  <2>1. TypeOK' /\ Borrowed' /\ Alone' /\ ProviderOwned'
    BY <1>1, <1>7 DEF IInv, TakeOperation
  <2>2. Queued'
    BY <1>1, <1>2, <1>3, <1>7 DEF IInv, TakeOperation
  <2>3. NoStrandedOperation'
    BY <1>1, <1>2, <1>3, <1>7 DEF IInv, TakeOperation
  <2>4. OwnedThread'
    BY <1>1, <1>3, <1>7 DEF IInv, TakeOperation
  <2> QED BY <2>1, <2>2, <2>3, <2>4 DEF IInv
<1>8. CASE LoopEnds(w)
  <2>1. TypeOK' /\ Borrowed' /\ Alone' /\ ProviderOwned'
    BY <1>1, <1>8 DEF IInv, LoopEnds
  <2>2. Queued'
    BY <1>1, <1>2, <1>3, <1>8 DEF IInv, LoopEnds
  <2>3. NoStrandedOperation'
    BY <1>1, <1>2, <1>3, <1>8 DEF IInv, LoopEnds
  <2>4. OwnedThread'
    BY <1>1, <1>3, <1>8 DEF IInv, LoopEnds
  <2> QED BY <2>1, <2>2, <2>3, <2>4 DEF IInv
<1>9. CASE ThreadEnds(w)
  <2>1. TypeOK' /\ Borrowed' /\ Alone' /\ ProviderOwned'
    BY <1>1, <1>9 DEF IInv, ThreadEnds
  <2>2. Queued'
    BY <1>1, <1>2, <1>3, <1>9 DEF IInv, ThreadEnds
  <2>3. NoStrandedOperation'
    <3> SUFFICES ASSUME NEW c \in Caller, pc[c] = "waiting", reply[c] = "pending"
                 PROVE  \E v \in Worker : ReceiverAlive(v)' /\ c \in Accepted(v)'
      BY <1>1
    <3>1. PICK v \in Worker : ReceiverAlive(v) /\ c \in Accepted(v)
      BY DEF IInv
    <3>2. v # w /\ thread'[v] = thread[v]
      BY <1>9, <3>1 DEF IInv, ThreadEnds
    <3> QED BY <1>2, <3>1, <3>2
  <2>4. OwnedThread'
    BY <1>1, <1>3, <1>9 DEF IInv, ThreadEnds
  <2> QED BY <2>1, <2>2, <2>3, <2>4 DEF IInv
<1> QED BY <1>4, <1>5, <1>6, <1>7, <1>8, <1>9

\* A step of the thread that answers operations: the answered ones leave the
\* channel, so what stays in it is still waited for, once each.
LEMMA AnsweringThreadStep ==
  ASSUME IInv, NEW w \in Worker, UNCHANGED <<owner, pc>>,
         CompleteOperation(w) \/ OperationPanics(w) \/ DropReceiver(w)
  PROVE  IInv'
<1> USE DEF TypeOK, WorkerTypeOK, ThreadPhase, ReadyContent, ReplyContent,
            ReceiverAlive, NoStrandedOperation, Queued, Borrowed, Alone,
            OwnedThread, ProviderOwned
<1>1. /\ sender' = sender /\ seed' = seed /\ provider' = provider /\ ready' = ready
      /\ thread[w] \in {"executing", "unwinding"} /\ owner' = owner /\ pc' = pc
      /\ thread' \in [Worker -> ThreadPhase]
      /\ \A v \in Worker \ {w} : thread'[v] = thread[v]
      /\ \A v \in Worker \ {w} : queue'[v] = queue[v]
  <2>1. CASE CompleteOperation(w)
    BY <2>1 DEF IInv, CompleteOperation
  <2>2. CASE OperationPanics(w)
    BY <2>2 DEF IInv, OperationPanics
  <2>3. CASE DropReceiver(w)
    BY <2>3 DEF IInv, DropReceiver
  <2> QED BY <2>1, <2>2, <2>3
<1>2. \A v \in Worker \ {w} : Accepted(v)' = Accepted(v) /\ Accepted(v) = {}
  <2>1. \A v \in Worker \ {w} : queue[v] = <<>>
    BY <1>1 DEF IInv
  <2> QED BY <1>1, <2>1 DEF Accepted
<1>3. ASSUME NEW d \in SUBSET Accepted(w), reply' \in [Caller -> ReplyContent],
             queue' \in [Worker -> Seq(Caller)],
             Distinct(queue'[w]), Accepted(w)' = Accepted(w) \ d,
             \A c \in d : reply'[c] # "none" /\ reply'[c] # "pending",
             \A c \in Caller \ d : reply'[c] = reply[c],
             thread'[w] \in {"looping", "unwinding", "aborting"},
             thread'[w] = "aborting" => queue'[w] = <<>>,
             thread'[w] = "looping" => thread[w] = "executing"
      PROVE  IInv'
  <2>1. TypeOK'
    BY <1>1, <1>3 DEF IInv
  <2>2. Borrowed'
    BY <1>1, <1>3 DEF IInv
  <2>3. ProviderOwned'
    BY <1>1, <1>3 DEF IInv
  <2>7. Alone'
    <3>1. \A v \in Worker : thread'[v] # "none" => thread[v] # "none"
      BY <1>1
    <3> QED BY <3>1 DEF IInv
  <2>4. Queued'
    <3>1. \A v \in Worker \ {w} : Distinct(queue'[v])
      BY <1>1 DEF IInv
    <3>2. \A v \in Worker \ {w} : queue'[v] = <<>> /\ thread'[v] # "executing"
      BY <1>1 DEF IInv
    <3>3. \A c \in Accepted(w)' : pc'[c] = "waiting" /\ reply'[c] = "pending"
      <4>1. Accepted(w) \subseteq Caller
        BY ElementOfSeq DEF IInv, Accepted
      <4> QED BY <1>1, <1>3, <4>1 DEF IInv
    <3>4. /\ queue'[w] # <<>> => ReceiverAlive(w)'
          /\ thread'[w] # "executing"
      BY <1>3
    <3> QED BY <1>2, <1>3, <3>1, <3>2, <3>3, <3>4
  <2>5. NoStrandedOperation'
    <3> SUFFICES ASSUME NEW c \in Caller, pc[c] = "waiting", reply'[c] = "pending"
                 PROVE  ReceiverAlive(w)' /\ c \in Accepted(w)'
      BY <1>1
    <3>1. c \notin d /\ reply[c] = "pending"
      BY <1>3
    <3>2. c \in Accepted(w)
      BY <1>2, <3>1 DEF IInv
    <3>3. c \in Accepted(w)'
      BY <1>3, <3>1, <3>2
    <3>4. queue'[w] # <<>>
      BY <3>3 DEF Accepted
    <3> QED BY <1>3, <3>3, <3>4
  <2>6. OwnedThread'
    BY <1>1, <1>3 DEF IInv
  <2> QED BY <2>1, <2>2, <2>3, <2>4, <2>5, <2>6, <2>7 DEF IInv
<1>4. CASE CompleteOperation(w) \/ OperationPanics(w)
  <2>1. queue[w] \in Seq(Caller) /\ queue[w] # <<>> /\ Distinct(queue[w])
    BY <1>4 DEF IInv, CompleteOperation, OperationPanics
  <2>2. /\ Tail(queue[w]) \in Seq(Caller) /\ Distinct(Tail(queue[w]))
        /\ Head(queue[w]) \in Items(queue[w])
        /\ Items(Tail(queue[w])) = Items(queue[w]) \ {Head(queue[w])}
    BY <2>1, TailItems
  <2>3. queue' = [queue EXCEPT ![w] = Tail(queue[w])] /\ queue'[w] = Tail(queue[w])
    BY <1>4 DEF IInv, CompleteOperation, OperationPanics
  <2>4. Accepted(w)' = Accepted(w) \ {Head(queue[w])} /\ Head(queue[w]) \in Accepted(w)
    BY <2>2, <2>3 DEF Accepted, Items
  <2>5. Head(queue[w]) \in Caller
    BY <2>1, HeadWaits
  <2>6. /\ reply' \in [Caller -> ReplyContent]
        /\ reply'[Head(queue[w])] \in {"value", "lost"}
        /\ \A c \in Caller \ {Head(queue[w])} : reply'[c] = reply[c]
    <3>1. \/ reply' = [reply EXCEPT ![Head(queue[w])] = "value"]
          \/ reply' = [reply EXCEPT ![Head(queue[w])] = "lost"]
      BY <1>4 DEF CompleteOperation, OperationPanics
    <3>2. reply \in [Caller -> ReplyContent]
      BY DEF IInv
    <3> QED BY <2>5, <3>1, <3>2
  <2>7. queue' \in [Worker -> Seq(Caller)]
    BY <2>2, <2>3 DEF IInv
  <2>8. /\ thread'[w] \in {"looping", "unwinding", "aborting"}
        /\ thread'[w] # "aborting"
        /\ thread[w] = "executing"
    BY <1>4 DEF IInv, CompleteOperation, OperationPanics
  <2> HIDE DEF TypeOK, WorkerTypeOK, ReceiverAlive, NoStrandedOperation, Queued,
               Borrowed, Alone, OwnedThread, ProviderOwned, ReplyContent, ThreadPhase
  <2> QED BY <1>3, <2>2, <2>3, <2>4, <2>6, <2>7, <2>8
<1>5. CASE DropReceiver(w)
  <2>1. queue' \in [Worker -> Seq(Caller)] /\ queue'[w] = <<>>
    BY <1>5 DEF IInv, DropReceiver
  <2>2. Distinct(queue'[w]) /\ Accepted(w)' = Accepted(w) \ Accepted(w)
    BY <2>1 DEF Distinct, Accepted
  <2>3. /\ reply' \in [Caller -> ReplyContent]
        /\ \A c \in Accepted(w) \cap Caller : reply'[c] = "lost"
        /\ \A c \in Caller \ Accepted(w) : reply'[c] = reply[c]
    BY <1>5 DEF IInv, DropReceiver
  <2>4. Accepted(w) \subseteq Caller
    BY ElementOfSeq DEF IInv, Accepted
  <2>5. thread'[w] = "aborting" 
    BY <1>5 DEF IInv, DropReceiver
  <2> HIDE DEF TypeOK, WorkerTypeOK, ReceiverAlive, NoStrandedOperation, Queued,
               Borrowed, Alone, OwnedThread, ProviderOwned, ReplyContent, ThreadPhase
  <2> QED BY <1>3, <2>1, <2>2, <2>3, <2>4, <2>5
<1> QED BY <1>4, <1>5

\* What the owner of the worker value does.  No operation is in a channel but
\* while the worker value is lent out, and then the owner only watches.
LEMMA OwnerStep ==
  ASSUME IInv, NEW w \in Worker,
         \/ \E d \in Dir : Start(w, d)
         \/ OwnerReturns(w)
         \/ Shutdown(w)
  PROVE  IInv'
<1> USE DEF TypeOK, WorkerTypeOK, ThreadPhase, ReadyContent, ReplyContent,
            ReceiverAlive, Borrowed, Alone, OwnedThread, ProviderOwned
<1>1. queue' = queue /\ reply' = reply /\ pc' = pc /\ provider' = provider
  BY DEF Start, OwnerReturns, StartOk, StartRejected, StartFails, ShutdownReturns,
         Shutdown, Spawn, TakeReady, Join, DropSender
<1>2. \A c \in Caller : pc[c] = "outside" /\ reply[c] = "none"
  BY DEF IInv, Start, OwnerReturns, StartOk, StartRejected, StartFails,
         ShutdownReturns, Shutdown
<1>3. \A v \in Worker : queue[v] = <<>>
  BY <1>2, HeadWaits
<1>4. Queued' /\ NoStrandedOperation'
  <2>1. \A v \in Worker : thread'[v] # "executing"
    <3>1. \A v \in Worker : thread[v] # "executing"
      BY <1>3 DEF IInv, Queued
    <3> QED
      BY <3>1 DEF IInv, Start, OwnerReturns, StartOk, StartRejected, StartFails,
                  ShutdownReturns, Shutdown, Spawn, TakeReady, Join, DropSender
  <2>2. \A v \in Worker : Distinct(queue'[v]) /\ Accepted(v)' = {}
    BY <1>1, <1>3 DEF Distinct, Accepted
  <2> QED BY <1>1, <1>2, <1>3, <2>1, <2>2 DEF Queued, NoStrandedOperation
<1>5. ASSUME NEW d \in Dir, Start(w, d) PROVE IInv'
  <2>1. \A v \in Worker : thread[v] = "none"
    BY <1>5 DEF IInv, Start
  <2> QED BY <1>1, <1>2, <1>4, <1>5, <2>1 DEF IInv, Start, Spawn
<1>6. CASE StartOk(w)
  BY <1>1, <1>2, <1>4, <1>6, SMTT(30) DEF IInv, StartOk, TakeReady
<1>7. CASE StartRejected(w)
  BY <1>1, <1>2, <1>4, <1>7, SMTT(30) DEF IInv, StartRejected, TakeReady
<1>8. CASE StartFails(w)
  BY <1>1, <1>2, <1>4, <1>8, SMTT(30) DEF IInv, StartFails, Join
<1>9. CASE ShutdownReturns(w)
  BY <1>1, <1>2, <1>4, <1>9, SMTT(30) DEF IInv, ShutdownReturns, Join
<1>10. CASE Shutdown(w)
  <2>1. /\ thread' = thread /\ ready' = ready /\ seed' = seed
        /\ sender' \in [Worker -> BOOLEAN] /\ owner = "serving" /\ owner' = "stopping"
    BY <1>10 DEF IInv, Shutdown, DropSender
  <2>2. TypeOK' /\ Borrowed' /\ Alone' /\ ProviderOwned'
    BY <1>1, <1>2, <2>1 DEF IInv
  <2>3. OwnedThread'
    BY <2>1 DEF IInv
  <2> QED BY <1>4, <2>2, <2>3 DEF IInv
<1> QED BY <1>5, <1>6, <1>7, <1>8, <1>9, <1>10 DEF OwnerReturns

\* A caller that enters run, is refused, or takes its answer: it is in no
\* channel, so its step changes nothing another one relies on.
LEMMA CallerStep ==
  ASSUME IInv, NEW c \in Caller,
         Run(c) \/ RunReturns(c) \/ \E w \in Worker : RunUnavailable(c, w)
  PROVE  IInv'
<1> USE DEF TypeOK, WorkerTypeOK, ThreadPhase, ReadyContent, ReplyContent
<1>1. /\ UNCHANGED <<thread, sender, seed, provider, ready, queue, owner>>
      /\ pc[c] # "waiting" \/ reply[c] # "pending"
      /\ owner = "serving"
      /\ \E phase \in {"outside", "sending"} : pc' = [pc EXCEPT ![c] = phase]
      /\ reply'[c] = "none" /\ reply' \in [Caller -> ReplyContent]
      /\ \A b \in Caller \ {c} : reply'[b] = reply[b]
  <2>1. CASE Run(c)
    BY <2>1 DEF IInv, Run, workerVars, Borrowed
  <2>2. CASE RunReturns(c)
    BY <2>2 DEF IInv, RunReturns, TakeReply, Borrowed
  <2>3. CASE \E w \in Worker : RunUnavailable(c, w)
    BY <2>3 DEF IInv, RunUnavailable, SendRefused, workerVars, Borrowed
  <2> QED BY <2>1, <2>2, <2>3
<1>2. \A v \in Worker : /\ c \notin Accepted(v)
                        /\ Accepted(v)' = Accepted(v)
                        /\ ReceiverAlive(v)' = ReceiverAlive(v)
  BY <1>1 DEF IInv, Queued, Accepted, ReceiverAlive
<1>3. TypeOK'
  <2>1. pc' \in [Caller -> {"outside", "sending", "waiting"}]
    BY <1>1 DEF IInv
  <2> QED BY <1>1, <2>1 DEF IInv
<1>4. Borrowed'
  BY <1>1 DEF IInv, Borrowed
<1>5. Alone' /\ OwnedThread' /\ ProviderOwned'
  BY <1>1 DEF IInv, Alone, OwnedThread, ProviderOwned
<1>6. Queued'
  <2>1. \A v \in Worker : Accepted(v) \subseteq Caller
    BY ElementOfSeq DEF IInv, Accepted
  <2>2. \A b \in Caller \ {c} : pc'[b] = pc[b] /\ reply'[b] = reply[b]
    BY <1>1 DEF IInv
  <2>3. \A v \in Worker : Distinct(queue[v])' = Distinct(queue[v])
    BY <1>1
  <2> QED BY <1>1, <1>2, <2>1, <2>2, <2>3 DEF IInv, Queued
<1>7. NoStrandedOperation'
  BY <1>1, <1>2 DEF IInv, NoStrandedOperation
<1> QED BY <1>3, <1>4, <1>5, <1>6, <1>7 DEF IInv

\* An operation that is accepted is in the channel of a receiver that is alive.
LEMMA SendStep ==
  ASSUME IInv, NEW c \in Caller, NEW w \in Worker, RunSends(c, w)
  PROVE  IInv'
<1> USE DEF TypeOK, WorkerTypeOK, ThreadPhase, ReadyContent, ReplyContent
<1>1. /\ UNCHANGED <<thread, sender, seed, provider, ready, owner>>
      /\ owner = "serving" /\ ReceiverAlive(w)
      /\ pc[c] = "sending" /\ reply[c] = "none"
      /\ queue' = [queue EXCEPT ![w] = Append(queue[w], c)]
      /\ pc' = [pc EXCEPT ![c] = "waiting"]
      /\ reply' = [reply EXCEPT ![c] = "pending"]
  BY DEF IInv, RunSends, SendOperation, Borrowed
<1>2. queue[w] \in Seq(Caller) /\ Distinct(queue[w]) /\ c \notin Items(queue[w])
  BY <1>1 DEF IInv, Queued, Accepted, Items
<1>3. /\ queue'[w] \in Seq(Caller) /\ queue'[w] # <<>> /\ Distinct(queue'[w])
      /\ Accepted(w)' = Accepted(w) \cup {c}
  <2>1. queue'[w] = Append(queue[w], c)
    BY <1>1 DEF IInv
  <2> QED BY <1>2, <2>1, AppendItems DEF Items, Accepted
<1>4. \A v \in Worker \ {w} : queue'[v] = queue[v] /\ Accepted(v)' = Accepted(v)
  BY <1>1 DEF IInv, Accepted
<1>5. TypeOK'
  BY <1>1, <1>3 DEF IInv
<1>6. Borrowed'
  BY <1>1 DEF IInv, Borrowed
<1>7. Alone' /\ OwnedThread' /\ ProviderOwned'
  BY <1>1 DEF IInv, Alone, OwnedThread, ProviderOwned
<1>8. Queued'
  <2>1. \A v \in Worker : Accepted(v) \subseteq Caller
    BY ElementOfSeq DEF IInv, Accepted
  <2>2. pc'[c] = "waiting" /\ reply'[c] = "pending"
    BY <1>1 DEF IInv
  <2>3. \A b \in Caller \ {c} : pc'[b] = pc[b] /\ reply'[b] = reply[b]
    BY <1>1 DEF IInv
  <2>4. \A v \in Worker : ReceiverAlive(v)' = ReceiverAlive(v)
    BY <1>1 DEF ReceiverAlive
  <2>5. \A v \in Worker : Distinct(queue'[v])
    BY <1>3, <1>4 DEF IInv, Queued
  <2>6. \A v \in Worker : \A b \in Accepted(v)' : pc'[b] = "waiting" /\ reply'[b] = "pending"
    <3> SUFFICES ASSUME NEW v \in Worker, NEW b \in Accepted(v)'
                 PROVE  pc'[b] = "waiting" /\ reply'[b] = "pending"
      OBVIOUS
    <3>1. b = c \/ b \in Accepted(v)
      BY <1>3, <1>4
    <3>2. CASE b # c
      BY <2>1, <2>3, <3>1, <3>2 DEF IInv, Queued
    <3> QED BY <2>2, <3>2
  <2>7. \A v \in Worker : queue'[v] # <<>> => ReceiverAlive(v)'
    BY <1>1, <1>4, <2>4 DEF IInv, Queued
  <2>8. \A v \in Worker : thread'[v] = "executing" => queue'[v] # <<>>
    BY <1>1, <1>3, <1>4 DEF IInv, Queued
  <2> QED BY <2>5, <2>6, <2>7, <2>8 DEF Queued
<1>9. NoStrandedOperation'
  <2> SUFFICES ASSUME NEW b \in Caller, pc'[b] = "waiting", reply'[b] = "pending"
               PROVE  \E v \in Worker : ReceiverAlive(v)' /\ b \in Accepted(v)'
    BY DEF NoStrandedOperation
  <2>1. \A v \in Worker : ReceiverAlive(v)' = ReceiverAlive(v)
    BY <1>1 DEF ReceiverAlive
  <2>2. CASE b = c
    BY <1>1, <1>3, <2>1, <2>2
  <2>3. CASE b # c
    <3>1. pc[b] = "waiting" /\ reply[b] = "pending"
      BY <1>1, <2>3 DEF IInv
    <3>2. PICK v \in Worker : ReceiverAlive(v) /\ b \in Accepted(v)
      BY <3>1 DEF IInv, NoStrandedOperation
    <3>3. b \in Accepted(v)'
      BY <1>3, <1>4, <3>2
    <3> QED BY <2>1, <3>2, <3>3
  <2> QED BY <2>2, <2>3
<1> QED BY <1>5, <1>6, <1>7, <1>8, <1>9 DEF IInv

LEMMA StepIInv == IInv /\ [Next]_vars => IInv'
<1> SUFFICES ASSUME IInv, [Next]_vars PROVE IInv'
  OBVIOUS
<1>1. ASSUME NEW w \in Worker, ThreadStep(w), UNCHANGED <<owner, pc>> PROVE IInv'
  BY <1>1, QuietThreadStep, AnsweringThreadStep DEF ThreadStep
<1>2. ASSUME NEW w \in Worker,
             (\E d \in Dir : Start(w, d)) \/ OwnerReturns(w) \/ Shutdown(w)
      PROVE  IInv'
  BY <1>2, OwnerStep
<1>3. ASSUME NEW c \in Caller, Run(c) \/ RunStep(c) PROVE IInv'
  BY <1>3, CallerStep, SendStep DEF RunStep
<1>4. CASE UNCHANGED vars
  BY <1>4 DEF vars, IInv, TypeOK, WorkerTypeOK, NoStrandedOperation, Queued,
              Accepted, ReceiverAlive, Borrowed, Alone, OwnedThread, ProviderOwned
<1> QED BY <1>1, <1>2, <1>3, <1>4 DEF Next

\* The inductive invariant holds throughout.
THEOREM Invariant == Spec => []IInv
<1> QED BY InitIInv, StepIInv, PTL DEF Spec

-----------------------------------------------------------------------------
(***************************************************************************)
(* No caller is left without an answer that may still come, and nothing    *)
(* survives the worker value: whichever operation panics, with whichever   *)
(* operations queued behind it, and however often the worker is started    *)
(* again (biometric_worker.rs, the loop of start, run and stop).           *)
(***************************************************************************)
THEOREM NothingIsLeftBehind == Spec => []NothingLeftBehind
<1>1. IInv => NothingLeftBehind
  <2> SUFFICES ASSUME IInv, owner = "absent"
               PROVE  /\ \A w \in Worker : provider[w] = NoDir /\ thread[w] = "none"
                      /\ \A c \in Caller : reply[c] # "pending"
    BY DEF NothingLeftBehind, ReleasedWhenAbsent, IInv
  <2>1. \A w \in Worker : thread[w] = "none"
    BY DEF IInv, OwnedThread
  <2>2. \A w \in Worker : provider[w] = NoDir
    BY <2>1 DEF IInv, ProviderOwned
  <2>3. \A c \in Caller : reply[c] = "none"
    BY DEF IInv, Borrowed
  <2> QED BY <2>1, <2>2, <2>3
<1> QED BY Invariant, <1>1, PTL

(***************************************************************************)
(* However many requests are made at once, they share one thread and so    *)
(* one provider (concurrent_requests_share_one_provider, a test of         *)
(* biometric_worker.rs).                                                   *)
(***************************************************************************)
THEOREM OneThread == Spec => []Alone
<1>1. IInv => Alone
  BY DEF IInv
<1> QED BY Invariant, <1>1, PTL
===============================================================================
