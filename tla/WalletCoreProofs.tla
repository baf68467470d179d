---------------------------- MODULE WalletCoreProofs ----------------------------
(***************************************************************************)
(* Theorems about the Rust library: the bridge and the operations behind   *)
(* it, for every value of the constants.                                   *)
(***************************************************************************)
EXTENDS WalletCore, FiniteSetTheorems, TLAPS

-----------------------------------------------------------------------------
(***************************************************************************)
(* Calls from Dart to Rust, for every number of calls, functions and       *)
(* threads of the pool: a call is in one place, and nobody else is at the  *)
(* worker.  The strengthening is what the isolate is inside of: a call     *)
(* that has begun, so not one that a thread of the pool could take.        *)
(***************************************************************************)
InsideOfBegunCall == isolate # NoCall => stage[isolate] \in Busy \cup {"posted"}

BridgeInv == TypeOK /\ OnePlace /\ InsideOfBegunCall

LEMMA InitBridgeInv == Init => BridgeInv
<1> SUFFICES ASSUME Init PROVE BridgeInv
  OBVIOUS
<1>1. TypeOK
  BY DEF Init, TypeOK, Stages
<1>2. OnePlace
  BY BridgeAssumption DEF Init, OnePlace, Busy
<1> QED BY <1>1, <1>2 DEF Init, BridgeInv, InsideOfBegunCall

LEMMA RequestBridgeInv ==
  ASSUME BridgeInv, NEW c \in Call, NEW f \in Function, Request(c, f) PROVE BridgeInv'
<1> USE BridgeAssumption DEF BridgeInv, InsideOfBegunCall
<1>1. isolate = NoCall /\ stage[c] = "idle" /\ thread' = thread /\ lock' = lock
  BY DEF Request
<1>2. \A i \in DOMAIN queue : queue[i] # c
  BY <1>1 DEF OnePlace
<1>3. \A t \in Thread : thread[t] # c
  BY <1>1 DEF OnePlace, Busy
<1>4. PICK s \in {"queued", "running", "misrouted"} :
        /\ stage' = [stage EXCEPT ![c] = s]
        /\ s = "queued" => queue' = Append(queue, c) /\ isolate' = NoCall
        /\ s # "queued" => queue' = queue
        /\ isolate' \in {NoCall, c}
        /\ isolate' = c => s = "running"
  <2>1. CASE Executor(f) = "pool"
    BY <2>1 DEF Request
  <2>2. CASE Executor(f) = "nowhere"
    BY <2>2 DEF Request
  <2>3. CASE Executor(f) \notin {"pool", "nowhere"}
    BY <2>3 DEF Request
  <2> QED BY <2>1, <2>2, <2>3
<1>5. TypeOK'
  <2>1. function' \in [Call -> Function \cup {"none"}] /\ DOMAIN received' = Call
    BY DEF TypeOK, Request
  <2> QED BY <1>1, <1>4, <2>1 DEF TypeOK, Stages, Request
<1>6. InsideOfBegunCall'
  BY <1>4 DEF TypeOK, Busy
<1>7. OnePlace'
  <2>0. ASSUME s = "queued"
        PROVE  /\ DOMAIN queue' = DOMAIN queue \cup {Len(queue) + 1}
               /\ queue'[Len(queue) + 1] = c
               /\ \A i \in DOMAIN queue : queue'[i] = queue[i]
               /\ Len(queue) + 1 \notin DOMAIN queue
    <3>1. queue' = Append(queue, c) /\ queue \in Seq(Call) /\ Len(queue) \in Nat
      BY <1>4, <2>0 DEF TypeOK
    <3>2. DOMAIN queue = 1 .. Len(queue) /\ DOMAIN queue' = 1 .. Len(queue) + 1
      BY <3>1
    <3>3. queue'[Len(queue) + 1] = c /\ \A i \in DOMAIN queue : queue'[i] = queue[i]
      BY <3>1, <3>2
    <3>4. 1 .. Len(queue) + 1 = 1 .. Len(queue) \cup {Len(queue) + 1}
      BY <3>1
    <3> QED BY <3>1, <3>2, <3>3, <3>4
  <2>1. \A d \in Call : stage'[d] = "queued" <=> \E i \in DOMAIN queue' : queue'[i] = d
    <3>1. CASE s = "queued"
      <4>1. \A d \in Call : stage'[d] = "queued" <=> stage[d] = "queued" \/ d = c
        BY <1>4, <3>1 DEF TypeOK
      <4>2. \A d \in Call :
              (\E i \in DOMAIN queue' : queue'[i] = d)
                <=> (\E i \in DOMAIN queue : queue[i] = d) \/ d = c
        BY <2>0, <3>1
      <4> QED BY <4>1, <4>2 DEF OnePlace
    <3>2. CASE s # "queued"
      <4>1. queue' = queue
        BY <1>4, <3>2
      <4>2. \A d \in Call : stage'[d] = "queued" <=> stage[d] = "queued"
        BY <1>1, <1>4, <3>2 DEF TypeOK
      <4> QED BY <4>1, <4>2 DEF OnePlace
    <3> QED BY <3>1, <3>2
  <2>2. \A i, j \in DOMAIN queue' : queue'[i] = queue'[j] => i = j
    <3>1. CASE s = "queued"
      BY <1>2, <2>0, <3>1 DEF OnePlace
    <3>2. CASE s # "queued"
      BY <1>4, <3>2 DEF OnePlace
    <3> QED BY <3>1, <3>2
  <2>3. \A t, u \in Thread :
          thread'[t] # NoCall => /\ stage'[thread'[t]] \in Busy
                                 /\ isolate' # thread'[t]
                                 /\ thread'[u] = thread'[t] => u = t
    BY <1>1, <1>3, <1>4 DEF OnePlace, TypeOK
  <2>4. \A d \in Call : stage'[d] = "locked" <=> lock' = d
    BY <1>1, <1>4 DEF OnePlace, TypeOK
  <2> QED BY <2>1, <2>2, <2>3, <2>4 DEF OnePlace
<1> QED BY <1>5, <1>6, <1>7

LEMMA TakeCallBridgeInv ==
  ASSUME BridgeInv, NEW t \in Thread, TakeCall(t) PROVE BridgeInv'
<1> USE BridgeAssumption DEF BridgeInv, InsideOfBegunCall
<1> DEFINE c == Head(queue)
<1>1. /\ queue # <<>> /\ c \in Call /\ c = queue[1] /\ 1 \in DOMAIN queue
      /\ stage[c] = "queued" /\ isolate # c /\ lock # c
  BY DEF TakeCall, TypeOK, OnePlace, Busy
<1>2. /\ thread' = [thread EXCEPT ![t] = c] /\ queue' = Tail(queue)
      /\ stage' = [stage EXCEPT ![c] = "running"]
      /\ isolate' = isolate /\ lock' = lock /\ thread[t] = NoCall
  BY DEF TakeCall
<1>3. \A u \in Thread : thread[u] # c
  BY <1>1 DEF OnePlace, Busy
<1> HIDE DEF c
<1>4. /\ \A i \in DOMAIN queue' : i + 1 \in DOMAIN queue /\ queue'[i] = queue[i + 1]
      /\ \A i \in DOMAIN queue : i # 1 => i - 1 \in DOMAIN queue' /\ queue'[i - 1] = queue[i]
      /\ DOMAIN queue \subseteq Nat /\ DOMAIN queue' \subseteq Nat
  BY <1>1, <1>2 DEF TypeOK
<1>5. TypeOK'
  BY <1>1, <1>2 DEF TypeOK, Stages, TakeCall
<1>6. OnePlace'
  <2>1. \A d \in Call : stage'[d] = "queued" <=> \E i \in DOMAIN queue' : queue'[i] = d
    <3> SUFFICES ASSUME NEW d \in Call
                 PROVE  stage'[d] = "queued" <=> \E i \in DOMAIN queue' : queue'[i] = d
      OBVIOUS
    <3>1. CASE d = c
      <4>1. \A i \in DOMAIN queue' : queue'[i] # c
        BY <1>1, <1>4, SMTT(30) DEF OnePlace
      <4> QED BY <1>1, <1>2, <3>1, <4>1 DEF TypeOK
    <3>2. CASE d # c
      <4>1. stage'[d] = stage[d]
        BY <1>1, <1>2, <3>2 DEF TypeOK
      <4>2. (\E i \in DOMAIN queue' : queue'[i] = d) <=> \E i \in DOMAIN queue : queue[i] = d
        BY <1>1, <1>4, <3>2
      <4> QED BY <4>1, <4>2 DEF OnePlace
    <3> QED BY <3>1, <3>2
  <2>2. \A i, j \in DOMAIN queue' : queue'[i] = queue'[j] => i = j
    <3> SUFFICES ASSUME NEW i \in DOMAIN queue', NEW j \in DOMAIN queue',
                        queue'[i] = queue'[j]
                 PROVE  i = j
      OBVIOUS
    <3>1. i + 1 = j + 1
      BY <1>4 DEF OnePlace
    <3> QED BY <1>4, <3>1
  <2>3. \A u, v \in Thread :
          thread'[u] # NoCall => /\ stage'[thread'[u]] \in Busy
                                 /\ isolate' # thread'[u]
                                 /\ thread'[v] = thread'[u] => v = u
    BY <1>1, <1>2, <1>3 DEF OnePlace, TypeOK, Busy
  <2>4. \A d \in Call : stage'[d] = "locked" <=> lock' = d
    BY <1>1, <1>2 DEF OnePlace, TypeOK
  <2> QED BY <2>1, <2>2, <2>3, <2>4 DEF OnePlace
<1>7. InsideOfBegunCall'
  BY <1>1, <1>2 DEF TypeOK
<1> QED BY <1>5, <1>6, <1>7

\* A call that has begun and only moves to another stage than "queued".
LEMMA MoveBridgeInv ==
  ASSUME BridgeInv, NEW c \in Call, stage[c] \in Busy, NEW s \in Busy,
         stage' = [stage EXCEPT ![c] = s],
         lock' = IF s = "locked" THEN c ELSE lock,
         stage[c] = "locked" => s = "locked", s = "locked" => lock \in {NoCall, c},
         UNCHANGED <<function, received, result, outcome, isolate, queue, thread, hangs>>
  PROVE  BridgeInv'
<1> USE BridgeAssumption DEF BridgeInv, InsideOfBegunCall, Busy
<1>1. TypeOK'
  BY DEF TypeOK, Stages
<1>2. OnePlace'
  BY DEF OnePlace, TypeOK
<1>3. InsideOfBegunCall'
  BY DEF TypeOK
<1> QED BY <1>1, <1>2, <1>3

LEMMA PostBridgeInv ==
  ASSUME BridgeInv, NEW c \in Call, stage[c] \in {"running", "locked"},
         NEW sentBack \in {"success", "error", "panic"}, Post(c, sentBack),
         lock' = IF stage[c] = "locked" THEN NoCall ELSE lock
  PROVE  BridgeInv'
<1> USE BridgeAssumption DEF BridgeInv, InsideOfBegunCall, Busy
<1>1. /\ stage' = [stage EXCEPT ![c] = "posted"]
      /\ thread' = [t \in Thread |-> IF thread[t] = c THEN NoCall ELSE thread[t]]
      /\ result' = [result EXCEPT ![c] = sentBack]
      /\ UNCHANGED <<function, received, outcome, isolate, queue, hangs>>
  BY DEF Post
<1>2. TypeOK'
  BY <1>1 DEF TypeOK, Stages
<1>3. OnePlace'
  BY <1>1 DEF OnePlace, TypeOK
<1>4. InsideOfBegunCall'
  BY <1>1 DEF TypeOK
<1> QED BY <1>2, <1>3, <1>4

LEMMA ReceiveBridgeInv ==
  ASSUME BridgeInv, NEW c \in Call, Receive(c) PROVE BridgeInv'
<1> USE BridgeAssumption DEF BridgeInv, InsideOfBegunCall, Busy
<1>1. /\ stage[c] = "posted" /\ isolate \in {NoCall, c} /\ isolate' = NoCall
      /\ stage' = [stage EXCEPT ![c] = "answered"]
      /\ UNCHANGED <<function, received, result, queue, thread, lock, hangs>>
  BY DEF Receive
<1>2. outcome' \in [Call -> {"none", "value", "exception", "undecodable"}]
  BY DEF Receive, TypeOK
<1>3. TypeOK'
  BY <1>1, <1>2 DEF TypeOK, Stages
<1>4. OnePlace'
  BY <1>1 DEF OnePlace, TypeOK
<1> QED BY <1>1, <1>3, <1>4

LEMMA StepBridgeInv == BridgeInv /\ [Next]_vars => BridgeInv'
<1> SUFFICES ASSUME BridgeInv, [Next]_vars PROVE BridgeInv'
  OBVIOUS
<1>1. ASSUME NEW c \in Call, NEW f \in Function, Request(c, f) PROVE BridgeInv'
  BY <1>1, RequestBridgeInv
<1>2. ASSUME NEW t \in Thread, TakeCall(t) PROVE BridgeInv'
  BY <1>2, TakeCallBridgeInv
<1>3. ASSUME NEW c \in Call, WantLock(c) PROVE BridgeInv'
  BY <1>3, MoveBridgeInv DEF WantLock, Busy
<1>4. ASSUME NEW c \in Call, TakeLock(c) PROVE BridgeInv'
  BY <1>4, MoveBridgeInv DEF TakeLock, Busy
<1>5. ASSUME NEW c \in Call, Return(c) PROVE BridgeInv'
  BY <1>5, PostBridgeInv DEF Return
<1>6. ASSUME NEW c \in Call, ReturnFromWorker(c) PROVE BridgeInv'
  BY <1>6, PostBridgeInv DEF ReturnFromWorker
<1>7. ASSUME NEW c \in Call, Receive(c) PROVE BridgeInv'
  BY <1>7, ReceiveBridgeInv
<1>8. CASE UNCHANGED vars
  BY <1>8 DEF vars, BridgeInv, TypeOK, OnePlace, InsideOfBegunCall
<1> QED
  BY <1>1, <1>2, <1>3, <1>4, <1>5, <1>6, <1>7, <1>8 DEF Next

\* The types, for every table, pool and number of calls.
THEOREM TypeCorrect == Spec => []TypeOK
<1>1. BridgeInv => TypeOK
  BY DEF BridgeInv
<1> QED BY InitBridgeInv, StepBridgeInv, <1>1, PTL DEF Spec

\* A call is never on two threads, nor on one and in the queue, and the lock of the worker
\* has one holder, whatever the pool and the calls in flight, and also when the worker hangs.
THEOREM CallInOnePlace == Spec => []OnePlace
<1>1. BridgeInv => OnePlace
  BY DEF BridgeInv
<1> QED BY InitBridgeInv, StepBridgeInv, <1>1, PTL DEF Spec

-----------------------------------------------------------------------------
(***************************************************************************)
(* The two generated halves.  They are compared table by table; that they  *)
(* agree as a whole follows because joining tables with the same entries   *)
(* keeps the agreement.                                                    *)
(***************************************************************************)
Agree(w, t) ==
  /\ DOMAIN w = DOMAIN t
  /\ \A f \in DOMAIN w : /\ w[f].args = t[f].args
                         /\ w[f].fails => t[f].decodesErrors
                         /\ NeedsWorker(f) => w[f].fails

LEMMA AgreeIsKept ==
  ASSUME NEW v, NEW w, NEW s, NEW t, Agree(v, s), Agree(w, t)
  PROVE  Agree(Joined(v, w), Joined(s, t))
BY DEF Agree, Joined

LEMMA Table1Agrees == Agree(WireTable1, TaskTable1)
BY DEF Agree, NeedsWorker, WireTable1, TaskTable1, Normal, NormalPlain, Sync, Async,
       Future, FuturePlain, Immediate

LEMMA Table2Agrees == Agree(WireTable2, TaskTable2)
BY DEF Agree, NeedsWorker, WireTable2, TaskTable2, Normal, NormalPlain, Sync, Async,
       Future, FuturePlain, Immediate

LEMMA Table3Agrees == Agree(WireTable3, TaskTable3)
BY DEF Agree, NeedsWorker, WireTable3, TaskTable3, Normal, NormalPlain, Sync, Async,
       Future, FuturePlain, Immediate

LEMMA Table4Agrees == Agree(WireTable4, TaskTable4)
BY DEF Agree, NeedsWorker, WireTable4, TaskTable4, Normal, NormalPlain, Sync, Async,
       Future, FuturePlain, Immediate

LEMMA Table5Agrees == Agree(WireTable5, TaskTable5)
BY DEF Agree, NeedsWorker, WireTable5, TaskTable5, Normal, NormalPlain, Sync, Async,
       Future, FuturePlain, Immediate

LEMMA Table6Agrees == Agree(WireTable6, TaskTable6)
BY DEF Agree, NeedsWorker, WireTable6, TaskTable6, Normal, NormalPlain, Sync, Async,
       Future, FuturePlain, Immediate

LEMMA Table7Agrees == Agree(WireTable7, TaskTable7)
BY DEF Agree, NeedsWorker, WireTable7, TaskTable7, Normal, NormalPlain, Sync, Async,
       Future, FuturePlain, Immediate

LEMMA Table8Agrees == Agree(WireTable8, TaskTable8)
BY DEF Agree, NeedsWorker, WireTable8, TaskTable8, Normal, NormalPlain, Sync, Async,
       Future, FuturePlain, Immediate

LEMMA Table9Agrees == Agree(WireTable9, TaskTable9)
BY DEF Agree, NeedsWorker, WireTable9, TaskTable9, Normal, NormalPlain, Sync, Async,
       Future, FuturePlain, Immediate

LEMMA TablesAgree == Agree(Wire, Task)
<1> DEFINE W8 == Joined(WireTable8, WireTable9)
          T8 == Joined(TaskTable8, TaskTable9)
<1> DEFINE W7 == Joined(WireTable7, W8)
          T7 == Joined(TaskTable7, T8)
<1> DEFINE W6 == Joined(WireTable6, W7)
          T6 == Joined(TaskTable6, T7)
<1> DEFINE W5 == Joined(WireTable5, W6)
          T5 == Joined(TaskTable5, T6)
<1> DEFINE W4 == Joined(WireTable4, W5)
          T4 == Joined(TaskTable4, T5)
<1> DEFINE W3 == Joined(WireTable3, W4)
          T3 == Joined(TaskTable3, T4)
<1> DEFINE W2 == Joined(WireTable2, W3)
          T2 == Joined(TaskTable2, T3)
<1> DEFINE W1 == Joined(WireTable1, W2)
          T1 == Joined(TaskTable1, T2)
<1>1. Agree(W8, T8)
  BY AgreeIsKept, Table8Agrees, Table9Agrees
<1>2. Agree(W7, T7)
  BY AgreeIsKept, Table7Agrees, <1>1
<1>3. Agree(W6, T6)
  BY AgreeIsKept, Table6Agrees, <1>2
<1>4. Agree(W5, T5)
  BY AgreeIsKept, Table5Agrees, <1>3
<1>5. Agree(W4, T4)
  BY AgreeIsKept, Table4Agrees, <1>4
<1>6. Agree(W3, T3)
  BY AgreeIsKept, Table3Agrees, <1>5
<1>7. Agree(W2, T2)
  BY AgreeIsKept, Table2Agrees, <1>6
<1>8. Agree(W1, T1)
  BY AgreeIsKept, Table1Agrees, <1>7
<1> QED BY <1>8 DEF Wire, Task

\* Every parameter is given the argument of its name.
LEMMA DecodedByName ==
  ASSUME NEW f \in DOMAIN Wire
  PROVE  \A p \in DOMAIN Decoded(f) : Decoded(f)[p] = p
<1>1. Task[f].args = Wire[f].args
  BY TablesAgree DEF Agree
<1> DEFINE args == Wire[f].args
<1>2. Decoded(f) = [p \in {args[i] : i \in DOMAIN args} |->
                      args[CHOOSE i \in DOMAIN args : args[i] = p]]
  BY <1>1 DEF Decoded
<1> HIDE DEF args
<1> QED BY <1>2

\* What has been passed and sent so far agrees.
CallsAgree ==
  \A c \in Call :
    /\ \A p \in DOMAIN received[c] : received[c][p] = p
    /\ stage[c] # "idle" => function[c] \in Function
    /\ stage[c] = "idle" => result[c] = "none"
    /\ stage[c] \in {"locking", "locked"} => NeedsWorker(function[c])
    /\ result[c] = "error" => Wire[function[c]].fails
    /\ outcome[c] # "undecodable"

LEMMA InitCallsAgree == Init => CallsAgree
BY DEF Init, CallsAgree

\* One call moves on; the others are as they were.
LEMMA OneCallAgrees ==
  ASSUME TypeOK, CallsAgree, NEW c \in Call,
         \A d \in Call \ {c} : /\ received'[d] = received[d] /\ stage'[d] = stage[d]
                               /\ function'[d] = function[d] /\ result'[d] = result[d]
                               /\ outcome'[d] = outcome[d],
         \A p \in DOMAIN received'[c] : received'[c][p] = p,
         function'[c] \in Function, stage'[c] # "idle",
         stage'[c] \in {"locking", "locked"} => NeedsWorker(function'[c]),
         result'[c] = "error" => Wire[function'[c]].fails,
         outcome'[c] # "undecodable"
  PROVE  CallsAgree'
BY DEF CallsAgree

LEMMA StepCallsAgree == TypeOK /\ CallsAgree /\ OnePlace /\ [Next]_vars => CallsAgree'
<1> SUFFICES ASSUME TypeOK, CallsAgree, OnePlace, [Next]_vars PROVE CallsAgree'
  OBVIOUS
<1> USE BridgeAssumption
<1>1. ASSUME NEW c \in Call, NEW f \in Function, Request(c, f) PROVE CallsAgree'
  <2>1. received'[c] = Decoded(f) /\ function'[c] = f /\ result'[c] = "none"
    BY <1>1 DEF Request, TypeOK, CallsAgree
  <2>2. stage'[c] \in {"queued", "misrouted", "running"}
    <3>1. CASE Executor(f) = "pool"
      BY <1>1, <3>1 DEF Request, TypeOK
    <3>2. CASE Executor(f) = "nowhere"
      BY <1>1, <3>2 DEF Request, TypeOK
    <3>3. CASE Executor(f) \notin {"pool", "nowhere"}
      BY <1>1, <3>3 DEF Request, TypeOK
    <3> QED BY <3>1, <3>2, <3>3
  <2>3. \A p \in DOMAIN received'[c] : received'[c][p] = p
    BY <2>1, DecodedByName
  <2>4. \A d \in Call \ {c} : /\ received'[d] = received[d] /\ stage'[d] = stage[d]
                              /\ function'[d] = function[d]
    <3>1. \A to : stage' = [stage EXCEPT ![c] = to] => \A d \in Call \ {c} : stage'[d] = stage[d]
      BY DEF TypeOK
    <3>2. \A d \in Call \ {c} : stage'[d] = stage[d]
      BY <1>1, <3>1 DEF Request
    <3> QED BY <1>1, <3>2 DEF Request, TypeOK
  <2> QED
    BY <1>1, <2>1, <2>2, <2>3, <2>4, OneCallAgrees DEF Request, CallsAgree
<1>2. ASSUME NEW t \in Thread, TakeCall(t) PROVE CallsAgree'
  <2>1. Head(queue) \in Call /\ stage[Head(queue)] = "queued"
    <3>1. queue \in Seq(Call) /\ queue # <<>> /\ 1 \in DOMAIN queue /\ Head(queue) = queue[1]
      BY <1>2 DEF TakeCall, TypeOK
    <3> QED BY <3>1 DEF OnePlace
  <2> QED
    BY <1>2, <2>1, OneCallAgrees DEF TakeCall, TypeOK, CallsAgree
<1>3. ASSUME NEW c \in Call, WantLock(c) PROVE CallsAgree'
  BY <1>3, OneCallAgrees DEF WantLock, TypeOK, CallsAgree
<1>4. ASSUME NEW c \in Call, TakeLock(c) PROVE CallsAgree'
  BY <1>4, OneCallAgrees DEF TakeLock, TypeOK, CallsAgree
<1>5. ASSUME NEW c \in Call, Return(c) PROVE CallsAgree'
  BY <1>5, OneCallAgrees DEF Return, Post, TypeOK, CallsAgree
<1>6. ASSUME NEW c \in Call, ReturnFromWorker(c) PROVE CallsAgree'
  <2>1. Wire[function[c]].fails
    BY <1>6, TablesAgree DEF ReturnFromWorker, CallsAgree, Agree
  <2> QED
    BY <1>6, <2>1, OneCallAgrees DEF ReturnFromWorker, Post, TypeOK, CallsAgree
<1>7. ASSUME NEW c \in Call, Receive(c) PROVE CallsAgree'
  <2>1. function[c] \in DOMAIN Wire
    BY <1>7 DEF Receive, CallsAgree
  <2>2. result[c] = "error" => Task[function[c]].decodesErrors
    BY <2>1, TablesAgree DEF CallsAgree, Agree
  <2>3. outcome'[c] \in {"value", "exception"}
    <3>1. CASE result[c] = "success"
      BY <1>7, <3>1 DEF Receive, TypeOK
    <3>2. CASE result[c] = "error"
      BY <1>7, <2>2, <3>2 DEF Receive, TypeOK
    <3>3. CASE result[c] \notin {"success", "error"}
      BY <1>7, <3>3 DEF Receive, TypeOK
    <3> QED BY <3>1, <3>2, <3>3
  <2>4. \A d \in Call \ {c} : outcome'[d] = outcome[d]
    <3>1. \A to : outcome' = [outcome EXCEPT ![c] = to]
            => \A d \in Call \ {c} : outcome'[d] = outcome[d]
      BY DEF TypeOK
    <3> QED BY <1>7, <3>1 DEF Receive
  <2> QED
    BY <1>7, <2>3, <2>4, OneCallAgrees DEF Receive, TypeOK, CallsAgree
<1>8. CASE UNCHANGED vars
  BY <1>8 DEF vars, CallsAgree
<1> QED
  BY <1>1, <1>2, <1>3, <1>4, <1>5, <1>6, <1>7, <1>8 DEF Next

\* The halves agree in every call that is made: positions in frb_generated.rs and
\* frb_generated.dart name the same arguments, and no error reaches a caller that has no
\* decoder for it, whatever functions are called, in any number and order.
THEOREM BothHalvesAgree == Spec => []HalvesAgree
<1>1. CallsAgree => HalvesAgree
  BY DEF CallsAgree, HalvesAgree
<1>2. BridgeInv => TypeOK /\ OnePlace
  BY DEF BridgeInv
<1> QED
  BY InitBridgeInv, StepBridgeInv, InitCallsAgree, StepCallsAgree, <1>1, <1>2, PTL DEF Spec

-----------------------------------------------------------------------------
(***************************************************************************)
(* Texts that are scanned (module QrInput).  What a loop over the pairs of *)
(* a query computes is proved by induction on the number of pairs read.    *)
(* The induction is the well-foundedness of the strict subsets: of a set   *)
(* of numbers, the intervals up to each have a least one.                  *)
(***************************************************************************)
\* A set of numbers has a least one.
LEMMA LeastOf ==
  ASSUME NEW T \in SUBSET Nat, T # {}
  PROVE  \E m \in T : \A k \in T : m <= k
<1> DEFINE R == StrictSubsetOrdering(Nat)
           Below == {0 .. k : k \in T}
<1>1. IsWellFoundedOn(R, FiniteSubsetsOf(Nat))
  BY FS_StrictSubsetOrderingWellFounded
<1>2. Below \subseteq FiniteSubsetsOf(Nat) /\ Below # {}
  <2>1. ASSUME NEW k \in T PROVE 0 .. k \in FiniteSubsetsOf(Nat)
    <3>1. IsFiniteSet(0 .. k)
      BY FS_Interval
    <3> QED BY <3>1 DEF FiniteSubsetsOf
  <2> QED BY <2>1
<1>3. PICK B \in Below : \A C \in Below : ~ (<<C, B>> \in R)
  <2> HIDE DEF R, Below
  <2> QED BY <1>1, <1>2, WFMin
<1>4. PICK m \in T : B = 0 .. m
  BY <1>3
<1>5. ASSUME NEW k \in T, k < m PROVE FALSE
  <2>1. 0 .. k \in Below /\ 0 .. k \in SUBSET Nat /\ 0 .. m \in SUBSET Nat
    OBVIOUS
  <2>2. 0 .. k \subseteq 0 .. m /\ m \in 0 .. m /\ m \notin 0 .. k
    BY <1>5
  <2>3. <<0 .. k, 0 .. m>> \in R
    BY <2>1, <2>2 DEF StrictSubsetOrdering
  <2> QED BY <1>3, <1>4, <2>1, <2>3
<1> QED BY <1>5

\* The form in which a statement about every number is proved.
LEMMA ByInduction ==
  ASSUME NEW S \in SUBSET Nat, 0 \in S, \A k \in S : k + 1 \in S
  PROVE  S = Nat
<1> SUFFICES ASSUME Nat \ S # {} PROVE FALSE
  OBVIOUS
<1>1. PICK m \in Nat \ S : \A k \in Nat \ S : m <= k
  BY LeastOf
<1>2. m # 0 /\ m - 1 \in S
  BY <1>1
<1> QED BY <1>2

\* What the first n pairs give, as QueryValues reads them.
ReadUpTo(f, q, m) ==
  f = [n \in 0 .. m |-> IF n = 0 THEN <<>> ELSE Scanning!Insert(f[n - 1], q[n])]

\* The recursion has a solution, for a query of any length.
LEMMA ReadingIsDefined ==
  ASSUME NEW q
  PROVE  \A m \in Nat : \E f : ReadUpTo(f, q, m)
<1> DEFINE S == {m \in Nat : \E f : ReadUpTo(f, q, m)}
<1>1. 0 \in S
  <2>1. ReadUpTo([n \in 0 .. 0 |-> <<>>], q, 0)
    BY DEF ReadUpTo
  <2> QED BY <2>1
<1>2. ASSUME NEW k \in S PROVE k + 1 \in S
  <2>1. PICK f : ReadUpTo(f, q, k)
    OBVIOUS
  <2> DEFINE g == [n \in 0 .. k + 1 |-> IF n = k + 1 THEN Scanning!Insert(f[k], q[k + 1])
                                        ELSE f[n]]
             h == [n \in 0 .. k + 1 |->
                     IF n = 0 THEN <<>> ELSE Scanning!Insert(g[n - 1], q[n])]
  <2>2. ASSUME NEW n \in 0 .. k + 1 PROVE g[n] = h[n]
    <3>1. CASE n = 0
      BY <2>1, <3>1 DEF ReadUpTo
    <3>2. CASE n = k + 1
      BY <3>2
    <3>3. CASE n \in 1 .. k
      <4>1. g[n] = f[n] /\ g[n - 1] = f[n - 1]
        BY <3>3
      <4>2. f[n] = Scanning!Insert(f[n - 1], q[n])
        BY <2>1, <3>3 DEF ReadUpTo
      <4> QED BY <3>3, <4>1, <4>2
    <3> QED BY <3>1, <3>2, <3>3
  <2>3. g = h
    <3> HIDE DEF h
    <3>1. h = [n \in 0 .. k + 1 |-> h[n]]
      BY DEF h
    <3> QED BY <2>2, <3>1
  <2> HIDE DEF g
  <2>4. ReadUpTo(g, q, k + 1)
    BY <2>3 DEF ReadUpTo
  <2> QED BY <2>4
<1> HIDE DEF S
<1>3. S \in SUBSET Nat
  BY DEF S
<1>4. S = Nat
  BY <1>1, <1>2, <1>3, ByInduction
<1> QED BY <1>4 DEF S

LEMMA QueryValuesAreRead ==
  ASSUME NEW q, Len(q) \in Nat
  PROVE  \E f : ReadUpTo(f, q, Len(q)) /\ Scanning!QueryValues(q) = f[Len(q)]
<1> DEFINE f == CHOOSE f : ReadUpTo(f, q, Len(q))
<1>1. ReadUpTo(f, q, Len(q))
  BY ReadingIsDefined
<1>2. Scanning!QueryValues(q) = f[Len(q)]
  BY DEF Scanning!QueryValues, ReadUpTo
<1> QED BY <1>1, <1>2

QrPairs == [key : STRING, value : STRING]

\* What has been read of the first n pairs, unless one of them was refused.
ReadSoFar(v, q, n) ==
  /\ DOMAIN v = {q[i].key : i \in 1 .. n}
  /\ \A i \in 1 .. n : /\ q[i].key \in Scanning!Keys
                       /\ q[i].value \notin Scanning!BlankForms
                       /\ v[q[i].key] = q[i].value
  /\ \A i, j \in 1 .. n : q[i].key = q[j].key => i = j

LEMMA EachPairIsRead ==
  ASSUME NEW q \in Seq(QrPairs), NEW f, ReadUpTo(f, q, Len(q)), f[Len(q)] # Error
  PROVE  ReadSoFar(f[Len(q)], q, Len(q))
<1> DEFINE S == {n \in Nat : n <= Len(q) => (f[n] # Error => ReadSoFar(f[n], q, n))}
<1>1. 0 \in S
  <2>1. f[0] = <<>>
    BY DEF ReadUpTo
  <2>2. DOMAIN <<>> = {}
    OBVIOUS
  <2> QED BY <2>1, <2>2 DEF ReadSoFar
<1>2. ASSUME NEW k \in S PROVE k + 1 \in S
  <2> SUFFICES ASSUME k + 1 <= Len(q), f[k + 1] # Error PROVE ReadSoFar(f[k + 1], q, k + 1)
    OBVIOUS
  <2> DEFINE p == q[k + 1]
  <2>1. f[k + 1] = Scanning!Insert(f[k], p)
    BY DEF ReadUpTo
  <2>2. f[k] # Error /\ ~Scanning!PairError(f[k], p)
    BY <2>1 DEF Scanning!Insert
  <2>3. ReadSoFar(f[k], q, k)
    BY <2>2
  <2>4. f[k + 1] = [m \in DOMAIN f[k] \cup {p.key} |-> IF m = p.key THEN p.value ELSE f[k][m]]
    BY <2>1, <2>2 DEF Scanning!Insert
  <2>5. /\ p.key \in Scanning!Keys /\ p.value \notin Scanning!BlankForms
        /\ p.key \notin DOMAIN f[k]
    BY <2>2 DEF Scanning!PairError
  <2> k \in Nat
    OBVIOUS
  <2> DEFINE v == f[k]   w == f[k + 1]
  <2> HIDE DEF v, w, S
  <2>6. /\ DOMAIN w = DOMAIN v \cup {p.key} /\ w[p.key] = p.value
        /\ \A m \in DOMAIN v : m # p.key => w[m] = v[m]
    BY <2>4 DEF v, w
  <2>7. ReadSoFar(v, q, k) /\ p.key \notin DOMAIN v
    BY <2>3, <2>5 DEF v
  <2>8. ASSUME NEW i \in 1 .. k + 1 PROVE i = k + 1 \/ i \in 1 .. k
    OBVIOUS
  <2>9. \A i \in 1 .. k : q[i].key \in DOMAIN v /\ q[i].key # p.key
    BY <2>7 DEF ReadSoFar
  <2>10. DOMAIN w = {q[i].key : i \in 1 .. k + 1}
    <3>1. k + 1 \in 1 .. k + 1 /\ 1 .. k \subseteq 1 .. k + 1
      OBVIOUS
    <3>2. DOMAIN v = {q[i].key : i \in 1 .. k}
      BY <2>7 DEF ReadSoFar
    <3> QED BY <2>6, <2>8, <3>1, <3>2
  <2>11. \A i \in 1 .. k + 1 : /\ q[i].key \in Scanning!Keys
                               /\ q[i].value \notin Scanning!BlankForms
                               /\ w[q[i].key] = q[i].value
    BY <2>5, <2>6, <2>7, <2>8, <2>9 DEF ReadSoFar
  <2>12. \A i, j \in 1 .. k + 1 : q[i].key = q[j].key => i = j
    BY <2>7, <2>8, <2>9 DEF ReadSoFar
  <2>13. ReadSoFar(w, q, k + 1)
    BY <2>10, <2>11, <2>12 DEF ReadSoFar
  <2> QED BY <2>13 DEF w
<1>3. S = Nat
  <2>1. S \in SUBSET Nat
    OBVIOUS
  <2> HIDE DEF S
  <2> QED BY <1>1, <1>2, <2>1, ByInduction
<1>4. Len(q) \in S
  <2>1. Len(q) \in Nat
    OBVIOUS
  <2> QED BY <1>3, <2>1
<1> QED BY <1>4

LEMMA QueryNamesEachOnce ==
  ASSUME NEW q \in Seq(QrPairs), Scanning!QueryValues(q) # Error
  PROVE  ReadSoFar(Scanning!QueryValues(q), q, Len(q))
<1>1. Len(q) \in Nat
  OBVIOUS
<1>2. PICK f : ReadUpTo(f, q, Len(q)) /\ Scanning!QueryValues(q) = f[Len(q)]
  BY <1>1, QueryValuesAreRead
<1> QED BY <1>2, EachPairIsRead

\* The cardinality that a part counts with is that of the theorems.
LEMMA SameCardinality ==
  ASSUME NEW S
  PROVE  /\ Scanning!Cardinality(S) = Cardinality(S)
         /\ Policies!Cardinality(S) = Cardinality(S)
         /\ Issuing!Cardinality(S) = Cardinality(S)
BY DEF Cardinality, Scanning!Cardinality, Policies!Cardinality, Issuing!Cardinality

\* A registration that is accepted names each of the four values once.
LEMMA AcceptedIsUnambiguous ==
  ASSUME NEW uri \in Uri, Scanning!parse_push_registration_qr(uri) # Error
  PROVE  Scanning!Unambiguous(uri)
<1> DEFINE q == uri.query
           v == Scanning!QueryValues(q)
<1>1. q \in Seq(QrPairs)
  BY InputsFit DEF Scanning!QueriesAreLists, QrPairs
<1>2. uri.host = "push-register" /\ v # Error /\ Scanning!HasAll(v) /\ v["api"] = "https"
  BY DEF Scanning!parse_push_registration_qr
<1> HIDE DEF v
<1>3. ReadSoFar(v, q, Len(q)) /\ DOMAIN q = 1 .. Len(q)
  BY <1>1, <1>2, QueryNamesEachOnce DEF v
<1> HIDE DEF q
<1>4. ASSUME NEW key \in Scanning!Keys
      PROVE  Cardinality({i \in DOMAIN q : q[i].key = key}) = 1
  <2>1. PICK j \in DOMAIN q : q[j].key = key
    BY <1>2, <1>3 DEF ReadSoFar, Scanning!HasAll
  <2>2. {i \in DOMAIN q : q[i].key = key} = {j}
    BY <1>3, <2>1 DEF ReadSoFar
  <2> QED BY <2>2, FS_Singleton
<1>5. ASSUME NEW i \in DOMAIN q
      PROVE  /\ q[i].key \in Scanning!Keys
             /\ q[i].value \notin Scanning!BlankForms
             /\ q[i].key = "api" => q[i].value = "https"
  BY <1>2, <1>3 DEF ReadSoFar
<1>6. \A key \in Scanning!Keys :
        Scanning!Cardinality({i \in DOMAIN uri.query : uri.query[i].key = key}) = 1
  BY <1>4, SameCardinality DEF q
<1>7. \A i \in DOMAIN uri.query :
        /\ uri.query[i].key \in Scanning!Keys
        /\ uri.query[i].value \notin Scanning!BlankForms
        /\ uri.query[i].key = "api" => uri.query[i].value = "https"
  BY <1>5 DEF q
<1> QED BY <1>2, <1>6, <1>7 DEF Scanning!Unambiguous

-----------------------------------------------------------------------------
\* What the classifier says of the text that a scan hands on.
Fits(accepted) ==
  LET again == Scanning!classify_wallet_input(accepted.normalized)
  IN  /\ accepted.kind \in Scanning!QrKinds
      /\ accepted.kind = "push_registration" => again = None
      /\ accepted.kind # "push_registration" =>
           again \in Scanning!Known /\ again.kind = accepted.kind
      /\ accepted.kind = "mdoc_device_engagement" => again.normalized \in Engagement

ScanInv ==
  /\ form = "uri" => input \in Uri /\ scanned = Scanning!parse_push_registration_qr(input)
  /\ form = "context" => scanned = Scanning!PresentationContext(input)
  /\ form \in {"uri", "text", "context", None}
  /\ form \in {"uri", "text"} /\ scanned \notin {None, Error} => Fits(scanned)
  /\ form = None => scanned = None /\ routed = None
  /\ routed # None => /\ scanned \notin {None, Error} /\ form # "context"
                      /\ routed = Scanning!RouteOf(
                                      Scanning!classify_wallet_input(scanned.normalized))

LEMMA InitScanInv == Scanning!Init => ScanInv
BY InputsFit DEF Scanning!MarkersAreNoForms, Scanning!Init, ScanInv

\* A registration is handed on as a text that the classifier does not know, and what it
\* does know is handed on in a form that it takes for the same.
LEMMA RegistrationFits ==
  ASSUME NEW uri \in Uri, Scanning!parse_push_registration_qr(uri) # Error
  PROVE  Fits(Scanning!parse_push_registration_qr(uri))
<1> DEFINE values == Scanning!QueryValues(uri.query)
<1> HIDE DEF values
<1>1. Scanning!parse_push_registration_qr(uri)
        = [kind |-> "push_registration", normalized |-> Scanning!MartyUri,
           requires_external_provider |-> FALSE]
  BY DEF Scanning!parse_push_registration_qr, values
<1>2. Scanning!classify_wallet_input(Scanning!MartyUri) = None
  BY InputsFit DEF Scanning!TextsAreClassified, Scanning!classify_wallet_input
<1> QED BY <1>1, <1>2 DEF Fits, Scanning!QrKinds

LEMMA ValidatedFits ==
  ASSUME NEW text, NEW accepted \in Scanning!Validated(Scanning!classify_wallet_input(text)),
         accepted \notin {None, Error}
  PROVE  Fits(accepted) /\ accepted \in Scanning!FrbWalletQrInput
<1> DEFINE c == Scanning!classify_wallet_input(text)
           again == Scanning!classify_wallet_input(c.normalized)
<1>1. c \notin {None, Error}
  BY DEF Scanning!Validated
<1>2. /\ text \in Scanning!Wallet /\ c = WalletInput[text] /\ c \in Scanning!Known
  BY <1>1, InputsFit DEF Scanning!classify_wallet_input, Scanning!TextsAreClassified
<1>3. again = c
  BY <1>1, <1>2, InputsFit
  DEF Scanning!classify_wallet_input, Scanning!NormalFormIsStable, Scanning!Known
<1>4. /\ accepted = [kind |-> c.kind, normalized |-> c.normalized,
                     requires_external_provider |-> Scanning!External(c)]
      /\ c.kind = "mdoc_device_engagement" => c.normalized \in Engagement
  BY <1>1 DEF Scanning!Validated
<1>5. /\ c.kind \in Scanning!WalletInputKind /\ c.normalized \in Scanning!Wallet
      /\ Scanning!External(c) \in BOOLEAN
  BY <1>2 DEF Scanning!Known, Scanning!External
<1> HIDE DEF c
<1>6. accepted \in Scanning!FrbWalletQrInput
  BY <1>4, <1>5 DEF Scanning!FrbWalletQrInput, Scanning!QrKinds
<1>7. Fits(accepted)
  BY <1>2, <1>3, <1>4, <1>5 DEF Fits, Scanning!QrKinds, Scanning!WalletInputKind
<1> QED BY <1>6, <1>7

LEMMA StepScanInv ==
  ASSUME ScanInv, [Scanning!Next]_Scanning!vars
  PROVE  ScanInv'
<1> USE InputsFit DEF Scanning!MarkersAreNoForms, ScanInv
<1>1. CASE Scanning!WalletValidateQrInput
  <2> USE DEF Scanning!WalletValidateQrInput
  <2>1. CASE \E uri \in Uri :
               /\ form' = "uri" /\ input' = uri
               /\ scanned' = Scanning!parse_push_registration_qr(uri)
    <3>1. scanned' # Error => Fits(scanned')
      BY <2>1, RegistrationFits
    <3>2. /\ form' = "uri" /\ input' \in Uri /\ form = None /\ routed' = routed
          /\ scanned' = Scanning!parse_push_registration_qr(input')
      BY <1>1, <2>1
    <3> QED BY <3>1, <3>2
  <2>2. ASSUME NEW text, form' = "text",
               IF text = "marty:" THEN scanned' = Error
               ELSE scanned' \in Scanning!Validated(Scanning!classify_wallet_input(text))
        PROVE  ScanInv'
    <3>1. scanned' \notin {None, Error} => Fits(scanned')
      BY <2>2, ValidatedFits
    <3>2. form = None /\ routed' = routed
      BY <1>1
    <3> QED BY <2>2, <3>1, <3>2
  <2> QED BY <1>1, <2>1, <2>2 DEF Scanning!ValidateQrInput
<1>2. CASE Scanning!RoutePresentationRequest
  BY <1>2 DEF Scanning!RoutePresentationRequest
<1>3. CASE Scanning!ValidatePresentationContext
  BY <1>3 DEF Scanning!ValidatePresentationContext
<1>4. CASE Scanning!Forget
  BY <1>4 DEF Scanning!Forget
<1>5. CASE UNCHANGED Scanning!vars
  BY <1>5 DEF Scanning!vars
<1> QED BY <1>1, <1>2, <1>3, <1>4, <1>5 DEF Scanning!Next

LEMMA ScanIsJudged ==
  ScanInv => /\ Scanning!PushIsUnambiguous /\ Scanning!BindingIsTheRequests
             /\ Scanning!RouteAgreesWithScan
<1> SUFFICES ASSUME ScanInv
             PROVE  /\ Scanning!PushIsUnambiguous /\ Scanning!BindingIsTheRequests
                    /\ Scanning!RouteAgreesWithScan
  OBVIOUS
<1>1. Scanning!PushIsUnambiguous
  <2>1. form = "uri" /\ scanned # Error => Scanning!Unambiguous(input)
    BY AcceptedIsUnambiguous DEF ScanInv
  <2> QED BY <2>1 DEF Scanning!PushIsUnambiguous
<1>2. Scanning!BindingIsTheRequests
  <2> SUFFICES ASSUME form = "context", scanned # Error
               PROVE  LET Given(names) == {input[n] : n \in names} \ {"absent"}
                      IN /\ Given({"challenge", "nonce"}) = {scanned.challenge}
                         /\ Given({"domain", "client_id"}) = {scanned.domain}
                         /\ {scanned.challenge, scanned.domain}
                              \cap (Scanning!Refused \cup {"not a string"}) = {}
                         /\ input.size # "over 64 KiB"
    BY DEF Scanning!BindingIsTheRequests
  <2> DEFINE challenge == Scanning!binding_value(input.challenge, input.nonce)
             domain == Scanning!binding_value(input.domain, input.client_id)
  <2>1. /\ scanned = [challenge |-> challenge, domain |-> domain]
        /\ challenge # Error /\ domain # Error /\ input.size # "over 64 KiB"
    BY DEF ScanInv, Scanning!PresentationContext
  <2>2. ASSUME NEW a, NEW b, Scanning!binding_value(a, b) # Error
        PROVE  /\ {a, b} \ {"absent"} = {Scanning!binding_value(a, b)}
               /\ Scanning!binding_value(a, b) \notin Scanning!Refused \cup {"not a string"}
    BY <2>2 DEF Scanning!binding_value
  <2>3. /\ {input[n] : n \in {"challenge", "nonce"}} = {input.challenge, input.nonce}
        /\ {input[n] : n \in {"domain", "client_id"}} = {input.domain, input.client_id}
    OBVIOUS
  <2> HIDE DEF challenge, domain
  <2>4. scanned.challenge = challenge /\ scanned.domain = domain
    BY <2>1
  <2>5. {input.challenge, input.nonce} \ {"absent"} = {challenge}
        /\ challenge \notin Scanning!Refused \cup {"not a string"}
    BY <2>1, <2>2 DEF challenge
  <2>6. {input.domain, input.client_id} \ {"absent"} = {domain}
        /\ domain \notin Scanning!Refused \cup {"not a string"}
    BY <2>1, <2>2 DEF domain
  <2> QED BY <2>1, <2>3, <2>4, <2>5, <2>6
<1>3. Scanning!RouteAgreesWithScan
  <2> SUFFICES ASSUME routed # None
               PROVE  CASE scanned.kind = "presentation_request" -> routed = "oid4vp"
                        [] scanned.kind = "mdoc_device_engagement" -> routed = "mdoc"
                        [] scanned.kind \in {"credential_offer", "push_registration"} ->
                             routed = Error
    BY DEF Scanning!RouteAgreesWithScan
  <2> DEFINE again == Scanning!classify_wallet_input(scanned.normalized)
  <2>1. Fits(scanned) /\ routed = Scanning!RouteOf(again)
    BY DEF ScanInv
  <2>2. /\ scanned.kind \in Scanning!QrKinds
        /\ scanned.kind = "push_registration" => again = None
        /\ scanned.kind # "push_registration" =>
             again \in Scanning!Known /\ again.kind = scanned.kind
        /\ scanned.kind = "mdoc_device_engagement" => again.normalized \in Engagement
    BY <2>1 DEF Fits
  <2>3. again \in Scanning!Known => again \notin {None, Error}
    BY InputsFit DEF Scanning!TextsAreClassified
  <2> HIDE DEF again
  <2> QED BY <2>1, <2>2, <2>3 DEF Scanning!QrKinds, Scanning!WalletInputKind, Scanning!RouteOf
<1> QED BY <1>1, <1>2, <1>3

-----------------------------------------------------------------------------
\* Issuance: the token of the session is from the endpoint of its metadata, and that is
\* the one of the issuer.
FromTheIssuer(issuer, endpoint) ==
  \E m \in Metadata : /\ m.credential_issuer = issuer
                      /\ endpoint \notin {None, Blank}
                      /\ endpoint \in {m.token_endpoint, Discovered[m.credential_issuer]}

IssuingInv ==
  /\ metadata # None => FromTheIssuer(offer.credential_issuer, metadata.token_endpoint)
  /\ token # None => FromTheIssuer(offer.credential_issuer, token.from)
  /\ \E S : sent \in Seq(S)
  /\ Issuing!RequestsAreComplete

LEMMA SendIsComplete ==
  ASSUME IssuingInv, NEW r, Issuing!Send(r),
         "configuration" \in DOMAIN r => r.configuration \notin {None, Blank}
  PROVE  (\E S : sent' \in Seq(S)) /\ Issuing!RequestsAreComplete'
<1>1. PICK S : sent \in Seq(S)
  BY DEF IssuingInv
<1>2. sent' = Append(sent, r) /\ sent \in Seq(S \cup {r}) /\ r \in S \cup {r}
  BY <1>1 DEF Issuing!Send
<1>3. sent' \in Seq(S \cup {r})
  BY <1>2
<1>4. ASSUME NEW i \in DOMAIN sent'
      PROVE  sent'[i] = r \/ (i \in DOMAIN sent /\ sent'[i] = sent[i])
  <2>1. /\ Len(sent) \in Nat /\ DOMAIN sent = 1 .. Len(sent)
        /\ DOMAIN sent' = 1 .. Len(sent) + 1
    BY <1>2
  <2>2. CASE i = Len(sent) + 1
    BY <1>2, <2>1, <2>2
  <2>3. CASE i \in 1 .. Len(sent)
    BY <1>2, <2>1, <2>3
  <2> QED BY <2>1, <2>2, <2>3
<1> QED BY <1>3, <1>4 DEF IssuingInv, Issuing!RequestsAreComplete

LEMMA InitIssuingInv == Issuing!Init => IssuingInv
<1> SUFFICES ASSUME Issuing!Init PROVE IssuingInv
  OBVIOUS
<1>1. sent = <<>> /\ metadata = None /\ token = None
  BY DEF Issuing!Init
<1>2. <<>> \in Seq({}) /\ DOMAIN <<>> = {}
  OBVIOUS
<1> QED BY <1>1, <1>2 DEF IssuingInv, Issuing!RequestsAreComplete

LEMMA StepIssuingInv ==
  ASSUME IssuingInv, [Issuing!Next]_Issuing!vars PROVE IssuingInv'
<1> DEFINE Complete == (\E S : sent' \in Seq(S)) /\ Issuing!RequestsAreComplete'
<1>1. ASSUME NEW o \in Offer, Issuing!ParseCredentialOffer(o) PROVE IssuingInv'
  <2>1. Complete
    BY <1>1, SendIsComplete DEF Issuing!ParseCredentialOffer
  <2> QED BY <1>1, <2>1 DEF IssuingInv, Issuing!ParseCredentialOffer
<1>2. ASSUME NEW m \in Metadata, Issuing!FetchIssuerMetadata(m) PROVE IssuingInv'
  <2>1. Complete
    BY <1>2, SendIsComplete DEF Issuing!FetchIssuerMetadata
  <2> DEFINE fetched == [m EXCEPT !.token_endpoint = Issuing!resolve_token_endpoint(m)]
  <2>2. /\ m.credential_issuer = offer.credential_issuer
        /\ Issuing!FrbIssuerMetadata(fetched) # Error
        /\ metadata' = Issuing!FrbIssuerMetadata(fetched)
        /\ offer' = offer /\ token' = token
    BY <1>2 DEF Issuing!FetchIssuerMetadata
  <2>3. fetched.token_endpoint \notin {None, Blank}
        /\ metadata'.token_endpoint = fetched.token_endpoint
    BY <2>2 DEF Issuing!FrbIssuerMetadata
  <2>4. "token_endpoint" \in DOMAIN m
    BY InputsFit DEF Issuing!MetadataAreRecords
  <2>5. fetched.token_endpoint = Issuing!resolve_token_endpoint(m)
    BY <2>4
  <2>6. FromTheIssuer(offer'.credential_issuer, metadata'.token_endpoint)
    BY <2>2, <2>3, <2>5 DEF FromTheIssuer, Issuing!resolve_token_endpoint
  <2> QED BY <2>1, <2>2, <2>6 DEF IssuingInv, FromTheIssuer
<1>3. ASSUME NEW tx_code \in BOOLEAN, Issuing!ExchangePreAuthToken(tx_code)
      PROVE  IssuingInv'
  <2>1. Complete
    BY <1>3, SendIsComplete DEF Issuing!ExchangePreAuthToken
  <2> QED
    BY <1>3, <2>1 DEF IssuingInv, FromTheIssuer, Issuing!ExchangePreAuthToken,
                      Issuing!FrbTokenResponse
<1>4. ASSUME Issuing!ExchangeAuthCodeToken PROVE IssuingInv'
  <2>1. Complete
    BY <1>4, SendIsComplete DEF Issuing!ExchangeAuthCodeToken
  <2> QED
    BY <1>4, <2>1 DEF IssuingInv, FromTheIssuer, Issuing!ExchangeAuthCodeToken,
                      Issuing!FrbTokenResponse
<1>5. ASSUME NEW format \in FormatName, NEW configuration \in ConfigurationId,
             NEW response \in Issuing!Responses,
             Issuing!RequestCredential(format, configuration, response)
      PROVE  IssuingInv'
  <2>1. Complete
    BY <1>5, SendIsComplete DEF Issuing!RequestCredential, Issuing!Accepts
  <2> QED BY <1>5, <2>1 DEF IssuingInv, FromTheIssuer, Issuing!RequestCredential
<1>6. ASSUME Issuing!RequestFails PROVE IssuingInv'
  <2>1. Complete
    BY <1>6, SendIsComplete DEF Issuing!RequestFails
  <2> QED BY <1>6, <2>1 DEF IssuingInv, FromTheIssuer, Issuing!RequestFails
<1>7. ASSUME UNCHANGED <<offer, metadata, token, sent>> PROVE IssuingInv'
  BY <1>7 DEF IssuingInv, FromTheIssuer, Issuing!RequestsAreComplete
<1>8. ASSUME NEW configuration \in ConfigurationId, Issuing!BuildAuthRequest(configuration)
      PROVE  IssuingInv'
  BY <1>7, <1>8 DEF Issuing!BuildAuthRequest
<1>9. ASSUME NEW key, Issuing!CreateProofJwt(key) PROVE IssuingInv'
  BY <1>7, <1>9 DEF Issuing!CreateProofJwt
<1>10. CASE Issuing!Authorize \/ Issuing!PlatformProof \/ UNCHANGED Issuing!vars
  BY <1>7, <1>10 DEF Issuing!Authorize, Issuing!PlatformProof, Issuing!vars
<1> QED
  BY <1>1, <1>2, <1>3, <1>4, <1>5, <1>6, <1>8, <1>9, <1>10 DEF Issuing!Next

LEMMA IssuingIsComplete ==
  IssuingInv => Issuing!TokenIsFromTheIssuer /\ Issuing!RequestsAreComplete
BY DEF IssuingInv, FromTheIssuer, Issuing!TokenIsFromTheIssuer

-----------------------------------------------------------------------------
\* Presentation: what is posted answers the query, and a request is of one kind.
RequestOfOneKind ==
  request # None =>
    /\ request.dcql_query_json \in DcqlQuery \cup {None}
    /\ request.presentation_definition_json \notin DcqlQuery

PresentingInv ==
  /\ RequestOfOneKind
  /\ \E S : posted \in Seq(S)
  /\ Presenting!PostedIsWellFormed /\ Presenting!PostedAnswersTheQuery

LEMMA InitPresentingInv == Presenting!Init => PresentingInv
<1> SUFFICES ASSUME Presenting!Init PROVE PresentingInv
  OBVIOUS
<1>1. posted = <<>> /\ request = None
  BY DEF Presenting!Init
<1>2. <<>> \in Seq({}) /\ DOMAIN <<>> = {}
  OBVIOUS
<1> QED
  BY <1>1, <1>2 DEF PresentingInv, RequestOfOneKind, Presenting!PostedIsWellFormed,
                    Presenting!PostedAnswersTheQuery

LEMMA PostKeeps ==
  ASSUME PresentingInv, NEW p, Presenting!Post(p),
         Malformed \notin p.given, p.credentials # Malformed,
         (p.given \cap DcqlQuery # {}) = (p.query_type = "dcql_query")
  PROVE  PresentingInv'
<1>1. PICK S : posted \in Seq(S)
  BY DEF PresentingInv
<1>2. posted' = Append(posted, p) /\ posted \in Seq(S \cup {p}) /\ p \in S \cup {p}
  BY <1>1 DEF Presenting!Post
<1>3. posted' \in Seq(S \cup {p}) /\ request' = request
  BY <1>2 DEF Presenting!Post
<1>4. ASSUME NEW i \in DOMAIN posted'
      PROVE  posted'[i] = p \/ (i \in DOMAIN posted /\ posted'[i] = posted[i])
  <2>1. /\ Len(posted) \in Nat /\ DOMAIN posted = 1 .. Len(posted)
        /\ DOMAIN posted' = 1 .. Len(posted) + 1
    BY <1>2
  <2>2. CASE i = Len(posted) + 1
    BY <1>2, <2>1, <2>2
  <2>3. CASE i \in 1 .. Len(posted)
    BY <1>2, <2>1, <2>3
  <2> QED BY <2>1, <2>2, <2>3
<1> QED
  BY <1>3, <1>4 DEF PresentingInv, RequestOfOneKind, Presenting!PostedIsWellFormed,
                    Presenting!PostedAnswersTheQuery

LEMMA StepPresentingInv ==
  ASSUME PresentingInv, [Presenting!Next]_Presenting!vars PROVE PresentingInv'
<1> DEFINE Definition == request.presentation_definition_json
           Posts(p) == Presenting!Post(p)
<1>1. ASSUME NEW r \in VerifierRequest, Presenting!ParseRequest(r) PROVE PresentingInv'
  <2>1. /\ request'.dcql_query_json = r.dcql_query
        /\ request'.presentation_definition_json = r.presentation_definition
        /\ posted' = posted
    BY <1>1 DEF Presenting!ParseRequest
  <2>2. RequestOfOneKind'
    BY <2>1, InputsFit DEF Presenting!RequestsAreOfOneKind, RequestOfOneKind
  <2> QED
    BY <2>1, <2>2 DEF PresentingInv, Presenting!PostedIsWellFormed,
                      Presenting!PostedAnswersTheQuery
<1>2. ASSUME request' = request, posted' = posted PROVE PresentingInv'
  BY <1>2 DEF PresentingInv, RequestOfOneKind, Presenting!PostedIsWellFormed,
              Presenting!PostedAnswersTheQuery
<1>3. ASSUME request # None,
             NEW definition \in {Definition, Malformed},
             NEW dcql \in {request.dcql_query_json} \cup Presenting!Queries,
             NEW credentials \in CredentialsJson \cup {Malformed},
             Presenting!BuildAndSubmit(request.response_uri, definition, dcql, credentials)
      PROVE  PresentingInv'
  <2> DEFINE p == [to |-> request.response_uri,
                   query_type |-> Presenting!QueryType(definition, dcql),
                   given |-> {definition, dcql}, credentials |-> credentials, zk |-> {}]
  <2>1. CASE Presenting!Fail
    BY <1>2, <2>1 DEF Presenting!Fail
  <2>2. CASE Presenting!Parses(definition, dcql, credentials) /\ Presenting!Post(p)
    <3>1. /\ definition # Malformed /\ dcql # Malformed /\ credentials # Malformed
          /\ Presenting!QueryType(definition, dcql) # None
      BY <2>2 DEF Presenting!Parses
    <3>2. dcql \in DcqlQuery \cup {None} /\ definition \notin DcqlQuery /\ None \notin DcqlQuery
      BY <1>3, <3>1, InputsFit DEF PresentingInv, RequestOfOneKind,
         Presenting!RequestsAreOfOneKind, Presenting!Queries
    <3>3. (Presenting!QueryType(definition, dcql) = "dcql_query") = (dcql # None)
      BY <3>1 DEF Presenting!QueryType
    <3>4. /\ p.given = {definition, dcql} /\ p.credentials = credentials
          /\ p.query_type = Presenting!QueryType(definition, dcql)
      OBVIOUS
    <3> HIDE DEF p
    <3>5. (p.given \cap DcqlQuery # {}) = (p.query_type = "dcql_query")
      BY <3>2, <3>3, <3>4
    <3> QED BY <2>2, <3>1, <3>4, <3>5, PostKeeps
  <2> QED BY <1>3, <2>1, <2>2 DEF Presenting!BuildAndSubmit
<1>4. ASSUME request # None, Definition # None,
             NEW definition \in {Definition, Malformed},
             NEW credentials \in CredentialsJson \cup {Malformed},
             Presenting!BuildAndSubmitZk(request.response_uri, definition, credentials)
      PROVE  PresentingInv'
  <2> DEFINE p == [to |-> request.response_uri, query_type |-> "presentation_definition",
                   given |-> {definition}, credentials |-> credentials, zk |-> proofs]
  <2>1. CASE Presenting!Fail
    BY <1>2, <2>1 DEF Presenting!Fail
  <2>2. CASE definition # Malformed /\ credentials # Malformed /\ Presenting!Post(p)
    <3>1. definition \notin DcqlQuery
      BY <1>4, <2>2 DEF PresentingInv, RequestOfOneKind
    <3>2. /\ p.given = {definition} /\ p.credentials = credentials
          /\ p.query_type = "presentation_definition"
      OBVIOUS
    <3> HIDE DEF p
    <3>3. (p.given \cap DcqlQuery # {}) = (p.query_type = "dcql_query")
      BY <3>1, <3>2
    <3> QED BY <2>2, <3>2, <3>3, PostKeeps
  <2> QED BY <1>4, <2>1, <2>2 DEF Presenting!BuildAndSubmitZk
<1>5. ASSUME NEW definition, NEW secrets,
             Presenting!ZkProveFromDefinition(definition, secrets)
      PROVE  PresentingInv'
  BY <1>2, <1>5 DEF Presenting!ZkProveFromDefinition, Presenting!Fail
<1>6. ASSUME NEW predicate_id, Presenting!ZkProve(predicate_id) PROVE PresentingInv'
  BY <1>2, <1>6 DEF Presenting!ZkProve, Presenting!Fail
<1>7. CASE UNCHANGED Presenting!vars
  BY <1>2, <1>7 DEF Presenting!vars
<1> QED
  BY <1>1, <1>3, <1>4, <1>5, <1>6, <1>7 DEF Presenting!Next, Presenting!Passed,
     Presenting!DefinitionOf

-----------------------------------------------------------------------------
\* Policies: both properties are about the last answer and what it was given.
PolicyInv == Policies!SatisfiedByVerifiedFacts /\ Policies!EveryPolicyIsReadable

LEMMA OtherAnswers ==
  ASSUME decision' \in {None, Error} \/ decision'.call # "evaluate"
  PROVE  PolicyInv'
BY DEF PolicyInv, Policies!SatisfiedByVerifiedFacts, Policies!EveryPolicyIsReadable, Policies!Called

LEMMA StepPolicyInv ==
  ASSUME PolicyInv, [Policies!Next]_Policies!vars PROVE PolicyInv'
<1>1. CASE Policies!SyncPolicies
  BY <1>1, OtherAnswers DEF Policies!SyncPolicies, Policies!Returns
<1>2. CASE Policies!VerifierAsks
  BY <1>2, OtherAnswers DEF Policies!VerifierAsks
<1>3. ASSUME NEW credentials \in SUBSET Credential,
             Policies!EvaluatePresentationRequest(credentials)
      PROVE  PolicyInv'
  <2> DEFINE a == Policies!Evaluation(Head(policies), facts)
  <2>1. CASE Policies!Parses(policies) /\ Policies!Returns(a)
    <3>1. /\ a.call = "evaluate"
          /\ a.is_satisfied => RequiredClaims[a.policy_id] \subseteq facts
          /\ a.minimum_disclosure_claims \subseteq facts
      BY DEF Policies!Evaluation
    <3> HIDE DEF a
    <3>2. decision' = a /\ facts' = facts /\ policies' = policies
      BY <2>1 DEF Policies!Returns
    <3>3. Malformed \notin Policies!ToSet(policies)
      BY <2>1 DEF Policies!Parses
    <3> QED
      BY <3>1, <3>2, <3>3 DEF PolicyInv, Policies!SatisfiedByVerifiedFacts, Policies!Held,
         Policies!EveryPolicyIsReadable, Policies!Called
  <2>2. CASE Policies!Returns(Error)
    BY <2>2, OtherAnswers DEF Policies!Returns
  <2> QED BY <1>3, <2>1, <2>2 DEF Policies!EvaluatePresentationRequest, Policies!Facts
<1>4. ASSUME NEW bytes \in RequestBytes, Policies!EvaluateServicePolicy(bytes)
      PROVE  PolicyInv'
  BY <1>4, OtherAnswers DEF Policies!EvaluateServicePolicy, Policies!Returns
<1>5. ASSUME NEW policy, NEW credential_id \in Credential,
             Policies!GetMinimumDisclosureSet(policy, credential_id)
      PROVE  PolicyInv'
  BY <1>5, OtherAnswers DEF Policies!GetMinimumDisclosureSet, Policies!Returns
<1>6. ASSUME NEW policy, NEW credentials \in SUBSET Rankable,
             Policies!RankMatchingCredentials(policy, credentials)
      PROVE  PolicyInv'
  BY <1>6, OtherAnswers DEF Policies!RankMatchingCredentials, Policies!Returns
<1>7. ASSUME NEW policy, NEW issuer \in PolicyIssuer, NEW verified \in BOOLEAN,
             Policies!CheckIssuerConstraints(policy, issuer, verified)
      PROVE  PolicyInv'
  BY <1>7, OtherAnswers DEF Policies!CheckIssuerConstraints, Policies!Returns
<1>8. CASE UNCHANGED Policies!vars
  BY <1>8 DEF Policies!vars, PolicyInv, Policies!SatisfiedByVerifiedFacts, Policies!Held,
              Policies!EveryPolicyIsReadable, Policies!Called
<1> QED
  BY <1>1, <1>2, <1>3, <1>4, <1>5, <1>6, <1>7, <1>8 DEF Policies!Next

-----------------------------------------------------------------------------
(***************************************************************************)
(* Credentials and their storage, for every credential.  What the schemas  *)
(* write and read again is worked out once (RoundTrip); the invariant says *)
(* that what is in memory or in storage is such a value.  The hypothesis   *)
(* is about the model's markers and not about the code: None, Malformed    *)
(* and Error stand for no JSON object.  It quantifies over all sets, so it *)
(* is a hypothesis of the theorems and not an ASSUME that TLC evaluates.   *)
(***************************************************************************)
MarkersAreNoFunctions ==
  \A S, T : {None, Malformed, Error} \cap [S -> T] = {}

IsFunction(f) == f = [x \in DOMAIN f |-> f[x]]

LEMMA FunctionIsNoMarker ==
  ASSUME MarkersAreNoFunctions, NEW f, IsFunction(f)
  PROVE  f \notin {None, Malformed, Error}
<1>1. f \in [DOMAIN f -> {f[x] : x \in DOMAIN f}]
  BY DEF IsFunction
<1> QED BY <1>1 DEF MarkersAreNoFunctions

LEMMA RecordsAreFunctions ==
  ASSUME NEW a, NEW b
  PROVE  /\ IsFunction([type |-> a, value |-> b])
         /\ IsFunction([type |-> a, fields |-> b])
         /\ IsFunction([json |-> a, source |-> b])
BY DEF IsFunction

VcFields == {"id", "issuer", "issuance_date", "subject", "types", "issuer_name",
             "expiration_date", "proof", "status", "raw_json"}
MdocFields == {"id", "doc_type", "issuing_authority", "issuing_country", "expiry_date",
               "trust_info", "portrait", "signature", "namespaces_json"}
SdJwtFields == {"id", "issuer", "issuance_date", "types", "expiration_date",
                "disclosable_claims", "key_binding", "disclosed_claims_json"}
LEMMA FieldsOfSchemas ==
  /\ Credentials!Fields(Credentials!VerifiableCredential) = VcFields
  /\ Credentials!Fields(Credentials!MDocCredential) = MdocFields
  /\ Credentials!Fields(Credentials!SdJwtCredential) = SdJwtFields
  /\ Credentials!Fields(Credentials!CredentialSubject) = {"id", "claims_json"}
  /\ "type" \in Credentials!Fields(Credentials!Proof)
  /\ "type" \in Credentials!Fields(Credentials!CredentialStatus)
BY DEF Credentials!Fields, Credentials!VerifiableCredential, Credentials!MDocCredential,
       Credentials!SdJwtCredential, Credentials!CredentialSubject, Credentials!Proof,
       Credentials!CredentialStatus, VcFields, MdocFields, SdJwtFields

\* The fields of a credential by its variant, and what its nested values are.
FieldsOf(type) ==
  CASE type = "VerifiableCredential" -> VcFields
    [] type = "MDoc" -> MdocFields
    [] type = "SdJwt" -> SdJwtFields
IsObject(v) == v = None \/ (IsFunction(v) /\ "type" \in DOMAIN v)
Formed(c) ==
  /\ c = [type |-> c.type, value |-> c.value]
  /\ c.type \in {"VerifiableCredential", "MDoc", "SdJwt"}
  /\ c.value = [f \in FieldsOf(c.type) |-> c.value[f]]
  /\ c.type = "VerifiableCredential" =>
       IsObject(c.value.proof) /\ IsObject(c.value.status)

\* The part of a credential that storage may not change; claims may be lost only.
Alike(c, d) ==
  /\ c.type = d.type
  /\ Credentials!Id(c) = Credentials!Id(d) /\ Credentials!Issuer(c) = Credentials!Issuer(d)
  /\ Credentials!CredentialTypes(c) = Credentials!CredentialTypes(d)
  /\ Credentials!ExpiryOf(c) = Credentials!ExpiryOf(d)
  /\ c.type = "MDoc" => c.value.trust_info = d.value.trust_info
  /\ Credentials!get_credential_claims(c) \subseteq Credentials!get_credential_claims(d)

LEMMA AlikeIsAPreorder ==
  /\ \A c : Alike(c, c)
  /\ \A c, d, e : Alike(c, d) /\ Alike(d, e) => Alike(c, e)
BY DEF Alike

\* What is written of an object is read again, without what is skipped.
LEMMA ObjectsAreRead ==
  ASSUME MarkersAreNoFunctions, NEW doc, NEW schema, IsFunction(doc),
         schema.required \subseteq DOMAIN doc
  PROVE  /\ Credentials!Deserialize(schema, doc) # Error
         /\ Credentials!Deserialize(schema, doc) =
              [f \in Credentials!Fields(schema) |->
                 IF f \in DOMAIN schema.skip THEN schema.skip[f]
                 ELSE IF f \in DOMAIN doc THEN doc[f] ELSE schema.default[f]]
<1> DEFINE Read == [f \in Credentials!Fields(schema) |->
                      IF f \in DOMAIN schema.skip THEN schema.skip[f]
                      ELSE IF f \in DOMAIN doc THEN doc[f] ELSE schema.default[f]]
<1>1. doc # Malformed
  BY FunctionIsNoMarker
<1>2. Credentials!Deserialize(schema, doc) = Read
  BY <1>1 DEF Credentials!Deserialize
<1>3. IsFunction(Read)
  BY DEF IsFunction
<1> QED BY <1>2, <1>3, FunctionIsNoMarker

LEMMA RoundTripOfVc ==
  ASSUME MarkersAreNoFunctions, NEW c, Formed(c), c.type = "VerifiableCredential"
  PROVE  LET d == Credentials!credential_from_json(Credentials!credential_to_json(c))
         IN  d # Error /\ Formed(d) /\ Alike(d, c)
<1> DEFINE fields == Credentials!Serialize(Credentials!VerifiableCredential, c.value)
           doc == [fields EXCEPT !.subject =
                     Credentials!Serialize(Credentials!CredentialSubject, @)]
           json == Credentials!credential_to_json(c)
           vc == Credentials!Deserialize(Credentials!VerifiableCredential, doc)
           subject == Credentials!Deserialize(Credentials!CredentialSubject, vc.subject)
           proofOf == Credentials!Nested(Credentials!Proof, "proof", doc)
           status == Credentials!Nested(Credentials!CredentialStatus, "status", doc)
<1>1. json = [type |-> "VerifiableCredential", fields |-> doc]
  BY DEF Credentials!credential_to_json, Credentials!Schema
<1>2. /\ IsFunction(doc) /\ DOMAIN doc = VcFields \ {"raw_json"}
      /\ \A f \in DOMAIN doc \ {"subject"} : doc[f] = c.value[f]
      /\ IsFunction(doc.subject) /\ DOMAIN doc.subject = {"id"}
  <2>1. /\ IsFunction(fields) /\ DOMAIN fields = VcFields \ {"raw_json"}
        /\ \A f \in DOMAIN fields : fields[f] = c.value[f]
    BY FieldsOfSchemas DEF Credentials!Serialize, Credentials!VerifiableCredential, IsFunction
  <2>2. "subject" \in DOMAIN fields
    BY <2>1 DEF VcFields
  <2> HIDE DEF fields
  <2>3. doc.subject = Credentials!Serialize(Credentials!CredentialSubject, fields.subject)
    BY <2>1, <2>2
  <2>4. \A v : LET s == Credentials!Serialize(Credentials!CredentialSubject, v)
               IN  IsFunction(s) /\ DOMAIN s = {"id"}
    BY FieldsOfSchemas DEF Credentials!Serialize, Credentials!CredentialSubject, IsFunction
  <2> QED BY <2>1, <2>2, <2>3, <2>4 DEF IsFunction
<1> HIDE DEF fields, doc, json
<1>3. /\ vc # Error /\ IsFunction(vc) /\ DOMAIN vc = VcFields
      /\ \A f \in VcFields \ {"raw_json"} : vc[f] = doc[f]
  <2>1. Credentials!VerifiableCredential.required \subseteq DOMAIN doc
    BY <1>2 DEF Credentials!VerifiableCredential, VcFields
  <2>2. vc # Error
        /\ vc = [f \in VcFields |->
                   IF f \in {"raw_json"} THEN None
                   ELSE IF f \in DOMAIN doc THEN doc[f]
                   ELSE Credentials!VerifiableCredential.default[f]]
    <3>1. DOMAIN Credentials!VerifiableCredential.skip = {"raw_json"}
          /\ Credentials!VerifiableCredential.skip["raw_json"] = None
      BY DEF Credentials!VerifiableCredential
    <3> QED BY <1>2, <2>1, <3>1, ObjectsAreRead, FieldsOfSchemas
  <2> HIDE DEF vc
  <2> QED BY <1>2, <2>2 DEF IsFunction
<1> HIDE DEF vc
<1>4. subject # Error /\ subject.claims_json = Blank
  <2>1. Credentials!CredentialSubject.required \subseteq DOMAIN vc.subject
        /\ IsFunction(vc.subject)
    BY <1>2, <1>3 DEF Credentials!CredentialSubject, VcFields
  <2>2. subject # Error
        /\ subject = [f \in {"id", "claims_json"} |->
                        IF f \in {"claims_json"} THEN Blank
                        ELSE IF f \in DOMAIN vc.subject THEN vc.subject[f]
                        ELSE Credentials!CredentialSubject.default[f]]
    <3>1. DOMAIN Credentials!CredentialSubject.skip = {"claims_json"}
          /\ Credentials!CredentialSubject.skip["claims_json"] = Blank
      BY DEF Credentials!CredentialSubject
    <3> QED BY <2>1, <3>1, ObjectsAreRead, FieldsOfSchemas
  <2> HIDE DEF subject
  <2> QED BY <2>2
<1>5. /\ proofOf # Error /\ IsObject(proofOf)
      /\ status # Error /\ IsObject(status)
  <2>1. /\ "proof" \in DOMAIN doc /\ "status" \in DOMAIN doc
        /\ IsObject(doc.proof) /\ IsObject(doc.status)
    BY <1>2 DEF Formed, VcFields
  <2>2. ASSUME NEW v, NEW schema \in {Credentials!Proof, Credentials!CredentialStatus},
               IsFunction(v), "type" \in DOMAIN v
        PROVE  /\ Credentials!Deserialize(schema, v) # Error
               /\ IsObject(Credentials!Deserialize(schema, v))
    <3>1. schema.required = {"type"} /\ "type" \in Credentials!Fields(schema)
      <4>1. Credentials!Proof.required = {"type"}
        BY DEF Credentials!Proof
      <4>2. Credentials!CredentialStatus.required = {"type"}
        BY DEF Credentials!CredentialStatus
      <4> QED BY <4>1, <4>2, FieldsOfSchemas
    <3> QED BY <2>2, <3>1, ObjectsAreRead DEF IsObject, IsFunction
  <2>3. None # Error
    BY InputsFit DEF Credentials!NoneIsNoError
  <2> QED BY <2>1, <2>2, <2>3 DEF Credentials!Nested, IsObject
<1> HIDE DEF subject, proofOf, status
<1> DEFINE value == [vc EXCEPT !.subject = subject, !.proof = proofOf, !.status = status]
           d == [type |-> "VerifiableCredential", value |-> value]
<1>6. Credentials!ParseStructure(doc) = value
  BY <1>3, <1>4, <1>5 DEF Credentials!ParseStructure, vc, subject, proofOf, status
<1>7. /\ IsFunction(value) /\ DOMAIN value = VcFields
      /\ \A f \in VcFields \ {"raw_json", "subject", "proof", "status"} : value[f] = c.value[f]
      /\ value.subject = subject /\ value.proof = proofOf /\ value.status = status
  BY <1>2, <1>3 DEF IsFunction, VcFields
<1> HIDE DEF value
<1>8. json # Malformed /\ json.type = "VerifiableCredential" /\ json.fields = doc
  BY <1>1, RecordsAreFunctions, FunctionIsNoMarker
<1>9. Credentials!credential_from_json(json) = d
  <2>1. "VerifiableCredential" \in DOMAIN Credentials!Schema
    BY DEF Credentials!Schema
  <2>2. value # Error
    BY <1>7, FunctionIsNoMarker
  <2> QED BY <1>6, <1>8, <2>1, <2>2 DEF Credentials!credential_from_json
<1>10. d # Error
  BY RecordsAreFunctions, FunctionIsNoMarker
<1>11. d.type = "VerifiableCredential" /\ d.value = value
  OBVIOUS
<1> HIDE DEF d
<1>12. Formed(d)
  BY <1>5, <1>7, <1>11 DEF Formed, FieldsOf, IsFunction, d
<1>13. Alike(d, c)
  BY <1>4, <1>7, <1>11 DEF Alike, VcFields, Credentials!Id, Credentials!Issuer,
     Credentials!CredentialTypes, Credentials!ExpiryOf, Credentials!get_credential_claims
<1> QED BY <1>9, <1>10, <1>12, <1>13 DEF json

LEMMA RoundTripOfOthers ==
  ASSUME MarkersAreNoFunctions, NEW c, Formed(c), c.type \in {"MDoc", "SdJwt"}
  PROVE  LET d == Credentials!credential_from_json(Credentials!credential_to_json(c))
         IN  d # Error /\ Formed(d) /\ Alike(d, c)
<1> DEFINE schema == Credentials!Schema[c.type]
           doc == Credentials!Serialize(schema, c.value)
           json == Credentials!credential_to_json(c)
           value == Credentials!Deserialize(schema, doc)
           skipped == IF c.type = "MDoc" THEN "namespaces_json" ELSE "disclosed_claims_json"
           d == [type |-> c.type, value |-> value]
<1>1. /\ schema = IF c.type = "MDoc" THEN Credentials!MDocCredential
                  ELSE Credentials!SdJwtCredential
      /\ c.type \in DOMAIN Credentials!Schema
  BY DEF Credentials!Schema
<1>2. /\ DOMAIN schema.skip = {skipped} /\ schema.skip[skipped] = Blank
      /\ Credentials!Fields(schema) = FieldsOf(c.type)
      /\ schema.required \subseteq FieldsOf(c.type) \ {skipped}
      /\ skipped \in FieldsOf(c.type)
  <2>1. CASE c.type = "MDoc"
    <3>1. schema = Credentials!MDocCredential /\ skipped = "namespaces_json"
      BY <1>1, <2>1
    <3>2. FieldsOf(c.type) = MdocFields /\ Credentials!Fields(schema) = MdocFields
      BY <2>1, <3>1, FieldsOfSchemas DEF FieldsOf
    <3> HIDE DEF schema, skipped
    <3>3. /\ schema.required = {"id", "doc_type", "issuing_authority", "issuing_country"}
          /\ schema.skip = [namespaces_json |-> Blank]
      BY <3>1 DEF Credentials!MDocCredential
    <3> QED BY <3>1, <3>2, <3>3 DEF MdocFields
  <2>2. CASE c.type = "SdJwt"
    <3>1. schema = Credentials!SdJwtCredential /\ skipped = "disclosed_claims_json"
      BY <1>1, <2>2
    <3>2. FieldsOf(c.type) = SdJwtFields /\ Credentials!Fields(schema) = SdJwtFields
      BY <2>2, <3>1, FieldsOfSchemas DEF FieldsOf
    <3> HIDE DEF schema, skipped
    <3>3. /\ schema.required = {"id", "issuer", "issuance_date"}
          /\ schema.skip = [disclosed_claims_json |-> Blank]
      BY <3>1 DEF Credentials!SdJwtCredential
    <3> QED BY <3>1, <3>2, <3>3 DEF SdJwtFields
  <2> QED BY <2>1, <2>2
<1> HIDE DEF schema
<1>3. /\ IsFunction(doc) /\ DOMAIN doc = FieldsOf(c.type) \ {skipped}
      /\ \A f \in DOMAIN doc : doc[f] = c.value[f]
  BY <1>2 DEF Credentials!Serialize, IsFunction
<1>4. json = [type |-> c.type, fields |-> doc]
  BY DEF Credentials!credential_to_json, schema
<1> HIDE DEF doc, json, skipped
<1>5. value # Error
      /\ value = [f \in FieldsOf(c.type) |-> IF f = skipped THEN Blank ELSE c.value[f]]
  BY <1>2, <1>3, ObjectsAreRead
<1> HIDE DEF value
<1>6. Credentials!credential_from_json(json) = d
  <2>1. json # Malformed /\ json.type = c.type /\ json.fields = doc
    BY <1>4, RecordsAreFunctions, FunctionIsNoMarker
  <2> QED BY <1>1, <1>5, <2>1 DEF Credentials!credential_from_json, value, schema
<1>7. d # Error
  BY RecordsAreFunctions, FunctionIsNoMarker
<1>8. d.type = c.type /\ d.value = value
  OBVIOUS
<1> HIDE DEF d
<1>9. Formed(d)
  BY <1>5, <1>8 DEF Formed, d
<1>10. Alike(d, c)
  <2>1. CASE c.type = "MDoc"
    BY <1>5, <1>8, <2>1 DEF Alike, FieldsOf, MdocFields, skipped, Credentials!Id,
       Credentials!Issuer, Credentials!CredentialTypes, Credentials!ExpiryOf,
       Credentials!get_credential_claims
  <2>2. CASE c.type = "SdJwt"
    BY <1>5, <1>8, <2>2 DEF Alike, FieldsOf, SdJwtFields, skipped, Credentials!Id,
       Credentials!Issuer, Credentials!CredentialTypes, Credentials!ExpiryOf,
       Credentials!get_credential_claims
  <2> QED BY <2>1, <2>2
<1> QED BY <1>6, <1>7, <1>9, <1>10 DEF json

LEMMA RoundTrip ==
  ASSUME MarkersAreNoFunctions, NEW c, Formed(c)
  PROVE  LET d == Credentials!credential_from_json(Credentials!credential_to_json(c))
         IN  d # Error /\ Formed(d) /\ Alike(d, c)
BY RoundTripOfVc, RoundTripOfOthers DEF Formed

-----------------------------------------------------------------------------
\* What is in memory is as it was given, but for what storage skips, and what is in
\* storage is the JSON of such a credential.
HeldWell(h, src) == h = None \/ (Formed(h) /\ Formed(src) /\ Alike(h, src))
SavedWell(r) ==
  r = None \/ \E c, d : /\ Formed(c) /\ Formed(d) /\ Alike(c, d)
                        /\ r = [json |-> Credentials!credential_to_json(c), source |-> d]
CredsInv ==
  /\ now \in 0 .. MaxTime /\ uuids \in 0 .. MaxUuid
  /\ held = [s \in Slot |-> held[s]] /\ source = [s \in Slot |-> source[s]]
  /\ saved = [s \in Slot |-> saved[s]]
  /\ \A s \in Slot : HeldWell(held[s], source[s]) /\ SavedWell(saved[s])

LEMMA FormedOfFields ==
  ASSUME NEW type \in {"VerifiableCredential", "MDoc", "SdJwt"}, NEW value,
         IsFunction(value), DOMAIN value = FieldsOf(type),
         type = "VerifiableCredential" => IsObject(value.proof) /\ IsObject(value.status)
  PROVE  Formed([type |-> type, value |-> value])
<1> DEFINE c == [type |-> type, value |-> value]
<1>1. c.type = type /\ c.value = value
  OBVIOUS
<1> HIDE DEF c
<1> QED BY <1>1 DEF Formed, IsFunction, c

LEMMA VcIsFormed ==
  ASSUME NEW doc, Credentials!parse_verifiable_credential(doc) # Error
  PROVE  Formed([type |-> "VerifiableCredential",
                 value |-> Credentials!parse_verifiable_credential(doc)])
<1> DEFINE vc == Credentials!Deserialize(Credentials!VerifiableCredential, doc)
           subject == Credentials!Deserialize(Credentials!CredentialSubject, vc.subject)
           proofOf == Credentials!Nested(Credentials!Proof, "proof", doc)
           status == Credentials!Nested(Credentials!CredentialStatus, "status", doc)
           parsed == Credentials!ParseStructure(doc)
           value == Credentials!parse_verifiable_credential(doc)
<1>1. parsed # Error
  BY DEF Credentials!parse_verifiable_credential
<1>2. /\ vc # Error /\ proofOf # Error /\ status # Error
      /\ parsed = [vc EXCEPT !.subject = subject, !.proof = proofOf, !.status = status]
  BY <1>1 DEF Credentials!ParseStructure
<1>3. IsFunction(vc) /\ DOMAIN vc = VcFields
  BY <1>2, FieldsOfSchemas DEF Credentials!Deserialize, IsFunction
<1>4. IsObject(proofOf) /\ IsObject(status)
  BY <1>2, FieldsOfSchemas DEF Credentials!Nested, Credentials!Deserialize, IsObject, IsFunction
<1> HIDE DEF vc, subject, proofOf, status
<1>5. /\ IsFunction(parsed) /\ DOMAIN parsed = VcFields
      /\ parsed.proof = proofOf /\ parsed.status = status
  BY <1>2, <1>3 DEF IsFunction, VcFields
<1>6. value = [parsed EXCEPT
                 !.raw_json = doc,
                 !.subject = IF "credentialSubject" \in DOMAIN doc
                             THEN Credentials!SubjectOf(doc.credentialSubject) ELSE @]
  BY <1>1 DEF Credentials!parse_verifiable_credential
<1> HIDE DEF parsed
<1>7. /\ IsFunction(value) /\ DOMAIN value = VcFields
      /\ value.proof = proofOf /\ value.status = status
  BY <1>5, <1>6 DEF IsFunction, VcFields
<1> HIDE DEF value
<1>8. FieldsOf("VerifiableCredential") = VcFields
  BY DEF FieldsOf
<1> QED BY <1>4, <1>7, <1>8, FormedOfFields DEF value

LEMMA MdocIsFormed ==
  ASSUME NEW documents, NEW uuid, Credentials!parse_mdoc_credential(documents, uuid) # Error
  PROVE  Formed([type |-> "MDoc",
                 value |-> Credentials!parse_mdoc_credential(documents, uuid)])
<1> DEFINE value == Credentials!parse_mdoc_credential(documents, uuid)
<1>1. IsFunction(value) /\ DOMAIN value = MdocFields
  BY DEF Credentials!parse_mdoc_credential, IsFunction, MdocFields
<1>2. FieldsOf("MDoc") = MdocFields
  BY DEF FieldsOf
<1> HIDE DEF value
<1> QED BY <1>1, <1>2, FormedOfFields DEF value

LEMMA SdJwtIsFormed ==
  ASSUME NEW jwt, NEW uuid, NEW time,
         Credentials!parse_sd_jwt_credential(jwt, uuid, time) # Error
  PROVE  Formed([type |-> "SdJwt",
                 value |-> Credentials!parse_sd_jwt_credential(jwt, uuid, time)])
<1> DEFINE value == Credentials!parse_sd_jwt_credential(jwt, uuid, time)
<1>1. IsFunction(value) /\ DOMAIN value = SdJwtFields
  BY DEF Credentials!parse_sd_jwt_credential, IsFunction, SdJwtFields
<1>2. FieldsOf("SdJwt") = SdJwtFields
  BY DEF FieldsOf
<1> HIDE DEF value
<1> QED BY <1>1, <1>2, FormedOfFields DEF value

\* Trust is attached to a credential of the caller and to the history alike.
LEMMA TrustKeepsAlike ==
  ASSUME NEW h, NEW src, NEW trust, Formed(h), Formed(src), Alike(h, src), h.type = "MDoc"
  PROVE  LET c == [h EXCEPT !.value.trust_info = trust]
             d == [src EXCEPT !.value.trust_info = trust]
         IN  Formed(c) /\ Formed(d) /\ Alike(c, d)
<1> DEFINE c == [h EXCEPT !.value.trust_info = trust]
           d == [src EXCEPT !.value.trust_info = trust]
<1>1. src.type = "MDoc"
  BY DEF Alike
<1>2. ASSUME NEW k, Formed(k), k.type = "MDoc"
      PROVE  LET e == [k EXCEPT !.value.trust_info = trust]
             IN  /\ Formed(e) /\ e.type = "MDoc" /\ e.value.trust_info = trust
                 /\ \A f \in MdocFields \ {"trust_info"} : e.value[f] = k.value[f]
  <2> DEFINE v == [k.value EXCEPT !.trust_info = trust]
             e == [k EXCEPT !.value.trust_info = trust]
  <2>1. IsFunction(v) /\ DOMAIN v = MdocFields /\ v.trust_info = trust
        /\ \A f \in MdocFields \ {"trust_info"} : v[f] = k.value[f]
    BY <1>2 DEF Formed, FieldsOf, IsFunction, MdocFields
  <2>2. e = [type |-> "MDoc", value |-> v]
    BY <1>2 DEF Formed
  <2> HIDE DEF v, e
  <2>3. e.type = "MDoc" /\ e.value = v
    BY <2>2
  <2> QED BY <2>1, <2>2, <2>3 DEF Formed, FieldsOf, IsFunction, e
<1>3. /\ Formed(c) /\ c.type = "MDoc" /\ c.value.trust_info = trust
      /\ \A f \in MdocFields \ {"trust_info"} : c.value[f] = h.value[f]
  BY <1>2
<1>4. /\ Formed(d) /\ d.type = "MDoc" /\ d.value.trust_info = trust
      /\ \A f \in MdocFields \ {"trust_info"} : d.value[f] = src.value[f]
  BY <1>1, <1>2
<1> HIDE DEF c, d
<1>5. Alike(c, d)
  BY <1>1, <1>3, <1>4 DEF Alike, MdocFields, Credentials!Id, Credentials!Issuer,
     Credentials!CredentialTypes, Credentials!ExpiryOf, Credentials!get_credential_claims
<1> QED BY <1>3, <1>4, <1>5 DEF c, d

LEMMA FormedIsNoMarker ==
  ASSUME MarkersAreNoFunctions, NEW c, Formed(c)
  PROVE  c \notin {None, Malformed, Error}
<1>1. IsFunction([type |-> c.type, value |-> c.value])
  BY RecordsAreFunctions
<1> QED BY <1>1, FunctionIsNoMarker DEF Formed

LEMMA CredsInit == Credentials!Init => CredsInv
BY Bounds DEF Credentials!Init, CredsInv, HeldWell, SavedWell, Credentials!BoundsAreNat

LEMMA ReceivedIsWell ==
  ASSUME NEW s \in Slot, NEW type, NEW value, CredsInv,
         Formed([type |-> type, value |-> value]), Credentials!Receive(s, type, value),
         uuids' \in 0 .. MaxUuid
  PROVE  CredsInv'
BY AlikeIsAPreorder DEF CredsInv, HeldWell, Credentials!Receive

LEMMA TrustKeepsCredsInv ==
  ASSUME MarkersAreNoFunctions, CredsInv, NEW s \in Slot, NEW chain \in Chain,
         Credentials!VerifyAndAttachTrust(s, chain)
  PROVE  CredsInv'
<1> DEFINE trust == Credentials!verify_mdoc_trust_chain(chain)
<1>1. /\ held[s] # None /\ held[s].type = "MDoc"
      /\ held' = [held EXCEPT ![s].value.trust_info = trust]
      /\ source' = [source EXCEPT ![s].value.trust_info = trust]
      /\ UNCHANGED <<now, saved, uuids>>
  BY DEF Credentials!VerifyAndAttachTrust
<1> HIDE DEF trust
<1> DEFINE c == [held[s] EXCEPT !.value.trust_info = trust]
           d == [source[s] EXCEPT !.value.trust_info = trust]
<1>2. Formed(c) /\ Formed(d) /\ Alike(c, d)
  BY <1>1, TrustKeepsAlike DEF CredsInv, HeldWell
<1>3. held' = [held EXCEPT ![s] = c] /\ source' = [source EXCEPT ![s] = d]
  BY <1>1
<1> HIDE DEF c, d
<1> QED BY <1>1, <1>2, <1>3 DEF CredsInv, HeldWell

LEMMA SaveKeepsCredsInv ==
  ASSUME CredsInv, NEW s \in Slot, Credentials!Save(s)
  PROVE  CredsInv'
<1> DEFINE r == [json |-> Credentials!credential_to_json(held[s]), source |-> source[s]]
<1>1. held[s] # None /\ saved' = [saved EXCEPT ![s] = r] /\ UNCHANGED <<now, held, uuids, source>>
  BY DEF Credentials!Save
<1>2. SavedWell(r)
  BY <1>1 DEF CredsInv, HeldWell, SavedWell
<1> HIDE DEF r
<1> QED BY <1>1, <1>2 DEF CredsInv

LEMMA SavedIsReadAgain ==
  ASSUME MarkersAreNoFunctions, NEW r, SavedWell(r), r # None
  PROVE  LET c == Credentials!credential_from_json(r.json)
         IN  c # Error /\ Formed(c) /\ Formed(r.source) /\ Alike(c, r.source)
<1>1. PICK c, d : /\ Formed(c) /\ Formed(d) /\ Alike(c, d)
                  /\ r = [json |-> Credentials!credential_to_json(c), source |-> d]
  BY DEF SavedWell
<1>2. r.json = Credentials!credential_to_json(c) /\ r.source = d
  BY <1>1
<1> QED BY <1>1, <1>2, RoundTrip, AlikeIsAPreorder

LEMMA ReloadKeepsCredsInv ==
  ASSUME MarkersAreNoFunctions, CredsInv, Credentials!Reload
  PROVE  CredsInv'
<1>1. \A s \in Slot : HeldWell(held'[s], source'[s])
  <2> TAKE s \in Slot
  <2>1. CASE saved[s] = None
    BY <2>1 DEF HeldWell, Credentials!Reload
  <2>2. CASE saved[s] # None
    <3>1. /\ held'[s] = Credentials!credential_from_json(saved[s].json)
          /\ source'[s] = saved[s].source
      BY <2>2 DEF Credentials!Reload
    <3> QED BY <2>2, <3>1, SavedIsReadAgain DEF CredsInv, HeldWell
  <2> QED BY <2>1, <2>2
<1>2. held' = [s \in Slot |-> held'[s]] /\ source' = [s \in Slot |-> source'[s]]
  BY DEF Credentials!Reload
<1> QED BY <1>1, <1>2 DEF CredsInv, Credentials!Reload

LEMMA CredsStep ==
  ASSUME MarkersAreNoFunctions, CredsInv, [Credentials!Next]_Credentials!vars
  PROVE  CredsInv'
<1>0. MaxTime \in Nat /\ MaxUuid \in Nat
  BY Bounds DEF Credentials!BoundsAreNat
<1>1. CASE Credentials!Reload
  BY <1>1, ReloadKeepsCredsInv
<1>2. CASE Credentials!Tick
  BY <1>0, <1>2 DEF Credentials!Tick, CredsInv
<1>3. ASSUME NEW s \in Slot, NEW doc \in VcInput, Credentials!ReceiveVc(s, doc)
      PROVE  CredsInv'
  <2>1. Credentials!parse_verifiable_credential(doc) # Error
    BY <1>3 DEF Credentials!ReceiveVc, Credentials!Receive
  <2>2. uuids' \in 0 .. MaxUuid
    BY <1>3 DEF Credentials!ReceiveVc, CredsInv
  <2> QED BY <1>3, <2>1, <2>2, VcIsFormed, ReceivedIsWell DEF Credentials!ReceiveVc
<1>4. ASSUME NEW s \in Slot, NEW documents \in MdocInput,
             Credentials!ReceiveMdoc(s, documents)
      PROVE  CredsInv'
  <2>1. Credentials!parse_mdoc_credential(documents, Credentials!Uuid) # Error
    BY <1>4 DEF Credentials!ReceiveMdoc, Credentials!Receive
  <2>2. uuids' \in 0 .. MaxUuid
    BY <1>0, <1>4 DEF Credentials!ReceiveMdoc, CredsInv
  <2> QED BY <1>4, <2>1, <2>2, MdocIsFormed, ReceivedIsWell DEF Credentials!ReceiveMdoc
<1>5. ASSUME NEW s \in Slot, NEW jwt \in SdJwtInput, Credentials!ReceiveSdJwt(s, jwt)
      PROVE  CredsInv'
  <2>1. Credentials!parse_sd_jwt_credential(jwt, Credentials!Uuid, now) # Error
    BY <1>5 DEF Credentials!ReceiveSdJwt, Credentials!Receive
  <2>2. uuids' \in 0 .. MaxUuid
    BY <1>0, <1>5 DEF Credentials!ReceiveSdJwt, CredsInv
  <2> QED BY <1>5, <2>1, <2>2, SdJwtIsFormed, ReceivedIsWell DEF Credentials!ReceiveSdJwt
<1>6. ASSUME NEW s \in Slot, NEW chain \in Chain, Credentials!VerifyAndAttachTrust(s, chain)
      PROVE  CredsInv'
  BY <1>6, TrustKeepsCredsInv
<1>7. ASSUME NEW s \in Slot, Credentials!Save(s)
      PROVE  CredsInv'
  BY <1>7, SaveKeepsCredsInv
<1>8. CASE UNCHANGED Credentials!vars
  BY <1>8 DEF Credentials!vars, CredsInv
<1> QED BY <1>1, <1>2, <1>3, <1>4, <1>5, <1>6, <1>7, <1>8 DEF Credentials!Next

\* What the invariant says of a credential in memory.
LEMMA CredsInvMeans ==
  ASSUME MarkersAreNoFunctions, CredsInv
  PROVE  Credentials!TypeOK /\ Credentials!IdentitySurvivesStorage
<1>1. ASSUME NEW s \in Slot, held[s] # None
      PROVE  Formed(held[s]) /\ Formed(source[s]) /\ Alike(held[s], source[s])
  BY <1>1 DEF CredsInv, HeldWell
<1>2. ASSUME NEW c, Formed(c)
      PROVE  /\ c.type \in DOMAIN Credentials!Schema
             /\ DOMAIN c.value = Credentials!Fields(Credentials!Schema[c.type])
  <2>1. DOMAIN c.value = FieldsOf(c.type)
    BY <1>2 DEF Formed
  <2>2. /\ Credentials!Schema["VerifiableCredential"] = Credentials!VerifiableCredential
        /\ Credentials!Schema["MDoc"] = Credentials!MDocCredential
        /\ Credentials!Schema["SdJwt"] = Credentials!SdJwtCredential
        /\ DOMAIN Credentials!Schema = {"VerifiableCredential", "MDoc", "SdJwt"}
    BY DEF Credentials!Schema
  <2>3. c.type \in {"VerifiableCredential", "MDoc", "SdJwt"}
    BY <1>2 DEF Formed
  <2> QED BY <2>1, <2>2, <2>3, FieldsOfSchemas DEF FieldsOf
<1>3. ASSUME NEW s \in Slot, saved[s] # None
      PROVE  Credentials!credential_from_json(saved[s].json) # Error
  BY <1>3, SavedIsReadAgain DEF CredsInv
<1>4. Credentials!TypeOK
  BY <1>1, <1>2, <1>3, FormedIsNoMarker DEF Credentials!TypeOK, CredsInv
<1>5. Credentials!IdentitySurvivesStorage
  BY <1>1 DEF Credentials!IdentitySurvivesStorage, Credentials!Credentials, Alike,
     Credentials!IsExpired
<1> QED BY <1>4, <1>5

-----------------------------------------------------------------------------
\* The types of issuance: a session has the metadata of the issuer of its offer.
LEMMA IssuingTyped ==
  /\ Issuing!Init => Issuing!TypeOK
  /\ IssuingInv /\ Issuing!TypeOK /\ [Issuing!Next]_Issuing!vars => Issuing!TypeOK'
<1>1. ASSUME Issuing!Init PROVE Issuing!TypeOK
  BY <1>1, Bounds DEF Issuing!Init, Issuing!TypeOK, Issuing!MaxRequestsIsNat
<1>2. ASSUME IssuingInv, NEW r, Issuing!Send(r) PROVE Len(sent') <= MaxRequests
  <2>1. PICK S : sent \in Seq(S)
    BY <1>2 DEF IssuingInv
  <2>2. sent \in Seq(S \cup {r}) /\ r \in S \cup {r} /\ sent' = Append(sent, r)
        /\ Len(sent) < MaxRequests
    BY <1>2, <2>1 DEF Issuing!Send
  <2>3. Len(sent') = Len(sent) + 1 /\ Len(sent) \in Nat
    BY <2>2
  <2> QED BY <2>2, <2>3, Bounds DEF Issuing!MaxRequestsIsNat
<1>3. ASSUME IssuingInv, Issuing!TypeOK, [Issuing!Next]_Issuing!vars PROVE Issuing!TypeOK'
  <2> USE <1>3 DEF Issuing!TypeOK
  <2>1. ASSUME NEW o \in Offer, Issuing!ParseCredentialOffer(o) PROVE Issuing!TypeOK'
    <3>1. o # Malformed
      BY <2>1 DEF Issuing!ParseCredentialOffer, Issuing!wallet_parse_credential_offer
    <3>2. Len(sent') <= MaxRequests
      BY <1>2, <2>1 DEF Issuing!ParseCredentialOffer
    <3> QED BY <2>1, <3>1, <3>2 DEF Issuing!ParseCredentialOffer
  <2>2. ASSUME NEW m \in Metadata, Issuing!FetchIssuerMetadata(m) PROVE Issuing!TypeOK'
    <3> DEFINE fetched == [m EXCEPT !.token_endpoint = Issuing!resolve_token_endpoint(m)]
    <3>1. Len(sent') <= MaxRequests
      BY <1>2, <2>2 DEF Issuing!FetchIssuerMetadata
    <3>2. fetched.credential_issuer = m.credential_issuer
      BY InputsFit DEF Issuing!MetadataAreRecords
    <3>3. /\ Issuing!FrbIssuerMetadata(fetched) # Error
          /\ metadata' = Issuing!FrbIssuerMetadata(fetched)
          /\ offer # None /\ m.credential_issuer = offer.credential_issuer
          /\ UNCHANGED <<offer, proof, credential>>
      BY <2>2 DEF Issuing!FetchIssuerMetadata
    <3> HIDE DEF fetched
    <3>4. metadata'.credential_issuer = fetched.credential_issuer
      BY <3>3 DEF Issuing!FrbIssuerMetadata
    <3> QED BY <3>1, <3>2, <3>3, <3>4
  <2>3. ASSUME NEW tx_code \in BOOLEAN, Issuing!ExchangePreAuthToken(tx_code)
        PROVE  Issuing!TypeOK'
    <3>1. Len(sent') <= MaxRequests
      BY <1>2, <2>3 DEF Issuing!ExchangePreAuthToken
    <3> QED BY <2>3, <3>1 DEF Issuing!ExchangePreAuthToken
  <2>4. ASSUME Issuing!ExchangeAuthCodeToken PROVE Issuing!TypeOK'
    <3>1. Len(sent') <= MaxRequests
      BY <1>2, <2>4 DEF Issuing!ExchangeAuthCodeToken
    <3> QED BY <2>4, <3>1 DEF Issuing!ExchangeAuthCodeToken
  <2>5. ASSUME NEW format, NEW configuration, NEW response \in Issuing!Responses,
               Issuing!RequestCredential(format, configuration, response)
        PROVE  Issuing!TypeOK'
    <3>1. Len(sent') <= MaxRequests
      BY <1>2, <2>5 DEF Issuing!RequestCredential
    <3>2. \/ credential'.credential = "text" /\ credential'.transaction_id = None
          \/ credential'.credential = None /\ credential'.transaction_id = "later"
      BY <2>5 DEF Issuing!RequestCredential, Issuing!FrbCredentialResponse,
                  Issuing!Responses
    <3>3. PICK text : {credential'.credential, credential'.transaction_id} \ {None} = {text}
      BY <3>2, InputsFit DEF Issuing!NoneIsNoText
    <3>4. Issuing!Cardinality({credential'.credential, credential'.transaction_id}
                                \ {None}) = 1
      <4>1. Cardinality({text}) = 1
        BY FS_Singleton
      <4> QED BY <3>3, <4>1, SameCardinality
    <3> QED BY <2>5, <3>1, <3>4 DEF Issuing!RequestCredential
  <2>6. CASE Issuing!RequestFails
    <3>1. Len(sent') <= MaxRequests
      BY <1>2, <2>6 DEF Issuing!RequestFails
    <3> QED BY <2>6, <3>1 DEF Issuing!RequestFails
  <2>7. ASSUME NEW configuration, Issuing!BuildAuthRequest(configuration)
        PROVE  Issuing!TypeOK'
    BY <2>7 DEF Issuing!BuildAuthRequest
  <2>8. ASSUME NEW key, Issuing!CreateProofJwt(key) PROVE Issuing!TypeOK'
    BY <2>8 DEF Issuing!CreateProofJwt, Issuing!wallet_create_proof_jwt
  <2>9. CASE Issuing!Authorize
    BY <2>9 DEF Issuing!Authorize
  <2>10. CASE Issuing!PlatformProof
    BY <2>10 DEF Issuing!PlatformProof
  <2>11. CASE UNCHANGED Issuing!vars
    BY <2>11 DEF Issuing!vars
  <2> QED
    BY <2>1, <2>2, <2>3, <2>4, <2>5, <2>6, <2>7, <2>8, <2>9, <2>10, <2>11
    DEF Issuing!Next
<1> QED BY <1>1, <1>3

\* The types of presentation: the kind of a request is that of its query.
LEMMA PresentingTyped ==
  /\ Presenting!Init => Presenting!TypeOK
  /\ PresentingInv /\ Presenting!TypeOK /\ [Presenting!Next]_Presenting!vars
       => Presenting!TypeOK'
<1>1. ASSUME Presenting!Init PROVE Presenting!TypeOK
  BY <1>1, Bounds DEF Presenting!Init, Presenting!TypeOK, Presenting!MaxPostsIsNat
<1>2. ASSUME PresentingInv, Presenting!TypeOK, [Presenting!Next]_Presenting!vars
      PROVE  Presenting!TypeOK'
  <2> USE <1>2 DEF Presenting!TypeOK
  <2>1. ASSUME NEW r \in VerifierRequest, Presenting!ParseRequest(r)
        PROVE  Presenting!TypeOK'
    <3>1. /\ request'.query_type = (IF r.dcql_query # None
                                    THEN "dcql_query" ELSE "presentation_definition")
          /\ request'.dcql_query_json = r.dcql_query
          /\ request'.presentation_definition_json = r.presentation_definition
          /\ posted' = posted /\ answer' = None
      BY <2>1 DEF Presenting!ParseRequest
    <3>2. (r.dcql_query = None) = (r.presentation_definition # None)
      BY InputsFit DEF Presenting!RequestsAreOfOneKind
    <3> QED BY <3>1, <3>2
  <2>2. ASSUME NEW p, Presenting!Post(p) PROVE Presenting!TypeOK'
    <3>1. PICK S : posted \in Seq(S)
      BY DEF PresentingInv
    <3>2. posted \in Seq(S \cup {p}) /\ p \in S \cup {p} /\ posted' = Append(posted, p)
          /\ Len(posted) < MaxPosts /\ answer' \in {"ok", "refused", Error}
          /\ UNCHANGED request
      BY <2>2, <3>1 DEF Presenting!Post
    <3>3. Len(posted') = Len(posted) + 1 /\ Len(posted) \in Nat
      BY <3>2
    <3>4. Len(posted') <= MaxPosts
      BY <3>2, <3>3, Bounds DEF Presenting!MaxPostsIsNat
    <3> QED BY <3>2, <3>4
  <2>3. ASSUME request' = request, posted' = posted, answer' \in {Error, "ok", "proved"}
        PROVE  Presenting!TypeOK'
    BY <2>3
  <2>4. ASSUME NEW definition, NEW dcql, NEW credentials,
               Presenting!BuildAndSubmit(request.response_uri, definition, dcql, credentials)
        PROVE  Presenting!TypeOK'
    BY <2>2, <2>3, <2>4 DEF Presenting!BuildAndSubmit, Presenting!Fail
  <2>5. ASSUME NEW definition, NEW secrets,
               Presenting!ZkProveFromDefinition(definition, secrets)
        PROVE  Presenting!TypeOK'
    BY <2>3, <2>5 DEF Presenting!ZkProveFromDefinition, Presenting!Fail
  <2>6. ASSUME NEW predicate_id, Presenting!ZkProve(predicate_id)
        PROVE  Presenting!TypeOK'
    BY <2>3, <2>6 DEF Presenting!ZkProve, Presenting!Fail
  <2>7. ASSUME NEW definition, NEW credentials,
               Presenting!BuildAndSubmitZk(request.response_uri, definition, credentials)
        PROVE  Presenting!TypeOK'
    BY <2>2, <2>3, <2>7 DEF Presenting!BuildAndSubmitZk, Presenting!Fail
  <2>8. CASE UNCHANGED Presenting!vars
    BY <2>8 DEF Presenting!vars
  <2> QED
    BY <2>1, <2>4, <2>5, <2>6, <2>7, <2>8 DEF Presenting!Next
<1> QED BY <1>1, <1>2

\* The types of policies: what is returned is about a policy that was synced.
LEMMA HeldPolicies ==
  ASSUME policies \in Policies!Lists
  PROVE  /\ Policies!Held \subseteq Policy \cup {Malformed}
         /\ policies # <<>> => Head(policies) \in Policy
<1>1. CASE policies = <<>>
  BY <1>1 DEF Policies!Held, Policies!ToSet
<1>2. ASSUME NEW p \in Policy, policies = <<p>>
      PROVE  Policies!Held \subseteq Policy /\ Head(policies) \in Policy
  BY <1>2 DEF Policies!Held, Policies!ToSet
<1>3. ASSUME NEW p \in Policy, NEW q \in Policy \cup {Malformed}, policies = <<p, q>>
      PROVE  Policies!Held \subseteq Policy \cup {Malformed} /\ Head(policies) \in Policy
  BY <1>3 DEF Policies!Held, Policies!ToSet
<1>4. \/ policies = <<>> \/ \E p \in Policy : policies = <<p>>
      \/ \E p \in Policy, q \in Policy \cup {Malformed} : policies = <<p, q>>
  BY DEF Policies!Lists
<1> QED BY <1>1, <1>2, <1>3, <1>4

LEMMA PolicyTyped ==
  /\ Policies!Init => Policies!TypeOK
  /\ Policies!TypeOK /\ [Policies!Next]_Policies!vars => Policies!TypeOK'
<1>1. ASSUME Policies!Init PROVE Policies!TypeOK
  <2>1. <<>> \in Policies!Lists
    BY DEF Policies!Lists
  <2> QED BY <1>1, <2>1 DEF Policies!Init, Policies!TypeOK
<1>2. ASSUME Policies!TypeOK, [Policies!Next]_Policies!vars PROVE Policies!TypeOK'
  <2> USE DEF Policies!Returns
  <2>1. policies \in Policies!Lists /\ facts \in (SUBSET PolicyClaim) \cup {Malformed, None}
    BY <1>2 DEF Policies!TypeOK
  <2>2. ASSUME NEW a, Policies!Returns(a), a \in {None, Error} \/ a \in Policies!Answer
        PROVE  Policies!TypeOK'
    BY <2>1, <2>2 DEF Policies!TypeOK
  <2>3. /\ RequiredClaims \in [Policy -> SUBSET PolicyClaim]
        /\ ClaimsOf \in [Credential -> SUBSET PolicyClaim]
    BY InputsFit DEF Policies!PolicyFunctions
  <2>4. CASE Policies!SyncPolicies
    BY <1>2, <2>4 DEF Policies!SyncPolicies, Policies!TypeOK
  <2>5. CASE Policies!VerifierAsks
    BY <1>2, <2>5 DEF Policies!VerifierAsks, Policies!TypeOK
  <2>6. ASSUME NEW credentials \in SUBSET Credential,
               Policies!EvaluatePresentationRequest(credentials)
        PROVE  Policies!TypeOK'
    <3>1. CASE Policies!Returns(Error)
      BY <2>2, <3>1
    <3>2. CASE /\ facts # None /\ Policies!Parses(policies) /\ facts # Malformed
               /\ Policies!Returns(Policies!Evaluation(Head(policies), facts))
      <4>0. policies # <<>>
        BY <3>2 DEF Policies!Parses
      <4>1. Head(policies) \in Policy /\ facts \in SUBSET PolicyClaim
        BY <2>1, <3>2, <4>0, HeldPolicies
      <4>2. Policies!Evaluation(Head(policies), facts) \in Policies!Answer
        BY <2>3, <4>1 DEF Policies!Evaluation, Policies!Answer
      <4> QED BY <2>2, <3>2, <4>2
    <3> QED BY <2>6, <3>1, <3>2 DEF Policies!EvaluatePresentationRequest, Policies!Facts
  <2>7. ASSUME NEW bytes \in RequestBytes, Policies!EvaluateServicePolicy(bytes)
        PROVE  Policies!TypeOK'
    <3>1. bytes <= MAX_REQUEST_BYTES => [call |-> "service", bytes |-> bytes] \in Policies!Answer
      BY DEF Policies!Answer
    <3> QED BY <2>2, <2>7, <3>1 DEF Policies!EvaluateServicePolicy
  <2>8. ASSUME NEW policy \in Policies!Held, NEW credential_id \in Credential,
               Policies!GetMinimumDisclosureSet(policy, credential_id)
        PROVE  Policies!TypeOK'
    <3>1. CASE policy = Malformed
      BY <2>2, <2>8, <3>1 DEF Policies!GetMinimumDisclosureSet
    <3>2. CASE policy # Malformed
      <4> DEFINE a == [call |-> "disclose", credential |-> credential_id,
                       claims |-> RequiredClaims[policy] \cap ClaimsOf[credential_id]]
      <4>1. policy \in Policy
        BY <2>1, <3>2, HeldPolicies
      <4>2. a \in Policies!Answer
        BY <2>3, <4>1 DEF Policies!Answer
      <4> QED BY <2>2, <2>8, <3>2, <4>2 DEF Policies!GetMinimumDisclosureSet
    <3> QED BY <3>1, <3>2
  <2>9. ASSUME NEW policy, NEW credentials \in SUBSET Rankable,
               Policies!RankMatchingCredentials(policy, credentials)
        PROVE  Policies!TypeOK'
    <3>1. CASE Policies!Returns(Error)
      BY <2>2, <3>1
    <3>2. ASSUME Malformed \notin Policies!Convert(credentials),
                 NEW ranked \in Policies!SetToSeqs(Policies!Convert(credentials)),
                 Policies!Returns([call |-> "rank", given |-> credentials,
                                   ranked |-> ranked])
          PROVE  Policies!TypeOK'
      <4>1. Policies!Convert(credentials) = credentials
        BY <3>2 DEF Policies!Convert
      <4>2. /\ IsFiniteSet(credentials)
            /\ Cardinality(credentials) \in Nat
        BY InputsFit, FS_Subset, FS_CardinalityType
        DEF Policies!RankableIsFinite, Policies!IsFiniteSet, IsFiniteSet
      <4>3. ranked \in [1 .. Cardinality(credentials) -> credentials]
        BY <4>1, SameCardinality DEF Policies!SetToSeqs
      <4>4. ranked \in Seq(Rankable)
        BY <4>2, <4>3
      <4>5. [call |-> "rank", given |-> credentials, ranked |-> ranked] \in Policies!Answer
        BY <4>4 DEF Policies!Answer
      <4> QED BY <2>2, <3>2, <4>5
    <3> QED BY <2>9, <3>1, <3>2 DEF Policies!RankMatchingCredentials
  <2>10. ASSUME NEW policy \in Policies!Held, NEW issuer \in PolicyIssuer,
                NEW verified \in BOOLEAN,
                Policies!CheckIssuerConstraints(policy, issuer, verified)
         PROVE  Policies!TypeOK'
    <3>1. CASE policy = Malformed
      BY <2>2, <2>10, <3>1 DEF Policies!CheckIssuerConstraints
    <3>2. ASSUME policy # Malformed, NEW is_trusted \in BOOLEAN,
                 Policies!Returns([call |-> "issuer", policy |-> policy, issuer |-> issuer,
                                   verified |-> verified, is_trusted |-> is_trusted])
          PROVE  Policies!TypeOK'
      <4>1. policy \in Policy
        BY <2>1, <3>2, HeldPolicies
      <4>2. [call |-> "issuer", policy |-> policy, issuer |-> issuer,
             verified |-> verified, is_trusted |-> is_trusted] \in Policies!Answer
        BY <4>1 DEF Policies!Answer
      <4> QED BY <2>2, <3>2, <4>2
    <3> QED BY <2>10, <3>1, <3>2 DEF Policies!CheckIssuerConstraints
  <2>11. CASE UNCHANGED Policies!vars
    BY <1>2, <2>11 DEF Policies!vars, Policies!TypeOK
  <2> QED
    BY <1>2, <2>4, <2>5, <2>6, <2>7, <2>8, <2>9, <2>10, <2>11 DEF Policies!Next
<1> QED BY <1>1, <1>2

\* The types of a scan: a route is only asked for what was accepted.
LEMMA ScanTyped ==
  /\ Scanning!Init => Scanning!TypeOK
  /\ ScanInv /\ Scanning!TypeOK /\ [Scanning!Next]_Scanning!vars => Scanning!TypeOK'
<1> USE InputsFit DEF Scanning!MarkersAreNoForms
<1>1. ASSUME Scanning!Init PROVE Scanning!TypeOK
  BY <1>1 DEF Scanning!Init, Scanning!TypeOK
<1>2. ASSUME ScanInv, Scanning!TypeOK, [Scanning!Next]_Scanning!vars
      PROVE  Scanning!TypeOK'
  <2> USE <1>2
  <2>1. CASE Scanning!WalletValidateQrInput
    <3>1. ASSUME NEW uri \in Uri
          PROVE  Scanning!parse_push_registration_qr(uri)
                   \in Scanning!FrbWalletQrInput \cup {Error}
      <4> DEFINE values == Scanning!QueryValues(uri.query)
      <4> HIDE DEF values
      <4> QED BY DEF Scanning!parse_push_registration_qr, values, Scanning!QrKinds,
                     Scanning!FrbWalletQrInput
    <3>2. ASSUME NEW text,
                 scanned' \in Scanning!Validated(Scanning!classify_wallet_input(text))
          PROVE  scanned' \in Scanning!FrbWalletQrInput \cup {None, Error}
      BY <3>2, ValidatedFits
    <3>3. /\ form' \in {"uri", "text"} /\ routed' = routed
          /\ scanned' \in Scanning!FrbWalletQrInput \cup {None, Error}
      BY <2>1, <3>1, <3>2 DEF Scanning!WalletValidateQrInput, Scanning!ValidateQrInput
    <3> QED BY <3>3 DEF Scanning!TypeOK
  <2>2. CASE Scanning!RoutePresentationRequest
    <3> DEFINE again == Scanning!classify_wallet_input(scanned.normalized)
    <3>1. again \in {None, Error} \/ again \in Scanning!Known
      BY InputsFit DEF Scanning!classify_wallet_input, Scanning!TextsAreClassified
    <3>2. routed' = Scanning!RouteOf(again) /\ UNCHANGED <<form, scanned>>
      BY <2>2 DEF Scanning!RoutePresentationRequest
    <3> HIDE DEF again
    <3>3. again \in Scanning!Known =>
            again.kind \in {"credential_offer", "presentation_request",
                           "mdoc_device_engagement"}
      BY DEF Scanning!Known, Scanning!WalletInputKind
    <3>4. Scanning!RouteOf(again) \in {"oid4vp", "mdoc", Error}
      BY <3>1, <3>3 DEF Scanning!RouteOf
    <3> QED BY <3>2, <3>4 DEF Scanning!TypeOK
  <2>3. CASE Scanning!ValidatePresentationContext
    BY <2>3 DEF Scanning!ValidatePresentationContext, Scanning!TypeOK
  <2>4. CASE Scanning!Forget
    BY <2>4 DEF Scanning!Forget, Scanning!TypeOK
  <2>5. CASE UNCHANGED Scanning!vars
    BY <2>5 DEF Scanning!vars, Scanning!TypeOK
  <2> QED BY <2>1, <2>2, <2>3, <2>4, <2>5 DEF Scanning!Next
<1> QED BY <1>1, <1>2

-----------------------------------------------------------------------------
\* A step of the library is a step of each part, or the part rests.
LEMMA PartsStep ==
  ASSUME CoreNext \/ UNCHANGED coreVars
  PROVE  /\ [Next]_vars /\ [Credentials!Next]_Credentials!vars
         /\ [Issuing!Next]_Issuing!vars /\ [Presenting!Next]_Presenting!vars
         /\ [Policies!Next]_Policies!vars /\ [Scanning!Next]_Scanning!vars
<1> USE DEF coreVars, bridgeVars, Credentials!vars, Issuing!vars, Presenting!vars,
            Policies!vars, Scanning!vars
<1>1. ASSUME NEW name, Frame(name)
      PROVE  /\ name # "bridge" => UNCHANGED vars
             /\ name # "credentials" => UNCHANGED Credentials!vars
             /\ name # "issuance" => UNCHANGED Issuing!vars
             /\ name # "presentation" => UNCHANGED Presenting!vars
             /\ name # "policy" => UNCHANGED Policies!vars
             /\ name # "qr" => UNCHANGED Scanning!vars
  BY <1>1 DEF Frame
<1>2. CASE CoreNext
  BY <1>1, <1>2 DEF CoreNext
<1> QED BY <1>2

\* Whatever offers and metadata there are, tokens come from the issuer of the offer, a
\* credential request names its configuration, and a presentation answers the query that
\* was passed, of well-formed arguments only (operations/issuance.rs, presentation.rs).
THEOREM RequestsGoWhereTheyBelong == CoreSpec => []SentToWhomItConcerns
<1>1. CoreInit => IssuingInv /\ PresentingInv
  BY InitIssuingInv, InitPresentingInv DEF CoreInit
<1>2. IssuingInv /\ PresentingInv => SentToWhomItConcerns
  BY IssuingIsComplete DEF PresentingInv, SentToWhomItConcerns
<1>3. IssuingInv /\ PresentingInv /\ [CoreNext]_coreVars
       => (IssuingInv /\ PresentingInv)'
  BY PartsStep, StepIssuingInv, StepPresentingInv
<1> QED BY <1>1, <1>2, <1>3, PTL DEF CoreSpec

LEMMA InitPolicyInv == Policies!Init => PolicyInv
BY DEF Policies!Init, PolicyInv, Policies!SatisfiedByVerifiedFacts,
       Policies!EveryPolicyIsReadable, Policies!Called

\* Whatever policies, credentials, texts and contexts there are, a request is called
\* satisfied only by facts that were verified, and judged only when every policy of the
\* list can be read (the first one decides); a registration that is accepted names each
\* value once, a binding is the one the request states, and a scan is routed as what it
\* was validated as, if a normal form is classified as the text was (policy.rs, qr.rs).
THEOREM DecisionsRestOnVerifiedInput == CoreSpec => []JudgedOnVerifiedInput
<1>1. CoreInit => PolicyInv /\ ScanInv
  BY InitPolicyInv, InitScanInv DEF CoreInit
<1>2. PolicyInv /\ ScanInv => JudgedOnVerifiedInput
  BY ScanIsJudged DEF PolicyInv, JudgedOnVerifiedInput
<1>3. PolicyInv /\ ScanInv /\ [CoreNext]_coreVars
       => (PolicyInv /\ ScanInv)'
  BY PartsStep, StepPolicyInv, StepScanInv
<1> QED BY <1>1, <1>2, <1>3, PTL DEF CoreSpec

-----------------------------------------------------------------------------
\* The groups of the stacked display partition the credentials, whatever they are
\* (group_credentials_by_issuer of operations/credentials.rs).
THEOREM GroupsArePartition == CoreSpec => []Credentials!GroupsPartition
<1>1. Credentials!GroupsPartition
  <2> DEFINE Kept == Credentials!Credentials
             IssuerOf(s) == Credentials!Issuer(held[s])
             Of(s) == {t \in Kept : IssuerOf(t) = IssuerOf(s)}
             Group(s) == Credentials!CredentialGroup(IssuerOf(s), Of(s))
             groups == {Group(s) : s \in Kept}
  <2>1. \A s \in Kept : Group(s).issuer = IssuerOf(s) /\ Group(s).credentials = Of(s)
    BY DEF Credentials!CredentialGroup
  <2>2. \A s, t \in Kept : IssuerOf(s) = IssuerOf(t) => Group(s) = Group(t)
    OBVIOUS
  <2>3. Credentials!group_credentials_by_issuer(Kept) = groups
    BY DEF Credentials!group_credentials_by_issuer
  <2> HIDE DEF Group, IssuerOf, Kept
  <2>4. UNION {g.credentials : g \in groups} = Kept
    BY <2>1
  <2>5. ASSUME NEW g \in groups, NEW h \in groups, g # h
        PROVE  g.issuer # h.issuer /\ g.credentials \cap h.credentials = {}
    BY <2>1, <2>2, <2>5
  <2>6. ASSUME NEW g \in groups, NEW s \in g.credentials PROVE IssuerOf(s) = g.issuer
    BY <2>1, <2>6
  <2> QED BY <2>3, <2>4, <2>5, <2>6 DEF Credentials!GroupsPartition, Kept, IssuerOf
<1> QED BY <1>1, PTL
-----------------------------------------------------------------------------
\* Whatever credentials, texts and certificate chains there are, a credential that was
\* read back from storage has the identity, the types, the expiry and the trust it was
\* issued with and no claim besides, and the groups of the display partition the
\* credentials (operations/credentials.rs and credential.rs).
THEOREM IdentityIsKept ==
  ASSUME MarkersAreNoFunctions PROVE CoreSpec => []IdentitySurvivesStorage
<1>1. CoreInit => CredsInv
  BY CredsInit DEF CoreInit
<1>2. CredsInv /\ [CoreNext]_coreVars => CredsInv'
  BY PartsStep, CredsStep
<1>3. CredsInv => Credentials!IdentitySurvivesStorage
  BY CredsInvMeans
<1>4. CoreSpec => [](Credentials!IdentitySurvivesStorage)
  BY <1>1, <1>2, <1>3, PTL DEF CoreSpec
<1> QED BY <1>4, GroupsArePartition, PTL DEF IdentitySurvivesStorage

\* The types of the whole library, for every value of its constants.
THEOREM LibraryIsWellTyped ==
  ASSUME MarkersAreNoFunctions PROVE CoreSpec => []WellTyped
<1> DEFINE Parts == /\ BridgeInv /\ CredsInv /\ IssuingInv /\ PresentingInv /\ ScanInv
                    /\ Issuing!TypeOK /\ Presenting!TypeOK /\ Policies!TypeOK
                    /\ Scanning!TypeOK
<1>1. CoreInit => Parts
  BY InitBridgeInv, CredsInit, InitIssuingInv, InitPresentingInv, InitScanInv,
     IssuingTyped, PresentingTyped, PolicyTyped, ScanTyped DEF CoreInit
<1>2. Parts /\ [CoreNext]_coreVars => Parts'
  BY PartsStep, StepBridgeInv, CredsStep, StepIssuingInv, StepPresentingInv, StepScanInv,
     IssuingTyped, PresentingTyped, PolicyTyped, ScanTyped
<1>3. Parts => WellTyped
  BY CredsInvMeans DEF BridgeInv, WellTyped
<1> HIDE DEF Parts
<1> QED BY <1>1, <1>2, <1>3, PTL DEF CoreSpec

\* The library is its parts side by side: each of them behaves as its module says, and
\* what is proved of the bridge holds where operations are at work behind it (api.rs).
THEOREM PartsAreTheirModules ==
  CoreSpec => /\ Spec /\ Credentials!Spec /\ Issuing!Spec /\ Presenting!Spec
              /\ Policies!Spec /\ Scanning!Spec
<1>1. CoreInit => /\ Init /\ Credentials!Init /\ Issuing!Init /\ Presenting!Init
                  /\ Policies!Init /\ Scanning!Init
  BY DEF CoreInit
<1>2. [CoreNext]_coreVars =>
        /\ [Next]_vars /\ [Credentials!Next]_Credentials!vars
        /\ [Issuing!Next]_Issuing!vars /\ [Presenting!Next]_Presenting!vars
        /\ [Policies!Next]_Policies!vars /\ [Scanning!Next]_Scanning!vars
  BY PartsStep
<1> QED
  BY <1>1, <1>2, PTL DEF CoreSpec, Spec, Credentials!Spec, Issuing!Spec, Presenting!Spec,
                         Policies!Spec, Scanning!Spec

\* In the library a call is in one place, and both halves of the bridge mean the same
\* function by its number (frb_generated.rs).
THEOREM LibraryCallsAreSafe == CoreSpec => [](OnePlace /\ HalvesAgree)
BY PartsAreTheirModules, CallInOnePlace, BothHalvesAgree, PTL
================================================================================
