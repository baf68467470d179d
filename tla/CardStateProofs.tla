---------------------------- MODULE CardStateProofs ----------------------------
(***************************************************************************)
(* Theorems about the store of received credentials, for any ids and any   *)
(* number of overlapping callers, and about the card list over it.         *)
(*                                                                         *)
(* A method of the store that is about to write the index writes a value   *)
(* it computed earlier, so its inductive invariant is about those values:  *)
(* what every pending index still contains, and which methods can be       *)
(* running beside it.  That of the list says what the load has collected   *)
(* so far, and that nothing that is being deleted is shown.                *)
(***************************************************************************)
EXTENDS CardState, SequenceTheorems, FiniteSetTheorems, TLAPS

-----------------------------------------------------------------------------
(***************************************************************************)
(* The store.                                                              *)
(***************************************************************************)
\* The storage call a method awaits is one of its own, and it has its argument.
Awaiting ==
  \A o \in Operation :
    /\ Running(o) <=> method[o] # "none"
    /\ op[o] = "write body" => method[o] = "store"
    /\ op[o] = "write index" => method[o] \in {"store", "delete"}
    /\ op[o] = "read body" => method[o] = "getAll"
    /\ op[o] = "delete body" => method[o] \in {"delete", "clear"}
    /\ method[o] \in {"store", "delete"} => id[o] \in Id

\* A store or a clear is the only writer.
Exclusive ==
  \A o, p \in Operation :
    method[o] \in {"store", "clear"} /\ method[p] \in {"store", "delete", "clear"}
      => o = p

\* The bodies that the running methods have written or deleted.
Bodies ==
  \A o \in Operation :
    /\ BodyWritten(o) => id[o] \in body
    /\ method[o] = "delete" /\ op[o] # "delete body" => id[o] \notin body

\* Nothing that is being removed is kept.
Removing ==
  \A o \in Operation :
    /\ method[o] = "delete" => id[o] \notin kept
    /\ method[o] = "clear" => kept = {}

\* An index about to be written names a credential once ...
PendingIsASet ==
  \A o \in Operation : op[o] = "write index" => IsInjective(todo[o])

\* ... that of a store everything the index has, and the new id ...
StorePending ==
  \A o \in Operation : op[o] = "write index" /\ method[o] = "store" =>
    /\ Contains(todo[o], id[o])
    /\ \A i \in Id : Contains(index, i) => Contains(todo[o], i)

\* ... and that of a delete everything that is kept, and every body but those
\* of the stores that were cut off.
DeletePending ==
  \A o \in Operation : op[o] = "write index" /\ method[o] = "delete" =>
    /\ \A i \in kept : Contains(todo[o], i)
    /\ \A i \in body : Contains(todo[o], i) \/ i \in cutOff

\* A clear still has every listed body before it.
ClearPending ==
  \A o \in Operation : op[o] = "delete body" /\ method[o] = "clear" =>
    \A i \in body : Contains(todo[o], i) \/ i \in cutOff

\* A getAll has found what it must not miss, or has it before it.
GetAllPending ==
  \A o \in Operation : method[o] = "getAll" =>
    /\ expected[o] \subseteq kept
    /\ op[o] = "read body" =>
         \A i \in expected[o] : Contains(result[o], i) \/ Contains(todo[o], i)

StoreInv ==
  /\ StoreTypeOK
  /\ Awaiting
  /\ Exclusive
  /\ Bodies
  /\ Removing
  /\ PendingIsASet
  /\ StorePending
  /\ DeletePending
  /\ ClearPending
  /\ GetAllPending
  /\ IndexIsASet
  /\ KeptIsStored
  /\ OrphansAreCutOff

-----------------------------------------------------------------------------
\* The list operations of the index (Dart's add, remove, and the loop over it).

LEMMA ContainsAppend ==
  ASSUME NEW s \in Seq(Id), NEW e \in Id
  PROVE  /\ Append(s, e) \in Seq(Id)
         /\ \A i : Contains(Append(s, e), i) <=> Contains(s, i) \/ i = e
<1>1. /\ Append(s, e) \in Seq(Id)
      /\ Len(Append(s, e)) = Len(s) + 1
      /\ Append(s, e)[Len(s) + 1] = e
      /\ \A n \in 1 .. Len(s) : Append(s, e)[n] = s[n]
  OBVIOUS
<1> QED BY <1>1 DEF Contains

LEMMA AppendIsInjective ==
  ASSUME NEW s \in Seq(Id), NEW e \in Id, IsInjective(s), ~Contains(s, e)
  PROVE  IsInjective(Append(s, e))
BY DEF IsInjective, Contains

LEMMA ContainsTail ==
  ASSUME NEW s \in Seq(Id), s # <<>>, NEW i, Contains(s, i)
  PROVE  i = Head(s) \/ Contains(Tail(s), i)
<1>1. PICK n \in 1 .. Len(s) : s[n] = i
  BY DEF Contains
<1>2. CASE n = 1
  BY <1>1, <1>2
<1>3. CASE n # 1
  <2>1. n - 1 \in 1 .. Len(Tail(s)) /\ Tail(s)[n - 1] = i
    BY <1>1, <1>3
  <2> QED BY <2>1 DEF Contains
<1> QED BY <1>2, <1>3

LEMMA EmptyContainsNothing ==
  ASSUME NEW i PROVE ~Contains(<<>>, i)
BY DEF Contains

LEMMA EmptyIsInjective ==
  IsInjective(<<>>)
BY DEF IsInjective

\* A set of positions has a first one.
LEMMA FirstPosition ==
  ASSUME NEW I \in SUBSET Nat, I # {}
  PROVE  Min(I) \in I
<1>1. \E m \in I : \A n \in I : ~ <<n, m>> \in OpToRel(<, Nat)
  BY NatLessThanWellFounded, WFMin
<1>2. PICK m \in I : \A n \in I : ~ n < m
  BY <1>1 DEF OpToRel
<1>3. \A n \in I : m <= n
  BY <1>2
<1> QED BY <1>3 DEF Min

\* Removing a position: what is left moves up.
LEMMA RemoveAtIs ==
  ASSUME NEW T, NEW s \in Seq(T), NEW k \in 1 .. Len(s)
  PROVE  /\ RemoveAt(s, k) \in Seq(T)
         /\ Len(RemoveAt(s, k)) = Len(s) - 1
         /\ \A n \in 1 .. Len(s) - 1 : RemoveAt(s, k)[n] = IF n < k THEN s[n] ELSE s[n + 1]
<1> DEFINE r == RemoveAt(s, k)
           p == SubSeq(s, 1, k - 1)
           q == SubSeq(s, k + 1, Len(s))
<1>1. /\ p \in Seq(T) /\ Len(p) = k - 1
      /\ \A n \in 1 .. k - 1 : p[n] = s[n]
  <2>1. \A n \in 1 .. k - 1 : s[n] \in T
    BY ElementOfSeq
  <2> QED BY <2>1, SubSeqProperties
<1>2. /\ q \in Seq(T) /\ Len(q) = Len(s) - k
      /\ \A n \in 1 .. Len(s) - k : q[n] = s[n + k]
  <2>1. \A n \in k + 1 .. Len(s) : s[n] \in T
    BY ElementOfSeq
  <2> QED BY <2>1, SubSeqProperties
<1>3. r = p \o q
  BY DEF RemoveAt
<1> HIDE DEF p, q, r
<1>4. /\ r \in Seq(T)
      /\ Len(r) = Len(p) + Len(q)
      /\ \A n \in 1 .. Len(p) + Len(q) :
           r[n] = IF n <= Len(p) THEN p[n] ELSE q[n - Len(p)]
  BY <1>1, <1>2, <1>3, ConcatProperties
<1>5. Len(s) \in Nat /\ Len(r) = Len(s) - 1
  BY <1>1, <1>2, <1>4, LenProperties
<1>6. ASSUME NEW n \in 1 .. Len(s) - 1
      PROVE  r[n] = IF n < k THEN s[n] ELSE s[n + 1]
  <2>0. r[n] = IF n <= k - 1 THEN p[n] ELSE q[n - (k - 1)]
    <3>1. Len(p) = k - 1 /\ Len(q) = Len(s) - k
      BY <1>1, <1>2
    <3>2. n \in 1 .. Len(p) + Len(q)
      BY <1>5, <3>1
    <3> QED BY <1>4, <3>1, <3>2
  <2>1. CASE n < k
    <3>1. n \in 1 .. k - 1 /\ n <= k - 1
      BY <1>5, <2>1
    <3> QED BY <1>1, <2>0, <2>1, <3>1
  <2>2. CASE n >= k
    <3>1. r[n] = q[n - (k - 1)]
      BY <1>5, <2>0, <2>2
    <3>2. /\ n - (k - 1) \in 1 .. Len(s) - k
          /\ (n - (k - 1)) + k = n + 1
      BY <1>5, <2>2
    <3> QED BY <1>2, <2>2, <3>1, <3>2
  <2> QED BY <1>5, <2>1, <2>2
<1> QED BY <1>4, <1>5, <1>6 DEF r

\* It keeps the type, what stands elsewhere, and injectivity.
LEMMA RemoveAtKeeps ==
  ASSUME NEW s \in Seq(Id), NEW k \in 1 .. Len(s)
  PROVE  /\ RemoveAt(s, k) \in Seq(Id)
         /\ \A i : Contains(s, i) => i = s[k] \/ Contains(RemoveAt(s, k), i)
         /\ IsInjective(s) => IsInjective(RemoveAt(s, k))
<1> DEFINE r == RemoveAt(s, k)
<1>1. /\ r \in Seq(Id)
      /\ Len(r) = Len(s) - 1
      /\ \A n \in 1 .. Len(s) - 1 : r[n] = IF n < k THEN s[n] ELSE s[n + 1]
  BY RemoveAtIs
<1> HIDE DEF r
<1>2. ASSUME NEW i, Contains(s, i), i # s[k]
      PROVE  Contains(r, i)
  <2>1. PICK n \in 1 .. Len(s) : s[n] = i
    BY <1>2 DEF Contains
  <2>2. CASE n < k
    BY <1>1, <2>1, <2>2 DEF Contains
  <2>3. CASE n > k
    <3>1. n - 1 \in 1 .. Len(r) /\ r[n - 1] = i
      BY <1>1, <2>1, <2>3
    <3> QED BY <3>1 DEF Contains
  <2> QED BY <1>2, <2>1, <2>2, <2>3
<1>3. ASSUME IsInjective(s)
      PROVE  IsInjective(r)
  <2> SUFFICES ASSUME NEW m \in 1 .. Len(r), NEW n \in 1 .. Len(r), r[m] = r[n]
               PROVE  m = n
    BY <1>1, LenProperties DEF IsInjective
  <2>1. DOMAIN s = 1 .. Len(s) /\ Len(r) = Len(s) - 1 /\ Len(s) \in Nat
    BY <1>1, LenProperties
  <2>2. \A a, b \in 1 .. Len(s) : s[a] = s[b] => a = b
    BY <1>3, <2>1 DEF IsInjective
  <2> DEFINE a == IF m < k THEN m ELSE m + 1
             b == IF n < k THEN n ELSE n + 1
  <2>3. /\ a \in 1 .. Len(s) /\ r[m] = s[a]
        /\ b \in 1 .. Len(s) /\ r[n] = s[b]
    BY <1>1, <2>1
  <2>4. a = b
    BY <2>2, <2>3
  <2> QED BY <2>1, <2>4
<1> QED BY <1>1, <1>2, <1>3 DEF r

LEMMA RemoveFirstKeeps ==
  ASSUME NEW s \in Seq(Id), NEW e
  PROVE  /\ RemoveFirst(s, e) \in Seq(Id)
         /\ \A i : Contains(s, i) /\ i # e => Contains(RemoveFirst(s, e), i)
         /\ IsInjective(s) => IsInjective(RemoveFirst(s, e))
<1> DEFINE I == {n \in 1 .. Len(s) : s[n] = e}
<1>1. CASE I = {}
  <2>1. RemoveFirst(s, e) = s
    BY <1>1 DEF RemoveFirst
  <2> QED BY <2>1
<1>2. CASE I # {}
  <2>1. Min(I) \in I
    <3>1. I \in SUBSET Nat
      OBVIOUS
    <3> HIDE DEF I
    <3> QED BY <1>2, <3>1, FirstPosition
  <2>2. RemoveFirst(s, e) = RemoveAt(s, Min(I))
    BY <1>2 DEF RemoveFirst, SelectInSeq
  <2> HIDE DEF I
  <2>3. Min(I) \in 1 .. Len(s) /\ s[Min(I)] = e
    BY <2>1 DEF I
  <2> QED BY <2>2, <2>3, RemoveAtKeeps
<1> QED BY <1>1, <1>2

-----------------------------------------------------------------------------
\* Nothing is stored and nothing runs.
LEMMA StoreInitEstablishes ==
  StoreInit => StoreInv
<1> SUFFICES ASSUME StoreInit PROVE StoreInv
  OBVIOUS
<1>1. StoreTypeOK
  BY DEF StoreInit, StoreTypeOK, StorageOp
<1> QED BY <1>1, EmptyIsInjective
  DEF StoreInit, StoreInv, Awaiting, Running, StorageOp, Exclusive, Bodies, BodyWritten,
      Removing, PendingIsASet, StorePending, DeletePending, ClearPending,
      GetAllPending, IndexIsASet, KeptIsStored, OrphansAreCutOff

-----------------------------------------------------------------------------
\* One lemma per action: it preserves the invariant.

LEMMA NobodyWrites ==
  ASSUME Awaiting, NEW methods, "none" \notin methods, ~Writing(methods)
  PROVE  \A p \in Operation : method[p] \notin methods
BY DEF Awaiting, Writing

LEMMA BeginStorePreserves ==
  ASSUME StoreInv, NEW o \in Operation, NEW i \in Id, BeginStore(o, i)
  PROVE  StoreInv'
<1> USE DEF BeginStore, Begin, storageVars, StoreInv
<1>1. StoreTypeOK'
  BY EmptySeq DEF StoreTypeOK, StorageOp
<1>2. \A p \in Operation : method[p] \notin {"store", "delete", "clear"}
  BY NobodyWrites
<1>3. Awaiting'
  BY DEF StoreTypeOK, Awaiting, Running, StorageOp
<1>4. Exclusive'
  BY <1>2 DEF StoreTypeOK, Exclusive
<1>5. Bodies' /\ Removing'
  BY <1>2 DEF StoreTypeOK, Bodies, Removing, BodyWritten
<1>6. PendingIsASet' /\ StorePending' /\ DeletePending' /\ ClearPending'
  BY DEF StoreTypeOK, PendingIsASet, StorePending, DeletePending, ClearPending
<1>7. GetAllPending'
  BY DEF StoreTypeOK, GetAllPending
<1>8. IndexIsASet' /\ KeptIsStored' /\ OrphansAreCutOff'
  BY <1>2 DEF StoreTypeOK, IndexIsASet, KeptIsStored, OrphansAreCutOff, BodyWritten
<1> QED BY <1>1, <1>3, <1>4, <1>5, <1>6, <1>7, <1>8

LEMMA BeginGetAllPreserves ==
  ASSUME StoreInv, NEW o \in Operation, BeginGetAll(o)
  PROVE  StoreInv'
<1> USE DEF BeginGetAll, Begin, storageVars, StoreInv
<1>1. StoreTypeOK'
  BY EmptySeq DEF StoreTypeOK, StorageOp
<1>2. method[o] = "none"
  BY DEF Awaiting
<1>3. Awaiting'
  BY DEF StoreTypeOK, Awaiting, Running, StorageOp
<1>4. Exclusive'
  BY DEF StoreTypeOK, Exclusive
<1>5. Bodies' /\ Removing'
  BY <1>2 DEF StoreTypeOK, Bodies, Removing, BodyWritten
<1>6. PendingIsASet' /\ StorePending' /\ DeletePending' /\ ClearPending'
  BY DEF StoreTypeOK, PendingIsASet, StorePending, DeletePending, ClearPending
<1>7. GetAllPending'
  BY DEF StoreTypeOK, GetAllPending
<1>8. IndexIsASet' /\ KeptIsStored' /\ OrphansAreCutOff'
  BY <1>2 DEF StoreTypeOK, IndexIsASet, KeptIsStored, OrphansAreCutOff, BodyWritten
<1> QED BY <1>1, <1>3, <1>4, <1>5, <1>6, <1>7, <1>8

LEMMA BeginDeletePreserves ==
  ASSUME StoreInv, NEW o \in Operation, NEW i \in Id, BeginDelete(o, i)
  PROVE  StoreInv'
<1> USE DEF BeginDelete, Begin, storageVars, StoreInv
<1>1. StoreTypeOK'
  BY EmptySeq DEF StoreTypeOK, StorageOp
<1>2. \A p \in Operation : method[p] \notin {"store", "clear"}
  BY NobodyWrites
<1>3. Awaiting'
  BY DEF StoreTypeOK, Awaiting, Running, StorageOp
<1>4. Exclusive'
  BY <1>2 DEF StoreTypeOK, Exclusive
<1>5. Bodies' /\ Removing'
  BY <1>2 DEF StoreTypeOK, Bodies, Removing, BodyWritten
<1>6. PendingIsASet' /\ StorePending' /\ DeletePending' /\ ClearPending'
  BY <1>2 DEF StoreTypeOK, PendingIsASet, StorePending, DeletePending, ClearPending
<1>7. GetAllPending'
  BY DEF StoreTypeOK, GetAllPending
<1>8. IndexIsASet' /\ KeptIsStored' /\ OrphansAreCutOff'
  BY <1>2 DEF StoreTypeOK, IndexIsASet, KeptIsStored, OrphansAreCutOff, BodyWritten
<1> QED BY <1>1, <1>3, <1>4, <1>5, <1>6, <1>7, <1>8

LEMMA BeginClearPreserves ==
  ASSUME StoreInv, NEW o \in Operation, BeginClear(o)
  PROVE  StoreInv'
<1> USE DEF BeginClear, Begin, storageVars, StoreInv
<1>1. StoreTypeOK'
  BY EmptySeq DEF StoreTypeOK, StorageOp
<1>2. \A p \in Operation : method[p] \notin {"store", "delete", "clear"}
  BY NobodyWrites
<1>3. Awaiting'
  BY DEF StoreTypeOK, Awaiting, Running, StorageOp
<1>4. Exclusive'
  BY <1>2 DEF StoreTypeOK, Exclusive
<1>5. Bodies' /\ Removing'
  BY <1>2 DEF StoreTypeOK, Bodies, Removing, BodyWritten
<1>6. PendingIsASet' /\ StorePending' /\ DeletePending' /\ ClearPending'
  BY <1>2 DEF StoreTypeOK, PendingIsASet, StorePending, DeletePending, ClearPending
<1>7. GetAllPending'
  BY DEF StoreTypeOK, GetAllPending
<1>8. IndexIsASet' /\ KeptIsStored' /\ OrphansAreCutOff'
  BY <1>2 DEF StoreTypeOK, IndexIsASet, KeptIsStored, OrphansAreCutOff, BodyWritten
<1> QED BY <1>1, <1>3, <1>4, <1>5, <1>6, <1>7, <1>8

\* Beside a store or a clear there is no writer; beside a delete, only deletes.
LEMMA Beside ==
  ASSUME Exclusive, NEW o \in Operation, NEW p \in Operation, p # o
  PROVE  /\ method[o] \in {"store", "clear"} =>
              method[p] \notin {"store", "delete", "clear"}
         /\ method[o] = "delete" => method[p] \notin {"store", "clear"}
BY DEF Exclusive

LEMMA WriteBodyPreserves ==
  ASSUME StoreInv, NEW o \in Operation, WriteBody(o)
  PROVE  StoreInv'
<1> USE DEF WriteBody, Await, historyVars, StoreInv
<1>1. /\ method[o] = "store" /\ id[o] \in Id
      /\ \A p \in Operation \ {o} : method[p] \notin {"store", "delete", "clear"}
  BY Beside DEF Awaiting
<1>2. StoreTypeOK'
  BY <1>1 DEF StoreTypeOK, StorageOp
<1>3. Awaiting' /\ Exclusive'
  BY <1>1 DEF StoreTypeOK, Awaiting, Exclusive, Running, StorageOp
<1>4. Bodies' /\ Removing'
  BY <1>1 DEF StoreTypeOK, Bodies, Removing, BodyWritten
<1>5. PendingIsASet' /\ StorePending' /\ DeletePending' /\ ClearPending'
  BY <1>1 DEF StoreTypeOK, PendingIsASet, StorePending, DeletePending, ClearPending
<1>6. GetAllPending'
  BY <1>1 DEF StoreTypeOK, GetAllPending
<1>7. IndexIsASet' /\ KeptIsStored'
  BY <1>1 DEF StoreTypeOK, IndexIsASet, KeptIsStored
<1>8. OrphansAreCutOff'
  BY <1>1 DEF StoreTypeOK, OrphansAreCutOff, BodyWritten
<1> QED BY <1>2, <1>3, <1>4, <1>5, <1>6, <1>7, <1>8

\* A store returns: the index already had the id, or has it now.
LEMMA ReturnStoredPreserves ==
  ASSUME StoreInv, NEW o \in Operation, BodyWritten(o), ReturnStored(o),
         UNCHANGED body, index' \in Seq(Id), IsInjective(index'),
         Contains(index', id[o]),
         \A i \in Id : Contains(index, i) => Contains(index', i)
  PROVE  StoreInv'
<1> USE DEF ReturnStored, Return, StoreInv
<1>1. /\ method[o] = "store" /\ id[o] \in Id /\ id[o] \in body
      /\ \A p \in Operation \ {o} : method[p] \notin {"store", "delete", "clear"}
  BY Beside DEF Awaiting, Bodies, BodyWritten
<1>2. StoreTypeOK'
  BY <1>1, EmptySeq DEF StoreTypeOK, StorageOp
<1>3. Awaiting'
  BY <1>1 DEF StoreTypeOK, Awaiting, Running, StorageOp
<1>9. Exclusive'
  BY <1>1 DEF StoreTypeOK, Exclusive
<1>4. Bodies' /\ Removing'
  BY <1>1 DEF StoreTypeOK, Bodies, Removing, BodyWritten
<1>5. PendingIsASet' /\ StorePending' /\ DeletePending' /\ ClearPending'
  BY <1>1 DEF StoreTypeOK, Awaiting, PendingIsASet, StorePending, DeletePending,
              ClearPending
<1>6. GetAllPending'
  BY <1>1 DEF StoreTypeOK, GetAllPending
<1>7. IndexIsASet' /\ KeptIsStored'
  BY <1>1 DEF StoreTypeOK, IndexIsASet, KeptIsStored
<1>8. OrphansAreCutOff'
  <2>1. \A i \in body : i = id[o] \/ Contains(index, i) \/ i \in cutOff
    BY <1>1 DEF OrphansAreCutOff, BodyWritten
  <2>2. \A i \in body : Contains(index', i) \/ i \in cutOff'
    BY <2>1 DEF StoreTypeOK
  <2> QED BY <2>2 DEF OrphansAreCutOff
<1> QED BY <1>2, <1>3, <1>4, <1>5, <1>6, <1>7, <1>8, <1>9

LEMMA StoreReadsIndexPreserves ==
  ASSUME StoreInv, NEW o \in Operation, StoreReadsIndex(o)
  PROVE  StoreInv'
<1> USE DEF StoreReadsIndex, storageVars
<1>1. CASE Contains(index, id[o])
  BY <1>1, ReturnStoredPreserves DEF BodyWritten, StoreInv, StoreTypeOK, IndexIsASet
<1>2. CASE ~Contains(index, id[o])
  <2> USE DEF Await, historyVars, StoreInv
  <2>1. /\ method[o] = "store" /\ id[o] \in Id /\ id[o] \in body
        /\ op' = [op EXCEPT ![o] = "write index"]
        /\ todo' = [todo EXCEPT ![o] = Append(index, id[o])]
        /\ \A p \in Operation \ {o} : method[p] \notin {"store", "delete", "clear"}
    BY <1>2, Beside DEF Awaiting, Bodies, BodyWritten
  <2>2. /\ Append(index, id[o]) \in Seq(Id)
        /\ IsInjective(Append(index, id[o]))
        /\ Contains(Append(index, id[o]), id[o])
        /\ \A i \in Id : Contains(index, i) => Contains(Append(index, id[o]), i)
    <3>1. index \in Seq(Id) /\ IsInjective(index) /\ ~Contains(index, id[o])
      BY <1>2 DEF StoreTypeOK, IndexIsASet
    <3> QED BY <2>1, <3>1, ContainsAppend, AppendIsInjective
  <2> HIDE DEF StoreReadsIndex
  <2>u. UNCHANGED <<body, index, method, id, result, kept, cutOff, expected>>
    BY <1>2 DEF StoreReadsIndex
  <2>3. StoreTypeOK'
    BY <2>1, <2>2, <2>u DEF StoreTypeOK, StorageOp
  <2>4. Awaiting' /\ Exclusive'
    BY <2>1, <2>u DEF StoreTypeOK, Awaiting, Exclusive, Running, StorageOp
  <2>5. Bodies' /\ Removing'
    BY <2>1, <2>u DEF StoreTypeOK, Bodies, Removing, BodyWritten
  <2>6. PendingIsASet' /\ StorePending' /\ DeletePending' /\ ClearPending'
    BY <2>1, <2>2, <2>u DEF StoreTypeOK, PendingIsASet, StorePending, DeletePending,
                            ClearPending
  <2>7. GetAllPending'
    BY <2>1, <2>u DEF StoreTypeOK, GetAllPending
  <2>8. IndexIsASet' /\ KeptIsStored' /\ OrphansAreCutOff'
    BY <2>1, <2>u, ZenonT(30) DEF StoreTypeOK, IndexIsASet, KeptIsStored, OrphansAreCutOff,
                      BodyWritten
  <2> QED BY <2>3, <2>4, <2>5, <2>6, <2>7, <2>8
<1> QED BY <1>1, <1>2

LEMMA DeleteBodyPreserves ==
  ASSUME StoreInv, NEW o \in Operation, DeleteBody(o)
  PROVE  StoreInv'
<1> USE DEF DeleteBody, Await, historyVars, StoreInv
<1>1. /\ id[o] \notin kept
      /\ \A p \in Operation : method[p] \notin {"store", "clear"}
  BY Beside DEF Removing
<1>2. StoreTypeOK'
  BY DEF StoreTypeOK, StorageOp
<1>3. Awaiting' /\ Exclusive'
  BY DEF StoreTypeOK, Awaiting, Exclusive, Running, StorageOp
<1>4. Bodies' /\ Removing'
  BY <1>1 DEF StoreTypeOK, Bodies, Removing, BodyWritten
<1>5. PendingIsASet' /\ StorePending' /\ DeletePending' /\ ClearPending'
  BY <1>1 DEF StoreTypeOK, PendingIsASet, StorePending, DeletePending, ClearPending
<1>6. GetAllPending'
  BY DEF StoreTypeOK, GetAllPending
<1>7. IndexIsASet' /\ KeptIsStored'
  BY <1>1 DEF StoreTypeOK, IndexIsASet, KeptIsStored
<1>8. OrphansAreCutOff'
  BY <1>1 DEF StoreTypeOK, OrphansAreCutOff, BodyWritten
<1> QED BY <1>2, <1>3, <1>4, <1>5, <1>6, <1>7, <1>8

LEMMA DeleteReadsIndexPreserves ==
  ASSUME StoreInv, NEW o \in Operation, DeleteReadsIndex(o)
  PROVE  StoreInv'
<1> USE DEF DeleteReadsIndex, storageVars, Await, historyVars, StoreInv
<1>1. /\ id[o] \notin kept /\ id[o] \notin body
      /\ \A p \in Operation : method[p] \notin {"store", "clear"}
  BY Beside DEF Removing, Bodies
<1>2. /\ RemoveFirst(index, id[o]) \in Seq(Id)
      /\ IsInjective(RemoveFirst(index, id[o]))
      /\ \A i : Contains(index, i) /\ i # id[o]
                  => Contains(RemoveFirst(index, id[o]), i)
  BY RemoveFirstKeeps DEF StoreTypeOK, IndexIsASet
<1>3. StoreTypeOK'
  BY <1>2 DEF StoreTypeOK, StorageOp
<1>4. Awaiting' /\ Exclusive'
  BY DEF StoreTypeOK, Awaiting, Exclusive, Running, StorageOp
<1>5. Bodies' /\ Removing'
  BY <1>1 DEF StoreTypeOK, Bodies, Removing, BodyWritten
<1>6. /\ \A i \in kept : Contains(RemoveFirst(index, id[o]), i)
      /\ \A i \in body : Contains(RemoveFirst(index, id[o]), i) \/ i \in cutOff
  BY <1>1, <1>2 DEF KeptIsStored, OrphansAreCutOff, BodyWritten
<1>7. PendingIsASet' /\ StorePending' /\ DeletePending' /\ ClearPending'
  BY <1>1, <1>2, <1>6 DEF StoreTypeOK, PendingIsASet, StorePending, DeletePending,
                          ClearPending
<1>8. GetAllPending'
  BY DEF StoreTypeOK, GetAllPending
<1>9. IndexIsASet' /\ KeptIsStored' /\ OrphansAreCutOff'
  BY <1>1 DEF StoreTypeOK, IndexIsASet, KeptIsStored, OrphansAreCutOff, BodyWritten
<1> QED BY <1>3, <1>4, <1>5, <1>7, <1>8, <1>9

LEMMA WriteIndexPreserves ==
  ASSUME StoreInv, NEW o \in Operation, WriteIndex(o)
  PROVE  StoreInv'
<1> USE DEF WriteIndex
<1>1. CASE method[o] = "store"
  <2>1. ReturnStored(o) /\ BodyWritten(o) /\ index' = todo[o] /\ UNCHANGED body
    BY <1>1 DEF BodyWritten
  <2>2. /\ todo[o] \in Seq(Id) /\ IsInjective(todo[o]) /\ Contains(todo[o], id[o])
        /\ \A i \in Id : Contains(index, i) => Contains(todo[o], i)
    BY <1>1 DEF StoreInv, StoreTypeOK, PendingIsASet, StorePending
  <2> QED BY <2>1, <2>2, ReturnStoredPreserves
<1>2. CASE method[o] = "delete"
  <2> USE DEF Return, StoreInv
  <2>1. /\ todo[o] \in Seq(Id) /\ IsInjective(todo[o])
        /\ \A i \in kept : Contains(todo[o], i)
        /\ \A i \in body : Contains(todo[o], i) \/ i \in cutOff
        /\ \A p \in Operation : method[p] \notin {"store", "clear"}
    BY <1>2, Beside DEF StoreTypeOK, PendingIsASet, DeletePending
  <2>2. /\ op' = [op EXCEPT ![o] = "returned"]
        /\ method' = [method EXCEPT ![o] = "none"]
        /\ id' = [id EXCEPT ![o] = NoId]
        /\ todo' = [todo EXCEPT ![o] = <<>>]
        /\ expected' = [expected EXCEPT ![o] = {}]
        /\ index' = todo[o]
        /\ UNCHANGED <<body, result, kept, cutOff>>
    BY <1>2
  <2> HIDE DEF WriteIndex
  <2>3. StoreTypeOK'
    BY <2>1, <2>2, EmptySeq DEF StoreTypeOK, StorageOp
  <2>4. Awaiting' /\ Exclusive'
    BY <2>2, ZenonT(30) DEF StoreTypeOK, Awaiting, Exclusive, Running, StorageOp
  <2>5. Bodies' /\ Removing'
    BY <2>1, <2>2 DEF StoreTypeOK, Bodies, Removing, BodyWritten
  <2>6. PendingIsASet' /\ StorePending' /\ DeletePending' /\ ClearPending'
    BY <2>1, <2>2 DEF StoreTypeOK, PendingIsASet, StorePending, DeletePending,
                      ClearPending
  <2>7. GetAllPending'
    BY <2>2 DEF StoreTypeOK, GetAllPending
  <2>8. IndexIsASet' /\ KeptIsStored' /\ OrphansAreCutOff'
    BY <2>1, <2>2 DEF StoreTypeOK, IndexIsASet, KeptIsStored, OrphansAreCutOff
  <2> QED BY <2>3, <2>4, <2>5, <2>6, <2>7, <2>8
<1> QED BY <1>1, <1>2

LEMMA LoopReadsIndexPreserves ==
  ASSUME StoreInv, NEW o \in Operation, LoopReadsIndex(o)
  PROVE  StoreInv'
<1> USE DEF LoopReadsIndex, storageVars, Await, historyVars, StoreInv
<1>1. StoreTypeOK'
  BY DEF StoreTypeOK, StorageOp
<1>2. Awaiting' /\ Exclusive'
  BY DEF StoreTypeOK, Awaiting, Exclusive, Running, StorageOp
<1>3. Bodies' /\ Removing'
  BY DEF StoreTypeOK, Bodies, Removing, BodyWritten
<1>4. PendingIsASet' /\ StorePending' /\ DeletePending'
  BY DEF StoreTypeOK, PendingIsASet, StorePending, DeletePending
<1>5. ClearPending'
  <2>1. CASE method[o] = "clear"
    <3>1. \A p \in Operation : method[p] # "store"
      BY <2>1, Beside
    <3>2. \A i \in body : Contains(index, i) \/ i \in cutOff
      BY <3>1 DEF OrphansAreCutOff, BodyWritten
    <3> QED BY <2>1, <3>2 DEF StoreTypeOK, ClearPending
  <2>2. CASE method[o] = "getAll"
    BY <2>2 DEF StoreTypeOK, ClearPending
  <2> QED BY <2>1, <2>2
<1>6. GetAllPending'
  BY DEF StoreTypeOK, GetAllPending, KeptIsStored
<1>7. IndexIsASet' /\ KeptIsStored' /\ OrphansAreCutOff'
  BY DEF StoreTypeOK, IndexIsASet, KeptIsStored, OrphansAreCutOff, BodyWritten
<1> QED BY <1>1, <1>2, <1>3, <1>4, <1>5, <1>6, <1>7

LEMMA ReadBodyPreserves ==
  ASSUME StoreInv, NEW o \in Operation, ReadBody(o)
  PROVE  StoreInv'
<1> USE DEF ReadBody, storageVars, historyVars, StoreInv
<1>1. /\ todo[o] \in Seq(Id) /\ todo[o] # <<>> /\ result[o] \in Seq(Id)
      /\ Head(todo[o]) \in Id /\ Tail(todo[o]) \in Seq(Id)
  BY HeadTailProperties DEF StoreTypeOK
<1>2. Append(result[o], Head(todo[o])) \in Seq(Id)
  BY <1>1, ContainsAppend
<1>3. StoreTypeOK'
  BY <1>1, <1>2 DEF StoreTypeOK
<1>4. Awaiting' /\ Exclusive' /\ Bodies' /\ Removing'
  BY DEF StoreTypeOK, Awaiting, Exclusive, Running, Bodies, Removing, BodyWritten
<1>5. PendingIsASet' /\ StorePending' /\ DeletePending' /\ ClearPending'
  BY DEF StoreTypeOK, Awaiting, PendingIsASet, StorePending, DeletePending, ClearPending
<1>6. GetAllPending'
  <2>1. ASSUME NEW i \in expected[o], method[o] = "getAll"
        PROVE  Contains(result'[o], i) \/ Contains(todo'[o], i)
    <3>1. i \in body /\ (Contains(result[o], i) \/ Contains(todo[o], i))
      BY <2>1 DEF GetAllPending, KeptIsStored
    <3>2. todo'[o] = Tail(todo[o])
      BY DEF StoreTypeOK
    <3>3. CASE Contains(result[o], i)
      BY <1>1, <3>3, ContainsAppend DEF StoreTypeOK
    <3>4. CASE i = Head(todo[o])
      BY <1>1, <3>1, <3>4, ContainsAppend DEF StoreTypeOK
    <3> QED BY <1>1, <3>1, <3>2, <3>3, <3>4, ContainsTail
  <2> QED BY <2>1 DEF StoreTypeOK, GetAllPending
<1>7. IndexIsASet' /\ KeptIsStored' /\ OrphansAreCutOff'
  BY DEF IndexIsASet, KeptIsStored, OrphansAreCutOff, BodyWritten
<1> QED BY <1>3, <1>4, <1>5, <1>6, <1>7

LEMMA GetAllReturnsPreserves ==
  ASSUME StoreInv, NEW o \in Operation, GetAllReturns(o)
  PROVE  StoreInv'
<1> USE DEF GetAllReturns, Return, storageVars, StoreInv
<1>1. StoreTypeOK'
  BY EmptySeq DEF StoreTypeOK, StorageOp
<1>2. Awaiting' /\ Exclusive'
  BY ZenonT(30) DEF StoreTypeOK, Awaiting, Exclusive, Running, StorageOp
<1>3. Bodies' /\ Removing'
  BY DEF StoreTypeOK, Bodies, Removing, BodyWritten
<1>4. PendingIsASet' /\ StorePending' /\ DeletePending' /\ ClearPending'
  BY DEF StoreTypeOK, PendingIsASet, StorePending, DeletePending, ClearPending
<1>5. GetAllPending'
  BY DEF StoreTypeOK, GetAllPending
<1>6. IndexIsASet' /\ KeptIsStored' /\ OrphansAreCutOff'
  BY DEF StoreTypeOK, IndexIsASet, KeptIsStored, OrphansAreCutOff, BodyWritten
<1> QED BY <1>1, <1>2, <1>3, <1>4, <1>5, <1>6

LEMMA ClearBodyPreserves ==
  ASSUME StoreInv, NEW o \in Operation, ClearBody(o)
  PROVE  StoreInv'
<1> USE DEF ClearBody, historyVars, StoreInv
<1>1. /\ todo[o] \in Seq(Id) /\ todo[o] # <<>> /\ Tail(todo[o]) \in Seq(Id)
      /\ kept = {}
      /\ \A p \in Operation \ {o} : method[p] \notin {"store", "delete", "clear"}
  BY Beside, HeadTailProperties DEF StoreTypeOK, Removing
<1>2. StoreTypeOK'
  BY <1>1 DEF StoreTypeOK
<1>3. Awaiting' /\ Exclusive' /\ Removing'
  BY DEF StoreTypeOK, Awaiting, Exclusive, Running, Removing
<1>4. Bodies'
  BY <1>1 DEF StoreTypeOK, Bodies, BodyWritten
<1>5. PendingIsASet' /\ StorePending' /\ DeletePending'
  BY <1>1 DEF StoreTypeOK, Awaiting, PendingIsASet, StorePending, DeletePending
<1>6. ClearPending'
  <2>1. \A i \in body' : Contains(Tail(todo[o]), i) \/ i \in cutOff
    BY <1>1, ContainsTail DEF ClearPending
  <2> QED BY <1>1, <2>1 DEF StoreTypeOK, ClearPending
<1>7. GetAllPending'
  BY DEF StoreTypeOK, GetAllPending
<1>8. IndexIsASet' /\ KeptIsStored' /\ OrphansAreCutOff'
  BY <1>1 DEF IndexIsASet, KeptIsStored, OrphansAreCutOff, BodyWritten
<1> QED BY <1>2, <1>3, <1>4, <1>5, <1>6, <1>7, <1>8

LEMMA DeleteIndexPreserves ==
  ASSUME StoreInv, NEW o \in Operation, DeleteIndex(o)
  PROVE  StoreInv'
<1> USE DEF DeleteIndex, Return, StoreInv
<1>1. /\ kept = {}
      /\ \A p \in Operation \ {o} : method[p] \notin {"store", "delete", "clear"}
      /\ \A i \in body : i \in cutOff
  BY Beside, EmptyContainsNothing DEF Removing, ClearPending
<1>2. StoreTypeOK'
  BY EmptySeq DEF StoreTypeOK, StorageOp
<1>3. Awaiting' /\ Exclusive'
  BY ZenonT(30) DEF StoreTypeOK, Awaiting, Exclusive, Running, StorageOp
<1>4. Bodies' /\ Removing'
  BY <1>1 DEF StoreTypeOK, Bodies, Removing, BodyWritten
<1>5. PendingIsASet' /\ StorePending' /\ DeletePending' /\ ClearPending'
  BY <1>1 DEF StoreTypeOK, Awaiting, PendingIsASet, StorePending, DeletePending,
              ClearPending
<1>6. GetAllPending'
  BY DEF StoreTypeOK, GetAllPending
<1>7. IndexIsASet' /\ KeptIsStored' /\ OrphansAreCutOff'
  BY <1>1, EmptyIsInjective DEF IndexIsASet, KeptIsStored, OrphansAreCutOff
<1> QED BY <1>2, <1>3, <1>4, <1>5, <1>6, <1>7

\* Calls that throw, or all of them when the process is killed: what they
\* were about to do is dropped, and a body already written is cut off.
LEMMA StopPreserves ==
  ASSUME StoreInv, NEW stopped \in SUBSET Operation, Stop(stopped),
         \A o \in stopped : Running(o)
  PROVE  StoreInv'
<1> USE DEF Stop, storageVars, StoreInv
<1>1. \A o \in stopped : BodyWritten(o) => id[o] \in Id
  BY DEF Awaiting, BodyWritten
<1>2. StoreTypeOK'
  BY <1>1, EmptySeq DEF StoreTypeOK
<1>3. Awaiting' /\ Exclusive'
  BY DEF StoreTypeOK, Awaiting, Exclusive, Running, StorageOp
<1>4. Bodies' /\ Removing'
  BY DEF StoreTypeOK, Bodies, Removing, BodyWritten
<1>5. PendingIsASet' /\ StorePending' /\ DeletePending' /\ ClearPending'
  BY DEF StoreTypeOK, PendingIsASet, StorePending, DeletePending, ClearPending
<1>6. GetAllPending'
  BY DEF StoreTypeOK, GetAllPending
<1>7. IndexIsASet' /\ KeptIsStored'
  BY DEF IndexIsASet, KeptIsStored
<1>8. OrphansAreCutOff'
  <2> SUFFICES ASSUME NEW i \in body, ~Contains(index, i), i \notin cutOff'
               PROVE  \E o \in Operation : BodyWritten(o)' /\ id'[o] = i
    BY DEF OrphansAreCutOff
  <2>1. PICK o \in Operation : BodyWritten(o) /\ id[o] = i
    BY DEF OrphansAreCutOff
  <2>2. o \notin stopped
    BY <2>1
  <2> QED BY <2>1, <2>2 DEF StoreTypeOK, BodyWritten
<1> QED BY <1>2, <1>3, <1>4, <1>5, <1>6, <1>7, <1>8

-----------------------------------------------------------------------------
LEMMA StoreNextPreserves ==
  StoreInv /\ [StoreNext]_storeVars => StoreInv'
<1> SUFFICES ASSUME StoreInv, [StoreNext]_storeVars PROVE StoreInv'
  OBVIOUS
<1>1. ASSUME NEW o \in Operation, NEW i \in Id, BeginStore(o, i) PROVE StoreInv'
  BY <1>1, BeginStorePreserves
<1>2. ASSUME NEW o \in Operation, NEW i \in Id, BeginDelete(o, i) PROVE StoreInv'
  BY <1>2, BeginDeletePreserves
<1>3. ASSUME NEW o \in Operation, BeginGetAll(o) PROVE StoreInv'
  BY <1>3, BeginGetAllPreserves
<1>4. ASSUME NEW o \in Operation, BeginClear(o) PROVE StoreInv'
  BY <1>4, BeginClearPreserves
<1>5. ASSUME NEW o \in Operation, StorageCall(o) PROVE StoreInv'
  BY <1>5, WriteBodyPreserves, StoreReadsIndexPreserves, DeleteBodyPreserves,
     DeleteReadsIndexPreserves, WriteIndexPreserves, LoopReadsIndexPreserves,
     ReadBodyPreserves, GetAllReturnsPreserves, ClearBodyPreserves,
     DeleteIndexPreserves DEF StorageCall
<1>6. ASSUME NEW o \in Operation, StorageThrows(o) PROVE StoreInv'
  BY <1>6, StopPreserves DEF StorageThrows
<1>7. ASSUME Killed PROVE StoreInv'
  <2>1. {o \in Operation : Running(o)} \in SUBSET Operation
    OBVIOUS
  <2> QED BY <1>7, <2>1, StopPreserves DEF Killed
<1>8. CASE UNCHANGED storeVars
  BY <1>8
  DEF storeVars, storageVars, opVars, historyVars, StoreInv, StoreTypeOK, Awaiting, Running,
      Exclusive, Bodies, BodyWritten, Removing, PendingIsASet, StorePending,
      DeletePending, ClearPending, GetAllPending, IndexIsASet, KeptIsStored,
      OrphansAreCutOff
<1> QED BY <1>1, <1>2, <1>3, <1>4, <1>5, <1>6, <1>7, <1>8 DEF StoreNext

LEMMA StoreInvariant ==
  StoreSpec => []StoreInv
<1> QED BY StoreInitEstablishes, StoreNextPreserves, PTL DEF StoreSpec

\* The store's state keeps its types.
THEOREM StoreTyping ==
  StoreSpec => []StoreTypeOK
<1>1. StoreInv => StoreTypeOK
  BY DEF StoreInv
<1> QED BY <1>1, StoreInvariant, PTL

\* The index names a credential once, whatever overlaps and whatever fails:
\* the check before store's append, and the lists the deletes write back.
THEOREM IndexNeverDuplicates ==
  StoreSpec => []IndexIsASet
<1>1. StoreInv => IndexIsASet
  BY DEF StoreInv
<1> QED BY <1>1, StoreInvariant, PTL

\* An acknowledged credential that nobody removes keeps its body and its index
\* entry: deletes that overlap write back stale lists, but none without it.
THEOREM AcknowledgedIsKept ==
  StoreSpec => []KeptIsStored
<1>1. StoreInv => KeptIsStored
  BY DEF StoreInv
<1> QED BY <1>1, StoreInvariant, PTL

\* Only a store that was cut off leaves a body that no index entry leads to.
THEOREM RemovalLeavesNoOrphan ==
  StoreSpec => []OrphansAreCutOff
<1>1. StoreInv => OrphansAreCutOff
  BY DEF StoreInv
<1> QED BY <1>1, StoreInvariant, PTL

\* getAll returns every credential that was kept all along while it ran.
THEOREM GetAllIsComplete ==
  StoreSpec => GetAllMissesNothing
<1> DEFINE Complete ==
      \A o \in Operation :
        method[o] = "getAll" /\ op'[o] = "returned" =>
          \A i \in expected[o] : Contains(result'[o], i)
<1>1. StoreInv /\ [StoreNext]_storeVars => [Complete]_storeVars
  <2> SUFFICES ASSUME StoreInv, StoreNext,
                      NEW o \in Operation, method[o] = "getAll", op'[o] = "returned",
                      NEW i \in expected[o]
               PROVE  Contains(result'[o], i)
    OBVIOUS
  <2>1. op[o] # "returned"
    BY DEF StoreInv, Awaiting, Running, StorageOp
  <2>2. \A p \in Operation : \A called, argument, first :
          first # "returned" => ~Begin(p, called, argument, first)
    BY <2>1 DEF StoreInv, StoreTypeOK, Begin
  <2>3. \A stopped : ~Stop(stopped)
    BY <2>1 DEF Stop
  <2>4. PICK p \in Operation : StorageCall(p)
    BY <2>2, <2>3 DEF StoreNext, BeginStore, BeginDelete, BeginGetAll, BeginClear,
                      StorageThrows, Killed
  <2>5. p = o
    BY <2>1, <2>4
    DEF StoreInv, StoreTypeOK, StorageCall, WriteBody, StoreReadsIndex, DeleteBody,
        DeleteReadsIndex, WriteIndex, LoopReadsIndex, ReadBody, GetAllReturns, ClearBody,
        DeleteIndex, Await, Return, ReturnStored
  <2>6. GetAllReturns(o)
    BY <2>1, <2>4, <2>5
    DEF StoreInv, StoreTypeOK, Awaiting, StorageCall, WriteBody, StoreReadsIndex, DeleteBody,
        DeleteReadsIndex, WriteIndex, LoopReadsIndex, ReadBody, ClearBody, DeleteIndex,
        Await
  <2> QED BY <2>6, EmptyContainsNothing DEF StoreInv, GetAllPending, GetAllReturns
<1> QED BY <1>1, StoreInvariant, PTL DEF StoreSpec, GetAllMissesNothing

-----------------------------------------------------------------------------
(***************************************************************************)
(* The card list.  First what its list operations do, for lists of any     *)
(* length: Where is a recursive function, so what it returns is proved by  *)
(* induction on how much of the list has been taken.                       *)
(***************************************************************************)
\* The form in which a statement about every number is proved.
LEMMA ByInduction ==
  ASSUME NEW S \in SUBSET Nat, 0 \in S, \A k \in S : k + 1 \in S
  PROVE  S = Nat
<1> DEFINE T == Nat \ S
<1> SUFFICES ASSUME T # {} PROVE FALSE
  OBVIOUS
<1>1. \E m \in T : \A n \in T : ~ <<n, m>> \in OpToRel(<, Nat)
  BY NatLessThanWellFounded, WFMin
<1>2. PICK m \in T : \A n \in T : ~ n < m
  BY <1>1 DEF OpToRel
<1>3. m # 0 /\ m - 1 \in S
  BY <1>2
<1> QED BY <1>3

\* What the first n elements contribute, as Where takes them.
Take(taken, e, S) == IF e \in S THEN Append(taken, e) ELSE taken
TakenUpTo(f, s, S, m) ==
  f = [n \in 0 .. m |-> IF n = 0 THEN <<>> ELSE Take(f[n - 1], s[n], S)]

\* The recursion has a solution, for a list of any length.
LEMMA TakingIsDefined ==
  ASSUME NEW s, NEW S
  PROVE  \A m \in Nat : \E f : TakenUpTo(f, s, S, m)
<1> DEFINE N == {m \in Nat : \E f : TakenUpTo(f, s, S, m)}
<1>1. 0 \in N
  <2>1. TakenUpTo([n \in 0 .. 0 |-> <<>>], s, S, 0)
    BY DEF TakenUpTo
  <2> QED BY <2>1
<1>2. ASSUME NEW k \in N PROVE k + 1 \in N
  <2>1. PICK f : TakenUpTo(f, s, S, k)
    OBVIOUS
  <2> DEFINE g == [n \in 0 .. k + 1 |-> IF n = k + 1 THEN Take(f[k], s[k + 1], S)
                                        ELSE f[n]]
             h == [n \in 0 .. k + 1 |-> IF n = 0 THEN <<>> ELSE Take(g[n - 1], s[n], S)]
  <2>2. ASSUME NEW n \in 0 .. k + 1 PROVE g[n] = h[n]
    <3>1. CASE n = 0
      BY <2>1, <3>1 DEF TakenUpTo
    <3>2. CASE n = k + 1
      BY <3>2
    <3>3. CASE n \in 1 .. k
      <4>1. g[n] = f[n] /\ g[n - 1] = f[n - 1]
        BY <3>3
      <4>2. f[n] = Take(f[n - 1], s[n], S)
        BY <2>1, <3>3 DEF TakenUpTo
      <4> QED BY <3>3, <4>1, <4>2
    <3> QED BY <3>1, <3>2, <3>3
  <2>3. g = h
    <3> HIDE DEF h
    <3>1. h = [n \in 0 .. k + 1 |-> h[n]]
      BY DEF h
    <3> QED BY <2>2, <3>1
  <2> HIDE DEF g
  <2>4. TakenUpTo(g, s, S, k + 1)
    BY <2>3 DEF TakenUpTo
  <2> QED BY <2>4
<1> HIDE DEF N
<1>3. N \in SUBSET Nat
  BY DEF N
<1>4. N = Nat
  BY <1>1, <1>2, <1>3, ByInduction
<1> QED BY <1>4 DEF N

LEMMA WhereIsTaken ==
  ASSUME NEW s, NEW S, Len(s) \in Nat
  PROVE  \E f : TakenUpTo(f, s, S, Len(s)) /\ Where(s, S) = f[Len(s)]
<1> DEFINE f == CHOOSE f : TakenUpTo(f, s, S, Len(s))
<1>1. TakenUpTo(f, s, S, Len(s))
  BY TakingIsDefined
<1>2. Where(s, S) = f[Len(s)]
  BY DEF Where, TakenUpTo, Take
<1> QED BY <1>1, <1>2

\* w is the elements of s[1 .. n] that are in S: h says from where each of them is.
Selects(w, s, S, n) ==
  \E h \in [1 .. Len(w) -> 1 .. n] :
    /\ \A i \in 1 .. Len(w) : w[i] = s[h[i]]
    /\ \A i, j \in 1 .. Len(w) : i < j => h[i] < h[j]
    /\ \A k \in 1 .. n : s[k] \in S <=> \E i \in 1 .. Len(w) : h[i] = k

LEMMA SelectedSoFar ==
  ASSUME NEW T, NEW s \in Seq(T), NEW S, NEW f, TakenUpTo(f, s, S, Len(s)),
         NEW n \in 0 .. Len(s)
  PROVE  f[n] \in Seq(T) /\ Len(f[n]) <= n /\ Selects(f[n], s, S, n)
<1> DEFINE P(k) == f[k] \in Seq(T) /\ Len(f[k]) <= k /\ Selects(f[k], s, S, k)
           N == {k \in Nat : k <= Len(s) => P(k)}
<1>1. 0 \in N
  <2> DEFINE w == f[0]
             h == [i \in {} |-> 0]
  <2>1. w = <<>>
    BY DEF TakenUpTo
  <2>2. w \in Seq(T) /\ Len(w) = 0
    BY <2>1
  <2>3. 1 .. Len(w) = {} /\ 1 .. 0 = {}
    BY <2>2
  <2>4. h \in [{} -> {}]
    OBVIOUS
  <2> HIDE DEF w, h
  <2>5. Selects(w, s, S, 0)
    BY <2>3, <2>4 DEF Selects
  <2>6. P(0)
    BY <2>2, <2>5 DEF w
  <2> QED BY <2>6
<1>2. ASSUME NEW k \in N PROVE k + 1 \in N
  <2> SUFFICES ASSUME k + 1 <= Len(s) PROVE P(k + 1)
    OBVIOUS
  <2> DEFINE v == f[k]
             w == f[k + 1]
             e == s[k + 1]
  <2>1. k \in Nat /\ v \in Seq(T) /\ Len(v) <= k /\ Len(v) \in Nat /\ e \in T
    OBVIOUS
  <2>2. w = IF e \in S THEN Append(v, e) ELSE v
    <3>1. w = Take(v, e, S)
      BY DEF TakenUpTo
    <3> QED BY <3>1 DEF Take
  <2>3. PICK h \in [1 .. Len(v) -> 1 .. k] :
          /\ \A i \in 1 .. Len(v) : v[i] = s[h[i]]
          /\ \A i, j \in 1 .. Len(v) : i < j => h[i] < h[j]
          /\ \A m \in 1 .. k : s[m] \in S <=> \E i \in 1 .. Len(v) : h[i] = m
    BY DEF Selects
  <2> HIDE DEF v, w, e
  <2>4. CASE e \in S
    <3>1. /\ w \in Seq(T) /\ Len(w) = Len(v) + 1 /\ w[Len(v) + 1] = e
          /\ \A i \in 1 .. Len(v) : w[i] = v[i]
      BY <2>1, <2>2, <2>4, AppendProperties
    <3> DEFINE g == [i \in 1 .. Len(w) |-> IF i = Len(w) THEN k + 1 ELSE h[i]]
    <3>2. g \in [1 .. Len(w) -> 1 .. k + 1]
      BY <2>1, <3>1
    <3>3. \A i \in 1 .. Len(w) : w[i] = s[g[i]]
      BY <2>1, <2>3, <3>1 DEF e
    <3>4. ASSUME NEW i \in 1 .. Len(w), NEW j \in 1 .. Len(w), i < j PROVE g[i] < g[j]
      <4>1. i \in 1 .. Len(v) /\ g[i] = h[i] /\ h[i] \in 1 .. k
        BY <2>1, <3>1, <3>4
      <4>2. CASE j = Len(w)
        BY <2>1, <4>1, <4>2
      <4>3. CASE j # Len(w)
        <5>1. j \in 1 .. Len(v) /\ g[j] = h[j]
          BY <2>1, <3>1, <4>3
        <5> QED BY <2>3, <3>4, <4>1, <5>1
      <4> QED BY <4>2, <4>3
    <3>5. ASSUME NEW m \in 1 .. k + 1
          PROVE  s[m] \in S <=> \E i \in 1 .. Len(w) : g[i] = m
      <4>1. CASE m = k + 1
        <5>1. s[m] \in S
          BY <2>4, <4>1 DEF e
        <5>2. Len(w) \in 1 .. Len(w) /\ g[Len(w)] = m
          BY <2>1, <3>1, <4>1
        <5> QED BY <5>1, <5>2
      <4>2. CASE m \in 1 .. k
        <5>1. s[m] \in S <=> \E i \in 1 .. Len(v) : h[i] = m
          BY <2>3, <4>2
        <5>2. \A i \in 1 .. Len(v) : i \in 1 .. Len(w) /\ g[i] = h[i]
          BY <2>1, <3>1
        <5>3. \A i \in 1 .. Len(w) : i \in 1 .. Len(v) \/ g[i] # m
          BY <2>1, <3>1, <4>2
        <5> QED BY <5>1, <5>2, <5>3
      <4> QED BY <2>1, <4>1, <4>2
    <3> HIDE DEF g
    <3>6. Selects(w, s, S, k + 1)
      BY <3>2, <3>3, <3>4, <3>5 DEF Selects
    <3>7. Len(w) <= k + 1
      BY <2>1, <3>1
    <3> QED BY <3>1, <3>6, <3>7 DEF w
  <2>5. CASE e \notin S
    <3>1. w = v
      BY <2>2, <2>5
    <3>2. h \in [1 .. Len(w) -> 1 .. k + 1]
      BY <2>1, <3>1
    <3>3. ASSUME NEW m \in 1 .. k + 1
          PROVE  s[m] \in S <=> \E i \in 1 .. Len(w) : h[i] = m
      <4>1. CASE m = k + 1
        <5>1. s[m] \notin S
          BY <2>5, <4>1 DEF e
        <5>2. ASSUME NEW i \in 1 .. Len(w) PROVE h[i] # m
          <6>1. h[i] \in 1 .. k
            BY <2>1, <3>1
          <6> QED BY <2>1, <4>1, <6>1
        <5> QED BY <5>1, <5>2
      <4>2. CASE m \in 1 .. k
        BY <2>3, <3>1, <4>2
      <4> QED BY <2>1, <4>1, <4>2
    <3>4. Selects(w, s, S, k + 1)
      BY <2>3, <3>1, <3>2, <3>3 DEF Selects
    <3> QED BY <2>1, <3>1, <3>4 DEF w
  <2> QED BY <2>4, <2>5
<1> HIDE DEF N
<1>3. N \in SUBSET Nat
  BY DEF N
<1>4. N = Nat
  BY <1>1, <1>2, <1>3, ByInduction
<1>5. n \in N
  BY <1>4
<1> QED BY <1>5 DEF N

\* Where returns the elements that are in S, each from a position of its own and in order.
LEMMA WhereSelects ==
  ASSUME NEW T, NEW s \in Seq(T), NEW S
  PROVE  /\ Where(s, S) \in Seq(T)
         /\ Len(Where(s, S)) \in Nat /\ Len(Where(s, S)) <= Len(s)
         /\ Selects(Where(s, S), s, S, Len(s))
<1>1. Len(s) \in Nat
  OBVIOUS
<1>2. PICK f : TakenUpTo(f, s, S, Len(s)) /\ Where(s, S) = f[Len(s)]
  BY <1>1, WhereIsTaken
<1>3. f[Len(s)] \in Seq(T) /\ Len(f[Len(s)]) <= Len(s) /\ Selects(f[Len(s)], s, S, Len(s))
  BY <1>1, <1>2, SelectedSoFar
<1> QED BY <1>2, <1>3, LenProperties

\* In the form in which it is used: what w has, s has, and what two positions of w share
\* is shared by the positions of s they are from.
LEMMA WhereKeeps ==
  ASSUME NEW T, NEW s \in Seq(T), NEW S
  PROVE  /\ \A i \in DOMAIN Where(s, S) : Where(s, S)[i] \in S
         /\ \A k \in DOMAIN s : s[k] \in S => \E i \in DOMAIN Where(s, S) : Where(s, S)[i] = s[k]
         /\ \E h \in [DOMAIN Where(s, S) -> DOMAIN s] :
              \A i, j \in DOMAIN Where(s, S) :
                /\ Where(s, S)[i] = s[h[i]]
                /\ h[i] = h[j] => i = j
<1> DEFINE w == Where(s, S)
<1>1. w \in Seq(T) /\ Selects(w, s, S, Len(s))
  BY WhereSelects
<1>2. DOMAIN w = 1 .. Len(w) /\ DOMAIN s = 1 .. Len(s) /\ Len(w) \in Nat
  BY <1>1, LenProperties
<1> HIDE DEF w
<1>3. PICK h \in [1 .. Len(w) -> 1 .. Len(s)] :
        /\ \A i \in 1 .. Len(w) : w[i] = s[h[i]]
        /\ \A i, j \in 1 .. Len(w) : i < j => h[i] < h[j]
        /\ \A k \in 1 .. Len(s) : s[k] \in S <=> \E i \in 1 .. Len(w) : h[i] = k
  BY <1>1 DEF Selects
<1>4. \A i \in 1 .. Len(w) : w[i] \in S
  BY <1>3
<1>5. \A k \in 1 .. Len(s) : s[k] \in S => \E i \in 1 .. Len(w) : w[i] = s[k]
  BY <1>3
<1>6. ASSUME NEW i \in 1 .. Len(w), NEW j \in 1 .. Len(w), h[i] = h[j] PROVE i = j
  <2>1. i \in Nat /\ j \in Nat /\ h[i] \in Nat /\ h[j] \in Nat
    BY <1>2
  <2>2. ~ i < j /\ ~ j < i
    BY <1>3, <1>6, <2>1
  <2> QED BY <2>1, <2>2
<1>7. \E g \in [1 .. Len(w) -> 1 .. Len(s)] :
        \A i, j \in 1 .. Len(w) : w[i] = s[g[i]] /\ (g[i] = g[j] => i = j)
  BY <1>3, <1>6
<1>8. \E g \in [DOMAIN w -> DOMAIN s] :
        \A i, j \in DOMAIN w : w[i] = s[g[i]] /\ (g[i] = g[j] => i = j)
  BY <1>2, <1>7
<1>9. /\ \A i \in DOMAIN w : w[i] \in S
      /\ \A k \in DOMAIN s : s[k] \in S => \E i \in DOMAIN w : w[i] = s[k]
  BY <1>2, <1>4, <1>5
<1> QED BY <1>8, <1>9, Zenon DEF w

-----------------------------------------------------------------------------
Issuers == {IssuerOf[i] : i \in Id \cup NativeCard}
Group == [title : Issuers, cards : Seq(Card)]

DistinctIds(cards) == \A i, j \in DOMAIN cards : cards[i].id = cards[j].id => i = j

\* EachCardOnce, of any list of groups.
Once(gs) ==
  /\ \A g, h \in DOMAIN gs :
       /\ gs[g].title = gs[h].title => g = h
       /\ \A i \in DOMAIN gs[g].cards, j \in DOMAIN gs[h].cards :
            gs[g].cards[i].id = gs[h].cards[j].id => g = h /\ i = j
  /\ \A g \in DOMAIN gs : \A c \in ToSet(gs[g].cards) : IssuerOf[c.id] = gs[g].title

\* Groups that keep their titles, and of each group some of its cards.
LEMMA OnceOfFewer ==
  ASSUME NEW gs \in Seq(Group), Once(gs), NEW hs \in Seq(Group), DOMAIN hs = DOMAIN gs,
         \A g \in DOMAIN gs :
           /\ hs[g].title = gs[g].title
           /\ \E from \in [DOMAIN hs[g].cards -> DOMAIN gs[g].cards] :
                \A i, j \in DOMAIN hs[g].cards :
                  /\ hs[g].cards[i].id = gs[g].cards[from[i]].id
                  /\ from[i] = from[j] => i = j
  PROVE  Once(hs)
<1>1. ASSUME NEW g \in DOMAIN hs, NEW h \in DOMAIN hs,
             NEW i \in DOMAIN hs[g].cards, NEW j \in DOMAIN hs[h].cards,
             hs[g].cards[i].id = hs[h].cards[j].id
      PROVE  g = h /\ i = j
  <2>1. PICK p \in [DOMAIN hs[g].cards -> DOMAIN gs[g].cards] :
          \A a, b \in DOMAIN hs[g].cards :
            /\ hs[g].cards[a].id = gs[g].cards[p[a]].id
            /\ p[a] = p[b] => a = b
    OBVIOUS
  <2>2. PICK q \in [DOMAIN hs[h].cards -> DOMAIN gs[h].cards] :
          \A a, b \in DOMAIN hs[h].cards :
            /\ hs[h].cards[a].id = gs[h].cards[q[a]].id
            /\ q[a] = q[b] => a = b
    OBVIOUS
  <2>3. p[i] \in DOMAIN gs[g].cards /\ q[j] \in DOMAIN gs[h].cards
    OBVIOUS
  <2>4. gs[g].cards[p[i]].id = gs[h].cards[q[j]].id
    BY <1>1, <2>1, <2>2
  <2>5. g = h /\ p[i] = q[j]
    BY <2>3, <2>4 DEF Once
  <2>6. gs[g].cards[p[i]].id = hs[g].cards[j].id /\ j \in DOMAIN hs[g].cards
    BY <1>1, <2>1, <2>5
  <2>7. p[j] \in DOMAIN gs[g].cards /\ gs[g].cards[p[j]].id = hs[g].cards[j].id
    BY <2>1, <2>6
  <2>8. p[i] = p[j]
    BY <2>3, <2>6, <2>7 DEF Once
  <2> QED BY <2>1, <2>5, <2>6, <2>8
<1>2. ASSUME NEW g \in DOMAIN hs, NEW c \in ToSet(hs[g].cards)
      PROVE  IssuerOf[c.id] = hs[g].title
  <2>1. PICK i \in DOMAIN hs[g].cards : c = hs[g].cards[i]
    BY <1>2 DEF ToSet
  <2>2. PICK p \in [DOMAIN hs[g].cards -> DOMAIN gs[g].cards] :
          \A a \in DOMAIN hs[g].cards : hs[g].cards[a].id = gs[g].cards[p[a]].id
    OBVIOUS
  <2>3. gs[g].cards[p[i]] \in ToSet(gs[g].cards) /\ c.id = gs[g].cards[p[i]].id
    BY <2>1, <2>2 DEF ToSet
  <2> QED BY <2>3 DEF Once
<1>3. ASSUME NEW g \in DOMAIN hs, NEW h \in DOMAIN hs, hs[g].title = hs[h].title
      PROVE  g = h
  BY <1>3 DEF Once
<1> QED BY <1>1, <1>2, <1>3, Zenon DEF Once

\* Groups in another order.
LEMMA OnceInAnyOrder ==
  ASSUME NEW gs \in Seq(Group), Once(gs), NEW hs \in Seq(Group),
         NEW from \in [DOMAIN hs -> DOMAIN gs],
         \A g, h \in DOMAIN hs : hs[g] = gs[from[g]] /\ (from[g] = from[h] => g = h)
  PROVE  Once(hs)
<1>1. ASSUME NEW g \in DOMAIN hs, NEW h \in DOMAIN hs
      PROVE  /\ hs[g].title = hs[h].title => g = h
             /\ \A i \in DOMAIN hs[g].cards, j \in DOMAIN hs[h].cards :
                  hs[g].cards[i].id = hs[h].cards[j].id => g = h /\ i = j
  <2>1. /\ from[g] \in DOMAIN gs /\ from[h] \in DOMAIN gs
        /\ hs[g] = gs[from[g]] /\ hs[h] = gs[from[h]] /\ (from[g] = from[h] => g = h)
    OBVIOUS
  <2> QED BY <2>1 DEF Once
<1>2. ASSUME NEW g \in DOMAIN hs, NEW c \in ToSet(hs[g].cards)
      PROVE  IssuerOf[c.id] = hs[g].title
  <2>1. from[g] \in DOMAIN gs /\ hs[g] = gs[from[g]]
    OBVIOUS
  <2> QED BY <1>2, <2>1 DEF Once
<1> QED BY <1>1, <1>2, Zenon DEF Once

\* Grouping a list that has each card once: every card in the one group of its issuer.
LEMMA GroupedOnce ==
  ASSUME NEW cards \in Seq(Card), DistinctIds(cards)
  PROVE  /\ GroupByIssuer(cards) \in Seq(Group)
         /\ Once(GroupByIssuer(cards))
         /\ \A g \in DOMAIN GroupByIssuer(cards) :
              ToSet(GroupByIssuer(cards)[g].cards) \subseteq ToSet(cards)
<1> DEFINE D == DOMAIN cards
           Issuer(n) == IssuerOf[cards[n].id]
           First == {n \in D : \A m \in 1 .. n - 1 : Issuer(m) # Issuer(n)}
           all == [n \in D |-> n]
           firsts == Where(all, First)
           Of(g) == {c \in ToSet(cards) : IssuerOf[c.id] = Issuer(firsts[g])}
           gs == GroupByIssuer(cards)
<1>1. D = 1 .. Len(cards) /\ Len(cards) \in Nat /\ all \in Seq(D)
  OBVIOUS
<1>2. \A n \in D : cards[n] \in Card /\ Issuer(n) \in Issuers /\ cards[n] \in ToSet(cards)
  <2> SUFFICES ASSUME NEW n \in D
               PROVE  cards[n] \in Card /\ Issuer(n) \in Issuers /\ cards[n] \in ToSet(cards)
    OBVIOUS
  <2>1. cards[n] \in Card /\ cards[n] \in ToSet(cards)
    BY <1>1 DEF ToSet
  <2>2. cards[n].id \in Id \cup NativeCard
    BY <2>1 DEF Card
  <2> QED BY <2>1, <2>2 DEF Issuers
<1>3. gs = [g \in DOMAIN firsts |-> [title |-> Issuer(firsts[g]), cards |-> Where(cards, Of(g))]]
  BY DEF GroupByIssuer
<1> HIDE DEF gs, firsts
<1>4. /\ firsts \in Seq(D) /\ Len(firsts) \in Nat
      /\ \A g \in DOMAIN firsts : firsts[g] \in First
      /\ \E h \in [DOMAIN firsts -> DOMAIN all] :
           \A i, j \in DOMAIN firsts : firsts[i] = all[h[i]] /\ (h[i] = h[j] => i = j)
  <2> HIDE DEF all, D, First
  <2>1. Where(all, First) \in Seq(D) /\ Len(Where(all, First)) \in Nat
    BY <1>1, WhereSelects
  <2>2. /\ \A g \in DOMAIN Where(all, First) : Where(all, First)[g] \in First
        /\ \E h \in [DOMAIN Where(all, First) -> DOMAIN all] :
             \A i, j \in DOMAIN Where(all, First) :
               Where(all, First)[i] = all[h[i]] /\ (h[i] = h[j] => i = j)
    BY <1>1, WhereKeeps
  <2> QED BY <2>1, <2>2 DEF firsts
<1>5. \A g, h \in DOMAIN firsts : firsts[g] = firsts[h] => g = h
  <2>1. PICK h \in [DOMAIN firsts -> D] :
          \A i, j \in DOMAIN firsts : firsts[i] = all[h[i]] /\ (h[i] = h[j] => i = j)
    BY <1>4
  <2>2. \A i \in DOMAIN firsts : firsts[i] = h[i]
    BY <2>1
  <2> QED BY <2>1, <2>2
<1>6. DOMAIN firsts = 1 .. Len(firsts) /\ DOMAIN gs = DOMAIN firsts
  BY <1>3, <1>4
<1>7. ASSUME NEW g \in DOMAIN firsts, NEW h \in DOMAIN firsts,
             Issuer(firsts[g]) = Issuer(firsts[h])
      PROVE  g = h
  <2>1. firsts[g] \in First /\ firsts[h] \in First
    BY <1>4
  <2>2. firsts[g] \in Nat /\ firsts[h] \in Nat /\ 1 <= firsts[g] /\ 1 <= firsts[h]
    BY <1>1, <2>1
  <2>3. ~ firsts[g] < firsts[h]
    <3>1. SUFFICES ASSUME firsts[g] < firsts[h] PROVE FALSE
      OBVIOUS
    <3>2. firsts[g] \in 1 .. firsts[h] - 1
      BY <2>2, <3>1
    <3> QED BY <1>7, <2>1, <3>2
  <2>4. ~ firsts[h] < firsts[g]
    <3>1. SUFFICES ASSUME firsts[h] < firsts[g] PROVE FALSE
      OBVIOUS
    <3>2. firsts[h] \in 1 .. firsts[g] - 1
      BY <2>2, <3>1
    <3> QED BY <1>7, <2>1, <3>2
  <2> QED BY <1>5, <2>2, <2>3, <2>4
<1>8. ASSUME NEW g \in DOMAIN firsts
      PROVE  /\ gs[g].title = Issuer(firsts[g]) /\ gs[g].cards = Where(cards, Of(g))
             /\ gs[g] \in Group
             /\ \A i \in DOMAIN gs[g].cards : gs[g].cards[i] \in Of(g)
             /\ \E from \in [DOMAIN gs[g].cards -> D] :
                  \A i, j \in DOMAIN gs[g].cards :
                    /\ gs[g].cards[i] = cards[from[i]]
                    /\ from[i] = from[j] => i = j
  <2>1. gs[g] = [title |-> Issuer(firsts[g]), cards |-> Where(cards, Of(g))]
    BY <1>3
  <2>2. Issuer(firsts[g]) \in Issuers
    BY <1>2, <1>4
  <2> HIDE DEF Of
  <2>6. Where(cards, Of(g)) \in Seq(Card)
    BY WhereSelects
  <2>3. /\ \A i \in DOMAIN Where(cards, Of(g)) : Where(cards, Of(g))[i] \in Of(g)
        /\ \E from \in [DOMAIN Where(cards, Of(g)) -> D] :
             \A i, j \in DOMAIN Where(cards, Of(g)) :
               /\ Where(cards, Of(g))[i] = cards[from[i]]
               /\ from[i] = from[j] => i = j
    BY WhereKeeps
  <2>4. gs[g].title = Issuer(firsts[g]) /\ gs[g].cards = Where(cards, Of(g))
    BY <2>1
  <2>5. gs[g] \in Group
    BY <2>1, <2>2, <2>6 DEF Group
  <2> QED BY <2>3, <2>4, <2>5
<1>14. \A g \in DOMAIN gs : g \in DOMAIN firsts /\ gs[g].title = Issuer(firsts[g])
  BY <1>6, <1>8
<1>9. gs \in Seq(Group)
  <2>1. DOMAIN gs = 1 .. Len(firsts)
    BY <1>6
  <2>2. \A g \in 1 .. Len(firsts) : gs[g] \in Group
    BY <1>6, <1>8
  <2>3. gs = [g \in 1 .. Len(firsts) |-> gs[g]]
    BY <1>3, <1>6
  <2> QED BY <1>4, <2>2, <2>3
<1>10. ASSUME NEW g \in DOMAIN gs, NEW c \in ToSet(gs[g].cards)
       PROVE  c \in ToSet(cards) /\ IssuerOf[c.id] = gs[g].title
  <2>1. PICK i \in DOMAIN gs[g].cards : c = gs[g].cards[i]
    BY <1>10 DEF ToSet
  <2>2. g \in DOMAIN firsts
    BY <1>6
  <2>3. c \in Of(g) /\ gs[g].title = Issuer(firsts[g])
    BY <1>8, <2>1, <2>2
  <2> QED BY <2>3
<1>11. ASSUME NEW g \in DOMAIN gs, NEW h \in DOMAIN gs,
              NEW i \in DOMAIN gs[g].cards, NEW j \in DOMAIN gs[h].cards,
              gs[g].cards[i].id = gs[h].cards[j].id
       PROVE  g = h /\ i = j
  <2>1. gs[g].cards[i] \in ToSet(gs[g].cards) /\ gs[h].cards[j] \in ToSet(gs[h].cards)
    BY DEF ToSet
  <2>2. gs[g].title = gs[h].title
    BY <1>10, <1>11, <2>1
  <2>3. g = h
    BY <1>7, <1>14, <2>2
  <2>4. PICK from \in [DOMAIN gs[g].cards -> D] :
          \A a, b \in DOMAIN gs[g].cards :
            /\ gs[g].cards[a] = cards[from[a]]
            /\ from[a] = from[b] => a = b
    <3>1. g \in DOMAIN firsts
      BY <1>6
    <3> QED BY <1>8, <3>1
  <2>5. from[i] \in D /\ from[j] \in D /\ cards[from[i]].id = cards[from[j]].id
    BY <1>11, <2>3, <2>4
  <2> QED BY <2>3, <2>4, <2>5 DEF DistinctIds
<1>12. \A g, h \in DOMAIN gs : gs[g].title = gs[h].title => g = h
  BY <1>7, <1>14
<1> HIDE DEF Issuer
<1>13. Once(gs)
  BY <1>10, <1>11, <1>12, Zenon DEF Once
<1> QED BY <1>9, <1>10, <1>13 DEF gs

\* deleteCard takes cards away and nothing else.
LEMMA RemovedOnce ==
  ASSUME NEW titles, groups \in Seq(Group), Once(groups)
  PROVE  /\ RemoveTitled(titles) \in Seq(Group)
         /\ Once(RemoveTitled(titles))
         /\ DOMAIN RemoveTitled(titles) = DOMAIN groups
         /\ \A g \in DOMAIN groups : \A c \in ToSet(RemoveTitled(titles)[g].cards) :
              c \in ToSet(groups[g].cards) /\ TitleOf[c.id] \notin titles
<1> DEFINE hs == RemoveTitled(titles)
           Left == {c \in Cards : TitleOf[c.id] \notin titles}
<1>1. hs = [g \in DOMAIN groups |-> [groups[g] EXCEPT !.cards = Where(@, Left)]]
  BY DEF RemoveTitled
<1> HIDE DEF hs, Left
<1>2. DOMAIN groups = 1 .. Len(groups) /\ Len(groups) \in Nat /\ DOMAIN hs = DOMAIN groups
  BY <1>1
<1>3. ASSUME NEW g \in DOMAIN groups
      PROVE  /\ hs[g] \in Group /\ hs[g].title = groups[g].title
             /\ \A i \in DOMAIN hs[g].cards : hs[g].cards[i] \in Left
             /\ \E from \in [DOMAIN hs[g].cards -> DOMAIN groups[g].cards] :
                  \A i, j \in DOMAIN hs[g].cards :
                    /\ hs[g].cards[i] = groups[g].cards[from[i]]
                    /\ from[i] = from[j] => i = j
  <2> DEFINE s == groups[g].cards
  <2>1. groups[g] \in Group /\ s \in Seq(Card)
    <3>1. groups[g] \in Group
      BY <1>2
    <3> QED BY <3>1 DEF Group
  <2>2. hs[g] = [groups[g] EXCEPT !.cards = Where(s, Left)]
    BY <1>1
  <2> HIDE DEF s
  <2>3. Where(s, Left) \in Seq(Card)
    BY <2>1, WhereSelects
  <2>4. /\ \A i \in DOMAIN Where(s, Left) : Where(s, Left)[i] \in Left
        /\ \E from \in [DOMAIN Where(s, Left) -> DOMAIN s] :
             \A i, j \in DOMAIN Where(s, Left) :
               /\ Where(s, Left)[i] = s[from[i]]
               /\ from[i] = from[j] => i = j
    BY <2>1, WhereKeeps
  <2>5. hs[g] \in Group /\ hs[g].title = groups[g].title /\ hs[g].cards = Where(s, Left)
    BY <2>1, <2>2, <2>3 DEF Group
  <2> QED BY <2>4, <2>5 DEF s
<1>4. hs \in Seq(Group)
  BY <1>1, <1>2, <1>3
<1>5. \A g \in DOMAIN groups :
        /\ hs[g].title = groups[g].title
        /\ \E from \in [DOMAIN hs[g].cards -> DOMAIN groups[g].cards] :
             \A i, j \in DOMAIN hs[g].cards :
               /\ hs[g].cards[i].id = groups[g].cards[from[i]].id
               /\ from[i] = from[j] => i = j
  <2> SUFFICES ASSUME NEW g \in DOMAIN groups
               PROVE  \E from \in [DOMAIN hs[g].cards -> DOMAIN groups[g].cards] :
                        \A i, j \in DOMAIN hs[g].cards :
                          /\ hs[g].cards[i].id = groups[g].cards[from[i]].id
                          /\ from[i] = from[j] => i = j
    BY <1>3
  <2>1. PICK from \in [DOMAIN hs[g].cards -> DOMAIN groups[g].cards] :
             \A i, j \in DOMAIN hs[g].cards :
               /\ hs[g].cards[i] = groups[g].cards[from[i]]
               /\ from[i] = from[j] => i = j
    BY <1>3
  <2> QED BY <2>1
<1>6. Once(hs)
  BY <1>2, <1>4, <1>5, OnceOfFewer
<1>7. ASSUME NEW g \in DOMAIN groups, NEW c \in ToSet(hs[g].cards)
      PROVE  c \in ToSet(groups[g].cards) /\ TitleOf[c.id] \notin titles
  <2>1. PICK i \in DOMAIN hs[g].cards : c = hs[g].cards[i]
    BY <1>7 DEF ToSet
  <2>2. PICK from \in [DOMAIN hs[g].cards -> DOMAIN groups[g].cards] :
             \A a \in DOMAIN hs[g].cards : hs[g].cards[a] = groups[g].cards[from[a]]
    BY <1>3
  <2>3. from[i] \in DOMAIN groups[g].cards /\ c = groups[g].cards[from[i]]
    BY <2>1, <2>2
  <2>4. c \in Left
    BY <1>3, <2>1
  <2> QED BY <2>3, <2>4 DEF ToSet, Left
<1> QED BY <1>2, <1>4, <1>6, <1>7 DEF hs

\* Inserting before a position: what follows moves down.
LEMMA InsertAtIs ==
  ASSUME NEW T, NEW s \in Seq(T), NEW k \in 1 .. Len(s) + 1, NEW e \in T
  PROVE  /\ InsertAt(s, k, e) \in Seq(T)
         /\ Len(InsertAt(s, k, e)) = Len(s) + 1
         /\ \A n \in 1 .. Len(s) + 1 :
              InsertAt(s, k, e)[n] = IF n < k THEN s[n] ELSE IF n = k THEN e ELSE s[n - 1]
<1> DEFINE r == InsertAt(s, k, e)
           p == SubSeq(s, 1, k - 1)
           o == <<e>>
           q == SubSeq(s, k, Len(s))
<1>0. Len(s) \in Nat /\ k \in Nat /\ 1 <= k /\ k <= Len(s) + 1
  OBVIOUS
<1>1. p \in Seq(T) /\ Len(p) = k - 1 /\ \A n \in 1 .. k - 1 : p[n] = s[n]
  <2>1. \A n \in 1 .. k - 1 : s[n] \in T
    BY <1>0, ElementOfSeq
  <2> QED BY <1>0, <2>1, SubSeqProperties
<1>2. q \in Seq(T) /\ Len(q) = Len(s) - k + 1 /\ \A n \in 1 .. Len(s) - k + 1 : q[n] = s[n + k - 1]
  <2>1. \A n \in k .. Len(s) : s[n] \in T
    BY <1>0, ElementOfSeq
  <2> QED BY <1>0, <2>1, SubSeqProperties
<1>3. o \in Seq(T) /\ Len(o) = 1 /\ o[1] = e
  OBVIOUS
<1> DEFINE po == p \o o
<1>4. r = po \o q
  BY DEF InsertAt
<1> HIDE DEF p, o, q, r
<1>5. po \in Seq(T) /\ Len(po) = k /\ \A n \in 1 .. k : po[n] = IF n < k THEN s[n] ELSE e
  <2>1. /\ po \in Seq(T) /\ Len(po) = Len(p) + Len(o)
        /\ \A n \in 1 .. Len(p) + Len(o) :
             po[n] = IF n <= Len(p) THEN p[n] ELSE o[n - Len(p)]
    BY <1>1, <1>3, ConcatProperties
  <2>2. Len(po) = k /\ \A n \in 1 .. k : po[n] = IF n <= k - 1 THEN p[n] ELSE o[n - (k - 1)]
    BY <1>0, <1>1, <1>3, <2>1
  <2>3. ASSUME NEW n \in 1 .. k PROVE po[n] = IF n < k THEN s[n] ELSE e
    <3>1. CASE n < k
      <4>1. n \in 1 .. k - 1 /\ n <= k - 1
        BY <1>0, <3>1
      <4> QED BY <1>1, <2>2, <3>1, <4>1
    <3>2. CASE n = k
      <4>1. ~ n <= k - 1 /\ n - (k - 1) = 1
        BY <1>0, <3>2
      <4>2. po[n] = o[n - (k - 1)]
        BY <2>2, <4>1
      <4> QED BY <1>0, <1>3, <3>2, <4>1, <4>2
    <3>3. n < k \/ n = k
      BY <1>0
    <3> QED BY <3>1, <3>2, <3>3
  <2> QED BY <2>1, <2>2, <2>3
<1> HIDE DEF po
<1>6. /\ r \in Seq(T) /\ Len(r) = Len(s) + 1
      /\ \A n \in 1 .. Len(s) + 1 : r[n] = IF n <= k THEN po[n] ELSE q[n - k]
  <2>1. /\ r \in Seq(T) /\ Len(r) = Len(po) + Len(q)
        /\ \A n \in 1 .. Len(po) + Len(q) :
             r[n] = IF n <= Len(po) THEN po[n] ELSE q[n - Len(po)]
    BY <1>2, <1>4, <1>5, ConcatProperties
  <2>2. Len(po) + Len(q) = Len(s) + 1
    BY <1>0, <1>2, <1>5
  <2> QED BY <1>5, <2>1, <2>2
<1>7. ASSUME NEW n \in 1 .. Len(s) + 1
      PROVE  r[n] = IF n < k THEN s[n] ELSE IF n = k THEN e ELSE s[n - 1]
  <2>1. CASE n <= k
    <3>1. n \in 1 .. k
      BY <1>0, <2>1
    <3>2. r[n] = IF n < k THEN s[n] ELSE e
      BY <1>5, <1>6, <2>1, <3>1
    <3> QED BY <1>0, <2>1, <3>2
  <2>2. CASE n > k
    <3>1. n - k \in 1 .. Len(s) - k + 1 /\ ~ n <= k /\ ~ n < k /\ n # k
      BY <1>0, <2>2
    <3>2. q[n - k] = s[(n - k) + k - 1] /\ (n - k) + k - 1 = n - 1
      BY <1>0, <1>2, <3>1
    <3> QED BY <1>6, <3>1, <3>2
  <2> QED BY <1>0, <2>1, <2>2
<1> QED BY <1>6, <1>7 DEF r

Moved(gs, source, destination) ==
  InsertAt(RemoveAt(gs, source), destination, gs[source])

\* reorderGroup moves a group: the others keep their order, and none is lost.
LEMMA MovedOnce ==
  ASSUME NEW gs \in Seq(Group), Once(gs), NEW source \in 1 .. Len(gs),
         NEW destination \in 1 .. Len(gs)
  PROVE  /\ Moved(gs, source, destination) \in Seq(Group)
         /\ Once(Moved(gs, source, destination))
         /\ \A g \in DOMAIN Moved(gs, source, destination) :
              \E h \in DOMAIN gs : Moved(gs, source, destination)[g] = gs[h]
<1> DEFINE r == RemoveAt(gs, source)
           hs == Moved(gs, source, destination)
           L == Len(gs)
           Up(n) == IF n < source THEN n ELSE n + 1
           From(n) == IF n < destination THEN Up(n)
                      ELSE IF n = destination THEN source ELSE Up(n - 1)
<1>0. L \in Nat /\ source \in 1 .. L /\ destination \in 1 .. L /\ DOMAIN gs = 1 .. L
  OBVIOUS
<1>1. /\ r \in Seq(Group) /\ Len(r) = L - 1
      /\ \A n \in 1 .. L - 1 : r[n] = gs[Up(n)]
  <2>1. /\ r \in Seq(Group) /\ Len(r) = L - 1
        /\ \A n \in 1 .. L - 1 : r[n] = IF n < source THEN gs[n] ELSE gs[n + 1]
    BY RemoveAtIs
  <2> QED BY <2>1
<1>2. gs[source] \in Group
  OBVIOUS
<1>3. /\ hs \in Seq(Group) /\ Len(hs) = L
      /\ \A n \in 1 .. L : hs[n] = IF n < destination THEN r[n]
                                   ELSE IF n = destination THEN gs[source] ELSE r[n - 1]
  <2>1. /\ destination \in 1 .. Len(r) + 1 /\ Len(r) + 1 = L
        /\ hs = InsertAt(r, destination, gs[source])
    BY <1>0, <1>1 DEF Moved
  <2> HIDE DEF hs
  <2> DEFINE moved == gs[source]
  <2>3. r \in Seq(Group) /\ moved \in Group
    BY <1>1, <1>2
  <2> HIDE DEF r, moved
  <2>2. /\ InsertAt(r, destination, moved) \in Seq(Group)
        /\ Len(InsertAt(r, destination, moved)) = Len(r) + 1
        /\ \A n \in 1 .. Len(r) + 1 :
             InsertAt(r, destination, moved)[n] = IF n < destination THEN r[n]
                     ELSE IF n = destination THEN moved ELSE r[n - 1]
    BY <2>1, <2>3, InsertAtIs
  <2> USE DEF moved
  <2> QED BY <2>1, <2>2
<1> HIDE DEF r, hs
<1>4. ASSUME NEW n \in 1 .. L PROVE From(n) \in 1 .. L /\ hs[n] = gs[From(n)]
  <2>1. CASE n < destination
    <3>1. n \in 1 .. L - 1
      BY <1>0, <2>1
    <3> QED BY <1>0, <1>1, <1>3, <2>1, <3>1
  <2>2. CASE n = destination
    BY <1>0, <1>3, <2>2
  <2>3. CASE n > destination
    <3>1. n - 1 \in 1 .. L - 1 /\ ~ n < destination /\ n # destination
      BY <1>0, <2>3
    <3> QED BY <1>0, <1>1, <1>3, <3>1
  <2> QED BY <1>0, <2>1, <2>2, <2>3
<1>5. \A m, n \in 1 .. L : From(m) = From(n) => m = n
  BY <1>0
<1> DEFINE from == [n \in 1 .. L |-> From(n)]
<1>6. from \in [DOMAIN hs -> DOMAIN gs] /\ DOMAIN hs = 1 .. L
  BY <1>0, <1>3, <1>4
<1>7. \A g, h \in DOMAIN hs : hs[g] = gs[from[g]] /\ (from[g] = from[h] => g = h)
  <2> SUFFICES ASSUME NEW g \in 1 .. L, NEW h \in 1 .. L
               PROVE  hs[g] = gs[from[g]] /\ (from[g] = from[h] => g = h)
    BY <1>6
  <2>1. from[g] = From(g) /\ from[h] = From(h)
    OBVIOUS
  <2> HIDE DEF From, from
  <2> QED BY <1>4, <1>5, <2>1
<1> HIDE DEF from, From
<1>8. Once(hs)
  BY <1>3, <1>6, <1>7, OnceInAnyOrder
<1> QED BY <1>3, <1>6, <1>7, <1>8 DEF hs

\* A set that is listed: all of it, and each element once.
LEMMA ListedOnce ==
  ASSUME NEW S, IsFiniteSet(S)
  PROVE  /\ SetToSeq(S) \in Seq(S) /\ IsInjective(SetToSeq(S))
         /\ \A e \in S : Contains(SetToSeq(S), e)
<1> DEFINE n == Cardinality(S)
           D == 1 .. n
           f == SetToSeq(S)
<1>1. n \in Nat /\ ExistsBijection(D, S)
  BY FS_CardinalityType
<1>2. \E g \in [D -> S] : IsInjective(g)
  BY <1>1 DEF ExistsBijection, Bijection, Injection
<1>3. f \in [D -> S] /\ IsInjective(f)
  BY <1>2 DEF SetToSeq
<1> HIDE DEF f
<1>4. f \in Injection(D, S)
  BY <1>3 DEF Injection
<1>5. Cardinality(D) = n
  BY <1>1, FS_Interval
<1>6. f \in Surjection(D, S)
  <2> HIDE DEF D
  <2> QED BY <1>4, <1>5, FS_Injection
<1>7. f \in Seq(S) /\ Len(f) = n
  BY <1>1, <1>3
<1>8. ASSUME NEW e \in S PROVE \E i \in 1 .. Len(f) : f[i] = e
  BY <1>6, <1>7 DEF Surjection
<1> QED BY <1>3, <1>7, <1>8 DEF f, Contains

-----------------------------------------------------------------------------
(***************************************************************************)
(* The inductive invariant of the list.                                    *)
(***************************************************************************)
\* The load is the only getAll, and each id's delete is called by its own.
OnlyTheLoadAndDeletes ==
  \A o \in Operation :
    /\ method[o] \in {"none", "getAll", "delete"}
    /\ method[o] = "getAll" => o = Loader
    /\ method[o] = "delete" => o \in Id /\ id[o] = o

\* Before the list is there, nothing is deleted.
NothingShownYet ==
  loading # "loaded" => /\ groups = <<>>
                        /\ \A o \in Operation : method[o] # "delete"

FoundOnce ==
  DistinctIds(found) /\ \A n \in DOMAIN found : found[n].source = "native"

\* What getAll has collected is in the store, once, and not among what it still visits.
CollectedOnce ==
  loading = "store" =>
    /\ IsInjective(result[Loader])
    /\ \A i \in Id : Contains(result[Loader], i) => i \in body
    /\ op[Loader] = "read index" => result[Loader] = <<>>
    /\ op[Loader] = "read body" =>
         /\ IsInjective(todo[Loader])
         /\ \A i \in Id : Contains(todo[Loader], i) => ~Contains(result[Loader], i)

\* What is being deleted is not shown.
ShownIsKept ==
  /\ ShownIsStored
  /\ \A o \in Operation : method[o] = "delete" => o \notin FromStore(Cards)

CardsInv ==
  /\ StoreInv
  /\ TypeOK
  /\ OnlyTheLoadAndDeletes
  /\ NothingShownYet
  /\ FoundOnce
  /\ CollectedOnce
  /\ Once(groups)
  /\ ShownIsKept

\* The deletes of one selection begin together: each is one that does not run yet.
LEMMA DeletesBegin ==
  ASSUME StoreInv, NEW deleted \in SUBSET Id, Id \subseteq Operation,
         \A o \in deleted : ~Running(o),
         \A o \in Operation : method[o] \notin {"store", "clear"},
         op' = [o \in Operation |-> IF o \in deleted THEN "delete body" ELSE op[o]],
         method' = [o \in Operation |-> IF o \in deleted THEN "delete" ELSE method[o]],
         id' = [o \in Operation |-> IF o \in deleted THEN o ELSE id[o]],
         kept' = kept \ deleted,
         expected' = [o \in Operation |-> expected[o] \ deleted],
         UNCHANGED <<storageVars, todo, result, cutOff>>
  PROVE  StoreInv'
<1> USE DEF storageVars, StoreInv
<1>1. StoreTypeOK'
  BY DEF StoreTypeOK, StorageOp
<1>2. Awaiting'
  BY DEF StoreTypeOK, Awaiting, Running, StorageOp
<1>3. Exclusive'
  BY DEF StoreTypeOK, Exclusive
<1>4. Bodies' /\ Removing'
  BY DEF StoreTypeOK, Bodies, Removing, BodyWritten
<1>5. PendingIsASet' /\ StorePending' /\ DeletePending' /\ ClearPending'
  BY DEF StoreTypeOK, PendingIsASet, StorePending, DeletePending, ClearPending
<1>6. GetAllPending'
  BY DEF StoreTypeOK, GetAllPending
<1>7. IndexIsASet' /\ KeptIsStored' /\ OrphansAreCutOff'
  BY DEF StoreTypeOK, IndexIsASet, KeptIsStored, OrphansAreCutOff, BodyWritten
<1> QED BY <1>1, <1>2, <1>3, <1>4, <1>5, <1>6, <1>7

LEMMA GroupsAreTyped ==
  TypeOK => groups \in Seq(Group)
BY DEF TypeOK, Group, Issuers

\* A list all of whose cards were shown before shows nothing more of the store.
LEMMA NothingMoreShown ==
  ASSUME \A g \in DOMAIN groups' : \A c \in ToSet(groups'[g].cards) :
           \E h \in DOMAIN groups : \E d \in ToSet(groups[h].cards) :
             c.id = d.id /\ c.source = d.source
  PROVE  FromStore(Cards)' \subseteq FromStore(Cards)
BY DEF FromStore, Cards

LEMMA InitCards == Init => CardsInv
<1> SUFFICES ASSUME Init PROVE CardsInv
  OBVIOUS
<1> DEFINE all == SetToSeq(Id)
<1>1. all \in Seq(Id) /\ IsInjective(all) /\ \A e \in Id : Contains(all, e)
  BY CardsAreFinite, ListedOnce
<1> HIDE DEF all
<1>2. index = all /\ body = Id /\ kept = Id
  BY DEF Init, all
<1>3. StoreTypeOK
  BY <1>1, <1>2, EmptySeq DEF Init, StoreTypeOK, StorageOp
<1>4. \A o \in Operation : op[o] = "returned" /\ method[o] = "none" /\ ~Running(o)
  BY DEF Init, Running, StorageOp
<1>5. Awaiting /\ Exclusive /\ Bodies /\ Removing
  BY <1>4, Zenon DEF Awaiting, Exclusive, Bodies, Removing, BodyWritten
<1>6. PendingIsASet /\ StorePending /\ DeletePending /\ ClearPending /\ GetAllPending
  BY <1>4 DEF PendingIsASet, StorePending, DeletePending, ClearPending, GetAllPending
<1>7. IndexIsASet /\ KeptIsStored /\ OrphansAreCutOff
  BY <1>1, <1>2 DEF IndexIsASet, KeptIsStored, OrphansAreCutOff
<1>8. StoreInv
  BY <1>3, <1>5, <1>6, <1>7 DEF StoreInv
<1>9. groups = <<>> /\ loading = "native" /\ found = <<>> /\ DOMAIN <<>> = {}
  BY DEF Init
<1>10. <<>> \in Seq(Card) /\ <<>> \in Seq(Group)
  OBVIOUS
<1>11. TypeOK
  BY <1>3, <1>9, <1>10 DEF TypeOK, Group, Issuers
<1>12. Cards = {} /\ FromStore(Cards) = {}
  BY <1>9 DEF Cards, FromStore
<1>13. ShownIsKept
  BY <1>12 DEF ShownIsKept, ShownIsStored
<1>14. OnlyTheLoadAndDeletes
  BY <1>4 DEF OnlyTheLoadAndDeletes
<1>15. NothingShownYet
  BY <1>4, <1>9 DEF NothingShownYet
<1>16. FoundOnce /\ Once(groups)
  BY <1>9 DEF FoundOnce, DistinctIds, Once
<1>17. CollectedOnce
  BY <1>9 DEF CollectedOnce
<1> QED BY <1>8, <1>11, <1>13, <1>14, <1>15, <1>16, <1>17 DEF CardsInv

LEMMA NativeLoadedKeeps ==
  ASSUME CardsInv, NativeLoaded
  PROVE  CardsInv'
<1> USE DEF CardsInv
<1>1. Loader \in Operation
  BY CallersAreIdsAndLoader
<1>2. BeginGetAll(Loader) /\ groups' = groups /\ loading' = "store" /\ loading = "native"
      /\ found' \in {NativeCards, <<>>}
  BY DEF NativeLoaded
<1>3. StoreInv'
  BY <1>1, <1>2, BeginGetAllPreserves
<1>4. /\ op' = [op EXCEPT ![Loader] = "read index"]
      /\ method' = [method EXCEPT ![Loader] = "getAll"]
      /\ id' = [id EXCEPT ![Loader] = NoId]
      /\ result' = [result EXCEPT ![Loader] = <<>>]
      /\ body' = body
  BY <1>2 DEF BeginGetAll, Begin, storageVars
<1>5. found' \in Seq(Card) /\ FoundOnce'
  <2>1. CASE found' = <<>>
    <3>1. <<>> \in Seq(Card) /\ DOMAIN <<>> = {}
      OBVIOUS
    <3> QED BY <2>1, <3>1 DEF FoundOnce, DistinctIds
  <2>2. CASE found' = NativeCards
    <3> DEFINE ids == SetToSeq(NativeCard)
    <3>1. ids \in Seq(NativeCard) /\ IsInjective(ids)
      BY CardsAreFinite, ListedOnce
    <3>2. NativeCards = [n \in DOMAIN ids |-> [id |-> ids[n], source |-> "native",
                                               expired |-> ids[n] \in Expired]]
      BY DEF NativeCards
    <3> HIDE DEF ids
    <3>3. \A n \in DOMAIN ids : ids[n] \in NativeCard
      BY <3>1
    <3>4. DOMAIN ids = 1 .. Len(ids) /\ Len(ids) \in Nat
      BY <3>1
    <3>5. \A n \in DOMAIN ids : /\ NativeCards[n] \in Card
                                /\ NativeCards[n].id = ids[n]
                                /\ NativeCards[n].source = "native"
      BY <3>2, <3>3 DEF Card
    <3>6. NativeCards \in Seq(Card) /\ DOMAIN NativeCards = DOMAIN ids
      BY <3>2, <3>4, <3>5
    <3> QED BY <2>2, <3>1, <3>5, <3>6 DEF FoundOnce, DistinctIds, IsInjective
  <2> QED BY <1>2, <2>1, <2>2
<1>6. TypeOK'
  BY <1>2, <1>3, <1>5 DEF TypeOK, StoreInv
<1>7. Cards' = Cards /\ FromStore(Cards)' = FromStore(Cards)
  BY <1>2 DEF Cards, FromStore
<1>8. ShownIsKept'
  BY <1>1, <1>4, <1>7 DEF ShownIsKept, ShownIsStored, StoreInv, StoreTypeOK
<1>9. OnlyTheLoadAndDeletes'
  BY <1>4, CallersAreIdsAndLoader DEF OnlyTheLoadAndDeletes, StoreInv, StoreTypeOK
<1>10. NothingShownYet'
  BY <1>2, <1>4 DEF NothingShownYet, StoreInv, StoreTypeOK
<1>11. CollectedOnce'
  <2>1. result'[Loader] = <<>> /\ op'[Loader] = "read index"
    BY <1>1, <1>4 DEF StoreInv, StoreTypeOK
  <2> QED BY <2>1, EmptyContainsNothing, EmptyIsInjective DEF CollectedOnce
<1>12. Once(groups)'
  BY <1>2 DEF Once
<1> QED BY <1>3, <1>5, <1>6, <1>8, <1>9, <1>10, <1>11, <1>12

\* The cards the store contributes: each id once, in the store, and not found already.
LEMMA StoredCardsOnce ==
  ASSUME NEW ids \in Seq(Id), IsInjective(ids)
  PROVE  /\ StoredCards(ids) \in Seq(Card) /\ DistinctIds(StoredCards(ids))
         /\ \A n \in DOMAIN StoredCards(ids) :
              /\ StoredCards(ids)[n].source = "store"
              /\ Contains(ids, StoredCards(ids)[n].id)
              /\ \A m \in DOMAIN found : found[m].id # StoredCards(ids)[n].id
<1> DEFINE New == Id \ {found[n].id : n \in DOMAIN found}
           new == Where(ids, New)
           cards == StoredCards(ids)
<1>1. cards = [n \in DOMAIN new |-> [id |-> new[n], source |-> "store", expired |-> FALSE]]
  BY DEF StoredCards
<1> HIDE DEF cards, New
<1>2. new \in Seq(Id)
  BY WhereSelects
<1>3. \A n \in DOMAIN new : new[n] \in New
  BY WhereKeeps
<1>4. \E h \in [DOMAIN new -> DOMAIN ids] :
        \A i, j \in DOMAIN new : new[i] = ids[h[i]] /\ (h[i] = h[j] => i = j)
  BY WhereKeeps
<1> HIDE DEF new
<1>5. DOMAIN new = 1 .. Len(new) /\ Len(new) \in Nat /\ DOMAIN ids = 1 .. Len(ids)
  BY <1>2
<1>6. PICK h \in [DOMAIN new -> DOMAIN ids] :
        \A i, j \in DOMAIN new : new[i] = ids[h[i]] /\ (h[i] = h[j] => i = j)
  BY <1>4
<1>7. \A i, j \in DOMAIN new : new[i] = new[j] => i = j
  BY <1>6 DEF IsInjective
<1>8. \A n \in DOMAIN new : Contains(ids, new[n])
  BY <1>5, <1>6 DEF Contains
<1>9. DOMAIN cards = DOMAIN new
      /\ \A n \in DOMAIN new : /\ cards[n] \in Card /\ cards[n].id = new[n]
                               /\ cards[n].source = "store"
  <2>1. \A n \in DOMAIN new : new[n] \in Id
    BY <1>2
  <2> QED BY <1>1, <2>1 DEF Card
<1>10. cards \in Seq(Card)
  BY <1>1, <1>5, <1>9
<1>11. DistinctIds(cards)
  BY <1>7, <1>9 DEF DistinctIds
<1>12. ASSUME NEW n \in DOMAIN cards
       PROVE  /\ cards[n].source = "store" /\ Contains(ids, cards[n].id)
              /\ \A m \in DOMAIN found : found[m].id # cards[n].id
  <2>1. n \in DOMAIN new /\ cards[n].id = new[n] /\ new[n] \in New
    BY <1>3, <1>9
  <2> QED BY <1>8, <1>9, <2>1 DEF New
<1> QED BY <1>10, <1>11, <1>12 DEF cards

LEMMA StoreLoadedKeeps ==
  ASSUME CardsInv, StoreLoaded
  PROVE  CardsInv'
<1> USE DEF CardsInv
<1> DEFINE ids == result[Loader]
           stored == StoredCards(ids)
           list == found \o stored
<1>1. Loader \in Operation
  BY CallersAreIdsAndLoader
<1>2. /\ loading = "store" /\ loading' = "loaded" /\ found' = <<>>
      /\ groups' = GroupByIssuer(list) /\ UNCHANGED storeVars
  BY DEF StoreLoaded
<1>3. ids \in Seq(Id) /\ IsInjective(ids) /\ \A i \in Id : Contains(ids, i) => i \in body
  BY <1>1, <1>2 DEF CollectedOnce, StoreInv, StoreTypeOK
<1> HIDE DEF ids
<1>4. /\ stored \in Seq(Card) /\ DistinctIds(stored)
      /\ \A n \in DOMAIN stored : /\ stored[n].source = "store"
                                  /\ Contains(ids, stored[n].id)
                                  /\ \A m \in DOMAIN found : found[m].id # stored[n].id
  BY <1>3, StoredCardsOnce
<1>5. found \in Seq(Card) /\ FoundOnce
  BY DEF TypeOK
<1> HIDE DEF stored
<1> DEFINE F == Len(found)
           L == Len(found) + Len(stored)
<1>6. /\ list \in Seq(Card) /\ Len(list) = L
      /\ \A i \in 1 .. L : list[i] = IF i <= F THEN found[i] ELSE stored[i - F]
  BY <1>4, <1>5, ConcatProperties
<1>7. /\ DOMAIN list = 1 .. L /\ DOMAIN found = 1 .. F /\ DOMAIN stored = 1 .. Len(stored)
      /\ F \in Nat /\ Len(stored) \in Nat
  BY <1>4, <1>5, <1>6
<1> HIDE DEF list
<1>8. ASSUME NEW i \in DOMAIN list
      PROVE  \/ i \in DOMAIN found /\ list[i] = found[i]
             \/ i - F \in DOMAIN stored /\ list[i] = stored[i - F]
  BY <1>6, <1>7
<1>9. DistinctIds(list)
  <2> SUFFICES ASSUME NEW i \in DOMAIN list, NEW j \in DOMAIN list, list[i].id = list[j].id
               PROVE  i = j
    BY DEF DistinctIds
  <2>1. i \in Int /\ j \in Int
    BY <1>7
  <2>2. CASE i \in DOMAIN found /\ list[i] = found[i]
    <3>1. ~ (j - F \in DOMAIN stored /\ list[j] = stored[j - F])
      BY <1>4, <2>2
    <3>2. j \in DOMAIN found /\ list[j] = found[j]
      BY <1>8, <3>1
    <3> QED BY <1>5, <2>2, <3>2 DEF FoundOnce, DistinctIds
  <2>3. CASE i - F \in DOMAIN stored /\ list[i] = stored[i - F]
    <3>1. ~ (j \in DOMAIN found /\ list[j] = found[j])
      BY <1>4, <2>3
    <3>2. j - F \in DOMAIN stored /\ list[j] = stored[j - F]
      BY <1>8, <3>1
    <3>3. i - F = j - F
      BY <1>4, <2>3, <3>2 DEF DistinctIds
    <3> QED BY <1>7, <2>1, <3>3
  <2> QED BY <1>8, <2>2, <2>3
<1>10. /\ groups' \in Seq(Group) /\ Once(groups')
       /\ \A g \in DOMAIN groups' : ToSet(groups'[g].cards) \subseteq ToSet(list)
  BY <1>2, <1>6, <1>9, GroupedOnce
<1>11. StoreInv'
  BY <1>2
  DEF storeVars, storageVars, opVars, historyVars, StoreInv, StoreTypeOK, Awaiting, Running,
      Exclusive, Bodies, BodyWritten, Removing, PendingIsASet, StorePending,
      DeletePending, ClearPending, GetAllPending, IndexIsASet, KeptIsStored,
      OrphansAreCutOff
<1>12. <<>> \in Seq(Card) /\ DOMAIN <<>> = {}
  OBVIOUS
<1>13. TypeOK'
  BY <1>2, <1>10, <1>11, <1>12 DEF TypeOK, StoreInv, Group, Issuers
<1>14. ASSUME NEW i \in FromStore(Cards)' PROVE i \in body
  <2>1. PICK g \in DOMAIN groups' :
          \E c \in ToSet(groups'[g].cards) : c.source = "store" /\ c.id = i
    BY <1>14 DEF FromStore, Cards
  <2>2. PICK c \in ToSet(list) : c.source = "store" /\ c.id = i
    BY <1>10, <2>1
  <2>3. PICK n \in DOMAIN list : c = list[n]
    BY <2>2 DEF ToSet
  <2>4. ~ (n \in DOMAIN found /\ list[n] = found[n])
    BY <1>5, <2>2, <2>3 DEF FoundOnce
  <2>5. n - F \in DOMAIN stored /\ c = stored[n - F]
    BY <1>8, <2>3, <2>4
  <2>6. Contains(ids, i)
    BY <1>4, <2>2, <2>5
  <2>7. i \in Id
    BY <1>3, <2>6 DEF Contains
  <2> QED BY <1>3, <2>6, <2>7
<1>15. UNCHANGED <<body, method, op, result, todo, id>>
  BY <1>2 DEF storeVars, storageVars, opVars
<1>16. \A o \in Operation : method[o] # "delete"
  BY <1>2 DEF NothingShownYet
<1>17. ShownIsKept'
  BY <1>14, <1>15, <1>16 DEF ShownIsKept, ShownIsStored
<1>18. OnlyTheLoadAndDeletes'
  BY <1>15 DEF OnlyTheLoadAndDeletes
<1>19. NothingShownYet' /\ CollectedOnce'
  BY <1>2 DEF NothingShownYet, CollectedOnce
<1>20. FoundOnce'
  BY <1>2, <1>12 DEF FoundOnce, DistinctIds
<1>21. Once(groups)'
  BY <1>10
<1> QED BY <1>11, <1>13, <1>17, <1>18, <1>19, <1>20, <1>21

\* What depends on the store and the load only, when neither changes.
LEMMA LoadUnchanged ==
  ASSUME CardsInv, UNCHANGED <<storeVars, loading, found>>
  PROVE  /\ StoreInv' /\ OnlyTheLoadAndDeletes' /\ FoundOnce' /\ CollectedOnce'
         /\ UNCHANGED <<body, method, op, id, todo, result, loading, found>>
<1> USE DEF CardsInv
<1>1. UNCHANGED <<body, method, op, id, todo, result, loading, found>>
  BY DEF storeVars, storageVars, opVars
<1>2. StoreInv'
  BY DEF storeVars, storageVars, opVars, historyVars, StoreInv, StoreTypeOK, Awaiting, Running,
         Exclusive, Bodies, BodyWritten, Removing, PendingIsASet, StorePending,
         DeletePending, ClearPending, GetAllPending, IndexIsASet, KeptIsStored,
         OrphansAreCutOff
<1>3. OnlyTheLoadAndDeletes'
  BY <1>1 DEF OnlyTheLoadAndDeletes
<1>4. FoundOnce' /\ CollectedOnce'
  BY <1>1 DEF FoundOnce, DistinctIds, CollectedOnce
<1> QED BY <1>1, <1>2, <1>3, <1>4

LEMMA DeleteKeeps ==
  ASSUME CardsInv, NEW cards \in Selection, Delete(cards)
  PROVE  CardsInv'
<1> USE DEF CardsInv
<1> DEFINE deleted == FromStore(cards)
           titles == Titles(cards)
<1>1. cards \subseteq Cards
  BY DEF Selection, ExpiredCards
<1>2. deleted \subseteq FromStore(Cards)
  BY <1>1 DEF FromStore
<1>3. /\ deleted \subseteq body /\ deleted \in SUBSET Id
      /\ \A o \in Operation : method[o] = "delete" => o \notin deleted
  BY <1>2 DEF ShownIsKept, ShownIsStored, StoreInv, StoreTypeOK
<1>4. Id \subseteq Operation /\ Loader \in Operation /\ Loader \notin Id
  BY CallersAreIdsAndLoader
<1>5. ASSUME NEW o \in deleted PROVE ~Running(o)
  <2>1. o \in Operation /\ o # Loader /\ method[o] # "delete"
    BY <1>3, <1>4
  <2>2. method[o] = "none"
    BY <2>1 DEF OnlyTheLoadAndDeletes
  <2> QED BY <2>1, <2>2 DEF StoreInv, Awaiting
<1>6. /\ groups' = RemoveTitled(titles)
      /\ op' = [o \in Operation |-> IF o \in deleted THEN "delete body" ELSE op[o]]
      /\ method' = [o \in Operation |-> IF o \in deleted THEN "delete" ELSE method[o]]
      /\ id' = [o \in Operation |-> IF o \in deleted THEN o ELSE id[o]]
      /\ kept' = kept \ deleted
      /\ expected' = [o \in Operation |-> expected[o] \ deleted]
      /\ UNCHANGED <<storageVars, todo, result, cutOff, loading, found>>
  BY DEF Delete
<1>7. \A o \in Operation : method[o] \notin {"store", "clear"}
  BY DEF OnlyTheLoadAndDeletes
<1>8. \A c \in cards : c.source = "store" => c.id \in deleted /\ TitleOf[c.id] \in titles
  BY DEF FromStore, Titles
<1>9. \A i \in deleted : TitleOf[i] \in titles
  BY DEF FromStore, Titles
<1> HIDE DEF deleted, titles
<1>10. StoreInv'
  BY <1>3, <1>4, <1>5, <1>6, <1>7, DeletesBegin
<1>11. /\ groups' \in Seq(Group) /\ Once(groups') /\ DOMAIN groups' = DOMAIN groups
       /\ \A g \in DOMAIN groups : \A c \in ToSet(groups'[g].cards) :
              c \in ToSet(groups[g].cards) /\ TitleOf[c.id] \notin titles
  BY <1>6, GroupsAreTyped, RemovedOnce
<1>12. FromStore(Cards)' \subseteq FromStore(Cards)
  BY <1>11, NothingMoreShown
<1>13. \A i \in deleted : i \notin FromStore(Cards)'
  <2> SUFFICES ASSUME NEW i \in deleted, NEW g \in DOMAIN groups',
                      NEW c \in ToSet(groups'[g].cards), c.id = i
               PROVE  FALSE
    BY DEF FromStore, Cards
  <2> QED BY <1>9, <1>11
<1>14. TypeOK'
  BY <1>6, <1>10, <1>11 DEF TypeOK, StoreInv, Group, Issuers
<1>15. ShownIsKept'
  BY <1>6, <1>12, <1>13 DEF ShownIsKept, ShownIsStored, storageVars
<1>16. OnlyTheLoadAndDeletes'
  BY <1>3, <1>4, <1>6 DEF OnlyTheLoadAndDeletes
<1>17. NothingShownYet'
  <2> SUFFICES ASSUME loading # "loaded" PROVE groups' = <<>> /\ deleted = {}
    BY <1>6 DEF NothingShownYet
  <2>1. groups = <<>> /\ DOMAIN <<>> = {}
    BY DEF NothingShownYet
  <2>2. Cards = {}
    BY <2>1 DEF Cards
  <2>3. deleted = {}
    BY <1>2, <2>2 DEF FromStore
  <2>4. DOMAIN groups' = {}
    BY <1>11, <2>1
  <2>5. groups' = <<>>
    BY <1>11, <2>4
  <2> QED BY <2>3, <2>5
<1>18. CollectedOnce'
  <2>1. op'[Loader] = op[Loader]
    BY <1>3, <1>4, <1>6
  <2> QED BY <1>6, <2>1 DEF CollectedOnce, storageVars
<1>19. FoundOnce'
  BY <1>6 DEF FoundOnce, DistinctIds
<1>20. Once(groups)'
  BY <1>11
<1> QED BY <1>10, <1>14, <1>15, <1>16, <1>17, <1>18, <1>19, <1>20

LEMMA UnhideKeeps ==
  ASSUME CardsInv, NEW cards, Unhide(cards)
  PROVE  CardsInv'
<1> USE DEF CardsInv
<1> DEFINE Odd(c) == Cardinality({d \in cards : TitleOf[d.id] = TitleOf[c.id]}) % 2 = 1
           Toggled(c) == [c EXCEPT !.expired = (@ # Odd(c))]
           ToggledAll(cs) == [n \in DOMAIN cs |-> Toggled(cs[n])]
<1>1. /\ groups' = [g \in DOMAIN groups |-> [groups[g] EXCEPT !.cards = ToggledAll(@)]]
      /\ UNCHANGED <<storeVars, loading, found>>
  BY DEF Unhide
<1>2. /\ StoreInv' /\ OnlyTheLoadAndDeletes' /\ FoundOnce' /\ CollectedOnce'
      /\ UNCHANGED <<body, method, op, id, todo, result, loading, found>>
  BY <1>1, LoadUnchanged
<1> HIDE DEF Odd
<1>3. \A c \in Card : /\ Toggled(c) \in Card /\ Toggled(c).id = c.id
                      /\ Toggled(c).source = c.source
  BY DEF Card
<1> HIDE DEF Toggled
<1>4. groups \in Seq(Group) /\ DOMAIN groups' = DOMAIN groups
  BY <1>1, GroupsAreTyped
<1>5. ASSUME NEW g \in DOMAIN groups
      PROVE  /\ groups'[g] \in Group /\ groups'[g].title = groups[g].title
             /\ DOMAIN groups'[g].cards = DOMAIN groups[g].cards
             /\ \A i \in DOMAIN groups[g].cards :
                  /\ groups'[g].cards[i].id = groups[g].cards[i].id
                  /\ groups'[g].cards[i].source = groups[g].cards[i].source
  <2> DEFINE s == groups[g].cards
  <2>1. groups[g] \in Group /\ s \in Seq(Card)
    <3>1. groups[g] \in Group
      BY <1>4
    <3> QED BY <3>1 DEF Group
  <2>2. groups'[g] = [groups[g] EXCEPT !.cards = ToggledAll(s)]
    BY <1>1
  <2> HIDE DEF s
  <2>3. DOMAIN s = 1 .. Len(s) /\ Len(s) \in Nat /\ \A i \in DOMAIN s : s[i] \in Card
    BY <2>1
  <2>4. ToggledAll(s) \in Seq(Card) /\ DOMAIN ToggledAll(s) = DOMAIN s
        /\ \A i \in DOMAIN s : /\ ToggledAll(s)[i].id = s[i].id
                               /\ ToggledAll(s)[i].source = s[i].source
    BY <1>3, <2>3
  <2> HIDE DEF ToggledAll
  <2>5. /\ groups'[g] \in Group /\ groups'[g].title = groups[g].title
        /\ groups'[g].cards = ToggledAll(s)
    BY <2>1, <2>2, <2>4 DEF Group
  <2> QED BY <2>4, <2>5 DEF s
<1> HIDE DEF ToggledAll
<1>6. groups' \in Seq(Group)
  <2>1. DOMAIN groups = 1 .. Len(groups) /\ Len(groups) \in Nat
    BY <1>4
  <2>2. \A g \in DOMAIN groups : groups'[g] \in Group
    BY <1>5
  <2>3. groups' \in [1 .. Len(groups) -> Group]
    BY <1>1, <2>1, <2>2
  <2> QED BY <2>1, <2>3
<1>7. Once(groups')
  <2>1. ASSUME NEW g \in DOMAIN groups
        PROVE  \E from \in [DOMAIN groups'[g].cards -> DOMAIN groups[g].cards] :
                 \A i, j \in DOMAIN groups'[g].cards :
                   /\ groups'[g].cards[i].id = groups[g].cards[from[i]].id
                   /\ from[i] = from[j] => i = j
    <3> DEFINE D == DOMAIN groups[g].cards
               from == [i \in D |-> i]
    <3>1. from \in [D -> D] /\ \A i \in D : from[i] = i
      OBVIOUS
    <3>2. DOMAIN groups'[g].cards = D
          /\ \A i \in D : groups'[g].cards[i].id = groups[g].cards[i].id
      BY <1>5
    <3> HIDE DEF from, D
    <3>3. \A i, j \in D : /\ groups'[g].cards[i].id = groups[g].cards[from[i]].id
                          /\ from[i] = from[j] => i = j
      BY <3>1, <3>2
    <3> QED BY <3>1, <3>2, <3>3 DEF D
  <2> QED BY <1>4, <1>5, <1>6, <2>1, OnceOfFewer
<1>8. FromStore(Cards)' \subseteq FromStore(Cards)
  <2> SUFFICES ASSUME NEW g \in DOMAIN groups', NEW c \in ToSet(groups'[g].cards)
               PROVE  \E h \in DOMAIN groups : \E d \in ToSet(groups[h].cards) :
                        c.id = d.id /\ c.source = d.source
    BY NothingMoreShown
  <2>1. PICK i \in DOMAIN groups'[g].cards : c = groups'[g].cards[i]
    BY DEF ToSet
  <2>2. /\ g \in DOMAIN groups /\ groups[g].cards[i] \in ToSet(groups[g].cards)
        /\ c.id = groups[g].cards[i].id /\ c.source = groups[g].cards[i].source
    BY <1>4, <1>5, <2>1 DEF ToSet
  <2> QED BY <2>2
<1>9. TypeOK'
  BY <1>2, <1>6 DEF TypeOK, StoreInv, Group, Issuers
<1>10. ShownIsKept'
  BY <1>2, <1>8 DEF ShownIsKept, ShownIsStored
<1>11. NothingShownYet'
  <2> SUFFICES ASSUME loading # "loaded" PROVE groups' = <<>>
    BY <1>2 DEF NothingShownYet
  <2>1. groups = <<>> /\ DOMAIN <<>> = {}
    BY DEF NothingShownYet
  <2> QED BY <1>4, <1>6, <2>1
<1>12. Once(groups)'
  BY <1>7
<1> QED BY <1>2, <1>9, <1>10, <1>11, <1>12

LEMMA ReorderKeeps ==
  ASSUME CardsInv, NEW n \in DOMAIN ActiveGroups, NEW target \in DOMAIN ActiveGroups,
         ReorderGroup(Active(ActiveGroups[n])[1], target)
  PROVE  CardsInv'
<1> USE DEF CardsInv
<1> DEFINE card == Active(ActiveGroups[n])[1]
           Titled(g) == TitleOf[Active(g)[1].id] = TitleOf[card.id]
           I == {i \in 1 .. Len(ActiveGroups) : Titled(ActiveGroups[i])}
           source == IF I # {} THEN Min(I) ELSE 0
           destination == IF source < target THEN target - 1 ELSE target
<1>1. /\ source \notin {0, target}
      /\ groups' = InsertAt(RemoveAt(groups, source), destination, groups[source])
      /\ UNCHANGED <<storeVars, loading, found>>
  BY DEF ReorderGroup, SelectInSeq
<1>2. /\ StoreInv' /\ OnlyTheLoadAndDeletes' /\ FoundOnce' /\ CollectedOnce'
      /\ UNCHANGED <<body, method, op, id, todo, result, loading, found>>
  BY <1>1, LoadUnchanged
<1>3. groups \in Seq(Group) /\ Len(groups) \in Nat /\ DOMAIN groups = 1 .. Len(groups)
  BY GroupsAreTyped
<1>4. /\ ActiveGroups \in Seq(DOMAIN groups) /\ Len(ActiveGroups) \in Nat
      /\ Len(ActiveGroups) <= Len(groups)
  <2> DEFINE all == [g \in DOMAIN groups |-> g]
             D == DOMAIN groups
             S == {g \in D : Active(g) # <<>>}
  <2>1. all \in Seq(D) /\ Len(all) = Len(groups)
    BY <1>3
  <2>2. ActiveGroups = Where(all, S)
    BY DEF ActiveGroups
  <2> HIDE DEF all, S, D
  <2>3. /\ Where(all, S) \in Seq(D) /\ Len(Where(all, S)) \in Nat
        /\ Len(Where(all, S)) <= Len(all)
    BY <2>1, WhereSelects
  <2> QED BY <2>1, <2>2, <2>3 DEF D
<1> HIDE DEF Titled
<1>5. source \in 1 .. Len(ActiveGroups)
  <2>0. I \in SUBSET Nat
    OBVIOUS
  <2>1. I # {} /\ source = Min(I) /\ I \in SUBSET Nat
    <3> HIDE DEF I
    <3> QED BY <1>1, <2>0
  <2> HIDE DEF I, source
  <2>2. Min(I) \in I
    BY <2>1, FirstPosition
  <2> QED BY <2>1, <2>2 DEF I
<1>6. source \in 1 .. Len(groups) /\ target \in 1 .. Len(ActiveGroups)
  BY <1>3, <1>4, <1>5
<1> HIDE DEF source
<1>7. destination \in 1 .. Len(groups)
  BY <1>1, <1>3, <1>4, <1>6
<1> HIDE DEF destination
<1>8. /\ groups' \in Seq(Group) /\ Once(groups')
      /\ \A g \in DOMAIN groups' : \E h \in DOMAIN groups : groups'[g] = groups[h]
  <2> DEFINE hs == Moved(groups, source, destination)
  <2>1. groups' = hs
    BY <1>1 DEF Moved
  <2>2. groups \in Seq(Group) /\ Once(groups)
    BY <1>3
  <2>3. /\ hs \in Seq(Group) /\ Once(hs)
        /\ \A g \in DOMAIN hs : \E h \in DOMAIN groups : hs[g] = groups[h]
    BY <1>6, <1>7, <2>2, MovedOnce
  <2> QED BY <2>1, <2>3
<1>9. FromStore(Cards)' \subseteq FromStore(Cards)
  BY <1>8, NothingMoreShown
<1>10. TypeOK'
  BY <1>2, <1>8 DEF TypeOK, StoreInv, Group, Issuers
<1>11. ShownIsKept'
  BY <1>2, <1>9 DEF ShownIsKept, ShownIsStored
<1>12. NothingShownYet'
  <2>1. groups # <<>>
    BY <1>3, <1>6
  <2> QED BY <1>2, <2>1 DEF NothingShownYet
<1>13. Once(groups)'
  BY <1>8
<1> QED BY <1>2, <1>10, <1>11, <1>12, <1>13

\* A storage call of the load or of a delete: what getAll collects is in the store, and
\* no body that is shown is deleted.
LEMMA StorageCallKeeps ==
  ASSUME CardsInv, NEW o \in Operation, StorageCall(o), UNCHANGED listVars
  PROVE  CardsInv'
<1> USE DEF CardsInv
<1>1. StoreInv'
  BY WriteBodyPreserves, StoreReadsIndexPreserves, DeleteBodyPreserves,
     DeleteReadsIndexPreserves, WriteIndexPreserves, LoopReadsIndexPreserves,
     ReadBodyPreserves, GetAllReturnsPreserves, ClearBodyPreserves,
     DeleteIndexPreserves DEF StorageCall
<1>2. groups' = groups /\ loading' = loading /\ found' = found
  BY DEF listVars
<1>3. /\ method[o] \in {"getAll", "delete"}
      /\ method[o] = "getAll" => o = Loader
      /\ method[o] = "delete" => o \in Id /\ id[o] = o
      /\ op[o] = "delete body" => method[o] = "delete"
      /\ op[o] # "write body"
      /\ op[o] \in StorageOp
  <2>1. Running(o)
    BY DEF Running, StorageOp, StorageCall, WriteBody, StoreReadsIndex, DeleteBody,
           DeleteReadsIndex, WriteIndex, LoopReadsIndex, ReadBody, GetAllReturns, ClearBody,
           DeleteIndex
  <2>2. method[o] \in {"getAll", "delete"}
    BY <2>1 DEF OnlyTheLoadAndDeletes, StoreInv, Awaiting
  <2> QED BY <2>1, <2>2 DEF OnlyTheLoadAndDeletes, StoreInv, Awaiting, Running
<1>4. \/ method[o] = "delete" /\ (DeleteBody(o) \/ DeleteReadsIndex(o) \/ WriteIndex(o))
      \/ method[o] = "getAll" /\ (LoopReadsIndex(o) \/ ReadBody(o) \/ GetAllReturns(o))
  BY <1>3 DEF StorageCall, WriteBody, StoreReadsIndex, DeleteBody, DeleteReadsIndex,
              WriteIndex, LoopReadsIndex, ReadBody, GetAllReturns, ClearBody, DeleteIndex,
              StoreInv, Awaiting
<1>5. /\ \A p \in Operation \ {o} : /\ method'[p] = method[p] /\ id'[p] = id[p]
                                    /\ op'[p] = op[p] /\ todo'[p] = todo[p]
                                    /\ result'[p] = result[p]
      /\ method'[o] = "none" \/ (method'[o] = method[o] /\ id'[o] = id[o])
      /\ body' \subseteq body
      /\ \A i \in body \ body' : method[o] = "delete" /\ id[o] = i
  BY <1>3, <1>4
  DEF StorageCall, DeleteBody, DeleteReadsIndex, WriteIndex, LoopReadsIndex, ReadBody,
      GetAllReturns, Await, Return, storageVars, historyVars, StoreInv, StoreTypeOK
<1>6. Cards' = Cards /\ FromStore(Cards)' = FromStore(Cards)
  BY <1>2 DEF Cards, FromStore
<1>7. ShownIsKept'
  <2>1. ShownIsStored'
    <3> SUFFICES ASSUME NEW i \in FromStore(Cards), i \notin body' PROVE FALSE
      BY <1>6 DEF ShownIsStored
    <3>1. i \in body \ body'
      BY DEF ShownIsKept, ShownIsStored
    <3>2. method[o] = "delete" /\ o = i
      BY <1>3, <1>5, <3>1
    <3> QED BY <3>2 DEF ShownIsKept
  <2>2. \A p \in Operation : method'[p] = "delete" => method[p] = "delete"
    BY <1>5
  <2> QED BY <1>6, <2>1, <2>2 DEF ShownIsKept
<1>8. OnlyTheLoadAndDeletes'
  BY <1>5 DEF OnlyTheLoadAndDeletes
<1>9. NothingShownYet'
  BY <1>2, <1>5 DEF NothingShownYet
<1>10. FoundOnce' /\ Once(groups)'
  BY <1>2 DEF FoundOnce, DistinctIds, Once
<1>11. TypeOK'
  BY <1>1, <1>2 DEF TypeOK, StoreInv
<1>12. CollectedOnce'
  <2> SUFFICES ASSUME loading = "store" PROVE CollectedOnce'
    BY <1>2 DEF CollectedOnce
  <2>1. method[o] = "getAll" /\ o = Loader /\ body' = body
    BY <1>3, <1>5 DEF NothingShownYet
  <2>2. /\ IsInjective(result[o])
        /\ \A i \in Id : Contains(result[o], i) => i \in body
        /\ op[o] = "read index" => result[o] = <<>>
        /\ op[o] = "read body" =>
             /\ IsInjective(todo[o])
             /\ \A i \in Id : Contains(todo[o], i) => ~Contains(result[o], i)
    BY <2>1 DEF CollectedOnce
  <2>3. CASE LoopReadsIndex(o)
    <3>1. /\ op[o] = "read index" /\ op'[o] = "read body" /\ todo'[o] = index
          /\ result'[o] = result[o]
      BY <2>1, <2>3 DEF LoopReadsIndex, Await, StoreInv, StoreTypeOK
    <3>2. IsInjective(index)
      BY DEF StoreInv, IndexIsASet
    <3> QED BY <2>1, <2>2, <3>1, <3>2, EmptyContainsNothing DEF CollectedOnce
  <2>4. CASE ReadBody(o)
    <3> DEFINE i == Head(todo[o])
               rest == Tail(todo[o])
    <3>1. /\ op[o] = "read body" /\ op'[o] = op[o] /\ todo[o] # <<>> /\ todo'[o] = rest
          /\ result'[o] = IF i \in body THEN Append(result[o], i) ELSE result[o]
      BY <2>4 DEF ReadBody, StoreInv, StoreTypeOK
    <3> DEFINE t == todo[o]
    <3>0. t \in Seq(Id) /\ result[o] \in Seq(Id) /\ t # <<>>
      BY <3>1 DEF StoreInv, StoreTypeOK
    <3>2. /\ todo[o] \in Seq(Id) /\ result[o] \in Seq(Id) /\ i \in Id /\ rest \in Seq(Id)
          /\ Contains(todo[o], i)
      <4>1. i \in Id /\ rest \in Seq(Id)
        BY <3>0, HeadTailProperties
      <4>2. 1 \in 1 .. Len(t) /\ t[1] = i
        BY <3>0
      <4> QED BY <3>0, <4>1, <4>2 DEF Contains
    <3>3. /\ IsInjective(rest) /\ ~Contains(rest, i)
          /\ \A j : Contains(rest, j) => Contains(todo[o], j)
      <4>1. /\ Len(rest) = Len(todo[o]) - 1 /\ Len(todo[o]) \in Nat /\ Len(todo[o]) > 0
            /\ i = todo[o][1]
            /\ \A k \in 1 .. Len(rest) : rest[k] = todo[o][k + 1]
        BY <3>0
      <4>2. \A a, b \in 1 .. Len(todo[o]) : todo[o][a] = todo[o][b] => a = b
        <5>1. DOMAIN t = 1 .. Len(t)
          BY <3>0
        <5>2. IsInjective(t)
          BY <2>2, <3>1
        <5> QED BY <5>1, <5>2 DEF IsInjective
      <4>3. DOMAIN rest = 1 .. Len(rest)
        BY <3>2
      <4> HIDE DEF rest, i
      <4>4. ASSUME NEW a \in 1 .. Len(rest), NEW b \in 1 .. Len(rest), rest[a] = rest[b]
            PROVE  a = b
        <5>1. a + 1 \in 1 .. Len(todo[o]) /\ b + 1 \in 1 .. Len(todo[o])
          BY <4>1
        <5>2. todo[o][a + 1] = todo[o][b + 1]
          BY <4>1, <4>4
        <5>3. a + 1 = b + 1
          BY <4>2, <5>1, <5>2
        <5> QED BY <4>1, <5>3
      <4>5. ASSUME NEW a \in 1 .. Len(rest) PROVE rest[a] # i
        <5>1. a + 1 \in 1 .. Len(todo[o]) /\ 1 \in 1 .. Len(todo[o]) /\ a + 1 # 1
          BY <4>1
        <5> QED BY <4>1, <4>2, <5>1
      <4>6. \A a \in 1 .. Len(rest) : a + 1 \in 1 .. Len(todo[o])
        BY <4>1
      <4> QED BY <4>1, <4>3, <4>4, <4>5, <4>6 DEF IsInjective, Contains
    <3>4. IsInjective(result'[o]) /\ \A j \in Id : Contains(result'[o], j) => j \in body
      <4>1. CASE i \in body
        <5>1. ~Contains(result[o], i)
          BY <2>2, <3>1, <3>2
        <5>2. result'[o] = Append(result[o], i)
          BY <3>1, <4>1
        <5> HIDE DEF i
        <5>3. IsInjective(Append(result[o], i))
          BY <2>2, <3>2, <5>1, AppendIsInjective
        <5>4. \A j : Contains(Append(result[o], i), j) <=> Contains(result[o], j) \/ j = i
          BY <3>2, ContainsAppend
        <5> QED BY <2>2, <4>1, <5>2, <5>3, <5>4
      <4>2. CASE i \notin body
        BY <2>2, <3>1, <4>2
      <4> QED BY <4>1, <4>2
    <3>5. ASSUME NEW j \in Id, Contains(rest, j) PROVE ~Contains(result'[o], j)
      <4> HIDE DEF rest, i
      <4>1. ~Contains(result[o], j) /\ j # i
        BY <2>2, <3>1, <3>3, <3>5
      <4>2. Contains(Append(result[o], i), j) <=> Contains(result[o], j) \/ j = i
        BY <3>2, ContainsAppend
      <4> QED BY <3>1, <4>1, <4>2
    <3> HIDE DEF rest, i
    <3> QED BY <2>1, <3>1, <3>3, <3>4, <3>5 DEF CollectedOnce
  <2>5. CASE GetAllReturns(o)
    <3>1. op'[o] = "returned" /\ result'[o] = result[o]
      BY <2>5 DEF GetAllReturns, Return, StoreInv, StoreTypeOK
    <3> QED BY <2>1, <2>2, <3>1 DEF CollectedOnce
  <2> QED BY <1>4, <2>1, <2>3, <2>4, <2>5
<1> QED BY <1>1, <1>7, <1>8, <1>9, <1>10, <1>11, <1>12

\* Calls that throw, and the kill: what was collected is dropped.
LEMMA StopKeeps ==
  ASSUME CardsInv, NEW stopped \in SUBSET Operation, Stop(stopped),
         \A o \in stopped : Running(o),
         \/ UNCHANGED listVars
         \/ /\ groups' = <<>> /\ loading' = "native" /\ found' = <<>>
            /\ stopped = {o \in Operation : Running(o)}
  PROVE  CardsInv'
<1> USE DEF CardsInv
<1>1. StoreInv'
  BY StopPreserves
<1>2. \A o \in Operation :
        /\ method'[o] = IF o \in stopped THEN "none" ELSE method[o]
        /\ id'[o] = IF o \in stopped THEN NoId ELSE id[o]
        /\ op'[o] = IF o \in stopped THEN "threw" ELSE op[o]
        /\ todo'[o] = IF o \in stopped THEN <<>> ELSE todo[o]
        /\ result'[o] = IF o \in stopped THEN <<>> ELSE result[o]
  BY DEF Stop
<1>3. body' = body
  BY DEF Stop, storageVars
<1>4. OnlyTheLoadAndDeletes'
  BY <1>2 DEF OnlyTheLoadAndDeletes
<1>5. CASE UNCHANGED listVars
  <2>1. groups' = groups /\ loading' = loading /\ found' = found
    BY <1>5 DEF listVars
  <2>2. TypeOK' /\ FoundOnce' /\ Once(groups)'
    BY <1>1, <2>1 DEF TypeOK, StoreInv, FoundOnce, DistinctIds, Once
  <2>3. NothingShownYet'
    BY <1>2, <2>1 DEF NothingShownYet
  <2>4. Cards' = Cards /\ FromStore(Cards)' = FromStore(Cards)
    BY <2>1 DEF Cards, FromStore
  <2>5. ShownIsKept'
    BY <1>2, <1>3, <2>4 DEF ShownIsKept, ShownIsStored
  <2>6. CollectedOnce'
    <3>1. CASE Loader \in stopped
      <4>1. op'[Loader] = "threw" /\ result'[Loader] = <<>>
        BY <1>2, <3>1
      <4> QED BY <4>1, EmptyContainsNothing, EmptyIsInjective DEF CollectedOnce
    <3>2. CASE Loader \notin stopped
      <4>1. op'[Loader] = op[Loader] /\ result'[Loader] = result[Loader]
            /\ todo'[Loader] = todo[Loader]
        BY <1>2, <3>2, CallersAreIdsAndLoader
      <4> QED BY <1>3, <2>1, <4>1 DEF CollectedOnce
    <3> QED BY <3>1, <3>2
  <2> QED BY <1>1, <1>4, <2>2, <2>3, <2>5, <2>6
<1>6. CASE /\ groups' = <<>> /\ loading' = "native" /\ found' = <<>>
           /\ stopped = {o \in Operation : Running(o)}
  <2>1. <<>> \in Seq(Card) /\ <<>> \in Seq(Group) /\ DOMAIN <<>> = {}
    OBVIOUS
  <2>2. TypeOK'
    BY <1>1, <1>6, <2>1 DEF TypeOK, StoreInv, Group, Issuers
  <2>3. FoundOnce' /\ Once(groups)' /\ CollectedOnce'
    BY <1>6, <2>1 DEF FoundOnce, DistinctIds, Once, CollectedOnce
  <2>4. \A o \in Operation : method'[o] = "none"
    BY <1>2, <1>6 DEF StoreInv, Awaiting
  <2>5. NothingShownYet'
    BY <1>6, <2>4 DEF NothingShownYet
  <2>6. Cards' = {}
    BY <1>6, <2>1 DEF Cards
  <2>7. FromStore(Cards)' = {}
    BY <2>6 DEF FromStore
  <2>8. ShownIsKept'
    BY <2>7 DEF ShownIsKept, ShownIsStored
  <2> QED BY <1>1, <1>4, <2>2, <2>3, <2>5, <2>8
<1> QED BY <1>5, <1>6

LEMMA CardsNextKeeps ==
  CardsInv /\ [Next]_vars => CardsInv'
<1> SUFFICES ASSUME CardsInv, [Next]_vars PROVE CardsInv'
  OBVIOUS
<1>1. CASE NativeLoaded
  BY <1>1, NativeLoadedKeeps
<1>2. CASE StoreLoaded
  BY <1>2, StoreLoadedKeeps
<1>3. ASSUME NEW cards \in Selection, Delete(cards) \/ Unhide(cards) PROVE CardsInv'
  BY <1>3, DeleteKeeps, UnhideKeeps
<1>4. ASSUME NEW n \in DOMAIN ActiveGroups, NEW target \in DOMAIN ActiveGroups,
             ReorderGroup(Active(ActiveGroups[n])[1], target)
      PROVE  CardsInv'
  BY <1>4, ReorderKeeps
<1>5. CASE StorageStep
  <2>1. PICK o \in Operation : StorageCall(o) \/ StorageThrows(o)
    BY <1>5 DEF StorageStep
  <2>2. UNCHANGED listVars
    BY <1>5 DEF StorageStep
  <2>3. CASE StorageCall(o)
    BY <2>2, <2>3, StorageCallKeeps
  <2>4. CASE StorageThrows(o)
    <3>1. Stop({o}) /\ {o} \in SUBSET Operation /\ \A p \in {o} : Running(p)
      BY <2>4 DEF StorageThrows
    <3> QED BY <2>2, <3>1, StopKeeps
  <2> QED BY <2>1, <2>3, <2>4
<1>6. CASE Restart
  <2> DEFINE stopped == {o \in Operation : Running(o)}
  <2>1. /\ Stop(stopped) /\ stopped \in SUBSET Operation /\ \A o \in stopped : Running(o)
        /\ groups' = <<>> /\ loading' = "native" /\ found' = <<>>
    BY <1>6 DEF Restart
  <2> HIDE DEF stopped
  <2> QED BY <2>1, StopKeeps DEF stopped
<1>7. CASE UNCHANGED vars
  <2>1. UNCHANGED storeVars /\ groups' = groups /\ loading' = loading /\ found' = found
    BY <1>7 DEF vars, listVars
  <2>2. /\ StoreInv' /\ OnlyTheLoadAndDeletes' /\ FoundOnce' /\ CollectedOnce'
        /\ UNCHANGED <<body, method, op, id, todo, result, loading, found>>
    BY <2>1, LoadUnchanged
  <2>3. TypeOK' /\ NothingShownYet' /\ Once(groups)' /\ ShownIsKept'
    BY <2>1, <2>2 DEF CardsInv, TypeOK, StoreInv, NothingShownYet, Once, ShownIsKept,
                      ShownIsStored, FromStore, Cards
  <2> QED BY <2>2, <2>3 DEF CardsInv
<1> QED BY <1>1, <1>2, <1>3, <1>4, <1>5, <1>6, <1>7 DEF Next

\* However loads, drops, deletes, failures and restarts follow each other, a credential is
\* on the list once, in the one group of its issuer, whichever of the two sources it is from.
THEOREM CardsAreShownOnce == Spec => []EachCardOnce
<1>1. CardsInv => EachCardOnce
  BY DEF CardsInv, Once, EachCardOnce
<1> QED BY InitCards, CardsNextKeeps, <1>1, PTL DEF Spec

\* The list shows no credential whose body the store has given up, also while the deletes
\* of a selection overlap, and the store loses none the user did not delete.
THEOREM ListAgreesWithStore == Spec => []ListMatchesStore
<1>1. CardsInv => ListMatchesStore
  BY DEF CardsInv, StoreInv, ShownIsKept, ListMatchesStore
<1> QED BY InitCards, CardsNextKeeps, <1>1, PTL DEF Spec
=============================================================================
