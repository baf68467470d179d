------------------------- MODULE WalletCredentialStore -------------------------
(***************************************************************************)
(* The store of received credentials (wallet_credential_store.dart): one   *)
(* entry of the platform's secure storage per credential, and one more     *)
(* entry with the list of their ids, the index.  The class has no state    *)
(* and no lock: every method is a chain of awaited storage calls, so       *)
(* methods that are not awaited one after the other interleave at every    *)
(* call; a storage call may throw, and the process may be killed between   *)
(* any two calls.                                                          *)
(*                                                                         *)
(* A body is only present or absent here: what it holds is parsed by       *)
(* getAll, never compared.  A missing index reads as the empty list.       *)
(***************************************************************************)
EXTENDS SequencesExt, FiniteSets

CONSTANTS
  Id,          \* credential ids
  NoId,
  Operation    \* the callers: each has one call of a method open at a time

ASSUME NoIdAssumption == NoId \notin Id

VARIABLES
  body,        \* the ids that have a credential body
  index,       \* the value of the index entry
  op,          \* the storage call each operation awaits, or how it ended
  method,      \* which method it runs
  id,          \* its argument
  todo,        \* the index it is about to write, or the ids still to visit
  result,      \* what getAll collects and returns
  kept,        \* history: stored, acknowledged, and nobody asked to remove it
  cutOff,      \* history: ids whose last store stopped half-way
  expected     \* history: what a running getAll must not miss

storageVars == <<body, index>>
opVars == <<op, method, id, todo, result>>
historyVars == <<kept, cutOff, expected>>
storeVars == <<storageVars, opVars, historyVars>>

StorageOp == {"write body", "read index", "write index", "read body",
              "delete body"}

StoreTypeOK ==
  /\ body \subseteq Id
  /\ index \in Seq(Id)
  /\ op \in [Operation -> StorageOp \cup {"returned", "threw"}]
  /\ method \in [Operation -> {"none", "store", "getAll", "delete", "clear"}]
  /\ id \in [Operation -> Id \cup {NoId}]
  /\ todo \in [Operation -> Seq(Id)]
  /\ result \in [Operation -> Seq(Id)]
  /\ kept \subseteq Id
  /\ cutOff \subseteq Id
  /\ expected \in [Operation -> SUBSET Id]

StoreInit ==
  /\ body = {}
  /\ index = <<>>
  /\ op = [o \in Operation |-> "returned"]
  /\ method = [o \in Operation |-> "none"]
  /\ id = [o \in Operation |-> NoId]
  /\ todo = [o \in Operation |-> <<>>]
  /\ result = [o \in Operation |-> <<>>]
  /\ kept = {}
  /\ cutOff = {}
  /\ expected = [o \in Operation |-> {}]

Running(o) == op[o] \in StorageOp
Writing(methods) == \E o \in Operation : Running(o) /\ method[o] \in methods

-----------------------------------------------------------------------------
\* Calling a method: it runs to its first await.  deleteCard is not awaited by
\* the views that delete a selection, so deletes overlap each other and any
\* getAll.  A store or a clear is taken to wait for the other writers: nothing
\* in the class makes it wait, and two stores that read the index before either
\* writes it would lose an entry.

Begin(o, called, argument, first) ==
  /\ ~Running(o)
  /\ op' = [op EXCEPT ![o] = first]
  /\ method' = [method EXCEPT ![o] = called]
  /\ id' = [id EXCEPT ![o] = argument]
  /\ result' = [result EXCEPT ![o] = <<>>]
  /\ UNCHANGED <<storageVars, todo, cutOff>>

BeginStore(o, i) ==
  /\ ~Writing({"store", "delete", "clear"})
  /\ Begin(o, "store", i, "write body")
  /\ UNCHANGED <<kept, expected>>

BeginGetAll(o) ==
  /\ Begin(o, "getAll", NoId, "read index")
  /\ expected' = [expected EXCEPT ![o] = kept]
  /\ UNCHANGED kept

\* Once somebody asks to remove an id, what getAll returns of it is open.
BeginDelete(o, i) ==
  /\ ~Writing({"store", "clear"})
  /\ Begin(o, "delete", i, "delete body")
  /\ kept' = kept \ {i}
  /\ expected' = [p \in Operation |-> expected[p] \ {i}]

BeginClear(o) ==
  /\ ~Writing({"store", "delete", "clear"})
  /\ Begin(o, "clear", NoId, "read index")
  /\ kept' = {}
  /\ expected' = [p \in Operation |-> {}]

-----------------------------------------------------------------------------
\* One storage call, and the method up to its next one.

Await(o, next) ==
  /\ op' = [op EXCEPT ![o] = next]
  /\ UNCHANGED <<method, id, result, historyVars>>

\* The method returns, and its locals are gone.
Return(o) ==
  /\ op' = [op EXCEPT ![o] = "returned"]
  /\ method' = [method EXCEPT ![o] = "none"]
  /\ id' = [id EXCEPT ![o] = NoId]
  /\ todo' = [todo EXCEPT ![o] = <<>>]
  /\ expected' = [expected EXCEPT ![o] = {}]

\* A store that returns has stored its credential.
ReturnStored(o) ==
  /\ Return(o)
  /\ kept' = kept \cup {id[o]}
  /\ cutOff' = cutOff \ {id[o]}
  /\ UNCHANGED result

WriteBody(o) ==
  /\ op[o] = "write body"
  /\ body' = body \cup {id[o]}
  /\ Await(o, "read index")
  /\ UNCHANGED <<index, todo>>

StoreReadsIndex(o) ==
  /\ op[o] = "read index"
  /\ method[o] = "store"
  /\ IF Contains(index, id[o])
     THEN ReturnStored(o)
     ELSE /\ Await(o, "write index")
          /\ todo' = [todo EXCEPT ![o] = Append(index, id[o])]
  /\ UNCHANGED storageVars

DeleteBody(o) ==
  /\ op[o] = "delete body"
  /\ method[o] = "delete"
  /\ body' = body \ {id[o]}
  /\ Await(o, "read index")
  /\ UNCHANGED <<index, todo>>

\* Mutant: a delete drops the last entry of the index instead of its own.
DeleteDropsLast(o) ==
  /\ op[o] = "read index"
  /\ method[o] = "delete"
  /\ Await(o, "write index")
  /\ todo' = [todo EXCEPT ![o] = IF index = <<>> THEN <<>> ELSE Front(index)]
  /\ UNCHANGED storageVars

DeleteReadsIndex(o) ==
  /\ op[o] = "read index"
  /\ method[o] = "delete"
  /\ Await(o, "write index")
  /\ todo' = [todo EXCEPT ![o] = RemoveFirst(index, id[o])]
  /\ UNCHANGED storageVars

WriteIndex(o) ==
  /\ op[o] = "write index"
  /\ index' = todo[o]
  /\ \/ method[o] = "store" /\ ReturnStored(o)
     \/ method[o] = "delete" /\ Return(o) /\ UNCHANGED <<result, kept, cutOff>>
  /\ UNCHANGED body

\* Mutant: clear gives up the index before the bodies it lists.
ClearDropsIndex(o) ==
  /\ op[o] = "read index"
  /\ method[o] \in {"getAll", "clear"}
  /\ todo' = [todo EXCEPT ![o] = index]
  /\ Await(o, IF method[o] = "getAll" THEN "read body" ELSE "delete body")
  /\ index' = IF method[o] = "clear" THEN <<>> ELSE index
  /\ UNCHANGED body

\* getAll and clear loop over the index they read.
LoopReadsIndex(o) ==
  /\ op[o] = "read index"
  /\ method[o] \in {"getAll", "clear"}
  /\ todo' = [todo EXCEPT ![o] = index]
  /\ Await(o, IF method[o] = "getAll" THEN "read body" ELSE "delete body")
  /\ UNCHANGED storageVars

\* Mutant: getAll skips what follows an id whose body is missing.
ReadBodyOrStop(o) ==
  /\ op[o] = "read body"
  /\ todo[o] # <<>>
  /\ IF Head(todo[o]) \in body
     THEN /\ result' = [result EXCEPT ![o] = Append(@, Head(todo[o]))]
          /\ todo' = [todo EXCEPT ![o] = Tail(@)]
     ELSE /\ todo' = [todo EXCEPT ![o] = <<>>]
          /\ UNCHANGED result
  /\ UNCHANGED <<storageVars, op, method, id, historyVars>>

ReadBody(o) ==
  /\ op[o] = "read body"
  /\ todo[o] # <<>>
  /\ result' = IF Head(todo[o]) \in body
               THEN [result EXCEPT ![o] = Append(@, Head(todo[o]))]
               ELSE result
  /\ todo' = [todo EXCEPT ![o] = Tail(@)]
  /\ UNCHANGED <<storageVars, op, method, id, historyVars>>

GetAllReturns(o) ==
  /\ op[o] = "read body"
  /\ todo[o] = <<>>
  /\ Return(o)
  /\ UNCHANGED <<storageVars, result, kept, cutOff>>

ClearBody(o) ==
  /\ op[o] = "delete body"
  /\ method[o] = "clear"
  /\ todo[o] # <<>>
  /\ body' = body \ {Head(todo[o])}
  /\ todo' = [todo EXCEPT ![o] = Tail(@)]
  /\ UNCHANGED <<index, op, method, id, result, historyVars>>

\* After the last body, clear removes the index entry.
DeleteIndex(o) ==
  /\ op[o] = "delete body"
  /\ method[o] = "clear"
  /\ todo[o] = <<>>
  /\ index' = <<>>
  /\ Return(o)
  /\ UNCHANGED <<body, result, kept, cutOff>>

StorageCall(o) ==
  \/ WriteBody(o)
  \/ StoreReadsIndex(o)
  \/ DeleteBody(o)
  \/ DeleteReadsIndex(o)
  \/ WriteIndex(o)
  \/ LoopReadsIndex(o)
  \/ ReadBody(o)
  \/ GetAllReturns(o)
  \/ ClearBody(o)
  \/ DeleteIndex(o)

-----------------------------------------------------------------------------
\* Failures: the awaited call of one caller throws without effect, or the
\* process is killed and every running method is gone.

BodyWritten(o) == method[o] = "store" /\ op[o] \in {"read index", "write index"}

Stop(stopped) ==
  /\ op' = [o \in Operation |-> IF o \in stopped THEN "threw" ELSE op[o]]
  /\ method' = [o \in Operation |-> IF o \in stopped THEN "none" ELSE method[o]]
  /\ id' = [o \in Operation |-> IF o \in stopped THEN NoId ELSE id[o]]
  /\ todo' = [o \in Operation |-> IF o \in stopped THEN <<>> ELSE todo[o]]
  /\ result' = [o \in Operation |-> IF o \in stopped THEN <<>> ELSE result[o]]
  /\ expected' = [o \in Operation |-> IF o \in stopped THEN {} ELSE expected[o]]
  /\ cutOff' = cutOff \cup {id[o] : o \in {p \in stopped : BodyWritten(p)}}
  /\ UNCHANGED <<storageVars, kept>>

StorageThrows(o) ==
  /\ Running(o)
  /\ Stop({o})

Killed ==
  /\ \E o \in Operation : Running(o)
  /\ Stop({o \in Operation : Running(o)})

StoreNext ==
  \/ \E o \in Operation :
       \/ \E i \in Id : BeginStore(o, i) \/ BeginDelete(o, i)
       \/ BeginGetAll(o)
       \/ BeginClear(o)
       \/ StorageCall(o)
       \/ StorageThrows(o)
  \/ Killed

StoreSpec == StoreInit /\ [][StoreNext]_storeVars

-----------------------------------------------------------------------------
\* The index names a credential once, so getAll returns none twice, whatever
\* overlaps and whatever fails.
IndexIsASet == IsInjective(index)

\* A credential whose store was acknowledged and that nobody removed is there
\* and is listed, through kills, failures and the removal of others.
KeptIsStored == \A i \in kept : i \in body /\ Contains(index, i)

\* A body that no index entry leads to is that of a store under way or cut
\* off: removal never leaves one behind, wherever it stops.
OrphansAreCutOff ==
  \A i \in body :
     \/ Contains(index, i)
     \/ i \in cutOff
     \/ \E o \in Operation : BodyWritten(o) /\ id[o] = i

\* getAll returns every credential that was kept all along while it ran, even
\* when others are removed under its loop.
GetAllMissesNothing ==
  [][\A o \in Operation :
       method[o] = "getAll" /\ op'[o] = "returned" =>
          \A i \in expected[o] : Contains(result'[o], i)]_storeVars

\* "Delete all stored credentials." (clear): when clear returns and nobody
\* else is writing, no credential body is left.
ClearLeavesNothing ==
  [][\A o \in Operation :
       /\ method[o] = "clear" /\ op'[o] = "returned"
       /\ \A p \in Operation \ {o} : ~Running(p)
       => body' = {}]_storeVars
=============================================================================
