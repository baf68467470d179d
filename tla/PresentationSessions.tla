------------------------- MODULE PresentationSessions -------------------------
(***************************************************************************)
(* The native half of presenting a credential on Android                   *)
(* (SpruceIdHandlerRefactored.kt, VP and mDoc operations).  A first call   *)
(* parses the verifier's request, stores it under a fresh session id and   *)
(* returns the matching credentials; a second call names the session and   *)
(* the user's selection, takes the stored request out of the map and       *)
(* answers the verifier.  Each call is a coroutine on Dispatchers.IO, so   *)
(* calls interleave at every step; the map is one ConcurrentHashMap for    *)
(* both kinds of request, because ChannelRegistry gives every channel the  *)
(* same handler.                                                           *)
(*                                                                         *)
(* A call is used once, and the session a first call creates is named by   *)
(* that call: its UUID is as fresh as the call is.                         *)
(***************************************************************************)
EXTENDS FiniteSets

CONSTANTS
  Call,       \* method calls on the platform channels
  Field,      \* what a verifier's request asks for ...
  Required,   \* ... and what of it the verifier insists on
  NoSelection \* null: the caller passes no selectedFields

ASSUME RequiredAreFields == Required \subseteq Field

Kind == {"vp", "mdoc"}

\* The consent view's key for a field, '$namespace/$field', is what callers
\* select it by; the name is what follows the last slash of it.
Key(field) == <<"namespace", field>>
NameIn(key) == key[2]
Keys == {Key(f) : f \in Field}
Selection == {NoSelection} \cup SUBSET Keys

ASSUME NoSelectionIsNull == \A keys \in SUBSET Keys : keys # NoSelection

VARIABLES
  pendingRequests,  \* session -> the kind of request stored, or "absent"
  at,               \* where each call's coroutine is
  method,           \* the kind of presentation a call's method is for
  session,          \* the session a completing call names
  chosen,           \* its selectedFields
  reply,            \* what a call returned to Dart
  sent              \* history: the answers verifiers have received

callVars == <<at, method, session, chosen, reply>>
sessionVars == <<pendingRequests, callVars, sent>>

Answer == [by : Call, session : Call, kind : Kind, selected : Selection,
           fields : SUBSET (Field \cup Keys)]

SessionTypeOK ==
  /\ pendingRequests \in [Call -> Kind \cup {"absent"}]
  /\ at \in [Call -> {"idle", "parsing", "matching", "removing", "answering",
                      "returned"}]
  /\ method \in [Call -> Kind]
  /\ session \in [Call -> Call]
  /\ chosen \in [Call -> Selection]
  /\ reply \in [Call -> {"none", "select", "empty", "success", "error"}]
  /\ sent \subseteq Answer

SessionInit ==
  /\ pendingRequests = [s \in Call |-> "absent"]
  /\ at = [c \in Call |-> "idle"]
  /\ method = [c \in Call |-> "vp"]
  /\ session = [c \in Call |-> c]
  /\ chosen = [c \in Call |-> NoSelection]
  /\ reply = [c \in Call |-> "none"]
  /\ sent = {}

\* The coroutine of call c goes on to the next suspension point.
Advance(c, to) ==
  /\ at' = [at EXCEPT ![c] = to]
  /\ UNCHANGED <<method, session, chosen, reply>>

\* It ends with result.success or, for any exception, with result.error.
Return(c, result) ==
  /\ at' = [at EXCEPT ![c] = "returned"]
  /\ reply' = [reply EXCEPT ![c] = result]
  /\ UNCHANGED <<method, session, chosen>>

-----------------------------------------------------------------------------
\* Phase 1: handleVpRequest and createMdocResponse without a session id

Initiate(c, kind) ==
  /\ at[c] = "idle"
  /\ at' = [at EXCEPT ![c] = "parsing"]
  /\ method' = [method EXCEPT ![c] = kind]
  /\ UNCHANGED <<pendingRequests, session, chosen, reply, sent>>

\* No signer, an unreachable or malformed request: nothing is stored yet.
ParseFails(c) ==
  /\ at[c] = "parsing"
  /\ Return(c, "error")
  /\ UNCHANGED <<pendingRequests, sent>>

StoreRequest(c) ==
  /\ at[c] = "parsing"
  /\ pendingRequests' = [pendingRequests EXCEPT ![c] = method[c]]
  /\ Advance(c, "matching")
  /\ UNCHANGED sent

\* Mutant: the exception escapes the coroutine and nobody answers Dart.
MatchingFailsSilently(c) ==
  /\ at[c] = "matching"
  /\ Advance(c, "returned")
  /\ UNCHANGED <<pendingRequests, sent>>

\* Describing the matches throws: the session stays in the map, and its id
\* is lost with the exception.
MatchingFails(c) ==
  /\ at[c] = "matching"
  /\ Return(c, "error")
  /\ UNCHANGED <<pendingRequests, sent>>

\* "user_selection_required", also when no credential matches.
ReturnMatches(c) ==
  /\ at[c] = "matching"
  /\ \E result \in {"select", "empty"} : Return(c, result)
  /\ UNCHANGED <<pendingRequests, sent>>

-----------------------------------------------------------------------------
\* Phase 2: the same methods with a session id

Complete(c, kind, s, selected) ==
  /\ at[c] = "idle"
  /\ at' = [at EXCEPT ![c] = "removing"]
  /\ method' = [method EXCEPT ![c] = kind]
  /\ session' = [session EXCEPT ![c] = s]
  /\ chosen' = [chosen EXCEPT ![c] = selected]
  /\ UNCHANGED <<pendingRequests, reply, sent>>

\* Mutant: the session is looked up and left in the map.
GetSession(c) ==
  LET s == session[c]
  IN  /\ at[c] = "removing"
      /\ IF pendingRequests[s] = method[c]
         THEN Advance(c, "answering")
         ELSE Return(c, "error")
      /\ UNCHANGED <<pendingRequests, sent>>

\* Mutant: the stored request is used without looking at its type.
RemoveAnySession(c) ==
  LET s == session[c]
  IN  /\ at[c] = "removing"
      /\ pendingRequests' = [pendingRequests EXCEPT ![s] = "absent"]
      /\ IF pendingRequests[s] # "absent"
         THEN Advance(c, "answering")
         ELSE Return(c, "error")
      /\ UNCHANGED sent

\* pendingRequests.remove(sessionId) as? VpSession (or InProgressRequest).
RemoveSession(c) ==
  LET s == session[c]
  IN  /\ at[c] = "removing"
      /\ pendingRequests' = [pendingRequests EXCEPT ![s] = "absent"]
      /\ IF pendingRequests[s] = method[c]
         THEN Advance(c, "answering")
         ELSE Return(c, "error")    \* "Session expired or invalid"
      /\ UNCHANGED sent

\* What a completion gives to the SDK as the fields to share.  A VP passes the
\* keys on as they are, and the names of the required fields when there is no
\* selection; an mDoc takes the names out of the keys, adds the required fields,
\* and reads an empty selection, like a missing one, as all fields.
ApprovedFields(kind, selected) ==
  IF kind = "vp"
  THEN IF selected = NoSelection THEN Required ELSE selected
  ELSE {f \in Field : \/ selected \in {NoSelection, {}}
                      \/ f \in Required
                      \/ f \in {NameIn(key) : key \in selected}}

AnswerOf(c) ==
  [by |-> c, session |-> session[c], kind |-> method[c],
   selected |-> chosen[c],
   fields |-> ApprovedFields(method[c], chosen[c])]

\* Mutant: a failed answer puts the session back, so that it can be retried.
AnswerFailsAndRestores(c) ==
  /\ at[c] = "answering"
  /\ pendingRequests' = [pendingRequests EXCEPT
                           ![session[c]] = method[c]]
  /\ Return(c, "error")
  /\ UNCHANGED sent

\* An invalid selection, or the SDK cannot build or submit the answer.  The
\* session is already gone.
AnswerFails(c) ==
  /\ at[c] = "answering"
  /\ Return(c, "error")
  /\ UNCHANGED <<pendingRequests, sent>>

\* The verifier receives the answer; the reply of the submission may still be
\* lost, and then Dart is told of a failure.
AnswerVerifier(c) ==
  /\ at[c] = "answering"
  /\ sent' = sent \cup {AnswerOf(c)}
  /\ \E result \in {"success", "error"} : Return(c, result)
  /\ UNCHANGED pendingRequests

CallStep(c) ==
  \/ ParseFails(c)
  \/ StoreRequest(c)
  \/ MatchingFails(c)
  \/ ReturnMatches(c)
  \/ RemoveSession(c)
  \/ AnswerFails(c)
  \/ AnswerVerifier(c)

-----------------------------------------------------------------------------
(***************************************************************************)
(* The handler with callers that do anything the channels allow: complete  *)
(* a session twice at once, again after a failure, or with the other       *)
(* method.  A caller knows the ids returned to Dart, and may name one that *)
(* no session has (the call's own).                                        *)
(***************************************************************************)

KnownSession(c) == {c} \cup {s \in Call : reply[s] \in {"select", "empty"}}

SessionNext ==
  \E c \in Call :
     \/ \E kind \in Kind :
          \/ Initiate(c, kind)
          \/ \E s \in KnownSession(c), selected \in Selection :
               Complete(c, kind, s, selected)
     \/ CallStep(c)

\* A launched coroutine runs to its end: the SDK's blocking calls return or
\* throw.  Nobody owes the handler a call.
SessionSpec ==
  /\ SessionInit
  /\ [][SessionNext]_sessionVars
  /\ \A c \in Call : WF_sessionVars(CallStep(c))

\* A verifier gets at most one answer to a request it made, however many
\* completions name its session, and whether or not one of them failed.
AnsweredOnce ==
  \A x, y \in sent : x.session = y.session => x = y

\* An answer is built from a stored request of its own kind: the call that
\* created the session initiated the kind of presentation that answered it.
AnsweredAsRequested ==
  \A x \in sent :
     /\ method[x.session] = x.kind
     /\ reply[x.session] \in {"select", "empty"}

\* A session is over once a completion took it out of the map: it never
\* becomes available again, even when that completion fails.
OverOnceTaken ==
  [][\A s \in Call :
        /\ pendingRequests[s] = "absent"
        /\ at[s] \notin {"idle", "parsing"}
        => pendingRequests'[s] = "absent"]_sessionVars

\* Every call on the channel is answered, on every path through the handler:
\* an unanswered one leaves its Dart caller awaiting for ever.
EveryCallReturns ==
  \A c \in Call : at[c] # "idle" ~> reply[c] # "none"

\* "Selective disclosure - share only necessary information"
\* (DEEP_LINKING.md): an answer discloses nothing but what the user selected
\* and what the verifier insists on.
SharesOnlySelected ==
  \A x \in sent :
     x.selected # NoSelection =>
        x.fields \subseteq Required \cup x.selected
                             \cup {NameIn(key) : key \in x.selected}
=============================================================================
