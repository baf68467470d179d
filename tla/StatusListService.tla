--------------------------- MODULE StatusListService ---------------------------
(***************************************************************************)
(* Revocation and suspension checks.  VerifiableCredential.checkStatus     *)
(* keeps its last answer for five minutes and otherwise asks               *)
(* StatusListService, which parses the entries in Rust, gets each entry's  *)
(* list credential (from its own cache of five minutes, or over HTTP) and  *)
(* has Rust decide.  All of it runs on one isolate; a check is suspended   *)
(* at each await, so checks interleave between the steps below.            *)
(*                                                                         *)
(* The issuer republishes lists at any time.  published and since are its  *)
(* current lists and the time of their last change; a response carries the *)
(* list as it was when the server wrote the response.                      *)
(***************************************************************************)
EXTENDS BitstringStatus

CONSTANTS
  Check,         \* concurrent calls of checkStatus
  Credential,
  StatusOf,      \* the credentialStatus of a credential, or Absent
  Published,     \* the list credentials a URL may serve; Malformed: no object
  CacheLife,     \* both cacheDuration and the life of a CachedStatusCheck
  Flight,        \* bound: how long a request takes, in ticks
  MaxTime,       \* bound on the clock
  None

TimesAreNat == {CacheLife, Flight, MaxTime} \subseteq Nat

\* The entries of a credential are listed, and the bits of a list that decodes are bits.
StatusesAreLists ==
  \A cr \in Credential : StatusOf[cr] # Absent =>
    LET entries == StatusOf[cr].entries
    IN  entries \in Seq({entries[i] : i \in DOMAIN entries})
BitsAreBoolean ==
  \A u \in HttpUrl : \A list \in Published[u] \ {Malformed} :
    list.bits # Malformed => \A i \in DOMAIN list.bits : list.bits[i] \in BOOLEAN

VARIABLES
  now,
  published, since,
  cache,         \* _cache: a list and when it expires, per URL
  check,         \* the checks under way, and what the last one returned
  statusCheck    \* _cachedStatusCheck of each credential

vars == <<now, published, since, cache, check, statusCheck>>

Answer == [success : BOOLEAN, isRevoked : BOOLEAN \cup {None},
           isSuspended : BOOLEAN \cup {None}]
Failure == [success |-> FALSE, isRevoked |-> None, isSuspended |-> None]
NoStatusEntry == [success |-> TRUE, isRevoked |-> None, isSuspended |-> None]

Lists == UNION {Published[u] : u \in HttpUrl}

TypeOK ==
  /\ now \in 0 .. MaxTime
  /\ published \in [HttpUrl -> Lists] /\ since \in [HttpUrl -> 0 .. MaxTime]
  /\ \A u \in HttpUrl : cache[u] # None =>
       /\ cache[u].list \in Lists \ {Malformed}
       /\ cache[u].expiresAt \in 0 .. MaxTime + CacheLife
  /\ \A c \in Check :
       /\ check[c].at \in {"idle", "parsing", "requesting", "responding",
                           "evaluating", "returned"}
       /\ check[c].credential \in Credential \cup {None}
       /\ check[c].started \in 0 .. MaxTime /\ check[c].sent \in 0 .. MaxTime
       /\ check[c].list \in Lists \cup {None} /\ check[c].answer \in Answer
       /\ check[c].fromLists \in BOOLEAN
  /\ \A cr \in Credential : statusCheck[cr] # None =>
       /\ statusCheck[cr].result \in Answer
       /\ statusCheck[cr].cachedAt \in 0 .. MaxTime

Init ==
  /\ now = 0
  /\ published \in {f \in [HttpUrl -> Lists] : \A u \in HttpUrl : f[u] \in Published[u]}
  /\ since = [u \in HttpUrl |-> 0]
  /\ cache = [u \in HttpUrl |-> None]
  /\ check = [c \in Check |-> [at |-> "idle", credential |-> None, started |-> 0,
                               todo |-> <<>>, list |-> None, sent |-> 0,
                               answer |-> NoStatusEntry, fromLists |-> FALSE]]
  /\ statusCheck = [cr \in Credential |-> None]

-----------------------------------------------------------------------------
Entries(cr) == StatusOf[cr].entries
Url(c) == Head(check[c].todo).list
Fresh(u) == cache[u] # None /\ now <= cache[u].expiresAt
Current(cr) ==
  statusCheck[cr] # None /\ now - statusCheck[cr].cachedAt <= CacheLife

\* checkCredentialStatus returns to checkStatus, which keeps the answer whatever
\* it is.
Return(c, answer) ==
  /\ check' = [check EXCEPT ![c].at = "returned", ![c].answer = answer,
                            ![c].list = None, ![c].todo = <<>>]
  /\ statusCheck' = [statusCheck EXCEPT
       ![check[c].credential] = [result |-> answer, cachedAt |-> now]]

\* The head of the loop over the entries, entered with the answer so far: the
\* cache is read without an await, so the list it holds now is the one used.
NextEntry(c, todo, answer) ==
  LET here == [check[c] EXCEPT !.todo = todo, !.answer = answer]
      url == Head(todo).list
  IN  \/ todo = <<>> /\ Return(c, answer)
      \/ /\ todo # <<>> /\ Fresh(url)
         /\ check' = [check EXCEPT
              ![c] = [here EXCEPT !.at = "evaluating", !.list = cache[url].list]]
         /\ UNCHANGED statusCheck
      \/ /\ todo # <<>> /\ ~Fresh(url)
         /\ check' = [check EXCEPT
              ![c] = [here EXCEPT !.at = "requesting", !.sent = now]]
         /\ UNCHANGED statusCheck

Idle(c) == check[c].at \in {"idle", "returned"}

CheckCached(c, cr) ==
  /\ Idle(c) /\ Current(cr)
  /\ check' = [check EXCEPT
       ![c].at = "returned", ![c].credential = cr, ![c].started = now,
       ![c].answer = statusCheck[cr].result, ![c].fromLists = FALSE]
  /\ UNCHANGED <<now, published, since, cache, statusCheck>>

CheckNoStatus(c, cr) ==
  /\ Idle(c) /\ ~Current(cr) /\ StatusOf[cr] = Absent
  /\ check' = [check EXCEPT
       ![c].at = "returned", ![c].credential = cr, ![c].started = now,
       ![c].answer = NoStatusEntry, ![c].fromLists = FALSE]
  /\ statusCheck' = [statusCheck EXCEPT
       ![cr] = [result |-> NoStatusEntry, cachedAt |-> now]]
  /\ UNCHANGED <<now, published, since, cache>>

CheckStatus(c, cr) ==
  /\ Idle(c) /\ ~Current(cr) /\ StatusOf[cr] # Absent
  /\ check' = [check EXCEPT
       ![c].at = "parsing", ![c].credential = cr, ![c].started = now,
       ![c].answer = NoStatusEntry, ![c].fromLists = TRUE]
  /\ UNCHANGED <<now, published, since, cache, statusCheck>>

Parsed(c) ==
  /\ check[c].at = "parsing"
  /\ LET status == StatusOf[check[c].credential] IN
     \/ ParseStatusEntries(status) = Failed /\ Return(c, Failure)
     \/ /\ ParseStatusEntries(status) # Failed
        /\ NextEntry(c, status.entries, NoStatusEntry)
  /\ UNCHANGED <<now, published, since, cache>>

Respond(c) ==
  /\ check[c].at = "requesting"
  /\ check' = [check EXCEPT ![c].at = "responding", ![c].list = published[Url(c)]]
  /\ UNCHANGED <<now, published, since, cache, statusCheck>>

\* The response is stored by whichever check it answers: of two that overlap,
\* the later arrival stays, though it may carry the older list.
Arrive(c) ==
  /\ check[c].at = "responding" /\ check[c].list # Malformed
  /\ cache' = [cache EXCEPT
       ![Url(c)] = [list |-> check[c].list, expiresAt |-> now + CacheLife]]
  /\ check' = [check EXCEPT ![c].at = "evaluating"]
  /\ UNCHANGED <<now, published, since, statusCheck>>

\* No connection, a status that is not 200, or a body that is no JSON object.
FetchFails(c) ==
  /\ check[c].at \in {"requesting", "responding"}
  /\ Return(c, Failure)
  /\ UNCHANGED <<now, published, since, cache>>

\* A later entry of the same purpose replaces the decision of an earlier one.
Decide(answer, entry, asserted) ==
  IF entry.purpose = "revocation" THEN [answer EXCEPT !.isRevoked = asserted]
                                  ELSE [answer EXCEPT !.isSuspended = asserted]

Evaluated(c) ==
  /\ check[c].at = "evaluating"
  /\ LET entry == Head(check[c].todo)
         asserted == EvaluateBitstringStatus(entry, check[c].list)
     IN  \/ asserted = Failed /\ Return(c, Failure)
         \/ /\ asserted # Failed
            /\ NextEntry(c, Tail(check[c].todo), Decide(check[c].answer, entry, asserted))
  /\ UNCHANGED <<now, published, since, cache>>

ClearCache ==
  /\ cache' = [u \in HttpUrl |-> None]
  /\ UNCHANGED <<now, published, since, check, statusCheck>>

ClearStatusCache(cr) ==
  /\ statusCheck[cr] # None
  /\ statusCheck' = [statusCheck EXCEPT ![cr] = None]
  /\ UNCHANGED <<now, published, since, cache, check>>

-----------------------------------------------------------------------------
\* The issuer.
Publish(u) ==
  /\ \E list \in Published[u] \ {published[u]} :
       published' = [published EXCEPT ![u] = list]
  /\ since' = [since EXCEPT ![u] = now]
  /\ UNCHANGED <<now, cache, check, statusCheck>>

\* A bridge call takes no time on the clock of the caches, a request at most Flight.
Tick ==
  /\ now < MaxTime
  /\ \A c \in Check :
       /\ check[c].at \notin {"parsing", "evaluating"}
       /\ check[c].at \in {"requesting", "responding"} => now - check[c].sent < Flight
  /\ now' = now + 1
  /\ UNCHANGED <<published, since, cache, check, statusCheck>>

Step(c) == Parsed(c) \/ Respond(c) \/ Arrive(c) \/ FetchFails(c) \/ Evaluated(c)

Next ==
  \/ \E c \in Check : Step(c)
  \/ \E c \in Check, cr \in Credential :
       CheckCached(c, cr) \/ CheckNoStatus(c, cr) \/ CheckStatus(c, cr)
  \/ \E cr \in Credential : ClearStatusCache(cr)
  \/ \E u \in HttpUrl : Publish(u)
  \/ ClearCache
  \/ Tick

\* Rust answers, and so does the server or the operating system for it.
Fairness == \A c \in Check : WF_vars(Step(c))
Spec == Init /\ [][Next]_vars /\ Fairness

-----------------------------------------------------------------------------
\* What the issuer's list at the entry's URL means for the entry now: nothing,
\* unless it is that URL's own signed list for the entry's purpose.
Decision(entry) ==
  LET list == published[entry.list] IN
  IF /\ list # Malformed /\ list.proof
     /\ <<list.id, list.purpose>> = <<entry.list, entry.purpose>>
  THEN list.bits[entry.index] ELSE Failed
Reported(answer, entry) ==
  IF entry.purpose = "revocation" THEN answer.isRevoked ELSE answer.isSuspended

\* Of the entries of one purpose the last decides what is reported; the others only
\* have to be decidable.
LastOfPurpose(cr, i) ==
  \A j \in DOMAIN Entries(cr) : j > i => Entries(cr)[j].purpose # Entries(cr)[i].purpose
Agrees(answer, cr, i) ==
  LET entry == Entries(cr)[i] IN
  /\ Decision(entry) # Failed
  /\ LastOfPurpose(cr, i) => Reported(answer, entry) = Decision(entry)

\* A check that succeeds and started later than one cache life and one request
\* after the last change of a list reports what that list says now (for the last entry
\* of each purpose), and does not succeed when the list says nothing usable: neither overlapping
\* requests whose responses change places, nor a cleared cache written back by a late
\* response, nor a cached list keeps an older answer alive longer.
SettledListIsReported ==
  \A c \in Check : check[c].at = "returned" /\ check[c].fromLists /\ check[c].answer.success =>
    LET cr == check[c].credential IN
    \A i \in DOMAIN Entries(cr) :
      since[Entries(cr)[i].list] + CacheLife + Flight < check[c].started =>
        Agrees(check[c].answer, cr, i)

\* The two caches add up: a credential is shown as not revoked against its list
\* for at most two cache lives and its requests after the list changed, not for
\* the five minutes of one of them.
ShownForTwoLivesAtMost ==
  \A cr \in Credential :
    /\ Current(cr) /\ statusCheck[cr].result.success
    /\ StatusOf[cr] # Absent
    => \A i \in DOMAIN Entries(cr) :
         LET entry == Entries(cr)[i] IN
         /\ LastOfPurpose(cr, i) /\ Decision(entry) = TRUE
         /\ Reported(statusCheck[cr].result, entry) # TRUE
         => now <= since[entry.list] + 2 * CacheLife + Len(Entries(cr)) * Flight
================================================================================
