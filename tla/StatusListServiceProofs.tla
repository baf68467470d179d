------------------------ MODULE StatusListServiceProofs ------------------------
(***************************************************************************)
(* How old an answer about a status may be, for any number of checks,      *)
(* credentials and URLs, and any life of the caches.                       *)
(*                                                                         *)
(* The invariant never says when a list was read, only that it is the one  *)
(* published now unless the list has changed since a certain time.  That   *)
(* time grows on the way of a list: from the request that fetched it, to   *)
(* the cache, to the check that reads it there, to the answer it decides,  *)
(* to the answer a credential keeps.                                       *)
(***************************************************************************)
EXTENDS StatusListService, TLAPS

Entry == UNION {{Entries(cr)[i] : i \in DOMAIN Entries(cr)} :
                  cr \in {cr \in Credential : StatusOf[cr] # Absent}}

CheckRecord ==
  [at : {"idle", "parsing", "requesting", "responding", "evaluating", "returned"},
   credential : Credential \cup {None}, started : 0 .. MaxTime, todo : Seq(Entry),
   list : Lists \cup {None}, sent : 0 .. MaxTime, answer : Answer, fromLists : BOOLEAN]
CachedList == [list : Lists \ {Malformed}, expiresAt : 0 .. MaxTime + CacheLife]
KeptAnswer == [result : Answer, cachedAt : 0 .. MaxTime]

Typed ==
  /\ now \in 0 .. MaxTime
  /\ published \in [HttpUrl -> Lists] /\ since \in [HttpUrl -> 0 .. MaxTime]
  /\ cache \in [HttpUrl -> CachedList \cup {None}]
  /\ check \in [Check -> CheckRecord]
  /\ statusCheck \in [Credential -> KeptAnswer \cup {None}]

\* An entry agrees, or its list has changed lately: seen from the start of the check,
\* and from a time when n entries had been decided.
AgreesOrChanged(cr, i, n, answer, started, asOf) ==
  \/ Agrees(answer, cr, i)
  \/ /\ since[Entries(cr)[i].list] + CacheLife + Flight >= started
     /\ since[Entries(cr)[i].list] + CacheLife + n * Flight >= asOf

DecidedUpTo(cr, n, answer, started, asOf) ==
  \A i \in 1 .. n :
    /\ Entries(cr)[i].list \in HttpUrl /\ Entries(cr)[i].purpose \in Purpose
    /\ AgreesOrChanged(cr, i, n, answer, started, asOf)

Decided(c) == Len(Entries(check[c].credential)) - Len(check[c].todo)

\* A check on its way through the entries has decided the first of them.
UnderWay(c, asOf) ==
  /\ ParseStatusEntries(StatusOf[check[c].credential]) # Failed
  /\ check[c].answer.success
  /\ Len(check[c].todo) \in 1 .. Len(Entries(check[c].credential))
  /\ \A j \in 1 .. Len(check[c].todo) :
       check[c].todo[j] = Entries(check[c].credential)[Decided(c) + j]
  /\ DecidedUpTo(check[c].credential, Decided(c), check[c].answer, check[c].started, asOf)

Requesting(c) ==
  /\ check[c].started <= check[c].sent
  /\ check[c].sent <= now /\ now <= check[c].sent + Flight
  /\ UnderWay(c, check[c].sent)

\* A response carries the list of now, or the list has changed after the request.
Responding(c) ==
  /\ check[c].list \in Lists
  /\ check[c].list = published[Url(c)] \/ since[Url(c)] >= check[c].sent

Evaluating(c) ==
  /\ check[c].list \in Lists \ {Malformed}
  /\ \/ check[c].list = published[Url(c)]
     \/ /\ since[Url(c)] + CacheLife + Flight >= check[c].started
        /\ since[Url(c)] + CacheLife + Flight >= now
  /\ UnderWay(c, now - Flight)

Returned(c) ==
  check[c].fromLists /\ check[c].answer.success =>
    DecidedUpTo(check[c].credential, Len(Entries(check[c].credential)), check[c].answer,
                check[c].started, 0)

CheckInv(c) ==
  /\ check[c].started <= now
  /\ check[c].at # "idle" => check[c].credential \in Credential
  /\ check[c].at \in {"parsing", "requesting", "responding", "evaluating"} =>
       StatusOf[check[c].credential] # Absent /\ check[c].fromLists
  /\ check[c].at = "returned" /\ check[c].fromLists =>
       StatusOf[check[c].credential] # Absent
  /\ check[c].at \in {"requesting", "responding"} => Requesting(c)
  /\ check[c].at = "responding" => Responding(c)
  /\ check[c].at = "evaluating" => Evaluating(c)
  /\ check[c].at = "returned" => Returned(c)

CacheInv(u) ==
  cache[u] # None =>
    /\ cache[u].expiresAt <= now + CacheLife
    /\ cache[u].list = published[u] \/ since[u] + CacheLife + Flight >= cache[u].expiresAt

KeptInv(cr) ==
  statusCheck[cr] # None =>
    /\ statusCheck[cr].cachedAt <= now
    /\ StatusOf[cr] # Absent /\ statusCheck[cr].result.success =>
         DecidedUpTo(cr, Len(Entries(cr)), statusCheck[cr].result, 0, statusCheck[cr].cachedAt)

IInv ==
  /\ Typed
  /\ \A u \in HttpUrl : since[u] <= now /\ CacheInv(u)
  /\ \A c \in Check : CheckInv(c)
  /\ \A cr \in Credential : KeptInv(cr)

Fitting == TimesAreNat /\ StatusesAreLists /\ BitsAreBoolean

-----------------------------------------------------------------------------
\* The entries of a credential, and what Rust decides about one.

LEMMA EntriesAreListed ==
  ASSUME Fitting, NEW cr \in Credential, StatusOf[cr] # Absent
  PROVE  Entries(cr) \in Seq(Entry) /\ Len(Entries(cr)) \in Nat
<1> DEFINE e == Entries(cr)
           values == {e[i] : i \in DOMAIN e}
<1>1. e \in Seq(values)
  BY DEF Fitting, StatusesAreLists, Entries
<1>2. values \subseteq Entry
  BY DEF Entry
<1> HIDE DEF e, values
<1>3. Len(e) \in Nat /\ DOMAIN e = 1 .. Len(e) /\ \A i \in 1 .. Len(e) : e[i] \in Entry
  BY <1>1, <1>2
<1>4. e \in Seq(Entry)
  BY <1>1, <1>2, <1>3
<1> QED BY <1>3, <1>4 DEF e

LEMMA EntriesAreParsed ==
  ASSUME NEW cr, ParseStatusEntries(StatusOf[cr]) # Failed
  PROVE  /\ Len(Entries(cr)) \in 1 .. MAX_STATUS_ENTRIES
         /\ \A i \in DOMAIN Entries(cr) :
              Entries(cr)[i].list \in HttpUrl /\ Entries(cr)[i].purpose \in Purpose
BY DEF ParseStatusEntries, ParseEntry, Entries

\* A decision about an entry is a bit of a list of its own.
LEMMA EvaluatedIsBit ==
  ASSUME Fitting, NEW entry, NEW list \in Lists \ {Malformed},
         EvaluateBitstringStatus(entry, list) # Failed
  PROVE  /\ EvaluateBitstringStatus(entry, list) = list.bits[entry.index]
         /\ EvaluateBitstringStatus(entry, list) \in BOOLEAN
         /\ list.proof /\ list.id = entry.list /\ list.purpose = entry.purpose
<1>1. /\ ParseEntry(entry) = [purpose |-> entry.purpose, index |-> entry.index,
                             list |-> entry.list]
      /\ EvaluateBitstringStatus(entry, list) = list.bits[ParseEntry(entry).index]
      /\ list.bits # Malformed /\ ParseEntry(entry).index \in DOMAIN list.bits
      /\ list.proof /\ list.id = ParseEntry(entry).list
      /\ list.purpose = ParseEntry(entry).purpose
  BY DEF EvaluateBitstringStatus, ParseEntry, HasNonemptyProof
<1>2. list.bits[ParseEntry(entry).index] \in BOOLEAN
  BY <1>1 DEF Fitting, BitsAreBoolean, Lists
<1> QED BY <1>1, <1>2

LEMMA EvaluatedIsDecision ==
  ASSUME Fitting, NEW entry, published[entry.list] \in Lists \ {Malformed},
         EvaluateBitstringStatus(entry, published[entry.list]) # Failed
  PROVE  Decision(entry) = EvaluateBitstringStatus(entry, published[entry.list])
BY EvaluatedIsBit DEF Decision

-----------------------------------------------------------------------------
\* What has been decided stays decided: seen from an earlier time, and when an issuer
\* publishes another list.

LEMMA SeenEarlier ==
  ASSUME Fitting, Typed, NEW cr, NEW n \in Nat, NEW answer, NEW started \in Int,
         NEW asOf \in Int, DecidedUpTo(cr, n, answer, started, asOf),
         NEW before \in Int, NEW earlier \in Int, before <= started, earlier <= asOf
  PROVE  DecidedUpTo(cr, n, answer, before, earlier)
<1> SUFFICES ASSUME NEW i \in 1 .. n
             PROVE  AgreesOrChanged(cr, i, n, answer, before, earlier)
  BY DEF DecidedUpTo
<1> DEFINE entry == Entries(cr)[i]
<1>1. /\ AgreesOrChanged(cr, i, n, answer, started, asOf) /\ entry.list \in HttpUrl
      /\ entry = Entries(cr)[i]
  BY DEF DecidedUpTo
<1>2. since[entry.list] \in Int /\ CacheLife \in Int /\ Flight \in Int /\ n * Flight \in Int
  BY <1>1 DEF Typed, Fitting, TimesAreNat
<1> HIDE DEF entry
<1>3. CASE Agrees(answer, cr, i)
  BY <1>3 DEF AgreesOrChanged
<1>4. CASE ~Agrees(answer, cr, i)
  <2>1. /\ since[entry.list] + CacheLife + Flight >= started
        /\ since[entry.list] + CacheLife + n * Flight >= asOf
    BY <1>1, <1>4 DEF AgreesOrChanged
  <2>2. since[entry.list] + CacheLife + Flight >= before
    BY <1>2, <2>1
  <2> DEFINE bound == since[entry.list] + CacheLife + n * Flight
  <2>3. bound >= earlier
    <3>1. bound \in Int /\ bound >= asOf
      BY <1>2, <2>1
    <3> HIDE DEF bound
    <3> QED BY <3>1
  <2> QED BY <1>1, <2>2, <2>3 DEF AgreesOrChanged
<1> QED BY <1>3, <1>4

\* Lists and times are as before.
LEMMA SameLists ==
  ASSUME NEW cr, NEW n, NEW answer, NEW started, NEW asOf,
         DecidedUpTo(cr, n, answer, started, asOf), UNCHANGED <<published, since>>
  PROVE  DecidedUpTo(cr, n, answer, started, asOf)'
BY DEF DecidedUpTo, AgreesOrChanged, Agrees, Decision

LEMMA PublishedLater ==
  ASSUME Fitting, Typed, NEW cr, NEW n \in Nat, NEW answer, NEW started \in Int,
         NEW asOf \in Int, DecidedUpTo(cr, n, answer, started, asOf),
         NEW u \in HttpUrl, NEW list, published' = [published EXCEPT ![u] = list],
         since' = [since EXCEPT ![u] = now], started <= now, asOf <= now
  PROVE  DecidedUpTo(cr, n, answer, started, asOf)'
<1> SUFFICES ASSUME NEW i \in 1 .. n
             PROVE  AgreesOrChanged(cr, i, n, answer, started, asOf)'
  BY DEF DecidedUpTo
<1> DEFINE entry == Entries(cr)[i]
<1>1. /\ AgreesOrChanged(cr, i, n, answer, started, asOf) /\ entry.list \in HttpUrl
      /\ entry = Entries(cr)[i]
  BY DEF DecidedUpTo
<1> HIDE DEF entry
<1>2. CASE entry.list = u
  <2>1. since'[entry.list] = now /\ now \in Nat /\ CacheLife \in Nat /\ Flight \in Nat
    BY <1>2 DEF Typed, Fitting, TimesAreNat
  <2>2. n * Flight \in Nat
    BY <2>1
  <2> DEFINE later == n * Flight
  <2>3. since'[entry.list] + CacheLife + later >= asOf
    <3> HIDE DEF later
    <3> QED BY <2>1, <2>2 DEF later
  <2>4. since'[entry.list] + CacheLife + Flight >= started
    BY <2>1
  <2> QED BY <1>1, <2>3, <2>4 DEF AgreesOrChanged
<1>3. CASE entry.list # u
  <2>1. since'[entry.list] = since[entry.list] /\ published'[entry.list] = published[entry.list]
    BY <1>1, <1>3 DEF Typed
  <2> QED BY <1>1, <2>1 DEF AgreesOrChanged, Agrees, Decision
<1> QED BY <1>2, <1>3

\* The entry that was just evaluated joins the decided ones; the others keep their
\* decision, unless it was about the same purpose.
LEMMA OneMoreDecided ==
  ASSUME Fitting, Typed, NEW cr, NEW n \in Nat, NEW answer \in Answer, NEW started \in Int,
         DecidedUpTo(cr, n, answer, started, now - Flight),
         n + 1 \in DOMAIN Entries(cr), Entries(cr)[n + 1].list \in HttpUrl,
         Entries(cr)[n + 1].purpose \in Purpose, NEW list \in Lists \ {Malformed},
         EvaluateBitstringStatus(Entries(cr)[n + 1], list) # Failed,
         \/ list = published[Entries(cr)[n + 1].list]
         \/ /\ since[Entries(cr)[n + 1].list] + CacheLife + Flight >= started
            /\ since[Entries(cr)[n + 1].list] + CacheLife + Flight >= now
  PROVE  DecidedUpTo(cr, n + 1,
           Decide(answer, Entries(cr)[n + 1],
                  EvaluateBitstringStatus(Entries(cr)[n + 1], list)), started, now)
<1> DEFINE entry == Entries(cr)[n + 1]
           asserted == EvaluateBitstringStatus(entry, list)
           decided == Decide(answer, entry, asserted)
<1>1. /\ now \in Nat /\ CacheLife \in Nat /\ Flight \in Nat
      /\ \A u \in HttpUrl : since[u] \in Nat
  BY DEF Typed, Fitting, TimesAreNat
<1>2. n * Flight \in Nat /\ (n + 1) * Flight = n * Flight + Flight
  BY <1>1
<1> SUFFICES ASSUME NEW i \in 1 .. n + 1
             PROVE  /\ Entries(cr)[i].list \in HttpUrl /\ Entries(cr)[i].purpose \in Purpose
                    /\ AgreesOrChanged(cr, i, n + 1, decided, started, now)
  BY DEF DecidedUpTo
<1>3. CASE i = n + 1
  <2>1. CASE list = published[entry.list]
    <3>1. Decision(entry) = asserted
      BY <2>1, EvaluatedIsDecision
    <3>2. Reported(decided, entry) = asserted
      BY DEF Decide, Reported, Answer
    <3> QED BY <1>3, <3>1, <3>2 DEF AgreesOrChanged, Agrees
  <2>2. CASE list # published[entry.list]
    <3>1. /\ since[entry.list] + CacheLife + Flight >= started
          /\ since[entry.list] + CacheLife + Flight >= now
      BY <2>2
    <3> DEFINE product == n * Flight
               changed == since[entry.list]
    <3>2. changed + CacheLife + (product + Flight) >= now
      <4> changed \in Nat /\ product \in Nat /\ changed + CacheLife + Flight >= now
        BY <1>1, <1>2, <3>1
      <4> HIDE DEF product, changed
      <4> QED BY <1>1
    <3> QED BY <1>2, <1>3, <3>1, <3>2 DEF AgreesOrChanged
  <2> QED BY <1>3, <2>1, <2>2
<1>4. CASE i \in 1 .. n
  <2> DEFINE other == Entries(cr)[i]
  <2>1. other.list \in HttpUrl /\ other.purpose \in Purpose
    BY <1>4 DEF DecidedUpTo
  <2>2. AgreesOrChanged(cr, i, n + 1, decided, started, now)
    <3>1. LastOfPurpose(cr, i) => entry.purpose # other.purpose
      BY <1>4 DEF LastOfPurpose
    <3>2. LastOfPurpose(cr, i) => Reported(decided, other) = Reported(answer, other)
      BY <2>1, <3>1 DEF Decide, Reported, Answer, Purpose
    <3>3. AgreesOrChanged(cr, i, n, answer, started, now - Flight)
      BY <1>4 DEF DecidedUpTo
    <3>4. CASE Agrees(answer, cr, i)
      BY <3>2, <3>4 DEF Agrees, AgreesOrChanged
    <3>5. CASE ~Agrees(answer, cr, i)
      <4> DEFINE product == n * Flight
                 changed == since[other.list]
      <4>1. /\ changed + CacheLife + Flight >= started
            /\ changed + CacheLife + product >= now - Flight
        BY <3>3, <3>5 DEF AgreesOrChanged
      <4>2. changed + CacheLife + (product + Flight) >= now
        <5> changed \in Nat /\ product \in Nat
          BY <1>1, <1>2, <2>1
        <5> HIDE DEF product, changed
        <5> QED BY <1>1, <4>1
      <4> QED BY <1>2, <4>1, <4>2 DEF AgreesOrChanged
    <3> QED BY <3>4, <3>5
  <2> QED BY <2>1, <2>2
<1> QED BY <1>3, <1>4

-----------------------------------------------------------------------------
\* A check stands while lists, the clock and its own record stand.
LEMMA CheckStands ==
  ASSUME NEW d \in Check, CheckInv(d), UNCHANGED <<now, published, since>>,
         check'[d] = check[d]
  PROVE  CheckInv(d)'
<1>1. Url(d)' = Url(d) /\ Decided(d)' = Decided(d)
  BY DEF Url, Decided
<1>2. \A asOf : UnderWay(d, asOf) => UnderWay(d, asOf)'
  BY <1>1, SameLists DEF UnderWay
<1>3. Requesting(d) => Requesting(d)'
  BY <1>2 DEF Requesting
<1>4. Evaluating(d) => Evaluating(d)'
  <2>1. UnderWay(d, now - Flight) => UnderWay(d, now - Flight)'
    BY <1>1, SameLists DEF UnderWay
  <2> QED BY <1>1, <2>1 DEF Evaluating
<1>5. Returned(d) => Returned(d)'
  BY SameLists DEF Returned
<1>6. Responding(d) => Responding(d)'
  BY <1>1 DEF Responding
<1> QED BY <1>3, <1>4, <1>5, <1>6 DEF CheckInv

\* A step of one check; the other checks are as they were.
LEMMA OneCheckMoves ==
  ASSUME IInv, NEW c \in Check, Typed', UNCHANGED <<now, published, since>>,
         \A d \in Check \ {c} : check'[d] = check[d], CheckInv(c)',
         \A u \in HttpUrl : CacheInv(u)', \A cr \in Credential : KeptInv(cr)'
  PROVE  IInv'
<1>1. ASSUME NEW d \in Check \ {c} PROVE CheckInv(d)'
  BY CheckStands DEF IInv
<1> QED BY <1>1 DEF IInv

LEMMA CachesKept ==
  ASSUME IInv, UNCHANGED <<now, published, since, cache>>
  PROVE  \A u \in HttpUrl : CacheInv(u)'
BY DEF IInv, CacheInv

LEMMA AnswersKept ==
  ASSUME IInv, UNCHANGED <<now, published, since>>, NEW cr, statusCheck'[cr] = statusCheck[cr],
         cr \in Credential
  PROVE  KeptInv(cr)'
BY SameLists DEF IInv, KeptInv

LEMMA ReturnedRecord ==
  ASSUME NEW r \in CheckRecord, NEW answer \in Answer
  PROVE  [r EXCEPT !.at = "returned", !.answer = answer, !.list = None, !.todo = <<>>]
           \in CheckRecord
<1> DEFINE r1 == [r EXCEPT !.at = "returned"]
           r2 == [r1 EXCEPT !.answer = answer]
           r3 == [r2 EXCEPT !.list = None]
           r4 == [r3 EXCEPT !.todo = <<>>]
<1>1. r1 \in CheckRecord
  BY DEF CheckRecord
<1> HIDE DEF r1
<1>2. r2 \in CheckRecord
  BY <1>1 DEF CheckRecord
<1> HIDE DEF r2
<1>3. r3 \in CheckRecord
  BY <1>2 DEF CheckRecord
<1> HIDE DEF r3
<1>4. r4 \in CheckRecord
  <2>1. <<>> \in Seq(Entry)
    OBVIOUS
  <2> QED BY <1>3, <2>1 DEF CheckRecord
<1>5. r4 = [r EXCEPT !.at = "returned", !.answer = answer, !.list = None, !.todo = <<>>]
  BY DEF r1, r2, r3
<1> QED BY <1>4, <1>5

\* A check returns: with a failure, or when it has decided every entry.
LEMMA ReturnKeeps ==
  ASSUME Fitting, IInv, NEW c \in Check, NEW answer \in Answer,
         check[c].at \in {"parsing", "requesting", "responding", "evaluating"},
         answer.success =>
           DecidedUpTo(check[c].credential, Len(Entries(check[c].credential)), answer,
                       check[c].started, now),
         Return(c, answer), UNCHANGED <<now, published, since, cache>>
  PROVE  IInv'
<1>0. PICK cr \in Credential, started \in Nat :
        cr = check[c].credential /\ started = check[c].started
  <2>1. check[c] \in CheckRecord /\ CheckInv(c)
    BY DEF IInv, Typed
  <2>2. check[c].started \in Nat
    BY <2>1 DEF CheckRecord
  <2>3. check[c].credential \in Credential
    BY <2>1 DEF CheckInv
  <2> QED BY <2>2, <2>3
<1>1. /\ check[c] \in CheckRecord /\ StatusOf[cr] # Absent /\ now \in Nat
      /\ started <= now /\ check[c].fromLists
  BY <1>0 DEF IInv, Typed, CheckInv
<1>2. PICK n \in Nat : n = Len(Entries(cr))
  BY <1>1, EntriesAreListed
<1>3. /\ check'[c] = [check[c] EXCEPT !.at = "returned", !.answer = answer, !.list = None,
                                     !.todo = <<>>]
      /\ \A d \in Check \ {c} : check'[d] = check[d]
  BY DEF Return, IInv, Typed
<1>4. check'[c] \in CheckRecord
  <2>1. [check[c] EXCEPT !.at = "returned", !.answer = answer, !.list = None, !.todo = <<>>]
          \in CheckRecord
    BY <1>1, ReturnedRecord, Zenon
  <2> QED BY <1>3, <2>1, Zenon
<1>5. /\ check'[c].at = "returned" /\ check'[c].answer = answer
      /\ check'[c].credential = cr /\ check'[c].started = started
      /\ check'[c].fromLists
  BY <1>0, <1>1, <1>3 DEF CheckRecord
<1>6. check' \in [Check -> CheckRecord]
  <2>1. DOMAIN check' = Check /\ check' = [d \in Check |-> check'[d]]
    BY DEF Return, IInv, Typed
  <2>2. \A d \in Check : check'[d] \in CheckRecord
    BY <1>3, <1>4 DEF IInv, Typed
  <2> QED BY <2>1, <2>2
<1>7. /\ statusCheck' = [statusCheck EXCEPT ![cr] = [result |-> answer, cachedAt |-> now]]
      /\ statusCheck \in [Credential -> KeptAnswer \cup {None}]
      /\ [result |-> answer, cachedAt |-> now] \in KeptAnswer
  BY <1>0 DEF Return, IInv, Typed, KeptAnswer
<1>8. /\ statusCheck' \in [Credential -> KeptAnswer \cup {None}]
      /\ statusCheck'[cr] = [result |-> answer, cachedAt |-> now]
      /\ \A other \in Credential \ {cr} : statusCheck'[other] = statusCheck[other]
  BY <1>1, <1>7
<1>9. Typed'
  BY <1>6, <1>8 DEF IInv, Typed
<1>10. answer.success =>
         DecidedUpTo(cr, n, answer, started, 0) /\ DecidedUpTo(cr, n, answer, 0, now)
  BY <1>0, <1>1, <1>2, SeenEarlier DEF IInv
<1>11. PICK time \in Nat : time = now /\ now' = time
  BY <1>1
<1>12. answer.success =>
         DecidedUpTo(cr, n, answer, started, 0)' /\ DecidedUpTo(cr, n, answer, 0, time)'
  BY <1>10, <1>11, SameLists
<1>13. CheckInv(c)'
  <2>1. Returned(c)'
    BY <1>2, <1>5, <1>12 DEF Returned
  <2> QED BY <1>1, <1>5, <2>1 DEF CheckInv
<1>14. \A other \in Credential : KeptInv(other)'
  <2>1. KeptInv(cr)'
    BY <1>1, <1>2, <1>8, <1>11, <1>12 DEF KeptInv
  <2> QED BY <1>8, <2>1, AnswersKept
<1> QED BY <1>3, <1>9, <1>13, <1>14, OneCheckMoves, CachesKept

\* The first entry that is left is the one after those that are decided.
LEMMA FirstOfRest ==
  ASSUME NEW todo \in Seq(Entry), todo # <<>>, NEW cr, NEW n \in Nat,
         ParseStatusEntries(StatusOf[cr]) # Failed, Len(Entries(cr)) \in Nat,
         DOMAIN Entries(cr) = 1 .. Len(Entries(cr)),
         n = Len(Entries(cr)) - Len(todo),
         \A j \in 1 .. Len(todo) : todo[j] = Entries(cr)[n + j]
  PROVE  /\ Head(todo) = Entries(cr)[n + 1] /\ n + 1 \in DOMAIN Entries(cr)
         /\ Len(todo) \in 1 .. Len(Entries(cr))
         /\ Head(todo).list \in HttpUrl /\ Head(todo).purpose \in Purpose
<1>1. Len(todo) \in Nat \ {0} /\ Head(todo) = todo[1]
  OBVIOUS
<1>2. Head(todo) = Entries(cr)[n + 1] /\ n + 1 \in DOMAIN Entries(cr)
  BY <1>1
<1> QED BY <1>1, <1>2, EntriesAreParsed

LEMMA RestIsUnderWay ==
  ASSUME NEW c \in Check, NEW cr, NEW n, NEW todo, NEW answer, NEW started, NEW asOf,
         ParseStatusEntries(StatusOf[cr]) # Failed, answer.success,
         Len(todo) \in 1 .. Len(Entries(cr)), n = Len(Entries(cr)) - Len(todo),
         \A j \in 1 .. Len(todo) : todo[j] = Entries(cr)[n + j],
         DecidedUpTo(cr, n, answer, started, asOf), UNCHANGED <<published, since>>,
         check'[c].credential = cr, check'[c].todo = todo, check'[c].answer = answer,
         check'[c].started = started
  PROVE  UnderWay(c, asOf)'
<1>1. DecidedUpTo(cr, n, answer, started, asOf)'
  BY SameLists
<1> QED BY <1>1 DEF UnderWay, Decided

\* The record of a check that goes on to the next entry.
LEMMA NextRecord ==
  ASSUME Typed, NEW c \in Check, NEW todo \in Seq(Entry), NEW answer \in Answer,
         todo # <<>>, Head(todo).list \in HttpUrl, NextEntry(c, todo, answer)
  PROVE  \E r \in CheckRecord :
           /\ check' = [check EXCEPT ![c] = r] /\ UNCHANGED statusCheck
           /\ r.todo = todo /\ r.answer = answer /\ r.credential = check[c].credential
           /\ r.started = check[c].started /\ r.fromLists = check[c].fromLists
           /\ \/ /\ r.at = "evaluating" /\ Fresh(Head(todo).list)
                 /\ r.list = cache[Head(todo).list].list
              \/ r.at = "requesting" /\ r.sent = now
<1> DEFINE old == check[c]
           list == cache[Head(todo).list].list
           r1 == [old EXCEPT !.todo = todo]
           r2 == [r1 EXCEPT !.answer = answer]
           r3 == [r2 EXCEPT !.at = "evaluating"]
           r4 == [r3 EXCEPT !.list = list]
           r5 == [r2 EXCEPT !.at = "requesting"]
           r6 == [r5 EXCEPT !.sent = now]
<1>1. \/ Fresh(Head(todo).list) /\ check' = [check EXCEPT ![c] = r4] /\ UNCHANGED statusCheck
      \/ ~Fresh(Head(todo).list) /\ check' = [check EXCEPT ![c] = r6] /\ UNCHANGED statusCheck
  BY DEF NextEntry
<1>2. old \in CheckRecord /\ now \in 0 .. MaxTime
  BY DEF Typed
<1>3. Fresh(Head(todo).list) => list \in Lists
  BY DEF Fresh, Typed, CachedList
<1>4. /\ r1 \in CheckRecord /\ r1.todo = todo /\ r1.credential = old.credential
      /\ r1.started = old.started /\ r1.fromLists = old.fromLists
  <2> HIDE DEF old, list
  <2> QED BY <1>2 DEF CheckRecord
<1>5. /\ r2 \in CheckRecord /\ r2.todo = todo /\ r2.credential = old.credential
      /\ r2.started = old.started /\ r2.fromLists = old.fromLists /\ r2.answer = answer
  <2> HIDE DEF old, list, r1
  <2> QED BY <1>4 DEF CheckRecord
<1>6. /\ r3 \in CheckRecord /\ r3.todo = todo /\ r3.credential = old.credential
      /\ r3.started = old.started /\ r3.fromLists = old.fromLists /\ r3.answer = answer
      /\ r3.at = "evaluating"
  <2> HIDE DEF old, list, r2
  <2> QED BY <1>5 DEF CheckRecord
<1>7. Fresh(Head(todo).list) =>
      /\ r4 \in CheckRecord /\ r4.todo = todo /\ r4.credential = old.credential
      /\ r4.started = old.started /\ r4.fromLists = old.fromLists /\ r4.answer = answer
      /\ r4.at = "evaluating" /\ r4.list = list
  <2> HIDE DEF old, list, r3
  <2> QED BY <1>3, <1>6 DEF CheckRecord
<1>8. /\ r5 \in CheckRecord /\ r5.todo = todo /\ r5.credential = old.credential
      /\ r5.started = old.started /\ r5.fromLists = old.fromLists /\ r5.answer = answer
      /\ r5.at = "requesting"
  <2> HIDE DEF old, list, r2
  <2> QED BY <1>5 DEF CheckRecord
<1>9. /\ r6 \in CheckRecord /\ r6.todo = todo /\ r6.credential = old.credential
      /\ r6.started = old.started /\ r6.fromLists = old.fromLists /\ r6.answer = answer
      /\ r6.at = "requesting" /\ r6.sent = now
  <2> HIDE DEF old, list, r5
  <2> QED BY <1>2, <1>8 DEF CheckRecord
<1> HIDE DEF r4, r6
<1> QED BY <1>1, <1>7, <1>9

\* To the next entry: from the cache, over the network, or back to the caller.
LEMMA NextEntryKeeps ==
  ASSUME Fitting, IInv, NEW c \in Check, check[c].at \in {"parsing", "evaluating"},
         NEW cr \in Credential, cr = check[c].credential,
         NEW started \in Nat, started = check[c].started,
         NEW todo \in Seq(Entry), NEW answer \in Answer, NEW n \in Nat,
         ParseStatusEntries(StatusOf[cr]) # Failed, answer.success,
         n = Len(Entries(cr)) - Len(todo),
         \A j \in 1 .. Len(todo) : todo[j] = Entries(cr)[n + j],
         DecidedUpTo(cr, n, answer, started, now),
         NextEntry(c, todo, answer), UNCHANGED <<now, published, since, cache>>
  PROVE  IInv'
<1>1. /\ check[c] \in CheckRecord /\ StatusOf[cr] # Absent /\ check[c].fromLists
      /\ started <= now
  BY DEF IInv, Typed, CheckInv
<1>2. /\ Len(Entries(cr)) \in Nat /\ DOMAIN Entries(cr) = 1 .. Len(Entries(cr))
      /\ Len(todo) \in Nat
  BY <1>1, EntriesAreListed
<1>3. PICK time \in Nat : time = now /\ now' = time
  BY DEF IInv, Typed
<1>4. Flight \in Nat /\ CacheLife \in Nat
  BY DEF Fitting, TimesAreNat
<1>5. Typed
  BY DEF IInv
<1>8. DecidedUpTo(cr, n, answer, started, time)
  BY <1>3
<1>6. CASE todo = <<>>
  <2>1. Return(c, answer)
    BY <1>6 DEF NextEntry
  <2>2. n = Len(Entries(cr))
    BY <1>2, <1>6
  <2> QED BY <2>1, <2>2, ReturnKeeps
<1>7. CASE todo # <<>>
  <2> DEFINE url == Head(todo).list
  <2>1. /\ Head(todo) = Entries(cr)[n + 1] /\ Len(todo) \in 1 .. Len(Entries(cr))
        /\ url \in HttpUrl
    BY <1>2, <1>7, FirstOfRest, ZenonT(30)
  <2>2. UNCHANGED statusCheck
    BY <1>7 DEF NextEntry
  <2>3. ASSUME NEW r \in CheckRecord, check' = [check EXCEPT ![c] = r], r.todo = todo,
               r.credential = cr, r.started = started, r.fromLists, r.answer = answer,
               \/ r.at = "evaluating" /\ r.list = cache[url].list /\ Fresh(url)
               \/ r.at = "requesting" /\ r.sent = now
        PROVE  IInv'
    <3>1. Typed'
      BY <2>2, <2>3 DEF IInv, Typed
    <3>2. check'[c] = r /\ \A d \in Check \ {c} : check'[d] = check[d]
      BY <2>3 DEF IInv, Typed
    <3>3. Url(c)' = url
      BY <2>3, <3>2 DEF Url
    <3>6. /\ Len(todo) \in 1 .. Len(Entries(cr)) /\ check'[c].credential = cr
          /\ check'[c].todo = todo /\ check'[c].answer = answer
          /\ check'[c].started = started
      BY <2>1, <2>3, <3>2
    <3>4. CheckInv(c)'
      <4>1. CASE r.at = "evaluating"
        <5>0. r.list = cache[url].list /\ Fresh(url)
          BY <2>3, <4>1
        <5>1. DecidedUpTo(cr, n, answer, started, time - Flight)
          BY <1>4, <1>5, <1>8, SeenEarlier
        <5>2. UnderWay(c, time - Flight)'
          <6>1. PICK asOf : asOf = time - Flight
            OBVIOUS
          <6>2. DecidedUpTo(cr, n, answer, started, asOf)
            BY <5>1, <6>1
          <6>3. UnderWay(c, asOf)'
            BY <3>6, <6>2, RestIsUnderWay, ZenonT(60)
          <6> QED BY <6>1, <6>3
        <5>3. /\ cache[url] # None /\ now <= cache[url].expiresAt
              /\ cache[url] \in CachedList /\ CacheInv(url)
          BY <2>1, <5>0 DEF Fresh, IInv, Typed
        <5>4. /\ r.list \in Lists \ {Malformed}
              /\ \/ r.list = published[url]
                 \/ since[url] + CacheLife + Flight >= cache[url].expiresAt
              /\ cache[url].expiresAt \in Nat /\ since[url] \in Nat
          BY <2>1, <5>0, <5>3 DEF CachedList, CacheInv, IInv, Typed
        <5>5. \/ r.list = published[url]
              \/ /\ since[url] + CacheLife + Flight >= started
                 /\ since[url] + CacheLife + Flight >= time
          <6> DEFINE changed == since[url]
                     expires == cache[url].expiresAt
          <6>1. /\ changed \in Nat /\ expires \in Nat /\ started <= time /\ time <= expires
                /\ r.list = published[url] \/ changed + CacheLife + Flight >= expires
            BY <1>1, <1>3, <5>3, <5>4
          <6> HIDE DEF changed, expires
          <6>2. \/ r.list = published[url]
                \/ /\ changed + CacheLife + Flight >= started
                   /\ changed + CacheLife + Flight >= time
            BY <1>4, <6>1
          <6> QED BY <6>2 DEF changed
        <5>6. Evaluating(c)'
          BY <1>3, <2>3, <3>2, <3>3, <5>2, <5>4, <5>5 DEF Evaluating
        <5> QED BY <1>1, <1>3, <2>3, <3>2, <4>1, <5>6 DEF CheckInv
      <4>2. CASE r.at = "requesting"
        <5>1. UnderWay(c, time)'
          <6>1. PICK asOf : asOf = time
            OBVIOUS
          <6>2. DecidedUpTo(cr, n, answer, started, asOf)
            BY <1>8, <6>1
          <6>3. UnderWay(c, asOf)'
            BY <3>6, <6>2, RestIsUnderWay, ZenonT(60)
          <6> QED BY <6>1, <6>3
        <5>2. Requesting(c)'
          BY <1>1, <1>3, <1>4, <2>3, <3>2, <4>2, <5>1 DEF Requesting
        <5> QED BY <1>1, <1>3, <2>3, <3>2, <4>2, <5>2 DEF CheckInv
      <4> QED BY <2>3, <4>1, <4>2
    <3>5. \A other \in Credential : KeptInv(other)'
      BY <2>2, AnswersKept
    <3> QED BY <3>1, <3>2, <3>4, <3>5, OneCheckMoves, CachesKept
  <2>4. PICK r \in CheckRecord :
          /\ check' = [check EXCEPT ![c] = r] /\ r.todo = todo /\ r.answer = answer
          /\ r.credential = cr /\ r.started = started /\ r.fromLists
          /\ \/ r.at = "evaluating" /\ r.list = cache[url].list /\ Fresh(url)
             \/ r.at = "requesting" /\ r.sent = now
    BY <1>1, <1>5, <1>7, <2>1, NextRecord
  <2> QED BY <2>3, <2>4
<1> QED BY <1>6, <1>7

-----------------------------------------------------------------------------
\* The steps of a check.

LEMMA CheckIsTyped ==
  ASSUME IInv, NEW c \in Check
  PROVE  /\ check[c] \in CheckRecord /\ CheckInv(c) /\ Typed
         /\ check[c].started \in Nat /\ check[c].sent \in Nat
         /\ check[c].todo \in Seq(Entry) /\ check[c].answer \in Answer
         /\ check[c].at # "idle" => check[c].credential \in Credential
<1>1. check[c] \in CheckRecord /\ CheckInv(c) /\ Typed
  BY DEF IInv, Typed
<1> QED BY <1>1 DEF CheckRecord, CheckInv

\* Rust decides next on the first entry that the check has not decided.
LEMMA AboutTheNextEntry ==
  ASSUME Fitting, IInv, NEW c \in Check, NEW asOf, UnderWay(c, asOf),
         check[c].credential \in Credential, StatusOf[check[c].credential] # Absent
  PROVE  /\ check[c].todo # <<>> /\ Decided(c) \in Nat /\ Url(c) \in HttpUrl
         /\ Len(Entries(check[c].credential)) \in Nat
         /\ Decided(c) + 1 \in DOMAIN Entries(check[c].credential)
         /\ Head(check[c].todo) = Entries(check[c].credential)[Decided(c) + 1]
         /\ Head(check[c].todo).purpose \in Purpose
<1> DEFINE cr == check[c].credential
           todo == check[c].todo
           n == Decided(c)
<1>1. /\ Len(Entries(cr)) \in Nat /\ DOMAIN Entries(cr) = 1 .. Len(Entries(cr))
  BY EntriesAreListed
<1>2. todo \in Seq(Entry)
  BY CheckIsTyped
<1>3. /\ ParseStatusEntries(StatusOf[cr]) # Failed /\ Len(todo) \in 1 .. Len(Entries(cr))
      /\ \A j \in 1 .. Len(todo) : todo[j] = Entries(cr)[n + j]
      /\ n = Len(Entries(cr)) - Len(todo)
  BY DEF UnderWay, Decided
<1>4. todo # <<>> /\ n \in Nat /\ Url(c) = Head(todo).list
  <2>1. Len(todo) \in 1 .. Len(Entries(cr)) /\ Url(c) = Head(todo).list
    BY <1>3 DEF Url
  <2>2. todo # <<>>
    BY <1>1, <1>2, <2>1
  <2>3. n \in Nat
    <3> HIDE DEF n, todo, cr
    <3> QED BY <1>1, <1>3
  <2> QED BY <2>1, <2>2, <2>3
<1> HIDE DEF n, todo, cr
<1>5. /\ Head(todo) = Entries(cr)[n + 1] /\ n + 1 \in DOMAIN Entries(cr)
      /\ Head(todo).list \in HttpUrl /\ Head(todo).purpose \in Purpose
  BY <1>1, <1>2, <1>3, <1>4, FirstOfRest
<1> QED BY <1>1, <1>4, <1>5 DEF n, todo, cr

LEMMA FailureKeeps ==
  ASSUME Fitting, IInv, NEW c \in Check,
         check[c].at \in {"parsing", "requesting", "responding", "evaluating"},
         Return(c, Failure), UNCHANGED <<now, published, since, cache>>
  PROVE  IInv'
<1>1. Failure \in Answer /\ ~Failure.success
  BY DEF Failure, Answer
<1> QED BY <1>1, ReturnKeeps

LEMMA FetchFailsKeeps ==
  ASSUME Fitting, IInv, NEW c \in Check, FetchFails(c)
  PROVE  IInv'
BY FailureKeeps DEF FetchFails

LEMMA ParsedKeeps ==
  ASSUME Fitting, IInv, NEW c \in Check, Parsed(c)
  PROVE  IInv'
<1>1. PICK cr \in Credential, started \in Nat :
        cr = check[c].credential /\ started = check[c].started
  BY CheckIsTyped DEF Parsed
<1>2. check[c].at = "parsing" /\ StatusOf[cr] # Absent
  BY <1>1, CheckIsTyped DEF Parsed, CheckInv
<1>3. CASE ParseStatusEntries(StatusOf[cr]) = Failed
  BY <1>1, <1>2, <1>3, FailureKeeps DEF Parsed
<1>4. CASE ParseStatusEntries(StatusOf[cr]) # Failed
  <2>1. /\ NextEntry(c, Entries(cr), NoStatusEntry)
        /\ UNCHANGED <<now, published, since, cache>>
    BY <1>1, <1>4 DEF Parsed, Entries
  <2>2. NoStatusEntry \in Answer /\ NoStatusEntry.success
    BY DEF NoStatusEntry, Answer
  <2>3. Entries(cr) \in Seq(Entry) /\ 0 = Len(Entries(cr)) - Len(Entries(cr))
    BY <1>2, EntriesAreListed
  <2>4. \A j \in 1 .. Len(Entries(cr)) : Entries(cr)[j] = Entries(cr)[0 + j]
    OBVIOUS
  <2>5. DecidedUpTo(cr, 0, NoStatusEntry, started, now)
    BY DEF DecidedUpTo
  <2>6. check[c].at \in {"parsing", "evaluating"} /\ 0 \in Nat
    BY <1>2
  <2> QED BY <1>1, <1>4, <2>1, <2>2, <2>3, <2>4, <2>5, <2>6, NextEntryKeeps
<1> QED BY <1>3, <1>4

\* A check that waits is no further when lists and its own progress are as before.
LEMMA SameProgress ==
  ASSUME NEW c \in Check, NEW asOf, UnderWay(c, asOf), UNCHANGED <<published, since>>,
         check'[c].credential = check[c].credential, check'[c].todo = check[c].todo,
         check'[c].answer = check[c].answer, check'[c].started = check[c].started
  PROVE  UnderWay(c, asOf)'
<1>1. DecidedUpTo(check[c].credential, Decided(c), check[c].answer, check[c].started, asOf)
  BY DEF UnderWay
<1>2. PICK cr, n, answer, started :
        /\ cr = check[c].credential /\ n = Decided(c) /\ answer = check[c].answer
        /\ started = check[c].started
  OBVIOUS
<1>3. DecidedUpTo(cr, n, answer, started, asOf)'
  BY <1>1, <1>2, SameLists
<1>4. Decided(c)' = Decided(c)
  BY DEF Decided
<1> QED BY <1>2, <1>3, <1>4 DEF UnderWay

LEMMA RespondKeeps ==
  ASSUME Fitting, IInv, NEW c \in Check, Respond(c)
  PROVE  IInv'
<1>1. /\ check[c].at = "requesting" /\ Requesting(c) /\ Typed
      /\ check[c] \in CheckRecord /\ check[c].credential \in Credential
      /\ StatusOf[check[c].credential] # Absent /\ check[c].fromLists
      /\ check[c].started <= now
  BY CheckIsTyped DEF Respond, CheckInv
<1>2. Url(c) \in HttpUrl
  BY <1>1, AboutTheNextEntry DEF Requesting
<1> DEFINE list == published[Url(c)]
           r1 == [check[c] EXCEPT !.at = "responding"]
           r2 == [r1 EXCEPT !.list = list]
<1>3. list \in Lists
  BY <1>1, <1>2 DEF Typed
<1>4. r1 \in CheckRecord
  BY <1>1 DEF CheckRecord
<1>5. r2 \in CheckRecord
  <2> HIDE DEF r1, list
  <2> QED BY <1>3, <1>4 DEF CheckRecord
<1>6. /\ check' = [check EXCEPT ![c] = r2]
      /\ UNCHANGED <<now, published, since, cache, statusCheck>>
  BY DEF Respond
<1>7. /\ r2.at = "responding" /\ r2.list = list /\ r2.credential = check[c].credential
      /\ r2.started = check[c].started /\ r2.todo = check[c].todo
      /\ r2.sent = check[c].sent /\ r2.answer = check[c].answer
      /\ r2.fromLists = check[c].fromLists
  <2> HIDE DEF list
  <2> QED BY <1>1 DEF CheckRecord
<1> HIDE DEF r1, r2, list
<1>8. /\ check'[c] = r2 /\ \A d \in Check \ {c} : check'[d] = check[d]
      /\ check' \in [Check -> CheckRecord]
  BY <1>1, <1>5, <1>6 DEF Typed
<1>9. Typed'
  BY <1>1, <1>6, <1>8 DEF Typed
<1>10. CheckInv(c)'
  <2>1. PICK asOf : asOf = check[c].sent /\ UnderWay(c, asOf)
    BY <1>1 DEF Requesting
  <2>2. UnderWay(c, asOf)'
    BY <1>6, <1>7, <1>8, <2>1, SameProgress
  <2>3. Requesting(c)'
    BY <1>1, <1>6, <1>7, <1>8, <2>1, <2>2 DEF Requesting
  <2>4. Responding(c)'
    BY <1>3, <1>6, <1>7, <1>8 DEF Responding, Url, list
  <2> QED BY <1>1, <1>6, <1>7, <1>8, <2>3, <2>4 DEF CheckInv
<1> QED BY <1>6, <1>8, <1>9, <1>10, OneCheckMoves, CachesKept, AnswersKept

\* What has become of a list since the request is what has become of it since the
\* cache and the check took it.
LEMMA ArriveKeeps ==
  ASSUME Fitting, IInv, NEW c \in Check, Arrive(c)
  PROVE  IInv'
<1>1. /\ check[c].at = "responding" /\ Requesting(c) /\ Responding(c) /\ Typed
      /\ check[c] \in CheckRecord /\ check[c].credential \in Credential
      /\ StatusOf[check[c].credential] # Absent /\ check[c].fromLists
      /\ check[c].started <= now /\ check[c].list # Malformed
  BY CheckIsTyped DEF Arrive, CheckInv
<1>2. PICK url \in HttpUrl : url = Url(c)
  BY <1>1, AboutTheNextEntry DEF Requesting
<1> DEFINE r == [check[c] EXCEPT !.at = "evaluating"]
           entry == [list |-> check[c].list, expiresAt |-> now + CacheLife]
<1>3. /\ check[c].sent \in Nat /\ check[c].started \in Nat /\ now \in 0 .. MaxTime
      /\ Flight \in Nat /\ CacheLife \in Nat /\ MaxTime \in Nat /\ since[url] \in Nat
      /\ check[c].list \in Lists \ {Malformed}
  BY <1>1, <1>2, CheckIsTyped DEF Typed, Fitting, TimesAreNat, Responding
<1>4. entry \in CachedList /\ entry.list = check[c].list /\ entry.expiresAt = now + CacheLife
  BY <1>3 DEF CachedList
<1>5. /\ check' = [check EXCEPT ![c] = r] /\ cache' = [cache EXCEPT ![url] = entry]
      /\ UNCHANGED <<now, published, since, statusCheck>>
  BY <1>2 DEF Arrive
<1>6. /\ r \in CheckRecord /\ r.at = "evaluating" /\ r.list = check[c].list
      /\ r.credential = check[c].credential /\ r.started = check[c].started
      /\ r.todo = check[c].todo /\ r.answer = check[c].answer
      /\ r.fromLists = check[c].fromLists
  BY <1>1 DEF CheckRecord
<1>7. \/ check[c].list = published[url]
      \/ /\ since[url] + CacheLife + Flight >= check[c].started
         /\ since[url] + CacheLife + Flight >= now
         /\ since[url] + CacheLife + Flight >= now + CacheLife
  <2>1. check[c].list = published[url] \/ since[url] >= check[c].sent
    BY <1>1, <1>2 DEF Responding
  <2>2. check[c].started <= now /\ now <= check[c].sent + Flight
    BY <1>1 DEF Requesting
  <2> DEFINE changed == since[url]
             started == check[c].started
             sent == check[c].sent
  <2>3. /\ sent \in Nat /\ started \in Nat /\ changed \in Nat /\ now \in Nat
        /\ check[c].list = published[url] \/ changed >= sent
        /\ started <= now /\ now <= sent + Flight
    BY <1>3, <2>1, <2>2
  <2> HIDE DEF changed, started, sent
  <2>4. \/ check[c].list = published[url]
        \/ /\ changed + CacheLife + Flight >= started
           /\ changed + CacheLife + Flight >= now
           /\ changed + CacheLife + Flight >= now + CacheLife
    BY <1>3, <2>3
  <2> QED BY <2>4 DEF changed, started
<1>8. UnderWay(c, check[c].sent)
  BY <1>1 DEF Requesting
<1> HIDE DEF r, entry
<1>9. /\ check'[c] = r /\ \A d \in Check \ {c} : check'[d] = check[d]
      /\ check' \in [Check -> CheckRecord]
  BY <1>1, <1>5, <1>6 DEF Typed
<1>10. /\ cache' \in [HttpUrl -> CachedList \cup {None}] /\ cache'[url] = entry
       /\ \A u \in HttpUrl \ {url} : cache'[u] = cache[u]
  BY <1>1, <1>2, <1>4, <1>5 DEF Typed
<1>11. Typed'
  BY <1>1, <1>5, <1>9, <1>10 DEF Typed
<1>12. PICK time \in Nat : time = now /\ now' = time
  BY <1>3, <1>5
<1>13. CheckInv(c)'
  <2>1. UnderWay(c, time - Flight)
    <3>1. PICK cr, n, answer, started, sent :
            /\ cr = check[c].credential /\ n = Decided(c) /\ answer = check[c].answer
            /\ started = check[c].started /\ sent = check[c].sent
      OBVIOUS
    <3>2. DecidedUpTo(cr, n, answer, started, sent) /\ n \in Nat
      BY <1>1, <1>8, <3>1, AboutTheNextEntry DEF UnderWay
    <3>3. time - Flight \in Int /\ time - Flight <= sent /\ sent \in Int /\ started \in Int
      BY <1>1, <1>3, <1>12, <3>1 DEF Requesting
    <3>4. DecidedUpTo(cr, n, answer, started, time - Flight)
      BY <1>1, <3>2, <3>3, SeenEarlier
    <3> QED BY <1>8, <3>1, <3>4 DEF UnderWay
  <2>2. UnderWay(c, time - Flight)'
    BY <1>5, <1>6, <1>9, <2>1, SameProgress
  <2>3. Url(c)' = url
    BY <1>2, <1>6, <1>9 DEF Url
  <2>4. Evaluating(c)'
    BY <1>3, <1>5, <1>6, <1>7, <1>9, <1>12, <2>2, <2>3 DEF Evaluating
  <2> QED BY <1>1, <1>5, <1>6, <1>9, <2>4 DEF CheckInv
<1>14. \A u \in HttpUrl : CacheInv(u)'
  <2>1. CacheInv(url)'
    <3>1. /\ cache'[url].list = check[c].list /\ cache'[url].expiresAt = now + CacheLife
          /\ published' = published /\ since' = since /\ now' = now
      BY <1>4, <1>5, <1>10
    <3>2. /\ now + CacheLife <= now + CacheLife
          /\ \/ check[c].list = published[url]
             \/ since[url] + CacheLife + Flight >= now + CacheLife
      BY <1>3, <1>7
    <3> QED BY <3>1, <3>2 DEF CacheInv
  <2>2. ASSUME NEW u \in HttpUrl \ {url}
        PROVE  CacheInv(u)'
    <3>1. CacheInv(u) /\ cache'[u] = cache[u]
      BY <1>10 DEF IInv
    <3> QED BY <1>5, <3>1 DEF CacheInv
  <2> QED BY <2>1, <2>2
<1> QED BY <1>5, <1>9, <1>11, <1>13, <1>14, OneCheckMoves, AnswersKept

LEMMA EvaluatedKeeps ==
  ASSUME Fitting, IInv, NEW c \in Check, Evaluated(c)
  PROVE  IInv'
<1>0. PICK list : list = check[c].list
  OBVIOUS
<1>1. PICK cr \in Credential, started \in Nat, todo \in Seq(Entry), answer \in Answer :
        /\ cr = check[c].credential /\ started = check[c].started /\ todo = check[c].todo
        /\ answer = check[c].answer /\ list = check[c].list
  BY <1>0, CheckIsTyped DEF Evaluated
<1>2. /\ check[c].at = "evaluating" /\ Evaluating(c) /\ Typed
      /\ StatusOf[cr] # Absent /\ list \in Lists \ {Malformed}
      /\ UnderWay(c, now - Flight)
  BY <1>1, CheckIsTyped DEF Evaluated, CheckInv, Evaluating
<1>3. PICK n \in Nat : n = Decided(c)
  BY <1>1, <1>2, AboutTheNextEntry
<1> DEFINE entry == Entries(cr)[n + 1]
           asserted == EvaluateBitstringStatus(entry, list)
           decided == Decide(answer, entry, asserted)
<1>4. /\ Head(todo) = entry /\ Url(c) = entry.list /\ entry.list \in HttpUrl
      /\ n + 1 \in DOMAIN Entries(cr) /\ entry.purpose \in Purpose
      /\ todo # <<>> /\ Len(Entries(cr)) \in Nat
  BY <1>1, <1>2, <1>3, AboutTheNextEntry DEF Url
<1>5. CASE asserted = Failed
  BY <1>1, <1>2, <1>4, <1>5, FailureKeeps DEF Evaluated
<1>6. CASE asserted # Failed
  <2>1. /\ NextEntry(c, Tail(todo), decided)
        /\ UNCHANGED <<now, published, since, cache>>
    BY <1>1, <1>4, <1>6 DEF Evaluated
  <2>2. /\ ParseStatusEntries(StatusOf[cr]) # Failed /\ answer.success
        /\ Len(todo) = Len(Entries(cr)) - n
        /\ \A j \in 1 .. Len(todo) : todo[j] = Entries(cr)[n + j]
        /\ DecidedUpTo(cr, n, answer, started, now - Flight)
    <3>1. n = Len(Entries(cr)) - Len(todo)
      BY <1>1, <1>3 DEF Decided
    <3>2. Len(todo) \in Nat
      OBVIOUS
    <3>3. Len(todo) = Len(Entries(cr)) - n
      BY <1>4, <3>1, <3>2
    <3>4. /\ ParseStatusEntries(StatusOf[cr]) # Failed /\ answer.success
          /\ \A j \in 1 .. Len(todo) : todo[j] = Entries(cr)[n + j]
          /\ DecidedUpTo(cr, n, answer, started, now - Flight)
      BY <1>1, <1>2, <1>3 DEF UnderWay
    <3> QED BY <3>3, <3>4
  <2>3. decided \in Answer /\ decided.success
    <3>1. asserted \in BOOLEAN
      BY <1>2, <1>6, EvaluatedIsBit
    <3> HIDE DEF asserted
    <3> QED BY <1>1, <2>2, <3>1 DEF Decide, Answer
  <2>4. DecidedUpTo(cr, n + 1, decided, started, now)
    <3>1. \/ list = published[entry.list]
          \/ /\ since[entry.list] + CacheLife + Flight >= started
             /\ since[entry.list] + CacheLife + Flight >= now
      BY <1>1, <1>2, <1>4 DEF Evaluating
    <3> QED BY <1>2, <1>4, <1>6, <2>2, <3>1, OneMoreDecided
  <2>5. /\ Tail(todo) \in Seq(Entry) /\ Len(Tail(todo)) = Len(todo) - 1
        /\ \A j \in 1 .. Len(Tail(todo)) : Tail(todo)[j] = todo[j + 1]
    BY <1>4
  <2>6. /\ n + 1 \in Nat /\ n + 1 = Len(Entries(cr)) - Len(Tail(todo))
        /\ \A j \in 1 .. Len(Tail(todo)) : Tail(todo)[j] = Entries(cr)[(n + 1) + j]
    <3>1. Len(todo) \in Nat /\ n + 1 \in Nat
      OBVIOUS
    <3>2. ASSUME NEW j \in 1 .. Len(Tail(todo))
          PROVE  Tail(todo)[j] = Entries(cr)[(n + 1) + j]
      <4>1. j + 1 \in 1 .. Len(todo) /\ n + (j + 1) = (n + 1) + j
        BY <2>5, <3>1
      <4> QED BY <2>2, <2>5, <4>1
    <3>3. n + 1 = Len(Entries(cr)) - Len(Tail(todo))
      BY <1>4, <2>2, <2>5, <3>1
    <3> QED BY <3>1, <3>2, <3>3
  <2> HIDE DEF decided
  <2>7. check[c].at \in {"parsing", "evaluating"}
    BY <1>2
  <2> QED BY <1>1, <2>1, <2>2, <2>3, <2>4, <2>5, <2>6, <2>7, NextEntryKeeps, ZenonT(30)
<1> QED BY <1>5, <1>6

-----------------------------------------------------------------------------
\* The calls that begin a check, and the answers that are kept.

LEMMA KeptAnswerAgrees ==
  ASSUME IInv, NEW cr \in Credential, Current(cr)
  PROVE  statusCheck[cr] \in KeptAnswer /\ statusCheck[cr].result \in Answer
BY DEF IInv, Typed, Current, KeptAnswer

Begun(r, at, cr, answer) ==
  [r EXCEPT !.at = at, !.credential = cr, !.started = now, !.answer = answer,
            !.fromLists = (at = "parsing")]

LEMMA BegunRecord ==
  ASSUME Typed, NEW r \in CheckRecord, NEW at \in {"parsing", "returned"},
         NEW cr \in Credential, NEW answer \in Answer
  PROVE  /\ Begun(r, at, cr, answer) \in CheckRecord
         /\ Begun(r, at, cr, answer).at = at /\ Begun(r, at, cr, answer).credential = cr
         /\ Begun(r, at, cr, answer).started = now
         /\ Begun(r, at, cr, answer).fromLists <=> at = "parsing"
<1> DEFINE r1 == [r EXCEPT !.at = at]
           r2 == [r1 EXCEPT !.credential = cr]
           r3 == [r2 EXCEPT !.started = now]
           r4 == [r3 EXCEPT !.answer = answer]
           r5 == [r4 EXCEPT !.fromLists = (at = "parsing")]
<1>1. r1 \in CheckRecord /\ r1.at = at
  BY DEF CheckRecord
<1>2. r2 \in CheckRecord /\ r2.at = at /\ r2.credential = cr
  <2> HIDE DEF r1
  <2> QED BY <1>1 DEF CheckRecord
<1>3. r3 \in CheckRecord /\ r3.at = at /\ r3.credential = cr /\ r3.started = now
  <2> HIDE DEF r2
  <2> QED BY <1>2 DEF CheckRecord, Typed
<1>4. r4 \in CheckRecord /\ r4.at = at /\ r4.credential = cr /\ r4.started = now
  <2> HIDE DEF r3
  <2> QED BY <1>3 DEF CheckRecord
<1>5. /\ r5 \in CheckRecord /\ r5.at = at /\ r5.credential = cr /\ r5.started = now
      /\ r5.fromLists <=> at = "parsing"
  <2> HIDE DEF r4
  <2> QED BY <1>4 DEF CheckRecord
<1>6. Begun(r, at, cr, answer) = r5
  BY DEF Begun
<1> HIDE DEF r5
<1> QED BY <1>5, <1>6

LEMMA BegunKeeps ==
  ASSUME IInv, NEW c \in Check, NEW r \in CheckRecord, NEW cr \in Credential,
         check' = [check EXCEPT ![c] = r], UNCHANGED <<now, published, since, cache>>,
         r.started = now, r.credential = cr, r.fromLists => StatusOf[cr] # Absent,
         (r.at = "parsing" /\ r.fromLists) \/ (r.at = "returned" /\ ~r.fromLists),
         \A other \in Credential \ {cr} : statusCheck'[other] = statusCheck[other],
         statusCheck' \in [Credential -> KeptAnswer \cup {None}], KeptInv(cr)'
  PROVE  IInv'
<1>1. /\ check'[c] = r /\ \A d \in Check \ {c} : check'[d] = check[d]
      /\ check' \in [Check -> CheckRecord] /\ Typed /\ now \in Nat
  BY DEF IInv, Typed
<1>2. Typed'
  BY <1>1 DEF Typed
<1>3. CheckInv(c)'
  BY <1>1 DEF CheckInv, Returned
<1>4. \A other \in Credential : KeptInv(other)'
  BY AnswersKept
<1> QED BY <1>1, <1>2, <1>3, <1>4, OneCheckMoves, CachesKept

LEMMA CheckCachedKeeps ==
  ASSUME IInv, NEW c \in Check, NEW cr \in Credential, CheckCached(c, cr)
  PROVE  IInv'
<1>1. /\ check[c] \in CheckRecord /\ Typed
      /\ statusCheck[cr].result \in Answer
      /\ statusCheck \in [Credential -> KeptAnswer \cup {None}]
  BY CheckIsTyped, KeptAnswerAgrees DEF CheckCached, Typed
<1>2. PICK r : r = Begun(check[c], "returned", cr, statusCheck[cr].result)
  OBVIOUS
<1>3. /\ check' = [check EXCEPT ![c] = r]
      /\ UNCHANGED <<now, published, since, cache, statusCheck>>
  BY <1>2 DEF CheckCached, Begun
<1>4. /\ r \in CheckRecord /\ r.at = "returned" /\ r.credential = cr /\ r.started = now
      /\ ~r.fromLists
  BY <1>1, <1>2, BegunRecord
<1>5. KeptInv(cr)'
  BY <1>3, AnswersKept
<1> QED BY <1>1, <1>3, <1>4, <1>5, BegunKeeps

LEMMA CheckStatusKeeps ==
  ASSUME IInv, NEW c \in Check, NEW cr \in Credential, CheckStatus(c, cr)
  PROVE  IInv'
<1>1. /\ check[c] \in CheckRecord /\ Typed /\ NoStatusEntry \in Answer
      /\ statusCheck \in [Credential -> KeptAnswer \cup {None}] /\ StatusOf[cr] # Absent
  BY CheckIsTyped DEF CheckStatus, Typed, NoStatusEntry, Answer
<1>2. PICK r : r = Begun(check[c], "parsing", cr, NoStatusEntry)
  OBVIOUS
<1>3. /\ check' = [check EXCEPT ![c] = r]
      /\ UNCHANGED <<now, published, since, cache, statusCheck>>
  BY <1>2 DEF CheckStatus, Begun
<1>4. /\ r \in CheckRecord /\ r.at = "parsing" /\ r.credential = cr /\ r.started = now
      /\ r.fromLists
  BY <1>1, <1>2, BegunRecord
<1>5. KeptInv(cr)'
  BY <1>3, AnswersKept
<1>6. /\ r.fromLists => StatusOf[cr] # Absent
      /\ (r.at = "parsing" /\ r.fromLists) \/ (r.at = "returned" /\ ~r.fromLists)
  BY <1>1, <1>4
<1>7. /\ \A other \in Credential \ {cr} : statusCheck'[other] = statusCheck[other]
      /\ statusCheck' \in [Credential -> KeptAnswer \cup {None}]
  BY <1>1, <1>3
<1> QED BY <1>3, <1>4, <1>5, <1>6, <1>7, BegunKeeps

LEMMA CheckNoStatusKeeps ==
  ASSUME IInv, NEW c \in Check, NEW cr \in Credential, CheckNoStatus(c, cr)
  PROVE  IInv'
<1>1. /\ check[c] \in CheckRecord /\ Typed /\ now \in 0 .. MaxTime
      /\ NoStatusEntry \in Answer
      /\ statusCheck \in [Credential -> KeptAnswer \cup {None}] /\ StatusOf[cr] = Absent
  BY CheckIsTyped DEF CheckNoStatus, Typed, NoStatusEntry, Answer
<1>2. PICK r : r = Begun(check[c], "returned", cr, NoStatusEntry)
  OBVIOUS
<1>3. /\ check' = [check EXCEPT ![c] = r]
      /\ statusCheck' = [statusCheck EXCEPT
           ![cr] = [result |-> NoStatusEntry, cachedAt |-> now]]
      /\ UNCHANGED <<now, published, since, cache>>
  BY <1>2 DEF CheckNoStatus, Begun
<1>4. /\ r \in CheckRecord /\ r.at = "returned" /\ r.credential = cr /\ r.started = now
      /\ ~r.fromLists
  BY <1>1, <1>2, BegunRecord
<1>5. PICK kept \in KeptAnswer : kept = [result |-> NoStatusEntry, cachedAt |-> now]
  BY <1>1 DEF KeptAnswer
<1>6. /\ statusCheck'[cr] = kept /\ statusCheck' \in [Credential -> KeptAnswer \cup {None}]
      /\ \A other \in Credential \ {cr} : statusCheck'[other] = statusCheck[other]
  BY <1>1, <1>3, <1>5
<1>7. KeptInv(cr)'
  BY <1>1, <1>3, <1>5, <1>6 DEF KeptInv
<1> QED BY <1>3, <1>4, <1>6, <1>7, BegunKeeps

LEMMA ClearStatusCacheKeeps ==
  ASSUME IInv, NEW cr \in Credential, ClearStatusCache(cr)
  PROVE  IInv'
<1>1. /\ statusCheck' = [statusCheck EXCEPT ![cr] = None]
      /\ UNCHANGED <<now, published, since, cache, check>> /\ Typed
  BY DEF ClearStatusCache, IInv
<1>2. /\ statusCheck'[cr] = None
      /\ \A other \in Credential \ {cr} : statusCheck'[other] = statusCheck[other]
      /\ statusCheck' \in [Credential -> KeptAnswer \cup {None}]
  BY <1>1 DEF Typed
<1>3. Typed'
  BY <1>1, <1>2 DEF Typed
<1>4. \A other \in Credential : KeptInv(other)'
  <2>1. KeptInv(cr)'
    BY <1>2 DEF KeptInv
  <2> QED BY <1>1, <1>2, <2>1, AnswersKept
<1>5. \A c \in Check : CheckInv(c)'
  BY <1>1, CheckStands DEF IInv
<1>6. \A u \in HttpUrl : CacheInv(u)'
  BY <1>1, CachesKept
<1> QED BY <1>1, <1>3, <1>4, <1>5, <1>6 DEF IInv

LEMMA ClearCacheKeeps ==
  ASSUME IInv, ClearCache
  PROVE  IInv'
<1>1. /\ cache' = [u \in HttpUrl |-> None]
      /\ UNCHANGED <<now, published, since, check, statusCheck>> /\ Typed
  BY DEF ClearCache, IInv
<1>2. Typed'
  BY <1>1 DEF Typed
<1>3. \A u \in HttpUrl : CacheInv(u)'
  BY <1>1 DEF CacheInv
<1>4. \A cr \in Credential : KeptInv(cr)'
  BY <1>1, AnswersKept
<1>5. \A c \in Check : CheckInv(c)'
  BY <1>1, CheckStands DEF IInv
<1> QED BY <1>1, <1>2, <1>3, <1>4, <1>5 DEF IInv

LEMMA StutterKeeps ==
  ASSUME IInv, UNCHANGED vars
  PROVE  IInv'
<1>1. UNCHANGED <<now, published, since, cache, check, statusCheck>> /\ Typed
  BY DEF vars, IInv
<1>2. Typed'
  BY <1>1 DEF Typed
<1>3. \A u \in HttpUrl : CacheInv(u)'
  BY <1>1, CachesKept
<1>4. \A cr \in Credential : KeptInv(cr)'
  BY <1>1, AnswersKept
<1>5. \A c \in Check : CheckInv(c)'
  BY <1>1, CheckStands DEF IInv
<1> QED BY <1>1, <1>2, <1>3, <1>4, <1>5 DEF IInv

-----------------------------------------------------------------------------
\* The issuer and the clock.

LEMMA TickKeeps ==
  ASSUME Fitting, IInv, Tick
  PROVE  IInv'
<1>1. /\ now' = now + 1 /\ UNCHANGED <<published, since, cache, check, statusCheck>>
      /\ Typed /\ now \in 0 .. MaxTime /\ now < MaxTime /\ MaxTime \in Nat
      /\ CacheLife \in Nat /\ Flight \in Nat
  BY DEF Tick, IInv, Typed, Fitting, TimesAreNat
<1>2. Typed'
  BY <1>1 DEF Typed
<1>3. ASSUME NEW u \in HttpUrl
      PROVE  since'[u] <= now' /\ CacheInv(u)'
  <2>1. since[u] <= now /\ CacheInv(u) /\ since[u] \in Nat
    BY <1>1 DEF IInv, Typed
  <2>2. cache[u] # None => cache[u].expiresAt \in Nat
    BY <1>1 DEF Typed, CachedList
  <2> QED BY <1>1, <2>1, <2>2 DEF CacheInv
<1>4. ASSUME NEW cr \in Credential
      PROVE  KeptInv(cr)'
  <2>1. PICK kept : kept = statusCheck[cr]
    OBVIOUS
  <2>2. CASE kept = None
    BY <1>1, <2>1, <2>2 DEF KeptInv
  <2>3. CASE kept # None
    <3>1. /\ kept.cachedAt \in Nat /\ kept.cachedAt <= now
          /\ StatusOf[cr] # Absent /\ kept.result.success =>
               DecidedUpTo(cr, Len(Entries(cr)), kept.result, 0, kept.cachedAt)
      BY <1>1, <2>1, <2>3 DEF KeptInv, IInv, Typed, KeptAnswer
    <3>2. StatusOf[cr] # Absent /\ kept.result.success =>
            DecidedUpTo(cr, Len(Entries(cr)), kept.result, 0, kept.cachedAt)'
      BY <1>1, <3>1, SameLists
    <3>3. kept.cachedAt <= now'
      BY <1>1, <3>1
    <3> QED BY <1>1, <2>1, <3>2, <3>3 DEF KeptInv
  <2> QED BY <2>2, <2>3
<1>5. ASSUME NEW c \in Check
      PROVE  CheckInv(c)'
  <2>1. /\ CheckInv(c) /\ check[c].sent \in Nat /\ check[c].started \in Nat
        /\ check[c].at \notin {"parsing", "evaluating"}
        /\ check[c].at \in {"requesting", "responding"} => now - check[c].sent < Flight
    BY CheckIsTyped DEF Tick
  <2>2. Url(c)' = Url(c)
    BY <1>1 DEF Url
  <2>3. check[c].at \in {"requesting", "responding"} => Requesting(c)'
    <3>1. SUFFICES ASSUME check[c].at \in {"requesting", "responding"}
                   PROVE  Requesting(c)'
      OBVIOUS
    <3>2. Requesting(c)
      BY <2>1, <3>1 DEF CheckInv
    <3>3. PICK sent \in Nat : sent = check[c].sent /\ UnderWay(c, sent)
      BY <2>1, <3>2 DEF Requesting
    <3>4. UnderWay(c, sent)'
      BY <1>1, <3>3, SameProgress
    <3>5. sent <= now' /\ now' <= sent + Flight
      BY <1>1, <2>1, <3>1, <3>2, <3>3 DEF Requesting
    <3> QED BY <1>1, <3>2, <3>3, <3>4, <3>5 DEF Requesting
  <2>4. check[c].at = "responding" => Responding(c)'
    BY <1>1, <2>1, <2>2 DEF CheckInv, Responding
  <2>5. check[c].at = "returned" => Returned(c)'
    BY <1>1, <2>1, SameLists DEF CheckInv, Returned
  <2>6. check[c].started <= now'
    BY <1>1, <2>1 DEF CheckInv
  <2> QED BY <1>1, <2>1, <2>3, <2>4, <2>5, <2>6 DEF CheckInv
<1> QED BY <1>2, <1>3, <1>4, <1>5 DEF IInv

\* A list changes: what was decided from the older one is of before the change.
LEMMA PublishKeeps ==
  ASSUME Fitting, IInv, NEW u \in HttpUrl, Publish(u)
  PROVE  IInv'
<1>1. PICK list \in Lists :
        /\ published' = [published EXCEPT ![u] = list] /\ since' = [since EXCEPT ![u] = now]
        /\ UNCHANGED <<now, cache, check, statusCheck>>
  BY DEF Publish, Lists
<1>2. /\ Typed /\ now \in 0 .. MaxTime /\ now' = now /\ MaxTime \in Nat
      /\ CacheLife \in Nat /\ Flight \in Nat
  BY <1>1 DEF IInv, Typed, Fitting, TimesAreNat
<1>3. /\ since' \in [HttpUrl -> 0 .. MaxTime] /\ since'[u] = now
      /\ published' \in [HttpUrl -> Lists]
      /\ \A v \in HttpUrl \ {u} : since'[v] = since[v] /\ published'[v] = published[v]
  BY <1>1, <1>2 DEF Typed
<1>4. Typed'
  BY <1>1, <1>2, <1>3 DEF Typed
<1>5. ASSUME NEW v \in HttpUrl
      PROVE  since'[v] <= now' /\ CacheInv(v)'
  <2>1. since[v] <= now /\ CacheInv(v)
    BY DEF IInv
  <2>2. CASE v = u
    <3>1. cache[u] # None => cache[u].expiresAt \in Nat /\ cache[u].expiresAt <= now + CacheLife
      BY <1>2, <2>1, <2>2 DEF Typed, CachedList, CacheInv
    <3> QED BY <1>1, <1>2, <1>3, <2>2, <3>1 DEF CacheInv
  <2>3. CASE v # u
    BY <1>1, <1>2, <1>3, <2>1, <2>3 DEF CacheInv
  <2> QED BY <2>2, <2>3
<1>6. ASSUME NEW cr \in Credential
      PROVE  KeptInv(cr)'
  <2>1. PICK kept : kept = statusCheck[cr]
    OBVIOUS
  <2>2. CASE kept = None
    BY <1>1, <2>1, <2>2 DEF KeptInv
  <2>3. CASE kept # None
    <3>1. /\ kept.cachedAt \in Nat /\ kept.cachedAt <= now
          /\ StatusOf[cr] # Absent /\ kept.result.success =>
               DecidedUpTo(cr, Len(Entries(cr)), kept.result, 0, kept.cachedAt)
      BY <1>2, <2>1, <2>3 DEF KeptInv, IInv, Typed, KeptAnswer
    <3>2. ASSUME StatusOf[cr] # Absent, kept.result.success
          PROVE  DecidedUpTo(cr, Len(Entries(cr)), kept.result, 0, kept.cachedAt)'
      <4>1. PICK n \in Nat : n = Len(Entries(cr))
        BY <3>2, EntriesAreListed
      <4>2. PICK at \in Nat : at = kept.cachedAt
        BY <3>1
      <4>3. DecidedUpTo(cr, n, kept.result, 0, at) /\ 0 <= now /\ at <= now
        BY <1>2, <3>1, <3>2, <4>1, <4>2
      <4>4. DecidedUpTo(cr, n, kept.result, 0, at)'
        <5>1. /\ n \in Nat /\ 0 \in Int /\ at \in Int
              /\ published' = [published EXCEPT ![u] = list]
              /\ since' = [since EXCEPT ![u] = now]
          BY <1>1
        <5> QED BY <1>2, <4>3, <5>1, PublishedLater, ZenonT(30)
      <4> QED BY <4>1, <4>2, <4>4
    <3> QED BY <1>1, <1>2, <2>1, <3>1, <3>2 DEF KeptInv
  <2> QED BY <2>2, <2>3
<1>7. ASSUME NEW c \in Check
      PROVE  CheckInv(c)'
  <2>1. /\ CheckInv(c) /\ check[c].sent \in Nat /\ check[c].started \in Nat
        /\ check[c].started <= now /\ check'[c] = check[c]
    BY <1>1, CheckIsTyped DEF CheckInv
  <2>2. Url(c)' = Url(c) /\ Decided(c)' = Decided(c)
    BY <1>1 DEF Url, Decided
  <2>3. ASSUME NEW asOf \in Int, asOf <= now, UnderWay(c, asOf),
               check[c].at \in {"requesting", "responding", "evaluating"}
        PROVE  UnderWay(c, asOf)' /\ Url(c) \in HttpUrl
    <3>0. PICK started \in Int : started = check[c].started
      BY <2>1
    <3>1. PICK cr, n, answer :
            cr = check[c].credential /\ n = Decided(c) /\ answer = check[c].answer
      OBVIOUS
    <3>2. n \in Nat /\ Url(c) \in HttpUrl
      BY <2>1, <2>3, <3>1, AboutTheNextEntry DEF CheckInv
    <3>3. DecidedUpTo(cr, n, answer, started, asOf) /\ started <= now
      BY <2>1, <2>3, <3>0, <3>1 DEF UnderWay
    <3>4. DecidedUpTo(cr, n, answer, started, asOf)'
      <4>1. /\ started \in Int /\ published' = [published EXCEPT ![u] = list]
            /\ since' = [since EXCEPT ![u] = now]
        BY <1>1
      <4> QED BY <1>2, <2>3, <3>2, <3>3, <4>1, PublishedLater, ZenonT(30)
    <3> QED BY <2>1, <2>2, <2>3, <3>0, <3>1, <3>2, <3>4 DEF UnderWay
  <2>4. check[c].at \in {"requesting", "responding"} => Requesting(c)' /\ Url(c) \in HttpUrl
    <3>1. SUFFICES ASSUME check[c].at \in {"requesting", "responding"}
                   PROVE  Requesting(c)' /\ Url(c) \in HttpUrl
      OBVIOUS
    <3>2. Requesting(c)
      BY <2>1, <3>1 DEF CheckInv
    <3>3. PICK sent \in Nat : sent = check[c].sent /\ UnderWay(c, sent) /\ sent <= now
      BY <2>1, <3>2 DEF Requesting
    <3>4. UnderWay(c, sent)' /\ Url(c) \in HttpUrl
      BY <2>3, <3>1, <3>3
    <3> QED BY <1>2, <2>1, <3>2, <3>3, <3>4 DEF Requesting
  <2>5. check[c].at = "responding" => Responding(c)'
    <3>1. SUFFICES ASSUME check[c].at = "responding" PROVE Responding(c)'
      OBVIOUS
    <3>2. PICK url \in HttpUrl : url = Url(c)
      BY <2>4, <3>1
    <3>3. /\ check[c].list \in Lists /\ check[c].sent <= now
          /\ check[c].list = published[url] \/ since[url] >= check[c].sent
      BY <2>1, <3>1, <3>2 DEF CheckInv, Responding, Requesting
    <3>4. check[c].list = published'[url] \/ since'[url] >= check[c].sent
      BY <1>3, <3>3
    <3> QED BY <2>1, <2>2, <3>2, <3>3, <3>4 DEF Responding
  <2>6. check[c].at = "evaluating" => Evaluating(c)'
    <3>1. SUFFICES ASSUME check[c].at = "evaluating" PROVE Evaluating(c)'
      OBVIOUS
    <3>2. PICK time \in Int : time = now - Flight /\ time <= now
      BY <1>2
    <3>3. Evaluating(c) /\ UnderWay(c, time)
      BY <2>1, <3>1, <3>2 DEF CheckInv, Evaluating
    <3>4. UnderWay(c, time)' /\ Url(c) \in HttpUrl
      BY <2>3, <3>1, <3>2, <3>3
    <3>5. PICK url \in HttpUrl : url = Url(c)
      BY <3>4
    <3>6. \/ check[c].list = published'[url]
          \/ /\ since'[url] + CacheLife + Flight >= check[c].started
             /\ since'[url] + CacheLife + Flight >= now
      <4>1. CASE url = u
        BY <1>2, <1>3, <2>1, <4>1
      <4>2. CASE url # u
        BY <1>3, <3>3, <3>5, <4>2 DEF Evaluating
      <4> QED BY <4>1, <4>2
    <3>7. UnderWay(c, now - Flight)'
      BY <1>2, <3>2, <3>4
    <3> QED BY <1>2, <2>1, <2>2, <3>3, <3>5, <3>6, <3>7 DEF Evaluating
  <2>7. check[c].at = "returned" => Returned(c)'
    <3>1. SUFFICES ASSUME check[c].at = "returned", check[c].fromLists,
                          check[c].answer.success
                   PROVE  Returned(c)'
      BY <2>1 DEF Returned
    <3>2. PICK cr, answer, started :
            /\ cr = check[c].credential /\ answer = check[c].answer
            /\ started = check[c].started /\ started \in Int /\ cr \in Credential
      BY <2>1, <3>1 DEF CheckInv
    <3>3. PICK n \in Nat : n = Len(Entries(cr))
      BY <2>1, <3>1, <3>2, EntriesAreListed DEF CheckInv
    <3>4. DecidedUpTo(cr, n, answer, started, 0) /\ started <= now /\ 0 <= now
      BY <1>2, <2>1, <3>1, <3>2, <3>3 DEF CheckInv, Returned
    <3>5. DecidedUpTo(cr, n, answer, started, 0)'
      <4>1. /\ started \in Int /\ 0 \in Int /\ published' = [published EXCEPT ![u] = list]
            /\ since' = [since EXCEPT ![u] = now]
        BY <1>1, <3>2
      <4> QED BY <1>2, <3>3, <3>4, <4>1, PublishedLater, ZenonT(30)
    <3> QED BY <2>1, <3>2, <3>3, <3>5 DEF Returned
  <2> QED BY <1>2, <2>1, <2>4, <2>5, <2>6, <2>7 DEF CheckInv
<1> QED BY <1>4, <1>5, <1>6, <1>7 DEF IInv

-----------------------------------------------------------------------------
LEMMA InitIInv ==
  ASSUME Fitting, Init
  PROVE  IInv
<1>1. 0 \in 0 .. MaxTime
  BY DEF Fitting, TimesAreNat
<1>2. NoStatusEntry \in Answer
  BY DEF NoStatusEntry, Answer
<1>3. <<>> \in Seq(Entry)
  OBVIOUS
<1>4. published \in [HttpUrl -> Lists] /\ since \in [HttpUrl -> 0 .. MaxTime] /\ now = 0
  BY <1>1 DEF Init
<1>5. \A c \in Check : check[c] \in CheckRecord /\ check[c].at = "idle" /\ check[c].started = 0
  BY <1>1, <1>2, <1>3 DEF Init, CheckRecord
<1>6. check \in [Check -> CheckRecord]
  BY <1>5 DEF Init
<1>7. /\ cache = [u \in HttpUrl |-> None] /\ statusCheck = [cr \in Credential |-> None]
      /\ \A u \in HttpUrl : since[u] <= now
  BY <1>4 DEF Init
<1>8. Typed
  BY <1>1, <1>4, <1>6, <1>7 DEF Typed
<1>9. \A c \in Check : CheckInv(c)
  BY <1>4, <1>5 DEF CheckInv
<1> QED BY <1>7, <1>8, <1>9 DEF IInv, CacheInv, KeptInv

LEMMA StepIInv ==
  ASSUME Fitting, IInv, [Next]_vars
  PROVE  IInv'
<1>1. ASSUME NEW c \in Check, Step(c)
      PROVE  IInv'
  BY <1>1, ParsedKeeps, RespondKeeps, ArriveKeeps, FetchFailsKeeps, EvaluatedKeeps DEF Step
<1>2. ASSUME NEW c \in Check, NEW cr \in Credential,
             CheckCached(c, cr) \/ CheckNoStatus(c, cr) \/ CheckStatus(c, cr)
      PROVE  IInv'
  BY <1>2, CheckCachedKeeps, CheckNoStatusKeeps, CheckStatusKeeps
<1>3. ASSUME NEW cr \in Credential, ClearStatusCache(cr)
      PROVE  IInv'
  BY <1>3, ClearStatusCacheKeeps
<1>4. ASSUME NEW u \in HttpUrl, Publish(u)
      PROVE  IInv'
  BY <1>4, PublishKeeps
<1>5. CASE ClearCache
  BY <1>5, ClearCacheKeeps
<1>6. CASE Tick
  BY <1>6, TickKeeps
<1>7. CASE UNCHANGED vars
  BY <1>7, StutterKeeps
<1> QED BY <1>1, <1>2, <1>3, <1>4, <1>5, <1>6, <1>7 DEF Next

-----------------------------------------------------------------------------
LEMMA ListsAreTyped == IInv => TypeOK
<1> SUFFICES ASSUME Typed PROVE TypeOK
  BY DEF IInv
<1>1. \A u \in HttpUrl : cache[u] # None => cache[u] \in CachedList
  BY DEF Typed
<1>2. \A c \in Check : check[c] \in CheckRecord
  BY DEF Typed
<1>3. \A cr \in Credential : statusCheck[cr] # None => statusCheck[cr] \in KeptAnswer
  BY DEF Typed
<1>4. /\ now \in 0 .. MaxTime /\ published \in [HttpUrl -> Lists]
      /\ since \in [HttpUrl -> 0 .. MaxTime]
  BY DEF Typed
<1>5. \A c \in Check :
        /\ check[c].at \in {"idle", "parsing", "requesting", "responding",
                            "evaluating", "returned"}
        /\ check[c].credential \in Credential \cup {None}
        /\ check[c].started \in 0 .. MaxTime /\ check[c].sent \in 0 .. MaxTime
        /\ check[c].list \in Lists \cup {None} /\ check[c].answer \in Answer
        /\ check[c].fromLists \in BOOLEAN
  BY <1>2 DEF CheckRecord
<1> QED BY <1>1, <1>3, <1>4, <1>5 DEF TypeOK, CachedList, KeptAnswer

LEMMA SettledLists ==
  ASSUME Fitting, IInv
  PROVE  SettledListIsReported
<1> SUFFICES ASSUME NEW c \in Check, check[c].at = "returned", check[c].fromLists,
                    check[c].answer.success, NEW cr, cr = check[c].credential,
                    NEW i \in DOMAIN Entries(cr),
                    since[Entries(cr)[i].list] + CacheLife + Flight < check[c].started
             PROVE  Agrees(check[c].answer, cr, i)
  BY DEF SettledListIsReported
<1>1. /\ cr \in Credential /\ StatusOf[cr] # Absent /\ Typed
      /\ check[c].started \in Nat
      /\ DecidedUpTo(cr, Len(Entries(cr)), check[c].answer, check[c].started, 0)
  BY CheckIsTyped DEF CheckInv, Returned
<1>2. i \in 1 .. Len(Entries(cr))
  BY <1>1, EntriesAreListed
<1>3. /\ Entries(cr)[i].list \in HttpUrl
      /\ \/ Agrees(check[c].answer, cr, i)
         \/ since[Entries(cr)[i].list] + CacheLife + Flight >= check[c].started
  BY <1>1, <1>2 DEF DecidedUpTo, AgreesOrChanged
<1>4. since[Entries(cr)[i].list] + CacheLife + Flight \in Int
  BY <1>1, <1>3 DEF Typed, Fitting, TimesAreNat
<1> DEFINE settled == since[Entries(cr)[i].list] + CacheLife + Flight
<1>5. settled \in Int /\ settled < check[c].started
  BY <1>4
<1>6. Agrees(check[c].answer, cr, i) \/ settled >= check[c].started
  BY <1>3
<1> HIDE DEF settled
<1> QED BY <1>1, <1>5, <1>6

LEMMA KeptAnswers ==
  ASSUME Fitting, IInv
  PROVE  ShownForTwoLivesAtMost
<1> SUFFICES ASSUME NEW cr \in Credential, Current(cr), StatusOf[cr] # Absent,
                    statusCheck[cr].result.success, NEW i \in DOMAIN Entries(cr),
                    LastOfPurpose(cr, i), Decision(Entries(cr)[i]) = TRUE,
                    Reported(statusCheck[cr].result, Entries(cr)[i]) # TRUE
             PROVE  now <= since[Entries(cr)[i].list] + 2 * CacheLife
                             + Len(Entries(cr)) * Flight
  BY DEF ShownForTwoLivesAtMost
<1>1. /\ Typed /\ statusCheck[cr] \in KeptAnswer
      /\ DecidedUpTo(cr, Len(Entries(cr)), statusCheck[cr].result, 0,
                     statusCheck[cr].cachedAt)
      /\ now - statusCheck[cr].cachedAt <= CacheLife
  BY KeptAnswerAgrees DEF IInv, KeptInv, Current
<1>2. i \in 1 .. Len(Entries(cr)) /\ Len(Entries(cr)) \in Nat
  BY EntriesAreListed
<1>3. ~Agrees(statusCheck[cr].result, cr, i)
  BY DEF Agrees
<1> DEFINE changed == since[Entries(cr)[i].list]
           requests == Len(Entries(cr)) * Flight
           cachedAt == statusCheck[cr].cachedAt
<1>4. Entries(cr)[i].list \in HttpUrl /\ changed + CacheLife + requests >= cachedAt
  BY <1>1, <1>2, <1>3 DEF DecidedUpTo, AgreesOrChanged
<1>5. /\ changed \in Nat /\ cachedAt \in Nat /\ CacheLife \in Nat /\ Flight \in Nat
      /\ now \in Nat
  BY <1>1, <1>4 DEF Typed, KeptAnswer, Fitting, TimesAreNat
<1>6. requests \in Nat
  BY <1>2, <1>5
<1>7. now - cachedAt <= CacheLife
  BY <1>1
<1>8. now <= changed + 2 * CacheLife + requests
  <2> HIDE DEF changed, requests, cachedAt
  <2> QED BY <1>4, <1>5, <1>6, <1>7
<1> QED BY <1>8

\* What every behaviour of the service keeps to.
LEMMA ListsSafe ==
  ASSUME Fitting
  PROVE  Init /\ [][Next]_vars =>
           [](TypeOK /\ SettledListIsReported /\ ShownForTwoLivesAtMost)
<1>1. Init => IInv
  BY InitIInv
<1>2. IInv /\ [Next]_vars => IInv'
  BY StepIInv
<1>3. IInv => TypeOK /\ SettledListIsReported /\ ShownForTwoLivesAtMost
  BY ListsAreTyped, SettledLists, KeptAnswers
<1> QED BY <1>1, <1>2, <1>3, PTL

\* The caches, the checks and the kept answers have their types in every state.
THEOREM TypeCorrect ==
  ASSUME Fitting
  PROVE  Spec => []TypeOK
BY ListsSafe, PTL DEF Spec

\* A check that returns says what a list that has settled says now, however requests
\* overlap, caches are cleared and lists are republished.
THEOREM SettledIsReported ==
  ASSUME Fitting
  PROVE  Spec => []SettledListIsReported
BY ListsSafe, PTL DEF Spec

\* What a credential keeps is never shown, against what its list says, for longer than
\* the lives of both caches and the requests of its entries.
THEOREM KeptForTwoLivesAtMost ==
  ASSUME Fitting
  PROVE  Spec => []ShownForTwoLivesAtMost
BY ListsSafe, PTL DEF Spec
================================================================================
