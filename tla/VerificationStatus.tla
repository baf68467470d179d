-------------------------- MODULE VerificationStatus --------------------------
(***************************************************************************)
(* The status of the identity verification (verification_state_provider),  *)
(* the review view that submits a request and the cards that cancel it.    *)
(* SharedPreferences is external: getInstance answers its callers in the   *)
(* order they asked, setString changes the cache at once and the disk when *)
(* the platform, which takes one call at a time, gets to it.               *)
(***************************************************************************)
EXTENDS Integers, Sequences

CONSTANTS
  MaxSubmits,       \* bound on the submissions
  MaxCancels,       \* bound on the calls of Cancel Verification
  MaxKills          \* bound on the restarts of the app

ConstantsFit == {MaxSubmits, MaxCancels, MaxKills} \subseteq Nat

Submit == 1 .. MaxSubmits
Cancelled == 0      \* who set a status, when it was no submission

VARIABLES
  state,            \* what the notifier shows
  cache, disk,      \* verification_status in SharedPreferences and in its file
  awaiting,         \* who awaits getInstance: the load, calls of setStatus
  writing,          \* calls of setString the platform has not answered
  reviewing,        \* the review view is on screen, over the cards
  submit,           \* the calls of _submit: where they are, and if their view is mounted
  requested,        \* a request reached the verifier and was not cancelled since
  cancels, kills,
  last,             \* history, of this run of the app: the status last set, ...
  early,            \* ... if it was set before the constructor had loaded, ...
  lost              \* ... and if the write that ended last has failed

vars == <<state, cache, disk, awaiting, writing, reviewing, submit, requested,
          cancels, kills, last, early, lost>>
history == <<last, early, lost>>

Statuses == {"none", "pendingApproval", "issued"}
Stored == Statuses \cup {"absent", "invalid"}
Load == [op |-> "load", status |-> "none", by |-> Cancelled]
Set(status, by) == [op |-> "set", status |-> status, by |-> by]
Calls == {Load} \cup {Set(s, by) : s \in Statuses, by \in {Cancelled} \cup Submit}

TypeOK ==
  /\ state \in Statuses /\ cache \in Stored /\ disk \in Stored
  /\ awaiting \in Seq(Calls) /\ writing \in Seq(Calls \ {Load})
  /\ reviewing \in BOOLEAN /\ requested \in BOOLEAN
  /\ submit \in [Submit -> [at : {"idle", "requesting", "setting", "ended"},
                            mounted : BOOLEAN]]
  /\ cancels \in 0 .. MaxCancels /\ kills \in 0 .. MaxKills
  /\ last \in Statuses \cup {"absent"} /\ early \in BOOLEAN /\ lost \in BOOLEAN

Init ==
  /\ disk \in Stored /\ cache = disk
  /\ state = "none" /\ awaiting = <<Load>> /\ writing = <<>>
  /\ reviewing = FALSE /\ requested = (disk = "pendingApproval")
  /\ submit = [n \in Submit |-> [at |-> "idle", mounted |-> FALSE]]
  /\ cancels = 0 /\ kills = 0
  /\ last = "absent" /\ early = FALSE /\ lost = FALSE

Loaded == Load \notin {awaiting[i] : i \in DOMAIN awaiting}
isSubmitting == \E n \in Submit : submit[n].mounted /\ submit[n].at \in {"requesting", "setting"}

\* Mutant: without the orElse of firstWhere.
ParseRaw(s, current) == IF s = "absent" THEN current ELSE s
\* How an unknown string, or none, is read.
Parse(s, current) ==
  IF s = "absent" THEN current ELSE IF s = "invalid" THEN "none" ELSE s

-----------------------------------------------------------------------------
\* _loadState after its await.
LoadState ==
  /\ awaiting # <<>> /\ Head(awaiting) = Load
  /\ state' = Parse(cache, state)
  /\ awaiting' = Tail(awaiting)
  /\ UNCHANGED <<cache, disk, writing, reviewing, submit, requested, cancels, kills, history>>

\* setStatus up to its first await; it does not ask if the status has been loaded.
SetStatus(status, by) ==
  /\ state' = status
  /\ awaiting' = Append(awaiting, Set(status, by))
  /\ last' = status /\ early' = ~Loaded /\ UNCHANGED lost

\* Mutant: setStatus does not await setString.
SetStringUnawaited ==
  /\ awaiting # <<>> /\ Head(awaiting) # Load
  /\ awaiting' = Tail(awaiting)
  /\ cache' = Head(awaiting).status
  /\ writing' = Append(writing, Set(Head(awaiting).status, Cancelled))
  /\ IF Head(awaiting).by = Cancelled THEN UNCHANGED <<submit, reviewing>>
     ELSE /\ submit' = [submit EXCEPT ![Head(awaiting).by].at = "ended"]
          /\ reviewing' = IF submit[Head(awaiting).by].mounted THEN FALSE ELSE reviewing
  /\ UNCHANGED <<state, disk, requested, cancels, kills, history>>

\* setStatus between its awaits.
SetString ==
  /\ awaiting # <<>> /\ Head(awaiting) # Load
  /\ awaiting' = Tail(awaiting)
  /\ cache' = Head(awaiting).status
  /\ writing' = Append(writing, Head(awaiting))
  /\ UNCHANGED <<state, disk, reviewing, submit, requested, cancels, kills, history>>

\* _submit resumes with what setStatus returned: the view is popped if it is mounted.
Return(n) ==
  /\ submit' = [submit EXCEPT ![n] = [at |-> "ended", mounted |-> FALSE]]
  /\ reviewing' = IF submit[n].mounted THEN FALSE ELSE reviewing

Written ==
  /\ writing # <<>>
  /\ disk' = Head(writing).status /\ writing' = Tail(writing) /\ lost' = FALSE
  /\ IF Head(writing).by = Cancelled THEN UNCHANGED <<submit, reviewing>>
                                     ELSE Return(Head(writing).by)
  /\ UNCHANGED <<state, cache, awaiting, requested, cancels, kills, last, early>>

\* The error of a submission is shown in its view, which stays; nobody sees a card's.
WriteFails ==
  /\ writing # <<>>
  /\ writing' = Tail(writing) /\ lost' = TRUE
  /\ submit' = IF Head(writing).by = Cancelled THEN submit
               ELSE [submit EXCEPT ![Head(writing).by] = [at |-> "ended", mounted |-> FALSE]]
  /\ UNCHANGED <<state, cache, disk, awaiting, reviewing, requested, cancels, kills, last,
                 early>>

-----------------------------------------------------------------------------
OpenReview ==
  /\ ~reviewing /\ \E n \in Submit : submit[n].at = "idle"
  /\ reviewing' = TRUE
  /\ UNCHANGED <<state, cache, disk, awaiting, writing, submit, requested, cancels, kills,
                 history>>

\* _submit up to its first await; the button is not there while it submits.
StartSubmit(n) ==
  /\ reviewing /\ ~isSubmitting
  /\ submit[n].at = "idle" /\ \A m \in 1 .. n - 1 : submit[m].at # "idle"
  /\ submit' = [submit EXCEPT ![n] = [at |-> "requesting", mounted |-> TRUE]]
  /\ UNCHANGED <<state, cache, disk, awaiting, writing, reviewing, requested, cancels, kills,
                 history>>

RequestFails(n) ==
  /\ submit[n].at = "requesting"
  /\ submit' = [submit EXCEPT ![n] = [at |-> "ended", mounted |-> FALSE]]
  /\ UNCHANGED <<state, cache, disk, awaiting, writing, reviewing, requested, cancels, kills,
                 history>>

\* The request was taken; setStatus is called through ref.
RequestTaken(n) ==
  /\ submit[n].at = "requesting" /\ submit[n].mounted
  /\ requested' = TRUE
  /\ submit' = [submit EXCEPT ![n].at = "setting"]
  /\ SetStatus("pendingApproval", n)
  /\ UNCHANGED <<cache, disk, writing, reviewing, cancels, kills>>

\* The same after the view was left: ref.read throws, and the error is only logged.
RequestTakenAfterLeaving(n) ==
  /\ submit[n].at = "requesting" /\ ~submit[n].mounted
  /\ requested' = TRUE
  /\ submit' = [submit EXCEPT ![n].at = "ended"]
  /\ UNCHANGED <<state, cache, disk, awaiting, writing, reviewing, cancels, kills, history>>

\* The back button of the review view.
Leave ==
  /\ reviewing
  /\ reviewing' = FALSE
  /\ submit' = [n \in Submit |-> [submit[n] EXCEPT !.mounted = FALSE]]
  /\ UNCHANGED <<state, cache, disk, awaiting, writing, requested, cancels, kills, history>>

\* Cancel Verification on a card; nobody awaits the call.
Cancel ==
  /\ ~reviewing /\ state = "pendingApproval"
  /\ cancels < MaxCancels /\ cancels' = cancels + 1
  /\ SetStatus("none", Cancelled)
  /\ requested' = FALSE
  /\ UNCHANGED <<cache, disk, writing, reviewing, submit, kills>>

\* The app is killed and started: the cards read the provider, whose constructor loads.
Kill ==
  /\ kills < MaxKills /\ kills' = kills + 1
  /\ state' = "none" /\ cache' = disk /\ awaiting' = <<Load>> /\ writing' = <<>>
  /\ reviewing' = FALSE
  /\ submit' = [n \in Submit |->
       [at |-> IF submit[n].at = "idle" THEN "idle" ELSE "ended", mounted |-> FALSE]]
  /\ last' = "absent" /\ early' = FALSE /\ lost' = FALSE
  /\ UNCHANGED <<disk, requested, cancels>>

RequestEnds(n) == RequestFails(n) \/ RequestTaken(n) \/ RequestTakenAfterLeaving(n)
Next ==
  \/ LoadState \/ SetString \/ Written \/ WriteFails
  \/ OpenReview \/ Leave \/ Cancel \/ Kill
  \/ \E n \in Submit : StartSubmit(n) \/ RequestEnds(n)

\* The platform answers and requests end; the user need not do anything.
Fairness ==
  /\ WF_vars(LoadState) /\ WF_vars(SetString) /\ WF_vars(Written \/ WriteFails)
  /\ \A n \in Submit : WF_vars(RequestEnds(n))
Spec == Init /\ [][Next]_vars /\ Fairness

-----------------------------------------------------------------------------
Quiet == awaiting = <<>> /\ writing = <<>>

\* Once no call is under way, whatever calls, loads, failing writes and restarts there
\* were: the cache holds the status that was set last; so does the disk, unless the last
\* write failed; and it is the one shown, unless it was set before the constructor had
\* loaded, whose load then put the older status over it (verification_state_provider:15).
ShownIsStored ==
  Quiet =>
    /\ last # "absent" => cache = last
    /\ ~lost => disk = cache
    /\ ~early => state = Parse(cache, "none")

\* "Verification submitted successfully!" is said, and the view popped, when the pending
\* status is on the disk, and on the card unless it was set before the load, whatever
\* other calls were under way or failed.
SuccessIsStored ==
  [][\A n \in Submit :
       /\ submit[n].at = "setting" /\ submit[n].mounted /\ reviewing
       /\ submit'[n].at = "ended" /\ ~reviewing' /\ kills' = kills
       => disk' = "pendingApproval" /\ (state' = "pendingApproval" \/ early)]_vars

\* Pending is shown when the verifier has taken a request that was not cancelled since: in
\* one run of the app nothing shows it before, and only a load that ends after a
\* cancellation can bring it back.
PendingMeansRequested ==
  kills = 0 /\ state = "pendingApproval" /\ ~early => requested
================================================================================
