--------------------------- MODULE BiometricService ---------------------------
(***************************************************************************)
(* What the biometric bridge promises its callers, with no lock, channel   *)
(* or thread: there is at most one provider, built from one directory.  A  *)
(* call is served by a provider of its own directory; a provider is let go *)
(* only for a call that cannot use it, or after it broke; a broken one     *)
(* serves nobody; shutdown succeeds only when no provider is left.         *)
(* (Doc comments of rust/src/biometrics.rs: 80-84, 323-324.)               *)
(***************************************************************************)
CONSTANTS Caller, Dir, NoDir

VARIABLES
  provider,  \* the directory of the provider, NoDir when there is none
  broken,    \* an operation panicked inside it
  call,      \* <<"verify", d>> or <<"shutdown", NoDir>> while in progress, or Idle
  verdict    \* what the call in progress, or the last one, was told

serviceVars == <<provider, broken, call, verdict>>

Request == {"shutdown"} \X {NoDir} \cup {"verify"} \X Dir
Idle == <<"idle", NoDir>>
Wants(c, d) == call[c] = <<"verify", d>>

Init ==
  /\ provider = NoDir
  /\ broken = FALSE
  /\ call = [c \in Caller |-> Idle]
  /\ verdict = [c \in Caller |-> "none"]

Invoke(c, r) ==
  /\ call[c] = Idle
  /\ call' = [call EXCEPT ![c] = r]
  /\ verdict' = [verdict EXCEPT ![c] = "none"]
  /\ UNCHANGED <<provider, broken>>

\* A call whose arguments are refused leaves no trace but its verdict.
Refuse(c) ==
  /\ call[c] = Idle
  /\ verdict' = [verdict EXCEPT ![c] = "error"]
  /\ UNCHANGED <<provider, broken, call>>

\* Only into the empty slot, and only for a call that wants it.
Build(c, d) ==
  /\ provider = NoDir
  /\ Wants(c, d)
  /\ verdict[c] = "none"
  /\ provider' = d
  /\ UNCHANGED <<broken, call, verdict>>

Serve(c) ==
  /\ provider # NoDir
  /\ Wants(c, provider)
  /\ ~broken
  /\ verdict[c] = "none"
  /\ verdict' = [verdict EXCEPT ![c] = "ok"]
  /\ UNCHANGED <<provider, broken, call>>

\* A panic breaks the provider; operations it had accepted by then fail with it.
Break(c) ==
  /\ provider # NoDir
  /\ Wants(c, provider)
  /\ verdict[c] = "none"
  /\ verdict' = [verdict EXCEPT ![c] = "error"]
  /\ broken' = TRUE
  /\ UNCHANGED <<provider, call>>

LetGo ==
  /\ provider # NoDir
  /\ \/ broken
     \/ \E c \in Caller : call[c] # Idle /\ ~Wants(c, provider) /\ verdict[c] = "none"
  /\ provider' = NoDir
  /\ broken' = FALSE
  /\ UNCHANGED <<call, verdict>>

Finish(c) ==
  /\ call[c] # Idle
  /\ call' = [call EXCEPT ![c] = Idle]
  /\ \/ verdict[c] # "none" /\ UNCHANGED verdict
     \/ verdict[c] = "none" /\ verdict' = [verdict EXCEPT ![c] = "error"]
     \/ /\ call[c] = <<"shutdown", NoDir>>
        /\ verdict[c] = "none"
        /\ provider = NoDir
        /\ verdict' = [verdict EXCEPT ![c] = "ok"]
  /\ UNCHANGED <<provider, broken>>

Next ==
  \/ \E c \in Caller : \/ \E r \in Request : Invoke(c, r)
                       \/ \E d \in Dir : Build(c, d)
                       \/ Refuse(c) \/ Serve(c) \/ Break(c) \/ Finish(c)
  \/ LetGo

Spec == Init /\ [][Next]_serviceVars

=============================================================================
