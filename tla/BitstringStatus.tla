---------------------------- MODULE BitstringStatus ----------------------------
(***************************************************************************)
(* The status decisions of status.rs: which credentialStatus values are    *)
(* parsed, and what a Bitstring Status List credential says about an       *)
(* entry.  Every function either decides or fails; the error texts are     *)
(* left out.                                                               *)
(*                                                                         *)
(* A text of the JSON is a value of its own; Absent stands for a missing   *)
(* member or one that is no string, Padded for an empty text or one with   *)
(* white space around it, and Malformed for anything that does not parse.  *)
(***************************************************************************)
EXTENDS Integers, Sequences

CONSTANTS
  HttpUrl,             \* the URLs whose scheme is http or https
  MAX_STATUS_ENTRIES,
  MaxIndex,            \* the largest index an entry can name, u64::MAX
  Absent, Padded, Malformed,
  Failed               \* the error of a Rust function

LimitsArePositive == {MAX_STATUS_ENTRIES, MaxIndex} \subseteq Nat \ {0}

Purpose == {"revocation", "suspension"}

RequiredString(t) == t \notin {Absent, Padded}

HasNonemptyProof(list) == list.proof

ParseEntry(entry) ==
  IF /\ entry # Malformed
     /\ entry.type = "BitstringStatusListEntry"
     /\ RequiredString(entry.id)
     /\ entry.purpose \in Purpose
     /\ RequiredString(entry.list) /\ entry.list \in HttpUrl
     /\ entry.index \in 0 .. MaxIndex
  THEN [purpose |-> entry.purpose, index |-> entry.index, list |-> entry.list]
  ELSE Failed

\* status is the JSON value: its shape, and its entries (one for an object).
ParseStatusEntries(status) ==
  IF /\ status.shape \in {"object", "array"}
     /\ Len(status.entries) \in 1 .. MAX_STATUS_ENTRIES
     /\ \A i \in DOMAIN status.entries : ParseEntry(status.entries[i]) # Failed
  THEN [i \in DOMAIN status.entries |-> ParseEntry(status.entries[i])]
  ELSE Failed

\* Mutant: the list need not be the entry's own.
EvaluateUnnamed(entry, list) ==
  LET parsed == ParseEntry(entry) IN
  IF parsed # Failed /\ list.proof /\ list.bits # Malformed /\ parsed.index \in DOMAIN list.bits
  THEN list.bits[parsed.index]
  ELSE Failed

\* The bits of a list are a function from its indices, or Malformed when the
\* encoded list cannot be decoded within its bound.
EvaluateBitstringStatus(entry, list) ==
  LET parsed == ParseEntry(entry) IN
  IF /\ parsed # Failed
     /\ list.id = parsed.list
     /\ "BitstringStatusListCredential" \in list.types
     /\ HasNonemptyProof(list)
     /\ list.subject = "BitstringStatusList"
     /\ list.purpose = parsed.purpose
     /\ list.bits # Malformed /\ parsed.index \in DOMAIN list.bits
  THEN list.bits[parsed.index]
  ELSE Failed
================================================================================
