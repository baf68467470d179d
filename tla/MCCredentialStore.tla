-------------------------- MODULE MCCredentialStore --------------------------
EXTENDS WalletCredentialStore

\* Ids and callers are interchangeable.
StoreSymmetry == Permutations(Id) \cup Permutations(Operation)
=============================================================================
