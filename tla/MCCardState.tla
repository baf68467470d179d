------------------------------ MODULE MCCardState ------------------------------
\* Three received credentials and two more native cards; one credential is known
\* to both, and the expired native cards share titles with received credentials.
EXTENDS CardState

CONSTANTS s1, s2, s3, n1, n2, loader, A, B, C, licence, identity

ReceivedIds == {s1, s2, s3}
NativeIds == {s1, n1, n2}
ExpiredIds == {n1, n2}
Callers == {s1, s2, s3, loader}
Titled == s1 :> licence @@ s2 :> identity @@ s3 :> licence @@
          n1 :> identity @@ n2 :> licence
IssuedBy == s1 :> A @@ s2 :> B @@ s3 :> C @@ n1 :> B @@ n2 :> C
===============================================================================
