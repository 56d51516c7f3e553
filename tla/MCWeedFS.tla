------------------------------ MODULE MCWeedFS ------------------------------
EXTENDS WeedFS, TLC

CONSTANTS u1, u2, u3, k1, k2, k3, n1, n2, n3

\* Uploads with keys of their own.
OwnKeys == (u1 :> k1) @@ (u2 :> k2) @@ (u3 :> k3)

\* Uploads of one attachment: u1 and u2 with one extension, u3 with another.
OneKey  == (u1 :> k1) @@ (u2 :> k1) @@ (u3 :> k1)
OneKeyFiles == (u1 :> n1) @@ (u2 :> n1) @@ (u3 :> n2)

OwnFiles == (u1 :> n1) @@ (u2 :> n2) @@ (u3 :> n3)
=============================================================================
