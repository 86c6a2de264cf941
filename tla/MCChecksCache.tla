----------------------------- MODULE MCChecksCache -----------------------------
(* Instances of ChecksCache for model checking. *)
EXTENDS ChecksCache, TLC

CONSTANTS e1, e2, s1, s2, c1, c2

OwnSource == (e1 :> e1) @@ (e2 :> e2)
AllHome   == (e1 :> s1) @@ (e2 :> s1)
Ahead     == (e1 :> 1) @@ (e2 :> 0)
Requests  == Permutations({c1, c2})
RunQuota  == (e1 :> 1) @@ (e2 :> 1)
=============================================================================
