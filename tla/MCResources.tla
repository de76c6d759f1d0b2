----------------------------- MODULE MCResources -----------------------------
(* Resources for TLC. *)
EXTENDS Resources, TLC

CONSTANTS u1, u2, o1, o2

\* u1 owns both organizations; u2 owns the first too.
TwoTenants == o1 :> (u1 :> "OWNER" @@ u2 :> "OWNER") @@ o2 :> (u1 :> "OWNER" @@ u2 :> NoRole)

NoKey == [k \in KeyIds |-> Free]
NoProject == [p \in ProjectIds |-> Free]
Symmetry == Permutations(Requests)
=============================================================================
