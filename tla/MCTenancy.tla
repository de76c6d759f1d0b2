------------------------------ MODULE MCTenancy ------------------------------
(***************************************************************************)
(* Small databases for Tenancy.  Two organizations at most; o1 exists with *)
(* the members a run needs, o2 may be created.                             *)
(***************************************************************************)
EXTENDS Tenancy, TLC

CONSTANTS u1, u2, u3, o1, o2, s1, s2, m1, m2, m3, m4

Row(o, u, role) == [org |-> o, user |-> u, role |-> role]
Others(f) == [m \in MemIds \ DOMAIN f |-> Free]

\* o1 alone; two owners of it.
OneOrg == o1 :> s1 @@ [o \in Orgs \ {o1} |-> Free]
TwoOwners == m1 :> Row(o1, u1, "OWNER") @@ m2 :> Row(o1, u2, "OWNER")

\* An owner, an admin and room for a third member.
OwnerAdmin == m1 :> Row(o1, u1, "OWNER") @@ m2 :> Row(o1, u2, "ADMIN")
OwnerAdminInit == OwnerAdmin @@ Others(OwnerAdmin)

\* Three owners: after two of them change each other, a third may act.
ThreeOwners == TwoOwners @@ m3 :> Row(o1, u3, "OWNER")
ThreeOwnersInit == ThreeOwners @@ Others(ThreeOwners)

\* Only one owner.
Founder == m1 :> Row(o1, u1, "OWNER")
FounderInit == Founder @@ Others(Founder)

\* Requests are interchangeable, and so are the keys no row has at the start.
Symmetry ==
  Permutations(Requests) \cup Permutations(InvIds)
    \cup Permutations({m \in MemIds : InitMember[m] = Free})
=============================================================================
