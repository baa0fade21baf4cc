------------------------------ MODULE MCField ------------------------------
\* Instances of FieldWork, and of the modules it is made of.
EXTENDS FieldWork, TLC

CONSTANTS m1, m2, s1, s2, s3, u1, u2, d1, d2, i1, i2, k1, k2,
          r1, r2, q1, q2, p1, p2, h1, h2, w1, w2

Swap == [resolution |-> "REPLACE_SIM", disposition |-> "MARK_DEFECTIVE",
         category |-> "OTHER"]
Full == [resolution |-> "FULL_DEMOUNT", disposition |-> "RETURN_TO_STOCK",
         category |-> "MAINTENANCE"]

SwapAndFull == {Swap, Full}

ReturnAll == {<<"RETURN_SIM_TO_AVAILABLE", "DELETE_ALL">>}
ReturnOrDelete == ReturnAll \union {<<"DELETE_SIM", "ABORT_IF_EXISTS">>}

FieldSymmetry ==
  Permutations(Meters) \union Permutations(Sims \ NewSims) \union Permutations(Users)
    \union Permutations(DemountIds) \union Permutations(InstallIds)
    \union Permutations(Keys) \union Permutations(Shipments)
    \union Permutations(ShipmentRequests)
=============================================================================
