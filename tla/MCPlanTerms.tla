----------------------------- MODULE MCPlanTerms -----------------------------
(* Instances of PlanTerms for model checking.                                  *)
EXTENDS PlanTerms, TLC

CONSTANTS
  an, binh, chi,    \* learners
  p1, p2, p3, p4    \* purchases

\* Three purchases of one learner, and one of the friend whose code she enters.
TwoOwners  == (p1 :> an) @@ (p2 :> binh) @@ (p3 :> binh) @@ (p4 :> binh)
TwoFriends == {<<binh, an>>}
Alike      == Permutations({p2, p3, p4})

\* One learner who buys twice.
OneOwner == (p1 :> an) @@ (p2 :> an)

\* Three learners who buy once; two of them enter the code of the third.
ThreeOwners  == (p1 :> an) @@ (p2 :> binh) @@ (p3 :> chi)
ThreeFriends == {<<binh, an>>, <<chi, an>>}
=============================================================================
