---------------------------- MODULE MCMarketOrders ----------------------------
(* Instances of MarketOrders for model checking. Learners, keys and requests   *)
(* are interchangeable: every safety property is symmetric in them.            *)
EXTENDS MarketOrders, TLC

Symmetry == Permutations(Users) \cup Permutations(Keys)
            \cup Permutations(Checkouts) \cup Permutations(Reviews)
=============================================================================
