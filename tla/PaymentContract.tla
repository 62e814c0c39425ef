--------------------------- MODULE PaymentContract ---------------------------
(* What the shop promises of the purchases of one plan by one learner: at most *)
(* one is open, what is granted or refused is final, money that comes for a    *)
(* closed purchase waits for an admin, and a payment is acknowledged only when *)
(* its purchase is granted, under review or decided by an admin.               *)
CONSTANT Purchases

VARIABLES
  stage,   \* of each purchase
  acked    \* purchases whose payment PayOS was told is taken

Stages == {"none", "open", "closed", "review", "granted", "refused"}

Init == stage \in [Purchases -> {"none", "open"}] /\ acked = {}
        /\ \A p, q \in Purchases : stage[p] = "open" /\ stage[q] = "open" => p = q

Becomes(p, from, to) ==
  stage[p] \in from /\ stage' = [stage EXCEPT ![p] = to] /\ UNCHANGED acked

\* A new purchase, which closes the one that was open.
Open(p) ==
  /\ stage[p] = "none"
  /\ stage' = [q \in Purchases |->
                IF q = p THEN "open" ELSE IF stage[q] = "open" THEN "closed" ELSE stage[q]]
  /\ UNCHANGED acked

Close(p)  == Becomes(p, {"open"}, "closed")
Hold(p)   == Becomes(p, {"open", "closed"}, "review")
Grant(p)  == Becomes(p, {"open", "review"}, "granted")
Refuse(p) == Becomes(p, {"open", "review"}, "refused")

Acknowledge(p) ==
  /\ stage[p] \in {"granted", "review", "refused"}
  /\ acked' = acked \cup {p} /\ UNCHANGED stage

Next == \E p \in Purchases :
  Open(p) \/ Close(p) \/ Hold(p) \/ Grant(p) \/ Refuse(p) \/ Acknowledge(p)

Spec == Init /\ [][Next]_<<stage, acked>>

=============================================================================
