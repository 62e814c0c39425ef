---------------------------- MODULE StakeContract ----------------------------
(* What the arena promises about the bread of one duel: both stakes are taken *)
(* together, held, and paid out once, to the winner, to both in a draw, or to *)
(* both when the duel is given up.                                            *)
EXTENDS Integers

CONSTANT Stake   \* what each player puts in

Players == {"p1", "p2"}

VARIABLES
  held,    \* is the bread of this duel with the house?
  over,    \* has the duel paid out?
  ledger   \* what the duel has taken from and given to each player

Init ==
  /\ ~held /\ ~over
  /\ ledger = [p \in Players |-> 0]

TakeStakes ==
  /\ ~held /\ ~over
  /\ held' = TRUE
  /\ ledger' = [p \in Players |-> -Stake]
  /\ UNCHANGED over

PayOut ==
  /\ held
  /\ held' = FALSE /\ over' = TRUE
  /\ \/ \E p \in Players : ledger' = [ledger EXCEPT ![p] = @ + 2 * Stake]
     \/ ledger' = [p \in Players |-> ledger[p] + Stake]

Spec == Init /\ [][TakeStakes \/ PayOut]_<<held, over, ledger>>

=============================================================================
