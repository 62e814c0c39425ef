----------------------------- MODULE ArenaMatch ------------------------------
(* One 1v1 arena duel from the escrow of both stakes to its settlement: the   *)
(* match state in Redis, the rounds and their timers, answers, disconnects,   *)
(* reconnects and forfeits, the finalizers that race to pay out, and the      *)
(* sweep that refunds escrows nobody will finish.                             *)
(*                                                                            *)
(* Timers and the continuations behind an await live in one Node process and  *)
(* die with it; Redis and PostgreSQL survive. What a handler does after its    *)
(* updateMatch returned and before its next await is one step with the save:   *)
(* the process has one Redis connection, which answers in order.              *)
EXTENDS Integers, Sequences, FiniteSets

CONSTANTS
  Stake,       \* the stake of each player
  Rounds,      \* number of questions drawn
  MaxSockets,  \* bound on the sockets a player opens
  MaxFaults    \* bound on disconnects, crashes, failed calls and expired locks

ASSUME NumbersAssumption ==
  /\ Stake \in Nat /\ Rounds \in Nat \ {0}
  /\ MaxSockets \in Nat \ {0} /\ MaxFaults \in Nat

VARIABLES
  battle,    \* the GameBattle row: its status and winnerRole
  ledger,    \* bread the duel took from (-) and gave to (+) each player
  stored,    \* the match state in Redis
  edit,      \* the updateMatch under arena:lock:match: what it read and will save
  ended,     \* rounds with an arena:round_ended key
  revealed,  \* how often each round's result was broadcast
  timer,     \* roundTimers: the round it will end, or NoRound
  pauses,    \* pending 2.5 s pauses, in order: the round to start, Rounds to settle
  grace,     \* disconnectTimers: players whose 15 s are running
  calls,     \* continuations of handlers, behind an await
  fin,       \* settleBattle and handleForfeit calls under way
  lock,      \* who holds arena:lock:settle
  sweep,     \* has a sweep found this escrow stale?
  online, socket,  \* each player's current socket
  faults     \* faults spent so far

vars == <<battle, ledger, stored, edit, ended, revealed, timer, pauses, grace, calls,
          fin, lock, sweep, online, socket, faults>>

-----------------------------------------------------------------------------
(* Data.                                                                     *)

Players == {"p1", "p2"}
Other(p) == IF p = "p1" THEN "p2" ELSE "p1"

RoundIds == 0 .. Rounds - 1
NoRound  == -1
Winners  == Players \cup {"draw"}

\* settleBattle after the last round, or the forfeit of a player.
Finalizers == {"settle"} \cup Players
Nobody     == "nobody"

MatchType == [live : BOOLEAN, settled : BOOLEAN, forfeit : BOOLEAN, round : RoundIds,
              score : [Players -> Nat], answered : [Players -> SUBSET RoundIds],
              away : [Players -> BOOLEAN], socket : [Players -> 0 .. MaxSockets]]

EditType ==
  [step : {"none", "round", "answer", "away", "rejoin"}, player : Players, round : RoundIds,
   match : MatchType]

CallType ==
  [step : {"store"}] \cup
  [step : {"end", "reveal"}, round : RoundIds] \cup
  [step : {"drop"}, player : Players, socket : 0 .. MaxSockets]

FinType == [pc : {"idle", "read", "lock", "pay", "finish", "unlock"},
            winner : Winners, match : MatchType]

NewMatch(sockets) ==
  [live |-> TRUE, settled |-> FALSE, forfeit |-> FALSE, round |-> 0,
   score |-> [p \in Players |-> 0], answered |-> [p \in Players |-> {}],
   away |-> [p \in Players |-> FALSE], socket |-> sockets]
NoMatch == [NewMatch([p \in Players |-> 0]) EXCEPT !.live = FALSE]
Idle    == [pc |-> "idle", winner |-> "draw", match |-> NoMatch]
NoEdit  == [step |-> "none", player |-> "p1", round |-> 0, match |-> NoMatch]

Init ==
  /\ battle = [status |-> "none", winner |-> "draw"]
  /\ ledger = [p \in Players |-> 0]
  /\ stored = NoMatch /\ edit = NoEdit
  /\ ended = {} /\ revealed = [r \in RoundIds |-> 0]
  /\ timer = NoRound /\ pauses = <<>> /\ grace = {} /\ calls = {}
  /\ fin = [f \in Finalizers |-> Idle]
  /\ lock = Nobody /\ sweep = FALSE
  /\ online = [p \in Players |-> TRUE] /\ socket = [p \in Players |-> 1]
  /\ faults = 0

-----------------------------------------------------------------------------
(* Helpers.                                                                  *)

\* What updateMatch lets a mutation see: the match is there and not settled.
Open == stored.live /\ ~stored.settled

Leader(score) ==
  IF score["p1"] > score["p2"] THEN "p1"
  ELSE IF score["p2"] > score["p1"] THEN "p2" ELSE "draw"

\* The ledger entries of a payout; of a refund to both for "draw".
Payout(p, winner) == IF winner = "draw" THEN Stake ELSE IF winner = p THEN 2 * Stake ELSE 0
PaidTo(winner)    == [p \in Players |-> ledger[p] + Payout(p, winner)]

\* The continuation c runs and leaves those of `next` behind.
Continue(c, next) == calls' = (calls \ {c}) \cup next

\* updateMatch takes the match lock, reads the match and applies the mutation...
Edit(step, p, r, match) ==
  /\ edit = NoEdit /\ Open
  /\ edit' = [step |-> step, player |-> p, round |-> r, match |-> match]

\* ...then saves it, whatever was stored meanwhile, and releases the lock.
Save(step) ==
  /\ edit.step = step
  /\ stored' = edit.match /\ edit' = NoEdit

Fault == faults < MaxFaults /\ faults' = faults + 1

\* MUTANT of RoundsDone: the sweep's age is shorter than a match.
RoundsBegun == TRUE

\* No round of this match is running or due, and it is not being settled.
RoundsDone ==
  /\ timer = NoRound /\ pauses = <<>> /\ fin["settle"].pc = "idle"
  /\ edit.step \notin {"round", "answer"}
  /\ \A c \in calls : c.step = "drop"

\* Nothing of this match is pending in the process.
Quiet ==
  /\ timer = NoRound /\ pauses = <<>> /\ grace = {} /\ calls = {} /\ edit = NoEdit
  /\ \A f \in Finalizers : fin[f].pc = "idle"

redis  == <<stored, edit>>
timers == <<timer, pauses, grace>>
rounds == <<ended, revealed>>
paying == <<battle, ledger, fin, lock, sweep>>
people == <<online, socket>>

-----------------------------------------------------------------------------
(* tryMatchPlayers, from the escrow transaction on.                          *)

Escrow ==
  /\ battle.status = "none"
  /\ battle' = [battle EXCEPT !.status = "escrowed"]
  /\ ledger' = [p \in Players |-> -Stake]
  /\ calls' = {[step |-> "store"]}
  /\ UNCHANGED <<redis, rounds, timers, fin, lock, sweep, people, faults>>

\* The match state is saved under the sockets popped from the queue and round 0
\* is due after the countdown, unless a call in between fails.
Store(c) ==
  /\ c.step = "store"
  /\ stored' = NewMatch([p \in Players |-> 1])
  /\ \/ pauses' = <<0>> /\ UNCHANGED faults
     \/ Fault /\ UNCHANGED pauses
  /\ Continue(c, {})
  /\ UNCHANGED <<edit, rounds, timer, grace, paying, people>>

-----------------------------------------------------------------------------
(* Rounds.                                                                   *)

\* The pause before a round is over.
StartRound ==
  /\ pauses # <<>> /\ Head(pauses) < Rounds
  /\ pauses' = Tail(pauses)
  /\ IF Open
     THEN Edit("round", "p1", Head(pauses), [stored EXCEPT !.round = Head(pauses)])
     ELSE UNCHANGED edit
  /\ UNCHANGED <<stored, rounds, timer, grace, calls, paying, people, faults>>

\* round_start is broadcast; the timer replaces any that was set.
SaveRound ==
  /\ Save("round")
  /\ timer' = edit.round
  /\ UNCHANGED <<rounds, pauses, grace, calls, paying, people, faults>>

RoundTimeout ==
  /\ timer # NoRound
  /\ timer' = NoRound
  /\ calls' = calls \cup {[step |-> "end", round |-> timer]}
  /\ UNCHANGED <<redis, rounds, pauses, grace, paying, people, faults>>

\* submit_answer: for the current round, and the first of that player.
Answer(p, points) ==
  /\ online[p] /\ stored.round \notin stored.answered[p]
  /\ Edit("answer", p, stored.round,
          [stored EXCEPT !.answered[p] = @ \cup {stored.round}, !.score[p] = @ + points])
  /\ UNCHANGED <<stored, rounds, timers, calls, paying, people, faults>>

\* When both have answered the match's timer is cleared and the round ends.
SaveAnswer ==
  /\ Save("answer")
  /\ IF \A p \in Players : edit.round \in edit.match.answered[p]
     THEN /\ timer' = NoRound
          /\ calls' = calls \cup {[step |-> "end", round |-> edit.round]}
     ELSE UNCHANGED <<timer, calls>>
  /\ UNCHANGED <<rounds, pauses, grace, paying, people, faults>>

\* MUTANT of EndRound: no arena:round_ended key.
EndRoundAgain(c) ==
  /\ c.step = "end"
  /\ ended' = ended \cup {c.round}
  /\ Continue(c, {[c EXCEPT !.step = "reveal"]})
  /\ UNCHANGED <<redis, revealed, timers, paying, people, faults>>

\* Only the first to set arena:round_ended goes on.
EndRound(c) ==
  /\ c.step = "end"
  /\ ended' = ended \cup {c.round}
  /\ Continue(c, IF c.round \in ended THEN {} ELSE {[c EXCEPT !.step = "reveal"]})
  /\ UNCHANGED <<redis, revealed, timers, paying, people, faults>>

\* round_result is broadcast and the next round, or the settlement, scheduled.
Reveal(c) ==
  /\ c.step = "reveal"
  /\ IF Open
     THEN /\ revealed' = [revealed EXCEPT ![c.round] = @ + 1]
          /\ pauses' = Append(pauses, c.round + 1)
     ELSE UNCHANGED <<revealed, pauses>>
  /\ Continue(c, {})
  /\ UNCHANGED <<redis, ended, timer, grace, paying, people, faults>>

-----------------------------------------------------------------------------
(* Disconnects and reconnects.                                               *)

Disconnect(p) ==
  /\ online[p] /\ Fault
  /\ online' = [online EXCEPT ![p] = FALSE]
  /\ calls' = calls \cup {[step |-> "drop", player |-> p, socket |-> socket[p]]}
  /\ UNCHANGED <<redis, rounds, timers, paying, socket>>

\* handleDisconnect, unless the player already rejoined on another socket.
MarkAway(c) ==
  /\ c.step = "drop"
  /\ IF Open /\ stored.socket[c.player] = c.socket /\ ~stored.away[c.player]
     THEN Edit("away", c.player, 0, [stored EXCEPT !.away[c.player] = TRUE])
     ELSE UNCHANGED edit
  /\ Continue(c, {})
  /\ UNCHANGED <<stored, rounds, timers, paying, people, faults>>

SaveAway ==
  /\ Save("away")
  /\ grace' = grace \cup {edit.player}
  /\ UNCHANGED <<rounds, timer, pauses, calls, paying, people, faults>>

Connect(p) ==
  /\ ~online[p] /\ socket[p] < MaxSockets
  /\ online' = [online EXCEPT ![p] = TRUE]
  /\ socket' = [socket EXCEPT ![p] = @ + 1]
  /\ UNCHANGED <<redis, rounds, timers, calls, paying, faults>>

\* reconnect_match, or join_queue while the match is on.
Rejoin(p) ==
  /\ online[p] /\ stored.socket[p] # socket[p]
  /\ Edit("rejoin", p, 0, [stored EXCEPT !.socket[p] = socket[p], !.away[p] = FALSE])
  /\ UNCHANGED <<stored, rounds, timers, calls, paying, people, faults>>

SaveRejoin ==
  /\ Save("rejoin")
  /\ grace' = grace \ {edit.player}
  /\ UNCHANGED <<rounds, timer, pauses, calls, paying, people, faults>>

-----------------------------------------------------------------------------
(* Settlement. A finalizer works on the copy of the match it read.           *)

Settle ==
  /\ pauses # <<>> /\ Head(pauses) = Rounds
  /\ fin["settle"].pc = "idle"
  /\ pauses' = Tail(pauses)
  /\ fin' = [fin EXCEPT !["settle"].pc = "read"]
  /\ UNCHANGED <<battle, ledger, redis, rounds, timer, grace, calls, lock, sweep, people,
                 faults>>

GraceTimeout(p) ==
  /\ p \in grace /\ fin[p].pc = "idle"
  /\ grace' = grace \ {p}
  /\ fin' = [fin EXCEPT ![p].pc = "read"]
  /\ UNCHANGED <<battle, ledger, redis, rounds, timer, pauses, calls, lock, sweep, people,
                 faults>>

\* settleBattle and handleForfeit read the match and name the winner.
ReadMatch(f) ==
  /\ fin[f].pc = "read"
  /\ fin' = [fin EXCEPT ![f] =
       IF Open THEN [pc     |-> "lock",
                     winner |-> IF f = "settle" THEN Leader(stored.score) ELSE Other(f),
                     match  |-> stored]
       ELSE Idle]
  /\ UNCHANGED <<battle, ledger, redis, rounds, timers, calls, lock, sweep, people, faults>>

TakeLock(f) ==
  /\ fin[f].pc = "lock"
  /\ IF lock = Nobody
     THEN lock' = f /\ fin' = [fin EXCEPT ![f].pc = "pay"]
     ELSE fin' = [fin EXCEPT ![f] = Idle] /\ UNCHANGED lock
  /\ UNCHANGED <<battle, ledger, redis, rounds, timers, calls, sweep, people, faults>>

\* MUTANT of Pay: the row is not claimed; the settle lock is trusted.
PayUnclaimed(f) ==
  /\ fin[f].pc = "pay"
  /\ battle' = [status |-> "settled", winner |-> fin[f].winner]
  /\ ledger' = PaidTo(fin[f].winner)
  /\ fin' = [fin EXCEPT ![f].pc = "finish"]
  /\ UNCHANGED <<redis, rounds, timers, calls, lock, sweep, people, faults>>

\* The payout transaction claims the row escrowed -> settled, or throws.
Pay(f) ==
  /\ fin[f].pc = "pay"
  /\ IF battle.status = "escrowed"
     THEN /\ battle' = [status |-> "settled", winner |-> fin[f].winner]
          /\ ledger' = PaidTo(fin[f].winner)
          /\ fin' = [fin EXCEPT ![f].pc = "finish"]
     ELSE fin' = [fin EXCEPT ![f].pc = "unlock"] /\ UNCHANGED <<battle, ledger>>
  /\ UNCHANGED <<redis, rounds, timers, calls, lock, sweep, people, faults>>

\* The transaction, or the read of the match before it, fails for another reason.
FinalizeFails(f) ==
  /\ fin[f].pc \in {"read", "lock", "pay", "finish"} /\ Fault
  /\ fin' = [fin EXCEPT ![f] =
       IF fin[f].pc \in {"pay", "finish"} THEN [@ EXCEPT !.pc = "unlock"] ELSE Idle]
  /\ UNCHANGED <<battle, ledger, redis, rounds, timers, calls, lock, sweep, people>>

\* MUTANT of Finish: the stored match is marked, whatever it says by now.
FinishStored(f) ==
  /\ fin[f].pc = "finish"
  /\ stored' = [stored EXCEPT !.live = TRUE, !.settled = TRUE, !.forfeit = f # "settle"]
  /\ fin' = [fin EXCEPT ![f].pc = "unlock"]
  /\ UNCHANGED <<battle, ledger, edit, rounds, timers, calls, lock, sweep, people, faults>>

\* The finalizer's copy becomes the stored match.
Finish(f) ==
  /\ fin[f].pc = "finish"
  /\ stored' = [fin[f].match EXCEPT !.settled = TRUE, !.forfeit = f # "settle"]
  /\ fin' = [fin EXCEPT ![f].pc = "unlock"]
  /\ UNCHANGED <<battle, ledger, edit, rounds, timers, calls, lock, sweep, people, faults>>

Unlock(f) ==
  /\ fin[f].pc = "unlock"
  /\ lock' = IF lock = f THEN Nobody ELSE lock
  /\ fin' = [fin EXCEPT ![f] = Idle]
  /\ UNCHANGED <<battle, ledger, redis, rounds, timers, calls, sweep, people, faults>>

-----------------------------------------------------------------------------
(* What time, crashes and the sweep do.                                      *)

\* PX 10000 runs out: at once only if its owner is slow or gone.
LockExpires ==
  /\ lock # Nobody
  /\ IF fin[lock].pc = "idle" THEN UNCHANGED faults ELSE Fault
  /\ lock' = Nobody
  /\ UNCHANGED <<battle, ledger, redis, rounds, timers, calls, fin, sweep, people>>

\* 15 min after the last write the match state is gone: every timer is shorter.
StoredExpires ==
  /\ stored.live /\ Quiet
  /\ stored' = [stored EXCEPT !.live = FALSE]
  /\ UNCHANGED <<edit, rounds, timers, calls, paying, people, faults>>

\* refundStaleEscrows reads the escrows older than 20 min and claims each
\* escrowed -> cancelled in a transaction. The rounds take two minutes, unless a
\* failure interrupts them: answers may then resume them at any time.
SweepFinds ==
  /\ battle.status = "escrowed" /\ ~sweep
  /\ faults = 0 => RoundsDone
  /\ sweep' = TRUE
  /\ UNCHANGED <<battle, ledger, redis, rounds, timers, calls, fin, lock, people, faults>>

\* MUTANT of Refund: the status read by the sweep is trusted.
RefundUnclaimed ==
  /\ sweep
  /\ sweep' = FALSE
  /\ battle' = [battle EXCEPT !.status = "cancelled"] /\ ledger' = PaidTo("draw")
  /\ UNCHANGED <<redis, rounds, timers, calls, fin, lock, people, faults>>

\* MUTANT of Refund: only matches whose state is still in Redis.
RefundStored ==
  /\ sweep
  /\ sweep' = FALSE
  /\ IF battle.status = "escrowed" /\ stored.live
     THEN battle' = [battle EXCEPT !.status = "cancelled"] /\ ledger' = PaidTo("draw")
     ELSE UNCHANGED <<battle, ledger>>
  /\ UNCHANGED <<redis, rounds, timers, calls, fin, lock, people, faults>>

Refund ==
  /\ sweep
  /\ sweep' = FALSE
  /\ IF battle.status = "escrowed"
     THEN battle' = [battle EXCEPT !.status = "cancelled"] /\ ledger' = PaidTo("draw")
     ELSE UNCHANGED <<battle, ledger>>
  /\ UNCHANGED <<redis, rounds, timers, calls, fin, lock, people, faults>>

\* A Redis call of a handler fails: the error is logged and nothing follows.
CallFails(c) ==
  /\ Fault
  /\ Continue(c, {})
  /\ UNCHANGED <<redis, rounds, timers, paying, people>>

\* updateMatch throws, before or after its save.
EditFails ==
  /\ edit # NoEdit /\ Fault
  /\ edit' = NoEdit
  /\ stored' \in {stored, edit.match}
  /\ UNCHANGED <<rounds, timers, calls, paying, people>>

\* The process restarts: timers, continuations and sockets are gone.
Crash ==
  /\ battle.status # "none" /\ Fault
  /\ timer' = NoRound /\ pauses' = <<>> /\ grace' = {} /\ calls' = {} /\ edit' = NoEdit
  /\ fin' = [f \in Finalizers |-> Idle]
  /\ sweep' = FALSE
  /\ online' = [p \in Players |-> FALSE]
  /\ UNCHANGED <<battle, ledger, stored, rounds, lock, socket>>

-----------------------------------------------------------------------------
(* The next-state relation.                                                  *)

CallStep(c) == Store(c) \/ EndRound(c) \/ Reveal(c) \/ MarkAway(c)

SaveStep == SaveRound \/ SaveAnswer \/ SaveAway \/ SaveRejoin

TimerStep == StartRound \/ RoundTimeout \/ Settle \/ \E p \in Players : GraceTimeout(p)

FinalizerStep(f) == ReadMatch(f) \/ TakeLock(f) \/ Pay(f) \/ Finish(f) \/ Unlock(f)

PlayerStep(p) ==
  \/ \E points \in {0, 1} : Answer(p, points)
  \/ Disconnect(p) \/ Connect(p) \/ Rejoin(p)

Over == battle.status \in {"settled", "cancelled"} /\ UNCHANGED vars

Next ==
  \/ Escrow
  \/ \E c \in calls : CallStep(c) \/ CallFails(c)
  \/ SaveStep \/ EditFails
  \/ TimerStep
  \/ \E f \in Finalizers : FinalizerStep(f) \/ FinalizeFails(f)
  \/ \E p \in Players : PlayerStep(p)
  \/ LockExpires \/ StoredExpires \/ SweepFinds \/ Refund \/ Crash
  \/ Over

\* Node runs every continuation and timer, and the sweep comes round every five
\* minutes. Players owe nothing.
Fairness ==
  /\ WF_vars(\E c \in calls : CallStep(c))
  /\ WF_vars(SaveStep) /\ WF_vars(TimerStep)
  /\ \A f \in Finalizers : WF_vars(FinalizerStep(f))
  /\ WF_vars(SweepFinds) /\ WF_vars(Refund)

Spec     == Init /\ [][Next]_vars
FairSpec == Spec /\ Fairness

-----------------------------------------------------------------------------
(* Properties.                                                               *)

\* Types: the GameBattle row, MatchState and the gateway's maps.
TypeOK ==
  /\ battle \in [status : {"none", "escrowed", "settled", "cancelled"}, winner : Winners]
  /\ ledger \in [Players -> Int]
  /\ stored \in MatchType /\ edit \in EditType
  /\ ended \in SUBSET RoundIds /\ revealed \in [RoundIds -> Nat]
  /\ timer \in RoundIds \cup {NoRound}
  /\ pauses \in Seq(0 .. Rounds)
  /\ grace \in SUBSET Players /\ calls \in SUBSET CallType
  /\ fin \in [Finalizers -> FinType]
  /\ lock \in Finalizers \cup {Nobody} /\ sweep \in BOOLEAN
  /\ online \in [Players -> BOOLEAN] /\ socket \in [Players -> 1 .. MaxSockets]
  /\ faults \in 0 .. MaxFaults

\* The bread of the duel, whichever timer, forfeit or sweep pays it out: both
\* stakes are held while it is escrowed, and afterwards exactly the row's
\* outcome has been paid, once (finalizeMatch and refundStaleEscrows claim).
StakesConserved ==
  \A p \in Players : ledger[p] =
    CASE battle.status = "none"      -> 0
      [] battle.status = "escrowed"  -> -Stake
      [] battle.status = "settled"   -> Payout(p, battle.winner) - Stake
      [] battle.status = "cancelled" -> 0

\* The duel keeps the stake contract: taken together, paid out once.
Contract ==
  INSTANCE StakeContract WITH
    held <- battle.status = "escrowed",
    over <- battle.status \in {"settled", "cancelled"}
HonoursContract == Contract!Spec

\* A match state marked settled is one whose scores justify the payout: answers
\* that arrive while the settlement runs change neither.
ScoreJustifiesPayout ==
  stored.settled =>
    /\ battle.status = "settled"
    /\ ~stored.forfeit => battle.winner = Leader(stored.score)

\* A round's result is broadcast at most once ("only the first one reveals it
\* and schedules the next round").
RevealedOnce == \A r \in RoundIds : revealed[r] <= 1

\* The final match state, once saved, stays final ("Save final match state").
FinalStateKept ==
  [][stored.live /\ stored.settled /\ stored'.live => stored'.settled]_vars

\* An answer to a round whose correct answer was broadcast is stale
\* ("stale round answer").
NoAnswerAfterReveal ==
  [][\A p \in Players : \A r \in stored'.answered[p] \ stored.answered[p] :
        stored.live => revealed[r] = 0]_vars

\* Only a player who is away is paid out as one who forfeited ("forfeited due to
\* 15s disconnect timeout").
ForfeitersAreAway ==
  [][\A p \in Players :
        fin[p].pc = "pay" /\ fin'[p].pc = "finish" => stored.away[p]]_vars

\* Stakes are refunded only when something broke the match ("after a restart an
\* escrowed match can never finish"): a restart, a failed call, a lock that ran out or
\* a lost connection, which is what `faults` counts.
RefundedOnlyIfBroken == battle.status = "cancelled" => faults > 0

\* Every stake taken is paid out or refunded.
StakesReturned == battle.status = "escrowed" ~> battle.status \in {"settled", "cancelled"}

=============================================================================
