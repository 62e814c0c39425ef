-------------------------- MODULE ArenaMatchProofs ---------------------------
(* The bread of an arena duel is conserved, for every stake, number of        *)
(* rounds, sockets and failures: the type invariant, the inductive invariant  *)
(* that ties a finalizer to the row it claimed, the refinement of             *)
(* StakeContract, the single broadcast of each result, and the chain of       *)
(* rounds that keeps an unbroken match from being refunded.                   *)
EXTENDS ArenaMatch, SequenceTheorems, TLAPS

-----------------------------------------------------------------------------
(* Type correctness.                                                         *)

LEMMA NewMatchType ==
  \A sockets \in [Players -> 0 .. MaxSockets] : NewMatch(sockets) \in MatchType
  BY NumbersAssumption DEF NewMatch, MatchType, RoundIds

LEMMA IdleType == Idle \in FinType /\ NoMatch \in MatchType /\ NoEdit \in EditType
<1>1. [p \in Players |-> 0] \in [Players -> 0 .. MaxSockets]
  BY NumbersAssumption
<1>2. NewMatch([p \in Players |-> 0]) \in MatchType
  BY <1>1, NewMatchType
<1>3. NoMatch \in MatchType
  BY <1>2 DEF NoMatch, MatchType
<1>4. Idle \in FinType /\ NoEdit \in EditType
  BY <1>3, NumbersAssumption DEF Idle, NoEdit, FinType, EditType, Winners, Players, RoundIds
<1> QED BY <1>3, <1>4

LEMMA TypeInit == Init => TypeOK
<1> SUFFICES ASSUME Init PROVE TypeOK
  OBVIOUS
<1>1. battle \in [status : {"none", "escrowed", "settled", "cancelled"}, winner : Winners]
  BY DEF Init, Winners
<1>2. /\ ledger \in [Players -> Int] /\ revealed \in [RoundIds -> Nat]
      /\ online \in [Players -> BOOLEAN] /\ socket \in [Players -> 1 .. MaxSockets]
  <2>1. 0 \in Int /\ 0 \in Nat /\ TRUE \in BOOLEAN /\ 1 \in 1 .. MaxSockets
    BY NumbersAssumption
  <2> QED BY <2>1, Zenon DEF Init
<1>3. stored \in MatchType /\ edit \in EditType /\ fin \in [Finalizers -> FinType]
  BY IdleType DEF Init
<1>4. /\ ended \in SUBSET RoundIds /\ timer \in RoundIds \cup {NoRound}
      /\ pauses \in Seq(0 .. Rounds) /\ grace \in SUBSET Players /\ calls \in SUBSET CallType
  BY DEF Init
<1>5. lock \in Finalizers \cup {Nobody} /\ sweep \in BOOLEAN /\ faults \in 0 .. MaxFaults
  <2>1. 0 \in 0 .. MaxFaults
    BY NumbersAssumption
  <2> QED BY <2>1, Zenon DEF Init
<1> QED BY <1>1, <1>2, <1>3, <1>4, <1>5 DEF TypeOK

\* What the mutations that updateMatch applies make of a match.
LEMMA MutationType ==
  ASSUME NEW m \in MatchType
  PROVE  /\ m.round \in RoundIds
         /\ \A r \in RoundIds : [m EXCEPT !.round = r] \in MatchType
         /\ \A p \in Players, n \in Nat :
              [m EXCEPT !.answered[p] = @ \cup {m.round}, !.score[p] = @ + n] \in MatchType
         /\ \A p \in Players : [m EXCEPT !.away[p] = TRUE] \in MatchType
         /\ \A p \in Players, s \in 0 .. MaxSockets :
              [m EXCEPT !.socket[p] = s, !.away[p] = FALSE] \in MatchType
         /\ [m EXCEPT !.live = FALSE] \in MatchType
         /\ \A b \in BOOLEAN : [m EXCEPT !.settled = TRUE, !.forfeit = b] \in MatchType
<1>0. /\ m.round \in RoundIds /\ m.score \in [Players -> Nat]
      /\ m.answered \in [Players -> SUBSET RoundIds]
      /\ m.away \in [Players -> BOOLEAN] /\ m.socket \in [Players -> 0 .. MaxSockets]
  BY DEF MatchType
<1>1. \A r \in RoundIds : [m EXCEPT !.round = r] \in MatchType
  BY DEF MatchType
<1>2. ASSUME NEW p \in Players, NEW n \in Nat
      PROVE  [m EXCEPT !.answered[p] = @ \cup {m.round}, !.score[p] = @ + n] \in MatchType
  <2>1. [m.score EXCEPT ![p] = @ + n] \in [Players -> Nat]
    BY <1>0
  <2>2. [m.answered EXCEPT ![p] = @ \cup {m.round}] \in [Players -> SUBSET RoundIds]
    BY <1>0
  <2> QED BY <2>1, <2>2 DEF MatchType
<1>3. ASSUME NEW p \in Players
      PROVE  [m EXCEPT !.away[p] = TRUE] \in MatchType
  <2>1. [m.away EXCEPT ![p] = TRUE] \in [Players -> BOOLEAN]
    BY <1>0
  <2> QED BY <2>1 DEF MatchType
<1>4. ASSUME NEW p \in Players, NEW s \in 0 .. MaxSockets
      PROVE  [m EXCEPT !.socket[p] = s, !.away[p] = FALSE] \in MatchType
  <2>1. /\ [m.away EXCEPT ![p] = FALSE] \in [Players -> BOOLEAN]
        /\ [m.socket EXCEPT ![p] = s] \in [Players -> 0 .. MaxSockets]
    BY <1>0
  <2> QED BY <2>1 DEF MatchType
<1>5. /\ [m EXCEPT !.live = FALSE] \in MatchType
      /\ \A b \in BOOLEAN : [m EXCEPT !.settled = TRUE, !.forfeit = b] \in MatchType
  BY DEF MatchType
<1> QED BY <1>0, <1>1, <1>2, <1>3, <1>4, <1>5

\* An updateMatch that begins with a match of the type is one of the type.
LEMMA EditTyped ==
  ASSUME NEW step \in {"round", "answer", "away", "rejoin"}, NEW p \in Players,
         NEW r \in RoundIds, NEW m \in MatchType, Edit(step, p, r, m)
  PROVE  edit' \in EditType
  BY DEF Edit, EditType

LEMMA SaveTyped ==
  ASSUME NEW step, TypeOK, Save(step)
  PROVE  stored' \in MatchType /\ edit' \in EditType
  BY IdleType DEF Save, EditType, TypeOK

\* Types of what the actions share.
LEMMA Arithmetic ==
  /\ \A r \in RoundIds : r \in 0 .. Rounds /\ r + 1 \in 0 .. Rounds
  /\ \A r \in 0 .. Rounds : r < Rounds => r \in RoundIds
  /\ 0 \in 0 .. Rounds /\ 0 \in RoundIds /\ 1 \in 0 .. MaxSockets
  BY NumbersAssumption DEF RoundIds

LEMMA PaidType ==
  ASSUME TypeOK, NEW w
  PROVE  PaidTo(w) \in [Players -> Int]
<1>1. Stake \in Int /\ 2 * Stake \in Int
  BY NumbersAssumption
<1>2. \A p \in Players : Payout(p, w) \in Int
  BY <1>1 DEF Payout
<1>3. ledger \in [Players -> Int]
  BY DEF TypeOK
<1>4. \A p \in Players : ledger[p] + Payout(p, w) \in Int
  BY <1>2, <1>3
<1> QED BY <1>4 DEF PaidTo

\* The pending pauses: one is taken from the front, one added at the end.
LEMMA PausesType ==
  /\ \A r \in 0 .. Rounds : <<r>> \in Seq(0 .. Rounds)
  /\ \A s \in Seq(0 .. Rounds), r \in 0 .. Rounds : Append(s, r) \in Seq(0 .. Rounds)
  /\ \A s \in Seq(0 .. Rounds) :
       s # <<>> => Head(s) \in 0 .. Rounds /\ Tail(s) \in Seq(0 .. Rounds)
<1> DEFINE S == 0 .. Rounds
<1> HIDE DEF S
<1>1. \A r \in S : <<r>> \in Seq(S)
  OBVIOUS
<1>2. \A s \in Seq(S), r \in S : Append(s, r) \in Seq(S)
  BY AppendProperties
<1>3. \A s \in Seq(S) : s # <<>> => Head(s) \in S /\ Tail(s) \in Seq(S)
  BY HeadTailProperties
<1> QED BY <1>1, <1>2, <1>3 DEF S

LEMMA FaultType == TypeOK /\ Fault => faults' \in 0 .. MaxFaults
  BY NumbersAssumption DEF TypeOK, Fault

\* Every member of CallType, by its step.
LEMMA CallFields ==
  ASSUME NEW c \in CallType
  PROVE  /\ c.step \in {"end", "reveal"} => c.round \in RoundIds
         /\ c.step = "drop" => c.player \in Players /\ c.socket \in 0 .. MaxSockets
         /\ c.step = "end" => [c EXCEPT !.step = "reveal"] \in CallType
  BY DEF CallType

LEMMA NewCallType ==
  /\ [step |-> "store"] \in CallType
  /\ \A r \in RoundIds : [step |-> "end", round |-> r] \in CallType
  /\ \A p \in Players, s \in 0 .. MaxSockets :
       [step |-> "drop", player |-> p, socket |-> s] \in CallType
  BY DEF CallType

LEMMA ContinueTyped ==
  ASSUME TypeOK, NEW c, NEW next \in SUBSET CallType, Continue(c, next)
  PROVE  calls' \in SUBSET CallType
  BY DEF Continue, TypeOK

\* A finalizer that moves on stays one of the type.
LEMMA FinTyped ==
  ASSUME TypeOK, NEW f \in Finalizers
  PROVE  /\ fin[f].winner \in Winners /\ fin[f].match \in MatchType
         /\ \A pc \in {"idle", "read", "lock", "pay", "finish", "unlock"} :
              [fin EXCEPT ![f].pc = pc] \in [Finalizers -> FinType]
         /\ \A x \in FinType : [fin EXCEPT ![f] = x] \in [Finalizers -> FinType]
<1>1. fin \in [Finalizers -> FinType] /\ fin[f] \in FinType
  BY DEF TypeOK
<1>2. \A pc \in {"idle", "read", "lock", "pay", "finish", "unlock"} :
        [fin[f] EXCEPT !.pc = pc] \in FinType
  BY <1>1 DEF FinType
<1> QED BY <1>1, <1>2 DEF FinType

\* Every step preserves the types.
LEMMA TypeNext == TypeOK /\ [Next]_vars => TypeOK'
<1> SUFFICES ASSUME TypeOK, [Next]_vars PROVE TypeOK'
  OBVIOUS
<1> DEFINE RowType == [status : {"none", "escrowed", "settled", "cancelled"}, winner : Winners]
<1>0. /\ battle \in RowType /\ ledger \in [Players -> Int]
      /\ stored \in MatchType /\ edit \in EditType
      /\ edit.match \in MatchType /\ edit.round \in RoundIds /\ edit.player \in Players
      /\ ended \in SUBSET RoundIds /\ revealed \in [RoundIds -> Nat]
      /\ timer \in RoundIds \cup {NoRound} /\ pauses \in Seq(0 .. Rounds)
      /\ calls \in SUBSET CallType /\ grace \in SUBSET Players
      /\ online \in [Players -> BOOLEAN] /\ socket \in [Players -> 1 .. MaxSockets]
  BY DEF TypeOK, EditType
<1>a. Players = {"p1", "p2"} /\ "p1" \in Players
  BY DEF Players
<1>1. CASE Escrow
  <2>1. battle' \in RowType
    BY <1>0, <1>1 DEF Escrow
  <2>2. ledger' \in [Players -> Int]
    BY <1>1, NumbersAssumption DEF Escrow
  <2>3. calls' \in SUBSET CallType
    BY <1>1, NewCallType DEF Escrow
  <2> QED BY <1>1, <2>1, <2>2, <2>3 DEF Escrow, TypeOK, redis, rounds, timers, people
<1>2. ASSUME NEW c \in calls, Store(c) PROVE TypeOK'
  <2>1. stored' \in MatchType
    BY <1>2, NewMatchType, Arithmetic DEF Store
  <2>2. pauses' \in Seq(0 .. Rounds)
    <3>1. <<0>> \in Seq(0 .. Rounds)
      BY PausesType, Arithmetic
    <3> QED BY <1>0, <1>2, <3>1, Zenon DEF Store
  <2>3. calls' \in SUBSET CallType
    BY <1>2, ContinueTyped DEF Store
  <2>4. faults' \in 0 .. MaxFaults
    BY <1>2, FaultType DEF Store, TypeOK
  <2> QED BY <1>2, <2>1, <2>2, <2>3, <2>4 DEF Store, TypeOK, rounds, paying, people
<1>3. CASE StartRound
  <2>1. Head(pauses) \in RoundIds /\ pauses' \in Seq(0 .. Rounds)
    <3>1. /\ pauses # <<>> /\ Head(pauses) < Rounds
          /\ pauses' = Tail(pauses)
      BY <1>3, Zenon DEF StartRound
    <3>2. Head(pauses) \in 0 .. Rounds /\ Tail(pauses) \in Seq(0 .. Rounds)
      BY <1>0, <3>1, PausesType
    <3> QED BY <3>1, <3>2, Arithmetic
  <2>2. [stored EXCEPT !.round = Head(pauses)] \in MatchType
    BY <1>0, <2>1, MutationType
  <2>3. edit' \in EditType
    BY <1>0, <1>a, <1>3, <2>1, <2>2, EditTyped DEF StartRound
  <2> QED BY <1>3, <2>1, <2>3 DEF StartRound, TypeOK, rounds, paying, people
<1>4. CASE SaveRound
  <2>1. stored' \in MatchType /\ edit' \in EditType
    BY <1>4, SaveTyped DEF SaveRound
  <2> QED BY <1>0, <1>4, <2>1 DEF SaveRound, TypeOK, rounds, paying, people
<1>5. CASE RoundTimeout
  <2>1. calls' \in SUBSET CallType
    BY <1>0, <1>5, NewCallType DEF RoundTimeout
  <2> QED BY <1>5, <2>1 DEF RoundTimeout, TypeOK, redis, rounds, paying, people
<1>6. ASSUME NEW p \in Players, NEW points \in {0, 1}, Answer(p, points) PROVE TypeOK'
  <2>1. [stored EXCEPT !.answered[p] = @ \cup {stored.round}, !.score[p] = @ + points]
          \in MatchType
    BY <1>0, MutationType
  <2>2. edit' \in EditType
    BY <1>0, <1>6, <2>1, MutationType, EditTyped DEF Answer
  <2> QED BY <1>6, <2>2 DEF Answer, TypeOK, rounds, timers, paying, people
<1>7. CASE SaveAnswer
  <2>1. stored' \in MatchType /\ edit' \in EditType
    BY <1>7, SaveTyped DEF SaveAnswer
  <2>2. calls' \in SUBSET CallType /\ timer' \in RoundIds \cup {NoRound}
    BY <1>0, <1>7, NewCallType DEF SaveAnswer
  <2> QED BY <1>7, <2>1, <2>2 DEF SaveAnswer, TypeOK, rounds, paying, people
<1>8. ASSUME NEW c \in calls, EndRound(c) PROVE TypeOK'
  <2>1. c \in CallType /\ c.round \in RoundIds /\ [c EXCEPT !.step = "reveal"] \in CallType
    BY <1>0, <1>8, CallFields DEF EndRound
  <2>2. calls' \in SUBSET CallType
    BY <1>8, <2>1, ContinueTyped DEF EndRound
  <2> QED BY <1>0, <1>8, <2>1, <2>2 DEF EndRound, TypeOK, redis, timers, paying, people
<1>9. ASSUME NEW c \in calls, Reveal(c) PROVE TypeOK'
  <2>1. c.round \in RoundIds /\ c.round + 1 \in 0 .. Rounds
    BY <1>0, <1>9, CallFields, Arithmetic DEF Reveal
  <2>2. pauses' \in Seq(0 .. Rounds) /\ revealed' \in [RoundIds -> Nat]
    <3>1. Append(pauses, c.round + 1) \in Seq(0 .. Rounds)
      BY <1>0, <2>1, PausesType
    <3>2. [revealed EXCEPT ![c.round] = @ + 1] \in [RoundIds -> Nat]
      BY <1>0, <2>1
    <3> QED BY <1>0, <1>9, <3>1, <3>2, Zenon DEF Reveal
  <2>3. calls' \in SUBSET CallType
    BY <1>9, ContinueTyped DEF Reveal
  <2> QED BY <1>9, <2>2, <2>3 DEF Reveal, TypeOK, redis, paying, people
<1>10. ASSUME NEW p \in Players, Disconnect(p) PROVE TypeOK'
  <2>1. socket[p] \in 0 .. MaxSockets
    BY <1>0, NumbersAssumption
  <2>2. calls' \in SUBSET CallType
    BY <1>0, <1>10, <2>1, NewCallType DEF Disconnect
  <2>3. faults' \in 0 .. MaxFaults /\ online' \in [Players -> BOOLEAN]
    BY <1>0, <1>10, FaultType DEF Disconnect
  <2> QED BY <1>10, <2>2, <2>3 DEF Disconnect, TypeOK, redis, rounds, timers, paying
<1>11. ASSUME NEW c \in calls, MarkAway(c) PROVE TypeOK'
  <2>1. c.player \in Players
    BY <1>0, <1>11, CallFields DEF MarkAway
  <2>2. [stored EXCEPT !.away[c.player] = TRUE] \in MatchType
    BY <1>0, <2>1, MutationType
  <2>3. edit' \in EditType
    BY <1>0, <1>11, <2>1, <2>2, Arithmetic, EditTyped DEF MarkAway
  <2>4. calls' \in SUBSET CallType
    BY <1>11, ContinueTyped DEF MarkAway
  <2> QED BY <1>11, <2>3, <2>4 DEF MarkAway, TypeOK, rounds, timers, paying, people
<1>12. CASE SaveAway
  <2>1. stored' \in MatchType /\ edit' \in EditType
    BY <1>12, SaveTyped DEF SaveAway
  <2> QED BY <1>0, <1>12, <2>1 DEF SaveAway, TypeOK, rounds, paying, people
<1>13. ASSUME NEW p \in Players, Connect(p) PROVE TypeOK'
  <2>1. online' \in [Players -> BOOLEAN] /\ socket' \in [Players -> 1 .. MaxSockets]
    BY <1>0, <1>13, NumbersAssumption DEF Connect
  <2> QED BY <1>13, <2>1 DEF Connect, TypeOK, redis, rounds, timers, paying
<1>14. ASSUME NEW p \in Players, Rejoin(p) PROVE TypeOK'
  <2>1. socket[p] \in 0 .. MaxSockets
    BY <1>0, NumbersAssumption
  <2>2. [stored EXCEPT !.socket[p] = socket[p], !.away[p] = FALSE] \in MatchType
    BY <1>0, <2>1, MutationType
  <2>3. edit' \in EditType
    BY <1>14, <2>2, Arithmetic, EditTyped DEF Rejoin
  <2> QED BY <1>14, <2>3 DEF Rejoin, TypeOK, rounds, timers, paying, people
<1>15. CASE SaveRejoin
  <2>1. stored' \in MatchType /\ edit' \in EditType
    BY <1>15, SaveTyped DEF SaveRejoin
  <2> QED BY <1>0, <1>15, <2>1 DEF SaveRejoin, TypeOK, rounds, paying, people
<1>16. CASE Settle
  <2>1. fin' \in [Finalizers -> FinType]
    BY <1>16, FinTyped DEF Settle, Finalizers
  <2>2. pauses' \in Seq(0 .. Rounds)
    BY <1>0, <1>16 DEF Settle
  <2> QED BY <1>16, <2>1, <2>2 DEF Settle, TypeOK, redis, rounds, people
<1>17. ASSUME NEW p \in Players, GraceTimeout(p) PROVE TypeOK'
  <2>1. fin' \in [Finalizers -> FinType]
    BY <1>17, FinTyped DEF GraceTimeout, Finalizers
  <2> QED BY <1>0, <1>17, <2>1 DEF GraceTimeout, TypeOK, redis, rounds, people
<1>18. ASSUME NEW f \in Finalizers, ReadMatch(f) PROVE TypeOK'
  <2>1. Leader(stored.score) \in Winners /\ Other(f) \in Winners
    BY DEF Leader, Other, Winners, Players
  <2>2. [pc |-> "lock", match |-> stored,
         winner |-> IF f = "settle" THEN Leader(stored.score) ELSE Other(f)] \in FinType
    BY <1>0, <2>1 DEF FinType
  <2>3. fin' \in [Finalizers -> FinType]
    BY <1>18, <2>2, FinTyped, IdleType DEF ReadMatch
  <2> QED BY <1>18, <2>3 DEF ReadMatch, TypeOK, redis, rounds, timers, people
<1>19. ASSUME NEW f \in Finalizers, TakeLock(f) PROVE TypeOK'
  <2>1. /\ [fin EXCEPT ![f].pc = "pay"] \in [Finalizers -> FinType]
        /\ [fin EXCEPT ![f] = Idle] \in [Finalizers -> FinType]
    BY FinTyped, IdleType
  <2>2. fin' \in [Finalizers -> FinType] /\ lock' \in Finalizers \cup {Nobody}
    BY <1>19, <2>1 DEF TakeLock, TypeOK
  <2> QED BY <1>19, <2>2 DEF TakeLock, TypeOK, redis, rounds, timers, people
<1>20. ASSUME NEW f \in Finalizers, Pay(f) PROVE TypeOK'
  <2>1. fin' \in [Finalizers -> FinType]
    BY <1>20, FinTyped DEF Pay
  <2>2. battle' \in RowType
    <3>1. [status |-> "settled", winner |-> fin[f].winner] \in RowType
      BY <1>20, FinTyped
    <3> QED BY <1>0, <1>20, <3>1, Zenon DEF Pay
  <2>3. ledger' \in [Players -> Int]
    BY <1>0, <1>20, PaidType DEF Pay
  <2> QED BY <1>20, <2>1, <2>2, <2>3 DEF Pay, TypeOK, redis, rounds, timers, people
<1>21. ASSUME NEW f \in Finalizers, FinalizeFails(f) PROVE TypeOK'
  <2>1. fin' \in [Finalizers -> FinType]
    BY <1>21, FinTyped, IdleType DEF FinalizeFails
  <2>2. faults' \in 0 .. MaxFaults
    BY <1>21, FaultType DEF FinalizeFails
  <2> QED BY <1>21, <2>1, <2>2 DEF FinalizeFails, TypeOK, redis, rounds, timers, people
<1>22. ASSUME NEW f \in Finalizers, Finish(f) PROVE TypeOK'
  <2>1. fin' \in [Finalizers -> FinType]
    BY <1>22, FinTyped DEF Finish
  <2>2. stored' \in MatchType
    BY <1>22, FinTyped, MutationType DEF Finish
  <2> QED BY <1>22, <2>1, <2>2 DEF Finish, TypeOK, rounds, timers, people
<1>23. ASSUME NEW f \in Finalizers, Unlock(f) PROVE TypeOK'
  <2>1. fin' \in [Finalizers -> FinType]
    BY <1>23, FinTyped, IdleType DEF Unlock
  <2> QED BY <1>23, <2>1 DEF Unlock, TypeOK, redis, rounds, timers, people
<1>24. CASE LockExpires
  <2>1. faults' \in 0 .. MaxFaults
    BY <1>24, FaultType DEF LockExpires, TypeOK
  <2> QED BY <1>24, <2>1 DEF LockExpires, TypeOK, redis, rounds, timers, people
<1>25. CASE StoredExpires
  <2>1. stored' \in MatchType
    BY <1>0, <1>25, MutationType DEF StoredExpires
  <2> QED BY <1>25, <2>1 DEF StoredExpires, TypeOK, rounds, timers, paying, people
<1>26. CASE SweepFinds
  BY <1>26 DEF SweepFinds, TypeOK, redis, rounds, timers, people
<1>27. CASE Refund
  <2>1. battle' \in RowType
    BY <1>0, <1>27 DEF Refund
  <2>2. ledger' \in [Players -> Int]
    BY <1>0, <1>27, PaidType DEF Refund
  <2> QED BY <1>27, <2>1, <2>2 DEF Refund, TypeOK, redis, rounds, timers, people
<1>28. ASSUME NEW c \in calls, CallFails(c) PROVE TypeOK'
  <2>1. calls' \in SUBSET CallType
    BY <1>28, ContinueTyped DEF CallFails
  <2>2. faults' \in 0 .. MaxFaults
    BY <1>28, FaultType DEF CallFails
  <2> QED BY <1>28, <2>1, <2>2 DEF CallFails, TypeOK, redis, rounds, timers, paying, people
<1>29. CASE EditFails
  <2>1. stored' \in MatchType /\ edit' \in EditType
    BY <1>0, <1>29, IdleType DEF EditFails
  <2>2. faults' \in 0 .. MaxFaults
    BY <1>29, FaultType DEF EditFails
  <2> QED BY <1>29, <2>1, <2>2 DEF EditFails, TypeOK, rounds, timers, paying, people
<1>30. CASE Crash
  <2>1. faults' \in 0 .. MaxFaults
    BY <1>30, FaultType DEF Crash
  <2>2. fin' \in [Finalizers -> FinType] /\ edit' \in EditType
    BY <1>30, IdleType DEF Crash
  <2>3. online' \in [Players -> BOOLEAN]
    BY <1>30 DEF Crash
  <2>4. /\ timer' = NoRound /\ pauses' = <<>> /\ grace' = {} /\ calls' = {} /\ sweep' = FALSE
        /\ UNCHANGED <<battle, ledger, stored, ended, revealed, lock, socket>>
    BY <1>30 DEF Crash, rounds
  <2>5. pauses' \in Seq(0 .. Rounds)
    BY <2>4
  <2> QED BY <2>1, <2>2, <2>3, <2>4, <2>5 DEF TypeOK
<1>31. CASE UNCHANGED vars
  BY <1>31 DEF vars, TypeOK
<1> QED
  BY <1>1, <1>2, <1>3, <1>4, <1>5, <1>6, <1>7, <1>8, <1>9, <1>10, <1>11, <1>12, <1>13,
     <1>14, <1>15, <1>16, <1>17, <1>18, <1>19, <1>20, <1>21, <1>22, <1>23, <1>24, <1>25,
     <1>26, <1>27, <1>28, <1>29, <1>30, <1>31
  DEF Next, CallStep, SaveStep, TimerStep, FinalizerStep, PlayerStep, Over

\* The GameBattle row, the match state and the gateway's maps keep their types.
THEOREM TypeCorrect == Spec => []TypeOK
<1> QED BY TypeInit, TypeNext, PTL DEF Spec

-----------------------------------------------------------------------------
(* The bread is conserved: only the escrow, a payout and a refund move it,    *)
(* and the last two claim the row while it is escrowed.                       *)

LEMMA BreadInit == Init => StakesConserved
<1>1. ASSUME Init
      PROVE  battle.status = "none" /\ \A p \in Players : ledger[p] = 0
  <2>1. battle = [status |-> "none", winner |-> "draw"] /\ ledger = [p \in Players |-> 0]
    BY <1>1, Zenon DEF Init
  <2> QED BY <2>1
<1> QED BY <1>1 DEF StakesConserved

\* The steps that leave the row and the ledger alone.
Breadless == UNCHANGED <<battle, ledger>>

LEMMA BreadSteps ==
  TypeOK /\ [Next]_vars =>
    Breadless \/ Escrow \/ (\E f \in Finalizers : Pay(f)) \/ Refund
  BY DEF Breadless, Next, vars, Over, CallStep, SaveStep, TimerStep, FinalizerStep, PlayerStep,
         Store, StartRound, SaveRound, RoundTimeout, Answer, SaveAnswer, EndRound, Reveal,
         Disconnect, MarkAway, SaveAway, Connect, Rejoin, SaveRejoin, Settle, GraceTimeout,
         ReadMatch, TakeLock, FinalizeFails, Finish, Unlock, LockExpires, StoredExpires,
         SweepFinds, CallFails, EditFails, Crash, paying

LEMMA BreadNext == TypeOK /\ StakesConserved /\ [Next]_vars => StakesConserved'
<1> SUFFICES ASSUME TypeOK, StakesConserved, [Next]_vars PROVE StakesConserved'
  OBVIOUS
<1>0. /\ Stake \in Int
      /\ ledger \in [Players -> Int]
      /\ battle \in [status : {"none", "escrowed", "settled", "cancelled"}, winner : Winners]
  BY NumbersAssumption DEF TypeOK
<1>1. CASE Breadless
  BY <1>1 DEF Breadless, StakesConserved
<1>2. CASE Escrow
  <2>1. battle'.status = "escrowed" /\ \A p \in Players : ledger'[p] = -Stake
    BY <1>0, <1>2 DEF Escrow
  <2> QED BY <2>1 DEF StakesConserved
<1>3. ASSUME NEW f \in Finalizers, Pay(f) PROVE StakesConserved'
  <2>1. CASE battle.status = "escrowed"
    <3>1. \A p \in Players : ledger[p] = -Stake
      BY <2>1 DEF StakesConserved
    <3>2. battle'.status = "settled" /\ battle'.winner = fin[f].winner
      BY <1>3, <2>1 DEF Pay
    <3>3. \A p \in Players : ledger'[p] = -Stake + Payout(p, battle'.winner)
      BY <1>3, <2>1, <3>1, <3>2 DEF Pay, PaidTo
    <3>4. \A p \in Players : Payout(p, battle'.winner) \in Int
      BY <1>0 DEF Payout
    <3>5. \A p \in Players : ledger'[p] = Payout(p, battle'.winner) - Stake
      BY <1>0, <3>3, <3>4
    <3>6. \A p \in Players : Payout(p, battle.winner)' = Payout(p, battle'.winner)
      BY DEF Payout
    <3> QED BY <3>2, <3>5, <3>6 DEF StakesConserved
  <2>2. CASE battle.status # "escrowed"
    <3>1. Breadless
      BY <1>3, <2>2 DEF Pay, Breadless
    <3> QED BY <3>1 DEF Breadless, StakesConserved
  <2> QED BY <2>1, <2>2
<1>4. CASE Refund
  <2>1. CASE battle.status = "escrowed"
    <3>1. \A p \in Players : ledger[p] = -Stake
      BY <2>1 DEF StakesConserved
    <3>2. battle'.status = "cancelled"
      BY <1>0, <1>4, <2>1 DEF Refund
    <3>3. \A p \in Players : ledger'[p] = -Stake + Stake
      BY <1>4, <2>1, <3>1 DEF Refund, PaidTo, Payout
    <3>4. \A p \in Players : ledger'[p] = 0
      BY <1>0, <3>3
    <3> QED BY <3>2, <3>4 DEF StakesConserved
  <2>2. CASE battle.status # "escrowed"
    <3>1. Breadless
      BY <1>4, <2>2 DEF Refund, Breadless
    <3> QED BY <3>1 DEF Breadless, StakesConserved
  <2> QED BY <2>1, <2>2
<1> QED BY <1>1, <1>2, <1>3, <1>4, BreadSteps

\* The bread of a duel is held while it is escrowed and paid out exactly once,
\* whichever of finalizeMatch and refundStaleEscrows gets there.
THEOREM BreadConserved == Spec => []StakesConserved
<1>1. TypeOK /\ StakesConserved /\ [Next]_vars => TypeOK' /\ StakesConserved'
  BY TypeNext, BreadNext
<1> QED BY <1>1, TypeInit, BreadInit, PTL DEF Spec

-----------------------------------------------------------------------------
(* The duel implements StakeContract.                                        *)

LEMMA ContractInit == Init => Contract!Init
<1>1. Init => /\ battle = [status |-> "none", winner |-> "draw"]
              /\ ledger = [p \in Players |-> 0]
  BY Zenon DEF Init
<1>2. battle = [status |-> "none", winner |-> "draw"] => battle.status = "none"
  OBVIOUS
<1> QED BY <1>1, <1>2 DEF Contract!Init, Players, Contract!Players

LEMMA ContractNext ==
  TypeOK /\ [Next]_vars =>
    [Contract!TakeStakes \/ Contract!PayOut]_<<battle.status = "escrowed",
       battle.status \in {"settled", "cancelled"}, ledger>>
<1> SUFFICES ASSUME TypeOK, [Next]_vars
             PROVE  [Contract!TakeStakes \/ Contract!PayOut]_<<battle.status = "escrowed",
                      battle.status \in {"settled", "cancelled"}, ledger>>
  OBVIOUS
<1>0. /\ Stake \in Int /\ ledger \in [Players -> Int]
      /\ battle \in [status : {"none", "escrowed", "settled", "cancelled"}, winner : Winners]
      /\ Contract!Players = Players
  BY NumbersAssumption DEF TypeOK, Players, Contract!Players
<1>1. CASE Breadless
  BY <1>1 DEF Breadless
<1>2. CASE Escrow
  <2>1. /\ battle.status = "none" /\ battle'.status = "escrowed"
        /\ ledger' = [p \in Players |-> -Stake]
    BY <1>0, <1>2 DEF Escrow
  <2> QED BY <1>0, <2>1 DEF Contract!TakeStakes
<1>3. ASSUME NEW f \in Finalizers, Pay(f), battle.status = "escrowed"
      PROVE  Contract!PayOut
  <2>1. /\ battle'.status = "settled" /\ fin[f].winner \in Winners
        /\ ledger' = PaidTo(fin[f].winner)
    <3>1. /\ battle' = [status |-> "settled", winner |-> fin[f].winner]
          /\ ledger' = PaidTo(fin[f].winner)
      BY <1>3, Zenon DEF Pay
    <3> QED BY <3>1, FinTyped
  <2>2. CASE fin[f].winner = "draw"
    <3>1. ledger' = [p \in Players |-> ledger[p] + Stake]
      BY <2>1, <2>2 DEF PaidTo, Payout
    <3> QED BY <1>0, <1>3, <2>1, <3>1 DEF Contract!PayOut
  <2>3. CASE fin[f].winner \in Players
    <3>1. fin[f].winner # "draw"
      BY <2>3 DEF Players
    <3>a. ledger' = [p \in Players |-> ledger[p] + Payout(p, fin[f].winner)]
      BY <2>1 DEF PaidTo
    <3>b. \A p \in Players : ledger[p] + Payout(p, fin[f].winner) =
            IF p = fin[f].winner THEN ledger[p] + 2 * Stake ELSE ledger[p]
      BY <1>0, <3>1 DEF Payout
    <3>2. ledger' = [ledger EXCEPT ![fin[f].winner] = @ + 2 * Stake]
      BY <1>0, <2>3, <3>a, <3>b
    <3> QED BY <1>0, <1>3, <2>1, <2>3, <3>2 DEF Contract!PayOut
  <2> QED BY <2>1, <2>2, <2>3 DEF Winners
<1>4. ASSUME Refund, battle.status = "escrowed"
      PROVE  Contract!PayOut
  <2>1. battle'.status = "cancelled"
    BY <1>0, <1>4 DEF Refund
  <2>2. ledger' = [p \in Players |-> ledger[p] + Stake]
    BY <1>4 DEF Refund, PaidTo, Payout
  <2> QED BY <1>0, <1>4, <2>1, <2>2 DEF Contract!PayOut
<1>5. ASSUME (\E f \in Finalizers : Pay(f)) \/ Refund, battle.status # "escrowed"
      PROVE  Breadless
  BY <1>5 DEF Pay, Refund, Breadless
<1> QED BY <1>1, <1>2, <1>3, <1>4, <1>5, BreadSteps DEF Breadless

\* Every duel keeps the contract of its stakes, through answers, disconnects,
\* failures and crashes: they are taken together and paid out once.
THEOREM ContractKept == Spec => HonoursContract
<1> QED BY TypeInit, TypeNext, ContractInit, ContractNext, PTL
     DEF Spec, HonoursContract, Contract!Spec

-----------------------------------------------------------------------------
(* The scores justify the payout. A finalizer works on a copy, so the         *)
(* invariant ties the copy to the row it claimed, and says that no updateMatch*)
(* under way holds a settled match.                                           *)

\* A finalizer names the winner its copy of the scores gives.
CopyNamesWinner ==
  fin["settle"].pc \in {"lock", "pay", "finish"} =>
    fin["settle"].winner = Leader(fin["settle"].match.score)

\* A finalizer about to save has claimed the row for its winner.
ClaimHeld ==
  \A f \in Finalizers :
    fin[f].pc = "finish" => battle.status = "settled" /\ battle.winner = fin[f].winner

EditsUnsettled == ~edit.match.settled

SettleInv == CopyNamesWinner /\ ClaimHeld /\ EditsUnsettled /\ ScoreJustifiesPayout

LEMMA SettleInit == Init => SettleInv
<1> SUFFICES ASSUME Init PROVE SettleInv
  OBVIOUS
<1>1. fin = [f \in Finalizers |-> Idle] /\ edit = NoEdit /\ stored = NoMatch
  BY Zenon DEF Init
<1>2. \A f \in Finalizers : fin[f].pc = "idle"
  BY <1>1 DEF Idle
<1>3. ~NoMatch.settled
  BY DEF NoMatch, NewMatch
<1>4. CopyNamesWinner /\ ClaimHeld
  BY <1>2 DEF CopyNamesWinner, ClaimHeld, Finalizers
<1>5. EditsUnsettled /\ ScoreJustifiesPayout
  BY <1>1, <1>3 DEF EditsUnsettled, ScoreJustifiesPayout, NoEdit
<1> QED BY <1>4, <1>5 DEF SettleInv

\* The steps that touch none of what SettleInv is about.
Unrelated == UNCHANGED <<battle, fin, edit, stored>>

LEMMA UnrelatedKeeps == SettleInv /\ Unrelated => SettleInv'
  BY DEF SettleInv, Unrelated, CopyNamesWinner, ClaimHeld, EditsUnsettled, ScoreJustifiesPayout

\* The mutations updateMatch applies leave an open match open.
LEMMA MutationsUnsettled ==
  ASSUME NEW m \in MatchType, ~m.settled
  PROVE  /\ \A r : ~[m EXCEPT !.round = r].settled
         /\ \A p, n : ~[m EXCEPT !.answered[p] = @ \cup {m.round}, !.score[p] = @ + n].settled
         /\ \A p : ~[m EXCEPT !.away[p] = TRUE].settled
         /\ \A p, s : ~[m EXCEPT !.socket[p] = s, !.away[p] = FALSE].settled
  BY DEF MatchType

LEMMA EditMatch ==
  \A step, p, r, m : Edit(step, p, r, m) => Open /\ edit'.match = m
  BY DEF Edit

LEMMA EditsKeep ==
  ASSUME SettleInv, UNCHANGED <<battle, fin, stored>>,
         edit' = edit \/ edit' = NoEdit \/ ~edit'.match.settled
  PROVE  SettleInv'
<1>1. ~NoEdit.match.settled
  BY DEF NoEdit, NoMatch, NewMatch
<1> QED BY <1>1 DEF SettleInv, CopyNamesWinner, ClaimHeld, EditsUnsettled, ScoreJustifiesPayout

LEMMA SaveKeeps ==
  ASSUME SettleInv, NEW step, Save(step), UNCHANGED <<battle, fin>>
  PROVE  SettleInv'
<1>1. ~NoEdit.match.settled
  BY DEF NoEdit, NoMatch, NewMatch
<1> QED BY <1>1 DEF Save, SettleInv, CopyNamesWinner, ClaimHeld, EditsUnsettled, ScoreJustifiesPayout

\* Before the row is settled nobody is about to save and nothing saved is final.
LEMMA UnsettledRow ==
  ASSUME SettleInv, battle.status # "settled"
  PROVE  ~stored.settled /\ \A f \in Finalizers : fin[f].pc # "finish"
  BY DEF SettleInv, ClaimHeld, ScoreJustifiesPayout

\* A finalizer's own step: what the others hold is untouched.
LEMMA FinKeeps ==
  ASSUME TypeOK, SettleInv, NEW f \in Finalizers, NEW x,
         fin' = [fin EXCEPT ![f] = x], UNCHANGED <<battle, edit, stored>>,
         x.pc = "finish" => battle.status = "settled" /\ battle.winner = x.winner,
         x.pc \in {"lock", "pay", "finish"} /\ f = "settle" => x.winner = Leader(x.match.score)
  PROVE  SettleInv'
<1>1. /\ fin \in [Finalizers -> FinType] /\ fin'[f] = x
      /\ \A g \in Finalizers \ {f} : fin'[g] = fin[g]
  BY DEF TypeOK
<1>2. CopyNamesWinner'
  BY <1>1 DEF SettleInv, CopyNamesWinner, Finalizers, Leader
<1>3. ClaimHeld'
  BY <1>1 DEF SettleInv, ClaimHeld
<1>4. EditsUnsettled' /\ ScoreJustifiesPayout'
  BY DEF SettleInv, EditsUnsettled, ScoreJustifiesPayout
<1> QED BY <1>2, <1>3, <1>4 DEF SettleInv

LEMMA SettleNext == TypeOK /\ SettleInv /\ [Next]_vars => SettleInv'
<1> SUFFICES ASSUME TypeOK, SettleInv, [Next]_vars PROVE SettleInv'
  OBVIOUS
<1>0. stored \in MatchType /\ fin \in [Finalizers -> FinType]
  BY DEF TypeOK
<1>1. CASE Escrow
  <2>1. battle.status = "none" /\ UNCHANGED <<fin, stored, edit>>
    BY <1>1 DEF Escrow, redis
  <2>2. ~stored.settled /\ \A f \in Finalizers : fin[f].pc # "finish"
    BY <2>1, UnsettledRow
  <2> QED BY <2>1, <2>2
       DEF SettleInv, CopyNamesWinner, ClaimHeld, EditsUnsettled, ScoreJustifiesPayout
<1>2. ASSUME NEW c \in calls, Store(c) PROVE SettleInv'
  <2>1. ~stored'.settled /\ UNCHANGED <<battle, fin, edit>>
    BY <1>2 DEF Store, NewMatch, paying
  <2> QED BY <2>1
       DEF SettleInv, CopyNamesWinner, ClaimHeld, EditsUnsettled, ScoreJustifiesPayout
<1>3. CASE StartRound
  <2>1. /\ UNCHANGED <<battle, fin, stored>>
        /\ edit' = edit \/ (Open /\ edit'.match = [stored EXCEPT !.round = Head(pauses)])
    <3>1. CASE Open
      BY <1>3, <3>1, EditMatch DEF StartRound, paying
    <3>2. CASE ~Open
      BY <1>3, <3>2 DEF StartRound, paying
    <3> QED BY <3>1, <3>2
  <2> QED BY <1>0, <2>1, MutationsUnsettled, EditsKeep DEF Open
<1>4. ASSUME NEW p \in Players, NEW points \in {0, 1}, Answer(p, points) PROVE SettleInv'
  <2>1. /\ UNCHANGED <<battle, fin, stored>> /\ Open
        /\ edit'.match = [stored EXCEPT !.answered[p] = @ \cup {stored.round},
                                        !.score[p] = @ + points]
    BY <1>4 DEF Answer, Edit, paying
  <2> QED BY <1>0, <2>1, MutationsUnsettled, EditsKeep DEF Open
<1>5. ASSUME NEW c \in calls, MarkAway(c) PROVE SettleInv'
  <2>1. /\ UNCHANGED <<battle, fin, stored>>
        /\ edit' = edit \/ (Open /\ edit'.match = [stored EXCEPT !.away[c.player] = TRUE])
    <3>1. CASE Open
      BY <1>5, <3>1, EditMatch DEF MarkAway, paying
    <3>2. CASE ~Open
      BY <1>5, <3>2 DEF MarkAway, paying
    <3> QED BY <3>1, <3>2
  <2> QED BY <1>0, <2>1, MutationsUnsettled, EditsKeep DEF Open
<1>6. ASSUME NEW p \in Players, Rejoin(p) PROVE SettleInv'
  <2>1. /\ UNCHANGED <<battle, fin, stored>> /\ Open
        /\ edit'.match = [stored EXCEPT !.socket[p] = socket[p], !.away[p] = FALSE]
    BY <1>6 DEF Rejoin, Edit, paying
  <2> QED BY <1>0, <2>1, MutationsUnsettled, EditsKeep DEF Open
<1>7. CASE SaveStep
  BY <1>7, SaveKeeps DEF SaveStep, SaveRound, SaveAnswer, SaveAway, SaveRejoin, paying
<1>8. CASE EditFails
  <2>1. UNCHANGED <<battle, fin>> /\ edit' = NoEdit /\ stored' \in {stored, edit.match}
    BY <1>8 DEF EditFails, paying
  <2>2. ~NoEdit.match.settled
    BY DEF NoEdit, NoMatch, NewMatch
  <2> QED BY <2>1, <2>2
       DEF SettleInv, CopyNamesWinner, ClaimHeld, EditsUnsettled, ScoreJustifiesPayout
<1>9. CASE StoredExpires
  <2>1. /\ UNCHANGED <<battle, fin, edit>>
        /\ stored' = [stored EXCEPT !.live = FALSE]
    BY <1>9 DEF StoredExpires, paying
  <2>2. /\ stored'.settled = stored.settled /\ stored'.forfeit = stored.forfeit
        /\ stored'.score = stored.score
    BY <1>0, <2>1 DEF MatchType
  <2> QED BY <2>1, <2>2
       DEF SettleInv, CopyNamesWinner, ClaimHeld, EditsUnsettled, ScoreJustifiesPayout, Leader
<1>10. CASE Settle
  <2>1. /\ fin' = [fin EXCEPT !["settle"] = [fin["settle"] EXCEPT !.pc = "read"]]
        /\ UNCHANGED <<battle, edit, stored>> /\ "settle" \in Finalizers
    BY <1>0, <1>10 DEF Settle, redis, Finalizers
  <2>2. [fin["settle"] EXCEPT !.pc = "read"].pc = "read"
    BY <1>0, <2>1 DEF FinType
  <2> QED BY <2>1, <2>2, FinKeeps
<1>11. ASSUME NEW p \in Players, GraceTimeout(p) PROVE SettleInv'
  <2>1. /\ fin' = [fin EXCEPT ![p] = [fin[p] EXCEPT !.pc = "read"]]
        /\ UNCHANGED <<battle, edit, stored>> /\ p \in Finalizers
    BY <1>0, <1>11 DEF GraceTimeout, redis, Finalizers
  <2>2. [fin[p] EXCEPT !.pc = "read"].pc = "read"
    BY <1>0, <2>1 DEF FinType
  <2> QED BY <2>1, <2>2, FinKeeps
<1>12. ASSUME NEW f \in Finalizers, ReadMatch(f) PROVE SettleInv'
  <2> DEFINE x == IF Open
                  THEN [pc     |-> "lock",
                        winner |-> IF f = "settle" THEN Leader(stored.score) ELSE Other(f),
                        match  |-> stored]
                  ELSE Idle
  <2>1. fin' = [fin EXCEPT ![f] = x] /\ UNCHANGED <<battle, edit, stored>>
    BY <1>12 DEF ReadMatch, redis
  <2>2. /\ x.pc # "finish"
        /\ x.pc = "lock" /\ f = "settle" => x.winner = Leader(x.match.score)
        /\ x.pc \in {"lock", "idle"}
    BY DEF Idle
  <2> HIDE DEF x
  <2> QED BY <2>1, <2>2, FinKeeps
<1>13. ASSUME NEW f \in Finalizers, TakeLock(f) PROVE SettleInv'
  <2> DEFINE x == IF lock = Nobody THEN [fin[f] EXCEPT !.pc = "pay"] ELSE Idle
  <2>1. /\ fin' = [fin EXCEPT ![f] = x] /\ UNCHANGED <<battle, edit, stored>>
        /\ fin[f].pc = "lock"
    BY <1>0, <1>13 DEF TakeLock, redis
  <2>2. /\ x.pc \in {"pay", "idle"}
        /\ x.pc = "pay" => x.winner = fin[f].winner /\ x.match = fin[f].match
    BY <1>0 DEF Idle, FinType
  <2>3. f = "settle" => fin[f].winner = Leader(fin[f].match.score)
    BY <2>1 DEF SettleInv, CopyNamesWinner
  <2> HIDE DEF x
  <2> QED BY <2>1, <2>2, <2>3, FinKeeps DEF Leader
<1>14. ASSUME NEW f \in Finalizers, Pay(f), battle.status = "escrowed" PROVE SettleInv'
  <2>1. /\ battle' = [status |-> "settled", winner |-> fin[f].winner]
        /\ fin' = [fin EXCEPT ![f].pc = "finish"]
        /\ UNCHANGED <<edit, stored>> /\ fin[f].pc = "pay"
    BY <1>14 DEF Pay, redis
  <2>2. ~stored.settled /\ \A g \in Finalizers : fin[g].pc # "finish"
    BY <1>14, UnsettledRow
  <2>3. /\ fin'[f].winner = fin[f].winner /\ fin'[f].match = fin[f].match
        /\ \A g \in Finalizers \ {f} : fin'[g] = fin[g]
    BY <1>0, <2>1 DEF FinType
  <2>4. ClaimHeld'
    BY <2>1, <2>2, <2>3 DEF ClaimHeld
  <2>5. CopyNamesWinner'
    BY <2>1, <2>3 DEF SettleInv, CopyNamesWinner, Finalizers, Leader
  <2> QED BY <2>1, <2>2, <2>4, <2>5 DEF SettleInv, EditsUnsettled, ScoreJustifiesPayout
<1>15. ASSUME NEW f \in Finalizers, Pay(f), battle.status # "escrowed" PROVE SettleInv'
  <2>1. /\ fin' = [fin EXCEPT ![f] = [fin[f] EXCEPT !.pc = "unlock"]]
        /\ UNCHANGED <<battle, edit, stored>>
    BY <1>0, <1>15 DEF Pay, redis
  <2>2. [fin[f] EXCEPT !.pc = "unlock"].pc = "unlock"
    BY <1>0 DEF FinType
  <2> QED BY <2>1, <2>2, FinKeeps
<1>16. ASSUME NEW f \in Finalizers, FinalizeFails(f) PROVE SettleInv'
  <2> DEFINE x == IF fin[f].pc \in {"pay", "finish"}
                  THEN [fin[f] EXCEPT !.pc = "unlock"] ELSE Idle
  <2>1. fin' = [fin EXCEPT ![f] = x] /\ UNCHANGED <<battle, edit, stored>>
    BY <1>16 DEF FinalizeFails, redis
  <2>2. x.pc \in {"unlock", "idle"}
    BY <1>0 DEF Idle, FinType
  <2> HIDE DEF x
  <2> QED BY <2>1, <2>2, FinKeeps
<1>17. ASSUME NEW f \in Finalizers, Finish(f) PROVE SettleInv'
  <2>1. /\ fin' = [fin EXCEPT ![f] = [fin[f] EXCEPT !.pc = "unlock"]]
        /\ stored' = [fin[f].match EXCEPT !.settled = TRUE, !.forfeit = f # "settle"]
        /\ UNCHANGED <<battle, edit>> /\ fin[f].pc = "finish" /\ fin[f].match \in MatchType
    BY <1>0, <1>17 DEF Finish, FinType
  <2>2. stored'.score = fin[f].match.score /\ stored'.forfeit = (f # "settle")
    BY <2>1 DEF MatchType
  <2>3. ScoreJustifiesPayout'
    BY <2>1, <2>2 DEF SettleInv, ClaimHeld, CopyNamesWinner, ScoreJustifiesPayout, Leader
  <2>4. [fin[f] EXCEPT !.pc = "unlock"].pc = "unlock"
    BY <1>0 DEF FinType
  <2>5. /\ fin'[f].pc = "unlock"
        /\ \A g \in Finalizers \ {f} : fin'[g] = fin[g]
    BY <1>0, <2>1, <2>4
  <2>6. CopyNamesWinner' /\ ClaimHeld' /\ EditsUnsettled'
    BY <2>1, <2>5 DEF SettleInv, CopyNamesWinner, ClaimHeld, EditsUnsettled, Finalizers, Leader
  <2> QED BY <2>3, <2>6 DEF SettleInv
<1>18. ASSUME NEW f \in Finalizers, Unlock(f) PROVE SettleInv'
  <2>1. fin' = [fin EXCEPT ![f] = Idle] /\ UNCHANGED <<battle, edit, stored>>
    BY <1>18 DEF Unlock, redis
  <2>2. Idle.pc = "idle"
    BY DEF Idle
  <2> QED BY <2>1, <2>2, FinKeeps
<1>19. CASE Refund
  <2>1. UNCHANGED <<fin, edit, stored>> /\ (battle.status # "escrowed" => UNCHANGED battle)
    BY <1>19 DEF Refund, redis
  <2>2. battle.status = "escrowed" =>
          ~stored.settled /\ \A f \in Finalizers : fin[f].pc # "finish"
    BY UnsettledRow
  <2> QED BY <2>1, <2>2
       DEF SettleInv, CopyNamesWinner, ClaimHeld, EditsUnsettled, ScoreJustifiesPayout
<1>20. CASE Crash
  <2>1. /\ \A f \in Finalizers : fin'[f].pc = "idle"
        /\ edit' = NoEdit /\ UNCHANGED <<battle, stored>>
    BY <1>20 DEF Crash, Idle
  <2>2. ~NoEdit.match.settled
    BY DEF NoEdit, NoMatch, NewMatch
  <2> QED BY <2>1, <2>2 DEF SettleInv, CopyNamesWinner, ClaimHeld, EditsUnsettled,
                            ScoreJustifiesPayout, Finalizers
<1>21. ASSUME \/ RoundTimeout \/ LockExpires \/ SweepFinds \/ UNCHANGED vars
              \/ \E c \in calls : EndRound(c) \/ Reveal(c) \/ CallFails(c)
              \/ \E p \in Players : Disconnect(p) \/ Connect(p)
       PROVE  SettleInv'
  <2>1. Unrelated
    BY <1>21 DEF Unrelated, RoundTimeout, LockExpires, SweepFinds, EndRound, Reveal, CallFails,
                 Disconnect, Connect, vars, redis, paying
  <2> QED BY <2>1, UnrelatedKeeps
<1> QED
  BY <1>1, <1>2, <1>3, <1>4, <1>5, <1>6, <1>7, <1>8, <1>9, <1>10, <1>11, <1>12, <1>13,
     <1>14, <1>15, <1>16, <1>17, <1>18, <1>19, <1>20, <1>21
  DEF Next, CallStep, TimerStep, FinalizerStep, PlayerStep, Over

\* The match state saved as final names, by its own scores, the winner that was
\* paid: answers that land while finalizeMatch runs change neither.
THEOREM PayoutJustified == Spec => []ScoreJustifiesPayout
<1>1. TypeOK /\ SettleInv /\ [Next]_vars => TypeOK' /\ SettleInv'
  BY TypeNext, SettleNext
<1>2. SettleInv => ScoreJustifiesPayout
  BY DEF SettleInv
<1> QED BY <1>1, <1>2, TypeInit, SettleInit, PTL DEF Spec

-----------------------------------------------------------------------------
(* A result is broadcast once. The key arena:round_ended outlives the         *)
(* continuations, so the invariant follows a round from the key through the   *)
(* one continuation that goes on to the broadcast.                            *)

End(r)    == [step |-> "end", round |-> r]
Shown(r)  == [step |-> "reveal", round |-> r]
StoreCall == [step |-> "store"]

\* A round that was shown or is about to be has its key, and only one of both.
RevealInv ==
  \A r \in RoundIds :
    /\ revealed[r] <= 1
    /\ revealed[r] > 0 \/ Shown(r) \in calls => r \in ended
    /\ Shown(r) \in calls => revealed[r] = 0

LEMMA RevealInit == Init => RevealInv
<1> SUFFICES ASSUME Init PROVE RevealInv
  OBVIOUS
<1>1. ended = {} /\ calls = {}
  BY DEF Init
<1>2. \A r \in RoundIds : revealed[r] = 0
  BY Zenon DEF Init
<1> QED BY <1>1, <1>2 DEF RevealInv

\* A step that broadcasts nothing and makes no continuation a broadcast.
Hidden ==
  /\ ended' = ended /\ revealed' = revealed
  /\ \A c \in calls' : c \in calls \/ c.step # "reveal"

LEMMA HiddenKeeps == RevealInv /\ Hidden => RevealInv'
<1> SUFFICES ASSUME RevealInv, Hidden PROVE RevealInv'
  OBVIOUS
<1>1. \A r \in RoundIds : Shown(r) \in calls' => Shown(r) \in calls
  BY DEF Hidden, Shown
<1> QED BY <1>1 DEF RevealInv, Hidden

\* A call for a round is the one that names it.
LEMMA CallNamed ==
  ASSUME NEW c \in CallType
  PROVE  /\ c.step = "end" => c = End(c.round) /\ [c EXCEPT !.step = "reveal"] = Shown(c.round)
         /\ c.step = "reveal" => c = Shown(c.round)
         /\ c.step = "store" => c = StoreCall
         /\ c.step \in {"store", "end", "reveal", "drop"}
<1>1. CASE c \in [step : {"store"}]
  BY <1>1 DEF StoreCall
<1>2. CASE c \in [step : {"end", "reveal"}, round : RoundIds]
  <2>1. c = [step |-> c.step, round |-> c.round] /\ c.step \in {"end", "reveal"}
    BY <1>2
  <2> QED BY <1>2, <2>1 DEF End, Shown
<1>3. CASE c \in [step : {"drop"}, player : Players, socket : 0 .. MaxSockets]
  BY <1>3
<1> QED BY <1>1, <1>2, <1>3 DEF CallType

\* Ending a round makes the broadcast due, at most once.
LEMMA RevealNext == TypeOK /\ RevealInv /\ [Next]_vars => RevealInv'
<1> SUFFICES ASSUME TypeOK, RevealInv, [Next]_vars PROVE RevealInv'
  OBVIOUS
<1>0. /\ calls \subseteq CallType /\ ended \subseteq RoundIds
      /\ revealed \in [RoundIds -> Nat]
  BY DEF TypeOK
<1>1. ASSUME NEW c \in calls, EndRound(c) PROVE RevealInv'
  <2>1. /\ c.round \in RoundIds /\ c = End(c.round)
        /\ [c EXCEPT !.step = "reveal"] = Shown(c.round)
        /\ ended' = ended \cup {c.round} /\ revealed' = revealed
        /\ calls' = (calls \ {c}) \cup
                      (IF c.round \in ended THEN {} ELSE {[c EXCEPT !.step = "reveal"]})
    BY <1>0, <1>1, CallNamed, CallFields DEF EndRound, Continue
  <2>2. \A r \in RoundIds :
          Shown(r) \in calls' => Shown(r) \in calls \/ (r = c.round /\ c.round \notin ended)
    BY <2>1 DEF Shown
  <2>3. c.round \notin ended => revealed[c.round] = 0
    BY <1>0, <2>1 DEF RevealInv
  <2> QED BY <2>1, <2>2, <2>3 DEF RevealInv
<1>2. ASSUME NEW c \in calls, Reveal(c) PROVE RevealInv'
  <2>1. /\ c.round \in RoundIds /\ c = Shown(c.round) /\ ended' = ended /\ calls' = calls \ {c}
        /\ revealed' = revealed \/ revealed' = [revealed EXCEPT ![c.round] = @ + 1]
    BY <1>0, <1>2, CallNamed, CallFields DEF Reveal, Continue
  <2>2. \A r \in RoundIds : Shown(r) \in calls' => Shown(r) \in calls /\ r # c.round
    BY <2>1
  <2> QED BY <1>0, <2>1, <2>2 DEF RevealInv
<1>3. ASSUME \/ Escrow \/ StartRound \/ SaveStep \/ EditFails \/ RoundTimeout \/ Settle
             \/ \E p \in Players : GraceTimeout(p)
      PROVE  Hidden
  BY <1>3 DEF Hidden, Escrow, StartRound, SaveStep, SaveRound, SaveAnswer, SaveAway, SaveRejoin,
              EditFails, RoundTimeout, Settle, GraceTimeout, rounds
<1>4. ASSUME NEW c \in calls, Store(c) \/ MarkAway(c) \/ CallFails(c) PROVE Hidden
  BY <1>4 DEF Hidden, Store, MarkAway, CallFails, Continue, rounds
<1>5. ASSUME NEW p \in Players,
             (\E points \in {0, 1} : Answer(p, points)) \/ Disconnect(p) \/ Connect(p) \/ Rejoin(p)
      PROVE  Hidden
  BY <1>5 DEF Hidden, Answer, Disconnect, Connect, Rejoin, rounds
<1>6. ASSUME NEW f \in Finalizers, FinalizerStep(f) \/ FinalizeFails(f) PROVE Hidden
  BY <1>6 DEF Hidden, FinalizerStep, ReadMatch, TakeLock, Pay, Finish, Unlock, FinalizeFails, rounds
<1>7. ASSUME \/ LockExpires \/ StoredExpires \/ SweepFinds \/ Refund \/ Crash
             \/ UNCHANGED vars
      PROVE  Hidden
  BY <1>7 DEF Hidden, LockExpires, StoredExpires, SweepFinds, Refund, Crash, vars, rounds
<1> QED
  BY <1>1, <1>2, <1>3, <1>4, <1>5, <1>6, <1>7, HiddenKeeps
  DEF Next, CallStep, TimerStep, PlayerStep, Over

\* However many timers and last answers end a round, its result is broadcast at
\* most once: the first to set the key is the only one that goes on.
THEOREM ShownOnce == Spec => []RevealedOnce
<1>1. TypeOK /\ RevealInv /\ [Next]_vars => TypeOK' /\ RevealInv'
  BY TypeNext, RevealNext
<1>2. RevealInv => RevealedOnce
  BY DEF RevealInv, RevealedOnce
<1> QED BY <1>1, <1>2, TypeInit, RevealInit, PTL DEF Spec

-----------------------------------------------------------------------------
(* Stakes are refunded only when a failure broke the match. Without one there *)
(* is always a next thing to do, one and the same: a pause that is not over,  *)
(* a round that is saved, runs or is shown, or the settlement. So the match   *)
(* never looks stale to the sweep.                                            *)

\* No player was disconnected and nothing but the one settlement holds the lock.
Steady ==
  /\ grace = {}
  /\ \A p \in Players :
       /\ fin[p].pc = "idle" /\ online[p] /\ socket[p] = 1
       /\ Open => stored.socket[p] = 1
       /\ edit # NoEdit => edit.match.socket[p] = 1
  /\ edit = NoEdit \/ edit.step \in {"round", "answer"}
  /\ \A c \in calls : c.step # "drop"
  /\ fin["settle"].pc \in {"idle", "read", "lock", "pay"}
  /\ lock = IF fin["settle"].pc = "pay" THEN "settle" ELSE Nobody

\* No match is stored yet.
Unstarted ==
  /\ ~stored.live /\ edit = NoEdit /\ ended = {} /\ timer = NoRound /\ pauses = <<>>
  /\ fin["settle"].pc = "idle"

\* The match has come to round k: the timer is that of the stored round...
Kept(k) == Open /\ stored.round <= k /\ timer \in {NoRound, stored.round}

\* ...an updateMatch under way keeps the match open and is for no later round...
Edited(k) ==
  edit # NoEdit =>
    /\ edit.match.live /\ ~edit.match.settled
    /\ edit.round = edit.match.round /\ edit.round <= k
    /\ edit.step = "answer" => edit.round = stored.round

\* ...and exactly the rounds before k are over, k itself if it is about to be shown.
Counted(k) ==
  /\ \A r \in RoundIds : r < k => r \in ended
  /\ \A r \in ended : r < k \/ (r = k /\ Shown(k) \in calls)
  /\ \A c \in calls : \/ \E r \in RoundIds : c = End(r) /\ r <= k
                      \/ c = Shown(k) /\ k \in ended

\* Round k waits for its pause. The stale pause of the round before may be left:
\* the first round can be answered before it starts.
Due(k) ==
  /\ pauses = <<k>> \/ (k > 0 /\ pauses = <<k - 1, k>> /\ edit.step # "round")
  /\ edit.step = "round" => edit.round < k
  /\ timer < k
  /\ k > 0 => stored.round < k /\ k \notin ended /\ End(k) \notin calls

Starting(k) ==
  /\ k < Rounds
  /\ pauses = <<>> /\ edit.step = "round" /\ edit.round = k

\* Round k is the stored one, and something will end it or show its result.
Running(k) ==
  /\ k < Rounds
  /\ pauses = <<>> /\ edit.step # "round" /\ stored.round = k
  /\ timer = k \/ End(k) \in calls \/ Shown(k) \in calls

Settling(k) == k = Rounds /\ pauses = <<>> /\ fin["settle"].pc # "idle"

Phase(k) ==
  \/ (Due(k) \/ Starting(k) \/ Running(k)) /\ fin["settle"].pc = "idle"
  \/ Settling(k)

Chain(k) == Kept(k) /\ Edited(k) /\ Counted(k) /\ Phase(k)

ChainInv ==
  faults = 0 =>
    /\ ~sweep /\ battle.status # "cancelled"
    /\ battle.status \in {"none", "escrowed"} => Steady
    /\ battle.status = "none" => Unstarted /\ calls = {}
    /\ battle.status = "escrowed" =>
         (Unstarted /\ calls = {StoreCall}) \/ \E k \in 0 .. Rounds : Chain(k)

\* The steps of a match that nothing has failed.
Playing ==
  \/ Escrow \/ StartRound \/ SaveRound \/ SaveAnswer \/ RoundTimeout \/ Settle
  \/ \E c \in calls : Store(c) \/ EndRound(c) \/ Reveal(c)
  \/ \E p \in Players, points \in {0, 1} : Answer(p, points)
  \/ ReadMatch("settle") \/ TakeLock("settle") \/ Pay("settle")
  \/ StoredExpires \/ SweepFinds \/ UNCHANGED vars

\* Without a fault, nothing else can happen.
LEMMA PlayingSteps ==
  ASSUME TypeOK, Steady, ~sweep, [Next]_vars, faults = 0, faults' = 0
  PROVE  Playing
<1>0. \A f \in Finalizers : f = "settle" \/ f \in Players
  BY DEF Finalizers
<1>1. ~Fault
  BY DEF Fault
<1>2. ~EditFails /\ ~Crash /\ \A c \in calls : ~CallFails(c) /\ ~MarkAway(c)
  BY <1>1 DEF Steady, EditFails, Crash, CallFails, MarkAway
<1>3. ~SaveAway /\ ~SaveRejoin
  BY DEF Steady, SaveAway, SaveRejoin, Save, NoEdit
<1>4. \A p \in Players : ~GraceTimeout(p) /\ ~Disconnect(p) /\ ~Connect(p) /\ ~Rejoin(p)
  BY <1>1 DEF Steady, GraceTimeout, Disconnect, Connect, Rejoin, Edit
<1>5. ~LockExpires
  BY <1>1 DEF Steady, LockExpires, Nobody
<1>6. \A f \in Finalizers : ~FinalizeFails(f) /\ ~Finish(f) /\ ~Unlock(f)
  BY <1>0, <1>1 DEF Steady, FinalizeFails, Finish, Unlock
<1>7. \A p \in Players : ~ReadMatch(p) /\ ~TakeLock(p) /\ ~Pay(p)
  BY DEF Steady, ReadMatch, TakeLock, Pay
<1>8. ~Refund
  BY DEF Refund
<1> QED
  BY <1>0, <1>2, <1>3, <1>4, <1>5, <1>6, <1>7, <1>8
  DEF Playing, Next, CallStep, SaveStep, TimerStep, FinalizerStep, PlayerStep, Over

\* The steps and rounds of calls, and what tells calls apart.
LEMMA StepOf ==
  /\ \A r : End(r).step = "end" /\ End(r).round = r
  /\ \A r : Shown(r).step = "reveal" /\ Shown(r).round = r
  /\ StoreCall.step = "store" /\ NoEdit.step = "none" /\ Idle.pc = "idle"
  /\ \A r, s : End(r) # Shown(s) /\ (End(r) = End(s) => r = s) /\ (Shown(r) = Shown(s) => r = s)
  /\ \A r : StoreCall # End(r) /\ StoreCall # Shown(r)
<1>1. /\ \A r : End(r).step = "end" /\ End(r).round = r
      /\ \A r : Shown(r).step = "reveal" /\ Shown(r).round = r
      /\ StoreCall.step = "store" /\ NoEdit.step = "none" /\ Idle.pc = "idle"
  BY DEF End, Shown, StoreCall, NoEdit, Idle
<1> QED BY <1>1

\* The steps that touch nobody's connection, finalizer or lock.
LEMMA SteadyFrame ==
  ASSUME Steady, UNCHANGED <<grace, fin, lock, online, socket>>,
         \A c \in calls' : c \in calls \/ c.step # "drop",
         Open' => \A p \in Players : stored'.socket[p] = 1,
         edit' = NoEdit \/ (/\ edit'.step \in {"round", "answer"}
                           /\ \A p \in Players : edit'.match.socket[p] = 1)
  PROVE  Steady'
<1>1. \A c \in calls' : c.step # "drop"
  BY DEF Steady
<1>2. /\ grace' = {} /\ lock' = IF fin'["settle"].pc = "pay" THEN "settle" ELSE Nobody
      /\ fin'["settle"].pc \in {"idle", "read", "lock", "pay"}
      /\ \A p \in Players : fin'[p].pc = "idle" /\ online'[p] /\ socket'[p] = 1
  <2>1. \A p \in Players : online[p]
    BY DEF Steady
  <2>2. \A p \in Players : online'[p]
    BY <2>1, Zenon
  <2> QED BY <2>2 DEF Steady
<1> QED BY <1>1, <1>2, Zenon DEF Steady

\* Nobody is disconnected and nobody else settles: it stays so until the payout.
LEMMA SteadyKept ==
  ASSUME TypeOK, Steady, Playing, ~Pay("settle")
  PROVE  Steady'
<1>0. /\ stored \in MatchType /\ edit.match \in MatchType /\ calls \subseteq CallType
      /\ fin \in [Finalizers -> FinType] /\ "settle" \in Finalizers
      /\ \A p \in Players : p \in Finalizers /\ p # "settle"
  BY DEF TypeOK, EditType, Finalizers, Players
<1>a. /\ Open => \A p \in Players : stored.socket[p] = 1
      /\ edit = NoEdit \/ (/\ edit.step \in {"round", "answer"}
                           /\ \A p \in Players : edit.match.socket[p] = 1)
  BY DEF Steady
<1>1. CASE \/ Escrow \/ RoundTimeout \/ SweepFinds \/ UNCHANGED vars
           \/ \E c \in calls : EndRound(c) \/ Reveal(c)
  <2>1. UNCHANGED <<grace, fin, lock, online, socket, stored, edit>>
    BY <1>1 DEF Escrow, RoundTimeout, SweepFinds, EndRound, Reveal, vars, redis, people,
                timers, paying
  <2>2. \A c \in calls' : c \in calls \/ c.step # "drop"
    BY <1>0, <1>1, CallNamed, StepOf
    DEF Escrow, RoundTimeout, SweepFinds, EndRound, Reveal, Continue, vars
  <2> QED BY <1>a, <2>1, <2>2, SteadyFrame DEF Open
<1>2. ASSUME NEW c \in calls, Store(c) PROVE Steady'
  <2>1. /\ UNCHANGED <<grace, fin, lock, online, socket, edit>> /\ calls' \subseteq calls
        /\ stored' = NewMatch([p \in Players |-> 1])
    BY <1>2 DEF Store, Continue, paying, people
  <2>2. \A p \in Players : stored'.socket[p] = 1
    BY <2>1 DEF NewMatch
  <2> QED BY <1>a, <2>1, <2>2, SteadyFrame
<1>3. CASE StartRound
  <2>1. UNCHANGED <<grace, fin, lock, online, socket, stored, calls>>
    BY <1>3 DEF StartRound, paying, people
  <2>2. edit' = edit \/ (/\ Open /\ edit'.step = "round"
                        /\ edit'.match = [stored EXCEPT !.round = Head(pauses)])
    BY <1>3 DEF StartRound, Edit
  <2>3. [stored EXCEPT !.round = Head(pauses)].socket = stored.socket
    BY <1>0 DEF MatchType
  <2> QED BY <1>a, <2>1, <2>2, <2>3, SteadyFrame DEF Open
<1>4. ASSUME NEW p \in Players, NEW points \in {0, 1}, Answer(p, points) PROVE Steady'
  <2> DEFINE m == [stored EXCEPT !.answered[p] = @ \cup {stored.round}, !.score[p] = @ + points]
  <2>1. /\ UNCHANGED <<grace, fin, lock, online, socket, stored, calls>> /\ Open
        /\ edit'.step = "answer" /\ edit'.match = m
    BY <1>4 DEF Answer, Edit, timers, paying, people
  <2>2. m.socket = stored.socket
    BY <1>0 DEF MatchType
  <2> HIDE DEF m
  <2> QED BY <1>a, <2>1, <2>2, SteadyFrame DEF Open
<1>5. CASE SaveRound \/ SaveAnswer
  <2>1. /\ UNCHANGED <<grace, fin, lock, online, socket>> /\ edit' = NoEdit
        /\ stored' = edit.match /\ edit # NoEdit
    BY <1>5, StepOf DEF SaveRound, SaveAnswer, Save, paying, people
  <2>2. \A c \in calls' : c \in calls \/ c.step # "drop"
    BY <1>5, StepOf DEF SaveRound, SaveAnswer
  <2> QED BY <1>a, <2>1, <2>2, SteadyFrame
<1>6. CASE StoredExpires
  <2>1. /\ UNCHANGED <<grace, fin, lock, online, socket, edit, calls>>
        /\ stored' = [stored EXCEPT !.live = FALSE]
    BY <1>6 DEF StoredExpires, timers, paying, people
  <2>2. ~Open'
    BY <1>0, <2>1 DEF Open, MatchType
  <2> QED BY <1>a, <2>1, <2>2, SteadyFrame
<1>7. CASE Settle \/ ReadMatch("settle") \/ TakeLock("settle")
  <2>1. UNCHANGED <<grace, online, socket, stored, edit, calls>>
    BY <1>7 DEF Settle, ReadMatch, TakeLock, timers, redis, people
  <2>2. /\ \A p \in Players : fin'[p] = fin[p]
        /\ fin'["settle"].pc \in {"idle", "read", "lock", "pay"}
        /\ lock' = IF fin'["settle"].pc = "pay" THEN "settle" ELSE Nobody
    <3>1. CASE Settle
      BY <1>0, <3>1 DEF Settle, Steady, FinType
    <3>2. CASE ReadMatch("settle")
      BY <1>0, <3>2 DEF ReadMatch, Steady, Idle
    <3>3. CASE TakeLock("settle")
      BY <1>0, <3>3 DEF TakeLock, Steady, Idle, FinType
    <3> QED BY <1>7, <3>1, <3>2, <3>3
  <2> QED BY <2>1, <2>2, Zenon DEF Steady, Open
<1> QED BY <1>1, <1>2, <1>3, <1>4, <1>5, <1>6, <1>7 DEF Playing

\* The sequences of pauses that occur.
LEMMA PauseFacts ==
  ASSUME NEW a \in Int, NEW b \in Int
  PROVE  /\ <<a>> # <<>> /\ Head(<<a>>) = a /\ Tail(<<a>>) = <<>>
         /\ Append(<<>>, a) = <<a>>
         /\ <<a, b>> # <<>> /\ Head(<<a, b>>) = a /\ Tail(<<a, b>>) = <<b>>
         /\ Append(<<a>>, b) = <<a, b>>
<1>1. <<a>> # <<>> /\ Head(<<a>>) = a /\ <<a, b>> # <<>> /\ Head(<<a, b>>) = a
  OBVIOUS
<1>2. Tail(<<a>>) = <<>>
  OBVIOUS
<1>3. Tail(<<a, b>>) = <<b>>
  OBVIOUS
<1>4. Append(<<>>, a) = <<a>>
  OBVIOUS
<1>5. Append(<<a>>, b) = <<a, b>>
  <2>1. <<a>> \in Seq(Int) /\ <<a, b>> \in Seq(Int) /\ Len(<<a>>) = 1 /\ Len(<<a, b>>) = 2
    OBVIOUS
  <2>2. /\ Append(<<a>>, b) \in Seq(Int) /\ Len(Append(<<a>>, b)) = 2
        /\ Append(<<a>>, b)[1] = a /\ Append(<<a>>, b)[2] = b
    BY <2>1, AppendProperties
  <2>3. \A i \in 1 .. 2 : Append(<<a>>, b)[i] = <<a, b>>[i]
    BY <2>2
  <2> QED BY <2>1, <2>2, <2>3, SeqEqual
<1> QED BY <1>1, <1>2, <1>3, <1>4, <1>5

\* The rounds of a chain are numbers.
LEMMA ChainTypes ==
  ASSUME TypeOK
  PROVE  /\ stored \in MatchType /\ edit.match \in MatchType
         /\ stored.round \in RoundIds /\ edit.round \in RoundIds
         /\ ended \subseteq RoundIds /\ calls \subseteq CallType
         /\ timer \in RoundIds \cup {NoRound}
         /\ RoundIds \subseteq Int /\ NoRound = -1 /\ Rounds \in Int
         /\ \A r \in RoundIds : 0 <= r /\ r < Rounds
<1>1. stored \in MatchType /\ edit \in EditType
  BY DEF TypeOK
<1>2. stored.round \in RoundIds /\ edit.round \in RoundIds /\ edit.match \in MatchType
  BY <1>1 DEF MatchType, EditType
<1>3. ended \subseteq RoundIds /\ calls \subseteq CallType /\ timer \in RoundIds \cup {NoRound}
  BY DEF TypeOK
<1>4. /\ RoundIds \subseteq Int /\ NoRound = -1 /\ Rounds \in Int
      /\ \A r \in RoundIds : 0 <= r /\ r < Rounds
  BY NumbersAssumption DEF RoundIds, NoRound
<1> QED BY <1>1, <1>2, <1>3, <1>4

\* The timer of the stored round ends that round and no later one.
LEMMA ChainTimeout ==
  ASSUME TypeOK, NEW k \in 0 .. Rounds, Chain(k), RoundTimeout
  PROVE  Chain(k)'
<1> USE ChainTypes DEF Chain
<1>1. /\ UNCHANGED <<stored, edit, ended, pauses, fin>> /\ timer' = NoRound /\ timer # NoRound
      /\ calls' = calls \cup {End(stored.round)} /\ timer = stored.round
  BY DEF RoundTimeout, redis, rounds, paying, Kept, End
<1>2. Kept(k)' /\ Edited(k)'
  BY <1>1, Zenon DEF Kept, Edited, Open
<1>3. Counted(k)'
  BY <1>1, StepOf DEF Counted, Kept
<1>4. Phase(k)'
  <2>1. CASE Due(k) /\ fin["settle"].pc = "idle"
    BY <1>1, <2>1, StepOf DEF Phase, Due
  <2>2. CASE ~Due(k)
    BY <1>1, <2>2 DEF Phase, Starting, Running, Settling
  <2>3. CASE Settling(k)
    BY <1>1, <2>3 DEF Phase, Settling
  <2> QED BY <2>1, <2>2, <2>3 DEF Phase
<1> QED BY <1>2, <1>3, <1>4

\* An answer is for the stored round.
LEMMA ChainAnswer ==
  ASSUME TypeOK, NEW k \in 0 .. Rounds, Chain(k),
         NEW p \in Players, NEW points \in {0, 1}, Answer(p, points)
  PROVE  Chain(k)'
<1> USE ChainTypes DEF Chain
<1> DEFINE m == [stored EXCEPT !.answered[p] = @ \cup {stored.round}, !.score[p] = @ + points]
<1>1. /\ UNCHANGED <<stored, timer, pauses, ended, calls, fin>> /\ edit = NoEdit /\ Open
      /\ edit'.step = "answer" /\ edit'.match = m /\ edit'.round = stored.round
  BY DEF Answer, Edit, timers, rounds, paying
<1>2. m.live = stored.live /\ m.settled = stored.settled /\ m.round = stored.round
  BY DEF MatchType
<1> HIDE DEF m
<1>3. Kept(k)' /\ Counted(k)'
  BY <1>1, Zenon DEF Kept, Counted, Open
<1>4. Edited(k)'
  BY <1>1, <1>2 DEF Edited, Kept, Open
<1>5. Phase(k)'
  BY <1>1, StepOf DEF Phase, Due, Starting, Running, Settling
<1> QED BY <1>3, <1>4, <1>5

\* Only the pause before round k starts k; a stale one starts the round before again.
LEMMA ChainStart ==
  ASSUME TypeOK, NEW k \in 0 .. Rounds, Chain(k), StartRound
  PROVE  Chain(k)'
<1> USE ChainTypes DEF Chain
<1> DEFINE r == Head(pauses)
<1> DEFINE m == [stored EXCEPT !.round = r]
<1>1. /\ UNCHANGED <<stored, timer, ended, calls, fin>> /\ edit = NoEdit /\ Open
      /\ edit'.step = "round" /\ edit'.match = m /\ edit'.round = r
      /\ pauses # <<>> /\ r < Rounds /\ pauses' = Tail(pauses)
  BY DEF StartRound, Edit, rounds, paying, Kept
<1>2. m.live = stored.live /\ m.settled = stored.settled /\ m.round = r
  BY DEF MatchType
<1> HIDE DEF m
<1>3. Due(k) /\ fin["settle"].pc = "idle"
  BY <1>1, StepOf DEF Phase, Starting, Running, Settling
<1>4. (r = k /\ pauses' = <<>>) \/ (k > 0 /\ r = k - 1 /\ pauses' = <<k>>)
  <2>1. CASE pauses = <<k>>
    BY <1>1, <2>1, PauseFacts
  <2>2. CASE k > 0 /\ pauses = <<k - 1, k>>
    <3>1. k - 1 \in Int /\ k \in Int
      OBVIOUS
    <3>2. Head(pauses) = k - 1 /\ Tail(pauses) = <<k>>
      BY <2>2, <3>1, PauseFacts
    <3> QED BY <1>1, <2>2, <3>2
  <2> QED BY <1>3, <2>1, <2>2 DEF Due
<1> HIDE DEF r
<1>5. Kept(k)' /\ Counted(k)'
  BY <1>1, Zenon DEF Kept, Counted, Open
<1>6. Edited(k)'
  BY <1>1, <1>2, <1>4 DEF Edited, Open
<1>7. Phase(k)'
  BY <1>1, <1>3, <1>4 DEF Phase, Due, Starting
<1> QED BY <1>5, <1>6, <1>7

\* The save of round k sets its timer; a stale one sets that of a round before.
LEMMA ChainSaveRound ==
  ASSUME TypeOK, NEW k \in 0 .. Rounds, Chain(k), SaveRound
  PROVE  Chain(k)'
<1> USE ChainTypes DEF Chain
<1>1. /\ UNCHANGED <<pauses, ended, calls, fin>> /\ stored' = edit.match /\ edit' = NoEdit
      /\ timer' = edit.round /\ edit.step = "round" /\ edit # NoEdit
  BY StepOf DEF SaveRound, Save, rounds, paying
<1>2. Kept(k)' /\ Counted(k)' /\ Edited(k)'
  BY <1>1 DEF Kept, Counted, Edited, Open
<1>3. stored'.round = edit.round
  BY <1>1 DEF Edited
<1>4. Phase(k)'
  <2>1. CASE Settling(k)
    BY <1>1, <2>1 DEF Phase, Settling
  <2>2. CASE Starting(k) /\ fin["settle"].pc = "idle"
    BY <1>1, <1>3, <2>2, StepOf DEF Phase, Starting, Running
  <2>3. CASE Due(k) /\ fin["settle"].pc = "idle"
    BY <1>1, <1>3, <2>3, StepOf DEF Phase, Due
  <2> QED BY <1>1, <2>1, <2>2, <2>3 DEF Phase, Running
<1> QED BY <1>2, <1>4

\* The last answer ends the stored round in the timer's place.
LEMMA ChainSaveAnswer ==
  ASSUME TypeOK, NEW k \in 0 .. Rounds, Chain(k), SaveAnswer
  PROVE  Chain(k)'
<1> USE ChainTypes DEF Chain
<1>1. /\ UNCHANGED <<pauses, ended, fin>> /\ stored' = edit.match /\ edit' = NoEdit
      /\ edit.step = "answer" /\ edit # NoEdit
      /\ \/ timer' = NoRound /\ calls' = calls \cup {End(edit.round)}
         \/ timer' = timer /\ calls' = calls
  BY StepOf DEF SaveAnswer, Save, rounds, paying, End
<1>2. stored'.round = edit.round /\ edit.round = stored.round
  BY <1>1 DEF Edited
<1>3. Kept(k)' /\ Edited(k)'
  BY <1>1, <1>2 DEF Kept, Edited, Open
<1>4. Counted(k)'
  <2>1. \A c \in calls' : c \in calls \/ (c = End(stored.round) /\ stored.round <= k)
    BY <1>1, <1>2 DEF Kept
  <2>2. calls \subseteq calls'
    BY <1>1
  <2> QED BY <1>1, <2>1, <2>2 DEF Counted
<1>5. Phase(k)'
  <2>1. CASE Settling(k)
    BY <1>1, <2>1 DEF Phase, Settling
  <2>2. CASE Running(k) /\ fin["settle"].pc = "idle"
    BY <1>1, <1>2, <2>2, StepOf DEF Phase, Running
  <2>3. CASE Due(k) /\ fin["settle"].pc = "idle"
    BY <1>1, <1>2, <2>3, StepOf DEF Phase, Due
  <2> QED BY <1>1, <2>1, <2>2, <2>3 DEF Phase, Starting
<1> QED BY <1>3, <1>4, <1>5

\* A round is ended once: what ends it again finds its key.
LEMMA ChainEnd ==
  ASSUME TypeOK, NEW k \in 0 .. Rounds, Chain(k), NEW c \in calls, EndRound(c)
  PROVE  Chain(k)'
<1> USE ChainTypes DEF Chain
<1>1. c \in CallType /\ c.step = "end"
  BY DEF EndRound
<1>2. /\ c.round \in RoundIds /\ c = End(c.round)
      /\ [c EXCEPT !.step = "reveal"] = Shown(c.round)
  BY <1>1, CallNamed, CallFields
<1>3. /\ UNCHANGED <<stored, edit, timer, pauses, fin>> /\ ended' = ended \cup {c.round}
      /\ calls' = (calls \ {End(c.round)}) \cup (IF c.round \in ended THEN {} ELSE {Shown(c.round)})
  BY <1>2 DEF EndRound, Continue, redis, timers, paying
<1>4. c.round <= k /\ (c.round \notin ended => c.round = k)
  BY <1>2, StepOf DEF Counted
<1>5. Kept(k)' /\ Edited(k)'
  BY <1>3, Zenon DEF Kept, Edited, Open
<1>6. \A r : Shown(r) \in calls => Shown(r) \in calls'
  BY <1>3, StepOf
<1>7. Counted(k)'
  <2>1. CASE c.round \in ended
    BY <1>2, <1>3, <1>6, <2>1 DEF Counted
  <2>2. CASE c.round \notin ended
    BY <1>2, <1>3, <1>4, <1>6, <2>2 DEF Counted
  <2> QED BY <2>1, <2>2
<1>8. End(k) \in calls => End(k) \in calls' \/ Shown(k) \in calls'
  <2>1. CASE c.round = k /\ k \in ended
    BY <1>6, <2>1 DEF Counted
  <2>2. CASE c.round = k /\ k \notin ended
    BY <1>3, <2>2
  <2>3. CASE c.round # k
    BY <1>3, <2>3, StepOf
  <2> QED BY <2>1, <2>2, <2>3
<1>9. Phase(k)'
  <2>1. CASE Running(k) /\ fin["settle"].pc = "idle"
    BY <1>3, <1>6, <1>8, <2>1 DEF Phase, Running
  <2>2. CASE Due(k) /\ fin["settle"].pc = "idle"
    <3>1. End(k) \in calls' => End(k) \in calls
      BY <1>3, StepOf
    <3>2. k > 0 => c.round # k
      BY <1>2, <2>2 DEF Due
    <3> QED BY <1>3, <2>2, <3>1, <3>2 DEF Phase, Due
  <2> QED BY <1>3, <2>1, <2>2 DEF Phase, Starting, Settling
<1> QED BY <1>5, <1>7, <1>9

\* The broadcast of round k makes the next one due.
LEMMA ChainReveal ==
  ASSUME TypeOK, NEW k \in 0 .. Rounds, Chain(k), NEW c \in calls, Reveal(c)
  PROVE  k + 1 \in 0 .. Rounds /\ Chain(k + 1)'
<1> USE ChainTypes DEF Chain
<1>1. c = Shown(k) /\ k \in ended
  BY StepOf DEF Reveal, Counted
<1>2. c.round = k /\ k \in RoundIds /\ k + 1 \in 0 .. Rounds /\ k < Rounds
  BY <1>1, StepOf
<1>3. /\ UNCHANGED <<stored, edit, timer, ended, fin>>
      /\ pauses' = Append(pauses, k + 1) /\ calls' = calls \ {Shown(k)}
  BY <1>1, <1>2 DEF Reveal, Continue, redis, paying, Kept
<1>4. Kept(k + 1)' /\ Edited(k + 1)'
  BY <1>3 DEF Kept, Edited, Open
<1>5. \A d \in calls' : \E r \in RoundIds : d = End(r) /\ r <= k
  BY <1>3 DEF Counted
<1>6. Counted(k + 1)'
  <2>1. \A r \in RoundIds : r < k + 1 => r \in ended
    BY <1>1 DEF Counted
  <2>2. \A r \in ended : r < k + 1
    BY DEF Counted
  <2>3. \A r \in RoundIds : r <= k => r <= k + 1
    OBVIOUS
  <2> QED BY <1>3, <1>5, <2>1, <2>2, <2>3 DEF Counted
<1>7. End(k + 1) \notin calls' /\ k + 1 \notin ended'
  <2>1. \A r \in ended : r <= k
    BY DEF Counted
  <2> QED BY <1>3, <1>5, <2>1, StepOf
<1>8. fin["settle"].pc = "idle" /\ (Due(k) \/ Starting(k) \/ Running(k))
  BY <1>2 DEF Phase, Settling
<1>9. (edit.step = "round" => edit.round < k + 1) /\ timer < k + 1 /\ stored.round < k + 1
  <2>1. edit.step = "round" => edit.round <= k
    BY StepOf DEF Edited
  <2> QED BY <2>1 DEF Kept
<1>10. pauses' = <<k + 1>> \/ (pauses' = <<k, k + 1>> /\ edit.step # "round")
  <2>1. k \in Int /\ k + 1 \in Int
    OBVIOUS
  <2>2. CASE pauses = <<>>
    BY <1>3, <2>1, <2>2, PauseFacts
  <2>3. CASE Due(k)
    <3>1. k = 0 /\ pauses = <<k>> /\ edit.step # "round"
      <4>1. k = 0
        BY <1>1, <2>3 DEF Due, Counted
      <4> QED BY <2>3, <4>1 DEF Due
    <3> QED BY <1>3, <2>1, <3>1, PauseFacts
  <2> QED BY <1>8, <2>2, <2>3 DEF Starting, Running
<1>11. Phase(k + 1)'
  <2>1. k + 1 > 0 /\ (k + 1) - 1 = k
    BY <1>2
  <2> QED BY <1>3, <1>7, <1>8, <1>9, <1>10, <2>1 DEF Phase, Due
<1> QED BY <1>2, <1>4, <1>6, <1>11

\* The match state is saved and round 0 is due.
LEMMA ChainStore ==
  ASSUME TypeOK, Unstarted, calls = {StoreCall}, NEW c \in calls, Store(c), faults' = faults,
         faults \in Nat
  PROVE  Chain(0)'
<1>1. /\ UNCHANGED <<edit, ended, timer, fin>> /\ pauses' = <<0>> /\ calls' = {}
      /\ stored' = NewMatch([p \in Players |-> 1])
  BY DEF Store, Continue, Fault, rounds, paying
<1>2. stored'.live /\ ~stored'.settled /\ stored'.round = 0
  BY <1>1 DEF NewMatch
<1>3. NoRound < 0 /\ NoRound # 0 /\ NoEdit.step # "round"
  BY StepOf DEF NoRound
<1>4. Kept(0)' /\ Edited(0)' /\ Counted(0)'
  BY <1>1, <1>2, Arithmetic DEF Unstarted, Kept, Edited, Counted, Open, RoundIds
<1>5. Phase(0)'
  BY <1>1, <1>2, <1>3 DEF Unstarted, Phase, Due
<1> QED BY <1>4, <1>5 DEF Chain

\* After the last round the settlement is what is left.
LEMMA ChainSettle ==
  ASSUME TypeOK, NEW k \in 0 .. Rounds, Chain(k), Settle
  PROVE  Chain(k)'
<1> USE ChainTypes DEF Chain
<1>1. /\ UNCHANGED <<stored, edit, ended, timer, calls>>
      /\ pauses # <<>> /\ Head(pauses) = Rounds /\ pauses' = Tail(pauses)
      /\ fin'["settle"].pc = "read"
  <2>1. fin \in [Finalizers -> FinType] /\ "settle" \in Finalizers
    BY DEF TypeOK, Finalizers
  <2>2. fin' = [fin EXCEPT !["settle"].pc = "read"]
    BY DEF Settle
  <2>3. fin'["settle"].pc = "read"
    BY <2>1, <2>2 DEF FinType
  <2> QED BY <2>3 DEF Settle, redis, rounds
<1>2. Due(k)
  BY <1>1 DEF Phase, Starting, Running, Settling
<1>3. k = Rounds /\ pauses' = <<>>
  <2>1. k \in Int /\ k - 1 \in Int /\ k <= Rounds
    OBVIOUS
  <2>2. CASE pauses = <<k>>
    BY <1>1, <2>1, <2>2, PauseFacts
  <2>3. CASE pauses = <<k - 1, k>>
    <3>1. Head(pauses) = k - 1
      BY <2>1, <2>3, PauseFacts
    <3> QED BY <1>1, <2>1, <3>1
  <2> QED BY <1>2, <2>2, <2>3 DEF Due
<1>4. Kept(k)' /\ Edited(k)' /\ Counted(k)'
  BY <1>1, Zenon DEF Kept, Edited, Counted, Open
<1> QED BY <1>1, <1>3, <1>4 DEF Phase, Settling

\* The settlement goes on: the match is open and nobody else holds its lock.
LEMMA ChainFinalize ==
  ASSUME TypeOK, Steady, NEW k \in 0 .. Rounds, Chain(k),
         ReadMatch("settle") \/ TakeLock("settle")
  PROVE  Chain(k)'
<1> USE ChainTypes DEF Chain
<1>1. /\ UNCHANGED <<stored, edit, ended, timer, pauses, calls>> /\ fin["settle"].pc # "idle"
      /\ fin'["settle"].pc # "idle"
  <2>1. fin \in [Finalizers -> FinType] /\ "settle" \in Finalizers
    BY DEF TypeOK, Finalizers
  <2>2. CASE ReadMatch("settle")
    <3>1. fin' = [fin EXCEPT !["settle"] = [pc |-> "lock", winner |-> Leader(stored.score),
                                            match |-> stored]]
      BY <2>2 DEF ReadMatch, Kept
    <3> QED BY <2>1, <2>2, <3>1 DEF ReadMatch, redis, rounds, timers
  <2>3. CASE TakeLock("settle")
    <3>1. fin["settle"].pc = "lock" /\ lock = Nobody
      BY <2>3 DEF TakeLock, Steady
    <3>2. fin' = [fin EXCEPT !["settle"].pc = "pay"]
      BY <2>3, <3>1 DEF TakeLock
    <3>3. fin'["settle"].pc = "pay"
      BY <2>1, <3>2 DEF FinType
    <3> QED BY <2>3, <3>1, <3>3 DEF TakeLock, redis, rounds, timers
  <2> QED BY <2>2, <2>3
<1>2. Kept(k)' /\ Edited(k)' /\ Counted(k)'
  BY <1>1, Zenon DEF Kept, Edited, Counted, Open
<1> QED BY <1>1, <1>2 DEF Phase, Settling

\* A match that nothing failed never looks stale, and its state does not expire.
LEMMA ChainBusy ==
  ASSUME TypeOK, NEW k \in 0 .. Rounds, Chain(k), faults = 0
  PROVE  ~StoredExpires /\ ~SweepFinds
<1>1. ~RoundsDone
  <2>1. CASE Running(k)
    <3>1. k # NoRound
      BY DEF NoRound
    <3>2. End(k) \in calls \/ Shown(k) \in calls \/ timer # NoRound
      BY <2>1, <3>1 DEF Running
    <3> QED BY <3>2, StepOf DEF RoundsDone
  <2>2. CASE Due(k)
    <3>1. <<k>> # <<>> /\ <<k - 1, k>> # <<>>
      OBVIOUS
    <3> QED BY <2>2, <3>1 DEF Due, RoundsDone
  <2> QED BY <2>1, <2>2 DEF Chain, Phase, Starting, Settling, RoundsDone
<1>2. Quiet => RoundsDone
  BY StepOf DEF Quiet, RoundsDone, Finalizers
<1> QED BY <1>1, <1>2 DEF StoredExpires, SweepFinds

\* Nothing has begun.
LEMMA ChainInit == Init => ChainInv
<1> SUFFICES ASSUME Init PROVE ChainInv
  OBVIOUS
<1>1. /\ grace = {} /\ calls = {} /\ edit = NoEdit /\ stored = NoMatch /\ ended = {}
      /\ timer = NoRound /\ pauses = <<>> /\ lock = Nobody /\ sweep = FALSE
      /\ battle = [status |-> "none", winner |-> "draw"]
      /\ fin = [f \in Finalizers |-> Idle]
      /\ online = [p \in Players |-> TRUE] /\ socket = [p \in Players |-> 1]
  BY DEF Init
<1>2. \A f \in Finalizers : fin[f].pc = "idle"
  BY <1>1, StepOf
<1>3. /\ \A p \in Players : online[p]
      /\ \A p \in Players : socket[p] = 1
  <2>1. \A p \in Players : online[p] = TRUE
    BY <1>1, Zenon
  <2> QED BY <1>1, <2>1
<1>4. ~Open /\ ~stored.live
  BY <1>1 DEF Open, NoMatch, NewMatch
<1>5. Steady
  <2>1. \A p \in Players : fin[p].pc = "idle" /\ fin["settle"].pc = "idle"
    BY <1>2 DEF Finalizers
  <2>2. fin["settle"].pc = "idle"
    BY <1>2 DEF Finalizers
  <2> QED BY <1>1, <1>3, <1>4, <2>1, <2>2 DEF Steady
<1>6. Unstarted
  BY <1>1, <1>2, <1>4 DEF Unstarted, Finalizers
<1>7. battle.status = "none"
  BY <1>1
<1> QED BY <1>1, <1>5, <1>6, <1>7 DEF ChainInv

\* What a step of an unbroken escrowed match leads to.
LEMMA ChainStep ==
  ASSUME TypeOK, Steady, NEW k \in 0 .. Rounds, Chain(k), Playing, faults = 0, faults' = 0,
         battle.status = "escrowed", ~sweep
  PROVE  \/ battle'.status = "settled" /\ ~sweep'
         \/ /\ battle' = battle /\ sweep' = sweep /\ Steady'
            /\ \E j \in 0 .. Rounds : Chain(j)'
<1>1. CASE Pay("settle")
  <2>1. battle'.status = "settled" /\ sweep' = sweep
    BY <1>1 DEF Pay
  <2> QED BY <2>1
<1>2. ASSUME ~Pay("settle") PROVE Steady'
  BY <1>2, SteadyKept
<1>3. ~StoredExpires /\ ~SweepFinds /\ ~Escrow /\ \A c \in calls : ~Store(c)
  <2>1. \A c \in calls : ~Store(c)
    BY StepOf DEF Chain, Counted, Store
  <2> QED BY <2>1, ChainBusy DEF Escrow
<1>4. CASE UNCHANGED vars
  <2>1. Chain(k)' /\ battle' = battle /\ sweep' = sweep
    BY <1>4 DEF vars, Chain, Kept, Edited, Counted, Phase, Due, Starting, Running, Settling, Open
  <2>2. ~Pay("settle") \/ battle'.status = "settled"
    BY DEF Pay
  <2> QED BY <1>1, <1>2, <2>1
<1>5. ASSUME ~Pay("settle"), ~UNCHANGED vars
      PROVE  battle' = battle /\ sweep' = sweep /\ \E j \in 0 .. Rounds : Chain(j)'
  <2>1. ASSUME NEW c \in calls, Reveal(c)
        PROVE  battle' = battle /\ sweep' = sweep /\ \E j \in 0 .. Rounds : Chain(j)'
    <3>1. k + 1 \in 0 .. Rounds /\ Chain(k + 1)'
      BY <2>1, ChainReveal
    <3>2. battle' = battle /\ sweep' = sweep
      BY <2>1 DEF Reveal, paying
    <3> QED BY <3>1, <3>2
  <2>2. ASSUME \/ StartRound \/ SaveRound \/ SaveAnswer \/ RoundTimeout
               \/ \E c \in calls : EndRound(c)
               \/ \E p \in Players, points \in {0, 1} : Answer(p, points)
        PROVE  battle' = battle /\ sweep' = sweep /\ Chain(k)'
    <3>1. battle' = battle /\ sweep' = sweep
      BY <2>2 DEF StartRound, SaveRound, SaveAnswer, RoundTimeout, EndRound, Answer, paying
    <3>2. Chain(k)'
      BY <2>2, ChainStart, ChainSaveRound, ChainSaveAnswer, ChainTimeout, ChainEnd, ChainAnswer
    <3> QED BY <3>1, <3>2
  <2>3. ASSUME Settle \/ ReadMatch("settle") \/ TakeLock("settle")
        PROVE  battle' = battle /\ sweep' = sweep /\ Chain(k)'
    <3>1. battle' = battle /\ sweep' = sweep
      BY <2>3 DEF Settle, ReadMatch, TakeLock
    <3>2. Chain(k)'
      BY <2>3, ChainSettle, ChainFinalize
    <3> QED BY <3>1, <3>2
  <2> QED BY <1>3, <1>5, <2>1, <2>2, <2>3 DEF Playing
<1> QED BY <1>1, <1>2, <1>4, <1>5

\* Before the match is stored, only the escrow and the store happen.
LEMMA UnstartedStep ==
  ASSUME TypeOK, Steady, Unstarted, Playing, faults = 0, faults' = 0, ~sweep,
         \/ battle.status = "none" /\ calls = {}
         \/ battle.status = "escrowed" /\ calls = {StoreCall}
  PROVE  /\ Steady' /\ sweep' = sweep
         /\ \/ battle' = battle /\ Unstarted' /\ calls' = calls
            \/ battle'.status = "escrowed" /\ Unstarted' /\ calls' = {StoreCall}
            \/ battle'.status = "escrowed" /\ Chain(0)'
<1>1. /\ ~StartRound /\ ~RoundTimeout /\ ~Settle /\ ~ReadMatch("settle")
      /\ ~TakeLock("settle") /\ ~Pay("settle")
  BY DEF Unstarted, StartRound, RoundTimeout, Settle, ReadMatch, TakeLock, Pay
<1>2. ~SaveRound /\ ~SaveAnswer
  BY StepOf DEF Unstarted, SaveRound, SaveAnswer, Save
<1>3. \A p \in Players, points \in {0, 1} : ~Answer(p, points)
  BY DEF Unstarted, Answer, Edit, Open
<1>4. ~StoredExpires
  BY DEF Unstarted, StoredExpires
<1>5. \A c \in calls : ~EndRound(c) /\ ~Reveal(c)
  BY StepOf DEF EndRound, Reveal
<1>6. ~SweepFinds
  <2>1. battle.status = "escrowed" => ~RoundsDone
    BY StepOf DEF RoundsDone
  <2> QED BY <2>1 DEF SweepFinds
<1>7. Steady'
  BY <1>1, SteadyKept
<1>8. CASE Escrow
  <2>1. battle'.status = "escrowed" /\ sweep' = sweep /\ calls' = {StoreCall}
    <3>1. battle \in [status : {"none", "escrowed", "settled", "cancelled"}, winner : Winners]
      BY DEF TypeOK
    <3> QED BY <1>8, <3>1 DEF Escrow, StoreCall
  <2>2. UNCHANGED <<stored, edit, ended, timer, pauses, fin>>
    BY <1>8 DEF Escrow, redis, rounds, timers
  <2> QED BY <1>7, <2>1, <2>2 DEF Unstarted, Open
<1>9. ASSUME NEW c \in calls, Store(c) PROVE Chain(0)' /\ battle' = battle /\ sweep' = sweep
                                             /\ battle.status = "escrowed"
  BY <1>9, ChainStore DEF Store, paying
<1>10. CASE UNCHANGED vars
  BY <1>7, <1>10 DEF vars, Unstarted, Open
<1> QED BY <1>1, <1>2, <1>3, <1>4, <1>5, <1>6, <1>7, <1>8, <1>9, <1>10 DEF Playing

\* Faults are only ever added, and only the sweep's own steps and a crash touch
\* what it found.
LEMMA FaultSteps ==
  ASSUME TypeOK, [Next]_vars
  PROVE  /\ faults' = faults \/ faults' = faults + 1
         /\ sweep' = sweep \/ sweep' = FALSE \/ SweepFinds
<1>1. CASE \/ Escrow \/ StartRound \/ SaveStep \/ EditFails \/ RoundTimeout \/ Settle
           \/ \E p \in Players : GraceTimeout(p)
  BY <1>1 DEF Escrow, StartRound, SaveStep, SaveRound, SaveAnswer, SaveAway, SaveRejoin,
              EditFails, RoundTimeout, Settle, GraceTimeout, Fault, paying
<1>2. ASSUME NEW c \in calls, CallStep(c) \/ CallFails(c)
      PROVE  /\ faults' = faults \/ faults' = faults + 1
             /\ sweep' = sweep
  BY <1>2 DEF CallStep, Store, EndRound, Reveal, MarkAway, CallFails, Fault, paying
<1>3. ASSUME NEW p \in Players, PlayerStep(p)
      PROVE  /\ faults' = faults \/ faults' = faults + 1
             /\ sweep' = sweep
  BY <1>3 DEF PlayerStep, Answer, Disconnect, Connect, Rejoin, Fault, paying
<1>4. ASSUME NEW f \in Finalizers, FinalizerStep(f) \/ FinalizeFails(f)
      PROVE  /\ faults' = faults \/ faults' = faults + 1
             /\ sweep' = sweep
  BY <1>4 DEF FinalizerStep, ReadMatch, TakeLock, Pay, Finish, Unlock, FinalizeFails, Fault
<1>5. CASE LockExpires \/ StoredExpires \/ SweepFinds \/ Refund \/ Crash \/ UNCHANGED vars
  BY <1>5 DEF LockExpires, StoredExpires, SweepFinds, Refund, Crash, vars, Fault, paying
<1> QED BY <1>1, <1>2, <1>3, <1>4, <1>5 DEF Next, TimerStep, Over

\* An unbroken match goes on along the chain, and no step refunds it.
LEMMA ChainNext == TypeOK /\ ChainInv /\ [Next]_vars => ChainInv'
<1> SUFFICES ASSUME TypeOK, ChainInv, [Next]_vars, faults' = 0
             PROVE  /\ ~sweep' /\ battle'.status # "cancelled"
                    /\ battle'.status \in {"none", "escrowed"} => Steady'
                    /\ battle'.status = "none" => Unstarted' /\ calls' = {}
                    /\ battle'.status = "escrowed" =>
                         \/ Unstarted' /\ calls' = {StoreCall}
                         \/ \E k \in 0 .. Rounds : Chain(k)'
  BY DEF ChainInv
<1>1. faults = 0
  <2>1. faults \in Nat
    BY NumbersAssumption DEF TypeOK
  <2>2. faults' = faults \/ faults' = faults + 1
    BY FaultSteps
  <2> QED BY <2>1, <2>2
<1>2. ~sweep /\ battle.status \in {"none", "escrowed", "settled"}
  BY <1>1 DEF ChainInv, TypeOK
<1>3. CASE battle.status = "settled"
  <2>1. battle' = battle
    BY <1>2, <1>3, BreadSteps DEF Breadless, Escrow, Pay, Refund
  <2>2. ~sweep'
    BY <1>2, <1>3, FaultSteps DEF SweepFinds
  <2> QED BY <1>3, <2>1, <2>2
<1>4. ASSUME battle.status \in {"none", "escrowed"} PROVE Steady /\ Playing
  BY <1>1, <1>2, <1>4, PlayingSteps DEF ChainInv
<1>5. CASE battle.status = "none"
  BY <1>1, <1>2, <1>4, <1>5, UnstartedStep, Arithmetic DEF ChainInv
<1>6. CASE battle.status = "escrowed" /\ Unstarted /\ calls = {StoreCall}
  BY <1>1, <1>2, <1>4, <1>6, UnstartedStep, Arithmetic
<1>7. ASSUME NEW k \in 0 .. Rounds, battle.status = "escrowed", Chain(k)
      PROVE  \/ battle'.status = "settled" /\ ~sweep'
             \/ /\ battle' = battle /\ sweep' = sweep /\ Steady'
                /\ \E j \in 0 .. Rounds : Chain(j)'
  BY <1>1, <1>2, <1>4, <1>7, ChainStep
<1> QED BY <1>1, <1>2, <1>3, <1>5, <1>6, <1>7 DEF ChainInv

\* Without a crash, a failure or a disconnect a duel ends in its payout: the
\* sweep finds nothing to refund.
THEOREM RefundIsRepair == Spec => []RefundedOnlyIfBroken
<1>1. TypeOK /\ ChainInv /\ [Next]_vars => TypeOK' /\ ChainInv'
  BY TypeNext, ChainNext
<1>2. TypeOK /\ ChainInv => RefundedOnlyIfBroken
  BY DEF TypeOK, ChainInv, RefundedOnlyIfBroken
<1> QED BY <1>1, <1>2, TypeInit, ChainInit, PTL DEF Spec

=============================================================================
