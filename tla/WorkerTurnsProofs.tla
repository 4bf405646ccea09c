------------------------- MODULE WorkerTurnsProofs -------------------------
(***************************************************************************)
(* Proofs about the worker supervisor, for any workers, any number of      *)
(* slots and turns, and any faults: who serves a name, who has a turn in   *)
(* hand, in which order turns leave the queue, and what an end leaves.     *)
(***************************************************************************)
EXTENDS WorkerTurns, FiniteSetTheorems, SequenceTheorems, WellFoundedInduction, TLAPS

\* Stages in which a runner has picked a turn, and those in which the turn is its to end.
Picked == {"claim", "wait"} \cup InTurn \cup InAfter
Carrying == {"wait", "begin", "start", "live", "asking"}

Lively(w) == {r \in RunnersOf(w) : at[r] # "off"}

\* A name that was never used again has one runner, which is on register while its row is
\* there; a registered runner is alive; and the turn task on register belongs to a runner of
\* the name that holds a slot, but for the time between a stop and the end of the process.
RegisterInv ==
  /\ \A w \in Workers : status[w] # "none" => gen[w] >= 1
  /\ \A r \in Runners : at[r] # "off" => gen[Lane(r)] >= 1
  /\ \A r, q \in Runners :
       Lane(r) = Lane(q) /\ gen[Lane(r)] <= 1 /\ at[r] # "off" /\ at[q] # "off" => r = q
  /\ \A r \in Runners :
       at[r] # "off" /\ gen[Lane(r)] <= 1 /\ status[Lane(r)] # "none" => runner[Lane(r)] = r
  /\ \A w \in Workers :
       /\ runner[w] # NoRunner => Lane(runner[w]) = w /\ at[runner[w]] # "off"
       /\ up = "up" /\ current[w] # NoRunner =>
            Lane(current[w]) = w /\ at[current[w]] \in InTurn
  /\ up = "down" =>
       (\A r \in Runners : at[r] = "off") /\ \A w \in Workers : current[w] = NoRunner

\* A turn in hand is a turn of the row it was picked from.
HoldInv ==
  /\ \A w \in Workers : status[w] = "none" => turns[w] = <<>> /\ ends[w] = <<>>
  /\ \A r \in Runners :
       /\ hold[r].gen <= gen[Lane(r)]
       /\ at[r] \in Picked => hold[r].gen >= 1
       /\ HasRow(r) => hold[r].i \in DOMAIN turns[Lane(r)]

\* A turn in hand past its claim is not on the queue, unless a second daemon put it back.
ClaimInv ==
  /\ ClaimedOnce
  /\ "second" \notin mishaps =>
       \A r \in Runners :
         at[r] \in InTurn \cup {"wait"} /\ HasRow(r) => Turn(r).state # "queued"

\* A turn that is claimed or running is carried, unless it was out of the reach of a kill or its
\* runner died of an exception.
CarriedInv ==
  up = "up" =>
    \A w \in Workers : gen[w] <= 1 =>
      \A i \in DOMAIN turns[w] :
        turns[w][i].state \in {"claimed", "running"} /\ i + KillLooks > Len(turns[w]) =>
          \/ \E r \in RunnersOf(w) : at[r] \in Carrying /\ hold[r].i = i
          \/ i \in left[w]

\* Without an exception nothing is left.
LeftInv == "raise" \notin mishaps => \A w \in Workers : left[w] = {}

\* What a runner is about to claim has nothing queued before it.
OrderInv ==
  /\ InOrder
  /\ \A r \in Runners :
       LET w == Lane(r)
       IN Orderly(w) /\ at[r] = "claim" /\ HasRow(r)
          => \A i \in 1..(hold[r].i - 1) : turns[w][i].state # "queued"

\* Between the breaker's verdict and the roll nothing changes it.
BreakerInv ==
  \A r \in Runners : gen[Lane(r)] <= 1 /\ at[r] = "roll" => ~WouldRepeat(Lane(r))

IInv ==
  /\ TypeOK /\ RegisterInv /\ HoldInv /\ ClaimInv /\ CarriedInv /\ LeftInv /\ OrderInv
  /\ BreakerInv
  /\ CycledIsRestored

-----------------------------------------------------------------------------
(* The data *)

States == Terminal \cup {"queued", "claimed", "running"}
TurnRows == [kind : Kinds, state : States, epoch : Nat \ {0}]

LEMMA LaneFacts ==
  /\ NoRunner \notin Runners
  /\ \A r \in Runners : Lane(r) \in Workers
  BY WorkerTurnsAssumption DEF Runners, Lane

\* A set of natural numbers has a least one, so there is an oldest turn to pick.
LEMMA LeastExists ==
  ASSUME NEW S, S \subseteq Nat, S # {}
  PROVE  \E n \in S : \A m \in S : n <= m
<1> DEFINE R == OpToRel(<, Nat)
<1>1. \E x \in S : \A y \in S : ~(<<y, x>> \in R)
  <2>1. IsWellFoundedOn(R, Nat)
    BY NatLessThanWellFounded
  <2> HIDE DEF R
  <2>2. QED BY <2>1, WFMin
<1>2. \A x, y \in Nat : y < x => <<y, x>> \in R
  BY DEF OpToRel
<1> HIDE DEF R
<1>3. PICK x \in S : \A y \in S : ~(<<y, x>> \in R)
  BY <1>1
<1>4. \A m \in S : x <= m
  <2> SUFFICES ASSUME NEW m \in S PROVE x <= m
    OBVIOUS
  <2>1. ~(m < x)
    BY <1>2, <1>3
  <2>2. QED BY <2>1
<1>5. QED BY <1>4

LEMMA OldestIsOldest ==
  ASSUME TypeOK, NEW w \in Workers, Queued(w) # {}
  PROVE  /\ Oldest(Queued(w)) \in DOMAIN turns[w]
         /\ Oldest(Queued(w)) \in Nat
         /\ turns[w][Oldest(Queued(w))].state = "queued"
         /\ \A i \in DOMAIN turns[w] :
              i < Oldest(Queued(w)) => turns[w][i].state # "queued"
<1>1. Queued(w) \subseteq Nat /\ Queued(w) \subseteq DOMAIN turns[w]
  BY DEF TypeOK, Queued
<1>2. \E n \in Queued(w) : \A m \in Queued(w) : n <= m
  BY <1>1, LeastExists
<1>3. /\ Oldest(Queued(w)) \in Queued(w)
      /\ \A m \in Queued(w) : Oldest(Queued(w)) <= m
  BY <1>2 DEF Oldest
<1>4. Oldest(Queued(w)) \in DOMAIN turns[w] /\ Oldest(Queued(w)) \in Nat
  BY <1>1, <1>3
<1>5. turns[w][Oldest(Queued(w))].state = "queued"
  BY <1>3 DEF Queued
<1>6. ASSUME NEW i \in DOMAIN turns[w], i < Oldest(Queued(w)) PROVE turns[w][i].state # "queued"
  <2>1. i \in Nat
    BY DEF TypeOK
  <2>2. i \notin Queued(w)
    BY <1>3, <1>4, <1>6, <2>1
  <2>3. QED BY <2>2 DEF Queued
<1>7. QED BY <1>4, <1>5, <1>6

\* A turn that changes its state, and nothing else.
TurnMoves(w, i, s) ==
  /\ i \in DOMAIN turns[w]
  /\ DOMAIN turns'[w] = DOMAIN turns[w] /\ Len(turns'[w]) = Len(turns[w])
  /\ turns'[w][i].state = s
  /\ turns'[w][i].kind = turns[w][i].kind /\ turns'[w][i].epoch = turns[w][i].epoch
  /\ \A j \in DOMAIN turns[w] : j # i => turns'[w][j] = turns[w][j]
  /\ \A v \in Workers : v # w => turns'[v] = turns[v]

LEMMA MoveTurn ==
  ASSUME TypeOK, NEW w \in Workers, NEW i \in DOMAIN turns[w], NEW s \in States,
         turns' = [turns EXCEPT ![w][i].state = s]
  PROVE  turns' \in [Workers -> Seq(TurnRows)] /\ TurnMoves(w, i, s)
<1>1. turns \in [Workers -> Seq(TurnRows)]
  BY DEF TypeOK, TurnRows, States
<1>2. turns[w] \in Seq(TurnRows) /\ turns[w][i] \in TurnRows
  BY <1>1
<1> DEFINE row == [turns[w][i] EXCEPT !.state = s]
           lane == [turns[w] EXCEPT ![i] = row]
<1>3. row \in TurnRows /\ row.state = s /\ row.kind = turns[w][i].kind
      /\ row.epoch = turns[w][i].epoch
  BY <1>2 DEF TurnRows
<1> HIDE DEF row
<1>4. /\ lane \in Seq(TurnRows) /\ Len(lane) = Len(turns[w]) /\ DOMAIN lane = DOMAIN turns[w]
      /\ lane[i] = row /\ \A j \in DOMAIN turns[w] : j # i => lane[j] = turns[w][j]
  BY <1>2, <1>3
<1>5. turns' = [turns EXCEPT ![w] = lane]
  BY <1>1 DEF row
<1> HIDE DEF lane
<1>6. turns'[w] = lane /\ \A v \in Workers : v # w => turns'[v] = turns[v]
  BY <1>1, <1>5
<1>7. QED BY <1>1, <1>3, <1>4, <1>5, <1>6 DEF TurnMoves

\* A turn more, at the end of the queue.
TurnAdded(w, kind) ==
  /\ Len(turns'[w]) = Len(turns[w]) + 1
  /\ DOMAIN turns'[w] = 1..(Len(turns[w]) + 1) /\ DOMAIN turns[w] = 1..Len(turns[w])
  /\ \A j \in DOMAIN turns[w] : turns'[w][j] = turns[w][j]
  /\ turns'[w][Len(turns[w]) + 1] = [kind |-> kind, state |-> "queued", epoch |-> Epoch(w)]
  /\ \A v \in Workers : v # w => turns'[v] = turns[v]

LEMMA AddTurn ==
  ASSUME TypeOK, NEW w \in Workers, NEW kind \in Kinds, Enqueue(w, kind)
  PROVE  turns' \in [Workers -> Seq(TurnRows)] /\ TurnAdded(w, kind)
<1>1. turns \in [Workers -> Seq(TurnRows)]
  BY DEF TypeOK, TurnRows, States
<1> DEFINE row == [kind |-> kind, state |-> "queued", epoch |-> Epoch(w)]
<1>2. row \in TurnRows
  <2>1. Epoch(w) \in Nat \ {0}
    BY DEF TypeOK, Epoch
  <2>2. QED BY <2>1 DEF TurnRows, States
<1>3. turns' = [turns EXCEPT ![w] = Append(turns[w], row)]
  BY DEF Enqueue
<1> HIDE DEF row
<1>4. turns[w] \in Seq(TurnRows) /\ turns'[w] = Append(turns[w], row)
      /\ Append(turns[w], row) \in Seq(TurnRows)
  BY <1>1, <1>2, <1>3
<1>5. QED BY <1>1, <1>2, <1>3, <1>4 DEF TurnAdded, row

-----------------------------------------------------------------------------
(* What a step of a runner can do *)

Stages == InTurn \cup InAfter \cup {"off", "scan", "pick", "claim", "wait"}
Statuses == Active \cup Gone \cup {"none"}
Chains == {"fresh", "tail", "healthy"}
Hands == [gen : 0..MaxGen, i : Nat, resume : BOOLEAN]
Reasons == {"cycled", "resume_failed"}

\* It is alone in its lane, and leaves the row there or not there.
Solo(r) ==
  LET w == Lane(r)
  IN /\ UNCHANGED <<up, gen, killing>> /\ up # "down" /\ at[r] # "off"
     /\ mishaps' \in {mishaps, mishaps \cup {"raise"}}
     /\ left' = left \/ "raise" \in mishaps'
     /\ \A v \in Workers : left[v] \subseteq left'[v]
     /\ \A q \in Runners : q # r => at'[q] = at[q] /\ hold'[q] = hold[q]
     /\ \A v \in Workers : v # w =>
          /\ status'[v] = status[v] /\ turns'[v] = turns[v] /\ ends'[v] = ends[v]
          /\ runner'[v] = runner[v] /\ current'[v] = current[v] /\ chain'[v] = chain[v]
     /\ status'[w] = "none" <=> status[w] = "none"
     /\ status[w] = "none" => turns'[w] = turns[w] /\ ends'[w] = ends[w]

\* It strikes itself off the register when it ends, and the turn task with its turn.
Registers(r) ==
  LET w == Lane(r)
  IN /\ runner'[w] = IF at'[r] = "off" /\ runner[w] = r THEN NoRunner ELSE runner[w]
     /\ \/ current'[w] = NoRunner
        \/ current'[w] = r /\ at'[r] \in InTurn
        \/ current'[w] = current[w] /\ (at[r] \in InTurn => at'[r] \in InTurn)

\* It picks the oldest turn of the row, and keeps it until it has done with it.
Holds(r) ==
  LET w == Lane(r)
  IN \/ /\ hold'[r].gen = hold[r].gen /\ hold'[r].i = hold[r].i
        /\ at'[r] \in Picked => at[r] \in Picked
        /\ at'[r] # "claim"
     \/ hold'[r] = NoTurn /\ at'[r] \notin Picked
     \/ /\ at'[r] = "claim" /\ hold'[r].gen = gen[w] /\ status[w] # "none"
        /\ hold'[r].i \in DOMAIN turns[w] /\ turns'[w] = turns[w]
        /\ \A i \in DOMAIN turns[w] : i < hold'[r].i => turns[w][i].state # "queued"

\* It claims, starts and ends that turn, and no other; or it dies, and the turn is left.
Turns(r) ==
  LET w == Lane(r)
      i == hold[r].i
  IN /\ \/ turns'[w] = turns[w]
        \/ \E kind \in Kinds : TurnAdded(w, kind)
        \/ HasRow(r) /\ turns[w][i].state = "queued" /\ TurnMoves(w, i, "claimed")
           /\ at[r] = "claim" /\ at'[r] = "wait"
        \/ HasRow(r) /\ turns[w][i].state = "claimed" /\ TurnMoves(w, i, "running")
           /\ at[r] = "start" /\ at'[r] = "live"
        \/ HasRow(r) /\ turns[w][i].state \in {"claimed", "running"}
           /\ \E s \in Terminal : TurnMoves(w, i, s)
     /\ at'[r] \in InTurn \cup {"wait"} => at[r] \in InTurn \cup {"wait", "claim"}
     /\ at[r] = "claim" /\ at'[r] \in InTurn \cup {"wait"} =>
          HasRow(r) /\ turns[w][i].state = "queued" /\ TurnMoves(w, i, "claimed")
     /\ at'[r] \in Carrying => at[r] \in Carrying \cup {"claim"}
     /\ at[r] \in Carrying /\ at'[r] \notin Carrying /\ HasRow(r) =>
          turns'[w][i].state \notin {"claimed", "running"} \/ i \in left'[w]

\* It rolls the epoch for a dead chain under the breaker, and for a handover together with
\* the restore that follows.
Epochs(r) ==
  LET w == Lane(r)
  IN /\ at'[r] = "roll" => ~WouldRepeat(w)'
     /\ \/ /\ ends'[w] = ends[w]
           /\ at[r] = "afterRestore" =>
                \/ status[w] = "none" \/ at'[r] = "afterRestore"
                \/ TurnAdded(w, "restore")
        \/ ends'[w] = Append(ends[w], "resume_failed") /\ at[r] = "roll"
        \/ ends'[w] = Append(ends[w], "cycled") /\ at[r] = "after" /\ at'[r] = "afterRestore"

\* The types, by name.
Typed ==
  /\ up \in {"up", "stopping", "down"}
  /\ status \in [Workers -> Statuses]
  /\ gen \in [Workers -> 0..MaxGen]
  /\ ends \in [Workers -> Seq(Reasons)]
  /\ turns \in [Workers -> Seq(TurnRows)]
  /\ chain \in [Workers -> Chains]
  /\ runner \in [Workers -> Runners \cup {NoRunner}]
  /\ current \in [Workers -> Runners \cup {NoRunner}]
  /\ killing \in [Workers -> BOOLEAN]
  /\ at \in [Runners -> Stages]
  /\ hold \in [Runners -> Hands]
  /\ mishaps \subseteq {"crash", "second", "raise"}
  /\ left \in [Workers -> SUBSET Nat]

Effect(r) == Typed' /\ Solo(r) /\ Registers(r) /\ Holds(r) /\ Turns(r) /\ Epochs(r)

LEMMA TypeFacts == TypeOK <=> Typed
  BY DEF TypeOK, Typed, Statuses, Reasons, TurnRows, States, Chains, Stages, Hands

LEMMA NoTurnType == NoTurn \in Hands /\ NoTurn.gen = 0
  BY WorkerTurnsAssumption DEF NoTurn, Hands

\* The task ends, or goes on to the next round.
Leaves(r) ==
  /\ at' \in [Runners -> Stages] /\ at'[r] \in {"off", "scan"}
  /\ hold' \in [Runners -> Hands] /\ hold'[r] = NoTurn
  /\ runner' \in [Workers -> Runners \cup {NoRunner}]
  /\ \A q \in Runners : q # r => at'[q] = at[q] /\ hold'[q] = hold[q]
  /\ \A v \in Workers : v # Lane(r) => runner'[v] = runner[v]
  /\ runner'[Lane(r)] =
       IF at'[r] = "off" /\ runner[Lane(r)] = r THEN NoRunner ELSE runner[Lane(r)]

LEMMA AgainFacts ==
  ASSUME TypeOK, NEW r \in Runners, Again(r) \/ Exit(r)
  PROVE  Leaves(r)
<1>1. /\ at \in [Runners -> Stages] /\ hold \in [Runners -> Hands]
      /\ runner \in [Workers -> Runners \cup {NoRunner}] /\ Lane(r) \in Workers
      /\ NoTurn \in Hands
  BY TypeFacts, LaneFacts, NoTurnType DEF Typed
<1>2. CASE Exit(r)
  BY <1>1, <1>2 DEF Exit, Goto, Stages, Leaves
<1>3. CASE Again(r) /\ ~Exit(r)
  BY <1>1, <1>3 DEF Again, Goto, Stages, Leaves
<1>4. QED BY <1>2, <1>3

LEMMA SetStatusFacts ==
  ASSUME TypeOK, NEW w \in Workers, NEW s \in Active \cup Gone, SetStatus(w, s)
  PROVE  /\ status' \in [Workers -> Statuses]
         /\ status'[w] = "none" <=> status[w] = "none"
         /\ \A v \in Workers : v # w => status'[v] = status[v]
  BY TypeFacts DEF Typed, SetStatus, Statuses, Active, Gone

LEMMA FinishFacts ==
  ASSUME TypeOK, HoldInv, NEW r \in Runners, NEW s \in {"done", "failed"}, NEW session,
         Finish(r, s, session)
  PROVE  /\ turns' \in [Workers -> Seq(TurnRows)]
         /\ chain' \in [Workers -> Chains]
         /\ \A v \in Workers : v # Lane(r) => chain'[v] = chain[v] /\ turns'[v] = turns[v]
         /\ \/ HasRow(r) /\ Turn(r).state \in {"claimed", "running"}
               /\ TurnMoves(Lane(r), hold[r].i, s)
            \/ ~(HasRow(r) /\ Turn(r).state \in {"claimed", "running"}) /\ turns' = turns
         /\ s = "failed" /\ session = FALSE => chain'[Lane(r)] = chain[Lane(r)]
<1>1. /\ chain \in [Workers -> Chains] /\ turns \in [Workers -> Seq(TurnRows)]
      /\ Lane(r) \in Workers
  BY TypeFacts, LaneFacts DEF Typed
<1>2. CASE HasRow(r) /\ Turn(r).state \in {"claimed", "running"}
  <2>1. turns' \in [Workers -> Seq(TurnRows)] /\ TurnMoves(Lane(r), hold[r].i, s)
    BY <1>1, <1>2, MoveTurn DEF Finish, HoldInv, States, Terminal
  <2>2. /\ chain' \in [Workers -> Chains]
        /\ \A v \in Workers : v # Lane(r) => chain'[v] = chain[v]
        /\ s = "failed" /\ session = FALSE => chain'[Lane(r)] = chain[Lane(r)]
    BY <1>1, <1>2 DEF Finish, Chains
  <2>3. QED BY <1>2, <2>1, <2>2 DEF TurnMoves
<1>3. CASE ~(HasRow(r) /\ Turn(r).state \in {"claimed", "running"})
  BY <1>1, <1>3 DEF Finish
<1>4. QED BY <1>2, <1>3

LEMMA RollFacts ==
  ASSUME TypeOK, NEW w \in Workers, NEW reason \in Reasons, Roll(w, reason)
  PROVE  /\ ends' \in [Workers -> Seq(Reasons)] /\ ends'[w] = Append(ends[w], reason)
         /\ chain' \in [Workers -> Chains]
         /\ \A v \in Workers : v # w => ends'[v] = ends[v] /\ chain'[v] = chain[v]
<1>1. ends \in [Workers -> Seq(Reasons)] /\ chain \in [Workers -> Chains]
  BY TypeFacts DEF Typed
<1>2. Append(ends[w], reason) \in Seq(Reasons)
  BY <1>1
<1>3. QED BY <1>1, <1>2 DEF Roll, Chains

\* A runner that leaves a round behind, with nothing written but the status and the entry
\* of its turn task.
LEMMA LeavesEffect ==
  ASSUME IInv, NEW r \in Runners, Leaves(r), up # "down", at[r] # "off",
         UNCHANGED <<up, gen, killing, ends, turns>>,
         mishaps' \in {mishaps, mishaps \cup {"raise"}}, left' \in [Workers -> SUBSET Nat],
         left' = left \/ "raise" \in mishaps',
         \A v \in Workers : left[v] \subseteq left'[v],
         chain' \in [Workers -> Chains], chain'[Lane(r)] = chain[Lane(r)],
         \A v \in Workers : v # Lane(r) => chain'[v] = chain[v],
         status' \in [Workers -> Statuses],
         status'[Lane(r)] = "none" <=> status[Lane(r)] = "none",
         \A v \in Workers : v # Lane(r) => status'[v] = status[v],
         \/ current' = [current EXCEPT ![Lane(r)] = NoRunner]
         \/ current' = current /\ at[r] \notin InTurn,
         at[r] \in Carrying /\ HasRow(r) =>
           Turn(r).state \notin {"claimed", "running"} \/ hold[r].i \in left'[Lane(r)],
         at[r] = "afterRestore" => status[Lane(r)] = "none"
  PROVE  Effect(r)
<1>1. Typed /\ Lane(r) \in Workers
  BY TypeFacts, LaneFacts DEF IInv
<1>2. Typed' /\ Solo(r)
  BY <1>1 DEF Typed, Solo, Leaves
<1>3. Registers(r)
  BY <1>1 DEF Registers, Typed, Leaves
<1>4. Turns(r)
  BY <1>1 DEF Turns, Turn, InTurn, Carrying, Leaves
<1>5. Epochs(r) /\ Holds(r)
  BY <1>1 DEF Epochs, Holds, Picked, InTurn, InAfter, Leaves
<1>6. QED BY <1>2, <1>3, <1>4, <1>5 DEF Effect

-----------------------------------------------------------------------------
(* The loop *)

LEMMA ScanEffect ==
  ASSUME IInv, NEW r \in Runners, Scan(r)
  PROVE  Effect(r)
<1>1. /\ up = "up" /\ at[r] = "scan"
      /\ UNCHANGED <<up, gen, killing, mishaps, left, status, ends, chain, turns, current>>
  BY DEF Scan, Stay
<1>2. /\ at' \in [Runners -> Stages] /\ at'[r] \in {"off", "pick"}
      /\ hold' \in [Runners -> Hands] /\ hold'[r] \in {NoTurn, hold[r]}
      /\ runner' \in [Workers -> Runners \cup {NoRunner}]
      /\ \A q \in Runners : q # r => at'[q] = at[q] /\ hold'[q] = hold[q]
      /\ \A v \in Workers : v # Lane(r) => runner'[v] = runner[v]
      /\ runner'[Lane(r)] =
           IF at'[r] = "off" /\ runner[Lane(r)] = r THEN NoRunner ELSE runner[Lane(r)]
  <2>1. Typed /\ Lane(r) \in Workers /\ NoTurn \in Hands
    BY LaneFacts, TypeFacts, NoTurnType DEF IInv
  <2>2. CASE Exit(r)
    BY <2>1, <2>2 DEF Typed, Exit, Goto, Stages
  <2>3. CASE Goto(r, "pick") /\ UNCHANGED <<runner, hold>>
    BY <2>1, <2>3 DEF Typed, Goto, Stages
  <2>4. QED BY <2>2, <2>3 DEF Scan
<1>3. Typed'
  BY <1>1, <1>2, TypeFacts DEF IInv, Typed
<1>4. Solo(r)
  BY <1>1, <1>2 DEF Solo
<1>5. Registers(r) /\ Turns(r) /\ Epochs(r)
  BY <1>1, <1>2 DEF Registers, Turns, Epochs, InTurn, Carrying
<1>6. Holds(r)
  BY <1>1, <1>2 DEF Holds, Picked, InTurn, InAfter
<1>7. QED BY <1>3, <1>4, <1>5, <1>6 DEF Effect

LEMMA PickEffect ==
  ASSUME IInv, NEW r \in Runners, Pick(r)
  PROVE  Effect(r)
<1>1. /\ up = "up" /\ at[r] = "pick" /\ Typed /\ Lane(r) \in Workers
      /\ UNCHANGED <<up, gen, killing, mishaps, left, status, ends, chain, turns, current>>
  BY TypeFacts, LaneFacts DEF Pick, Stay, IInv
<1>2. CASE Again(r)
  BY <1>1, <1>2, AgainFacts, LeavesEffect DEF IInv, Typed, InTurn, Carrying
<1>3. CASE ~Again(r)
  <2>1. /\ Queued(Lane(r)) # {} /\ status[Lane(r)] # "none" /\ at' = [at EXCEPT ![r] = "claim"]
        /\ hold' = [hold EXCEPT ![r] =
             [gen |-> gen[Lane(r)], i |-> Oldest(Queued(Lane(r))), resume |-> FALSE]]
        /\ runner' = runner
    BY <1>3 DEF Pick, Goto
  <2>2. [gen |-> gen[Lane(r)], i |-> Oldest(Queued(Lane(r))), resume |-> FALSE] \in Hands
    BY <1>1, <2>1, OldestIsOldest DEF IInv, Typed, Hands
  <2>3. Typed' /\ Solo(r)
    BY <1>1, <2>1, <2>2 DEF Typed, Solo, Stages
  <2>4. Registers(r) /\ Turns(r) /\ Epochs(r)
    BY <1>1, <2>1 DEF Registers, Turns, Epochs, InTurn, Carrying, Typed
  <2>5. Holds(r)
    BY <1>1, <2>1, OldestIsOldest DEF IInv, Holds, Typed
  <2>6. QED BY <2>3, <2>4, <2>5 DEF Effect
<1>4. QED BY <1>2, <1>3

LEMMA ClaimEffect ==
  ASSUME IInv, NEW r \in Runners, Claim(r)
  PROVE  Effect(r)
<1>1. /\ up = "up" /\ at[r] = "claim" /\ Typed /\ Lane(r) \in Workers
      /\ UNCHANGED <<up, gen, killing, mishaps, left, status, ends, chain, current>>
  BY TypeFacts, LaneFacts DEF Claim, Stay, IInv
<1>2. CASE HasRow(r) /\ Turn(r).state = "queued"
  <2>1. /\ turns' = [turns EXCEPT ![Lane(r)][hold[r].i].state = "claimed"]
        /\ at' = [at EXCEPT ![r] = "wait"] /\ UNCHANGED <<runner, hold>>
    BY <1>2 DEF Claim, Goto
  <2>2. turns' \in [Workers -> Seq(TurnRows)] /\ TurnMoves(Lane(r), hold[r].i, "claimed")
    BY <1>1, <1>2, <2>1, MoveTurn DEF IInv, HoldInv, States
  <2>3. Typed' /\ Solo(r)
    BY <1>1, <1>2, <2>1, <2>2 DEF Typed, Solo, Stages, TurnMoves, HasRow
  <2>4. Registers(r) /\ Epochs(r) /\ Holds(r)
    BY <1>1, <2>1 DEF Registers, Epochs, Holds, InTurn, Picked, Typed
  <2>5. Turns(r)
    BY <1>1, <1>2, <2>1, <2>2 DEF Turns, Turn, InTurn, Carrying, Typed
  <2>6. QED BY <2>3, <2>4, <2>5 DEF Effect
<1>3. CASE ~(HasRow(r) /\ Turn(r).state = "queued")
  BY <1>1, <1>3, AgainFacts, LeavesEffect DEF IInv, Typed, InTurn, Carrying, Claim
<1>4. QED BY <1>2, <1>3

\* Steps that move the runner between stages of its turn and write at most the status.
LEMMA MoveEffect ==
  ASSUME IInv, NEW r \in Runners,
         Acquire(r) \/ BackToIdle(r) \/ Ask(r) \/ Asked(r)
  PROVE  Effect(r)
<1>1. /\ up = "up" /\ Typed /\ Lane(r) \in Workers
      /\ UNCHANGED <<up, gen, killing, mishaps, left, ends, chain, turns, runner, hold>>
  BY TypeFacts, LaneFacts DEF Acquire, Step, BackToIdle, Ask, Asked, Stay, IInv
<1>2. /\ status' \in [Workers -> Statuses]
      /\ status'[Lane(r)] = "none" <=> status[Lane(r)] = "none"
      /\ \A v \in Workers : v # Lane(r) => status'[v] = status[v]
  BY <1>1, SetStatusFacts DEF IInv, Typed, Acquire, BackToIdle, Ask, Asked, Active
<1>3. \/ /\ at[r] = "wait" /\ at' = [at EXCEPT ![r] = "begin"]
         /\ current' = [current EXCEPT ![Lane(r)] = r]
      \/ /\ at[r] = "idle" /\ at' = [at EXCEPT ![r] = "after"]
         /\ current' = [current EXCEPT ![Lane(r)] = NoRunner]
      \/ at[r] = "live" /\ at' = [at EXCEPT ![r] = "asking"] /\ current' = current
      \/ at[r] = "asking" /\ at' = [at EXCEPT ![r] = "live"] /\ current' = current
      \/ at[r] = "hush" /\ at' = [at EXCEPT ![r] = "closing"] /\ current' = current
  BY DEF Acquire, BackToIdle, Ask, Asked, Step, Goto, Release
<1>4. Typed'
  <2>1. at' \in [Runners -> Stages]
    BY <1>1, <1>3 DEF Typed, Stages, InTurn, InAfter
  <2>2. current' \in [Workers -> Runners \cup {NoRunner}]
    BY <1>1, <1>3 DEF Typed
  <2>3. QED BY <1>1, <1>2, <2>1, <2>2 DEF Typed
<1>5. Solo(r)
  BY <1>1, <1>2, <1>3 DEF Typed, Solo
<1>6. Registers(r)
  BY <1>1, <1>3 DEF Typed, Registers, InTurn
<1>7. Holds(r)
  BY <1>1, <1>3 DEF Typed, Holds, Picked, InTurn, InAfter
<1>8. Turns(r)
  BY <1>1, <1>3 DEF Typed, Turns, InTurn, Carrying
<1>9. Epochs(r)
  BY <1>1, <1>3 DEF Typed, Epochs
<1>10. QED BY <1>4, <1>5, <1>6, <1>7, <1>8, <1>9 DEF Effect

LEMMA ClosedEffect ==
  ASSUME IInv, NEW r \in Runners, Closed(r)
  PROVE  Effect(r)
<1>1. /\ up = "up" /\ at[r] = "closing" /\ Typed /\ Lane(r) \in Workers
      /\ UNCHANGED <<up, gen, killing, mishaps, left, status, ends, chain, turns>>
      /\ current' = [current EXCEPT ![Lane(r)] = NoRunner]
  BY TypeFacts, LaneFacts DEF Closed, Release, Stay, IInv
<1>2. QED BY <1>1, AgainFacts, LeavesEffect DEF IInv, Typed, Closed, InTurn, Carrying

\* The row is gone, and with it the runner.
LEMMA DieEffect ==
  ASSUME IInv, NEW r \in Runners, Die(r), Stay, up = "up", at[r] \in InTurn,
         ~HasRow(r) \/ at[r] \in {"roll", "restore"}
  PROVE  Effect(r)
<1>1. /\ Typed /\ Lane(r) \in Workers
      /\ UNCHANGED <<up, gen, killing, mishaps, left, status, ends, chain, turns>>
      /\ current' = [current EXCEPT ![Lane(r)] = NoRunner]
      /\ at' = [at EXCEPT ![r] = "off"]
  BY TypeFacts, LaneFacts DEF Die, Release, Stay, IInv, Exit, Goto
<1>2. QED BY <1>1, AgainFacts, LeavesEffect DEF IInv, Typed, Die, InTurn, Carrying

-----------------------------------------------------------------------------
(* The turn *)

\* A runner that ends its turn one way or another, and moves on within the turn.
LEMMA FinishEffect ==
  ASSUME IInv, NEW r \in Runners, NEW s \in {"done", "failed"}, NEW session,
         Finish(r, s, session), NEW stage \in {"idle", "roll"}, Goto(r, stage),
         at[r] \in {"begin", "live"}, up = "up",
         UNCHANGED <<up, gen, killing, mishaps, left, status, ends, runner, current, hold>>,
         stage = "roll" => s = "failed" /\ session = FALSE /\ ~WouldRepeat(Lane(r))
  PROVE  Effect(r)
<1>1. Typed /\ Lane(r) \in Workers /\ at' = [at EXCEPT ![r] = stage]
  BY TypeFacts, LaneFacts DEF Goto, IInv
<1>2. /\ turns' \in [Workers -> Seq(TurnRows)]
      /\ chain' \in [Workers -> Chains]
      /\ \A v \in Workers : v # Lane(r) => chain'[v] = chain[v] /\ turns'[v] = turns[v]
      /\ \/ HasRow(r) /\ Turn(r).state \in {"claimed", "running"}
            /\ TurnMoves(Lane(r), hold[r].i, s)
         \/ ~(HasRow(r) /\ Turn(r).state \in {"claimed", "running"}) /\ turns' = turns
      /\ s = "failed" /\ session = FALSE => chain'[Lane(r)] = chain[Lane(r)]
  BY FinishFacts DEF IInv
<1>3. Typed'
  BY <1>1, <1>2 DEF Typed, Stages, InTurn
<1>4. Solo(r)
  BY <1>1, <1>2 DEF Typed, Solo, HasRow
<1>5. Registers(r) /\ Holds(r)
  BY <1>1 DEF Typed, Registers, Holds, InTurn, Picked
<1>6. Turns(r)
  BY <1>1, <1>2 DEF Typed, Turns, Turn, InTurn, Carrying, Terminal, TurnMoves
<1>7. Epochs(r)
  BY <1>1, <1>2 DEF Typed, Epochs, WouldRepeat
<1>8. QED BY <1>3, <1>4, <1>5, <1>6, <1>7 DEF Effect

LEMMA BeginEffect ==
  ASSUME IInv, NEW r \in Runners, Begin(r)
  PROVE  Effect(r)
<1>1. /\ up = "up" /\ at[r] = "begin" /\ Stay /\ Typed /\ Lane(r) \in Workers
      /\ UNCHANGED <<up, gen, killing, mishaps, left>>
  BY TypeFacts, LaneFacts DEF Begin, Step, Stay, IInv
<1>2. CASE ~HasRow(r) /\ Die(r)
  BY <1>1, <1>2, DieEffect DEF InTurn
<1>3. CASE HasRow(r) /\ Finish(r, "failed", FALSE) /\ Goto(r, "idle")
           /\ UNCHANGED <<status, ends, runner, current, hold>>
  BY <1>1, <1>3, FinishEffect
<1>4. CASE /\ \E resume \in {FALSE, CanResume(Lane(r))} :
                hold' = [hold EXCEPT ![r].resume = resume]
           /\ Goto(r, "start")
           /\ UNCHANGED <<status, ends, chain, turns, runner, current>>
  <2>1. at' = [at EXCEPT ![r] = "start"]
    BY <1>4 DEF Goto
  <2>2. CanResume(Lane(r)) \in BOOLEAN
    BY DEF CanResume
  <2>3. PICK resume \in BOOLEAN : hold' = [hold EXCEPT ![r].resume = resume]
    BY <1>4, <2>2
  <2>4. /\ hold' \in [Runners -> Hands] /\ hold'[r].gen = hold[r].gen /\ hold'[r].i = hold[r].i
        /\ \A q \in Runners : q # r => hold'[q] = hold[q]
    <3>1. hold[r] \in Hands /\ hold \in [Runners -> Hands]
      BY <1>1 DEF Typed
    <3>2. [hold[r] EXCEPT !.resume = resume] \in Hands
      BY <3>1 DEF Hands
    <3>3. QED BY <2>3, <3>1, <3>2 DEF Hands
  <2>5. Typed'
    <3>1. at' \in [Runners -> Stages]
      BY <1>1, <2>1 DEF Typed, Stages, InTurn
    <3>2. QED BY <1>1, <1>4, <2>4, <3>1 DEF Typed
  <2>6. Solo(r)
    BY <1>1, <1>4, <2>1, <2>4 DEF Typed, Solo
  <2>7. Registers(r) /\ Holds(r)
    BY <1>1, <1>4, <2>1, <2>4 DEF Typed, Registers, Holds, InTurn, Picked
  <2>8. Turns(r) /\ Epochs(r)
    BY <1>1, <1>4, <2>1 DEF Typed, Turns, Epochs, InTurn, Carrying
  <2>9. QED BY <2>5, <2>6, <2>7, <2>8 DEF Effect
<1>5. QED BY <1>2, <1>3, <1>4 DEF Begin

LEMMA StartEffect ==
  ASSUME IInv, NEW r \in Runners, Start(r)
  PROVE  Effect(r)
<1>1. /\ up = "up" /\ at[r] = "start" /\ Typed /\ Lane(r) \in Workers
      /\ at' = [at EXCEPT ![r] = "live"]
      /\ UNCHANGED <<up, gen, killing, mishaps, left, ends, chain, runner, current, hold>>
  BY TypeFacts, LaneFacts DEF Start, Step, Stay, Goto, IInv
<1>2. /\ status' \in [Workers -> Statuses]
      /\ status'[Lane(r)] = "none" <=> status[Lane(r)] = "none"
      /\ \A v \in Workers : v # Lane(r) => status'[v] = status[v]
  BY <1>1, SetStatusFacts DEF IInv, Start, Active
<1>3. /\ turns' \in [Workers -> Seq(TurnRows)]
      /\ \A v \in Workers : v # Lane(r) => turns'[v] = turns[v]
      /\ \/ HasRow(r) /\ Turn(r).state = "claimed" /\ TurnMoves(Lane(r), hold[r].i, "running")
         \/ turns' = turns
  <2>1. CASE HasRow(r) /\ Turn(r).state = "claimed"
    <3>1. turns' \in [Workers -> Seq(TurnRows)] /\ TurnMoves(Lane(r), hold[r].i, "running")
      BY <1>1, <2>1, MoveTurn DEF Start, IInv, HoldInv, States
    <3>2. QED BY <2>1, <3>1 DEF TurnMoves
  <2>2. CASE ~(HasRow(r) /\ Turn(r).state = "claimed")
    BY <1>1, <2>2 DEF Start, Typed
  <2>3. QED BY <2>1, <2>2
<1>4. Typed'
  <2>1. at' \in [Runners -> Stages]
    BY <1>1 DEF Typed, Stages, InTurn
  <2>2. QED BY <1>1, <1>2, <1>3, <2>1 DEF Typed
<1>5. Solo(r)
  BY <1>1, <1>2, <1>3 DEF Typed, Solo, HasRow
<1>6. Registers(r) /\ Holds(r)
  BY <1>1 DEF Typed, Registers, Holds, InTurn, Picked
<1>7. Turns(r)
  BY <1>1, <1>3 DEF Typed, Turns, Turn, InTurn, Carrying
<1>8. Epochs(r)
  BY <1>1 DEF Typed, Epochs
<1>9. QED BY <1>4, <1>5, <1>6, <1>7, <1>8 DEF Effect

LEMMA EndEffect ==
  ASSUME IInv, NEW r \in Runners, End(r) \/ DeadChain(r)
  PROVE  Effect(r)
<1>1. CASE End(r)
  <2>1. PICK s \in {"done", "failed"}, session \in BOOLEAN : Finish(r, s, session)
    BY <1>1 DEF End
  <2>2. QED BY <1>1, <2>1, FinishEffect DEF End, Step, Stay
<1>2. CASE DeadChain(r) /\ WouldRepeat(Lane(r))
  BY <1>2, FinishEffect DEF DeadChain, Step, Stay
<1>3. CASE DeadChain(r) /\ ~WouldRepeat(Lane(r))
  BY <1>3, FinishEffect DEF DeadChain, Step, Stay
<1>4. QED BY <1>1, <1>2, <1>3

LEMMA RollDeadEffect ==
  ASSUME IInv, NEW r \in Runners, RollDead(r)
  PROVE  Effect(r)
<1>1. up = "up" /\ at[r] = "roll" /\ Stay /\ UNCHANGED <<up, gen, killing, mishaps, left>>
  BY DEF RollDead, Step, Stay
<1>2. CASE status[Lane(r)] = "none"
  BY <1>1, <1>2, DieEffect DEF RollDead, InTurn
<1>3. CASE status[Lane(r)] # "none"
  <2>1. /\ Typed /\ Lane(r) \in Workers /\ at' = [at EXCEPT ![r] = "restore"]
        /\ UNCHANGED <<status, turns, runner, current, hold>>
    BY <1>3, TypeFacts, LaneFacts DEF RollDead, Goto, IInv
  <2>2. /\ ends' \in [Workers -> Seq(Reasons)]
        /\ ends'[Lane(r)] = Append(ends[Lane(r)], "resume_failed")
        /\ chain' \in [Workers -> Chains]
        /\ \A v \in Workers : v # Lane(r) => ends'[v] = ends[v] /\ chain'[v] = chain[v]
    BY <1>3, <2>1, RollFacts DEF RollDead, IInv, Reasons
  <2>3. Typed'
    <3>1. at' \in [Runners -> Stages]
      BY <2>1 DEF Typed, Stages, InTurn
    <3>2. QED BY <1>1, <2>1, <2>2, <3>1 DEF Typed
  <2>4. Solo(r)
    BY <1>1, <1>3, <2>1, <2>2 DEF Typed, Solo
  <2>5. Registers(r) /\ Holds(r)
    BY <1>1, <2>1 DEF Typed, Registers, Holds, InTurn, Picked
  <2>6. Turns(r) /\ Epochs(r)
    BY <1>1, <2>1, <2>2 DEF Typed, Turns, Epochs, InTurn, Carrying
  <2>7. QED BY <2>3, <2>4, <2>5, <2>6 DEF Effect
<1>4. QED BY <1>2, <1>3

LEMMA RestoreDeadEffect ==
  ASSUME IInv, NEW r \in Runners, RestoreDead(r)
  PROVE  Effect(r)
<1>1. up = "up" /\ at[r] = "restore" /\ Stay /\ UNCHANGED <<up, gen, killing, mishaps, left>>
  BY DEF RestoreDead, Step, Stay
<1>2. CASE status[Lane(r)] = "none"
  BY <1>1, <1>2, DieEffect DEF RestoreDead, InTurn
<1>3. CASE status[Lane(r)] # "none"
  <2>1. /\ Typed /\ Lane(r) \in Workers /\ at' = [at EXCEPT ![r] = "idle"]
        /\ UNCHANGED <<status, ends, chain, runner, current, hold>>
    BY <1>3, TypeFacts, LaneFacts DEF RestoreDead, Goto, IInv
  <2>2. turns' \in [Workers -> Seq(TurnRows)] /\ TurnAdded(Lane(r), "restore")
    BY <1>3, <2>1, AddTurn DEF RestoreDead, IInv, Kinds
  <2>3. Typed'
    <3>1. at' \in [Runners -> Stages]
      BY <2>1 DEF Typed, Stages, InTurn
    <3>2. QED BY <1>1, <2>1, <2>2, <3>1 DEF Typed
  <2>4. Solo(r)
    BY <1>1, <1>3, <2>1, <2>2 DEF Typed, Solo, TurnAdded
  <2>5. Registers(r) /\ Holds(r)
    BY <1>1, <2>1 DEF Typed, Registers, Holds, InTurn, Picked
  <2>6. Turns(r) /\ Epochs(r)
    BY <1>1, <2>1, <2>2 DEF Typed, Turns, Epochs, InTurn, Carrying, Kinds
  <2>7. QED BY <2>3, <2>4, <2>5, <2>6 DEF Effect
<1>4. QED BY <1>2, <1>3

-----------------------------------------------------------------------------
(* After the turn *)

LEMMA AfterEffect ==
  ASSUME IInv, NEW r \in Runners, After(r)
  PROVE  Effect(r)
<1>1. /\ up # "down" /\ at[r] = "after" /\ Typed /\ Lane(r) \in Workers
      /\ UNCHANGED <<up, gen, killing, mishaps, left, turns, current>>
  BY TypeFacts, LaneFacts DEF After, Follow, Stay, IInv
<1>2. CASE Again(r) /\ UNCHANGED <<status, ends, chain>>
  BY <1>1, <1>2, AgainFacts, LeavesEffect DEF IInv, Typed, InTurn, Carrying
<1>3. CASE Again(r) /\ SetStatus(Lane(r), "retired") /\ UNCHANGED <<ends, chain>>
  BY <1>1, <1>3, AgainFacts, SetStatusFacts, LeavesEffect
     DEF IInv, Typed, InTurn, Carrying, Gone
<1>4. CASE \E stage \in {"continue", "cycle"} :
             Goto(r, stage) /\ UNCHANGED <<status, ends, chain, runner, hold>>
  <2>1. PICK stage \in {"continue", "cycle"} :
          at' = [at EXCEPT ![r] = stage] /\ UNCHANGED <<status, ends, chain, runner, hold>>
    BY <1>4 DEF Goto
  <2>2. Typed'
    <3>1. at' \in [Runners -> Stages]
      BY <1>1, <2>1 DEF Typed, Stages, InAfter
    <3>2. QED BY <1>1, <2>1, <3>1 DEF Typed
  <2>3. Solo(r)
    BY <1>1, <2>1 DEF Typed, Solo
  <2>4. Registers(r) /\ Holds(r)
    BY <1>1, <2>1 DEF Typed, Registers, Holds, InTurn, InAfter, Picked
  <2>5. Turns(r) /\ Epochs(r)
    BY <1>1, <2>1 DEF Typed, Turns, Epochs, InTurn, Carrying
  <2>6. QED BY <2>2, <2>3, <2>4, <2>5 DEF Effect
<1>5. CASE /\ HasRow(r)
           /\ Roll(Lane(r), "cycled") /\ Goto(r, "afterRestore")
           /\ UNCHANGED <<status, runner, hold>>
  <2>1. at' = [at EXCEPT ![r] = "afterRestore"] /\ status[Lane(r)] # "none"
    BY <1>5 DEF Goto, HasRow
  <2>2. /\ ends' \in [Workers -> Seq(Reasons)]
        /\ ends'[Lane(r)] = Append(ends[Lane(r)], "cycled")
        /\ chain' \in [Workers -> Chains]
        /\ \A v \in Workers : v # Lane(r) => ends'[v] = ends[v] /\ chain'[v] = chain[v]
    BY <1>1, <1>5, RollFacts DEF IInv, Reasons
  <2>3. Typed'
    <3>1. at' \in [Runners -> Stages]
      BY <1>1, <2>1 DEF Typed, Stages, InAfter
    <3>2. QED BY <1>1, <1>5, <2>2, <3>1 DEF Typed
  <2>4. Solo(r)
    BY <1>1, <1>5, <2>1, <2>2 DEF Typed, Solo
  <2>5. Registers(r) /\ Holds(r)
    BY <1>1, <1>5, <2>1 DEF Typed, Registers, Holds, InTurn, InAfter, Picked
  <2>6. Turns(r) /\ Epochs(r)
    BY <1>1, <2>1, <2>2 DEF Typed, Turns, Epochs, InTurn, Carrying
  <2>7. QED BY <2>3, <2>4, <2>5, <2>6 DEF Effect
<1>6. QED BY <1>2, <1>3, <1>4, <1>5 DEF After

LEMMA ChainEffect ==
  ASSUME IInv, NEW r \in Runners, Chain(r)
  PROVE  Effect(r)
<1>1. /\ Typed /\ Lane(r) \in Workers
      /\ UNCHANGED <<up, gen, killing, mishaps, left, status, ends, chain, current>>
  BY TypeFacts, LaneFacts DEF Chain, Stay, IInv
<1>2. PICK next \in {<<"afterRestore", "restore">>, <<"continue", "prompt">>,
                     <<"cycle", "cycle_handover">>} :
        /\ Follow(r, next[1])
        /\ IF status[Lane(r)] = "none"
             THEN Exit(r) /\ UNCHANGED turns
             ELSE Enqueue(Lane(r), next[2]) /\ Again(r)
  BY DEF Chain
<1>3. /\ up # "down" /\ at[r] = next[1] /\ next[1] \in {"afterRestore", "continue", "cycle"}
      /\ next[2] \in Kinds /\ (next[1] = "afterRestore" => next[2] = "restore")
      /\ Leaves(r)
  BY <1>2, AgainFacts DEF Follow, Kinds, IInv
<1>4. CASE status[Lane(r)] = "none"
  BY <1>1, <1>2, <1>3, <1>4, LeavesEffect DEF Typed, InTurn, Carrying
<1>5. CASE status[Lane(r)] # "none"
  <2>1. turns' \in [Workers -> Seq(TurnRows)] /\ TurnAdded(Lane(r), next[2])
    BY <1>1, <1>2, <1>3, <1>5, AddTurn DEF IInv
  <2>2. Typed'
    BY <1>1, <1>3, <2>1 DEF Typed, Leaves
  <2>3. Solo(r)
    BY <1>1, <1>3, <1>5, <2>1 DEF Solo, Leaves, TurnAdded
  <2>4. Registers(r) /\ Holds(r)
    BY <1>1, <1>3 DEF Typed, Registers, Holds, InTurn, InAfter, Picked, Leaves
  <2>5. Turns(r) /\ Epochs(r)
    BY <1>1, <1>3, <2>1 DEF Turns, Epochs, InTurn, Carrying, Leaves
  <2>6. QED BY <2>2, <2>3, <2>4, <2>5 DEF Effect
<1>6. QED BY <1>4, <1>5

\* An exception ends the runner where it stands, and the turn is left.
LEMMA RaiseEffect ==
  ASSUME IInv, NEW r \in Runners, Raise(r)
  PROVE  Effect(r)
<1>1. /\ Typed /\ Lane(r) \in Workers /\ up # "down" /\ at[r] \in Raising /\ Exit(r)
      /\ mishaps' = mishaps \cup {"raise"}
      /\ UNCHANGED <<up, status, gen, ends, chain, turns, killing>>
  BY TypeFacts, LaneFacts DEF IInv, Raise, Raised, Befalls
<1>2. Leaves(r)
  BY <1>1, AgainFacts DEF IInv
<1>3. at[r] # "off" /\ at[r] # "afterRestore" /\ (at[r] \in Carrying => at[r] \in InTurn)
  BY <1>1 DEF Raising, Carrying, InTurn
<1>4. \/ current' = [current EXCEPT ![Lane(r)] = NoRunner]
      \/ current' = current /\ at[r] \notin InTurn
  BY DEF Raise, Release
<1>5. /\ left' \in [Workers -> SUBSET Nat]
      /\ \A v \in Workers : left[v] \subseteq left'[v]
      /\ at[r] \in InTurn /\ HasRow(r) /\ Turn(r).state \in {"claimed", "running"} =>
           hold[r].i \in left'[Lane(r)]
  <2>1. hold[r].i \in Nat /\ left \in [Workers -> SUBSET Nat]
    BY <1>1 DEF Typed, Hands
  <2>2. QED BY <1>1, <2>1 DEF Raise
<1>6. QED BY <1>1, <1>2, <1>3, <1>4, <1>5, LeavesEffect DEF Typed

LEMMA RunnerEffect ==
  ASSUME IInv, NEW r \in Runners, RunnerStep(r) \/ Acquire(r) \/ Raise(r)
  PROVE  Effect(r)
  BY ScanEffect, PickEffect, ClaimEffect, MoveEffect, ClosedEffect, BeginEffect, StartEffect,
     EndEffect, RollDeadEffect, RestoreDeadEffect, AfterEffect, ChainEffect, RaiseEffect
     DEF RunnerStep

-----------------------------------------------------------------------------
(* The invariant, under a step of a runner *)

LEMMA RunnerRegister ==
  ASSUME IInv, NEW r \in Runners, Effect(r)
  PROVE  RegisterInv'
<1>1. Typed /\ Lane(r) \in Workers /\ NoRunner \notin Runners
  BY TypeFacts, LaneFacts DEF IInv
<1>2. \A w \in Workers : status'[w] # "none" => gen'[w] >= 1
  BY <1>1 DEF Effect, Solo, IInv, RegisterInv
<1>3. \A q \in Runners : at'[q] # "off" => at[q] # "off" /\ gen'[Lane(q)] >= 1
  BY <1>1 DEF Effect, Solo, IInv, RegisterInv
<1>4. \A p, q \in Runners :
        Lane(p) = Lane(q) /\ gen'[Lane(p)] <= 1 /\ at'[p] # "off" /\ at'[q] # "off" => p = q
  BY <1>1, <1>3 DEF Effect, Solo, IInv, RegisterInv
<1>5. \A q \in Runners :
        at'[q] # "off" /\ gen'[Lane(q)] <= 1 /\ status'[Lane(q)] # "none" =>
          runner'[Lane(q)] = q
  <2> SUFFICES ASSUME NEW q \in Runners, at'[q] # "off", gen'[Lane(q)] <= 1,
                      status'[Lane(q)] # "none"
               PROVE  runner'[Lane(q)] = q
    OBVIOUS
  <2>1. Lane(q) \in Workers /\ status[Lane(q)] # "none" /\ gen[Lane(q)] <= 1
    BY LaneFacts DEF Effect, Solo
  <2>2. runner[Lane(q)] = q
    BY <1>3, <2>1 DEF IInv, RegisterInv
  <2>3. CASE Lane(q) # Lane(r)
    BY <2>1, <2>2, <2>3 DEF Effect, Solo
  <2>4. CASE Lane(q) = Lane(r)
    <3>1. q = r
      BY <1>3, <2>1, <2>4 DEF Effect, Solo, IInv, RegisterInv
    <3>2. QED BY <2>2, <3>1 DEF Effect, Registers
  <2>5. QED BY <2>3, <2>4
<1>6. \A w \in Workers : runner'[w] # NoRunner =>
        Lane(runner'[w]) = w /\ at'[runner'[w]] # "off"
  <2> SUFFICES ASSUME NEW w \in Workers, runner'[w] # NoRunner
               PROVE  Lane(runner'[w]) = w /\ at'[runner'[w]] # "off"
    OBVIOUS
  <2>1. runner'[w] = runner[w] /\ (w = Lane(r) => ~(at'[r] = "off" /\ runner[w] = r))
    BY DEF Effect, Solo, Registers
  <2>2. Lane(runner[w]) = w /\ at[runner[w]] # "off" /\ runner[w] \in Runners
    BY <1>1, <2>1 DEF IInv, RegisterInv, Typed
  <2>3. QED BY <2>1, <2>2 DEF Effect, Solo
<1>7. \A w \in Workers : up' = "up" /\ current'[w] # NoRunner =>
        Lane(current'[w]) = w /\ at'[current'[w]] \in InTurn
  <2> SUFFICES ASSUME NEW w \in Workers, up' = "up", current'[w] # NoRunner
               PROVE  Lane(current'[w]) = w /\ at'[current'[w]] \in InTurn
    OBVIOUS
  <2>1. CASE w = Lane(r) /\ current'[w] = r
    <3>1. CASE at'[r] \in InTurn
      BY <2>1, <3>1
    <3>2. CASE current'[w] = current[w] /\ (at[r] \in InTurn => at'[r] \in InTurn)
      BY <1>1, <2>1, <3>2 DEF Effect, Solo, IInv, RegisterInv
    <3>3. QED BY <1>1, <2>1, <3>1, <3>2 DEF Effect, Registers
  <2>2. CASE ~(w = Lane(r) /\ current'[w] = r)
    <3>1. current'[w] = current[w]
      BY <2>2 DEF Effect, Solo, Registers
    <3>2. Lane(current[w]) = w /\ at[current[w]] \in InTurn /\ current[w] \in Runners
      BY <1>1, <3>1 DEF Effect, Solo, IInv, RegisterInv, Typed
    <3>3. current[w] # r
      BY <2>2, <3>1, <3>2
    <3>4. QED BY <3>1, <3>2, <3>3 DEF Effect, Solo
  <2>3. QED BY <2>1, <2>2
<1>8. up' # "down"
  BY DEF Effect, Solo
<1>9. QED BY <1>2, <1>3, <1>4, <1>5, <1>6, <1>7, <1>8 DEF RegisterInv

\* The lanes beside that of r stand still, and the queue of r's only grows.
LEMMA LaneGrows ==
  ASSUME IInv, NEW r \in Runners, Effect(r)
  PROVE  /\ \A w \in Workers :
              /\ DOMAIN turns[w] \subseteq DOMAIN turns'[w]
              /\ Len(turns[w]) <= Len(turns'[w])
              /\ DOMAIN turns[w] = 1..Len(turns[w]) /\ Len(turns[w]) \in Nat
              /\ DOMAIN turns'[w] = 1..Len(turns'[w]) /\ Len(turns'[w]) \in Nat
         /\ \A w \in Workers : w # Lane(r) => turns'[w] = turns[w]
         /\ \A q \in Runners : Lane(q) # Lane(r) =>
              at'[q] = at[q] /\ hold'[q] = hold[q] /\ (HasRow(q)' <=> HasRow(q))
<1>1. Typed /\ Typed'
  BY TypeFacts DEF IInv, Effect
<1>2. \A w \in Workers : /\ DOMAIN turns[w] = 1..Len(turns[w]) /\ Len(turns[w]) \in Nat
                         /\ DOMAIN turns'[w] = 1..Len(turns'[w]) /\ Len(turns'[w]) \in Nat
  BY <1>1 DEF Typed
<1>3. \A w \in Workers : w # Lane(r) => turns'[w] = turns[w]
  BY DEF Effect, Solo
<1>4. DOMAIN turns[Lane(r)] \subseteq DOMAIN turns'[Lane(r)]
      /\ Len(turns[Lane(r)]) <= Len(turns'[Lane(r)])
  <2>1. Lane(r) \in Workers
    BY LaneFacts
  <2>2. CASE turns'[Lane(r)] = turns[Lane(r)]
    BY <1>2, <2>1, <2>2
  <2>3. ASSUME NEW kind, TurnAdded(Lane(r), kind)
        PROVE  DOMAIN turns[Lane(r)] \subseteq DOMAIN turns'[Lane(r)]
               /\ Len(turns[Lane(r)]) <= Len(turns'[Lane(r)])
    BY <1>2, <2>1, <2>3 DEF TurnAdded
  <2>4. ASSUME NEW s, TurnMoves(Lane(r), hold[r].i, s)
        PROVE  DOMAIN turns[Lane(r)] \subseteq DOMAIN turns'[Lane(r)]
               /\ Len(turns[Lane(r)]) <= Len(turns'[Lane(r)])
    BY <1>2, <2>1, <2>4 DEF TurnMoves
  <2>5. QED BY <2>2, <2>3, <2>4 DEF Effect, Turns
<1>5. \A q \in Runners : Lane(q) # Lane(r) =>
        at'[q] = at[q] /\ hold'[q] = hold[q] /\ (HasRow(q)' <=> HasRow(q))
  BY LaneFacts DEF Effect, Solo, HasRow
<1>6. QED BY <1>2, <1>3, <1>4, <1>5

LEMMA RunnerHold ==
  ASSUME IInv, NEW r \in Runners, Effect(r)
  PROVE  HoldInv'
<1>1. Typed /\ Typed' /\ Lane(r) \in Workers
  BY TypeFacts, LaneFacts DEF IInv, Effect
<1>2. \A w \in Workers : status'[w] = "none" => turns'[w] = <<>> /\ ends'[w] = <<>>
  BY DEF Effect, Solo, IInv, HoldInv
<1>3. ASSUME NEW q \in Runners
      PROVE  /\ hold'[q].gen <= gen'[Lane(q)]
             /\ at'[q] \in Picked => hold'[q].gen >= 1
             /\ HasRow(q)' => hold'[q].i \in DOMAIN turns'[Lane(q)]
  <2>1. CASE q # r
    <3>1. at'[q] = at[q] /\ hold'[q] = hold[q] /\ gen' = gen
          /\ (HasRow(q)' <=> HasRow(q)) /\ Lane(q) \in Workers
      BY <2>1, LaneFacts DEF Effect, Solo, HasRow
    <3>2. QED BY <3>1, LaneGrows DEF IInv, HoldInv
  <2>2. CASE q = r /\ at'[r] = "claim"
    <3>1. /\ hold'[r].gen = gen[Lane(r)] /\ status[Lane(r)] # "none" /\ gen' = gen
          /\ hold'[r].i \in DOMAIN turns[Lane(r)] /\ turns'[Lane(r)] = turns[Lane(r)]
      BY <2>2 DEF Effect, Solo, Holds, Picked
    <3>2. gen[Lane(r)] \in Nat /\ gen[Lane(r)] >= 1
      BY <1>1, <3>1, WorkerTurnsAssumption DEF IInv, RegisterInv, Typed
    <3>3. QED BY <2>2, <3>1, <3>2
  <2>3. CASE q = r /\ hold'[r] = NoTurn /\ at'[r] \notin Picked
    <3>1. hold'[r].gen = 0 /\ gen' = gen /\ gen[Lane(r)] \in Nat
      BY <1>1, <2>3, NoTurnType, WorkerTurnsAssumption DEF Effect, Solo, Typed
    <3>2. ~HasRow(r)'
      BY <1>1, <3>1 DEF HasRow, Effect, Solo, IInv, RegisterInv
    <3>3. QED BY <2>3, <3>1, <3>2
  <2>4. CASE /\ q = r /\ hold'[r].gen = hold[r].gen /\ hold'[r].i = hold[r].i
             /\ at'[r] \in Picked => at[r] \in Picked
    <3>1. (HasRow(r)' <=> HasRow(r)) /\ gen' = gen
      BY <2>4 DEF Effect, Solo, HasRow
    <3>2. QED BY <1>1, <2>4, <3>1, LaneGrows DEF IInv, HoldInv
  <2>5. QED BY <2>1, <2>2, <2>3, <2>4 DEF Effect, Holds
<1>4. QED BY <1>2, <1>3 DEF HoldInv

LEMMA RunnerClaim ==
  ASSUME IInv, NEW r \in Runners, Effect(r)
  PROVE  ClaimInv'
<1>1. Typed /\ Typed' /\ Lane(r) \in Workers
      /\ ("second" \in mishaps' <=> "second" \in mishaps)
  BY TypeFacts, LaneFacts DEF IInv, Effect, Solo
<1>2. CASE "second" \in mishaps
  BY <1>1, <1>2 DEF ClaimInv, ClaimedOnce
<1>3. CASE "second" \notin mishaps
  <2>1. \A i \in DOMAIN turns[Lane(r)] :
          turns'[Lane(r)][i].state = "queued" => turns[Lane(r)][i].state = "queued"
    BY DEF Effect, Turns, TurnAdded, TurnMoves, Terminal
  <2>2. at'[r] \in InTurn \cup {"wait"} =>
          /\ hold'[r].gen = hold[r].gen /\ hold'[r].i = hold[r].i
          /\ \/ at[r] \in InTurn \cup {"wait"}
             \/ at[r] = "claim" /\ HasRow(r) /\ turns[Lane(r)][hold[r].i].state = "queued"
                /\ turns'[Lane(r)][hold[r].i].state = "claimed"
    BY DEF Effect, Turns, TurnMoves, Holds, Picked, InTurn
  <2>3. ASSUME NEW q \in Runners, at'[q] \in InTurn \cup {"wait"}, HasRow(q)'
        PROVE  Turn(q)'.state # "queued"
    <3>1. CASE q = r
      <4>1. HasRow(r)
        BY <2>2, <2>3, <3>1 DEF HasRow, Effect, Solo
      <4>2. hold[r].i \in DOMAIN turns[Lane(r)]
        BY <4>1 DEF IInv, HoldInv
      <4>3. CASE at[r] \in InTurn \cup {"wait"}
        BY <1>3, <2>1, <2>2, <2>3, <3>1, <4>1, <4>2, <4>3 DEF IInv, ClaimInv, Turn
      <4>4. CASE at[r] \notin InTurn \cup {"wait"}
        BY <2>2, <2>3, <3>1, <4>4 DEF Turn
      <4>5. QED BY <4>3, <4>4
    <3>2. CASE q # r
      <4>1. HasRow(q) /\ hold'[q] = hold[q] /\ at'[q] = at[q] /\ Lane(q) \in Workers
        BY <2>3, <3>2, LaneFacts DEF HasRow, Effect, Solo
      <4>2. hold[q].i \in DOMAIN turns[Lane(q)] /\ Turn(q).state # "queued"
        BY <1>3, <2>3, <4>1 DEF IInv, HoldInv, ClaimInv
      <4>3. CASE Lane(q) = Lane(r)
        BY <2>1, <4>1, <4>2, <4>3 DEF Turn
      <4>4. CASE Lane(q) # Lane(r)
        BY <4>1, <4>2, <4>4, LaneGrows DEF Turn
      <4>5. QED BY <4>3, <4>4
    <3>3. QED BY <3>1, <3>2
  <2>4. ASSUME NEW q \in Runners, q # r, Lane(q) = Lane(r),
               at'[q] \in InTurn \cup {"wait"}, at'[r] \in InTurn \cup {"wait"}
        PROVE  <<hold'[q].gen, hold'[q].i>> # <<hold'[r].gen, hold'[r].i>>
    <3>1. at'[q] = at[q] /\ hold'[q] = hold[q]
      BY <2>4 DEF Effect, Solo
    <3>2. CASE at[r] \in InTurn \cup {"wait"}
      BY <1>3, <2>2, <2>4, <3>1, <3>2 DEF IInv, ClaimInv, ClaimedOnce
    <3>3. CASE at[r] = "claim" /\ HasRow(r) /\ turns[Lane(r)][hold[r].i].state = "queued"
      <4>1. SUFFICES ASSUME hold[q].gen = hold[r].gen, hold[q].i = hold[r].i PROVE FALSE
        BY <2>2, <2>4, <3>1
      <4>2. HasRow(q)
        BY <2>4, <3>3, <4>1 DEF HasRow
      <4>3. Turn(q).state # "queued"
        BY <1>3, <2>4, <3>1, <4>2 DEF IInv, ClaimInv
      <4>4. QED BY <2>4, <3>3, <4>1, <4>3 DEF Turn
    <3>4. QED BY <2>2, <2>4, <3>2, <3>3
  <2>5. ClaimedOnce'
    <3> SUFFICES ASSUME NEW p \in Runners, NEW q \in Runners, p # q, Lane(p) = Lane(q),
                        at'[p] \in InTurn \cup {"wait"}, at'[q] \in InTurn \cup {"wait"}
                 PROVE  <<hold'[p].gen, hold'[p].i>> # <<hold'[q].gen, hold'[q].i>>
      BY DEF ClaimedOnce
    <3>1. CASE p = r
      BY <2>4, <3>1
    <3>2. CASE q = r
      BY <2>4, <3>2
    <3>3. CASE p # r /\ q # r
      <4>1. at'[p] = at[p] /\ hold'[p] = hold[p] /\ at'[q] = at[q] /\ hold'[q] = hold[q]
        BY <3>3 DEF Effect, Solo
      <4>2. QED BY <1>3, <4>1 DEF IInv, ClaimInv, ClaimedOnce
    <3>4. QED BY <3>1, <3>2, <3>3
  <2>6. QED BY <1>1, <2>3, <2>5 DEF ClaimInv
<1>4. QED BY <1>2, <1>3

LEMMA RunnerCarried ==
  ASSUME IInv, NEW r \in Runners, Effect(r)
  PROVE  CarriedInv'
<1>1. Typed /\ Typed' /\ Lane(r) \in Workers /\ up' = up /\ gen' = gen
      /\ \A v \in Workers : left[v] \subseteq left'[v]
  BY TypeFacts, LaneFacts DEF IInv, Effect, Solo
<1> SUFFICES ASSUME up = "up", NEW w \in Workers, gen[w] <= 1, NEW i \in DOMAIN turns'[w],
                    turns'[w][i].state \in {"claimed", "running"},
                    i + KillLooks > Len(turns'[w]), i \notin left'[w]
             PROVE  \E q \in RunnersOf(w) : at'[q] \in Carrying /\ hold'[q].i = i
  BY <1>1 DEF CarriedInv, RunnersOf
<1>2. CASE w # Lane(r)
  <2>1. turns'[w] = turns[w]
    BY <1>2 DEF Effect, Solo
  <2>2. PICK q \in RunnersOf(w) : at[q] \in Carrying /\ hold[q].i = i
    BY <1>1, <2>1 DEF IInv, CarriedInv
  <2>3. q \in Runners /\ Lane(q) = w /\ q # r
    BY <1>2, <2>2 DEF RunnersOf
  <2>4. at'[q] = at[q] /\ hold'[q] = hold[q]
    BY <2>3 DEF Effect, Solo
  <2>5. QED BY <2>2, <2>4
<1>3. CASE w = Lane(r)
  <2>1. r \in RunnersOf(w)
    BY <1>3 DEF RunnersOf
  <2>2. CASE at[r] = "claim" /\ at'[r] \in InTurn \cup {"wait"} /\ i = hold[r].i
    <3>1. at'[r] = "wait" /\ hold'[r].i = i
      <4>1. HasRow(r) /\ turns[Lane(r)][hold[r].i].state = "queued"
            /\ turns'[Lane(r)][hold[r].i].state = "claimed"
        BY <2>2 DEF Effect, Turns, TurnMoves
      <4>2. turns'[Lane(r)] # turns[Lane(r)] /\ hold[r].i \in DOMAIN turns[Lane(r)]
        BY <4>1 DEF IInv, HoldInv
      <4>3. ASSUME NEW kind, TurnAdded(Lane(r), kind) PROVE FALSE
        BY <4>1, <4>2, <4>3 DEF TurnAdded
      <4>4. at'[r] = "wait"
        BY <2>2, <4>1, <4>2, <4>3 DEF Effect, Turns
      <4>5. QED BY <2>2, <4>4 DEF Effect, Holds, Picked
    <3>2. QED BY <2>1, <3>1 DEF Carrying
  <2>3. CASE ~(at[r] = "claim" /\ at'[r] \in InTurn \cup {"wait"} /\ i = hold[r].i)
    <3>1. i \in DOMAIN turns[w] /\ turns[w][i].state \in {"claimed", "running"}
      <4>1. CASE turns'[w] = turns[w]
        BY <4>1
      <4>2. ASSUME NEW kind, TurnAdded(w, kind)
            PROVE  i \in DOMAIN turns[w] /\ turns[w][i].state \in {"claimed", "running"}
        BY <1>1, <4>2 DEF TurnAdded, Typed
      <4>3. ASSUME NEW s, TurnMoves(w, hold[r].i, s), s = "claimed" => i # hold[r].i,
                   s # "claimed" => turns[w][hold[r].i].state \in {"claimed", "running"}
            PROVE  i \in DOMAIN turns[w] /\ turns[w][i].state \in {"claimed", "running"}
        BY <4>3 DEF TurnMoves
      <4>4. CASE at[r] = "claim" /\ at'[r] = "wait"
        BY <1>3, <2>3, <4>1, <4>2, <4>3, <4>4 DEF Effect, Turns, Terminal
      <4>5. CASE ~(at[r] = "claim" /\ at'[r] = "wait")
        BY <1>3, <4>1, <4>2, <4>3, <4>5 DEF Effect, Turns, Terminal
      <4>6. QED BY <4>4, <4>5
    <3>2. i + KillLooks > Len(turns[w])
      BY <1>1, <3>1, LaneGrows, WorkerTurnsAssumption
    <3>3. PICK q \in RunnersOf(w) : at[q] \in Carrying /\ hold[q].i = i
      BY <1>1, <3>1, <3>2 DEF IInv, CarriedInv
    <3>4. CASE q # r
      BY <3>3, <3>4 DEF Effect, Solo, RunnersOf
    <3>5. CASE q = r
      <4>1. hold[r].gen = gen[w] /\ status[w] # "none"
        <5>1. hold[r].gen >= 1 /\ hold[r].gen <= gen[w] /\ hold[r].gen \in Nat /\ gen[w] \in Nat
          BY <1>1, <1>3, <3>3, <3>5, WorkerTurnsAssumption
             DEF IInv, HoldInv, Picked, Carrying, InTurn, Typed, Hands
        <5>2. status[w] # "none"
          BY <3>1 DEF IInv, HoldInv
        <5>3. QED BY <5>1, <5>2
      <4>2. HasRow(r)
        BY <1>3, <4>1 DEF HasRow
      <4>3. at'[r] \in Carrying
        BY <1>3, <3>3, <3>5, <4>2 DEF Effect, Turns
      <4>4. hold'[r].i = hold[r].i
        BY <3>3, <3>5, <4>3 DEF Effect, Holds, Picked, Carrying, InTurn
      <4>5. QED BY <2>1, <3>3, <3>5, <4>3, <4>4
    <3>6. QED BY <3>4, <3>5
  <2>4. QED BY <2>2, <2>3
<1>4. QED BY <1>2, <1>3

\* When r is the only runner of its lane, the others of the lane stand at "off".
LEMMA Alone ==
  ASSUME IInv, NEW r \in Runners, at[r] # "off", gen[Lane(r)] <= 1,
         NEW q \in Runners, Lane(q) = Lane(r), at[q] # "off"
  PROVE  q = r
  BY DEF IInv, RegisterInv

LEMMA RunnerOrder ==
  ASSUME IInv, NEW r \in Runners, Effect(r)
  PROVE  OrderInv'
<1>1. Typed /\ Typed' /\ Lane(r) \in Workers /\ gen' = gen /\ at[r] # "off"
  BY TypeFacts, LaneFacts DEF IInv, Effect, Solo
<1>2. \A w \in Workers : Orderly(w)' => Orderly(w) /\ gen[w] <= 1
  BY <1>1, LaneGrows, WorkerTurnsAssumption DEF Orderly, Effect, Solo
<1>3. ASSUME NEW w \in Workers, Orderly(w)', NEW i \in DOMAIN turns'[w],
             NEW j \in DOMAIN turns'[w], i < j, turns'[w][j].state \in {"claimed", "running"}
      PROVE  turns'[w][i].state # "queued"
  <2>0. Orderly(w)
    BY <1>2, <1>3
  <2>1. CASE turns'[w] = turns[w]
    BY <1>3, <2>0, <2>1 DEF IInv, OrderInv, InOrder
  <2>2. CASE w = Lane(r) /\ \E kind \in Kinds : TurnAdded(w, kind)
    <3>1. PICK kind \in Kinds : TurnAdded(w, kind)
      BY <2>2
    <3>2. j \in DOMAIN turns[w] /\ turns'[w][j] = turns[w][j]
      BY <1>1, <1>3, <3>1 DEF TurnAdded, Typed
    <3>3. i \in DOMAIN turns[w] /\ turns'[w][i] = turns[w][i]
      BY <1>1, <1>3, <3>1, <3>2 DEF TurnAdded, Typed
    <3>4. QED BY <1>3, <2>0, <3>2, <3>3 DEF IInv, OrderInv, InOrder
  <2>3. CASE w = Lane(r) /\ HasRow(r) /\ TurnMoves(w, hold[r].i, "claimed") /\ at[r] = "claim"
    <3>1. i \in DOMAIN turns[w] /\ j \in DOMAIN turns[w]
      BY <1>3, <2>3 DEF TurnMoves
    <3>2. CASE j = hold[r].i
      <4>1. i \in 1..(hold[r].i - 1)
        BY <1>1, <1>3, <3>1, <3>2 DEF Typed
      <4>2. turns[w][i].state # "queued"
        BY <1>3, <2>0, <2>3, <4>1 DEF IInv, OrderInv
      <4>3. i # hold[r].i
        BY <1>1, <1>3, <3>1, <3>2 DEF Typed
      <4>4. QED BY <2>3, <3>1, <4>2, <4>3 DEF TurnMoves
    <3>3. CASE j # hold[r].i
      <4>1. turns[w][i].state # "queued"
        BY <1>3, <2>0, <2>3, <3>1, <3>3 DEF TurnMoves, IInv, OrderInv, InOrder
      <4>2. QED BY <2>3, <3>1, <4>1 DEF TurnMoves
    <3>4. QED BY <3>2, <3>3
  <2>4. CASE w = Lane(r) /\ turns[w][hold[r].i].state \in {"claimed", "running"}
             /\ \E s \in Terminal \cup {"running"} : TurnMoves(w, hold[r].i, s)
    <3>1. PICK s \in Terminal \cup {"running"} : TurnMoves(w, hold[r].i, s)
      BY <2>4
    <3>2. i \in DOMAIN turns[w] /\ j \in DOMAIN turns[w]
      BY <1>3, <3>1 DEF TurnMoves
    <3>3. turns[w][j].state \in {"claimed", "running"}
      BY <1>3, <2>4, <3>1, <3>2 DEF TurnMoves
    <3>4. turns[w][i].state # "queued"
      BY <1>3, <2>0, <3>2, <3>3 DEF IInv, OrderInv, InOrder
    <3>5. QED BY <3>1, <3>2, <3>4 DEF TurnMoves, Terminal
  <2>5. QED BY <2>1, <2>2, <2>3, <2>4 DEF Effect, Solo, Turns
<1>4. InOrder'
  BY <1>1, <1>3 DEF InOrder
<1>5. ASSUME NEW q \in Runners, Orderly(Lane(q))', at'[q] = "claim", HasRow(q)',
             NEW i \in 1..(hold'[q].i - 1)
      PROVE  turns'[Lane(q)][i].state # "queued"
  <2>0. Lane(q) \in Workers /\ Orderly(Lane(q)) /\ gen[Lane(q)] <= 1
    BY <1>2, <1>5, LaneFacts
  <2>1. CASE q = r
    <3>1. /\ turns'[Lane(r)] = turns[Lane(r)] /\ hold'[r].i \in DOMAIN turns[Lane(r)]
          /\ \A k \in DOMAIN turns[Lane(r)] : k < hold'[r].i => turns[Lane(r)][k].state # "queued"
      BY <1>5, <2>1 DEF Effect, Holds, Picked
    <3>2. i \in DOMAIN turns[Lane(r)] /\ i < hold'[r].i
      BY <1>1, <1>5, <2>1, <3>1 DEF Typed
    <3>3. QED BY <2>1, <3>1, <3>2
  <2>2. CASE q # r
    <3>1. at[q] = "claim" /\ hold'[q] = hold[q] /\ HasRow(q)
      BY <1>5, <2>0, <2>2 DEF Effect, Solo, HasRow
    <3>2. Lane(q) # Lane(r)
      BY <1>1, <2>0, <2>2, <3>1, Alone
    <3>3. turns'[Lane(q)] = turns[Lane(q)]
      BY <2>0, <3>2 DEF Effect, Solo
    <3>4. QED BY <1>5, <2>0, <3>1, <3>3 DEF IInv, OrderInv
  <2>3. QED BY <2>1, <2>2
<1>6. QED BY <1>1, <1>4, <1>5 DEF OrderInv

LEMMA RunnerBreaker ==
  ASSUME IInv, NEW r \in Runners, Effect(r)
  PROVE  BreakerInv'
<1>1. Lane(r) \in Workers /\ gen' = gen /\ at[r] # "off"
  BY LaneFacts DEF Effect, Solo
<1> SUFFICES ASSUME NEW q \in Runners, gen[Lane(q)] <= 1, at'[q] = "roll"
             PROVE  ~WouldRepeat(Lane(q))'
  BY <1>1 DEF BreakerInv, WouldRepeat
<1>2. CASE q = r
  BY <1>2 DEF Effect, Epochs
<1>3. CASE q # r
  <2>1. at[q] = "roll"
    BY <1>3 DEF Effect, Solo
  <2>2. Lane(q) # Lane(r) /\ Lane(q) \in Workers
    BY <1>1, <1>3, <2>1, Alone, LaneFacts
  <2>3. ends'[Lane(q)] = ends[Lane(q)] /\ chain'[Lane(q)] = chain[Lane(q)]
    BY <2>2 DEF Effect, Solo
  <2>4. QED BY <2>1, <2>3 DEF IInv, BreakerInv, WouldRepeat
<1>4. QED BY <1>2, <1>3

LEMMA RunnerCycled ==
  ASSUME IInv, NEW r \in Runners, Effect(r)
  PROVE  CycledIsRestored'
<1>1. Typed /\ Typed' /\ Lane(r) \in Workers /\ gen' = gen /\ at[r] # "off"
      /\ ("crash" \in mishaps' <=> "crash" \in mishaps)
  BY TypeFacts, LaneFacts DEF IInv, Effect, Solo
<1> SUFFICES ASSUME "crash" \notin mishaps, NEW w \in Workers, gen[w] <= 1, status'[w] # "none",
                    NEW e \in 1..Len(ends'[w]), ends'[w][e] = "cycled"
             PROVE  \/ \E i \in DOMAIN turns'[w] :
                         turns'[w][i].kind = "restore" /\ turns'[w][i].epoch = e + 1
                    \/ e = Len(ends'[w]) /\ \E q \in RunnersOf(w) : at'[q] = "afterRestore"
  BY <1>1 DEF CycledIsRestored, RunnersOf
<1>2. status[w] # "none"
  BY DEF Effect, Solo
<1>3. ASSUME NEW i \in DOMAIN turns[w], turns[w][i].kind = "restore", turns[w][i].epoch = e + 1
      PROVE  \E k \in DOMAIN turns'[w] :
               turns'[w][k].kind = "restore" /\ turns'[w][k].epoch = e + 1
  <2>1. i \in DOMAIN turns'[w]
    BY LaneGrows
  <2>2. turns'[w][i].kind = turns[w][i].kind /\ turns'[w][i].epoch = turns[w][i].epoch
    <3>1. CASE turns'[w] = turns[w]
      BY <3>1
    <3>2. ASSUME NEW kind, TurnAdded(w, kind)
          PROVE  turns'[w][i].kind = turns[w][i].kind /\ turns'[w][i].epoch = turns[w][i].epoch
      BY <3>2 DEF TurnAdded
    <3>3. ASSUME NEW k, NEW s, TurnMoves(w, k, s)
          PROVE  turns'[w][i].kind = turns[w][i].kind /\ turns'[w][i].epoch = turns[w][i].epoch
      BY <3>3 DEF TurnMoves
    <3>4. QED BY <3>1, <3>2, <3>3 DEF Effect, Solo, Turns
  <2>3. QED BY <1>3, <2>1, <2>2
<1>4. CASE w # Lane(r)
  <2>1. ends'[w] = ends[w]
    BY <1>4 DEF Effect, Solo
  <2>2. \A q \in RunnersOf(w) : at'[q] = at[q]
    BY <1>4 DEF Effect, Solo, RunnersOf
  <2>3. \/ \E i \in DOMAIN turns[w] :
             turns[w][i].kind = "restore" /\ turns[w][i].epoch = e + 1
        \/ e = Len(ends[w]) /\ \E q \in RunnersOf(w) : at[q] = "afterRestore"
    BY <1>2, <2>1 DEF IInv, CycledIsRestored
  <2>4. QED BY <1>3, <2>1, <2>2, <2>3
<1>5. CASE w = Lane(r) /\ e \in 1..Len(ends[w]) /\ ends[w][e] = "cycled"
  <2>1. \/ \E i \in DOMAIN turns[w] :
             turns[w][i].kind = "restore" /\ turns[w][i].epoch = e + 1
        \/ e = Len(ends[w]) /\ \E q \in RunnersOf(w) : at[q] = "afterRestore"
    BY <1>2, <1>5 DEF IInv, CycledIsRestored
  <2>2. ASSUME e = Len(ends[w]), NEW q \in RunnersOf(w), at[q] = "afterRestore"
        PROVE  \/ \E i \in DOMAIN turns'[w] :
                    turns'[w][i].kind = "restore" /\ turns'[w][i].epoch = e + 1
               \/ e = Len(ends'[w]) /\ \E p \in RunnersOf(w) : at'[p] = "afterRestore"
    <3>1. q = r
      BY <1>1, <1>5, <2>2, Alone DEF RunnersOf
    <3>2. ends'[w] = ends[w]
      BY <1>5, <2>2, <3>1 DEF Effect, Epochs
    <3>3. CASE at'[r] = "afterRestore"
      BY <2>2, <3>1, <3>2, <3>3
    <3>4. CASE TurnAdded(w, "restore")
      <4>1. /\ Len(turns[w]) + 1 \in DOMAIN turns'[w]
            /\ turns'[w][Len(turns[w]) + 1] =
                 [kind |-> "restore", state |-> "queued", epoch |-> Epoch(w)]
        BY <1>1, <3>4 DEF TurnAdded, Typed
      <4>2. Epoch(w) = e + 1
        BY <2>2 DEF Epoch
      <4>3. QED BY <4>1, <4>2
    <3>5. QED BY <1>2, <1>5, <2>2, <3>1, <3>2, <3>3, <3>4 DEF Effect, Epochs
  <2>3. QED BY <1>3, <2>1, <2>2
<1>6. CASE w = Lane(r) /\ ~(e \in 1..Len(ends[w]) /\ ends[w][e] = "cycled")
  <2>1. ends'[w] = Append(ends[w], "cycled") /\ at'[r] = "afterRestore" /\ e = Len(ends'[w])
    <3>1. ends[w] \in Seq(Reasons)
      BY <1>1 DEF Typed
    <3>2. ends'[w] # ends[w]
      BY <1>6
    <3>3. ASSUME NEW x, ends'[w] = Append(ends[w], x)
          PROVE  e = Len(ends'[w]) /\ x = "cycled"
      <4>1. Len(ends'[w]) = Len(ends[w]) + 1 /\ ends'[w][Len(ends[w]) + 1] = x
            /\ \A k \in 1..Len(ends[w]) : ends'[w][k] = ends[w][k]
        BY <3>1, <3>3, AppendProperties
      <4>2. e \notin 1..Len(ends[w])
        BY <1>6, <4>1
      <4>3. Len(ends[w]) \in Nat /\ e \in 1..(Len(ends[w]) + 1)
        BY <3>1, <4>1
      <4>4. e = Len(ends[w]) + 1
        BY <4>2, <4>3
      <4>5. QED BY <4>1, <4>4
    <3>4. QED BY <1>6, <3>2, <3>3 DEF Effect, Epochs
  <2>2. QED BY <1>6, <2>1 DEF RunnersOf
<1>7. QED BY <1>4, <1>5, <1>6

LEMMA RunnerIInv ==
  ASSUME IInv, NEW r \in Runners, RunnerStep(r) \/ Acquire(r) \/ Raise(r)
  PROVE  IInv'
<1>1. Effect(r)
  BY RunnerEffect
<1>2. TypeOK'
  <2>1. Typed'
    BY <1>1 DEF Effect
  <2>2. QED BY <2>1, TypeFacts, PTL
<1>3. LeftInv'
  BY <1>1 DEF IInv, LeftInv, Effect, Solo
<1>4. QED BY <1>1, <1>2, <1>3, RunnerRegister, RunnerHold, RunnerClaim, RunnerCarried,
             RunnerOrder, RunnerBreaker, RunnerCycled DEF IInv

-----------------------------------------------------------------------------
(* The invariant, under requests *)

\* A step that leaves turns and epochs alone, moves no runner but from "off" to the top of the
\* loop, and makes no row of a turn in hand.
LEMMA StillIInv ==
  ASSUME IInv, TypeOK', RegisterInv', HoldInv',
         UNCHANGED <<up, ends, turns, chain, hold, left>>,
         mishaps' \in {mishaps, mishaps \cup {"raise"}},
         \A r \in Runners : HasRow(r)' => HasRow(r),
         \A w \in Workers : gen'[w] <= 1 => gen[w] <= 1,
         \A w \in Workers : status'[w] # "none" => status[w] # "none" \/ ends[w] = <<>>,
         \A r \in Runners : at'[r] = at[r] \/ (at[r] = "off" /\ at'[r] = "scan")
  PROVE  IInv'
<1>0. \A r \in Runners : Lane(r) \in Workers
  BY LaneFacts
<1>1. ClaimInv'
  BY DEF IInv, ClaimInv, ClaimedOnce, Turn, InTurn
<1>2. CarriedInv'
  BY DEF IInv, CarriedInv, RunnersOf, Carrying
<1>3. OrderInv'
  <2>1. \A w \in Workers : Orderly(w)' => Orderly(w)
    BY DEF Orderly
  <2>2. InOrder'
    BY <2>1 DEF IInv, OrderInv, InOrder
  <2>3. QED BY <1>0, <2>1, <2>2 DEF IInv, OrderInv
<1>4. BreakerInv'
  BY <1>0 DEF IInv, BreakerInv, WouldRepeat
<1>5. CycledIsRestored'
  BY DEF IInv, CycledIsRestored, RunnersOf
<1>6. LeftInv'
  BY DEF IInv, LeftInv
<1>7. QED BY <1>1, <1>2, <1>3, <1>4, <1>5, <1>6 DEF IInv

\* The runner of a name: the one on register, or one that is made.
LEMMA EnsureFacts ==
  ASSUME TypeOK, NEW w \in Workers, EnsureRunner(w)
  PROVE  /\ runner' \in [Workers -> Runners \cup {NoRunner}] /\ at' \in [Runners -> Stages]
         /\ \A v \in Workers : v # w => runner'[v] = runner[v]
         /\ \/ UNCHANGED <<runner, at>> /\ runner[w] # NoRunner
            \/ runner[w] = NoRunner /\ \E r \in Runners :
                 /\ Lane(r) = w /\ at[r] = "off" /\ at'[r] = "scan" /\ runner'[w] = r
                 /\ \A q \in Runners : q # r => at'[q] = at[q]
<1>1. Typed
  BY TypeFacts
<1>2. CASE runner[w] # NoRunner
  BY <1>1, <1>2 DEF EnsureRunner, Typed
<1>3. CASE runner[w] = NoRunner
  <2>1. PICK r \in RunnersOf(w) : /\ at[r] = "off"
                                  /\ runner' = [runner EXCEPT ![w] = r]
                                  /\ at' = [at EXCEPT ![r] = "scan"]
    BY <1>3 DEF EnsureRunner
  <2>2. r \in Runners /\ Lane(r) = w
    BY DEF RunnersOf
  <2>3. QED BY <1>1, <1>3, <2>1, <2>2 DEF Typed, Stages
<1>4. QED BY <1>2, <1>3

\* A runner is made for a name that is in use, if none is on register; or is not made.
LEMMA EnsureRegister ==
  ASSUME IInv, NEW w \in Workers, EnsureRunner(w) \/ UNCHANGED <<runner, at>>,
         UNCHANGED <<up, current>>, up = "up",
         \/ UNCHANGED <<status, gen>> /\ status[w] # "none"
         \/ /\ status[w] = "none" /\ status' = [status EXCEPT ![w] = "idle"]
            /\ gen' = [gen EXCEPT ![w] = @ + 1]
  PROVE  RegisterInv'
<1>1. /\ Typed /\ NoRunner \notin Runners /\ \A r \in Runners : Lane(r) \in Workers
      /\ gen \in [Workers -> Nat]
  <2>1. Typed
    BY TypeFacts DEF IInv
  <2>2. QED BY <2>1, LaneFacts, WorkerTurnsAssumption DEF Typed
<1>2. /\ gen' \in [Workers -> Nat] /\ gen'[w] >= 1 /\ gen'[w] >= gen[w]
      /\ \A v \in Workers : v # w => status'[v] = status[v] /\ gen'[v] = gen[v]
  BY <1>1 DEF Typed, IInv, RegisterInv
<1>3. \A r \in Runners : Lane(r) = w /\ gen'[w] <= 1 /\ at[r] # "off" => runner[w] = r
  <2> SUFFICES ASSUME NEW r \in Runners, Lane(r) = w, gen'[w] <= 1, at[r] # "off"
               PROVE  runner[w] = r
    OBVIOUS
  <2>1. gen[w] >= 1
    BY DEF IInv, RegisterInv
  <2>2. status[w] # "none" /\ gen[w] <= 1
    BY <1>1, <1>2, <2>1
  <2>3. QED BY <2>2 DEF IInv, RegisterInv
<1>4. CASE UNCHANGED <<runner, at>>
  <2>1. \A v \in Workers : status'[v] # "none" => gen'[v] >= 1
    BY <1>2 DEF IInv, RegisterInv
  <2>2. \A r \in Runners : at[r] # "off" => gen'[Lane(r)] >= 1
    BY <1>1, <1>2 DEF IInv, RegisterInv
  <2>3. \A r, q \in Runners :
          Lane(r) = Lane(q) /\ gen'[Lane(r)] <= 1 /\ at[r] # "off" /\ at[q] # "off" => r = q
    BY <1>1, <1>2, <1>3 DEF IInv, RegisterInv
  <2>4. \A r \in Runners :
          at[r] # "off" /\ gen'[Lane(r)] <= 1 /\ status'[Lane(r)] # "none" => runner[Lane(r)] = r
    BY <1>1, <1>2, <1>3 DEF IInv, RegisterInv
  <2>5. QED BY <1>4, <2>1, <2>2, <2>3, <2>4 DEF IInv, RegisterInv
<1>5. ASSUME NEW r \in Runners, runner[w] = NoRunner, Lane(r) = w, at[r] = "off",
             at'[r] = "scan", runner'[w] = r, \A q \in Runners : q # r => at'[q] = at[q],
             \A v \in Workers : v # w => runner'[v] = runner[v]
      PROVE  RegisterInv'
  <2>1. \A v \in Workers : status'[v] # "none" => gen'[v] >= 1
    BY <1>2 DEF IInv, RegisterInv
  <2>2. \A q \in Runners : at'[q] # "off" => gen'[Lane(q)] >= 1
    BY <1>1, <1>2, <1>5 DEF IInv, RegisterInv
  <2>3. \A q \in Runners : Lane(q) = w /\ gen'[w] <= 1 /\ at'[q] # "off" => q = r
    BY <1>1, <1>3, <1>5
  <2>4. \A p, q \in Runners :
          Lane(p) = Lane(q) /\ gen'[Lane(p)] <= 1 /\ at'[p] # "off" /\ at'[q] # "off" => p = q
    BY <1>1, <1>2, <1>5, <2>3 DEF IInv, RegisterInv
  <2>5. \A q \in Runners :
          at'[q] # "off" /\ gen'[Lane(q)] <= 1 /\ status'[Lane(q)] # "none" =>
            runner'[Lane(q)] = q
    BY <1>1, <1>2, <1>5, <2>3 DEF IInv, RegisterInv
  <2>6. \A v \in Workers : runner'[v] # NoRunner =>
          Lane(runner'[v]) = v /\ at'[runner'[v]] # "off"
    <3> SUFFICES ASSUME NEW v \in Workers, runner'[v] # NoRunner
                 PROVE  Lane(runner'[v]) = v /\ at'[runner'[v]] # "off"
      OBVIOUS
    <3>1. CASE v = w
      BY <1>5, <3>1
    <3>2. CASE v # w
      BY <1>1, <1>5, <3>2 DEF IInv, RegisterInv, Typed
    <3>3. QED BY <3>1, <3>2
  <2>7. \A v \in Workers : current'[v] # NoRunner =>
          Lane(current'[v]) = v /\ at'[current'[v]] \in InTurn
    <3> SUFFICES ASSUME NEW v \in Workers, current[v] # NoRunner
                 PROVE  Lane(current[v]) = v /\ at'[current[v]] \in InTurn
      OBVIOUS
    <3>1. Lane(current[v]) = v /\ at[current[v]] \in InTurn /\ current[v] \in Runners
      BY <1>1 DEF IInv, RegisterInv, Typed
    <3>2. current[v] # r
      BY <1>5, <3>1 DEF InTurn
    <3>3. QED BY <1>5, <3>1, <3>2
  <2>8. QED BY <2>1, <2>2, <2>4, <2>5, <2>6, <2>7 DEF RegisterInv
<1>6. QED BY <1>4, <1>5, EnsureFacts DEF IInv

LEMMA SpawnIInv ==
  ASSUME IInv, NEW w \in Workers, Spawn(w)
  PROVE  IInv'
<1>1. Typed /\ gen \in [Workers -> Nat] /\ \A r \in Runners : Lane(r) \in Workers
  <2>1. Typed
    BY TypeFacts DEF IInv
  <2>2. QED BY <2>1, LaneFacts, WorkerTurnsAssumption DEF Typed
<1>2. RegisterInv'
  BY EnsureRegister DEF Spawn
<1> DEFINE armed == /\ runner' \in [Workers -> Runners \cup {NoRunner}]
                    /\ at' \in [Runners -> Stages]
                    /\ \A r \in Runners : at'[r] = at[r] \/ (at[r] = "off" /\ at'[r] = "scan")
                    /\ mishaps' \in {mishaps, mishaps \cup {"raise"}}
<1>11. armed
  <2>1. CASE EnsureRunner(w) /\ UNCHANGED mishaps
    BY <2>1, EnsureFacts DEF IInv
  <2>2. CASE Raised /\ UNCHANGED <<runner, at>>
    BY <1>1, <2>2 DEF Raised, Befalls, Typed
  <2>3. QED BY <2>1, <2>2 DEF Spawn
<1> HIDE DEF armed
<1>3. TypeOK'
  <2>1. gen' \in [Workers -> 0..MaxGen] /\ status' \in [Workers -> Statuses]
    BY <1>1, WorkerTurnsAssumption DEF Spawn, Typed, Statuses, Active
  <2>2. Typed'
    BY <1>1, <1>11, <2>1 DEF armed, Spawn, Typed
  <2>3. QED BY <2>2, TypeFacts, PTL
<1>4. \A r \in Runners : hold[r].gen \in Nat
  BY <1>1, WorkerTurnsAssumption DEF Typed, Hands
<1>5. \A r \in Runners : HasRow(r)' => HasRow(r)
  BY <1>1, <1>4 DEF HasRow, Spawn, Typed, IInv, HoldInv
<1>6. HoldInv'
  <2>1. \A v \in Workers : status'[v] = "none" => status[v] = "none"
    BY <1>1 DEF Spawn, Typed
  <2>2. \A r \in Runners : hold[r].gen <= gen'[Lane(r)]
    BY <1>1, <1>4 DEF Spawn, IInv, HoldInv
  <2>3. \A r \in Runners : at'[r] \in Picked => at[r] \in Picked
    BY <1>11 DEF armed, Picked, InTurn, InAfter
  <2>4. UNCHANGED <<turns, ends, hold>>
    BY DEF Spawn
  <2>5. QED BY <1>5, <2>1, <2>2, <2>3, <2>4 DEF IInv, HoldInv
<1>7. \A v \in Workers : gen'[v] <= 1 => gen[v] <= 1
  BY <1>1 DEF Spawn
<1>8. \A v \in Workers : status'[v] # "none" => status[v] # "none" \/ ends[v] = <<>>
  BY <1>1 DEF Spawn, Typed, IInv, HoldInv
<1>9. QED BY <1>2, <1>3, <1>5, <1>6, <1>7, <1>8, <1>11, StillIInv DEF Spawn, armed

LEMMA KillMarkIInv ==
  ASSUME IInv, NEW w \in Workers, KillMark(w)
  PROVE  IInv'
<1>1. Typed
  BY TypeFacts DEF IInv
<1>2. /\ status' \in [Workers -> Statuses]
      /\ status'[w] = "none" <=> status[w] = "none"
      /\ \A v \in Workers : v # w => status'[v] = status[v]
  BY SetStatusFacts DEF IInv, KillMark, Gone
<1>3. TypeOK'
  <2>1. killing' \in [Workers -> BOOLEAN]
    BY <1>1 DEF KillMark, Typed
  <2>2. Typed'
    BY <1>1, <1>2, <2>1 DEF KillMark, Typed
  <2>3. QED BY <2>2, TypeFacts, PTL
<1>4. \A v \in Workers : status'[v] = "none" <=> status[v] = "none"
  BY <1>2
<1>5. \A r \in Runners : HasRow(r)' <=> HasRow(r)
  BY <1>4, LaneFacts DEF HasRow, KillMark
<1>6. RegisterInv' /\ HoldInv'
  BY <1>4, <1>5, LaneFacts DEF KillMark, IInv, RegisterInv, HoldInv
<1>7. QED BY <1>3, <1>4, <1>5, <1>6, StillIInv DEF KillMark

\* A turn more for a worker whose row is there.
LEMMA AskIInv ==
  ASSUME IInv, NEW w \in Workers, NEW kind \in Kinds, Enqueue(w, kind), status[w] # "none",
         RegisterInv', at' \in [Runners -> Stages],
         runner' \in [Workers -> Runners \cup {NoRunner}],
         \A r \in Runners : at'[r] = at[r] \/ (at[r] = "off" /\ at'[r] = "scan"),
         UNCHANGED <<up, status, gen, ends, chain, current, killing, hold, mishaps, left>>
  PROVE  IInv'
<1>1. Typed /\ \A r \in Runners : Lane(r) \in Workers
  BY TypeFacts, LaneFacts DEF IInv
<1>2. turns' \in [Workers -> Seq(TurnRows)] /\ TurnAdded(w, kind)
  BY AddTurn DEF IInv
<1>3. TypeOK'
  <2>1. Typed'
    BY <1>1, <1>2 DEF Typed
  <2>2. QED BY <2>1, TypeFacts, PTL
<1>4. ASSUME NEW v \in Workers
      PROVE  /\ DOMAIN turns[v] \subseteq DOMAIN turns'[v]
             /\ \A i \in DOMAIN turns[v] : turns'[v][i] = turns[v][i]
             /\ Len(turns[v]) \in Nat /\ Len(turns[v]) <= Len(turns'[v])
  <2>1. Len(turns[v]) \in Nat
    BY <1>1 DEF Typed
  <2>2. CASE v = w
    <3>1. 1..Len(turns[w]) \subseteq 1..(Len(turns[w]) + 1)
      BY <2>1, <2>2
    <3>2. QED BY <1>2, <2>1, <2>2, <3>1 DEF TurnAdded
  <2>3. CASE v # w
    BY <1>2, <2>1, <2>3 DEF TurnAdded
  <2>4. QED BY <2>1, <2>2, <2>3
<1>5. \A v \in Workers : \A i \in DOMAIN turns'[v] :
        \/ i \in DOMAIN turns[v]
        \/ v = w /\ i = Len(turns[w]) + 1 /\ turns'[v][i].state = "queued"
  BY <1>1, <1>2 DEF TurnAdded, Typed
<1>6. \A r \in Runners : /\ HasRow(r)' <=> HasRow(r)
                         /\ HasRow(r) => hold[r].i \in DOMAIN turns[Lane(r)]
  BY DEF HasRow, IInv, HoldInv
<1>7. \A r \in Runners : at'[r] \in Picked <=> at[r] \in Picked
  BY DEF Picked, InTurn, InAfter
<1>8. HoldInv'
  BY <1>1, <1>2, <1>4, <1>6, <1>7 DEF HoldInv, IInv, TurnAdded, Picked, InTurn, InAfter
<1>9. ClaimInv'
  <2>1. ClaimedOnce'
    BY DEF IInv, ClaimInv, ClaimedOnce, InTurn
  <2>2. ASSUME "second" \notin mishaps, NEW r \in Runners,
               at'[r] \in InTurn \cup {"wait"}, HasRow(r)'
        PROVE  Turn(r)'.state # "queued"
    <3>1. at[r] \in InTurn \cup {"wait"} /\ HasRow(r) /\ hold'[r].i = hold[r].i
      BY <1>6, <2>2 DEF InTurn
    <3>2. turns'[Lane(r)][hold[r].i] = turns[Lane(r)][hold[r].i]
      BY <1>1, <1>4, <1>6, <3>1
    <3>3. QED BY <2>2, <3>1, <3>2 DEF IInv, ClaimInv, Turn
  <2>3. QED BY <2>1, <2>2 DEF ClaimInv
<1>10. CarriedInv'
  <2> SUFFICES ASSUME up = "up", NEW v \in Workers, gen[v] <= 1, NEW i \in DOMAIN turns'[v],
                      turns'[v][i].state \in {"claimed", "running"},
                      i + KillLooks > Len(turns'[v]), i \notin left[v]
               PROVE  \E r \in RunnersOf(v) : at'[r] \in Carrying /\ hold'[r].i = i
    BY DEF CarriedInv, RunnersOf
  <2>1. i \in DOMAIN turns[v] /\ turns[v][i].state \in {"claimed", "running"}
    BY <1>4, <1>5
  <2>2. i \in Nat /\ Len(turns'[v]) \in Nat
    BY <1>1, <1>2, <2>1 DEF Typed
  <2>3. i + KillLooks > Len(turns[v])
    BY <1>4, <2>2, WorkerTurnsAssumption
  <2>4. PICK r \in RunnersOf(v) : at[r] \in Carrying /\ hold[r].i = i
    BY <2>1, <2>3 DEF IInv, CarriedInv
  <2>5. QED BY <2>4 DEF RunnersOf, Carrying
<1>11. OrderInv'
  <2>1. \A v \in Workers : Orderly(v)' => Orderly(v)
    <3>1. \A v \in Workers : Len(turns'[v]) \in Nat
      BY <1>2
    <3>2. QED BY <1>4, <3>1, WorkerTurnsAssumption DEF Orderly
  <2>2. ASSUME NEW v \in Workers, Orderly(v)',
               NEW i \in DOMAIN turns'[v], NEW j \in DOMAIN turns'[v], i < j,
               turns'[v][j].state \in {"claimed", "running"}
        PROVE  turns'[v][i].state # "queued"
    <3>1. j \in DOMAIN turns[v] /\ turns'[v][j] = turns[v][j]
      BY <1>4, <1>5, <2>2
    <3>2. i \in DOMAIN turns[v] /\ turns'[v][i] = turns[v][i]
      BY <1>1, <1>2, <1>4, <2>2, <3>1 DEF Typed
    <3>3. QED BY <2>1, <2>2, <3>1, <3>2 DEF IInv, OrderInv, InOrder
  <2>3. ASSUME NEW r \in Runners, Orderly(Lane(r))',
               at'[r] = "claim", HasRow(r)', NEW i \in 1..(hold[r].i - 1)
        PROVE  turns'[Lane(r)][i].state # "queued"
    <3>1. /\ at[r] = "claim" /\ HasRow(r)
          /\ hold[r].i \in DOMAIN turns[Lane(r)] /\ Lane(r) \in Workers
      BY <1>1, <1>6, <2>3
    <3>2. i \in DOMAIN turns[Lane(r)]
      BY <1>1, <2>3, <3>1 DEF Typed
    <3>3. QED BY <1>4, <2>1, <2>3, <3>1, <3>2 DEF IInv, OrderInv
  <2>4. QED BY <2>2, <2>3 DEF OrderInv, InOrder
<1>12. BreakerInv'
  BY DEF IInv, BreakerInv, WouldRepeat
<1>13. CycledIsRestored'
  <2> SUFFICES ASSUME "crash" \notin mishaps, NEW v \in Workers, gen[v] <= 1, status[v] # "none",
                      NEW e \in 1..Len(ends[v]), ends[v][e] = "cycled"
               PROVE  \/ \E i \in DOMAIN turns'[v] :
                           turns'[v][i].kind = "restore" /\ turns'[v][i].epoch = e + 1
                      \/ e = Len(ends[v]) /\ \E r \in RunnersOf(v) : at'[r] = "afterRestore"
    BY DEF CycledIsRestored, RunnersOf
  <2>1. \/ \E i \in DOMAIN turns[v] :
             turns[v][i].kind = "restore" /\ turns[v][i].epoch = e + 1
        \/ e = Len(ends[v]) /\ \E r \in RunnersOf(v) : at[r] = "afterRestore"
    BY DEF IInv, CycledIsRestored
  <2>2. QED BY <1>4, <2>1 DEF RunnersOf
<1>14. LeftInv'
  BY DEF IInv, LeftInv
<1>15. QED BY <1>3, <1>8, <1>9, <1>10, <1>11, <1>12, <1>13, <1>14 DEF IInv

LEMMA RequestIInv ==
  ASSUME IInv, NEW w \in Workers, NEW kind \in Kinds, Request(w, kind)
  PROVE  IInv'
<1>1. RegisterInv'
  BY EnsureRegister DEF Request, Active
<1>2. /\ runner' \in [Workers -> Runners \cup {NoRunner}] /\ at' \in [Runners -> Stages]
      /\ \A r \in Runners : at'[r] = at[r] \/ (at[r] = "off" /\ at'[r] = "scan")
  BY EnsureFacts DEF IInv, Request
<1>3. QED BY <1>1, <1>2, AskIInv DEF Request, Active

LEMMA RetireIdleIInv ==
  ASSUME IInv, NEW w \in Workers, RetireIdle(w)
  PROVE  IInv'
<1>1. /\ RegisterInv' /\ at' \in [Runners -> Stages]
      /\ runner' \in [Workers -> Runners \cup {NoRunner}]
  BY TypeFacts DEF IInv, RegisterInv, RetireIdle, Typed
<1>2. QED BY <1>1, AskIInv DEF RetireIdle, Kinds

\* A turn task that is cancelled goes on to be closed, or hushed first; every turn in reach that
\* was claimed or running is over.
LEMMA KillRestIInv ==
  ASSUME IInv, NEW w \in Workers, KillRest(w)
  PROVE  IInv'
<1>1. /\ Typed /\ NoRunner \notin Runners /\ \A r \in Runners : Lane(r) \in Workers
      /\ up = "up" /\ UNCHANGED <<up, status, gen, ends, chain, runner, current, hold>>
      /\ UNCHANGED <<mishaps, left>>
  BY TypeFacts, LaneFacts DEF IInv, KillRest
<1>2. \A r \in Runners : current[w] = r => Lane(r) = w /\ at[r] \in InTurn
  BY <1>1 DEF IInv, RegisterInv
<1>3. /\ at' \in [Runners -> Stages]
      /\ \A r \in Runners :
           at'[r] = at[r] \/ (at[r] \in InTurn /\ at'[r] \in {"hush", "closing"} /\ Lane(r) = w)
  BY <1>1, <1>2 DEF KillRest, Typed, Stages, InTurn
<1> DEFINE Put(i) == IF /\ i + KillLooks > Len(turns[w])
                        /\ turns[w][i].state \in {"claimed", "running"}
                       THEN [turns[w][i] EXCEPT !.state = "killed"] ELSE turns[w][i]
           lane == [i \in DOMAIN turns[w] |-> Put(i)]
<1>4. turns[w] \in Seq(TurnRows) /\ DOMAIN turns[w] = 1..Len(turns[w]) /\ Len(turns[w]) \in Nat
  BY <1>1 DEF Typed
<1>5. ASSUME NEW i \in DOMAIN turns[w]
      PROVE  /\ Put(i) \in TurnRows /\ Put(i).kind = turns[w][i].kind
             /\ Put(i).epoch = turns[w][i].epoch
             /\ Put(i).state = "queued" <=> turns[w][i].state = "queued"
             /\ Put(i).state \in {"claimed", "running"} =>
                  turns[w][i].state \in {"claimed", "running"} /\ ~(i + KillLooks > Len(turns[w]))
             /\ turns[w][i].state \in Terminal => Put(i) = turns[w][i]
  <2>1. turns[w][i] \in TurnRows
    BY <1>4
  <2>2. QED BY <2>1 DEF TurnRows, States, Terminal
<1>6. turns' = [turns EXCEPT ![w] = lane]
  BY DEF KillRest
<1> HIDE DEF Put
<1>7. lane \in Seq(TurnRows) /\ DOMAIN lane = DOMAIN turns[w] /\ Len(lane) = Len(turns[w])
      /\ \A i \in DOMAIN turns[w] : lane[i] = Put(i)
  BY <1>4, <1>5
<1> HIDE DEF lane
<1>8. /\ turns' \in [Workers -> Seq(TurnRows)] /\ turns'[w] = lane
      /\ \A v \in Workers : v # w => turns'[v] = turns[v]
  BY <1>1, <1>6, <1>7 DEF Typed
<1>9. ASSUME NEW v \in Workers
      PROVE  /\ DOMAIN turns'[v] = DOMAIN turns[v] /\ Len(turns'[v]) = Len(turns[v])
             /\ \A i \in DOMAIN turns[v] :
                  /\ turns'[v][i].kind = turns[v][i].kind
                  /\ turns'[v][i].epoch = turns[v][i].epoch
                  /\ turns'[v][i].state = "queued" <=> turns[v][i].state = "queued"
                  /\ turns'[v][i].state \in {"claimed", "running"} =>
                       /\ turns[v][i].state \in {"claimed", "running"}
                       /\ v = w => ~(i + KillLooks > Len(turns[v]))
  BY <1>5, <1>7, <1>8
<1>10. TypeOK'
  <2>1. killing' \in [Workers -> BOOLEAN]
    BY <1>1 DEF KillRest, Typed
  <2>2. Typed'
    BY <1>1, <1>3, <1>8, <2>1 DEF Typed
  <2>3. QED BY <2>2, TypeFacts, PTL
<1>11. RegisterInv'
  <2>1. \A r \in Runners : /\ at'[r] # "off" <=> at[r] # "off"
                           /\ at[r] \in InTurn => at'[r] \in InTurn
    BY <1>3 DEF InTurn
  <2>2. QED BY <1>1, <2>1 DEF IInv, RegisterInv, Typed
<1>12. HoldInv'
  <2>1. \A r \in Runners : at'[r] \in Picked => at[r] \in Picked
    BY <1>3 DEF Picked
  <2>2. \A v \in Workers : turns[v] = <<>> => turns'[v] = <<>>
    BY <1>1, <1>8, <1>9 DEF Typed
  <2>3. \A r \in Runners : HasRow(r)' <=> HasRow(r)
    BY <1>1 DEF HasRow
  <2>4. QED BY <1>1, <1>9, <2>1, <2>2, <2>3 DEF IInv, HoldInv
<1>13. ClaimInv'
  <2>1. \A r \in Runners : at'[r] \in InTurn \cup {"wait"} => at[r] \in InTurn \cup {"wait"}
    BY <1>3
  <2>2. ClaimedOnce'
    BY <1>1, <2>1 DEF IInv, ClaimInv, ClaimedOnce
  <2>3. ASSUME "second" \notin mishaps, NEW r \in Runners,
               at'[r] \in InTurn \cup {"wait"}, HasRow(r)'
        PROVE  Turn(r)'.state # "queued"
    <3>1. HasRow(r) /\ hold[r].i \in DOMAIN turns[Lane(r)] /\ hold'[r] = hold[r]
      BY <1>1, <2>3 DEF HasRow, IInv, HoldInv
    <3>2. Turn(r).state # "queued"
      BY <2>1, <2>3, <3>1 DEF IInv, ClaimInv
    <3>3. QED BY <1>1, <1>9, <3>1, <3>2 DEF Turn
  <2>4. QED BY <1>1, <2>2, <2>3 DEF ClaimInv
<1>14. CarriedInv'
  <2> SUFFICES ASSUME NEW v \in Workers, gen[v] <= 1, NEW i \in DOMAIN turns[v],
                      turns'[v][i].state \in {"claimed", "running"},
                      i + KillLooks > Len(turns[v]), i \notin left[v]
               PROVE  \E r \in RunnersOf(v) : at'[r] \in Carrying /\ hold'[r].i = i
    BY <1>1, <1>9 DEF CarriedInv, RunnersOf
  <2>1. v # w /\ turns[v][i].state \in {"claimed", "running"}
    BY <1>9
  <2>2. PICK r \in RunnersOf(v) : at[r] \in Carrying /\ hold[r].i = i
    BY <1>1, <2>1 DEF IInv, CarriedInv
  <2>3. at'[r] = at[r]
    BY <1>3, <2>1, <2>2 DEF RunnersOf
  <2>4. QED BY <1>1, <2>2, <2>3
<1>15. OrderInv'
  <2>0. \A v \in Workers : Orderly(v)' => Orderly(v)
    BY <1>1, <1>9 DEF Orderly
  <2>1. InOrder'
    BY <1>1, <1>9, <2>0 DEF IInv, OrderInv, InOrder
  <2>2. ASSUME NEW r \in Runners, Orderly(Lane(r))',
               at'[r] = "claim", HasRow(r)', NEW i \in 1..(hold[r].i - 1)
        PROVE  turns'[Lane(r)][i].state # "queued"
    <3>1. /\ at[r] = "claim" /\ HasRow(r)
          /\ hold[r].i \in DOMAIN turns[Lane(r)] /\ Lane(r) \in Workers
      BY <1>1, <1>3, <2>2 DEF HasRow, IInv, HoldInv
    <3>2. i \in DOMAIN turns[Lane(r)]
      BY <1>1, <2>2, <3>1 DEF Typed
    <3>3. turns[Lane(r)][i].state # "queued"
      BY <1>1, <2>0, <2>2, <3>1 DEF IInv, OrderInv
    <3>4. QED BY <1>9, <3>1, <3>2, <3>3
  <2>3. QED BY <1>1, <2>1, <2>2 DEF OrderInv
<1>16. BreakerInv'
  BY <1>1, <1>3 DEF IInv, BreakerInv, WouldRepeat
<1>17. CycledIsRestored'
  <2>1. \A r \in Runners : at[r] = "afterRestore" => at'[r] = "afterRestore"
    BY <1>3 DEF InTurn
  <2> SUFFICES ASSUME "crash" \notin mishaps, NEW v \in Workers, gen[v] <= 1, status[v] # "none",
                      NEW e \in 1..Len(ends[v]), ends[v][e] = "cycled"
               PROVE  \/ \E i \in DOMAIN turns'[v] :
                           turns'[v][i].kind = "restore" /\ turns'[v][i].epoch = e + 1
                      \/ e = Len(ends[v]) /\ \E r \in RunnersOf(v) : at'[r] = "afterRestore"
    BY <1>1 DEF CycledIsRestored, RunnersOf
  <2>2. \/ \E i \in DOMAIN turns[v] :
             turns[v][i].kind = "restore" /\ turns[v][i].epoch = e + 1
        \/ e = Len(ends[v]) /\ \E r \in RunnersOf(v) : at[r] = "afterRestore"
    BY DEF IInv, CycledIsRestored
  <2>3. QED BY <1>1, <1>9, <2>1, <2>2 DEF RunnersOf
<1>18. LeftInv'
  BY <1>1 DEF IInv, LeftInv
<1>19. QED BY <1>10, <1>11, <1>12, <1>13, <1>14, <1>15, <1>16, <1>17, <1>18 DEF IInv

\* A row that goes takes its turns and epochs with it; its runner may live on.
LEMMA RemoveIInv ==
  ASSUME IInv, NEW w \in Workers, RemoveWorker(w)
  PROVE  IInv'
<1>1. /\ Typed /\ NoRunner \notin Runners /\ \A r \in Runners : Lane(r) \in Workers
      /\ up = "up" /\ UNCHANGED <<up, gen, killing, at, hold, mishaps>>
      /\ status[w] # "none"
  BY TypeFacts, LaneFacts DEF IInv, RemoveWorker, Gone
<1>2. /\ status'[w] = "none" /\ turns'[w] = <<>> /\ ends'[w] = <<>> /\ runner'[w] = NoRunner
      /\ current'[w] = NoRunner
      /\ \A v \in Workers : v # w =>
           /\ status'[v] = status[v] /\ turns'[v] = turns[v] /\ ends'[v] = ends[v]
           /\ runner'[v] = runner[v] /\ current'[v] = current[v] /\ chain'[v] = chain[v]
           /\ left'[v] = left[v]
      /\ left'[w] = {} /\ left' \in [Workers -> SUBSET Nat]
  BY <1>1 DEF RemoveWorker, Typed
<1>3. TypeOK'
  <2>1. /\ status' \in [Workers -> Statuses] /\ chain' \in [Workers -> Chains]
        /\ runner' \in [Workers -> Runners \cup {NoRunner}]
        /\ current' \in [Workers -> Runners \cup {NoRunner}]
    BY <1>1 DEF RemoveWorker, Typed, Statuses, Chains
  <2>2. ends' \in [Workers -> Seq(Reasons)] /\ turns' \in [Workers -> Seq(TurnRows)]
    BY <1>1 DEF RemoveWorker, Typed
  <2>3. Typed'
    BY <1>1, <1>2, <2>1, <2>2 DEF Typed
  <2>4. QED BY <2>3, TypeFacts, PTL
<1>4. RegisterInv'
  <2>1. \A v \in Workers : status'[v] # "none" => v # w /\ status[v] # "none"
    BY <1>2
  <2>2. \A v \in Workers : runner'[v] # NoRunner => v # w
    BY <1>2
  <2>3. \A v \in Workers : current'[v] # NoRunner => v # w
    BY <1>2
  <2>4. QED BY <1>1, <1>2, <2>1, <2>2, <2>3 DEF IInv, RegisterInv
<1>5. \A r \in Runners : HasRow(r)' => HasRow(r) /\ Lane(r) # w
  BY <1>1, <1>2 DEF HasRow
<1>6. HoldInv'
  BY <1>1, <1>2, <1>5 DEF IInv, HoldInv
<1>7. ClaimInv'
  BY <1>1, <1>2, <1>5 DEF IInv, ClaimInv, ClaimedOnce, Turn
<1>8. CarriedInv'
  BY <1>1, <1>2 DEF IInv, CarriedInv, RunnersOf
<1>9. OrderInv'
  <2>1. \A v \in Workers : v # w /\ Orderly(v)' => Orderly(v)
    BY <1>1, <1>2 DEF Orderly
  <2>2. InOrder'
    BY <1>1, <1>2, <2>1 DEF IInv, OrderInv, InOrder
  <2>3. QED BY <1>1, <1>2, <1>5, <2>1, <2>2 DEF IInv, OrderInv
<1>10. BreakerInv'
  <2> SUFFICES ASSUME NEW r \in Runners, gen[Lane(r)] <= 1, at[r] = "roll"
               PROVE  ~WouldRepeat(Lane(r))'
    BY <1>1 DEF BreakerInv, WouldRepeat
  <2>1. CASE Lane(r) = w
    BY <1>2, <2>1 DEF WouldRepeat
  <2>2. CASE Lane(r) # w
    BY <1>1, <1>2, <2>2 DEF IInv, BreakerInv, WouldRepeat
  <2>3. QED BY <2>1, <2>2
<1>11. CycledIsRestored'
  BY <1>1, <1>2 DEF IInv, CycledIsRestored, RunnersOf
<1>12. LeftInv'
  BY <1>1, <1>2 DEF IInv, LeftInv
<1>13. QED BY <1>3, <1>4, <1>6, <1>7, <1>8, <1>9, <1>10, <1>11, <1>12 DEF IInv

-----------------------------------------------------------------------------
(* The invariant, under what befalls the daemon *)

\* A stop lets a runner finish what follows a turn, and ends the others.
LEMMA StopIInv ==
  ASSUME IInv, Stop
  PROVE  IInv'
<1>1. /\ Typed /\ NoRunner \notin Runners /\ \A r \in Runners : Lane(r) \in Workers
      /\ up' = "stopping"
      /\ UNCHANGED <<status, gen, ends, chain, turns, current, killing, mishaps, left>>
      /\ gen \in [Workers -> Nat]
  <2>1. Typed
    BY TypeFacts DEF IInv
  <2>2. QED BY <2>1, LaneFacts, WorkerTurnsAssumption DEF Stop, Typed
<1>2. /\ at' \in [Runners -> Stages] /\ hold' \in [Runners -> Hands]
      /\ \A r \in Runners :
           \/ at[r] \in InAfter /\ at'[r] = at[r] /\ hold'[r] = hold[r]
           \/ at[r] \notin InAfter /\ at'[r] = "off" /\ hold'[r] = NoTurn
  BY <1>1, NoTurnType DEF Stop, Typed, Stages
<1>3. /\ runner' \in [Workers -> Runners \cup {NoRunner}]
      /\ \A w \in Workers :
           \/ runner[w] # NoRunner /\ at[runner[w]] \in InAfter /\ runner'[w] = runner[w]
           \/ ~(runner[w] # NoRunner /\ at[runner[w]] \in InAfter) /\ runner'[w] = NoRunner
  BY <1>1 DEF Stop, Typed
<1>4. TypeOK'
  <2>1. Typed'
    BY <1>1, <1>2, <1>3 DEF Typed
  <2>2. QED BY <2>1, TypeFacts, PTL
<1>5. \A r \in Runners :
        at'[r] # "off" => at[r] \in InAfter /\ at'[r] = at[r] /\ hold'[r] = hold[r]
  BY <1>2
<1>6. RegisterInv'
  <2>1. \A r \in Runners : at[r] \in InAfter => at[r] # "off"
    BY DEF InAfter
  <2>2. \A r, q \in Runners :
          Lane(r) = Lane(q) /\ gen[Lane(r)] <= 1 /\ at'[r] # "off" /\ at'[q] # "off" => r = q
    BY <1>5, <2>1 DEF IInv, RegisterInv
  <2>3. ASSUME NEW r \in Runners, at'[r] # "off", gen[Lane(r)] <= 1, status[Lane(r)] # "none"
        PROVE  runner'[Lane(r)] = r
    <3>1. runner[Lane(r)] = r /\ at[r] \in InAfter
      BY <1>5, <2>1, <2>3 DEF IInv, RegisterInv
    <3>2. QED BY <1>1, <1>3, <3>1
  <2>4. ASSUME NEW w \in Workers, runner'[w] # NoRunner
        PROVE  Lane(runner'[w]) = w /\ at'[runner'[w]] # "off"
    <3>1. runner[w] \in Runners /\ at[runner[w]] \in InAfter /\ runner'[w] = runner[w]
      BY <1>1, <1>3, <2>4 DEF Typed
    <3>2. QED BY <1>2, <2>1, <2>4, <3>1 DEF IInv, RegisterInv
  <2>5. \A w \in Workers : status[w] # "none" => gen[w] >= 1
    BY DEF IInv, RegisterInv
  <2>6. \A r \in Runners : at'[r] # "off" => gen[Lane(r)] >= 1
    BY <1>5, <2>1 DEF IInv, RegisterInv
  <2>7. QED BY <1>1, <2>2, <2>3, <2>4, <2>5, <2>6 DEF RegisterInv
<1>7. \A r \in Runners : HasRow(r)' => HasRow(r) /\ hold'[r] = hold[r]
  BY <1>1, <1>2, NoTurnType DEF HasRow, IInv, RegisterInv
<1>8. HoldInv'
  <2>1. \A r \in Runners : hold'[r].gen <= gen[Lane(r)]
    <3>1. \A r \in Runners : hold[r].gen <= gen[Lane(r)] /\ gen[Lane(r)] \in Nat
      BY <1>1 DEF IInv, HoldInv
    <3>2. QED BY <1>2, <3>1, NoTurnType
  <2>2. \A r \in Runners : at'[r] \in Picked => hold'[r].gen >= 1
    BY <1>2 DEF IInv, HoldInv, Picked, InTurn, InAfter
  <2>3. QED BY <1>1, <1>7, <2>1, <2>2 DEF IInv, HoldInv
<1>9. \A r \in Runners : at'[r] \notin InTurn \cup {"wait", "claim"}
  BY <1>2 DEF InTurn, InAfter
<1>10. ClaimInv'
  BY <1>9 DEF ClaimInv, ClaimedOnce
<1>11. CarriedInv'
  BY <1>1 DEF CarriedInv
<1>12. OrderInv'
  <2>1. InOrder'
    BY <1>1 DEF IInv, OrderInv, InOrder, Orderly
  <2>2. QED BY <1>9, <2>1 DEF OrderInv
<1>13. BreakerInv'
  BY <1>9 DEF BreakerInv, InTurn
<1>14. CycledIsRestored'
  <2>1. \A r \in Runners : at[r] = "afterRestore" => at'[r] = "afterRestore"
    BY <1>2 DEF InAfter
  <2>2. QED BY <1>1, <2>1 DEF IInv, CycledIsRestored, RunnersOf
<1>15. LeftInv'
  BY <1>1 DEF IInv, LeftInv
<1>16. QED BY <1>4, <1>6, <1>8, <1>10, <1>11, <1>12, <1>13, <1>14, <1>15 DEF IInv

\* The process ends: every runner with it, and the registry is what is left.
LEMMA DownIInv ==
  ASSUME IInv, Down, mishaps' \in {mishaps, mishaps \cup {"crash"}},
         \/ "crash" \in mishaps'
         \/ \A r \in Runners : at[r] = "off"
  PROVE  IInv'
<1>1. /\ Typed /\ NoRunner \notin Runners /\ \A r \in Runners : Lane(r) \in Workers
      /\ up' = "down" /\ UNCHANGED <<status, gen, ends, chain, turns, left>>
      /\ \A r \in Runners : at'[r] = "off" /\ hold'[r] = NoTurn
      /\ \A w \in Workers : runner'[w] = NoRunner /\ current'[w] = NoRunner
      /\ gen \in [Workers -> Nat]
  <2>1. Typed
    BY TypeFacts DEF IInv
  <2>2. QED BY <2>1, LaneFacts, WorkerTurnsAssumption DEF Down, Typed
<1>2. TypeOK'
  <2>1. killing' \in [Workers -> BOOLEAN] /\ at' \in [Runners -> Stages]
        /\ hold' \in [Runners -> Hands]
    BY NoTurnType DEF Down, Stages
  <2>2. runner' \in [Workers -> Runners \cup {NoRunner}]
        /\ current' \in [Workers -> Runners \cup {NoRunner}]
    BY DEF Down
  <2>3. Typed'
    BY <1>1, <2>1, <2>2 DEF Typed
  <2>4. QED BY <2>3, TypeFacts, PTL
<1>3. RegisterInv'
  BY <1>1 DEF IInv, RegisterInv
<1>4. \A r \in Runners : ~HasRow(r)'
  BY <1>1, NoTurnType DEF HasRow, IInv, RegisterInv
<1>5. HoldInv'
  BY <1>1, <1>4, NoTurnType DEF IInv, HoldInv, Picked, InTurn, InAfter
<1>6. ClaimInv' /\ CarriedInv' /\ BreakerInv'
  BY <1>1 DEF ClaimInv, ClaimedOnce, CarriedInv, BreakerInv, InTurn
<1>7. OrderInv'
  <2>1. \A w \in Workers : Orderly(w)' => Orderly(w)
    BY <1>1 DEF Orderly
  <2>2. InOrder'
    BY <1>1, <2>1 DEF IInv, OrderInv, InOrder
  <2>3. QED BY <1>1, <2>2 DEF OrderInv
<1>8. CycledIsRestored'
  <2>1. CASE "crash" \in mishaps'
    BY <2>1 DEF CycledIsRestored
  <2>2. CASE "crash" \notin mishaps' /\ \A r \in Runners : at[r] = "off"
    BY <1>1, <2>2 DEF IInv, CycledIsRestored, RunnersOf
  <2>3. QED BY <2>1, <2>2
<1>9. LeftInv'
  BY <1>1 DEF IInv, LeftInv
<1>10. QED BY <1>2, <1>3, <1>5, <1>6, <1>7, <1>8, <1>9 DEF IInv

\* A reconciliation puts every turn that is claimed or running back on the queue.
LEMMA ReconciledFacts ==
  ASSUME TypeOK, Reconciled
  PROVE  /\ turns' \in [Workers -> Seq(TurnRows)] /\ status' \in [Workers -> Statuses]
         /\ left' = [w \in Workers |-> {}]
         /\ \A w \in Workers :
              /\ status'[w] = "none" <=> status[w] = "none"
              /\ status'[w] \in Active <=> status[w] \in Active
              /\ DOMAIN turns'[w] = DOMAIN turns[w] /\ Len(turns'[w]) = Len(turns[w])
              /\ \A i \in DOMAIN turns[w] :
                   /\ turns'[w][i].kind = turns[w][i].kind
                   /\ turns'[w][i].epoch = turns[w][i].epoch
                   /\ turns'[w][i].state \notin {"claimed", "running"}
                   /\ turns[w][i].state \notin {"claimed", "running"} =>
                        turns'[w][i] = turns[w][i]
<1>1. Typed
  BY TypeFacts
<1>2. /\ status' \in [Workers -> Statuses]
      /\ \A w \in Workers : /\ status'[w] = "none" <=> status[w] = "none"
                            /\ status'[w] \in Active <=> status[w] \in Active
      /\ left' = [w \in Workers |-> {}]
  BY <1>1 DEF Reconciled, Typed, Statuses, Active, Gone
<1> DEFINE Put(w, i) == IF turns[w][i].state \in {"claimed", "running"}
                          THEN [turns[w][i] EXCEPT !.state = "queued"] ELSE turns[w][i]
           Lane2(w) == [i \in DOMAIN turns[w] |-> Put(w, i)]
<1>3. ASSUME NEW w \in Workers, NEW i \in DOMAIN turns[w]
      PROVE  /\ Put(w, i) \in TurnRows /\ Put(w, i).kind = turns[w][i].kind
             /\ Put(w, i).epoch = turns[w][i].epoch
             /\ Put(w, i).state \notin {"claimed", "running"}
             /\ turns[w][i].state \notin {"claimed", "running"} => Put(w, i) = turns[w][i]
  <2>1. turns[w][i] \in TurnRows
    BY <1>1 DEF Typed
  <2>2. QED BY <2>1 DEF TurnRows, States
<1>4. turns' = [w \in Workers |-> Lane2(w)]
  BY DEF Reconciled
<1> HIDE DEF Put
<1>5. ASSUME NEW w \in Workers
      PROVE  /\ Lane2(w) \in Seq(TurnRows) /\ DOMAIN Lane2(w) = DOMAIN turns[w]
             /\ Len(Lane2(w)) = Len(turns[w])
             /\ \A i \in DOMAIN turns[w] : Lane2(w)[i] = Put(w, i)
  <2>1. turns[w] \in Seq(TurnRows) /\ DOMAIN turns[w] = 1..Len(turns[w]) /\ Len(turns[w]) \in Nat
    BY <1>1 DEF Typed
  <2>2. QED BY <1>3, <2>1
<1> HIDE DEF Lane2
<1>6. turns' \in [Workers -> Seq(TurnRows)] /\ \A w \in Workers : turns'[w] = Lane2(w)
  BY <1>4, <1>5
<1>7. QED BY <1>2, <1>3, <1>5, <1>6

\* The daemon comes back: what had not ended is on the queue again, and every worker that is not
\* gone has a runner.
LEMMA BootIInv ==
  ASSUME IInv, Boot
  PROVE  IInv'
<1>1. /\ Typed /\ NoRunner \notin Runners /\ \A r \in Runners : Lane(r) \in Workers
      /\ up' = "up" /\ UNCHANGED <<gen, ends, chain, current, killing, hold, mishaps>>
      /\ \A r \in Runners : at[r] = "off"
      /\ \A w \in Workers : current[w] = NoRunner
      /\ gen \in [Workers -> Nat]
  <2>1. Typed
    BY TypeFacts DEF IInv
  <2>2. QED BY <2>1, LaneFacts, WorkerTurnsAssumption DEF Boot, Typed, IInv, RegisterInv
<1>2. /\ turns' \in [Workers -> Seq(TurnRows)] /\ status' \in [Workers -> Statuses]
      /\ left' = [w \in Workers |-> {}]
      /\ \A w \in Workers :
           /\ status'[w] = "none" <=> status[w] = "none"
           /\ DOMAIN turns'[w] = DOMAIN turns[w] /\ Len(turns'[w]) = Len(turns[w])
           /\ \A i \in DOMAIN turns[w] :
                /\ turns'[w][i].kind = turns[w][i].kind
                /\ turns'[w][i].epoch = turns[w][i].epoch
                /\ turns'[w][i].state \notin {"claimed", "running"}
  BY ReconciledFacts DEF IInv, Boot
<1>3. \A w \in Workers : status[w] \in Active => <<w, 1>> \in Runners /\ Lane(<<w, 1>>) = w
  <2> SUFFICES ASSUME NEW w \in Workers, status[w] \in Active
               PROVE  <<w, 1>> \in Runners /\ Lane(<<w, 1>>) = w
    OBVIOUS
  <2>1. gen[w] >= 1 /\ gen[w] \in 0..MaxGen
    BY <1>1 DEF IInv, RegisterInv, Active, Typed
  <2>2. 1 \in 1..MaxGen
    BY <2>1, WorkerTurnsAssumption
  <2>3. QED BY <2>2 DEF Runners, Lane
<1>4. /\ runner' \in [Workers -> Runners \cup {NoRunner}]
      /\ \A w \in Workers : runner'[w] # NoRunner =>
           runner'[w] \in Runners /\ Lane(runner'[w]) = w /\ status[w] \in Active
  BY <1>3 DEF Boot
<1>5. /\ at' \in [Runners -> Stages] /\ \A r \in Runners : at'[r] \in {"off", "scan"}
      /\ \A r \in Runners : at'[r] # "off" <=> runner'[Lane(r)] = r
  BY DEF Boot, Stages
<1>6. TypeOK'
  <2>1. Typed'
    BY <1>1, <1>2, <1>4, <1>5 DEF Typed
  <2>2. QED BY <2>1, TypeFacts, PTL
<1>7. RegisterInv'
  <2>1. \A w \in Workers : status'[w] # "none" => gen'[w] >= 1
    BY <1>1, <1>2 DEF IInv, RegisterInv
  <2>2. \A r \in Runners : at'[r] # "off" => gen'[Lane(r)] >= 1
    <3> SUFFICES ASSUME NEW r \in Runners, at'[r] # "off" PROVE gen[Lane(r)] >= 1
      BY <1>1
    <3>1. status[Lane(r)] \in Active
      BY <1>1, <1>4, <1>5
    <3>2. QED BY <1>1, <3>1 DEF IInv, RegisterInv, Active
  <2>3. \A w \in Workers : runner'[w] # NoRunner =>
          Lane(runner'[w]) = w /\ at'[runner'[w]] # "off"
    <3> SUFFICES ASSUME NEW w \in Workers, runner'[w] # NoRunner
                 PROVE  Lane(runner'[w]) = w /\ at'[runner'[w]] # "off"
      OBVIOUS
    <3>1. runner'[w] \in Runners /\ Lane(runner'[w]) = w
      BY <1>4
    <3>2. QED BY <1>5, <3>1
  <2>4. QED BY <1>1, <1>5, <2>1, <2>2, <2>3 DEF RegisterInv
<1>8. HoldInv'
  <2>1. \A r \in Runners : HasRow(r)' <=> HasRow(r)
    BY <1>1, <1>2 DEF HasRow
  <2>2. \A w \in Workers : turns[w] = <<>> => turns'[w] = <<>>
    BY <1>1, <1>2 DEF Typed
  <2>3. \A r \in Runners : at'[r] \notin Picked
    BY <1>5 DEF Picked, InTurn, InAfter
  <2>4. QED BY <1>1, <1>2, <2>1, <2>2, <2>3 DEF IInv, HoldInv
<1>9. ClaimInv' /\ BreakerInv'
  BY <1>5 DEF ClaimInv, ClaimedOnce, BreakerInv, InTurn
<1>10. CarriedInv' /\ OrderInv'
  BY <1>2, <1>5 DEF CarriedInv, OrderInv, InOrder
<1>11. CycledIsRestored'
  <2> SUFFICES ASSUME "crash" \notin mishaps, NEW v \in Workers, gen[v] <= 1, status[v] # "none",
                      NEW e \in 1..Len(ends[v]), ends[v][e] = "cycled"
               PROVE  \/ \E i \in DOMAIN turns'[v] :
                           turns'[v][i].kind = "restore" /\ turns'[v][i].epoch = e + 1
                      \/ e = Len(ends[v]) /\ \E r \in RunnersOf(v) : at'[r] = "afterRestore"
    BY <1>1, <1>2 DEF CycledIsRestored, RunnersOf
  <2>1. \/ \E i \in DOMAIN turns[v] :
             turns[v][i].kind = "restore" /\ turns[v][i].epoch = e + 1
        \/ e = Len(ends[v]) /\ \E r \in RunnersOf(v) : at[r] = "afterRestore"
    BY DEF IInv, CycledIsRestored
  <2>2. QED BY <1>1, <1>2, <2>1 DEF RunnersOf
<1>12. LeftInv'
  BY <1>2 DEF LeftInv
<1>13. QED BY <1>6, <1>7, <1>8, <1>9, <1>10, <1>11, <1>12 DEF IInv

\* The live daemon goes on with what it had in hand, on a registry that has queued it again.
LEMMA SecondDaemonIInv ==
  ASSUME IInv, SecondDaemon
  PROVE  IInv'
<1>1. /\ Typed /\ \A r \in Runners : Lane(r) \in Workers
      /\ up = "up" /\ mishaps' = mishaps \cup {"second"}
      /\ UNCHANGED <<up, gen, ends, chain, runner, current, killing, at, hold>>
  BY TypeFacts, LaneFacts DEF IInv, SecondDaemon, Befalls
<1>2. /\ turns' \in [Workers -> Seq(TurnRows)] /\ status' \in [Workers -> Statuses]
      /\ left' = [w \in Workers |-> {}]
      /\ \A w \in Workers :
           /\ status'[w] = "none" <=> status[w] = "none"
           /\ DOMAIN turns'[w] = DOMAIN turns[w] /\ Len(turns'[w]) = Len(turns[w])
           /\ \A i \in DOMAIN turns[w] :
                /\ turns'[w][i].kind = turns[w][i].kind
                /\ turns'[w][i].epoch = turns[w][i].epoch
                /\ turns'[w][i].state \notin {"claimed", "running"}
                /\ turns[w][i].state \notin {"claimed", "running"} => turns'[w][i] = turns[w][i]
  BY ReconciledFacts DEF IInv, SecondDaemon, Befalls
<1>3. TypeOK'
  <2>1. Typed'
    BY <1>1, <1>2 DEF Typed
  <2>2. QED BY <2>1, TypeFacts, PTL
<1>4. RegisterInv'
  BY <1>1, <1>2 DEF IInv, RegisterInv
<1>5. \A r \in Runners : HasRow(r)' <=> HasRow(r)
  BY <1>1, <1>2 DEF HasRow
<1>6. HoldInv'
  <2>1. \A w \in Workers : turns[w] = <<>> => turns'[w] = <<>>
    BY <1>1, <1>2 DEF Typed
  <2>2. QED BY <1>1, <1>2, <1>5, <2>1 DEF IInv, HoldInv
<1>7. ClaimInv' /\ CarriedInv'
  BY <1>1, <1>2 DEF ClaimInv, ClaimedOnce, CarriedInv
<1>8. OrderInv'
  <2>1. InOrder'
    BY <1>2 DEF InOrder
  <2>2. ASSUME NEW r \in Runners, gen[Lane(r)] <= 1, Len(turns[Lane(r)]) <= KillLooks,
               "raise" \notin mishaps,
               at[r] = "claim", HasRow(r), NEW i \in 1..(hold[r].i - 1)
        PROVE  turns'[Lane(r)][i].state # "queued"
    <3>1. i \in DOMAIN turns[Lane(r)] /\ i \in Nat \ {0} /\ Len(turns[Lane(r)]) \in Nat
          /\ Lane(r) \in Workers
      BY <1>1, <2>2 DEF IInv, HoldInv, Typed
    <3>2. turns[Lane(r)][i].state # "queued"
      BY <2>2, <3>1 DEF IInv, OrderInv, Orderly
    <3>3. turns[Lane(r)][i].state \notin {"claimed", "running"}
      <4> SUFFICES ASSUME turns[Lane(r)][i].state \in {"claimed", "running"} PROVE FALSE
        OBVIOUS
      <4>1. i + KillLooks > Len(turns[Lane(r)])
        BY <2>2, <3>1, WorkerTurnsAssumption
      <4>2. PICK q \in RunnersOf(Lane(r)) : at[q] \in Carrying
        BY <1>1, <2>2, <3>1, <4>1 DEF IInv, CarriedInv, LeftInv
      <4>3. q = r
        BY <2>2, <4>2, Alone DEF RunnersOf, Carrying
      <4>4. QED BY <2>2, <4>2, <4>3 DEF Carrying
    <3>4. QED BY <1>2, <3>1, <3>2, <3>3
  <2>3. ASSUME NEW r \in Runners, Orderly(Lane(r))'
        PROVE  gen[Lane(r)] <= 1 /\ Len(turns[Lane(r)]) <= KillLooks /\ "raise" \notin mishaps
    BY <1>1, <1>2, <2>3 DEF Orderly
  <2>4. QED BY <1>1, <1>5, <2>1, <2>2, <2>3 DEF OrderInv
<1>9. BreakerInv'
  BY <1>1 DEF IInv, BreakerInv, WouldRepeat
<1>10. CycledIsRestored'
  <2> SUFFICES ASSUME "crash" \notin mishaps, NEW v \in Workers, gen[v] <= 1, status[v] # "none",
                      NEW e \in 1..Len(ends[v]), ends[v][e] = "cycled"
               PROVE  \/ \E i \in DOMAIN turns'[v] :
                           turns'[v][i].kind = "restore" /\ turns'[v][i].epoch = e + 1
                      \/ e = Len(ends[v]) /\ \E r \in RunnersOf(v) : at'[r] = "afterRestore"
    BY <1>1, <1>2 DEF CycledIsRestored, RunnersOf
  <2>1. \/ \E i \in DOMAIN turns[v] :
             turns[v][i].kind = "restore" /\ turns[v][i].epoch = e + 1
        \/ e = Len(ends[v]) /\ \E r \in RunnersOf(v) : at[r] = "afterRestore"
    BY DEF IInv, CycledIsRestored
  <2>2. QED BY <1>1, <1>2, <2>1 DEF RunnersOf
<1>11. LeftInv'
  BY <1>2 DEF LeftInv
<1>12. QED BY <1>3, <1>4, <1>6, <1>7, <1>8, <1>9, <1>10, <1>11 DEF IInv

-----------------------------------------------------------------------------
(* The theorems *)

LEMMA InitIInv ==
  ASSUME Init
  PROVE  IInv
<1>1. TypeOK
  BY WorkerTurnsAssumption, NoTurnType, TypeFacts DEF Init, Typed, Statuses, Chains, Stages
<1>2. RegisterInv /\ HoldInv
  BY LaneFacts DEF Init, RegisterInv, HoldInv, HasRow, NoTurn, Picked, InTurn, InAfter
<1>3. ClaimInv /\ CarriedInv /\ LeftInv /\ OrderInv /\ BreakerInv
  BY DEF Init, ClaimInv, ClaimedOnce, CarriedInv, LeftInv, OrderInv, InOrder, BreakerInv, InTurn
<1>4. CycledIsRestored
  BY DEF Init, CycledIsRestored
<1>5. QED BY <1>1, <1>2, <1>3, <1>4 DEF IInv

LEMMA StepIInv ==
  ASSUME IInv, [Next]_vars
  PROVE  IInv'
<1>1. ASSUME NEW w \in Workers,
             \/ Spawn(w) \/ Prompt(w) \/ Cycle(w) \/ KillMark(w) \/ KillRest(w)
             \/ RemoveWorker(w) \/ RetireIdle(w)
      PROVE  IInv'
  BY <1>1, SpawnIInv, RequestIInv, KillMarkIInv, KillRestIInv, RemoveIInv, RetireIdleIInv
     DEF Prompt, Cycle, Kinds
<1>2. ASSUME NEW r \in Runners, RunnerStep(r) \/ Acquire(r) \/ Raise(r)
      PROVE  IInv'
  BY <1>2, RunnerIInv
<1>3. CASE StopEnds \/ Crash
  <2>1. mishaps' \in {mishaps, mishaps \cup {"crash"}} /\ Down
        /\ ("crash" \in mishaps' \/ \A r \in Runners : at[r] = "off")
    BY <1>3 DEF StopEnds, Crash, Befalls
  <2>2. QED BY <2>1, DownIInv
<1>4. CASE UNCHANGED vars
  <2>1. RegisterInv' /\ HoldInv' /\ TypeOK'
    BY <1>4 DEF IInv, vars, RegisterInv, HoldInv, HasRow, TypeOK
  <2>2. QED BY <1>4, <2>1, StillIInv DEF vars, HasRow
<1>5. QED BY <1>1, <1>2, <1>3, <1>4, StopIInv, BootIInv, SecondDaemonIInv DEF Next

\* The inductive invariant holds in every reachable state.
THEOREM Invariance == Spec => []IInv
<1>1. Init => IInv
  BY InitIInv
<1>2. IInv /\ [Next]_vars => IInv'
  BY StepIInv
<1>3. QED BY <1>1, <1>2, PTL DEF Spec

\* The lane of each worker is well formed, and its turns leave the queue in the order they were
\* asked for, redelivery after a crash included (next_queued_turn, claim_turn, boot_reconcile).
THEOREM LanesAreInOrder == Spec => []LaneInv
<1>1. IInv => LaneInv
  BY DEF IInv, OrderInv, LaneInv
<1>2. QED BY <1>1, Invariance, PTL

\* A turn that is claimed or running is in the hands of a live runner: whatever befell the worker
\* or the registry meanwhile, no way out of _run_turn leaves it behind but an exception that none
\* of its handlers catches; and of such a turn the history says so.
THEOREM TurnsAreCarried == Spec => []NoTurnStranded
<1>1. IInv => NoTurnStranded
  <2> SUFFICES ASSUME CarriedInv PROVE NoTurnStranded
    BY DEF IInv
  <2>1. Carrying \subseteq InTurn \cup {"wait"}
    BY DEF Carrying, InTurn
  <2>2. QED BY <2>1 DEF CarriedInv, NoTurnStranded
<1>2. QED BY <1>1, Invariance, PTL

\* An epoch that a handover opened has its restore turn, or a runner that is about to ask for it:
\* only the end of the process comes between the two writes of _after_turn.
THEOREM HandoversAreRestored == Spec => []CycledIsRestored
<1>1. IInv => CycledIsRestored
  BY DEF IInv
<1>2. QED BY <1>1, Invariance, PTL

\* A name has one runner until it is used again, and even then no turn has two: _ensure_runner
\* and the compare-and-swap of claim_turn.
THEOREM RunnersKeepApart == Spec => []RunnersApart
<1>1. IInv => OneRunner
  <2> SUFFICES ASSUME IInv, NEW w \in Workers, gen[w] <= 1
               PROVE  Cardinality({r \in RunnersOf(w) : at[r] # "off"}) <= 1
    BY DEF OneRunner
  <2> DEFINE live == {r \in RunnersOf(w) : at[r] # "off"}
  <2>1. \A r, q \in live : r = q
    BY DEF IInv, RegisterInv, RunnersOf
  <2>2. CASE live = {}
    BY <2>2, FS_EmptySet
  <2>3. CASE live # {}
    <3>1. PICK r \in live : TRUE
      BY <2>3
    <3>2. live = {r}
      BY <2>1, <3>1
    <3> HIDE DEF live
    <3>3. QED BY <3>2, FS_Singleton DEF live
  <2>4. QED BY <2>2, <2>3
<1>2. IInv => ClaimedOnce
  BY DEF IInv, ClaimInv
<1>3. QED BY <1>1, <1>2, Invariance, PTL DEF RunnersApart

-----------------------------------------------------------------------------
(* The action properties *)

\* Only a dead chain ends an epoch as "resume_failed", and only under the breaker's verdict.
LEMMA StepHoldsBreaker ==
  ASSUME IInv, [Next]_vars, NEW w \in Workers, gen[w] <= 1,
         ends'[w] = Append(ends[w], "resume_failed"), ends[w] # <<>>
  PROVE  ends[w][Len(ends[w])] = "cycled" \/ chain[w] = "healthy"
<1>1. /\ Typed /\ ends[w] \in Seq(Reasons)
  BY TypeFacts DEF IInv, Typed
<1>2. ends'[w] # ends[w] /\ ends'[w] # <<>>
      /\ ends'[w][Len(ends'[w])] = "resume_failed"
      /\ Append(ends[w], "cycled")[Len(Append(ends[w], "cycled"))] = "cycled"
  BY <1>1 DEF Reasons
<1>3. PICK r \in Runners : RunnerStep(r) \/ Acquire(r) \/ Raise(r)
  <2>1. ASSUME NEW v \in Workers,
               \/ Spawn(v) \/ Prompt(v) \/ Cycle(v) \/ KillMark(v) \/ KillRest(v)
               \/ RemoveWorker(v) \/ RetireIdle(v)
        PROVE  FALSE
    <3>1. ends'[w] = ends[w] \/ ends'[w] = <<>>
      BY <1>1, <2>1 DEF Typed, Spawn, Prompt, Cycle, Request, KillMark, KillRest, RemoveWorker,
                        RetireIdle
    <3>2. QED BY <1>2, <3>1
  <2>2. CASE Stop \/ StopEnds \/ Crash \/ Boot \/ SecondDaemon \/ UNCHANGED vars
    BY <1>2, <2>2 DEF Stop, StopEnds, Crash, Down, Boot, SecondDaemon, vars
  <2>3. QED BY <2>1, <2>2 DEF Next
<1>4. Effect(r)
  BY <1>3, RunnerEffect
<1>5. w = Lane(r) /\ at[r] = "roll"
  BY <1>2, <1>4 DEF Effect, Solo, Epochs
<1>6. ~WouldRepeat(w)
  BY <1>5 DEF IInv, BreakerInv
<1>7. ends[w][Len(ends[w])] \in Reasons
  BY <1>1
<1>8. QED BY <1>6, <1>7 DEF WouldRepeat, Reasons

\* A dead session chain is cured once: between two recoveries in a row a turn has resumed a
\* session and finished (_resume_recovery_would_repeat).
THEOREM TheBreakerHolds == Spec => BreakerHolds
<1>1. IInv /\ [Next]_vars =>
        [\A w \in Workers :
           LET past == ends[w]
           IN gen[w] <= 1 /\ ends'[w] = Append(past, "resume_failed") /\ past # <<>> =>
                past[Len(past)] = "cycled" \/ chain[w] = "healthy"]_vars
  BY StepHoldsBreaker
<1>2. QED BY <1>1, Invariance, PTL DEF Spec, BreakerHolds

\* No step rewrites a turn that has ended, as long as its row is there.
LEMMA StepKeepsEnds ==
  ASSUME IInv, [Next]_vars, NEW w \in Workers, status'[w] # "none",
         NEW i \in DOMAIN turns[w], turns[w][i].state \in Terminal
  PROVE  turns'[w][i] = turns[w][i]
<1>1. Typed
  BY TypeFacts DEF IInv
<1>2. ASSUME NEW r \in Runners, RunnerStep(r) \/ Acquire(r) \/ Raise(r)
      PROVE  turns'[w][i] = turns[w][i]
  <2>1. Effect(r)
    BY <1>2, RunnerEffect
  <2>2. ASSUME NEW kind, TurnAdded(w, kind)
        PROVE  turns'[w][i] = turns[w][i]
    BY <2>2 DEF TurnAdded
  <2>3. ASSUME NEW k, NEW s, TurnMoves(w, k, s), turns[w][k].state \notin Terminal
        PROVE  turns'[w][i] = turns[w][i]
    BY <2>3 DEF TurnMoves
  <2>4. QED BY <2>1, <2>2, <2>3 DEF Effect, Solo, Turns, Terminal
<1>3. ASSUME NEW v \in Workers, NEW kind \in Kinds, Enqueue(v, kind)
      PROVE  turns'[w][i] = turns[w][i]
  <2>1. TurnAdded(v, kind)
    BY <1>3, AddTurn DEF IInv
  <2>2. QED BY <2>1 DEF TurnAdded
<1>4. ASSUME NEW v \in Workers, KillRest(v) \/ RemoveWorker(v)
      PROVE  turns'[w][i] = turns[w][i]
  <2>1. CASE KillRest(v)
    BY <1>1, <2>1 DEF KillRest, Typed, Terminal
  <2>2. CASE RemoveWorker(v)
    BY <1>1, <2>2 DEF RemoveWorker, Typed
  <2>3. QED BY <1>4, <2>1, <2>2
<1>5. CASE Boot \/ SecondDaemon
  BY <1>5, ReconciledFacts DEF IInv, Boot, SecondDaemon, Terminal
<1>6. CASE Stop \/ StopEnds \/ Crash \/ UNCHANGED vars
  BY <1>6 DEF Stop, StopEnds, Crash, Down, vars
<1>7. ASSUME NEW v \in Workers,
             Spawn(v) \/ Prompt(v) \/ Cycle(v) \/ KillMark(v) \/ RetireIdle(v)
      PROVE  turns'[w][i] = turns[w][i]
  BY <1>3, <1>7 DEF Spawn, Prompt, Cycle, Request, KillMark, RetireIdle, Kinds
<1>8. QED BY <1>2, <1>4, <1>5, <1>6, <1>7 DEF Next

\* No step takes a settled kill back.
LEMMA StepKeepsKills ==
  ASSUME IInv, [Next]_vars, NEW w \in Workers, gen[w] <= 1, Settled(w)
  PROVE  Settled(w)' \/ status'[w] \in {"retired", "none"} \/ killing'[w]
<1>1. Typed /\ NoRunner \notin Runners
  BY TypeFacts, LaneFacts DEF IInv
<1> DEFINE quiet == {"off", "scan", "closing"} \cup InAfter
<1>2. ASSUME status'[w] = status[w], killing'[w] = killing[w],
             \A r \in RunnersOf(w) : at'[r] \in quiet
      PROVE  Settled(w)'
  BY <1>2 DEF Settled, RunnersOf
<1>3. \A r \in RunnersOf(w) : at[r] \in quiet
  BY DEF Settled
<1>4. ASSUME NEW r \in Runners, RunnerStep(r) \/ Acquire(r) \/ Raise(r), Lane(r) # w
      PROVE  Settled(w)'
  <2>1. Effect(r)
    BY <1>4, RunnerEffect
  <2>2. status'[w] = status[w] /\ killing'[w] = killing[w]
        /\ \A q \in RunnersOf(w) : at'[q] = at[q]
    BY <1>4, <2>1 DEF Effect, Solo, RunnersOf
  <2>3. QED BY <1>2, <1>3, <2>2
<1>5. ASSUME NEW r \in Runners, RunnerStep(r) \/ Acquire(r) \/ Raise(r), Lane(r) = w
      PROVE  Settled(w)' \/ status'[w] \in {"retired", "none"}
  <2>1. r \in RunnersOf(w) /\ at[r] \in quiet /\ status[w] = "killed"
    BY <1>3, <1>5 DEF RunnersOf, Settled
  <2>2. Scan(r) \/ Closed(r) \/ After(r) \/ Chain(r) \/ Raise(r)
    <3>1. at[r] \notin {"pick", "claim", "wait", "begin", "start", "live", "roll", "restore",
                       "idle", "asking", "hush"}
      BY <2>1 DEF InAfter
    <3>2. ~(Pick(r) \/ Claim(r) \/ Acquire(r))
      BY <3>1 DEF Pick, Claim, Acquire
    <3>3. ~(Begin(r) \/ Start(r) \/ End(r) \/ DeadChain(r) \/ RollDead(r) \/ RestoreDead(r))
      BY <3>1 DEF Begin, Start, End, DeadChain, RollDead, RestoreDead, Step
    <3>4. ~(BackToIdle(r) \/ Ask(r) \/ Asked(r))
      BY <3>1 DEF BackToIdle, Ask, Asked, Step
    <3>5. QED BY <1>5, <3>2, <3>3, <3>4 DEF RunnerStep
  <2>3. killing' = killing /\ \A q \in RunnersOf(w) : q # r => at'[q] = at[q]
    <3>1. Effect(r)
      BY <1>5, RunnerEffect
    <3>2. QED BY <3>1 DEF Effect, Solo, RunnersOf
  <2>4. ASSUME status'[w] = status[w], at'[r] \in quiet
        PROVE  Settled(w)'
    BY <1>2, <1>3, <2>3, <2>4
  <2>5. Again(r) \/ Exit(r) => at'[r] \in quiet
    BY AgainFacts DEF IInv, Leaves
  <2>6. CASE Scan(r)
    BY <1>5, <2>1, <2>4, <2>5, <2>6 DEF Scan, Gone
  <2>7. CASE Closed(r)
    BY <2>4, <2>5, <2>7 DEF Closed
  <2>8. CASE Chain(r)
    BY <2>4, <2>5, <2>8 DEF Chain
  <2>9. CASE After(r)
    <3>1. \/ status' = status /\ (Again(r) \/ at' = [at EXCEPT ![r] = "afterRestore"]
                                  \/ at' = [at EXCEPT ![r] = "continue"]
                                  \/ at' = [at EXCEPT ![r] = "cycle"])
          \/ SetStatus(w, "retired")
      BY <1>5, <2>9 DEF After, Goto
    <3>2. CASE SetStatus(w, "retired")
      BY <1>1, <2>1, <3>2 DEF SetStatus, Typed
    <3>3. CASE status' = status /\ ~SetStatus(w, "retired")
      <4>1. at'[r] \in quiet
        BY <1>1, <2>5, <3>1, <3>3 DEF Typed, InAfter
      <4>2. QED BY <2>4, <3>3, <4>1
    <3>4. QED BY <3>1, <3>2, <3>3
  <2>10. CASE Raise(r)
    BY <2>4, <2>5, <2>10 DEF Raise
  <2>11. QED BY <2>2, <2>6, <2>7, <2>8, <2>9, <2>10
<1>6. ASSUME NEW v \in Workers,
             \/ Spawn(v) \/ Prompt(v) \/ Cycle(v) \/ KillMark(v) \/ KillRest(v)
             \/ RemoveWorker(v) \/ RetireIdle(v)
      PROVE  Settled(w)' \/ status'[w] \in {"retired", "none"} \/ killing'[w]
  <2>1. CASE v = w
    BY <1>1, <1>6, <2>1 DEF Spawn, Prompt, Cycle, Request, KillMark, KillRest, RemoveWorker,
                            RetireIdle, Settled, Active, Typed
  <2>2. CASE v # w
    <3>1. status'[w] = status[w] /\ killing'[w] = killing[w]
      BY <1>1, <1>6, <2>2 DEF Spawn, Prompt, Cycle, Request, KillMark, KillRest, RemoveWorker,
                              RetireIdle, SetStatus, Typed
    <3>2. CASE EnsureRunner(v)
      <4>1. \A r \in RunnersOf(w) : at'[r] = at[r]
        BY <2>2, <3>2, EnsureFacts DEF IInv, RunnersOf
      <4>2. QED BY <1>2, <1>3, <3>1, <4>1
    <3>3. CASE KillRest(v)
      <4>1. \A r \in RunnersOf(w) : current[v] # r
        BY <1>1, <2>2, <3>3 DEF KillRest, IInv, RegisterInv, RunnersOf
      <4>2. \A r \in RunnersOf(w) : at'[r] = at[r]
        BY <3>3, <4>1 DEF KillRest, RunnersOf
      <4>3. QED BY <1>2, <1>3, <3>1, <4>2
    <3>4. CASE at' = at
      BY <1>2, <1>3, <3>1, <3>4
    <3>5. QED BY <1>6, <3>2, <3>3, <3>4 DEF Spawn, Prompt, Cycle, Request, KillMark, RemoveWorker,
                                            RetireIdle
  <2>3. QED BY <2>1, <2>2
<1>7. CASE Stop \/ StopEnds \/ Crash
  <2>1. status'[w] = status[w] /\ \A r \in RunnersOf(w) : at'[r] \in quiet
    BY <1>3, <1>7 DEF Stop, StopEnds, Crash, Down, RunnersOf
  <2>2. killing'[w] \/ killing'[w] = killing[w]
    BY <1>1, <1>7 DEF Stop, StopEnds, Crash, Down, Settled, Typed
  <2>3. QED BY <1>2, <2>1, <2>2
<1>8. CASE Boot \/ SecondDaemon
  <2>1. status'[w] = status[w] /\ killing'[w] = killing[w]
    BY <1>1, <1>8 DEF Boot, SecondDaemon, Reconciled, Settled, Active
  <2>2. \A r \in RunnersOf(w) : at'[r] \in quiet
    BY <1>3, <1>8 DEF Boot, SecondDaemon, RunnersOf
  <2>3. QED BY <1>2, <2>1, <2>2
<1>9. CASE UNCHANGED vars
  BY <1>2, <1>3, <1>9 DEF vars
<1>10. QED BY <1>4, <1>5, <1>6, <1>7, <1>8, <1>9 DEF Next

\* No late write undoes an end: a turn stays as it ended, whoever ended it first, and a kill that
\* found its worker between two turns is final (finish_turn, boot_reconcile, _worker_loop).
THEOREM EndsStayFinal == Spec => EndsAreFinal
<1>1. IInv /\ [Next]_vars =>
        [\A w \in Workers : gen'[w] = gen[w] /\ status'[w] # "none" =>
           \A i \in DOMAIN turns[w] :
             turns[w][i].state \in Terminal => turns'[w][i] = turns[w][i]]_vars
  BY StepKeepsEnds
<1>2. IInv /\ [Next]_vars =>
        [\A w \in Workers : gen[w] <= 1 /\ Settled(w) =>
           Settled(w)' \/ status'[w] \in {"retired", "none"} \/ killing'[w]]_vars
  BY StepKeepsKills
<1>3. Spec => EndIsFinal
  BY <1>1, Invariance, PTL DEF Spec, EndIsFinal
<1>4. Spec => KillIsFinal
  BY <1>2, Invariance, PTL DEF Spec, KillIsFinal
<1>5. QED BY <1>3, <1>4, PTL DEF EndsAreFinal
=============================================================================
