--------------------------- MODULE PoolServerProofs ---------------------------
(***************************************************************************)
(* Proofs of PoolServer's invariants for any agents, clients and matches,  *)
(* shared agents, stragglers and experiments included.                     *)
(*                                                                         *)
(* The invariant is IInv: besides what is to be proved it says that every  *)
(* reference in a row or a request is to a state that exists, for the      *)
(* agent whose turn that state is.                                         *)
(***************************************************************************)
EXTENDS PoolServer, TLAPS, SequenceTheorems

\* A state of the game exists.
Exists(g, n) == g \in Game /\ n \in 1..Len(states[g])

\* Whose turn it is in state n of game g.
TurnOf(g, n) == NextAgent(g, states[g][n])

\* Rows and shots refer to states that exist; a game not yet born has none.
RowsRefer ==
  /\ \A p \in pending : Exists(p.game, p.state) /\ p.agent = TurnOf(p.game, p.state)
  /\ \A s \in shots : Exists(s.game, s.prev)
  /\ \A g \in Game : games[g].endReason = "unborn" => states[g] = <<>>

\* A client at work has a shot to work on, and it may submit it only if it is
\* the turn of its agent.
JobRefers(c) ==
  /\ job[c] # NoJob => Exists(job[c].game, job[c].state)
  /\ pc[c] \in {"think", "submit"} => job[c] # NoJob
  /\ pc[c] = "reply" /\ chosen[c] = None => job[c] # NoJob
  /\ pc[c] = "submit" => AgentOf[c] = TurnOf(job[c].game, job[c].state)
JobsRefer == \A c \in Client : JobRefers(c)

IInv == TypeOK /\ RowsRefer /\ JobsRefer /\ OpenGamesAreQueued /\ OpenGamesInSequence

-----------------------------------------------------------------------------
(***************************************************************************)
(* Types                                                                   *)
(***************************************************************************)

\* A request that ends is well-typed.
LEMMA IdleTypes ==
  ASSUME RequestOK, NEW c \in Client, BackToIdle(c) PROVE RequestOK'
BY DEF RequestOK, BackToIdle

\* Sides.
LEMMA OpponentSide == ASSUME NEW side PROVE Opponent(side) \in Side
BY DEF Opponent, Side

\* The shot a client submits is of a state that exists, so its shooter is a side.
LEMMA ShooterSide ==
  ASSUME TypeOK, JobsRefer, NEW c \in Client, pc[c] = "submit"
  PROVE  /\ job[c] \in [game: Game, state: Nat]
         /\ job[c].state \in 1..Len(states[job[c].game])
         /\ states[job[c].game] \in Seq(StateRow)
         /\ Shooter(c) \in Side
<1>1. job[c] # NoJob /\ Exists(job[c].game, job[c].state)
  BY DEF JobsRefer, JobRefers
<1>2. /\ job[c] \in [game: Game, state: Nat]
      /\ job[c].state \in 1..Len(states[job[c].game])
      /\ states[job[c].game] \in Seq(StateRow)
  BY <1>1 DEF TypeOK, DatabaseOK, RequestOK, Exists
<1>3. states[job[c].game][job[c].state] \in StateRow
  BY <1>2, ElementOfSeq
<1> QED
  BY <1>2, <1>3 DEF Shooter, StateRow

\* endgame writes a well-typed row.
LEMMA EndGameTypes ==
  ASSUME DatabaseOK, NEW g \in Game, NEW reason \in EndReason, NEW won \in Side,
         EndGame(g, reason, won)
  PROVE  games' \in [Game -> GameRow]
<1>1. games \in [Game -> GameRow]
  BY DEF DatabaseOK
<1>2. [games[g] EXCEPT !.endReason = reason, !.winner = won] \in GameRow
  BY <1>1 DEF GameRow
<1>3. games' = [games EXCEPT ![g] = [games[g] EXCEPT !.endReason = reason, !.winner = won]]
  BY <1>1 DEF EndGame, GameRow
<1> QED
  BY <1>1, <1>2, <1>3

\* get_next_agent answers with an agent or NULL.
LEMMA NextAgentType ==
  ASSUME DatabaseOK, NEW g \in Game, NEW st
  PROVE  NextAgent(g, st) \in Agent \cup {None}
BY DEF DatabaseOK, GameRow, NextAgent

\* A recorded shot: the state and the row are well-typed.
LEMMA RecordShotTypes ==
  ASSUME TypeOK, JobsRefer, NEW c \in Client, pc[c] = "submit",
         NEW st \in StateRow, RecordShot(c, st)
  PROVE  /\ states' \in [Game -> Seq(StateRow)]
         /\ states' = [states EXCEPT ![job[c].game] = Append(states[job[c].game], st)]
         /\ shots' \subseteq ShotRow
         /\ Len(states[job[c].game]) + 1 \in Nat
<1> DEFINE g == job[c].game
<1>1. g \in Game /\ states[g] \in Seq(StateRow) /\ job[c].state \in Nat
  BY ShooterSide
<1>2. Append(states[g], st) \in Seq(StateRow) /\ Len(states[g]) \in Nat
  BY <1>1, AppendProperties, LenProperties
<1>3. states' = [states EXCEPT ![g] = Append(states[g], st)]
  BY DEF RecordShot
<1>4. states' \in [Game -> Seq(StateRow)]
  BY <1>1, <1>2, <1>3 DEF TypeOK, DatabaseOK
<1>5. AgentOf[c] \in Agent
  BY ConstantsAssumption
<1>6. shots' \subseteq ShotRow
  BY <1>1, <1>2, <1>5 DEF RecordShot, TypeOK, DatabaseOK, ShotRow
<1> QED
  BY <1>2, <1>3, <1>4, <1>6

\* The state a shot leads to.
LEMMA NewStateType ==
  ASSUME TypeOK, JobsRefer, NEW c \in Client, pc[c] = "submit",
         NEW lost \in BOOLEAN, NEW t \in {"shoot", "win"}
  PROVE  NewState(c, lost, t) \in StateRow
BY ShooterSide, OpponentSide DEF NewState, StateRow

\* A game that starts: all it writes is well-typed.
LEMMA NewGameTypes ==
  ASSUME TypeOK, NEW c \in Client, NEW g \in Game, chosen[c] \in Match,
         NEW breaker \in Agent, NEW other \in Agent \cup {None},
         NewGame(c, g, breaker, other)
  PROVE  /\ games' \in [Game -> GameRow] /\ states' \in [Game -> Seq(StateRow)]
         /\ pending' \subseteq PendingRow /\ shots' = shots /\ cache' = cache
         /\ RequestOK'
<1>1. [match |-> chosen[c], agent1 |-> breaker, agent2 |-> other,
       endReason |-> "open", winner |-> "none"] \in GameRow
  BY DEF GameRow
<1>2. games' \in [Game -> GameRow]
  BY <1>1 DEF NewGame, TypeOK, DatabaseOK
<1>3. <<[mover |-> "starter", turn |-> "shoot"]>> \in Seq(StateRow)
  BY DEF StateRow, Side
<1>4. states' \in [Game -> Seq(StateRow)]
  BY <1>3 DEF NewGame, TypeOK, DatabaseOK
<1>5. pending' \subseteq PendingRow
  BY DEF NewGame, TypeOK, DatabaseOK, PendingRow
<1>6. RequestOK'
  BY DEF NewGame, TypeOK, RequestOK
<1> QED
  BY <1>2, <1>4, <1>5, <1>6 DEF NewGame

\* The steps of get_shot keep the types.
LEMMA GetShotTypes ==
  ASSUME TypeOK, JobsRefer, NEW c \in Client, GetShot(c) \/ GetShotStep(c)
  PROVE  TypeOK'
<1> USE DEF TypeOK
<1>1. CASE GetShot(c)
  BY <1>1 DEF GetShot, database, Overdue, DatabaseOK, RequestOK
<1>2. CASE CleanupPendingShots(c)
  <2>1. games' \in [Game -> GameRow]
    <3>1. SUFFICES ASSUME NEW g \in Game PROVE games'[g] \in GameRow
      BY <1>2 DEF CleanupPendingShots
    <3>2. games[g] \in GameRow
      BY DEF DatabaseOK
    <3>3. ASSUME NEW p
          PROVE  [games[g] EXCEPT !.endReason = "crashed",
                    !.winner = Opponent(states[g][p.state].mover)] \in GameRow
      BY <3>2, OpponentSide DEF GameRow, EndReason
    <3> QED
      BY <1>2, <3>2, <3>3 DEF CleanupPendingShots
  <2>2. pending' \subseteq PendingRow
    BY <1>2 DEF CleanupPendingShots, DatabaseOK
  <2> QED
    BY <1>2, <2>1, <2>2 DEF CleanupPendingShots, DatabaseOK, RequestOK
<1>3. CASE PickShot(c)
  <2>1. \A p \in pending : [game |-> p.game, state |-> p.state] \in [game: Game, state: Nat]
    BY DEF DatabaseOK, PendingRow
  <2>2. SelectPendingShot(AgentOf[c]) \subseteq pending
    BY DEF SelectPendingShot
  <2>3. DatabaseOK'
    BY <1>3 DEF PickShot, database, DatabaseOK
  <2>4. job' = job \/ \E j \in [game: Game, state: Nat] : job' = [job EXCEPT ![c] = j]
    BY <1>3, <2>1, <2>2 DEF PickShot
  <2> QED
    BY <1>3, <2>3, <2>4 DEF PickShot, RequestOK
<1>4. CASE PickMatch(c)
  <2>1. DatabaseOK'
    BY <1>4 DEF PickMatch, database, DatabaseOK
  <2>2. CASE BackToIdle(c)
    BY <2>1, <2>2, IdleTypes
  <2>3. CASE ~BackToIdle(c)
    <3>1. SelectPendingMatch(AgentOf[c]) \subseteq Match
      BY DEF SelectPendingMatch
    <3>2. /\ pc' = [pc EXCEPT ![c] = "reply"]
          /\ chosen' = chosen \/ \E m \in Match : chosen' = [chosen EXCEPT ![c] = m]
          /\ UNCHANGED <<overdue, job, tries>>
      BY <1>4, <2>3, <3>1 DEF PickMatch
    <3> QED
      BY <2>1, <3>2 DEF RequestOK
  <2> QED
    BY <2>2, <2>3
<1>5. CASE SendShot(c)
  <2>1. \A p \in pending : [p EXCEPT !.sent = "sent"] \in PendingRow
    BY DEF DatabaseOK, PendingRow
  <2>2. pending' \subseteq PendingRow
    BY <1>5, <2>1 DEF SendShot, DatabaseOK
  <2> QED
    BY <1>5, <2>2 DEF SendShot, DatabaseOK, RequestOK
<1>6. CASE AddGameToMatch(c)
  <2>1. chosen[c] \in Match /\ AgentOf[c] \in Agent
    BY <1>6, ConstantsAssumption DEF AddGameToMatch, RequestOK
  <2>2. MatchRow[chosen[c]] \in MatchRows
    BY <2>1, ConstantsAssumption
  <2>3. PICK g \in NextGame, other \in Agent \cup {None} : NewGame(c, g, AgentOf[c], other)
    BY <1>6, <2>2 DEF AddGameToMatch, MatchRows
  <2>4. left' \in [Match -> [1..2 -> Int]]
    BY <1>6, <2>1 DEF AddGameToMatch, DatabaseOK
  <2> QED
    BY <2>1, <2>3, <2>4, NewGameTypes DEF NextGame, DatabaseOK
<1>7. CASE AddGameToMatchSpecial(c)
  <2>1. chosen[c] \in Match
    BY <1>7, ConstantsAssumption DEF AddGameToMatchSpecial, RequestOK
  <2>2. MatchRow[chosen[c]].agent1 \in Agent
    BY <2>1, ConstantsAssumption DEF MatchRows
  <2>3. PICK g \in NextGame : NewGame(c, g, MatchRow[chosen[c]].agent1, None)
    BY <1>7 DEF AddGameToMatchSpecial
  <2>4. left' \in [Match -> [1..2 -> Int]]
    BY <1>7, <2>1 DEF AddGameToMatchSpecial, DatabaseOK
  <2> QED
    BY <2>1, <2>2, <2>3, <2>4, NewGameTypes DEF NextGame, DatabaseOK
<1> QED
  BY <1>1, <1>2, <1>3, <1>4, <1>5, <1>6, <1>7 DEF GetShotStep

\* Rows that leave the queue leave a well-typed queue.
LEMMA RestOfQueueType ==
  ASSUME TypeOK, NEW c \in Client PROVE RestOfQueue(c) \subseteq PendingRow
BY DEF TypeOK, DatabaseOK, RestOfQueue

\* The steps of submit_shot keep the types.
LEMMA SubmitShotTypes ==
  ASSUME TypeOK, JobsRefer, NEW c \in Client,
         SubmitShot(c) \/ SubmitShotStep(c) \/ Dies(c)
  PROVE  TypeOK'
<1> USE DEF TypeOK
<1>1. CASE database' = database /\ BackToIdle(c)
  BY <1>1, IdleTypes DEF database, DatabaseOK
<1>2. CASE SubmitShot(c)
  BY <1>1, <1>2 DEF SubmitShot, database, DatabaseOK, RequestOK
<1>3. CASE BadParams(c) \/ AcceptFails(c) \/ Dies(c)
  BY <1>1, <1>3 DEF BadParams, AcceptFails, Dies
<1>4. CASE Impossible(c)
  BY <1>4 DEF Impossible, database, DatabaseOK, RequestOK
<1>5. CASE ConcedeOrTimeout(c)
  <2>1. job[c].game \in Game /\ Opponent(Shooter(c)) \in Side
    BY <1>5, ShooterSide, OpponentSide DEF ConcedeOrTimeout
  <2>2. games' \in [Game -> GameRow]
    BY <1>5, <2>1, EndGameTypes DEF ConcedeOrTimeout, EndReason
  <2>3. pending' \subseteq PendingRow /\ RequestOK'
    BY <1>5, RestOfQueueType, IdleTypes DEF ConcedeOrTimeout
  <2> QED
    BY <1>5, <2>2, <2>3 DEF ConcedeOrTimeout, DatabaseOK
<1>6. ASSUME NEW lost \in BOOLEAN, NEW t \in {"shoot", "win"}, AcceptAndQueue(c, lost, t)
      PROVE  TypeOK'
  <2> DEFINE g == job[c].game  st == NewState(c, lost, t)
  <2>1. g \in Game /\ st \in StateRow /\ RecordShot(c, st)
    BY <1>6, ShooterSide, NewStateType DEF AcceptAndQueue
  <2>2. NextAgent(g, st) \in Agent
    BY <1>6, <2>1, NextAgentType DEF AcceptAndQueue
  <2>3. /\ states' \in [Game -> Seq(StateRow)] /\ shots' \subseteq ShotRow
        /\ Len(states[g]) + 1 \in Nat
    BY <1>6, <2>1, RecordShotTypes DEF AcceptAndQueue
  <2>4. pending' \subseteq PendingRow
    BY <1>6, <2>1, <2>2, <2>3, RestOfQueueType DEF AcceptAndQueue, PendingRow
  <2> QED
    BY <1>6, <2>3, <2>4, IdleTypes DEF AcceptAndQueue, DatabaseOK
<1>7. ASSUME NEW lost \in BOOLEAN, NEW t \in {"shoot", "win"}, AcceptAndEnd(c, lost, t)
      PROVE  TypeOK'
  <2> DEFINE g == job[c].game  st == NewState(c, lost, t)
  <2>1. /\ g \in Game /\ st \in StateRow /\ RecordShot(c, st)
        /\ Shooter(c) \in Side /\ Opponent(Shooter(c)) \in Side
    BY <1>7, ShooterSide, OpponentSide, NewStateType DEF AcceptAndEnd
  <2>2. states' \in [Game -> Seq(StateRow)] /\ shots' \subseteq ShotRow
    BY <1>7, <2>1, RecordShotTypes DEF AcceptAndEnd
  <2>3. games' \in [Game -> GameRow]
    BY <1>7, <2>1, EndGameTypes DEF AcceptAndEnd, EndReason
  <2> QED
    BY <1>7, <2>2, <2>3, RestOfQueueType, IdleTypes DEF AcceptAndEnd, DatabaseOK
<1>8. ASSUME NEW t \in {"shoot", "win"}, AcceptLostTurn(c, t)
      PROVE  TypeOK'
  <2> DEFINE g == job[c].game  st == NewState(c, TRUE, t)
  <2>1. /\ g \in Game /\ st \in StateRow /\ RecordShot(c, st)
        /\ Opponent(Shooter(c)) \in Side
    BY <1>8, ShooterSide, OpponentSide, NewStateType DEF AcceptLostTurn
  <2>2. /\ states' \in [Game -> Seq(StateRow)] /\ shots' \subseteq ShotRow
        /\ Len(states[g]) + 1 \in Nat
    BY <1>8, <2>1, RecordShotTypes DEF AcceptLostTurn
  <2>3. games' \in [Game -> GameRow]
    BY <1>8, <2>1, EndGameTypes DEF AcceptLostTurn, EndReason
  <2>4. cache' \subseteq [game: Game, state: Nat]
    BY <1>8, <2>1, <2>2 DEF AcceptLostTurn, DatabaseOK
  <2> QED
    BY <1>8, <2>2, <2>3, <2>4, RestOfQueueType, IdleTypes DEF AcceptLostTurn, DatabaseOK
<1> QED
  BY <1>2, <1>3, <1>4, <1>5, <1>6, <1>7, <1>8 DEF SubmitShotStep

\* Time keeps the types.
LEMMA HourTypes ==
  ASSUME TypeOK, NEW p \in pending, HourPasses(p) PROVE TypeOK'
<1>1. p \in PendingRow /\ [p EXCEPT !.sent = "overdue"] \in PendingRow
  BY DEF TypeOK, DatabaseOK, PendingRow
<1> QED
  BY <1>1 DEF HourPasses, request, TypeOK, DatabaseOK, RequestOK

-----------------------------------------------------------------------------
(***************************************************************************)
(* References                                                              *)
(***************************************************************************)

\* What a step may not do to the states there are: forget one, or change whose
\* turn it is.
TurnsKept ==
  \A g \in Game, n \in Nat :
    Exists(g, n) => Exists(g, n)' /\ TurnOf(g, n)' = TurnOf(g, n)

\* A step that leaves the states and the players of the games alone.
PlayersKept ==
  /\ states' = states
  /\ \A g \in Game : /\ games'[g].agent1 = games[g].agent1
                     /\ games'[g].agent2 = games[g].agent2

LEMMA PlayersKeepTurns == ASSUME PlayersKept PROVE TurnsKept
BY DEF PlayersKept, TurnsKept, Exists, TurnOf, NextAgent

\* endgame does not touch the players, nor any other game.
LEMMA EndGameKeeps ==
  ASSUME TypeOK, NEW g \in Game, NEW reason, NEW won, EndGame(g, reason, won)
  PROVE  /\ games'[g].endReason = reason /\ games'[g].winner = won
         /\ \A h \in Game \ {g} : games'[h] = games[h]
         /\ \A h \in Game : /\ games'[h].agent1 = games[h].agent1
                            /\ games'[h].agent2 = games[h].agent2
                            /\ games'[h].match = games[h].match
<1>1. games \in [Game -> GameRow]
  BY DEF TypeOK, DatabaseOK
<1>2. games' = [games EXCEPT ![g] = [games[g] EXCEPT !.endReason = reason, !.winner = won]]
  BY <1>1 DEF EndGame, GameRow
<1>3. games[g] \in GameRow
  BY <1>1
<1> QED
  BY <1>1, <1>2, <1>3 DEF GameRow

\* A recorded shot is appended: nothing is forgotten.
LEMMA RecordShotKeeps ==
  ASSUME TypeOK, JobsRefer, NEW c \in Client, pc[c] = "submit",
         NEW st \in StateRow, RecordShot(c, st)
  PROVE  /\ Len(states[job[c].game]) \in Nat
         /\ Len(states'[job[c].game]) = Len(states[job[c].game]) + 1
         /\ states'[job[c].game][Len(states[job[c].game]) + 1] = st
         /\ \A n \in 1..Len(states[job[c].game]) :
              states'[job[c].game][n] = states[job[c].game][n]
         /\ \A h \in Game \ {job[c].game} : states'[h] = states[h]
<1> DEFINE g == job[c].game
<1>1. g \in Game /\ states[g] \in Seq(StateRow) /\ states \in [Game -> Seq(StateRow)]
  BY ShooterSide DEF TypeOK, DatabaseOK
<1>2. states' = [states EXCEPT ![g] = Append(states[g], st)]
  BY DEF RecordShot
<1>3. /\ Len(Append(states[g], st)) = Len(states[g]) + 1
      /\ Append(states[g], st)[Len(states[g]) + 1] = st
      /\ \A n \in 1..Len(states[g]) : Append(states[g], st)[n] = states[g][n]
      /\ Len(states[g]) \in Nat
  BY <1>1, AppendProperties, LenProperties
<1> QED
  BY <1>1, <1>2, <1>3

\* A recorded shot whose game keeps its players keeps all turns.
LEMMA RecordShotKeepsTurns ==
  ASSUME TypeOK, JobsRefer, NEW c \in Client, pc[c] = "submit",
         NEW st \in StateRow, RecordShot(c, st),
         \A h \in Game : /\ games'[h].agent1 = games[h].agent1
                         /\ games'[h].agent2 = games[h].agent2
  PROVE  TurnsKept
<1>1. SUFFICES ASSUME NEW g \in Game, NEW n \in Nat, Exists(g, n)
               PROVE  Exists(g, n)' /\ TurnOf(g, n)' = TurnOf(g, n)
  BY DEF TurnsKept
<1>2. Len(states[g]) <= Len(states'[g]) /\ states'[g][n] = states[g][n]
  <2>1. CASE g = job[c].game
    <3>1. Len(states[g]) \in Nat /\ Len(states'[g]) = Len(states[g]) + 1
      BY <2>1, RecordShotKeeps
    <3>2. states'[g][n] = states[g][n]
      BY <1>1, <2>1, RecordShotKeeps DEF Exists
    <3> QED
      BY <3>1, <3>2
  <2>2. CASE g # job[c].game
    <3>1. states'[g] = states[g] /\ Len(states[g]) \in Nat
      BY <2>2, RecordShotKeeps, LenProperties DEF TypeOK, DatabaseOK
    <3> QED
      BY <3>1
  <2> QED
    BY <2>1, <2>2
<1>3. Len(states[g]) \in Nat /\ Len(states'[g]) \in Nat
  BY RecordShotTypes, LenProperties DEF TypeOK, DatabaseOK
<1>4. Exists(g, n)'
  BY <1>1, <1>2, <1>3 DEF Exists
<1> QED
  BY <1>2, <1>4 DEF TurnOf, NextAgent

\* A game that was not yet born has no states, no rows and no shots.
LEMMA Newborn ==
  ASSUME RowsRefer, NEW g \in Game, games[g].endReason = "unborn"
  PROVE  /\ states[g] = <<>>
         /\ \A p \in pending : p.game # g
         /\ \A s \in shots : s.game # g
         /\ \A n : ~Exists(g, n)
<1>1. states[g] = <<>> /\ Len(states[g]) = 0
  BY DEF RowsRefer
<1>2. \A n : ~Exists(g, n)
  BY <1>1 DEF Exists
<1> QED
  BY <1>1, <1>2 DEF RowsRefer

-----------------------------------------------------------------------------
(***************************************************************************)
(* The database: what every write keeps                                    *)
(***************************************************************************)

DatabaseInv == RowsRefer /\ OpenGamesAreQueued /\ OpenGamesInSequence
WriteOK == DatabaseInv' /\ TurnsKept

\* A statement that writes nothing.
LEMMA QuietWrite == ASSUME DatabaseInv, UNCHANGED database PROVE WriteOK
<1>1. UNCHANGED <<games, states, pending, shots>>
  BY DEF database
<1>2. RowsRefer'
  BY <1>1 DEF DatabaseInv, RowsRefer, Exists, TurnOf, NextAgent
<1>3. OpenGamesAreQueued'
  BY <1>1 DEF DatabaseInv, OpenGamesAreQueued, QueueRow, Open, NextAgent
<1>4. OpenGamesInSequence'
  BY <1>1 DEF DatabaseInv, OpenGamesInSequence, InSequence, Open, NextAgent
<1>5. TurnsKept
  BY <1>1 DEF TurnsKept, Exists, TurnOf, NextAgent
<1> QED
  BY <1>2, <1>3, <1>4, <1>5 DEF DatabaseInv, WriteOK

\* A write that only ends games, together with their rows.
LEMMA EndingWrite ==
  ASSUME DatabaseInv, PlayersKept, UNCHANGED shots, pending' \subseteq pending,
         \A g \in Game : games'[g].endReason \in {games[g].endReason} \cup EndReason,
         \A p \in pending : games'[p.game].endReason = "open" => p \in pending'
  PROVE  WriteOK
<1>1. TurnsKept
  BY PlayersKeepTurns
<1>2. RowsRefer'
  <2>1. \A p \in pending' : Exists(p.game, p.state)' /\ p.agent = TurnOf(p.game, p.state)'
    BY DEF DatabaseInv, RowsRefer, PlayersKept, Exists, TurnOf, NextAgent
  <2>2. \A s \in shots' : Exists(s.game, s.prev)'
    BY DEF DatabaseInv, RowsRefer, PlayersKept, Exists
  <2>3. \A g \in Game : games'[g].endReason = "unborn" => states'[g] = <<>>
    BY DEF DatabaseInv, RowsRefer, PlayersKept, EndReason
  <2> QED
    BY <2>1, <2>2, <2>3 DEF RowsRefer
<1>3. \A g \in Game : Open(g)' => Open(g)
  BY DEF Open, EndReason
<1>4. OpenGamesAreQueued'
  <2>1. ASSUME NEW g \in Game, Open(g)' PROVE \E p \in pending' : QueueRow(g, p)'
    <3>1. PICK p \in pending : QueueRow(g, p)
      BY <1>3, <2>1 DEF DatabaseInv, OpenGamesAreQueued
    <3>2. p \in pending'
      BY <2>1, <3>1 DEF QueueRow, Open
    <3> QED
      BY <3>1, <3>2 DEF QueueRow, PlayersKept, NextAgent
  <2> QED
    BY <2>1 DEF DatabaseInv, OpenGamesAreQueued
<1>5. OpenGamesInSequence'
  BY <1>3 DEF DatabaseInv, OpenGamesInSequence, InSequence, PlayersKept, NextAgent
<1> QED
  BY <1>1, <1>2, <1>4, <1>5 DEF DatabaseInv, WriteOK

\* A write that only stamps rows: they keep their game, state and agent.
LEMMA StampingWrite ==
  ASSUME DatabaseInv, UNCHANGED <<games, states, shots>>, NEW stamp,
         pending' = {stamp[p] : p \in pending},
         \A p \in pending : /\ stamp[p].game = p.game /\ stamp[p].state = p.state
                            /\ stamp[p].agent = p.agent
  PROVE  WriteOK
<1>1. TurnsKept
  BY DEF TurnsKept, Exists, TurnOf, NextAgent
<1>2. RowsRefer'
  BY DEF DatabaseInv, RowsRefer, Exists, TurnOf, NextAgent
<1>3. \A p, q \in pending' : p.game = q.game => p = q
  BY DEF DatabaseInv, OpenGamesAreQueued
<1>4. ASSUME NEW g \in Game, Open(g)' PROVE \E p \in pending' : QueueRow(g, p)'
  <2>1. PICK p \in pending : QueueRow(g, p)
    BY <1>4 DEF DatabaseInv, OpenGamesAreQueued, Open
  <2> QED
    BY <2>1 DEF QueueRow, NextAgent
<1>5. OpenGamesInSequence'
  BY DEF DatabaseInv, OpenGamesInSequence, InSequence, Open, NextAgent
<1> QED
  BY <1>1, <1>2, <1>3, <1>4, <1>5 DEF DatabaseInv, WriteOK, OpenGamesAreQueued

\* A write that records the shot of a client and ends its game.
LEMMA LastShotWrite ==
  ASSUME TypeOK, JobsRefer, DatabaseInv, NEW c \in Client, pc[c] = "submit",
         NEW st \in StateRow, RecordShot(c, st), pending' = RestOfQueue(c),
         NEW reason \in EndReason, NEW won, EndGame(job[c].game, reason, won)
  PROVE  WriteOK
<1>0. PICK g, from : g = job[c].game /\ from = job[c].state
  OBVIOUS
<1>1. g \in Game /\ states[g] \in Seq(StateRow) /\ from \in 1..Len(states[g])
  BY <1>0, ShooterSide
<1>2. /\ games'[g].endReason = reason
      /\ \A h \in Game \ {g} : games'[h] = games[h] /\ states'[h] = states[h]
      /\ \A h \in Game : /\ games'[h].agent1 = games[h].agent1
                         /\ games'[h].agent2 = games[h].agent2
  BY <1>0, <1>1, EndGameKeeps, RecordShotKeeps
<1>3. TurnsKept
  BY <1>2, RecordShotKeepsTurns
<1>4. pending' = {p \in pending : ~IsJobRow(c, p)}
  BY DEF RestOfQueue
<1>5. \E n : shots' = shots \cup {[game |-> g, agent |-> AgentOf[c],
                                   prev |-> from, next |-> n]}
  BY <1>0 DEF RecordShot
<1>6. \A p \in pending : p.game \in Game /\ p.state \in Nat
  BY DEF TypeOK, DatabaseOK, PendingRow
<1>7. \A s \in shots : s.game \in Game /\ s.prev \in Nat
  BY DEF TypeOK, DatabaseOK, ShotRow
<1>8. RowsRefer'
  <2>1. \A p \in pending' : Exists(p.game, p.state)' /\ p.agent = TurnOf(p.game, p.state)'
    BY <1>3, <1>4, <1>6 DEF DatabaseInv, RowsRefer, TurnsKept
  <2>2. Exists(g, from)'
    BY <1>1, <1>3 DEF TurnsKept, Exists
  <2>3. \A s \in shots' : Exists(s.game, s.prev)'
    BY <1>3, <1>5, <1>7, <2>2 DEF DatabaseInv, RowsRefer, TurnsKept
  <2>4. \A h \in Game : games'[h].endReason = "unborn" => states'[h] = <<>>
    BY <1>2 DEF DatabaseInv, RowsRefer, EndReason
  <2> QED
    BY <2>1, <2>3, <2>4 DEF RowsRefer
<1>9. \A h \in Game : Open(h)' => h # g /\ Open(h)
  BY <1>2 DEF Open, EndReason
<1>10. ASSUME NEW h \in Game, Open(h)' PROVE \E p \in pending' : QueueRow(h, p)'
  <2>1. PICK p \in pending : QueueRow(h, p)
    BY <1>9, <1>10 DEF DatabaseInv, OpenGamesAreQueued
  <2>2. p \in pending'
    BY <1>0, <1>4, <1>9, <1>10, <2>1 DEF QueueRow, IsJobRow
  <2> QED
    BY <1>2, <1>9, <1>10, <2>1, <2>2 DEF QueueRow, NextAgent
<1>11. OpenGamesAreQueued'
  BY <1>4, <1>10 DEF DatabaseInv, OpenGamesAreQueued
<1>12. ASSUME NEW h \in Game, Open(h)' PROVE InSequence(h)'
  <2>1. h # g /\ InSequence(h) /\ states'[h] = states[h] /\ games'[h] = games[h]
    BY <1>2, <1>9, <1>12 DEF DatabaseInv, OpenGamesInSequence
  <2>2. \A s \in shots' : s.game = h => s \in shots
    BY <1>5, <2>1
  <2>3. shots \subseteq shots'
    BY <1>5
  <2> QED
    BY <2>1, <2>2, <2>3 DEF InSequence, NextAgent
<1> QED
  BY <1>3, <1>8, <1>11, <1>12 DEF DatabaseInv, WriteOK, OpenGamesInSequence

\* A write that records the shot of a client and queues the next one.
LEMMA NextShotWrite ==
  ASSUME TypeOK, JobsRefer, DatabaseInv, NEW c \in Client, pc[c] = "submit",
         NEW lost \in BOOLEAN, NEW t \in {"shoot", "win"}, AcceptAndQueue(c, lost, t)
  PROVE  WriteOK
\* The values the write computes before the step.
<1>0. PICK g, from, st, len, next :
        /\ g = job[c].game /\ from = job[c].state /\ st = NewState(c, lost, t)
        /\ len = Len(states[g]) /\ next = NextAgent(g, st)
  OBVIOUS
<1> DEFINE row == [game |-> g, state |-> len + 1, agent |-> next, sent |-> "no"]
           shot == [game |-> g, agent |-> AgentOf[c], prev |-> from, next |-> len + 1]
<1>1. /\ g \in Game /\ from \in 1..len
      /\ st \in StateRow /\ RecordShot(c, st)
  BY <1>0, ShooterSide, NewStateType DEF AcceptAndQueue
<1>2. /\ games' = games
      /\ pending' = {p \in pending : ~IsJobRow(c, p)} \cup {row}
      /\ shots' = shots \cup {shot}
  BY <1>0, <1>1 DEF AcceptAndQueue, RestOfQueue, RecordShot
<1>3. /\ len \in Nat /\ Len(states'[g]) = len + 1 /\ states'[g][len + 1] = st
      /\ \A n \in 1..len : states'[g][n] = states[g][n]
      /\ \A h \in Game \ {g} : states'[h] = states[h]
  BY <1>0, <1>1, RecordShotKeeps
<1>4. TurnsKept
  BY <1>1, <1>2, RecordShotKeepsTurns
<1>5. Exists(g, from) /\ from \in Nat
  BY <1>0, <1>1, <1>3 DEF Exists
<1>6. Exists(g, len + 1)' /\ TurnOf(g, len + 1)' = next
  BY <1>0, <1>1, <1>2, <1>3 DEF Exists, TurnOf, NextAgent
<1>7. \A p \in pending : p.game \in Game /\ p.state \in Nat
  BY DEF TypeOK, DatabaseOK, PendingRow
<1>8. \A s \in shots : s.game \in Game /\ s.prev \in Nat
  BY DEF TypeOK, DatabaseOK, ShotRow
<1>9. RowsRefer'
  <2>1. \A p \in pending' : Exists(p.game, p.state)' /\ p.agent = TurnOf(p.game, p.state)'
    BY <1>2, <1>4, <1>6, <1>7 DEF DatabaseInv, RowsRefer, TurnsKept
  <2>2. Exists(g, from)'
    BY <1>1, <1>4, <1>5 DEF TurnsKept
  <2>3. \A s \in shots' : Exists(s.game, s.prev)'
    BY <1>2, <1>4, <1>8, <2>2 DEF DatabaseInv, RowsRefer, TurnsKept
  <2>4. games[g].endReason # "unborn"
    BY <1>1, <1>5, Newborn DEF DatabaseInv
  <2>5. \A h \in Game : games'[h].endReason = "unborn" => states'[h] = <<>>
    BY <1>2, <1>3, <2>4 DEF DatabaseInv, RowsRefer
  <2> QED
    BY <2>1, <2>3, <2>5 DEF RowsRefer
<1>10. \A p \in pending : ~IsJobRow(c, p) => p.game # g
  BY <1>0 DEF AcceptAndQueue, GameIdFree, RestOfQueue
<1>11. \A p, q \in pending' : p.game = q.game => p = q
  BY <1>2, <1>10 DEF DatabaseInv, OpenGamesAreQueued
<1>12. ASSUME NEW h \in Game, Open(h)' PROVE \E p \in pending' : QueueRow(h, p)'
  <2>1. CASE h = g
    <3>1. row \in pending' /\ row.game = g /\ row.state = len + 1
          /\ row.agent = next
      BY <1>2
    <3>2. QueueRow(g, row)'
      BY <1>3, <1>6, <3>1 DEF QueueRow, TurnOf
    <3> QED
      BY <2>1, <3>1, <3>2
  <2>2. CASE h # g
    <3>1. PICK p \in pending : QueueRow(h, p)
      BY <1>2, <1>12 DEF DatabaseInv, OpenGamesAreQueued, Open
    <3>2. p \in pending'
      BY <1>0, <1>2, <2>2, <3>1 DEF QueueRow, IsJobRow
    <3> QED
      BY <1>2, <1>3, <2>2, <3>1, <3>2 DEF QueueRow, NextAgent
  <2> QED
    BY <2>1, <2>2
\* The row of an open game is the only one, so the shot is of its last state.
<1>13. Open(g) => from = len
  <2>1. SUFFICES ASSUME Open(g) PROVE from = len
    OBVIOUS
  <2>2. PICK p \in pending : QueueRow(g, p)
    BY <1>1, <2>1 DEF DatabaseInv, OpenGamesAreQueued
  <2> QED
    BY <1>0, <1>10, <2>2 DEF QueueRow, IsJobRow
<1>14. ASSUME NEW h \in Game, Open(h)' PROVE InSequence(h)'
  <2>1. Open(h) /\ InSequence(h)
    BY <1>2, <1>14 DEF DatabaseInv, OpenGamesInSequence, Open
  <2>2. \A s \in shots : s.game = h =>
          s.next = s.prev + 1 /\ s.agent = TurnOf(h, s.prev)'
    <3>1. \A s \in shots : s.game = h =>
            Exists(h, s.prev) /\ s.next = s.prev + 1 /\ s.agent = TurnOf(h, s.prev)
      BY <2>1 DEF DatabaseInv, RowsRefer, InSequence, TurnOf
    <3>2. \A s \in shots : s.game = h => TurnOf(h, s.prev)' = TurnOf(h, s.prev)
      BY <1>4, <1>8, <3>1 DEF TurnsKept
    <3> QED
      BY <3>1, <3>2
  <2>3. CASE h = g
    <3>1. shot.next = shot.prev + 1
      BY <1>13, <2>1, <2>3
    <3>2. shot.agent = TurnOf(g, shot.prev)'
      <4>1. AgentOf[c] = TurnOf(g, from)
        BY <1>0 DEF JobsRefer, JobRefers
      <4>2. TurnOf(g, from)' = TurnOf(g, from)
        BY <1>1, <1>4, <1>5 DEF TurnsKept
      <4> QED
        BY <4>1, <4>2
    <3>3. \A s \in shots' : s.game = h => /\ s.next = s.prev + 1
                                          /\ s.agent = TurnOf(h, s.prev)'
      BY <1>2, <2>2, <2>3, <3>1, <3>2
    <3>4. \A n \in 2..Len(states'[h]) : \E s \in shots' : s.game = h /\ s.next = n
      <4>1. ASSUME NEW n \in 2..Len(states'[h])
            PROVE  \E s \in shots' : s.game = h /\ s.next = n
        <5>1. CASE n = len + 1
          <6>1. shot \in shots' /\ shot.game = g /\ shot.next = len + 1
            BY <1>2
          <6> QED
            BY <2>3, <5>1, <6>1
        <5>2. CASE n # len + 1
          <6>1. n \in 2..len
            BY <1>3, <2>3, <4>1, <5>2
          <6>2. PICK s \in shots : s.game = g /\ s.next = n
            BY <1>0, <2>1, <2>3, <6>1 DEF InSequence
          <6> QED
            BY <1>2, <2>3, <6>2
        <5> QED
          BY <5>1, <5>2
      <4> QED
        BY <4>1
    <3> QED
      BY <3>3, <3>4 DEF InSequence, TurnOf
  <2>4. CASE h # g
    <3>1. \A s \in shots' : s.game = h => s \in shots
      BY <1>2, <2>4
    <3>2. shots \subseteq shots'
      BY <1>2
    <3> QED
      BY <1>2, <1>3, <2>1, <2>4, <3>1, <3>2 DEF InSequence, NextAgent
  <2> QED
    BY <2>3, <2>4
<1> QED
  BY <1>4, <1>9, <1>11, <1>12, <1>14
     DEF DatabaseInv, WriteOK, OpenGamesAreQueued, OpenGamesInSequence

\* A write that starts a game.
LEMMA NewGameWrite ==
  ASSUME TypeOK, DatabaseInv, NEW c \in Client, NEW g \in NextGame,
         NEW breaker \in Agent, NEW other, NewGame(c, g, breaker, other)
  PROVE  WriteOK /\ Exists(g, 1)'
<1> DEFINE row == [game |-> g, state |-> 1, agent |-> breaker,
                   sent |-> IF breaker = AgentOf[c] THEN "sent" ELSE "no"]
           first == [mover |-> "starter", turn |-> "shoot"]
<1>1. /\ g \in Game /\ games[g].endReason = "unborn"
      /\ states[g] = <<>> /\ \A n : ~Exists(g, n)
      /\ \A p \in pending : p.game # g
      /\ \A s \in shots : s.game # g
  BY Newborn DEF NextGame, DatabaseInv
<1>2. /\ games' = [games EXCEPT ![g] =
           [match |-> chosen[c], agent1 |-> breaker, agent2 |-> other,
            endReason |-> "open", winner |-> "none"]]
      /\ states' = [states EXCEPT ![g] = <<first>>]
      /\ pending' = pending \cup {row} /\ shots' = shots
  BY DEF NewGame
<1>3. /\ games'[g].agent1 = breaker /\ games'[g].endReason = "open"
      /\ states'[g] = <<first>>
      /\ \A h \in Game \ {g} : games'[h] = games[h] /\ states'[h] = states[h]
  BY <1>1, <1>2 DEF TypeOK, DatabaseOK
<1>4. Len(states'[g]) = 1 /\ states'[g][1] = first
  BY <1>3
<1>5. Exists(g, 1)' /\ TurnOf(g, 1)' = breaker
  BY <1>1, <1>3, <1>4 DEF Exists, TurnOf, NextAgent
<1>6. TurnsKept
  BY <1>1, <1>3 DEF TurnsKept, Exists, TurnOf, NextAgent
<1>7. \A p \in pending : p.game \in Game /\ p.state \in Nat
  BY DEF TypeOK, DatabaseOK, PendingRow
<1>8. \A s \in shots : s.game \in Game /\ s.prev \in Nat
  BY DEF TypeOK, DatabaseOK, ShotRow
<1>9. RowsRefer'
  <2>1. \A p \in pending' : Exists(p.game, p.state)' /\ p.agent = TurnOf(p.game, p.state)'
    BY <1>2, <1>5, <1>6, <1>7 DEF DatabaseInv, RowsRefer, TurnsKept
  <2>2. \A s \in shots' : Exists(s.game, s.prev)'
    BY <1>2, <1>6, <1>8 DEF DatabaseInv, RowsRefer, TurnsKept
  <2>3. \A h \in Game : games'[h].endReason = "unborn" => states'[h] = <<>>
    BY <1>3 DEF DatabaseInv, RowsRefer
  <2> QED
    BY <2>1, <2>2, <2>3 DEF RowsRefer
<1>10. \A p, q \in pending' : p.game = q.game => p = q
  BY <1>1, <1>2 DEF DatabaseInv, OpenGamesAreQueued
<1>11. ASSUME NEW h \in Game, Open(h)' PROVE \E p \in pending' : QueueRow(h, p)'
  <2>1. CASE h = g
    <3>1. row \in pending' /\ row.game = g /\ row.state = 1 /\ row.agent = breaker
      BY <1>2
    <3>2. QueueRow(g, row)'
      BY <1>4, <1>5, <3>1 DEF QueueRow, TurnOf
    <3> QED
      BY <2>1, <3>1, <3>2
  <2>2. CASE h # g
    <3>1. PICK p \in pending : QueueRow(h, p)
      BY <1>3, <1>11, <2>2 DEF DatabaseInv, OpenGamesAreQueued, Open
    <3> QED
      BY <1>2, <1>3, <2>2, <3>1 DEF QueueRow, NextAgent
  <2> QED
    BY <2>1, <2>2
<1>12. ASSUME NEW h \in Game, Open(h)' PROVE InSequence(h)'
  <2>1. CASE h = g
    BY <1>1, <1>2, <1>4, <2>1 DEF InSequence
  <2>2. CASE h # g
    <3>1. InSequence(h)
      BY <1>3, <1>12, <2>2 DEF DatabaseInv, OpenGamesInSequence, Open
    <3> QED
      BY <1>2, <1>3, <2>2, <3>1 DEF InSequence, NextAgent
  <2> QED
    BY <2>1, <2>2
<1> QED
  BY <1>5, <1>6, <1>9, <1>10, <1>11, <1>12
     DEF DatabaseInv, WriteOK, OpenGamesAreQueued, OpenGamesInSequence

-----------------------------------------------------------------------------
(***************************************************************************)
(* The requests                                                            *)
(***************************************************************************)

\* A step of the request of client c.
OthersWait(c) ==
  \A d \in Client \ {c} : pc'[d] = pc[d] /\ job'[d] = job[d] /\ chosen'[d] = chosen[d]

LEMMA JobsStep ==
  ASSUME TypeOK, JobsRefer, TurnsKept, NEW c \in Client, OthersWait(c), JobRefers(c)'
  PROVE  JobsRefer'
<1>1. ASSUME NEW d \in Client \ {c} PROVE JobRefers(d)'
  <2>1. JobRefers(d) /\ pc'[d] = pc[d] /\ job'[d] = job[d] /\ chosen'[d] = chosen[d]
    BY DEF JobsRefer, OthersWait
  <2>2. PICK j : j = job[d]
    OBVIOUS
  <2>3. j # NoJob => j.game \in Game /\ j.state \in Nat
    BY <2>2 DEF TypeOK, RequestOK
  <2>4. j # NoJob => /\ Exists(j.game, j.state)'
                     /\ TurnOf(j.game, j.state)' = TurnOf(j.game, j.state)
    BY <2>1, <2>2, <2>3 DEF JobRefers, TurnsKept
  <2> QED
    BY <2>1, <2>2, <2>4 DEF JobRefers
<1> QED
  BY <1>1 DEF JobsRefer

LEMMA IdleJobs ==
  ASSUME TypeOK, JobsRefer, TurnsKept, NEW c \in Client, BackToIdle(c)
  PROVE  JobsRefer'
<1>1. /\ job' = [job EXCEPT ![c] = NoJob] /\ pc' = [pc EXCEPT ![c] = "idle"]
      /\ chosen' = [chosen EXCEPT ![c] = None]
  BY DEF BackToIdle
<1>2. JobRefers(c)'
  BY <1>1 DEF JobRefers, TypeOK, RequestOK
<1>3. OthersWait(c)
  BY <1>1 DEF OthersWait, TypeOK, RequestOK
<1> QED
  BY <1>2, <1>3, JobsStep

\* A request that goes on with the job it has, not yet to submit it.
LEMMA SameJob ==
  ASSUME TypeOK, JobsRefer, TurnsKept, NEW c \in Client, NEW at,
         pc' = [pc EXCEPT ![c] = at], at # "submit", UNCHANGED job, OthersWait(c),
         at = "think" => job[c] # NoJob,
         at = "reply" /\ chosen'[c] = None => job[c] # NoJob
  PROVE  JobsRefer'
<1>1. PICK j : j = job[c]
  OBVIOUS
<1>2. j # NoJob => Exists(j.game, j.state) /\ j.game \in Game /\ j.state \in Nat
  BY <1>1 DEF JobsRefer, JobRefers, TypeOK, RequestOK
<1>3. j # NoJob => Exists(j.game, j.state)'
  BY <1>2 DEF TurnsKept
<1>4. pc'[c] = at /\ job'[c] = j
  BY <1>1 DEF TypeOK, RequestOK
<1>5. JobRefers(c)'
  BY <1>1, <1>3, <1>4 DEF JobRefers
<1> QED
  BY <1>5, JobsStep

\* A request that got the first shot of a new game.
LEMMA NewGameJobs ==
  ASSUME TypeOK, JobsRefer, TurnsKept, NEW c \in Client, NEW g \in Game,
         NEW breaker, NEW other, NewGame(c, g, breaker, other), Exists(g, 1)'
  PROVE  JobsRefer'
<1>1. /\ job'[c] = [game |-> g, state |-> 1] /\ pc'[c] = "think"
      /\ OthersWait(c)
  BY DEF NewGame, OthersWait, TypeOK, RequestOK
<1>2. job'[c] # NoJob
  BY <1>1 DEF NoJob
<1>3. JobRefers(c)'
  BY <1>1, <1>2 DEF JobRefers
<1> QED
  BY <1>1, <1>3, JobsStep

-----------------------------------------------------------------------------
(***************************************************************************)
(* The steps                                                               *)
(***************************************************************************)

RefersInv == JobsRefer /\ DatabaseInv

\* The steps of get_shot keep the invariant.
LEMMA GetShotKeeps ==
  ASSUME TypeOK, RefersInv, NEW c \in Client, GetShot(c) \/ GetShotStep(c)
  PROVE  RefersInv'
<1> USE DEF RefersInv, WriteOK
<1>1. CASE GetShot(c)
  <2>1. WriteOK
    BY <1>1, QuietWrite DEF GetShot
  <2>2. OthersWait(c)
    BY <1>1 DEF GetShot, OthersWait, TypeOK, RequestOK
  <2> QED
    BY <1>1, <2>1, <2>2, SameJob DEF GetShot
<1>2. CASE CleanupPendingShots(c)
  <2>1. ASSUME NEW g \in Game
        PROVE  /\ games'[g].endReason \in {games[g].endReason} \cup EndReason
               /\ games'[g].agent1 = games[g].agent1
               /\ games'[g].agent2 = games[g].agent2
    <3>1. games[g] \in GameRow
      BY DEF TypeOK, DatabaseOK
    <3>2. \/ games'[g] = games[g]
          \/ \E won : games'[g] = [games[g] EXCEPT !.endReason = "crashed", !.winner = won]
      BY <1>2 DEF CleanupPendingShots
    <3> QED
      BY <3>1, <3>2 DEF GameRow, EndReason
  <2>2. /\ PlayersKept /\ UNCHANGED shots
        /\ pending' = {p \in pending : games'[p.game].endReason = "open"}
    BY <1>2, <2>1 DEF CleanupPendingShots, PlayersKept
  <2>3. WriteOK
    BY <2>1, <2>2, EndingWrite
  <2>4. OthersWait(c)
    BY <1>2 DEF CleanupPendingShots, OthersWait, TypeOK, RequestOK
  <2> QED
    BY <1>2, <2>3, <2>4, SameJob DEF CleanupPendingShots
<1>3. CASE PickShot(c)
  <2>1. WriteOK
    BY <1>3, QuietWrite DEF PickShot
  <2>2. OthersWait(c) /\ pc'[c] = "pickMatch"
    BY <1>3 DEF PickShot, OthersWait, TypeOK, RequestOK
  <2>3. CASE UNCHANGED job
    BY <1>3, <2>1, <2>2, <2>3, SameJob DEF PickShot
  <2>4. CASE ~UNCHANGED job
    <3>1. PICK p \in pending : job' = [job EXCEPT ![c] = [game |-> p.game, state |-> p.state]]
      BY <1>3, <2>4 DEF PickShot, SelectPendingShot
    <3>2. Exists(p.game, p.state) /\ p.game \in Game /\ p.state \in Nat
      BY DEF DatabaseInv, RowsRefer, TypeOK, DatabaseOK, PendingRow
    <3>3. job'[c] = [game |-> p.game, state |-> p.state] /\ Exists(p.game, p.state)'
      BY <2>1, <3>1, <3>2 DEF TurnsKept, TypeOK, RequestOK
    <3>4. JobRefers(c)'
      BY <2>2, <3>3 DEF JobRefers
    <3> QED
      BY <2>1, <2>2, <3>4, JobsStep
  <2> QED
    BY <2>3, <2>4
<1>4. CASE PickMatch(c)
  <2>1. WriteOK
    BY <1>4, QuietWrite DEF PickMatch
  <2>2. CASE BackToIdle(c)
    BY <2>1, <2>2, IdleJobs
  <2>3. CASE ~BackToIdle(c)
    <3>1. /\ pc' = [pc EXCEPT ![c] = "reply"] /\ UNCHANGED job
          /\ \/ \E m \in Match : chosen' = [chosen EXCEPT ![c] = m]
             \/ job[c] # NoJob /\ UNCHANGED chosen
      BY <1>4, <2>3 DEF PickMatch, SelectPendingMatch
    <3>2. OthersWait(c)
      BY <3>1 DEF OthersWait, TypeOK, RequestOK
    <3>3. chosen'[c] = None => job[c] # NoJob
      BY <3>1, ConstantsAssumption DEF TypeOK, RequestOK
    <3> QED
      BY <2>1, <3>1, <3>2, <3>3, SameJob
  <2> QED
    BY <2>2, <2>3
<1>5. CASE SendShot(c)
  <2>1. PICK j : j = job[c]
    OBVIOUS
  <2> DEFINE stamp == [p \in pending |->
                         IF p.game = j.game /\ p.state = j.state /\ p.agent = AgentOf[c]
                         THEN [p EXCEPT !.sent = "sent"] ELSE p]
  <2>2. pending' = {stamp[p] : p \in pending}
    BY <1>5, <2>1 DEF SendShot
  <2>3. \A p \in pending : /\ stamp[p].game = p.game /\ stamp[p].state = p.state
                           /\ stamp[p].agent = p.agent
    BY DEF TypeOK, DatabaseOK, PendingRow
  <2>4. UNCHANGED <<games, states, shots>>
    BY <1>5 DEF SendShot
  <2>5. WriteOK
    <3> HIDE DEF stamp
    <3> QED
      BY <2>2, <2>3, <2>4, StampingWrite
  <2>6. OthersWait(c) /\ job[c] # NoJob
    BY <1>5 DEF SendShot, OthersWait, TypeOK, RequestOK, JobsRefer, JobRefers
  <2> QED
    BY <1>5, <2>5, <2>6, SameJob DEF SendShot
<1>6. CASE AddGameToMatch(c)
  <2>1. AgentOf[c] \in Agent
    BY ConstantsAssumption
  <2>2. PICK g, other : g \in NextGame /\ NewGame(c, g, AgentOf[c], other)
    BY <1>6 DEF AddGameToMatch
  <2>3. g \in Game /\ WriteOK /\ Exists(g, 1)'
    BY <2>1, <2>2, NewGameWrite DEF NextGame
  <2> QED
    BY <2>2, <2>3, NewGameJobs
<1>7. CASE AddGameToMatchSpecial(c)
  <2>1. chosen[c] \in Match
    BY <1>7 DEF AddGameToMatchSpecial, TypeOK, RequestOK
  <2>2. MatchRow[chosen[c]].agent1 \in Agent
    BY <2>1, ConstantsAssumption DEF MatchRows
  <2>3. PICK g \in NextGame : NewGame(c, g, MatchRow[chosen[c]].agent1, None)
    BY <1>7 DEF AddGameToMatchSpecial
  <2>4. g \in Game /\ WriteOK /\ Exists(g, 1)'
    BY <2>2, <2>3, NewGameWrite DEF NextGame
  <2> QED
    BY <2>3, <2>4, NewGameJobs
<1> QED
  BY <1>1, <1>2, <1>3, <1>4, <1>5, <1>6, <1>7 DEF GetShotStep

\* The steps of submit_shot, and its failures, keep the invariant.
LEMMA SubmitShotKeeps ==
  ASSUME TypeOK, RefersInv, NEW c \in Client,
         SubmitShot(c) \/ SubmitShotStep(c) \/ Dies(c)
  PROVE  RefersInv'
<1> USE DEF RefersInv, WriteOK
<1>1. CASE UNCHANGED database /\ BackToIdle(c)
  BY <1>1, QuietWrite, IdleJobs
<1>2. CASE SubmitShot(c)
  <2>1. CASE BackToIdle(c)
    BY <1>1, <1>2, <2>1 DEF SubmitShot
  <2>2. CASE ~BackToIdle(c)
    <3>1. PICK p \in pending : IsJobRow(c, p) /\ p.agent = AgentOf[c]
      BY <1>2, <2>2 DEF SubmitShot
    <3>2. PICK g, n : g = job[c].game /\ n = job[c].state
      OBVIOUS
    <3>3. /\ job[c] # NoJob /\ Exists(g, n) /\ g \in Game /\ n \in Nat
          /\ AgentOf[c] = TurnOf(g, n)
      <4>1. job[c] # NoJob
        BY <1>2 DEF SubmitShot, JobsRefer, JobRefers
      <4>2. job[c] \in [game: Game, state: Nat]
        BY <4>1 DEF TypeOK, RequestOK
      <4> QED
        BY <3>1, <3>2, <4>1, <4>2 DEF IsJobRow, DatabaseInv, RowsRefer
    <3>4. /\ WriteOK /\ UNCHANGED <<job, chosen>> /\ pc' = [pc EXCEPT ![c] = "submit"]
      BY <1>2, <2>2, QuietWrite DEF SubmitShot
    <3>5. Exists(g, n)' /\ AgentOf[c] = TurnOf(g, n)'
      BY <3>3, <3>4 DEF TurnsKept
    <3>6. JobRefers(c)'
      BY <3>2, <3>3, <3>4, <3>5 DEF JobRefers, TypeOK, RequestOK
    <3>7. OthersWait(c)
      BY <3>4 DEF OthersWait, TypeOK, RequestOK
    <3> QED
      BY <3>4, <3>6, <3>7, JobsStep
  <2> QED
    BY <2>1, <2>2
<1>3. CASE BadParams(c) \/ AcceptFails(c) \/ Dies(c)
  BY <1>1, <1>3 DEF BadParams, AcceptFails, Dies
<1>4. CASE Impossible(c)
  <2>1. WriteOK /\ OthersWait(c) /\ job[c] # NoJob
    BY <1>4, QuietWrite
       DEF Impossible, OthersWait, TypeOK, RequestOK, JobsRefer, JobRefers
  <2> QED
    BY <1>4, <2>1, SameJob DEF Impossible
<1>5. CASE ConcedeOrTimeout(c)
  <2>1. PICK g \in Game : g = job[c].game
    BY <1>5, ShooterSide DEF ConcedeOrTimeout
  <2>2. PICK reason, won : reason \in EndReason /\ EndGame(g, reason, won)
    BY <1>5, <2>1 DEF ConcedeOrTimeout, EndReason
  <2>3. /\ games'[g].endReason \in EndReason
        /\ \A h \in Game \ {g} : games'[h] = games[h]
        /\ \A h \in Game : /\ games'[h].agent1 = games[h].agent1
                           /\ games'[h].agent2 = games[h].agent2
    BY <2>2, EndGameKeeps
  <2>4. /\ PlayersKept /\ UNCHANGED shots
        /\ pending' = {p \in pending : ~IsJobRow(c, p)}
    BY <1>5, <2>3 DEF ConcedeOrTimeout, PlayersKept, RestOfQueue
  <2>5. \A p \in pending : games'[p.game].endReason = "open" => p \in pending'
    BY <2>1, <2>3, <2>4 DEF IsJobRow, EndReason
  <2>6. \A h \in Game : games'[h].endReason \in {games[h].endReason} \cup EndReason
    BY <2>3
  <2>7. WriteOK
    BY <2>4, <2>5, <2>6, EndingWrite
  <2> QED
    BY <1>5, <2>7, IdleJobs DEF ConcedeOrTimeout
<1>6. ASSUME NEW lost \in BOOLEAN, NEW t \in {"shoot", "win"}, AcceptAndQueue(c, lost, t)
      PROVE  RefersInv'
  BY <1>6, NextShotWrite, IdleJobs DEF AcceptAndQueue
<1>7. ASSUME NEW lost \in BOOLEAN, NEW t \in {"shoot", "win"}, AcceptAndEnd(c, lost, t)
      PROVE  RefersInv'
  <2>1. NewState(c, lost, t) \in StateRow
    BY <1>7, NewStateType DEF AcceptAndEnd
  <2>2. PICK reason, won :
          reason \in EndReason /\ EndGame(job[c].game, reason, won)
    BY <1>7 DEF AcceptAndEnd, EndReason
  <2> QED
    BY <1>7, <2>1, <2>2, LastShotWrite, IdleJobs DEF AcceptAndEnd
<1>8. ASSUME NEW t \in {"shoot", "win"}, AcceptLostTurn(c, t)
      PROVE  RefersInv'
  <2>1. NewState(c, TRUE, t) \in StateRow
    BY <1>8, NewStateType DEF AcceptLostTurn
  <2>2. EndGame(job[c].game, "lostTurn", Opponent(Shooter(c))) /\ "lostTurn" \in EndReason
    BY <1>8 DEF AcceptLostTurn, EndReason
  <2> QED
    BY <1>8, <2>1, <2>2, LastShotWrite, IdleJobs DEF AcceptLostTurn
<1> QED
  BY <1>2, <1>3, <1>4, <1>5, <1>6, <1>7, <1>8 DEF SubmitShotStep

\* Time keeps the invariant.
LEMMA HourKeeps ==
  ASSUME TypeOK, RefersInv, NEW p \in pending, HourPasses(p)
  PROVE  RefersInv'
<1> USE DEF RefersInv, WriteOK
<1> DEFINE stamp == [q \in pending |-> IF q = p THEN [p EXCEPT !.sent = "overdue"] ELSE q]
<1>1. pending' = {stamp[q] : q \in pending}
  BY DEF HourPasses
<1>2. \A q \in pending : /\ stamp[q].game = q.game /\ stamp[q].state = q.state
                         /\ stamp[q].agent = q.agent
  BY DEF TypeOK, DatabaseOK, PendingRow
<1>3. UNCHANGED <<games, states, shots, request>>
  BY DEF HourPasses
<1>4. WriteOK
  <2> HIDE DEF stamp
  <2> QED
    BY <1>1, <1>2, <1>3, StampingWrite
<1>5. ASSUME NEW c \in Client PROVE JobRefers(c)'
  <2>1. JobRefers(c) /\ UNCHANGED <<pc, job, chosen, games, states>>
    BY <1>3 DEF request, JobsRefer
  <2> QED
    BY <2>1 DEF JobRefers, Exists, TurnOf, NextAgent
<1> QED
  BY <1>4, <1>5 DEF JobsRefer

-----------------------------------------------------------------------------
(***************************************************************************)
(* The theorems                                                            *)
(***************************************************************************)

LEMMA InitInv == ASSUME Init PROVE IInv
<1>1. TypeOK
  <2>1. left \in [Match -> [1..2 -> Int]]
    BY ConstantsAssumption DEF Init, MatchRows
  <2>2. \A g \in Game : <<>> \in Seq(StateRow) /\ NoGame \in GameRow
    BY DEF NoGame, GameRow
  <2> QED
    BY <2>1, <2>2 DEF Init, TypeOK, DatabaseOK, RequestOK
<1>2. RowsRefer /\ JobsRefer
  BY DEF Init, RowsRefer, JobsRefer, JobRefers
<1>3. OpenGamesAreQueued /\ OpenGamesInSequence
  BY DEF Init, OpenGamesAreQueued, OpenGamesInSequence, Open, NoGame
<1> QED
  BY <1>1, <1>2, <1>3 DEF IInv

LEMMA StepInv == ASSUME IInv, [Next]_vars PROVE IInv'
<1>1. TypeOK /\ JobsRefer /\ RefersInv
  BY DEF IInv, RefersInv, DatabaseInv
<1>2. ASSUME NEW c \in Client, GetShot(c) \/ GetShotStep(c)
      PROVE  TypeOK' /\ RefersInv'
  BY <1>1, <1>2, GetShotTypes, GetShotKeeps
<1>3. ASSUME NEW c \in Client, SubmitShot(c) \/ SubmitShotStep(c) \/ Dies(c)
      PROVE  TypeOK' /\ RefersInv'
  BY <1>1, <1>3, SubmitShotTypes, SubmitShotKeeps
<1>4. ASSUME NEW p \in pending, HourPasses(p)
      PROVE  TypeOK' /\ RefersInv'
  BY <1>1, <1>4, HourTypes, HourKeeps
<1>5. ASSUME UNCHANGED vars PROVE TypeOK' /\ RefersInv'
  <2>1. UNCHANGED <<left, games, states, pending, shots, cache>>
    BY <1>5 DEF vars, database
  <2>2. UNCHANGED <<pc, overdue, job, chosen, tries>>
    BY <1>5 DEF vars, request
  <2>3. TypeOK'
    BY <1>1, <2>1, <2>2 DEF TypeOK, DatabaseOK, RequestOK
  <2>4. DatabaseInv'
    BY <1>1, <2>1, QuietWrite DEF RefersInv, WriteOK, database
  <2>5. JobsRefer'
    BY <1>1, <2>1, <2>2 DEF JobsRefer, JobRefers, Exists, TurnOf, NextAgent
  <2> QED
    BY <2>3, <2>4, <2>5 DEF RefersInv
<1>6. TypeOK' /\ RefersInv'
  BY <1>2, <1>3, <1>4, <1>5 DEF Next
<1> QED
  BY <1>6 DEF IInv, RefersInv, DatabaseInv

\* Every reachable state satisfies the inductive invariant.
THEOREM Invariance == Spec => []IInv
<1>1. Init => IInv
  BY InitInv
<1>2. IInv /\ [Next]_vars => IInv'
  BY StepInv
<1> QED
  BY <1>1, <1>2, PTL DEF Spec

\* Every table holds rows of its type, and every request is in a known place.
THEOREM TypeCorrect == Spec => []TypeOK
<1>1. IInv => TypeOK
  BY DEF IInv
<1> QED
  BY <1>1, Invariance, PTL

\* No game is lost: pendingshots holds exactly one row for each open game, for
\* its latest state and the agent whose turn it is, whatever the requests of any
\* number of clients do and wherever they die.
THEOREM GamesAreQueued == Spec => []OpenGamesAreQueued
<1>1. IInv => OpenGamesAreQueued
  BY DEF IInv
<1> QED
  BY <1>1, Invariance, PTL

\* The shots submit_shot has recorded for an open game are one sequence, each
\* by the agent whose turn it was, although a shot may be handed out twice.
THEOREM GamesInSequence == Spec => []OpenGamesInSequence
<1>1. IInv => OpenGamesInSequence
  BY DEF IInv
<1> QED
  BY <1>1, Invariance, PTL

-----------------------------------------------------------------------------
(***************************************************************************)
(* The results                                                             *)
(***************************************************************************)

\* A game that has a state has someone who breaks.
SomeoneBreaks == \A g \in Game : states[g] # <<>> => games[g].agent1 # None

\* A result the table has to show: only a shooter without opponent loses a game
\* by no more than the turn.
Shown(g) ==
  \/ games[g].endReason = "won"
  \/ games[g].endReason = "lost" /\ games[g].agent2 # None

ResultInv == IInv /\ SomeoneBreaks /\ ResultWitnessed

\* The states of a game only become more.
StatesGrow ==
  \A g \in Game : \A n \in 1..Len(states[g]) :
    n \in 1..Len(states'[g]) /\ states'[g][n] = states[g][n]

\* A step that keeps the players of all games.
GamesKeepPlayers ==
  \A g \in Game :
    /\ games'[g].agent1 = games[g].agent1 /\ games'[g].agent2 = games[g].agent2
    /\ states'[g] # <<>> => states[g] # <<>>

\* A step that decides no game as won or lost.
NoneDecided ==
  \A g \in Game : games'[g].endReason \in {"won", "lost"} =>
    games'[g].endReason = games[g].endReason /\ games'[g].winner = games[g].winner

\* What was witnessed stays so while the states become more.
LEMMA ResultStays ==
  ASSUME SomeoneBreaks, ResultWitnessed, StatesGrow, GamesKeepPlayers, NoneDecided
  PROVE  SomeoneBreaks' /\ ResultWitnessed'
<1>1. SomeoneBreaks'
  BY DEF SomeoneBreaks, GamesKeepPlayers
<1>2. ASSUME NEW g \in Game, Shown(g)'
      PROVE  \E i \in 1..Len(states'[g]) :
               states'[g][i] = [mover |-> games'[g].winner, turn |-> "win"]
  <2>1. PICK i \in 1..Len(states[g]) :
          states[g][i] = [mover |-> games[g].winner, turn |-> "win"]
    BY <1>2 DEF NoneDecided, GamesKeepPlayers, ResultWitnessed, Shown
  <2> QED
    BY <1>2, <2>1 DEF NoneDecided, StatesGrow, Shown
<1> QED
  BY <1>1, <1>2 DEF ResultWitnessed, Shown

\* A recorded shot adds a state.
LEMMA RecordShotGrows ==
  ASSUME TypeOK, JobsRefer, NEW c \in Client, pc[c] = "submit",
         NEW st \in StateRow, RecordShot(c, st)
  PROVE  StatesGrow
<1>1. SUFFICES ASSUME NEW g \in Game, NEW n \in 1..Len(states[g])
               PROVE  n \in 1..Len(states'[g]) /\ states'[g][n] = states[g][n]
  BY DEF StatesGrow
<1>2. Len(states[g]) \in Nat
  BY LenProperties DEF TypeOK, DatabaseOK
<1>3. CASE g = job[c].game
  <2>1. Len(states'[g]) = Len(states[g]) + 1 /\ states'[g][n] = states[g][n]
    BY <1>3, RecordShotKeeps
  <2> QED
    BY <1>2, <2>1
<1>4. CASE g # job[c].game
  BY <1>4, RecordShotKeeps
<1> QED
  BY <1>3, <1>4

\* A statement that writes neither games nor states.
LEMMA QuietResult ==
  ASSUME SomeoneBreaks, ResultWitnessed, UNCHANGED <<games, states>>
  PROVE  SomeoneBreaks' /\ ResultWitnessed'
BY DEF SomeoneBreaks, ResultWitnessed

\* A game that starts has someone who breaks.
LEMMA NewGameResult ==
  ASSUME TypeOK, RowsRefer, SomeoneBreaks, ResultWitnessed,
         NEW c \in Client, NEW g \in NextGame, chosen[c] \in Match,
         NEW breaker \in Agent, NEW other, NewGame(c, g, breaker, other)
  PROVE  SomeoneBreaks' /\ ResultWitnessed'
<1>1. g \in Game
  BY DEF NextGame
<1>2. /\ games'[g] = [match |-> chosen[c], agent1 |-> breaker, agent2 |-> other,
                      endReason |-> "open", winner |-> "none"]
      /\ \A h \in Game \ {g} : games'[h] = games[h] /\ states'[h] = states[h]
  BY <1>1 DEF NewGame, TypeOK, DatabaseOK
<1>3. breaker # None
  BY ConstantsAssumption
<1>4. SomeoneBreaks'
  <2>1. ASSUME NEW h \in Game, states'[h] # <<>> PROVE games'[h].agent1 # None
    <3>1. CASE h = g
      BY <1>2, <1>3, <3>1
    <3>2. CASE h # g
      BY <1>2, <2>1, <3>2 DEF SomeoneBreaks
    <3> QED
      BY <3>1, <3>2
  <2> QED
    BY <2>1 DEF SomeoneBreaks
<1>5. ResultWitnessed'
  BY <1>2 DEF ResultWitnessed
<1> QED
  BY <1>4, <1>5

\* The steps of get_shot decide no game.
LEMMA GetShotResult ==
  ASSUME ResultInv, NEW c \in Client, GetShot(c) \/ GetShotStep(c)
  PROVE  SomeoneBreaks' /\ ResultWitnessed'
<1>0. TypeOK /\ RowsRefer /\ SomeoneBreaks /\ ResultWitnessed
  BY DEF ResultInv, IInv
<1>1. CASE GetShot(c) \/ PickShot(c) \/ PickMatch(c) \/ SendShot(c)
  BY <1>0, <1>1, QuietResult DEF GetShot, PickShot, PickMatch, SendShot, database
<1>2. CASE CleanupPendingShots(c)
  <2>1. ASSUME NEW g \in Game
        PROVE  \/ games'[g] = games[g]
               \/ \E won : games'[g] = [games[g] EXCEPT !.endReason = "crashed",
                                                        !.winner = won]
    BY <1>2 DEF CleanupPendingShots
  <2>2. ASSUME NEW g \in Game PROVE games[g] \in GameRow
    BY <1>0 DEF TypeOK, DatabaseOK
  <2>3. states' = states
    BY <1>2 DEF CleanupPendingShots
  <2>4. GamesKeepPlayers /\ NoneDecided
    BY <2>1, <2>2, <2>3 DEF GamesKeepPlayers, NoneDecided, GameRow
  <2> QED
    BY <1>0, <2>3, <2>4, ResultStays DEF StatesGrow
<1>3. CASE AddGameToMatch(c) \/ AddGameToMatchSpecial(c)
  <2>1. PICK m \in Match : m = chosen[c]
    BY <1>0, <1>3 DEF AddGameToMatch, AddGameToMatchSpecial, TypeOK, RequestOK
  <2>2. MatchRow[m].agent1 \in Agent /\ AgentOf[c] \in Agent
    BY ConstantsAssumption DEF MatchRows
  <2>3. PICK g, breaker, other :
          g \in NextGame /\ breaker \in Agent /\ NewGame(c, g, breaker, other)
    BY <1>3, <2>1, <2>2 DEF AddGameToMatch, AddGameToMatchSpecial
  <2> QED
    BY <1>0, <2>1, <2>3, NewGameResult
<1> QED
  BY <1>1, <1>2, <1>3 DEF GetShotStep

\* A submission decides a game as won or lost only with the state that shows it.
LEMMA SubmitShotResult ==
  ASSUME ResultInv, NEW c \in Client, SubmitShot(c) \/ SubmitShotStep(c) \/ Dies(c)
  PROVE  SomeoneBreaks' /\ ResultWitnessed'
<1>0. TypeOK /\ JobsRefer /\ RowsRefer /\ SomeoneBreaks /\ ResultWitnessed
  BY DEF ResultInv, IInv
<1>1. PICK g, n : g = job[c].game /\ n = job[c].state
  OBVIOUS
<1>2. ASSUME pc[c] = "submit"
      PROVE  /\ g \in Game /\ n \in 1..Len(states[g]) /\ states[g] # <<>>
             /\ AgentOf[c] = NextAgent(g, states[g][n])
  <2>1. g \in Game /\ n \in 1..Len(states[g])
    BY <1>0, <1>1, <1>2, ShooterSide
  <2>2. AgentOf[c] = NextAgent(g, states[g][n])
    BY <1>0, <1>1, <1>2 DEF JobsRefer, JobRefers, TurnOf
  <2> QED
    BY <2>1, <2>2
<1>3. CASE SubmitShot(c) \/ BadParams(c) \/ Impossible(c) \/ AcceptFails(c) \/ Dies(c)
  BY <1>0, <1>3, QuietResult
     DEF SubmitShot, BadParams, Impossible, AcceptFails, Dies, database
<1>4. CASE ConcedeOrTimeout(c)
  <2>1. PICK reason, won : EndGame(g, reason, won) /\ reason \notin {"won", "lost"}
    BY <1>1, <1>4 DEF ConcedeOrTimeout
  <2>2. g \in Game /\ states' = states
    BY <1>2, <1>4 DEF ConcedeOrTimeout
  <2>3. GamesKeepPlayers /\ NoneDecided
    BY <1>0, <2>1, <2>2, EndGameKeeps DEF GamesKeepPlayers, NoneDecided
  <2> QED
    BY <1>0, <2>2, <2>3, ResultStays DEF StatesGrow
<1>5. ASSUME NEW lost \in BOOLEAN, NEW t \in {"shoot", "win"}, AcceptAndQueue(c, lost, t)
      PROVE  SomeoneBreaks' /\ ResultWitnessed'
  <2>1. pc[c] = "submit" /\ games' = games /\ RecordShot(c, NewState(c, lost, t))
    BY <1>5 DEF AcceptAndQueue
  <2>2. StatesGrow /\ \A h \in Game \ {g} : states'[h] = states[h]
    BY <1>0, <1>1, <2>1, NewStateType, RecordShotGrows, RecordShotKeeps
  <2>3. GamesKeepPlayers /\ NoneDecided
    BY <1>2, <2>1, <2>2 DEF GamesKeepPlayers, NoneDecided
  <2> QED
    BY <1>0, <2>2, <2>3, ResultStays
<1>6. ASSUME NEW lost \in BOOLEAN, NEW t \in {"shoot", "win"}, AcceptAndEnd(c, lost, t)
      PROVE  SomeoneBreaks' /\ ResultWitnessed'
  <2>1. PICK st, won :
          /\ st = NewState(c, lost, t) /\ won = st.mover
          /\ RecordShot(c, st) /\ NextAgent(g, st) = None
          /\ EndGame(g, IF lost THEN "lost" ELSE "won", won)
    BY <1>1, <1>6 DEF AcceptAndEnd, NewState
  <2>2. pc[c] = "submit" /\ st \in StateRow
    BY <1>0, <1>6, <2>1, NewStateType DEF AcceptAndEnd
  <2>3. StatesGrow /\ \A h \in Game \ {g} : states'[h] = states[h]
    BY <1>0, <1>1, <2>1, <2>2, RecordShotGrows, RecordShotKeeps
  <2>4. /\ games'[g].winner = won /\ (games'[g].endReason = IF lost THEN "lost" ELSE "won")
        /\ \A h \in Game \ {g} : games'[h] = games[h]
        /\ \A h \in Game : /\ games'[h].agent1 = games[h].agent1
                           /\ games'[h].agent2 = games[h].agent2
    BY <1>0, <1>2, <2>1, <2>2, EndGameKeeps
  \* Nobody is to shoot: either the position is won, or it would be the turn of
  \* a player there is not, who then could not have taken this shot either.
  <2>5. Shown(g)' => t = "win"
    <3>1. SUFFICES ASSUME Shown(g)', t # "win" PROVE FALSE
      OBVIOUS
    <3>2. st.turn # "win" /\ games[g].agent1 # None
      BY <1>0, <1>2, <2>1, <2>2, <3>1 DEF NewState, SomeoneBreaks
    <3>3. st.mover # "starter" /\ games[g].agent2 = None
      BY <2>1, <3>2 DEF NextAgent
    <3>4. ~lost
      BY <1>2, <2>2, <2>4, <3>1, <3>3 DEF Shown
    <3>5. states[g][n].mover # "starter"
      BY <1>1, <2>1, <3>3, <3>4 DEF NewState, Shooter
    <3>6. AgentOf[c] = None
      BY <1>2, <2>2, <3>3, <3>5 DEF NextAgent
    <3> QED
      BY <3>6, ConstantsAssumption
  <2>6. Shown(g)' => st = [mover |-> won, turn |-> "win"]
    BY <2>1, <2>5 DEF NewState
  <2>7. Shown(g)' => \E i \in 1..Len(states'[g]) : states'[g][i] = [mover |-> won, turn |-> "win"]
    <3>1. /\ Len(states[g]) \in Nat /\ Len(states'[g]) = Len(states[g]) + 1
          /\ states'[g][Len(states[g]) + 1] = st
      BY <1>0, <1>1, <2>1, <2>2, RecordShotKeeps
    <3>2. Len(states[g]) + 1 \in 1..Len(states'[g])
      BY <3>1
    <3> QED
      BY <2>6, <3>1, <3>2
  <2>8. SomeoneBreaks'
    BY <1>0, <1>2, <2>2, <2>3, <2>4 DEF SomeoneBreaks
  <2>9. ResultWitnessed'
    <3>1. ASSUME NEW h \in Game, Shown(h)'
          PROVE  \E i \in 1..Len(states'[h]) :
                   states'[h][i] = [mover |-> games'[h].winner, turn |-> "win"]
      <4>1. CASE h = g
        BY <2>4, <2>7, <3>1, <4>1
      <4>2. CASE h # g
        BY <1>0, <2>3, <2>4, <3>1, <4>2 DEF ResultWitnessed, Shown
      <4> QED
        BY <4>1, <4>2
    <3> QED
      BY <3>1 DEF ResultWitnessed, Shown
  <2> QED
    BY <2>8, <2>9
<1>7. ASSUME NEW t \in {"shoot", "win"}, AcceptLostTurn(c, t)
      PROVE  SomeoneBreaks' /\ ResultWitnessed'
  <2>1. /\ pc[c] = "submit" /\ RecordShot(c, NewState(c, TRUE, t))
        /\ EndGame(g, "lostTurn", Opponent(Shooter(c)))
    BY <1>1, <1>7 DEF AcceptLostTurn
  <2>2. StatesGrow /\ \A h \in Game \ {g} : states'[h] = states[h]
    BY <1>0, <1>1, <2>1, NewStateType, RecordShotGrows, RecordShotKeeps
  <2>3. GamesKeepPlayers /\ NoneDecided
    BY <1>0, <1>2, <2>1, <2>2, EndGameKeeps DEF GamesKeepPlayers, NoneDecided
  <2> QED
    BY <1>0, <2>2, <2>3, ResultStays
<1> QED
  BY <1>3, <1>4, <1>5, <1>6, <1>7 DEF SubmitShotStep

\* A game that submit_shot records as won, or as lost against an opponent, has a
\* state that shows it, won by its winner, whatever get_shot, cleanups and
\* repeated submissions of shared agents do.
THEOREM ResultsAreWitnessed == Spec => []ResultWitnessed
<1>1. Init => ResultInv
  BY InitInv DEF Init, ResultInv, SomeoneBreaks, ResultWitnessed, NoGame
<1>2. ResultInv /\ [Next]_vars => ResultInv'
  <2>1. SUFFICES ASSUME ResultInv, [Next]_vars PROVE SomeoneBreaks' /\ ResultWitnessed'
    BY StepInv DEF ResultInv
  <2>2. SomeoneBreaks /\ ResultWitnessed
    BY <2>1 DEF ResultInv
  <2>3. CASE UNCHANGED vars
    BY <2>2, <2>3, QuietResult DEF vars, database
  <2>4. ASSUME NEW p \in pending, HourPasses(p) PROVE SomeoneBreaks' /\ ResultWitnessed'
    BY <2>2, <2>4, QuietResult DEF HourPasses
  <2> QED
    BY <2>1, <2>3, <2>4, GetShotResult, SubmitShotResult DEF Next
<1>3. ResultInv => ResultWitnessed
  BY DEF ResultInv
<1> QED
  BY <1>1, <1>2, <1>3, PTL DEF Spec
=============================================================================
