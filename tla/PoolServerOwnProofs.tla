-------------------------- MODULE PoolServerOwnProofs --------------------------
(***************************************************************************)
(* Proofs of what PoolServer promises to undisputed matches, those between *)
(* agents with one client each that answers within the hour: a shot is     *)
(* computed by one client, its result is recorded once, and what is over   *)
(* stays as it is.  Other agents of the same server may have many clients, *)
(* and be late: what they do stays within their own games.                 *)
(*                                                                         *)
(* The invariant is OwnInv.  Its heart is JobsOwned: from the choice of a  *)
(* shot to its submission the row of the shot stays in pendingshots,       *)
(* because only the client of the row's agent can take it away.            *)
(***************************************************************************)
EXTENDS PoolServerProofs

Born(g) == games[g].endReason # "unborn"

\* A game of another kind of match.
DisputedGame(g) == Born(g) /\ ~UndisputedGame(g)

\* A used game id is of a match and its players; an unused one is blank.
PlayersOf(m) == {MatchRow[m].agent1, MatchRow[m].agent2, None}
GamesHavePlayers ==
  \A g \in Game :
    \/ games[g] = NoGame
    \/ /\ Born(g) /\ games[g].match \in Match
       /\ games[g].agent1 \in PlayersOf(games[g].match)
       /\ games[g].agent2 \in PlayersOf(games[g].match)

\* Only disputed games are overdue, or were when a cleanup looked.
OverdueDisputed ==
  /\ \A p \in pending : p.sent = "overdue" => DisputedGame(p.game)
  /\ \A c \in Client : \A p \in overdue[c] : p.game \in Game /\ DisputedGame(p.game)

\* The rows of undisputed games are of games that have not ended.
RowsOpen == \A p \in pending : UndisputedGame(p.game) => Open(p.game)

\* Row p asks for the shot client c has selected or works on.
OwnRow(c, p) == IsJobRow(c, p) /\ p.agent = AgentOf[c]

\* A client that has a shot of an undisputed game has its row.
JobOwned(c) ==
  job[c] # NoJob /\ UndisputedGame(job[c].game) => \E p \in pending : OwnRow(c, p)
JobsOwned == \A c \in Client : JobOwned(c)

\* A client that is about to start a game of a match is one of its players, and
\* if the match is undisputed it still has a game to break there.
ChoiceOwned(c) ==
  chosen[c] # None =>
    /\ pc[c] = "reply"
    /\ \E i \in 1..2 : /\ BreaksCounted(chosen[c], i) = AgentOf[c]
                       /\ chosen[c] \in Undisputed => left[chosen[c]][i] > 0
ChoicesOwned == \A c \in Client : ChoiceOwned(c)

\* Agent 2 breaks no game of an undisputed experiment.
ExperimentsOwned ==
  \A m \in Undisputed :
    MatchRow[m].special /\ MatchRow[m].agent2 # None => left[m][2] <= 0

Owned ==
  /\ GamesHavePlayers /\ OverdueDisputed /\ RowsOpen
  /\ JobsOwned /\ ChoicesOwned /\ ExperimentsOwned

OwnInv == IInv /\ Owned /\ GamesAreSequences

\* What a step may not do to an undisputed game that has ended.
EndedKept ==
  \A g \in Game : UndisputedGame(g) /\ Ended(g) =>
    games'[g] = games[g] /\ states'[g] = states[g]

\* A step that starts no game and changes the match and the players of none.
GamesGoOn ==
  \A g \in Game :
    \/ games'[g] = games[g]
    \/ /\ Born(g) /\ Born(g)'
       /\ games'[g].match = games[g].match
       /\ games'[g].agent1 = games[g].agent1 /\ games'[g].agent2 = games[g].agent2

\* A step that leaves games that were started before with their matches.
MatchesStay == \A g \in Game : Born(g) => Born(g)' /\ games'[g].match = games[g].match

-----------------------------------------------------------------------------
(***************************************************************************)
(* Rows and their owners                                                   *)
(***************************************************************************)

\* What rows and shots are of was started.
LEMMA RowBorn ==
  ASSUME TypeOK, RowsRefer, NEW p \in pending PROVE p.game \in Game /\ Born(p.game)
BY Newborn DEF TypeOK, DatabaseOK, PendingRow, Born

LEMMA JobBorn ==
  ASSUME TypeOK, RowsRefer, JobsRefer, NEW c \in Client, job[c] # NoJob
  PROVE  job[c].game \in Game /\ Born(job[c].game)
<1>1. PICK g, n : g = job[c].game /\ n = job[c].state
  OBVIOUS
<1>2. Exists(g, n)
  BY <1>1 DEF JobsRefer, JobRefers
<1> QED
  BY <1>1, <1>2, Newborn DEF Exists, Born

\* Games that go on keep all that is said of matches and players.
LEMMA GoingOn ==
  ASSUME GamesHavePlayers, GamesGoOn
  PROVE  GamesHavePlayers' /\ MatchesStay
<1>1. ASSUME NEW g \in Game
      PROVE  \/ games'[g] = NoGame
             \/ /\ Born(g)' /\ games'[g].match \in Match
                /\ games'[g].agent1 \in PlayersOf(games'[g].match)
                /\ games'[g].agent2 \in PlayersOf(games'[g].match)
  BY DEF GamesHavePlayers, GamesGoOn, Born, NoGame
<1> QED
  BY <1>1 DEF GamesHavePlayers, GamesGoOn, MatchesStay, Born, PlayersOf

\* A started game stays disputed or undisputed.
LEMMA StaysUndisputed ==
  ASSUME MatchesStay, NEW g \in Game, Born(g)
  PROVE  (UndisputedGame(g)' <=> UndisputedGame(g)) /\ (DisputedGame(g)' <=> DisputedGame(g))
BY DEF MatchesStay, UndisputedGame, DisputedGame

\* The row of an undisputed game is for a punctual agent.
LEMMA RowPunctual ==
  ASSUME OwnInv, NEW p \in pending, UndisputedGame(p.game) PROVE Punctual(p.agent)
<1>1. p.game \in Game /\ Born(p.game) /\ p.agent \in Agent
  BY RowBorn DEF OwnInv, IInv, TypeOK, DatabaseOK, PendingRow
<1>2. p.agent \in {games[p.game].agent1, games[p.game].agent2}
  <2>1. p.agent = NextAgent(p.game, states[p.game][p.state])
    BY DEF OwnInv, IInv, RowsRefer, TurnOf
  <2> QED
    BY <1>1, <2>1, ConstantsAssumption DEF NextAgent
<1>3. games[p.game] # NoGame
  BY <1>1 DEF Born, NoGame
<1>4. p.agent \in PlayersOf(games[p.game].match)
  BY <1>1, <1>2, <1>3 DEF OwnInv, Owned, GamesHavePlayers
<1>5. \A i \in 1..2 : Punctual(BreaksCounted(games[p.game].match, i))
  BY DEF UndisputedGame, Undisputed
<1> QED
  BY <1>1, <1>4, <1>5, ConstantsAssumption DEF PlayersOf, BreaksCounted

\* The shot of a client in an undisputed game is the next one of a game that has
\* not ended, and its row is the only one of the game.
LEMMA OwnShot ==
  ASSUME OwnInv, NEW c \in Client, job[c] # NoJob, UndisputedGame(job[c].game)
  PROVE  /\ Open(job[c].game) /\ job[c].state = Len(states[job[c].game])
         /\ \A q \in pending : q.game = job[c].game => OwnRow(c, q)
<1>1. PICK p \in pending : OwnRow(c, p)
  BY DEF OwnInv, Owned, JobsOwned, JobOwned
<1>2. p.game = job[c].game /\ p.state = job[c].state
  BY <1>1 DEF OwnRow, IsJobRow
<1>3. p.game \in Game /\ Open(p.game)
  BY <1>2 DEF OwnInv, Owned, RowsOpen, IInv, TypeOK, DatabaseOK, PendingRow
<1>4. \A q \in pending : q.game = p.game => q = p
  BY DEF OwnInv, IInv, OpenGamesAreQueued
<1>5. p.state = Len(states[p.game])
  BY <1>3, <1>4 DEF OwnInv, IInv, OpenGamesAreQueued, QueueRow
<1> QED
  BY <1>1, <1>2, <1>3, <1>4, <1>5

\* A client that submits has a shot, of a game that was started.
LEMMA SubmitterHasShot ==
  ASSUME OwnInv, NEW c \in Client, pc[c] = "submit"
  PROVE  job[c] # NoJob /\ job[c].game \in Game /\ Born(job[c].game)
BY JobBorn DEF OwnInv, IInv, JobsRefer, JobRefers

\* The row of an undisputed game is one client's.
LEMMA OneOwner ==
  ASSUME OwnInv, NEW p \in pending, UndisputedGame(p.game),
         NEW c \in Client, OwnRow(c, p), NEW d \in Client, OwnRow(d, p)
  PROVE  c = d
BY RowPunctual DEF OwnRow, Punctual

\* The row of another client is not the row of this one.
LEMMA OthersRow ==
  ASSUME OwnInv, NEW c \in Client, job[c] # NoJob,
         NEW d \in Client \ {c}, NEW p \in pending, OwnRow(d, p), UndisputedGame(p.game)
  PROVE  ~IsJobRow(c, p)
<1>1. SUFFICES ASSUME IsJobRow(c, p) PROVE FALSE
  OBVIOUS
<1>2. OwnRow(c, p)
  BY <1>1, OwnShot DEF IsJobRow
<1> QED
  BY <1>2, OneOwner

\* A client that goes back to its loop leaves the others alone.
LEMMA IdleOwn ==
  ASSUME TypeOK, NEW c \in Client, BackToIdle(c)
  PROVE  /\ OthersWait(c) /\ job'[c] = NoJob /\ chosen'[c] = None
         /\ \A d \in Client : overdue'[d] \subseteq overdue[d]
         /\ JobOwned(c)' /\ ChoiceOwned(c)'
<1>1. /\ OthersWait(c) /\ job'[c] = NoJob /\ chosen'[c] = None
      /\ \A d \in Client : overdue'[d] \subseteq overdue[d]
  BY DEF TypeOK, RequestOK, BackToIdle, OthersWait
<1> QED
  BY <1>1 DEF JobOwned, ChoiceOwned

\* The other clients keep their rows when each row that is not this client's
\* stays, stamped or not.
LEMMA JobsOwnedStep ==
  ASSUME OwnInv, MatchesStay, NEW c \in Client, OthersWait(c), JobOwned(c)',
         \A p \in pending : UndisputedGame(p.game) =>
           \/ job[c] # NoJob /\ IsJobRow(c, p)
           \/ \E q \in pending' : q.game = p.game /\ q.state = p.state /\ q.agent = p.agent
  PROVE  JobsOwned'
<1>1. ASSUME NEW d \in Client \ {c} PROVE JobOwned(d)'
  <2>1. job'[d] = job[d]
    BY DEF OthersWait
  <2>2. PICK h : h = job[d].game
    OBVIOUS
  <2>3. SUFFICES ASSUME job[d] # NoJob, UndisputedGame(h)'
                 PROVE \E q \in pending' : OwnRow(d, q)'
    BY <2>1, <2>2 DEF JobOwned
  <2>4. UndisputedGame(h)
    BY <2>2, <2>3, JobBorn, StaysUndisputed DEF OwnInv, IInv
  <2>5. PICK p \in pending : OwnRow(d, p)
    BY <2>2, <2>3, <2>4 DEF OwnInv, Owned, JobsOwned, JobOwned
  <2>6. UndisputedGame(p.game)
    BY <2>2, <2>4, <2>5 DEF OwnRow, IsJobRow
  <2>7. ~(job[c] # NoJob /\ IsJobRow(c, p))
    BY <2>5, <2>6, OthersRow
  <2>8. PICK q \in pending' : q.game = p.game /\ q.state = p.state /\ q.agent = p.agent
    BY <2>6, <2>7
  <2> QED
    BY <2>1, <2>5, <2>8 DEF OwnRow, IsJobRow
<1> QED
  BY <1>1 DEF JobsOwned

\* The other clients keep their choices while the counters of their agents stay.
LEMMA ChoicesStep ==
  ASSUME OwnInv, NEW c \in Client, OthersWait(c), ChoiceOwned(c)',
         \A m \in Undisputed, i \in 1..2 :
           BreaksCounted(m, i) # AgentOf[c] => left'[m][i] = left[m][i]
  PROVE  ChoicesOwned'
<1>1. ASSUME NEW d \in Client \ {c} PROVE ChoiceOwned(d)'
  <2>1. pc'[d] = pc[d] /\ chosen'[d] = chosen[d]
    BY DEF OthersWait
  <2>2. PICK m : m = chosen[d]
    OBVIOUS
  <2>3. SUFFICES ASSUME m # None
                 PROVE  /\ pc[d] = "reply"
                        /\ \E i \in 1..2 : /\ BreaksCounted(m, i) = AgentOf[d]
                                           /\ m \in Undisputed => left'[m][i] > 0
    BY <2>1, <2>2 DEF ChoiceOwned, BreaksCounted, Undisputed, Punctual
  <2>4. PICK i \in 1..2 : /\ pc[d] = "reply"
                          /\ BreaksCounted(m, i) = AgentOf[d]
                          /\ m \in Undisputed => left[m][i] > 0
    BY <2>2, <2>3 DEF OwnInv, Owned, ChoicesOwned, ChoiceOwned
  <2>5. m \in Undisputed => AgentOf[d] # AgentOf[c]
    BY <2>4 DEF Undisputed, Punctual
  <2> QED
    BY <2>4, <2>5
<1> QED
  BY <1>1 DEF ChoicesOwned

\* What was overdue of disputed games stays so when nothing else becomes overdue.
LEMMA OverdueStep ==
  ASSUME OwnInv, MatchesStay,
         \A d \in Client : overdue'[d] \subseteq overdue[d],
         \A q \in pending' : q.sent = "overdue" =>
           \E p \in pending : p.game = q.game /\ p.sent = "overdue"
  PROVE  OverdueDisputed'
<1>1. ASSUME NEW q \in pending', q.sent = "overdue" PROVE DisputedGame(q.game)'
  <2>1. PICK p \in pending : p.game = q.game /\ p.sent = "overdue"
    BY <1>1
  <2>2. p.game \in Game /\ Born(p.game) /\ DisputedGame(p.game)
    BY <2>1, RowBorn DEF OwnInv, IInv, Owned, OverdueDisputed
  <2> QED
    BY <2>1, <2>2, StaysUndisputed
<1>2. ASSUME NEW d \in Client, NEW p \in overdue'[d]
      PROVE  p.game \in Game /\ DisputedGame(p.game)'
  <2>1. p.game \in Game /\ DisputedGame(p.game)
    BY DEF OwnInv, Owned, OverdueDisputed
  <2> QED
    BY <2>1, StaysUndisputed DEF DisputedGame
<1> QED
  BY <1>1, <1>2 DEF OverdueDisputed

-----------------------------------------------------------------------------
(***************************************************************************)
(* The kinds of steps                                                      *)
(***************************************************************************)

Kept == Owned' /\ GamesAreSequences' /\ EndedKept

\* No game that goes on becomes disputed or undisputed.
LEMMA SameUndisputed ==
  ASSUME GamesGoOn, NEW g \in Game PROVE UndisputedGame(g)' <=> UndisputedGame(g)
BY DEF GamesGoOn, UndisputedGame

\* A step that leaves undisputed games alone, and the rows of all games theirs.
LEMMA RowsStep ==
  ASSUME OwnInv, GamesGoOn, UNCHANGED <<left, states, shots>>,
         \A g \in Game : UndisputedGame(g) => games'[g] = games[g],
         \A q \in pending' : \E p \in pending : p.game = q.game,
         OverdueDisputed', JobsOwned', ChoicesOwned'
  PROVE  Kept
<1>1. GamesHavePlayers'
  BY GoingOn DEF OwnInv, Owned
<1>2. RowsOpen'
  <2>1. ASSUME NEW q \in pending', UndisputedGame(q.game)' PROVE Open(q.game)'
    <3>1. PICK p \in pending : p.game = q.game
      OBVIOUS
    <3>2. p.game \in Game
      BY RowBorn DEF OwnInv, IInv
    <3>3. UndisputedGame(p.game) /\ Open(p.game)
      BY <2>1, <3>1, <3>2, SameUndisputed DEF OwnInv, Owned, RowsOpen
    <3> QED
      BY <3>1, <3>2, <3>3 DEF Open
  <2> QED
    BY <2>1 DEF RowsOpen
<1>3. ExperimentsOwned'
  BY DEF OwnInv, Owned, ExperimentsOwned, Undisputed, BreaksCounted, Punctual
<1>4. GamesAreSequences'
  <2>1. ASSUME NEW h \in Game, UndisputedGame(h)' PROVE InSequence(h)'
    <3>1. UndisputedGame(h) /\ InSequence(h)
      BY <2>1, SameUndisputed DEF OwnInv, GamesAreSequences
    <3>2. games'[h] = games[h] /\ states'[h] = states[h] /\ shots' = shots
      BY <3>1
    <3> QED
      BY <3>1, <3>2 DEF InSequence, NextAgent
  <2> QED
    BY <2>1 DEF GamesAreSequences
<1>5. EndedKept
  BY DEF EndedKept
<1> QED
  BY <1>1, <1>2, <1>3, <1>4, <1>5 DEF Kept, Owned

\* A step of a request that writes nothing.
LEMMA QuietOwn ==
  ASSUME OwnInv, NEW c \in Client,
         UNCHANGED <<left, games, states, pending, shots>>, OthersWait(c),
         JobOwned(c)', ChoiceOwned(c)', \A d \in Client : overdue'[d] \subseteq overdue[d]
  PROVE  Kept
<1>1. GamesGoOn /\ MatchesStay
  BY DEF GamesGoOn, MatchesStay, Born
<1>2. JobsOwned'
  BY <1>1, JobsOwnedStep
<1>3. ChoicesOwned'
  BY ChoicesStep
<1>4. OverdueDisputed'
  BY <1>1, OverdueStep
<1> QED
  BY <1>1, <1>2, <1>3, <1>4, RowsStep

\* A step that ends the request and writes nothing.
LEMMA QuietEndOwn ==
  ASSUME OwnInv, NEW c \in Client, UNCHANGED database, BackToIdle(c)
  PROVE  Kept
<1>1. UNCHANGED <<left, games, states, pending, shots>>
  BY DEF database
<1> QED
  BY <1>1, IdleOwn, QuietOwn DEF OwnInv, IInv

\* The shot of a submission continues the sequence of its game.
LEMMA ShotExtends ==
  ASSUME OwnInv, NEW c \in Client, pc[c] = "submit",
         NEW st \in StateRow, RecordShot(c, st), GamesGoOn
  PROVE  GamesAreSequences'
<1>1. PICK g, n : g = job[c].game /\ n = job[c].state
  OBVIOUS
<1>2. TypeOK /\ JobsRefer /\ RowsRefer
  BY DEF OwnInv, IInv
<1>3. g \in Game /\ n \in 1..Len(states[g]) /\ (UndisputedGame(g) => n = Len(states[g]))
  BY <1>1, <1>2, SubmitterHasShot, OwnShot, ShooterSide
<1>4. /\ Len(states[g]) \in Nat /\ Len(states'[g]) = Len(states[g]) + 1
      /\ \A h \in Game \ {g} : states'[h] = states[h]
  BY <1>1, <1>2, RecordShotKeeps
<1>5. PICK shot :
        /\ shots' = shots \cup {shot}
        /\ shot = [game |-> g, agent |-> AgentOf[c], prev |-> n, next |-> Len(states[g]) + 1]
  BY <1>1 DEF RecordShot
<1>6. TurnsKept
  BY <1>2, RecordShotKeepsTurns DEF GamesGoOn
<1>7. \A s \in shots : s.game \in Game /\ s.prev \in Nat /\ Exists(s.game, s.prev)
  BY <1>2 DEF TypeOK, DatabaseOK, ShotRow, RowsRefer
<1>8. ASSUME NEW h \in Game, UndisputedGame(h)' PROVE InSequence(h)'
  <2>0. UndisputedGame(h)
    BY <1>8, SameUndisputed
  <2>1. InSequence(h)
    BY <2>0 DEF OwnInv, GamesAreSequences
  <2>2. \A s \in shots : s.game = h => s.next = s.prev + 1 /\ s.agent = TurnOf(h, s.prev)'
    BY <1>6, <1>7, <2>1 DEF InSequence, TurnsKept, TurnOf
  <2>3. CASE h = g
    <3>0. n = Len(states[g]) /\ n \in Nat
      BY <1>3, <1>4, <2>0, <2>3
    <3>1. shot.agent = TurnOf(g, n)'
      <4>1. AgentOf[c] = TurnOf(g, n)
        BY <1>1, <1>2 DEF JobsRefer, JobRefers
      <4>2. TurnOf(g, n)' = TurnOf(g, n)
        BY <1>3, <1>4, <1>6 DEF TurnsKept, Exists
      <4> QED
        BY <1>5, <4>1, <4>2
    <3>2. \A s \in shots' : s.game = h => s.next = s.prev + 1 /\ s.agent = TurnOf(h, s.prev)'
      BY <1>5, <2>2, <2>3, <3>0, <3>1
    <3>3. ASSUME NEW k \in 2..Len(states'[h])
          PROVE  \E s \in shots' : s.game = h /\ s.next = k
      <4>1. CASE k = n + 1
        BY <1>5, <2>3, <3>0, <4>1
      <4>2. CASE k # n + 1
        <5>1. k \in 2..Len(states[h])
          BY <1>4, <2>3, <3>0, <3>3, <4>2
        <5> QED
          BY <1>5, <2>1, <5>1 DEF InSequence
      <4> QED
        BY <4>1, <4>2
    <3> QED
      BY <3>2, <3>3 DEF InSequence, TurnOf
  <2>4. CASE h # g
    <3>1. states'[h] = states[h] /\ \A s \in shots' : s.game = h => s \in shots
      BY <1>4, <1>5, <2>4
    <3> QED
      BY <1>5, <2>1, <2>2, <3>1 DEF InSequence, TurnOf
  <2> QED
    BY <2>3, <2>4
<1> QED
  BY <1>8 DEF GamesAreSequences

\* endgame starts no game and keeps the players of all.
LEMMA EndGameGoesOn ==
  ASSUME TypeOK, NEW g \in Game, Born(g), NEW reason, reason # "unborn", NEW won,
         EndGame(g, reason, won)
  PROVE  GamesGoOn
BY EndGameKeeps DEF GamesGoOn, Born

\* A submission that ends its game takes all rows of an undisputed game with it.
LEMMA EndOwn ==
  ASSUME OwnInv, NEW c \in Client, pc[c] = "submit", BackToIdle(c),
         UNCHANGED left, pending' = RestOfQueue(c),
         NEW reason, reason # "unborn", NEW won, EndGame(job[c].game, reason, won),
         \A h \in Game \ {job[c].game} : states'[h] = states[h]
  PROVE  Owned' /\ EndedKept /\ GamesGoOn
<1>1. PICK g : g = job[c].game
  OBVIOUS
<1>2. TypeOK /\ job[c] # NoJob /\ g \in Game /\ Born(g)
  BY <1>1, SubmitterHasShot DEF OwnInv, IInv
<1>3. UndisputedGame(g) => Open(g) /\ \A q \in pending : q.game = g => IsJobRow(c, q)
  BY <1>1, <1>2, OwnShot DEF OwnRow
<1>4. \A h \in Game \ {g} : games'[h] = games[h] /\ states'[h] = states[h]
  BY <1>1, <1>2, EndGameKeeps
<1>5. GamesGoOn
  BY <1>1, <1>2, EndGameGoesOn
<1>6. GamesHavePlayers' /\ MatchesStay
  BY <1>5, GoingOn DEF OwnInv, Owned
<1>7. /\ OthersWait(c) /\ JobOwned(c)' /\ ChoiceOwned(c)'
      /\ \A d \in Client : overdue'[d] \subseteq overdue[d]
  BY <1>2, IdleOwn
<1>8. pending' = {p \in pending : ~IsJobRow(c, p)}
  BY DEF RestOfQueue
<1>9. JobsOwned'
  BY <1>2, <1>6, <1>7, <1>8, JobsOwnedStep
<1>10. ChoicesOwned'
  BY <1>7, ChoicesStep
<1>11. OverdueDisputed'
  BY <1>6, <1>7, <1>8, OverdueStep
<1>12. ExperimentsOwned'
  BY DEF OwnInv, Owned, ExperimentsOwned, Undisputed, BreaksCounted, Punctual
<1>13. RowsOpen'
  <2>1. ASSUME NEW p \in pending', UndisputedGame(p.game)' PROVE games'[p.game].endReason = "open"
    <3>1. p \in pending /\ ~IsJobRow(c, p) /\ p.game \in Game
      BY <1>2, <1>8 DEF TypeOK, DatabaseOK, PendingRow
    <3>2. UndisputedGame(p.game) /\ Open(p.game)
      BY <1>5, <2>1, <3>1, SameUndisputed DEF OwnInv, Owned, RowsOpen
    <3>3. p.game # g
      BY <1>3, <3>1, <3>2
    <3> QED
      BY <1>4, <3>1, <3>2, <3>3 DEF Open
  <2> QED
    BY <2>1 DEF RowsOpen, Open
<1>14. EndedKept
  BY <1>2, <1>3, <1>4 DEF EndedKept, Ended, Open, EndReason
<1> QED
  BY <1>5, <1>6, <1>9, <1>10, <1>11, <1>12, <1>13, <1>14 DEF Owned

\* A new game of an undisputed match belongs to the client that asked for it.
LEMMA NewGameOwn ==
  ASSUME OwnInv, NEW c \in Client, NEW g \in NextGame,
         NEW m \in Match, m = chosen[c],
         NEW breaker \in {MatchRow[m].agent1, MatchRow[m].agent2},
         NEW other \in PlayersOf(m), NewGame(c, g, breaker, other),
         m \in Undisputed => breaker = AgentOf[c],
         \A n \in Undisputed, i \in 1..2 :
           /\ BreaksCounted(n, i) # AgentOf[c] => left'[n][i] = left[n][i]
           /\ left'[n][i] \in Int /\ left'[n][i] <= left[n][i]
  PROVE  Kept
<1>1. TypeOK /\ RowsRefer
  BY DEF OwnInv, IInv
<1>2. /\ g \in Game /\ games[g].endReason = "unborn" /\ states[g] = <<>>
      /\ \A p \in pending : p.game # g
      /\ \A s \in shots : s.game # g
  BY <1>1, Newborn DEF NextGame
<1>3. PICK row :
        /\ row.game = g /\ row.state = 1 /\ row.agent = breaker /\ row.sent # "overdue"
        /\ pending' = pending \cup {row}
  <2>1. PICK row :
          /\ row = [game |-> g, state |-> 1, agent |-> breaker,
                    sent |-> IF breaker = AgentOf[c] THEN "sent" ELSE "no"]
          /\ pending' = pending \cup {row}
    BY DEF NewGame
  <2> QED
    BY <2>1
<1>4. /\ games'[g] = [match |-> m, agent1 |-> breaker, agent2 |-> other,
                      endReason |-> "open", winner |-> "none"]
      /\ Len(states'[g]) = 1
      /\ \A h \in Game \ {g} : games'[h] = games[h] /\ states'[h] = states[h]
      /\ shots' = shots
  BY <1>1, <1>2 DEF NewGame, TypeOK, DatabaseOK
<1>5. /\ job'[c] = [game |-> g, state |-> 1] /\ chosen'[c] = None /\ overdue' = overdue
      /\ OthersWait(c)
  BY <1>1 DEF NewGame, OthersWait, TypeOK, RequestOK
<1>6. MatchesStay
  BY <1>2, <1>4 DEF MatchesStay, Born
<1>7. JobOwned(c)' /\ ChoiceOwned(c)'
  <2>1. UndisputedGame(g)' => m \in Undisputed
    BY <1>4 DEF UndisputedGame, Undisputed, Punctual, BreaksCounted
  <2> QED
    BY <1>3, <1>5, <2>1 DEF JobOwned, ChoiceOwned, OwnRow, IsJobRow
<1>8. JobsOwned'
  BY <1>3, <1>5, <1>6, <1>7, JobsOwnedStep
<1>9. ChoicesOwned'
  BY <1>5, <1>7, ChoicesStep
<1>10. OverdueDisputed'
  BY <1>3, <1>5, <1>6, OverdueStep
<1>11. GamesHavePlayers'
  <2>1. ASSUME NEW h \in Game
        PROVE  \/ games'[h] = NoGame
               \/ /\ Born(h)' /\ games'[h].match \in Match
                  /\ games'[h].agent1 \in PlayersOf(games'[h].match)
                  /\ games'[h].agent2 \in PlayersOf(games'[h].match)
    <3>1. CASE h = g
      BY <1>4, <3>1 DEF Born, PlayersOf
    <3>2. CASE h # g
      BY <1>4, <3>2 DEF OwnInv, Owned, GamesHavePlayers, Born
    <3> QED
      BY <3>1, <3>2
  <2> QED
    BY <2>1 DEF GamesHavePlayers, PlayersOf
<1>12. RowsOpen'
  <2>1. ASSUME NEW p \in pending', UndisputedGame(p.game)' PROVE games'[p.game].endReason = "open"
    <3>1. CASE p = row
      BY <1>3, <1>4, <3>1
    <3>2. CASE p # row
      <4>1. p \in pending /\ p.game \in Game \ {g} /\ Born(p.game)
        BY <1>1, <1>2, <1>3, <3>2, RowBorn
      <4>2. UndisputedGame(p.game)
        BY <1>6, <2>1, <4>1, StaysUndisputed
      <4> QED
        BY <1>4, <4>1, <4>2 DEF OwnInv, Owned, RowsOpen, Open
    <3> QED
      BY <3>1, <3>2
  <2> QED
    BY <2>1 DEF RowsOpen, Open
<1>13. ExperimentsOwned'
  <2>1. ASSUME NEW n \in Undisputed, MatchRow[n].special, MatchRow[n].agent2 # None
        PROVE  left'[n][2] <= 0
    <3>1. left[n][2] <= 0 /\ left[n][2] \in Int
      BY <1>1, <2>1 DEF OwnInv, Owned, ExperimentsOwned, TypeOK, DatabaseOK, Undisputed
    <3>2. left'[n][2] \in Int /\ left'[n][2] <= left[n][2]
      OBVIOUS
    <3> QED
      BY <3>1, <3>2
  <2> QED
    BY <2>1 DEF ExperimentsOwned, Undisputed, BreaksCounted, Punctual
<1>14. GamesAreSequences'
  <2>1. ASSUME NEW h \in Game, UndisputedGame(h)' PROVE InSequence(h)'
    <3>1. CASE h = g
      <4>1. \A s \in shots' : s.game # h
        BY <1>2, <1>4, <3>1
      <4>2. Len(states'[h]) = 1
        BY <1>4, <3>1
      <4> QED
        BY <4>1, <4>2 DEF InSequence
    <3>2. CASE h # g
      <4>1. games'[h] = games[h] /\ states'[h] = states[h] /\ shots' = shots
        BY <1>4, <3>2
      <4>2. InSequence(h)
        BY <2>1, <4>1
           DEF OwnInv, GamesAreSequences, UndisputedGame, Undisputed, BreaksCounted, Punctual
      <4> QED
        BY <4>1, <4>2 DEF InSequence, NextAgent
    <3> QED
      BY <3>1, <3>2
  <2> QED
    BY <2>1 DEF GamesAreSequences
<1>15. EndedKept
  BY <1>2, <1>4 DEF EndedKept, Ended, EndReason
<1> QED
  BY <1>8, <1>9, <1>10, <1>11, <1>12, <1>13, <1>14, <1>15 DEF Kept, Owned

\* A client that keeps its job keeps its row while the rows of undisputed games
\* stay, stamped or not.
LEMMA JobKept ==
  ASSUME OwnInv, MatchesStay, NEW c \in Client, job'[c] = job[c],
         \A p \in pending : UndisputedGame(p.game) =>
           \E q \in pending' : q.game = p.game /\ q.state = p.state /\ q.agent = p.agent
  PROVE  JobOwned(c)'
<1>1. PICK h : h = job[c].game
  OBVIOUS
<1>2. SUFFICES ASSUME job[c] # NoJob, UndisputedGame(h)' PROVE \E q \in pending' : OwnRow(c, q)'
  BY <1>1 DEF JobOwned
<1>3. UndisputedGame(h)
  BY <1>1, <1>2, JobBorn, StaysUndisputed DEF OwnInv, IInv
<1>4. PICK p \in pending : OwnRow(c, p)
  BY <1>1, <1>2, <1>3 DEF OwnInv, Owned, JobsOwned, JobOwned
<1>5. PICK q \in pending' : q.game = p.game /\ q.state = p.state /\ q.agent = p.agent
  BY <1>1, <1>3, <1>4 DEF OwnRow, IsJobRow
<1> QED
  BY <1>4, <1>5 DEF OwnRow, IsJobRow

-----------------------------------------------------------------------------
(***************************************************************************)
(* The steps                                                               *)
(***************************************************************************)

\* Who starts the game of an undisputed experiment breaks it.
LEMMA ExperimentBreaker ==
  ASSUME OwnInv, NEW c \in Client, NEW m \in Undisputed, m = chosen[c], MatchRow[m].special
  PROVE  MatchRow[m].agent1 = AgentOf[c]
<1>1. m \in Match /\ m # None
  BY ConstantsAssumption DEF Undisputed
<1>2. PICK i \in 1..2 : BreaksCounted(m, i) = AgentOf[c] /\ left[m][i] > 0
  BY <1>1 DEF OwnInv, Owned, ChoicesOwned, ChoiceOwned
<1>3. SUFFICES ASSUME i # 1 PROVE FALSE
  BY <1>1, <1>2 DEF BreaksCounted
<1>4. i = 2 /\ MatchRow[m].agent2 = AgentOf[c]
  BY <1>2, <1>3 DEF BreaksCounted
<1>5. MatchRow[m].agent2 # None
  BY <1>4, ConstantsAssumption
<1>6. left[m][2] <= 0 /\ left[m][2] \in Int
  BY <1>1, <1>5 DEF OwnInv, Owned, ExperimentsOwned, IInv, TypeOK, DatabaseOK
<1> QED
  BY <1>2, <1>4, <1>6

\* A match is chosen because the agent has a game to break there.
LEMMA ChosenMatch ==
  ASSUME NEW a, NEW m \in SelectPendingMatch(a)
  PROVE  m \in Match /\ \E i \in 1..2 : BreaksCounted(m, i) = a /\ left[m][i] > 0
<1>1. m \in Match /\ WantsNewGame(m, a)
  BY DEF SelectPendingMatch
<1>2. CASE left[m][1] > 0 /\ MatchRow[m].agent1 = a
  BY <1>1, <1>2 DEF BreaksCounted
<1>3. CASE left[m][2] > 0 /\ MatchRow[m].agent2 = a
  BY <1>1, <1>3 DEF BreaksCounted
<1> QED
  BY <1>1, <1>2, <1>3 DEF WantsNewGame

\* A cleanup ends disputed games only.
LEMMA CleanupOwn ==
  ASSUME OwnInv, NEW c \in Client, CleanupPendingShots(c)
  PROVE  Kept /\ GamesGoOn /\ \A g \in Game : UndisputedGame(g) => games'[g] = games[g]
<1>0. TypeOK /\ RowsRefer /\ ChoiceOwned(c) /\ GamesHavePlayers
  BY DEF OwnInv, IInv, Owned, ChoicesOwned
<1>1. ASSUME NEW g \in Game
      PROVE  \/ games'[g] = games[g]
             \/ /\ DisputedGame(g)
                /\ \E won : games'[g] = [games[g] EXCEPT !.endReason = "crashed",
                                                         !.winner = won]
  <2>1. \A p \in overdue[c] : DisputedGame(p.game)
    BY DEF OwnInv, Owned, OverdueDisputed
  <2> QED
    BY <2>1 DEF CleanupPendingShots
<1>2. \A g \in Game : games[g] \in GameRow
  BY <1>0 DEF TypeOK, DatabaseOK
<1>3. GamesGoOn /\ \A g \in Game : UndisputedGame(g) => games'[g] = games[g]
  <2>1. ASSUME NEW g \in Game
        PROVE  /\ UndisputedGame(g) => games'[g] = games[g]
               /\ \/ games'[g] = games[g]
                  \/ /\ Born(g) /\ Born(g)'
                     /\ games'[g].match = games[g].match
                     /\ games'[g].agent1 = games[g].agent1
                     /\ games'[g].agent2 = games[g].agent2
    BY <1>1, <1>2 DEF GameRow, Born, DisputedGame
  <2> QED
    BY <2>1 DEF GamesGoOn
<1>4. MatchesStay
  BY <1>0, <1>3, GoingOn
<1>5. pending' \subseteq pending /\ \A p \in pending : UndisputedGame(p.game) => p \in pending'
  <2>1. \A p \in pending : UndisputedGame(p.game) => games'[p.game].endReason = "open"
    BY <1>0, <1>3, RowBorn DEF OwnInv, Owned, RowsOpen, Open
  <2> QED
    BY <2>1 DEF CleanupPendingShots
<1>6. /\ UNCHANGED <<left, states, shots, job, chosen>> /\ OthersWait(c)
      /\ \A d \in Client : overdue'[d] \subseteq overdue[d]
  BY <1>0 DEF CleanupPendingShots, OthersWait, TypeOK, RequestOK
<1>7. ChoiceOwned(c)'
  BY <1>0, <1>6 DEF CleanupPendingShots, ChoiceOwned
<1>8. JobsOwned' /\ ChoicesOwned'
  BY <1>4, <1>5, <1>6, <1>7, JobKept, JobsOwnedStep, ChoicesStep
<1>9. OverdueDisputed'
  BY <1>4, <1>5, <1>6, OverdueStep
<1>10. Kept
  BY <1>3, <1>5, <1>6, <1>8, <1>9, RowsStep
<1> QED
  BY <1>3, <1>10

\* The steps of get_shot.
LEMMA GetShotOwn ==
  ASSUME OwnInv, NEW c \in Client, GetShot(c) \/ GetShotStep(c)
  PROVE  Kept
<1>0. TypeOK /\ JobOwned(c) /\ ChoiceOwned(c)
  BY DEF OwnInv, IInv, Owned, JobsOwned, ChoicesOwned
<1>1. CASE GetShot(c)
  <2>1. /\ UNCHANGED <<left, games, states, pending, shots, job, chosen>>
        /\ pc[c] = "idle" /\ overdue' = [overdue EXCEPT ![c] = Overdue]
    BY <1>1 DEF GetShot, database
  <2>2. OthersWait(c) /\ \A d \in Client : overdue'[d] = IF d = c THEN Overdue ELSE overdue[d]
    BY <1>0, <1>1, <2>1 DEF GetShot, OthersWait, TypeOK, RequestOK
  <2>3. GamesGoOn /\ MatchesStay
    BY <2>1 DEF GamesGoOn, MatchesStay, Born
  <2>4. ChoiceOwned(c)'
    BY <1>0, <2>1 DEF ChoiceOwned
  <2>5. JobsOwned' /\ ChoicesOwned'
    BY <2>1, <2>2, <2>3, <2>4, JobKept, JobsOwnedStep, ChoicesStep
  <2>6. OverdueDisputed'
    <3>1. \A p \in pending : p.sent = "overdue" => p.game \in Game /\ DisputedGame(p.game)
      BY RowBorn DEF OwnInv, IInv, Owned, OverdueDisputed
    <3>2. \A d \in Client : \A p \in overdue'[d] : p.game \in Game /\ DisputedGame(p.game)
      BY <2>2, <3>1 DEF Overdue, OwnInv, Owned, OverdueDisputed
    <3>3. \A g \in Game : DisputedGame(g) => DisputedGame(g)'
      BY <2>3, StaysUndisputed DEF DisputedGame
    <3> QED
      BY <2>1, <3>1, <3>2, <3>3 DEF OverdueDisputed
  <2> QED
    BY <2>1, <2>3, <2>5, <2>6, RowsStep
<1>2. CASE CleanupPendingShots(c)
  BY <1>2, CleanupOwn
<1>3. CASE PickShot(c)
  <2>1. /\ UNCHANGED <<left, games, states, pending, shots, chosen>>
        /\ OthersWait(c) /\ \A d \in Client : overdue'[d] \subseteq overdue[d]
    BY <1>0, <1>3 DEF PickShot, database, OthersWait, TypeOK, RequestOK
  <2>2. ChoiceOwned(c)'
    BY <1>0, <1>3, <2>1 DEF PickShot, ChoiceOwned
  <2>3. JobOwned(c)'
    <3>1. CASE UNCHANGED job
      BY <2>1, <3>1, JobKept DEF MatchesStay, Born
    <3>2. CASE ~UNCHANGED job
      <4>1. PICK p \in pending :
              /\ p.agent = AgentOf[c]
              /\ job' = [job EXCEPT ![c] = [game |-> p.game, state |-> p.state]]
        BY <1>3, <3>2 DEF PickShot, SelectPendingShot
      <4>2. job'[c] = [game |-> p.game, state |-> p.state]
        BY <1>0, <4>1 DEF TypeOK, RequestOK
      <4> QED
        BY <2>1, <4>1, <4>2 DEF JobOwned, OwnRow, IsJobRow
    <3> QED
      BY <3>1, <3>2
  <2> QED
    BY <2>1, <2>2, <2>3, QuietOwn
<1>4. CASE PickMatch(c)
  <2>1. CASE BackToIdle(c)
    BY <1>4, <2>1, QuietEndOwn DEF PickMatch
  <2>2. CASE ~BackToIdle(c)
    <3>1. /\ UNCHANGED <<left, games, states, pending, shots, overdue, job>>
          /\ pc' = [pc EXCEPT ![c] = "reply"]
          /\ \/ \E m \in SelectPendingMatch(AgentOf[c]) : chosen' = [chosen EXCEPT ![c] = m]
             \/ UNCHANGED chosen
      BY <1>4, <2>2 DEF PickMatch, database
    <3>2. OthersWait(c)
      BY <1>0, <3>1 DEF OthersWait, TypeOK, RequestOK
    <3>3. JobOwned(c)'
      BY <3>1, JobKept DEF MatchesStay, Born
    <3>4. ChoiceOwned(c)'
      <4>1. pc'[c] = "reply"
        BY <1>0, <3>1 DEF TypeOK, RequestOK
      <4>2. CASE UNCHANGED chosen
        BY <1>0, <3>1, <4>1, <4>2
           DEF ChoiceOwned, BreaksCounted, Undisputed, Punctual
      <4>3. ASSUME NEW m \in SelectPendingMatch(AgentOf[c]),
                   chosen' = [chosen EXCEPT ![c] = m]
            PROVE  ChoiceOwned(c)'
        <5>1. chosen'[c] = m
          BY <1>0, <4>3 DEF TypeOK, RequestOK
        <5>2. \E i \in 1..2 : BreaksCounted(m, i) = AgentOf[c] /\ left[m][i] > 0
          BY ChosenMatch
        <5> QED
          BY <3>1, <4>1, <5>1, <5>2 DEF ChoiceOwned, BreaksCounted
      <4> QED
        BY <3>1, <4>2, <4>3
    <3> QED
      BY <3>1, <3>2, <3>3, <3>4, QuietOwn
  <2> QED
    BY <2>1, <2>2
<1>5. CASE SendShot(c)
  <2>1. /\ UNCHANGED <<left, games, states, shots, overdue, job, chosen>>
        /\ OthersWait(c) /\ chosen[c] = None
    BY <1>0, <1>5 DEF SendShot, OthersWait, TypeOK, RequestOK
  <2>2. \A p \in pending : /\ [p EXCEPT !.sent = "sent"].game = p.game
                           /\ [p EXCEPT !.sent = "sent"].state = p.state
                           /\ [p EXCEPT !.sent = "sent"].agent = p.agent
                           /\ [p EXCEPT !.sent = "sent"].sent = "sent"
    BY <1>0 DEF TypeOK, DatabaseOK, PendingRow
  <2>3. /\ \A p \in pending : \E q \in pending' :
             q.game = p.game /\ q.state = p.state /\ q.agent = p.agent
        /\ \A q \in pending' : \E p \in pending :
             q.game = p.game /\ (q.sent = p.sent \/ q.sent = "sent")
    BY <1>5, <2>2 DEF SendShot
  <2>4. GamesGoOn /\ MatchesStay
    BY <2>1 DEF GamesGoOn, MatchesStay, Born
  <2>5. ChoiceOwned(c)'
    BY <1>0, <2>1 DEF ChoiceOwned
  <2>6. JobsOwned' /\ ChoicesOwned'
    BY <2>1, <2>3, <2>4, <2>5, JobKept, JobsOwnedStep, ChoicesStep
  <2>7. OverdueDisputed'
    BY <2>1, <2>3, <2>4, OverdueStep
  <2> QED
    BY <2>1, <2>3, <2>4, <2>6, <2>7, RowsStep
<1>6. CASE AddGameToMatch(c)
  <2>1. PICK m \in Match : m = chosen[c]
    BY <1>0, <1>6 DEF AddGameToMatch, TypeOK, RequestOK
  <2>2. m # None
    BY <2>1, ConstantsAssumption
  <2>3. AgentOf[c] \in {MatchRow[m].agent1, MatchRow[m].agent2}
    BY <1>0, <2>1, <2>2 DEF ChoiceOwned, BreaksCounted
  <2>4. PICK g, other : /\ g \in NextGame /\ other \in PlayersOf(m)
                        /\ NewGame(c, g, AgentOf[c], other)
    BY <1>6, <2>1 DEF AddGameToMatch, PlayersOf
  <2>5. left' = [left EXCEPT ![m] = [i \in 1..2 |-> IF BreaksCounted(m, i) = AgentOf[c]
                                                    THEN left[m][i] - 1 ELSE left[m][i]]]
    BY <1>0, <1>6, <2>1 DEF AddGameToMatch, BreaksCounted, TypeOK, DatabaseOK
  <2>6. \A n \in Undisputed, i \in 1..2 :
           /\ BreaksCounted(n, i) # AgentOf[c] => left'[n][i] = left[n][i]
           /\ left'[n][i] \in Int /\ left'[n][i] <= left[n][i]
    BY <1>0, <2>5 DEF TypeOK, DatabaseOK, Undisputed
  <2> QED
    BY <2>1, <2>3, <2>4, <2>6, NewGameOwn
<1>7. CASE AddGameToMatchSpecial(c)
  <2>1. PICK m \in Match : m = chosen[c]
    BY <1>0, <1>7 DEF AddGameToMatchSpecial, TypeOK, RequestOK
  <2>2. m \in Undisputed => MatchRow[m].agent1 = AgentOf[c]
    BY <1>7, <2>1, ExperimentBreaker DEF AddGameToMatchSpecial
  <2>3. PICK g \in NextGame : NewGame(c, g, MatchRow[m].agent1, None)
    BY <1>7, <2>1 DEF AddGameToMatchSpecial
  <2>4. left' = [left EXCEPT ![m] = [left[m] EXCEPT ![1] = left[m][1] - 1]]
    BY <1>0, <1>7, <2>1 DEF AddGameToMatchSpecial, TypeOK, DatabaseOK
  <2>5. \A n \in Undisputed, i \in 1..2 :
           /\ BreaksCounted(n, i) # AgentOf[c] => left'[n][i] = left[n][i]
           /\ left'[n][i] \in Int /\ left'[n][i] <= left[n][i]
    BY <1>0, <2>2, <2>4 DEF TypeOK, DatabaseOK, BreaksCounted, Undisputed
  <2>6. None \in PlayersOf(m)
    BY DEF PlayersOf
  <2> QED
    BY <2>1, <2>2, <2>3, <2>5, <2>6, NewGameOwn
<1> QED
  BY <1>1, <1>2, <1>3, <1>4, <1>5, <1>6, <1>7 DEF GetShotStep

\* The steps of submit_shot, and its failures.
LEMMA SubmitShotOwn ==
  ASSUME OwnInv, NEW c \in Client, SubmitShot(c) \/ SubmitShotStep(c) \/ Dies(c)
  PROVE  Kept
<1>0. /\ TypeOK /\ JobsRefer /\ ChoiceOwned(c)
      /\ pc[c] = "submit" => job[c].game \in Game /\ Born(job[c].game)
  BY SubmitterHasShot DEF OwnInv, IInv, Owned, ChoicesOwned
<1>1. PICK g : g = job[c].game
  OBVIOUS
\* The request keeps its row.
<1>2. ASSUME UNCHANGED <<database, overdue, job, chosen>>, chosen[c] = None,
             OthersWait(c)
      PROVE  Kept
  <2>1. UNCHANGED <<left, games, states, pending, shots, overdue, job, chosen>>
    BY <1>2 DEF database
  <2>2. JobOwned(c)' /\ ChoiceOwned(c)'
    BY <1>2, <2>1, JobKept DEF MatchesStay, Born, ChoiceOwned
  <2> QED
    BY <1>2, <2>1, <2>2, QuietOwn
<1>3. CASE SubmitShot(c)
  <2>1. CASE BackToIdle(c)
    BY <1>3, <2>1, QuietEndOwn DEF SubmitShot
  <2>2. CASE ~BackToIdle(c)
    <3>1. UNCHANGED <<database, overdue, job, chosen>> /\ pc' = [pc EXCEPT ![c] = "submit"]
      BY <1>3, <2>2 DEF SubmitShot
    <3>2. chosen[c] = None /\ OthersWait(c)
      BY <1>0, <1>3, <3>1
         DEF SubmitShot, ChoiceOwned, OthersWait, TypeOK, RequestOK
    <3> QED
      BY <1>2, <3>1, <3>2
  <2> QED
    BY <2>1, <2>2
<1>4. CASE BadParams(c) \/ AcceptFails(c) \/ Dies(c)
  BY <1>4, QuietEndOwn DEF BadParams, AcceptFails, Dies
<1>5. CASE Impossible(c)
  <2>1. chosen[c] = None /\ OthersWait(c)
    BY <1>0, <1>5 DEF Impossible, ChoiceOwned, OthersWait, TypeOK, RequestOK
  <2> QED
    BY <1>2, <1>5, <2>1 DEF Impossible
<1>6. CASE ConcedeOrTimeout(c)
  <2>1. PICK reason, won : reason # "unborn" /\ EndGame(g, reason, won)
    BY <1>1, <1>6 DEF ConcedeOrTimeout
  <2>2. Owned' /\ EndedKept /\ GamesGoOn
    BY <1>1, <1>6, <2>1, EndOwn DEF ConcedeOrTimeout
  <2>3. states' = states /\ shots' = shots
    BY <1>6 DEF ConcedeOrTimeout
  <2>4. GamesAreSequences'
    <3>1. ASSUME NEW h \in Game, UndisputedGame(h)' PROVE InSequence(h)'
      <4>1. InSequence(h)
        BY <2>2, <3>1, SameUndisputed DEF OwnInv, GamesAreSequences
      <4>2. games'[h].agent1 = games[h].agent1 /\ games'[h].agent2 = games[h].agent2
        BY <2>2 DEF GamesGoOn
      <4> QED
        BY <2>3, <4>1, <4>2 DEF InSequence, NextAgent
    <3> QED
      BY <3>1 DEF GamesAreSequences
  <2> QED
    BY <2>2, <2>4 DEF Kept
<1>7. ASSUME NEW lost \in BOOLEAN, NEW t \in {"shoot", "win"}, AcceptAndEnd(c, lost, t)
      PROVE  Kept
  <2>1. PICK st, reason, won :
          /\ st \in StateRow /\ RecordShot(c, st)
          /\ reason # "unborn" /\ EndGame(g, reason, won)
    BY <1>0, <1>1, <1>7, NewStateType DEF AcceptAndEnd
  <2>2. /\ pc[c] = "submit" /\ BackToIdle(c) /\ UNCHANGED left
        /\ pending' = RestOfQueue(c)
    BY <1>7 DEF AcceptAndEnd
  <2>3. \A h \in Game \ {g} : states'[h] = states[h]
    BY <1>0, <1>1, <2>1, <2>2, RecordShotKeeps
  <2>4. Owned' /\ EndedKept /\ GamesGoOn
    BY <1>1, <2>1, <2>2, <2>3, EndOwn
  <2> QED
    BY <2>1, <2>2, <2>4, ShotExtends DEF Kept
<1>8. ASSUME NEW t \in {"shoot", "win"}, AcceptLostTurn(c, t)
      PROVE  Kept
  <2>1. PICK st, reason, won :
          /\ st \in StateRow /\ RecordShot(c, st)
          /\ reason # "unborn" /\ EndGame(g, reason, won)
    BY <1>0, <1>1, <1>8, NewStateType DEF AcceptLostTurn
  <2>2. /\ pc[c] = "submit" /\ BackToIdle(c) /\ UNCHANGED left
        /\ pending' = RestOfQueue(c)
    BY <1>8 DEF AcceptLostTurn
  <2>3. \A h \in Game \ {g} : states'[h] = states[h]
    BY <1>0, <1>1, <2>1, <2>2, RecordShotKeeps
  <2>4. Owned' /\ EndedKept /\ GamesGoOn
    BY <1>1, <2>1, <2>2, <2>3, EndOwn
  <2> QED
    BY <2>1, <2>2, <2>4, ShotExtends DEF Kept
<1>9. ASSUME NEW lost \in BOOLEAN, NEW t \in {"shoot", "win"}, AcceptAndQueue(c, lost, t)
      PROVE  Kept
  <2>1. PICK st : st \in StateRow /\ RecordShot(c, st)
    BY <1>0, <1>9, NewStateType DEF AcceptAndQueue
  <2>2. pc[c] = "submit" /\ BackToIdle(c) /\ UNCHANGED <<left, games>>
    BY <1>9 DEF AcceptAndQueue
  <2>3. PICK row : /\ pending' = {p \in pending : ~IsJobRow(c, p)} \cup {row}
                   /\ row.game = g /\ row.sent = "no"
    <3>1. PICK row : row = [game |-> g, state |-> Len(states[g]) + 1,
                            agent |-> NextAgent(g, NewState(c, lost, t)), sent |-> "no"]
      OBVIOUS
    <3>2. pending' = {p \in pending : ~IsJobRow(c, p)} \cup {row}
      BY <1>1, <1>9, <3>1 DEF AcceptAndQueue, RestOfQueue
    <3> QED
      BY <3>1, <3>2
  <2>4. job[c] # NoJob /\ g \in Game /\ (UndisputedGame(g) => Open(g))
    BY <1>1, <2>2, SubmitterHasShot, OwnShot
  <2>5. \A h \in Game \ {g} : states'[h] = states[h]
    BY <1>0, <1>1, <2>1, <2>2, RecordShotKeeps
  <2>6. GamesGoOn /\ MatchesStay
    BY <2>2 DEF GamesGoOn, MatchesStay, Born
  <2>7. /\ OthersWait(c) /\ JobOwned(c)' /\ ChoiceOwned(c)'
        /\ \A d \in Client : overdue'[d] \subseteq overdue[d]
    BY <1>0, <2>2, IdleOwn
  <2>8. JobsOwned'
    BY <2>3, <2>4, <2>6, <2>7, JobsOwnedStep
  <2>9. ChoicesOwned'
    BY <2>2, <2>7, ChoicesStep
  <2>10. OverdueDisputed'
    BY <2>3, <2>6, <2>7, OverdueStep
  <2>11. RowsOpen'
    <3>1. ASSUME NEW p \in pending', UndisputedGame(p.game)' PROVE Open(p.game)
      <4>1. UndisputedGame(p.game)
        BY <2>2, <3>1 DEF UndisputedGame, Undisputed, BreaksCounted, Punctual
      <4> QED
        BY <2>3, <2>4, <4>1 DEF OwnInv, Owned, RowsOpen
    <3> QED
      BY <2>2, <3>1 DEF RowsOpen, Open
  <2>12. GamesHavePlayers' /\ ExperimentsOwned'
    BY <2>2, <2>6, GoingOn
       DEF OwnInv, Owned, ExperimentsOwned, Undisputed, BreaksCounted, Punctual
  <2>13. GamesAreSequences'
    BY <2>1, <2>2, <2>6, ShotExtends
  <2>14. EndedKept
    BY <2>2, <2>4, <2>5 DEF EndedKept, Ended, Open, EndReason
  <2> QED
    BY <2>8, <2>9, <2>10, <2>11, <2>12, <2>13, <2>14 DEF Kept, Owned
<1> QED
  BY <1>3, <1>4, <1>5, <1>6, <1>7, <1>8, <1>9 DEF SubmitShotStep

\* Only the row of a disputed game becomes overdue.
LEMMA HourOwn ==
  ASSUME OwnInv, NEW p \in pending, HourPasses(p) PROVE Kept
<1>0. TypeOK /\ RowsRefer
  BY DEF OwnInv, IInv
<1>1. UNCHANGED <<left, games, states, shots, pc, overdue, job, chosen>>
  BY DEF HourPasses, request
<1>2. p.game \in Game /\ DisputedGame(p.game)
  BY <1>0, RowBorn, RowPunctual DEF HourPasses, DisputedGame, Punctual
<1>3. PICK late : /\ pending' = (pending \ {p}) \cup {late}
                  /\ late.game = p.game /\ late.state = p.state /\ late.agent = p.agent
  <2>1. PICK late : late = [p EXCEPT !.sent = "overdue"]
    OBVIOUS
  <2>2. late.game = p.game /\ late.state = p.state /\ late.agent = p.agent
    BY <1>0, <2>1 DEF TypeOK, DatabaseOK, PendingRow
  <2>3. pending' = (pending \ {p}) \cup {late}
    BY <2>1 DEF HourPasses
  <2> QED
    BY <2>2, <2>3
<1>4. GamesGoOn /\ MatchesStay
  BY <1>1 DEF GamesGoOn, MatchesStay, Born
<1>5. JobsOwned'
  BY <1>1, <1>3, <1>4, JobKept DEF JobsOwned
<1>6. ChoicesOwned'
  BY <1>1 DEF OwnInv, Owned, ChoicesOwned, ChoiceOwned, BreaksCounted, Undisputed, Punctual
<1>7. OverdueDisputed'
  <2>1. \A q \in pending' : q.sent = "overdue" => q.game \in Game /\ DisputedGame(q.game)
    BY <1>0, <1>2, <1>3, RowBorn DEF OwnInv, Owned, OverdueDisputed
  <2>2. \A d \in Client : \A q \in overdue'[d] : q.game \in Game /\ DisputedGame(q.game)
    BY <1>1 DEF OwnInv, Owned, OverdueDisputed
  <2>3. \A g \in Game : DisputedGame(g) => DisputedGame(g)'
    BY <1>4, StaysUndisputed DEF DisputedGame
  <2> QED
    BY <2>1, <2>2, <2>3 DEF OverdueDisputed
<1> QED
  BY <1>1, <1>3, <1>4, <1>5, <1>6, <1>7, RowsStep

-----------------------------------------------------------------------------
(***************************************************************************)
(* The theorems                                                            *)
(***************************************************************************)

LEMMA OwnInit == ASSUME Init PROVE OwnInv
<1>1. IInv
  BY InitInv
<1>2. GamesHavePlayers /\ OverdueDisputed /\ RowsOpen /\ JobsOwned /\ ChoicesOwned
  BY DEF Init, GamesHavePlayers, OverdueDisputed, RowsOpen, JobsOwned, JobOwned,
         ChoicesOwned, ChoiceOwned
<1>3. ExperimentsOwned
  BY ConstantsAssumption DEF Init, ExperimentsOwned, Undisputed, MatchRows
<1>4. GamesAreSequences
  BY DEF Init, GamesAreSequences, InSequence
<1> QED
  BY <1>1, <1>2, <1>3, <1>4 DEF OwnInv, Owned

\* What every step keeps: the invariant, and the undisputed games that have ended.
LEMMA OwnStep == ASSUME OwnInv, [Next]_vars PROVE OwnInv' /\ EndedKept
<1>1. CASE UNCHANGED vars
  <2>1. UNCHANGED <<left, games, states, pending, shots, pc, overdue, job, chosen>>
    BY <1>1 DEF vars, database, request
  <2>2. GamesGoOn /\ MatchesStay
    BY <2>1 DEF GamesGoOn, MatchesStay, Born
  <2>3. JobsOwned'
    BY <2>1, <2>2, JobKept DEF JobsOwned
  <2>4. ChoicesOwned'
    BY <2>1 DEF OwnInv, Owned, ChoicesOwned, ChoiceOwned, BreaksCounted, Undisputed, Punctual
  <2>5. OverdueDisputed'
    BY <2>1, <2>2, OverdueStep
  <2>6. Kept
    BY <2>1, <2>2, <2>3, <2>4, <2>5, RowsStep
  <2> QED
    BY <2>6, StepInv DEF Kept, OwnInv
<1>2. CASE Next
  <2>1. Kept
    BY <1>2, GetShotOwn, SubmitShotOwn, HourOwn DEF Next
  <2> QED
    BY <2>1, StepInv DEF Kept, OwnInv
<1> QED
  BY <1>1, <1>2

\* Every reachable state satisfies the inductive invariant.
THEOREM OwnInvariance == Spec => []OwnInv
<1>1. Init => OwnInv
  BY OwnInit
<1>2. OwnInv /\ [Next]_vars => OwnInv'
  BY OwnStep
<1> QED
  BY <1>1, <1>2, PTL DEF Spec

\* The shots recorded for an undisputed game, over or not, lead from each of its
\* states to the next one, each taken by the agent whose turn it was.
THEOREM UndisputedGamesInSequence == Spec => []GamesAreSequences
<1>1. OwnInv => GamesAreSequences
  BY DEF OwnInv
<1> QED
  BY <1>1, OwnInvariance, PTL

\* A shot of an undisputed game is computed by one client at a time.
THEOREM OneClientPerShot == Spec => []JobsExclusive
<1>1. OwnInv => JobsExclusive
  <2>1. SUFFICES ASSUME OwnInv, NEW c \in Client, NEW d \in Client, c # d, job[c] = job[d],
                        pc[c] \in {"think", "submit"}, UndisputedGame(job[c].game)
                 PROVE  FALSE
    BY DEF JobsExclusive
  <2>2. job[c] # NoJob
    BY <2>1 DEF OwnInv, IInv, JobsRefer, JobRefers
  <2>3. PICK p \in pending : OwnRow(c, p)
    BY <2>1, <2>2 DEF OwnInv, Owned, JobsOwned, JobOwned
  <2>4. IsJobRow(d, p) /\ UndisputedGame(p.game)
    BY <2>1, <2>3 DEF OwnRow, IsJobRow
  <2>5. OwnRow(d, p)
    BY <2>1, <2>2, <2>3, <2>4, OwnShot DEF OwnRow, IsJobRow
  <2> QED
    BY <2>1, <2>3, <2>4, <2>5, OneOwner
<1> QED
  BY <1>1, OwnInvariance, PTL

\* The result of an undisputed game is final: no later get_shot, cleanup or
\* submission, of whatever match, changes its row or its states.
THEOREM ResultsAreFinal == Spec => EndedGamesFrozen
<1>1. OwnInv /\ [Next]_vars =>
        [\A g \in Game : UndisputedGame(g) /\ Ended(g) =>
           games'[g] = games[g] /\ states'[g] = states[g]]_vars
  BY OwnStep DEF EndedKept
<1> QED
  BY <1>1, OwnInvariance, PTL DEF Spec, EndedGamesFrozen
=============================================================================
