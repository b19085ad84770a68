---------------------------- MODULE GameBookProofs ----------------------------
(***************************************************************************)
(* Proofs that the match server keeps the promise of GameBook to           *)
(* undisputed matches, and the budget of games of every match.             *)
(*                                                                         *)
(* LEMMA GameSteps is the summary both rest on: seen from the tables of    *)
(* games and states, every step of every request starts a game, carries an *)
(* open game of the book on, ends one, or leaves the book alone.           *)
(***************************************************************************)
EXTENDS PoolServerOwnProofs, FiniteSetTheorems

\* The players of match m are not the same agent.
TwoSided(m) == MatchRow[m].agent1 # MatchRow[m].agent2

BookedGame(g) == games[g].match \in Booked

FirstState == [mover |-> "starter", turn |-> "shoot"]

\* Side i of match m breaks game g, which comes out of its budget; unless clients
\* share an agent, that is not empty.
GameStarts(m, i, g) ==
  /\ TwoSided(m) /\ games[g] = NoGame
  /\ m \in Undisputed => left[m][i] > 0
  /\ left' = [left EXCEPT ![m] = [left[m] EXCEPT ![i] = left[m][i] - 1]]
  /\ states' = [states EXCEPT ![g] = <<FirstState>>]
  /\ \E other :
       games' = [games EXCEPT ![g] =
         [match |-> m, agent1 |-> BreaksCounted(m, i), agent2 |-> other,
          endReason |-> "open", winner |-> "none"]]

\* A game starts of a match someone plays against itself.
SelfPlayStarts(m, g) ==
  /\ ~TwoSided(m) /\ games[g] = NoGame /\ games'[g].match = m
  /\ \A n \in Match \ {m} : left'[n] = left[n]
  /\ \A h \in Game \ {g} : games'[h] = games[h] /\ states'[h] = states[h]

\* The last state of game g, and whose shot it is.
LastMover(g) == states[g][Len(states[g])].mover

\* Open game g gets another state.
GameGoesOn(g) ==
  /\ BookedGame(g) /\ Open(g) /\ UNCHANGED <<left, games>>
  /\ \A h \in Game \ {g} : states'[h] = states[h]
  /\ LastMover(g)' \in Side

\* Open game g ends for won; against the one who should shoot, unless decided.
GameEnds(g, reason, won) ==
  /\ BookedGame(g) /\ Open(g) /\ UNCHANGED left
  /\ EndGame(g, reason, won)
  /\ \A h \in Game \ {g} : states'[h] = states[h]
  /\ reason \in EndReason /\ won \in Side
  /\ reason \in {"won", "lost", "lostTurn"} \/ won # LastMover(g)

\* Nothing starts, and no game of the book changes.
BookUntouched ==
  /\ UNCHANGED left /\ GamesGoOn
  /\ \A g \in Game : BookedGame(g) => games'[g] = games[g] /\ states'[g] = states[g]

GameStep ==
  \/ \E m \in Match, i \in 1..2, g \in Game : GameStarts(m, i, g)
  \/ \E m \in Match, g \in Game : SelfPlayStarts(m, g)
  \/ \E g \in Game : GameGoesOn(g)
  \/ \E g \in Game, reason \in EndReason, won \in Side : GameEnds(g, reason, won)
  \/ BookUntouched

-----------------------------------------------------------------------------
(***************************************************************************)
(* What a step is to the games                                             *)
(***************************************************************************)

\* An id that is not used is blank.
LEMMA NewbornBlank ==
  ASSUME GamesHavePlayers, NEW g \in NextGame PROVE g \in Game /\ games[g] = NoGame
BY DEF GamesHavePlayers, NextGame, Born

\* Both ways of starting a game between two different agents.
LEMMA AddGameSteps ==
  ASSUME OwnInv, NEW c \in Client, NEW m \in Match, m = chosen[c], TwoSided(m),
         AddGameToMatch(c) \/ AddGameToMatchSpecial(c)
  PROVE  \E i \in 1..2, g \in Game : GameStarts(m, i, g)
<1>0. TypeOK /\ GamesHavePlayers /\ m # None /\ left \in [Match -> [1..2 -> Int]]
  BY ConstantsAssumption DEF OwnInv, IInv, Owned, TypeOK, DatabaseOK
<1>1. CASE AddGameToMatch(c)
  <2>1. PICK i \in 1..2 : /\ BreaksCounted(m, i) = AgentOf[c]
                          /\ m \in Undisputed => left[m][i] > 0
    BY <1>0 DEF OwnInv, Owned, ChoicesOwned, ChoiceOwned
  <2>2. \A j \in 1..2 \ {i} : BreaksCounted(m, j) # AgentOf[c]
    BY <2>1 DEF TwoSided, BreaksCounted
  <2>3. left' = [left EXCEPT ![m] = [left[m] EXCEPT ![i] = left[m][i] - 1]]
    <3>1. left' = [left EXCEPT ![m] = [j \in 1..2 |-> IF BreaksCounted(m, j) = AgentOf[c]
                                                      THEN left[m][j] - 1 ELSE left[m][j]]]
      BY <1>0, <1>1 DEF AddGameToMatch, BreaksCounted
    <3>2. [j \in 1..2 |-> IF BreaksCounted(m, j) = AgentOf[c]
                          THEN left[m][j] - 1 ELSE left[m][j]]
            = [left[m] EXCEPT ![i] = left[m][i] - 1]
      BY <1>0, <2>1, <2>2
    <3> QED
      BY <3>1, <3>2
  <2>4. PICK g, other : g \in NextGame /\ NewGame(c, g, BreaksCounted(m, i), other)
    BY <1>1, <2>1 DEF AddGameToMatch
  <2>5. GameStarts(m, i, g)
    BY <1>0, <2>1, <2>3, <2>4, NewbornBlank DEF GameStarts, NewGame, FirstState
  <2> QED
    BY <1>0, <2>4, <2>5, NewbornBlank
<1>2. CASE AddGameToMatchSpecial(c)
  <2>1. m \in Undisputed => left[m][1] > 0
    <3>1. SUFFICES ASSUME m \in Undisputed PROVE left[m][1] > 0
      OBVIOUS
    <3>2. MatchRow[m].agent1 = AgentOf[c]
      BY <1>2, <3>1, ExperimentBreaker DEF AddGameToMatchSpecial
    <3>3. PICK i \in 1..2 : BreaksCounted(m, i) = AgentOf[c] /\ left[m][i] > 0
      BY <1>0, <3>1 DEF OwnInv, Owned, ChoicesOwned, ChoiceOwned
    <3> QED
      BY <3>2, <3>3 DEF TwoSided, BreaksCounted
  <2>2. left' = [left EXCEPT ![m] = [left[m] EXCEPT ![1] = left[m][1] - 1]]
    BY <1>0, <1>2 DEF AddGameToMatchSpecial
  <2>3. PICK g \in NextGame : NewGame(c, g, BreaksCounted(m, 1), None)
    BY <1>2 DEF AddGameToMatchSpecial, BreaksCounted
  <2>4. GameStarts(m, 1, g)
    BY <1>0, <2>1, <2>2, <2>3, NewbornBlank DEF GameStarts, NewGame, FirstState
  <2> QED
    BY <1>0, <2>3, <2>4, NewbornBlank
<1> QED
  BY <1>1, <1>2

\* Both ways of starting a game of an agent against itself.
LEMMA SelfPlaySteps ==
  ASSUME OwnInv, NEW c \in Client, NEW m \in Match, m = chosen[c], ~TwoSided(m),
         AddGameToMatch(c) \/ AddGameToMatchSpecial(c)
  PROVE  \E g \in Game : SelfPlayStarts(m, g)
<1>0. TypeOK /\ GamesHavePlayers
  BY DEF OwnInv, IInv, Owned
<1>1. PICK g, breaker, other : g \in NextGame /\ NewGame(c, g, breaker, other)
  BY DEF AddGameToMatch, AddGameToMatchSpecial
<1>2. g \in Game /\ games[g] = NoGame
  BY <1>0, <1>1, NewbornBlank
<1>3. /\ games'[g].match = m
      /\ \A h \in Game \ {g} : games'[h] = games[h] /\ states'[h] = states[h]
  BY <1>0, <1>1, <1>2 DEF NewGame, TypeOK, DatabaseOK
<1>4. \A n \in Match \ {m} : left'[n] = left[n]
  BY <1>0 DEF AddGameToMatch, AddGameToMatchSpecial, TypeOK, DatabaseOK
<1> QED
  BY <1>2, <1>3, <1>4 DEF SelfPlayStarts

\* A write to a game that is not in the book.
LEMMA OffTheBook ==
  ASSUME NEW g \in Game, ~BookedGame(g), UNCHANGED left, GamesGoOn,
         \A h \in Game \ {g} : games'[h] = games[h] /\ states'[h] = states[h]
  PROVE  GameStep
BY DEF GameStep, BookUntouched

\* The writes of submit_shot.
LEMMA SubmissionSteps ==
  ASSUME OwnInv, NEW c \in Client, SubmitShotStep(c)
  PROVE  GameStep
<1>0. TypeOK /\ JobsRefer
  BY DEF OwnInv, IInv
<1>1. PICK g : g = job[c].game
  OBVIOUS
<1>2. ASSUME pc[c] = "submit"
      PROVE  /\ g \in Game /\ Born(g) /\ Shooter(c) \in Side
             /\ BookedGame(g) => Open(g) /\ Shooter(c) = LastMover(g)
  <2>1. job[c] # NoJob /\ g \in Game /\ Born(g) /\ Shooter(c) \in Side
    BY <1>0, <1>1, <1>2, SubmitterHasShot, ShooterSide
  <2>2. BookedGame(g) => UndisputedGame(g)
    BY DEF BookedGame, Booked, UndisputedGame
  <2> QED
    BY <1>1, <2>1, <2>2, OwnShot DEF Shooter, LastMover
<1>3. CASE BadParams(c) \/ Impossible(c) \/ AcceptFails(c)
  BY <1>3 DEF BadParams, Impossible, AcceptFails, database, GameStep, BookUntouched, GamesGoOn
\* An ending, with or without a last shot.
<1>4. ASSUME pc[c] = "submit", UNCHANGED left, NEW reason \in EndReason, NEW won \in Side,
             EndGame(g, reason, won), \A h \in Game \ {g} : states'[h] = states[h],
             reason \in {"won", "lost", "lostTurn"} \/ won # Shooter(c)
      PROVE  GameStep
  <2>1. CASE BookedGame(g)
    <3>1. GameEnds(g, reason, won)
      BY <1>2, <1>4, <2>1 DEF GameEnds
    <3> QED
      BY <1>2, <1>4, <3>1 DEF GameStep
  <2>2. CASE ~BookedGame(g)
    <3>1. GamesGoOn /\ \A h \in Game \ {g} : games'[h] = games[h]
      BY <1>0, <1>2, <1>4, EndGameGoesOn, EndGameKeeps DEF EndReason
    <3> QED
      BY <1>2, <1>4, <2>2, <3>1, OffTheBook
  <2> QED
    BY <2>1, <2>2
<1>5. CASE ConcedeOrTimeout(c)
  <2>1. PICK reason \in {"conceded", "timeout"} : EndGame(g, reason, Opponent(Shooter(c)))
    BY <1>1, <1>5 DEF ConcedeOrTimeout
  <2>2. Opponent(Shooter(c)) \in Side /\ Opponent(Shooter(c)) # Shooter(c)
    BY DEF Opponent, Side
  <2>3. pc[c] = "submit" /\ UNCHANGED <<left, states>>
    BY <1>5 DEF ConcedeOrTimeout
  <2> QED
    BY <1>4, <2>1, <2>2, <2>3 DEF EndReason
<1>6. ASSUME NEW lost \in BOOLEAN, NEW t \in {"shoot", "win"}, AcceptAndQueue(c, lost, t)
      PROVE  GameStep
  <2>1. PICK st \in StateRow : pc[c] = "submit" /\ RecordShot(c, st)
    BY <1>0, <1>6, NewStateType DEF AcceptAndQueue
  <2>2. /\ \A h \in Game \ {g} : states'[h] = states[h]
        /\ states'[g][Len(states'[g])] = st
    BY <1>0, <1>1, <2>1, RecordShotKeeps
  <2>3. LastMover(g)' \in Side
    BY <2>1, <2>2 DEF LastMover, StateRow
  <2>4. UNCHANGED <<left, games>> /\ GamesGoOn
    BY <1>6 DEF AcceptAndQueue, GamesGoOn
  <2>5. CASE BookedGame(g)
    <3>1. GameGoesOn(g)
      BY <1>2, <2>1, <2>2, <2>3, <2>4, <2>5 DEF GameGoesOn
    <3> QED
      BY <1>2, <2>1, <3>1 DEF GameStep
  <2>6. CASE ~BookedGame(g)
    BY <1>2, <2>1, <2>2, <2>4, <2>6, OffTheBook
  <2> QED
    BY <2>5, <2>6
<1>7. ASSUME NEW lost \in BOOLEAN, NEW t \in {"shoot", "win"}, AcceptAndEnd(c, lost, t)
      PROVE  GameStep
  <2>1. PICK st \in StateRow : pc[c] = "submit" /\ RecordShot(c, st) /\ UNCHANGED left
    BY <1>0, <1>7, NewStateType DEF AcceptAndEnd
  <2>2. PICK reason \in {"won", "lost"}, won \in Side : EndGame(g, reason, won)
    BY <1>1, <1>2, <1>7, <2>1, OpponentSide DEF AcceptAndEnd
  <2>3. \A h \in Game \ {g} : states'[h] = states[h]
    BY <1>0, <1>1, <2>1, RecordShotKeeps
  <2> QED
    BY <1>4, <2>1, <2>2, <2>3 DEF EndReason
<1>8. ASSUME NEW t \in {"shoot", "win"}, AcceptLostTurn(c, t)
      PROVE  GameStep
  <2>1. PICK st \in StateRow : pc[c] = "submit" /\ RecordShot(c, st) /\ UNCHANGED left
    BY <1>0, <1>8, NewStateType DEF AcceptLostTurn
  <2>2. PICK won \in Side : EndGame(g, "lostTurn", won)
    BY <1>1, <1>8, OpponentSide DEF AcceptLostTurn
  <2>3. \A h \in Game \ {g} : states'[h] = states[h]
    BY <1>0, <1>1, <2>1, RecordShotKeeps
  <2> QED
    BY <1>4, <2>1, <2>2, <2>3 DEF EndReason
<1> QED
  BY <1>3, <1>5, <1>6, <1>7, <1>8 DEF SubmitShotStep

\* Every step.
LEMMA GameSteps ==
  ASSUME OwnInv, [Next]_vars PROVE GameStep
<1>1. ASSUME UNCHANGED <<left, games, states>> PROVE GameStep
  BY <1>1 DEF GameStep, BookUntouched, GamesGoOn
<1>2. CASE UNCHANGED vars
  BY <1>1, <1>2 DEF vars, database
<1>3. ASSUME NEW c \in Client,
             GetShot(c) \/ PickShot(c) \/ PickMatch(c) \/ SendShot(c) \/ SubmitShot(c) \/ Dies(c)
      PROVE  GameStep
  BY <1>1, <1>3 DEF GetShot, PickShot, PickMatch, SendShot, SubmitShot, Dies, database
<1>4. ASSUME NEW c \in Client, CleanupPendingShots(c) PROVE GameStep
  <2>1. \A g \in Game : BookedGame(g) => UndisputedGame(g)
    BY DEF BookedGame, Booked, UndisputedGame
  <2>2. UNCHANGED <<left, states>>
    BY <1>4 DEF CleanupPendingShots
  <2> QED
    BY <1>4, <2>1, <2>2, CleanupOwn DEF GameStep, BookUntouched
<1>5. ASSUME NEW c \in Client, AddGameToMatch(c) \/ AddGameToMatchSpecial(c) PROVE GameStep
  <2>1. PICK m \in Match : m = chosen[c]
    BY <1>5 DEF AddGameToMatch, AddGameToMatchSpecial, OwnInv, IInv, TypeOK, RequestOK
  <2>2. CASE TwoSided(m)
    BY <1>5, <2>1, <2>2, AddGameSteps DEF GameStep
  <2>3. CASE ~TwoSided(m)
    BY <1>5, <2>1, <2>3, SelfPlaySteps DEF GameStep
  <2> QED
    BY <2>2, <2>3
<1>6. ASSUME NEW c \in Client, SubmitShotStep(c) PROVE GameStep
  BY <1>6, SubmissionSteps
<1>7. ASSUME NEW p \in pending, HourPasses(p) PROVE GameStep
  BY <1>1, <1>7 DEF HourPasses
<1> QED
  BY <1>2, <1>3, <1>4, <1>5, <1>6, <1>7 DEF Next, GetShotStep

-----------------------------------------------------------------------------
(***************************************************************************)
(* The budget                                                              *)
(***************************************************************************)

\* The games of match m that the agent of its side i broke.
Broken(m, i) == {g \in Game : /\ games[g].match = m
                              /\ games[g].agent1 = BreaksCounted(m, i)}

Asked(m, i) == IF i = 1 THEN MatchRow[m].left1 ELSE MatchRow[m].left2

\* The account of side i of match m.
Balanced(m, i) ==
  /\ m \in Undisputed => left[m][i] >= 0
  /\ left[m][i] + Cardinality(Broken(m, i)) = Asked(m, i)

BudgetInv == OwnInv /\ BudgetKept

LEMMA BrokenFinite == ASSUME NEW m, NEW i PROVE IsFiniteSet(Broken(m, i))
<1>1. IsFiniteSet(Game)
  BY ConstantsAssumption, FS_Interval DEF Game
<1>2. Broken(m, i) \in SUBSET Game
  BY DEF Broken
<1> QED
  BY <1>1, <1>2, FS_Subset

\* A game that starts is one more of its breaker, and of nobody else.
LEMMA StartIsBroken ==
  ASSUME TypeOK, NEW m \in Match, NEW i \in 1..2,
         NEW g \in Game, GameStarts(m, i, g), NEW n \in Match, NEW j \in 1..2
  PROVE  /\ g \notin Broken(n, j)
         /\ Broken(n, j)' = IF n = m /\ j = i THEN Broken(n, j) \cup {g} ELSE Broken(n, j)
<1>1. /\ games'[g].match = m /\ games'[g].agent1 = BreaksCounted(m, i)
      /\ \A h \in Game \ {g} : games'[h] = games[h]
  BY DEF GameStarts, TypeOK, DatabaseOK
<1>2. games[g].match = None
  BY DEF GameStarts, NoGame
<1>3. BreaksCounted(n, j)' = BreaksCounted(n, j)
  BY DEF BreaksCounted
<1>4. g \notin Broken(n, j)
  BY <1>2, ConstantsAssumption DEF Broken
<1>5. g \in Broken(n, j)' <=> n = m /\ j = i
  <2>1. g \in Broken(n, j)' <=> n = m /\ BreaksCounted(m, i) = BreaksCounted(n, j)
    BY <1>1, <1>3 DEF Broken
  <2>2. BreaksCounted(m, 1) # BreaksCounted(m, 2)
    BY DEF BreaksCounted, GameStarts, TwoSided
  <2> QED
    BY <2>1, <2>2
<1>6. \A h \in Game \ {g} : h \in Broken(n, j)' <=> h \in Broken(n, j)
  BY <1>1, <1>3 DEF Broken
<1>7. Broken(n, j) \subseteq Game /\ Broken(n, j)' \subseteq Game
  BY DEF Broken
<1> QED
  BY <1>4, <1>5, <1>6, <1>7

\* Games that go on are broken by whom they were.
LEMMA BrokenStays ==
  ASSUME GamesGoOn, NEW m, NEW i PROVE Broken(m, i)' = Broken(m, i)
BY DEF GamesGoOn, Broken, BreaksCounted

\* Every step keeps the accounts.
LEMMA BudgetStep ==
  ASSUME TypeOK, BudgetKept, GameStep PROVE BudgetKept'
<1>0. left \in [Match -> [1..2 -> Int]]
  BY DEF TypeOK, DatabaseOK
<1>1. SUFFICES ASSUME NEW n \in Match, NEW j \in 1..2, TwoSided(n)
               PROVE  /\ n \in Undisputed => left'[n][j] >= 0
                      /\ left'[n][j] + Cardinality(Broken(n, j)') = Asked(n, j)
  BY DEF BudgetKept, Broken, Asked, TwoSided, Undisputed, BreaksCounted, Punctual
<1>2. /\ left[n][j] \in Int
      /\ n \in Undisputed => left[n][j] >= 0
      /\ left[n][j] + Cardinality(Broken(n, j)) = Asked(n, j)
  BY <1>0, <1>1 DEF BudgetKept, Broken, Asked, TwoSided
\* Nothing is written to the account.
<1>3. ASSUME left'[n] = left[n], Broken(n, j)' = Broken(n, j)
      PROVE  /\ n \in Undisputed => left'[n][j] >= 0
             /\ left'[n][j] + Cardinality(Broken(n, j)') = Asked(n, j)
  BY <1>2, <1>3
<1>4. ASSUME NEW m \in Match, NEW i \in 1..2, NEW g \in Game, GameStarts(m, i, g)
      PROVE  /\ n \in Undisputed => left'[n][j] >= 0
             /\ left'[n][j] + Cardinality(Broken(n, j)') = Asked(n, j)
  <2>1. /\ m \in Undisputed => left[m][i] > 0
        /\ left' = [left EXCEPT ![m] = [left[m] EXCEPT ![i] = left[m][i] - 1]]
    BY <1>4 DEF GameStarts
  <2>2. CASE n = m /\ j = i
    <3>1. left'[n][j] = left[n][j] - 1
      BY <1>0, <2>1, <2>2
    <3>2. g \notin Broken(n, j) /\ Broken(n, j)' = Broken(n, j) \cup {g}
      BY <1>4, <2>2, StartIsBroken
    <3>3. Cardinality(Broken(n, j)') = Cardinality(Broken(n, j)) + 1
      BY <3>2, BrokenFinite, FS_AddElement
    <3>4. Cardinality(Broken(n, j)) \in Nat
      BY BrokenFinite, FS_CardinalityType
    <3> QED
      BY <1>2, <2>1, <2>2, <3>1, <3>3, <3>4
  <2>3. CASE ~(n = m /\ j = i)
    <3>1. left'[n][j] = left[n][j]
      BY <1>0, <2>1, <2>3
    <3>2. Broken(n, j)' = Broken(n, j)
      BY <1>4, <2>3, StartIsBroken
    <3> QED
      BY <1>2, <3>1, <3>2
  <2> QED
    BY <2>2, <2>3
<1>5. ASSUME NEW m \in Match, NEW g \in Game, SelfPlayStarts(m, g)
      PROVE  left'[n] = left[n] /\ Broken(n, j)' = Broken(n, j)
  <2>1. n # m /\ games[g].match # n /\ games'[g].match # n
    BY <1>1, <1>5, ConstantsAssumption DEF SelfPlayStarts, NoGame
  <2>2. \A h \in Game : h \in Broken(n, j)' <=> h \in Broken(n, j)
    BY <1>5, <2>1 DEF SelfPlayStarts, Broken, BreaksCounted
  <2>3. Broken(n, j) \subseteq Game /\ Broken(n, j)' \subseteq Game
    BY DEF Broken
  <2> QED
    BY <1>5, <2>1, <2>2, <2>3 DEF SelfPlayStarts
<1>6. ASSUME NEW g \in Game, NEW reason \in EndReason, NEW won \in Side,
             GameEnds(g, reason, won)
      PROVE  left'[n] = left[n] /\ Broken(n, j)' = Broken(n, j)
  BY <1>6, EndGameGoesOn, BrokenStays DEF GameEnds, Open, Born, EndReason
<1>7. ASSUME UNCHANGED left, GamesGoOn
      PROVE  left'[n] = left[n] /\ Broken(n, j)' = Broken(n, j)
  BY <1>7, BrokenStays
<1>8. ASSUME NEW g \in Game, GameGoesOn(g) PROVE UNCHANGED left /\ GamesGoOn
  BY <1>8 DEF GameGoesOn, GamesGoOn
<1> QED
  BY <1>3, <1>4, <1>5, <1>6, <1>7, <1>8 DEF GameStep, BookUntouched

\* At first no game is broken.
LEMMA BudgetInit ==
  ASSUME Init PROVE BudgetInv
<1>1. OwnInv
  BY OwnInit
<1>2. ASSUME NEW m \in Match, NEW i \in 1..2
      PROVE  Balanced(m, i)
  <2>1. Broken(m, i) = {}
    BY ConstantsAssumption DEF Init, Broken, NoGame
  <2>2. Cardinality(Broken(m, i)) = 0
    BY <2>1, FS_EmptySet
  <2>3. left[m][i] = Asked(m, i) /\ left[m][i] \in Nat
    BY ConstantsAssumption DEF Init, MatchRows, Asked
  <2> QED
    BY <2>2, <2>3 DEF Balanced
<1> QED
  BY <1>1, <1>2 DEF BudgetInv, BudgetKept, Balanced, Broken, Asked

\* Every reachable state satisfies the invariant.
THEOREM BudgetInvariance == Spec => []BudgetInv
<1>1. Init => BudgetInv
  BY BudgetInit
<1>2. BudgetInv /\ [Next]_vars => BudgetInv'
  <2>1. SUFFICES ASSUME BudgetInv, [Next]_vars PROVE BudgetInv'
    OBVIOUS
  <2>2. TypeOK /\ OwnInv /\ BudgetKept
    BY <2>1 DEF BudgetInv, OwnInv, IInv
  <2>3. GameStep /\ OwnInv'
    BY <2>1, <2>2, GameSteps, OwnStep
  <2> QED
    BY <2>2, <2>3, BudgetStep DEF BudgetInv
<1> QED
  BY <1>1, <1>2, PTL DEF Spec

\* Where nobody plays against itself, the games broken and the games left to break
\* add up to what the match asked for, and in an undisputed match no client starts
\* a game too many.
THEOREM BudgetsAreKept == Spec => []BudgetKept
<1>1. BudgetInv => BudgetKept
  BY DEF BudgetInv
<1> QED
  BY <1>1, BudgetInvariance, PTL

-----------------------------------------------------------------------------
(***************************************************************************)
(* The refinement                                                          *)
(***************************************************************************)

\* The entry of game g, blank if its match is not in the book.
Entry(g) == IF BookedGame(g) THEN BookEntry(g) ELSE Book!Blank

LEMMA EntriesOfTheBook == TheBook = [g \in Game |-> Entry(g)]
BY DEF TheBook, Entry, BookedGame, Book!Blank

\* What stays the same of a game stays the same in the book.
LEMMA SameEntry ==
  ASSUME NEW g \in Game, games'[g] = games[g], states'[g] = states[g]
  PROVE  Entry(g)' = Entry(g)
BY DEF Entry, BookedGame, Booked, Undisputed, BreaksCounted, Punctual, BookEntry, Open,
       Book!Blank

\* A step that changes the entry of no game but g.
LEMMA OneEntry ==
  ASSUME NEW g \in Game, \A h \in Game \ {g} : games'[h] = games[h] /\ states'[h] = states[h]
  PROVE  /\ TheBook[g] = Entry(g)
         /\ TheBook' = [TheBook EXCEPT ![g] = Entry(g)']
<1>1. \A h \in Game \ {g} : Entry(h)' = Entry(h)
  BY SameEntry
<1>2. TheBook' = [h \in Game |-> Entry(h)']
  BY DEF TheBook, Entry, BookedGame, Book!Blank
<1> QED
  BY <1>1, <1>2, EntriesOfTheBook

\* The match of a game decides whether it is in the book.
LEMMA SameBooked ==
  ASSUME NEW g \in Game
  PROVE  BookedGame(g)' <=> games'[g].match \in Booked
BY DEF BookedGame, Booked, Undisputed, BreaksCounted, Punctual

\* Every step on the games is a step of the book or leaves it alone.
LEMMA BookStep ==
  ASSUME TypeOK, GameStep PROVE [Book!Next]_<<TheBook, ToBreak>>
<1>0. /\ games \in [Game -> GameRow] /\ states \in [Game -> Seq(StateRow)]
      /\ left \in [Match -> [1..2 -> Int]] /\ Booked \subseteq Match
  BY DEF TypeOK, DatabaseOK, Booked, Undisputed
<1>1. ToBreak' = [m \in Booked |-> left'[m]]
  BY DEF ToBreak, Booked, Undisputed, BreaksCounted, Punctual
<1>2. CASE BookUntouched
  <2>1. ASSUME NEW g \in Game PROVE Entry(g)' = Entry(g)
    <3>1. BookedGame(g)' <=> BookedGame(g)
      BY <1>2, SameBooked DEF BookUntouched, GamesGoOn, BookedGame
    <3>2. CASE BookedGame(g)
      BY <1>2, <3>2, SameEntry DEF BookUntouched
    <3>3. CASE ~BookedGame(g)
      BY <3>1, <3>3 DEF Entry, Book!Blank
    <3> QED
      BY <3>2, <3>3
  <2>2. TheBook' = [g \in Game |-> Entry(g)']
    BY DEF TheBook, Entry, BookedGame, Book!Blank
  <2>3. TheBook' = TheBook /\ ToBreak' = ToBreak
    BY <1>1, <1>2, <2>1, <2>2, EntriesOfTheBook DEF BookUntouched, ToBreak
  <2> QED
    BY <2>3
<1>3. ASSUME NEW m \in Match, NEW i \in 1..2, NEW g \in Game, GameStarts(m, i, g)
      PROVE  [Book!Next]_<<TheBook, ToBreak>>
  <2>1. /\ games'[g].endReason = "open" /\ states'[g] = <<FirstState>> /\ games'[g].match = m
        /\ \A h \in Game \ {g} : games'[h] = games[h] /\ states'[h] = states[h]
    BY <1>0, <1>3 DEF GameStarts
  <2>2. Entry(g) = Book!Blank
    BY <1>0, <1>3, ConstantsAssumption DEF GameStarts, Entry, BookedGame, NoGame
  <2>3. CASE m \in Booked
    <3>1. Entry(g)' = [phase |-> "open", side |-> "starter"]
      <4>1. Len(states'[g]) = 1 /\ states'[g][1].mover = "starter"
        BY <2>1 DEF FirstState
      <4>2. BookedGame(g)'
        BY <2>1, <2>3, SameBooked
      <4> QED
        BY <2>1, <4>1, <4>2 DEF Entry, BookEntry, Open
    <3>2. /\ ToBreak[m][i] > 0
          /\ ToBreak' = [ToBreak EXCEPT ![m] = [ToBreak[m] EXCEPT ![i] = ToBreak[m][i] - 1]]
      <4>1. /\ left[m][i] > 0
            /\ left' = [left EXCEPT ![m] = [left[m] EXCEPT ![i] = left[m][i] - 1]]
        BY <1>3, <2>3 DEF GameStarts, Booked
      <4> QED
        BY <1>0, <1>1, <2>3, <4>1 DEF ToBreak
    <3>3. Book!Start(g)
      BY <2>1, <2>2, <2>3, <3>1, <3>2, OneEntry DEF Book!Start
    <3> QED
      BY <3>3 DEF Book!Next
  <2>4. CASE m \notin Booked
    <3>1. Entry(g)' = Entry(g)
      BY <2>1, <2>2, <2>4, SameBooked DEF Entry, Book!Blank
    <3>2. TheBook' = TheBook
      BY <2>1, <3>1, OneEntry, EntriesOfTheBook
    <3>3. ToBreak' = ToBreak
      BY <1>0, <1>1, <1>3, <2>4 DEF GameStarts, ToBreak
    <3> QED
      BY <3>2, <3>3
  <2> QED
    BY <2>3, <2>4
<1>4. ASSUME NEW m \in Match, NEW g \in Game, SelfPlayStarts(m, g)
      PROVE  [Book!Next]_<<TheBook, ToBreak>>
  <2>1. m \notin Booked
    BY <1>4 DEF SelfPlayStarts, Booked, TwoSided
  <2>2. Entry(g) = Book!Blank
    BY <1>0, <1>4, ConstantsAssumption DEF SelfPlayStarts, Entry, BookedGame, NoGame
  <2>3. Entry(g)' = Entry(g)
    BY <1>4, <2>1, <2>2, SameBooked DEF SelfPlayStarts, Entry, Book!Blank
  <2>4. TheBook' = TheBook
    BY <1>4, <2>3, OneEntry, EntriesOfTheBook DEF SelfPlayStarts
  <2>5. ToBreak' = ToBreak
    BY <1>0, <1>1, <1>4, <2>1 DEF SelfPlayStarts, ToBreak
  <2> QED
    BY <2>4, <2>5
<1>5. ASSUME NEW g \in Game, GameGoesOn(g) PROVE Book!Next
  <2>1. PICK side \in Side : side = LastMover(g)'
    BY <1>5 DEF GameGoesOn
  <2>2. Entry(g) = [phase |-> "open", side |-> LastMover(g)]
    BY <1>5 DEF GameGoesOn, Entry, BookEntry, Open, LastMover
  <2>3. Entry(g)' = [phase |-> "open", side |-> side]
    <3>1. BookedGame(g)' /\ Open(g)'
      BY <1>5, SameBooked DEF GameGoesOn, BookedGame, Open
    <3> QED
      BY <2>1, <3>1 DEF Entry, BookEntry, LastMover
  <2>4. TheBook' = [TheBook EXCEPT ![g].side = side]
    <3>1. TheBook' = [TheBook EXCEPT ![g] = Entry(g)'] /\ TheBook[g] = Entry(g)
      BY <1>5, OneEntry DEF GameGoesOn
    <3>2. [TheBook[g] EXCEPT !.side = side] = [phase |-> "open", side |-> side]
      BY <2>2, <3>1
    <3>3. [TheBook EXCEPT ![g].side = side]
            = [TheBook EXCEPT ![g] = [TheBook[g] EXCEPT !.side = side]]
      OBVIOUS
    <3> QED
      BY <2>3, <3>1, <3>2, <3>3
  <2>5. ToBreak' = ToBreak
    BY <1>1, <1>5 DEF GameGoesOn, ToBreak
  <2>6. TheBook[g].phase = "open"
    BY <2>2, EntriesOfTheBook
  <2>7. Book!Shoot(g, side)
    BY <2>4, <2>5, <2>6 DEF Book!Shoot
  <2> QED
    BY <2>7 DEF Book!Next, Book!Side, Side
<1>6. ASSUME NEW g \in Game, NEW reason \in EndReason, NEW won \in Side,
             GameEnds(g, reason, won)
      PROVE  Book!Next
  <2>1. /\ games'[g].endReason = reason /\ games'[g].winner = won
        /\ games'[g].match = games[g].match
        /\ \A h \in Game \ {g} : games'[h] = games[h] /\ states'[h] = states[h]
    BY <1>6, EndGameKeeps DEF GameEnds
  <2>2. Entry(g) = [phase |-> "open", side |-> LastMover(g)]
    BY <1>6 DEF GameEnds, Entry, BookEntry, Open, LastMover
  <2>3. Entry(g)' = [phase |-> IF reason \in {"won", "lost", "lostTurn"}
                               THEN "decided" ELSE "forfeited", side |-> won]
    <3>1. BookedGame(g)' /\ ~Open(g)'
      BY <1>6, <2>1, SameBooked DEF GameEnds, BookedGame, Open, EndReason
    <3> QED
      BY <2>1, <3>1 DEF Entry, BookEntry
  <2>4. TheBook' = [TheBook EXCEPT ![g] = Entry(g)'] /\ TheBook[g] = Entry(g)
    BY <2>1, OneEntry
  <2>5. ToBreak' = ToBreak
    BY <1>1, <1>6 DEF GameEnds, ToBreak
  <2>6. CASE reason \in {"won", "lost", "lostTurn"}
    <3>1. Book!Decide(g, won)
      BY <2>2, <2>3, <2>4, <2>5, <2>6 DEF Book!Decide
    <3> QED
      BY <3>1 DEF Book!Next, Book!Side, Side
  <2>7. CASE reason \notin {"won", "lost", "lostTurn"}
    <3>1. Book!Forfeit(g, won)
      BY <1>6, <2>2, <2>3, <2>4, <2>5, <2>7 DEF GameEnds, Book!Forfeit
    <3> QED
      BY <3>1 DEF Book!Next, Book!Side, Side
  <2> QED
    BY <2>6, <2>7
<1> QED
  BY <1>2, <1>3, <1>4, <1>5, <1>6 DEF GameStep

\* The tables, the requests and the clients together keep the promise of GameBook
\* to undisputed matches: games are started within the budget, carried on shot by
\* shot, and decided or forfeited once and for all.
THEOREM ServerKeepsGameBook == Spec => KeepsGameBook
<1>1. Init => Book!Init
  <2>1. SUFFICES ASSUME Init PROVE Book!Init
    OBVIOUS
  <2>2. left \in [Match -> [1..2 -> Nat]] /\ Booked \subseteq Match
    BY <2>1, ConstantsAssumption DEF Init, MatchRows, Booked, Undisputed
  <2>3. ToBreak \in [Booked -> [1..2 -> Nat]]
    BY <2>2 DEF ToBreak
  <2>4. TheBook = [g \in Game |-> Book!Blank]
    BY <2>1, <2>2, ConstantsAssumption DEF Init, TheBook, Book!Blank, NoGame
  <2> QED
    BY <2>3, <2>4 DEF Book!Init
<1>2. OwnInv /\ [Next]_vars => [Book!Next]_<<TheBook, ToBreak>>
  BY GameSteps, BookStep DEF OwnInv, IInv
<1> QED
  BY <1>1, <1>2, OwnInvariance, PTL DEF Spec, KeepsGameBook, Book!Spec
=============================================================================
