---------------------------- MODULE TournamentProofs ----------------------------
(***************************************************************************)
(* Proofs of the invariants of Tournament, for any number of agents, games *)
(* and shots.                                                              *)
(***************************************************************************)
EXTENDS Tournament, FiniteSetTheorems, TLAPS

\* Exactly the latest states of the games being played wait for a shot.
Waiting ==
  /\ \A g \in Open : Latest(g) \in pending
  /\ \A s \in pending : s[1] \in Open /\ s = Latest(s[1])

\* What is cached belongs to a game that the cleanup never takes.
Cached ==
  \A s \in cache : /\ s[1] \in DOMAIN games /\ games[s[1]].shots > 0
                   /\ s \in StatesOf(s[1])

\* A game has its states and its match.
Kept == \A g \in DOMAIN games : StatesOf(g) \subseteq states /\ games[g].match \in DOMAIN left

\* Only the deletion of games leaves orphans, and the next statement takes them.
Referenced == upkeep # "states" => \A s \in states : \E g \in DOMAIN games : s \in StatesOf(g)

\* A match is from a start that has been.
FromAStart == \A m \in DOMAIN left : m.round <= round

IInv == /\ TypeOK /\ Waiting /\ Cached /\ Kept /\ Referenced
        /\ NoiseFollowsAgent /\ CleanupGoesThrough /\ FromAStart

-----------------------------------------------------------------------------
\* The pages of the owner touch only the entries.
LEMMA EntriesKeep ==
  ASSUME IInv, NEW row \in Entry, NEW a \in Agent, AddAgent(row) \/ RemoveAgent(a)
  PROVE  IInv' /\ KeepsRecords
<1>1. /\ entries' \subseteq Entry
      /\ UNCHANGED <<master, round, left, games, lastGame, states, pending, cache, upkeep>>
  BY DEF IInv, TypeOK, AddAgent, RemoveAgent
<1> QED
  BY <1>1
  DEF IInv, TypeOK, Waiting, Cached, Kept, Referenced, NoiseFollowsAgent, CleanupGoesThrough,
      FromAStart, KeepsRecords, StatesOf, Latest, Open, EntryOf

\* A start adds well-typed matches and takes none.
LEMMA StartKeeps ==
  ASSUME IInv, Start
  PROVE  IInv' /\ KeepsRecords
<1>1. /\ UNCHANGED <<entries, master, games, lastGame, states, pending, cache, upkeep>>
      /\ round' \in 1 .. MaxRounds /\ DOMAIN left \subseteq DOMAIN left'
  BY TournamentAssumption DEF IInv, TypeOK, Start
<1>2. DOMAIN left' \subseteq Match
  BY <1>1 DEF Start, IInv, TypeOK, Match, Pairs
<1>3. \A m \in DOMAIN left' : left'[m] \in [Side -> Nat]
  BY TournamentAssumption DEF Start, IInv, TypeOK
<1>4. TypeOK'
  BY <1>1, <1>2, <1>3 DEF IInv, TypeOK
<1>5. Kept' /\ KeepsRecords
  BY <1>1 DEF IInv, Kept, KeepsRecords, StatesOf
<1>6. FromAStart'
  <2>1. round \in Nat /\ round' = round + 1
    BY TournamentAssumption DEF IInv, TypeOK, Start
  <2>2. \A m \in DOMAIN left' : m \in DOMAIN left \/ m.round = round'
    BY DEF Start
  <2>3. \A m \in DOMAIN left : m.round \in Nat /\ m.round <= round
    BY TournamentAssumption DEF IInv, TypeOK, FromAStart, Match
  <2> QED
    BY <2>1, <2>2, <2>3 DEF FromAStart
<1> QED
  BY <1>1, <1>4, <1>5, <1>6
  DEF IInv, Waiting, Cached, Referenced, NoiseFollowsAgent, CleanupGoesThrough,
      StatesOf, Latest, Open, EntryOf

\* What add_game_to_match writes: each player has the entry of its agent.
LEMMA BegunFair ==
  ASSUME NEW m \in Match, NEW a \in Agent, SideToBegin(m, a) # {}
  PROVE  /\ a \in {m.one.agent, m.two.agent}
         /\ m.one.agent + m.two.agent - a \in Agent
         /\ NoiseFor(m, a) \in [Side -> Setting]
         /\ \A i \in Side :
              LET who == IF i = 1 THEN a ELSE m.one.agent + m.two.agent - a
                  row == IF (i = 1) = (a = m.one.agent) THEN m.one ELSE m.two
              IN  who = row.agent /\ NoiseFor(m, a)[i] = row.setting
<1>1. /\ m.one \in Entry /\ m.two \in Entry /\ m.one.agent \in Nat /\ m.two.agent \in Nat
  BY TournamentAssumption DEF Match, Entry
<1>2. a \in {m.one.agent, m.two.agent}
  BY DEF SideToBegin, Side
<1>3. CASE a = m.one.agent
  BY <1>1, <1>3 DEF NoiseFor, Side, Entry
<1>4. CASE a = m.two.agent /\ a # m.one.agent
  BY <1>1, <1>4 DEF NoiseFor, Side, Entry
<1> QED
  BY <1>2, <1>3, <1>4

\* A new game has its start state, its match and a shot that waits.
LEMMA BeginGameKeeps ==
  ASSUME IInv, NEW m \in DOMAIN left, NEW a \in Agent, BeginGame(m, a)
  PROVE  IInv' /\ KeepsRecords
<1>0. PICK g0 : g0 = lastGame + 1
  OBVIOUS
<1> DEFINE new == [match |-> m,
                   agents |-> [i \in Side |-> IF i = 1 THEN a ELSE m.one.agent + m.two.agent - a],
                   noise |-> NoiseFor(m, a),
                   clock |-> [i \in Side |-> IF i = 1 THEN m.one.setting ELSE m.two.setting],
                   shots |-> 0, ended |-> FALSE]
<1>1. /\ m \in Match /\ left[m] \in [Side -> Nat] /\ lastGame \in Nat
      /\ DOMAIN games \subseteq 1 .. lastGame /\ g0 \notin DOMAIN games
  BY <1>0 DEF IInv, TypeOK
<1>2. /\ lastGame' = g0 /\ DOMAIN games' = DOMAIN games \cup {g0} /\ games'[g0] = new
      /\ \A g \in DOMAIN games : games'[g] = games[g]
  BY <1>0, <1>1 DEF BeginGame
<1>3. /\ DOMAIN left' = DOMAIN left
      /\ states' = states \cup {<<g0, 0>>} /\ pending' = pending \cup {<<g0, 0>>}
      /\ UNCHANGED <<entries, master, round, cache, upkeep>>
  BY <1>0 DEF BeginGame, setup
<1>4. new \in Game
  <2>1. /\ m.one.setting \in Setting /\ m.two.setting \in Setting
    BY <1>1 DEF Match, Entry
  <2> QED
    BY <1>1, <2>1, BegunFair DEF Game, Side, BeginGame
<1>5. \A n \in DOMAIN left' : left'[n] \in [Side -> Nat]
  BY <1>1 DEF BeginGame, SideToBegin, IInv, TypeOK
<1>6. TypeOK'
  BY <1>0, <1>1, <1>2, <1>3, <1>4, <1>5 DEF IInv, TypeOK
<1>7. /\ StatesOf(g0)' = {<<g0, 0>>} /\ Latest(g0)' = <<g0, 0>>
      /\ \A g \in DOMAIN games : StatesOf(g)' = StatesOf(g) /\ Latest(g)' = Latest(g)
  BY <1>2 DEF StatesOf, Latest
<1>8. Open' = Open \cup {g0}
  BY <1>2 DEF Open
<1>9. Waiting' /\ Cached'
  BY <1>2, <1>3, <1>7, <1>8 DEF IInv, Waiting, Cached, Open
<1>10. Kept' /\ KeepsRecords
  BY <1>2, <1>3, <1>7 DEF IInv, Kept, KeepsRecords
<1>11. Referenced' /\ CleanupGoesThrough' /\ FromAStart'
  BY <1>2, <1>3, <1>7 DEF IInv, Referenced, CleanupGoesThrough, FromAStart
<1>12. NoiseFollowsAgent'
  <2>1. \A i \in Side : new.agents[i] = EntryOf(new, i).agent /\ new.noise[i] = EntryOf(new, i).setting
    BY <1>1, BegunFair DEF EntryOf, Side, BeginGame
  <2> QED
    BY <1>2, <2>1 DEF IInv, NoiseFollowsAgent, EntryOf
<1> QED
  BY <1>6, <1>9, <1>10, <1>11, <1>12 DEF IInv

\* A shot moves its game from one state to the next.
LEMMA ShootKeeps ==
  ASSUME IInv, NEW g0 \in Open, NEW last \in BOOLEAN, NEW test \in BOOLEAN, Shoot(g0, last, test)
  PROVE  IInv' /\ KeepsRecords
<1> DEFINE next == <<g0, games[g0].shots + 1>>
<1>1. /\ g0 \in DOMAIN games /\ games[g0] \in Game /\ games[g0].shots \in Nat
      /\ g0 \in 1 .. lastGame /\ lastGame \in Nat
  BY DEF Open, IInv, TypeOK, Game
<1>2. /\ games' = [games EXCEPT ![g0].shots = @ + 1, ![g0].ended = last]
      /\ states' = states \cup {next}
      /\ pending' = (pending \ {Latest(g0)}) \cup (IF last THEN {} ELSE {next})
      /\ cache' = IF last /\ test THEN cache \cup {next} ELSE cache
      /\ UNCHANGED <<entries, master, round, left, lastGame, upkeep>>
  BY DEF Shoot, setup
<1>3. /\ DOMAIN games' = DOMAIN games /\ games'[g0].shots = games[g0].shots + 1
      /\ games'[g0].ended = last /\ games'[g0].match = games[g0].match
      /\ games'[g0].agents = games[g0].agents /\ games'[g0].noise = games[g0].noise
      /\ games'[g0] \in Game
      /\ \A g \in DOMAIN games \ {g0} : games'[g] = games[g]
  <2>1. games'[g0] = [games[g0] EXCEPT !.shots = @ + 1, !.ended = last]
    BY <1>1, <1>2
  <2>2. DOMAIN games' = DOMAIN games /\ \A g \in DOMAIN games \ {g0} : games'[g] = games[g]
    BY <1>2
  <2>3. games'[g0].shots = games[g0].shots + 1 /\ games'[g0].ended = last
    BY <1>1, <2>1 DEF Game
  <2>4. games'[g0] \in Game
    <3>1. games[g0].shots + 1 \in Nat
      BY <1>1
    <3> QED
      BY <1>1, <2>1, <3>1, Zenon DEF Game
  <2> QED
    BY <1>1, <2>1, <2>2, <2>3, <2>4 DEF Game
<1>4. TypeOK'
  <2>1. next \in (1 .. lastGame) \X Nat
    BY <1>1
  <2>2. \A g \in DOMAIN games' : games'[g] \in Game
    BY <1>3 DEF IInv, TypeOK
  <2>3. states' \subseteq (1 .. lastGame') \X Nat /\ pending' \subseteq states' /\ cache' \subseteq states'
    BY <1>2, <2>1 DEF IInv, TypeOK
  <2> QED
    BY <1>2, <1>3, <2>2, <2>3 DEF IInv, TypeOK
<1>5. /\ Latest(g0)' = next /\ Latest(g0) # next /\ StatesOf(g0)' = StatesOf(g0) \cup {next}
      /\ next \in StatesOf(g0)'
      /\ \A g \in DOMAIN games \ {g0} : StatesOf(g)' = StatesOf(g) /\ Latest(g)' = Latest(g)
  BY <1>1, <1>3 DEF StatesOf, Latest
<1>6. Open' = IF last THEN Open \ {g0} ELSE Open
  BY <1>3 DEF Open
<1>7. Waiting'
  <2>1. \A g \in Open' : Latest(g)' \in pending'
    BY <1>2, <1>5, <1>6 DEF IInv, Waiting, Open, Latest
  <2>2. \A s \in pending' : s[1] \in Open' /\ s = Latest(s[1])'
    BY <1>2, <1>5, <1>6 DEF IInv, Waiting, Open, Latest
  <2> QED
    BY <2>1, <2>2 DEF Waiting
<1>8. Cached'
  BY <1>1, <1>2, <1>3, <1>5 DEF IInv, Cached
<1>9. Kept' /\ KeepsRecords
  BY <1>2, <1>3, <1>5 DEF IInv, Kept, KeepsRecords
<1>10. Referenced' /\ CleanupGoesThrough' /\ FromAStart'
  BY <1>1, <1>2, <1>3, <1>5 DEF IInv, Referenced, CleanupGoesThrough, FromAStart
<1>11. NoiseFollowsAgent'
  BY <1>3 DEF IInv, NoiseFollowsAgent, EntryOf
<1> QED
  BY <1>4, <1>7, <1>8, <1>9, <1>10, <1>11 DEF IInv

\* Ending some games takes their shots off the waiting list and nothing else.
LEMMA EndingKeeps ==
  ASSUME IInv, NEW over \in SUBSET Open,
         UNCHANGED <<entries, master, round, left, lastGame, states, cache>>,
         upkeep' = upkeep \/ (upkeep = "idle" /\ upkeep' = "games"),
         DOMAIN games' = DOMAIN games,
         \A g \in DOMAIN games :
           games'[g] = IF g \in over THEN [games[g] EXCEPT !.ended = TRUE] ELSE games[g],
         pending' = {s \in pending : s[1] \notin over}
  PROVE  IInv' /\ KeepsRecords
<1>1. \A g \in DOMAIN games :
        /\ games'[g] \in Game
        /\ games'[g].shots = games[g].shots /\ games'[g].match = games[g].match
        /\ games'[g].agents = games[g].agents /\ games'[g].noise = games[g].noise
        /\ games'[g].ended <=> (games[g].ended \/ g \in over)
  <2> SUFFICES ASSUME NEW g \in DOMAIN games
               PROVE  /\ games'[g] \in Game
                      /\ games'[g].shots = games[g].shots /\ games'[g].match = games[g].match
                      /\ games'[g].agents = games[g].agents /\ games'[g].noise = games[g].noise
                      /\ games'[g].ended <=> (games[g].ended \/ g \in over)
    OBVIOUS
  <2>1. games[g] \in Game
    BY DEF IInv, TypeOK
  <2>2. CASE g \in over
    BY <2>1, <2>2 DEF Game
  <2>3. CASE g \notin over
    BY <2>1, <2>3
  <2> QED
    BY <2>2, <2>3
<1>2. Open' = Open \ over
  BY <1>1 DEF Open
<1>3. \A g \in DOMAIN games : StatesOf(g)' = StatesOf(g) /\ Latest(g)' = Latest(g)
  BY <1>1 DEF StatesOf, Latest
<1>4. TypeOK'
  BY <1>1 DEF IInv, TypeOK
<1>5. Waiting'
  BY <1>2, <1>3 DEF IInv, Waiting, Open, Latest
<1>6. Cached' /\ Kept' /\ KeepsRecords
  BY <1>1, <1>3 DEF IInv, Cached, Kept, KeepsRecords
<1>7. Referenced' /\ CleanupGoesThrough' /\ FromAStart'
  BY <1>3 DEF IInv, Referenced, CleanupGoesThrough, FromAStart
<1>8. NoiseFollowsAgent'
  BY <1>1 DEF IInv, NoiseFollowsAgent, EntryOf
<1> QED
  BY <1>4, <1>5, <1>6, <1>7, <1>8 DEF IInv

\* A conceded or late game, one of those that cleanup_pendingshots ends.
LEMMA GiveUpKeeps ==
  ASSUME IInv, NEW g \in Open, GiveUp(g)
  PROVE  IInv' /\ KeepsRecords
<1>0. PICK over \in SUBSET Open : over = {g}
  OBVIOUS
<1>1. g \in DOMAIN games /\ \A h \in DOMAIN games : games[h] \in Game
  BY DEF Open, IInv, TypeOK
<1>2. /\ DOMAIN games' = DOMAIN games
      /\ \A h \in DOMAIN games :
           games'[h] = IF h \in over THEN [games[h] EXCEPT !.ended = TRUE] ELSE games[h]
  BY <1>0, <1>1 DEF GiveUp
<1>3. pending' = {s \in pending : s[1] \notin over}
  BY <1>0 DEF GiveUp, IInv, Waiting, Latest
<1>4. /\ UNCHANGED <<entries, master, round, left, lastGame, states, cache>>
      /\ upkeep' = upkeep \/ (upkeep = "idle" /\ upkeep' = "games")
  BY DEF GiveUp, setup
<1> QED
  BY <1>2, <1>3, <1>4, EndingKeeps

LEMMA SweepKeeps ==
  ASSUME IInv, NEW overdue \in SUBSET Open, Sweep(overdue)
  PROVE  IInv' /\ KeepsRecords
<1>1. /\ DOMAIN games' = DOMAIN games
      /\ \A g \in DOMAIN games :
           games'[g] = IF g \in overdue THEN [games[g] EXCEPT !.ended = TRUE] ELSE games[g]
  BY DEF Sweep
<1>2. \A g \in DOMAIN games : games[g] \in Game
  BY DEF IInv, TypeOK
<1>3. \A g \in Open : games'[g].ended <=> g \in overdue
  <2>1. \A g \in overdue : games'[g].ended
    BY <1>1, <1>2 DEF Open, Game
  <2>2. \A g \in Open \ overdue : games'[g] = games[g] /\ ~games[g].ended
    BY <1>1 DEF Open
  <2> QED
    BY <2>1, <2>2
<1>4. pending' = {s \in pending : s[1] \notin overdue}
  BY <1>3 DEF Sweep, IInv, Waiting
<1>5. /\ UNCHANGED <<entries, master, round, left, lastGame, states, cache>>
      /\ upkeep' = upkeep \/ (upkeep = "idle" /\ upkeep' = "games")
  BY DEF Sweep, setup
<1> QED
  BY <1>1, <1>4, <1>5, EndingKeeps

\* The games that go have no shot and wait for none: nothing that is cached,
\* waits or is being played refers to them.
LEMMA DeleteShotlessKeeps ==
  ASSUME IInv, DeleteShotless
  PROVE  IInv' /\ KeepsRecords
<1>1. /\ DOMAIN games' = DOMAIN games \ Shotless
      /\ \A g \in DOMAIN games' : games'[g] = games[g]
      /\ pending' = {s \in pending : s[1] \notin Shotless}
      /\ upkeep' = "states"
      /\ UNCHANGED <<entries, master, round, left, lastGame, states, cache>>
  BY DEF DeleteShotless, Restrict, setup, Shotless
<1>2. \A g \in Shotless : g \notin Open
  BY DEF IInv, Waiting, Latest, Shotless
<1>3. Open' = Open /\ pending' = pending
  BY <1>1, <1>2 DEF Open, IInv, Waiting
<1>4. \A g \in DOMAIN games' : StatesOf(g)' = StatesOf(g) /\ Latest(g)' = Latest(g)
  BY <1>1 DEF StatesOf, Latest
<1>5. TypeOK'
  BY <1>1, <1>3 DEF IInv, TypeOK
<1>6. Waiting'
  BY <1>1, <1>2, <1>3, <1>4 DEF IInv, Waiting, Open
<1>7. Cached'
  <2>1. \A g \in Shotless : games[g].shots = 0
    BY DEF Shotless
  <2>2. \A s \in cache : games[s[1]].shots > 0 /\ s[1] \notin Shotless
    BY <2>1 DEF IInv, Cached
  <2> QED
    BY <1>1, <1>4, <2>2 DEF IInv, Cached
<1>8. Kept'
  BY <1>1, <1>4 DEF IInv, Kept
<1>9. KeepsRecords
  <2>1. \A g \in DOMAIN games : games[g].shots > 0 \/ ~games[g].ended => g \notin Shotless
    BY <1>2 DEF Shotless, Open
  <2> QED
    BY <1>1, <2>1 DEF KeepsRecords, IInv, Kept
<1>10. Referenced' /\ CleanupGoesThrough' /\ NoiseFollowsAgent' /\ FromAStart'
  BY <1>1 DEF IInv, Referenced, CleanupGoesThrough, NoiseFollowsAgent, FromAStart, EntryOf
<1> QED
  BY <1>5, <1>6, <1>7, <1>8, <1>9, <1>10 DEF IInv

\* What waits or is cached is a state of its game, hence no orphan.
LEMMA DeleteOrphansKeeps ==
  ASSUME IInv, DeleteOrphans
  PROVE  IInv' /\ KeepsRecords
<1>1. Orphans \cap (pending \cup cache) = {}
  <2>1. \A s \in pending : s \in StatesOf(s[1]) /\ s[1] \in DOMAIN games
    <3>1. \A g \in DOMAIN games : games[g].shots \in Nat
      BY DEF IInv, TypeOK, Game
    <3> QED
      BY <3>1 DEF IInv, Waiting, Latest, StatesOf, Open
  <2> QED
    BY <2>1 DEF Orphans, IInv, Cached
<1>2. /\ states' = states \ Orphans /\ upkeep' = "matches"
      /\ UNCHANGED <<entries, master, round, left, games, lastGame, pending, cache>>
  BY <1>1 DEF DeleteOrphans, setup
<1>3. /\ Open' = Open
      /\ \A g \in DOMAIN games : StatesOf(g)' = StatesOf(g) /\ Latest(g)' = Latest(g)
  BY <1>2 DEF Open, StatesOf, Latest
<1>4. \A g \in DOMAIN games : StatesOf(g) \subseteq states'
  BY <1>2 DEF Orphans, IInv, Kept
<1>5. TypeOK'
  BY <1>1, <1>2 DEF IInv, TypeOK
<1>6. Waiting' /\ Cached'
  BY <1>2, <1>3 DEF IInv, Waiting, Cached, Open
<1>7. Kept' /\ KeepsRecords
  BY <1>2, <1>3, <1>4 DEF IInv, Kept, KeepsRecords
<1>8. Referenced' /\ CleanupGoesThrough' /\ NoiseFollowsAgent' /\ FromAStart'
  BY <1>2, <1>3
  DEF IInv, Referenced, Orphans, CleanupGoesThrough, NoiseFollowsAgent, FromAStart, EntryOf
<1> QED
  BY <1>5, <1>6, <1>7, <1>8 DEF IInv

\* An empty match has no game, so none goes with it.
LEMMA DeleteEmptyKeeps ==
  ASSUME IInv, DeleteEmpty
  PROVE  IInv' /\ KeepsRecords
<1>1. /\ DOMAIN games' = DOMAIN games /\ \A g \in DOMAIN games : games'[g] = games[g]
      /\ \A g \in DOMAIN games : games[g].match \notin Empty
  BY DEF DeleteEmpty, Empty, Restrict
<1>2. pending' = pending
  BY <1>1 DEF DeleteEmpty, IInv, Waiting, Open
<1>3. /\ DOMAIN left' = DOMAIN left \ Empty /\ \A m \in DOMAIN left' : left'[m] = left[m]
      /\ upkeep = "matches" /\ upkeep' = "idle"
      /\ UNCHANGED <<entries, master, round, lastGame, states, cache>>
  BY DEF DeleteEmpty, Restrict, setup
<1>4. /\ Open' = Open
      /\ \A g \in DOMAIN games : StatesOf(g)' = StatesOf(g) /\ Latest(g)' = Latest(g)
  BY <1>1 DEF Open, StatesOf, Latest
<1>5. TypeOK'
  BY <1>1, <1>2, <1>3 DEF IInv, TypeOK
<1>6. Waiting' /\ Cached'
  BY <1>1, <1>2, <1>3, <1>4 DEF IInv, Waiting, Cached, Open
<1>7. Kept'
  BY <1>1, <1>3, <1>4 DEF IInv, Kept
<1>8. KeepsRecords
  BY <1>1, <1>3 DEF KeepsRecords, IInv, Kept, Empty, Side
<1>9. Referenced' /\ CleanupGoesThrough' /\ NoiseFollowsAgent' /\ FromAStart'
  BY <1>1, <1>3, <1>4 DEF IInv, Referenced, CleanupGoesThrough, NoiseFollowsAgent, FromAStart, EntryOf
<1> QED
  BY <1>5, <1>6, <1>7, <1>8, <1>9 DEF IInv

-----------------------------------------------------------------------------
\* The invariant holds of an empty database.
LEMMA StartsEmpty == Init => IInv
<1> SUFFICES ASSUME Init PROVE IInv
  OBVIOUS
<1>1. DOMAIN games = {} /\ DOMAIN left = {}
  BY DEF Init
<1>2. TypeOK
  BY <1>1, TournamentAssumption DEF Init, TypeOK
<1> QED
  BY <1>1, <1>2
  DEF Init, IInv, Waiting, Cached, Kept, Referenced, NoiseFollowsAgent, CleanupGoesThrough, FromAStart,
      Open

\* Every step keeps the invariant and the records.
LEMMA StepKeeps ==
  ASSUME IInv, [Next]_vars
  PROVE  IInv' /\ KeepsRecords
<1>1. ASSUME NEW row \in Entry, AddAgent(row) PROVE IInv' /\ KeepsRecords
  <2>1. row.agent \in Agent
    BY DEF Entry
  <2> QED
    BY <1>1, <2>1, EntriesKeep
<1>2. ASSUME NEW a \in Agent, RemoveAgent(a) PROVE IInv' /\ KeepsRecords
  <2>1. PICK row \in Entry : TRUE
    BY <1>2 DEF RemoveAgent, IInv, TypeOK
  <2> QED
    BY <1>2, <2>1, EntriesKeep
<1>3. CASE Start
  BY <1>3, StartKeeps
<1>4. ASSUME NEW m \in DOMAIN left, NEW a \in Agent, BeginGame(m, a) PROVE IInv' /\ KeepsRecords
  BY <1>4, BeginGameKeeps
<1>5. ASSUME NEW g \in Open, GiveUp(g) PROVE IInv' /\ KeepsRecords
  BY <1>5, GiveUpKeeps
<1>6. ASSUME NEW g \in Open, NEW last \in BOOLEAN, NEW test \in BOOLEAN, Shoot(g, last, test)
      PROVE  IInv' /\ KeepsRecords
  BY <1>6, ShootKeeps
<1>7. ASSUME NEW overdue \in SUBSET Open, Sweep(overdue) PROVE IInv' /\ KeepsRecords
  BY <1>7, SweepKeeps
<1>8. CASE DeleteShotless \/ DeleteOrphans \/ DeleteEmpty
  BY <1>8, DeleteShotlessKeeps, DeleteOrphansKeeps, DeleteEmptyKeeps
<1>9. CASE UNCHANGED vars
  BY <1>9
  DEF vars, setup, IInv, TypeOK, Waiting, Cached, Kept, Referenced, NoiseFollowsAgent,
      CleanupGoesThrough, FromAStart, KeepsRecords, StatesOf, Latest, Open, EntryOf
<1> QED
  BY <1>1, <1>2, <1>3, <1>4, <1>5, <1>6, <1>7, <1>8, <1>9 DEF Next

LEMMA Inductive == Spec => []IInv
<1>1. IInv /\ [Next]_vars => IInv'
  BY StepKeeps
<1> QED
  BY <1>1, StartsEmpty, PTL DEF Spec

\* The tables keep their types; no match begins more games than it has.
THEOREM TypesHold == Spec => []TypeOK
<1>1. IInv => TypeOK
  BY DEF IInv
<1> QED
  BY <1>1, Inductive, PTL

\* add_game_to_match: whoever breaks, both agents play, each with its own noise.
THEOREM NoiseAlwaysFollows == Spec => []NoiseFollowsAgent
<1>1. IInv => NoiseFollowsAgent
  BY DEF IInv
<1> QED
  BY <1>1, Inductive, PTL

\* cleanup(): no statement of it meets a state that a foreign key protects.
THEOREM CleanupAlwaysGoesThrough == Spec => []CleanupGoesThrough
<1>1. IInv => CleanupGoesThrough
  BY DEF IInv
<1> QED
  BY <1>1, Inductive, PTL

\* clean_orphaned_states: before and after a cleanup every state is some game's.
THEOREM NeverOrphans == Spec => []NoOrphans
<1>1. IInv => NoOrphans
  BY DEF IInv, Referenced, NoOrphans
<1> QED
  BY <1>1, Inductive, PTL

\* cleanup(): what is played, was ended by a shot or is still to come stays.
THEOREM RecordsAlwaysStay == Spec => RecordsStay
<1>1. IInv /\ [Next]_vars => [KeepsRecords]_vars
  BY StepKeeps
<1> QED
  BY <1>1, Inductive, PTL DEF Spec, RecordsStay

\* A start adds the match of x and y exactly if the join has the pair.
LEMMA MatchesOfAStart ==
  ASSUME IInv, Start, NEW x \in entries, NEW y \in entries
  PROVE  [round |-> round', one |-> x, two |-> y] \in DOMAIN left' <=>
           \/ x.agent < y.agent /\ master = Nobody
           \/ x.agent = master /\ y.agent # master
<1> DEFINE m == [round |-> round', one |-> x, two |-> y]
<1>1. m \notin DOMAIN left
  <2>1. m.round = round' /\ round' = round + 1 /\ round \in Nat
    BY TournamentAssumption DEF Start, IInv, TypeOK
  <2> QED
    BY <2>1 DEF IInv, FromAStart
<1>2. m \in DOMAIN left' <=> \E p \in Pairs : m = [round |-> round', one |-> p[1], two |-> p[2]]
  BY <1>1 DEF Start
<1>3. ASSUME NEW p \in Pairs, m = [round |-> round', one |-> p[1], two |-> p[2]]
      PROVE  p = <<x, y>>
  <2>1. m.one = p[1] /\ m.two = p[2] /\ m.one = x /\ m.two = y
    BY <1>3
  <2> QED
    BY <2>1 DEF Pairs
<1>4. m \in DOMAIN left' <=> <<x, y>> \in Pairs
  BY <1>2, <1>3
<1> QED
  BY <1>4 DEF Pairs

\* populate_tournament: whatever was entered, everybody meets those it is to meet once.
THEOREM EveryoneIsAlwaysPaired == Spec => EveryoneIsPaired
<1> DEFINE due(x, y) == x.agent # y.agent /\ (master = Nobody \/ master \in {x.agent, y.agent})
           metBy(x, y) == {[round |-> round', one |-> x, two |-> y],
                           [round |-> round', one |-> y, two |-> x]} \cap DOMAIN left'
<1>1. ASSUME IInv, [Next]_vars, round' # round, NEW x \in entries, NEW y \in entries
      PROVE  Cardinality(metBy(x, y)) = IF due(x, y) THEN 1 ELSE 0
  <2> DEFINE xy == [round |-> round', one |-> x, two |-> y]
             yx == [round |-> round', one |-> y, two |-> x]
  <2>1. Start
    BY <1>1
    DEF Next, vars, setup, AddAgent, RemoveAgent, BeginGame, Shoot, GiveUp, Sweep, DeleteShotless,
        DeleteOrphans, DeleteEmpty
  <2>2. x.agent \in Nat /\ y.agent \in Nat /\ x.agent # Nobody /\ y.agent # Nobody
    BY <1>1, TournamentAssumption DEF IInv, TypeOK, Entry
  <2>3. /\ xy \in DOMAIN left' <=> \/ x.agent < y.agent /\ master = Nobody
                                   \/ x.agent = master /\ y.agent # master
        /\ yx \in DOMAIN left' <=> \/ y.agent < x.agent /\ master = Nobody
                                   \/ y.agent = master /\ x.agent # master
    BY <1>1, <2>1, MatchesOfAStart
  <2>4. CASE due(x, y)
    <3>1. metBy(x, y) = {xy} \/ metBy(x, y) = {yx}
      BY <2>2, <2>3, <2>4
    <3>2. Cardinality({xy}) = 1 /\ Cardinality({yx}) = 1
      BY FS_Singleton
    <3> QED
      BY <2>4, <3>1, <3>2
  <2>5. CASE ~due(x, y)
    <3>1. metBy(x, y) = {}
      BY <2>2, <2>3, <2>5
    <3> QED
      BY <2>5, <3>1, FS_EmptySet
  <2> QED
    BY <2>4, <2>5
<1>2. IInv /\ [Next]_vars =>
        [round' # round =>
           \A x, y \in entries :
             LET met == {[round |-> round', one |-> x, two |-> y],
                         [round |-> round', one |-> y, two |-> x]} \cap DOMAIN left'
             IN  Cardinality(met) =
                   IF x.agent # y.agent /\ (master = Nobody \/ master \in {x.agent, y.agent})
                   THEN 1 ELSE 0]_vars
  BY <1>1
<1> QED
  BY <1>2, Inductive, PTL DEF Spec, EveryoneIsPaired
=============================================================================
