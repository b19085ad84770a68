------------------------------- MODULE Tournament -------------------------------
(***************************************************************************)
(* The life of a tournament in database/pool-schema.sql: agents are        *)
(* entered, populate_tournament pairs them in matches, clients begin the   *)
(* games (add_game_to_match) and play them, and cleanup() removes what is  *)
(* empty, while play goes on.                                              *)
(*                                                                         *)
(* Requests of clients are atomic here; PoolServer takes them apart.       *)
(* cleanup() is a function of several statements, each of which sees what  *)
(* has been committed by then: an action each.                             *)
(*                                                                         *)
(* The noise and the time limit of an entry are one "setting": both are to *)
(* go with the agent.  A state is known by its game and its number in it.  *)
(***************************************************************************)
EXTENDS Integers, FiniteSets, Functions

CONSTANTS
  Agent,       \* agentid
  Setting,     \* what an agent may be entered with
  Nobody,      \* NULL for master_agent
  MaxPerMatch, \* tournaments.max_games
  MaxRounds,   \* bound: how often the tournament is started
  MaxGames,    \* bound: the number of games begun
  MaxShots     \* bound: the shots of a game

ASSUME TournamentAssumption ==
  /\ Agent \subseteq Nat /\ Nobody \notin Agent
  /\ MaxPerMatch \in Nat /\ MaxRounds \in Nat /\ MaxGames \in Nat /\ MaxShots \in Nat

Entry == [agent : Agent, setting : Setting]               \* tournament_agents
Match == [round : 1 .. MaxRounds, one : Entry, two : Entry]
Side  == {1, 2}                                           \* agent 1 and 2 of a match
Game  == [match : Match, agents : [Side -> Agent], noise : [Side -> Setting],
          clock : [Side -> Setting], shots : Nat, ended : BOOLEAN]

VARIABLES
  entries,  \* tournament_agents
  master,   \* tournaments.master_agent
  round,    \* how often the tournament was started
  left,     \* matches, with gamesleft1 and gamesleft2
  games,    \* games by gameid; player 1 breaks; clock is that of the start state
  lastGame, \* the sequence of game ids
  states,   \* states, of which number 0 is the start_state
  pending,  \* pendingshots
  cache,    \* state_cache
  upkeep    \* the statement cleanup() comes to next

setup == <<entries, master, round>>
vars  == <<setup, left, games, lastGame, states, pending, cache, upkeep>>

Open == {g \in DOMAIN games : ~games[g].ended}

\* The states a game and its shots refer to.
StatesOf(g) == {g} \X (0 .. games[g].shots)

\* The state after the last shot.
Latest(g) == <<g, games[g].shots>>

-----------------------------------------------------------------------------
Init ==
  /\ entries = {} /\ master \in Agent \cup {Nobody} /\ round = 0
  /\ left = <<>> /\ games = <<>> /\ lastGame = 0
  /\ states = {} /\ pending = {} /\ cache = {} /\ upkeep = "idle"

(* WHO: the owner, who enters an agent.  The page offers it until the start, and
   a page that was loaded before goes on offering it. *)
AddAgent(row) ==
  /\ row \notin entries                                   \* primary key
  /\ entries' = entries \cup {row}
  /\ UNCHANGED <<master, round, left, games, lastGame, states, pending, cache, upkeep>>

(* WHO: the owner, who takes an agent out again, with every setting. *)
RemoveAgent(a) ==
  /\ entries' = {row \in entries : row.agent # a} /\ entries' # entries
  /\ UNCHANGED <<master, round, left, games, lastGame, states, pending, cache, upkeep>>

\* Mutant: the rows of a and b are not ordered by their agents.
PairsBothWays ==
  {p \in entries \X entries :
     \/ p[1].agent # p[2].agent /\ master = Nobody
     \/ p[1].agent = master /\ p[2].agent # master}

\* The rows of a and b that populate_tournament joins.
Pairs ==
  {p \in entries \X entries :
     \/ p[1].agent < p[2].agent /\ master = Nobody
     \/ p[1].agent = master /\ p[2].agent # master}

(* WHO: the owner, who starts the tournament: populate_tournament.  Nothing looks
   whether it was started before. *)
Start ==
  /\ round < MaxRounds
  /\ round' = round + 1
  /\ left' = [m \in DOMAIN left \cup {[round |-> round', one |-> p[1], two |-> p[2]] : p \in Pairs} |->
                IF m \in DOMAIN left THEN left[m] ELSE [i \in Side |-> MaxPerMatch \div 2]]
  /\ UNCHANGED <<entries, master, games, lastGame, states, pending, cache, upkeep>>

\* Mutant: a match goes on when its games are used up.
SideToBeginAny(m, a) == {i \in Side : a = IF i = 1 THEN m.one.agent ELSE m.two.agent}

\* select_pending_match: the side of m for which agent a has a game to begin.
SideToBegin(m, a) ==
  {i \in Side : left[m][i] > 0 /\ a = IF i = 1 THEN m.one.agent ELSE m.two.agent}

\* Mutant: the noise levels do not change places.
NoiseUnswapped(m, a) == [i \in Side |-> IF i = 1 THEN m.one.setting ELSE m.two.setting]

\* add_game_to_match: the noise levels of the players of a game that a begins.
NoiseFor(m, a) ==
  IF a = m.one.agent THEN [i \in Side |-> IF i = 1 THEN m.one.setting ELSE m.two.setting]
  ELSE [i \in Side |-> IF i = 1 THEN m.two.setting ELSE m.one.setting]

(* WHO: a client of agent a, asking for a shot: get_shot with add_game_to_match.  The
   opponent is computed from the sum of the ids; the clocks are timelimit1 and
   timelimit2 of the match, whoever breaks.  PoolServer has the limit of active
   games and the experiments. *)
BeginGame(m, a) ==
  /\ SideToBegin(m, a) # {} /\ lastGame < MaxGames
  /\ lastGame' = lastGame + 1
  /\ left' = [left EXCEPT ![m] = [i \in Side |-> IF i \in SideToBegin(m, a) THEN @[i] - 1 ELSE @[i]]]
  /\ games' = [g \in DOMAIN games \cup {lastGame'} |->
                 IF g \in DOMAIN games THEN games[g]
                 ELSE [match |-> m,
                       agents |-> [i \in Side |-> IF i = 1 THEN a ELSE m.one.agent + m.two.agent - a],
                       noise |-> NoiseFor(m, a),
                       clock |-> [i \in Side |-> IF i = 1 THEN m.one.setting ELSE m.two.setting],
                       shots |-> 0, ended |-> FALSE]]
  /\ states' = states \cup {<<lastGame', 0>>} /\ pending' = pending \cup {<<lastGame', 0>>}
  /\ UNCHANGED <<setup, cache, upkeep>>

(* WHO: the player to shoot, with a legal shot: submit_shot.  It may end the game,
   and the end of a test puts the last state in the cache. *)
Shoot(g, last, test) ==
  LET next == <<g, games[g].shots + 1>>
  IN  /\ Latest(g) \in pending /\ games[g].shots < MaxShots
      /\ games' = [games EXCEPT ![g].shots = @ + 1, ![g].ended = last]
      /\ states' = states \cup {next}
      /\ pending' = (pending \ {Latest(g)}) \cup (IF last THEN {} ELSE {next})
      /\ cache' = IF last /\ test THEN cache \cup {next} ELSE cache
      /\ UNCHANGED <<setup, left, lastGame, upkeep>>

(* WHO: the player to shoot, conceding or too late: submit_shot. *)
GiveUp(g) ==
  /\ Latest(g) \in pending
  /\ games' = [games EXCEPT ![g].ended = TRUE]
  /\ pending' = pending \ {Latest(g)}
  /\ UNCHANGED <<setup, left, lastGame, states, cache, upkeep>>

(* WHO: the administrator, calling cleanup(); its first statement is
   cleanup_pendingshots. *)
Sweep(overdue) ==
  /\ upkeep = "idle" /\ overdue \subseteq Open
  /\ games' = [g \in DOMAIN games |->
                 IF g \in overdue THEN [games[g] EXCEPT !.ended = TRUE] ELSE games[g]]
  /\ pending' = {s \in pending : ~games'[s[1]].ended}
  /\ upkeep' = "games"
  /\ UNCHANGED <<setup, left, lastGame, states, cache>>

\* Mutant: a game that waits for its first shot is empty.
ShotlessPending == {g \in DOMAIN games : games[g].shots = 0}

\* Games without a shot and without a row of pendingshots.
Shotless == {g \in DOMAIN games : games[g].shots = 0 /\ \A s \in pending : s[1] # g}

(* WHO: cleanup(), "Delete shotless games". *)
DeleteShotless ==
  /\ upkeep = "games" /\ upkeep' = "states"
  /\ games' = Restrict(games, DOMAIN games \ Shotless)
  /\ pending' = {s \in pending : s[1] \notin Shotless}    \* ON DELETE CASCADE
  /\ UNCHANGED <<setup, left, lastGame, states, cache>>

\* Mutant: the states before a shot are looked up, those after it are not.
OrphansOfPrevious == {s \in states : ~\E g \in DOMAIN games : s \in {g} \X (0 .. games[g].shots - 1) \cup {<<g, 0>>}}

\* Mutant: start states are never removed.
OrphansPlayed == {s \in states : s[2] > 0 /\ ~\E g \in DOMAIN games : s \in StatesOf(g)}

\* clean_orphaned_states: no shot leads from or to them and no game starts there.
Orphans == {s \in states : ~\E g \in DOMAIN games : s \in StatesOf(g)}

(* WHO: cleanup(), "Delete orphaned states".  The foreign keys of pendingshots and
   state_cache would undo the whole cleanup. *)
DeleteOrphans ==
  /\ upkeep = "states"
  /\ IF Orphans \cap (pending \cup cache) = {}
     THEN states' = states \ Orphans /\ upkeep' = "matches"
     ELSE upkeep' = "failed" /\ UNCHANGED states
  /\ UNCHANGED <<setup, left, games, lastGame, pending, cache>>

\* Matches that have begun all their games and have none any more.
Empty == {m \in DOMAIN left :
            left[m] = [i \in Side |-> 0] /\ \A g \in DOMAIN games : games[g].match # m}

(* WHO: cleanup(), "Delete empty matches", with their games. *)
DeleteEmpty ==
  /\ upkeep = "matches" /\ upkeep' = "idle"
  /\ left' = Restrict(left, DOMAIN left \ Empty)
  /\ games' = Restrict(games, {g \in DOMAIN games : games[g].match \notin Empty})
  /\ pending' = {s \in pending : games[s[1]].match \notin Empty}
  /\ UNCHANGED <<setup, lastGame, states, cache>>

Next ==
  \/ \E row \in Entry : AddAgent(row)
  \/ \E a \in Agent : RemoveAgent(a)
  \/ Start
  \/ \E m \in DOMAIN left, a \in Agent : BeginGame(m, a)
  \/ \E g \in Open : GiveUp(g) \/ \E last, test \in BOOLEAN : Shoot(g, last, test)
  \/ \E overdue \in SUBSET Open : Sweep(overdue)
  \/ DeleteShotless \/ DeleteOrphans \/ DeleteEmpty

Spec == Init /\ [][Next]_vars

-----------------------------------------------------------------------------
(***************************************************************************)
(* Properties                                                              *)
(***************************************************************************)

\* Every table has its type, and no match has begun more games than it has.
TypeOK ==
  /\ entries \subseteq Entry /\ master \in Agent \cup {Nobody} /\ round \in 0 .. MaxRounds
  /\ DOMAIN left \subseteq Match /\ \A m \in DOMAIN left : left[m] \in [Side -> Nat]
  /\ lastGame \in Nat /\ DOMAIN games \subseteq 1 .. lastGame
  /\ \A g \in DOMAIN games : games[g] \in Game
  /\ states \subseteq (1 .. lastGame) \X Nat
  /\ pending \subseteq states /\ cache \subseteq states
  /\ upkeep \in {"idle", "games", "states", "matches", "failed"}

\* "(a) one agent plays all other agents, or (b) every two agents play each other":
\* a start pairs any two entries of different agents that are to meet, once, and
\* nobody with itself, however often an agent was entered.
EveryoneIsPaired ==
  [][ round' # round =>
        \A x, y \in entries :
          LET met == {[round |-> round', one |-> x, two |-> y],
                      [round |-> round', one |-> y, two |-> x]} \cap DOMAIN left'
          IN  Cardinality(met) =
                IF x.agent # y.agent /\ (master = Nobody \/ master \in {x.agent, y.agent})
                THEN 1 ELSE 0 ]_vars

\* The entry of player i in game x.
EntryOf(x, i) == IF (i = 1) = (x.agents[1] = x.match.one.agent) THEN x.match.one ELSE x.match.two

\* Both agents of a match play in each of its games, with the noise they were
\* entered with, whoever breaks.
NoiseFollowsAgent ==
  \A g \in DOMAIN games :
    \A i \in Side :
      /\ games[g].agents[i] = EntryOf(games[g], i).agent
      /\ games[g].noise[i] = EntryOf(games[g], i).setting

\* "timelimit1: Amount of time allotted per game for agent 1": so is the time.
LimitFollowsAgent ==
  \A g \in DOMAIN games : \A i \in Side : games[g].clock[i] = EntryOf(games[g], i).setting

\* cleanup() never fails on a state that is still in use, whatever is begun, played
\* and ended between its statements.
CleanupGoesThrough == upkeep # "failed"

\* "Remove all states in the database that are not referenced by a game or a shot":
\* nothing but the cleanup makes such states, and it leaves none.
NoOrphans ==
  upkeep \in {"idle", "games"} => \A s \in states : \E g \in DOMAIN games : s \in StatesOf(g)

\* A step that takes no game which is being played or was ended by a shot, no state
\* of it, and no match that has one or is to.
KeepsRecords ==
  /\ \A g \in DOMAIN games :
       games[g].shots > 0 \/ ~games[g].ended =>
         g \in DOMAIN games' /\ StatesOf(g) \subseteq states' /\ games[g].match \in DOMAIN left'
  /\ \A m \in DOMAIN left : m \notin DOMAIN left' => \A i \in Side : left[m][i] = 0

\* "removing empty matches and games": the cleanup takes nothing else, whatever is
\* begun, played and ended meanwhile.
RecordsStay == [][KeepsRecords]_vars
=============================================================================
