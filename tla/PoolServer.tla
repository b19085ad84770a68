------------------------------ MODULE PoolServer ------------------------------
(***************************************************************************)
(* The match server: the XML-RPC methods get_shot and submit_shot of       *)
(* www/api.pl over the tables of database/pool-schema.sql, together with   *)
(* the client processes that call them.                                    *)
(*                                                                         *)
(* Every request is a CGI process with one database connection in READ     *)
(* COMMITTED mode: each statement sees what was committed before it, and   *)
(* its own writes become visible at COMMIT.  A handler is therefore split  *)
(* into one action per read that another request can overtake, and one     *)
(* action for its writes, which row locks and the commit make atomic.      *)
(* A client runs one request at a time, so the state of a request is kept  *)
(* with its client; several clients may share an agent id (fork mode).     *)
(*                                                                         *)
(* A state id is the position of the state in the list of states created   *)
(* for its game.  cur_player_started is written mover = "starter".         *)
(***************************************************************************)
EXTENDS Integers, Sequences, FiniteSets

CONSTANTS
  Agent,       \* registered agents
  Client,      \* client processes
  AgentOf,     \* the agent each client was started for
  Match,       \* rows of table matches
  MatchRow,    \* the settings of each match
  Straggler,   \* agents that may be over an hour late with an answer
  MaxGames,    \* bound: games started in all
  MaxStates,   \* bound: states created per game
  MaxRetries,  \* AIBase's MAX_RETRIES
  None         \* SQL NULL

MatchRows ==
  [agent1: Agent, agent2: Agent \cup {None}, priority: Int,
   maxActive: Nat,      \* max_active_games; NULL behaves as 0
   rules: 1..3, timed: BOOLEAN, special: BOOLEAN, left1: Nat, left2: Nat]

ASSUME ConstantsAssumption ==
  /\ AgentOf \in [Client -> Agent]
  /\ MatchRow \in [Match -> MatchRows]
  /\ Straggler \subseteq Agent
  /\ MaxGames \in Nat /\ MaxStates \in Nat /\ MaxRetries \in Nat
  /\ None \notin Agent \cup Match

VARIABLES
  left,        \* gamesleft1 and gamesleft2 of each match
  games,       \* table games
  states,      \* table states: the states created for each game, in order
  pending,     \* table pendingshots
  shots,       \* table shots
  cache,       \* table state_cache
  pc,          \* where the request of each client stands
  overdue,     \* rows its cleanup found an hour overdue
  job,         \* the shot it selected, or its client is working on
  chosen,      \* the match it is about to start a game of
  tries        \* how often its client had to resubmit the shot

database == <<left, games, states, pending, shots, cache>>
request  == <<pc, overdue, job, chosen, tries>>
vars     == <<database, request>>

Game == 1..MaxGames
Side == {"starter", "other"}
EndReason == {"won", "lost", "timeout", "crashed", "lostTurn", "conceded"}

GameRow ==
  [match: Match \cup {None}, agent1: Agent \cup {None}, agent2: Agent \cup {None},
   endReason: {"unborn", "open"} \cup EndReason, winner: {"none"} \cup Side]
StateRow == [mover: Side, turn: {"shoot", "win"}]
PendingRow ==
  [game: Game, state: Nat, agent: Agent, sent: {"no", "sent", "overdue"}]
ShotRow == [game: Game, agent: Agent, prev: Nat, next: Nat]

NoGame == [match |-> None, agent1 |-> None, agent2 |-> None,
           endReason |-> "unborn", winner |-> "none"]
NoJob  == [game |-> 0, state |-> 0]

Open(g)  == games[g].endReason = "open"
Ended(g) == games[g].endReason \in EndReason

\* Mutant: one side has no opponent.
NoOpponent(side) == IF side = "starter" THEN "other" ELSE "none"

Opponent(side) == IF side = "starter" THEN "other" ELSE "starter"

-----------------------------------------------------------------------------
(* The queries of the schema. *)

\* get_next_agent: who shoots next in game g when its state is st.
NextAgent(g, st) ==
  IF st.turn = "win" THEN None
  ELSE IF st.mover = "starter" THEN games[g].agent1 ELSE games[g].agent2

\* match_active_games: the rows of match m that a client has been sent.
ActiveCount(m) ==
  Cardinality({p \in pending : p.sent # "no" /\ games[p.game].match = m})

\* Mutants: a game is started one too late, or one too many.
WantsLaterGame(m, a) ==
  \/ left[m][1] > 1 /\ MatchRow[m].agent1 = a
  \/ left[m][2] > 1 /\ MatchRow[m].agent2 = a
WantsOneMore(m, a) ==
  \/ left[m][1] >= 0 /\ MatchRow[m].agent1 = a
  \/ left[m][2] >= 0 /\ MatchRow[m].agent2 = a

\* The WHERE clause of select_pending_match for one agent; AND binds tighter
\* than OR, so the limit on active games guards the first alternative only.
WantsNewGame(m, a) ==
  \/ /\ MatchRow[m].maxActive - ActiveCount(m) > 0
     /\ left[m][1] > 0
     /\ MatchRow[m].agent1 = a
  \/ /\ left[m][2] > 0
     /\ MatchRow[m].agent2 = a

Priority(g) == MatchRow[games[g].match].priority
MostLeft(m) == IF left[m][1] > left[m][2] THEN left[m][1] ELSE left[m][2]

\* Whether row p comes before row q in select_pending_shot.
ServedBefore(p, q) ==
  \/ Priority(p.game) > Priority(q.game)
  \/ Priority(p.game) = Priority(q.game) /\ p.game <= q.game

\* Whether match m comes before match n in select_pending_match.
PreferredMatch(m, n) ==
  \/ MatchRow[m].priority > MatchRow[n].priority
  \/ /\ MatchRow[m].priority = MatchRow[n].priority
     /\ MostLeft(m) >= MostLeft(n)

\* Mutant: the agent is not compared.
SelectAnyShot(a) ==
  LET waiting == {p \in pending : p.sent = "no"}
  IN  {p \in waiting : \A q \in waiting : ServedBefore(p, q)}

SelectPendingShot(a) ==
  LET waiting == {p \in pending : p.agent = a /\ p.sent = "no"}
  IN  {p \in waiting : \A q \in waiting : ServedBefore(p, q)}

SelectPendingMatch(a) ==
  LET wanting == {m \in Match : WantsNewGame(m, a)}
  IN  {m \in wanting : \A n \in wanting : PreferredMatch(m, n)}

\* Mutants: the result is not written, or start_player_won is inverted.
EndGameUnwritten(g, reason, won) == UNCHANGED games
EndGameInverted(g, reason, won) ==
  games' = [games EXCEPT ![g].endReason = reason, ![g].winner = Opponent(won)]

\* endgame: overwrites the result of game g, whatever it was.
EndGame(g, reason, won) ==
  games' = [games EXCEPT ![g].endReason = reason, ![g].winner = won]

-----------------------------------------------------------------------------
Init ==
  /\ left = [m \in Match |->
               [i \in 1..2 |-> IF i = 1 THEN MatchRow[m].left1 ELSE MatchRow[m].left2]]
  /\ games = [g \in Game |-> NoGame]
  /\ states = [g \in Game |-> <<>>]
  /\ pending = {}
  /\ shots = {}
  /\ cache = {}
  /\ pc = [c \in Client |-> "idle"]
  /\ overdue = [c \in Client |-> {}]
  /\ job = [c \in Client |-> NoJob]
  /\ chosen = [c \in Client |-> None]
  /\ tries = [c \in Client |-> 0]

\* The client's loop body ends and the next one begins.
BackToIdle(c) ==
  /\ pc' = [pc EXCEPT ![c] = "idle"]
  /\ job' = [job EXCEPT ![c] = NoJob]
  /\ chosen' = [chosen EXCEPT ![c] = None]
  /\ tries' = [tries EXCEPT ![c] = 0]
  /\ overdue' = [overdue EXCEPT ![c] = {}]

(***************************************************************************)
(* get_shot                                                                *)
(***************************************************************************)

\* Mutants: no hour of grace; a NULL time left makes no row overdue.
OverdueWithoutGrace == {p \in pending : p.sent # "no"}
NeverOverdue == {}

\* The rows cleanup_pendingshots finds: over an hour late.
Overdue == {p \in pending : p.sent = "overdue"}

(* WHO: a client in its loop.  The request authenticates and the UPDATE of
   cleanup_pendingshots takes its snapshot of the overdue rows. *)
GetShot(c) ==
  /\ pc[c] = "idle"
  /\ pc' = [pc EXCEPT ![c] = "cleanup"]
  /\ overdue' = [overdue EXCEPT ![c] = Overdue]
  /\ UNCHANGED <<database, job, chosen, tries>>

(* WHO: the server.  The games found overdue end against their player, also
   when another request has meanwhile ended or continued them; the rows of
   all ended games go; commit. *)
CleanupPendingShots(c) ==
  /\ pc[c] = "cleanup"
  /\ games' = [g \in Game |->
       IF \E p \in overdue[c] : p.game = g
       THEN LET p == CHOOSE p \in overdue[c] : p.game = g
            IN  [games[g] EXCEPT !.endReason = "crashed",
                                 !.winner = Opponent(states[g][p.state].mover)]
       ELSE games[g]]
  /\ pending' = {p \in pending : games'[p.game].endReason = "open"}
  /\ pc' = [pc EXCEPT ![c] = "pickShot"]
  /\ overdue' = [overdue EXCEPT ![c] = {}]
  /\ UNCHANGED <<left, states, shots, cache, job, chosen, tries>>

(* WHO: the server.  select_pending_shot. *)
PickShot(c) ==
  /\ pc[c] = "pickShot"
  /\ LET best == SelectPendingShot(AgentOf[c])
     IN  \/ /\ best = {}
            /\ UNCHANGED job
         \/ \E p \in best :
              job' = [job EXCEPT ![c] = [game |-> p.game, state |-> p.state]]
  /\ pc' = [pc EXCEPT ![c] = "pickMatch"]
  /\ UNCHANGED <<database, overdue, chosen, tries>>

(* WHO: the server.  select_pending_match, then the choice between a new game
   of the match and the shot already selected. *)
PickMatch(c) ==
  /\ pc[c] = "pickMatch"
  /\ LET best == SelectPendingMatch(AgentOf[c])
         Urgent(m) == job[c] # NoJob => MatchRow[m].priority > Priority(job[c].game)
     IN  \/ /\ best = {} /\ job[c] = NoJob       \* shot_available = 0
            /\ BackToIdle(c)
         \/ \E m \in best :
              /\ Urgent(m)
              /\ pc' = [pc EXCEPT ![c] = "reply"]
              /\ chosen' = [chosen EXCEPT ![c] = m]
              /\ UNCHANGED <<overdue, job, tries>>
         \/ /\ job[c] # NoJob
            /\ best = {} \/ \E m \in best : ~Urgent(m)
            /\ pc' = [pc EXCEPT ![c] = "reply"]
            /\ UNCHANGED <<overdue, job, chosen, tries>>
  /\ UNCHANGED database

(* WHO: the server.  The selected shot is stamped as sent, if its row is still
   there, and handed to the client in any case; commit. *)
SendShot(c) ==
  /\ pc[c] = "reply" /\ chosen[c] = None
  /\ pending' = {IF /\ p.game = job[c].game /\ p.state = job[c].state
                    /\ p.agent = AgentOf[c]
                 THEN [p EXCEPT !.sent = "sent"] ELSE p : p \in pending}
  /\ pc' = [pc EXCEPT ![c] = "think"]
  /\ UNCHANGED <<left, games, states, shots, cache, overdue, job, chosen, tries>>

\* The serial columns give a new game the next id.
NextGame == {g \in Game : /\ games[g].endReason = "unborn"
                          /\ \A h \in Game : h < g => games[h].endReason # "unborn"}

\* A racked state, its game and its pending shot, stamped as sent if the
\* requesting agent is the one to break; the client gets the shot; commit.
NewGame(c, g, breaker, other) ==
  /\ games' = [games EXCEPT ![g] =
       [match |-> chosen[c], agent1 |-> breaker, agent2 |-> other,
        endReason |-> "open", winner |-> "none"]]
  /\ states' = [states EXCEPT ![g] = <<[mover |-> "starter", turn |-> "shoot"]>>]
  /\ pending' = pending \cup
       {[game |-> g, state |-> 1, agent |-> breaker,
         sent |-> IF breaker = AgentOf[c] THEN "sent" ELSE "no"]}
  /\ job' = [job EXCEPT ![c] = [game |-> g, state |-> 1]]
  /\ chosen' = [chosen EXCEPT ![c] = None]
  /\ pc' = [pc EXCEPT ![c] = "think"]
  /\ UNCHANGED <<shots, cache, overdue, tries>>

(* WHO: the server.  add_game_to_match: the requesting agent breaks, the
   counter of each side it plays on goes down. *)
AddGameToMatch(c) ==
  /\ pc[c] = "reply" /\ chosen[c] # None
  /\ LET a == AgentOf[c]  m == MatchRow[chosen[c]]
     IN  /\ ~m.special
         /\ \E g \in NextGame :
              NewGame(c, g, a,
                      IF m.agent2 = None THEN None
                      ELSE IF a = m.agent1 THEN m.agent2 ELSE m.agent1)
         /\ left' = [left EXCEPT ![chosen[c]] =
              [i \in 1..2 |-> IF (IF i = 1 THEN m.agent1 ELSE m.agent2) = a
                              THEN @[i] - 1 ELSE @[i]]]

(* WHO: the server.  add_game_to_match_special, taken whenever timelimit1 is
   exactly one hour: agent 1 breaks, nobody else plays. *)
AddGameToMatchSpecial(c) ==
  /\ pc[c] = "reply" /\ chosen[c] # None
  /\ MatchRow[chosen[c]].special
  /\ \E g \in NextGame : NewGame(c, g, MatchRow[chosen[c]].agent1, None)
  /\ left' = [left EXCEPT ![chosen[c]][1] = @ - 1]

(***************************************************************************)
(* submit_shot                                                             *)
(***************************************************************************)

\* The pendingshots row a submission of client c refers to.
IsJobRow(c, p) == p.game = job[c].game /\ p.state = job[c].state

(* WHO: a client that has computed its shot.  The request reads its row; no
   row, or a terminal state, is an error the client gives up on. *)
SubmitShot(c) ==
  /\ pc[c] = "think"
  /\ IF /\ \E p \in pending : IsJobRow(c, p) /\ p.agent = AgentOf[c] /\ p.sent # "no"
        /\ states[job[c].game][job[c].state].turn # "win"
     THEN /\ pc' = [pc EXCEPT ![c] = "submit"]
          /\ UNCHANGED <<overdue, job, chosen, tries>>
     ELSE BackToIdle(c)
  /\ UNCHANGED database

\* After MAX_RETRIES futile retries AIBase::reComputeShot concedes.
MustConcede(c) == tries[c] > MaxRetries

\* The player whose shot client c submits.
Shooter(c) == states[job[c].game][job[c].state].mover
RulesOf(c) == MatchRow[games[job[c].game].match].rules

(* WHO: the server.  The shot is refused: rolled back and answered with a
   message the client does not understand. *)
BadParams(c) ==
  /\ pc[c] = "submit" /\ ~MustConcede(c)
  /\ BackToIdle(c)
  /\ UNCHANGED database

(* WHO: the server.  The shot is physically impossible: rolled back and
   answered false, the client tries again. *)
Impossible(c) ==
  /\ pc[c] = "submit" /\ ~MustConcede(c)
  /\ pc' = [pc EXCEPT ![c] = "think"]
  /\ tries' = [tries EXCEPT ![c] = @ + 1]
  /\ UNCHANGED <<database, overdue, job, chosen>>

\* DELETE FROM pendingshots: no row is needed for it to succeed.
RestOfQueue(c) == {p \in pending : ~IsJobRow(c, p)}

(* WHO: the server.  The agent conceded or ran out of time: the game ends
   against it; commit. *)
ConcedeOrTimeout(c) ==
  /\ pc[c] = "submit"
  /\ \/ EndGame(job[c].game, "conceded", Opponent(Shooter(c)))
     \/ /\ ~MustConcede(c) /\ MatchRow[games[job[c].game].match].timed
        /\ EndGame(job[c].game, "timeout", Opponent(Shooter(c)))
  /\ pending' = RestOfQueue(c)
  /\ BackToIdle(c)
  /\ UNCHANGED <<left, states, shots, cache>>

\* The result of executeShot: SR_OK or SR_OK_LOST_TURN, and the new state.
NewState(c, lost, turn) ==
  [mover |-> IF lost THEN Opponent(Shooter(c)) ELSE Shooter(c), turn |-> turn]

\* Mutant: the columns prev_state and next_state are swapped.
RecordShotSwapped(c, st) ==
  LET g == job[c].game  n == Len(states[g]) + 1
  IN  /\ n <= MaxStates
      /\ states' = [states EXCEPT ![g] = Append(@, st)]
      /\ shots' = shots \cup
           {[game |-> g, agent |-> AgentOf[c], prev |-> n, next |-> job[c].state]}

\* The new state and the shots row.
RecordShot(c, st) ==
  LET g == job[c].game  n == Len(states[g]) + 1
  IN  /\ n <= MaxStates
      /\ states' = [states EXCEPT ![g] = Append(@, st)]
      /\ shots' = shots \cup
           {[game |-> g, agent |-> AgentOf[c], prev |-> job[c].state, next |-> n]}

\* Mutant: no constraint UNIQUE(gameid).
NoUniqueGameId(c) == TRUE

\* The constraint UNIQUE(gameid) admits another row of the game.
GameIdFree(c) == \A p \in RestOfQueue(c) : p.game # job[c].game

(* WHO: the server.  A legal shot after which someone has to shoot: it is
   queued for that agent. *)
AcceptAndQueue(c, lost, turn) ==
  /\ pc[c] = "submit" /\ ~MustConcede(c)
  /\ ~(RulesOf(c) \in {2, 3} /\ lost)
  /\ LET g == job[c].game  st == NewState(c, lost, turn)
     IN  /\ NextAgent(g, st) # None
         /\ GameIdFree(c)
         /\ RecordShot(c, st)
         /\ pending' = RestOfQueue(c) \cup
              {[game |-> g, state |-> Len(states[g]) + 1,
                agent |-> NextAgent(g, st), sent |-> "no"]}
  /\ BackToIdle(c)
  /\ UNCHANGED <<left, games, cache>>

(* WHO: the server.  A legal shot after which nobody has to shoot: the game is
   won if the shooter kept the turn and lost otherwise. *)
AcceptAndEnd(c, lost, turn) ==
  /\ pc[c] = "submit" /\ ~MustConcede(c)
  /\ ~(RulesOf(c) \in {2, 3} /\ lost)
  /\ LET g == job[c].game  st == NewState(c, lost, turn)
     IN  /\ NextAgent(g, st) = None
         /\ RecordShot(c, st)
         /\ IF lost THEN EndGame(g, "lost", Opponent(Shooter(c)))
                    ELSE EndGame(g, "won", Shooter(c))
  /\ pending' = RestOfQueue(c)
  /\ BackToIdle(c)
  /\ UNCHANGED <<left, cache>>

(* WHO: the server.  In a win-off-break or continuation match the game ends
   when the turn is lost, and add_to_cache keeps the position; its timelimit
   column refuses the NULL of an untimed match. *)
AcceptLostTurn(c, turn) ==
  /\ pc[c] = "submit" /\ ~MustConcede(c)
  /\ RulesOf(c) \in {2, 3}
  /\ MatchRow[games[job[c].game].match].timed
  /\ LET g == job[c].game
     IN  /\ RecordShot(c, NewState(c, TRUE, turn))
         /\ EndGame(g, "lostTurn", Opponent(Shooter(c)))
         /\ cache' = cache \cup {[game |-> g, state |-> Len(states[g]) + 1]}
  /\ pending' = RestOfQueue(c)
  /\ BackToIdle(c)
  /\ UNCHANGED left

(* WHO: the server.  A constraint refuses one of the writes of a legal shot,
   the process dies, everything is rolled back and the client gives up. *)
AcceptFails(c) ==
  /\ pc[c] = "submit" /\ ~MustConcede(c)
  /\ \/ ~GameIdFree(c)
     \/ /\ RulesOf(c) \in {2, 3}
        /\ ~MatchRow[games[job[c].game].match].timed
  /\ BackToIdle(c)
  /\ UNCHANGED database

(***************************************************************************)
(* What goes wrong                                                         *)
(***************************************************************************)

(* WHO: the environment.  A client crashes or hangs and is killed by its
   alarm; or a request dies (lost connection, deadlock victim) and is rolled
   back.  The next iteration, or the forked successor, starts afresh. *)
Dies(c) ==
  /\ pc[c] # "idle"
  /\ BackToIdle(c)
  /\ UNCHANGED database

(* WHO: time.  A shot that was sent becomes an hour overdue.  A submission
   under way does not take an hour between its read and its commit. *)
HourPasses(p) ==
  /\ p \in pending /\ p.sent = "sent" /\ p.agent \in Straggler
  /\ ~\E c \in Client : pc[c] = "submit" /\ IsJobRow(c, p)
  /\ pending' = (pending \ {p}) \cup {[p EXCEPT !.sent = "overdue"]}
  /\ UNCHANGED <<left, games, states, shots, cache, request>>

-----------------------------------------------------------------------------
GetShotStep(c) ==
  \/ CleanupPendingShots(c)
  \/ PickShot(c)
  \/ PickMatch(c)
  \/ SendShot(c)
  \/ AddGameToMatch(c)
  \/ AddGameToMatchSpecial(c)

SubmitShotStep(c) ==
  \/ BadParams(c)
  \/ Impossible(c)
  \/ ConcedeOrTimeout(c)
  \/ \E lost \in BOOLEAN, turn \in {"shoot", "win"} :
       AcceptAndQueue(c, lost, turn) \/ AcceptAndEnd(c, lost, turn)
  \/ \E turn \in {"shoot", "win"} : AcceptLostTurn(c, turn)
  \/ AcceptFails(c)

Next ==
  \/ \E c \in Client :
       GetShot(c) \/ GetShotStep(c) \/ SubmitShot(c) \/ SubmitShotStep(c) \/ Dies(c)
  \/ \E p \in pending : HourPasses(p)

Spec == Init /\ [][Next]_vars

(***************************************************************************)
(* Fairness: clients poll in a loop, time passes, a submission under way is *)
(* answered, and a statement of get_shot that is retried for ever does not *)
(* fail for ever.                                                          *)
(***************************************************************************)
Fairness ==
  /\ \A c \in Client :
       /\ WF_vars(GetShot(c))
       /\ WF_vars(SubmitShot(c))
       /\ WF_vars(SubmitShotStep(c))
       /\ SF_vars(CleanupPendingShots(c))
       /\ SF_vars(PickShot(c))
       /\ SF_vars(PickMatch(c))
       /\ SF_vars(SendShot(c))
       /\ SF_vars(AddGameToMatch(c))
       /\ SF_vars(AddGameToMatchSpecial(c))
  /\ WF_vars(\E p \in pending : HourPasses(p))

FairSpec == Spec /\ Fairness

-----------------------------------------------------------------------------
(***************************************************************************)
(* Properties                                                              *)
(***************************************************************************)

DatabaseOK ==
  /\ left \in [Match -> [1..2 -> Int]]
  /\ games \in [Game -> GameRow]
  /\ states \in [Game -> Seq(StateRow)]
  /\ pending \subseteq PendingRow
  /\ shots \subseteq ShotRow
  /\ cache \subseteq [game: Game, state: Nat]

RequestOK ==
  /\ pc \in [Client -> {"idle", "cleanup", "pickShot", "pickMatch", "reply",
                        "think", "submit"}]
  /\ overdue \in [Client -> SUBSET PendingRow]
  /\ job \in [Client -> [game: Game, state: Nat] \cup {NoJob}]
  /\ chosen \in [Client -> Match \cup {None}]
  /\ tries \in [Client -> Nat]

\* Every table holds rows of its type, and every request is in a known place.
TypeOK == DatabaseOK /\ RequestOK

\* The row that asks for the next shot of game g.
QueueRow(g, p) ==
  /\ p.game = g
  /\ p.state = Len(states[g])
  /\ p.agent = NextAgent(g, states[g][p.state])

\* No game is lost: a game that has not ended always has exactly one row in
\* pendingshots, for its latest state and for the agent whose turn it is,
\* whatever get_shot, cleanup_pendingshots and overlapping, repeated or dying
\* submissions of several clients do.
OpenGamesAreQueued ==
  /\ \A p, q \in pending : p.game = q.game => p = q
  /\ \A g \in Game : Open(g) => \E p \in pending : QueueRow(g, p)

\* The shots of game g lead from each of its states to the next one, and each
\* was taken by the agent whose turn it was.
InSequence(g) ==
  /\ \A s \in shots :
       s.game = g => /\ s.next = s.prev + 1
                     /\ s.agent = NextAgent(g, states[g][s.prev])
  /\ \A n \in 2..Len(states[g]) : \E s \in shots : s.game = g /\ s.next = n

\* Two clients that were handed the same shot cannot both continue the game:
\* the shots recorded by submit_shot for an open game are one sequence.
OpenGamesInSequence == \A g \in Game : Open(g) => InSequence(g)

\* The agent of match m whose breaks gamesleft i counts.
BreaksCounted(m, i) == IF i = 1 THEN MatchRow[m].agent1 ELSE MatchRow[m].agent2

\* An agent that runs one client, which answers within the hour.
Punctual(a) ==
  /\ a \notin Straggler
  /\ \A c, d \in Client : AgentOf[c] = a /\ AgentOf[d] = a => c = d

\* The matches of punctual agents; in an experiment only the one who breaks asks.
\* Other agents of the same server may be as they like.
Undisputed ==
  {m \in Match :
    /\ \A i \in 1..2 : Punctual(BreaksCounted(m, i))
    /\ MatchRow[m].special /\ MatchRow[m].agent2 # None => MatchRow[m].left2 = 0}
UndisputedGame(g) == games[g].match \in Undisputed

\* "This table includes a row for each pool game (i.e. sequence of shots from break
\* to victory of one of the players)": what the schema says of games.
EveryGameIsASequence == \A g \in Game : InSequence(g)

\* The shots recorded for a game of an undisputed match are one sequence also when
\* it is over, whatever the clients of other matches do.
GamesAreSequences == \A g \in Game : UndisputedGame(g) => InSequence(g)

\* A result "normal win" or "normal loss" (end reasons 1 and 2 of submit_shot) is
\* one the table shows: some recorded state of the game is won by its winner.
\* Only where nobody plays against the shooter, a turn lost in a full game leaves
\* no one to shoot, and the server calls that a loss.
ResultWitnessed ==
  \A g \in Game :
    \/ games[g].endReason = "won"
    \/ games[g].endReason = "lost" /\ games[g].agent2 # None
    => \E i \in 1..Len(states[g]) :
         states[g][i] = [mover |-> games[g].winner, turn |-> "win"]

\* The result of an undisputed game is final: no later get_shot, cleanup or
\* submission changes the row or the states of a game that has ended.
EndedGamesFrozen ==
  [][\A g \in Game : UndisputedGame(g) /\ Ended(g) =>
       games'[g] = games[g] /\ states'[g] = states[g]]_vars

\* A shot of an undisputed game is computed by one client at a time.
JobsExclusive ==
  \A c, d \in Client :
    /\ c # d /\ job[c] = job[d]
    /\ pc[c] \in {"think", "submit"} /\ pc[d] \in {"think", "submit"}
    => ~UndisputedGame(job[c].game)

\* Where nobody plays against itself, the games broken and the games left to break
\* add up to what the match asked for, and in an undisputed match no client
\* starts a game too many.
BudgetKept ==
  \A m \in Match, i \in 1..2 : MatchRow[m].agent1 # MatchRow[m].agent2 =>
    /\ m \in Undisputed => left[m][i] >= 0
    /\ left[m][i] + Cardinality({g \in Game : /\ games[g].match = m
                                              /\ games[g].agent1 = BreaksCounted(m, i)})
         = (IF i = 1 THEN MatchRow[m].left1 ELSE MatchRow[m].left2)

\* "Maximum number of incomplete games that are allowed to be resolved at once":
\* what the schema says of max_active_games.
ActiveGamesLimited == \A m \in Match : ActiveCount(m) <= MatchRow[m].maxActive

\* "This table includes non-terminal states": what the schema says of state_cache.
CacheIsNonTerminal == \A r \in cache : states[r.game][r.state].turn # "win"

\* A game that was started ends, although clients crash, hang or are refused.
EveryGameEnds == \A g \in Game : Open(g) ~> Ended(g)

\* A match is played out: in the end all its games are started and over.
MatchesArePlayedOut ==
  <>[](/\ \A m \in Match : left[m][1] <= 0 /\ left[m][2] <= 0
       /\ \A g \in Game : ~Open(g))

\* What a game record of the server means to GameBook.
BookEntry(g) ==
  IF Open(g) THEN [phase |-> "open", side |-> states[g][Len(states[g])].mover]
  ELSE [phase |-> IF games[g].endReason \in {"won", "lost", "lostTurn"}
                  THEN "decided" ELSE "forfeited",
        side |-> games[g].winner]

\* The matches GameBook speaks of: undisputed ones, of two different players.
Booked == {m \in Undisputed : MatchRow[m].agent1 # MatchRow[m].agent2}

\* The part of the tables that is about them; no other game is in the book.
TheBook == [g \in Game |-> IF games[g].match \in Booked
                           THEN BookEntry(g) ELSE [phase |-> "unborn", side |-> "starter"]]
ToBreak == [m \in Booked |-> left[m]]

Book == INSTANCE GameBook WITH Match <- Booked, book <- TheBook, toBreak <- ToBreak

\* The tables, the requests and the clients together keep the promise of GameBook
\* to undisputed matches: games are started within the budget, shot by shot
\* carried on, and decided or forfeited once and for all.
KeepsGameBook == Book!Spec
=============================================================================
