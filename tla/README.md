# A verification project for the computational pool framework

The framework plays cue sports between programs. A PostgreSQL database holds the
matches, games, states and shots; CGI processes (`www/api.pl`) serve an XML-RPC
interface over it; AI clients poll for shots; a C++ library (`FastFiz/`) holds the
rules and the physics, used by both sides.

This directory models the part where correctness is hard to test: the game queue
that concurrent requests of many clients drive, the life of a tournament around it,
the two rule books that every shot goes through, and the event queue that simulates
the shot.

## Inventory

| Component | State | Operations | Hard behaviour | What makes it correct |
|---|---|---|---|---|
| Match server, `www/api.pl` | none of its own | `get_shot`, `submit_shot`, `endgame`, `register_agent` | every request is a process; each statement sees what was committed before it; requests overlap, die and are rolled back | no game is lost; an open game is one sequence of shots; results are right and final |
| Schema, `database/pool-schema.sql` | `matches`, `games`, `states`, `tablestates`, `pendingshots`, `shots`, `state_cache` | `select_pending_shot`, `select_pending_match`, `add_game_to_match(_special)`, `get_next_agent`, `cleanup_pendingshots`, `add_to_cache` | read, then write; constraints that fail late; overdue rows | the game budget; the limit on active games; references |
| Tournaments and maintenance, `database/pool-schema.sql`, `www/Pool/AJAX.pm` | `tournament_agents`, `matches` | `populate_tournament`, `add_game_to_match`, `cleanup`, `clean_orphaned_states`, editing of entries | a cleanup of several statements while games are begun, played and ended; stale pages; agents entered twice; who breaks is not who is agent 1 | everyone meets everyone once; settings follow the agent; the cleanup takes only what is empty and never fails |
| Client, `client/` | the shot it works on | `singleShot`, `getShot`, `submitShot`, fork mode, alarm, restart | several clients per agent; crashes with a shot in hand; retries | it always comes back to ask |
| AI base, `FastFiz/AIBase.*` | retries left | `computeShot`, `reComputeShot` | bounded retry of a shot that was refused | it concedes in the end |
| Rules, `FastFiz/Rules.*` | table, turn type, groups, clocks, who shoots | `executeShot` for eight- and nine-ball | a long legal sequence of calls; fields that change together; clocks at zero | turn and table fit; groups and clocks stay with their player; wins are earned |
| Event queue, `FastFiz/FastFiz.*` | balls, `futureEvents`, event counter | `Shot::simulateShot`, `getFirstBallHit` | a queue repaired around each event; events due at once; rounding that stops a ball early; simulations that break off | the queue lacks nothing and is stale only for balls that stopped early, until their transition; the shot is what the rules assume; it ends |
| Motion, `FastFiz/FastFiz.*` | positions and velocities in doubles | equations, `spotBall`, `fixOverlap` | numeric | (not modelled) |
| Web pages, viewer, tools | none | display and editing of rows | | (not modelled) |

Interaction: a client calls `get_shot`; the server cleans up, then either starts a
game (`add_game_to_match`) or picks a row of `pendingshots`, stamps it and answers
with the encoded state. The client computes and calls `submit_shot`; the server
reads the row, deletes it, rebuilds the `GameState`, calls `executeShot` and either
rolls back, ends the game, or stores the new state and shot and queues the next
row. `pendingshots` is thus both the work queue and the only record that a game
must go on.

`PROJECT.json` lists the hazards line by line.

## Modules

| Module | Models |
|---|---|
| `PoolServer` | `get_shot`, `submit_shot`, the server functions and tables they use, and the clients that call them |
| `GameBook` | the abstract promise of the server: games are started within a budget, pass from shooter to shooter, and end once |
| `MCPoolServer` | instances of `PoolServer` for TLC |
| `EightBall` | `GameState::executeShot` and `EightBallState` |
| `MCEightBall` | instances of `EightBall` |
| `NineBall` | `GameState::executeShot` and `NineBallState` |
| `ShotEvents` | the event queue of `Shot::simulateShot` |
| `MCShotEvents` | the bound under which TLC follows `ShotEvents` |
| `ShotReport` | the abstract promise of a simulated shot: what the rules assume of it; `ShotEvents` implements it |
| `Tournament` | entries, the start of a tournament, beginning and playing its games, and `cleanup()` statement by statement |
| `PoolServerProofs` | theorems about all games of `PoolServer`: types, queue, open games, witnessed results |
| `PoolServerOwnProofs` | theorems about undisputed games: one client per shot, one sequence, final results |
| `GameBookProofs` | the game budget, and `PoolServer` implements `GameBook` |
| `EightBallProofs`, `NineBallProofs`, `ShotEventsProofs`, `TournamentProofs` | the theorems about the modules they are named after |

How they fit together: `Tournament` makes the rows of `matches` that `PoolServer`
takes as given, and takes the requests that `PoolServer` interleaves statement by
statement as atomic. `PoolServer` leaves open what `executeShot` answers, which
`EightBall` and `NineBall` decide. They take a shot as input; that the assumption
they make of it (`Physical`) holds is `ShotReport`, and `ShotEvents` shown to
implement it.

### PoolServer

The tables are variables: `left` (gamesleft1/2), `games`, `states`, `pending`
(pendingshots), `shots`, `cache` (state_cache). Each client has at most one request,
whose progress is `pc`, with `overdue`, `job`, `chosen` for what it has read and not
yet written; `tries` is the client's retry counter.

*Granularity.* The database runs in READ COMMITTED: a statement sees everything
committed before it started. Each read whose result is used later is an action of
its own (`GetShot` with the snapshot of overdue rows, `PickShot`, `PickMatch`,
`SubmitShot`). The writes of a request from its first one to the commit are one
action, because nobody sees them earlier and row locks order them: a DELETE or
UPDATE that waits for another transaction looks at the row again when it proceeds,
and the DELETE of no row returns `0E0`, which is true in Perl. The UPDATE ... FROM
of the cleanup looks again only at its target, the game; this is why
`CleanupPendingShots` ends what was overdue in the snapshot and overwrites a result
committed in between. A request killed as a deadlock victim is `Dies`.

*Details that were decided by the code.*
- A submission that finds no row makes `selectrow_array(...) or die` fail instead of
  answering "No such shot!"; the client gives up either way (`BackToIdle`).
- "Bad shot information received!" is a string where the client expects a boolean,
  so it gives up on `BadParams`; on the boolean false it retries (`Impossible`).
  After MAX_RETRIES futile retries it concedes (`MustConcede`).
- `addToDb` stores a time left of zero, never NULL, so rows of untimed matches
  become overdue after an hour as well.
- `add_to_cache` needs a time limit; in an untimed win-off-break test the
  transaction of a lost turn fails (`AcceptFails`).
- A request whose client has died goes on in the server; it is the request of
  another client of the same agent.
- A state that nobody can shoot from ends the game (`NextAgent` is NULL), also when
  the match has no agent 2.

*Abstractions.* A state id is the position in the list of states of its game; a
state keeps who shoots and whether it is terminal. What `executeShot` answers is a
free choice among its results (constrained by whether the match is timed), so the
model covers whatever the rules decide. Clocks, noise and `faketime` are left out:
a timeout may happen to any timed match. An hour passes for a sent row of an agent
in `Straggler`; a submission is assumed not to take an hour between its read and
its commit.

### EightBall

One action per outcome of `executeShot`; the variables are the fields of the object,
`result` is the return value and `used` a history of the time taken. The event list
of the physics is the input, as far as `processShot` tells lists apart: the balls
pocketed, whether the called one fell in the called pocket, the first ball hit,
whether a rail was hit afterwards, whether an event lay beyond the head string.
`Physical` restricts it to what `simulateShot` can report (only balls on the table,
nothing moves unless the cue ball hits it), which is proved of `ShotEvents`. `AllSunk`
is computed as in the code, from the table after the shot and the balls that fell in it;
that it means "down before the shot" is a part of `WinIsEarned`. A refused call keeps what it
changed before failing (clock, cue ball), as the object does. As `submit_shot` does,
the caller stops after a win, after a timeout and after a simulation that broke off
(`Aborted`: `executeShot` answers "impossible", and the balls that had fallen stay
down in the object). Clocks count half seconds, so that the cut to whole seconds in
`switchSides` is visible.

### NineBall

The same shape: one action per outcome, the fields of the object as variables, and
two history variables, the ball the last shot hit first and the fouls each side has
committed in a row. The code swaps the counters of the players when sides change and
adds the foul afterwards, to the counter of the other player; the history is kept per
player and never swapped, which is what makes `FoulsCounted` a check. The clocks are
those of the base class and are in `EightBall`. `processShot` tells lists of events
apart by the first ball hit, the balls pocketed and whether enough rails were hit.

### ShotEvents and ShotReport

`simulateShot` keeps a list of events that may happen next, handles the earliest,
removes the events that involve one of its balls and predicts again for them. The
model keeps that control: the loop with its counter, the choice of the earliest,
`relatedTo`, the removal, the four kinds of prediction with the conditions under which
each is made, the early return of `getFirstBallHit`, and the three ways to give up.
What the equations compute is chosen: whether and when a ball reaches a rail, a pocket
or another ball, and how it moves afterwards. A position or a velocity never appears;
a ball is still, spinning, rolling, sliding or pocketed.

`updateBall` brings every ball to the time of the event, rounds small velocities to zero
and calls `updateState`, so a ball may come to rest, or stop sliding, at an event it has
nothing to do with and before its own transition (`Calmer`, `Drifts`). Neither
`removeRelatedEvents` nor `addRelatedFutureEvents` looks at such a ball: what was
predicted for it stays in the queue, in the model as in the code. Whether rounding may
also set a rolling ball sliding was not decided; the model allows it. A nudge by
`fixOverlap` changes no motion and is left out.

Times are relative to the present. Three histories make the hazards visible. Each event
marks in `stale` those of its balls that have had an event or changed their motion since
it was predicted, for whatever reason. `drifted` has the balls that changed at an event of
others and have had none of their own since. `checked` has the pairs of balls that were
looked up since one of them last had an event. `QueueIsCurrent` says how far the repaired
queue may be behind one computed from scratch:

- an event with a mark is marked only with balls that drifted: it has not outlived an
  event of one of its balls, and none of its balls is in a pocket;
- an event without a mark fits the motion of its ball, so the marks miss nothing;
- every ball in motion, and every ball that drifted, has a transition in the queue. When
  that is handled, or any other event of the ball, everything about the ball is removed
  and computed again;
- every ball that moves has been looked up with every other one in play.

That a drifted ball's events are *not* removed is what the code does: a ball that lies
still can be ball 1 of a collision ("Collision by a stationary ball?",
`FastFiz.cpp:715`, which only the verbose build turns away) until its transition is due.

`ShotReport` has three actions: the cue ball hits a first ball, a ball falls, the
shot ends.

### Tournament

The tables are variables. A state is known by its game and its number in it; a game
keeps how many shots it has, whether it has ended, and the settings it was given;
noise and time limit of an entry are one setting, because both are to go with the
agent. The requests of clients are single actions here. `cleanup()` is an SQL function
of several statements, and in READ COMMITTED each of them sees what has been
committed by then: `Sweep`, `DeleteShotless`, `DeleteOrphans` and `DeleteEmpty` are
actions of their own, with everything else in between. A foreign key that refuses a
deletion would undo the whole cleanup: `upkeep` becomes "failed". A start is not
checked against an earlier one, so it may happen `MaxRounds` times. The limit of active
games and the experiments are in `PoolServer`.

## Runs

| Run | Asks | Bounds | Result |
|---|---|---|---|
| `PoolServer_shared` | do queue, sequence and results survive clients that share an agent? | 2 clients of ann, 1 of bob; a full game or an experiment for which bob may ask; ann may be an hour late; 1 game, 4 states, 1 retry | holds, 225 thousand states |
| `PoolServer_own` | what holds in addition of undisputed matches, beside others? | ann and bob punctual, cid may be late, one client each; a full game of ann and bob, a preferred one of cid and ann, an untimed test of ann alone; 2 games of 3 states | holds, 857 thousand states |
| `PoolServer_live` | does every game end? | 1 full game, both agents may be late, 3 states | holds under `FairSpec` |
| `PoolServer_active` | is max_active_games a limit? | 2 games | violated |
| `PoolServer_fork` | is a game one sequence of shots with forked clients? | 1 game | violated |
| `PoolServer_cache` | does state_cache keep non-terminal states? | 1 solo test | violated |
| `EightBall_rules` | turn and table, groups, earned wins, clocks | two solids and a stripe; limits 1.5 s and 1 s, calls of no time and of 1 s | holds, complete state space, 11 thousand states |
| `EightBall_overtime` | is the limit a limit? | limits 1.5 s, calls of 1 s | violated |
| `NineBall_rules` | fouls in a row, turn and table, earned turns | four balls, the fourth of which wins | holds, complete state space |
| `ShotEvents_queue` | how far may the repaired queue be behind, is the shot what the rules assume, does it end? | cue ball and two object balls, some of them pocketed before; five events handled, three while all balls are in play (`Followed`), each predicted one unit ahead, so that many are due at once | holds, 26 thousand states |
| `Tournament_play` | pairing, settings, cleanup during play | two agents with two settings, one start, two games of one shot | holds, 865 thousand states |
| `Tournament_limits` | does the time limit go with the agent? | one game | violated |

*Why the bounds are enough.* Everything a request can do to another one happens on
one game and its row, so one game with three requests of two agents shows the double
hand-outs, stale submissions and overwritten rows of the shared run; four states let
a stale submission arrive two shots late. In the own run an undisputed game, or two, or
one beside a disputed one are played at the same time, in either order: cid's games
become overdue and are ended by the cleanups of ann and bob, whose own games must not
change; three matches compete for two games, so a counter runs out while matches of
higher and lower priority go on. With
two solids there is a state with some but not all of a group down, which is
all the rules distinguish; the other group of one ball lets a game be won and lost
soon. A nine-ball table of four has a lowest ball, one that is neither lowest nor last,
and a nine that can be the lowest. In the event queue two object balls give pairs with
both, one and no ball in common with the event that is handled; with three balls in play
three events are enough for the cue ball to be struck, to hit a ball, and for one of the
two to hit the third, fall or reach a rail while the other drifts. With one or two in play
(the others are pocketed before the shot or during it) five events are: the two further ones
handle events that are stale by then, or the transition that removes them. The equations
have too many answers to follow three balls as far;
one delay makes events that are predicted together fall due together, which is the hard
case of choosing the earliest, and the proofs cover all other delays. In the tournament
two entries of one agent and two agents give
every row of the join, both sides break, and one game can be at its end while another begins
between two statements of the cleanup. `MaxGames` and `MaxStates` only stop a game from being
started or a shot from being accepted; at the bound a game can still be conceded,
time out or be cleaned up, so no run deadlocks. The runs of the rules and of the event
queue do not check deadlock, because a finished game has no next call and a finished
simulation no next event.

*Fairness* (`PoolServer_live`). Clients poll in a loop and their supervisor restarts
them, so asking, answering a submission and time passing are weakly fair. A request
may die between any two statements, so the statements of `get_shot` are only
strongly fair: a statement that is reached again and again is executed some day.
Submissions, choices of shots and their outcomes are not fair in favour of anything:
a client may fail for ever, in which case its game ends by the overdue cleanup of
whoever polls. A game that nobody asks for any more stays open: "whoever polls" is an
assumption, which the client loop and its supervisor justify as long as they are left
running. `MaxStates` cuts rallies short, so what is shown is that every game of bounded
length ends, however its requests fail. That simulations end needs no fairness: the program runs its own loop,
and `EndComesCloser` says that each step lowers a number that cannot fall below zero.

*Violations.* The five violation runs are places where code and documentation
disagree; `PROJECT.json` ("findings") quotes both. They are: the limit on active
games binds agent 1 only (an unparenthesised OR); a shot handed out twice can be
recorded twice; a lost win-off-break test caches a terminal state; a clock below a
second becomes unlimited when sides change; and the time limits of a game that agent 2
breaks are those of the other player, although the noise levels are swapped.

*Undisputed matches.* `GamesAreSequences`, `JobsExclusive`, `EndedGamesFrozen`, the
lower bound of `BudgetKept` and the refinement `KeepsGameBook` speak of `Undisputed`
matches: each of their agents runs one client that answers within the hour (and agent 2
has no game to break in an experiment, where it would be handed a shot it may not
take). They do not hold of the others: two clients of a shared agent can be
handed the same shot (`PoolServer_fork`) or start the last game of a match twice, and
an answer an hour late can be overwritten by a cleanup that looked before it was
committed. The condition is on a match and not on the server: agents of other
matches may fork, hang and be late, and the properties say that this stays within their
own games. This is not by construction: all requests go through one
`pendingshots`, every `get_shot` cleans up the overdue games of everybody, and
a request that dies leaves work for another one. `ResultWitnessed` and the balance of
`BudgetKept` are of all matches, the latter except those somebody plays against itself,
where a break cannot be attributed to a side.

## Proofs

TLAPS proves for every value of the constants, under the assumption named in each
module: `ConstantsAssumption` (settings of the matches are well-typed, NULL is no agent
or match), `EightBallAssumption` (the groups, the eight, the cue ball and "no ball" are
different things), `NineBallAssumption` (there is a ball), `ShotEventsAssumption` (balls,
delays and the counter are natural numbers, the counter above one) and
`TournamentAssumption` (agent ids are numbers, NULL is none).

`PoolServerProofs`: types, `OpenGamesAreQueued` and `OpenGamesInSequence` are
invariants for any number of agents, clients and matches of any kind, with shared
agents, stragglers and crashes. The queue invariant is not inductive alone: that
the row a submission deletes is the last state of an open game follows only from the
constraint UNIQUE(gameid) together with the fact that the game has a row. `IInv` adds
`RowsRefer` (rows and shots refer to states that exist and to the agent whose turn it
is; an unborn game has none) and `JobsRefer` (so do requests; a request past
its read belongs to the agent whose turn its state is). The argument:
a step never forgets a state or changes whose turn it is (`TurnsKept`), so old
references stay good; the writes fall into five kinds (`EndingWrite`,
`StampingWrite`, `LastShotWrite`, `NextShotWrite`, `NewGameWrite`), each with its
lemma; each action is one of them together with a step of its request (`JobsStep`).

The same module proves `ResultWitnessed`, which is not inductive either: the cleanup
may overwrite a result, but only by one that claims no witness. `ResultInv` adds
`SomeoneBreaks` (a game that was started has a first agent). The proof found out that the
property, as it was first stated, is false for matches without an opponent: in a full
game somebody plays alone a turn that is lost leaves nobody to shoot, and `submit_shot`
records "normal loss" of a game no state of which is lost. The property now excludes that
case; it needs no assumption on matches or agents.

`PoolServerOwnProofs` proves what is true of undisputed matches, from `OwnInv`. At its
heart is `JobsOwned`: from the moment a client selects a shot of an undisputed game until
it submits it, the row of that shot is in `pendingshots`, for this client's agent. A row
could be taken away by a submission of the same agent, which has no other client
(`OneOwner`, `OthersRow`), or by a cleanup, which takes only what is overdue;
`OverdueDisputed` says that neither the table nor any snapshot of a running request has an
overdue row of an undisputed game. That a row belongs to an agent of the match of its
game is `GamesHavePlayers`. `ChoicesOwned` does for `gamesleft` what `JobsOwned` does for
rows: between the choice of a match and the start of its game nobody else spends the
budget. Each action is then one of a few kinds of steps (`QuietOwn`, `QuietEndOwn`,
`RowsStep`, `ShotExtends`, `EndOwn`, `NewGameOwn`), which also say that no ended
undisputed game changes (`EndedKept`); so `EndedGamesFrozen` is proved with the
invariant.

`GameBookProofs` forgets the requests: `GameSteps` says that every step of the server,
seen from the tables, starts a game within the budget, carries an open game of the book
on, ends one, or leaves the book alone. From it follow both results. The balance of
`BudgetKept` counts the games broken by each side, a cardinality that grows by one exactly
when the counter falls by one (`StartIsBroken`). The refinement maps these steps to
`Start`, `Shoot`, `Decide` and `Forfeit` of `GameBook` (`BookStep`), the last with the
reason why a game that is not decided by a shot is lost by the side to shoot: a client can
only end the game of the shot it owns.

`EightBallProofs`: all five properties of the module, for racks of any size and any
limits.

`NineBallProofs`: all four properties, for any number of balls. Types and foul counters
are inductive only together: that a counter stays within 0 .. 3 follows from the third
foul ending the game, which is part of `FoulsCounted`.

`ShotEventsProofs`: all properties of the event queue, for any number of balls, any
delays and any limit of events. The queue is inductive with `QueueInv`, which adds what
the fields of an event say together (`WellFormed`), that nothing but the cue ball moves
before it hits a ball (`CueAlone`), and that pocketed balls stay so (`BeforeStays`). Each
action keeps it (`HandleKeeps` and its neighbours); the argument for `Handle` is that an
event that survives `Remaining` has no ball in common with the one that was handled,
while the balls of that one are predicted anew (`Fresh`). Its marks grow only by balls
that change at that moment without being the event's, which are those that join
`drifted`; such a ball was in motion, so its transition was in the queue, and has survived
as well. An event without a mark has a ball that moves as before. The refinement
`QueueImplementsReport` maps the handling of a first collision to `Hit`, of a pocketing to `Fall`, the ends to
`End` and all else to stuttering; `ReportsArePhysical` derives from `ShotReport` what
`Physical` assumes in the rules.

`TournamentProofs`: all properties of the passing run, for any agents, settings, games
and shots. Their invariant adds `Waiting` (exactly the latest states of open games wait for a
shot), `Cached` (what is cached belongs to a game with a shot), `Kept` (a game has its
states and its match), `Referenced` (only the deletion of games leaves orphans, which the
next statement takes) and `FromAStart` (no match is of a start still to come, so a new start
makes new matches). From these a state that is waited for or cached is no orphan, so the
foreign keys never refuse; a game the cleanup takes has ended without a shot, so
nothing of it is waited for or cached.

Of the properties of passing runs only `EveryGameEnds` and `MatchesArePlayedOut` are not
proved: liveness under fairness needs ENABLED, which is out of the prover's reach.
The violation runs are counterexamples and need no proof.

## Not modelled

- The equations of motion, noise and geometry: continuous, in doubles. Where balls lie is
  abstracted everywhere, and with it the placement of the cue ball, `spotBall` and
  `fixOverlap`, of which only the outcomes remain. Times are numbers: the not-a-number
  that a collision without relative velocity can produce (`FastFiz.cpp:738`) is left out.
- Log files (`LogFile.*`), option parsing and registration of clients, authentication,
  web pages and the viewer: sequential, without state that games depend on.
- `faketime`, and the clocks between a client and the server: a timeout may happen to
  any timed match.
- The statistics views and the expiry of uploaded log files.
- The SWIG bindings for Perl and Python, libconfig, the compiled viewer and the Doxygen
  pages. They are generated or third-party and make up most of the lines of the
  repository.

## Plan

1. The scan of the event list in `processShot` as a fold over events, checked
   against what `EightBall` and `NineBall` take as input, for all short event lists.
2. Clocks in `PoolServer`: stored clocks, and the composition with `EightBall` through
   encoded states.
3. The fork supervisor of the client as a component: alarm, iterations, STOP file.
4. Log files: the reader and the writer as inverse of each other.
5. The search of `spotBall` on a grid.
6. Proofs: which promises survive shared agents (a bound on the games a match can be
   overdrawn by), and step lemmas towards liveness (what decreases in each fair step).
