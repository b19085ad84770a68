------------------------------- MODULE EightBall -------------------------------
(***************************************************************************)
(* The rules of eight-ball: GameState::executeShot and EightBallState of   *)
(* FastFiz/Rules.cpp.  One action is one call of executeShot on a          *)
(* GameState object; the caller stops after a win, a timeout and a         *)
(* simulation that broke off, as submit_shot does.                         *)
(*                                                                         *)
(* What processShot tells apart of the list of events a simulated shot     *)
(* returns (module ShotEvents) is the action's input: which balls were     *)
(* pocketed, whether the called one fell in the called pocket, the first   *)
(* ball hit, whether a rail was hit after that, whether an event lies      *)
(* beyond the head string.                                                 *)
(*                                                                         *)
(* Clocks are counted in ticks of half a second; 0 means untimed.          *)
(***************************************************************************)
EXTENDS Integers, FiniteSets

CONSTANTS
  Solids, Stripes,  \* the balls of each group
  Eight, Cue,       \* the other two
  NoBall,           \* Ball::UNKNOWN_ID: the call of a safety shot
  Limit,            \* time limit of each side
  Spend             \* bound: how long a side may take over one call

Ball   == Solids \cup Stripes \cup {Eight, Cue}
Object == Ball \ {Cue}

ASSUME EightBallAssumption ==
  /\ Eight \notin Solids \cup Stripes /\ Cue \notin Solids \cup Stripes \cup {Eight}
  /\ NoBall \notin Ball /\ Solids \cap Stripes = {}
  /\ Limit \in [{"starter", "other"} -> Nat] /\ Spend \subseteq Nat

VARIABLES
  turnType,          \* _turnType
  sunk,              \* the pocketed balls of _tableState
  openTable,         \* _openTable
  solids,            \* _solids: the player to move has (or would have) the solids
  curPlayerStarted,  \* _curPlayerStarted
  timeLeft,          \* _timeLeft
  timeLeftOpp,       \* _timeLeftOpp
  result,            \* what the last call returned
  used               \* history: the time each side took, no further than its limit

turn == <<turnType, sunk, openTable, solids>>
vars == <<turn, curPlayerStarted, timeLeft, timeLeftOpp, result, used>>

DecisionTurn == {"FOUL_ON_BREAK", "EIGHT_ON_BREAK"}
PlaceCueTurn == {"BREAK", "BALL_IN_HAND", "BEHIND_LINE"}
ShotTurn     == PlaceCueTurn \cup {"NORMAL"}
TurnType     == ShotTurn \cup DecisionTurn \cup {"WIN"}
\* ABORTED is the SR_SHOT_IMPOSSIBLE of a simulation that failed half-way.
ShotResult   == {"NONE", "OK", "OK_LOST_TURN", "BAD_PARAMS", "SHOT_IMPOSSIBLE",
                 "ABORTED", "TIMEOUT"}

Mover(started) == IF started THEN "starter" ELSE "other"
Group(s)       == IF s THEN Solids ELSE Stripes

-----------------------------------------------------------------------------
(* The clocks. *)

\* Mutant: a clock is charged only what it can afford.
ChargedSpared(t) == IF timeLeft > t THEN timeLeft - t ELSE timeLeft

\* Whether a clock runs: both operands of the && must be nonzero.
Charged(t) == IF t # 0 /\ timeLeft # 0 THEN timeLeft - t ELSE timeLeft

\* int temp = _timeLeft: a double cut to whole seconds.
WholeSeconds(x) == x - (x % 2)

\* History only: t is added to what the mover has used, up to one tick over.
Use(t) ==
  LET p == Mover(curPlayerStarted)  sum == used[p] + t
  IN  used' = [used EXCEPT ![p] = IF sum > Limit[p] THEN Limit[p] + 1 ELSE sum]

\* Mutant: the clock is not looked at.
InTimeUnchecked(t) ==
  /\ turnType # "WIN" /\ result \notin {"TIMEOUT", "ABORTED"}
  /\ Use(t)

\* A call begins: it is made on a game in progress, and it is not late.
InTime(t) ==
  /\ turnType # "WIN" /\ result \notin {"TIMEOUT", "ABORTED"}
  /\ Charged(t) >= 0
  /\ Use(t)

\* Mutant: _solids is not flipped.
SwitchSidesNotGroups(t) ==
  /\ timeLeft' = timeLeftOpp /\ timeLeftOpp' = WholeSeconds(Charged(t))
  /\ curPlayerStarted' = ~curPlayerStarted
  /\ solids' = solids
  /\ result' = "OK_LOST_TURN"

\* EightBallState::switchSides, after which executeShot returns SR_OK_LOST_TURN.
SwitchSides(t) ==
  /\ timeLeft' = timeLeftOpp /\ timeLeftOpp' = WholeSeconds(Charged(t))
  /\ curPlayerStarted' = ~curPlayerStarted
  /\ solids' = ~solids
  /\ result' = "OK_LOST_TURN"

\* Nobody switched: executeShot returns SR_OK.
SameSide(t) ==
  /\ timeLeft' = Charged(t)
  /\ UNCHANGED <<timeLeftOpp, curPlayerStarted>>
  /\ result' = "OK"

\* A call that fails after the clock was charged.
Refused(t, r) ==
  /\ timeLeft' = Charged(t)
  /\ UNCHANGED <<timeLeftOpp, curPlayerStarted, turnType, openTable, solids>>
  /\ result' = r

-----------------------------------------------------------------------------
Init ==
  /\ turnType = "BREAK" /\ sunk = {}
  /\ openTable = TRUE /\ solids = TRUE /\ curPlayerStarted = TRUE
  /\ timeLeft = Limit["starter"] /\ timeLeftOpp = Limit["other"]
  /\ result = "NONE"
  /\ used = [p \in {"starter", "other"} |-> 0]

(* WHO: the caller, too late.  The clock stays negative. *)
Timeout(t) ==
  /\ turnType # "WIN" /\ result \notin {"TIMEOUT", "ABORTED"}
  /\ Charged(t) < 0
  /\ Refused(t, "TIMEOUT")
  /\ Use(t) /\ UNCHANGED sunk

(* WHO: the caller, with a decision, cue position or call that does not fit the
   turn. *)
BadParams(t) ==
  /\ InTime(t)
  /\ Refused(t, "BAD_PARAMS")
  /\ UNCHANGED sunk

(* WHO: the caller, with a shot the physics refuses.  The cue ball has been
   placed by then. *)
Impossible(t) ==
  /\ InTime(t) /\ turnType \in ShotTurn
  /\ Refused(t, "SHOT_IMPOSSIBLE")
  /\ sunk' = IF turnType \in PlaceCueTurn THEN sunk \ {Cue} ELSE sunk

(* WHO: the physics, breaking off a simulation: balls stay where they are. *)
Aborted(t, down) ==
  /\ InTime(t) /\ turnType \in ShotTurn
  /\ Refused(t, "ABORTED")
  /\ sunk' = (IF turnType \in PlaceCueTurn THEN sunk \ {Cue} ELSE sunk) \cup down

(* WHO: the caller, conceding.  The other player wins. *)
Concede(t) ==
  /\ InTime(t)
  /\ SwitchSides(t)
  /\ turnType' = "WIN"
  /\ UNCHANGED <<sunk, openTable>>

(* WHO: the player after a bad break, who has the balls racked again and breaks,
   or has the opponent break. *)
Rerack(t) ==
  /\ InTime(t) /\ turnType \in DecisionTurn
  /\ \/ SameSide(t) /\ solids' = solids
     \/ turnType = "FOUL_ON_BREAK" /\ SwitchSides(t)
  /\ turnType' = "BREAK" /\ sunk' = {}
  /\ UNCHANGED openTable

\* Mutant: nobody asks for the cue ball.
KeepShootingCueDown == "NORMAL"

KeepShootingTurn ==
  IF turnType = "EIGHT_ON_BREAK" /\ Cue \notin sunk THEN "NORMAL" ELSE "BEHIND_LINE"

(* WHO: the player after a bad break, who plays on. *)
KeepShooting(t) ==
  /\ InTime(t) /\ turnType \in DecisionTurn
  /\ SameSide(t)
  /\ turnType' = KeepShootingTurn
  /\ UNCHANGED <<sunk, openTable, solids>>

(* WHO: the player who breaks.  down are the balls pocketed; rails says whether
   there were more than three rail collisions. *)
Break(t, down, rails) ==
  /\ InTime(t) /\ turnType = "BREAK"
  /\ openTable' = TRUE
  /\ sunk' = (sunk \cup down) \ {Eight}                        \* spotBall
  /\ turnType' = IF Eight \in down THEN "EIGHT_ON_BREAK"
                 ELSE IF Cue \in down THEN "BEHIND_LINE"
                 ELSE IF rails \/ down # {} THEN "NORMAL" ELSE "FOUL_ON_BREAK"
  /\ IF Cue \in down \/ turnType' = "FOUL_ON_BREAK"
     THEN SwitchSides(t)
     ELSE SameSide(t) /\ solids' = solids

\* Mutant: what the shot itself sank counts as well.
AllSunkAfter(down) == ~openTable /\ Group(solids) \subseteq sunk \cup down

\* all_sunk, which is looked up on the table after the shot and taken back by every
\* POCKETED event of a ball of the mover's group.
AllSunk(down) ==
  /\ ~openTable /\ Group(solids) \subseteq sunk \cup down
  /\ Group(solids) \cap down = {}

\* The balls a player may call and sink for a turn: its own, either group's while
\* the table is open, the eight once the own ones are down.  (The eight asks before
\* later events take all_sunk back, but then it loses the game anyhow.)
Legal(ball, down) ==
  \/ ball \in Solids /\ (openTable \/ solids)
  \/ ball \in Stripes /\ (openTable \/ ~solids)
  \/ ball = Eight /\ AllSunk(down)

\* first is Cue when the cue ball hit no ball, good when a legal ball was sunk.
Foul(first, rail, past, good, down) ==
  \/ first = Cue
  \/ ~rail /\ ~good
  \/ turnType = "BEHIND_LINE" /\ ~past
  \/ ~openTable /\ ~AllSunk(down) /\ first \notin Group(solids)
  \/ AllSunk(down) /\ first # Eight

\* Sinking the eight loses the game.
EightLoses(down, foul) == ~AllSunk(down) \/ Cue \in down \/ foul

(* WHO: the player to shoot.  called is the ball called, inPocket says whether
   it fell in the pocket called, down are the balls pocketed. *)
Shoot(t, called, inPocket, down, first, rail, past) ==
  LET good == called \in down /\ inPocket /\ Legal(called, down)
      foul == Foul(first, rail, past, good, down)
  IN  /\ InTime(t) /\ turnType \in ShotTurn \ {"BREAK"}
      /\ sunk' = (IF turnType \in PlaceCueTurn THEN sunk \ {Cue} ELSE sunk) \cup down
      /\ IF Eight \in down
         THEN /\ turnType' = "WIN" /\ openTable' = openTable
              /\ IF EightLoses(down, foul) THEN SwitchSides(t)
                 ELSE SameSide(t) /\ solids' = solids
         ELSE IF Cue \in down \/ foul
         THEN turnType' = "BALL_IN_HAND" /\ openTable' = openTable /\ SwitchSides(t)
         ELSE IF good
         THEN /\ turnType' = "NORMAL" /\ openTable' = FALSE /\ SameSide(t)
              /\ solids' = IF openTable THEN called \in Solids ELSE solids
         ELSE turnType' = "NORMAL" /\ openTable' = openTable /\ SwitchSides(t)

\* What the physics can report: only balls on the table fall or are hit, no
\* object ball falls and no rail counts unless the cue ball hit a ball.
OnTable == Object \ sunk
Physical(down, first, rail) ==
  /\ down \subseteq OnTable \cup {Cue}
  /\ first \in OnTable \cup {Cue}
  /\ first = Cue => down \subseteq {Cue} /\ ~rail

Next ==
  \E t \in Spend :
    \/ Timeout(t) \/ BadParams(t) \/ Impossible(t) \/ Concede(t)
    \/ Rerack(t) \/ KeepShooting(t)
    \/ \E down \in SUBSET Ball : Aborted(t, down)
    \/ \E down \in SUBSET Ball, rails \in BOOLEAN : Break(t, down, rails)
    \/ \E called \in Object \cup {Cue, NoBall}, inPocket \in BOOLEAN,
          first \in OnTable \cup {Cue}, rail \in BOOLEAN, past \in BOOLEAN :
         \E down \in SUBSET (OnTable \cup {Cue}) :
           /\ Physical(down, first, rail)
           /\ Shoot(t, called, inPocket, down, first, rail, past)

Spec == Init /\ [][Next]_vars

-----------------------------------------------------------------------------
(***************************************************************************)
(* Properties                                                              *)
(***************************************************************************)

\* Every field has its type, and only a timeout leaves a clock below zero.
TypeOK ==
  /\ turnType \in TurnType /\ sunk \subseteq Ball
  /\ openTable \in BOOLEAN /\ solids \in BOOLEAN /\ curPlayerStarted \in BOOLEAN
  /\ timeLeft \in Int /\ timeLeftOpp \in Nat
  /\ result # "TIMEOUT" => timeLeft \in Nat
  /\ result \in ShotResult
  /\ used \in [{"starter", "other"} -> Nat]

\* The turn type and the table fit, whatever sequence of breaks, decisions,
\* scratches, refused calls and reracks led there: the cue ball is on the table
\* when it must not be placed, the eight is down only in a game that is over,
\* the rack is full before a break and after a foul on it, groups are not dealt
\* before play has begun and only by sinking a ball of one.
TableFitsTurn ==
  /\ turnType \in DecisionTurn \cup {"BREAK"} => openTable
  /\ ~openTable => sunk \cap (Solids \cup Stripes) # {}
  /\ result # "ABORTED" =>
       /\ turnType = "NORMAL" => Cue \notin sunk
       /\ Eight \in sunk => turnType = "WIN"
       /\ turnType \in {"BREAK", "FOUL_ON_BREAK"} => sunk = {}

\* Once the groups are dealt they stay with the players: _solids, which is told
\* of the player to move, follows every change of sides in processShot and
\* preProcess, and the table does not open again.
GroupsStay ==
  [][~openTable => /\ ~openTable'
                   /\ (solids' = curPlayerStarted') = (solids = curPlayerStarted)]_vars

\* A shooter wins only a game it has played out: its own group was dealt and was
\* down before the shot that sank the eight, and the cue ball stayed up.  The code
\* never looks at the table before the shot: all_sunk is told from the one after it.
WinIsEarned ==
  [][turnType' = "WIN" /\ result' = "OK" =>
       /\ ~openTable /\ Group(solids) \subseteq sunk
       /\ Eight \in sunk' \ sunk /\ Cue \notin sunk']_vars

\* The clock of each side.
ClockOf(p) == IF p = Mover(curPlayerStarted) THEN timeLeft ELSE timeLeftOpp

\* A running clock never shows more than what its side has not used, however
\* often the two clocks change places and whatever calls are refused.
ClockCoversUse ==
  \A p \in {"starter", "other"} : ClockOf(p) > 0 => ClockOf(p) + used[p] <= Limit[p]

\* "Amount of time allotted per game": what the schema says of a time limit.
NoOvertime ==
  \A p \in {"starter", "other"} :
    Limit[p] > 0 /\ result # "TIMEOUT" => used[p] <= Limit[p]
=============================================================================
