-------------------------------- MODULE NineBall --------------------------------
(***************************************************************************)
(* The rules of nine-ball: GameState::executeShot and NineBallState of     *)
(* FastFiz/Rules.cpp.  One action is one call of executeShot on a          *)
(* GameState object; the caller stops after a win, a timeout and a         *)
(* simulation that broke off, as submit_shot does.                         *)
(*                                                                         *)
(* The clocks belong to the base class and are the subject of EightBall: a *)
(* timeout may happen to any call here.  What processShot tells apart of   *)
(* the events of a simulated shot (module ShotEvents) is Shoot's input.    *)
(***************************************************************************)
EXTENDS Integers, FiniteSets

CONSTANT Nine  \* the number of the ball that wins; 9 in the code

ASSUME NineBallAssumption == Nine \in Nat \ {0}

Cue    == 0       \* Ball::CUE
Object == 1 .. Nine
Ball   == Object \cup {Cue}

VARIABLES
  turnType,          \* _turnType
  sunk,              \* the pocketed balls of _tableState
  fouls,             \* _fouls: consecutive fouls of the player to move
  oppFouls,          \* _opp_fouls: of the other one
  curPlayerStarted,  \* _curPlayerStarted
  result,            \* what the last call returned
  first,             \* history: the ball the last shot hit first, Cue for none
  streak             \* history: the fouls each side has committed in a row

vars == <<turnType, sunk, fouls, oppFouls, curPlayerStarted, result, first, streak>>

Side         == {"starter", "other"}
PlaceCueTurn == {"BREAK", "BALL_IN_HAND"}
ShotTurn     == PlaceCueTurn \cup {"NORMAL", "FIRST_SHOT"}
TurnType     == ShotTurn \cup {"PUSH_OUT", "WIN"}
\* ABORTED is the SR_SHOT_IMPOSSIBLE of a simulation that failed half-way.
ShotResult   == {"NONE", "OK", "OK_LOST_TURN", "BAD_PARAMS", "SHOT_IMPOSSIBLE",
                 "ABORTED", "TIMEOUT"}

Mover   == IF curPlayerStarted THEN "starter" ELSE "other"
Playing == turnType # "WIN" /\ result \notin {"TIMEOUT", "ABORTED"}

\* The table once the cue ball has been placed.
Placed == IF turnType \in PlaceCueTurn THEN sunk \ {Cue} ELSE sunk

\* Mutant: the counters do not change places.
SwitchSidesNotFouls ==
  /\ curPlayerStarted' = ~curPlayerStarted
  /\ UNCHANGED <<fouls, oppFouls>>
  /\ result' = "OK_LOST_TURN"

\* NineBallState::switchSides, after which executeShot returns SR_OK_LOST_TURN.
SwitchSides ==
  /\ curPlayerStarted' = ~curPlayerStarted
  /\ fouls' = oppFouls /\ oppFouls' = fouls
  /\ result' = "OK_LOST_TURN"

-----------------------------------------------------------------------------
Init ==
  /\ turnType = "BREAK" /\ sunk = {}
  /\ fouls = 0 /\ oppFouls = 0 /\ curPlayerStarted = TRUE
  /\ result = "NONE" /\ first = Cue
  /\ streak = [p \in Side |-> 0]

\* A call that ends with an error and leaves the rules as they were.
Refused(r) ==
  /\ Playing
  /\ UNCHANGED <<turnType, fouls, oppFouls, curPlayerStarted, first, streak>>
  /\ result' = r

(* WHO: the caller, too late. *)
Timeout == Refused("TIMEOUT") /\ UNCHANGED sunk

(* WHO: the caller, with a decision or cue position that does not fit the turn.
   A first shot takes any decision: only a push-out means something there. *)
BadParams ==
  /\ Refused("BAD_PARAMS") /\ turnType # "FIRST_SHOT"
  /\ UNCHANGED sunk

(* WHO: the caller, with a shot the physics refuses.  The cue ball has been
   placed by then. *)
Impossible ==
  /\ Refused("SHOT_IMPOSSIBLE") /\ turnType \in ShotTurn
  /\ sunk' = Placed

(* WHO: the physics, breaking off a simulation: balls stay where they are. *)
Aborted(down) ==
  /\ Refused("ABORTED") /\ turnType \in ShotTurn
  /\ sunk' = Placed \cup down

(* WHO: the caller, conceding.  The other player wins. *)
Concede ==
  /\ Playing
  /\ SwitchSides
  /\ turnType' = "WIN"
  /\ UNCHANGED <<sunk, first, streak>>

(* WHO: the player after a push-out, who plays on or hands the turn back. *)
AnswerPushOut ==
  /\ Playing /\ turnType = "PUSH_OUT"
  /\ \/ result' = "OK" /\ UNCHANGED <<fouls, oppFouls, curPlayerStarted>>
     \/ SwitchSides
  /\ turnType' = "NORMAL"
  /\ UNCHANGED <<sunk, first, streak>>

Smallest(S) == CHOOSE b \in S : \A c \in S : b <= c

\* Mutant: the balls that fell are not put back.
LowestBallLeft(after, down) == Smallest((Object \ after) \cup {Nine})

\* The lowest ball of the table as it is after the shot, or a ball that fell.
LowestBall(after, down) ==
  Smallest((Object \ after) \cup {Nine} \cup (down \ {Cue}))

\* Mutant: the counter that is reset is the one of the player to come.
CountFoulsLate(foul) ==
  /\ fouls' = IF foul THEN oppFouls ELSE 0
  /\ oppFouls' = IF foul THEN fouls + 1 ELSE fouls

\* The turn passes: the counter of the player who shot is reset unless the shot
\* was a foul, changes places, and is increased if it was.
CountFouls(foul) ==
  /\ fouls' = oppFouls
  /\ oppFouls' = IF foul THEN fouls + 1 ELSE 0

\* Mutant: one foul too many.
AfterFoulLenient(count) == IF count > 3 THEN "WIN" ELSE "BALL_IN_HAND"

AfterFoul(count) == IF count = 3 THEN "WIN" ELSE "BALL_IN_HAND"

\* Mutant: the nine stays down.
TableAfterLossNineDown(down) == Placed \cup down

\* The turn is lost: a nine that fell is spotted (spotBall).
TableAfterLoss(down) == (Placed \cup down) \ (down \cap {Nine})

(* WHO: the player to shoot.  pushOut says whether a push-out is declared, down
   are the balls pocketed, hit is the ball first hit (Cue for none), rails says
   whether enough balls hit rails: four on a break, one after the first hit
   otherwise. *)
Shoot(pushOut, down, hit, rails) ==
  LET foul == \/ Cue \in down
              \/ ~pushOut /\ \/ hit # LowestBall(Placed \cup down, down)
                             \/ ~rails /\ down \ {Cue} = {}
      keepTurn == ~pushOut /\ down \ {Cue} # {} /\ ~foul
  IN  /\ Playing /\ turnType \in ShotTurn
      /\ pushOut => turnType = "FIRST_SHOT"
      /\ first' = hit
      /\ streak' = [streak EXCEPT ![Mover] = IF foul THEN @ + 1 ELSE 0]
      /\ IF keepTurn
         THEN /\ fouls' = 0 /\ UNCHANGED <<oppFouls, curPlayerStarted>>
              /\ result' = "OK"
              /\ sunk' = Placed \cup down
         ELSE /\ CountFouls(foul)
              /\ curPlayerStarted' = ~curPlayerStarted
              /\ result' = "OK_LOST_TURN"
              /\ sunk' = TableAfterLoss(down)
      /\ turnType' =
           IF foul THEN AfterFoul(oppFouls')
           ELSE IF Nine \in down /\ keepTurn THEN "WIN"
           ELSE IF turnType = "BREAK" THEN "FIRST_SHOT"
           ELSE IF pushOut THEN "PUSH_OUT" ELSE "NORMAL"

\* What the physics can report: only balls on the table fall or are hit, nothing
\* falls and no rail counts unless the cue ball hit a ball.
Physical(down, hit, rails) ==
  /\ down \subseteq Ball \ Placed
  /\ hit \in (Object \ Placed) \cup {Cue}
  /\ hit = Cue => down \subseteq {Cue} /\ ~rails

Next ==
  \/ Timeout \/ BadParams \/ Impossible \/ Concede \/ AnswerPushOut
  \/ \E down \in SUBSET Ball : Aborted(down)
  \/ \E pushOut \in BOOLEAN, down \in SUBSET Ball, hit \in Ball, rails \in BOOLEAN :
       /\ Physical(down, hit, rails)
       /\ Shoot(pushOut, down, hit, rails)

Spec == Init /\ [][Next]_vars

-----------------------------------------------------------------------------
(***************************************************************************)
(* Properties                                                              *)
(***************************************************************************)

\* Every field has its type.
TypeOK ==
  /\ turnType \in TurnType /\ sunk \subseteq Ball
  /\ fouls \in 0 .. 3 /\ oppFouls \in 0 .. 3
  /\ curPlayerStarted \in BOOLEAN /\ result \in ShotResult
  /\ first \in Ball /\ streak \in [Side -> 0 .. 3]

FoulsOf(p) == IF p = Mover THEN fouls ELSE oppFouls

\* Each counter is the number of fouls its player has committed in a row,
\* although the counters change places at every change of sides and the foul is
\* added after it; and the third one is the end, with the other player to move.
FoulsCounted ==
  /\ \A p \in Side : FoulsOf(p) = streak[p]
  /\ \A p \in Side : streak[p] = 3 => turnType = "WIN" /\ p # Mover

\* The turn type and the table fit through every scratch, spotted nine, push-out
\* and refused call: the cue ball is on the table unless it is to be placed, the
\* nine is down only in a game won by the player to move, the rack is full before
\* a break.
TableFitsTurn ==
  result # "ABORTED" =>
    /\ Cue \in sunk => turnType \in {"BALL_IN_HAND", "WIN"}
    /\ Nine \in sunk => turnType = "WIN" /\ result = "OK"
    /\ turnType = "BREAK" => sunk = {}

\* A shot that keeps the turn hit the lowest ball on the table first, sank one
\* and not the cue ball; a game is won by such a shot, by three fouls of the other
\* player in a row or by a concession.
TurnIsEarned ==
  [][ /\ result' = "OK" /\ turnType \in ShotTurn =>
           /\ first' \in Object \ sunk /\ \A b \in Object \ sunk : first' <= b
           /\ (sunk' \ sunk) \cap Object # {} /\ Cue \notin sunk'
      /\ turnType' = "WIN" =>
           \/ result' = "OK" /\ Nine \in sunk' \ sunk
           \/ streak'[Mover] = 3
           \/ UNCHANGED <<streak, sunk, first>> /\ curPlayerStarted' # curPlayerStarted ]_vars
=============================================================================
