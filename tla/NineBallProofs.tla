----------------------------- MODULE NineBallProofs -----------------------------
(***************************************************************************)
(* Proofs of the invariants of NineBall for any number of balls.           *)
(***************************************************************************)
EXTENDS NineBall, WellFoundedInduction, TLAPS

\* The types and the foul counters need each other: a counter stays below three
\* because the third foul ends the game.
Counted == TypeOK /\ FoulsCounted

\* In a game that is played on nobody has three fouls.
LEMMA FoulsBelowThree ==
  ASSUME Counted, turnType # "WIN"
  PROVE  /\ fouls \in 0 .. 2 /\ oppFouls \in 0 .. 2
         /\ \A p \in Side : streak[p] \in 0 .. 2
BY DEF Counted, TypeOK, FoulsCounted, FoulsOf, Mover, Side

\* A freshly racked game is well-typed, counts no foul and fits the break.
LEMMA StartsRight == Init => Counted /\ TableFitsTurn
BY NineBallAssumption
DEF Init, Counted, TypeOK, FoulsCounted, FoulsOf, TableFitsTurn, Mover, Side, Ball, Object, Cue,
    TurnType, ShotTurn, PlaceCueTurn, ShotResult

\* A call that is refused changes neither the counters nor what they count.
LEMMA RefusedKeepsCount ==
  ASSUME Counted, NEW r \in ShotResult, Refused(r), sunk' \subseteq Ball
  PROVE  Counted'
BY DEF Counted, TypeOK, FoulsCounted, FoulsOf, Mover, Refused, Playing

\* The counters change places with the players.
LEMMA SwitchKeepsCount ==
  ASSUME Counted, SwitchSides, turnType # "WIN",
         turnType' \in TurnType, UNCHANGED <<sunk, first, streak>>
  PROVE  Counted'
<1>1. TypeOK'
  BY DEF Counted, TypeOK, SwitchSides, ShotResult
<1>2. \A p \in Side : FoulsOf(p)' = streak'[p]
  BY DEF Counted, TypeOK, FoulsCounted, FoulsOf, Mover, Side, SwitchSides
<1>3. \A p \in Side : streak'[p] # 3
  BY FoulsBelowThree
<1> QED
  BY <1>1, <1>2, <1>3 DEF Counted, FoulsCounted

\* Where a shot leaves the turn.
LEMMA TurnAfterShot ==
  ASSUME NEW pushOut, NEW down, NEW hit, NEW rails,
         Shoot(pushOut, down, hit, rails)
  PROVE  turnType' \in TurnType
BY DEF Shoot, AfterFoul, TurnType, ShotTurn, PlaceCueTurn

\* A shot that keeps the turn clears its player's counter; a shot that loses it
\* clears or increases the counter and then hands it over.
LEMMA ShotKeepsCount ==
  ASSUME Counted, NEW pushOut, NEW down \in SUBSET Ball, NEW hit \in Ball, NEW rails,
         Shoot(pushOut, down, hit, rails)
  PROVE  Counted'
<1> DEFINE foul == \/ Cue \in down
                   \/ ~pushOut /\ \/ hit # LowestBall(Placed \cup down, down)
                                  \/ ~rails /\ down \ {Cue} = {}
<1>1. turnType # "WIN" /\ turnType \in ShotTurn
  BY DEF Shoot, Playing
<1>2. /\ fouls \in 0 .. 2 /\ oppFouls \in 0 .. 2
      /\ \A p \in Side : streak[p] \in 0 .. 2
  BY <1>1, FoulsBelowThree
<1>3. /\ streak[Mover] = fouls /\ Mover \in Side
      /\ \A p \in Side : p # Mover => streak[p] = oppFouls
      /\ streak \in [Side -> 0 .. 3] /\ curPlayerStarted \in BOOLEAN
  BY DEF Counted, TypeOK, FoulsCounted, FoulsOf, Mover, Side
<1>4. streak' = [streak EXCEPT ![Mover] = IF foul THEN @ + 1 ELSE 0]
  BY DEF Shoot
<1>5. sunk' \subseteq Ball /\ first' \in Ball /\ result' \in ShotResult
  BY DEF Shoot, Counted, TypeOK, Placed, TableAfterLoss, ShotResult
<1>6. CASE ~foul /\ curPlayerStarted' = curPlayerStarted
  <2>1. fouls' = 0 /\ oppFouls' = oppFouls
    BY <1>3, <1>6 DEF Shoot
  <2>2. /\ streak'[Mover] = 0 /\ streak' \in [Side -> 0 .. 3]
        /\ \A p \in Side : p # Mover => streak'[p] = oppFouls
    BY <1>2, <1>3, <1>4, <1>6
  <2>3. Mover' = Mover
    BY <1>6 DEF Mover
  <2> QED
    BY <1>2, <1>3, <1>5, <1>6, <2>1, <2>2, <2>3, TurnAfterShot
    DEF Counted, TypeOK, FoulsCounted, FoulsOf
<1>7. CASE CountFouls(foul) /\ curPlayerStarted' = ~curPlayerStarted
  <2>1. /\ fouls' = oppFouls /\ oppFouls' = IF foul THEN fouls + 1 ELSE 0
        /\ oppFouls' = streak'[Mover]
    BY <1>2, <1>3, <1>4, <1>7 DEF CountFouls
  <2>2. /\ streak' \in [Side -> 0 .. 3] /\ fouls' \in 0 .. 2 /\ oppFouls' \in 0 .. 3
        /\ \A p \in Side : p # Mover => streak'[p] = oppFouls
    BY <1>2, <1>3, <1>4, <2>1
  <2>3. /\ Mover' # Mover /\ Mover' \in Side
        /\ \A p \in Side : p = Mover \/ p = Mover'
    BY <1>3, <1>7 DEF Mover, Side
  <2>4. oppFouls' = 3 => turnType' = "WIN"
    BY <1>2, <2>1 DEF Shoot, AfterFoul
  <2>5. \A p \in Side : FoulsOf(p)' = streak'[p]
    BY <2>1, <2>2, <2>3 DEF FoulsOf
  <2>6. \A p \in Side : streak'[p] = 3 => turnType' = "WIN" /\ p # Mover'
    BY <1>2, <2>1, <2>2, <2>3, <2>4
  <2> QED
    BY <1>3, <1>5, <1>7, <2>2, <2>5, <2>6, TurnAfterShot DEF Counted, TypeOK, FoulsCounted
<1>8. \/ ~foul /\ curPlayerStarted' = curPlayerStarted
      \/ CountFouls(foul) /\ curPlayerStarted' = ~curPlayerStarted
  BY DEF Shoot
<1> QED
  BY <1>6, <1>7, <1>8

\* Every call keeps the counters right.
LEMMA CountStep == Counted /\ [Next]_vars => Counted'
<1> SUFFICES ASSUME Counted, [Next]_vars PROVE Counted'
  OBVIOUS
<1>1. CASE UNCHANGED vars
  BY <1>1 DEF vars, Counted, TypeOK, FoulsCounted, FoulsOf, Mover
<1>2. CASE Timeout \/ BadParams \/ Impossible
  BY <1>2, RefusedKeepsCount
  DEF Timeout, BadParams, Impossible, ShotResult, Placed, Counted, TypeOK
<1>3. ASSUME NEW down \in SUBSET Ball, Aborted(down) PROVE Counted'
  BY <1>3, RefusedKeepsCount DEF Aborted, ShotResult, Placed, Counted, TypeOK
<1>4. CASE Concede
  BY <1>4, SwitchKeepsCount DEF Concede, Playing, TurnType
<1>5. CASE AnswerPushOut
  <2>1. turnType' \in TurnType /\ turnType # "WIN" /\ UNCHANGED <<sunk, first, streak>>
    BY <1>5 DEF AnswerPushOut, TurnType, ShotTurn
  <2>2. CASE SwitchSides
    BY <2>1, <2>2, SwitchKeepsCount
  <2>3. CASE result' = "OK" /\ UNCHANGED <<fouls, oppFouls, curPlayerStarted>>
    <3>1. \A p \in Side : streak[p] # 3
      BY <2>1, FoulsBelowThree
    <3> QED
      BY <2>1, <2>3, <3>1 DEF Counted, TypeOK, FoulsCounted, FoulsOf, Mover, ShotResult
  <2> QED
    BY <1>5, <2>2, <2>3 DEF AnswerPushOut
<1>6. ASSUME NEW pushOut \in BOOLEAN, NEW down \in SUBSET Ball, NEW hit \in Ball,
             NEW rails \in BOOLEAN, Shoot(pushOut, down, hit, rails)
      PROVE  Counted'
  BY <1>6, ShotKeepsCount
<1> QED
  BY <1>1, <1>2, <1>3, <1>4, <1>5, <1>6 DEF Next

\* Every field has its type in every execution.
THEOREM TypesHold == Spec => []TypeOK
<1>1. Init => Counted
  BY StartsRight
<1>2. Counted => TypeOK
  BY DEF Counted
<1> QED
  BY <1>1, <1>2, CountStep, PTL DEF Spec

\* The counters that executeShot swaps and updates always say how many fouls
\* each player has committed in a row, for any number of balls.
THEOREM FoulsAlwaysCounted == Spec => []FoulsCounted
<1>1. Init => Counted
  BY StartsRight
<1>2. Counted => FoulsCounted
  BY DEF Counted
<1> QED
  BY <1>1, <1>2, CountStep, PTL DEF Spec

-----------------------------------------------------------------------------
\* A shot leaves the cue ball down only for a ball in hand, and the nine only
\* when it wins.
LEMMA ShotFits ==
  ASSUME TableFitsTurn, NEW pushOut \in BOOLEAN, NEW down \in SUBSET Ball,
         NEW hit \in Ball, NEW rails \in BOOLEAN, Shoot(pushOut, down, hit, rails)
  PROVE  TableFitsTurn'
<1>1. /\ Cue \notin Placed /\ Nine \notin Placed
      /\ turnType \in ShotTurn /\ result # "ABORTED"
  BY NineBallAssumption
  DEF TableFitsTurn, Shoot, Playing, ShotTurn, PlaceCueTurn, Placed, Cue
<1>2. CASE Cue \in down
  <2>1. turnType' \in {"BALL_IN_HAND", "WIN"} /\ Nine \notin sunk'
    BY <1>1, <1>2 DEF Shoot, AfterFoul, TableAfterLoss
  <2> QED
    BY <2>1 DEF TableFitsTurn
<1>3. CASE Cue \notin down
  <2>1. Cue \notin sunk'
    BY <1>1, <1>3 DEF Shoot, TableAfterLoss
  <2>2. Nine \in sunk' => turnType' = "WIN" /\ result' = "OK"
    BY <1>1, <1>3 DEF Shoot, TableAfterLoss
  <2>3. turnType' # "BREAK"
    BY DEF Shoot, AfterFoul
  <2> QED
    BY <2>1, <2>2, <2>3 DEF TableFitsTurn
<1> QED
  BY <1>2, <1>3

\* Every call leaves a table that fits the turn.
LEMMA FitStep == TableFitsTurn /\ [Next]_vars => TableFitsTurn'
<1> SUFFICES ASSUME TableFitsTurn, [Next]_vars PROVE TableFitsTurn'
  OBVIOUS
<1>1. CASE UNCHANGED vars
  BY <1>1 DEF vars, TableFitsTurn
<1>2. CASE Timeout \/ BadParams \/ Impossible
  BY <1>2
  DEF Timeout, BadParams, Impossible, Refused, Playing, Placed, TableFitsTurn,
      ShotTurn, PlaceCueTurn
<1>3. ASSUME NEW down \in SUBSET Ball, Aborted(down) PROVE TableFitsTurn'
  BY <1>3 DEF Aborted, Refused, TableFitsTurn
<1>4. CASE Concede
  BY <1>4 DEF Concede, SwitchSides, Playing, TableFitsTurn
<1>5. CASE AnswerPushOut
  BY <1>5 DEF AnswerPushOut, SwitchSides, Playing, TableFitsTurn
<1>6. ASSUME NEW pushOut \in BOOLEAN, NEW down \in SUBSET Ball, NEW hit \in Ball,
             NEW rails \in BOOLEAN, Shoot(pushOut, down, hit, rails)
      PROVE  TableFitsTurn'
  BY <1>6, ShotFits
<1> QED
  BY <1>1, <1>2, <1>3, <1>4, <1>5, <1>6 DEF Next

\* The table fits the turn in every execution, for any number of balls.
THEOREM TableAlwaysFitsTurn == Spec => []TableFitsTurn
<1>1. Init => TableFitsTurn
  BY StartsRight
<1> QED
  BY <1>1, FitStep, PTL DEF Spec

-----------------------------------------------------------------------------
\* Smallest finds the smallest element.
LEMMA SmallestIsSmallest ==
  ASSUME NEW S \in SUBSET Nat, S # {}
  PROVE  Smallest(S) \in S /\ \A c \in S : Smallest(S) <= c
<1> DEFINE less == {ss \in Nat \X Nat : ss[1] < ss[2]}
<1>1. IsWellFoundedOn(less, Nat)
  BY NatLessThanWellFounded, Zenon DEF OpToRel
<1>2. \A x, y \in Nat : <<y, x>> \notin less => x <= y
  OBVIOUS
<1> HIDE DEF less
<1>3. PICK x \in S : \A y \in S : <<y, x>> \notin less
  BY <1>1, WFMin
<1>4. \A y \in S : x <= y
  BY <1>2, <1>3
<1> QED
  BY <1>4 DEF Smallest

\* A shot that keeps the turn is earned.
LEMMA ShotIsEarned ==
  ASSUME TypeOK, TableFitsTurn, NEW pushOut \in BOOLEAN, NEW down \in SUBSET Ball,
         NEW hit \in Ball, NEW rails \in BOOLEAN,
         Physical(down, hit, rails), Shoot(pushOut, down, hit, rails)
  PROVE  /\ result' = "OK" =>
              /\ first' \in Object \ sunk /\ \A b \in Object \ sunk : first' <= b
              /\ (sunk' \ sunk) \cap Object # {} /\ Cue \notin sunk'
         /\ turnType' = "WIN" =>
              \/ result' = "OK" /\ Nine \in sunk' \ sunk
              \/ oppFouls' = 3
<1>1. /\ turnType \in ShotTurn /\ result # "ABORTED" /\ first' = hit
      /\ Nine \notin sunk /\ Cue \notin Placed
      /\ Placed \cap Object = sunk \cap Object
  BY NineBallAssumption
  DEF Shoot, Playing, TableFitsTurn, ShotTurn, PlaceCueTurn, Placed, Cue, Object
<1>2. /\ Object \subseteq Nat /\ Cue \notin Object /\ Nine \in Object
      /\ down \subseteq Ball \ Placed
  BY NineBallAssumption DEF Object, Cue, Physical
<1>3. ASSUME result' = "OK"
      PROVE  /\ hit = LowestBall(Placed \cup down, down)
             /\ down \ {Cue} # {} /\ Cue \notin down /\ sunk' = Placed \cup down
  BY <1>3 DEF Shoot
<1>4. ASSUME result' = "OK"
      PROVE  hit \in Object \ sunk /\ \A b \in Object \ sunk : hit <= b
  <2>1. (Object \ (Placed \cup down)) \cup {Nine} \cup (down \ {Cue}) = Object \ sunk
    BY <1>1, <1>2 DEF Ball
  <2>2. hit = Smallest(Object \ sunk)
    BY <1>3, <1>4, <2>1 DEF LowestBall
  <2>3. Object \ sunk \in SUBSET Nat /\ Object \ sunk # {}
    BY <1>1, <1>2
  <2> QED
    BY <2>2, <2>3, SmallestIsSmallest
<1>5. ASSUME result' = "OK"
      PROVE  (sunk' \ sunk) \cap Object # {} /\ Cue \notin sunk'
  <2>1. PICK b \in down : b # Cue
    BY <1>3, <1>5
  <2>2. b \in Object /\ b \notin sunk /\ b \in sunk'
    BY <1>1, <1>2, <1>3, <1>5, <2>1 DEF Ball
  <2> QED
    BY <1>1, <1>3, <1>5, <2>2
<1>6. ASSUME turnType' = "WIN", oppFouls' # 3
      PROVE  result' = "OK" /\ Nine \in down
  BY <1>6 DEF Shoot, AfterFoul
<1> QED
  BY <1>1, <1>3, <1>4, <1>5, <1>6

\* Every call that keeps the turn or ends the game has earned it.
LEMMA EarnStep ==
  ASSUME Counted, Counted', TableFitsTurn, Next
  PROVE  /\ result' = "OK" /\ turnType \in ShotTurn =>
              /\ first' \in Object \ sunk /\ \A b \in Object \ sunk : first' <= b
              /\ (sunk' \ sunk) \cap Object # {} /\ Cue \notin sunk'
         /\ turnType' = "WIN" =>
              \/ result' = "OK" /\ Nine \in sunk' \ sunk
              \/ streak'[Mover] = 3
              \/ UNCHANGED <<streak, sunk, first>> /\ curPlayerStarted' # curPlayerStarted
<1> DEFINE Earned ==
      /\ result' = "OK" /\ turnType \in ShotTurn =>
           /\ first' \in Object \ sunk /\ \A b \in Object \ sunk : first' <= b
           /\ (sunk' \ sunk) \cap Object # {} /\ Cue \notin sunk'
      /\ turnType' = "WIN" =>
           \/ result' = "OK" /\ Nine \in sunk' \ sunk
           \/ streak'[Mover] = 3
           \/ UNCHANGED <<streak, sunk, first>> /\ curPlayerStarted' # curPlayerStarted
<1>1. CASE Timeout \/ BadParams \/ Impossible
  BY <1>1 DEF Timeout, BadParams, Impossible, Refused, Playing
<1>2. CASE \E down \in SUBSET Ball : Aborted(down)
  BY <1>2 DEF Aborted, Refused, Playing
<1>3. CASE Concede
  BY <1>3 DEF Concede, SwitchSides, Counted, TypeOK
<1>4. CASE AnswerPushOut
  BY <1>4 DEF AnswerPushOut, ShotTurn, PlaceCueTurn
<1>5. ASSUME NEW pushOut \in BOOLEAN, NEW down \in SUBSET Ball, NEW hit \in Ball,
             NEW rails \in BOOLEAN,
             Physical(down, hit, rails), Shoot(pushOut, down, hit, rails)
      PROVE  Earned
  <2>1. turnType # "WIN" /\ oppFouls \in 0 .. 2
    BY <1>5, FoulsBelowThree DEF Shoot, Playing
  <2>2. oppFouls' = 3 => streak'[Mover] = 3
    <3> SUFFICES ASSUME oppFouls' = 3 PROVE streak'[Mover] = 3
      OBVIOUS
    <3>1. curPlayerStarted' = ~curPlayerStarted
      <4>1. oppFouls' = oppFouls \/ curPlayerStarted' = ~curPlayerStarted
        BY <1>5 DEF Shoot
      <4> QED
        BY <2>1, <4>1
    <3>2. Mover \in Side /\ Mover # Mover'
      BY <3>1 DEF Mover, Side, Counted, TypeOK
    <3>3. \A p \in Side : p # Mover' => streak'[p] = oppFouls'
      BY DEF Counted, FoulsCounted, FoulsOf
    <3> QED
      BY <3>2, <3>3
  <2> QED
    BY <1>5, <2>2, ShotIsEarned DEF Counted
<1> QED
  BY <1>1, <1>2, <1>3, <1>4, <1>5 DEF Next

\* In every execution a turn that is kept and a game that is won have been earned.
THEOREM TurnsAreEarned == Spec => TurnIsEarned
<1>1. Init => Counted /\ TableFitsTurn
  BY StartsRight
<1>2. (Counted /\ TableFitsTurn) /\ [Next]_vars => (Counted /\ TableFitsTurn)'
  BY CountStep, FitStep
<1>3. (Counted /\ TableFitsTurn) /\ (Counted /\ TableFitsTurn)' /\ [Next]_vars =>
       [/\ result' = "OK" /\ turnType \in ShotTurn =>
           /\ first' \in Object \ sunk /\ \A b \in Object \ sunk : first' <= b
           /\ (sunk' \ sunk) \cap Object # {} /\ Cue \notin sunk'
        /\ turnType' = "WIN" =>
           \/ result' = "OK" /\ Nine \in sunk' \ sunk
           \/ streak'[Mover] = 3
           \/ UNCHANGED <<streak, sunk, first>> /\ curPlayerStarted' # curPlayerStarted]_vars
  BY EarnStep
<1> QED
  BY <1>1, <1>2, <1>3, PTL DEF Spec, TurnIsEarned
=============================================================================
