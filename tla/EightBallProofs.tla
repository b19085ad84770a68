---------------------------- MODULE EightBallProofs ----------------------------
(***************************************************************************)
(* Proofs of the invariants of EightBall for any two disjoint groups of    *)
(* balls, any time limits and any times spent.                             *)
(***************************************************************************)
EXTENDS EightBall, TLAPS

\* The clock arithmetic of one call that is in time.
LEMMA ClockFacts ==
  ASSUME TypeOK, NEW t \in Spend, InTime(t)
  PROVE  /\ Charged(t) \in Nat /\ WholeSeconds(Charged(t)) \in Nat
         /\ WholeSeconds(Charged(t)) <= Charged(t)
         /\ timeLeft \in Nat
         /\ used' \in [{"starter", "other"} -> Nat]
<1>1. t \in Nat /\ timeLeft \in Nat
  BY EightBallAssumption DEF TypeOK, InTime
<1>2. Charged(t) \in Nat
  BY <1>1 DEF InTime, Charged
<1>3. WholeSeconds(Charged(t)) \in Nat /\ WholeSeconds(Charged(t)) <= Charged(t)
  BY <1>2 DEF WholeSeconds
<1>4. used' \in [{"starter", "other"} -> Nat]
  BY <1>1, EightBallAssumption DEF TypeOK, InTime, Use, Mover
<1> QED
  BY <1>1, <1>2, <1>3, <1>4

\* What every call leaves well-typed: the fields it sets through one of the
\* three ways to end a call.
LEMMA EndOfCall ==
  ASSUME TypeOK, NEW t \in Spend, InTime(t),
         \/ SwitchSides(t)
         \/ SameSide(t) /\ solids' \in BOOLEAN
         \/ Refused(t, "BAD_PARAMS") \/ Refused(t, "SHOT_IMPOSSIBLE")
         \/ Refused(t, "ABORTED")
  PROVE  /\ timeLeft' \in Nat /\ timeLeftOpp' \in Nat
         /\ curPlayerStarted' \in BOOLEAN /\ solids' \in BOOLEAN
         /\ result' \in ShotResult
         /\ used' \in [{"starter", "other"} -> Nat]
BY ClockFacts DEF TypeOK, SwitchSides, SameSide, Refused, ShotResult

\* Type correctness is inductive.
LEMMA TypeStep == TypeOK /\ [Next]_vars => TypeOK'
<1> SUFFICES ASSUME TypeOK, [Next]_vars PROVE TypeOK'
  OBVIOUS
<1>1. CASE UNCHANGED vars
  BY <1>1 DEF vars, turn, TypeOK
<1>2. ASSUME NEW t \in Spend, Timeout(t) PROVE TypeOK'
  <2>1. t \in Nat /\ timeLeft \in Nat
    BY <1>2, EightBallAssumption DEF TypeOK, Timeout
  <2>2. used' \in [{"starter", "other"} -> Nat]
    BY <1>2, <2>1, EightBallAssumption DEF TypeOK, Timeout, Use, Mover
  <2>3. timeLeft' \in Int
    BY <1>2, <2>1 DEF Timeout, Refused, Charged
  <2> QED
    BY <1>2, <2>2, <2>3 DEF TypeOK, Timeout, Refused, ShotResult
<1>3. ASSUME NEW t \in Spend, BadParams(t) PROVE TypeOK'
  BY <1>3, EndOfCall DEF TypeOK, BadParams, Refused
<1>4. ASSUME NEW t \in Spend, Impossible(t) PROVE TypeOK'
  BY <1>4, EndOfCall DEF TypeOK, Impossible, Refused
<1>5. ASSUME NEW t \in Spend, Concede(t) PROVE TypeOK'
  BY <1>5, EndOfCall DEF TypeOK, Concede, TurnType
<1>6. ASSUME NEW t \in Spend, Rerack(t) PROVE TypeOK'
  BY <1>6, EndOfCall DEF TypeOK, Rerack, TurnType, ShotTurn, PlaceCueTurn
<1>7. ASSUME NEW t \in Spend, KeepShooting(t) PROVE TypeOK'
  BY <1>7, EndOfCall
  DEF TypeOK, KeepShooting, KeepShootingTurn, TurnType, ShotTurn, PlaceCueTurn
<1>8. ASSUME NEW t \in Spend, NEW down \in SUBSET Ball, NEW rails \in BOOLEAN,
             Break(t, down, rails)
      PROVE TypeOK'
  <2>1. InTime(t) /\ (SwitchSides(t) \/ (SameSide(t) /\ solids' \in BOOLEAN))
    BY <1>8 DEF Break, TypeOK
  <2>2. turnType' \in TurnType
    BY <1>8 DEF Break, TurnType, DecisionTurn, ShotTurn, PlaceCueTurn
  <2>3. sunk' \subseteq Ball /\ openTable' \in BOOLEAN
    BY <1>8 DEF Break, TypeOK
  <2> QED
    BY <2>1, <2>2, <2>3, EndOfCall DEF TypeOK
<1>9. ASSUME NEW t \in Spend, NEW called, NEW inPocket \in BOOLEAN,
             NEW down \in SUBSET (OnTable \cup {Cue}), NEW first,
             NEW rail \in BOOLEAN, NEW past \in BOOLEAN,
             Shoot(t, called, inPocket, down, first, rail, past)
      PROVE TypeOK'
  <2>1. InTime(t) /\ (SwitchSides(t) \/ (SameSide(t) /\ solids' \in BOOLEAN))
    <3>1. (called \in Solids) \in BOOLEAN
      <4>1. CASE called \in Solids
        BY <4>1
      <4>2. CASE called \notin Solids
        BY <4>2
      <4> QED
        BY <4>1, <4>2
    <3>2. InTime(t) /\ (SwitchSides(t) \/ (SameSide(t) /\ (solids' = solids
                                             \/ solids' = (called \in Solids))))
      BY <1>9 DEF Shoot
    <3>3. solids \in BOOLEAN
      BY DEF TypeOK
    <3> QED
      BY <3>1, <3>2, <3>3
  <2>2. turnType' \in TurnType
    BY <1>9 DEF Shoot, TurnType, ShotTurn, PlaceCueTurn
  <2>3. sunk' \subseteq Ball /\ openTable' \in BOOLEAN
    BY <1>9 DEF Shoot, TypeOK, OnTable, Object, Ball
  <2> QED
    BY <2>1, <2>2, <2>3, EndOfCall DEF TypeOK
<1>10. ASSUME NEW t \in Spend, NEW down \in SUBSET Ball, Aborted(t, down) PROVE TypeOK'
  BY <1>10, EndOfCall DEF TypeOK, Aborted, Refused
<1> QED
  BY <1>1, <1>2, <1>3, <1>4, <1>5, <1>6, <1>7, <1>8, <1>9, <1>10 DEF Next

\* The initial state has its types.
LEMMA TypeInit == Init => TypeOK
BY EightBallAssumption
DEF Init, TypeOK, TurnType, ShotTurn, PlaceCueTurn, ShotResult

\* Type correctness of every reachable state of executeShot.
THEOREM TypeCorrect == Spec => []TypeOK
BY TypeInit, TypeStep, PTL DEF Spec

-----------------------------------------------------------------------------
\* The fit of turn type and table is inductive relative to the types.
LEMMA FitStep == TypeOK /\ TableFitsTurn /\ [Next]_vars => TableFitsTurn'
<1> SUFFICES ASSUME TypeOK, TableFitsTurn, [Next]_vars PROVE TableFitsTurn'
  OBVIOUS
<1> USE DEF DecisionTurn, PlaceCueTurn, ShotTurn, InTime
<1>1. CASE UNCHANGED vars
  BY <1>1 DEF vars, turn, TableFitsTurn
<1>2. ASSUME NEW t \in Spend, Timeout(t) \/ BadParams(t) PROVE TableFitsTurn'
  BY <1>2 DEF Timeout, BadParams, Refused, TableFitsTurn
<1>3. ASSUME NEW t \in Spend, Impossible(t) PROVE TableFitsTurn'
  BY <1>3, EightBallAssumption DEF Impossible, Refused, TableFitsTurn
<1>4. ASSUME NEW t \in Spend, Concede(t) PROVE TableFitsTurn'
  BY <1>4 DEF Concede, TableFitsTurn
<1>5. ASSUME NEW t \in Spend, Rerack(t) PROVE TableFitsTurn'
  BY <1>5 DEF Rerack, TableFitsTurn
<1>6. ASSUME NEW t \in Spend, KeepShooting(t) PROVE TableFitsTurn'
  BY <1>6 DEF KeepShooting, KeepShootingTurn, TableFitsTurn
<1>7. ASSUME NEW t \in Spend, NEW down \in SUBSET Ball, NEW rails \in BOOLEAN,
             Break(t, down, rails)
      PROVE TableFitsTurn'
  BY <1>7, EightBallAssumption DEF Break, TableFitsTurn
<1>8. ASSUME NEW t \in Spend, NEW called, NEW inPocket \in BOOLEAN,
             NEW down \in SUBSET (OnTable \cup {Cue}), NEW first,
             NEW rail \in BOOLEAN, NEW past \in BOOLEAN,
             Shoot(t, called, inPocket, down, first, rail, past)
      PROVE TableFitsTurn'
  <2>1. CASE Eight \in down
    BY <1>8, <2>1, EightBallAssumption DEF Shoot, TableFitsTurn
  <2>2. CASE Eight \notin down
    <3>1. /\ Eight \notin sunk'
          /\ turnType' \in {"BALL_IN_HAND", "NORMAL"}
      BY <1>8, <2>2, EightBallAssumption DEF Shoot, TableFitsTurn, InTime
    <3>2. turnType' = "NORMAL" => Cue \notin sunk'
      BY <1>8, <2>2 DEF Shoot, TableFitsTurn, TypeOK, TurnType
    <3>3. ~openTable' => sunk' \cap (Solids \cup Stripes) # {}
      <4>1. CASE openTable
        <5>1. ~openTable' => called \in down /\ Legal(called, down)
          BY <1>8, <2>2, <4>1 DEF Shoot
        <5>2. ~openTable' => called \in Solids \cup Stripes
          BY <5>1, <4>1, <2>2 DEF Legal, AllSunk
        <5> QED
          BY <5>1, <5>2, <1>8 DEF Shoot
      <4>2. CASE ~openTable
        BY <1>8, <4>2, EightBallAssumption DEF Shoot, TableFitsTurn
      <4> QED
        BY <4>1, <4>2
    <3> QED
      BY <3>1, <3>2, <3>3 DEF TableFitsTurn
  <2> QED
    BY <2>1, <2>2
<1>9. ASSUME NEW t \in Spend, NEW down \in SUBSET Ball, Aborted(t, down)
      PROVE  TableFitsTurn'
  BY <1>9, EightBallAssumption DEF Aborted, InTime, Refused, TableFitsTurn
<1> QED
  BY <1>1, <1>2, <1>3, <1>4, <1>5, <1>6, <1>7, <1>8, <1>9 DEF Next

\* A freshly racked table fits the break.
LEMMA FitInit == Init => TableFitsTurn
BY DEF Init, TableFitsTurn, DecisionTurn

\* TableFitsTurn holds of every reachable state, for any groups of balls.
THEOREM TableAlwaysFits == Spec => []TableFitsTurn
<1>1. Init => TypeOK /\ TableFitsTurn
  BY TypeInit, FitInit
<1>2. (TypeOK /\ TableFitsTurn) /\ [Next]_vars => (TypeOK /\ TableFitsTurn)'
  BY TypeStep, FitStep
<1> QED
  BY <1>1, <1>2, PTL DEF Spec

-----------------------------------------------------------------------------
\* One step after the groups were dealt: every change of sides takes the group
\* along, and only a turn with an open table can open it.
LEMMA GroupStep ==
  ASSUME TypeOK, TableFitsTurn, [Next]_vars, ~openTable
  PROVE  /\ ~openTable'
         /\ (solids' = curPlayerStarted') = (solids = curPlayerStarted)
<1> USE DEF TypeOK
<1>1. CASE UNCHANGED vars
  BY <1>1 DEF vars, turn
<1>2. ASSUME NEW t, SwitchSides(t)
      PROVE  (solids' = curPlayerStarted') = (solids = curPlayerStarted)
  BY <1>2 DEF SwitchSides
<1>3. ASSUME NEW t, SameSide(t), solids' = solids
      PROVE  (solids' = curPlayerStarted') = (solids = curPlayerStarted)
  BY <1>3 DEF SameSide
<1>4. ASSUME NEW t \in Spend, Timeout(t) \/ BadParams(t) \/ Impossible(t)
      PROVE  /\ ~openTable'
             /\ (solids' = curPlayerStarted') = (solids = curPlayerStarted)
  BY <1>4 DEF Timeout, BadParams, Impossible, Refused
<1>5. ASSUME NEW t \in Spend, Concede(t)
      PROVE  /\ ~openTable'
             /\ (solids' = curPlayerStarted') = (solids = curPlayerStarted)
  BY <1>5, <1>2 DEF Concede
<1>6. ASSUME NEW t \in Spend, Rerack(t) \/ KeepShooting(t)
      PROVE  FALSE
  BY <1>6 DEF Rerack, KeepShooting, TableFitsTurn
<1>7. ASSUME NEW t \in Spend, NEW down, NEW rails, Break(t, down, rails)
      PROVE  FALSE
  BY <1>7 DEF Break, TableFitsTurn
<1>8. ASSUME NEW t \in Spend, NEW called, NEW inPocket, NEW down, NEW first,
             NEW rail, NEW past,
             Shoot(t, called, inPocket, down, first, rail, past)
      PROVE  /\ ~openTable'
             /\ (solids' = curPlayerStarted') = (solids = curPlayerStarted)
  <2>1. ~openTable'
    BY <1>8 DEF Shoot
  <2>2. SwitchSides(t) \/ (SameSide(t) /\ solids' = solids)
    BY <1>8 DEF Shoot
  <2> QED
    BY <2>1, <2>2, <1>2, <1>3
<1>9. ASSUME NEW t \in Spend, NEW down, Aborted(t, down)
      PROVE  /\ ~openTable'
             /\ (solids' = curPlayerStarted') = (solids = curPlayerStarted)
  BY <1>9 DEF Aborted, Refused
<1> QED
  BY <1>1, <1>4, <1>5, <1>6, <1>7, <1>8, <1>9 DEF Next

\* The groups stay with the players in every execution.
THEOREM GroupsAlwaysStay == Spec => GroupsStay
<1>1. Init => TypeOK /\ TableFitsTurn
  BY TypeInit, FitInit
<1>2. (TypeOK /\ TableFitsTurn) /\ [Next]_vars => (TypeOK /\ TableFitsTurn)'
  BY TypeStep, FitStep
<1>3. (TypeOK /\ TableFitsTurn) /\ [Next]_vars =>
        [~openTable => /\ ~openTable'
                       /\ (solids' = curPlayerStarted') = (solids = curPlayerStarted)]_vars
  BY GroupStep
<1> QED
  BY <1>1, <1>2, <1>3, PTL DEF Spec, GroupsStay

-----------------------------------------------------------------------------
\* A game won by its shooter was won by a shot that sank the eight legally.
LEMMA WinStep ==
  ASSUME TypeOK, TableFitsTurn, Next, turnType' = "WIN", result' = "OK"
  PROVE  /\ ~openTable /\ Group(solids) \subseteq sunk
         /\ Eight \in sunk' \ sunk /\ Cue \notin sunk'
<1>1. ASSUME NEW t \in Spend, Timeout(t) \/ BadParams(t) \/ Impossible(t) \/ Concede(t)
      PROVE  FALSE
  BY <1>1 DEF Timeout, BadParams, Impossible, Concede, Refused, SwitchSides
<1>2. ASSUME NEW t \in Spend, Rerack(t) \/ KeepShooting(t)
      PROVE  FALSE
  BY <1>2 DEF Rerack, KeepShooting, KeepShootingTurn
<1>3. ASSUME NEW t \in Spend, NEW down, NEW rails, Break(t, down, rails)
      PROVE  FALSE
  BY <1>3 DEF Break
<1>4. ASSUME NEW t \in Spend, NEW called, NEW inPocket,
             NEW down \in SUBSET (OnTable \cup {Cue}), NEW first,
             NEW rail, NEW past,
             Shoot(t, called, inPocket, down, first, rail, past)
      PROVE  /\ ~openTable /\ Group(solids) \subseteq sunk
             /\ Eight \in sunk' \ sunk /\ Cue \notin sunk'
  <2>1. Eight \in down
    BY <1>4 DEF Shoot
  <2>2. \E foul : ~EightLoses(down, foul)
    BY <1>4, <2>1 DEF Shoot, SwitchSides
  <2>3. ~openTable /\ Group(solids) \subseteq sunk /\ Cue \notin down
    BY <2>2 DEF EightLoses, AllSunk
  <2>4. InTime(t) /\ turnType \in ShotTurn \ {"BREAK"}
    BY <1>4 DEF Shoot
  <2>5. Eight \notin sunk
    BY <2>4 DEF TableFitsTurn, InTime, ShotTurn, PlaceCueTurn
  <2>6. Eight \in sunk' /\ Cue \notin sunk'
    BY <1>4, <2>1, <2>3, <2>4 DEF Shoot, ShotTurn, TableFitsTurn, InTime
  <2> QED
    BY <2>3, <2>5, <2>6
<1>5. ASSUME NEW t \in Spend, NEW down, Aborted(t, down)
      PROVE  FALSE
  BY <1>5 DEF Aborted, Refused
<1> QED
  BY <1>1, <1>2, <1>3, <1>4, <1>5 DEF Next

\* In every execution a shooter wins only a game it has played out.
THEOREM WinIsAlwaysEarned == Spec => WinIsEarned
<1>1. Init => TypeOK /\ TableFitsTurn
  BY TypeInit, FitInit
<1>2. (TypeOK /\ TableFitsTurn) /\ [Next]_vars => (TypeOK /\ TableFitsTurn)'
  BY TypeStep, FitStep
<1>3. (TypeOK /\ TableFitsTurn) /\ [Next]_vars =>
        [turnType' = "WIN" /\ result' = "OK" =>
           /\ ~openTable /\ Group(solids) \subseteq sunk
           /\ Eight \in sunk' \ sunk /\ Cue \notin sunk']_vars
  BY WinStep
<1> QED
  BY <1>1, <1>2, <1>3, PTL DEF Spec, WinIsEarned

-----------------------------------------------------------------------------
\* The mover's charge: what the clock then shows is still covered.
LEMMA ChargeCovered ==
  ASSUME TypeOK, ClockCoversUse, NEW t \in Spend, Use(t),
         NEW p, p = Mover(curPlayerStarted), Charged(t) > 0
  PROVE  Charged(t) + used'[p] <= Limit[p]
<1>1. t \in Nat /\ p \in {"starter", "other"} /\ timeLeft \in Int
      /\ used[p] \in Nat /\ Limit[p] \in Nat
  BY EightBallAssumption DEF TypeOK, Mover
<1>2. used'[p] = IF used[p] + t > Limit[p] THEN Limit[p] + 1 ELSE used[p] + t
  BY <1>1 DEF Use, TypeOK
<1>3. timeLeft > 0 /\ Charged(t) = timeLeft - t
  BY <1>1 DEF Charged
<1>4. timeLeft + used[p] <= Limit[p]
  BY <1>1, <1>3 DEF ClockCoversUse, ClockOf
<1> QED
  BY <1>1, <1>2, <1>3, <1>4

\* The other side's use and clock are left alone.
LEMMA OtherCovered ==
  ASSUME TypeOK, ClockCoversUse, NEW t \in Spend, Use(t),
         NEW p \in {"starter", "other"}, p # Mover(curPlayerStarted)
  PROVE  used'[p] = used[p] /\ (timeLeftOpp > 0 => timeLeftOpp + used'[p] <= Limit[p])
BY DEF TypeOK, ClockCoversUse, ClockOf, Use, Mover

\* Every way to end a call keeps both clocks covered.
LEMMA CoverStep == TypeOK /\ ClockCoversUse /\ [Next]_vars => ClockCoversUse'
<1> SUFFICES ASSUME TypeOK, ClockCoversUse, [Next]_vars PROVE ClockCoversUse'
  OBVIOUS
<1>1. CASE UNCHANGED vars
  BY <1>1 DEF vars, turn, ClockCoversUse, ClockOf, Mover
<1>2. ASSUME NEW t \in Spend, Use(t),
             timeLeft' = Charged(t),
             UNCHANGED <<timeLeftOpp, curPlayerStarted>>
      PROVE  ClockCoversUse'
  BY <1>2, ChargeCovered, OtherCovered DEF ClockCoversUse, ClockOf, Mover
<1>3. ASSUME NEW t \in Spend, InTime(t), SwitchSides(t) PROVE ClockCoversUse'
  <2>1. /\ Charged(t) \in Nat /\ WholeSeconds(Charged(t)) \in Nat
        /\ WholeSeconds(Charged(t)) <= Charged(t)
        /\ used' \in [{"starter", "other"} -> Nat]
    BY <1>3, ClockFacts
  <2>2. SUFFICES ASSUME NEW p \in {"starter", "other"}, ClockOf(p)' > 0
                 PROVE  ClockOf(p)' + used'[p] <= Limit[p]
    BY DEF ClockCoversUse
  <2>3. CASE p = Mover(curPlayerStarted)
    <3>1. ClockOf(p)' = WholeSeconds(Charged(t))
      BY <1>3, <2>3 DEF ClockOf, Mover, SwitchSides, TypeOK
    <3>2. Charged(t) + used'[p] <= Limit[p]
      BY <1>3, <2>1, <2>2, <2>3, <3>1, ChargeCovered DEF InTime
    <3> QED
      BY <2>1, <3>1, <3>2, EightBallAssumption
  <2>4. CASE p # Mover(curPlayerStarted)
    <3>1. ClockOf(p)' = timeLeftOpp
      BY <1>3, <2>4 DEF ClockOf, Mover, SwitchSides, TypeOK
    <3> QED
      BY <1>3, <2>2, <2>4, <3>1, OtherCovered DEF InTime
  <2> QED
    BY <2>3, <2>4
<1>4. ASSUME NEW t \in Spend, Timeout(t) \/ BadParams(t) \/ Impossible(t)
      PROVE  ClockCoversUse'
  BY <1>4, <1>2 DEF Timeout, BadParams, Impossible, InTime, Refused
<1>5. ASSUME NEW t \in Spend, InTime(t), SameSide(t) PROVE ClockCoversUse'
  BY <1>5, <1>2 DEF InTime, SameSide
<1>6. ASSUME NEW t \in Spend, Concede(t) \/ Rerack(t) \/ KeepShooting(t)
      PROVE  ClockCoversUse'
  BY <1>6, <1>3, <1>5 DEF Concede, Rerack, KeepShooting
<1>7. ASSUME NEW t \in Spend, NEW down, NEW rails, Break(t, down, rails)
      PROVE  ClockCoversUse'
  BY <1>7, <1>3, <1>5 DEF Break
<1>8. ASSUME NEW t \in Spend, NEW called, NEW inPocket, NEW down, NEW first,
             NEW rail, NEW past,
             Shoot(t, called, inPocket, down, first, rail, past)
      PROVE  ClockCoversUse'
  <2>1. InTime(t) /\ (SwitchSides(t) \/ SameSide(t))
    BY <1>8 DEF Shoot
  <2> QED
    BY <2>1, <1>3, <1>5
<1>9. ASSUME NEW t \in Spend, NEW down, Aborted(t, down)
      PROVE  ClockCoversUse'
  BY <1>9, <1>2 DEF Aborted, InTime, Refused
<1> QED
  BY <1>1, <1>4, <1>6, <1>7, <1>8, <1>9 DEF Next

\* ClockCoversUse holds of every reachable state, for any limits and times.
THEOREM ClocksAlwaysCoverUse == Spec => []ClockCoversUse
<1>1. Init => TypeOK /\ ClockCoversUse
  BY TypeInit, EightBallAssumption DEF Init, ClockCoversUse, ClockOf, Mover
<1>2. (TypeOK /\ ClockCoversUse) /\ [Next]_vars => (TypeOK /\ ClockCoversUse)'
  BY TypeStep, CoverStep
<1> QED
  BY <1>1, <1>2, PTL DEF Spec
=============================================================================
