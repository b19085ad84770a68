---------------------------- MODULE ShotEventsProofs ----------------------------
(***************************************************************************)
(* Proofs about the event queue: the invariants of ShotEvents and that it  *)
(* implements ShotReport, for any balls, delays and number of events.      *)
(***************************************************************************)
EXTENDS ShotEvents, TLAPS

\* What the fields of an event say together.
WellFormed(e) ==
  /\ e \in Event /\ e.stale \subseteq BallsOf(e)
  /\ IF e.kind = "BALL_COLLISION" THEN e.b2 \in Ball /\ e.b1 # e.b2 ELSE e.b2 = Unknown

\* Nothing moves before the cue ball is struck, and only it before it hits a ball.
CueAlone ==
  /\ phase = "ready" => Stirring(motion) = {} /\ drifted = {} /\ first = Cue /\ Cue \in InPlay(motion)
  /\ first = Cue => /\ Stirring(motion) \subseteq {Cue}
                    /\ \A e \in future : e.b1 = Cue /\ e.b2 # Cue
  /\ ~fullSim /\ phase = "running" => first = Cue

\* The balls that were pocketed before the shot are object balls and stay so.
BeforeStays == before \subseteq Object \cap Pocketed

\* The strengthening under which the invariants are inductive.
QueueInv ==
  /\ TypeOK /\ NothingOverdue /\ QueueIsCurrent /\ CueAlone /\ BeforeStays
  /\ \A e \in future : WellFormed(e)

\* What an event is like that has just been predicted, when the balls move as m says.
Fresh(f, m) ==
  /\ WellFormed(f) /\ f.in >= 0 /\ f.stale = {} /\ f.kind # "CUE_STRIKE"
  /\ f.b1 \in IF f.kind = "STATE_CHANGE" THEN Stirring(m) ELSE Moving(m)
  /\ BallsOf(f) \subseteq InPlay(m)

-----------------------------------------------------------------------------
\* Balls have numbers, and UNKNOWN_ID is none of them.
LEMMA UnknownIsNoBall == Ball \subseteq Nat /\ Unknown \notin Ball /\ Never \notin Delay /\ Delay \subseteq Nat
BY ShotEventsAssumption DEF Ball, Cue, Unknown, Never

\* Balls that drift only calm down; none leaves or enters the table.
LEMMA DriftFacts ==
  ASSUME TypeOK, NEW m \in Drifts
  PROVE  /\ m \in [Ball -> Motion]
         /\ Stirring(m) \subseteq Stirring(motion) /\ Moving(m) \subseteq Moving(motion)
         /\ InPlay(m) = InPlay(motion)
<1>1. m \in [Ball -> Motion] /\ \A b \in Ball : m[b] \in Calmer(motion[b])
  BY DEF Drifts
<1>2. \A b \in Ball : motion[b] \in Motion
  BY DEF TypeOK
<1>3. \A b \in Ball :
        /\ m[b] \in {"rolling", "sliding"} => motion[b] \in {"rolling", "sliding"}
        /\ m[b] = "spinning" => motion[b] \in {"rolling", "sliding", "spinning"}
        /\ m[b] = "pocketed" <=> motion[b] = "pocketed"
  BY <1>1, <1>2 DEF Calmer, Motion
<1> QED
  BY <1>1, <1>3 DEF Stirring, Moving, InPlay

\* An event changes its own balls; the others only calm down.  A ball leaves the
\* table only by being pocketed.
LEMMA HandledFacts ==
  ASSUME TypeOK, NEW e, WellFormed(e), BallsOf(e) \subseteq InPlay(motion),
         NEW m \in Handled(e)
  PROVE  /\ m \in [Ball -> Motion]
         /\ Stirring(m) \subseteq Stirring(motion) \cup BallsOf(e)
         /\ Moving(m) \subseteq Moving(motion) \cup BallsOf(e)
         /\ InPlay(m) = IF e.kind = "POCKETED" THEN InPlay(motion) \ {e.b1}
                        ELSE InPlay(motion)
         /\ \A b \in Ball \ BallsOf(e) : m[b] # motion[b] => b \in Stirring(motion)
<1>1. /\ m \in [Ball -> Motion] /\ \A b \in Ball : motion[b] \in Motion
      /\ \A b \in BallsOf(e) : m[b] \in Outcome(e.kind, motion[b])
      /\ \A b \in Ball \ BallsOf(e) : m[b] \in Calmer(motion[b])
  BY DEF Handled, TypeOK, BallsOf
<1>2. \A b \in Ball \ BallsOf(e) :
        /\ m[b] \in {"rolling", "sliding"} => motion[b] \in {"rolling", "sliding"}
        /\ m[b] = "spinning" => motion[b] \in {"rolling", "sliding", "spinning"}
        /\ m[b] = "pocketed" <=> motion[b] = "pocketed"
        /\ m[b] # motion[b] => motion[b] \in {"rolling", "sliding", "spinning"}
  BY <1>1 DEF Calmer, Motion
<1>3. \A b \in BallsOf(e) : m[b] = "pocketed" <=> e.kind = "POCKETED"
  BY <1>1 DEF Outcome, Calmer, Motion, InPlay, WellFormed, Event, Kind
<1>4. e.kind = "POCKETED" => BallsOf(e) = {e.b1}
  BY UnknownIsNoBall DEF WellFormed, BallsOf, Event
<1>5. InPlay(m) = IF e.kind = "POCKETED" THEN InPlay(motion) \ {e.b1} ELSE InPlay(motion)
  BY <1>2, <1>3, <1>4 DEF InPlay
<1> QED
  BY <1>1, <1>2, <1>5 DEF Stirring, Moving

-----------------------------------------------------------------------------
\* The events that stay in the queue when e is handled: they are none of its balls',
\* marked with those of their own that drifted meanwhile, and otherwise as they were.
LEMMA RemainingFacts ==
  ASSUME TypeOK, QueueIsCurrent, phase = "running", \A g \in future : WellFormed(g),
         NEW e, Earliest(e), NEW f \in Remaining(e)
  PROVE  /\ WellFormed(f) /\ f.in >= 0
         /\ BallsOf(f) \subseteq InPlay(motion) \ BallsOf(e)
         /\ \E g \in future : /\ f.kind = g.kind /\ f.b1 = g.b1 /\ f.b2 = g.b2
                             /\ f.stale = g.stale \cup (Changed \cap BallsOf(f))
<1>1. PICK g \in future :
        /\ BallsOf(e) \cap BallsOf(g) = {}
        /\ f = [g EXCEPT !.in = @ - e.in,
                         !.stale = @ \cup ((BallsOf(e) \cup Changed) \cap BallsOf(g))]
  BY DEF Remaining, RelatedTo
<1>2. e \in future /\ e.in <= g.in /\ e.in \in Int /\ g.in \in Int
  BY DEF Earliest, TypeOK, Event
<1>3. g \in Event /\ BallsOf(g) \subseteq InPlay(motion) /\ WellFormed(g)
  BY DEF TypeOK, QueueIsCurrent
<1> DEFINE marks == g.stale \cup (Changed \cap BallsOf(g))
<1>4. f = [kind |-> g.kind, b1 |-> g.b1, b2 |-> g.b2, in |-> g.in - e.in, stale |-> marks]
  <2>1. (BallsOf(e) \cup Changed) \cap BallsOf(g) = Changed \cap BallsOf(g)
    BY <1>1
  <2>2. f = [g EXCEPT !.in = g.in - e.in, !.stale = marks]
    BY <1>1, <1>3, <2>1
  <2> HIDE DEF marks
  <2> QED
    BY <1>3, <2>2 DEF Event
<1>5. /\ f.kind = g.kind /\ f.b1 = g.b1 /\ f.b2 = g.b2
      /\ f.in = g.in - e.in /\ f.stale = marks /\ BallsOf(f) = BallsOf(g)
  BY <1>4 DEF BallsOf
<1>6. WellFormed(f)
  <2>1. marks \subseteq BallsOf(g) /\ BallsOf(g) \subseteq Ball
    BY <1>3 DEF WellFormed, BallsOf
  <2> HIDE DEF marks
  <2> QED
    BY <1>2, <1>3, <1>4, <1>5, <2>1 DEF Event, WellFormed
<1>7. f.in >= 0
  BY <1>2, <1>5
<1>8. BallsOf(f) \subseteq InPlay(motion) \ BallsOf(e)
  BY <1>1, <1>3, <1>5
<1> QED
  BY <1>5, <1>6, <1>7, <1>8

\* An event that is predicted is well formed, fresh and not overdue.
LEMMA PredictedFacts ==
  ASSUME NEW kind \in Kind, NEW b1 \in Ball, NEW b2, NEW d \in Delay,
         IF kind = "BALL_COLLISION" THEN b2 \in Ball /\ b1 # b2 ELSE b2 = Unknown
  PROVE  LET f == Predicted(kind, b1, b2, d) IN
         /\ WellFormed(f) /\ f.in >= 0 /\ f.stale = {}
         /\ f.kind = kind /\ f.b1 = b1 /\ f.b2 = b2
         /\ BallsOf(f) = IF kind = "BALL_COLLISION" THEN {b1, b2} ELSE {b1}
<1> DEFINE f == Predicted(kind, b1, b2, d)
<1>1. /\ f.in = d /\ f.stale = {} /\ f.kind = kind /\ f.b1 = b1 /\ f.b2 = b2
      /\ f \in Event
  BY UnknownIsNoBall DEF Predicted, Event
<1>2. BallsOf(f) = IF kind = "BALL_COLLISION" THEN {b1, b2} ELSE {b1}
  BY <1>1, UnknownIsNoBall DEF BallsOf
<1> QED
  BY <1>1, <1>2, UnknownIsNoBall DEF WellFormed

\* The queue after e has been handled: what remains, and predictions for the balls
\* of e that are in motion.
LEMMA QueueAfter ==
  ASSUME TypeOK, QueueIsCurrent, \A g \in future : WellFormed(g),
         NEW e, Handle(e)
  PROVE  /\ \A f \in future' :
              f \in Remaining(e) \/ Fresh(f, motion')
         /\ Remaining(e) \subseteq future'
         /\ \A b \in BallsOf(e) \cap Stirring(motion') :
              \E f \in future' : f.kind = "STATE_CHANGE" /\ f.b1 = b
<1> DEFINE S == BallsOf(e)
<1>1. PICK when \in Transitions(S, motion'),
           edge \in [S \cap Moving(motion') -> Boundary],
           meet \in [Lookups(S, motion') -> Delay \cup {Never}] :
        future' =
            Remaining(e)
            \cup {Predicted("STATE_CHANGE", b, Unknown, when[b]) : b \in DOMAIN when}
            \cup {Predicted(edge[b][1], b, Unknown, edge[b][2]) :
                    b \in {c \in DOMAIN edge : edge[c][1] # "NONE"}}
            \cup {Predicted("BALL_COLLISION", p[1], p[2], meet[p]) :
                    p \in {q \in DOMAIN meet : meet[q] # Never}}
  BY DEF Handle
<1>2. Moving(motion') \subseteq Stirring(motion') /\ Stirring(motion') \subseteq InPlay(motion')
      /\ InPlay(motion') \subseteq Ball /\ S \subseteq Ball
  BY DEF Moving, Stirring, InPlay, BallsOf
<1>3. DOMAIN when = S \cap Stirring(motion') /\ \A b \in DOMAIN when : when[b] \in Delay
  BY DEF Transitions
<1>4. ASSUME NEW b \in DOMAIN when
      PROVE  LET f == Predicted("STATE_CHANGE", b, Unknown, when[b]) IN
             Fresh(f, motion') /\ f.kind = "STATE_CHANGE" /\ f.b1 = b
  BY <1>2, <1>3, PredictedFacts DEF Kind, Fresh
<1>5. ASSUME NEW b \in DOMAIN edge, edge[b][1] # "NONE"
      PROVE  LET f == Predicted(edge[b][1], b, Unknown, edge[b][2]) IN
             Fresh(f, motion')
  <2>1. /\ b \in Moving(motion') /\ edge[b][1] \in {"RAIL_COLLISION", "POCKETED"}
        /\ edge[b][2] \in Delay
    BY <1>5 DEF Boundary
  <2> QED
    BY <1>2, <2>1, PredictedFacts DEF Kind, Fresh
<1>6. ASSUME NEW p \in DOMAIN meet, meet[p] # Never
      PROVE  LET f == Predicted("BALL_COLLISION", p[1], p[2], meet[p]) IN
             Fresh(f, motion')
  <2>1. /\ p[1] \in Moving(motion') /\ p[2] \in InPlay(motion') /\ p[1] # p[2]
        /\ meet[p] \in Delay
    BY <1>6 DEF Lookups
  <2> QED
    BY <1>2, <2>1, PredictedFacts DEF Kind, Fresh
<1>7. ASSUME NEW f \in future'
      PROVE  f \in Remaining(e) \/ Fresh(f, motion')
  BY <1>1, <1>4, <1>5, <1>6
<1>8. ASSUME NEW b \in S \cap Stirring(motion')
      PROVE  \E f \in future' : f.kind = "STATE_CHANGE" /\ f.b1 = b
  BY <1>1, <1>3, <1>4
<1> QED
  BY <1>1, <1>7, <1>8

\* An event that shares no ball with e stays in the queue.
LEMMA RemainingKeeps ==
  ASSUME TypeOK, \A g \in future : WellFormed(g), NEW e, NEW g \in future,
         BallsOf(e) \cap BallsOf(g) = {}
  PROVE  \E f \in Remaining(e) : f.kind = g.kind /\ f.b1 = g.b1
<1> DEFINE f == [g EXCEPT !.in = @ - e.in,
                       !.stale = @ \cup ((BallsOf(e) \cup Changed) \cap BallsOf(g))]
<1>1. g \in Event /\ g.b1 \in BallsOf(g)
  BY DEF WellFormed, Event, BallsOf
<1>2. g # e
  BY <1>1
<1>3. f \in Remaining(e)
  BY <1>2 DEF Remaining, RelatedTo
<1>4. f.kind = g.kind /\ f.b1 = g.b1
  BY <1>1 DEF Event
<1> QED
  BY <1>3, <1>4

\* Handling an event keeps the queue current, and everything that takes.
LEMMA HandleKeeps ==
  ASSUME QueueInv, NEW e \in future, Handle(e)
  PROVE  QueueInv'
<1> USE DEF QueueInv
<1>1. /\ phase = "running" /\ phase' = "running" /\ counter > 1 /\ Earliest(e)
      /\ motion' \in Handled(e) /\ WellFormed(e) /\ BallsOf(e) \subseteq InPlay(motion)
      /\ e.b1 \in BallsOf(e) /\ UNCHANGED <<fullSim, before>>
  BY DEF Handle, MayHandle, QueueIsCurrent, WellFormed, Event, BallsOf
<1>2. /\ motion' \in [Ball -> Motion]
      /\ Stirring(motion') \subseteq Stirring(motion) \cup BallsOf(e)
      /\ Moving(motion') \subseteq Moving(motion) \cup BallsOf(e)
      /\ InPlay(motion') = IF e.kind = "POCKETED" THEN InPlay(motion) \ {e.b1}
                           ELSE InPlay(motion)
      /\ Changed \ BallsOf(e) \subseteq Stirring(motion)
  BY <1>1, HandledFacts DEF Changed
<1>3. \A f \in Remaining(e) :
        /\ WellFormed(f) /\ f.in >= 0
        /\ BallsOf(f) \subseteq InPlay(motion) \ BallsOf(e)
        /\ \E g \in future : /\ f.kind = g.kind /\ f.b1 = g.b1 /\ f.b2 = g.b2
                            /\ f.stale = g.stale \cup (Changed \cap BallsOf(f))
  BY <1>1, RemainingFacts
<1>4. /\ \A f \in future' : f \in Remaining(e) \/ Fresh(f, motion')
      /\ Remaining(e) \subseteq future'
      /\ \A b \in BallsOf(e) \cap Stirring(motion') :
           \E f \in future' : f.kind = "STATE_CHANGE" /\ f.b1 = b
  BY QueueAfter
<1>5. (\A f \in future : WellFormed(f))' /\ NothingOverdue'
  BY <1>3, <1>4 DEF NothingOverdue, WellFormed, BallsOf, Fresh
<1>6. TypeOK'
  <2>1. counter' \in 1 .. MaxEvents
    BY <1>1, ShotEventsAssumption DEF Handle, Counted, TypeOK
  <2>2. first' \in Ball
    BY <1>1 DEF Handle, WellFormed, TypeOK
  <2>3. checked' \subseteq SUBSET Ball
    BY DEF Handle, Lookups, Moving, InPlay, TypeOK
  <2>4. future' \subseteq Event
    BY <1>5 DEF WellFormed
  <2>5. drifted' \subseteq Ball
    BY DEF Handle, Changed, TypeOK
  <2> QED
    BY <1>1, <1>2, <2>1, <2>2, <2>3, <2>4, <2>5 DEF TypeOK
<1>7. QueueIsCurrent'
  <2> DEFINE drifting == (drifted \cup Changed) \ BallsOf(e)
  <2>0. drifted' = drifting
    BY DEF Handle
  <2>1. ASSUME NEW f \in future'
        PROVE  /\ f.stale \subseteq drifting /\ BallsOf(f) \subseteq InPlay(motion')
               /\ f.stale = {} => Fits(f)'
    <3>1. CASE Fresh(f, motion')
      BY <3>1 DEF Fresh, Fits
    <3>2. CASE f \in Remaining(e)
      <4>1. PICK g \in future : /\ f.kind = g.kind /\ f.b1 = g.b1 /\ f.b2 = g.b2
                               /\ f.stale = g.stale \cup (Changed \cap BallsOf(f))
        BY <1>3, <3>2
      <4>2. /\ WellFormed(f) /\ WellFormed(g) /\ BallsOf(f) = BallsOf(g)
            /\ BallsOf(f) \subseteq InPlay(motion) \ BallsOf(e)
        BY <1>3, <3>2, <4>1 DEF BallsOf
      <4>3. BallsOf(f) \subseteq InPlay(motion')
        BY <1>1, <1>2, <4>2
      <4>4. g.stale \subseteq drifted /\ (g.stale = {} => Fits(g))
        BY <1>1 DEF QueueIsCurrent
      <4>5. f.stale \subseteq drifting
        BY <4>1, <4>2, <4>4 DEF WellFormed
      <4>6. ASSUME f.stale = {} PROVE Fits(f)'
        <5>1. Fits(g) /\ Changed \cap BallsOf(f) = {}
          BY <4>1, <4>4, <4>6
        <5>2. f.b1 \in Ball /\ f.b1 \in BallsOf(f) /\ f.b1 \notin BallsOf(e)
          BY <4>2 DEF WellFormed, Event, BallsOf
        <5>3. motion'[f.b1] = motion[f.b1]
          BY <5>1, <5>2 DEF Changed
        <5>4. f.kind # "CUE_STRIKE"
          <6>1. g # e
            BY <4>1, <5>2, <1>1
          <6> QED
            BY <4>1, <5>1, <6>1 DEF Fits
        <5> QED
          BY <4>1, <5>1, <5>2, <5>3, <5>4 DEF Fits, Stirring, Moving
      <4> QED
        BY <4>3, <4>5, <4>6
    <3> QED
      BY <1>4, <3>1, <3>2
  <2>2. ASSUME NEW b \in Stirring(motion') \cup drifting
        PROVE  \E f \in future' : f.kind = "STATE_CHANGE" /\ f.b1 = b
    <3>1. CASE b \in BallsOf(e)
      BY <1>4, <3>1
    <3>2. CASE b \notin BallsOf(e)
      <4>1. PICK g \in future : g.kind = "STATE_CHANGE" /\ g.b1 = b
        BY <1>1, <1>2, <3>2 DEF QueueIsCurrent
      <4>2. BallsOf(e) \cap BallsOf(g) = {}
        BY <3>2, <4>1, UnknownIsNoBall DEF BallsOf, WellFormed
      <4> QED
        BY <1>4, <4>1, <4>2, RemainingKeeps
    <3> QED
      BY <3>1, <3>2
  <2>3. ASSUME NEW b \in Moving(motion'), NEW c \in InPlay(motion'), b # c
        PROVE  {b, c} \in checked'
    <3> DEFINE S == BallsOf(e)
    <3>1. checked' = {q \in checked : q \cap S = {}}
                       \cup {{p[1], p[2]} : p \in Lookups(S, motion')}
      BY DEF Handle
    <3>2. CASE {b, c} \cap S = {}
      <4>1. b \in Moving(motion) /\ c \in InPlay(motion)
        BY <1>2, <3>2
      <4>2. {b, c} \in checked
        BY <1>1, <2>3, <4>1 DEF QueueIsCurrent
      <4> QED
        BY <3>1, <3>2, <4>2
    <3>3. CASE {b, c} \cap S # {}
      <4>1. b \in Nat /\ c \in Nat /\ b \in InPlay(motion')
        BY UnknownIsNoBall DEF Moving, InPlay
      <4>2. <<b, c>> \in Lookups(S, motion') \/ <<c, b>> \in Lookups(S, motion')
        BY <2>3, <3>3, <4>1 DEF Lookups
      <4> QED
        BY <3>1, <4>2
    <3> QED
      BY <3>2, <3>3
  <2> QED
    BY <2>0, <2>1, <2>2, <2>3 DEF QueueIsCurrent
<1>8. BeforeStays'
  BY <1>1, <1>2 DEF BeforeStays, Pocketed
<1>9. CueAlone'
  <2>1. ASSUME first' = Cue
        PROVE  /\ Stirring(motion') \subseteq {Cue}
               /\ \A f \in future' : f.b1 = Cue /\ f.b2 # Cue
    <3>1. first = Cue /\ e.kind # "BALL_COLLISION"
      BY <2>1 DEF Handle, CueAlone
    <3>2. BallsOf(e) = {Cue}
      BY <1>1, <3>1, UnknownIsNoBall DEF CueAlone, WellFormed, BallsOf
    <3>3. Stirring(motion') \subseteq {Cue}
      BY <1>2, <3>1, <3>2 DEF CueAlone
    <3>4. ASSUME NEW f \in future' PROVE f.b1 = Cue /\ f.b2 # Cue
      <4>1. CASE f \in Remaining(e)
        BY <1>3, <3>1, <4>1 DEF CueAlone
      <4>2. CASE Fresh(f, motion')
        <5>1. f.b1 \in Stirring(motion') /\ WellFormed(f)
          BY <4>2 DEF Fresh, Stirring
        <5> QED
          BY <3>3, <5>1, UnknownIsNoBall DEF WellFormed, Ball
      <4> QED
        BY <1>4, <4>1, <4>2
    <3> QED
      BY <3>3, <3>4
  <2>2. ~fullSim' => first' = Cue
    BY <1>1 DEF Handle, CueAlone
  <2> QED
    BY <1>1, <2>1, <2>2 DEF CueAlone
<1> QED
  BY <1>5, <1>6, <1>7, <1>8, <1>9

\* Before the shot everything is at rest and nothing is expected.
LEMMA StartsQuiet == Init => QueueInv /\ EndsAtRest
<1> SUFFICES ASSUME Init PROVE QueueInv /\ EndsAtRest
  OBVIOUS
<1>1. /\ before \subseteq Object /\ Cue \notin before /\ Object \subseteq Ball
      /\ motion = [b \in Ball |-> IF b \in before THEN "pocketed" ELSE "still"]
  BY ShotEventsAssumption DEF Init, Ball, Cue
<1>2. /\ InPlay(motion) = Ball \ before /\ Stirring(motion) = {}
      /\ motion \in [Ball -> Motion]
  BY <1>1 DEF InPlay, Stirring, Moving, Motion
<1>3. TypeOK
  BY <1>1, <1>2, ShotEventsAssumption DEF Init, TypeOK, Ball
<1>4. CueAlone /\ BeforeStays
  BY <1>1, <1>2 DEF Init, CueAlone, BeforeStays, Pocketed, Ball
<1>5. NothingOverdue /\ QueueIsCurrent /\ EndsAtRest
  BY DEF Init, NothingOverdue, QueueIsCurrent, EndsAtRest
<1> QED
  BY <1>3, <1>4, <1>5 DEF Init, QueueInv

\* When the simulation ends or breaks off, the table is that of the last event or
\* one that drifted from it.
LEMMA LeavingKeeps ==
  ASSUME QueueInv, phase' \in {"done", "error"}, motion' \in Drifts \/ motion' = motion,
         counter' \in 1 .. MaxEvents, first' \in Ball, first' = Cue => first = Cue,
         UNCHANGED <<fullSim, before, future, checked, drifted>>
  PROVE  QueueInv'
<1> USE DEF QueueInv
<1>1. /\ motion' \in [Ball -> Motion]
      /\ Stirring(motion') \subseteq Stirring(motion) /\ InPlay(motion') = InPlay(motion)
  BY DriftFacts DEF TypeOK
<1>2. TypeOK' /\ NothingOverdue' /\ QueueIsCurrent' /\ (\A f \in future : WellFormed(f))'
  BY <1>1 DEF TypeOK, NothingOverdue, QueueIsCurrent, WellFormed
<1>3. CueAlone' /\ BeforeStays'
  BY <1>1 DEF CueAlone, BeforeStays, Pocketed
<1> QED
  BY <1>2, <1>3

\* Every step of the simulation keeps the queue current.
LEMMA QueueStep == QueueInv /\ [Next]_vars => QueueInv'
<1> SUFFICES ASSUME QueueInv, [Next]_vars PROVE QueueInv'
  OBVIOUS
<1> USE DEF QueueInv
<1>1. CASE UNCHANGED vars
  BY <1>1 DEF vars, TypeOK, NothingOverdue, QueueIsCurrent, CueAlone, BeforeStays, Pocketed,
             WellFormed, Fits
<1>2. CASE Refuse \/ Exhaust \/ Finish
  BY <1>2, LeavingKeeps DEF Refuse, Exhaust, Finish, TypeOK
<1>3. CASE Break
  BY <1>3, LeavingKeeps, ShotEventsAssumption DEF Break, MayHandle, Counted, TypeOK
<1>4. CASE Start
  <2> DEFINE strike == Predicted("CUE_STRIKE", Cue, Unknown, 0)
  <2>1. /\ phase = "ready" /\ phase' = "running" /\ future' = {strike}
        /\ UNCHANGED <<fullSim, counter, motion, checked, drifted, before, first>>
    BY <1>4 DEF Start
  <2>2. /\ WellFormed(strike) /\ strike.in = 0 /\ strike.stale = {}
        /\ strike.b1 = Cue /\ strike.b2 = Unknown /\ BallsOf(strike) = {Cue}
    BY UnknownIsNoBall DEF Predicted, WellFormed, Event, Kind, BallsOf, Ball
  <2>3. Stirring(motion) = {} /\ drifted = {} /\ Moving(motion) = {} /\ Cue \in InPlay(motion)
    <3>1. Stirring(motion) = {} /\ Moving(motion) = {}
      BY <2>1 DEF CueAlone, Stirring, Moving
    <3>2. Cue \in InPlay(motion) /\ drifted = {}
      BY <2>1 DEF CueAlone
    <3> QED
      BY <3>1, <3>2
  <2>4. TypeOK' /\ NothingOverdue' /\ (\A f \in future : WellFormed(f))'
    BY <2>1, <2>2 DEF TypeOK, NothingOverdue, WellFormed
  <2>5. QueueIsCurrent'
    <3>1. strike.kind = "CUE_STRIKE"
      BY DEF Predicted
    <3>2. \A f \in future' : f.stale = {} /\ BallsOf(f) \subseteq InPlay(motion') /\ Fits(f)'
      BY <2>1, <2>2, <2>3, <3>1 DEF Fits
    <3> QED
      BY <2>1, <2>3, <3>2 DEF QueueIsCurrent, Stirring, Moving
  <2>6. CueAlone' /\ BeforeStays'
    BY <2>1, <2>2, <2>3, UnknownIsNoBall DEF CueAlone, BeforeStays, Pocketed, Ball
  <2> QED
    BY <2>4, <2>5, <2>6
<1>5. ASSUME NEW e \in future, Handle(e) PROVE QueueInv'
  BY <1>5, HandleKeeps
<1>6. ASSUME NEW e \in future, FindHit(e) PROVE QueueInv'
  <2>1. e.b2 \in Ball /\ e.b2 # Cue
    BY <1>6 DEF FindHit, WellFormed, CueAlone
  <2>2. counter' \in 1 .. MaxEvents
    BY <1>6, ShotEventsAssumption DEF FindHit, MayHandle, Counted, TypeOK
  <2> QED
    BY <1>6, <2>1, <2>2, LeavingKeeps DEF FindHit
<1> QED
  BY <1>1, <1>2, <1>3, <1>4, <1>5, <1>6 DEF Next

\* Every variable has its type in every execution.
THEOREM TypesHold == Spec => []TypeOK
<1>1. QueueInv => TypeOK
  BY DEF QueueInv
<1> QED
  BY <1>1, StartsQuiet, QueueStep, PTL DEF Spec

\* The repaired queue is never behind one computed from scratch but by the events of
\* balls that drifted, and those balls' transitions are to come.
THEOREM QueueAlwaysCurrent == Spec => []QueueIsCurrent
<1>1. QueueInv => QueueIsCurrent
  BY DEF QueueInv
<1> QED
  BY <1>1, StartsQuiet, QueueStep, PTL DEF Spec

\* The loop never meets an event of the past, so its sanity check is dead code.
THEOREM NeverOverdue == Spec => []NothingOverdue
<1>1. QueueInv => NothingOverdue
  BY DEF QueueInv
<1> QED
  BY <1>1, StartsQuiet, QueueStep, PTL DEF Spec

-----------------------------------------------------------------------------
\* A full simulation can end only with an empty queue, and then nothing moves.
LEMMA RestStep == QueueInv /\ EndsAtRest /\ [Next]_vars => EndsAtRest'
<1> SUFFICES ASSUME QueueInv, EndsAtRest, [Next]_vars, phase' = "done", fullSim'
             PROVE  Stirring(motion') = {}
  BY DEF EndsAtRest, Stirring
<1>1. CASE UNCHANGED vars
  BY <1>1 DEF vars, EndsAtRest, Stirring
<1>2. CASE Finish
  BY <1>2 DEF Finish, QueueInv, QueueIsCurrent, Stirring
<1>3. CASE \E e \in future : Handle(e) \/ FindHit(e)
  BY <1>3 DEF Handle, FindHit
<1>4. CASE Refuse \/ Start \/ Break \/ Exhaust
  BY <1>4 DEF Refuse, Start, Break, Exhaust
<1> QED
  BY <1>1, <1>2, <1>3, <1>4 DEF Next

\* A shot that is simulated to the end leaves no ball in motion.
THEOREM AlwaysEndsAtRest == Spec => []EndsAtRest
BY StartsQuiet, QueueStep, RestStep, PTL DEF Spec

-----------------------------------------------------------------------------
\* The pocketed balls grow by the ball of a POCKETED event and by nothing else.
LEMMA PocketedAfter ==
  ASSUME QueueInv, NEW e \in future, Handle(e)
  PROVE  /\ Pocketed' = IF e.kind = "POCKETED" THEN Pocketed \cup {e.b1} ELSE Pocketed
         /\ e.b1 \in Ball \ Pocketed /\ BallsOf(e) \subseteq Ball \ Pocketed
<1>1. /\ TypeOK /\ WellFormed(e) /\ BallsOf(e) \subseteq InPlay(motion)
      /\ motion' \in Handled(e) /\ e.b1 \in BallsOf(e)
  BY DEF QueueInv, Handle, QueueIsCurrent, WellFormed, Event, BallsOf
<1>2. InPlay(motion') = IF e.kind = "POCKETED" THEN InPlay(motion) \ {e.b1} ELSE InPlay(motion)
  BY <1>1, HandledFacts
<1>3. InPlay(motion) \subseteq Ball
  BY DEF InPlay
<1> QED
  BY <1>1, <1>2, <1>3 DEF Pocketed

\* Every step of the simulation is a step of the report or leaves it alone.
LEMMA ReportStep == QueueInv /\ [Next]_vars => [Report!Next]_Report!vars
<1> SUFFICES ASSUME QueueInv, [Next]_vars PROVE [Report!Next]_Report!vars
  OBVIOUS
<1> USE DEF QueueInv
<1>1. CASE UNCHANGED vars
  BY <1>1 DEF vars, Report!vars, Pocketed, InPlay
<1>2. CASE Start
  BY <1>2 DEF Start, Report!vars, Pocketed, InPlay
<1>3. CASE Refuse \/ Exhaust \/ Finish \/ Break
  <2>1. Pocketed' = Pocketed
    BY <1>3, DriftFacts DEF Refuse, Exhaust, Finish, Break, Pocketed, InPlay
  <2>2. Report!End
    BY <1>3, <2>1 DEF Refuse, Exhaust, Finish, Break, Report!End
  <2> QED
    BY <2>2 DEF Report!Next
<1>4. ASSUME NEW e \in future, Handle(e) PROVE [Report!Next]_Report!vars
  <2>1. /\ phase = "running" /\ phase' = "running" /\ before' = before
        /\ first' = IF e.kind = "BALL_COLLISION" /\ first = Cue THEN e.b2 ELSE first
    BY <1>4 DEF Handle
  <2>2. /\ Pocketed' = IF e.kind = "POCKETED" THEN Pocketed \cup {e.b1} ELSE Pocketed
        /\ e.b1 \in Ball \ Pocketed /\ BallsOf(e) \subseteq Ball \ Pocketed
    BY <1>4, PocketedAfter
  <2>3. before \subseteq Pocketed /\ WellFormed(e)
    BY DEF BeforeStays
  <2>4. CASE e.kind = "POCKETED"
    <3>1. Report!Fall(e.b1)
      BY <2>1, <2>2, <2>3, <2>4
      DEF Report!Fall, Report!OnTable, Report!Ball, Report!Cue, Ball, Cue, CueAlone
    <3> QED
      BY <2>2, <3>1 DEF Report!Next, Report!Ball, Report!Cue, Ball, Cue
  <2>5. CASE e.kind = "BALL_COLLISION" /\ first = Cue
    <3>1. e.b2 \in Ball /\ e.b2 # Cue /\ e.b2 \notin Pocketed
      BY <2>2, <2>3, <2>5 DEF WellFormed, CueAlone, BallsOf
    <3>2. Report!Hit(e.b2)
      BY <2>1, <2>2, <2>3, <2>5, <3>1
      DEF Report!Hit, Report!OnTable, Report!Ball, Report!Cue, Ball, Cue
    <3> QED
      BY <3>1, <3>2 DEF Report!Next, Report!Ball, Report!Cue, Ball, Cue
  <2>6. CASE e.kind # "POCKETED" /\ ~(e.kind = "BALL_COLLISION" /\ first = Cue)
    BY <2>1, <2>2, <2>6 DEF Report!vars
  <2> QED
    BY <2>4, <2>5, <2>6
<1>5. ASSUME NEW e \in future, FindHit(e) PROVE [Report!Next]_Report!vars
  <2>1. /\ phase = "running" /\ phase' = "done" /\ before' = before /\ first = Cue
        /\ first' = e.b2 /\ e.kind = "BALL_COLLISION" /\ motion' \in Drifts
    BY <1>5 DEF FindHit, CueAlone
  <2>2. Pocketed' = Pocketed
    BY <2>1, DriftFacts DEF Pocketed
  <2>3. e.b2 \in Ball /\ e.b2 # Cue /\ e.b2 \notin Pocketed
    BY <2>1 DEF WellFormed, CueAlone, QueueIsCurrent, BallsOf, Pocketed
  <2>4. Report!Hit(e.b2)
    BY <2>1, <2>2, <2>3 DEF Report!Hit, Report!OnTable, Report!Ball, Report!Cue, Ball, Cue, BeforeStays
  <2> QED
    BY <2>3, <2>4 DEF Report!Next, Report!Ball, Report!Cue, Ball, Cue
<1> QED
  BY <1>1, <1>2, <1>3, <1>4, <1>5 DEF Next

\* The event queue implements what the rules assume of a shot, for any balls,
\* delays and number of events.
THEOREM QueueImplementsReport == Spec => ImplementsReport
<1>1. Init => Report!Init
  BY DEF Init, Report!Init, Pocketed, InPlay, Report!Cue, Cue
<1> QED
  BY <1>1, StartsQuiet, QueueStep, ReportStep, PTL DEF Spec, ImplementsReport, Report!Spec

\* What the report says at any time is what Physical demands in NineBall and what
\* EightBall assumes of Shoot: balls fall from the table, once, and not before a hit.
THEOREM ReportsArePhysical == Report!Spec => []Report!ReportIsPhysical
<1> USE DEF Report!ReportIsPhysical, Report!Ball, Report!Cue
<1>1. Report!Init => Report!ReportIsPhysical
  BY DEF Report!Init
<1>2. Report!ReportIsPhysical /\ [Report!Next]_Report!vars => Report!ReportIsPhysical'
  BY DEF Report!Next, Report!vars, Report!Hit, Report!Fall, Report!End, Report!OnTable
<1> QED
  BY <1>1, <1>2, PTL DEF Report!Spec

-----------------------------------------------------------------------------
\* Each step uses up one of the events the counter allows, or is the start or the
\* end; so every simulation ends, whatever the equations answer.
THEOREM SimulationsEnd == Spec => EndComesCloser
<1>1. ASSUME TypeOK, [Next]_vars PROVE [StepsLeft' < StepsLeft]_vars
  <2> USE DEF StepsLeft
  <2>1. counter \in Int
    BY <1>1, ShotEventsAssumption DEF TypeOK
  <2>2. CASE UNCHANGED vars
    BY <2>2
  <2>3. CASE Refuse \/ Start \/ Exhaust \/ Finish
    BY <2>1, <2>3 DEF Refuse, Start, Exhaust, Finish
  <2>4. CASE Break
    BY <2>1, <2>4 DEF Break, Counted
  <2>5. ASSUME NEW e \in future, Handle(e) \/ FindHit(e) PROVE StepsLeft' < StepsLeft
    BY <2>1, <2>5 DEF Handle, FindHit, Counted
  <2> QED
    BY <1>1, <2>2, <2>3, <2>4, <2>5 DEF Next
<1> QED
  BY <1>1, TypesHold, PTL DEF Spec, EndComesCloser
=============================================================================
