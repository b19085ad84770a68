------------------------------- MODULE ShotEvents -------------------------------
(***************************************************************************)
(* The event queue that simulates a shot: Shot::simulateShot of            *)
(* FastFiz/FastFiz.cpp.  Motion between events is solved in closed form;   *)
(* futureEvents holds what may happen next, the earliest event is handled, *)
(* the events of the balls it changed are thrown away and predicted again. *)
(*                                                                         *)
(* Every event also brings all balls to its time, which may change the     *)
(* motion of balls it is not about; their events are left in the queue.    *)
(*                                                                         *)
(* Positions and velocities are abstracted to the State of a ball.  What   *)
(* the equations would answer is chosen: whether and when a ball reaches a *)
(* rail, a pocket or another ball, and the motion an event leaves it in.   *)
(* Of several boundary events of a ball only the earliest can be handled,  *)
(* so one is predicted.                                                    *)
(***************************************************************************)
EXTENDS Integers, FiniteSets

CONSTANTS
  Object,     \* the numbers of the object balls
  MaxEvents,  \* 5000 in the code: the simulation gives up after one less
  Delay,      \* how long after the present an event may be predicted
  Near        \* NEAR_FUTURE_EPSILON, for the pair that has just collided

ASSUME ShotEventsAssumption ==
  /\ Object \subseteq Nat \ {0} /\ MaxEvents \in Nat \ {0, 1}
  /\ Delay \subseteq Nat /\ Delay # {} /\ Near \in Nat

Cue     == 0
Ball    == Object \cup {Cue}
Unknown == -1      \* Ball::UNKNOWN_ID, the second ball of most events
Never   == -1      \* an event that is not predicted

VARIABLES
  fullSim,  \* fullSim: FALSE for getFirstBallHit
  phase,    \* ready, running; returned (done) or thrown (error)
  counter,  \* eventcounter
  motion,   \* the state of every ball of the TableState
  future,   \* futureEvents, with times relative to curTime
  checked,  \* history: the pairs looked up since one of them last had an event
  drifted,  \* history: the balls that changed since their last event, at others'
  before,   \* history: the balls pocketed when the shot began
  first     \* history: ball 2 of the first collision, Cue for none

vars == <<fullSim, phase, counter, motion, future, checked, drifted, before, first>>

Motion == {"still", "spinning", "rolling", "sliding", "pocketed"}
Kind   == {"CUE_STRIKE", "STATE_CHANGE", "BALL_COLLISION", "RAIL_COLLISION", "POCKETED"}
Event  == [kind : Kind, b1 : Ball, b2 : Ball \cup {Unknown}, in : Int, stale : SUBSET Ball]

\* An event predicted now; stale is a history field: those of its balls that have
\* had an event or changed their motion since.
Predicted(kind, b1, b2, d) ==
  [kind |-> kind, b1 |-> b1, b2 |-> b2, in |-> d, stale |-> {}]

InPlay(m)    == {b \in Ball : m[b] # "pocketed"}
Moving(m)    == {b \in Ball : m[b] \in {"rolling", "sliding"}}
Stirring(m)  == Moving(m) \cup {b \in Ball : m[b] = "spinning"}
Pocketed     == Ball \ InPlay(motion)
BallsOf(e)   == {e.b1, e.b2} \cap Ball

\* What updateBall and updateState may make of a motion: velocities that come out as
\* nothing end sliding, rolling and spinning before the transition does.  Nothing
\* sets a ball going.
Calmer(s) ==
  CASE s \in {"sliding", "rolling"} -> Motion \ {"pocketed"}
    [] s = "spinning"               -> {"spinning", "still"}
    [] OTHER                        -> {s}

\* updateTime: the motion the balls may be in when the next event is due.
Drifts == {m \in [Ball -> Motion] : \A b \in Ball : m[b] \in Calmer(motion[b])}

\* The motion doHandle may leave a ball of the event in that was in motion s before
\* updateTime.  Struck and colliding balls may move in any way.
Outcome(kind, s) ==
  CASE kind = "POCKETED"                           -> {"pocketed"}
    [] kind \in {"STATE_CHANGE", "RAIL_COLLISION"} -> Calmer(s)
    [] kind \in {"CUE_STRIKE", "BALL_COLLISION"}   ->
         IF s = "pocketed" THEN {s} ELSE Motion \ {"pocketed"}

\* The motion of all balls once the event has been handled.
Handled(e) ==
  {m \in [Ball -> Motion] :
     \A b \in Ball :
       m[b] \in IF b \in BallsOf(e) THEN Outcome(e.kind, motion[b]) ELSE Calmer(motion[b])}

\* History: the balls whose motion the event changes, its own ball or not.
Changed == {b \in Ball : motion'[b] # motion[b]}

-----------------------------------------------------------------------------
Init ==
  /\ fullSim \in BOOLEAN
  /\ before \in SUBSET Object
  /\ motion = [b \in Ball |-> IF b \in before THEN "pocketed" ELSE "still"]
  /\ phase = "ready" /\ counter = MaxEvents
  /\ future = {} /\ checked = {} /\ drifted = {} /\ first = Cue

\* Mutant: the counter is tested before it is decremented.
MayHandleLate == counter > 0

\* while (!futureEvents.empty() && (--eventcounter))
MayHandle == counter > 1

\* Mutant: the loop is not counted.
CountedNot(c) == c

Counted(c) == c - 1

\* Mutant: the event at the front of the list, whenever it is due.
EarliestNot(e) == e \in future

\* min_element with eventCmp; any of several that are due at once.
Earliest(e) == e \in future /\ \A f \in future : e.in <= f.in

\* Mutant: BallCollisionEvent does not override relatedTo.
RelatedToFirst(e, f) == e.b1 \in BallsOf(f)

\* Event::relatedTo and BallCollisionEvent::relatedTo.
RelatedTo(e, f) == BallsOf(e) \cap BallsOf(f) # {}

\* removeRelatedEvents: what is left of the queue after e, e.in later.  Only the
\* balls of e are looked at, so an event of a ball that drifted stays.
Remaining(e) ==
  {[f EXCEPT !.in = @ - e.in, !.stale = @ \cup ((BallsOf(e) \cup Changed) \cap BallsOf(f))] :
     f \in {g \in future \ {e} : ~RelatedTo(e, g)}}

\* Mutant: a ball that only spins is taken to be at rest.
TransitionsOfMoving(S, m) == [S \cap Moving(m) -> Delay]

\* nextTransitionEvent for the balls of the event.
Transitions(S, m) == [S \cap Stirring(m) -> Delay]

\* addBoundaryEvents: side pockets and rails lie strictly ahead, a corner pocket
\* may be reached at once.
Boundary ==
  {<<"NONE", Never>>} \cup ({"RAIL_COLLISION"} \X (Delay \ {0})) \cup ({"POCKETED"} \X Delay)

\* Mutant: pocketed balls can be hit.
LookupsOfPocketed(S, m) ==
  {p \in Moving(m) \X Ball :
     p[1] # p[2] /\ {p[1], p[2]} \cap S # {} /\ (p[2] \in Moving(m) => p[1] < p[2])}

\* The calls of nextCollisionEvent that get as far as solving for a collision: by a
\* moving ball with one in play, the lower number first when both are moving.  The
\* time it answers is after the present, or equal to it once rounded.
Lookups(S, m) ==
  {p \in Moving(m) \X InPlay(m) :
     p[1] # p[2] /\ {p[1], p[2]} \cap S # {} /\ (p[2] \in Moving(m) => p[1] < p[2])}

\* Whether addRelatedFutureEvents keeps a collision of pair p predicted after e.
KeepsCollision(e, p, d) == {p[1], p[2]} = {e.b1, e.b2} => d = Never \/ d > Near

(* WHO: the loop, handling the earliest event; the events of its balls are removed
   and predicted again. *)
Handle(e) ==
  LET S == BallsOf(e) IN
  /\ phase = "running" /\ MayHandle /\ Earliest(e)
  /\ fullSim \/ e.kind # "BALL_COLLISION"
  /\ counter' = Counted(counter)
  /\ first' = IF e.kind = "BALL_COLLISION" /\ first = Cue THEN e.b2 ELSE first
  /\ motion' \in Handled(e)
  /\ checked' = {q \in checked : q \cap S = {}} \cup {{p[1], p[2]} : p \in Lookups(S, motion')}
  /\ drifted' = (drifted \cup Changed) \ S
  /\ \E when \in Transitions(S, motion'),
        edge \in [S \cap Moving(motion') -> Boundary],
        meet \in [Lookups(S, motion') -> Delay \cup {Never}] :
       /\ \A p \in DOMAIN meet : KeepsCollision(e, p, meet[p])
       /\ future' =
            Remaining(e)
            \cup {Predicted("STATE_CHANGE", b, Unknown, when[b]) : b \in DOMAIN when}
            \cup {Predicted(edge[b][1], b, Unknown, edge[b][2]) :
                    b \in {c \in DOMAIN edge : edge[c][1] # "NONE"}}
            \cup {Predicted("BALL_COLLISION", p[1], p[2], meet[p]) :
                    p \in {q \in DOMAIN meet : meet[q] # Never}}
  /\ UNCHANGED <<fullSim, before, phase>>

(* WHO: the loop of getFirstBallHit, which returns at the first collision, before
   it is handled. *)
FindHit(e) ==
  /\ phase = "running" /\ MayHandle /\ Earliest(e)
  /\ ~fullSim /\ e.kind = "BALL_COLLISION"
  /\ counter' = Counted(counter)
  /\ first' = e.b2 /\ motion' \in Drifts /\ phase' = "done"
  /\ UNCHANGED <<fullSim, before, future, checked, drifted>>

(* WHO: the caller, with cue parameters isPhysicallyPossible rejects. *)
Refuse ==
  /\ phase = "ready" /\ phase' = "error"
  /\ UNCHANGED <<fullSim, counter, motion, future, checked, drifted, before, first>>

(* WHO: the caller.  Where the cue ball was placed is not looked at. *)
Start ==
  /\ phase = "ready" /\ phase' = "running"
  /\ future' = {Predicted("CUE_STRIKE", Cue, Unknown, 0)}
  /\ UNCHANGED <<fullSim, counter, motion, checked, drifted, before, first>>

(* WHO: fixOverlap, when it cannot get two balls apart before the next event; it
   never can when the cue ball was placed well into another ball. *)
Break ==
  /\ phase = "running" /\ future # {} /\ MayHandle
  /\ motion' \in Drifts
  /\ counter' = Counted(counter) /\ phase' = "error"
  /\ UNCHANGED <<fullSim, future, checked, drifted, before, first>>

(* WHO: the loop, giving up. *)
Exhaust ==
  /\ phase = "running" /\ future # {} /\ ~MayHandle
  /\ phase' = "error"
  /\ UNCHANGED <<fullSim, counter, motion, future, checked, drifted, before, first>>

(* WHO: the loop, when nothing is left to happen. *)
Finish ==
  /\ phase = "running" /\ future = {}
  /\ phase' = "done"
  /\ UNCHANGED <<fullSim, counter, motion, future, checked, drifted, before, first>>

Next ==
  \/ Refuse \/ Start \/ Break \/ Exhaust \/ Finish
  \/ \E e \in future : Handle(e) \/ FindHit(e)

Spec == Init /\ [][Next]_vars

-----------------------------------------------------------------------------
(***************************************************************************)
(* Properties                                                              *)
(***************************************************************************)

\* Every variable has its type.
TypeOK ==
  /\ fullSim \in BOOLEAN
  /\ phase \in {"ready", "running", "done", "error"}
  /\ counter \in 1 .. MaxEvents
  /\ motion \in [Ball -> Motion] /\ future \subseteq Event
  /\ checked \subseteq SUBSET Ball /\ drifted \subseteq Ball /\ before \subseteq Object /\ first \in Ball

\* Whether a queue predicted from scratch could hold an event of this kind.
Fits(e) ==
  CASE e.kind = "CUE_STRIKE"   -> future = {e}
    [] e.kind = "STATE_CHANGE" -> e.b1 \in Stirring(motion)
    [] OTHER                   -> e.b1 \in Moving(motion)

\* How far the queue that is only repaired around the last event may be behind one
\* computed from scratch: by events of balls that came to rest, or began to roll, at
\* an event of other balls.  An event one of whose balls has had an event of its own
\* since is gone; so is one with a ball in a pocket; and one none of whose balls
\* changed at all fits their motion.  Nothing is missing: every ball in motion has
\* its next transition in the queue, and so has every ball that drifted, whose
\* events will be thrown away or computed again then; and every pair that may
\* collide has been looked up since one of the two last had an event.
QueueIsCurrent ==
  phase = "running" =>
    /\ \A e \in future :
         /\ e.stale \subseteq drifted /\ BallsOf(e) \subseteq InPlay(motion)
         /\ e.stale = {} => Fits(e)
    /\ \A b \in Stirring(motion) \cup drifted :
         \E e \in future : e.kind = "STATE_CHANGE" /\ e.b1 = b
    /\ \A b \in Moving(motion), c \in InPlay(motion) : b # c => {b, c} \in checked

\* No event is due in the past, so the "sanity check" of the loop never fires and
\* updateTime never steps back.
NothingOverdue == \A e \in future : e.in >= 0

\* A shot that is simulated to the end leaves no ball in motion.
EndsAtRest == phase = "done" /\ fullSim => Stirring(motion) = {}

\* The queue implements what the rules assume of a shot, event by event.
Report == INSTANCE ShotReport
  WITH down <- Pocketed \ before, over <- phase \in {"done", "error"}
ImplementsReport == Report!Spec

\* How many steps a simulation has left at most.
StepsLeft == counter + IF phase = "ready" THEN 2 ELSE IF phase = "running" THEN 1 ELSE 0

\* Every simulation ends, however often the equations answer the same instant:
\* each step brings the end closer, and there are never more to come than events
\* allowed by the counter, a start and an end.
EndComesCloser == [][StepsLeft' < StepsLeft]_vars
=============================================================================
