------------------------------ MODULE MCShotEvents ------------------------------
(***************************************************************************)
(* The event queue for TLC.  The more balls are in play, the more answers  *)
(* the equations have: simulations with more than two are followed for     *)
(* fewer events.                                                           *)
(***************************************************************************)
EXTENDS ShotEvents

CONSTANT ManyBallEvents   \* the events handled while more than two balls are in play

ASSUME MCShotEventsAssumption == ManyBallEvents \in Nat

\* A bound for TLC: states beyond it are checked and not followed further.
Followed ==
  Cardinality(InPlay(motion)) > 2 => MaxEvents - counter < ManyBallEvents
=============================================================================
