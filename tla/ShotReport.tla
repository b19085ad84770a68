------------------------------- MODULE ShotReport -------------------------------
(***************************************************************************)
(* What a simulated shot promises to the rules: balls fall one at a time,  *)
(* each once, and no object ball before the cue ball has hit one.  The     *)
(* event queue of ShotEvents implements it, and EightBall and NineBall     *)
(* assume no more than it says of the shots they are given.                *)
(***************************************************************************)
EXTENDS Integers

CONSTANT Object  \* the numbers of the object balls

Cue  == 0
Ball == Object \cup {Cue}

VARIABLES
  before,  \* the balls that were pocketed before the shot
  down,    \* the balls that the shot has pocketed
  first,   \* the ball the cue ball hit first, Cue for none yet
  over     \* the simulation has ended

vars == <<before, down, first, over>>

OnTable == Ball \ (before \cup down)

Init ==
  /\ before \in SUBSET Object
  /\ down = {} /\ first = Cue /\ over = FALSE

(* WHO: the first collision of the shot; a caller who only asks for the ball hit
   first has its answer. *)
Hit(b) ==
  /\ ~over /\ first = Cue /\ b \in OnTable \ {Cue}
  /\ first' = b /\ over' \in BOOLEAN
  /\ UNCHANGED <<before, down>>

(* WHO: a ball that reaches a pocket. *)
Fall(b) ==
  /\ ~over /\ b \in OnTable
  /\ b = Cue \/ first # Cue
  /\ down' = down \cup {b}
  /\ UNCHANGED <<before, first, over>>

(* WHO: the simulation, when everything is at rest or when it breaks off. *)
End ==
  /\ ~over /\ over' = TRUE
  /\ UNCHANGED <<before, down, first>>

Next == (\E b \in Ball : Hit(b) \/ Fall(b)) \/ End

Spec == Init /\ [][Next]_vars

\* What the rules assume of a shot: only balls that were on the table fall or are
\* hit, and a cue ball that hits nothing can only fall itself.
ReportIsPhysical ==
  /\ before \subseteq Object /\ down \subseteq Ball \ before
  /\ first \in (Object \ before) \cup {Cue}
  /\ first = Cue => down \subseteq {Cue}
=============================================================================
