---------------------------- MODULE MCEightBall ----------------------------
(***************************************************************************)
(* Small instances of EightBall for TLC.                                   *)
(***************************************************************************)
EXTENDS EightBall

\* Limits of one and a half seconds and of one; limits of one and a half seconds,
\* which calls of one second cannot use up exactly.
Timed   == [p \in {"starter", "other"} |-> IF p = "starter" THEN 3 ELSE 2]
Odd     == [p \in {"starter", "other"} |-> 3]
=============================================================================
