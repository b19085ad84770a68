------------------------------- MODULE GameBook -------------------------------
(***************************************************************************)
(* What the match server promises to the owner of a match, without         *)
(* requests, queues or clients: a match asks each side to break a number   *)
(* of games; a game is started once, passes from shooter to shooter while  *)
(* it is open, is finished once, and its result is final.  A game that is  *)
(* forfeited (timeout, concession, crash) is lost by the side to shoot.    *)
(***************************************************************************)
EXTENDS Integers

CONSTANTS Game, Match

VARIABLES
  book,     \* the game records
  toBreak   \* the games each side of a match has yet to break

Side  == {"starter", "other"}
Blank == [phase |-> "unborn", side |-> "starter"]

\* Started, with its breaker to shoot.
Start(g) ==
  /\ book[g] = Blank
  /\ book' = [book EXCEPT ![g] = [phase |-> "open", side |-> "starter"]]
  /\ \E m \in Match, i \in 1..2 :
       /\ toBreak[m][i] > 0
       /\ toBreak' = [toBreak EXCEPT ![m][i] = @ - 1]

\* A shot after which side shoots next.
Shoot(g, side) ==
  /\ book[g].phase = "open"
  /\ book' = [book EXCEPT ![g].side = side]
  /\ UNCHANGED toBreak

\* A shot that decides the game for side.
Decide(g, side) ==
  /\ book[g].phase = "open"
  /\ book' = [book EXCEPT ![g] = [phase |-> "decided", side |-> side]]
  /\ UNCHANGED toBreak

\* The side to shoot does not: the other one wins.
Forfeit(g, side) ==
  /\ book[g].phase = "open" /\ book[g].side # side
  /\ book' = [book EXCEPT ![g] = [phase |-> "forfeited", side |-> side]]
  /\ UNCHANGED toBreak

Init ==
  /\ book = [g \in Game |-> Blank]
  /\ toBreak \in [Match -> [1..2 -> Nat]]

Next ==
  \E g \in Game : \/ Start(g)
                  \/ \E side \in Side :
                       Shoot(g, side) \/ Decide(g, side) \/ Forfeit(g, side)

Spec == Init /\ [][Next]_<<book, toBreak>>
=============================================================================
