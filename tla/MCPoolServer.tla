---------------------------- MODULE MCPoolServer ----------------------------
(***************************************************************************)
(* Small instances of PoolServer for TLC.                                  *)
(***************************************************************************)
EXTENDS PoolServer, TLC

CONSTANTS ann, bob, cid, c1, c2, c3, m1, m2, m3

\* Kinds of match: a full game, an untimed or timed win-off-break test, and the
\* noise and time experiment whose first time limit is exactly one hour.
FullGame == [rules |-> 1, timed |-> TRUE, special |-> FALSE]
BreakTest == [rules |-> 2, timed |-> TRUE, special |-> FALSE]
UntimedBreakTest == [BreakTest EXCEPT !.timed = FALSE]
Experiment == [BreakTest EXCEPT !.special = TRUE]

\* A match of a against b (None: a plays alone) in which they break l1 and l2 times.
Row(kind, a, b, prio, l1, l2) ==
  kind @@ [agent1 |-> a, agent2 |-> b, priority |-> prio, maxActive |-> 1,
           left1 |-> l1, left2 |-> l2]

\* ann runs two clients (fork mode), bob one; each has one client; so has cid.
SharedAgents == c1 :> ann @@ c2 :> ann @@ c3 :> bob
OwnAgents    == c1 :> ann @@ c3 :> bob
ThreeAgents  == c1 :> ann @@ c2 :> cid @@ c3 :> bob

\* The two clients of ann are interchangeable.
Forks == Permutations({c1, c2})

\* A full game, and an experiment for which bob asks but only ann may shoot.
SharedMatches == m1 :> Row(FullGame, ann, bob, 0, 1, 0)
              @@ m2 :> Row(Experiment, ann, bob, 0, 0, 1)

\* Matches of ann with bob and alone, and a preferred one with cid, who may be late.
MixedMatches == m1 :> Row(FullGame, ann, bob, 0, 1, 0)
             @@ m2 :> Row(FullGame, ann, cid, 1, 0, 1)
             @@ m3 :> Row(UntimedBreakTest, ann, None, -1, 1, 0)

\* A full game broken by ann; by each of them; a test of ann alone.
OneFullGame   == m1 :> Row(FullGame, ann, bob, 0, 1, 0)
TwoFullGames  == m1 :> Row(FullGame, ann, bob, 0, 1, 1)
SoloBreakTest == m1 :> Row(BreakTest, ann, None, 0, 1, 0)
=============================================================================
