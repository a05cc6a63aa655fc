---------------------------- MODULE MCRunExecutor ----------------------------
(***************************************************************************)
(* Small instances of RunExecutor for TLC.                                 *)
(***************************************************************************)
EXTENDS RunExecutor, TLC

CONSTANTS p1, p2, a1, a2, off, r1, r2, r3, r4, r5

\* One process: four requests compete for two global permits, three of them for
\* one agent that may run once; "off" is an agent the executor does not know.
LocalTarget == r1 :> a1 @@ r2 :> a1 @@ r3 :> a1 @@ r4 :> a2 @@ r5 :> off
LocalHome == [r \in {r1, r2, r3, r4, r5} |-> p1]
LocalMaxRuns == a1 :> 1 @@ a2 :> 1 @@ off :> 1
LocalTimeout == [x \in {a1, a2, off} |-> 1]

\* Two processes and one Redis: two requests of one agent in p1, one in p2.
SharedTarget == [r \in {r1, r2, r3} |-> a1]
SharedHome == r1 :> p1 @@ r2 :> p1 @@ r3 :> p2
SharedMaxRuns == [x \in {a1} |-> 2]
OneRunEach == [x \in {a1} |-> 1]
SharedTimeout == [x \in {a1} |-> 2]
=============================================================================
