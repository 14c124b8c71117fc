----------------------------- MODULE MCJobFeed ------------------------------
(* JobFeed for TLC: one connection, with all the threads that serve it.     *)
EXTENDS JobFeed, TLC

CONSTANT c1

One == {c1}
OneDifficulty == {1}
Difficulties == 1..2
\* The parents of the templates of the node, in order.
Tips == <<1, 2>>
=============================================================================
