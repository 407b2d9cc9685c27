------------------------------- MODULE MCPool -------------------------------
(* Connections are interchangeable, and so are the threads.                *)
EXTENDS WSConnectionPool, TLC

Symmetry == Permutations(Conns) \cup Permutations(Takers)
=============================================================================
