------------------------------ MODULE MCAudio ------------------------------
(* Three chunks of two blocks; an event in the middle of the first and of *)
(* the second chunk, and one where the second chunk ends.                 *)
EXTENDS AudioPath

CONSTANTS e1, e2, e3

At(e) == IF e = e1 THEN 1 ELSE IF e = e2 THEN 3 ELSE 4
=============================================================================
