------------------------------ MODULE MCHoming -------------------------------
(* An instance of Homing.                                                    *)
EXTENDS Homing

(* Two steps, the second later than the first.                   *)
MCMoves == {[interval |-> 1, count |-> 2, add |-> 1]}
(* A clock that has passed and one to come.                                  *)
MCClocks == {-1, 1}
=============================================================================
