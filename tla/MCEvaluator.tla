----------------------------- MODULE MCEvaluator ----------------------------
(***************************************************************************)
(* Integers of 7 bits, floats of 4 significant bits, fewer than an integer *)
(* has, and a day of 24 milliseconds with units that divide one another.   *)
(***************************************************************************)
EXTENDS Evaluator
=============================================================================
