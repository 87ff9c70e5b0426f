--------------------------- MODULE MCInterpreter ---------------------------
(***************************************************************************)
(* A program and two threads, either cloned from the program or one from   *)
(* the other.                                                              *)
(***************************************************************************)
EXTENDS Interpreter, TLC

Threads == Permutations(Interps \ {Main})
=============================================================================
