---- MODULE MCAttributes ----
(* Model checking of Attributes: the directories, none of which is set, are      *)
(* interchangeable, and so are the names and the values.                         *)
EXTENDS Attributes, TLC

Symmetry == Permutations(Dir) \cup Permutations(Name) \cup Permutations(Value)
====
