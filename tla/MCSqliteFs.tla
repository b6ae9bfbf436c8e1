---- MODULE MCSqliteFs ----
(* Model checking of SqliteFs: two file names are interchangeable. *)
EXTENDS SqliteFs, TLC

Symmetry == Permutations(Name)
====
