---- MODULE MCAudit ----
(* Model checking of Audit: inodes, names and values are interchangeable. *)
EXTENDS Audit, TLC

Symmetry == Permutations(Ino) \cup Permutations(Name) \cup Permutations(Value)
====
