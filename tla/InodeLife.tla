---- MODULE InodeLife ----
(***************************************************************************)
(* What the file system promises about the life of an inode, whatever      *)
(* tables and counters it keeps: an inode is born once, with a name; it    *)
(* may gain and lose names; the kernel gets hold of it through a name; and *)
(* it is freed only when it has no name and the kernel does not hold it.   *)
(* The root directory is not among these inodes.                           *)
(***************************************************************************)

CONSTANTS
    Node,       \* the inodes there may be
    Place       \* where a name can be: a directory and an entry of it

VARIABLES
    born,       \* inodes there are or have been
    alive,      \* inodes there are
    names,      \* inode -> the places that name it
    held        \* inodes the kernel holds

vars == <<born, alive, names, held>>

Init ==
    /\ born = {}
    /\ alive = {}
    /\ names = [i \in Node |-> {}]
    /\ held = {}

Unused(i) == names[i] = {} /\ i \notin held

Birth(i, pl) ==
    /\ i \notin born
    /\ \A j \in Node : pl \notin names[j]
    /\ born' = born \cup {i}
    /\ alive' = alive \cup {i}
    /\ names' = [names EXCEPT ![i] = {pl}]
    /\ held' \in {held, held \cup {i}}

\* another name for an inode that has one
AddName(i, pl) ==
    /\ i \in alive /\ names[i] # {}
    /\ \A j \in Node : pl \notin names[j]
    /\ names' = [names EXCEPT ![i] = @ \cup {pl}]
    /\ held' = held \cup {i}
    /\ UNCHANGED <<born, alive>>

DropName(i, pl) ==
    /\ pl \in names[i]
    /\ names' = [names EXCEPT ![i] = @ \ {pl}]
    /\ UNCHANGED <<born, alive, held>>

\* a name moves at once: whatever was at the place it goes to loses its name
MoveName(i, from, to) ==
    /\ from \in names[i]
    /\ names' = [j \in Node |-> IF j = i THEN (names[j] \ {from}) \cup {to}
                                         ELSE names[j] \ {to}]
    /\ UNCHANGED <<born, alive, held>>

Hold(i) ==
    /\ i \in alive /\ names[i] # {}
    /\ held' = held \cup {i}
    /\ UNCHANGED <<born, alive, names>>

\* the kernel gives i back; an inode without names may go with it
Release(i) ==
    /\ held' = held \ {i}
    /\ alive' \in {alive, alive \ {j \in {i} : names[j] = {}}}
    /\ UNCHANGED <<born, names>>

\* the mount ends
ReleaseAll == held' = {} /\ UNCHANGED <<born, alive, names>>

Free(S) ==
    /\ \A i \in S : Unused(i)
    /\ alive' = alive \ S
    /\ UNCHANGED <<born, names, held>>

Next ==
    \/ \E i \in Node, pl \in Place : Birth(i, pl) \/ AddName(i, pl) \/ DropName(i, pl)
    \/ \E i \in Node, from, to \in Place : MoveName(i, from, to)
    \/ \E i \in Node : Hold(i) \/ Release(i)
    \/ ReleaseAll
    \/ \E S \in SUBSET Node : Free(S)

Spec == Init /\ [][Next]_vars
====
