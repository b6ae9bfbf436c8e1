---- MODULE Handles ----
(***************************************************************************)
(* The handles of one inode: OpenDirHandler and OpenFileHandler of         *)
(* src/src/filesystem.rs are the same structure, a number for the next     *)
(* handle and a map from handles to what was kept for them.                *)
(***************************************************************************)
EXTENDS Integers

\* An inode without an entry in the handler map; or_insert_with makes one like it
NoHandler == [count |-> 0, list |-> <<>>]

\* The handle that open and opendir answer with
NextHandle(h) == h.count

\* open, opendir: keep stat under the next handle
Opened(h, stat) ==
    LET fh == NextHandle(h)
    IN  [count |-> h.count + 1,
         list |-> [k \in DOMAIN h.list \cup {fh} |-> IF k = fh THEN stat ELSE h.list[k]]]

\* Mutant: the count goes down with every handle
ReleasedCountingDown(h, fh) ==
    [count |-> IF h.count = 0 THEN 0 ELSE h.count - 1,
     list |-> [k \in DOMAIN h.list \ {fh} |-> h.list[k]]]

\* Mutant: what is kept for a handle stays
ReleasedKeepingStat(h, fh) == IF h.count = 0 THEN NoHandler ELSE h

\* release, releasedir: the entry of the inode goes when its count is 0
Released(h, fh) ==
    IF h.count = 0 THEN NoHandler
    ELSE [h EXCEPT !.list = [k \in DOMAIN h.list \ {fh} |-> h.list[k]]]
====
