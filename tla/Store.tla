---- MODULE Store ----
(***************************************************************************)
(* The name space the database holds: the tables metadata and dentry, and  *)
(* whether a symbolic link has its block of data (src/src/db_module/       *)
(* sqlite.rs).  Every operator named after a DbModule method is one SQLite *)
(* transaction: it is enabled when the method commits, and changes         *)
(* `store' the way the commit does.  A method that returns an error rolls  *)
(* back and so changes nothing; its operator is then disabled.             *)
(*                                                                         *)
(* Times, owners, modes, sizes and file contents are left out: no property *)
(* of this module tells two of their values apart.                         *)
(***************************************************************************)
EXTENDS Integers

CONSTANTS
    Name,       \* the file names users give
    MaxIno      \* bound: the largest inode number ever allocated

ASSUME MaxInoAssumption == MaxIno \in Nat \ {0}
ASSUME NameAssumption == "." \notin Name /\ ".." \notin Name

VARIABLES
    metadata,   \* inode number -> its kind, "none" when the table has no such row
    next_ino,   \* the number AUTOINCREMENT hands out next (sqlite_sequence + 1)
    dentry,     \* the rows of table dentry
    linkdata    \* the symbolic links whose block 1 is in table data

store == <<metadata, next_ino, dentry, linkdata>>

Ino == 1 .. MaxIno
ROOT == 1
Kind == {"dir", "file", "symlink"}
DentryName == Name \cup {".", ".."}

DEntry == [parent : Ino, child : Ino, ftype : Kind, name : DentryName]

StoreTypeOK ==
    /\ metadata \in [Ino -> Kind \cup {"none"}]
    /\ next_ino \in 1 .. MaxIno + 1
    /\ dentry \subseteq DEntry
    /\ linkdata \subseteq Ino

EmptyStore ==
    /\ metadata = [i \in Ino |-> "none"]
    /\ next_ino = 1
    /\ dentry = {}
    /\ linkdata = {}

---------------------------------------------------------------------------
(* Queries *)

Exists(i) == metadata[i] # "none"

\* get_dentry_single: the row with this primary key, if there is one
Entry(p, n) == {d \in dentry : d.parent = p /\ d.name = n}

\* SELECT count(child_id) FROM dentry WHERE child_id = i, compared with 0
Referenced(i) == \E d \in dentry : d.child = i

\* get_inode_local: the link count it joins is NULL for an inode nothing refers
\* to, and reading it is an error, row or no row
HasAttributes(i) == Exists(i) /\ Referenced(i)

\* what a reference means to a user: some directory lists the inode by name
HasName(i) == \E d \in dentry : d.child = i /\ d.name \in Name

\* check_directory_is_empty_local
check_directory_is_empty(i) == \A d \in dentry : d.parent = i => d.name \notin Name

Row(p, c, t, n) == [parent |-> p, child |-> c, ftype |-> t, name |-> n]

---------------------------------------------------------------------------
(* Transactions *)

\* DELETE FROM metadata WHERE id IN S: ON DELETE CASCADE empties the tables
\* that refer to the rows
DeleteRows(S) ==
    /\ metadata' = [i \in Ino |-> IF i \in S THEN "none" ELSE metadata[i]]
    /\ dentry' = {d \in dentry : d.parent \notin S /\ d.child \notin S}
    /\ linkdata' = linkdata \ S
    /\ UNCHANGED next_ino

\* Mutant: the row goes whatever still refers to it
DeleteInodeAlways(i) == DeleteRows({i})

delete_inode_if_noref(i) == DeleteRows({i} \ {j \in Ino : Referenced(j)})

\* Mutant: the clean-up of the mount is forgotten
DeleteNothing == UNCHANGED store

delete_all_noref_inode == DeleteRows({i \in Ino : Exists(i) /\ ~Referenced(i)})

\* Mutant: a plain INTEGER PRIMARY KEY takes the largest id in use plus one
LargestIdPlusOne(i) ==
    /\ \A j \in Ino : j < i <=> \E l \in Ino : Exists(l) /\ j <= l
    /\ next_ino' = i + 1

\* The number of the new row.  AUTOINCREMENT never goes back
AllocIno(i) ==
    /\ i = next_ino
    /\ next_ino' = next_ino + 1

\* the two rows a new directory is born with
DotRows(i, p) == {Row(i, p, "dir", ".."), Row(i, i, "dir", ".")}

add_inode_and_dentry(p, n, k, i) ==
    /\ Exists(p)                    \* foreign key
    /\ Entry(p, n) = {}             \* primary key
    /\ AllocIno(i)
    /\ metadata' = [metadata EXCEPT ![i] = k]
    /\ dentry' = dentry \cup {Row(p, i, k, n)}
                        \cup (IF k = "dir" THEN DotRows(i, p) ELSE {})
    /\ UNCHANGED linkdata

link_dentry(i, p, n) ==
    /\ HasAttributes(i)
    /\ metadata[i] = "file"
    /\ Exists(p)
    /\ Entry(p, n) = {}
    /\ dentry' = dentry \cup {Row(p, i, "file", n)}
    /\ UNCHANGED <<metadata, next_ino, linkdata>>

\* delete_dentry_local, then delete_sub_dentry of the child
delete_dentry(p, n, i) ==
    /\ \E d \in Entry(p, n) : d.child = i
    /\ dentry' = {d \in dentry \ Entry(p, n) : d.parent # i}
    /\ UNCHANGED <<metadata, next_ino, linkdata>>

\* Mutant: a moved directory keeps the ".." row of its old parent
KeepDotDot(d, q, rows) == rows

\* UPDATE dentry SET child_id = q WHERE parent_id = d.child AND name = '..'
MoveDotDot(d, q, rows) ==
    IF d.parent # q /\ d.ftype = "dir"
    THEN {IF e.parent = d.child /\ e.name = ".." THEN Row(e.parent, q, e.ftype, "..") ELSE e :
            e \in rows}
    ELSE rows

\* The entry in the way is of the same type and, if a directory, empty
MayReplace(d, e) ==
    /\ e.ftype = d.ftype
    /\ e.ftype = "dir" => check_directory_is_empty(e.child)

\* The move of entry d to name m of directory q.  The entry in the way goes,
\* its "." and ".." rows do not
move_dentry(d, q, m) ==
    /\ Exists(q)
    /\ \A e \in Entry(q, m) : MayReplace(d, e)
    /\ dentry' = MoveDotDot(d, q,
                     (dentry \ (Entry(q, m) \cup {d}))
                         \cup {Row(q, d.child, d.ftype, m)})
    /\ UNCHANGED <<metadata, next_ino, linkdata>>

\* the target of symbolic link i goes to its block 1
write_link_data(i) ==
    /\ Exists(i)
    /\ linkdata' = linkdata \cup {i}
    /\ UNCHANGED <<metadata, next_ino, dentry>>

(* DbModule::init, one statement at a time: each is its own transaction    *)
init_root ==
    IF Exists(ROOT)
    THEN UNCHANGED store
    ELSE \E i \in Ino :
            /\ AllocIno(i)
            /\ metadata' = [metadata EXCEPT ![i] = "dir"]
            /\ UNCHANGED <<dentry, linkdata>>

init_dot(n) ==
    /\ dentry' = IF Entry(ROOT, n) = {}
                 THEN dentry \cup {Row(ROOT, ROOT, "dir", n)} ELSE dentry
    /\ UNCHANGED <<metadata, next_ino, linkdata>>
====
