---- MODULE Attributes ----
(***************************************************************************)
(* Modes, sizes, time stamps and extended attributes of directories and of *)
(* the files in them, under the requests that change them (src/src/        *)
(* filesystem.rs) and their transactions (src/src/db_module/sqlite.rs).    *)
(* setattr, and setxattr with a flag, read in one transaction and write in *)
(* another: two actions, with `handler' holding what was read.             *)
(*                                                                         *)
(* The directories stay all the time and files come and go.  Owners and    *)
(* flags are stored the way the mode is.  Access times are left out.       *)
(***************************************************************************)
EXTENDS Integers, FiniteSets

CONSTANTS
    Dir,        \* the directories
    File,       \* the files there may ever be
    Name,       \* the names in a directory
    Value,      \* the values of an extended attribute, and what a file may contain
    Settable,   \* bound: the inodes that programs write, set modes, times and attributes of
    MaxSize,    \* bound: the largest size of a file
    MaxTime     \* bound: the last instant of the clock

ASSUME DisjointAssumption == Dir \cap File = {}
ASSUME SizeAndTimeAssumption == MaxSize \in Nat /\ MaxTime \in Nat \ {0}

VARIABLES
    now,        \* the clock
    recording,  \* time_recording of the present mount
    metadata,   \* inode -> the row of table metadata, for the inodes there are
    born,       \* the files that had their number
    dentry,     \* [parent, name, child]: the entries of the directories
    data,       \* file -> what its rows in table data hold: nothing or a value
    xattr,      \* inode -> the values of its extended attribute: none or one
    handler,    \* what the request being served still has to do
    grants,     \* history: inode -> how often XATTR_CREATE was granted since the last removal
    seen        \* history: what a program noted of an inode, and what happened to it since

tables == <<metadata, born, dentry, data, xattr>>
vars == <<now, recording, tables, handler, grants, seen>>

Inode == Dir \cup File
Mode == {"private", "shared"}
Time == 1 .. MaxTime

None == [op |-> "none"]
Nothing == [what |-> "nothing"]

Init ==
    /\ now = 1 /\ recording \in BOOLEAN
    /\ metadata = [d \in Dir |-> [size |-> 0, mode |-> "shared", mtime |-> 1, ctime |-> 1]]
    /\ born = {} /\ dentry = {}
    /\ data = [f \in {} |-> 0]
    /\ xattr = [d \in Dir |-> {}]
    /\ handler = None
    /\ grants = [i \in Inode |-> 0]
    /\ seen = Nothing

---------------------------------------------------------------------------
(* Tables *)

Exists(i) == i \in DOMAIN metadata
Entry(d, n) == {e \in dentry : e.parent = d /\ e.name = n}
Names(i) == {e \in dentry : e.child = i}
HasName(f) == Names(f) # {}

\* get_inode_local: a file without a name has none
HasAttributes(i) == i \in Dir \/ (Exists(i) /\ HasName(i))

\* update_mtime and update_ctime for sets of inodes, where times are recorded.  There
\* may be no such row.
Stamped(rows, modified, changed) ==
    IF ~recording THEN rows
    ELSE [i \in DOMAIN rows |->
            [rows[i] EXCEPT !.mtime = IF i \in modified THEN now ELSE @,
                            !.ctime = IF i \in changed THEN now ELSE @]]

With(f, i, v) == [j \in DOMAIN f \cup {i} |-> IF j = i THEN v ELSE f[j]]
Without(f, i) == [j \in DOMAIN f \ {i} |-> f[j]]

Memory == UNCHANGED <<now, recording, handler, grants, seen>>

\* The program that noted one of these files misses a change of its names.
Relinked(files) ==
    /\ seen' = IF seen # Nothing /\ seen.ino \in files
               THEN [seen EXCEPT !.relinked = TRUE] ELSE seen
    /\ UNCHANGED <<now, recording, handler, grants>>

\* Mutant: another request may come between the two transactions of one
ServingAlways == TRUE

\* The loop takes a request when the handler before has returned.
Serving == handler = None

---------------------------------------------------------------------------
(* Names *)

\* create: the inode is born with the time of the handler; add_inode_and_dentry
Create(d, n, f) ==
    /\ Serving
    /\ f \notin born /\ Entry(d, n) = {}
    /\ born' = born \cup {f}
    /\ dentry' = dentry \cup {[parent |-> d, name |-> n, child |-> f]}
    /\ metadata' = Stamped(With(metadata, f, [size |-> 0, mode |-> "shared",
                                              mtime |-> now, ctime |-> now]), {d}, {d})
    /\ data' = With(data, f, {})
    /\ xattr' = With(xattr, f, {})
    /\ Memory

\* link_dentry: the file gets a new time of modification, but not of change
Link(f, d, n) ==
    /\ Serving
    /\ f \in File /\ HasAttributes(f) /\ Entry(d, n) = {}
    /\ dentry' = dentry \cup {[parent |-> d, name |-> n, child |-> f]}
    /\ metadata' = Stamped(metadata, {f, d}, {d})
    /\ UNCHANGED <<born, data, xattr>> /\ Relinked({f})

\* delete_dentry, by unlink and rmdir
Unlink(d, n) ==
    /\ Serving
    /\ \E e \in Entry(d, n) :
        /\ dentry' = dentry \ {e}
        /\ metadata' = Stamped(metadata, {d}, {e.child, d})
    /\ UNCHANGED <<born, data, xattr>> /\ Memory

\* move_dentry: the file that had the name loses it, and is not stamped
Rename(d, n, e, m) ==
    /\ Serving
    /\ \E x \in Entry(d, n) :
        /\ \A y \in Entry(e, m) : y.child # x.child          \* kernel: nothing to do
        /\ dentry' = (dentry \ ({x} \cup Entry(e, m)))
                        \cup {[parent |-> e, name |-> m, child |-> x.child]}
        /\ metadata' = Stamped(metadata, {d, e}, {d, e, x.child})
    /\ UNCHANGED <<born, data, xattr>> /\ Relinked({y.child : y \in Entry(e, m)})

\* Mutant: the table xattr has no foreign key
DeleteKeepsXattr(f) ==
    /\ Serving
    /\ f \in File /\ Exists(f) /\ ~HasName(f)
    /\ metadata' = Without(metadata, f)
    /\ data' = Without(data, f)
    /\ UNCHANGED <<now, recording, born, dentry, xattr, handler, grants, seen>>

\* delete_inode_if_noref, when the handler or a FORGET comes to it.  The rows that
\* refer to the inode go, and the lock with them.
Delete(f) ==
    /\ Serving
    /\ f \in File /\ Exists(f) /\ ~HasName(f)
    /\ metadata' = Without(metadata, f)
    /\ data' = Without(data, f)
    /\ xattr' = Without(xattr, f)
    /\ grants' = [grants EXCEPT ![f] = 0]
    /\ UNCHANGED <<now, recording, born, dentry, handler, seen>>

---------------------------------------------------------------------------
(* Contents *)

\* write_data: one block, the size only grows; also for a file without a name
Write(f, v, end) ==
    /\ Serving
    /\ f \in File \cap Settable /\ Exists(f)
    /\ data' = [data EXCEPT ![f] = {v}]
    /\ metadata' = Stamped([metadata EXCEPT ![f].size = IF end > @ THEN end ELSE @], {f}, {f})
    /\ UNCHANGED <<born, dentry, xattr>> /\ Memory

---------------------------------------------------------------------------
(* setattr *)

\* What may be asked for, of the fields of attr; nothing else is changed in it
Field == {"size", "mode", "mtime"}

\* get_inode; attr is the row with what was asked for in it.  The kernel truncates files
\* only.  A program may set any time.
SetAttr(i, asked, size, mode, mtime) ==
    /\ Serving
    /\ i \in Settable /\ HasAttributes(i)
    /\ i \in Dir => "size" \notin asked
    /\ handler' =
        [op |-> "setattr", ino |-> i, asked |-> asked,
         truncate |-> "size" \in asked /\ size < metadata[i].size,
         attr |-> [metadata[i] EXCEPT !.size = IF "size" \in asked THEN size ELSE @,
                                      !.mode = IF "mode" \in asked THEN mode ELSE @,
                                      !.mtime = IF "mtime" \in asked THEN mtime ELSE @]]
    /\ UNCHANGED <<now, recording, tables, grants, seen>>

\* Mutant: the time of modification is as asked, whatever happens to the size
ModifiedAsAsked(old, attr) == attr.mtime

Modified(old, attr) == IF old.size # attr.size THEN now ELSE attr.mtime

\* Mutant: the time of the last change is left as it was
UpdatedUnstamped(old, attr) == [attr EXCEPT !.mtime = Modified(old, attr)]

\* The row that update_inode writes: all of it, in every mode
Updated(old, attr) == [attr EXCEPT !.mtime = Modified(old, attr), !.ctime = now]

update_inode ==
    /\ handler.op = "setattr"
    /\ LET i == handler.ino
       IN  /\ metadata' = IF HasAttributes(i)
                          THEN [metadata EXCEPT ![i] = Updated(@, handler.attr)] ELSE metadata
           /\ data' = IF HasAttributes(i) /\ handler.truncate /\ handler.attr.size = 0
                      THEN [data EXCEPT ![i] = {}] ELSE data
           /\ seen' = IF seen # Nothing /\ seen.ino = i /\ "mtime" \in handler.asked
                            /\ metadata'[i].size = metadata[i].size
                      THEN [seen EXCEPT !.dated = TRUE] ELSE seen
    /\ handler' = None
    /\ UNCHANGED <<now, recording, born, dentry, xattr, grants>>

---------------------------------------------------------------------------
(* Extended attributes *)

Flag == {"none", "create", "replace"}

\* Mutant: XATTR_CREATE is not looked at
RefusedReplaceOnly(i, flag) == flag = "replace" /\ xattr[i] = {}

\* setxattr: with a flag, get_xattr says whether the request is refused
Refused(i, flag) ==
    \/ flag = "create" /\ xattr[i] # {}
    \/ flag = "replace" /\ xattr[i] = {}

SetXattr(i, v, flag) ==
    /\ Serving
    /\ i \in Settable /\ Exists(i) /\ ~Refused(i, flag)
    /\ handler' = [op |-> "setxattr", ino |-> i, value |-> v, create |-> flag = "create"]
    /\ UNCHANGED <<now, recording, tables, grants, seen>>

\* REPLACE INTO xattr
set_xattr ==
    /\ handler.op = "setxattr"
    /\ LET i == handler.ino
       IN  /\ xattr' = [xattr EXCEPT ![i] = {handler.value}]
           /\ metadata' = Stamped(metadata, {}, {i})
           /\ grants' = IF handler.create THEN [grants EXCEPT ![i] = @ + 1] ELSE grants
    /\ handler' = None
    /\ UNCHANGED <<now, recording, born, dentry, data, seen>>

\* removexattr: succeeds whether there is one or not
RemoveXattr(i) ==
    /\ Serving
    /\ i \in Settable /\ Exists(i)
    /\ xattr' = [xattr EXCEPT ![i] = {}]
    /\ metadata' = Stamped(metadata, {}, {i})
    /\ grants' = [grants EXCEPT ![i] = 0]
    /\ UNCHANGED <<now, recording, born, dentry, data, handler, seen>>

---------------------------------------------------------------------------
(* Environment *)

\* What the time of the last modification is about: the entries of a directory, the bytes
\* of a file
Contents(i) ==
    IF i \in Dir THEN {<<e.name, e.child>> : e \in {x \in dentry : x.parent = i}}
    ELSE <<data[i], metadata[i].size>>

\* A program looks at an inode (getattr, listxattr, read) after the instant of its last
\* change and of its last modification.
Look(i) ==
    /\ Serving /\ recording
    /\ seen = Nothing
    /\ HasAttributes(i)
    /\ metadata[i].ctime < now /\ metadata[i].mtime < now
    /\ seen' = [what |-> "inode", ino |-> i, row |-> metadata[i],
                contents |-> Contents(i), xattr |-> xattr[i], names |-> Names(i),
                dated |-> FALSE, relinked |-> FALSE]
    /\ UNCHANGED <<now, recording, tables, handler, grants>>

\* Another mount.  What is noted is of use as long as all mounts record times.
Mount(r) ==
    /\ recording' = r
    /\ handler' = None
    /\ seen' = IF r THEN seen ELSE Nothing
    /\ UNCHANGED <<now, tables, grants>>

Tick ==
    /\ now < MaxTime
    /\ now' = now + 1
    /\ UNCHANGED <<recording, tables, handler, grants, seen>>

Next ==
    \/ \E d \in Dir, n \in Name :
        \/ \E f \in File : Create(d, n, f) \/ Link(f, d, n)
        \/ Unlink(d, n)
        \/ \E e \in Dir, m \in Name : Rename(d, n, e, m)
    \/ \E f \in File : \/ Delete(f)
                       \/ \E v \in Value, end \in 1 .. MaxSize : Write(f, v, end)
    \/ \E i \in Inode, asked \in SUBSET Field, size \in 0 .. MaxSize, mode \in Mode :
        \E mtime \in Time : SetAttr(i, asked, size, mode, mtime)
    \/ update_inode \/ set_xattr
    \/ \E i \in Inode :
        \/ \E v \in Value, flag \in Flag : SetXattr(i, v, flag)
        \/ RemoveXattr(i)
        \/ Look(i)
    \/ \E r \in BOOLEAN : Mount(r)
    \/ Tick

Spec == Init /\ [][Next]_vars

---------------------------------------------------------------------------
(* Properties *)

Row == [size : 0 .. MaxSize, mode : Mode, mtime : Time, ctime : Time]

\* A file has a row from its creation to its deletion, and the rows that refer to it
\* live as long.
TypeOK ==
    /\ now \in Time /\ recording \in BOOLEAN
    /\ Dir \subseteq DOMAIN metadata /\ DOMAIN metadata \subseteq Dir \cup born
    /\ \A i \in DOMAIN metadata : metadata[i] \in Row
    /\ \A e \in dentry : e.parent \in Dir /\ e.child \in born
    /\ DOMAIN xattr = DOMAIN metadata /\ DOMAIN data = DOMAIN metadata \ Dir
    /\ \A i \in DOMAIN xattr : xattr[i] \subseteq Value /\ Cardinality(xattr[i]) <= 1
    /\ handler = None \/ (handler.op \in {"setattr", "setxattr"} /\ handler.ino \in Inode)

\* What a program noted and can compare
Comparable == seen # Nothing /\ Exists(seen.ino)
NotedRow == metadata[seen.ino]

\* What a backup by time of change can rely on: when an inode has the ctime it had when
\* it was looked at, its contents, mode and attributes are the ones it had, and so are its
\* mtime and its names, unless link gave it another name (against misc/implement.md 805)
\* or a rename took one from it, which do not stamp its ctime.  So it is whatever else was
\* asked in between, at whatever instants (sqlite.rs 897-957, 1042, 1119-1143, 1292-1437).
SameChangeTimeMeansSame ==
    Comparable /\ NotedRow.ctime = seen.row.ctime =>
        /\ Contents(seen.ino) = seen.contents
        /\ NotedRow.mode = seen.row.mode
        /\ xattr[seen.ino] = seen.xattr
        /\ ~seen.relinked => NotedRow.mtime = seen.row.mtime /\ Names(seen.ino) = seen.names

\* A program like make misses nothing: when a file or directory has the mtime it had, and
\* no program set it, its bytes or entries are the same; a request that sets a time and
\* changes the size does not hide the change (sqlite.rs 925-929).
SameModificationTimeMeansSame ==
    Comparable /\ ~seen.dated /\ NotedRow.mtime = seen.row.mtime =>
        Contents(seen.ino) = seen.contents

\* setattr writes back the whole row it read in a transaction before: no write that was
\* acknowledged is undone by a request that was about the mode or the times
\* (filesystem.rs 347-393).
NoUpdateIsUndone ==
    [][\A i \in DOMAIN metadata \cap DOMAIN metadata' :
        metadata'[i].size < metadata[i].size =>
            handler.op = "setattr" /\ handler.ino = i /\ "size" \in handler.asked]_vars

\* An extended attribute set with XATTR_CREATE is a lock: of the programs that try, one
\* has it until it is removed (setxattr, filesystem.rs 1142-1173).
CreateLocks == \A i \in Inode : grants[i] <= 1
====
