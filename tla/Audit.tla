---- MODULE Audit ----
(***************************************************************************)
(* The log of the database: the triggers that Sqlite::init puts on its     *)
(* tables, the tables that a mount at a time builds from the log           *)
(* (new_at_time) and what its requests find in them, and what apply_diffs  *)
(* builds from the log of table data at every mount (src/src/db_module/    *)
(* sqlite.rs).                                                             *)
(*                                                                         *)
(* A row is a key with a value.  Keys are what new_at_time groups the log  *)
(* by.  Names and inodes are those of one directory, the root, whose row   *)
(* is there from the start; blocks and extended attributes are those of    *)
(* one file.  Of a transaction on tables that are not looked at together   *)
(* each behaviour has its part.  Time is in milliseconds, the unit of the  *)
(* log, and does not go back.  A transaction has one step per statement,   *)
(* each with the time of its own; one that is rolled back takes its        *)
(* records along and is as if it had not begun.                            *)
(***************************************************************************)
EXTENDS Integers, Sequences

CONSTANTS
    Together,   \* the sets of tables looked at: the tree's together, others alone
    Directory,  \* the inode number of the directory
    Ino,        \* those of its files
    Name,       \* names of entries and of attributes, and numbers of blocks
    Value,
    MaxLog,     \* bound: the number of records in the log
    MaxAlone,   \* bound: their number when data or xattr is looked at alone
    MaxTime     \* bound: the last millisecond

ASSUME TogetherAssumption ==
    Together \subseteq {{"metadata", "dentry"}, {"data"}, {"xattr"}}
ASSUME DirectoryAssumption == Directory \notin Ino
ASSUME LogBoundsAssumption == MaxLog \in Nat \ {0} /\ MaxAlone \in Nat /\ MaxTime \in Nat \ {0}

VARIABLES
    tables,     \* the tables this behaviour is about; never change
    rows,       \* key -> value, for the keys in the tables
    audit,      \* the records of the *_audit tables, in the order of seq
    todo,       \* the statements that the transaction under way has left
    now,        \* the clock
    past        \* history: past[t] is what rows were when the clock came to t,
                \* with what a transaction under way had changed in them by then

vars == <<tables, rows, audit, todo, now, past>>

Inode(i) == [table |-> "metadata", ino |-> i]
Entry(n, i) == [table |-> "dentry", name |-> n, ino |-> i]
Block(n) == [table |-> "data", block_num |-> n]
Xattr(n) == [table |-> "xattr", name |-> n]

\* All an entry has besides its key is the type of the file.
FileType == "file"

Full(v) == [full |-> v]

\* A database that was just made: the root's row and its record
MakeRoot(v) ==
    /\ rows = [k \in {Inode(Directory)} |-> v]
    /\ audit = <<[ts |-> 1, op |-> "INSERT", key |-> Inode(Directory),
                  old |-> Inode(Directory), data |-> Full(v)]>>

Init ==
    /\ tables \in Together
    /\ IF "metadata" \in tables THEN \E v \in Value : MakeRoot(v)
       ELSE rows = [k \in {} |-> FileType] /\ audit = <<>>
    /\ todo = <<>>
    /\ now = 1
    /\ past = <<[k \in {} |-> FileType]>>

---------------------------------------------------------------------------
(* Statements and their triggers *)

INSERT(k, v) == [op |-> "INSERT", key |-> k, to |-> k, value |-> v]
UPDATE(k, v) == [op |-> "UPDATE", key |-> k, to |-> k, value |-> v]
DELETE(k) == [op |-> "DELETE", key |-> k, to |-> k, value |-> rows[k]]

\* REPLACE: the row that goes fires no trigger, as recursive triggers are off.
REPLACE(k, v) == INSERT(k, v)

\* UPDATE of the key of an entry
MOVE(k, l) == [op |-> "UPDATE", key |-> k, to |-> l, value |-> rows[k]]

\* Mutant: the delta leads back to the old block
DeltaBackwards(v, w) == [from |-> w, to |-> v]

delta_create(v, w) == [from |-> v, to |-> w]

\* Mutant: an update is logged as it would be read
UpdateRecordWhole(t, v, w) == Full(w)

\* The update triggers keep the new row, that of data the change to the block
UpdateRecord(t, v, w) == IF t = "data" THEN delta_create(v, w) ELSE Full(w)

\* The key in the log of an UPDATE: that of NEW
LoggedKey(s) == s.to

\* A record, with the key the row had, which is history: the log does not keep it.
Record(s) ==
    [ts |-> now, op |-> s.op, key |-> LoggedKey(s), old |-> s.key,
     data |-> IF s.op = "UPDATE" THEN UpdateRecord(s.key.table, rows[s.key], s.value)
              ELSE Full(s.value)]

Execute(s) ==
    /\ rows' = [k \in (DOMAIN rows \ {s.key}) \cup (IF s.op = "DELETE" THEN {} ELSE {s.to}) |->
                    IF k = s.to THEN s.value ELSE rows[k]]
    /\ audit' = Append(audit, Record(s))
    /\ UNCHANGED <<tables, now, past>>

Transaction(stmts) ==
    /\ todo = <<>>
    /\ Len(audit) + Len(stmts) <= MaxLog
    /\ Execute(Head(stmts))
    /\ todo' = Tail(stmts)

Continue ==
    /\ todo # <<>>
    /\ Execute(Head(todo))
    /\ todo' = Tail(todo)

---------------------------------------------------------------------------
(* Transactions on metadata and dentry *)

Exists(k) == k \in DOMAIN rows
Entries(n) == {k \in DOMAIN rows : k.table = "dentry" /\ k.name = n}
HasName(i) == \E k \in DOMAIN rows : k.table = "dentry" /\ k.ino = i
Logged(k) == \E j \in DOMAIN audit : audit[j].key = k

\* UPDATEs of the rows of these inodes, one after the other
Updates(of) == {[j \in DOMAIN of |-> UPDATE(Inode(of[j]), v[j])] : v \in [DOMAIN of -> Value]}

\* update_mtime and update_ctime, in a mount that records times
Stamps(of) == {<<>>} \cup Updates(of)

\* Mutant: the entry comes before what it refers to
AddEntryFirst(i, n, v) == <<INSERT(Entry(n, i), FileType), INSERT(Inode(i), v)>>

AddInodeAndDentry(i, n, v) == <<INSERT(Inode(i), v), INSERT(Entry(n, i), FileType)>>

\* AUTOINCREMENT gives a new number each time.
add_inode_and_dentry(i, n, v) ==
    /\ ~Logged(Inode(i)) /\ Entries(n) = {}
    /\ \E stamps \in Stamps(<<Directory, Directory>>) :
        Transaction(AddInodeAndDentry(i, n, v) \o stamps)

\* One stamp of the file, two of the directory
link_dentry(i, n) ==
    /\ HasName(i) /\ Entries(n) = {}
    /\ \E stamps \in Stamps(<<i, Directory, Directory>>) :
        Transaction(<<INSERT(Entry(n, i), FileType)>> \o stamps)

delete_dentry(n) ==
    \E k \in Entries(n) :
        \E stamps \in Stamps(<<k.ino, Directory, Directory>>) :
            Transaction(<<DELETE(k)>> \o stamps)

\* The entry in the way goes first.
move_dentry(n, m) ==
    /\ n # m
    /\ \E k \in Entries(n) : \E stamps \in Stamps(<<k.ino, Directory, Directory>>) :
        LET move == <<MOVE(k, Entry(m, k.ino))>> \o stamps
        IN  \/ Entries(m) = {} /\ Transaction(move)
            \/ \E l \in Entries(m) : l.ino # k.ino /\ Transaction(<<DELETE(l)>> \o move)

\* and delete_all_noref_inode, for one of them
delete_inode_if_noref(i) ==
    /\ Exists(Inode(i)) /\ ~HasName(i)
    /\ Transaction(<<DELETE(Inode(i))>>)

\* The root has its "." for a name.
update_inode(i, v) ==
    /\ Exists(Inode(i)) /\ (HasName(i) \/ i = Directory)
    /\ Transaction(<<UPDATE(Inode(i), v)>>)

\* lookup and get_data: the time of access; set_xattr and delete_xattr: that of change
touch(i, v) ==
    /\ Exists(Inode(i))
    /\ Transaction(<<UPDATE(Inode(i), v)>>)

\* write_data, the UPDATEs of metadata: the size if it grows, and two time stamps.  The
\* file may have lost its name.
write_size_and_times(i) ==
    /\ Exists(Inode(i))
    /\ \E size \in {<<>>} \cup Updates(<<i>>), stamps \in Stamps(<<i, i>>) :
        size \o stamps # <<>> /\ Transaction(size \o stamps)

---------------------------------------------------------------------------
(* Transactions on data and xattr *)

\* write_data, its INSERT ... ON CONFLICT DO UPDATE
write_block(k, v) == Transaction(<<IF Exists(k) THEN UPDATE(k, v) ELSE INSERT(k, v)>>)

\* release_data: the block that is cut is replaced or made
cut_block(k, v) == Transaction(<<REPLACE(k, v)>>)

set_xattr(k, v) == Transaction(<<REPLACE(k, v)>>)

\* delete_xattr, release_data, or the cascade from metadata
delete_row(k) == Exists(k) /\ Transaction(<<DELETE(k)>>)

---------------------------------------------------------------------------

\* bound: a millisecond in which nothing is logged would be like the one after it
Tick ==
    /\ now < MaxTime
    /\ \E j \in DOMAIN audit : audit[j].ts = now
    /\ now' = now + 1
    /\ past' = Append(past, rows)
    /\ UNCHANGED <<tables, rows, audit, todo>>

Next ==
    \/ /\ "metadata" \in tables
       /\ \/ \E i \in Ino, n \in Name, v \in Value : add_inode_and_dentry(i, n, v)
          \/ \E i \in Ino, n \in Name : link_dentry(i, n)
          \/ \E n \in Name : delete_dentry(n)
          \/ \E n, m \in Name : move_dentry(n, m)
          \/ \E i \in Ino : delete_inode_if_noref(i)
          \/ \E i \in Ino \cup {Directory}, v \in Value : update_inode(i, v) \/ touch(i, v)
          \/ \E i \in Ino : write_size_and_times(i)
    \/ /\ "data" \in tables /\ Len(audit) < MaxAlone
       /\ \E n \in Name, v \in Value : write_block(Block(n), v) \/ cut_block(Block(n), v)
    \/ /\ "xattr" \in tables /\ Len(audit) < MaxAlone
       /\ \E n \in Name, v \in Value : set_xattr(Xattr(n), v)
    \/ /\ Len(audit) < MaxAlone
       /\ \E k \in {j \in DOMAIN rows : j.table \in {"data", "xattr"}} : delete_row(k)
    \/ Continue
    \/ Tick

Spec == Init /\ [][Next]_vars

---------------------------------------------------------------------------
(* Mount at a time *)

Before(t) == {i \in DOMAIN audit : audit[i].ts < t}

\* Mutant: deletions are left out before the last record is looked for
LatestNotDeleted(t, k) ==
    {i \in Before(t) :
        /\ audit[i].key = k
        /\ \A j \in Before(t) :
            audit[j].key = k /\ audit[j].op # "DELETE" => audit[j].ts <= audit[i].ts}

\* Mutant: min(timestamp_utc)
Earliest(t, k) ==
    {i \in Before(t) :
        /\ audit[i].key = k
        /\ \A j \in Before(t) : audit[j].key = k => audit[i].ts <= audit[j].ts}

\* max(timestamp_utc) of each key, joined with the log again: every record of the key
\* with that time stamp is there
Latest(t, k) ==
    {i \in Before(t) :
        /\ audit[i].key = k
        /\ \A j \in Before(t) : audit[j].key = k => audit[j].ts <= audit[i].ts}

\* tmetadata, tdentry, tdata, txattr: the last records that are not deletions.  Of the rows
\* of a key any may be the first that get_data_at_time and get_xattr_at_time come to.
RewoundTo(t, k) == {audit[i].data : i \in {j \in Latest(t, k) : audit[j].op # "DELETE"}}

get_dentry_at_time(t) ==
    {k \in {audit[i].key : i \in Before(t)} : k.table = "dentry" /\ RewoundTo(t, k) # {}}

\* Only an inode that has a number of links is found
get_inode_at_time(t, i) ==
    IF \E k \in get_dentry_at_time(t) : k.ino = i THEN RewoundTo(t, Inode(i)) ELSE {}

\* tdentry joined with tmetadata: the number and a row of each inode it may answer
lookup_at_time(t, n) ==
    UNION {{<<k.ino, d>> : d \in RewoundTo(t, Inode(k.ino))} :
           k \in {l \in get_dentry_at_time(t) : l.name = n}}

---------------------------------------------------------------------------
(* apply_diffs *)

Blocks == {Block(n) : n \in Name}

\* SELECT max(seq) of a key and an operation; 0 when there is none
MaxSeq(k, op) ==
    LET seqs == {i \in DOMAIN audit : audit[i].key = k /\ audit[i].op = op} \cup {0}
    IN  CHOOSE i \in seqs : \A j \in seqs : j <= i

\* get_max_creation_seq: the blocks created after they were deleted last
Created == {k \in Blocks : MaxSeq(k, "INSERT") > MaxSeq(k, "DELETE")}

\* A delta that does not fit is skipped
delta_apply(v, delta) == IF v = delta.from THEN delta.to ELSE v

Patched(k) ==
    LET cr_seq == MaxSeq(k, "INSERT")
        upto[i \in cr_seq .. Len(audit)] ==
            IF i = cr_seq THEN audit[i].data.full
            ELSE IF audit[i].key = k THEN delta_apply(upto[i - 1], audit[i].data)
            ELSE upto[i - 1]
    IN  upto[Len(audit)]

\* The table bdata
apply_diffs == [k \in Created |-> Patched(k)]

---------------------------------------------------------------------------
(* Properties *)

Key ==
    {Inode(i) : i \in Ino \cup {Directory}} \cup {Entry(n, i) : n \in Name, i \in Ino}
        \cup Blocks \cup {Xattr(n) : n \in Name}

Content == Value \cup {FileType}
Data == [full : Content] \cup [from : Content, to : Content]
Records ==
    [ts : 1 .. MaxTime, op : {"INSERT", "UPDATE", "DELETE"}, key : Key, old : Key, data : Data]

TypeOK ==
    /\ tables \in Together
    /\ DOMAIN rows \subseteq Key
    /\ \A k \in DOMAIN rows : k.table \in tables /\ rows[k] \in Content
    /\ audit \in Seq(Records) /\ Len(audit) + Len(todo) <= MaxLog
    /\ now \in 1 .. MaxTime /\ Len(past) = now
    \* only the log of data holds deltas, and only for updates
    /\ \A i \in DOMAIN audit :
        "from" \in DOMAIN audit[i].data <=>
            audit[i].op = "UPDATE" /\ audit[i].key.table = "data"

WasAt(t, k) == k \in DOMAIN past[t]
PastValues(t, k) == IF WasAt(t, k) THEN {Full(past[t][k])} ELSE {}

\* A mount at a time finds every row there was then, with its value where the log keeps
\* values, though perhaps other rows besides: for all four tables, however many changes
\* fall into one millisecond (new_at_time, sqlite.rs 485-488).
RewindMissesNothing ==
    \A t \in 1 .. now : \A k \in DOMAIN past[t] :
        \E d \in RewoundTo(t, k) : k.table # "data" => d = Full(past[t][k])

\* No two changes of the row in one millisecond
Spaced(k) ==
    \A i, j \in DOMAIN audit :
        audit[i].key = k /\ audit[j].key = k /\ audit[i].ts = audit[j].ts => i = j

\* No rename took an entry away from this key
Unmoved(k) == \A i \in DOMAIN audit : audit[i].old = k => audit[i].key = k

\* A row of metadata, dentry or xattr that was not changed twice in a millisecond nor
\* moved away is after a rewind what it was then, and is not there if it was not: also
\* when it was deleted and made again, or replaced without a record of the deletion.  In
\* a mount that records times a transaction stamps a directory twice, and a file it
\* writes two or three times: it says nothing of these rows when that takes less than a
\* millisecond.
RewindIsThePast ==
    \A k \in Key :
        k.table \in tables \ {"data"} /\ Spaced(k) /\ Unmoved(k) =>
            \A t \in 1 .. now : RewoundTo(t, k) = PastValues(t, k)

\* Of two tables: what a rewound directory lists can be looked up and its attributes read,
\* though the time may fall between two statements of a transaction, or between the
\* removal of a name and that of its inode; for entries not changed twice in a millisecond
\* nor moved away (sqlite.rs 193-228, 994-1010, 1191-1234).
RewoundEntriesHaveInodes ==
    \A t \in 1 .. now : \A k \in get_dentry_at_time(t) :
        Spaced(k) /\ Unmoved(k) =>
            /\ get_inode_at_time(t, k.ino) # {}
            /\ \E found \in lookup_at_time(t, k.name) : found[1] = k.ino

\* The blocks rebuilt from the log at a mount are those of the table: deletions, blocks
\* made again, replaced ones and deltas come out in order (apply_diffs, sqlite.rs 290-353).
BdataIsData == "data" \in tables => apply_diffs = rows

\* The option --time promises the database as it was at a time (main.rs 32-35).  Its
\* blocks are those of then, if none changed twice in a millisecond.
RewoundBlocksAreThePast ==
    \A t \in 1 .. now : \A k \in Blocks :
        Spaced(k) => RewoundTo(t, k) = PastValues(t, k)

\* The option --time promises the database as it was at a time (main.rs 32-35).  It
\* has no entry that was not there then, if none changed twice in a millisecond.
RewoundEntriesWereThere ==
    \A t \in 1 .. now : \A k \in get_dentry_at_time(t) : Spaced(k) => WasAt(t, k)
====
