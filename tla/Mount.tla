---- MODULE Mount ----
(***************************************************************************)
(* The mounts of one database, one after the other, each of its own mode:  *)
(* the constructors and Sqlite::init of src/src/db_module/sqlite.rs, INIT  *)
(* and which requests each mode lets change the tables                     *)
(* (src/src/filesystem.rs).  Sqlite::init runs outside of a transaction,   *)
(* so a process that dies in it leaves the statements it got through.      *)
(*                                                                         *)
(* Of the tables only the schema is modelled, and which changes their      *)
(* triggers logged.                                                        *)
(***************************************************************************)
EXTENDS Integers, Sequences

CONSTANT Mode   \* the ways to mount: see ReadWrite and ReadOnly

ReadWrite == {"recording", "no_time"}
ReadOnly == {"read_only", "at_time"}

ASSUME ModeAssumption == Mode \subseteq ReadWrite \cup ReadOnly

VARIABLES
    schema,     \* table -> what there is of it: the table, its *_audit and its triggers
    root,       \* how many of the root's three rows there are
    file,       \* whether metadata has a row besides the root's
    orphans,    \* whether one of them has no name and no holder
    process,    \* the process that mounts, how far it is
    cut,        \* history: tables a process died on while it made them
    lost,       \* history: tables with a change that is not in the log
    writers     \* history: modes whose mounts added to the log

vars == <<schema, root, file, orphans, process, cut, lost, writers>>

Table == <<"metadata", "dentry", "data", "xattr">>
TableNames == {Table[i] : i \in DOMAIN Table}
Op == {"INSERT", "UPDATE", "DELETE"}

\* Mutant: the table has no trigger for updates
StatementsWithoutUpdate == <<"table", "audit", "DELETE", "INSERT">>

\* What makes a table, in the order of its statements; a trigger is named for its event
Statements == <<"table", "audit", "DELETE", "UPDATE", "INSERT">>

Off == [phase |-> "off"]

\* A process that makes tables: done statements of the i-th
Making(m, i, done) == [phase |-> "tables", mode |-> m, i |-> i, done |-> done]
At(phase, m) == [phase |-> phase, mode |-> m]

Init ==
    /\ schema = [t \in TableNames |-> {}]
    /\ root = 0
    /\ file = FALSE /\ orphans = FALSE
    /\ process = Off
    /\ cut = {} /\ lost = {} /\ writers = {}

---------------------------------------------------------------------------
(* Construction *)

\* The triggers are a table's log: what has none for an event goes unrecorded.
Changed(m, changes) ==
    LET unlogged == {c \in changes : c[2] \notin schema[c[1]]}
    IN  /\ lost' = lost \cup {c[1] : c \in unlogged}
        /\ writers' = IF changes = unlogged THEN writers ELSE writers \cup {m}

Unchanged == UNCHANGED <<lost, writers>>

\* new, new_no_time_recording, new_read_only; new_at_time reads the logs first, and when
\* one is missing its error ends the process.
Open(m) ==
    /\ process = Off
    /\ process' = IF m = "at_time" /\ \E t \in TableNames : "audit" \notin schema[t]
                  THEN At("failed", m) ELSE Making(m, 1, 0)
    /\ UNCHANGED <<schema, root, file, orphans, cut>> /\ Unchanged

\* Mutant: the last statement tells whether the table was made
FoundWhenWhole(t) == "INSERT" \in schema[t]

\* Mutant: one table tells for all
FoundAny(t) == \E u \in TableNames : "table" \in schema[u]

\* SELECT count(name) FROM sqlite_master: the table tells for its log and triggers
Found(t) == "table" \in schema[t]

MakingTables == process.phase = "tables" /\ process.i \in DOMAIN Table

\* A table that is found is left as it is.
Skip ==
    /\ MakingTables
    /\ process.done = 0 /\ Found(Table[process.i])
    /\ process' = Making(process.mode, process.i + 1, 0)
    /\ UNCHANGED <<schema, root, file, orphans, cut>> /\ Unchanged

\* Whether the next statement to make the i-th table fails: what it makes is there
Fails(i, done) == Statements[done + 1] \in schema[Table[i]]

\* The next CREATE TABLE or CREATE TRIGGER; an error ends the process.
Create ==
    /\ MakingTables
    /\ process.done = 0 => ~Found(Table[process.i])
    /\ LET t == Table[process.i]
           done == process.done + 1
       IN  IF Fails(process.i, process.done)
           THEN process' = At("failed", process.mode) /\ UNCHANGED schema
           ELSE /\ schema' = [schema EXCEPT ![t] = @ \cup {Statements[done]}]
                /\ process' = IF done = Len(Statements)
                              THEN Making(process.mode, process.i + 1, 0)
                              ELSE [process EXCEPT !.done = done]
    /\ UNCHANGED <<root, file, orphans, cut>> /\ Unchanged

\* Inode 1, then its "." and "..", each if it is missing
MakeRoot ==
    /\ process.phase = "tables" /\ process.i > Len(Table)
    /\ root < 3
    /\ root' = root + 1
    /\ Changed(process.mode, {<<IF root = 0 THEN "metadata" ELSE "dentry", "INSERT">>})
    /\ UNCHANGED <<schema, file, orphans, process, cut>>

\* apply_diffs writes bdata only, and its error is ignored.
Constructed ==
    /\ process.phase = "tables" /\ process.i > Len(Table)
    /\ root = 3
    /\ process' = At("mounted", process.mode)
    /\ UNCHANGED <<schema, root, file, orphans, cut>> /\ Unchanged

---------------------------------------------------------------------------
(* Session: a request before the first INIT or after DESTROY is refused, but for INIT and *)
(* DESTROY, which the loop takes at any time after construction and after the first INIT. *)

\* Constructed; after INIT; after DESTROY
Ready == {"mounted", "serving", "destroyed"}

\* An inode that is open may have lost its name.
MayHoldUnnamed == process.phase = "serving" /\ process.mode \in ReadWrite /\ file

\* The rows of inodes that nothing refers to go, with their attributes and contents.
DeleteUnnamed ==
    /\ \E more \in SUBSET {"data", "xattr"} :
          Changed(process.mode, {<<t, "DELETE">> : t \in more \cup {"metadata"}})
    /\ file' \in BOOLEAN

\* INIT deletes what nothing refers to, unless the mount is at a time: also what is open,
\* when it comes again.  An error of the database is only noted, here and in DESTROY.
INIT ==
    /\ process.phase \in Ready
    /\ process' = At(IF process.phase = "mounted" THEN "serving" ELSE process.phase,
                     process.mode)
    /\ \/ /\ process.mode # "at_time"
          /\ orphans \/ MayHoldUnnamed
          /\ DeleteUnnamed /\ orphans' = FALSE
       \/ UNCHANGED <<file, orphans>> /\ Unchanged
    /\ UNCHANGED <<schema, root, cut>>

\* DESTROY deletes what lookup_count knows and nothing refers to.  The map stays as it is.
DESTROY ==
    /\ process.phase \in {"serving", "destroyed"}
    /\ process' = At("destroyed", process.mode)
    /\ \/ MayHoldUnnamed /\ DeleteUnnamed /\ (orphans => file')
       \/ UNCHANGED file /\ Unchanged
    /\ UNCHANGED <<schema, root, orphans, cut>>

---------------------------------------------------------------------------
(* Requests *)

\* A request that changes a table is refused by both kinds of read-only mounts.  Contents
\* belong to a file, and the root is not deleted.
Write(t, op) ==
    /\ process.phase = "serving" /\ process.mode \notin ReadOnly
    /\ <<t, op>> # <<"xattr", "UPDATE">>       \* set_xattr is a REPLACE
    /\ t = "data" \/ <<t, op>> = <<"metadata", "DELETE">> => file
    /\ Changed(process.mode, {<<t, op>>})
    /\ file' \in CASE <<t, op>> = <<"metadata", "INSERT">> -> {TRUE}
                   [] <<t, op>> = <<"metadata", "DELETE">> -> {TRUE, orphans}
                   [] OTHER -> {file}
    /\ UNCHANGED <<schema, root, orphans, process, cut>>

\* lookup sets the access time of the directory, read and readlink of what they read:
\* where times are recorded, and in a mount at a time when its row is still there, because
\* get_data_at_time does not ask for read_only (lookup_at_time sets none).
Read ==
    /\ process.phase = "serving"
    /\ process.mode = "recording" \/ (process.mode = "at_time" /\ file)
    /\ Changed(process.mode, {<<"metadata", "UPDATE">>})
    /\ UNCHANGED <<schema, root, file, orphans, process, cut>>

\* The process ends or dies.  Inodes may stay that were removed while they were open.
Stop ==
    /\ process # Off
    /\ process' = Off
    /\ cut' = IF process.phase = "tables" /\ process.done > 0
              THEN cut \cup {Table[process.i]} ELSE cut
    /\ orphans' \in IF MayHoldUnnamed THEN {orphans, TRUE} ELSE {orphans}
    /\ UNCHANGED <<schema, root, file>> /\ Unchanged

Next ==
    \/ \E m \in Mode : Open(m)
    \/ Skip \/ Create \/ MakeRoot \/ Constructed
    \/ INIT \/ DESTROY \/ Read \/ Stop
    \/ \E t \in TableNames, op \in Op : Write(t, op)

Spec == Init /\ [][Next]_vars

---------------------------------------------------------------------------
(* Properties *)

TypeOK ==
    /\ schema \in [TableNames -> SUBSET ({"table", "audit"} \cup Op)]
    /\ root \in 0 .. 3 /\ file \in BOOLEAN /\ orphans \in BOOLEAN /\ (orphans => file)
    /\ process \in
        {Off} \cup [phase : Ready \cup {"failed"}, mode : Mode]
              \cup [phase : {"tables"}, mode : Mode, i : 1 .. 5, done : 0 .. 4]
    /\ cut \subseteq TableNames /\ lost \subseteq TableNames /\ writers \subseteq Mode
    \* the process that makes a table is past the ones before it
    /\ process.phase = "tables" => \A i \in 1 .. process.i - 1 : "table" \in schema[Table[i]]

\* What earlier processes left, wherever they died, fails a mount at a time only, and that
\* because a table was never made, or was cut: no later mount makes the log it lacks.
\* No statement of Sqlite::init makes what is there already (sqlite.rs 479-482, 530-799).
MountsGoOn ==
    process.phase = "failed" =>
        /\ process.mode = "at_time"
        /\ \E t \in TableNames : schema[t] = {} \/ t \in cut

\* A table that was made without a death in between has all its changes in the log: of
\* every mode, the rows of the root and what INIT deletes included.
WholeTablesAreLogged == lost \subseteq cut

\* The option --time implies a read-only mount (main.rs 35): its requests change nothing
\* in the database, of which all tables are whole, and add nothing to its log.
RewindWritesNothing ==
    [][process.phase = "serving" /\ process.mode = "at_time" /\ cut = {}
        => UNCHANGED <<file, orphans, lost, writers>>]_vars
====
