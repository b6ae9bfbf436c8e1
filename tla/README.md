# Verification of sqlitefs_temporal

TLA+ models of the FUSE file system that keeps its tree, its data and its history in
one SQLite database, with TLC configurations that check them on small instances and
TLAPS proofs for every size.

Paths are relative to the repository: `filesystem.rs` is `src/filesystem.rs`,
`sqlite.rs` is `src/db_module/sqlite.rs`, `request.rs` is `fuse/patches/request.rs`.

## The system

A process mounts a database (`main.rs`), and a single-threaded session loop reads one
FUSE request at a time (`request.rs`), runs its handler to the end (`filesystem.rs`)
and answers it. A handler calls one or more `DbModule` methods (`sqlite.rs`), each a
SQLite transaction of its own. Triggers copy every change of a table to an audit
table; a mount "at a time" rebuilds temporary tables from the audit tables.

| Component | State | Operations | What makes it correct |
|---|---|---|---|
| Name space (`sqlite.rs`) | tables `metadata`, `dentry` | `add_inode_and_dentry`, `link_dentry`, `delete_dentry`, `move_dentry`, `delete_inode_if_noref`, `delete_all_noref_inode`, `init` | the rows form a tree of directories whose dots follow it; no named inode is deleted; numbers are not reused |
| Inode lifetime (`filesystem.rs`) | `lookup_count` | `lookup`, `forget`, `mkdir`, `create`, `symlink`, `link`, `unlink`, `rmdir`, `rename`, `init`, `destroy` | an inode lives as long as a name or the kernel leads to it, and not longer |
| Kernel (external) | its count of references, FORGETs under way, caches | requests, evictions | checks parents, types and ancestry before it sends a request |
| Mounting | schema, mode | constructors, `Sqlite::init`, INIT | no death keeps a later mount from going on, but for those at a time that lack a log, and tables made in one go log every change |
| File contents | table `data`, `metadata.size` | `write`, `read`, `setattr(size)`, `readlink` | the blocks are a byte file; a failed write is a prefix of it |
| Directory and file handles | `open_dir_handler`, `open_file_handler`, the reply's buffer | `opendir`, `readdir`, `releasedir`, `open`, `release`, `create` | a listing is complete and repeats nothing; handles are freed |
| Attributes | times, modes, owners in `metadata` | `getattr`, `setattr`, and the times every transaction sets | a change is told by a new time of change or modification, but for links and replacements; no write is undone |
| Extended attributes | table `xattr` | `setxattr`, `getxattr`, `listxattr`, `removexattr` | `XATTR_CREATE` is granted to one; the rows go with the inode |
| Audit log and rewind | `*_audit`, `bdata`, temporary tables | triggers, `apply_diffs`, `new_at_time`, the `*_at_time` methods | the state at a time is the state the history had then, and its tables fit together |
| Session | `initialized`, `destroyed` | `dispatch` | nothing before INIT, nothing after DESTROY but these two again, and what they delete is logged |
| Other replies, kernel ABI, deltas and compression, command line, errors | none that lasts | | not modelled, see below |

What is hard here is not threads (there is one) but: requests that arrive in any order
with FORGETs; handlers that commit two transactions, with a process that may die in
between and a next mount that finds what was left; inode numbers that caches remember;
and directories whose rows refer to each other in a cycle (`.` and `..`) while a count
of those rows decides what is deleted.

## Plan

1. `Store`, `SqliteFs`, `InodeLife`: the name space and the life of inodes. *Done, with
   proofs of all its safety properties and of the refinement.*
2. `FileData` refining `ByteFile`: blocks, sizes, partial writes. *Done, with proofs of the
   properties and of the refinement, below 4 GiB.*
3. `OpenDir` over `Handles`: paging of `readdir`, handles and their release. *Done, with
   proofs.*
4. `Audit`: triggers, transactions of several statements over two tables, the log's time
   stamps, rewind and the methods that read it against history, deltas. *Done, with proofs.*
5. `Mount`: the schema statement by statement with a death after any, mounts of every
   mode one after the other, INIT and DESTROY again. *Done, with proofs.*
6. `Attributes`: times of change against changes, setattr and setxattr as two
   transactions each. *Done, with proofs.*
7. Left: which properties of `FileData` survive where files cross 4 GiB and the code cuts
   offsets to 32 bits (a run with a small `WIDTH`).

## Modules

`Store.tla` has the tables as variables and one operator per `DbModule` method, each
an atomic transaction. `dentry` is the set of rows `[parent, child, ftype, name]`;
`metadata` maps an inode number to its kind or `"none"`; `next_ino` is what
AUTOINCREMENT hands out; `linkdata` says which symbolic links have their block.
Methods that return an error roll back: their operators are disabled, where nothing was
committed before. What a handler does when its second transaction fails is in `SqliteFs`.

`SqliteFs.tla` has the handlers, the counts and the kernel. A handler that commits one
transaction is one action. `unlink`, `rmdir` and `rename` commit the removal of the name
and then, if the inode is not in `lookup_count`, delete it if nothing refers to it: two
actions, with `handler` holding what is left; `symlink` and `destroy` likewise. The
database may refuse the deletion there, in FORGET, at INIT and for each key of DESTROY
(`TryToDelete`, `TryToCleanUp`), and the target of a link: the error is answered or
logged, the name or the key is gone all the same, and nobody tries again before the next
INIT. `refused` is history: the inodes left over so since the last clean-up. Other
requests wait (the loop is single-threaded), the kernel's own steps and the death of the
process (`Stop`) do not. Mounting is one action per statement of `Sqlite::init` that
touches the tree, then INIT. Crashes lose memory and keep what was committed.

The kernel is external and modelled from what the handlers rely on. `kref` counts the
entries replies gave it; `Evict` turns all references of an inode into a FORGET under
way, and `Forget` delivers any part of it. A request names a parent the kernel holds and
has not seen removed, `rename` never moves a directory below itself, `unlink` and
`rmdir` get the right type. On DESTROY and on death it has dropped its references.

`InodeLife.tla` is the abstract promise: an inode is born once with a name, gains and
loses names, is held through a name, and is freed only when it has neither. `SqliteFs`
implements it under the mapping at the end of `SqliteFs.tla` (the root, which is never
named, is left out).

`MCSqliteFs.tla` adds the symmetry of names for TLC.

`SqliteFsProofs.tla`, `SqliteFsTreeProofs.tla`, `SqliteFsOrphanProofs.tla` have the
proofs about them.

`FileData.tla` is one file: `data` maps block numbers to rows of bytes (a row may be
shorter than a block), `size` is `metadata.size`. `write` commits one block at a time, so
`Write` takes the request in, `WriteBlock` is one iteration of its loop, and `WriteFails`
an error or a death between two. Every cast to `u32` is `u32(n)`, modulo `WIDTH`, which
stands for 2^32; sums wrap as in a release build. `SetAttr` is the part of `setattr` that
sets the size, with `release_data`. `ByteFile.tla` is the promise: a sequence of bytes that
a write overlays piece by piece, from the first piece on. `FileDataProofs.tla` has the proofs.

`Handles.tla` has the operations on an entry of `open_dir_handler` or
`open_file_handler`. `OpenDir.tla` is one directory: `dentry` its names now, `handler` its
entry, `streams` what each program that reads it knows. `ReadDir` is one request: from the
offset the kernel has, `Added` says which entries the buffer takes, as `ReplyDirectory::add`
does, entry after entry until one does not fit. `Capacity` is the set of the sizes of buffer
that requests bring, in short names. `OpenDirProofs.tla` has the proofs.

`Attributes.tla` has the rows of `metadata` with size, mode and the times of modification
and of change, the entries and contents those times are about, and `xattr`. Each
transaction is an action that stamps the inodes the code stamps (`Stamped`), if the mount
records times; link gives the file an `mtime`, and a rename does not stamp the one it
replaces; `setattr`, and `setxattr` with a flag, are two, with `handler` holding what the
first one read. `seen` is history: what a program noted of one inode, after the instant of
its last change, to compare with it later, and whether it was linked or replaced since;
`grants` counts how often `XATTR_CREATE` was granted. Directories stay, files come and go,
and have a name or not. `MCAttributes.tla` adds the symmetry, `AttributesProofs.tla` has
the proofs.

`Audit.tla` is tables with their log: those of the tree together, for the files of one
directory, and `data` and `xattr` each alone. `rows` is the table, from keys to values,
`audit` the records in the order of `seq`, `now` the clock in milliseconds; `past` keeps
what the rows were when the clock came to each time. A transaction of `sqlite.rs` is a
sequence of statements that fire triggers, one a step (`Transaction`, `Continue`), so that
the clock may go on between them, which is what the log sees. A transaction has the
UPDATEs the code has: link, unlink and rename stamp the file once and the directory twice,
`write_data` the file's size and twice its times (`write_size_and_times` is its part on
`metadata`, `write_block` that on `data`), others once (`touch`); with no stamps in mounts
that record no times. An update of `data` logs a delta, which is the pair of blocks it
leads from and to. `RewoundTo(t, k)` is what `new_at_time` puts in `tmetadata`, `tdentry`,
`tdata` or `txattr` for a key, several rows when several records share the last time
stamp; `get_dentry_at_time`, `get_inode_at_time` and `lookup_at_time` are the methods that
join them; `apply_diffs` is `bdata`. `MCAudit.tla` adds the symmetry of inodes, names and
values, `AuditProofs.tla` has the proofs.

`Mount.tla` is the sequence of mounts of one database. `schema` says which statements of
each table were executed, `process` how far the present mount is: its constructor, then
mounted, serving, destroyed, or failed; `cut`, `lost` and `writers` are history. A mount at a
time reads the four logs first and fails if one is missing. INIT and DESTROY are taken again
whenever `dispatch` takes them. Of the rows it keeps the root's, whether there is any other
inode (`file`), and whether one was left over without a name. It refines nothing of `SqliteFs`, whose mount starts with the
schema there and which has one INIT and one DESTROY a mount, as the kernel sends them.

## Runs

| Run | Bounds | Shows |
|---|---|---|
| `tree` | 2 names, 4 inodes, all kinds, up to 2 references | `TypeOK`, `HeldInodesExist`, `NoOrphans`, `DotsFollowTheTree`, `NamesAreInLivingDirs`, `NamedInodesStay`, `InodeNumbersAreNotReused` |
| `live` | 2 names, 3 inodes, all kinds, up to 2 references, no symmetry, `FairSpec` | `CountsAgree`, `LifeSpec`, `UnreferencedInodesGo` |
| `file_data` | blocks of 2 bytes, 2 byte values, offsets to 3, writes of up to 4 bytes | `TypeOK`, `ReadsTheFile`, `NoBlocksBehindTheEnd`, `FileSpec` |
| `open_dir` | 3 names, one of them long, buffers for 2 or 3 short ones, 2 streams, 3 opens | `TypeOK`, `EachStreamHasItsList`, `ListingsAreComplete`, `NothingTwice` |
| `audit` | `metadata` and `dentry`: a directory, 2 files, 2 names, 2 values, 7 records; `data` and `xattr`: 2 blocks or names, 2 values, 5 records; 4 ms | `TypeOK`, `RewindMissesNothing`, `RewindIsThePast`, `RewoundEntriesHaveInodes`, `BdataIsData` |
| `mount` | all 4 tables, all 4 modes, any number of mounts | `TypeOK`, `MountsGoOn`, `WholeTablesAreLogged` |
| `attributes` | 2 directories, 2 files, 1 name in each, 1 value, sizes to 1, 2 instants | `TypeOK`, `SameChangeTimeMeansSame`, `SameModificationTimeMeansSame`, `CreateLocks`, `NoUpdateIsUndone` |
| `replaced_dirs_go` | 3 inodes | violated: finding 1 |
| `held_attributes` | 3 inodes | violated: finding 2 |
| `rewound_blocks` | 4 records, 4 ms | violated: finding 3 |
| `rewound_entries` | 4 records, 4 ms | violated: finding 4 |
| `rewind_writes` | 2 modes | violated: finding 5 |

Numbers are never reused, so `MaxIno` bounds how many inodes a whole behaviour creates,
over all its mounts: with 4, three besides the root, enough for a directory, a file
with two names and a symbolic link at once, for three generations of one name, or for
a directory that moves into another, over a third, and back. With 3 (`live`) a file can
be linked, replaced by another and unlinked while it is held. Two names per directory are
enough for a move inside one and for replacing. Two references let a FORGET give back part
of a count, and let `link` count an inode that is held already.

`LongTargets` lets `symlink` meet a target longer than a block. Linux refuses paths longer
than 4095 bytes first; a block has 4096, so the code's check can only fire on a kernel that
lets longer ones through. `tree` and `live` allow it.

In `file_data` a write of 4 bytes at an odd offset covers parts of three blocks of 2, the
middle one whole; files grow to 7 bytes, so there are holes of a whole block. `WIDTH` is
16, which no sum reaches: what holds beyond 4 GiB is not asked.

In `open_dir` three names let one go and one come on either side of the offset; a long name
between two short ones lets the buffer stop at it while the last one would still fit; three
opens let a handle be given out after another was released.

In `audit` the log of the tree starts with the record of the directory, and six more let a
file be made and a transaction with all its stamps follow (link, unlink and rename have four
statements), or two files be made and one replace the other, or one be made, unlinked and
deleted. The five records of `data` or `xattr` let a row be deleted and made again while
another changes. Four milliseconds put the statements before, at and after a rewind in any
grouping; those in which nothing is logged are left out, as they would repeat the next one. The run stops at these bounds, so it does not check deadlock.

In `attributes` a program looks before the last instant, so two are enough to tell a change at
another instant from one that shows no new time; times that programs set may be any of
them, later ones included. Two directories let a file move, have two names and replace
another one; one value of an attribute, or of what a file holds, is there or not. Programs
write one of the files and set its attributes (`Settable`); the directories and the other
file get theirs from the requests on their names.

`mount` has no bound but the sets: a mount of any mode may follow any other, and a process
may die after any statement.

`NoUpdateIsUndone` and `CreateLocks` rest on the single-threaded loop, which takes no request
while a handler is between its two transactions (`Serving`); with more threads they would
not hold.

The fairness of `FairSpec`: the loop finishes the handler it is in (weak fairness of each
second transaction, of DESTROY's loop and of the exit after it), whether the database does
what it asks or refuses, and a process that stopped is started again (weak) and does not die
before INIT every single time (strong, for each statement of the mount). The kernel drops an inode that no name leads to once its last user
closes it (weak) and gets its FORGETs in between other requests (strong: a handler at work
keeps them waiting, over and over). Nothing is assumed of requests, lookups, crashes or
errors of the database: `UnreferencedInodesGo` says that an inode without references goes or
that its deletion was tried and refused.

### Findings

1. *A replaced directory stays.* `move_dentry` removes the entry in the way
   (`delete_dentry_local`) but not the `.` and `..` rows of that directory
   (`delete_sub_dentry`, which `delete_dentry` calls). Its `.` row counts as a
   reference, so neither the handler nor any later mount deletes it. Its `..` row counts
   for the parent in the same way, which then outlives its own removal.
2. *No attributes for an unlinked open file.* `get_inode_local` joins a link count that
   is NULL for such an inode, and reading it fails: `getattr` and `setattr` answer ENOENT.
3. *A rewound block is a delta.* The update trigger of `data` logs the compressed
   delta, and `tdata` takes the last record as the contents.
4. *A renamed entry is in two places after a rewind.* The trigger logs only the new key.
5. *Reading the past changes the present.* `get_data_at_time` sets the access time in the
   live table, whose trigger adds to the log.

Seen while reading, without a run:

- A death between the two transactions of `symlink` leaves a link without a target, which
  nothing repairs (`filesystem.rs` 652, 660).
- On a database in memory no extension is loaded, so every `write_data` fails, as SQLite
  compiles the update trigger of `data`, which calls `compress` and `delta_create`, together
  with the statement (`sqlite.rs` 507, 721, 1301).
- The offset of a write is cut to 32 bits, so one at 4 GiB changes the start of the file
  (`filesystem.rs` 879; `implement.md` 116 owns up to it).
- The replies of `link`, `mkdir` and `create` have the link count of before.
- A link does not change the file's time of change: `link_dentry` stamps its `mtime` (`sqlite.rs`
  1042) where the table of `implement.md` (805) has its `ctime`; and a rename does not stamp
  the file it replaces, whose link count changes (1126). `SameChangeTimeMeansSame` excepts both.
- A death between `CREATE TABLE` and that of its `*_audit` leaves a database that no mount at
  a time opens any more, as later mounts look for the table only (`sqlite.rs` 479, 646).
- An inode whose deletion was refused stays without a name until the next INIT
  (`filesystem.rs` 297, 549).
- The reply of `setattr` has the times of before the request (`filesystem.rs` 393).
- `lookup` counts the blocks of all files, for want of a GROUP BY (`sqlite.rs` 1172, 1221).
- `write_data` and others update a row of `metadata` several times in a transaction, mostly
  within a millisecond, and `tmetadata` then has as many rows for the inode, of which the
  first is taken (488). `..` rows of directories that moved are doubled like any moved entry.
- INIT that comes again deletes unlinked inodes that are open; the kernel sends one.
- `readdir` on macOS skips a name when one before it was removed (1078). The entries of the
  handler maps are never removed, as `count` only goes up (976, 1111). `create` answers with
  handle 0 but registers none (1356).
- Times before 1970 are reported as 1970 (`db_module.rs` 121).

## Proofs

All from the assumptions on the constants that the modules name, and nothing else:
for the name space `MaxInoAssumption`, `NameAssumption`, `NewKindsAssumption`,
`MaxHoldAssumption` and `LongTargetsAssumption`, so for every set of names, every number of
inodes and every number of references.

- `SqliteFsProofs`: `CountInv` is inductive. `HeldInodesExist` and `CountsAgree` alone
  are not: a FORGET could arrive in the next mount, or the second transaction of `unlink`
  could delete what a lookup has counted. So the invariant adds that nothing is held
  outside a mount (`NoMountNoHold`), that the map is empty then (`EmptyMap`), that a key
  of the map has a count (`KeysCount`), that the inode about to be deleted is not held
  (`ReclaimedUnheld`) and that numbers to come are unused (`Fresh`). Theorems
  `TypeCorrect`, `HeldInodesExistAlways`, `CountsAlwaysAgree`.
- `SqliteFsTreeProofs`: `TreeInv` adds to it what the rows of `dentry` look like: they
  refer to rows that exist with the kind they say (`RowsRefer`), the key is unique
  (`KeyUnique`), a directory with any row has its `.` row and that leads to itself
  (`SelfRows`), the root is inode 1, is not an entry, and has its `.` row once mounted
  (`RootUnnamed`, `RootThere`). The heart is `ShapeMoveDir`: a rename that may replace
  an empty directory keeps `DotsFollowTheTree`. Theorems `DotsAlwaysFollow`,
  `NamesAlwaysInLivingDirs`.
- `SqliteFsOrphanProofs`: `RowStep` says that a step changes a row of `metadata` only to
  delete it while nothing refers to it or to create it under the next number; from it the
  action properties `NamedInodesAlwaysStay` and `InodeNumbersAreNeverReused`. `OrphanInv`
  adds that an inode with neither reference nor holder is the one the handler is about to
  delete, or one the database refused to delete (`OrphansInHand`, `OneReclaimed`); for that, removing or replacing a directory must
  not take the last reference to another inode, which is where the shape of the `.` and `..`
  rows is needed. Theorem `NoOrphansEver`. For the refinement of `InodeLife`, `LifeInv` adds
  that the inode `symlink` is at work on has its name (`LinkNamed`) and that a `..` row leads
  to a directory, so that what refers to a file is a name (`UpRows`). Every action then is
  a step of `InodeLife` for one inode (born with its name, named once more, named once less,
  renamed, held, let go, freed) or a stutter: `SqliteFsImplementsInodeLife`.

- `FileDataProofs`, from the assumptions on `BLOCK`, `WIDTH`, `Byte` and the bounds: what lies
  at or behind the end of a file must read as zeros even where there is a row
  (`ZerosBehindTheEnd`), or a file made longer would show what was cut off; so it is part of
  `FileInv`, with where the write under way stands (`AtWork`). `Pieces` is the arithmetic of
  `write`: the parts of the request follow each other without a gap or an overlap, each in
  one block, and the last one ends with the request. `WrittenBytes` and `ReleasedBytes` say
  of every byte of the file what a block written or a cut does to it; `ReadIsBytes` that the
  loop of `read`, a recursion over the bytes left, has one solution, the bytes there are.
  `RowsImplementAByteFile` maps a block written to one piece of the write and everything
  else to the beginning, the end or the change of length it is. The theorems assume that no
  file of the instance grows to `WIDTH` (`Below4GiB`; for `read`, which may start anywhere
  in the file and go on for its length, `ReadsBelow4GiB`): beyond, the code cuts offsets to 32
  bits, as `implement.md` 116 admits, and a write lands at the start of the file. Theorems
  `FileDataTypeCorrect`, `NoBlocksEverBehindTheEnd`, `ReadsAlwaysTheFile`.

- `OpenDirProofs`, from the assumptions on `DirName`, `Long`, `Capacity` and `MaxOpens`:
  `readdir` continues from an offset, which is only a number, so `OpenDirInv` says what it
  stands for: what a stream got is the first names of its handle's list, as many as its
  offset (`ListingOK`), and the list lies between the names that stayed and those that were
  seen. With that go facts about the least and the greatest of finite sets of names and
  their positions. Theorems `OpenDirTypeCorrect`, `EachStreamAlwaysHasItsList`,
  `ListingsAreAlwaysComplete`, `NothingEverTwice`, for any number of names, streams, opens
  and sizes of buffers.

- `AuditProofs`, from the assumptions on the tables, the directory and the bounds of log and
  clock:
  `HistoryOK` says of every time so far what the log has of it: the last record before it of
  a row that was there holds its value (`FoundOK`), a row that was not there has none, was
  deleted last or was moved away (`GoneOK`), and each entry has its inode (`RefersOK`), also
  between the statements of a transaction, which `TodoOK` follows: after its first
  statement a transaction adds an entry or stamps rows that are there. From it
  `RewindNeverMissesARow`, for every row; `RewindGivesThePast`, for the rows of `metadata`,
  `dentry` and `xattr` (not `data`: finding 3) that were not changed twice in a millisecond
  (`Spaced`) nor moved away (`Unmoved`: finding 4); and `RewoundEntriesAlwaysHaveInodes`,
  for the entries of that kind. Where times are recorded, a directory whose entries change
  and a file that is written are stamped two or three times by one transaction, so of
  their rows in `metadata` only the first theorem speaks. For
  `apply_diffs`, `BlocksOK` says that a block is there if and only if its last insert comes
  after its last deletion, and that then every function which patches record after record
  from that insert on ends in the row; a record more extends it by one step, so no
  induction over the log is needed but the one over the behaviour. Theorem
  `ApplyDiffsRebuildsTheBlocks`.

- `MountProofs`: `MountInv` adds what the runs do not ask: a table is whole or not there at
  all unless a process died on it or is making it, and then it has exactly what the
  statements so far made; the table comes before its log and triggers
  (`TablesWholeOrNone`); and all tables are there when rows change (`TablesFirst`). Without
  the first, a trigger could be missing from a table nobody died on. A mount at a time
  fails when it finds a log missing, no other ever does (`FailsWithoutLog`). From it
  `MountTypeCorrect`, `MountsAlwaysGoOn` and `WholeTablesAlwaysLogged`, for every set of
  modes, also when INIT and DESTROY come again (`INITKeeps`, `DESTROYKeeps`, which share
  `DeletionsAreLogged`).

- `AttributesProofs`, from `DisjointAssumption` and `SizeAndTimeAssumption`: the two
  transactions of `setattr` and `setxattr` are why the properties are not inductive, so
  `AttributesInv` adds that what `setattr` read is still the row, but for what it was asked
  to change (`SetAttrOK`), that what `setxattr` found still holds when it writes
  (`SetXattrOK`), and that an attribute granted once is there (`GrantsOK`). For the times it
  adds that no time of change lies in the future, and that what a program noted is
  unchanged or the inode has a later time by now (`SeenOK`), but for the names and the `mtime`
  of one that was linked or replaced. Then `CreateAlwaysLocks`,
  `SameChangeTimeAlwaysMeansSame`, `SameModificationTimeAlwaysMeansSame` and
  `NoUpdateIsEverUndone`, for any directories, files, names, values, sizes and instants.

Only model-checked: liveness (`UnreferencedInodesGo` under `FairSpec`), which is out of the
prover's reach, and the findings, which are counterexamples. All other properties that the
runs check are theorems.

## Not modelled

- Access times; owners and flags, which are stored the way the mode is; link and block
  counts in replies. The clock of `Audit` does not go back, that of `Attributes` neither, and
  time zones and SQLite's `'utc'` modifier are left out.
- That `new_at_time` copies the four logs one after the other: nothing else writes then,
  unless another process has the database mounted.
- The database in memory; the `readdir` of macOS and NetBSD, which is not compiled for Linux.
- Other replies (`reply.rs`): that each request is answered once rests on Rust ownership.
- The protocol's structures (`kernel.rs`), the C extensions (third-party pure functions),
  option parsing (`main.rs`), error conversions (`sqerror.rs`).
- SQLite itself: transactions are atomic and, once committed, survive a crash. With
  synchronous mode `OFF` and a power failure they need not.
- Two processes that mount one database at the same time.
