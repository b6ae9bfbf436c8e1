---- MODULE OpenDir ----
(***************************************************************************)
(* Listing a directory while it changes: opendir, readdir and releasedir   *)
(* of src/src/filesystem.rs, with the readdir of Linux.  A listing takes   *)
(* as many readdir requests as its names need buffers; each goes on at the *)
(* offset of the last entry the kernel got, an index into the names in     *)
(* their order.                                                            *)
(*                                                                         *)
(* Names are numbers in the order of the collation, "." and ".." among     *)
(* them.  The programs that read the directory are the environment.        *)
(***************************************************************************)
EXTENDS Handles, FiniteSets

CONSTANTS
    DirName,    \* the names the directory may hold, numbers
    Long,       \* the long ones of them
    Stream,     \* the directory streams programs have
    Capacity,   \* the buffers of readdir, in short entries
    MaxOpens    \* bound: how often the directory is opened

ASSUME DirNameAssumption == DirName \subseteq Int /\ IsFiniteSet(DirName)
ASSUME LongAssumption == Long \subseteq DirName
\* Whatever size a buffer has, it takes one entry.
ASSUME CapacityAssumption == Capacity \subseteq Int /\ \A c \in Capacity : c >= 2
ASSUME MaxOpensAssumption == MaxOpens \in Nat

VARIABLES
    dentry,     \* the names in the directory now
    handler,    \* the entry of the directory in open_dir_handler
    streams     \* stream -> Closed, or how far the program is with its listing

vars == <<dentry, handler, streams>>

Closed == [open |-> FALSE]

\* fh and offset are what the kernel knows; got is what the program was told since
\* the listing began and ended whether it was told there is no more.  stayed and seen
\* are history: the names there all the time, and at any time, since opendir.
Position == [open : {TRUE}, fh : Nat, offset : Nat, ended : BOOLEAN,
             got : SUBSET DirName, stayed : SUBSET DirName, seen : SUBSET DirName]

IsOpen(s) == streams[s].open

Init ==
    /\ dentry \in SUBSET DirName
    /\ handler = NoHandler
    /\ streams = [s \in Stream |-> Closed]

\* The place of a name in its directory, the first being 1 (ORDER BY name)
Index(n, names) == Cardinality({m \in names : m <= n})

---------------------------------------------------------------------------
(* Requests *)

\* opendir: the names of this moment (get_dentry) are kept for the handle
OpenDir(s) ==
    /\ ~IsOpen(s)
    /\ handler.count < MaxOpens
    /\ handler' = Opened(handler, dentry)
    /\ streams' = [streams EXCEPT ![s] =
                     [open |-> TRUE, fh |-> NextHandle(handler), offset |-> 0, ended |-> FALSE,
                      got |-> {}, stayed |-> dentry, seen |-> dentry]]
    /\ UNCHANGED dentry

\* Mutant: entries carry their own index instead of that of the next one
OffsetOfEntry(last) == IF last = 0 THEN 0 ELSE last - 1

\* The offset that readdir gives the kernel with the last entry of its answer
OffsetAfter(last) == last

\* The place that an entry takes in a buffer (bound: of two sizes)
entsize(n) == IF n \in Long THEN 2 ELSE 1

\* Mutant: an entry that does not fit is left out and a later one that fits is added
AddedThatFit(rest, capacity) ==
    {n \in rest : entsize(n) + Cardinality({m \in rest : m < n /\ entsize(m) = 1}) <= capacity}

\* ReplyDirectory::add, entry after entry until one says that the buffer is full
Added(rest, capacity) ==
    {n \in rest :
        LET upto == {m \in rest : m <= n}
        IN  Cardinality(upto) + Cardinality(upto \cap Long) <= capacity}

\* readdir: from the offset on, as many entries as the buffer takes.  To the kernel an
\* empty answer is the end of the listing.
ReadDir(s) ==
    /\ IsOpen(s)
    /\ streams[s].fh \in DOMAIN handler.list
    /\ \E capacity \in Capacity :
        LET entries == handler.list[streams[s].fh]
            rest == {n \in entries : Index(n, entries) > streams[s].offset}
            added == Added(rest, capacity)
            last == CHOOSE n \in added : \A m \in added : m <= n
        IN  streams' =
                IF added = {} THEN [streams EXCEPT ![s].ended = TRUE]
                ELSE [streams EXCEPT ![s].offset = OffsetAfter(Index(last, entries)),
                                     ![s].got = @ \cup added,
                                     ![s].ended = FALSE]
    /\ UNCHANGED <<dentry, handler>>

\* rewinddir: no request, the kernel starts again at offset 0
Rewind(s) ==
    /\ IsOpen(s)
    /\ streams' = [streams EXCEPT ![s].offset = 0, ![s].got = {}, ![s].ended = FALSE]
    /\ UNCHANGED <<dentry, handler>>

ReleaseDir(s) ==
    /\ IsOpen(s)
    /\ handler' = Released(handler, streams[s].fh)
    /\ streams' = [streams EXCEPT ![s] = Closed]
    /\ UNCHANGED dentry

\* Other requests put names into the directory and take them away
Seen(names) ==
    [s \in Stream |->
        IF IsOpen(s)
        THEN [streams[s] EXCEPT !.stayed = @ \cap names, !.seen = @ \cup names]
        ELSE Closed]

Change(n) ==
    /\ \/ n \notin dentry /\ dentry' = dentry \cup {n}
       \/ n \in dentry /\ dentry' = dentry \ {n}
    /\ streams' = Seen(dentry')
    /\ UNCHANGED handler

Next ==
    \/ \E s \in Stream : OpenDir(s) \/ ReadDir(s) \/ Rewind(s) \/ ReleaseDir(s)
    \/ \E n \in DirName : Change(n)

Spec == Init /\ [][Next]_vars

---------------------------------------------------------------------------
(* Properties *)

\* Handles count up from 0; a list is kept for some of those given out.
TypeOK ==
    /\ dentry \subseteq DirName
    /\ handler.count \in 0 .. MaxOpens
    /\ DOMAIN handler.list \subseteq 0 .. handler.count - 1
    /\ \A fh \in DOMAIN handler.list : handler.list[fh] \subseteq DirName
    /\ \A s \in Stream : streams[s] \in Position \cup {Closed}

\* In whatever order streams are opened and closed, each has a handle and a list of
\* its own, and no list stays when its stream is closed (filesystem.rs 1005-1008,
\* 1109-1114).
EachStreamHasItsList ==
    /\ DOMAIN handler.list = {streams[s].fh : s \in {t \in Stream : IsOpen(t)}}
    /\ \A s, t \in Stream :
        s # t /\ IsOpen(s) /\ IsOpen(t) => streams[s].fh # streams[t].fh

\* What the documentation asks of readdir (implement.md 1917): a listing read to its
\* end has every name that was neither added nor removed meanwhile, whatever else
\* was, and none that never was there.
ListingsAreComplete ==
    \A s \in Stream : IsOpen(s) =>
        /\ streams[s].ended => streams[s].stayed \subseteq streams[s].got
        /\ streams[s].got \subseteq streams[s].seen

\* A listing has no name twice: the offset counts the different names it has given
\* (filesystem.rs 1041-1044).
NothingTwice ==
    \A s \in Stream : IsOpen(s) => Cardinality(streams[s].got) = streams[s].offset
====
