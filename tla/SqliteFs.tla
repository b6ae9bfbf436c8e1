---- MODULE SqliteFs ----
(***************************************************************************)
(* The life of inodes in a mounted file system: the request handlers of    *)
(* src/src/filesystem.rs that create, name, look up, forget and remove     *)
(* inodes, the kernel that sends the requests, and what happens when the   *)
(* process dies between two transactions.                                  *)
(*                                                                         *)
(* The session loop takes one request at a time and runs its handler to    *)
(* the end, so a handler that commits one transaction is one action.  One  *)
(* that commits two (unlink, rmdir, rename, symlink, and the loop of       *)
(* destroy) is one action per transaction, and `handler' says what is left *)
(* to do: the process may die in between, the kernel may go on.            *)
(*                                                                         *)
(* The kernel (fuse driver and VFS) is modelled from how the handlers rely *)
(* on it.  It counts in `kref' every entry a reply gave it, and gives the  *)
(* count back with FORGET requests that it delivers any time later, in any *)
(* order with other requests, whole or in parts.                           *)
(***************************************************************************)
EXTENDS Store

CONSTANTS
    NewKinds,   \* bound: the kinds of inode that requests create
    MaxHold,    \* bound: how many references to one inode the kernel takes
    LongTargets \* whether the kernel passes on link targets longer than a block

ASSUME NewKindsAssumption == NewKinds \subseteq Kind
ASSUME LongTargetsAssumption == LongTargets \in BOOLEAN
ASSUME MaxHoldAssumption == MaxHold \in Nat \ {0}

VARIABLES
    session,        \* the phase of the process
    handler,        \* what the request being served still has to do
    lookup_count,   \* SqliteFs.lookup_count, a HashMap<u32, u32>
    kref,           \* external: the kernel's count of references to each inode
    forgets,        \* external: references in FORGET requests under way
    refused         \* history: what the database refused to delete since the last clean-up

memory == <<session, handler, lookup_count>>
kernel == <<kref, forgets>>
vars == <<store, memory, kernel, refused>>

Session == {"down", "init_root", "init_dot", "init_dotdot", "fuse_init",
            "mounted", "destroy"}

None == [op |-> "none", inos |-> {}]

TypeOK ==
    /\ StoreTypeOK
    /\ session \in Session
    /\ handler \in [op : {"none", "reclaim", "symlink", "destroy"}, inos : SUBSET Ino]
    /\ DOMAIN lookup_count \subseteq Ino
    /\ \A i \in DOMAIN lookup_count : lookup_count[i] \in Nat
    /\ kref \in [Ino -> Nat]
    /\ forgets \in [Ino -> Nat]
    /\ refused \subseteq Ino

NoCount == [i \in {} |-> 0]
NoRefs == [i \in Ino |-> 0]

Init ==
    /\ EmptyStore
    /\ session = "down"
    /\ handler = None
    /\ lookup_count = NoCount
    /\ kref = NoRefs
    /\ forgets = NoRefs
    /\ refused = {}

---------------------------------------------------------------------------
(* The map of lookup counts *)

CountOf(i) == IF i \in DOMAIN lookup_count THEN lookup_count[i] ELSE 0

\* lc_list.entry(i).or_insert(0), then + 1
Counted(i) == [j \in DOMAIN lookup_count \cup {i} |->
                  CountOf(j) + (IF j = i THEN 1 ELSE 0)]

\* Mutant: a count that reached 0 stays in the map
KeepZero(i, c) == [j \in DOMAIN lookup_count \cup {i} |-> IF j = i THEN c ELSE lookup_count[j]]

SetCount(i, c) ==
    IF c = 0
    THEN [j \in DOMAIN lookup_count \ {i} |-> lookup_count[j]]
    ELSE [j \in DOMAIN lookup_count \cup {i} |-> IF j = i THEN c ELSE lookup_count[j]]

---------------------------------------------------------------------------
(* Deletions: each has a transaction of its own, after the one that took   *)
(* the name away.  An error of the database there (a full disk, a lock) is *)
(* answered or logged, and nobody tries again before the next INIT.        *)

Orphans == {i \in Ino : Exists(i) /\ ~Referenced(i)}

TryToDelete(i) ==
    \/ delete_inode_if_noref(i) /\ UNCHANGED refused
    \/ refused' = refused \cup (Orphans \cap {i}) /\ UNCHANGED store

TryToCleanUp ==
    \/ delete_all_noref_inode /\ refused' = {}
    \/ refused' = Orphans /\ UNCHANGED store

---------------------------------------------------------------------------
(* What the kernel lets through *)

Serving == session = "mounted" /\ handler = None

\* A request names a directory the kernel has looked up and not seen removed
Parent(p) ==
    /\ Serving
    /\ p = ROOT \/ (kref[p] > 0 /\ HasName(p))
    /\ metadata[p] = "dir"

\* the directory p and those above it, going up by name
ParentsOf(S) == {d.parent : d \in {e \in dentry : e.child \in S /\ e.name \in Name}}
Above(p) ==
    LET up[k \in 0 .. MaxIno] ==
            IF k = 0 THEN {p} ELSE LET S == up[k - 1] IN S \cup ParentsOf(S)
    IN up[MaxIno]

\* A reply with an entry for i: the handler counts it and so does the kernel
ReplyEntry(i) ==
    /\ kref[i] + forgets[i] < MaxHold
    /\ lookup_count' = Counted(i)
    /\ kref' = [kref EXCEPT ![i] = @ + 1]
    /\ UNCHANGED forgets

---------------------------------------------------------------------------
(* Request handlers *)

Lookup(p, n) ==
    /\ Parent(p)
    /\ \E d \in Entry(p, n) : Exists(d.child) /\ ReplyEntry(d.child)
    /\ UNCHANGED <<store, session, handler, refused>>

Forget(i, n) ==
    /\ Serving
    /\ n \in 1 .. forgets[i]
    /\ forgets' = [forgets EXCEPT ![i] = @ - n]
    /\ lookup_count' = SetCount(i, CountOf(i) - n)
    /\ IF CountOf(i) = n THEN TryToDelete(i) ELSE UNCHANGED <<store, refused>>
    /\ UNCHANGED <<session, handler, kref>>

Mkdir(p, n) ==
    /\ Parent(p) /\ HasAttributes(p)
    /\ "dir" \in NewKinds
    /\ \E i \in Ino : add_inode_and_dentry(p, n, "dir", i) /\ ReplyEntry(i)
    /\ UNCHANGED <<session, handler, refused>>

Create(p, n) ==
    /\ Parent(p)
    /\ \/ /\ HasAttributes(p)
          /\ "file" \in NewKinds
          /\ \E i \in Ino : add_inode_and_dentry(p, n, "file", i) /\ ReplyEntry(i)
       \/ \* the entry was there already: this is an open, of whatever it is
          /\ \E d \in Entry(p, n) : Exists(d.child) /\ ReplyEntry(d.child)
          /\ UNCHANGED store
    /\ UNCHANGED <<session, handler, refused>>

\* The name and the inode are committed before the length of the target is
\* looked at: a target longer than a block is refused with both left behind
Symlink(p, n) ==
    /\ Parent(p)
    /\ "symlink" \in NewKinds
    /\ \E i \in Ino, toolong \in {FALSE, LongTargets} :
          /\ add_inode_and_dentry(p, n, "symlink", i)
          /\ handler' = IF toolong THEN None ELSE [op |-> "symlink", inos |-> {i}]
    /\ UNCHANGED <<session, lookup_count, kernel, refused>>

SymlinkData ==
    /\ session = "mounted" /\ handler.op = "symlink"
    /\ \/ \E i \in handler.inos : write_link_data(i) /\ ReplyEntry(i)
       \/ UNCHANGED <<store, lookup_count, kernel>>    \* an error: the link stays as it is
    /\ handler' = None
    /\ UNCHANGED <<session, refused>>

\* Mutant: the reply of link is not counted
LinkUncounted(i, p, n) ==
    /\ Parent(p)
    /\ kref[i] > 0 /\ kref[i] + forgets[i] < MaxHold
    /\ link_dentry(i, p, n)
    /\ kref' = [kref EXCEPT ![i] = @ + 1]
    /\ UNCHANGED <<memory, forgets, refused>>

Link(i, p, n) ==
    /\ Parent(p)
    /\ kref[i] > 0                      \* kernel: the file it links is in use
    /\ link_dentry(i, p, n)
    /\ ReplyEntry(i)
    /\ UNCHANGED <<session, handler, refused>>

\* Mutant: the last name takes the inode along, held or not
ReclaimAlways(S) == IF S = {} THEN None ELSE [op |-> "reclaim", inos |-> S]

\* After its transaction a handler that took a name away from the inode in S
\* goes on to delete it, unless the kernel still holds it
Reclaim(S) ==
    LET free == S \ DOMAIN lookup_count
    IN IF free = {} THEN None ELSE [op |-> "reclaim", inos |-> free]

Unlink(p, n) ==
    /\ Parent(p)
    /\ \E d \in Entry(p, n) :
          /\ metadata[d.child] # "dir"      \* kernel: EISDIR
          /\ delete_dentry(p, n, d.child)
          /\ handler' = Reclaim({d.child})
    /\ UNCHANGED <<session, lookup_count, kernel, refused>>

\* Mutant: rmdir does not look whether the directory is empty
RmdirAny(p, n) ==
    /\ Parent(p)
    /\ \E d \in Entry(p, n) :
          /\ metadata[d.child] = "dir"
          /\ delete_dentry(p, n, d.child)
          /\ handler' = Reclaim({d.child})
    /\ UNCHANGED <<session, lookup_count, kernel, refused>>

Rmdir(p, n) ==
    /\ Parent(p)
    /\ \E d \in Entry(p, n) :
          /\ metadata[d.child] = "dir"      \* kernel: ENOTDIR
          /\ check_directory_is_empty(d.child)
          /\ delete_dentry(p, n, d.child)
          /\ handler' = Reclaim({d.child})
    /\ UNCHANGED <<session, lookup_count, kernel, refused>>

Rename(p, n, q, m) ==
    /\ Parent(p) /\ Parent(q)
    /\ \E d \in Entry(p, n) :
          /\ d.child \notin Above(q)        \* kernel: not into its own subtree
          /\ \A e \in Entry(q, m) : e.child # d.child   \* kernel: nothing to do
          /\ move_dentry(d, q, m)
          /\ handler' = Reclaim({e.child : e \in Entry(q, m)})
    /\ UNCHANGED <<session, lookup_count, kernel, refused>>

\* the second transaction of unlink, rmdir and rename, which answer its error with ENOENT
FinishReclaim ==
    /\ session = "mounted" /\ handler.op = "reclaim"
    /\ \E i \in handler.inos : TryToDelete(i)
    /\ handler' = None
    /\ UNCHANGED <<session, lookup_count, kernel>>

---------------------------------------------------------------------------
(* Mount, unmount, and death of the process *)

Advance(from, to) == session = from /\ session' = to

Start ==
    /\ Advance("down", "init_root")
    /\ UNCHANGED <<store, handler, lookup_count, kernel, refused>>

InitRoot ==
    /\ Advance("init_root", "init_dot")
    /\ init_root
    /\ UNCHANGED <<handler, lookup_count, kernel, refused>>

InitDot ==
    /\ Advance("init_dot", "init_dotdot")
    /\ init_dot(".")
    /\ UNCHANGED <<handler, lookup_count, kernel, refused>>

InitDotDot ==
    /\ Advance("init_dotdot", "fuse_init")
    /\ init_dot("..")
    /\ UNCHANGED <<handler, lookup_count, kernel, refused>>

\* the handler of the INIT request
FuseInit ==
    /\ Advance("fuse_init", "mounted")
    /\ TryToCleanUp
    /\ UNCHANGED <<handler, lookup_count, kernel>>

\* the handler of DESTROY runs through the keys of the map, in any order;
\* the kernel has dropped its references by then
Destroy ==
    /\ Serving
    /\ session' = "destroy"
    /\ handler' = [op |-> "destroy", inos |-> DOMAIN lookup_count]
    /\ kref' = NoRefs
    /\ forgets' = NoRefs
    /\ UNCHANGED <<store, lookup_count, refused>>

DestroyOne(i) ==
    /\ session = "destroy" /\ i \in handler.inos
    /\ TryToDelete(i)
    /\ handler' = [handler EXCEPT !.inos = @ \ {i}]
    /\ UNCHANGED <<session, lookup_count, kernel>>

\* The process is gone: after DESTROY, by a crash, or by an unmount without
\* DESTROY (the kernel sends that request for block devices only).  Committed
\* transactions stay
Stop ==
    /\ session # "down"
    /\ session' = "down"
    /\ handler' = None
    /\ lookup_count' = NoCount
    /\ kref' = NoRefs
    /\ forgets' = NoRefs
    /\ UNCHANGED <<store, refused>>

\* external: the kernel drops an inode from its caches
Evict(i) ==
    /\ session = "mounted" /\ kref[i] > 0
    /\ kref' = [kref EXCEPT ![i] = 0]
    /\ forgets' = [forgets EXCEPT ![i] = @ + kref[i]]
    /\ UNCHANGED <<store, memory, refused>>

Request ==
    \/ \E p \in Ino, n \in Name : \/ Lookup(p, n) \/ Mkdir(p, n) \/ Create(p, n)
                                  \/ Symlink(p, n) \/ Unlink(p, n) \/ Rmdir(p, n)
    \/ \E p, q \in Ino, n, m \in Name : Rename(p, n, q, m)
    \/ \E i, p \in Ino, n \in Name : Link(i, p, n)
    \/ \E i \in Ino : \E n \in 1 .. forgets[i] : Forget(i, n)

Next ==
    \/ Request
    \/ SymlinkData \/ FinishReclaim
    \/ Start \/ InitRoot \/ InitDot \/ InitDotDot \/ FuseInit
    \/ Destroy \/ \E i \in Ino : DestroyOne(i)
    \/ Stop
    \/ \E i \in Ino : Evict(i)

Spec == Init /\ [][Next]_vars

---------------------------------------------------------------------------
(* Fairness.  The loop finishes the handler it is in, whether the database  *)
(* does what it asks or refuses, and takes the next request; the kernel    *)
(* drops the inodes no name leads to once their last user closes them, and *)
(* hands out FORGET requests in between others (SF: the loop is not always *)
(* free to take one).  A process that stopped is started again, and not    *)
(* every start dies before INIT (SF).                                      *)

Fairness ==
    /\ WF_vars(SymlinkData) /\ WF_vars(FinishReclaim)
    /\ WF_vars(\E i \in Ino : DestroyOne(i))
    /\ WF_vars(session = "destroy" /\ Stop)
    /\ WF_vars(Start)
    /\ SF_vars(InitRoot) /\ SF_vars(InitDot) /\ SF_vars(InitDotDot) /\ SF_vars(FuseInit)
    /\ \A i \in Ino : /\ WF_vars(~HasName(i) /\ Evict(i))
                      /\ SF_vars(\E n \in 1 .. forgets[i] : Forget(i, n))

FairSpec == Spec /\ Fairness

---------------------------------------------------------------------------
(* Properties *)

Held(i) == kref[i] + forgets[i] > 0

\* An inode the kernel may still use is in the database, names or not: unlink,
\* rmdir and rename leave it to the last FORGET (filesystem.rs 534-614, 716-727)
HeldInodesExist == \A i \in Ino : Held(i) => Exists(i)

\* The map agrees with what the kernel holds and has yet to give back, so the
\* u32 that forget subtracts from cannot wrap (filesystem.rs 285-300)
CountsAgree ==
    session = "mounted" =>
        \A i \in Ino : CountOf(i) = kref[i] + forgets[i]

\* Between requests every inode row is of use to someone, some row of dentry
\* refers to it or the kernel holds it, or the database refused to delete it: then
\* an unlink, rmdir, rename or FORGET of this mount tried, or its INIT.  What a dead
\* process left behind went with that INIT (filesystem.rs 210-300, 534-731)
NoOrphans ==
    Serving => \A i \in Ino : Exists(i) => Referenced(i) \/ Held(i) \/ i \in refused

\* A directory with a name has one name only, and its "." and ".." rows lead to
\* itself and to the directory it is named in, wherever rename moved it
\* (sqlite.rs 1128-1131)
DotsFollowTheTree ==
    \A d \in dentry : d.ftype = "dir" /\ d.name \in Name =>
        /\ Entry(d.child, ".") = {Row(d.child, d.child, "dir", ".")}
        /\ Entry(d.child, "..") = {Row(d.child, d.parent, "dir", "..")}
        /\ \A e \in dentry : e.child = d.child /\ e.name \in Name => e = d

\* No name is left in a directory that is gone or has no name itself: rmdir and
\* a rename over a directory both look whether it is empty (sqlite.rs 1116-1125)
NamesAreInLivingDirs ==
    \A d \in dentry : d.name \in Name =>
        /\ metadata[d.parent] = "dir"
        /\ d.parent = ROOT \/ HasName(d.parent)

\* No step deletes an inode while a directory names it: the cascade on dentry
\* would take the name along without a word (sqlite.rs 961-975, 636)
NamedInodesStay ==
    [][\A i \in Ino : HasName(i) => metadata'[i] = metadata[i]]_vars

\* A number once given to an inode is not given to another one: FORGET, file
\* handles and the kernel's caches know inodes by number alone, generation 0
\* (sqlite.rs 537, filesystem.rs 241)
InodeNumbersAreNotReused ==
    [][\A i \in Ino : i < next_ino /\ ~Exists(i) => ~Exists(i)']_vars

\* An inode without references does not stay for ever, however the kernel, the
\* FORGETs and the deaths of the process fall: it goes, or the database is asked to
\* delete it and refuses (filesystem.rs 210-300, 534-731)
UnreferencedInodesGo ==
    \A i \in Ino \ {ROOT} :
        (Exists(i) /\ ~Referenced(i)) ~> (~Exists(i) \/ i \in refused)

\* The tables, the counts and the handlers keep the promise of InodeLife: an
\* inode lives as long as it has a name or the kernel holds it, through every
\* interleaving and crash (filesystem.rs 210-300, 534-780)
NamesOf(i) ==
    {<<d.parent, d.name>> : d \in {e \in dentry : e.child = i /\ e.name \in Name}}

Life == INSTANCE InodeLife WITH
    Node <- Ino \ {ROOT},
    Place <- Ino \X Name,
    born <- {i \in Ino \ {ROOT} : i < next_ino},
    alive <- {i \in Ino \ {ROOT} : Exists(i)},
    names <- [i \in Ino \ {ROOT} |-> NamesOf(i)],
    held <- {i \in Ino \ {ROOT} : Held(i)}

LifeSpec == Life!Spec


\* What the interface and the documentation say of an inode the kernel holds:
\* its metadata is found (db_module.rs 11-12), and a process that had the file
\* open when it was unlinked goes on using it (implement.md 954-957)
HeldInodesHaveAttributes ==
    Serving => \A i \in Ino : Held(i) => HasAttributes(i)
====
