---- MODULE SqliteFsProofs ----
(***************************************************************************)
(* Proofs about SqliteFs, for every set of names and every bound.          *)
(***************************************************************************)
EXTENDS SqliteFs, TLAPS

(***************************************************************************)
(* The inductive invariant behind the counts.  CountsAgree says what a     *)
(* FORGET leaves behind only while mounted, so the invariant adds that     *)
(* nothing is held outside a mount, and that the second transaction of     *)
(* unlink, rmdir and rename is about an inode nobody holds.                *)
(***************************************************************************)
NoMountNoHold == session # "mounted" => \A i \in Ino : kref[i] = 0 /\ forgets[i] = 0

ReclaimedUnheld ==
    handler.op = "reclaim" => \A i \in handler.inos : kref[i] = 0 /\ forgets[i] = 0

EmptyMap == session \notin {"mounted", "destroy"} => DOMAIN lookup_count = {}

\* a key of the map has a count: forget takes the others out
KeysCount == \A i \in DOMAIN lookup_count : lookup_count[i] > 0

\* the numbers not handed out yet name no row
Fresh == \A i \in Ino : i >= next_ino => ~Exists(i)

CountInv ==
    /\ TypeOK
    /\ HeldInodesExist
    /\ CountsAgree
    /\ NoMountNoHold
    /\ EmptyMap
    /\ KeysCount
    /\ ReclaimedUnheld
    /\ Fresh

---------------------------------------------------------------------------
(* What the transactions do to the rows of metadata *)

LEMMA RootIsIno == ROOT \in Ino
  BY MaxInoAssumption DEF ROOT, Ino

\* Deleting rows leaves a well-formed store, and touches no other inode
LEMMA DeleteRowsFacts ==
  ASSUME StoreTypeOK, NEW S \in SUBSET Ino, DeleteRows(S)
  PROVE  /\ StoreTypeOK'
         /\ \A i \in Ino \ S : metadata'[i] = metadata[i]
         /\ \A i \in S : metadata'[i] = "none"
         /\ next_ino' = next_ino
  BY DEF StoreTypeOK, DeleteRows

\* A new row takes the next number and a kind, and touches no other inode
LEMMA AddFacts ==
  ASSUME StoreTypeOK, NEW p \in Ino, NEW n \in Name, NEW k \in Kind, NEW i \in Ino,
         add_inode_and_dentry(p, n, k, i)
  PROVE  /\ StoreTypeOK'
         /\ i = next_ino /\ next_ino' = next_ino + 1
         /\ metadata'[i] = k
         /\ \A j \in Ino \ {i} : metadata'[j] = metadata[j]
  <1>1. i = next_ino /\ next_ino' = next_ino + 1
    BY DEF add_inode_and_dentry, AllocIno
  <1>2. next_ino' \in 1 .. MaxIno + 1
    BY <1>1, MaxInoAssumption DEF Ino
  <1>3. metadata' \in [Ino -> Kind \cup {"none"}]
    BY DEF add_inode_and_dentry, StoreTypeOK
  <1>4. {Row(p, i, k, n)} \cup DotRows(i, p) \subseteq DEntry
    BY DEF Row, DotRows, DEntry, DentryName, Kind
  <1>5. dentry' \subseteq DEntry
    BY <1>4 DEF add_inode_and_dentry, StoreTypeOK
  <1>6. linkdata' \subseteq Ino
    BY DEF add_inode_and_dentry, StoreTypeOK
  <1>7. metadata'[i] = k /\ \A j \in Ino \ {i} : metadata'[j] = metadata[j]
    BY DEF add_inode_and_dentry, StoreTypeOK
  <1> QED
    BY <1>1, <1>2, <1>3, <1>5, <1>6, <1>7 DEF StoreTypeOK

\* Moving an entry leaves rows of the table's type
LEMMA MoveFacts ==
  ASSUME StoreTypeOK, NEW d \in dentry, NEW q \in Ino, NEW m \in Name, move_dentry(d, q, m)
  PROVE  StoreTypeOK' /\ metadata' = metadata /\ next_ino' = next_ino
  <1> DEFINE moved == Row(q, d.child, d.ftype, m)
             rows == (dentry \ (Entry(q, m) \cup {d})) \cup {moved}
  <1>1. moved \in DEntry
    BY DEF StoreTypeOK, DEntry, DentryName, Row
  <1>2. rows \subseteq DEntry
    BY <1>1 DEF StoreTypeOK
  <1>3. \A e \in rows : Row(e.parent, q, e.ftype, "..") \in DEntry
    BY <1>2 DEF DEntry, Row, DentryName
  <1> HIDE DEF rows
  <1>4. MoveDotDot(d, q, rows) \subseteq DEntry
    BY <1>2, <1>3 DEF MoveDotDot
  <1>5. dentry' = MoveDotDot(d, q, rows)
    BY DEF move_dentry, rows
  <1> QED
    BY <1>4, <1>5 DEF move_dentry, StoreTypeOK

LEMMA LinkFacts ==
  ASSUME StoreTypeOK, NEW i \in Ino, NEW p \in Ino, NEW n \in Name, link_dentry(i, p, n)
  PROVE  StoreTypeOK' /\ metadata' = metadata /\ next_ino' = next_ino
  <1>1. Row(p, i, "file", n) \in DEntry
    BY DEF Row, DEntry, DentryName, Kind
  <1> QED
    BY <1>1 DEF link_dentry, StoreTypeOK

\* Removing an entry changes no inode
LEMMA DeleteDentryFacts ==
  ASSUME StoreTypeOK, NEW p \in Ino, NEW n \in Name, NEW i \in Ino, delete_dentry(p, n, i)
  PROVE  StoreTypeOK' /\ metadata' = metadata /\ next_ino' = next_ino
  BY DEF delete_dentry, StoreTypeOK, Entry

\* delete_inode_if_noref deletes at most the one row
LEMMA DeleteInodeFacts ==
  ASSUME StoreTypeOK, NEW i \in Ino, delete_inode_if_noref(i)
  PROVE  /\ StoreTypeOK'
         /\ \A j \in Ino \ {i} : metadata'[j] = metadata[j]
         /\ \A j \in Ino : metadata'[j] \in {metadata[j], "none"}
         /\ next_ino' = next_ino
  <1> DEFINE S == {i} \ {j \in Ino : Referenced(j)}
  <1>1. S \in SUBSET Ino /\ S \subseteq {i} /\ DeleteRows(S)
    BY DEF delete_inode_if_noref
  <1> HIDE DEF S
  <1> QED
    BY <1>1, DeleteRowsFacts

\* An attempt to delete an inode deletes at most the one row, or nothing
LEMMA TryToDeleteFacts ==
  ASSUME TypeOK, NEW i \in Ino, TryToDelete(i)
  PROVE  /\ StoreTypeOK'
         /\ \A j \in Ino \ {i} : metadata'[j] = metadata[j]
         /\ \A j \in Ino : metadata'[j] \in {metadata[j], "none"}
         /\ next_ino' = next_ino
         /\ refused' \subseteq Ino
  <1>1. CASE delete_inode_if_noref(i) /\ UNCHANGED refused
    BY <1>1, DeleteInodeFacts DEF TypeOK
  <1>2. CASE refused' = refused \cup (Orphans \cap {i}) /\ UNCHANGED store
    BY <1>2 DEF TypeOK, StoreTypeOK, store
  <1> QED
    BY <1>1, <1>2 DEF TryToDelete

\* The clean-up at INIT only deletes rows, or nothing
LEMMA TryToCleanUpFacts ==
  ASSUME TypeOK, TryToCleanUp
  PROVE  /\ StoreTypeOK'
         /\ \A j \in Ino : metadata'[j] \in {metadata[j], "none"}
         /\ next_ino' = next_ino
         /\ refused' \subseteq Ino
  <1>1. CASE delete_all_noref_inode /\ refused' = {}
    <2> DEFINE S == {i \in Ino : Exists(i) /\ ~Referenced(i)}
    <2>1. S \in SUBSET Ino /\ DeleteRows(S)
      BY <1>1 DEF delete_all_noref_inode
    <2> HIDE DEF S
    <2> QED
      BY <1>1, <2>1, DeleteRowsFacts DEF TypeOK
  <1>2. CASE refused' = Orphans /\ UNCHANGED store
    BY <1>2 DEF TypeOK, StoreTypeOK, store, Orphans
  <1> QED
    BY <1>1, <1>2 DEF TryToCleanUp

---------------------------------------------------------------------------
(* What the counters do *)

\* A reply with an entry adds one to the map and one to the kernel's count
LEMMA ReplyFacts ==
  ASSUME TypeOK, NEW i \in Ino, ReplyEntry(i)
  PROVE  /\ DOMAIN lookup_count' \subseteq Ino
         /\ \A j \in DOMAIN lookup_count' : lookup_count'[j] \in Nat
         /\ KeysCount => KeysCount'
         /\ kref' \in [Ino -> Nat] /\ forgets' \in [Ino -> Nat]
         /\ \A j \in Ino : CountOf(j)' = CountOf(j) + (IF j = i THEN 1 ELSE 0)
         /\ \A j \in Ino : kref'[j] = kref[j] + (IF j = i THEN 1 ELSE 0)
         /\ forgets' = forgets
  BY DEF TypeOK, ReplyEntry, Counted, CountOf, KeysCount

\* Setting a count to c, 0 taking the key away, changes that count only
LEMMA SetCountFacts ==
  ASSUME TypeOK, NEW i \in Ino, NEW c \in Nat, lookup_count' = SetCount(i, c)
  PROVE  /\ DOMAIN lookup_count' \subseteq Ino
         /\ \A j \in DOMAIN lookup_count' : lookup_count'[j] \in Nat
         /\ KeysCount => KeysCount'
         /\ \A j \in Ino : CountOf(j)' = IF j = i THEN c ELSE CountOf(j)
  <1>1. CASE c = 0
    BY <1>1 DEF TypeOK, SetCount, CountOf, KeysCount
  <1>2. CASE c # 0
    BY <1>2 DEF TypeOK, SetCount, CountOf, KeysCount
  <1> QED
    BY <1>1, <1>2

LEMMA CountOfNat == ASSUME TypeOK, NEW i \in Ino PROVE CountOf(i) \in Nat
  BY DEF TypeOK, CountOf

---------------------------------------------------------------------------
(* CountInv is inductive *)

LEMMA CountInit == Init => CountInv
  <1> SUFFICES ASSUME Init PROVE CountInv
    OBVIOUS
  <1>1. StoreTypeOK
    BY MaxInoAssumption DEF Init, EmptyStore, StoreTypeOK
  <1>2. TypeOK
    BY <1>1 DEF Init, TypeOK, Session, None, NoCount, NoRefs
  <1> QED
    BY <1>2 DEF Init, EmptyStore, CountInv, HeldInodesExist, Held, CountsAgree,
                NoMountNoHold, EmptyMap, ReclaimedUnheld, Fresh, None,
                KeysCount, NoCount, NoRefs, Exists

\* A reply about an inode that is there after the step keeps the invariant
LEMMA ReplyStep ==
  ASSUME CountInv, NEW i \in Ino, ReplyEntry(i),
         session = "mounted", session' = "mounted",
         handler' = None,
         StoreTypeOK', refused' \subseteq Ino,
         metadata'[i] # "none",
         \A j \in Ino : metadata[j] # "none" => metadata'[j] = metadata[j],
         \A j \in Ino : j >= next_ino' => metadata'[j] = "none"
  PROVE  CountInv'
  <1>1. TypeOK'
    BY ReplyFacts DEF CountInv, TypeOK, None, Session
  <1>2. HeldInodesExist'
    BY ReplyFacts DEF CountInv, TypeOK, HeldInodesExist, Held, Exists
  <1>3. CountsAgree'
    BY ReplyFacts, CountOfNat DEF CountInv, TypeOK, CountsAgree
  <1>4. NoMountNoHold' /\ EmptyMap' /\ ReclaimedUnheld'
    BY DEF NoMountNoHold, EmptyMap, ReclaimedUnheld, None
  <1>5. Fresh'
    BY DEF Fresh, Exists
  <1>6. KeysCount'
    BY ReplyFacts DEF CountInv
  <1> QED
    BY <1>1, <1>2, <1>3, <1>4, <1>5, <1>6 DEF CountInv

\* A step that touches no counter and deletes no held inode keeps it too
LEMMA QuietStep ==
  ASSUME CountInv, UNCHANGED <<lookup_count, kernel>>,
         StoreTypeOK', refused' \subseteq Ino,
         session' = session,
         handler' \in [op : {"none", "reclaim", "symlink", "destroy"}, inos : SUBSET Ino],
         handler'.op = "reclaim" =>
            \A i \in handler'.inos : kref[i] = 0 /\ forgets[i] = 0,
         \A j \in Ino : Held(j) => metadata'[j] # "none",
         \A j \in Ino : j >= next_ino' => metadata'[j] = "none"
  PROVE  CountInv'
  <1>1. TypeOK'
    BY DEF CountInv, TypeOK, kernel
  <1>2. HeldInodesExist'
    BY DEF HeldInodesExist, Held, Exists, kernel
  <1>3. CountsAgree'
    BY DEF CountInv, CountsAgree, CountOf, kernel
  <1>4. NoMountNoHold' /\ EmptyMap' /\ ReclaimedUnheld'
    BY DEF CountInv, NoMountNoHold, EmptyMap, ReclaimedUnheld, kernel
  <1>5. Fresh' /\ KeysCount'
    BY DEF CountInv, Fresh, KeysCount, Exists
  <1> QED
    BY <1>1, <1>2, <1>3, <1>4, <1>5 DEF CountInv

LEMMA ServingFacts ==
  ASSUME Serving PROVE session = "mounted" /\ handler = None
  BY DEF Serving

\* A request that adds an inode and answers with it, as mkdir and create do
LEMMA AddReplyStep ==
  ASSUME CountInv, Serving, UNCHANGED <<session, handler, refused>>,
         NEW p \in Ino, NEW n \in Name, NEW k \in Kind, NEW i \in Ino,
         add_inode_and_dentry(p, n, k, i), ReplyEntry(i)
  PROVE  CountInv'
  <1>1. StoreTypeOK /\ next_ino \in Nat
    BY MaxInoAssumption DEF CountInv, TypeOK, StoreTypeOK
  <1>2. metadata'[i] # "none"
    BY <1>1, AddFacts DEF Kind
  <1>3. \A j \in Ino : metadata[j] # "none" => metadata'[j] = metadata[j]
    BY <1>1, AddFacts DEF CountInv, Fresh, Exists, Ino
  <1>4. \A j \in Ino : j >= next_ino' => metadata'[j] = "none"
    BY <1>1, AddFacts DEF CountInv, Fresh, Exists, Ino
  <1>5. refused' \subseteq Ino
    BY DEF CountInv, TypeOK
  <1> QED
    BY <1>1, <1>2, <1>3, <1>4, <1>5, AddFacts, ReplyStep, ServingFacts

\* A request about an inode that is there and that changes no row of metadata
LEMMA OldReplyStep ==
  ASSUME CountInv, Serving, UNCHANGED <<session, handler, refused>>,
         StoreTypeOK', metadata' = metadata, next_ino' = next_ino,
         NEW i \in Ino, Exists(i), ReplyEntry(i)
  PROVE  CountInv'
  BY ReplyStep, ServingFacts DEF CountInv, TypeOK, Fresh, Exists

LEMMA LookupStep ==
  ASSUME CountInv, NEW p \in Ino, NEW n \in Name, Lookup(p, n) PROVE CountInv'
  <1>1. PICK d \in Entry(p, n) : Exists(d.child) /\ ReplyEntry(d.child)
    BY DEF Lookup
  <1>2. d.child \in Ino
    BY DEF CountInv, TypeOK, StoreTypeOK, Entry, DEntry
  <1>3. StoreTypeOK' /\ metadata' = metadata /\ next_ino' = next_ino
    BY DEF Lookup, store, StoreTypeOK, CountInv, TypeOK
  <1> QED
    BY <1>1, <1>2, <1>3, OldReplyStep DEF Lookup, Parent

LEMMA MkdirStep ==
  ASSUME CountInv, NEW p \in Ino, NEW n \in Name, Mkdir(p, n) PROVE CountInv'
  <1>1. PICK i \in Ino : add_inode_and_dentry(p, n, "dir", i) /\ ReplyEntry(i)
    BY DEF Mkdir
  <1> QED
    BY <1>1, AddReplyStep DEF Mkdir, Parent, Kind

LEMMA CreateStep ==
  ASSUME CountInv, NEW p \in Ino, NEW n \in Name, Create(p, n) PROVE CountInv'
  <1>1. CASE \E i \in Ino : add_inode_and_dentry(p, n, "file", i) /\ ReplyEntry(i)
    <2>1. PICK i \in Ino : add_inode_and_dentry(p, n, "file", i) /\ ReplyEntry(i)
      BY <1>1
    <2> QED
      BY <2>1, AddReplyStep DEF Create, Parent, Kind
  <1>2. CASE /\ \E d \in Entry(p, n) : Exists(d.child) /\ ReplyEntry(d.child)
             /\ UNCHANGED store
    <2>1. PICK d \in Entry(p, n) : Exists(d.child) /\ ReplyEntry(d.child)
      BY <1>2
    <2>2. d.child \in Ino
      BY DEF CountInv, TypeOK, StoreTypeOK, Entry, DEntry
    <2>3. StoreTypeOK' /\ metadata' = metadata /\ next_ino' = next_ino
      BY <1>2 DEF store, StoreTypeOK, CountInv, TypeOK
    <2> QED
      BY <2>1, <2>2, <2>3, OldReplyStep DEF Create, Parent
  <1> QED
    BY <1>1, <1>2 DEF Create

LEMMA LinkStep ==
  ASSUME CountInv, NEW i \in Ino, NEW p \in Ino, NEW n \in Name, Link(i, p, n)
  PROVE CountInv'
  <1>1. StoreTypeOK' /\ metadata' = metadata /\ next_ino' = next_ino
    BY LinkFacts DEF Link, CountInv, TypeOK
  <1>2. Exists(i)
    BY DEF Link, link_dentry, HasAttributes
  <1> QED
    BY <1>1, <1>2, OldReplyStep DEF Link, Parent

LEMMA SymlinkStep ==
  ASSUME CountInv, NEW p \in Ino, NEW n \in Name, Symlink(p, n) PROVE CountInv'
  <1>1. PICK i \in Ino : /\ add_inode_and_dentry(p, n, "symlink", i)
                         /\ handler' \in {None, [op |-> "symlink", inos |-> {i}]}
    BY DEF Symlink
  <1>2. StoreTypeOK /\ next_ino \in Nat
    BY MaxInoAssumption DEF CountInv, TypeOK, StoreTypeOK
  <1>3. StoreTypeOK' /\ i = next_ino /\ next_ino' = next_ino + 1
        /\ metadata'[i] = "symlink" /\ \A j \in Ino \ {i} : metadata'[j] = metadata[j]
    BY <1>1, <1>2, AddFacts DEF Kind
  <1>4. \A j \in Ino : Held(j) => metadata'[j] # "none"
    BY <1>3 DEF CountInv, HeldInodesExist, Exists
  <1>5. \A j \in Ino : j >= next_ino' => metadata'[j] = "none"
    BY <1>2, <1>3 DEF CountInv, Fresh, Exists, Ino
  <1>6. /\ handler' \in [op : {"none", "reclaim", "symlink", "destroy"}, inos : SUBSET Ino]
        /\ handler'.op # "reclaim"
    BY <1>1 DEF None
  <1>7. /\ session' = session /\ session \in Session /\ UNCHANGED <<lookup_count, kernel>>
        /\ refused' \subseteq Ino
    BY DEF Symlink, CountInv, TypeOK
  <1> QED
    BY <1>3, <1>4, <1>5, <1>6, <1>7, QuietStep

\* unlink, rmdir and rename go on to an inode only if it is not in the map
LEMMA UnheldOutsideMap ==
  ASSUME CountInv, session = "mounted", NEW i \in Ino, i \notin DOMAIN lookup_count
  PROVE  kref[i] = 0 /\ forgets[i] = 0
  BY DEF CountInv, TypeOK, CountsAgree, CountOf

LEMMA ReclaimFacts ==
  ASSUME CountInv, session = "mounted", NEW S \in SUBSET Ino
  PROVE  /\ Reclaim(S) \in [op : {"none", "reclaim", "symlink", "destroy"}, inos : SUBSET Ino]
         /\ Reclaim(S).op = "reclaim" =>
               \A j \in Reclaim(S).inos : kref[j] = 0 /\ forgets[j] = 0
  BY UnheldOutsideMap DEF Reclaim, None

LEMMA RemoveStep ==
  ASSUME CountInv, NEW p \in Ino, NEW n \in Name, Unlink(p, n) \/ Rmdir(p, n)
  PROVE  CountInv'
  <1>1. PICK d \in Entry(p, n) : delete_dentry(p, n, d.child) /\ handler' = Reclaim({d.child})
    BY DEF Unlink, Rmdir
  <1>2. d.child \in Ino
    BY DEF CountInv, TypeOK, StoreTypeOK, Entry, DEntry
  <1>3. /\ UNCHANGED <<session, lookup_count, kernel>>
        /\ session = "mounted" /\ session \in Session /\ refused' \subseteq Ino
    BY DEF Unlink, Rmdir, Parent, Serving, CountInv, TypeOK
  <1>4. StoreTypeOK' /\ metadata' = metadata /\ next_ino' = next_ino
    BY <1>1, <1>2, DeleteDentryFacts DEF CountInv, TypeOK
  <1>5. /\ \A j \in Ino : Held(j) => metadata'[j] # "none"
        /\ \A j \in Ino : j >= next_ino' => metadata'[j] = "none"
    BY <1>4 DEF CountInv, HeldInodesExist, Exists, Fresh
  <1> QED
    BY <1>1, <1>2, <1>3, <1>4, <1>5, ReclaimFacts, QuietStep

LEMMA RenameStep ==
  ASSUME CountInv, NEW p \in Ino, NEW n \in Name, NEW q \in Ino, NEW m \in Name,
         Rename(p, n, q, m)
  PROVE  CountInv'
  <1>1. PICK d \in Entry(p, n) :
           /\ move_dentry(d, q, m)
           /\ handler' = Reclaim({e.child : e \in Entry(q, m)})
    BY DEF Rename
  <1>2. /\ UNCHANGED <<session, lookup_count, kernel>>
        /\ session = "mounted" /\ session \in Session /\ refused' \subseteq Ino
    BY DEF Rename, Parent, Serving, CountInv, TypeOK
  <1>3. StoreTypeOK' /\ metadata' = metadata /\ next_ino' = next_ino
    BY <1>1, MoveFacts DEF CountInv, TypeOK, Entry
  <1>4. /\ \A j \in Ino : Held(j) => metadata'[j] # "none"
        /\ \A j \in Ino : j >= next_ino' => metadata'[j] = "none"
    BY <1>3 DEF CountInv, HeldInodesExist, Exists, Fresh
  <1>5. {e.child : e \in Entry(q, m)} \in SUBSET Ino
    BY DEF CountInv, TypeOK, StoreTypeOK, Entry, DEntry
  <1> QED
    BY <1>1, <1>2, <1>3, <1>4, <1>5, ReclaimFacts, QuietStep

LEMMA ForgetStep ==
  ASSUME CountInv, NEW i \in Ino, NEW n \in 1 .. forgets[i], Forget(i, n)
  PROVE  CountInv'
  <1>1. /\ session = "mounted" /\ handler = None /\ UNCHANGED <<session, handler, kref>>
        /\ forgets' = [forgets EXCEPT ![i] = @ - n]
        /\ lookup_count' = SetCount(i, CountOf(i) - n)
    BY DEF Forget, Serving
  <1>2. /\ kref \in [Ino -> Nat] /\ forgets \in [Ino -> Nat] /\ n \in Nat \ {0}
        /\ n <= forgets[i] /\ StoreTypeOK /\ TypeOK
    BY DEF CountInv, TypeOK
  <1>3. CountOf(i) = kref[i] + forgets[i]
    BY <1>1 DEF CountInv, CountsAgree
  <1>4. CountOf(i) - n \in Nat
    BY <1>2, <1>3
  <1>5. /\ DOMAIN lookup_count' \subseteq Ino
        /\ \A j \in DOMAIN lookup_count' : lookup_count'[j] \in Nat
        /\ KeysCount'
        /\ \A j \in Ino : CountOf(j)' = IF j = i THEN CountOf(i) - n ELSE CountOf(j)
    BY <1>1, <1>2, <1>4, SetCountFacts DEF CountInv
  <1>6. /\ forgets' \in [Ino -> Nat]
        /\ \A j \in Ino : forgets'[j] = IF j = i THEN forgets[i] - n ELSE forgets[j]
    BY <1>1, <1>2
  <1>7. CASE CountOf(i) = n
    <2>1. /\ StoreTypeOK' /\ next_ino' = next_ino
          /\ \A j \in Ino \ {i} : metadata'[j] = metadata[j]
          /\ \A j \in Ino : metadata'[j] \in {metadata[j], "none"}
          /\ refused' \subseteq Ino
      BY <1>2, <1>7, TryToDeleteFacts DEF Forget
    <2>2. kref[i] = 0 /\ forgets[i] = n
      BY <1>2, <1>3, <1>7
    <2>3. HeldInodesExist'
      BY <1>1, <1>2, <1>6, <2>1, <2>2 DEF CountInv, HeldInodesExist, Held, Exists
    <2>4. Fresh'
      BY <2>1 DEF CountInv, Fresh, Exists
    <2> QED
      BY <1>1, <1>2, <1>3, <1>5, <1>6, <2>1, <2>3, <2>4
         DEF CountInv, TypeOK, CountsAgree, NoMountNoHold, EmptyMap, ReclaimedUnheld, None
  <1>8. CASE CountOf(i) # n
    <2>1. UNCHANGED <<store, refused>>
      BY <1>8 DEF Forget
    <2>2. StoreTypeOK' /\ Fresh' /\ metadata' = metadata /\ refused' \subseteq Ino
      BY <2>1, <1>2 DEF store, TypeOK, StoreTypeOK, CountInv, Fresh, Exists
    <2>3. HeldInodesExist'
      BY <1>1, <1>2, <1>6, <2>2 DEF CountInv, HeldInodesExist, Held, Exists
    <2> QED
      BY <1>1, <1>2, <1>3, <1>5, <1>6, <2>2, <2>3
         DEF CountInv, TypeOK, CountsAgree, NoMountNoHold, EmptyMap, ReclaimedUnheld, None
  <1> QED
    BY <1>7, <1>8

LEMMA SymlinkDataStep == ASSUME CountInv, SymlinkData PROVE CountInv'
  <1>1. /\ session = "mounted" /\ session' = "mounted" /\ session \in Session
        /\ handler' = None /\ refused' \subseteq Ino
    BY DEF SymlinkData, CountInv, TypeOK
  <1>2. CASE \E i \in handler.inos : write_link_data(i) /\ ReplyEntry(i)
    <2>1. PICK i \in handler.inos : write_link_data(i) /\ ReplyEntry(i)
      BY <1>2
    <2>2. i \in Ino
      BY DEF CountInv, TypeOK
    <2>3. StoreTypeOK' /\ metadata[i] # "none" /\ metadata' = metadata /\ next_ino' = next_ino
      BY <2>1, <2>2 DEF write_link_data, CountInv, TypeOK, StoreTypeOK, Exists
    <2> QED
      BY <1>1, <2>1, <2>2, <2>3, ReplyStep DEF CountInv, Fresh, Exists
  <1>3. CASE UNCHANGED <<store, lookup_count, kernel>>
    <2>1. StoreTypeOK' /\ metadata' = metadata /\ next_ino' = next_ino
      BY <1>3 DEF store, CountInv, TypeOK, StoreTypeOK
    <2> QED
      BY <1>1, <1>3, <2>1, QuietStep DEF None, CountInv, HeldInodesExist, Fresh, Exists
  <1> QED
    BY <1>2, <1>3 DEF SymlinkData

LEMMA FinishReclaimStep == ASSUME CountInv, FinishReclaim PROVE CountInv'
  <1>1. PICK i \in handler.inos : TryToDelete(i)
    BY DEF FinishReclaim
  <1>2. i \in Ino /\ ~Held(i)
    BY DEF FinishReclaim, CountInv, TypeOK, ReclaimedUnheld, Held
  <1>3. /\ StoreTypeOK' /\ next_ino' = next_ino /\ refused' \subseteq Ino
        /\ \A j \in Ino \ {i} : metadata'[j] = metadata[j]
        /\ \A j \in Ino : metadata'[j] \in {metadata[j], "none"}
    BY <1>1, <1>2, TryToDeleteFacts DEF CountInv
  <1>4. /\ UNCHANGED <<session, lookup_count, kernel>>
        /\ session \in Session /\ handler' = None
    BY DEF FinishReclaim, CountInv, TypeOK
  <1>5. \A j \in Ino : Held(j) => metadata'[j] # "none"
    BY <1>2, <1>3 DEF CountInv, HeldInodesExist, Exists
  <1>6. \A j \in Ino : j >= next_ino' => metadata'[j] = "none"
    BY <1>3 DEF CountInv, Fresh, Exists
  <1> QED
    BY <1>3, <1>4, <1>5, <1>6, QuietStep DEF None

\* The steps of a mount and of DESTROY: nothing is held
LEMMA UnmountedStep ==
  ASSUME CountInv, session # "mounted",
         session' \in Session,
         session' = "mounted" \/ session' \notin {"mounted", "destroy"} =>
            session \notin {"mounted", "destroy"},
         StoreTypeOK', refused' \subseteq Ino,
         \A j \in Ino : j >= next_ino' => metadata'[j] = "none",
         lookup_count' = lookup_count, UNCHANGED kernel,
         handler' \in [op : {"none", "reclaim", "symlink", "destroy"}, inos : SUBSET Ino]
  PROVE  CountInv'
  <1>1. \A i \in Ino : kref[i] = 0 /\ forgets[i] = 0 /\ ~Held(i)
    BY DEF CountInv, NoMountNoHold, Held
  <1>2. TypeOK'
    BY DEF CountInv, TypeOK, kernel
  <1>3. EmptyMap' /\ (session' = "mounted" => DOMAIN lookup_count = {})
    BY DEF CountInv, EmptyMap
  <1>4. CountsAgree'
    BY <1>1, <1>3 DEF CountsAgree, CountOf, kernel
  <1>5. HeldInodesExist' /\ NoMountNoHold'
    BY <1>1 DEF HeldInodesExist, Held, NoMountNoHold, kernel
  <1>6. ReclaimedUnheld'
    BY <1>1, <1>2 DEF ReclaimedUnheld, kernel, TypeOK
  <1>7. Fresh' /\ KeysCount'
    BY DEF CountInv, Fresh, KeysCount, Exists
  <1> QED
    BY <1>2, <1>3, <1>4, <1>5, <1>6, <1>7 DEF CountInv

LEMMA StartStep == ASSUME CountInv, Start PROVE CountInv'
  <1>1. StoreTypeOK' /\ metadata' = metadata /\ next_ino' = next_ino
    BY DEF Start, store, CountInv, TypeOK, StoreTypeOK
  <1> QED
    BY <1>1, UnmountedStep DEF Start, Advance, Session, CountInv, TypeOK, Fresh, Exists

LEMMA InitRootStep == ASSUME CountInv, InitRoot PROVE CountInv'
  <1>1. CASE Exists(ROOT)
    <2>1. StoreTypeOK' /\ metadata' = metadata /\ next_ino' = next_ino
      BY <1>1 DEF InitRoot, init_root, store, CountInv, TypeOK, StoreTypeOK
    <2> QED
      BY <2>1, UnmountedStep
         DEF InitRoot, Advance, Session, CountInv, TypeOK, Fresh, Exists
  <1>2. CASE ~Exists(ROOT)
    <2>1. PICK i \in Ino : /\ i = next_ino /\ next_ino' = next_ino + 1
                           /\ metadata' = [metadata EXCEPT ![i] = "dir"]
                           /\ UNCHANGED <<dentry, linkdata>>
      BY <1>2 DEF InitRoot, init_root, AllocIno
    <2>2. next_ino' \in 1 .. MaxIno + 1
      BY <2>1, MaxInoAssumption DEF Ino
    <2>3. StoreTypeOK'
      BY <2>1, <2>2 DEF CountInv, TypeOK, StoreTypeOK, Kind
    <2>4. \A j \in Ino : j >= next_ino' => metadata'[j] = "none"
      BY <2>1 DEF CountInv, TypeOK, StoreTypeOK, Fresh, Exists, Ino
    <2> QED
      BY <2>3, <2>4, UnmountedStep DEF InitRoot, Advance, Session, CountInv, TypeOK
  <1> QED
    BY <1>1, <1>2

LEMMA InitDotsStep == ASSUME CountInv, InitDot \/ InitDotDot PROVE CountInv'
  <1>1. PICK n \in {".", ".."} : init_dot(n)
    BY DEF InitDot, InitDotDot
  <1>2. Row(ROOT, ROOT, "dir", n) \in DEntry
    BY RootIsIno DEF Row, DEntry, DentryName, Kind
  <1>3. StoreTypeOK' /\ metadata' = metadata /\ next_ino' = next_ino
    BY <1>1, <1>2 DEF init_dot, CountInv, TypeOK, StoreTypeOK
  <1> QED
    BY <1>3, UnmountedStep
       DEF InitDot, InitDotDot, Advance, Session, CountInv, TypeOK, Fresh, Exists

LEMMA FuseInitStep == ASSUME CountInv, FuseInit PROVE CountInv'
  <1>1. /\ StoreTypeOK' /\ next_ino' = next_ino /\ refused' \subseteq Ino
        /\ \A i \in Ino : metadata'[i] \in {metadata[i], "none"}
    BY TryToCleanUpFacts DEF FuseInit, CountInv
  <1> QED
    BY <1>1, UnmountedStep DEF FuseInit, Advance, Session, CountInv, TypeOK, Fresh, Exists

LEMMA DestroyOneStep == ASSUME CountInv, NEW i \in Ino, DestroyOne(i) PROVE CountInv'
  <1>1. /\ StoreTypeOK' /\ next_ino' = next_ino /\ refused' \subseteq Ino
        /\ \A j \in Ino : metadata'[j] \in {metadata[j], "none"}
    BY TryToDeleteFacts DEF DestroyOne, CountInv
  <1>2. handler' \in [op : {"none", "reclaim", "symlink", "destroy"}, inos : SUBSET Ino]
    BY DEF DestroyOne, CountInv, TypeOK
  <1> QED
    BY <1>1, <1>2, UnmountedStep DEF DestroyOne, Session, CountInv, Fresh, Exists

LEMMA DestroyStep == ASSUME CountInv, Destroy PROVE CountInv'
  <1>1. StoreTypeOK' /\ metadata' = metadata /\ next_ino' = next_ino
    BY DEF Destroy, store, CountInv, TypeOK, StoreTypeOK
  <1>2. /\ \A i \in Ino : kref'[i] = 0 /\ forgets'[i] = 0
        /\ kref' \in [Ino -> Nat] /\ forgets' \in [Ino -> Nat]
    BY DEF Destroy, NoRefs
  <1> QED
    BY <1>1, <1>2
       DEF Destroy, CountInv, TypeOK, Session, HeldInodesExist, Held, CountsAgree,
           NoMountNoHold, EmptyMap, KeysCount, ReclaimedUnheld, Fresh, Exists

LEMMA StopStep == ASSUME CountInv, Stop PROVE CountInv'
  <1>1. StoreTypeOK' /\ metadata' = metadata /\ next_ino' = next_ino
    BY DEF Stop, store, CountInv, TypeOK, StoreTypeOK
  <1>2. /\ \A i \in Ino : kref'[i] = 0 /\ forgets'[i] = 0
        /\ kref' \in [Ino -> Nat] /\ forgets' \in [Ino -> Nat]
    BY DEF Stop, NoRefs
  <1> QED
    BY <1>1, <1>2
       DEF Stop, CountInv, TypeOK, Session, HeldInodesExist, Held, CountsAgree, None, NoCount,
           NoMountNoHold, EmptyMap, KeysCount, ReclaimedUnheld, Fresh, Exists

LEMMA EvictStep == ASSUME CountInv, NEW i \in Ino, Evict(i) PROVE CountInv'
  <1>1. StoreTypeOK' /\ metadata' = metadata /\ next_ino' = next_ino
    BY DEF Evict, store, CountInv, TypeOK, StoreTypeOK
  <1>2. /\ kref' \in [Ino -> Nat] /\ forgets' \in [Ino -> Nat]
        /\ \A j \in Ino : kref'[j] + forgets'[j] = kref[j] + forgets[j]
        /\ \A j \in Ino : kref[j] = 0 /\ forgets[j] = 0 => kref'[j] = 0 /\ forgets'[j] = 0
    BY DEF Evict, CountInv, TypeOK
  <1>3. UNCHANGED <<memory, refused>> /\ session = "mounted"
    BY DEF Evict
  <1>4. TypeOK' /\ HeldInodesExist'
    BY <1>1, <1>2, <1>3 DEF memory, CountInv, TypeOK, HeldInodesExist, Held, Exists
  <1>5. CountsAgree'
    BY <1>2, <1>3 DEF memory, CountInv, CountsAgree, CountOf
  <1>6. NoMountNoHold' /\ EmptyMap' /\ KeysCount' /\ ReclaimedUnheld'
    BY <1>2, <1>3
       DEF memory, CountInv, TypeOK, NoMountNoHold, EmptyMap, KeysCount, ReclaimedUnheld
  <1> QED
    BY <1>1, <1>4, <1>5, <1>6 DEF CountInv, Fresh, Exists

LEMMA StutterStep == ASSUME CountInv, UNCHANGED vars PROVE CountInv'
  BY DEF CountInv, vars, store, memory, kernel, TypeOK, StoreTypeOK, HeldInodesExist, Held,
         CountsAgree, CountOf, NoMountNoHold, EmptyMap, KeysCount, ReclaimedUnheld, Fresh, Exists

\* Every step keeps the invariant
LEMMA CountNext == CountInv /\ [Next]_vars => CountInv'
  <1> SUFFICES ASSUME CountInv, [Next]_vars PROVE CountInv'
    OBVIOUS
  <1>1. CASE Request
    <2>1. CASE \E p \in Ino, n \in Name : \/ Lookup(p, n) \/ Mkdir(p, n) \/ Create(p, n)
                                          \/ Symlink(p, n) \/ Unlink(p, n) \/ Rmdir(p, n)
      BY <2>1, LookupStep, MkdirStep, CreateStep, SymlinkStep, RemoveStep
    <2>2. CASE \E p, q \in Ino, n, m \in Name : Rename(p, n, q, m)
      BY <2>2, RenameStep
    <2>3. CASE \E i, p \in Ino, n \in Name : Link(i, p, n)
      BY <2>3, LinkStep
    <2>4. CASE \E i \in Ino : \E n \in 1 .. forgets[i] : Forget(i, n)
      BY <2>4, ForgetStep
    <2> QED
      BY <1>1, <2>1, <2>2, <2>3, <2>4 DEF Request
  <1>2. CASE SymlinkData \/ FinishReclaim
    BY <1>2, SymlinkDataStep, FinishReclaimStep
  <1>3. CASE Start \/ InitRoot \/ InitDot \/ InitDotDot \/ FuseInit
    BY <1>3, StartStep, InitRootStep, InitDotsStep, FuseInitStep
  <1>4. CASE Destroy \/ (\E i \in Ino : DestroyOne(i)) \/ Stop
    BY <1>4, DestroyStep, DestroyOneStep, StopStep
  <1>5. CASE \E i \in Ino : Evict(i)
    BY <1>5, EvictStep
  <1>6. CASE UNCHANGED vars
    BY <1>6, StutterStep
  <1> QED
    BY <1>1, <1>2, <1>3, <1>4, <1>5, <1>6 DEF Next

LEMMA CountInvHolds == Spec => []CountInv
  BY CountInit, CountNext, PTL DEF Spec

\* Every state the file system reaches is well formed
THEOREM TypeCorrect == Spec => []TypeOK
  <1>1. CountInv => TypeOK
    BY DEF CountInv
  <1> QED
    BY <1>1, CountInvHolds, PTL

\* An inode the kernel may still use is in the database
THEOREM HeldInodesExistAlways == Spec => []HeldInodesExist
  <1>1. CountInv => HeldInodesExist
    BY DEF CountInv
  <1> QED
    BY <1>1, CountInvHolds, PTL

\* The map of lookup counts agrees with the kernel, so forget never subtracts
\* more than the count it finds
THEOREM CountsAlwaysAgree == Spec => []CountsAgree
  <1>1. CountInv => CountsAgree
    BY DEF CountInv
  <1> QED
    BY <1>1, CountInvHolds, PTL
====
