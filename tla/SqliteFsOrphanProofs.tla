---- MODULE SqliteFsOrphanProofs ----
(***************************************************************************)
(* Proofs about the life of an inode, for every set of names and every     *)
(* bound: none is lost, none is left over, and the file system implements  *)
(* InodeLife.                                                              *)
(***************************************************************************)
EXTENDS SqliteFsTreeProofs

(***************************************************************************)
(* The inductive invariant behind the orphans: an inode that lost its last *)
(* reference and its last count is the one the handler is about to delete. *)
(* The shape of the tree is part of it, for what "." and ".." rows refer   *)
(* to when rmdir and rename take some of them away.                        *)
(***************************************************************************)

\* the first transaction of unlink, rmdir and rename leaves one inode to delete
OneReclaimed ==
    /\ session \notin {"mounted", "destroy"} => handler = None
    /\ session = "mounted" /\ handler.op = "reclaim" => \E i \in Ino : handler.inos = {i}

InHand(i) == handler.op = "reclaim" /\ i \in handler.inos

OrphansInHand ==
    session = "mounted" =>
        \A i \in Ino : Exists(i) => Referenced(i) \/ Held(i) \/ InHand(i) \/ i \in refused

OrphanInv == TreeInv /\ OneReclaimed /\ OrphansInHand

---------------------------------------------------------------------------
(* What a step does to the rows of metadata *)

\* The inodes a deletion takes are unreferenced
LEMMA DeleteRowsKeep ==
  ASSUME StoreTypeOK, NEW S \in SUBSET Ino, \A i \in S : ~Referenced(i), DeleteRows(S), NEW i \in Ino
  PROVE  metadata'[i] = metadata[i] \/ (metadata'[i] = "none" /\ ~Referenced(i))
  BY DeleteRowsFacts

LEMMA TryToDeleteKeeps ==
  ASSUME StoreTypeOK, NEW j \in Ino, TryToDelete(j), NEW i \in Ino
  PROVE  metadata'[i] = metadata[i] \/ (metadata'[i] = "none" /\ ~Referenced(i))
  <1>1. PICK S \in SUBSET {j} : (\A l \in S : ~Referenced(l)) /\ DeleteRows(S)
    BY TryToDeleteRows
  <1> QED
    BY <1>1, DeleteRowsKeep

RowStays(i) ==
    \/ metadata'[i] = metadata[i]
    \/ metadata'[i] = "none" /\ ~Referenced(i)
    \/ i = next_ino

\* A step changes the row of an inode only to delete it while nothing refers to
\* it, or to create it under the next number
LEMMA RowStep ==
  ASSUME TreeInv, [Next]_vars, NEW i \in Ino PROVE RowStays(i)
  <1> USE DEF RowStays
  <1>1. StoreTypeOK /\ TypeOK
    BY TreeTypes
  <1>2. ASSUME NEW p \in Ino, NEW n \in Name, NEW k \in Kind, NEW j \in Ino,
               add_inode_and_dentry(p, n, k, j)
        PROVE  RowStays(i)
    BY <1>1, <1>2, AddFacts
  <1>3. ASSUME NEW j \in Ino, TryToDelete(j) PROVE RowStays(i)
    BY <1>1, <1>3, TryToDeleteKeeps
  <1>4. CASE Request
    <2>1. CASE \E p \in Ino, n \in Name : Lookup(p, n) \/ Unlink(p, n) \/ Rmdir(p, n)
      BY <2>1 DEF Lookup, store, Unlink, Rmdir, delete_dentry
    <2>2. CASE \E p \in Ino, n \in Name : Mkdir(p, n) \/ Create(p, n) \/ Symlink(p, n)
      BY <1>2, <2>2 DEF Mkdir, Create, Symlink, store, Kind
    <2>3. CASE \E p, q \in Ino, n, m \in Name : Rename(p, n, q, m)
      BY <2>3 DEF Rename, move_dentry
    <2>4. CASE \E j, p \in Ino, n \in Name : Link(j, p, n)
      BY <2>4 DEF Link, link_dentry
    <2>5. CASE \E j \in Ino : \E n \in 1 .. forgets[j] : Forget(j, n)
      BY <1>3, <2>5 DEF Forget, store
    <2> QED
      BY <1>4, <2>1, <2>2, <2>3, <2>4, <2>5 DEF Request
  <1>5. CASE FinishReclaim \/ \E j \in Ino : DestroyOne(j)
    <2>1. CASE FinishReclaim
      BY <1>1, <1>3, <2>1 DEF FinishReclaim, TypeOK
    <2>2. CASE \E j \in Ino : DestroyOne(j)
      BY <1>3, <2>2 DEF DestroyOne
    <2> QED
      BY <1>5, <2>1, <2>2
  <1>6. CASE FuseInit
    <2>1. PICK S \in SUBSET Ino : (\A j \in S : ~Referenced(j)) /\ DeleteRows(S)
      BY <1>1, <1>6, TryToCleanUpRows DEF FuseInit
    <2> QED
      BY <1>1, <2>1, DeleteRowsKeep
  <1>7. CASE InitRoot
    BY <1>1, <1>7 DEF InitRoot, init_root, AllocIno, store, StoreTypeOK
  <1>8. CASE SymlinkData \/ InitDot \/ InitDotDot
    BY <1>8 DEF SymlinkData, write_link_data, InitDot, InitDotDot, init_dot, store
  <1>9. CASE Start \/ Destroy \/ Stop \/ (\E j \in Ino : Evict(j)) \/ UNCHANGED vars
    BY <1>9 DEF Start, Destroy, Stop, Evict, vars, store
  <1> QED
    BY <1>4, <1>5, <1>6, <1>7, <1>8, <1>9 DEF Next

\* No step deletes an inode that a directory names
THEOREM NamedInodesAlwaysStay == Spec => NamedInodesStay
  <1>1. TreeInv /\ [Next]_vars => [\A i \in Ino : HasName(i) => metadata'[i] = metadata[i]]_vars
    <2> SUFFICES ASSUME TreeInv, [Next]_vars, NEW i \in Ino, HasName(i)
                 PROVE  metadata'[i] = metadata[i]
      OBVIOUS
    <2>1. Referenced(i) /\ metadata[i] \in Kind
      BY DEF HasName, Referenced, TreeInv, CountInv, TypeOK, StoreTypeOK, DEntry, RowsRefer
    <2>2. next_ino \in Nat /\ i # next_ino
      BY <2>1, TreeTypes, MaxInoAssumption DEF Fresh, Exists, StoreTypeOK, Kind, Ino
    <2> QED
      BY <2>1, <2>2, RowStep DEF RowStays
  <1> QED
    BY <1>1, TreeInvHolds, PTL DEF Spec, NamedInodesStay

\* A number given to an inode once is given to no other one
THEOREM InodeNumbersAreNeverReused == Spec => InodeNumbersAreNotReused
  <1>1. TreeInv /\ [Next]_vars =>
           [\A i \in Ino : i < next_ino /\ ~Exists(i) => ~Exists(i)']_vars
    <2> SUFFICES ASSUME TreeInv, [Next]_vars, NEW i \in Ino, i < next_ino, ~Exists(i)
                 PROVE  ~Exists(i)'
      OBVIOUS
    <2>1. next_ino \in Nat /\ i # next_ino
      BY TreeTypes, MaxInoAssumption DEF StoreTypeOK, Ino
    <2> QED
      BY <2>1, RowStep DEF RowStays, Exists
  <1> QED
    BY <1>1, TreeInvHolds, PTL DEF Spec, InodeNumbersAreNotReused

---------------------------------------------------------------------------
(* No step loses the last reference to an inode without noticing *)

\* An inode the map counts is one the kernel holds
LEMMA CountedIsHeld ==
  ASSUME CountInv, session = "mounted", NEW i \in DOMAIN lookup_count PROVE Held(i)
  <1>1. i \in Ino /\ lookup_count[i] > 0 /\ kref[i] \in Nat /\ forgets[i] \in Nat
    BY DEF CountInv, TypeOK, KeysCount
  <1> QED
    BY <1>1 DEF CountInv, CountsAgree, CountOf, Held

\* A step that takes no row of dentry away and keeps what the kernel holds
LEMMA OrphansQuiet ==
  ASSUME OrphanInv, TreeInv', session = "mounted", session' = "mounted",
         dentry \subseteq dentry', handler.op # "reclaim", handler'.op # "reclaim",
         refused \subseteq refused',
         \A j \in Ino : Held(j) => Held(j)' \/ ~Exists(j)' \/ Referenced(j)' \/ j \in refused',
         \A j \in Ino : Exists(j)' => Exists(j) \/ Referenced(j)'
  PROVE  OrphanInv'
  <1>1. OneReclaimed'
    BY DEF OneReclaimed
  <1>2. \A j \in Ino : Referenced(j) => Referenced(j)'
    BY DEF Referenced
  <1>3. OrphansInHand'
    BY <1>2 DEF OrphanInv, OrphansInHand, InHand
  <1> QED
    BY <1>1, <1>3 DEF OrphanInv

\* A handler that took the one row of the inode in S away hands it to the second
\* transaction, unless it is held or named elsewhere
LEMMA OrphansReclaim ==
  ASSUME OrphanInv, TreeInv', session = "mounted", handler = None,
         UNCHANGED <<session, lookup_count, kernel, refused, metadata>>,
         NEW S \in SUBSET Ino, handler' = Reclaim(S),
         \A i, j \in S : i = j,
         \A j \in Ino \ S : Referenced(j) => Referenced(j)'
  PROVE  OrphanInv'
  <1>1. OneReclaimed'
    BY DEF OneReclaimed, Reclaim, None
  <1>2. ASSUME NEW i \in S PROVE Held(i)' \/ InHand(i)'
    <2>1. CASE i \in DOMAIN lookup_count
      BY <2>1, CountedIsHeld DEF OrphanInv, TreeInv, Held, kernel
    <2>2. CASE i \notin DOMAIN lookup_count
      BY <1>2, <2>2 DEF Reclaim, InHand
    <2> QED
      BY <2>1, <2>2
  <1>3. \A i \in Ino \ S : Exists(i)' => Referenced(i)' \/ Held(i)' \/ i \in refused'
    BY DEF OrphanInv, OrphansInHand, InHand, None, Exists, Held, kernel
  <1>4. OrphansInHand'
    BY <1>2, <1>3 DEF OrphansInHand
  <1> QED
    BY <1>1, <1>4 DEF OrphanInv

LEMMA OrphansRemove ==
  ASSUME OrphanInv, TreeInv', NEW p \in Ino, NEW n \in Name, Unlink(p, n) \/ Rmdir(p, n)
  PROVE  OrphanInv'
  <1>1. PICK d \in Entry(p, n) :
           /\ metadata[d.child] = "dir" => check_directory_is_empty(d.child)
           /\ delete_dentry(p, n, d.child)
           /\ handler' = Reclaim({d.child})
    BY DEF Unlink, Rmdir
  <1>2. /\ UNCHANGED <<session, lookup_count, kernel, refused, metadata>>
        /\ session = "mounted" /\ handler = None
        /\ dentry' = {e \in dentry \ Entry(p, n) : e.parent # d.child}
    BY <1>1 DEF Unlink, Rmdir, delete_dentry, Parent, Serving
  <1>3. Entry(p, n) = {d} /\ d \in dentry /\ d.parent = p /\ d.name = n /\ d.child \in Ino
    BY TreeTypes DEF Entry, TreeInv, KeyUnique, OrphanInv, StoreTypeOK, DEntry
  <1>4. \A e \in dentry : e.parent = d.child => e.name \notin Name /\ metadata[d.child] = "dir"
    BY <1>1 DEF check_directory_is_empty, OrphanInv, TreeInv, RowsRefer
  <1>5. p # d.child /\ SelfRow(p) \in dentry
    BY <1>3, <1>4 DEF OrphanInv, TreeInv, SelfRows
  <1>6. SelfRow(p) \in dentry' /\ SelfRow(p).child = p
    BY <1>2, <1>3, <1>5, RowFields, NameAssumption DEF SelfRow
  <1>7. ASSUME NEW e \in dentry, e \notin dentry' PROVE e.child \in {d.child, p}
    <2>1. CASE e = d
      BY <2>1
    <2>2. CASE e.parent = d.child
      <3>1. d.ftype = "dir" /\ e.name \in {".", ".."}
        BY <1>3, <1>4, <2>2 DEF OrphanInv, TreeInv, RowsRefer, CountInv, TypeOK, StoreTypeOK,
                                DEntry, DentryName
      <3>2. /\ Entry(d.child, ".") = {Row(d.child, d.child, "dir", ".")}
            /\ Entry(d.child, "..") = {Row(d.child, p, "dir", "..")}
        BY <1>3, <3>1 DEF OrphanInv, TreeInv, DotsFollowTheTree
      <3>3. e = Row(d.child, d.child, "dir", ".") \/ e = Row(d.child, p, "dir", "..")
        BY <2>2, <3>1, <3>2 DEF Entry
      <3> QED
        BY <3>3, RowFields
    <2> QED
      BY <1>2, <1>3, <1>7, <2>1, <2>2
  <1>8. \A j \in Ino \ {d.child} : Referenced(j) => Referenced(j)'
    BY <1>6, <1>7 DEF Referenced
  <1> QED
    BY <1>1, <1>2, <1>3, <1>8, OrphansReclaim

LEMMA OrphansRename ==
  ASSUME OrphanInv, TreeInv', NEW p \in Ino, NEW n \in Name, NEW q \in Ino, NEW m \in Name,
         Rename(p, n, q, m)
  PROVE  OrphanInv'
  <1>1. TreeInv /\ StoreTypeOK /\ Shape
    BY TreeTypes DEF OrphanInv
  <1>2. PICK d \in Entry(p, n) : /\ Movable(d, q, m)
                                 /\ handler' = Reclaim({e.child : e \in Entry(q, m)})
    BY <1>1, RenameMovable
  <1>3. /\ UNCHANGED <<session, lookup_count, kernel, refused, metadata>>
        /\ session = "mounted" /\ handler = None
    BY <1>2 DEF Rename, Movable, move_dentry, Parent, Serving
  <1>4. d.parent = p /\ d \in dentry /\ SelfRow(p) \in dentry
    BY <1>1, <1>2 DEF Entry, TreeInv, SelfRows
  <1>5. Moved(d, q, m) \in dentry' /\ Moved(d, q, m).child = d.child
    BY <1>1, <1>2, MoveNames
  <1> DEFINE S == {e.child : e \in Entry(q, m)}
  <1>6. S \in SUBSET Ino /\ \A i, j \in S : i = j
    BY <1>1 DEF StoreTypeOK, DEntry, Entry, TreeInv, KeyUnique
  <1>7. \A e \in Entry(q, m) : e.child \in S
    OBVIOUS
  <1>8. ASSUME NEW e \in dentry, e.child \notin S PROVE \E x \in dentry' : x.child = e.child
    <2>1. e \notin Entry(q, m)
      BY <1>7, <1>8
    <2>2. CASE e = d
      BY <1>5, <2>2
    <2>3. CASE e # d /\ d.ftype # "dir"
      BY <1>1, <1>2, <2>1, <2>3, MoveFileRows
    <2>4. CASE e # d /\ d.ftype = "dir"
      <3>1. CASE e # Up(d)
        BY <1>1, <1>2, <2>1, <2>4, <3>1, MoveDirRows
      <3>2. CASE e = Up(d)
        <4>1. e.child = p
          BY <1>4, <3>2, RowFields DEF Up
        <4>2. /\ SelfRow(p).child = p /\ SelfRow(p).name = "."
              /\ Up(d).name = ".." /\ m # "." /\ d.name # "."
          BY <1>2, RowFields, NameAssumption DEF SelfRow, Up, Movable
        <4>3. SelfRow(p) \in dentry'
          BY <1>1, <1>2, <1>4, <2>4, <4>2, MoveDirRows DEF Entry
        <4> QED
          BY <4>1, <4>2, <4>3
      <3> QED
        BY <3>1, <3>2
    <2> QED
      BY <2>2, <2>3, <2>4
  <1>9. \A j \in Ino \ S : Referenced(j) => Referenced(j)'
    BY <1>8 DEF Referenced
  <1>10. handler' = Reclaim(S)
    BY <1>2
  <1> HIDE DEF S
  <1> QED
    BY <1>3, <1>6, <1>9, <1>10, OrphansReclaim

\* Requests that give an inode out hold it afterwards, and still hold the others
LEMMA ReplyHolds ==
  ASSUME TypeOK, NEW i \in Ino, ReplyEntry(i), NEW j \in Ino, Held(j) \/ j = i
  PROVE  Held(j)'
  <1>1. /\ \A l \in Ino : kref'[l] = kref[l] + (IF l = i THEN 1 ELSE 0)
        /\ forgets' = forgets
    BY ReplyFacts
  <1>2. \A l \in Ino : kref[l] \in Nat /\ forgets[l] \in Nat
    BY DEF TypeOK
  <1> QED
    BY <1>1, <1>2 DEF Held

LEMMA OrphansAdd ==
  ASSUME OrphanInv, TreeInv', Serving, UNCHANGED <<session, refused>>, handler'.op # "reclaim",
         NEW p \in Ino, NEW n \in Name, NEW k \in Kind, NEW i \in Ino,
         add_inode_and_dentry(p, n, k, i),
         UNCHANGED kernel \/ ReplyEntry(i)
  PROVE  OrphanInv'
  <1>1. TypeOK /\ StoreTypeOK /\ session = "mounted" /\ handler.op # "reclaim"
    BY TreeTypes DEF OrphanInv, Serving, None
  <1>2. dentry \subseteq dentry' /\ Row(p, i, k, n) \in dentry'
    BY DEF add_inode_and_dentry
  <1>3. \A j \in Ino \ {i} : metadata'[j] = metadata[j]
    BY <1>1, AddFacts
  <1>4. \A j \in Ino : Exists(j)' => Exists(j) \/ Referenced(j)'
    BY <1>2, <1>3, RowFields DEF Exists, Referenced
  <1>5. \A j \in Ino : Held(j) => Held(j)'
    BY <1>1, ReplyHolds DEF kernel, Held
  <1> QED
    BY <1>1, <1>2, <1>4, <1>5, OrphansQuiet

LEMMA OrphansReply ==
  ASSUME OrphanInv, TreeInv', session = "mounted", UNCHANGED <<session, refused>>,
         handler.op # "reclaim", handler'.op # "reclaim",
         NEW i \in Ino, ReplyEntry(i), metadata' = metadata, dentry \subseteq dentry'
  PROVE  OrphanInv'
  <1>1. TypeOK
    BY TreeTypes DEF OrphanInv
  <1>2. \A j \in Ino : Held(j) => Held(j)'
    BY <1>1, ReplyHolds
  <1> QED
    BY <1>2, OrphansQuiet DEF Exists

LEMMA OrphansLookup ==
  ASSUME OrphanInv, TreeInv', NEW p \in Ino, NEW n \in Name, Lookup(p, n) PROVE OrphanInv'
  <1>1. PICK d \in Entry(p, n) : ReplyEntry(d.child)
    BY DEF Lookup
  <1>2. d.child \in Ino
    BY TreeTypes DEF OrphanInv, StoreTypeOK, Entry, DEntry
  <1> QED
    BY <1>1, <1>2, OrphansReply DEF Lookup, Parent, Serving, None, store

LEMMA OrphansMkdir ==
  ASSUME OrphanInv, TreeInv', NEW p \in Ino, NEW n \in Name, Mkdir(p, n) PROVE OrphanInv'
  <1>1. PICK i \in Ino : add_inode_and_dentry(p, n, "dir", i) /\ ReplyEntry(i)
    BY DEF Mkdir
  <1> QED
    BY <1>1, OrphansAdd DEF Mkdir, Parent, Serving, None, Kind

LEMMA OrphansCreate ==
  ASSUME OrphanInv, TreeInv', NEW p \in Ino, NEW n \in Name, Create(p, n) PROVE OrphanInv'
  <1>1. CASE \E i \in Ino : add_inode_and_dentry(p, n, "file", i) /\ ReplyEntry(i)
    <2>1. PICK i \in Ino : add_inode_and_dentry(p, n, "file", i) /\ ReplyEntry(i)
      BY <1>1
    <2> QED
      BY <2>1, OrphansAdd DEF Create, Parent, Serving, None, Kind
  <1>2. CASE (\E d \in Entry(p, n) : ReplyEntry(d.child)) /\ UNCHANGED store
    <2>1. PICK d \in Entry(p, n) : ReplyEntry(d.child)
      BY <1>2
    <2>2. d.child \in Ino
      BY TreeTypes DEF OrphanInv, StoreTypeOK, Entry, DEntry
    <2> QED
      BY <1>2, <2>1, <2>2, OrphansReply DEF Create, Parent, Serving, None, store
  <1> QED
    BY <1>1, <1>2 DEF Create

LEMMA OrphansSymlink ==
  ASSUME OrphanInv, TreeInv', NEW p \in Ino, NEW n \in Name, Symlink(p, n) PROVE OrphanInv'
  <1>1. PICK i \in Ino : add_inode_and_dentry(p, n, "symlink", i) /\ handler'.op # "reclaim"
    BY DEF Symlink, None
  <1> QED
    BY <1>1, OrphansAdd DEF Symlink, Parent, Kind

LEMMA OrphansLink ==
  ASSUME OrphanInv, TreeInv', NEW i \in Ino, NEW p \in Ino, NEW n \in Name, Link(i, p, n)
  PROVE  OrphanInv'
  BY OrphansReply DEF Link, link_dentry, Parent, Serving, None

LEMMA OrphansSymlinkData == ASSUME OrphanInv, TreeInv', SymlinkData PROVE OrphanInv'
  <1>1. /\ session = "mounted" /\ UNCHANGED <<session, refused>>
        /\ handler.op # "reclaim" /\ handler'.op # "reclaim"
    BY DEF SymlinkData, None
  <1>2. CASE \E i \in handler.inos : write_link_data(i) /\ ReplyEntry(i)
    <2>1. PICK i \in handler.inos : write_link_data(i) /\ ReplyEntry(i)
      BY <1>2
    <2>2. i \in Ino
      BY TreeTypes DEF OrphanInv, TypeOK
    <2> QED
      BY <1>1, <2>1, <2>2, OrphansReply DEF write_link_data
  <1>3. CASE UNCHANGED <<store, lookup_count, kernel>>
    BY <1>1, <1>3, OrphansQuiet DEF store, kernel, Held, Exists
  <1> QED
    BY <1>2, <1>3 DEF SymlinkData

LEMMA OrphansForget ==
  ASSUME OrphanInv, TreeInv', NEW i \in Ino, NEW n \in 1 .. forgets[i], Forget(i, n)
  PROVE  OrphanInv'
  <1>1. /\ session = "mounted" /\ handler = None /\ UNCHANGED <<session, handler, kref>>
        /\ forgets' = [forgets EXCEPT ![i] = @ - n]
    BY DEF Forget, Serving
  <1>2. TypeOK /\ StoreTypeOK /\ TreeInv /\ CountInv
    BY TreeTypes DEF OrphanInv
  <1>3. \A j \in Ino \ {i} : Held(j)' <=> Held(j)
    BY <1>1, <1>2 DEF TypeOK, Held
  <1>4. CASE CountOf(i) = n
    <2>1. TryToDelete(i)
      BY <1>4 DEF Forget
    <2>2. dentry' = dentry
      BY <1>1, <1>2, <2>1, TreeDeleteInode DEF TreeInv
    <2>3. refused \subseteq refused' /\ (~Exists(i)' \/ Referenced(i)' \/ i \in refused')
      BY <1>2, <2>1, <2>2, TryToDeleteRows DEF Referenced
    <2>4. \A j \in Ino : Exists(j)' => Exists(j)
      BY <1>2, <2>1, TryToDeleteFacts DEF Exists
    <2> QED
      BY <1>1, <1>3, <2>2, <2>3, <2>4, OrphansQuiet DEF None
  <1>5. CASE CountOf(i) # n
    <2>1. UNCHANGED <<store, refused>>
      BY <1>5 DEF Forget
    <2>2. CountOf(i) = kref[i] + forgets[i]
      BY <1>1, <1>2 DEF CountInv, CountsAgree
    <2>3. Held(i)'
      <3>1. forgets'[i] = forgets[i] - n /\ kref'[i] = kref[i]
        BY <1>1, <1>2 DEF TypeOK
      <3>2. kref[i] \in Nat /\ forgets[i] \in Nat
        BY <1>2 DEF TypeOK
      <3>3. n \in Nat /\ n <= forgets[i] /\ kref[i] + forgets[i] # n
        BY <1>5, <2>2, <3>2
      <3> QED
        BY <3>1, <3>2, <3>3 DEF Held
    <2> QED
      BY <1>1, <1>3, <2>1, <2>3, OrphansQuiet DEF None, store, Exists
  <1> QED
    BY <1>4, <1>5

LEMMA OrphansFinish == ASSUME OrphanInv, TreeInv', FinishReclaim PROVE OrphanInv'
  <1>1. /\ session = "mounted" /\ handler.op = "reclaim" /\ handler' = None
        /\ UNCHANGED <<session, lookup_count, kernel>>
    BY DEF FinishReclaim
  <1>2. PICK i \in Ino : handler.inos = {i}
    BY <1>1 DEF OrphanInv, OneReclaimed
  <1>3. TryToDelete(i)
    BY <1>2 DEF FinishReclaim
  <1>4. StoreTypeOK /\ TypeOK /\ TreeInv /\ CountInv'
    BY TreeTypes DEF OrphanInv, TreeInv
  <1>5. dentry' = dentry
    BY <1>1, <1>3, <1>4, TreeDeleteInode
  <1>6. \A j \in Ino \ {i} : metadata'[j] = metadata[j]
    BY <1>3, <1>4, TryToDeleteFacts
  <1>7. refused \subseteq refused' /\ (~Exists(i)' \/ Referenced(i)' \/ i \in refused')
    BY <1>3, <1>4, <1>5, TryToDeleteRows DEF Referenced
  <1>8. OrphansInHand'
    BY <1>1, <1>2, <1>5, <1>6, <1>7
       DEF OrphanInv, OrphansInHand, InHand, Exists, Referenced, Held, kernel
  <1>9. OneReclaimed'
    BY <1>1 DEF OneReclaimed, None
  <1> QED
    BY <1>8, <1>9 DEF OrphanInv

\* The INIT request clears what a dead process left behind, or is refused all of it
LEMMA OrphansFuseInit == ASSUME OrphanInv, TreeInv', FuseInit PROVE OrphanInv'
  <1>1. StoreTypeOK /\ TreeInv /\ CountInv'
    BY TreeTypes DEF OrphanInv, TreeInv
  <1>2. session = "fuse_init" /\ session' = "mounted" /\ handler' = handler
    BY DEF FuseInit, Advance
  <1>3. /\ \E S \in SUBSET Ino : (\A j \in S : ~Referenced(j)) /\ DeleteRows(S)
        /\ \A i \in Ino : Exists(i)' => Referenced(i) \/ i \in refused'
    BY <1>1, TryToCleanUpRows DEF FuseInit
  <1>4. dentry' = dentry
    BY <1>1, <1>2, <1>3, TreeDelete
  <1>5. OrphansInHand'
    BY <1>3, <1>4 DEF OrphansInHand, Referenced
  <1>6. OneReclaimed'
    BY <1>2 DEF OrphanInv, OneReclaimed, None
  <1> QED
    BY <1>5, <1>6 DEF OrphanInv

LEMMA OrphansEvict == ASSUME OrphanInv, TreeInv', NEW i \in Ino, Evict(i) PROVE OrphanInv'
  <1>1. TypeOK
    BY TreeTypes DEF OrphanInv
  <1>2. \A j \in Ino : Held(j)' <=> Held(j)
    BY <1>1 DEF Evict, Held, TypeOK
  <1>3. UNCHANGED <<store, memory, refused>>
    BY DEF Evict
  <1> QED
    BY <1>2, <1>3 DEF OrphanInv, OneReclaimed, OrphansInHand, InHand, Exists, Referenced,
                      store, memory

\* Outside a mount the invariant says only that no handler is at work
LEMMA OrphansUnmounted ==
  ASSUME OrphanInv, TreeInv',
         \/ Start \/ InitRoot \/ InitDot \/ InitDotDot
         \/ Destroy \/ (\E i \in Ino : DestroyOne(i)) \/ Stop
  PROVE  OrphanInv'
  <1>1. session' # "mounted"
    BY DEF Start, InitRoot, InitDot, InitDotDot, Destroy, DestroyOne, Stop, Advance
  <1>2. session' # "destroy" => handler' = None
    BY DEF Start, InitRoot, InitDot, InitDotDot, Destroy, DestroyOne, Stop, Advance,
           OrphanInv, OneReclaimed
  <1> QED
    BY <1>1, <1>2 DEF OrphanInv, OneReclaimed, OrphansInHand

LEMMA OrphanInit == Init => OrphanInv
  BY TreeInit DEF Init, OrphanInv, OneReclaimed, OrphansInHand

LEMMA OrphanNext == OrphanInv /\ [Next]_vars => OrphanInv'
  <1> SUFFICES ASSUME OrphanInv, [Next]_vars PROVE OrphanInv'
    OBVIOUS
  <1>0. TreeInv'
    BY TreeNext DEF OrphanInv
  <1>1. CASE Request
    <2>1. CASE \E p \in Ino, n \in Name : \/ Lookup(p, n) \/ Mkdir(p, n) \/ Create(p, n)
                                          \/ Symlink(p, n) \/ Unlink(p, n) \/ Rmdir(p, n)
      BY <1>0, <2>1, OrphansLookup, OrphansMkdir, OrphansCreate, OrphansSymlink, OrphansRemove
    <2>2. CASE \E p, q \in Ino, n, m \in Name : Rename(p, n, q, m)
      BY <1>0, <2>2, OrphansRename
    <2>3. CASE \E i, p \in Ino, n \in Name : Link(i, p, n)
      BY <1>0, <2>3, OrphansLink
    <2>4. CASE \E i \in Ino : \E n \in 1 .. forgets[i] : Forget(i, n)
      BY <1>0, <2>4, OrphansForget
    <2> QED
      BY <1>1, <2>1, <2>2, <2>3, <2>4 DEF Request
  <1>2. CASE SymlinkData \/ FinishReclaim \/ FuseInit \/ \E i \in Ino : Evict(i)
    BY <1>0, <1>2, OrphansSymlinkData, OrphansFinish, OrphansFuseInit, OrphansEvict
  <1>3. CASE \/ Start \/ InitRoot \/ InitDot \/ InitDotDot
             \/ Destroy \/ (\E i \in Ino : DestroyOne(i)) \/ Stop
    BY <1>0, <1>3, OrphansUnmounted
  <1>4. CASE UNCHANGED vars
    BY <1>0, <1>4 DEF OrphanInv, OneReclaimed, OrphansInHand, InHand, Exists, Referenced, Held,
                      vars, store, memory, kernel
  <1> QED
    BY <1>1, <1>2, <1>3, <1>4 DEF Next

LEMMA OrphanInvHolds == Spec => []OrphanInv
  BY OrphanInit, OrphanNext, PTL DEF Spec

\* Between requests every inode is of use to someone, or the database refused to delete it
THEOREM NoOrphansEver == Spec => []NoOrphans
  <1>1. OrphanInv => NoOrphans
    BY DEF OrphanInv, OrphansInHand, NoOrphans, Serving, InHand, None
  <1> QED
    BY <1>1, OrphanInvHolds, PTL

---------------------------------------------------------------------------
(* The refinement of InodeLife: the mapping, by name *)

Node == Ino \ {ROOT}
Place == Ino \X Name
Born == {i \in Node : i < next_ino}
Alive == {i \in Node : Exists(i)}
Names == [i \in Node |-> NamesOf(i)]
HeldOnes == {i \in Node : Held(i)}

\* A symbolic link keeps its name between the two transactions of its handler.
LinkNamed ==
    session = "mounted" /\ handler.op = "symlink" => \A i \in handler.inos : HasName(i)

\* ".." leads to a directory, so that whatever refers to a file is a name.
UpRows == \A d \in dentry : d.name = ".." => d.ftype = "dir"

LifeInv == OrphanInv /\ LinkNamed /\ UpRows

\* The rows a user sees
NamedRows == {d \in dentry : d.name \in Name}
PlaceOf(d) == <<d.parent, d.name>>

LEMMA NamesAre ==
  /\ \A i : NamesOf(i) = {PlaceOf(d) : d \in {e \in NamedRows : e.child = i}}
  /\ \A i : NamesOf(i)' = {PlaceOf(d) : d \in {e \in NamedRows' : e.child = i}}
  <1>1. \A i : {e \in dentry : e.child = i /\ e.name \in Name} = {e \in NamedRows : e.child = i}
    BY DEF NamedRows
  <1>2. \A i : {e \in dentry' : e.child = i /\ e.name \in Name} = {e \in NamedRows' : e.child = i}
    BY DEF NamedRows
  <1> QED
    BY <1>1, <1>2, Zenon DEF NamesOf, PlaceOf

LEMMA NamedIs == \A i : HasName(i) <=> NamesOf(i) # {}
  BY DEF HasName, NamesOf

LEMMA UnreferencedIsUnnamed == ASSUME NEW i, ~Referenced(i) PROVE NamesOf(i) = {}
  BY NamedIs DEF Referenced, HasName

\* Named rows are of inodes other than the root, and their places are their own.
LEMMA NamedRowFacts ==
  ASSUME LifeInv, NEW d \in NamedRows
  PROVE  /\ d.child \in Node /\ d.parent \in Ino /\ d.name \in Name /\ PlaceOf(d) \in Place
         /\ d.child \in Alive /\ PlaceOf(d) \in NamesOf(d.child)
         /\ \A e \in NamedRows : PlaceOf(e) = PlaceOf(d) => e = d
         /\ \A i \in Node : PlaceOf(d) \in NamesOf(i) => i = d.child
  <1>1. TreeInv /\ StoreTypeOK
    BY TreeTypes DEF LifeInv, OrphanInv
  <1>2. /\ d \in dentry /\ d.name \in Name /\ d.child \in Ino /\ d.parent \in Ino
        /\ d.ftype \in Kind
    BY <1>1 DEF NamedRows, StoreTypeOK, DEntry
  <1>3. d.child # ROOT
    BY <1>1, <1>2 DEF TreeInv, RootUnnamed, HasName
  <1>4. Exists(d.child)
    BY <1>1, <1>2 DEF TreeInv, RowsRefer, Exists, Kind
  <1>5. \A e \in NamedRows : PlaceOf(e) = PlaceOf(d) => e = d
    BY <1>1, <1>2 DEF TreeInv, KeyUnique, NamedRows, PlaceOf
  <1>6. PlaceOf(d) \in NamesOf(d.child)
    BY NamesAre
  <1>7. \A i \in Node : PlaceOf(d) \in NamesOf(i) => i = d.child
    BY <1>5, NamesAre
  <1> QED
    BY <1>2, <1>3, <1>4, <1>5, <1>6, <1>7 DEF Node, Place, Alive, PlaceOf

---------------------------------------------------------------------------
(* What changes of the rows mean for the names *)

LEMMA NamesSame == ASSUME NamedRows' = NamedRows PROVE Names' = Names
  <1>1. \A i : NamesOf(i)' = NamesOf(i)
    BY NamesAre
  <1> QED
    BY <1>1 DEF Names

LEMMA NamesAdded ==
  ASSUME NEW r, NamedRows' = NamedRows \cup {r}, r.child \in Node
  PROVE  Names' = [Names EXCEPT ![r.child] = @ \cup {PlaceOf(r)}]
  <1>1. ASSUME NEW i
        PROVE  NamesOf(i)' = IF i = r.child THEN NamesOf(i) \cup {PlaceOf(r)} ELSE NamesOf(i)
    <2>1. CASE i = r.child
      <3>1. {e \in NamedRows' : e.child = i} = {e \in NamedRows : e.child = i} \cup {r}
        BY <2>1
      <3> QED
        BY <2>1, <3>1, NamesAre
    <2>2. CASE i # r.child
      <3>1. {e \in NamedRows' : e.child = i} = {e \in NamedRows : e.child = i}
        BY <2>2
      <3> QED
        BY <2>2, <3>1, NamesAre
    <2> QED
      BY <2>1, <2>2
  <1> QED
    BY <1>1 DEF Names

LEMMA NamesRemoved ==
  ASSUME LifeInv, NEW r \in NamedRows, NamedRows' = NamedRows \ {r}
  PROVE  Names' = [Names EXCEPT ![r.child] = @ \ {PlaceOf(r)}]
  <1>0. \A d \in NamedRows : PlaceOf(d) = PlaceOf(r) => d = r
    BY NamedRowFacts
  <1>1. ASSUME NEW i
        PROVE  NamesOf(i)' = IF i = r.child THEN NamesOf(i) \ {PlaceOf(r)} ELSE NamesOf(i)
    <2>1. CASE i = r.child
      <3>1. {e \in NamedRows' : e.child = i} = {e \in NamedRows : e.child = i} \ {r}
        OBVIOUS
      <3> QED
        BY <1>0, <2>1, <3>1, NamesAre
    <2>2. CASE i # r.child
      <3>1. {e \in NamedRows' : e.child = i} = {e \in NamedRows : e.child = i}
        BY <2>2
      <3> QED
        BY <2>2, <3>1, NamesAre
    <2> QED
      BY <2>1, <2>2
  <1> QED
    BY <1>1 DEF Names

\* A move takes the rows of both places, which may be one, and puts one in the second.
LEMMA NamesMoved ==
  ASSUME LifeInv, NEW d \in NamedRows, NEW q \in Ino, NEW m \in Name, NEW r,
         r.parent = q, r.name = m, r.child = d.child,
         NamedRows' = (NamedRows \ (Entry(q, m) \cup {d})) \cup {r}
  PROVE  Names' = [j \in Node |->
                    IF j = d.child THEN (Names[j] \ {PlaceOf(d)}) \cup {<<q, m>>}
                    ELSE Names[j] \ {<<q, m>>}]
  <1>0. /\ \A e \in NamedRows : PlaceOf(e) = PlaceOf(d) => e = d
        /\ \A e \in NamedRows : PlaceOf(e) = <<q, m>> <=> e \in Entry(q, m)
        /\ PlaceOf(r) = <<q, m>>
    BY NamedRowFacts DEF Entry, NamedRows, PlaceOf
  <1>1. \A i : NamesOf(i)' = {PlaceOf(e) : e \in {x \in NamedRows' : x.child = i}}
    BY NamesAre
  <1>2. ASSUME NEW i \in Node
        PROVE NamesOf(i)' = IF i = d.child THEN (NamesOf(i) \ {PlaceOf(d)}) \cup {<<q, m>>}
                            ELSE NamesOf(i) \ {<<q, m>>}
    <2>1. CASE i = d.child
      <3>1. {x \in NamedRows' : x.child = i} =
              {x \in NamedRows \ (Entry(q, m) \cup {d}) : x.child = i} \cup {r}
        BY <2>1
      <3>2. NamesOf(i)' =
              {PlaceOf(x) : x \in {y \in NamedRows \ (Entry(q, m) \cup {d}) : y.child = i}}
                \cup {<<q, m>>}
        BY <1>0, <1>1, <3>1
      <3> QED
        BY <1>0, <2>1, <3>2, NamesAre
    <2>2. CASE i # d.child
      <3>1. {x \in NamedRows' : x.child = i} =
              {x \in NamedRows \ Entry(q, m) : x.child = i}
        BY <2>2
      <3> QED
        BY <1>0, <1>1, <2>2, <3>1, NamesAre
    <2> QED
      BY <2>1, <2>2
  <1> QED
    BY <1>2 DEF Names

---------------------------------------------------------------------------
(* Steps of InodeLife, in these names *)

LEMMA LifeStutter ==
  ASSUME Born' = Born, Alive' = Alive, Names' = Names, HeldOnes' = HeldOnes
  PROVE  UNCHANGED Life!vars
  BY DEF Life!vars, Born, Alive, Names, HeldOnes, Node

LEMMA LifeBirth ==
  ASSUME NEW i \in Node, NEW pl \in Place, i \notin Born, \A j \in Node : pl \notin Names[j],
         Born' = Born \cup {i}, Alive' = Alive \cup {i}, Names' = [Names EXCEPT ![i] = {pl}],
         HeldOnes' \in {HeldOnes, HeldOnes \cup {i}}
  PROVE  Life!Next
  <1>1. Life!Birth(i, pl)
    BY DEF Life!Birth, Born, Alive, Names, HeldOnes, Node
  <1> QED
    BY <1>1 DEF Life!Next, Node, Place

LEMMA LifeAddName ==
  ASSUME NEW i \in Node, NEW pl \in Place, i \in Alive, Names[i] # {},
         \A j \in Node : pl \notin Names[j],
         Names' = [Names EXCEPT ![i] = @ \cup {pl}], HeldOnes' = HeldOnes \cup {i},
         Born' = Born, Alive' = Alive
  PROVE  Life!Next
  <1>1. Life!AddName(i, pl)
    BY DEF Life!AddName, Born, Alive, Names, HeldOnes, Node
  <1> QED
    BY <1>1 DEF Life!Next, Node, Place

LEMMA LifeDropName ==
  ASSUME NEW i \in Node, NEW pl \in Place, pl \in Names[i],
         Names' = [Names EXCEPT ![i] = @ \ {pl}],
         Born' = Born, Alive' = Alive, HeldOnes' = HeldOnes
  PROVE  Life!Next
  <1>1. Life!DropName(i, pl)
    BY DEF Life!DropName, Born, Alive, Names, HeldOnes, Node
  <1> QED
    BY <1>1 DEF Life!Next, Node, Place

LEMMA LifeMoveName ==
  ASSUME NEW i \in Node, NEW from \in Place, NEW to \in Place, from \in Names[i],
         Names' = [j \in Node |-> IF j = i THEN (Names[j] \ {from}) \cup {to}
                                           ELSE Names[j] \ {to}],
         Born' = Born, Alive' = Alive, HeldOnes' = HeldOnes
  PROVE  Life!Next
  <1>1. Life!MoveName(i, from, to)
    BY DEF Life!MoveName, Born, Alive, Names, HeldOnes, Node
  <1> QED
    BY <1>1 DEF Life!Next, Node, Place

LEMMA LifeHold ==
  ASSUME NEW i \in Node, i \in Alive, Names[i] # {}, HeldOnes' = HeldOnes \cup {i},
         Born' = Born, Alive' = Alive, Names' = Names
  PROVE  Life!Next
  <1>1. Life!Hold(i)
    BY DEF Life!Hold, Born, Alive, Names, HeldOnes, Node
  <1> QED
    BY <1>1 DEF Life!Next, Node

LEMMA LifeRelease ==
  ASSUME NEW i \in Node, HeldOnes' = HeldOnes \ {i},
         Alive' = Alive \/ (Names[i] = {} /\ Alive' = Alive \ {i}),
         Born' = Born, Names' = Names
  PROVE  Life!Next
  <1>1. Alive' \in {Alive, Alive \ {j \in {i} : Names[j] = {}}}
    <2>1. Names[i] = {} => {j \in {i} : Names[j] = {}} = {i}
      OBVIOUS
    <2> QED
      BY <2>1
  <1>2. Life!Release(i)
    BY <1>1 DEF Life!Release, Born, Alive, Names, HeldOnes, Node
  <1> QED
    BY <1>2 DEF Life!Next, Node

LEMMA LifeReleaseAll ==
  ASSUME HeldOnes' = {}, Born' = Born, Alive' = Alive, Names' = Names
  PROVE  Life!Next
  <1>1. Life!ReleaseAll
    BY DEF Life!ReleaseAll, Born, Alive, Names, HeldOnes, Node
  <1> QED
    BY <1>1 DEF Life!Next

LEMMA LifeFree ==
  ASSUME NEW S \in SUBSET Node, \A i \in S : Names[i] = {} /\ i \notin HeldOnes,
         Alive' = Alive \ S, Born' = Born, Names' = Names, HeldOnes' = HeldOnes
  PROVE  Life!Next
  <1>1. Life!Free(S)
    BY DEF Life!Free, Life!Unused, Born, Alive, Names, HeldOnes, Node
  <1> QED
    BY <1>1 DEF Life!Next, Node

---------------------------------------------------------------------------
(* The steps of the file system *)

LEMMA HeldReply ==
  ASSUME TypeOK, NEW i \in Ino, ReplyEntry(i)
  PROVE  HeldOnes' = HeldOnes \cup ({i} \cap Node)
  <1>1. /\ \A l \in Ino : kref'[l] = kref[l] + (IF l = i THEN 1 ELSE 0)
        /\ forgets' = forgets
    BY ReplyFacts
  <1>2. \A l \in Ino : kref[l] \in Nat /\ forgets[l] \in Nat
    BY DEF TypeOK
  <1>3. \A l \in Ino : Held(l)' <=> Held(l) \/ l = i
    BY <1>1, <1>2 DEF Held
  <1> QED
    BY <1>3 DEF HeldOnes, Node

LEMMA HeldSame == ASSUME UNCHANGED kernel PROVE HeldOnes' = HeldOnes
  BY DEF HeldOnes, Held, kernel

LEMMA RowsSame ==
  ASSUME UNCHANGED <<metadata, next_ino, dentry>>
  PROVE  Born' = Born /\ Alive' = Alive /\ Names' = Names
  <1>1. Names' = Names
    BY NamesSame DEF NamedRows
  <1> QED
    BY <1>1 DEF Born, Alive, Exists

\* Lookup, the Create of a file there is, and the data of a symbolic link
LEMMA ReplySteps ==
  ASSUME LifeInv, NEW i \in Ino, HasName(i), ReplyEntry(i), UNCHANGED <<metadata, next_ino, dentry>>
  PROVE  Life!Next
  <1>1. PICK d \in NamedRows : d.child = i
    BY DEF HasName, NamedRows
  <1>2. i \in Node /\ i \in Alive
    BY <1>1, NamedRowFacts
  <1>3. Names[i] # {}
    BY <1>2, NamedIs DEF Names
  <1>4. HeldOnes' = HeldOnes \cup {i}
    BY <1>2, TreeTypes, HeldReply DEF LifeInv, OrphanInv
  <1> QED
    BY <1>2, <1>3, <1>4, RowsSame, LifeHold

\* Mkdir, Create and Symlink
LEMMA AddSteps ==
  ASSUME LifeInv, NEW p \in Ino, NEW n \in Name, NEW k \in Kind, NEW i \in Ino, Parent(p),
         add_inode_and_dentry(p, n, k, i), UNCHANGED kernel \/ ReplyEntry(i)
  PROVE  Life!Next
  <1>1. TypeOK /\ StoreTypeOK /\ TreeInv /\ Fresh
    BY TreeTypes DEF LifeInv, OrphanInv
  <1>2. /\ i = next_ino /\ next_ino' = next_ino + 1 /\ metadata'[i] = k
        /\ \A j \in Ino \ {i} : metadata'[j] = metadata[j]
    BY <1>1, AddFacts
  <1>3. next_ino \in Nat /\ next_ino > 1
    BY <1>1, ParentLives, MaxInoAssumption DEF StoreTypeOK
  <1>4. i \in Node /\ i \notin Born /\ ~Exists(i)
    BY <1>1, <1>2, <1>3 DEF Node, ROOT, Born, Fresh
  <1>5. Born' = Born \cup {i}
    BY <1>2, <1>3, <1>4 DEF Born, Node, Ino
  <1>6. Alive' = Alive \cup {i}
    BY <1>2, <1>4 DEF Alive, Exists, Node, Kind
  <1>7. PICK r : r = Row(p, i, k, n)
    OBVIOUS
  <1>8. r.child = i /\ r.name = n /\ PlaceOf(r) = <<p, n>>
    BY <1>7, RowFields DEF PlaceOf
  <1>9. NamedRows' = NamedRows \cup {r}
    BY <1>7, <1>8, RowFields, NameAssumption DEF add_inode_and_dentry, DotRows, NamedRows
  <1>10. \A d \in NamedRows : d.child # i
    BY <1>4, NamedRowFacts DEF Alive
  <1>11. NamesOf(i) = {}
    BY <1>10, NamesAre
  <1>12. Names' = [Names EXCEPT ![i] = {<<p, n>>}]
    BY <1>4, <1>8, <1>9, <1>11, NamesAdded DEF Names
  <1>13. ASSUME NEW j \in Node, <<p, n>> \in Names[j] PROVE FALSE
    <2>1. PICK d \in NamedRows : PlaceOf(d) = <<p, n>>
      BY <1>13, NamesAre DEF Names
    <2>2. d \in Entry(p, n)
      BY <2>1 DEF PlaceOf, NamedRows, Entry
    <2> QED
      BY <2>2 DEF add_inode_and_dentry
  <1>14. HeldOnes' \in {HeldOnes, HeldOnes \cup {i}}
    BY <1>1, <1>4, HeldReply, HeldSame
  <1>15. <<p, n>> \in Place
    BY DEF Place
  <1> QED
    BY <1>4, <1>5, <1>6, <1>12, <1>13, <1>14, <1>15, LifeBirth

LEMMA LinkSteps ==
  ASSUME LifeInv, NEW i \in Ino, NEW p \in Ino, NEW n \in Name, Link(i, p, n)
  PROVE  Life!Next
  <1>1. TypeOK /\ StoreTypeOK /\ TreeInv
    BY TreeTypes DEF LifeInv, OrphanInv
  <1>2. /\ ReplyEntry(i) /\ Referenced(i) /\ metadata[i] = "file" /\ Entry(p, n) = {}
        /\ dentry' = dentry \cup {Row(p, i, "file", n)}
        /\ metadata' = metadata /\ next_ino' = next_ino
    BY DEF Link, link_dentry, HasAttributes
  \* the references of a file are names
  <1>3. PICK d \in NamedRows : d.child = i
    <2>1. PICK e \in dentry : e.child = i
      BY <1>2 DEF Referenced
    <2>2. e.ftype = "file" /\ e.name \in DentryName
      BY <1>1, <1>2, <2>1 DEF TreeInv, RowsRefer, StoreTypeOK, DEntry
    <2>3. e.name # "."
      BY <1>1, <2>1, <2>2, RowFields DEF TreeInv, SelfRows, SelfRow
    <2>4. e.name # ".."
      BY <1>1, <2>1, <2>2 DEF LifeInv, UpRows
    <2> QED
      BY <2>1, <2>2, <2>3, <2>4 DEF NamedRows, DentryName
  <1>4. i \in Node /\ i \in Alive
    BY <1>3, NamedRowFacts
  <1>5. Names[i] # {}
    BY <1>3, <1>4, NamesAre DEF Names
  <1>6. PICK r : r = Row(p, i, "file", n)
    OBVIOUS
  <1>7. r.child = i /\ r.name = n /\ PlaceOf(r) = <<p, n>>
    BY <1>6, RowFields DEF PlaceOf
  <1>8. NamedRows' = NamedRows \cup {r}
    BY <1>2, <1>6, <1>7 DEF NamedRows
  <1>9. Names' = [Names EXCEPT ![i] = @ \cup {<<p, n>>}]
    BY <1>4, <1>7, <1>8, NamesAdded
  <1>10. ASSUME NEW j \in Node, <<p, n>> \in Names[j] PROVE FALSE
    <2>1. PICK e \in NamedRows : PlaceOf(e) = <<p, n>>
      BY <1>10, NamesAre DEF Names
    <2>2. e \in Entry(p, n)
      BY <2>1 DEF PlaceOf, NamedRows, Entry
    <2> QED
      BY <1>2, <2>2
  <1>11. HeldOnes' = HeldOnes \cup {i}
    BY <1>1, <1>2, <1>4, HeldReply
  <1>12. Born' = Born /\ Alive' = Alive
    BY <1>2 DEF Born, Alive, Exists
  <1>13. <<p, n>> \in Place
    BY DEF Place
  <1> QED
    BY <1>4, <1>5, <1>9, <1>10, <1>11, <1>12, <1>13, LifeAddName

LEMMA RemoveSteps ==
  ASSUME LifeInv, NEW p \in Ino, NEW n \in Name, Unlink(p, n) \/ Rmdir(p, n)
  PROVE  Life!Next
  <1>1. PICK d \in Entry(p, n) :
           /\ metadata[d.child] = "dir" => check_directory_is_empty(d.child)
           /\ delete_dentry(p, n, d.child)
    BY DEF Unlink, Rmdir
  <1>2. /\ UNCHANGED <<kernel, metadata, next_ino>>
        /\ dentry' = {e \in dentry \ Entry(p, n) : e.parent # d.child}
    BY <1>1 DEF Unlink, Rmdir, delete_dentry
  <1>3. TreeInv /\ StoreTypeOK
    BY TreeTypes DEF LifeInv, OrphanInv
  <1>4. Entry(p, n) = {d} /\ d \in NamedRows /\ PlaceOf(d) = <<p, n>>
    BY <1>3 DEF Entry, TreeInv, KeyUnique, NamedRows, PlaceOf
  <1>5. \A e \in NamedRows : e.parent # d.child
    BY <1>1, <1>3 DEF check_directory_is_empty, TreeInv, RowsRefer, NamedRows
  <1>6. NamedRows' = NamedRows \ {d}
    BY <1>2, <1>4, <1>5 DEF NamedRows
  <1>7. Names' = [Names EXCEPT ![d.child] = @ \ {PlaceOf(d)}]
    BY <1>4, <1>6, NamesRemoved
  <1>8. d.child \in Node /\ PlaceOf(d) \in Place /\ PlaceOf(d) \in Names[d.child]
    BY <1>4, NamedRowFacts DEF Names
  <1>9. Born' = Born /\ Alive' = Alive /\ HeldOnes' = HeldOnes
    BY <1>2, HeldSame DEF Born, Alive, Exists
  <1> QED
    BY <1>7, <1>8, <1>9, LifeDropName

LEMMA RenameSteps ==
  ASSUME LifeInv, NEW p \in Ino, NEW n \in Name, NEW q \in Ino, NEW m \in Name,
         Rename(p, n, q, m)
  PROVE  Life!Next
  <1>1. TreeInv /\ StoreTypeOK /\ Shape
    BY TreeTypes DEF LifeInv, OrphanInv
  <1>2. PICK d \in Entry(p, n) : Movable(d, q, m)
    BY <1>1, RenameMovable
  <1>3. UNCHANGED <<kernel, metadata, next_ino>>
    BY <1>2 DEF Rename, Movable, move_dentry
  <1>4. d \in NamedRows
    BY <1>2 DEF Movable, NamedRows
  <1>5. PICK r : r = Moved(d, q, m)
    OBVIOUS
  <1>6. r.parent = q /\ r.name = m /\ r.child = d.child
    BY <1>1, <1>2, <1>5, MoveNames
  <1>7. NamedRows' = (NamedRows \ (Entry(q, m) \cup {d})) \cup {r}
    <2>1. /\ \A x \in dentry' : x.name \in Name =>
                x = r \/ (x \in dentry /\ x # d /\ x \notin Entry(q, m))
          /\ \A x \in dentry : x.name \in Name => x = d \/ x \in Entry(q, m) \/ x \in dentry'
          /\ r \in dentry'
      BY <1>1, <1>2, <1>5, MoveNames
    <2> QED
      BY <1>6, <2>1 DEF NamedRows
  <1>8. Names' = [j \in Node |->
                    IF j = d.child THEN (Names[j] \ {PlaceOf(d)}) \cup {<<q, m>>}
                    ELSE Names[j] \ {<<q, m>>}]
    BY <1>4, <1>6, <1>7, NamesMoved
  <1>9. /\ d.child \in Node /\ PlaceOf(d) \in Place /\ PlaceOf(d) \in Names[d.child]
        /\ <<q, m>> \in Place
    BY <1>4, NamedRowFacts DEF Names, Place
  <1>10. Born' = Born /\ Alive' = Alive /\ HeldOnes' = HeldOnes
    BY <1>3, HeldSame DEF Born, Alive, Exists
  <1> QED
    BY <1>8, <1>9, <1>10, LifeMoveName

\* What is unreferenced is unnamed, and the root is not.
LEMMA DeleteNames ==
  ASSUME LifeInv, TreeInv', NEW S \in SUBSET Ino, \A i \in S : ~Referenced(i), DeleteRows(S),
         session \in {"fuse_init", "mounted", "destroy"}, session' \in {"mounted", "destroy"}
  PROVE  /\ S \subseteq Node /\ \A i \in S : Names[i] = {}
         /\ Born' = Born /\ Names' = Names /\ Alive' = Alive \ S
  <1>1. TreeInv /\ StoreTypeOK /\ CountInv'
    BY TreeTypes DEF LifeInv, OrphanInv, TreeInv
  <1>2. dentry' = dentry
    BY <1>1, TreeDelete
  <1>3. Referenced(ROOT)
    BY <1>1, RowFields DEF TreeInv, RootThere, Referenced, SelfRow
  <1>4. S \subseteq Node
    BY <1>3 DEF Node
  <1>5. \A i \in S : Names[i] = {}
    BY <1>4, UnreferencedIsUnnamed DEF Names
  <1>6. Alive' = Alive \ S /\ next_ino' = next_ino
    BY <1>1, DeleteRowsFacts DEF Alive, Exists, Node
  <1>7. Names' = Names
    BY <1>2, NamesSame DEF NamedRows
  <1> QED
    BY <1>4, <1>5, <1>6, <1>7 DEF Born

\* FinishReclaim, FuseInit and DestroyOne
LEMMA FreeSteps ==
  ASSUME LifeInv, TreeInv', NEW S \in SUBSET Ino,
         \A i \in S : ~Referenced(i) /\ ~Held(i), DeleteRows(S), UNCHANGED kernel,
         session \in {"fuse_init", "mounted", "destroy"}, session' \in {"mounted", "destroy"}
  PROVE  Life!Next
  <1>1. /\ S \subseteq Node /\ \A i \in S : Names[i] = {}
        /\ Born' = Born /\ Names' = Names /\ Alive' = Alive \ S
    BY DeleteNames
  <1>2. \A i \in S : i \notin HeldOnes
    BY DEF HeldOnes
  <1> QED
    BY <1>1, <1>2, HeldSame, LifeFree

LEMMA FreeOneSteps ==
  ASSUME LifeInv, TreeInv', NEW i \in Ino, ~Held(i), TryToDelete(i), UNCHANGED kernel,
         session \in {"mounted", "destroy"}, session' = session
  PROVE  Life!Next
  <1>1. PICK S \in SUBSET {i} : (\A j \in S : ~Referenced(j)) /\ DeleteRows(S)
    BY TreeTypes, TryToDeleteRows DEF LifeInv, OrphanInv
  <1> QED
    BY <1>1, FreeSteps

LEMMA ForgetSteps ==
  ASSUME LifeInv, TreeInv', NEW i \in Ino, NEW n \in 1 .. forgets[i], Forget(i, n)
  PROVE  Life!Next \/ UNCHANGED Life!vars
  <1>1. /\ session = "mounted" /\ UNCHANGED <<session, handler, kref>>
        /\ forgets' = [forgets EXCEPT ![i] = @ - n]
    BY DEF Forget, Serving
  <1>2. TypeOK /\ StoreTypeOK /\ TreeInv /\ CountInv
    BY TreeTypes DEF LifeInv, OrphanInv
  <1>3. \A j \in Ino \ {i} : Held(j)' <=> Held(j)
    BY <1>1, <1>2 DEF TypeOK, Held
  <1>4. CountOf(i) = kref[i] + forgets[i] /\ kref[i] \in Nat /\ forgets[i] \in Nat
    BY <1>1, <1>2 DEF CountInv, CountsAgree, TypeOK
  <1>5. CASE CountOf(i) = n
    <2>1. PICK S \in SUBSET {i} : (\A j \in S : ~Referenced(j)) /\ DeleteRows(S)
      BY <1>2, <1>5, TryToDeleteRows DEF Forget
    <2>2. S \in SUBSET Ino /\ DeleteRows(S) /\ \A j \in S : ~Referenced(j)
      BY <2>1
    <2>3. /\ S \subseteq Node /\ \A j \in S : Names[j] = {}
          /\ Born' = Born /\ Names' = Names /\ Alive' = Alive \ S
      BY <1>1, <2>2, DeleteNames
    <2>4. ~Held(i)'
      BY <1>1, <1>2, <1>4, <1>5 DEF Held, TypeOK
    <2>5. HeldOnes' = HeldOnes \ {i}
      BY <1>3, <2>4 DEF HeldOnes, Node
    <2>6. CASE i \in Node
      <3>1. Alive' = Alive \/ (Names[i] = {} /\ Alive' = Alive \ {i})
        BY <2>1, <2>3
      <3> QED
        BY <2>3, <2>5, <2>6, <3>1, LifeRelease
    <2>7. CASE i \notin Node
      <3>1. S = {} /\ i \notin HeldOnes
        BY <2>1, <2>3, <2>7 DEF HeldOnes
      <3> QED
        BY <2>3, <2>5, <3>1, LifeStutter
    <2> QED
      BY <2>6, <2>7
  <1>6. CASE CountOf(i) # n
    <2>1. UNCHANGED store
      BY <1>6 DEF Forget
    <2>2. Held(i) /\ Held(i)'
      <3>1. forgets'[i] = forgets[i] - n /\ kref'[i] = kref[i]
        BY <1>1, <1>2 DEF TypeOK
      <3>2. n \in Nat /\ n > 0 /\ n <= forgets[i] /\ kref[i] + forgets[i] # n
        BY <1>4, <1>6
      <3> QED
        BY <1>4, <3>1, <3>2 DEF Held
    <2>3. HeldOnes' = HeldOnes
      BY <1>3, <2>2 DEF HeldOnes, Node
    <2> QED
      BY <2>1, <2>3, RowsSame, LifeStutter DEF store
  <1> QED
    BY <1>5, <1>6

LEMMA FinishSteps == ASSUME LifeInv, TreeInv', FinishReclaim PROVE Life!Next
  <1>1. /\ session = "mounted" /\ handler.op = "reclaim"
        /\ UNCHANGED <<session, lookup_count, kernel>>
    BY DEF FinishReclaim
  <1>2. PICK i \in Ino : i \in handler.inos /\ TryToDelete(i)
    BY TreeTypes DEF FinishReclaim, LifeInv, OrphanInv, TypeOK
  <1>3. ~Held(i)
    BY <1>1, <1>2 DEF LifeInv, OrphanInv, TreeInv, CountInv, ReclaimedUnheld, Held
  <1> QED
    BY <1>1, <1>2, <1>3, FreeOneSteps

LEMMA FuseInitSteps == ASSUME LifeInv, TreeInv', FuseInit PROVE Life!Next
  <1>1. session = "fuse_init" /\ session' = "mounted" /\ UNCHANGED kernel
    BY DEF FuseInit, Advance
  <1>2. PICK S \in SUBSET Ino : (\A j \in S : ~Referenced(j)) /\ DeleteRows(S)
    BY TreeTypes, TryToCleanUpRows DEF FuseInit, LifeInv, OrphanInv
  <1>3. \A i \in Ino : ~Held(i)
    BY <1>1 DEF LifeInv, OrphanInv, TreeInv, CountInv, NoMountNoHold, Held
  <1> QED
    BY <1>1, <1>2, <1>3, FreeSteps

LEMMA DestroyOneSteps ==
  ASSUME LifeInv, TreeInv', NEW i \in Ino, DestroyOne(i) PROVE Life!Next
  <1>1. session = "destroy" /\ session' = session /\ UNCHANGED kernel /\ TryToDelete(i)
    BY DEF DestroyOne
  <1>2. ~Held(i)
    BY <1>1 DEF LifeInv, OrphanInv, TreeInv, CountInv, NoMountNoHold, Held
  <1> QED
    BY <1>1, <1>2, FreeOneSteps

LEMMA EndSteps == ASSUME Destroy \/ Stop PROVE Life!Next
  <1>1. kref' = NoRefs /\ forgets' = NoRefs /\ UNCHANGED store
    BY DEF Destroy, Stop
  <1>2. HeldOnes' = {}
    BY <1>1 DEF HeldOnes, Held, NoRefs, Node
  <1> QED
    BY <1>1, <1>2, RowsSame, LifeReleaseAll DEF store

LEMMA EvictSteps == ASSUME LifeInv, NEW i \in Ino, Evict(i) PROVE UNCHANGED Life!vars
  <1>1. TypeOK
    BY TreeTypes DEF LifeInv, OrphanInv
  <1>2. \A j \in Ino : Held(j)' <=> Held(j)
    BY <1>1 DEF Evict, Held, TypeOK
  <1>3. HeldOnes' = HeldOnes /\ UNCHANGED store
    BY <1>2 DEF HeldOnes, Node, Evict
  <1> QED
    BY <1>3, RowsSame, LifeStutter DEF store

\* The rows of the root are not among those InodeLife speaks of.
LEMMA StartSteps ==
  ASSUME LifeInv, Start \/ InitRoot \/ InitDot \/ InitDotDot PROVE UNCHANGED Life!vars
  <1>0. StoreTypeOK /\ TreeInv /\ Fresh
    BY TreeTypes DEF LifeInv, OrphanInv
  <1>1. CASE UNCHANGED <<metadata, next_ino, dentry, kernel>>
    BY <1>1, RowsSame, HeldSame, LifeStutter
  <1>2. CASE InitRoot /\ ~Exists(ROOT)
    <2>1. PICK i \in Ino : /\ i = next_ino /\ next_ino' = next_ino + 1
                           /\ metadata' = [metadata EXCEPT ![i] = "dir"]
                           /\ dentry' = dentry /\ UNCHANGED kernel
      BY <1>2 DEF InitRoot, init_root, AllocIno
    <2>2. i = ROOT /\ next_ino = 1 /\ next_ino' = 2
      BY <1>0, <1>2, <2>1, MaxInoAssumption DEF TreeInv, RootThere, StoreTypeOK, Exists, ROOT
    <2>3. Born' = Born /\ Alive' = Alive
      BY <1>0, <2>1, <2>2 DEF Born, Alive, Node, Exists, Ino, ROOT, StoreTypeOK
    <2> QED
      BY <2>1, <2>3, NamesSame, HeldSame, LifeStutter DEF NamedRows
  <1>3. CASE InitDot \/ InitDotDot
    <2>1. PICK n \in {".", ".."} : init_dot(n) /\ UNCHANGED kernel
      BY <1>3 DEF InitDot, InitDotDot
    <2>2. NamedRows' = NamedRows
      BY <2>1, RowFields, NameAssumption DEF init_dot, NamedRows
    <2>3. Born' = Born /\ Alive' = Alive
      BY <2>1 DEF init_dot, Born, Alive, Exists
    <2> QED
      BY <2>1, <2>2, <2>3, NamesSame, HeldSame, LifeStutter
  <1> QED
    BY <1>1, <1>2, <1>3 DEF Start, InitRoot, init_root, store

---------------------------------------------------------------------------
(* LifeInv is inductive, and every step is one of InodeLife or none *)

LEMMA UpRowsKept == ASSUME LifeInv, [Next]_vars PROVE UpRows'
  <1>1. ASSUME NEW p \in Ino, NEW n \in Name, NEW k \in Kind, NEW i \in Ino,
               add_inode_and_dentry(p, n, k, i)
        PROVE  UpRows'
    <2>1. n # ".."
      BY NameAssumption
    <2> QED
      BY <1>1, <2>1, RowFields DEF add_inode_and_dentry, DotRows, UpRows, LifeInv
  <1>2. ASSUME NEW i \in Ino, NEW p \in Ino, NEW n \in Name, link_dentry(i, p, n) PROVE UpRows'
    <2>1. n # ".."
      BY NameAssumption
    <2> QED
      BY <1>2, <2>1, RowFields DEF link_dentry, UpRows, LifeInv
  <1>3. ASSUME dentry' \subseteq dentry PROVE UpRows'
    BY <1>3 DEF UpRows, LifeInv
  <1>4. ASSUME NEW d \in dentry, NEW q \in Ino, NEW m \in Name, move_dentry(d, q, m) PROVE UpRows'
    <2>1. PICK rows : rows = (dentry \ (Entry(q, m) \cup {d})) \cup {Row(q, d.child, d.ftype, m)}
      OBVIOUS
    <2>2. \A e \in rows : e.name = ".." => e.ftype = "dir"
      BY <2>1, RowFields, NameAssumption DEF LifeInv, UpRows
    <2>3. dentry' = MoveDotDot(d, q, rows)
      BY <1>4, <2>1 DEF move_dentry
    <2> QED
      BY <2>2, <2>3, RowFields DEF MoveDotDot, UpRows
  <1>5. ASSUME NEW n, init_dot(n) PROVE UpRows'
    BY <1>5, RowFields DEF init_dot, UpRows, LifeInv
  <1>6. ASSUME NEW S, DeleteRows(S) PROVE UpRows'
    BY <1>3, <1>6 DEF DeleteRows
  <1>7. CASE Request
    <2>1. CASE \E p \in Ino, n \in Name : \/ Lookup(p, n) \/ Unlink(p, n) \/ Rmdir(p, n)
      BY <1>3, <2>1 DEF Lookup, Unlink, Rmdir, delete_dentry, store
    <2>2. CASE \E p \in Ino, n \in Name : Mkdir(p, n) \/ Create(p, n) \/ Symlink(p, n)
      BY <1>1, <1>3, <2>2 DEF Mkdir, Create, Symlink, Kind, store
    <2>3. CASE \E p, q \in Ino, n, m \in Name : Rename(p, n, q, m)
      BY <1>4, <2>3 DEF Rename, Entry
    <2>4. CASE \E i, p \in Ino, n \in Name : Link(i, p, n)
      BY <1>2, <2>4 DEF Link
    <2>5. CASE \E i \in Ino : \E n \in 1 .. forgets[i] : Forget(i, n)
      BY <1>3, <1>6, <2>5 DEF Forget, TryToDelete, delete_inode_if_noref, store
    <2> QED
      BY <1>7, <2>1, <2>2, <2>3, <2>4, <2>5 DEF Request
  <1>8. CASE FinishReclaim \/ FuseInit \/ \E i \in Ino : DestroyOne(i)
    BY <1>3, <1>6, <1>8 DEF FinishReclaim, FuseInit, DestroyOne, TryToDelete, TryToCleanUp,
                            delete_inode_if_noref, delete_all_noref_inode, store
  <1>9. CASE InitDot \/ InitDotDot
    BY <1>5, <1>9 DEF InitDot, InitDotDot
  <1>10. CASE SymlinkData \/ Start \/ InitRoot \/ Destroy \/ Stop \/ (\E i \in Ino : Evict(i))
              \/ UNCHANGED vars
    BY <1>3, <1>10 DEF SymlinkData, write_link_data, Start, InitRoot, init_root, Destroy, Stop,
                       Evict, vars, store
  <1> QED
    BY <1>7, <1>8, <1>9, <1>10 DEF Next

LEMMA LinkNamedKept == ASSUME LifeInv, [Next]_vars PROVE LinkNamed'
  <1>1. CASE UNCHANGED <<session, handler, dentry>>
    BY <1>1 DEF LifeInv, LinkNamed, HasName
  <1>2. CASE handler' = None \/ session' # "mounted"
    BY <1>2 DEF LinkNamed, None
  <1>3. ASSUME Serving, UNCHANGED handler PROVE LinkNamed'
    BY <1>2, <1>3 DEF Serving
  <1>4. ASSUME NEW S, handler' = Reclaim(S) PROVE LinkNamed'
    BY <1>4 DEF Reclaim, None, LinkNamed
  <1>5. ASSUME NEW p \in Ino, NEW n \in Name, Symlink(p, n) PROVE LinkNamed'
    <2>1. PICK i \in Ino : /\ add_inode_and_dentry(p, n, "symlink", i)
                           /\ handler' = None \/ handler' = [op |-> "symlink", inos |-> {i}]
      BY <1>5 DEF Symlink
    <2>2. HasName(i)'
      BY <2>1, RowFields DEF add_inode_and_dentry, HasName
    <2> QED
      BY <1>2, <2>1, <2>2 DEF LinkNamed
  <1>6. CASE Request
    <2>1. CASE \E p \in Ino, n \in Name : \/ Lookup(p, n) \/ Mkdir(p, n) \/ Create(p, n)
      BY <1>3, <2>1 DEF Lookup, Mkdir, Create, Parent
    <2>2. CASE \E p \in Ino, n \in Name : Unlink(p, n) \/ Rmdir(p, n)
      BY <1>4, <2>2 DEF Unlink, Rmdir
    <2>3. CASE \E p, q \in Ino, n, m \in Name : Rename(p, n, q, m)
      BY <1>4, <2>3 DEF Rename
    <2>4. CASE \E i, p \in Ino, n \in Name : Link(i, p, n)
      BY <1>3, <2>4 DEF Link, Parent
    <2>5. CASE \E i \in Ino : \E n \in 1 .. forgets[i] : Forget(i, n)
      BY <1>3, <2>5 DEF Forget
    <2> QED
      BY <1>5, <1>6, <2>1, <2>2, <2>3, <2>4, <2>5 DEF Request
  <1>7. CASE SymlinkData \/ FinishReclaim \/ Stop
    BY <1>2, <1>7 DEF SymlinkData, FinishReclaim, Stop
  <1>8. CASE Start \/ InitRoot \/ InitDot \/ InitDotDot \/ Destroy \/ \E i \in Ino : DestroyOne(i)
    BY <1>2, <1>8 DEF Start, InitRoot, InitDot, InitDotDot, Destroy, DestroyOne, Advance
  <1>9. CASE FuseInit
    BY <1>2, <1>9 DEF FuseInit, Advance, LifeInv, OrphanInv, OneReclaimed
  <1>10. CASE UNCHANGED vars \/ \E i \in Ino : Evict(i)
    BY <1>1, <1>10 DEF vars, Evict, store, memory
  <1> QED
    BY <1>6, <1>7, <1>8, <1>9, <1>10 DEF Next

LEMMA LifeInvHolds == Spec => []LifeInv
  <1>1. Init => LifeInv
    BY OrphanInit DEF Init, EmptyStore, LifeInv, LinkNamed, UpRows
  <1>2. LifeInv /\ [Next]_vars => LifeInv'
    BY OrphanNext, UpRowsKept, LinkNamedKept DEF LifeInv
  <1> QED
    BY <1>1, <1>2, PTL DEF Spec

LEMMA LifeStep == LifeInv /\ [Next]_vars => [Life!Next]_(Life!vars)
  <1> SUFFICES ASSUME LifeInv, [Next]_vars PROVE Life!Next \/ UNCHANGED Life!vars
    OBVIOUS
  <1>0. TreeInv' /\ StoreTypeOK /\ TypeOK
    BY OrphanNext, TreeTypes DEF LifeInv, OrphanInv
  <1>1. ASSUME NEW p \in Ino, NEW n \in Name, NEW d \in Entry(p, n)
        PROVE  d.child \in Ino /\ HasName(d.child)
    BY <1>0 DEF Entry, StoreTypeOK, DEntry, HasName
  <1>2. CASE Request
    <2>1. ASSUME NEW p \in Ino, NEW n \in Name, Lookup(p, n) PROVE Life!Next
      BY <1>1, <2>1, ReplySteps DEF Lookup, store
    <2>2. ASSUME NEW p \in Ino, NEW n \in Name, Mkdir(p, n) \/ Symlink(p, n) PROVE Life!Next
      BY <2>2, AddSteps DEF Mkdir, Symlink, Kind
    <2>3. ASSUME NEW p \in Ino, NEW n \in Name, Create(p, n) PROVE Life!Next
      <3>1. \/ \E i \in Ino : add_inode_and_dentry(p, n, "file", i) /\ ReplyEntry(i)
            \/ (\E d \in Entry(p, n) : ReplyEntry(d.child)) /\ UNCHANGED store
        BY <2>3 DEF Create
      <3>2. Parent(p) /\ "file" \in Kind
        BY <2>3 DEF Create, Kind
      <3> QED
        BY <1>1, <3>1, <3>2, AddSteps, ReplySteps DEF store
    <2>4. ASSUME NEW i \in Ino, NEW n \in 1 .. forgets[i], Forget(i, n)
          PROVE  Life!Next \/ UNCHANGED Life!vars
      BY <1>0, <2>4, ForgetSteps
    <2> QED
      BY <1>2, <2>1, <2>2, <2>3, <2>4, RemoveSteps, RenameSteps, LinkSteps DEF Request
  <1>3. CASE SymlinkData
    <2>1. CASE \E i \in handler.inos : write_link_data(i) /\ ReplyEntry(i)
      <3>1. PICK i \in handler.inos : write_link_data(i) /\ ReplyEntry(i)
        BY <2>1
      <3>2. i \in Ino /\ HasName(i)
        BY <1>0, <1>3, <3>1 DEF SymlinkData, LifeInv, LinkNamed, TypeOK
      <3> QED
        BY <3>1, <3>2, ReplySteps DEF write_link_data
    <2>2. CASE UNCHANGED <<store, lookup_count, kernel>>
      BY <2>2, RowsSame, HeldSame, LifeStutter DEF store
    <2> QED
      BY <1>3, <2>1, <2>2 DEF SymlinkData
  <1>4. CASE FinishReclaim \/ FuseInit \/ Destroy \/ Stop \/ \E i \in Ino : DestroyOne(i)
    BY <1>0, <1>4, FinishSteps, FuseInitSteps, EndSteps, DestroyOneSteps
  <1>5. CASE Start \/ InitRoot \/ InitDot \/ InitDotDot \/ \E i \in Ino : Evict(i)
    BY <1>5, StartSteps, EvictSteps
  <1>6. CASE UNCHANGED vars
    BY <1>6, RowsSame, HeldSame, LifeStutter DEF vars, store
  <1> QED
    BY <1>2, <1>3, <1>4, <1>5, <1>6 DEF Next

\* The file system keeps the promise of InodeLife: the tables, the counts and the handlers
\* of two transactions together are inodes that live as long as they have a name or the
\* kernel holds them, for every set of names and every bound.
THEOREM SqliteFsImplementsInodeLife == Spec => LifeSpec
  <1>1. Init => Life!Init
    <2> SUFFICES ASSUME Init PROVE Life!Init
      OBVIOUS
    <2>1. /\ next_ino = 1 /\ dentry = {} /\ \A i \in Ino : metadata[i] = "none"
          /\ kref = NoRefs /\ forgets = NoRefs
      BY DEF Init, EmptyStore
    <2>2. \A i : NamesOf(i) = {}
      BY <2>1 DEF NamesOf
    <2>3. \A i \in Ino : ~Exists(i) /\ ~Held(i) /\ ~(i < next_ino)
      BY <2>1 DEF Exists, Held, NoRefs, Ino
    <2> QED
      BY <2>2, <2>3 DEF Life!Init
  <1> QED
    BY <1>1, LifeStep, LifeInvHolds, PTL DEF Spec, LifeSpec, Life!Spec
====
