---- MODULE SqliteFsTreeProofs ----
(***************************************************************************)
(* Proofs about the shape of the tree, for every set of names and every    *)
(* bound.                                                                  *)
(***************************************************************************)
EXTENDS SqliteFsProofs

(***************************************************************************)
(* The inductive invariant behind the tree.  DotsFollowTheTree and         *)
(* NamesAreInLivingDirs say what a user sees; a step of rename or rmdir    *)
(* keeps them only because of what the rows of dentry look like otherwise. *)
(***************************************************************************)

\* rows refer to rows that exist, as the foreign keys demand, and a row is in a
\* directory and carries the kind of its child
RowsRefer ==
    \A d \in dentry : /\ metadata[d.parent] = "dir"
                      /\ metadata[d.child] = d.ftype

\* the primary key of dentry
KeyUnique == \A d, e \in dentry : d.parent = e.parent /\ d.name = e.name => d = e

SelfRow(i) == Row(i, i, "dir", ".")

\* a directory that has any row has its "." row, and "." leads to itself
SelfRows ==
    \A d \in dentry : /\ SelfRow(d.parent) \in dentry
                      /\ d.name = "." => d = SelfRow(d.parent)

\* the root is never an entry of a directory
RootUnnamed == ~HasName(ROOT)

\* the root takes number 1 and has its "." row once the mount has come that far
RootThere ==
    /\ next_ino > 1 => metadata[ROOT] = "dir"
    /\ session \notin {"down", "init_root"} => next_ino > 1
    /\ session \in {"init_dotdot", "fuse_init", "mounted", "destroy"} =>
          SelfRow(ROOT) \in dentry

TreeInv ==
    /\ CountInv
    /\ RowsRefer
    /\ KeyUnique
    /\ SelfRows
    /\ RootUnnamed
    /\ RootThere
    /\ DotsFollowTheTree
    /\ NamesAreInLivingDirs

---------------------------------------------------------------------------
(* Rows *)

LEMMA RowFields ==
  ASSUME NEW p, NEW c, NEW t, NEW n
  PROVE  /\ Row(p, c, t, n).parent = p /\ Row(p, c, t, n).child = c
         /\ Row(p, c, t, n).ftype = t /\ Row(p, c, t, n).name = n
  BY DEF Row

LEMMA RowEta ==
  ASSUME NEW d \in DEntry PROVE d = Row(d.parent, d.child, d.ftype, d.name)
  BY DEF DEntry, Row

LEMMA DEntryFields ==
  ASSUME NEW d \in DEntry
  PROVE  d.parent \in Ino /\ d.child \in Ino /\ d.ftype \in Kind /\ d.name \in DentryName
  BY DEF DEntry

\* the shape of the tables, which the invariant is about whatever the mount does
Shape ==
    /\ RowsRefer
    /\ KeyUnique
    /\ SelfRows
    /\ RootUnnamed
    /\ DotsFollowTheTree
    /\ NamesAreInLivingDirs

LEMMA ShapeSame == ASSUME Shape, UNCHANGED <<metadata, dentry>> PROVE Shape'
  BY DEF Shape, RowsRefer, KeyUnique, SelfRows, RootUnnamed, DotsFollowTheTree,
         NamesAreInLivingDirs, HasName, Entry

\* Deleting inodes nothing refers to takes no row of dentry along
LEMMA ShapeDelete ==
  ASSUME StoreTypeOK, Shape, NEW S \in SUBSET Ino, \A i \in S : ~Referenced(i), DeleteRows(S)
  PROVE  dentry' = dentry /\ Shape'
  <1>1. \A d \in dentry : d.child \notin S
    BY DEF Referenced
  <1>2. \A d \in dentry : d.parent \notin S
    BY <1>1, RowFields DEF Shape, SelfRows, SelfRow
  <1>3. dentry' = dentry
    BY <1>1, <1>2 DEF DeleteRows
  <1>4. \A d \in dentry : metadata'[d.parent] = metadata[d.parent] /\ metadata'[d.child] = metadata[d.child]
    BY <1>1, <1>2 DEF DeleteRows, StoreTypeOK, DEntry
  <1> QED
    BY <1>3, <1>4 DEF Shape, RowsRefer, KeyUnique, SelfRows, RootUnnamed, DotsFollowTheTree,
         NamesAreInLivingDirs, HasName, Entry

\* A directory a request may name is the root or has a name
LivingDir(p) ==
    /\ metadata[p] = "dir"
    /\ SelfRow(p) \in dentry
    /\ p = ROOT \/ HasName(p)

\* An entry for an inode that is not a directory
LEMMA ShapeEntry ==
  ASSUME StoreTypeOK, Shape, NEW p \in Ino, NEW n \in Name, NEW i \in Ino,
         NEW k \in {"file", "symlink"},
         LivingDir(p), Entry(p, n) = {}, i # ROOT,
         dentry' = dentry \cup {Row(p, i, k, n)},
         metadata'[i] = k,
         \A d \in dentry : d.parent # i,
         metadata[i] \in {k, "none"},
         \A j \in Ino \ {i} : metadata'[j] = metadata[j]
  PROVE  Shape'
  <1> DEFINE r == Row(p, i, k, n)
  <1>1. /\ r.parent = p /\ r.child = i /\ r.ftype = k /\ r.name = n
        /\ n # "." /\ n # ".." /\ p # i /\ r \notin dentry
    BY RowFields, NameAssumption DEF LivingDir, Entry
  <1> HIDE DEF r
  <1>2. dentry' = dentry \cup {r}
    BY DEF r
  <1>3. RowsRefer'
    <2> SUFFICES ASSUME NEW d \in dentry'
                 PROVE  metadata'[d.parent] = "dir" /\ metadata'[d.child] = d.ftype
      BY DEF RowsRefer
    <2>1. CASE d = r
      BY <1>1, <2>1 DEF LivingDir
    <2>2. CASE d \in dentry
      <3>1. d.parent \in Ino \ {i} /\ d.child \in Ino /\ d.ftype \in Kind
        BY <2>2 DEF StoreTypeOK, DEntry
      <3>2. metadata[d.parent] = "dir" /\ metadata[d.child] = d.ftype
        BY <2>2 DEF Shape, RowsRefer
      <3> QED
        BY <3>1, <3>2 DEF Kind
    <2> QED
      BY <1>2, <2>1, <2>2
  <1>4. KeyUnique'
    BY <1>1, <1>2 DEF Shape, KeyUnique, Entry
  <1>5. SelfRows'
    BY <1>1, <1>2 DEF Shape, SelfRows, LivingDir
  <1>6. RootUnnamed'
    BY <1>1, <1>2 DEF Shape, RootUnnamed, HasName
  <1>7. \A j \in Ino : HasName(j) => HasName(j)'
    BY <1>2 DEF HasName
  <1>8. DotsFollowTheTree'
    <2> SUFFICES ASSUME NEW d \in dentry', d.ftype = "dir", d.name \in Name
                 PROVE  /\ Entry(d.child, ".")' = {Row(d.child, d.child, "dir", ".")}
                        /\ Entry(d.child, "..")' = {Row(d.child, d.parent, "dir", "..")}
                        /\ \A e \in dentry' : e.child = d.child /\ e.name \in Name => e = d
      BY DEF DotsFollowTheTree
    <2>1. d \in dentry /\ d.child # i
      BY <1>1, <1>2 DEF Shape, RowsRefer
    <2>2. /\ Entry(d.child, ".")' = Entry(d.child, ".")
          /\ Entry(d.child, "..")' = Entry(d.child, "..")
      BY <1>1, <1>2 DEF Entry
    <2> QED
      BY <1>1, <1>2, <2>1, <2>2 DEF Shape, DotsFollowTheTree
  <1>9. NamesAreInLivingDirs'
    <2> SUFFICES ASSUME NEW d \in dentry', d.name \in Name
                 PROVE  metadata'[d.parent] = "dir" /\ (d.parent = ROOT \/ HasName(d.parent)')
      BY DEF NamesAreInLivingDirs
    <2>1. CASE d = r
      BY <1>1, <1>3, <1>7, <2>1 DEF LivingDir, RowsRefer
    <2>2. CASE d \in dentry
      BY <1>3, <1>7, <2>2 DEF Shape, NamesAreInLivingDirs, RowsRefer, StoreTypeOK, DEntry
    <2> QED
      BY <1>2, <2>1, <2>2
  <1> QED
    BY <1>3, <1>4, <1>5, <1>6, <1>8, <1>9 DEF Shape

\* A new directory
LEMMA ShapeMkdir ==
  ASSUME StoreTypeOK, Shape, Fresh, NEW p \in Ino, NEW n \in Name, NEW i \in Ino,
         LivingDir(p), i # ROOT, add_inode_and_dentry(p, n, "dir", i)
  PROVE  Shape'
  <1> DEFINE r == Row(p, i, "dir", n)
             up == Row(i, p, "dir", "..")
             self == SelfRow(i)
  <1>1. /\ metadata'[i] = "dir"
        /\ \A j \in Ino \ {i} : metadata'[j] = metadata[j]
        /\ i = next_ino /\ metadata[i] = "none"
    BY AddFacts DEF Kind, Fresh, Exists, StoreTypeOK, Ino
  <1>2. dentry' = dentry \cup {r, up, self}
    BY DEF add_inode_and_dentry, DotRows, SelfRow
  <1>3. /\ r.parent = p /\ r.child = i /\ r.ftype = "dir" /\ r.name = n
        /\ up.parent = i /\ up.child = p /\ up.ftype = "dir" /\ up.name = ".."
        /\ self.parent = i /\ self.child = i /\ self.ftype = "dir" /\ self.name = "."
    BY RowFields DEF SelfRow
  <1>4. n # "." /\ n # ".." /\ p # i /\ ".." \notin Name /\ "." \notin Name
    BY <1>1, NameAssumption DEF LivingDir
  <1>5. \A d \in dentry : d.parent # i /\ d.child # i
    BY <1>1 DEF Shape, RowsRefer, StoreTypeOK, DEntry, Kind
  <1>6. Entry(p, n) = {}
    BY DEF add_inode_and_dentry
  <1>7. self = Row(r.child, r.child, "dir", ".") /\ up = Row(r.child, r.parent, "dir", "..")
    BY <1>3 DEF SelfRow
  <1>8. self = SelfRow(i)
    OBVIOUS
  <1> HIDE DEF r, up, self
  <1>9. \A d \in dentry : d.parent \in Ino \ {i} /\ d.child \in Ino \ {i}
    BY <1>5 DEF StoreTypeOK, DEntry
  <1>10. RowsRefer'
    BY <1>1, <1>2, <1>3, <1>4, <1>9 DEF Shape, RowsRefer, LivingDir
  <1>11. KeyUnique'
    <2>1. \A d \in dentry : ~(d.parent = p /\ d.name = n)
      BY <1>6 DEF Entry
    <2> QED
      BY <1>2, <1>3, <1>4, <1>5, <2>1 DEF Shape, KeyUnique
  <1>12. SelfRows'
    BY <1>2, <1>3, <1>4, <1>8 DEF Shape, SelfRows, LivingDir
  <1>13. RootUnnamed'
    BY <1>2, <1>3, <1>4 DEF Shape, RootUnnamed, HasName
  <1>14. \A j \in Ino : HasName(j) => HasName(j)'
    BY <1>2 DEF HasName
  <1>15. DotsFollowTheTree'
    <2> SUFFICES ASSUME NEW d \in dentry', d.ftype = "dir", d.name \in Name
                 PROVE  /\ Entry(d.child, ".")' = {Row(d.child, d.child, "dir", ".")}
                        /\ Entry(d.child, "..")' = {Row(d.child, d.parent, "dir", "..")}
                        /\ \A e \in dentry' : e.child = d.child /\ e.name \in Name => e = d
      BY DEF DotsFollowTheTree
    <2>1. CASE d = r
      <3>1. Entry(i, ".")' = {self} /\ Entry(i, "..")' = {up}
        BY <1>2, <1>3, <1>4, <1>5 DEF Entry
      <3>2. \A e \in dentry' : e.child = i /\ e.name \in Name => e = r
        BY <1>2, <1>3, <1>4, <1>5
      <3> QED
        BY <1>3, <1>7, <2>1, <3>1, <3>2
    <2>2. CASE d \in dentry
      <3>1. d.child # i
        BY <1>5, <2>2
      <3>2. /\ Entry(d.child, ".")' = Entry(d.child, ".")
            /\ Entry(d.child, "..")' = Entry(d.child, "..")
        BY <1>2, <1>3, <1>4, <3>1 DEF Entry
      <3>3. \A e \in dentry' : e.child = d.child /\ e.name \in Name => e \in dentry
        BY <1>2, <1>3, <1>4, <3>1
      <3> QED
        BY <2>2, <3>2, <3>3 DEF Shape, DotsFollowTheTree
    <2> QED
      BY <1>2, <1>3, <1>4, <2>1, <2>2
  <1>16. NamesAreInLivingDirs'
    <2> SUFFICES ASSUME NEW d \in dentry', d.name \in Name
                 PROVE  metadata'[d.parent] = "dir" /\ (d.parent = ROOT \/ HasName(d.parent)')
      BY DEF NamesAreInLivingDirs
    <2>1. CASE d = r
      BY <1>3, <1>10, <1>14, <2>1 DEF LivingDir, RowsRefer
    <2>2. CASE d \in dentry
      BY <1>9, <1>10, <1>14, <2>2 DEF Shape, NamesAreInLivingDirs, RowsRefer
    <2> QED
      BY <1>2, <1>3, <1>4, <2>1, <2>2
  <1> QED
    BY <1>10, <1>11, <1>12, <1>13, <1>15, <1>16 DEF Shape

\* Removing the entry of an inode that is no directory, or an empty one
LEMMA ShapeRemove ==
  ASSUME StoreTypeOK, Shape, NEW r \in dentry, r.name \in Name,
         metadata[r.child] = "dir" => check_directory_is_empty(r.child),
         dentry' = {d \in dentry \ {r} : d.parent # r.child},
         metadata' = metadata
  PROVE  Shape'
  <1>1. \A d \in dentry : d.parent = r.child => d.name \notin Name
    BY DEF check_directory_is_empty, Shape, RowsRefer
  <1>2. \A d \in dentry' : d \in dentry /\ d # r /\ d.parent # r.child
    OBVIOUS
  <1>3. RowsRefer' /\ KeyUnique' /\ RootUnnamed'
    BY <1>2 DEF Shape, RowsRefer, KeyUnique, RootUnnamed, HasName
  <1>4. SelfRows'
    <2>1. \A d \in dentry' : SelfRow(d.parent) \in dentry'
      BY <1>2, RowFields, NameAssumption DEF Shape, SelfRows, SelfRow
    <2> QED
      BY <1>2, <2>1 DEF Shape, SelfRows
  <1>5. DotsFollowTheTree'
    <2> SUFFICES ASSUME NEW d \in dentry', d.ftype = "dir", d.name \in Name
                 PROVE  /\ Entry(d.child, ".")' = {Row(d.child, d.child, "dir", ".")}
                        /\ Entry(d.child, "..")' = {Row(d.child, d.parent, "dir", "..")}
                        /\ \A e \in dentry' : e.child = d.child /\ e.name \in Name => e = d
      BY DEF DotsFollowTheTree
    <2>1. d.child # r.child
      BY <1>2 DEF Shape, DotsFollowTheTree
    <2>2. /\ Entry(d.child, ".")' = Entry(d.child, ".")
          /\ Entry(d.child, "..")' = Entry(d.child, "..")
      BY <2>1, NameAssumption DEF Entry
    <2> QED
      BY <1>2, <2>2 DEF Shape, DotsFollowTheTree
  <1>6. NamesAreInLivingDirs'
    <2> SUFFICES ASSUME NEW d \in dentry', d.name \in Name
                 PROVE  metadata'[d.parent] = "dir" /\ (d.parent = ROOT \/ HasName(d.parent)')
      BY DEF NamesAreInLivingDirs
    <2>1. CASE d.parent = ROOT
      BY <1>2, <2>1 DEF Shape, NamesAreInLivingDirs
    <2>2. CASE d.parent # ROOT
      <3>1. PICK e \in dentry : e.child = d.parent /\ e.name \in Name
        BY <1>2, <2>2 DEF Shape, NamesAreInLivingDirs, HasName
      <3>2. e # r /\ e.parent # r.child
        BY <1>1, <1>2, <3>1
      <3> QED
        BY <1>2, <3>1, <3>2 DEF Shape, NamesAreInLivingDirs, HasName
    <2> QED
      BY <2>1, <2>2
  <1> QED
    BY <1>3, <1>4, <1>5, <1>6 DEF Shape

\* The dots of the root
LEMMA ShapeDot ==
  ASSUME StoreTypeOK, Shape, metadata[ROOT] = "dir", NEW n \in {".", ".."}, init_dot(n),
         n = ".." => SelfRow(ROOT) \in dentry
  PROVE  Shape' /\ (n = "." \/ SelfRow(ROOT) \in dentry => SelfRow(ROOT) \in dentry')
  <1> DEFINE r == Row(ROOT, ROOT, "dir", n)
  <1>1. CASE Entry(ROOT, n) # {}
    <2>1. dentry' = dentry /\ metadata' = metadata
      BY <1>1 DEF init_dot
    <2>2. n = "." => SelfRow(ROOT) \in dentry
      BY <1>1 DEF Entry, Shape, SelfRows
    <2> QED
      BY <2>1, <2>2, ShapeSame
  <1>2. CASE Entry(ROOT, n) = {}
    <2>1. dentry' = dentry \cup {r} /\ metadata' = metadata
      BY <1>2 DEF init_dot
    <2>2. r.parent = ROOT /\ r.child = ROOT /\ r.ftype = "dir" /\ r.name = n /\ n \notin Name
      BY RowFields, NameAssumption
    <2>3. n = "." => r = SelfRow(ROOT)
      BY DEF SelfRow
    <2> HIDE DEF r
    <2>4. RowsRefer' /\ RootUnnamed' /\ KeyUnique'
      BY <1>2, <2>1, <2>2 DEF Shape, RowsRefer, RootUnnamed, HasName, KeyUnique, Entry
    <2>5. SelfRows'
      BY <2>1, <2>2, <2>3 DEF Shape, SelfRows
    <2>6. \A j \in Ino : HasName(j)' <=> HasName(j)
      BY <2>1, <2>2 DEF HasName
    <2>7. NamesAreInLivingDirs'
      BY <2>1, <2>2, <2>6 DEF Shape, NamesAreInLivingDirs, StoreTypeOK, DEntry
    <2>8. DotsFollowTheTree'
      <3> SUFFICES ASSUME NEW d \in dentry', d.ftype = "dir", d.name \in Name
                   PROVE  /\ Entry(d.child, ".")' = {Row(d.child, d.child, "dir", ".")}
                          /\ Entry(d.child, "..")' = {Row(d.child, d.parent, "dir", "..")}
                          /\ \A e \in dentry' : e.child = d.child /\ e.name \in Name => e = d
        BY DEF DotsFollowTheTree
      <3>1. d \in dentry /\ d.child # ROOT
        BY <2>1, <2>2 DEF Shape, RootUnnamed, HasName
      <3>2. /\ Entry(d.child, ".")' = Entry(d.child, ".")
            /\ Entry(d.child, "..")' = Entry(d.child, "..")
        BY <2>1, <2>2, <3>1 DEF Entry
      <3> QED
        BY <2>1, <2>2, <3>1, <3>2 DEF Shape, DotsFollowTheTree
    <2> QED
      BY <2>1, <2>3, <2>4, <2>5, <2>7, <2>8 DEF Shape
  <1> QED
    BY <1>1, <1>2

---------------------------------------------------------------------------
(* Moving an entry *)

\* What rename assumes of the entry d it moves to name m of directory q
Movable(d, q, m) ==
    /\ d \in dentry /\ d.name \in Name
    /\ q \in Ino /\ LivingDir(q) /\ m \in Name
    /\ \A e \in Entry(q, m) : e.child # d.child /\ MayReplace(d, e)
    /\ move_dentry(d, q, m)

Moved(d, q, m) == Row(q, d.child, d.ftype, m)
Up(d) == Row(d.child, d.parent, "dir", "..")
NewUp(d, q) == Row(d.child, q, "dir", "..")

\* An entry that is no directory: one row goes where it belongs
LEMMA MoveFileRows ==
  ASSUME StoreTypeOK, Shape, NEW d, NEW q, NEW m, Movable(d, q, m), d.ftype # "dir"
  PROVE  dentry' = (dentry \ (Entry(q, m) \cup {d})) \cup {Moved(d, q, m)}
  BY DEF Movable, move_dentry, MoveDotDot, Moved

\* A directory: its ".." row follows
LEMMA MoveDirRows ==
  ASSUME StoreTypeOK, Shape, NEW d, NEW q, NEW m, Movable(d, q, m), d.ftype = "dir"
  PROVE  /\ Up(d) \in dentry
         /\ dentry' = (dentry \ (Entry(q, m) \cup {d, Up(d)})) \cup {Moved(d, q, m), NewUp(d, q)}
  <1> DEFINE rows == (dentry \ (Entry(q, m) \cup {d})) \cup {Moved(d, q, m)}
             Fix(e) == IF e.parent = d.child /\ e.name = ".." THEN Row(e.parent, q, e.ftype, "..") ELSE e
  <1>1. Entry(d.child, "..") = {Up(d)}
    BY DEF Movable, Shape, DotsFollowTheTree, Up
  <1>2. /\ Moved(d, q, m).name = m /\ m # ".." /\ d.name # ".."
        /\ Up(d).name = ".." /\ Up(d).parent = d.child /\ Up(d).child = d.parent
        /\ Up(d).ftype = "dir"
    BY RowFields, NameAssumption DEF Movable, Moved, Up
  <1>3. \A e \in rows : e.parent = d.child /\ e.name = ".." <=> e = Up(d)
    BY <1>1, <1>2 DEF Entry
  <1>4. Up(d) \in dentry /\ Up(d) \in rows
    BY <1>1, <1>2 DEF Entry
  <1>5. Fix(Up(d)) = NewUp(d, q)
    BY <1>2 DEF NewUp
  <1>6. CASE d.parent # q
    <2>1. dentry' = {Fix(e) : e \in rows}
      BY <1>6 DEF Movable, move_dentry, MoveDotDot, Moved
    <2>2. \A e \in rows \ {Up(d)} : Fix(e) = e
      BY <1>3
    <2>3. dentry' = (rows \ {Up(d)}) \cup {NewUp(d, q)}
      <3> HIDE DEF rows, Fix
      <3> QED
        BY <1>4, <1>5, <2>1, <2>2
    <2> QED
      BY <1>2, <1>4, <2>3
  <1>7. CASE d.parent = q
    <2>1. dentry' = rows
      BY <1>7 DEF Movable, move_dentry, MoveDotDot, Moved
    <2>2. NewUp(d, q) = Up(d)
      BY <1>7 DEF NewUp, Up
    <2> QED
      BY <1>4, <2>1, <2>2
  <1> QED
    BY <1>6, <1>7

\* Nothing that has a name is in what the move replaces
LEMMA ReplacedEmpty ==
  ASSUME StoreTypeOK, Shape, NEW d, NEW q, NEW m, Movable(d, q, m), NEW e \in Entry(q, m)
  PROVE  /\ \A x \in dentry : x.parent = e.child => x.name \notin Name
         /\ e.child # q
  <1>1. e \in dentry /\ e.parent = q /\ e.name = m /\ e.ftype = d.ftype
    BY DEF Movable, MayReplace, Entry
  <1>2. \A x \in dentry : x.parent = e.child => x.name \notin Name
    BY <1>1 DEF Movable, MayReplace, check_directory_is_empty, Shape, RowsRefer
  <1> QED
    BY <1>1, <1>2 DEF Movable

\* The inodes that have a name after the move: those that had one elsewhere, and
\* the one that moved
LEMMA MoveNames ==
  ASSUME StoreTypeOK, Shape, NEW d, NEW q, NEW m, Movable(d, q, m)
  PROVE  /\ \A x \in dentry' : x.name \in Name => x = Moved(d, q, m) \/ (x \in dentry /\ x # d /\ x \notin Entry(q, m))
         /\ \A x \in dentry : x.name \in Name => x = d \/ x \in Entry(q, m) \/ x \in dentry'
         /\ Moved(d, q, m) \in dentry'
         /\ Moved(d, q, m).parent = q /\ Moved(d, q, m).child = d.child
         /\ Moved(d, q, m).ftype = d.ftype /\ Moved(d, q, m).name = m
  <1>1. /\ Moved(d, q, m).parent = q /\ Moved(d, q, m).child = d.child
        /\ Moved(d, q, m).ftype = d.ftype /\ Moved(d, q, m).name = m
        /\ Up(d).name \notin Name /\ NewUp(d, q).name \notin Name
    BY RowFields, NameAssumption DEF Moved, Up, NewUp
  <1>2. CASE d.ftype # "dir"
    BY <1>1, <1>2, MoveFileRows
  <1>3. CASE d.ftype = "dir"
    BY <1>1, <1>3, MoveDirRows
  <1> QED
    BY <1>2, <1>3

LEMMA MoveLiving ==
  ASSUME StoreTypeOK, Shape, NEW d, NEW q, NEW m, Movable(d, q, m)
  PROVE  NamesAreInLivingDirs' /\ RootUnnamed'
  <1>1. metadata' = metadata
    BY DEF Movable, move_dentry
  <1>2. RootUnnamed'
    BY MoveNames DEF Movable, Shape, RootUnnamed, HasName
  <1>3. \A x \in dentry' : x.name \in Name => metadata[x.parent] = "dir"
    BY MoveNames DEF Movable, LivingDir, Shape, RowsRefer
  <1>4. \A x \in dentry : x.name \in Name /\ x \notin Entry(q, m) => HasName(x.child)'
    BY MoveNames DEF HasName, Movable
  <1>5. ASSUME NEW y, HasName(y), \A e \in Entry(q, m) : e.child # y PROVE HasName(y)'
    BY <1>4, <1>5 DEF HasName
  <1>6. q = ROOT \/ HasName(q)'
    BY <1>5, ReplacedEmpty DEF Movable, LivingDir
  <1>7. ASSUME NEW x \in dentry, x.name \in Name, x.parent # ROOT PROVE HasName(x.parent)'
    <2>1. HasName(x.parent)
      BY <1>7 DEF Shape, NamesAreInLivingDirs
    <2>2. \A e \in Entry(q, m) : e.child # x.parent
      BY <1>7, ReplacedEmpty
    <2> QED
      BY <1>5, <2>1, <2>2
  <1>8. \A x \in dentry' : x.name \in Name => x.parent = ROOT \/ HasName(x.parent)'
    BY <1>6, <1>7, MoveNames
  <1> QED
    BY <1>1, <1>2, <1>3, <1>8 DEF NamesAreInLivingDirs

LEMMA ShapeMoveFile ==
  ASSUME StoreTypeOK, Shape, NEW d, NEW q, NEW m, Movable(d, q, m), d.ftype # "dir"
  PROVE  Shape'
  <1> DEFINE r == Moved(d, q, m)
  <1>1. dentry' = (dentry \ (Entry(q, m) \cup {d})) \cup {r} /\ metadata' = metadata
    BY MoveFileRows DEF Movable, move_dentry
  <1>2. /\ r.parent = q /\ r.child = d.child /\ r.ftype = d.ftype /\ r.name = m
        /\ m # "." /\ m # ".." /\ d.name # "." /\ d.name # ".."
    BY RowFields, NameAssumption DEF Moved, Movable
  <1> HIDE DEF r
  <1>3. RowsRefer'
    BY <1>1, <1>2 DEF Shape, RowsRefer, Movable, LivingDir
  <1>4. KeyUnique'
    BY <1>1, <1>2 DEF Shape, KeyUnique, Entry
  <1>5. SelfRows'
    <2>1. \A x \in dentry : SelfRow(x.parent) \in dentry'
      BY <1>1, <1>2, RowFields DEF Shape, SelfRows, SelfRow, Entry
    <2>2. SelfRow(q) \in dentry'
      BY <1>1, <1>2, RowFields DEF Movable, LivingDir, SelfRow, Entry
    <2> QED
      BY <1>1, <1>2, <2>1, <2>2 DEF Shape, SelfRows
  <1>6. DotsFollowTheTree'
    <2> SUFFICES ASSUME NEW x \in dentry', x.ftype = "dir", x.name \in Name
                 PROVE  /\ Entry(x.child, ".")' = {Row(x.child, x.child, "dir", ".")}
                        /\ Entry(x.child, "..")' = {Row(x.child, x.parent, "dir", "..")}
                        /\ \A e \in dentry' : e.child = x.child /\ e.name \in Name => e = x
      BY DEF DotsFollowTheTree
    <2>1. x \in dentry /\ x.child # d.child
      BY <1>1, <1>2 DEF Shape, RowsRefer, Movable
    <2>2. /\ Entry(x.child, ".")' = Entry(x.child, ".")
          /\ Entry(x.child, "..")' = Entry(x.child, "..")
      BY <1>1, <1>2 DEF Entry
    <2> QED
      BY <1>1, <1>2, <2>1, <2>2 DEF Shape, DotsFollowTheTree
  <1> QED
    BY <1>3, <1>4, <1>5, <1>6, MoveLiving DEF Shape

LEMMA ShapeMoveDir ==
  ASSUME StoreTypeOK, Shape, NEW d, NEW q, NEW m, Movable(d, q, m), d.ftype = "dir"
  PROVE  Shape'
  <1> DEFINE r == Moved(d, q, m)
             up == Up(d)
             new == NewUp(d, q)
  <1>1. /\ up \in dentry /\ metadata' = metadata
        /\ dentry' = (dentry \ (Entry(q, m) \cup {d, up})) \cup {r, new}
    BY MoveDirRows DEF Movable, move_dentry
  <1>2. /\ r.parent = q /\ r.child = d.child /\ r.ftype = "dir" /\ r.name = m
        /\ up.parent = d.child /\ up.child = d.parent /\ up.ftype = "dir" /\ up.name = ".."
        /\ new.parent = d.child /\ new.child = q /\ new.ftype = "dir" /\ new.name = ".."
        /\ m # "." /\ m # ".." /\ d.name # "." /\ d.name # ".."
    BY RowFields, NameAssumption DEF Moved, Up, NewUp, Movable
  <1>3. new = Row(r.child, r.parent, "dir", "..")
    BY <1>2 DEF NewUp
  <1>4. /\ Entry(d.child, ".") = {SelfRow(d.child)}
        /\ Entry(d.child, "..") = {up}
        /\ \A e \in dentry : e.child = d.child /\ e.name \in Name => e = d
    BY DEF Movable, Shape, DotsFollowTheTree, SelfRow, Up
  <1>5. metadata[q] = "dir" /\ SelfRow(q) \in dentry /\ d \in dentry
    BY DEF Movable, LivingDir
  <1> HIDE DEF r, up, new
  <1>6. RowsRefer'
    BY <1>1, <1>2, <1>5 DEF Shape, RowsRefer
  <1>7. KeyUnique'
    <2>1. \A e \in dentry : e.parent = d.child /\ e.name = ".." => e = up
      BY <1>4 DEF Entry
    <2>2. \A e \in dentry : e.parent = q /\ e.name = m => e \in Entry(q, m)
      BY DEF Entry
    <2> QED
      BY <1>1, <1>2, <2>1, <2>2 DEF Shape, KeyUnique
  <1>8. SelfRows'
    <2>1. \A x : SelfRow(x) \in dentry => SelfRow(x) \in dentry'
      BY <1>1, <1>2, RowFields DEF SelfRow, Entry
    <2> QED
      BY <1>1, <1>2, <1>5, <2>1 DEF Shape, SelfRows
  <1>9. DotsFollowTheTree'
    <2> SUFFICES ASSUME NEW x \in dentry', x.ftype = "dir", x.name \in Name
                 PROVE  /\ Entry(x.child, ".")' = {Row(x.child, x.child, "dir", ".")}
                        /\ Entry(x.child, "..")' = {Row(x.child, x.parent, "dir", "..")}
                        /\ \A e \in dentry' : e.child = x.child /\ e.name \in Name => e = x
      BY DEF DotsFollowTheTree
    <2>1. Entry(x.child, ".")' = Entry(x.child, ".")
      BY <1>1, <1>2 DEF Entry
    <2>2. CASE x = r
      <3>1. Entry(d.child, "..")' = {new}
        BY <1>1, <1>2, <1>4 DEF Entry
      <3>2. \A e \in dentry' : e.child = d.child /\ e.name \in Name => e = r
        BY <1>1, <1>2, <1>4, NameAssumption
      <3> QED
        BY <1>2, <1>3, <1>4, <2>1, <2>2, <3>1, <3>2 DEF SelfRow
    <2>3. CASE x # r
      <3>1. x \in dentry /\ x # d
        BY <1>1, <1>2, <2>3, NameAssumption
      <3>2. x.child # d.child
        BY <1>4, <3>1
      <3>3. Entry(x.child, "..")' = Entry(x.child, "..")
        BY <1>1, <1>2, <3>2 DEF Entry
      <3>4. \A e \in dentry' : e.child = x.child /\ e.name \in Name => e \in dentry
        BY <1>1, <1>2, <3>2, NameAssumption
      <3> QED
        BY <2>1, <3>1, <3>3, <3>4 DEF Shape, DotsFollowTheTree
    <2> QED
      BY <2>2, <2>3
  <1> QED
    BY <1>6, <1>7, <1>8, <1>9, MoveLiving DEF Shape

---------------------------------------------------------------------------
(* Steps *)

LEMMA TreeKept == ASSUME CountInv', Shape', RootThere' PROVE TreeInv'
  BY DEF TreeInv, Shape

LEMMA TreeTypes == ASSUME TreeInv PROVE StoreTypeOK /\ Shape /\ Fresh /\ TypeOK /\ CountInv
  BY DEF TreeInv, Shape, CountInv, TypeOK

\* The directory of a request is one that names may be put in
LEMMA ParentLives ==
  ASSUME TreeInv, NEW p \in Ino, Parent(p)
  PROVE  LivingDir(p) /\ session = "mounted" /\ next_ino > 1 /\ SelfRow(ROOT) \in dentry
  <1>1. session = "mounted" /\ next_ino > 1 /\ SelfRow(ROOT) \in dentry
    BY DEF Parent, Serving, TreeInv, RootThere
  <1>2. CASE p = ROOT
    BY <1>1, <1>2 DEF Parent, LivingDir
  <1>3. CASE HasName(p)
    <2>1. PICK d \in dentry : d.child = p /\ d.name \in Name
      BY <1>3 DEF HasName
    <2>2. d.ftype = "dir"
      BY <2>1 DEF Parent, TreeInv, RowsRefer
    <2>3. SelfRow(p) \in dentry
      BY <2>1, <2>2 DEF TreeInv, DotsFollowTheTree, Entry, SelfRow
    <2> QED
      BY <1>1, <1>3, <2>3 DEF Parent, LivingDir
  <1> QED
    BY <1>1, <1>2, <1>3 DEF Parent

\* A step of a mounted file system that keeps the root's row and its inode
LEMMA RootStays ==
  ASSUME TreeInv, session' = session, next_ino' \in Nat, next_ino' >= next_ino,
         metadata[ROOT] = "dir" => metadata'[ROOT] = "dir", next_ino > 1,
         SelfRow(ROOT) \in dentry => SelfRow(ROOT) \in dentry'
  PROVE  RootThere'
  <1>1. next_ino \in Nat
    BY TreeTypes, MaxInoAssumption DEF StoreTypeOK
  <1> QED
    BY <1>1 DEF TreeInv, RootThere

LEMMA TreeSame ==
  ASSUME TreeInv, CountInv', session' = session, UNCHANGED store PROVE TreeInv'
  <1>1. Shape'
    BY TreeTypes, ShapeSame DEF store
  <1>2. RootThere'
    BY DEF store, TreeInv, RootThere
  <1> QED
    BY <1>1, <1>2, TreeKept

LEMMA TreeAdd ==
  ASSUME TreeInv, CountInv', NEW p \in Ino, NEW n \in Name, NEW k \in Kind, NEW i \in Ino,
         Parent(p), session' = session, add_inode_and_dentry(p, n, k, i)
  PROVE  TreeInv'
  <1>1. LivingDir(p) /\ next_ino > 1
    BY ParentLives
  <1>2. /\ i = next_ino /\ next_ino' = next_ino + 1 /\ next_ino \in Nat
        /\ metadata'[i] = k
        /\ \A j \in Ino \ {i} : metadata'[j] = metadata[j]
        /\ metadata[i] = "none" /\ i # ROOT
    BY <1>1, TreeTypes, AddFacts, MaxInoAssumption DEF Fresh, Exists, StoreTypeOK, Ino, ROOT
  <1>3. CASE k = "dir"
    <2>1. Shape'
      BY <1>1, <1>2, <1>3, TreeTypes, ShapeMkdir
    <2>2. dentry \subseteq dentry'
      BY DEF add_inode_and_dentry
    <2> QED
      BY <1>1, <1>2, <2>1, <2>2, RootIsIno, RootStays, TreeKept
  <1>4. CASE k \in {"file", "symlink"}
    <2>1. /\ Entry(p, n) = {}
          /\ dentry' = dentry \cup {Row(p, i, k, n)}
      BY <1>4 DEF add_inode_and_dentry
    <2>2. \A d \in dentry : d.parent # i
      BY <1>2 DEF TreeInv, RowsRefer
    <2>3. Shape'
      BY <1>1, <1>2, <1>4, <2>1, <2>2, TreeTypes, ShapeEntry
    <2> QED
      BY <1>1, <1>2, <2>1, <2>3, RootIsIno, RootStays, TreeKept
  <1> QED
    BY <1>3, <1>4 DEF Kind

LEMMA TreeLink ==
  ASSUME TreeInv, CountInv', NEW i \in Ino, NEW p \in Ino, NEW n \in Name, Link(i, p, n)
  PROVE  TreeInv'
  <1>1. LivingDir(p) /\ next_ino > 1
    BY ParentLives DEF Link
  <1>2. /\ metadata' = metadata /\ next_ino' = next_ino /\ session' = session
        /\ metadata[i] = "file" /\ Entry(p, n) = {}
        /\ dentry' = dentry \cup {Row(p, i, "file", n)}
    BY DEF Link, link_dentry
  <1>3. i # ROOT /\ next_ino \in Nat
    BY <1>1, <1>2, TreeTypes, MaxInoAssumption DEF TreeInv, RootThere, StoreTypeOK
  <1>4. \A d \in dentry : d.parent # i
    BY <1>2 DEF TreeInv, RowsRefer
  <1>5. Shape'
    BY <1>1, <1>2, <1>3, <1>4, TreeTypes, ShapeEntry
  <1> QED
    BY <1>1, <1>2, <1>3, <1>5, RootStays, TreeKept

LEMMA TreeRemove ==
  ASSUME TreeInv, CountInv', NEW p \in Ino, NEW n \in Name, Unlink(p, n) \/ Rmdir(p, n)
  PROVE  TreeInv'
  <1>1. PICK d \in Entry(p, n) :
           /\ metadata[d.child] = "dir" => check_directory_is_empty(d.child)
           /\ delete_dentry(p, n, d.child)
    BY DEF Unlink, Rmdir
  <1>2. /\ metadata' = metadata /\ next_ino' = next_ino /\ session' = session
        /\ dentry' = {e \in dentry \ Entry(p, n) : e.parent # d.child}
    BY <1>1 DEF Unlink, Rmdir, delete_dentry
  <1>3. next_ino > 1 /\ next_ino \in Nat
    BY ParentLives, TreeTypes, MaxInoAssumption DEF Unlink, Rmdir, StoreTypeOK
  <1>4. Entry(p, n) = {d} /\ d \in dentry /\ d.name = n
    BY DEF Entry, TreeInv, KeyUnique
  <1>5. Shape'
    BY <1>1, <1>2, <1>4, TreeTypes, ShapeRemove
  <1>6. d.child # ROOT
    BY <1>4 DEF TreeInv, RootUnnamed, HasName
  <1>7. SelfRow(ROOT) \in dentry => SelfRow(ROOT) \in dentry'
    BY <1>2, <1>4, <1>6, RowFields, NameAssumption DEF SelfRow
  <1> QED
    BY <1>2, <1>3, <1>5, <1>7, RootStays, TreeKept

LEMMA RenameMovable ==
  ASSUME TreeInv, NEW p \in Ino, NEW n \in Name, NEW q \in Ino, NEW m \in Name,
         Rename(p, n, q, m)
  PROVE  \E d \in Entry(p, n) : /\ Movable(d, q, m) /\ Entry(p, n) = {d}
                                /\ handler' = Reclaim({e.child : e \in Entry(q, m)})
  <1>1. PICK d \in Entry(p, n) :
           /\ \A e \in Entry(q, m) : e.child # d.child
           /\ move_dentry(d, q, m)
           /\ handler' = Reclaim({e.child : e \in Entry(q, m)})
    BY DEF Rename
  <1>2. d \in dentry /\ d.name \in Name /\ Entry(p, n) = {d}
    BY DEF Entry, TreeInv, KeyUnique
  <1>3. LivingDir(q)
    BY ParentLives DEF Rename
  <1>4. \A e \in Entry(q, m) : MayReplace(d, e)
    BY <1>1 DEF move_dentry
  <1> QED
    BY <1>1, <1>2, <1>3, <1>4 DEF Movable

LEMMA TreeRename ==
  ASSUME TreeInv, CountInv', NEW p \in Ino, NEW n \in Name, NEW q \in Ino, NEW m \in Name,
         Rename(p, n, q, m)
  PROVE  TreeInv'
  <1>1. PICK d \in Entry(p, n) : Movable(d, q, m)
    BY RenameMovable
  <1>2. metadata' = metadata /\ next_ino' = next_ino /\ session' = session
    BY <1>1 DEF Rename, Movable, move_dentry
  <1>3. next_ino > 1 /\ next_ino \in Nat
    BY ParentLives, TreeTypes, MaxInoAssumption DEF Rename, StoreTypeOK
  <1>4. SelfRow(ROOT).name = "." /\ "." # m /\ "." # d.name /\ ".." # "."
    BY <1>1, RowFields, NameAssumption DEF SelfRow, Movable
  <1>5. CASE d.ftype # "dir"
    <2>1. Shape'
      BY <1>1, <1>5, TreeTypes, ShapeMoveFile
    <2>2. SelfRow(ROOT) \in dentry => SelfRow(ROOT) \in dentry'
      BY <1>1, <1>4, <1>5, TreeTypes, MoveFileRows DEF Entry
    <2> QED
      BY <1>2, <1>3, <2>1, <2>2, RootStays, TreeKept
  <1>6. CASE d.ftype = "dir"
    <2>1. Shape'
      BY <1>1, <1>6, TreeTypes, ShapeMoveDir
    <2>2. Up(d).name = ".."
      BY RowFields DEF Up
    <2>3. SelfRow(ROOT) \in dentry => SelfRow(ROOT) \in dentry'
      BY <1>1, <1>4, <1>6, <2>2, TreeTypes, MoveDirRows DEF Entry
    <2> QED
      BY <1>2, <1>3, <2>1, <2>3, RootStays, TreeKept
  <1> QED
    BY <1>5, <1>6

\* Deleting inodes nothing refers to, in a phase in which the root is referred to
LEMMA TreeDelete ==
  ASSUME TreeInv, CountInv', NEW S \in SUBSET Ino, \A i \in S : ~Referenced(i), DeleteRows(S),
         session \in {"fuse_init", "mounted", "destroy"},
         session' \in {"mounted", "destroy"}
  PROVE  TreeInv' /\ dentry' = dentry
  <1>1. Shape' /\ dentry' = dentry
    BY TreeTypes, ShapeDelete
  <1>2. SelfRow(ROOT) \in dentry /\ next_ino > 1 /\ metadata[ROOT] = "dir"
    BY DEF TreeInv, RootThere
  <1>3. ROOT \notin S
    BY <1>2, RowFields DEF Referenced, SelfRow
  <1>4. metadata'[ROOT] = "dir" /\ next_ino' = next_ino
    BY <1>2, <1>3, TreeTypes, RootIsIno, DeleteRowsFacts
  <1>5. RootThere'
    BY <1>1, <1>2, <1>4 DEF RootThere
  <1> QED
    BY <1>1, <1>5, TreeKept

\* An attempt to delete an inode deletes it if nothing refers to it, or nothing
LEMMA TryToDeleteRows ==
  ASSUME StoreTypeOK, NEW i \in Ino, TryToDelete(i)
  PROVE  /\ \E S \in SUBSET {i} : (\A j \in S : ~Referenced(j)) /\ DeleteRows(S)
         /\ refused \subseteq refused'
         /\ Exists(i)' => Referenced(i) \/ i \in refused'
  <1>1. CASE delete_inode_if_noref(i) /\ UNCHANGED refused
    <2> DEFINE S == {i} \ {j \in Ino : Referenced(j)}
    <2>1. S \in SUBSET {i} /\ \A j \in S : ~Referenced(j)
      OBVIOUS
    <2>2. DeleteRows(S)
      BY <1>1 DEF delete_inode_if_noref
    <2>3. Exists(i)' => Referenced(i)
      BY <1>1 DEF delete_inode_if_noref, DeleteRows, Exists
    <2> QED
      BY <1>1, <2>1, <2>2, <2>3
  <1>2. CASE refused' = refused \cup (Orphans \cap {i}) /\ UNCHANGED store
    <2>1. DeleteRows({})
      BY <1>2 DEF store, StoreTypeOK, DeleteRows
    <2>2. Exists(i)' => Referenced(i) \/ i \in refused'
      BY <1>2 DEF store, Orphans, Exists
    <2> QED
      BY <1>2, <2>1, <2>2
  <1> QED
    BY <1>1, <1>2 DEF TryToDelete

\* The clean-up at INIT deletes all that nothing refers to, or nothing
LEMMA TryToCleanUpRows ==
  ASSUME StoreTypeOK, TryToCleanUp
  PROVE  /\ \E S \in SUBSET Ino : (\A j \in S : ~Referenced(j)) /\ DeleteRows(S)
         /\ \A i \in Ino : Exists(i)' => Referenced(i) \/ i \in refused'
  <1>1. CASE delete_all_noref_inode
    <2> DEFINE S == {i \in Ino : Exists(i) /\ ~Referenced(i)}
    <2>1. S \in SUBSET Ino /\ (\A j \in S : ~Referenced(j)) /\ DeleteRows(S)
      BY <1>1 DEF delete_all_noref_inode
    <2>2. \A i \in Ino : Exists(i)' => Referenced(i)
      BY <1>1 DEF delete_all_noref_inode, DeleteRows, Exists
    <2> QED
      BY <2>1, <2>2
  <1>2. CASE refused' = Orphans /\ UNCHANGED store
    <2>1. DeleteRows({})
      BY <1>2 DEF store, StoreTypeOK, DeleteRows
    <2>2. \A i \in Ino : Exists(i)' => Referenced(i) \/ i \in refused'
      BY <1>2 DEF store, Orphans, Exists
    <2> QED
      BY <2>1, <2>2
  <1> QED
    BY <1>1, <1>2 DEF TryToCleanUp

LEMMA TreeDeleteInode ==
  ASSUME TreeInv, CountInv', NEW i \in Ino, TryToDelete(i),
         session \in {"mounted", "destroy"}, session' = session
  PROVE  TreeInv' /\ dentry' = dentry
  <1>1. PICK S \in SUBSET {i} : (\A j \in S : ~Referenced(j)) /\ DeleteRows(S)
    BY TreeTypes, TryToDeleteRows
  <1> QED
    BY <1>1, TreeDelete

\* The requests that give an inode out without changing a table, or change only
\* what the kernel and the process count
LEMMA TreeLookup ==
  ASSUME TreeInv, CountInv', NEW p \in Ino, NEW n \in Name, Lookup(p, n) PROVE TreeInv'
  BY TreeSame DEF Lookup

LEMMA TreeMkdir ==
  ASSUME TreeInv, CountInv', NEW p \in Ino, NEW n \in Name, Mkdir(p, n) PROVE TreeInv'
  <1>1. PICK i \in Ino : add_inode_and_dentry(p, n, "dir", i)
    BY DEF Mkdir
  <1> QED
    BY <1>1, TreeAdd DEF Mkdir, Kind

LEMMA TreeCreate ==
  ASSUME TreeInv, CountInv', NEW p \in Ino, NEW n \in Name, Create(p, n) PROVE TreeInv'
  <1>1. CASE UNCHANGED store
    BY <1>1, TreeSame DEF Create
  <1>2. CASE \E i \in Ino : add_inode_and_dentry(p, n, "file", i)
    <2>1. PICK i \in Ino : add_inode_and_dentry(p, n, "file", i)
      BY <1>2
    <2> QED
      BY <2>1, TreeAdd DEF Create, Kind
  <1> QED
    BY <1>1, <1>2 DEF Create

LEMMA TreeSymlink ==
  ASSUME TreeInv, CountInv', NEW p \in Ino, NEW n \in Name, Symlink(p, n) PROVE TreeInv'
  <1>1. PICK i \in Ino : add_inode_and_dentry(p, n, "symlink", i)
    BY DEF Symlink
  <1> QED
    BY <1>1, TreeAdd DEF Symlink, Kind

LEMMA TreeForget ==
  ASSUME TreeInv, CountInv', NEW i \in Ino, NEW n \in 1 .. forgets[i], Forget(i, n)
  PROVE  TreeInv'
  <1>1. session = "mounted" /\ session' = session
    BY DEF Forget, Serving
  <1>2. CASE TryToDelete(i)
    BY <1>1, <1>2, TreeDeleteInode
  <1>3. CASE UNCHANGED store
    BY <1>1, <1>3, TreeSame
  <1> QED
    BY <1>2, <1>3 DEF Forget

LEMMA TreeSymlinkData == ASSUME TreeInv, CountInv', SymlinkData PROVE TreeInv'
  <1>1. UNCHANGED <<metadata, next_ino, dentry, session>>
    BY DEF SymlinkData, write_link_data, store
  <1>2. Shape' /\ RootThere'
    BY <1>1, TreeTypes, ShapeSame DEF TreeInv, RootThere
  <1> QED
    BY <1>2, TreeKept

LEMMA TreeFinishReclaim == ASSUME TreeInv, CountInv', FinishReclaim PROVE TreeInv'
  <1>1. PICK i \in handler.inos : TryToDelete(i)
    BY DEF FinishReclaim
  <1>2. i \in Ino
    BY TreeTypes DEF TypeOK
  <1> QED
    BY <1>1, <1>2, TreeDeleteInode DEF FinishReclaim

LEMMA TreeDestroyOne ==
  ASSUME TreeInv, CountInv', NEW i \in Ino, DestroyOne(i) PROVE TreeInv'
  BY TreeDeleteInode DEF DestroyOne

LEMMA TreeFuseInit == ASSUME TreeInv, CountInv', FuseInit PROVE TreeInv'
  <1>1. PICK S \in SUBSET Ino : (\A j \in S : ~Referenced(j)) /\ DeleteRows(S)
    BY TreeTypes, TryToCleanUpRows DEF FuseInit
  <1> QED
    BY <1>1, TreeDelete DEF FuseInit, Advance

\* The steps of the process that leave the tables alone
LEMMA TreeProcess ==
  ASSUME TreeInv, CountInv', Start \/ Destroy \/ Stop \/ (\E i \in Ino : Evict(i)) \/ UNCHANGED vars
  PROVE  TreeInv'
  <1>1. UNCHANGED <<metadata, next_ino, dentry>>
    BY DEF Start, Destroy, Stop, Evict, vars, store
  <1>2. \/ session' = session
        \/ session = "mounted" /\ session' = "destroy"
        \/ session' \in {"down", "init_root"}
    BY DEF Start, Destroy, Stop, Evict, vars, memory, Advance, Serving
  <1>3. Shape'
    BY <1>1, TreeTypes, ShapeSame
  <1>4. RootThere'
    BY <1>1, <1>2 DEF TreeInv, RootThere
  <1> QED
    BY <1>3, <1>4, TreeKept

\* The mount creates the root as inode 1: no number was handed out before
LEMMA TreeInitRoot == ASSUME TreeInv, CountInv', InitRoot PROVE TreeInv'
  <1>1. session = "init_root" /\ session' = "init_dot"
    BY DEF InitRoot, Advance
  <1>2. /\ StoreTypeOK /\ Shape /\ next_ino \in Nat \ {0}
        /\ next_ino > 1 => metadata[ROOT] = "dir"
        /\ \A i \in Ino : i >= next_ino => metadata[i] = "none"
    BY TreeTypes, MaxInoAssumption DEF StoreTypeOK, TreeInv, RootThere, Fresh, Exists
  <1>3. CASE Exists(ROOT)
    <2>1. UNCHANGED <<metadata, next_ino, dentry>>
      BY <1>3 DEF InitRoot, init_root, store
    <2>2. next_ino > 1
      BY <1>2, <1>3, RootIsIno DEF Exists, ROOT
    <2>3. Shape' /\ RootThere'
      BY <1>1, <1>2, <2>1, <2>2, ShapeSame DEF RootThere
    <2> QED
      BY <2>3, TreeKept
  <1>4. CASE ~Exists(ROOT)
    <2>1. PICK i \in Ino : /\ i = next_ino /\ next_ino' = next_ino + 1
                           /\ metadata' = [metadata EXCEPT ![i] = "dir"]
                           /\ dentry' = dentry
      BY <1>4 DEF InitRoot, init_root, AllocIno
    <2>2. i = ROOT /\ next_ino = 1 /\ next_ino' = 2
      BY <1>2, <1>4, <2>1 DEF Exists, ROOT
    <2>3. \A j \in Ino : metadata[j] = "none"
      BY <1>2, <2>2 DEF Ino
    <2>4. dentry = {}
      BY <1>2, <2>3 DEF Shape, RowsRefer, StoreTypeOK, DEntry
    <2>5. Shape'
      BY <2>1, <2>4 DEF Shape, RowsRefer, KeyUnique, SelfRows, RootUnnamed, DotsFollowTheTree,
                        NamesAreInLivingDirs, HasName
    <2>6. metadata'[ROOT] = "dir"
      BY <1>2, <2>1, <2>2 DEF StoreTypeOK
    <2>7. RootThere'
      BY <1>1, <2>2, <2>6 DEF RootThere
    <2> QED
      BY <2>5, <2>7, TreeKept
  <1> QED
    BY <1>3, <1>4

LEMMA TreeInitDots == ASSUME TreeInv, CountInv', InitDot \/ InitDotDot PROVE TreeInv'
  <1>1. /\ StoreTypeOK /\ Shape
        /\ next_ino > 1 /\ metadata[ROOT] = "dir"
        /\ session = "init_dotdot" => SelfRow(ROOT) \in dentry
    BY TreeTypes DEF InitDot, InitDotDot, Advance, TreeInv, RootThere
  <1>2. CASE InitDot
    <2>1. init_dot(".") /\ session' = "init_dotdot"
      BY <1>2 DEF InitDot, Advance
    <2>2. Shape' /\ SelfRow(ROOT) \in dentry'
      BY <1>1, <2>1, ShapeDot
    <2>3. RootThere'
      BY <1>1, <2>1, <2>2 DEF RootThere, init_dot
    <2> QED
      BY <2>2, <2>3, TreeKept
  <1>3. CASE InitDotDot
    <2>1. init_dot("..") /\ session = "init_dotdot" /\ session' = "fuse_init"
      BY <1>3 DEF InitDotDot, Advance
    <2>2. Shape' /\ SelfRow(ROOT) \in dentry'
      BY <1>1, <2>1, ShapeDot
    <2>3. RootThere'
      BY <1>1, <2>1, <2>2 DEF RootThere, init_dot
    <2> QED
      BY <2>2, <2>3, TreeKept
  <1> QED
    BY <1>2, <1>3

LEMMA TreeInit == Init => TreeInv
  <1> SUFFICES ASSUME Init PROVE TreeInv
    OBVIOUS
  <1>1. dentry = {} /\ next_ino = 1 /\ session = "down"
    BY DEF Init, EmptyStore
  <1> QED
    BY <1>1, CountInit DEF TreeInv, RowsRefer, KeyUnique, SelfRows, RootUnnamed, RootThere,
                           DotsFollowTheTree, NamesAreInLivingDirs, HasName

\* Every step keeps the shape of the tree
LEMMA TreeNext == TreeInv /\ [Next]_vars => TreeInv'
  <1> SUFFICES ASSUME TreeInv, [Next]_vars PROVE TreeInv'
    OBVIOUS
  <1>0. CountInv'
    BY TreeTypes, CountNext
  <1>1. CASE Request
    <2>1. CASE \E p \in Ino, n \in Name : \/ Lookup(p, n) \/ Mkdir(p, n) \/ Create(p, n)
                                          \/ Symlink(p, n) \/ Unlink(p, n) \/ Rmdir(p, n)
      BY <1>0, <2>1, TreeLookup, TreeMkdir, TreeCreate, TreeSymlink, TreeRemove
    <2>2. CASE \E p, q \in Ino, n, m \in Name : Rename(p, n, q, m)
      BY <1>0, <2>2, TreeRename
    <2>3. CASE \E i, p \in Ino, n \in Name : Link(i, p, n)
      BY <1>0, <2>3, TreeLink
    <2>4. CASE \E i \in Ino : \E n \in 1 .. forgets[i] : Forget(i, n)
      BY <1>0, <2>4, TreeForget
    <2> QED
      BY <1>1, <2>1, <2>2, <2>3, <2>4 DEF Request
  <1>2. CASE SymlinkData \/ FinishReclaim
    BY <1>0, <1>2, TreeSymlinkData, TreeFinishReclaim
  <1>3. CASE InitRoot \/ InitDot \/ InitDotDot \/ FuseInit
    BY <1>0, <1>3, TreeInitRoot, TreeInitDots, TreeFuseInit
  <1>4. CASE \E i \in Ino : DestroyOne(i)
    BY <1>0, <1>4, TreeDestroyOne
  <1>5. CASE Start \/ Destroy \/ Stop \/ (\E i \in Ino : Evict(i)) \/ UNCHANGED vars
    BY <1>0, <1>5, TreeProcess
  <1> QED
    BY <1>1, <1>2, <1>3, <1>4, <1>5 DEF Next

LEMMA TreeInvHolds == Spec => []TreeInv
  BY TreeInit, TreeNext, PTL DEF Spec

\* Wherever rename moved a directory, it has one name, and its dots lead to
\* itself and to the directory that name is in
THEOREM DotsAlwaysFollow == Spec => []DotsFollowTheTree
  <1>1. TreeInv => DotsFollowTheTree
    BY DEF TreeInv
  <1> QED
    BY <1>1, TreeInvHolds, PTL

\* No name is ever left in a directory that is gone or has no name itself
THEOREM NamesAlwaysInLivingDirs == Spec => []NamesAreInLivingDirs
  <1>1. TreeInv => NamesAreInLivingDirs
    BY DEF TreeInv
  <1> QED
    BY <1>1, TreeInvHolds, PTL
====
