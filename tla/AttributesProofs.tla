---- MODULE AttributesProofs ----
(***************************************************************************)
(* Proofs about Attributes, for any number of directories, files, names,   *)
(* values and instants: no change but that of a file's names goes without  *)
(* a new time, setattr undoes no write, and XATTR_CREATE is a lock.        *)
(***************************************************************************)
EXTENDS Attributes, FiniteSetTheorems, TLAPS

\* The tables fit together, and no time of change lies in the future.
TablesOK ==
    /\ now \in Time /\ recording \in BOOLEAN
    /\ metadata \in [DOMAIN metadata -> Row]
    /\ Dir \subseteq DOMAIN metadata /\ DOMAIN metadata \subseteq Dir \cup born
    /\ born \subseteq File
    /\ \A e \in dentry : e.parent \in Dir /\ e.child \in born
    /\ data \in [DOMAIN metadata \ Dir -> SUBSET Value]
    /\ xattr \in [DOMAIN metadata -> SUBSET Value]
    /\ \A i \in DOMAIN metadata : xattr[i] = {} \/ \E v \in Value : xattr[i] = {v}
    /\ \A i \in DOMAIN metadata : metadata[i].ctime <= now

\* What setattr read is the row as it is now, but for what was asked for.
SetAttrOK ==
    /\ handler.op = "setattr"
    /\ handler = [op |-> "setattr", ino |-> handler.ino, asked |-> handler.asked,
                  truncate |-> handler.truncate, attr |-> handler.attr]
    /\ handler.ino \in Inode /\ HasAttributes(handler.ino)
    /\ handler.attr \in Row /\ handler.truncate \in BOOLEAN
    /\ LET row == metadata[handler.ino]
       IN  /\ handler.truncate <=> "size" \in handler.asked /\ handler.attr.size < row.size
           /\ "size" \in handler.asked => handler.ino \in File
           /\ "size" \notin handler.asked => handler.attr.size = row.size
           /\ "mode" \notin handler.asked => handler.attr.mode = row.mode
           /\ "mtime" \notin handler.asked => handler.attr.mtime = row.mtime

\* What setxattr found about the attribute still holds.
SetXattrOK ==
    /\ handler.op = "setxattr"
    /\ handler = [op |-> "setxattr", ino |-> handler.ino, value |-> handler.value,
                  create |-> handler.create]
    /\ handler.ino \in Inode /\ Exists(handler.ino)
    /\ handler.value \in Value /\ handler.create \in BOOLEAN
    /\ handler.create => xattr[handler.ino] = {}

HandlerOK == handler = None \/ SetAttrOK \/ SetXattrOK

\* A lock that is held is there.
GrantsOK ==
    /\ grants \in [Inode -> 0 .. 1]
    /\ \A i \in Inode : grants[i] = 1 => Exists(i) /\ xattr[i] # {}

\* What was noted of an inode is as it was, or the inode has a time after that.
Unchanged ==
    /\ NotedRow.ctime = seen.row.ctime
    /\ Contents(seen.ino) = seen.contents
    /\ NotedRow.mode = seen.row.mode
    /\ xattr[seen.ino] = seen.xattr
    /\ seen.relinked \/ (NotedRow.mtime = seen.row.mtime /\ Names(seen.ino) = seen.names)

\* What a program notes
Notes == [what : {"inode"}, ino : Dir \cup born, row : Row, contents : {seen.contents},
          xattr : {seen.xattr}, names : {seen.names}, dated : BOOLEAN, relinked : BOOLEAN]

SeenOK ==
    seen # Nothing =>
        /\ seen \in Notes
        /\ recording
        /\ seen.row.ctime < now /\ seen.row.mtime < now
        /\ Exists(seen.ino) =>
            /\ Unchanged \/ seen.row.ctime < NotedRow.ctime
            /\ \/ seen.dated
               \/ NotedRow.mtime = seen.row.mtime /\ Contents(seen.ino) = seen.contents
               \/ seen.row.mtime < NotedRow.mtime

AttributesInv == TablesOK /\ HandlerOK /\ GrantsOK /\ SeenOK

---------------------------------------------------------------------------
(* Helpers *)

\* A stamp changes times only, those of the inodes named, and to now.
LEMMA StampedRows ==
    ASSUME NEW D, NEW rows \in [D -> Row], NEW modified, NEW changed, now \in Time
    PROVE  /\ Stamped(rows, modified, changed) \in [D -> Row]
           /\ \A i \in D :
                LET row == Stamped(rows, modified, changed)[i]
                IN  /\ row.size = rows[i].size /\ row.mode = rows[i].mode
                    /\ row.mtime = IF recording /\ i \in modified THEN now ELSE rows[i].mtime
                    /\ row.ctime = IF recording /\ i \in changed THEN now ELSE rows[i].ctime
<1>1. CASE ~recording
  BY <1>1 DEF Stamped
<1>2. CASE recording
  BY <1>2 DEF Stamped, Row
<1> QED
  BY <1>1, <1>2

\* A step that leaves no handler behind has nothing to answer for.
LEMMA HandlerStays ==
    ASSUME Serving, handler' = handler
    PROVE  HandlerOK'
BY DEF Serving, HandlerOK

\* The program that noted an inode may learn that it was relinked.
MayRelink == seen' = seen \/ (seen # Nothing /\ seen' = [seen EXCEPT !.relinked = TRUE])

SameNames(i) ==
    seen'.relinked \/ (metadata'[i].mtime = metadata[i].mtime /\ Names(i)' = Names(i))

LEMMA NotesStay ==
    ASSUME SeenOK, MayRelink, born \subseteq born', seen # Nothing
    PROVE  /\ seen' # Nothing /\ seen' \in Notes'
           /\ seen'.ino = seen.ino /\ seen'.row = seen.row /\ seen'.contents = seen.contents
           /\ seen'.xattr = seen.xattr /\ seen'.names = seen.names /\ seen'.dated = seen.dated
           /\ seen'.relinked \/ ~seen.relinked
<1>1. seen \in Notes
  BY DEF SeenOK
<1>2. seen' \in [what : {"inode"}, ino : Dir \cup born, row : Row, contents : {seen.contents},
                 xattr : {seen.xattr}, names : {seen.names}, dated : BOOLEAN, relinked : BOOLEAN]
  BY <1>1 DEF MayRelink, Notes
<1>3. /\ seen'.ino = seen.ino /\ seen'.row = seen.row /\ seen'.contents = seen.contents
      /\ seen'.xattr = seen.xattr /\ seen'.names = seen.names /\ seen'.dated = seen.dated
  BY <1>1 DEF MayRelink, Notes
<1>4. seen'.relinked \/ ~seen.relinked
  BY <1>1, Zenon DEF MayRelink, Notes
<1>5. seen' # Nothing /\ seen' \in Notes'
  BY <1>2, <1>3 DEF Notes, Nothing
<1> QED
  BY <1>3, <1>4, <1>5

\* What was noted stays of use if each inode is as it was or has a new time.
LEMMA SeenStays ==
    ASSUME AttributesInv, UNCHANGED <<now, recording>>, MayRelink, born \subseteq born',
           metadata' \in [DOMAIN metadata' -> Row],
           \A i \in (Dir \cup born) \cap DOMAIN metadata' :
                /\ i \in DOMAIN metadata
                /\ recording =>
                    /\ \/ metadata'[i].ctime = now
                       \/ /\ metadata'[i].ctime = metadata[i].ctime
                          /\ metadata'[i].mode = metadata[i].mode
                          /\ xattr'[i] = xattr[i]
                          /\ Contents(i)' = Contents(i)
                          /\ (seen # Nothing /\ i = seen.ino) => SameNames(i)
                    /\ \/ metadata'[i].mtime = now
                       \/ /\ metadata'[i].mtime = metadata[i].mtime
                          /\ Contents(i)' = Contents(i)
    PROVE  SeenOK'
<1> USE DEF AttributesInv
<1>1. CASE seen = Nothing
  BY <1>1 DEF SeenOK, MayRelink
<1>2. CASE seen # Nothing
  <2>0. PICK i : i = seen.ino
    OBVIOUS
  <2>1. /\ seen' # Nothing /\ seen' \in Notes'
        /\ seen'.ino = i /\ seen'.row = seen.row /\ seen'.contents = seen.contents
        /\ seen'.xattr = seen.xattr /\ seen'.names = seen.names /\ seen'.dated = seen.dated
        /\ seen'.relinked \/ ~seen.relinked
    BY <1>2, <2>0, NotesStay
  <2>2. /\ i \in Dir \cup born /\ recording /\ recording'
        /\ seen.row.ctime < now /\ seen.row.mtime < now /\ seen.row \in Row /\ now \in Time
        /\ seen.row.ctime \in Int /\ seen.row.mtime \in Int /\ now \in Int
    BY <1>2, <2>0 DEF SeenOK, TablesOK, Notes, Row, Time
  <2> SUFFICES ASSUME Exists(i)'
               PROVE  /\ Unchanged' \/ seen.row.ctime < NotedRow'.ctime
                      /\ \/ seen.dated
                         \/ NotedRow'.mtime = seen.row.mtime /\ Contents(i)' = seen.contents
                         \/ seen.row.mtime < NotedRow'.mtime
    BY <1>2, <2>1, <2>2 DEF SeenOK
  <2>3. i \in DOMAIN metadata' /\ i \in DOMAIN metadata /\ Exists(seen.ino)
    BY <2>0, <2>2 DEF Exists
  <2>4. NotedRow' = metadata'[i] /\ NotedRow = metadata[i] /\ metadata[i] \in Row
    BY <2>0, <2>1, <2>3 DEF NotedRow, TablesOK
  <2>6. Unchanged' \/ seen.row.ctime < NotedRow'.ctime
    <3>1. CASE metadata'[i].ctime = now
      BY <2>2, <2>4, <3>1
    <3>2. CASE metadata'[i].ctime # now
      <4>1. /\ metadata'[i].ctime = metadata[i].ctime /\ metadata'[i].mode = metadata[i].mode
            /\ xattr'[i] = xattr[i] /\ Contents(i)' = Contents(i) /\ SameNames(i)
        BY <1>2, <2>0, <2>2, <2>3, <3>2
      <4>2. CASE seen.row.ctime < NotedRow.ctime
        BY <2>4, <4>1, <4>2
      <4>3. CASE Unchanged
        BY <2>0, <2>1, <2>4, <4>1, <4>3 DEF Unchanged, SameNames
      <4> QED
        BY <1>2, <2>3, <4>2, <4>3 DEF SeenOK
    <3> QED
      BY <3>1, <3>2
  <2>7. \/ seen.dated
        \/ NotedRow'.mtime = seen.row.mtime /\ Contents(i)' = seen.contents
        \/ seen.row.mtime < NotedRow'.mtime
    <3>1. CASE metadata'[i].mtime = now
      BY <2>2, <2>4, <3>1
    <3>2. CASE ~(metadata'[i].mtime = now)
      <4>1. metadata'[i].mtime = metadata[i].mtime /\ Contents(i)' = Contents(i)
        BY <2>2, <2>3, <3>2
      <4> QED
        BY <1>2, <2>0, <2>3, <2>4, <4>1 DEF SeenOK
    <3> QED
      BY <3>1, <3>2
  <2> QED
    BY <2>6, <2>7
<1> QED
  BY <1>1, <1>2

LEMMA SeenStaysAsNoted ==
    ASSUME AttributesInv, UNCHANGED <<now, recording, seen>>, born \subseteq born',
           metadata' \in [DOMAIN metadata' -> Row],
           \A i \in (Dir \cup born) \cap DOMAIN metadata' :
                /\ i \in DOMAIN metadata
                /\ recording =>
                    /\ \/ metadata'[i].ctime = now
                       \/ /\ metadata'[i].ctime = metadata[i].ctime
                          /\ metadata'[i].mtime = metadata[i].mtime
                          /\ metadata'[i].mode = metadata[i].mode
                          /\ xattr'[i] = xattr[i]
                          /\ Contents(i)' = Contents(i) /\ Names(i)' = Names(i)
                    /\ \/ metadata'[i].mtime = now
                       \/ /\ metadata'[i].mtime = metadata[i].mtime
                          /\ Contents(i)' = Contents(i)
    PROVE  SeenOK'
<1>1. MayRelink
  BY DEF MayRelink
<1>2. \A i : metadata'[i].mtime = metadata[i].mtime /\ Names(i)' = Names(i) => SameNames(i)
  BY DEF SameNames
<1> QED
  BY <1>1, <1>2, SeenStays

---------------------------------------------------------------------------
(* The steps *)

LEMMA InitOK == Init => AttributesInv
<1> SUFFICES ASSUME Init PROVE AttributesInv
  OBVIOUS
<1> USE DEF Init
<1>1. TablesOK
  BY DisjointAssumption, SizeAndTimeAssumption DEF TablesOK, Row, Time, Mode
<1>2. HandlerOK /\ GrantsOK /\ SeenOK
  BY DEF HandlerOK, GrantsOK, SeenOK
<1> QED
  BY <1>1, <1>2 DEF AttributesInv

LEMMA CreateKeeps ==
    ASSUME AttributesInv, NEW d \in Dir, NEW n \in Name, NEW f \in File, Create(d, n, f)
    PROVE  AttributesInv'
<1> USE DEF AttributesInv
<1> DEFINE rows == With(metadata, f, [size |-> 0, mode |-> "shared", mtime |-> now, ctime |-> now])
<1>1. f \notin Dir /\ f \notin born /\ f \notin DOMAIN metadata
  BY DisjointAssumption DEF Create, TablesOK
<1>2. rows \in [DOMAIN metadata \cup {f} -> Row]
  BY SizeAndTimeAssumption DEF With, TablesOK, Row, Mode
<1>3. \A i \in DOMAIN metadata : rows[i] = metadata[i]
  BY <1>1 DEF With
<1>4. rows[f].ctime = now
  BY DEF With
<1>5. metadata' = Stamped(rows, {d}, {d})
  BY DEF Create
<1>6. metadata' \in [DOMAIN metadata \cup {f} -> Row] /\ DOMAIN metadata' = DOMAIN metadata \cup {f}
  BY <1>2, <1>5, StampedRows DEF TablesOK
<1>7. \A i \in DOMAIN metadata \cup {f} :
        /\ metadata'[i].size = rows[i].size /\ metadata'[i].mode = rows[i].mode
        /\ metadata'[i].mtime = IF recording /\ i \in {d} THEN now ELSE rows[i].mtime
        /\ metadata'[i].ctime = IF recording /\ i \in {d} THEN now ELSE rows[i].ctime
  BY <1>2, <1>5, StampedRows DEF TablesOK
<1> HIDE DEF rows
<1>8. /\ data' \in [DOMAIN metadata' \ Dir -> SUBSET Value] /\ xattr' \in [DOMAIN metadata' -> SUBSET Value]
      /\ xattr'[f] = {} /\ \A i \in DOMAIN metadata : xattr'[i] = xattr[i]
      /\ \A i \in DOMAIN metadata \ Dir : data'[i] = data[i]
  BY <1>1, <1>6 DEF Create, With, TablesOK
<1>9. TablesOK'
  <2>1. now' = now /\ recording' = recording /\ born' = born \cup {f}
        /\ dentry' = dentry \cup {[parent |-> d, name |-> n, child |-> f]}
    BY DEF Create, Memory
  <2>2. \A i \in DOMAIN metadata' : metadata'[i].ctime <= now
    BY <1>3, <1>4, <1>6, <1>7 DEF TablesOK, Time
  <2> QED
    BY <1>6, <1>8, <2>1, <2>2 DEF TablesOK
<1>10. HandlerOK'
  BY HandlerStays DEF Create, Memory
<1>11. GrantsOK'
  BY <1>6, <1>8 DEF GrantsOK, Create, Memory, Exists
<1>12. SeenOK'
  <2>1. UNCHANGED <<now, recording, seen>> /\ born \subseteq born'
    BY DEF Create, Memory
  <2>2. ASSUME NEW i \in (Dir \cup born) \cap DOMAIN metadata', recording
        PROVE  /\ i \in DOMAIN metadata
               /\ \/ metadata'[i].ctime = now /\ metadata'[i].mtime = now
                  \/ /\ metadata'[i].ctime = metadata[i].ctime
                     /\ metadata'[i].mtime = metadata[i].mtime
                     /\ metadata'[i].mode = metadata[i].mode
                     /\ xattr'[i] = xattr[i]
                     /\ Contents(i)' = Contents(i) /\ Names(i)' = Names(i)
    <3>1. i \in DOMAIN metadata /\ i # f
      BY <1>1, <1>6, <2>2
    <3>2. CASE i = d
      BY <1>7, <2>2, <3>1, <3>2
    <3>3. CASE i # d
      <4>1. {<<e.name, e.child>> : e \in {x \in dentry' : x.parent = i}}
              = {<<e.name, e.child>> : e \in {x \in dentry : x.parent = i}}
        BY <3>3 DEF Create
      <4>2. metadata'[i].size = metadata[i].size /\ (i \notin Dir => data'[i] = data[i])
        BY <1>3, <1>7, <1>8, <3>1
      <4>3. Contents(i)' = Contents(i)
        BY <4>1, <4>2 DEF Contents
      <4>4. Names(i)' = Names(i)
        BY <3>1 DEF Names, Create
      <4> QED
        BY <1>3, <1>7, <1>8, <3>1, <3>3, <4>3, <4>4
    <3> QED
      BY <3>2, <3>3, <3>1
  <2>3. \A i \in (Dir \cup born) \cap DOMAIN metadata' : i \in DOMAIN metadata
    BY <1>1, <1>6
  <2> QED
    BY <1>6, <2>1, <2>2, <2>3, SeenStaysAsNoted
<1> QED
  BY <1>9, <1>10, <1>11, <1>12

\* What a transaction that stamps does to the rows there are.  The inodes it does not
\* stamp are, but for this, as they were.
LEMMA StampingKeeps ==
    ASSUME AttributesInv, UNCHANGED <<now, recording, born>>, MayRelink,
           NEW modified, NEW changed,
           NEW rows \in [DOMAIN metadata -> Row],
           metadata' = Stamped(rows, modified, changed),
           \A i \in DOMAIN metadata :
                rows[i].mtime = metadata[i].mtime /\ rows[i].ctime = metadata[i].ctime,
           \A i \in DOMAIN metadata :
                /\ i \notin modified => Contents(i)' = Contents(i)
                /\ i \notin changed =>
                    /\ Contents(i)' = Contents(i)
                    /\ rows[i].mode = metadata[i].mode /\ xattr'[i] = xattr[i]
                    /\ (seen # Nothing /\ i = seen.ino) => SameNames(i)
    PROVE  /\ DOMAIN metadata' = DOMAIN metadata /\ metadata' \in [DOMAIN metadata -> Row]
           /\ \A i \in DOMAIN metadata : metadata'[i].ctime <= now
           /\ SeenOK'
<1>1. now \in Time /\ recording \in BOOLEAN
  BY DEF AttributesInv, TablesOK
<1>2. /\ metadata' \in [DOMAIN metadata -> Row] /\ DOMAIN metadata' = DOMAIN metadata
      /\ \A i \in DOMAIN metadata :
            /\ metadata'[i].mode = rows[i].mode
            /\ metadata'[i].mtime = IF recording /\ i \in modified THEN now ELSE metadata[i].mtime
            /\ metadata'[i].ctime = IF recording /\ i \in changed THEN now ELSE metadata[i].ctime
  BY <1>1, StampedRows
<1>3. \A i \in DOMAIN metadata : metadata'[i].ctime <= now
  BY <1>1, <1>2 DEF AttributesInv, TablesOK, Time
<1>4. SeenOK'
  BY <1>1, <1>2, SeenStays
<1> QED
  BY <1>2, <1>3, <1>4

\* Transactions on the entries stamp the directories whose entries they change.
LEMMA NamingKeeps ==
    ASSUME AttributesInv, Serving, UNCHANGED <<now, recording, handler, grants>>, MayRelink,
           UNCHANGED <<born, data, xattr>>,
           NEW modified, NEW changed,
           metadata' = Stamped(metadata, modified, changed),
           \A e \in dentry' : e.parent \in Dir /\ e.child \in born,
           \A i \in Dir : i \notin modified \/ i \notin changed =>
                {x \in dentry' : x.parent = i} = {x \in dentry : x.parent = i},
           \A i : seen # Nothing /\ i = seen.ino /\ i \notin changed =>
                seen'.relinked \/ (i \notin modified /\ Names(i)' = Names(i))
    PROVE  AttributesInv'
<1> USE DEF AttributesInv
<1>1. UNCHANGED <<now, recording, born, grants, handler>>
  OBVIOUS
<1>2. metadata \in [DOMAIN metadata -> Row] /\ now \in Time
  BY DEF TablesOK
<1>3. \A i \in DOMAIN metadata : metadata'[i].size = metadata[i].size
  BY <1>2, StampedRows
<1>4. ASSUME NEW i \in DOMAIN metadata, i \notin modified \/ i \notin changed
      PROVE  Contents(i)' = Contents(i)
  <2>1. CASE i \in Dir
    BY <1>4, <2>1 DEF Contents
  <2>2. CASE i \notin Dir
    BY <1>3, <2>2 DEF Contents
  <2> QED
    BY <2>1, <2>2
<1>5. /\ DOMAIN metadata' = DOMAIN metadata /\ metadata' \in [DOMAIN metadata -> Row]
      /\ \A i \in DOMAIN metadata : metadata'[i].ctime <= now
      /\ SeenOK'
  <2>1. ASSUME NEW i \in DOMAIN metadata, i \notin changed, seen # Nothing, i = seen.ino
        PROVE  SameNames(i)
    <3>1. CASE seen'.relinked
      BY <3>1 DEF SameNames
    <3>2. CASE i \notin modified /\ Names(i)' = Names(i)
      <4>1. metadata'[i].mtime = metadata[i].mtime
        BY <1>2, <3>2, StampedRows
      <4> QED
        BY <3>2, <4>1 DEF SameNames
    <3> QED
      BY <2>1, <3>1, <3>2
  <2> QED
    BY <1>1, <1>2, <1>4, <2>1, StampingKeeps
<1>6. TablesOK'
  BY <1>1, <1>5 DEF TablesOK
<1>7. HandlerOK' /\ GrantsOK'
  BY <1>1, <1>5, HandlerStays DEF GrantsOK, Exists
<1> QED
  BY <1>5, <1>6, <1>7

LEMMA RelinkedFacts ==
    ASSUME AttributesInv, NEW files, Relinked(files)
    PROVE  /\ UNCHANGED <<now, recording, handler, grants>> /\ MayRelink
           /\ seen # Nothing /\ seen.ino \in files => seen'.relinked
<1>1. seen # Nothing => seen \in Notes
  BY DEF AttributesInv, SeenOK
<1>2. seen # Nothing => [seen EXCEPT !.relinked = TRUE].relinked
  BY <1>1 DEF Notes
<1> QED
  BY <1>2 DEF Relinked, MayRelink

LEMMA LinkKeeps ==
    ASSUME AttributesInv, NEW f \in File, NEW d \in Dir, NEW n \in Name, Link(f, d, n)
    PROVE  AttributesInv'
<1>1. f \in born
  BY DisjointAssumption DEF Link, HasAttributes, Exists, AttributesInv, TablesOK
<1>2. dentry' = dentry \cup {[parent |-> d, name |-> n, child |-> f]}
  BY DEF Link
<1>3. \A e \in dentry' : e.parent \in Dir /\ e.child \in born
  BY <1>1, <1>2 DEF AttributesInv, TablesOK
<1>4. \A i \in Dir : i # d => {x \in dentry' : x.parent = i} = {x \in dentry : x.parent = i}
  BY <1>2
<1>5. \A i : i # f => Names(i)' = Names(i)
  BY <1>2 DEF Names
<1>6. /\ UNCHANGED <<now, recording, handler, grants>> /\ MayRelink
      /\ seen # Nothing /\ seen.ino = f => seen'.relinked
  BY RelinkedFacts DEF Link
<1>7. \A i : seen # Nothing /\ i = seen.ino /\ i \notin {d} =>
        seen'.relinked \/ (i \notin {f, d} /\ Names(i)' = Names(i))
  BY <1>5, <1>6
<1>8. metadata' = Stamped(metadata, {f, d}, {d}) /\ Serving /\ UNCHANGED <<born, data, xattr>>
  BY DEF Link
<1> QED
  BY <1>3, <1>4, <1>6, <1>7, <1>8, NamingKeeps

LEMMA UnlinkKeeps ==
    ASSUME AttributesInv, NEW d \in Dir, NEW n \in Name, Unlink(d, n)
    PROVE  AttributesInv'
<1>1. PICK e \in Entry(d, n) :
        dentry' = dentry \ {e} /\ metadata' = Stamped(metadata, {d}, {e.child, d})
  BY DEF Unlink
<1>2. \A x \in dentry' : x.parent \in Dir /\ x.child \in born
  BY <1>1 DEF AttributesInv, TablesOK
<1>3. \A i \in Dir : i # d => {x \in dentry' : x.parent = i} = {x \in dentry : x.parent = i}
  BY <1>1 DEF Entry
<1>4. \A i : i # e.child => Names(i)' = Names(i)
  BY <1>1 DEF Names
<1>5. \A i : seen # Nothing /\ i = seen.ino /\ i \notin {e.child, d} =>
        seen'.relinked \/ (i \notin {d} /\ Names(i)' = Names(i))
  BY <1>4
<1>6. /\ UNCHANGED <<now, recording, handler, grants>> /\ MayRelink
      /\ Serving /\ UNCHANGED <<born, data, xattr>>
  BY DEF Unlink, Memory, MayRelink
<1> QED
  BY <1>1, <1>2, <1>3, <1>5, <1>6, NamingKeeps

LEMMA RenameKeeps ==
    ASSUME AttributesInv, NEW d \in Dir, NEW n \in Name, NEW e \in Dir, NEW m \in Name,
           Rename(d, n, e, m)
    PROVE  AttributesInv'
<1>1. PICK x \in Entry(d, n) :
        /\ dentry' = (dentry \ ({x} \cup Entry(e, m)))
                        \cup {[parent |-> e, name |-> m, child |-> x.child]}
        /\ metadata' = Stamped(metadata, {d, e}, {d, e, x.child})
  BY DEF Rename
<1>2. \A y \in dentry' : y.parent \in Dir /\ y.child \in born
  BY <1>1 DEF AttributesInv, TablesOK, Entry
<1>3. \A i \in Dir : i \notin {d, e} =>
        {y \in dentry' : y.parent = i} = {y \in dentry : y.parent = i}
  BY <1>1 DEF Entry
<1> DEFINE taken == {y.child : y \in Entry(e, m)}
<1>4. \A i : i # x.child /\ i \notin taken => Names(i)' = Names(i)
  BY <1>1 DEF Names, Entry
<1>5. /\ UNCHANGED <<now, recording, handler, grants>> /\ MayRelink
      /\ seen # Nothing /\ seen.ino \in taken => seen'.relinked
  <2>1. Relinked(taken)
    BY DEF Rename
  <2> QED
    BY <2>1, RelinkedFacts
<1>6. \A i : seen # Nothing /\ i = seen.ino /\ i \notin {d, e, x.child} =>
        seen'.relinked \/ (i \notin {d, e} /\ Names(i)' = Names(i))
  BY <1>4, <1>5
<1>7. Serving /\ UNCHANGED <<born, data, xattr>>
  BY DEF Rename
<1> QED
  BY <1>1, <1>2, <1>3, <1>5, <1>6, <1>7, NamingKeeps

LEMMA DeleteKeeps ==
    ASSUME AttributesInv, NEW f \in File, Delete(f)
    PROVE  AttributesInv'
<1> USE DEF AttributesInv
<1>1. /\ Serving /\ f \notin Dir /\ UNCHANGED <<now, recording, born, dentry, handler, seen>>
      /\ f \in DOMAIN metadata /\ grants' = [grants EXCEPT ![f] = 0]
  BY DisjointAssumption DEF Delete, Exists
<1>2. DOMAIN metadata' = DOMAIN metadata \ {f} /\ \A i \in DOMAIN metadata' : metadata'[i] = metadata[i]
  BY DEF Delete, Without
<1>3. metadata' \in [DOMAIN metadata' -> Row]
  BY <1>2 DEF Delete, Without, TablesOK
<1>4. /\ data' \in [DOMAIN metadata' \ Dir -> SUBSET Value] /\ xattr' \in [DOMAIN metadata' -> SUBSET Value]
      /\ \A i \in DOMAIN metadata' : xattr'[i] = xattr[i]
      /\ \A i \in DOMAIN metadata' \ Dir : data'[i] = data[i]
  BY <1>1, <1>2 DEF Delete, Without, TablesOK
<1>5. TablesOK'
  BY <1>1, <1>2, <1>3, <1>4 DEF TablesOK
<1>6. HandlerOK'
  BY <1>1, HandlerStays
<1>7. GrantsOK'
  BY <1>1, <1>2, <1>4 DEF GrantsOK, Exists, Inode
<1>8. \A i \in DOMAIN metadata' : Contents(i)' = Contents(i)
  <2> SUFFICES ASSUME NEW i \in DOMAIN metadata' PROVE Contents(i)' = Contents(i)
    OBVIOUS
  <2>1. CASE i \in Dir
    BY <1>1, <2>1 DEF Contents
  <2>2. CASE i \notin Dir
    BY <1>2, <1>4, <2>2 DEF Contents
  <2> QED
    BY <2>1, <2>2
<1>9. SeenOK'
  <2>1. \A i : Names(i)' = Names(i)
    BY <1>1 DEF Names
  <2> QED
    BY <1>1, <1>2, <1>3, <1>4, <1>8, <2>1, SeenStaysAsNoted
<1> QED
  BY <1>5, <1>6, <1>7, <1>9

LEMMA WriteKeeps ==
    ASSUME AttributesInv, NEW f \in File, NEW v \in Value, NEW end \in 1 .. MaxSize, Write(f, v, end)
    PROVE  AttributesInv'
<1> USE DEF AttributesInv
<1>0. PICK rows : rows = [metadata EXCEPT ![f].size = IF end > @ THEN end ELSE @]
  OBVIOUS
<1>1. /\ Serving /\ UNCHANGED <<now, recording, born, dentry, xattr, handler, grants, seen>>
      /\ f \in DOMAIN metadata \ Dir /\ data' = [data EXCEPT ![f] = {v}]
      /\ metadata' = Stamped(rows, {f}, {f})
  BY <1>0, DisjointAssumption DEF Write, Memory, Exists
<1>2. rows \in [DOMAIN metadata -> Row]
  BY <1>0, <1>1, SizeAndTimeAssumption DEF TablesOK, Row
<1>3. \A i \in DOMAIN metadata :
        /\ rows[i].mtime = metadata[i].mtime /\ rows[i].ctime = metadata[i].ctime
        /\ rows[i].mode = metadata[i].mode
        /\ i # f => rows[i] = metadata[i]
  BY <1>0, <1>1 DEF TablesOK, Row
<1>4. \A i \in DOMAIN metadata : i # f => metadata'[i].size = metadata[i].size
  BY <1>1, <1>2, <1>3, StampedRows DEF TablesOK
<1>5. ASSUME NEW i \in DOMAIN metadata, i # f PROVE Contents(i)' = Contents(i)
  BY <1>1, <1>4, <1>5 DEF Contents, TablesOK
<1>6. /\ DOMAIN metadata' = DOMAIN metadata /\ metadata' \in [DOMAIN metadata -> Row]
      /\ \A i \in DOMAIN metadata : metadata'[i].ctime <= now
      /\ SeenOK'
  <2>1. /\ DOMAIN metadata' = DOMAIN metadata /\ metadata' \in [DOMAIN metadata -> Row]
        /\ \A i \in DOMAIN metadata :
            /\ metadata'[i].mode = metadata[i].mode
            /\ metadata'[i].mtime = IF recording /\ i = f THEN now ELSE metadata[i].mtime
            /\ metadata'[i].ctime = IF recording /\ i = f THEN now ELSE metadata[i].ctime
    BY <1>1, <1>2, <1>3, StampedRows DEF TablesOK
  <2>2. \A i \in DOMAIN metadata : metadata'[i].ctime <= now
    BY <2>1 DEF TablesOK, Time
  <2>3. \A i : Names(i)' = Names(i)
    BY <1>1 DEF Names
  <2>4. SeenOK'
    BY <1>1, <1>5, <2>1, <2>3, SeenStaysAsNoted
  <2> QED
    BY <2>1, <2>2, <2>4
<1>7. TablesOK'
  BY <1>1, <1>6 DEF TablesOK
<1>8. HandlerOK' /\ GrantsOK'
  BY <1>1, <1>6, HandlerStays DEF GrantsOK, Exists
<1> QED
  BY <1>6, <1>7, <1>8

LEMMA SetAttrKeeps ==
    ASSUME AttributesInv, NEW i \in Inode, NEW asked \in SUBSET Field, NEW size \in 0 .. MaxSize,
           NEW mode \in Mode, NEW mtime \in Time, SetAttr(i, asked, size, mode, mtime)
    PROVE  AttributesInv'
<1> USE DEF AttributesInv
<1>1. /\ UNCHANGED <<now, recording, tables, grants, seen>>
      /\ HasAttributes(i) /\ i \in DOMAIN metadata /\ (i \in Dir => "size" \notin asked)
  BY DEF SetAttr, HasAttributes, Exists, TablesOK
<1>2. metadata[i] \in Row
  BY <1>1 DEF TablesOK
<1> DEFINE attr == [metadata[i] EXCEPT !.size = IF "size" \in asked THEN size ELSE @,
                                      !.mode = IF "mode" \in asked THEN mode ELSE @,
                                      !.mtime = IF "mtime" \in asked THEN mtime ELSE @]
<1>3. /\ attr \in Row
      /\ attr.size = IF "size" \in asked THEN size ELSE metadata[i].size
      /\ attr.mode = IF "mode" \in asked THEN mode ELSE metadata[i].mode
      /\ attr.mtime = IF "mtime" \in asked THEN mtime ELSE metadata[i].mtime
  BY <1>2 DEF Row
<1>4. handler' = [op |-> "setattr", ino |-> i, asked |-> asked,
                  truncate |-> "size" \in asked /\ size < metadata[i].size, attr |-> attr]
  BY DEF SetAttr
<1> HIDE DEF attr
<1>5. /\ handler'.op = "setattr" /\ handler'.ino = i /\ handler'.asked = asked
      /\ handler'.attr = attr
      /\ handler'.truncate = ("size" \in asked /\ size < metadata[i].size)
  BY <1>4
<1>6. SetAttrOK'
  <2>1. handler' = [op |-> "setattr", ino |-> handler'.ino, asked |-> handler'.asked,
                    truncate |-> handler'.truncate, attr |-> handler'.attr]
    BY <1>4
  <2>2. HasAttributes(handler.ino)'
    BY <1>1, <1>5 DEF HasAttributes, Exists, HasName, Names, tables
  <2>3. handler'.truncate \in BOOLEAN /\ metadata' = metadata
    BY <1>1, <1>5 DEF tables
  <2>4. "size" \in asked => i \in File
    BY <1>1 DEF Inode
  <2>5. handler'.truncate <=> "size" \in asked /\ attr.size < metadata[i].size
    BY <1>3, <1>5
  <2> QED
    BY <1>3, <1>5, <2>1, <2>2, <2>3, <2>4, <2>5 DEF SetAttrOK
<1>7. TablesOK' /\ GrantsOK' /\ SeenOK'
  BY <1>1 DEF TablesOK, GrantsOK, SeenOK, Notes, Exists, Unchanged, NotedRow, Contents, Names, tables
<1> QED
  BY <1>6, <1>7 DEF HandlerOK

LEMMA UpdateInodeKeeps ==
    ASSUME AttributesInv, update_inode
    PROVE  AttributesInv'
<1> USE DEF AttributesInv
<1>0. PICK i : i = handler.ino
  OBVIOUS
<1> DEFINE row == Updated(metadata[i], handler.attr)
           cut == handler.truncate /\ handler.attr.size = 0
<1>1. SetAttrOK
  BY DEF HandlerOK, update_inode, None, SetXattrOK
<1>2. /\ i \in Inode /\ i \in DOMAIN metadata /\ HasAttributes(i) /\ metadata[i] \in Row
      /\ now \in Time /\ handler.attr \in Row
  BY <1>0, <1>1 DEF SetAttrOK, HasAttributes, Exists, TablesOK
<1>3. /\ UNCHANGED <<now, recording, born, dentry, xattr, grants>> /\ handler' = None
      /\ metadata' = [metadata EXCEPT ![i] = row]
      /\ data' = IF cut THEN [data EXCEPT ![i] = {}] ELSE data
  BY <1>0, <1>2 DEF update_inode
<1>4. /\ row \in Row /\ row.ctime = now /\ row.size = handler.attr.size /\ row.mode = handler.attr.mode
      /\ row.mtime = IF metadata[i].size # handler.attr.size THEN now ELSE handler.attr.mtime
  BY <1>2 DEF Updated, Modified, Row
<1> HIDE DEF row
<1>5. /\ metadata' \in [DOMAIN metadata -> Row] /\ DOMAIN metadata' = DOMAIN metadata
      /\ metadata'[i] = row /\ \A j \in DOMAIN metadata : j # i => metadata'[j] = metadata[j]
  BY <1>2, <1>3, <1>4 DEF TablesOK
<1>6. cut => i \in DOMAIN metadata \ Dir /\ handler.attr.size < metadata[i].size
  BY <1>0, <1>1, <1>2, DisjointAssumption DEF SetAttrOK
<1>7. /\ data' \in [DOMAIN metadata \ Dir -> SUBSET Value]
      /\ \A j \in DOMAIN metadata \ Dir : j # i \/ ~cut => data'[j] = data[j]
  BY <1>3, <1>6 DEF TablesOK
<1>8. TablesOK'
  <2>1. \A j \in DOMAIN metadata : metadata'[j].ctime <= now
    BY <1>2, <1>4, <1>5 DEF TablesOK, Time
  <2> QED
    BY <1>3, <1>5, <1>7, <2>1 DEF TablesOK
<1>9. HandlerOK' /\ GrantsOK'
  BY <1>3, <1>5 DEF HandlerOK, GrantsOK, Exists
<1>10. SeenOK'
  <2>1. CASE seen = Nothing
    BY <2>1 DEF update_inode, SeenOK
  <2>2. CASE seen # Nothing /\ seen.ino # i
    <3>1. seen' = seen
      BY <1>0, <2>2 DEF update_inode
    <3>2. Exists(seen.ino)' => Exists(seen.ino) /\ NotedRow' = NotedRow
      BY <1>5, <2>2, <3>1 DEF Exists, NotedRow
    <3>3. Exists(seen.ino)' => Contents(seen.ino)' = Contents(seen.ino)
      BY <1>3, <1>5, <1>7, <2>2, <3>1, <3>2 DEF Contents, Exists
    <3> QED
      BY <1>3, <2>2, <3>1, <3>2, <3>3 DEF SeenOK, Notes, Unchanged, Names
  <2>3. CASE seen # Nothing /\ seen.ino = i
    <3> DEFINE dated == "mtime" \in handler.asked /\ row.size = metadata[i].size
    <3>1. seen' = IF dated THEN [seen EXCEPT !.dated = TRUE] ELSE seen
      BY <1>0, <1>5, <2>3 DEF update_inode
    <3>2. seen \in [what : {"inode"}, ino : Dir \cup born, row : Row, contents : {seen.contents},
                    xattr : {seen.xattr}, names : {seen.names}, dated : BOOLEAN,
                    relinked : BOOLEAN]
      BY <2>3 DEF SeenOK, Notes
    <3>3. /\ seen' \in [what : {"inode"}, ino : Dir \cup born, row : Row,
                        contents : {seen.contents}, xattr : {seen.xattr}, names : {seen.names},
                        dated : BOOLEAN, relinked : BOOLEAN]
          /\ seen'.names = seen.names
          /\ seen'.ino = i /\ seen'.row = seen.row /\ seen'.contents = seen.contents
          /\ seen'.xattr = seen.xattr
          /\ dated => seen'.dated
          /\ ~dated => seen'.dated = seen.dated
      BY <2>3, <3>1, <3>2
    <3>4. /\ recording /\ seen.row \in Row /\ seen.row.ctime < now /\ seen.row.mtime < now
          /\ Exists(i)
      BY <1>2, <2>3, <3>2 DEF SeenOK, Exists
    <3>5. NotedRow' = row
      BY <1>5, <3>3 DEF NotedRow
    <3>6. seen'.dated \/ row.mtime = now \/ (row.mtime = metadata[i].mtime /\ Contents(i)' = Contents(i))
      <4>1. CASE row.size # metadata[i].size
        BY <1>4, <4>1
      <4>2. CASE row.size = metadata[i].size /\ "mtime" \notin handler.asked
        <5>1. row.mtime = metadata[i].mtime
          BY <1>0, <1>1, <1>4, <4>2 DEF SetAttrOK
        <5>2. ~cut
          BY <1>2, <1>4, <1>6, <4>2 DEF Row
        <5>3. Contents(i)' = Contents(i)
          BY <1>2, <1>3, <1>5, <1>7, <4>2, <5>2 DEF Contents
        <5> QED
          BY <5>1, <5>3
      <4>3. CASE dated
        BY <3>3, <4>3
      <4> QED
        BY <4>1, <4>2, <4>3
    <3>7. \/ seen'.dated
          \/ NotedRow'.mtime = seen'.row.mtime /\ Contents(i)' = seen'.contents
          \/ seen'.row.mtime < NotedRow'.mtime
      BY <2>3, <3>3, <3>4, <3>5, <3>6 DEF SeenOK, NotedRow
    <3>8. seen'.row.ctime < NotedRow'.ctime
      BY <1>4, <3>3, <3>4, <3>5
    <3> QED
      BY <1>3, <3>3, <3>4, <3>7, <3>8 DEF SeenOK, Notes
  <2> QED
    BY <2>1, <2>2, <2>3
<1> QED
  BY <1>8, <1>9, <1>10

LEMMA SetXattrKeeps ==
    ASSUME AttributesInv, NEW i \in Inode, NEW v \in Value, NEW flag \in Flag, SetXattr(i, v, flag)
    PROVE  AttributesInv'
<1> USE DEF AttributesInv
<1>1. UNCHANGED <<now, recording, tables, grants, seen>> /\ Exists(i) /\ ~Refused(i, flag)
  BY DEF SetXattr
<1>2. handler' = [op |-> "setxattr", ino |-> i, value |-> v, create |-> flag = "create"]
  BY DEF SetXattr
<1>3. SetXattrOK'
  BY <1>1, <1>2 DEF SetXattrOK, Refused, Exists, tables
<1>4. TablesOK' /\ GrantsOK' /\ SeenOK'
  BY <1>1 DEF TablesOK, GrantsOK, SeenOK, Notes, Exists, Unchanged, NotedRow, Contents, Names, tables
<1> QED
  BY <1>3, <1>4 DEF HandlerOK

\* Transactions on the attributes of an inode stamp its time of change.
LEMMA XattrStamps ==
    ASSUME AttributesInv, NEW i \in DOMAIN metadata, NEW values,
           UNCHANGED <<now, recording, born, dentry, data, seen>>,
           values = {} \/ \E v \in Value : values = {v},
           xattr' = [xattr EXCEPT ![i] = values],
           metadata' = Stamped(metadata, {}, {i})
    PROVE  TablesOK' /\ SeenOK' /\ DOMAIN metadata' = DOMAIN metadata
<1> USE DEF AttributesInv
<1>0. metadata \in [DOMAIN metadata -> Row] /\ now \in Time
  BY DEF TablesOK
<1>1. /\ metadata' \in [DOMAIN metadata -> Row] /\ DOMAIN metadata' = DOMAIN metadata
      /\ \A j \in DOMAIN metadata :
            /\ metadata'[j].mode = metadata[j].mode /\ metadata'[j].size = metadata[j].size
            /\ metadata'[j].mtime = metadata[j].mtime
            /\ metadata'[j].ctime = IF recording /\ j = i THEN now ELSE metadata[j].ctime
  <2>1. metadata' = Stamped(metadata, {}, {i})
    OBVIOUS
  <2> QED
    BY <1>0, <2>1, StampedRows
<1>2. /\ xattr' \in [DOMAIN metadata -> SUBSET Value]
      /\ xattr'[i] = values /\ \A j \in DOMAIN metadata : j # i => xattr'[j] = xattr[j]
  BY DEF TablesOK
<1>3. \A j \in DOMAIN metadata : metadata'[j].ctime <= now
  <2>1. \A j \in DOMAIN metadata : metadata[j].ctime <= now
    BY DEF TablesOK
  <2>2. now <= now
    BY <1>0 DEF Time
  <2> QED
    BY <1>1, <2>1, <2>2
<1>4. TablesOK'
  <2>1. \A j \in DOMAIN metadata : xattr'[j] = {} \/ \E v \in Value : xattr'[j] = {v}
    BY <1>2 DEF TablesOK
  <2>2. /\ now' \in Time /\ recording' \in BOOLEAN /\ born' \subseteq File
        /\ \A e \in dentry' : e.parent \in Dir /\ e.child \in born'
    BY DEF TablesOK
  <2>3. Dir \subseteq DOMAIN metadata' /\ DOMAIN metadata' \subseteq Dir \cup born'
    BY <1>1 DEF TablesOK
  <2>4. data' \in [DOMAIN metadata' \ Dir -> SUBSET Value]
    BY <1>1 DEF TablesOK
  <2>5. metadata' \in [DOMAIN metadata' -> Row] /\ xattr' \in [DOMAIN metadata' -> SUBSET Value]
    BY <1>1, <1>2
  <2>6. \A j \in DOMAIN metadata' : metadata'[j].ctime <= now'
    BY <1>1, <1>3
  <2> QED
    BY <1>1, <2>1, <2>2, <2>3, <2>4, <2>5, <2>6 DEF TablesOK
<1>5. \A j \in DOMAIN metadata : Contents(j)' = Contents(j)
  BY <1>1 DEF Contents
<1>6. SeenOK'
  <2>1. \A j : Names(j)' = Names(j)
    BY DEF Names
  <2> QED
    BY <1>1, <1>2, <1>5, <2>1, SeenStaysAsNoted
<1> QED
  BY <1>1, <1>4, <1>6

LEMMA set_xattrKeeps ==
    ASSUME AttributesInv, set_xattr
    PROVE  AttributesInv'
<1> USE DEF AttributesInv
<1>0. PICK i : i = handler.ino
  OBVIOUS
<1>1. SetXattrOK
  BY DEF HandlerOK, set_xattr, None, SetAttrOK
<1>2. /\ i \in Inode /\ i \in DOMAIN metadata /\ handler.value \in Value
      /\ handler.create => xattr[i] = {}
  BY <1>0, <1>1 DEF SetXattrOK, Exists
<1>3. /\ UNCHANGED <<now, recording, born, dentry, data, seen>> /\ handler' = None
      /\ xattr' = [xattr EXCEPT ![i] = {handler.value}]
      /\ metadata' = Stamped(metadata, {}, {i})
      /\ grants' = IF handler.create THEN [grants EXCEPT ![i] = @ + 1] ELSE grants
  BY <1>0 DEF set_xattr
<1>4. TablesOK' /\ SeenOK' /\ DOMAIN metadata' = DOMAIN metadata
  <2>1. PICK values : values = {handler.value}
    OBVIOUS
  <2> QED
    BY <1>2, <1>3, <2>1, XattrStamps
<1>5. /\ xattr'[i] # {} /\ \A j \in DOMAIN metadata : j # i => xattr'[j] = xattr[j]
  BY <1>2, <1>3 DEF TablesOK
<1>6. grants' \in [Inode -> 0 .. 1] /\ \A j \in Inode : j # i => grants'[j] = grants[j]
  BY <1>2, <1>3 DEF GrantsOK
<1>7. GrantsOK'
  BY <1>2, <1>4, <1>5, <1>6 DEF GrantsOK, Exists
<1> QED
  BY <1>3, <1>4, <1>7 DEF HandlerOK

LEMMA RemoveXattrKeeps ==
    ASSUME AttributesInv, NEW i \in Inode, RemoveXattr(i)
    PROVE  AttributesInv'
<1> USE DEF AttributesInv
<1>1. /\ UNCHANGED <<now, recording, born, dentry, data, handler, seen>> /\ Serving
      /\ i \in DOMAIN metadata
      /\ xattr' = [xattr EXCEPT ![i] = {}]
      /\ metadata' = Stamped(metadata, {}, {i})
      /\ grants' = [grants EXCEPT ![i] = 0]
  BY DEF RemoveXattr, Exists
<1>2. TablesOK' /\ SeenOK' /\ DOMAIN metadata' = DOMAIN metadata
  <2>1. PICK values : values = {}
    OBVIOUS
  <2> QED
    BY <1>1, <2>1, XattrStamps
<1>3. \A j \in DOMAIN metadata : j # i => xattr'[j] = xattr[j]
  BY <1>1 DEF TablesOK
<1>4. GrantsOK'
  BY <1>1, <1>2, <1>3 DEF GrantsOK, Exists
<1>5. HandlerOK'
  BY <1>1, HandlerStays
<1> QED
  BY <1>2, <1>4, <1>5

LEMMA LookKeeps ==
    ASSUME AttributesInv, NEW i \in Inode, Look(i)
    PROVE  AttributesInv'
<1> USE DEF AttributesInv
<1>1. /\ UNCHANGED <<now, recording, metadata, born, dentry, data, xattr, handler, grants>>
      /\ recording /\ i \in DOMAIN metadata /\ metadata[i].ctime < now /\ metadata[i].mtime < now
      /\ seen' = [what |-> "inode", ino |-> i, row |-> metadata[i],
                  contents |-> Contents(i), xattr |-> xattr[i], names |-> Names(i),
                  dated |-> FALSE, relinked |-> FALSE]
  BY DEF Look, HasAttributes, Exists, TablesOK, tables
<1>2. /\ seen'.ino = i /\ seen'.row = metadata[i] /\ seen'.contents = Contents(i)
      /\ seen'.xattr = xattr[i] /\ seen'.names = Names(i)
      /\ seen'.dated = FALSE /\ seen'.relinked = FALSE
  BY <1>1
<1>3. i \in Dir \cup born /\ metadata[i] \in Row
  BY <1>1 DEF TablesOK
<1>4. Contents(i)' = Contents(i) /\ Names(i)' = Names(i)
  BY <1>1 DEF Contents, Names
<1>5. SeenOK'
  BY <1>1, <1>2, <1>3, <1>4 DEF SeenOK, Notes, Unchanged, NotedRow
<1>6. TablesOK' /\ HandlerOK' /\ GrantsOK'
  BY <1>1, HandlerStays DEF TablesOK, GrantsOK, Exists, Look
<1> QED
  BY <1>5, <1>6

\* Steps that leave the tables and what was noted alone
LEMMA ElsewhereKeeps ==
    ASSUME AttributesInv, UNCHANGED <<metadata, born, dentry, data, xattr, grants>>,
           now' \in Time, now <= now', recording' \in BOOLEAN,
           handler' = handler \/ handler' = None,
           seen' = Nothing \/ (seen' = seen /\ recording' = (recording \/ recording'))
    PROVE  AttributesInv'
<1> USE DEF AttributesInv
<1>1. TablesOK' /\ GrantsOK'
  BY DEF TablesOK, GrantsOK, Exists, Time, Row
<1>2. HandlerOK'
  BY DEF HandlerOK, SetAttrOK, SetXattrOK, HasAttributes, Exists, HasName, Names
<1>3. SeenOK'
  <2>1. CASE seen' = Nothing
    BY <2>1 DEF SeenOK
  <2>2. CASE seen' = seen /\ recording' = (recording \/ recording')
    <3>1. now \in Int /\ now' \in Int
      BY DEF TablesOK, Time
    <3>2. /\ Exists(seen.ino)' = Exists(seen.ino) /\ NotedRow' = NotedRow
          /\ Contents(seen.ino)' = Contents(seen.ino) /\ Names(seen.ino)' = Names(seen.ino)
      BY <2>2 DEF Exists, NotedRow, Contents, Names
    <3>3. seen # Nothing => seen.row.ctime < now' /\ seen.row.mtime < now'
      BY <3>1 DEF SeenOK, Notes, Row, Time
    <3> QED
      BY <2>2, <3>2, <3>3 DEF SeenOK, Notes, Unchanged
  <2> QED
    BY <2>1, <2>2
<1> QED
  BY <1>1, <1>2, <1>3

LEMMA MountKeeps == ASSUME AttributesInv, NEW r \in BOOLEAN, Mount(r) PROVE AttributesInv'
<1>1. /\ UNCHANGED <<metadata, born, dentry, data, xattr, grants>> /\ now' = now
      /\ recording' = r /\ handler' = None /\ seen' = IF r THEN seen ELSE Nothing
  BY DEF Mount, tables
<1>2. now \in Time
  BY DEF AttributesInv, TablesOK
<1> QED
  BY <1>1, <1>2, ElsewhereKeeps DEF Time

LEMMA TickKeeps == ASSUME AttributesInv, Tick PROVE AttributesInv'
<1>1. /\ UNCHANGED <<metadata, born, dentry, data, xattr, grants, recording, handler, seen>>
      /\ now < MaxTime /\ now' = now + 1
  BY DEF Tick, tables
<1>2. now \in Time /\ recording \in BOOLEAN
  BY DEF AttributesInv, TablesOK
<1>3. now' \in Time /\ now <= now' /\ recording' \in BOOLEAN
  BY <1>1, <1>2, SizeAndTimeAssumption DEF Time
<1> QED
  BY <1>1, <1>3, ElsewhereKeeps

---------------------------------------------------------------------------
(* Theorems *)

LEMMA NextKeeps == AttributesInv /\ [Next]_vars => AttributesInv'
<1> SUFFICES ASSUME AttributesInv, [Next]_vars PROVE AttributesInv'
  OBVIOUS
<1>1. ASSUME NEW d \in Dir, NEW n \in Name,
             \/ \E f \in File : Create(d, n, f) \/ Link(f, d, n)
             \/ Unlink(d, n)
             \/ \E e \in Dir, m \in Name : Rename(d, n, e, m)
      PROVE  AttributesInv'
  BY <1>1, CreateKeeps, LinkKeeps, UnlinkKeeps, RenameKeeps
<1>2. ASSUME NEW f \in File, Delete(f) \/ \E v \in Value, end \in 1 .. MaxSize : Write(f, v, end)
      PROVE  AttributesInv'
  BY <1>2, DeleteKeeps, WriteKeeps
<1>3. ASSUME NEW i \in Inode,
             \/ \E asked \in SUBSET Field, size \in 0 .. MaxSize, mode \in Mode, mtime \in Time :
                    SetAttr(i, asked, size, mode, mtime)
             \/ \E v \in Value, flag \in Flag : SetXattr(i, v, flag)
             \/ RemoveXattr(i) \/ Look(i)
      PROVE  AttributesInv'
  BY <1>3, SetAttrKeeps, SetXattrKeeps, RemoveXattrKeeps, LookKeeps
<1>4. CASE update_inode \/ set_xattr \/ Tick \/ \E r \in BOOLEAN : Mount(r)
  BY <1>4, UpdateInodeKeeps, set_xattrKeeps, TickKeeps, MountKeeps
<1>5. CASE UNCHANGED vars
  <2>1. /\ UNCHANGED <<metadata, born, dentry, data, xattr, grants, recording, handler, seen>>
        /\ now' = now
    BY <1>5 DEF vars, tables
  <2>2. now \in Time /\ recording \in BOOLEAN
    BY DEF AttributesInv, TablesOK
  <2> QED
    BY <2>1, <2>2, ElsewhereKeeps DEF Time
<1> QED
  BY <1>1, <1>2, <1>3, <1>4, <1>5 DEF Next

LEMMA InvAlways == Spec => []AttributesInv
BY InitOK, NextKeeps, PTL DEF Spec

\* The rows that refer to a file live as long as its row.
THEOREM AttributesTypeCorrect == Spec => []TypeOK
<1>1. AttributesInv => TypeOK
  <2> SUFFICES ASSUME AttributesInv PROVE TypeOK
    OBVIOUS
  <2>1. \A i \in DOMAIN xattr : Cardinality(xattr[i]) <= 1
    <3> SUFFICES ASSUME NEW i \in DOMAIN xattr PROVE Cardinality(xattr[i]) <= 1
      OBVIOUS
    <3>1. xattr[i] = {} \/ \E v \in Value : xattr[i] = {v}
      BY DEF AttributesInv, TablesOK
    <3>2. Cardinality(xattr[i]) = 0 \/ Cardinality(xattr[i]) = 1
      BY <3>1, FS_EmptySet, FS_Singleton
    <3> QED
      BY <3>2
  <2>2. handler = None \/ (handler.op \in {"setattr", "setxattr"} /\ handler.ino \in Inode)
    BY DEF AttributesInv, HandlerOK, SetAttrOK, SetXattrOK
  <2> QED
    BY <2>1, <2>2 DEF AttributesInv, TablesOK, TypeOK
<1> QED
  BY <1>1, InvAlways, PTL

\* A backup that compares times of change misses nothing but a link, and the loss of a name
\* to a rename.
THEOREM SameChangeTimeAlwaysMeansSame == Spec => []SameChangeTimeMeansSame
<1>1. AttributesInv => SameChangeTimeMeansSame
  <2> SUFFICES ASSUME AttributesInv, Comparable, NotedRow.ctime = seen.row.ctime
               PROVE  Unchanged
    BY DEF SameChangeTimeMeansSame, Unchanged
  <2>1. Unchanged \/ seen.row.ctime < NotedRow.ctime
    BY DEF AttributesInv, SeenOK, Comparable
  <2>2. seen.row.ctime \in Int
    BY DEF AttributesInv, SeenOK, Comparable, Notes, Row, Time
  <2> QED
    BY <2>1, <2>2
<1> QED
  BY <1>1, InvAlways, PTL

\* A program that compares times of modification misses nothing, unless one set them.
THEOREM SameModificationTimeAlwaysMeansSame == Spec => []SameModificationTimeMeansSame
<1>1. AttributesInv => SameModificationTimeMeansSame
  BY DEF AttributesInv, SeenOK, Notes, SameModificationTimeMeansSame, Comparable, Row, Time
<1> QED
  BY <1>1, InvAlways, PTL

\* XATTR_CREATE is granted to one at a time.
THEOREM CreateAlwaysLocks == Spec => []CreateLocks
<1>1. AttributesInv => CreateLocks
  BY DEF AttributesInv, GrantsOK, CreateLocks
<1> QED
  BY <1>1, InvAlways, PTL

\* A transaction that stamps rows makes none smaller.
LEMMA StampsKeepSizes ==
    ASSUME AttributesInv, NEW modified, NEW changed, NEW i \in DOMAIN metadata,
           metadata' = Stamped(metadata, modified, changed)
    PROVE  ~(metadata'[i].size < metadata[i].size)
<1>1. metadata \in [DOMAIN metadata -> Row] /\ now \in Time
  BY DEF AttributesInv, TablesOK
<1>2. metadata'[i].size = metadata[i].size
  BY <1>1, StampedRows
<1> QED
  BY <1>1, <1>2 DEF Row

\* Only a request that asks for a size makes a file smaller.
LEMMA SizesGrow ==
    ASSUME AttributesInv, Next, NEW i \in DOMAIN metadata \cap DOMAIN metadata',
           metadata'[i].size < metadata[i].size
    PROVE  handler.op = "setattr" /\ handler.ino = i /\ "size" \in handler.asked
<1>1. metadata \in [DOMAIN metadata -> Row] /\ now \in Time /\ metadata[i] \in Row
  BY DEF AttributesInv, TablesOK
<1>2. metadata[i].size \in Nat
  BY <1>1 DEF Row
<1>3. ASSUME NEW d \in Dir, NEW n \in Name, NEW f \in File, Create(d, n, f)
      PROVE  FALSE
  <2> DEFINE rows == With(metadata, f, [size |-> 0, mode |-> "shared", mtime |-> now, ctime |-> now])
  <2>1. i # f
    BY <1>3, DisjointAssumption DEF Create, AttributesInv, TablesOK
  <2>2. rows \in [DOMAIN metadata \cup {f} -> Row] /\ rows[i] = metadata[i]
    BY <1>1, <2>1, SizeAndTimeAssumption DEF With, Row, Mode
  <2>3. metadata' = Stamped(rows, {d}, {d})
    BY <1>3 DEF Create
  <2> HIDE DEF rows
  <2>4. metadata'[i].size = metadata[i].size
    BY <1>1, <2>2, <2>3, StampedRows
  <2> QED
    BY <1>2, <2>4
<1>4. ASSUME NEW d \in Dir, NEW n \in Name,
             \/ \E f \in File : Link(f, d, n)
             \/ Unlink(d, n)
             \/ \E e \in Dir, m \in Name : Rename(d, n, e, m)
      PROVE  FALSE
  <2>1. \E modified, changed : metadata' = Stamped(metadata, modified, changed)
    BY <1>4 DEF Link, Unlink, Rename
  <2> QED
    BY <2>1, StampsKeepSizes
<1>5. ASSUME NEW f \in File, Delete(f) PROVE FALSE
  <2>1. metadata'[i] = metadata[i]
    BY <1>5 DEF Delete, Without
  <2> QED
    BY <1>2, <2>1
<1>6. ASSUME NEW f \in File, NEW v \in Value, NEW end \in 1 .. MaxSize, Write(f, v, end) PROVE FALSE
  <2>0. PICK rows : rows = [metadata EXCEPT ![f].size = IF end > @ THEN end ELSE @]
    OBVIOUS
  <2>1. rows \in [DOMAIN metadata -> Row]
    BY <1>1, <1>6, <2>0, SizeAndTimeAssumption DEF Write, Exists, Row
  <2>2. rows[i].size >= metadata[i].size
    BY <1>1, <1>2, <2>0 DEF Row
  <2>3. metadata' = Stamped(rows, {f}, {f})
    BY <1>6, <2>0 DEF Write
  <2>4. metadata'[i].size = rows[i].size
    BY <1>1, <2>1, <2>3, StampedRows
  <2>5. rows[i].size \in Nat
    BY <2>1 DEF Row
  <2> QED
    BY <1>2, <2>2, <2>4, <2>5
<1>7. CASE update_inode
  <2>1. SetAttrOK
    BY <1>7 DEF AttributesInv, HandlerOK, update_inode, None, SetXattrOK
  <2>2. /\ handler.ino \in DOMAIN metadata /\ HasAttributes(handler.ino)
        /\ metadata' = [metadata EXCEPT ![handler.ino] = Updated(@, handler.attr)]
    BY <1>7, <2>1 DEF update_inode, SetAttrOK, AttributesInv, TablesOK, HasAttributes, Exists
  <2>3. i = handler.ino
    BY <1>1, <1>2, <2>2
  <2>4. handler.attr \in Row
    BY <2>1 DEF SetAttrOK
  <2>5. metadata'[i].size = handler.attr.size
    BY <1>1, <2>2, <2>3, <2>4 DEF Updated, Row
  <2> QED
    BY <1>2, <2>1, <2>3, <2>5 DEF SetAttrOK
<1>8. CASE set_xattr \/ \E j \in Inode : RemoveXattr(j)
  <2>1. \E modified, changed : metadata' = Stamped(metadata, modified, changed)
    BY <1>8 DEF set_xattr, RemoveXattr
  <2> QED
    BY <2>1, StampsKeepSizes
<1>9. CASE metadata' = metadata
  BY <1>2, <1>9
<1>10. ASSUME NEW j \in Inode,
              \/ \E asked \in SUBSET Field, size \in 0 .. MaxSize, mode \in Mode, mtime \in Time :
                    SetAttr(j, asked, size, mode, mtime)
              \/ \E v \in Value, flag \in Flag : SetXattr(j, v, flag)
              \/ Look(j)
       PROVE  metadata' = metadata
  BY <1>10 DEF SetAttr, SetXattr, Look, tables
<1>11. Tick \/ (\E r \in BOOLEAN : Mount(r)) => metadata' = metadata
  BY DEF Tick, Mount, tables
<1> QED
  BY <1>3, <1>4, <1>5, <1>6, <1>7, <1>8, <1>9, <1>10, <1>11 DEF Next

\* No request about the mode or the times undoes a write.
THEOREM NoUpdateIsEverUndone == Spec => NoUpdateIsUndone
<1>1. AttributesInv /\ [Next]_vars =>
        [\A i \in DOMAIN metadata \cap DOMAIN metadata' :
            metadata'[i].size < metadata[i].size =>
                handler.op = "setattr" /\ handler.ino = i /\ "size" \in handler.asked]_vars
  BY SizesGrow
<1> QED
  BY <1>1, InvAlways, PTL DEF Spec, NoUpdateIsUndone
====
