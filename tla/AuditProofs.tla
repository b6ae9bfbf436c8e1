---- MODULE AuditProofs ----
(***************************************************************************)
(* Proofs about Audit: what a mount at a time finds in the log, and what   *)
(* apply_diffs builds from it, for any inodes, names, values, instants and *)
(* lengths of the log.                                                     *)
(***************************************************************************)
EXTENDS Audit, FiniteSetTheorems, SequenceTheorems, TLAPS

Op == {"INSERT", "UPDATE", "DELETE"}
Statement == [op : Op, key : Key, to : Key, value : Content]
Tables == UNION {[D -> Content] : D \in SUBSET Key}

\* What a statement that may be executed is like: it is about one table, only an entry
\* changes its key, and an entry comes after its inode and goes before it.
GoodStatement(s) ==
    /\ s \in Statement
    /\ s.key.table \in tables /\ s.to.table = s.key.table
    /\ (s.op = "UPDATE" /\ s.key.table = "dentry") \/ s.to = s.key
    /\ s.op # "INSERT" => Exists(s.key)
    /\ s.to.table = "dentry" /\ s.op # "DELETE" => Exists(Inode(s.to.ino))
    /\ s.key.table = "metadata" /\ s.op = "DELETE" => ~HasName(s.key.ino)
    /\ s.op = "DELETE" => s.key # Inode(Directory)

\* A transaction goes on with an entry or a time stamp, and then with time stamps.
Stamp(s) == s.op = "UPDATE" /\ s.key.table = "metadata"
TodoOK ==
    /\ todo \in Seq(Statement)
    /\ \A i \in 1 .. Len(todo) :
        GoodStatement(todo[i]) /\ todo[i].op # "DELETE" /\ (i > 1 => Stamp(todo[i]))

\* The log is in the order of time, up to now.
LogOK ==
    /\ \A i \in DOMAIN audit : audit[i].ts <= now
    /\ \A i, j \in DOMAIN audit : i <= j => audit[i].ts <= audit[j].ts

\* The rows at each time so far and, as those of the time to come, the rows there are
State(t) == IF t = now + 1 THEN rows ELSE past[t]

\* The last record of a key before a time
LastRecord(t, k, i) ==
    /\ i \in Before(t) /\ audit[i].key = k
    /\ \A j \in Before(t) : audit[j].key = k => j <= i

\* The last record of a row that was there has it
FoundOK(t, k) ==
    k \in DOMAIN State(t) =>
        \E i \in DOMAIN audit :
            /\ LastRecord(t, k, i)
            /\ audit[i].op # "DELETE"
            /\ k.table # "data" => audit[i].data = Full(State(t)[k])

\* A row that was not there was moved away, had no record, or its last was the deletion.
GoneOK(t, k) ==
    k \notin DOMAIN State(t) =>
        \/ \E j \in DOMAIN audit : audit[j].old = k /\ audit[j].key # k
        \/ \A j \in Before(t) : audit[j].key # k
        \/ \E i \in DOMAIN audit : LastRecord(t, k, i) /\ audit[i].op = "DELETE"

\* Each entry has its inode at every time, also between the statements of a transaction.
RefersOK(t) ==
    \A k \in DOMAIN State(t) : k.table = "dentry" => Inode(k.ino) \in DOMAIN State(t)

HistoryOK ==
    \A t \in 1 .. now + 1 : RefersOK(t) /\ \A k \in Key : FoundOK(t, k) /\ GoneOK(t, k)

\* TypeOK without what it says of todo
TablesOK ==
    /\ tables \in Together
    /\ rows \in Tables
    /\ \A k \in DOMAIN rows : k.table \in tables
    /\ audit \in Seq(Records)
    /\ \A i \in DOMAIN audit :
        "from" \in DOMAIN audit[i].data <=>
            audit[i].op = "UPDATE" /\ audit[i].key.table = "data"
    /\ now \in 1 .. MaxTime /\ past \in Seq(Tables) /\ Len(past) = now

\* The directory is never deleted.
RootOK == "metadata" \in tables => Exists(Inode(Directory))

AuditInv ==
    /\ TablesOK /\ LogOK /\ HistoryOK /\ RootOK
    /\ TodoOK /\ Len(audit) + Len(todo) <= MaxLog

---------------------------------------------------------------------------
(* Keys *)

LEMMA KeyForms ==
    /\ \A k \in Key : k.table \in {"metadata", "dentry", "data", "xattr"}
    /\ \A k \in Key : k.table = "metadata" => k = Inode(k.ino)
    /\ \A k \in Key : k.table = "dentry" =>
            k.ino \in Ino /\ k.name \in Name /\ k = Entry(k.name, k.ino)
    /\ \A k \in Key : k.table = "data" <=> k \in Blocks
<1> SUFFICES ASSUME NEW k \in Key
    PROVE  /\ k.table \in {"metadata", "dentry", "data", "xattr"}
           /\ k.table = "metadata" => k = Inode(k.ino)
           /\ k.table = "dentry" =>
                k.ino \in Ino /\ k.name \in Name /\ k = Entry(k.name, k.ino)
           /\ k.table = "data" <=> k \in Blocks
  BY Zenon
<1>0. \A l \in Blocks : l.table = "data"
  BY DEF Blocks, Block
<1>1. CASE \E i \in Ino \cup {Directory} : k = Inode(i)
  BY <1>0, <1>1 DEF Inode
<1>2. CASE \E n \in Name, i \in Ino : k = Entry(n, i)
  BY <1>0, <1>2 DEF Entry
<1>3. CASE k \in Blocks
  BY <1>0, <1>3
<1>4. CASE \E n \in Name : k = Xattr(n)
  BY <1>0, <1>4 DEF Xattr
<1> QED
  BY <1>1, <1>2, <1>3, <1>4 DEF Key

LEMMA KeyParts ==
    /\ \A i \in Ino \cup {Directory} :
            Inode(i) \in Key /\ Inode(i).table = "metadata" /\ Inode(i).ino = i
    /\ \A n \in Name, i \in Ino :
            /\ Entry(n, i) \in Key /\ Entry(n, i).table = "dentry"
            /\ Entry(n, i).name = n /\ Entry(n, i).ino = i
    /\ \A n \in Name : Block(n) \in Key /\ Block(n).table = "data"
    /\ \A n \in Name : Xattr(n) \in Key /\ Xattr(n).table = "xattr"
<1>1. \A i \in Ino \cup {Directory} :
        Inode(i) \in Key /\ Inode(i).table = "metadata" /\ Inode(i).ino = i
  BY DEF Key, Inode
<1>2. \A n \in Name, i \in Ino : Entry(n, i) \in Key
  BY DEF Key
<1>3. \A n \in Name, i \in Ino :
        /\ Entry(n, i).table = "dentry"
        /\ Entry(n, i).name = n /\ Entry(n, i).ino = i
  BY DEF Entry
<1>4. \A n \in Name : Block(n) \in Key /\ Xattr(n) \in Key
  BY DEF Key, Blocks
<1>5. \A n \in Name : Block(n).table = "data" /\ Xattr(n).table = "xattr"
  BY DEF Block, Xattr
<1> QED
  BY <1>1, <1>2, <1>3, <1>4, <1>5

\* The tables of a behaviour: those of the tree, or one alone
LEMMA TablesTogether ==
    ASSUME tables \in Together
    PROVE  /\ "metadata" \in tables <=> "dentry" \in tables
           /\ "data" \in tables => tables = {"data"}
           /\ "xattr" \in tables => tables = {"xattr"}
BY TogetherAssumption

---------------------------------------------------------------------------
(* Statements *)

\* What a statement does to the rows and to the log
LEMMA Effects ==
    ASSUME TablesOK, NEW s, GoodStatement(s), Execute(s), Len(audit) < MaxLog
    PROVE  /\ rows' \in Tables
           /\ s.op = "DELETE" => DOMAIN rows' = DOMAIN rows \ {s.key}
           /\ s.op # "DELETE" => DOMAIN rows' = (DOMAIN rows \ {s.key}) \cup {s.to}
           /\ s.op # "DELETE" => rows'[s.to] = s.value
           /\ \A k \in DOMAIN rows \ {s.key, s.to} : rows'[k] = rows[k]
           /\ audit' \in Seq(Records) /\ Len(audit') = Len(audit) + 1
           /\ DOMAIN audit = 1 .. Len(audit) /\ DOMAIN audit' = 1 .. Len(audit) + 1
           /\ \A i \in DOMAIN audit : audit'[i] = audit[i]
           /\ audit'[Len(audit) + 1] = Record(s)
           /\ Record(s).ts = now /\ Record(s).op = s.op /\ Record(s).key = s.to
           /\ Record(s).old = s.key
           /\ "from" \in DOMAIN Record(s).data <=> s.op = "UPDATE" /\ s.key.table = "data"
           /\ s.op # "UPDATE" \/ s.key.table # "data" => Record(s).data = Full(s.value)
           /\ s.op = "UPDATE" /\ s.key.table = "data" =>
                Record(s).data = delta_create(rows[s.key], s.value)
           /\ UNCHANGED <<tables, now, past>>
<1>0. s \in Statement /\ s.value \in Content /\ s.op \in Op /\ s.key \in Key /\ s.to \in Key
  BY DEF GoodStatement, Statement
<1>1. /\ DOMAIN rows \subseteq Key /\ rows \in [DOMAIN rows -> Content]
      /\ audit \in Seq(Records) /\ now \in 1 .. MaxTime
  BY DEF TablesOK, Tables
<1>2. /\ Record(s).ts = now /\ Record(s).op = s.op /\ Record(s).key = s.to
      /\ Record(s).old = s.key
  BY DEF Record, LoggedKey
<1>3. s.op # "UPDATE" => Record(s).data = Full(s.value)
  BY DEF Record
<1>4. s.op = "UPDATE" /\ s.key.table # "data" => Record(s).data = Full(s.value)
  BY DEF Record, UpdateRecord
<1>5. s.op = "UPDATE" /\ s.key.table = "data" =>
        Record(s).data = delta_create(rows[s.key], s.value)
  BY DEF Record, UpdateRecord
<1>6. s.op = "UPDATE" => rows[s.key] \in Content
  BY <1>1 DEF GoodStatement, Exists
<1>7. Record(s).data \in Data
  BY <1>0, <1>3, <1>4, <1>5, <1>6 DEF Data, Full, delta_create
<1>8. "from" \in DOMAIN Record(s).data <=> s.op = "UPDATE" /\ s.key.table = "data"
  BY <1>3, <1>4, <1>5 DEF Full, delta_create
<1>9. Record(s) \in Records
  BY <1>0, <1>1, <1>2, <1>7 DEF Records, Record, Op, LoggedKey
<1>10. /\ audit' \in Seq(Records) /\ Len(audit') = Len(audit) + 1
       /\ DOMAIN audit = 1 .. Len(audit) /\ DOMAIN audit' = 1 .. Len(audit) + 1
       /\ \A i \in DOMAIN audit : audit'[i] = audit[i]
       /\ audit'[Len(audit) + 1] = Record(s)
  BY <1>1, <1>9 DEF Execute
<1>11. /\ s.op = "DELETE" => DOMAIN rows' = DOMAIN rows \ {s.key}
       /\ s.op # "DELETE" => DOMAIN rows' = (DOMAIN rows \ {s.key}) \cup {s.to}
       /\ \A k \in DOMAIN rows' : rows'[k] = IF k = s.to THEN s.value ELSE rows[k]
       /\ rows' = [k \in DOMAIN rows' |-> rows'[k]]
  BY DEF Execute
<1>12. rows' \in [DOMAIN rows' -> Content] /\ DOMAIN rows' \in SUBSET Key
  BY <1>0, <1>1, <1>11
<1>13. rows' \in Tables
  BY <1>12 DEF Tables
<1>14. \A k \in DOMAIN rows \ {s.key, s.to} : rows'[k] = rows[k]
  BY <1>11
<1> QED
  BY <1>2, <1>3, <1>4, <1>5, <1>8, <1>10, <1>11, <1>13, <1>14 DEF Execute

\* A statement keeps the order of the log and what it says of every time.
LEMMA ExecuteKeepsHistory ==
    ASSUME TablesOK, LogOK, HistoryOK, NEW s, GoodStatement(s), Execute(s), Len(audit) < MaxLog
    PROVE  LogOK' /\ HistoryOK'
<1>0. s.op \in Op /\ s.key \in Key /\ s.to \in Key /\ s.key.table = s.to.table
  BY DEF GoodStatement, Statement
<1>1. Len(audit) \in Nat /\ now \in Nat /\ audit \in Seq(Records)
  BY DEF TablesOK
<1>last. PICK last \in Nat : last = Len(audit) + 1
  BY <1>1
<1>t. PICK t \in Nat : t = now + 1
  BY <1>1
<1>2. /\ DOMAIN audit = 1 .. Len(audit) /\ DOMAIN audit' = 1 .. last
      /\ \A i \in DOMAIN audit : audit'[i] = audit[i]
      /\ audit'[last].ts = now /\ audit'[last].op = s.op /\ audit'[last].key = s.to
      /\ audit'[last].old = s.key
      /\ UNCHANGED <<now, past>>
  BY <1>last, Effects
<1>3. DOMAIN audit' = DOMAIN audit \cup {last} /\ last \notin DOMAIN audit
      /\ \A i \in DOMAIN audit : i <= last
  BY <1>1, <1>2, <1>last
<1>4. LogOK'
  <2>1. \A i \in DOMAIN audit' : audit'[i].ts <= now'
    BY <1>1, <1>2, <1>3 DEF LogOK
  <2>2. ASSUME NEW i \in DOMAIN audit', NEW j \in DOMAIN audit', i <= j
        PROVE  audit'[i].ts <= audit'[j].ts
    <3>1. CASE j \in DOMAIN audit
      BY <1>1, <1>2, <2>2, <3>1 DEF LogOK
    <3>2. CASE j = last
      BY <1>2, <2>1, <3>2
    <3> QED
      BY <1>3, <3>1, <3>2
  <2> QED
    BY <2>1, <2>2 DEF LogOK
<1>5. /\ \A u \in 1 .. now : State(u)' = State(u)
      /\ State(t) = rows /\ State(t)' = rows'
  BY <1>1, <1>2, <1>t DEF State
\* Times that have come see the same records.
<1>6. ASSUME NEW u \in 1 .. now PROVE Before(u)' = Before(u)
  <2>1. \A i \in DOMAIN audit : audit'[i].ts = audit[i].ts
    BY <1>2
  <2>2. ~(audit'[last].ts < u)
    BY <1>1, <1>2
  <2> QED
    BY <1>3, <2>1, <2>2 DEF Before
<1>7. ASSUME NEW u \in 1 .. now
      PROVE  RefersOK(u)' /\ \A k \in Key : FoundOK(u, k)' /\ GoneOK(u, k)'
  <2>0. u \in 1 .. now + 1
    BY <1>1
  <2>1. RefersOK(u)'
    BY <1>5, <2>0 DEF RefersOK, HistoryOK
  <2>2. Before(u) \subseteq DOMAIN audit
    BY DEF Before
  <2>3. \A k \in Key, i \in DOMAIN audit : LastRecord(u, k, i)' <=> LastRecord(u, k, i)
    BY <1>2, <1>6, <2>2 DEF LastRecord
  <2>4. ASSUME NEW k \in Key PROVE FoundOK(u, k)'
    <3>1. FoundOK(u, k)
      BY <2>0 DEF HistoryOK
    <3> QED
      BY <1>2, <1>3, <1>5, <2>3, <3>1 DEF FoundOK
  <2>5. ASSUME NEW k \in Key PROVE GoneOK(u, k)'
    <3>1. GoneOK(u, k)
      BY <2>0 DEF HistoryOK
    <3> QED
      BY <1>2, <1>3, <1>5, <1>6, <2>2, <2>3, <3>1 DEF GoneOK
  <2> QED
    BY <2>1, <2>4, <2>5
\* The time to come sees all records, the new one as the last of its key.
<1>8. Before(t) = DOMAIN audit /\ Before(t)' = DOMAIN audit' /\ t \in 1 .. now + 1
  <2>0. \A i \in DOMAIN audit : audit[i] \in Records
    BY <1>1
  <2>1. \A i \in DOMAIN audit : audit[i].ts \in Int /\ audit[i].ts <= now
    BY <2>0, LogBoundsAssumption DEF LogOK, Records
  <2>2. \A i \in DOMAIN audit' : audit'[i].ts \in Int /\ audit'[i].ts <= now
    BY <1>1, <1>2, <1>3, <2>1
  <2> QED
    <3>1. \A i \in DOMAIN audit : audit[i].ts < t
      BY <1>1, <1>t, <2>1
    <3>2. \A i \in DOMAIN audit' : audit'[i].ts < t
      BY <1>1, <1>t, <2>2
    <3>3. Before(t) = DOMAIN audit
      BY <3>1 DEF Before
    <3>4. Before(t)' = DOMAIN audit'
      BY <3>2 DEF Before
    <3> QED
      BY <1>1, <1>t, <3>3, <3>4
<1>9. LastRecord(t, s.to, last)'
  BY <1>2, <1>3, <1>8 DEF LastRecord
<1>10. \A k \in Key \ {s.to}, i \in DOMAIN audit : LastRecord(t, k, i) => LastRecord(t, k, i)'
  BY <1>2, <1>3, <1>8 DEF LastRecord
<1>11. /\ s.op = "DELETE" => DOMAIN rows' = DOMAIN rows \ {s.key} /\ s.to = s.key
       /\ s.op # "DELETE" => DOMAIN rows' = (DOMAIN rows \ {s.key}) \cup {s.to}
       /\ s.op # "DELETE" => rows'[s.to] = s.value
       /\ \A k \in DOMAIN rows \ {s.key, s.to} : rows'[k] = rows[k]
       /\ s.to.table # "data" => audit'[last].data = Full(s.value)
  BY <1>0, <1>last, Effects DEF GoodStatement
<1>12. ASSUME NEW k \in Key PROVE FoundOK(t, k)'
  <2>1. SUFFICES ASSUME k \in DOMAIN rows'
                 PROVE \E i \in DOMAIN audit' :
                        /\ LastRecord(t, k, i)'
                        /\ audit'[i].op # "DELETE"
                        /\ k.table # "data" => audit'[i].data = Full(rows'[k])
    BY <1>5 DEF FoundOK
  <2>2. CASE k = s.to
    BY <1>2, <1>3, <1>9, <1>11, <2>1, <2>2
  <2>3. CASE k # s.to
    <3>1. k \in DOMAIN rows /\ rows'[k] = rows[k]
      BY <1>0, <1>11, <2>1, <2>3
    <3>2. FoundOK(t, k)
      BY <1>8 DEF HistoryOK
    <3> QED
      BY <1>2, <1>3, <1>5, <1>10, <2>3, <3>1, <3>2 DEF FoundOK
  <2> QED
    BY <2>2, <2>3
<1>13. ASSUME NEW k \in Key PROVE GoneOK(t, k)'
  <2>1. SUFFICES ASSUME k \notin DOMAIN rows'
                 PROVE  \/ \E j \in DOMAIN audit' : audit'[j].old = k /\ audit'[j].key # k
                        \/ \A j \in Before(t)' : audit'[j].key # k
                        \/ \E i \in DOMAIN audit' :
                            LastRecord(t, k, i)' /\ audit'[i].op = "DELETE"
    BY <1>5 DEF GoneOK
  <2>2. CASE k = s.to
    BY <1>2, <1>3, <1>9, <1>11, <2>1, <2>2
  <2>3. CASE k # s.to /\ k = s.key
    BY <1>2, <1>3, <2>3
  <2>4. CASE k # s.to /\ k # s.key
    <3>1. k \notin DOMAIN rows
      BY <1>0, <1>11, <2>1, <2>4
    <3>2. GoneOK(t, k)
      BY <1>8 DEF HistoryOK
    <3>3. k \notin DOMAIN State(t)
      BY <1>5, <3>1
    <3> QED
      BY <1>2, <1>3, <1>8, <1>10, <2>4, <3>2, <3>3 DEF GoneOK
  <2> QED
    BY <2>2, <2>3, <2>4
<1>14. RefersOK(t)'
  <2>1. SUFFICES ASSUME NEW k \in DOMAIN rows', k.table = "dentry"
                 PROVE  Inode(k.ino) \in DOMAIN rows'
    BY <1>5 DEF RefersOK
  <2>2. rows \in Tables /\ rows' \in Tables
    BY Effects DEF TablesOK
  <2>3. k \in Key
    BY <2>2 DEF Tables
  <2>4. Inode(k.ino) \in Key /\ Inode(k.ino).table = "metadata" /\ Inode(k.ino).ino = k.ino
    BY <2>1, <2>3, KeyForms, KeyParts
  <2>5. Inode(k.ino) \in DOMAIN rows
    <3>1. CASE k = s.to
      BY <1>11, <2>1, <3>1 DEF GoodStatement, Exists
    <3>2. CASE k # s.to
      BY <1>0, <1>5, <1>8, <1>11, <2>1, <3>2 DEF HistoryOK, RefersOK
    <3> QED
      BY <3>1, <3>2
  <2>6. ASSUME s.key = Inode(k.ino) PROVE s.op # "DELETE" /\ s.to = s.key
    <3>1. s.to = s.key /\ k # s.key
      BY <2>1, <2>4, <2>6 DEF GoodStatement
    <3>2. ASSUME s.op = "DELETE" PROVE FALSE
      <4>1. k \in DOMAIN rows
        BY <1>11, <3>1, <3>2
      <4> QED
        BY <2>1, <2>4, <2>6, <3>2, <4>1 DEF GoodStatement, HasName
    <3> QED
      BY <3>1, <3>2
  <2> QED
    BY <1>0, <1>11, <2>5, <2>6
<1>15. \A u \in 1 .. now' + 1 : u \in 1 .. now \/ u = t
  BY <1>1, <1>2, <1>t
<1> QED
  BY <1>2, <1>4, <1>7, <1>12, <1>13, <1>14, <1>15 DEF HistoryOK

LEMMA StepKeeps ==
    ASSUME AuditInv, NEW s, GoodStatement(s), Execute(s), TodoOK',
           Len(audit) < MaxLog, Len(audit) + 1 + Len(todo') <= MaxLog
    PROVE  AuditInv'
<1>1. LogOK' /\ HistoryOK'
  BY ExecuteKeepsHistory DEF AuditInv
<1>2. TablesOK /\ GoodStatement(s) /\ s.op \in Op /\ s.key \in Key /\ s.to \in Key
  BY DEF AuditInv, GoodStatement, Statement
<1>3. /\ rows' \in Tables
      /\ DOMAIN rows' \subseteq DOMAIN rows \cup {s.to}
      /\ audit' \in Seq(Records) /\ Len(audit') = Len(audit) + 1
      /\ DOMAIN audit' = DOMAIN audit \cup {Len(audit) + 1}
      /\ \A i \in DOMAIN audit : audit'[i] = audit[i]
      /\ audit'[Len(audit) + 1] = Record(s)
      /\ UNCHANGED <<tables, now, past>>
  <2>1. Len(audit) \in Nat
    BY <1>2 DEF TablesOK
  <2>2. 1 .. Len(audit) + 1 = 1 .. Len(audit) \cup {Len(audit) + 1}
    BY <2>1
  <2>3. DOMAIN rows' \subseteq DOMAIN rows \cup {s.to}
    BY <1>2, Effects
  <2> QED
    BY <1>2, <2>2, <2>3, Effects
<1>4. /\ Record(s).op = s.op /\ Record(s).key = s.to
      /\ "from" \in DOMAIN Record(s).data <=> s.op = "UPDATE" /\ s.key.table = "data"
  BY <1>2, Effects
<1>5. \A k \in DOMAIN rows' : k.table \in tables'
  BY <1>2, <1>3 DEF TablesOK, GoodStatement
<1>6. \A i \in DOMAIN audit' :
        "from" \in DOMAIN audit'[i].data <=>
            audit'[i].op = "UPDATE" /\ audit'[i].key.table = "data"
  BY <1>2, <1>3, <1>4 DEF TablesOK, GoodStatement
<1>7. TablesOK'
  BY <1>2, <1>3, <1>5, <1>6 DEF TablesOK
<1>8. RootOK'
  <2>1. /\ s.op = "DELETE" => DOMAIN rows' = DOMAIN rows \ {s.key}
        /\ s.op # "DELETE" => DOMAIN rows' = (DOMAIN rows \ {s.key}) \cup {s.to}
    BY <1>2, Effects
  <2>2. s.key = Inode(Directory) => s.op # "DELETE" /\ s.to = s.key
    BY <1>2, KeyParts DEF GoodStatement
  <2>3. RootOK /\ tables' = tables
    BY <1>3 DEF AuditInv
  <2> QED
    BY <2>1, <2>2, <2>3 DEF RootOK, Exists
<1> QED
  BY <1>1, <1>3, <1>7, <1>8 DEF AuditInv

---------------------------------------------------------------------------
(* Transactions *)

LEMMA Prepended ==
    ASSUME NEW S, NEW a \in S, NEW rest \in Seq(S)
    PROVE  LET l == <<a>> \o rest
           IN  /\ l \in Seq(S) /\ l # <<>> /\ Len(l) = Len(rest) + 1 /\ l[1] = a
               /\ \A j \in 2 .. Len(l) : j - 1 \in 1 .. Len(rest) /\ l[j] = rest[j - 1]
<1> DEFINE l == <<a>> \o rest
<1>1. <<a>> \in Seq(S) /\ Len(<<a>>) = 1 /\ <<a>>[1] = a /\ Len(rest) \in Nat
  OBVIOUS
<1>2. /\ l \in Seq(S) /\ Len(l) = 1 + Len(rest)
      /\ \A j \in 1 .. 1 + Len(rest) : l[j] = IF j <= 1 THEN <<a>>[j] ELSE rest[j - 1]
  BY <1>1, ConcatProperties
<1> HIDE DEF l
<1>3. l # <<>>
  BY <1>1, <1>2
<1>4. l[1] = a
  BY <1>1, <1>2
<1>5. \A j \in 2 .. Len(l) : j - 1 \in 1 .. Len(rest) /\ l[j] = rest[j - 1]
  BY <1>1, <1>2
<1> QED
  BY <1>1, <1>2, <1>3, <1>4, <1>5 DEF l

\* The first of these statements is executed and the others are left, good for later.
LEMMA HeadExecuted ==
    ASSUME AuditInv, NEW l \in Seq(Statement), l # <<>>, Len(audit) + Len(l) <= MaxLog,
           GoodStatement(l[1]), Execute(Head(l)), todo' = Tail(l),
           \A j \in 2 .. Len(l) :
                GoodStatement(l[j])' /\ l[j].op # "DELETE" /\ (j > 2 => Stamp(l[j]))
    PROVE  AuditInv'
<1>1. Len(audit) \in Nat /\ Len(l) \in Nat \ {0} /\ MaxLog \in Nat
  BY EmptySeq, LogBoundsAssumption DEF AuditInv, TablesOK
<1>2. Head(l) = l[1]
  OBVIOUS
<1>3. /\ todo' \in Seq(Statement) /\ Len(todo') = Len(l) - 1
      /\ \A j \in 1 .. Len(todo') : todo'[j] = l[j + 1]
  BY HeadTailProperties
<1>4. ASSUME NEW j \in 1 .. Len(todo')
      PROVE  GoodStatement(todo[j])' /\ todo'[j].op # "DELETE" /\ (j > 1 => Stamp(todo'[j]))
  <2>1. PICK s : s = l[j + 1]
    OBVIOUS
  <2>2. j + 1 \in 2 .. Len(l) /\ (j > 1 => j + 1 > 2)
    BY <1>1, <1>3
  <2>3. GoodStatement(s)' /\ s.op # "DELETE" /\ (j > 1 => Stamp(s)) /\ todo'[j] = s
    BY <1>3, <2>1, <2>2
  <2>4. GoodStatement(todo[j])'
    BY <2>3, Zenon DEF GoodStatement, Exists, HasName
  <2> QED
    BY <2>3, <2>4
<1>5. TodoOK'
  BY <1>3, <1>4 DEF TodoOK, Stamp
<1>6. Len(audit) < MaxLog /\ Len(audit) + 1 + Len(todo') <= MaxLog
  BY <1>1, <1>3
<1> QED
  BY <1>2, <1>5, <1>6, StepKeeps

LEMMA RunOne ==
    ASSUME AuditInv, NEW a, GoodStatement(a), Transaction(<<a>>)
    PROVE  AuditInv'
<1>1. PICK l : l = <<a>>
  OBVIOUS
<1>2. l \in Seq(Statement) /\ l # <<>> /\ Len(l) = 1 /\ l[1] = a
  BY <1>1 DEF GoodStatement
<1>3. Len(audit) + Len(l) <= MaxLog /\ Execute(Head(l)) /\ todo' = Tail(l)
  BY <1>1 DEF Transaction
<1> QED
  BY <1>2, <1>3, HeadExecuted

\* The row of an inode is there after any statement but its own deletion.
LEMMA InodesStay ==
    ASSUME AuditInv, NEW s, GoodStatement(s), Execute(s), Len(audit) < MaxLog,
           NEW i \in Ino, Exists(Inode(i)), ~(s.op = "DELETE" /\ s.key.table = "metadata")
    PROVE  Exists(Inode(i))'
<1>1. /\ s.op = "DELETE" => DOMAIN rows' = DOMAIN rows \ {s.key}
      /\ s.op # "DELETE" => DOMAIN rows' = (DOMAIN rows \ {s.key}) \cup {s.to}
  BY Effects DEF AuditInv
<1>2. Inode(i).table = "metadata"
  BY KeyParts
<1> QED
  BY <1>1, <1>2 DEF Exists, GoodStatement

\* A time stamp stays good.
LEMMA StampsStay ==
    ASSUME AuditInv, NEW s, GoodStatement(s), Execute(s), Len(audit) < MaxLog,
           ~(s.op = "DELETE" /\ s.key.table = "metadata"),
           NEW c, GoodStatement(c), Stamp(c)
    PROVE  GoodStatement(c)'
<1>1. /\ s.op = "DELETE" => DOMAIN rows' = DOMAIN rows \ {s.key}
      /\ s.op # "DELETE" => DOMAIN rows' = (DOMAIN rows \ {s.key}) \cup {s.to}
      /\ tables' = tables
  BY Effects DEF AuditInv
<1>2. c.op = "UPDATE" /\ c.key.table = "metadata" /\ c.to = c.key /\ c.key \in DOMAIN rows
  BY DEF GoodStatement, Stamp, Exists
<1>3. c.key \in DOMAIN rows'
  BY <1>1, <1>2 DEF GoodStatement
<1> QED
  BY <1>1, <1>2, <1>3 DEF GoodStatement, Exists

LEMMA UpdatesAreGood ==
    ASSUME "metadata" \in tables, NEW of \in Seq(Ino \cup {Directory}),
           \A j \in 1 .. Len(of) : Exists(Inode(of[j])),
           NEW stamps \in Stamps(of)
    PROVE  /\ stamps \in Seq(Statement)
           /\ \A j \in 1 .. Len(stamps) : GoodStatement(stamps[j]) /\ Stamp(stamps[j])
<1>1. CASE stamps = <<>>
  BY <1>1
<1>2. ASSUME NEW v \in [DOMAIN of -> Value],
             stamps = [j \in DOMAIN of |-> UPDATE(Inode(of[j]), v[j])]
      PROVE  /\ stamps \in Seq(Statement)
             /\ \A j \in 1 .. Len(stamps) : GoodStatement(stamps[j]) /\ Stamp(stamps[j])
  <2>1. Len(of) \in Nat /\ DOMAIN of = 1 .. Len(of)
    OBVIOUS
  <2>2. ASSUME NEW j \in 1 .. Len(of)
        PROVE  stamps[j] \in Statement /\ GoodStatement(stamps[j]) /\ Stamp(stamps[j])
    <3>1. PICK i \in Ino \cup {Directory} : i = of[j]
      BY ElementOfSeq
    <3>2. Inode(i) \in Key /\ Inode(i).table = "metadata" /\ Exists(Inode(i))
      BY <3>1, KeyParts
    <3>3. PICK s : s = stamps[j]
      OBVIOUS
    <3>4. s = UPDATE(Inode(i), v[j]) /\ v[j] \in Content
      BY <1>2, <2>1, <3>1, <3>3 DEF Content
    <3>5. s \in Statement /\ s.op = "UPDATE" /\ s.key = Inode(i) /\ s.to = Inode(i)
      BY <3>2, <3>4 DEF UPDATE, Statement, Op
    <3> QED
      BY <3>2, <3>3, <3>5 DEF GoodStatement, Stamp
  <2>3. stamps = [j \in 1 .. Len(of) |-> stamps[j]]
    BY <1>2, <2>1
  <2>4. stamps \in [1 .. Len(of) -> Statement]
    BY <2>2, <2>3
  <2>5. stamps \in Seq(Statement) /\ Len(stamps) = Len(of)
    BY <2>1, <2>4
  <2> QED
    BY <2>2, <2>5
<1> QED
  BY <1>1, <1>2 DEF Stamps, Updates

\* A transaction of time stamps, after a statement that may come before them
LEMMA StampsExecuted ==
    ASSUME AuditInv, NEW l \in Seq(Statement), l # <<>>, Len(audit) + Len(l) <= MaxLog,
           GoodStatement(l[1]), ~(l[1].op = "DELETE" /\ l[1].key.table = "metadata"),
           Execute(Head(l)), todo' = Tail(l),
           \A j \in 2 .. Len(l) : GoodStatement(l[j]) /\ Stamp(l[j])
    PROVE  AuditInv'
<1>1. Len(audit) \in Nat /\ Len(l) \in Nat \ {0} /\ MaxLog \in Nat /\ Head(l) = l[1]
  BY EmptySeq, LogBoundsAssumption DEF AuditInv, TablesOK
<1>2. Len(audit) < MaxLog
  BY <1>1
<1>3. ASSUME NEW j \in 2 .. Len(l)
      PROVE  GoodStatement(l[j])' /\ l[j].op # "DELETE" /\ Stamp(l[j])
  <2>1. PICK s : s = l[1]
    OBVIOUS
  <2>2. PICK c : c = l[j]
    OBVIOUS
  <2>3. GoodStatement(c)'
    BY <1>1, <1>2, <2>1, <2>2, StampsStay
  <2>4. GoodStatement(l[j])'
    BY <2>2, <2>3, Zenon DEF GoodStatement, Exists, HasName
  <2> QED
    BY <2>4 DEF Stamp
<1> QED
  BY <1>3, HeadExecuted

LEMMA StampedKeeps ==
    ASSUME AuditInv, NEW a, GoodStatement(a), a.key.table = "dentry", "metadata" \in tables,
           NEW of \in Seq(Ino \cup {Directory}),
           \A j \in 1 .. Len(of) : Exists(Inode(of[j])),
           NEW stamps \in Stamps(of), Transaction(<<a>> \o stamps)
    PROVE  AuditInv'
<1>1. /\ stamps \in Seq(Statement) /\ a \in Statement
      /\ \A j \in 1 .. Len(stamps) : GoodStatement(stamps[j]) /\ Stamp(stamps[j])
  BY UpdatesAreGood DEF GoodStatement
<1>2. PICK l : l = <<a>> \o stamps
  OBVIOUS
<1>3. /\ l \in Seq(Statement) /\ l # <<>> /\ l[1] = a
      /\ \A j \in 2 .. Len(l) : GoodStatement(l[j]) /\ Stamp(l[j])
  BY <1>1, <1>2, Prepended
<1>4. Len(audit) + Len(l) <= MaxLog /\ Execute(Head(l)) /\ todo' = Tail(l)
  BY <1>2 DEF Transaction
<1> QED
  BY <1>3, <1>4, StampsExecuted

\* The statements before the time stamps are two, of which the first readies the second.
LEMMA TwoStampedKeep ==
    ASSUME AuditInv, NEW a, GoodStatement(a), NEW b, b \in Statement, b.op # "DELETE",
           Execute(a) /\ Len(audit) < MaxLog => GoodStatement(b)',
           ~(a.op = "DELETE" /\ a.key.table = "metadata"), "metadata" \in tables,
           NEW stamps \in Seq(Statement),
           \A j \in 1 .. Len(stamps) : GoodStatement(stamps[j]) /\ Stamp(stamps[j]),
           Transaction(<<a>> \o (<<b>> \o stamps))
    PROVE  AuditInv'
<1>1. PICK rest : rest = <<b>> \o stamps
  OBVIOUS
<1>2. /\ rest \in Seq(Statement) /\ rest[1] = b /\ Len(rest) = Len(stamps) + 1
      /\ \A j \in 2 .. Len(rest) : j - 1 \in 1 .. Len(stamps) /\ rest[j] = stamps[j - 1]
  BY <1>1, Prepended
<1>3. PICK l : l = <<a>> \o rest
  OBVIOUS
<1>4. a \in Statement
  BY DEF GoodStatement
<1>5. /\ l \in Seq(Statement) /\ l # <<>> /\ l[1] = a /\ Len(l) = Len(rest) + 1
      /\ \A j \in 2 .. Len(l) : j - 1 \in 1 .. Len(rest) /\ l[j] = rest[j - 1]
  BY <1>2, <1>3, <1>4, Prepended
<1>6. Len(audit) + Len(l) <= MaxLog /\ Execute(Head(l)) /\ todo' = Tail(l) /\ Head(l) = a
  BY <1>1, <1>3, <1>5 DEF Transaction
<1>7. Len(audit) < MaxLog
  <2>1. Len(audit) \in Nat /\ Len(l) \in Nat \ {0} /\ MaxLog \in Nat
    BY <1>5, EmptySeq, LogBoundsAssumption DEF AuditInv, TablesOK
  <2> QED
    BY <1>6, <2>1
<1>8. ASSUME NEW j \in 2 .. Len(l)
      PROVE  GoodStatement(l[j])' /\ l[j].op # "DELETE" /\ (j > 2 => Stamp(l[j]))
  <2>0. Len(rest) \in Nat /\ Len(stamps) \in Nat
    BY <1>2
  <2>1. CASE j = 2
    <3>1. l[j] = b /\ GoodStatement(b)'
      BY <1>2, <1>5, <1>6, <1>7, <2>1
    <3>2. GoodStatement(l[j])'
      BY <3>1, Zenon DEF GoodStatement, Exists, HasName
    <3> QED
      BY <2>1, <3>1, <3>2
  <2>2. CASE j > 2
    <3>1. j - 1 \in 2 .. Len(rest)
      BY <1>5, <2>0, <2>2
    <3>2. PICK c : c = l[j] /\ GoodStatement(c) /\ Stamp(c)
      BY <1>2, <1>5, <3>1
    <3>3. GoodStatement(c)'
      BY <1>6, <1>7, <3>2, StampsStay
    <3>4. GoodStatement(l[j])'
      BY <3>2, <3>3, Zenon DEF GoodStatement, Exists, HasName
    <3> QED
      BY <3>2, <3>4 DEF Stamp
  <2> QED
    BY <2>1, <2>2
<1> QED
  BY <1>5, <1>6, <1>8, HeadExecuted

\* An entry that is there has its inode.
LEMMA EntriesHaveInodes ==
    ASSUME AuditInv
    PROVE  /\ \A k \in DOMAIN rows : k \in Key /\ k.table \in tables
           /\ \A k \in DOMAIN rows : k.table = "dentry" =>
                k.ino \in Ino /\ k.name \in Name /\ Exists(Inode(k.ino))
           /\ \A i : HasName(i) => i \in Ino /\ Exists(Inode(i))
<1>1. now + 1 \in 1 .. now + 1 /\ State(now + 1) = rows
  BY DEF AuditInv, TablesOK, State
<1>2. \A k \in DOMAIN rows : k \in Key /\ k.table \in tables
  BY DEF AuditInv, TablesOK, Tables
<1>3. \A k \in DOMAIN rows : k.table = "dentry" => Exists(Inode(k.ino))
  BY <1>1 DEF AuditInv, HistoryOK, RefersOK, Exists
<1> QED
  BY <1>2, <1>3, KeyForms DEF HasName

\* The inodes that are stamped when an entry changes
LEMMA StampedInodes ==
    ASSUME AuditInv, "metadata" \in tables, NEW i \in Ino, Exists(Inode(i))
    PROVE  LET of == <<i, Directory, Directory>>
           IN  /\ of \in Seq(Ino \cup {Directory})
               /\ \A j \in 1 .. Len(of) : Exists(Inode(of[j]))
<1>1. Exists(Inode(Directory))
  BY DEF AuditInv, RootOK
<1>2. <<i, Directory, Directory>> \in Seq(Ino \cup {Directory})
  OBVIOUS
<1>3. \A j \in 1 .. 3 : <<i, Directory, Directory>>[j] \in {i, Directory}
  OBVIOUS
<1>4. Len(<<i, Directory, Directory>>) = 3
  OBVIOUS
<1> QED
  BY <1>1, <1>2, <1>3, <1>4

LEMMA TwoConcatenated == ASSUME NEW S, NEW a \in S, NEW b \in S PROVE <<a>> \o <<b>> = <<a, b>>
<1>1. <<a>> \in Seq(S) /\ <<b>> \in Seq(S) /\ <<a, b>> \in Seq(S)
  OBVIOUS
<1>2. /\ <<a>> \o <<b>> \in Seq(S) /\ Len(<<a>> \o <<b>>) = 2
      /\ (<<a>> \o <<b>>)[1] = a /\ (<<a>> \o <<b>>)[2] = b
  BY <1>1, ConcatProperties
<1>3. \A i \in 1 .. 2 : (<<a>> \o <<b>>)[i] = <<a, b>>[i]
  BY <1>2
<1> QED
  BY <1>1, <1>2, <1>3, SeqEqual

LEMMA AddKeeps ==
    ASSUME AuditInv, NEW i \in Ino, NEW n \in Name, NEW v \in Value, "metadata" \in tables,
           add_inode_and_dentry(i, n, v)
    PROVE  AuditInv'
<1>0. "dentry" \in tables
  BY TablesTogether DEF AuditInv, TablesOK
<1>1. PICK a : a = INSERT(Inode(i), v)
  OBVIOUS
<1>2. PICK b : b = INSERT(Entry(n, i), FileType)
  OBVIOUS
<1>3. a \in Statement /\ a.op = "INSERT" /\ a.key = Inode(i) /\ a.to = Inode(i)
  BY <1>1, KeyParts DEF INSERT, Statement, Op, Content
<1>4. b \in Statement /\ b.op = "INSERT" /\ b.key = Entry(n, i) /\ b.to = Entry(n, i)
  BY <1>2, KeyParts DEF INSERT, Statement, Op, Content
<1>5. GoodStatement(a)
  BY <1>3, KeyParts DEF GoodStatement
<1>6. PICK stamps \in Stamps(<<Directory, Directory>>) : Transaction(<<a, b>> \o stamps)
  BY <1>1, <1>2 DEF add_inode_and_dentry, AddInodeAndDentry
<1>7. ASSUME Execute(a), Len(audit) < MaxLog PROVE GoodStatement(b)'
  <2>1. Exists(Inode(i))' /\ tables' = tables
    BY <1>3, <1>5, <1>7, Effects DEF AuditInv, Exists
  <2> QED
    BY <1>0, <1>4, <2>1, KeyParts DEF GoodStatement
<1>8. /\ stamps \in Seq(Statement)
      /\ \A j \in 1 .. Len(stamps) : GoodStatement(stamps[j]) /\ Stamp(stamps[j])
  <2>1. <<Directory, Directory>> \in Seq(Ino \cup {Directory})
    OBVIOUS
  <2>2. Exists(Inode(Directory))
    BY DEF AuditInv, RootOK
  <2>3. Len(<<Directory, Directory>>) = 2
        /\ \A j \in 1 .. 2 : <<Directory, Directory>>[j] = Directory
    OBVIOUS
  <2> QED
    BY <2>1, <2>2, <2>3, UpdatesAreGood
<1>9. Transaction(<<a>> \o (<<b>> \o stamps))
  <2>1. <<a>> \in Seq(Statement) /\ <<b>> \in Seq(Statement)
    BY <1>3, <1>4
  <2>2. (<<a>> \o <<b>>) \o stamps = <<a>> \o (<<b>> \o stamps)
    BY <1>8, <2>1, ConcatAssociative
  <2>3. <<a>> \o <<b>> = <<a, b>>
    BY <1>3, <1>4, TwoConcatenated
  <2> QED
    BY <1>6, <2>2, <2>3
<1> QED
  BY <1>3, <1>4, <1>5, <1>7, <1>8, <1>9, TwoStampedKeep

LEMMA LinkKeeps ==
    ASSUME AuditInv, NEW i \in Ino, NEW n \in Name, "metadata" \in tables, link_dentry(i, n)
    PROVE  AuditInv'
<1>0. "dentry" \in tables /\ Exists(Inode(i))
  BY TablesTogether, EntriesHaveInodes DEF AuditInv, TablesOK, link_dentry
<1>1. PICK a : a = INSERT(Entry(n, i), FileType)
  OBVIOUS
<1>2. a \in Statement /\ a.op = "INSERT" /\ a.key = Entry(n, i) /\ a.to = Entry(n, i)
  BY <1>1, KeyParts DEF INSERT, Statement, Op, Content
<1>3. GoodStatement(a) /\ a.key.table = "dentry"
  BY <1>0, <1>2, KeyParts DEF GoodStatement
<1>4. PICK stamps \in Stamps(<<i, Directory, Directory>>) : Transaction(<<a>> \o stamps)
  BY <1>1 DEF link_dentry
<1> QED
  BY <1>0, <1>3, <1>4, StampedInodes, StampedKeeps

\* The statements on an entry that is there
LEMMA EntryStatements ==
    ASSUME AuditInv, NEW k \in DOMAIN rows, k.table = "dentry", NEW m \in Name
    PROVE  /\ GoodStatement(DELETE(k)) /\ GoodStatement(MOVE(k, Entry(m, k.ino)))
           /\ DELETE(k).key = k /\ DELETE(k).op = "DELETE"
           /\ MOVE(k, Entry(m, k.ino)).key = k /\ MOVE(k, Entry(m, k.ino)).op = "UPDATE"
           /\ MOVE(k, Entry(m, k.ino)).to = Entry(m, k.ino)
<1>1. /\ k \in Key /\ k.table \in tables /\ k.ino \in Ino /\ Exists(Inode(k.ino))
  BY EntriesHaveInodes
<1>2. rows[k] \in Content
  BY DEF AuditInv, TablesOK, Tables
<1>3. DELETE(k) \in Statement /\ DELETE(k).op = "DELETE" /\ DELETE(k).key = k /\ DELETE(k).to = k
  BY <1>1, <1>2 DEF DELETE, Statement, Op
<1>4. PICK l : l = Entry(m, k.ino)
  OBVIOUS
<1>5. l \in Key /\ l.table = "dentry" /\ l.ino = k.ino
  BY <1>1, <1>4, KeyParts
<1>6. MOVE(k, l) \in Statement /\ MOVE(k, l).op = "UPDATE" /\ MOVE(k, l).key = k /\ MOVE(k, l).to = l
  BY <1>1, <1>2, <1>5 DEF MOVE, Statement, Op
<1>7. GoodStatement(DELETE(k))
  <2>1. k # Inode(Directory)
    BY KeyParts
  <2>2. DELETE(k).op # "INSERT" /\ Exists(DELETE(k).key)
    BY <1>3 DEF Exists
  <2>3. DELETE(k).key.table # "metadata" /\ DELETE(k).to = DELETE(k).key
    BY <1>3
  <2> QED
    BY <1>1, <1>3, <2>1, <2>2, <2>3 DEF GoodStatement
<1>8. GoodStatement(MOVE(k, l))
  BY <1>1, <1>5, <1>6 DEF GoodStatement, Exists
<1> QED
  BY <1>3, <1>4, <1>6, <1>7, <1>8

LEMMA DeleteKeeps ==
    ASSUME AuditInv, NEW n \in Name, "metadata" \in tables, delete_dentry(n)
    PROVE  AuditInv'
<1>1. PICK k \in Entries(n) :
        \E stamps \in Stamps(<<k.ino, Directory, Directory>>) :
            Transaction(<<DELETE(k)>> \o stamps)
  BY DEF delete_dentry
<1>2. k \in DOMAIN rows /\ k.table = "dentry"
  BY DEF Entries
<1>3. k.ino \in Ino /\ Exists(Inode(k.ino))
  BY <1>2, EntriesHaveInodes
<1>4. PICK a : a = DELETE(k)
  OBVIOUS
<1>5. GoodStatement(a) /\ a.key.table = "dentry"
  BY <1>2, <1>4, EntryStatements
<1>6. PICK stamps \in Stamps(<<k.ino, Directory, Directory>>) : Transaction(<<a>> \o stamps)
  BY <1>1, <1>4
<1> QED
  BY <1>3, <1>5, <1>6, StampedInodes, StampedKeeps

\* A rename that replaces
LEMMA ReplaceKeeps ==
    ASSUME AuditInv, "metadata" \in tables, NEW a, NEW b, GoodStatement(a), GoodStatement(b),
           a.op = "DELETE", a.key.table = "dentry", b.op = "UPDATE", b.key.table = "dentry",
           a.key # b.key, NEW i \in Ino, b.to.ino = i, Exists(Inode(i)),
           NEW stamps \in Stamps(<<i, Directory, Directory>>),
           Transaction(<<a>> \o (<<b>> \o stamps))
    PROVE  AuditInv'
<1>1. ASSUME Execute(a), Len(audit) < MaxLog PROVE GoodStatement(b)'
  <2>1. Exists(Inode(i))' /\ tables' = tables /\ DOMAIN rows' = DOMAIN rows \ {a.key}
    BY <1>1, InodesStay, Effects DEF AuditInv
  <2> QED
    BY <2>1 DEF GoodStatement, Exists
<1>2. /\ stamps \in Seq(Statement)
      /\ \A j \in 1 .. Len(stamps) : GoodStatement(stamps[j]) /\ Stamp(stamps[j])
  BY StampedInodes, UpdatesAreGood
<1>3. b \in Statement
  BY DEF GoodStatement
<1> QED
  BY <1>1, <1>2, <1>3, TwoStampedKeep

LEMMA MoveKeeps ==
    ASSUME AuditInv, NEW n \in Name, NEW m \in Name, "metadata" \in tables, move_dentry(n, m)
    PROVE  AuditInv'
<1>0. PICK k \in Entries(n) :
        \E stamps \in Stamps(<<k.ino, Directory, Directory>>) :
            \/ Transaction(<<MOVE(k, Entry(m, k.ino))>> \o stamps)
            \/ \E l \in Entries(m) :
                l.ino # k.ino
                    /\ Transaction(<<DELETE(l)>> \o (<<MOVE(k, Entry(m, k.ino))>> \o stamps))
  BY Zenon DEF move_dentry
<1>1. PICK stamps \in Stamps(<<k.ino, Directory, Directory>>) :
        \/ Transaction(<<MOVE(k, Entry(m, k.ino))>> \o stamps)
        \/ \E l \in Entries(m) :
            l.ino # k.ino
                /\ Transaction(<<DELETE(l)>> \o (<<MOVE(k, Entry(m, k.ino))>> \o stamps))
  BY <1>0
<1>2. k \in DOMAIN rows /\ k.table = "dentry"
  BY DEF Entries
<1>3. k.ino \in Ino /\ Exists(Inode(k.ino))
  BY <1>2, EntriesHaveInodes
<1>4. PICK b : b = MOVE(k, Entry(m, k.ino))
  OBVIOUS
<1>5. /\ GoodStatement(b) /\ b.key = k /\ b.op = "UPDATE" /\ b.key.table = "dentry"
      /\ b.to.ino = k.ino
  BY <1>2, <1>3, <1>4, EntryStatements, KeyParts
<1>6. CASE Transaction(<<b>> \o stamps)
  BY <1>3, <1>5, <1>6, StampedInodes, StampedKeeps
<1>7. ASSUME NEW l \in Entries(m), l.ino # k.ino, Transaction(<<DELETE(l)>> \o (<<b>> \o stamps))
      PROVE  AuditInv'
  <2>1. PICK a : a = DELETE(l)
    OBVIOUS
  <2>2. l \in DOMAIN rows /\ l.table = "dentry"
    BY DEF Entries
  <2>3. GoodStatement(a) /\ a.op = "DELETE" /\ a.key = l /\ a.key.table = "dentry" /\ a.key # b.key
    BY <1>5, <1>7, <2>1, <2>2, EntryStatements
  <2>4. Transaction(<<a>> \o (<<b>> \o stamps))
    BY <1>7, <2>1
  <2> QED
    BY <1>3, <1>5, <2>3, <2>4, ReplaceKeeps
<1> QED
  BY <1>1, <1>4, <1>6, <1>7

\* Transactions of one statement on a row that is there, or on one of data or xattr
LEMMA DeleteRowKeeps ==
    ASSUME AuditInv, NEW k \in DOMAIN rows, Transaction(<<DELETE(k)>>),
           k.table = "metadata" => ~HasName(k.ino), k # Inode(Directory)
    PROVE  AuditInv'
<1>1. k \in Key /\ k.table \in tables /\ rows[k] \in Content
  BY EntriesHaveInodes DEF AuditInv, TablesOK, Tables
<1>2. PICK a : a = DELETE(k)
  OBVIOUS
<1>3. a \in Statement /\ a.op = "DELETE" /\ a.key = k /\ a.to = k
  BY <1>1, <1>2 DEF DELETE, Statement, Op
<1>4. GoodStatement(a)
  BY <1>1, <1>3 DEF GoodStatement, Exists
<1> QED
  BY <1>2, <1>4, RunOne

LEMMA UpdateRowKeeps ==
    ASSUME AuditInv, NEW k \in DOMAIN rows, NEW v \in Value, Transaction(<<UPDATE(k, v)>>),
           k.table # "dentry"
    PROVE  AuditInv'
<1>1. k \in Key /\ k.table \in tables
  BY EntriesHaveInodes
<1>2. PICK a : a = UPDATE(k, v)
  OBVIOUS
<1>3. a \in Statement /\ a.op = "UPDATE" /\ a.key = k /\ a.to = k
  BY <1>1, <1>2 DEF UPDATE, Statement, Op, Content
<1>4. GoodStatement(a)
  BY <1>1, <1>3 DEF GoodStatement, Exists
<1> QED
  BY <1>2, <1>4, RunOne

LEMMA InsertRowKeeps ==
    ASSUME AuditInv, NEW k \in Key, NEW v \in Value, Transaction(<<INSERT(k, v)>>),
           k.table \in tables, k.table # "dentry"
    PROVE  AuditInv'
<1>1. PICK a : a = INSERT(k, v)
  OBVIOUS
<1>2. a \in Statement /\ a.op = "INSERT" /\ a.key = k /\ a.to = k
  BY <1>1 DEF INSERT, Statement, Op, Content
<1>3. GoodStatement(a)
  BY <1>2 DEF GoodStatement
<1> QED
  BY <1>1, <1>3, RunOne

LEMMA WriteKeeps ==
    ASSUME AuditInv, NEW i \in Ino, "metadata" \in tables, write_size_and_times(i)
    PROVE  AuditInv'
<1>1. PICK size \in {<<>>} \cup Updates(<<i>>), stamps \in Stamps(<<i, i>>) :
        size \o stamps # <<>> /\ Transaction(size \o stamps)
  BY DEF write_size_and_times
<1>2. Exists(Inode(i)) /\ <<i>> \in Seq(Ino \cup {Directory}) /\ <<i, i>> \in Seq(Ino \cup {Directory})
  BY DEF write_size_and_times
<1>3. /\ size \in Seq(Statement)
      /\ \A j \in 1 .. Len(size) : GoodStatement(size[j]) /\ Stamp(size[j])
  <2>1. size \in Stamps(<<i>>)
    BY DEF Stamps
  <2>2. Len(<<i>>) = 1 /\ \A j \in 1 .. 1 : <<i>>[j] = i
    OBVIOUS
  <2> QED
    BY <1>2, <2>1, <2>2, UpdatesAreGood
<1>4. /\ stamps \in Seq(Statement)
      /\ \A j \in 1 .. Len(stamps) : GoodStatement(stamps[j]) /\ Stamp(stamps[j])
  <2>1. Len(<<i, i>>) = 2 /\ \A j \in 1 .. 2 : <<i, i>>[j] = i
    OBVIOUS
  <2> QED
    BY <1>2, <2>1, UpdatesAreGood
<1>5. PICK l : l = size \o stamps
  OBVIOUS
<1>6. /\ l \in Seq(Statement) /\ Len(l) = Len(size) + Len(stamps)
      /\ \A j \in 1 .. Len(size) + Len(stamps) :
            l[j] = IF j <= Len(size) THEN size[j] ELSE stamps[j - Len(size)]
  BY <1>3, <1>4, <1>5, ConcatProperties
<1>7. ASSUME NEW j \in 1 .. Len(l) PROVE GoodStatement(l[j]) /\ Stamp(l[j])
  <2>1. Len(size) \in Nat /\ Len(stamps) \in Nat
    BY <1>3, <1>4
  <2>2. CASE j <= Len(size)
    BY <1>3, <1>6, <2>1, <2>2
  <2>3. CASE ~(j <= Len(size))
    <3>1. j - Len(size) \in 1 .. Len(stamps)
      BY <1>6, <2>1, <2>3
    <3> QED
      BY <1>4, <1>6, <2>1, <2>3, <3>1
  <2> QED
    BY <2>2, <2>3
<1>8. Len(audit) + Len(l) <= MaxLog /\ Execute(Head(l)) /\ todo' = Tail(l) /\ l # <<>>
  BY <1>1, <1>5 DEF Transaction
<1>9. 1 \in 1 .. Len(l) /\ \A j \in 2 .. Len(l) : j \in 1 .. Len(l)
  BY <1>6, <1>8, EmptySeq
<1> QED
  BY <1>6, <1>7, <1>8, <1>9, StampsExecuted DEF Stamp

LEMMA ContinueKeeps == ASSUME AuditInv, Continue PROVE AuditInv'
<1>1. /\ todo \in Seq(Statement) /\ todo # <<>> /\ Len(audit) + Len(todo) <= MaxLog
      /\ \A i \in 1 .. Len(todo) :
            GoodStatement(todo[i]) /\ todo[i].op # "DELETE" /\ (i > 1 => Stamp(todo[i]))
      /\ Execute(Head(todo)) /\ todo' = Tail(todo)
  BY DEF AuditInv, TodoOK, Continue
<1>2. PICK l : l = todo
  OBVIOUS
<1>3. 1 \in 1 .. Len(l) /\ \A j \in 2 .. Len(l) : j \in 1 .. Len(l) /\ j > 1
  BY <1>1, <1>2, EmptySeq
<1>4. GoodStatement(l[1]) /\ l[1].op # "DELETE"
  BY <1>1, <1>2, <1>3
<1>5. \A j \in 2 .. Len(l) : GoodStatement(l[j]) /\ Stamp(l[j])
  BY <1>1, <1>2, <1>3
<1> QED
  BY <1>1, <1>2, <1>4, <1>5, StampsExecuted

LEMMA TickKeeps == ASSUME AuditInv, Tick PROVE AuditInv'
<1>1. /\ now \in Nat /\ now' = now + 1 /\ now < MaxTime /\ past \in Seq(Tables)
      /\ Len(past) = now /\ rows \in Tables
      /\ UNCHANGED <<tables, rows, audit, todo>>
  BY DEF Tick, AuditInv, TablesOK
<1>2. /\ past' \in Seq(Tables) /\ Len(past') = now'
      /\ \A t \in 1 .. now : past'[t] = past[t]
      /\ past'[now + 1] = rows
  BY <1>1 DEF Tick
<1>3. TablesOK' /\ now' \in 1 .. MaxTime
  <2>1. now' \in 1 .. MaxTime
    BY <1>1, LogBoundsAssumption
  <2> QED
    BY <1>1, <1>2, <2>1, Zenon DEF AuditInv, TablesOK
<1>4. \A i \in DOMAIN audit : audit[i].ts \in Int /\ audit[i].ts <= now
  <2>1. \A i \in DOMAIN audit : audit[i] \in Records
    BY DEF AuditInv, TablesOK
  <2> QED
    BY <2>1, LogBoundsAssumption DEF AuditInv, LogOK, Records
<1>5. LogOK'
  BY <1>1, <1>4 DEF AuditInv, LogOK
<1>6. \A t \in 1 .. now + 1 : State(t)' = State(t) /\ Before(t)' = Before(t)
  BY <1>1, <1>2 DEF State, Before
<1>7. ASSUME NEW t, NEW u, t = now + 1, u = now + 2
      PROVE  State(u)' = State(t) /\ Before(u)' = Before(t)
  <2>1. \A i \in DOMAIN audit : audit[i].ts < t /\ audit[i].ts < u
    BY <1>1, <1>4, <1>7
  <2>2. State(t) = rows /\ State(u)' = rows
    BY <1>1, <1>7 DEF State
  <2>3. Before(t) = DOMAIN audit
    BY <2>1 DEF Before
  <2>4. Before(u)' = DOMAIN audit
    BY <1>1, <2>1 DEF Before
  <2> QED
    BY <2>2, <2>3, <2>4
\* What holds of a time holds of one that sees the same rows and records.
<1>8. ASSUME NEW t, NEW u, State(u)' = State(t), Before(u)' = Before(t),
             RefersOK(t) /\ \A k \in Key : FoundOK(t, k) /\ GoneOK(t, k)
      PROVE  RefersOK(u)' /\ \A k \in Key : FoundOK(u, k)' /\ GoneOK(u, k)'
  <2>1. \A k \in Key, i \in DOMAIN audit : LastRecord(u, k, i)' <=> LastRecord(t, k, i)
    BY <1>1, <1>8 DEF LastRecord
  <2>2. RefersOK(u)'
    BY <1>8 DEF RefersOK
  <2>3. \A k \in Key : FoundOK(u, k)'
    BY <1>1, <1>8, <2>1 DEF FoundOK
  <2>4. \A k \in Key : GoneOK(u, k)'
    BY <1>1, <1>8, <2>1 DEF GoneOK
  <2> QED
    BY <2>2, <2>3, <2>4
<1>9. HistoryOK'
  <2>1. SUFFICES ASSUME NEW u \in 1 .. now' + 1
                 PROVE  RefersOK(u)' /\ \A k \in Key : FoundOK(u, k)' /\ GoneOK(u, k)'
    BY DEF HistoryOK
  <2>2. CASE u \in 1 .. now + 1
    <3>1. State(u)' = State(u) /\ Before(u)' = Before(u)
      BY <1>6, <2>2
    <3> QED
      BY <1>8, <2>2, <3>1 DEF AuditInv, HistoryOK
  <2>3. CASE u = now + 2
    <3>0. PICK t \in 1 .. now + 1 : t = now + 1
      BY <1>1
    <3>1. State(u)' = State(t) /\ Before(u)' = Before(t)
      BY <1>7, <2>3, <3>0
    <3> QED
      BY <1>8, <3>0, <3>1 DEF AuditInv, HistoryOK
  <2> QED
    BY <1>1, <2>2, <2>3
<1>10. TodoOK'
  <2>1. \A s : GoodStatement(s)' <=> GoodStatement(s)
    BY <1>1 DEF GoodStatement, Exists, HasName
  <2> QED
    BY <1>1, <2>1 DEF AuditInv, TodoOK
<1>11. RootOK'
  BY <1>1 DEF AuditInv, RootOK, Exists
<1> QED
  BY <1>1, <1>3, <1>5, <1>9, <1>10, <1>11 DEF AuditInv

LEMMA InitOK == Init => AuditInv
<1> SUFFICES ASSUME Init PROVE AuditInv
  OBVIOUS
<1>1. /\ tables \in Together /\ todo = <<>> /\ now = 1
      /\ past = <<[k \in {} |-> FileType]>>
  BY DEF Init
<1>2. /\ past \in Seq(Tables) /\ Len(past) = 1 /\ DOMAIN past[1] = {}
      /\ DOMAIN State(1) = {} /\ State(2) = rows
  <2>1. PICK none : none = [k \in {} |-> FileType]
    OBVIOUS
  <2>2. none \in [{} -> Content] /\ DOMAIN none = {}
    BY <2>1
  <2>3. none \in Tables
    BY <2>2 DEF Tables
  <2>4. past = <<none>>
    BY <1>1, <2>1
  <2>5. past \in Seq(Tables) /\ Len(past) = 1 /\ past[1] = none
    BY <2>3, <2>4
  <2> QED
    BY <1>1, <2>2, <2>5 DEF State
<1>3. TodoOK /\ Len(todo) = 0
  BY <1>1 DEF TodoOK
<1>4. now \in 1 .. MaxTime /\ MaxLog \in Nat \ {0} /\ \A t \in 1 .. now + 1 : t = 1 \/ t = 2
  BY <1>1, LogBoundsAssumption
<1>5. CASE "metadata" \in tables
  <2>1. PICK v \in Value : MakeRoot(v)
    BY <1>5 DEF Init
  <2>2. PICK root : root = Inode(Directory)
    OBVIOUS
  <2>3. root \in Key /\ root.table = "metadata"
    BY <2>2, KeyParts
  <2>4. rows = [k \in {root} |-> v] /\ v \in Content
    BY <2>1, <2>2 DEF MakeRoot, Content
  <2>5. rows \in Tables /\ DOMAIN rows = {root} /\ rows[root] = v
    <3>1. rows \in [{root} -> Content] /\ {root} \in SUBSET Key
      BY <2>3, <2>4
    <3> QED
      BY <2>4, <3>1 DEF Tables
  <2>6. PICK record : record = [ts |-> 1, op |-> "INSERT", key |-> root, old |-> root, data |-> Full(v)]
    OBVIOUS
  <2>7. record \in Records /\ "from" \notin DOMAIN record.data
    <3>1. Full(v) \in Data /\ "from" \notin DOMAIN Full(v)
      BY <2>4 DEF Data, Full
    <3> QED
      BY <2>3, <2>6, <3>1, LogBoundsAssumption DEF Records
  <2>8. audit = <<record>>
    BY <2>1, <2>2, <2>6 DEF MakeRoot
  <2>9. /\ audit \in Seq(Records) /\ Len(audit) = 1 /\ DOMAIN audit = {1} /\ audit[1] = record
    BY <2>7, <2>8
  <2>10. TablesOK
    BY <1>1, <1>2, <1>4, <1>5, <2>3, <2>5, <2>6, <2>7, <2>9 DEF TablesOK
  <2>11. Before(1) = {} /\ Before(2) = {1}
    BY <2>6, <2>9 DEF Before
  <2>12. LogOK /\ RootOK
    BY <1>1, <2>2, <2>5, <2>6, <2>9 DEF LogOK, RootOK, Exists
  <2>13. RefersOK(1) /\ \A k \in Key : FoundOK(1, k) /\ GoneOK(1, k)
    BY <1>2, <2>11 DEF RefersOK, FoundOK, GoneOK
  <2>14. RefersOK(2) /\ \A k \in Key : FoundOK(2, k) /\ GoneOK(2, k)
    <3>1. LastRecord(2, root, 1)
      BY <2>6, <2>9, <2>11 DEF LastRecord
    <3>2. \A k \in Key : k # root => audit[1].key # k
      BY <2>6, <2>9
    <3>3. RefersOK(2)
      BY <1>2, <2>3, <2>5 DEF RefersOK
    <3>4. \A k \in Key : FoundOK(2, k)
      BY <1>2, <2>5, <2>6, <2>9, <3>1 DEF FoundOK
    <3>5. \A k \in Key : GoneOK(2, k)
      BY <1>2, <2>5, <2>11, <3>2 DEF GoneOK
    <3> QED
      BY <3>3, <3>4, <3>5
  <2>15. HistoryOK
    BY <1>4, <2>13, <2>14 DEF HistoryOK
  <2> QED
    BY <1>3, <1>4, <2>9, <2>10, <2>12, <2>15 DEF AuditInv
<1>6. CASE "metadata" \notin tables
  <2>1. rows = [k \in {} |-> FileType] /\ audit = <<>>
    BY <1>6 DEF Init
  <2>2. rows \in [{} -> Content] /\ DOMAIN rows = {}
    BY <2>1
  <2>3. audit \in Seq(Records) /\ DOMAIN audit = {} /\ Len(audit) = 0
    BY <2>1
  <2>4. TablesOK
    BY <1>1, <1>2, <1>4, <2>2, <2>3 DEF TablesOK, Tables
  <2>5. \A t : Before(t) = {}
    BY <2>3 DEF Before
  <2>6. \A t \in 1 .. now + 1 : DOMAIN State(t) = {}
    BY <1>2, <1>4, <2>2
  <2>7. HistoryOK
    BY <2>5, <2>6 DEF HistoryOK, RefersOK, FoundOK, GoneOK
  <2> QED
    BY <1>3, <1>4, <1>6, <2>3, <2>4, <2>7 DEF AuditInv, LogOK, RootOK
<1> QED
  BY <1>5, <1>6

LEMMA NextKeeps == AuditInv /\ [Next]_vars => AuditInv'
<1> SUFFICES ASSUME AuditInv, [Next]_vars PROVE AuditInv'
  OBVIOUS
<1>1. ASSUME "metadata" \in tables, NEW i \in Ino, NEW n \in Name, NEW v \in Value,
             add_inode_and_dentry(i, n, v)
      PROVE  AuditInv'
  BY <1>1, AddKeeps
<1>2. ASSUME "metadata" \in tables, NEW i \in Ino, NEW n \in Name, link_dentry(i, n)
      PROVE  AuditInv'
  BY <1>2, LinkKeeps
<1>3. ASSUME "metadata" \in tables, NEW n \in Name, delete_dentry(n) PROVE AuditInv'
  BY <1>3, DeleteKeeps
<1>4. ASSUME "metadata" \in tables, NEW n \in Name, NEW m \in Name, move_dentry(n, m)
      PROVE  AuditInv'
  BY <1>4, MoveKeeps
<1>5. ASSUME "metadata" \in tables, NEW i \in Ino, delete_inode_if_noref(i) PROVE AuditInv'
  <2>1. Inode(i).table = "metadata" /\ Inode(i).ino = i /\ Inode(i) # Inode(Directory)
    BY KeyParts, DirectoryAssumption
  <2> QED
    BY <1>5, <2>1, DeleteRowKeeps DEF delete_inode_if_noref, Exists
<1>6. ASSUME "metadata" \in tables, NEW i \in Ino \cup {Directory}, NEW v \in Value,
             update_inode(i, v) \/ touch(i, v)
      PROVE  AuditInv'
  BY <1>6, UpdateRowKeeps, KeyParts DEF update_inode, touch, Exists
<1>w. ASSUME "metadata" \in tables, NEW i \in Ino, write_size_and_times(i) PROVE AuditInv'
  BY <1>w, WriteKeeps
<1>7. ASSUME "data" \in tables, NEW n \in Name, NEW v \in Value,
             write_block(Block(n), v) \/ cut_block(Block(n), v)
      PROVE  AuditInv'
  <2>1. Block(n) \in Key /\ Block(n).table = "data"
    BY KeyParts
  <2>2. \/ Exists(Block(n)) /\ Transaction(<<UPDATE(Block(n), v)>>)
        \/ Transaction(<<INSERT(Block(n), v)>>)
    BY <1>7 DEF write_block, cut_block, REPLACE
  <2> QED
    BY <1>7, <2>1, <2>2, UpdateRowKeeps, InsertRowKeeps DEF Exists
<1>8. ASSUME "xattr" \in tables, NEW n \in Name, NEW v \in Value, set_xattr(Xattr(n), v)
      PROVE  AuditInv'
  BY <1>8, InsertRowKeeps, KeyParts DEF set_xattr, REPLACE
<1>9. ASSUME NEW k \in DOMAIN rows, k.table \in {"data", "xattr"}, delete_row(k)
      PROVE  AuditInv'
  BY <1>9, DeleteRowKeeps, KeyParts DEF delete_row
<1>10. CASE UNCHANGED vars
  <2>1. \A s : GoodStatement(s)' <=> GoodStatement(s)
    BY <1>10 DEF vars, GoodStatement, Exists, HasName
  <2>2. TodoOK'
    BY <1>10, <2>1 DEF vars, AuditInv, TodoOK
  <2>3. TablesOK' /\ LogOK'
    BY <1>10 DEF vars, AuditInv, TablesOK, LogOK
  <2>4. \A t : State(t)' = State(t) /\ Before(t)' = Before(t)
    BY <1>10 DEF vars, State, Before
  <2>5. HistoryOK'
    BY <1>10, <2>4 DEF vars, AuditInv, HistoryOK, RefersOK, FoundOK, GoneOK, LastRecord
  <2>6. RootOK'
    BY <1>10 DEF vars, AuditInv, RootOK, Exists
  <2> QED
    BY <1>10, <2>2, <2>3, <2>5, <2>6 DEF vars, AuditInv
<1> QED
  BY <1>1, <1>2, <1>3, <1>4, <1>5, <1>6, <1>w, <1>7, <1>8, <1>9, <1>10, ContinueKeeps, TickKeeps
  DEF Next

LEMMA InvAlways == Spec => []AuditInv
BY InitOK, NextKeeps, PTL DEF Spec

---------------------------------------------------------------------------
(* What a rewind finds *)

\* Records are in the order of time, so the last one before a time is one of the latest.
LEMMA LastIsLatest ==
    ASSUME AuditInv, NEW t, NEW k, NEW i, LastRecord(t, k, i)
    PROVE  i \in Latest(t, k)
BY DEF AuditInv, LogOK, LastRecord, Latest, Before

LEMMA LastIsRewound ==
    ASSUME AuditInv, NEW t, NEW k, NEW i, LastRecord(t, k, i), audit[i].op # "DELETE"
    PROVE  audit[i].data \in RewoundTo(t, k)
BY LastIsLatest DEF RewoundTo

LEMMA RewoundIsLogged ==
    ASSUME NEW t, NEW k, NEW d \in RewoundTo(t, k)
    PROVE  \E i \in Latest(t, k) : audit[i].op # "DELETE" /\ audit[i].key = k /\ audit[i].data = d
BY DEF RewoundTo, Latest

\* Two latest records of one key have one time, so there is but one if these are spaced.
LEMMA OnlyOneLatest ==
    ASSUME AuditInv, NEW t, NEW k, Spaced(k), NEW i, LastRecord(t, k, i),
           NEW j \in Latest(t, k)
    PROVE  j = i
<1>1. i \in DOMAIN audit /\ j \in DOMAIN audit /\ i \in Before(t) /\ j \in Before(t)
  BY DEF LastRecord, Latest, Before
<1>2. i \in Latest(t, k) /\ audit[i].key = k /\ audit[j].key = k
  BY LastIsLatest DEF LastRecord, Latest
<1>3. audit[j].ts <= audit[i].ts /\ audit[i].ts <= audit[j].ts
  BY <1>1, <1>2 DEF Latest
<1>4. audit[i].ts \in Int /\ audit[j].ts \in Int
  <2>1. audit[i] \in Records /\ audit[j] \in Records
    BY <1>1 DEF AuditInv, TablesOK
  <2> QED
    BY <2>1, LogBoundsAssumption DEF Records
<1>5. audit[i].ts = audit[j].ts
  BY <1>3, <1>4
<1> QED
  BY <1>1, <1>2, <1>5 DEF Spaced

LEMMA PastState ==
    ASSUME AuditInv, NEW t \in 1 .. now
    PROVE  /\ State(t) = past[t] /\ DOMAIN past[t] \subseteq Key
           /\ RefersOK(t) /\ \A k \in Key : FoundOK(t, k) /\ GoneOK(t, k)
<1>1. now \in Nat /\ past \in Seq(Tables) /\ Len(past) = now
  BY DEF AuditInv, TablesOK
<1>2. t # now + 1 /\ t \in 1 .. now + 1 /\ past[t] \in Tables
  BY <1>1
<1> QED
  BY <1>2 DEF AuditInv, HistoryOK, State, Tables

LEMMA MissesNothing == AuditInv => RewindMissesNothing
<1> SUFFICES ASSUME AuditInv, NEW t \in 1 .. now, NEW k \in DOMAIN past[t]
             PROVE  \E d \in RewoundTo(t, k) : k.table # "data" => d = Full(past[t][k])
  BY DEF RewindMissesNothing
<1>1. State(t) = past[t] /\ FoundOK(t, k)
  BY PastState
<1>2. PICK i \in DOMAIN audit :
        /\ LastRecord(t, k, i)
        /\ audit[i].op # "DELETE"
        /\ k.table # "data" => audit[i].data = Full(past[t][k])
  BY <1>1 DEF FoundOK
<1> QED
  BY <1>2, LastIsRewound

LEMMA IsThePast ==
    ASSUME AuditInv, NEW t \in 1 .. now, NEW k \in Key,
           k.table # "data", Spaced(k), Unmoved(k)
    PROVE  RewoundTo(t, k) = PastValues(t, k)
<1>1. State(t) = past[t] /\ FoundOK(t, k) /\ GoneOK(t, k)
  BY PastState
<1>2. CASE k \in DOMAIN past[t]
  <2>1. PICK i \in DOMAIN audit :
          /\ LastRecord(t, k, i)
          /\ audit[i].op # "DELETE"
          /\ audit[i].data = Full(past[t][k])
    BY <1>1, <1>2 DEF FoundOK
  <2>2. audit[i].data \in RewoundTo(t, k)
    BY <2>1, LastIsRewound
  <2>3. ASSUME NEW d \in RewoundTo(t, k) PROVE d = audit[i].data
    <3>1. PICK j \in Latest(t, k) : audit[j].key = k /\ audit[j].data = d
      BY RewoundIsLogged
    <3>2. j = i
      BY <2>1, <3>1, OnlyOneLatest
    <3> QED
      BY <3>1, <3>2
  <2>4. RewoundTo(t, k) = {audit[i].data}
    BY <2>2, <2>3
  <2> QED
    BY <1>2, <2>1, <2>4 DEF PastValues, WasAt
<1>3. CASE k \notin DOMAIN past[t]
  <2>1. ASSUME NEW d \in RewoundTo(t, k) PROVE FALSE
    <3>1. PICK j \in Latest(t, k) : audit[j].op # "DELETE" /\ audit[j].key = k
      BY RewoundIsLogged
    <3>2. j \in Before(t)
      BY DEF Latest
    <3>3. ~ \E m \in DOMAIN audit : audit[m].old = k /\ audit[m].key # k
      BY DEF Unmoved
    <3>4. PICK i \in DOMAIN audit : LastRecord(t, k, i) /\ audit[i].op = "DELETE"
      BY <1>1, <1>3, <3>1, <3>2, <3>3 DEF GoneOK
    <3>5. j = i
      BY <3>1, <3>4, OnlyOneLatest
    <3> QED
      BY <3>1, <3>4, <3>5
  <2>2. RewoundTo(t, k) = {}
    BY <2>1
  <2> QED
    BY <1>3, <2>2 DEF PastValues, WasAt
<1> QED
  BY <1>2, <1>3

LEMMA EntryHasInode ==
    ASSUME AuditInv, NEW t \in 1 .. now, NEW k \in get_dentry_at_time(t),
           Spaced(k), Unmoved(k)
    PROVE  /\ get_inode_at_time(t, k.ino) # {}
           /\ \E found \in lookup_at_time(t, k.name) : found[1] = k.ino
<1>1. PICK i \in Before(t) : audit[i].key = k /\ k.table = "dentry" /\ RewoundTo(t, k) # {}
  BY DEF get_dentry_at_time
<1>2. PICK e : e \in RewoundTo(t, k)
  BY <1>1
<1>3. k \in Key
  <2>1. audit[i] \in Records
    BY DEF AuditInv, TablesOK, Before
  <2> QED
    BY <1>1, <2>1 DEF Records
<1>4. RewoundTo(t, k) = PastValues(t, k)
  BY <1>1, <1>3, IsThePast
<1>5. k \in DOMAIN past[t]
  BY <1>2, <1>4 DEF PastValues, WasAt
<1>6. Inode(k.ino) \in DOMAIN past[t]
  BY <1>1, <1>5, PastState DEF RefersOK
<1>7. PICK d : d \in RewoundTo(t, Inode(k.ino))
  BY <1>6, MissesNothing DEF RewindMissesNothing
<1>8. d \in get_inode_at_time(t, k.ino)
  BY <1>7 DEF get_inode_at_time
<1>9. PICK found : found = <<k.ino, d>>
  OBVIOUS
<1>10. found \in lookup_at_time(t, k.name) /\ found[1] = k.ino
  BY <1>7, <1>9 DEF lookup_at_time
<1> QED
  BY <1>8, <1>10

LEMMA RewoundOnesHaveInodes == AuditInv => RewoundEntriesHaveInodes
BY EntryHasInode, Zenon DEF RewoundEntriesHaveInodes

---------------------------------------------------------------------------
(* Blocks rebuilt from the log *)

Seqs(k, op) == {i \in DOMAIN audit : audit[i].key = k /\ audit[i].op = op} \cup {0}

LastOf(k, op, m) == m \in Seqs(k, op) /\ \A j \in Seqs(k, op) : j <= m

\* f is what the block is after each record since the one that created it.
Patches(f, k, cr) ==
    f = [i \in cr .. Len(audit) |->
            IF i = cr THEN audit[i].data.full
            ELSE IF audit[i].key = k THEN delta_apply(f[i - 1], audit[i].data)
            ELSE f[i - 1]]

RebuiltFrom(k, cr) ==
    /\ \E f : Patches(f, k, cr)
    /\ \A f : Patches(f, k, cr) => f[Len(audit)] = rows[k]

\* A block of the table is one created after its last deletion, and the patches lead to it.
BlockOK(k) ==
    \E cr, del \in 0 .. Len(audit) :
        /\ LastOf(k, "INSERT", cr) /\ LastOf(k, "DELETE", del)
        /\ k \in DOMAIN rows <=> cr > del
        /\ k \in DOMAIN rows => RebuiltFrom(k, cr)

BlocksOK == "data" \in tables => \A k \in Blocks : BlockOK(k)

LEMMA LastIsMax ==
    ASSUME NEW k, NEW op, NEW m \in Int, LastOf(k, op, m), Seqs(k, op) \subseteq Int
    PROVE  MaxSeq(k, op) = m
<1>1. PICK S : S = Seqs(k, op)
  OBVIOUS
<1>2. MaxSeq(k, op) = CHOOSE i \in S : \A j \in S : j <= i
  BY <1>1 DEF MaxSeq, Seqs
<1>3. m \in S /\ \A j \in S : j <= m
  BY <1>1 DEF LastOf
<1>4. PICK n : n = CHOOSE i \in S : \A j \in S : j <= i
  OBVIOUS
<1>5. n \in S /\ \A j \in S : j <= n
  BY <1>3, <1>4
<1>6. n \in Int /\ n <= m /\ m <= n
  BY <1>1, <1>3, <1>5
<1> QED
  BY <1>2, <1>4, <1>6

LEMMA RebuiltIsPatched ==
    ASSUME NEW k, RebuiltFrom(k, MaxSeq(k, "INSERT"))
    PROVE  Patched(k) = rows[k]
<1>1. PICK f : f = CHOOSE g : Patches(g, k, MaxSeq(k, "INSERT"))
  OBVIOUS
<1>2. Patches(f, k, MaxSeq(k, "INSERT"))
  BY <1>1, Zenon DEF RebuiltFrom
<1>3. Patched(k) = f[Len(audit)]
  BY <1>1 DEF Patched, Patches
<1> QED
  BY <1>2, <1>3, Zenon DEF RebuiltFrom

LEMMA RebuiltBlocks == AuditInv /\ BlocksOK => BdataIsData
<1> SUFFICES ASSUME AuditInv, BlocksOK, "data" \in tables PROVE apply_diffs = rows
  BY DEF BdataIsData
<1>1. /\ rows \in [DOMAIN rows -> Content] /\ DOMAIN rows \subseteq Key
      /\ \A k \in DOMAIN rows : k.table \in tables
      /\ DOMAIN audit = 1 .. Len(audit) /\ Len(audit) \in Nat
  BY DEF AuditInv, TablesOK, Tables
<1>2. DOMAIN rows \subseteq Blocks
  BY <1>1, TablesTogether, KeyForms DEF AuditInv, TablesOK
<1>3. ASSUME NEW k \in Blocks
      PROVE  (k \in Created <=> k \in DOMAIN rows) /\ (k \in DOMAIN rows => Patched(k) = rows[k])
  <2>1. PICK cr \in 0 .. Len(audit), del \in 0 .. Len(audit) :
          /\ LastOf(k, "INSERT", cr) /\ LastOf(k, "DELETE", del)
          /\ k \in DOMAIN rows <=> cr > del
          /\ k \in DOMAIN rows => RebuiltFrom(k, cr)
    BY DEF BlocksOK, BlockOK
  <2>2. \A op : Seqs(k, op) \subseteq Int
    BY <1>1 DEF Seqs
  <2>3. MaxSeq(k, "INSERT") = cr /\ MaxSeq(k, "DELETE") = del
    BY <1>1, <2>1, <2>2, LastIsMax
  <2>4. k \in Created <=> k \in DOMAIN rows
    BY <2>1, <2>3 DEF Created
  <2>5. k \in DOMAIN rows => Patched(k) = rows[k]
    BY <2>1, <2>3, RebuiltIsPatched
  <2> QED
    BY <2>4, <2>5
<1>4. Created = DOMAIN rows
  BY <1>2, <1>3 DEF Created
<1>5. apply_diffs = [k \in DOMAIN rows |-> rows[k]]
  BY <1>2, <1>3, <1>4 DEF apply_diffs
<1> QED
  BY <1>1, <1>5

\* A record more patches what was patched before once more.
LEMMA OneMorePatch ==
    ASSUME NEW k, NEW n \in Nat, NEW cr \in 1 .. n, Len(audit) = n, Len(audit') = n + 1,
           \A i \in 1 .. n : audit'[i] = audit[i],
           RebuiltFrom(k, cr),
           IF audit'[n + 1].key = k
           THEN delta_apply(rows[k], audit'[n + 1].data) = rows'[k]
           ELSE rows'[k] = rows[k]
    PROVE  RebuiltFrom(k, cr)'
<1>0. cr \in Nat /\ cr <= n /\ cr # n + 1 /\ n + 1 \in Nat /\ (n + 1) - 1 = n
  OBVIOUS
<1>1. (\E f : Patches(f, k, cr)')
  <2>1. PICK f : Patches(f, k, cr)
    BY DEF RebuiltFrom
  <2>2. PICK last : last = IF audit'[n + 1].key = k
                           THEN delta_apply(f[n], audit'[n + 1].data) ELSE f[n]
    OBVIOUS
  <2>3. PICK g : g = [i \in cr .. n + 1 |-> IF i = n + 1 THEN last ELSE f[i]]
    OBVIOUS
  <2>4. PICK h : h = [i \in cr .. n + 1 |->
            IF i = cr THEN audit'[i].data.full
            ELSE IF audit'[i].key = k THEN delta_apply(g[i - 1], audit'[i].data)
            ELSE g[i - 1]]
    OBVIOUS
  <2>5. ASSUME NEW i \in cr .. n PROVE g[i] = h[i]
    <3>1. i \in cr .. n + 1 /\ i # n + 1 /\ i \in 1 .. n /\ (i # cr => i - 1 \in cr .. n)
      BY <1>0
    <3>2. g[i] = f[i] /\ audit'[i] = audit[i]
      BY <2>3, <3>1
    <3>3. CASE i = cr
      BY <2>1, <2>4, <3>1, <3>2, <3>3 DEF Patches
    <3>4. CASE i # cr
      <4>1. i - 1 \in cr .. n + 1 /\ i - 1 # n + 1
        BY <1>0, <3>1, <3>4
      <4>2. g[i - 1] = f[i - 1]
        BY <2>3, <4>1
      <4>3. h[i] = IF audit[i].key = k THEN delta_apply(g[i - 1], audit[i].data) ELSE g[i - 1]
        BY <2>4, <3>1, <3>2, <3>4
      <4>4. f[i] = IF audit[i].key = k THEN delta_apply(f[i - 1], audit[i].data) ELSE f[i - 1]
        BY <2>1, <3>4 DEF Patches
      <4> QED
        BY <3>2, <4>2, <4>3, <4>4, Zenon
    <3> QED
      BY <3>3, <3>4
  <2>6. g[n + 1] = h[n + 1]
    <3>1. n + 1 \in cr .. n + 1 /\ n \in cr .. n + 1 /\ n # n + 1
      BY <1>0
    <3>2. g[n + 1] = last /\ g[n] = f[n]
      BY <2>3, <3>1
    <3>3. h[n + 1] = IF audit'[n + 1].key = k THEN delta_apply(g[n], audit'[n + 1].data)
                     ELSE g[n]
      BY <1>0, <2>4, <3>1
    <3> QED
      BY <2>2, <3>2, <3>3, Zenon
  <2>7. \A i \in cr .. n + 1 : i = n + 1 \/ i \in cr .. n
    BY <1>0
  <2>8. g = h
    <3>1. \A i \in cr .. n + 1 : g[i] = h[i]
      BY <2>5, <2>6, <2>7, Zenon
    <3>2. g = [i \in cr .. n + 1 |-> g[i]]
      BY <2>3, Zenon
    <3>3. h = [i \in cr .. n + 1 |-> h[i]]
      BY <2>4, Zenon
    <3> QED
      BY <3>1, <3>2, <3>3, Zenon
  <2> QED
    BY <2>4, <2>8 DEF Patches
<1>2. ASSUME NEW g, Patches(g, k, cr)' PROVE g[n + 1] = rows'[k]
  <2>1. PICK f : f = [i \in cr .. n |-> g[i]]
    OBVIOUS
  <2>2. PICK h : h = [i \in cr .. n |->
            IF i = cr THEN audit[i].data.full
            ELSE IF audit[i].key = k THEN delta_apply(f[i - 1], audit[i].data)
            ELSE f[i - 1]]
    OBVIOUS
  <2>3. ASSUME NEW i \in cr .. n PROVE f[i] = h[i]
    <3>1. i \in cr .. n + 1 /\ i \in 1 .. n /\ (i # cr => i - 1 \in cr .. n)
      BY <1>0
    <3>2. f[i] = g[i] /\ audit'[i] = audit[i]
      BY <2>1, <3>1
    <3>3. CASE i = cr
      BY <1>2, <2>2, <3>1, <3>2, <3>3 DEF Patches
    <3>4. CASE i # cr
      <4>1. f[i - 1] = g[i - 1]
        BY <2>1, <3>1, <3>4
      <4>2. h[i] = IF audit[i].key = k THEN delta_apply(f[i - 1], audit[i].data) ELSE f[i - 1]
        BY <2>2, <3>4
      <4>3. g[i] = IF audit'[i].key = k THEN delta_apply(g[i - 1], audit'[i].data) ELSE g[i - 1]
        BY <1>2, <3>1, <3>4 DEF Patches
      <4> QED
        BY <3>2, <4>1, <4>2, <4>3, Zenon
    <3> QED
      BY <3>3, <3>4
  <2>4. f = h
    BY <2>1, <2>2, <2>3
  <2>5. Patches(f, k, cr)
    BY <2>2, <2>4 DEF Patches
  <2>6. f[n] = rows[k]
    BY <2>5 DEF RebuiltFrom
  <2>7. n \in cr .. n /\ n + 1 \in cr .. n + 1
    BY <1>0
  <2>8. g[n] = rows[k]
    BY <2>1, <2>6, <2>7
  <2>9. g[n + 1] = IF audit'[n + 1].key = k THEN delta_apply(g[n], audit'[n + 1].data)
                   ELSE g[n]
    <3>1. g = [i \in cr .. n + 1 |->
                IF i = cr THEN audit'[i].data.full
                ELSE IF audit'[i].key = k THEN delta_apply(g[i - 1], audit'[i].data)
                ELSE g[i - 1]]
      BY <1>2, Zenon DEF Patches
    <3>2. n + 1 \in cr .. n + 1 /\ n + 1 # cr /\ (n + 1) - 1 = n
      BY <1>0, <2>7
    <3> QED
      BY <3>1, <3>2
  <2> QED
    BY <2>8, <2>9
<1> QED
  BY <1>1, <1>2 DEF RebuiltFrom

LEMMA CreatedAnew ==
    ASSUME NEW k, NEW n \in Nat, Len(audit') = n + 1, audit'[n + 1].data = Full(rows'[k])
    PROVE  RebuiltFrom(k, n + 1)'
<1>1. PICK last \in Nat : last = n + 1
  OBVIOUS
<1>2. audit'[last].data.full = rows'[k] /\ \A i \in last .. last : i = last
  BY <1>1 DEF Full
<1>3. PICK f : f = [i \in last .. last |-> rows'[k]]
  OBVIOUS
<1>4. last \in last .. last
  OBVIOUS
<1>5. Patches(f, k, last)'
  BY <1>1, <1>2, <1>3 DEF Patches
<1>6. ASSUME NEW g, Patches(g, k, last)' PROVE g[last] = rows'[k]
  BY <1>1, <1>2, <1>4, <1>6 DEF Patches
<1>7. RebuiltFrom(k, last)'
  BY <1>1, <1>5, <1>6 DEF RebuiltFrom
<1> QED
  BY <1>1, <1>7

\* A statement changes the last records of its own key only.
LEMMA LastAfter ==
    ASSUME AuditInv, NEW s, GoodStatement(s), Execute(s), Len(audit) < MaxLog,
           NEW k, NEW op, NEW m \in Int, LastOf(k, op, m), NEW last, last = Len(audit) + 1
    PROVE  /\ s.to = k /\ s.op = op => LastOf(k, op, last)'
           /\ ~(s.to = k /\ s.op = op) => LastOf(k, op, m)'
<1>1. PICK n \in Nat : n = Len(audit)
  BY DEF AuditInv, TablesOK
<1>2. /\ DOMAIN audit = 1 .. n /\ DOMAIN audit' = 1 .. n + 1
      /\ \A i \in DOMAIN audit : audit'[i] = audit[i]
      /\ audit'[n + 1].op = s.op /\ audit'[n + 1].key = s.to
  BY <1>1, Effects DEF AuditInv
<1>3. Len(audit') = n + 1
  BY <1>1, Effects DEF AuditInv
<1>4. DOMAIN audit' = DOMAIN audit \cup {n + 1} /\ n + 1 \notin DOMAIN audit
  BY <1>2
<1>5. CASE s.to = k /\ s.op = op
  <2>1. n + 1 \in Seqs(k, op)'
    BY <1>2, <1>4, <1>5 DEF Seqs
  <2>2. \A j \in Seqs(k, op)' : j <= n + 1
    BY <1>2 DEF Seqs
  <2> QED
    BY <1>1, <1>5, <2>1, <2>2 DEF LastOf
<1>6. CASE ~(s.to = k /\ s.op = op)
  <2>1. Seqs(k, op)' = Seqs(k, op)
    BY <1>2, <1>4, <1>6 DEF Seqs
  <2> QED
    BY <1>6, <2>1 DEF LastOf
<1> QED
  BY <1>5, <1>6

LEMMA StatementRebuilds ==
    ASSUME AuditInv, BlocksOK, "data" \in tables,
           NEW s, GoodStatement(s), Execute(s), Len(audit) < MaxLog
    PROVE  BlocksOK'
<1> SUFFICES ASSUME NEW k \in Blocks PROVE BlockOK(k)'
  BY DEF BlocksOK
<1>1. PICK n \in Nat, last \in Nat : n = Len(audit) /\ last = n + 1
  BY DEF AuditInv, TablesOK
<1>2. /\ DOMAIN audit = 1 .. n /\ Len(audit') = last
      /\ \A i \in 1 .. n : audit'[i] = audit[i]
      /\ audit'[last].key = s.to
      /\ audit'[last].data = Record(s).data
  <2>1. /\ Len(audit') = Len(audit) + 1 /\ DOMAIN audit = 1 .. Len(audit)
        /\ \A i \in DOMAIN audit : audit'[i] = audit[i]
        /\ audit'[Len(audit) + 1] = Record(s) /\ Record(s).key = s.to
    BY Effects DEF AuditInv
  <2> QED
    BY <1>1, <2>1
<1>3. /\ s.op \in Op /\ s.to = s.key /\ s.key.table = "data"
      /\ s.op # "INSERT" => s.key \in DOMAIN rows
  <2>1. s.key.table = "data"
    BY TablesTogether DEF GoodStatement, AuditInv, TablesOK
  <2> QED
    BY <2>1 DEF GoodStatement, Statement, Exists
<1>4. /\ s.op = "DELETE" => DOMAIN rows' = DOMAIN rows \ {s.key}
      /\ s.op # "DELETE" => DOMAIN rows' = DOMAIN rows \cup {s.key}
      /\ s.op # "DELETE" => rows'[s.key] = s.value
      /\ \A l \in DOMAIN rows \ {s.key} : rows'[l] = rows[l]
      /\ s.op # "UPDATE" => Record(s).data = Full(s.value)
      /\ s.op = "UPDATE" => Record(s).data = delta_create(rows[s.key], s.value)
  BY <1>3, Effects DEF AuditInv
<1>5. PICK cr \in 0 .. n, del \in 0 .. n :
        /\ LastOf(k, "INSERT", cr) /\ LastOf(k, "DELETE", del)
        /\ k \in DOMAIN rows <=> cr > del
        /\ k \in DOMAIN rows => RebuiltFrom(k, cr)
  BY <1>1 DEF BlocksOK, BlockOK
<1>6. SUFFICES \E c, d \in 0 .. last :
        /\ LastOf(k, "INSERT", c)' /\ LastOf(k, "DELETE", d)'
        /\ k \in DOMAIN rows' <=> c > d
        /\ k \in DOMAIN rows' => RebuiltFrom(k, c)'
  BY <1>2 DEF BlockOK
<1>7. /\ s.to = k /\ s.op = "INSERT" => LastOf(k, "INSERT", last)'
      /\ ~(s.to = k /\ s.op = "INSERT") => LastOf(k, "INSERT", cr)'
      /\ s.to = k /\ s.op = "DELETE" => LastOf(k, "DELETE", last)'
      /\ ~(s.to = k /\ s.op = "DELETE") => LastOf(k, "DELETE", del)'
  BY <1>1, <1>5, LastAfter
<1>8. /\ cr \in 0 .. last /\ del \in 0 .. last /\ last \in 0 .. last
      /\ last > del /\ ~(cr > last) /\ (cr > del => cr \in 1 .. n)
  BY <1>1
<1>9. CASE s.key # k
  <2>1. k \in DOMAIN rows' <=> k \in DOMAIN rows
    BY <1>3, <1>4, <1>9 DEF Op
  <2>2. ASSUME k \in DOMAIN rows PROVE RebuiltFrom(k, cr)'
    <3>1. rows'[k] = rows[k] /\ audit'[last].key # k
      BY <1>2, <1>3, <1>4, <1>9, <2>2
    <3> QED
      BY <1>1, <1>2, <1>5, <1>8, <2>2, <3>1, OneMorePatch
  <2> QED
    BY <1>3, <1>5, <1>7, <1>8, <1>9, <2>1, <2>2
<1>10. CASE s.key = k /\ s.op = "INSERT"
  <2>1. k \in DOMAIN rows' /\ audit'[last].data = Full(rows'[k])
    BY <1>2, <1>4, <1>10
  <2>2. RebuiltFrom(k, last)'
    BY <1>1, <1>2, <2>1, CreatedAnew
  <2> QED
    BY <1>3, <1>7, <1>8, <1>10, <2>1, <2>2
<1>11. CASE s.key = k /\ s.op = "UPDATE"
  <2>1. k \in DOMAIN rows /\ k \in DOMAIN rows'
    BY <1>3, <1>4, <1>11
  <2>2. delta_apply(rows[k], audit'[last].data) = rows'[k]
    BY <1>2, <1>4, <1>11 DEF delta_apply, delta_create
  <2>3. RebuiltFrom(k, cr)'
    BY <1>1, <1>2, <1>3, <1>5, <1>8, <1>11, <2>1, <2>2, OneMorePatch
  <2> QED
    BY <1>3, <1>5, <1>7, <1>8, <1>11, <2>1, <2>3
<1>12. CASE s.key = k /\ s.op = "DELETE"
  <2>1. k \notin DOMAIN rows'
    BY <1>4, <1>12
  <2> QED
    BY <1>3, <1>7, <1>8, <1>12, <2>1
<1> QED
  BY <1>3, <1>9, <1>10, <1>11, <1>12 DEF Op

LEMMA TablesStay == [Next]_vars => tables' = tables
<1>1. ASSUME NEW l, Transaction(l) PROVE tables' = tables
  BY <1>1 DEF Transaction, Execute
<1>2. ASSUME Continue PROVE tables' = tables
  BY <1>2 DEF Continue, Execute
<1>3. ASSUME Tick \/ UNCHANGED vars PROVE tables' = tables
  BY <1>3 DEF Tick, vars
<1> QED
  BY <1>1, <1>2, <1>3
  DEF Next, add_inode_and_dentry, link_dentry, delete_dentry, move_dentry,
      delete_inode_if_noref, update_inode, touch, write_size_and_times, write_block, cut_block,
      set_xattr, delete_row

\* A step on the table data executes one statement or leaves rows and log alone.
LEMMA DataStep ==
    ASSUME AuditInv, [Next]_vars, "data" \in tables
    PROVE  \/ UNCHANGED <<rows, audit>>
           \/ \E s : GoodStatement(s) /\ Execute(s) /\ Len(audit) < MaxLog
<1>0. /\ tables = {"data"} /\ Len(audit) \in Nat /\ rows \in Tables
      /\ MaxLog \in Nat /\ Len(audit) + Len(todo) <= MaxLog
  BY TablesTogether, LogBoundsAssumption DEF AuditInv, TablesOK
<1>1. ASSUME NEW s, GoodStatement(s), Transaction(<<s>>)
      PROVE  GoodStatement(s) /\ Execute(s) /\ Len(audit) < MaxLog
  <2>1. Execute(s) /\ Len(audit) + 1 <= MaxLog
    <3>1. Len(<<s>>) = 1 /\ Head(<<s>>) = s
      OBVIOUS
    <3> QED
      BY <1>1, <3>1 DEF Transaction
  <2> QED
    BY <1>0, <1>1, <2>1
<1>2. ASSUME NEW n \in Name, NEW v \in Value,
             write_block(Block(n), v) \/ cut_block(Block(n), v)
      PROVE  \E s : GoodStatement(s) /\ Execute(s) /\ Len(audit) < MaxLog
  <2>1. PICK s : /\ Transaction(<<s>>)
                 /\ \/ s = UPDATE(Block(n), v) /\ Exists(Block(n))
                    \/ s = INSERT(Block(n), v)
    BY <1>2 DEF write_block, cut_block, REPLACE
  <2>2. Block(n) \in Key /\ Block(n).table = "data"
    BY KeyParts
  <2>3. GoodStatement(s)
    BY <1>0, <2>1, <2>2 DEF GoodStatement, Statement, Op, Content, UPDATE, INSERT
  <2> QED
    BY <1>1, <2>1, <2>3
<1>3. ASSUME NEW k \in DOMAIN rows, delete_row(k)
      PROVE  \E s : GoodStatement(s) /\ Execute(s) /\ Len(audit) < MaxLog
  <2>1. PICK s : Transaction(<<s>>) /\ s = DELETE(k)
    BY <1>3 DEF delete_row
  <2>2. k \in Key /\ k.table \in tables /\ rows[k] \in Content
    BY <1>0 DEF AuditInv, TablesOK, Tables
  <2>3. GoodStatement(s)
    BY <1>0, <2>1, <2>2, KeyParts DEF GoodStatement, Statement, Op, DELETE, Exists
  <2> QED
    BY <1>1, <2>1, <2>3
<1>4. ASSUME Continue
      PROVE  \E s : GoodStatement(s) /\ Execute(s) /\ Len(audit) < MaxLog
  <2>1. todo \in Seq(Statement) /\ todo # <<>> /\ Len(todo) \in Nat
    BY <1>4 DEF Continue, AuditInv, TodoOK
  <2>2. Len(todo) # 0
    BY <2>1, EmptySeq
  <2>3. 1 \in 1 .. Len(todo) /\ Len(audit) < MaxLog
    BY <1>0, <2>1, <2>2
  <2>4. GoodStatement(todo[1])
    BY <2>3 DEF AuditInv, TodoOK
  <2>5. Execute(todo[1])
    BY <1>4, <2>1 DEF Continue
  <2> QED
    BY <2>3, <2>4, <2>5
<1>5. ASSUME Tick \/ UNCHANGED vars PROVE UNCHANGED <<rows, audit>>
  BY <1>5 DEF Tick, vars
<1> QED
  BY <1>0, <1>2, <1>3, <1>4, <1>5 DEF Next

LEMMA BlocksAlways == Spec => [](AuditInv /\ BlocksOK)
<1>1. Init => BlocksOK
  <2> SUFFICES ASSUME Init, "data" \in tables, NEW k \in Blocks PROVE BlockOK(k)
    BY DEF BlocksOK
  <2>0. "metadata" \notin tables
    BY TablesTogether DEF Init
  <2>1. DOMAIN rows = {} /\ DOMAIN audit = {} /\ Len(audit) = 0
    BY <2>0 DEF Init
  <2>2. 0 \in 0 .. 0 /\ \A op : LastOf(k, op, 0)
    BY <2>1 DEF LastOf, Seqs
  <2> QED
    BY <2>1, <2>2 DEF BlockOK
<1>2. AuditInv /\ BlocksOK /\ [Next]_vars => BlocksOK'
  <2> SUFFICES ASSUME AuditInv, BlocksOK, [Next]_vars, "data" \in tables PROVE BlocksOK'
    BY TablesStay DEF BlocksOK
  <2>1. CASE UNCHANGED <<rows, audit>>
    <3>1. ASSUME NEW k \in Blocks PROVE BlockOK(k)'
      <4>1. BlockOK(k)
        BY DEF BlocksOK
      <4> QED
        BY <2>1, <4>1 DEF BlockOK, RebuiltFrom, Patches, LastOf, Seqs
    <3> QED
      BY <3>1 DEF BlocksOK
  <2>2. ASSUME NEW s, GoodStatement(s), Execute(s), Len(audit) < MaxLog PROVE BlocksOK'
    BY <2>2, StatementRebuilds
  <2> QED
    BY <2>1, <2>2, DataStep
<1> QED
  BY <1>1, <1>2, InvAlways, PTL DEF Spec

---------------------------------------------------------------------------
(* Theorems *)

\* The tables and the log keep their types, and only the log of data holds deltas.
THEOREM AuditTypeCorrect == Spec => []TypeOK
<1>1. ASSUME AuditInv PROVE TypeOK
  <2>1. DOMAIN rows \subseteq Key /\ \A k \in DOMAIN rows : rows[k] \in Content
    BY <1>1 DEF AuditInv, TablesOK, Tables
  <2> QED
    BY <1>1, <2>1, Zenon DEF AuditInv, TablesOK, TypeOK
<1> QED
  BY <1>1, InvAlways, PTL

\* new_at_time finds every row that was there at the time, for every log.
THEOREM RewindNeverMissesARow == Spec => []RewindMissesNothing
BY MissesNothing, InvAlways, PTL

\* new_at_time gives the past of every row of metadata, dentry and xattr that was changed
\* at most once in a millisecond and not moved away, for every log.
THEOREM RewindGivesThePast == Spec => []RewindIsThePast
<1>1. AuditInv => RewindIsThePast
  BY IsThePast DEF RewindIsThePast
<1> QED
  BY <1>1, InvAlways, PTL

\* Of the rewound tables tdentry and tmetadata, the first refers to rows of the second: for
\* entries changed at most once in a millisecond and not moved away.
THEOREM RewoundEntriesAlwaysHaveInodes == Spec => []RewoundEntriesHaveInodes
BY RewoundOnesHaveInodes, InvAlways, PTL

\* apply_diffs rebuilds the table data from the log of every life of the blocks.
THEOREM ApplyDiffsRebuildsTheBlocks == Spec => []BdataIsData
BY RebuiltBlocks, BlocksAlways, PTL
====
