---- MODULE MountProofs ----
(***************************************************************************)
(* Proofs about Mount: no mount fails but one at a time, and a table that  *)
(* was made in one go logs all its changes.                                *)
(***************************************************************************)
EXTENDS Mount, TLAPS

\* What there is of a table after its first k statements
Made(k) == {Statements[j] : j \in 1 .. k}

\* The table that is being made has what its statements so far made, and each other one
\* that no process died on is whole or not there at all; the table comes first.
TablesWholeOrNone ==
    /\ process.phase = "tables" /\ process.done > 0 => MakingTables
    /\ MakingTables /\ process.done > 0 => schema[Table[process.i]] = Made(process.done)
    /\ \A t \in TableNames :
        \/ t \in cut
        \/ schema[t] = {}
        \/ schema[t] = Made(5)
        \/ MakingTables /\ process.done > 0 /\ t = Table[process.i]
    /\ \A t \in TableNames : schema[t] = {} \/ "table" \in schema[t]

\* A mount at a time that fails lacks a log.
FailsWithoutLog ==
    process.phase = "failed" =>
        process.mode = "at_time" /\ \E t \in TableNames : "audit" \notin schema[t]

\* All tables are there when anything is changed.
TablesFirst ==
    process.phase \in Ready => \A t \in TableNames : "table" \in schema[t]

MountInv == TypeOK /\ TablesWholeOrNone /\ TablesFirst /\ FailsWithoutLog /\ WholeTablesAreLogged

LEMMA Tables ==
    /\ TableNames = {"metadata", "dentry", "data", "xattr"}
    /\ DOMAIN Table = 1 .. 4 /\ Len(Table) = 4
    /\ \A i \in 1 .. 4 : Table[i] \in TableNames
    /\ \A t \in TableNames : \E i \in 1 .. 4 : t = Table[i]
    /\ \A i, j \in 1 .. 4 : Table[i] = Table[j] => i = j
<1>1. Table[1] = "metadata" /\ Table[2] = "dentry" /\ Table[3] = "data" /\ Table[4] = "xattr"
  BY DEF Table
<1>2. DOMAIN Table = 1 .. 4 /\ Len(Table) = 4
  BY DEF Table
<1>3. \A i \in 1 .. 4 : i = 1 \/ i = 2 \/ i = 3 \/ i = 4
  OBVIOUS
<1>4. TableNames = {"metadata", "dentry", "data", "xattr"}
  BY <1>1, <1>2, <1>3 DEF TableNames
<1> QED
  BY <1>1, <1>2, <1>3, <1>4

\* What a table has after each statement.
LEMMA MadeStepwise ==
    /\ Made(5) = {"table", "audit"} \cup Op
    /\ \A k \in 1 .. 5 : "table" \in Made(k)
    /\ \A k \in 0 .. 4 :
        /\ Made(k + 1) = Made(k) \cup {Statements[k + 1]}
        /\ Statements[k + 1] \notin Made(k)
        /\ Statements[k + 1] \in {"table", "audit"} \cup Op
    /\ Made(0) = {}
    /\ Len(Statements) = 5
<1>1. /\ Statements[1] = "table" /\ Statements[2] = "audit" /\ Statements[3] = "DELETE"
      /\ Statements[4] = "UPDATE" /\ Statements[5] = "INSERT" /\ Len(Statements) = 5
  BY DEF Statements
<1>2. \A k \in 0 .. 4 : 1 .. k + 1 = (1 .. k) \cup {k + 1}
  OBVIOUS
<1>3. \A k \in 0 .. 4 : Made(k + 1) = Made(k) \cup {Statements[k + 1]}
  BY <1>2 DEF Made
<1>4. Made(0) = {}
  BY DEF Made
<1>5. Made(1) = {"table"}
  BY <1>1, <1>3, <1>4
<1>6. Made(2) = {"table", "audit"}
  BY <1>1, <1>3, <1>5
<1>7. Made(3) = {"table", "audit", "DELETE"}
  BY <1>1, <1>3, <1>6
<1>8. Made(4) = {"table", "audit", "DELETE", "UPDATE"}
  BY <1>1, <1>3, <1>7
<1>9. Made(5) = {"table", "audit", "DELETE", "UPDATE", "INSERT"}
  BY <1>1, <1>3, <1>8
<1>10. \A k \in 0 .. 4 : k = 0 \/ k = 1 \/ k = 2 \/ k = 3 \/ k = 4
  OBVIOUS
<1>11. \A k \in 1 .. 5 : k = 1 \/ k = 2 \/ k = 3 \/ k = 4 \/ k = 5
  OBVIOUS
<1>12. \A k \in 1 .. 5 : "table" \in Made(k)
  BY <1>5, <1>6, <1>7, <1>8, <1>9, <1>11
<1>13. \A k \in 0 .. 4 : Statements[k + 1] \notin Made(k) /\ Statements[k + 1] \in {"table", "audit"} \cup Op
  BY <1>1, <1>4, <1>5, <1>6, <1>7, <1>8, <1>10 DEF Op
<1> QED
  BY <1>1, <1>3, <1>4, <1>9, <1>12, <1>13 DEF Op

\* A table that is being made was not there when the mount came to it.
LEMMA NothingMadeTwice ==
    ASSUME MountInv, MakingTables, process.done > 0 \/ ~Found(Table[process.i])
    PROVE  ~Fails(process.i, process.done)
<1> USE DEF MountInv
<1>1. process.phase = "tables" /\ process.i \in 1 .. 4 /\ process.done \in 0 .. 4
  <2>1. process.phase = "tables" /\ process.i \in 1 .. 4
    BY Tables DEF MakingTables
  <2>2. process \in [phase : {"tables"}, mode : Mode, i : 1 .. 5, done : 0 .. 4]
    BY <2>1 DEF TypeOK, Off, Ready
  <2> QED
    BY <2>1, <2>2
<1>2. CASE process.done > 0
  <2>1. schema[Table[process.i]] = Made(process.done)
    BY <1>2 DEF TablesWholeOrNone
  <2> QED
    BY <1>1, <2>1, MadeStepwise DEF Fails
<1>3. CASE process.done = 0
  <2>1. "table" \notin schema[Table[process.i]]
    BY <1>3 DEF Found
  <2>2. Statements[process.done + 1] = "table"
    BY <1>3 DEF Statements
  <2> QED
    BY <2>1, <2>2 DEF Fails
<1> QED
  BY <1>1, <1>2, <1>3

\* What the process record looks like in each phase.
LEMMA ProcessShape ==
    ASSUME TypeOK
    PROVE  /\ process.phase \in {"off", "tables", "failed"} \cup Ready
           /\ process.phase = "off" <=> process = Off
           /\ process.phase = "tables" =>
                process \in [phase : {"tables"}, mode : Mode, i : 1 .. 5, done : 0 .. 4]
           /\ process.phase \in Ready =>
                process \in [phase : Ready, mode : Mode]
BY DEF TypeOK, Off, Ready

\* A process that has the database open as a whole changes only what the log has, but
\* for tables a process died on.
LEMMA ChangesAreLogged ==
    ASSUME MountInv, ~(MakingTables /\ process.done > 0),
           \A t \in TableNames : "table" \in schema[t],
           NEW m \in Mode, NEW changes \in SUBSET (TableNames \X Op),
           Changed(m, changes)
    PROVE  lost' \subseteq cut /\ writers' \subseteq Mode
<1> USE DEF MountInv
<1>1. ASSUME NEW c \in changes, c[2] \notin schema[c[1]]
      PROVE  c[1] \in cut
  <2>1. c[1] \in TableNames /\ c[2] \in Op
    OBVIOUS
  <2>2. schema[c[1]] # {} /\ schema[c[1]] # Made(5)
    BY <1>1, <2>1, MadeStepwise
  <2> QED
    BY <2>1, <2>2 DEF TablesWholeOrNone
<1>2. lost \subseteq cut /\ writers \subseteq Mode
  BY DEF WholeTablesAreLogged, TypeOK
<1> QED
  BY <1>1, <1>2 DEF Changed

LEMMA MountInit == Init => MountInv
<1> SUFFICES ASSUME Init PROVE MountInv
  OBVIOUS
<1>1. process.phase = "off"
  BY DEF Init, Off
<1>2. TypeOK
  <2>1. schema \in [TableNames -> SUBSET ({"table", "audit"} \cup Op)]
    BY DEF Init
  <2>2. process.phase # "tables" /\ process \in {Off}
    BY <1>1 DEF Init
  <2>3. root \in 0 .. 3 /\ cut = {} /\ lost = {} /\ writers = {}
    BY DEF Init
  <2>4. orphans \in BOOLEAN /\ file \in BOOLEAN /\ (orphans => file)
    BY Zenon DEF Init
  <2> QED
    BY <2>1, <2>2, <2>3, <2>4 DEF TypeOK
<1>3. TablesWholeOrNone /\ TablesFirst /\ FailsWithoutLog
  BY <1>1 DEF Init, TablesWholeOrNone, TablesFirst, FailsWithoutLog, MakingTables, Ready
<1> QED
  BY <1>2, <1>3 DEF MountInv, Init, WholeTablesAreLogged

LEMMA OpenKeeps ==
    ASSUME MountInv, NEW m \in Mode, Open(m) PROVE MountInv'
<1> USE DEF MountInv
<1>1. \/ process' = [phase |-> "tables", mode |-> m, i |-> 1, done |-> 0]
      \/ /\ process' = [phase |-> "failed", mode |-> m]
         /\ m = "at_time" /\ \E t \in TableNames : "audit" \notin schema[t]
  BY DEF Open, Making, At
<1>2. ~MakingTables
  BY DEF Open, MakingTables, Off
<1>3. UNCHANGED <<schema, root, file, orphans, cut, lost, writers>>
  BY DEF Open, Unchanged
<1>4. TypeOK'
  BY <1>1, <1>3 DEF TypeOK
<1>5. TablesWholeOrNone' /\ TablesFirst' /\ FailsWithoutLog'
  BY <1>1, <1>2, <1>3 DEF TablesWholeOrNone, TablesFirst, FailsWithoutLog, Ready, MakingTables
<1> QED
  BY <1>3, <1>4, <1>5 DEF WholeTablesAreLogged

LEMMA SkipKeeps ==
    ASSUME MountInv, Skip PROVE MountInv'
<1> USE DEF MountInv
<1>1. /\ process.phase = "tables" /\ process.i \in 1 .. 4 /\ process.mode \in Mode
      /\ process.done = 0 /\ "table" \in schema[Table[process.i]]
  BY ProcessShape, Tables DEF Skip, MakingTables, Found
<1>2. process' = [phase |-> "tables", mode |-> process.mode, i |-> process.i + 1, done |-> 0]
  BY DEF Skip, Making
<1>3. UNCHANGED <<schema, root, file, orphans, cut, lost, writers>>
  BY DEF Skip, Unchanged
<1>4. TypeOK'
  <2>1. \A i \in 1 .. process.i : "table" \in schema[Table[i]]
    <3>1. \A i \in 1 .. process.i : i = process.i \/ i \in 1 .. process.i - 1
      BY <1>1
    <3> QED
      BY <1>1, <3>1 DEF TypeOK
  <2>2. process'.i - 1 = process.i
    BY <1>1, <1>2
  <2> QED
    BY <1>1, <1>2, <1>3, <2>1, <2>2 DEF TypeOK
<1>5. TablesWholeOrNone' /\ TablesFirst' /\ FailsWithoutLog'
  BY <1>1, <1>2, <1>3 DEF TablesWholeOrNone, TablesFirst, FailsWithoutLog
<1> QED
  BY <1>3, <1>4, <1>5 DEF WholeTablesAreLogged

LEMMA CreateKeeps ==
    ASSUME MountInv, Create PROVE MountInv'
<1> USE DEF MountInv
<1> DEFINE t == Table[process.i]
           done == process.done + 1
<1>1. /\ MakingTables /\ process.phase = "tables" /\ process.i \in 1 .. 4
      /\ process.mode \in Mode /\ process.done \in 0 .. 4
      /\ process \in [phase : {"tables"}, mode : Mode, i : 1 .. 5, done : 0 .. 4]
      /\ t \in TableNames
  BY ProcessShape, Tables DEF Create, MakingTables
<1>2. ~Fails(process.i, process.done)
  BY <1>1, NothingMadeTwice DEF Create
<1>3. /\ schema' = [schema EXCEPT ![t] = @ \cup {Statements[done]}]
      /\ process' = IF done = Len(Statements)
                    THEN Making(process.mode, process.i + 1, 0)
                    ELSE [process EXCEPT !.done = done]
      /\ UNCHANGED <<root, file, orphans, cut, lost, writers>>
  BY <1>2 DEF Create, Unchanged
<1>4. schema \in [TableNames -> SUBSET ({"table", "audit"} \cup Op)]
  BY DEF TypeOK
<1>5. \A u \in TableNames : schema'[u] = IF u = t THEN schema[t] \cup {Statements[done]} ELSE schema[u]
  BY <1>1, <1>3, <1>4
\* A table that a process died on is found and skipped, so this one is new.
<1>6. schema'[t] = Made(done)
  <2>1. CASE process.done > 0
    <3>1. schema[t] = Made(process.done)
      BY <1>1, <2>1 DEF TablesWholeOrNone
    <3> QED
      BY <1>1, <1>5, <3>1, MadeStepwise
  <2>2. CASE process.done = 0
    <3>1. "table" \notin schema[t]
      BY <2>2 DEF Create, Found
    <3>2. schema[t] = {}
      BY <1>1, <3>1, <2>2, MadeStepwise DEF TablesWholeOrNone
    <3> QED
      BY <1>1, <1>5, <2>2, <3>2, MadeStepwise
  <2> QED
    BY <1>1, <2>1, <2>2
<1>7. schema' \in [TableNames -> SUBSET ({"table", "audit"} \cup Op)]
  <2>1. Statements[done] \in {"table", "audit"} \cup Op
    BY <1>1, MadeStepwise
  <2> QED
    BY <1>1, <1>3, <1>4, <2>1
<1>8. \A u \in TableNames : "table" \in schema[u] => "table" \in schema'[u]
  BY <1>5
<1>9. \A u \in TableNames : schema'[u] = {} \/ "table" \in schema'[u]
  <2>1. "table" \in schema'[t]
    BY <1>1, <1>6, MadeStepwise
  <2> QED
    BY <1>5, <2>1 DEF TablesWholeOrNone
<1>10. CASE done = 5
  <2>1. process' = [phase |-> "tables", mode |-> process.mode, i |-> process.i + 1, done |-> 0]
    BY <1>3, <1>10, MadeStepwise DEF Making
  <2>2. \A i \in 1 .. process.i : "table" \in schema'[Table[i]]
    <3>1. \A i \in 1 .. process.i : i = process.i \/ i \in 1 .. process.i - 1
      BY <1>1
    <3>2. "table" \in schema'[t]
      BY <1>6, <1>10, MadeStepwise
    <3> QED
      BY <1>1, <1>8, <3>1, <3>2, Tables DEF TypeOK
  <2>3. process'.i - 1 = process.i
    BY <1>1, <2>1
  <2>4. TypeOK'
    BY <1>1, <1>3, <1>7, <2>1, <2>2, <2>3 DEF TypeOK
  <2>5. TablesWholeOrNone' /\ TablesFirst' /\ FailsWithoutLog'
    BY <1>1, <1>3, <1>5, <1>6, <1>10, <1>9, <2>1
       DEF TablesWholeOrNone, TablesFirst, FailsWithoutLog
  <2> QED
    BY <1>3, <2>4, <2>5 DEF WholeTablesAreLogged
<1>11. CASE done # 5
  <2>1. /\ process' = [process EXCEPT !.done = done]
        /\ process'.phase = "tables" /\ process'.i = process.i /\ process'.done = done
        /\ process' \in [phase : {"tables"}, mode : Mode, i : 1 .. 5, done : 0 .. 4]
    BY <1>1, <1>3, <1>11, MadeStepwise
  <2>2. TypeOK'
    <3>1. \A i \in 1 .. process'.i - 1 : "table" \in schema'[Table[i]]
      BY <1>1, <1>8, <2>1, Tables DEF TypeOK
    <3> QED
      BY <1>3, <1>7, <2>1, <3>1 DEF TypeOK
  <2>3. MakingTables' /\ process'.done > 0 /\ Table[process'.i] = t
    BY <1>1, <2>1 DEF MakingTables
  <2>4. TablesWholeOrNone' /\ TablesFirst' /\ FailsWithoutLog'
    BY <1>1, <1>3, <1>5, <1>6, <1>9, <2>1, <2>3
       DEF TablesWholeOrNone, TablesFirst, FailsWithoutLog, Ready
  <2> QED
    BY <1>3, <2>2, <2>4 DEF WholeTablesAreLogged
<1> QED
  BY <1>10, <1>11

\* Actions that change neither the schema nor the phases before the mount
LEMMA RootKeeps ==
    ASSUME MountInv, MakeRoot PROVE MountInv'
<1> USE DEF MountInv
<1>1. /\ process.phase = "tables" /\ process.i = 5 /\ process.mode \in Mode
      /\ process \in [phase : {"tables"}, mode : Mode, i : 1 .. 5, done : 0 .. 4]
  BY ProcessShape, Tables DEF MakeRoot
<1>2. ~MakingTables
  BY <1>1, Tables DEF MakingTables
<1>3. \A u \in TableNames : "table" \in schema[u]
  <2>1. process.i - 1 = 4
    BY <1>1
  <2>2. \A i \in 1 .. 4 : "table" \in schema[Table[i]]
    BY <1>1, <2>1 DEF TypeOK
  <2> QED
    BY <2>2, Tables
<1>4. lost' \subseteq cut /\ writers' \subseteq Mode
  <2> DEFINE changes == {<<IF root = 0 THEN "metadata" ELSE "dentry", "INSERT">>}
  <2>1. changes \in SUBSET (TableNames \X Op)
    BY Tables DEF Op
  <2>2. Changed(process.mode, changes)
    BY DEF MakeRoot
  <2> HIDE DEF changes
  <2> QED
    BY <1>1, <1>2, <1>3, <2>1, <2>2, ChangesAreLogged
<1>5. UNCHANGED <<schema, file, orphans, process, cut>> /\ root' \in 0 .. 3
  BY DEF MakeRoot, TypeOK
<1>6. TypeOK'
  BY <1>4, <1>5 DEF TypeOK
<1>7. TablesWholeOrNone' /\ TablesFirst' /\ FailsWithoutLog'
  BY <1>5 DEF TablesWholeOrNone, TablesFirst, FailsWithoutLog, MakingTables
<1> QED
  BY <1>4, <1>5, <1>6, <1>7 DEF WholeTablesAreLogged

LEMMA ConstructedKeeps ==
    ASSUME MountInv, Constructed PROVE MountInv'
<1> USE DEF MountInv
<1>1. /\ process.phase = "tables" /\ process.i = 5 /\ process.mode \in Mode
      /\ process \in [phase : {"tables"}, mode : Mode, i : 1 .. 5, done : 0 .. 4]
  BY ProcessShape, Tables DEF Constructed
<1>2. ~MakingTables
  BY <1>1, Tables DEF MakingTables
<1>3. \A u \in TableNames : "table" \in schema[u]
  <2>1. process.i - 1 = 4
    BY <1>1
  <2>2. \A i \in 1 .. 4 : "table" \in schema[Table[i]]
    BY <1>1, <2>1 DEF TypeOK
  <2> QED
    BY <2>2, Tables
<1>4. process' = [phase |-> "mounted", mode |-> process.mode]
  BY DEF Constructed, At
<1>5. UNCHANGED <<schema, root, file, orphans, cut, lost, writers>>
  BY DEF Constructed, Unchanged
<1>6. TypeOK'
  BY <1>1, <1>4, <1>5 DEF TypeOK, Ready
<1>7. TablesWholeOrNone' /\ TablesFirst' /\ FailsWithoutLog'
  BY <1>2, <1>3, <1>4, <1>5
     DEF TablesWholeOrNone, TablesFirst, FailsWithoutLog, MakingTables, Ready
<1> QED
  BY <1>5, <1>6, <1>7 DEF WholeTablesAreLogged

\* An inode that nothing refers to is a file.
FilesOK == file \in BOOLEAN /\ orphans \in BOOLEAN /\ (orphans => file)

\* What a process that is through with the schema does keeps the invariant if what it
\* changes is logged.
LEMMA LaterStepsKeep ==
    ASSUME MountInv, process.phase \in Ready,
           UNCHANGED <<schema, root, cut>>, FilesOK',
           NEW phase \in Ready, process' = [phase |-> phase, mode |-> process.mode],
           lost' \subseteq cut /\ writers' \subseteq Mode
    PROVE  MountInv'
<1> USE DEF MountInv
<1>1. process \in [phase : Ready, mode : Mode]
  BY ProcessShape
<1>2. process' \in [phase : Ready, mode : Mode]
  BY <1>1
<1>3. lost' \subseteq TableNames
  BY DEF TypeOK
<1>4. process'.phase # "tables" /\ process'.phase \in Ready
  BY <1>2 DEF Ready
<1>5. TypeOK'
  BY <1>2, <1>3, <1>4 DEF TypeOK, FilesOK
<1>6. ~MakingTables /\ ~MakingTables'
  BY <1>1, <1>4 DEF MakingTables, Ready
<1>7. TablesWholeOrNone' /\ TablesFirst' /\ FailsWithoutLog'
  BY <1>1, <1>4, <1>6 DEF TablesWholeOrNone, TablesFirst, FailsWithoutLog, Ready
<1> QED
  BY <1>5, <1>7 DEF WholeTablesAreLogged

\* What goes with the inodes that nothing refers to is logged.
LEMMA DeletionsAreLogged ==
    ASSUME MountInv, process.phase \in Ready, Unchanged \/ DeleteUnnamed
    PROVE  lost' \subseteq cut /\ writers' \subseteq Mode
<1> USE DEF MountInv
<1>1. /\ process.mode \in Mode /\ ~MakingTables
      /\ \A t \in TableNames : "table" \in schema[t]
  BY ProcessShape DEF MakingTables, TablesFirst, Ready
<1>2. CASE Unchanged
  BY <1>2 DEF Unchanged, WholeTablesAreLogged, TypeOK
<1>3. ASSUME NEW more \in SUBSET {"data", "xattr"},
             Changed(process.mode, {<<t, "DELETE">> : t \in more \cup {"metadata"}})
      PROVE  lost' \subseteq cut /\ writers' \subseteq Mode
  <2> DEFINE changes == {<<t, "DELETE">> : t \in more \cup {"metadata"}}
  <2>1. changes \in SUBSET (TableNames \X Op)
    BY Tables DEF Op
  <2>2. Changed(process.mode, changes)
    BY <1>3
  <2> HIDE DEF changes
  <2> QED
    BY <1>1, <2>1, <2>2, ChangesAreLogged
<1> QED
  BY <1>2, <1>3 DEF DeleteUnnamed

LEMMA INITKeeps ==
    ASSUME MountInv, INIT PROVE MountInv'
<1>1. process.phase \in Ready /\ UNCHANGED <<schema, root, cut>>
  BY DEF INIT
<1>2. lost' \subseteq cut /\ writers' \subseteq Mode
  <2>1. Unchanged \/ DeleteUnnamed
    BY DEF INIT
  <2> QED
    BY <1>1, <2>1, DeletionsAreLogged
<1>3. FilesOK'
  <2>1. CASE UNCHANGED <<file, orphans>>
    BY <2>1, Zenon DEF MountInv, TypeOK, FilesOK
  <2>2. CASE DeleteUnnamed /\ orphans' = FALSE
    BY <2>2, Zenon DEF DeleteUnnamed, FilesOK
  <2> QED
    BY <2>1, <2>2, Zenon DEF INIT
<1>4. PICK phase \in Ready : process' = [phase |-> phase, mode |-> process.mode]
  <2>1. process' = [phase |-> IF process.phase = "mounted" THEN "serving" ELSE process.phase,
                    mode |-> process.mode]
    BY DEF INIT, At
  <2> QED
    BY <1>1, <2>1 DEF Ready
<1> QED
  BY <1>1, <1>2, <1>3, <1>4, LaterStepsKeep

LEMMA DESTROYKeeps ==
    ASSUME MountInv, DESTROY PROVE MountInv'
<1>1. /\ process.phase \in Ready /\ UNCHANGED <<schema, root, orphans, cut>>
      /\ process' = [phase |-> "destroyed", mode |-> process.mode] /\ "destroyed" \in Ready
  BY DEF DESTROY, At, Ready
<1>2. lost' \subseteq cut /\ writers' \subseteq Mode
  <2>1. Unchanged \/ DeleteUnnamed
    BY DEF DESTROY
  <2> QED
    BY <1>1, <2>1, DeletionsAreLogged
<1>3. FilesOK'
  <2>1. orphans \in BOOLEAN /\ file \in BOOLEAN /\ (orphans => file) /\ orphans' = orphans
    BY <1>1, Zenon DEF MountInv, TypeOK
  <2>2. CASE UNCHANGED file
    BY <2>1, <2>2, Zenon DEF FilesOK
  <2>3. CASE DeleteUnnamed /\ (orphans => file')
    BY <2>1, <2>3, Zenon DEF DeleteUnnamed, FilesOK
  <2> QED
    BY <2>2, <2>3, Zenon DEF DESTROY
<1> QED
  BY <1>1, <1>2, <1>3, LaterStepsKeep

LEMMA RequestsKeep ==
    ASSUME MountInv, Read \/ \E t \in TableNames, op \in Op : Write(t, op)
    PROVE  MountInv'
<1> USE DEF MountInv
<1>1. /\ process.phase = "serving" /\ UNCHANGED <<schema, root, orphans, process, cut>>
      /\ \E t \in TableNames, op \in Op : Changed(process.mode, {<<t, op>>})
      /\ process.phase \in Ready
  BY Tables DEF Read, Write, Op, Ready
<1>2. /\ process.mode \in Mode /\ ~MakingTables
      /\ \A t \in TableNames : "table" \in schema[t]
      /\ process' = [phase |-> process.phase, mode |-> process.mode]
  BY <1>1, ProcessShape DEF MakingTables, TablesFirst
<1>3. lost' \subseteq cut /\ writers' \subseteq Mode
  <2>1. PICK t \in TableNames, op \in Op : Changed(process.mode, {<<t, op>>})
    BY <1>1
  <2> DEFINE changes == {<<t, op>>}
  <2>2. changes \in SUBSET (TableNames \X Op) /\ Changed(process.mode, changes)
    BY <2>1
  <2> HIDE DEF changes
  <2> QED
    BY <1>2, <2>2, ChangesAreLogged
<1>4. FilesOK'
  <2>1. orphans \in BOOLEAN /\ file \in BOOLEAN /\ (orphans => file) /\ orphans' = orphans
    BY <1>1, Zenon DEF TypeOK
  <2>2. CASE Read
    <3>1. file' = file
      BY <2>2 DEF Read
    <3> QED
      BY <2>1, <3>1, Zenon DEF FilesOK
  <2>3. ASSUME NEW t \in TableNames, NEW op \in Op, Write(t, op) PROVE FilesOK'
    <3>1. file' = TRUE \/ file' = orphans \/ file' = file
      <4>1. CASE <<t, op>> = <<"metadata", "INSERT">>
        BY <2>3, <4>1 DEF Write
      <4>2. CASE <<t, op>> = <<"metadata", "DELETE">>
        BY <2>3, <4>2 DEF Write
      <4>3. CASE <<t, op>> # <<"metadata", "INSERT">> /\ <<t, op>> # <<"metadata", "DELETE">>
        BY <2>3, <4>3 DEF Write
      <4> QED
        BY <4>1, <4>2, <4>3
    <3> QED
      BY <2>1, <3>1, Zenon DEF FilesOK
  <2> QED
    BY <2>2, <2>3
<1> QED
  BY <1>1, <1>2, <1>3, <1>4, LaterStepsKeep

LEMMA StopKeeps ==
    ASSUME MountInv, Stop PROVE MountInv'
<1> USE DEF MountInv
<1>1. process' = Off /\ process'.phase = "off" /\ process'.phase \notin Ready /\ ~MakingTables'
  BY DEF Stop, Off, MakingTables, Ready
<1>2. UNCHANGED <<schema, root, file, lost, writers>>
  BY DEF Stop, Unchanged
\* The table that was being made is cut now.
<1>3. MakingTables /\ process.done > 0 => Table[process.i] \in cut'
  BY DEF Stop, MakingTables
<1>4. cut \subseteq cut' /\ cut' \subseteq TableNames
  <2>1. CASE process.phase = "tables" /\ process.done > 0
    <3>1. cut' = cut \cup {Table[process.i]}
      BY <2>1 DEF Stop
    <3>2. Table[process.i] \in TableNames
      BY <2>1, Tables DEF TablesWholeOrNone, MakingTables
    <3> QED
      BY <3>1, <3>2 DEF TypeOK
  <2>2. CASE ~(process.phase = "tables" /\ process.done > 0)
    BY <2>2 DEF Stop, TypeOK
  <2> QED
    BY <2>1, <2>2
<1>5. FilesOK'
  <2>1. (orphans' = TRUE /\ file) \/ orphans' = orphans
    BY DEF Stop, MayHoldUnnamed
  <2>2. orphans \in BOOLEAN /\ file \in BOOLEAN /\ (orphans => file)
    BY Zenon DEF TypeOK
  <2>3. file' = file
    BY <1>2
  <2>4. CASE orphans' = TRUE /\ file
    BY <2>2, <2>3, <2>4, Zenon DEF FilesOK
  <2>5. CASE orphans' = orphans
    BY <2>2, <2>3, <2>5, Zenon DEF FilesOK
  <2> QED
    BY <2>1, <2>4, <2>5
<1>6. TypeOK'
  BY <1>1, <1>2, <1>4, <1>5 DEF TypeOK, FilesOK
<1>7. TablesWholeOrNone' /\ TablesFirst' /\ FailsWithoutLog'
  BY <1>1, <1>2, <1>3, <1>4 DEF TablesWholeOrNone, TablesFirst, FailsWithoutLog
<1>8. WholeTablesAreLogged'
  BY <1>2, <1>4 DEF WholeTablesAreLogged
<1> QED
  BY <1>6, <1>7, <1>8

LEMMA MountStep == MountInv /\ [Next]_vars => MountInv'
<1> SUFFICES ASSUME MountInv, [Next]_vars PROVE MountInv'
  OBVIOUS
<1>1. ASSUME NEW m \in Mode, Open(m) PROVE MountInv'
  BY <1>1, OpenKeeps
<1>2. CASE Skip
  BY <1>2, SkipKeeps
<1>3. CASE Create
  BY <1>3, CreateKeeps
<1>4. CASE MakeRoot
  BY <1>4, RootKeeps
<1>5. CASE Constructed
  BY <1>5, ConstructedKeeps
<1>6. CASE INIT \/ DESTROY
  BY <1>6, INITKeeps, DESTROYKeeps
<1>7. CASE Read \/ \E t \in TableNames, op \in Op : Write(t, op)
  BY <1>7, RequestsKeep
<1>8. CASE Stop
  BY <1>8, StopKeeps
<1>9. CASE UNCHANGED vars
  BY <1>9 DEF vars, MountInv, TypeOK, TablesWholeOrNone, TablesFirst, FailsWithoutLog,
              WholeTablesAreLogged, MakingTables
<1> QED
  BY <1>1, <1>2, <1>3, <1>4, <1>5, <1>6, <1>7, <1>8, <1>9 DEF Next

\* Every state that mounts of these modes, one after the other, reach is well formed.
THEOREM MountTypeCorrect == Spec => []TypeOK
<1>1. MountInv => TypeOK
  BY DEF MountInv
<1> QED
  BY MountInit, MountStep, <1>1, PTL DEF Spec

\* Wherever earlier processes died, only a mount at a time fails, for want of a table's log
\* that was never made; Sqlite::init never meets what an earlier mount has made.
THEOREM MountsAlwaysGoOn == Spec => []MountsGoOn
<1>1. MountInv => MountsGoOn
  <2> SUFFICES ASSUME MountInv, process.phase = "failed" PROVE MountsGoOn
    BY DEF MountsGoOn
  <2>1. process.mode = "at_time" /\ ~MakingTables
    BY DEF MountInv, FailsWithoutLog, MakingTables
  <2>2. PICK t \in TableNames : "audit" \notin schema[t]
    BY DEF MountInv, FailsWithoutLog
  <2>3. t \in cut \/ schema[t] = {}
    BY <2>1, <2>2, MadeStepwise DEF MountInv, TablesWholeOrNone
  <2> QED
    BY <2>1, <2>3 DEF MountsGoOn
<1> QED
  BY MountInit, MountStep, <1>1, PTL DEF Spec

\* However often and in whatever modes the database is mounted, a table that was made
\* without a death in between has all its changes in the log.
THEOREM WholeTablesAlwaysLogged == Spec => []WholeTablesAreLogged
<1>1. MountInv => WholeTablesAreLogged
  BY DEF MountInv
<1> QED
  BY MountInit, MountStep, <1>1, PTL DEF Spec
====
