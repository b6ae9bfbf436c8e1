---- MODULE OpenDirProofs ----
(***************************************************************************)
(* Proofs about OpenDir: handles and lists stay together, and a listing    *)
(* read to its end is complete, for any names, long or short, any buffers   *)
(* and any number of streams.                                              *)
(***************************************************************************)
EXTENDS OpenDir, FiniteSetTheorems, TLAPS

\* The names that a stream lists: those of the moment it was opened
ListOf(s) == handler.list[streams[s].fh]

\* What a stream got is the first names of its list, as many as its offset says; a
\* listing that ended has all of them.  The list is between the names that stayed and
\* those that were seen.
ListingOK(s) ==
    /\ streams[s].got \subseteq ListOf(s)
    /\ \A n \in streams[s].got, m \in ListOf(s) : m <= n => m \in streams[s].got
    /\ Cardinality(streams[s].got) = streams[s].offset
    /\ streams[s].ended => streams[s].got = ListOf(s)
    /\ streams[s].stayed \subseteq ListOf(s) /\ ListOf(s) \subseteq streams[s].seen

OpenDirInv ==
    /\ TypeOK
    /\ streams = [s \in Stream |-> streams[s]]
    /\ handler = [count |-> handler.count, list |-> handler.list]
    /\ EachStreamHasItsList
    /\ \A s \in Stream : IsOpen(s) => ListingOK(s)

---------------------------------------------------------------------------
(* Facts about finite sets of numbers and Index *)

LEMMA HasLeast ==
    ASSUME NEW S, S \subseteq Int, IsFiniteSet(S), S # {}
    PROVE  \E n \in S : \A m \in S : n <= m
<1> DEFINE Bad == {T \in SUBSET S : T # {} /\ \A n \in T : \E m \in T : ~(n <= m)}
<1> SUFFICES ASSUME Bad # {} PROVE FALSE
  OBVIOUS
<1>1. IsWellFoundedOn(StrictSubsetOrdering(S), FiniteSubsetsOf(S))
  BY FS_StrictSubsetOrderingWellFounded
<1>2. Bad \subseteq FiniteSubsetsOf(S)
  BY FS_Subset DEF FiniteSubsetsOf
<1>3. PICK T \in Bad : \A U \in Bad : ~ (<<U, T>> \in StrictSubsetOrdering(S))
  BY <1>1, <1>2, WFMin, Zenon
<1>4. PICK n \in T : TRUE
  OBVIOUS
<1> DEFINE U == T \ {n}
<1>5. U # {}
  BY <1>4
<1>6. \A k \in U : \E m \in U : ~(k <= m)
  <2> TAKE k \in U
  <2>1. PICK m \in T : ~(k <= m)
    OBVIOUS
  <2>2. PICK p \in T : ~(n <= p)
    BY <1>4
  <2> QED
    BY <2>1, <2>2
<1>7. <<U, T>> \in StrictSubsetOrdering(S)
  BY <1>4 DEF StrictSubsetOrdering
<1> QED
  BY <1>3, <1>5, <1>6, <1>7

LEMMA HasGreatest ==
    ASSUME NEW S, S \subseteq Int, IsFiniteSet(S), S # {}
    PROVE  \E n \in S : \A m \in S : m <= n
<1> DEFINE Bad == {T \in SUBSET S : T # {} /\ \A n \in T : \E m \in T : ~(m <= n)}
<1> SUFFICES ASSUME Bad # {} PROVE FALSE
  OBVIOUS
<1>1. IsWellFoundedOn(StrictSubsetOrdering(S), FiniteSubsetsOf(S))
  BY FS_StrictSubsetOrderingWellFounded
<1>2. Bad \subseteq FiniteSubsetsOf(S)
  BY FS_Subset DEF FiniteSubsetsOf
<1>3. PICK T \in Bad : \A U \in Bad : ~ (<<U, T>> \in StrictSubsetOrdering(S))
  BY <1>1, <1>2, WFMin, Zenon
<1>4. PICK n \in T : TRUE
  OBVIOUS
<1> DEFINE U == T \ {n}
<1>5. U # {}
  BY <1>4
<1>6. \A k \in U : \E m \in U : ~(m <= k)
  <2> TAKE k \in U
  <2>1. PICK m \in T : ~(m <= k)
    OBVIOUS
  <2>2. PICK p \in T : ~(p <= n)
    BY <1>4
  <2> QED
    BY <2>1, <2>2
<1>7. <<U, T>> \in StrictSubsetOrdering(S)
  BY <1>4 DEF StrictSubsetOrdering
<1> QED
  BY <1>3, <1>5, <1>6, <1>7

\* If got are the first names, those behind the offset are the others, and each of them
\* comes after all of got.
LEMMA RestIsTheOthers ==
    ASSUME NEW names, names \subseteq DirName, NEW got \in SUBSET names,
           \A n \in got, m \in names : m <= n => m \in got
    PROVE  /\ {n \in names : Index(n, names) > Cardinality(got)} = names \ got
           /\ \A n \in names \ got, m \in got : m < n
<1>0. IsFiniteSet(names) /\ IsFiniteSet(got) /\ names \subseteq Int
  BY DirNameAssumption, FS_Subset
<1>1. \A n \in names \ got, m \in got : m < n
  BY <1>0
<1>2. ASSUME NEW n \in got PROVE ~(Index(n, names) > Cardinality(got))
  <2>1. {m \in names : m <= n} \in SUBSET got
    BY <1>2
  <2> QED
    BY <1>0, <2>1, FS_Subset, FS_CardinalityType DEF Index
<1>3. ASSUME NEW n \in names \ got PROVE Index(n, names) > Cardinality(got)
  <2>1. got \cup {n} \in SUBSET {m \in names : m <= n}
    BY <1>0, <1>1
  <2>2. {m \in names : m <= n} \in SUBSET names
    OBVIOUS
  <2>3. IsFiniteSet({m \in names : m <= n})
    BY <1>0, <2>2, FS_Subset
  <2>4. Cardinality(got \cup {n}) = Cardinality(got) + 1
    BY <1>0, FS_AddElement
  <2>5. Cardinality(got \cup {n}) <= Cardinality({m \in names : m <= n})
    BY <2>1, <2>3, FS_Subset
  <2>6. Cardinality(got) \in Nat /\ Cardinality({m \in names : m <= n}) \in Nat
    BY <1>0, <2>3, FS_CardinalityType
  <2> QED
    BY <2>4, <2>5, <2>6 DEF Index
<1> QED
  BY <1>1, <1>2, <1>3

\* A buffer takes the first entries of the rest, and at least one if there is any.
LEMMA AddsTheFirst ==
    ASSUME NEW rest, rest \subseteq DirName, NEW capacity \in Capacity
    PROVE  /\ Added(rest, capacity) \subseteq rest
           /\ \A n \in Added(rest, capacity), m \in rest :
                m <= n => m \in Added(rest, capacity)
           /\ Added(rest, capacity) = {} => rest = {}
<1>0. IsFiniteSet(rest) /\ rest \subseteq Int
  BY DirNameAssumption, FS_Subset
<1>1. Added(rest, capacity) \subseteq rest
  BY DEF Added
<1>2. ASSUME NEW n \in Added(rest, capacity), NEW m \in rest, m <= n
      PROVE  m \in Added(rest, capacity)
  <2> DEFINE P == {k \in rest : k <= m}
             Q == {k \in rest : k <= n}
  <2>0. m \in Int /\ n \in Int /\ \A k \in rest : k \in Int
    BY <1>0, <1>1
  <2>1. P \in SUBSET Q /\ Q \in SUBSET rest
    <3>1. \A k \in rest : k <= m => k <= n
      BY <1>2, <2>0
    <3> QED
      BY <3>1
  <2>6. \A k \in Added(rest, capacity) :
            Cardinality({j \in rest : j <= k}) + Cardinality({j \in rest : j <= k} \cap Long)
                <= capacity
    BY Zenon DEF Added
  <2>7. Cardinality(Q) + Cardinality(Q \cap Long) <= capacity
    BY <2>6
  <2> HIDE DEF P, Q
  <2>2. IsFiniteSet(Q) /\ IsFiniteSet(P)
    BY <1>0, <2>1, FS_Subset
  <2>3. Cardinality(P) <= Cardinality(Q) /\ Cardinality(P) \in Nat /\ Cardinality(Q) \in Nat
    BY <2>1, <2>2, FS_Subset, FS_CardinalityType
  <2>4. P \cap Long \in SUBSET (Q \cap Long) /\ Q \cap Long \in SUBSET Q
    BY <2>1
  <2>5. IsFiniteSet(Q \cap Long) /\ IsFiniteSet(P \cap Long)
    BY <2>2, <2>4, FS_Subset
  <2>9. /\ Cardinality(P \cap Long) <= Cardinality(Q \cap Long)
        /\ Cardinality(P \cap Long) \in Nat /\ Cardinality(Q \cap Long) \in Nat
    BY <2>4, <2>5, FS_Subset, FS_CardinalityType
  <2>8. capacity \in Int
    BY CapacityAssumption
  <2>10. Cardinality(P) + Cardinality(P \cap Long) <= capacity
    BY <2>3, <2>9, <2>7, <2>8
  <2> QED
    BY <1>2, <2>10, Zenon DEF P, Added
<1>3. ASSUME rest # {} PROVE Added(rest, capacity) # {}
  <2>1. PICK n \in rest : \A m \in rest : n <= m
    BY <1>0, <1>3, HasLeast
  <2>0. n \in Int /\ \A m \in rest : m \in Int
    BY <1>0
  <2>2. {m \in rest : m <= n} = {n}
    <3>1. \A m \in rest : m <= n <=> m = n
      BY <2>0, <2>1
    <3> QED
      BY <3>1
  <2>3. Cardinality({n}) = 1
    BY FS_Singleton
  <2>4. {n} \cap Long \in SUBSET {n} /\ IsFiniteSet({n})
    BY FS_Singleton
  <2>5. Cardinality({n} \cap Long) <= 1 /\ Cardinality({n} \cap Long) \in Nat
    BY <2>3, <2>4, FS_Subset, FS_CardinalityType
  <2>6. Cardinality({n}) + Cardinality({n} \cap Long) <= capacity
    BY <2>3, <2>5, CapacityAssumption
  <2> QED
    BY <2>2, <2>6, Zenon DEF Added
<1> QED
  BY <1>1, <1>2, <1>3

---------------------------------------------------------------------------
(* The invariant *)

LEMMA InitOK == Init => OpenDirInv
<1> SUFFICES ASSUME Init PROVE OpenDirInv
  OBVIOUS
<1>1. \A s \in Stream : ~IsOpen(s)
  BY DEF Init, IsOpen, Closed
<1>2. handler = [count |-> 0, list |-> <<>>] /\ DOMAIN handler.list = {}
  BY DEF Init, NoHandler
<1>3. TypeOK
  BY <1>2, MaxOpensAssumption DEF Init, TypeOK, Closed
<1> QED
  BY <1>1, <1>2, <1>3 DEF OpenDirInv, EachStreamHasItsList, Init

\* A step that leaves the lists alone and changes one open stream, which goes on with
\* the same handle.
LEMMA OneStream ==
    ASSUME OpenDirInv, NEW s \in Stream, IsOpen(s), NEW to \in Position,
           streams' = [streams EXCEPT ![s] = to], UNCHANGED <<dentry, handler>>,
           to.fh = streams[s].fh,
           ListingOK(s)'
    PROVE  OpenDirInv'
<1>1. /\ streams'[s] = to
      /\ \A t \in Stream : t # s => streams'[t] = streams[t]
      /\ streams' = [t \in Stream |-> streams'[t]]
  BY DEF OpenDirInv
<1>2. \A t \in Stream : IsOpen(t)' <=> IsOpen(t)
  BY <1>1 DEF IsOpen, Position
<1>3. \A t \in Stream : streams'[t].fh = streams[t].fh
  BY <1>1
<1>4. TypeOK'
  BY <1>1 DEF OpenDirInv, TypeOK
<1>5. EachStreamHasItsList'
  <2>1. {t \in Stream : IsOpen(t)'} = {t \in Stream : IsOpen(t)}
    BY <1>2
  <2>2. {streams'[t].fh : t \in {u \in Stream : IsOpen(u)'}}
            = {streams[t].fh : t \in {u \in Stream : IsOpen(u)}}
    BY <1>3, <2>1
  <2> QED
    BY <1>2, <1>3, <2>2 DEF OpenDirInv, EachStreamHasItsList
<1>6. ASSUME NEW t \in Stream, IsOpen(t)' PROVE ListingOK(t)'
  <2>1. CASE t = s
    BY <2>1
  <2>2. CASE t # s
    BY <1>1, <1>2, <1>6, <2>2 DEF OpenDirInv, ListingOK, ListOf
  <2> QED
    BY <2>1, <2>2
<1> QED
  BY <1>1, <1>4, <1>5, <1>6 DEF OpenDirInv

LEMMA OpenDirKeeps == ASSUME OpenDirInv, NEW s \in Stream, OpenDir(s) PROVE OpenDirInv'
<1> DEFINE fh == handler.count
<1>0. fh \in Nat /\ fh \notin DOMAIN handler.list
  BY MaxOpensAssumption DEF OpenDirInv, TypeOK
<1>1. /\ handler' = [count |-> handler'.count, list |-> handler'.list]
      /\ handler'.count = fh + 1
      /\ DOMAIN handler'.list = DOMAIN handler.list \cup {fh}
      /\ handler'.list[fh] = dentry
      /\ \A k \in DOMAIN handler.list : handler'.list[k] = handler.list[k]
  BY <1>0 DEF OpenDir, Opened, NextHandle
<1>2. /\ streams'[s] = [open |-> TRUE, fh |-> fh, offset |-> 0, ended |-> FALSE,
                        got |-> {}, stayed |-> dentry, seen |-> dentry]
      /\ \A t \in Stream : t # s => streams'[t] = streams[t]
      /\ streams' = [t \in Stream |-> streams'[t]]
      /\ dentry' = dentry
  BY DEF OpenDir, OpenDirInv, NextHandle
<1>3. IsOpen(s)' /\ \A t \in Stream : t # s => (IsOpen(t)' <=> IsOpen(t))
  BY <1>2 DEF IsOpen
<1>4. TypeOK'
  <2>1. handler'.count \in 0 .. MaxOpens
    BY <1>0, <1>1, MaxOpensAssumption DEF OpenDir
  <2>2. streams'[s] \in Position
    BY <1>0, <1>2 DEF Position, OpenDirInv, TypeOK
  <2>3. DOMAIN handler'.list \subseteq 0 .. handler'.count - 1
    BY <1>0, <1>1 DEF OpenDirInv, TypeOK
  <2> QED
    BY <1>1, <1>2, <2>1, <2>2, <2>3 DEF OpenDirInv, TypeOK
<1>5. \A t \in Stream : t # s /\ IsOpen(t) => streams[t].fh \in DOMAIN handler.list
  BY DEF OpenDirInv, EachStreamHasItsList
<1>6. EachStreamHasItsList'
  <2>1. {u \in Stream : IsOpen(u)'} = {u \in Stream : IsOpen(u)} \cup {s}
    BY <1>3
  <2>2. ~IsOpen(s)
    BY DEF OpenDir
  <2>3. {streams'[t].fh : t \in {u \in Stream : IsOpen(u)'}}
            = {streams[t].fh : t \in {u \in Stream : IsOpen(u)}} \cup {fh}
    BY <1>2, <2>1, <2>2
  <2>4. \A t \in Stream : t # s /\ IsOpen(t) => streams[t].fh # fh
    BY <1>0, <1>5
  <2>5. \A t, u \in Stream :
            t # u /\ IsOpen(t)' /\ IsOpen(u)' => streams'[t].fh # streams'[u].fh
    BY <1>2, <1>3, <2>4 DEF OpenDirInv, EachStreamHasItsList
  <2>6. DOMAIN handler'.list = {streams'[t].fh : t \in {u \in Stream : IsOpen(u)'}}
    BY <1>1, <2>3 DEF OpenDirInv, EachStreamHasItsList
  <2> QED
    BY <2>5, <2>6 DEF EachStreamHasItsList
<1>7. ASSUME NEW t \in Stream, IsOpen(t)' PROVE ListingOK(t)'
  <2>1. CASE t = s
    BY <1>1, <1>2, <2>1, FS_EmptySet DEF ListingOK, ListOf
  <2>2. CASE t # s
    BY <1>1, <1>2, <1>3, <1>5, <1>7, <2>2 DEF OpenDirInv, ListingOK, ListOf
  <2> QED
    BY <2>1, <2>2
<1> QED
  BY <1>1, <1>2, <1>4, <1>6, <1>7 DEF OpenDirInv

\* readdir: the new offset is the place of the last name the program has now
LEMMA ReadDirKeeps == ASSUME OpenDirInv, NEW s \in Stream, ReadDir(s) PROVE OpenDirInv'
<1> DEFINE entries == ListOf(s)
           got == streams[s].got
           rest == {n \in entries : Index(n, entries) > streams[s].offset}
<1>0. IsOpen(s) /\ streams[s] \in Position /\ ListingOK(s) /\ entries \subseteq DirName
  BY DEF ReadDir, OpenDirInv, TypeOK, ListOf, IsOpen, Closed
<1>1. rest = entries \ got /\ \A n \in rest, m \in got : m < n
  BY <1>0, RestIsTheOthers DEF ListingOK
<1>2. rest \subseteq DirName
  BY <1>0
<1> HIDE DEF rest
<1>3. PICK capacity \in Capacity :
        LET added == Added(rest, capacity)
            last == CHOOSE n \in added : \A m \in added : m <= n
        IN  streams' =
                IF added = {} THEN [streams EXCEPT ![s].ended = TRUE]
                ELSE [streams EXCEPT ![s].offset = OffsetAfter(Index(last, entries)),
                                     ![s].got = @ \cup added,
                                     ![s].ended = FALSE]
  BY Zenon DEF ReadDir, rest, ListOf
<1> DEFINE added == Added(rest, capacity)
           last == CHOOSE n \in added : \A m \in added : m <= n
<1>4. /\ added \subseteq rest /\ \A n \in added, m \in rest : m <= n => m \in added
      /\ added = {} => rest = {}
  BY <1>2, AddsTheFirst
<1>5. UNCHANGED <<dentry, handler>>
  BY DEF ReadDir
<1>6. CASE added = {}
  <2> DEFINE to == [streams[s] EXCEPT !.ended = TRUE]
  <2>1. streams' = [streams EXCEPT ![s] = to] /\ to \in Position /\ to.fh = streams[s].fh
    BY <1>0, <1>3, <1>6 DEF Position, OpenDirInv
  <2>2. streams'[s] = to
    BY <2>1 DEF OpenDirInv
  <2>3. /\ to.got = got /\ to.offset = streams[s].offset /\ to.ended = TRUE
        /\ to.stayed = streams[s].stayed /\ to.seen = streams[s].seen
    BY <1>0 DEF Position
  <2>4. got = entries
    BY <1>0, <1>1, <1>4, <1>6 DEF ListingOK
  <2>5. ListOf(s)' = entries
    BY <1>5, <2>1, <2>2 DEF ListOf
  <2> HIDE DEF to
  <2>6. ListingOK(s)'
    BY <1>0, <2>2, <2>3, <2>4, <2>5 DEF ListingOK
  <2> QED
    BY <1>0, <1>5, <2>1, <2>6, OneStream
<1>7. CASE added # {}
  <2> HIDE DEF added
  <2> DEFINE to == [streams[s] EXCEPT !.offset = Index(last, entries),
                                      !.got = got \cup added, !.ended = FALSE]
  <2>0. IsFiniteSet(added) /\ added \subseteq Int /\ IsFiniteSet(entries) /\ entries \subseteq Int
    BY <1>0, <1>2, <1>4, DirNameAssumption, FS_Subset
  <2>1. \E n \in added : \A m \in added : m <= n
    BY <1>7, <2>0, HasGreatest
  <2>2. last \in added /\ \A m \in added : m <= last
    BY <2>1
  <2> HIDE DEF last
  <2>3. {m \in entries : m <= last} = got \cup added
    <3>1. \A m \in got : m <= last
      <4>1. last \in Int /\ last \in rest /\ \A m \in got : m \in Int
        BY <1>0, <1>4, <2>0, <2>2 DEF ListingOK
      <4> QED
        BY <1>1, <4>1
    <3>2. \A m \in rest : m <= last => m \in added
      BY <1>4, <2>2
    <3> QED
      BY <1>0, <1>1, <1>4, <2>2, <3>1, <3>2 DEF ListingOK
  <2>4. Index(last, entries) = Cardinality(got \cup added)
    BY <2>3, Zenon DEF Index
  <2>5. IsFiniteSet(got \cup added)
    BY <1>0, <1>1, <1>4, <2>0, FS_Subset DEF ListingOK
  <2>6. Index(last, entries) \in Nat
    BY <2>4, <2>5, FS_CardinalityType
  <2>7. got \cup added \in SUBSET DirName
    BY <1>0, <1>2, <1>4 DEF ListingOK
  <2>8. streams' = [streams EXCEPT ![s] = to] /\ to \in Position /\ to.fh = streams[s].fh
    <3>1. streams' = [streams EXCEPT ![s].offset = OffsetAfter(Index(last, entries)),
                                     ![s].got = @ \cup added,
                                     ![s].ended = FALSE]
      BY <1>3, <1>7, Zenon DEF added, last
    <3>2. to \in Position /\ to.fh = streams[s].fh
      BY <1>0, <2>6, <2>7 DEF Position
    <3> QED
      BY <3>1, <3>2 DEF OffsetAfter, OpenDirInv
  <2>9. streams'[s] = to
    BY <2>8 DEF OpenDirInv
  <2>10. ListOf(s)' = entries
    BY <1>5, <2>8, <2>9 DEF ListOf
  <2>11. \A n \in got \cup added, m \in entries : m <= n => m \in got \cup added
    <3>1. ASSUME NEW n \in added, NEW m \in entries, m <= n PROVE m \in got \cup added
      BY <1>1, <1>4, <3>1
    <3> QED
      BY <1>0, <3>1 DEF ListingOK
  <2>12. /\ to.got = got \cup added /\ to.offset = Cardinality(got \cup added)
         /\ to.ended = FALSE /\ to.stayed = streams[s].stayed /\ to.seen = streams[s].seen
    BY <1>0, <2>4 DEF Position
  <2>13. ListingOK(s)'
    <3> HIDE DEF to
    <3>1. got \cup added \subseteq entries
      BY <1>0, <1>1, <1>4 DEF ListingOK
    <3> QED
      BY <1>0, <2>9, <2>10, <2>11, <2>12, <3>1 DEF ListingOK
  <2> QED
    BY <1>0, <1>5, <2>8, <2>13, OneStream
<1> QED
  BY <1>6, <1>7

LEMMA RewindKeeps == ASSUME OpenDirInv, NEW s \in Stream, Rewind(s) PROVE OpenDirInv'
<1> DEFINE to == [streams[s] EXCEPT !.offset = 0, !.got = {}, !.ended = FALSE]
<1>0. IsOpen(s) /\ streams[s] \in Position /\ ListingOK(s)
  BY DEF Rewind, OpenDirInv, TypeOK, IsOpen, Closed
<1>1. to \in Position /\ to.fh = streams[s].fh
  BY <1>0 DEF Position
<1>2. /\ to.got = {} /\ to.offset = 0 /\ to.ended = FALSE
      /\ to.stayed = streams[s].stayed /\ to.seen = streams[s].seen
  BY <1>0 DEF Position
<1>3. streams' = [streams EXCEPT ![s] = to] /\ streams'[s] = to
  BY DEF Rewind, OpenDirInv
<1>4. UNCHANGED <<dentry, handler>>
  BY DEF Rewind
<1> HIDE DEF to
<1>5. ListingOK(s)'
  BY <1>0, <1>1, <1>2, <1>3, <1>4, FS_EmptySet DEF ListingOK, ListOf
<1> QED
  BY <1>0, <1>1, <1>3, <1>4, <1>5, OneStream

LEMMA ReleaseDirKeeps == ASSUME OpenDirInv, NEW s \in Stream, ReleaseDir(s) PROVE OpenDirInv'
<1> DEFINE fh == streams[s].fh
<1>0. IsOpen(s) /\ fh \in DOMAIN handler.list /\ handler.count \in Nat /\ handler.count # 0
  <2>1. IsOpen(s) /\ fh \in DOMAIN handler.list
    BY DEF ReleaseDir, OpenDirInv, EachStreamHasItsList
  <2> QED
    BY <2>1, MaxOpensAssumption DEF OpenDirInv, TypeOK
<1>1. /\ handler' = [count |-> handler.count, list |-> handler'.list]
      /\ handler'.count = handler.count
      /\ DOMAIN handler'.list = DOMAIN handler.list \ {fh}
      /\ \A k \in DOMAIN handler.list \ {fh} : handler'.list[k] = handler.list[k]
  BY <1>0 DEF ReleaseDir, Released, OpenDirInv
<1>2. /\ streams'[s] = Closed
      /\ \A t \in Stream : t # s => streams'[t] = streams[t]
      /\ streams' = [t \in Stream |-> streams'[t]]
      /\ dentry' = dentry
  BY DEF ReleaseDir, OpenDirInv
<1>3. ~IsOpen(s)' /\ \A t \in Stream : t # s => (IsOpen(t)' <=> IsOpen(t))
  BY <1>2 DEF IsOpen, Closed
<1>4. TypeOK'
  <2>1. /\ handler'.count \in 0 .. MaxOpens
        /\ DOMAIN handler'.list \subseteq 0 .. handler'.count - 1
        /\ \A k \in DOMAIN handler'.list : handler'.list[k] \subseteq DirName
    BY <1>1 DEF OpenDirInv, TypeOK
  <2>2. \A t \in Stream : streams'[t] \in Position \cup {Closed}
    BY <1>2 DEF OpenDirInv, TypeOK
  <2> QED
    BY <1>2, <2>1, <2>2 DEF OpenDirInv, TypeOK
<1>5. \A t \in Stream : t # s /\ IsOpen(t) => streams[t].fh \in DOMAIN handler.list \ {fh}
  BY <1>0 DEF OpenDirInv, EachStreamHasItsList
<1>6. EachStreamHasItsList'
  <2>1. {u \in Stream : IsOpen(u)'} = {u \in Stream : IsOpen(u)} \ {s}
    BY <1>3
  <2>2. {streams'[t].fh : t \in {u \in Stream : IsOpen(u)'}}
            = {streams[t].fh : t \in {u \in Stream : IsOpen(u)}} \ {fh}
    BY <1>0, <1>2, <1>5, <2>1
  <2>3. DOMAIN handler'.list = {streams'[t].fh : t \in {u \in Stream : IsOpen(u)'}}
    BY <1>1, <2>2 DEF OpenDirInv, EachStreamHasItsList
  <2>4. \A t, u \in Stream :
            t # u /\ IsOpen(t)' /\ IsOpen(u)' => streams'[t].fh # streams'[u].fh
    BY <1>2, <1>3 DEF OpenDirInv, EachStreamHasItsList
  <2> QED
    BY <2>3, <2>4 DEF EachStreamHasItsList
<1>7. ASSUME NEW t \in Stream, IsOpen(t)' PROVE ListingOK(t)'
  <2>1. t # s
    BY <1>3, <1>7
  <2> QED
    BY <1>1, <1>2, <1>3, <1>5, <1>7, <2>1 DEF OpenDirInv, ListingOK, ListOf
<1> QED
  BY <1>1, <1>2, <1>4, <1>6, <1>7 DEF OpenDirInv

LEMMA ChangeKeeps == ASSUME OpenDirInv, NEW n \in DirName, Change(n) PROVE OpenDirInv'
<1>1. dentry' \subseteq DirName /\ handler' = handler
  BY DEF Change, OpenDirInv, TypeOK
<1>2. streams' = [t \in Stream |-> streams'[t]]
  BY DEF Change, Seen
<1>3. ASSUME NEW t \in Stream, ~IsOpen(t) PROVE streams'[t] = Closed
  BY <1>3 DEF Change, Seen
<1>4. ASSUME NEW t \in Stream, IsOpen(t)
      PROVE  /\ streams'[t] \in Position
             /\ streams'[t].got = streams[t].got /\ streams'[t].offset = streams[t].offset
             /\ streams'[t].ended = streams[t].ended /\ streams'[t].fh = streams[t].fh
             /\ streams'[t].stayed \subseteq streams[t].stayed
             /\ streams[t].seen \subseteq streams'[t].seen
  <2>1. streams[t] \in Position
    BY <1>4 DEF OpenDirInv, TypeOK, IsOpen, Closed
  <2>2. streams'[t] = [streams[t] EXCEPT !.stayed = @ \cap dentry', !.seen = @ \cup dentry']
    BY <1>4 DEF Change, Seen
  <2> QED
    BY <1>1, <2>1, <2>2 DEF Position
<1>5. \A t \in Stream : IsOpen(t)' <=> IsOpen(t)
  <2>1. \A t \in Stream : streams'[t] \in Position => IsOpen(t)'
    BY DEF Position, IsOpen
  <2>2. \A t \in Stream : streams'[t] = Closed => ~IsOpen(t)'
    BY DEF Closed, IsOpen
  <2> QED
    BY <1>3, <1>4, <2>1, <2>2
<1>6. TypeOK'
  <2>1. \A t \in Stream : streams'[t] \in Position \cup {Closed}
    BY <1>3, <1>4
  <2> QED
    BY <1>1, <2>1 DEF OpenDirInv, TypeOK
<1>7. EachStreamHasItsList'
  <2>1. {streams'[t].fh : t \in {u \in Stream : IsOpen(u)'}}
            = {streams[t].fh : t \in {u \in Stream : IsOpen(u)}}
    BY <1>4, <1>5
  <2> QED
    BY <1>1, <1>4, <1>5, <2>1 DEF OpenDirInv, EachStreamHasItsList
<1>8. ASSUME NEW t \in Stream, IsOpen(t)' PROVE ListingOK(t)'
  <2>1. IsOpen(t) /\ ListingOK(t) /\ ListOf(t)' = ListOf(t)
    BY <1>1, <1>4, <1>5, <1>8 DEF OpenDirInv, ListOf
  <2> QED
    BY <1>4, <2>1 DEF ListingOK
<1> QED
  BY <1>1, <1>2, <1>6, <1>7, <1>8 DEF OpenDirInv

LEMMA NextKeeps == OpenDirInv /\ [Next]_vars => OpenDirInv'
<1> SUFFICES ASSUME OpenDirInv, [Next]_vars PROVE OpenDirInv'
  OBVIOUS
<1>1. CASE UNCHANGED vars
  <2>1. TypeOK'
    BY <1>1 DEF vars, OpenDirInv, TypeOK
  <2>2. EachStreamHasItsList'
    BY <1>1, Zenon DEF vars, OpenDirInv, EachStreamHasItsList, IsOpen
  <2>3. \A s \in Stream : (IsOpen(s)' <=> IsOpen(s)) /\ (ListingOK(s)' <=> ListingOK(s))
    BY <1>1 DEF vars, ListingOK, ListOf, IsOpen
  <2> QED
    BY <1>1, <2>1, <2>2, <2>3 DEF vars, OpenDirInv
<1>2. ASSUME NEW s \in Stream, OpenDir(s) \/ ReadDir(s) \/ Rewind(s) \/ ReleaseDir(s)
      PROVE  OpenDirInv'
  BY <1>2, OpenDirKeeps, ReadDirKeeps, RewindKeeps, ReleaseDirKeeps
<1>3. ASSUME NEW n \in DirName, Change(n) PROVE OpenDirInv'
  BY <1>3, ChangeKeeps
<1> QED
  BY <1>1, <1>2, <1>3 DEF Next

LEMMA InvAlways == Spec => []OpenDirInv
BY InitOK, NextKeeps, PTL DEF Spec

---------------------------------------------------------------------------

\* Handles count up, and lists are kept for some of those given out.
THEOREM OpenDirTypeCorrect == Spec => []TypeOK
<1>1. OpenDirInv => TypeOK
  BY DEF OpenDirInv
<1> QED
  BY <1>1, InvAlways, PTL

\* However streams are opened and closed, each has a list of its own, and no list stays
\* behind (opendir and releasedir).
THEOREM EachStreamAlwaysHasItsList == Spec => []EachStreamHasItsList
<1>1. OpenDirInv => EachStreamHasItsList
  BY DEF OpenDirInv
<1> QED
  BY <1>1, InvAlways, PTL

\* A listing read to its end has each name that was there all the time and none that
\* never was, in however many pieces the buffers cut it (readdir).
THEOREM ListingsAreAlwaysComplete == Spec => []ListingsAreComplete
<1>1. OpenDirInv => ListingsAreComplete
  BY DEF OpenDirInv, ListingOK, ListingsAreComplete
<1> QED
  BY <1>1, InvAlways, PTL

\* The offset counts the different names of a listing, so none comes twice (readdir).
THEOREM NothingEverTwice == Spec => []NothingTwice
<1>1. OpenDirInv => NothingTwice
  BY DEF OpenDirInv, ListingOK, NothingTwice
<1> QED
  BY <1>1, InvAlways, PTL
====
