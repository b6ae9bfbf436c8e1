---- MODULE FileDataProofs ----
(***************************************************************************)
(* Proofs about FileData: what read answers, and that rows, size and the   *)
(* write under way are a byte file, for every size of a block and all      *)
(* files and requests below WIDTH, where offsets and sizes are cut.        *)
(***************************************************************************)
EXTENDS FileData, WellFoundedInduction, SequenceTheorems, TLAPS

---------------------------------------------------------------------------
(* Blocks and the bytes in them *)

LEMMA DivMod ==
    ASSUME NEW n \in Nat, NEW d \in Nat \ {0}
    PROVE  n \div d \in Nat /\ n % d \in 0 .. d - 1 /\ n = (n \div d) * d + (n % d)
<1>1. n % d \in 0 .. d - 1
  OBVIOUS
<1>2. n \div d \in Int
  OBVIOUS
<1>4. n \div d >= 0
  OBVIOUS
<1>5. n = (n \div d) * d + (n % d)
  OBVIOUS
<1> QED
  BY <1>1, <1>2, <1>4, <1>5

\* Multiples of a number lie at least that number apart.
LEMMA Multiples ==
    ASSUME NEW d \in Nat \ {0}, NEW a \in Int, NEW b \in Int, a < b
    PROVE  a * d \in Int /\ b * d \in Int /\ a * d + d <= b * d
<1>1. PICK c \in Nat : b = a + 1 + c
  <2>1. b - a - 1 \in Nat /\ b = a + 1 + (b - a - 1)
    OBVIOUS
  <2> QED
    BY <2>1
<1>2. c * d >= 0
  OBVIOUS
<1>3. (a + 1 + c) * d = a * d + d + c * d
  OBVIOUS
<1>4. a * d \in Int /\ c * d \in Int
  OBVIOUS
<1>5. b * d = a * d + d + c * d
  BY <1>1, <1>3
<1> QED
  BY <1>2, <1>4, <1>5

LEMMA DivModUnique ==
    ASSUME NEW d \in Nat \ {0}, NEW q \in Nat, NEW r \in 0 .. d - 1, NEW n \in Nat, n = q * d + r
    PROVE  n \div d = q /\ n % d = r
<1>1. PICK p \in Nat, s \in 0 .. d - 1 : p = n \div d /\ s = n % d /\ n = p * d + s
  BY DivMod
<1>3. p * d \in Int /\ q * d \in Int
  OBVIOUS
<1>4. ~(p < q) /\ ~(q < p)
  BY <1>1, <1>3, Multiples
<1>5. p = q
  BY <1>4
<1>6. s = r
  BY <1>1, <1>3, <1>5
<1> QED
  BY <1>1, <1>5, <1>6

\* The block and the place in it of an offset, as write, read and release_data
\* compute them
LEMMA BlockOf ==
    ASSUME NEW at \in Nat, NEW b \in Nat \ {0}
    PROVE  /\ at \div BLOCK + 1 = b <=> at \in (b - 1) * BLOCK .. (b - 1) * BLOCK + BLOCK - 1
           /\ at \div BLOCK + 1 = b => at = (b - 1) * BLOCK + (at % BLOCK)
           /\ at \div BLOCK \in Nat /\ at % BLOCK \in 0 .. BLOCK - 1
           /\ (b - 1) * BLOCK \in Nat
<1>1. BLOCK \in Nat \ {0}
  BY BlockAssumption
<1>2. PICK q \in Nat, r \in 0 .. BLOCK - 1 :
        q = at \div BLOCK /\ r = at % BLOCK /\ at = q * BLOCK + r
  BY <1>1, DivMod
<1>3. (b - 1) * BLOCK \in Nat
  BY <1>1
<1>4. ASSUME q + 1 = b PROVE at = (b - 1) * BLOCK + r
  BY <1>2, <1>4
<1>5. ASSUME at \in (b - 1) * BLOCK .. (b - 1) * BLOCK + BLOCK - 1 PROVE q + 1 = b
  <2>1. at - (b - 1) * BLOCK \in 0 .. BLOCK - 1
    BY <1>1, <1>3, <1>5
  <2>2. at = (b - 1) * BLOCK + (at - (b - 1) * BLOCK)
    BY <1>3
  <2>3. b - 1 \in Nat
    OBVIOUS
  <2>4. at \div BLOCK = b - 1
    BY <2>1, <2>2, <2>3, <1>1, DivModUnique
  <2> QED
    BY <2>4, <1>2
<1> QED
  BY <1>1, <1>2, <1>3, <1>4, <1>5

\* The pieces a write of n bytes at an offset o is cut into: block i gets the bytes
\* from place from to place to, which stand from index at on in the request.  They
\* follow each other without a gap, and the last one ends with the request.
IsPiece(o, n, i, from, to, at) ==
    /\ from \in 0 .. BLOCK - 1 /\ to \in 1 .. BLOCK /\ from < to
    /\ at \in Nat
    /\ (i - 1) * BLOCK \in Nat
    /\ (i - 1) * BLOCK + from = o + at
    /\ i = (o + n - 1) \div BLOCK + 1 => at + to - from = n
    /\ i # (o + n - 1) \div BLOCK + 1 => at + to - from < n
    /\ (i - (o \div BLOCK + 1)) * BLOCK + BLOCK - (o % BLOCK) = at + BLOCK - from

LEMMA Pieces ==
    ASSUME NEW o \in Nat, NEW n \in Nat \ {0},
           NEW i \in (o \div BLOCK + 1) .. ((o + n - 1) \div BLOCK + 1),
           NEW from, from = IF i = o \div BLOCK + 1 THEN o % BLOCK ELSE 0,
           NEW to, to = IF i = (o + n - 1) \div BLOCK + 1
                        THEN ((o + n - 1) % BLOCK) + 1 ELSE BLOCK,
           NEW at, at = IF i > o \div BLOCK + 1
                        THEN (i - (o \div BLOCK + 1) - 1) * BLOCK + BLOCK - (o % BLOCK)
                        ELSE 0
    PROVE  IsPiece(o, n, i, from, to, at)
<1>1. BLOCK \in Nat \ {0}
  BY BlockAssumption
<1>2. PICK q \in Nat, r \in 0 .. BLOCK - 1 :
        q = o \div BLOCK /\ r = o % BLOCK /\ o = q * BLOCK + r
  BY <1>1, DivMod
<1>3. o + n - 1 \in Nat
  OBVIOUS
<1>4. PICK p \in Nat, s \in 0 .. BLOCK - 1 :
        /\ p = (o + n - 1) \div BLOCK /\ s = (o + n - 1) % BLOCK
        /\ o + n - 1 = p * BLOCK + s
  BY <1>1, <1>3, DivMod
<1>5. i \in Nat \ {0} /\ q + 1 <= i /\ i <= p + 1
  BY <1>2, <1>4
<1>6. /\ from = IF i = q + 1 THEN r ELSE 0
      /\ to = IF i = p + 1 THEN s + 1 ELSE BLOCK
      /\ at = IF i > q + 1 THEN (i - (q + 1) - 1) * BLOCK + BLOCK - r ELSE 0
  BY <1>2, <1>4
<1> DEFINE iB == (i - 1) * BLOCK
           qB == q * BLOCK
           pB == p * BLOCK
           aB == (i - (q + 1) - 1) * BLOCK
           cB == (i - (q + 1)) * BLOCK
<1>7. iB \in Nat /\ qB \in Nat /\ pB \in Nat /\ aB \in Int /\ cB \in Int
  BY <1>1, <1>5
<1>8. /\ iB = qB + cB /\ cB = aB + BLOCK
      /\ (i - 1) * BLOCK = iB /\ o = qB + r /\ o + n - 1 = pB + s
      /\ (i - (q + 1)) * BLOCK = cB
      /\ at = IF i > q + 1 THEN aB + BLOCK - r ELSE 0
      /\ i = q + 1 => iB = qB
      /\ i = p + 1 => iB = pB
  BY <1>1, <1>2, <1>4, <1>5, <1>6
<1>9. i > q + 1 => qB + BLOCK <= iB
  BY <1>1, <1>5, Multiples
<1>10. i < p + 1 => iB + BLOCK <= pB
  BY <1>1, <1>5, Multiples
<1>11. /\ i = (o + n - 1) \div BLOCK + 1 <=> i = p + 1
       /\ (i - (o \div BLOCK + 1)) * BLOCK = cB /\ o % BLOCK = r
  BY <1>2, <1>4, <1>8
<1> HIDE DEF iB, qB, pB, aB, cB
<1>12. from \in 0 .. BLOCK - 1 /\ to \in 1 .. BLOCK
  BY <1>1, <1>6
<1>13. from < to
  <2>1. CASE i = q + 1 /\ i = p + 1
    <3>1. s = r + n - 1
      <4>1. qB = pB /\ qB \in Nat /\ o = qB + r /\ o + n - 1 = pB + s
        BY <2>1, <1>7, <1>8
      <4> QED
        BY <4>1
    <3> QED
      BY <3>1, <2>1, <1>6
  <2>2. CASE ~(i = q + 1 /\ i = p + 1)
    BY <2>2, <1>1, <1>6
  <2> QED
    BY <2>1, <2>2
<1>14. at \in Nat /\ iB + from = o + at
  BY <1>1, <1>5, <1>6, <1>7, <1>8, <1>9
<1>15. i = p + 1 => at + to - from = n
  BY <1>1, <1>6, <1>7, <1>8, <1>14
<1>16. i # p + 1 => at + to - from < n
  BY <1>1, <1>5, <1>6, <1>7, <1>8, <1>10, <1>12, <1>14
<1>17. cB + BLOCK - r = at + BLOCK - from
  BY <1>1, <1>5, <1>6, <1>7, <1>8, <1>14
<1> QED
  BY <1>7, <1>8, <1>11, <1>12, <1>13, <1>14, <1>15, <1>16, <1>17 DEF IsPiece

---------------------------------------------------------------------------
(* Blobs *)

\* The byte at a place of a blob, zero behind its end
PlaceOf(s, k) == IF k < Len(s) THEN s[k + 1] ELSE 0

LEMMA Tuple ==
    ASSUME NEW S, NEW n \in Nat, NEW s \in [1 .. n -> S]
    PROVE  s \in Seq(S) /\ Len(s) = n /\ DOMAIN s = 1 .. n
OBVIOUS

LEMMA BlobFacts ==
    ASSUME NEW s \in Blob
    PROVE  s \in Seq(Byte) /\ Len(s) \in 1 .. BLOCK /\ DOMAIN s = 1 .. Len(s)
<1>1. PICK n \in 1 .. BLOCK : s \in [1 .. n -> Byte]
  BY DEF Blob
<1>2. n \in Nat
  BY BlockAssumption
<1> QED
  BY <1>1, <1>2, Tuple

LEMMA BlobFrom ==
    ASSUME NEW s \in Seq(Byte), Len(s) \in 1 .. BLOCK
    PROVE  s \in Blob
<1>1. s \in [1 .. Len(s) -> Byte]
  BY LenProperties
<1> QED
  BY <1>1 DEF Blob

LEMMA PayloadFacts ==
    ASSUME NEW s \in Payload
    PROVE  s \in Seq(Byte) /\ Len(s) \in 1 .. MaxWrite /\ DOMAIN s = 1 .. Len(s)
<1>1. PICK n \in 1 .. MaxWrite : s \in [1 .. n -> Byte]
  BY DEF Payload
<1>2. n \in Nat
  BY BoundsAssumption
<1> QED
  BY <1>1, <1>2, Tuple

\* Vec::resize keeps the bytes there is room for and continues with zeros.
LEMMA ResizeFacts ==
    ASSUME NEW s \in Seq(Byte), NEW n \in Nat
    PROVE  /\ Resize(s, n) \in Seq(Byte) /\ Len(Resize(s, n)) = n
           /\ \A k \in 1 .. n : Resize(s, n)[k] = IF k <= Len(s) THEN s[k] ELSE 0
           /\ \A k \in Nat : PlaceOf(Resize(s, n), k) = IF k < n THEN PlaceOf(s, k) ELSE 0
<1>1. \A k \in 1 .. n : (IF k <= Len(s) THEN s[k] ELSE 0) \in Byte
  <2>1. TAKE k \in 1 .. n
  <2>2. k <= Len(s) => s[k] \in Byte
    BY ElementOfSeq, LenProperties
  <2> QED
    BY <2>2, FileByteAssumption
<1>2. Resize(s, n) \in [1 .. n -> Byte]
  BY <1>1 DEF Resize
<1>3. Resize(s, n) \in Seq(Byte) /\ Len(Resize(s, n)) = n
  BY <1>2, Tuple
<1>4. \A k \in 1 .. n : Resize(s, n)[k] = IF k <= Len(s) THEN s[k] ELSE 0
  BY DEF Resize
<1>5. Len(s) \in Nat
  BY LenProperties
<1>6. ASSUME NEW k \in Nat PROVE PlaceOf(Resize(s, n), k) = IF k < n THEN PlaceOf(s, k) ELSE 0
  <2>1. CASE k < n
    <3>1. k + 1 \in 1 .. n
      BY <2>1
    <3>2. Resize(s, n)[k + 1] = IF k + 1 <= Len(s) THEN s[k + 1] ELSE 0
      BY <3>1, <1>4
    <3> QED
      BY <2>1, <3>2, <1>3, <1>5 DEF PlaceOf
  <2>2. CASE ~(k < n)
    BY <2>2, <1>3 DEF PlaceOf
  <2> QED
    BY <2>1, <2>2
<1> QED
  BY <1>3, <1>4, <1>6

LEMMA AtLeastFacts ==
    ASSUME NEW s \in Seq(Byte), NEW n \in Nat
    PROVE  /\ AtLeast(s, n) \in Seq(Byte)
           /\ Len(AtLeast(s, n)) = IF Len(s) < n THEN n ELSE Len(s)
           /\ \A k \in 0 .. n - 1 : AtLeast(s, n)[k + 1] = PlaceOf(s, k)
<1>1. Len(s) \in Nat
  BY LenProperties
<1>2. CASE Len(s) < n
  <2>1. AtLeast(s, n) = Resize(s, n)
    BY <1>2 DEF AtLeast
  <2>2. ASSUME NEW k \in 0 .. n - 1 PROVE Resize(s, n)[k + 1] = PlaceOf(s, k)
    <3>1. k + 1 \in 1 .. n
      OBVIOUS
    <3>2. Resize(s, n)[k + 1] = IF k + 1 <= Len(s) THEN s[k + 1] ELSE 0
      BY <3>1, ResizeFacts
    <3> QED
      BY <3>2, <1>1 DEF PlaceOf
  <2> QED
    BY <1>2, <2>1, <2>2, ResizeFacts
<1>3. CASE ~(Len(s) < n)
  BY <1>1, <1>3 DEF AtLeast, PlaceOf
<1> QED
  BY <1>2, <1>3

\* The part of a sequence behind its first m elements, up to its n-th
LEMMA Cut ==
    ASSUME NEW S, NEW s \in Seq(S), NEW m \in Nat, NEW n \in Nat, m <= n, n <= Len(s)
    PROVE  /\ SubSeq(s, m + 1, n) \in Seq(S) /\ Len(SubSeq(s, m + 1, n)) = n - m
           /\ \A k \in 1 .. n - m : SubSeq(s, m + 1, n)[k] = s[m + k]
<1>1. m + 1 \in Int /\ n \in Int /\ Len(s) \in Nat
  BY LenProperties
<1>2. \A k \in m + 1 .. n : s[k] \in S
  BY <1>1, ElementOfSeq
<1>3. PICK a \in Int : a = m + 1
  BY <1>1
<1>4. /\ SubSeq(s, a, n) \in Seq(S)
      /\ Len(SubSeq(s, a, n)) = IF a <= n THEN n - a + 1 ELSE 0
      /\ \A k \in 1 .. n - a + 1 : SubSeq(s, a, n)[k] = s[a + k - 1]
  BY <1>1, <1>2, <1>3, SubSeqProperties
<1>5. n - a + 1 = n - m /\ (IF a <= n THEN n - a + 1 ELSE 0) = n - m
  BY <1>3
<1>6. \A k \in 1 .. n - m : a + k - 1 = m + k
  BY <1>3
<1> QED
  BY <1>3, <1>4, <1>5, <1>6

LEMMA Join ==
    ASSUME NEW S, NEW s \in Seq(S), NEW t \in Seq(S)
    PROVE  /\ s \o t \in Seq(S) /\ Len(s \o t) = Len(s) + Len(t)
           /\ \A k \in 1 .. Len(s) : (s \o t)[k] = s[k]
           /\ \A k \in 1 .. Len(t) : (s \o t)[Len(s) + k] = t[k]
<1>1. PICK m \in Nat, n \in Nat : m = Len(s) /\ n = Len(t)
  BY LenProperties
<1>2. /\ s \o t \in Seq(S) /\ Len(s \o t) = m + n
      /\ \A k \in 1 .. m + n : (s \o t)[k] = IF k <= m THEN s[k] ELSE t[k - m]
  BY <1>1, ConcatProperties
<1>3. ASSUME NEW k \in 1 .. n PROVE (s \o t)[m + k] = t[k]
  <2>1. m + k \in 1 .. m + n /\ ~(m + k <= m) /\ m + k - m = k
    OBVIOUS
  <2>2. (s \o t)[m + k] = t[m + k - m]
    BY <2>1, <1>2
  <2> QED
    BY <2>1, <2>2
<1> QED
  BY <1>1, <1>2, <1>3

\* v is s, then t, then u
Joined(v, s, t, u) ==
    /\ Len(v) = Len(s) + Len(t) + Len(u)
    /\ \A k \in 1 .. Len(s) : v[k] = s[k]
    /\ \A k \in 1 .. Len(t) : v[Len(s) + k] = t[k]
    /\ \A k \in 1 .. Len(u) : v[Len(s) + Len(t) + k] = u[k]

LEMMA JoinThree ==
    ASSUME NEW S, NEW s \in Seq(S), NEW t \in Seq(S), NEW u \in Seq(S)
    PROVE  s \o t \o u \in Seq(S) /\ Joined(s \o t \o u, s, t, u)
<1>1. PICK l \in Nat, m \in Nat, n \in Nat : l = Len(s) /\ m = Len(t) /\ n = Len(u)
  BY LenProperties
<1>2. PICK d : d = s \o t
  OBVIOUS
<1>3. /\ d \in Seq(S) /\ Len(d) = l + m
      /\ \A k \in 1 .. l : d[k] = s[k]
      /\ \A k \in 1 .. m : d[l + k] = t[k]
  BY <1>1, <1>2, Join
<1>4. /\ d \o u \in Seq(S) /\ Len(d \o u) = Len(d) + Len(u)
      /\ \A k \in 1 .. Len(d) : (d \o u)[k] = d[k]
      /\ \A k \in 1 .. Len(u) : (d \o u)[Len(d) + k] = u[k]
  <2>1. d \in Seq(S)
    BY <1>3
  <2> QED
    BY <2>1, Join
<1>5. ASSUME NEW k \in 1 .. l PROVE (d \o u)[k] = s[k]
  <2>1. k \in 1 .. Len(d)
    BY <1>1, <1>3
  <2> QED
    BY <2>1, <1>3, <1>4
<1>6. ASSUME NEW k \in 1 .. m PROVE (d \o u)[l + k] = t[k]
  <2>1. l + k \in 1 .. Len(d)
    BY <1>1, <1>3
  <2> QED
    BY <2>1, <1>3, <1>4
<1> QED
  BY <1>1, <1>2, <1>3, <1>4, <1>5, <1>6 DEF Joined

\* Bytes of a request between the head and the tail of a block
\* s is pre with the bytes from index at on in the places from .. to - 1
Spliced(s, pre, bytes, from, to, at) ==
    /\ s \in Seq(Byte) /\ Len(s) = BLOCK
    /\ \A k \in 0 .. BLOCK - 1 :
         s[k + 1] = IF from <= k /\ k < to THEN bytes[at + (k - from) + 1] ELSE pre[k + 1]

\* s is the n elements of u behind index m
IsPart(s, n, u, m) ==
    /\ s \in Seq(Byte) /\ Len(s) = n
    /\ \A k \in 1 .. n : s[k] = u[m + k]

LEMMA CutBytes ==
    ASSUME NEW s \in Seq(Byte), NEW m \in Nat, NEW n \in Nat, m <= n, n <= Len(s)
    PROVE  IsPart(SubSeq(s, m + 1, n), n - m, s, m)
BY Cut DEF IsPart

LEMMA PlaceInParts ==
    ASSUME NEW from \in 0 .. BLOCK - 1, NEW to \in 1 .. BLOCK, from < to, NEW at \in Nat,
           NEW k \in 0 .. BLOCK - 1
    PROVE  /\ k < from => k + 1 \in 1 .. from /\ 0 + (k + 1) = k + 1 /\ ~(from <= k)
           /\ from <= k /\ k < to =>
                /\ k - from + 1 \in 1 .. to - from
                /\ from + (k - from + 1) = k + 1
                /\ at + (k - from + 1) = at + (k - from) + 1
           /\ to <= k =>
                /\ k + 1 - to \in 1 .. BLOCK - to
                /\ to + (k + 1 - to) = k + 1
                /\ ~(k < to)
           /\ k < from \/ (from <= k /\ k < to) \/ to <= k
BY BlockAssumption

LEMMA SplicePieces ==
    ASSUME NEW pre, NEW bytes,
           NEW from \in 0 .. BLOCK - 1, NEW to \in 1 .. BLOCK, from < to, NEW at \in Nat,
           NEW a, IsPart(a, from, pre, 0),
           NEW b, IsPart(b, to - from, bytes, at),
           NEW c, IsPart(c, BLOCK - to, pre, to),
           NEW s, s = a \o b \o c
    PROVE  Spliced(s, pre, bytes, from, to, at)
<1>1. a \in Seq(Byte) /\ b \in Seq(Byte) /\ c \in Seq(Byte)
  BY DEF IsPart
<1>2. s \in Seq(Byte) /\ Joined(s, a, b, c)
  BY <1>1, JoinThree
<1>3. Len(a) = from /\ Len(b) = to - from /\ Len(c) = BLOCK - to
  BY DEF IsPart
<1>4. from + (to - from) + (BLOCK - to) = BLOCK /\ from + (to - from) = to
  BY BlockAssumption
<1>5. Len(s) = BLOCK
  BY <1>2, <1>3, <1>4 DEF Joined
<1>6. \A k \in 1 .. from : s[k] = pre[0 + k]
  BY <1>2, <1>3 DEF Joined, IsPart
<1>7. \A k \in 1 .. to - from : s[from + k] = bytes[at + k]
  BY <1>2, <1>3 DEF Joined, IsPart
<1>8. \A k \in 1 .. BLOCK - to : s[to + k] = pre[to + k]
  <2>1. \A k \in 1 .. Len(c) : s[Len(a) + Len(b) + k] = c[k]
    BY <1>2 DEF Joined
  <2>2. Len(a) + Len(b) = to
    BY <1>3, <1>4
  <2> QED
    BY <2>1, <2>2, <1>3 DEF IsPart
<1>9. ASSUME NEW k \in 0 .. BLOCK - 1
      PROVE  s[k + 1] = IF from <= k /\ k < to THEN bytes[at + (k - from) + 1] ELSE pre[k + 1]
  <2>1. CASE k < from
    <3>1. k + 1 \in 1 .. from /\ 0 + (k + 1) = k + 1 /\ ~(from <= k)
      BY <2>1, PlaceInParts
    <3>2. s[k + 1] = pre[0 + (k + 1)]
      BY <3>1, <1>6
    <3> QED
      BY <3>1, <3>2, Zenon
  <2>2. CASE from <= k /\ k < to
    <3>1. /\ k - from + 1 \in 1 .. to - from
          /\ from + (k - from + 1) = k + 1
          /\ at + (k - from + 1) = at + (k - from) + 1
      BY <2>2, PlaceInParts
    <3>2. s[from + (k - from + 1)] = bytes[at + (k - from + 1)]
      BY <3>1, <1>7
    <3> QED
      BY <3>1, <3>2, <2>2, Zenon
  <2>3. CASE to <= k
    <3>1. k + 1 - to \in 1 .. BLOCK - to /\ to + (k + 1 - to) = k + 1 /\ ~(k < to)
      BY <2>3, PlaceInParts
    <3>2. s[to + (k + 1 - to)] = pre[to + (k + 1 - to)]
      BY <3>1, <1>8
    <3> QED
      BY <3>1, <3>2, Zenon
  <2> QED
    BY <2>1, <2>2, <2>3, PlaceInParts
<1> QED
  BY <1>2, <1>5, <1>9 DEF Spliced

LEMMA Splice ==
    ASSUME NEW pre \in Seq(Byte), Len(pre) = BLOCK, NEW bytes \in Seq(Byte),
           NEW from \in 0 .. BLOCK - 1, NEW to \in 1 .. BLOCK, from < to,
           NEW at \in Nat, at + to - from <= Len(bytes),
           NEW s, s = SubSeq(pre, 1, from) \o SubSeq(bytes, at + 1, at + to - from)
                          \o SubSeq(pre, to + 1, BLOCK)
    PROVE  Spliced(s, pre, bytes, from, to, at)
<1>1. /\ BLOCK \in Nat \ {0} /\ Len(bytes) \in Nat /\ from \in Nat /\ to \in Nat
      /\ to - from \in Nat /\ BLOCK - to \in Nat /\ at + to - from \in Nat
      /\ at <= at + to - from /\ from + (to - from) = to /\ to + (BLOCK - to) = BLOCK
      /\ (at + to - from) - at = to - from
  BY BlockAssumption, LenProperties
<1>2. PICK a : a = SubSeq(pre, 1, from)
  OBVIOUS
<1>3. PICK b : b = SubSeq(bytes, at + 1, at + to - from)
  OBVIOUS
<1>4. PICK c : c = SubSeq(pre, to + 1, BLOCK)
  OBVIOUS
<1>5. IsPart(a, from, pre, 0)
  <2>1. a = SubSeq(pre, 0 + 1, from) /\ from - 0 = from
    BY <1>1, <1>2
  <2>2. 0 \in Nat /\ from \in Nat /\ 0 <= from /\ from <= Len(pre)
    BY <1>1
  <2>3. IsPart(SubSeq(pre, 0 + 1, from), from - 0, pre, 0)
    BY <2>2, CutBytes
  <2> QED
    BY <2>1, <2>3, Zenon
<1>6. IsPart(b, to - from, bytes, at)
  <2>1. PICK n \in Nat : n = at + to - from
    BY <1>1
  <2>2. at <= n /\ n <= Len(bytes) /\ n - at = to - from
    BY <2>1, <1>1
  <2>3. IsPart(SubSeq(bytes, at + 1, n), n - at, bytes, at)
    BY <2>2, CutBytes
  <2> QED
    BY <2>1, <2>2, <2>3, <1>3, Zenon
<1>7. IsPart(c, BLOCK - to, pre, to)
  <2>1. to <= BLOCK /\ BLOCK <= Len(pre) /\ BLOCK \in Nat /\ to \in Nat
    BY <1>1
  <2>2. IsPart(SubSeq(pre, to + 1, BLOCK), BLOCK - to, pre, to)
    BY <2>1, CutBytes
  <2> QED
    BY <2>2, <1>4, Zenon
<1>8. s = a \o b \o c
  BY <1>2, <1>3, <1>4
<1> QED
  BY <1>5, <1>6, <1>7, <1>8, SplicePieces

---------------------------------------------------------------------------
(* Requests *)

\* The files and requests of the instance stay below 4 GiB.
Below4GiB == MaxSize < WIDTH

LEMMA Constants ==
    /\ BLOCK \in Nat \ {0} /\ WIDTH \in Nat \ {0} /\ 0 \in Byte
    /\ MaxOffset \in Nat /\ MaxWrite \in Nat \ {0}
    /\ MaxSize \in Nat \ {0} /\ MaxSize = MaxOffset + MaxWrite
BY BlockAssumption, WidthAssumption, FileByteAssumption, BoundsAssumption DEF MaxSize

LEMMA Fits ==
    ASSUME NEW n \in Nat, n < WIDTH
    PROVE  u32(n) = n
<1>1. n = 0 * WIDTH + n /\ n \in 0 .. WIDTH - 1 /\ 0 \in Nat
  BY Constants
<1> QED
  BY <1>1, Constants, DivModUnique DEF u32

IsRequest(w) == w.offset \in Offset /\ w.bytes \in Payload

LEMMA Request ==
    ASSUME Below4GiB, NEW w, IsRequest(w)
    PROVE  /\ w.offset \in Nat /\ w.bytes \in Seq(Byte) /\ Len(w.bytes) \in Nat \ {0}
           /\ w.offset + Len(w.bytes) <= MaxSize
           /\ u32(w.offset) = w.offset
           /\ LastByte(w) = w.offset + Len(w.bytes) - 1
           /\ start_block(w) = w.offset \div BLOCK + 1
           /\ end_block(w) = (w.offset + Len(w.bytes) - 1) \div BLOCK + 1
           /\ start_block(w) \in Nat \ {0} /\ end_block(w) \in Nat
           /\ start_block(w) <= end_block(w) /\ end_block(w) <= MaxSize
<1>1. w.offset \in 0 .. MaxOffset /\ w.bytes \in Seq(Byte) /\ Len(w.bytes) \in 1 .. MaxWrite
  BY PayloadFacts DEF IsRequest, Offset
<1>2. /\ w.offset \in Nat /\ Len(w.bytes) \in Nat \ {0}
      /\ w.offset + Len(w.bytes) <= MaxSize
      /\ w.offset < WIDTH
      /\ w.offset + Len(w.bytes) - 1 \in Nat /\ w.offset + Len(w.bytes) - 1 < WIDTH
  BY <1>1, Constants DEF Below4GiB
<1>3. u32(w.offset) = w.offset
  BY <1>2, Fits
<1>4. LastByte(w) = w.offset + Len(w.bytes) - 1
  BY <1>2, <1>3, Fits DEF LastByte
<1>5. /\ start_block(w) = w.offset \div BLOCK + 1
      /\ end_block(w) = (w.offset + Len(w.bytes) - 1) \div BLOCK + 1
  BY <1>3, <1>4 DEF start_block, end_block
<1>6. PICK o \in Nat, l \in Nat : o = w.offset /\ l = w.offset + Len(w.bytes) - 1 /\ o <= l
  BY <1>2
<1>7. PICK q \in Nat, r \in 0 .. BLOCK - 1 : q = o \div BLOCK /\ o = q * BLOCK + r
  BY Constants, DivMod
<1>8. PICK p \in Nat, s \in 0 .. BLOCK - 1 : p = l \div BLOCK /\ l = p * BLOCK + s
  BY Constants, DivMod
<1>9. q <= p
  <2>1. PICK pB \in Nat, qB \in Nat : pB = p * BLOCK /\ qB = q * BLOCK
    BY Constants
  <2>2. p < q => pB + BLOCK <= qB
    BY <2>1, Constants, Multiples
  <2>3. qB + r <= pB + s
    BY <2>1, <1>6, <1>7, <1>8
  <2> QED
    BY <2>2, <2>3, Constants
<1>10. p <= l
  <2>1. p <= p * BLOCK /\ p * BLOCK \in Int
    BY Constants
  <2> QED
    BY <2>1, <1>8, Constants
<1>11. p + 1 <= MaxSize
  BY <1>2, <1>6, <1>10, Constants
<1>12. start_block(w) = q + 1 /\ end_block(w) = p + 1
  BY <1>5, <1>6, <1>7, <1>8
<1> QED
  BY <1>1, <1>2, <1>3, <1>4, <1>5, <1>9, <1>11, <1>12

\* What WriteBlock does with block w.i of the request
LEMMA Piece ==
    ASSUME Below4GiB, NEW w, IsRequest(w), w.i \in start_block(w) .. end_block(w)
    PROVE  /\ w.i \in Nat \ {0} /\ (w.i - 1) * BLOCK \in Nat
           /\ b_start_index(w) \in 0 .. BLOCK - 1 /\ b_end_index(w) \in 1 .. BLOCK
           /\ b_start_index(w) < b_end_index(w)
           /\ data_offset(w) \in Nat
           /\ (w.i - 1) * BLOCK + b_start_index(w) = w.offset + data_offset(w)
           /\ w.i = end_block(w) =>
                data_offset(w) + b_end_index(w) - b_start_index(w) = Len(w.bytes)
           /\ w.i # end_block(w) =>
                /\ data_offset(w) + b_end_index(w) - b_start_index(w) < Len(w.bytes)
                /\ (w.i - start_block(w)) * BLOCK + BLOCK - (w.offset % BLOCK)
                     = data_offset(w) + b_end_index(w) - b_start_index(w)
           /\ u32((w.i - 1) * BLOCK + b_end_index(w)) = (w.i - 1) * BLOCK + b_end_index(w)
           /\ (w.i - 1) * BLOCK + b_end_index(w) <= MaxSize
<1>1. PICK o \in Nat, n \in Nat \ {0}, i \in {w.i} :
        o = w.offset /\ n = Len(w.bytes) /\ i = w.i /\ o + n <= MaxSize
  BY Request
<1>2. PICK from, to, at : from = b_start_index(w) /\ to = b_end_index(w) /\ at = data_offset(w)
  OBVIOUS
<1>3. start_block(w) = o \div BLOCK + 1 /\ end_block(w) = (o + n - 1) \div BLOCK + 1
  BY <1>1, Request
<1>4. i \in (o \div BLOCK + 1) .. ((o + n - 1) \div BLOCK + 1)
  BY <1>1, <1>3
<1>5. /\ from = IF i = o \div BLOCK + 1 THEN o % BLOCK ELSE 0
      /\ to = IF i = (o + n - 1) \div BLOCK + 1
              THEN ((o + n - 1) % BLOCK) + 1 ELSE BLOCK
      /\ at = IF i > o \div BLOCK + 1
              THEN (i - (o \div BLOCK + 1) - 1) * BLOCK + BLOCK - (o % BLOCK) ELSE 0
  BY <1>1, <1>2, <1>3, Request DEF b_start_index, b_end_index, data_offset
<1>6. IsPiece(o, n, i, from, to, at)
  BY <1>4, <1>5, Pieces
<1>7. i \in Nat \ {0}
  <2>1. start_block(w) \in Nat \ {0} /\ end_block(w) \in Nat /\ i \in start_block(w) .. end_block(w)
    BY <1>1, Request
  <2> QED
    BY <2>1
<1>8. PICK base \in Nat : base = (i - 1) * BLOCK
  BY <1>6 DEF IsPiece
<1>9. base + to \in Nat /\ base + to <= MaxSize
  <2>1. base + from = o + at /\ at + to - from <= n
    <3>1. base + from = o + at
      BY <1>6, <1>8 DEF IsPiece
    <3>2. /\ i = (o + n - 1) \div BLOCK + 1 => at + to - from = n
          /\ i # (o + n - 1) \div BLOCK + 1 => at + to - from < n
          /\ at \in Nat /\ from \in 0 .. BLOCK - 1 /\ to \in 1 .. BLOCK
      BY <1>6 DEF IsPiece
    <3>3. at + to - from = n \/ at + to - from < n
      BY <3>2, Zenon
    <3>4. at + to - from \in Int
      BY <3>2, Constants
    <3> QED
      BY <3>1, <3>3, <3>4
  <2>2. from \in Nat /\ to \in Nat /\ at \in Nat
    BY <1>6, Constants DEF IsPiece
  <2>3. o + n <= MaxSize /\ MaxSize \in Nat
    BY <1>1, Constants
  <2>4. base + to <= MaxSize
    BY <2>1, <2>2, <2>3
  <2> QED
    BY <2>2, <2>4
<1>10. u32(base + to) = base + to
  BY <1>9, Fits, Constants DEF Below4GiB
<1>11. i # (o + n - 1) \div BLOCK + 1 => to = BLOCK
  BY <1>5
<1> QED
  BY <1>1, <1>2, <1>3, <1>6, <1>7, <1>8, <1>9, <1>10, <1>11 DEF IsPiece

---------------------------------------------------------------------------
(* Rows and the bytes they hold *)

RowsOK ==
    /\ DOMAIN data \subseteq 1 .. MaxSize + 1
    /\ \A b \in DOMAIN data : data[b] \in Blob

LEMMA RowFacts ==
    ASSUME RowsOK, NEW b
    PROVE  get_data(b) \in Seq(Byte) /\ Len(get_data(b)) \in 1 .. BLOCK
<1>1. CASE b \in DOMAIN data
  BY <1>1, BlobFacts DEF RowsOK, get_data
<1>2. CASE b \notin DOMAIN data
  <2>1. <<>> \in Seq(Byte) /\ BLOCK \in Nat
    BY EmptySeq, Constants
  <2>2. Resize(<<>>, BLOCK) \in Seq(Byte) /\ Len(Resize(<<>>, BLOCK)) = BLOCK
    BY <2>1, ResizeFacts
  <2> QED
    BY <1>2, <2>2, Constants DEF get_data
<1> QED
  BY <1>1, <1>2

LEMMA ByteIsPlace ==
    ASSUME NEW at \in Nat
    PROVE  /\ ByteAt(at) = PlaceOf(get_data(at \div BLOCK + 1), at % BLOCK)
           /\ ByteAt(at)' = PlaceOf(get_data(at \div BLOCK + 1)', at % BLOCK)
BY DEF ByteAt, PlaceOf

LEMMA NoRow ==
    ASSUME NEW k \in Nat
    PROVE  PlaceOf(Resize(<<>>, BLOCK), k) = 0
<1>1. <<>> \in Seq(Byte) /\ BLOCK \in Nat /\ Len(<<>>) = 0
  BY EmptySeq, Constants
<1>2. PlaceOf(Resize(<<>>, BLOCK), k) = IF k < BLOCK THEN PlaceOf(<<>>, k) ELSE 0
  BY <1>1, ResizeFacts
<1>3. PlaceOf(<<>>, k) = 0
  BY <1>1 DEF PlaceOf
<1> QED
  BY <1>2, <1>3

LEMMA BytesAreBytes ==
    ASSUME RowsOK, NEW at \in Nat
    PROVE  ByteAt(at) \in Byte
<1>1. at % BLOCK \in Nat
  BY Constants, DivMod
<1>2. PICK s \in Seq(Byte) : s = get_data(at \div BLOCK + 1)
  BY RowFacts
<1>3. Len(s) \in Nat
  BY LenProperties
<1>4. ASSUME at % BLOCK < Len(s) PROVE s[(at % BLOCK) + 1] \in Byte
  <2>1. (at % BLOCK) + 1 \in 1 .. Len(s)
    BY <1>1, <1>3, <1>4
  <2> QED
    BY <2>1, ElementOfSeq
<1> QED
  BY <1>1, <1>2, <1>4, Constants, ByteIsPlace DEF PlaceOf

LEMMA BlockDataSpliced ==
    ASSUME RowsOK, Below4GiB, NEW w, IsRequest(w), w.i \in start_block(w) .. end_block(w)
    PROVE  Spliced(BlockData(w), AtLeast(get_data(w.i), BLOCK), w.bytes,
                   b_start_index(w), b_end_index(w), data_offset(w))
<1>1. PICK from \in 0 .. BLOCK - 1, to \in 1 .. BLOCK, at \in Nat, i \in {w.i} :
        /\ from = b_start_index(w) /\ to = b_end_index(w) /\ at = data_offset(w)
        /\ i = w.i /\ from < to
  BY Piece
<1>2. PICK bytes \in Seq(Byte) : bytes = w.bytes
  BY Request
<1>3. at + to - from <= Len(bytes)
  <2>1. CASE w.i = end_block(w)
    <3>1. at + to - from = Len(bytes)
      BY <1>1, <1>2, <2>1, Piece
    <3> QED
      BY <3>1, <1>2, LenProperties
  <2>2. CASE w.i # end_block(w)
    <3>1. at + to - from < Len(bytes)
      BY <1>1, <1>2, <2>2, Piece
    <3>2. at + to - from \in Int /\ Len(bytes) \in Int
      BY <1>1, <1>2, LenProperties, Constants
    <3> QED
      BY <3>1, <3>2
  <2> QED
    BY <2>1, <2>2
<1>4. PICK pre \in Seq(Byte) : pre = AtLeast(get_data(i), BLOCK) /\ Len(pre) = BLOCK
  <2>1. get_data(i) \in Seq(Byte) /\ Len(get_data(i)) \in 1 .. BLOCK /\ BLOCK \in Nat
    BY RowFacts, Constants
  <2>2. /\ AtLeast(get_data(i), BLOCK) \in Seq(Byte)
        /\ Len(AtLeast(get_data(i), BLOCK))
             = IF Len(get_data(i)) < BLOCK THEN BLOCK ELSE Len(get_data(i))
    BY <2>1, AtLeastFacts
  <2> QED
    BY <2>1, <2>2
<1>5. BlockData(w) = SubSeq(pre, 1, from) \o SubSeq(bytes, at + 1, at + to - from)
                          \o SubSeq(pre, to + 1, BLOCK)
  BY <1>1, <1>2, <1>4 DEF BlockData
<1>6. Spliced(BlockData(w), pre, bytes, from, to, at)
  BY <1>1, <1>3, <1>4, <1>5, Splice
<1> QED
  BY <1>1, <1>2, <1>4, <1>6

\* Only the bytes of the piece change, and they are the request's.
LEMMA WrittenBytes ==
    ASSUME RowsOK, Below4GiB, NEW w, IsRequest(w), w.i \in start_block(w) .. end_block(w),
           data' = [b \in DOMAIN data \cup {w.i} |-> IF b = w.i THEN BlockData(w) ELSE data[b]],
           NEW at \in Nat
    PROVE  ByteAt(at)' =
             IF /\ w.offset + data_offset(w) <= at
                /\ at < w.offset + data_offset(w) + b_end_index(w) - b_start_index(w)
             THEN w.bytes[at - w.offset + 1] ELSE ByteAt(at)
<1>1. PICK from \in 0 .. BLOCK - 1, to \in 1 .. BLOCK, d \in Nat, i \in Nat \ {0}, o \in Nat :
        /\ from = b_start_index(w) /\ to = b_end_index(w) /\ d = data_offset(w)
        /\ i = w.i /\ o = w.offset /\ from < to /\ (i - 1) * BLOCK + from = o + d
  <2>1. /\ b_start_index(w) \in 0 .. BLOCK - 1 /\ b_end_index(w) \in 1 .. BLOCK
        /\ data_offset(w) \in Nat /\ w.i \in Nat \ {0}
        /\ b_start_index(w) < b_end_index(w)
        /\ (w.i - 1) * BLOCK + b_start_index(w) = w.offset + data_offset(w)
    BY Piece
  <2>2. w.offset \in Nat
    BY Request
  <2> QED
    BY <2>1, <2>2
<1>2. PICK base \in Nat : base = (i - 1) * BLOCK /\ base + from = o + d
  BY <1>1, Constants
<1>3. PICK b \in Nat, k \in 0 .. BLOCK - 1 :
        /\ b = at \div BLOCK + 1 /\ k = at % BLOCK
        /\ b = i <=> at \in base .. base + BLOCK - 1
        /\ b = i => at = base + k
  <2>1. /\ at \div BLOCK + 1 = i <=> at \in base .. base + BLOCK - 1
        /\ at \div BLOCK + 1 = i => at = base + (at % BLOCK)
        /\ at \div BLOCK \in Nat /\ at % BLOCK \in 0 .. BLOCK - 1
    BY <1>2, BlockOf
  <2>2. at \div BLOCK + 1 \in Nat
    BY <2>1
  <2> QED
    BY <2>1, <2>2
<1>4. ByteAt(at) = PlaceOf(get_data(b), k) /\ ByteAt(at)' = PlaceOf(get_data(b)', k)
  BY <1>3, ByteIsPlace
<1>5. CASE b = i
  <2>1. get_data(b)' = BlockData(w)
    BY <1>1, <1>5 DEF get_data
  <2>2. /\ Len(BlockData(w)) = BLOCK
        /\ BlockData(w)[k + 1] = IF from <= k /\ k < to THEN w.bytes[d + (k - from) + 1]
                                 ELSE AtLeast(get_data(i), BLOCK)[k + 1]
    BY <1>1, <1>3, BlockDataSpliced DEF Spliced
  <2>3. ByteAt(at)' = BlockData(w)[k + 1]
    BY <1>3, <1>4, <2>1, <2>2 DEF PlaceOf
  <2>4. AtLeast(get_data(i), BLOCK)[k + 1] = ByteAt(at)
    <3>1. get_data(i) \in Seq(Byte) /\ BLOCK \in Nat
      BY RowFacts, Constants
    <3>2. \A j \in 0 .. BLOCK - 1 :
            AtLeast(get_data(i), BLOCK)[j + 1] = PlaceOf(get_data(i), j)
      BY <3>1, AtLeastFacts
    <3> QED
      BY <3>2, <1>4, <1>5
  <2>5. (from <= k /\ k < to) <=> (o + d <= at /\ at < o + d + to - from)
    BY <1>1, <1>2, <1>3, <1>5
  <2>6. d + (k - from) + 1 = at - o + 1
    BY <1>1, <1>2, <1>3, <1>5
  <2> QED
    BY <1>1, <2>2, <2>3, <2>4, <2>5, <2>6
<1>6. CASE b # i
  <2>1. get_data(b)' = get_data(b)
    BY <1>1, <1>6 DEF get_data
  <2>2. ~(o + d <= at /\ at < o + d + to - from)
    <3>1. ~(base <= at /\ at < base + BLOCK)
      BY <1>3, <1>6, Constants
    <3> QED
      BY <3>1, <1>1, <1>2, Constants
  <2> QED
    BY <1>1, <1>4, <2>1, <2>2
<1> QED
  BY <1>5, <1>6

LEMMA Divided ==
    ASSUME NEW n \in Nat
    PROVE  \E q \in Nat, r \in 0 .. BLOCK - 1 :
             q = n \div BLOCK /\ r = n % BLOCK /\ n = q * BLOCK + r
<1>1. /\ n \div BLOCK \in Nat /\ n % BLOCK \in 0 .. BLOCK - 1
      /\ n = (n \div BLOCK) * BLOCK + (n % BLOCK)
  BY Constants, DivMod
<1> QED
  BY <1>1

\* release_data cuts at the byte: what is before it stays, what is behind reads as
\* zeros, and no row starts behind it.
LEMMA ReleasedRows ==
    ASSUME RowsOK, NEW n \in 0 .. MaxSize
    PROVE  LET d == release_data(n) IN
           /\ DOMAIN d \subseteq 1 .. MaxSize + 1
           /\ \A b \in DOMAIN d : d[b] \in Blob
           /\ \A b \in DOMAIN d : (b - 1) * BLOCK < n
<1> DEFINE d == release_data(n)
<1>1. PICK q \in Nat, r \in 0 .. BLOCK - 1 :
        q = n \div BLOCK /\ r = n % BLOCK /\ n = q * BLOCK + r
  <2>1. n \in Nat
    BY Constants
  <2> QED
    BY <2>1, Divided
<1>2. PICK kept : kept = DOMAIN data \cap 1 .. q
  OBVIOUS
<1>3. d = [b \in (IF r = 0 THEN kept ELSE kept \cup {q + 1}) |->
              IF b = q + 1 THEN Resize(get_data(b), r) ELSE data[b]]
  BY <1>1, <1>2 DEF release_data
<1> HIDE DEF d
<1>4. PICK qB \in Nat : qB = q * BLOCK
  BY Constants
<1>5. q <= MaxSize
  <2>1. q <= q * BLOCK
    BY Constants
  <2> QED
    BY <2>1, <1>1, <1>4, Constants
<1>6. ASSUME NEW b \in DOMAIN d
      PROVE  b \in 1 .. MaxSize + 1 /\ d[b] \in Blob /\ (b - 1) * BLOCK < n
  <2>1. CASE b = q + 1
    <3>1. r # 0
      BY <1>2, <1>3, <2>1
    <3>2. get_data(b) \in Seq(Byte) /\ r \in Nat
      BY RowFacts, Constants
    <3>3. d[b] \in Seq(Byte) /\ Len(d[b]) = r
      BY <1>3, <2>1, <3>2, ResizeFacts
    <3>4. d[b] \in Blob
      BY <3>1, <3>3, BlobFrom, Constants
    <3>5. (b - 1) * BLOCK = qB
      BY <1>4, <2>1
    <3> QED
      BY <3>1, <3>4, <3>5, <1>1, <1>4, <1>5, <2>1, Constants
  <2>2. CASE b # q + 1
    <3>1. b \in kept /\ d[b] = data[b]
      BY <1>3, <2>2
    <3>2. b \in DOMAIN data /\ b \in 1 .. q
      BY <3>1, <1>2
    <3>3. b \in 1 .. MaxSize + 1 /\ d[b] \in Blob
      BY <3>1, <3>2 DEF RowsOK
    <3>4. (b - 1) * BLOCK + BLOCK <= qB
      <4>1. b - 1 \in Int /\ b - 1 < q
        BY <3>2
      <4> QED
        BY <4>1, <1>4, Constants, Multiples
    <3>5. (b - 1) * BLOCK \in Int
      BY <3>2, Constants
    <3> QED
      BY <3>3, <3>4, <3>5, <1>1, <1>4, Constants
  <2> QED
    BY <2>1, <2>2
<1> QED
  BY <1>6 DEF d

LEMMA ReleasedBytes ==
    ASSUME RowsOK, NEW n \in 0 .. MaxSize, data' = release_data(n), NEW at \in Nat
    PROVE  ByteAt(at)' = IF at < n THEN ByteAt(at) ELSE 0
<1>1. PICK q \in Nat, r \in 0 .. BLOCK - 1 :
        q = n \div BLOCK /\ r = n % BLOCK /\ n = q * BLOCK + r
  <2>1. n \in Nat
    BY Constants
  <2> QED
    BY <2>1, Divided
<1>2. PICK kept : kept = DOMAIN data \cap 1 .. q
  OBVIOUS
<1>3. data' = [b \in (IF r = 0 THEN kept ELSE kept \cup {q + 1}) |->
                 IF b = q + 1 THEN Resize(get_data(b), r) ELSE data[b]]
  BY <1>1, <1>2 DEF release_data
<1>4. PICK p \in Nat, k \in 0 .. BLOCK - 1 :
        p = at \div BLOCK /\ k = at % BLOCK /\ at = p * BLOCK + k
  BY Divided
<1>5. ByteAt(at) = PlaceOf(get_data(p + 1), k) /\ ByteAt(at)' = PlaceOf(get_data(p + 1)', k)
  BY <1>4, ByteIsPlace
<1>6. PICK qB \in Nat, pB \in Nat : qB = q * BLOCK /\ pB = p * BLOCK /\ n = qB + r /\ at = pB + k
  BY <1>1, <1>4, Constants
<1>7. k \in Nat /\ r \in Nat
  BY Constants
<1>8. CASE p < q
  <2>1. pB + BLOCK <= qB
    BY <1>6, <1>8, Constants, Multiples
  <2>2. at < n
    BY <2>1, <1>6, <1>7, Constants
  <2>3. p + 1 \in 1 .. q /\ p + 1 # q + 1
    BY <1>8
  <2>4. get_data(p + 1)' = get_data(p + 1)
    <3>1. p + 1 \in DOMAIN data' <=> p + 1 \in DOMAIN data
      BY <2>3, <1>2, <1>3
    <3>2. p + 1 \in DOMAIN data => data'[p + 1] = data[p + 1]
      BY <2>3, <1>2, <1>3
    <3> QED
      BY <3>1, <3>2 DEF get_data
  <2> QED
    BY <2>2, <2>4, <1>5
<1>9. CASE p = q
  <2>1. at < n <=> k < r
    BY <1>6, <1>7, <1>9
  <2>2. CASE r = 0
    <3>1. p + 1 \notin DOMAIN data'
      BY <2>2, <1>2, <1>3, <1>9
    <3>2. get_data(p + 1)' = Resize(<<>>, BLOCK)
      BY <3>1 DEF get_data, Resize
    <3> QED
      BY <3>2, <2>1, <2>2, <1>5, <1>7, NoRow
  <2>3. CASE r # 0
    <3>1. p + 1 \in DOMAIN data' /\ data'[p + 1] = Resize(get_data(p + 1), r)
      BY <2>3, <1>3, <1>9
    <3>2. get_data(p + 1)' = Resize(get_data(p + 1), r)
      BY <3>1 DEF get_data
    <3>3. PICK s \in Seq(Byte) : s = get_data(p + 1)
      BY RowFacts
    <3>4. PlaceOf(Resize(s, r), k) = IF k < r THEN PlaceOf(s, k) ELSE 0
      BY <1>7, ResizeFacts
    <3> QED
      BY <3>2, <3>3, <3>4, <2>1, <1>5
  <2> QED
    BY <2>2, <2>3
<1>10. CASE q < p
  <2>1. qB + BLOCK <= pB
    BY <1>6, <1>10, Constants, Multiples
  <2>2. ~(at < n)
    BY <2>1, <1>6, <1>7, Constants
  <2>3. p + 1 \notin DOMAIN data'
    BY <1>2, <1>3, <1>10
  <2>4. get_data(p + 1)' = Resize(<<>>, BLOCK)
    BY <2>3 DEF get_data, Resize
  <2> QED
    BY <2>2, <2>4, <1>5, <1>7, NoRow
<1> QED
  BY <1>8, <1>9, <1>10

---------------------------------------------------------------------------
(* The invariant: what lies behind the end reads as zeros *)

\* The write handler has the request it was called with and stands at one of its
\* blocks, or behind the last.
AtWork ==
    \/ writing = Idle
    \/ /\ writing \in [offset : Offset, bytes : Payload, i : Nat]
       /\ writing.i \in start_block(writing) .. end_block(writing) + 1

\* A file is only made longer by zeros because there is nothing else to find there.
ZerosBehindTheEnd == \A at \in Nat : at >= size => ByteAt(at) = 0

FileInv ==
    /\ RowsOK
    /\ size \in 0 .. MaxSize
    /\ AtWork
    /\ NoBlocksBehindTheEnd
    /\ ZerosBehindTheEnd

LEMMA FileInvType == Below4GiB /\ FileInv => TypeOK
<1> SUFFICES ASSUME Below4GiB, FileInv PROVE TypeOK
  OBVIOUS
<1>1. CASE writing = Idle
  BY <1>1 DEF FileInv, RowsOK, TypeOK
<1>2. CASE writing # Idle
  <2>1. /\ writing.offset \in Offset /\ writing.bytes \in Payload
        /\ writing.i \in start_block(writing) .. end_block(writing) + 1
    BY <1>2 DEF FileInv, AtWork
  <2>2. /\ start_block(writing) \in Nat \ {0} /\ end_block(writing) \in Nat
        /\ end_block(writing) <= MaxSize
    BY <2>1, Request DEF IsRequest
  <2>3. writing.i \in start_block(writing) .. MaxSize + 2
    BY <2>1, <2>2, Constants
  <2> QED
    BY <2>1, <2>3 DEF FileInv, RowsOK, TypeOK
<1> QED
  BY <1>1, <1>2

LEMMA FileInvInit == Init => FileInv
<1> SUFFICES ASSUME Init PROVE FileInv
  OBVIOUS
<1>1. DOMAIN data = {} /\ size = 0 /\ writing = Idle
  BY DEF Init
<1>2. ASSUME NEW at \in Nat PROVE ByteAt(at) = 0
  <2>1. get_data(at \div BLOCK + 1) = Resize(<<>>, BLOCK)
    BY <1>1 DEF get_data
  <2>2. at % BLOCK \in Nat
    BY Constants, DivMod
  <2> QED
    BY <2>1, <2>2, ByteIsPlace, NoRow
<1>3. RowsOK /\ size \in 0 .. MaxSize
  BY <1>1, Constants DEF RowsOK
<1> QED
  BY <1>1, <1>2, <1>3 DEF FileInv, AtWork, NoBlocksBehindTheEnd, ZerosBehindTheEnd

LEMMA SameFile ==
    ASSUME RowsOK, size \in 0 .. MaxSize, NoBlocksBehindTheEnd, ZerosBehindTheEnd,
           data' = data, size' = size
    PROVE  RowsOK' /\ size' \in 0 .. MaxSize /\ NoBlocksBehindTheEnd' /\ ZerosBehindTheEnd'
<1>1. \A at \in Nat : ByteAt(at)' = ByteAt(at)
  BY DEF ByteAt, get_data
<1> QED
  BY <1>1 DEF RowsOK, NoBlocksBehindTheEnd, ZerosBehindTheEnd

LEMMA WriteInv ==
    ASSUME Below4GiB, FileInv, NEW offset \in Offset, NEW bytes \in Payload, Write(offset, bytes)
    PROVE  FileInv'
<1>1. PICK w : w = [offset |-> offset, bytes |-> bytes, i |-> 0]
  OBVIOUS
<1>2. IsRequest(w)
  BY <1>1 DEF IsRequest
<1>3. PICK v : v = [offset |-> offset, bytes |-> bytes, i |-> start_block(w)]
  OBVIOUS
<1>4. writing' = v /\ data' = data /\ size' = size
  BY <1>1, <1>3 DEF Write
<1>5. start_block(v) = start_block(w) /\ end_block(v) = end_block(w)
  BY <1>1, <1>3 DEF start_block, end_block, LastByte
<1>6. start_block(w) \in Nat /\ end_block(w) \in Nat /\ start_block(w) <= end_block(w)
  BY <1>2, Request
<1>7. /\ v \in [offset : Offset, bytes : Payload, i : Nat]
      /\ v.i \in start_block(v) .. end_block(v) + 1
  BY <1>3, <1>5, <1>6
<1>8. AtWork'
  BY <1>4, <1>7 DEF AtWork, start_block, end_block, LastByte
<1> QED
  BY <1>4, <1>8, SameFile DEF FileInv

LEMMA EndInv ==
    ASSUME FileInv, writing' = Idle \/ writing' = writing, data' = data, size' = size
    PROVE  FileInv'
<1>1. AtWork'
  BY DEF FileInv, AtWork, start_block, end_block, LastByte
<1> QED
  BY <1>1, SameFile DEF FileInv

\* A block written
LEMMA AWriteBlock ==
    ASSUME Below4GiB, FileInv, WriteBlock
    PROVE  /\ writing \in [offset : Offset, bytes : Payload, i : Nat]
           /\ IsRequest(writing)
           /\ writing.i \in start_block(writing) .. end_block(writing)
           /\ data' = [b \in DOMAIN data \cup {writing.i} |->
                         IF b = writing.i THEN BlockData(writing) ELSE data[b]]
           /\ LET end == writing.offset + data_offset(writing)
                           + b_end_index(writing) - b_start_index(writing)
              IN  /\ end \in 0 .. MaxSize /\ (writing.i - 1) * BLOCK < end
                  /\ size' = IF end > size THEN end ELSE size
           /\ writing' = [writing EXCEPT !.i = @ + 1]
<1>1. PICK w : w = writing
  OBVIOUS
<1>2. w # Idle /\ w.i <= end_block(w)
  BY <1>1 DEF WriteBlock
<1>3. /\ w \in [offset : Offset, bytes : Payload, i : Nat]
      /\ w.i \in start_block(w) .. end_block(w) + 1
  BY <1>1, <1>2 DEF FileInv, AtWork
<1>4. IsRequest(w)
  BY <1>3 DEF IsRequest
<1>5. start_block(w) \in Nat /\ end_block(w) \in Nat
  BY <1>4, Request
<1>6. w.i \in start_block(w) .. end_block(w)
  BY <1>2, <1>3, <1>5
<1>7. /\ (w.i - 1) * BLOCK \in Nat /\ data_offset(w) \in Nat
      /\ b_start_index(w) \in 0 .. BLOCK - 1 /\ b_end_index(w) \in 1 .. BLOCK
      /\ (w.i - 1) * BLOCK + b_start_index(w) = w.offset + data_offset(w)
      /\ u32((w.i - 1) * BLOCK + b_end_index(w)) = (w.i - 1) * BLOCK + b_end_index(w)
      /\ (w.i - 1) * BLOCK + b_end_index(w) <= MaxSize
  BY <1>4, <1>6, Piece
<1>8. w.offset \in Nat
  BY <1>4, Request
<1>9. PICK base \in Nat : base = (w.i - 1) * BLOCK
  BY <1>7
<1>10. PICK end : end = w.offset + data_offset(w) + b_end_index(w) - b_start_index(w)
  OBVIOUS
<1>11. end = base + b_end_index(w)
  BY <1>7, <1>8, <1>9, <1>10, Constants
<1>12. end \in 0 .. MaxSize /\ base < end /\ u32(base + b_end_index(w)) = end
  BY <1>7, <1>9, <1>11, Constants
<1>13. size' = IF end > size THEN end ELSE size
  BY <1>1, <1>9, <1>12 DEF WriteBlock, write_data
<1>14. data' = [b \in DOMAIN data \cup {w.i} |-> IF b = w.i THEN BlockData(w) ELSE data[b]]
  BY <1>1 DEF WriteBlock, write_data
<1>15. writing' = [w EXCEPT !.i = @ + 1]
  BY <1>1 DEF WriteBlock
<1> QED
  BY <1>1, <1>3, <1>4, <1>6, <1>9, <1>10, <1>12, <1>13, <1>14, <1>15

LEMMA WriteBlockInv ==
    ASSUME Below4GiB, FileInv, WriteBlock
    PROVE  FileInv'
<1>1. PICK w : w = writing
  OBVIOUS
<1>2. PICK end : end = w.offset + data_offset(w) + b_end_index(w) - b_start_index(w)
  OBVIOUS
<1>3. /\ w \in [offset : Offset, bytes : Payload, i : Nat] /\ IsRequest(w)
      /\ w.i \in start_block(w) .. end_block(w)
      /\ data' = [b \in DOMAIN data \cup {w.i} |-> IF b = w.i THEN BlockData(w) ELSE data[b]]
      /\ end \in 0 .. MaxSize /\ (w.i - 1) * BLOCK < end
      /\ size' = IF end > size THEN end ELSE size
      /\ writing' = [w EXCEPT !.i = @ + 1]
  BY <1>1, <1>2, AWriteBlock
<1>4. RowsOK /\ size \in 0 .. MaxSize /\ NoBlocksBehindTheEnd /\ ZerosBehindTheEnd
  BY DEF FileInv
<1>5. /\ start_block(w) \in Nat \ {0} /\ end_block(w) \in Nat /\ end_block(w) <= MaxSize
      /\ w.offset \in Nat
  BY <1>3, Request
<1>6. w.i \in 1 .. MaxSize + 1 /\ (w.i - 1) * BLOCK \in Nat
  BY <1>3, <1>5, Constants
<1>7. size' \in 0 .. MaxSize /\ end <= size' /\ size <= size'
  BY <1>3, <1>4, Constants
<1>8. RowsOK'
  <2>1. BlockData(w) \in Seq(Byte) /\ Len(BlockData(w)) = BLOCK
    BY <1>3, <1>4, BlockDataSpliced DEF Spliced
  <2>2. BlockData(w) \in Blob
    BY <2>1, BlobFrom, Constants
  <2> QED
    BY <1>3, <1>4, <1>6, <2>2 DEF RowsOK
<1>9. NoBlocksBehindTheEnd'
  <2> SUFFICES ASSUME NEW b \in DOMAIN data' PROVE (b - 1) * BLOCK < size'
    BY DEF NoBlocksBehindTheEnd
  <2>1. b = w.i \/ b \in DOMAIN data
    BY <1>3
  <2>2. (b - 1) * BLOCK \in Int
    BY <2>1, <1>4, <1>6, Constants DEF RowsOK
  <2>3. CASE b = w.i
    BY <2>2, <2>3, <1>3, <1>7
  <2>4. CASE b \in DOMAIN data
    <3>1. (b - 1) * BLOCK < size
      BY <2>4, <1>4 DEF NoBlocksBehindTheEnd
    <3> QED
      BY <3>1, <2>2, <1>4, <1>7
  <2> QED
    BY <2>1, <2>3, <2>4
<1>10. ZerosBehindTheEnd'
  <2> SUFFICES ASSUME NEW at \in Nat, at >= size' PROVE ByteAt(at)' = 0
    BY DEF ZerosBehindTheEnd
  <2>1. at >= size /\ ~(at < end)
    BY <1>3, <1>4, <1>7
  <2>2. ByteAt(at)' = ByteAt(at)
    BY <2>1, <1>2, <1>3, <1>4, WrittenBytes
  <2> QED
    BY <2>1, <2>2, <1>4 DEF ZerosBehindTheEnd
<1>11. AtWork'
  <2>1. PICK v : v = [w EXCEPT !.i = @ + 1]
    OBVIOUS
  <2>2. /\ v \in [offset : Offset, bytes : Payload, i : Nat]
        /\ v.offset = w.offset /\ v.bytes = w.bytes /\ v.i = w.i + 1
    BY <2>1, <1>3
  <2>3. start_block(v) = start_block(w) /\ end_block(v) = end_block(w)
    BY <2>2 DEF start_block, end_block, LastByte
  <2>4. v.i \in start_block(v) .. end_block(v) + 1
    BY <2>2, <2>3, <1>3, <1>5
  <2>5. writing' = v
    BY <2>1, <1>3
  <2> QED
    BY <2>2, <2>4, <2>5 DEF AtWork, start_block, end_block, LastByte
<1> QED
  BY <1>7, <1>8, <1>9, <1>10, <1>11 DEF FileInv

LEMMA SetAttrInv ==
    ASSUME Below4GiB, FileInv, NEW n \in Length, SetAttr(n)
    PROVE  /\ FileInv'
           /\ size' = n
           /\ \A at \in Nat : ByteAt(at)' = IF at < n THEN ByteAt(at) ELSE 0
<1>1. n \in 0 .. MaxSize /\ n \in Nat /\ n < WIDTH
  BY Constants DEF Length, Below4GiB
<1>2. u32(n) = n
  BY <1>1, Fits
<1>3. writing = Idle /\ writing' = writing /\ size' = n
  BY <1>2 DEF SetAttr
<1>4. RowsOK /\ size \in 0 .. MaxSize /\ NoBlocksBehindTheEnd /\ ZerosBehindTheEnd
  BY DEF FileInv
<1>5. AtWork'
  BY <1>3 DEF AtWork
<1>6. CASE size > n
  <2>1. data' = release_data(n)
    BY <1>2, <1>6 DEF SetAttr
  <2>2. RowsOK' /\ NoBlocksBehindTheEnd'
    BY <2>1, <1>1, <1>3, <1>4, ReleasedRows DEF RowsOK, NoBlocksBehindTheEnd
  <2>3. \A at \in Nat : ByteAt(at)' = IF at < n THEN ByteAt(at) ELSE 0
    BY <2>1, <1>1, <1>4, ReleasedBytes
  <2>4. ZerosBehindTheEnd'
    BY <2>3, <1>1, <1>3 DEF ZerosBehindTheEnd
  <2> QED
    BY <2>2, <2>3, <2>4, <1>1, <1>3, <1>5 DEF FileInv
<1>7. CASE ~(size > n)
  <2>1. data' = data
    BY <1>2, <1>7 DEF SetAttr
  <2>2. \A at \in Nat : ByteAt(at)' = ByteAt(at)
    BY <2>1 DEF ByteAt, get_data
  <2>3. \A at \in Nat : ~(at < n) => ByteAt(at) = 0
    BY <1>1, <1>4, <1>7 DEF ZerosBehindTheEnd
  <2>4. \A at \in Nat : ByteAt(at)' = IF at < n THEN ByteAt(at) ELSE 0
    BY <2>2, <2>3
  <2>5. ZerosBehindTheEnd'
    BY <2>4, <1>1, <1>3 DEF ZerosBehindTheEnd
  <2>6. RowsOK'
    BY <2>1, <1>4 DEF RowsOK
  <2>7. NoBlocksBehindTheEnd'
    <3> SUFFICES ASSUME NEW b \in DOMAIN data PROVE (b - 1) * BLOCK < n
      BY <2>1, <1>3 DEF NoBlocksBehindTheEnd
    <3>1. (b - 1) * BLOCK < size
      BY <1>4 DEF NoBlocksBehindTheEnd
    <3>2. (b - 1) * BLOCK \in Int
      BY <1>4, Constants DEF RowsOK
    <3> QED
      BY <3>1, <3>2, <1>1, <1>4, <1>7
  <2> QED
    BY <2>4, <2>5, <2>6, <2>7, <1>1, <1>3, <1>5 DEF FileInv
<1> QED
  BY <1>6, <1>7

LEMMA FileStep == Below4GiB /\ FileInv /\ [Next]_vars => FileInv'
<1> SUFFICES ASSUME Below4GiB, FileInv, [Next]_vars PROVE FileInv'
  OBVIOUS
<1>1. CASE \E offset \in Offset, bytes \in Payload : Write(offset, bytes)
  BY <1>1, WriteInv
<1>2. CASE WriteBlock
  BY <1>2, WriteBlockInv
<1>3. CASE Written \/ WriteFails
  BY <1>3, EndInv DEF Written, WriteFails
<1>4. CASE \E n \in Length : SetAttr(n)
  BY <1>4, SetAttrInv
<1>5. CASE UNCHANGED vars
  BY <1>5, EndInv DEF vars
<1> QED
  BY <1>1, <1>2, <1>3, <1>4, <1>5 DEF Next

LEMMA FileInvHolds == ASSUME Below4GiB PROVE Spec => []FileInv
<1>1. Init => FileInv
  BY FileInvInit
<1>2. FileInv /\ [Next]_vars => FileInv'
  BY FileStep
<1> QED
  BY <1>1, <1>2, PTL DEF Spec

\* Rows hold between one byte and a block, the size is a length of the instance, and a
\* handler at work stands at a block of its request or just after the last one, for
\* every block size and every request below 4 GiB (write, filesystem.rs:881).
THEOREM FileDataTypeCorrect == ASSUME Below4GiB PROVE Spec => []TypeOK
<1>1. FileInv => TypeOK
  BY FileInvType
<1> QED
  BY <1>1, FileInvHolds, PTL

\* No row ever lies wholly behind the end of the file: cutting it gives its blocks
\* back, and a write makes the file as long as the block it puts needs
\* (release_data, sqlite.rs:60; write_data).
THEOREM NoBlocksEverBehindTheEnd == ASSUME Below4GiB PROVE Spec => []NoBlocksBehindTheEnd
<1>1. FileInv => NoBlocksBehindTheEnd
  BY DEF FileInv
<1> QED
  BY <1>1, FileInvHolds, PTL

---------------------------------------------------------------------------
(* read *)

\* Where the rest of a request of len bytes at o starts when left bytes are left, and
\* the end of what its block gives
RestAt(o, len, left) == u32(u32(o) + len - left)
ChunkEnd(at, left) ==
    IF (left + (at % BLOCK)) \div BLOCK >= 1 THEN BLOCK ELSE left + (at % BLOCK)
Chunk(at, left) ==
    SubSeq(AtLeast(get_data(at \div BLOCK + 1), ChunkEnd(at, left)),
           (at % BLOCK) + 1, ChunkEnd(at, left))

\* f is what the loop of read gathers, by the number of bytes left
Reads(f, o, len) ==
    f = [left \in 0 .. len |->
            IF left = 0 THEN <<>>
            ELSE Chunk(RestAt(o, len, left), left)
                     \o f[left - (ChunkEnd(RestAt(o, len, left), left)
                                    - (RestAt(o, len, left) % BLOCK))]]

Bytes(from, n) == [k \in 1 .. n |-> ByteAt(from + k - 1)]

LEMMA ReadIsReads ==
    ASSUME NEW o, NEW len
    PROVE  Read(o, len) = (CHOOSE f : Reads(f, o, len))[len]
BY DEF Read, Reads, Chunk, ChunkEnd, RestAt

LEMMA BytesFacts ==
    ASSUME RowsOK, NEW from \in Nat, NEW n \in Nat
    PROVE  Bytes(from, n) \in Seq(Byte) /\ Len(Bytes(from, n)) = n
<1>1. \A k \in 1 .. n : ByteAt(from + k - 1) \in Byte
  <2>1. \A k \in 1 .. n : from + k - 1 \in Nat
    OBVIOUS
  <2> QED
    BY <2>1, BytesAreBytes
<1>2. Bytes(from, n) \in [1 .. n -> Byte]
  BY <1>1 DEF Bytes
<1> QED
  BY <1>2, Tuple

LEMMA RightBlock ==
    ASSUME NEW q \in Nat, NEW j \in 0 .. BLOCK - 1, NEW x \in Nat, x = q * BLOCK + j
    PROVE  get_data(x \div BLOCK + 1) = get_data(q + 1) /\ x % BLOCK = j
<1>1. x \div BLOCK = q /\ x % BLOCK = j
  BY Constants, DivModUnique
<1> QED
  BY <1>1

\* A block gives at least a byte and not more than there are left.
LEMMA ChunkFacts ==
    ASSUME RowsOK, NEW at \in Nat, NEW left \in Nat \ {0}
    PROVE  /\ ChunkEnd(at, left) - (at % BLOCK) \in 1 .. left
           /\ Chunk(at, left) = Bytes(at, ChunkEnd(at, left) - (at % BLOCK))
<1>1. PICK q \in Nat, r \in 0 .. BLOCK - 1 :
        q = at \div BLOCK /\ r = at % BLOCK /\ at = q * BLOCK + r
  BY Divided
<1>2. r \in Nat /\ left + r \in Nat \ {0}
  BY Constants
<1>3. PICK p \in Nat, s \in 0 .. BLOCK - 1 :
        p = (left + r) \div BLOCK /\ left + r = p * BLOCK + s
  BY <1>2, Divided
<1>4. PICK e : e = ChunkEnd(at, left)
  OBVIOUS
<1>5. e = IF p >= 1 THEN BLOCK ELSE left + r
  BY <1>1, <1>3, <1>4 DEF ChunkEnd
<1>6. e \in 1 .. BLOCK /\ e - r \in 1 .. left /\ r < e
  <2>1. PICK pB \in Nat : pB = p * BLOCK
    BY Constants
  <2>2. CASE p >= 1
    <3>1. BLOCK <= pB
      <4>1. 0 * BLOCK + BLOCK <= p * BLOCK /\ 0 * BLOCK = 0
        BY <2>2, Constants, Multiples
      <4> QED
        BY <4>1, <2>1, Constants
    <3> QED
      BY <3>1, <2>1, <2>2, <1>2, <1>3, <1>5, Constants
  <2>3. CASE p = 0
    <3>1. pB = 0
      BY <2>1, <2>3, Constants
    <3> QED
      BY <3>1, <2>1, <2>3, <1>2, <1>3, <1>5, Constants
  <2> QED
    BY <2>2, <2>3
<1>7. PICK block \in Seq(Byte) :
        /\ block = AtLeast(get_data(q + 1), e) /\ e <= Len(block)
        /\ \A k \in 0 .. e - 1 : block[k + 1] = PlaceOf(get_data(q + 1), k)
  <2>1. get_data(q + 1) \in Seq(Byte) /\ Len(get_data(q + 1)) \in Nat /\ e \in Nat
    BY <1>6, RowFacts, Constants
  <2>2. /\ AtLeast(get_data(q + 1), e) \in Seq(Byte)
        /\ Len(AtLeast(get_data(q + 1), e))
             = IF Len(get_data(q + 1)) < e THEN e ELSE Len(get_data(q + 1))
        /\ \A k \in 0 .. e - 1 : AtLeast(get_data(q + 1), e)[k + 1] = PlaceOf(get_data(q + 1), k)
    BY <2>1, AtLeastFacts
  <2>3. e <= Len(AtLeast(get_data(q + 1), e))
    BY <2>1, <2>2
  <2> QED
    BY <2>2, <2>3
<1>8. PICK c : c = SubSeq(block, r + 1, e)
  OBVIOUS
<1>9. Chunk(at, left) = c
  BY <1>1, <1>4, <1>7, <1>8 DEF Chunk
<1>10. c \in Seq(Byte) /\ Len(c) = e - r /\ \A k \in 1 .. e - r : c[k] = block[r + k]
  <2>1. r \in Nat /\ e \in Nat /\ r <= e /\ e <= Len(block)
    BY <1>2, <1>6, <1>7
  <2> QED
    BY <2>1, <1>8, Cut
<1>11. ASSUME NEW k \in 1 .. e - r PROVE c[k] = ByteAt(at + k - 1)
  <2>1. PICK j \in 0 .. e - 1 : j = r + k - 1 /\ r + k = j + 1
    BY <1>2, <1>6
  <2>2. c[k] = PlaceOf(get_data(q + 1), j)
    BY <2>1, <1>7, <1>10
  <2>3. PICK x \in Nat : x = at + k - 1 /\ x = q * BLOCK + j
    <3>1. PICK qB \in Nat : qB = q * BLOCK
      BY Constants
    <3>2. at = qB + r /\ k \in Nat \ {0}
      BY <3>1, <1>1
    <3>3. at + k - 1 = qB + j /\ at + k - 1 \in Nat
      BY <3>2, <2>1, <1>2
    <3> QED
      BY <3>1, <3>3
  <2>4. j \in 0 .. BLOCK - 1
    BY <2>1, <1>6, Constants
  <2>5. get_data(x \div BLOCK + 1) = get_data(q + 1) /\ x % BLOCK = j
    <3>1. x = q * BLOCK + j
      BY <2>3
    <3> QED
      BY <3>1, <2>4, RightBlock
  <2>6. ByteAt(x) = PlaceOf(get_data(q + 1), j)
    BY <2>5, ByteIsPlace
  <2> QED
    BY <2>2, <2>3, <2>6
<1>12. PICK n \in Nat : n = e - r
  BY <1>6
<1>13. Bytes(at, n) \in Seq(Byte) /\ Len(Bytes(at, n)) = n
  BY BytesFacts
<1>14. \A k \in 1 .. Len(c) : c[k] = Bytes(at, n)[k]
  BY <1>10, <1>11, <1>12 DEF Bytes
<1>15. c = Bytes(at, n)
  BY <1>10, <1>12, <1>13, <1>14, SeqEqual
<1> QED
  BY <1>1, <1>4, <1>6, <1>9, <1>12, <1>15

LEMMA BytesJoin ==
    ASSUME RowsOK, NEW at \in Nat, NEW m \in Nat, NEW n \in Nat
    PROVE  Bytes(at, m) \o Bytes(at + m, n) = Bytes(at, m + n)
<1>1. PICK s \in Seq(Byte), t \in Seq(Byte), u \in Seq(Byte) :
        /\ s = Bytes(at, m) /\ t = Bytes(at + m, n) /\ u = Bytes(at, m + n)
        /\ Len(s) = m /\ Len(t) = n /\ Len(u) = m + n
  <2>1. at + m \in Nat /\ m + n \in Nat
    OBVIOUS
  <2> QED
    BY <2>1, BytesFacts
<1>2. PICK v : v = s \o t
  OBVIOUS
<1>3. /\ v \in Seq(Byte) /\ Len(v) = m + n
      /\ \A k \in 1 .. m : v[k] = s[k]
      /\ \A k \in 1 .. n : v[m + k] = t[k]
  <2>1. s \in Seq(Byte) /\ t \in Seq(Byte)
    OBVIOUS
  <2>2. /\ s \o t \in Seq(Byte) /\ Len(s \o t) = Len(s) + Len(t)
        /\ \A k \in 1 .. Len(s) : (s \o t)[k] = s[k]
        /\ \A k \in 1 .. Len(t) : (s \o t)[Len(s) + k] = t[k]
    BY <2>1, Join
  <2> QED
    BY <2>2, <1>1, <1>2
<1>4. ASSUME NEW k \in 1 .. m + n PROVE v[k] = u[k]
  <2>1. u[k] = ByteAt(at + k - 1)
    BY <1>1 DEF Bytes
  <2>2. CASE k <= m
    <3>1. k \in 1 .. m
      BY <2>2
    <3> QED
      BY <3>1, <2>1, <1>1, <1>3 DEF Bytes
  <2>3. CASE k > m
    <3>1. PICK j \in 1 .. n : j = k - m /\ m + j = k
      BY <2>3
    <3>2. at + m + j - 1 = at + k - 1
      BY <3>1
    <3>3. t[j] = ByteAt(at + m + j - 1)
      BY <1>1 DEF Bytes
    <3> QED
      BY <3>1, <3>2, <3>3, <2>1, <1>3
  <2> QED
    BY <2>2, <2>3
<1>5. v = u
  BY <1>1, <1>3, <1>4, SeqEqual
<1> QED
  BY <1>1, <1>2, <1>5

\* One turn of the loop puts the bytes of a block before those of the next ones.
LEMMA OneTurn ==
    ASSUME RowsOK, NEW o \in Nat, NEW len \in Nat, o < WIDTH, o + len <= WIDTH,
           NEW left \in 1 .. len
    PROVE  \E n \in 1 .. left :
             /\ n = ChunkEnd(RestAt(o, len, left), left) - (RestAt(o, len, left) % BLOCK)
             /\ Chunk(RestAt(o, len, left), left) \o Bytes(o + len - (left - n), left - n)
                  = Bytes(o + len - left, left)
<1>1. PICK at \in Nat : at = o + len - left /\ at < WIDTH
  BY Constants
<1>2. RestAt(o, len, left) = at
  <2>1. u32(o) = o
    BY Fits
  <2> QED
    BY <2>1, <1>1, Fits DEF RestAt
<1>3. PICK n \in 1 .. left : n = ChunkEnd(at, left) - (at % BLOCK) /\ Chunk(at, left) = Bytes(at, n)
  BY ChunkFacts
<1>4. PICK m \in Nat : m = left - n /\ n + m = left /\ o + len - (left - n) = at + n
  BY <1>1, <1>3
<1>5. Bytes(at, n) \o Bytes(at + n, m) = Bytes(at, left)
  <2>1. n \in Nat
    OBVIOUS
  <2>2. Bytes(at, n) \o Bytes(at + n, m) = Bytes(at, n + m)
    BY <2>1, BytesJoin
  <2> QED
    BY <2>2, <1>4
<1> QED
  BY <1>1, <1>2, <1>3, <1>4, <1>5

LEMMA ReadIsBytes ==
    ASSUME RowsOK, NEW o \in Nat, NEW len \in Nat, o < WIDTH, o + len <= WIDTH
    PROVE  Read(o, len) = Bytes(o, len)
<1> DEFINE whole == [left \in 0 .. len |-> Bytes(o + len - left, left)]
<1>1. \A at : Bytes(at, 0) = <<>>
  BY DEF Bytes
<1>2. Reads(whole, o, len)
  <2> DEFINE turn(left) == IF left = 0 THEN <<>>
            ELSE Chunk(RestAt(o, len, left), left)
                     \o whole[left - (ChunkEnd(RestAt(o, len, left), left)
                                    - (RestAt(o, len, left) % BLOCK))]
  <2>1. ASSUME NEW left \in 0 .. len PROVE whole[left] = turn(left)
    <3>1. CASE left = 0
      BY <3>1, <1>1
    <3>2. CASE left # 0
      <4>1. left \in 1 .. len
        BY <3>2
      <4>2. PICK n \in 1 .. left :
             /\ n = ChunkEnd(RestAt(o, len, left), left) - (RestAt(o, len, left) % BLOCK)
             /\ Chunk(RestAt(o, len, left), left) \o Bytes(o + len - (left - n), left - n)
                  = Bytes(o + len - left, left)
        BY <4>1, OneTurn
      <4>3. left - n \in 0 .. len
        BY <4>1, <4>2
      <4>4. whole[left - n] = Bytes(o + len - (left - n), left - n)
        BY <4>3
      <4> HIDE DEF whole
      <4>5. turn(left) = Chunk(RestAt(o, len, left), left) \o whole[left - n]
        BY <3>2, <4>2
      <4>6. turn(left) = Bytes(o + len - left, left)
        BY <4>2, <4>4, <4>5
      <4> QED
        BY <4>6 DEF whole
    <3> QED
      BY <3>1, <3>2
  <2>2. whole = [left \in 0 .. len |-> whole[left]]
    OBVIOUS
  <2>3. whole = [left \in 0 .. len |-> turn(left)]
    <3> HIDE DEF whole
    <3> QED
      BY <2>1, <2>2
  <2> QED
    BY <2>3 DEF Reads
<1>3. PICK f : f = CHOOSE g : Reads(g, o, len)
  OBVIOUS
<1>4. Reads(f, o, len)
  BY <1>2, <1>3
<1>5. ASSUME NEW left \in 0 .. len PROVE f[left] = Bytes(o + len - left, left)
  <2> DEFINE Bad == {i \in 0 .. len : f[i] # Bytes(o + len - i, i)}
  <2> SUFFICES ASSUME left \in Bad PROVE FALSE
    OBVIOUS
  <2>1. Bad \subseteq Nat
    OBVIOUS
  <2>2. PICK i \in Bad : \A j \in Bad : ~(j < i)
    <3>1. PICK i \in Bad : \A j \in Bad : ~(<<j, i>> \in OpToRel(<, Nat))
      BY <2>1, NatLessThanWellFounded, WFMin, Zenon
    <3> QED
      BY <2>1, <3>1 DEF OpToRel
  <2>3. i \in 0 .. len /\ f[i] # Bytes(o + len - i, i)
    BY <2>2
  <2>4. i # 0
    <3>1. ASSUME i = 0 PROVE f[i] = <<>>
      BY <3>1, <1>4 DEF Reads
    <3> QED
      BY <3>1, <2>3, <1>1
  <2>5. i \in 1 .. len
    BY <2>3, <2>4
  <2>6. PICK n \in 1 .. i :
         /\ n = ChunkEnd(RestAt(o, len, i), i) - (RestAt(o, len, i) % BLOCK)
         /\ Chunk(RestAt(o, len, i), i) \o Bytes(o + len - (i - n), i - n)
              = Bytes(o + len - i, i)
    BY <2>5, OneTurn
  <2>7. i - n \in 0 .. len /\ i - n < i
    BY <2>5, <2>6
  <2>8. f[i - n] = Bytes(o + len - (i - n), i - n)
    BY <2>2, <2>7
  <2>9. f[i] = Chunk(RestAt(o, len, i), i) \o f[i - n]
    BY <2>3, <2>4, <2>6, <1>4 DEF Reads
  <2> QED
    BY <2>3, <2>6, <2>8, <2>9
<1>6. f[len] = Bytes(o, len)
  <2>1. len \in 0 .. len /\ o + len - len = o
    OBVIOUS
  <2> QED
    BY <2>1, <1>5
<1> QED
  BY <1>3, <1>6, ReadIsReads

\* Twice the largest size of a file is how far a read from its end can reach.
ReadsBelow4GiB == 2 * MaxSize <= WIDTH

LEMMA ReadsRight == ReadsBelow4GiB /\ FileInv => ReadsTheFile
<1> SUFFICES ASSUME ReadsBelow4GiB, FileInv, NEW o \in Length, NEW len \in 0 .. MaxSize
             PROVE  Read(o, len) =
                      [k \in 1 .. len |-> IF o + k <= size THEN Content[o + k] ELSE 0]
  BY DEF ReadsTheFile
<1>1. o \in Nat /\ len \in Nat /\ o < WIDTH /\ o + len <= WIDTH
  BY Constants DEF Length, ReadsBelow4GiB
<1>2. RowsOK /\ size \in 0 .. MaxSize /\ ZerosBehindTheEnd
  BY DEF FileInv
<1>3. Read(o, len) = Bytes(o, len)
  BY <1>1, <1>2, ReadIsBytes
<1>4. ASSUME NEW k \in 1 .. len
      PROVE  ByteAt(o + k - 1) = IF o + k <= size THEN Content[o + k] ELSE 0
  <2>1. PICK x \in Nat \ {0} : x = o + k
    BY <1>1
  <2>2. x - 1 \in Nat /\ o + k - 1 = x - 1 /\ size \in Nat
    BY <2>1, <1>1, <1>2, Constants
  <2>3. CASE x <= size
    <3>1. x \in 1 .. size
      BY <2>1, <2>2, <2>3
    <3>2. Content[x] = ByteAt(x - 1)
      BY <3>1 DEF Content
    <3> QED
      BY <3>2, <2>1, <2>2, <2>3
  <2>4. CASE ~(x <= size)
    <3>1. x - 1 >= size
      BY <2>1, <2>2, <2>4
    <3>2. ByteAt(x - 1) = 0
      BY <3>1, <2>2, <1>2 DEF ZerosBehindTheEnd
    <3> QED
      BY <3>2, <2>1, <2>2, <2>4
  <2> QED
    BY <2>3, <2>4
<1> QED
  BY <1>3, <1>4 DEF Bytes

\* read answers the bytes of the file and zeros behind its end, wherever in whatever
\* block it starts and ends, over rows that are short, whole or not there, for every
\* block size, file and request below 4 GiB (read, filesystem.rs:812).
THEOREM ReadsAlwaysTheFile == ASSUME ReadsBelow4GiB PROVE Spec => []ReadsTheFile
<1>1. Below4GiB
  BY Constants DEF Below4GiB, ReadsBelow4GiB
<1>2. FileInv => ReadsTheFile
  BY ReadsRight
<1> QED
  BY <1>1, <1>2, FileInvHolds, PTL

---------------------------------------------------------------------------
(* The refinement: rows, size and request together are a byte file *)

Left(w) ==
    IF w = Idle \/ w.i > end_block(w) THEN [at |-> 0, bytes |-> <<>>]
    ELSE [at |-> w.offset + data_offset(w),
          bytes |-> SubSeq(w.bytes, data_offset(w) + 1, Len(w.bytes))]

LEMMA RemainingIsLeft ==
    ASSUME NEW w, NEW v, writing = w, writing' = v
    PROVE  Remaining = Left(w) /\ Remaining' = Left(v)
BY DEF Remaining, Left, end_block, LastByte, data_offset, start_block

LEMMA NothingLeft == Left(Idle) = File!NoWrite
BY DEF Left, File!NoWrite

LEMMA SameContent ==
    ASSUME data' = data, size' = size
    PROVE  Content' = Content
BY DEF Content, ByteAt, get_data

LEMMA ContentFacts ==
    ASSUME RowsOK, size \in Nat
    PROVE  /\ Content \in Seq(Byte) /\ Len(Content) = size
           /\ \A k \in 1 .. size : Content[k] = ByteAt(k - 1)
<1>1. ASSUME NEW k \in 1 .. size PROVE ByteAt(k - 1) \in Byte
  <2>1. k - 1 \in Nat
    OBVIOUS
  <2> QED
    BY <2>1, BytesAreBytes
<1>2. Content \in [1 .. size -> Byte]
  BY <1>1 DEF Content
<1>3. \A k \in 1 .. size : Content[k] = ByteAt(k - 1)
  BY DEF Content
<1> QED
  BY <1>2, <1>3, Tuple

\* What is left of a request that stands at one of its blocks
LEMMA LeftFacts ==
    ASSUME Below4GiB, NEW w, IsRequest(w), w.i \in start_block(w) .. end_block(w)
    PROVE  /\ w # Idle
           /\ data_offset(w) \in Nat /\ data_offset(w) < Len(w.bytes)
           /\ Left(w) = [at |-> w.offset + data_offset(w),
                         bytes |-> SubSeq(w.bytes, data_offset(w) + 1, Len(w.bytes))]
           /\ Left(w).bytes \in Seq(Byte)
           /\ Len(Left(w).bytes) = Len(w.bytes) - data_offset(w)
           /\ \A k \in 1 .. Len(w.bytes) - data_offset(w) :
                Left(w).bytes[k] = w.bytes[data_offset(w) + k]
           /\ Left(w) # File!NoWrite
<1>1. PICK bytes \in Seq(Byte), n \in Nat \ {0} : bytes = w.bytes /\ n = Len(bytes)
  BY Request
<1>2. PICK d \in Nat : d = data_offset(w)
  BY Piece
<1>3. d < n
  <2>1. PICK from \in 0 .. BLOCK - 1, to \in 1 .. BLOCK :
          from = b_start_index(w) /\ to = b_end_index(w) /\ from < to
    BY Piece
  <2>2. d + to - from <= n
    <3>1. CASE w.i = end_block(w)
      <4>1. d + to - from = n
        BY <1>1, <1>2, <2>1, <3>1, Piece
      <4> QED
        BY <4>1
    <3>2. CASE w.i # end_block(w)
      <4>1. d + to - from < n
        BY <1>1, <1>2, <2>1, <3>2, Piece
      <4>2. d + to - from \in Int
        BY <2>1, Constants
      <4> QED
        BY <4>1, <4>2
    <3> QED
      BY <3>1, <3>2
  <2> QED
    BY <2>1, <2>2, Constants
<1>4. w # Idle
  <2>1. Len(Idle.bytes) = 0
    BY EmptySeq DEF Idle
  <2> QED
    BY <2>1, <1>1
<1>5. ~(w.i > end_block(w))
  <2>1. start_block(w) \in Nat \ {0} /\ end_block(w) \in Nat
    BY Request
  <2> QED
    BY <2>1
<1>6. Left(w) = [at |-> w.offset + d, bytes |-> SubSeq(bytes, d + 1, n)]
  BY <1>1, <1>2, <1>4, <1>5 DEF Left
<1>7. PICK s : s = SubSeq(bytes, d + 1, n)
  OBVIOUS
<1>8. s \in Seq(Byte) /\ Len(s) = n - d /\ \A k \in 1 .. n - d : s[k] = bytes[d + k]
  <2>1. n \in Nat /\ d <= n /\ n <= Len(bytes)
    BY <1>1, <1>3
  <2> QED
    BY <2>1, <1>7, Cut
<1>9. Left(w).bytes = s
  BY <1>6, <1>7
<1>10. Left(w) # File!NoWrite
  <2>1. Len(File!NoWrite.bytes) = 0
    BY EmptySeq DEF File!NoWrite
  <2>2. Len(s) # 0
    BY <1>3, <1>8
  <2> QED
    BY <2>1, <2>2, <1>9
<1> QED
  BY <1>1, <1>2, <1>3, <1>4, <1>6, <1>8, <1>9, <1>10

\* A request that comes in is a write that begins: all of it is left.
LEMMA BeginStep ==
    ASSUME Below4GiB, NEW o \in Offset, NEW bytes \in Payload, Write(o, bytes)
    PROVE  File!BeginWrite(o, bytes)
<1>1. PICK w : w = [offset |-> o, bytes |-> bytes, i |-> 0]
  OBVIOUS
<1>2. PICK v : v = [offset |-> o, bytes |-> bytes, i |-> start_block(w)]
  OBVIOUS
<1>3. writing = Idle /\ writing' = v /\ data' = data /\ size' = size
  BY <1>1, <1>2 DEF Write
<1>4. IsRequest(v) /\ v.offset = o /\ v.bytes = bytes
  BY <1>2 DEF IsRequest
<1>5. start_block(v) = v.i
  BY <1>1, <1>2 DEF start_block
<1>6. v.i \in start_block(v) .. end_block(v)
  <2>1. /\ start_block(v) \in Nat \ {0} /\ end_block(v) \in Nat
        /\ start_block(v) <= end_block(v)
    BY <1>4, Request
  <2> QED
    BY <2>1, <1>5
<1>7. data_offset(v) = 0
  <2>1. ~(v.i > start_block(v))
    <3>1. start_block(v) \in Nat
      BY <1>4, Request
    <3> QED
      BY <3>1, <1>5
  <2> QED
    BY <2>1 DEF data_offset
<1>8. Left(v) = [at |-> o, bytes |-> bytes]
  <2>1. PICK s : s = SubSeq(bytes, 0 + 1, Len(bytes))
    OBVIOUS
  <2>2. bytes \in Seq(Byte) /\ Len(bytes) \in Nat /\ o \in Nat
    BY <1>4, Request
  <2>3. /\ s \in Seq(Byte) /\ Len(s) = Len(bytes) - 0
        /\ \A k \in 1 .. Len(bytes) - 0 : s[k] = bytes[0 + k]
    BY <2>1, <2>2, Cut
  <2>4. Len(s) = Len(bytes) /\ \A k \in 1 .. Len(s) : s[k] = bytes[k]
    BY <2>2, <2>3
  <2>5. s = bytes
    BY <2>2, <2>3, <2>4, SeqEqual
  <2>6. Left(v) = [at |-> o + 0, bytes |-> s]
    BY <1>4, <1>6, <1>7, <2>1, LeftFacts
  <2> QED
    BY <2>2, <2>5, <2>6
<1>9. Remaining = File!NoWrite /\ Remaining' = [at |-> o, bytes |-> bytes]
  BY <1>3, <1>8, RemainingIsLeft, NothingLeft
<1> QED
  BY <1>3, <1>9, SameContent DEF File!BeginWrite

\* A block written is the next piece of the write.
LEMMA PieceStep ==
    ASSUME Below4GiB, FileInv, WriteBlock
    PROVE  \E n \in 1 .. Len(Remaining.bytes) : File!WriteSome(n)
<1>1. PICK w : w = writing
  OBVIOUS
<1>2. PICK end : end = w.offset + data_offset(w) + b_end_index(w) - b_start_index(w)
  OBVIOUS
<1>3. /\ w \in [offset : Offset, bytes : Payload, i : Nat] /\ IsRequest(w)
      /\ w.i \in start_block(w) .. end_block(w)
      /\ data' = [b \in DOMAIN data \cup {w.i} |-> IF b = w.i THEN BlockData(w) ELSE data[b]]
      /\ end \in 0 .. MaxSize
      /\ size' = IF end > size THEN end ELSE size
      /\ writing' = [w EXCEPT !.i = @ + 1]
  BY <1>1, <1>2, AWriteBlock
<1>4. RowsOK /\ size \in Nat /\ ZerosBehindTheEnd
  BY Constants DEF FileInv
<1>5. PICK o \in Nat, bytes \in Seq(Byte), len \in Nat, d \in Nat :
        o = w.offset /\ bytes = w.bytes /\ len = Len(bytes) /\ d = data_offset(w) /\ d < len
  <2>1. w.offset \in Nat /\ w.bytes \in Seq(Byte) /\ Len(w.bytes) \in Nat
    BY <1>3, Request
  <2>2. data_offset(w) \in Nat /\ data_offset(w) < Len(w.bytes)
    BY <1>3, LeftFacts
  <2> QED
    BY <2>1, <2>2
<1>6. PICK from \in 0 .. BLOCK - 1, to \in 1 .. BLOCK :
        from = b_start_index(w) /\ to = b_end_index(w) /\ from < to
  BY <1>3, Piece
<1>7. PICK n \in Nat \ {0} : n = to - from /\ d + to - from = d + n
  BY <1>6, Constants
<1>8. PICK pos \in Nat : pos = o + d
  OBVIOUS
<1>9. end = pos + n
  BY <1>2, <1>5, <1>6, <1>7, <1>8
<1>10. /\ w.i = end_block(w) => d + n = len
       /\ w.i # end_block(w) => d + n < len
  BY <1>3, <1>5, <1>6, <1>7, Piece
<1>11. d + n <= len
  BY <1>10
<1>12. PICK left : left = Left(w)
  OBVIOUS
<1>13. /\ left.at = pos /\ left.bytes \in Seq(Byte) /\ Len(left.bytes) = len - d
       /\ left.bytes = SubSeq(bytes, d + 1, len)
       /\ \A k \in 1 .. len - d : left.bytes[k] = bytes[d + k]
  <2>1. /\ Left(w) = [at |-> w.offset + data_offset(w),
                      bytes |-> SubSeq(w.bytes, data_offset(w) + 1, Len(w.bytes))]
        /\ Left(w).bytes \in Seq(Byte)
        /\ Len(Left(w).bytes) = Len(w.bytes) - data_offset(w)
        /\ \A k \in 1 .. Len(w.bytes) - data_offset(w) :
             Left(w).bytes[k] = w.bytes[data_offset(w) + k]
    BY <1>3, LeftFacts
  <2>2. left.at = w.offset + data_offset(w)
        /\ left.bytes = SubSeq(w.bytes, data_offset(w) + 1, Len(w.bytes))
    BY <2>1, <1>12
  <2>3. left.at = pos /\ left.bytes = SubSeq(bytes, d + 1, len)
    BY <2>2, <1>5, <1>8
  <2>4. /\ left.bytes \in Seq(Byte) /\ Len(left.bytes) = len - d
        /\ \A k \in 1 .. len - d : left.bytes[k] = bytes[d + k]
    BY <2>1, <1>5, <1>12
  <2> QED
    BY <2>3, <2>4
<1>14. n \in 1 .. len - d
  BY <1>11
<1>15. PICK s : s = SubSeq(left.bytes, 1, n)
  OBVIOUS
<1>16. s \in Seq(Byte) /\ Len(s) = n /\ \A k \in 1 .. n : s[k] = bytes[d + k]
  <2>1. n \in Nat /\ 0 <= n /\ n <= Len(left.bytes) /\ 0 \in Nat
    BY <1>13, <1>14
  <2>2. /\ SubSeq(left.bytes, 0 + 1, n) \in Seq(Byte) /\ Len(SubSeq(left.bytes, 0 + 1, n)) = n - 0
        /\ \A k \in 1 .. n - 0 : SubSeq(left.bytes, 0 + 1, n)[k] = left.bytes[0 + k]
    BY <2>1, <1>13, Cut
  <2>3. s \in Seq(Byte) /\ Len(s) = n /\ \A k \in 1 .. n : s[k] = left.bytes[k]
    BY <2>2, <1>15
  <2> QED
    BY <2>3, <1>13, <1>14
<1>17. \A at \in Nat : ByteAt(at)' = IF pos <= at /\ at < pos + n
                                     THEN bytes[at - o + 1] ELSE ByteAt(at)
  <2> SUFFICES ASSUME NEW at \in Nat
               PROVE  ByteAt(at)' = IF pos <= at /\ at < pos + n
                                    THEN bytes[at - o + 1] ELSE ByteAt(at)
    OBVIOUS
  <2>1. ByteAt(at)' = IF w.offset + data_offset(w) <= at /\ at < end
                      THEN w.bytes[at - w.offset + 1] ELSE ByteAt(at)
    BY <1>2, <1>3, <1>4, WrittenBytes
  <2> QED
    BY <2>1, <1>5, <1>8, <1>9
<1>18. Content' = File!Overlay(Content, left.at, s)
  <2>1. Content' = [k \in 1 .. size' |-> ByteAt(k - 1)']
    BY DEF Content
  <2>2. Content \in Seq(Byte) /\ Len(Content) = size
        /\ \A k \in 1 .. size : Content[k] = ByteAt(k - 1)
    BY <1>4, ContentFacts
  <2>3. File!Overlay(Content, left.at, s) =
          [k \in 1 .. (IF pos + n > size THEN pos + n ELSE size) |->
              IF k \in pos + 1 .. pos + n THEN s[k - pos]
              ELSE [j \in 1 .. k |-> IF j <= size THEN Content[j] ELSE 0][k]]
    BY <1>13, <1>16, <2>2 DEF File!Overlay, File!Resize
  <2>4. size' = IF pos + n > size THEN pos + n ELSE size
    BY <1>3, <1>9
  <2>5. size' \in Nat
    BY <2>4, <1>4
  <2>6. ASSUME NEW k \in 1 .. size'
        PROVE  ByteAt(k - 1)' = IF k \in pos + 1 .. pos + n THEN s[k - pos]
                  ELSE [j \in 1 .. k |-> IF j <= size THEN Content[j] ELSE 0][k]
    <3>1. PICK at \in Nat : at = k - 1 /\ k = at + 1
      BY <2>5
    <3>2. k \in pos + 1 .. pos + n <=> (pos <= at /\ at < pos + n)
      BY <3>1
    <3>3. CASE pos <= at /\ at < pos + n
      <4>1. PICK j \in 1 .. n : j = k - pos
        BY <3>1, <3>3
      <4>2. d + j = at - o + 1
        BY <4>1, <3>1, <1>8
      <4>3. s[k - pos] = bytes[at - o + 1]
        BY <4>1, <4>2, <1>16
      <4> QED
        BY <4>3, <3>1, <3>2, <3>3, <1>17
    <3>4. CASE ~(pos <= at /\ at < pos + n)
      <4>1. ByteAt(k - 1)' = ByteAt(at)
        BY <3>1, <3>4, <1>17
      <4>2. [j \in 1 .. k |-> IF j <= size THEN Content[j] ELSE 0][k]
              = IF k <= size THEN Content[k] ELSE 0
        BY <3>1
      <4>3. CASE k <= size
        <5>1. Content[k] = ByteAt(at)
          BY <4>3, <3>1, <2>2, <1>4
        <5> QED
          BY <5>1, <4>1, <4>2, <4>3, <3>2, <3>4
      <4>4. CASE ~(k <= size)
        <5>1. at >= size
          BY <4>4, <3>1, <1>4
        <5>2. ByteAt(at) = 0
          BY <5>1, <1>4 DEF ZerosBehindTheEnd
        <5> QED
          BY <5>2, <4>1, <4>2, <4>4, <3>2, <3>4
      <4> QED
        BY <4>3, <4>4
    <3> QED
      BY <3>3, <3>4
  <2> QED
    BY <2>1, <2>3, <2>4, <2>6
<1>19. PICK v : v = [w EXCEPT !.i = @ + 1]
  OBVIOUS
<1>20. /\ writing' = v /\ v.offset = w.offset /\ v.bytes = w.bytes /\ v.i = w.i + 1
       /\ IsRequest(v) /\ start_block(v) = start_block(w) /\ end_block(v) = end_block(w)
  <2>1. writing' = v /\ v.offset = w.offset /\ v.bytes = w.bytes /\ v.i = w.i + 1
    BY <1>3, <1>19
  <2> QED
    BY <2>1, <1>3 DEF IsRequest, start_block, end_block, LastByte
<1>21. PICK sb \in Nat \ {0}, eb \in Nat, i \in Nat :
         sb = start_block(w) /\ eb = end_block(w) /\ i = w.i /\ sb <= i /\ i <= eb
  <2>1. start_block(w) \in Nat \ {0} /\ end_block(w) \in Nat
    BY <1>3, Request
  <2> QED
    BY <2>1, <1>3
<1>22. Left(v) = File!Rest(left, n)
  <2>1. CASE i = eb
    <3>1. v.i > end_block(v)
      BY <2>1, <1>20, <1>21
    <3>2. Left(v) = File!NoWrite
      BY <3>1 DEF Left, File!NoWrite
    <3>3. n = Len(left.bytes)
      BY <2>1, <1>10, <1>13, <1>21
    <3> QED
      BY <3>2, <3>3 DEF File!Rest
  <2>2. CASE i # eb
    <3>1. d + n < len
      BY <2>2, <1>10, <1>21
    <3>2. v.i \in start_block(v) .. end_block(v)
      BY <2>2, <1>20, <1>21
    <3>3. data_offset(v) = d + n
      <4>1. (w.i - start_block(w)) * BLOCK + BLOCK - (w.offset % BLOCK) = d + n
        <5>1. (w.i - start_block(w)) * BLOCK + BLOCK - (w.offset % BLOCK) = d + to - from
          BY <1>3, <1>5, <1>6, <1>21, <2>2, Piece
        <5> QED
          BY <5>1, <1>7
      <4>2. v.i > start_block(v) /\ v.i - start_block(v) - 1 = w.i - start_block(w)
        BY <1>20, <1>21
      <4>3. u32(v.offset) = w.offset
        BY <1>20, Request
      <4> QED
        BY <4>1, <4>2, <4>3 DEF data_offset
    <3>4. Left(v) = [at |-> o + (d + n), bytes |-> SubSeq(bytes, (d + n) + 1, len)]
      BY <3>2, <3>3, <1>5, <1>20, LeftFacts
    <3>5. PICK m \in Nat : m = d + n /\ m < len
      BY <3>1
    <3>6. PICK t : t = SubSeq(bytes, m + 1, len)
      OBVIOUS
    <3>7. t \in Seq(Byte) /\ Len(t) = len - m /\ \A k \in 1 .. len - m : t[k] = bytes[m + k]
      <4>1. m <= len /\ len <= Len(bytes)
        BY <3>5, <1>5
      <4> QED
        BY <4>1, <3>6, Cut
    <3> DEFINE p == len - d
    <3>8. p \in Nat /\ p = Len(left.bytes)
      BY <1>5, <1>13
    <3>9. PICK u : u = SubSeq(left.bytes, n + 1, Len(left.bytes))
      OBVIOUS
    <3> HIDE DEF p
    <3>10. u \in Seq(Byte) /\ Len(u) = p - n /\ \A k \in 1 .. p - n : u[k] = left.bytes[n + k]
      <4>1. n \in Nat /\ n <= p /\ p <= Len(left.bytes) /\ left.bytes \in Seq(Byte)
        BY <3>8, <1>13, <1>14
      <4>2. /\ SubSeq(left.bytes, n + 1, p) \in Seq(Byte)
            /\ Len(SubSeq(left.bytes, n + 1, p)) = p - n
            /\ \A k \in 1 .. p - n : SubSeq(left.bytes, n + 1, p)[k] = left.bytes[n + k]
        BY <4>1, <3>8, Cut
      <4>3. u = SubSeq(left.bytes, n + 1, p)
        BY <3>8, <3>9
      <4> QED
        BY <4>2, <4>3
    <3>11. Len(t) = Len(u)
      BY <3>5, <3>7, <3>8, <3>10 DEF p
    <3>12. ASSUME NEW k \in 1 .. Len(t) PROVE t[k] = u[k]
      <4>1. k \in 1 .. len - m /\ k \in 1 .. p - n
        BY <3>7, <3>10, <3>11
      <4>2. PICK j \in 1 .. len - d : j = n + k /\ d + j = m + k
        BY <4>1, <3>5, <3>8 DEF p
      <4>3. u[k] = left.bytes[j]
        BY <4>1, <4>2, <3>10
      <4>4. left.bytes[j] = bytes[m + k]
        BY <4>2, <1>13
      <4> QED
        BY <4>1, <4>3, <4>4, <3>7
    <3>13. t = u
      BY <3>7, <3>10, <3>11, <3>12, SeqEqual
    <3>14. File!Rest(left, n) = [at |-> pos + n, bytes |-> u]
      <4>1. n # Len(left.bytes)
        BY <3>1, <1>13
      <4> QED
        BY <4>1, <3>9, <1>13 DEF File!Rest
    <3>15. o + (d + n) = pos + n
      BY <1>8
    <3>16. Left(v) = [at |-> pos + n, bytes |-> t]
      BY <3>4, <3>5, <3>6, <3>15
    <3> QED
      BY <3>13, <3>14, <3>16
  <2> QED
    BY <2>1, <2>2
<1>23. Remaining = left /\ Remaining' = Left(v)
  BY <1>1, <1>12, <1>20, RemainingIsLeft
<1>24. n \in 1 .. Len(Remaining.bytes)
  BY <1>13, <1>14, <1>23
<1>25. File!WriteSome(n)
  BY <1>15, <1>18, <1>22, <1>23 DEF File!WriteSome
<1> QED
  BY <1>24, <1>25

LEMMA LengthStep ==
    ASSUME Below4GiB, FileInv, NEW n \in Length, SetAttr(n)
    PROVE  File!SetLength(n)
<1>1. size' = n /\ \A at \in Nat : ByteAt(at)' = IF at < n THEN ByteAt(at) ELSE 0
  BY SetAttrInv
<1>2. writing = Idle /\ writing' = Idle
  BY DEF SetAttr
<1>3. Remaining = File!NoWrite /\ Remaining' = Remaining
  BY <1>2, RemainingIsLeft, NothingLeft
<1>4. RowsOK /\ size \in Nat /\ ZerosBehindTheEnd /\ n \in Nat
  BY Constants DEF FileInv, Length
<1>5. /\ Content \in Seq(Byte) /\ Len(Content) = size
      /\ \A k \in 1 .. size : Content[k] = ByteAt(k - 1)
  BY <1>4, ContentFacts
<1>6. Content' = [k \in 1 .. n |-> ByteAt(k - 1)']
  BY <1>1 DEF Content
<1>7. ASSUME NEW k \in 1 .. n
      PROVE  ByteAt(k - 1)' = IF k <= Len(Content) THEN Content[k] ELSE 0
  <2>1. PICK at \in Nat : at = k - 1 /\ k = at + 1 /\ at < n
    BY <1>4
  <2>2. ByteAt(k - 1)' = ByteAt(at)
    BY <2>1, <1>1
  <2>3. CASE k <= size
    <3>1. k \in 1 .. size
      BY <2>3, <2>1, <1>4
    <3> QED
      BY <3>1, <2>1, <2>2, <2>3, <1>5
  <2>4. CASE ~(k <= size)
    <3>1. at >= size
      BY <2>4, <2>1, <1>4
    <3>2. ByteAt(at) = 0
      BY <3>1, <1>4 DEF ZerosBehindTheEnd
    <3> QED
      BY <3>2, <2>2, <2>4, <1>5
  <2> QED
    BY <2>3, <2>4
<1>8. Content' = File!Resize(Content, n)
  BY <1>6, <1>7 DEF File!Resize
<1> QED
  BY <1>3, <1>8 DEF File!SetLength

LEMMA FileSpecStep == Below4GiB /\ FileInv /\ [Next]_vars => [File!Next]_(File!vars)
<1> SUFFICES ASSUME Below4GiB, FileInv, [Next]_vars
             PROVE  File!Next \/ UNCHANGED File!vars
  OBVIOUS
<1>1. CASE \E offset \in Offset, bytes \in Payload : Write(offset, bytes)
  <2>1. PICK offset \in Offset, bytes \in Payload : Write(offset, bytes)
    BY <1>1
  <2>2. File!BeginWrite(offset, bytes)
    BY <2>1, BeginStep
  <2> QED
    BY <2>2 DEF File!Next
<1>2. CASE WriteBlock
  BY <1>2, PieceStep DEF File!Next
<1>3. CASE Written
  <2>1. PICK w : w = writing /\ w.i > end_block(w)
    BY <1>3 DEF Written
  <2>2. writing' = Idle /\ data' = data /\ size' = size
    BY <1>3 DEF Written
  <2>3. Left(w) = File!NoWrite
    BY <2>1 DEF Left, File!NoWrite
  <2>4. Remaining = File!NoWrite /\ Remaining' = File!NoWrite
    BY <2>1, <2>2, <2>3, RemainingIsLeft, NothingLeft
  <2> QED
    BY <2>2, <2>4, SameContent DEF File!vars
<1>4. CASE WriteFails
  <2>1. PICK w : w = writing
    OBVIOUS
  <2>2. w # Idle /\ w.i <= end_block(w) /\ writing' = Idle /\ data' = data /\ size' = size
    BY <2>1, <1>4 DEF WriteFails
  <2>3. IsRequest(w) /\ w.i \in start_block(w) .. end_block(w) + 1
    BY <2>1, <2>2 DEF FileInv, AtWork, IsRequest
  <2>4. w.i \in start_block(w) .. end_block(w)
    <3>1. start_block(w) \in Nat \ {0} /\ end_block(w) \in Nat
      BY <2>3, Request
    <3> QED
      BY <3>1, <2>2, <2>3
  <2>5. Left(w) # File!NoWrite
    BY <2>3, <2>4, LeftFacts
  <2>6. Remaining # File!NoWrite /\ Remaining' = File!NoWrite
    BY <2>1, <2>2, <2>5, RemainingIsLeft, NothingLeft
  <2>7. File!Abandon
    BY <2>2, <2>6, SameContent DEF File!Abandon
  <2> QED
    BY <2>7 DEF File!Next
<1>5. CASE \E n \in Length : SetAttr(n)
  <2>1. PICK n \in Length : SetAttr(n)
    BY <1>5
  <2>2. File!SetLength(n)
    BY <2>1, LengthStep
  <2> QED
    BY <2>2 DEF File!Next
<1>6. CASE UNCHANGED vars
  <2>1. writing' = writing /\ data' = data /\ size' = size
    BY <1>6 DEF vars
  <2>2. Remaining' = Remaining
    BY <2>1, RemainingIsLeft
  <2> QED
    BY <2>1, <2>2, SameContent DEF File!vars
<1> QED
  BY <1>1, <1>2, <1>3, <1>4, <1>5, <1>6 DEF Next

\* The rows and the size are a byte file: a write puts each of its bytes in its place
\* and changes no other, piece by piece from the first one on, and a file made longer
\* continues with zeros, for every block size, file and request below 4 GiB
\* (filesystem.rs 865-947, 371, sqlite.rs 60-92).
THEOREM RowsImplementAByteFile == ASSUME Below4GiB PROVE Spec => FileSpec
<1>1. Init => File!Init
  <2> SUFFICES ASSUME Init PROVE File!Init
    OBVIOUS
  <2>1. size = 0 /\ writing = Idle
    BY DEF Init
  <2>2. Content = <<>>
    BY <2>1 DEF Content
  <2>3. Remaining = File!NoWrite
    BY <2>1 DEF Remaining, File!NoWrite
  <2> QED
    BY <2>2, <2>3 DEF File!Init
<1>2. FileInv /\ [Next]_vars => [File!Next]_(File!vars)
  BY FileSpecStep
<1> QED
  BY <1>1, <1>2, FileInvHolds, PTL DEF Spec, FileSpec, File!Spec
====
