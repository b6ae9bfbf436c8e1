---- MODULE ByteFile ----
(***************************************************************************)
(* What the contents of a file are to those who use it: a sequence of      *)
(* bytes.  A write takes effect piece by piece from its first byte on, and *)
(* may stop after any piece; nothing else happens before it ends.          *)
(***************************************************************************)
EXTENDS Integers, Sequences

CONSTANTS
    Byte,       \* the values of a byte, 0 among them
    Offset,     \* the offsets at which writes start
    Payload,    \* the data of a write, sequences that are not empty
    Length      \* the lengths a file may be cut or extended to

VARIABLES
    content,    \* the bytes of the file
    pending     \* what is left of the write under way: where, and which bytes

vars == <<content, pending>>

NoWrite == [at |-> 0, bytes |-> <<>>]

Init == content = <<>> /\ pending = NoWrite

\* s cut to its first n bytes, or continued with zeros
Resize(s, n) == [k \in 1 .. n |-> IF k <= Len(s) THEN s[k] ELSE 0]

\* c with the bytes w from offset at on; a gap reads as zeros
Overlay(c, at, w) ==
    [k \in 1 .. (IF at + Len(w) > Len(c) THEN at + Len(w) ELSE Len(c)) |->
        IF k \in at + 1 .. at + Len(w) THEN w[k - at] ELSE Resize(c, k)[k]]

Rest(p, n) ==
    IF n = Len(p.bytes) THEN NoWrite
    ELSE [at |-> p.at + n, bytes |-> SubSeq(p.bytes, n + 1, Len(p.bytes))]

BeginWrite(at, w) ==
    /\ pending = NoWrite
    /\ pending' = [at |-> at, bytes |-> w]
    /\ UNCHANGED content

WriteSome(n) ==
    /\ content' = Overlay(content, pending.at, SubSeq(pending.bytes, 1, n))
    /\ pending' = Rest(pending, n)

Abandon ==
    /\ pending # NoWrite
    /\ pending' = NoWrite
    /\ UNCHANGED content

SetLength(n) ==
    /\ pending = NoWrite
    /\ content' = Resize(content, n)
    /\ UNCHANGED pending

Next ==
    \/ \E at \in Offset, w \in Payload : BeginWrite(at, w)
    \/ \E n \in 1 .. Len(pending.bytes) : WriteSome(n)
    \/ Abandon
    \/ \E n \in Length : SetLength(n)

Spec == Init /\ [][Next]_vars
====
