---- MODULE FileData ----
(***************************************************************************)
(* The contents of one file as the database holds them: the rows of table  *)
(* data, one per block, and metadata.size.  write, read and setattr of     *)
(* src/src/filesystem.rs with the transactions of sqlite.rs they make.     *)
(* A write is one transaction per block, so it can fail, or the process    *)
(* can die, with a part of it done; nothing else runs in between.          *)
(*                                                                         *)
(* Offsets and sizes come as 64-bit numbers and are kept as u32: WIDTH     *)
(* stands for 2^32.  Sums wrap, as in the release build.                   *)
(***************************************************************************)
EXTENDS Integers, Sequences

CONSTANTS
    BLOCK,      \* BLOCK_SIZE, 4096 in the code
    WIDTH,      \* 2^32 in the code
    Byte,       \* the values of a byte, 0 among them
    MaxOffset,  \* bound: the largest offset of a write
    MaxWrite    \* bound: the largest number of bytes in a write

ASSUME BlockAssumption == BLOCK \in Nat \ {0}
ASSUME WidthAssumption == WIDTH \in Nat \ {0} /\ WIDTH % BLOCK = 0
ASSUME FileByteAssumption == 0 \in Byte
ASSUME BoundsAssumption == MaxOffset \in Nat /\ MaxWrite \in Nat \ {0}

VARIABLES
    data,       \* block number -> the blob in its row, for the rows there are
    size,       \* metadata.size
    writing     \* the write handler at work: its request and its next block

vars == <<data, size, writing>>

Offset == 0 .. MaxOffset
Payload == UNION {[1 .. n -> Byte] : n \in 1 .. MaxWrite}
MaxSize == MaxOffset + MaxWrite
Length == 0 .. MaxSize

u32(n) == n % WIDTH

Idle == [offset |-> 0, bytes |-> <<>>, i |-> 0]

Init ==
    /\ data = <<>>
    /\ size = 0
    /\ writing = Idle

---------------------------------------------------------------------------
(* Blocks *)

\* Vec::resize(n, 0)
Resize(s, n) == [k \in 1 .. n |-> IF k <= Len(s) THEN s[k] ELSE 0]

\* A row that is not there reads as a block of zeros.
get_data(block) == IF block \in DOMAIN data THEN data[block] ELSE Resize(<<>>, BLOCK)

AtLeast(s, n) == IF Len(s) < n THEN Resize(s, n) ELSE s

\* Mutant: the last row is not cut inside
ReleaseWholeBlocks(offset) ==
    [b \in DOMAIN data \cap 1 .. (offset + BLOCK - 1) \div BLOCK |-> data[b]]

\* Mutant: a length that ends with a block is cut inside the next one, too
ReleaseCutsAlways(offset) ==
    [b \in (DOMAIN data \cap 1 .. offset \div BLOCK) \cup {offset \div BLOCK + 1} |->
        IF b = offset \div BLOCK + 1 THEN Resize(get_data(b), offset % BLOCK) ELSE data[b]]

\* Mutant: the row behind a length that ends with a block stays
ReleaseOneLate(offset) ==
    [b \in DOMAIN data \cap 1 .. offset \div BLOCK + 1 |->
        IF b = offset \div BLOCK + 1 /\ offset % BLOCK # 0
        THEN Resize(data[b], offset % BLOCK) ELSE data[b]]

\* The rows after "release all data after offset byte"
release_data(offset) ==
    LET whole == offset \div BLOCK
        tail == offset % BLOCK
        kept == DOMAIN data \cap 1 .. whole
    IN  [b \in (IF tail = 0 THEN kept ELSE kept \cup {whole + 1}) |->
            IF b = whole + 1 THEN Resize(get_data(b), tail) ELSE data[b]]

\* What read answers: len bytes, taken block by block
Read(offset, len) ==
    LET rest[left \in 0 .. len] ==
            IF left = 0 THEN <<>>
            ELSE LET at == u32(u32(offset) + len - left)
                     b_offset == at % BLOCK
                     b_end == IF (left + b_offset) \div BLOCK >= 1
                              THEN BLOCK ELSE left + b_offset
                     block == AtLeast(get_data(at \div BLOCK + 1), b_end)
                 IN  SubSeq(block, b_offset + 1, b_end)
                         \o rest[left - (b_end - b_offset)]
    IN  rest[len]

---------------------------------------------------------------------------
(* write *)

start_block(w) == u32(w.offset) \div BLOCK + 1
LastByte(w) == u32(u32(w.offset) + Len(w.bytes) - 1)
end_block(w) == LastByte(w) \div BLOCK + 1

b_start_index(w) == IF w.i = start_block(w) THEN u32(w.offset) % BLOCK ELSE 0
b_end_index(w) == IF w.i = end_block(w) THEN (LastByte(w) % BLOCK) + 1 ELSE BLOCK

\* Mutant: the formula of implement.md 706, right only for writes that start a block
DataOffsetFromBlocks(w) == (w.i - start_block(w)) * BLOCK

\* The index in the request of the first byte that goes into block w.i
data_offset(w) ==
    IF w.i > start_block(w)
    THEN (w.i - start_block(w) - 1) * BLOCK + BLOCK - (u32(w.offset) % BLOCK)
    ELSE 0

\* The new blob of block w.i; a block written whole takes nothing from the old one.
BlockData(w) ==
    LET data_pre == AtLeast(get_data(w.i), BLOCK)
        from == b_start_index(w)
        to == b_end_index(w)
    IN  SubSeq(data_pre, 1, from)
            \o SubSeq(w.bytes, data_offset(w) + 1, data_offset(w) + to - from)
            \o SubSeq(data_pre, to + 1, BLOCK)

\* Upsert of the row; the size only grows.
write_data(block, blob, end) ==
    /\ data' = [b \in DOMAIN data \cup {block} |-> IF b = block THEN blob ELSE data[b]]
    /\ size' = IF end > size THEN end ELSE size

Write(offset, bytes) ==
    LET w == [offset |-> offset, bytes |-> bytes, i |-> 0]
    IN  /\ writing = Idle
        /\ writing' = [w EXCEPT !.i = start_block(w)]
        /\ UNCHANGED <<data, size>>

WriteBlock ==
    /\ writing # Idle
    /\ writing.i <= end_block(writing)
    /\ write_data(writing.i, BlockData(writing),
                  u32((writing.i - 1) * BLOCK + b_end_index(writing)))
    /\ writing' = [writing EXCEPT !.i = @ + 1]

\* reply.written: the whole request, whatever blocks the loop went through
Written ==
    /\ writing # Idle
    /\ writing.i > end_block(writing)
    /\ writing' = Idle
    /\ UNCHANGED <<data, size>>

\* A block that cannot be read or written ends the request with ENOENT; a process
\* that dies ends it without a word.
WriteFails ==
    /\ writing # Idle
    /\ writing.i <= end_block(writing)
    /\ writing' = Idle
    /\ UNCHANGED <<data, size>>

\* setattr with a size; update_inode cuts the data in the same transaction
SetAttr(n) ==
    /\ writing = Idle
    /\ size' = u32(n)
    /\ data' = IF size > u32(n) THEN release_data(u32(n)) ELSE data
    /\ UNCHANGED writing

Next ==
    \/ \E offset \in Offset, bytes \in Payload : Write(offset, bytes)
    \/ WriteBlock
    \/ Written
    \/ WriteFails
    \/ \E n \in Length : SetAttr(n)

Spec == Init /\ [][Next]_vars

---------------------------------------------------------------------------
(* Properties *)

Blob == UNION {[1 .. n -> Byte] : n \in 1 .. BLOCK}

\* Rows hold between one byte and a block; a handler at work stands at a block of
\* its request or just after the last one (write's loop, filesystem.rs:881).
TypeOK ==
    /\ DOMAIN data \subseteq 1 .. MaxSize + 1
    /\ \A b \in DOMAIN data : data[b] \in Blob
    /\ size \in 0 .. MaxSize
    /\ \/ writing = Idle
       \/ /\ writing.offset \in Offset /\ writing.bytes \in Payload
          /\ writing.i \in start_block(writing) .. MaxSize + 2

\* The byte at an offset as the rows have it
ByteAt(at) ==
    LET blob == get_data(at \div BLOCK + 1)
    IN  IF (at % BLOCK) < Len(blob) THEN blob[(at % BLOCK) + 1] ELSE 0

Content == [k \in 1 .. size |-> ByteAt(k - 1)]

\* read answers the bytes of the file and zeros after its end, at whatever offset in
\* whatever block it starts and ends, over rows that are short, whole or not there:
\* no byte that was cut off comes back (read, filesystem.rs:812, against write and
\* release_data).
ReadsTheFile ==
    \A offset \in Length, len \in 0 .. MaxSize :
        Read(offset, len) =
            [k \in 1 .. len |-> IF offset + k <= size THEN Content[offset + k] ELSE 0]

\* Cutting a file gives its blocks back: no row lies wholly behind the end
\* (release_data, sqlite.rs:60).
NoBlocksBehindTheEnd == \A b \in DOMAIN data : (b - 1) * BLOCK < size

\* The part of the write under way that is not in the database yet
Remaining ==
    IF writing = Idle \/ writing.i > end_block(writing) THEN [at |-> 0, bytes |-> <<>>]
    ELSE [at |-> writing.offset + data_offset(writing),
          bytes |-> SubSeq(writing.bytes, data_offset(writing) + 1, Len(writing.bytes))]

File == INSTANCE ByteFile WITH content <- Content, pending <- Remaining

\* The rows and the size are a byte file: a write puts each of its bytes in its
\* place and changes no other, piece by piece from the first one on, so one that
\* fails leaves a prefix; a file made longer continues with zeros, also after it was
\* cut inside a block or in a hole (filesystem.rs 865-947, 371, sqlite.rs 60-92).
FileSpec == File!Spec
====
