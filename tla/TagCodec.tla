------------------------------ MODULE TagCodec ------------------------------
(***************************************************************************)
(* How a data item stores its tags: counts and lengths are zigzag integers *)
(* in groups of seven bits, strings are UTF-8.  The writer fills a buffer  *)
(* of fixed size and copies what it has used.                              *)
(*                                                                         *)
(* A string is a record of its UTF-8 bytes and the number of its UTF-16    *)
(* units, since the writer counts in both.  The sizes are constants, so    *)
(* that small strings reach every branch.  Loops are recursive functions   *)
(* of the number of their turns.                                           *)
(***************************************************************************)
EXTENDS Integers, SequencesExt

CONSTANTS
    GroupBase,     \* values of a group (128); a byte has one bit more
    IntLimit,      \* longs below it are written as integers (2^30)
    ReadGroups,    \* so many groups are read as an integer (4)
    Small,         \* strings of up to so many bytes are copied in a loop (64)
    MaxTagBytes,   \* size of the writer's buffer (4096)
    Thrown         \* an exception

ByteBase == 2 * GroupBase
Bytes == 0 .. ByteBase - 1

\* No character has more units than bytes.
Strings == {s \in [bytes : Seq(Bytes), units : Nat] : s.units <= Len(s.bytes)}
TagPairs == [name : Strings, value : Strings]

\* What is left of n when k digits have been taken from it.
Rest(base, n, k) ==
    LET rest[j \in Nat] == IF j = 0 THEN n ELSE rest[j - 1] \div base
    IN rest[k]

\* The number with these digits, the lowest one first.
Number(base, digits) ==
    LET sum[k \in 0 .. Len(digits)] ==
          IF k = 0 THEN 0 ELSE digits[Len(digits) - k + 1] + base * sum[k - 1]
    IN sum[Len(digits)]

\* A 32-bit integer: its range is four times IntLimit.
Wrap(m) == ((m + 2 * IntLimit) % (4 * IntLimit)) - 2 * IntLimit

ASSUME CodecAssumption ==
    /\ GroupBase \in Nat /\ GroupBase > 1
    /\ IntLimit \in Nat \ {0} /\ ReadGroups \in Nat /\ Small \in Nat
    /\ MaxTagBytes \in Nat
    /\ Rest(GroupBase, 2 * IntLimit, ReadGroups) > 0   \* they fit an integer
    /\ Thrown \notin Nat /\ Thrown \notin Seq(Bytes)

-----------------------------------------------------------------------------
(* Longs                                                                   *)

ZigZag(n) == IF n >= 0 THEN 2 * n ELSE -2 * n - 1

UnZigZag(m) == IF m % 2 = 0 THEN m \div 2 ELSE -((m + 1) \div 2)

\* All groups but the last one are flagged.
Groups(m) ==
    LET n == Min({k \in 1 .. m + 1 : Rest(GroupBase, m, k) = 0})
    IN [i \in 1 .. n |-> (IF i < n THEN GroupBase ELSE 0)
                         + (Rest(GroupBase, m, i - 1) % GroupBase)]

\* The bytes of a long.
LongBytes(n) ==
    Groups(IF n < IntLimit /\ n >= -IntLimit THEN Wrap(ZigZag(n)) ELSE ZigZag(n))

\* Past its end a buffer gives undefined, which counts as 0.
At(b, p) == IF p \in 0 .. Len(b) - 1 THEN b[p + 1] ELSE 0

\* Where the long at p ends.
EndOfLong(b, p) ==
    Min({q \in p + 1 .. p + Len(b) + 1 : At(b, q - 1) < GroupBase})

ReadLong(b, p) ==
    LET n == EndOfLong(b, p) - p
        m == Number(GroupBase, [i \in 1 .. n |-> At(b, p + i - 1) % GroupBase])
    IN UnZigZag(IF n <= ReadGroups THEN Wrap(m) ELSE m)

-----------------------------------------------------------------------------
(* The writer: a buffer and a position in it                               *)

\* Bytes outside of a buffer are not written.
Put(b, p, bytes) ==
    [i \in DOMAIN b |-> IF i - p \in DOMAIN bytes THEN bytes[i - p] ELSE b[i]]

WriteLong(tap, n) ==
    [buf |-> Put(tap.buf, tap.pos, LongBytes(n)),
     pos |-> tap.pos + Len(LongBytes(n))]

\* charCodeAt past the end is NaN, written as E0 80 80.
Garbage(n) == [i \in 1 .. 3 * n |-> IF i % 3 = 1 THEN ByteBase - 1 ELSE GroupBase]

\* Mutant: the length is counted in units.
WriteStringUnits(tap, s) ==
    LET start == WriteLong(tap, s.units)
    IN [buf |-> Put(start.buf, start.pos, s.bytes), pos |-> start.pos + s.units]

\* The loop over a short string counts to its length in bytes and takes units:
\* it writes past the string when it has fewer.  What does not fit is left out.
WriteString(tap, s) ==
    LET len == Len(s.bytes)
        start == WriteLong(tap, len)
        end == start.pos + len
        copied == IF len > Small THEN s.bytes ELSE s.bytes \o Garbage(len - s.units)
    IN [buf |-> IF end > MaxTagBytes THEN start.buf
                ELSE Put(start.buf, start.pos, copied),
        pos |-> end]

WriteTag(tap, t) == WriteString(WriteString(tap, t.name), t.value)

\* writeTags, for at least one tag.
WriteTags(tags) ==
    LET empty == [buf |-> [i \in 1 .. MaxTagBytes |-> 0], pos |-> 0]
        tap[k \in 0 .. Len(tags)] ==
          IF k = 0 THEN WriteLong(empty, Len(tags)) ELSE WriteTag(tap[k - 1], tags[k])
    IN WriteLong(tap[Len(tags)], 0)

\* Mutant: a full buffer is too much.
ToBufferFull(tap) == IF tap.pos >= MaxTagBytes THEN Thrown ELSE SubSeq(tap.buf, 1, tap.pos)

ToBuffer(tap) == IF tap.pos > MaxTagBytes THEN Thrown ELSE SubSeq(tap.buf, 1, tap.pos)

SerializeTags(tags) == ToBuffer(WriteTags(tags))

-----------------------------------------------------------------------------
(* The reader: a position, or Thrown, and the tags read so far             *)

\* subarray(from, to).
Slice(b, from, to) == SubSeq(b, from + 1, IF to < Len(b) THEN to ELSE Len(b))

\* The string at p.
ReadString(b, p) ==
    LET start == EndOfLong(b, p)
        end == start + ReadLong(b, p)
    IN [bytes |-> Slice(b, start, end), next |-> IF end > Len(b) THEN Thrown ELSE end]

ReadTag(b, r) ==
    LET name == ReadString(b, r.at)
        value == ReadString(b, name.next)
    IN IF name.next = Thrown \/ value.next = Thrown THEN [at |-> Thrown, tags |-> r.tags]
       ELSE [at |-> value.next,
             tags |-> Append(r.tags, [name |-> name.bytes, value |-> value.bytes])]

\* A block of tags; a negative count is followed by a size.  An empty block is
\* the last one.
ReadBlock(b, r) ==
    LET n == ReadLong(b, r.at)
        next == EndOfLong(b, r.at)
        read[k \in 0 .. IF n > 0 THEN n ELSE -n] ==
          IF k = 0 THEN [at |-> IF n > 0 THEN next ELSE EndOfLong(b, next), tags |-> r.tags]
          ELSE IF read[k - 1].at = Thrown THEN read[k - 1] ELSE ReadTag(b, read[k - 1])
    IN IF r.at = Thrown \/ n = 0 THEN r ELSE read[IF n > 0 THEN n ELSE -n]

\* A block has bytes, so that there are no more blocks than bytes.
DeserializeTags(b) ==
    LET block[k \in 0 .. Len(b)] ==
          IF k = 0 THEN [at |-> 0, tags |-> <<>>] ELSE ReadBlock(b, block[k - 1])
    IN IF block[Len(b)].at = Thrown THEN Thrown ELSE block[Len(b)].tags

=============================================================================
