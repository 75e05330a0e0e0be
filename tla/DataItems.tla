----------------------------- MODULE DataItems ------------------------------
(***************************************************************************)
(* Data items as they are made for AO messages and uploads: laid out in a  *)
(* buffer, signed there, and read by their receiver at offsets of its own; *)
(* and bundles of them.                                                    *)
(*                                                                         *)
(* Hashes and signatures are external: Signature(k) is what the signer     *)
(* gives for the k-th item, and stands for the fields it was made of.      *)
(***************************************************************************)
EXTENDS TagCodec

CONSTANTS
    Options,      \* what items are made of: target, anchor (or None), tags, data
    None,
    Owner,        \* the signer's public key
    SigLength,    \* bytes of a signature (65)
    IdLength,     \* bytes of a target, an anchor, an ID (32)
    CountLength,  \* bytes of the counts of tags and of their bytes (8)
    SizeLength,   \* bytes of the counts and sizes of a bundle (32)
    Signature(_), \* the k-th signature,
    Id(_),        \* and the ID a signature gives an item
    MaxItems      \* bound: items made

VARIABLES
    opts,     \* options of the item at hand
    raw,      \* its binary, Thrown when createData threw, <<>> without one
    items,    \* items signed: options, binary, and what was signed
    bundle    \* binary of a bundle of them, or <<>>

vars == <<opts, raw, items, bundle>>

TypeOK ==
    /\ opts \in Options \cup {None}
    /\ raw \in Seq(Bytes) \cup {Thrown}
    /\ Len(items) <= MaxItems
    /\ \A i \in DOMAIN items : items[i].opts \in Options /\ items[i].raw \in Seq(Bytes)
    /\ bundle \in Seq(Bytes)

Init == opts = None /\ raw = <<>> /\ items = <<>> /\ bundle = <<>>

-----------------------------------------------------------------------------
(* utils.ts                                                                *)

\* Mutant: a byte is not masked.
ToBytesWhole(N, long) == [i \in 1 .. N |-> Rest(ByteBase, long, i - 1)]

\* longToNByteArray, for numbers that fit.
ToBytes(N, long) == [i \in 1 .. N |-> Rest(ByteBase, long, i - 1) % ByteBase]

ToLong(bytes) == Number(ByteBase, bytes)

-----------------------------------------------------------------------------
(* createData and sign                                                     *)

Flagged(part) == IF part = None THEN <<0>> ELSE <<1>> \o part

RightLength(part) == part = None \/ Len(part) = IdLength

\* The tags' bytes, none without a tag.
TagBytes(tags) == IF tags = <<>> THEN <<>> ELSE SerializeTags(tags)

\* createData.  The signature type is Ethereum's (3).
CreateData(o) ==
    LET tags == TagBytes(o.tags)
    IN IF tags = Thrown \/ ~RightLength(o.target) \/ ~RightLength(o.anchor) THEN Thrown
       ELSE ToBytes(2, 3) \o [i \in 1 .. SigLength |-> 0] \o Owner
            \o Flagged(o.target) \o Flagged(o.anchor)
            \o ToBytes(CountLength, Len(o.tags)) \o ToBytes(CountLength, Len(tags))
            \o tags \o o.data

\* A number that N bytes can hold.
Fits(N, n) == Rest(ByteBase, n, N) = 0

ASSUME ItemAssumption ==
    /\ {SigLength, IdLength, CountLength, SizeLength, MaxItems} \subseteq Nat
    /\ Owner \in Seq(Bytes)
    /\ None \notin Options /\ None \notin Seq(Bytes)
    /\ Thrown \notin Seq([name : Seq(Bytes), value : Seq(Bytes)])
    /\ \A k \in 1 .. MaxItems :
         /\ Signature(k) \in Seq(Bytes) /\ Len(Signature(k)) = SigLength
         /\ Id(Signature(k)) \in Seq(Bytes) /\ Len(Id(Signature(k))) = IdLength
    /\ Options \subseteq [target : Seq(Bytes) \cup {None}, anchor : Seq(Bytes) \cup {None},
                          tags : Seq(TagPairs), data : Seq(Bytes)]
    /\ Fits(CountLength, MaxTagBytes) /\ Fits(SizeLength, MaxItems)
    /\ \A o \in Options : CreateData(o) # Thrown => Fits(SizeLength, Len(CreateData(o)))

-----------------------------------------------------------------------------
(* DataItem                                                                *)

RawSignature(b) == Slice(b, 2, 2 + SigLength)
RawOwner(b) == Slice(b, 2 + SigLength, 2 + SigLength + Len(Owner))

TargetStart == 2 + SigLength + Len(Owner)

\* Bytes of an optional part at p, with its flag.
PartLength(b, p) == IF At(b, p) = 1 THEN IdLength + 1 ELSE 1

AnchorStart(b) == TargetStart + PartLength(b, TargetStart)

\* Computed apart from AnchorStart.
TagsStart(b) ==
    LET p == TargetStart + PartLength(b, TargetStart) IN p + PartLength(b, p)

\* An optional part, empty without its flag.
Part(b, p) == IF At(b, p) = 1 THEN Slice(b, p + 1, p + 1 + IdLength) ELSE <<>>
RawTarget(b) == Part(b, TargetStart)
RawAnchor(b) == Part(b, AnchorStart(b))

TagsCount(b) == ToLong(Slice(b, TagsStart(b), TagsStart(b) + CountLength))
TagsSize(b) ==
    ToLong(Slice(b, TagsStart(b) + CountLength, TagsStart(b) + 2 * CountLength))

\* Where the tags are, and the data after them.
TagsAt(b) == TagsStart(b) + 2 * CountLength
RawTags(b) == Slice(b, TagsAt(b), TagsAt(b) + TagsSize(b))
RawData(b) == Slice(b, TagsAt(b) + TagsSize(b), Len(b))

Tags(b) == IF TagsCount(b) = 0 THEN <<>> ELSE DeserializeTags(RawTags(b))

\* getSignatureData: what is hashed and signed.
SignatureData(b) == <<RawOwner(b), RawTarget(b), RawAnchor(b), RawTags(b), RawData(b)>>

\* Mutant: a full buffer of tags is too much.
TagsFitShort(b) == TagsSize(b) < MaxTagBytes

TagsFit(b) == TagsSize(b) <= MaxTagBytes

\* DataItem.verify of a binary whose signature was made of signedData.
Verify(b, signedData) ==
    /\ TagsFit(b)
    /\ TagsCount(b) > 0 =>
         DeserializeTags(RawTags(b)) # Thrown /\ Len(DeserializeTags(RawTags(b))) = TagsCount(b)
    /\ SignatureData(b) = signedData

-----------------------------------------------------------------------------
(* Bundle                                                                  *)

\* bundleAndSignData, of items that are signed: how many, a size and an ID for
\* each, the items.
BundleOf(raws) ==
    ToBytes(SizeLength, Len(raws))
    \o FlattenSeq([i \in DOMAIN raws |->
         ToBytes(SizeLength, Len(raws[i])) \o Id(RawSignature(raws[i]))])
    \o FlattenSeq(raws)

HeaderAt(i) == SizeLength + (i - 1) * (SizeLength + IdLength)
ItemCount(b) == ToLong(Slice(b, 0, SizeLength))
SizeOf(b, i) == ToLong(Slice(b, HeaderAt(i), HeaderAt(i) + SizeLength))
IdBy(b, i) == Slice(b, HeaderAt(i) + SizeLength, HeaderAt(i) + SizeLength + IdLength)

\* Mutant: items start before the last header.
BundleStartEarly(b) == HeaderAt(ItemCount(b))

BundleStart(b) == HeaderAt(ItemCount(b) + 1)

\* The sizes of the items before the i-th one.
Offset(b, i) ==
    LET offset[k \in 0 .. i - 1] == IF k = 0 THEN 0 ELSE offset[k - 1] + SizeOf(b, k)
    IN offset[i - 1]

ItemByIndex(b, i) ==
    LET start == BundleStart(b) + Offset(b, i) IN Slice(b, start, start + SizeOf(b, i))

-----------------------------------------------------------------------------

\* createEthereumDataItemSigner is asked for an item.
Create ==
    /\ raw = <<>> /\ bundle = <<>> /\ Len(items) < MaxItems
    /\ \E o \in Options : opts' = o /\ raw' = CreateData(o)
    /\ UNCHANGED <<items, bundle>>

\* createData has thrown.
Refuse ==
    /\ raw = Thrown
    /\ raw' = <<>> /\ opts' = None
    /\ UNCHANGED <<items, bundle>>

\* sign: the signature is put into the binary.
Sign ==
    /\ raw # <<>> /\ raw # Thrown
    /\ LET signed == Put(raw, 2, Signature(Len(items) + 1))
       IN items' = Append(items, [opts |-> opts, raw |-> signed, data |-> SignatureData(raw)])
    /\ raw' = <<>> /\ opts' = None
    /\ UNCHANGED bundle

\* The items are bundled.
MakeBundle ==
    /\ raw = <<>> /\ items # <<>> /\ bundle = <<>>
    /\ bundle' = BundleOf([i \in DOMAIN items |-> items[i].raw])
    /\ UNCHANGED <<opts, raw, items>>

Next == Create \/ Refuse \/ Sign \/ MakeBundle

Spec == Init /\ [][Next]_vars

-----------------------------------------------------------------------------
(* Properties                                                              *)

\* A receiver reads from a signed item what it was made of, whatever parts are
\* there, whatever is in them, and whatever the writer of the tags left in its
\* buffer on the way.
ItemReadsBack ==
    \A i \in DOMAIN items :
      LET o == items[i].opts
          b == items[i].raw
      IN /\ RawTarget(b) = IF o.target = None THEN <<>> ELSE o.target
         /\ RawAnchor(b) = IF o.anchor = None THEN <<>> ELSE o.anchor
         /\ RawData(b) = o.data
         /\ Tags(b) = [k \in DOMAIN o.tags |->
              [name |-> o.tags[k].name.bytes, value |-> o.tags[k].value.bytes]]

\* Every item that can be made passes verify, after its signature was put into
\* it and up to the last byte the tags may have.
ItemVerifies ==
    \A i \in DOMAIN items : Verify(items[i].raw, items[i].data)

\* How long the tags are, read off the format.
EncodedLength(tags) ==
    LET long(n) == Len(Groups(2 * n))
        string(s) == long(Len(s.bytes)) + Len(s.bytes)
        length[k \in 0 .. Len(tags)] ==
          IF k = 0 THEN long(Len(tags))
          ELSE length[k - 1] + string(tags[k].name) + string(tags[k].value)
    IN length[Len(tags)] + 1

\* createData throws for tags that are too long and for parts of a wrong length
\* and for nothing else, although the writer learns of it only at the end.
RefusedOnlyIfTooLong ==
    (opts # None) =>
      (raw = Thrown <=>
         \/ opts.tags # <<>> /\ EncodedLength(opts.tags) > MaxTagBytes
         \/ ~RightLength(opts.target) \/ ~RightLength(opts.anchor))

\* Bundle finds every item where bundleAndSignData has put it, with its ID.
BundleReadsBack ==
    bundle # <<>> =>
      /\ ItemCount(bundle) = Len(items)
      /\ \A i \in DOMAIN items :
           /\ ItemByIndex(bundle, i) = items[i].raw
           /\ IdBy(bundle, i) = Id(RawSignature(items[i].raw))

=============================================================================
