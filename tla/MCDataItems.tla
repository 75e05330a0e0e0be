---------------------------- MODULE MCDataItems -----------------------------
(***************************************************************************)
(* DataItems for TLC: bytes of three bits, groups of two, and strings that *)
(* reach every branch of the codec.                                        *)
(***************************************************************************)
EXTENDS DataItems

\* Characters of one, two and four bytes; the last one has two units.
a == [units |-> 1, bytes |-> <<1>>]
e == [units |-> 1, bytes |-> <<6, 4>>]
g == [units |-> 2, bytes |-> <<7, 4, 5, 4>>]

Rep(c, n) == [i \in 1 .. n |-> c]

\* What the codec sees of a string of characters.
Text(s) == [bytes |-> FlattenSeq([i \in DOMAIN s |-> s[i].bytes]),
            units |-> FoldLeft(LAMBDA n, c : n + c.units, 0, s)]

MCStrings ==
    {Text(s) : s \in {<<>>, <<a>>, <<e>>, <<g>>, <<a, e>>, <<e, e, a>>, Rep(a, 4),
                      Rep(a, 8), Rep(a, 9), Rep(a, 10), Rep(a, 11), Rep(e, 4)}}

Tag(n, v) == [name |-> n, value |-> v]

\* One tag of any two strings, and two tags of short ones.
MCTags ==
    {<<Tag(n, v)>> : n, v \in MCStrings}
    \cup {<<Tag(n, Text(<<a>>)), Tag(Text(<<e>>), v)>> :
            n, v \in {Text(s) : s \in {<<>>, <<e>>, <<g>>, <<a, e>>}}}

\* Parts with bytes that look like flags, one of a wrong length.
MCParts == {None, <<1, 0>>, <<0, 1>>}

MCOptions ==
    {[target |-> <<1, 1>>, anchor |-> None, tags |-> t, data |-> <<1>>] : t \in MCTags}
    \cup {[target |-> t, anchor |-> n, tags |-> ts, data |-> d] :
            t \in MCParts, n \in MCParts \cup {<<1>>},
            ts \in {<<>>, <<Tag(Text(<<a>>), Text(<<e>>))>>}, d \in {<<>>, <<1, 0, 7>>}}

MCOwner == <<1, 2>>

MCSignature(k) == [i \in 1 .. SigLength |-> k]
MCId(signature) == [i \in 1 .. IdLength |-> signature[1]]
=============================================================================
