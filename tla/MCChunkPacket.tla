---------------------------- MODULE MCChunkPacket ---------------------------
(***************************************************************************)
(* Bytes of four bits, shorts of one byte, integers and longs of two; a    *)
(* section has eight blocks, a column room for two.  Trees of every type   *)
(* of tag but TAG_BYTE_ARRAY and of every kind of nesting up to three;     *)
(* data of up to three arbitrary bytes, and sections as servers send them, *)
(* with and without what they send of the biomes; packets that are cut     *)
(* short or lie about the size of the data.                                *)
(***************************************************************************)
EXTENDS ChunkPacket

Leaves == { Tag(TAG_BYTE, <<3>>), Tag(TAG_SHORT, <<0>>), Tag(TAG_INT, <<1, 9>>), Tag(TAG_LONG, <<0, 2>>),
            Tag(TAG_FLOAT, <<5, 0>>), Tag(TAG_DOUBLE, <<15, 1>>), Tag(TAG_STRING, <<>>),
            Tag(TAG_STRING, <<10, 0>>), Tag(TAG_INT_ARRAY, <<>>), Tag(TAG_INT_ARRAY, <<1, 2, 3, 4>>),
            Tag(TAG_LONG_ARRAY, <<0, 12>>), Tag(TAG_LIST, <<>>), Tag(TAG_COMPOUND, <<>>) }
Inner == {Tag(TAG_LIST, <<t, t>>) : t \in Leaves} \union {Tag(TAG_COMPOUND, << <<<<2>>, t>> >>) : t \in Leaves}
Outer == {Tag(TAG_LIST, <<t>>) : t \in Inner}
             \union {Tag(TAG_COMPOUND, << <<<<>>, t>>, <<<<7, 8>>, u>> >>) : t \in Inner,
                        u \in {Tag(TAG_BYTE, <<3>>), Tag(TAG_LIST, <<>>)}}
MCTags == Leaves \union Inner \union Outer
MCNesting == [t \in MCTags |-> IF t \in Leaves THEN 0 ELSE IF t \in Inner THEN 1 ELSE 2]

Deep == Tag(TAG_LIST, <<Tag(TAG_COMPOUND, << <<<<2>>, Tag(TAG_STRING, <<10, 0>>)>> >>)>>)

\* A section: single-valued, of four bits, of more than eight; then its biomes.
Single == <<1, 0, 5, 0>>
Indirect == <<1, 2, 2, 1, 0, 4>> \o [i \in 1..8 |-> i]
Direct == <<1, 9, 2, 1, 1, 1, 1>>
Biomes == <<0, 6, 0>>
MCData == UNION {[1..n -> {0, 1, 4, 15}] : n \in 0..3}
              \union { Single \o Biomes, Single \o Single, Indirect \o Biomes, Indirect \o Single \o Biomes,
                       Single \o Biomes \o Indirect \o Biomes, Direct \o Biomes \o Single }

\* All trees with one kind of data; all data with one kind of tree; all ways to
\* cut or lie about a packet.
MCSent ==
    [x : {1}, heightmaps : MCTags \union {NoTag}, data : {<<>>, Single}, lie : {0}, entities : {<<NoTag>>, <<Deep, Deep>>},
     light : {<<>>}, cut : {0}]
    \union
    [x : {-1}, heightmaps : {Deep}, data : MCData, lie : {0}, entities : {<<>>, <<Deep, NoTag>>},
     light : {<<0, 3>>}, cut : {0}]
    \union
    [x : {0}, heightmaps : {NoTag, Deep}, data : {Single, Indirect}, lie : {0, -20, -1, 1, 90}, entities : {<<NoTag, Deep>>},
     light : {<<0, 3>>}, cut : 0..30]
    \union
    [x : {0}, heightmaps : {NoTag}, data : {<<>>}, lie : {0}, entities : {<<t>> : t \in MCTags},
     light : {<<>>}, cut : {0}]
=============================================================================
