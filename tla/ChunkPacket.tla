----------------------------- MODULE ChunkPacket ----------------------------
(***************************************************************************)
(* level_chunk_with_light_packet.cc and what it calls: the handler of a    *)
(* packet with a column of sections (world/chunk.cc, chunk.hh).  The       *)
(* sections are read through a reader on top of the packet's, which stops  *)
(* at data_size; load_biomes reads nothing, and nothing is read of a       *)
(* section with more than eight bits per entry, so the sections behind the *)
(* first are read from wherever the one before has stopped.                *)
(*                                                                         *)
(* Nothing of the data is kept but whether a section's blocks are air:     *)
(* entries and palettes are read and dropped.                              *)
(***************************************************************************)
EXTENDS Nbt, ExtractBits

CONSTANTS
    Height,         \* the sections a column has room for
    MaxCount,       \* bound: what m_count may happen to be
    Sent,           \* what servers send, see Bytes
    Tags,           \* the tags that occur in it
    Nesting         \* how deep each is nested

VARIABLES
    sent,           \* what the packet was made from
    packet,         \* its bytes
    taken,          \* how many of them have been taken
    phase,          \* the part of the handler that is next
    data_end,       \* where the reader of the sections ends
    m_count,        \* of the column: no constructor sets it
    section,        \* the loop over the sections
    is_air,         \* of each section of the column, whether its blocks are air
    heightmaps,     \* the tree read, <<>> before
    entity_count,   \* number_of_block_entities
    entities,       \* the trees of the block entities read
    process         \* "running", "terminated" or "aborted"

chunkVars == <<sent, packet, taken, phase, data_end, m_count, section, is_air,
               heightmaps, entity_count, entities, process>>
-----------------------------------------------------------------------------
NoTag == Tag(TAG_END, <<>>)     \* for a tree without a root

\* The tags in a tag.
Children(t) == CASE t.type = TAG_LIST -> Range(t.value)
                 [] t.type = TAG_COMPOUND -> {pair[2] : pair \in Range(t.value)}
                 [] OTHER -> {}

\* Lengths that fit the fields of their lengths.
IsShort(n) == n < Pow2[ShortBytes * ByteBits]
IsInt(n) == n < Pow2[IntBytes * ByteBits - 1]

IsArray(b, width) == b \in Seq(Byte) /\ Len(b) % width = 0 /\ IsInt(Len(b) \div width)

\* A tag as the format has it: not TAG_BYTE_ARRAY, which the client has not implemented.
IsTag(t) ==
    /\ t = Tag(t.type, t.value)
    /\ t.type \in DOMAIN NumberBytes \union {TAG_STRING, TAG_INT_ARRAY, TAG_LONG_ARRAY, TAG_LIST, TAG_COMPOUND}
    /\ t.type \in DOMAIN NumberBytes => t.value \in [1..NumberBytes[t.type] -> Byte]
    /\ t.type = TAG_STRING => t.value \in Seq(Byte) /\ IsShort(Len(t.value))
    /\ t.type = TAG_INT_ARRAY => IsArray(t.value, IntBytes)
    /\ t.type = TAG_LONG_ARRAY => IsArray(t.value, LongBytes)
    /\ t.type = TAG_LIST => /\ t.value \in Seq(Tags) /\ IsInt(Len(t.value))
                            /\ \A i \in DOMAIN t.value : t.value[i].type = t.value[1].type
    /\ t.type = TAG_COMPOUND => /\ t.value \in Seq(Seq(Byte) \X Tags)
                                /\ \A i \in DOMAIN t.value : IsShort(Len(t.value[i][1]))

IsVarint(n) == n \in -SignBit .. SignBit - 1

\* Tags are well formed and of finite depth, and servers send what they announce.
ASSUME ChunkPacketAssumption ==
    /\ Height \in Nat /\ MaxCount \in Nat
    /\ Nesting \in [Tags -> Nat]
    /\ \A t \in Tags : IsTag(t) /\ \A u \in Children(t) : Nesting[u] < Nesting[t]
    /\ \A p \in Sent :
          /\ p.heightmaps \in Tags \union {NoTag}
          /\ p.x \in Int /\ p.lie \in Int /\ p.cut \in Nat
          /\ p.data \in Seq(Byte) /\ p.light \in Seq(Byte) /\ p.entities \in Seq(Tags \union {NoTag})
          /\ IsVarint(Len(p.data) + p.lie) /\ IsVarint(Len(p.entities))

-----------------------------------------------------------------------------
\* A name and an array, each behind its length.
NameBytes(name) == write_int(Len(name), ShortBytes) \o name

ArrayBytes(b, width) == write_int(Len(b) \div width, IntBytes) \o b

\* A pair of a compound, and a tag without its name, as the format has them; p gives
\* the bytes of the tags in it.
PairBytes(p, pair) == <<pair[2].type>> \o NameBytes(pair[1]) \o p[pair[2]]

ListHead(v) == <<IF v = <<>> THEN TAG_END ELSE v[1].type>> \o write_int(Len(v), IntBytes)

PayloadOf(p, t) ==
    CASE t.type \in DOMAIN NumberBytes -> t.value
      [] t.type = TAG_STRING -> NameBytes(t.value)
      [] t.type = TAG_INT_ARRAY -> ArrayBytes(t.value, IntBytes)
      [] t.type = TAG_LONG_ARRAY -> ArrayBytes(t.value, LongBytes)
      [] t.type = TAG_LIST -> ListHead(t.value) \o FlattenSeq([i \in DOMAIN t.value |-> p[t.value[i]]])
      [] t.type = TAG_COMPOUND ->
            FlattenSeq([i \in DOMAIN t.value |-> PairBytes(p, t.value[i])]) \o <<TAG_END>>

Payload[t \in Tags] == PayloadOf(Payload, t)

\* A whole tree, its root named; or TAG_END alone.
Tree(t) == IF t.type = TAG_END THEN <<TAG_END>> ELSE <<t.type>> \o NameBytes(<<1>>) \o Payload[t]

Header(p) == write_int(p.x, IntBytes) \o write_int(0, IntBytes) \o Tree(p.heightmaps)
                 \o write_varint(Len(p.data) + p.lie)

Entity(t) == <<1>> \o write_int(2, ShortBytes) \o write_varint(3) \o Tree(t)

\* The packet made from p: lie is added to data_size, the last cut bytes are
\* missing.
Bytes(p) ==
    LET whole == Header(p) \o p.data \o write_varint(Len(p.entities))
                     \o FlattenSeq([i \in DOMAIN p.entities |-> Entity(p.entities[i])]) \o <<1>> \o p.light
    IN  SubSeq(whole, 1, Len(whole) - p.cut)
-----------------------------------------------------------------------------
ChunkInit ==
    /\ sent \in Sent
    /\ packet = Bytes(sent)
    /\ taken = 0
    /\ phase = "header"
    /\ data_end = 0
    /\ m_count \in 0 .. MaxCount
    /\ section = 0
    /\ is_air = [i \in 1..Height |-> TRUE]
    /\ heightmaps = <<>>
    /\ entity_count = 0
    /\ entities = <<>>
    /\ process = "running"

\* An assertion ends the process, and so does an exception: no handler has a catch.
Fails(r) == process' = IF r.status = "aborted" THEN "aborted" ELSE "terminated"

\* What has been read with r is used by next, unless r failed.
Reading(r, next(_, _)) ==
    IF r.status = "ok"
    THEN next(r.at, r.value) /\ taken' = r.at /\ UNCHANGED process
    ELSE Fails(r) /\ UNCHANGED <<taken, phase, data_end, section, is_air, heightmaps, entity_count, entities>>

At(where) == process = "running" /\ phase = where /\ UNCHANGED <<sent, packet, m_count>>

\* Coordinates, height maps and data_size.
read_header(s) ==
    Then(read_int(s, 0, Len(s), "i32"), LAMBDA i, x :
    Then(read_int(s, i, Len(s), "i32"), LAMBDA j, y :
    Then(read_nbt(s, j, Len(s)), LAMBDA k, tree :
    Then(read_varint(s, k, Len(s)), LAMBDA l, data_size :
        IF data_size < 0 THEN Thrown ELSE Ok(l, [tree |-> tree, end |-> l + data_size])))))

ReadHeader ==
    /\ At("header")
    /\ Reading(read_header(packet), LAMBDA i, header :
              /\ heightmaps' = <<header.tree>>
              /\ data_end' = header.end
              /\ phase' = "sections"
              /\ UNCHANGED <<section, is_air, entity_count, entities>>)

\* n varints in a row.
read_varints(s, end, n, from) ==
    LET after[i \in 0..n] == IF i = 0 THEN Ok(from, 0)
                             ELSE Then(after[i - 1], LAMBDA j, v : read_varint(s, j, end))
    IN  after[n]

\* load_blocks: whether the blocks are air afterwards.
load_blocks(s, begin, end, air) ==
    Then(read_int(s, begin, end, "u8"), LAMBDA i, bits :
        CASE bits = 0 -> Then(read_varints(s, end, 2, i), LAMBDA j, v : Ok(j, FALSE))
          [] bits \in 1..8 ->
                LET bits_per_entry == IF bits < 4 THEN 4 ELSE bits
                IN  Then(read_varint(s, i, end), LAMBDA j, palette_length :
                        IF palette_length < 0 THEN Thrown
                        ELSE Then(read_varints(s, end, palette_length + 1, j), LAMBDA k, v :
                             Then(read_bytes(s, k, end, u64_count(bits_per_entry) * LongBytes),
                                  LAMBDA l, words : Ok(l, air))))
          [] bits > 8 -> Ok(i, air))

\* chunk::load: the count of blocks, the blocks, and load_biomes, which is empty.
load(s, begin, end, air) ==
    Then(read_int(s, begin, end, "i16"), LAMBDA i, block_count : load_blocks(s, i, end, air))

SectionsEnd == IF data_end < Len(packet) THEN data_end ELSE Len(packet)

\* A round of the loop over the column.  Behind the column's sections lies memory
\* that belongs to something else: reading goes on there, and writing to it may
\* end the process.
LoadSection ==
    /\ At("sections")
    /\ section < m_count
    /\ LET air == IF section < Height THEN is_air[section + 1] ELSE TRUE
       IN  Reading(load(packet, taken, SectionsEnd, air), LAMBDA i, now :
               /\ is_air' = IF section < Height THEN [is_air EXCEPT ![section + 1] = now] ELSE is_air
               /\ section' = section + 1
               /\ UNCHANGED <<phase, data_end, heightmaps, entity_count, entities>>)

StrayWrite ==
    /\ At("sections")
    /\ Height <= section /\ section < m_count
    /\ process' = "aborted"
    /\ UNCHANGED <<taken, phase, data_end, section, is_air, heightmaps, entity_count, entities>>

\* Slip: the sections taken to end where reading them did.
SkipData_Not(s, begin, data) == Ok(begin, 0)

\* chunk_reader.discard(chunk_reader.remaining())
SkipData(s, begin, data) == discard(s, begin, Len(s), data - begin)

EndSections ==
    /\ At("sections")
    /\ section = m_count
    /\ Reading(Then(SkipData(packet, taken, data_end), LAMBDA i, skipped : read_varint(packet, i, Len(packet))),
               LAMBDA i, n :
                   /\ entity_count' = n
                   /\ phase' = "entities"
                   /\ UNCHANGED <<data_end, section, is_air, heightmaps, entities>>)

\* Coordinates, a type and a tree.
read_block_entity(s, at) ==
    Then(read_int(s, at, Len(s), "u8"), LAMBDA i, packed_xz :
    Then(read_int(s, i, Len(s), "i16"), LAMBDA j, y :
    Then(read_varint(s, j, Len(s)), LAMBDA k, type : read_nbt(s, k, Len(s)))))

LoadEntity ==
    /\ At("entities")
    /\ Len(entities) < entity_count
    /\ Reading(read_block_entity(packet, taken), LAMBDA i, tree :
              /\ entities' = Append(entities, tree)
              /\ UNCHANGED <<phase, data_end, section, is_air, heightmaps, entity_count>>)

\* trust_edges, and the light, which is not read.
EndPacket ==
    /\ At("entities")
    /\ Len(entities) >= entity_count
    /\ Reading(
          Then(read_bool(packet, taken, Len(packet)), LAMBDA i, trust_edges :
              discard(packet, i, Len(packet), Len(packet) - i)),
          LAMBDA i, light :
              /\ phase' = "done"
              /\ UNCHANGED <<data_end, section, is_air, heightmaps, entity_count, entities>>)

ChunkNext == ReadHeader \/ LoadSection \/ StrayWrite \/ EndSections \/ LoadEntity \/ EndPacket

ChunkSpec == ChunkInit /\ [][ChunkNext]_chunkVars
-----------------------------------------------------------------------------
\* The trees read are the trees sent, from exactly their bytes: after the header
\* the reader stands where the sections begin.  Trees sent are of every type of tag
\* but TAG_BYTE_ARRAY, whose constructor throws (IsTag, nbt.cc:129).
NbtExact ==
    /\ heightmaps # <<>> => heightmaps = <<sent.heightmaps>>
    /\ phase = "sections" /\ section = 0 => taken = Len(Header(sent))
    /\ sent.cut = 0 /\ sent.lie >= 0 /\ phase = "header" => process = "running"

\* Whatever the sections hold, however few or many are read from them and wherever
\* reading them stops, the block entities are read from where they begin: the
\* ones read are the first of those sent, no handler ends before it has read all of
\* them, and if the packet is whole nothing fails behind the sections.
BlockEntitiesAligned ==
    sent.lie = 0 =>
        /\ entities = SubSeq(sent.entities, 1, Len(entities))
        /\ phase = "done" => entities = sent.entities /\ taken = Len(packet)
        /\ phase = "entities" => entity_count = Len(sent.entities)
        /\ sent.cut = 0 /\ phase = "entities" => process = "running"
=============================================================================
