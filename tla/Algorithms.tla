----------------------------- MODULE Algorithms -----------------------------
(***************************************************************************)
(* The algorithms that keep no state between calls, each run once on an    *)
(* input: fields of a packet written and read back, the entries of a       *)
(* section taken out of their words, the mesh of a section and of a pair   *)
(* of models, the states of a table of blocks taken apart.                 *)
(* What comes out is compared with what it should be, defined without      *)
(* them.                                                                   *)
(***************************************************************************)
EXTENDS PacketFields, ExtractBits, ChunkMesh, BlockTables, FiniteSets

CONSTANTS
    FieldPairs,     \* pairs of fields, one written behind the other
    EntryInputs,    \* [bits, words]: entries of so many bits, side by side in words
    Sections,       \* sections: of each block whether it is air
    ModelPairs,     \* [first, second, block]: what the renderer draws
    Tables,         \* [props, blocks]: what the generator is given
    Variants        \* [props, blocks, block, variant]: to be matched

SignedRange(n) == -Pow2[n - 1] .. Pow2[n - 1] - 1
UnsignedRange(n) == 0 .. Pow2[n] - 1

\* The values the writer's parameter has by its type, and strings whose limit is one
\* of the program's: four times the limit is a length still.
IsField(f) ==
    \/ /\ f.kind \in DOMAIN IntWidth \ {"bool"}
       /\ f.value \in IF IsSigned(f.kind) THEN SignedRange(IntWidth[f.kind] * ByteBits)
                                         ELSE UnsignedRange(IntWidth[f.kind] * ByteBits)
    \/ f.kind = "bool" /\ f.value \in {0, 1}
    \/ f.kind = "varint" /\ f.value \in SignedRange(Digits)
    \/ f.kind = "string" /\ f.value \in Seq(Byte) /\ f.max \in Nat /\ 4 * f.max < SignBit
    \/ f.kind = "uuid" /\ f.value \in [high : UnsignedRange(LongBytes * ByteBits), low : UnsignedRange(LongBytes * ByteBits)]
    \/ /\ f.kind = "position"
       /\ f.value \in [x : SignedRange(PositionXZBits), z : SignedRange(PositionXZBits),
                       y : SignedRange(PositionYBits)]

\* What the generator is given: it asserts parse_props of each property, looks at the
\* first value, and asserts that the offsets fit the bits it has for them.
IsTable(t) ==
    /\ t.props \in Seq(Range(t.props)) /\ t.blocks \in Seq(Seq(DOMAIN t.props)) /\ t.blocks # <<>>
    /\ \A p \in Range(t.props) :
          /\ p.kind \in {"enum", "bool", "int"} /\ parse_props(p)
          /\ p.values \in Seq(Range(p.values)) /\ p.values # <<>>
    /\ \A b \in DOMAIN t.blocks : prop_offset(t.blocks, b) < 2048

\* Elements with the corners of their boxes, integers here.
IsModel(m) ==
    m \in Seq(Range(m)) /\ \A e \in Range(m) : e.from \in Int \X Int \X Int /\ e.to \in Int \X Int \X Int

\* The code takes at most 8 bits out of words of 64, and reads all words of a section.
ASSUME AlgorithmsAssumption ==
    /\ \A pair \in FieldPairs : IsField(pair[1]) /\ IsField(pair[2])
    /\ \A t \in Tables : IsTable(t)
    /\ \A pair \in ModelPairs : IsModel(pair.first) /\ IsModel(pair.second) /\ pair.block \in Int
    /\ Blocks % WordBits = 0
    /\ \A input \in EntryInputs :
          /\ input.bits \in 1..WordBits
          /\ input.words \in [1 .. u64_count(input.bits) -> 0 .. Pow2[WordBits] - 1]

VARIABLES
    job,        \* the algorithm and its input
    output      \* <<>>, or what came out

algorithmVars == <<job, output>>

Jobs ==
    [of : {"fields"}, input : FieldPairs] \union [of : {"entries"}, input : EntryInputs]
        \union [of : {"section"}, input : Sections] \union [of : {"models"}, input : ModelPairs]
        \union [of : {"states"}, input : Tables]
        \union [of : {"variant"}, input : Variants]

Init == job \in Jobs /\ output = <<>>

Runs(algorithm, result) ==
    /\ job.of = algorithm /\ output = <<>>
    /\ output' = <<result>>
    /\ UNCHANGED job

Refused(f) == f.kind = "string" /\ StringTooLong(f.value, f.max)

\* The reader has a packet of exactly the two fields, if there is one.
ReadBack(pair) ==
    LET written == write_field(pair[1]) \o write_field(pair[2])
        first == read_field(pair[1], written, 0, Len(written))
        second == Then(first, LAMBDA at, v : read_field(pair[2], written, at, Len(written)))
    IN  IF \E i \in 1..2 : Refused(pair[i]) THEN <<Thrown, Thrown>> ELSE <<first, second>>

Fields == Runs("fields", ReadBack(job.input))

ExtractEntries == Runs("entries", Entries(job.input.words, job.input.bits))

SectionMesh == Runs("section", generate_vertices(job.input))

ModelMesh == Runs("models", RendererMesh(job.input.first, job.input.second, job.input.block))

LastState(t) == first_state_id(t.props, t.blocks, Len(t.blocks))
                    + StateCount(t.props, t.blocks[Len(t.blocks)]) - 1

DecodeStates ==
    Runs("states", [id \in 0 .. LastState(job.input) |->
                        StateProperties(job.input.props, job.input.blocks, id)])

MatchVariant ==
    Runs("variant", match_block_states(job.input.props, job.input.blocks, job.input.block, job.input.variant))

Next == Fields \/ ExtractEntries \/ SectionMesh \/ ModelMesh \/ DecodeStates \/ MatchVariant

Spec == Init /\ [][Next]_algorithmVars

Done(algorithm) == job.of = algorithm /\ output # <<>>
-----------------------------------------------------------------------------
\* A string of more bytes than its limit.
Long(f) == f.kind = "string" /\ Len(f.value) > f.max

\* The right result for the i-th field of a pair.
IsReadBack(pair, results, i) ==
    /\ results[i].status = "ok" /\ results[i].value = pair[i].value
    /\ results[i].at = Len(write_field(pair[1])) + (IF i = 1 THEN 0 ELSE Len(write_field(pair[i])))

\* Both fields are written, and none up to the i-th is a string of more bytes than
\* its limit.
WithinLimit(pair, i) == \A k \in 1..2 : ~Refused(pair[k]) /\ (k <= i => ~Long(pair[k]))

\* What packet_writer wrote packet_reader reads back: the value, and exactly its
\* bytes, so that the field behind it is found.  Nothing is said of strings of
\* more bytes than their limit: read_string refuses them (packet.cc:214), though their
\* characters, of up to four bytes each, may be within it.
FieldsReadBack ==
    Done("fields") =>
        \A i \in 1..2 : WithinLimit(job.input, i) => IsReadBack(job.input, output[1], i)

\* The bits of the words in a row: the first is the highest of the first word.
BitInRow(words, n) == Bit(words[n \div WordBits + 1], WordBits - 1 - (n % WordBits))

\* extract_bits returns of every entry, the ones that span two words and the last
\* one included, exactly its bits, the highest first, and nothing of its
\* neighbours or of what is behind the array.
EntriesReadBack ==
    Done("entries") =>
        LET bits == job.input.bits
        IN  \A i \in 0 .. Blocks - 1 :
               /\ output[1][i] \in 0 .. Pow2[bits] - 1
               /\ \A j \in 0 .. bits - 1 :
                     Bit(output[1][i], bits - 1 - j) = BitInRow(job.input.words, i * bits + j)

\* The triangles of a mesh, each its three corners.
Triangles(mesh) ==
    { << mesh.vertices[mesh.indices[3 * n + 1] + 1], mesh.vertices[mesh.indices[3 * n + 2] + 1],
         mesh.vertices[mesh.indices[3 * n + 3] + 1] >> : n \in 0 .. (Len(mesh.indices) \div 3) - 1 }

Normal(t) == cross(Add(t[2], Neg(t[1])), Add(t[3], Neg(t[1])))

\* Two triangles that make up the rectangle with these corners, seen from where
\* the normal points: OpenGL draws nothing else (GL_BACK is culled, GL_CCW).
Covers(t, u, corners, normal) ==
    /\ Range(t) \union Range(u) = corners
    /\ Cardinality(Range(t) \intersect Range(u)) = 2
    /\ \A s \in {t, u} :
          /\ Cardinality(Range(s)) = 3
          /\ \A i \in 1..3 : IF normal[i] = 0 THEN Normal(s)[i] = 0 ELSE normal[i] * Normal(s)[i] > 0

\* The faces between a solid block and air, or the outside.
Boundary(blocks) ==
    { b \in (Side \X Side \X Side) \X Range(Faces) :
        LET next == Add(b[1], b[2])
        IN  /\ ~blocks[Slot(b[1])]
            /\ (\E i \in 1..3 : next[i] \notin Side) \/ blocks[Slot(next)] }

\* The four corners of a face of a block, in halves.
Square(b) ==
    { c \in [1..3 -> -1 .. 2 * Size] :
        \A i \in 1..3 : IF b[2][i] = 0 THEN c[i] \in {2 * b[1][i] - 1, 2 * b[1][i] + 1}
                                       ELSE c[i] = 2 * b[1][i] + b[2][i] }

\* The mesh of a section is the boundary of what is solid in it: every face
\* between a block and air is there, once and to be seen from the air, and nothing
\* else is.
MeshIsBoundary ==
    Done("section") =>
        LET triangles == Triangles(output[1])
        IN  /\ Len(output[1].indices) = 6 * Cardinality(Boundary(job.input))
            /\ Cardinality(triangles) = 2 * Cardinality(Boundary(job.input))
            /\ \A b \in Boundary(job.input) :
                  \E t, u \in {s \in triangles : Range(s) \subseteq Square(b)} :
                      Covers(t, u, Square(b), b[2])

\* The faces drawn of a model that is moved down, element by element.
FacesDrawn(model, down) ==
    FlattenSeq([e \in DOMAIN model |->
        FlattenSeq([i \in DOMAIN ModelFaces |->
            IF ModelFaces[i] \in model[e].drawn
            THEN <<[elem |-> model[e], name |-> ModelFaces[i], down |-> down]>> ELSE <<>>])])

\* The corners of such a face: of the two sides of its box across each axis, the
\* ones it lies between, or the one it lies in.
QuadCorners(d) ==
    LET axis == CASE d.name \in {"west", "east"} -> 1 [] d.name \in {"down", "up"} -> 2
                  [] d.name \in {"north", "south"} -> 3
        fixed == IF d.name \in {"west", "down", "north"} THEN d.elem.from ELSE d.elem.to
        sides(k) == IF axis = k THEN {fixed[k]} ELSE {d.elem.from[k], d.elem.to[k]}
    IN  { Add(<<x, y, z>>, <<0, -d.down, 0>>) : x \in sides(1), y \in sides(2), z \in sides(3) }

IsUpright(elem) == \A k \in 1..3 : elem.from[k] <= elem.to[k]

\* Every face drawn of every element of both models is a rectangle, seen from
\* outside its element unless the element's box is inside out, the first model's a
\* block lower; the index of no face reaches into another's vertices, and flat
\* elements have no sides.
ModelsFaceOutward ==
    Done("models") =>
        LET faces == FacesDrawn(job.input.first, job.input.block) \o FacesDrawn(job.input.second, 0)
            at(n) == output[1].vertices[output[1].indices[n] + 1]
        IN  /\ Len(output[1].indices) = 6 * Len(faces)
            /\ \A k \in DOMAIN faces :
                  LET d == faces[k]
                      t == <<at(6 * k - 5), at(6 * k - 4), at(6 * k - 3)>>
                      u == <<at(6 * k - 2), at(6 * k - 1), at(6 * k)>>
                      normal == ModelFace(d.name, d.elem.from, d.elem.to).normal
                  IN  IF Cardinality(QuadCorners(d)) = 4 /\ IsUpright(d.elem)
                      THEN Covers(t, u, QuadCorners(d), normal)
                      ELSE Range(t) \union Range(u) = QuadCorners(d)

\* A state taken apart: each property of its block, the last first, with the value
\* the game numbered the state by, and an enum's word is the property's own.
IsDecoded(t, id, state) ==
    LET b == StateBlock(t.props, t.blocks, id)
        block == t.blocks[b]
        k == id - first_state_id(t.props, t.blocks, b)
        value(n) == GameValue(t.props, block, k, Len(block) + 1 - n)
    IN  /\ ~state.trap
        /\ Len(state.seen) = Len(block)
        /\ \A n \in DOMAIN state.seen :
              LET i == state.seen[n].property
              IN  /\ i = block[Len(block) + 1 - n]
                  /\ state.seen[n].value + 1 = value(n)
                  /\ t.props[i].kind = "enum" =>
                        Word(t.props, flags(t.props, i), state.seen[n].value) = t.props[i].values[value(n)]

\* The properties of a state's block have counts that COUNT_MASK holds.
CountsFit(t, id) ==
    \A i \in Range(t.blocks[StateBlock(t.props, t.blocks, id)]) : Len(t.props[i].values) <= COUNT_MASK

\* Iterating the state of a block whose properties have at most fifteen values each
\* takes it apart as the game put it together, whatever other blocks have.
\* Nothing is said of those with sixteen to 31, which the generator lets pass:
\* COUNT_MASK (block.hh:11) has one bit too few for them.
StatesDecode ==
    Done("states") =>
        \A id \in DOMAIN output[1] : CountsFit(job.input, id) => IsDecoded(job.input, id, output[1][id])

\* A variant of a resource is matched by exactly the states whose properties have
\* the values it names, in the order of values the generator asserts
\* (block_states.py: values[0] is True).
VariantsMatch ==
    Done("variant") =>
        output[1] =
            { id \in 0 .. LastState(job.input) :
                /\ StateBlock(job.input.props, job.input.blocks, id) = job.input.block
                /\ \A kv \in Range(job.input.variant) :
                      \A j \in DOMAIN job.input.blocks[job.input.block] :
                         LET t == job.input
                             p == t.props[t.blocks[t.block][j]]
                             k == id - first_state_id(t.props, t.blocks, t.block)
                             v == p.values[GameValue(t.props, t.blocks[t.block], k, j)]
                         IN  p.key = kv.key => kv.value = IF p.kind = "int" THEN ToString(v) ELSE v }
=============================================================================
