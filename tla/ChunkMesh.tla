------------------------------ MODULE ChunkMesh -----------------------------
(***************************************************************************)
(* The mesh of a section (world/chunk.cc: is_air_at, generate_face,        *)
(* generate_vertices), the debug sections it was written for and the mesh  *)
(* of a model (renderer/renderer.cc).  A vector is a triple of integers.   *)
(* A section's vertices are counted in half blocks, for generate_face adds *)
(* halves to the position of a block; colours and texture coordinates are  *)
(* left out, and the rotation of a model's element, which turns no face    *)
(* inside out.                                                             *)
(***************************************************************************)
EXTENDS Integers, Sequences, SequencesExt

CONSTANTS Size      \* the side of a section: 16

ASSUME ChunkMeshAssumption == Size \in Nat \ {0}

Side == 0 .. Size - 1

\* Where blocks has the block at x, y, z.
Slot(p) == p[3] * Size * Size + p[1] * Size + p[2]

Add(v, w) == [i \in 1..3 |-> v[i] + w[i]]
Neg(v) == [i \in 1..3 |-> -v[i]]
Twice(v) == [i \in 1..3 |-> 2 * v[i]]

cross(x, y) == << x[2] * y[3] - y[2] * x[3],
                  x[3] * y[1] - y[3] * x[1],
                  x[1] * y[2] - y[1] * x[2] >>

\* A mesh: its vertices and, in threes, the indices of its triangles.
EmptyMesh == [vertices |-> <<>>, indices |-> <<>>]

Extend(mesh, vertices, order) ==
    [vertices |-> mesh.vertices \o vertices,
     indices  |-> mesh.indices \o [i \in DOMAIN order |-> Len(mesh.vertices) + order[i]]]
-----------------------------------------------------------------------------
\* Outside the section all is air.
is_air_at(blocks, p) == (\E i \in 1..3 : p[i] \notin Side) \/ blocks[Slot(p)]

Faces == << <<1, 0, 0>>, <<-1, 0, 0>>, <<0, 1, 0>>, <<0, -1, 0>>, <<0, 0, 1>>, <<0, 0, -1>> >>

\* Slip: the corners in the other direction.
FaceCorners_Inward(normal) ==
    LET p0 == Add(Add(cross(normal, <<1, 0, 0>>), cross(normal, <<0, 1, 0>>)), cross(normal, <<0, 0, 1>>))
        p1 == cross(p0, normal)
    IN  <<p0, p1, Neg(p0), Neg(p1)>>

\* The corners of a face around its middle: a quarter turn from one to the next.
FaceCorners(normal) ==
    LET p0 == Add(Add(cross(normal, <<1, 0, 0>>), cross(normal, <<0, 1, 0>>)), cross(normal, <<0, 0, 1>>))
        p1 == cross(normal, p0)
    IN  <<p0, p1, Neg(p0), Neg(p1)>>

generate_face(mesh, position, normal) ==
    Extend(mesh,
           [i \in 1..4 |-> Add(Add(Twice(position), normal), FaceCorners(normal)[i])],
           <<0, 1, 3, 1, 2, 3>>)

Positions == [n \in 1 .. Size * Size * Size |->
                 << ((n - 1) \div Size) % Size, (n - 1) % Size, (n - 1) \div (Size * Size) >>]

\* Every face of every block, in the order of the loops.
BlockFaces == [n \in 1 .. 6 * Len(Positions) |-> << Positions[(n - 1) \div 6 + 1], Faces[((n - 1) % 6) + 1] >>]

\* blocks[i] tells whether block i is air, which has no faces.
Drawn(blocks, f) == ~blocks[Slot(f[1])] /\ is_air_at(blocks, Add(f[1], f[2]))

generate_vertices(blocks) ==
    LET mesh[n \in 0 .. Len(BlockFaces)] ==
            IF n = 0 THEN EmptyMesh
            ELSE IF Drawn(blocks, BlockFaces[n])
                 THEN generate_face(mesh[n - 1], BlockFaces[n][1], BlockFaces[n][2])
                 ELSE mesh[n - 1]
    IN  mesh[Len(BlockFaces)]

\* The debug section: columns as high as the noise says.
generate_debug_chunk(height) ==
    [i \in 0 .. Size ^ 3 - 1 |->
        \A x \in Side, z \in Side, y \in Side :
            i = Slot(<<x, y, z>>) => y >= height[x, z]]

\* The other debug section: a single block.
generate_debug_chunk2 == [i \in 0 .. Size ^ 3 - 1 |-> i # 0]
-----------------------------------------------------------------------------
\* The corners of a face of the box from f to t, as generate_model_mesh lists
\* them, and its normal.
ModelFace(name, f, t) ==
    CASE name = "down"  -> [normal |-> <<0, -1, 0>>, corners |->
            << <<f[1], f[2], f[3]>>, <<t[1], f[2], f[3]>>, <<f[1], f[2], t[3]>>, <<t[1], f[2], t[3]>> >>]
      [] name = "up"    -> [normal |-> <<0, 1, 0>>, corners |->
            << <<f[1], t[2], f[3]>>, <<f[1], t[2], t[3]>>, <<t[1], t[2], f[3]>>, <<t[1], t[2], t[3]>> >>]
      [] name = "north" -> [normal |-> <<0, 0, -1>>, corners |->
            << <<f[1], f[2], f[3]>>, <<f[1], t[2], f[3]>>, <<t[1], f[2], f[3]>>, <<t[1], t[2], f[3]>> >>]
      [] name = "south" -> [normal |-> <<0, 0, 1>>, corners |->
            << <<f[1], f[2], t[3]>>, <<t[1], f[2], t[3]>>, <<f[1], t[2], t[3]>>, <<t[1], t[2], t[3]>> >>]
      [] name = "east"  -> [normal |-> <<1, 0, 0>>, corners |->
            << <<t[1], f[2], f[3]>>, <<t[1], t[2], f[3]>>, <<t[1], f[2], t[3]>>, <<t[1], t[2], t[3]>> >>]
      [] name = "west"  -> [normal |-> <<-1, 0, 0>>, corners |->
            << <<f[1], f[2], f[3]>>, <<f[1], f[2], t[3]>>, <<f[1], t[2], f[3]>>, <<f[1], t[2], t[3]>> >>]

ModelFaces == <<"down", "up", "north", "south", "east", "west">>

\* An element has a box and the faces whose cullface is not ALWAYS.
should_draw_face(elem, name) == name \in elem.drawn

\* Slip: the quad's second triangle turned the other way.
QuadOrder_Flipped == <<0, 1, 2, 3, 1, 2>>

QuadOrder == <<0, 1, 2, 3, 2, 1>>

\* index_start is the number of vertices there are: four for every face drawn.
ElementMesh(mesh, elem) ==
    LET m[i \in 0 .. Len(ModelFaces)] ==
            IF i = 0 THEN mesh
            ELSE IF should_draw_face(elem, ModelFaces[i])
                 THEN Extend(m[i - 1], ModelFace(ModelFaces[i], elem.from, elem.to).corners, QuadOrder)
                 ELSE m[i - 1]
    IN  m[Len(ModelFaces)]

generate_model_mesh(mesh, model) ==
    LET m[e \in 0 .. Len(model)] == IF e = 0 THEN mesh ELSE ElementMesh(m[e - 1], model[e])
    IN  m[Len(model)]

\* What the constructor draws: one model, moved down by a block, and another.
RendererMesh(first, second, block) ==
    LET mesh == generate_model_mesh(EmptyMesh, first)
        lowered == [mesh EXCEPT !.vertices = [i \in DOMAIN @ |-> Add(@[i], <<0, -block, 0>>)]]
    IN  generate_model_mesh(lowered, second)
=============================================================================
