----------------------------- MODULE MeshUpload -----------------------------
(***************************************************************************)
(* From vertex data to what GL and OptiX read: the constructors of Mesh,   *)
(* Cube, CubeSphere and Quad on one GL context, the VAO, VBO, IBO and      *)
(* ATTRIB classes they use, and OptixTriMeshLoader::fromMeshData.          *)
(*                                                                         *)
(* glBindBuffer and glVertexAttribPointer act on whatever is bound, so     *)
(* that an object is right only if every constructor finds and leaves the  *)
(* bindings as the others need them; render leaves its VAO bound.  The     *)
(* contents of a buffer are the ranges of bytes written to it.             *)
(***************************************************************************)
EXTENDS Integers, Sequences, FiniteSets

CONSTANTS
  Models,      \* what the loaders read: vertices, optional streams, indices
  CellCounts,  \* sizes of a CubeSphere's grid
  MaxObjects   \* bound on the objects made

(* MeshData_t *)
Streams == {"vertices", "normals", "tangents", "bitangents", "texcoords", "colors"}
Floats == [vertices |-> 3, normals |-> 3, tangents |-> 3, bitangents |-> 3,
           texcoords |-> 2, colors |-> 4]
(* ShaderConstants *)
Location == [colors |-> 0, vertices |-> 1, normals |-> 2, texcoords |-> 3,
             tangents |-> 4, bitangents |-> 5]
(* the order in which a constructor buffers the streams it has *)
BufferRank == [vertices |-> 1, normals |-> 2, tangents |-> 3, bitangents |-> 4,
               texcoords |-> 5, colors |-> 6]
(* fault: the texture coordinates are asked for before the bitangents *)
BindRank_Swapped == [vertices |-> 1, normals |-> 2, tangents |-> 3, bitangents |-> 5,
                     texcoords |-> 4, colors |-> 6]
(* the order in which the loop that binds asks for them *)
BindRank == [vertices |-> 1, normals |-> 2, tangents |-> 3, bitangents |-> 4,
             texcoords |-> 5, colors |-> 6]

ASSUME ModelsAssumption ==
  \A m \in Models : /\ m.n \in Nat \ {0}
                    /\ m.has \subseteq Streams \ {"vertices"}
                    /\ m.indices \in Seq(0..(m.n - 1))
                    /\ m.traced \in BOOLEAN
                    /\ m.traced => Len(m.indices) % 3 = 0
ASSUME CellsAssumption == CellCounts \subseteq Nat \ {0, 1}
ASSUME MaxObjectsAssumption == MaxObjects \in Nat

VARIABLES
  pc,                    \* where the constructor that runs is
  object,                \* the object under construction
  x, y,                  \* the cell of the grid
  objects,               \* the objects made
  vertexArray,           \* the vertex array that is bound, 0 is GL's own
  arrayBuffer,           \* what is bound to GL_ARRAY_BUFFER
  vaos, vbos, ibos,      \* GL objects by their handles
  offset,                \* of the VBO in use
  buffered, offsets,     \* streams buffered, and where
  i, bound               \* the loop over offsets, with what it has bound

gridVars == <<x, y>>
bindVars == <<vertexArray, arrayBuffer>>
loopVars == <<offset, buffered, offsets, i, bound>>
vars == <<pc, object, gridVars, objects, bindVars, vaos, vbos, ibos, loopVars>>

Handle == Len(objects) + 1

(* of one stream of what is built *)
Size(o, s) == IF s = "vertices" THEN o.position ELSE Floats[s]
Bytes(o, s) == IF s \in o.has THEN 4 * o.n * Size(o, s) ELSE 0
GetBufferSize(o) ==
  Bytes(o, "vertices") + Bytes(o, "normals") + Bytes(o, "tangents")
    + Bytes(o, "bitangents") + Bytes(o, "texcoords") + Bytes(o, "colors")

FirstBy(rank, todo) == CHOOSE s \in todo : \A t \in todo : rank[s] <= rank[t]

-----------------------------------------------------------------------------
(* What is built *)

(* the optix::Geometry of a traced mesh: its variables *)
NoGeometry == [normal_offset |-> 0, vertices |-> 0, primitives |-> 0]

NewObject(kind, n, position, has, indices) ==
  [kind |-> kind, n |-> n, position |-> position, has |-> {"vertices"} \cup has,
   indices |-> indices, side |-> 0, rt |-> NoGeometry]

NoObject == NewObject("none", 0, 3, {}, << >>)

CubeObject ==
  NewObject("cube", 24, 3, {"normals", "texcoords"},
            [k \in 1..36 |-> 4 * ((k - 1) \div 6) + <<0, 1, 2, 2, 3, 0>>[((k - 1) % 6) + 1]])
QuadObject == NewObject("quad", 4, 2, {}, <<0, 1, 2, 2, 3, 0>>)

(* fault: a new row begins where the next one will *)
BuildIndices_RowOff(cx, cy, width, height) ==
  IF cy >= height - 1 THEN << >>
  ELSE <<cy * width + cx, (cy + 1) * width + cx>>
         \o IF cx < width - 1 \/ cy >= height - 2 THEN << >>
            ELSE <<(cy + 1) * width + cx, (cy + 2) * width>>
(* "degenerate triangle technique at end of each row" *)
BuildIndices(cx, cy, width, height) ==
  IF cy >= height - 1 THEN << >>
  ELSE <<cy * width + cx, (cy + 1) * width + cx>>
         \o IF cx < width - 1 \/ cy >= height - 2 THEN << >>
            ELSE <<(cy + 1) * width + cx, (cy + 1) * width>>

-----------------------------------------------------------------------------
(* GL, as the classes of Render/ use it *)

Unset == [vbo |-> 0, size |-> 0, at |-> 0]
NewArray == [attribs |-> [l \in 0..5 |-> Unset], elements |-> 0]

Overwrite(data, s, at, bytes) ==
  {d \in data : d.at + d.bytes <= at \/ d.at >= at + bytes}
    \cup {[stream |-> s, at |-> at, bytes |-> bytes]}

(* VBO::buffer: the bytes go to the bound buffer, over what was there; GL  *)
(* refuses a range that does not fit                                       *)
BufferSubData(s, at, bytes) ==
  IF arrayBuffer = 0 \/ at + bytes > vbos[arrayBuffer].size THEN vbos
  ELSE [vbos EXCEPT ![arrayBuffer].data = Overwrite(vbos[arrayBuffer].data, s, at, bytes)]

BindElements(handle) == [vaos EXCEPT ![vertexArray].elements = handle]

-----------------------------------------------------------------------------
Init ==
  /\ pc = "idle" /\ object = NoObject /\ x = 0 /\ y = 0
  /\ objects = << >>
  /\ vertexArray = 0 /\ arrayBuffer = 0
  /\ vaos = [h \in {0} |-> NewArray] /\ vbos = << >> /\ ibos = << >>
  /\ offset = 0 /\ buffered = {} /\ offsets = << >>
  /\ i = 1 /\ bound = {}

Begin(o, where) ==
  /\ pc = "idle" /\ Len(objects) < MaxObjects
  /\ object' = o /\ pc' = where /\ x' = 0 /\ y' = 0
  /\ buffered' = {} /\ offsets' = << >> /\ i' = 1 /\ bound' = {}
  /\ UNCHANGED <<objects, bindVars, vaos, vbos, ibos, offset>>

(* of a model file, or of BART's and then traced as well *)
BeginMesh ==
  \E m \in Models :
    Begin(NewObject(IF m.traced THEN "traced" ELSE "mesh", m.n, 3, m.has, m.indices), "vao")
BeginCube == Begin(CubeObject, "vao")
BeginQuad == Begin(QuadObject, "vao")
BeginCubeSphere ==
  \E cells \in CellCounts :
    Begin([NewObject("sphere", 0, 3, {"texcoords"}, << >>) EXCEPT !.side = cells], "cells")

(* one turn of the two loops: a vertex, and the indices its cell adds *)
BuildCell ==
  /\ pc = "cells" /\ y < object.side
  /\ object' = [object EXCEPT !.n = @ + 1,
                              !.indices = @ \o BuildIndices(x, y, object.side, object.side)]
  /\ IF x + 1 < object.side THEN x' = x + 1 /\ y' = y ELSE x' = 0 /\ y' = y + 1
  /\ UNCHANGED <<pc, objects, bindVars, vaos, vbos, ibos, loopVars>>

EndCells ==
  /\ pc = "cells" /\ y = object.side
  /\ pc' = "vao"
  /\ UNCHANGED <<object, gridVars, objects, bindVars, vaos, vbos, ibos, loopVars>>

NewVAO ==
  /\ pc = "vao" /\ pc' = "vbo"
  /\ vaos' = [h \in DOMAIN vaos \cup {Handle} |-> IF h = Handle THEN NewArray ELSE vaos[h]]
  /\ vertexArray' = Handle
  /\ UNCHANGED <<object, gridVars, objects, arrayBuffer, vbos, ibos, loopVars>>

(* VBO::bind also takes the offset back to the beginning *)
NewVBO ==
  /\ pc = "vbo" /\ pc' = "ibo"
  /\ vbos' = Append(vbos, [size |-> GetBufferSize(object), data |-> {}])
  /\ arrayBuffer' = Handle /\ offset' = 0
  /\ UNCHANGED <<object, gridVars, objects, vertexArray, vaos, ibos,
                 buffered, offsets, i, bound>>

NewIBO ==
  /\ pc = "ibo" /\ pc' = "buffer"
  /\ ibos' = Append(ibos, object.indices)
  /\ vaos' = BindElements(Handle)
  /\ UNCHANGED <<object, gridVars, objects, bindVars, vbos, loopVars>>

Buffer ==
  /\ pc = "buffer" /\ buffered # object.has
  /\ LET s == FirstBy(BufferRank, object.has \ buffered) IN
       /\ vbos' = BufferSubData(s, offset, Bytes(object, s))
       /\ offsets' = Append(offsets, offset)
       /\ offset' = offset + Bytes(object, s)
       /\ buffered' = buffered \cup {s}
  /\ UNCHANGED <<pc, object, gridVars, objects, bindVars, vaos, ibos, i, bound>>

EndBuffer ==
  /\ pc = "buffer" /\ buffered = object.has
  /\ pc' = "bind"
  /\ UNCHANGED <<object, gridVars, objects, bindVars, vaos, vbos, ibos, loopVars>>

(* ATTRIB::bind: the attribute also remembers the buffer bound now.  The   *)
(* turn of the loop for the next offset takes the first stream that is     *)
(* there and not yet bound, whatever was buffered at that offset           *)
BindAttribute ==
  /\ pc = "bind" /\ i <= Len(offsets)
  /\ LET s == FirstBy(BindRank, object.has \ bound) IN
       /\ vaos' = [vaos EXCEPT ![vertexArray].attribs[Location[s]] =
                     [vbo |-> arrayBuffer, size |-> Size(object, s), at |-> offsets[i]]]
       /\ i' = i + 1 /\ bound' = bound \cup {s}
  /\ UNCHANGED <<pc, object, gridVars, objects, bindVars, vbos, ibos, offset, buffered, offsets>>

(* fault: the vertex array stays bound *)
UnbindVAO_Stays ==
  /\ pc = "bind" /\ i > Len(offsets)
  /\ pc' = "unbind_vbo"
  /\ UNCHANGED <<object, gridVars, objects, bindVars, vaos, vbos, ibos, loopVars>>
(* first, for what is unbound after it is no longer taken from the array *)
UnbindVAO ==
  /\ pc = "bind" /\ i > Len(offsets)
  /\ pc' = "unbind_vbo" /\ vertexArray' = 0
  /\ UNCHANGED <<object, gridVars, objects, arrayBuffer, vaos, vbos, ibos, loopVars>>

UnbindVBO ==
  /\ pc = "unbind_vbo" /\ pc' = "unbind_ibo"
  /\ arrayBuffer' = 0
  /\ UNCHANGED <<object, gridVars, objects, vertexArray, vaos, vbos, ibos, loopVars>>

UnbindIBO ==
  /\ pc = "unbind_ibo"
  /\ vaos' = BindElements(0)
  /\ IF object.kind = "traced" THEN pc' = "optix" /\ UNCHANGED objects
     ELSE pc' = "idle" /\ objects' = Append(objects, object)
  /\ UNCHANGED <<object, gridVars, bindVars, vbos, ibos, loopVars>>

Count(o, s) == IF s \in o.has THEN o.n ELSE 0
(* fault: counted in floats, not in normals *)
Geometry_InFloats(o) ==
  [normal_offset |-> 3 * Count(o, "normals"),
   vertices |-> Count(o, "vertices") + Count(o, "normals") + Count(o, "texcoords")
                  + Count(o, "tangents") + Count(o, "bitangents"),
   primitives |-> Len(o.indices) \div 3]
(* the vertex buffer is declared as float3s, of every stream but colors    *)
Geometry(o) ==
  [normal_offset |-> Count(o, "normals"),
   vertices |-> Count(o, "vertices") + Count(o, "normals") + Count(o, "texcoords")
                  + Count(o, "tangents") + Count(o, "bitangents"),
   primitives |-> Len(o.indices) \div 3]

FromMeshData ==
  /\ pc = "optix" /\ pc' = "idle"
  /\ objects' = Append(objects, [object EXCEPT !.rt = Geometry(object)])
  /\ UNCHANGED <<object, gridVars, bindVars, vaos, vbos, ibos, loopVars>>

(* render of any object: its vertex array stays bound *)
Draw ==
  /\ pc = "idle"
  /\ vertexArray' \in DOMAIN objects
  /\ UNCHANGED <<pc, object, gridVars, objects, arrayBuffer, vaos, vbos, ibos, loopVars>>

Construct ==
  \/ BuildCell \/ EndCells
  \/ NewVAO \/ NewVBO \/ NewIBO
  \/ Buffer \/ EndBuffer \/ BindAttribute
  \/ UnbindVAO \/ UnbindVBO \/ UnbindIBO \/ FromMeshData

Next ==
  \/ BeginMesh \/ BeginCube \/ BeginQuad \/ BeginCubeSphere
  \/ Construct
  \/ Draw

Spec == Init /\ [][Next]_vars

-----------------------------------------------------------------------------
(* Properties *)

Places == {"idle", "cells", "vao", "vbo", "ibo", "buffer", "bind",
           "unbind_vbo", "unbind_ibo", "optix"}
Object == [kind : {"none", "mesh", "traced", "cube", "quad", "sphere"},
           n : Nat, position : {2, 3}, has : SUBSET Streams, indices : Seq(Nat),
           side : Nat, rt : [normal_offset : Nat, vertices : Nat, primitives : Nat]]
BufferObject == [size : Nat, data : SUBSET [stream : Streams, at : Nat, bytes : Nat]]
Attribs == [0..5 -> [vbo : Nat, size : 0..4, at : Nat]]

(* What the constructors keep and what GL keeps have their types: one      *)
(* vertex array, vertex buffer and index buffer an object.                 *)
TypeOK ==
  /\ pc \in Places /\ object \in Object /\ x \in Nat /\ y \in Nat
  /\ objects \in Seq(Object)
  /\ vertexArray \in DOMAIN vaos /\ arrayBuffer \in 0..Len(vbos)
  /\ vaos \in [DOMAIN vaos -> [attribs : Attribs, elements : Nat]]
  /\ DOMAIN vaos \subseteq 0..Handle /\ 0..Len(objects) \subseteq DOMAIN vaos
  /\ vbos \in Seq(BufferObject)
  /\ ibos \in Seq(Seq(Nat))
  /\ Len(objects) <= Len(vbos) /\ Len(objects) <= Len(ibos)
  /\ offset \in Nat /\ i \in Nat /\ offsets \in Seq(Nat)
  /\ buffered \subseteq Streams /\ bound \subseteq Streams

(* However objects are built and drawn one after the other, an attribute   *)
(* of an object is enabled for exactly the streams it has, and reads, at   *)
(* the stream's own width, the range of the object's own buffer that the   *)
(* stream was written to and nothing has overwritten (Mesh::Mesh pairs     *)
(* offsets with streams by two separate chains of conditions).             *)
AttributesReadOwnData ==
  \A h \in DOMAIN objects : \A s \in Streams :
    LET a == vaos[h].attribs[Location[s]] IN
      IF s \in objects[h].has
      THEN /\ a.vbo = h /\ a.size = Size(objects[h], s)
           /\ [stream |-> s, at |-> a.at, bytes |-> Bytes(objects[h], s)] \in vbos[h].data
      ELSE a = Unset

(* An object's vertex array draws the object's own indices, which name     *)
(* vertices the object has: no other constructor, and no unbind, has       *)
(* replaced or cleared the element buffer the array remembers.             *)
ElementsAreOwn ==
  \A h \in DOMAIN objects :
    /\ vaos[h].elements = h
    /\ ibos[h] = objects[h].indices
    /\ \A k \in DOMAIN ibos[h] : ibos[h][k] < objects[h].n

(* The intersection program adds normal_offset to a vertex's index when it *)
(* is positive: it must then reach the float3 of the shared buffer where   *)
(* that vertex's normal is, within what the buffer is declared to hold.    *)
OptixReadsNormals ==
  \A h \in DOMAIN objects :
    LET o == objects[h]  base == o.rt.normal_offset IN
      o.kind = "traced" =>
        /\ base > 0 <=> "normals" \in o.has
        /\ base > 0 => /\ [stream |-> "normals", at |-> 12 * base, bytes |-> 12 * o.n]
                             \in vbos[h].data
                       /\ base + o.n <= o.rt.vertices
        /\ 3 * o.rt.primitives = Len(ibos[h])

(* the k-th triangle of a strip, as GL winds it *)
StripTriangle(indices, k) ==
  IF k % 2 = 1 THEN <<indices[k], indices[k + 1], indices[k + 2]>>
  ELSE <<indices[k + 1], indices[k], indices[k + 2]>>
Degenerate(t) == t[1] = t[2] \/ t[2] = t[3] \/ t[1] = t[3]
GridTriangles(side) ==
  UNION {LET c == p[2] * side + p[1]  u == (p[2] + 1) * side + p[1] IN
           {<<c, u, c + 1>>, <<c + 1, u, u + 1>>} : p \in (0..(side - 2)) \X (0..(side - 2))}

(* The one strip a CubeSphere's cells build, one by one, draws each cell   *)
(* of the grid as its two triangles, once and all with the same winding;   *)
(* what joins a row to the next is degenerate ("We only want one triangle  *)
(* strip for the entire grid!").                                           *)
StripCoversGrid ==
  \A h \in DOMAIN objects : objects[h].kind = "sphere" =>
    LET indices == ibos[h]
        drawn == {k \in 1..(Len(indices) - 2) : ~Degenerate(StripTriangle(indices, k))} IN
      /\ {StripTriangle(indices, k) : k \in drawn} = GridTriangles(objects[h].side)
      /\ Cardinality(drawn) = Cardinality(GridTriangles(objects[h].side))

=============================================================================
