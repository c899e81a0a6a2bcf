------------------------- MODULE MeshUpload_proofs -------------------------
(***************************************************************************)
(* Theorems about MeshUpload for any models, grid sizes and number of      *)
(* objects: each attribute reads the data it was written from, each vertex *)
(* array its own indices, OptiX the normals, and a strip draws its grid.   *)
(***************************************************************************)
EXTENDS MeshUpload, SequenceTheorems, FiniteSetTheorems, WellFoundedInduction, TLAPS

WithVAO == {"vbo", "ibo", "buffer", "bind", "unbind_vbo", "unbind_ibo", "optix"}
WithVBO == WithVAO \ {"vbo"}
WithIBO == WithVBO \ {"ibo"}

Ready(o) ==
  /\ o \in Object
  /\ "vertices" \in o.has
  /\ \A k \in DOMAIN o.indices : o.indices[k] < o.n
  /\ o.kind = "traced" => o.position = 3 /\ o.n > 0 /\ Len(o.indices) % 3 = 0

(* where a stream of o begins in its buffer *)
Until(o, s, t) == IF BufferRank[t] < BufferRank[s] THEN Bytes(o, t) ELSE 0
Before(o, s) ==
  Until(o, s, "vertices") + Until(o, s, "normals") + Until(o, s, "tangents")
    + Until(o, s, "bitangents") + Until(o, s, "texcoords") + Until(o, s, "colors")

(* how many streams of o come before s, and how many a set has *)
One(p) == IF p THEN 1 ELSE 0
HowMany(B) ==
  One("vertices" \in B) + One("normals" \in B) + One("tangents" \in B)
    + One("bitangents" \in B) + One("texcoords" \in B) + One("colors" \in B)
Earlier(o, s) == {t \in o.has : BufferRank[t] < BufferRank[s]}

(* streams are taken in the order of their ranks *)
Prefix(o, B) == B \subseteq o.has /\ \A s \in B : Earlier(o, s) \subseteq B

Piece(o, s) == [stream |-> s, at |-> Before(o, s), bytes |-> Bytes(o, s)]
Attrib(o, h, s) == [vbo |-> h, size |-> Size(o, s), at |-> Before(o, s)]

Attached(o, h, B) ==
  \A s \in Streams : vaos[h].attribs[Location[s]] = IF s \in B THEN Attrib(o, h, s) ELSE Unset

Written(o, h, B) == \A s \in B : Piece(o, s) \in vbos[h].data

Finished(o, h) ==
  /\ Ready(o)
  /\ Attached(o, h, o.has) /\ Written(o, h, o.has)
  /\ vaos[h].elements = h /\ ibos[h] = o.indices
  /\ o.kind = "traced" => o.rt = Geometry(o)

(* the grid as far as it is built *)
Grid ==
  /\ object.kind = "sphere" /\ object.has = {"vertices", "texcoords"}
  /\ object.side \in Nat \ {0, 1} /\ object.position = 3
  /\ \/ y < object.side /\ x < object.side
     \/ y = object.side /\ x = 0
  /\ object.n = y * object.side + x
  /\ \A k \in DOMAIN object.indices : object.indices[k] < object.side * object.side

Handles ==
  /\ DOMAIN vaos = IF pc \in WithVAO THEN 0..Handle ELSE 0..Len(objects)
  /\ Len(vbos) = IF pc \in WithVBO THEN Handle ELSE Len(objects)
  /\ Len(ibos) = IF pc \in WithIBO THEN Handle ELSE Len(objects)
  /\ pc \in {"vbo", "ibo", "buffer", "bind"} => vertexArray = Handle
  /\ pc \in {"unbind_vbo", "unbind_ibo"} => vertexArray = 0
  /\ pc \in {"ibo", "buffer", "bind", "unbind_vbo"} => arrayBuffer = Handle

Underway ==
  /\ pc = "cells" => Grid
  /\ pc \in {"vao"} \cup WithVAO => Ready(object)
  /\ pc \in {"cells", "vao", "vbo", "ibo"} =>
       buffered = {} /\ offsets = << >> /\ i = 1 /\ bound = {}
  /\ pc \in {"vbo", "ibo", "buffer"} => Attached(object, Handle, {}) /\ bound = {} /\ i = 1
  /\ pc = "ibo" => offset = 0
  /\ pc \in WithVBO => vbos[Handle].size = GetBufferSize(object)
  /\ pc \in WithIBO =>
       /\ vaos[Handle].elements = Handle /\ ibos[Handle] = object.indices
       /\ Prefix(object, buffered)
       /\ Len(offsets) = HowMany(buffered)
       /\ \A s \in buffered : offsets[HowMany(Earlier(object, s)) + 1] = Before(object, s)
       /\ Written(object, Handle, buffered)
  /\ pc = "buffer" =>
       \A s \in object.has \ buffered :
         Earlier(object, s) \subseteq buffered => offset = Before(object, s)
  /\ pc \in WithIBO \ {"buffer"} => buffered = object.has
  /\ pc = "bind" =>
       /\ Prefix(object, bound) /\ i = HowMany(bound) + 1
       /\ Attached(object, Handle, bound)
  /\ pc \in {"unbind_vbo", "unbind_ibo", "optix"} => Attached(object, Handle, object.has)
  /\ pc = "optix" => object.kind = "traced"

IInv ==
  /\ TypeOK
  /\ Handles
  /\ \A h \in DOMAIN objects : Finished(objects[h], h)
  /\ Underway

-----------------------------------------------------------------------------
(* Streams, their order and the bytes before them *)

LEMMA BytesType ==
  ASSUME NEW o \in Object, NEW s \in Streams
  PROVE  Bytes(o, s) \in Nat /\ (s \notin o.has => Bytes(o, s) = 0)
<1>1. Size(o, s) \in Nat /\ o.n \in Nat
  BY DEF Size, Floats, Streams, Object
<1>2. o.n * Size(o, s) \in Nat
  BY <1>1
<1>3. 4 * o.n * Size(o, s) \in Nat
  BY <1>1, <1>2
<1> QED
  BY <1>3 DEF Bytes

LEMMA RankInjective ==
  /\ BindRank = BufferRank
  /\ \A s \in Streams : BufferRank[s] \in 1..6
  /\ \A s, t \in Streams : BufferRank[s] = BufferRank[t] => s = t
BY DEF BindRank, BufferRank, Streams

LEMMA FirstByIsFirst ==
  ASSUME NEW todo \in SUBSET Streams, todo # {}
  PROVE  LET s == FirstBy(BufferRank, todo) IN
           s \in todo /\ \A t \in todo : BufferRank[s] <= BufferRank[t]
<1> DEFINE Least(s) == s \in todo /\ \A t \in todo : BufferRank[s] <= BufferRank[t]
<1>1. \E s \in todo : \A t \in todo : BufferRank[s] <= BufferRank[t]
  <2> SUFFICES \E s \in Streams : Least(s)
    OBVIOUS
  <2>1. CASE "vertices" \in todo
    <3>1. Least("vertices")
      BY <2>1 DEF BufferRank, Streams
    <3> QED
      BY <3>1 DEF Streams
  <2>2. CASE "vertices" \notin todo /\ "normals" \in todo
    <3>1. Least("normals")
      BY <2>2 DEF BufferRank, Streams
    <3> QED
      BY <3>1 DEF Streams
  <2>3. CASE todo \cap {"vertices", "normals"} = {} /\ "tangents" \in todo
    <3>1. Least("tangents")
      BY <2>3 DEF BufferRank, Streams
    <3> QED
      BY <3>1 DEF Streams
  <2>4. CASE todo \cap {"vertices", "normals", "tangents"} = {} /\ "bitangents" \in todo
    <3>1. Least("bitangents")
      BY <2>4 DEF BufferRank, Streams
    <3> QED
      BY <3>1 DEF Streams
  <2>5. CASE todo \subseteq {"texcoords", "colors"} /\ "texcoords" \in todo
    <3>1. Least("texcoords")
      BY <2>5 DEF BufferRank, Streams
    <3> QED
      BY <3>1 DEF Streams
  <2>6. CASE todo = {"colors"}
    <3>1. Least("colors")
      BY <2>6 DEF BufferRank, Streams
    <3> QED
      BY <3>1 DEF Streams
  <2> QED
    BY <2>1, <2>2, <2>3, <2>4, <2>5, <2>6 DEF Streams
<1> QED
  BY <1>1, Zenon DEF FirstBy

LEMMA BeforeType ==
  ASSUME NEW o \in Object, NEW s \in Streams
  PROVE  /\ Before(o, s) \in Nat
         /\ Before(o, s) + Bytes(o, s) <= GetBufferSize(o)
         /\ GetBufferSize(o) \in Nat
<1>1. \A t \in Streams : Bytes(o, t) \in Nat
  BY BytesType
<1> QED
  BY <1>1 DEF Before, Until, BufferRank, GetBufferSize, Streams

LEMMA BeforeIncreases ==
  ASSUME NEW o \in Object, NEW s \in Streams, NEW t \in Streams,
         BufferRank[t] < BufferRank[s]
  PROVE  Before(o, t) + Bytes(o, t) <= Before(o, s)
<1>1. \A u \in Streams : Bytes(o, u) \in Nat
  BY BytesType
<1> QED
  BY <1>1 DEF Before, Until, BufferRank, Streams

(* the stream of o that follows s begins where s ends *)
LEMMA BeforeNext ==
  ASSUME NEW o \in Object, NEW s \in o.has, NEW u \in o.has,
         BufferRank[s] < BufferRank[u],
         \A t \in o.has : BufferRank[t] < BufferRank[u] => BufferRank[t] <= BufferRank[s]
  PROVE  Before(o, u) = Before(o, s) + Bytes(o, s)
<1>1. s \in Streams /\ u \in Streams
  BY DEF Object
<1>2. \A t \in Streams : Bytes(o, t) \in Nat
  BY BytesType
<1>3. \A t \in Streams :
        BufferRank[s] < BufferRank[t] /\ BufferRank[t] < BufferRank[u] => Bytes(o, t) = 0
  BY <1>1, BytesType, RankInjective
<1> QED
  BY <1>1, <1>2, <1>3 DEF Before, Until, BufferRank, Streams

LEMMA BeforeFirst ==
  ASSUME NEW o \in Object, NEW s \in Streams, Earlier(o, s) = {}
  PROVE  Before(o, s) = 0
<1>1. \A t \in Streams : BufferRank[t] < BufferRank[s] => Bytes(o, t) = 0
  BY BytesType DEF Earlier
<1> QED
  BY <1>1 DEF Before, Until, BufferRank, Streams

LEMMA HowManyFacts ==
  ASSUME NEW B \in SUBSET Streams
  PROVE  /\ HowMany(B) \in Nat /\ HowMany({}) = 0
         /\ \A s \in Streams \ B : HowMany(B \cup {s}) = HowMany(B) + 1
         /\ \A C \in SUBSET Streams : B \subseteq C => HowMany(B) <= HowMany(C)
         /\ \A C \in SUBSET Streams : B \subseteq C /\ HowMany(B) = HowMany(C) => B = C
<1>1. HowMany(B) \in Nat /\ HowMany({}) = 0
  BY DEF HowMany, One
<1>2. \A s \in Streams \ B : HowMany(B \cup {s}) = HowMany(B) + 1
  BY DEF HowMany, One, Streams
<1>3. \A C \in SUBSET Streams : B \subseteq C => HowMany(B) <= HowMany(C)
  BY DEF HowMany, One, Streams
<1>4. ASSUME NEW C \in SUBSET Streams, B \subseteq C, HowMany(B) = HowMany(C)
      PROVE  B = C
  <2>1. C \subseteq B
    BY <1>4 DEF HowMany, One, Streams
  <2> QED
    BY <2>1, <1>4
<1> QED
  BY <1>1, <1>2, <1>3, <1>4

(* the first stream left extends a prefix, and what is in the prefix is    *)
(* what comes before it                                                    *)
LEMMA PrefixNext ==
  ASSUME NEW o \in Object, NEW B, Prefix(o, B), B # o.has
  PROVE  LET s == FirstBy(BufferRank, o.has \ B) IN
           /\ s \in o.has \ B /\ s \in Streams
           /\ Earlier(o, s) = B
           /\ Prefix(o, B \cup {s})
           /\ \A u \in o.has \ (B \cup {s}) : BufferRank[s] < BufferRank[u]
<1> DEFINE s == FirstBy(BufferRank, o.has \ B)
<1>1. o.has \in SUBSET Streams /\ B \subseteq o.has /\ o.has \ B # {}
  BY DEF Prefix, Object
<1>2. s \in o.has \ B /\ \A t \in o.has \ B : BufferRank[s] <= BufferRank[t]
  BY <1>1, FirstByIsFirst
<1>3. \A u \in o.has \ (B \cup {s}) : BufferRank[s] < BufferRank[u]
  BY <1>1, <1>2, RankInjective
<1>4. Earlier(o, s) \subseteq B
  BY <1>1, <1>2, RankInjective DEF Earlier
<1>5. ASSUME NEW t \in B PROVE t \in Earlier(o, s)
  <2>1. s \notin Earlier(o, t)
    BY <1>2, <1>5 DEF Prefix
  <2> QED
    BY <2>1, <1>1, <1>2, <1>5, RankInjective DEF Earlier
<1>6. Earlier(o, s) = B
  BY <1>4, <1>5
<1>7. Prefix(o, B \cup {s})
  BY <1>1, <1>2, <1>6 DEF Prefix
<1> QED
  BY <1>1, <1>2, <1>3, <1>6, <1>7

-----------------------------------------------------------------------------
(* What is built *)

LEMMA ReadyMesh ==
  ASSUME NEW m \in Models
  PROVE  Ready(NewObject(IF m.traced THEN "traced" ELSE "mesh", m.n, 3, m.has, m.indices))
<1>1. /\ m.n \in Nat \ {0} /\ m.has \subseteq Streams \ {"vertices"}
      /\ m.indices \in Seq(0..(m.n - 1)) /\ m.traced \in BOOLEAN
      /\ m.traced => Len(m.indices) % 3 = 0
  BY ModelsAssumption
<1>2. m.indices \in Seq(Nat) /\ \A k \in DOMAIN m.indices : m.indices[k] < m.n
  BY <1>1
<1>3. {"vertices"} \cup m.has \in SUBSET Streams
  BY <1>1 DEF Streams
<1> DEFINE kind == IF m.traced THEN "traced" ELSE "mesh"
<1>4. kind \in {"mesh", "traced"} /\ (kind = "traced" => m.traced)
  BY <1>1
<1> HIDE DEF kind
<1> DEFINE o == NewObject(kind, m.n, 3, m.has, m.indices)
<1>5. o \in Object
  BY <1>1, <1>2, <1>3, <1>4 DEF NewObject, Object, NoGeometry
<1>6. /\ o.kind = kind /\ o.n = m.n /\ o.position = 3 /\ "vertices" \in o.has
      /\ o.indices = m.indices
  BY DEF NewObject
<1> HIDE DEF o
<1>7. \A k \in DOMAIN o.indices : o.indices[k] < o.n
  BY <1>2, <1>6
<1>8. o.kind = "traced" => o.position = 3 /\ o.n > 0 /\ Len(o.indices) % 3 = 0
  <2> SUFFICES ASSUME o.kind = "traced"
               PROVE  o.position = 3 /\ o.n > 0 /\ Len(o.indices) % 3 = 0
    OBVIOUS
  <2>1. m.traced
    BY <1>4, <1>6
  <2>2. Len(m.indices) % 3 = 0 /\ m.n \in Nat \ {0}
    BY <2>1, ModelsAssumption, Zenon
  <2>3. o.n = m.n /\ o.indices = m.indices /\ o.position = 3
    BY <1>6
  <2>4. \A v : v \in Nat \ {0} => v > 0
    OBVIOUS
  <2> QED
    BY <2>2, <2>3, <2>4, Zenon
<1>9. Ready(o)
  BY <1>5, <1>6, <1>7, <1>8 DEF Ready
<1> QED
  BY <1>9 DEF o, kind

LEMMA ReadyCube == Ready(CubeObject)
<1> DEFINE corner == <<0, 1, 2, 2, 3, 0>>
           f == [k \in 1..36 |-> 4 * ((k - 1) \div 6) + corner[((k - 1) % 6) + 1]]
<1>1. \A r \in 1..6 : corner[r] \in 0..3
  <2>1. /\ corner[1] = 0 /\ corner[2] = 1 /\ corner[3] = 2
        /\ corner[4] = 2 /\ corner[5] = 3 /\ corner[6] = 0
    OBVIOUS
  <2> HIDE DEF corner
  <2>2. \A r \in 1..6 : r = 1 \/ r = 2 \/ r = 3 \/ r = 4 \/ r = 5 \/ r = 6
    OBVIOUS
  <2> QED
    BY <2>1, <2>2
<1>2. ASSUME NEW k \in 1..36
      PROVE  4 * ((k - 1) \div 6) + corner[((k - 1) % 6) + 1] \in 0..23
  <2>1. (k - 1) \div 6 \in 0..5 /\ ((k - 1) % 6) + 1 \in 1..6
    OBVIOUS
  <2>2. corner[((k - 1) % 6) + 1] \in 0..3
    BY <1>1, <2>1
  <2> HIDE DEF corner
  <2> QED
    BY <2>1, <2>2
<1> HIDE DEF corner
<1>3. f \in Seq(Nat) /\ DOMAIN f = 1..36 /\ \A k \in 1..36 : f[k] < 24
  BY <1>2
<1>4. CubeObject = NewObject("cube", 24, 3, {"normals", "texcoords"}, f)
  BY DEF CubeObject, corner
<1> HIDE DEF f
<1>5. {"vertices"} \cup {"normals", "texcoords"} \in SUBSET Streams
  BY DEF Streams
<1> QED
  BY <1>3, <1>4, <1>5 DEF Ready, NewObject, Object, NoGeometry

LEMMA ReadyQuad == Ready(QuadObject)
<1>1. /\ <<0, 1, 2, 2, 3, 0>> \in Seq(Nat)
      /\ \A k \in DOMAIN <<0, 1, 2, 2, 3, 0>> : <<0, 1, 2, 2, 3, 0>>[k] < 4
  OBVIOUS
<1>2. {"vertices"} \cup {} \in SUBSET Streams
  BY DEF Streams
<1> QED
  BY <1>1, <1>2 DEF Ready, QuadObject, NewObject, Object, NoGeometry

LEMMA ConcatBelow ==
  ASSUME NEW M \in Nat, NEW s \in Seq(Nat), NEW t \in Seq(Nat),
         \A k \in DOMAIN s : s[k] < M, \A k \in DOMAIN t : t[k] < M
  PROVE  s \o t \in Seq(Nat) /\ \A k \in DOMAIN (s \o t) : (s \o t)[k] < M
<1>1. s \o t \in Seq(Nat)
  OBVIOUS
<1>2. ASSUME NEW k \in 1..(Len(s) + Len(t))
      PROVE  (s \o t)[k] < M
  <2>1. CASE k <= Len(s)
    BY <2>1, ConcatProperties
  <2>2. CASE k > Len(s)
    <3>1. (s \o t)[k] = t[k - Len(s)] /\ k - Len(s) \in DOMAIN t
      BY <2>2, ConcatProperties
    <3> QED
      BY <3>1
  <2> QED
    BY <2>1, <2>2
<1> QED
  BY <1>1, <1>2, ConcatProperties

(* a cell in column cx of row cy names vertices of the grid *)
LEMMA IndicesInGrid ==
  ASSUME NEW side \in Nat \ {0, 1}, NEW cx \in Nat, NEW cy \in Nat, cx < side, cy < side
  PROVE  LET new == BuildIndices(cx, cy, side, side) IN
           new \in Seq(Nat) /\ \A k \in DOMAIN new : new[k] < side * side
<1>1. CASE cy >= side - 1
  BY <1>1 DEF BuildIndices
<1>2. CASE cy < side - 1
  <2> DEFINE c == cy * side + cx  u == (cy + 1) * side + cx  n == (cy + 1) * side
  <2>1. cy * side \in Nat /\ n \in Nat /\ n = cy * side + side
    OBVIOUS
  <2>2. (cy + 2) * side <= side * side
    <3>1. \A a, b, d \in Nat : a <= b => a * d <= b * d
      OBVIOUS
    <3>2. cy + 2 \in Nat /\ cy + 2 <= side
      BY <1>2
    <3> QED
      BY <3>1, <3>2
  <2>3. (cy + 2) * side = n + side
    <3>1. \A a, d \in Nat : (a + 2) * d = (a + 1) * d + d
      OBVIOUS
    <3> QED
      BY <3>1
  <2> HIDE DEF n
  <2>4. c \in Nat /\ u \in Nat /\ u = n + cx /\ side * side \in Nat
    BY <2>1 DEF n
  <2>5. c < side * side /\ u < side * side /\ n < side * side
    BY <2>1, <2>2, <2>3, <2>4
  <2> HIDE DEF c, u
  <2> DEFINE first == <<c, u>>
             join == IF cx < side - 1 \/ cy >= side - 2 THEN << >> ELSE <<u, n>>
  <2>6. first \in Seq(Nat) /\ \A k \in DOMAIN first : first[k] < side * side
    BY <2>4, <2>5
  <2>7. join \in Seq(Nat) /\ \A k \in DOMAIN join : join[k] < side * side
    BY <2>1, <2>4, <2>5
  <2>8. BuildIndices(cx, cy, side, side) = first \o join
    BY <1>2 DEF BuildIndices, c, u, n
  <2> HIDE DEF first, join
  <2> QED
    BY <2>4, <2>6, <2>7, <2>8, ConcatBelow
<1> QED
  BY <1>1, <1>2

-----------------------------------------------------------------------------
(* The invariant, action by action *)

AllFinished == \A h \in DOMAIN objects : Finished(objects[h], h)

(* what is finished stays so while nobody writes to its GL objects *)
LEMMA FinishedKept ==
  ASSUME AllFinished, UNCHANGED objects,
         \A h \in DOMAIN objects : /\ vaos'[h] = vaos[h]
                                  /\ vbos'[h] = vbos[h]
                                  /\ ibos'[h] = ibos[h]
  PROVE  AllFinished'
BY DEF AllFinished, Finished, Attached, Written

(* an object more is finished *)
LEMMA FinishedMore ==
  ASSUME AllFinished, NEW h \in Nat, NEW o,
         DOMAIN objects' = DOMAIN objects \cup {h}, objects'[h] = o,
         \A g \in DOMAIN objects : objects'[g] = objects[g],
         \A g \in DOMAIN objects' : vaos'[g] = vaos[g],
         vbos' = vbos, ibos' = ibos, Finished(o, h)
  PROVE  AllFinished'
BY DEF AllFinished, Finished, Attached, Written

LEMMA InitIInv == Init => IInv
<1> SUFFICES ASSUME Init PROVE IInv
  OBVIOUS
<1>1. NoObject \in Object
  BY DEF NoObject, NewObject, Object, NoGeometry, Streams
<1>2. vaos \in [DOMAIN vaos -> [attribs : Attribs, elements : Nat]]
  BY DEF Init, NewArray, Attribs, Unset
<1>3. TypeOK
  BY <1>1, <1>2 DEF Init, TypeOK, Places, Handle
<1>4. Handles
  BY DEF Init, Handles, WithVAO, WithVBO, WithIBO
<1>5. Underway
  BY DEF Init, Underway, WithVAO, WithVBO, WithIBO
<1> QED
  BY <1>3, <1>4, <1>5 DEF Init, IInv

LEMMA BeginKeeps ==
  ASSUME IInv, NEW o \in Object, NEW where \in {"vao", "cells"}, Begin(o, where),
         where = "vao" => Ready(o),
         where = "cells" => /\ o.kind = "sphere" /\ o.has = {"vertices", "texcoords"}
                            /\ o.side \in Nat \ {0, 1} /\ o.position = 3
                            /\ o.n = 0 /\ o.indices = << >>
  PROVE  IInv'
<1> USE DEF IInv
<1>1. TypeOK'
  BY DEF TypeOK, Begin, Places, Handle, bindVars
<1>2. Handles'
  BY DEF Handles, Begin, Handle, WithVAO, WithVBO, WithIBO, bindVars
<1>3. AllFinished'
  BY FinishedKept DEF AllFinished, Begin
<1>4. Underway'
  <2>1. where = "cells" => Grid'
    BY DEF Begin, Grid
  <2> QED
    BY <2>1 DEF Underway, Begin, WithVAO, WithVBO, WithIBO
<1> QED
  BY <1>1, <1>2, <1>3, <1>4 DEF AllFinished

LEMMA GrownObject ==
  ASSUME NEW o \in Object, NEW n \in Nat, NEW indices \in Seq(Nat)
  PROVE  [o EXCEPT !.n = n, !.indices = indices] \in Object
BY DEF Object

LEMMA BuildCellKeeps == ASSUME IInv, BuildCell PROVE IInv'
<1> USE DEF IInv
<1> DEFINE new == BuildIndices(x, y, object.side, object.side)
<1>1. Grid /\ x \in Nat /\ y \in Nat /\ object \in Object /\ x < object.side
  <2>1. Grid /\ y < object.side
    BY DEF BuildCell, Underway
  <2>2. x \in Nat /\ y \in Nat /\ object \in Object
    BY DEF TypeOK
  <2> QED
    BY <2>1, <2>2 DEF Grid
<1>2. new \in Seq(Nat) /\ \A k \in DOMAIN new : new[k] < object.side * object.side
  BY <1>1, IndicesInGrid DEF BuildCell, Grid
<1>3. /\ object.indices \o new \in Seq(Nat)
      /\ \A k \in DOMAIN (object.indices \o new) :
           (object.indices \o new)[k] < object.side * object.side
  <2>1. /\ object.side * object.side \in Nat /\ object.indices \in Seq(Nat)
        /\ \A k \in DOMAIN object.indices : object.indices[k] < object.side * object.side
    BY <1>1 DEF Grid, Object
  <2> QED
    BY <1>2, <2>1, ConcatBelow
<1>10. object' = [object EXCEPT !.n = object.n + 1, !.indices = object.indices \o new]
  BY DEF BuildCell
<1>11. \/ x' = x + 1 /\ y' = y /\ x + 1 < object.side
       \/ x' = 0 /\ y' = y + 1 /\ x + 1 = object.side
  BY <1>1 DEF BuildCell, Grid
<1>12. pc' = pc /\ y < object.side
  BY DEF BuildCell
<1> HIDE DEF new
<1>4. /\ object' \in Object /\ object'.n = object.n + 1
      /\ object'.indices = object.indices \o new
      /\ object'.kind = object.kind /\ object'.has = object.has
      /\ object'.side = object.side /\ object'.position = object.position
  <2>1. /\ object'.n = object.n + 1 /\ object'.indices = object.indices \o new
        /\ object'.kind = object.kind /\ object'.has = object.has
        /\ object'.side = object.side /\ object'.position = object.position
    BY <1>1, <1>10 DEF Object
  <2>2. object' \in Object
    <3>1. object.n + 1 \in Nat
      BY <1>1 DEF Object
    <3> QED
      BY <1>1, <1>3, <1>10, <3>1, GrownObject
  <2> QED
    BY <2>1, <2>2
<1>5. Grid'
  <2>1. object'.n = y' * object.side + x'
    <3>1. \A a, d \in Nat : (a + 1) * d = a * d + d
      OBVIOUS
    <3>2. object.side \in Nat /\ object.n = y * object.side + x
      BY <1>1 DEF Grid
    <3>3. CASE x' = x + 1 /\ y' = y
      <4>1. object'.n = object.n + 1
        BY <1>4
      <4>2. y * object.side \in Nat
        BY <1>1, <3>2
      <4> QED
        BY <1>1, <3>2, <3>3, <4>1, <4>2
    <3>4. CASE x' = 0 /\ y' = y + 1 /\ x + 1 = object.side
      <4>1. (y + 1) * object.side = y * object.side + object.side
        BY <1>1, <3>1, <3>2
      <4>2. y * object.side \in Nat
        BY <1>1, <3>2
      <4>3. object'.n = object.n + 1
        BY <1>4
      <4> QED
        BY <1>1, <3>2, <3>4, <4>1, <4>2, <4>3
    <3> QED
      BY <1>11, <3>3, <3>4
  <2>2. \/ y' < object.side /\ x' < object.side
        \/ y' = object.side /\ x' = 0
    BY <1>1, <1>11, <1>12 DEF Grid
  <2>3. \A k \in DOMAIN object'.indices : object'.indices[k] < object.side * object.side
    BY <1>3, <1>4
  <2> QED
    BY <1>1, <1>4, <2>1, <2>2, <2>3 DEF Grid
<1>6. TypeOK'
  <2>1. x' \in Nat /\ y' \in Nat /\ object' \in Object
    BY <1>1, <1>4, <1>11
  <2>2. UNCHANGED <<pc, objects, bindVars, vaos, vbos, ibos, loopVars>>
    BY DEF BuildCell
  <2> QED
    BY <2>1, <2>2 DEF TypeOK, Handle, bindVars, loopVars
<1>7. Handles'
  BY DEF Handles, BuildCell, Handle, WithVAO, WithVBO, WithIBO, bindVars
<1>8. AllFinished'
  BY FinishedKept DEF AllFinished, BuildCell
<1>9. Underway'
  BY <1>5 DEF Underway, BuildCell, WithVAO, WithVBO, WithIBO, loopVars
<1> QED
  BY <1>6, <1>7, <1>8, <1>9 DEF AllFinished

LEMMA EndCellsKeeps == ASSUME IInv, EndCells PROVE IInv'
<1> USE DEF IInv
<1>1. Ready(object)
  <2>1. Grid /\ object \in Object /\ object.n = object.side * object.side
    BY DEF EndCells, Underway, TypeOK, Grid
  <2> QED
    BY <2>1 DEF Ready, Grid
<1>2. TypeOK'
  BY DEF TypeOK, EndCells, Places, Handle, gridVars, bindVars, loopVars
<1>3. Handles'
  BY DEF Handles, EndCells, Handle, WithVAO, WithVBO, WithIBO, bindVars
<1>4. AllFinished'
  BY FinishedKept DEF AllFinished, EndCells
<1>5. Underway'
  BY <1>1 DEF Underway, EndCells, WithVAO, WithVBO, WithIBO, loopVars
<1> QED
  BY <1>2, <1>3, <1>4, <1>5 DEF AllFinished

(* a vertex array that is written to while the finished ones are not *)
LEMMA OthersKept ==
  ASSUME IInv, UNCHANGED objects,
         \A h \in DOMAIN objects : /\ vaos'[h] = vaos[h]
                                  /\ vbos'[h] = vbos[h]
                                  /\ ibos'[h] = ibos[h]
  PROVE  AllFinished'
BY FinishedKept DEF AllFinished, IInv

LEMMA NewArrayType == NewArray \in [attribs : Attribs, elements : Nat]
BY DEF NewArray, Attribs, Unset

LEMMA NewVAOKeeps == ASSUME IInv, NewVAO PROVE IInv'
<1> USE DEF IInv
<1>1. /\ Len(objects) \in Nat /\ Handle = Len(objects) + 1
      /\ DOMAIN objects = 1..Len(objects) /\ DOMAIN vaos = 0..Len(objects)
  BY DEF NewVAO, Handles, WithVAO, Handle, TypeOK
<1>2. /\ vaos'[Handle] = NewArray
      /\ \A h \in DOMAIN vaos : vaos'[h] = vaos[h]
      /\ DOMAIN vaos' = 0..Handle
  BY <1>1 DEF NewVAO
<1>3. TypeOK'
  <2>1. vaos' \in [DOMAIN vaos' -> [attribs : Attribs, elements : Nat]]
    BY NewArrayType DEF NewVAO, TypeOK
  <2> QED
    BY <1>1, <1>2, <2>1 DEF TypeOK, NewVAO, Places, Handle, gridVars, loopVars
<1>4. Handles'
  BY <1>1, <1>2 DEF Handles, NewVAO, Handle, WithVAO, WithVBO, WithIBO
<1>5. AllFinished'
  BY <1>1, <1>2, OthersKept DEF NewVAO
<1>6. Underway'
  <2>1. Attached(object, Handle, {})'
    BY <1>1, <1>2 DEF Attached, NewVAO, NewArray, Location, Streams, Handle
  <2> QED
    BY <2>1 DEF Underway, NewVAO, WithVAO, WithVBO, WithIBO, loopVars
<1> QED
  BY <1>3, <1>4, <1>5, <1>6 DEF AllFinished

LEMMA NewVBOKeeps == ASSUME IInv, NewVBO PROVE IInv'
<1> USE DEF IInv
<1>1. /\ Len(objects) \in Nat /\ Handle = Len(objects) + 1
      /\ DOMAIN objects = 1..Len(objects) /\ Len(vbos) = Len(objects)
      /\ Ready(object) /\ object \in Object /\ "vertices" \in Streams
  <2>1. pc = "vbo" /\ pc \in WithVAO /\ pc \notin WithVBO
    BY DEF NewVBO, WithVAO, WithVBO
  <2>2. Ready(object) /\ object \in Object
    BY <2>1 DEF Underway, Ready
  <2>3. Len(vbos) = Len(objects)
    BY <2>1 DEF Handles
  <2> QED
    BY <2>2, <2>3 DEF Handle, TypeOK, Streams
<1>2. GetBufferSize(object) \in Nat
  BY <1>1, BeforeType
<1>3. /\ vbos' \in Seq(BufferObject)
      /\ Len(vbos') = Handle /\ vbos'[Handle].size = GetBufferSize(object)
      /\ \A h \in DOMAIN objects : vbos'[h] = vbos[h]
  BY <1>1, <1>2 DEF NewVBO, TypeOK, BufferObject
<1>4. TypeOK'
  <2>1. /\ pc' \in Places /\ arrayBuffer' \in 0..Len(vbos') /\ offset' \in Nat
        /\ Len(objects) <= Len(vbos')
    BY <1>1, <1>3 DEF NewVBO, Places
  <2>2. UNCHANGED <<object, x, y, objects, vertexArray, vaos, ibos, buffered, offsets, i, bound>>
    BY DEF NewVBO, gridVars
  <2> QED
    BY <1>3, <2>1, <2>2 DEF TypeOK, Handle
<1>5. Handles'
  BY <1>1, <1>3 DEF Handles, NewVBO, Handle, WithVAO, WithVBO, WithIBO
<1>6. AllFinished'
  BY <1>3, OthersKept DEF NewVBO
<1>7. Underway'
  BY <1>1, <1>3 DEF Underway, NewVBO, Handle, Attached, WithVAO, WithVBO, WithIBO
<1> QED
  BY <1>4, <1>5, <1>6, <1>7 DEF AllFinished

LEMMA BindElementsKeeps ==
  ASSUME IInv, NEW handle \in Nat, vaos' = BindElements(handle)
  PROVE  /\ vaos' \in [DOMAIN vaos -> [attribs : Attribs, elements : Nat]]
         /\ DOMAIN vaos' = DOMAIN vaos
         /\ \A h \in DOMAIN vaos : vaos'[h].attribs = vaos[h].attribs
         /\ \A h \in DOMAIN vaos \ {vertexArray} : vaos'[h] = vaos[h]
         /\ vaos'[vertexArray].elements = handle
BY DEF IInv, TypeOK, BindElements

LEMMA NewIBOKeeps == ASSUME IInv, NewIBO PROVE IInv'
<1> USE DEF IInv
<1>1. /\ Len(objects) \in Nat /\ Handle = Len(objects) + 1 /\ Handle \in Nat
      /\ DOMAIN objects = 1..Len(objects) /\ Len(ibos) = Len(objects)
      /\ DOMAIN vaos = 0..Handle /\ vertexArray = Handle
      /\ Ready(object) /\ object \in Object
  <2>1. pc = "ibo" /\ pc \in WithVAO /\ pc \in WithVBO /\ pc \notin WithIBO
    BY DEF NewIBO, WithVAO, WithVBO, WithIBO
  <2>2. Ready(object) /\ object \in Object
    BY <2>1 DEF Underway, Ready
  <2>3. Len(ibos) = Len(objects) /\ DOMAIN vaos = 0..Handle /\ vertexArray = Handle
    BY <2>1 DEF Handles
  <2> QED
    BY <2>2, <2>3 DEF Handle, TypeOK
<1>2. /\ vaos' \in [DOMAIN vaos -> [attribs : Attribs, elements : Nat]]
      /\ DOMAIN vaos' = 0..Handle
      /\ \A h \in DOMAIN objects : vaos'[h] = vaos[h]
      /\ vaos'[Handle].attribs = vaos[Handle].attribs
      /\ vaos'[Handle].elements = Handle
  BY <1>1, BindElementsKeeps DEF NewIBO
<1>3. /\ ibos' \in Seq(Seq(Nat)) /\ Len(ibos') = Handle /\ ibos'[Handle] = object.indices
      /\ \A h \in DOMAIN objects : ibos'[h] = ibos[h]
  BY <1>1 DEF NewIBO, TypeOK, Object
<1>4. TypeOK'
  <2>1. pc' \in Places /\ Len(objects) <= Len(ibos')
    BY <1>1, <1>3 DEF NewIBO, Places
  <2>2. DOMAIN vaos' = DOMAIN vaos
    BY <1>1, <1>2
  <2>3. UNCHANGED <<object, gridVars, objects, bindVars, vbos, loopVars>>
    BY DEF NewIBO
  <2> QED
    BY <1>2, <1>3, <2>1, <2>2, <2>3 DEF TypeOK, Handle, gridVars, bindVars, loopVars
<1>5. Handles'
  BY <1>1, <1>2, <1>3 DEF Handles, NewIBO, Handle, WithVAO, WithVBO, WithIBO, bindVars
<1>6. AllFinished'
  BY <1>2, <1>3, OthersKept DEF NewIBO
<1>7. Underway'
  <2>1. Attached(object, Handle, {})'
    BY <1>1, <1>2 DEF Underway, NewIBO, Attached, Handle
  <2>2. buffered = {} /\ offsets = << >> /\ i = 1 /\ bound = {} /\ offset = 0
    BY DEF Underway, NewIBO
  <2>3. \A s \in object.has : Earlier(object, s) \subseteq {} => Before(object, s) = 0
    BY <1>1, BeforeFirst DEF Object
  <2>4. HowMany({}) = 0 /\ Prefix(object, {}) /\ Written(object, Handle, {})
    BY HowManyFacts DEF Prefix, Written
  <2>5. UNCHANGED <<object, objects, vbos, loopVars>> /\ pc' = "buffer" /\ pc = "ibo"
    BY DEF NewIBO
  <2>6. vbos[Handle].size = GetBufferSize(object)
    BY <2>5 DEF Underway, WithVBO, WithVAO
  <2> QED
    BY <1>1, <1>2, <1>3, <2>1, <2>2, <2>3, <2>4, <2>5, <2>6
       DEF Underway, Handle, Written, WithVAO, WithVBO, WithIBO, loopVars
<1> QED
  BY <1>4, <1>5, <1>6, <1>7 DEF AllFinished

(* the next stream is written after the others, within the buffer *)
LEMMA BufferKeeps == ASSUME IInv, Buffer PROVE IInv'
<1> USE DEF IInv
<1> DEFINE s == FirstBy(BufferRank, object.has \ buffered)
           rest == object.has \ (buffered \cup {s})
<1>0. pc = "buffer" /\ pc \in WithVAO /\ pc \in WithVBO /\ pc \in WithIBO
  BY DEF Buffer, WithVAO, WithVBO, WithIBO
<1>1. /\ Ready(object) /\ object \in Object /\ Prefix(object, buffered) /\ buffered # object.has
      /\ Len(offsets) = HowMany(buffered) /\ offsets \in Seq(Nat)
      /\ arrayBuffer = Handle /\ Len(vbos) = Handle
      /\ vbos[Handle].size = GetBufferSize(object)
      /\ Written(object, Handle, buffered)
  BY <1>0 DEF Underway, Handles, Ready, TypeOK, Buffer
<1>2. /\ s \in object.has \ buffered /\ s \in Streams
      /\ Earlier(object, s) = buffered
      /\ Prefix(object, buffered \cup {s})
      /\ \A u \in rest : BufferRank[s] < BufferRank[u]
  BY <1>1, PrefixNext
<1> HIDE DEF s
<1>3. /\ Before(object, s) \in Nat /\ Bytes(object, s) \in Nat
      /\ Before(object, s) + Bytes(object, s) <= GetBufferSize(object)
      /\ offset = Before(object, s)
  <2>1. offset = Before(object, s)
    BY <1>0, <1>2 DEF Underway
  <2> QED
    BY <1>1, <1>2, <2>1, BeforeType, BytesType
<1>4. /\ vbos' = BufferSubData(s, offset, Bytes(object, s))
      /\ offsets' = Append(offsets, offset) /\ offset' = offset + Bytes(object, s)
      /\ buffered' = buffered \cup {s}
      /\ UNCHANGED <<pc, object, x, y, objects, vertexArray, arrayBuffer, vaos, ibos, i, bound>>
  BY DEF Buffer, s, gridVars, bindVars
<1>5. /\ Len(objects) \in Nat /\ Handle = Len(objects) + 1 /\ DOMAIN objects = 1..Len(objects)
  BY DEF TypeOK, Handle
<1> DEFINE old == vbos[Handle].data
           new == Overwrite(old, s, offset, Bytes(object, s))
<1>6. vbos' = [vbos EXCEPT ![Handle].data = new]
  <2>1. ~(arrayBuffer = 0 \/ offset + Bytes(object, s) > vbos[arrayBuffer].size)
    BY <1>1, <1>2, <1>3, <1>5, BeforeType
  <2> QED
    BY <1>1, <1>4, <2>1, Zenon DEF BufferSubData
<1>7. new \in SUBSET [stream : Streams, at : Nat, bytes : Nat]
  <2>1. old \in SUBSET [stream : Streams, at : Nat, bytes : Nat]
    <3>1. vbos \in Seq(BufferObject)
      BY DEF TypeOK
    <3>2. Handle \in 1..Len(vbos)
      BY <1>1, <1>5
    <3>3. vbos[Handle] \in BufferObject
      BY <3>1, <3>2, ElementOfSeq
    <3> QED
      BY <3>3 DEF BufferObject
  <2>2. Piece(object, s) \in [stream : Streams, at : Nat, bytes : Nat]
    BY <1>2, <1>3 DEF Piece
  <2> QED
    BY <1>3, <2>1, <2>2 DEF Overwrite, Piece
<1>8. \A t \in buffered \cup {s} : Piece(object, t) \in new
  <2> SUFFICES ASSUME NEW t \in buffered PROVE Piece(object, t) \in new
    BY <1>3 DEF Overwrite, Piece
  <2>1. t \in Streams /\ BufferRank[t] < BufferRank[s]
    BY <1>1, <1>2 DEF Earlier, Object
  <2>2. Before(object, t) + Bytes(object, t) <= offset
    BY <1>1, <1>2, <1>3, <2>1, BeforeIncreases
  <2>3. Piece(object, t) \in old
    BY <1>1 DEF Written
  <2> QED
    BY <2>2, <2>3 DEF Piece, Overwrite
<1> HIDE DEF new, old
<1>9. /\ vbos' \in Seq(BufferObject)
      /\ Len(vbos') = Len(vbos) /\ vbos'[Handle].data = new
      /\ vbos'[Handle].size = vbos[Handle].size
      /\ \A h \in DOMAIN objects : vbos'[h] = vbos[h]
  <2>1. vbos \in Seq(BufferObject)
    BY DEF TypeOK
  <2>2. Handle \in 1..Len(vbos) /\ DOMAIN objects \subseteq 1..Len(vbos) /\ Handle \notin DOMAIN objects
    BY <1>1, <1>5
  <2>3. [vbos[Handle] EXCEPT !.data = new] \in BufferObject
    <3>1. vbos[Handle] \in BufferObject
      BY <2>1, <2>2, ElementOfSeq
    <3>2. \A b \in BufferObject, d \in SUBSET [stream : Streams, at : Nat, bytes : Nat] :
             [b EXCEPT !.data = d] \in BufferObject
      BY DEF BufferObject
    <3> QED
      BY <1>7, <3>1, <3>2
  <2>4. vbos' = [vbos EXCEPT ![Handle] = [vbos[Handle] EXCEPT !.data = new]]
    BY <1>6, <2>1, <2>2
  <2>5. vbos[Handle] \in BufferObject
    BY <2>1, <2>2, ElementOfSeq
  <2>6. /\ [vbos[Handle] EXCEPT !.data = new].data = new
        /\ [vbos[Handle] EXCEPT !.data = new].size = vbos[Handle].size
    BY <2>5 DEF BufferObject
  <2>7. vbos' \in Seq(BufferObject) /\ Len(vbos') = Len(vbos)
    BY <2>1, <2>2, <2>3, <2>4, ExceptSeq
  <2>8. /\ vbos'[Handle] = [vbos[Handle] EXCEPT !.data = new]
        /\ \A h \in DOMAIN objects : vbos'[h] = vbos[h]
    BY <2>1, <2>2, <2>4
  <2> QED
    BY <2>6, <2>7, <2>8
<1>10. offsets' \in Seq(Nat) /\ offset' \in Nat /\ buffered' \subseteq Streams
  BY <1>1, <1>2, <1>3, <1>4 DEF Prefix, Object
<1>11. TypeOK'
  BY <1>4, <1>9, <1>10 DEF TypeOK, Handle
<1>12. Handles'
  BY <1>4, <1>9 DEF Handles, Handle
<1>13. AllFinished'
  BY <1>4, <1>9, OthersKept
<1>14. /\ Len(offsets') = HowMany(buffered')
       /\ \A t \in buffered' : offsets'[HowMany(Earlier(object, t)) + 1] = Before(object, t)
  <2>1. buffered \in SUBSET Streams /\ HowMany(buffered) \in Nat
    BY <1>1, HowManyFacts DEF Prefix, Object
  <2>2. Len(offsets') = HowMany(buffered')
    BY <1>1, <1>2, <1>4, <2>1, HowManyFacts
  <2>3. offsets'[HowMany(Earlier(object, s)) + 1] = Before(object, s)
    BY <1>1, <1>2, <1>3, <1>4, <2>1
  <2>4. ASSUME NEW t \in buffered
        PROVE  offsets'[HowMany(Earlier(object, t)) + 1] = Before(object, t)
    <3>1. Earlier(object, t) \subseteq buffered /\ t \in Streams \ Earlier(object, t)
      BY <1>1, <2>1, RankInjective DEF Prefix, Earlier
    <3>2. HowMany(Earlier(object, t) \cup {t}) = HowMany(Earlier(object, t)) + 1
      BY <3>1, <2>1, HowManyFacts
    <3>3. HowMany(Earlier(object, t)) + 1 \in 1..Len(offsets)
      <4>1. Earlier(object, t) \cup {t} \in SUBSET Streams /\ Earlier(object, t) \in SUBSET Streams
        BY <3>1, <2>1
      <4>2. HowMany(Earlier(object, t) \cup {t}) <= HowMany(buffered)
        BY <3>1, <2>1, <4>1, HowManyFacts
      <4> QED
        BY <1>1, <3>2, <4>1, <4>2, HowManyFacts
    <3> QED
      BY <1>0, <1>1, <1>3, <1>4, <3>3 DEF Underway
  <2> QED
    BY <1>4, <2>2, <2>3, <2>4
<1>15. ASSUME NEW u \in rest, Earlier(object, u) \subseteq buffered'
       PROVE  offset' = Before(object, u)
  <2>1. u \in object.has /\ BufferRank[s] < BufferRank[u] /\ s \in object.has
    BY <1>2
  <2>2. \A t \in object.has : BufferRank[t] < BufferRank[u] => BufferRank[t] <= BufferRank[s]
    <3> TAKE t \in object.has
    <3> HAVE BufferRank[t] < BufferRank[u]
    <3>1. t \in buffered \cup {s}
      BY <1>4, <1>15 DEF Earlier
    <3>2. t \in Earlier(object, s) \/ t = s
      BY <1>2, <3>1
    <3>3. t \in Streams /\ s \in Streams
      BY <1>1, <1>2 DEF Object
    <3> QED
      BY <3>2, <3>3, RankInjective DEF Earlier
  <2>3. Before(object, u) = Before(object, s) + Bytes(object, s)
    BY <1>1, <2>1, <2>2, BeforeNext
  <2> QED
    BY <1>3, <1>4, <2>3
<1>16. Underway'
  <2>1. Written(object, Handle, buffered)'
    BY <1>4, <1>8, <1>9 DEF Written, Handle, Piece
  <2>2. /\ Attached(object, Handle, {}) /\ bound = {} /\ i = 1
        /\ vaos[Handle].elements = Handle /\ ibos[Handle] = object.indices
    BY <1>0 DEF Underway
  <2>3. Attached(object, Handle, {})'
    BY <1>4, <2>2 DEF Attached, Handle
  <2>4. \A u \in object.has \ buffered' :
           Earlier(object, u) \subseteq buffered' => offset' = Before(object, u)
    BY <1>4, <1>15
  <2>5. Prefix(object, buffered') /\ Ready(object) /\ vbos'[Handle].size = GetBufferSize(object)
    BY <1>1, <1>2, <1>4, <1>9
  <2>6. pc' = "buffer" /\ Handle' = Handle /\ object' = object
    BY <1>0, <1>4 DEF Handle
  <2> QED
    BY <1>4, <1>14, <2>1, <2>2, <2>3, <2>4, <2>5, <2>6
       DEF Underway, WithVAO, WithVBO, WithIBO, Written, Attached
<1> QED
  BY <1>11, <1>12, <1>13, <1>16 DEF AllFinished

LEMMA EndBufferKeeps == ASSUME IInv, EndBuffer PROVE IInv'
<1> USE DEF IInv
<1>1. /\ pc = "buffer" /\ pc' = "bind" /\ buffered = object.has
      /\ UNCHANGED <<object, x, y, objects, vertexArray, arrayBuffer, vaos, vbos, ibos,
                     offset, buffered, offsets, i, bound>>
  BY DEF EndBuffer, gridVars, bindVars, loopVars
<1>2. TypeOK'
  BY <1>1 DEF TypeOK, Places, Handle
<1>3. Handles'
  BY <1>1 DEF Handles, Handle, WithVAO, WithVBO, WithIBO
<1>4. AllFinished'
  BY <1>1, OthersKept
<1>5. Underway'
  <2>1. HowMany({}) = 0 /\ Prefix(object, {})
    BY HowManyFacts DEF Prefix
  <2>2. /\ Ready(object) /\ Attached(object, Handle, {}) /\ bound = {} /\ i = 1
        /\ vbos[Handle].size = GetBufferSize(object)
        /\ vaos[Handle].elements = Handle /\ ibos[Handle] = object.indices
        /\ Prefix(object, buffered) /\ Len(offsets) = HowMany(buffered)
        /\ \A s \in buffered : offsets[HowMany(Earlier(object, s)) + 1] = Before(object, s)
        /\ Written(object, Handle, buffered)
    BY <1>1 DEF Underway, WithVAO, WithVBO, WithIBO
  <2>3. Attached(object, Handle, {})' /\ Written(object, Handle, buffered)'
    BY <1>1, <2>2 DEF Attached, Written, Handle
  <2> QED
    BY <1>1, <2>1, <2>2, <2>3 DEF Underway, Handle, WithVAO, WithVBO, WithIBO
<1> QED
  BY <1>2, <1>3, <1>4, <1>5 DEF AllFinished

(* the i-th offset is that of the i-th stream, for the streams are bound   *)
(* in the order in which they were buffered                                *)
LEMMA BindAttributeKeeps == ASSUME IInv, BindAttribute PROVE IInv'
<1> USE DEF IInv
<1> DEFINE s == FirstBy(BindRank, object.has \ bound)
           a == [vbo |-> arrayBuffer, size |-> Size(object, s), at |-> offsets[i]]
<1>1. /\ pc = "bind" /\ i <= Len(offsets)
      /\ vaos' = [vaos EXCEPT ![vertexArray].attribs[Location[s]] = a]
      /\ i' = i + 1 /\ bound' = bound \cup {s}
      /\ UNCHANGED <<pc, object, x, y, objects, vertexArray, arrayBuffer, vbos, ibos,
                     offset, buffered, offsets>>
  BY DEF BindAttribute, gridVars, bindVars
<1>2. /\ Ready(object) /\ object \in Object /\ Prefix(object, bound) /\ i = HowMany(bound) + 1
      /\ Attached(object, Handle, bound) /\ buffered = object.has
      /\ Len(offsets) = HowMany(buffered)
      /\ \A t \in buffered : offsets[HowMany(Earlier(object, t)) + 1] = Before(object, t)
      /\ vaos[Handle].elements = Handle
  BY <1>1 DEF Underway, Ready, WithVAO, WithVBO, WithIBO
<1>3. /\ Len(objects) \in Nat /\ Handle = Len(objects) + 1 /\ DOMAIN objects = 1..Len(objects)
      /\ vertexArray = Handle /\ arrayBuffer = Handle /\ DOMAIN vaos = 0..Handle
  BY <1>1 DEF TypeOK, Handle, Handles, WithVAO, WithVBO, WithIBO
<1>4. bound # object.has
  <2>1. bound \in SUBSET Streams /\ object.has \in SUBSET Streams
    BY <1>2 DEF Prefix, Object
  <2>2. HowMany(bound) \in Nat /\ HowMany(object.has) \in Nat
    BY <2>1, HowManyFacts
  <2> QED
    BY <1>1, <1>2, <2>2
<1>5. /\ s \in object.has \ bound /\ s \in Streams /\ Earlier(object, s) = bound
      /\ Prefix(object, bound \cup {s})
  BY <1>2, <1>4, PrefixNext, RankInjective
<1> HIDE DEF s
<1>6. a = Attrib(object, Handle, s)
  <2>1. offsets[i] = Before(object, s)
    BY <1>2, <1>5
  <2> QED
    BY <1>3, <2>1 DEF Attrib
<1>7. a \in [vbo : Nat, size : 0..4, at : Nat]
  <2>1. Before(object, s) \in Nat
    BY <1>2, <1>5, BeforeType
  <2>2. Size(object, s) \in 0..4
    BY <1>2, <1>5 DEF Size, Floats, Streams, Object
  <2> QED
    BY <1>3, <1>6, <2>1, <2>2 DEF Attrib
<1> HIDE DEF a
<1>8. Location[s] \in 0..5 /\ \A t \in Streams : Location[t] = Location[s] => t = s
  BY <1>5 DEF Location, Streams
<1> DEFINE array == vaos[Handle]  attribs == [array.attribs EXCEPT ![Location[s]] = a]
<1>9. array \in [attribs : Attribs, elements : Nat] /\ array.elements = Handle
  BY <1>2, <1>3 DEF TypeOK
<1>10. attribs \in Attribs /\ attribs[Location[s]] = a
       /\ \A t \in Streams \ {s} : attribs[Location[t]] = array.attribs[Location[t]]
  <2>1. array.attribs \in Attribs
    BY <1>9
  <2> QED
    BY <1>7, <1>8, <2>1 DEF Attribs
<1>11. /\ vaos'[Handle].attribs = attribs /\ vaos'[Handle].elements = Handle
       /\ \A h \in DOMAIN vaos \ {Handle} : vaos'[h] = vaos[h]
       /\ DOMAIN vaos' = DOMAIN vaos
       /\ vaos' \in [DOMAIN vaos -> [attribs : Attribs, elements : Nat]]
  <2>1. vaos' = [vaos EXCEPT ![Handle] = [array EXCEPT !.attribs = attribs]]
    BY <1>1, <1>3, <1>9
  <2> HIDE DEF attribs
  <2>2. /\ [array EXCEPT !.attribs = attribs] \in [attribs : Attribs, elements : Nat]
        /\ [array EXCEPT !.attribs = attribs].attribs = attribs
        /\ [array EXCEPT !.attribs = attribs].elements = Handle
    BY <1>9, <1>10
  <2>3. vaos \in [DOMAIN vaos -> [attribs : Attribs, elements : Nat]] /\ Handle \in DOMAIN vaos
    BY <1>3 DEF TypeOK
  <2> HIDE DEF array
  <2> QED
    BY <2>1, <2>2, <2>3
<1> HIDE DEF attribs
<1>12. Attached(object, Handle, bound)'
  <2> SUFFICES ASSUME NEW t \in Streams
               PROVE  vaos'[Handle].attribs[Location[t]]
                        = IF t \in bound \cup {s} THEN Attrib(object, Handle, t) ELSE Unset
    BY <1>1 DEF Attached, Handle, Attrib, Size
  <2>1. CASE t = s
    BY <1>6, <1>10, <1>11, <2>1
  <2>2. CASE t # s
    BY <1>2, <1>10, <1>11, <2>2 DEF Attached
  <2> QED
    BY <2>1, <2>2
<1>13. TypeOK'
  <2>1. i' \in Nat /\ bound' \subseteq Streams
    BY <1>1, <1>2, <1>5 DEF TypeOK
  <2> QED
    BY <1>1, <1>11, <2>1 DEF TypeOK, Handle
<1>14. Handles'
  BY <1>1, <1>11 DEF Handles, Handle
<1>15. AllFinished'
  BY <1>1, <1>3, <1>11, OthersKept
<1>16. Underway'
  <2>1. bound \in SUBSET Streams
    BY <1>2 DEF Prefix, Object
  <2>2. HowMany(bound \cup {s}) = HowMany(bound) + 1
    BY <1>5, <2>1, HowManyFacts
  <2>3. i' = HowMany(bound') + 1 /\ Prefix(object, bound') /\ Attached(object, Handle, bound)'
    BY <1>1, <1>2, <1>5, <1>12, <2>1, <2>2, HowManyFacts
  <2>4. /\ vbos[Handle].size = GetBufferSize(object) /\ ibos[Handle] = object.indices
        /\ Prefix(object, buffered) /\ Written(object, Handle, buffered)
    BY <1>1 DEF Underway, WithVAO, WithVBO, WithIBO
  <2>5. pc' = "bind" /\ Handle' = Handle /\ Written(object, Handle, buffered)'
    BY <1>1, <2>4 DEF Handle, Written
  <2> QED
    BY <1>1, <1>2, <1>11, <2>3, <2>4, <2>5 DEF Underway, WithVAO, WithVBO, WithIBO
<1> QED
  BY <1>13, <1>14, <1>15, <1>16 DEF AllFinished

LEMMA UnbindVAOKeeps == ASSUME IInv, UnbindVAO PROVE IInv'
<1> USE DEF IInv
<1>1. /\ pc = "bind" /\ pc' = "unbind_vbo" /\ vertexArray' = 0 /\ i > Len(offsets)
      /\ UNCHANGED <<object, x, y, objects, arrayBuffer, vaos, vbos, ibos,
                     offset, buffered, offsets, i, bound>>
  BY DEF UnbindVAO, gridVars, loopVars
<1>2. /\ Ready(object) /\ object \in Object /\ Prefix(object, bound) /\ i = HowMany(bound) + 1
      /\ Attached(object, Handle, bound) /\ buffered = object.has
      /\ Len(offsets) = HowMany(buffered)
      /\ vbos[Handle].size = GetBufferSize(object)
      /\ vaos[Handle].elements = Handle /\ ibos[Handle] = object.indices
      /\ Prefix(object, buffered)
      /\ \A s \in buffered : offsets[HowMany(Earlier(object, s)) + 1] = Before(object, s)
      /\ Written(object, Handle, buffered)
  BY <1>1 DEF Underway, Ready, WithVAO, WithVBO, WithIBO
<1>3. bound = object.has
  <2>1. bound \in SUBSET Streams /\ object.has \in SUBSET Streams /\ bound \subseteq object.has
    BY <1>2 DEF Prefix, Object
  <2>2. HowMany(bound) \in Nat /\ HowMany(object.has) \in Nat /\ HowMany(bound) <= HowMany(object.has)
    BY <2>1, HowManyFacts
  <2>3. HowMany(bound) = HowMany(object.has)
    BY <1>1, <1>2, <2>2
  <2> QED
    BY <2>1, <2>3, HowManyFacts
<1>4. TypeOK'
  <2>1. 0 \in DOMAIN vaos
    <3>1. Len(objects) \in Nat /\ 0..Len(objects) \subseteq DOMAIN vaos
      BY DEF TypeOK
    <3> QED
      BY <3>1
  <2> QED
    BY <1>1, <2>1 DEF TypeOK, Places, Handle
<1>5. Handles'
  BY <1>1 DEF Handles, Handle, WithVAO, WithVBO, WithIBO
<1>6. AllFinished'
  BY <1>1, OthersKept
<1>7. Underway'
  <2>1. Attached(object, Handle, object.has)' /\ Written(object, Handle, buffered)'
    BY <1>1, <1>2, <1>3 DEF Attached, Written, Handle
  <2> QED
    BY <1>1, <1>2, <2>1 DEF Underway, Handle, WithVAO, WithVBO, WithIBO
<1> QED
  BY <1>4, <1>5, <1>6, <1>7 DEF AllFinished

LEMMA UnbindVBOKeeps == ASSUME IInv, UnbindVBO PROVE IInv'
<1> USE DEF IInv
<1>1. /\ pc = "unbind_vbo" /\ pc' = "unbind_ibo" /\ arrayBuffer' = 0
      /\ UNCHANGED <<object, x, y, objects, vertexArray, vaos, vbos, ibos,
                     offset, buffered, offsets, i, bound>>
  BY DEF UnbindVBO, gridVars, loopVars
<1>2. TypeOK'
  BY <1>1 DEF TypeOK, Places, Handle
<1>3. Handles'
  BY <1>1 DEF Handles, Handle, WithVAO, WithVBO, WithIBO
<1>4. AllFinished'
  BY <1>1, OthersKept
<1>5. Underway'
  <2>1. /\ Ready(object) /\ Attached(object, Handle, object.has) /\ buffered = object.has
        /\ Len(offsets) = HowMany(buffered)
        /\ vbos[Handle].size = GetBufferSize(object)
        /\ vaos[Handle].elements = Handle /\ ibos[Handle] = object.indices
        /\ Prefix(object, buffered)
        /\ \A s \in buffered : offsets[HowMany(Earlier(object, s)) + 1] = Before(object, s)
        /\ Written(object, Handle, buffered)
    BY <1>1 DEF Underway, WithVAO, WithVBO, WithIBO
  <2>2. Attached(object, Handle, object.has)' /\ Written(object, Handle, buffered)'
    BY <1>1, <2>1 DEF Attached, Written, Handle
  <2> QED
    BY <1>1, <2>1, <2>2 DEF Underway, Handle, WithVAO, WithVBO, WithIBO
<1> QED
  BY <1>2, <1>3, <1>4, <1>5 DEF AllFinished

(* the elements that are cleared are GL's own, not those of an object      *)
LEMMA UnbindIBOKeeps == ASSUME IInv, UnbindIBO PROVE IInv'
<1> USE DEF IInv
<1>1. /\ pc = "unbind_ibo" /\ vaos' = BindElements(0)
      /\ \/ object.kind = "traced" /\ pc' = "optix" /\ objects' = objects
         \/ object.kind # "traced" /\ pc' = "idle" /\ objects' = Append(objects, object)
      /\ UNCHANGED <<object, x, y, vertexArray, arrayBuffer, vbos, ibos,
                     offset, buffered, offsets, i, bound>>
  BY DEF UnbindIBO, gridVars, bindVars, loopVars
<1>2. /\ Ready(object) /\ object \in Object /\ Attached(object, Handle, object.has)
      /\ buffered = object.has /\ Len(offsets) = HowMany(buffered)
      /\ vbos[Handle].size = GetBufferSize(object)
      /\ vaos[Handle].elements = Handle /\ ibos[Handle] = object.indices
      /\ Prefix(object, buffered)
      /\ \A s \in buffered : offsets[HowMany(Earlier(object, s)) + 1] = Before(object, s)
      /\ Written(object, Handle, buffered)
  BY <1>1 DEF Underway, Ready, WithVAO, WithVBO, WithIBO
<1>3. /\ Len(objects) \in Nat /\ Handle = Len(objects) + 1 /\ DOMAIN objects = 1..Len(objects)
      /\ vertexArray = 0 /\ DOMAIN vaos = 0..Handle
      /\ Len(vbos) = Handle /\ Len(ibos) = Handle /\ objects \in Seq(Object)
  BY <1>1 DEF TypeOK, Handle, Handles, WithVAO, WithVBO, WithIBO
<1>4. /\ vaos' \in [DOMAIN vaos -> [attribs : Attribs, elements : Nat]]
      /\ DOMAIN vaos' = 0..Handle
      /\ \A h \in 1..Handle : vaos'[h] = vaos[h]
  BY <1>1, <1>3, BindElementsKeeps
<1>5. CASE pc' = "optix"
  <2>1. objects' = objects /\ object.kind = "traced" /\ Handle' = Handle
    BY <1>1, <1>5 DEF Handle
  <2>2. TypeOK'
    BY <1>1, <1>3, <1>4, <1>5, <2>1 DEF TypeOK, Places
  <2>3. Handles'
    BY <1>1, <1>3, <1>4, <1>5, <2>1 DEF Handles, WithVAO, WithVBO, WithIBO
  <2>4. AllFinished'
    BY <1>1, <1>3, <1>4, <2>1, OthersKept
  <2>5. Attached(object, Handle, object.has)' /\ Written(object, Handle, buffered)'
    BY <1>1, <1>2, <1>3, <1>4, <2>1 DEF Attached, Written
  <2>6. vaos'[Handle].elements = Handle
    BY <1>2, <1>3, <1>4
  <2>7. Underway'
    BY <1>1, <1>2, <1>5, <2>1, <2>5, <2>6 DEF Underway, WithVAO, WithVBO, WithIBO
  <2> QED
    BY <2>2, <2>3, <2>4, <2>7 DEF AllFinished
<1>6. CASE pc' = "idle"
  <2>1. /\ objects' = Append(objects, object) /\ object.kind # "traced"
        /\ Len(objects') = Handle /\ Handle' = Handle + 1 /\ objects' \in Seq(Object)
        /\ DOMAIN objects' = 1..Handle /\ objects'[Handle] = object
        /\ \A h \in 1..Len(objects) : objects'[h] = objects[h]
    <3>1. objects' = Append(objects, object) /\ object.kind # "traced"
      BY <1>1, <1>6
    <3>2. /\ objects' \in Seq(Object) /\ Len(objects') = Len(objects) + 1
          /\ objects'[Len(objects) + 1] = object
          /\ \A h \in 1..Len(objects) : objects'[h] = objects[h]
      BY <1>2, <1>3, <3>1
    <3> QED
      BY <1>3, <3>1, <3>2 DEF Handle
  <2>2. TypeOK'
    <3>1. /\ DOMAIN vaos' \subseteq 0..Handle' /\ 0..Len(objects') \subseteq DOMAIN vaos'
          /\ Len(objects') <= Len(vbos') /\ Len(objects') <= Len(ibos')
          /\ vertexArray' \in DOMAIN vaos' /\ arrayBuffer' \in 0..Len(vbos')
      <4>1. arrayBuffer \in 0..Len(vbos)
        BY DEF TypeOK
      <4>2. vbos' = vbos /\ ibos' = ibos /\ vertexArray' = 0 /\ arrayBuffer' = arrayBuffer
        BY <1>1, <1>3
      <4>3. Handle \in Nat /\ Handle' = Handle + 1 /\ Len(objects') = Handle
        BY <1>3, <2>1
      <4>4. DOMAIN vaos' = 0..Handle /\ Len(vbos) = Handle /\ Len(ibos) = Handle
        BY <1>3, <1>4
      <4> QED
        BY <4>1, <4>2, <4>3, <4>4
    <3> QED
      BY <1>1, <1>3, <1>4, <1>6, <2>1, <3>1 DEF TypeOK, Places
  <2>3. Handles'
    BY <1>1, <1>3, <1>4, <1>6, <2>1 DEF Handles, WithVAO, WithVBO, WithIBO
  <2>4. AllFinished'
    <3>1. Finished(object, Handle)
      BY <1>2, <2>1 DEF Finished
    <3>2. DOMAIN objects' = DOMAIN objects \cup {Handle} /\ Handle \in Nat
      BY <1>3, <2>1
    <3>3. \A h \in DOMAIN objects' : vaos'[h] = vaos[h]
      BY <1>4, <2>1
    <3>4. /\ AllFinished /\ vbos' = vbos /\ ibos' = ibos
          /\ \A h \in DOMAIN objects : objects'[h] = objects[h]
      BY <1>1, <1>3, <2>1 DEF AllFinished
    <3> QED
      BY <2>1, <3>1, <3>2, <3>3, <3>4, FinishedMore
  <2>5. Underway'
    BY <1>6 DEF Underway, WithVAO, WithVBO, WithIBO
  <2> QED
    BY <2>2, <2>3, <2>4, <2>5 DEF AllFinished
<1> QED
  BY <1>1, <1>5, <1>6

LEMMA FromMeshDataKeeps == ASSUME IInv, FromMeshData PROVE IInv'
<1> USE DEF IInv
<1> DEFINE o == [object EXCEPT !.rt = Geometry(object)]
<1>1. /\ pc = "optix" /\ pc' = "idle" /\ objects' = Append(objects, o)
      /\ UNCHANGED <<object, x, y, vertexArray, arrayBuffer, vaos, vbos, ibos,
                     offset, buffered, offsets, i, bound>>
  BY DEF FromMeshData, gridVars, bindVars, loopVars
<1>2. /\ Ready(object) /\ object \in Object /\ Attached(object, Handle, object.has)
      /\ Written(object, Handle, object.has)
      /\ vaos[Handle].elements = Handle /\ ibos[Handle] = object.indices
  BY <1>1 DEF Underway, Ready, WithVAO, WithVBO, WithIBO
<1>3. /\ Len(objects) \in Nat /\ Handle = Len(objects) + 1 /\ DOMAIN objects = 1..Len(objects)
      /\ DOMAIN vaos = 0..Handle
      /\ Len(vbos) = Handle /\ Len(ibos) = Handle /\ objects \in Seq(Object)
  BY <1>1 DEF TypeOK, Handle, Handles, WithVAO, WithVBO, WithIBO
<1>4. Geometry(object) \in [normal_offset : Nat, vertices : Nat, primitives : Nat]
  <2>1. \A s \in Streams : Count(object, s) \in Nat
    BY <1>2 DEF Count, Object
  <2>2. Len(object.indices) \div 3 \in Nat
    <3>1. Len(object.indices) \in Nat
      BY <1>2 DEF Object
    <3>2. \A k \in Nat : k \div 3 \in Nat
      OBVIOUS
    <3> QED
      BY <3>1, <3>2
  <2>3. /\ Count(object, "vertices") \in Nat /\ Count(object, "normals") \in Nat
        /\ Count(object, "texcoords") \in Nat /\ Count(object, "tangents") \in Nat
        /\ Count(object, "bitangents") \in Nat
    BY <2>1 DEF Streams
  <2>4. Count(object, "vertices") + Count(object, "normals") + Count(object, "texcoords")
          + Count(object, "tangents") + Count(object, "bitangents") \in Nat
    BY <2>3
  <2> QED
    BY <2>2, <2>3, <2>4, Zenon DEF Geometry
<1>5. /\ o \in Object /\ o.kind = object.kind /\ o.n = object.n /\ o.position = object.position
      /\ o.has = object.has /\ o.indices = object.indices /\ o.rt = Geometry(object)
  BY <1>2, <1>4 DEF Object
<1> HIDE DEF o
<1>6. /\ Size(o, "vertices") = Size(object, "vertices")
      /\ \A s \in Streams : Size(o, s) = Size(object, s) /\ Bytes(o, s) = Bytes(object, s)
      /\ \A s \in Streams : Before(o, s) = Before(object, s)
      /\ Geometry(o) = Geometry(object)
  BY <1>5 DEF Size, Bytes, Before, Until, Streams, Geometry, Count
<1>7. Ready(o)
  BY <1>2, <1>5 DEF Ready
<1>8. Finished(o, Handle)
  <2>1. o.has \subseteq Streams
    BY <1>5 DEF Object
  <2>2. Attached(o, Handle, o.has)
    BY <1>2, <1>5, <1>6 DEF Attached, Attrib
  <2>3. Written(o, Handle, o.has)
    BY <1>2, <1>5, <1>6, <2>1 DEF Written, Piece
  <2> QED
    BY <1>2, <1>5, <1>6, <1>7, <2>2, <2>3 DEF Finished
<1>9. /\ Len(objects') = Handle /\ Handle' = Handle + 1 /\ objects' \in Seq(Object)
      /\ DOMAIN objects' = 1..Handle /\ objects'[Handle] = o
      /\ \A h \in 1..Len(objects) : objects'[h] = objects[h]
  BY <1>1, <1>3, <1>5 DEF Handle
<1>10. TypeOK'
  <2>1. /\ DOMAIN vaos \subseteq 0..Handle' /\ 0..Len(objects') \subseteq DOMAIN vaos
        /\ Len(objects') <= Len(vbos) /\ Len(objects') <= Len(ibos)
    BY <1>3, <1>9
  <2> QED
    BY <1>1, <1>9, <2>1 DEF TypeOK, Places
<1>11. Handles'
  BY <1>1, <1>3, <1>9 DEF Handles, WithVAO, WithVBO, WithIBO
<1>12. AllFinished'
  <2>1. DOMAIN objects' = DOMAIN objects \cup {Handle} /\ Handle \in Nat
    BY <1>3, <1>9
  <2>2. /\ AllFinished /\ \A h \in DOMAIN objects' : vaos'[h] = vaos[h]
        /\ \A h \in DOMAIN objects : objects'[h] = objects[h]
    BY <1>1, <1>3, <1>9 DEF AllFinished
  <2> QED
    BY <1>1, <1>8, <1>9, <2>1, <2>2, FinishedMore
<1>13. Underway'
  BY <1>1 DEF Underway, WithVAO, WithVBO, WithIBO
<1> QED
  BY <1>10, <1>11, <1>12, <1>13 DEF AllFinished

LEMMA DrawKeeps == ASSUME IInv, Draw PROVE IInv'
<1> USE DEF IInv
<1>1. /\ pc = "idle" /\ vertexArray' \in DOMAIN objects
      /\ UNCHANGED <<pc, object, x, y, objects, arrayBuffer, vaos, vbos, ibos,
                     offset, buffered, offsets, i, bound>>
  BY DEF Draw, gridVars, loopVars
<1>2. TypeOK'
  <2>1. DOMAIN objects \subseteq DOMAIN vaos
    <3>1. Len(objects) \in Nat /\ DOMAIN objects = 1..Len(objects)
      BY DEF TypeOK
    <3>2. 0..Len(objects) \subseteq DOMAIN vaos
      BY DEF TypeOK
    <3> QED
      BY <3>1, <3>2
  <2> QED
    BY <1>1, <2>1 DEF TypeOK, Handle
<1>3. Handles'
  BY <1>1 DEF Handles, Handle, WithVAO, WithVBO, WithIBO
<1>4. AllFinished'
  BY <1>1, OthersKept
<1>5. Underway'
  BY <1>1 DEF Underway, WithVAO, WithVBO, WithIBO
<1> QED
  BY <1>2, <1>3, <1>4, <1>5 DEF AllFinished

LEMMA BeginsKeep ==
  ASSUME IInv, BeginMesh \/ BeginCube \/ BeginQuad \/ BeginCubeSphere
  PROVE  IInv'
<1>1. CASE BeginMesh
  <2>1. PICK m \in Models :
          Begin(NewObject(IF m.traced THEN "traced" ELSE "mesh", m.n, 3, m.has, m.indices), "vao")
    BY <1>1, Zenon DEF BeginMesh
  <2> DEFINE o == NewObject(IF m.traced THEN "traced" ELSE "mesh", m.n, 3, m.has, m.indices)
  <2>2. Ready(o)
    BY ReadyMesh
  <2> HIDE DEF o
  <2>3. Begin(o, "vao")
    BY <2>1 DEF o
  <2> QED
    BY <2>2, <2>3, BeginKeeps DEF Ready
<1>2. CASE BeginCube
  BY <1>2, ReadyCube, BeginKeeps DEF BeginCube, Ready
<1>3. CASE BeginQuad
  BY <1>3, ReadyQuad, BeginKeeps DEF BeginQuad, Ready
<1>4. CASE BeginCubeSphere
  <2>1. PICK cells \in CellCounts :
          Begin([NewObject("sphere", 0, 3, {"texcoords"}, << >>) EXCEPT !.side = cells], "cells")
    BY <1>4 DEF BeginCubeSphere
  <2> DEFINE o == [NewObject("sphere", 0, 3, {"texcoords"}, << >>) EXCEPT !.side = cells]
  <2>2. cells \in Nat \ {0, 1}
    BY CellsAssumption
  <2>3. /\ o.kind = "sphere" /\ o.has = {"vertices"} \cup {"texcoords"} /\ o.side = cells
        /\ o.position = 3 /\ o.n = 0 /\ o.indices = << >>
    BY DEF NewObject
  <2>4. o \in Object
    <3>1. NewObject("sphere", 0, 3, {"texcoords"}, << >>) \in Object
      BY DEF NewObject, Object, NoGeometry, Streams
    <3>2. \A p \in Object : [p EXCEPT !.side = cells] \in Object
      BY <2>2 DEF Object
    <3> QED
      BY <3>1, <3>2
  <2> HIDE DEF o
  <2>5. Begin(o, "cells")
    BY <2>1 DEF o
  <2> QED
    BY <2>2, <2>3, <2>4, <2>5, BeginKeeps
<1> QED
  BY <1>1, <1>2, <1>3, <1>4

LEMMA StutterKeeps == ASSUME IInv, UNCHANGED vars PROVE IInv'
<1>1. UNCHANGED <<pc, object, x, y, objects, vertexArray, arrayBuffer, vaos, vbos, ibos,
                  offset, buffered, offsets, i, bound>>
  BY DEF vars, gridVars, bindVars, loopVars
<1>2. TypeOK'
  BY <1>1 DEF IInv, TypeOK, Handle
<1>3. Handles'
  BY <1>1 DEF IInv, Handles, Handle
<1>4. AllFinished'
  BY <1>1, OthersKept
<1>5. Underway'
  BY <1>1 DEF IInv, Underway, Handle, Attached, Written, Grid
<1> QED
  BY <1>2, <1>3, <1>4, <1>5 DEF IInv, AllFinished

-----------------------------------------------------------------------------
(* The constructors of Mesh, Cube, CubeSphere and Quad, render and         *)
(* OptixTriMeshLoader::fromMeshData keep the invariant, in any order.      *)
THEOREM UploadInvariant == Spec => []IInv
<1>1. ASSUME IInv, [Next]_vars
      PROVE  IInv'
  <2>1. CASE Construct
    BY <1>1, <2>1, BuildCellKeeps, EndCellsKeeps, NewVAOKeeps, NewVBOKeeps, NewIBOKeeps,
       BufferKeeps, EndBufferKeeps, BindAttributeKeeps, UnbindVAOKeeps, UnbindVBOKeeps,
       UnbindIBOKeeps, FromMeshDataKeeps
       DEF Construct
  <2>2. CASE Draw
    BY <1>1, <2>2, DrawKeeps
  <2>3. CASE BeginMesh \/ BeginCube \/ BeginQuad \/ BeginCubeSphere
    BY <1>1, <2>3, BeginsKeep
  <2>4. CASE UNCHANGED vars
    BY <1>1, <2>4, StutterKeeps
  <2> QED
    BY <1>1, <2>1, <2>2, <2>3, <2>4 DEF Next
<1> QED
  BY InitIInv, <1>1, PTL DEF Spec

(* What the constructors and GL keep has its types (VAO, VBO, IBO).        *)
THEOREM UploadTypeCorrect == Spec => []TypeOK
<1>1. IInv => TypeOK
  BY DEF IInv
<1> QED
  BY <1>1, UploadInvariant, PTL

(* Every attribute Mesh::Mesh and the others enable reads the range of the *)
(* object's own buffer that its stream was written to.                     *)
THEOREM OwnDataRead == Spec => []AttributesReadOwnData
<1>1. ASSUME IInv PROVE AttributesReadOwnData
  <2> SUFFICES ASSUME NEW h \in DOMAIN objects, NEW s \in Streams
               PROVE  LET a == vaos[h].attribs[Location[s]] IN
                        IF s \in objects[h].has
                        THEN /\ a.vbo = h /\ a.size = Size(objects[h], s)
                             /\ [stream |-> s, at |-> a.at, bytes |-> Bytes(objects[h], s)]
                                  \in vbos[h].data
                        ELSE a = Unset
    BY DEF AttributesReadOwnData
  <2>1. Attached(objects[h], h, objects[h].has) /\ Written(objects[h], h, objects[h].has)
    BY <1>1 DEF IInv, Finished
  <2>2. CASE s \in objects[h].has
    <3>1. vaos[h].attribs[Location[s]] = Attrib(objects[h], h, s)
      BY <2>1, <2>2 DEF Attached
    <3>2. Piece(objects[h], s) \in vbos[h].data
      BY <2>1, <2>2 DEF Written
    <3> QED
      BY <2>2, <3>1, <3>2 DEF Attrib, Piece
  <2>3. CASE s \notin objects[h].has
    BY <2>1, <2>3 DEF Attached
  <2> QED
    BY <2>2, <2>3
<1> QED
  BY <1>1, UploadInvariant, PTL

(* Every vertex array draws its object's own indices, all of them of       *)
(* vertices that the object has, whatever was unbound and when.            *)
THEOREM OwnElements == Spec => []ElementsAreOwn
<1>1. IInv => ElementsAreOwn
  BY DEF IInv, Finished, Ready, ElementsAreOwn
<1> QED
  BY <1>1, UploadInvariant, PTL

(* OptixTriMeshLoader::fromMeshData hands out the float3 where the normals *)
(* begin, for normals follow the vertices and both have three floats.      *)
THEOREM NormalsFound == Spec => []OptixReadsNormals
<1>1. ASSUME IInv PROVE OptixReadsNormals
  <2> SUFFICES ASSUME NEW h \in DOMAIN objects, objects[h].kind = "traced"
               PROVE  LET o == objects[h]  base == o.rt.normal_offset IN
                        /\ base > 0 <=> "normals" \in o.has
                        /\ base > 0 => /\ [stream |-> "normals", at |-> 12 * base, bytes |-> 12 * o.n]
                                             \in vbos[h].data
                                       /\ base + o.n <= o.rt.vertices
                        /\ 3 * o.rt.primitives = Len(ibos[h])
    BY DEF OptixReadsNormals
  <2> DEFINE o == objects[h]
  <2>1. Finished(o, h) /\ o.kind = "traced"
    BY <1>1 DEF IInv
  <2> HIDE DEF o
  <2>2. /\ Ready(o) /\ o \in Object /\ o.n \in Nat /\ o.n > 0 /\ o.position = 3
        /\ Len(o.indices) % 3 = 0 /\ Len(o.indices) \in Nat /\ "vertices" \in o.has
        /\ ibos[h] = o.indices /\ o.rt = Geometry(o)
    <3>1. Ready(o) /\ ibos[h] = o.indices /\ o.rt = Geometry(o)
      BY <2>1 DEF Finished
    <3>2. /\ o \in Object /\ "vertices" \in o.has
          /\ o.position = 3 /\ o.n > 0 /\ Len(o.indices) % 3 = 0
      BY <2>1, <3>1 DEF Ready
    <3>3. o.n \in Nat /\ o.indices \in Seq(Nat)
      BY <3>2 DEF Object
    <3>4. Len(o.indices) \in Nat
      BY <3>3
    <3> QED
      BY <3>1, <3>2, <3>3, <3>4, Zenon
  <2>3. /\ o.rt.normal_offset = Count(o, "normals")
        /\ o.rt.vertices = Count(o, "vertices") + Count(o, "normals") + Count(o, "texcoords")
                             + Count(o, "tangents") + Count(o, "bitangents")
        /\ o.rt.primitives = Len(o.indices) \div 3
    BY <2>2 DEF Geometry
  <2>4. o.rt.normal_offset > 0 <=> "normals" \in o.has
    BY <2>2, <2>3 DEF Count
  <2>5. ASSUME "normals" \in o.has
        PROVE  /\ [stream |-> "normals", at |-> 12 * o.n, bytes |-> 12 * o.n] \in vbos[h].data
               /\ o.rt.normal_offset = o.n
               /\ o.rt.normal_offset + o.n <= o.rt.vertices
    <3>1. Bytes(o, "vertices") = 12 * o.n /\ Bytes(o, "normals") = 12 * o.n
      BY <2>2, <2>5 DEF Bytes, Size, Floats
    <3>2. Before(o, "normals") = 12 * o.n
      BY <2>2, <3>1 DEF Before, Until, BufferRank
    <3>3. Piece(o, "normals") \in vbos[h].data
      BY <2>1, <2>5 DEF Finished, Written
    <3>4. /\ Count(o, "vertices") = o.n /\ Count(o, "normals") = o.n
          /\ Count(o, "texcoords") \in Nat /\ Count(o, "tangents") \in Nat
          /\ Count(o, "bitangents") \in Nat
      BY <2>2, <2>5 DEF Count
    <3> QED
      BY <2>2, <2>3, <3>1, <3>2, <3>3, <3>4 DEF Piece
  <2>6. 3 * o.rt.primitives = Len(ibos[h])
    <3>1. \A k \in Nat : k % 3 = 0 => 3 * (k \div 3) = k
      OBVIOUS
    <3> QED
      BY <2>2, <2>3, <3>1
  <2> QED
    BY <2>4, <2>5, <2>6 DEF o
<1> QED
  BY <1>1, UploadInvariant, PTL

-----------------------------------------------------------------------------
(* The strip of a sphere.  A row of cells takes two indices a cell, and    *)
(* two more join it to the next row.                                       *)

(* the first vertex of a row, and the indices before those of a row *)
FirstVertex(side, row) == row * side
RowStart(side, row) == row * (2 * side + 2)

LEMMA RowFacts ==
  ASSUME NEW side \in Nat \ {0, 1}
  PROVE  /\ \A row \in Nat : FirstVertex(side, row) \in Nat /\ RowStart(side, row) \in Nat
         /\ FirstVertex(side, 0) = 0 /\ RowStart(side, 0) = 0
         /\ \A row \in Nat : /\ FirstVertex(side, row + 1) = FirstVertex(side, row) + side
                             /\ RowStart(side, row + 1) = RowStart(side, row) + 2 * side + 2
         /\ \A r, s \in Nat : r < s =>
              /\ FirstVertex(side, r) + side <= FirstVertex(side, s)
              /\ RowStart(side, r) + 2 * side + 2 <= RowStart(side, s)
<1>1. ASSUME NEW width \in Nat
      PROVE  /\ \A row \in Nat : row * width \in Nat
             /\ 0 * width = 0
             /\ \A row \in Nat : (row + 1) * width = row * width + width
             /\ \A r, s \in Nat : r < s => r * width + width <= s * width
  <2>1. \A row \in Nat : row * width \in Nat
    OBVIOUS
  <2>2. \A row \in Nat : (row + 1) * width = row * width + width
    OBVIOUS
  <2>3. ASSUME NEW r \in Nat, NEW s \in Nat, r < s
        PROVE  r * width + width <= s * width
    <3>1. PICK d \in Nat : s = r + 1 + d
      <4>1. s - r - 1 \in Nat /\ s = r + 1 + (s - r - 1)
        BY <2>3
      <4> QED
        BY <4>1
    <3>2. s * width = (r + 1) * width + d * width
      BY <3>1
    <3>3. d * width \in Nat
      OBVIOUS
    <3>4. (r + 1) * width = r * width + width /\ r * width \in Nat
      OBVIOUS
    <3> QED
      BY <3>2, <3>3, <3>4
  <2> QED
    BY <2>1, <2>2, <2>3
<1>2. PICK width \in Nat : width = 2 * side + 2
  OBVIOUS
<1>3. \A row : RowStart(side, row) = row * width
  BY <1>2 DEF RowStart
<1>4. /\ \A row \in Nat : RowStart(side, row) \in Nat
      /\ RowStart(side, 0) = 0
      /\ \A row \in Nat : RowStart(side, row + 1) = RowStart(side, row) + width
      /\ \A r, s \in Nat : r < s => RowStart(side, r) + width <= RowStart(side, s)
  BY <1>1, <1>3
<1>5. /\ \A row \in Nat : FirstVertex(side, row) \in Nat
      /\ FirstVertex(side, 0) = 0
      /\ \A row \in Nat : FirstVertex(side, row + 1) = FirstVertex(side, row) + side
      /\ \A r, s \in Nat : r < s => FirstVertex(side, r) + side <= FirstVertex(side, s)
  BY <1>1 DEF FirstVertex
<1>6. ASSUME NEW row \in Nat
      PROVE  RowStart(side, row + 1) = RowStart(side, row) + 2 * side + 2
  <2>1. RowStart(side, row) \in Nat /\ RowStart(side, row + 1) = RowStart(side, row) + width
    BY <1>4
  <2> QED
    BY <1>2, <2>1
<1>7. ASSUME NEW r \in Nat, NEW s \in Nat, r < s
      PROVE  RowStart(side, r) + 2 * side + 2 <= RowStart(side, s)
  <2>1. /\ RowStart(side, r) \in Nat /\ RowStart(side, s) \in Nat
        /\ RowStart(side, r) + width <= RowStart(side, s)
    BY <1>4, <1>7
  <2> QED
    BY <1>2, <2>1
<1> QED
  BY <1>4, <1>5, <1>6, <1>7

LEMMA RowStartEven ==
  ASSUME NEW side \in Nat, NEW row \in Nat
  PROVE  \E m \in Nat : RowStart(side, row) = 2 * m
<1>1. row * (side + 1) \in Nat
  OBVIOUS
<1>2. row * (2 * side + 2) = 2 * (row * (side + 1))
  OBVIOUS
<1> QED
  BY <1>1, <1>2 DEF RowStart

(* every position is in one row *)
LEMMA RowOf ==
  ASSUME NEW side \in Nat \ {0, 1}, NEW k \in Nat
  PROVE  \E row \in Nat, j \in 0..(2 * side + 1) : k = RowStart(side, row) + j
<1> DEFINE Less == OpToRel(<, Nat)
           Beyond == {row \in Nat : k < RowStart(side, row)}
<1>1. IsWellFoundedOn(Less, Nat)
  BY NatLessThanWellFounded
<1>2. \A a, b \in Nat : a < b => <<a, b>> \in Less
  BY DEF OpToRel
<1>3. k + 1 \in Beyond
  <2>1. (k + 1) * (2 * side + 2) = k * (2 * side) + 2 * k + 2 * side + 2 /\ k * (2 * side) \in Nat
    OBVIOUS
  <2> QED
    BY <2>1 DEF RowStart
<1> HIDE DEF Less
<1>4. PICK next \in Beyond : \A row \in Beyond : ~(<<row, next>> \in Less)
  BY <1>1, <1>3, WFMin
<1>5. k < RowStart(side, next) /\ next \in Nat
  OBVIOUS
<1>6. PICK row \in Nat : next = row + 1
  <2>1. next # 0
    BY <1>5, RowFacts
  <2>2. next - 1 \in Nat /\ next = (next - 1) + 1
    BY <1>5, <2>1
  <2> QED
    BY <2>2
<1>7. RowStart(side, row) \in Nat /\ RowStart(side, row + 1) = RowStart(side, row) + 2 * side + 2
  BY RowFacts
<1>8. RowStart(side, row) <= k
  <2>1. row < next
    BY <1>6
  <2>2. row \notin Beyond
    BY <1>2, <1>4, <1>5, <2>1
  <2> QED
    BY <1>7, <2>2
<1>9. k - RowStart(side, row) \in 0..(2 * side + 1)
  BY <1>5, <1>6, <1>7, <1>8
<1> QED
  BY <1>7, <1>9

(* where the indices of the cells before (cx, cy) are *)
Holds(indices, side, cx, cy) ==
  /\ \A row \in 0..(side - 2), col \in 0..(side - 1) :
       row < cy \/ (row = cy /\ col < cx) =>
         /\ indices[RowStart(side, row) + 2 * col + 1] = FirstVertex(side, row) + col
         /\ indices[RowStart(side, row) + 2 * col + 2] = FirstVertex(side, row + 1) + col
  /\ \A row \in 0..(side - 3) :
       row < cy =>
         /\ indices[RowStart(side, row) + 2 * side + 1] = FirstVertex(side, row + 1) + side - 1
         /\ indices[RowStart(side, row) + 2 * side + 2] = FirstVertex(side, row + 1)

(* the cells before (cx, cy), and no others, have given theirs *)
Grown(indices, side, cx, cy) ==
  /\ indices \in Seq(Nat)
  /\ Len(indices) = IF cy < side - 1 THEN RowStart(side, cy) + 2 * cx
                    ELSE RowStart(side, side - 1) - 2
  /\ Holds(indices, side, cx, cy)

Strip(indices, side) == Grown(indices, side, 0, side)

LEMMA GrownFirst ==
  ASSUME NEW side \in Nat \ {0, 1}
  PROVE  Grown(<< >>, side, 0, 0)
BY RowFacts DEF Grown, Holds

LEMMA ConcatAt ==
  ASSUME NEW s \in Seq(Nat), NEW u \in Seq(Nat)
  PROVE  /\ s \o u \in Seq(Nat) /\ Len(s \o u) = Len(s) + Len(u)
         /\ \A k \in 1..Len(s) : (s \o u)[k] = s[k]
         /\ \A e \in 1..Len(u) : (s \o u)[Len(s) + e] = u[e]
<1>1. s \o u \in Seq(Nat) /\ Len(s \o u) = Len(s) + Len(u)
  BY ConcatProperties
<1>2. \A k \in 1..(Len(s) + Len(u)) : (s \o u)[k] = IF k <= Len(s) THEN s[k] ELSE u[k - Len(s)]
  BY ConcatProperties
<1>3. PICK n \in Nat, m \in Nat : n = Len(s) /\ m = Len(u)
  BY LenProperties
<1>4. ASSUME NEW e \in 1..m
      PROVE  (s \o u)[n + e] = u[e]
  <2>1. n + e \in 1..(n + m) /\ ~(n + e <= n) /\ (n + e) - n = e
    OBVIOUS
  <2> QED
    BY <1>2, <1>3, <2>1
<1>5. \A k \in 1..n : (s \o u)[k] = s[k]
  BY <1>2, <1>3
<1> QED
  BY <1>1, <1>3, <1>4, <1>5

(* what a strip had before it grows at its end *)
LEMMA GrownKept ==
  ASSUME NEW side \in Nat \ {0, 1}, NEW cx \in 0..(side - 1), NEW cy \in 0..(side - 2),
         NEW s, Grown(s, side, cx, cy), NEW t, \A k \in 1..Len(s) : t[k] = s[k]
  PROVE  Holds(t, side, cx, cy)
<1>1. PICK end \in Nat : end = RowStart(side, cy) /\ Len(s) = end + 2 * cx
  <2>1. cy \in Nat /\ cy < side - 1
    OBVIOUS
  <2>2. RowStart(side, cy) \in Nat
    BY <2>1, RowFacts
  <2> QED
    BY <2>1, <2>2 DEF Grown
<1>2. ASSUME NEW row \in 0..(side - 2), NEW col \in 0..(side - 1),
             row < cy \/ (row = cy /\ col < cx)
      PROVE  /\ t[RowStart(side, row) + 2 * col + 1] = FirstVertex(side, row) + col
             /\ t[RowStart(side, row) + 2 * col + 2] = FirstVertex(side, row + 1) + col
  <2>1. PICK at \in Nat : at = RowStart(side, row)
    BY RowFacts
  <2>2. row < cy => at + 2 * side + 2 <= end
    BY <1>1, <2>1, RowFacts
  <2>3. at + 2 * col + 2 <= end + 2 * cx
    <3>1. CASE row < cy
      BY <2>2, <3>1
    <3>2. CASE row = cy /\ col < cx
      BY <1>1, <2>1, <3>2
    <3> QED
      BY <1>2, <3>1, <3>2
  <2>5. at + 2 * col + 1 \in 1..Len(s) /\ at + 2 * col + 2 \in 1..Len(s)
    BY <1>1, <2>3
  <2>4. /\ s[at + 2 * col + 1] = FirstVertex(side, row) + col
        /\ s[at + 2 * col + 2] = FirstVertex(side, row + 1) + col
    BY <1>2, <2>1 DEF Grown, Holds
  <2> QED
    BY <2>1, <2>5, <2>4
<1>3. ASSUME NEW row \in 0..(side - 3), row < cy
      PROVE  /\ t[RowStart(side, row) + 2 * side + 1] = FirstVertex(side, row + 1) + side - 1
             /\ t[RowStart(side, row) + 2 * side + 2] = FirstVertex(side, row + 1)
  <2>1. PICK at \in Nat : at = RowStart(side, row)
    BY RowFacts
  <2>2. at + 2 * side + 2 <= end
    BY <1>1, <1>3, <2>1, RowFacts
  <2>3. at + 2 * side + 1 \in 1..Len(s) /\ at + 2 * side + 2 \in 1..Len(s)
    BY <1>1, <2>1, <2>2
  <2>4. /\ s[at + 2 * side + 1] = FirstVertex(side, row + 1) + side - 1
        /\ s[at + 2 * side + 2] = FirstVertex(side, row + 1)
    BY <1>3, <2>1 DEF Grown, Holds
  <2> QED
    BY <2>1, <2>3, <2>4
<1> QED
  BY <1>2, <1>3 DEF Holds

(* one cell more: the last row gives none, the end of another the join *)
LEMMA CellGrows ==
  ASSUME NEW side \in Nat \ {0, 1}, NEW cx \in 0..(side - 1), NEW cy \in 0..(side - 1),
         NEW s, Grown(s, side, cx, cy),
         NEW nx \in Nat, NEW ny \in Nat,
         \/ cx < side - 1 /\ nx = cx + 1 /\ ny = cy
         \/ cx = side - 1 /\ nx = 0 /\ ny = cy + 1
  PROVE  Grown(s \o BuildIndices(cx, cy, side, side), side, nx, ny)
<1> DEFINE new == BuildIndices(cx, cy, side, side)
<1>1. s \in Seq(Nat)
  BY DEF Grown
<1>2. CASE cy = side - 1
  <2>1. s \o new = s
    BY <1>1, <1>2 DEF BuildIndices
  <2>2. ~(cy < side - 1) /\ ~(ny < side - 1) /\ \A row \in 0..(side - 2) : row < cy /\ row < ny
    BY <1>2
  <2>3. 0..(side - 3) \subseteq 0..(side - 2)
    OBVIOUS
  <2> HIDE DEF new
  <2>4. Grown(s, side, nx, ny)
    BY <2>2, <2>3 DEF Grown, Holds
  <2> QED
    BY <2>1, <2>4 DEF new
<1>3. CASE cy < side - 1
  <2>1. cy \in 0..(side - 2) /\ cy + 1 \in Nat /\ cy \in Nat
    BY <1>3
  <2>2. PICK at \in Nat : at = RowStart(side, cy) /\ Len(s) = at + 2 * cx
    BY <1>3, <2>1, RowFacts DEF Grown
  <2>3. PICK a \in Nat : a = FirstVertex(side, cy) + cx /\ a = cy * side + cx
    <3>1. FirstVertex(side, cy) \in Nat
      BY <2>1, RowFacts
    <3> QED
      BY <3>1 DEF FirstVertex
  <2>4. PICK n \in Nat : n = FirstVertex(side, cy + 1) /\ n = (cy + 1) * side
    BY <2>1, RowFacts DEF FirstVertex
  <2>5. PICK b \in Nat : b = n + cx
    OBVIOUS
  <2>6. new = <<a, b>> \o IF cx < side - 1 \/ cy >= side - 2 THEN << >> ELSE <<b, n>>
    <3>1. ~(cy >= side - 1)
      BY <1>3
    <3> QED
      BY <2>3, <2>4, <2>5, <3>1 DEF BuildIndices
  <2> HIDE DEF new
  <2>7. PICK t : t = s \o new
    OBVIOUS
  <2>8. CASE cx < side - 1 \/ cy >= side - 2
    <3>1. PICK u : u = <<a, b>> \o << >>
      OBVIOUS
    <3>2. u \in Seq(Nat) /\ Len(u) = 2 /\ u[1] = a /\ u[2] = b
      BY <3>1
    <3>3. t = s \o u
      BY <2>6, <2>7, <2>8, <3>1
    <3>4. /\ s \o u \in Seq(Nat) /\ Len(s \o u) = Len(s) + Len(u)
          /\ \A k \in 1..Len(s) : (s \o u)[k] = s[k]
          /\ \A d \in 1..Len(u) : (s \o u)[Len(s) + d] = u[d]
      BY <1>1, <3>2, ConcatAt
    <3>5. /\ t \in Seq(Nat) /\ Len(t) = at + 2 * cx + 2
          /\ \A d \in 1..2 : t[at + 2 * cx + d] = u[d]
      BY <2>2, <3>2, <3>3, <3>4
    <3>6. t[at + 2 * cx + 1] = a /\ t[at + 2 * cx + 2] = b
      BY <3>2, <3>5
    <3>7. Holds(t, side, cx, cy)
      BY <2>1, <3>3, <3>4, GrownKept
    <3>8. Len(t) = IF ny < side - 1 THEN RowStart(side, ny) + 2 * nx
                   ELSE RowStart(side, side - 1) - 2
      <4>1. CASE cx < side - 1
        <5>1. nx = cx + 1 /\ ny = cy
          BY <4>1
        <5> QED
          BY <1>3, <2>2, <3>5, <5>1
      <4>2. CASE cx = side - 1
        <5>1. ny = side - 1 /\ ~(ny < side - 1) /\ ny = cy + 1
          BY <1>3, <2>8, <4>2
        <5>2. RowStart(side, ny) = at + 2 * side + 2
          BY <2>1, <2>2, <5>1, RowFacts
        <5>3. RowStart(side, side - 1) - 2 = at + 2 * side
          BY <5>1, <5>2
        <5> QED
          BY <3>5, <4>2, <5>1, <5>3
      <4> QED
        BY <4>1, <4>2
    <3>9. ASSUME NEW row \in 0..(side - 2), NEW col \in 0..(side - 1),
                 row < ny \/ (row = ny /\ col < nx)
          PROVE  /\ t[RowStart(side, row) + 2 * col + 1] = FirstVertex(side, row) + col
                 /\ t[RowStart(side, row) + 2 * col + 2] = FirstVertex(side, row + 1) + col
      <4>1. (row = cy /\ col = cx) \/ row < cy \/ (row = cy /\ col < cx)
        BY <3>9
      <4>2. CASE row = cy /\ col = cx
        BY <2>2, <2>3, <2>4, <2>5, <3>6, <4>2
      <4>3. CASE row < cy \/ (row = cy /\ col < cx)
        BY <3>7, <4>3 DEF Holds
      <4> QED
        BY <4>1, <4>2, <4>3
    <3>10. ASSUME NEW row \in 0..(side - 3), row < ny
           PROVE  /\ t[RowStart(side, row) + 2 * side + 1] = FirstVertex(side, row + 1) + side - 1
                  /\ t[RowStart(side, row) + 2 * side + 2] = FirstVertex(side, row + 1)
      <4>1. row < cy
        BY <1>3, <2>8, <3>10
      <4> QED
        BY <3>7, <4>1 DEF Holds
    <3> QED
      BY <2>7, <3>5, <3>8, <3>9, <3>10 DEF Grown, Holds, new
  <2>9. CASE cx = side - 1 /\ cy < side - 2
    <3>1. PICK u : u = <<a, b>> \o <<b, n>>
      OBVIOUS
    <3>2. u \in Seq(Nat) /\ Len(u) = 4 /\ u[1] = a /\ u[2] = b /\ u[3] = b /\ u[4] = n
      BY <3>1
    <3>3. t = s \o u
      BY <2>6, <2>7, <2>9, <3>1
    <3>4. /\ s \o u \in Seq(Nat) /\ Len(s \o u) = Len(s) + Len(u)
          /\ \A k \in 1..Len(s) : (s \o u)[k] = s[k]
          /\ \A d \in 1..Len(u) : (s \o u)[Len(s) + d] = u[d]
      BY <1>1, <3>2, ConcatAt
    <3>5. /\ t \in Seq(Nat) /\ Len(t) = at + 2 * cx + 4
          /\ \A d \in 1..4 : t[at + 2 * cx + d] = u[d]
      BY <2>2, <3>2, <3>3, <3>4
    <3>6. t[at + 2 * cx + 1] = a /\ t[at + 2 * cx + 2] = b /\ t[at + 2 * cx + 3] = b /\ t[at + 2 * cx + 4] = n
      BY <3>2, <3>5
    <3>7. Holds(t, side, cx, cy)
      BY <2>1, <3>3, <3>4, GrownKept
    <3>8. ny < side - 1 /\ nx = 0 /\ ny = cy + 1
      BY <2>9
    <3>9. Len(t) = RowStart(side, ny) + 2 * nx
      <4>1. RowStart(side, cy + 1) = at + 2 * side + 2
        BY <2>1, <2>2, RowFacts
      <4> QED
        BY <2>9, <3>5, <3>8, <4>1
    <3>10. ASSUME NEW row \in 0..(side - 2), NEW col \in 0..(side - 1),
                  row < ny \/ (row = ny /\ col < nx)
           PROVE  /\ t[RowStart(side, row) + 2 * col + 1] = FirstVertex(side, row) + col
                  /\ t[RowStart(side, row) + 2 * col + 2] = FirstVertex(side, row + 1) + col
      <4>1. (row = cy /\ col = cx) \/ row < cy \/ (row = cy /\ col < cx)
        BY <2>9, <3>8, <3>10
      <4>2. CASE row = cy /\ col = cx
        BY <2>2, <2>3, <2>4, <2>5, <3>6, <4>2
      <4>3. CASE row < cy \/ (row = cy /\ col < cx)
        BY <3>7, <4>3 DEF Holds
      <4> QED
        BY <4>1, <4>2, <4>3
    <3>11. ASSUME NEW row \in 0..(side - 3), row < ny
           PROVE  /\ t[RowStart(side, row) + 2 * side + 1] = FirstVertex(side, row + 1) + side - 1
                  /\ t[RowStart(side, row) + 2 * side + 2] = FirstVertex(side, row + 1)
      <4>1. CASE row < cy
        BY <3>7, <4>1 DEF Holds
      <4>2. CASE row = cy
        <5>1. at + 2 * cx + 3 = at + 2 * side + 1 /\ at + 2 * cx + 4 = at + 2 * side + 2
                /\ b = n + side - 1
          BY <2>5, <2>9
        <5> QED
          BY <2>2, <2>4, <3>6, <4>2, <5>1
      <4> QED
        BY <3>8, <3>11, <4>1, <4>2
    <3> QED
      BY <2>7, <3>5, <3>8, <3>9, <3>10, <3>11 DEF Grown, Holds, new
  <2> QED
    BY <2>8, <2>9
<1> QED
  BY <1>2, <1>3

(* the two triangles of the cell right of and below a vertex *)
LowerTriangle(side, row, col) ==
  <<FirstVertex(side, row) + col, FirstVertex(side, row + 1) + col,
    FirstVertex(side, row) + col + 1>>
UpperTriangle(side, row, col) ==
  <<FirstVertex(side, row) + col + 1, FirstVertex(side, row + 1) + col,
    FirstVertex(side, row + 1) + col + 1>>

Drawn(indices) == {k \in 1..(Len(indices) - 2) : ~Degenerate(StripTriangle(indices, k))}

LEMMA GridOfCells ==
  ASSUME NEW side \in Nat \ {0, 1}, NEW t
  PROVE  t \in GridTriangles(side) <=>
           \E row \in 0..(side - 2), col \in 0..(side - 2) :
             t = LowerTriangle(side, row, col) \/ t = UpperTriangle(side, row, col)
<1> DEFINE Two(p) == LET c == p[2] * side + p[1]  u == (p[2] + 1) * side + p[1] IN
                       {<<c, u, c + 1>>, <<c + 1, u, u + 1>>}
           Cells == (0..(side - 2)) \X (0..(side - 2))
<1>1. ASSUME NEW row \in 0..(side - 2), NEW col \in 0..(side - 2)
      PROVE  Two(<<col, row>>) = {LowerTriangle(side, row, col), UpperTriangle(side, row, col)}
  BY DEF LowerTriangle, UpperTriangle, FirstVertex
<1>2. GridTriangles(side) = UNION {Two(p) : p \in Cells}
  BY DEF GridTriangles
<1>3. t \in GridTriangles(side) <=> \E p \in Cells : t \in Two(p)
  BY <1>2
<1>4. ASSUME NEW p \in Cells
      PROVE  \E row \in 0..(side - 2), col \in 0..(side - 2) : p = <<col, row>>
  OBVIOUS
<1>5. \A row \in 0..(side - 2), col \in 0..(side - 2) : <<col, row>> \in Cells
  OBVIOUS
<1> HIDE DEF Two, Cells
<1>6. ASSUME NEW p \in Cells, t \in Two(p)
      PROVE  \E row \in 0..(side - 2), col \in 0..(side - 2) :
               t = LowerTriangle(side, row, col) \/ t = UpperTriangle(side, row, col)
  <2>1. PICK row \in 0..(side - 2), col \in 0..(side - 2) : p = <<col, row>>
    BY <1>4
  <2>2. t \in {LowerTriangle(side, row, col), UpperTriangle(side, row, col)}
    BY <1>1, <1>6, <2>1
  <2> QED
    BY <2>2
<1>7. ASSUME NEW row \in 0..(side - 2), NEW col \in 0..(side - 2),
             t = LowerTriangle(side, row, col) \/ t = UpperTriangle(side, row, col)
      PROVE  \E p \in Cells : t \in Two(p)
  <2>1. t \in Two(<<col, row>>)
    BY <1>1, <1>7
  <2> QED
    BY <1>5, <2>1
<1> QED
  BY <1>3, <1>6, <1>7

(* the two of a cell follow one another in the strip, wound alike *)
LEMMA CellDrawn ==
  ASSUME NEW side \in Nat \ {0, 1}, NEW s, Strip(s, side),
         NEW row \in 0..(side - 2), NEW col \in 0..(side - 2)
  PROVE  LET k == RowStart(side, row) + 2 * col + 1 IN
         /\ k \in Drawn(s) /\ StripTriangle(s, k) = LowerTriangle(side, row, col)
         /\ k + 1 \in Drawn(s) /\ StripTriangle(s, k + 1) = UpperTriangle(side, row, col)
<1>1. PICK c \in Nat, u \in Nat : /\ c = FirstVertex(side, row) /\ u = FirstVertex(side, row + 1)
                                  /\ u = c + side
  <2>1. FirstVertex(side, row) \in Nat /\ FirstVertex(side, row + 1) = FirstVertex(side, row) + side
    <3>1. row \in Nat
      OBVIOUS
    <3> QED
      BY <3>1, RowFacts
  <2> QED
    BY <2>1
<1>2. PICK at \in Nat : at = RowStart(side, row)
  BY RowFacts
<1>3. PICK h \in Nat : at = 2 * h
  BY <1>2, RowStartEven
<1>4. PICK k \in Nat : k = at + 2 * col + 1
  OBVIOUS
<1>5. /\ s[k] = c + col /\ s[k + 1] = u + col
      /\ s[k + 2] = c + col + 1 /\ s[k + 3] = u + col + 1
  <2>1. Holds(s, side, 0, side) /\ row < side /\ col \in 0..(side - 1) /\ col + 1 \in 0..(side - 1)
    BY DEF Strip, Grown
  <2>2. /\ s[at + 2 * col + 1] = c + col /\ s[at + 2 * col + 2] = u + col
        /\ s[at + 2 * (col + 1) + 1] = c + (col + 1) /\ s[at + 2 * (col + 1) + 2] = u + (col + 1)
    BY <1>1, <1>2, <2>1 DEF Holds
  <2>3. /\ at + 2 * col + 2 = k + 1 /\ at + 2 * (col + 1) + 1 = k + 2
        /\ at + 2 * (col + 1) + 2 = k + 3
    BY <1>4
  <2> QED
    BY <1>1, <1>4, <2>2, <2>3
<1>6. k \in 1..(Len(s) - 2) /\ k + 1 \in 1..(Len(s) - 2)
  <2>1. Len(s) = RowStart(side, side - 1) - 2
    BY DEF Strip, Grown
  <2>2. row < side - 1 /\ row \in Nat /\ side - 1 \in Nat
    OBVIOUS
  <2>3. PICK end \in Nat : end = RowStart(side, side - 1) /\ at + 2 * side + 2 <= end
    BY <1>2, <2>2, RowFacts
  <2>4. k + 1 <= end - 4
    BY <1>4, <2>3
  <2> QED
    BY <1>4, <2>1, <2>3, <2>4
<1>7. k % 2 = 1 /\ (k + 1) % 2 = 0
  <2>1. PICK m \in Nat : m = h + col
    OBVIOUS
  <2>2. k = 2 * m + 1
    BY <1>3, <1>4, <2>1
  <2> QED
    BY <2>2
<1>8. StripTriangle(s, k) = <<c + col, u + col, c + col + 1>>
  BY <1>5, <1>7 DEF StripTriangle
<1>9. StripTriangle(s, k + 1) = <<c + col + 1, u + col, u + col + 1>>
  <2>1. (k + 1) + 1 = k + 2 /\ (k + 1) + 2 = k + 3 /\ ~((k + 1) % 2 = 1)
    BY <1>7
  <2> QED
    BY <1>5, <2>1 DEF StripTriangle
<1>10. ~Degenerate(StripTriangle(s, k)) /\ ~Degenerate(StripTriangle(s, k + 1))
  <2>1. ~Degenerate(<<c + col, u + col, c + col + 1>>)
    BY <1>1 DEF Degenerate
  <2>2. ~Degenerate(<<c + col + 1, u + col, u + col + 1>>)
    BY <1>1 DEF Degenerate
  <2> QED
    BY <1>8, <1>9, <2>1, <2>2
<1>11. k \in Drawn(s) /\ k + 1 \in Drawn(s)
  BY <1>6, <1>10 DEF Drawn
<1> QED
  BY <1>1, <1>2, <1>4, <1>8, <1>9, <1>11 DEF LowerTriangle, UpperTriangle

(* everything else joins two rows *)
LEMMA OnlyCellsDrawn ==
  ASSUME NEW side \in Nat \ {0, 1}, NEW s, Strip(s, side), NEW k \in Drawn(s)
  PROVE  \E row \in 0..(side - 2), col \in 0..(side - 2) :
           \/ k = RowStart(side, row) + 2 * col + 1
           \/ k = RowStart(side, row) + 2 * col + 2
<1>1. s \in Seq(Nat) /\ Len(s) = RowStart(side, side - 1) - 2 /\ Holds(s, side, 0, side)
  BY DEF Strip, Grown
<1>2. PICK end \in Nat : end = RowStart(side, side - 1)
  <2>1. side - 1 \in Nat
    OBVIOUS
  <2> QED
    BY <2>1, RowFacts
<1>3. k \in 1..(end - 4) /\ ~Degenerate(StripTriangle(s, k))
  BY <1>1, <1>2 DEF Drawn
<1>4. k - 1 \in Nat
  BY <1>3
<1>5. PICK row \in Nat, j \in 0..(2 * side + 1) : k - 1 = RowStart(side, row) + j
  BY <1>4, RowOf
<1>6. PICK at \in Nat : at = RowStart(side, row)
  BY RowFacts
<1>7. row \in 0..(side - 2)
  <2> SUFFICES ASSUME row >= side - 1 PROVE FALSE
    OBVIOUS
  <2>1. CASE row = side - 1
    BY <1>2, <1>3, <1>5, <1>6, <2>1
  <2>2. CASE row > side - 1
    <3>1. side - 1 \in Nat /\ side - 1 < row
      BY <2>2
    <3>2. end + 2 * side + 2 <= at
      BY <1>2, <1>6, <3>1, RowFacts
    <3> QED
      BY <1>3, <1>5, <1>6, <3>2
  <2> QED
    BY <2>1, <2>2
<1>8. CASE j < 2 * side - 2
  <2>1. PICK col \in Nat : j = 2 * col \/ j = 2 * col + 1
    <3>1. j \div 2 \in Nat /\ (j = 2 * (j \div 2) \/ j = 2 * (j \div 2) + 1)
      OBVIOUS
    <3> QED
      BY <3>1
  <2>2. col \in 0..(side - 2)
    BY <1>8, <2>1
  <2>3. k = at + 2 * col + 1 \/ k = at + 2 * col + 2
    BY <1>3, <1>5, <1>6, <2>1
  <2> QED
    BY <1>6, <1>7, <2>2, <2>3
<1>9. CASE j >= 2 * side - 2
  <2>1. CASE row = side - 2
    <3>1. end = at + 2 * side + 2
      <4>1. side - 1 = row + 1
        BY <2>1
      <4> QED
        BY <1>2, <1>6, <4>1, RowFacts
    <3> QED
      BY <1>3, <1>5, <1>6, <1>9, <3>1
  <2>2. CASE row < side - 2
    <3>1. PICK n \in Nat : n = FirstVertex(side, row + 1)
      BY RowFacts
    <3>2. /\ s[at + 2 * side] = n + side - 1
          /\ s[at + 2 * side + 1] = n + side - 1
          /\ s[at + 2 * side + 2] = n
          /\ s[at + 2 * side + 3] = n
      <4>1. row \in 0..(side - 3) /\ row < side /\ side - 1 \in 0..(side - 1)
        BY <2>2
      <4>2. /\ s[at + 2 * side + 1] = n + side - 1
            /\ s[at + 2 * side + 2] = n
        BY <1>1, <1>6, <3>1, <4>1 DEF Holds
      <4>3. s[at + 2 * (side - 1) + 2] = n + (side - 1)
        BY <1>1, <1>6, <1>7, <3>1, <4>1 DEF Holds
      <4>4. row + 1 \in 0..(side - 2) /\ row + 1 < side /\ 0 \in 0..(side - 1)
        BY <2>2
      <4>5. s[RowStart(side, row + 1) + 2 * 0 + 1] = FirstVertex(side, row + 1) + 0
        BY <1>1, <4>4 DEF Holds
      <4>6. RowStart(side, row + 1) = at + 2 * side + 2
        BY <1>6, RowFacts
      <4>7. at + 2 * (side - 1) + 2 = at + 2 * side /\ n + (side - 1) = n + side - 1
              /\ (at + 2 * side + 2) + 2 * 0 + 1 = at + 2 * side + 3 /\ n + 0 = n
        OBVIOUS
      <4> QED
        BY <3>1, <4>2, <4>3, <4>5, <4>6, <4>7
    <3>3. PICK w \in Nat : w = at + 2 * side
      OBVIOUS
    <3>4. \/ k = w - 1 \/ k = w \/ k = w + 1 \/ k = w + 2
      BY <1>3, <1>5, <1>6, <1>9, <3>3
    <3>5. s[w] = s[w + 1] /\ s[w + 2] = s[w + 3]
      BY <3>2, <3>3
    <3>6. \/ s[k] = s[k + 1] \/ s[k + 1] = s[k + 2]
      <4>1. CASE k = w - 1
        BY <3>3, <3>5, <4>1
      <4>2. CASE k = w
        BY <3>5, <4>2
      <4>3. CASE k = w + 1
        <5>1. k + 1 = w + 2 /\ k + 2 = w + 3
          BY <4>3
        <5> QED
          BY <3>5, <5>1
      <4>4. CASE k = w + 2
        <5>1. k + 1 = w + 3
          BY <4>4
        <5> QED
          BY <3>5, <4>4, <5>1
      <4> QED
        BY <3>4, <4>1, <4>2, <4>3, <4>4
    <3>7. Degenerate(StripTriangle(s, k))
      BY <3>6 DEF Degenerate, StripTriangle
    <3> QED
      BY <1>3, <3>7
  <2> QED
    BY <1>7, <2>1, <2>2
<1> QED
  BY <1>8, <1>9

LEMMA SameVertex ==
  ASSUME NEW side \in Nat \ {0, 1}, NEW r \in Nat, NEW s \in Nat,
         NEW c \in 0..(side - 1), NEW d \in 0..(side - 1),
         FirstVertex(side, r) + c = FirstVertex(side, s) + d
  PROVE  r = s /\ c = d
<1>1. FirstVertex(side, r) \in Nat /\ FirstVertex(side, s) \in Nat
  BY RowFacts
<1>2. CASE r < s
  <2>1. FirstVertex(side, r) + side <= FirstVertex(side, s)
    BY <1>2, RowFacts
  <2> QED
    BY <1>1, <2>1
<1>3. CASE s < r
  <2>1. FirstVertex(side, s) + side <= FirstVertex(side, r)
    BY <1>3, RowFacts
  <2> QED
    BY <1>1, <2>1
<1>4. CASE r = s
  BY <1>1, <1>4
<1> QED
  BY <1>2, <1>3, <1>4

(* what a strip draws where *)
LEMMA DrawnOfCell ==
  ASSUME NEW side \in Nat \ {0, 1}, NEW s, Strip(s, side), NEW p \in Drawn(s)
  PROVE  \E row \in 0..(side - 2), col \in 0..(side - 2) :
           \/ /\ p = RowStart(side, row) + 2 * col + 1
              /\ StripTriangle(s, p) = LowerTriangle(side, row, col)
           \/ /\ p = RowStart(side, row) + 2 * col + 2
              /\ StripTriangle(s, p) = UpperTriangle(side, row, col)
<1>1. PICK row \in 0..(side - 2), col \in 0..(side - 2) :
        \/ p = RowStart(side, row) + 2 * col + 1
        \/ p = RowStart(side, row) + 2 * col + 2
  BY OnlyCellsDrawn
<1>2. PICK at \in Nat : at = RowStart(side, row)
  <2>1. row \in Nat
    OBVIOUS
  <2> QED
    BY <2>1, RowFacts
<1>3. at + 2 * col + 1 + 1 = at + 2 * col + 2
  OBVIOUS
<1>4. /\ StripTriangle(s, at + 2 * col + 1) = LowerTriangle(side, row, col)
      /\ StripTriangle(s, at + 2 * col + 1 + 1) = UpperTriangle(side, row, col)
  BY <1>2, CellDrawn
<1> QED
  BY <1>1, <1>2, <1>3, <1>4

(* no triangle is drawn at two positions *)
LEMMA DrawnOnce ==
  ASSUME NEW side \in Nat \ {0, 1}, NEW s, Strip(s, side), NEW j \in Drawn(s), NEW k \in Drawn(s),
         StripTriangle(s, j) = StripTriangle(s, k)
  PROVE  j = k
<1>1. PICK r \in 0..(side - 2), c \in 0..(side - 2) :
        \/ j = RowStart(side, r) + 2 * c + 1 /\ StripTriangle(s, j) = LowerTriangle(side, r, c)
        \/ j = RowStart(side, r) + 2 * c + 2 /\ StripTriangle(s, j) = UpperTriangle(side, r, c)
  BY DrawnOfCell
<1>2. PICK q \in 0..(side - 2), d \in 0..(side - 2) :
        \/ k = RowStart(side, q) + 2 * d + 1 /\ StripTriangle(s, k) = LowerTriangle(side, q, d)
        \/ k = RowStart(side, q) + 2 * d + 2 /\ StripTriangle(s, k) = UpperTriangle(side, q, d)
  BY DrawnOfCell
<1>3. r \in Nat /\ q \in Nat /\ c \in 0..(side - 1) /\ d \in 0..(side - 1)
        /\ c + 1 \in 0..(side - 1) /\ d + 1 \in 0..(side - 1)
  OBVIOUS
<1>4. PICK a \in Nat, u \in Nat : /\ a = FirstVertex(side, r)
                                  /\ u = FirstVertex(side, r + 1) /\ u = a + side
  <2>1. FirstVertex(side, r) \in Nat /\ FirstVertex(side, r + 1) = FirstVertex(side, r) + side
    BY <1>3, RowFacts
  <2> QED
    BY <2>1
<1>5. PICK b \in Nat, v \in Nat : /\ b = FirstVertex(side, q)
                                  /\ v = FirstVertex(side, q + 1) /\ v = b + side
  <2>1. FirstVertex(side, q) \in Nat /\ FirstVertex(side, q + 1) = FirstVertex(side, q) + side
    BY <1>3, RowFacts
  <2> QED
    BY <2>1
<1>6. a + c = b + d => r = q /\ c = d
  BY <1>3, <1>4, <1>5, SameVertex
<1>7. /\ LowerTriangle(side, r, c) = <<a + c, u + c, a + c + 1>>
      /\ UpperTriangle(side, r, c) = <<a + c + 1, u + c, u + c + 1>>
      /\ LowerTriangle(side, q, d) = <<b + d, v + d, b + d + 1>>
      /\ UpperTriangle(side, q, d) = <<b + d + 1, v + d, v + d + 1>>
  BY <1>4, <1>5 DEF LowerTriangle, UpperTriangle
<1>8. CASE /\ StripTriangle(s, j) = LowerTriangle(side, r, c)
           /\ StripTriangle(s, k) = UpperTriangle(side, q, d)
  <2>1. <<a + c, u + c, a + c + 1>> = <<b + d + 1, v + d, v + d + 1>>
    BY <1>7, <1>8
  <2>2. a + c = b + d + 1 /\ u + c = v + d
    BY <2>1
  <2> QED
    BY <1>4, <1>5, <2>2
<1>9. CASE /\ StripTriangle(s, j) = UpperTriangle(side, r, c)
            /\ StripTriangle(s, k) = LowerTriangle(side, q, d)
  <2>1. <<a + c + 1, u + c, u + c + 1>> = <<b + d, v + d, b + d + 1>>
    BY <1>7, <1>9
  <2>2. a + c + 1 = b + d /\ u + c = v + d
    BY <2>1
  <2> QED
    BY <1>4, <1>5, <2>2
<1>10. CASE /\ j = RowStart(side, r) + 2 * c + 1 /\ k = RowStart(side, q) + 2 * d + 1
            /\ StripTriangle(s, j) = LowerTriangle(side, r, c)
            /\ StripTriangle(s, k) = LowerTriangle(side, q, d)
  <2>1. a + c = b + d
    BY <1>7, <1>10
  <2> QED
    BY <1>6, <1>10, <2>1
<1>11. CASE /\ j = RowStart(side, r) + 2 * c + 2 /\ k = RowStart(side, q) + 2 * d + 2
            /\ StripTriangle(s, j) = UpperTriangle(side, r, c)
            /\ StripTriangle(s, k) = UpperTriangle(side, q, d)
  <2>1. a + c + 1 = b + d + 1
    BY <1>7, <1>11
  <2>2. a + c = b + d
    BY <2>1
  <2> QED
    BY <1>6, <1>11, <2>2
<1> QED
  BY <1>1, <1>2, <1>8, <1>9, <1>10, <1>11

(* A strip draws the triangles of its grid, each once *)
LEMMA StripCovers ==
  ASSUME NEW side \in Nat \ {0, 1}, NEW s, Strip(s, side)
  PROVE  /\ {StripTriangle(s, k) : k \in Drawn(s)} = GridTriangles(side)
         /\ Cardinality(Drawn(s)) = Cardinality(GridTriangles(side))
<1>1. ASSUME NEW k \in Drawn(s)
      PROVE  StripTriangle(s, k) \in GridTriangles(side)
  BY DrawnOfCell, GridOfCells
<1>2. ASSUME NEW t \in GridTriangles(side)
      PROVE  \E k \in Drawn(s) : t = StripTriangle(s, k)
  <2>1. PICK row \in 0..(side - 2), col \in 0..(side - 2) :
          t = LowerTriangle(side, row, col) \/ t = UpperTriangle(side, row, col)
    BY GridOfCells
  <2> QED
    BY <2>1, CellDrawn
<1>3. {StripTriangle(s, k) : k \in Drawn(s)} = GridTriangles(side)
  BY <1>1, <1>2
<1>4. IsFiniteSet(Drawn(s))
  <2>1. Len(s) - 2 \in Int
    BY LenProperties DEF Strip, Grown
  <2>2. IsFiniteSet(1..(Len(s) - 2))
    BY <2>1, FS_Interval
  <2>3. Drawn(s) \subseteq 1..(Len(s) - 2)
    BY DEF Drawn
  <2> QED
    BY <2>2, <2>3, FS_Subset
<1>5. ExistsBijection(Drawn(s), GridTriangles(side))
  <2> DEFINE f == [k \in Drawn(s) |-> StripTriangle(s, k)]
  <2>1. f \in [Drawn(s) -> GridTriangles(side)]
    BY <1>1
  <2>2. \A j, k \in Drawn(s) : f[j] = f[k] => j = k
    BY DrawnOnce
  <2>3. \A t \in GridTriangles(side) : \E k \in Drawn(s) : f[k] = t
    BY <1>2
  <2> HIDE DEF f
  <2>4. f \in Bijection(Drawn(s), GridTriangles(side))
    BY <2>1, <2>2, <2>3 DEF Bijection, Injection, Surjection, IsInjective
  <2> QED
    BY <2>4 DEF ExistsBijection
<1>6. Cardinality(Drawn(s)) = Cardinality(GridTriangles(side))
  BY <1>4, <1>5, FS_Bijection
<1> QED
  BY <1>3, <1>6

-----------------------------------------------------------------------------
(* The strips of finished spheres, and of the one under construction *)

StripsInv ==
  /\ pc = "cells" => Grown(object.indices, object.side, x, y)
  /\ pc \in {"vao"} \cup WithVAO /\ object.kind = "sphere" =>
       object.side \in Nat \ {0, 1} /\ Strip(object.indices, object.side)
  /\ \A h \in DOMAIN objects : objects[h].kind = "sphere" =>
       objects[h].side \in Nat \ {0, 1} /\ Strip(objects[h].indices, objects[h].side)

LEMMA BuildCellGrows == ASSUME IInv, StripsInv, BuildCell PROVE StripsInv'
<1>1. Grid /\ x \in Nat /\ y \in Nat /\ object \in Object /\ y < object.side /\ pc = "cells"
  BY DEF IInv, Underway, TypeOK, BuildCell
<1>2. PICK side \in Nat \ {0, 1} : side = object.side
  BY <1>1 DEF Grid
<1>3. x \in 0..(side - 1) /\ y \in 0..(side - 1)
  BY <1>1, <1>2 DEF Grid
<1>4. /\ object'.indices = object.indices \o BuildIndices(x, y, side, side)
      /\ object'.side = side /\ pc' = "cells" /\ objects' = objects
  <2>1. /\ pc' = "cells" /\ objects' = objects
        /\ object' = [object EXCEPT !.n = object.n + 1,
                        !.indices = object.indices \o BuildIndices(x, y, side, side)]
    BY <1>1, <1>2 DEF BuildCell
  <2> QED
    BY <1>1, <1>2, <2>1 DEF Object
<1>5. PICK nx \in Nat, ny \in Nat :
        /\ nx = x' /\ ny = y'
        /\ \/ x < side - 1 /\ nx = x + 1 /\ ny = y
           \/ x = side - 1 /\ nx = 0 /\ ny = y + 1
  <2>1. \/ x < side - 1 /\ x' = x + 1 /\ y' = y
        \/ x = side - 1 /\ x' = 0 /\ y' = y + 1
    BY <1>2, <1>3 DEF BuildCell
  <2> QED
    BY <1>1, <2>1
<1>6. PICK s : s = object.indices /\ Grown(s, side, x, y)
  BY <1>1, <1>2 DEF StripsInv
<1>7. Grown(s \o BuildIndices(x, y, side, side), side, nx, ny)
  BY <1>3, <1>5, <1>6, CellGrows
<1>8. Grown(object'.indices, object'.side, x', y')
  BY <1>4, <1>5, <1>6, <1>7
<1> QED
  BY <1>4, <1>8 DEF StripsInv, WithVAO

(* a finished object joins the others *)
LEMMA StripsMore ==
  ASSUME StripsInv, objects \in Seq(Object), NEW o \in Object, objects' = Append(objects, o),
         o.kind = "sphere" => o.side \in Nat \ {0, 1} /\ Strip(o.indices, o.side)
  PROVE  \A h \in DOMAIN objects' : objects'[h].kind = "sphere" =>
           /\ objects'[h].side \in Nat \ {0, 1}
           /\ Strip(objects'[h].indices, objects'[h].side)
<1>1. PICK n \in Nat : n = Len(objects) /\ DOMAIN objects = 1..n
  BY LenProperties
<1>2. /\ DOMAIN objects' = 1..(n + 1) /\ objects'[n + 1] = o
      /\ \A h \in 1..n : objects'[h] = objects[h]
  BY <1>1, AppendProperties, LenProperties
<1>3. ASSUME NEW h \in 1..(n + 1)
      PROVE  h \in 1..n \/ h = n + 1
  OBVIOUS
<1> QED
  BY <1>1, <1>2, <1>3 DEF StripsInv

LEMMA NextStrips == ASSUME IInv, StripsInv, [Next]_vars PROVE StripsInv'
<1>1. CASE BuildCell
  BY <1>1, BuildCellGrows
<1>2. CASE EndCells
  <2>1. /\ Grown(object.indices, object.side, x, y) /\ y = object.side /\ Grid
        /\ UNCHANGED <<object, objects>> /\ pc' = "vao"
    BY <1>2 DEF EndCells, StripsInv, IInv, Underway
  <2>2. object.side \in Nat \ {0, 1} /\ x = 0
    BY <2>1 DEF Grid
  <2> QED
    BY <2>1, <2>2 DEF StripsInv, Strip
<1>3. CASE BeginMesh \/ BeginCube \/ BeginQuad
  <2>1. ASSUME NEW o, Begin(o, "vao"), o.kind # "sphere"
        PROVE  StripsInv'
    BY <2>1 DEF Begin, StripsInv
  <2>2. CASE BeginMesh
    <3>1. PICK m \in Models : Begin(NewObject(IF m.traced THEN "traced" ELSE "mesh", m.n, 3,
                                              m.has, m.indices), "vao")
      BY <2>2 DEF BeginMesh
    <3> QED
      BY <2>1, <3>1 DEF NewObject
  <2>3. CASE BeginCube
    BY <2>1, <2>3 DEF BeginCube, CubeObject, NewObject
  <2>4. CASE BeginQuad
    BY <2>1, <2>4 DEF BeginQuad, QuadObject, NewObject
  <2> QED
    BY <1>3, <2>2, <2>3, <2>4
<1>4. CASE BeginCubeSphere
  <2>1. PICK cells \in CellCounts :
          Begin([NewObject("sphere", 0, 3, {"texcoords"}, << >>) EXCEPT !.side = cells], "cells")
    BY <1>4 DEF BeginCubeSphere
  <2>3. PICK o : Begin(o, "cells") /\ o.indices = << >> /\ o.side = cells
    BY <2>1 DEF NewObject
  <2>2. Grown(<< >>, cells, 0, 0)
    BY CellsAssumption, GrownFirst
  <2> QED
    BY <2>2, <2>3 DEF Begin, StripsInv, WithVAO
<1>5. CASE NewVAO \/ NewVBO \/ NewIBO \/ Buffer \/ EndBuffer \/ BindAttribute \/ UnbindVAO \/ UnbindVBO
  <2>1. /\ UNCHANGED <<object, objects>>
        /\ pc \in {"vao"} \cup WithVAO /\ pc' \in WithVAO
    BY <1>5 DEF NewVAO, NewVBO, NewIBO, Buffer, EndBuffer, BindAttribute, UnbindVAO, UnbindVBO,
                WithVAO
  <2> QED
    BY <2>1 DEF StripsInv, WithVAO
<1>6. CASE UnbindIBO
  <2>1. CASE object.kind = "traced"
    BY <1>6, <2>1 DEF UnbindIBO, StripsInv, WithVAO
  <2>2. CASE object.kind # "traced"
    <3>1. /\ pc = "unbind_ibo" /\ pc' = "idle" /\ objects' = Append(objects, object)
          /\ objects \in Seq(Object) /\ object \in Object
      BY <1>6, <2>2 DEF UnbindIBO, IInv, TypeOK
    <3>2. object.kind = "sphere" => object.side \in Nat \ {0, 1} /\ Strip(object.indices, object.side)
      BY <3>1 DEF StripsInv, WithVAO
    <3>3. \A h \in DOMAIN objects' : objects'[h].kind = "sphere" =>
            /\ objects'[h].side \in Nat \ {0, 1}
            /\ Strip(objects'[h].indices, objects'[h].side)
      BY <3>1, <3>2, StripsMore
    <3> QED
      BY <3>1, <3>3 DEF StripsInv, WithVAO
  <2> QED
    BY <2>1, <2>2
<1>7. CASE FromMeshData
  <2>1. PICK o : o = [object EXCEPT !.rt = Geometry(object)]
    OBVIOUS
  <2>2. /\ pc' = "idle" /\ objects' = Append(objects, o) /\ objects \in Seq(Object)
        /\ object \in Object /\ object.kind = "traced"
    BY <1>7, <2>1 DEF FromMeshData, IInv, TypeOK, Underway
  <2>3. o.kind = "traced" /\ o \in Object
    <3>1. objects' \in Seq(Object)
      BY <1>7, FromMeshDataKeeps DEF IInv, TypeOK
    <3>2. PICK n \in Nat : n = Len(objects)
      BY <2>2, LenProperties
    <3>3. n + 1 \in 1..Len(objects') /\ objects'[n + 1] = o
      BY <2>2, <3>2, AppendProperties
    <3>4. o \in Object
      BY <3>1, <3>3, ElementOfSeq
    <3> QED
      BY <2>1, <2>2, <3>4 DEF Object
  <2>4. \A h \in DOMAIN objects' : objects'[h].kind = "sphere" =>
          /\ objects'[h].side \in Nat \ {0, 1}
          /\ Strip(objects'[h].indices, objects'[h].side)
    BY <2>2, <2>3, StripsMore
  <2> QED
    BY <2>2, <2>4 DEF StripsInv, WithVAO
<1>8. CASE Draw \/ UNCHANGED vars
  BY <1>8 DEF Draw, vars, gridVars, StripsInv
<1> QED
  BY <1>1, <1>2, <1>3, <1>4, <1>5, <1>6, <1>7, <1>8 DEF Next, Construct

(* The strip of every sphere, of any number of cells, draws the triangles  *)
(* of its grid, each once and in the winding of the others.                *)
THEOREM StripsCover == Spec => []StripCoversGrid
<1>1. Init => StripsInv
  BY DEF Init, StripsInv, WithVAO
<1>2. IInv /\ StripsInv /\ [Next]_vars => StripsInv'
  BY NextStrips
<1>3. ASSUME IInv, StripsInv PROVE StripCoversGrid
  <2> SUFFICES ASSUME NEW h \in DOMAIN objects, objects[h].kind = "sphere"
               PROVE  LET indices == ibos[h]
                          drawn == {k \in 1..(Len(indices) - 2) :
                                      ~Degenerate(StripTriangle(indices, k))} IN
                      /\ {StripTriangle(indices, k) : k \in drawn} = GridTriangles(objects[h].side)
                      /\ Cardinality(drawn) = Cardinality(GridTriangles(objects[h].side))
    BY DEF StripCoversGrid
  <2>1. ibos[h] = objects[h].indices
    BY <1>3 DEF IInv, Finished
  <2>2. PICK side \in Nat \ {0, 1} : side = objects[h].side /\ Strip(ibos[h], side)
    BY <1>3, <2>1 DEF StripsInv
  <2> QED
    BY <2>2, StripCovers DEF Drawn
<1> QED
  BY <1>1, <1>2, <1>3, UploadInvariant, PTL DEF Spec
=============================================================================
