------------------------ MODULE RaytraceFrame_proofs ------------------------
(***************************************************************************)
(* RaytraceFrame, for any sizes, keys and turns: the types, the three      *)
(* properties its run checks on a small instance, and two more.            *)
(***************************************************************************)
EXTENDS RaytraceFrame, TLAPS

(* matrix, position and orientation of the camera are one view *)
CameraAgrees == world_to_view = [at |-> pos, rot |-> orientation]

(* until the raytracer is done, the g-buffer is the camera's *)
RasterIsFresh ==
  pc \in {"drawn", "upload", "copy"} =>
    gbuffer = [p \in Pixels |->
      IF p \in Covered THEN [view |-> world_to_view, aspect |-> ViewToClip] ELSE None]

(* what has been copied since the camera was set *)
CopiedSoFar ==
  pc = "upload" =>
    /\ step \in 1..4 /\ rays = [view |-> world_to_view, aspect |-> size]
    /\ \A j \in 1..3 : j < step => read[Order[j]] = [of |-> Order[j], pixels |-> gbuffer]

(* a launch that succeeded traced every pixel it covers, along the view of *)
(* the g-buffer                                                            *)
TracedWhole ==
  pc = "copy" => rays.view = world_to_view /\ \A p \in Covered : traced[p] = rays

(* what has been made so far *)
CreatedSoFar ==
  pc = "create" =>
    /\ size = InitSize
    /\ \A j \in 1..6 : j < step => bytes[Created[j]] = ElementSize(Created[j]) * Area(InitSize)

(* no frame begins with a texture of the g-buffer bound *)
UnitsFree == pc \in {"create", "idle"} => \A u \in Units : bound[u] \notin Attachment

IInv ==
  /\ TypeOK /\ NothingLeftBound /\ CameraAgrees /\ RasterIsFresh
  /\ CopiedSoFar /\ TracedWhole /\ CreatedSoFar /\ SizesAsDeclared /\ UnitsFree

-----------------------------------------------------------------------------
(* PBOs *)

LEMMA FreeType ==
  Free \in [state : [PBOs -> Targets \cup {None}], target : [Targets -> PBOs \cup {None}],
            alignment : [Targets -> Nat], threw : BOOLEAN]
  BY SMT DEF Free

(* A buffer that is bound while nothing is, and then unbound, leaves       *)
(* nothing bound.                                                          *)
LEMMA BindUnbind ==
  ASSUME NEW p \in PBOs, NEW t \in Targets
  PROVE  Unbind(Bind(Free, p, t), p) = Free
<1> DEFINE g == Bind(Free, p, t)
<1>1. t # None
  BY NoneAssumption
<1>2. g = Assign(Free, p, t, t, p, 4)
  BY DEF Bind, Free
<1>3. /\ g.state = [Free.state EXCEPT ![p] = t]
      /\ g.target = [Free.target EXCEPT ![t] = p]
      /\ g.alignment = [Free.alignment EXCEPT ![t] = 4] /\ g.threw = FALSE
  <2>1. Free.threw = FALSE
    BY DEF Free
  <2> HIDE DEF g
  <2> QED
    BY <1>2, <2>1 DEF Assign
<1>4. g.state[p] = t
  BY <1>3 DEF Free
<1>5. Unbind(g, p) = Assign(g, p, t, None, None, 4)
  BY <1>1, <1>4 DEF Unbind
<1>6. /\ [g.state EXCEPT ![p] = None] = Free.state
      /\ [g.target EXCEPT ![t] = None] = Free.target
      /\ [g.alignment EXCEPT ![t] = 4] = Free.alignment
  BY <1>3 DEF Free
<1>7. Assign(g, p, t, None, None, 4) = [state |-> Free.state, target |-> Free.target,
                                        alignment |-> Free.alignment, threw |-> FALSE]
  BY <1>3, <1>6 DEF Assign
<1>8. Free = [state |-> Free.state, target |-> Free.target,
              alignment |-> Free.alignment, threw |-> FALSE]
  BY DEF Free
<1> QED
  BY <1>5, <1>7, <1>8

(* The same when it is aligned to four between, as pbo2Texture does, and   *)
(* unbound twice.                                                          *)
LEMMA BindAlignUnbind ==
  ASSUME NEW p \in PBOs, NEW t \in Targets
  PROVE  LET g == BindIfFree(Align(Bind(Free, p, t), p, 4), p, t)
         IN  Unbind(Unbind(g, p), p) = Free
<1> DEFINE g == Bind(Free, p, t)
<1>1. t # None
  BY NoneAssumption
<1>2. g = Assign(Free, p, t, t, p, 4)
  BY DEF Bind, Free
<1>3. /\ g = [state |-> [Free.state EXCEPT ![p] = t], target |-> [Free.target EXCEPT ![t] = p],
             alignment |-> [Free.alignment EXCEPT ![t] = 4], threw |-> Free.threw]
  BY <1>2 DEF Assign
<1>4. g.state[p] = t /\ g.target[t] = p
  BY <1>3 DEF Free
<1>5. /\ [g.state EXCEPT ![p] = t] = g.state
      /\ [g.target EXCEPT ![t] = p] = g.target
      /\ [g.alignment EXCEPT ![t] = 4] = g.alignment
  <2>1. /\ g.state = [Free.state EXCEPT ![p] = t]
        /\ g.target = [Free.target EXCEPT ![t] = p]
        /\ g.alignment = [Free.alignment EXCEPT ![t] = 4]
    <3> HIDE DEF g
    <3> QED
      BY <1>3
  <2> QED
    BY <2>1 DEF Free
<1>6. Align(g, p, 4) = g
  <2>1. Align(g, p, 4) = Assign(g, p, t, t, p, 4)
    <3> HIDE DEF g
    <3> QED
      BY <1>1, <1>4 DEF Align
  <2>2. g = [state |-> g.state, target |-> g.target, alignment |-> g.alignment,
             threw |-> g.threw]
    <3> HIDE DEF g
    <3> QED
      BY <1>3
  <2> HIDE DEF g
  <2> QED
    BY <1>5, <2>1, <2>2 DEF Assign
<1>7. BindIfFree(g, p, t) = g
  <2> HIDE DEF g
  <2> QED
    BY <1>1, <1>4 DEF BindIfFree
<1>8. Unbind(g, p) = Free
  BY BindUnbind
<1>9. Unbind(Free, p) = Free
  BY DEF Unbind, Free
<1> QED
  BY <1>6, <1>7, <1>8, <1>9

LEMMA AreaType == Area(InitSize) \in Nat
<1>1. InitSize[1] \in Nat /\ InitSize[2] \in Nat
  BY SizesAssumption
<1> QED
  BY <1>1 DEF Area

(* A texture's copy has the size of its buffer.                            *)
LEMMA CopiedSize ==
  ASSUME NEW tex \in Attachment
  PROVE  TextureBytes(tex) = ElementSize(<<tex, "read">>) * Area(InitSize)
  BY AreaType
  DEF TextureBytes, InternalFormat, ElementSize, RGBA8, RGBA32F, RGB16F, Attachment

LEMMA Numbers ==
  /\ \A j \in 1..6 : Created[j] \in PBOs
  /\ \A p \in PBOs : \E j \in 1..6 : p = Created[j]
  /\ \A j \in 1..3 : Order[j] \in Attachment
  /\ \A t \in Attachment : \E j \in 1..3 : t = Order[j]
  /\ \A p \in PBOs : ElementSize(p) \in Nat
<1>1. /\ Order[1] = "diffuse" /\ Order[2] = "position" /\ Order[3] = "normal"
  BY DEF Order
<1>2. /\ Created[1] = <<"diffuse", "read">> /\ Created[2] = <<"position", "read">>
      /\ Created[3] = <<"normal", "read">> /\ Created[4] = <<"diffuse", "write">>
      /\ Created[5] = <<"position", "write">> /\ Created[6] = <<"normal", "write">>
  BY <1>1 DEF Created
<1>3. \A j \in 1..6 : j = 1 \/ j = 2 \/ j = 3 \/ j = 4 \/ j = 5 \/ j = 6
  OBVIOUS
<1>4. \A j \in 1..6 : Created[j] \in PBOs
  BY <1>2, <1>3 DEF PBOs, Attachment
<1>5. ASSUME NEW p \in PBOs
      PROVE  \E j \in 1..6 : p = Created[j]
  <2>1. PICK a \in Attachment, d \in {"read", "write"} : p = <<a, d>>
    BY DEF PBOs
  <2> QED
    BY <1>2, <2>1 DEF Attachment
<1>6. \A j \in 1..3 : Order[j] \in Attachment
  BY <1>1 DEF Attachment
<1>7. \A t \in Attachment : \E j \in 1..3 : t = Order[j]
  BY <1>1 DEF Attachment
<1> QED
  BY <1>4, <1>5, <1>6, <1>7 DEF ElementSize

-----------------------------------------------------------------------------
(* The inductive invariant *)

LEMMA InitIInv == Init => IInv
<1> SUFFICES ASSUME Init PROVE IInv
  OBVIOUS
<1> USE DEF Init
<1>1. Origin \in View
  BY DEF Origin, View
<1>2. TypeOK
  BY <1>1, FreeType, SizesAssumption
  DEF TypeOK, Image, Attachment, Units, PBOs
<1>3. NothingLeftBound /\ CameraAgrees
  BY DEF NothingLeftBound, CameraAgrees, Origin
<1>4. RasterIsFresh /\ CopiedSoFar /\ TracedWhole /\ CreatedSoFar /\ SizesAsDeclared
  BY DEF RasterIsFresh, CopiedSoFar, TracedWhole, CreatedSoFar, SizesAsDeclared
<1>5. UnitsFree
  BY NoneAssumption DEF UnitsFree, Attachment
<1> QED
  BY <1>2, <1>3, <1>4, <1>5 DEF IInv

LEMMA Created_Step ==
  ASSUME IInv, CreateBuffer PROVE IInv'
<1> DEFINE p == Created[step]
<1> USE DEF IInv
<1>1. step \in 1..6 /\ p \in PBOs /\ pc = "create" /\ pc' = "create" /\ size = InitSize
  BY Numbers DEF CreateBuffer, TypeOK, CreatedSoFar
<1>2. gl' = Free
  BY <1>1, BindUnbind DEF CreateBuffer, NothingLeftBound, Targets
<1>3. /\ bytes' = [bytes EXCEPT ![p] = ElementSize(p) * Area(InitSize)]
      /\ step' = step + 1
  BY <1>1 DEF CreateBuffer
<1>4. ElementSize(p) * Area(InitSize) \in Nat
  BY <1>1, Numbers, AreaType
<1>5. TypeOK'
  BY <1>1, <1>2, <1>3, <1>4, FreeType
  DEF TypeOK, CreateBuffer, cameraVars, unitVars, Image, Pixels
<1>6. CreatedSoFar'
  <2>1. \A j \in 1..6 : j < step + 1 =>
          bytes'[Created[j]] = ElementSize(Created[j]) * Area(InitSize)
    <3> SUFFICES ASSUME NEW j \in 1..6, j < step + 1
                 PROVE  bytes'[Created[j]] = ElementSize(Created[j]) * Area(InitSize)
      OBVIOUS
    <3>1. Created[j] \in PBOs
      BY Numbers
    <3>2. CASE Created[j] = p
      BY <1>1, <1>3, <3>1, <3>2 DEF TypeOK
    <3>3. CASE Created[j] # p
      <4>1. j < step
        BY <1>1, <3>3
      <4> QED
        BY <1>1, <1>3, <3>1, <3>3, <4>1 DEF TypeOK, CreatedSoFar
    <3> QED
      BY <3>2, <3>3
  <2> QED
    BY <1>1, <1>3, <2>1 DEF CreatedSoFar, CreateBuffer
<1>7. NothingLeftBound' /\ CameraAgrees'
  BY <1>2 DEF NothingLeftBound, CameraAgrees, CreateBuffer, cameraVars
<1>8. RasterIsFresh' /\ CopiedSoFar' /\ TracedWhole' /\ SizesAsDeclared'
  BY <1>1 DEF RasterIsFresh, CopiedSoFar, TracedWhole, SizesAsDeclared
<1>9. UnitsFree'
  BY <1>1 DEF UnitsFree, CreateBuffer, unitVars
<1> QED
  BY <1>5, <1>6, <1>7, <1>8, <1>9

LEMMA CompileContext_Step ==
  ASSUME IInv, CompileContext PROVE IInv'
<1> USE DEF IInv, CompileContext
<1>1. pc = "create" /\ pc' \in {"idle", "exited"}
      /\ UNCHANGED <<step, cameraVars, rays, size, gbuffer, shadow, unitVars, pboVars>>
  OBVIOUS
<1>2. TypeOK'
  BY <1>1 DEF TypeOK, cameraVars, unitVars, pboVars, Image, Pixels
<1>3. SizesAsDeclared'
  <2> SUFFICES ASSUME NEW p \in PBOs
               PROVE  bytes[p] = ElementSize(p) * Area(InitSize)
    BY <1>1 DEF SizesAsDeclared, pboVars
  <2>1. PICK j \in 1..6 : p = Created[j]
    BY Numbers
  <2>2. j < step
    BY <2>1 DEF TypeOK
  <2> QED
    BY <1>1, <2>1, <2>2 DEF CreatedSoFar
<1>4. NothingLeftBound' /\ CameraAgrees'
  BY <1>1 DEF NothingLeftBound, CameraAgrees, cameraVars, pboVars
<1>5. RasterIsFresh' /\ CopiedSoFar' /\ TracedWhole' /\ CreatedSoFar'
  BY <1>1 DEF RasterIsFresh, CopiedSoFar, TracedWhole, CreatedSoFar
<1>6. UnitsFree'
  BY <1>1 DEF UnitsFree, unitVars
<1> QED
  BY <1>2, <1>3, <1>4, <1>5, <1>6

LEMMA Reshape_Step ==
  ASSUME IInv, Reshape PROVE IInv'
<1> USE DEF IInv, Reshape
<1>1. TypeOK'
  BY DEF TypeOK, cameraVars, unitVars, pboVars, Image, Pixels
<1>2. NothingLeftBound' /\ CameraAgrees' /\ UnitsFree'
  BY DEF NothingLeftBound, CameraAgrees, UnitsFree, cameraVars, unitVars, pboVars
<1>3. RasterIsFresh' /\ CopiedSoFar' /\ TracedWhole' /\ CreatedSoFar'
  BY DEF RasterIsFresh, CopiedSoFar, TracedWhole, CreatedSoFar
<1>4. SizesAsDeclared'
  BY DEF SizesAsDeclared, pboVars
<1> QED
  BY <1>1, <1>2, <1>3, <1>4

LEMMA Update_Step ==
  ASSUME IInv, Update PROVE IInv'
<1> USE DEF IInv
<1>1. PICK keys \in Keys, turn \in Turns :
        /\ orientation' = Turned(turn)
        /\ pos' = [c \in 1..2 |-> Moved(keys, c)]
        /\ world_to_view' = [at |-> pos', rot |-> orientation']
  BY DEF Update
<1>2. /\ pc = "idle" /\ pos' \in Room
      /\ UNCHANGED <<pc, step, rays, size, gbuffer, shadow, unitVars, pboVars>>
  BY DEF Update
<1>3. pos' \in Int \X Int
  BY <1>2, CameraAssumption
<1>4. orientation' \in 0..3
  BY <1>1, CameraAssumption DEF Turned, TypeOK
<1>5. world_to_view' \in View
  BY <1>1, <1>3, <1>4 DEF View
<1>6. TypeOK'
  BY <1>2, <1>3, <1>4, <1>5 DEF TypeOK, unitVars, pboVars, Image, Pixels
<1>7. CameraAgrees'
  BY <1>1 DEF CameraAgrees
<1>8. NothingLeftBound' /\ UnitsFree' /\ SizesAsDeclared'
  BY <1>2 DEF NothingLeftBound, UnitsFree, SizesAsDeclared, unitVars, pboVars
<1>9. RasterIsFresh' /\ CopiedSoFar' /\ TracedWhole' /\ CreatedSoFar'
  BY <1>2 DEF RasterIsFresh, CopiedSoFar, TracedWhole, CreatedSoFar
<1> QED
  BY <1>6, <1>7, <1>8, <1>9

LEMMA GBufferPass_Step ==
  ASSUME IInv, GBufferPass PROVE IInv'
<1> USE DEF IInv, GBufferPass
<1>1. TypeOK'
  <2>1. gbuffer' \in Image
    BY SizesAssumption DEF TypeOK, Image, Pixel, ViewToClip
  <2>2. bound' \in [Units -> Attachment \cup {"TEX_RAY", None}] /\ unit' \in Units
    BY DEF TypeOK, Units
  <2> QED
    BY <2>1, <2>2 DEF TypeOK, cameraVars, pboVars, Image, Pixels
<1>2. NothingLeftBound' /\ CameraAgrees' /\ SizesAsDeclared'
  BY DEF NothingLeftBound, CameraAgrees, SizesAsDeclared, cameraVars, pboVars
<1>3. RasterIsFresh'
  BY DEF RasterIsFresh, Covered, Pixels, cameraVars
<1>4. UnitsFree' /\ CopiedSoFar' /\ TracedWhole' /\ CreatedSoFar'
  BY DEF UnitsFree, CopiedSoFar, TracedWhole, CreatedSoFar
<1> QED
  BY <1>1, <1>2, <1>3, <1>4

LEMMA SkipRaytrace_Step ==
  ASSUME IInv, SkipRaytrace PROVE IInv'
<1> USE DEF IInv, SkipRaytrace
<1>1. TypeOK'
  BY DEF TypeOK, cameraVars, unitVars, pboVars, Image, Pixels
<1>2. NothingLeftBound' /\ CameraAgrees' /\ SizesAsDeclared'
  BY DEF NothingLeftBound, CameraAgrees, SizesAsDeclared, cameraVars, pboVars
<1>3. RasterIsFresh' /\ UnitsFree' /\ CopiedSoFar' /\ TracedWhole' /\ CreatedSoFar'
  BY DEF RasterIsFresh, UnitsFree, CopiedSoFar, TracedWhole, CreatedSoFar
<1> QED
  BY <1>1, <1>2, <1>3

(* position and matrix agree, so that the rays' view is the matrix' *)
LEMMA SetCamera_Step ==
  ASSUME IInv, SetCamera PROVE IInv'
<1> USE DEF IInv, SetCamera
<1>1. rays' = [view |-> world_to_view, aspect |-> size]
  BY DEF CameraAgrees
<1>2. TypeOK'
  BY <1>1 DEF TypeOK, Pixel, cameraVars, unitVars, pboVars, Image, Pixels
<1>3. NothingLeftBound' /\ CameraAgrees' /\ SizesAsDeclared'
  BY DEF NothingLeftBound, CameraAgrees, SizesAsDeclared, cameraVars, pboVars
<1>4. RasterIsFresh'
  BY DEF RasterIsFresh, Covered, Pixels, cameraVars
<1>5. CopiedSoFar'
  BY <1>1 DEF CopiedSoFar, cameraVars
<1>6. UnitsFree' /\ TracedWhole' /\ CreatedSoFar'
  BY DEF UnitsFree, TracedWhole, CreatedSoFar
<1> QED
  BY <1>2, <1>3, <1>4, <1>5, <1>6

LEMMA BufferFromTexture_Step ==
  ASSUME IInv, BufferFromTexture PROVE IInv'
<1> DEFINE tex == Order[step]
           p == <<tex, "read">>
<1> USE DEF IInv
<1>1. /\ pc = "upload" /\ pc' = "upload" /\ step \in 1..3 /\ step' = step + 1
      /\ bytes' = [bytes EXCEPT ![p] = TextureBytes(tex)]
      /\ read' = [read EXCEPT ![tex] = [of |-> tex, pixels |-> gbuffer]]
      /\ bound' = [bound EXCEPT ![unit] = tex]
      /\ gl' = Unbind(BindIfFree(gl, p, "pack"), p)
      /\ UNCHANGED <<cameraVars, rays, size, gbuffer, shadow, unit, traced>>
  BY DEF BufferFromTexture, TypeOK
<1>2. tex \in Attachment /\ p \in PBOs
  BY <1>1, Numbers DEF PBOs
<1>3. gl' = Free
  <2>1. gl = Free /\ BindIfFree(gl, p, "pack") = Bind(Free, p, "pack")
    BY <1>2 DEF NothingLeftBound, BindIfFree, Free
  <2> QED
    BY <1>1, <1>2, <2>1, BindUnbind DEF Targets
<1>4. TextureBytes(tex) = ElementSize(p) * Area(InitSize) /\ TextureBytes(tex) \in Nat
  <2>1. TextureBytes(tex) = ElementSize(p) * Area(InitSize)
    BY <1>2, CopiedSize
  <2>2. ElementSize(p) * Area(InitSize) \in Nat
    BY <1>2, Numbers, AreaType
  <2> QED
    BY <2>1, <2>2
<1>5. TypeOK'
  <2>1. read' \in [Attachment -> [of : Attachment \cup {None}, pixels : Image]]
    BY <1>1, <1>2 DEF TypeOK
  <2>2. bound' \in [Units -> Attachment \cup {"TEX_RAY", None}]
    BY <1>1, <1>2 DEF TypeOK
  <2>3. bytes' \in [PBOs -> Nat]
    BY <1>1, <1>2, <1>4 DEF TypeOK
  <2>4. step' \in 1..7
    BY <1>1
  <2> QED
    BY <1>1, <1>3, <2>1, <2>2, <2>3, <2>4, FreeType DEF TypeOK, cameraVars, Image, Pixels
<1>6. NothingLeftBound' /\ CameraAgrees'
  BY <1>1, <1>3 DEF NothingLeftBound, CameraAgrees, cameraVars
<1>7. SizesAsDeclared'
  BY <1>1, <1>2, <1>4 DEF SizesAsDeclared, TypeOK
<1>8. RasterIsFresh'
  BY <1>1 DEF RasterIsFresh, Covered, Pixels, cameraVars
<1>9. CopiedSoFar'
  <2>1. step' \in 1..4 /\ rays' = [view |-> world_to_view', aspect |-> size']
    BY <1>1 DEF CopiedSoFar, cameraVars
  <2>2. ASSUME NEW j \in 1..3, j < step'
        PROVE  read'[Order[j]] = [of |-> Order[j], pixels |-> gbuffer']
    <3>1. Order[j] \in Attachment
      BY Numbers
    <3>2. CASE Order[j] = tex
      BY <1>1, <3>1, <3>2 DEF TypeOK
    <3>3. CASE Order[j] # tex
      <4>1. j < step
        BY <1>1, <2>2, <3>3
      <4> QED
        BY <1>1, <3>1, <3>3, <4>1 DEF TypeOK, CopiedSoFar
    <3> QED
      BY <3>2, <3>3
  <2> QED
    BY <2>1, <2>2 DEF CopiedSoFar
<1>10. UnitsFree' /\ TracedWhole' /\ CreatedSoFar'
  BY <1>1 DEF UnitsFree, TracedWhole, CreatedSoFar
<1> QED
  BY <1>5, <1>6, <1>7, <1>8, <1>9, <1>10

LEMMA TraceType ==
  ASSUME TypeOK, NEW pixels PROVE rays \in Pixel \cup {None} /\ Trace(pixels) \in Image
  BY DEF TypeOK, Trace, Image

LEMMA Launch_Step ==
  ASSUME IInv, Launch PROVE IInv'
<1> USE DEF IInv, Launch, AtLaunch
<1>1. TypeOK'
  BY TraceType DEF TypeOK, cameraVars, unitVars, Image, Pixels
<1>2. NothingLeftBound' /\ CameraAgrees' /\ SizesAsDeclared'
  BY DEF NothingLeftBound, CameraAgrees, SizesAsDeclared, cameraVars
<1>3. TracedWhole'
  <2>1. Covered \subseteq Pixels /\ Covered' = Covered
    BY DEF Covered, Pixels
  <2>2. rays'.view = world_to_view'
    BY DEF CopiedSoFar, cameraVars
  <2> QED
    BY <2>1, <2>2 DEF TracedWhole, Trace
<1>4. RasterIsFresh'
  BY DEF RasterIsFresh, Covered, Pixels, cameraVars
<1>5. UnitsFree' /\ CopiedSoFar' /\ CreatedSoFar'
  BY DEF UnitsFree, CopiedSoFar, CreatedSoFar
<1> QED
  BY <1>1, <1>2, <1>3, <1>4, <1>5

LEMMA LaunchOverEnd_Step ==
  ASSUME IInv, LaunchOverEnd PROVE IInv'
<1> USE DEF IInv, LaunchOverEnd
<1>1. TypeOK'
  BY DEF TypeOK, cameraVars, unitVars, pboVars, Image, Pixels
<1>2. NothingLeftBound' /\ CameraAgrees' /\ SizesAsDeclared'
  BY DEF NothingLeftBound, CameraAgrees, SizesAsDeclared, AtLaunch, cameraVars, pboVars
<1>3. RasterIsFresh' /\ UnitsFree' /\ CopiedSoFar' /\ TracedWhole' /\ CreatedSoFar'
  BY DEF RasterIsFresh, UnitsFree, CopiedSoFar, TracedWhole, CreatedSoFar
<1> QED
  BY <1>1, <1>2, <1>3

LEMMA LaunchFails_Step ==
  ASSUME IInv, LaunchFails PROVE IInv'
<1> USE DEF IInv, LaunchFails, AtLaunch
<1>1. traced' \in Image
  BY TraceType
<1>2. TypeOK'
  BY <1>1 DEF TypeOK, cameraVars, unitVars, Image, Pixels
<1>3. NothingLeftBound' /\ CameraAgrees' /\ SizesAsDeclared'
  BY DEF NothingLeftBound, CameraAgrees, SizesAsDeclared, cameraVars
<1>4. RasterIsFresh' /\ UnitsFree' /\ CopiedSoFar' /\ TracedWhole' /\ CreatedSoFar'
  BY DEF RasterIsFresh, UnitsFree, CopiedSoFar, TracedWhole, CreatedSoFar
<1> QED
  BY <1>2, <1>3, <1>4

LEMMA Pbo2Texture_Step ==
  ASSUME IInv, Pbo2Texture PROVE IInv'
<1> DEFINE p == <<"diffuse", "write">>
<1> USE DEF IInv
<1>1. /\ pc = "copy" /\ pc' = "final" /\ shadow' = traced
      /\ unit' = 0 /\ bound' = [bound EXCEPT ![0] = None]
      /\ UNCHANGED <<step, cameraVars, rays, size, gbuffer, bytes, read, traced>>
  BY DEF Pbo2Texture
<1>2. gl' = Free
  <2>1. p \in PBOs /\ "unpack" \in Targets
    BY DEF PBOs, Attachment, Targets
  <2>2. BufferAlignment(ElementSize(p)) = 4
    BY DEF BufferAlignment, ElementSize
  <2>3. gl' = LET g == BindIfFree(Align(Bind(Free, p, "unpack"), p, 4), p, "unpack")
              IN  Unbind(Unbind(g, p), p)
    BY <2>2 DEF Pbo2Texture, NothingLeftBound
  <2> QED
    BY <2>1, <2>3, BindAlignUnbind
<1>3. TypeOK'
  <2>1. bound' \in [Units -> Attachment \cup {"TEX_RAY", None}] /\ unit' \in Units
    BY <1>1 DEF TypeOK, Units
  <2> QED
    BY <1>1, <1>2, <2>1, FreeType DEF TypeOK, cameraVars, Image, Pixels
<1>4. NothingLeftBound' /\ CameraAgrees' /\ SizesAsDeclared'
  BY <1>1, <1>2 DEF NothingLeftBound, CameraAgrees, SizesAsDeclared, cameraVars
<1>5. RasterIsFresh' /\ UnitsFree' /\ CopiedSoFar' /\ TracedWhole' /\ CreatedSoFar'
  BY <1>1 DEF RasterIsFresh, UnitsFree, CopiedSoFar, TracedWhole, CreatedSoFar
<1> QED
  BY <1>3, <1>4, <1>5

LEMMA FinalPass_Step ==
  ASSUME IInv, FinalPass PROVE IInv'
<1> USE DEF IInv, FinalPass
<1>1. TypeOK'
  BY DEF TypeOK, cameraVars, pboVars, Image, Pixels, Units
<1>2. NothingLeftBound' /\ CameraAgrees' /\ SizesAsDeclared'
  BY DEF NothingLeftBound, CameraAgrees, SizesAsDeclared, cameraVars, pboVars
<1>3. UnitsFree'
  BY NoneAssumption DEF UnitsFree, Attachment
<1>4. RasterIsFresh' /\ CopiedSoFar' /\ TracedWhole' /\ CreatedSoFar'
  BY DEF RasterIsFresh, CopiedSoFar, TracedWhole, CreatedSoFar
<1> QED
  BY <1>1, <1>2, <1>3, <1>4

LEMMA Stutter_Step ==
  ASSUME IInv, UNCHANGED vars PROVE IInv'
  BY DEF IInv, vars, TypeOK, NothingLeftBound, CameraAgrees, RasterIsFresh, CopiedSoFar,
         TracedWhole, CreatedSoFar, SizesAsDeclared, UnitsFree, cameraVars, unitVars, pboVars,
         Image, Pixels, Covered

(* The invariant holds in every state of every behaviour.                  *)
THEOREM FrameInvariant == Spec => []IInv
<1>1. ASSUME IInv, [Next]_vars PROVE IInv'
  <2>1. CASE UNCHANGED vars
    BY <1>1, <2>1, Stutter_Step
  <2>2. CASE Main
    BY <1>1, <2>2, Created_Step, CompileContext_Step, GBufferPass_Step, SkipRaytrace_Step,
       SetCamera_Step, BufferFromTexture_Step, Launch_Step, LaunchOverEnd_Step,
       LaunchFails_Step, Pbo2Texture_Step, FinalPass_Step
    DEF Main, RaytracePass
  <2>3. CASE Reshape \/ Update
    BY <1>1, <2>3, Reshape_Step, Update_Step
  <2> QED
    BY <1>1, <2>1, <2>2, <2>3 DEF Next
<1> QED
  BY <1>1, InitIInv, PTL DEF Spec

-----------------------------------------------------------------------------
(* What follows from it *)

(* The state of the camera, the raytracer and GL keeps its type, for any   *)
(* sizes, keys and turns (RaytraceFrame's TypeOK).                         *)
THEOREM RaytraceTypeCorrect == Spec => []TypeOK
  BY FrameInvariant, PTL DEF IInv

(* Rays start where this frame's g-buffer was drawn from and are turned as *)
(* it was, and the g-buffer they read is whole and unmixed, for any keys,  *)
(* turns and sizes of the window (OptixRender::render, FirstPersonCamera:: *)
(* update).  They go the way their pixels were drawn in windows of the     *)
(* first proportions and in no other (OptixRender::reshape).               *)
THEOREM RaysOfTheRaster == Spec => []RaysMatchRaster
<1>1. IInv => RaysMatchRaster
  <2> SUFFICES ASSUME IInv, AtLaunch, NEW t \in Attachment
               PROVE  /\ read[t].of = t
                      /\ \A p \in Covered :
                           /\ read[t].pixels[p].view = rays.view
                           /\ SameAspect(read[t].pixels[p].aspect, rays.aspect)
                                <=> SameAspect(size, InitSize)
    BY DEF RaysMatchRaster
  <2>1. pc = "upload" /\ step > 3
    BY DEF AtLaunch
  <2>2. PICK j \in 1..3 : t = Order[j]
    BY Numbers
  <2>3. j < step
    BY <2>1 DEF IInv, TypeOK
  <2>4. /\ read[t] = [of |-> t, pixels |-> gbuffer]
        /\ rays = [view |-> world_to_view, aspect |-> size]
    BY <2>1, <2>2, <2>3 DEF IInv, CopiedSoFar
  <2>5. ASSUME NEW p \in Covered
        PROVE  gbuffer[p] = [view |-> world_to_view, aspect |-> InitSize]
    <3>1. p \in Pixels
      BY DEF Covered
    <3> QED
      BY <2>1, <3>1 DEF IInv, RasterIsFresh, ViewToClip
  <2>6. SameAspect(InitSize, size) <=> SameAspect(size, InitSize)
    <3>1. /\ InitSize[1] \in Nat /\ InitSize[2] \in Nat
          /\ size[1] \in Nat /\ size[2] \in Nat
      BY SizesAssumption DEF IInv, TypeOK
    <3> QED
      BY <3>1 DEF SameAspect
  <2> QED
    BY <2>4, <2>5, <2>6
<1> QED
  BY <1>1, FrameInvariant, PTL

(* In GL the buffers always have the size OptiX was told (createGBuffers,  *)
(* PBO::bufferFromTextureOnGPU).                                           *)
THEOREM SizesKept == Spec => []SizesAsDeclared
  BY FrameInvariant, PTL DEF IInv

(* Between calls nothing is bound to a pixel buffer target, no PBO         *)
(* believes it is, alignments are GL's own and bind has never thrown.      *)
THEOREM NothingStaysBound == Spec => []NothingLeftBound
  BY FrameInvariant, PTL DEF IInv

(* No frame begins with a texture of the g-buffer bound, whatever happened *)
(* to the launch of the frame before.                                      *)
THEOREM NoFeedback == Spec => []NoFeedbackLoop
<1>1. IInv => NoFeedbackLoop
  BY DEF IInv, UnitsFree, NoFeedbackLoop
<1> QED
  BY <1>1, FrameInvariant, PTL

(* What the final pass is given changes only after a launch that did not   *)
(* throw (OptixRender::render), and shows, where the g-buffer was drawn,   *)
(* the pixels of this launch by the g-buffer's view: all of them while the *)
(* window has the first size.  Elsewhere the g-buffer is empty and the     *)
(* texture gets what launches before this one left (pbo2Texture).          *)
THEOREM WindowPictured == Spec => WindowIsOfOneLaunch
<1> DEFINE Pictured ==
      shadow' # shadow =>
        /\ \A p \in Covered : shadow'[p] = rays /\ gbuffer[p].view = rays.view
        /\ size = InitSize => \A p \in Pixels : shadow'[p] = rays
        /\ \A p \in Pixels \ Covered : shadow'[p] = traced[p] /\ gbuffer[p] = None
<1>1. ASSUME IInv, [Next]_vars PROVE [Pictured]_vars
  <2>1. CASE Pbo2Texture
    <3>1. pc = "copy" /\ shadow' = traced
      BY <2>1 DEF Pbo2Texture
    <3>2. rays.view = world_to_view /\ \A p \in Covered : traced[p] = rays
      BY <1>1, <3>1 DEF IInv, TracedWhole
    <3>3. gbuffer = [p \in Pixels |->
            IF p \in Covered THEN [view |-> world_to_view, aspect |-> ViewToClip] ELSE None]
      BY <1>1, <3>1 DEF IInv, RasterIsFresh
    <3>4. Covered \subseteq Pixels
      BY DEF Covered
    <3>5. \A p \in Covered : gbuffer[p].view = rays.view
      BY <3>2, <3>3, <3>4
    <3>6. \A p \in Pixels \ Covered : gbuffer[p] = None
      BY <3>3
    <3>7. ASSUME size = InitSize PROVE Pixels \subseteq Covered
      <4>1. InitSize[1] \in Nat /\ InitSize[2] \in Nat
        BY SizesAssumption
      <4> QED
        BY <3>7, <4>1 DEF Covered, Pixels
    <3> QED
      BY <3>1, <3>2, <3>5, <3>6, <3>7
  <2>2. CASE ~Pbo2Texture
    <3>1. shadow' = shadow
      BY <1>1, <2>2
      DEF Next, Main, RaytracePass, CreateBuffer, CompileContext, GBufferPass, SkipRaytrace,
          SetCamera, BufferFromTexture, Launch, LaunchOverEnd, LaunchFails, FinalPass,
          Reshape, Update, vars
    <3> QED
      BY <3>1
  <2> QED
    BY <2>1, <2>2
<1> QED
  BY <1>1, FrameInvariant, PTL DEF Spec, WindowIsOfOneLaunch

=============================================================================
