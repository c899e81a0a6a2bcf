--------------------------- MODULE RaytraceFrame ---------------------------
(***************************************************************************)
(* The raytracer beside the rasteriser: OptixRender with its six PBOs on   *)
(* one GL context, the camera both of them use, and the frame of           *)
(* implementation.tex:144, g-buffer pass, raytrace pass, final pass.       *)
(* SceneManager::render has the three calls of the raytrace pass in a      *)
(* comment, so that here a frame may run it or not; the PBOs, the first    *)
(* launch, reshape and the raytracer's texture are in use either way.      *)
(*                                                                         *)
(* A pixel of the g-buffer stands for the camera it was rasterised with, a *)
(* pixel of the raytracer for the camera its ray came from: a view and the *)
(* proportions of the picture, which say how far U leans beside V, or the  *)
(* projection beside the height.  Both spread their pixels over the size   *)
(* of the window and take the field of view from the same camera; that a   *)
(* ray goes through the corner of its pixel and not the middle is left out.*)
(* A view is world_to_view taken apart: quarter turns about y and the      *)
(* point it moves to the origin.                                           *)
(***************************************************************************)
EXTENDS Integers

CONSTANTS
  InitSize,      \* <<width, height>> of engine.ini: of g-buffer, PBOs and texture
  WindowSizes,   \* what reshape() may get
  Keys,          \* differences of keys held at an update: strafe and forward
  Turns,         \* quarter turns of the mouse between two updates
  Room,          \* bound: the points the camera may be at
  None

ASSUME SizesAssumption ==
  WindowSizes \subseteq (Nat \ {0}) \X (Nat \ {0}) /\ InitSize \in WindowSizes
ASSUME CameraAssumption ==
  /\ Keys \subseteq (-1..1) \X (-1..1) /\ Turns \subseteq Int
  /\ Room \subseteq Int \X Int /\ <<0, 0>> \in Room

Attachment == {"diffuse", "position", "normal"}   \* of the g-buffer
Order == <<"diffuse", "position", "normal">>      \* in which they are copied
PBOs == Attachment \X {"read", "write"}
(* the order of createGBuffers *)
Created == [j \in 1..6 |-> <<Order[((j - 1) % 3) + 1], IF j <= 3 THEN "read" ELSE "write">>]
Targets == {"unpack", "pack"}
Units == 0..3

View == [at : Int \X Int, rot : 0..3]
Origin == [at |-> <<0, 0>>, rot |-> 0]
Pixel == [view : View, aspect : WindowSizes]

ASSUME NoneAssumption ==
  None \notin Pixel \cup Attachment \cup PBOs \cup Targets \cup {"TEX_RAY"}

VARIABLES
  pc, step,                        \* the thread; buffer to make or to copy
  orientation, pos, world_to_view, \* FirstPersonCamera
  rays,                            \* OptiX variables eye, U, V, W: what a ray's pixel is
  size,                            \* of window and passes
  gbuffer,                         \* pixels of the g-buffer's textures
  shadow,                          \* pixels of shadow_tex
  unit, bound,                     \* active texture unit; texture of every unit
  gl,                              \* what the PBOs and GL say is bound
  bytes,                           \* size of each PBO in GL
  read, traced                     \* contents of the PBOs read and written

cameraVars == <<orientation, pos, world_to_view>>
unitVars == <<unit, bound>>
pboVars == <<gl, bytes, read, traced>>
vars == <<pc, step, cameraVars, rays, size, gbuffer, shadow, unitVars, pboVars>>

Pixels == (1..InitSize[1]) \X (1..InitSize[2])
(* pixels of the images a pass draws *)
Covered == {p \in Pixels : p[1] <= size[1] /\ p[2] <= size[2]}

Area(s) == s[1] * s[2]
(* width / height of both *)
SameAspect(s, t) == s[1] * t[2] = t[1] * s[2]

(* updateProjection has one caller, initScene *)
ViewToClip == InitSize

-----------------------------------------------------------------------------
(* Class PBO.  g.state is bind_state of each PBO, g.target and g.alignment *)
(* are GL's.                                                               *)

Free == [state |-> [p \in PBOs |-> None], target |-> [t \in Targets |-> None],
         alignment |-> [t \in Targets |-> 4], threw |-> FALSE]

(* bind_state of p, and what is bound to a target with which alignment *)
Assign(g, p, t, state, buffer, n) ==
  [state |-> [g.state EXCEPT ![p] = state], target |-> [g.target EXCEPT ![t] = buffer],
   alignment |-> [g.alignment EXCEPT ![t] = n], threw |-> g.threw]

(* "it's already bound to the opposite buffer type!" *)
Bind(g, p, t) ==
  IF g.state[p] \notin {None, t} THEN [g EXCEPT !.threw = TRUE]
  ELSE Assign(g, p, t, t, p, g.alignment[t])

(* fault: the buffer stays bound in GL *)
Unbind_StateOnly(g, p) ==
  IF g.state[p] = None THEN g ELSE Assign(g, p, g.state[p], None, g.target[g.state[p]], 4)
Unbind(g, p) ==
  IF g.state[p] = None THEN g ELSE Assign(g, p, g.state[p], None, None, 4)

Align(g, p, n) ==
  IF g.state[p] = None THEN g
  ELSE Assign(g, p, g.state[p], g.state[p], g.target[g.state[p]], n)

(* what the copies begin with *)
BindIfFree(g, p, t) == IF g.state[p] = None THEN Bind(g, p, t) ELSE g

(* rtuGetSizeForRTformat; that of normals is the one asked for positions *)
ElementSize(p) == IF p[1] = "diffuse" THEN 4 ELSE 16

RGBA8 == 32856
RGBA32F == 34836
RGB16F == 34843
InternalFormat(tex) == IF tex = "diffuse" THEN RGBA8 ELSE RGBA32F
(* getBpp() * getWidth() * getHeight(), times a float's for float formats *)
TextureBytes(tex) ==
  4 * Area(InitSize) *
    IF InternalFormat(tex) >= RGBA32F /\ InternalFormat(tex) <= RGB16F THEN 4 ELSE 1

(* getBufferAlignment *)
BufferAlignment(elementSize) ==
  IF elementSize % 8 = 0 THEN 8 ELSE IF elementSize % 4 = 0 THEN 4
  ELSE IF elementSize % 2 = 0 THEN 2 ELSE 1

-----------------------------------------------------------------------------
(* The camera: rows of the rotation in world_to_view *)
StrafeDirection(view) == <<<<1, 0>>, <<0, 1>>, <<-1, 0>>, <<0, -1>>>>[view.rot + 1]
LookDirection(view)   == <<<<0, -1>>, <<1, 0>>, <<0, 1>>, <<-1, 0>>>>[view.rot + 1]

(* one coordinate of pos after the keys moved it, along the old view *)
Moved(keys, c) ==
  pos[c] + keys[1] * StrafeDirection(world_to_view)[c] + keys[2] * LookDirection(world_to_view)[c]

Turned(turn) == (orientation + turn) % 4

-----------------------------------------------------------------------------
Init ==
  /\ pc = "create" /\ step = 1
  /\ orientation = 0 /\ pos = <<0, 0>> /\ world_to_view = Origin
  /\ rays = None
  /\ size = InitSize
  /\ gbuffer = [p \in Pixels |-> None] /\ shadow = [p \in Pixels |-> None]
  /\ unit = 0 /\ bound = [u \in Units |-> IF u = 0 THEN "TEX_RAY" ELSE None]
  /\ gl = Free /\ bytes = [p \in PBOs |-> 0]
  /\ read = [t \in Attachment |-> [of |-> None, pixels |-> [p \in Pixels |-> None]]]
  /\ traced = [p \in Pixels |-> None]

(* createGBuffers, one buffer *)
CreateBuffer ==
  /\ pc = "create" /\ step <= 6
  /\ LET p == Created[step] IN
       /\ gl' = Unbind(Bind(gl, p, "unpack"), p)
       /\ bytes' = [bytes EXCEPT ![p] = ElementSize(p) * Area(size)]
  /\ step' = step + 1
  /\ UNCHANGED <<pc, cameraVars, rays, size, gbuffer, shadow, unitVars, read, traced>>

(* compileContext, whose error ends the process; no camera is set at its   *)
(* launch, what that writes is nobody's view                               *)
CompileContext ==
  /\ pc = "create" /\ step > 6
  /\ pc' \in {"idle", "exited"}
  /\ UNCHANGED <<step, cameraVars, rays, size, gbuffer, shadow, unitVars, pboVars>>

-----------------------------------------------------------------------------
(* Between frames *)

(* Reshape of all passes *)
Reshape ==
  /\ pc = "idle"
  /\ size' \in WindowSizes
  /\ UNCHANGED <<pc, step, cameraVars, rays, gbuffer, shadow, unitVars, pboVars>>

(* fault: the matrix is made before the camera moves *)
Update_ViewFirst ==
  /\ pc = "idle"
  /\ \E keys \in Keys, turn \in Turns :
       /\ orientation' = Turned(turn)
       /\ pos' = [c \in 1..2 |-> Moved(keys, c)]
       /\ world_to_view' = [at |-> pos, rot |-> Turned(turn)]
  /\ pos' \in Room
  /\ UNCHANGED <<pc, step, rays, size, gbuffer, shadow, unitVars, pboVars>>
(* Kernel::update, by a timer of GLUT *)
Update ==
  /\ pc = "idle"
  /\ \E keys \in Keys, turn \in Turns :
       /\ orientation' = Turned(turn)
       /\ pos' = [c \in 1..2 |-> Moved(keys, c)]
       /\ world_to_view' = [at |-> pos', rot |-> orientation']
  /\ pos' \in Room
  /\ UNCHANGED <<pc, step, rays, size, gbuffer, shadow, unitVars, pboVars>>

-----------------------------------------------------------------------------
(* A frame *)

(* GBuffer_Pass from begin to end.  The nodes draw to the part of the      *)
(* textures the viewport covers and leave units 0 and 1 empty, one of them *)
(* active.                                                                 *)
GBufferPass ==
  /\ pc = "idle"
  /\ gbuffer' = [p \in Pixels |->
       IF p \in Covered THEN [view |-> world_to_view, aspect |-> ViewToClip] ELSE None]
  /\ bound' = [bound EXCEPT ![0] = None, ![1] = None]
  /\ unit' \in {0, 1}
  /\ pc' = "drawn"
  /\ UNCHANGED <<step, cameraVars, rays, size, shadow, pboVars>>

(* as SceneManager::render is *)
SkipRaytrace ==
  /\ pc = "drawn" /\ pc' = "final"
  /\ UNCHANGED <<step, cameraVars, rays, size, gbuffer, shadow, unitVars, pboVars>>

(* the eye is where the camera is, U, V and W come from its matrix, and U  *)
(* is scaled by the aspect of the window as it is now                      *)
SetCamera ==
  /\ pc = "drawn" /\ pc' = "upload" /\ step' = 1
  /\ rays' = [view |-> [at |-> pos, rot |-> world_to_view.rot], aspect |-> size]
  /\ UNCHANGED <<cameraVars, size, gbuffer, shadow, unitVars, pboVars>>

(* bufferFromTextureOnGPU: glBufferData makes the store anew, the texture  *)
(* stays bound to the active unit                                          *)
BufferFromTexture ==
  /\ pc = "upload" /\ step <= 3
  /\ LET tex == Order[step]  p == <<tex, "read">>  g == BindIfFree(gl, p, "pack") IN
       /\ bytes' = [bytes EXCEPT ![p] = TextureBytes(tex)]
       /\ read' = [read EXCEPT ![tex] = [of |-> tex, pixels |-> gbuffer]]
       /\ bound' = [bound EXCEPT ![unit] = tex]
       /\ gl' = Unbind(g, p)
  /\ step' = step + 1
  /\ UNCHANGED <<pc, cameraVars, rays, size, gbuffer, shadow, unit, traced>>

AtLaunch == pc = "upload" /\ step > 3

Trace(pixels) == [p \in Pixels |-> IF p \in pixels THEN rays ELSE traced[p]]

(* the buffers keep the size they were made with *)
Fits == size[1] <= InitSize[1] /\ size[2] <= InitSize[2]

Launch ==
  /\ AtLaunch /\ Fits
  /\ traced' = Trace(Covered)
  /\ pc' = "copy"
  /\ UNCHANGED <<step, cameraVars, rays, size, gbuffer, shadow, unitVars, gl, bytes, read>>

LaunchOverEnd ==
  /\ AtLaunch /\ ~Fits
  /\ pc' = "undefined"
  /\ UNCHANGED <<step, cameraVars, rays, size, gbuffer, shadow, unitVars, pboVars>>

(* fault: the exception is reported and render goes on *)
LaunchFails_GoesOn ==
  /\ AtLaunch
  /\ \E some \in SUBSET Covered : traced' = Trace(some)
  /\ pc' = "copy"
  /\ UNCHANGED <<step, cameraVars, rays, size, gbuffer, shadow, unitVars, gl, bytes, read>>
(* an exception of launch, some rays may have been traced: render returns *)
LaunchFails ==
  /\ AtLaunch
  /\ \E some \in SUBSET Covered : traced' = Trace(some)
  /\ pc' = "final"
  /\ UNCHANGED <<step, cameraVars, rays, size, gbuffer, shadow, unitVars, gl, bytes, read>>

(* pbo2Texture, after glActiveTexture(GL_TEXTURE0).  copyToTextureOnGPU    *)
(* unbinds too, so that the last unbind does nothing                       *)
Pbo2Texture ==
  /\ pc = "copy" /\ pc' = "final"
  /\ LET p == <<"diffuse", "write">>
         g == BindIfFree(Align(Bind(gl, p, "unpack"), p, BufferAlignment(ElementSize(p))),
                         p, "unpack") IN
       gl' = Unbind(Unbind(g, p), p)
  /\ shadow' = traced
  /\ unit' = 0 /\ bound' = [bound EXCEPT ![0] = None]
  /\ UNCHANGED <<step, cameraVars, rays, size, gbuffer, bytes, read, traced>>

(* Final_Pass from begin to end, as in FramePipeline: the raytracer's      *)
(* texture takes unit 0 and stays, the g-buffer's take 1 to 3 and leave    *)
FinalPass ==
  /\ pc = "final" /\ pc' = "idle"
  /\ unit' = 3
  /\ bound' = [u \in Units |-> IF u = 0 THEN "TEX_RAY" ELSE None]
  /\ UNCHANGED <<step, cameraVars, rays, size, gbuffer, shadow, pboVars>>

RaytracePass ==
  SetCamera \/ BufferFromTexture \/ Launch \/ LaunchOverEnd \/ LaunchFails \/ Pbo2Texture

Main ==
  \/ CreateBuffer \/ CompileContext
  \/ GBufferPass \/ SkipRaytrace \/ RaytracePass \/ FinalPass

Next == Main \/ Reshape \/ Update

Spec == Init /\ [][Next]_vars

-----------------------------------------------------------------------------
(* Properties *)

Image == [Pixels -> Pixel \cup {None}]

(* The camera's, the raytracer's and GL's state have their types.          *)
TypeOK ==
  /\ pc \in {"create", "idle", "drawn", "upload", "copy", "final", "exited", "undefined"}
  /\ step \in 1..7
  /\ orientation \in 0..3 /\ pos \in Int \X Int /\ world_to_view \in View
  /\ rays \in Pixel \cup {None}
  /\ size \in WindowSizes
  /\ gbuffer \in Image /\ shadow \in Image /\ traced \in Image
  /\ unit \in Units /\ bound \in [Units -> Attachment \cup {"TEX_RAY", None}]
  /\ gl \in [state : [PBOs -> Targets \cup {None}], target : [Targets -> PBOs \cup {None}],
             alignment : [Targets -> Nat], threw : BOOLEAN]
  /\ bytes \in [PBOs -> Nat]
  /\ read \in [Attachment -> [of : Attachment \cup {None}, pixels : Image]]

(* When rays are launched, each buffer they may read holds the g-buffer    *)
(* texture it is named after, and every pixel of it that the launch covers *)
(* was rasterised, in this frame, from where the rays start and turned as  *)
(* they are: matrix, position and orientation of the camera never part     *)
(* (FirstPersonCamera::update, OptixRender::render).  A ray also goes the  *)
(* way its pixel was drawn exactly while the window has the proportions it *)
(* was opened with: reshape() changes U and not the projection.            *)
RaysMatchRaster ==
  AtLaunch => \A t \in Attachment :
    /\ read[t].of = t
    /\ \A p \in Covered : LET drawn == read[t].pixels[p] IN
         /\ drawn.view = rays.view
         /\ SameAspect(drawn.aspect, rays.aspect) <=> SameAspect(size, InitSize)

(* Whatever is copied into them, the buffers keep in GL the size OptiX was *)
(* told: textures count bytes by their format, buffers by their elements.  *)
SizesAsDeclared ==
  pc # "create" => \A p \in PBOs : bytes[p] = ElementSize(p) * Area(InitSize)

(* Between the raytracer's calls no PBO is bound or believes it is, and    *)
(* pixels are aligned as GL does by itself: what other code uploads comes  *)
(* from its own memory. No bind finds a buffer bound to the other target.  *)
NothingLeftBound == gl = Free

(* When a frame begins no texture of the g-buffer is bound to any unit,    *)
(* even after a launch failed and render returned with one left behind.    *)
NoFeedbackLoop == pc = "idle" => \A u \in Units : bound[u] \notin Attachment

(* What the final pass is given changes only after a launch that did not   *)
(* throw.  Where the window is, it is then of this launch, by the view the *)
(* g-buffer beside it was drawn with: in a window of the first size, the   *)
(* whole picture.  In a smaller one the rest, beside a g-buffer that is    *)
(* empty there, is whatever any launch before traced last, one that failed *)
(* included: pbo2Texture copies the whole buffer.                          *)
WindowIsOfOneLaunch ==
  [][shadow' # shadow =>
       /\ \A p \in Covered : shadow'[p] = rays /\ gbuffer[p].view = rays.view
       /\ size = InitSize => \A p \in Pixels : shadow'[p] = rays
       /\ \A p \in Pixels \ Covered : shadow'[p] = traced[p] /\ gbuffer[p] = None]_vars

=============================================================================
