--------------------------- MODULE FramePipeline ---------------------------
(***************************************************************************)
(* One GL context through many frames: Kernel::render, the g-buffer pass,  *)
(* the nodes of the scene, the final pass, and Kernel::reshape between     *)
(* frames.  Everything here communicates through the state of the GL       *)
(* context: what one pass, node or frame leaves bound, the next one finds. *)
(*                                                                         *)
(* A program stands for a Shader (a pipeline of separable stages); a       *)
(* texture for its name; the g-buffer's image for the set of fragments     *)
(* drawn into it, each with the material of its object, the material id    *)
(* and the texture its program used.  Units, samplers and materials are    *)
(* those of the code; vertices, matrices, lights and pixels are left out.  *)
(* The raytrace pass is not run: SceneManager::render has it commented out.*)
(***************************************************************************)
EXTENDS Integers, Sequences

CONSTANTS
  SceneLists,   \* the scenes: sequences of nodes, in drawing order
  Texture,      \* textures of materials
  Material,     \* materials of nodes
  Id,           \* Material::id, [Material -> 0..15]
  Registered,   \* Final_Pass::materials, in the order of addMaterial
  Size,         \* window sizes
  InitSize,     \* size of engine.ini, the passes' size at first
  None

Attachment == {"TEX_DIFF", "TEX_POS", "TEX_NORM"}   \* of the g-buffer's FBO
Units == 0..3
Program == {"deferred", "spacejet", "final"}

(* SceneNode::textures: slot -> texture and the sampler it is given to *)
Slots == UNION {[slots -> [tex : Texture, program : Program, sampler : {"diffuse_tex", "normal_tex"}]] :
                  slots \in SUBSET {0, 1}}
Node == [kind : {"spacejet", "mesh", "optix"}, textures : Slots, material : Material \cup {None}]

(* initScene adds the spacejet, with both its textures, before the rest *)
ASSUME ScenesAssumption ==
  \A s \in SceneLists :
    /\ s \in Seq(Node) /\ s # << >>
    /\ s[1].kind = "spacejet" /\ DOMAIN s[1].textures = {0, 1}

(* the samplers of a node are those of the program it draws with *)
OwnProgram(node) == IF node.kind = "spacejet" THEN "spacejet" ELSE "deferred"
ASSUME SamplersAssumption ==
  \A s \in SceneLists : \A k \in DOMAIN s : \A slot \in DOMAIN s[k].textures :
    /\ s[k].textures[slot].program = OwnProgram(s[k])
    /\ s[k].textures[slot].sampler = IF slot = 0 THEN "diffuse_tex" ELSE "normal_tex"

ASSUME MaterialsAssumption ==
  /\ Id \in [Material -> 0..15]
  /\ Registered \in Seq(Material)

ASSUME NamesAssumption ==
  InitSize \in Size /\ Texture \cap (Attachment \cup {"TEX_RAY", None}) = {}
    /\ None \notin Attachment \cup {"TEX_RAY"} /\ None \notin Material

VARIABLES
  pc, next, scene,             \* the frame: step, node to draw, SceneManager::scene
  window, passSize,            \* the window's size; GBuffer_Pass::w, h
  viewport, temp,              \* GL viewport 0; GBuffer_Pass::temp_w, temp_h
  framebuffer, drawBuffers,    \* bound framebuffer; draw buffers of the g-buffer
  boundShaderStack, pipeline,  \* ShaderLoader's stack; the bound program pipeline
  unit, bound,                 \* active texture unit; texture of every unit
  samplers, materialId, materialData,  \* uniforms: sampler units, ids, material arrays
  cleared, image               \* attachments cleared in this frame; fragments since

frameVars  == <<pc, next, scene>>
sizeVars   == <<window, passSize, viewport, temp>>
targetVars == <<framebuffer, drawBuffers>>
shaderVars == <<boundShaderStack, pipeline>>
unitVars   == <<unit, bound>>
uniVars    == <<samplers, materialId, materialData>>
imageVars  == <<cleared, image>>
vars == <<frameVars, sizeVars, targetVars, shaderVars, unitVars, uniVars, imageVars>>

-----------------------------------------------------------------------------
(* ShaderLoader::push_bind and pop_bind *)
PushBind(program) ==
  /\ boundShaderStack' = Append(boundShaderStack, program)
  /\ pipeline' = program

(* fault: the shader below is not bound again *)
PopBind_Unbinds ==
  /\ boundShaderStack' = SubSeq(boundShaderStack, 1, Len(boundShaderStack) - 1)
  /\ pipeline' = None
PopBind ==
  LET rest == SubSeq(boundShaderStack, 1, Len(boundShaderStack) - 1) IN
  /\ boundShaderStack' = rest
  /\ pipeline' = IF rest = << >> THEN None ELSE rest[Len(rest)]

(* FBO::bind_rt and unbind_rt: the textures of an FBO, from a unit on *)
TargetAt(u, offset) == IF u = offset THEN "TEX_DIFF" ELSE IF u = offset + 1 THEN "TEX_POS" ELSE "TEX_NORM"
BindRT(units, offset) ==
  [u \in Units |-> IF u \in offset..(offset + 2) THEN TargetAt(u, offset) ELSE units[u]]

UnbindRT_OneUnit(units, offset) ==   \* fault: the texture's index is not added
  [u \in Units |-> IF u = offset THEN None ELSE units[u]]
UnbindRT(units, offset) ==
  [u \in Units |-> IF u \in offset..(offset + 2) THEN None ELSE units[u]]

(* the unit a loop over an unordered_map of slots leaves active; Cube, CubeSphere and
   Mesh render with the same loops *)
LastUnit(node) == IF DOMAIN node.textures = {} THEN {unit} ELSE DOMAIN node.textures

-----------------------------------------------------------------------------
Init ==
  /\ scene \in SceneLists /\ pc = "idle" /\ next = 0
  (* the window may be made full screen *)
  /\ window \in Size /\ viewport = window /\ passSize = InitSize /\ temp = None
  /\ framebuffer = "window" /\ drawBuffers = {"TEX_DIFF"}
  /\ boundShaderStack = << >> /\ pipeline = None
  (* unit 0 holds the texture made last *)
  /\ unit = 0
  /\ \E t \in Texture : bound = [u \in Units |-> IF u = 0 THEN t ELSE None]
  /\ samplers = [p \in Program |->
                  IF p = "final" THEN [t \in Attachment \cup {"TEX_RAY"} |-> 0]
                  ELSE [t \in {"diffuse_tex", "normal_tex"} |-> 0]]
  /\ materialId = [p \in {"deferred", "spacejet"} |-> 0]
  /\ materialData = [id \in 0..15 |-> None]
  /\ cleared = {} /\ image = {}

(* Kernel::reshape; GLUT calls it between frames *)
Reshape(size) ==
  /\ pc = "idle"
  /\ window' = size /\ viewport' = size /\ passSize' = size
  /\ UNCHANGED <<frameVars, temp, targetVars, shaderVars, unitVars, uniVars, imageVars>>

(* fault: the draw buffers are restored to one after every frame *)
BeginGBuffer_OneBuffer ==
  /\ pc = "idle"
  /\ PushBind("deferred")
  /\ framebuffer' = "gbuffer"
  /\ cleared' = {"TEX_DIFF"} /\ image' = {}
  /\ temp' = viewport /\ viewport' = passSize
  /\ unit' = 0
  /\ drawBuffers' = {"TEX_DIFF"}
  /\ pc' = "draw" /\ next' = 1
  /\ UNCHANGED <<scene, window, passSize, bound, uniVars>>

(* GBuffer_Pass::begin.  The clear reaches the draw buffers set so far.    *)
BeginGBuffer ==
  /\ pc = "idle"
  /\ PushBind("deferred")
  /\ framebuffer' = "gbuffer"
  /\ cleared' = drawBuffers /\ image' = {}
  /\ temp' = viewport /\ viewport' = passSize
  /\ unit' = 0
  /\ drawBuffers' = Attachment
  /\ pc' = "draw" /\ next' = 1
  /\ UNCHANGED <<scene, window, passSize, bound, uniVars>>

AtNode == pc = "draw" /\ next <= Len(scene)
TheNode == scene[next]

(* OptixInstance::render does nothing *)
SkipOptix ==
  /\ AtNode /\ TheNode.kind = "optix"
  /\ next' = next + 1
  /\ UNCHANGED <<pc, scene, sizeVars, targetVars, shaderVars, unitVars, uniVars, imageVars>>

(* Mesh, Cube, CubeSphere and Spacejet::render up to glDrawElements.  The  *)
(* material id goes to active_program, which is the g-buffer's shader.     *)
BindNode ==
  /\ AtNode /\ TheNode.kind # "optix"
  /\ IF TheNode.kind = "spacejet" THEN PushBind("spacejet") ELSE UNCHANGED shaderVars
  /\ bound' = [u \in Units |-> IF u \in DOMAIN TheNode.textures
                               THEN TheNode.textures[u].tex ELSE bound[u]]
  /\ unit' \in LastUnit(TheNode)
  /\ samplers' = [p \in Program |-> [t \in DOMAIN samplers[p] |->
                   IF \E u \in DOMAIN TheNode.textures :
                        TheNode.textures[u].program = p /\ TheNode.textures[u].sampler = t
                   THEN CHOOSE u \in DOMAIN TheNode.textures : TheNode.textures[u].sampler = t
                   ELSE samplers[p][t]]]
  /\ materialId' = IF TheNode.material = None THEN materialId
                   ELSE [materialId EXCEPT !["deferred"] = Id[TheNode.material]]
  /\ pc' = "bound"
  /\ UNCHANGED <<next, scene, sizeVars, targetVars, materialData, imageVars>>

(* what a sampler of the bound program reads, whichever class of node draws *)
Sampled(sampler) == bound[samplers[pipeline][sampler]]

(* fault: the textures stay bound *)
DrawNode_KeepsTextures ==
  /\ pc = "bound"
  /\ image' = image \cup {[material |-> TheNode.material, id |-> materialId[pipeline],
                           tex |-> Sampled("diffuse_tex")]}
  /\ UNCHANGED unitVars
  /\ IF TheNode.kind = "spacejet" THEN PopBind ELSE UNCHANGED shaderVars
  /\ pc' = "draw" /\ next' = next + 1
  /\ UNCHANGED <<scene, sizeVars, targetVars, uniVars, cleared>>

(* glDrawElements and the rest of render *)
DrawNode ==
  /\ pc = "bound"
  /\ image' = image \cup {[material |-> TheNode.material, id |-> materialId[pipeline],
                           tex |-> Sampled("diffuse_tex")]}
  /\ bound' = [u \in Units |-> IF u \in DOMAIN TheNode.textures THEN None ELSE bound[u]]
  /\ unit' \in LastUnit(TheNode)
  /\ IF TheNode.kind = "spacejet" THEN PopBind ELSE UNCHANGED shaderVars
  /\ pc' = "draw" /\ next' = next + 1
  /\ UNCHANGED <<scene, sizeVars, targetVars, uniVars, cleared>>

(* GBuffer_Pass::end *)
EndGBuffer ==
  /\ pc = "draw" /\ next > Len(scene)
  /\ PopBind
  /\ framebuffer' = "window"
  /\ viewport' = temp
  /\ pc' = "drawn"
  /\ UNCHANGED <<next, scene, window, passSize, temp, drawBuffers, unitVars, uniVars, imageVars>>

(* Final_Pass::begin: the raytracer's texture on unit 0, the g-buffer's    *)
(* from unit 1 on, the data of the registered materials                    *)
FinalSamplers == [t \in {"TEX_RAY"} \cup Attachment |->
  CASE t = "TEX_RAY" -> 0 [] t = "TEX_DIFF" -> 1 [] t = "TEX_POS" -> 2 [] t = "TEX_NORM" -> 3]

DataOf(id) ==
  LET set == {k \in DOMAIN Registered : Id[Registered[k]] = id}
  IN  IF set = {} THEN materialData[id]
      ELSE Registered[CHOOSE k \in set : \A j \in set : j <= k]

BeginFinal ==
  /\ pc = "drawn"
  /\ PushBind("final")
  /\ bound' = BindRT([bound EXCEPT ![0] = "TEX_RAY"], 1)
  /\ unit' = 3
  /\ samplers' = [samplers EXCEPT !["final"] = FinalSamplers]
  /\ materialData' = [id \in 0..15 |-> DataOf(id)]
  /\ pc' = "quad"
  /\ UNCHANGED <<next, scene, sizeVars, targetVars, materialId, imageVars>>

(* Final_Pass::render and end.  OptixRender::unbind unbinds the unit that  *)
(* is active, not its own: the raytracer's texture stays on unit 0.        *)
EndFinal ==
  /\ pc = "quad"
  /\ PopBind
  /\ bound' = UnbindRT([bound EXCEPT ![unit] = None], 1)
  /\ unit' = 3
  /\ pc' = "idle"
  /\ UNCHANGED <<next, scene, sizeVars, targetVars, uniVars, imageVars>>

(* display(): the steps of one frame, in their order *)
Frame ==
  \/ BeginGBuffer
  \/ SkipOptix \/ BindNode \/ DrawNode
  \/ EndGBuffer
  \/ BeginFinal \/ EndFinal

Next == Frame \/ \E size \in Size : Reshape(size)

(* Kernel::run posts a redisplay on every turn of its loop and a frame runs *)
(* to its end; nothing obliges the user to resize the window.              *)
Spec == Init /\ [][Next]_vars /\ WF_vars(Frame)

-----------------------------------------------------------------------------
(* Properties *)

TypeOK ==
  /\ scene \in SceneLists
  /\ pc \in {"idle", "draw", "bound", "drawn", "quad"} /\ next \in Nat
  /\ window \in Size /\ passSize \in Size /\ viewport \in Size /\ temp \in Size \cup {None}
  /\ framebuffer \in {"window", "gbuffer"} /\ drawBuffers \subseteq Attachment
  /\ boundShaderStack \in Seq(Program) /\ pipeline \in Program \cup {None}
  /\ unit \in Units
  /\ bound \in [Units -> Texture \cup Attachment \cup {"TEX_RAY", None}]
  /\ DOMAIN samplers = Program
  /\ samplers["final"] \in [Attachment \cup {"TEX_RAY"} -> Units]
  /\ \A p \in {"deferred", "spacejet"} : samplers[p] \in [{"diffuse_tex", "normal_tex"} -> Units]
  /\ materialId \in [{"deferred", "spacejet"} -> 0..15]
  /\ materialData \in [0..15 -> Material \cup {None}]
  /\ cleared \subseteq Attachment
  /\ image \subseteq [material : Material \cup {None}, id : 0..15,
                      tex : Texture \cup Attachment \cup {"TEX_RAY", None}]

(* While the g-buffer is the target, none of its textures is bound to a    *)
(* unit: drawing never reads what it writes, in whatever frame and after   *)
(* whatever the frame before left bound (Final_Pass::end).                 *)
NoFeedbackLoop ==
  framebuffer = "gbuffer" => \A u \in Units : bound[u] \notin Attachment

(* The stack of ShaderLoader and the bound pipeline agree, and the frame   *)
(* draws with the program it means to: the g-buffer's between nodes, the   *)
(* spacejet's own under a spacejet, the final pass's under the quad, and   *)
(* none between frames.                                                    *)
ProgramInUse ==
  /\ pipeline = CASE pc \in {"idle", "drawn"} -> None
                  [] pc = "quad"  -> "final"
                  [] pc = "draw"  -> "deferred"
                  [] pc = "bound" -> OwnProgram(TheNode)
  /\ boundShaderStack = << >> <=> pc \in {"idle", "drawn"}

(* A node samples its own textures, and one without a diffuse texture      *)
(* samples nothing for it: neither another node's texture nor the          *)
(* raytracer's, which the frame before leaves on unit 0.                   *)
DrawsOwnTextures ==
  pc = "bound" =>
    /\ \A slot \in DOMAIN TheNode.textures :
         Sampled(TheNode.textures[slot].sampler) = TheNode.textures[slot].tex
    /\ 0 \notin DOMAIN TheNode.textures => Sampled("diffuse_tex") = None

(* The quad of the final pass reads every attachment of the g-buffer by    *)
(* the sampler named after it.                                             *)
FinalReadsGBuffer ==
  pc = "quad" => \A t \in Attachment : bound[samplers["final"][t]] = t

(* The g-buffer pass draws with its own size, the rest of the frame and    *)
(* the next one with the window's, however often the window is resized.    *)
ViewportFollowsWindow ==
  viewport = IF framebuffer = "gbuffer" THEN passSize ELSE window

(* From the second frame on, all that the quad reads was cleared in its    *)
(* own frame (in the first one, draw buffers are set after the clear).     *)
ClearedFromSecondFrame == <>[](pc = "quad" => cleared = Attachment)

(* "Materials say something about the basic material properties of the     *)
(* objects they're associated with" (implementation.tex): the final pass   *)
(* shades a fragment with the data of its object's material.               *)
ShadedWithOwnMaterial ==
  pc = "quad" => \A frag \in image :
    frag.material # None => materialData[frag.id] = frag.material
=============================================================================
